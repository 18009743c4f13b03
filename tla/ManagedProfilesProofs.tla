----------------------- MODULE ManagedProfilesProofs -----------------------
(***************************************************************************)
(* Theorems about ManagedProfiles, for every number of users and requests, *)
(* all claims a provider may make and whatever handles come of them.       *)
(***************************************************************************)
EXTENDS ManagedProfiles, WellFoundedInduction, TLAPS

\* Concurrent first sign-ins of one user, each with its own desired or suffixed
\* handle, leave the user with one profile.
OneProfilePerUser ==
    \A g, h \in DOMAIN profiles : profiles[g].owner = profiles[h].owner => g = h

(***************************************************************************)
(* The inductive invariant.  A request under way acts for one user, holds  *)
(* only a row of that user, and is about to create only a handle made for  *)
(* that user.  One that is told of a profile, or that began when its user  *)
(* had one, has it for ever, so it never gets as far as creating another.  *)
(***************************************************************************)
HoldsOwnRow ==
    \A r \in Requests :
        /\ pc[r] \in Waiting => who[r] \in Users
        /\ pc[r] \in Waiting \ {"read"} => row[r] \in Rows /\ row[r].owner = who[r]
        /\ pc[r] \in {"lookup", "create", "again"} => handle[r] \in Wanted
        /\ pc[r] = "suffix" => handle[r] \in Handles
        /\ pc[r] \in {"rename", "write"} => handle[r] \in ProfileOf(who[r])

AnswersAtEnd == \A r \in Requests : answer[r] # "none" => pc[r] = "done"

ServedHaveProfile ==
    \A r \in Requests : served[r] =>
        /\ ProfileOf(who[r]) # {}
        /\ pc[r] \notin {"idle", "create", "again", "suffix"}

ProfileInv ==
    /\ TypeOK
    /\ HoldsOwnRow
    /\ AnswersAtEnd
    /\ ServedHaveProfile
    /\ OneProfilePerUser
    /\ AnswersOwnProfile
    /\ EstablishedUsersServed

\* No profile and no request at first.
LEMMA ProfileInit == Init => ProfileInv
<1>1. Init => TypeOK
  BY ProfileAssumption DEF Init, TypeOK, IsTable
<1> QED
  BY <1>1 DEF Init, ProfileInv, HoldsOwnRow, AnswersAtEnd, ServedHaveProfile, OneProfilePerUser,
     AnswersOwnProfile, EstablishedUsersServed, Waiting

\* The handle a user's claims give, and the one with the user's suffix, are handles.
LEMMA HandleTypes ==
    /\ Wanted \subseteq Handles
    /\ \A c \in Claims, u \in Users : DesiredHandle(c.candidates, u) \in Wanted
    /\ \A h \in Wanted, u \in Users : SuffixedHandle(h, u) \in Handles
BY DEF Wanted, Handles

-----------------------------------------------------------------------------
(***************************************************************************)
(* The table.  Its two statements never take a handle from its owner.      *)
(***************************************************************************)
OwnersKept ==
    \A h \in DOMAIN profiles : h \in DOMAIN profiles' /\ profiles'[h].owner = profiles[h].owner

\* UPDATE replaces rows of one user by a row of that user.
LEMMA UpdateTable ==
    ASSUME TypeOK, NEW new \in Rows, UpdateProfile(new)
    PROVE  /\ IsTable(profiles', Handles, Rows)
           /\ OwnersKept
           /\ DOMAIN profiles' = DOMAIN profiles
BY DEF TypeOK, IsTable, UpdateProfile, OwnersKept

\* INSERT adds one row, under a handle and for a user that had none.
LEMMA InsertProfile ==
    ASSUME TypeOK, NEW h \in Handles, NEW new \in Rows, ~Conflicts(h, new.owner),
           profiles' = Insert(profiles, h, new)
    PROVE  /\ IsTable(profiles', Handles, Rows)
           /\ OwnersKept
           /\ DOMAIN profiles' = DOMAIN profiles \cup {h}
           /\ profiles'[h] = new
           /\ \A g \in DOMAIN profiles : profiles[g].owner # new.owner
BY DEF TypeOK, IsTable, Conflicts, ProfileOf, Insert, OwnersKept

\* What a user has stays the user's.
LEMMA OwnKept ==
    ASSUME OwnersKept, NEW u
    PROVE  ProfileOf(u) \subseteq ProfileOf(u)'
BY DEF OwnersKept, ProfileOf

(***************************************************************************)
(* One step of one request r: it keeps the invariant if it keeps owners,   *)
(* leaves the other requests alone and leaves r in a state that fits.      *)
(***************************************************************************)
Fits(r) ==
    /\ pc[r] \in Waiting => who[r] \in Users
    /\ pc[r] \in Waiting \ {"read"} => row[r] \in Rows /\ row[r].owner = who[r]
    /\ pc[r] \in {"lookup", "create", "again"} => handle[r] \in Wanted
    /\ pc[r] = "suffix" => handle[r] \in Handles
    /\ pc[r] \in {"rename", "write"} => handle[r] \in ProfileOf(who[r])
    /\ answer[r] # "none" => pc[r] = "done"
    /\ served[r] => /\ ProfileOf(who[r]) # {}
                    /\ pc[r] \notin {"idle", "create", "again", "suffix"}
                    /\ answer[r] \notin {"conflict", "missing"}
    /\ answer[r] \in {"profile", "saved"} => handle[r] \in ProfileOf(who[r])

\* The invariant is that every request fits, beside the types and the one profile each.
LEMMA EachFits ==
    ASSUME ProfileInv
    PROVE  \A r \in Requests : Fits(r)
BY DEF ProfileInv, HoldsOwnRow, AnswersAtEnd, ServedHaveProfile, AnswersOwnProfile,
   EstablishedUsersServed, Fits, ProfileOf

\* And the other way round, after a step.
LEMMA AllFit ==
    ASSUME TypeOK', OneProfilePerUser', \A r \in Requests : Fits(r)'
    PROVE  ProfileInv'
BY DEF ProfileInv, HoldsOwnRow, AnswersAtEnd, ServedHaveProfile, AnswersOwnProfile,
   EstablishedUsersServed, Fits, ProfileOf

\* A request that a step leaves alone still fits, since profiles do not go away.
LEMMA OthersFit ==
    ASSUME OwnersKept, NEW q \in Requests, Fits(q),
           UNCHANGED <<pc[q], who[q], row[q], handle[q], answer[q], served[q]>>
    PROVE  Fits(q)'
BY OwnKept DEF Fits

\* Every step keeps the types, the owners, the one profile of each user and what every
\* request holds.
LEMMA ProfileNext == ProfileInv /\ [Next]_vars => ProfileInv' /\ OwnersKept
<1> SUFFICES ASSUME ProfileInv, [Next]_vars PROVE ProfileInv' /\ OwnersKept
  OBVIOUS
<1> USE DEF vars
<1>t. TypeOK /\ OneProfilePerUser /\ \A r \in Requests : Fits(r)
  BY EachFits DEF ProfileInv
<1>a. ASSUME OwnersKept, TypeOK', OneProfilePerUser',
             NEW r \in Requests, Fits(r)',
             \A q \in Requests \ {r} :
                UNCHANGED <<pc[q], who[q], row[q], handle[q], answer[q], served[q]>>
      PROVE  ProfileInv' /\ OwnersKept
  <2>1. \A q \in Requests : Fits(q)'
    BY <1>a, <1>t, OthersFit
  <2> QED  BY <1>a, <2>1, AllFit
<1>b. ASSUME UNCHANGED profiles PROVE OwnersKept /\ OneProfilePerUser'
  BY <1>b, <1>t DEF OwnersKept, OneProfilePerUser
<1>1. CASE UNCHANGED vars
  BY <1>1, <1>b, <1>t DEF ProfileInv, TypeOK, HoldsOwnRow, AnswersAtEnd, ServedHaveProfile,
     AnswersOwnProfile, EstablishedUsersServed, ProfileOf
<1>2. ASSUME NEW u \in Users, NEW c \in Claims, ChangeClaims(u, c) PROVE ProfileInv' /\ OwnersKept
  <2>1. TypeOK'
    BY <1>2, <1>t DEF ChangeClaims, TypeOK
  <2>2. OneProfilePerUser' /\ OwnersKept
    BY <1>2, <1>b DEF ChangeClaims
  <2>3. \A q \in Requests : Fits(q)'
    BY <1>2, <1>t, <2>2, OthersFit DEF ChangeClaims
  <2> QED  BY <2>1, <2>2, <2>3, AllFit
<1>3. ASSUME NEW u \in Users, NEW v \in Requests, BeginVisit(v, u) PROVE ProfileInv' /\ OwnersKept
  <2>1. claims[u] \in Claims /\ claims[u].name \in Names
    BY <1>t, ProfileAssumption DEF TypeOK
  <2>2. FreshRow(u) \in Rows /\ FreshRow(u).owner = u
    BY <2>1, ProfileAssumption DEF FreshRow, Rows
  <2>3. DesiredHandle(claims[u].candidates, u) \in Wanted
    BY <2>1, HandleTypes
  <2>4. TypeOK'
    BY <1>3, <1>t, <2>2, <2>3, HandleTypes DEF BeginVisit, Step, TypeOK, Waiting
  <2>5. answer[v] = "none"
    BY <1>3, <1>t DEF BeginVisit, Step, Fits
  <2>6. Fits(v)'
    BY <1>3, <1>t, <2>2, <2>3, <2>5 DEF BeginVisit, Step, Fits, TypeOK, Waiting, ProfileOf
  <2>7. \A q \in Requests \ {v} :
           UNCHANGED <<pc[q], who[q], row[q], handle[q], answer[q], served[q]>>
    BY <1>3, <1>t DEF BeginVisit, Step, TypeOK
  <2> QED  BY <1>3, <1>a, <1>b, <2>4, <2>6, <2>7 DEF BeginVisit
<1>4. ASSUME NEW u \in Users, NEW e \in Requests, BeginEdit(e, u) PROVE ProfileInv' /\ OwnersKept
  <2>1. TypeOK'
    BY <1>4, <1>t DEF BeginEdit, Step, TypeOK, Waiting
  <2>2. answer[e] = "none"
    BY <1>4, <1>t DEF BeginEdit, Step, Fits
  <2>3. Fits(e)'
    BY <1>4, <1>t, <2>2 DEF BeginEdit, Step, Fits, TypeOK, Waiting, ProfileOf
  <2>4. \A q \in Requests \ {e} :
           UNCHANGED <<pc[q], who[q], row[q], handle[q], answer[q], served[q]>>
    BY <1>4, <1>t DEF BeginEdit, Step, TypeOK
  <2> QED  BY <1>4, <1>a, <1>b, <2>1, <2>3, <2>4 DEF BeginEdit
<1>5. ASSUME NEW r \in Requests, Advance(r) PROVE ProfileInv' /\ OwnersKept
  <2>0. /\ UNCHANGED <<claims, who, served, changes>>
        /\ \A q \in Requests \ {r} :
             UNCHANGED <<pc[q], who[q], row[q], handle[q], answer[q], served[q]>>
    BY <1>5, <1>t DEF Advance, Lookup, Rename, Create, LookupAgain, VisitFails, ReadProfile,
       WriteProfile, EditFails, TrySuffix, End, TypeOK
  <2>f. Fits(r)
    BY <1>t
  <2>1. CASE Lookup(r)
    <3>1. ASSUME NEW h \in OwnRows(r), handle' = [handle EXCEPT ![r] = h],
                 row' = [row EXCEPT ![r] = [profiles[h] EXCEPT !.name = row[r].name]],
                 pc' = [pc EXCEPT ![r] = "rename"], UNCHANGED <<profiles, answer, faults>>,
                 pc[r] = "lookup"
          PROVE  TypeOK' /\ Fits(r)'
      <4>1. /\ h \in Handles /\ h \in ProfileOf(who[r]) /\ profiles[h] \in Rows
            /\ profiles[h].owner = who[r] /\ row[r].name \in Names
        BY <1>t, <2>f, <3>1 DEF OwnRows, ProfileOf, TypeOK, IsTable, Fits, Rows, Waiting
      <4>2. /\ [profiles[h] EXCEPT !.name = row[r].name] \in Rows
            /\ [profiles[h] EXCEPT !.name = row[r].name].owner = who[r]
        BY <4>1 DEF Rows
      <4>3. TypeOK'
        BY <1>t, <2>0, <3>1, <4>1, <4>2 DEF TypeOK, Waiting
      <4>4. Fits(r)'
        BY <1>t, <2>0, <2>f, <3>1, <4>1, <4>2 DEF Fits, TypeOK, Waiting, ProfileOf
      <4> QED  BY <4>3, <4>4
    <3>2. ASSUME NEW h \in OwnRows(r), handle' = [handle EXCEPT ![r] = h], End(r, "profile"),
                 UNCHANGED <<profiles, row, faults>>, pc[r] = "lookup"
          PROVE  TypeOK' /\ Fits(r)'
      <4>1. h \in Handles /\ h \in ProfileOf(who[r])
        BY <1>t, <3>2 DEF OwnRows, ProfileOf, TypeOK, IsTable
      <4>2. TypeOK'
        BY <1>t, <2>0, <3>2, <4>1 DEF TypeOK, End
      <4>3. Fits(r)'
        BY <1>t, <2>0, <2>f, <3>2, <4>1 DEF Fits, TypeOK, Waiting, ProfileOf, End
      <4> QED  BY <4>2, <4>3
    <3>3. ASSUME OwnRows(r) = {}, pc' = [pc EXCEPT ![r] = "create"], pc[r] = "lookup",
                 UNCHANGED <<profiles, row, handle, answer, faults>>
          PROVE  TypeOK' /\ Fits(r)'
      <4>1. TypeOK'
        BY <1>t, <2>0, <3>3 DEF TypeOK, Waiting
      <4>2. Fits(r)'
        BY <1>t, <2>0, <2>f, <3>3 DEF Fits, TypeOK, Waiting, ProfileOf, OwnRows
      <4> QED  BY <4>1, <4>2
    <3>4. TypeOK' /\ Fits(r)'
      BY <2>1, <3>1, <3>2, <3>3 DEF Lookup
    <3> QED  BY <2>1, <2>0, <3>4, <1>a, <1>b DEF Lookup
\* A request that has written its row, or failed to, and ends.
  <2>2. ASSUME pc[r] \in {"rename", "write"}, UpdateProfile(row[r]),
               NEW a \in {"profile", "saved", "error"}, End(r, a),
               UNCHANGED <<row, handle>>, faults' \in Nat
        PROVE  ProfileInv' /\ OwnersKept
    <3>2. row[r] \in Rows /\ handle[r] \in ProfileOf(who[r])
      BY <2>2, <2>f DEF Fits, Waiting
    <3>3. IsTable(profiles', Handles, Rows) /\ OwnersKept /\ DOMAIN profiles' = DOMAIN profiles
      BY <1>t, <2>2, <3>2, UpdateTable
    <3>4. OneProfilePerUser'
      BY <1>t, <3>3 DEF OwnersKept, OneProfilePerUser
    <3>5. TypeOK'
      BY <1>t, <2>0, <2>2, <3>3 DEF TypeOK, End
    <3>6. handle[r] \in ProfileOf(who[r])'
      BY <2>0, <2>2, <3>2, <3>3 DEF ProfileOf, OwnersKept
    <3>7. Fits(r)'
      BY <1>t, <2>0, <2>f, <2>2, <3>6 DEF Fits, TypeOK, Waiting, End
    <3> QED  BY <2>0, <3>3, <3>4, <3>5, <3>7, <1>a
\* The same of one that creates a row.
  <2>3. ASSUME pc[r] \in {"create", "suffix"}, InsertRow(r),
               NEW a \in {"profile", "error"}, End(r, a),
               UNCHANGED <<row, handle>>, faults' \in Nat
        PROVE  ProfileInv' /\ OwnersKept
    <3>1. /\ row[r] \in Rows /\ row[r].owner = who[r] /\ handle[r] \in Handles /\ ~served[r]
          /\ answer[r] = "none"
      BY <2>3, <2>f, HandleTypes DEF Fits, Waiting
    <3>2. /\ IsTable(profiles', Handles, Rows) /\ OwnersKept
          /\ DOMAIN profiles' = DOMAIN profiles \cup {handle[r]}
          /\ profiles'[handle[r]] = row[r]
          /\ \A g \in DOMAIN profiles : profiles[g].owner # row[r].owner
      BY <1>t, <2>3, <3>1, InsertProfile DEF InsertRow
    <3>3. OneProfilePerUser'
      BY <1>t, <3>2 DEF OwnersKept, OneProfilePerUser
    <3>4. TypeOK'
      BY <1>t, <2>0, <2>3, <3>1, <3>2 DEF TypeOK, End
    <3>5. handle[r] \in ProfileOf(who[r])'
      BY <2>0, <2>3, <3>1, <3>2 DEF ProfileOf
    <3>6. Fits(r)'
      BY <1>t, <2>0, <2>3, <3>1, <3>5 DEF Fits, TypeOK, Waiting, End
    <3> QED  BY <2>0, <3>2, <3>3, <3>4, <3>6, <1>a
  <2>4. CASE Create(r)
    <3>1. /\ pc[r] \in {"create", "suffix"} /\ UNCHANGED <<row, handle, faults>>
          /\ row[r] \in Rows /\ row[r].owner = who[r] /\ handle[r] \in Handles /\ ~served[r]
          /\ answer[r] = "none"
      BY <2>4, <2>f, HandleTypes DEF Create, Fits, Waiting
    <3>2. CASE InsertRow(r) /\ End(r, "profile")
      <4>1. faults' \in Nat
        BY <1>t, <3>1 DEF TypeOK
      <4> QED  BY <2>3, <3>1, <3>2, <4>1
    <3>3. CASE /\ UNCHANGED profiles
               /\ \/ pc[r] = "create" /\ pc' = [pc EXCEPT ![r] = "again"] /\ UNCHANGED answer
                  \/ End(r, "conflict")
      <4>1. TypeOK'
        BY <1>t, <2>0, <3>1, <3>3 DEF TypeOK, End, Waiting
      <4>2. Fits(r)'
        BY <1>t, <2>0, <2>f, <3>1, <3>3 DEF Fits, TypeOK, Waiting, End
      <4> QED  BY <2>0, <3>3, <4>1, <4>2, <1>a, <1>b
    <3> QED  BY <2>4, <3>2, <3>3 DEF Create
  <2>5. CASE Rename(r) \/ WriteProfile(r)
    <3>1. /\ pc[r] \in {"rename", "write"} /\ UpdateProfile(row[r])
          /\ \E a \in {"profile", "saved"} : End(r, a)
          /\ UNCHANGED <<row, handle, faults>>
      BY <2>5 DEF Rename, WriteProfile
    <3>2. faults' \in Nat
      BY <1>t, <3>1 DEF TypeOK
    <3> QED  BY <2>2, <3>1, <3>2
  <2>6. ASSUME pc[r] = "again", TrySuffix(r), UNCHANGED <<profiles, row>>, faults' \in Nat
        PROVE  TypeOK' /\ Fits(r)'
    <3>1. /\ who[r] \in Users /\ row[r] \in Rows /\ row[r].owner = who[r]
          /\ handle[r] \in Wanted /\ ~served[r] /\ answer[r] = "none"
      BY <2>6, <2>f DEF Fits, Waiting
    <3>2. SuffixedHandle(handle[r], who[r]) \in Handles
      BY <3>1, HandleTypes
    <3>3. TypeOK'
      BY <1>t, <2>0, <2>6, <3>2 DEF TypeOK, TrySuffix, Waiting
    <3>4. Fits(r)'
      BY <1>t, <2>0, <2>6, <3>1, <3>2 DEF Fits, TypeOK, TrySuffix, Waiting
    <3> QED  BY <3>3, <3>4
  <2>7. CASE LookupAgain(r)
    <3>1. ASSUME NEW h \in ProfileOf(who[r]), handle' = [handle EXCEPT ![r] = h],
                 End(r, "profile"), UNCHANGED <<profiles, row, faults>>
          PROVE  TypeOK' /\ Fits(r)'
      <4>1. h \in Handles
        BY <1>t, <3>1 DEF ProfileOf, TypeOK, IsTable
      <4>2. TypeOK'
        BY <1>t, <2>0, <3>1, <4>1 DEF TypeOK, End
      <4>3. Fits(r)'
        BY <1>t, <2>0, <2>f, <3>1 DEF Fits, TypeOK, Waiting, ProfileOf, End
      <4> QED  BY <4>2, <4>3
    <3>2. TypeOK' /\ Fits(r)'
      BY <1>t, <2>6, <2>7, <3>1 DEF LookupAgain, TypeOK
    <3> QED  BY <2>7, <2>0, <3>2, <1>a, <1>b DEF LookupAgain
  <2>8. ASSUME End(r, "error"), UNCHANGED <<profiles, row, handle>>, faults' \in Nat
        PROVE  TypeOK' /\ Fits(r)'
    <3>1. TypeOK'
      BY <1>t, <2>0, <2>8 DEF TypeOK, End
    <3>2. Fits(r)'
      BY <1>t, <2>0, <2>f, <2>8 DEF Fits, TypeOK, Waiting, ProfileOf, End
    <3> QED  BY <3>1, <3>2
  <2>9. CASE VisitFails(r) \/ EditFails(r)
    <3>1. faults' \in Nat /\ UNCHANGED row
      BY <2>9, <1>t DEF VisitFails, EditFails, Fault, TypeOK
    <3>2. CASE UNCHANGED profiles
      <4>1. \/ End(r, "error") /\ UNCHANGED handle
            \/ pc[r] = "again" /\ TrySuffix(r)
        BY <2>9 DEF VisitFails, EditFails
      <4>2. TypeOK' /\ Fits(r)'
        BY <3>1, <3>2, <4>1, <2>6, <2>8
      <4> QED  BY <2>0, <3>2, <4>2, <1>a, <1>b
    <3>3. CASE /\ pc[r] \in {"rename", "write"} /\ UpdateProfile(row[r])
               /\ End(r, "error") /\ UNCHANGED handle
      BY <2>2, <3>1, <3>3
    <3>4. CASE /\ pc[r] \in {"create", "suffix"} /\ InsertRow(r)
               /\ End(r, "error") /\ UNCHANGED handle
      BY <2>3, <3>1, <3>4
    <3> QED  BY <2>9, <3>2, <3>3, <3>4 DEF VisitFails, EditFails
  <2>10. ASSUME NEW name \in Names, NEW style \in Styles, ReadProfile(r, name, style)
        PROVE  ProfileInv' /\ OwnersKept
    <3> DEFINE new == [owner |-> who[r], name |-> name, style |-> style, customized |-> TRUE]
    <3>1. who[r] \in Users /\ new \in Rows /\ answer[r] = "none" /\ pc[r] = "read"
      BY <2>10, <2>f DEF ReadProfile, Fits, Waiting, Rows
    <3>2. ASSUME NEW h \in ProfileOf(who[r]), pc' = [pc EXCEPT ![r] = "write"],
                 handle' = [handle EXCEPT ![r] = h], row' = [row EXCEPT ![r] = new],
                 UNCHANGED <<profiles, answer, faults>>
          PROVE  TypeOK' /\ Fits(r)'
      <4>1. h \in Handles
        BY <1>t, <3>2 DEF ProfileOf, TypeOK, IsTable
      <4>2. TypeOK'
        BY <1>t, <2>0, <3>1, <3>2, <4>1 DEF TypeOK, Waiting
      <4>3. Fits(r)'
        BY <1>t, <2>0, <2>f, <3>1, <3>2 DEF Fits, TypeOK, Waiting, ProfileOf
      <4> QED  BY <4>2, <4>3
    <3>3. ASSUME ProfileOf(who[r]) = {}, End(r, "missing"), UNCHANGED <<profiles, row, handle, faults>>
          PROVE  TypeOK' /\ Fits(r)'
      <4>1. TypeOK' /\ ~served[r]
        BY <1>t, <2>0, <2>f, <3>3 DEF TypeOK, End, Fits
      <4>2. Fits(r)'
        BY <1>t, <2>0, <3>3, <4>1 DEF Fits, TypeOK, Waiting, End
      <4> QED  BY <4>1, <4>2
    <3>4. TypeOK' /\ Fits(r)'
      BY <2>10, <3>2, <3>3 DEF ReadProfile
    <3> QED  BY <2>10, <2>0, <3>4, <1>a, <1>b DEF ReadProfile
  <2> QED  BY <1>5, <2>1, <2>4, <2>5, <2>7, <2>9, <2>10 DEF Advance
<1> QED  BY <1>1, <1>2, <1>3, <1>4, <1>5 DEF Next, Requests

\* So it holds in every behaviour.
LEMMA ProfileInvariant == Spec => []ProfileInv
<1>1. ProfileInv /\ [Next]_vars => ProfileInv'
  BY ProfileNext
<1> QED  BY <1>1, ProfileInit, PTL DEF Spec

-----------------------------------------------------------------------------
(***************************************************************************)
(* Induction on numbers, from the library's theorem that a set of numbers  *)
(* has a minimal element.                                                  *)
(***************************************************************************)
\* A set of numbers that contains 0 and with each number the next contains them all.
LEMMA NatSetInduction ==
    ASSUME NEW S, 0 \in S, \A n \in Nat : n \in S => n + 1 \in S
    PROVE  Nat \subseteq S
<1> SUFFICES ASSUME Nat \ S # {} PROVE FALSE
  OBVIOUS
<1> DEFINE T == Nat \ S
<1>1. PICK n \in T : \A m \in T : <<m, n>> \notin OpToRel(<, Nat)
  <2> HIDE DEF T
  <2>1. T \subseteq Nat /\ T # {}
    BY DEF T
  <2> QED  BY <2>1, WFMin, NatLessThanWellFounded
<1>2. \A m \in T : ~(m < n)
  BY <1>1 DEF OpToRel
<1>3. n - 1 \in Nat /\ n - 1 < n /\ (n - 1) + 1 = n
  OBVIOUS
<1>4. n - 1 \in S
  BY <1>2, <1>3
<1> QED  BY <1>3, <1>4

\* A set of numbers up to n has a least and a greatest one.
LEMMA Extremes ==
    ASSUME NEW n \in Nat, NEW S \in SUBSET (0..n), S # {}
    PROVE  /\ Min(S) \in S /\ \A i \in S : Min(S) <= i
           /\ Max(S) \in S /\ \A i \in S : i <= Max(S)
<1>0. PICK s \in S : s \in 0..n
  OBVIOUS
<1>1. \E m \in S : \A i \in S : m <= i
  <2> SUFFICES ASSUME \A m \in S : \E i \in S : i < m PROVE FALSE
    OBVIOUS
  <2> DEFINE None == {k \in Nat : \A i \in S : k < i}
  <2>1. 0 \in None
    <3> SUFFICES ASSUME 0 \in S PROVE FALSE
      OBVIOUS
    <3> QED  OBVIOUS
  <2>2. \A k \in Nat : k \in None => k + 1 \in None
    <3> SUFFICES ASSUME NEW k \in Nat, k \in None, k + 1 \in S PROVE FALSE
      OBVIOUS
    <3> QED  OBVIOUS
  <2>3. Nat \subseteq None
    <3> HIDE DEF None
    <3> QED  BY <2>1, <2>2, NatSetInduction
  <2>4. s \in None
    BY <1>0, <2>3
  <2> QED  BY <2>4
<1>2. \E m \in S : \A i \in S : i <= m
  <2> SUFFICES ASSUME \A m \in S : \E i \in S : m < i PROVE FALSE
    OBVIOUS
  <2> DEFINE None == {k \in Nat : \A i \in S : i < n - k}
  <2>1. 0 \in None
    <3> SUFFICES ASSUME n \in S PROVE FALSE
      OBVIOUS
    <3> QED  OBVIOUS
  <2>2. \A k \in Nat : k \in None => k + 1 \in None
    <3> SUFFICES ASSUME NEW k \in Nat, k \in None, n - (k + 1) \in S PROVE FALSE
      OBVIOUS
    <3> QED  OBVIOUS
  <2>3. Nat \subseteq None
    <3> HIDE DEF None
    <3> QED  BY <2>1, <2>2, NatSetInduction
  <2>4. n - s \in None
    <3>1. n - s \in Nat
      BY <1>0
    <3> QED  BY <2>3, <3>1
  <2> QED  BY <1>0, <2>4
<1> QED  BY <1>1, <1>2 DEF Min, Max

-----------------------------------------------------------------------------
(***************************************************************************)
(* Handles.  normalizeManagedHandle and the two ways of making a handle    *)
(* return only what is canonical, and normalizeManagedHandle leaves that   *)
(* alone.                                                                  *)
(***************************************************************************)
Words == Seq(Kept \cup Blanks \cup Others)

Canonical(h) ==
    /\ h \in Seq(Kept) /\ Len(h) <= MaxLength
    /\ h # <<>> => h[1] \in Plain /\ h[Len(h)] \in Plain

\* The recursion of normalizeManagedHandle is well-founded.
LEMMA WritingStep ==
    ASSUME NEW w, Len(w) \in Nat
    PROVE  /\ Writing(w)[0] = [out |-> <<>>, sep |-> FALSE]
           /\ \A i \in 1..Len(w) : Writing(w)[i] = Write(Writing(w)[i - 1], w[i])
<1> DEFINE Begin == [out |-> <<>>, sep |-> FALSE]
           Upto(g, n) == g = [i \in 0..n |-> IF i = 0 THEN Begin ELSE Write(g[i - 1], w[i])]
           S == {n \in Nat : \E g : Upto(g, n)}
<1> HIDE DEF Begin
<1>1. 0 \in S
  <2>1. Upto([i \in 0..0 |-> Begin], 0)
    OBVIOUS
  <2> QED  BY <2>1
<1>2. ASSUME NEW n \in Nat, n \in S PROVE n + 1 \in S
  <2>1. PICK g : Upto(g, n)
    BY <1>2
  <2> DEFINE h == [i \in 0..(n + 1) |-> IF i = n + 1 THEN Write(g[n], w[n + 1]) ELSE g[i]]
  <2>2. \A i \in 0..n : h[i] = g[i] /\ g[i] = IF i = 0 THEN Begin ELSE Write(g[i - 1], w[i])
    BY <2>1
  <2>3. \A i \in 0..(n + 1) : h[i] = IF i = 0 THEN Begin ELSE Write(h[i - 1], w[i])
    BY <2>2
  <2>4. Upto(h, n + 1)
    BY <2>3
  <2> HIDE DEF h, Upto
  <2>5. \E g1 : Upto(g1, n + 1)
    BY <2>4
  <2> QED  BY <2>5
<1>3. Len(w) \in S
  <2> HIDE DEF S
  <2> QED  BY <1>1, <1>2, NatSetInduction
<1>4. Upto(Writing(w), Len(w))
  BY <1>3 DEF Writing, Begin
<1>5. \A f : Upto(f, Len(w)) => f[0] = Begin /\ \A i \in 1..Len(w) : f[i] = Write(f[i - 1], w[i])
  OBVIOUS
<1> QED
  <2> HIDE DEF Upto
  <2>1. Writing(w)[0] = Begin /\ \A i \in 1..Len(w) : Writing(w)[i] = Write(Writing(w)[i - 1], w[i])
    BY <1>4, <1>5
  <2> QED  BY <2>1 DEF Begin

\* What is written is kept and fits.
LEMMA WritingFits ==
    ASSUME NEW w \in Words
    PROVE  \A i \in 0..Len(w) : Writing(w)[i].out \in Seq(Kept) /\ Len(Writing(w)[i].out) <= MaxLength
<1> DEFINE Fit(i) == Writing(w)[i].out \in Seq(Kept) /\ Len(Writing(w)[i].out) <= MaxLength
           S == {i \in Nat : i <= Len(w) => Fit(i)}
<1>1. 0 \in S
  <2>1. Writing(w)[0].out = <<>>
    <3>1. Len(w) \in Nat
      BY DEF Words
    <3>2. Writing(w)[0] = [out |-> <<>>, sep |-> FALSE]
      BY <3>1, WritingStep
    <3> QED  BY <3>2
  <2>2. <<>> \in Seq(Kept) /\ Len(<<>>) = 0 /\ 0 <= MaxLength
    BY LengthAssumption
  <2>3. Fit(0)
    BY <2>1, <2>2
  <2> HIDE DEF Fit
  <2> QED  BY <2>3
<1>2. ASSUME NEW n \in Nat, n \in S PROVE n + 1 \in S
  <2> SUFFICES ASSUME n + 1 <= Len(w) PROVE Fit(n + 1)
    OBVIOUS
  <2>1. Writing(w)[n + 1] = Write(Writing(w)[n], w[n + 1])
    BY WritingStep DEF Words
  <2>2. \A acc, c : acc.out \in Seq(Kept) /\ Len(acc.out) <= MaxLength =>
          Write(acc, c).out \in Seq(Kept) /\ Len(Write(acc, c).out) <= MaxLength
    BY LengthAssumption, CharacterAssumption DEF Write, Kept
  <2> QED  BY <1>2, <2>1, <2>2 DEF Words
<1>3. Nat \subseteq S
  <2> HIDE DEF S
  <2> QED  BY <1>1, <1>2, NatSetInduction
<1> QED  BY <1>3 DEF Words

\* Trimming leaves a letter or digit at either end.
LEMMA TrimCanonical ==
    ASSUME NEW w \in Seq(Kept), Len(w) <= MaxLength
    PROVE  Canonical(Trim(w))
<1>1. CASE Solid(w) = {}
  BY <1>1, LengthAssumption DEF Trim, Canonical
<1>2. CASE Solid(w) # {}
  <2> DEFINE lo == Min(Solid(w))  hi == Max(Solid(w))
  <2>1. Solid(w) \in SUBSET (0..Len(w))
    BY DEF Solid
  <2>2. lo \in Solid(w) /\ hi \in Solid(w) /\ lo <= hi
    <3>1. Len(w) \in Nat
      OBVIOUS
    <3>2. /\ Min(Solid(w)) \in Solid(w)
          /\ Max(Solid(w)) \in Solid(w) /\ \A i \in Solid(w) : i <= Max(Solid(w))
      BY <1>2, <2>1, <3>1, Extremes
    <3> QED  BY <3>2
  <2> HIDE DEF lo, hi
  <2>3. lo \in 1..Len(w) /\ hi \in 1..Len(w) /\ w[lo] \in Plain /\ w[hi] \in Plain
    BY <2>2 DEF Solid, Kept
  <2>4. /\ SubSeq(w, lo, hi) \in Seq(Kept) /\ Len(SubSeq(w, lo, hi)) = hi - lo + 1
        /\ SubSeq(w, lo, hi)[1] = w[lo] /\ SubSeq(w, lo, hi)[hi - lo + 1] = w[hi]
    BY <2>2, <2>3
  <2>5. Trim(w) = SubSeq(w, lo, hi)
    BY <1>2 DEF Trim, lo, hi
  <2>6. hi - lo + 1 <= MaxLength
    BY <2>3, <2>2, LengthAssumption
  <2> QED  BY <2>3, <2>4, <2>5, <2>6 DEF Canonical
<1> QED  BY <1>1, <1>2

\* normalizeManagedHandle returns handles, or nothing.
LEMMA NormalizeCanonical == \A w \in Words : Canonical(Normalize(w))
<1> SUFFICES ASSUME NEW w \in Words PROVE Canonical(Trim(Writing(w)[Len(w)].out))
  BY DEF Normalize
<1>1. Len(w) \in 0..Len(w)
  BY DEF Words
<1> QED  BY <1>1, WritingFits, TrimCanonical

\* normalizeManagedHandle leaves alone what it can return.
LEMMA NormalizeStays ==
    ASSUME NEW h, Canonical(h)
    PROVE  Normalize(h) = h
<1>0. h \in Seq(Kept) /\ Len(h) \in Nat /\ Len(h) <= MaxLength /\ \A i \in 1..Len(h) : h[i] \in Kept
  BY DEF Canonical
<1> DEFINE S == {i \in Nat : i <= Len(h) => Writing(h)[i].out = SubSeq(h, 1, i)}
<1>1. 0 \in S
  <2>1. SubSeq(h, 1, 0) = <<>>
    BY <1>0
  <2>2. Writing(h)[0] = [out |-> <<>>, sep |-> FALSE]
    BY <1>0, WritingStep
  <2>3. Writing(h)[0].out = <<>>
    BY <2>2
  <2>4. Writing(h)[0].out = SubSeq(h, 1, 0)
    BY <2>1, <2>3
  <2> QED  BY <2>4
<1>2. ASSUME NEW n \in Nat, n \in S PROVE n + 1 \in S
  <2> SUFFICES ASSUME n + 1 <= Len(h) PROVE Writing(h)[n + 1].out = SubSeq(h, 1, n + 1)
    OBVIOUS
  <2>1. Writing(h)[n + 1] = Write(Writing(h)[n], h[n + 1])
    BY <1>0, WritingStep
  <2>2. Writing(h)[n].out = SubSeq(h, 1, n) /\ Len(SubSeq(h, 1, n)) = n
    BY <1>0, <1>2
  <2>3. Writing(h)[n + 1].out = Append(SubSeq(h, 1, n), h[n + 1])
    BY <1>0, <2>1, <2>2, LengthAssumption DEF Write
  <2>4. Append(SubSeq(h, 1, n), h[n + 1]) = SubSeq(h, 1, n + 1)
    BY <1>0
  <2> QED  BY <2>3, <2>4
<1>3. Writing(h)[Len(h)].out = SubSeq(h, 1, Len(h))
  <2>1. Nat \subseteq S
    <3> HIDE DEF S
    <3> QED  BY <1>1, <1>2, NatSetInduction
  <2> QED  BY <1>0, <2>1
<1>4. SubSeq(h, 1, Len(h)) = h
  BY <1>0
<1>5. Trim(h) = h
  <2>1. CASE h = <<>>
    BY <2>1 DEF Trim, Solid
  <2>2. CASE h # <<>>
    <3>1. Len(h) >= 1 /\ 1 \in Solid(h) /\ Len(h) \in Solid(h) /\ Solid(h) \in SUBSET (0..Len(h))
          /\ \A i \in Solid(h) : 1 <= i /\ i <= Len(h)
      BY <1>0, <2>2, CharacterAssumption DEF Canonical, Solid
    <3>2. Min(Solid(h)) = 1 /\ Max(Solid(h)) = Len(h)
      <4>1. /\ Min(Solid(h)) \in Solid(h) /\ \A i \in Solid(h) : Min(Solid(h)) <= i
            /\ Max(Solid(h)) \in Solid(h) /\ \A i \in Solid(h) : i <= Max(Solid(h))
        BY <1>0, <3>1, Extremes
      <4> HIDE DEF Solid
      <4> QED  BY <1>0, <3>1, <4>1
    <3> QED  BY <3>1, <3>2, <1>4 DEF Trim
  <2> QED  BY <2>1, <2>2
<1> QED  BY <1>3, <1>4, <1>5 DEF Normalize

\* The handle that claims give is canonical and not empty.
LEMMA DesiredCanonical ==
    ASSUME NEW candidates \in Seq(Words), NEW u \in DOMAIN Suffix
    PROVE  Canonical(DesiredHandle(candidates, u)) /\ DesiredHandle(candidates, u) # <<>>
<1> DEFINE usable == {i \in DOMAIN candidates : Normalize(candidates[i]) # <<>>}
<1>1. CASE usable = {}
  <2>1. DesiredHandle(candidates, u) = UserPrefix \o Suffix[u]
    BY <1>1 DEF DesiredHandle
  <2> QED  BY <2>1, AffixAssumption, LengthAssumption DEF Canonical, Kept
<1>2. CASE usable # {}
  <2> DEFINE h == Normalize(candidates[Min(usable)])
  <2>1. Canonical(h) /\ h # <<>>
    <3>1. usable \in SUBSET (0..Len(candidates)) /\ Len(candidates) \in Nat
      OBVIOUS
    <3>2. Min(usable) \in usable
      <4> HIDE DEF usable
      <4> QED  BY <1>2, <3>1, Extremes
    <3> QED  BY <3>2, NormalizeCanonical
  <2>2. DesiredHandle(candidates, u) = IF h \in Reserved THEN UserPrefix \o h ELSE h
    BY <1>2 DEF DesiredHandle
  <2> HIDE DEF h
  <2>3. h \in Reserved => Canonical(UserPrefix \o h) /\ UserPrefix \o h # <<>>
    BY <2>1, AffixAssumption, LengthAssumption DEF Canonical, Kept
  <2> QED  BY <2>1, <2>2, <2>3
<1> QED  BY <1>1, <1>2

\* The one after a collision is canonical: the cut leaves the first character, and the
\* suffix ends in a digit.
LEMMA SuffixedCanonical ==
    ASSUME NEW h, Canonical(h), h # <<>>, NEW u \in DOMAIN Suffix
    PROVE  Canonical(SuffixedHandle(h, u))
<1> DEFINE room == MaxLength - Len(Suffix[u]) - 1
           cut == SubSeq(h, 1, Min({Len(h), room}))
           end == Max(Solid(cut) \cup {0})
<1>0. /\ h \in Seq(Kept) /\ Len(h) \in Nat /\ Len(h) >= 1 /\ h[1] \in Plain
      /\ Suffix[u] \in Seq(Plain) /\ Len(Suffix[u]) \in Nat /\ Len(Suffix[u]) >= 1
      /\ MaxLength \in Nat /\ room \in Nat /\ room >= 1
  BY AffixAssumption, LengthAssumption DEF Canonical
<1> DEFINE m == Min({Len(h), room})
<1>1. m \in {Len(h), room} /\ m <= Len(h) /\ m <= room
  <2>1. {Len(h), room} \in SUBSET (0..(Len(h) + room)) /\ Len(h) + room \in Nat
    BY <1>0
  <2> HIDE DEF room
  <2> QED  BY <2>1, Extremes
<1>2. cut \in Seq(Kept) /\ Len(cut) >= 1 /\ Len(cut) <= room /\ cut[1] = h[1]
  <2> HIDE DEF m, room
  <2>1. m \in Nat /\ m >= 1
    BY <1>0, <1>1
  <2>2. SubSeq(h, 1, m) \in Seq(Kept) /\ Len(SubSeq(h, 1, m)) = m /\ SubSeq(h, 1, m)[1] = h[1]
    BY <1>0, <1>1, <2>1
  <2>3. cut = SubSeq(h, 1, m)
    BY DEF m
  <2> HIDE DEF cut
  <2> QED  BY <1>1, <2>1, <2>2, <2>3
<1> HIDE DEF cut
<1>3. end \in Nat /\ end >= 1 /\ end <= Len(cut)
  <2>1. Len(cut) \in Nat /\ Solid(cut) \cup {0} \in SUBSET (0..Len(cut))
    BY <1>2 DEF Solid
  <2>2. 1 \in Solid(cut)
    BY <1>0, <1>2, CharacterAssumption DEF Solid
  <2>3. Max(Solid(cut) \cup {0}) \in 0..Len(cut) /\ 1 <= Max(Solid(cut) \cup {0})
    BY <2>1, <2>2, Extremes
  <2> QED  BY <2>1, <2>3
<1> HIDE DEF end
<1>4. /\ SubSeq(cut, 1, end) \in Seq(Kept) /\ Len(SubSeq(cut, 1, end)) = end
      /\ SubSeq(cut, 1, end)[1] = h[1]
  BY <1>2, <1>3
<1>5. SuffixedHandle(h, u) = SubSeq(cut, 1, end) \o <<Dash>> \o Suffix[u]
  BY DEF SuffixedHandle, TrimRight, cut, end
<1> DEFINE stem == SubSeq(cut, 1, end)
<1> HIDE DEF stem, room
<1>6. /\ stem \o <<Dash>> \in Seq(Kept) /\ Len(stem \o <<Dash>>) = end + 1
      /\ (stem \o <<Dash>>)[1] = h[1]
  BY <1>3, <1>4, CharacterAssumption DEF Kept, stem
<1> DEFINE front == stem \o <<Dash>>
<1> HIDE DEF front
<1>7. /\ front \in Seq(Kept) /\ Len(front) = end + 1 /\ front[1] = h[1]
      /\ Suffix[u] \in Seq(Kept)
  BY <1>0, <1>6 DEF front, Kept
<1>8. /\ front \o Suffix[u] \in Seq(Kept)
      /\ Len(front \o Suffix[u]) = end + 1 + Len(Suffix[u])
      /\ (front \o Suffix[u])[1] = h[1]
      /\ (front \o Suffix[u])[end + 1 + Len(Suffix[u])] = Suffix[u][Len(Suffix[u])]
  BY <1>0, <1>3, <1>7
<1>9. Suffix[u][Len(Suffix[u])] \in Plain
  BY <1>0
<1>10. end + 1 + Len(Suffix[u]) <= MaxLength
  BY <1>0, <1>2, <1>3 DEF room
<1>11. SuffixedHandle(h, u) = front \o Suffix[u]
  BY <1>5 DEF front, stem
<1> QED  BY <1>0, <1>8, <1>9, <1>10, <1>11 DEF Canonical

\* Whatever the claims are, a handle survives normalizeManagedHandle.
LEMMA HandlesCanonical == \A h \in Handles : Canonical(h) /\ Normalize(h) = h
<1>1. \A h \in Wanted : Canonical(h) /\ h # <<>>
  <2> SUFFICES ASSUME NEW c \in Claims, NEW u \in Users
               PROVE  LET h == DesiredHandle(c.candidates, u) IN Canonical(h) /\ h # <<>>
    BY DEF Wanted
  <2> QED  BY ProfileAssumption, DesiredCanonical DEF Words
<1>2. \A h \in Handles : Canonical(h)
  BY <1>1, ProfileAssumption, SuffixedCanonical DEF Handles
<1> QED  BY <1>2, NormalizeStays

-----------------------------------------------------------------------------

\* The table and the requests keep their types: no handle is ever written that the
\* claims of some user do not give, with or without that user's suffix.
THEOREM ProfileTypes == Spec => []TypeOK
<1>1. ProfileInv => TypeOK
  BY DEF ProfileInv
<1> QED  BY <1>1, ProfileInvariant, PTL

\* However many first sign-ins of a user overlap, the user has one profile.
THEOREM OneProfileEach == Spec => []OneProfilePerUser
<1>1. ProfileInv => OneProfilePerUser
  BY DEF ProfileInv
<1> QED  BY <1>1, ProfileInvariant, PTL

\* A sign-in or an edit is told of its own user's profile, not of the one that got the
\* handle it wanted.
THEOREM OwnProfileAnswered == Spec => []AnswersOwnProfile
<1>1. ProfileInv => AnswersOwnProfile
  BY DEF ProfileInv
<1> QED  BY <1>1, ProfileInvariant, PTL

\* A user who had a profile when the request began meets no conflict and no missing row.
THEOREM EstablishedAreServed == Spec => []EstablishedUsersServed
<1>1. ProfileInv => EstablishedUsersServed
  BY DEF ProfileInv
<1> QED  BY <1>1, ProfileInvariant, PTL

\* No step takes a handle from the user it was first given to.
THEOREM HandlesStayOwned == Spec => OwnershipIsForever
<1>1. ProfileInv /\ [Next]_vars => [OwnersKept]_vars
  BY ProfileNext
<1>2. [OwnersKept]_vars =>
        [\A h \in DOMAIN profiles :
           h \in DOMAIN profiles' /\ profiles'[h].owner = profiles[h].owner]_vars
  BY DEF OwnersKept
<1> QED  BY <1>1, <1>2, ProfileInvariant, PTL DEF Spec, OwnershipIsForever

\* The URL of every profile leads back to it, for every username a provider may send,
\* every length the constants allow, and after a suffix as well.
THEOREM ProfilesResolve == Spec => []ProfileResolves
<1>1. ProfileInv => ProfileResolves
  <2> SUFFICES ASSUME ProfileInv, NEW h \in DOMAIN profiles PROVE ProfileForMe(h) = {h}
    BY DEF ProfileResolves
  <2>1. h \in Handles
    BY DEF ProfileInv, TypeOK, IsTable
  <2> QED  BY <2>1, HandlesCanonical DEF ProfileForMe
<1> QED  BY <1>1, ProfileInvariant, PTL
=============================================================================
