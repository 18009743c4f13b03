-------------------------- MODULE ManagedProfiles --------------------------
(***************************************************************************)
(* The managed_profiles table under concurrent sign-ins at /setup          *)
(* (ensureManagedProfile) and profile edits (handleManagedProfileUpdate)   *)
(* of internal/http/managed_profiles.go.                                   *)
(*                                                                         *)
(* A user stands for one (issuer, subject) pair.  What the provider says   *)
(* of a user, the usernames a handle is derived from and the display name, *)
(* changes at any time.  The bio, website and accent of a row are one      *)
(* value, style.  Each member of Visits and Edits is one request.          *)
(***************************************************************************)
EXTENDS Store, FiniteSets, ProfileHandles

CONSTANTS
    Users, Names,
    Claims,                 \* what a provider may say: usernames and display name
    Styles, PlainStyle,     \* style of a row nobody edited
    Visits, Edits,
    MaxFaults, MaxClaims    \* bounds on store failures and on changes of claims

ASSUME ProfileAssumption ==
    /\ \A c \in Claims : /\ c = [candidates |-> c.candidates, name |-> c.name]
                         /\ c.candidates \in Seq(Seq(Kept \cup Blanks \cup Others))
                         /\ c.name \in Names
    /\ DOMAIN Suffix = Users
    /\ PlainStyle \in Styles
    /\ Visits \cap Edits = {}
    /\ MaxFaults \in Nat /\ MaxClaims \in Nat

VARIABLES
    profiles,   \* table managed_profiles: handle -> row
    claims,     \* what the provider says of each user
    pc,         \* each request: next step
    who,        \* each request: the identity it acts for
    row,        \* each request: the row it holds, to be written or already read
    handle,     \* each request: the handle it creates or answers with
    answer,
    served,     \* history: had the user a profile when the request began
    faults, changes

vars == <<profiles, claims, pc, who, row, handle, answer, served, faults, changes>>

Requests == Visits \cup Edits

Wanted == {DesiredHandle(c.candidates, u) : c \in Claims, u \in Users}
Handles == Wanted \cup {SuffixedHandle(h, u) : h \in Wanted, u \in Users}

NoHandle == <<>>
NoUser == "nobody"

Rows == [owner : Users, name : Names, style : Styles, customized : BOOLEAN]
NoRow == [owner |-> NoUser]

Waiting == {"lookup", "rename", "create", "again", "suffix", "read", "write"}

TypeOK ==
    /\ IsTable(profiles, Handles, Rows)
    /\ claims \in [Users -> Claims]
    /\ pc \in [Requests -> {"idle", "done"} \cup Waiting]
    /\ who \in [Requests -> Users \cup {NoUser}]
    /\ row \in [Requests -> Rows \cup {NoRow}]
    /\ handle \in [Requests -> Handles \cup {NoHandle}]
    /\ answer \in [Requests -> {"none", "profile", "saved", "missing", "conflict", "error"}]
    /\ served \in [Requests -> BOOLEAN]
    /\ faults \in Nat /\ changes \in Nat

Init ==
    /\ profiles = [h \in {} |-> NoRow]
    /\ claims \in [Users -> Claims]
    /\ pc = [r \in Requests |-> "idle"]
    /\ who = [r \in Requests |-> NoUser]
    /\ row = [r \in Requests |-> NoRow]
    /\ handle = [r \in Requests |-> NoHandle]
    /\ answer = [r \in Requests |-> "none"]
    /\ served = [r \in Requests |-> FALSE]
    /\ faults = 0 /\ changes = 0

(***************************************************************************)
(* The table.  The handle is the primary key and (issuer, subject) is      *)
(* unique; CreateManagedProfile reports either violation as ErrConflict.   *)
(***************************************************************************)
ProfileOf(u) == {h \in DOMAIN profiles : profiles[h].owner = u}

\* managedProfileForMe: the row whose URL is the very one that was asked for.
ProfileForMe(word) ==
    {h \in DOMAIN profiles : h = Normalize(word) /\ h = word}

Conflicts(h, u) == h \in DOMAIN profiles \/ ProfileOf(u) # {}

\* Fault: the row is found by its handle, and its identity replaced as well.
UpdateProfile_ByName(new) ==
    profiles' = [h \in DOMAIN profiles |->
                   IF profiles[h].name = new.name THEN new ELSE profiles[h]]

\* UPDATE ... WHERE issuer = ? AND subject = ?: the columns of the whole row.
UpdateProfile(new) ==
    profiles' = [h \in DOMAIN profiles |->
                   IF profiles[h].owner = new.owner THEN new ELSE profiles[h]]

End(r, a) == pc' = [pc EXCEPT ![r] = "done"] /\ answer' = [answer EXCEPT ![r] = a]

Step(r, from, to) == pc[r] = from /\ pc' = [pc EXCEPT ![r] = to]

Fault == faults < MaxFaults /\ faults' = faults + 1

\* The user, or an administrator, changes the claims at the provider.
ChangeClaims(u, c) ==
    /\ changes < MaxClaims
    /\ changes' = changes + 1
    /\ claims' = [claims EXCEPT ![u] = c]
    /\ UNCHANGED <<profiles, pc, who, row, handle, answer, served, faults>>

-----------------------------------------------------------------------------
(***************************************************************************)
(* ensureManagedProfile, at the end of a sign-in at /setup.  The request   *)
(* works with the claims of its own sign-in.                               *)
(***************************************************************************)
\* Fault: the default accent is forgotten.
FreshRow_NoStyle(u) == [owner |-> u, name |-> claims[u].name, style |-> "", customized |-> FALSE]

FreshRow(u) == [owner |-> u, name |-> claims[u].name, style |-> PlainStyle, customized |-> FALSE]

BeginVisit(v, u) ==
    /\ Step(v, "idle", "lookup")
    /\ who' = [who EXCEPT ![v] = u]
    /\ row' = [row EXCEPT ![v] = FreshRow(u)]
    /\ handle' = [handle EXCEPT ![v] = DesiredHandle(claims[u].candidates, u)]
    /\ served' = [served EXCEPT ![v] = ProfileOf(u) # {}]
    /\ UNCHANGED <<profiles, claims, answer, faults, changes>>

FollowsClaims(stored, name) == ~stored.customized /\ stored.name # name

\* Fault: the row is looked for under the handle the claims now give.
OwnRows_ByHandle(v) == ProfileOf(who[v]) \cap {handle[v]}

OwnRows(v) == ProfileOf(who[v])

\* GetManagedProfileByIdentity: a row that still follows the claims and has another
\* name is to be written back whole, with the name of this sign-in.
Lookup(v) ==
    /\ pc[v] = "lookup"
    /\ \/ \E h \in OwnRows(v) :
            LET stored == profiles[h]
            IN  /\ handle' = [handle EXCEPT ![v] = h]
                /\ IF FollowsClaims(stored, row[v].name)
                   THEN /\ row' = [row EXCEPT ![v] = [stored EXCEPT !.name = row[v].name]]
                        /\ pc' = [pc EXCEPT ![v] = "rename"]
                        /\ UNCHANGED answer
                   ELSE End(v, "profile") /\ UNCHANGED row
       \/ /\ OwnRows(v) = {}
          /\ pc' = [pc EXCEPT ![v] = "create"]
          /\ UNCHANGED <<row, handle, answer>>
    /\ UNCHANGED <<profiles, claims, who, served, faults, changes>>

Rename(v) ==
    /\ pc[v] = "rename"
    /\ UpdateProfile(row[v])
    /\ End(v, "profile")
    /\ UNCHANGED <<claims, who, row, handle, served, faults, changes>>

InsertRow(v) ==
    /\ ~Conflicts(handle[v], who[v])
    /\ profiles' = Insert(profiles, handle[v], row[v])

\* The desired handle first; then, if that is taken and not by this very user,
\* the deterministic suffix; a second conflict is an error.
Create(v) ==
    /\ pc[v] \in {"create", "suffix"}
    /\ \/ InsertRow(v) /\ End(v, "profile")
       \/ /\ Conflicts(handle[v], who[v]) /\ UNCHANGED profiles
          /\ IF pc[v] = "create"
             THEN pc' = [pc EXCEPT ![v] = "again"] /\ UNCHANGED answer
             ELSE End(v, "conflict")
    /\ UNCHANGED <<claims, who, row, handle, served, faults, changes>>

TrySuffix(v) ==
    /\ handle' = [handle EXCEPT ![v] = SuffixedHandle(handle[v], who[v])]
    /\ pc' = [pc EXCEPT ![v] = "suffix"]
    /\ UNCHANGED answer

\* Fault: after a conflict the profile is looked up by handle.
LookupAgain_ByHandle(v) ==
    /\ pc[v] = "again"
    /\ IF handle[v] \in DOMAIN profiles THEN End(v, "profile") /\ UNCHANGED handle ELSE TrySuffix(v)
    /\ UNCHANGED <<profiles, claims, who, row, served, faults, changes>>

LookupAgain(v) ==
    /\ pc[v] = "again"
    /\ \/ \E h \in ProfileOf(who[v]) :
            handle' = [handle EXCEPT ![v] = h] /\ End(v, "profile")
       \/ ProfileOf(who[v]) = {} /\ TrySuffix(v)
    /\ UNCHANGED <<profiles, claims, who, row, served, faults, changes>>

\* A store failure ends the request, except in the second lookup, where every
\* error counts as "no profile".  A statement reported as failed may have been applied.
VisitFails(v) ==
    /\ Fault
    /\ \/ /\ pc[v] \in {"lookup", "rename", "create", "suffix"}
          /\ End(v, "error") /\ UNCHANGED handle
          /\ \/ UNCHANGED profiles
             \/ pc[v] = "rename" /\ UpdateProfile(row[v])
             \/ pc[v] \in {"create", "suffix"} /\ InsertRow(v)
       \/ pc[v] = "again" /\ TrySuffix(v) /\ UNCHANGED profiles
    /\ UNCHANGED <<claims, who, row, served, changes>>

-----------------------------------------------------------------------------
(***************************************************************************)
(* handleManagedProfileUpdate: the credential comes from an earlier setup  *)
(* page; the row is read, all four fields replaced, and written back.      *)
(***************************************************************************)
HasCredential(u) == \E v \in Visits : who[v] = u /\ answer[v] = "profile"

BeginEdit(e, u) ==
    /\ HasCredential(u)
    /\ Step(e, "idle", "read")
    /\ who' = [who EXCEPT ![e] = u]
    /\ served' = [served EXCEPT ![e] = ProfileOf(u) # {}]
    /\ UNCHANGED <<profiles, claims, row, handle, answer, faults, changes>>

ReadProfile(e, name, style) ==
    /\ pc[e] = "read"
    /\ \/ \E h \in ProfileOf(who[e]) :
            /\ pc' = [pc EXCEPT ![e] = "write"]
            /\ handle' = [handle EXCEPT ![e] = h]
            /\ row' = [row EXCEPT ![e] =
                 [owner |-> who[e], name |-> name, style |-> style, customized |-> TRUE]]
            /\ UNCHANGED answer
       \/ ProfileOf(who[e]) = {} /\ End(e, "missing") /\ UNCHANGED <<row, handle>>
    /\ UNCHANGED <<profiles, claims, who, served, faults, changes>>

WriteProfile(e) ==
    /\ pc[e] = "write"
    /\ UpdateProfile(row[e])
    /\ End(e, "saved")
    /\ UNCHANGED <<claims, who, row, handle, served, faults, changes>>

EditFails(e) ==
    /\ pc[e] \in {"read", "write"}
    /\ Fault
    /\ End(e, "error")
    /\ UNCHANGED profiles \/ (pc[e] = "write" /\ UpdateProfile(row[e]))
    /\ UNCHANGED <<claims, who, row, handle, served, changes>>

-----------------------------------------------------------------------------

Advance(r) ==
    \/ Lookup(r) \/ Rename(r) \/ Create(r) \/ LookupAgain(r) \/ VisitFails(r)
    \/ \E name \in Names, style \in Styles : ReadProfile(r, name, style)
    \/ WriteProfile(r) \/ EditFails(r)

Next ==
    \/ \E u \in Users, c \in Claims : ChangeClaims(u, c)
    \/ \E u \in Users : \/ \E v \in Visits : BeginVisit(v, u)
                        \/ \E e \in Edits : BeginEdit(e, u)
    \/ \E r \in Requests : Advance(r)

Spec == Init /\ [][Next]_vars

-----------------------------------------------------------------------------
(***************************************************************************)
(* Properties.                                                             *)
(***************************************************************************)
\* A handle belongs for ever to the user it was first given to, whatever the
\* provider later says and whoever else asks for it (README: "Username changes do
\* not transfer or rename an established identity URL").
OwnershipIsForever ==
    [][\A h \in DOMAIN profiles :
          h \in DOMAIN profiles' /\ profiles'[h].owner = profiles[h].owner]_vars

\* A request that is told of a profile is told of its own user's, also when the
\* handle it asked for went to somebody else meanwhile.
AnswersOwnProfile ==
    \A r \in Requests : answer[r] \in {"profile", "saved"} =>
        handle[r] \in DOMAIN profiles /\ profiles[handle[r]].owner = who[r]

\* Whoever had a profile when the request began is served: only the very first
\* sign-in can meet a conflict.
EstablishedUsersServed ==
    \A r \in Requests : served[r] => answer[r] \notin {"conflict", "missing"}

\* Whatever the username looks like, and after a suffix as well, the URL of a profile
\* leads back to it: its handle survives normalizeManagedHandle unchanged, which both
\* the page and managedProfileForMe apply before they look it up.
ProfileResolves ==
    \A h \in DOMAIN profiles : ProfileForMe(h) = {h}

\* README.md:213 says "Once customized, presentation fields are not overwritten by
\* later changes to the user's OIDC claims": only an edit changes a customized row.
CustomizationKept ==
    [][\A h \in DOMAIN profiles :
          profiles[h].customized /\ profiles'[h] # profiles[h]
          => \E e \in Edits : pc[e] = "write" /\ pc'[e] = "done"]_vars

\* README.md:203 says "a handle collision receives a deterministic suffix": a sign-in
\* whose store calls all work gets a profile.
CollisionGetsSuffix ==
    \A v \in Visits : answer[v] # "conflict"
=============================================================================
