---------------------------- MODULE LoginProofs ----------------------------
(***************************************************************************)
(* Theorems about Login, for every number of flows, handlers, users and    *)
(* profiles, every configuration and every bound.                          *)
(***************************************************************************)
EXTENDS Login, TLAPS

(***************************************************************************)
(* The inductive invariant.  What a flow decided when it began is fixed    *)
(* once it has a row, the row says it, and a callback holds what the row   *)
(* said.  A callback gets as far as storing something only after a sign-in *)
(* on its own flow by a subject the flow allows; from there on the consent *)
(* record, the post that holds it and the code all go back to it.          *)
(***************************************************************************)
Matches(r, f) ==
    /\ r.kind = flow[f].kind
    /\ r.bound = flow[f].bound
    /\ flow[f].kind # "setup" => r.grant = GrantOf(flow[f].form)

Settled(f) == flow[f].step \in {"redirected", "rejected"}

FlowShape ==
    \A f \in Flows :
        /\ flow[f].step = "idle" => flow[f].kind = "setup"
        /\ flow[f].kind # "setup" =>
             /\ flow[f].form \in Forms
             /\ flow[f].kind = "static" <=> flow[f].form.me \in StaticMes
        /\ flow[f].step = "discover" => flow[f].kind # "setup" /\ flow[f].form.me \in PageMes

RowsOfFlows == \A f \in DOMAIN authRequests : Settled(f) /\ Matches(authRequests[f], f)

HandlerShape ==
    /\ \A b \in Callbacks : pc[b] # "idle" =>
         /\ call[b] \in CallbackCalls
         /\ flow[call[b].state].step = "redirected"
         /\ call[b].login \in DOMAIN logins \cup {NoLogin}
    /\ \A p \in Posts : pc[p] # "idle" => call[p] \in PostCalls /\ pc[call[p].consent] = "done"
    /\ \A h \in Handlers :
         /\ pc[h] = "complete" => h \in Callbacks
         /\ pc[h] \in {"idle", "find"} => answer[h] = "none"

\* The user of callback b signed in on its flow, and the flow allows that user.
Earned(b) ==
    LET f == flow[call[b].state]
        l == logins[call[b].login]
    IN  /\ call[b].login \in DOMAIN logins
        /\ l.nonce = call[b].state /\ l.spent
        /\ f.kind # "setup"
        /\ IF f.form.me \in StaticMes THEN l.subject \in AllowedSubjects[f.form.me]
           ELSE l.subject = f.bound

\* A grant goes back to callback b.
From(b, grant) ==
    pc[b] # "idle" /\ Earned(b) /\ grant = GrantOf(flow[call[b].state].form)

HeldByCallbacks ==
    \A b \in Callbacks :
        /\ pc[b] \in {"complete", "store"} => Matches(held[b], call[b].state)
        /\ pc[b] = "store" => From(b, held[b].grant)

ConsentsEarned == \A b \in DOMAIN consents : From(b, consents[b].grant)

HeldByPosts ==
    \A p \in Posts : pc[p] = "store" =>
        From(call[p].consent, held[p].grant) /\ call[p].csrf /\ call[p].approve

CodesEarned ==
    \A c \in DOMAIN issued :
        LET h == issued[c].by
        IN  /\ pc[h] # "idle"
            /\ From(CallbackOf(c), issued[c].grant)
            /\ ConsentRequired => h \in Posts /\ call[h].approve /\ call[h].csrf

\* Rows that a handler deleted stay deleted: their flow or callback is past the insert.
GoneForGood ==
    /\ \A f \in gone \cap Flows : flow[f].step = "redirected" /\ f \notin DOMAIN authRequests
    /\ \A b \in gone \cap Callbacks : pc[b] = "done" /\ b \notin DOMAIN consents
    /\ \A h \in Handlers : late[h] => pc[h] # "idle" /\ KeyOf(h) \in gone

CutoffPast == cleaner.cutoff * Second <= now

\* Handlers run while the server is up, and work with readings of the past.
HandlersRun == \A h \in Handlers : (pc[h] \in Waiting => up) /\ at[h] <= now

LoginInv ==
    /\ TypeOK
    /\ FlowShape
    /\ RowsOfFlows
    /\ HandlerShape
    /\ HeldByCallbacks
    /\ ConsentsEarned
    /\ HeldByPosts
    /\ CodesEarned
    /\ GoneForGood
    /\ LateIsInvalid
    /\ CutoffPast
    /\ HandlersRun
-----------------------------------------------------------------------------
(***************************************************************************)
(* Times, tables and rows.                                                 *)
(***************************************************************************)

\* A reading lies within the second that it is truncated to.
LEMMA UnixBounds ==
    ASSUME NEW t \in Nat
    PROVE  Unix(t) \in Nat /\ Unix(t) * Second \in Nat /\ Unix(t) * Second <= t
BY SecondAssumption DEF Unix

\* The expires_at column of a row is a natural number.
LEMMA ExpiresAtNat ==
    ASSUME NEW t \in Nat, NEW ttl \in Nat
    PROVE  ExpiresAt(t, ttl) \in Nat
BY UnixBounds DEF ExpiresAt

\* What the two statements that change a table's keys do to the table.
LEMMA InsertTable ==
    ASSUME NEW Keys, NEW Rows, NEW table, IsTable(table, Keys, Rows),
           NEW key \in Keys, NEW new \in Rows
    PROVE  IsTable(Insert(table, key, new), Keys, Rows)
BY DEF Insert, IsTable

\* Deleting rows leaves a table of the same kind.
LEMMA DeleteTable ==
    ASSUME NEW Keys, NEW Rows, NEW table, NEW dead, IsTable(table, Keys, Rows)
    PROVE  IsTable(Delete(table, dead), Keys, Rows)
BY DEF Delete, IsTable

\* The grants that forms ask for are grants.
LEMMA GrantType == \A f \in Forms : GrantOf(f) \in Grants
BY DEF Grants

\* The row of a flow has the type of its table.
LEMMA AuthRowType ==
    ASSUME TypeOK, FlowShape, NEW f \in Flows
    PROVE  AuthRow(f) \in AuthRows
<1>1. flow[f] \in [step : {"idle", "discover", "create", "redirected", "rejected", "lost"},
                   kind : RowKinds, form : Forms \cup {NoForm},
                   bound : Subjects \cup {NoSubject}, at : Nat]
  BY DEF TypeOK
<1>2. ExpiresAt(flow[f].at, AuthRequestTTL) \in Nat
  BY <1>1, ExpiresAtNat, ConfigAssumption
<1>3. flow[f].kind # "setup" => GrantOf(flow[f].form) \in Grants
  BY GrantType DEF FlowShape
<1> QED  BY <1>1, <1>2, <1>3 DEF AuthRow, AuthRows

\* A handler that is about to store something holds a grant.
LEMMA HeldGrant ==
    ASSUME LoginInv, NEW h \in Handlers, pc[h] = "store"
    PROVE  /\ \E b \in Callbacks : From(b, held[h].grant)
           /\ held[h].grant \in Grants
<1>1. PICK b \in Callbacks : From(b, held[h].grant)
  <2>1. CASE h \in Callbacks
    BY <2>1 DEF LoginInv, HeldByCallbacks
  <2>2. CASE h \in Posts
    <3>1. call[h].consent \in Callbacks
      BY <2>2 DEF LoginInv, HandlerShape, PostCalls
    <3> QED  BY <2>2, <3>1 DEF LoginInv, HeldByPosts
  <2> QED  BY <2>1, <2>2 DEF Handlers
<1>2. call[b].state \in Flows
  BY <1>1 DEF From, LoginInv, HandlerShape, CallbackCalls
<1>3. flow[call[b].state].form \in Forms
  BY <1>1, <1>2 DEF From, Earned, LoginInv, FlowShape
<1> QED  BY <1>1, <1>3, GrantType DEF From

-----------------------------------------------------------------------------

\* What TypeOK says of a flow.
FlowRecords == [step : {"idle", "discover", "create", "redirected", "rejected", "lost"},
                kind : RowKinds, form : Forms \cup {NoForm},
                bound : Subjects \cup {NoSubject}, at : Nat]

\* A step of one flow keeps the type if what it makes of the flow has it.
LEMMA FlowType ==
    ASSUME TypeOK, NEW f \in Flows,
           NEW step \in {"create", "redirected", "rejected", "lost"}, NEW t \in Nat,
           NEW s \in Subjects \cup {NoSubject}
    PROVE  /\ [flow[f] EXCEPT !.step = step, !.at = t] \in FlowRecords
           /\ [flow[f] EXCEPT !.step = step, !.at = t, !.bound = s] \in FlowRecords
<1>1. flow[f] \in FlowRecords
  BY DEF TypeOK, FlowRecords
<1> QED  BY <1>1 DEF FlowRecords

\* What a step of a flow after its beginning does to it: the kind and the form stay, and
\* once a row may exist everything does.
LEMMA FlowSteps ==
    ASSUME TypeOK, FlowShape, NEW f \in Flows, BeginSetup(f) \/ AdvanceFlow(f)
    PROVE  /\ flow' \in [Flows -> FlowRecords]
           /\ \A g \in Flows \ {f} : flow'[g] = flow[g]
           /\ flow[f].step \in {"idle", "discover", "create"}
           /\ flow'[f].step \in {"create", "redirected", "rejected"}
           /\ flow'[f].kind = flow[f].kind /\ flow'[f].form = flow[f].form
           /\ flow'[f].bound = flow[f].bound \/ (flow[f].step = "discover" /\ flow'[f].step = "create")
<1>1. flow \in [Flows -> FlowRecords] /\ now \in Nat
  BY DEF TypeOK, FlowRecords
<1>2. flow[f] \in FlowRecords
  BY <1>1
<1>3. ASSUME BeginSetup(f) PROVE flow' = [flow EXCEPT ![f] = [flow[f] EXCEPT !.step = "create", !.at = now]]
  BY <1>1, <1>3 DEF BeginSetup
<1>4. ASSUME Discover(f)
      PROVE  /\ pages[flow[f].form.me] \in Subjects \cup {NoSubject}
             /\ flow' = [flow EXCEPT ![f] = [flow[f] EXCEPT !.step = "create", !.at = now,
                                                          !.bound = pages[flow[f].form.me]]]
  BY <1>1, <1>4 DEF Discover, FlowShape, TypeOK
<1>5. ASSUME Reject(f) \/ CreateAuthRequest(f) \/ CreateAuthRequestFails(f)
      PROVE  \E step \in {"redirected", "rejected"} :
                flow' = [flow EXCEPT ![f] = [flow[f] EXCEPT !.step = step, !.at = 0]]
  BY <1>1, <1>5 DEF Reject, CreateAuthRequest, CreateAuthRequestFails
<1>6. flow' \in [Flows -> FlowRecords]
  <2>1. CASE BeginSetup(f)
    <3>1. [flow[f] EXCEPT !.step = "create", !.at = now] \in FlowRecords
      BY <1>1, FlowType
    <3> QED  BY <1>1, <1>3, <2>1, <3>1
  <2>2. CASE Discover(f)
    <3>1. [flow[f] EXCEPT !.step = "create", !.at = now, !.bound = pages[flow[f].form.me]] \in FlowRecords
      BY <1>1, <1>4, <2>2, FlowType
    <3> QED  BY <1>1, <1>4, <2>2, <3>1
  <2>3. CASE Reject(f) \/ CreateAuthRequest(f) \/ CreateAuthRequestFails(f)
    <3>1. \A step \in {"redirected", "rejected"} : [flow[f] EXCEPT !.step = step, !.at = 0] \in FlowRecords
      BY FlowType
    <3> QED  BY <1>1, <1>5, <2>3, <3>1
  <2> QED  BY <2>1, <2>2, <2>3 DEF AdvanceFlow
<1>7. \A g \in Flows \ {f} : flow'[g] = flow[g]
  BY <1>1, <1>3, <1>4, <1>5 DEF AdvanceFlow
<1>8. flow[f].step \in {"idle", "discover", "create"}
  BY DEF AdvanceFlow, BeginSetup, Idling, Discover, Reject, CreateAuthRequest, CreateAuthRequestFails
<1>9. /\ flow'[f].step \in {"create", "redirected", "rejected"}
      /\ flow'[f].kind = flow[f].kind /\ flow'[f].form = flow[f].form
      /\ flow'[f].bound = flow[f].bound \/ (flow[f].step = "discover" /\ flow'[f].step = "create")
  <2>1. CASE BeginSetup(f)
    <3>1. flow'[f] = [flow[f] EXCEPT !.step = "create", !.at = now]
      BY <1>1, <1>3, <2>1
    <3> QED  BY <1>2, <3>1 DEF FlowRecords
  <2>2. CASE Discover(f)
    <3>1. flow[f].step = "discover"
      BY <2>2 DEF Discover
    <3>2. flow'[f] = [flow[f] EXCEPT !.step = "create", !.at = now,
                                     !.bound = pages[flow[f].form.me]]
      BY <1>1, <1>4, <2>2
    <3>3. /\ flow'[f].step = "create"
          /\ flow'[f].kind = flow[f].kind /\ flow'[f].form = flow[f].form
      BY <1>2, <3>2 DEF FlowRecords
    <3> QED  BY <3>1, <3>3
  <2>3. CASE Reject(f) \/ CreateAuthRequest(f) \/ CreateAuthRequestFails(f)
    <3>1. PICK step \in {"redirected", "rejected"} : flow'[f] = [flow[f] EXCEPT !.step = step, !.at = 0]
      BY <1>1, <1>5, <2>3
    <3> QED  BY <1>2, <3>1 DEF FlowRecords
  <2> QED  BY <2>1, <2>2, <2>3 DEF AdvanceFlow
<1> QED
  BY <1>6, <1>7, <1>8, <1>9

\* The steps of a handler that work on its own record.
LEMMA GotoType ==
    ASSUME TypeOK, NEW h \in Handlers, NEW step \in {"complete", "store", "delete", "done"},
           NEW a \in {"none", "invalid", "rejected", "setup", "consent", "code", "denied", "error"},
           Goto(h, step, a)
    PROVE  /\ pc' \in [Handlers -> {"idle", "done", "lost"} \cup Waiting]
           /\ at' \in [Handlers -> Nat]
           /\ answer' \in [Handlers -> {"none", "invalid", "rejected", "setup", "consent",
                                       "code", "denied", "error"}]
BY DEF Goto, TypeOK, Waiting

\* Starting a handler keeps the types.
LEMMA BeginType ==
    ASSUME TypeOK, NEW h \in Handlers, NEW c \in CallbackCalls \cup PostCalls, NEW key,
           Begin(h, c, key)
    PROVE  TypeOK'
BY DEF Begin, TypeOK, Waiting, tables, process

\* Every step keeps the types.
LEMMA TypeNext == LoginInv /\ [Next]_vars => TypeOK'
<1> SUFFICES ASSUME LoginInv, [Next]_vars PROVE TypeOK'
  OBVIOUS
<1> USE DEF vars, tables, handlers, process
<1>t. TypeOK /\ FlowShape
  BY DEF LoginInv
<1>1. CASE Tick
  BY <1>1, <1>t DEF Tick, TypeOK
<1>2. ASSUME NEW p \in PageMes, NEW s \in Subjects \cup {NoSubject}, EditPage(p, s) PROVE TypeOK'
  BY <1>2, <1>t DEF EditPage, TypeOK
<1>3. ASSUME NEW f \in Flows, BeginSetup(f) PROVE TypeOK'
  BY <1>3, <1>t, FlowSteps DEF BeginSetup, TypeOK, FlowRecords
<1>4. ASSUME NEW f \in Flows, NEW form \in Forms, BeginAuthorize(f, form) PROVE TypeOK'
  <2>1. ManagedProfileForMe(form.me) \in Subjects \cup {NoSubject}
    BY NameAssumption DEF ManagedProfileForMe
  <2>2. flow' \in [Flows -> [step : {"idle", "discover", "create", "redirected", "rejected", "lost"},
                           kind : RowKinds, form : Forms \cup {NoForm},
                           bound : Subjects \cup {NoSubject}, at : Nat]]
    BY <1>4, <1>t, <2>1 DEF BeginAuthorize, TypeOK, RowKinds
  <2> QED  BY <1>4, <1>t, <2>2 DEF BeginAuthorize, TypeOK
<1>5. ASSUME NEW f \in Flows, Discover(f) \/ Reject(f) PROVE TypeOK'
  BY <1>5, <1>t, FlowSteps DEF Discover, Reject, AdvanceFlow, TypeOK, FlowRecords
<1>7. ASSUME NEW f \in Flows, CreateAuthRequest(f) \/ CreateAuthRequestFails(f) PROVE TypeOK'
  <2>1. IsTable(authRequests', Flows, AuthRows)
    BY <1>7, <1>t, AuthRowType, InsertTable DEF CreateAuthRequest, CreateAuthRequestFails, TypeOK
  <2>2. faults' \in Nat
    BY <1>7, <1>t DEF CreateAuthRequest, CreateAuthRequestFails, Fault, TypeOK
  <2>3. flow' \in [Flows -> FlowRecords]
    BY <1>7, <1>t, FlowSteps DEF AdvanceFlow
  <2> QED
    BY <1>7, <1>t, <2>1, <2>2, <2>3 DEF CreateAuthRequest, CreateAuthRequestFails, TypeOK, FlowRecords
<1>9. ASSUME NEW f \in Flows, NEW l \in Logins, NEW s \in Subjects, ProviderLogin(f, l, s)
      PROVE  TypeOK'
  <2>1. IsTable(logins', Logins, [nonce : Flows, subject : Subjects, spent : BOOLEAN])
    BY <1>9, <1>t, InsertTable DEF ProviderLogin, TypeOK
  <2> QED  BY <1>9, <1>t, <2>1 DEF ProviderLogin, TypeOK
<1>10. ASSUME NEW b \in Callbacks, NEW f \in Flows, NEW l \in Logins \cup {NoLogin},
              BeginCallback(b, f, l)
       PROVE  TypeOK'
  BY <1>10, <1>t, BeginType DEF BeginCallback, CallbackCalls, Handlers
<1>11. ASSUME NEW p \in Posts, NEW b \in Callbacks, NEW csrf \in BOOLEAN, NEW approve \in BOOLEAN,
              BeginPost(p, b, csrf, approve)
       PROVE  TypeOK'
  BY <1>11, <1>t, BeginType DEF BeginPost, PostCalls, Handlers
<1>12. ASSUME NEW h \in Handlers, Advance(h) PROVE TypeOK'
  <2>1. CASE FindAuthRequest(h)
    <3>1. /\ held' \in [Handlers -> AuthRows \cup ConsentRows \cup {NoRow}]
          /\ \E step \in {"complete", "done"}, a \in {"none", "invalid"} : Goto(h, step, a)
      BY <2>1, <1>t DEF FindAuthRequest, Findable, TypeOK, IsTable
    <3> QED  BY <2>1, <1>t, <3>1, GotoType DEF FindAuthRequest, TypeOK
  <2>2. ASSUME NEW l \in DOMAIN logins, logins' = [logins EXCEPT ![l].spent = TRUE]
        PROVE  IsTable(logins', Logins, [nonce : Flows, subject : Subjects, spent : BOOLEAN])
    <3>0. logins[l] \in [nonce : Flows, subject : Subjects, spent : BOOLEAN]
      BY <2>2, <1>t DEF TypeOK, IsTable
    <3>1. [logins[l] EXCEPT !.spent = TRUE] \in [nonce : Flows, subject : Subjects, spent : BOOLEAN]
      BY <3>0
    <3> QED  BY <2>2, <3>1, <1>t DEF TypeOK, IsTable
  <2>3. pc[h] = "complete" => h \in Callbacks /\ call[h].login \in DOMAIN logins \cup {NoLogin}
    BY DEF LoginInv, HandlerShape
  <2>4. CASE CompleteAuth(h)
    <3>1. IsTable(logins', Logins, [nonce : Flows, subject : Subjects, spent : BOOLEAN])
      BY <2>2, <2>3, <2>4 DEF CompleteAuth
    <3>2. subject' \in [Callbacks -> Subjects \cup {NoSubject}]
      BY <2>3, <2>4, <1>t DEF CompleteAuth, TypeOK, IsTable
    <3>3. \E step \in {"delete", "store"}, a \in {"setup", "none", "rejected"} : Goto(h, step, a)
      BY <2>4 DEF CompleteAuth
    <3> QED  BY <2>4, <1>t, <3>1, <3>2, <3>3, GotoType DEF CompleteAuth, TypeOK
  <2>5. CASE CompleteAuthFails(h)
    <3>1. IsTable(logins', Logins, [nonce : Flows, subject : Subjects, spent : BOOLEAN])
      BY <2>2, <2>3, <2>5, <1>t DEF CompleteAuthFails, TypeOK
    <3>2. faults' \in Nat
      BY <2>5, <1>t DEF CompleteAuthFails, Fault, TypeOK
    <3> QED  BY <2>5, <1>t, <3>1, <3>2, GotoType DEF CompleteAuthFails, TypeOK
  <2>6. CASE FindConsent(h)
    <3>1. /\ held' \in [Handlers -> AuthRows \cup ConsentRows \cup {NoRow}]
          /\ \E step \in {"done", "delete", "store"}, a \in {"none", "invalid", "rejected", "denied"} :
                Goto(h, step, a)
      BY <2>6, <1>t DEF FindConsent, TypeOK, IsTable
    <3> QED  BY <2>6, <1>t, <3>1, GotoType DEF FindConsent, TypeOK
  <2>7. CASE FindFails(h) \/ FinishWithoutDelete(h)
    <3>1. /\ \E a \in {"none", "invalid", "rejected", "setup", "consent", "code", "denied", "error"} :
                Goto(h, "done", a)
          /\ faults' \in Nat
      BY <2>7, <1>t DEF FindFails, FinishWithoutDelete, Fault, TypeOK
    <3> QED  BY <2>7, <1>t, <3>1, GotoType DEF FindFails, FinishWithoutDelete, TypeOK
  <2>8. ASSUME pc[h] = "store", InsertConsent(h) \/ \E c \in Codes, t \in at[h]..now : InsertCode(h, c, t)
        PROVE  /\ IsTable(authRequests', Flows, AuthRows)
               /\ IsTable(consents', Callbacks, ConsentRows)
               /\ IsTable(codes', Codes, CodeRows)
               /\ IsTable(issued', Codes, [grant : Grants, by : Handlers])
    <3>1. held[h].grant \in Grants /\ at[h] \in Nat /\ now \in Nat
      BY <2>8, <1>t, HeldGrant DEF TypeOK
    <3>2. \A t \in at[h]..now : ExpiresAt(t, CodeTTL) \in Nat
      <4>1. \A t \in at[h]..now : t \in Nat
        BY <3>1
      <4> QED  BY <4>1, ExpiresAtNat, ConfigAssumption
    <3>3. CASE InsertConsent(h)
      <4>1. \A t \in at[h]..now :
              [grant |-> held[h].grant, expiresAt |-> ExpiresAt(t, CodeTTL)] \in ConsentRows
        BY <3>1, <3>2 DEF ConsentRows
      <4> QED  BY <3>3, <4>1, <1>t, InsertTable DEF InsertConsent, NeedsConsent, TypeOK
    <3>4. ASSUME NEW c \in Codes, NEW t \in at[h]..now, InsertCode(h, c, t)
          PROVE  /\ IsTable(codes', Codes, CodeRows)
                 /\ IsTable(issued', Codes, [grant : Grants, by : Handlers])
                 /\ UNCHANGED <<authRequests, consents>>
      <4>1. /\ [grant |-> held[h].grant, used |-> FALSE,
                expiresAt |-> ExpiresAt(t, CodeTTL)] \in CodeRows
            /\ [grant |-> held[h].grant, by |-> h] \in [grant : Grants, by : Handlers]
        BY <3>1, <3>2 DEF CodeRows
      <4>2. /\ codes' = Insert(codes, c, [grant |-> held[h].grant, used |-> FALSE,
                                          expiresAt |-> ExpiresAt(t, CodeTTL)])
            /\ issued' = Insert(issued, c, [grant |-> held[h].grant, by |-> h])
            /\ UNCHANGED <<authRequests, consents>>
        BY <3>4 DEF InsertCode
      <4> QED  BY <4>1, <4>2, <1>t, InsertTable DEF TypeOK
    <3> QED  BY <2>8, <3>3, <3>4, <1>t DEF TypeOK
  <2>9. CASE StoreConsent(h)
    BY <2>8, <2>9, <1>t, GotoType DEF StoreConsent, TypeOK
  <2>10. ASSUME NEW c \in Codes, NEW t \in at[h]..now, StoreCode(h, c, t) PROVE TypeOK'
    BY <2>8, <2>10, <1>t, GotoType DEF StoreCode, TypeOK
  <2>11. CASE StoreFails(h)
    <3>1. /\ IsTable(authRequests', Flows, AuthRows)
          /\ IsTable(consents', Callbacks, ConsentRows)
          /\ IsTable(codes', Codes, CodeRows)
          /\ IsTable(issued', Codes, [grant : Grants, by : Handlers])
          /\ faults' \in Nat
      BY <2>8, <2>11, <1>t DEF StoreFails, Fault, TypeOK
    <3> QED  BY <2>11, <3>1, <1>t, GotoType DEF StoreFails, TypeOK
  <2>12. CASE Finish(h)
    <3>1. IsTable(authRequests', Flows, AuthRows) /\ IsTable(consents', Callbacks, ConsentRows)
      BY <2>12, <1>t, DeleteTable DEF Finish, DeleteRow, TypeOK
    <3>2. KeyOf(h) \in Flows \cup Callbacks
      BY <2>12, NameAssumption DEF Finish, KeyOf, Handlers, LoginInv, HandlerShape, CallbackCalls, PostCalls
    <3>3. answer[h] \in {"none", "invalid", "rejected", "setup", "consent", "code", "denied", "error"}
      BY <1>t DEF TypeOK
    <3> QED  BY <2>12, <3>1, <3>2, <3>3, <1>t, GotoType DEF Finish, DeleteRow, TypeOK
  <2> QED
    BY <1>12, <2>1, <2>4, <2>5, <2>6, <2>7, <2>9, <2>10, <2>11, <2>12 DEF Advance
<1>13. CASE CleanupBegin
  BY <1>13, <1>t, UnixBounds DEF CleanupBegin, TypeOK
<1>14. CASE Clean
  <2>1. CASE CleanupAuthRequests
    BY <2>1, <1>t, DeleteTable DEF CleanupAuthRequests, TypeOK
  <2>2. CASE CleanupConsents
    BY <2>2, <1>t, DeleteTable DEF CleanupConsents, TypeOK
  <2>3. CASE CleanupCodes
    BY <2>3, <1>t, DeleteTable DEF CleanupCodes, Idle, TypeOK
  <2>4. CASE CleanupFails
    BY <2>4, <1>t DEF CleanupFails, Fault, Idle, TypeOK
  <2> QED  BY <1>14, <2>1, <2>2, <2>3, <2>4 DEF Clean
<1>15. CASE Crash
  <2>1. flow' \in [Flows -> FlowRecords]
    <3>1. flow \in [Flows -> FlowRecords]
      BY <1>t DEF TypeOK, FlowRecords
    <3>2. \A f \in Flows : [flow[f] EXCEPT !.step = "lost", !.at = 0] \in FlowRecords
      BY <1>t, FlowType
    <3> QED  BY <1>15, <3>1, <3>2 DEF Crash
  <2>2. /\ pc' \in [Handlers -> {"idle", "done", "lost"} \cup Waiting]
        /\ at' \in [Handlers -> Nat]
    BY <1>15, <1>t DEF Crash, TypeOK
  <2>4. faults' \in Nat
    <3>1. Fault
      BY <1>15 DEF Crash
    <3> QED  BY <3>1, <1>t DEF Fault, TypeOK
  <2>5. up' \in BOOLEAN
    BY <1>15 DEF Crash
  <2>3. cleaner' \in [step : {"idle", "auth", "consents", "codes"}, cutoff : Nat]
    BY <1>15, <1>t, UnixBounds DEF Crash, TypeOK
  <2> QED  BY <1>15, <1>t, <2>1, <2>2, <2>3, <2>4, <2>5 DEF Crash, TypeOK, FlowRecords
<1>16. CASE Listen
  BY <1>16, <1>t DEF Listen, TypeOK
<1>17. CASE UNCHANGED vars
  BY <1>17, <1>t DEF TypeOK
<1> QED
  BY <1>1, <1>2, <1>3, <1>4, <1>5, <1>7, <1>9, <1>10, <1>11, <1>12, <1>13, <1>14,
     <1>15, <1>16, <1>17 DEF Next, AdvanceFlow
-----------------------------------------------------------------------------
(***************************************************************************)
(* What a step does to one flow, one handler and one row.                  *)
(***************************************************************************)
FlowLost(f) ==
    /\ flow[f].step \in {"discover", "create"}
    /\ flow'[f] = [flow[f] EXCEPT !.step = "lost", !.at = 0]

\* A flow stays as it is, makes a step of its own, or is lost in a crash.
LEMMA FlowsNext ==
    ASSUME LoginInv, [Next]_vars, NEW f \in Flows
    PROVE  \/ flow'[f] = flow[f]
           \/ BeginSetup(f) \/ AdvanceFlow(f)
           \/ \E form \in Forms : BeginAuthorize(f, form)
           \/ FlowLost(f)
<1> USE DEF vars, tables, handlers, process
<1>1. ASSUME NEW g \in Flows \ {f}, BeginSetup(g) \/ AdvanceFlow(g) PROVE flow'[f] = flow[f]
  BY <1>1, FlowSteps DEF LoginInv
<1>2. ASSUME NEW g \in Flows \ {f}, NEW form \in Forms, BeginAuthorize(g, form) PROVE flow'[f] = flow[f]
  BY <1>2 DEF BeginAuthorize, LoginInv, TypeOK
<1>3. ASSUME Crash PROVE flow'[f] = flow[f] \/ FlowLost(f)
  BY <1>3 DEF Crash, FlowLost
<1>4. ASSUME NEW h \in Handlers, Advance(h) PROVE UNCHANGED flow
  BY <1>4 DEF Advance, FindAuthRequest, CompleteAuth, CompleteAuthFails, FindConsent, FindFails,
     StoreConsent, StoreCode, StoreFails, Finish, FinishWithoutDelete
<1>5. ASSUME NEW h \in Handlers, NEW c, NEW key, Begin(h, c, key) PROVE UNCHANGED flow
  BY <1>5 DEF Begin
<1>6. ASSUME CleanupBegin \/ Clean \/ Listen \/ Tick PROVE UNCHANGED flow
  BY <1>6 DEF CleanupBegin, Clean, CleanupAuthRequests, CleanupConsents, CleanupCodes,
     CleanupFails, Listen, Tick
<1> QED
  BY <1>1, <1>2, <1>3, <1>4, <1>5, <1>6
     DEF Next, EditPage, ProviderLogin, BeginCallback, BeginPost, Handlers

HandlerKept(h) ==
    /\ pc'[h] = pc[h] \/ (pc[h] \in Waiting /\ pc'[h] = "lost")
    /\ call'[h] = call[h] /\ held'[h] = held[h]
    /\ answer'[h] = answer[h] /\ late'[h] = late[h]

Begins(h) ==
    \/ /\ h \in Callbacks
       /\ \E f \in Flows, l \in Logins \cup {NoLogin} : BeginCallback(h, f, l)
    \/ /\ h \in Posts
       /\ \E b \in Callbacks, csrf, approve \in BOOLEAN : BeginPost(h, b, csrf, approve)

\* What the step of a handler changes of the others' records: nothing.
LEMMA AdvanceFrame ==
    ASSUME TypeOK, NEW h \in Handlers, Advance(h)
    PROVE  /\ UNCHANGED <<now, pages, edits, flow, call, late, cleaner, up>>
           /\ pc[h] \in Waiting /\ pc'[h] \in {"complete", "store", "delete", "done"}
           /\ \A g \in Handlers \ {h} :
                pc'[g] = pc[g] /\ answer'[g] = answer[g] /\ held'[g] = held[g]
<1> USE DEF tables, process
<1>1. UNCHANGED <<now, pages, edits, flow, call, late, cleaner, up>>
  BY DEF Advance, FindAuthRequest, CompleteAuth, CompleteAuthFails, FindConsent, FindFails,
     StoreConsent, StoreCode, StoreFails, Finish, FinishWithoutDelete
<1>2. \E step \in {"complete", "store", "delete", "done"} : \E a : Goto(h, step, a)
  BY DEF Advance, FindAuthRequest, CompleteAuth, CompleteAuthFails, FindConsent, FindFails,
     StoreConsent, StoreCode, StoreFails, Finish, FinishWithoutDelete
<1>3. /\ pc'[h] \in {"complete", "store", "delete", "done"}
      /\ \A g \in Handlers \ {h} : pc'[g] = pc[g] /\ answer'[g] = answer[g]
  BY <1>2 DEF Goto, TypeOK
<1>4. pc[h] \in Waiting
  BY DEF Advance, FindAuthRequest, CompleteAuth, CompleteAuthFails, FindConsent, FindFails,
     StoreConsent, StoreCode, StoreFails, Finish, FinishWithoutDelete, Waiting
<1>5. \A g \in Handlers \ {h} : held'[g] = held[g]
  BY DEF Advance, FindAuthRequest, CompleteAuth, CompleteAuthFails, FindConsent, FindFails,
     StoreConsent, StoreCode, StoreFails, Finish, FinishWithoutDelete, TypeOK
<1> QED  BY <1>1, <1>3, <1>4, <1>5

\* A handler stays as it is or is lost in a crash, begins, or makes a step of its own.
LEMMA HandlersNext ==
    ASSUME LoginInv, [Next]_vars, NEW h \in Handlers
    PROVE  HandlerKept(h) \/ Begins(h) \/ Advance(h)
<1> USE DEF vars, tables, handlers, process
<1>t. TypeOK
  BY DEF LoginInv
<1>1. ASSUME NEW g \in Handlers \ {h}, Advance(g) PROVE HandlerKept(h)
  BY <1>1, <1>t, AdvanceFrame DEF HandlerKept
<1>2. ASSUME NEW g \in Handlers \ {h}, NEW c, NEW key, Begin(g, c, key) PROVE HandlerKept(h)
  BY <1>2, <1>t DEF HandlerKept, Begin, TypeOK
<1>3. CASE Crash
  BY <1>3 DEF Crash, HandlerKept
<1>4. ASSUME NEW f \in Flows, BeginSetup(f) \/ AdvanceFlow(f) \/ \E form \in Forms : BeginAuthorize(f, form)
      PROVE  UNCHANGED handlers
  BY <1>4 DEF BeginSetup, AdvanceFlow, BeginAuthorize, Discover, Reject, CreateAuthRequest,
     CreateAuthRequestFails
<1>5. ASSUME CleanupBegin \/ Clean \/ Listen \/ Tick PROVE UNCHANGED handlers
  BY <1>5 DEF CleanupBegin, Clean, CleanupAuthRequests, CleanupConsents, CleanupCodes,
     CleanupFails, Listen, Tick
<1>6. ASSUME UNCHANGED handlers PROVE HandlerKept(h)
  BY <1>6 DEF HandlerKept
<1>7. ASSUME NEW b \in Callbacks, NEW f \in Flows, NEW l \in Logins \cup {NoLogin}, BeginCallback(b, f, l)
      PROVE  HandlerKept(h) \/ Begins(h)
  BY <1>2, <1>7 DEF BeginCallback, Begins, Handlers
<1>8. ASSUME NEW p \in Posts, NEW b \in Callbacks, NEW csrf \in BOOLEAN, NEW approve \in BOOLEAN,
             BeginPost(p, b, csrf, approve)
      PROVE  HandlerKept(h) \/ Begins(h)
  BY <1>2, <1>8 DEF BeginPost, Begins, Handlers
<1> QED
  BY <1>1, <1>3, <1>4, <1>5, <1>6, <1>7, <1>8 DEF Next, EditPage, ProviderLogin

\* The provider's codes keep their sign-in, and stay spent.
LoginsAge ==
    \A l \in DOMAIN logins :
        /\ l \in DOMAIN logins'
        /\ logins'[l].nonce = logins[l].nonce /\ logins'[l].subject = logins[l].subject
        /\ logins[l].spent => logins'[l].spent

\* Exchanging a code ages it.
LEMMA SpendingAges ==
    ASSUME TypeOK, NEW l \in DOMAIN logins, logins' = [logins EXCEPT ![l].spent = TRUE]
    PROVE  LoginsAge /\ logins'[l].spent
<1>1. logins[l] \in [nonce : Flows, subject : Subjects, spent : BOOLEAN]
  BY DEF TypeOK, IsTable
<1>2. logins'[l] = [logins[l] EXCEPT !.spent = TRUE]
  OBVIOUS
<1>3. /\ logins'[l].nonce = logins[l].nonce /\ logins'[l].subject = logins[l].subject
      /\ logins'[l].spent
  BY <1>1, <1>2
<1> QED  BY <1>3 DEF LoginsAge

\* Every step ages the provider's codes.
LEMMA LoginsNext == LoginInv /\ [Next]_vars => LoginsAge
<1> SUFFICES ASSUME LoginInv, [Next]_vars PROVE LoginsAge
  OBVIOUS
<1> USE DEF vars, tables, handlers, process
<1>1. CASE UNCHANGED logins
  BY <1>1 DEF LoginsAge
<1>2. ASSUME NEW f \in Flows, NEW l \in Logins, NEW s \in Subjects, ProviderLogin(f, l, s)
      PROVE  LoginsAge
  BY <1>2 DEF ProviderLogin, Insert, LoginsAge
<1>3. ASSUME NEW h \in Handlers, Advance(h) PROVE LoginsAge
  <2>1. CASE CompleteAuth(h) \/ CompleteAuthFails(h)
    <3>1. call[h].login \in DOMAIN logins \cup {NoLogin}
      BY <2>1 DEF CompleteAuth, CompleteAuthFails, LoginInv, HandlerShape
    <3>2. \/ UNCHANGED logins
          \/ /\ call[h].login # NoLogin
             /\ logins' = [logins EXCEPT ![call[h].login].spent = TRUE]
      BY <2>1 DEF CompleteAuth, CompleteAuthFails
    <3> QED  BY <3>1, <3>2, <1>1, SpendingAges DEF LoginInv
  <2>2. CASE ~(CompleteAuth(h) \/ CompleteAuthFails(h))
    BY <1>1, <1>3, <2>2 DEF Advance, FindAuthRequest, FindConsent, FindFails,
       StoreConsent, StoreCode, StoreFails, Finish, FinishWithoutDelete
  <2> QED  BY <2>1, <2>2
<1> QED
  BY <1>1, <1>2, <1>3
     DEF Next, Tick, EditPage, BeginSetup, BeginAuthorize, AdvanceFlow, Discover, Reject,
     CreateAuthRequest, CreateAuthRequestFails, BeginCallback, BeginPost, Begin, CleanupBegin,
     Clean, CleanupAuthRequests, CleanupConsents, CleanupCodes, CleanupFails, Crash, Listen

\* What every step leaves in place.
Settles ==
    /\ \A f \in Flows : Settled(f) => flow'[f] = flow[f]
    /\ \A h \in Handlers :
         /\ pc[h] # "idle" => pc'[h] # "idle" /\ call'[h] = call[h]
         /\ pc[h] = "done" => pc'[h] = "done" /\ answer'[h] = answer[h] /\ late'[h] = late[h]
    /\ LoginsAge

\* Flows that ended stay as they are, handlers keep their query, sign-ins stay.
LEMMA StepSettles == LoginInv /\ [Next]_vars => Settles
<1> SUFFICES ASSUME LoginInv, [Next]_vars PROVE Settles
  OBVIOUS
<1>1. ASSUME NEW f \in Flows, Settled(f) PROVE flow'[f] = flow[f]
  <2>1. flow[f].step \in {"redirected", "rejected"}
    BY <1>1 DEF Settled
  <2>2. ~BeginSetup(f) /\ ~AdvanceFlow(f) /\ ~FlowLost(f)
    BY <2>1 DEF BeginSetup, Idling, AdvanceFlow, Discover, Reject, CreateAuthRequest,
       CreateAuthRequestFails, FlowLost
  <2>3. ~\E form \in Forms : BeginAuthorize(f, form)
    BY <2>1 DEF BeginAuthorize, Idling
  <2> QED  BY <2>2, <2>3, FlowsNext
<1>2. ASSUME NEW h \in Handlers
      PROVE  /\ pc[h] # "idle" => pc'[h] # "idle" /\ call'[h] = call[h]
             /\ pc[h] = "done" => pc'[h] = "done" /\ answer'[h] = answer[h] /\ late'[h] = late[h]
  <2>1. CASE HandlerKept(h)
    BY <2>1 DEF HandlerKept, Waiting
  <2>2. CASE Begins(h)
    BY <2>2 DEF Begins, BeginCallback, BeginPost, Begin
  <2>3. CASE Advance(h)
    BY <2>3, AdvanceFrame DEF LoginInv, Waiting
  <2> QED  BY <2>1, <2>2, <2>3, HandlersNext
<1> QED  BY <1>1, <1>2, LoginsNext DEF Settles

\* What a row says about its flow stays true.
LEMMA MatchesStays ==
    ASSUME Settles, NEW f \in Flows, Settled(f), NEW r, Matches(r, f)
    PROVE  Settled(f)' /\ Matches(r, f)'
BY DEF Settles, Settled, Matches

\* A callback whose user earned something has earned it for good.
LEMMA EarnedStays ==
    ASSUME LoginInv, Settles, NEW b \in Callbacks, pc[b] # "idle", Earned(b)
    PROVE  Earned(b)' /\ UNCHANGED <<flow[call[b].state], call[b]>>
<1>1. /\ call'[b] = call[b] /\ call[b].state \in Flows /\ b \in Handlers
      /\ flow'[call[b].state] = flow[call[b].state]
  BY DEF LoginInv, HandlerShape, CallbackCalls, Settles, Settled, Handlers
<1>2. \A l : l = call[b].login =>
        /\ l \in DOMAIN logins'
        /\ logins'[l].nonce = logins[l].nonce /\ logins'[l].subject = logins[l].subject
        /\ logins'[l].spent
  BY DEF Earned, Settles, LoginsAge
<1> QED  BY <1>1, <1>2 DEF Earned

\* A grant that goes back to a callback still does.
LEMMA FromStays ==
    ASSUME LoginInv, Settles, NEW b \in Callbacks, NEW g, From(b, g)
    PROVE  From(b, g)'
<1>1. pc[b] # "idle" /\ Earned(b) /\ g = GrantOf(flow[call[b].state].form)
  BY DEF From
<1>2. Earned(b)' /\ UNCHANGED <<flow[call[b].state], call[b]>>
  BY <1>1, EarnedStays
<1>3. pc'[b] # "idle"
  BY <1>1 DEF Settles, Handlers
<1> QED  BY <1>1, <1>2, <1>3 DEF From, GrantOf
-----------------------------------------------------------------------------
(***************************************************************************)
(* Where rows come from, and where a handler's steps lead.                 *)
(***************************************************************************)
\* What storing does to the tables: at most one insert.
Stores(h) ==
    /\ pc[h] = "store"
    /\ UNCHANGED tables \/ InsertConsent(h) \/ \E c \in Codes, t \in at[h]..now : InsertCode(h, c, t)

\* Only storing and the deferred delete change a table in a handler's step.
LEMMA AdvanceTables ==
    ASSUME NEW h \in Handlers, Advance(h)
    PROVE  UNCHANGED tables \/ Stores(h) \/ Finish(h)
BY DEF Advance, FindAuthRequest, CompleteAuth, CompleteAuthFails, FindConsent, FindFails,
   StoreConsent, StoreCode, StoreFails, FinishWithoutDelete, Stores, tables

\* A step changes no table, or creates one flow's row, or stores or deletes for one handler,
\* or is a statement of cleanup.
LEMMA TablesNext ==
    ASSUME [Next]_vars
    PROVE  \/ UNCHANGED <<tables, gone>>
           \/ \E f \in Flows : CreateAuthRequest(f) \/ CreateAuthRequestFails(f)
           \/ (\E h \in Handlers : Stores(h)) /\ UNCHANGED gone
           \/ \E h \in Handlers : Finish(h)
           \/ CleanupAuthRequests \/ CleanupConsents \/ CleanupCodes
<1> USE DEF vars, tables, handlers, process
<1>1. ASSUME NEW h \in Handlers, Advance(h), ~Finish(h)
      PROVE  UNCHANGED gone /\ (UNCHANGED tables \/ Stores(h))
  <2>1. UNCHANGED gone
    BY <1>1 DEF Advance, FindAuthRequest, CompleteAuth, CompleteAuthFails, FindConsent, FindFails,
       StoreConsent, StoreCode, StoreFails, FinishWithoutDelete
  <2> QED  BY <1>1, <2>1, AdvanceTables
<1>2. ASSUME NEW h, NEW c, NEW key, Begin(h, c, key) PROVE UNCHANGED <<tables, gone>>
  BY <1>2 DEF Begin
<1> QED
  BY <1>1, <1>2 DEF Next, Tick, EditPage, BeginSetup, BeginAuthorize, AdvanceFlow, Discover,
     Reject, ProviderLogin, BeginCallback, BeginPost, CleanupBegin, Clean, CleanupFails,
     Crash, Listen

\* A row of auth_requests was there already or is that of a flow that creates it.
LEMMA AuthRowsNext ==
    ASSUME LoginInv, [Next]_vars, NEW f \in DOMAIN authRequests'
    PROVE  \/ f \in DOMAIN authRequests /\ authRequests'[f] = authRequests[f]
           \/ /\ f \in Flows /\ (CreateAuthRequest(f) \/ CreateAuthRequestFails(f))
              /\ authRequests'[f] = AuthRow(f)
<1>1. ASSUME NEW g \in Flows, CreateAuthRequest(g) \/ CreateAuthRequestFails(g)
      PROVE  \/ f \in DOMAIN authRequests /\ authRequests'[f] = authRequests[f]
             \/ f = g /\ authRequests'[f] = AuthRow(f)
  BY <1>1 DEF CreateAuthRequest, CreateAuthRequestFails, Insert
<1>2. ASSUME NEW h \in Handlers, Stores(h) PROVE UNCHANGED authRequests
  BY <1>2 DEF Stores, InsertConsent, InsertCode, tables
<1>3. ASSUME NEW h \in Handlers, Finish(h)
      PROVE  f \in DOMAIN authRequests /\ authRequests'[f] = authRequests[f]
  BY <1>3 DEF Finish, DeleteRow, Delete
<1>4. ASSUME CleanupAuthRequests \/ CleanupConsents \/ CleanupCodes
      PROVE  f \in DOMAIN authRequests /\ authRequests'[f] = authRequests[f]
  BY <1>4 DEF CleanupAuthRequests, CleanupConsents, CleanupCodes, Delete
<1> QED  BY <1>1, <1>2, <1>3, <1>4, TablesNext DEF tables

\* A row of consent_requests was there already or is that of a callback that stores it.
LEMMA ConsentsNext ==
    ASSUME LoginInv, [Next]_vars, NEW b \in DOMAIN consents'
    PROVE  \/ b \in DOMAIN consents /\ consents'[b] = consents[b]
           \/ b \in Callbacks /\ pc[b] = "store" /\ consents'[b].grant = held[b].grant
<1>1. ASSUME NEW g \in Flows, CreateAuthRequest(g) \/ CreateAuthRequestFails(g)
      PROVE  UNCHANGED consents
  BY <1>1 DEF CreateAuthRequest, CreateAuthRequestFails
<1>2. ASSUME NEW h \in Handlers, Stores(h)
      PROVE  \/ b \in DOMAIN consents /\ consents'[b] = consents[b]
             \/ b \in Callbacks /\ pc[b] = "store" /\ consents'[b].grant = held[b].grant
  <2>1. CASE InsertConsent(h)
    BY <1>2, <2>1 DEF Stores, InsertConsent, NeedsConsent, Insert
  <2>2. CASE UNCHANGED consents
    BY <2>2
  <2> QED  BY <1>2, <2>1, <2>2 DEF Stores, InsertCode, tables
<1>3. ASSUME NEW h \in Handlers, Finish(h)
      PROVE  b \in DOMAIN consents /\ consents'[b] = consents[b]
  BY <1>3 DEF Finish, DeleteRow, Delete
<1>4. ASSUME CleanupAuthRequests \/ CleanupConsents \/ CleanupCodes
      PROVE  b \in DOMAIN consents /\ consents'[b] = consents[b]
  BY <1>4 DEF CleanupAuthRequests, CleanupConsents, CleanupCodes, Delete
<1> QED  BY <1>1, <1>2, <1>3, <1>4, TablesNext DEF tables

\* A code was issued before or is issued by a handler that stores it.
LEMMA IssuedNext ==
    ASSUME LoginInv, [Next]_vars, NEW c \in DOMAIN issued'
    PROVE  \/ c \in DOMAIN issued /\ issued'[c] = issued[c]
           \/ \E h \in Handlers : /\ pc[h] = "store" /\ ~NeedsConsent(h)
                                  /\ issued'[c].by = h /\ issued'[c].grant = held[h].grant
<1>1. ASSUME NEW g \in Flows, CreateAuthRequest(g) \/ CreateAuthRequestFails(g)
      PROVE  UNCHANGED issued
  BY <1>1 DEF CreateAuthRequest, CreateAuthRequestFails
<1>2. ASSUME NEW h \in Handlers, Stores(h)
      PROVE  \/ c \in DOMAIN issued /\ issued'[c] = issued[c]
             \/ /\ pc[h] = "store" /\ ~NeedsConsent(h)
                /\ issued'[c].by = h /\ issued'[c].grant = held[h].grant
  <2>1. ASSUME NEW d \in Codes, NEW t \in at[h]..now, InsertCode(h, d, t)
        PROVE  \/ c \in DOMAIN issued /\ issued'[c] = issued[c]
               \/ c = d /\ issued'[c] = [grant |-> held[h].grant, by |-> h] /\ ~NeedsConsent(h)
    BY <2>1 DEF InsertCode, Insert
  <2>2. CASE UNCHANGED issued
    BY <2>2
  <2> QED  BY <1>2, <2>1, <2>2 DEF Stores, InsertConsent, tables
<1>3. ASSUME NEW h \in Handlers, Finish(h) PROVE UNCHANGED issued
  BY <1>3 DEF Finish, DeleteRow
<1>4. ASSUME CleanupAuthRequests \/ CleanupConsents \/ CleanupCodes PROVE UNCHANGED issued
  BY <1>4 DEF CleanupAuthRequests, CleanupConsents, CleanupCodes
<1> QED  BY <1>1, <1>2, <1>3, <1>4, TablesNext DEF tables

\* A callback goes on to CompleteAuth with the row of its flow.
LEMMA Completing ==
    ASSUME LoginInv, NEW h \in Handlers, Advance(h), pc'[h] = "complete"
    PROVE  /\ pc[h] = "find" /\ h \in Callbacks /\ call[h].state \in DOMAIN authRequests
           /\ held'[h] = authRequests[call[h].state]
<1>1. FindAuthRequest(h)
  BY DEF Advance, CompleteAuth, CompleteAuthFails, FindConsent, FindFails,
     StoreConsent, StoreCode, StoreFails, Finish, FinishWithoutDelete, Goto, LoginInv, TypeOK
<1> QED  BY <1>1 DEF FindAuthRequest, Findable, Goto, LoginInv, TypeOK

\* A callback goes on to store after a sign-in on its flow that the row allows.
SignedIn(b) ==
    LET l == call[b].login
    IN  /\ b \in Callbacks /\ pc[b] = "complete" /\ held'[b] = held[b]
        /\ l \in DOMAIN logins /\ logins[l].nonce = call[b].state /\ logins'[l].spent
        /\ held[b].kind # "setup" /\ IdentityAllowed(held[b], logins[l].subject)

\* A post goes on to store after the user approved the consent it found.
Approved(p) ==
    /\ p \in Posts /\ pc[p] = "find" /\ call[p].csrf /\ call[p].approve
    /\ call[p].consent \in DOMAIN consents /\ held'[p] = consents[call[p].consent]

\* These are the only two ways to store.
LEMMA Storing ==
    ASSUME LoginInv, NEW h \in Handlers, Advance(h), pc'[h] = "store"
    PROVE  SignedIn(h) \/ Approved(h)
<1>1. CompleteAuth(h) \/ FindConsent(h)
  BY DEF Advance, FindAuthRequest, CompleteAuthFails, FindFails,
     StoreConsent, StoreCode, StoreFails, Finish, FinishWithoutDelete, Goto, LoginInv, TypeOK
<1>2. CASE CompleteAuth(h)
  <2>1. h \in Callbacks /\ call[h].login \in DOMAIN logins /\ pc[h] = "complete"
    BY <1>2 DEF CompleteAuth, LoginInv, HandlerShape
  <2>2. logins'[call[h].login].spent
    BY <1>2, <2>1, SpendingAges DEF CompleteAuth, LoginInv
  <2>3. NonceMatches(h, call[h].login) /\ held[h].kind # "setup"
        /\ IdentityAllowed(held[h], logins[call[h].login].subject) /\ held' = held
    BY <1>2 DEF CompleteAuth, Goto, LoginInv, TypeOK
  <2> QED  BY <2>1, <2>2, <2>3 DEF SignedIn, NonceMatches
<1>3. CASE FindConsent(h)
  BY <1>3 DEF FindConsent, Goto, Approved, LoginInv, TypeOK
<1> QED  BY <1>1, <1>2, <1>3

\* A lookup finds its row or answers that it is invalid.
LEMMA Finding ==
    ASSUME LoginInv, NEW h \in Handlers, Advance(h), pc[h] = "find"
    PROVE  \/ pc'[h] = "done" /\ answer'[h] = "invalid"
           \/ h \in Callbacks /\ call[h].state \in DOMAIN authRequests
           \/ h \in Posts /\ call[h].consent \in DOMAIN consents
<1>1. FindAuthRequest(h) \/ FindConsent(h) \/ FindFails(h)
  BY DEF Advance, CompleteAuth, CompleteAuthFails, StoreConsent, StoreCode, StoreFails,
     Finish, FinishWithoutDelete
<1>2. CASE FindAuthRequest(h)
  BY <1>2 DEF FindAuthRequest, Findable, Goto, LoginInv, TypeOK
<1>3. CASE FindConsent(h)
  BY <1>3 DEF FindConsent, Goto, LoginInv, TypeOK
<1>4. CASE FindFails(h)
  BY <1>4 DEF FindFails, Goto, LoginInv, TypeOK
<1> QED  BY <1>1, <1>2, <1>3, <1>4
-----------------------------------------------------------------------------
(***************************************************************************)
(* The parts of the invariant, one after the other.                        *)
(***************************************************************************)
\* Nothing has happened yet.
LEMMA LoginInit == Init => LoginInv
<1> SUFFICES ASSUME Init PROVE LoginInv
  OBVIOUS
<1>1. TypeOK
  BY DEF Init, TypeOK, Empty, IsTable, Idle, RowKinds
<1>2. FlowShape /\ RowsOfFlows /\ HandlerShape
  BY DEF Init, Empty, FlowShape, RowsOfFlows, HandlerShape, Handlers
<1>3. HeldByCallbacks /\ ConsentsEarned /\ HeldByPosts /\ CodesEarned
  BY DEF Init, Empty, HeldByCallbacks, ConsentsEarned, HeldByPosts, CodesEarned, Handlers
<1>4. GoneForGood /\ LateIsInvalid /\ CutoffPast
  BY SecondAssumption DEF Init, GoneForGood, LateIsInvalid, CutoffPast, Idle
<1>5. HandlersRun
  BY DEF Init, HandlersRun
<1> QED  BY <1>1, <1>2, <1>3, <1>4, <1>5 DEF LoginInv

\* FlowShape: a form that was accepted decides the kind of its flow.
LEMMA FlowShapeNext == LoginInv /\ [Next]_vars => FlowShape'
<1> SUFFICES ASSUME LoginInv, [Next]_vars, NEW f \in Flows
             PROVE  /\ flow'[f].step = "idle" => flow'[f].kind = "setup"
                    /\ flow'[f].kind # "setup" =>
                         /\ flow'[f].form \in Forms
                         /\ flow'[f].kind = "static" <=> flow'[f].form.me \in StaticMes
                    /\ flow'[f].step = "discover" =>
                         flow'[f].kind # "setup" /\ flow'[f].form.me \in PageMes
  BY DEF FlowShape
<1>1. CASE flow'[f] = flow[f]
  BY <1>1 DEF LoginInv, FlowShape
<1>2. CASE BeginSetup(f) \/ AdvanceFlow(f)
  <2>1. /\ flow'[f].step \in {"create", "redirected", "rejected"}
        /\ flow'[f].kind = flow[f].kind /\ flow'[f].form = flow[f].form
    BY <1>2, FlowSteps DEF LoginInv
  <2> QED  BY <2>1 DEF LoginInv, FlowShape
<1>3. ASSUME NEW form \in Forms, BeginAuthorize(f, form)
      PROVE  /\ flow'[f].step \in {"create", "discover"}
             /\ flow'[f].step = "discover" => form.me \in PageMes
             /\ flow'[f].kind = IF form.me \in StaticMes THEN "static" ELSE "bound"
             /\ flow'[f].form = form
  BY <1>3 DEF BeginAuthorize, LoginInv, TypeOK
<1>4. CASE FlowLost(f)
  <2>1. flow[f] \in FlowRecords
    BY DEF LoginInv, TypeOK, FlowRecords
  <2>2. /\ flow'[f].step = "lost"
        /\ flow'[f].kind = flow[f].kind /\ flow'[f].form = flow[f].form
    BY <1>4, <2>1 DEF FlowLost, FlowRecords
  <2> QED  BY <2>2 DEF LoginInv, FlowShape
<1> QED  BY <1>1, <1>2, <1>3, <1>4, FlowsNext

\* RowsOfFlows: a row is written from its flow, which has ended.
LEMMA RowsOfFlowsNext == LoginInv /\ [Next]_vars => RowsOfFlows'
<1> SUFFICES ASSUME LoginInv, [Next]_vars, NEW f \in DOMAIN authRequests'
             PROVE  Settled(f)' /\ Matches(authRequests[f], f)'
  BY DEF RowsOfFlows
<1>1. Settles
  BY StepSettles
<1>2. CASE f \in DOMAIN authRequests /\ authRequests'[f] = authRequests[f]
  <2>1. Settled(f) /\ Matches(authRequests[f], f) /\ f \in Flows
    BY <1>2 DEF LoginInv, RowsOfFlows, TypeOK, IsTable
  <2> QED  BY <1>1, <1>2, <2>1 DEF Settles, Settled, Matches
<1>3. CASE /\ f \in Flows /\ (CreateAuthRequest(f) \/ CreateAuthRequestFails(f))
           /\ authRequests'[f] = AuthRow(f)
  <2>1. /\ flow'[f].kind = flow[f].kind /\ flow'[f].form = flow[f].form
        /\ flow'[f].bound = flow[f].bound \/ flow'[f].step = "create"
    BY <1>3, FlowSteps DEF LoginInv, AdvanceFlow
  <2>2. flow'[f].step \in {"redirected", "rejected"}
    BY <1>3 DEF CreateAuthRequest, CreateAuthRequestFails, LoginInv, TypeOK
  <2> QED  BY <1>3, <2>1, <2>2 DEF Settled, Matches, AuthRow
<1> QED  BY <1>2, <1>3, AuthRowsNext

\* HandlerShape: requests arrive at flows that were redirected and consents that were shown.
LEMMA HandlerShapeNext == LoginInv /\ [Next]_vars => HandlerShape'
<1> SUFFICES ASSUME LoginInv, [Next]_vars PROVE HandlerShape'
  OBVIOUS
<1>1. Settles
  BY StepSettles
<1>2. ASSUME NEW b \in Callbacks, pc'[b] # "idle"
      PROVE  /\ call'[b] \in CallbackCalls
             /\ flow'[call'[b].state].step = "redirected"
             /\ call'[b].login \in DOMAIN logins' \cup {NoLogin}
  <2>1. CASE pc[b] # "idle"
    <3>1. /\ call[b] \in CallbackCalls /\ flow[call[b].state].step = "redirected"
          /\ call[b].login \in DOMAIN logins \cup {NoLogin}
      BY <2>1 DEF LoginInv, HandlerShape
    <3>2. call[b].state \in Flows
      BY <3>1 DEF CallbackCalls
    <3> QED  BY <1>1, <2>1, <3>1, <3>2 DEF Settles, Settled, LoginsAge, Handlers
  <2>2. CASE Begins(b)
    <3>1. PICK f \in Flows, l \in Logins \cup {NoLogin} : BeginCallback(b, f, l)
      BY <2>2, NameAssumption DEF Begins
    <3>2. /\ call'[b] = [kind |-> "callback", state |-> f, login |-> l]
          /\ flow[f].step = "redirected" /\ l \in DOMAIN logins \cup {NoLogin}
          /\ UNCHANGED <<flow, logins>>
      BY <3>1 DEF BeginCallback, Begin, LoginInv, TypeOK, Handlers
    <3> QED  BY <3>2 DEF CallbackCalls
  <2>3. CASE HandlerKept(b)
    BY <1>2, <2>1, <2>3 DEF HandlerKept, Waiting
  <2>4. CASE Advance(b)
    BY <2>1, <2>4, AdvanceFrame DEF LoginInv, Waiting, Handlers
  <2> QED  BY <2>2, <2>3, <2>4, HandlersNext DEF Handlers
<1>3. ASSUME NEW p \in Posts, pc'[p] # "idle"
      PROVE  call'[p] \in PostCalls /\ pc'[call'[p].consent] = "done"
  <2>1. CASE pc[p] # "idle"
    <3>1. call[p] \in PostCalls /\ pc[call[p].consent] = "done" /\ call[p].consent \in Callbacks
      BY <2>1 DEF LoginInv, HandlerShape, PostCalls
    <3> QED  BY <1>1, <2>1, <3>1 DEF Settles, Handlers
  <2>2. CASE Begins(p)
    <3>1. PICK b \in Callbacks, csrf \in BOOLEAN, approve \in BOOLEAN : BeginPost(p, b, csrf, approve)
      BY <2>2, NameAssumption DEF Begins
    <3>2. /\ call'[p] = [kind |-> "post", consent |-> b, csrf |-> csrf, approve |-> approve]
          /\ pc[b] = "done"
      BY <3>1 DEF BeginPost, Begin, LoginInv, TypeOK, Handlers
    <3> QED  BY <1>1, <3>2 DEF PostCalls, Settles, Handlers
  <2>3. CASE HandlerKept(p)
    BY <1>3, <2>1, <2>3 DEF HandlerKept, Waiting
  <2>4. CASE Advance(p)
    BY <2>1, <2>4, AdvanceFrame DEF LoginInv, Waiting, Handlers
  <2> QED  BY <2>2, <2>3, <2>4, HandlersNext DEF Handlers
<1>4. ASSUME NEW h \in Handlers
      PROVE  /\ pc'[h] = "complete" => h \in Callbacks
             /\ pc'[h] \in {"idle", "find"} => answer'[h] = "none"
  <2>1. CASE HandlerKept(h)
    BY <2>1 DEF HandlerKept, LoginInv, HandlerShape
  <2>2. CASE Begins(h)
    <3>1. pc[h] = "idle" /\ pc'[h] = "find" /\ answer'[h] = answer[h]
      BY <2>2 DEF Begins, BeginCallback, BeginPost, Begin, LoginInv, TypeOK
    <3> QED  BY <3>1 DEF LoginInv, HandlerShape
  <2>3. CASE Advance(h)
    BY <2>3, AdvanceFrame, Completing DEF LoginInv
  <2> QED  BY <2>1, <2>2, <2>3, HandlersNext
<1> QED  BY <1>2, <1>3, <1>4 DEF HandlerShape

\* HeldByCallbacks: what a callback read is what its flow decided, and storing is earned.
LEMMA HeldByCallbacksNext == LoginInv /\ [Next]_vars => HeldByCallbacks'
<1> SUFFICES ASSUME LoginInv, [Next]_vars, NEW b \in Callbacks
             PROVE  /\ pc'[b] \in {"complete", "store"} => Matches(held[b], call[b].state)'
                    /\ pc'[b] = "store" => From(b, held[b].grant)'
  BY DEF HeldByCallbacks
<1>1. Settles
  BY StepSettles
<1>2. ASSUME pc[b] # "idle"
      PROVE  /\ call'[b] = call[b] /\ call[b].state \in Flows /\ Settled(call[b].state)
             /\ flow'[call[b].state] = flow[call[b].state]
             /\ b \in Handlers
  BY <1>1, <1>2 DEF LoginInv, HandlerShape, CallbackCalls, Settles, Settled, Handlers
<1>3. CASE HandlerKept(b)
  <2>1. ASSUME pc'[b] \in {"complete", "store"} PROVE Matches(held[b], call[b].state)'
    <3>1. pc[b] \in {"complete", "store"} /\ held'[b] = held[b]
      BY <1>3, <2>1 DEF HandlerKept
    <3>2. Matches(held[b], call[b].state)
      BY <3>1 DEF LoginInv, HeldByCallbacks
    <3> QED  BY <1>2, <3>1, <3>2 DEF Matches
  <2>2. ASSUME pc'[b] = "store" PROVE From(b, held[b].grant)'
    <3>1. pc[b] = "store" /\ held'[b] = held[b]
      BY <1>3, <2>2 DEF HandlerKept
    <3>2. From(b, held[b].grant)
      BY <3>1 DEF LoginInv, HeldByCallbacks
    <3> QED  BY <1>1, <3>1, <3>2, FromStays DEF From
  <2> QED  BY <2>1, <2>2
<1>4. CASE Begins(b)
  BY <1>4 DEF Begins, BeginCallback, BeginPost, Begin, LoginInv, TypeOK, Handlers
<1>5. CASE Advance(b)
  <2>1. b \in Handlers /\ pc[b] # "idle"
    BY <1>5, AdvanceFrame DEF LoginInv, Waiting, Handlers
  <2>2. ASSUME pc'[b] = "complete" PROVE Matches(held[b], call[b].state)'
    <3>1. /\ call[b].state \in DOMAIN authRequests
          /\ held'[b] = authRequests[call[b].state]
      BY <1>5, <2>1, <2>2, Completing
    <3>2. Matches(authRequests[call[b].state], call[b].state)
      BY <3>1 DEF LoginInv, RowsOfFlows
    <3> QED  BY <1>2, <2>1, <3>1, <3>2 DEF Matches
  <2>3. ASSUME pc'[b] = "store"
        PROVE  Matches(held[b], call[b].state)' /\ From(b, held[b].grant)'
    <3>1. SignedIn(b)
      BY <1>5, <2>1, <2>3, Storing, NameAssumption DEF Approved
    <3>2. Matches(held[b], call[b].state)
      BY <3>1 DEF SignedIn, LoginInv, HeldByCallbacks
    <3>3. Matches(held[b], call[b].state)'
      BY <1>2, <2>1, <3>1, <3>2 DEF Matches, SignedIn
    <3>4. PICK l : l = call[b].login
      OBVIOUS
    <3>5. PICK f : f = call[b].state
      OBVIOUS
    <3>6. /\ l \in DOMAIN logins' /\ logins'[l].nonce = f /\ logins'[l].spent
          /\ logins'[l].subject = logins[l].subject
          /\ flow[f].kind # "setup" /\ IdentityAllowed(held[b], logins[l].subject)
          /\ held[b].kind = flow[f].kind /\ held[b].bound = flow[f].bound
          /\ held[b].grant = GrantOf(flow[f].form)
      BY <1>1, <3>1, <3>2, <3>4, <3>5 DEF SignedIn, Settles, LoginsAge, Matches
    <3>7. flow[f].kind = "static" <=> flow[f].form.me \in StaticMes
      BY <1>2, <2>1, <3>5, <3>6 DEF LoginInv, FlowShape
    <3>8. IF flow[f].form.me \in StaticMes
          THEN logins[l].subject \in AllowedSubjects[flow[f].form.me]
          ELSE logins[l].subject = flow[f].bound
      BY <3>6, <3>7 DEF IdentityAllowed, StaticIdentityAllowed, GrantOf
    <3>9. Earned(b)'
      BY <1>2, <2>1, <3>4, <3>5, <3>6, <3>8 DEF Earned
    <3>10. held'[b].grant = GrantOf(flow'[call'[b].state].form)
      BY <1>2, <2>1, <3>1, <3>5, <3>6 DEF SignedIn
    <3> QED  BY <2>3, <3>3, <3>9, <3>10 DEF From, GrantOf
  <2> QED  BY <2>2, <2>3
<1> QED  BY <1>3, <1>4, <1>5, HandlersNext DEF Handlers

\* ConsentsEarned: a consent record is stored by a callback that earned it.
LEMMA ConsentsEarnedNext == LoginInv /\ [Next]_vars => ConsentsEarned'
<1> SUFFICES ASSUME LoginInv, [Next]_vars, NEW b \in DOMAIN consents'
             PROVE  From(b, consents[b].grant)'
  BY DEF ConsentsEarned
<1>1. PICK g : b \in Callbacks /\ From(b, g) /\ consents'[b].grant = g
  <2>1. CASE b \in DOMAIN consents /\ consents'[b] = consents[b]
    BY <2>1 DEF LoginInv, ConsentsEarned, TypeOK, IsTable
  <2>2. CASE b \in Callbacks /\ pc[b] = "store" /\ consents'[b].grant = held[b].grant
    BY <2>2 DEF LoginInv, HeldByCallbacks
  <2> QED  BY <2>1, <2>2, ConsentsNext
<1>2. From(b, g)'
  BY <1>1, StepSettles, FromStays
<1> QED  BY <1>1, <1>2 DEF From

\* HeldByPosts: an approving post holds the consent of a callback that earned it.
LEMMA HeldByPostsNext == LoginInv /\ [Next]_vars => HeldByPosts'
<1> SUFFICES ASSUME LoginInv, [Next]_vars, NEW p \in Posts, pc'[p] = "store"
             PROVE  From(call[p].consent, held[p].grant)' /\ call'[p].csrf /\ call'[p].approve
  BY DEF HeldByPosts
<1>1. /\ pc[p] # "idle" /\ call[p].csrf /\ call[p].approve
      /\ \E b \in Callbacks, g \in {held'[p].grant} : b = call[p].consent /\ From(b, g)
  <2>1. CASE HandlerKept(p)
    <3>1. pc[p] = "store" /\ held'[p] = held[p]
      BY <2>1 DEF HandlerKept
    <3>2. call[p].consent \in Callbacks
      BY <3>1 DEF LoginInv, HandlerShape, PostCalls
    <3> QED  BY <3>1, <3>2 DEF LoginInv, HeldByPosts
  <2>2. CASE Begins(p)
    BY <2>2 DEF Begins, BeginCallback, BeginPost, Begin, LoginInv, TypeOK, Handlers
  <2>3. CASE Advance(p)
    <3>1. Approved(p)
      BY <2>3, Storing, NameAssumption DEF SignedIn, Handlers
    <3> QED  BY <3>1 DEF Approved, LoginInv, ConsentsEarned, TypeOK, IsTable
  <2> QED  BY <2>1, <2>2, <2>3, HandlersNext DEF Handlers
<1>2. PICK b \in Callbacks, g \in {held'[p].grant} : b = call[p].consent /\ From(b, g)
  BY <1>1
<1>3. From(b, g)' /\ call'[p] = call[p]
  BY <1>1, <1>2, StepSettles, FromStays DEF Settles, Handlers
<1> QED  BY <1>1, <1>2, <1>3 DEF From

\* CodesEarned: a code is issued by a handler whose callback earned it.
LEMMA CodesEarnedNext == LoginInv /\ [Next]_vars => CodesEarned'
<1> SUFFICES ASSUME LoginInv, [Next]_vars, NEW c \in DOMAIN issued'
             PROVE  /\ pc'[issued'[c].by] # "idle"
                    /\ From(CallbackOf(c), issued[c].grant)'
                    /\ ConsentRequired => /\ issued'[c].by \in Posts
                                          /\ call'[issued'[c].by].approve
                                          /\ call'[issued'[c].by].csrf
  BY DEF CodesEarned
<1>1. PICK h \in Handlers, b \in Callbacks, g \in {issued'[c].grant} :
        /\ h = issued'[c].by
        /\ pc[h] # "idle" /\ b = (IF h \in Callbacks THEN h ELSE call[h].consent)
        /\ From(b, g)
        /\ ConsentRequired => h \in Posts /\ call[h].approve /\ call[h].csrf
  <2>1. CASE c \in DOMAIN issued /\ issued'[c] = issued[c]
    <3>1. issued[c].by \in Handlers /\ pc[issued[c].by] # "idle"
      BY <2>1 DEF LoginInv, CodesEarned, TypeOK, IsTable
    <3>2. CallbackOf(c) \in Callbacks
      BY <3>1 DEF CallbackOf, LoginInv, HandlerShape, PostCalls, Handlers
    <3> QED  BY <2>1, <3>1, <3>2 DEF LoginInv, CodesEarned, CallbackOf
  <2>2. ASSUME NEW h \in Handlers, pc[h] = "store", ~NeedsConsent(h),
               issued'[c].by = h, issued'[c].grant = held[h].grant
        PROVE  \E b \in Callbacks, g \in {issued'[c].grant} :
                 /\ h = issued'[c].by
                 /\ pc[h] # "idle" /\ b = (IF h \in Callbacks THEN h ELSE call[h].consent)
                 /\ From(b, g)
                 /\ ConsentRequired => h \in Posts /\ call[h].approve /\ call[h].csrf
    <3>1. CASE h \in Callbacks
      BY <2>2, <3>1 DEF LoginInv, HeldByCallbacks, NeedsConsent
    <3>2. CASE h \in Posts
      <4>1. call[h].consent \in Callbacks /\ h \notin Callbacks
        BY <2>2, <3>2, NameAssumption DEF LoginInv, HandlerShape, PostCalls
      <4> QED  BY <2>2, <3>2, <4>1 DEF LoginInv, HeldByPosts
    <3> QED  BY <3>1, <3>2 DEF Handlers
  <2> QED  BY <2>1, <2>2, IssuedNext
<1>2. From(b, g)' /\ call'[h] = call[h] /\ pc'[h] # "idle"
  BY <1>1, StepSettles, FromStays DEF Settles
<1>3. CallbackOf(c)' = b
  BY <1>1, <1>2 DEF CallbackOf
<1> QED  BY <1>1, <1>2, <1>3 DEF From, Earned

\* GoneForGood: only a handler that ends deletes, and nothing inserts the row again.
LEMMA GoneForGoodNext == LoginInv /\ [Next]_vars => GoneForGood'
<1> SUFFICES ASSUME LoginInv, [Next]_vars PROVE GoneForGood'
  OBVIOUS
<1>1. Settles /\ GoneForGood
  BY StepSettles DEF LoginInv
<1>2. \A k \in gone' : k \in gone \/ \E h \in Handlers : Finish(h) /\ k = KeyOf(h)
  BY TablesNext DEF CreateAuthRequest, CreateAuthRequestFails, Finish, CleanupAuthRequests,
     CleanupConsents, CleanupCodes
<1>3. ASSUME NEW f \in gone' \cap Flows
      PROVE  flow'[f].step = "redirected" /\ f \notin DOMAIN authRequests'
  <2>1. CASE f \in gone
    <3>1. flow[f].step = "redirected" /\ f \notin DOMAIN authRequests
      BY <1>1, <2>1, <1>3 DEF GoneForGood
    <3>2. flow'[f] = flow[f]
      BY <1>1, <1>3, <3>1 DEF Settles, Settled
    <3>3. ~CreateAuthRequest(f) /\ ~CreateAuthRequestFails(f)
      BY <3>1 DEF CreateAuthRequest, CreateAuthRequestFails
    <3> QED  BY <3>1, <3>2, <3>3, AuthRowsNext
  <2>2. ASSUME NEW h \in Handlers, Finish(h), f = KeyOf(h)
        PROVE  flow'[f].step = "redirected" /\ f \notin DOMAIN authRequests'
    <3>1. pc[h] = "delete"
      BY <2>2 DEF Finish
    <3>2. h \in Callbacks
      BY <1>3, <2>2, <3>1, NameAssumption DEF KeyOf, Handlers, LoginInv, HandlerShape, PostCalls
    <3>3. f = call[h].state /\ flow[f].step = "redirected" /\ flow' = flow
      BY <2>2, <3>1, <3>2 DEF KeyOf, LoginInv, HandlerShape, Finish
    <3>4. f \notin DOMAIN authRequests'
      BY <2>2, <3>2 DEF Finish, DeleteRow, Delete
    <3> QED  BY <3>3, <3>4
  <2> QED  BY <1>2, <1>3, <2>1, <2>2
<1>4. ASSUME NEW b \in gone' \cap Callbacks
      PROVE  pc'[b] = "done" /\ b \notin DOMAIN consents'
  <2>1. CASE b \in gone
    <3>1. pc[b] = "done" /\ b \notin DOMAIN consents
      BY <1>1, <2>1, <1>4 DEF GoneForGood
    <3> QED  BY <1>1, <1>4, <3>1, ConsentsNext DEF Settles, Handlers
  <2>2. ASSUME NEW h \in Handlers, Finish(h), b = KeyOf(h)
        PROVE  pc'[b] = "done" /\ b \notin DOMAIN consents'
    <3>1. pc[h] = "delete"
      BY <2>2 DEF Finish
    <3>2. h \in Posts /\ h \notin Callbacks
      BY <1>4, <2>2, <3>1, NameAssumption DEF KeyOf, Handlers, LoginInv, HandlerShape, CallbackCalls
    <3>3. b = call[h].consent /\ pc[b] = "done"
      BY <2>2, <3>1, <3>2 DEF KeyOf, LoginInv, HandlerShape
    <3>4. b \notin DOMAIN consents'
      BY <2>2, <3>2 DEF Finish, DeleteRow, Delete
    <3> QED  BY <1>1, <1>4, <3>3, <3>4 DEF Settles, Handlers
  <2> QED  BY <1>2, <1>4, <2>1, <2>2
<1>5. gone \subseteq gone'
  BY TablesNext DEF CreateAuthRequest, CreateAuthRequestFails, Finish, CleanupAuthRequests,
     CleanupConsents, CleanupCodes
<1>6. ASSUME NEW h \in Handlers, late'[h] PROVE pc'[h] # "idle" /\ KeyOf(h)' \in gone'
  <2>1. CASE late[h] /\ pc[h] # "idle"
    <3>1. KeyOf(h) \in gone /\ pc'[h] # "idle" /\ call'[h] = call[h]
      BY <1>1, <2>1 DEF GoneForGood, Settles
    <3> QED  BY <1>5, <3>1 DEF KeyOf
  <2>2. CASE HandlerKept(h)
    BY <1>1, <1>6, <2>1, <2>2 DEF HandlerKept, GoneForGood
  <2>3. CASE Advance(h)
    BY <1>1, <1>6, <2>1, <2>3, AdvanceFrame DEF GoneForGood, LoginInv
  <2>4. CASE Begins(h)
    <3>1. \E key : /\ late'[h] = (key \in gone) /\ pc'[h] = "find" /\ KeyOf(h)' = key
      BY <2>4, NameAssumption
         DEF Begins, BeginCallback, BeginPost, Begin, KeyOf, LoginInv, TypeOK, Handlers
    <3> QED  BY <1>5, <1>6, <3>1
  <2> QED  BY <2>2, <2>3, <2>4, HandlersNext
<1> QED  BY <1>3, <1>4, <1>6 DEF GoneForGood

\* LateIsInvalid: the lookup of a late handler finds nothing, since its row is gone.
LEMMA LateIsInvalidNext == LoginInv /\ [Next]_vars => LateIsInvalid'
<1> SUFFICES ASSUME LoginInv, [Next]_vars, NEW h \in Handlers, late'[h]
             PROVE  pc'[h] \in {"find", "done", "lost"} /\ answer'[h] \in {"none", "invalid"}
  BY DEF LateIsInvalid
<1>1. CASE HandlerKept(h)
  BY <1>1 DEF HandlerKept, LoginInv, LateIsInvalid
<1>2. CASE Begins(h)
  <2>1. pc[h] = "idle" /\ pc'[h] = "find" /\ answer'[h] = answer[h]
    BY <1>2 DEF Begins, BeginCallback, BeginPost, Begin, LoginInv, TypeOK
  <2> QED  BY <2>1 DEF LoginInv, HandlerShape
<1>3. CASE Advance(h)
  <2>1. late[h] /\ pc[h] \in Waiting
    BY <1>3, AdvanceFrame DEF LoginInv
  <2>2. pc[h] = "find" /\ KeyOf(h) \in gone
    BY <2>1 DEF LoginInv, LateIsInvalid, GoneForGood, Waiting
  <2>3. ~(h \in Callbacks /\ call[h].state \in DOMAIN authRequests)
    BY <2>2 DEF KeyOf, LoginInv, GoneForGood, TypeOK, IsTable
  <2>4. ~(h \in Posts /\ call[h].consent \in DOMAIN consents)
    BY <2>2, NameAssumption DEF KeyOf, LoginInv, GoneForGood, TypeOK, IsTable
  <2> QED  BY <1>3, <2>2, <2>3, <2>4, Finding
<1> QED  BY <1>1, <1>2, <1>3, HandlersNext

\* CutoffPast: cleanup deletes by a cutoff that was read from the clock.
LEMMA CutoffPastNext == LoginInv /\ [Next]_vars => CutoffPast'
<1> SUFFICES ASSUME LoginInv, [Next]_vars PROVE CutoffPast'
  OBVIOUS
<1> USE DEF vars, tables, handlers, process
<1>1. now \in Nat /\ now' \in Nat /\ cleaner.cutoff \in Nat /\ CutoffPast
  BY TypeNext DEF LoginInv, TypeOK
<1>2. now <= now'
  <2>1. CASE Tick
    BY <1>1, <2>1 DEF Tick
  <2>2. CASE ~Tick
    <3>1. UNCHANGED now
      BY <2>2, AdvanceFrame DEF LoginInv, Next, EditPage, BeginSetup, BeginAuthorize, AdvanceFlow,
         Discover, Reject, CreateAuthRequest, CreateAuthRequestFails, ProviderLogin, BeginCallback,
         BeginPost, Begin, CleanupBegin, Clean, CleanupAuthRequests, CleanupConsents, CleanupCodes,
         CleanupFails, Crash, Listen
    <3> QED  BY <1>1, <3>1
  <2> QED  BY <2>1, <2>2
<1>3. cleaner'.cutoff \in {cleaner.cutoff, 0, Unix(now)}
  <2>1. CASE CleanupAuthRequests \/ CleanupConsents
    BY <2>1 DEF CleanupAuthRequests, CleanupConsents, LoginInv, TypeOK
  <2>2. CASE CleanupBegin \/ CleanupCodes \/ CleanupFails \/ Crash
    <3>1. \/ cleaner' = [step |-> "auth", cutoff |-> Unix(now)]
          \/ cleaner' = [step |-> "idle", cutoff |-> 0]
      BY <2>2 DEF CleanupBegin, CleanupCodes, CleanupFails, Crash, Idle
    <3> QED  BY <3>1
  <2>3. CASE UNCHANGED cleaner
    BY <2>3
  <2> QED
    BY <2>1, <2>2, <2>3, AdvanceFrame DEF LoginInv, Next, Tick, EditPage, BeginSetup, BeginAuthorize,
       AdvanceFlow, Discover, Reject, CreateAuthRequest, CreateAuthRequestFails, ProviderLogin,
       BeginCallback, BeginPost, Begin, Clean, Listen
<1>4. Unix(now) * Second <= now /\ Unix(now) * Second \in Nat /\ cleaner.cutoff * Second \in Nat
  BY <1>1, UnixBounds, SecondAssumption
<1>5. cleaner'.cutoff * Second <= now
  <2>1. CASE cleaner'.cutoff = cleaner.cutoff
    BY <1>1, <2>1 DEF CutoffPast
  <2>2. CASE cleaner'.cutoff = 0
    BY <1>1, <2>2, SecondAssumption
  <2>3. CASE cleaner'.cutoff = Unix(now)
    BY <1>4, <2>3
  <2> QED  BY <1>3, <2>1, <2>2, <2>3
<1>6. cleaner'.cutoff * Second \in Nat
  BY TypeNext, SecondAssumption DEF LoginInv, TypeOK
<1> QED  BY <1>1, <1>2, <1>5, <1>6 DEF CutoffPast

\* HandlersRun: only a crash takes the server down, and it ends every handler.
LEMMA HandlersRunNext == LoginInv /\ [Next]_vars => HandlersRun'
<1> SUFFICES ASSUME LoginInv, [Next]_vars, NEW h \in Handlers
             PROVE  (pc'[h] \in Waiting => up') /\ at'[h] <= now'
  BY DEF HandlersRun
<1> USE DEF vars, tables, handlers, process
<1>1. /\ TypeOK /\ now \in Nat /\ now' \in Nat
      /\ pc \in [Handlers -> {"idle", "done", "lost"} \cup Waiting] /\ at \in [Handlers -> Nat]
      /\ \A g \in Handlers : (pc[g] \in Waiting => up) /\ at[g] <= now
  BY TypeNext DEF LoginInv, TypeOK, HandlersRun
<1>2. ASSUME NEW g \in Handlers, Advance(g) PROVE (pc'[h] \in Waiting => up') /\ at'[h] <= now'
  <2>1. now' = now /\ up' = up /\ up /\ (h # g => pc'[h] = pc[h])
    BY <1>1, <1>2, AdvanceFrame
  <2>2. \E step, a : Goto(g, step, a)
    BY <1>2 DEF Advance, FindAuthRequest, CompleteAuth, CompleteAuthFails, FindConsent, FindFails,
       StoreConsent, StoreCode, StoreFails, Finish, FinishWithoutDelete
  <2>3. at'[h] \in {at[h], now, 0}
    BY <1>1, <2>2 DEF Goto
  <2> QED  BY <1>1, <2>1, <2>3
<1>3. ASSUME NEW g \in Handlers, NEW c, NEW key, Begin(g, c, key)
      PROVE  (pc'[h] \in Waiting => up') /\ at'[h] <= now'
  <2>1. now' = now /\ up' = up /\ up
    BY <1>3 DEF Begin
  <2>2. at'[h] \in {at[h], now, 0}
    BY <1>1, <1>3 DEF Begin
  <2> QED  BY <1>1, <2>1, <2>2
<1>4. CASE Crash
  <2>1. now' = now /\ at'[h] = 0 /\ pc'[h] \notin Waiting
    BY <1>1, <1>4 DEF Crash, Waiting
  <2> QED  BY <1>1, <2>1
<1>5. ASSUME UNCHANGED <<pc, at>>, up' = up \/ up', now' = now \/ now' = now + 1
      PROVE  (pc'[h] \in Waiting => up') /\ at'[h] <= now'
  BY <1>1, <1>5
<1>6. CASE Tick \/ Listen
  BY <1>5, <1>6 DEF Tick, Listen
<1>7. ASSUME NEW f \in Flows, \/ BeginSetup(f) \/ AdvanceFlow(f)
                              \/ \E form \in Forms : BeginAuthorize(f, form)
                              \/ \E l \in Logins, s \in Subjects : ProviderLogin(f, l, s)
      PROVE  (pc'[h] \in Waiting => up') /\ at'[h] <= now'
  <2>1. UNCHANGED <<pc, at, up, now>>
    BY <1>7 DEF BeginSetup, AdvanceFlow, BeginAuthorize, Discover, Reject, CreateAuthRequest,
       CreateAuthRequestFails, ProviderLogin
  <2> QED  BY <1>5, <2>1
<1>8. CASE \/ CleanupBegin \/ Clean
           \/ \E p \in PageMes, s \in Subjects \cup {NoSubject} : EditPage(p, s)
           \/ UNCHANGED vars
  <2>1. UNCHANGED <<pc, at, up, now>>
    BY <1>8 DEF CleanupBegin, Clean, CleanupAuthRequests, CleanupConsents, CleanupCodes,
       CleanupFails, EditPage
  <2> QED  BY <1>5, <2>1
<1>9. ASSUME NEW b \in Callbacks, NEW f \in Flows, NEW l \in Logins \cup {NoLogin}, BeginCallback(b, f, l)
      PROVE  (pc'[h] \in Waiting => up') /\ at'[h] <= now'
  BY <1>3, <1>9 DEF BeginCallback, Handlers
<1>10. ASSUME NEW p \in Posts, NEW b \in Callbacks, NEW csrf \in BOOLEAN, NEW approve \in BOOLEAN,
              BeginPost(p, b, csrf, approve)
       PROVE  (pc'[h] \in Waiting => up') /\ at'[h] <= now'
  BY <1>3, <1>10 DEF BeginPost, Handlers
<1> QED
  BY <1>2, <1>4, <1>6, <1>7, <1>8, <1>9, <1>10 DEF Next

\* The parts together are inductive.
LEMMA LoginInvNext == LoginInv /\ [Next]_vars => LoginInv'
BY TypeNext, FlowShapeNext, RowsOfFlowsNext, HandlerShapeNext, HeldByCallbacksNext,
   ConsentsEarnedNext, HeldByPostsNext, CodesEarnedNext, GoneForGoodNext, LateIsInvalidNext,
   CutoffPastNext, HandlersRunNext DEF LoginInv

\* They hold in every state.
LEMMA LoginInvariant == Spec => []LoginInv
BY LoginInit, LoginInvNext, PTL DEF Spec

\* Of the codes' rows they say only the type: whoever else writes codes keeps them.
LEMMA CodesChange ==
    ASSUME LoginInv, IsTable(codes', Codes, CodeRows),
           UNCHANGED <<now, pages, edits, logins, authRequests, consents, issued, flow, gone,
                       handlers, process>>
    PROVE  LoginInv'
<1> USE DEF handlers, process
<1>1. TypeOK'
  BY DEF LoginInv, TypeOK
<1>2. \A b, grant : From(b, grant)' <=> From(b, grant)
  BY DEF From, Earned
<1>3. FlowShape' /\ RowsOfFlows' /\ HandlerShape'
  BY DEF LoginInv, FlowShape, RowsOfFlows, Settled, Matches, HandlerShape
<1>4. HeldByCallbacks' /\ ConsentsEarned' /\ HeldByPosts' /\ CodesEarned'
  BY <1>2 DEF LoginInv, HeldByCallbacks, Matches, ConsentsEarned, HeldByPosts, CodesEarned, CallbackOf
<1>5. GoneForGood' /\ LateIsInvalid' /\ CutoffPast' /\ HandlersRun'
  BY DEF LoginInv, GoneForGood, KeyOf, LateIsInvalid, CutoffPast, HandlersRun
<1> QED  BY <1>1, <1>3, <1>4, <1>5 DEF LoginInv

\* What the invariant says of codes.
LEMMA CodesAnswer ==
    /\ LoginInv => CodeForAuthenticatedUser
    /\ LoginInv => CodeForAskedGrant
<1>1. LoginInv => CodeForAuthenticatedUser
  BY DEF LoginInv, CodesEarned, From, Earned, CodeForAuthenticatedUser, FlowOf
<1>2. LoginInv => CodeForAskedGrant
  BY DEF LoginInv, CodesEarned, From, Earned, CodeForAskedGrant, FlowOf
<1> QED  BY <1>1, <1>2
-----------------------------------------------------------------------------
(***************************************************************************)
(* The theorems.                                                           *)
(***************************************************************************)
\* The variables have their types: requests find what they refer to, and no row is
\* written that is not one of its table's.
THEOREM LoginTypes == Spec => []TypeOK
BY LoginInvariant, PTL DEF LoginInv

\* A code is issued only for a user who signed in on its own flow, with a subject that
\* the profile allowed when the flow began.
THEOREM CodesForAuthenticatedUsers == Spec => []CodeForAuthenticatedUser
BY CodesAnswer, LoginInvariant, PTL

\* A code carries what its own authorization request asked for, and the user approved it
\* when consent is required.
THEOREM CodesForAskedGrants == Spec => []CodeForAskedGrant
BY CodesAnswer, LoginInvariant, PTL

\* A handler that begins after its request or consent was deleted gets nowhere.
THEOREM LateHandlersGetNothing == Spec => []LateIsInvalid
BY LoginInvariant, PTL DEF LoginInv

\* Only Finish deletes a single row, and the cutoff of the statements that delete expired
\* ones is past.
LEMMA PendingRowsNext ==
    LoginInv /\ [Next]_vars =>
        /\ \A f \in DOMAIN authRequests \ DOMAIN authRequests' :
             EndingFor(f) \/ now >= authRequests[f].expiresAt * Second
        /\ \A b \in DOMAIN consents \ DOMAIN consents' :
             EndingFor(b) \/ now >= consents[b].expiresAt * Second
<1> SUFFICES ASSUME LoginInv, [Next]_vars
             PROVE  /\ \A f \in DOMAIN authRequests \ DOMAIN authRequests' :
                         EndingFor(f) \/ now >= authRequests[f].expiresAt * Second
                    /\ \A b \in DOMAIN consents \ DOMAIN consents' :
                         EndingFor(b) \/ now >= consents[b].expiresAt * Second
  OBVIOUS
<1> USE DEF tables
<1>1. ASSUME NEW h \in Handlers, Finish(h)
      PROVE  /\ EndingFor(KeyOf(h))
             /\ DOMAIN authRequests \ DOMAIN authRequests' \subseteq {KeyOf(h)}
             /\ DOMAIN consents \ DOMAIN consents' \subseteq {KeyOf(h)}
  BY <1>1 DEF Finish, DeleteRow, Delete, Goto, EndingFor, LoginInv, TypeOK
<1>2. ASSUME NEW row, row.expiresAt \in Nat, PastCutoff(cleaner.cutoff, row)
      PROVE  now >= row.expiresAt * Second
  <2>1. row.expiresAt <= cleaner.cutoff /\ cleaner.cutoff \in Nat /\ now \in Nat
    BY <1>2 DEF PastCutoff, LoginInv, TypeOK
  <2>2. /\ row.expiresAt * Second <= cleaner.cutoff * Second
        /\ row.expiresAt * Second \in Nat /\ cleaner.cutoff * Second \in Nat
    BY <1>2, <2>1, SecondAssumption
  <2> QED  BY <2>1, <2>2 DEF LoginInv, CutoffPast
<1>3. /\ \A f \in DOMAIN authRequests : authRequests[f].expiresAt \in Nat
      /\ \A b \in DOMAIN consents : consents[b].expiresAt \in Nat
  BY DEF LoginInv, TypeOK, IsTable, AuthRows, ConsentRows
<1>4. ASSUME NEW f \in DOMAIN authRequests \ DOMAIN authRequests', ~EndingFor(f)
      PROVE  now >= authRequests[f].expiresAt * Second
  <2>1. CleanupAuthRequests
    BY <1>1, <1>4, TablesNext DEF CreateAuthRequest, CreateAuthRequestFails, Insert, Stores,
       InsertConsent, InsertCode, CleanupConsents, CleanupCodes
  <2>2. f \in Expired(authRequests)
    BY <1>4, <2>1 DEF CleanupAuthRequests, Delete
  <2> QED  BY <1>2, <1>3, <1>4, <2>2 DEF Expired
<1>5. ASSUME NEW b \in DOMAIN consents \ DOMAIN consents', ~EndingFor(b)
      PROVE  now >= consents[b].expiresAt * Second
  <2>1. CleanupConsents
    BY <1>1, <1>5, TablesNext DEF CreateAuthRequest, CreateAuthRequestFails, Insert, Stores,
       InsertConsent, InsertCode, CleanupAuthRequests, CleanupCodes
  <2>2. b \in Expired(consents)
    BY <1>5, <2>1 DEF CleanupConsents, Delete
  <2> QED  BY <1>2, <1>3, <1>5, <2>2 DEF Expired
<1> QED  BY <1>4, <1>5

\* A pending row goes only with the handler that ends for it, or when it has expired.
THEOREM PendingRowsAreKept == Spec => PendingRowsStay
BY PendingRowsNext, LoginInvariant, PTL DEF Spec, PendingRowsStay
-----------------------------------------------------------------------------
(***************************************************************************)
(* One sign-in, one callback.  What two codes have in common can only be   *)
(* the consent that two posts approved.                                    *)
(***************************************************************************)
\* A callback that learned who signed in has spent the sign-in, and no other callback
\* learned it from that one.
SignInsUsed ==
    /\ \A b \in Callbacks : subject[b] # NoSubject =>
         /\ pc[b] \notin {"idle", "find", "complete"}
         /\ call[b].login \in DOMAIN logins /\ logins[call[b].login].spent
    /\ \A a, b \in Callbacks :
         subject[a] # NoSubject /\ subject[b] # NoSubject /\ call[a].login = call[b].login => a = b

\* What is stored goes back to a callback that learned who signed in.
SignInsTraced ==
    /\ \A b \in Callbacks : pc[b] = "store" => subject[b] # NoSubject
    /\ \A b \in DOMAIN consents : subject[b] # NoSubject
    /\ \A p \in Posts : pc[p] = "store" => subject[call[p].consent] # NoSubject
    /\ \A c \in DOMAIN issued : subject[CallbackOf(c)] # NoSubject

\* A handler that issued a code is past its only insert.
IssuedOnce ==
    /\ \A c, d \in DOMAIN issued : issued[c].by = issued[d].by => c = d
    /\ \A c \in DOMAIN issued : pc[issued[c].by] \in {"delete", "done", "lost"}

\* Only where consent is required is there a page that a post answers.
ConsentsAsked ==
    /\ \A b \in Callbacks : answer[b] = "consent" => ConsentRequired
    /\ \A p \in Posts : pc[p] # "idle" => ConsentRequired

ApartInv == SignInsUsed /\ SignInsTraced /\ IssuedOnce /\ ConsentsAsked

\* They hold initially.
LEMMA ApartInit == Init => ApartInv
<1> SUFFICES ASSUME Init PROVE ApartInv
  OBVIOUS
<1>1. SignInsUsed
  BY DEF Init, SignInsUsed
<1>2. SignInsTraced /\ IssuedOnce
  BY DEF Init, Empty, SignInsTraced, IssuedOnce, Handlers
<1>3. ConsentsAsked
  BY DEF Init, ConsentsAsked, Handlers
<1> QED  BY <1>1, <1>2, <1>3 DEF ApartInv

\* What an identity that a step sets comes from.
Exchanges(b) ==
    /\ pc[b] = "complete" /\ pc'[b] \in {"store", "delete"}
    /\ call[b].login \in DOMAIN logins
    /\ ~logins[call[b].login].spent /\ logins'[call[b].login].spent

\* Only CompleteAuth changes what a callback knows, and of one callback.
LEMMA SubjectsNext ==
    ASSUME LoginInv, [Next]_vars, subject' # subject
    PROVE  \E b \in Callbacks :
              Exchanges(b) /\ \A a \in Callbacks \ {b} : subject'[a] = subject[a]
<1> USE DEF vars, tables, handlers, process
<1>1. PICK b \in Handlers : CompleteAuth(b)
  BY DEF Next, Tick, EditPage, BeginSetup, BeginAuthorize, AdvanceFlow, Discover, Reject,
     CreateAuthRequest, CreateAuthRequestFails, ProviderLogin, BeginCallback, BeginPost, Begin,
     Advance, FindAuthRequest, CompleteAuthFails, FindConsent, FindFails, StoreConsent, StoreCode,
     StoreFails, Finish, FinishWithoutDelete, CleanupBegin, Clean, CleanupAuthRequests,
     CleanupConsents, CleanupCodes, CleanupFails, Crash, Listen
<1>2. b \in Callbacks /\ call[b].login \in DOMAIN logins /\ pc[b] = "complete"
  BY <1>1 DEF CompleteAuth, LoginInv, HandlerShape
<1>3. logins' = [logins EXCEPT ![call[b].login].spent = TRUE] /\ ~logins[call[b].login].spent
  BY <1>1 DEF CompleteAuth
<1>4. logins'[call[b].login].spent
  BY <1>2, <1>3, SpendingAges DEF LoginInv
<1>5. pc'[b] \in {"store", "delete"}
  BY <1>1 DEF CompleteAuth, Goto, LoginInv, TypeOK
<1>6. \A a \in Callbacks \ {b} : subject'[a] = subject[a]
  BY <1>1 DEF CompleteAuth, LoginInv, TypeOK
<1> QED  BY <1>2, <1>3, <1>4, <1>5, <1>6 DEF Exchanges

\* A callback goes on to store something only when it knows who signed in.
LEMMA StoringKnows ==
    ASSUME LoginInv, NEW b \in Callbacks, Advance(b), pc'[b] = "store"
    PROVE  subject'[b] # NoSubject
<1>1. b \in Handlers /\ b \notin Posts
  BY NameAssumption DEF Handlers
<1>2. CompleteAuth(b)
  BY <1>1 DEF Advance, FindAuthRequest, CompleteAuthFails, FindConsent, FindFails,
     StoreConsent, StoreCode, StoreFails, Finish, FinishWithoutDelete, Goto, LoginInv, TypeOK
<1>3. call[b].login \in DOMAIN logins
  BY <1>2 DEF CompleteAuth, LoginInv, HandlerShape
<1>4. logins[call[b].login].subject \in Subjects
  BY <1>3 DEF LoginInv, TypeOK, IsTable
<1>5. subject'[b] = logins[call[b].login].subject
  BY <1>2 DEF CompleteAuth, Goto, LoginInv, TypeOK
<1> QED  BY <1>4, <1>5, NameAssumption

\* Codes are issued one at a time, by a handler that is through with storing.
LEMMA IssuedSteps ==
    ASSUME LoginInv, [Next]_vars, issued' # issued
    PROVE  \E h \in Handlers, c \in Codes :
              /\ pc[h] = "store" /\ pc'[h] = "delete"
              /\ c \notin DOMAIN issued
              /\ issued' = Insert(issued, c, [grant |-> held[h].grant, by |-> h])
<1> USE DEF vars, tables, handlers, process
<1>1. PICK h \in Handlers : (\E c \in Codes, t \in at[h]..now : StoreCode(h, c, t)) \/ StoreFails(h)
  BY DEF Next, Tick, EditPage, BeginSetup, BeginAuthorize, AdvanceFlow, Discover, Reject,
     CreateAuthRequest, CreateAuthRequestFails, ProviderLogin, BeginCallback, BeginPost, Begin,
     Advance, FindAuthRequest, CompleteAuth, CompleteAuthFails, FindConsent, FindFails,
     StoreConsent, InsertConsent, Finish, DeleteRow, FinishWithoutDelete, CleanupBegin, Clean,
     CleanupAuthRequests, CleanupConsents, CleanupCodes, CleanupFails, Crash, Listen
<1>2. pc[h] = "store" /\ pc'[h] = "delete"
  BY <1>1 DEF StoreCode, StoreFails, Goto, LoginInv, TypeOK
<1>3. \E c \in Codes, t \in at[h]..now : InsertCode(h, c, t)
  BY <1>1 DEF StoreCode, StoreFails, InsertConsent
<1> QED  BY <1>2, <1>3 DEF InsertCode

\* What a callback knows stays, and it never looks anything up again.
LEMMA KnownStays ==
    ASSUME LoginInv, SignInsUsed, [Next]_vars, NEW b \in Callbacks, subject[b] # NoSubject
    PROVE  /\ subject'[b] = subject[b] /\ UNCHANGED call[b]
           /\ pc'[b] \notin {"idle", "find", "complete"}
<1>1. pc[b] \notin {"idle", "find", "complete"} /\ b \in Handlers
  BY DEF SignInsUsed, Handlers
<1>2. subject'[b] = subject[b]
  BY <1>1, SubjectsNext DEF Exchanges
<1>3. call'[b] = call[b]
  BY <1>1, StepSettles DEF Settles
<1>4. pc'[b] \notin {"idle", "find", "complete"}
  <2>1. CASE HandlerKept(b)
    BY <1>1, <2>1 DEF HandlerKept
  <2>2. CASE Begins(b)
    BY <1>1, <2>2 DEF Begins, BeginCallback, BeginPost, Begin
  <2>3. CASE Advance(b)
    BY <1>1, <2>3, AdvanceFrame, Completing DEF LoginInv
  <2> QED  BY <1>1, <2>1, <2>2, <2>3, HandlersNext
<1> QED  BY <1>2, <1>3, <1>4

\* SignInsUsed: the exchange finds the provider's code unspent, so nobody used it before.
LEMMA SignInsUsedNext == LoginInv /\ SignInsUsed /\ [Next]_vars => SignInsUsed'
<1> SUFFICES ASSUME LoginInv, SignInsUsed, [Next]_vars PROVE SignInsUsed'
  OBVIOUS
<1>1. ASSUME NEW b \in Callbacks, subject'[b] # NoSubject
      PROVE  \/ subject[b] # NoSubject
             \/ Exchanges(b) /\ \A a \in Callbacks \ {b} : subject'[a] = subject[a]
  BY <1>1, SubjectsNext
<1>2. ASSUME NEW b \in Callbacks, Exchanges(b)
      PROVE  /\ UNCHANGED call[b] /\ pc'[b] \notin {"idle", "find", "complete"}
             /\ call[b].login \in DOMAIN logins' /\ logins'[call[b].login].spent
  BY <1>2, StepSettles DEF Exchanges, Settles, Handlers, LoginsAge
<1>3. ASSUME NEW b \in Callbacks, subject[b] # NoSubject
      PROVE  /\ UNCHANGED call[b] /\ pc'[b] \notin {"idle", "find", "complete"}
             /\ call[b].login \in DOMAIN logins' /\ logins'[call[b].login].spent
             /\ logins[call[b].login].spent
  BY <1>3, KnownStays, StepSettles DEF SignInsUsed, Settles, LoginsAge
<1>4. ASSUME NEW b \in Callbacks, subject'[b] # NoSubject
      PROVE  /\ pc'[b] \notin {"idle", "find", "complete"}
             /\ call'[b].login \in DOMAIN logins' /\ logins'[call'[b].login].spent
             /\ call'[b] = call[b]
  BY <1>1, <1>2, <1>3, <1>4
<1>5. ASSUME NEW a \in Callbacks, NEW b \in Callbacks,
             subject'[a] # NoSubject, subject'[b] # NoSubject, call'[a].login = call'[b].login
      PROVE  a = b
  <2>1. call[a].login = call[b].login
    BY <1>4, <1>5
  <2>2. CASE subject[a] # NoSubject /\ subject[b] # NoSubject
    BY <2>1, <2>2 DEF SignInsUsed
  <2>3. ASSUME Exchanges(a) PROVE subject[b] = NoSubject \/ a = b
    BY <1>3, <2>1, <2>3 DEF Exchanges
  <2>4. ASSUME Exchanges(b) PROVE subject[a] = NoSubject \/ a = b
    BY <1>3, <2>1, <2>4 DEF Exchanges
  <2> QED  BY <1>1, <1>5, <2>2, <2>3, <2>4
<1> QED  BY <1>4, <1>5 DEF SignInsUsed

\* SignInsTraced: only CompleteAuth lets a callback store something, and a post stores only
\* what the record of such a callback says.
LEMMA SignInsTracedNext == LoginInv /\ ApartInv /\ [Next]_vars => SignInsTraced'
<1> SUFFICES ASSUME LoginInv, ApartInv, [Next]_vars PROVE SignInsTraced'
  OBVIOUS
<1>1. ASSUME NEW b \in Callbacks, subject[b] # NoSubject PROVE subject'[b] # NoSubject
  BY <1>1, KnownStays DEF ApartInv
<1>2. ASSUME NEW b \in Callbacks, pc'[b] = "store" PROVE subject'[b] # NoSubject
  <2>1. CASE HandlerKept(b)
    BY <1>1, <1>2, <2>1 DEF HandlerKept, ApartInv, SignInsTraced
  <2>2. CASE Begins(b)
    BY <1>2, <2>2 DEF Begins, BeginCallback, BeginPost, Begin, LoginInv, TypeOK, Handlers
  <2>3. CASE Advance(b)
    BY <1>2, <2>3, StoringKnows
  <2> QED  BY <2>1, <2>2, <2>3, HandlersNext DEF Handlers
<1>3. ASSUME NEW b \in DOMAIN consents' PROVE subject'[b] # NoSubject
  <2>1. b \in Callbacks /\ subject[b] # NoSubject
    BY <1>3, ConsentsNext DEF ApartInv, SignInsTraced, LoginInv, TypeOK, IsTable
  <2> QED  BY <1>1, <2>1
<1>4. ASSUME NEW p \in Posts, pc'[p] = "store" PROVE subject'[call'[p].consent] # NoSubject
  <2>1. pc[p] # "idle" /\ subject[call[p].consent] # NoSubject
    <3>1. CASE HandlerKept(p)
      BY <1>4, <3>1 DEF HandlerKept, ApartInv, SignInsTraced
    <3>2. CASE Begins(p)
      BY <1>4, <3>2 DEF Begins, BeginCallback, BeginPost, Begin, LoginInv, TypeOK, Handlers
    <3>3. CASE Advance(p)
      <4>1. Approved(p)
        BY <1>4, <3>3, Storing, NameAssumption DEF SignedIn, Handlers
      <4> QED  BY <4>1 DEF Approved, ApartInv, SignInsTraced
    <3> QED  BY <3>1, <3>2, <3>3, HandlersNext DEF Handlers
  <2>2. call[p].consent \in Callbacks /\ call'[p] = call[p]
    BY <2>1, StepSettles DEF LoginInv, HandlerShape, PostCalls, Settles, Handlers
  <2> QED  BY <1>1, <2>1, <2>2
<1>5. ASSUME NEW c \in DOMAIN issued' PROVE subject'[CallbackOf(c)'] # NoSubject
  <2>1. PICK h \in Handlers, b \in Callbacks :
          /\ h = issued'[c].by /\ pc[h] # "idle" /\ subject[b] # NoSubject
          /\ b = IF h \in Callbacks THEN h ELSE call[h].consent
    <3>1. CASE c \in DOMAIN issued /\ issued'[c] = issued[c]
      <4>1. issued[c].by \in Handlers /\ pc[issued[c].by] # "idle"
        BY <3>1 DEF LoginInv, CodesEarned, TypeOK, IsTable
      <4>2. CallbackOf(c) \in Callbacks
        BY <4>1 DEF CallbackOf, LoginInv, HandlerShape, PostCalls, Handlers
      <4> QED  BY <3>1, <4>1, <4>2 DEF ApartInv, SignInsTraced, CallbackOf
    <3>2. ASSUME NEW h \in Handlers, pc[h] = "store", issued'[c].by = h
          PROVE  \E b \in Callbacks :
                    /\ subject[b] # NoSubject
                    /\ b = IF h \in Callbacks THEN h ELSE call[h].consent
      <4>1. CASE h \in Callbacks
        BY <3>2, <4>1 DEF ApartInv, SignInsTraced
      <4>2. CASE h \in Posts
        <5>1. call[h].consent \in Callbacks /\ h \notin Callbacks
          BY <3>2, <4>2, NameAssumption DEF LoginInv, HandlerShape, PostCalls
        <5> QED  BY <3>2, <4>2, <5>1 DEF ApartInv, SignInsTraced
      <4> QED  BY <4>1, <4>2 DEF Handlers
    <3> QED  BY <3>1, <3>2, IssuedNext
  <2>2. CallbackOf(c)' = b
    BY <2>1, StepSettles DEF CallbackOf, Settles
  <2> QED  BY <1>1, <2>1, <2>2
<1> QED  BY <1>2, <1>3, <1>4, <1>5 DEF SignInsTraced

\* IssuedOnce: a handler that has issued a code never gets to its insert again.
LEMMA IssuedOnceNext == LoginInv /\ IssuedOnce /\ [Next]_vars => IssuedOnce'
<1> SUFFICES ASSUME LoginInv, IssuedOnce, [Next]_vars PROVE IssuedOnce'
  OBVIOUS
<1>1. ASSUME NEW h \in Handlers, pc[h] \in {"delete", "done", "lost"}
      PROVE  pc'[h] \in {"delete", "done", "lost"}
  <2>1. CASE HandlerKept(h)
    BY <1>1, <2>1 DEF HandlerKept
  <2>2. CASE Begins(h)
    BY <1>1, <2>2 DEF Begins, BeginCallback, BeginPost, Begin
  <2>3. CASE Advance(h)
    <3>1. pc[h] = "delete"
      BY <1>1, <2>3, AdvanceFrame DEF LoginInv, Waiting
    <3>2. ~SignedIn(h) /\ ~Approved(h)
      BY <3>1 DEF SignedIn, Approved
    <3> QED  BY <2>3, <3>1, <3>2, AdvanceFrame, Completing, Storing DEF LoginInv
  <2> QED  BY <2>1, <2>2, <2>3, HandlersNext
<1>2. \A c \in DOMAIN issued : issued[c].by \in Handlers
  BY DEF LoginInv, TypeOK, IsTable
<1>3. CASE issued' = issued
  BY <1>1, <1>2, <1>3 DEF IssuedOnce
<1>4. ASSUME NEW h \in Handlers, NEW c \in Codes, pc[h] = "store", pc'[h] = "delete",
             c \notin DOMAIN issued,
             issued' = Insert(issued, c, [grant |-> held[h].grant, by |-> h])
      PROVE  IssuedOnce'
  <2>1. /\ DOMAIN issued' = DOMAIN issued \cup {c} /\ issued'[c].by = h
        /\ \A d \in DOMAIN issued : issued'[d] = issued[d]
    BY <1>4 DEF Insert
  <2>2. \A d \in DOMAIN issued : issued[d].by # h
    BY <1>4 DEF IssuedOnce
  <2> QED  BY <1>1, <1>2, <1>4, <2>1, <2>2 DEF IssuedOnce
<1> QED  BY <1>3, <1>4, IssuedSteps

\* ConsentsAsked: a callback shows the page once it has stored the record, and a post
\* begins where a callback has shown it.
LEMMA ConsentsAskedNext == LoginInv /\ ConsentsAsked /\ [Next]_vars => ConsentsAsked'
<1> SUFFICES ASSUME LoginInv, ConsentsAsked, [Next]_vars PROVE ConsentsAsked'
  OBVIOUS
<1>1. ASSUME NEW b \in Callbacks, answer'[b] = "consent" PROVE ConsentRequired
  <2>1. CASE HandlerKept(b)
    BY <1>1, <2>1 DEF HandlerKept, ConsentsAsked
  <2>2. CASE Begins(b)
    BY <1>1, <2>2 DEF Begins, BeginCallback, BeginPost, Begin, ConsentsAsked
  <2>3. CASE Advance(b)
    <3>1. StoreConsent(b) \/ answer[b] = "consent"
      BY <1>1, <2>3 DEF Advance, FindAuthRequest, CompleteAuth, CompleteAuthFails, FindConsent,
         FindFails, StoreCode, StoreFails, Finish, FinishWithoutDelete, Goto, Handlers, LoginInv,
         TypeOK
    <3> QED  BY <3>1 DEF StoreConsent, InsertConsent, NeedsConsent, ConsentsAsked
  <2> QED  BY <2>1, <2>2, <2>3, HandlersNext DEF Handlers
<1>2. ASSUME NEW p \in Posts, pc'[p] # "idle" PROVE ConsentRequired
  <2>1. CASE pc[p] # "idle"
    BY <2>1 DEF ConsentsAsked
  <2>2. CASE HandlerKept(p)
    BY <1>2, <2>2 DEF HandlerKept, ConsentsAsked, Waiting
  <2>3. CASE Begins(p)
    BY <2>3, NameAssumption DEF Begins, BeginCallback, BeginPost, ConsentsAsked, Handlers
  <2>4. CASE Advance(p)
    BY <2>1, <2>4, AdvanceFrame DEF LoginInv, Waiting, Handlers
  <2> QED  BY <2>1, <2>2, <2>3, <2>4, HandlersNext DEF Handlers
<1> QED  BY <1>1, <1>2 DEF ConsentsAsked

\* The parts are inductive relative to the main invariant.
LEMMA ApartNext == LoginInv /\ ApartInv /\ [Next]_vars => ApartInv'
BY SignInsUsedNext, SignInsTracedNext, IssuedOnceNext, ConsentsAskedNext DEF ApartInv

\* They keep codes apart.
LEMMA ApartCodes == LoginInv /\ ApartInv => CodesApart
<1> SUFFICES ASSUME LoginInv, ApartInv, NEW c \in DOMAIN issued, NEW d \in DOMAIN issued, c # d
             PROVE  LET g == issued[c].by
                        h == issued[d].by
                    IN  /\ g # h
                        /\ call[CallbackOf(c)].login = call[CallbackOf(d)].login =>
                             {g, h} \subseteq Posts /\ call[g].consent = call[h].consent
  BY DEF CodesApart
<1> DEFINE g == issued[c].by
           h == issued[d].by
<1>1. g # h
  BY DEF ApartInv, IssuedOnce
<1>2. g \in Handlers /\ h \in Handlers /\ pc[g] # "idle" /\ pc[h] # "idle"
  BY DEF LoginInv, CodesEarned, TypeOK, IsTable
<1>3. CallbackOf(c) \in Callbacks /\ CallbackOf(d) \in Callbacks
  BY <1>2 DEF CallbackOf, LoginInv, HandlerShape, PostCalls, Handlers
<1>4. ASSUME call[CallbackOf(c)].login = call[CallbackOf(d)].login
      PROVE  {g, h} \subseteq Posts /\ call[g].consent = call[h].consent
  <2>1. CallbackOf(c) = CallbackOf(d)
    BY <1>3, <1>4 DEF ApartInv, SignInsUsed, SignInsTraced
  <2>2. g \in Posts \/ h \in Posts
    BY <1>1, <1>2, <2>1 DEF CallbackOf, Handlers
  <2>3. ConsentRequired
    BY <1>2, <2>2 DEF ApartInv, ConsentsAsked
  <2>4. g \in Posts /\ h \in Posts
    BY <2>3 DEF LoginInv, CodesEarned
  <2> QED  BY <2>1, <2>4, NameAssumption DEF CallbackOf
<1> QED  BY <1>1, <1>4

\* A sign-in leads to codes through one callback only, and a handler issues one at most.
THEOREM CodesComeApart == Spec => []CodesApart
<1>1. Spec => []ApartInv
  BY ApartInit, ApartNext, LoginInvariant, PTL DEF Spec
<1> QED  BY <1>1, ApartCodes, LoginInvariant, PTL
=============================================================================
