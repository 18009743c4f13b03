-------------------------- MODULE RedemptionProofs --------------------------
(***************************************************************************)
(* More theorems about TokenEndpoint, from the invariants of               *)
(* TokenEndpointProofs: it implements CodeGrant, and what it says about    *)
(* time holds although times are truncated, clock readings are stale and   *)
(* cleanup works with a cutoff of its own.                                 *)
(***************************************************************************)
EXTENDS TokenEndpointProofs

(***************************************************************************)
(* The refinement.  What a step does to the abstract state depends on four *)
(* things only: which codes are issued, which have a row, who redeemed     *)
(* what, and which tokens were minted.                                     *)
(***************************************************************************)

\* Without codes and requests the abstract state is the initial one.
LEMMA GrantInit == Init => Grant!Init
BY DEF Init, Grant!Init, Stage, Spenders, TokensOf, Redeemed, Empty

\* The redeemers and the tokens of a code do not change in a step that redeems and
\* mints nothing: a token's request has redeemed, and its form is kept.
LEMMA AbstractKept ==
    ASSUME OnceInv, MintInv, UNCHANGED <<rec, minted>>,
           \A r \in Requests : Redeemed(r) => call'[r] = call[r],
           NEW c
    PROVE  Spenders(c)' = Spenders(c) /\ TokensOf(c)' = TokensOf(c)
<1>1. Spenders(c)' = Spenders(c)
  BY DEF Spenders, Redeemed
<1>2. \A t \in DOMAIN minted : call'[minted[t]] = call[minted[t]]
  BY DEF MintInv, MintedPassed, OnceInv, TypeOK, IsTable
<1>3. TokensOf(c)' = TokensOf(c)
  BY <1>2 DEF TokensOf
<1> QED  BY <1>1, <1>3

\* A step that issues, redeems and mints nothing is, to CodeGrant, the lapse of the codes
\* whose row it deletes and that nobody redeemed; often there is none.
LEMMA LapseStep ==
    ASSUME OnceInv, MintInv, UNCHANGED <<rec, minted, issued>>,
           \A r \in Requests : Redeemed(r) => call'[r] = call[r],
           DOMAIN codes' \subseteq DOMAIN codes
    PROVE  Grant!Next
<1> DEFINE S == {c \in DOMAIN codes \ DOMAIN codes' : Spenders(c) = {}}
<1>1. S \subseteq Codes /\ S \subseteq DOMAIN issued
  BY DEF OnceInv, TypeOK, IsTable, CodesAreIssued
<1>2. \A c \in Codes : Spenders(c)' = Spenders(c) /\ TokensOf(c)' = TokensOf(c)
  BY AbstractKept
<1>3. \A c \in S : Stage(c) = "open"
  BY <1>1 DEF Stage
<1>4. ASSUME NEW c \in Codes PROVE Stage(c)' = IF c \in S THEN "lapsed" ELSE Stage(c)
  <2>1. CASE c \notin DOMAIN issued
    BY <2>1, <1>1 DEF Stage
  <2>2. CASE c \in DOMAIN issued /\ Spenders(c) # {}
    BY <2>2, <1>2 DEF Stage
  <2>3. CASE c \in DOMAIN issued /\ Spenders(c) = {}
    BY <2>3, <1>2 DEF Stage
  <2> QED  BY <2>1, <2>2, <2>3
<1>5. Grant!Lapse(S)
  BY <1>1, <1>2, <1>3, <1>4 DEF Grant!Lapse
<1> QED  BY <1>1, <1>5 DEF Grant!Next

\* Inserting a code opens it: nobody can have redeemed a code that was not issued.
LEMMA IssueStep ==
    ASSUME OnceInv, MintInv, NEW c \in Codes, NEW g \in Grants, NEW t \in 0..now,
           IssueCode(c, g, t)
    PROVE  Grant!Next
<1> USE DEF vars, tables, local, process
<1>1. /\ c \notin DOMAIN issued /\ c \notin DOMAIN codes
      /\ DOMAIN issued' = DOMAIN issued \cup {c}
      /\ DOMAIN codes' = DOMAIN codes \cup {c}
      /\ UNCHANGED <<rec, minted, call>>
  BY DEF IssueCode, Insert, OnceInv, CodesAreIssued
<1>2. \A d \in Codes : Spenders(d)' = Spenders(d) /\ TokensOf(d)' = TokensOf(d)
  BY <1>1, AbstractKept
<1>3. Spenders(c) = {}
  BY <1>1 DEF Spenders, OnceInv, SpentForGood
<1>4. Stage(c) = "none" /\ Stage(c)' = "open"
  BY <1>1, <1>2, <1>3 DEF Stage
<1>5. \A d \in Codes \ {c} : Stage(d)' = Stage(d)
  BY <1>1, <1>2 DEF Stage
<1>6. Grant!Issue(c)
  BY <1>2, <1>4, <1>5 DEF Grant!Issue
<1> QED  BY <1>6 DEF Grant!Next

\* The consuming transaction spends the code: its row was unused, so by SpentForGood
\* nobody had, and the request itself had spent no other.
LEMMA SpendStep ==
    ASSUME OnceInv, MintInv, NEW r \in Requests, Consume(r), NEW c, c = call[r].code
    PROVE  Grant!Next
<1> USE DEF vars, tables, local, process
<1>1. /\ c \in DOMAIN codes /\ ~codes[c].used /\ c \in DOMAIN issued /\ c \in Codes
      /\ codes[c] \in CodeRows /\ ~Redeemed(r)
  BY DEF Consume, Consumable, OnceInv, CodesAreIssued, CallShape, TypeOK, IsTable
<1>2. /\ DOMAIN codes' = DOMAIN codes
      /\ UNCHANGED <<issued, minted, call>>
  BY DEF Consume
<1>3. Redeemed(r)' /\ \A q \in Requests \ {r} : Redeemed(q)' <=> Redeemed(q)
  BY <1>1, GrantAssumption DEF Consume, Redeemed, CodeRows, OnceInv, TypeOK
<1>4. Spenders(c) = {} /\ Spenders(c)' = {r}
  <2>1. \A q \in Requests : Redeemed(q) => call[q].code # c
    BY <1>1 DEF OnceInv, SpentForGood
  <2> QED  BY <2>1, <1>2, <1>3 DEF Spenders
<1>5. \A d \in Codes \ {c} : Spenders(d)' = Spenders(d)
  BY <1>1, <1>2, <1>3 DEF Spenders
<1>6. \A d \in Codes : TokensOf(d)' = TokensOf(d) /\ r \notin Spenders(d)
  BY <1>1, <1>2 DEF TokensOf, Spenders
<1>7. Stage(c) = "open" /\ Stage(c)' = "spent"
  BY <1>1, <1>2, <1>4 DEF Stage
<1>8. \A d \in Codes \ {c} : Stage(d)' = Stage(d)
  BY <1>2, <1>5 DEF Stage
<1>9. Grant!Spend(c, r)
  <2>1. [d \in Codes |-> Stage(d)]' = [[d \in Codes |-> Stage(d)] EXCEPT ![c] = "spent"]
    BY <1>7, <1>8
  <2>2. [d \in Codes |-> Spenders(d)]' = [[d \in Codes |-> Spenders(d)] EXCEPT ![c] = {r}]
    BY <1>4, <1>5
  <2>3. [d \in Codes |-> TokensOf(d)]' = [d \in Codes |-> TokensOf(d)]
    BY <1>6
  <2>4. \A d \in Codes : r \notin [e \in Codes |-> Spenders(e)][d]
    BY <1>6
  <2> QED  BY <1>1, <1>7, <2>1, <2>2, <2>3, <2>4 DEF Grant!Spend
<1> QED  BY <1>1, <1>9 DEF Grant!Next

\* Inserting a token gives it for the code its request spent.  That code has no token yet:
\* it would be from the same request, which has not inserted before.
LEMMA GiveStep ==
    ASSUME OnceInv, MintInv, NEW r \in Requests, pc[r] = "mint", NEW t \in Tokens,
           InsertToken(r, t), UNCHANGED <<call, rec>>
    PROVE  Grant!Next
<1> DEFINE c == call[r].code
<1>1. /\ Redeemed(r) /\ c \in DOMAIN issued /\ c \in Codes
      /\ t \notin DOMAIN minted
      /\ \A u \in DOMAIN minted : minted[u] \in Requests
  BY DEF InsertToken, OnceInv, CallShape, SpentForGood, TypeOK, IsTable
<1>2. /\ UNCHANGED <<codes, issued>>
      /\ DOMAIN minted' = DOMAIN minted \cup {t} /\ minted'[t] = r
      /\ \A u \in DOMAIN minted : minted'[u] = minted[u]
  BY <1>1 DEF InsertToken, Insert
<1>3. \A d \in Codes : Spenders(d)' = Spenders(d)
  BY DEF Spenders, Redeemed
<1>4. \A d \in Codes : Stage(d)' = Stage(d)
  BY <1>2, <1>3 DEF Stage
<1>5. r \in Spenders(c) /\ Stage(c) = "spent"
  BY <1>1 DEF Spenders, Stage
<1>6. TokensOf(c) = {}
  <2>1. ASSUME NEW u \in DOMAIN minted, call[minted[u]].code = c PROVE FALSE
    <3>1. minted[u] \in Requests /\ Redeemed(minted[u])
      BY <1>1 DEF MintInv, MintedPassed
    <3>2. minted[u] = r
      BY <1>1, <2>1, <3>1 DEF OnceInv, CodeRedeemedOnce
    <3> QED  BY <3>2 DEF MintInv, MintedOnce
  <2> QED  BY <2>1 DEF TokensOf
<1>7. TokensOf(c)' = {t}
  BY <1>2, <1>6 DEF TokensOf
<1>8. \A d \in Codes \ {c} : TokensOf(d)' = TokensOf(d)
  BY <1>2 DEF TokensOf
<1>9. \A d \in Codes : t \notin TokensOf(d)
  BY <1>1 DEF TokensOf
<1>10. Grant!GiveToken(c, t)
  BY <1>1, <1>3, <1>4, <1>5, <1>6, <1>7, <1>8, <1>9 DEF Grant!GiveToken
<1> QED  BY <1>1, <1>10 DEF Grant!Next

\* Every step is a step of CodeGrant or leaves its state alone.
LEMMA GrantNext == OnceInv /\ MintInv /\ [Next]_vars => [Grant!Next]_(Grant!vars)
<1> SUFFICES ASSUME OnceInv, MintInv, [Next]_vars PROVE Grant!Next
  OBVIOUS
<1> USE DEF vars, tables, local, process
<1>1. CASE UNCHANGED <<codes, issued, minted, call, rec>>
  BY <1>1, LapseStep
<1>2. ASSUME NEW r \in Requests, Begin(r) PROVE Grant!Next
  <2>1. /\ UNCHANGED <<codes, issued, minted, rec>>
        /\ ~Redeemed(r)
        /\ \A q \in Requests \ {r} : call'[q] = call[q]
    BY <1>2 DEF Begin, BeginRedeem, BeginTokenCall, Step, OnceInv, CallShape, TypeOK
  <2> QED  BY <2>1, LapseStep
<1>3. ASSUME NEW r \in Requests, Advance(r) PROVE Grant!Next
  <2>1. CASE Consume(r)
    BY <2>1, SpendStep
  <2>2. CASE ConsumeFails(r)
    <3>1. DOMAIN codes' = DOMAIN codes
      BY <2>2 DEF ConsumeFails
    <3> QED  BY <2>2, <3>1, LapseStep DEF ConsumeFails
  <2>3. CASE MintFails(r)
    <3>1. CASE UNCHANGED tables
      BY <2>3, <3>1, <1>1 DEF MintFails
    <3>2. CASE \E t \in Tokens : InsertToken(r, t)
      BY <2>3, <3>2, GiveStep DEF MintFails
    <3> QED  BY <2>3, <3>1, <3>2 DEF MintFails
  <2>4. ASSUME NEW t \in Tokens, Mint(r, t) PROVE Grant!Next
    BY <2>4, GiveStep DEF Mint
  <2>5. CASE Refuse(r) \/ Introspect(r) \/ LookupFails(r) \/ Revoke(r) \/ RevokeFails(r)
    BY <2>5, <1>1 DEF Refuse, Introspect, LookupFails, Revoke, RevokeFails
  <2> QED  BY <1>3, <2>1, <2>2, <2>3, <2>4, <2>5 DEF Advance
<1>4. CASE CleanupCodes
  <2>1. DOMAIN codes' \subseteq DOMAIN codes
    BY <1>4 DEF CleanupCodes, Delete
  <2> QED  BY <1>4, <2>1, LapseStep DEF CleanupCodes
<1> QED
  BY <1>1, <1>2, <1>3, <1>4, IssueStep
     DEF Next, Issue, Tick, CleanupBegin, Clean, CleanupTokens, CleanupFails, Crash, Listen

\* The endpoints implement CodeGrant: whatever requests, failures, restarts and cleanups
\* do, a code is opened once, spent by one request or lapsed, and gives one token.
THEOREM EndpointsImplementCodeGrant == Spec => ImplementsCodeGrant
<1>1. OnceInv /\ MintInv /\ [Next]_vars => [Grant!Next]_(Grant!vars)
  BY GrantNext
<1> QED  BY <1>1, GrantInit, MintInvariant, PTL DEF Spec, ImplementsCodeGrant, Grant!Spec
-----------------------------------------------------------------------------
(***************************************************************************)
(* Whole seconds and ticks.                                                *)
(***************************************************************************)

\* A reading lies within the second that it is truncated to.
LEMMA UnixBounds ==
    ASSUME NEW t \in Nat
    PROVE  /\ Unix(t) \in Nat
           /\ Unix(t) * Second <= t
           /\ t < Unix(t) * Second + Second
BY SecondAssumption, UnixNat DEF Unix

\* Later seconds begin at later ticks.
LEMMA SecondsMonotone ==
    ASSUME NEW a \in Nat, NEW b \in Nat, a <= b
    PROVE  a * Second \in Nat /\ b * Second \in Nat /\ a * Second <= b * Second
BY SecondAssumption

(***************************************************************************)
(* What every step does to the clock, to the rows there are and to what    *)
(* requests remember: rows only get used, revoked or deleted, and a        *)
(* request that was answered stays as it is.                               *)
(***************************************************************************)
RowsAge ==
    /\ \A c \in DOMAIN codes' \cap DOMAIN issued :
         /\ c \in DOMAIN codes
         /\ codes'[c].expiresAt = codes[c].expiresAt
         /\ codes[c].used => codes'[c].used
    /\ \A t \in DOMAIN tokens' \cap DOMAIN minted :
         /\ t \in DOMAIN tokens
         /\ tokens'[t].expiresAt = tokens[t].expiresAt
         /\ tokens[t].revoked => tokens'[t].revoked
    /\ \A c \in DOMAIN issued : c \in DOMAIN issued' /\ issued'[c] = issued[c]
    /\ DOMAIN minted \subseteq DOMAIN minted'

RequestsStay ==
    \A r \in Requests :
        /\ pc[r] # "idle" => call'[r] = call[r] /\ known'[r] = known[r]
        /\ pc[r] \in Ended => pc'[r] = pc[r] /\ answer'[r] = answer[r]
        /\ pc'[r] \notin Ended => answer'[r] = answer[r]
        /\ Redeemed(r) => Redeemed(r)'
        /\ pc'[r] = "idle" => pc[r] = "idle" /\ call'[r] = call[r]

Ages == now \in Nat /\ now' \in Nat /\ now <= now' /\ RowsAge /\ RequestsStay

\* A step that changes no table and no request but for the clock, the cleaner and
\* whether the server listens ages everything.
LEMMA IdleAges ==
    ASSUME OnceInv, UNCHANGED <<tables, pc, call, rec, answer, known>>,
           now' \in Nat, now <= now'
    PROVE  Ages
<1> USE DEF tables
<1>1. RowsAge
  BY DEF RowsAge
<1>2. RequestsStay
  BY DEF RequestsStay, Redeemed
<1> QED  BY <1>1, <1>2 DEF Ages, OnceInv, TypeOK

\* Revoking a token only ever sets the flag.
LEMMA RevokedStaysRevoked ==
    ASSUME TypeOK, NEW t
    PROVE  /\ DOMAIN RevokeRow(t) = DOMAIN tokens
           /\ \A u \in DOMAIN tokens :
                /\ RevokeRow(t)[u].expiresAt = tokens[u].expiresAt
                /\ tokens[u].revoked => RevokeRow(t)[u].revoked
<1>1. \A u \in DOMAIN tokens : tokens[u] \in TokenRows
  BY DEF TypeOK, IsTable
<1> QED  BY <1>1 DEF RevokeRow, TokenRows

\* Every step ages the rows and leaves what requests remember.
LEMMA StepAges == OnceInv /\ MintInv /\ [Next]_vars => Ages
<1> SUFFICES ASSUME OnceInv, MintInv, [Next]_vars PROVE Ages
  OBVIOUS
<1> USE DEF vars, tables, local, process
<1>n. now \in Nat
  BY DEF OnceInv, TypeOK
<1>1. CASE UNCHANGED <<now, tables, pc, call, rec, answer, known>>
  BY <1>1, <1>n, IdleAges
<1>2. CASE Tick
  BY <1>2, <1>n, IdleAges DEF Tick
<1>3. ASSUME NEW c \in Codes, NEW g \in Grants, NEW t \in 0..now, IssueCode(c, g, t)
      PROVE  Ages
  <2>1. RowsAge
    BY <1>3 DEF IssueCode, Insert, RowsAge, OnceInv, CodesAreIssued
  <2>2. RequestsStay
    BY <1>3 DEF IssueCode, RequestsStay, Redeemed
  <2> QED  BY <1>3, <1>n, <2>1, <2>2 DEF Ages, IssueCode
<1>4. ASSUME NEW r \in Requests, Begin(r) PROVE Ages
  <2>1. /\ UNCHANGED <<now, tables, rec, answer>>
        /\ pc[r] = "idle" /\ pc'[r] \in Waiting
        /\ \A q \in Requests \ {r} : call'[q] = call[q] /\ pc'[q] = pc[q] /\ known'[q] = known[q]
    BY <1>4 DEF Begin, BeginRedeem, BeginTokenCall, Step, OnceInv, TypeOK, Waiting
  <2>2. RowsAge
    BY <2>1 DEF RowsAge
  <2>3. RequestsStay
    BY <2>1 DEF RequestsStay, Redeemed, Waiting, Ended
  <2> QED  BY <1>n, <2>1, <2>2, <2>3 DEF Ages
<1>5. ASSUME NEW r \in Requests, NEW a, pc[r] \in Waiting, pc'[r] = "done", answer'[r] = a,
             \A q \in Requests \ {r} : pc'[q] = pc[q] /\ answer'[q] = answer[q] /\ rec'[q] = rec[q],
             Redeemed(r) => Redeemed(r)', UNCHANGED <<call, known>>
      PROVE  RequestsStay
  BY <1>5 DEF RequestsStay, Redeemed, Waiting, Ended
<1>6. ASSUME NEW r \in Requests, Consume(r) PROVE Ages
  <2>1. RequestsStay
    <3>1. Redeemed(r)'
      BY <1>6, GrantAssumption DEF Consume, Consumable, Redeemed, OnceInv, TypeOK, IsTable, CodeRows
    <3>2. /\ \A q \in Requests \ {r} : pc'[q] = pc[q] /\ answer'[q] = answer[q] /\ rec'[q] = rec[q]
          /\ pc[r] \in Waiting /\ pc'[r] \in {"mint", "done"}
          /\ pc'[r] = "mint" => answer'[r] = answer[r]
          /\ UNCHANGED <<call, known>>
      BY <1>6 DEF Consume, End, OnceInv, TypeOK, Waiting
    <3> QED  BY <3>1, <3>2 DEF RequestsStay, Redeemed, Waiting, Ended
  <2>2. RowsAge
    <3>1. codes[call[r].code] \in CodeRows
      BY <1>6 DEF Consume, Consumable, OnceInv, TypeOK, IsTable
    <3> QED  BY <1>6, <3>1 DEF Consume, RowsAge, CodeRows
  <2> QED  BY <1>6, <1>n, <2>1, <2>2 DEF Ages, Consume
<1>7. ASSUME NEW r \in Requests, Advance(r), ~Consume(r) PROVE Ages
  <2>1. RequestsStay
    <3>1. /\ pc' = [pc EXCEPT ![r] = "done"] /\ pc[r] \in Waiting
          /\ \A q \in Requests \ {r} : answer'[q] = answer[q]
          /\ UNCHANGED <<call, known, rec>>
      BY <1>7 DEF Advance, Refuse, ConsumeFails, MintFails, Mint, Introspect, LookupFails,
         Revoke, RevokeFails, End, OnceInv, TypeOK, Waiting
    <3> QED  BY <3>1, <1>5 DEF Redeemed, OnceInv, TypeOK
  <2>2. UNCHANGED now
    BY <1>7 DEF Advance, Refuse, ConsumeFails, MintFails, Mint, Introspect, LookupFails,
       Revoke, RevokeFails
  <2>3. ASSUME UNCHANGED tables PROVE RowsAge
    BY <2>3 DEF RowsAge
  <2>4. ASSUME ConsumeFails(r) PROVE RowsAge
    <3>1. \A c \in DOMAIN codes : codes[c] \in CodeRows
      BY DEF OnceInv, TypeOK, IsTable
    <3> QED  BY <2>4, <3>1 DEF ConsumeFails, Consumable, RowsAge, CodeRows
  <2>5. ASSUME NEW t \in Tokens, InsertToken(r, t) PROVE RowsAge
    <3>1. /\ UNCHANGED <<codes, issued>>
          /\ \A u \in DOMAIN minted : u \in DOMAIN tokens' => u \in DOMAIN tokens /\ tokens'[u] = tokens[u]
          /\ DOMAIN minted \subseteq DOMAIN minted'
      BY <2>5 DEF InsertToken, Insert
    <3> QED  BY <3>1 DEF RowsAge
  <2>6. ASSUME Revoke(r) \/ RevokeFails(r) PROVE RowsAge
    <3>1. UNCHANGED <<codes, issued, minted>> /\ tokens' \in {tokens, RevokeRow(call[r].token)}
      BY <2>6 DEF Revoke, RevokeFails
    <3> QED  BY <3>1, RevokedStaysRevoked DEF RowsAge, OnceInv
  <2>7. RowsAge
    BY <1>7, <2>3, <2>4, <2>5, <2>6
       DEF Advance, Refuse, MintFails, Mint, Introspect, LookupFails
  <2> QED  BY <1>n, <2>1, <2>2, <2>7 DEF Ages
<1>8. CASE CleanupCodes \/ CleanupTokens
  <2>1. /\ \A c \in DOMAIN codes' : c \in DOMAIN codes /\ codes'[c] = codes[c]
        /\ \A t \in DOMAIN tokens' : t \in DOMAIN tokens /\ tokens'[t] = tokens[t]
        /\ UNCHANGED <<now, issued, minted, local>>
    BY <1>8 DEF CleanupCodes, CleanupTokens, Delete
  <2>2. RowsAge
    BY <2>1 DEF RowsAge
  <2>3. RequestsStay
    BY <2>1 DEF RequestsStay, Redeemed
  <2> QED  BY <1>n, <2>1, <2>2, <2>3 DEF Ages
<1>9. CASE Crash
  <2>1. RowsAge
    BY <1>9 DEF Crash, RowsAge
  <2>2. RequestsStay
    BY <1>9 DEF Crash, RequestsStay, Redeemed, Waiting, Ended, OnceInv, TypeOK
  <2> QED  BY <1>9, <1>n, <2>1, <2>2 DEF Ages, Crash
<1> QED
  BY <1>1, <1>2, <1>3, <1>4, <1>6, <1>7, <1>8, <1>9
     DEF Next, Issue, CleanupBegin, Clean, CleanupFails, Listen

\* A used, revoked or expired code or token is never usable again.
THEOREM TheDeadStayDead == Spec => DeadStaysDead
<1>1. OnceInv /\ MintInv /\ [Next]_vars =>
        [/\ \A c \in DOMAIN issued : ~CodeUsable(c, now) => ~CodeUsable(c, now)'
         /\ \A t \in DOMAIN minted : ~TokenUsable(t, now) => ~TokenUsable(t, now)']_vars
  <2> SUFFICES ASSUME OnceInv, MintInv, [Next]_vars
               PROVE  /\ \A c \in DOMAIN issued : ~CodeUsable(c, now) => ~CodeUsable(c, now)'
                      /\ \A t \in DOMAIN minted : ~TokenUsable(t, now) => ~TokenUsable(t, now)'
    OBVIOUS
  <2>1. Ages
    BY StepAges
  <2>2. \A c \in DOMAIN issued : CodeUsable(c, now)' => CodeUsable(c, now)
    <3>1. \A c \in DOMAIN codes : codes[c].expiresAt \in Nat
      BY DEF OnceInv, TypeOK, IsTable, CodeRows
    <3> QED  BY <2>1, <3>1, SecondsMonotone DEF Ages, RowsAge, CodeUsable
  <2>3. \A t \in DOMAIN minted : TokenUsable(t, now)' => TokenUsable(t, now)
    <3>1. \A t \in DOMAIN tokens : tokens[t].expiresAt \in Nat
      BY DEF OnceInv, TypeOK, IsTable, TokenRows
    <3> QED  BY <2>1, <3>1, SecondsMonotone DEF Ages, RowsAge, TokenUsable
  <2> QED  BY <2>2, <2>3
<1> QED  BY <1>1, MintInvariant, PTL DEF Spec, DeadStaysDead
-----------------------------------------------------------------------------
(***************************************************************************)
(* The invariant about time.  No reading in use is from the future, a code *)
(* lives as long as its expiry was computed for, and the cutoff of a       *)
(* cleanup is past.                                                        *)
(***************************************************************************)
ReadingsPast ==
    /\ \A r \in Requests : at[r] <= now
    /\ \A c \in DOMAIN issued : issued[c].at <= now
    /\ cleaner.cutoff * Second <= now

CodesLastTTL == \A c \in DOMAIN codes : codes[c].expiresAt = ExpiresAt(issued[c].at, CodeTTL)

TimeInv == ReadingsPast /\ CodesLastTTL

\* Readings, histories and tables are empty or zero at first.
LEMMA TimeInit == Init => TimeInv
BY SecondAssumption DEF Init, TimeInv, ReadingsPast, CodesLastTTL, Empty, Idle

\* Readings are taken from the clock, which only advances; the expiry of a row is set
\* once, from the reading its code was issued at.
LEMMA TimeNext == OnceInv /\ MintInv /\ TimeInv /\ [Next]_vars => TimeInv'
<1> SUFFICES ASSUME OnceInv, MintInv, TimeInv, [Next]_vars PROVE TimeInv'
  OBVIOUS
<1> USE DEF vars, tables, local, process
<1>a. Ages /\ TypeOK'
  BY StepAges, TypeNext DEF OnceInv
<1>1. \A r \in Requests : at'[r] \in {at[r], now, 0}
  <2>1. ASSUME NEW r \in Requests, Begin(r) PROVE \A q \in Requests : at'[q] \in {at[q], now, 0}
    BY <2>1 DEF Begin, BeginRedeem, BeginTokenCall, OnceInv, TypeOK
  <2>2. ASSUME NEW r \in Requests, Advance(r) PROVE \A q \in Requests : at'[q] \in {at[q], now, 0}
    BY <2>2 DEF Advance, Refuse, Consume, ConsumeFails, MintFails, Mint, Introspect, LookupFails,
       Revoke, RevokeFails, End, OnceInv, TypeOK
  <2> QED
    BY <2>1, <2>2 DEF Next, Issue, IssueCode, Tick, CleanupBegin, Clean, CleanupCodes,
       CleanupTokens, CleanupFails, Crash, Listen
<1>2. \A c \in DOMAIN issued' : issued'[c].at <= now'
  <2>1. \A c \in DOMAIN issued' \ DOMAIN issued : issued'[c].at \in 0..now
    <3>1. ASSUME NEW c \in Codes, NEW g \in Grants, NEW t \in 0..now, IssueCode(c, g, t)
          PROVE  \A d \in DOMAIN issued' \ DOMAIN issued : issued'[d].at \in 0..now
      BY <3>1 DEF IssueCode, Insert
    <3>2. ASSUME ~Issue PROVE UNCHANGED issued
      BY <3>2 DEF Next, Tick, Begin, BeginRedeem, BeginTokenCall,
         Advance, Refuse, Consume, ConsumeFails, MintFails, Mint, InsertToken, Introspect, LookupFails,
         Revoke, RevokeFails, CleanupBegin, Clean, CleanupCodes, CleanupTokens, CleanupFails, Crash, Listen
    <3> QED  BY <3>1, <3>2 DEF Issue
  <2>2. \A c \in DOMAIN issued : issued'[c].at <= now /\ issued'[c].at \in Nat
    BY <1>a DEF Ages, RowsAge, TimeInv, ReadingsPast, OnceInv, TypeOK, IsTable
  <2> QED  BY <2>1, <2>2, <1>a DEF Ages
<1>3. cleaner'.cutoff * Second <= now'
  <2>1. cleaner'.cutoff \in {cleaner.cutoff, Unix(now), 0}
    <3>1. cleaner \in [step : {"idle", "codes", "tokens"}, cutoff : Nat]
      BY DEF OnceInv, TypeOK
    <3>2. CASE CleanupBegin \/ CleanupCodes \/ CleanupTokens \/ CleanupFails \/ Crash
      BY <3>1, <3>2 DEF CleanupBegin, CleanupCodes, CleanupTokens, CleanupFails, Crash, Idle
    <3>3. ASSUME ~(CleanupBegin \/ CleanupCodes \/ CleanupTokens \/ CleanupFails \/ Crash)
          PROVE  UNCHANGED cleaner
      BY <3>3 DEF Next, Issue, IssueCode, Tick, Begin, BeginRedeem, BeginTokenCall,
         Advance, Refuse, Consume, ConsumeFails, MintFails, Mint, Introspect, LookupFails,
         Revoke, RevokeFails, Clean, Listen
    <3> QED  BY <3>2, <3>3
  <2>2. /\ cleaner.cutoff * Second <= now /\ cleaner.cutoff * Second \in Nat
        /\ Unix(now) * Second <= now /\ Unix(now) * Second \in Nat
        /\ 0 * Second <= now /\ 0 * Second \in Nat
    <3>1. cleaner.cutoff \in Nat /\ now \in Nat
      BY DEF OnceInv, TypeOK
    <3> QED  BY <3>1, UnixBounds, SecondAssumption DEF TimeInv, ReadingsPast
  <2>3. cleaner'.cutoff * Second <= now /\ cleaner'.cutoff * Second \in Nat
    BY <2>1, <2>2
  <2> QED  BY <2>3, <1>a DEF Ages
<1>4. CodesLastTTL'
  <2>1. \A c \in DOMAIN codes' \ DOMAIN issued :
           codes'[c].expiresAt = ExpiresAt(issued'[c].at, CodeTTL)
    <3>1. \A c \in DOMAIN codes : codes[c] \in CodeRows /\ c \in DOMAIN issued
      BY DEF OnceInv, TypeOK, IsTable, CodesAreIssued
    <3>2. ASSUME NEW c \in Codes, NEW g \in Grants, NEW t \in 0..now, IssueCode(c, g, t),
                 NEW d \in DOMAIN codes' \ DOMAIN issued
          PROVE  codes'[d].expiresAt = ExpiresAt(issued'[d].at, CodeTTL)
      BY <3>1, <3>2 DEF IssueCode, Insert
    <3>3. ASSUME ~Issue PROVE DOMAIN codes' \subseteq DOMAIN codes
      BY <3>3 DEF Next, Tick, Begin, BeginRedeem, BeginTokenCall,
         Advance, Refuse, Consume, ConsumeFails, MintFails, Mint, InsertToken, Introspect, LookupFails,
         Revoke, RevokeFails, CleanupBegin, Clean, CleanupCodes, CleanupTokens, CleanupFails, Crash,
         Listen, Delete
    <3> QED  BY <3>1, <3>2, <3>3 DEF Issue
  <2>2. \A c \in DOMAIN codes' \cap DOMAIN issued :
           codes'[c].expiresAt = ExpiresAt(issued'[c].at, CodeTTL)
    BY <1>a DEF Ages, RowsAge, TimeInv, CodesLastTTL
  <2> QED  BY <2>1, <2>2 DEF CodesLastTTL
<1>5. \A r \in Requests : at'[r] <= now'
  BY <1>1, <1>a DEF Ages, TimeInv, ReadingsPast, OnceInv, TypeOK
<1> QED  BY <1>2, <1>3, <1>4, <1>5 DEF TimeInv, ReadingsPast

\* So it holds in every behaviour, beside the others.
LEMMA TimeInvariant == Spec => [](OnceInv /\ MintInv /\ TimeInv)
<1>1. Init => OnceInv /\ MintInv /\ TimeInv
  BY OnceInit, MintInit, TimeInit
<1>2. OnceInv /\ MintInv /\ TimeInv /\ [Next]_vars => (OnceInv /\ MintInv /\ TimeInv)'
  BY OnceNext, MintNext, TimeNext
<1> QED  BY <1>1, <1>2, PTL DEF Spec

\* The expiry of an issued code lies in the second before CodeTTL is over.
LEMMA CodeExpiry ==
    ASSUME OnceInv, TimeInv, NEW c \in DOMAIN codes
    PROVE  /\ codes[c].expiresAt * Second \in Nat
           /\ issued[c].at + CodeTTL \in Nat
           /\ codes[c].expiresAt * Second <= issued[c].at + CodeTTL
           /\ issued[c].at + CodeTTL < codes[c].expiresAt * Second + Second
<1>1. c \in DOMAIN issued /\ issued[c].at \in Nat /\ codes[c].expiresAt \in Nat
  BY DEF OnceInv, CodesAreIssued, TypeOK, IsTable, CodeRows
<1>2. issued[c].at + CodeTTL \in Nat
  BY <1>1, ConfigAssumption
<1>3. codes[c].expiresAt = Unix(issued[c].at + CodeTTL)
  BY DEF TimeInv, CodesLastTTL, ExpiresAt
<1> QED  BY <1>1, <1>2, <1>3, UnixBounds, SecondAssumption

\* A code is only consumed under a reading within CodeTTL of the one it was issued at.
THEOREM CodesAreRedeemedInTime == Spec => RedeemedInTime
<1>1. OnceInv /\ MintInv /\ TimeInv /\ [Next]_vars =>
        [\A r \in Requests : ~Redeemed(r) /\ Redeemed(r)' =>
           at[r] < issued[call[r].code].at + CodeTTL]_vars
  <2> SUFFICES ASSUME OnceInv, MintInv, TimeInv, [Next]_vars,
                      NEW r \in Requests, ~Redeemed(r), Redeemed(r)'
               PROVE  at[r] < issued[call[r].code].at + CodeTTL
    OBVIOUS
  <2> USE DEF vars, tables, local, process
  <2>1. rec'[r] # rec[r]
    BY DEF Redeemed
  <2>2. Consume(r)
    BY <2>1 DEF Next, Issue, IssueCode, Tick, Begin, BeginRedeem, BeginTokenCall,
       Advance, Refuse, Consume, ConsumeFails, MintFails, Mint, Introspect, LookupFails,
       Revoke, RevokeFails, CleanupBegin, Clean, CleanupCodes, CleanupTokens, CleanupFails, Crash,
       Listen, OnceInv, TypeOK
  <2>3. call[r].code \in DOMAIN codes /\ at[r] < codes[call[r].code].expiresAt * Second
    BY <2>2 DEF Consume, Consumable, Live
  <2>4. at[r] \in Nat
    BY DEF OnceInv, TypeOK
  <2> QED  BY <2>3, <2>4, CodeExpiry
<1> QED  BY <1>1, TimeInvariant, PTL DEF Spec, RedeemedInTime

\* Cleanup deletes only rows that the present clock cannot use: its cutoff is past.
THEOREM CleanupIsSafe == Spec => CleanupSparesLive
<1>1. OnceInv /\ MintInv /\ TimeInv /\ [Next]_vars =>
        [/\ \A c \in DOMAIN codes \ DOMAIN codes' : ~CodeUsable(c, now)
         /\ \A t \in DOMAIN tokens \ DOMAIN tokens' : now >= tokens[t].expiresAt * Second]_vars
  <2> SUFFICES ASSUME OnceInv, MintInv, TimeInv, [Next]_vars
               PROVE  /\ \A c \in DOMAIN codes \ DOMAIN codes' : ~CodeUsable(c, now)
                      /\ \A t \in DOMAIN tokens \ DOMAIN tokens' : now >= tokens[t].expiresAt * Second
    OBVIOUS
  <2> USE DEF vars, tables, local, process
  <2>1. ASSUME NEW e \in Nat, e <= cleaner.cutoff PROVE now >= e * Second
    <3>1. cleaner.cutoff \in Nat /\ now \in Nat
      BY DEF OnceInv, TypeOK
    <3> QED  BY <2>1, <3>1, SecondsMonotone DEF TimeInv, ReadingsPast
  <2>2. ASSUME NEW c \in DOMAIN codes \ DOMAIN codes' PROVE ~CodeUsable(c, now)
    <3>1. CleanupCodes
      BY <2>2 DEF Next, Issue, IssueCode, Insert, Tick, Begin, BeginRedeem, BeginTokenCall,
         Advance, Refuse, Consume, ConsumeFails, MintFails, Mint, InsertToken, Introspect, LookupFails,
         Revoke, RevokeFails, CleanupBegin, Clean, CleanupTokens, CleanupFails, Crash, Listen
    <3>2. codes[c].expiresAt \in Nat /\ DeadCode(cleaner.cutoff, codes[c])
      BY <3>1, <2>2 DEF CleanupCodes, Delete, OnceInv, TypeOK, IsTable, CodeRows
    <3>3. now \in Nat /\ codes[c].expiresAt * Second \in Nat
      BY <3>2, SecondAssumption DEF OnceInv, TypeOK
    <3> QED  BY <3>2, <3>3, <2>1 DEF DeadCode, PastCutoff, CodeUsable
  <2>3. ASSUME NEW t \in DOMAIN tokens \ DOMAIN tokens' PROVE now >= tokens[t].expiresAt * Second
    <3>1. CleanupTokens
      BY <2>3, RevokedStaysRevoked DEF Next, Issue, IssueCode, Insert, Tick, Begin, BeginRedeem,
         BeginTokenCall, Advance, Refuse, Consume, ConsumeFails, MintFails, Mint, InsertToken, Introspect,
         LookupFails, Revoke, RevokeFails, CleanupBegin, Clean, CleanupCodes, CleanupFails, Crash, Listen,
         OnceInv
    <3>2. tokens[t].expiresAt \in Nat /\ PastCutoff(cleaner.cutoff, tokens[t])
      BY <3>1, <2>3 DEF CleanupTokens, Delete, OnceInv, TypeOK, IsTable, TokenRows
    <3> QED  BY <3>2, <2>1 DEF PastCutoff
  <2> QED  BY <2>2, <2>3
<1> QED  BY <1>1, TimeInvariant, PTL DEF Spec, CleanupSparesLive
-----------------------------------------------------------------------------
(***************************************************************************)
(* The invariant about answers.  A code whose row is used or gone has been *)
(* tried by some request or is over, give or take the truncated second; a  *)
(* request that is told so was not the one that tried.  A token that was   *)
(* dead when a lookup began is dead under the reading of that lookup, and  *)
(* stays so, since no token is inserted twice.                             *)
(***************************************************************************)
Tried(q, c) ==
    call[q] \in RedeemCalls /\ call[q].code = c /\ (Redeemed(q) \/ answer[q] = "error")

Accounted ==
    \A c \in DOMAIN issued :
        \/ c \in DOMAIN codes /\ ~codes[c].used
        \/ \E q \in Requests : Tried(q, c)
        \/ now + Second > issued[c].at + CodeTTL

AnsweredOnce ==
    \A r \in Requests :
        /\ answer[r] # "none" => pc[r] = "done"
        /\ answer[r] = "refused" => call[r] \in RedeemCalls

PresentedIssued == \A r \in Requests : call[r] \in RedeemCalls => call[r].code \in DOMAIN issued

LookupsHonest ==
    \A r \in Requests : pc[r] = "lookup" =>
        /\ call[r].token \in DOMAIN minted
        /\ ~known[r] => ~TokenUsable(call[r].token, at[r])

AnswerInv ==
    /\ AnsweredOnce
    /\ PresentedIssued
    /\ Accounted
    /\ LookupsHonest
    /\ RefusedOnlyForCause
    /\ NoActiveAnswerForDeadToken

\* A token call is not a redemption.
LEMMA TwoKindsOfCall == RedeemCalls \cap TokenCalls = {} /\ NoCall \notin RedeemCalls
<1>1. \A f \in RedeemCalls : f.endpoint \in RedeemEndpoints
  BY DEF RedeemCalls
<1>2. \A f \in TokenCalls : f.endpoint \in TokenEndpoints
  BY DEF TokenCalls
<1>3. NoCall.endpoint = "none"
  BY DEF NoCall
<1> QED  BY <1>1, <1>2, <1>3 DEF RedeemEndpoints, TokenEndpoints

\* No request has been answered at first.
LEMMA AnswerInit == Init => AnswerInv
BY TwoKindsOfCall DEF Init, AnswerInv, AnsweredOnce, PresentedIssued, Accounted, LookupsHonest,
   RefusedOnlyForCause, NoActiveAnswerForDeadToken, Empty

\* What a step does to the answers: only Refuse says refused, only Introspect active.
LEMMA AnswersOfSteps ==
    ASSUME OnceInv, [Next]_vars, NEW r \in Requests
    PROVE  \/ answer'[r] = answer[r]
           \/ Refuse(r) /\ answer'[r] = "refused"
           \/ Introspect(r) /\ answer'[r] \in {"active", "inactive"}
           \/ pc'[r] = "done" /\ answer'[r] \notin {"none", "refused", "active"}
<1> USE DEF vars, tables, local, process
<1>1. ASSUME NEW q \in Requests, Advance(q), q # r PROVE answer'[r] = answer[r]
  BY <1>1 DEF Advance, Refuse, Consume, ConsumeFails, MintFails, Mint, Introspect, LookupFails,
     Revoke, RevokeFails, End, OnceInv, TypeOK
<1>2. CASE Advance(r)
  BY <1>2 DEF Advance, Refuse, Consume, ConsumeFails, MintFails, Mint, Introspect, LookupFails,
     Revoke, RevokeFails, End, OnceInv, TypeOK
<1> QED
  BY <1>1, <1>2 DEF Next, Issue, IssueCode, Tick, Begin, BeginRedeem, BeginTokenCall,
     CleanupBegin, Clean, CleanupCodes, CleanupTokens, CleanupFails, Crash, Listen

\* What a step does to the forms: only a request that was idle gets one, for a code that
\* was issued or a token that was minted.
LEMMA FormsOfSteps ==
    ASSUME OnceInv, MintInv, [Next]_vars, NEW r \in Requests
    PROVE  \/ /\ call'[r] = call[r]
              /\ pc'[r] \in {"idle", "consume", "lookup", "revoke"} => pc'[r] = pc[r]
              /\ pc'[r] = "lookup" => at'[r] = at[r] /\ known'[r] = known[r]
           \/ /\ pc[r] = "idle" /\ pc'[r] = "consume"
              /\ call'[r] \in RedeemCalls /\ call'[r].code \in DOMAIN issued
           \/ /\ pc[r] = "idle" /\ pc'[r] \in {"lookup", "revoke"}
              /\ call'[r] \in TokenCalls /\ call'[r].token \in DOMAIN minted
              /\ at'[r] = now /\ known'[r] = TokenUsable(call'[r].token, now)
              /\ UNCHANGED tokens
<1> USE DEF vars, tables, local, process
<1>1. ASSUME NEW q \in Requests, Advance(q)
      PROVE  /\ call'[r] = call[r] /\ known'[r] = known[r]
             /\ (pc'[r] = pc[r] /\ at'[r] = at[r]) \/ pc'[r] \in {"mint", "done"}
  BY <1>1 DEF Advance, Refuse, Consume, ConsumeFails, MintFails, Mint, Introspect, LookupFails,
     Revoke, RevokeFails, End, OnceInv, TypeOK
<1>2. ASSUME NEW q \in Requests, Begin(q), q # r PROVE UNCHANGED <<call[r], pc[r], at[r], known[r]>>
  BY <1>2 DEF Begin, BeginRedeem, BeginTokenCall, Step, OnceInv, TypeOK
<1>3. ASSUME NEW f \in Forms \cap RedeemCalls, BeginRedeem(r, f)
      PROVE  /\ pc[r] = "idle" /\ pc'[r] = "consume"
             /\ call'[r] \in RedeemCalls /\ call'[r].code \in DOMAIN issued
  BY <1>3 DEF BeginRedeem, Step, OnceInv, TypeOK
<1>4. ASSUME NEW f \in Forms \cap TokenCalls, BeginTokenCall(r, f)
      PROVE  /\ pc[r] = "idle" /\ pc'[r] \in {"lookup", "revoke"}
             /\ call'[r] \in TokenCalls /\ call'[r].token \in DOMAIN minted
             /\ at'[r] = now /\ known'[r] = TokenUsable(call'[r].token, now)
             /\ UNCHANGED tokens
  BY <1>4 DEF BeginTokenCall, Delivered, Step, OnceInv, TypeOK
<1>5. CASE Crash
  BY <1>5 DEF Crash, Waiting
<1>6. CASE Begin(r)
  BY <1>3, <1>4, <1>6 DEF Begin
<1> QED
  BY <1>1, <1>2, <1>5, <1>6 DEF Next, Issue, IssueCode, Tick,
     CleanupBegin, Clean, CleanupCodes, CleanupTokens, CleanupFails, Listen

\* A request that tried a code has tried it for good.
LEMMA TriedForGood ==
    ASSUME OnceInv, AnsweredOnce, Ages, NEW q \in Requests, NEW c, Tried(q, c)
    PROVE  Tried(q, c)'
BY DEF Tried, Ages, RequestsStay, AnsweredOnce, OnceInv, CallShape, Ended

\* An unused row stays, unless its code is tried or is over.
LEMMA RowsGoForCause ==
    ASSUME OnceInv, MintInv, TimeInv, AnsweredOnce, [Next]_vars,
           NEW c \in DOMAIN codes, ~codes[c].used
    PROVE  \/ c \in DOMAIN codes' /\ ~codes'[c].used
           \/ \E q \in Requests : Tried(q, c)'
           \/ now + Second > issued[c].at + CodeTTL
<1> USE DEF vars, tables, local, process
<1>1. ASSUME NEW r \in Requests, Consume(r), call[r].code = c PROVE Tried(r, c)'
  BY <1>1, GrantAssumption DEF Consume, Tried, Redeemed, OnceInv, CallShape, TypeOK, IsTable, CodeRows
<1>2. ASSUME NEW r \in Requests, ConsumeFails(r), call[r].code = c PROVE Tried(r, c)'
  BY <1>2 DEF ConsumeFails, End, Tried, OnceInv, CallShape, TypeOK
<1>3. ASSUME NEW r \in Requests, Consume(r) \/ ConsumeFails(r), call[r].code # c
      PROVE  c \in DOMAIN codes' /\ ~codes'[c].used
  BY <1>3 DEF Consume, ConsumeFails, Consumable
<1>4. CASE CleanupCodes
  <2>1. CASE c \in DOMAIN codes'
    BY <1>4, <2>1 DEF CleanupCodes, Delete
  <2>2. CASE c \notin DOMAIN codes'
    <3>1. codes[c].expiresAt <= cleaner.cutoff
      BY <1>4, <2>2 DEF CleanupCodes, Delete, DeadCode, PastCutoff
    <3>2. codes[c].expiresAt \in Nat /\ cleaner.cutoff \in Nat /\ now \in Nat
      BY DEF OnceInv, TypeOK, IsTable, CodeRows
    <3>3. codes[c].expiresAt * Second <= now
      BY <3>1, <3>2, SecondsMonotone DEF TimeInv, ReadingsPast
    <3> QED  BY <3>2, <3>3, CodeExpiry, SecondAssumption
  <2> QED  BY <2>1, <2>2
<1>5. ASSUME NEW d \in Codes, NEW g \in Grants, NEW t \in 0..now, IssueCode(d, g, t)
      PROVE  c \in DOMAIN codes' /\ ~codes'[c].used
  BY <1>5 DEF IssueCode, Insert, OnceInv, CodesAreIssued
<1> QED
  BY <1>1, <1>2, <1>3, <1>4, <1>5 DEF Next, Issue, Tick, Begin, BeginRedeem, BeginTokenCall,
     Advance, Refuse, MintFails, Mint, InsertToken, Introspect, LookupFails,
     Revoke, RevokeFails, CleanupBegin, Clean, CleanupTokens, CleanupFails, Crash, Listen

\* Every issued code stays accounted for.
LEMMA AccountedNext ==
    ASSUME OnceInv, MintInv, TimeInv, AnswerInv, [Next]_vars, Ages
    PROVE  Accounted'
<1> SUFFICES ASSUME NEW c \in DOMAIN issued'
             PROVE  \/ c \in DOMAIN codes' /\ ~codes'[c].used
                    \/ \E q \in Requests : Tried(q, c)'
                    \/ now' + Second > issued'[c].at + CodeTTL
  BY DEF Accounted
<1> USE DEF vars, tables, local, process
<1>1. CASE c \notin DOMAIN issued
  <2>1. ASSUME ~Issue PROVE UNCHANGED issued
    BY <2>1 DEF Next, Tick, Begin, BeginRedeem, BeginTokenCall,
       Advance, Refuse, Consume, ConsumeFails, MintFails, Mint, InsertToken, Introspect, LookupFails,
       Revoke, RevokeFails, CleanupBegin, Clean, CleanupCodes, CleanupTokens, CleanupFails, Crash, Listen
  <2>2. ASSUME NEW d \in Codes, NEW g \in Grants, NEW t \in 0..now, IssueCode(d, g, t)
        PROVE  c \in DOMAIN codes' /\ ~codes'[c].used
    BY <1>1, <2>2 DEF IssueCode, Insert
  <2> QED  BY <1>1, <2>1, <2>2 DEF Issue
<1>2. CASE c \in DOMAIN issued
  <2>1. issued'[c] = issued[c] /\ issued[c].at + CodeTTL \in Nat
    BY <1>2, ConfigAssumption DEF Ages, RowsAge, OnceInv, TypeOK, IsTable
  <2>2. now \in Nat /\ now' \in Nat /\ now <= now'
    BY DEF Ages
  <2>3. CASE c \in DOMAIN codes /\ ~codes[c].used
    BY <2>1, <2>2, <2>3, RowsGoForCause, SecondAssumption DEF AnswerInv
  <2>4. CASE \E q \in Requests : Tried(q, c)
    BY <2>4, TriedForGood DEF AnswerInv
  <2>5. CASE now + Second > issued[c].at + CodeTTL
    BY <2>1, <2>2, <2>5, SecondAssumption
  <2> QED  BY <1>2, <2>3, <2>4, <2>5 DEF AnswerInv, Accounted
<1> QED  BY <1>1, <1>2

\* A refusal has its cause when it is given, and keeps it.
LEMMA RefusedNext ==
    ASSUME OnceInv, MintInv, TimeInv, AnswerInv, [Next]_vars, Ages
    PROVE  RefusedOnlyForCause'
<1> SUFFICES ASSUME NEW r \in Requests, answer'[r] = "refused"
             PROVE  \/ \E q \in Requests \ {r} : Tried(q, call[r].code)'
                    \/ now' + Second > issued'[call'[r].code].at + CodeTTL
  BY DEF RefusedOnlyForCause, Tried
<1> DEFINE c == call[r].code
<1>1. now \in Nat /\ now' \in Nat /\ now <= now'
  BY DEF Ages
<1>2. ASSUME call[r] \in RedeemCalls, pc[r] # "idle",
             \/ \E q \in Requests \ {r} : Tried(q, c)
             \/ now + Second > issued[c].at + CodeTTL
      PROVE  \/ \E q \in Requests \ {r} : Tried(q, call[r].code)'
             \/ now' + Second > issued'[call'[r].code].at + CodeTTL
  <2>1. call'[r] = call[r] /\ c \in DOMAIN issued
    BY <1>2 DEF Ages, RequestsStay, AnswerInv, PresentedIssued
  <2>2. issued'[c] = issued[c] /\ issued[c].at + CodeTTL \in Nat
    BY <2>1, ConfigAssumption DEF Ages, RowsAge, OnceInv, TypeOK, IsTable
  <2>3. CASE \E q \in Requests \ {r} : Tried(q, c)
    BY <2>1, <2>3, TriedForGood DEF AnswerInv
  <2>4. CASE now + Second > issued[c].at + CodeTTL
    BY <1>1, <2>1, <2>2, <2>4, SecondAssumption
  <2> QED  BY <1>2, <2>3, <2>4
<1>3. CASE answer[r] = "refused"
  <2>1. call[r] \in RedeemCalls /\ pc[r] = "done"
    BY <1>3 DEF AnswerInv, AnsweredOnce
  <2>2. \/ \E q \in Requests \ {r} : Tried(q, c)
        \/ now + Second > issued[c].at + CodeTTL
    BY <1>3 DEF AnswerInv, RefusedOnlyForCause, Tried
  <2> QED  BY <1>2, <2>1, <2>2
<1>4. CASE Refuse(r)
  <2>1. /\ pc[r] = "consume" /\ call[r] \in RedeemCalls /\ ~Consumable(c, at[r])
        /\ ~Redeemed(r) /\ answer[r] = "none" /\ c \in DOMAIN issued
    BY <1>4 DEF Refuse, OnceInv, CallShape, AnswerInv, AnsweredOnce, PresentedIssued
  <2>2. CASE c \in DOMAIN codes /\ ~codes[c].used
    <3>1. at[r] >= codes[c].expiresAt * Second /\ at[r] \in Nat /\ at[r] <= now
      <4>1. at[r] \in Nat /\ codes[c].expiresAt * Second \in Nat
        BY <2>2, CodeExpiry DEF OnceInv, TypeOK
      <4> QED  BY <4>1, <2>1, <2>2 DEF Consumable, Live, TimeInv, ReadingsPast
    <3>2. now + Second > issued[c].at + CodeTTL
      BY <1>1, <2>2, <3>1, CodeExpiry, SecondAssumption
    <3> QED  BY <1>2, <2>1, <3>2
  <2>3. CASE ~(c \in DOMAIN codes /\ ~codes[c].used)
    <3>1. \/ \E q \in Requests : Tried(q, c)
          \/ now + Second > issued[c].at + CodeTTL
      BY <2>1, <2>3 DEF AnswerInv, Accounted
    <3>2. ~Tried(r, c)
      BY <2>1 DEF Tried
    <3> QED  BY <1>2, <2>1, <3>1, <3>2
  <2> QED  BY <2>2, <2>3
<1> QED  BY <1>3, <1>4, AnswersOfSteps

\* A token that was dead under the reading of a lookup is still dead when the row is read.
LEMMA LookupsNext ==
    ASSUME OnceInv, MintInv, AnswerInv, [Next]_vars, Ages
    PROVE  LookupsHonest' /\ NoActiveAnswerForDeadToken'
<1>1. ASSUME NEW r \in Requests, pc'[r] = "lookup"
      PROVE  /\ call'[r].token \in DOMAIN minted'
             /\ ~known'[r] => ~TokenUsable(call[r].token, at[r])'
  <2>1. CASE /\ call'[r] = call[r] /\ pc[r] = "lookup" /\ at'[r] = at[r] /\ known'[r] = known[r]
    BY <2>1, <1>1 DEF AnswerInv, LookupsHonest, Ages, RowsAge, TokenUsable
  <2>2. CASE /\ call'[r].token \in DOMAIN minted /\ at'[r] = now
             /\ known'[r] = TokenUsable(call'[r].token, now) /\ UNCHANGED tokens
    BY <2>2 DEF Ages, RowsAge, TokenUsable
  <2> QED  BY <1>1, <2>1, <2>2, FormsOfSteps
<1>2. ASSUME NEW r \in Requests, answer'[r] = "active" PROVE known'[r]
  <2>1. CASE answer[r] = "active"
    BY <2>1 DEF AnswerInv, AnsweredOnce, NoActiveAnswerForDeadToken, Ages, RequestsStay
  <2>2. CASE Introspect(r)
    BY <2>2, <1>2 DEF Introspect, End, Active, Live, TokenUsable, AnswerInv, LookupsHonest, Ages,
       RequestsStay, OnceInv, TypeOK, local
  <2> QED  BY <1>2, <2>1, <2>2, AnswersOfSteps
<1> QED  BY <1>1, <1>2 DEF LookupsHonest, NoActiveAnswerForDeadToken

\* Every step keeps what answers say about codes and tokens.
LEMMA AnswerNext == OnceInv /\ MintInv /\ TimeInv /\ AnswerInv /\ [Next]_vars => AnswerInv'
<1> SUFFICES ASSUME OnceInv, MintInv, TimeInv, AnswerInv, [Next]_vars PROVE AnswerInv'
  OBVIOUS
<1>1. Ages
  BY StepAges
<1>2. AnsweredOnce'
  <2> SUFFICES ASSUME NEW r \in Requests
               PROVE  /\ answer'[r] # "none" => pc'[r] = "done"
                      /\ answer'[r] = "refused" => call'[r] \in RedeemCalls
    BY DEF AnsweredOnce
  <2>1. CASE answer[r] # "none"
    BY <2>1, <1>1 DEF Ages, RequestsStay, Ended, AnswerInv, AnsweredOnce
  <2>2. CASE Refuse(r)
    BY <2>2 DEF Refuse, End, OnceInv, CallShape, TypeOK
  <2>3. CASE Introspect(r)
    BY <2>3 DEF Introspect, End, OnceInv, TypeOK
  <2> QED  BY <2>1, <2>2, <2>3, AnswersOfSteps
<1>3. PresentedIssued'
  BY <1>1, FormsOfSteps, TwoKindsOfCall DEF AnswerInv, PresentedIssued, Ages, RowsAge
<1> QED  BY <1>1, <1>2, <1>3, AccountedNext, RefusedNext, LookupsNext DEF AnswerInv

\* So it holds in every behaviour, beside the others.
LEMMA AnswerInvariant == Spec => [](OnceInv /\ MintInv /\ TimeInv /\ AnswerInv)
<1>1. Init => AnswerInv
  BY AnswerInit
<1>2. OnceInv /\ MintInv /\ TimeInv /\ AnswerInv /\ [Next]_vars => AnswerInv'
  BY AnswerNext
<1> QED  BY <1>1, <1>2, TimeInvariant, PTL DEF Spec

\* A code is refused only when another request redeemed it or failed over it, or when its
\* lifetime is over but for the truncated second.
THEOREM RefusalsHaveCause == Spec => []RefusedOnlyForCause
<1>1. AnswerInv => RefusedOnlyForCause
  BY DEF AnswerInv
<1> QED  BY <1>1, AnswerInvariant, PTL

\* An introspection that begins after its token was revoked or expired does not say active.
THEOREM DeadTokensAreInactive == Spec => []NoActiveAnswerForDeadToken
<1>1. AnswerInv => NoActiveAnswerForDeadToken
  BY DEF AnswerInv
<1> QED  BY <1>1, AnswerInvariant, PTL
-----------------------------------------------------------------------------
(***************************************************************************)
(* Tokens that live out their time.  A token that was inserted is there    *)
(* and not revoked until someone asks to revoke it or its lifetime is      *)
(* over, counted from the issue of its code and but for the truncated      *)
(* second: no cleanup, failure or restart takes it from its client.  The   *)
(* row is as old as the reading it was inserted under, which is no older   *)
(* than the code.                                                          *)
(***************************************************************************)
RevokeAsked(t) ==
    \E q \in Requests : call[q].endpoint = "revoke" /\ call[q].token = t /\ pc[q] = "done"

EndOfLife(t) == issued[call[minted[t]].code].at + AccessTokenTTL

LifetimeOver(t) == now + Second > EndOfLife(t)

\* A token that was inserted is good until its revocation was asked for or its lifetime
\* is over (handleToken, handleRevoke, Cleanup).
TokensLiveOut ==
    \A t \in DOMAIN minted :
        (t \in DOMAIN tokens /\ ~tokens[t].revoked) \/ RevokeAsked(t) \/ LifetimeOver(t)

TokensAreMinted == DOMAIN tokens \subseteq DOMAIN minted

MintLater == \A r \in Requests : pc[r] = "mint" => issued[call[r].code].at <= at[r]

TokensLastTTL ==
    \A t \in DOMAIN tokens : EndOfLife(t) < tokens[t].expiresAt * Second + Second

RevokersRevoke == \A r \in Requests : pc[r] = "revoke" => call[r].endpoint = "revoke"

LifeInv ==
    /\ TokensAreMinted
    /\ MintLater
    /\ TokensLastTTL
    /\ RevokersRevoke
    /\ TokensLiveOut

\* An introspection that the store answers says inactive only of a token that someone
\* asked to revoke or whose lifetime is over (handleIntrospect).
InactiveOnlyForCause ==
    [][\A r \in Requests : pc[r] = "lookup" /\ answer'[r] = "inactive" /\ faults' = faults =>
          RevokeAsked(call[r].token) \/ LifetimeOver(call[r].token)]_vars

\* There are no tokens at first.
LEMMA LifeInit == Init => LifeInv
BY DEF Init, LifeInv, TokensAreMinted, MintLater, TokensLastTTL, RevokersRevoke, TokensLiveOut, Empty

\* Tokens are only added, by a request at its insert, which it then leaves.
LEMMA TokensOfSteps ==
    ASSUME OnceInv, [Next]_vars
    PROVE  \/ UNCHANGED minted /\ DOMAIN tokens' \subseteq DOMAIN tokens
           \/ \E r \in Requests, t \in Tokens :
                /\ pc[r] = "mint" /\ InsertToken(r, t)
                /\ UNCHANGED <<now, call>> /\ pc'[r] = "done"
<1> USE DEF vars, tables, local, process
<1>1. ASSUME NEW r \in Requests, NEW t \in Tokens, Mint(r, t)
      PROVE  pc[r] = "mint" /\ InsertToken(r, t) /\ UNCHANGED <<now, call>> /\ pc'[r] = "done"
  BY <1>1 DEF Mint, End, OnceInv, TypeOK
<1>2. ASSUME NEW r \in Requests, MintFails(r)
      PROVE  \/ UNCHANGED <<tokens, minted>>
             \/ \E t \in Tokens :
                  pc[r] = "mint" /\ InsertToken(r, t) /\ UNCHANGED <<now, call>> /\ pc'[r] = "done"
  BY <1>2 DEF MintFails, End, OnceInv, TypeOK
<1>3. ASSUME NEW r \in Requests, Revoke(r) \/ RevokeFails(r)
      PROVE  UNCHANGED minted /\ DOMAIN tokens' \subseteq DOMAIN tokens
  BY <1>3, RevokedStaysRevoked DEF Revoke, RevokeFails, OnceInv
<1> QED
  BY <1>1, <1>2, <1>3 DEF Next, Issue, IssueCode, Tick, Begin, BeginRedeem, BeginTokenCall,
     Advance, Refuse, Consume, ConsumeFails, Introspect, LookupFails,
     CleanupBegin, Clean, CleanupCodes, CleanupTokens, CleanupFails, Crash, Listen, Delete

\* A token comes from a request that redeemed an issued code.
LEMMA OriginKnown ==
    ASSUME OnceInv, MintInv, NEW t \in DOMAIN minted
    PROVE  /\ minted[t] \in Requests /\ pc[minted[t]] # "idle"
           /\ call[minted[t]].code \in DOMAIN issued
           /\ EndOfLife(t) \in Nat
<1>1. minted[t] \in Requests /\ pc[minted[t]] # "idle" /\ Redeemed(minted[t])
  BY DEF MintInv, MintedOnce, MintedPassed, OnceInv, TypeOK, IsTable
<1>2. call[minted[t]].code \in DOMAIN issued /\ issued[call[minted[t]].code].at \in Nat
  BY <1>1 DEF OnceInv, SpentForGood, TypeOK, IsTable
<1> QED  BY <1>1, <1>2, ConfigAssumption DEF EndOfLife

\* The request that made a token, and the reading its code was issued at, never change.
LEMMA OriginKept ==
    ASSUME OnceInv, MintInv, Ages, [Next]_vars, NEW t \in DOMAIN minted
    PROVE  /\ t \in DOMAIN minted' /\ minted'[t] = minted[t]
           /\ EndOfLife(t)' = EndOfLife(t)
<1>1. t \in DOMAIN minted' /\ minted'[t] = minted[t]
  BY TokensOfSteps DEF InsertToken, Insert
<1>2. call'[minted[t]] = call[minted[t]]
  BY OriginKnown DEF Ages, RequestsStay
<1>3. issued'[call[minted[t]].code] = issued[call[minted[t]].code]
  BY OriginKnown DEF Ages, RowsAge
<1> QED  BY <1>1, <1>2, <1>3 DEF EndOfLife

\* A live row stays live, unless a revocation is answered or the lifetime is over.
LEMMA TokensGoForCause ==
    ASSUME OnceInv, MintInv, TimeInv, LifeInv, [Next]_vars,
           NEW t \in DOMAIN tokens, ~tokens[t].revoked
    PROVE  (t \in DOMAIN tokens' /\ ~tokens'[t].revoked) \/ RevokeAsked(t)' \/ LifetimeOver(t)
<1> USE DEF vars, tables, local, process
<1>1. ASSUME NEW r \in Requests, Revoke(r) \/ RevokeFails(r)
      PROVE  (t \in DOMAIN tokens' /\ ~tokens'[t].revoked) \/ RevokeAsked(t)'
  <2>1. CASE call[r].token = t
    <3>1. call[r].endpoint = "revoke" /\ call'[r] = call[r] /\ pc'[r] = "done"
      BY <1>1 DEF Revoke, RevokeFails, End, OnceInv, TypeOK, LifeInv, RevokersRevoke
    <3> QED  BY <2>1, <3>1 DEF RevokeAsked
  <2>2. CASE call[r].token # t
    BY <1>1, <2>2 DEF Revoke, RevokeFails, RevokeRow
  <2> QED  BY <2>1, <2>2
<1>2. CASE CleanupTokens
  <2>1. CASE t \in DOMAIN tokens'
    BY <1>2, <2>1 DEF CleanupTokens, Delete
  <2>2. CASE t \notin DOMAIN tokens'
    <3>1. tokens[t].expiresAt <= cleaner.cutoff
      BY <1>2, <2>2 DEF CleanupTokens, Delete, PastCutoff
    <3>2. tokens[t].expiresAt \in Nat /\ cleaner.cutoff \in Nat /\ now \in Nat
      BY DEF OnceInv, TypeOK, IsTable, TokenRows
    <3>3. tokens[t].expiresAt * Second <= now
      BY <3>1, <3>2, SecondsMonotone DEF TimeInv, ReadingsPast
    <3>4. EndOfLife(t) \in Nat /\ EndOfLife(t) < tokens[t].expiresAt * Second + Second
      BY OriginKnown DEF LifeInv, TokensAreMinted, TokensLastTTL
    <3> QED  BY <3>2, <3>3, <3>4, SecondAssumption DEF LifetimeOver
  <2> QED  BY <2>1, <2>2
<1>3. CASE UNCHANGED tokens
  BY <1>3
<1>4. ASSUME NEW r \in Requests, NEW u \in Tokens, InsertToken(r, u)
      PROVE  t \in DOMAIN tokens' /\ ~tokens'[t].revoked
  BY <1>4 DEF InsertToken, Insert, LifeInv, TokensAreMinted
<1> QED
  BY <1>1, <1>2, <1>3, <1>4 DEF Next, Issue, IssueCode, Tick, Begin, BeginRedeem, BeginTokenCall,
     Advance, Refuse, Consume, ConsumeFails, Mint, MintFails, Introspect, LookupFails,
     CleanupBegin, Clean, CleanupCodes, CleanupFails, Crash, Listen

\* A row inserted under a reading no older than its code expires no sooner than the
\* lifetime counted from there, but for the truncated second.
LEMMA NewRowLasts ==
    ASSUME OnceInv, LifeInv, NEW r \in Requests, pc[r] = "mint", NEW reading \in at[r]..now
    PROVE  issued[call[r].code].at + AccessTokenTTL
             < TokenRow(rec[r], reading).expiresAt * Second + Second
<1>1. /\ call[r].code \in DOMAIN issued /\ issued[call[r].code].at \in Nat
      /\ at[r] \in Nat /\ now \in Nat
  BY DEF OnceInv, CallShape, SpentForGood, TypeOK, IsTable
<1>2. issued[call[r].code].at <= reading
  BY <1>1 DEF LifeInv, MintLater
<1>3. reading + AccessTokenTTL \in Nat /\ AccessTokenTTL \in Nat
  BY <1>1, ConfigAssumption
<1>4. /\ reading + AccessTokenTTL < Unix(reading + AccessTokenTTL) * Second + Second
      /\ Unix(reading + AccessTokenTTL) \in Nat
  BY <1>3, UnixBounds
<1>5. issued[call[r].code].at + AccessTokenTTL <= reading + AccessTokenTTL
  BY <1>1, <1>2, <1>3
<1>6. Unix(reading + AccessTokenTTL) * Second + Second \in Nat
  BY <1>4, SecondAssumption
<1>7. TokenRow(rec[r], reading).expiresAt = Unix(reading + AccessTokenTTL)
  BY DEF TokenRow, ExpiresAt
<1> QED  BY <1>1, <1>3, <1>4, <1>5, <1>6, <1>7

\* A request inserts under a reading from after its code was consumed; no code is from the
\* future.
LEMMA MintLaterNext ==
    ASSUME OnceInv, MintInv, TimeInv, LifeInv, Ages, [Next]_vars
    PROVE  MintLater' /\ RevokersRevoke'
<1> USE DEF vars, tables, local, process
<1>1. ASSUME NEW r \in Requests, pc'[r] = "mint" PROVE issued'[call'[r].code].at <= at'[r]
  <2>1. \/ pc[r] = "mint" /\ at'[r] = at[r]
        \/ Consume(r) /\ at'[r] = now
    <3>1. ASSUME NEW q \in Requests, Advance(q), ~Consume(r)
          PROVE  pc'[r] # "mint" \/ (pc[r] = "mint" /\ at'[r] = at[r])
      BY <3>1 DEF Advance, Refuse, Consume, ConsumeFails, MintFails, Mint, Introspect, LookupFails,
         Revoke, RevokeFails, End, OnceInv, TypeOK
    <3>2. ASSUME NEW q \in Requests, Begin(q)
          PROVE  pc'[r] # "mint" \/ (pc[r] = "mint" /\ at'[r] = at[r])
      BY <3>2 DEF Begin, BeginRedeem, BeginTokenCall, Step, OnceInv, TypeOK
    <3>3. CASE Consume(r)
      BY <3>3, <1>1 DEF Consume, End, OnceInv, TypeOK
    <3>4. CASE Crash
      BY <3>4, <1>1 DEF Crash, Waiting
    <3> QED
      BY <1>1, <3>1, <3>2, <3>3, <3>4 DEF Next, Issue, IssueCode, Tick,
         CleanupBegin, Clean, CleanupCodes, CleanupTokens, CleanupFails, Listen
  <2>2. pc[r] # "idle" /\ call'[r] = call[r] /\ call[r].code \in DOMAIN issued
    <3>1. pc[r] # "idle"
      BY <2>1 DEF Consume
    <3>2. call[r].code \in DOMAIN issued
      BY <2>1 DEF Consume, Consumable, OnceInv, CodesAreIssued, CallShape, SpentForGood
    <3> QED  BY <3>1, <3>2 DEF Ages, RequestsStay
  <2>3. issued'[call[r].code] = issued[call[r].code] /\ issued[call[r].code].at <= now
    BY <2>2 DEF Ages, RowsAge, TimeInv, ReadingsPast
  <2> QED  BY <2>1, <2>2, <2>3 DEF LifeInv, MintLater
<1>2. ASSUME NEW r \in Requests, pc'[r] = "revoke" PROVE call'[r].endpoint = "revoke"
  <2>1. ASSUME NEW f \in Forms \cap TokenCalls, BeginTokenCall(r, f) PROVE call'[r].endpoint = "revoke"
    <3>1. f.endpoint \in {"introspect", "revoke"}
      BY DEF TokenCalls, TokenEndpoints
    <3> QED  BY <1>2, <2>1, <3>1 DEF BeginTokenCall, Step, OnceInv, TypeOK
  <2>2. ASSUME NEW q \in Requests, Begin(q), q # r PROVE pc[r] = "revoke" /\ call'[r] = call[r]
    BY <1>2, <2>2 DEF Begin, BeginRedeem, BeginTokenCall, Step, OnceInv, TypeOK
  <2>3. ASSUME NEW f \in Forms \cap RedeemCalls, BeginRedeem(r, f) PROVE FALSE
    BY <1>2, <2>3 DEF BeginRedeem, Step, OnceInv, TypeOK
  <2>4. ASSUME \A q \in Requests : ~Begin(q) PROVE pc[r] = "revoke" /\ call'[r] = call[r]
    <3>1. ASSUME NEW q \in Requests, Advance(q) PROVE pc[r] = "revoke" /\ call'[r] = call[r]
      BY <1>2, <3>1 DEF Advance, Refuse, Consume, ConsumeFails, MintFails, Mint, Introspect,
         LookupFails, Revoke, RevokeFails, End, OnceInv, TypeOK
    <3>2. CASE Crash
      BY <1>2, <3>2 DEF Crash, Waiting
    <3> QED
      BY <1>2, <2>4, <3>1, <3>2 DEF Next, Issue, IssueCode, Tick,
         CleanupBegin, Clean, CleanupCodes, CleanupTokens, CleanupFails, Listen
  <2> QED  BY <2>1, <2>2, <2>3, <2>4 DEF Begin, LifeInv, RevokersRevoke
<1> QED  BY <1>1, <1>2 DEF MintLater, RevokersRevoke

\* Every step keeps what the life of tokens needs.
LEMMA LifeNext == OnceInv /\ MintInv /\ TimeInv /\ LifeInv /\ [Next]_vars => LifeInv'
<1> SUFFICES ASSUME OnceInv, MintInv, TimeInv, LifeInv, [Next]_vars PROVE LifeInv'
  OBVIOUS
<1>a. Ages
  BY StepAges
<1>1. TokensAreMinted'
  BY TokensOfSteps DEF InsertToken, Insert, LifeInv, TokensAreMinted
<1>2. ASSUME NEW r \in Requests, NEW u \in Tokens, pc[r] = "mint", InsertToken(r, u), UNCHANGED call
      PROVE  /\ u \notin DOMAIN minted /\ u \in DOMAIN tokens' /\ ~tokens'[u].revoked
             /\ EndOfLife(u)' < tokens'[u].expiresAt * Second + Second
             /\ DOMAIN minted' = DOMAIN minted \cup {u}
  <2>1. PICK reading \in at[r]..now :
          /\ u \notin DOMAIN minted /\ u \in DOMAIN tokens'
          /\ tokens'[u] = TokenRow(rec[r], reading)
          /\ minted'[u] = r /\ DOMAIN minted' = DOMAIN minted \cup {u} /\ UNCHANGED issued
    BY <1>2 DEF InsertToken, Insert
  <2>2. EndOfLife(u)' = issued[call[r].code].at + AccessTokenTTL
    BY <1>2, <2>1 DEF EndOfLife
  <2>3. TokenRow(rec[r], reading).revoked = FALSE
    BY DEF TokenRow
  <2> QED  BY <1>2, <2>1, <2>2, <2>3, NewRowLasts
<1>3. ASSUME NEW t \in DOMAIN minted'
      PROVE  t \in DOMAIN minted \/ (/\ t \in DOMAIN tokens' /\ ~tokens'[t].revoked
                                     /\ EndOfLife(t)' < tokens'[t].expiresAt * Second + Second)
  BY <1>2, <1>3, TokensOfSteps
<1>4. ASSUME NEW t \in DOMAIN tokens'
      PROVE  EndOfLife(t)' < tokens'[t].expiresAt * Second + Second
  <2>1. CASE t \in DOMAIN minted
    <3>1. t \in DOMAIN tokens /\ tokens'[t].expiresAt = tokens[t].expiresAt
      BY <1>a, <1>4, <2>1 DEF Ages, RowsAge
    <3> QED  BY <1>a, <2>1, <3>1, OriginKept DEF LifeInv, TokensLastTTL
  <2> QED  BY <1>1, <1>3, <1>4, <2>1 DEF TokensAreMinted
<1>5. ASSUME NEW t \in DOMAIN minted'
      PROVE  (t \in DOMAIN tokens' /\ ~tokens'[t].revoked) \/ RevokeAsked(t)' \/ LifetimeOver(t)'
  <2>1. ASSUME t \in DOMAIN minted, LifetimeOver(t) PROVE LifetimeOver(t)'
    <3>1. now \in Nat /\ now' \in Nat /\ now <= now'
      BY <1>a DEF Ages
    <3> QED  BY <1>a, <2>1, <3>1, OriginKnown, OriginKept, SecondAssumption DEF LifetimeOver
  <2>2. ASSUME RevokeAsked(t) PROVE RevokeAsked(t)'
    BY <1>a, <2>2 DEF RevokeAsked, Ages, RequestsStay, Ended
  <2>3. CASE t \in DOMAIN minted
    BY <2>1, <2>2, <2>3, TokensGoForCause DEF LifeInv, TokensLiveOut
  <2> QED  BY <1>3, <2>3
<1> QED
  BY <1>a, <1>1, <1>4, <1>5, MintLaterNext DEF LifeInv, TokensLastTTL, TokensLiveOut

\* So it holds in every behaviour, beside the others.
LEMMA LifeInvariant == Spec => [](OnceInv /\ MintInv /\ TimeInv /\ AnswerInv /\ LifeInv)
<1>1. Init => LifeInv
  BY LifeInit
<1>2. OnceInv /\ MintInv /\ TimeInv /\ LifeInv /\ [Next]_vars => LifeInv'
  BY LifeNext
<1> QED  BY <1>1, <1>2, AnswerInvariant, PTL DEF Spec

\* A token stays good until its revocation is asked for or its lifetime is over.
THEOREM TokensAreNotLost == Spec => []TokensLiveOut
<1>1. LifeInv => TokensLiveOut
  BY DEF LifeInv
<1> QED  BY <1>1, LifeInvariant, PTL

\* No client is told of a good token that it is inactive, unless the store fails.
THEOREM InactiveForCause == Spec => InactiveOnlyForCause
<1>1. OnceInv /\ MintInv /\ TimeInv /\ AnswerInv /\ LifeInv /\ [Next]_vars =>
        [\A r \in Requests : pc[r] = "lookup" /\ answer'[r] = "inactive" /\ faults' = faults =>
           RevokeAsked(call[r].token) \/ LifetimeOver(call[r].token)]_vars
  <2> SUFFICES ASSUME OnceInv, MintInv, TimeInv, AnswerInv, LifeInv, [Next]_vars,
                      NEW r \in Requests, pc[r] = "lookup", answer'[r] = "inactive", UNCHANGED faults
               PROVE  RevokeAsked(call[r].token) \/ LifetimeOver(call[r].token)
    OBVIOUS
  <2> DEFINE t == call[r].token
  <2>1. answer[r] = "none"
    BY DEF AnswerInv, AnsweredOnce
  <2>2. Introspect(r)
    <3>1. faults + 1 # faults
      BY DEF OnceInv, TypeOK
    <3>2. ASSUME NEW q \in Requests, Advance(q), ~Introspect(r) PROVE answer'[r] = answer[r]
      BY <3>1, <3>2 DEF Advance, Refuse, Consume, ConsumeFails, MintFails, Mint, Introspect,
         LookupFails, Revoke, RevokeFails, End, Fault, OnceInv, TypeOK
    <3> QED
      BY <2>1, <3>2 DEF vars, local, process, Next, Issue, IssueCode, Tick, Begin, BeginRedeem,
         BeginTokenCall, CleanupBegin, Clean, CleanupCodes, CleanupTokens, CleanupFails, Crash, Listen
  <2>3. ~Active(t, at[r])
    BY <2>2 DEF Introspect, End, OnceInv, TypeOK
  <2>4. t \in DOMAIN minted
    BY DEF AnswerInv, LookupsHonest
  <2>5. CASE t \in DOMAIN tokens /\ ~tokens[t].revoked
    <3>1. at[r] \in Nat /\ now \in Nat /\ at[r] <= now /\ tokens[t].expiresAt \in Nat
      BY <2>5 DEF OnceInv, TypeOK, IsTable, TokenRows, TimeInv, ReadingsPast
    <3>2. tokens[t].expiresAt * Second \in Nat /\ ~(at[r] < tokens[t].expiresAt * Second)
      BY <2>3, <2>5, <3>1, SecondAssumption DEF Active, Live
    <3>3. EndOfLife(t) \in Nat /\ EndOfLife(t) < tokens[t].expiresAt * Second + Second
      BY <2>4, <2>5, OriginKnown DEF LifeInv, TokensLastTTL
    <3> QED  BY <3>1, <3>2, <3>3, SecondAssumption DEF LifetimeOver
  <2> QED  BY <2>4, <2>5 DEF LifeInv, TokensLiveOut
<1> QED  BY <1>1, LifeInvariant, PTL DEF Spec, InactiveOnlyForCause

-----------------------------------------------------------------------------
(***************************************************************************)
(* What a good answer is worth, at both endpoints.                         *)
(***************************************************************************)
\* A request is answered with a token or a profile only if it redeemed its code itself,
\* and the code's grant passed the checks of its endpoint (handleToken,
\* handleAuthorizePost).
AnswersPassed ==
    \A r \in Requests : answer[r] \in {"token", "profile"} =>
        Redeemed(r) /\ rec[r] = issued[call[r].code].grant /\ Accepts(call[r], rec[r])

\* Two steps give a good answer: the consumption, at the profile endpoint, and the insert.
LEMMA GoodAnswersOfSteps ==
    ASSUME OnceInv, [Next]_vars, NEW r \in Requests,
           answer'[r] # answer[r], answer'[r] \in {"token", "profile"}
    PROVE  /\ UNCHANGED call
           /\ \/ /\ Consume(r)
                 /\ rec'[r] = codes[call[r].code].grant /\ Accepts(call[r], rec'[r])
              \/ pc[r] = "mint" /\ UNCHANGED rec
<1> USE DEF vars, tables, local, process
<1>1. Advance(r)
  <2>1. ASSUME NEW q \in Requests, Advance(q), q # r PROVE answer'[r] = answer[r]
    BY <2>1 DEF Advance, Refuse, Consume, ConsumeFails, MintFails, Mint, Introspect, LookupFails,
       Revoke, RevokeFails, End, OnceInv, TypeOK
  <2> QED
    BY <2>1 DEF Next, Issue, IssueCode, Tick, Begin, BeginRedeem, BeginTokenCall,
       CleanupBegin, Clean, CleanupCodes, CleanupTokens, CleanupFails, Crash, Listen
<1>2. ASSUME Consume(r)
      PROVE  UNCHANGED call /\ rec'[r] = codes[call[r].code].grant /\ Accepts(call[r], rec'[r])
  BY <1>2 DEF Consume, End, OnceInv, TypeOK
<1> QED
  BY <1>1, <1>2 DEF Advance, Refuse, ConsumeFails, MintFails, Mint, Introspect, LookupFails,
     Revoke, RevokeFails, End, OnceInv, TypeOK

\* What a request redeemed, it keeps.
LEMMA RedeemedForGood ==
    ASSUME OnceInv, [Next]_vars, NEW r \in Requests, Redeemed(r)
    PROVE  rec'[r] = rec[r]
<1>1. pc[r] # "consume"
  BY DEF OnceInv, CallShape
<1> QED
  BY <1>1 DEF vars, local, Next, Issue, IssueCode, Tick, Begin, BeginRedeem, BeginTokenCall,
     Advance, Refuse, Consume, ConsumeFails, MintFails, Mint, Introspect, LookupFails,
     Revoke, RevokeFails, CleanupBegin, Clean, CleanupCodes, CleanupTokens, CleanupFails, Crash,
     Listen, OnceInv, TypeOK

\* Every step keeps it: the grant of a row is the one its code was issued for, and a request
\* at its insert has passed.
LEMMA AnswersPassedNext == OnceInv /\ MintInv /\ AnswersPassed /\ AnsweredOnce /\ [Next]_vars => AnswersPassed'
<1> SUFFICES ASSUME OnceInv, MintInv, AnswersPassed, AnsweredOnce, [Next]_vars,
                    NEW r \in Requests, answer'[r] \in {"token", "profile"}
             PROVE  Redeemed(r)' /\ rec'[r] = issued'[call'[r].code].grant /\ Accepts(call'[r], rec'[r])
  BY DEF AnswersPassed, Accepts, ClientMatches, TokenPKCE, ProfilePKCE, VerifyPKCES256
<1>a. Ages
  BY StepAges
<1>1. ASSUME Redeemed(r), call'[r] = call[r], Accepts(call[r], rec[r])
      PROVE  Redeemed(r)' /\ rec'[r] = issued'[call'[r].code].grant /\ Accepts(call'[r], rec'[r])
  <2>1. rec'[r] = rec[r]
    BY <1>1, RedeemedForGood
  <2>2. rec[r] = issued[call[r].code].grant /\ call[r].code \in DOMAIN issued
    BY <1>1 DEF MintInv, HeldIsIssued, OnceInv, SpentForGood
  <2> QED  BY <1>a, <1>1, <2>1, <2>2 DEF Ages, RowsAge, Redeemed
<1>2. CASE answer'[r] = answer[r]
  <2>1. pc[r] = "done" /\ Redeemed(r) /\ Accepts(call[r], rec[r])
    BY <1>2 DEF AnswersPassed, AnsweredOnce
  <2> QED  BY <1>a, <1>1, <2>1 DEF Ages, RequestsStay
<1>3. CASE Consume(r) /\ rec'[r] = codes[call[r].code].grant /\ Accepts(call[r], rec'[r])
           /\ UNCHANGED call
  <2>1. call[r].code \in DOMAIN codes /\ UNCHANGED issued
    BY <1>3 DEF Consume, Consumable
  <2>2. codes[call[r].code].grant = issued[call[r].code].grant /\ codes[call[r].code].grant \in Grants
    BY <2>1 DEF MintInv, RowsSayGrant, OnceInv, TypeOK, IsTable, CodeRows
  <2> QED  BY <1>3, <2>1, <2>2, GrantAssumption DEF Redeemed
<1>4. CASE pc[r] = "mint" /\ UNCHANGED <<call, rec>>
  BY <1>1, <1>4 DEF MintInv, MintingPassed, Passed, OnceInv, CallShape
<1> QED  BY <1>2, <1>3, <1>4, GoodAnswersOfSteps

\* A token or a profile is given only for what the redeemed code was issued for, to the
\* client it was issued to, and with the verifier of its challenge.
THEOREM GoodAnswersPassed == Spec => []AnswersPassed
<1>1. Init => AnswersPassed
  BY DEF Init, AnswersPassed
<1>2. OnceInv /\ MintInv /\ AnswerInv /\ AnswersPassed /\ [Next]_vars => AnswersPassed'
  BY AnswersPassedNext DEF AnswerInv
<1> QED  BY <1>1, <1>2, AnswerInvariant, PTL DEF Spec

=============================================================================
