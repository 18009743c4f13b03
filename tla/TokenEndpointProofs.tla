------------------------ MODULE TokenEndpointProofs ------------------------
(***************************************************************************)
(* Theorems about TokenEndpoint, for every number of codes, tokens and     *)
(* requests, every configuration and every bound.                          *)
(***************************************************************************)
EXTENDS TokenEndpoint, TLAPS

(***************************************************************************)
(* Truncating a clock reading to seconds gives a natural number.           *)
(***************************************************************************)
LEMMA UnixNat ==
    ASSUME NEW t \in Nat
    PROVE  Unix(t) \in Nat
BY SecondAssumption DEF Unix

\* So does the expires_at column of a row.
LEMMA ExpiresAtNat ==
    ASSUME NEW t \in Nat, NEW ttl \in Nat
    PROVE  ExpiresAt(t, ttl) \in Nat
BY UnixNat DEF ExpiresAt

(***************************************************************************)
(* What the two statements that change a table's keys do to the table.     *)
(***************************************************************************)
LEMMA InsertTable ==
    ASSUME NEW Keys, NEW Rows, NEW table, IsTable(table, Keys, Rows),
           NEW key \in Keys, NEW row \in Rows
    PROVE  IsTable(Insert(table, key, row), Keys, Rows)
BY DEF Insert, IsTable

\* Deleting rows leaves a table of the same kind.
LEMMA DeleteTable ==
    ASSUME NEW Keys, NEW Rows, NEW table, NEW dead, IsTable(table, Keys, Rows)
    PROVE  IsTable(Delete(table, dead), Keys, Rows)
BY DEF Delete, IsTable

\* The row handleToken inserts is a row of access_tokens.
LEMMA TokenRowType ==
    ASSUME NEW g \in Grants, NEW t \in Nat
    PROVE  TokenRow(g, t) \in TokenRows
<1>1. ExpiresAt(t, AccessTokenTTL) \in Nat
  BY ExpiresAtNat, ConfigAssumption
<1> QED  BY <1>1 DEF TokenRow, TokenRows

-----------------------------------------------------------------------------
(***************************************************************************)
(* The inductive invariant behind the one-use property.  A request whose   *)
(* form is for a code holds that code's grant once it has redeemed it; and *)
(* the row of a redeemed code is used or gone, for good, since no step     *)
(* clears used and no code is issued twice.                                *)
(***************************************************************************)
CallShape ==
    \A r \in Requests :
        /\ pc[r] \in {"consume", "mint"} => call[r] \in RedeemCalls
        /\ pc[r] \in {"lookup", "revoke"} => call[r] \in TokenCalls
        /\ pc[r] \in {"idle", "consume"} => ~Redeemed(r)
        /\ pc[r] = "mint" => Redeemed(r)
        /\ Redeemed(r) => call[r] \in RedeemCalls

CodesAreIssued == DOMAIN codes \subseteq DOMAIN issued

SpentForGood ==
    \A r \in Requests : Redeemed(r) =>
        /\ call[r].code \in DOMAIN issued
        /\ call[r].code \in DOMAIN codes => codes[call[r].code].used

OnceInv ==
    /\ TypeOK
    /\ CallShape
    /\ CodesAreIssued
    /\ SpentForGood
    /\ CodeRedeemedOnce

-----------------------------------------------------------------------------

\* The empty database and idle requests have their types.
LEMMA TypeInit == Init => TypeOK
BY DEF Init, TypeOK, Empty, Idle, IsTable

\* Revoking a token changes no other column of its row.
LEMMA RevokedTable ==
    ASSUME TypeOK, NEW t
    PROVE  IsTable(RevokeRow(t), Tokens, TokenRows)
<1>1. CASE t \notin DOMAIN tokens
  BY <1>1 DEF RevokeRow, TypeOK
<1>2. CASE t \in DOMAIN tokens
  <2>1. tokens[t] \in TokenRows
    BY <1>2 DEF TypeOK, IsTable
  <2>2. [tokens[t] EXCEPT !.revoked = TRUE] \in TokenRows
    BY <2>1 DEF TokenRows
  <2> QED  BY <1>2, <2>2 DEF RevokeRow, TypeOK, IsTable
<1> QED  BY <1>1, <1>2

\* Every handler, cleanup statement, failure and restart keeps the types.  CallShape
\* says that a request about to insert a token holds a grant.
LEMMA TypeNext == TypeOK /\ CallShape /\ [Next]_vars => TypeOK'
<1> SUFFICES ASSUME TypeOK, CallShape, [Next]_vars PROVE TypeOK'
  OBVIOUS
<1> USE DEF vars, tables, local, process
<1>1. CASE Tick
  BY <1>1 DEF Tick, TypeOK
<1>2. ASSUME NEW c \in Codes, NEW g \in Grants, NEW t \in 0..now, IssueCode(c, g, t)
      PROVE  TypeOK'
  <2> DEFINE row == [grant |-> g, expiresAt |-> ExpiresAt(t, CodeTTL), used |-> FALSE]
  <2>1. t \in Nat
    BY DEF TypeOK
  <2>2. row \in CodeRows /\ [grant |-> g, at |-> t] \in [grant : Grants, at : Nat]
    BY <2>1, ExpiresAtNat, ConfigAssumption DEF CodeRows
  <2>3. IsTable(codes', Codes, CodeRows)
    BY <1>2, <2>2, InsertTable DEF IssueCode, TypeOK
  <2>4. IsTable(issued', Codes, [grant : Grants, at : Nat])
    BY <1>2, <2>2, InsertTable DEF IssueCode, TypeOK
  <2> QED  BY <1>2, <2>3, <2>4 DEF IssueCode, TypeOK
<1>3. ASSUME NEW r \in Requests, Begin(r) PROVE TypeOK'
  <2>1. ASSUME NEW f \in Forms \cap RedeemCalls, BeginRedeem(r, f) PROVE TypeOK'
    BY <2>1 DEF BeginRedeem, Step, TypeOK, Waiting
  <2>2. ASSUME NEW f \in Forms \cap TokenCalls, BeginTokenCall(r, f) PROVE TypeOK'
    BY <2>2 DEF BeginTokenCall, Step, TypeOK, Waiting, TokenUsable
  <2> QED  BY <1>3, <2>1, <2>2 DEF Begin
<1>4. ASSUME NEW r \in Requests, Advance(r) PROVE TypeOK'
  <2>1. CASE Refuse(r)
    BY <2>1 DEF Refuse, End, TypeOK, Ended
  <2>2. CASE Consume(r)
    <3>1. call[r].code \in DOMAIN codes /\ codes[call[r].code] \in CodeRows
      BY <2>2 DEF Consume, Consumable, TypeOK, IsTable
    <3>2. IsTable(codes', Codes, CodeRows)
      BY <2>2, <3>1 DEF Consume, TypeOK, CodeRows, IsTable
    <3>3. rec' \in [Requests -> Grants \cup {NoGrant}]
      BY <2>2, <3>1 DEF Consume, TypeOK, CodeRows
    <3>4. /\ pc' \in [Requests -> {"idle"} \cup Waiting \cup Ended]
          /\ at' \in [Requests -> Nat]
          /\ answer' \in [Requests -> {"none", "refused", "burned", "token", "profile",
                                       "active", "inactive", "revoked", "error"}]
      BY <2>2 DEF Consume, End, TypeOK, Waiting, Ended
    <3> QED  BY <2>2, <3>2, <3>3, <3>4 DEF Consume, TypeOK
  <2>3. CASE ConsumeFails(r)
    <3>1. IsTable(codes', Codes, CodeRows)
      <4>1. CASE UNCHANGED codes
        BY <4>1 DEF TypeOK
      <4>2. CASE /\ call[r].code \in DOMAIN codes
                 /\ codes' = [codes EXCEPT ![call[r].code].used = TRUE]
        BY <4>2 DEF TypeOK, CodeRows, IsTable
      <4> QED  BY <2>3, <4>1, <4>2 DEF ConsumeFails, Consumable
    <3> QED  BY <2>3, <3>1 DEF ConsumeFails, Fault, End, TypeOK, Ended
  <2>4. ASSUME pc[r] = "mint", NEW t \in Tokens, InsertToken(r, t)
        PROVE  IsTable(tokens', Tokens, TokenRows) /\ IsTable(minted', Tokens, Requests)
    <3>1. rec[r] \in Grants /\ at[r] \in Nat
      BY <2>4 DEF CallShape, Redeemed, TypeOK
    <3>2. PICK reading \in at[r]..now : tokens' = Insert(tokens, t, TokenRow(rec[r], reading))
      BY <2>4 DEF InsertToken
    <3>3. TokenRow(rec[r], reading) \in TokenRows
      BY <3>1, TokenRowType
    <3> QED  BY <2>4, <3>2, <3>3, InsertTable DEF InsertToken, TypeOK
  <2>5. CASE MintFails(r)
    <3>1. CASE UNCHANGED tables
      BY <2>5, <3>1 DEF MintFails, Fault, End, TypeOK, Ended
    <3>2. CASE \E t \in Tokens : InsertToken(r, t)
      BY <2>5, <3>2, <2>4 DEF MintFails, InsertToken, Fault, End, TypeOK, Ended
    <3> QED  BY <2>5, <3>1, <3>2 DEF MintFails
  <2>6. ASSUME NEW t \in Tokens, Mint(r, t) PROVE TypeOK'
    BY <2>6, <2>4 DEF Mint, InsertToken, End, TypeOK, Ended
  <2>7. CASE Introspect(r)
    BY <2>7 DEF Introspect, End, TypeOK, Ended
  <2>8. CASE LookupFails(r)
    BY <2>8 DEF LookupFails, Fault, End, TypeOK, Ended
  <2>9. CASE Revoke(r)
    <3>1. IsTable(tokens', Tokens, TokenRows)
      BY <2>9, RevokedTable DEF Revoke
    <3> QED  BY <2>9, <3>1 DEF Revoke, End, TypeOK, Ended
  <2>10. CASE RevokeFails(r)
    <3>1. IsTable(tokens', Tokens, TokenRows)
      BY <2>10, RevokedTable DEF RevokeFails, TypeOK
    <3> QED  BY <2>10, <3>1 DEF RevokeFails, Fault, End, TypeOK, Ended
  <2> QED  BY <1>4, <2>1, <2>2, <2>3, <2>5, <2>6, <2>7, <2>8, <2>9, <2>10 DEF Advance
<1>5. CASE CleanupBegin
  BY <1>5, UnixNat DEF CleanupBegin, TypeOK
<1>6. CASE CleanupCodes
  BY <1>6, DeleteTable DEF CleanupCodes, TypeOK
<1>7. CASE CleanupTokens
  BY <1>7, DeleteTable DEF CleanupTokens, Idle, TypeOK
<1>8. CASE CleanupFails
  BY <1>8 DEF CleanupFails, Fault, Idle, TypeOK
<1>9. CASE Crash
  <2>1. Unix(now) \in Nat
    BY UnixNat DEF TypeOK
  <2>2. pc' \in [Requests -> {"idle"} \cup Waiting \cup Ended]
    BY <1>9 DEF Crash, TypeOK, Ended
  <2>3. cleaner' \in [step : {"idle", "codes", "tokens"}, cutoff : Nat]
    BY <1>9, <2>1 DEF Crash
  <2>4. at' \in [Requests -> Nat] /\ faults' \in Nat
    BY <1>9 DEF Crash, Fault, TypeOK
  <2>5. up' \in BOOLEAN
    BY <1>9 DEF Crash
  <2> QED  BY <1>9, <2>2, <2>3, <2>4, <2>5 DEF Crash, TypeOK
<1>10. CASE Listen
  BY <1>10 DEF Listen, TypeOK
<1>11. CASE UNCHANGED vars
  BY <1>11 DEF TypeOK
<1> QED
  BY <1>1, <1>2, <1>3, <1>4, <1>5, <1>6, <1>7, <1>8, <1>9, <1>10, <1>11 DEF Next, Issue, Clean

-----------------------------------------------------------------------------

\* The strengthened invariant holds when nothing was issued yet.
LEMMA OnceInit == Init => OnceInv
<1>1. Init => CallShape /\ SpentForGood /\ CodeRedeemedOnce
  BY DEF Init, CallShape, SpentForGood, CodeRedeemedOnce, Redeemed
<1>2. Init => CodesAreIssued
  BY DEF Init, CodesAreIssued
<1> QED  BY <1>1, <1>2, TypeInit DEF OnceInv

(***************************************************************************)
(* A step other than Consume leaves what requests redeemed alone, so it is *)
(* enough that it keeps a used row used and forgets no issued code.        *)
(***************************************************************************)
LEMMA UsedStaysUsed ==
    ASSUME OnceInv, rec' = rec,
           \A r \in Requests : Redeemed(r) => call'[r] = call[r],
           DOMAIN issued \subseteq DOMAIN issued',
           \A c \in DOMAIN codes' \cap DOMAIN issued :
              c \in DOMAIN codes /\ (codes[c].used => codes'[c].used)
    PROVE  SpentForGood' /\ CodeRedeemedOnce'
<1>1. \A r \in Requests : Redeemed(r)' <=> Redeemed(r)
  BY DEF Redeemed
<1>2. SpentForGood'
  BY <1>1 DEF OnceInv, SpentForGood
<1>3. CodeRedeemedOnce'
  BY <1>1 DEF OnceInv, CodeRedeemedOnce
<1> QED  BY <1>2, <1>3

\* Every step keeps the strengthened invariant.  Consume is the only one that makes a
\* request redeem: it needs an unused row, which by SpentForGood nobody redeemed.
LEMMA OnceNext == OnceInv /\ [Next]_vars => OnceInv'
<1> SUFFICES ASSUME OnceInv, [Next]_vars PROVE OnceInv'
  OBVIOUS
<1>t. TypeOK'
  BY TypeNext DEF OnceInv
<1> USE DEF vars, tables, local, process
<1>1. CASE UNCHANGED <<codes, issued, call, pc, rec>>
  <2>1. SpentForGood' /\ CodeRedeemedOnce'
    BY <1>1, UsedStaysUsed DEF OnceInv, CodesAreIssued
  <2>2. CallShape' /\ CodesAreIssued'
    BY <1>1 DEF OnceInv, CallShape, CodesAreIssued, Redeemed
  <2> QED  BY <1>t, <2>1, <2>2 DEF OnceInv
<1>2. ASSUME NEW c \in Codes, NEW g \in Grants, NEW t \in 0..now, IssueCode(c, g, t)
      PROVE  OnceInv'
  <2>1. /\ DOMAIN issued' = DOMAIN issued \cup {c} /\ DOMAIN codes' = DOMAIN codes \cup {c}
        /\ \A d \in DOMAIN codes \ {c} : codes'[d] = codes[d]
        /\ c \notin DOMAIN issued
        /\ UNCHANGED <<pc, call, rec>>
    BY <1>2 DEF IssueCode, Insert
  <2>2. SpentForGood' /\ CodeRedeemedOnce'
    BY <2>1, UsedStaysUsed DEF OnceInv, CodesAreIssued
  <2>3. CallShape' /\ CodesAreIssued'
    BY <2>1 DEF OnceInv, CallShape, CodesAreIssued, Redeemed
  <2> QED  BY <1>t, <2>2, <2>3 DEF OnceInv
<1>3. ASSUME NEW r \in Requests, Begin(r) PROVE OnceInv'
  <2>1. /\ UNCHANGED <<codes, issued, rec>>
        /\ ~Redeemed(r)
        /\ \A q \in Requests \ {r} : call'[q] = call[q] /\ pc'[q] = pc[q]
        /\ \/ pc'[r] = "consume" /\ call'[r] \in RedeemCalls
           \/ pc'[r] \in {"lookup", "revoke"} /\ call'[r] \in TokenCalls
    BY <1>3 DEF Begin, BeginRedeem, BeginTokenCall, Step, OnceInv, CallShape, TypeOK
  <2>2. SpentForGood' /\ CodeRedeemedOnce'
    BY <2>1, UsedStaysUsed DEF OnceInv, CodesAreIssued
  <2>3. CallShape' /\ CodesAreIssued'
    BY <2>1 DEF OnceInv, CallShape, CodesAreIssued, Redeemed
  <2> QED  BY <1>t, <2>2, <2>3 DEF OnceInv
<1>4. ASSUME NEW r \in Requests, Consume(r) PROVE OnceInv'
  <2> DEFINE c == call[r].code
  <2>1. /\ c \in DOMAIN codes /\ ~codes[c].used /\ c \in DOMAIN issued
        /\ codes[c] \in CodeRows /\ call[r] \in RedeemCalls
    BY <1>4 DEF Consume, Consumable, OnceInv, CodesAreIssued, CallShape, TypeOK, IsTable
  <2>2. /\ DOMAIN codes' = DOMAIN codes /\ codes'[c].used
        /\ \A d \in DOMAIN codes \ {c} : codes'[d] = codes[d]
        /\ UNCHANGED <<issued, call>>
    BY <1>4, <2>1 DEF Consume, CodeRows
  <2>3. /\ Redeemed(r)' /\ pc'[r] \in {"mint", "done"}
        /\ \A q \in Requests \ {r} : rec'[q] = rec[q] /\ pc'[q] = pc[q]
    BY <1>4, <2>1, GrantAssumption DEF Consume, End, Redeemed, CodeRows, OnceInv, TypeOK
  <2>4. \A q \in Requests \ {r} : Redeemed(q)' <=> Redeemed(q)
    BY <2>3 DEF Redeemed
  <2>5. \A q \in Requests : Redeemed(q) => call[q].code # c
    BY <2>1 DEF OnceInv, SpentForGood
  <2>6. CodeRedeemedOnce'
    BY <2>2, <2>4, <2>5 DEF OnceInv, CodeRedeemedOnce
  <2>7. SpentForGood'
    BY <2>1, <2>2, <2>4, <2>5 DEF OnceInv, SpentForGood
  <2>8. CallShape' /\ CodesAreIssued'
    BY <2>1, <2>2, <2>3, <2>4 DEF OnceInv, CallShape, CodesAreIssued
  <2> QED  BY <1>t, <2>6, <2>7, <2>8 DEF OnceInv
<1>5. ASSUME NEW r \in Requests, pc' = [pc EXCEPT ![r] = "done"], UNCHANGED <<issued, call, rec>>,
             pc[r] # "idle", DOMAIN codes' = DOMAIN codes,
             \A c \in DOMAIN codes : codes[c].used => codes'[c].used
      PROVE  OnceInv'
  <2>1. SpentForGood' /\ CodeRedeemedOnce'
    BY <1>5, UsedStaysUsed DEF OnceInv, CodesAreIssued
  <2>2. CallShape' /\ CodesAreIssued'
    BY <1>5 DEF OnceInv, CallShape, CodesAreIssued, Redeemed, TypeOK
  <2> QED  BY <1>t, <2>1, <2>2 DEF OnceInv
<1>6. ASSUME NEW r \in Requests, Advance(r) PROVE OnceInv'
  <2>1. CASE ConsumeFails(r)
    <3>1. CASE UNCHANGED codes
      BY <2>1, <3>1, <1>5 DEF ConsumeFails, End
    <3>2. CASE codes' = [codes EXCEPT ![call[r].code].used = TRUE] /\ call[r].code \in DOMAIN codes
      <4>1. codes[call[r].code] \in CodeRows
        BY <3>2 DEF OnceInv, TypeOK, IsTable
      <4>2. /\ DOMAIN codes' = DOMAIN codes
            /\ \A c \in DOMAIN codes : codes[c].used => codes'[c].used
        BY <3>2, <4>1 DEF CodeRows
      <4> QED  BY <2>1, <4>2, <1>5 DEF ConsumeFails, End
    <3> QED  BY <2>1, <3>1, <3>2 DEF ConsumeFails, Consumable
  <2> QED
    BY <1>4, <1>5, <1>6, <2>1 DEF Advance, Refuse, MintFails, Mint, InsertToken,
       Introspect, LookupFails, Revoke, RevokeFails, End
<1>7. CASE CleanupCodes
  <2>1. /\ DOMAIN codes' \subseteq DOMAIN codes
        /\ \A c \in DOMAIN codes' : codes'[c] = codes[c]
        /\ UNCHANGED <<issued, call, rec, pc>>
    BY <1>7 DEF CleanupCodes, Delete
  <2>2. SpentForGood' /\ CodeRedeemedOnce'
    BY <2>1, UsedStaysUsed DEF OnceInv, CodesAreIssued
  <2>3. CallShape' /\ CodesAreIssued'
    BY <2>1 DEF OnceInv, CallShape, CodesAreIssued, Redeemed
  <2> QED  BY <1>t, <2>2, <2>3 DEF OnceInv
<1>8. CASE Crash
  <2>1. /\ UNCHANGED <<codes, issued, call, rec>>
        /\ \A q \in Requests : pc'[q] = pc[q] \/ pc'[q] = "lost"
    BY <1>8 DEF Crash
  <2>2. SpentForGood' /\ CodeRedeemedOnce'
    BY <2>1, UsedStaysUsed DEF OnceInv, CodesAreIssued
  <2>3. CallShape' /\ CodesAreIssued'
    BY <2>1 DEF OnceInv, CallShape, CodesAreIssued, Redeemed
  <2> QED  BY <1>t, <2>2, <2>3 DEF OnceInv
<1> QED
  BY <1>1, <1>2, <1>3, <1>6, <1>7, <1>8
     DEF Next, Issue, Tick, CleanupBegin, Clean, CleanupTokens, CleanupFails, Listen

-----------------------------------------------------------------------------

\* So it holds in every behaviour of the endpoints.
LEMMA OnceInvariant == Spec => []OnceInv
BY OnceInit, OnceNext, PTL DEF Spec

\* Type correctness of the endpoints' state, for every behaviour.
THEOREM TypeCorrect == Spec => []TypeOK
<1>1. OnceInv => TypeOK
  BY DEF OnceInv
<1> QED  BY <1>1, OnceInvariant, PTL

\* However many requests present a code, at whichever endpoint, across cleanups,
\* store failures and restarts, at most one consumes it.
THEOREM OneRedemption == Spec => []CodeRedeemedOnce
<1>1. OnceInv => CodeRedeemedOnce
  BY DEF OnceInv
<1> QED  BY <1>1, OnceInvariant, PTL

-----------------------------------------------------------------------------
(***************************************************************************)
(* Where tokens come from.  A token is traced to the request that inserted *)
(* it, from there to the grant that request holds, and from there to what  *)
(* its code was issued for.                                                *)
(***************************************************************************)
RowsSayGrant == \A c \in DOMAIN codes : codes[c].grant = issued[c].grant

HeldIsIssued == \A r \in Requests : Redeemed(r) => rec[r] = issued[call[r].code].grant

Passed(r) == call[r].endpoint = "token" /\ Accepts(call[r], rec[r])

MintingPassed == \A r \in Requests : pc[r] = "mint" => Passed(r)

Says(t) ==
    LET r == minted[t]
    IN  t \in DOMAIN tokens =>
          tokens[t].me = rec[r].me /\ tokens[t].client = rec[r].client /\ tokens[t].scope = rec[r].scope

MintedPassed ==
    \A t \in DOMAIN minted : Redeemed(minted[t]) /\ Passed(minted[t]) /\ Says(t)

MintedOnce ==
    /\ \A t \in DOMAIN minted : pc[minted[t]] \notin {"idle", "mint"}
    /\ \A t, u \in DOMAIN minted : minted[t] = minted[u] => t = u

MintInv ==
    /\ RowsSayGrant
    /\ HeldIsIssued
    /\ MintingPassed
    /\ MintedPassed
    /\ MintedOnce

\* Without codes, requests and tokens there is nothing to trace.
LEMMA MintInit == Init => MintInv
BY DEF Init, MintInv, RowsSayGrant, HeldIsIssued, MintingPassed, MintedPassed, MintedOnce,
   Redeemed, Empty

(***************************************************************************)
(* A step that redeems and inserts nothing keeps the trace: it does not    *)
(* change the forms of requests that redeemed, the grants of rows, or what *)
(* the remaining tokens say.                                               *)
(***************************************************************************)
LEMMA TraceKept ==
    ASSUME OnceInv, MintInv, UNCHANGED <<rec, minted>>,
           \A r \in Requests : Redeemed(r) => call'[r] = call[r],
           \A r \in Requests : pc'[r] = pc[r] \/ (pc'[r] \notin {"idle", "mint"}),
           \A c \in DOMAIN issued : c \in DOMAIN issued' /\ issued'[c] = issued[c],
           \A c \in DOMAIN codes' : codes'[c].grant = issued'[c].grant,
           \A t \in DOMAIN tokens' :
              /\ t \in DOMAIN tokens
              /\ tokens'[t].me = tokens[t].me
              /\ tokens'[t].client = tokens[t].client
              /\ tokens'[t].scope = tokens[t].scope
    PROVE  MintInv'
<1>1. \A r \in Requests : Redeemed(r)' <=> Redeemed(r)
  BY DEF Redeemed
<1>2. RowsSayGrant'
  BY DEF RowsSayGrant
<1>3. HeldIsIssued'
  BY <1>1 DEF MintInv, HeldIsIssued, OnceInv, SpentForGood
<1>4. \A r \in Requests : Redeemed(r) /\ Passed(r) => Passed(r)'
  BY DEF Passed, Accepts, ClientMatches, TokenPKCE, ProfilePKCE, VerifyPKCES256
<1>5. MintingPassed'
  BY <1>4 DEF MintInv, MintingPassed, OnceInv, CallShape
<1>6. \A t \in DOMAIN minted : minted[t] \in Requests
  BY DEF OnceInv, TypeOK, IsTable
<1>7. \A t \in DOMAIN minted : Says(t) => Says(t)'
  BY DEF Says
<1>8. MintedPassed'
  BY <1>1, <1>4, <1>6, <1>7 DEF MintInv, MintedPassed
<1>9. MintedOnce'
  BY <1>6 DEF MintInv, MintedOnce
<1> QED  BY <1>2, <1>3, <1>5, <1>8, <1>9 DEF MintInv

(***************************************************************************)
(* Every step keeps the trace.  Consume starts it: the grant it takes is   *)
(* that of the row, which is the one issued, and it goes on to the insert  *)
(* only if the checks pass.  An insert continues it, and the request never *)
(* comes back to insert again.                                             *)
(***************************************************************************)
LEMMA MintNext == OnceInv /\ MintInv /\ [Next]_vars => MintInv'
<1> SUFFICES ASSUME OnceInv, MintInv, [Next]_vars PROVE MintInv'
  OBVIOUS
<1> USE DEF vars, tables, local, process
<1>1. CASE UNCHANGED <<codes, tokens, issued, minted, call, pc, rec>>
  BY <1>1, TraceKept DEF MintInv, RowsSayGrant
<1>2. ASSUME NEW c \in Codes, NEW g \in Grants, NEW t \in 0..now, IssueCode(c, g, t)
      PROVE  MintInv'
  <2>1. /\ \A d \in DOMAIN issued : d \in DOMAIN issued' /\ issued'[d] = issued[d]
        /\ \A d \in DOMAIN codes' : codes'[d].grant = issued'[d].grant
        /\ UNCHANGED <<tokens, minted, pc, call, rec>>
    BY <1>2 DEF IssueCode, Insert, MintInv, RowsSayGrant, OnceInv, CodesAreIssued
  <2> QED  BY <2>1, TraceKept
<1>3. ASSUME NEW r \in Requests, Begin(r) PROVE MintInv'
  <2>1. /\ UNCHANGED <<codes, tokens, issued, minted, rec>>
        /\ ~Redeemed(r)
        /\ \A q \in Requests \ {r} : call'[q] = call[q] /\ pc'[q] = pc[q]
        /\ pc'[r] \in {"consume", "lookup", "revoke"}
    BY <1>3 DEF Begin, BeginRedeem, BeginTokenCall, Step, OnceInv, CallShape, TypeOK
  <2> QED  BY <2>1, TraceKept DEF MintInv, RowsSayGrant
<1>4. ASSUME NEW r \in Requests, Consume(r) PROVE MintInv'
  <2> DEFINE c == call[r].code
  <2>1. /\ c \in DOMAIN codes /\ codes[c] \in CodeRows /\ ~Redeemed(r)
        /\ codes[c].grant = issued[c].grant
    BY <1>4 DEF Consume, Consumable, OnceInv, CallShape, TypeOK, IsTable, MintInv, RowsSayGrant
  <2>2. /\ DOMAIN codes' = DOMAIN codes
        /\ \A d \in DOMAIN codes : codes'[d].grant = codes[d].grant
        /\ UNCHANGED <<tokens, issued, minted, call>>
    BY <1>4, <2>1 DEF Consume, CodeRows
  <2>3. /\ rec'[r] = issued[c].grant
        /\ \A q \in Requests \ {r} : rec'[q] = rec[q] /\ pc'[q] = pc[q]
        /\ pc'[r] \in {"mint", "done"}
        /\ pc'[r] = "mint" => call[r].endpoint = "token" /\ Accepts(call[r], rec'[r])
    BY <1>4, <2>1 DEF Consume, End, OnceInv, TypeOK
  <2>4. \A t \in DOMAIN minted : minted[t] \in Requests \ {r}
    BY <2>1 DEF MintInv, MintedPassed, OnceInv, TypeOK, IsTable
  <2>5. \A q \in Requests \ {r} : (Redeemed(q)' <=> Redeemed(q)) /\ (Passed(q)' <=> Passed(q))
    BY <2>2, <2>3 DEF Redeemed, Passed, Accepts, ClientMatches, TokenPKCE, ProfilePKCE, VerifyPKCES256
  <2>6. RowsSayGrant'
    BY <2>2 DEF MintInv, RowsSayGrant
  <2>7. HeldIsIssued'
    BY <2>2, <2>3, <2>5 DEF MintInv, HeldIsIssued
  <2>8. MintingPassed'
    BY <2>2, <2>3, <2>5 DEF MintInv, MintingPassed, Passed, Accepts, ClientMatches, TokenPKCE,
       ProfilePKCE, VerifyPKCES256
  <2>9. MintedPassed'
    BY <2>2, <2>3, <2>4, <2>5 DEF MintInv, MintedPassed, Says
  <2>10. MintedOnce'
    BY <2>2, <2>3, <2>4 DEF MintInv, MintedOnce
  <2> QED  BY <2>6, <2>7, <2>8, <2>9, <2>10 DEF MintInv
<1>5. ASSUME NEW r \in Requests, NEW t \in Tokens, pc[r] = "mint", InsertToken(r, t),
             pc' = [pc EXCEPT ![r] = "done"], UNCHANGED <<call, rec>>
      PROVE  MintInv'
  <2>1. Redeemed(r) /\ Passed(r) /\ t \notin DOMAIN minted
    BY <1>5 DEF OnceInv, CallShape, MintInv, MintingPassed, InsertToken
  <2>2. /\ DOMAIN minted' = DOMAIN minted \cup {t} /\ minted'[t] = r
        /\ \A u \in DOMAIN minted : minted'[u] = minted[u]
        /\ UNCHANGED <<codes, issued>>
        /\ tokens'[t].me = rec[r].me
        /\ tokens'[t].client = rec[r].client
        /\ tokens'[t].scope = rec[r].scope
        /\ \A u \in DOMAIN minted : u \in DOMAIN tokens' => u \in DOMAIN tokens /\ tokens'[u] = tokens[u]
    <3>1. PICK reading \in at[r]..now : tokens' = Insert(tokens, t, TokenRow(rec[r], reading))
      BY <1>5 DEF InsertToken
    <3> QED  BY <1>5, <2>1, <3>1 DEF InsertToken, Insert, TokenRow
  <2>3. \A u \in DOMAIN minted : minted[u] \in Requests \ {r}
    BY <1>5 DEF MintInv, MintedOnce, OnceInv, TypeOK, IsTable
  <2>4. pc'[r] = "done" /\ \A q \in Requests \ {r} : pc'[q] = pc[q]
    BY <1>5 DEF OnceInv, TypeOK
  <2>5. \A q \in Requests : (Redeemed(q)' <=> Redeemed(q)) /\ (Passed(q)' <=> Passed(q))
    BY <1>5 DEF Redeemed, Passed, Accepts, ClientMatches, TokenPKCE, ProfilePKCE, VerifyPKCES256
  <2>6. RowsSayGrant' /\ HeldIsIssued'
    BY <1>5, <2>2, <2>5 DEF MintInv, RowsSayGrant, HeldIsIssued
  <2>7. MintingPassed'
    BY <2>4, <2>5 DEF MintInv, MintingPassed
  <2>8. MintedPassed'
    <3>1. Says(t)'
      BY <1>5, <2>2 DEF Says
    <3>2. \A u \in DOMAIN minted : Says(u) => Says(u)'
      BY <1>5, <2>2 DEF Says
    <3> QED  BY <2>1, <2>2, <2>3, <2>5, <3>1, <3>2 DEF MintInv, MintedPassed
  <2>9. MintedOnce'
    BY <2>2, <2>3, <2>4 DEF MintInv, MintedOnce
  <2> QED  BY <2>6, <2>7, <2>8, <2>9 DEF MintInv
<1>6. ASSUME NEW r \in Requests, pc' = [pc EXCEPT ![r] = "done"], pc[r] # "idle",
             UNCHANGED <<issued, minted, call, rec>>,
             \A c \in DOMAIN codes' : c \in DOMAIN codes /\ codes'[c].grant = codes[c].grant,
             tokens' = tokens \/ \E t : tokens' = RevokeRow(t)
      PROVE  MintInv'
  <2>1. \A t \in DOMAIN tokens' :
           /\ t \in DOMAIN tokens
           /\ tokens'[t].me = tokens[t].me
           /\ tokens'[t].client = tokens[t].client
           /\ tokens'[t].scope = tokens[t].scope
    <3>1. \A t \in DOMAIN tokens : tokens[t] \in TokenRows
      BY DEF OnceInv, TypeOK, IsTable
    <3> QED  BY <1>6, <3>1 DEF RevokeRow, TokenRows
  <2>2. \A q \in Requests : pc'[q] = pc[q] \/ pc'[q] = "done"
    BY <1>6 DEF OnceInv, TypeOK
  <2> QED  BY <1>6, <2>1, <2>2, TraceKept DEF MintInv, RowsSayGrant
<1>7. ASSUME NEW r \in Requests, Advance(r) PROVE MintInv'
  <2>1. CASE ConsumeFails(r)
    <3>1. \A c \in DOMAIN codes' : c \in DOMAIN codes /\ codes'[c].grant = codes[c].grant
      <4>1. \A c \in DOMAIN codes : codes[c] \in CodeRows
        BY DEF OnceInv, TypeOK, IsTable
      <4> QED  BY <2>1, <4>1 DEF ConsumeFails, Consumable, CodeRows
    <3> QED  BY <2>1, <3>1, <1>6 DEF ConsumeFails, End
  <2>2. CASE MintFails(r)
    <3>1. CASE UNCHANGED tables
      BY <2>2, <3>1, <1>6 DEF MintFails, End
    <3>2. CASE \E t \in Tokens : InsertToken(r, t)
      BY <2>2, <3>2, <1>5 DEF MintFails, End
    <3> QED  BY <2>2, <3>1, <3>2 DEF MintFails
  <2>3. ASSUME NEW t \in Tokens, Mint(r, t) PROVE MintInv'
    BY <2>3, <1>5 DEF Mint, End
  <2>4. CASE Refuse(r) \/ Introspect(r) \/ LookupFails(r) \/ Revoke(r) \/ RevokeFails(r)
    BY <2>4, <1>6 DEF Refuse, Introspect, LookupFails, Revoke, RevokeFails, End
  <2> QED  BY <1>4, <1>7, <2>1, <2>2, <2>3, <2>4 DEF Advance
<1>8. CASE CleanupCodes \/ CleanupTokens
  <2>1. /\ \A c \in DOMAIN codes' : c \in DOMAIN codes /\ codes'[c] = codes[c]
        /\ \A t \in DOMAIN tokens' : t \in DOMAIN tokens /\ tokens'[t] = tokens[t]
        /\ UNCHANGED <<issued, minted, pc, call, rec>>
    BY <1>8 DEF CleanupCodes, CleanupTokens, Delete
  <2> QED  BY <2>1, TraceKept DEF MintInv, RowsSayGrant
<1>9. CASE Crash
  <2>1. /\ UNCHANGED <<codes, tokens, issued, minted, call, rec>>
        /\ \A q \in Requests : pc'[q] = pc[q] \/ pc'[q] = "lost"
    BY <1>9 DEF Crash
  <2> QED  BY <2>1, TraceKept DEF MintInv, RowsSayGrant
<1> QED
  BY <1>1, <1>2, <1>3, <1>7, <1>8, <1>9
     DEF Next, Issue, Tick, CleanupBegin, Clean, CleanupFails, Listen

\* So it holds in every behaviour, beside OnceInv.
LEMMA MintInvariant == Spec => [](OnceInv /\ MintInv)
<1>1. Init => OnceInv /\ MintInv
  BY OnceInit, MintInit
<1>2. OnceInv /\ MintInv /\ [Next]_vars => (OnceInv /\ MintInv)'
  BY OnceNext, MintNext
<1> QED  BY <1>1, <1>2, PTL DEF Spec

\* A token inserted for a request that passed the checks for its client, whether the
\* insert was reported as done or as failed, says what the code was issued for; and
\* since a code is redeemed once and a request inserts once, it is the code's only one.
THEOREM TokensAreBacked == Spec => []TokenBacked
<1>1. OnceInv /\ MintInv => TokenBacked
  <2> SUFFICES ASSUME OnceInv, MintInv PROVE TokenBacked
    OBVIOUS
  <2>1. \A t \in DOMAIN minted : minted[t] \in Requests
    BY DEF OnceInv, TypeOK, IsTable
  <2>2. ASSUME NEW t \in DOMAIN minted
        PROVE  LET r == minted[t]
                   g == issued[call[r].code].grant
               IN  /\ call[r].endpoint = "token"
                   /\ g.client = call[r].client
                   /\ g.redirect = call[r].redirect
                   /\ t \in DOMAIN tokens =>
                        /\ tokens[t].me = g.me
                        /\ tokens[t].client = g.client
                        /\ tokens[t].scope = g.scope
    BY <2>1, <2>2 DEF MintInv, MintedPassed, Passed, Says, Accepts, ClientMatches, HeldIsIssued
  <2>3. ASSUME NEW t \in DOMAIN minted, NEW u \in DOMAIN minted,
               call[minted[t]].code = call[minted[u]].code
        PROVE  t = u
    <3>1. minted[t] = minted[u]
      BY <2>1, <2>3 DEF MintInv, MintedPassed, OnceInv, CodeRedeemedOnce
    <3> QED  BY <3>1 DEF MintInv, MintedOnce
  <2> QED  BY <2>2, <2>3 DEF TokenBacked
<1> QED  BY <1>1, MintInvariant, PTL

\* No token without the verifier of its code's challenge, and with RequirePKCE none at
\* all for a code without a challenge.
THEOREM TokensProvePKCE == Spec => []TokenProvesPKCE
<1>1. OnceInv /\ MintInv => TokenProvesPKCE
  <2> SUFFICES ASSUME OnceInv, MintInv, NEW t \in DOMAIN minted
               PROVE  LET r == minted[t]
                          g == issued[call[r].code].grant
                      IN  /\ RequirePKCE => g.challenge # NoChallenge
                          /\ g.challenge # NoChallenge =>
                               call[r].verifier \in Verifiers /\ S256[call[r].verifier] = g.challenge
    BY DEF TokenProvesPKCE
  <2> DEFINE r == minted[t]
  <2>1. r \in Requests /\ Redeemed(r) /\ Passed(r)
    BY DEF OnceInv, TypeOK, IsTable, MintInv, MintedPassed
  <2>2. call[r] \in RedeemCalls /\ rec[r] = issued[call[r].code].grant
    BY <2>1 DEF OnceInv, CallShape, MintInv, HeldIsIssued
  <2>3. call[r].verifier \in Verifiers \cup {NoVerifier}
    BY <2>2 DEF RedeemCalls
  <2>4. TokenPKCE(call[r], rec[r])
    BY <2>1 DEF Passed, Accepts
  <2> QED  BY <2>2, <2>3, <2>4 DEF TokenPKCE, VerifyPKCES256
<1> QED  BY <1>1, MintInvariant, PTL
=============================================================================
