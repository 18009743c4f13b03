--------------------------- MODULE TokenEndpoint ---------------------------
(***************************************************************************)
(* The life of authorization codes and access tokens: POST /token,         *)
(* POST /authorize (profile redemption), POST /introspect and POST         *)
(* /revoke of internal/http/server.go, over the authorization_codes and    *)
(* access_tokens tables of internal/storage/sqlite.go, with the cleanup of *)
(* cmd/indieauth-bridge/main.go and restarts of the process.               *)
(*                                                                         *)
(* A request is a process of its own (one goroutine per HTTP request) and  *)
(* takes one step per store call; requests interleave between the steps.   *)
(* Each member of Requests is used for one request, so that a finished one *)
(* records what it was answered.  The clock is read before the store is    *)
(* reached, so a reading may be stale when it is compared with a row.      *)
(***************************************************************************)
EXTENDS Store, FiniteSets

CONSTANTS
    Codes, Tokens,      \* values security.RandomToken may return, never twice
    Requests,
    Grants, NoGrant,    \* what a code stands for: see GrantAssumption
    Clients, Redirects,
    Verifiers, NoVerifier, Challenges, NoChallenge,
    S256,               \* SHA-256 of a verifier, as a challenge
    RequirePKCE,        \* cfg.Security.RequirePKCE
    CodeTTL, AccessTokenTTL,
    Forms,              \* the requests that the clients of this instance send
    MaxTime, MaxFaults  \* bounds on the clock and on store failures and crashes

ASSUME GrantAssumption ==
    /\ \A g \in Grants : /\ g = [me |-> g.me, client |-> g.client, redirect |-> g.redirect,
                                scope |-> g.scope, challenge |-> g.challenge]
                         /\ g.challenge \in Challenges \cup {NoChallenge}
    /\ NoGrant \notin Grants
    /\ NoChallenge \notin Challenges
    /\ NoVerifier \notin Verifiers
    /\ S256 \in [Verifiers -> Challenges]

ASSUME ConfigAssumption ==
    /\ RequirePKCE \in BOOLEAN
    /\ CodeTTL \in Nat \ {0}
    /\ AccessTokenTTL \in Nat \ {0}
    /\ MaxTime \in Nat
    /\ MaxFaults \in Nat

VARIABLES
    now,        \* the wall clock, in ticks
    codes,      \* table authorization_codes
    tokens,     \* table access_tokens
    issued,     \* history: every code ever inserted, with the reading it was issued at
    minted,     \* history: every token ever inserted, with the request that made it
    pc, call,   \* each request: its next step and its form
    at,         \* each request: its clock reading; before a mint, when it consumed
    rec,        \* each request: the row ConsumeAuthorizationCode returned
    answer,     \* each request: how it ended
    known,      \* history: was the token active when the request began
    cleaner,    \* Cleanup: next statement and cutoff
    up,         \* is the server listening
    faults      \* store failures and crashes so far

tables  == <<codes, tokens, issued, minted>>
local   == <<pc, call, at, rec, answer, known>>
process == <<cleaner, up, faults>>
vars    == <<now, tables, local, process>>

RedeemEndpoints == {"token", "profile"}
TokenEndpoints  == {"introspect", "revoke"}

RedeemCalls ==
    [endpoint : RedeemEndpoints, code : Codes, client : Clients,
     redirect : Redirects, verifier : Verifiers \cup {NoVerifier}]
TokenCalls == [endpoint : TokenEndpoints, token : Tokens]

ASSUME FormAssumption == Forms \subseteq RedeemCalls \cup TokenCalls

NoCall == [endpoint |-> "none"]

CodeRows  == [grant : Grants, expiresAt : Nat, used : BOOLEAN]
TokenRows == [me : {g.me : g \in Grants}, client : {g.client : g \in Grants},
              scope : {g.scope : g \in Grants}, expiresAt : Nat, revoked : BOOLEAN]

Waiting == {"consume", "mint", "lookup", "revoke"}
Ended   == {"done", "lost"}

Idle == [step |-> "idle", cutoff |-> 0]

(***************************************************************************)
(* One type invariant: tables are functions on the keys that have a row.   *)
(***************************************************************************)
TypeOK ==
    /\ now \in Nat
    /\ IsTable(codes, Codes, CodeRows)
    /\ IsTable(tokens, Tokens, TokenRows)
    /\ IsTable(issued, Codes, [grant : Grants, at : Nat])
    /\ IsTable(minted, Tokens, Requests)
    /\ pc \in [Requests -> {"idle"} \cup Waiting \cup Ended]
    /\ call \in [Requests -> RedeemCalls \cup TokenCalls \cup {NoCall}]
    /\ at \in [Requests -> Nat]
    /\ rec \in [Requests -> Grants \cup {NoGrant}]
    /\ answer \in [Requests -> {"none", "refused", "burned", "token", "profile",
                                "active", "inactive", "revoked", "error"}]
    /\ known \in [Requests -> BOOLEAN]
    /\ cleaner \in [step : {"idle", "codes", "tokens"}, cutoff : Nat]
    /\ up \in BOOLEAN
    /\ faults \in Nat

(***************************************************************************)
(* Initially the database is empty and the server listens.                 *)
(***************************************************************************)
Empty == [k \in {} |-> {}]

Init ==
    /\ now = 0
    /\ codes = Empty /\ tokens = Empty /\ issued = Empty /\ minted = Empty
    /\ pc = [r \in Requests |-> "idle"]
    /\ call = [r \in Requests |-> NoCall]
    /\ at = [r \in Requests |-> 0]
    /\ rec = [r \in Requests |-> NoGrant]
    /\ answer = [r \in Requests |-> "none"]
    /\ known = [r \in Requests |-> FALSE]
    /\ cleaner = Idle
    /\ up = TRUE
    /\ faults = 0

(***************************************************************************)
(* The checks the two redemption endpoints make on the row they consumed.  *)
(* They run in memory, after the row is marked used.                       *)
(***************************************************************************)
VerifyPKCES256(verifier, challenge) ==
    /\ verifier # NoVerifier
    /\ challenge # NoChallenge
    /\ S256[verifier] = challenge

ClientMatches(c, g) == g.client = c.client /\ g.redirect = c.redirect

\* Fault: the required-PKCE test is forgotten at the token endpoint.
TokenPKCE_Optional(c, g) ==
    g.challenge # NoChallenge => VerifyPKCES256(c.verifier, g.challenge)

TokenPKCE(c, g) ==
    /\ RequirePKCE => g.challenge # NoChallenge
    /\ g.challenge # NoChallenge => VerifyPKCES256(c.verifier, g.challenge)

ProfilePKCE(c, g) ==
    g.challenge # NoChallenge => VerifyPKCES256(c.verifier, g.challenge)

Accepts(c, g) ==
    /\ ClientMatches(c, g)
    /\ c.endpoint = "token" => TokenPKCE(c, g)
    /\ c.endpoint = "profile" => ProfilePKCE(c, g)

(***************************************************************************)
(* ConsumeAuthorizationCode and GetAccessToken.                            *)
(***************************************************************************)
\* Fault: the select does not look at used_at.
Consumable_IgnoresUse(c, t) == c \in DOMAIN codes /\ Live(t, codes[c])

Consumable(c, t) == c \in DOMAIN codes /\ ~codes[c].used /\ Live(t, codes[c])

\* Fault: revoked_at is not looked at.
Active_IgnoresRevocation(t, when) == t \in DOMAIN tokens /\ Live(when, tokens[t])

Active(t, when) == t \in DOMAIN tokens /\ ~tokens[t].revoked /\ Live(when, tokens[t])

TokenRow(g, t) ==
    [me |-> g.me, client |-> g.client, scope |-> g.scope,
     expiresAt |-> ExpiresAt(t, AccessTokenTTL), revoked |-> FALSE]

\* What a row is worth, for the properties: said again, not shared with the code.
CodeUsable(c, t) == c \in DOMAIN codes /\ ~codes[c].used /\ t < codes[c].expiresAt * Second

TokenUsable(t, when) ==
    t \in DOMAIN tokens /\ ~tokens[t].revoked /\ when < tokens[t].expiresAt * Second

(***************************************************************************)
(* The request ends with an answer; its clock reading is forgotten.        *)
(***************************************************************************)
End(r, a) ==
    /\ pc' = [pc EXCEPT ![r] = "done"]
    /\ at' = [at EXCEPT ![r] = 0]
    /\ answer' = [answer EXCEPT ![r] = a]

Step(r, from, to) ==
    /\ pc[r] = from
    /\ pc' = [pc EXCEPT ![r] = to]

Fault == faults < MaxFaults /\ faults' = faults + 1

-----------------------------------------------------------------------------

Tick ==
    /\ now < MaxTime
    /\ now' = now + 1
    /\ UNCHANGED <<tables, local, process>>

(***************************************************************************)
(* issueCodeAndRedirect, called by the callback and the consent handlers:  *)
(* a new code stands for a grant.  The reading t may lag behind the clock. *)
(***************************************************************************)
IssueCode(c, g, t) ==
    /\ up
    /\ c \notin DOMAIN issued
    /\ codes' = Insert(codes, c, [grant |-> g, expiresAt |-> ExpiresAt(t, CodeTTL), used |-> FALSE])
    /\ issued' = Insert(issued, c, [grant |-> g, at |-> t])
    /\ UNCHANGED <<now, tokens, minted, local, process>>

(***************************************************************************)
(* POST /token and POST /authorize: read the form and the clock.  A client *)
(* can only know a code that was issued.                                   *)
(***************************************************************************)
BeginRedeem(r, f) ==
    /\ up
    /\ f.code \in DOMAIN issued
    /\ Step(r, "idle", "consume")
    /\ call' = [call EXCEPT ![r] = f]
    /\ at' = [at EXCEPT ![r] = now]
    /\ UNCHANGED <<now, tables, rec, answer, known, process>>

\* Fault: a code without a row is not answered.
Refuse_NotMissing(r) ==
    /\ pc[r] = "consume"
    /\ call[r].code \in DOMAIN codes
    /\ ~Consumable(call[r].code, at[r])
    /\ End(r, "refused")
    /\ UNCHANGED <<now, tables, call, rec, known, process>>

\* The code is not found, used or expired: invalid_grant.
Refuse(r) ==
    /\ pc[r] = "consume"
    /\ ~Consumable(call[r].code, at[r])
    /\ End(r, "refused")
    /\ UNCHANGED <<now, tables, call, rec, known, process>>

(***************************************************************************)
(* The consuming transaction commits, then the checks decide: a mismatch   *)
(* is answered invalid_grant with the code burned; the profile endpoint is *)
(* done; the token endpoint goes on to insert, under a reading of its own  *)
(* that is taken at or after the commit, which at[r] keeps.                *)
(***************************************************************************)
Consume(r) ==
    LET c == call[r].code
        g == codes[c].grant
    IN  /\ pc[r] = "consume"
        /\ Consumable(c, at[r])
        /\ codes' = [codes EXCEPT ![c].used = TRUE]
        /\ rec' = [rec EXCEPT ![r] = g]
        /\ \/ /\ ~Accepts(call[r], g)
              /\ End(r, "burned")
           \/ /\ Accepts(call[r], g)
              /\ call[r].endpoint = "profile"
              /\ End(r, "profile")
           \/ /\ Accepts(call[r], g)
              /\ call[r].endpoint = "token"
              /\ pc' = [pc EXCEPT ![r] = "mint"]
              /\ at' = [at EXCEPT ![r] = now]
              /\ UNCHANGED answer
        /\ UNCHANGED <<now, tokens, issued, minted, call, known, process>>

\* CreateAccessToken with a new random token and a reading taken since the commit.
InsertToken(r, t) ==
    /\ t \notin DOMAIN minted
    /\ \E reading \in at[r]..now : tokens' = Insert(tokens, t, TokenRow(rec[r], reading))
    /\ minted' = Insert(minted, t, r)
    /\ UNCHANGED <<codes, issued>>

Mint(r, t) ==
    /\ pc[r] = "mint"
    /\ InsertToken(r, t)
    /\ End(r, "token")
    /\ UNCHANGED <<now, call, rec, known, process>>

(***************************************************************************)
(* POST /introspect and POST /revoke.  Revocation first reads the token,   *)
(* for the audit log only, then updates the row in a statement of its own. *)
(***************************************************************************)
\* A client learns a token only from the answer of the request that minted it.
Delivered(t) == t \in DOMAIN minted /\ answer[minted[t]] = "token"

BeginTokenCall(r, f) ==
    /\ up
    /\ Delivered(f.token)
    /\ Step(r, "idle", IF f.endpoint = "introspect" THEN "lookup" ELSE "revoke")
    /\ call' = [call EXCEPT ![r] = f]
    /\ at' = [at EXCEPT ![r] = now]
    /\ known' = [known EXCEPT ![r] = TokenUsable(f.token, now)]
    /\ UNCHANGED <<now, tables, rec, answer, process>>

Introspect(r) ==
    /\ pc[r] = "lookup"
    /\ End(r, IF Active(call[r].token, at[r]) THEN "active" ELSE "inactive")
    /\ UNCHANGED <<now, tables, call, rec, known, process>>

\* Fault: a second revocation undoes the first.
RevokeRow_Toggles(t) ==
    IF t \in DOMAIN tokens THEN [tokens EXCEPT ![t].revoked = ~tokens[t].revoked] ELSE tokens

RevokeRow(t) ==
    IF t \in DOMAIN tokens THEN [tokens EXCEPT ![t].revoked = TRUE] ELSE tokens

Revoke(r) ==
    /\ pc[r] = "revoke"
    /\ tokens' = RevokeRow(call[r].token)
    /\ End(r, "revoked")
    /\ UNCHANGED <<now, codes, issued, minted, call, rec, known, process>>

(***************************************************************************)
(* Store failures, among them a cancelled request context.  A failed       *)
(* consumption rolls back, unless it is the commit that reports an error,  *)
(* and is answered like a bad code; a failed insert may or may not have    *)
(* been applied, and the code stays burned; a failed lookup reads as       *)
(* inactive; a failed revocation, which may have been applied too, is      *)
(* logged and answered 200 all the same.                                   *)
(***************************************************************************)
ConsumeFails(r) ==
    /\ pc[r] = "consume"
    /\ Fault
    /\ \/ UNCHANGED codes
       \/ Consumable(call[r].code, at[r]) /\ codes' = [codes EXCEPT ![call[r].code].used = TRUE]
    /\ End(r, "error")
    /\ UNCHANGED <<now, tokens, issued, minted, call, rec, known, cleaner, up>>

\* Fault: an insert that reported an error is tried again.
MintFails_Retries(r) ==
    /\ pc[r] = "mint"
    /\ Fault
    /\ UNCHANGED tables \/ \E t \in Tokens : InsertToken(r, t)
    /\ UNCHANGED <<now, local, cleaner, up>>

\* Fault: a failed insert gives the code back.
MintFails_Unburns(r) ==
    /\ pc[r] = "mint"
    /\ Fault
    /\ call[r].code \in DOMAIN codes
    /\ codes' = [codes EXCEPT ![call[r].code].used = FALSE]
    /\ End(r, "error")
    /\ UNCHANGED <<now, tokens, issued, minted, call, rec, known, cleaner, up>>

MintFails(r) ==
    /\ pc[r] = "mint"
    /\ Fault
    /\ UNCHANGED tables \/ \E t \in Tokens : InsertToken(r, t)
    /\ End(r, "error")
    /\ UNCHANGED <<now, call, rec, known, cleaner, up>>

LookupFails(r) ==
    /\ pc[r] = "lookup"
    /\ Fault
    /\ End(r, "inactive")
    /\ UNCHANGED <<now, tables, call, rec, known, cleaner, up>>

RevokeFails(r) ==
    /\ pc[r] = "revoke"
    /\ Fault
    /\ tokens' \in {tokens, RevokeRow(call[r].token)}
    /\ End(r, "revoked")
    /\ UNCHANGED <<now, codes, issued, minted, call, rec, known, cleaner, up>>

(***************************************************************************)
(* Cleanup, run at startup and by the ticker of periodicCleanup.  It fixes *)
(* its cutoff when it begins and then runs four statements, not in one     *)
(* transaction; the first two concern tables of other modules.             *)
(***************************************************************************)
CleanupBegin ==
    /\ up
    /\ cleaner = Idle
    /\ cleaner' = [step |-> "codes", cutoff |-> Unix(now)]
    /\ UNCHANGED <<now, tables, local, up, faults>>

CleanupCodes ==
    /\ cleaner.step = "codes"
    /\ codes' = Delete(codes, {c \in DOMAIN codes : DeadCode(cleaner.cutoff, codes[c])})
    /\ cleaner' = [cleaner EXCEPT !.step = "tokens"]
    /\ UNCHANGED <<now, tokens, issued, minted, local, up, faults>>

CleanupTokens ==
    /\ cleaner.step = "tokens"
    /\ tokens' = Delete(tokens, {t \in DOMAIN tokens : PastCutoff(cleaner.cutoff, tokens[t])})
    /\ cleaner' = Idle
    /\ UNCHANGED <<now, codes, issued, minted, local, up, faults>>

\* The first statement that fails ends the run; the error is logged.
CleanupFails ==
    /\ cleaner # Idle
    /\ Fault
    /\ cleaner' = Idle
    /\ UNCHANGED <<now, tables, local, up>>

(***************************************************************************)
(* The process dies: requests in flight are gone, rows stay.  It comes up  *)
(* again with a cleanup and listens when that has ended, well or not.      *)
(***************************************************************************)
Crash ==
    /\ Fault
    /\ pc' = [r \in Requests |-> IF pc[r] \in Waiting THEN "lost" ELSE pc[r]]
    /\ at' = [r \in Requests |-> 0]
    /\ cleaner' = [step |-> "codes", cutoff |-> Unix(now)]
    /\ up' = FALSE
    /\ UNCHANGED <<now, tables, call, rec, answer, known>>

Listen ==
    /\ ~up
    /\ cleaner = Idle
    /\ up' = TRUE
    /\ UNCHANGED <<now, tables, local, cleaner, faults>>

-----------------------------------------------------------------------------

\* The next step of a request that has begun.
Advance(r) ==
    \/ Refuse(r) \/ Consume(r) \/ ConsumeFails(r)
    \/ MintFails(r) \/ \E t \in Tokens : Mint(r, t)
    \/ Introspect(r) \/ LookupFails(r)
    \/ Revoke(r) \/ RevokeFails(r)

Begin(r) ==
    \/ \E f \in Forms \cap RedeemCalls : BeginRedeem(r, f)
    \/ \E f \in Forms \cap TokenCalls : BeginTokenCall(r, f)

Clean == CleanupCodes \/ CleanupTokens \/ CleanupFails

Issue == \E c \in Codes, g \in Grants, t \in 0..now : IssueCode(c, g, t)

Next ==
    \/ Tick
    \/ Issue
    \/ \E r \in Requests : Begin(r) \/ Advance(r)
    \/ CleanupBegin \/ Clean
    \/ Crash \/ Listen

Spec == Init /\ [][Next]_vars

(***************************************************************************)
(* Go runs every goroutine that is ready, database/sql hands the one       *)
(* connection to every waiter in turn, and the ticker keeps ticking; no    *)
(* client and no clock is assumed to do anything.                          *)
(***************************************************************************)
Fairness ==
    /\ \A r \in Requests : WF_vars(Advance(r))
    /\ WF_vars(CleanupBegin)
    /\ WF_vars(Clean)
    /\ WF_vars(Listen)

FairSpec == Spec /\ Fairness

-----------------------------------------------------------------------------
(***************************************************************************)
(* Properties.                                                             *)
(***************************************************************************)
Redeemed(r) == rec[r] # NoGrant

\* An authorization code is consumed by at most one request, whichever of the
\* two endpoints it uses, however requests interleave, and although cleanup
\* deletes the row that says so (ConsumeAuthorizationCode; README: "codes are
\* one-use").
CodeRedeemedOnce ==
    \A r1, r2 \in Requests :
        /\ Redeemed(r1) /\ Redeemed(r2)
        /\ call[r1].code = call[r2].code
        => r1 = r2

\* Every token comes from the one request that redeemed a code at /token, says
\* what that code was issued for, and is the only token of its code, also when
\* the insert failed or the process died half-way (handleToken).
TokenBacked ==
    /\ \A t \in DOMAIN minted :
         LET r == minted[t]
             g == issued[call[r].code].grant
         IN  /\ call[r].endpoint = "token"
             /\ g.client = call[r].client
             /\ g.redirect = call[r].redirect
             /\ t \in DOMAIN tokens =>
                  /\ tokens[t].me = g.me
                  /\ tokens[t].client = g.client
                  /\ tokens[t].scope = g.scope
    /\ \A t1, t2 \in DOMAIN minted :
         call[minted[t1]].code = call[minted[t2]].code => t1 = t2

\* With RequirePKCE a token is only ever made for a code that carries a
\* challenge, by a request that knew its verifier: a code of a legacy sign-in
\* gives a profile, never a token (handleAuthorize lets the legacy request
\* through, handleToken must stop its code).
TokenProvesPKCE ==
    \A t \in DOMAIN minted :
        LET r == minted[t]
            g == issued[call[r].code].grant
        IN  /\ RequirePKCE => g.challenge # NoChallenge
            /\ g.challenge # NoChallenge =>
                 call[r].verifier \in Verifiers /\ S256[call[r].verifier] = g.challenge

\* A code is refused only because another request redeemed it, or failed when it
\* tried to, or because its lifetime is over, give or take the second the database
\* truncates; neither cleanup nor a restart takes a good code away.
RefusedOnlyForCause ==
    \A r \in Requests : answer[r] = "refused" =>
        LET c == call[r].code
        IN  \/ \E other \in Requests \ {r} :
                 /\ call[other] \in RedeemCalls /\ call[other].code = c
                 /\ Redeemed(other) \/ answer[other] = "error"
            \/ now + Second > issued[c].at + CodeTTL

\* A code is consumed under a clock reading within CodeTTL of the reading it
\* was issued at, although expires_at is truncated and the reading is stale.
RedeemedInTime ==
    [][\A r \in Requests : ~Redeemed(r) /\ Redeemed(r)' =>
          at[r] < issued[call[r].code].at + CodeTTL]_vars

\* A code or token that cannot be used any more never can be again: not after a
\* failed insert, a restart, a second revocation or a cleanup.
DeadStaysDead ==
    [][/\ \A c \in DOMAIN issued : ~CodeUsable(c, now) => ~CodeUsable(c, now)'
       /\ \A t \in DOMAIN minted : ~TokenUsable(t, now) => ~TokenUsable(t, now)']_vars

\* Cleanup, whose cutoff is from before its statements run, deletes no row that
\* could still be used by the present clock.
CleanupSparesLive ==
    [][/\ \A c \in DOMAIN codes \ DOMAIN codes' : ~CodeUsable(c, now)
       /\ \A t \in DOMAIN tokens \ DOMAIN tokens' : now >= tokens[t].expiresAt * Second]_vars

\* An introspection that begins after a token was revoked or expired does not
\* report it active, although it compares the row with an old clock reading.
NoActiveAnswerForDeadToken ==
    \A r \in Requests : answer[r] = "active" => known[r]

\* Every request that began is answered, or lost with the process.
RequestsEnd ==
    \A r \in Requests : pc[r] \in Waiting ~> pc[r] \in Ended

\* The row of a used code does not stay: some cleanup deletes it, whatever the
\* clock does.
UsedCodesPurged ==
    \A c \in Codes : (c \in DOMAIN codes /\ codes[c].used) ~> c \notin DOMAIN codes

-----------------------------------------------------------------------------
(***************************************************************************)
(* The refinement: the stage of a code is read off its row and off what    *)
(* requests remember, since cleanup forgets which codes were spent.        *)
(***************************************************************************)
Spenders(c) == {r \in Requests : Redeemed(r) /\ call[r].code = c}

TokensOf(c) == {t \in DOMAIN minted : call[minted[t]].code = c}

Stage(c) ==
    IF c \notin DOMAIN issued THEN "none"
    ELSE IF Spenders(c) # {} THEN "spent"
    ELSE IF c \in DOMAIN codes THEN "open"
    ELSE "lapsed"

Grant == INSTANCE CodeGrant WITH
    stage <- [c \in Codes |-> Stage(c)],
    spenders <- [c \in Codes |-> Spenders(c)],
    tokensOf <- [c \in Codes |-> TokensOf(c)]

\* The endpoints, with their races, failures, restarts and cleanups, do to a
\* code only what CodeGrant allows.
ImplementsCodeGrant == Grant!Spec
=============================================================================
