----------------------------- MODULE CodeGrant -----------------------------
(***************************************************************************)
(* What the bridge promises about an authorization code: it is issued      *)
(* once, then either one request spends it or it lapses, and only the      *)
(* request that spent it may give out a token for it, at most one.  How    *)
(* rows, clocks, cleanups, failures and restarts bring that about is the   *)
(* business of TokenEndpoint, which implements this module.                *)
(***************************************************************************)
CONSTANTS Codes, Tokens, Requests

VARIABLES
    stage,      \* of each code: none, open, spent or lapsed
    spenders,   \* of each code: the requests that spent it
    tokensOf    \* of each code: the tokens given for it

vars == <<stage, spenders, tokensOf>>

Init ==
    /\ stage = [c \in Codes |-> "none"]
    /\ spenders = [c \in Codes |-> {}]
    /\ tokensOf = [c \in Codes |-> {}]

Issue(c) ==
    /\ stage[c] = "none"
    /\ stage' = [stage EXCEPT ![c] = "open"]
    /\ UNCHANGED <<spenders, tokensOf>>

Spend(c, r) ==
    /\ stage[c] = "open"
    /\ \A d \in Codes : r \notin spenders[d]
    /\ stage' = [stage EXCEPT ![c] = "spent"]
    /\ spenders' = [spenders EXCEPT ![c] = {r}]
    /\ UNCHANGED tokensOf

GiveToken(c, t) ==
    /\ stage[c] = "spent"
    /\ tokensOf[c] = {}
    /\ \A d \in Codes : t \notin tokensOf[d]
    /\ tokensOf' = [tokensOf EXCEPT ![c] = {t}]
    /\ UNCHANGED <<stage, spenders>>

\* Cleanup may delete several rows in one statement.
Lapse(S) ==
    /\ \A c \in S : stage[c] = "open"
    /\ stage' = [c \in Codes |-> IF c \in S THEN "lapsed" ELSE stage[c]]
    /\ UNCHANGED <<spenders, tokensOf>>

Next ==
    \/ \E c \in Codes :
        \/ Issue(c)
        \/ \E r \in Requests : Spend(c, r)
        \/ \E t \in Tokens : GiveToken(c, t)
    \/ \E S \in SUBSET Codes : Lapse(S)

Spec == Init /\ [][Next]_vars
=============================================================================
