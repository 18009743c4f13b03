-------------------------- MODULE MCTokenEndpoint --------------------------
(***************************************************************************)
(* Instances of TokenEndpoint for TLC.                                     *)
(***************************************************************************)
EXTENDS TokenEndpoint, TLC

CONSTANTS app, other, cb, site, ch, good, bad

\* One grant of a client that used PKCE and one of a legacy sign-in.
MCGrants ==
    {[me |-> site, client |-> app, redirect |-> cb, scope |-> "profile", challenge |-> ch],
     [me |-> site, client |-> app, redirect |-> cb, scope |-> "", challenge |-> NoChallenge]}

MCChallenges == {ch, "other challenge"}

MCS256 == (good :> ch) @@ (bad :> "other challenge")

Redeem(e, c, client, verifier) ==
    [endpoint |-> e, code |-> c, client |-> client, redirect |-> cb, verifier |-> verifier]

\* The right client with the right, a wrong and no verifier, another client.
RedeemForms ==
    UNION {{Redeem("token", c, app, good), Redeem("token", c, app, bad),
            Redeem("profile", c, app, NoVerifier), Redeem("token", c, other, good)} : c \in Codes}

ManageForms == {[endpoint |-> e, token |-> t] : e \in TokenEndpoints, t \in Tokens}

TokenForms ==
    {Redeem("token", c, app, good) : c \in Codes} \cup ManageForms

Symmetry == Permutations(Requests) \cup Permutations(Tokens)

=============================================================================
