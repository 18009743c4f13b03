------------------------------ MODULE MCBridge ------------------------------
(***************************************************************************)
(* An instance of Bridge for TLC.                                          *)
(***************************************************************************)
EXTENDS Bridge, TLC

CONSTANTS static, managed, alice, bob, app, cb, ch, good, bad

Ask(me, type, scope, challenge, method) ==
    [me |-> me, client |-> app, redirect |-> cb, responseType |-> type,
     scope |-> scope, challenge |-> challenge, method |-> method]

\* A request with PKCE and a legacy sign-in.
MCForms ==
    {Ask(static, "code", {"profile"}, ch, "S256"), Ask(managed, "", {}, NoChallenge, "")}

MCAllowedSubjects == (static :> {alice})
MCManagedSubject == (managed :> bob)
MCSameOrigin == {<<app, cb>>}

MCChallenges == {ch, "other challenge"}
MCS256 == (good :> ch) @@ (bad :> "other challenge")

\* The right and a wrong verifier at the token endpoint, none at the other.
MCTokenForms ==
    UNION {{[endpoint |-> "token", code |-> c, client |-> app, redirect |-> cb, verifier |-> v] :
               v \in {good, bad}} : c \in Codes}
    \cup {[endpoint |-> "profile", code |-> c, client |-> app, redirect |-> cb,
           verifier |-> NoVerifier] : c \in Codes}
    \cup {[endpoint |-> "revoke", token |-> t] : t \in Tokens}

Symmetry == Permutations(Requests)
=============================================================================
