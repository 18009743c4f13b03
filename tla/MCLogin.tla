------------------------------ MODULE MCLogin ------------------------------
(***************************************************************************)
(* Instances of Login for TLC.                                             *)
(***************************************************************************)
EXTENDS Login, TLC

CONSTANTS static, managed, page, alice, bob, app, cb, far, ch

AskFor(redirect, me, type, scope, challenge, method) ==
    [me |-> me, client |-> app, redirect |-> redirect, responseType |-> type,
     scope |-> scope, challenge |-> challenge, method |-> method]

Ask(me, type, scope, challenge, method) == AskFor(cb, me, type, scope, challenge, method)

\* A request for each kind of profile, one of them a legacy sign-in, and a request
\* that must not pass without PKCE.
MixedForms ==
    {Ask(static, "code", {"profile"}, ch, "S256"), Ask(managed, "", {}, NoChallenge, ""),
     AskFor(far, page, "code", {"profile"}, ch, "S256"), Ask(static, "code", {"profile"}, NoChallenge, "")}

OneForm == {f \in MixedForms : f.me = page}

MCAllowedSubjects == (static :> {alice})
MCManagedSubject == (managed :> bob)
MCSameOrigin == {<<app, cb>>}
MCDeclared == {<<app, far>>}

Symmetry == Permutations(Callbacks) \cup Permutations(Posts) \cup Permutations(Flows)
                \cup Permutations(Logins) \cup Permutations(Codes)
=============================================================================
