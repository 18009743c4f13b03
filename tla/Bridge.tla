------------------------------- MODULE Bridge -------------------------------
(***************************************************************************)
(* The whole way from GET /authorize to a token: Login and TokenEndpoint   *)
(* in one process, over one clock, one authorization_codes table and one   *)
(* cleanup.                                                                *)
(*                                                                         *)
(* Login's handlers write the codes, the token endpoints consume them.     *)
(* Variables of the token endpoints that have a namesake in Login start    *)
(* with a t.  Nothing here says that Login issues codes in the way         *)
(* TokenEndpoint takes for granted: that is a property.                    *)
(***************************************************************************)
EXTENDS Store, FiniteSets

CONSTANTS
    Flows, Callbacks, Posts, Codes, Logins, NoLogin, Subjects, NoSubject,
    StaticMes, ManagedMes, PageMes, AllowedSubjects, ManagedSubject, SupportedScopes,
    SameOriginRedirects, DeclaredRedirects, ClientMetadataDiscoveryEnabled,
    Challenges, NoChallenge, Forms, RequirePKCE, ConsentRequired, DynamicEnabled,
    AuthRequestTTL, CodeTTL, MaxTime, MaxFaults, MaxEdits

CONSTANTS
    Tokens, Requests, NoGrant, Clients, Redirects, Verifiers, NoVerifier, S256,
    AccessTokenTTL, TokenForms

VARIABLES
    now, codes, up,     \* shared
    pages, authRequests, consents, issued, logins, flow, pc, call, held, subject, at,
    answer, gone, late, cleaner, faults, edits,
    tokens, tissued, minted, tpc, tcall, tat, rec, tanswer, known, tcleaner, tfaults

L == INSTANCE Login
T == INSTANCE TokenEndpoint WITH
        Grants <- L!Grants, Forms <- TokenForms,
        issued <- tissued, pc <- tpc, call <- tcall, at <- tat, answer <- tanswer,
        cleaner <- tcleaner, faults <- tfaults

\* An INSTANCE does not assume what its module assumes: so it is said here.
ASSUME LoginAssumption == L!NameAssumption /\ L!FormAssumption /\ L!ConfigAssumption

ASSUME TokenAssumption == T!GrantAssumption /\ T!ConfigAssumption /\ T!FormAssumption

\* What only one of the two has.
login == <<pages, authRequests, consents, issued, logins, flow, pc, call, held, subject, at,
           answer, gone, late, cleaner, faults, edits>>
requests == <<tokens, minted, tpc, tcall, tat, rec, tanswer, known>>
token == <<requests, tissued, tcleaner, tfaults>>
vars == <<now, codes, up, login, token>>

Init == L!Init /\ T!Init

-----------------------------------------------------------------------------

\* A step of a login that issues no code.
LoginStep ==
    /\ \/ L!Tick
       \/ \E p \in PageMes, s \in Subjects \cup {NoSubject} : L!EditPage(p, s)
       \/ \E f \in Flows : \/ L!BeginSetup(f)
                           \/ \E form \in Forms : L!BeginAuthorize(f, form)
                           \/ L!AdvanceFlow(f)
                           \/ \E l \in Logins, s \in Subjects : L!ProviderLogin(f, l, s)
       \/ \E b \in Callbacks, f \in Flows, l \in Logins \cup {NoLogin} : L!BeginCallback(b, f, l)
       \/ \E p \in Posts, b \in Callbacks, csrf, approve \in BOOLEAN :
             L!BeginPost(p, b, csrf, approve)
       \/ \E h \in L!Handlers :
             \/ L!FindAuthRequest(h) \/ L!CompleteAuth(h) \/ L!CompleteAuthFails(h)
             \/ L!FindConsent(h) \/ L!FindFails(h)
             \/ L!StoreConsent(h)
             \/ L!StoreFails(h) /\ codes' = codes
             \/ L!Finish(h) \/ L!FinishWithoutDelete(h)
       \/ L!CleanupAuthRequests \/ L!CleanupConsents
    /\ UNCHANGED token

\* issueCodeAndRedirect; also when its insert reports an error.
StoreCode(h, c) ==
    /\ \E t \in at[h]..now :
         /\ L!StoreCode(h, c, t) \/ (L!StoreFails(h) /\ L!InsertCode(h, c, t))
         /\ tissued' = Insert(tissued, c, [grant |-> held[h].grant, at |-> t])
    /\ UNCHANGED <<requests, tcleaner, tfaults>>

\* A step of POST /token, POST /authorize, /introspect or /revoke.
TokenStep ==
    /\ \E r \in Requests : T!Begin(r) \/ T!Advance(r)
    /\ UNCHANGED login

(***************************************************************************)
(* One cleanup runs the statements of both; its failure ends it for both.  *)
(***************************************************************************)
CleanupBegin ==
    /\ L!CleanupBegin /\ T!CleanupBegin

CleanupCodes ==
    /\ L!CleanupCodes
    /\ tcleaner' = [tcleaner EXCEPT !.step = "tokens"]
    /\ UNCHANGED <<requests, tissued, tfaults>>

CleanupTokens == T!CleanupTokens /\ UNCHANGED login

CleanupFails ==
    \/ L!CleanupFails /\ T!CleanupFails
    \/ cleaner = L!Idle /\ T!CleanupFails /\ UNCHANGED login

Crash == L!Crash /\ T!Crash

Listen == L!Listen /\ T!Listen

Next ==
    \/ LoginStep
    \/ \E h \in L!Handlers, c \in Codes : StoreCode(h, c)
    \/ TokenStep
    \/ CleanupBegin \/ CleanupCodes \/ CleanupTokens \/ CleanupFails
    \/ Crash \/ Listen

Spec == Init /\ [][Next]_vars

-----------------------------------------------------------------------------
(***************************************************************************)
(* Properties.                                                             *)
(***************************************************************************)
\* Every token goes back to a user who signed in on the flow that asked for it and
\* whom its profile allowed, who approved it when consent is required; it has the
\* profile and scope of that request, was fetched by its client at its redirect,
\* and, with RequirePKCE, by someone who knew the verifier of its challenge: from
\* handleAuthorize to handleToken, across handlers, tables and restarts.
EveryTokenEarned ==
    \A t \in DOMAIN minted :
        LET q == tcall[minted[t]]
            asked == flow[L!FlowOf(q.code)].form
            l == logins[call[L!CallbackOf(q.code)].login]
            h == issued[q.code].by
        IN  /\ l.nonce = L!FlowOf(q.code)
            /\ IF asked.me \in StaticMes THEN l.subject \in AllowedSubjects[asked.me]
               ELSE l.subject = flow[L!FlowOf(q.code)].bound
            /\ ConsentRequired => h \in Posts /\ call[h].approve /\ call[h].csrf
            /\ q.client = asked.client /\ q.redirect = asked.redirect
            /\ RequirePKCE => q.verifier \in Verifiers /\ S256[q.verifier] = asked.challenge
            /\ t \in DOMAIN tokens =>
                  /\ tokens[t].me = asked.me /\ tokens[t].client = asked.client
                  /\ tokens[t].scope = asked.scope

\* The token endpoints meet in the whole process only what TokenEndpoint supposes of
\* it: codes are new, for a grant somebody asked for, with the lifetime of a code
\* from a clock reading of the past, and come only while the server is up
\* (issueCodeAndRedirect); cleanup and restart are the same for both.  So what is
\* proved of TokenEndpoint holds of the bridge.
ImplementsTokenEndpoint == T!Spec
=============================================================================
