------------------------------- MODULE Login -------------------------------
(***************************************************************************)
(* From GET /authorize to an authorization code: handleAuthorize,          *)
(* handleSetup, handleCallback and handleConsentPost of                    *)
(* internal/http/server.go over the auth_requests, consent_requests and    *)
(* authorization_codes tables, the OIDC backend of internal/backends/oidc  *)
(* and the profile pages that bind a URL to an OIDC subject.               *)
(*                                                                         *)
(* A flow is one request to /authorize or /setup; its request id, backend  *)
(* state and nonce are fresh random values and so are identified with it.  *)
(* A handler is one request to the callback or to POST /consent; the id    *)
(* and CSRF token of the consent record that a callback creates are        *)
(* identified with the callback.                                           *)
(***************************************************************************)
EXTENDS Store, FiniteSets

CONSTANTS
    Flows, Callbacks, Posts,        \* requests, each used once
    Codes,                          \* authorization codes, never repeated
    Logins, NoLogin,                \* authorization codes of the OIDC provider
    Subjects, NoSubject,            \* sub claims; of one provider
    StaticMes, ManagedMes, PageMes, \* profile URLs, by how they are resolved
    AllowedSubjects,                \* profiles[].allowed_* : static URL -> subjects
    ManagedSubject,                 \* managed_profiles rows: URL -> owner
    SupportedScopes,
    SameOriginRedirects, DeclaredRedirects,     \* pairs of client and redirect
    ClientMetadataDiscoveryEnabled,
    Challenges, NoChallenge,
    Forms,                          \* the authorization requests clients send
    RequirePKCE, ConsentRequired, DynamicEnabled,
    AuthRequestTTL, CodeTTL,
    MaxTime, MaxFaults, MaxEdits    \* bounds: clock, failures and crashes, page edits

ASSUME NameAssumption ==
    /\ Callbacks \cap Posts = {} /\ Flows \cap Callbacks = {}
    /\ NoLogin \notin Logins /\ NoSubject \notin Subjects /\ NoChallenge \notin Challenges
    /\ (StaticMes \cup ManagedMes) \cap PageMes = {}
    /\ AllowedSubjects \in [StaticMes -> SUBSET Subjects]
    /\ ManagedSubject \in [ManagedMes -> Subjects]

ASSUME FormAssumption ==
    \A f \in Forms :
        f = [me |-> f.me, client |-> f.client, redirect |-> f.redirect,
             responseType |-> f.responseType, scope |-> f.scope,
             challenge |-> f.challenge, method |-> f.method]

ASSUME ConfigAssumption ==
    /\ {RequirePKCE, ConsentRequired, DynamicEnabled, ClientMetadataDiscoveryEnabled} \subseteq BOOLEAN
    /\ {AuthRequestTTL, CodeTTL} \subseteq Nat \ {0}
    /\ {MaxTime, MaxFaults, MaxEdits} \subseteq Nat

VARIABLES
    now,            \* the wall clock, in ticks
    pages,          \* the indieauth-identity binding each page publishes
    authRequests,   \* table auth_requests
    consents,       \* table consent_requests
    codes,          \* table authorization_codes
    issued,         \* history: every code, with the handler that issued it
    logins,         \* the provider's codes: flow (nonce), subject, exchanged
    flow,           \* each flow: next step, form, binding found, clock reading
    pc, call,       \* each handler: next step and query
    held,           \* each handler: the row it read
    subject,        \* each callback: the identity CompleteAuth returned
    at,             \* each handler: its clock reading; before a store, when it got there
    answer,         \* each handler: what it answers
    gone,           \* history: rows some handler deleted before it answered
    late,           \* history: did the handler begin after its row was gone
    cleaner, up, faults, edits

tables   == <<authRequests, consents, codes, issued>>
handlers == <<pc, call, held, subject, at, answer, late>>
process  == <<cleaner, up, faults>>
vars     == <<now, pages, edits, logins, tables, flow, gone, handlers, process>>

Handlers == Callbacks \cup Posts
Mes == StaticMes \cup ManagedMes \cup PageMes

NoForm == [me |-> "none"]
NoRow  == [expiresAt |-> 0]
NoCall == [kind |-> "none"]

GrantOf(f) == [me |-> f.me, client |-> f.client, redirect |-> f.redirect,
               scope |-> f.scope, challenge |-> f.challenge]
Grants == {GrantOf(f) : f \in Forms}

\* How the callback will decide: backendState.Values holds setup or binding.
RowKinds == {"setup", "static", "bound"}
AuthRows == [kind : RowKinds, grant : Grants \cup {NoForm}, bound : Subjects \cup {NoSubject},
             expiresAt : Nat]
ConsentRows == [grant : Grants, expiresAt : Nat]
CodeRows == [grant : Grants, expiresAt : Nat, used : BOOLEAN]

CallbackCalls == [kind : {"callback"}, state : Flows, login : Logins \cup {NoLogin}]
PostCalls == [kind : {"post"}, consent : Callbacks, csrf : BOOLEAN, approve : BOOLEAN]

Waiting == {"find", "complete", "store", "delete"}

Idle == [step |-> "idle", cutoff |-> 0]

TypeOK ==
    /\ now \in Nat /\ edits \in Nat /\ faults \in Nat /\ up \in BOOLEAN
    /\ pages \in [PageMes -> Subjects \cup {NoSubject}]
    /\ IsTable(authRequests, Flows, AuthRows)
    /\ IsTable(consents, Callbacks, ConsentRows)
    /\ IsTable(codes, Codes, CodeRows)
    /\ IsTable(issued, Codes, [grant : Grants, by : Handlers])
    /\ IsTable(logins, Logins, [nonce : Flows, subject : Subjects, spent : BOOLEAN])
    /\ flow \in [Flows -> [step : {"idle", "discover", "create", "redirected", "rejected", "lost"},
                           kind : RowKinds, form : Forms \cup {NoForm},
                           bound : Subjects \cup {NoSubject}, at : Nat]]
    /\ pc \in [Handlers -> {"idle", "done", "lost"} \cup Waiting]
    /\ call \in [Handlers -> CallbackCalls \cup PostCalls \cup {NoCall}]
    /\ held \in [Handlers -> AuthRows \cup ConsentRows \cup {NoRow}]
    /\ subject \in [Callbacks -> Subjects \cup {NoSubject}]
    /\ at \in [Handlers -> Nat]
    /\ answer \in [Handlers -> {"none", "invalid", "rejected", "setup", "consent",
                                "code", "denied", "error"}]
    /\ gone \subseteq Flows \cup Callbacks
    /\ late \in [Handlers -> BOOLEAN]
    /\ cleaner \in [step : {"idle", "auth", "consents", "codes"}, cutoff : Nat]

Empty == [k \in {} |-> {}]

Init ==
    /\ now = 0 /\ edits = 0 /\ faults = 0 /\ up = TRUE /\ cleaner = Idle
    /\ pages \in [PageMes -> Subjects \cup {NoSubject}]
    /\ authRequests = Empty /\ consents = Empty /\ codes = Empty /\ issued = Empty
    /\ logins = Empty
    /\ flow = [f \in Flows |-> [step |-> "idle", kind |-> "setup", form |-> NoForm,
                                bound |-> NoSubject, at |-> 0]]
    /\ pc = [h \in Handlers |-> "idle"]
    /\ call = [h \in Handlers |-> NoCall]
    /\ held = [h \in Handlers |-> NoRow]
    /\ subject = [b \in Callbacks |-> NoSubject]
    /\ at = [h \in Handlers |-> 0]
    /\ answer = [h \in Handlers |-> "none"]
    /\ gone = {}
    /\ late = [h \in Handlers |-> FALSE]

Fault == faults < MaxFaults /\ faults' = faults + 1

Tick ==
    /\ now < MaxTime
    /\ now' = now + 1
    /\ UNCHANGED <<pages, edits, logins, tables, flow, gone, handlers, process>>

\* The owner of a page publishes, changes or removes its binding.
EditPage(p, s) ==
    /\ edits < MaxEdits
    /\ edits' = edits + 1
    /\ pages' = [pages EXCEPT ![p] = s]
    /\ UNCHANGED <<now, logins, tables, flow, gone, handlers, process>>

-----------------------------------------------------------------------------
(***************************************************************************)
(* GET /authorize and GET /setup.                                          *)
(***************************************************************************)
LegacySignIn(f) ==
    /\ f.responseType = ""
    /\ f.scope = {}
    /\ f.challenge = NoChallenge
    /\ f.method = ""

PKCEAccepted(f) ==
    IF RequirePKCE /\ ~LegacySignIn(f)
    THEN f.challenge # NoChallenge /\ f.method = "S256"
    ELSE f.challenge = NoChallenge \/ f.method = "S256"

\* A scope is the set of its words.
ScopeAllowed(f) == f.scope \subseteq SupportedScopes

\* The redirect has the client's origin or is listed in the metadata it publishes.
ValidateClientRedirect(f) ==
    \/ <<f.client, f.redirect>> \in SameOriginRedirects
    \/ ClientMetadataDiscoveryEnabled /\ <<f.client, f.redirect>> \in DeclaredRedirects

\* The owner of the row, if the URL is one of the bridge's own.
ManagedProfileForMe(me) == IF me \in ManagedMes THEN ManagedSubject[me] ELSE NoSubject

\* The checks made before anything is stored.  A URL of the bridge without a row is
\* refused, never fetched: it is in none of the three sets.
Acceptable(f) ==
    /\ f.responseType \in {"", "code"}
    /\ ScopeAllowed(f)
    /\ f.me \in StaticMes \cup ManagedMes \cup (IF DynamicEnabled THEN PageMes ELSE {})
    /\ ValidateClientRedirect(f)
    /\ PKCEAccepted(f)

Idling(f) == up /\ flow[f].step = "idle"

BeginSetup(f) ==
    /\ Idling(f)
    /\ flow' = [flow EXCEPT ![f].step = "create", ![f].at = now]
    /\ UNCHANGED <<now, pages, edits, logins, tables, gone, handlers, process>>

\* A static profile is decided by configuration, also when it has the URL of a
\* managed one; a managed profile by its row, read here; any other URL is fetched.
BeginAuthorize(f, form) ==
    /\ Idling(f)
    /\ Acceptable(form)
    /\ flow' = [flow EXCEPT ![f] =
         [step  |-> IF form.me \in PageMes THEN "discover" ELSE "create",
          kind  |-> IF form.me \in StaticMes THEN "static" ELSE "bound",
          form  |-> form,
          bound |-> IF form.me \in StaticMes THEN NoSubject ELSE ManagedProfileForMe(form.me),
          at    |-> now]]
    /\ UNCHANGED <<now, pages, edits, logins, tables, gone, handlers, process>>

\* DiscoverProfileIdentity takes a snapshot of the page's binding.
Discover(f) ==
    /\ flow[f].step = "discover"
    /\ pages[flow[f].form.me] # NoSubject
    /\ flow' = [flow EXCEPT ![f].step = "create", ![f].at = now,
                            ![f].bound = pages[flow[f].form.me]]
    /\ UNCHANGED <<now, pages, edits, logins, tables, gone, handlers, process>>

\* The page cannot be fetched or binds nobody, or BeginAuth fails.
Reject(f) ==
    /\ flow[f].step \in {"discover", "create"}
    /\ flow' = [flow EXCEPT ![f].step = "rejected", ![f].at = 0]
    /\ UNCHANGED <<now, pages, edits, logins, tables, gone, handlers, process>>

AuthRow(f) ==
    [kind |-> flow[f].kind, bound |-> flow[f].bound,
     grant |-> IF flow[f].kind = "setup" THEN NoForm ELSE GrantOf(flow[f].form),
     expiresAt |-> ExpiresAt(flow[f].at, AuthRequestTTL)]

CreateAuthRequest(f) ==
    /\ flow[f].step = "create"
    /\ authRequests' = Insert(authRequests, f, AuthRow(f))
    /\ flow' = [flow EXCEPT ![f].step = "redirected", ![f].at = 0]
    /\ UNCHANGED <<now, pages, edits, logins, consents, codes, issued, gone, handlers, process>>

\* An insert that fails may have been applied; nobody learns its state value.
CreateAuthRequestFails(f) ==
    /\ flow[f].step = "create"
    /\ Fault
    /\ authRequests' \in {authRequests, Insert(authRequests, f, AuthRow(f))}
    /\ flow' = [flow EXCEPT ![f].step = "rejected", ![f].at = 0]
    /\ UNCHANGED <<now, pages, edits, logins, consents, codes, issued, gone, handlers, cleaner, up>>

(***************************************************************************)
(* The provider: a user signs in on the URL a flow was redirected to, any  *)
(* number of times, and is sent back with a new code for that nonce.       *)
(***************************************************************************)
ProviderLogin(f, l, s) ==
    /\ flow[f].step = "redirected"
    /\ l \notin DOMAIN logins
    /\ logins' = Insert(logins, l, [nonce |-> f, subject |-> s, spent |-> FALSE])
    /\ UNCHANGED <<now, pages, edits, tables, flow, gone, handlers, process>>

-----------------------------------------------------------------------------
(***************************************************************************)
(* Handlers: common steps.  The row a handler works on is deleted by a     *)
(* deferred call, after everything else and whatever the outcome; only     *)
(* then does the client see the answer.                                    *)
(***************************************************************************)
Begin(h, c, key) ==
    /\ up
    /\ pc[h] = "idle"
    /\ pc' = [pc EXCEPT ![h] = "find"]
    /\ call' = [call EXCEPT ![h] = c]
    /\ at' = [at EXCEPT ![h] = IF h \in Posts THEN now ELSE 0]
    /\ late' = [late EXCEPT ![h] = key \in gone]
    /\ UNCHANGED <<now, pages, edits, logins, tables, flow, gone, held, subject, answer, process>>

Goto(h, step, a) ==
    /\ pc' = [pc EXCEPT ![h] = step]
    /\ at' = [at EXCEPT ![h] = IF step = "store" THEN now ELSE 0]
    /\ answer' = [answer EXCEPT ![h] = a]

\* The callback has a state it was redirected with and perhaps the code of a
\* sign-in for another flow; a handler for a consent has seen its page.
BeginCallback(b, f, l) ==
    /\ flow[f].step = "redirected"
    /\ l \in DOMAIN logins \cup {NoLogin}
    /\ Begin(b, [kind |-> "callback", state |-> f, login |-> l], f)

BeginPost(p, b, csrf, approve) ==
    /\ pc[b] = "done" /\ answer[b] = "consent"
    /\ Begin(p, [kind |-> "post", consent |-> b, csrf |-> csrf, approve |-> approve], b)

\* findAuthRequest: unlike the others this lookup reads the clock when it is done.
Findable(f) == f \in DOMAIN authRequests /\ AuthRequestLive(now, authRequests[f])

FindAuthRequest(b) ==
    /\ pc[b] = "find" /\ b \in Callbacks
    /\ IF Findable(call[b].state)
       THEN /\ held' = [held EXCEPT ![b] = authRequests[call[b].state]]
            /\ Goto(b, "complete", "none")
       ELSE /\ Goto(b, "done", "invalid")
            /\ UNCHANGED held
    /\ UNCHANGED <<now, pages, edits, logins, tables, flow, gone, call, subject, late, process>>

\* Fault: the nonce of the ID token is not compared.
NonceMatches_Any(b, l) == TRUE

NonceMatches(b, l) == logins[l].nonce = call[b].state

\* Whichever of allowed_subjects, _usernames, _emails and _groups matches.
StaticIdentityAllowed(me, s) == s \in AllowedSubjects[me]

IdentityAllowed(row, s) ==
    \/ row.kind = "static" /\ StaticIdentityAllowed(row.grant.me, s)
    \/ row.kind = "bound" /\ s = row.bound

(***************************************************************************)
(* CompleteAuth exchanges the provider's code, which the provider accepts  *)
(* once, and compares the nonce; then the identity is compared with the    *)
(* profile.  A setup request stops here and shows the identity.            *)
(***************************************************************************)
CompleteAuth(b) ==
    LET l == call[b].login
        s == logins[l].subject
    IN  /\ pc[b] = "complete"
        /\ l # NoLogin /\ ~logins[l].spent
        /\ logins' = [logins EXCEPT ![l].spent = TRUE]
        /\ IF NonceMatches(b, l)
           THEN /\ subject' = [subject EXCEPT ![b] = s]
                /\ IF held[b].kind = "setup" THEN Goto(b, "delete", "setup")
                   ELSE IF IdentityAllowed(held[b], s) THEN Goto(b, "store", "none")
                   ELSE Goto(b, "delete", "rejected")
           ELSE /\ Goto(b, "delete", "rejected")
                /\ UNCHANGED subject
        /\ UNCHANGED <<now, pages, edits, tables, flow, gone, call, held, late, process>>

\* No code, a spent one, or the provider cannot be reached (before or after it
\* took the code): the request is deleted all the same.
CompleteAuthFails(b) ==
    LET l == call[b].login
    IN  /\ pc[b] = "complete"
        /\ \/ (l # NoLogin => logins[l].spent) /\ UNCHANGED <<logins, faults>>
           \/ l # NoLogin /\ Fault /\ logins' \in {logins, [logins EXCEPT ![l].spent = TRUE]}
        /\ Goto(b, "delete", "rejected")
        /\ UNCHANGED <<now, pages, edits, tables, flow, gone, call, held, subject, late, cleaner, up>>

(***************************************************************************)
(* POST /consent: a wrong CSRF token leaves the record alone.              *)
(***************************************************************************)
FindConsent(p) ==
    LET b == call[p].consent
    IN  /\ pc[p] = "find" /\ p \in Posts
        /\ IF b \in DOMAIN consents /\ Live(at[p], consents[b])
           THEN /\ held' = [held EXCEPT ![p] = consents[b]]
                /\ IF ~call[p].csrf THEN Goto(p, "done", "rejected")
                   ELSE IF ~call[p].approve THEN Goto(p, "delete", "denied")
                   ELSE Goto(p, "store", "none")
           ELSE Goto(p, "done", "invalid") /\ UNCHANGED held
        /\ UNCHANGED <<now, pages, edits, logins, tables, flow, gone, call, subject, late, process>>

\* Any error of the lookup is answered like a missing row.
FindFails(h) ==
    /\ pc[h] = "find"
    /\ Fault
    /\ Goto(h, "done", "invalid")
    /\ UNCHANGED <<now, pages, edits, logins, tables, flow, gone, call, held, subject, late, cleaner, up>>

-----------------------------------------------------------------------------
(***************************************************************************)
(* A callback stores a consent record when consent is required; otherwise  *)
(* it, and an approving post, issue a code (issueCodeAndRedirect).  Either *)
(* has a clock reading of its own, taken since the step before, which at   *)
(* keeps.                                                                  *)
(***************************************************************************)
\* Fault: the callback issues the code and leaves consent for later.
NeedsConsent_Never(h) == FALSE

NeedsConsent(h) == h \in Callbacks /\ ConsentRequired

InsertConsent(b) ==
    /\ NeedsConsent(b)
    /\ \E t \in at[b]..now :
         consents' = Insert(consents, b, [grant |-> held[b].grant, expiresAt |-> ExpiresAt(t, CodeTTL)])
    /\ UNCHANGED <<authRequests, codes, issued>>

\* Fault: the code lives as long as an authorization request.
InsertCode_WrongTTL(h, c, t) ==
    /\ ~NeedsConsent(h)
    /\ c \notin DOMAIN issued
    /\ codes' = Insert(codes, c, [grant |-> held[h].grant, used |-> FALSE,
                                  expiresAt |-> ExpiresAt(t, AuthRequestTTL)])
    /\ issued' = Insert(issued, c, [grant |-> held[h].grant, by |-> h])
    /\ UNCHANGED <<authRequests, consents>>

InsertCode(h, c, t) ==
    /\ ~NeedsConsent(h)
    /\ c \notin DOMAIN issued
    /\ codes' = Insert(codes, c, [grant |-> held[h].grant, used |-> FALSE,
                                  expiresAt |-> ExpiresAt(t, CodeTTL)])
    /\ issued' = Insert(issued, c, [grant |-> held[h].grant, by |-> h])
    /\ UNCHANGED <<authRequests, consents>>

StoreConsent(b) ==
    /\ pc[b] = "store"
    /\ InsertConsent(b)
    /\ Goto(b, "delete", "consent")
    /\ UNCHANGED <<now, pages, edits, logins, flow, gone, call, held, subject, late, process>>

StoreCode(h, c, t) ==
    /\ pc[h] = "store"
    /\ InsertCode(h, c, t)
    /\ Goto(h, "delete", "code")
    /\ UNCHANGED <<now, pages, edits, logins, flow, gone, call, held, subject, late, process>>

\* Fault: an insert that reported an error is tried again.
StoreFails_Retries(h) ==
    /\ pc[h] = "store"
    /\ Fault
    /\ UNCHANGED tables \/ InsertConsent(h) \/ \E c \in Codes, t \in at[h]..now : InsertCode(h, c, t)
    /\ UNCHANGED <<now, pages, edits, logins, flow, gone, handlers, cleaner, up>>

StoreFails(h) ==
    /\ pc[h] = "store"
    /\ Fault
    /\ UNCHANGED tables \/ InsertConsent(h) \/ \E c \in Codes, t \in at[h]..now : InsertCode(h, c, t)
    /\ Goto(h, "delete", "error")
    /\ UNCHANGED <<now, pages, edits, logins, flow, gone, call, held, subject, late, cleaner, up>>

\* The deferred DeleteAuthRequest or DeleteConsentRequest, then the answer.
KeyOf(h) == IF h \in Callbacks THEN call[h].state ELSE call[h].consent

\* Fault: only a handler that succeeded deletes its row.
DeleteRow_OnSuccess(h) ==
    /\ IF answer[h] \in {"code", "consent"}
       THEN IF h \in Callbacks
            THEN authRequests' = Delete(authRequests, {KeyOf(h)}) /\ UNCHANGED consents
            ELSE consents' = Delete(consents, {KeyOf(h)}) /\ UNCHANGED authRequests
       ELSE UNCHANGED <<authRequests, consents>>
    /\ UNCHANGED <<codes, issued>>

\* Fault: a row that is gone already is waited for.
DeleteRow_MustExist(h) ==
    /\ IF h \in Callbacks
       THEN /\ KeyOf(h) \in DOMAIN authRequests
            /\ authRequests' = Delete(authRequests, {KeyOf(h)}) /\ UNCHANGED consents
       ELSE /\ KeyOf(h) \in DOMAIN consents
            /\ consents' = Delete(consents, {KeyOf(h)}) /\ UNCHANGED authRequests
    /\ UNCHANGED <<codes, issued>>

DeleteRow(h) ==
    /\ IF h \in Callbacks
       THEN authRequests' = Delete(authRequests, {KeyOf(h)}) /\ UNCHANGED consents
       ELSE consents' = Delete(consents, {KeyOf(h)}) /\ UNCHANGED authRequests
    /\ UNCHANGED <<codes, issued>>

Finish(h) ==
    /\ pc[h] = "delete"
    /\ DeleteRow(h)
    /\ gone' = gone \cup {KeyOf(h)}
    /\ Goto(h, "done", answer[h])
    /\ UNCHANGED <<now, pages, edits, logins, flow, call, held, subject, late, process>>

\* A failed delete is logged; the row stays until cleanup.
FinishWithoutDelete(h) ==
    /\ pc[h] = "delete"
    /\ Fault
    /\ Goto(h, "done", answer[h])
    /\ UNCHANGED <<now, pages, edits, logins, tables, flow, gone, call, held, subject, late, cleaner, up>>

-----------------------------------------------------------------------------
(***************************************************************************)
(* Cleanup: three of its four statements; a crash; the restart.            *)
(***************************************************************************)
Expired(table) == {k \in DOMAIN table : PastCutoff(cleaner.cutoff, table[k])}

CleanupBegin ==
    /\ up /\ cleaner = Idle
    /\ cleaner' = [step |-> "auth", cutoff |-> Unix(now)]
    /\ UNCHANGED <<now, pages, edits, logins, tables, flow, gone, handlers, up, faults>>

CleanupAuthRequests ==
    /\ cleaner.step = "auth"
    /\ authRequests' = Delete(authRequests, Expired(authRequests))
    /\ cleaner' = [cleaner EXCEPT !.step = "consents"]
    /\ UNCHANGED <<now, pages, edits, logins, consents, codes, issued, flow, gone, handlers, up, faults>>

\* Fault: the statement for consent_requests is missing.
CleanupConsents_Skipped ==
    /\ cleaner.step = "consents"
    /\ cleaner' = [cleaner EXCEPT !.step = "codes"]
    /\ UNCHANGED <<now, pages, edits, logins, tables, flow, gone, handlers, up, faults>>

CleanupConsents ==
    /\ cleaner.step = "consents"
    /\ consents' = Delete(consents, Expired(consents))
    /\ cleaner' = [cleaner EXCEPT !.step = "codes"]
    /\ UNCHANGED <<now, pages, edits, logins, authRequests, codes, issued, flow, gone, handlers, up, faults>>

CleanupCodes ==
    /\ cleaner.step = "codes"
    /\ codes' = Delete(codes, {c \in DOMAIN codes : DeadCode(cleaner.cutoff, codes[c])})
    /\ cleaner' = Idle
    /\ UNCHANGED <<now, pages, edits, logins, authRequests, consents, issued, flow, gone, handlers, up, faults>>

CleanupFails ==
    /\ cleaner # Idle
    /\ Fault
    /\ cleaner' = Idle
    /\ UNCHANGED <<now, pages, edits, logins, tables, flow, gone, handlers, up>>

Crash ==
    /\ Fault
    /\ flow' = [f \in Flows |-> IF flow[f].step \in {"discover", "create"}
                                THEN [flow[f] EXCEPT !.step = "lost", !.at = 0] ELSE flow[f]]
    /\ pc' = [h \in Handlers |-> IF pc[h] \in Waiting THEN "lost" ELSE pc[h]]
    /\ at' = [h \in Handlers |-> 0]
    /\ cleaner' = [step |-> "auth", cutoff |-> Unix(now)]
    /\ up' = FALSE
    /\ UNCHANGED <<now, pages, edits, logins, tables, gone, call, held, subject, answer, late>>

Listen ==
    /\ ~up /\ cleaner = Idle
    /\ up' = TRUE
    /\ UNCHANGED <<now, pages, edits, logins, tables, flow, gone, handlers, cleaner, faults>>

-----------------------------------------------------------------------------

AdvanceFlow(f) ==
    Discover(f) \/ Reject(f) \/ CreateAuthRequest(f) \/ CreateAuthRequestFails(f)

Advance(h) ==
    \/ FindAuthRequest(h) \/ CompleteAuth(h) \/ CompleteAuthFails(h)
    \/ FindConsent(h) \/ FindFails(h)
    \/ StoreConsent(h) \/ StoreFails(h)
    \/ \E c \in Codes, t \in at[h]..now : StoreCode(h, c, t)
    \/ Finish(h) \/ FinishWithoutDelete(h)

Clean == CleanupAuthRequests \/ CleanupConsents \/ CleanupCodes \/ CleanupFails

Next ==
    \/ Tick
    \/ \E p \in PageMes, s \in Subjects \cup {NoSubject} : EditPage(p, s)
    \/ \E f \in Flows : \/ BeginSetup(f)
                        \/ \E form \in Forms : BeginAuthorize(f, form)
                        \/ AdvanceFlow(f)
                        \/ \E l \in Logins, s \in Subjects : ProviderLogin(f, l, s)
    \/ \E b \in Callbacks, f \in Flows, l \in Logins \cup {NoLogin} : BeginCallback(b, f, l)
    \/ \E p \in Posts, b \in Callbacks, csrf, approve \in BOOLEAN : BeginPost(p, b, csrf, approve)
    \/ \E h \in Handlers : Advance(h)
    \/ CleanupBegin \/ Clean \/ Crash \/ Listen

Spec == Init /\ [][Next]_vars

(***************************************************************************)
(* Goroutines, the connection pool and the cleanup ticker make progress    *)
(* and time passes; users, clients and page owners need not do anything,   *)
(* nor need the provider answer, which the code asks without a timeout.    *)
(***************************************************************************)
FairSpec ==
    /\ Spec
    /\ \A h \in Handlers : WF_vars(pc[h] # "complete" /\ Advance(h))
    /\ WF_vars(Tick) /\ WF_vars(CleanupBegin) /\ WF_vars(Clean) /\ WF_vars(Listen)

-----------------------------------------------------------------------------
(***************************************************************************)
(* Properties.                                                             *)
(***************************************************************************)
\* The callback, and the flow, that a code goes back to.
CallbackOf(c) == LET h == issued[c].by IN IF h \in Callbacks THEN h ELSE call[h].consent
FlowOf(c) == call[CallbackOf(c)].state

\* A code is issued only for a user who signed in on the very flow it answers and
\* whose subject the profile allowed when the flow began: mixing the state of one
\* flow with the sign-in of another, or editing the page in between, changes
\* nothing (handleCallback, CompleteAuth, the snapshot of handleAuthorize).
CodeForAuthenticatedUser ==
    \A c \in DOMAIN issued :
        LET f == flow[FlowOf(c)]
            l == logins[call[CallbackOf(c)].login]
        IN  /\ l.nonce = FlowOf(c) /\ l.spent
            /\ IF f.form.me \in StaticMes THEN l.subject \in AllowedSubjects[f.form.me]
               ELSE l.subject = f.bound

\* A code carries the client, redirect, scope and challenge of its own
\* authorization request, never of a setup, and exists only with the user's
\* approval when consent is required (handleCallback, handleConsentPost).
CodeForAskedGrant ==
    \A c \in DOMAIN issued :
        LET f == flow[FlowOf(c)]
            h == issued[c].by
        IN  /\ f.kind # "setup"
            /\ issued[c].grant = GrantOf(f.form)
            /\ ConsentRequired => h \in Posts /\ call[h].approve /\ call[h].csrf

\* Once a handler has deleted its request or consent and answered, a later one
\* for the same state or consent gets nowhere, whatever the first one decided:
\* no second code, no approval after a denial.
LateIsInvalid ==
    \A h \in Handlers : late[h] => pc[h] \in {"find", "done", "lost"} /\ answer[h] \in {"none", "invalid"}

EndingFor(k) == \E h \in Handlers : pc[h] = "delete" /\ pc'[h] = "done" /\ KeyOf(h) = k

\* A pending request or consent disappears only when a handler that is through
\* with it deletes it, or when the present clock is past its lifetime.
PendingRowsStay ==
    [][/\ \A f \in DOMAIN authRequests \ DOMAIN authRequests' :
             EndingFor(f) \/ now >= authRequests[f].expiresAt * Second
       /\ \A b \in DOMAIN consents \ DOMAIN consents' :
             EndingFor(b) \/ now >= consents[b].expiresAt * Second]_vars

\* Every handler ends, unless the provider keeps its callback waiting for ever: then
\* the others do (handleCallback, handleConsentPost).
HandlersEnd ==
    \A h \in Handlers :
        pc[h] \in Waiting \ {"complete"} ~> pc[h] \in {"complete", "done", "lost"}

WillExpire(table, k) == k \in DOMAIN table /\ table[k].expiresAt <= Unix(MaxTime)

\* No pending request or consent stays for ever, also those whose handler died, waits
\* at the provider or failed to delete them (of those that expire before the bounded clock ends).
PendingRowsPurged ==
    /\ \A f \in Flows : WillExpire(authRequests, f) ~> f \notin DOMAIN authRequests
    /\ \A b \in Callbacks : WillExpire(consents, b) ~> b \notin DOMAIN consents

\* No handler issues two codes, and two codes that go back to one sign-in at the provider
\* are those of two posts that approved the same consent while its record was there: no
\* sign-in is used twice in any other way, although callbacks for one state overlap and
\* an insert that reported an error may have been applied (CompleteAuth exchanges the
\* provider's code once; handleCallback, handleConsentPost, issueCodeAndRedirect).
CodesApart ==
    \A c, d \in DOMAIN issued : c # d =>
        LET g == issued[c].by
            h == issued[d].by
        IN  /\ g # h
            /\ call[CallbackOf(c)].login = call[CallbackOf(d)].login =>
                 {g, h} \subseteq Posts /\ call[g].consent = call[h].consent
=============================================================================
