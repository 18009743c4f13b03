----------------------------- MODULE TestClient -----------------------------
(***************************************************************************)
(* The embedded IndieAuth client: handleTestStart and handleTestCallback   *)
(* of internal/http/tools.go, with DiscoverAuthorizationServer of          *)
(* internal/indieauth/server_discovery.go, in one browser whose tabs run   *)
(* several tests at once against several authorization servers.            *)
(*                                                                         *)
(* The client keeps nothing: a test's state is sealed into the one cookie  *)
(* iab_test_client.  The cookie is set and cleared by responses, so it     *)
(* changes when these arrive at the browser, not when a handler decides.   *)
(* A test is identified with its random state value and code verifier.     *)
(***************************************************************************)
EXTENDS Store

CONSTANTS
    Tests, NoTest, Callbacks,       \* requests, each used once
    Codes, NoCode,                  \* codes of the authorization servers, never repeated
    Servers, NoServer,              \* who answers for an endpoint or an issuer
    Documents, NoDocument,          \* metadata: issuer and endpoints, as the servers behind them
    Pages,                          \* profiles: a metadata link and endpoint links
    AuthRequestTTL,
    MaxTime, MaxFaults              \* bounds: the clock, failures and restarts

ASSUME NameAssumption ==
    NoTest \notin Tests /\ NoCode \notin Codes /\ NoServer \notin Servers /\ NoDocument \notin Documents

ASSUME DocumentAssumption ==
    LET Answers == Servers \cup {NoServer}
    IN  /\ \A d \in Documents : {d.issuer, d.authorization, d.token} \subseteq Answers
        /\ \A p \in Pages : /\ p.metadata \in Documents \cup {NoDocument}
                            /\ {p.authorization, p.token} \subseteq Answers

ASSUME BoundAssumption == AuthRequestTTL \in Nat \ {0} /\ {MaxTime, MaxFaults} \subseteq Nat

VARIABLES
    now,
    step,       \* each test: how far it is
    found,      \* each test: the AuthorizationServer discovered, and the expiry
    begun,      \* history: each test's clock reading when its state was sealed
    jar,        \* the test whose state the browser's cookie holds
    codes,      \* the codes that servers have issued
    pc, cookie,     \* each callback: next step, and the test of the cookie it came with
    asked, code, responder,         \* each callback: state, code and iss of its query
    sent,       \* each callback: what it posted to a token endpoint
    late,       \* history: had one for the same state been answered when it began
    answered,   \* history: tests that answered callbacks asked for, or held the cookie of
    faults

testing   == <<step, found, begun>>
callbacks == <<pc, cookie, asked, code, responder, sent, late, answered>>
vars      == <<now, testing, jar, codes, callbacks, faults>>

NoState  == [authorization |-> NoServer, token |-> NoServer, issuer |-> NoServer,
             legacy |-> FALSE, expiresAt |-> 0]
NotSent  == [to |-> NoServer, verifier |-> NoTest]

TypeOK ==
    /\ now \in Nat /\ faults \in Nat
    /\ step \in [Tests -> {"idle", "discover", "redirect", "started", "failed"}]
    /\ found \in [Tests -> [authorization : Servers \cup {NoServer}, token : Servers \cup {NoServer},
                            issuer : Servers \cup {NoServer}, legacy : BOOLEAN, expiresAt : Nat]]
    /\ begun \in [Tests -> Nat]
    /\ jar \in Tests \cup {NoTest}
    /\ IsTable(codes, Codes, [state : Tests, by : Servers, challenge : Tests \cup {NoTest}])
    /\ pc \in [Callbacks -> {"idle", "check", "connect", "exchange", "respond", "done", "lost"}]
    /\ cookie \in [Callbacks -> Tests \cup {NoTest}]
    /\ asked \in [Callbacks -> Tests \cup {NoTest}]
    /\ code \in [Callbacks -> Codes \cup {NoCode}]
    /\ responder \in [Callbacks -> Servers \cup {NoServer}]
    /\ sent \in [Callbacks -> [to : Servers \cup {NoServer}, verifier : Tests \cup {NoTest}]]
    /\ late \in [Callbacks -> BOOLEAN]
    /\ answered \subseteq Tests

Init ==
    /\ now = 0 /\ faults = 0
    /\ step = [t \in Tests |-> "idle"]
    /\ found = [t \in Tests |-> NoState]
    /\ begun = [t \in Tests |-> 0]
    /\ jar = NoTest
    /\ codes = [c \in {} |-> NoState]
    /\ pc = [b \in Callbacks |-> "idle"]
    /\ cookie = [b \in Callbacks |-> NoTest]
    /\ asked = [b \in Callbacks |-> NoTest]
    /\ code = [b \in Callbacks |-> NoCode]
    /\ responder = [b \in Callbacks |-> NoServer]
    /\ sent = [b \in Callbacks |-> NotSent]
    /\ late = [b \in Callbacks |-> FALSE]
    /\ answered = {}

Fault == faults < MaxFaults /\ faults' = faults + 1

Tick ==
    /\ now < MaxTime
    /\ now' = now + 1
    /\ UNCHANGED <<testing, jar, codes, callbacks, faults>>

-----------------------------------------------------------------------------
(***************************************************************************)
(* POST /test/start.                                                       *)
(***************************************************************************)
\* A metadata document replaces the links of the page, also by what it leaves out.
Advertised(page) ==
    IF page.metadata = NoDocument
    THEN [issuer |-> NoServer, authorization |-> page.authorization, token |-> page.token]
    ELSE page.metadata

\* Without a token endpoint the old verification at the authorization endpoint is
\* all the server can do.
TestState(page) ==
    LET a == Advertised(page)
    IN  [authorization |-> a.authorization, token |-> a.token, issuer |-> a.issuer,
         legacy |-> a.token = NoServer, expiresAt |-> ExpiresAt(now, AuthRequestTTL)]

BeginTest(t) ==
    /\ step[t] = "idle"
    /\ step' = [step EXCEPT ![t] = "discover"]
    /\ UNCHANGED <<now, found, begun, jar, codes, callbacks, faults>>

\* The page and the document are fetched, the state is sealed into the response.
Discover(t, page) ==
    /\ step[t] = "discover"
    /\ Advertised(page).authorization # NoServer
    /\ step' = [step EXCEPT ![t] = "redirect"]
    /\ found' = [found EXCEPT ![t] = TestState(page)]
    /\ begun' = [begun EXCEPT ![t] = now]
    /\ UNCHANGED <<now, jar, codes, callbacks, faults>>

\* An error page, which leaves the cookie alone: nothing was advertised, or a fetch
\* failed or took longer than its five seconds.
DiscoverFails(t) ==
    /\ step[t] = "discover"
    /\ \/ (\E page \in Pages : Advertised(page).authorization = NoServer) /\ UNCHANGED faults
       \/ Fault
    /\ step' = [step EXCEPT ![t] = "failed"]
    /\ UNCHANGED <<now, found, begun, jar, codes, callbacks>>

\* The browser takes the cookie, in place of any other test's, and follows the redirect.
FollowRedirect(t) ==
    /\ step[t] = "redirect"
    /\ step' = [step EXCEPT ![t] = "started"]
    /\ jar' = t
    /\ UNCHANGED <<now, found, begun, codes, callbacks, faults>>

(***************************************************************************)
(* The server of the authorization endpoint, or one it hands the user on   *)
(* to, issues codes for the state, bound to the challenge that was sent.   *)
(***************************************************************************)
IssueCode(t, c, s) ==
    /\ step[t] = "started"
    /\ c \notin DOMAIN codes
    /\ codes' = Insert(codes, c, [state |-> t, by |-> s,
                                  challenge |-> IF found[t].legacy THEN NoTest ELSE t])
    /\ UNCHANGED <<now, testing, jar, callbacks, faults>>

\* Cookies expire, and are evicted, when the browser likes.
DropCookie ==
    /\ jar # NoTest
    /\ jar' = NoTest
    /\ UNCHANGED <<now, testing, codes, callbacks, faults>>

-----------------------------------------------------------------------------
(***************************************************************************)
(* GET /test/callback, with the code and iss of a server's redirect, with  *)
(* an error, or again.                                                     *)
(***************************************************************************)
BeginCallback(b, t, c) ==
    /\ pc[b] = "idle"
    /\ step[t] = "started"
    /\ c # NoCode => c \in DOMAIN codes /\ codes[c].state = t
    /\ pc' = [pc EXCEPT ![b] = "check"]
    /\ cookie' = [cookie EXCEPT ![b] = jar]
    /\ asked' = [asked EXCEPT ![b] = t]
    /\ code' = [code EXCEPT ![b] = c]
    /\ responder' = [responder EXCEPT ![b] = IF c = NoCode THEN NoServer ELSE codes[c].by]
    /\ late' = [late EXCEPT ![b] = t \in answered]
    /\ UNCHANGED <<now, testing, jar, codes, sent, answered, faults>>

\* An error in place of a code is refused as well.
Matches(b) == asked[b] = cookie[b] /\ code[b] # NoCode

\* Fault: the state in the query is not compared.
Acceptable_AnyState(b) ==
    /\ cookie[b] # NoTest
    /\ Unix(now) <= found[cookie[b]].expiresAt
    /\ code[b] # NoCode
    /\ found[cookie[b]].issuer # NoServer => responder[b] = found[cookie[b]].issuer

\* Fault: the expiry is left to the browser.
Acceptable_NoExpiry(b) ==
    /\ cookie[b] # NoTest
    /\ Matches(b)
    /\ found[cookie[b]].issuer # NoServer => responder[b] = found[cookie[b]].issuer

\* Every server names itself in iss, where this client compares it only with an
\* issuer it discovered.
Acceptable(b) ==
    /\ cookie[b] # NoTest
    /\ Unix(now) <= found[cookie[b]].expiresAt
    /\ Matches(b)
    /\ found[cookie[b]].issuer # NoServer => responder[b] = found[cookie[b]].issuer

ExchangeForm(b) ==
    LET s == found[cookie[b]]
    IN  IF s.legacy THEN [to |-> s.authorization, verifier |-> NoTest]
        ELSE [to |-> s.token, verifier |-> cookie[b]]

\* The cookie, opened and compared with the query and the clock.
CheckCallback(b) ==
    /\ pc[b] = "check"
    /\ pc' = [pc EXCEPT ![b] = IF Acceptable(b) THEN "connect" ELSE "respond"]
    /\ UNCHANGED <<now, testing, jar, codes, cookie, asked, code, responder, sent, late, answered,
                   faults>>

\* The name of the endpoint's host was looked up; the form is posted to it.
PostCode(b) ==
    /\ pc[b] = "connect"
    /\ pc' = [pc EXCEPT ![b] = "exchange"]
    /\ sent' = [sent EXCEPT ![b] = ExchangeForm(b)]
    /\ UNCHANGED <<now, testing, jar, codes, cookie, asked, code, responder, late, answered, faults>>

\* The lookup failed, and nothing was posted; or there is an answer, whatever it says,
\* an error, or the ten seconds are over.
Exchanged(b) ==
    /\ pc[b] \in {"connect", "exchange"}
    /\ pc' = [pc EXCEPT ![b] = "respond"]
    /\ UNCHANGED <<now, testing, jar, codes, cookie, asked, code, responder, sent, late, answered,
                   faults>>

\* Fault: the cookie is cleared only by a result, not by an error page.
Respond_KeepsCookie(b) ==
    /\ pc[b] = "respond"
    /\ pc' = [pc EXCEPT ![b] = "done"]
    /\ jar' = IF sent[b] = NotSent THEN jar ELSE NoTest
    /\ answered' = answered \cup ({asked[b], cookie[b]} \ {NoTest})
    /\ UNCHANGED <<now, testing, codes, cookie, asked, code, responder, sent, late, faults>>

\* Result or error, the response clears the cookie that the browser then has,
\* which may by now be that of a test started meanwhile.
Respond(b) ==
    /\ pc[b] = "respond"
    /\ pc' = [pc EXCEPT ![b] = "done"]
    /\ jar' = NoTest
    /\ answered' = answered \cup ({asked[b], cookie[b]} \ {NoTest})
    /\ UNCHANGED <<now, testing, codes, cookie, asked, code, responder, sent, late, faults>>

\* The process dies: no response, so the cookie stays, and is good for the next.
Restart ==
    /\ Fault
    /\ pc' = [b \in Callbacks |-> IF pc[b] \in {"check", "connect", "exchange", "respond"}
                               THEN "lost" ELSE pc[b]]
    /\ step' = [t \in Tests |-> IF step[t] \in {"discover", "redirect"} THEN "failed" ELSE step[t]]
    /\ UNCHANGED <<now, found, begun, jar, codes, cookie, asked, code, responder, sent, late, answered>>

-----------------------------------------------------------------------------

Next ==
    \/ Tick \/ DropCookie \/ Restart
    \/ \E t \in Tests : \/ BeginTest(t) \/ DiscoverFails(t) \/ FollowRedirect(t)
                        \/ \E page \in Pages : Discover(t, page)
                        \/ \E c \in Codes, s \in Servers : IssueCode(t, c, s)
    \/ \E b \in Callbacks : \/ \E t \in Tests, c \in Codes \cup {NoCode} : BeginCallback(b, t, c)
                            \/ CheckCallback(b) \/ PostCode(b) \/ Exchanged(b) \/ Respond(b)

Spec == Init /\ [][Next]_vars

-----------------------------------------------------------------------------
(***************************************************************************)
(* Properties.                                                             *)
(***************************************************************************)
\* A code is posted only for the test whose challenge it is bound to, with the
\* verifier of that test, and, when the server was discovered with an issuer, only
\* if that issuer made it and to the endpoints of the same metadata document; the
\* tabs may replace each other's cookie at any time (README: "Validate callback
\* state and the authorization issuer when the server advertises one").
CodeGoesHome ==
    \A b \in Callbacks : sent[b] # NotSent =>
        LET made == codes[code[b]]
            s == found[made.state]
        IN  /\ sent[b].verifier = made.challenge
            /\ s.issuer # NoServer => /\ made.by = s.issuer
                                      /\ \E d \in Documents : /\ d.issuer = s.issuer
                                                              /\ sent[b].to \in {d.authorization, d.token}

\* After a callback has been answered, result or error, its test is over: a reload
\* or another response with the same state posts nothing any more, with another code,
\* beside another test, or after a restart, although all that says so is the cookie
\* that the answer cleared (handleTestCallback).
AnsweredIsOver == \A b \in Callbacks : late[b] => sent[b] = NotSent

\* A response is accepted within the lifetime of its test and the second that the
\* sealed expiry loses to truncation, whatever the browser does with Max-Age
\* (handleTestCallback).
AcceptedInTime ==
    [][\A b \in Callbacks : pc[b] = "check" /\ pc'[b] = "connect" =>
          now < begun[cookie[b]] + AuthRequestTTL + Second]_vars
=============================================================================
