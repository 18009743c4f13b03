-------------------------- MODULE TestClientProofs --------------------------
(***************************************************************************)
(* Theorems about TestClient: for any number of tests in a browser's tabs, *)
(* of callbacks, servers, documents and pages, and whatever replaces or    *)
(* clears the one cookie they share.                                       *)
(***************************************************************************)
EXTENDS TestClient, TLAPS

(***************************************************************************)
(* The inductive invariant.  A test that has started keeps what it         *)
(* discovered, which is one document or the links of a page; a code is     *)
(* bound to the test it was issued for; a callback posts what its cookie   *)
(* says.  A test that was answered is never again the one in the cookie:   *)
(* every response clears it, and a test sets it once.                      *)
(***************************************************************************)
Discovered(t) ==
    LET s == found[t]
    IN  /\ s.legacy <=> s.token = NoServer
        /\ s.issuer # NoServer =>
             \E d \in Documents : d.issuer = s.issuer /\ s.authorization = d.authorization
                                                      /\ s.token = d.token
        /\ s.expiresAt = ExpiresAt(begun[t], AuthRequestTTL)

StartedTests == \A t \in Tests : step[t] \in {"redirect", "started"} => Discovered(t)

CookieStarted == jar # NoTest => step[jar] = "started"

CodesBound ==
    \A c \in DOMAIN codes :
        LET t == codes[c].state
        IN  /\ step[t] = "started"
            /\ codes[c].challenge = IF found[t].legacy THEN NoTest ELSE t

CallbackShape ==
    \A b \in Callbacks :
        /\ pc[b] = "idle" => cookie[b] = NoTest /\ code[b] = NoCode
        /\ pc[b] \in {"idle", "check", "connect"} => sent[b] = NotSent
        /\ pc[b] # "idle" => asked[b] \in Tests /\ step[asked[b]] = "started"
        /\ cookie[b] # NoTest => step[cookie[b]] = "started"
        /\ code[b] # NoCode => /\ code[b] \in DOMAIN codes /\ responder[b] = codes[code[b]].by
                               /\ codes[code[b]].state = asked[b]

PostsWhatItHolds ==
    \A b \in Callbacks :
        /\ pc[b] = "connect" \/ sent[b] # NotSent =>
             /\ cookie[b] # NoTest /\ Matches(b)
             /\ found[cookie[b]].issuer # NoServer => responder[b] = found[cookie[b]].issuer
        /\ sent[b] # NotSent => sent[b] = ExchangeForm(b)

AnsweredForGood ==
    /\ \A t \in answered : step[t] = "started"
    /\ jar \notin answered
    /\ \A b \in Callbacks : late[b] => pc[b] # "idle" /\ asked[b] # cookie[b]

TestInv ==
    /\ TypeOK
    /\ StartedTests
    /\ CookieStarted
    /\ CodesBound
    /\ CallbackShape
    /\ PostsWhatItHolds
    /\ AnsweredForGood
-----------------------------------------------------------------------------
\* A reading lies within the second that it is truncated to.
LEMMA UnixBounds ==
    ASSUME NEW t \in Nat
    PROVE  /\ Unix(t) \in Nat /\ Unix(t) * Second \in Nat
           /\ Unix(t) * Second <= t /\ t < Unix(t) * Second + Second
BY SecondAssumption DEF Unix

\* What a page or its document leads to: a state of one document, or of links only.
LEMMA TestStateType ==
    ASSUME NEW page \in Pages, now \in Nat
    PROVE  LET s == TestState(page)
           IN  /\ s \in [authorization : Servers \cup {NoServer}, token : Servers \cup {NoServer},
                         issuer : Servers \cup {NoServer}, legacy : BOOLEAN, expiresAt : Nat]
               /\ s.legacy <=> s.token = NoServer
               /\ s.issuer # NoServer =>
                    \E d \in Documents : d.issuer = s.issuer /\ s.authorization = d.authorization
                                                             /\ s.token = d.token
               /\ s.expiresAt = ExpiresAt(now, AuthRequestTTL)
<1>1. /\ Advertised(page).authorization \in Servers \cup {NoServer}
      /\ Advertised(page).token \in Servers \cup {NoServer}
      /\ Advertised(page).issuer \in Servers \cup {NoServer}
      /\ Advertised(page).issuer # NoServer => Advertised(page) \in Documents
  <2>1. CASE page.metadata = NoDocument
    BY <2>1, DocumentAssumption DEF Advertised
  <2>2. CASE page.metadata # NoDocument
    BY <2>2, DocumentAssumption DEF Advertised
  <2> QED  BY <2>1, <2>2
<1>2. ExpiresAt(now, AuthRequestTTL) \in Nat
  BY UnixBounds, BoundAssumption DEF ExpiresAt
<1> QED  BY <1>1, <1>2 DEF TestState

(***************************************************************************)
(* What every step leaves in place: started tests, codes, and what a       *)
(* callback was called with.                                               *)
(***************************************************************************)
Settles ==
    /\ \A t \in Tests : step[t] = "started" =>
         step'[t] = "started" /\ found'[t] = found[t] /\ begun'[t] = begun[t]
    /\ \A c \in DOMAIN codes : c \in DOMAIN codes' /\ codes'[c] = codes[c]

\* Only the response to /test/start changes a test.
LEMMA StepSettles == TestInv /\ [Next]_vars => Settles
<1> SUFFICES ASSUME TestInv, [Next]_vars PROVE Settles
  OBVIOUS
<1> USE DEF vars, testing, callbacks
<1>1. ASSUME UNCHANGED <<testing, codes>> PROVE Settles
  BY <1>1 DEF Settles
<1>2. ASSUME NEW t \in Tests, BeginTest(t) \/ DiscoverFails(t) \/ FollowRedirect(t)
      PROVE  Settles
  BY <1>2 DEF BeginTest, DiscoverFails, FollowRedirect, Settles, TestInv, TypeOK
<1>3. ASSUME NEW t \in Tests, NEW page \in Pages, Discover(t, page) PROVE Settles
  BY <1>3 DEF Discover, Settles, TestInv, TypeOK
<1>4. ASSUME NEW t \in Tests, NEW c \in Codes, NEW s \in Servers, IssueCode(t, c, s) PROVE Settles
  BY <1>4 DEF IssueCode, Insert, Settles
<1>5. CASE Restart
  BY <1>5 DEF Restart, Settles
<1> QED
  BY <1>1, <1>2, <1>3, <1>4, <1>5
     DEF Next, Tick, DropCookie, BeginCallback, CheckCallback, PostCode, Exchanged, Respond

\* Nothing has happened yet.
LEMMA TestInit == Init => TestInv
<1> SUFFICES ASSUME Init PROVE TestInv
  OBVIOUS
<1>1. TypeOK
  BY DEF Init, TypeOK, NoState, NotSent, IsTable
<1>2. StartedTests /\ CookieStarted /\ CodesBound /\ CallbackShape /\ PostsWhatItHolds /\ AnsweredForGood
  BY DEF Init, StartedTests, CookieStarted, CodesBound, CallbackShape, PostsWhatItHolds, AnsweredForGood
<1> QED  BY <1>1, <1>2 DEF TestInv

\* The types.
LEMMA TypeNext == TestInv /\ [Next]_vars => TypeOK'
<1> SUFFICES ASSUME TestInv, [Next]_vars PROVE TypeOK'
  OBVIOUS
<1> USE DEF vars, testing, callbacks
<1>t. TypeOK
  BY DEF TestInv
<1>1. CASE Tick \/ DropCookie \/ UNCHANGED vars
  BY <1>1, <1>t DEF Tick, DropCookie, TypeOK
<1>2. CASE Restart
  <2>1. pc' \in [Callbacks -> {"idle", "check", "connect", "exchange", "respond", "done", "lost"}]
    BY <1>2, <1>t DEF Restart, TypeOK
  <2>2. step' \in [Tests -> {"idle", "discover", "redirect", "started", "failed"}]
    BY <1>2, <1>t DEF Restart, TypeOK
  <2> QED  BY <1>2, <1>t, <2>1, <2>2 DEF Restart, Fault, TypeOK
<1>3. ASSUME NEW t \in Tests, BeginTest(t) \/ DiscoverFails(t) \/ FollowRedirect(t) PROVE TypeOK'
  BY <1>3, <1>t DEF BeginTest, DiscoverFails, FollowRedirect, Fault, TypeOK
<1>4. ASSUME NEW t \in Tests, NEW page \in Pages, Discover(t, page) PROVE TypeOK'
  BY <1>4, <1>t, TestStateType DEF Discover, TypeOK
<1>5. ASSUME NEW t \in Tests, NEW c \in Codes, NEW s \in Servers, IssueCode(t, c, s) PROVE TypeOK'
  <2>1. [state |-> t, by |-> s, challenge |-> IF found[t].legacy THEN NoTest ELSE t]
          \in [state : Tests, by : Servers, challenge : Tests \cup {NoTest}]
    OBVIOUS
  <2> QED  BY <1>5, <1>t, <2>1 DEF IssueCode, Insert, IsTable, TypeOK
<1>6. ASSUME NEW b \in Callbacks PROVE
        /\ \A t \in Tests, c \in Codes \cup {NoCode} : BeginCallback(b, t, c) => TypeOK'
        /\ CheckCallback(b) \/ PostCode(b) \/ Exchanged(b) \/ Respond(b) => TypeOK'
  <2>1. ASSUME NEW t \in Tests, NEW c \in Codes \cup {NoCode}, BeginCallback(b, t, c) PROVE TypeOK'
    <3>1. c # NoCode => codes[c].by \in Servers
      BY <2>1, <1>t DEF BeginCallback, IsTable, TypeOK
    <3> QED  BY <2>1, <1>t, <3>1 DEF BeginCallback, TypeOK
  <2>2. CASE CheckCallback(b)
    BY <2>2, <1>t DEF CheckCallback, TypeOK
  <2>5. CASE PostCode(b)
    <3>1. cookie[b] \in Tests
      BY <2>5, <1>t DEF PostCode, TestInv, PostsWhatItHolds, TypeOK
    <3>2. ExchangeForm(b) \in [to : Servers \cup {NoServer}, verifier : Tests \cup {NoTest}]
      BY <1>t, <3>1 DEF ExchangeForm, TypeOK
    <3> QED  BY <2>5, <1>t, <3>2 DEF PostCode, TypeOK
  <2>3. CASE Exchanged(b)
    BY <2>3, <1>t DEF Exchanged, TypeOK
  <2>4. CASE Respond(b)
    BY <2>4, <1>t DEF Respond, TypeOK
  <2> QED  BY <2>1, <2>2, <2>3, <2>4, <2>5
<1> QED  BY <1>1, <1>2, <1>3, <1>4, <1>5, <1>6 DEF Next

\* StartedTests and CookieStarted: the browser has the cookie only of a test whose state was sealed.
LEMMA TestsNext == TestInv /\ [Next]_vars => StartedTests' /\ CookieStarted'
<1> SUFFICES ASSUME TestInv, [Next]_vars PROVE StartedTests' /\ CookieStarted'
  OBVIOUS
<1> USE DEF vars, testing, callbacks
<1>1. ASSUME NEW t \in Tests, step'[t] \in {"redirect", "started"} PROVE Discovered(t)'
  <2>1. CASE step[t] \in {"redirect", "started"} /\ UNCHANGED <<found[t], begun[t]>>
    <3>1. Discovered(t)
      BY <2>1 DEF TestInv, StartedTests
    <3> QED  BY <2>1, <3>1 DEF Discovered, ExpiresAt, Unix
  <2>2. ASSUME NEW page \in Pages, Discover(t, page) PROVE Discovered(t)'
    <3>1. found'[t] = TestState(page) /\ begun'[t] = now /\ now \in Nat
      BY <2>2 DEF Discover, TestInv, TypeOK
    <3> QED  BY <3>1, TestStateType DEF Discovered, ExpiresAt, Unix
  <2>3. ASSUME NEW u \in Tests \ {t}, NEW page \in Pages, Discover(u, page)
        PROVE  UNCHANGED <<step[t], found[t], begun[t]>>
    BY <2>3 DEF Discover, TestInv, TypeOK
  <2>4. ASSUME NEW u \in Tests, BeginTest(u) \/ DiscoverFails(u) \/ FollowRedirect(u)
        PROVE  step[t] \in {"redirect", "started"} /\ UNCHANGED <<found, begun>>
    BY <1>1, <2>4 DEF BeginTest, DiscoverFails, FollowRedirect, TestInv, TypeOK
  <2>5. CASE Restart
    BY <1>1, <2>1, <2>5 DEF Restart
  <2> QED
    BY <1>1, <2>1, <2>2, <2>3, <2>4, <2>5 DEF Next, Tick, DropCookie, IssueCode, BeginCallback,
       CheckCallback, PostCode, Exchanged, Respond
<1>2. CookieStarted'
  <2>1. jar' \in {jar, NoTest} \/ \E t \in Tests : FollowRedirect(t)
    BY DEF Next, Tick, DropCookie, Restart, BeginTest, DiscoverFails, Discover, IssueCode,
       BeginCallback, CheckCallback, PostCode, Exchanged, Respond
  <2>2. ASSUME NEW t \in Tests, FollowRedirect(t) PROVE CookieStarted'
    BY <2>2 DEF FollowRedirect, CookieStarted, TestInv, TypeOK
  <2>3. CASE jar' \in {jar, NoTest}
    BY <2>3, StepSettles DEF Settles, CookieStarted, TestInv, TypeOK
  <2> QED  BY <2>1, <2>2, <2>3
<1> QED  BY <1>1, <1>2 DEF StartedTests

\* CodesBound: a code is issued for a started test, and bound to its challenge.
LEMMA CodesBoundNext == TestInv /\ [Next]_vars => CodesBound'
<1> SUFFICES ASSUME TestInv, [Next]_vars, NEW c \in DOMAIN codes'
             PROVE  /\ step'[codes'[c].state] = "started"
                    /\ codes'[c].challenge = IF found'[codes'[c].state].legacy THEN NoTest
                                             ELSE codes'[c].state
  BY DEF CodesBound
<1> USE DEF vars, testing, callbacks
<1>1. Settles
  BY StepSettles
<1>2. CASE c \in DOMAIN codes
  <2>1. /\ codes[c].state \in Tests /\ step[codes[c].state] = "started"
        /\ codes[c].challenge = IF found[codes[c].state].legacy THEN NoTest ELSE codes[c].state
    BY <1>2 DEF TestInv, CodesBound, TypeOK, IsTable
  <2> QED  BY <1>1, <1>2, <2>1 DEF Settles
<1>3. CASE c \notin DOMAIN codes
  <2>1. PICK t \in Tests, d \in Codes, s \in Servers : IssueCode(t, d, s)
    BY <1>3 DEF Next, Tick, DropCookie, Restart, BeginTest, DiscoverFails, FollowRedirect, Discover,
       BeginCallback, CheckCallback, PostCode, Exchanged, Respond
  <2>2. /\ c = d /\ step[t] = "started" /\ UNCHANGED <<step, found>>
        /\ codes'[c] = [state |-> t, by |-> s, challenge |-> IF found[t].legacy THEN NoTest ELSE t]
    BY <1>3, <2>1 DEF IssueCode, Insert
  <2> QED  BY <2>2
<1> QED  BY <1>2, <1>3

\* A callback that makes no step of its own stays as it is or is lost.
CallbackKept(b) ==
    /\ pc'[b] = pc[b] \/ (pc[b] # "idle" /\ pc'[b] = "lost")
    /\ cookie'[b] = cookie[b] /\ asked'[b] = asked[b]
    /\ code'[b] = code[b] /\ responder'[b] = responder[b]
    /\ sent'[b] = sent[b] /\ late'[b] = late[b]

\* Of the records of callbacks, only those of the one that steps change.
LEMMA CallbacksNext ==
    ASSUME TestInv, [Next]_vars, NEW b \in Callbacks
    PROVE  \/ CallbackKept(b)
           \/ \E t \in Tests, c \in Codes \cup {NoCode} : BeginCallback(b, t, c)
           \/ CheckCallback(b) \/ PostCode(b) \/ Exchanged(b) \/ Respond(b)
<1> USE DEF vars, testing, callbacks
<1>1. ASSUME UNCHANGED callbacks PROVE CallbackKept(b)
  BY <1>1 DEF CallbackKept
<1>2. ASSUME NEW a \in Callbacks \ {b}, NEW t \in Tests, NEW c \in Codes \cup {NoCode},
             BeginCallback(a, t, c)
      PROVE  CallbackKept(b)
  BY <1>2 DEF BeginCallback, CallbackKept, TestInv, TypeOK
<1>3. ASSUME NEW a \in Callbacks \ {b}, CheckCallback(a) \/ PostCode(a) \/ Exchanged(a) \/ Respond(a)
      PROVE  CallbackKept(b)
  BY <1>3 DEF CheckCallback, PostCode, Exchanged, Respond, CallbackKept, TestInv, TypeOK
<1>4. CASE Restart
  BY <1>4 DEF Restart, CallbackKept
<1> QED
  BY <1>1, <1>2, <1>3, <1>4 DEF Next, Tick, DropCookie, BeginTest, DiscoverFails, FollowRedirect,
     Discover, IssueCode

\* CallbackShape: a callback has the cookie and the state of started tests, and a code that
\* was issued for that state.
LEMMA CallbackShapeNext == TestInv /\ [Next]_vars => CallbackShape'
<1> SUFFICES ASSUME TestInv, [Next]_vars, NEW b \in Callbacks
             PROVE  /\ pc'[b] = "idle" => cookie'[b] = NoTest /\ code'[b] = NoCode
                    /\ pc'[b] \in {"idle", "check", "connect"} => sent'[b] = NotSent
                    /\ pc'[b] # "idle" => asked'[b] \in Tests /\ step'[asked'[b]] = "started"
                    /\ cookie'[b] # NoTest => step'[cookie'[b]] = "started"
                    /\ code'[b] # NoCode => /\ code'[b] \in DOMAIN codes'
                                            /\ responder'[b] = codes'[code'[b]].by
                                            /\ codes'[code'[b]].state = asked'[b]
  BY DEF CallbackShape
<1>1. Settles /\ cookie[b] \in Tests \cup {NoTest} /\ jar \in Tests \cup {NoTest}
  BY StepSettles DEF TestInv, TypeOK
<1>2. /\ pc[b] = "idle" => cookie[b] = NoTest /\ code[b] = NoCode
      /\ pc[b] \in {"idle", "check", "connect"} => sent[b] = NotSent
      /\ pc[b] # "idle" => asked[b] \in Tests /\ step[asked[b]] = "started"
      /\ cookie[b] # NoTest => step[cookie[b]] = "started"
      /\ code[b] # NoCode => /\ code[b] \in DOMAIN codes /\ responder[b] = codes[code[b]].by
                             /\ codes[code[b]].state = asked[b]
  BY DEF TestInv, CallbackShape
<1>3. CASE CallbackKept(b)
  BY <1>1, <1>2, <1>3 DEF CallbackKept, Settles
<1>4. ASSUME NEW t \in Tests, NEW c \in Codes \cup {NoCode}, BeginCallback(b, t, c)
      PROVE  /\ pc[b] = "idle" /\ pc'[b] = "check" /\ cookie'[b] = jar /\ code'[b] = c
             /\ asked'[b] = t /\ step[t] = "started"
             /\ sent'[b] = sent[b] /\ UNCHANGED <<step, codes>>
             /\ c # NoCode => /\ c \in DOMAIN codes /\ responder'[b] = codes[c].by
                              /\ codes[c].state = t
  BY <1>4 DEF BeginCallback, TestInv, TypeOK, testing
<1>5. ASSUME CheckCallback(b) \/ PostCode(b) \/ Exchanged(b) \/ Respond(b)
      PROVE  /\ pc[b] # "idle" /\ pc'[b] \in {"connect", "exchange", "respond", "done"}
             /\ pc'[b] = "connect" => pc[b] = "check" /\ sent'[b] = sent[b]
             /\ UNCHANGED <<step, codes, cookie, asked, code, responder>>
  BY <1>5 DEF CheckCallback, PostCode, Exchanged, Respond, TestInv, TypeOK, testing
<1> QED  BY <1>2, <1>3, <1>4, <1>5, CallbacksNext DEF TestInv, CookieStarted

\* PostsWhatItHolds: the check comes before the post, and what it compared does not change.
LEMMA PostsNext == TestInv /\ [Next]_vars => PostsWhatItHolds'
<1> SUFFICES ASSUME TestInv, [Next]_vars, NEW b \in Callbacks,
                    pc'[b] = "connect" \/ sent'[b] # NotSent
             PROVE  /\ cookie'[b] # NoTest /\ Matches(b)'
                    /\ found'[cookie'[b]].issuer # NoServer =>
                         responder'[b] = found'[cookie'[b]].issuer
                    /\ sent'[b] # NotSent => sent'[b] = ExchangeForm(b)'
  BY DEF PostsWhatItHolds
<1>1. Settles
  BY StepSettles
<1>2. /\ cookie[b] # NoTest /\ Matches(b)
      /\ found[cookie[b]].issuer # NoServer => responder[b] = found[cookie[b]].issuer
      /\ sent'[b] # NotSent => sent'[b] = ExchangeForm(b)
      /\ cookie'[b] = cookie[b] /\ asked'[b] = asked[b]
      /\ code'[b] = code[b] /\ responder'[b] = responder[b]
  <2>1. CASE CallbackKept(b)
    BY <2>1 DEF CallbackKept, TestInv, PostsWhatItHolds
  <2>2. ASSUME NEW t \in Tests, NEW c \in Codes \cup {NoCode}, BeginCallback(b, t, c) PROVE FALSE
    BY <2>2 DEF BeginCallback, TestInv, TypeOK, CallbackShape
  <2>3. CASE CheckCallback(b)
    <3>1. sent[b] = NotSent
      BY <2>3 DEF CheckCallback, TestInv, CallbackShape
    <3> QED  BY <2>3, <3>1 DEF CheckCallback, Acceptable, TestInv, TypeOK
  <2>4. CASE PostCode(b)
    BY <2>4 DEF PostCode, TestInv, TypeOK, PostsWhatItHolds
  <2>5. CASE Exchanged(b) \/ Respond(b)
    BY <2>5 DEF Exchanged, Respond, TestInv, TypeOK, PostsWhatItHolds
  <2> QED  BY <2>1, <2>2, <2>3, <2>4, <2>5, CallbacksNext
<1>3. cookie[b] \in Tests /\ step[cookie[b]] = "started"
  BY <1>2 DEF TestInv, CallbackShape, TypeOK
<1>4. found'[cookie[b]] = found[cookie[b]]
  BY <1>1, <1>3 DEF Settles
<1>5. Matches(b)' /\ ExchangeForm(b)' = ExchangeForm(b)
  BY <1>2, <1>4 DEF Matches, ExchangeForm
<1> QED  BY <1>2, <1>4, <1>5

\* AnsweredForGood: the response clears the cookie, and only a new test sets it.
LEMMA AnsweredNext == TestInv /\ [Next]_vars => AnsweredForGood'
<1> SUFFICES ASSUME TestInv, [Next]_vars PROVE AnsweredForGood'
  OBVIOUS
<1> USE DEF vars, testing, callbacks
<1>1. Settles /\ AnsweredForGood /\ answered \subseteq Tests
  BY StepSettles DEF TestInv, TypeOK
<1>2. \/ jar' \in {jar, NoTest} /\ answered' = answered
      \/ \E t \in Tests : FollowRedirect(t)
      \/ \E b \in Callbacks : Respond(b)
  BY DEF Next, Tick, DropCookie, Restart, BeginTest, DiscoverFails, Discover, IssueCode,
     BeginCallback, CheckCallback, PostCode, Exchanged
<1>3. (\A t \in answered' : step'[t] = "started") /\ jar' \notin answered'
  <2>1. CASE jar' \in {jar, NoTest} /\ answered' = answered
    BY <1>1, <2>1, NameAssumption DEF Settles, AnsweredForGood
  <2>2. ASSUME NEW t \in Tests, FollowRedirect(t)
        PROVE  (\A u \in answered' : step'[u] = "started") /\ jar' \notin answered'
    BY <1>1, <2>2 DEF FollowRedirect, Settles, AnsweredForGood
  <2>3. ASSUME NEW b \in Callbacks, Respond(b)
        PROVE  (\A u \in answered' : step'[u] = "started") /\ jar' \notin answered'
    <3>1. /\ cookie[b] \in Tests \cup {NoTest} /\ (cookie[b] # NoTest => step[cookie[b]] = "started")
          /\ asked[b] \in Tests /\ step[asked[b]] = "started"
      BY <2>3 DEF Respond, TestInv, TypeOK, CallbackShape
    <3> QED  BY <1>1, <2>3, <3>1, NameAssumption DEF Respond, Settles, AnsweredForGood
  <2> QED  BY <1>2, <2>1, <2>2, <2>3
\* A callback for a test that is over comes with the cookie of another, or with none.
<1>4. ASSUME NEW b \in Callbacks, late'[b] PROVE pc'[b] # "idle" /\ asked'[b] # cookie'[b]
  <2>1. ASSUME NEW t \in Tests, NEW c \in Codes \cup {NoCode}, BeginCallback(b, t, c)
        PROVE  pc'[b] # "idle" /\ asked'[b] # cookie'[b]
    <3>1. /\ pc'[b] = "check" /\ asked'[b] = t /\ cookie'[b] = jar /\ late'[b] = (t \in answered)
      BY <2>1 DEF BeginCallback, TestInv, TypeOK
    <3> QED  BY <1>1, <1>4, <3>1 DEF AnsweredForGood
  <2>2. CASE CallbackKept(b)
    BY <1>1, <1>4, <2>2 DEF CallbackKept, AnsweredForGood
  <2>3. CASE CheckCallback(b) \/ PostCode(b) \/ Exchanged(b) \/ Respond(b)
    <3>1. pc'[b] # "idle" /\ UNCHANGED <<asked, cookie, late>>
      BY <2>3 DEF CheckCallback, PostCode, Exchanged, Respond, TestInv, TypeOK
    <3> QED  BY <1>1, <1>4, <3>1 DEF AnsweredForGood
  <2> QED  BY <2>1, <2>2, <2>3, CallbacksNext
<1> QED  BY <1>3, <1>4 DEF AnsweredForGood

\* The parts together are inductive.
LEMMA TestInvariant == Spec => []TestInv
<1>1. TestInv /\ [Next]_vars => TestInv'
  BY TypeNext, TestsNext, CodesBoundNext, CallbackShapeNext, PostsNext, AnsweredNext DEF TestInv
<1> QED  BY <1>1, TestInit, PTL DEF Spec
-----------------------------------------------------------------------------
(***************************************************************************)
(* The theorems.                                                           *)
(***************************************************************************)
\* The variables have their types.
THEOREM TestClientTypes == Spec => []TypeOK
BY TestInvariant, PTL DEF TestInv

\* A code is posted only for the test it is bound to, and only to the server that made it.
THEOREM CodesGoHome == Spec => []CodeGoesHome
<1>1. ASSUME TestInv, NEW b \in Callbacks, sent[b] # NotSent
      PROVE  LET made == codes[code[b]]
                 s == found[made.state]
             IN  /\ sent[b].verifier = made.challenge
                 /\ s.issuer # NoServer =>
                      /\ made.by = s.issuer
                      /\ \E d \in Documents : /\ d.issuer = s.issuer
                                              /\ sent[b].to \in {d.authorization, d.token}
  <2>1. /\ code[b] \in DOMAIN codes /\ responder[b] = codes[code[b]].by
        /\ codes[code[b]].state = cookie[b] /\ sent[b] = ExchangeForm(b)
        /\ found[cookie[b]].issuer # NoServer => responder[b] = found[cookie[b]].issuer
    BY <1>1 DEF TestInv, PostsWhatItHolds, Matches, CallbackShape
  <2>2. /\ cookie[b] \in Tests /\ step[cookie[b]] = "started"
        /\ codes[code[b]].challenge = IF found[cookie[b]].legacy THEN NoTest ELSE cookie[b]
    BY <1>1, <2>1 DEF TestInv, CodesBound, TypeOK, IsTable
  <2>3. Discovered(cookie[b])
    BY <1>1, <2>2 DEF TestInv, StartedTests
  <2>4. sent[b].verifier = codes[code[b]].challenge
    BY <2>1, <2>2 DEF ExchangeForm
  <2>5. sent[b].to \in {found[cookie[b]].authorization, found[cookie[b]].token}
    BY <2>1 DEF ExchangeForm
  <2> QED  BY <2>1, <2>3, <2>4, <2>5 DEF Discovered
<1>2. TestInv => CodeGoesHome
  BY <1>1 DEF CodeGoesHome
<1> QED  BY <1>2, TestInvariant, PTL

\* Once a callback was answered, whoever asks for its test again, with whatever code and
\* whatever cookie the browser holds by then, makes the client post nothing.
THEOREM AnsweredTestsAreOver == Spec => []AnsweredIsOver
<1>1. TestInv => AnsweredIsOver
  BY DEF TestInv, AnsweredForGood, PostsWhatItHolds, Matches, AnsweredIsOver
<1> QED  BY <1>1, TestInvariant, PTL

\* No response is accepted later than the lifetime of its test and the second lost to
\* truncation.
THEOREM ResponsesAreAcceptedInTime == Spec => AcceptedInTime
<1>1. ASSUME TestInv, [Next]_vars, NEW b \in Callbacks, pc[b] = "check", pc'[b] = "connect"
      PROVE  now < begun[cookie[b]] + AuthRequestTTL + Second
  <2>1. CheckCallback(b) /\ Acceptable(b)
    BY <1>1, CallbacksNext DEF CallbackKept, BeginCallback, CheckCallback, PostCode, Exchanged,
       Respond, TestInv, TypeOK
  <2>2. cookie[b] \in Tests /\ Unix(now) <= found[cookie[b]].expiresAt /\ now \in Nat
    BY <2>1, <1>1 DEF Acceptable, TestInv, TypeOK
  <2>3. step[cookie[b]] = "started"
    BY <1>1, <2>1 DEF Acceptable, TestInv, CallbackShape
  <2>4. found[cookie[b]].expiresAt = Unix(begun[cookie[b]] + AuthRequestTTL)
    BY <1>1, <2>2, <2>3 DEF TestInv, StartedTests, Discovered, ExpiresAt
  <2>5. begun[cookie[b]] + AuthRequestTTL \in Nat
    BY <1>1, <2>2, BoundAssumption DEF TestInv, TypeOK
  <2>6. \A a, d \in Nat : a <= d => a * Second <= d * Second /\ a * Second \in Nat /\ d * Second \in Nat
    BY SecondAssumption
  <2>7. /\ Unix(begun[cookie[b]] + AuthRequestTTL) \in Nat
        /\ Unix(begun[cookie[b]] + AuthRequestTTL) * Second <= begun[cookie[b]] + AuthRequestTTL
        /\ Unix(now) \in Nat /\ now < Unix(now) * Second + Second
    BY <2>2, <2>5, UnixBounds
  <2> QED  BY <2>2, <2>4, <2>5, <2>6, <2>7, SecondAssumption
<1>2. TestInv /\ [Next]_vars =>
        [\A b \in Callbacks : pc[b] = "check" /\ pc'[b] = "connect" =>
            now < begun[cookie[b]] + AuthRequestTTL + Second]_vars
  BY <1>1
<1> QED  BY <1>2, TestInvariant, PTL DEF Spec, AcceptedInTime
=============================================================================
