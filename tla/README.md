# A TLA+ model of indieauth-bridge

indieauth-bridge lets a person sign in to an IndieAuth client with a profile
URL while an OIDC provider does the authentication. This directory models what
the program does to its database and its memory when HTTP requests, the
provider, the cleanup timer, failures and restarts interleave. TLC checks small
instances. TLAPS proves for all of them every safety property that the passing
runs check, and some that no run does; liveness is TLC's alone.

Paths below are relative to `src/`.

## The system

| Part | State | Operations | Hard because |
|---|---|---|---|
| Authorization flow, `internal/http/server.go` | `auth_requests`, `consent_requests`, `authorization_codes` | `handleAuthorize`, `handleSetup`, `handleCallback`, `handleConsentPost`, `issueCodeAndRedirect` | a flow spans four requests and a provider; rows are read first and deleted last |
| Token endpoints, `internal/http/server.go` | `authorization_codes`, `access_tokens` | `handleToken`, `handleAuthorizationCodeProfile`, `handleIntrospect`, `handleRevoke` | two endpoints spend one code; it is burned before anything is checked |
| Storage, `internal/storage` | the SQLite file, one connection | one statement per method, one transaction in `ConsumeAuthorizationCode`, four statements in `Cleanup` | no transaction spans two calls; times are truncated to seconds |
| Process, `cmd/indieauth-bridge` | the listener, the cancelled context | open, migrate, listen, cleanup at startup and every five minutes, drain, exit | rows outlive the requests that made them; two instances meet on one database and address |
| Migrations, `internal/storage/sqlite.go` | the schema, `schema_migrations` | `migrate`, `applyMigration` | a version is looked up outside the transaction that applies it |
| Managed profiles, `internal/http/managed_profiles.go` | `managed_profiles` | `ensureManagedProfile`, `handleManagedProfileUpdate` | read, decide, write back without a transaction; handles collide |
| Rate limiter, `internal/http/ratelimit.go` | buckets by path and client | `allow`, `clientKey` | the clock is read before the mutex is taken |
| OIDC backend, `internal/backends/oidc` | provider and verifier, created once | `BeginAuth`, `CompleteAuth`, `ensureProvider` | network calls without a timeout under a mutex; codes are accepted once |
| Profile and client discovery, `internal/indieauth` | - | `DiscoverProfileIdentity`, `ValidateClientRedirect` | what is fetched changes between requests |
| Embedded test client, `internal/http/tools.go`, `internal/indieauth/server_discovery.go` | one sealed cookie | `handleTestStart`, `handleTestCallback`, `DiscoverAuthorizationServer` | all state is at the browser, and every tab shares it |
| Setup credential, `internal/http/tools.go` | a sealed form value | `openSetupIdentity` | all state is at the browser |
| Configuration, pages, themes | - | read once | - |

Handlers are goroutines that share nothing but the store, the limiter and the
provider. They interact through rows: `/authorize` leaves an `auth_requests`
row for the callback, the callback leaves a consent or a code, `POST /consent`
leaves a code, `/token` turns it into a token, `/introspect` and `/revoke` look
at the token, and cleanup deletes under all of them.

What makes each part correct:

- flow: a code goes only to the user who signed in on that very flow, for what
  the client asked, with consent, and a flow that is over stays over;
- tokens: one redemption of a code, one token at most, for the code's own
  grant, PKCE proved, nothing dead comes back, nothing live is refused;
- storage and process: cleanup deletes only what is dead, and all of it;
- migrations: no process works on half a schema, and no interruption is final;
- process: it ends when told to, whatever the provider does;
- profiles: one profile per user, one user for ever per handle, edits are kept,
  and the profile's URL leads back to it;
- test client: a code and its verifier go only to the server that gave the code;
- limiter: no client gets more than burst and refill, nobody starves.

## The modules

`Store` gives the meaning of the SQL statements and the clock arithmetic: a
table is a function on the keys that have a row. `SetMaxOpenConns(1)` in
`OpenSQLite` makes each statement, and the transaction of
`ConsumeAuthorizationCode`, one atomic step. A tick is 1/`Second` of a second:
handlers compare with `time.Now()`, rows hold whole seconds.

`TokenEndpoint` (EXTENDS `Store`) has the four redemption and token endpoints.
A member of `Requests` is one HTTP request: `pc` is its next store call, `at`
the clock reading it took before it, `rec` the grant `ConsumeAuthorizationCode`
returned, `answer` how it ended. `IssueCode` stands for the authorization flow.
`Consume` marks the row used and then, in memory, makes the checks of
`handleToken` or of `handleAuthorizationCodeProfile`; `Mint` inserts the token. The
clock is read again between the two, at any moment, so `Mint` picks the reading that
the token's lifetime starts from between the request's last one and now; `Login` does the
same where it inserts a code or a consent.
`ConsumeFails`, `MintFails`, `LookupFails` and `RevokeFails` are store errors,
with the statement applied or not. `CleanupCodes` and `CleanupTokens` are two of
the four statements of `Cleanup`, whose cutoff is as old as its first; the ones
on the other tables are in `Login`. `Crash` loses all requests; the cleanup of
the start comes before `Listen`. `issued`, `minted` and `known` are history:
they guard fresh names and are read by properties.

`CodeGrant` is what the above promises about a code, with no rows, clocks or
failures: issued, then spent by one request or lapsed; only a spent code gives
a token, one at most. `TokenEndpoint!Grant` is the refinement mapping. The stage
of a code cannot be read off the tables alone, because cleanup deletes the rows
of used codes; the mapping uses what requests have redeemed.

`Login` (EXTENDS `Store`) has `/authorize` and `/setup` (`flow`), the callbacks
and `POST /consent` (`pc`, `call`, `held`, `subject`, `at`, `answer`). A flow's
request id, state value and nonce are fresh and are identified with the flow; a
consent's id and CSRF token with the callback that made it. A profile URL is
static (decided by `allowed_*`), managed (by its row) or a page (by the binding
`DiscoverProfileIdentity` reads, a snapshot kept in the row). The provider is
external: `ProviderLogin` is a sign-in on the URL of some flow, `CompleteAuth`
spends its code. A callback may bring the state of one flow and the code of
another. `Finish` is the deferred delete that ends a handler, after the answer
is decided; in the code the response may be written just before or after it.

`Bridge` composes the two: `L == INSTANCE Login`, `T == INSTANCE TokenEndpoint`,
one clock, one table of codes, one crash and restart, one cleanup. Variables of the token
endpoints that have a namesake in `Login` start with a `t`. Where `Login`
inserts a code, `tissued` gets the grant and the reading it is inserted under; `T!IssueCode`
is never taken. That the composition still is a behaviour of `TokenEndpoint`,
which supposes that codes are fresh, have their full lifetime and carry a
well-formed grant, is the property `ImplementsTokenEndpoint`: through it what is
proved of `TokenEndpoint` holds of the whole bridge. An `INSTANCE` does not
assume what its module assumes of its constants, so `LoginAssumption` and
`TokenAssumption` say it again.

`ProfileHandles` has `normalizeManagedHandle`, `desiredManagedHandle` and
`suffixedManagedHandle` as functions on sequences of characters, of which only
the class matters: those that are kept, separators among them; blanks, which become a
dash between two others; the rest (`Others`), which are dropped. `Writing` is the loop of
`normalizeManagedHandle` as a recursive function, so that the provers can reason about it. The
lengths are constants (32 and 8 in the source, 5 and 1 in the instance).

`ManagedProfiles` (EXTENDS `Store`, `ProfileHandles`) has the sign-ins
(`Visits`), edits (`Edits`) and look-ups that work on `managed_profiles`, one
step per store call; a statement that fails may have been applied. The claims change
at any time (external); bio, website and accent are one value, `style`.

`Schema` has the four migrations as functions on a database: which objects
exist, which versions are recorded, and on which databases a migration's
statements succeed. `Lifecycle` (EXTENDS `Schema`) has `main()`: a service in
`Processes` goes through the stages of opening, migrating (check, apply, commit),
startup cleanup, listening, draining, and exits; its supervisor starts it again.
`WriteLocked` is SQLite's write lock, held from a transaction's first
statement. Requests that need the OIDC provider (`Logins`) take the mutex of
`ensureProvider`, hold it during the fetch, and use the provider after it. The
rows they work on are the other modules' business.

`TestClient` (EXTENDS `Store`) has the embedded client in one browser. A test
is identified with its state value and verifier; the sealed cookie in `jar` is
the test whose state it holds. It is set or cleared when a response
arrives at the browser, not when the handler decides. `DiscoverAuthorizationServer`
prefers a metadata document to links; endpoints are identified with the server
behind them, so that "the code went to the wrong server" can be said. A callback
has the test its query names (`asked`) and the one of the cookie it came with (`cookie`),
which may be another or none. It checks them (`CheckCallback`), looks up the endpoint's host, posts
(`PostCode`) and answers (`Respond`); time, other tabs and a restart come in between. The
servers are external and issue a code per redirect. `answered` has the tests of answered
callbacks, by query or cookie, and `late` the callbacks that arrived with such a query:
history for `AnsweredIsOver`.

`RateLimiter` has `Arrive` (the middleware reads the clock and computes the key)
and `Allow` (the mutex is held). Tokens are counted in units, so that refilling
is exact; the source uses floating point. `MaxWait` bounds the time from the
reading to the mutex, which `Tick` respects. `Idle` is what is left of `KeepFor` when the
readings before and after it are both that late, and `Early` what a bucket lacks at most
when it is dropped that soon, and comes back full. The defaults refill a burst many times over in
ten minutes, so that `Early` is 0; but nothing stops a configuration of, say, one request a minute with a
burst of twenty.

The `*Proofs` modules hold the theorems. Each EXTENDS the component it is about;
`RedemptionProofs` continues `TokenEndpointProofs`, and `BridgeProofs` takes the
invariants of both components by `INSTANCE`.

`MC*.tla` and `MC*.cfg` are the instances. A definition whose name ends in `_Something` and is
marked "Fault" is a mistake the code does not make. No specification uses it;
put in the place of the definition after it, it makes a property fail, which
shows that the property depends on that line.

## The runs

| Run | Instance | Shows |
|---|---|---|
| `redeem` | 3 requests, 1 code, 2 tokens, right, wrong and no verifier, two clients, 1 failure or crash | codes are redeemed once and in time, tokens are backed by the code and its verifier, nothing good is refused, and `TokenEndpoint` implements `CodeGrant` |
| `token_live` | 3 requests, 1 token, 1 failure, time to expiry, fair | revoked and expired tokens stay dead and get no active answer; requests end, used codes are purged |
| `login_mixup` | 2 flows, 2 provider codes, 2 users, 3 kinds of profile, a page edit | mixing up flows or changing a page gives nobody a code |
| `consent` | 1 flow, 2 posts, start to expiry, 1 failure or crash, fair | a code has its own request's grant and consent; whoever comes late gets nothing; pending rows stay until used or expired and are purged then; handlers end |
| `bridge` | 1 flow, 1 code, 1 token, 2 token requests, 1 failure or crash on each side | every token goes back to a sign-in, a consent and a verifier, and `Bridge` implements `TokenEndpoint` |
| `profile_races` | 3 sign-ins of 2 users, 1 edit, names that are too long, taken and unusable, a change of claims, 1 failure | handles are never transferred, answers are about one's own profile and its URL leads to it |
| `rate_limiter` | 4 requests, a burst of 2, one refill in 4 ticks, trims that drop buckets before they are full | no window grants more than burst, refill and what drops give back; refusals do not prolong themselves |
| `lifecycle` | 2 instances, 2 logins, 3 initial databases, 2 crashes or failures, 1 signal, fair | the schema is complete wherever a process works on it, and in the end always; the provider is not written while it is read; logins and processes end |
| `test_client` | 2 tests and 2 callbacks, 2 servers, 4 pages, 1 failure or restart | code and verifier go to the server they belong to, an answered test is over, no response is accepted after expiry |
| `repeated_callback` | 1 flow, 2 overlapping callbacks, 2 posts, 2 sign-ins, 1 failure or crash | two codes come from one sign-in only through two posts that approved the same consent |
| `customized`, `collision` | as `profile_races` | findings 1 and 2 |

Bounds. `MaxTime` lets a row be written, live, reach the second its lifetime is
truncated to and be beyond it; with `Second` = 2 a reading can fall between two
whole seconds, and lifetimes of 2 or 3 ticks make truncation matter.
`login_mixup` and `repeated_callback` are about who gets what, not when, and stop the clock
instead; in `bridge` the codes and tokens expire and the auth requests do not, which
`consent` has. `MaxFaults` counts failures and crashes together. One fault is
one lost or half-applied call at every place it can happen; two requests are
enough for the races the properties forbid, which are all between a pair, and
the third makes the pair meet a cleaned-up table or a revoked token. `lifecycle`
has two, so that a migration can be interrupted in either process, or twice in
one. Handles of `profile_races` are at most 5 characters: the names make the cut fall
behind a dash, with and without a suffix, and make one user's handle another's
suffixed one. The counters that TLC bounds (`MaxTime`, `MaxFaults`, `MaxEdits`, `MaxClaims`,
`MaxStops`, `MaxWait`) are constants of the modules, and the theorems hold for all their
values, but for `MaxWait` see below. In the profile runs, `rate_limiter` and `test_client` every request
is used up in the end and the model stops, so deadlock is not checked there;
the other modules always have something left to do. Symmetry is only used
where names are interchangeable and the run has no liveness property.

Fairness. `token_live` assumes weak fairness of each request's next step, of
the start of cleanup, its statements and the end of a restart: the Go scheduler
runs ready goroutines, `database/sql` serves the waiters of its one connection
in order, and the ticker ticks. Weak fairness is on "some next step", so a
failure may always be the one that is taken, and the bound on faults is what
makes statements succeed in the end. `consent` also assumes that time passes,
and nothing of the provider, which `CompleteAuth` asks without a timeout: a callback may stay there,
and its rows are purged all the same. Users, clients
and page owners never have to act. `PendingRowsPurged` speaks of the rows that
expire before `MaxTime`, since the model's clock stops there. `lifecycle`
assumes weak fairness of each process's next step, the restart by its
supervisor included (`Restart=always` in docs/indieauth-bridge.container:13), of taking the
free mutex, and of the end of a call whose request context is cancelled. Signals, clients and the
provider owe nothing: the discovery fetch of `ensureProvider` uses a client
without a timeout. So `LoginsEnd` supposes that a call the provider owes is
answered or its client gives up, while `StopsEnd` supposes nothing, because
`Shutdown` waits ten seconds and no longer.

## Findings

1. README.md:213 promises that customized fields are not overwritten.
   `ensureManagedProfile` writes back the whole row it read, so an edit saved
   between its read and its write is lost, with the `customized` flag.
2. README.md:203 promises a suffix on a collision. The suffixed handle is tried
   once, and its conflict is an error even if it is the same user's: the second
   of two concurrent first sign-ins fails. `EstablishedUsersServed` shows that
   only first sign-ins can meet this.

## What is proved

Each theorem holds for all constants that satisfy the `ASSUME`s of the modules
it is about, and those are what the code or its configuration gives: lifetimes,
rates and bursts are positive, `S256` is a function into the challenges, grants and forms
are well-formed, the prefix `user-` begins with a letter and a suffix is not empty
(`AffixAssumption`), and names of different sorts differ. Three say more. `LengthAssumption`
(`ProfileHandles`) asks that the prefix fits before a suffix and before every reserved handle,
and a dash and a suffix after one character, which 32 characters allow. `LimiterAssumption`
(`RateLimiter`) asks that `2 * MaxWait < KeepFor`: nobody waits five minutes for a mutex that
is held for a moment. It asks nothing of rate and burst. `NameAssumption` (`Login`) has
`Flows \cap Callbacks = {}`, because the history `gone` mixes the rows of both.

Each proof has the same plan: an invariant stronger than the property, the fact that
`Init` gives it, the fact that each step keeps it, conjunct by conjunct, and the property from it.
A lemma on what any step can do to the rows (`StepAges`, `StepSettles`) carries
the conjuncts that speak of the past.

| Module | Theorem | Property |
|---|---|---|
| `TokenEndpointProofs` | `TypeCorrect` | `TypeOK` |
| | `OneRedemption` | `CodeRedeemedOnce` |
| | `TokensAreBacked` | `TokenBacked` |
| | `TokensProvePKCE` | `TokenProvesPKCE` |
| `RedemptionProofs` | `EndpointsImplementCodeGrant` | `ImplementsCodeGrant` |
| | `TheDeadStayDead` | `DeadStaysDead` |
| | `CodesAreRedeemedInTime` | `RedeemedInTime` |
| | `CleanupIsSafe` | `CleanupSparesLive` |
| | `RefusalsHaveCause` | `RefusedOnlyForCause` |
| | `DeadTokensAreInactive` | `NoActiveAnswerForDeadToken` |
| | `TokensAreNotLost` | `TokensLiveOut`, which no run checks |
| | `InactiveForCause` | `InactiveOnlyForCause`, which no run checks |
| | `GoodAnswersPassed` | `AnswersPassed`, which no run checks |
| `LoginProofs` | `LoginTypes` | `TypeOK` |
| | `CodesForAuthenticatedUsers` | `CodeForAuthenticatedUser` |
| | `CodesForAskedGrants` | `CodeForAskedGrant` |
| | `LateHandlersGetNothing` | `LateIsInvalid` |
| | `PendingRowsAreKept` | `PendingRowsStay` |
| | `CodesComeApart` | `CodesApart` |
| `BridgeProofs` | `BridgeImplementsTokenEndpoint` | `ImplementsTokenEndpoint` |
| | `TokensAreEarned` | `EveryTokenEarned` |
| | `BridgeImplementsCodeGrant` | `ImplementsCodeGrant` of its token endpoints |
| | `TokenPromisesKept` | eight properties of its token endpoints |
| | `LoginPromisesKept` | four properties of its sign-ins |
| | `AnswersAreEarned` | `EveryAnswerEarned`, which no run checks |
| | `SignInsPayOnce` | `SignInsRedeemedApart`, which no run checks |
| `ManagedProfilesProofs` | `ProfileTypes` | `TypeOK` |
| | `OneProfileEach` | `OneProfilePerUser`, which no run checks |
| | `OwnProfileAnswered` | `AnswersOwnProfile` |
| | `EstablishedAreServed` | `EstablishedUsersServed` |
| | `HandlesStayOwned` | `OwnershipIsForever` |
| | `ProfilesResolve` | `ProfileResolves` |
| `RateLimiterProofs` | `LimiterTypes` | `TypeOK` |
| | `WindowsAreBounded` | `WindowBound` |
| | `RefusedWhenSpent` | `RefusedOnlyWhenSpent` |
| `TestClientProofs` | `TestClientTypes` | `TypeOK` |
| | `CodesGoHome` | `CodeGoesHome` |
| | `AnsweredTestsAreOver` | `AnsweredIsOver` |
| | `ResponsesAreAcceptedInTime` | `AcceptedInTime` |
| `LifecycleProofs` | `SchemaIsSound` | `SchemaSound` |
| | `LifecycleTypes` | `TypeOK` |
| | `WritersMeetNoReader` | `WritesMeetNoReader` |
| | `MigrationsInOrder` | `MigratesInOrder`, which no run checks |

A property that no run checks is defined beside its theorem, in the proof module. Each was tried
with TLC on the instance of a run that reaches its interesting case, before it was proved.

### Codes and tokens

`CodeRedeemedOnce` is not inductive: it does not say why a second request would
find the code spent. `OnceInv` adds `CodesAreIssued` (a row's code has been
issued, so a deleted row is never inserted again) and `SpentForGood` (a code
somebody redeemed has no row, or a row marked used), and `CallShape` (what a
request's step says of its form and of the row it holds), which `TypeOK` needs
for the inserted token. `SpentForGood` is what an insert or a cleanup could
break: `UsedStaysUsed` says that a step which inserts only unissued codes and
un-marks none keeps it, and is cited for every action but `Consume`. `Consume`
only succeeds on a row that is not marked, whose code nobody has redeemed
by `SpentForGood`.

The two theorems about tokens rest on `MintInv`, a chain from the token back to
the code: a row says the grant that was issued (`RowsSayGrant`), a request that
redeemed holds it (`HeldIsIssued`), one about to insert has passed the checks of
`handleToken` (`MintingPassed`), and so has the request of every token, whose row
says what that request holds (`MintedPassed`). `MintedOnce` says that a request
with a token is past the insert: a retry would break it. `TraceKept` covers the
steps that neither redeem nor insert. `CodeRedeemedOnce` then makes the token the
only one of its code.

The refinement of `CodeGrant` needs no more than these two. `IssueStep`,
`SpendStep`, `GiveStep` and `LapseStep` are the steps that the abstract
specification sees, and `AbstractKept` says that the others change no code's stage; that a
spent code never lapses when cleanup deletes its row is `SpentForGood` again.

`Ages` says what any step leaves of the past: the clock does not go back, rows
get used, revoked or deleted and nothing else, an answered request stays as it
is. `TheDeadStayDead` is little more. `TimeInv` adds that no reading is from the
future and that a row has the expiry computed at its issue; so the reading a
redemption uses, however old, is between the two, and a cleanup's cutoff only hits
what is dead. `AnswerInv` accounts for refusals: a code without a usable row was
tried by somebody or is over (`Accounted`), up to the second that truncation takes; and
a token that was dead when a look-up began is dead under its reading (`LookupsHonest`).

`LifeInv` is the other side of `DeadStaysDead`: a token is not lost. It is inserted under a
reading no older than its code (`MintLater`), so its row lasts at least as long as
`AccessTokenTTL` from the code's issue, but for the truncated second (`TokensLastTTL`);
cleanup deletes it no sooner, and only a request that was asked to sets `revoked_at`
(`RevokersRevoke`). `TokensGoForCause` names the steps that can take a row away. With it an
introspection that answers "inactive" has a cause, unless the store failed, which
`handleIntrospect` answers in the same way. `AnswersPassed` says what an answer with a token or a profile is
worth; two steps give one, and each follows the checks of its endpoint (`GoodAnswersOfSteps`).

### The authorization flow

`LoginInv` follows the grant through the tables. What a flow decided when it
began is fixed once it has a row (`FlowShape`, `RowsOfFlows`); a callback holds
what that row said, and reaches the insert only after a sign-in on its own flow
by a subject the flow allows (`HeldByCallbacks`, `Earned`); the consent it
leaves, the post that finds the consent, and the code go back to it
(`ConsentsEarned`, `HeldByPosts`, `CodesEarned`). `HandlerShape` says whose step
a handler may be at. `StepSettles` says that none of this is forgotten: a settled flow
keeps its decision, a handler under way its call, a spent sign-in stays spent.
`GoneForGood` is why a late handler gets nothing: a deleted row's flow or
callback is past its only insert. `CutoffPast` serves the cleanup;
`HandlersRun` (handlers run while the server is up, with readings of the past)
is what the composition needs.

`CodesApart` says how many codes one sign-in is worth. Handlers overlap, and their rows are
deleted last, so the answer is not "one": two posts that both found the consent both issue a code,
and TLC shows them. It is nothing worse, by `ApartInv`: a callback that learned who signed in
did so from a provider code that was not spent before, and keeps it (`SignInsUsed`); whatever is
stored goes back to such a callback (`SignInsTraced`); a handler is past its only insert once
it has issued a code (`IssuedOnce`); and only where consent is required is there anything to post
(`ConsentsAsked`), while there only posts issue codes, by `CodesEarned`.

### The whole bridge

`BridgeInv` is `LoginInv`, `OnceInv`, `MintInv` and `Linked`: the two histories
of issued codes have one domain and the same grants, and the two cleaners take
turns within one cleanup. A step of the bridge is a step of one component and
must leave the other's invariant alone. For the token endpoints this is the refinement
itself: a code that `Login` stores is one of `T!IssueCode`, since it is new by
`Linked`, its reading is past and the server up by `HandlersRun`, its grant one of
`L!Grants` by the types (`StoreCodeSeen`). For `Login` it is `CodesChange`:
its invariant says only the type of the codes' rows, so whoever uses
or deletes them keeps it. `SameLogin` and `SameToken` say that the components seen
through their proof modules are the ones in `Bridge`. `TokensAreEarned` joins the two
chains: the token's code by `MintInv`, the code's callback by `LoginInv`.

`TokensWithin` (`Spec => TP!Spec`) is the refinement once more, for the module with the
proofs, and with it theorems about `TokenEndpoint` transfer as they stand: `TokenPromisesKept`
and `BridgeImplementsCodeGrant`. `Login` is no such refinement, since others use the codes it
wrote: `LoginPromisesKept` takes the invariant from `BridgeInv` and the steps from `LoginSees`.
`AnswersAreEarned` and `SignInsPayOnce` join the halves again: with `AnswersPassed`, a profile answer is
earned as a token is; and with `CodesApart` and `CodeRedeemedOnce`, a sign-in is
redeemed once, except through two posts that approved the same consent.

### Managed profiles

`ProfileInv` says that a request under way acts for one user, holds only that
user's row and is about to create only a handle made for that user
(`HoldsOwnRow`), and that one which began when its user had a profile never
gets as far as creating another (`ServedHaveProfile`): profiles are never deleted,
and the index on the owner refuses a second. `EachFits`, `AllFit` and `OthersFit` break the
invariant into what one request needs and what the others need of its step.

`ProfilesResolve` is about the handles themselves. `Canonical` is a sequence of kept characters
that fits and has no separator at either end. `normalizeManagedHandle` returns only that, and the
prefix and the suffix keep it (`NormalizeCanonical`, `DesiredCanonical`,
`SuffixedCanonical`): the cut before a suffix is trimmed on the right only, but it leaves the
first character. And what is canonical is left alone (`NormalizeStays`). The two lemmas about the loop
are inductions on the length of what has been read. The library's induction rule has an operator for
a parameter, which the provers cannot instantiate; `NatSetInduction` is the same rule about a
set of numbers, from the existence of a minimal element, and `WritingStep` uses it to show that
the recursive function is the one its definition says.

### Rate limiter

`WindowBound` counts the requests let in within a window; no bucket remembers
them. The proof is by the debt of a bucket, `Owed`: whatever order the readings
reach the mutex in, the bucket's last reading and its balance bound what was
let in since the start of the window (`WindowsPaid`). A reading behind the last
one gives the bucket a negative refill and moves its last reading back, so
the balance moves by exactly `Rate` per tick, unless the burst caps it.

A bucket that trimming drops need not be full, and the next request finds a full one. So the debt is
only known up to `Early` for each drop that the window has met, and `WindowsPaid` counts the
drops: `d` of them have taken at least `d` times `Idle` of the window, because the bucket's
last reading was `KeepFor` before the trim (`DroppedIsPaid`), every reading that can still come is
at most `MaxWait` behind the clock (`ReadingsInTime`), and so the next bucket
serves no reading before that time (`Reached`, `ReachedGrows`). A window that no reading can fall into
any more keeps the count it has. `DropsFit` and `Allotment` are the arithmetic: the drops of a window are
at most its length divided by `Idle`. Where `Early` is 0, as by default, the bound is the plain one,
burst and refill.

`BucketsSpent` is the reverse bound, for refusals: a bucket has what it was refilled since one
of the requests it let in.

### Test client

`TestInv` says that a test that has started keeps what it discovered, which is
one document or the links of a page (`StartedTests`); a code is bound to the test
whose redirect made it (`CodesBound`); a callback posts what its cookie says
(`PostsWhatItHolds`), after the issuer check, for the test its query names. `AnsweredForGood` says that
an answered test is never in the cookie again (it was set when the test started,
once, and every response clears it) and that the cookie of a late callback is none or another
test's. So a late callback never passes the check, and `AnsweredIsOver` follows.

### Process and schema

`SchemaInv` is types, `Recorded` (a recorded version has created
its object) and `PassedIsApplied` (the migrations a process has behind it are
recorded, all of them once it is past opening, and a process that is off will
begin with the first). Databases only grow, so `PassedIsApplied` survives the
steps of other processes: `MigratedKeeps` says what a commit does,
`NextMigrationSound` that going on after a check or a commit is right,
`ExitSound` covers every end of a process, with the commit of the interrupted
migration durable or not. All that needs no write lock, which there only
decides who fails. `MigrationsInOrder` does need it: two processes may have found the same version
missing, but only one is in a transaction, and what it applies is not recorded yet (`LockInv`). So
the schema goes from version to version, whole and in order, whoever does it.

`BackendInv` says that a login waits for the provider's metadata exactly while
it holds its process's mutex, which then has no provider, and that a login which
uses the provider runs in a process that has one: so nobody reads what
another writes, though the reader has released the mutex.

## What is only model-checked

- Liveness: `RequestsEnd`, `UsedCodesPurged`, `HandlersEnd`, `PendingRowsPurged`,
  `SchemaCompletes`, `LoginsEnd`, `StopsEnd`. The provers have no rule for
  fairness and `ENABLED`.
- The two findings, which are counterexamples.

## What is not modelled

- `GET /consent`, metadata, health and profile pages: they read and render.
- The audit table: rows are appended and never read.
- Configuration, themes, templates, security headers, the command line.
- Cryptography: random values are fresh, hashes have no collisions, sealed
  values cannot be forged, and ID tokens are verified by go-oidc.
- URL, HTML and link-header parsing: the URLs of a model are already in one of
  the classes that parsing would put them into.
- Several backends; their rows differ by `backend`, and `findAuthRequest` asks
  for one of them.
- The expiry of setup credentials, the validation of the edit form, floating point.
- The `healthcheck` and `check-config` commands, which keep no state.

## Plan

1. Done: `Store`, `TokenEndpoint`, `CodeGrant`, `Login`, `Bridge`,
   `ProfileHandles`, `ManagedProfiles`, `RateLimiter`, `Schema`, `Lifecycle`,
   `TestClient`, their runs, and the proofs above.
2. Open: nothing that a run checks and the provers can express is without a theorem. Worth
   doing next would be the expiry of setup credentials, the several backends, and the rules
   of redirect URLs, which the model has as sets.
