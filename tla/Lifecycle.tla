----------------------------- MODULE Lifecycle -----------------------------
(***************************************************************************)
(* The life of a bridge process, main() of cmd/indieauth-bridge: open and  *)
(* migrate the database, listen, serve, shut down; and the lazily fetched  *)
(* provider of the OIDC backend (ensureProvider of internal/backends/oidc) *)
(* that every login of a process goes through.                             *)
(*                                                                         *)
(* A member of Processes is a service: its supervisor restarts it whenever *)
(* it has ended (Restart=always).  Two of them on one database and address *)
(* are the old and the new instance of a deployment.  A login is a request *)
(* to /authorize, /setup or a callback, used once.                         *)
(***************************************************************************)
EXTENDS Schema

CONSTANTS Processes, Nobody, Logins, NoLogin,
          MaxFaults, MaxStops   \* bounds: crashes and failures; operator signals

ASSUME NameAssumption == Nobody \notin Processes /\ NoLogin \notin Logins
ASSUME BoundAssumption == {MaxFaults, MaxStops} \subseteq Nat

VARIABLES
    db,         \* the database file
    stage,      \* each process: how far main() is
    version,    \* each process: the migration it is at
    signalled,  \* each process: is the context of NotifyContext done
    listener,   \* who holds the listen address
    provider,   \* each process: is b.provider set (with verifier and oauth2)
    mutex,      \* each process: the login that holds b.mu across a fetch
    pc,         \* each login: next step
    owner,      \* each login: the process that serves it
    gaveUp,     \* each login: has its client disconnected (request context)
    faults, stops

host    == <<stage, version, signalled, listener>>
backend == <<provider, mutex>>
local   == <<pc, owner, gaveUp>>
vars    == <<db, host, backend, local, faults, stops>>

Opening == {"check", "apply", "commit"} \* in OpenSQLite
Opened  == {"cleanup", "started", "serving", "unbound", "draining"}
Pending == {"lock", "fetch", "use"}     \* steps of a login in flight
AtProvider == {"fetch", "use"}          \* waiting for an answer of the provider

TypeOK ==
    /\ db \in Databases
    /\ stage \in [Processes -> {"off"} \cup Opening \cup Opened]
    /\ version \in [Processes -> Versions]
    /\ signalled \in [Processes -> BOOLEAN]
    /\ listener \in Processes \cup {Nobody}
    /\ provider \in [Processes -> BOOLEAN]
    /\ mutex \in [Processes -> Logins \cup {NoLogin}]
    /\ pc \in [Logins -> {"idle", "done", "lost"} \cup Pending]
    /\ owner \in [Logins -> Processes \cup {Nobody}]
    /\ gaveUp \in [Logins -> BOOLEAN]
    /\ faults \in Nat /\ stops \in Nat

Init ==
    /\ db \in InitialDatabases
    /\ stage = [p \in Processes |-> "off"]
    /\ version = [p \in Processes |-> 1]
    /\ signalled = [p \in Processes |-> FALSE]
    /\ listener = Nobody
    /\ provider = [p \in Processes |-> FALSE]
    /\ mutex = [p \in Processes |-> NoLogin]
    /\ pc = [r \in Logins |-> "idle"]
    /\ owner = [r \in Logins |-> Nobody]
    /\ gaveUp = [r \in Logins |-> FALSE]
    /\ faults = 0 /\ stops = 0

Fault == faults < MaxFaults /\ faults' = faults + 1

InFlight(p) == {r \in Logins : owner[r] = p /\ pc[r] \in Pending}

-----------------------------------------------------------------------------
(***************************************************************************)
(* Opening the database.  The statements before the first migration, which *)
(* may meet a lock, are taken together with its check.                     *)
(***************************************************************************)
Start(p) ==
    /\ stage[p] = "off"
    /\ stage' = [stage EXCEPT ![p] = "check"]
    /\ UNCHANGED <<db, version, signalled, listener, backend, local, faults, stops>>

\* Fault: one migration too many.
NextMigration_OffByOne(p) ==
    /\ stage' = [stage EXCEPT ![p] = "check"]
    /\ version' = [version EXCEPT ![p] = @ + 1]

\* On to the next migration, or to the startup cleanup after the last.
NextMigration(p) ==
    IF version[p] + 1 \in Versions
    THEN /\ stage' = [stage EXCEPT ![p] = "check"]
         /\ version' = [version EXCEPT ![p] = @ + 1]
    ELSE /\ stage' = [stage EXCEPT ![p] = "cleanup"]
         /\ UNCHANGED version

\* SELECT 1 FROM schema_migrations, outside the transaction that follows.
CheckVersion(p) ==
    /\ stage[p] = "check"
    /\ IF version[p] \in db.applied
       THEN NextMigration(p)
       ELSE stage' = [stage EXCEPT ![p] = "apply"] /\ UNCHANGED version
    /\ UNCHANGED <<db, signalled, listener, backend, local, faults, stops>>

\* A transaction has the write lock from its first statement to its end.
WriteLocked == \E q \in Processes : stage[q] = "commit"

ApplyMigration(p) ==
    /\ stage[p] = "apply"
    /\ ~WriteLocked
    /\ Succeeds(db, version[p])
    /\ stage' = [stage EXCEPT ![p] = "commit"]
    /\ UNCHANGED <<db, version, signalled, listener, backend, local, faults, stops>>

CommitMigration(p) ==
    /\ stage[p] = "commit"
    /\ db' = Migrated(db, version[p])
    /\ NextMigration(p)
    /\ UNCHANGED <<signalled, listener, backend, local, faults, stops>>

(***************************************************************************)
(* The end of a process, by itself or not: what it was serving is gone.    *)
(***************************************************************************)
Exit(p) ==
    /\ stage' = [stage EXCEPT ![p] = "off"]
    /\ signalled' = [signalled EXCEPT ![p] = FALSE]
    /\ listener' = IF listener = p THEN Nobody ELSE listener
    /\ provider' = [provider EXCEPT ![p] = FALSE]
    /\ mutex' = [mutex EXCEPT ![p] = NoLogin]
    /\ pc' = [r \in Logins |-> IF r \in InFlight(p) THEN "lost" ELSE pc[r]]
    /\ version' = [version EXCEPT ![p] = 1]
    /\ UNCHANGED <<owner, gaveUp, stops>>

(***************************************************************************)
(* A statement of OpenSQLite fails: the database does not admit it, the    *)
(* other process has the write lock, the context is done, the disk is      *)
(* full.  The transaction rolls back, except that a commit may report an   *)
(* error and be durable all the same.  main() exits.                       *)
(***************************************************************************)
OpenFails(p) ==
    /\ stage[p] \in Opening
    /\ \/ stage[p] = "apply" /\ (WriteLocked \/ ~Succeeds(db, version[p])) /\ UNCHANGED faults
       \/ stage[p] = "check" /\ version[p] = 1 /\ WriteLocked /\ UNCHANGED faults
       \/ signalled[p] /\ UNCHANGED faults
       \/ Fault
    /\ \/ UNCHANGED db
       \/ stage[p] = "commit" /\ db' = Migrated(db, version[p])
    /\ Exit(p)

-----------------------------------------------------------------------------
(***************************************************************************)
(* Listening and shutting down.                                            *)
(***************************************************************************)
\* store.Cleanup: its failure is only logged, also when it is a cancelled context.
StartupCleanup(p) ==
    /\ stage[p] = "cleanup"
    /\ stage' = [stage EXCEPT ![p] = "started"]
    /\ UNCHANGED <<db, version, signalled, listener, backend, local, faults, stops>>

\* ListenAndServe, in a goroutine of its own; if the address is in use it calls
\* stop(), which has the effect of a signal.
Listen(p) ==
    /\ stage[p] = "started"
    /\ IF listener = Nobody
       THEN /\ stage' = [stage EXCEPT ![p] = "serving"]
            /\ listener' = p
            /\ UNCHANGED signalled
       ELSE /\ stage' = [stage EXCEPT ![p] = "unbound"]
            /\ signalled' = [signalled EXCEPT ![p] = TRUE]
            /\ UNCHANGED listener
    /\ UNCHANGED <<db, version, backend, local, faults, stops>>

\* SIGTERM or an interrupt, in any stage.
Signal(p) ==
    /\ stage[p] # "off" /\ ~signalled[p]
    /\ stops < MaxStops
    /\ stops' = stops + 1
    /\ signalled' = [signalled EXCEPT ![p] = TRUE]
    /\ UNCHANGED <<db, stage, version, listener, backend, local, faults>>

\* server.Shutdown first closes the listener; after it ListenAndServe returns at once.
Shutdown(p) ==
    /\ stage[p] \in {"started", "serving", "unbound"}
    /\ signalled[p]
    /\ stage' = [stage EXCEPT ![p] = "draining"]
    /\ listener' = IF listener = p THEN Nobody ELSE listener
    /\ UNCHANGED <<db, version, signalled, backend, local, faults, stops>>

\* Every request has been answered: main() returns and closes the store.
Drained(p) ==
    /\ stage[p] = "draining"
    /\ InFlight(p) = {}
    /\ Exit(p)
    /\ UNCHANGED <<db, faults>>

\* Fault: Shutdown gets a context without a deadline.
DrainTimeout_Never(p) == FALSE /\ Exit(p) /\ UNCHANGED <<db, faults>>

\* The ten seconds are over: os.Exit(1), whatever is still being answered.
DrainTimeout(p) ==
    /\ stage[p] = "draining"
    /\ InFlight(p) # {}
    /\ Exit(p)
    /\ UNCHANGED <<db, faults>>

Crash(p) ==
    /\ stage[p] # "off"
    /\ Fault
    /\ Exit(p)
    /\ UNCHANGED db

-----------------------------------------------------------------------------
(***************************************************************************)
(* A login: ensureProvider, then the URL of the provider or the exchange.  *)
(***************************************************************************)
Arrive(r, p) ==
    /\ stage[p] = "serving"
    /\ pc[r] = "idle"
    /\ pc' = [pc EXCEPT ![r] = "lock"]
    /\ owner' = [owner EXCEPT ![r] = p]
    /\ UNCHANGED <<db, host, backend, gaveUp, faults, stops>>

\* Fault: whether the provider is set is looked up before the mutex is taken.
Lock_TestedBefore(r) ==
    /\ pc[r] = "lock" /\ mutex[owner[r]] = NoLogin
    /\ \/ provider[owner[r]] /\ pc' = [pc EXCEPT ![r] = "use"] /\ UNCHANGED mutex
       \/ pc' = [pc EXCEPT ![r] = "fetch"] /\ mutex' = [mutex EXCEPT ![owner[r]] = r]
    /\ UNCHANGED <<db, host, provider, owner, gaveUp, faults, stops>>

\* b.mu.Lock() waits whether or not the client is still there; a provider that is
\* set is all there is to do, and otherwise the mutex is held during the fetch.
Lock(r) ==
    /\ pc[r] = "lock" /\ mutex[owner[r]] = NoLogin
    /\ IF provider[owner[r]]
       THEN pc' = [pc EXCEPT ![r] = "use"] /\ UNCHANGED mutex
       ELSE pc' = [pc EXCEPT ![r] = "fetch"] /\ mutex' = [mutex EXCEPT ![owner[r]] = r]
    /\ UNCHANGED <<db, host, provider, owner, gaveUp, faults, stops>>

\* Without a timeout of its own: the fetch may take for ever.
Fetched(r) ==
    /\ pc[r] = "fetch"
    /\ provider' = [provider EXCEPT ![owner[r]] = TRUE]
    /\ mutex' = [mutex EXCEPT ![owner[r]] = NoLogin]
    /\ pc' = [pc EXCEPT ![r] = "use"]
    /\ UNCHANGED <<db, host, owner, gaveUp, faults, stops>>

Cause(r) == IF gaveUp[r] THEN UNCHANGED faults ELSE Fault

\* Fault: an error returns without unlocking.
FetchFails_KeepsLock(r) ==
    /\ pc[r] = "fetch"
    /\ Cause(r)
    /\ pc' = [pc EXCEPT ![r] = "done"]
    /\ UNCHANGED <<db, host, provider, mutex, owner, gaveUp, stops>>

\* The fetch fails, or is cancelled with the request: the next login tries again.
FetchFails(r) ==
    /\ pc[r] = "fetch"
    /\ Cause(r)
    /\ mutex' = [mutex EXCEPT ![owner[r]] = NoLogin]
    /\ pc' = [pc EXCEPT ![r] = "done"]
    /\ UNCHANGED <<db, host, provider, owner, gaveUp, stops>>

\* The provider, verifier and oauth2 are read, without the mutex, until the end.
Answer(r) ==
    /\ pc[r] = "use"
    /\ pc' = [pc EXCEPT ![r] = "done"]
    /\ UNCHANGED <<db, host, backend, owner, gaveUp, faults, stops>>

GiveUp(r) ==
    /\ pc[r] \in Pending /\ ~gaveUp[r]
    /\ gaveUp' = [gaveUp EXCEPT ![r] = TRUE]
    /\ UNCHANGED <<db, host, backend, pc, owner, faults, stops>>

-----------------------------------------------------------------------------

Main(p) ==
    \/ Start(p) \/ CheckVersion(p) \/ ApplyMigration(p) \/ CommitMigration(p) \/ OpenFails(p)
    \/ StartupCleanup(p) \/ Listen(p) \/ Shutdown(p) \/ Drained(p) \/ DrainTimeout(p)

Next ==
    \/ \E p \in Processes : \/ Main(p) \/ Signal(p) \/ Crash(p)
                            \/ \E r \in Logins : Arrive(r, p)
    \/ \E r \in Logins : Lock(r) \/ Fetched(r) \/ FetchFails(r) \/ Answer(r) \/ GiveUp(r)

\* A cancelled request context ends every call made with it.
Cancelled(r) == gaveUp[r] /\ (FetchFails(r) \/ Answer(r))

(***************************************************************************)
(* The supervisor restarts the service and the goroutines run; neither a   *)
(* signal nor a client nor an answer of the provider need ever come.       *)
(***************************************************************************)
Fairness ==
    /\ \A p \in Processes : WF_vars(Main(p))
    /\ \A r \in Logins : WF_vars(Lock(r)) /\ WF_vars(Cancelled(r))

Spec == Init /\ [][Next]_vars /\ Fairness

-----------------------------------------------------------------------------
(***************************************************************************)
(* Properties.                                                             *)
(***************************************************************************)
\* A process that got past OpenSQLite works on the full schema, whatever the
\* database was before, wherever earlier starts were interrupted, and although
\* another process may be migrating it too; and every recorded version is in
\* place, so that skipping it is right (migrate, applyMigration).
SchemaSound ==
    /\ \A p \in Processes : stage[p] \in Opened => Complete(db)
    /\ \A v \in db.applied : Creates[v] \in db.objects

\* However often opening is interrupted, some later start completes the schema:
\* no interruption leaves a database that every start fails on (isDuplicateColumn-
\* Error, and one transaction for a migration and its record).
SchemaCompletes == <>[]Complete(db)

\* b.provider, b.verifier and b.oauth2 are written only while no login of that
\* process reads them, since readers hold no lock (ensureProvider, CompleteAuth).
WritesMeetNoReader ==
    [][\A p \in Processes, r \in Logins :
          mutex[p] # NoLogin /\ mutex'[p] = NoLogin /\ provider'[p]
             => ~(owner[r] = p /\ pc[r] = "use")]_vars

\* A login waits for ever only behind an answer that the provider owes to a client
\* that waits for ever: otherwise the mutex comes to it, though whoever held it
\* failed or was cancelled (ensureProvider unlocks and leaves the provider unset).
LoginsEnd ==
    (\A q \in Logins : pc[q] \in AtProvider ~> pc[q] \notin AtProvider \/ gaveUp[q])
       => \A r \in Logins : pc[r] \in Pending ~> pc[r] \notin Pending

\* A process that was told to stop, or could not listen, does end, also when the
\* provider never answers the logins it holds.
StopsEnd == \A p \in Processes : signalled[p] ~> stage[p] = "off"
=============================================================================
