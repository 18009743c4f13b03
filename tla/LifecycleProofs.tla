--------------------------- MODULE LifecycleProofs ---------------------------
(***************************************************************************)
(* That no process works on a schema that is not complete, for any number  *)
(* of processes that migrate the database at once, for any database that   *)
(* satisfies what is recorded in it, and wherever starts are interrupted.  *)
(* And that nobody reads the provider of a process while it is written,    *)
(* for any number of logins.                                               *)
(***************************************************************************)
EXTENDS Lifecycle, TLAPS

(***************************************************************************)
(* The strengthening: what a process has passed is recorded.  A record is  *)
(* never removed, so it stays true while other processes migrate.          *)
(***************************************************************************)
SchemaTypes ==
    /\ db \in Databases
    /\ stage \in [Processes -> {"off"} \cup Opening \cup Opened]
    /\ version \in [Processes -> Versions]

Recorded(d) == \A v \in d.applied : Creates[v] \in d.objects

PassedIsApplied ==
    \A p \in Processes :
        /\ stage[p] = "off" => version[p] = 1
        /\ stage[p] \in Opening => \A v \in Versions : v < version[p] => v \in db.applied
        /\ stage[p] \in Opened => Versions \subseteq db.applied

SchemaInv == SchemaTypes /\ Recorded(db) /\ PassedIsApplied

-----------------------------------------------------------------------------
\* Creates is a bijection from the versions to the objects: a database whose records
\* are right and which has them all is complete (migrate).
LEMMA AllApplied ==
    ASSUME NEW d \in Databases, Recorded(d), Versions \subseteq d.applied
    PROVE  Complete(d)
<1>1. /\ Creates[1] = "tables" /\ Creates[2] = "revoked_at"
      /\ Creates[3] = "managed_profiles" /\ Creates[4] = "customization"
  BY DEF Creates
<1>2. /\ 1 \in Versions /\ 2 \in Versions /\ 3 \in Versions /\ 4 \in Versions
  BY DEF Versions
<1>3. Objects \subseteq d.objects
  BY <1>1, <1>2 DEF Recorded, Objects
<1> QED
  BY <1>3 DEF Complete, Databases

\* One migration keeps what is there, adds its own record and what the record
\* stands for (applyMigration: statements and record in one transaction).
LEMMA MigratedKeeps ==
    ASSUME NEW d \in Databases, NEW v \in Versions, Recorded(d)
    PROVE  /\ Migrated(d, v) \in Databases
           /\ Recorded(Migrated(d, v))
           /\ Migrated(d, v).applied = d.applied \cup {v}
<1>1. \A w \in Versions : Creates[w] \in Objects
  BY DEF Creates, Versions, Objects
<1>2. "revoked_at" \in Objects
  BY DEF Objects
<1>3. Migrated(d, v) \in Databases
  BY <1>1, <1>2 DEF Migrated, Databases
<1>4. /\ Migrated(d, v).applied = d.applied \cup {v}
      /\ d.objects \cup {Creates[v]} \subseteq Migrated(d, v).objects
  BY DEF Migrated
<1> QED
  BY <1>3, <1>4 DEF Recorded

\* A step that leaves the database alone, and takes some processes out of it or on
\* from a stage to one that supposes no more, keeps the invariant.
LEMMA SchemaKept ==
    ASSUME SchemaInv, SchemaTypes', UNCHANGED db,
           \A p \in Processes :
               /\ version'[p] = version[p]
               /\ stage'[p] = "off" => stage[p] = "off"
               /\ stage'[p] \in Opening => stage[p] \in Opening
               /\ stage'[p] \in Opened => stage[p] \in Opened
    PROVE  SchemaInv'
  BY DEF SchemaInv, Recorded, PassedIsApplied

\* Going on to the next migration is right once this one is recorded.
LEMMA NextMigrationSound ==
    ASSUME SchemaInv, NEW p \in Processes, stage[p] \in Opening,
           db' \in Databases, Recorded(db'), db.applied \subseteq db'.applied,
           version[p] \in db'.applied, NextMigration(p)
    PROVE  SchemaInv'
<1>1. \A v \in Versions : v < version[p] + 1 => v \in db'.applied
  BY DEF SchemaInv, SchemaTypes, PassedIsApplied, Versions
<1>2. CASE version[p] + 1 \in Versions
  <2>1. /\ stage' = [stage EXCEPT ![p] = "check"]
        /\ version' = [version EXCEPT ![p] = version[p] + 1]
    BY <1>2 DEF NextMigration
  <2>2. SchemaTypes'
    BY <1>2, <2>1 DEF SchemaInv, SchemaTypes, Opening
  <2>3. ASSUME NEW q \in Processes
        PROVE  /\ stage'[q] = "off" => version'[q] = 1
               /\ stage'[q] \in Opening => \A v \in Versions : v < version'[q] => v \in db'.applied
               /\ stage'[q] \in Opened => Versions \subseteq db'.applied
    <3>1. CASE q = p
      BY <1>1, <2>1, <3>1 DEF SchemaInv, SchemaTypes, Opened
    <3>2. CASE q # p
      BY <2>1, <3>2 DEF SchemaInv, SchemaTypes, PassedIsApplied
    <3> QED BY <3>1, <3>2
  <2> QED
    BY <2>2, <2>3 DEF SchemaInv, PassedIsApplied, Recorded
<1>3. CASE version[p] + 1 \notin Versions
  <2>1. /\ stage' = [stage EXCEPT ![p] = "cleanup"] /\ version' = version
    BY <1>3 DEF NextMigration
  <2>2. SchemaTypes'
    BY <2>1 DEF SchemaInv, SchemaTypes, Opened
  <2>3. Versions \subseteq db'.applied
    BY <1>1, <1>3 DEF SchemaInv, SchemaTypes, Versions
  <2>4. ASSUME NEW q \in Processes
        PROVE  /\ stage'[q] = "off" => version'[q] = 1
               /\ stage'[q] \in Opening => \A v \in Versions : v < version'[q] => v \in db'.applied
               /\ stage'[q] \in Opened => Versions \subseteq db'.applied
    <3>1. CASE q = p
      BY <2>1, <2>3, <3>1 DEF SchemaInv, SchemaTypes
    <3>2. CASE q # p
      BY <2>1, <2>3, <3>2 DEF SchemaInv, SchemaTypes, PassedIsApplied
    <3> QED BY <3>1, <3>2
  <2> QED
    BY <2>2, <2>4 DEF SchemaInv, PassedIsApplied, Recorded
<1> QED BY <1>2, <1>3

\* A process that ends supposes nothing; the database may have been migrated by it.
LEMMA ExitSound ==
    ASSUME SchemaInv, NEW p \in Processes, Exit(p),
           db' \in Databases, Recorded(db'), db.applied \subseteq db'.applied
    PROVE  SchemaInv'
<1>1. /\ stage' = [stage EXCEPT ![p] = "off"]
      /\ version' = [version EXCEPT ![p] = 1]
  BY DEF Exit
<1>2. SchemaTypes'
  BY <1>1 DEF SchemaInv, SchemaTypes, Versions
<1>3. ASSUME NEW q \in Processes
      PROVE  /\ stage'[q] = "off" => version'[q] = 1
             /\ stage'[q] \in Opening => \A v \in Versions : v < version'[q] => v \in db'.applied
             /\ stage'[q] \in Opened => Versions \subseteq db'.applied
  <2>1. CASE q = p
    BY <1>1, <2>1 DEF SchemaInv, SchemaTypes, Opening, Opened
  <2>2. CASE q # p
    BY <1>1, <2>2 DEF SchemaInv, SchemaTypes, PassedIsApplied
  <2> QED BY <2>1, <2>2
<1> QED
  BY <1>2, <1>3 DEF SchemaInv, PassedIsApplied, Recorded

-----------------------------------------------------------------------------
\* Every database the program was ever released with records only what it has.
LEMMA InitSchema == Init => SchemaInv
<1> SUFFICES ASSUME Init PROVE SchemaInv
  OBVIOUS
<1>1. db \in Databases /\ Recorded(db)
  BY DEF Init, InitialDatabases, Databases, Objects, Versions, Recorded, Creates
<1> QED
  BY <1>1 DEF Init, SchemaInv, SchemaTypes, PassedIsApplied, Versions, Opening, Opened

\* One step per operation of main(), then the logins, which touch none of it.
LEMMA StepSchema == SchemaInv /\ [Next]_vars => SchemaInv'
<1> SUFFICES ASSUME SchemaInv, [Next]_vars PROVE SchemaInv'
  OBVIOUS
<1>t. SchemaTypes /\ Recorded(db) /\ PassedIsApplied
  BY DEF SchemaInv
<1>1. ASSUME NEW p \in Processes, Start(p) PROVE SchemaInv'
  <2>1. /\ db' = db /\ version' = version
        /\ stage[p] = "off" /\ stage' = [stage EXCEPT ![p] = "check"]
    BY <1>1 DEF Start
  <2>2. SchemaTypes'
    BY <1>t, <2>1 DEF SchemaTypes, Opening
  <2>3. ASSUME NEW q \in Processes
        PROVE  /\ stage'[q] = "off" => version'[q] = 1
               /\ stage'[q] \in Opening => \A v \in Versions : v < version'[q] => v \in db'.applied
               /\ stage'[q] \in Opened => Versions \subseteq db'.applied
    <3>1. CASE q = p
      BY <1>t, <2>1, <3>1 DEF SchemaTypes, PassedIsApplied, Versions, Opened
    <3>2. CASE q # p
      BY <1>t, <2>1, <3>2 DEF SchemaTypes, PassedIsApplied
    <3> QED BY <3>1, <3>2
  <2> QED
    BY <1>t, <2>1, <2>2, <2>3 DEF SchemaInv, PassedIsApplied, Recorded
<1>2. ASSUME NEW p \in Processes, CheckVersion(p) PROVE SchemaInv'
  <2>1. stage[p] = "check" /\ db' = db
    BY <1>2 DEF CheckVersion
  <2>2. CASE version[p] \in db.applied
    <3>1. NextMigration(p)
      BY <1>2, <2>2 DEF CheckVersion
    <3>2. stage[p] \in Opening
      BY <2>1 DEF Opening
    <3>3. db' \in Databases /\ Recorded(db') /\ db.applied \subseteq db'.applied /\ version[p] \in db'.applied
      BY <1>t, <2>1, <2>2 DEF SchemaTypes, Recorded
    <3> QED
      BY <3>1, <3>2, <3>3, NextMigrationSound
  <2>3. CASE version[p] \notin db.applied
    <3>1. stage' = [stage EXCEPT ![p] = "apply"] /\ version' = version
      BY <1>2, <2>3 DEF CheckVersion
    <3> QED
      BY <1>t, <2>1, <3>1, SchemaKept DEF SchemaTypes, Opening, Opened
  <2> QED BY <2>2, <2>3
<1>3. ASSUME NEW p \in Processes, ApplyMigration(p) PROVE SchemaInv'
  <2>1. /\ stage[p] = "apply" /\ stage' = [stage EXCEPT ![p] = "commit"]
        /\ db' = db /\ version' = version
    BY <1>3 DEF ApplyMigration
  <2> QED
    BY <1>t, <2>1, SchemaKept DEF SchemaTypes, Opening, Opened
<1>4. ASSUME NEW p \in Processes, CommitMigration(p) PROVE SchemaInv'
  <2>1. stage[p] \in Opening /\ db' = Migrated(db, version[p]) /\ NextMigration(p)
    BY <1>4 DEF CommitMigration, Opening
  <2>2. db \in Databases /\ version[p] \in Versions
    BY <1>t DEF SchemaTypes
  <2>3. /\ db' \in Databases /\ Recorded(db')
        /\ db.applied \subseteq db'.applied /\ version[p] \in db'.applied
    BY <1>t, <2>1, <2>2, MigratedKeeps
  <2> QED
    BY <2>1, <2>3, NextMigrationSound
<1>5. ASSUME NEW p \in Processes, OpenFails(p) PROVE SchemaInv'
  <2>1. Exit(p) /\ (db' = db \/ db' = Migrated(db, version[p]))
    BY <1>5 DEF OpenFails
  <2>2. db \in Databases /\ version[p] \in Versions
    BY <1>t DEF SchemaTypes
  <2>3. db' \in Databases /\ Recorded(db') /\ db.applied \subseteq db'.applied
    BY <1>t, <2>1, <2>2, MigratedKeeps DEF Recorded
  <2> QED
    BY <2>1, <2>3, ExitSound
<1>6. ASSUME NEW p \in Processes, StartupCleanup(p) \/ Listen(p) \/ Shutdown(p) PROVE SchemaInv'
  <2>1. PICK s \in Opened : /\ stage[p] \in Opened /\ stage' = [stage EXCEPT ![p] = s]
                           /\ db' = db /\ version' = version
    BY <1>6 DEF StartupCleanup, Listen, Shutdown, Opened
  <2>2. stage[p] \notin Opening /\ s \notin Opening /\ s # "off"
    BY <2>1 DEF Opening, Opened
  <2> QED
    BY <1>t, <2>1, <2>2, SchemaKept DEF SchemaTypes
<1>7. ASSUME NEW p \in Processes, Drained(p) \/ DrainTimeout(p) \/ Crash(p) PROVE SchemaInv'
  <2>1. Exit(p) /\ db' = db
    BY <1>7 DEF Drained, DrainTimeout, Crash
  <2>2. db' \in Databases /\ Recorded(db') /\ db.applied \subseteq db'.applied
    BY <1>t, <2>1 DEF SchemaTypes, Recorded
  <2> QED
    BY <2>1, <2>2, ExitSound
<1>8. ASSUME UNCHANGED <<db, stage, version>> PROVE SchemaInv'
  BY <1>t, <1>8, SchemaKept DEF SchemaTypes
<1>9. ASSUME NEW p \in Processes, Signal(p) \/ \E r \in Logins : Arrive(r, p) PROVE SchemaInv'
  BY <1>8, <1>9 DEF Signal, Arrive, host
<1>10. ASSUME NEW r \in Logins, Lock(r) \/ Fetched(r) \/ FetchFails(r) \/ Answer(r) \/ GiveUp(r)
       PROVE  SchemaInv'
  BY <1>8, <1>10 DEF Lock, Fetched, FetchFails, Answer, GiveUp, host
<1>11. CASE UNCHANGED vars
  BY <1>8, <1>11 DEF vars, host
<1> QED
  BY <1>1, <1>2, <1>3, <1>4, <1>5, <1>6, <1>7, <1>9, <1>10, <1>11 DEF Next, Main

-----------------------------------------------------------------------------
\* In every behaviour a process that is past OpenSQLite has the complete schema, and
\* every recorded version is in place (SchemaSound): checking a version outside the
\* transaction that applies it, which another process may overtake, costs nothing.
THEOREM SchemaIsSound == Spec => []SchemaSound
<1>1. SchemaInv => SchemaSound
  <2> SUFFICES ASSUME SchemaInv PROVE SchemaSound
    OBVIOUS
  <2>1. SchemaTypes /\ Recorded(db) /\ PassedIsApplied
    BY DEF SchemaInv
  <2>2. ASSUME NEW p \in Processes, stage[p] \in Opened PROVE Complete(db)
    BY <2>1, <2>2, AllApplied DEF SchemaTypes, PassedIsApplied
  <2> QED
    BY <2>1, <2>2 DEF SchemaSound, Recorded
<1> QED
  BY InitSchema, StepSchema, <1>1, PTL DEF Spec
-----------------------------------------------------------------------------
(***************************************************************************)
(* The write lock.  A version is looked up before the transaction that     *)
(* applies it, so two processes may both be about to apply it; but only    *)
(* one is in a transaction, and what it applies is not recorded yet.       *)
(***************************************************************************)
LockInv ==
    \A p \in Processes : stage[p] = "commit" =>
        /\ version[p] \notin db.applied
        /\ \A q \in Processes : stage[q] = "commit" => q = p

\* The database changes only by one migration that is not recorded, with all that come
\* before it in place, whoever applies it, and also when its commit reports an error: none
\* is applied twice, none is skipped, and none is in place in part (migrate, applyMigration).
MigratesInOrder ==
    [][db' # db => \E v \in Versions :
          /\ v \notin db.applied
          /\ \A w \in Versions : w < v => w \in db.applied /\ Creates[w] \in db.objects
          /\ db' = Migrated(db, v)]_vars

\* What can change the database is the transaction of the process that has the lock.
LEMMA DatabaseOfSteps ==
    ASSUME SchemaInv, [Next]_vars
    PROVE  \/ /\ db' = db
              /\ \A p \in Processes : stage'[p] = "commit" =>
                    /\ version'[p] = version[p]
                    /\ \/ stage[p] = "commit"
                       \/ /\ version[p] \notin db.applied /\ ~WriteLocked
                          /\ \A q \in Processes \ {p} : stage'[q] = stage[q]
           \/ \E p \in Processes :
                /\ stage[p] = "commit" /\ db' = Migrated(db, version[p])
                /\ stage'[p] # "commit" /\ \A q \in Processes \ {p} : stage'[q] = stage[q]
<1> USE DEF vars, host
<1>t. SchemaTypes
  BY DEF SchemaInv
<1>1. ASSUME NEW p \in Processes, Exit(p)
      PROVE  /\ stage'[p] = "off"
             /\ \A q \in Processes \ {p} : stage'[q] = stage[q] /\ version'[q] = version[q]
  BY <1>1, <1>t DEF Exit, SchemaTypes
<1>2. ASSUME NEW p \in Processes, NextMigration(p)
      PROVE  /\ stage'[p] \in {"check", "cleanup"}
             /\ \A q \in Processes \ {p} : stage'[q] = stage[q] /\ version'[q] = version[q]
  <2>1. CASE version[p] + 1 \in Versions
    BY <1>2, <2>1, <1>t DEF NextMigration, SchemaTypes
  <2>2. CASE version[p] + 1 \notin Versions
    BY <1>2, <2>2, <1>t DEF NextMigration, SchemaTypes
  <2> QED  BY <2>1, <2>2
<1>3. ASSUME NEW p \in Processes, CheckVersion(p)
      PROVE  db' = db /\ \A q \in Processes : stage'[q] = "commit" =>
                            stage[q] = "commit" /\ version'[q] = version[q]
  <2>1. CASE version[p] \in db.applied
    BY <1>2, <1>3, <2>1 DEF CheckVersion
  <2>2. CASE version[p] \notin db.applied
    BY <1>3, <2>2, <1>t DEF CheckVersion, SchemaTypes
  <2> QED  BY <2>1, <2>2
<1>4. ASSUME NEW p \in Processes, ApplyMigration(p)
      PROVE  /\ db' = db /\ version' = version /\ ~WriteLocked /\ version[p] \notin db.applied
             /\ \A q \in Processes \ {p} : stage'[q] = stage[q]
  BY <1>4, <1>t DEF ApplyMigration, Succeeds, SchemaTypes
<1>5. ASSUME NEW p \in Processes,
             Start(p) \/ StartupCleanup(p) \/ Listen(p) \/ Shutdown(p)
      PROVE  db' = db /\ version' = version /\ \A q \in Processes : stage'[q] = "commit" => stage[q] = "commit"
  BY <1>5, <1>t DEF Start, StartupCleanup, Listen, Shutdown, SchemaTypes
<1>6. ASSUME NEW p \in Processes, CommitMigration(p)
      PROVE  /\ stage[p] = "commit" /\ db' = Migrated(db, version[p])
             /\ stage'[p] # "commit" /\ \A q \in Processes \ {p} : stage'[q] = stage[q]
  BY <1>2, <1>6 DEF CommitMigration
<1>7. ASSUME NEW p \in Processes, OpenFails(p) \/ Drained(p) \/ DrainTimeout(p) \/ Crash(p)
      PROVE  Exit(p) /\ (db' = db \/ (stage[p] = "commit" /\ db' = Migrated(db, version[p])))
  BY <1>7 DEF OpenFails, Drained, DrainTimeout, Crash
<1>8. ASSUME NEW p \in Processes, Signal(p) \/ \E r \in Logins : Arrive(r, p)
      PROVE  UNCHANGED <<db, stage, version>>
  BY <1>8 DEF Signal, Arrive
<1>9. ASSUME NEW r \in Logins, Lock(r) \/ Fetched(r) \/ FetchFails(r) \/ Answer(r) \/ GiveUp(r)
      PROVE  UNCHANGED <<db, stage, version>>
  BY <1>9 DEF Lock, Fetched, FetchFails, Answer, GiveUp
<1>10. ASSUME NEW p \in Processes, Exit(p), db' = db
       PROVE  \A q \in Processes : stage'[q] = "commit" => stage[q] = "commit" /\ version'[q] = version[q]
  BY <1>1, <1>10
<1>11. CASE UNCHANGED <<db, stage, version>>
  BY <1>11
<1>12. ASSUME NEW p \in Processes, Main(p) \/ Crash(p)
       PROVE  \/ /\ db' = db
                 /\ \A q \in Processes : stage'[q] = "commit" =>
                       /\ version'[q] = version[q]
                       /\ \/ stage[q] = "commit"
                          \/ /\ version[q] \notin db.applied /\ ~WriteLocked
                             /\ \A o \in Processes \ {q} : stage'[o] = stage[o]
              \/ /\ stage[p] = "commit" /\ db' = Migrated(db, version[p])
                 /\ stage'[p] # "commit" /\ \A q \in Processes \ {p} : stage'[q] = stage[q]
  <2>1. CASE Start(p) \/ StartupCleanup(p) \/ Listen(p) \/ Shutdown(p)
    BY <1>5, <2>1
  <2>2. CASE CheckVersion(p)
    BY <1>3, <2>2
  <2>3. CASE ApplyMigration(p)
    <3>1. ASSUME NEW q \in Processes, stage'[q] = "commit", stage[q] # "commit" PROVE q = p
      BY <1>4, <2>3, <3>1
    <3> QED  BY <1>4, <2>3, <3>1
  <2>4. CASE CommitMigration(p)
    BY <1>6, <2>4
  <2>5. CASE OpenFails(p) \/ Drained(p) \/ DrainTimeout(p) \/ Crash(p)
    BY <1>1, <1>7, <1>10, <2>5
  <2> QED  BY <1>12, <2>1, <2>2, <2>3, <2>4, <2>5 DEF Main
<1> QED
  BY <1>8, <1>9, <1>11, <1>12 DEF Next

\* The lock is taken by one process at a time, over a version that the transaction finds
\* unrecorded; it ends with the transaction.
LEMMA LockNext == SchemaInv /\ LockInv /\ [Next]_vars => LockInv'
<1> SUFFICES ASSUME SchemaInv, LockInv, [Next]_vars PROVE LockInv'
  OBVIOUS
<1>1. CASE \E p \in Processes :
             /\ stage[p] = "commit" /\ db' = Migrated(db, version[p])
             /\ stage'[p] # "commit" /\ \A q \in Processes \ {p} : stage'[q] = stage[q]
  <2>1. \A q \in Processes : stage'[q] # "commit"
    BY <1>1 DEF LockInv
  <2> QED  BY <2>1 DEF LockInv
<1>2. CASE /\ db' = db
           /\ \A p \in Processes : stage'[p] = "commit" =>
                 /\ version'[p] = version[p]
                 /\ \/ stage[p] = "commit"
                    \/ /\ version[p] \notin db.applied /\ ~WriteLocked
                       /\ \A q \in Processes \ {p} : stage'[q] = stage[q]
  BY <1>2 DEF LockInv, WriteLocked
<1> QED  BY <1>1, <1>2, DatabaseOfSteps

\* A migration is applied once, whole, and after the ones before it, whichever processes
\* try to and wherever they are interrupted.
THEOREM MigrationsInOrder == Spec => MigratesInOrder
<1>1. Init => LockInv
  BY DEF Init, LockInv
<1>2. SchemaInv /\ LockInv /\ [Next]_vars =>
        [db' # db => \E v \in Versions :
           /\ v \notin db.applied
           /\ \A w \in Versions : w < v => w \in db.applied /\ Creates[w] \in db.objects
           /\ db' = Migrated(db, v)]_vars
  <2> SUFFICES ASSUME SchemaInv, LockInv, [Next]_vars, db' # db
               PROVE  \E v \in Versions :
                        /\ v \notin db.applied
                        /\ \A w \in Versions : w < v => w \in db.applied /\ Creates[w] \in db.objects
                        /\ db' = Migrated(db, v)
    OBVIOUS
  <2>1. PICK p \in Processes : stage[p] = "commit" /\ db' = Migrated(db, version[p])
    BY DatabaseOfSteps
  <2>2. version[p] \in Versions /\ version[p] \notin db.applied
    BY <2>1 DEF LockInv, SchemaInv, SchemaTypes
  <2>3. \A w \in Versions : w < version[p] => w \in db.applied /\ Creates[w] \in db.objects
    BY <2>1 DEF SchemaInv, PassedIsApplied, Recorded, Opening
  <2> QED  BY <2>1, <2>2, <2>3
<1> QED
  BY <1>1, <1>2, LockNext, InitSchema, StepSchema, PTL DEF Spec, MigratesInOrder
-----------------------------------------------------------------------------
(***************************************************************************)
(* The provider and its mutex.  A login waits for the provider's metadata  *)
(* exactly while it holds the mutex of its process, which has no provider  *)
(* then; one that uses the provider runs in a process that has it.         *)
(***************************************************************************)
BackendInv ==
    /\ TypeOK
    /\ \A r \in Logins :
         /\ pc[r] \in Pending => owner[r] \in Processes
         /\ pc[r] = "fetch" => mutex[owner[r]] = r
         /\ pc[r] = "use" => provider[owner[r]]
    /\ \A p \in Processes : mutex[p] # NoLogin =>
         owner[mutex[p]] = p /\ pc[mutex[p]] = "fetch" /\ ~provider[p]

\* Nobody has logged in yet.
LEMMA InitBackend == Init => BackendInv
<1>1. Init => db \in Databases
  BY InitSchema DEF SchemaInv, SchemaTypes
<1>2. Init => TypeOK
  BY <1>1 DEF Init, TypeOK, Versions, Opening, Opened, Pending
<1> QED  BY <1>2 DEF Init, BackendInv, Pending

\* The steps of main() but its end leave the backend alone.
LEMMA BackendKept ==
    ASSUME BackendInv, TypeOK', UNCHANGED <<provider, mutex, pc, owner>>
    PROVE  BackendInv'
BY DEF BackendInv

\* A process that ends takes its provider, its mutex and its logins with it.
LEMMA ExitBackend ==
    ASSUME BackendInv, NEW p \in Processes, Exit(p), db' \in Databases, faults' \in Nat
    PROVE  BackendInv'
<1>1. TypeOK'
  <2>1. pc' \in [Logins -> {"idle", "done", "lost"} \cup Pending]
    BY DEF Exit, BackendInv, TypeOK
  <2>2. listener' \in Processes \cup {Nobody}
    BY DEF Exit, BackendInv, TypeOK
  <2> QED  BY <2>1, <2>2 DEF Exit, BackendInv, TypeOK, Versions
<1>2. ASSUME NEW r \in Logins, pc'[r] \in Pending
      PROVE  pc[r] = pc'[r] /\ owner[r] \in Processes /\ owner[r] # p /\ owner'[r] = owner[r]
  BY <1>2 DEF Exit, InFlight, BackendInv, Pending
<1>3. \A q \in Processes \ {p} : provider'[q] = provider[q] /\ mutex'[q] = mutex[q]
  BY DEF Exit, BackendInv, TypeOK
<1>4. mutex'[p] = NoLogin
  BY DEF Exit, BackendInv, TypeOK
<1>5. ASSUME NEW q \in Processes \ {p}, mutex[q] # NoLogin
      PROVE  owner'[mutex[q]] = q /\ pc'[mutex[q]] = "fetch" /\ ~provider'[q]
  BY <1>3, <1>5 DEF Exit, InFlight, BackendInv, TypeOK
<1>6. ASSUME NEW r \in Logins
      PROVE  /\ pc'[r] \in Pending => owner'[r] \in Processes
             /\ pc'[r] = "fetch" => mutex'[owner'[r]] = r
             /\ pc'[r] = "use" => provider'[owner'[r]]
  BY <1>2, <1>3 DEF BackendInv, Pending
<1> QED  BY <1>1, <1>3, <1>4, <1>5, <1>6 DEF BackendInv

\* One step per operation of main(), then those of a login.
LEMMA StepBackend == BackendInv /\ SchemaInv /\ [Next]_vars => BackendInv'
<1> SUFFICES ASSUME BackendInv, SchemaInv, [Next]_vars PROVE BackendInv'
  OBVIOUS
<1> USE DEF vars, host, backend, local
<1>t. TypeOK
  BY DEF BackendInv
<1>s. db' \in Databases /\ stage' \in [Processes -> {"off"} \cup Opening \cup Opened]
      /\ version' \in [Processes -> Versions]
  BY StepSchema DEF SchemaInv, SchemaTypes
<1>1. ASSUME NEW p \in Processes, Start(p) \/ CheckVersion(p) \/ ApplyMigration(p) \/ CommitMigration(p)
      PROVE  BackendInv'
  <2>1. UNCHANGED <<signalled, listener, backend, local, faults, stops>>
    BY <1>1 DEF Start, CheckVersion, ApplyMigration, CommitMigration
  <2> QED  BY <1>t, <1>s, <2>1, BackendKept DEF TypeOK
<1>2. ASSUME NEW p \in Processes, OpenFails(p) \/ Drained(p) \/ DrainTimeout(p) \/ Crash(p)
      PROVE  BackendInv'
  <2>1. Exit(p)
    BY <1>2 DEF OpenFails, Drained, DrainTimeout, Crash
  <2>2. UNCHANGED faults \/ Fault
    BY <1>2 DEF OpenFails, Drained, DrainTimeout, Crash
  <2>3. faults' \in Nat
    BY <1>t, <2>2 DEF Fault, TypeOK
  <2> QED  BY <1>s, <2>1, <2>3, ExitBackend
<1>3. ASSUME NEW p \in Processes, StartupCleanup(p) \/ Listen(p) \/ Shutdown(p) \/ Signal(p)
      PROVE  BackendInv'
  <2>1. UNCHANGED <<db, backend, local, faults>>
    BY <1>3 DEF StartupCleanup, Listen, Shutdown, Signal
  <2>2. signalled' \in [Processes -> BOOLEAN] /\ listener' \in Processes \cup {Nobody} /\ stops' \in Nat
    <3>1. CASE StartupCleanup(p)
      BY <3>1, <1>t DEF StartupCleanup, TypeOK
    <3>2. CASE Listen(p)
      BY <3>2, <1>t DEF Listen, TypeOK
    <3>3. CASE Shutdown(p)
      BY <3>3, <1>t DEF Shutdown, TypeOK
    <3>4. CASE Signal(p)
      BY <3>4, <1>t DEF Signal, TypeOK
    <3> QED  BY <1>3, <3>1, <3>2, <3>3, <3>4
  <2> QED  BY <1>t, <1>s, <2>1, <2>2, BackendKept DEF TypeOK
<1>4. ASSUME NEW p \in Processes, NEW r \in Logins, Arrive(r, p) PROVE BackendInv'
  <2>1. TypeOK'
    BY <1>4, <1>t DEF Arrive, TypeOK, Pending
  <2> QED  BY <1>4, <1>t, <2>1 DEF Arrive, BackendInv, TypeOK, Pending
<1>5. ASSUME NEW r \in Logins, Lock(r) PROVE BackendInv'
  <2>1. owner[r] \in Processes
    BY <1>5 DEF Lock, BackendInv, Pending
  <2>2. TypeOK'
    BY <1>5, <1>t, <2>1 DEF Lock, TypeOK, Pending
  <2>3. CASE provider[owner[r]]
    BY <1>5, <1>t, <2>1, <2>2, <2>3 DEF Lock, BackendInv, TypeOK, Pending
  <2>4. CASE ~provider[owner[r]]
    BY <1>5, <1>t, <2>1, <2>2, <2>4, NameAssumption DEF Lock, BackendInv, TypeOK, Pending
  <2> QED  BY <2>3, <2>4
<1>6. ASSUME NEW r \in Logins, Fetched(r) \/ FetchFails(r) PROVE BackendInv'
  <2>1. /\ owner[r] \in Processes /\ mutex[owner[r]] = r /\ pc[r] = "fetch"
        /\ pc' = [pc EXCEPT ![r] = pc'[r]] /\ pc'[r] \in {"use", "done"}
        /\ pc'[r] = "use" => provider'[owner[r]]
        /\ mutex' = [mutex EXCEPT ![owner[r]] = NoLogin]
        /\ \A p \in Processes \ {owner[r]} : provider'[p] = provider[p]
        /\ provider' \in [Processes -> BOOLEAN]
        /\ UNCHANGED <<db, host, owner, gaveUp, stops>>
    <3>1. owner[r] \in Processes /\ mutex[owner[r]] = r /\ pc[r] = "fetch"
      BY <1>6 DEF Fetched, FetchFails, BackendInv, Pending
    <3>2. CASE Fetched(r)
      BY <1>t, <3>1, <3>2 DEF Fetched, TypeOK
    <3>3. CASE FetchFails(r)
      BY <1>t, <3>1, <3>3 DEF FetchFails, TypeOK
    <3> QED  BY <1>6, <3>2, <3>3
  <2>2. faults' \in Nat
    BY <1>6, <1>t DEF Fetched, FetchFails, Cause, Fault, TypeOK
  <2>3. TypeOK'
    BY <1>t, <2>1, <2>2 DEF TypeOK, Pending
  <2>4. ASSUME NEW q \in Logins
        PROVE  /\ pc'[q] \in Pending => owner'[q] \in Processes
               /\ pc'[q] = "fetch" => mutex'[owner'[q]] = q
               /\ pc'[q] = "use" => provider'[owner'[q]]
    <3>1. CASE q = r
      BY <1>t, <2>1, <3>1 DEF TypeOK
    <3>2. CASE q # r
      <4>1. pc'[q] = pc[q] /\ owner'[q] = owner[q]
        BY <1>t, <2>1, <3>2 DEF TypeOK
      <4>2. pc[q] \in {"fetch", "use"} => owner[q] \in Processes /\ owner[q] # owner[r]
        BY <2>1, <3>2, NameAssumption DEF BackendInv, Pending
      <4> QED  BY <1>t, <2>1, <4>1, <4>2 DEF BackendInv, TypeOK
    <3> QED  BY <3>1, <3>2
  <2>5. ASSUME NEW p \in Processes, mutex'[p] # NoLogin
        PROVE  owner'[mutex'[p]] = p /\ pc'[mutex'[p]] = "fetch" /\ ~provider'[p]
    <3>1. p # owner[r] /\ mutex'[p] = mutex[p]
      BY <1>t, <2>1, <2>5 DEF TypeOK
    <3>2. mutex[p] \in Logins /\ owner[mutex[p]] = p /\ pc[mutex[p]] = "fetch" /\ ~provider[p]
      BY <1>t, <2>5, <3>1 DEF BackendInv, TypeOK
    <3> QED  BY <1>t, <2>1, <3>1, <3>2 DEF TypeOK
  <2> QED  BY <2>3, <2>4, <2>5 DEF BackendInv
<1>7. ASSUME NEW r \in Logins, Answer(r) PROVE BackendInv'
  <2>1. TypeOK'
    BY <1>7, <1>t DEF Answer, TypeOK
  <2> QED  BY <1>7, <1>t, <2>1 DEF Answer, BackendInv, TypeOK, Pending
<1>8. ASSUME NEW r \in Logins, GiveUp(r) PROVE BackendInv'
  BY <1>8, <1>t, BackendKept DEF GiveUp, TypeOK
<1>9. CASE UNCHANGED vars
  BY <1>9, <1>t, BackendKept DEF TypeOK
<1> QED
  BY <1>1, <1>2, <1>3, <1>4, <1>5, <1>6, <1>7, <1>8, <1>9 DEF Next, Main

\* Both invariants hold always.
LEMMA BackendInvariant == Spec => [](BackendInv /\ SchemaInv)
BY InitSchema, StepSchema, InitBackend, StepBackend, PTL DEF Spec

\* The variables have their types: the mutex is held by a login, a database has only
\* objects and versions that there are.
THEOREM LifecycleTypes == Spec => []TypeOK
BY BackendInvariant, PTL DEF BackendInv

\* No login reads the provider of its process in a step that writes it: whoever writes
\* holds the mutex, and while it is held nobody has got past it.
THEOREM WritersMeetNoReader == Spec => WritesMeetNoReader
<1>1. ASSUME BackendInv, [Next]_vars, NEW p \in Processes, NEW r \in Logins,
             mutex[p] # NoLogin, owner[r] = p, pc[r] = "use"
      PROVE  FALSE
  BY <1>1 DEF BackendInv
<1>2. BackendInv /\ SchemaInv /\ [Next]_vars =>
        [\A p \in Processes, r \in Logins :
           mutex[p] # NoLogin /\ mutex'[p] = NoLogin /\ provider'[p]
             => ~(owner[r] = p /\ pc[r] = "use")]_vars
  BY <1>1
<1> QED  BY <1>2, BackendInvariant, PTL DEF Spec, WritesMeetNoReader
=============================================================================
