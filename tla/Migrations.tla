------------------------------ MODULE Migrations ------------------------------
(***************************************************************************)
(* The tools that change the database's structure: the deployment of       *)
(* migrations to production (easypanel-production-migrate.js), the         *)
(* bootstrap of a new database (bootstrap-database.js), and the cutover    *)
(* that replaces the history of the 35 legacy migrations by one baseline   *)
(* (rebaseline-migration-history.js).                                      *)
(*                                                                         *)
(* They meet in _prisma_migrations, in the files of the API's container    *)
(* and in `prisma migrate deploy`, which is external: it takes an advisory *)
(* lock, lists what is pending, and for each migration inserts a row, runs *)
(* the SQL in a transaction, and marks the row as finished.                *)
(***************************************************************************)
EXTENDS Naturals

CONSTANTS
    Legacy,     \* the manifest's legacyMigrations
    Later,      \* the migrations that follow the baseline
    Order,      \* their order, which is that of their names
    Baseline,
    Runs,       \* runs of the deployment workflow: nothing keeps two from overlapping
    Bootstrap,  \* the run of the bootstrap
    None

Active == {Baseline} \cup Later    \* prisma/migrations
Deployers == Runs \cup {Bootstrap}

ASSUME MigrationsAssumption ==
    /\ Active \cap Legacy = {} /\ Baseline \notin Later
    /\ \E l, k \in Legacy : l # k
    /\ Order \in [Active -> Nat]
    /\ \A m \in Later : Order[Baseline] < Order[m]
    /\ \A m, n \in Active : Order[m] = Order[n] => m = n
    /\ Bootstrap \notin Runs /\ "absent" \notin Runs /\ "whole" \notin Runs
    /\ None \notin Active \cup Runs \cup {Bootstrap}
    /\ \A rows \in SUBSET [name : Legacy \cup Active, finished : BOOLEAN] : rows # None

VARIABLES
    schema,     \* the application's tables: [base, later]
    history,    \* _prisma_migrations, or None: no such table
    container,  \* the API container's prisma/migrations
    lock,       \* Prisma's advisory lock
    at,         \* the deployers
    cutover,
    dumps,      \* pg_dump files: the migrations each contains
    booted,     \* history: the database was born of the bootstrap
    torn        \* history: migrations whose file was not whole when it ran

vars == <<schema, history, container, lock, at, cutover, dumps, booted, torn>>

\* The structure as its fingerprint tells it: that of the baseline, the other one
\* the manifest accepts, one left by the legacy chain half way, or another.
Validated == {"baseline", "accepted"}
Schema == [base : Validated \cup {"none", "old", "other"}, later : SUBSET Later]

Row == [name : Legacy \cup Active, finished : BOOLEAN]
Rows(names) == [name : names, finished : {TRUE}]
Finished(rows) == {r.name : r \in {s \in rows : s.finished}}
NamesIn(rows) == {r.name : r \in rows}

\* "absent", "whole", or the run that is writing the file, or died doing so.
FileState == {"absent", "whole"} \cup Runs

Step == {"idle", "listed", "saved", "staging", "migrating", "begun", "ran",
         "migrated", "verified", "stopped"}
Deployer == [step : Step, missing : SUBSET Active, stage : SUBSET Active,
             todo : SUBSET Active, doing : Active \cup {None}]
Idle == [step |-> "idle", missing |-> {}, stage |-> {}, todo |-> {}, doing |-> None]

Cutover == [step : {"idle", "read", "locked"}, schema : Schema]

TypeOK ==
    /\ schema \in Schema
    /\ history \in (SUBSET Row) \cup {None}
    /\ container \in [Active -> FileState]
    /\ lock \in Deployers \cup {None}
    /\ at \in [Deployers -> Deployer]
    /\ cutover \in Cutover
    /\ dumps \subseteq SUBSET Later
    /\ booted \in BOOLEAN
    /\ torn \subseteq Active

Image(files) == [m \in Active |-> IF m \in files THEN "whole" ELSE "absent"]

\* A new database, one already cut over, or one with the legacy history, complete
\* or not, whose tables are those of the chain or were changed by hand.
Init ==
    /\ \E base \in Validated \cup {"none", "old", "other"} :
         /\ schema = [base |-> base, later |-> {}]
         /\ \/ history = None /\ base = "none"
            \/ history = Rows({Baseline}) /\ base \in Validated
            \/ history = Rows(Legacy) /\ base \in Validated \cup {"other"}
            \/ \E l \in Legacy : history = Rows(Legacy \ {l}) /\ base = "old"
    /\ container = Image({Baseline})
    /\ lock = None
    /\ at = [d \in Deployers |-> Idle]
    /\ cutover = [step |-> "idle", schema |-> schema]
    /\ dumps = {}
    /\ booted = FALSE
    /\ torn = {}

-----------------------------------------------------------------------------
(* `prisma migrate deploy`.                                                 *)

\* The bootstrap runs in a checkout, a deployment in the container.
File(d, m) == IF d = Bootstrap THEN "whole" ELSE container[m]
Files(d) == {m \in Active : File(d, m) # "absent"}

HistoryFree == cutover.step # "locked"
RowsNow == IF history = None THEN {} ELSE history

\* P3005, a database that is not empty and has no history, and P3009, a migration
\* that failed.
Deployable ==
    /\ history = None => schema.base = "none"
    /\ \A r \in RowsNow : r.finished

StartMigrate(d, ready) ==
    /\ at[d].step = ready /\ lock = None
    /\ Deployable /\ HistoryFree
    /\ lock' = d
    /\ history' = RowsNow
    /\ at' = [at EXCEPT ![d].step = "migrating",
                        ![d].todo = Files(d) \ Finished(RowsNow)]

First(names) == {m \in names : \A n \in names : Order[m] <= Order[n]}

Begin(d) ==
    /\ at[d].step = "migrating" /\ HistoryFree
    /\ \E m \in First(at[d].todo) :
         /\ history' = history \cup {[name |-> m, finished |-> FALSE]}
         /\ at' = [at EXCEPT ![d].step = "begun", ![d].doing = m]
    /\ UNCHANGED <<schema, container, lock, cutover, dumps, booted, torn>>

\* The baseline creates every table; the others alter them.
RunSql(d) ==
    LET m == at[d].doing IN
    /\ at[d].step = "begun"
    /\ (m = Baseline) <=> (schema.base = "none")
    /\ schema' =
         IF File(d, m) # "whole" THEN schema
         ELSE IF m = Baseline THEN [schema EXCEPT !.base = "baseline"]
         ELSE [schema EXCEPT !.later = @ \cup {m}]
    /\ torn' = IF File(d, m) = "whole" THEN torn ELSE torn \cup {m}
    /\ at' = [at EXCEPT ![d].step = "ran"]
    /\ UNCHANGED <<history, container, lock, cutover, dumps, booted>>

Finish(d) ==
    LET m == at[d].doing IN
    /\ at[d].step = "ran" /\ HistoryFree
    /\ history' = (history \ {[name |-> m, finished |-> FALSE]})
                    \cup {[name |-> m, finished |-> TRUE]}
    /\ at' = [at EXCEPT ![d].step = "migrating", ![d].todo = @ \ {m}, ![d].doing = None]
    /\ UNCHANGED <<schema, container, lock, cutover, dumps, booted, torn>>

Migrated(d) ==
    /\ at[d].step = "migrating" /\ at[d].todo = {}
    /\ at' = [at EXCEPT ![d].step = "migrated"]
    /\ lock' = None
    /\ UNCHANGED <<schema, history, container, cutover, dumps, booted, torn>>

\* SQL that fails, a timeout, a console that is lost: the tool stops where it is,
\* its connection releases the lock, its rows and files stay.
Die(d) ==
    /\ at[d].step \notin {"idle", "verified", "stopped"}
    /\ at' = [at EXCEPT ![d] = [Idle EXCEPT !.step = "stopped"]]
    /\ lock' = IF lock = d THEN None ELSE lock
    /\ UNCHANGED <<schema, history, container, cutover, dumps, booted, torn>>

-----------------------------------------------------------------------------
(* bootstrap-database.js                                                    *)

StartBootstrap ==
    /\ at[Bootstrap].step = "idle"
    /\ schema.base = "none"
    /\ at' = [at EXCEPT ![Bootstrap].step = "saved"]
    /\ booted' = TRUE
    /\ UNCHANGED <<schema, history, container, lock, cutover, dumps, torn>>

MigrateBootstrap ==
    /\ StartMigrate(Bootstrap, "saved")
    /\ UNCHANGED <<schema, container, cutover, dumps, booted, torn>>

-----------------------------------------------------------------------------
(* easypanel-production-migrate.js                                          *)

\* Fault: what was staged before was saved before.
ListOrResume(r) ==
    /\ at[r].step = "idle" /\ history # None /\ HistoryFree
    /\ LET missing == Active \ Finished(history)
           stage == {m \in missing : container[m] = "absent"}
       IN  /\ missing # {}
           /\ at' = [at EXCEPT ![r].step = IF stage = {} THEN "saved" ELSE "listed",
                               ![r].missing = missing, ![r].stage = stage]
    /\ UNCHANGED <<schema, history, container, lock, cutover, dumps, booted, torn>>

\* What is missing, and which of its files have no directory in the container.
List(r) ==
    /\ at[r].step = "idle" /\ history # None /\ HistoryFree
    /\ LET missing == Active \ Finished(history) IN
         /\ missing # {}
         /\ at' = [at EXCEPT ![r].step = "listed", ![r].missing = missing,
                             ![r].stage = {m \in missing : container[m] = "absent"}]
    /\ UNCHANGED <<schema, history, container, lock, cutover, dumps, booted, torn>>

Backup(r) ==
    /\ at[r].step = "listed"
    /\ dumps' = dumps \cup {schema.later}
    /\ at' = [at EXCEPT ![r].step = "saved"]
    /\ UNCHANGED <<schema, history, container, lock, cutover, booted, torn>>

\* The file is truncated, then written in pieces.
StartStage(r) ==
    /\ at[r].step = "saved"
    /\ \E m \in First(at[r].stage) :
         /\ container' = [container EXCEPT ![m] = r]
         /\ at' = [at EXCEPT ![r].step = "staging", ![r].doing = m]
    /\ UNCHANGED <<schema, history, lock, cutover, dumps, booted, torn>>

\* The check of the file's hash: it fails if another run truncated the file.
FinishStage(r) ==
    LET m == at[r].doing IN
    /\ at[r].step = "staging" /\ container[m] = r
    /\ container' = [container EXCEPT ![m] = "whole"]
    /\ at' = [at EXCEPT ![r].step = "saved", ![r].stage = @ \ {m}, ![r].doing = None]
    /\ UNCHANGED <<schema, history, lock, cutover, dumps, booted, torn>>

Staged(r) == at[r].stage = {}

MigrateInContainer(r) ==
    /\ Staged(r) /\ StartMigrate(r, "saved")
    /\ UNCHANGED <<schema, container, cutover, dumps, booted, torn>>

\* `prisma migrate status`: nothing pending, failed or unknown to the container.
UpToDate(d) ==
    /\ \A row \in history : row.finished
    /\ NamesIn(history) = Files(d)

Applied(names) ==
    /\ names \subseteq Finished(history)
    /\ \A row \in history : row.name \in names => row.finished

Verify(r) ==
    /\ at[r].step = "migrated" /\ HistoryFree
    /\ Applied(at[r].missing) /\ UpToDate(r)
    /\ at' = [at EXCEPT ![r].step = "verified"]
    /\ UNCHANGED <<schema, history, container, lock, cutover, dumps, booted, torn>>

\* A release replaces the container, and the consoles of the old one are gone.
Release ==
    /\ \E files \in {{Baseline}, Active} : container' = Image(files)
    /\ at' = [d \in Deployers |->
                IF d = Bootstrap \/ at[d].step \in {"idle", "verified"} THEN at[d]
                ELSE [Idle EXCEPT !.step = "stopped"]]
    /\ lock' = IF lock \in Runs THEN None ELSE lock
    /\ UNCHANGED <<schema, history, cutover, dumps, booted, torn>>

-----------------------------------------------------------------------------
(* rebaseline-migration-history.js: one transaction, whose snapshot of the  *)
(* structure is read before the history is locked.                          *)

StartCutover ==
    /\ cutover.step = "idle" /\ history # None
    /\ cutover' = [step |-> "read", schema |-> schema]
    /\ UNCHANGED <<schema, history, container, lock, at, dumps, booted, torn>>

Consolidated ==
    Baseline \in Finished(history) /\ NamesIn(history) \cap Legacy = {}
Recognized ==
    /\ NamesIn(history) \subseteq {Baseline} \cup Legacy
    /\ Baseline \in Finished(history) \/ Legacy \subseteq Finished(history)

\* Fault: the tables are looked at, not what they are like.
TablesExist(s) == s.base # "none"

FingerprintAccepted(s) == s.base \in Validated /\ s.later = {}

LockHistory ==
    /\ cutover.step = "read"
    /\ ~Consolidated /\ Recognized
    /\ FingerprintAccepted(cutover.schema)
    /\ cutover' = [cutover EXCEPT !.step = "locked"]
    /\ UNCHANGED <<schema, history, container, lock, at, dumps, booted, torn>>

CommitCutover ==
    /\ cutover.step = "locked"
    /\ schema = cutover.schema
    /\ history' = {row \in history : row.name \notin Legacy} \cup Rows({Baseline})
    /\ cutover' = [cutover EXCEPT !.step = "idle"]
    /\ UNCHANGED <<schema, container, lock, at, dumps, booted, torn>>

\* Nothing to do, a check that fails, a timeout: the transaction is rolled back.
StopCutover ==
    /\ cutover.step # "idle"
    /\ cutover' = [cutover EXCEPT !.step = "idle"]
    /\ UNCHANGED <<schema, history, container, lock, at, dumps, booted, torn>>

\* External: the release before the cutover applies the last legacy migration.
FinishLegacy ==
    /\ history # None /\ HistoryFree /\ lock = None
    /\ \A row \in history : row.finished
    /\ \E l \in Legacy :
         /\ Finished(history) = Legacy \ {l}
         /\ history' = Rows(Legacy)
    /\ \E base \in Validated \cup {"other"} : schema' = [schema EXCEPT !.base = base]
    /\ UNCHANGED <<container, lock, at, cutover, dumps, booted, torn>>

-----------------------------------------------------------------------------
Next ==
    \/ \E d \in Deployers : Begin(d) \/ RunSql(d) \/ Finish(d) \/ Migrated(d) \/ Die(d)
    \/ StartBootstrap \/ MigrateBootstrap
    \/ \E r \in Runs : \/ List(r) \/ Backup(r) \/ StartStage(r) \/ FinishStage(r)
                       \/ MigrateInContainer(r) \/ Verify(r)
    \/ Release
    \/ StartCutover \/ LockHistory \/ CommitCutover \/ StopCutover \/ FinishLegacy

Spec == Init /\ [][Next]_vars

-----------------------------------------------------------------------------
(* PROPERTIES                                                               *)

\* The history tells what the tables are, however the cutover, deployments that
\* overlap or die, and a bootstrap interleave: a migration that is marked as finished
\* has had its effect (or ran from a file cut short), one that had its effect has a
\* row, and the baseline stands for tables that were validated.  The next deployment
\* neither skips a migration nor repeats one (rebaseline-migration-history.js, the
\* fingerprint and the lock; `prisma migrate deploy`).
HistoryTellsSchema ==
    LET done == Finished(RowsNow) IN
    /\ Baseline \in done => schema.base \in Validated
    /\ done \cap Later \subseteq schema.later \cup torn
    /\ schema.later \subseteq NamesIn(RowsNow)
    /\ schema.base # "none" => RowsNow # {}

\* A deployment that reports success has applied everything that it listed as
\* missing, and there is no migration that it or another deployment applied without
\* a dump from before it (easypanel-production-migrate.js).
DeploymentsAreSafe ==
    /\ \A r \in Runs : at[r].step = "verified" =>
          /\ at[r].missing \subseteq Finished(RowsNow)
          /\ at[r].missing \cap Later \subseteq schema.later \cup torn
    /\ booted \/ \A m \in schema.later : \E dump \in dumps : m \notin dump

\* Not so: a staging that died leaves a file cut short, whose directory tells the
\* next deployment that the file is there; it runs the part of the SQL that it has.
WholeFilesRun == torn = {}

\* Not so: the row of a baseline that failed on the tables of the legacy chain
\* survives the cutover, and every later deployment refuses to start (P3009).
NoFailedBaseline ==
    Baseline \in Finished(RowsNow) => [name |-> Baseline, finished |-> FALSE] \notin RowsNow

=============================================================================
