------------------------------ MODULE RulesProofs ------------------------------
(***************************************************************************)
(* The theorems of the three modules that one run checks.  Migrations: for *)
(* any migrations, any number of deployments and a cutover, the history    *)
(* tells what the tables are, and a deployment that reports success has    *)
(* done what it listed.  Fixtures: for any teams, lists, times and number  *)
(* of requests, teams are found by their names and rounds stay playable.   *)
(* Rules: what is computed about dates, for any dates, zones and matches,  *)
(* and the ranking of a period, for any season.                            *)
(***************************************************************************)
EXTENDS Rules, Migrations, Fixtures, Aggregates, TLAPS

-----------------------------------------------------------------------------
(* THE INDUCTIVE INVARIANT                                                  *)

Migrating == {"migrating", "begun", "ran"}

\* Prisma's lock is held by the one deployer that migrates.
LockIsHeld == \A d \in Deployers : lock = d <=> at[d].step \in Migrating

HistoryExists ==
    /\ lock # None => history # None
    /\ cutover.step # "idle" => history # None

\* A migration has its row before its SQL runs, and its effect before it is finished.
BegunHasRow ==
    \A d \in Deployers : at[d].step \in {"begun", "ran"} =>
        at[d].doing \in Active /\ at[d].doing \in NamesIn(RowsNow)
RanHasEffect ==
    \A d \in Deployers : at[d].step = "ran" =>
        IF at[d].doing = Baseline THEN schema.base \in Validated
        ELSE at[d].doing \in schema.later \cup torn

\* The file of the baseline comes with the image: nobody stages it.
BaselineIsWhole ==
    /\ container[Baseline] = "whole"
    /\ \A d \in Deployers : /\ Baseline \notin at[d].stage
                            /\ at[d].step = "staging" => at[d].doing \in Later

CutoverWasChecked ==
    cutover.step = "locked" => FingerprintAccepted(cutover.schema)

HInv ==
    /\ TypeOK
    /\ LockIsHeld /\ HistoryExists
    /\ BegunHasRow /\ RanHasEffect
    /\ BaselineIsWhole /\ CutoverWasChecked
    /\ HistoryTellsSchema

\* What a deployment has before it migrates, and when it reports success.
BackedUp ==
    /\ at[Bootstrap].step # "idle" => booted
    /\ \A r \in Runs : at[r].step \notin {"idle", "listed", "stopped"} => dumps # {}
    /\ \A dump \in dumps : dump \subseteq schema.later
Dumped == booted \/ \A m \in schema.later : \E dump \in dumps : m \notin dump
Listed == \A r \in Runs : at[r].step \notin {"idle", "stopped"} => history # None
VerifiedIsFinished ==
    \A r \in Runs : at[r].step = "verified" => at[r].missing \subseteq Finished(RowsNow)

SInv == HInv /\ BackedUp /\ Dumped /\ Listed /\ VerifiedIsFinished

-----------------------------------------------------------------------------
(* LEMMAS ABOUT THE HISTORY                                                 *)

\* The legacy migrations are several, and none of them is active.
LEMMA MigrationNames ==
    /\ \A l \in Legacy : l \notin Active
    /\ Baseline \notin Later /\ Baseline \in Active /\ Later \subseteq Active
    /\ Legacy # {} /\ \A l \in Legacy : Legacy \ {l} # {}
<1>1. Active \cap Legacy = {} /\ Baseline \notin Later /\ \E l, k \in Legacy : l # k
  BY Zenon, MigrationsAssumption
<1>2. QED
  BY <1>1 DEF Active

\* A migration is in the history, or finished in it, if one of its rows says so.
LEMMA RowsTell ==
    ASSUME NEW rows, NEW n
    PROVE  /\ n \in NamesIn(rows) <=> \E row \in rows : row.name = n
           /\ n \in Finished(rows) <=> \E row \in rows : row.finished /\ row.name = n
BY DEF NamesIn, Finished

\* A row that comes.
LEMMA RowAdded ==
    ASSUME NEW rows, NEW row
    PROVE  /\ NamesIn(rows \cup {row}) = NamesIn(rows) \cup {row.name}
           /\ ~row.finished => Finished(rows \cup {row}) = Finished(rows)
           /\ row.finished => Finished(rows \cup {row}) = Finished(rows) \cup {row.name}
<1>1. NamesIn(rows \cup {row}) = NamesIn(rows) \cup {row.name}
  BY DEF NamesIn
<1>2. Finished(rows) \subseteq Finished(rows \cup {row})
  BY DEF Finished
<1>3. ASSUME row.finished
      PROVE  row.name \in Finished(rows \cup {row})
  BY <1>3 DEF Finished
<1>4. ASSUME NEW n \in Finished(rows \cup {row})
      PROVE  n \in Finished(rows) \/ n = row.name
  BY <1>4 DEF Finished
<1>5. ASSUME NEW n \in Finished(rows \cup {row}), ~row.finished
      PROVE  n \in Finished(rows)
  BY <1>5 DEF Finished
<1>6. QED
  BY <1>1, <1>2, <1>3, <1>4, <1>5

LEMMA RowsUnited ==
    ASSUME NEW rows, NEW more
    PROVE  /\ NamesIn(rows \cup more) = NamesIn(rows) \cup NamesIn(more)
           /\ Finished(rows \cup more) = Finished(rows) \cup Finished(more)
<1>1. NamesIn(rows \cup more) = NamesIn(rows) \cup NamesIn(more)
  BY DEF NamesIn
<1>2. Finished(rows \cup more) = Finished(rows) \cup Finished(more)
  BY DEF Finished
<1>3. QED
  BY <1>1, <1>2

\* A row that goes, unfinished.
LEMMA RowRemoved ==
    ASSUME NEW rows, NEW row, ~row.finished
    PROVE  /\ Finished(rows \ {row}) = Finished(rows)
           /\ NamesIn(rows \ {row}) \subseteq NamesIn(rows)
           /\ NamesIn(rows) \subseteq NamesIn(rows \ {row}) \cup {row.name}
<1>1. Finished(rows) \subseteq Finished(rows \ {row})
  BY DEF Finished
<1>2. Finished(rows \ {row}) \subseteq Finished(rows)
  BY DEF Finished
<1>3. QED
  BY <1>1, <1>2 DEF NamesIn

LEMMA RowFields ==
    ASSUME NEW m
    PROVE  /\ [name |-> m, finished |-> FALSE].name = m
           /\ ~[name |-> m, finished |-> FALSE].finished
           /\ [name |-> m, finished |-> TRUE].name = m
           /\ [name |-> m, finished |-> TRUE].finished
OBVIOUS

\* Rows(names) is the history in which exactly the names are finished.
LEMMA RowsAreFinished ==
    ASSUME NEW names, NEW n
    PROVE  /\ n \in NamesIn(Rows(names)) <=> n \in names
           /\ n \in Finished(Rows(names)) <=> n \in names
<1>1. ASSUME n \in names
      PROVE  [name |-> n, finished |-> TRUE] \in Rows(names)
  BY <1>1 DEF Rows
<1>2. \A row \in Rows(names) : row.name \in names /\ row.finished
  BY DEF Rows
<1>3. QED
  BY <1>1, <1>2, RowsTell

\* A history that exists is the set of its rows.
LEMMA HistoryIsRows ==
    ASSUME TypeOK
    PROVE  /\ RowsNow \in SUBSET Row
           /\ RowsNow # None
           /\ history # None => RowsNow = history
<1>1. RowsNow \in SUBSET Row
  BY DEF TypeOK, RowsNow
<1>2. RowsNow # None
  BY <1>1, MigrationsAssumption DEF Row
<1>3. QED
  BY <1>1, <1>2 DEF RowsNow

-----------------------------------------------------------------------------
(* THE HISTORY TELLS THE SCHEMA: every step keeps HInv                      *)

LEMMA HInvInit == ASSUME Init PROVE HInv
<1>1. Rows({Baseline}) \in SUBSET Row /\ Rows(Legacy) \in SUBSET Row
  BY DEF Rows, Row, Active
<1>2. \A l \in Legacy : Rows(Legacy \ {l}) \in SUBSET Row
  BY DEF Rows, Row
<1> PICK base \in Validated \cup {"none", "old", "other"} :
      /\ schema = [base |-> base, later |-> {}]
      /\ \/ history = None /\ base = "none"
         \/ history = Rows({Baseline}) /\ base \in Validated
         \/ history = Rows(Legacy) /\ base \in Validated \cup {"other"}
         \/ \E l \in Legacy : history = Rows(Legacy \ {l}) /\ base = "old"
  BY Zenon DEF Init
<1>3. history \in (SUBSET Row) \cup {None} /\ schema \in Schema
  BY <1>1, <1>2 DEF Schema
<1>4. container \in [Active -> FileState] /\ container[Baseline] = "whole"
  BY DEF Init, Image, FileState, Active
<1>5. /\ at \in [Deployers -> Deployer]
      /\ \A d \in Deployers : at[d].step = "idle" /\ at[d].stage = {}
  BY DEF Init, Deployer, Idle, Step
<1>6. cutover \in Cutover /\ cutover.step = "idle"
  BY <1>3 DEF Init, Cutover
<1>7. TypeOK
  BY <1>3, <1>4, <1>5, <1>6 DEF Init, TypeOK
<1>8. LockIsHeld /\ HistoryExists /\ CutoverWasChecked
  BY <1>5, <1>6, MigrationsAssumption
  DEF Init, LockIsHeld, HistoryExists, CutoverWasChecked, Deployers, Migrating
<1>9. BegunHasRow /\ RanHasEffect /\ BaselineIsWhole
  BY <1>4, <1>5 DEF BegunHasRow, RanHasEffect, BaselineIsWhole
<1>10. HistoryTellsSchema
  <2>1. schema.later = {} /\ schema.base = base
    OBVIOUS
  <2>2. Legacy # {} /\ \A l \in Legacy : Legacy \ {l} # {}
    BY MigrationNames
  <2>3. \/ history = None /\ schema.base = "none"
        \/ history = Rows({Baseline}) /\ schema.base \in Validated
        \/ \E names \in SUBSET Legacy : names # {} /\ history = Rows(names)
    BY <2>1, <2>2
  <2>4. CASE history = None /\ schema.base = "none"
    <3>1. RowsNow = {}
      BY <2>4 DEF RowsNow
    <3>2. Finished(RowsNow) = {}
      BY <3>1 DEF Finished
    <3>3. QED
      BY <2>1, <2>4, <3>1, <3>2, MigrationsAssumption DEF HistoryTellsSchema, Validated
  <2>5. CASE history = Rows({Baseline}) /\ schema.base \in Validated
    <3>1. RowsNow = Rows({Baseline})
      BY <2>5, <1>1, MigrationsAssumption DEF RowsNow, Row
    <3>2. /\ Baseline \in NamesIn(RowsNow)
          /\ Finished(RowsNow) \cap Later = {}
      <4>1. \A n : /\ n \in NamesIn(RowsNow) <=> n \in {Baseline}
                   /\ n \in Finished(RowsNow) <=> n \in {Baseline}
        BY <3>1, RowsAreFinished
      <4>2. \A n \in Later : n \notin {Baseline}
        BY MigrationNames
      <4>3. QED
        BY <4>1, <4>2
    <3>3. RowsNow # {}
      BY <3>2 DEF NamesIn
    <3>4. QED
      BY <2>1, <2>5, <3>2, <3>3 DEF HistoryTellsSchema
  <2>6. ASSUME NEW names \in SUBSET Legacy, names # {}, history = Rows(names)
        PROVE  HistoryTellsSchema
    <3>1. RowsNow = Rows(names)
      BY <2>6, MigrationsAssumption DEF Rows, RowsNow
    <3>2. /\ Finished(RowsNow) \cap Active = {}
          /\ NamesIn(RowsNow) # {}
      BY <2>6, <3>1, RowsAreFinished, MigrationNames
    <3>3. RowsNow # {}
      BY <3>2 DEF NamesIn
    <3>4. QED
      BY <2>1, <3>2, <3>3 DEF HistoryTellsSchema, Active
  <2>7. QED
    BY <2>3, <2>4, <2>5, <2>6
<1>11. QED
  BY <1>7, <1>8, <1>9, <1>10 DEF HInv

\* The steps of a deployer that change neither the tables nor the rows.
LEMMA HInvAtStep ==
    ASSUME HInv, NEW d \in Deployers, NEW e \in Deployer,
           at' = [at EXCEPT ![d] = e],
           lock' = d <=> e.step \in Migrating,
           lock' \in Deployers \cup {None},
           \A c \in Deployers \ {d} : lock' = c <=> lock = c,
           e.step \notin {"begun", "ran"},
           Baseline \notin e.stage,
           e.step = "staging" => e.doing \in Later,
           container' \in [Active -> FileState], container'[Baseline] = "whole",
           history' \in (SUBSET Row) \cup {None}, RowsNow' = RowsNow,
           history # None \/ lock' # None => history' # None,
           dumps' \subseteq SUBSET Later, booted' \in BOOLEAN,
           UNCHANGED <<schema, cutover, torn>>
    PROVE  HInv'
<1>1. /\ at \in [Deployers -> Deployer] /\ at' \in [Deployers -> Deployer]
      /\ at'[d] = e
      /\ \A c \in Deployers \ {d} : at'[c] = at[c]
  BY DEF HInv, TypeOK
<1>2. TypeOK'
  BY <1>1 DEF HInv, TypeOK
<1>3. LockIsHeld'
  BY <1>1 DEF HInv, LockIsHeld
<1>4. HistoryExists' /\ CutoverWasChecked'
  BY DEF HInv, HistoryExists, CutoverWasChecked, FingerprintAccepted
<1>5. BegunHasRow' /\ RanHasEffect'
  BY <1>1 DEF HInv, BegunHasRow, RanHasEffect
<1>6. BaselineIsWhole'
  BY <1>1 DEF HInv, BaselineIsWhole
<1>7. HistoryTellsSchema'
  BY DEF HInv, HistoryTellsSchema
<1>8. QED
  BY <1>2, <1>3, <1>4, <1>5, <1>6, <1>7 DEF HInv

\* `prisma migrate deploy` may create its table, and takes the lock.
LEMMA HInvStartMigrate ==
    ASSUME HInv, NEW d \in Deployers, NEW ready, StartMigrate(d, ready),
           UNCHANGED <<schema, container, cutover, dumps, booted, torn>>
    PROVE  HInv'
<1> DEFINE e == [at[d] EXCEPT !.step = "migrating", !.todo = Files(d) \ Finished(RowsNow)]
<1>1. at[d] \in Deployer /\ Baseline \notin at[d].stage
  BY DEF HInv, TypeOK, BaselineIsWhole
<1>2. e \in Deployer /\ at' = [at EXCEPT ![d] = e]
  BY <1>1 DEF StartMigrate, Deployer, Step, Files, HInv, TypeOK
<1>3. e.step = "migrating" /\ e.stage = at[d].stage
  BY <1>1 DEF Deployer
<1>4. history' \in SUBSET Row /\ history' # None /\ RowsNow' = RowsNow
  BY HistoryIsRows DEF HInv, StartMigrate, RowsNow
<1>5. d # None /\ lock = None /\ lock' = d
  BY MigrationsAssumption DEF StartMigrate, Deployers
<1> HIDE DEF e
<1>6. /\ lock' = d <=> e.step \in Migrating
      /\ lock' \in Deployers \cup {None}
      /\ \A c \in Deployers \ {d} : lock' = c <=> lock = c
  BY <1>3, <1>5, MigrationsAssumption DEF Migrating, Deployers
<1>7. e.step \notin {"begun", "ran"} /\ Baseline \notin e.stage /\ e.step # "staging"
  BY <1>1, <1>3
<1>8. QED
  BY <1>2, <1>4, <1>6, <1>7, HInvAtStep DEF HInv, TypeOK, BaselineIsWhole

\* A migration that begins gets its row, unfinished.
LEMMA HInvBegin ==
    ASSUME HInv, NEW d \in Deployers, Begin(d)
    PROVE  HInv'
<1>1. PICK m \in First(at[d].todo) :
        /\ history' = history \cup {[name |-> m, finished |-> FALSE]}
        /\ at' = [at EXCEPT ![d].step = "begun", ![d].doing = m]
  BY DEF Begin
<1>2. /\ at \in [Deployers -> Deployer] /\ at[d] \in Deployer
      /\ at[d].step = "migrating" /\ lock = d
      /\ UNCHANGED <<schema, container, lock, cutover, dumps, booted, torn>>
  BY DEF HInv, TypeOK, Begin, LockIsHeld, Migrating
<1>3. m \in Active
  BY <1>2 DEF First, Deployer
<1>4. history # None /\ history \in SUBSET Row /\ RowsNow = history
  BY <1>2, MigrationsAssumption, HistoryIsRows DEF HInv, HistoryExists, TypeOK, Deployers
<1>5. history' \in SUBSET Row /\ history' # None /\ RowsNow' = history'
  <2>1. [name |-> m, finished |-> FALSE] \in Row
    BY <1>3 DEF Row
  <2>2. history' \in SUBSET Row
    BY <1>1, <1>4, <2>1
  <2>3. QED
    BY <2>2, MigrationsAssumption DEF RowsNow, Row
<1>6. /\ \A c \in Deployers : at'[c].stage = at[c].stage
      /\ \A c \in Deployers \ {d} : at'[c] = at[c]
      /\ at'[d].step = "begun" /\ at'[d].doing = m
      /\ at' \in [Deployers -> Deployer]
  BY <1>1, <1>2, <1>3 DEF Deployer, Step
<1>7. /\ Finished(history') = Finished(history)
      /\ NamesIn(history') = NamesIn(history) \cup {m}
  <2> DEFINE row == [name |-> m, finished |-> FALSE]
  <2>1. row.name = m /\ ~row.finished
    BY RowFields
  <2>2. history' = history \cup {row}
    BY <1>1
  <2> HIDE DEF row
  <2>3. QED
    BY <2>1, <2>2, RowAdded
<1>8. TypeOK'
  BY <1>2, <1>5, <1>6 DEF HInv, TypeOK
<1>9. LockIsHeld' /\ HistoryExists' /\ CutoverWasChecked' /\ BaselineIsWhole'
  BY <1>2, <1>5, <1>6
  DEF HInv, LockIsHeld, HistoryExists, CutoverWasChecked, BaselineIsWhole,
      FingerprintAccepted, Migrating
<1>10. BegunHasRow' /\ RanHasEffect'
  BY <1>2, <1>3, <1>4, <1>5, <1>6, <1>7 DEF HInv, BegunHasRow, RanHasEffect
<1>11. HistoryTellsSchema'
  BY <1>1, <1>2, <1>4, <1>5, <1>7 DEF HInv, HistoryTellsSchema
<1>12. QED
  BY <1>8, <1>9, <1>10, <1>11 DEF HInv

\* Its SQL has its effect, or what there is of it.
LEMMA HInvRunSql ==
    ASSUME HInv, NEW d \in Deployers, RunSql(d)
    PROVE  HInv'
<1> DEFINE m == at[d].doing
<1>1. /\ at \in [Deployers -> Deployer] /\ at[d] \in Deployer
      /\ at[d].step = "begun" /\ lock = d
      /\ (m = Baseline) <=> (schema.base = "none")
      /\ at' = [at EXCEPT ![d].step = "ran"]
      /\ UNCHANGED <<history, container, lock, cutover, dumps, booted>>
  BY DEF HInv, TypeOK, RunSql, LockIsHeld, Migrating
<1>2. m \in Active /\ m \in NamesIn(RowsNow)
  BY <1>1 DEF HInv, BegunHasRow
<1>3. /\ \A c \in Deployers : at'[c].stage = at[c].stage
      /\ \A c \in Deployers \ {d} : at'[c] = at[c]
      /\ at'[d].step = "ran" /\ at'[d].doing = m
      /\ at' \in [Deployers -> Deployer]
  BY <1>1 DEF Deployer, Step
<1>4. schema \in Schema /\ torn \subseteq Active
  BY DEF HInv, TypeOK
<1>5. IF m = Baseline
      THEN /\ schema' = [schema EXCEPT !.base = "baseline"] /\ torn' = torn
           /\ schema.base = "none"
      ELSE /\ m \in Later /\ schema.base # "none"
           /\ \/ schema' = [schema EXCEPT !.later = @ \cup {m}] /\ torn' = torn
              \/ schema' = schema /\ torn' = torn \cup {m}
  BY <1>1, <1>2 DEF RunSql, File, HInv, BaselineIsWhole, Active
<1>6. /\ schema' \in Schema /\ torn' \subseteq Active
      /\ schema.later \cup torn \subseteq schema'.later \cup torn'
      /\ IF m = Baseline THEN schema'.base = "baseline"
         ELSE schema'.base = schema.base /\ m \in schema'.later \cup torn'
      /\ schema'.later \subseteq schema.later \cup {m}
  BY <1>2, <1>4, <1>5 DEF Schema, Validated
<1>7. TypeOK'
  BY <1>1, <1>3, <1>6 DEF HInv, TypeOK
<1>8. LockIsHeld' /\ HistoryExists' /\ CutoverWasChecked' /\ BaselineIsWhole'
  BY <1>1, <1>3
  DEF HInv, LockIsHeld, HistoryExists, CutoverWasChecked, BaselineIsWhole,
      FingerprintAccepted, Migrating
<1>9. RowsNow' = RowsNow
  BY <1>1 DEF RowsNow
<1>10. BegunHasRow'
  BY <1>1, <1>2, <1>3, <1>9 DEF HInv, BegunHasRow
<1>11. RanHasEffect'
  <2>1. \A c \in Deployers \ {d} : at'[c].step # "ran"
    BY <1>1, <1>3 DEF HInv, LockIsHeld, Migrating
  <2>2. QED
    BY <1>3, <1>6, <2>1 DEF RanHasEffect, Validated
<1>12. HistoryTellsSchema'
  <2>1. Baseline \in Finished(RowsNow) => schema'.base \in Validated
    BY <1>5, <1>6 DEF HInv, HistoryTellsSchema, Validated
  <2>2. RowsNow # {}
    BY <1>2 DEF NamesIn
  <2>3. QED
    BY <1>2, <1>6, <1>9, <2>1, <2>2 DEF HInv, HistoryTellsSchema
<1>13. QED
  BY <1>7, <1>8, <1>10, <1>11, <1>12 DEF HInv

\* A migration whose SQL ran is marked as finished.
LEMMA HInvFinish ==
    ASSUME HInv, NEW d \in Deployers, Finish(d)
    PROVE  HInv'
<1> DEFINE m == at[d].doing
           begun == [name |-> m, finished |-> FALSE]
           done == [name |-> m, finished |-> TRUE]
<1>1. /\ at \in [Deployers -> Deployer] /\ at[d] \in Deployer
      /\ at[d].step = "ran" /\ lock = d
      /\ history' = (history \ {begun}) \cup {done}
      /\ at' = [at EXCEPT ![d].step = "migrating", ![d].todo = @ \ {m}, ![d].doing = None]
      /\ UNCHANGED <<schema, container, lock, cutover, dumps, booted, torn>>
  BY DEF HInv, TypeOK, Finish, LockIsHeld, Migrating
<1>2. m \in Active
  BY <1>1 DEF HInv, BegunHasRow
<1>3. history # None /\ history \in SUBSET Row /\ RowsNow = history
  BY <1>1, MigrationsAssumption, HistoryIsRows DEF HInv, HistoryExists, TypeOK, Deployers
<1>4. history' \in SUBSET Row /\ history' # None /\ RowsNow' = history'
  <2>1. done \in Row
    BY <1>2 DEF Row
  <2>2. history' \in SUBSET Row
    BY <1>1, <1>3, <2>1
  <2>3. QED
    BY <2>2, MigrationsAssumption DEF RowsNow, Row
<1>5. /\ Finished(history') = Finished(history) \cup {m}
      /\ NamesIn(history) \subseteq NamesIn(history')
  <2>1. begun.name = m /\ ~begun.finished /\ done.name = m /\ done.finished
    BY RowFields
  <2> HIDE DEF begun, done
  <2>2. /\ Finished(history \ {begun}) = Finished(history)
        /\ NamesIn(history) \subseteq NamesIn(history \ {begun}) \cup {m}
    BY <2>1, RowRemoved
  <2>3. /\ Finished(history') = Finished(history \ {begun}) \cup {m}
        /\ NamesIn(history') = NamesIn(history \ {begun}) \cup {m}
    BY <1>1, <2>1, RowAdded
  <2>4. QED
    BY <2>2, <2>3
<1>6. /\ \A c \in Deployers : at'[c].stage = at[c].stage
      /\ \A c \in Deployers \ {d} : at'[c] = at[c]
      /\ at'[d].step = "migrating"
      /\ at' \in [Deployers -> Deployer]
  BY <1>1 DEF Deployer, Step
<1>7. TypeOK'
  BY <1>1, <1>4, <1>6 DEF HInv, TypeOK
<1>8. LockIsHeld' /\ HistoryExists' /\ CutoverWasChecked' /\ BaselineIsWhole'
  BY <1>1, <1>4, <1>6
  DEF HInv, LockIsHeld, HistoryExists, CutoverWasChecked, BaselineIsWhole,
      FingerprintAccepted, Migrating
<1>9. BegunHasRow' /\ RanHasEffect'
  BY <1>1, <1>3, <1>4, <1>5, <1>6 DEF HInv, BegunHasRow, RanHasEffect
<1>10. HistoryTellsSchema'
  <2>1. IF m = Baseline THEN schema.base \in Validated ELSE m \in schema.later \cup torn
    BY <1>1 DEF HInv, RanHasEffect
  <2>2. m \in Later => m # Baseline
    BY MigrationNames
  <2>3. history' # {}
    BY <1>1
  <2> HIDE DEF m
  <2>4. QED
    BY <1>1, <1>3, <1>4, <1>5, <2>1, <2>2, <2>3 DEF HInv, HistoryTellsSchema
<1>11. QED
  BY <1>7, <1>8, <1>9, <1>10 DEF HInv

\* Everything that a deployer may do to prepare a migration, or after it.
LEMMA HInvDeployer ==
    ASSUME HInv, NEW d \in Deployers, Migrated(d) \/ Die(d)
    PROVE  HInv'
<1>1. at[d] \in Deployer /\ Baseline \notin at[d].stage
  BY DEF HInv, TypeOK, BaselineIsWhole
<1>2. RowsNow' = RowsNow /\ d # None /\ lock \in Deployers \cup {None}
  BY MigrationsAssumption DEF HInv, TypeOK, RowsNow, Migrated, Die, Deployers
<1>3. lock = d <=> at[d].step \in Migrating
  BY DEF HInv, LockIsHeld
<1>4. CASE Migrated(d)
  <2> DEFINE e == [at[d] EXCEPT !.step = "migrated"]
  <2>1. /\ e \in Deployer /\ e.step = "migrated" /\ e.stage = at[d].stage
        /\ at' = [at EXCEPT ![d] = e]
    BY <1>1, <1>4 DEF Migrated, Deployer, Step, HInv, TypeOK
  <2>2. lock = d /\ lock' = None /\ None \notin Deployers
    BY <1>3, <1>4, MigrationsAssumption DEF Migrated, Migrating, Deployers
  <2> HIDE DEF e
  <2>3. /\ lock' = d <=> e.step \in Migrating
        /\ lock' \in Deployers \cup {None}
        /\ \A c \in Deployers \ {d} : lock' = c <=> lock = c
    BY <2>1, <2>2 DEF Migrating
  <2>4. QED
    BY <1>1, <1>2, <1>4, <2>1, <2>2, <2>3, HInvAtStep
    DEF Migrated, HInv, TypeOK, BaselineIsWhole, HistoryExists
<1>5. CASE Die(d)
  <2> DEFINE e == [Idle EXCEPT !.step = "stopped"]
  <2>1. /\ e \in Deployer /\ e.step = "stopped" /\ e.stage = {}
        /\ at' = [at EXCEPT ![d] = e]
    BY <1>5 DEF Die, Deployer, Step, Idle
  <2>2. /\ lock' = IF lock = d THEN None ELSE lock
        /\ None \notin Deployers
    BY <1>5, MigrationsAssumption DEF Die, Deployers
  <2> HIDE DEF e
  <2>3. /\ lock' = d <=> e.step \in Migrating
        /\ lock' \in Deployers \cup {None}
        /\ \A c \in Deployers \ {d} : lock' = c <=> lock = c
    BY <1>2, <2>1, <2>2 DEF Migrating
  <2>4. lock' # None => history' # None
    BY <1>5, <2>2 DEF Die, HInv, HistoryExists
  <2>5. QED
    BY <1>2, <1>5, <2>1, <2>3, <2>4, HInvAtStep DEF Die, HInv, TypeOK, BaselineIsWhole
<1>6. QED
  BY <1>4, <1>5

\* The bootstrap, before its migration.
LEMMA HInvBootstrap ==
    ASSUME HInv, StartBootstrap \/ MigrateBootstrap
    PROVE  HInv'
<1>1. Bootstrap \in Deployers
  BY DEF Deployers
<1>2. at[Bootstrap] \in Deployer /\ Baseline \notin at[Bootstrap].stage
  BY <1>1 DEF HInv, TypeOK, BaselineIsWhole
<1>3. CASE StartBootstrap
  <2> DEFINE e == [at[Bootstrap] EXCEPT !.step = "saved"]
  <2>1. /\ e \in Deployer /\ e.step = "saved" /\ e.stage = at[Bootstrap].stage
        /\ at' = [at EXCEPT ![Bootstrap] = e]
    BY <1>1, <1>2, <1>3 DEF StartBootstrap, Deployer, Step, HInv, TypeOK
  <2>2. lock # Bootstrap /\ RowsNow' = RowsNow
    BY <1>1, <1>3 DEF StartBootstrap, HInv, LockIsHeld, Migrating, RowsNow
  <2> HIDE DEF e
  <2>3. QED
    BY <1>1, <1>2, <1>3, <2>1, <2>2, HInvAtStep
    DEF StartBootstrap, HInv, TypeOK, BaselineIsWhole, HistoryExists, Migrating
<1>4. CASE MigrateBootstrap
  BY <1>1, <1>4, HInvStartMigrate DEF MigrateBootstrap
<1>5. QED
  BY <1>3, <1>4

\* A deployment, up to its migration and after it.
LEMMA HInvRun ==
    ASSUME HInv, NEW r \in Runs,
           List(r) \/ Backup(r) \/ StartStage(r) \/ FinishStage(r)
             \/ MigrateInContainer(r) \/ Verify(r)
    PROVE  HInv'
<1>1. r \in Deployers
  BY DEF Deployers
<1>2. /\ at[r] \in Deployer /\ Baseline \notin at[r].stage
      /\ at[r].step = "staging" => at[r].doing \in Later
      /\ container \in [Active -> FileState] /\ container[Baseline] = "whole"
  BY <1>1 DEF HInv, TypeOK, BaselineIsWhole
<1>3. lock = r <=> at[r].step \in Migrating
  BY <1>1 DEF HInv, LockIsHeld
<1>4. /\ lock \in Deployers \cup {None} /\ dumps \subseteq SUBSET Later /\ booted \in BOOLEAN
      /\ history \in (SUBSET Row) \cup {None}
      /\ lock # None => history # None
  BY DEF HInv, TypeOK, HistoryExists
<1>5. ASSUME NEW e \in Deployer, at' = [at EXCEPT ![r] = e],
             at[r].step \notin Migrating,
             e.step \notin Migrating, Baseline \notin e.stage,
             e.step = "staging" => e.doing \in Later,
             container' \in [Active -> FileState], container'[Baseline] = "whole",
             dumps' \subseteq SUBSET Later,
             UNCHANGED <<schema, history, lock, cutover, booted, torn>>
      PROVE  HInv'
  <2>1. RowsNow' = RowsNow
    BY <1>5 DEF RowsNow
  <2>2. e.step \notin {"begun", "ran"}
    BY <1>5 DEF Migrating
  <2>3. /\ lock' = r <=> e.step \in Migrating
        /\ lock' \in Deployers \cup {None}
        /\ \A c \in Deployers \ {r} : lock' = c <=> lock = c
        /\ history # None \/ lock' # None => history' # None
        /\ history' \in (SUBSET Row) \cup {None} /\ booted' \in BOOLEAN
    BY <1>3, <1>4, <1>5
  <2>4. QED
    BY <1>1, <1>5, <2>1, <2>2, <2>3, HInvAtStep
<1>6. CASE List(r)
  <2> DEFINE missing == Active \ Finished(history)
             stage == {m \in missing : container[m] = "absent"}
             e == [at[r] EXCEPT !.step = "listed", !.missing = missing, !.stage = stage]
  <2>1. at' = [at EXCEPT ![r] = e]
    BY <1>1, <1>6 DEF List, HInv, TypeOK
  <2>2. e \in Deployer /\ e.step = "listed" /\ e.stage = stage /\ Baseline \notin stage
    BY <1>2 DEF Deployer, Step
  <2> HIDE DEF e
  <2>3. QED
    BY <1>2, <1>4, <1>5, <1>6, <2>1, <2>2 DEF List, Migrating
<1>7. CASE Backup(r)
  <2> DEFINE e == [at[r] EXCEPT !.step = "saved"]
  <2>1. at' = [at EXCEPT ![r] = e] /\ dumps' = dumps \cup {schema.later}
    BY <1>1, <1>7 DEF Backup, HInv, TypeOK
  <2>2. e \in Deployer /\ e.step = "saved" /\ e.stage = at[r].stage
    BY <1>2 DEF Deployer, Step
  <2>3. schema.later \subseteq Later
    BY DEF HInv, TypeOK, Schema
  <2> HIDE DEF e
  <2>4. QED
    BY <1>2, <1>4, <1>5, <1>7, <2>1, <2>2, <2>3 DEF Backup, Migrating
<1>8. CASE StartStage(r)
  <2>1. PICK m \in First(at[r].stage) :
          /\ container' = [container EXCEPT ![m] = r]
          /\ at' = [at EXCEPT ![r].step = "staging", ![r].doing = m]
    BY <1>8 DEF StartStage
  <2> DEFINE e == [at[r] EXCEPT !.step = "staging", !.doing = m]
  <2>2. m \in Later /\ m \in Active /\ m # Baseline
    BY <1>2 DEF First, Deployer, Active
  <2>3. e \in Deployer /\ e.stage = at[r].stage /\ e.doing = m /\ e.step = "staging"
    BY <1>2, <2>2 DEF Deployer, Step
  <2>4. at' = [at EXCEPT ![r] = e]
    BY <1>1, <2>1 DEF HInv, TypeOK
  <2>5. container' \in [Active -> FileState] /\ container'[Baseline] = "whole"
    BY <1>2, <2>1, <2>2, MigrationNames DEF FileState
  <2> HIDE DEF e
  <2>6. QED
    BY <1>2, <1>4, <1>5, <1>8, <2>2, <2>3, <2>4, <2>5 DEF StartStage, Migrating
<1>9. CASE FinishStage(r)
  <2> DEFINE m == at[r].doing
             e == [at[r] EXCEPT !.step = "saved", !.stage = @ \ {m}, !.doing = None]
  <2>1. at' = [at EXCEPT ![r] = e] /\ container' = [container EXCEPT ![m] = "whole"]
    BY <1>1, <1>9 DEF FinishStage, HInv, TypeOK
  <2>2. e \in Deployer /\ e.step = "saved" /\ Baseline \notin e.stage
    BY <1>2 DEF Deployer, Step
  <2>3. container' \in [Active -> FileState] /\ container'[Baseline] = "whole"
    BY <1>2, <2>1, MigrationNames DEF FileState
  <2> HIDE DEF e
  <2>4. QED
    BY <1>2, <1>4, <1>5, <1>9, <2>1, <2>2, <2>3 DEF FinishStage, Migrating
<1>10. CASE MigrateInContainer(r)
  BY <1>1, <1>10, HInvStartMigrate DEF MigrateInContainer
<1>11. CASE Verify(r)
  <2> DEFINE e == [at[r] EXCEPT !.step = "verified"]
  <2>1. at' = [at EXCEPT ![r] = e]
    BY <1>1, <1>11 DEF Verify, HInv, TypeOK
  <2>2. e \in Deployer /\ e.step = "verified" /\ e.stage = at[r].stage
    BY <1>2 DEF Deployer, Step
  <2> HIDE DEF e
  <2>3. QED
    BY <1>2, <1>4, <1>5, <1>11, <2>1, <2>2 DEF Verify, Migrating
<1>12. QED
  BY <1>6, <1>7, <1>8, <1>9, <1>10, <1>11

\* A release stops every deployment and leaves a container with the baseline.
LEMMA HInvRelease ==
    ASSUME HInv, Release
    PROVE  HInv'
<1>1. PICK files \in {{Baseline}, Active} : container' = Image(files)
  BY DEF Release
<1>2. container' \in [Active -> FileState] /\ container'[Baseline] = "whole"
  BY <1>1 DEF Image, FileState, Active
<1> DEFINE stopped == [Idle EXCEPT !.step = "stopped"]
<1>3. /\ stopped \in Deployer /\ stopped.step = "stopped" /\ stopped.stage = {}
  BY DEF Deployer, Step, Idle
<1>4. /\ at' = [d \in Deployers |->
                  IF d = Bootstrap \/ at[d].step \in {"idle", "verified"} THEN at[d]
                  ELSE stopped]
      /\ lock' = IF lock \in Runs THEN None ELSE lock
      /\ UNCHANGED <<schema, history, cutover, dumps, booted, torn>>
  BY DEF Release
<1> HIDE DEF stopped
<1>5. at' \in [Deployers -> Deployer]
  BY <1>3, <1>4 DEF HInv, TypeOK
<1>6. \A d \in Deployers : at'[d] = at[d] \/ at'[d] = stopped
  BY <1>4
<1>7. TypeOK'
  BY <1>2, <1>4, <1>5 DEF HInv, TypeOK
<1>8. LockIsHeld'
  <2>1. /\ Bootstrap \notin Runs /\ None \notin Deployers
        /\ \A d \in Deployers : d = Bootstrap \/ d \in Runs
    BY MigrationsAssumption DEF Deployers
  <2>2. ASSUME NEW d \in Deployers
        PROVE  lock' = d <=> at'[d].step \in Migrating
    <3>1. lock = d <=> at[d].step \in Migrating
      BY DEF HInv, LockIsHeld
    <3>2. CASE d = Bootstrap
      BY <1>4, <2>1, <3>1, <3>2
    <3>3. CASE d \in Runs
      BY <1>3, <1>4, <2>1, <3>1, <3>3 DEF Migrating
    <3>4. QED
      BY <2>1, <3>2, <3>3
  <2>3. QED
    BY <2>2 DEF LockIsHeld
<1>9. HistoryExists' /\ CutoverWasChecked'
  BY <1>4 DEF HInv, HistoryExists, CutoverWasChecked, FingerprintAccepted
<1>10. RowsNow' = RowsNow
  BY <1>4 DEF RowsNow
<1>11. BegunHasRow' /\ RanHasEffect'
  BY <1>3, <1>4, <1>6, <1>10 DEF HInv, BegunHasRow, RanHasEffect
<1>12. BaselineIsWhole'
  BY <1>2, <1>3, <1>6 DEF HInv, BaselineIsWhole
<1>13. HistoryTellsSchema'
  BY <1>4, <1>10 DEF HInv, HistoryTellsSchema
<1>14. QED
  BY <1>7, <1>8, <1>9, <1>11, <1>12, <1>13 DEF HInv

\* The cutover, up to its rewrite of the history.
LEMMA HInvCutover ==
    ASSUME HInv, StartCutover \/ LockHistory \/ StopCutover
    PROVE  HInv'
<1>1. UNCHANGED <<schema, history, container, lock, at, dumps, booted, torn>>
  BY DEF StartCutover, LockHistory, StopCutover
<1>2. cutover' \in Cutover
  BY DEF HInv, TypeOK, StartCutover, LockHistory, StopCutover, Cutover
<1>3. cutover'.step # "idle" => history # None
  BY DEF HInv, TypeOK, StartCutover, LockHistory, StopCutover, Cutover, HistoryExists
<1>4. CutoverWasChecked'
  BY DEF HInv, TypeOK, StartCutover, LockHistory, StopCutover, Cutover, CutoverWasChecked,
         FingerprintAccepted
<1>5. RowsNow' = RowsNow
  BY <1>1 DEF RowsNow
<1>6. TypeOK'
  BY <1>1, <1>2 DEF HInv, TypeOK
<1>7. LockIsHeld' /\ HistoryExists'
  BY <1>1, <1>3 DEF HInv, LockIsHeld, HistoryExists
<1>8. BegunHasRow' /\ RanHasEffect' /\ BaselineIsWhole' /\ HistoryTellsSchema'
  BY <1>1, <1>5 DEF HInv, BegunHasRow, RanHasEffect, BaselineIsWhole, HistoryTellsSchema
<1>9. QED
  BY <1>4, <1>6, <1>7, <1>8 DEF HInv

\* The rewrite: the tables are still those whose structure was checked.
LEMMA HInvCommitCutover ==
    ASSUME HInv, CommitCutover
    PROVE  HInv'
<1> DEFINE kept == {row \in history : row.name \notin Legacy}
           done == Rows({Baseline})
<1>1. /\ history' = kept \cup done
      /\ cutover.step = "locked" /\ schema = cutover.schema
      /\ cutover' = [cutover EXCEPT !.step = "idle"]
      /\ UNCHANGED <<schema, container, lock, at, dumps, booted, torn>>
  BY DEF CommitCutover
<1>2. \A n : /\ n \in Finished(done) <=> n \in {Baseline}
             /\ n \in NamesIn(done) <=> n \in {Baseline}
  BY RowsAreFinished
<1>3. schema.base \in Validated /\ schema.later = {}
  BY <1>1 DEF HInv, CutoverWasChecked, FingerprintAccepted
<1>4. history # None /\ history \in SUBSET Row /\ RowsNow = history
  BY <1>1, HistoryIsRows DEF HInv, HistoryExists, TypeOK
<1>5. history' \in SUBSET Row /\ history' # None /\ RowsNow' = history'
  <2>1. done \in SUBSET Row
    BY DEF Rows, Row, Active
  <2>2. history' \in SUBSET Row
    BY <1>1, <1>4, <2>1
  <2>3. QED
    BY <2>2, MigrationsAssumption DEF RowsNow, Row
<1>6. /\ \A m \in Later : m \in Finished(history') => m \in Finished(history)
      /\ \A m \in Active : m \in NamesIn(history) => m \in NamesIn(history')
  <2>1. /\ Finished(kept \cup done) = Finished(kept) \cup Finished(done)
        /\ NamesIn(kept \cup done) = NamesIn(kept) \cup NamesIn(done)
    BY RowsUnited
  <2> HIDE DEF done
  <2>2. /\ \A n : n \in Finished(history') <=> n \in Finished(kept) \/ n = Baseline
        /\ \A n : n \in NamesIn(history') <=> n \in NamesIn(kept) \/ n = Baseline
    BY <1>1, <1>2, <2>1
  <2>3. Finished(kept) \subseteq Finished(history)
    BY DEF Finished
  <2>4. \A m \in Active : m \in NamesIn(history) => m \in NamesIn(kept)
    BY MigrationNames DEF NamesIn
  <2>5. \A m \in Later : m # Baseline
    BY MigrationNames
  <2> HIDE DEF kept
  <2>6. QED
    BY <2>2, <2>3, <2>4, <2>5
<1>7. TypeOK'
  BY <1>1, <1>5 DEF HInv, TypeOK, Cutover
<1>8. LockIsHeld' /\ HistoryExists' /\ CutoverWasChecked' /\ BaselineIsWhole'
  BY <1>1, <1>5 DEF HInv, TypeOK, Cutover, LockIsHeld, HistoryExists, CutoverWasChecked,
                    BaselineIsWhole
<1>9. BegunHasRow' /\ RanHasEffect'
  BY <1>1, <1>4, <1>5, <1>6 DEF HInv, BegunHasRow, RanHasEffect
<1>10. HistoryTellsSchema'
  <2>1. history' # {}
    BY <1>1, <1>2 DEF NamesIn
  <2>2. \A m \in Later : m \in Finished(history') => m \in torn
    BY <1>3, <1>4, <1>6 DEF HInv, HistoryTellsSchema
  <2>3. QED
    BY <1>1, <1>3, <1>5, <2>1, <2>2 DEF HistoryTellsSchema
<1>11. QED
  BY <1>7, <1>8, <1>9, <1>10 DEF HInv

\* The last legacy migration, before the cutover: nothing else was ever applied.
LEMMA HInvFinishLegacy ==
    ASSUME HInv, FinishLegacy
    PROVE  HInv'
<1>1. /\ history # None /\ lock = None
      /\ \A row \in history : row.finished
      /\ UNCHANGED <<container, lock, at, cutover, dumps, booted, torn>>
  BY DEF FinishLegacy
<1>2. PICK l \in Legacy : Finished(history) = Legacy \ {l} /\ history' = Rows(Legacy)
  BY DEF FinishLegacy
<1>3. PICK base \in Validated \cup {"other"} : schema' = [schema EXCEPT !.base = base]
  BY DEF FinishLegacy
<1>4. history \in SUBSET Row /\ RowsNow = history
  BY <1>1, HistoryIsRows DEF HInv, TypeOK
<1>5. schema.later = {}
  <2>1. NamesIn(history) \subseteq Finished(history)
    BY <1>1 DEF NamesIn, Finished
  <2>2. schema.later \subseteq NamesIn(history) /\ schema.later \subseteq Later
    BY <1>4 DEF HInv, HistoryTellsSchema, TypeOK, Schema
  <2>3. QED
    BY <1>2, <2>1, <2>2, MigrationNames
<1>6. schema' \in Schema /\ schema'.later = {}
  BY <1>3, <1>5 DEF HInv, TypeOK, Schema
<1>7. history' \in SUBSET Row /\ history' # None /\ RowsNow' = history'
  <2>1. history' \in SUBSET Row
    BY <1>2 DEF Rows, Row
  <2>2. QED
    BY <2>1, MigrationsAssumption DEF RowsNow, Row
<1>8. \A d \in Deployers : at[d].step \notin {"begun", "ran"}
  BY <1>1, MigrationsAssumption DEF HInv, LockIsHeld, Migrating, Deployers
<1>9. TypeOK'
  BY <1>1, <1>6, <1>7 DEF HInv, TypeOK
<1>10. LockIsHeld' /\ HistoryExists' /\ CutoverWasChecked' /\ BaselineIsWhole'
  BY <1>1, <1>7 DEF HInv, LockIsHeld, HistoryExists, CutoverWasChecked, BaselineIsWhole,
                    FingerprintAccepted
<1>11. BegunHasRow' /\ RanHasEffect'
  BY <1>1, <1>8 DEF BegunHasRow, RanHasEffect
<1>12. HistoryTellsSchema'
  <2>1. \A n : /\ n \in Finished(history') <=> n \in Legacy
               /\ n \in NamesIn(history') <=> n \in Legacy
    BY <1>2, RowsAreFinished
  <2>2. \A m \in Active : m \notin Finished(history')
    BY <2>1, MigrationNames
  <2>3. history' # {}
    BY <2>1, MigrationNames DEF NamesIn
  <2>4. QED
    BY <1>6, <1>7, <2>2, <2>3, MigrationNames DEF HistoryTellsSchema
<1>13. QED
  BY <1>9, <1>10, <1>11, <1>12 DEF HInv

LEMMA HInvStep == ASSUME HInv, [Next]_vars PROVE HInv'
<1>1. ASSUME NEW d \in Deployers, Begin(d) \/ RunSql(d) \/ Finish(d) \/ Migrated(d) \/ Die(d)
      PROVE  HInv'
  BY <1>1, HInvBegin, HInvRunSql, HInvFinish, HInvDeployer
<1>2. CASE StartBootstrap \/ MigrateBootstrap
  BY <1>2, HInvBootstrap
<1>3. ASSUME NEW r \in Runs, \/ List(r) \/ Backup(r) \/ StartStage(r) \/ FinishStage(r)
                             \/ MigrateInContainer(r) \/ Verify(r)
      PROVE  HInv'
  BY <1>3, HInvRun
<1>4. CASE Release \/ StartCutover \/ LockHistory \/ CommitCutover \/ StopCutover \/ FinishLegacy
  BY <1>4, HInvRelease, HInvCutover, HInvCommitCutover, HInvFinishLegacy
<1>5. CASE UNCHANGED vars
  BY <1>5 DEF vars, HInv, TypeOK, LockIsHeld, HistoryExists, BegunHasRow, RanHasEffect,
              BaselineIsWhole, CutoverWasChecked, FingerprintAccepted, HistoryTellsSchema,
              RowsNow
<1>6. QED
  BY <1>1, <1>2, <1>3, <1>4, <1>5 DEF Next

\* The tables, the history, the container and the deployers keep their form.
THEOREM MigrationsTypeCorrect == Spec => []TypeOK
<1>1. HInv => TypeOK
  BY DEF HInv
<1>2. QED
  BY <1>1, HInvInit, HInvStep, PTL DEF Spec

\* For any migrations, deployments that overlap, die or are released over, a bootstrap
\* and a cutover: _prisma_migrations tells what the tables are.
THEOREM HistoryIsTrue == Spec => []HistoryTellsSchema
<1>1. Init => HInv
  BY HInvInit
<1>2. HInv /\ [Next]_vars => HInv'
  BY HInvStep
<1>3. HInv => HistoryTellsSchema
  BY DEF HInv
<1>4. QED
  BY <1>1, <1>2, <1>3, PTL DEF Spec

-----------------------------------------------------------------------------
(* DEPLOYMENTS ARE SAFE                                                     *)

LEMMA SInvInit == ASSUME Init PROVE SInv
<1>1. HInv
  BY HInvInit
<1>2. \A d \in Deployers : at[d].step = "idle"
  BY DEF Init, Idle
<1>3. dumps = {}
  BY Zenon DEF Init
<1>4. schema.later = {}
  <2>1. PICK base : schema = [base |-> base, later |-> {}]
    BY Zenon DEF Init
  <2>2. QED
    BY <2>1
<1>5. BackedUp /\ Listed /\ VerifiedIsFinished
  BY <1>2, <1>3 DEF BackedUp, Listed, VerifiedIsFinished, Deployers
<1>6. Dumped
  BY <1>4 DEF Dumped
<1>7. QED
  BY <1>1, <1>5, <1>6 DEF SInv

\* What was finished stays finished, but for the legacy migrations.
LEMMA FinishedStays ==
    ASSUME HInv, [Next]_vars
    PROVE  /\ \A m \in Active : m \in Finished(RowsNow) => m \in Finished(RowsNow')
           /\ history # None => history' # None
<1>1. /\ history \in (SUBSET Row) \cup {None} /\ history' \in (SUBSET Row) \cup {None}
      /\ RowsNow # None
  BY HInvStep, HistoryIsRows DEF HInv, TypeOK
<1>2. CASE UNCHANGED history
  BY <1>2 DEF RowsNow
<1>3. CASE history' = RowsNow
  BY <1>1, <1>3 DEF RowsNow
<1>4. ASSUME NEW d \in Deployers, Begin(d) \/ Finish(d)
      PROVE  /\ \A m \in Active : m \in Finished(RowsNow) => m \in Finished(RowsNow')
             /\ history # None => history' # None
  <2>1. PICK m : \/ history' = history \cup {[name |-> m, finished |-> FALSE]}
                 \/ history' = (history \ {[name |-> m, finished |-> FALSE]})
                                  \cup {[name |-> m, finished |-> TRUE]}
    BY <1>4 DEF Begin, Finish
  <2>2. lock = d
    BY <1>4 DEF Begin, Finish, HInv, LockIsHeld, Migrating
  <2>3. history # None /\ RowsNow = history
    BY <2>2, HistoryIsRows, MigrationsAssumption DEF HInv, HistoryExists, Deployers
  <2>4. history' # None /\ RowsNow' = history'
    <3>1. HInv' /\ lock' = d
      BY <1>4, <2>2, HInvBegin, HInvFinish DEF Begin, Finish
    <3>2. QED
      BY <3>1, MigrationsAssumption DEF HInv, HistoryExists, Deployers, RowsNow
  <2> DEFINE begun == [name |-> m, finished |-> FALSE]
             done == [name |-> m, finished |-> TRUE]
  <2>5. ~begun.finished /\ done.finished
    BY RowFields
  <2>6. history' = history \cup {begun} \/ history' = (history \ {begun}) \cup {done}
    BY <2>1
  <2> HIDE DEF begun, done
  <2>7. Finished(history) \subseteq Finished(history')
    <3>1. Finished(history \ {begun}) = Finished(history)
      BY <2>5, RowRemoved
    <3>2. Finished(history) \subseteq Finished(history \cup {begun})
      BY <2>5, RowAdded
    <3>3. Finished(history \ {begun}) \subseteq Finished((history \ {begun}) \cup {done})
      BY <2>5, RowAdded
    <3>4. QED
      BY <2>6, <3>1, <3>2, <3>3
  <2>8. QED
    BY <2>3, <2>4, <2>7
<1>5. CASE CommitCutover
  <2>1. history # None /\ RowsNow = history
    BY <1>5, HistoryIsRows DEF CommitCutover, HInv, HistoryExists
  <2>2. history' # None /\ RowsNow' = history'
    <3>1. HInv' /\ history' = {row \in history : row.name \notin Legacy} \cup Rows({Baseline})
      BY <1>5, HInvCommitCutover DEF CommitCutover
    <3>2. Rows({Baseline}) \in SUBSET Row
      BY DEF Rows, Row, Active
    <3>3. history' \in SUBSET Row
      BY <1>1, <2>1, <3>1, <3>2
    <3>4. QED
      BY <3>3, MigrationsAssumption DEF Row, RowsNow
  <2>3. ASSUME NEW m \in Active, m \in Finished(history)
        PROVE  m \in Finished(history')
    <3>1. PICK row \in history : row.finished /\ row.name = m
      BY <2>3, RowsTell
    <3>2. row \in history'
      BY <1>5, <3>1, MigrationNames DEF CommitCutover
    <3>3. QED
      BY <3>1, <3>2, RowsTell
  <2>4. QED
    BY <2>1, <2>2, <2>3
<1>6. CASE FinishLegacy
  <2>1. PICK l \in Legacy : Finished(history) = Legacy \ {l} /\ history' = Rows(Legacy)
    BY <1>6 DEF FinishLegacy
  <2>2. RowsNow = history
    BY <1>6, HistoryIsRows DEF FinishLegacy, HInv
  <2>3. history' # None
    BY <2>1, MigrationsAssumption DEF Rows
  <2>4. QED
    BY <2>1, <2>2, <2>3, MigrationNames
<1>7. \/ UNCHANGED history \/ history' = RowsNow \/ CommitCutover \/ FinishLegacy
      \/ \E d \in Deployers : Begin(d) \/ Finish(d)
  BY DEF Next, vars, RunSql, Migrated, Die, StartBootstrap, MigrateBootstrap, StartMigrate,
         List, Backup, StartStage, FinishStage, MigrateInContainer, Verify, Release,
         StartCutover, LockHistory, StopCutover
<1>8. QED
  BY <1>2, <1>3, <1>4, <1>5, <1>6, <1>7

\* How a deployer goes on: a deployment lists with a history there, saves before it
\* migrates, and verifies what it listed.
Goes(d) ==
    \/ at'[d] = at[d]
    \/ at'[d].step = "stopped" /\ at[d].step # "idle"
    \/ d = Bootstrap /\ booted'
    \/ d \in Runs /\ at'[d].step = "listed" /\ history # None
    \/ at[d].step = "listed" /\ at'[d].step = "saved" /\ dumps' # {}
    \/ /\ at[d].step \notin {"idle", "listed", "stopped"}
       /\ at'[d].step # "verified"
    \/ /\ d \in Runs /\ at[d].step = "migrated" /\ at'[d].step = "verified"
       /\ at'[d].missing \subseteq Finished(history) /\ UNCHANGED history

LEMMA DeployersGo ==
    ASSUME HInv, [Next]_vars
    PROVE  \A d \in Deployers : Goes(d)
<1>1. at \in [Deployers -> Deployer] /\ Bootstrap \in Deployers /\ Runs \subseteq Deployers
  BY DEF HInv, TypeOK, Deployers
<1>2. ASSUME UNCHANGED at
      PROVE  \A d \in Deployers : Goes(d)
  BY <1>2 DEF Goes
<1>3. ASSUME NEW c \in Deployers,
             Begin(c) \/ RunSql(c) \/ Finish(c) \/ Migrated(c) \/ Die(c)
      PROVE  \A d \in Deployers : Goes(d)
  <2>1. at[c] \in Deployer
    BY <1>1
  <2>2. \/ /\ at[c].step \in {"migrating", "begun", "ran"}
           /\ \E e \in {"begun", "ran", "migrating", "migrated"} : at'[c].step = e
        \/ at'[c].step = "stopped" /\ at[c].step # "idle"
    BY <1>1, <1>3, <2>1 DEF Begin, RunSql, Finish, Migrated, Die, Deployer, Idle
  <2>3. Goes(c)
    BY <2>2 DEF Goes
  <2>4. \A d \in Deployers \ {c} : at'[d] = at[d]
    BY <1>1, <1>3 DEF Begin, RunSql, Finish, Migrated, Die
  <2>5. QED
    BY <2>3, <2>4 DEF Goes
<1>4. CASE StartBootstrap \/ MigrateBootstrap
  <2>1. Goes(Bootstrap)
    BY <1>1, <1>4 DEF StartBootstrap, MigrateBootstrap, StartMigrate, Goes, Deployer
  <2>2. \A d \in Deployers \ {Bootstrap} : at'[d] = at[d]
    BY <1>1, <1>4 DEF StartBootstrap, MigrateBootstrap, StartMigrate
  <2>3. QED
    BY <2>1, <2>2 DEF Goes
<1>5. ASSUME NEW r \in Runs, \/ List(r) \/ Backup(r) \/ StartStage(r) \/ FinishStage(r)
                             \/ MigrateInContainer(r) \/ Verify(r)
      PROVE  \A d \in Deployers : Goes(d)
  <2>1. at[r] \in Deployer /\ r \in Deployers
    BY <1>1
  <2>2. \A d \in Deployers \ {r} : at'[d] = at[d]
    BY <1>1, <1>5
    DEF List, Backup, StartStage, FinishStage, MigrateInContainer, StartMigrate, Verify
  <2>3. CASE List(r)
    BY <1>1, <2>1, <2>3 DEF List, Goes, Deployer
  <2>4. CASE Backup(r)
    BY SMTT(30), <1>1, <2>1, <2>4 DEF Backup, Goes, Deployer
  <2>5. CASE StartStage(r) \/ FinishStage(r) \/ MigrateInContainer(r)
    BY <1>1, <2>1, <2>5
    DEF StartStage, FinishStage, MigrateInContainer, StartMigrate, Goes, Deployer
  <2>6. CASE Verify(r)
    BY <1>1, <2>1, <2>6 DEF Verify, Applied, Goes, Deployer
  <2>7. QED
    BY <1>5, <2>2, <2>3, <2>4, <2>5, <2>6 DEF Goes
<1>6. CASE Release
  <2>1. [Idle EXCEPT !.step = "stopped"].step = "stopped"
    BY DEF Idle
  <2>2. QED
    BY <1>6, <2>1 DEF Release, Goes
<1>7. CASE UNCHANGED at
  BY <1>2, <1>7
<1>8. QED
  BY <1>3, <1>4, <1>5, <1>6, <1>7
  DEF Next, vars, StartCutover, LockHistory, CommitCutover, StopCutover, FinishLegacy

\* Migrations only come to the tables, dumps are kept, a bootstrap is remembered.
LEMMA TablesGrow ==
    ASSUME HInv, [Next]_vars
    PROVE  /\ dumps \subseteq dumps' /\ (booted => booted')
           /\ schema.later \subseteq schema'.later
           /\ dumps' \subseteq dumps \cup {schema.later}
           /\ \/ schema'.later = schema.later
              \/ \E d \in Deployers : /\ at[d].step = "begun" /\ booted' = booted
                                      /\ dumps' = dumps
                                      /\ schema'.later \subseteq schema.later \cup {at[d].doing}
<1>1. schema \in Schema
  BY DEF HInv, TypeOK
<1>2. CASE UNCHANGED <<schema, dumps, booted>>
  BY <1>2
<1>3. CASE \E d \in Deployers : RunSql(d)
  BY <1>1, <1>3 DEF RunSql, Schema
<1>4. CASE StartBootstrap \/ \E r \in Runs : Backup(r)
  BY <1>4 DEF StartBootstrap, Backup
<1>5. CASE FinishLegacy
  BY <1>1, <1>5 DEF FinishLegacy, Schema
<1>6. QED
  BY <1>2, <1>3, <1>4, <1>5
  DEF Next, vars, Begin, Finish, Migrated, Die, MigrateBootstrap, List, StartStage,
      FinishStage, MigrateInContainer, Verify, Release, StartCutover, LockHistory,
      CommitCutover, StopCutover

LEMMA SInvStep == ASSUME SInv, [Next]_vars PROVE SInv'
<1>1. HInv /\ HInv'
  BY HInvStep DEF SInv
<1>2. /\ Runs \subseteq Deployers /\ Bootstrap \in Deployers /\ Bootstrap \notin Runs
      /\ \A d \in Deployers : Goes(d) /\ (d = Bootstrap \/ d \in Runs)
  BY <1>1, DeployersGo, MigrationsAssumption DEF Deployers
<1>3. BackedUp'
  <2>1. at'[Bootstrap].step # "idle" => booted'
    BY <1>1, <1>2, TablesGrow DEF Goes, SInv, BackedUp
  <2>2. ASSUME NEW r \in Runs, at'[r].step \notin {"idle", "listed", "stopped"}
        PROVE  dumps' # {}
    <3>1. dumps # {} \/ dumps' # {}
      BY <1>2, <2>2 DEF Goes, SInv, BackedUp
    <3>2. QED
      BY <1>1, <3>1, TablesGrow
  <2>3. \A dump \in dumps' : dump \subseteq schema'.later
    BY <1>1, TablesGrow DEF SInv, BackedUp
  <2>4. QED
    BY <2>1, <2>2, <2>3 DEF BackedUp
<1>4. Dumped'
  <2>1. CASE schema'.later = schema.later
    BY <1>1, <2>1, TablesGrow DEF SInv, Dumped
  <2>2. ASSUME NEW d \in Deployers, at[d].step = "begun", booted' = booted, dumps' = dumps,
               schema'.later \subseteq schema.later \cup {at[d].doing}
        PROVE  Dumped'
    <3>1. CASE booted
      BY <2>2, <3>1 DEF Dumped
    <3>2. CASE ~booted
      <4>1. d \in Runs
        BY <1>2, <2>2, <3>2 DEF SInv, BackedUp
      <4>2. PICK dump \in dumps : dump \subseteq schema.later
        BY <2>2, <4>1 DEF SInv, BackedUp
      <4>3. ASSUME NEW m \in schema'.later
            PROVE  \E old \in dumps : m \notin old
        <5>1. CASE m \in schema.later
          BY <3>2, <5>1 DEF SInv, Dumped
        <5>2. CASE m \notin schema.later
          BY <4>2, <5>2
        <5>3. QED
          BY <5>1, <5>2
      <4>4. QED
        BY <2>2, <4>3 DEF Dumped
    <3>3. QED
      BY <3>1, <3>2
  <2>3. QED
    BY <1>1, <2>1, <2>2, TablesGrow
<1>5. Listed'
  <2>1. ASSUME NEW r \in Runs, at'[r].step \notin {"idle", "stopped"}
        PROVE  history' # None
    <3>1. history # None
      BY <1>2, <2>1 DEF Goes, SInv, Listed
    <3>2. QED
      BY <1>1, <3>1, FinishedStays
  <2>2. QED
    BY <2>1 DEF Listed
<1>6. VerifiedIsFinished'
  <2>1. ASSUME NEW r \in Runs, at'[r].step = "verified"
        PROVE  at'[r].missing \subseteq Finished(RowsNow')
    <3>1. \/ at'[r] = at[r]
          \/ /\ at[r].step = "migrated" /\ UNCHANGED history
             /\ at'[r].missing \subseteq Finished(history)
      BY <1>2, <2>1 DEF Goes
    <3>2. CASE at'[r] = at[r]
      <4>1. at[r].missing \subseteq Finished(RowsNow) /\ at[r].missing \subseteq Active
        BY <1>2, <2>1, <3>2 DEF SInv, HInv, TypeOK, Deployer, VerifiedIsFinished
      <4>2. QED
        BY <1>1, <3>2, <4>1, FinishedStays
    <3>3. CASE /\ at[r].step = "migrated" /\ UNCHANGED history
               /\ at'[r].missing \subseteq Finished(history)
      <4>1. history # None
        BY <3>3 DEF SInv, Listed
      <4>2. RowsNow' = history
        BY <3>3, <4>1 DEF RowsNow
      <4>3. QED
        BY <3>3, <4>2
    <3>4. QED
      BY <3>1, <3>2, <3>3
  <2>2. QED
    BY <2>1 DEF VerifiedIsFinished
<1>7. QED
  BY <1>1, <1>3, <1>4, <1>5, <1>6 DEF SInv

\* A deployment that reports success applied what it had listed, and no migration came
\* to the tables without a dump from before it, but in a database of the bootstrap.
THEOREM SafeDeployments == Spec => []DeploymentsAreSafe
<1>1. Init => SInv
  BY SInvInit
<1>2. SInv /\ [Next]_vars => SInv'
  BY SInvStep
<1>3. SInv => DeploymentsAreSafe
  BY DEF SInv, HInv, HistoryTellsSchema, VerifiedIsFinished, Dumped, DeploymentsAreSafe
<1>4. QED
  BY <1>1, <1>2, <1>3, PTL DEF Spec

-----------------------------------------------------------------------------
(* FIXTURES: the inductive invariant.                                       *)

\* The text of a team is that of its names.
TextIsOfNames ==
    \A t \in Teams : Present(t) => team[t].text = SearchText(team[t].name, team[t].alias)

\* What a request about teams holds, rows being the teams: the team it is about does
\* not go away.
TeamRequest(doc, rows) ==
    /\ doc.doing = "team" =>
         /\ doc.of \in Teams /\ rows[doc.of] # Absent
         /\ doc.sent \in Changes
         /\ doc.name \in Names /\ doc.alias \in Names \cup {Absent}
    /\ doc.doing = "seedCreate" => doc.entry \in Teams /\ Seeded[doc.entry] # Absent
    /\ doc.doing = "seedUpdate" =>
         /\ doc.entry \in Teams /\ Seeded[doc.entry] # Absent
         /\ \A t \in doc.found : t \in Teams /\ rows[t] # Absent
    /\ doc.doing = "seedVariant" => doc.of \in Teams /\ rows[doc.of] # Absent

\* The matches of a round, each position once.
Proper(matches) ==
    /\ matches \subseteq Match /\ IsFiniteSet(matches)
    /\ {m.position : m \in matches} = 1..MatchCount
    /\ Cardinality(matches) = MatchCount
    /\ \A m \in matches : m.home # m.away

\* The times of a row or of a request suit the matches.
Suits(times, matches) == Accepted(times, Times(matches))

Moments == [open : Int, close : Int]
Writing == {"create", "edit", "insert", "replace"}
RoundDoc == [doing : Writing, number : 1..MaxNumber, matches : SUBSET Match, times : Moments]

\* What a request about a round holds, rows being the rounds and late those whose
\* matches were replaced under an edit of the times.
RoundRequest(doc, rows, late) ==
    /\ doc.doing \in Writing =>
         doc \in RoundDoc /\ Proper(doc.matches) /\ Suits(doc.times, doc.matches)
    /\ doc.doing \in {"edit", "replace"} => rows[doc.number] # Absent
    /\ doc.doing = "reschedule" =>
         /\ doc.number \in 1..MaxNumber /\ rows[doc.number] # Absent
         /\ doc.times \in Moments
         /\ doc.number \notin late => Suits(doc.times, rows[doc.number].matches)

RowIsPlayable(row, excused) == Proper(row.matches) /\ (~excused => Suits(row, row.matches))

RequestsInv ==
    /\ admin = [a \in Admins |-> admin[a]]
    /\ \A a \in Admins : TeamRequest(admin[a], team) /\ RoundRequest(admin[a], fixture, crossed)

FixturesInv ==
    /\ FixturesTypeOK /\ TextIsOfNames
    /\ \A n \in 1..MaxNumber : fixture[n] # Absent => RowIsPlayable(fixture[n], n \in crossed)
    /\ RequestsInv

-----------------------------------------------------------------------------
(* FIXTURES: lemmas about the steps.                                        *)

\* A request goes on, and the others stay.
LEMMA TurnStep ==
    ASSUME RequestsInv, NEW a \in Admins, NEW next, Turn(a, next)
    PROVE  /\ admin' = [b \in Admins |-> admin'[b]]
           /\ \A b \in Admins : admin'[b] = IF b = a THEN next ELSE admin[b]
  <1>1. DOMAIN admin = Admins
    BY DEF RequestsInv
  <1> QED
    BY <1>1 DEF Turn

\* A request that ends holds nothing.
LEMMA StoppedRequest ==
    ASSUME NEW rows, NEW rounds, NEW late
    PROVE  /\ TeamRequest([doing |-> "nothing"], rows)
           /\ RoundRequest([doing |-> "nothing"], rounds, late)
  BY DEF TeamRequest, RoundRequest, Writing

\* Teams that stay are still there for the requests.
LEMMA TeamRequestKept ==
    ASSUME NEW doc, NEW rows, NEW then, TeamRequest(doc, rows),
           \A t \in Teams : rows[t] # Absent => then[t] # Absent
    PROVE  TeamRequest(doc, then)
  BY DEF TeamRequest

\* A request about teams takes a step that leaves no team's text behind.
LEMMA TeamsStep ==
    ASSUME FixturesInv, NEW a \in Admins, NEW next, Turn(a, next),
           UNCHANGED <<fixture, crossed>>,
           team' \in [Teams -> Team \cup {Absent}], TextIsOfNames',
           \A t \in Teams : team[t] # Absent => team'[t] # Absent,
           TeamRequest(next, team'), RoundRequest(next, fixture, crossed)
    PROVE  FixturesInv'
  <1>1. /\ admin' = [b \in Admins |-> admin'[b]]
        /\ \A b \in Admins : admin'[b] = IF b = a THEN next ELSE admin[b]
    BY TurnStep DEF FixturesInv
  <1>2. FixturesTypeOK'
    BY DEF FixturesInv, FixturesTypeOK
  <1>3. (\A n \in 1..MaxNumber : fixture[n] # Absent => RowIsPlayable(fixture[n], n \in crossed))'
    BY DEF FixturesInv
  <1>4. ASSUME NEW b \in Admins
        PROVE  TeamRequest(admin'[b], team') /\ RoundRequest(admin'[b], fixture', crossed')
    <2>1. CASE b = a
      BY <1>1, <2>1
    <2>2. CASE b # a
      <3>1. TeamRequest(admin[b], team) /\ RoundRequest(admin[b], fixture, crossed)
        BY DEF FixturesInv, RequestsInv
      <3>2. TeamRequest(admin[b], team')
        BY <3>1, TeamRequestKept
      <3> QED
        BY <1>1, <2>2, <3>1, <3>2
    <2> QED
      BY <2>1, <2>2
  <1> QED
    BY <1>1, <1>2, <1>3, <1>4 DEF FixturesInv, RequestsInv

\* A request that writes nothing takes a step.
LEMMA ReadStep ==
    ASSUME FixturesInv, NEW a \in Admins, NEW next, Turn(a, next),
           UNCHANGED <<team, fixture, crossed>>,
           TeamRequest(next, team), RoundRequest(next, fixture, crossed)
    PROVE  FixturesInv'
  <1>1. TextIsOfNames'
    BY DEF FixturesInv, TextIsOfNames, Present
  <1>2. team' \in [Teams -> Team \cup {Absent}]
    BY DEF FixturesInv, FixturesTypeOK
  <1> QED
    BY <1>1, <1>2, TeamsStep

\* A team that is present is a row.
LEMMA PresentIsTeam ==
    ASSUME FixturesInv, NEW t \in Teams, Present(t)
    PROVE  team[t] \in Team
  BY DEF FixturesInv, FixturesTypeOK, Present

\* The variants that are left are those of kinds.
LEMMA SyncedType ==
    ASSUME NEW variant \in [Kinds -> {"none", "active", "inactive"}], NEW desired
    PROVE  Synced(variant, desired) \in [Kinds -> {"none", "active", "inactive"}]
  BY DEF Synced

\* One team becomes a row whose text is of its names, and the others stay.
LEMMA RowStep ==
    ASSUME FixturesInv, NEW t \in Teams, NEW row \in Team,
           row.text = SearchText(row.name, row.alias),
           team' = [team EXCEPT ![t] = row]
    PROVE  /\ team' \in [Teams -> Team \cup {Absent}]
           /\ TextIsOfNames'
           /\ \A u \in Teams : team[u] # Absent => team'[u] # Absent
           /\ team'[t] # Absent
  <1>0. team \in [Teams -> Team \cup {Absent}] /\ TextIsOfNames
    BY DEF FixturesInv, FixturesTypeOK
  <1>1. \A u \in Teams : team'[u] = IF u = t THEN row ELSE team[u]
    BY <1>0
  <1>2. team' \in [Teams -> Team \cup {Absent}]
    BY <1>0
  <1>3. row # Absent
    BY InputAssumption
  <1> QED
    BY <1>0, <1>1, <1>2, <1>3 DEF TextIsOfNames, Present

\* The names of a team, and what is searched.
LEMMA SearchTextType ==
    ASSUME NEW name \in Names, NEW alias \in Names \cup {Absent}
    PROVE  SearchText(name, alias) \in SUBSET Names
  <1>1. Absent \notin Names
    BY FixturesAssumption
  <1> QED
    BY <1>1 DEF SearchText

-----------------------------------------------------------------------------
(* FIXTURES: the steps about teams.                                         *)

LEMMA CreateTeamStep ==
    ASSUME FixturesInv, NEW t \in Teams, NEW sent \in NewTeams, CreateTeam(t, sent)
    PROVE  FixturesInv'
  <1> DEFINE variant == Synced(NoVariants, IF sent.variants = Absent THEN OnlyDefault
                                           ELSE sent.variants)
             row == [name |-> sent.name, alias |-> sent.alias,
                     text |-> SearchText(sent.name, sent.alias),
                     active |-> TRUE, seed |-> Absent, variant |-> variant]
  <1>1. sent.name \in Names /\ sent.alias \in Names \cup {Absent}
    BY InputAssumption
  <1>2. SearchText(sent.name, sent.alias) \in SUBSET Names
    BY <1>1, SearchTextType
  <1>3. variant \in [Kinds -> {"none", "active", "inactive"}]
    BY SyncedType DEF NoVariants
  <1>4. team' = [team EXCEPT ![t] = row] /\ UNCHANGED <<fixture, admin, crossed>>
    BY DEF CreateTeam
  <1> HIDE DEF variant
  <1>5. row \in Team /\ row.text = SearchText(row.name, row.alias)
    BY <1>1, <1>2, <1>3 DEF Team
  <1> HIDE DEF row
  <1>6. /\ team' \in [Teams -> Team \cup {Absent}]
        /\ TextIsOfNames'
        /\ \A u \in Teams : team[u] # Absent => team'[u] # Absent
    BY <1>4, <1>5, RowStep
  <1>7. FixturesTypeOK'
    BY <1>4, <1>6 DEF FixturesInv, FixturesTypeOK
  <1>8. (\A n \in 1..MaxNumber : fixture[n] # Absent => RowIsPlayable(fixture[n], n \in crossed))'
    BY <1>4 DEF FixturesInv
  <1>9. RequestsInv'
    <2>1. ASSUME NEW b \in Admins
          PROVE  TeamRequest(admin[b], team') /\ RoundRequest(admin[b], fixture, crossed)
      BY <1>6, TeamRequestKept DEF FixturesInv, RequestsInv
    <2> QED
      BY <1>4, <2>1 DEF FixturesInv, RequestsInv
  <1> QED
    BY <1>6, <1>7, <1>8, <1>9 DEF FixturesInv

LEMMA ReadTeamStep ==
    ASSUME FixturesInv, NEW a \in Admins, NEW t \in Teams, NEW sent \in Changes,
           ReadTeam(a, t, sent)
    PROVE  FixturesInv'
  <1> DEFINE next == [doing |-> "team", of |-> t, sent |-> sent,
                      name |-> IF sent.name = Absent THEN team[t].name ELSE sent.name,
                      alias |-> IF sent.alias = Absent THEN team[t].alias ELSE sent.alias]
  <1>1. Present(t) /\ Turn(a, next) /\ UNCHANGED <<team, fixture, crossed>>
    BY DEF ReadTeam
  <1>2. team[t].name \in Names /\ team[t].alias \in Names \cup {Absent}
    BY <1>1, PresentIsTeam DEF Team
  <1>3. sent.name \in Names \cup {Absent} /\ sent.alias \in Names \cup {Absent}
    BY InputAssumption
  <1>4. next.name \in Names /\ next.alias \in Names \cup {Absent}
    BY <1>2, <1>3
  <1>5. TeamRequest(next, team) /\ RoundRequest(next, fixture, crossed)
    BY <1>1, <1>4 DEF TeamRequest, RoundRequest, Writing, Present
  <1> HIDE DEF next
  <1> QED
    BY <1>1, <1>5, ReadStep

LEMMA WriteTeamStep ==
    ASSUME FixturesInv, NEW a \in Admins, WriteTeam(a)
    PROVE  FixturesInv'
  <1> DEFINE doc == admin[a]
             sent == doc.sent
             old == team[doc.of]
             active == IF sent.active = Absent THEN old.active ELSE sent.active
             variant == IF sent.variants = Absent THEN old.variant
                        ELSE Synced(old.variant, sent.variants)
             row == [old EXCEPT !.name = doc.name, !.alias = doc.alias,
                                !.text = SearchText(doc.name, doc.alias),
                                !.active = active, !.variant = variant]
  <1>1. /\ doc.of \in Teams /\ Present(doc.of) /\ sent \in Changes
        /\ doc.name \in Names /\ doc.alias \in Names \cup {Absent}
    BY DEF FixturesInv, RequestsInv, TeamRequest, WriteTeam, Does, Present
  <1>2. old \in Team
    BY <1>1, PresentIsTeam
  <1>3. SearchText(doc.name, doc.alias) \in SUBSET Names
    BY <1>1, SearchTextType
  <1>4. active \in BOOLEAN /\ variant \in [Kinds -> {"none", "active", "inactive"}]
    <2>1. sent.active \in BOOLEAN \cup {Absent}
      BY <1>1, InputAssumption
    <2>2. old.active \in BOOLEAN /\ old.variant \in [Kinds -> {"none", "active", "inactive"}]
      BY <1>2 DEF Team
    <2> HIDE DEF sent, old
    <2> QED
      BY <2>1, <2>2, SyncedType
  <1>5. /\ team' = [team EXCEPT ![doc.of] = row]
        /\ Turn(a, [doing |-> "nothing"]) /\ UNCHANGED <<fixture, crossed>>
    <2>1. [AllNames(old, doc) EXCEPT
             !.active = IF sent.active = Absent THEN @ ELSE sent.active,
             !.variant = IF sent.variants = Absent THEN @ ELSE Synced(@, sent.variants)] = row
      BY <1>2 DEF AllNames, Team
    <2> QED
      BY <2>1 DEF WriteTeam, Stop
  <1> HIDE DEF active, variant
  <1>6. row \in Team /\ row.text = SearchText(row.name, row.alias)
    <2> HIDE DEF old, doc
    <2> QED
      BY <1>1, <1>2, <1>3, <1>4 DEF Team
  <1> HIDE DEF row, doc
  <1>7. /\ team' \in [Teams -> Team \cup {Absent}]
        /\ TextIsOfNames'
        /\ \A u \in Teams : team[u] # Absent => team'[u] # Absent
    BY <1>1, <1>5, <1>6, RowStep
  <1> QED
    BY <1>5, <1>7, StoppedRequest, TeamsStep

LEMMA SeedFindStep ==
    ASSUME FixturesInv, NEW a \in Admins, NEW entry \in Teams, SeedFind(a, entry)
    PROVE  FixturesInv'
  <1> DEFINE names == SearchText(Seeded[entry].name, Seeded[entry].alias)
             own == {t \in Teams : Present(t) /\ team[t].seed = entry}
             found == IF own # {} THEN own
                      ELSE {t \in Teams : Present(t) /\ team[t].name \in names}
             next == [doing |-> IF found = {} THEN "seedCreate" ELSE "seedUpdate",
                      entry |-> entry, found |-> found]
  <1>1. Seeded[entry] # Absent /\ Turn(a, next) /\ UNCHANGED <<team, fixture, crossed>>
    BY DEF SeedFind
  <1>2. \A t \in found : t \in Teams /\ team[t] # Absent
    BY DEF Present
  <1> HIDE DEF found
  <1>3. TeamRequest(next, team) /\ RoundRequest(next, fixture, crossed)
    BY <1>1, <1>2 DEF TeamRequest, RoundRequest, Writing
  <1> HIDE DEF next
  <1> QED
    BY <1>1, <1>3, ReadStep

\* What the seed writes.
LEMMA SeededRowType ==
    ASSUME NEW entry \in Teams, Seeded[entry] # Absent,
           NEW variant \in [Kinds -> {"none", "active", "inactive"}]
    PROVE  /\ SeededRow(entry, variant) \in Team
           /\ SeededRow(entry, variant).text
                = SearchText(SeededRow(entry, variant).name, SeededRow(entry, variant).alias)
  <1>1. Seeded[entry].name \in Names /\ Seeded[entry].alias \in Names \cup {Absent}
    BY InputAssumption
  <1>2. SearchText(Seeded[entry].name, Seeded[entry].alias) \in SUBSET Names
    BY <1>1, SearchTextType
  <1> QED
    BY <1>1, <1>2 DEF SeededRow, Team

LEMMA SeedCreateStep ==
    ASSUME FixturesInv, NEW a \in Admins, NEW t \in Teams, SeedCreate(a, t)
    PROVE  FixturesInv'
  <1> DEFINE entry == admin[a].entry
             row == SeededRow(entry, Synced(NoVariants, OnlyDefault))
  <1>1. entry \in Teams /\ Seeded[entry] # Absent
    BY DEF FixturesInv, RequestsInv, TeamRequest, SeedCreate, Does
  <1>2. Synced(NoVariants, OnlyDefault) \in [Kinds -> {"none", "active", "inactive"}]
    BY SyncedType DEF NoVariants
  <1>3. row \in Team /\ row.text = SearchText(row.name, row.alias)
    BY <1>1, <1>2, SeededRowType
  <1>4. /\ team' = team \/ team' = [team EXCEPT ![t] = row]
        /\ Turn(a, [doing |-> "nothing"]) /\ UNCHANGED <<fixture, crossed>>
    BY DEF SeedCreate, Stop
  <1> HIDE DEF row
  <1>5. CASE team' = team
    BY <1>4, <1>5, StoppedRequest, ReadStep
  <1>6. CASE team' = [team EXCEPT ![t] = row]
    BY <1>3, <1>4, <1>6, RowStep, StoppedRequest, TeamsStep
  <1> QED
    BY <1>4, <1>5, <1>6

LEMMA SeedUpdateStep ==
    ASSUME FixturesInv, NEW a \in Admins, NEW t \in Teams, SeedUpdate(a, t)
    PROVE  FixturesInv'
  <1> DEFINE entry == admin[a].entry
             row == SeededRow(entry, team[t].variant)
             next == [doing |-> "seedVariant", of |-> t]
  <1>1. entry \in Teams /\ Seeded[entry] # Absent /\ Present(t)
    BY DEF FixturesInv, RequestsInv, TeamRequest, SeedUpdate, Does, Present
  <1>2. team[t] \in Team /\ team[t].variant \in [Kinds -> {"none", "active", "inactive"}]
    BY <1>1, PresentIsTeam DEF Team
  <1>3. row \in Team /\ row.text = SearchText(row.name, row.alias)
    BY <1>1, <1>2, SeededRowType
  <1>4. UNCHANGED <<fixture, crossed>>
    BY DEF SeedUpdate
  <1>5. \/ team' = team /\ Turn(a, [doing |-> "nothing"])
        \/ team' = [team EXCEPT ![t] = row] /\ Turn(a, next)
    BY DEF SeedUpdate, Stop
  <1> HIDE DEF row
  <1>6. CASE team' = team /\ Turn(a, [doing |-> "nothing"])
    BY <1>4, <1>6, StoppedRequest, ReadStep
  <1>7. CASE team' = [team EXCEPT ![t] = row] /\ Turn(a, next)
    <2>1. /\ team' \in [Teams -> Team \cup {Absent}]
          /\ TextIsOfNames'
          /\ \A u \in Teams : team[u] # Absent => team'[u] # Absent
          /\ team'[t] # Absent
      BY <1>3, <1>7, RowStep
    <2>2. TeamRequest(next, team') /\ RoundRequest(next, fixture, crossed)
      BY <2>1 DEF TeamRequest, RoundRequest, Writing
    <2> HIDE DEF next
    <2> QED
      BY <1>4, <1>7, <2>1, <2>2, TeamsStep
  <1> QED
    BY <1>5, <1>6, <1>7

LEMMA SeedVariantStep ==
    ASSUME FixturesInv, NEW a \in Admins, SeedVariant(a)
    PROVE  FixturesInv'
  <1> DEFINE t == admin[a].of
             row == [team[t] EXCEPT !.variant = [@ EXCEPT ![Default] = "active"]]
  <1>1. t \in Teams /\ Present(t)
    BY DEF FixturesInv, RequestsInv, TeamRequest, SeedVariant, Does, Present
  <1>2. team[t] \in Team
    BY <1>1, PresentIsTeam
  <1>3. team[t].text = SearchText(team[t].name, team[t].alias)
    BY <1>1 DEF FixturesInv, TextIsOfNames
  <1>4. /\ team' = [team EXCEPT ![t] = row]
        /\ Turn(a, [doing |-> "nothing"]) /\ UNCHANGED <<fixture, crossed>>
    BY DEF SeedVariant, Stop
  <1>5. row \in Team /\ row.text = SearchText(row.name, row.alias)
    <2> HIDE DEF t
    <2> QED
      BY <1>2, <1>3 DEF Team
  <1> HIDE DEF row, t
  <1> QED
    BY <1>1, <1>4, <1>5, RowStep, StoppedRequest, TeamsStep

LEMMA FindGeneratedStep ==
    ASSUME FixturesInv, NEW a \in Admins, FindGenerated(a)
    PROVE  FixturesInv'
  <1>1. PICK targets : /\ Turn(a, [doing |-> "cleanUp", targets |-> targets])
                       /\ UNCHANGED <<team, fixture, crossed>>
    BY DEF FindGenerated
  <1> DEFINE next == [doing |-> "cleanUp", targets |-> targets]
  <1>2. TeamRequest(next, team) /\ RoundRequest(next, fixture, crossed)
    BY DEF TeamRequest, RoundRequest, Writing
  <1>3. Turn(a, next)
    BY <1>1
  <1> HIDE DEF next
  <1> QED
    BY <1>1, <1>2, <1>3, ReadStep

LEMMA DeactivateStep ==
    ASSUME FixturesInv, NEW a \in Admins, DeactivateGenerated(a)
    PROVE  FixturesInv'
  <1> DEFINE Left(t) == [k \in Kinds |-> IF [team |-> t, kind |-> k] \in admin[a].targets
                                         THEN "inactive" ELSE team[t].variant[k]]
  <1>1. /\ team' = [t \in Teams |-> IF ~Present(t) THEN Absent
                                    ELSE [team[t] EXCEPT !.variant = Left(t)]]
        /\ Turn(a, [doing |-> "nothing"]) /\ UNCHANGED <<fixture, crossed>>
    BY DEF DeactivateGenerated, Stop
  <1>2. ASSUME NEW t \in Teams, Present(t)
        PROVE  /\ team'[t] \in Team /\ team'[t] # Absent
               /\ team'[t].text = SearchText(team'[t].name, team'[t].alias)
    <2>1. team[t] \in Team /\ team[t].text = SearchText(team[t].name, team[t].alias)
      BY <1>2, PresentIsTeam DEF FixturesInv, TextIsOfNames
    <2>2. Left(t) \in [Kinds -> {"none", "active", "inactive"}]
      BY <2>1 DEF Team
    <2>3. team'[t] = [team[t] EXCEPT !.variant = Left(t)]
      BY <1>1, <1>2
    <2> HIDE DEF Left
    <2>4. team'[t] \in Team /\ team'[t].text = SearchText(team'[t].name, team'[t].alias)
      BY <2>1, <2>2, <2>3 DEF Team
    <2> QED
      BY <2>4, InputAssumption
  <1>3. \A t \in Teams : ~Present(t) => team'[t] = Absent
    BY <1>1
  <1>4. team' = [t \in Teams |-> team'[t]]
    BY <1>1
  <1> HIDE DEF Left
  <1>5. team' \in [Teams -> Team \cup {Absent}]
    BY <1>2, <1>3, <1>4
  <1>6. TextIsOfNames'
    BY <1>2, <1>3 DEF TextIsOfNames, Present
  <1>7. \A t \in Teams : team[t] # Absent => team'[t] # Absent
    BY <1>2 DEF Present
  <1> QED
    BY <1>1, <1>5, <1>6, <1>7, StoppedRequest, TeamsStep

-----------------------------------------------------------------------------
(* FIXTURES: the steps about rounds.                                        *)

\* A list that is well formed has a match at each position.
LEMMA EntriesAreProper ==
    ASSUME NEW list \in Lists, WellFormed(list)
    PROVE  Proper(Entries(list))
  <1> DEFINE N == 1..MatchCount
             position == [i \in N |-> list[i].position]
             item == [i \in N |-> list[i]]
  <1>1. MatchCount \in Nat
    BY FixturesAssumption
  <1>2. DOMAIN list = N /\ \A i \in N : list[i] \in Match
    <2>1. list \in Seq(Match) /\ Len(list) = MatchCount
      BY InputAssumption DEF WellFormed
    <2> QED
      BY <1>1, <2>1
  <1>3. /\ \A i \in N : list[i].position \in N /\ list[i].home # list[i].away
        /\ \A i, j \in N : list[i].position = list[j].position => i = j
    BY <1>2 DEF WellFormed
  <1>4. IsFiniteSet(N) /\ Cardinality(N) = MatchCount
    BY <1>1, FS_Interval
  <1> HIDE DEF N
  <1>5. position \in Injection(N, N)
    BY <1>3 DEF Injection, IsInjective
  <1>6. position \in Surjection(N, N)
    <2> HIDE DEF position
    <2> QED
      BY <1>4, <1>5, FS_Injection
  <1>7. Entries(list) = {list[i] : i \in N}
    BY <1>2 DEF Entries
  <1>8. {m.position : m \in Entries(list)} = N
    <2>1. \A m \in Entries(list) : m.position \in N
      BY <1>3, <1>7
    <2>2. ASSUME NEW n \in N
          PROVE  \E m \in Entries(list) : m.position = n
      <3>1. PICK i \in N : position[i] = n
        BY <1>6 DEF Surjection
      <3> QED
        BY <1>7, <3>1
    <2> QED
      BY <2>1, <2>2
  <1>9. Cardinality(Entries(list)) = MatchCount /\ IsFiniteSet(Entries(list))
    <2>1. item \in Injection(N, Entries(list))
      <3>1. item \in [N -> Entries(list)]
        BY <1>7
      <3>2. \A i, j \in N : item[i] = item[j] => i = j
        BY <1>3
      <3> QED
        BY <3>1, <3>2 DEF Injection, IsInjective
    <2>2. item \in Surjection(N, Entries(list))
      <3>1. item \in [N -> Entries(list)]
        BY <1>7
      <3>2. \A m \in Entries(list) : \E i \in N : item[i] = m
        BY <1>7
      <3> QED
        BY <3>1, <3>2 DEF Surjection
    <2>3. ExistsBijection(N, Entries(list))
      BY <2>1, <2>2 DEF ExistsBijection, Bijection
    <2> QED
      BY <1>4, <2>3, FS_Bijection
  <1>10. Entries(list) \subseteq Match
    BY <1>2, <1>7
  <1>11. \A m \in Entries(list) : m.home # m.away
    BY <1>3, <1>7
  <1> QED
    BY <1>8, <1>9, <1>10, <1>11 DEF Proper, N

\* The first match of a round is at a time.
LEMMA FirstIsTime ==
    ASSUME NEW matches, Proper(matches)
    PROVE  Min(Times(matches)) \in Int
  <1>1. MatchCount \in Nat \ {0}
    BY FixturesAssumption
  <1>2. matches # {} /\ IsFiniteSet(matches)
    <2>1. 1 \in {m.position : m \in matches}
      BY <1>1 DEF Proper
    <2> QED
      BY <2>1 DEF Proper
  <1>3. Times(matches) \subseteq Int /\ Times(matches) # {}
    BY <1>2 DEF Times, Proper, Match
  <1>4. IsFiniteSet(Times(matches))
    <2> DEFINE time == [m \in matches |-> m.time]
    <2>1. time \in Surjection(matches, Times(matches))
      BY DEF Surjection, Times
    <2> HIDE DEF time
    <2> QED
      BY <1>2, <2>1, FS_Surjection
  <1> QED
    BY <1>3, <1>4, LeastIsMember


\* The times that a request comes to.
LEMMA ScheduleType ==
    ASSUME NEW matches, Proper(matches), NEW open \in SetOpens \cup {Absent},
           NEW close \in SetCloses \cup {Absent}
    PROVE  Schedule(matches, open, close) \in Moments
  <1>1. \A t \in Int : Local(Zone, t) \in Int
    BY InputAssumption DEF Local
  <1>2. \A t, c \in Int : Closer(Zone, t, c) \in Int
    BY <1>1 DEF Closer
  <1>3. \A t \in Int : FromLocal(Zone, t) \in Int /\ Midnight(Zone, t) \in Int
    BY <1>1, <1>2 DEF FromLocal, Midnight
  <1>4. Min(Times(matches)) \in Int
    BY FirstIsTime
  <1>5. Derived(Zone, Times(matches)).open \in Int /\ Derived(Zone, Times(matches)).close \in Int
    <2> DEFINE first == Min(Times(matches))
    <2>1. Midnight(Zone, first) - 24 \in Int
      BY <1>3, <1>4
    <2>2. FromLocal(Zone, Midnight(Zone, first) - 24) \in Int
      BY <1>3, <2>1
    <2> QED
      BY <1>4, <2>2 DEF Derived
  <1>6. /\ open # Absent => open \in Int
        /\ close # Absent => close \in Int
    BY FixturesAssumption
  <1> QED
    BY <1>5, <1>6 DEF Schedule, Resolved, Moments

\* A request about a round takes a step that leaves its matches playable.
LEMMA RoundsStep ==
    ASSUME FixturesInv, NEW a \in Admins, NEW next, Turn(a, next),
           UNCHANGED team, crossed \subseteq crossed', crossed' \subseteq 1..MaxNumber,
           fixture' \in [1..MaxNumber -> Fixture \cup {Absent}],
           \A n \in 1..MaxNumber :
             fixture'[n] # Absent => RowIsPlayable(fixture'[n], n \in crossed'),
           TeamRequest(next, team), RoundRequest(next, fixture', crossed'),
           \A b \in Admins \ {a} : RoundRequest(admin[b], fixture, crossed)
                                    => RoundRequest(admin[b], fixture', crossed')
    PROVE  FixturesInv'
  <1>1. /\ admin' = [b \in Admins |-> admin'[b]]
        /\ \A b \in Admins : admin'[b] = IF b = a THEN next ELSE admin[b]
    BY TurnStep DEF FixturesInv
  <1>2. FixturesTypeOK' /\ TextIsOfNames'
    BY DEF FixturesInv, FixturesTypeOK, TextIsOfNames, Present
  <1>3. ASSUME NEW b \in Admins
        PROVE  TeamRequest(admin'[b], team') /\ RoundRequest(admin'[b], fixture', crossed')
    <2>1. CASE b = a
      BY <1>1, <2>1
    <2>2. CASE b # a
      <3>1. TeamRequest(admin[b], team) /\ RoundRequest(admin[b], fixture, crossed)
        BY DEF FixturesInv, RequestsInv
      <3> QED
        BY <1>1, <2>2, <3>1
    <2> QED
      BY <2>1, <2>2
  <1> QED
    BY <1>1, <1>2, <1>3 DEF FixturesInv, RequestsInv

LEMMA StartRoundStep ==
    ASSUME FixturesInv, NEW a \in Admins, NEW list \in Lists,
           NEW open \in SetOpens \cup {Absent}, NEW close \in SetCloses \cup {Absent},
           StartRound(a, list, open, close)
    PROVE  FixturesInv'
  <1> DEFINE IsLast(n) == /\ n = 0 \/ fixture[n] # Absent
                          /\ \A m \in (n + 1)..MaxNumber : fixture[m] = Absent
             last == CHOOSE n \in 0..MaxNumber : IsLast(n)
             matches == Entries(list)
             times == Schedule(matches, open, close)
             next == [doing |-> "create", number |-> last + 1, matches |-> matches,
                      times |-> times]
  <1>1. /\ WellFormed(list) /\ Playable(matches, open, close) /\ last < MaxNumber
        /\ Turn(a, next) /\ UNCHANGED <<team, fixture, crossed>>
    BY DEF StartRound
  <1>2. MaxNumber \in Nat
    BY FixturesAssumption
  <1>3. last \in 0..MaxNumber
    <2> DEFINE rounds == {n \in 1..MaxNumber : fixture[n] # Absent}
    <2>1. \E n \in 0..MaxNumber : IsLast(n)
      <3>1. CASE rounds = {}
        BY <1>2, <3>1
      <3>2. CASE rounds # {}
        <4>1. Max(rounds) \in rounds /\ \A n \in rounds : n <= Max(rounds)
          BY <1>2, <3>2, MaxIsMember
        <4>2. \A m \in (Max(rounds) + 1)..MaxNumber : fixture[m] = Absent
          BY <1>2, <4>1
        <4> QED
          BY <1>2, <4>1, <4>2
      <3> QED
        BY <3>1, <3>2
    <2> HIDE DEF IsLast
    <2> QED
      BY <2>1
  <1>4. Proper(matches)
    BY <1>1, EntriesAreProper
  <1>5. times \in Moments /\ Suits(times, matches)
    BY <1>1, <1>4, ScheduleType DEF Playable, Suits
  <1>6. last + 1 \in 1..MaxNumber
    <2> HIDE DEF last
    <2> QED
      BY <1>1, <1>2, <1>3
  <1> HIDE DEF last, matches, times
  <1>7. next \in RoundDoc
    BY <1>4, <1>5, <1>6 DEF RoundDoc, Proper, Writing
  <1>8. TeamRequest(next, team) /\ RoundRequest(next, fixture, crossed)
    BY <1>4, <1>5, <1>7 DEF TeamRequest, RoundRequest, Writing
  <1> HIDE DEF next
  <1> QED
    BY <1>1, <1>8, ReadStep

LEMMA FindTeamsStep ==
    ASSUME FixturesInv, NEW a \in Admins, FindTeams(a)
    PROVE  FixturesInv'
  <1> DEFINE doc == admin[a]
             next == [doc EXCEPT !.doing = IF @ = "create" THEN "insert" ELSE "replace"]
  <1>1. /\ doc.doing \in {"create", "edit"} /\ UNCHANGED <<team, fixture, crossed>>
        /\ Turn(a, next) \/ Turn(a, [doing |-> "nothing"])
    BY DEF FindTeams, Stop
  <1>2. /\ doc \in RoundDoc /\ Proper(doc.matches) /\ Suits(doc.times, doc.matches)
        /\ doc.doing = "edit" => fixture[doc.number] # Absent
    BY <1>1 DEF FixturesInv, RequestsInv, RoundRequest, Writing
  <1>3. /\ next.doing = IF doc.doing = "create" THEN "insert" ELSE "replace"
        /\ next.number = doc.number /\ next.matches = doc.matches /\ next.times = doc.times
        /\ next \in RoundDoc
    BY <1>2 DEF RoundDoc, Writing
  <1> HIDE DEF doc, next
  <1>4. TeamRequest(next, team) /\ RoundRequest(next, fixture, crossed)
    BY <1>1, <1>2, <1>3 DEF TeamRequest, RoundRequest, Writing
  <1> QED
    BY <1>1, <1>4, StoppedRequest, ReadStep

\* A row is a row of the table.
LEMMA RowType ==
    ASSUME NEW times \in Moments, NEW matches, Proper(matches)
    PROVE  /\ [status |-> "DRAFT", open |-> times.open, close |-> times.close,
               matches |-> matches] \in Fixture
           /\ [status |-> "DRAFT", open |-> times.open, close |-> times.close,
               matches |-> matches] # Absent
  BY InputAssumption DEF Moments, Proper, Fixture

LEMMA InsertRoundStep ==
    ASSUME FixturesInv, NEW a \in Admins, InsertRound(a)
    PROVE  FixturesInv'
  <1> DEFINE doc == admin[a]
             row == [status |-> "DRAFT", open |-> doc.times.open,
                     close |-> doc.times.close, matches |-> doc.matches]
  <1>1. /\ doc.doing = "insert" /\ UNCHANGED <<team, crossed>>
        /\ Turn(a, [doing |-> "nothing"])
        /\ fixture' = IF fixture[doc.number] # Absent THEN fixture
                      ELSE [fixture EXCEPT ![doc.number] = row]
    BY DEF InsertRound, Stop, Does
  <1>2. /\ doc \in RoundDoc /\ Proper(doc.matches) /\ Suits(doc.times, doc.matches)
        /\ doc.number \in 1..MaxNumber /\ doc.times \in Moments
    BY <1>1 DEF FixturesInv, RequestsInv, RoundRequest, Writing, RoundDoc
  <1>3. row \in Fixture /\ row # Absent
    BY <1>2, RowType
  <1>4. row.matches = doc.matches /\ row.open = doc.times.open /\ row.close = doc.times.close
    OBVIOUS
  <1> HIDE DEF row, doc
  <1>5. RowIsPlayable(row, FALSE)
    BY <1>2, <1>4 DEF RowIsPlayable, Suits, Accepted
  <1>6. fixture \in [1..MaxNumber -> Fixture \cup {Absent}] /\ crossed \subseteq 1..MaxNumber
    BY DEF FixturesInv, FixturesTypeOK
  <1>7. ASSUME NEW n \in 1..MaxNumber
        PROVE  \/ fixture'[n] = fixture[n]
               \/ fixture[n] = Absent /\ fixture'[n] = row
    BY <1>1, <1>2, <1>6
  <1>8. fixture' \in [1..MaxNumber -> Fixture \cup {Absent}]
    BY <1>1, <1>3, <1>6
  <1>9. \A n \in 1..MaxNumber : fixture'[n] # Absent => RowIsPlayable(fixture'[n], n \in crossed')
    BY <1>1, <1>5, <1>7 DEF FixturesInv, RowIsPlayable
  <1>10. ASSUME NEW b \in Admins, RoundRequest(admin[b], fixture, crossed)
         PROVE  RoundRequest(admin[b], fixture', crossed')
    <2>1. \A n \in 1..MaxNumber : fixture[n] # Absent => fixture'[n] = fixture[n]
      BY <1>7
    <2> QED
      BY <1>1, <1>10, <2>1 DEF RoundRequest, Writing, RoundDoc
  <1> QED
    BY <1>1, <1>6, <1>8, <1>9, <1>10, StoppedRequest, RoundsStep

LEMMA StartEditStep ==
    ASSUME FixturesInv, NEW a \in Admins, NEW n \in 1..MaxNumber, NEW list \in Lists,
           NEW open \in SetOpens \cup {Absent}, NEW close \in SetCloses \cup {Absent},
           StartEdit(a, n, list, open, close)
    PROVE  FixturesInv'
  <1> DEFINE matches == Entries(list)
             times == Schedule(matches, open, close)
             next == [doing |-> "edit", number |-> n, matches |-> matches, times |-> times]
  <1>1. /\ fixture[n] # Absent /\ WellFormed(list) /\ Playable(matches, open, close)
        /\ Turn(a, next) /\ UNCHANGED <<team, fixture, crossed>>
    BY DEF StartEdit, Draft, NewMatches
  <1>2. Proper(matches)
    BY <1>1, EntriesAreProper
  <1>3. times \in Moments /\ Suits(times, matches)
    BY <1>1, <1>2, ScheduleType DEF Playable, Suits
  <1> HIDE DEF matches, times
  <1>4. next \in RoundDoc
    BY <1>2, <1>3 DEF RoundDoc, Proper, Writing
  <1>5. TeamRequest(next, team) /\ RoundRequest(next, fixture, crossed)
    BY <1>1, <1>2, <1>3, <1>4 DEF TeamRequest, RoundRequest, Writing
  <1> HIDE DEF next
  <1> QED
    BY <1>1, <1>5, ReadStep

LEMMA StartRescheduleStep ==
    ASSUME FixturesInv, NEW a \in Admins, NEW n \in 1..MaxNumber,
           NEW open \in SetOpens \cup {Absent}, NEW close \in SetCloses \cup {Absent},
           StartReschedule(a, n, open, close)
    PROVE  FixturesInv'
  <1> DEFINE matches == fixture[n].matches
             times == Schedule(matches, open, close)
             next == [doing |-> "reschedule", number |-> n, times |-> times]
  <1>1. /\ fixture[n] # Absent /\ Playable(matches, open, close)
        /\ Turn(a, next) /\ UNCHANGED <<team, fixture, crossed>>
    BY DEF StartReschedule, Draft
  <1>2. Proper(matches)
    BY <1>1 DEF FixturesInv, RowIsPlayable
  <1>3. times \in Moments /\ Suits(times, fixture[n].matches)
    BY <1>1, <1>2, ScheduleType DEF Playable, Suits
  <1> HIDE DEF times
  <1>4. TeamRequest(next, team) /\ RoundRequest(next, fixture, crossed)
    BY <1>1, <1>3 DEF TeamRequest, RoundRequest, Writing
  <1> HIDE DEF next
  <1> QED
    BY <1>1, <1>4, ReadStep

\* New times, and a row that has them.
LEMMA TimedRow ==
    ASSUME NEW row \in Fixture, NEW times \in Moments
    PROVE  /\ Timed(row, times) \in Fixture /\ Timed(row, times) # Absent
           /\ Timed(row, times).open = times.open /\ Timed(row, times).close = times.close
           /\ Timed(row, times).matches = row.matches
  <1>1. Timed(row, times) \in Fixture
    BY DEF Timed, Fixture, Moments
  <1>2. Absent \notin Fixture
    BY InputAssumption
  <1> QED
    BY <1>1, <1>2 DEF Timed, Fixture

LEMMA ReplaceMatchesStep ==
    ASSUME FixturesInv, NEW a \in Admins, ReplaceMatches(a)
    PROVE  FixturesInv'
  <1> DEFINE doc == admin[a]
             k == doc.number
             timed == Timed(fixture[k], doc.times)
             row == [timed EXCEPT !.matches = doc.matches]
             editing == \E b \in Admins : Does(b, "reschedule") /\ admin[b].number = k
  <1>1. /\ doc.doing = "replace" /\ UNCHANGED team
        /\ Turn(a, [doing |-> "nothing"])
        /\ fixture' = [fixture EXCEPT ![k] = row]
        /\ crossed' = IF editing THEN crossed \cup {k} ELSE crossed
    BY DEF ReplaceMatches, Stop, Does
  <1>2. /\ doc \in RoundDoc /\ Proper(doc.matches) /\ Suits(doc.times, doc.matches)
        /\ k \in 1..MaxNumber /\ doc.times \in Moments /\ fixture[k] # Absent
    BY <1>1 DEF FixturesInv, RequestsInv, RoundRequest, Writing, RoundDoc
  <1>3. fixture \in [1..MaxNumber -> Fixture \cup {Absent}] /\ crossed \subseteq 1..MaxNumber
    BY DEF FixturesInv, FixturesTypeOK
  <1>4. /\ timed \in Fixture
        /\ timed.open = doc.times.open /\ timed.close = doc.times.close
    BY <1>2, <1>3, TimedRow
  <1>5. /\ row \in Fixture /\ row.matches = doc.matches
        /\ row.open = doc.times.open /\ row.close = doc.times.close
    <2> HIDE DEF timed, doc
    <2> QED
      BY <1>2, <1>4 DEF Fixture, Proper
  <1>6. row # Absent
    BY <1>5, InputAssumption
  <1> HIDE DEF row, timed
  <1>7. RowIsPlayable(row, FALSE)
    BY <1>2, <1>5 DEF RowIsPlayable, Suits, Accepted
  <1>8. \A n \in 1..MaxNumber : fixture'[n] = IF n = k THEN row ELSE fixture[n]
    BY <1>1, <1>2, <1>3
  <1>9. fixture' \in [1..MaxNumber -> Fixture \cup {Absent}]
    BY <1>1, <1>3, <1>5
  <1>10. \A n \in 1..MaxNumber : fixture'[n] # Absent => RowIsPlayable(fixture'[n], n \in crossed')
    BY <1>1, <1>7, <1>8 DEF FixturesInv, RowIsPlayable
  <1>11. ASSUME NEW b \in Admins, RoundRequest(admin[b], fixture, crossed)
         PROVE  RoundRequest(admin[b], fixture', crossed')
    <2>1. admin[b].doing = "reschedule" /\ admin[b].number = k => k \in crossed'
      BY <1>1 DEF Does
    <2>2. crossed \subseteq crossed'
      BY <1>1
    <2> HIDE DEF editing, k, doc
    <2> QED
      BY <1>6, <1>8, <1>11, <2>1, <2>2 DEF RoundRequest, Writing, RoundDoc
  <1>12. crossed \subseteq crossed' /\ crossed' \subseteq 1..MaxNumber
    BY <1>1, <1>2, <1>3
  <1> QED
    BY <1>1, <1>9, <1>10, <1>11, <1>12, StoppedRequest, RoundsStep

LEMMA RescheduleStep ==
    ASSUME FixturesInv, NEW a \in Admins, Reschedule(a)
    PROVE  FixturesInv'
  <1> DEFINE doc == admin[a]
             k == doc.number
             row == Timed(fixture[k], doc.times)
  <1>1. /\ doc.doing = "reschedule" /\ UNCHANGED <<team, crossed>>
        /\ Turn(a, [doing |-> "nothing"])
        /\ fixture' = [fixture EXCEPT ![k] = row]
    BY DEF Reschedule, Stop, Does
  <1>2. /\ k \in 1..MaxNumber /\ doc.times \in Moments /\ fixture[k] # Absent
        /\ k \notin crossed => Suits(doc.times, fixture[k].matches)
    BY <1>1 DEF FixturesInv, RequestsInv, RoundRequest, Writing
  <1>3. fixture \in [1..MaxNumber -> Fixture \cup {Absent}] /\ crossed \subseteq 1..MaxNumber
    BY DEF FixturesInv, FixturesTypeOK
  <1>4. /\ row \in Fixture /\ row # Absent /\ row.matches = fixture[k].matches
        /\ row.open = doc.times.open /\ row.close = doc.times.close
    BY <1>2, <1>3, TimedRow
  <1> HIDE DEF row
  <1>5. RowIsPlayable(row, k \in crossed)
    BY <1>2, <1>4 DEF FixturesInv, RowIsPlayable, Suits, Accepted
  <1>6. \A n \in 1..MaxNumber : fixture'[n] = IF n = k THEN row ELSE fixture[n]
    BY <1>1, <1>2, <1>3
  <1>7. fixture' \in [1..MaxNumber -> Fixture \cup {Absent}]
    BY <1>1, <1>3, <1>4
  <1>8. \A n \in 1..MaxNumber : fixture'[n] # Absent => RowIsPlayable(fixture'[n], n \in crossed')
    BY <1>1, <1>5, <1>6 DEF FixturesInv
  <1>9. ASSUME NEW b \in Admins, RoundRequest(admin[b], fixture, crossed)
        PROVE  RoundRequest(admin[b], fixture', crossed')
    <2> HIDE DEF k, doc
    <2> QED
      BY <1>1, <1>4, <1>6, <1>9 DEF RoundRequest, Writing, RoundDoc
  <1> QED
    BY <1>1, <1>3, <1>7, <1>8, <1>9, StoppedRequest, RoundsStep

LEMMA OpenFixtureStep ==
    ASSUME FixturesInv, NEW k \in 1..MaxNumber, OpenFixture(k)
    PROVE  FixturesInv'
  <1> DEFINE row == [fixture[k] EXCEPT !.status = "OPEN"]
  <1>1. /\ fixture[k] # Absent /\ UNCHANGED <<team, admin, crossed>>
        /\ fixture' = [fixture EXCEPT ![k] = row]
    BY DEF OpenFixture, Draft
  <1>2. fixture \in [1..MaxNumber -> Fixture \cup {Absent}]
    BY DEF FixturesInv, FixturesTypeOK
  <1>3. /\ row \in Fixture /\ row.matches = fixture[k].matches
        /\ row.open = fixture[k].open /\ row.close = fixture[k].close
    <2>1. fixture[k] \in Fixture
      BY <1>1, <1>2
    <2> QED
      BY <2>1 DEF Fixture
  <1>4. row # Absent
    BY <1>3, InputAssumption
  <1> HIDE DEF row
  <1>5. \A n \in 1..MaxNumber : fixture'[n] = IF n = k THEN row ELSE fixture[n]
    BY <1>1, <1>2
  <1>6. FixturesTypeOK' /\ TextIsOfNames'
    BY <1>1, <1>2, <1>3 DEF FixturesInv, FixturesTypeOK, TextIsOfNames, Present
  <1>7. (\A n \in 1..MaxNumber : fixture[n] # Absent => RowIsPlayable(fixture[n], n \in crossed))'
    BY <1>1, <1>3, <1>5 DEF FixturesInv, RowIsPlayable, Suits, Accepted
  <1>8. ASSUME NEW b \in Admins
        PROVE  TeamRequest(admin[b], team) /\ RoundRequest(admin[b], fixture', crossed)
    <2>1. TeamRequest(admin[b], team) /\ RoundRequest(admin[b], fixture, crossed)
      BY DEF FixturesInv, RequestsInv
    <2> QED
      BY <1>3, <1>4, <1>5, <2>1 DEF RoundRequest, Writing, RoundDoc
  <1> QED
    BY <1>1, <1>6, <1>7, <1>8 DEF FixturesInv, RequestsInv

-----------------------------------------------------------------------------
(* FIXTURES: the theorems.                                                  *)

LEMMA FixturesInvInit ==
    ASSUME FixturesInit
    PROVE  FixturesInv
  BY DEF FixturesInit, FixturesInv, FixturesTypeOK, TextIsOfNames, RequestsInv, Present,
         TeamRequest, RoundRequest, Writing

LEMMA FixturesInvStep ==
    ASSUME FixturesInv, [FixturesNext]_fixtureVars
    PROVE  FixturesInv'
  <1>1. CASE UNCHANGED fixtureVars
    BY <1>1 DEF fixtureVars, FixturesInv, FixturesTypeOK, TextIsOfNames, RequestsInv, Present
  <1>2. CASE \E t \in Teams, sent \in NewTeams : CreateTeam(t, sent)
    BY <1>2, CreateTeamStep
  <1>3. CASE \E a \in Admins, t \in Teams :
               \/ \E sent \in Changes : ReadTeam(a, t, sent)
               \/ SeedFind(a, t) \/ SeedCreate(a, t) \/ SeedUpdate(a, t)
    BY <1>3, ReadTeamStep, SeedFindStep, SeedCreateStep, SeedUpdateStep
  <1>4. CASE \E a \in Admins, list \in Lists, open \in SetOpens \cup {Absent},
                close \in SetCloses \cup {Absent} :
               \/ StartRound(a, list, open, close)
               \/ \E n \in 1..MaxNumber : StartEdit(a, n, list, open, close)
    BY <1>4, StartRoundStep, StartEditStep
  <1>5. CASE \E a \in Admins, n \in 1..MaxNumber, open \in SetOpens \cup {Absent},
                close \in SetCloses \cup {Absent} :
               StartReschedule(a, n, open, close)
    BY <1>5, StartRescheduleStep
  <1>6. ASSUME NEW a \in Admins, GiveUp(a)
        PROVE  FixturesInv'
    BY <1>6, StoppedRequest, ReadStep DEF GiveUp, Stop
  <1>7. CASE \E a \in Admins :
               \/ WriteTeam(a) \/ SeedVariant(a) \/ FindGenerated(a) \/ DeactivateGenerated(a)
               \/ FindTeams(a) \/ InsertRound(a) \/ ReplaceMatches(a) \/ Reschedule(a)
               \/ GiveUp(a)
    BY <1>6, <1>7, WriteTeamStep, SeedVariantStep, FindGeneratedStep, DeactivateStep,
       FindTeamsStep, InsertRoundStep, ReplaceMatchesStep, RescheduleStep
  <1>8. CASE \E n \in 1..MaxNumber : OpenFixture(n)
    BY <1>8, OpenFixtureStep
  <1> QED
    BY <1>1, <1>2, <1>3, <1>4, <1>5, <1>7, <1>8 DEF FixturesNext

LEMMA FixturesInvHolds == FixturesSpec => []FixturesInv
  <1>1. FixturesInit => FixturesInv
    BY FixturesInvInit
  <1>2. FixturesInv /\ [FixturesNext]_fixtureVars => FixturesInv'
    BY FixturesInvStep
  <1> QED
    BY <1>1, <1>2, PTL DEF FixturesSpec

\* Teams, rounds and their matches keep their types, whichever requests overlap.
THEOREM FixturesTypeCorrect == FixturesSpec => []FixturesTypeOK
  <1>1. FixturesInv => FixturesTypeOK
    BY DEF FixturesInv
  <1> QED
    BY <1>1, FixturesInvHolds, PTL

\* An active team is found under each of its names and no other, however updates and
\* seeds overlap: each writes every name together with the text that it makes of them.
THEOREM TeamsAreFoundByName == FixturesSpec => []SearchFindsNames
  <1>1. ASSUME FixturesInv
        PROVE  SearchFindsNames
    <2> SUFFICES ASSUME NEW t \in Teams, Present(t), team[t].active,
                        ActiveKinds(t, Kinds) # {}, NEW name \in Names
                 PROVE  /\ t \in TeamGroups(name, Kinds) <=> name \in {team[t].name, team[t].alias}
                        /\ t \in TeamGroups(name, Kinds) <=>
                             \E v \in TeamVariants(name) : v.team = t
      BY DEF SearchFindsNames
    <2>1. team[t].text = {team[t].name, team[t].alias} \ {Absent}
      BY <1>1 DEF FixturesInv, TextIsOfNames, SearchText
    <2>2. name # Absent
      BY FixturesAssumption
    <2>3. t \in TeamGroups(name, Kinds) <=> name \in team[t].text
      BY <2>2 DEF TeamGroups
    <2>4. PICK k \in Kinds : team[t].variant[k] = "active"
      BY DEF ActiveKinds
    <2>5. ASSUME t \in TeamGroups(name, Kinds)
          PROVE  \E v \in TeamVariants(name) : v.team = t
      <3> DEFINE v == [team |-> t, kind |-> k]
      <3>1. v \in Variant /\ v.team = t /\ v.kind = k
        BY DEF Variant
      <3> HIDE DEF v
      <3> QED
        BY <2>4, <2>5, <3>1 DEF TeamVariants
    <2>6. ASSUME NEW v \in TeamVariants(name), v.team = t
          PROVE  t \in TeamGroups(name, Kinds)
      BY <2>6 DEF TeamVariants
    <2> QED
      BY <2>1, <2>2, <2>3, <2>5, <2>6
  <1> QED
    BY <1>1, FixturesInvHolds, PTL

\* A round has a match at each position, of two sides each, and closes no later than
\* the first begins, for any lists, times and requests that overlap, unless the matches
\* were replaced under an edit of the times alone.
THEOREM RoundsStayPlayable == FixturesSpec => []RoundsArePlayable
  <1>1. FixturesInv => RoundsArePlayable
    BY DEF FixturesInv, RoundsArePlayable, RowIsPlayable, Proper, Suits
  <1> QED
    BY <1>1, FixturesInvHolds, PTL

-----------------------------------------------------------------------------
(* RULES: the questions about dates.                                        *)

Renewals == [about : {"renewal"}, date : Dates, other : Dates, months : 1..12]
Schedules == [about : {"schedule"}, zone : Zones, matches : MatchTimes,
              open : Hours \cup {Unset}, close : Hours \cup {Unset}]

DatesAsked ==
    /\ question.about = "renewal" => question \in Renewals
    /\ question.about = "schedule" => question \in Schedules

LEMMA DatesAskedHolds == RulesSpec => []DatesAsked
  <1>1. Unasked => DatesAsked
    BY DEF Unasked, DatesAsked
  <1>2. ASSUME DatesAsked, [Asking]_question
        PROVE  DatesAsked'
    <2>1. CASE AskRenewal
      <3>1. PICK date \in Dates, other \in Dates, months \in 1..12 :
              question' = [about |-> "renewal", date |-> date, other |-> other, months |-> months]
        BY <2>1 DEF AskRenewal, Asks
      <3> QED
        BY <3>1 DEF DatesAsked, Renewals
    <2>2. CASE AskSchedule
      <3>1. PICK zone \in Zones, matches \in MatchTimes, open \in Hours \cup {Unset},
                 close \in Hours \cup {Unset} :
              question' = [about |-> "schedule", zone |-> zone, matches |-> matches,
                           open |-> open, close |-> close]
        BY <2>2 DEF AskSchedule, Asks
      <3> QED
        BY <3>1 DEF DatesAsked, Schedules
    <2>3. CASE AskPositions \/ AskPayouts \/ AskPeriod \/ AskSearch \/ AskPanel
      <3>1. question'.about \in {"positions", "payouts", "period", "search", "panel"}
        BY <2>3 DEF AskPositions, AskPayouts, AskPeriod, AskSearch, AskPanel, Asks
      <3> QED
        BY <3>1 DEF DatesAsked
    <2>4. CASE UNCHANGED question
      BY <1>2, <2>4 DEF DatesAsked
    <2> QED
      BY <1>2, <2>1, <2>2, <2>3, <2>4 DEF Asking
  <1> QED
    BY <1>1, <1>2, PTL DEF RulesSpec

-----------------------------------------------------------------------------
(* THE SCHEDULE OF A ROUND.                                                 *)

\* An attempt lands on the wanted time less an offset; so the second one is at the
\* moment that is called so, if there is one, and the third stays there.
LEMMA FromLocalFinds ==
    ASSUME NEW change \in Int, NEW before \in Int, NEW after \in Int, NEW w \in Int,
           NEW zone, zone = [change |-> change, before |-> before, after |-> after]
    PROVE  /\ FromLocal(zone, w) \in {w - before, w - after}
           /\ (\E t \in Int : Local(zone, t) = w) => Local(zone, FromLocal(zone, w)) = w
  <1> DEFINE f(x) == IF x < change THEN w - before ELSE w - after
  <1>1. \A x \in Int : Closer(zone, w, x) = f(x)
    BY DEF Closer, Local
  <1>2. \A x \in Int : f(x) \in Int
    OBVIOUS
  <1>3. FromLocal(zone, w) = f(f(f(w)))
    <2> HIDE DEF f
    <2> QED
      BY <1>1, <1>2 DEF FromLocal
  <1>4. \A x \in Int : Local(zone, x) = w <=> f(x) = x
    BY DEF Local
  <1>5. ASSUME NEW t \in Int, f(t) = t
        PROVE  f(f(f(f(w)))) = f(f(f(w)))
    BY <1>5
  <1>6. f(f(f(w))) \in {w - before, w - after}
    OBVIOUS
  <1>7. f(f(f(w))) \in Int
    BY <1>6
  <1> HIDE DEF f
  <1> QED
    BY <1>3, <1>4, <1>5, <1>6, <1>7

\* The schedule that is derived: it opens on the day before, wherever the clocks move.
LEMMA DerivedIsPlayable ==
    ASSUME NEW zone \in Zones, NEW matches \in MatchTimes
    PROVE  LET first == Min(matches)
               wanted == Midnight(zone, first) - 24
               derived == Derived(zone, matches)
           IN  /\ first \in Int /\ wanted \in Int
               /\ derived.close = first - 1 /\ derived.open \in Int
               /\ derived.open <= first - 23
               /\ (\E t \in Int : Local(zone, t) = wanted) => Local(zone, derived.open) = wanted
  <1> DEFINE first == Min(matches)
             change == zone.change
             before == zone.before
             after == zone.after
             wanted == Midnight(zone, first) - 24
             open == FromLocal(zone, wanted)
  <1>1. first \in Int
    BY LeastIsMember, RulesAssumption
  <1>2. /\ change \in Int /\ before \in Int /\ after \in Int
        /\ after - before \in -1..1
        /\ zone = [change |-> change, before |-> before, after |-> after]
    BY RulesAssumption
  <1> HIDE DEF first, change, before, after
  <1>3. Local(zone, first) \in Int /\ Local(zone, first) \in {first + before, first + after}
    BY <1>1, <1>2 DEF Local
  <1>4. wanted \in Int /\ wanted <= Local(zone, first) - 24
    <2> DEFINE l == Local(zone, first)
    <2>1. l \in Int
      BY <1>3
    <2>2. wanted = 24 * (l \div 24) - 24
      BY DEF Midnight
    <2> HIDE DEF l, wanted
    <2>3. wanted \in Int /\ wanted <= l - 24
      BY <2>1, <2>2
    <2> QED
      BY <2>3 DEF l
  <1> HIDE DEF wanted
  <1>5. /\ open \in {wanted - before, wanted - after}
        /\ (\E t \in Int : Local(zone, t) = wanted) => Local(zone, open) = wanted
    BY <1>2, <1>4, FromLocalFinds
  <1> HIDE DEF open
  <1>6. open \in Int /\ open <= first - 23
    BY <1>1, <1>2, <1>3, <1>4, <1>5
  <1>7. Derived(zone, matches).open = open /\ Derived(zone, matches).close = first - 1
    BY DEF Derived, first, wanted, open
  <1> QED
    BY <1>1, <1>4, <1>5, <1>6, <1>7 DEF first, wanted

LEMMA AskedScheduleIsPlayable ==
    ASSUME DatesAsked
    PROVE  ScheduleIsPlayable
  <1> SUFFICES ASSUME question.about = "schedule", question.open = Unset
               PROVE  ScheduleIsPlayable
    BY DEF ScheduleIsPlayable
  <1> DEFINE zone == question.zone
             matches == question.matches
             close == question.close
             first == Min(matches)
             wanted == Midnight(zone, first) - 24
             derived == Derived(zone, matches)
             schedule == Resolved(zone, matches, Unset, close, Unset)
  <1>1. zone \in Zones /\ matches \in MatchTimes /\ close \in Hours \cup {Unset}
    BY DEF DatesAsked, Schedules
  <1> HIDE DEF zone, matches, close
  <1>2. /\ first \in Int /\ wanted \in Int
        /\ derived.close = first - 1 /\ derived.open \in Int
        /\ derived.open <= first - 23
        /\ (\E t \in Int : Local(zone, t) = wanted) => Local(zone, derived.open) = wanted
    BY <1>1, DerivedIsPlayable
  <1>3. /\ schedule.open = derived.open
        /\ schedule.close = IF close = Unset THEN derived.close ELSE close
    BY DEF Resolved
  <1> HIDE DEF schedule, derived, first, wanted
  <1>4. (\E t \in (wanted - 24)..(wanted + 24) : Local(zone, t) = wanted)
          => Local(zone, schedule.open) = wanted
    BY <1>2, <1>3
  <1>5. close = Unset => schedule.close - schedule.open >= 22
    BY <1>2, <1>3
  <1>6. close = Unset \/ close \in (first - 22)..first =>
          schedule.open < schedule.close /\ schedule.close <= first
    <2>1. close # Unset => close \in Int
      BY <1>1, RulesAssumption
    <2> QED
      BY <1>2, <1>3, <2>1
  <1>7. close = Unset \/ close \in (first - 22)..first => Accepted(schedule, matches)
    BY <1>6 DEF Accepted, first
  <1> QED
    BY <1>4, <1>5, <1>7 DEF ScheduleIsPlayable, schedule, first, wanted, zone, matches, close

-----------------------------------------------------------------------------
(* CALENDAR MONTHS.                                                         *)

Date == [year : Int, month : 1..12, day : 1..31]
MonthIndex(d) == 12 * d.year + d.month

LEMMA LastDayType ==
    ASSUME NEW y \in Int, NEW m \in 1..12
    PROVE  LastDay(y, m) \in 28..31
  <1>1. CASE m = 2
    BY <1>1 DEF LastDay
  <1>2. CASE m \in {4, 6, 9, 11}
    BY <1>2 DEF LastDay
  <1>3. CASE m \notin {2, 4, 6, 9, 11}
    BY <1>3 DEF LastDay
  <1> QED
    BY <1>1, <1>2, <1>3

LEMMA LeastOfTwo ==
    ASSUME NEW a \in Int, NEW b \in Int
    PROVE  Min({a, b}) = IF a <= b THEN a ELSE b
  <1>1. IsFiniteSet({a, b})
    <2>1. {a} \cup {b} = {a, b}
      OBVIOUS
    <2>2. IsFiniteSet({a})
      BY FS_Singleton
    <2>3. IsFiniteSet({a} \cup {b})
      BY <2>2, FS_AddElement
    <2> QED
      BY <2>1, <2>3
  <1>2. Min({a, b}) \in {a, b} /\ \A s \in {a, b} : Min({a, b}) <= s
    BY <1>1, LeastIsMember
  <1> QED
    BY <1>2

\* Months are counted through, over the ends of years.
LEMMA MonthCounts ==
    ASSUME NEW date \in Date, NEW n \in Nat
    PROVE  /\ Month(date, n).year \in Int /\ Month(date, n).month \in 1..12
           /\ MonthIndex(Month(date, n)) = MonthIndex(date) + n
  <1> DEFINE y == date.year
             k == date.month - 1 + n
             q == k \div 12
             r == k % 12
  <1>1. y \in Int /\ k \in Int
    BY DEF Date
  <1>2. q \in Int /\ r \in 0..11 /\ k = 12 * q + r
    <2> HIDE DEF k
    <2> QED
      BY <1>1
  <1>3. Month(date, n).year = y + q /\ Month(date, n).month = r + 1
    BY DEF Month
  <1>4. date.month \in Int /\ date.month = k + 1 - n
    BY DEF Date
  <1> HIDE DEF y, k, q, r
  <1>5. MonthIndex(Month(date, n)) = 12 * (y + q) + (r + 1)
    BY <1>3 DEF MonthIndex
  <1>6. MonthIndex(date) = 12 * y + date.month
    BY DEF MonthIndex, y
  <1> QED
    BY <1>1, <1>2, <1>3, <1>4, <1>5, <1>6

\* The end of a subscription: in its month, on its day or on the last one.
LEMMA AddedMonths ==
    ASSUME NEW date \in Date, NEW n \in Nat
    PROVE  LET end == AddMonths(date, n)
               last == LastDay(end.year, end.month)
           IN  /\ end \in Date /\ last \in 28..31
               /\ MonthIndex(end) = MonthIndex(date) + n
               /\ end.day = IF date.day <= last THEN date.day ELSE last
  <1> DEFINE m == Month(date, n)
             last == LastDay(m.year, m.month)
             end == AddMonths(date, n)
  <1>1. m.year \in Int /\ m.month \in 1..12 /\ MonthIndex(m) = MonthIndex(date) + n
    BY MonthCounts
  <1>2. last \in 28..31
    BY <1>1, LastDayType
  <1>3. end = [year |-> m.year, month |-> m.month, day |-> Min({date.day, last})]
    BY DEF AddMonths
  <1>4. date.day \in 1..31
    BY DEF Date
  <1> HIDE DEF m, last, end
  <1>5. Min({date.day, last}) = IF date.day <= last THEN date.day ELSE last
    BY <1>2, <1>4, LeastOfTwo
  <1>6. Min({date.day, last}) \in 1..31
    BY <1>2, <1>4, <1>5
  <1>7. end.year = m.year /\ end.month = m.month /\ end.day = Min({date.day, last})
    BY <1>3
  <1>8. end \in Date
    BY <1>1, <1>3, <1>6 DEF Date
  <1>9. MonthIndex(end) = MonthIndex(date) + n
    BY <1>1, <1>7 DEF MonthIndex
  <1>10. last = LastDay(end.year, end.month)
    BY <1>7 DEF last
  <1> QED
    BY <1>2, <1>5, <1>7, <1>8, <1>9, <1>10 DEF end

\* Dates of one month differ in their days, and the others as their months do.
LEMMA EarlierByMonth ==
    ASSUME NEW a \in Date, NEW b \in Date
    PROVE  /\ Earlier(a, b) <=> \/ MonthIndex(a) < MonthIndex(b)
                                \/ MonthIndex(a) = MonthIndex(b) /\ a.day < b.day
           /\ MonthIndex(a) = MonthIndex(b) => a.year = b.year /\ a.month = b.month
           /\ MonthIndex(a) \in Int /\ MonthIndex(b) \in Int
           /\ a.day \in 1..31 /\ b.day \in 1..31
  <1>1. /\ a.year \in Int /\ a.month \in 1..12 /\ a.day \in 1..31
        /\ b.year \in Int /\ b.month \in 1..12 /\ b.day \in 1..31
    BY DEF Date
  <1> QED
    BY <1>1 DEF Earlier, MonthIndex

\* The chain of monthly payments.
Chained(date, n, f) == f = [k \in 0..n |-> IF k = 0 THEN date ELSE AddMonths(f[k - 1], 1)]

LEMMA ChainExists ==
    ASSUME NEW date, NEW n \in Nat
    PROVE  \E f : Chained(date, n, f)
  <1> DEFINE Bad == {k \in 1..(n + 1) : ~\E f : Chained(date, k - 1, f)}
  <1> SUFFICES ASSUME Bad # {} PROVE FALSE
    <2>1. n + 1 \notin Bad => \E f : Chained(date, (n + 1) - 1, f)
      OBVIOUS
    <2>2. (n + 1) - 1 = n
      OBVIOUS
    <2> QED
      BY <2>1, <2>2
  <1> DEFINE k == Min(Bad)
  <1>1. k \in Bad /\ \A j \in Bad : k <= j
    <2>1. Bad \subseteq 1..(n + 1) /\ n + 1 \in Nat
      OBVIOUS
    <2> HIDE DEF Bad
    <2> QED
      BY <2>1, MinIsMember
  <1>2. k \in 1..(n + 1) /\ ~\E f : Chained(date, k - 1, f)
    BY <1>1
  <1>3. k # 1
    <2> SUFFICES ASSUME k = 1 PROVE FALSE
      OBVIOUS
    <2> DEFINE f == [j \in 0..0 |-> date]
    <2>1. f = [j \in 0..0 |-> IF j = 0 THEN date ELSE AddMonths(f[j - 1], 1)]
      OBVIOUS
    <2> HIDE DEF f, k
    <2>2. Chained(date, k - 1, f)
      BY <2>1 DEF Chained
    <2> QED
      BY <1>2, <2>2
  <1>4. k - 1 \notin Bad /\ k - 1 \in 1..(n + 1)
    <2> HIDE DEF Bad
    <2>1. k \in 2..(n + 1)
      BY <1>2, <1>3
    <2> HIDE DEF k
    <2> QED
      BY <1>1, <2>1
  <1>5. PICK f : Chained(date, (k - 1) - 1, f)
    BY <1>4
  <1> HIDE DEF k, Bad
  <1> DEFINE m == k - 1
             g == [j \in 0..m |-> IF j = m THEN AddMonths(f[m - 1], 1) ELSE f[j]]
  <1>6. m \in 1..n
    BY <1>2, <1>3
  <1>7. f = [j \in 0..(m - 1) |-> IF j = 0 THEN date ELSE AddMonths(f[j - 1], 1)]
    BY <1>5 DEF Chained
  <1> HIDE DEF m
  <1>8. ASSUME NEW j \in 0..m
        PROVE  g[j] = IF j = 0 THEN date ELSE AddMonths(g[j - 1], 1)
    <2>1. CASE j = m
      <3>1. j # 0 /\ m - 1 \in 0..m /\ m - 1 # m
        BY <1>6, <2>1
      <3>2. g[j] = AddMonths(f[m - 1], 1) /\ g[m - 1] = f[m - 1]
        BY <2>1, <3>1
      <3> HIDE DEF g
      <3> QED
        BY <2>1, <3>1, <3>2
    <2>2. CASE j # m
      <3>1. j \in 0..(m - 1)
        BY <1>6, <2>2
      <3>2. f[j] = IF j = 0 THEN date ELSE AddMonths(f[j - 1], 1)
        BY <1>7, <3>1
      <3>3. g[j] = f[j] /\ (j # 0 => g[j - 1] = f[j - 1])
        BY <1>6, <3>1
      <3> HIDE DEF g
      <3> QED
        BY <3>2, <3>3
    <2> QED
      BY <2>1, <2>2
  <1>9. g = [j \in 0..m |-> g[j]]
    OBVIOUS
  <1> HIDE DEF g
  <1>10. Chained(date, m, g)
    BY <1>8, <1>9 DEF Chained
  <1> QED
    BY <1>2, <1>10 DEF m

\* What a chain of payments reaches: the month that was paid for, and a day that is
\* only earlier for the last day of a month, so never before the 28th for that.
LEMMA ChainKeepsMonth ==
    ASSUME NEW date \in Date, NEW n \in Nat \ {0}
    PROVE  /\ Monthly(date, n) \in Date
           /\ MonthIndex(Monthly(date, n)) = MonthIndex(date) + n
           /\ Monthly(date, n).day <= date.day
           /\ Monthly(date, n).day <= LastDay(Monthly(date, n).year, Monthly(date, n).month)
           /\ date.day <= 28 => Monthly(date, n).day >= date.day
           /\ Monthly(date, n).day >= 28 \/ date.day < 28
  <1> DEFINE f == CHOOSE f : Chained(date, n, f)
             Kept(k) == /\ f[k] \in Date
                        /\ MonthIndex(f[k]) = MonthIndex(date) + k
                        /\ f[k].day <= date.day
                        /\ k > 0 => f[k].day <= LastDay(f[k].year, f[k].month)
                        /\ date.day <= 28 => f[k].day >= date.day
                        /\ f[k].day >= 28 \/ date.day < 28
             Bad == {k \in 1..n : ~Kept(k)}
  <1>1. Monthly(date, n) = f[n]
    BY DEF Monthly, Chained
  <1>2. Chained(date, n, f)
    BY ChainExists
  <1> HIDE DEF f
  <1>3. f[0] = date /\ \A k \in 1..n : f[k] = AddMonths(f[k - 1], 1)
    BY <1>2 DEF Chained
  <1>4. date.day \in 1..31 /\ MonthIndex(date) \in Int
    BY EarlierByMonth
  <1>5. Kept(0)
    BY <1>3, <1>4
  <1>6. ASSUME NEW k \in 1..n, Kept(k - 1)
        PROVE  Kept(k)
    <2> DEFINE d == f[k - 1]
               end == f[k]
               last == LastDay(end.year, end.month)
    <2>1. end = AddMonths(d, 1) /\ d \in Date
      BY <1>3, <1>6
    <2>2. /\ end \in Date /\ last \in 28..31
          /\ MonthIndex(end) = MonthIndex(d) + 1
          /\ end.day = IF d.day <= last THEN d.day ELSE last
      BY <2>1, AddedMonths
    <2>3. d.day \in 1..31 /\ MonthIndex(d) = MonthIndex(date) + (k - 1)
      BY <1>6, <2>1, EarlierByMonth
    <2>4. /\ d.day <= date.day
          /\ date.day <= 28 => d.day >= date.day
          /\ d.day >= 28 \/ date.day < 28
      BY <1>6
    <2> HIDE DEF d, end, last
    <2>5. MonthIndex(end) = MonthIndex(date) + k
      BY <1>4, <2>2, <2>3
    <2>6. /\ end.day <= date.day /\ end.day <= last
          /\ date.day <= 28 => end.day >= date.day
          /\ end.day >= 28 \/ date.day < 28
      BY <1>4, <2>2, <2>3, <2>4
    <2> QED
      BY <2>2, <2>5, <2>6 DEF end, last
  <1> HIDE DEF Kept
  <1>7. Bad = {}
    <2> SUFFICES ASSUME Bad # {} PROVE FALSE
      OBVIOUS
    <2> DEFINE k == Min(Bad)
    <2>1. k \in Bad /\ \A j \in Bad : k <= j
      <3>1. Bad \subseteq 1..n
        OBVIOUS
      <3> HIDE DEF Bad
      <3> QED
        BY <3>1, MinIsMember
    <2> HIDE DEF k
    <2>2. k \in 1..n /\ ~Kept(k)
      BY <2>1
    <2>3. k - 1 = 0 \/ (k - 1 \in 1..n /\ k - 1 \notin Bad)
      BY <2>1, <2>2
    <2>4. Kept(k - 1)
      BY <1>5, <2>3
    <2> QED
      BY <1>6, <2>2, <2>4
  <1>8. Kept(n)
    BY <1>7
  <1> QED
    BY <1>1, <1>8 DEF Kept

LEMMA AskedRenewalKeepsCalendar ==
    ASSUME DatesAsked
    PROVE  RenewalKeepsCalendar
  <1> SUFFICES ASSUME question.about = "renewal"
               PROVE  RenewalKeepsCalendar
    BY DEF RenewalKeepsCalendar
  <1> DEFINE date == question.date
             other == question.other
             months == question.months
             end == AddMonths(date, months)
             later == AddMonths(other, months)
             chain == Monthly(date, months)
             last == LastDay(end.year, end.month)
  <1>1. date \in Date /\ other \in Date /\ months \in 1..12
    BY RulesAssumption DEF DatesAsked, Renewals, Date
  <1> HIDE DEF date, other, months
  <1>2. months \in Nat \ {0}
    BY <1>1
  <1>3. /\ end \in Date /\ last \in 28..31
        /\ MonthIndex(end) = MonthIndex(date) + months
        /\ end.day = IF date.day <= last THEN date.day ELSE last
    BY <1>1, <1>2, AddedMonths
  <1>4. /\ chain \in Date
        /\ MonthIndex(chain) = MonthIndex(date) + months
        /\ chain.day <= date.day
        /\ chain.day <= LastDay(chain.year, chain.month)
        /\ date.day <= 28 => chain.day >= date.day
        /\ chain.day >= 28 \/ date.day < 28
    BY <1>1, <1>2, ChainKeepsMonth
  <1> HIDE DEF end, chain
  <1>5. ~Earlier(end, chain)
    <2>1. end.year = chain.year /\ end.month = chain.month
      BY <1>3, <1>4, EarlierByMonth
    <2>2. chain.day <= last
      BY <1>4, <2>1
    <2> HIDE DEF last
    <2>3. chain.day \in 1..31 /\ end.day \in 1..31 /\ date.day \in 1..31
      BY <1>1, <1>3, <1>4, EarlierByMonth
    <2>4. chain.day <= end.day
      BY <1>3, <1>4, <2>2, <2>3
    <2>5. MonthIndex(end) = MonthIndex(chain) /\ MonthIndex(end) \in Int
      BY <1>3, <1>4, EarlierByMonth
    <2> QED
      BY <1>3, <1>4, <2>3, <2>4, <2>5, EarlierByMonth
  <1>6. chain.day >= Min({date.day, 28})
    <2>1. date.day \in 1..31 /\ chain.day \in 1..31
      BY <1>1, <1>4, EarlierByMonth
    <2>2. Min({date.day, 28}) = IF date.day <= 28 THEN date.day ELSE 28
      BY <2>1, LeastOfTwo
    <2> QED
      BY <1>4, <2>1, <2>2
  <1>7. ASSUME Earlier(date, other)
        PROVE  ~Earlier(later, end)
    <2> DEFINE lastLater == LastDay(later.year, later.month)
    <2>1. /\ later \in Date /\ lastLater \in 28..31
          /\ MonthIndex(later) = MonthIndex(other) + months
          /\ later.day = IF other.day <= lastLater THEN other.day ELSE lastLater
      BY <1>1, <1>2, AddedMonths
    <2> HIDE DEF later
    <2>2. /\ MonthIndex(date) \in Int /\ MonthIndex(other) \in Int
          /\ date.day \in 1..31 /\ other.day \in 1..31
          /\ \/ MonthIndex(date) < MonthIndex(other)
             \/ MonthIndex(date) = MonthIndex(other) /\ date.day < other.day
      BY <1>1, <1>7, EarlierByMonth
    <2>3. CASE MonthIndex(date) < MonthIndex(other)
      <3>1. MonthIndex(end) < MonthIndex(later)
        BY <1>2, <1>3, <2>1, <2>2, <2>3
      <3>2. MonthIndex(end) \in Int /\ MonthIndex(later) \in Int
        BY <1>3, <2>1, EarlierByMonth
      <3> QED
        BY <1>3, <2>1, <3>1, <3>2, EarlierByMonth
    <2>4. CASE MonthIndex(date) = MonthIndex(other) /\ date.day < other.day
      <3>1. MonthIndex(end) = MonthIndex(later) /\ MonthIndex(end) \in Int
        BY <1>3, <2>1, <2>4, EarlierByMonth
      <3>2. last = lastLater
        BY <1>3, <2>1, <3>1, EarlierByMonth
      <3>3. end.day \in 1..31 /\ later.day \in 1..31
        BY <1>3, <2>1, EarlierByMonth
      <3> HIDE DEF last, lastLater
      <3>4. end.day <= later.day
        BY <1>3, <2>1, <2>2, <2>4, <3>2, <3>3
      <3> QED
        BY <1>3, <2>1, <3>1, <3>3, <3>4, EarlierByMonth
    <2> QED
      BY <2>2, <2>3, <2>4
  <1>8. /\ 12 * end.year + end.month = 12 * date.year + date.month + months
        /\ 12 * chain.year + chain.month = 12 * end.year + end.month
    BY <1>3, <1>4 DEF MonthIndex
  <1> QED
    BY <1>5, <1>6, <1>7, <1>8 DEF RenewalKeepsCalendar, end, chain, later, date, other, months

\* Subscription time keeps its month, later ends stay later, and a chain of monthly
\* renewals falls short of one payment by the days of a February at most; a derived
\* schedule opens as the day before the first match begins, leaves 22 hours and is
\* accepted: for every date, number of months up to a year, zone whose clocks move by
\* an hour at most, and set of matches.
THEOREM TheCalendarIsKept == RulesSpec => []CalendarIsKept
  <1>1. DatesAsked => CalendarIsKept
    BY AskedScheduleIsPlayable, AskedRenewalKeepsCalendar DEF CalendarIsKept
  <1> QED
    BY <1>1, DatesAskedHolds, PTL

-----------------------------------------------------------------------------
(* RULES: the questions about a period of a season.                         *)

PeriodAsked ==
    question.about = "period" =>
        /\ question.season \in Seasons
        /\ question.start \in 1..(Len(question.season) + 1)
        /\ question.end \in 1..(Len(question.season) + 1)
        /\ question.start < question.end

LEMMA PeriodAskedHolds == RulesSpec => []PeriodAsked
  <1>1. Unasked => PeriodAsked
    BY DEF Unasked, PeriodAsked
  <1>2. ASSUME PeriodAsked, [Asking]_question
        PROVE  PeriodAsked'
    <2>1. CASE AskPeriod
      <3>1. PICK season \in Seasons : \E start, end \in 1..(Len(season) + 1) :
              start < end /\ question' = [about |-> "period", season |-> season, start |-> start, end |-> end]
        BY <2>1 DEF AskPeriod, Asks
      <3> QED
        BY <3>1 DEF PeriodAsked
    <2>2. CASE AskPositions \/ AskPayouts \/ AskRenewal \/ AskSchedule \/ AskSearch \/ AskPanel
      <3>1. question'.about \in {"positions", "payouts", "renewal", "schedule", "search", "panel"}
        BY <2>2 DEF AskPositions, AskPayouts, AskRenewal, AskSchedule, AskSearch, AskPanel, Asks
      <3> QED
        BY <3>1 DEF PeriodAsked
    <2>3. CASE UNCHANGED question
      BY <1>2, <2>3 DEF PeriodAsked
    <2> QED
      BY <1>2, <2>1, <2>2, <2>3 DEF Asking
  <1> QED
    BY <1>1, <1>2, PTL DEF RulesSpec

\* A sum over what two sets have one to one.
Paired(S, K, b, q) ==
    /\ \A k \in K : b[k] \in S /\ q[b[k]] = k
    /\ \A x \in S : q[x] \in K /\ b[q[x]] = x

LEMMA SumRenamed ==
    ASSUME NEW S, IsFiniteSet(S), NEW K, IsFiniteSet(K), NEW b, NEW q, Paired(S, K, b, q),
           NEW f, \A x \in S : f[x] \in Int, NEW g, \A k \in K : g[k] = f[b[k]]
    PROVE  SumFunctionOnSet(f, S) = SumFunctionOnSet(g, K)
  <1> DEFINE group == [k \in K |-> {b[k]}]
  <1>1. Grouping(S, K, q, group)
    BY DEF Grouping, Paired
  <1>2. GroupSums(f, K, group, g)
    <2> SUFFICES ASSUME NEW k \in K PROVE g[k] = SumFunctionOnSet(f, {b[k]})
      BY DEF GroupSums
    <2>1. b[k] \in S /\ f[b[k]] \in Int
      BY DEF Paired
    <2>2. IsFiniteSet({b[k]}) /\ \A x \in {b[k]} : f[x] \in Int
      BY <2>1, FS_Singleton
    <2>3. SumFunctionOnSet(f, {b[k]}) = f[b[k]] + SumFunctionOnSet(f, {b[k]} \ {b[k]})
      <3>1. b[k] \in {b[k]}
        OBVIOUS
      <3> QED
        BY <2>2, <3>1, SumTakesAny
    <2>4. SumFunctionOnSet(f, {b[k]} \ {b[k]}) = 0
      <3>1. {b[k]} \ {b[k]} = {}
        OBVIOUS
      <3> QED
        BY <3>1, SumOfNothing
    <2> QED
      BY <2>1, <2>3, <2>4
  <1> HIDE DEF group
  <1> QED
    BY <1>1, <1>2, SumByGroups

\* As many elements, at most, as there are names for them.
LEMMA FiniteImage ==
    ASSUME NEW S, IsFiniteSet(S), NEW f
    PROVE  IsFiniteSet({f[x] : x \in S})
  <1> DEFINE T == {f[x] : x \in S}
             g == [x \in S |-> f[x]]
  <1>1. g \in Surjection(S, T)
    BY DEF Surjection
  <1> QED
    BY <1>1, FS_Surjection

-----------------------------------------------------------------------------
(* WHAT A TICKET IS WORTH.                                                  *)

\* The score of who predicted "1" in every match of a ticket.
OutcomeOf(t) == Detail([i \in DOMAIN t.result |-> "1"], t.result, t.multiplier)

WonAt(t, m) == {i \in DOMAIN t.result : t.result[i] = "1" /\ t.multiplier[i] = m}
LostAt(t, m) == {i \in DOMAIN t.result : t.result[i] \notin {"1", "C"} /\ t.multiplier[i] = m}
Hits(t) == {i \in DOMAIN t.result : t.result[i] = "1"}

LEMMA ScoredType ==
    ASSUME NEW t \in Scored
    PROVE  /\ IsFiniteSet(DOMAIN t.result)
           /\ \A i \in DOMAIN t.result : /\ t.result[i] \in {"1", "X", "2", "C"}
                                         /\ t.multiplier[i] \in {1, 2, 4}
  <1>1. /\ t.result \in Seq({"1", "X", "2", "C"}) /\ t.multiplier \in Seq({1, 2, 4})
        /\ Len(t.result) = Len(t.multiplier)
    BY DEF Scored, Multipliers
  <1>2. DOMAIN t.result = 1..Len(t.result) /\ Len(t.result) \in Nat
    BY <1>1
  <1>3. DOMAIN t.multiplier = DOMAIN t.result
    BY <1>1
  <1>4. IsFiniteSet(DOMAIN t.result)
    BY <1>2, FS_Interval
  <1> QED
    BY <1>1, <1>3, <1>4

LEMMA OutcomeCounts ==
    ASSUME NEW t \in Scored
    PROVE  OutcomeOf(t) =
             [doubles |-> Cardinality(WonAt(t, 2)), supers |-> Cardinality(WonAt(t, 4)),
              total |-> Cardinality(Hits(t)) + Cardinality(WonAt(t, 2))
                          + 3 * Cardinality(WonAt(t, 4)) - 2 * Cardinality(LostAt(t, 2))
                          - 4 * Cardinality(LostAt(t, 4))]
  <1> DEFINE one == [i \in DOMAIN t.result |-> "1"]
             hit == {i \in Counted(t.result) : one[i] = t.result[i]}
             miss == Counted(t.result) \ hit
  <1>1. hit = Hits(t)
    BY DEF Counted, Hits
  <1>2. \A m : {i \in hit : t.multiplier[i] = m} = WonAt(t, m)
    BY DEF Counted, WonAt
  <1>3. \A m : {i \in miss : t.multiplier[i] = m} = LostAt(t, m)
    BY DEF Counted, LostAt
  <1>4. OutcomeOf(t) =
          [doubles |-> Cardinality({i \in hit : t.multiplier[i] = 2}),
           supers |-> Cardinality({i \in hit : t.multiplier[i] = 4}),
           total |-> Cardinality(hit) + Cardinality({i \in hit : t.multiplier[i] = 2})
                       + 3 * Cardinality({i \in hit : t.multiplier[i] = 4})
                       - 2 * Cardinality({i \in miss : t.multiplier[i] = 2})
                       - 4 * Cardinality({i \in miss : t.multiplier[i] = 4})]
    BY DEF OutcomeOf, Detail
  <1> HIDE DEF hit, miss
  <1> QED
    BY <1>1, <1>2, <1>3, <1>4

\* Worth match by match.
WorthOf(t) == [i \in DOMAIN t.result |-> Worth(t.result[i], t.multiplier[i])]
Ones(t, A) == [i \in DOMAIN t.result |-> IF i \in A THEN 1 ELSE 0]

LEMMA OutcomeIsWorth ==
    ASSUME NEW t \in Scored
    PROVE  /\ OutcomeOf(t).total = SumFunctionOnSet(WorthOf(t), DOMAIN t.result)
           /\ OutcomeOf(t).doubles = SumFunctionOnSet(Ones(t, WonAt(t, 2)), DOMAIN t.result)
           /\ OutcomeOf(t).supers = SumFunctionOnSet(Ones(t, WonAt(t, 4)), DOMAIN t.result)
  <1> DEFINE D == DOMAIN t.result
             A == Ones(t, Hits(t))
             B == Ones(t, WonAt(t, 2))
             C == Ones(t, WonAt(t, 4))
             E == Ones(t, LostAt(t, 2))
             F == Ones(t, LostAt(t, 4))
             Sum(f) == SumFunctionOnSet(f, D)
             C3 == [i \in D |-> 3 * C[i]]
             E2 == [i \in D |-> (-2) * E[i]]
             F4 == [i \in D |-> (-4) * F[i]]
             AB == [i \in D |-> A[i] + B[i]]
             EF == [i \in D |-> E2[i] + F4[i]]
             ABC == [i \in D |-> AB[i] + C3[i]]
             W == WorthOf(t)
  <1>1. IsFiniteSet(D)
    BY ScoredType
  <1>2. \A i \in D : A[i] \in Int /\ B[i] \in Int /\ C[i] \in Int /\ E[i] \in Int /\ F[i] \in Int
    BY DEF Ones
  <1>3. \A i \in D : W[i] = ABC[i] + EF[i]
    <2> SUFFICES ASSUME NEW i \in D PROVE W[i] = ABC[i] + EF[i]
      OBVIOUS
    <2>1. t.result[i] \in {"1", "X", "2", "C"} /\ t.multiplier[i] \in {1, 2, 4}
      BY ScoredType
    <2>2. W[i] = Worth(t.result[i], t.multiplier[i])
      BY DEF WorthOf
    <2>3. /\ A[i] = IF t.result[i] = "1" THEN 1 ELSE 0
          /\ B[i] = IF t.result[i] = "1" /\ t.multiplier[i] = 2 THEN 1 ELSE 0
          /\ C[i] = IF t.result[i] = "1" /\ t.multiplier[i] = 4 THEN 1 ELSE 0
          /\ E[i] = IF t.result[i] \notin {"1", "C"} /\ t.multiplier[i] = 2 THEN 1 ELSE 0
          /\ F[i] = IF t.result[i] \notin {"1", "C"} /\ t.multiplier[i] = 4 THEN 1 ELSE 0
      BY DEF Ones, Hits, WonAt, LostAt
    <2>4. ABC[i] + EF[i] = A[i] + B[i] + 3 * C[i] + ((-2) * E[i] + (-4) * F[i])
      OBVIOUS
    <2> HIDE DEF W, A, B, C, E, F, ABC, EF
    <2>5. CASE t.result[i] = "1"
      BY <2>1, <2>2, <2>3, <2>4, <2>5 DEF Worth
    <2>6. CASE t.result[i] = "C"
      BY <2>1, <2>2, <2>3, <2>4, <2>6 DEF Worth
    <2>7. CASE t.result[i] \in {"X", "2"}
      BY <2>1, <2>2, <2>3, <2>4, <2>7 DEF Worth
    <2> QED
      BY <2>1, <2>5, <2>6, <2>7
  <1>4. /\ Sum(A) = Cardinality(Hits(t))
        /\ Sum(B) = Cardinality(WonAt(t, 2)) /\ Sum(C) = Cardinality(WonAt(t, 4))
        /\ Sum(E) = Cardinality(LostAt(t, 2)) /\ Sum(F) = Cardinality(LostAt(t, 4))
    <2>1. ASSUME NEW X \in SUBSET D PROVE Sum(Ones(t, X)) = Cardinality(X)
      <3>1. \A x \in D : Ones(t, X)[x] = IF x \in X THEN 1 ELSE 0
        BY DEF Ones
      <3> QED
        BY <1>1, <3>1, SumOfOnes
    <2>2. /\ Hits(t) \in SUBSET D /\ WonAt(t, 2) \in SUBSET D /\ WonAt(t, 4) \in SUBSET D
          /\ LostAt(t, 2) \in SUBSET D /\ LostAt(t, 4) \in SUBSET D
      BY DEF Hits, WonAt, LostAt
    <2> QED
      BY <2>1, <2>2
  <1> HIDE DEF A, B, C, E, F, W
  <1>5. AddsUp(D, A, B, AB) /\ AddsUp(D, E2, F4, EF) /\ AddsUp(D, AB, C3, ABC)
    BY <1>2 DEF AddsUp
  <1>6. AddsUp(D, ABC, EF, W)
    <2>1. \A i \in D : ABC[i] \in Int /\ EF[i] \in Int
      BY <1>2
    <2> HIDE DEF ABC, EF
    <2> QED
      BY <1>3, <2>1 DEF AddsUp
  <1>7. /\ \A i \in D : C3[i] = 3 * C[i] /\ E2[i] = (-2) * E[i] /\ F4[i] = (-4) * F[i]
        /\ 3 \in Int /\ -2 \in Int /\ -4 \in Int
    OBVIOUS
  <1> HIDE DEF C3, E2, F4, AB, EF, ABC
  <1>8. Sum(C3) = 3 * Sum(C) /\ Sum(E2) = (-2) * Sum(E) /\ Sum(F4) = (-4) * Sum(F)
    <2>1. Sum(C3) = 3 * Sum(C)
      BY <1>1, <1>2, <1>7, SumOfMultiples
    <2>2. Sum(E2) = (-2) * Sum(E)
      BY <1>1, <1>2, <1>7, SumOfMultiples
    <2>3. Sum(F4) = (-4) * Sum(F)
      BY <1>1, <1>2, <1>7, SumOfMultiples
    <2> QED
      BY <2>1, <2>2, <2>3
  <1>9. Sum(W) = (Sum(A) + Sum(B) + Sum(C3)) + (Sum(E2) + Sum(F4))
    BY <1>1, <1>5, <1>6, SumOfSums
  <1>10. /\ Sum(A) \in Int /\ Sum(B) \in Int /\ Sum(C) \in Int /\ Sum(E) \in Int /\ Sum(F) \in Int
    BY <1>1, <1>2, SumType
  <1> HIDE DEF Sum
  <1>11. OutcomeOf(t).total = Sum(A) + Sum(B) + 3 * Sum(C) - 2 * Sum(E) - 4 * Sum(F)
    BY <1>4, OutcomeCounts
  <1>12. OutcomeOf(t).total = Sum(W)
    BY <1>8, <1>9, <1>10, <1>11
  <1> QED
    BY <1>4, <1>12, OutcomeCounts DEF Sum, W, B, C

-----------------------------------------------------------------------------
(* THE MATCHES OF SOME ROUNDS.                                              *)

\* A season's rounds are numbered from one; those of a period have tickets.
Season(season, n) ==
    /\ n \in Nat /\ DOMAIN season = 1..n
    /\ \A r \in 1..n : season[r] \in Scored \cup {Unset}

MatchesOf(season, own) == UNION {{r} \X DOMAIN season[r].result : r \in own}

PlayedIn(season) == {r \in DOMAIN season : season[r] # Unset}

LEMMA PlayedType ==
    ASSUME NEW season, NEW n, Season(season, n)
    PROVE  /\ IsFiniteSet(PlayedIn(season)) /\ PlayedIn(season) \subseteq 1..n
           /\ \A r \in PlayedIn(season) : season[r] \in Scored
  <1>1. PlayedIn(season) \subseteq 1..n
    BY DEF PlayedIn, Season
  <1>2. IsFiniteSet(1..n)
    BY FS_Interval DEF Season
  <1> QED
    BY <1>1, <1>2, FS_Subset DEF PlayedIn, Season

\* The value of each match, round by round: g has the sum of each round.
RoundByRound(season, own, f, g) ==
    \A r \in own :
        g[r] = SumFunctionOnSet([i \in DOMAIN season[r].result |-> f[<<r, i>>]],
                                DOMAIN season[r].result)

LEMMA SumByRounds ==
    ASSUME NEW season, NEW n, Season(season, n), NEW own \in SUBSET PlayedIn(season),
           NEW f, \A x \in MatchesOf(season, own) : f[x] \in Int,
           NEW g, RoundByRound(season, own, f, g)
    PROVE  /\ IsFiniteSet(MatchesOf(season, own))
           /\ SumFunctionOnSet(f, MatchesOf(season, own)) = SumFunctionOnSet(g, own)
  <1> DEFINE M == MatchesOf(season, own)
             D(r) == DOMAIN season[r].result
             group == [r \in own |-> {r} \X D(r)]
             p == [x \in M |-> x[1]]
  <1>1. IsFiniteSet(own)
    BY PlayedType, FS_Subset
  <1>2. \A r \in own : IsFiniteSet(D(r)) /\ IsFiniteSet({r} \X D(r))
    <2> SUFFICES ASSUME NEW r \in own PROVE IsFiniteSet(D(r)) /\ IsFiniteSet({r} \X D(r))
      OBVIOUS
    <2>1. season[r] \in Scored
      BY PlayedType
    <2>2. IsFiniteSet(D(r)) /\ IsFiniteSet({r})
      BY <2>1, ScoredType, FS_Singleton
    <2> HIDE DEF D
    <2> QED
      BY <2>2, FS_Product
  <1>3. IsFiniteSet(M)
    <2>1. IsFiniteSet({group[r] : r \in own})
      <3> HIDE DEF group
      <3> QED
        BY <1>1, FiniteImage
    <2>2. \A T \in {group[r] : r \in own} : IsFiniteSet(T)
      BY <1>2
    <2>3. IsFiniteSet(UNION {group[r] : r \in own})
      <3> HIDE DEF group
      <3> QED
        BY <2>1, <2>2, FS_UNION
    <2>4. M = UNION {group[r] : r \in own}
      BY DEF MatchesOf
    <2> QED
      BY <2>3, <2>4
  <1>4. \A x : x \in M <=> \E r \in own : \E i \in D(r) : x = <<r, i>>
    BY DEF MatchesOf
  <1>5. Grouping(M, own, p, group)
    <2>1. \A x \in M : p[x] \in own
      BY <1>4
    <2>2. ASSUME NEW r \in own
          PROVE  group[r] \subseteq M /\ \A x \in M : x \in group[r] <=> p[x] = r
      <3>1. \A x : x \in group[r] <=> \E i \in D(r) : x = <<r, i>>
        OBVIOUS
      <3>2. group[r] \subseteq M
        BY <1>4, <3>1
      <3>3. ASSUME NEW x \in M PROVE x \in group[r] <=> p[x] = r
        <4>1. PICK s \in own : \E i \in D(s) : x = <<s, i>>
          BY <1>4
        <4>2. p[x] = s
          BY <4>1
        <4>3. x \in group[r] <=> r = s
          BY <3>1, <4>1
        <4> QED
          BY <4>2, <4>3
      <3> QED
        BY <3>2, <3>3
    <2> QED
      BY <2>1, <2>2 DEF Grouping
  <1>6. GroupSums(f, own, group, g)
    <2> SUFFICES ASSUME NEW r \in own PROVE g[r] = SumFunctionOnSet(f, {r} \X D(r))
      BY DEF GroupSums
    <2> DEFINE S == {r} \X D(r)
               b == [i \in D(r) |-> <<r, i>>]
               q == [x \in S |-> x[2]]
               h == [i \in D(r) |-> f[<<r, i>>]]
    <2>1. Paired(S, D(r), b, q)
      BY DEF Paired
    <2>2. \A x \in S : f[x] \in Int
      BY <1>4
    <2>3. \A i \in D(r) : h[i] = f[b[i]]
      OBVIOUS
    <2>4. IsFiniteSet(S) /\ IsFiniteSet(D(r))
      BY <1>2
    <2>5. g[r] = SumFunctionOnSet(h, D(r))
      BY DEF RoundByRound
    <2> HIDE DEF S, D, b, q, h
    <2>6. SumFunctionOnSet(f, S) = SumFunctionOnSet(h, D(r))
      BY <2>1, <2>2, <2>3, <2>4, SumRenamed
    <2> QED
      BY <2>5, <2>6 DEF S
  <1> HIDE DEF M, group, p
  <1>7. SumFunctionOnSet(f, M) = SumFunctionOnSet(g, own)
    BY <1>1, <1>3, <1>5, <1>6, SumByGroups DEF M
  <1> QED
    BY <1>3, <1>7 DEF M

WorthIn(season, own) ==
    [x \in MatchesOf(season, own) |->
        Worth(season[x[1]].result[x[2]], season[x[1]].multiplier[x[2]])]
WonIn(season, own, m) ==
    {x \in MatchesOf(season, own) : /\ season[x[1]].result[x[2]] = "1"
                                    /\ season[x[1]].multiplier[x[2]] = m}

\* The tables of the scores and of the hits, "doubles" or "supers", of rounds.
Outcomes(season, rounds, what) == [r \in rounds |-> OutcomeOf(season[r])[what]]

LEMMA OutcomeTypes ==
    ASSUME NEW season, NEW n, Season(season, n), NEW r \in PlayedIn(season)
    PROVE  /\ OutcomeOf(season[r]).total \in Int
           /\ OutcomeOf(season[r]).doubles \in Int
           /\ OutcomeOf(season[r]).supers \in Int
  <1> DEFINE t == season[r]
  <1>1. t \in Scored
    BY PlayedType
  <1> HIDE DEF t
  <1>2. IsFiniteSet(DOMAIN t.result)
    BY <1>1, ScoredType
  <1>3. /\ WonAt(t, 2) \subseteq DOMAIN t.result /\ WonAt(t, 4) \subseteq DOMAIN t.result
        /\ LostAt(t, 2) \subseteq DOMAIN t.result /\ LostAt(t, 4) \subseteq DOMAIN t.result
        /\ Hits(t) \subseteq DOMAIN t.result
    BY DEF WonAt, LostAt, Hits
  <1>4. /\ Cardinality(WonAt(t, 2)) \in Int /\ Cardinality(WonAt(t, 4)) \in Int
        /\ Cardinality(LostAt(t, 2)) \in Int /\ Cardinality(LostAt(t, 4)) \in Int
        /\ Cardinality(Hits(t)) \in Int
    BY <1>2, <1>3, FS_Subset, FS_CardinalityType
  <1>5. /\ OutcomeOf(t).total \in Int /\ OutcomeOf(t).doubles \in Int /\ OutcomeOf(t).supers \in Int
    BY <1>1, <1>4, OutcomeCounts
  <1> QED
    BY <1>5 DEF t

\* What rounds were worth is what their matches were.
LEMMA RoundsAreTheirMatches ==
    ASSUME NEW season, NEW n, Season(season, n), NEW own \in SUBSET PlayedIn(season)
    PROVE  /\ SumFunctionOnSet(Outcomes(season, own, "total"), own)
                = SumFunctionOnSet(WorthIn(season, own), MatchesOf(season, own))
           /\ SumFunctionOnSet(Outcomes(season, own, "doubles"), own)
                = Cardinality(WonIn(season, own, 2))
           /\ SumFunctionOnSet(Outcomes(season, own, "supers"), own)
                = Cardinality(WonIn(season, own, 4))
  <1> DEFINE M == MatchesOf(season, own)
             D(r) == DOMAIN season[r].result
             one(m) == [x \in M |-> IF x \in WonIn(season, own, m) THEN 1 ELSE 0]
  <1>1. \A r \in own : season[r] \in Scored
    BY PlayedType
  <1>2. \A r \in own : \A i \in D(r) : <<r, i>> \in M
    BY DEF MatchesOf
  <1>3. \A x \in M : x[1] \in own /\ x[2] \in D(x[1])
    BY DEF MatchesOf
  <1>4. \A x \in M : WorthIn(season, own)[x] \in Int
    <2> SUFFICES ASSUME NEW x \in M PROVE WorthIn(season, own)[x] \in Int
      OBVIOUS
    <2> DEFINE result == season[x[1]].result[x[2]]
               multiplier == season[x[1]].multiplier[x[2]]
    <2>1. result \in {"1", "X", "2", "C"} /\ multiplier \in {1, 2, 4}
      BY <1>1, <1>3, ScoredType
    <2>2. WorthIn(season, own)[x] = Worth(result, multiplier)
      BY DEF WorthIn
    <2> HIDE DEF result, multiplier
    <2>3. Worth(result, multiplier) \in Int
      BY <2>1 DEF Worth
    <2> QED
      BY <2>2, <2>3
  <1>5. RoundByRound(season, own, WorthIn(season, own), Outcomes(season, own, "total"))
    <2> SUFFICES ASSUME NEW r \in own
                 PROVE  Outcomes(season, own, "total")[r]
                          = SumFunctionOnSet([i \in D(r) |-> WorthIn(season, own)[<<r, i>>]], D(r))
      BY DEF RoundByRound
    <2>1. Outcomes(season, own, "total")[r] = SumFunctionOnSet(WorthOf(season[r]), D(r))
      BY <1>1, OutcomeIsWorth DEF Outcomes
    <2>2. \A i \in D(r) : /\ <<r, i>> \in M
                          /\ WorthIn(season, own)[<<r, i>>]
                               = Worth(season[r].result[i], season[r].multiplier[i])
      BY <1>2 DEF WorthIn
    <2>3. WorthOf(season[r]) = [i \in D(r) |-> WorthIn(season, own)[<<r, i>>]]
      BY <2>2 DEF WorthOf
    <2> QED
      BY <2>1, <2>3
  <1>6. ASSUME NEW m, NEW what,
               \A r \in own : OutcomeOf(season[r])[what]
                                = SumFunctionOnSet(Ones(season[r], WonAt(season[r], m)), D(r))
        PROVE  SumFunctionOnSet(Outcomes(season, own, what), own)
                 = Cardinality(WonIn(season, own, m))
    <2>1. \A x \in M : one(m)[x] \in Int
      OBVIOUS
    <2>2. RoundByRound(season, own, one(m), Outcomes(season, own, what))
      <3> SUFFICES ASSUME NEW r \in own
                   PROVE  Outcomes(season, own, what)[r]
                            = SumFunctionOnSet([i \in D(r) |-> one(m)[<<r, i>>]], D(r))
        BY DEF RoundByRound
      <3>1. Outcomes(season, own, what)[r]
              = SumFunctionOnSet(Ones(season[r], WonAt(season[r], m)), D(r))
        BY <1>6 DEF Outcomes
      <3>2. \A i \in D(r) : one(m)[<<r, i>>] = IF i \in WonAt(season[r], m) THEN 1 ELSE 0
        BY <1>2 DEF WonIn, WonAt
      <3>3. Ones(season[r], WonAt(season[r], m)) = [i \in D(r) |-> one(m)[<<r, i>>]]
        BY <3>2 DEF Ones
      <3> QED
        BY <3>1, <3>3
    <2>3. /\ IsFiniteSet(M)
          /\ SumFunctionOnSet(one(m), M) = SumFunctionOnSet(Outcomes(season, own, what), own)
      <3> HIDE DEF one
      <3> QED
        BY <2>1, <2>2, SumByRounds
    <2>4. SumFunctionOnSet(one(m), M) = Cardinality(WonIn(season, own, m))
      <3>1. WonIn(season, own, m) \in SUBSET M
        BY DEF WonIn
      <3>2. \A x \in M : one(m)[x] = IF x \in WonIn(season, own, m) THEN 1 ELSE 0
        OBVIOUS
      <3> HIDE DEF one, M
      <3> QED
        BY <2>3, <3>1, <3>2, SumOfOnes
    <2> QED
      BY <2>3, <2>4
  <1>7. \A r \in own :
          /\ OutcomeOf(season[r])["doubles"]
               = SumFunctionOnSet(Ones(season[r], WonAt(season[r], 2)), D(r))
          /\ OutcomeOf(season[r])["supers"]
               = SumFunctionOnSet(Ones(season[r], WonAt(season[r], 4)), D(r))
    BY <1>1, OutcomeIsWorth
  <1>8. SumFunctionOnSet(WorthIn(season, own), M)
          = SumFunctionOnSet(Outcomes(season, own, "total"), own)
    BY <1>4, <1>5, SumByRounds
  <1> QED
    BY <1>6, <1>7, <1>8

-----------------------------------------------------------------------------
(* THE RANKING OF A PERIOD.                                                 *)

UpTo(season, r) == {s \in PlayedIn(season) : s <= r}

\* The history of a round: the hits of every round up to it.
HistoryOf(season, r) ==
    [user |-> 1, round |-> r, closeAt |-> r, score |-> OutcomeOf(season[r]).total,
     doubles |-> SumFunctionOnSet(Outcomes(season, PlayedIn(season), "doubles"), UpTo(season, r)),
     supers |-> SumFunctionOnSet(Outcomes(season, PlayedIn(season), "supers"), UpTo(season, r))]

HistoriesOf(season, rounds) == {HistoryOf(season, r) : r \in rounds}

LEMMA HistoryIsOfRounds ==
    ASSUME NEW season
    PROVE  History(season) = HistoriesOf(season, PlayedIn(season))
  <1> DEFINE played == {r \in DOMAIN season : season[r] # Unset}
             outcome == [r \in played |-> Detail([i \in DOMAIN season[r].result |-> "1"],
                                                 season[r].result, season[r].multiplier)]
             doubles == [r \in played |-> outcome[r].doubles]
             supers == [r \in played |-> outcome[r].supers]
             Until(r) == {s \in played : s <= r}
  <1>1. played = PlayedIn(season)
    BY DEF PlayedIn
  <1>2. \A r \in played : outcome[r] = OutcomeOf(season[r])
    BY DEF OutcomeOf
  <1>3. doubles = Outcomes(season, PlayedIn(season), "doubles")
    <2> HIDE DEF outcome, played
    <2> QED
      BY <1>1, <1>2 DEF Outcomes
  <1>4. supers = Outcomes(season, PlayedIn(season), "supers")
    <2> HIDE DEF outcome, played
    <2> QED
      BY <1>1, <1>2 DEF Outcomes
  <1>5. \A r : Until(r) = UpTo(season, r)
    BY <1>1 DEF UpTo
  <1>6. History(season) =
          {[user |-> 1, round |-> r, closeAt |-> r, score |-> outcome[r].total,
            doubles |-> SumFunctionOnSet(doubles, Until(r)),
            supers |-> SumFunctionOnSet(supers, Until(r))] : r \in played}
    BY DEF History
  <1> HIDE DEF played, outcome, doubles, supers, Until
  <1>7. \A r \in played :
          [user |-> 1, round |-> r, closeAt |-> r, score |-> outcome[r].total,
           doubles |-> SumFunctionOnSet(doubles, Until(r)),
           supers |-> SumFunctionOnSet(supers, Until(r))] = HistoryOf(season, r)
    BY <1>2, <1>3, <1>4, <1>5 DEF HistoryOf
  <1> QED
    BY <1>1, <1>6, <1>7 DEF HistoriesOf

\* The latest of the histories of rounds is that of the last one.
LEMMA LatestIsLast ==
    ASSUME NEW season, NEW n \in Nat, NEW rounds, rounds \subseteq 1..n, rounds # {}
    PROVE  /\ Max(rounds) \in rounds /\ \A r \in rounds : r <= Max(rounds)
           /\ Latest(HistoriesOf(season, rounds)) = HistoryOf(season, Max(rounds))
  <1> DEFINE m == Max(rounds)
             rows == HistoriesOf(season, rounds)
             IsLatest(h) == h \in rows /\ \A g \in rows : g.round <= h.round
  <1>1. m \in rounds /\ \A r \in rounds : r <= m
    BY MaxIsMember
  <1> HIDE DEF m
  <1>2. \A r : HistoryOf(season, r).round = r
    BY DEF HistoryOf
  <1>3. IsLatest(HistoryOf(season, m))
    BY <1>1, <1>2 DEF HistoriesOf
  <1>4. ASSUME NEW h, IsLatest(h)
        PROVE  h = HistoryOf(season, m)
    <2>1. PICK r \in rounds : h = HistoryOf(season, r)
      BY <1>4 DEF HistoriesOf
    <2>2. m <= r
      BY <1>2, <1>3, <1>4, <2>1
    <2>3. r <= m /\ r \in Int /\ m \in Int
      BY <1>1
    <2> QED
      BY <2>1, <2>2, <2>3
  <1>5. IsLatest(CHOOSE h : IsLatest(h))
    BY <1>3
  <1>6. Latest(rows) = CHOOSE h : IsLatest(h)
    BY DEF Latest
  <1> QED
    BY <1>1, <1>4, <1>5, <1>6 DEF m

OwnRounds(season, start, end) == {r \in PlayedIn(season) : r >= start /\ r < end}
EarlierRounds(season, start) == {r \in PlayedIn(season) : r < start}

\* The hits up to the last round of a period are those before it and those in it.
LEMMA HitsAreGained ==
    ASSUME NEW season, NEW n, Season(season, n), NEW start \in Int, NEW end \in Int, start < end,
           NEW what \in {"doubles", "supers"}, OwnRounds(season, start, end) # {}
    PROVE  LET own == OwnRounds(season, start, end)
               earlier == EarlierRounds(season, start)
               hits == Outcomes(season, PlayedIn(season), what)
           IN  SumFunctionOnSet(hits, UpTo(season, Max(own)))
                 - (IF earlier = {} THEN 0 ELSE SumFunctionOnSet(hits, UpTo(season, Max(earlier))))
                   = SumFunctionOnSet(Outcomes(season, own, what), own)
  <1> DEFINE own == OwnRounds(season, start, end)
             earlier == EarlierRounds(season, start)
             hits == Outcomes(season, PlayedIn(season), what)
             Sum(S) == SumFunctionOnSet(hits, S)
  <1>1. n \in Nat /\ PlayedIn(season) \subseteq 1..n /\ IsFiniteSet(PlayedIn(season))
    BY PlayedType DEF Season
  <1>2. own \subseteq PlayedIn(season) /\ earlier \subseteq PlayedIn(season)
    BY DEF OwnRounds, EarlierRounds
  <1>3. IsFiniteSet(own) /\ IsFiniteSet(earlier) /\ own \cap earlier = {}
    <2>1. IsFiniteSet(own) /\ IsFiniteSet(earlier)
      BY <1>1, <1>2, FS_Subset
    <2>2. own \cap earlier = {}
      BY <1>1 DEF OwnRounds, EarlierRounds
    <2> QED
      BY <2>1, <2>2
  <1>4. \A r \in PlayedIn(season) : hits[r] \in Int
    BY OutcomeTypes DEF Outcomes
  <1>5. UpTo(season, Max(own)) = earlier \cup own
    <2>1. Max(own) \in own /\ \A r \in own : r <= Max(own)
      <3>1. own \subseteq 1..n /\ own # {}
        BY <1>1, <1>2
      <3> HIDE DEF own
      <3> QED
        BY <1>1, <3>1, MaxIsMember
    <2> DEFINE m == Max(own)
    <2> HIDE DEF m
    <2>2. m \in own /\ \A r \in own : r <= m
      BY <2>1 DEF m
    <2>3. m \in Int /\ m >= start /\ m < end
      BY <1>1, <2>2 DEF OwnRounds
    <2>4. ASSUME NEW r \in PlayedIn(season)
          PROVE  r <= m <=> r \in earlier \/ r \in own
      <3>1. r \in Int
        BY <1>1
      <3>2. r \in own <=> r >= start /\ r < end
        BY DEF OwnRounds
      <3>3. r \in earlier <=> r < start
        BY DEF EarlierRounds
      <3> HIDE DEF own, earlier
      <3> QED
        BY <2>2, <2>3, <3>1, <3>2, <3>3
    <2>5. UpTo(season, m) = earlier \cup own
      <3> HIDE DEF own, earlier
      <3> QED
        BY <1>2, <2>4 DEF UpTo
    <2> QED
      BY <2>5 DEF m
  <1>6. (IF earlier = {} THEN 0 ELSE Sum(UpTo(season, Max(earlier)))) = Sum(earlier)
    <2>1. CASE earlier = {}
      BY <2>1, SumOfNothing
    <2>2. CASE earlier # {}
      <3> DEFINE m == Max(earlier)
      <3>1. m \in earlier /\ \A r \in earlier : r <= m
        <4>1. earlier \subseteq 1..n
          BY <1>1, <1>2
        <4> HIDE DEF earlier
        <4> QED
          BY <1>1, <2>2, <4>1, MaxIsMember
      <3> HIDE DEF m
      <3>2. m \in Int /\ m < start
        BY <1>1, <3>1 DEF EarlierRounds
      <3>3. ASSUME NEW r \in PlayedIn(season)
            PROVE  r <= m <=> r \in earlier
        <4>1. r \in Int /\ (r \in earlier <=> r < start)
          BY <1>1 DEF EarlierRounds
        <4> HIDE DEF earlier
        <4> QED
          BY <3>1, <3>2, <4>1
      <3>4. UpTo(season, m) = earlier
        <4> HIDE DEF earlier
        <4> QED
          BY <1>2, <3>3 DEF UpTo
      <3> QED
        BY <2>2, <3>4 DEF m
    <2> QED
      BY <2>1, <2>2
  <1>7. /\ Sum(earlier \cup own) = Sum(earlier) + Sum(own)
        /\ Sum(earlier) \in Int /\ Sum(own) \in Int
    <2> HIDE DEF own, earlier, hits
    <2>1. \A r \in earlier \cup own : hits[r] \in Int
      BY <1>2, <1>4
    <2> QED
      BY <1>3, <2>1, SumOfUnion, SumType
  <1>8. Sum(own) = SumFunctionOnSet(Outcomes(season, own, what), own)
    <2>1. \A r \in own : hits[r] = Outcomes(season, own, what)[r]
      BY <1>2 DEF Outcomes
    <2> HIDE DEF own, hits
    <2> QED
      BY <1>3, <2>1, SumsAgree
  <1> HIDE DEF own, earlier, hits
  <1>9. Sum(UpTo(season, Max(own)))
          - (IF earlier = {} THEN 0 ELSE Sum(UpTo(season, Max(earlier))))
            = SumFunctionOnSet(Outcomes(season, own, what), own)
    <2> DEFINE u == Sum(UpTo(season, Max(own)))
               v == IF earlier = {} THEN 0 ELSE Sum(UpTo(season, Max(earlier)))
    <2>1. u = Sum(earlier) + Sum(own) /\ v = Sum(earlier)
      BY <1>5, <1>6, <1>7
    <2> HIDE DEF u, v, Sum
    <2>2. u - v = Sum(own)
      BY <1>7, <2>1
    <2> QED
      BY <1>8, <2>2 DEF u, v
  <1> QED
    BY <1>9 DEF own, earlier, hits

LEMMA PeriodOfSeason ==
    ASSUME NEW season, NEW n, Season(season, n), NEW start \in Int, NEW end \in Int, start < end
    PROVE  LET own == OwnRounds(season, start, end)
               rows == PeriodRows(History(season), start, end)
           IN  /\ (1 \in DOMAIN rows) = (own # {})
               /\ own # {} =>
                    rows[1] = [score |-> SumFunctionOnSet(WorthIn(season, own), MatchesOf(season, own)),
                               doubles |-> Cardinality(WonIn(season, own, 2)),
                               supers |-> Cardinality(WonIn(season, own, 4))]
  <1> DEFINE own == OwnRounds(season, start, end)
             earlier == EarlierRounds(season, start)
             window == Window(History(season), start, end)
             past == Before(History(season), start)
             points == [h \in window |-> h.score]
             Of(u, rows) == {h \in rows : h.user = u}
             Gained(u, hits) ==
                Latest(Of(u, window))[hits]
                  - (IF Of(u, past) = {} THEN 0 ELSE Latest(Of(u, past))[hits])
             Entry(u) == [score |-> SumFunctionOnSet(points, Of(u, window)),
                          doubles |-> Gained(u, "doubles"), supers |-> Gained(u, "supers")]
             players == {h.user : h \in window}
  <1>1. PeriodRows(History(season), start, end) = [u \in players |-> Entry(u)]
    BY DEF PeriodRows
  <1>2. \A r : /\ HistoryOf(season, r).user = 1 /\ HistoryOf(season, r).closeAt = r
               /\ HistoryOf(season, r).round = r
               /\ HistoryOf(season, r).score = OutcomeOf(season[r]).total
    BY DEF HistoryOf
  <1>3. window = HistoriesOf(season, own) /\ past = HistoriesOf(season, earlier)
    BY <1>2, HistoryIsOfRounds DEF Window, Before, HistoriesOf, OwnRounds, EarlierRounds
  <1>4. n \in Nat /\ own \subseteq PlayedIn(season) /\ own \subseteq 1..n /\ earlier \subseteq 1..n
        /\ IsFiniteSet(own)
    <2>1. n \in Nat /\ PlayedIn(season) \subseteq 1..n /\ IsFiniteSet(PlayedIn(season))
      BY PlayedType DEF Season
    <2> QED
      BY <2>1, FS_Subset DEF OwnRounds, EarlierRounds
  <1> HIDE DEF own, earlier, window, past
  <1>5. Of(1, window) = window /\ Of(1, past) = past
    BY <1>2, <1>3 DEF HistoriesOf
  <1>6. (1 \in players) = (own # {})
    BY <1>2, <1>3 DEF HistoriesOf
  <1>7. ASSUME own # {}
        PROVE  Entry(1) = [score |-> SumFunctionOnSet(WorthIn(season, own), MatchesOf(season, own)),
                         doubles |-> Cardinality(WonIn(season, own, 2)),
                         supers |-> Cardinality(WonIn(season, own, 4))]
    <2>1. SumFunctionOnSet(points, window) = SumFunctionOnSet(Outcomes(season, own, "total"), own)
      <3> DEFINE b == [r \in own |-> HistoryOf(season, r)]
                 q == [h \in window |-> h.round]
                 g == Outcomes(season, own, "total")
      <3>1. Paired(window, own, b, q)
        <4>1. \A r \in own : b[r] \in window /\ b[r].round = r
          BY <1>2, <1>3 DEF HistoriesOf
        <4>2. \A h \in window : q[h] = h.round
          OBVIOUS
        <4>3. \A h \in window : h.round \in own /\ b[h.round] = h
          BY <1>2, <1>3 DEF HistoriesOf
        <4> HIDE DEF b, q
        <4> QED
          BY <4>1, <4>2, <4>3 DEF Paired
      <3>2. IsFiniteSet(window)
        <4>1. window = {b[r] : r \in own}
          BY <1>3 DEF HistoriesOf
        <4> HIDE DEF b
        <4> QED
          BY <1>4, <4>1, FiniteImage
      <3>3. \A h \in window : points[h] \in Int
        BY <1>2, <1>3, <1>4, OutcomeTypes DEF HistoriesOf
      <3>4. \A r \in own : g[r] = points[b[r]]
        BY <1>2, <1>3 DEF HistoriesOf, Outcomes
      <3>5. IsFiniteSet(own)
        BY <1>4
      <3> HIDE DEF points, b, q, g
      <3>6. SumFunctionOnSet(points, window) = SumFunctionOnSet(g, own)
        BY <3>1, <3>2, <3>3, <3>4, <3>5, SumRenamed
      <3> QED
        BY <3>6 DEF g
    <2>2. Latest(window) = HistoryOf(season, Max(own))
      BY <1>3, <1>4, <1>7, LatestIsLast
    <2>3. earlier # {} => Latest(past) = HistoryOf(season, Max(earlier))
      BY <1>3, <1>4, LatestIsLast
    <2>4. past = {} <=> earlier = {}
      BY <1>3 DEF HistoriesOf
    <2>5. ASSUME NEW what \in {"doubles", "supers"}
          PROVE  Gained(1, what) = SumFunctionOnSet(Outcomes(season, own, what), own)
      <3> DEFINE hits == Outcomes(season, PlayedIn(season), what)
      <3>1. \A r : HistoryOf(season, r)[what] = SumFunctionOnSet(hits, UpTo(season, r))
        BY DEF HistoryOf
      <3> HIDE DEF hits
      <3>2. Gained(1, what) =
              SumFunctionOnSet(hits, UpTo(season, Max(own)))
                - (IF earlier = {} THEN 0 ELSE SumFunctionOnSet(hits, UpTo(season, Max(earlier))))
        BY <1>5, <2>2, <2>3, <2>4, <3>1
      <3>3. SumFunctionOnSet(hits, UpTo(season, Max(own)))
                - (IF earlier = {} THEN 0 ELSE SumFunctionOnSet(hits, UpTo(season, Max(earlier))))
              = SumFunctionOnSet(Outcomes(season, own, what), own)
        BY <1>7, HitsAreGained DEF hits, own, earlier
      <3> QED
        BY <3>2, <3>3
    <2>6. /\ Entry(1).score = SumFunctionOnSet(Outcomes(season, own, "total"), own)
          /\ Gained(1, "doubles") = Cardinality(WonIn(season, own, 2))
          /\ Gained(1, "supers") = Cardinality(WonIn(season, own, 4))
      BY <1>4, <1>5, <2>1, <2>5, RoundsAreTheirMatches
    <2> HIDE DEF Gained, points
    <2> QED
      BY <1>4, <1>5, <2>1, <2>6, RoundsAreTheirMatches
  <1> HIDE DEF Entry, players
  <1> QED
    BY <1>1, <1>6, <1>7 DEF own

LEMMA AskedPeriodCountsItsMatches ==
    ASSUME PeriodAsked
    PROVE  PeriodCountsItsMatches
  <1> SUFFICES ASSUME question.about = "period"
               PROVE  PeriodCountsItsMatches
    BY DEF PeriodCountsItsMatches
  <1> DEFINE season == question.season
             start == question.start
             end == question.end
             own == OwnRounds(season, start, end)
             rows == PeriodRows(History(season), start, end)
  <1>1. /\ season \in Seasons /\ start \in 1..(Len(season) + 1) /\ end \in 1..(Len(season) + 1)
        /\ start < end
    BY DEF PeriodAsked
  <1> HIDE DEF season, start, end
  <1>2. Season(season, Len(season))
    BY <1>1, RulesAssumption DEF Season
  <1>3. start \in Int /\ end \in Int
    BY <1>1, <1>2 DEF Season
  <1>4. /\ (1 \in DOMAIN rows) = (own # {})
        /\ own # {} =>
             rows[1] = [score |-> SumFunctionOnSet(WorthIn(season, own), MatchesOf(season, own)),
                        doubles |-> Cardinality(WonIn(season, own, 2)),
                        supers |-> Cardinality(WonIn(season, own, 4))]
    BY <1>1, <1>2, <1>3, PeriodOfSeason
  <1>5. own = {r \in DOMAIN season : season[r] # Unset /\ r >= start /\ r < end}
    BY DEF OwnRounds, PlayedIn
  <1>6. SumFunctionOnSet(WorthIn(season, own), MatchesOf(season, own)) = SumFunction(WorthIn(season, own))
    BY DEF SumFunction, WorthIn
  <1> HIDE DEF own, rows
  <1>7. /\ (1 \in DOMAIN rows) = (own # {})
        /\ own # {} =>
             rows[1] = [score |-> SumFunction(WorthIn(season, own)),
                        doubles |-> Cardinality(WonIn(season, own, 2)),
                        supers |-> Cardinality(WonIn(season, own, 4))]
    BY <1>4, <1>6
  <1> QED
    BY <1>5, <1>7 DEF PeriodCountsItsMatches, WorthIn, WonIn, MatchesOf, rows, season, start, end

\* A ranking of a period shows what the matches of its own rounds were worth and the
\* doubles won in them, for exactly those who played: for a season of any number of
\* rounds, tickets of any number of matches, and any period of it.
THEOREM PeriodsCountTheirMatches == RulesSpec => []PeriodCountsItsMatches
  <1>1. PeriodAsked => PeriodCountsItsMatches
    BY AskedPeriodCountsItsMatches
  <1> QED
    BY <1>1, PeriodAskedHolds, PTL
================================================================================
