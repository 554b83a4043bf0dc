---------------------------- MODULE MonthlyProofs ----------------------------
(***************************************************************************)
(* Theorems about Monthly, for any season, any number of users, jobs and   *)
(* recomputations: its state is well formed, the initial score of a        *)
(* participant is final and that of the reference round, a month pays its  *)
(* own rounds, and a recomputation rebuilds what scoring wrote.            *)
(***************************************************************************)
EXTENDS Monthly, Aggregates, TLAPS

\* Inductive: a recomputation that is under way has a round left.
MonthlyInv == TypeOK /\ (rebuild.op # "idle" => rebuild.todo # {})

-----------------------------------------------------------------------------
(* SCORES ARE NUMBERS                                                       *)

\* The last total of a user among some rounds is a history of the user, or nothing.
LEMMA LastTotalType ==
    ASSUME TypeOK, NEW u \in Users, NEW R, R \subseteq Rounds
    PROVE  LastTotal(u, R) \in Int \cup {Null}
  <1> DEFINE played == {r \in R : history[u][r] # Null}
  <1>1. CASE played = {}
    BY <1>1 DEF LastTotal
  <1>2. CASE played # {}
    <2>1. played \subseteq 1..NumRounds /\ NumRounds \in Nat
      BY MonthlyAssumption DEF Rounds
    <2> HIDE DEF played
    <2>2. Max(played) \in played
      BY <1>2, <2>1, MaxIsMember
    <2>3. Max(played) \in Rounds
      BY <2>1, <2>2 DEF Rounds
    <2>4. LastTotal(u, R) = history[u][Max(played)]
      BY <1>2 DEF LastTotal, played
    <2> QED
      BY <2>3, <2>4 DEF TypeOK
  <1> QED
    BY <1>1, <1>2

LEMMA BaselineType ==
    ASSUME TypeOK, NEW u \in Users
    PROVE  Baseline(u) \in Int
  <1> DEFINE R == {r \in Rounds : r <= Reference /\ round[r] = "SCORED"}
  <1>1. LastTotal(u, R) \in Int \cup {Null}
    BY LastTotalType
  <1> QED
    BY <1>1 DEF Baseline, OrElse

LEMMA ScoreAtType ==
    ASSUME TypeOK, NEW u \in Users, NEW row \in Row, NEW at
    PROVE  ScoreAt(row, u, at) \in Int
  <1> DEFINE latest == LastTotal(u, {r \in Rounds : CloseAt[r] <= EndDate})
             before == LastTotal(u, {r \in Rounds : CloseAt[r] < Start})
             initial == IF row.since < Start /\ before # Null THEN before ELSE row.initial
             current == IF at < Start THEN initial
                        ELSE IF Ended(at) THEN OrElse(latest, initial)
                        ELSE total[u]
  <1>1. latest \in Int \cup {Null} /\ before \in Int \cup {Null}
    BY LastTotalType
  <1>2. total[u] \in Int
    BY DEF TypeOK
  <1>3. ScoreAt(row, u, at) = current - initial
    BY DEF ScoreAt
  <1> HIDE DEF latest, before
  <1>4. initial \in Int
    BY <1>1 DEF Row
  <1> HIDE DEF initial
  <1>5. current \in Int
    BY <1>1, <1>2, <1>4 DEF OrElse
  <1> HIDE DEF current
  <1> QED
    BY <1>3, <1>4, <1>5

-----------------------------------------------------------------------------
(* THE ROWS OF A RANKING                                                    *)

\* Ensure leaves the table of participants well formed, and a captured row as it is.
LEMMA EnsureCohort ==
    ASSUME TypeOK, NEW at \in Int, Ensure(at)
    PROVE  /\ cohort' \in [Kinds -> [Users -> Row \cup {Null}]]
           /\ \A k \in Kinds, u \in Users :
                cohort[k][u] # Null /\ cohort[k][u].captured => cohort'[k][u] = cohort[k][u]
  <1> DEFINE open == round[Reference] \in {"DRAFT", "OPEN"} /\ CloseAt[Reference] > at
             cutoff == IF open THEN at ELSE CloseAt[Reference]
             listed == {u \in Users : Created[u] < cutoff}
             scored == round[Reference] = "SCORED"
             Enrolled(k) == IF k = "GLOBAL" THEN listed ELSE listed \cap ProCohort(at, open)
             Stays(k, u) == \/ ~scored \/ k = "GLOBAL"
                            \/ u \in listed /\ ActiveAt(subscription[u], CloseAt[Reference])
                            \/ cohort[k][u].score # 0 \/ cohort[k][u].captured
             Kept(k, u) == IF cohort[k][u] # Null
                           THEN IF Stays(k, u) THEN cohort[k][u] ELSE Null
                           ELSE IF u \in Enrolled(k) THEN NewRow(at) ELSE Null
             Taken(row, u) == IF row # Null /\ scored /\ Pending(row)
                              THEN [row EXCEPT !.initial = Baseline(u), !.captured = TRUE]
                              ELSE row
  <1>1. cohort' = [k \in Kinds |-> [u \in Users |-> Taken(Kept(k, u), u)]]
    BY DEF Ensure
  <1>2. ASSUME NEW k \in Kinds, NEW u \in Users
        PROVE  /\ Taken(Kept(k, u), u) \in Row \cup {Null}
               /\ cohort[k][u] # Null /\ cohort[k][u].captured =>
                    Taken(Kept(k, u), u) = cohort[k][u]
    <2>1. cohort[k][u] \in Row \cup {Null}
      BY <1>2 DEF TypeOK
    <2>2. NewRow(at) \in Row
      BY DEF NewRow, Row
    <2>3. Kept(k, u) \in Row \cup {Null}
      <3> HIDE DEF Stays, Enrolled
      <3> QED
        BY <2>1, <2>2
    <2>4. cohort[k][u] # Null /\ cohort[k][u].captured => Kept(k, u) = cohort[k][u]
      OBVIOUS
    <2> HIDE DEF Kept
    <2>5. Baseline(u) \in Int
      BY <1>2, BaselineType
    <2>6. ASSUME NEW row \in Row
          PROVE  [row EXCEPT !.initial = Baseline(u), !.captured = TRUE] \in Row
      BY <2>5 DEF Row
    <2>7. Taken(Kept(k, u), u) \in Row \cup {Null}
      <3> HIDE DEF scored
      <3> QED
        BY <2>3, <2>6
    <2> QED
      BY <2>4, <2>7 DEF Pending
  <1> HIDE DEF Taken, Kept
  <1> QED
    BY ZenonT(40), <1>1, <1>2

\* Writing scores leaves the table well formed, and changes nothing but scores.
LEMMA WriteRowsCohort ==
    ASSUME TypeOK, NEW k \in Kinds, NEW rows, \A u \in DOMAIN rows : rows[u] \in Int,
           CanWrite(k, rows), WriteRows(k, rows)
    PROVE  /\ cohort' \in [Kinds -> [Users -> Row \cup {Null}]]
           /\ \A l \in Kinds, u \in Users :
                cohort[l][u] # Null =>
                  /\ cohort'[l][u] # Null
                  /\ cohort'[l][u].captured = cohort[l][u].captured
                  /\ cohort'[l][u].initial = cohort[l][u].initial
  <1> DEFINE New(u) == IF u \in DOMAIN rows THEN [cohort[k][u] EXCEPT !.score = rows[u]]
                       ELSE cohort[k][u]
  <1>1. cohort' = [cohort EXCEPT ![k] = [u \in Users |-> New(u)]]
    BY DEF WriteRows
  <1>2. ASSUME NEW u \in Users
        PROVE  /\ New(u) \in Row \cup {Null}
               /\ cohort[k][u] # Null =>
                    /\ New(u) # Null
                    /\ New(u).captured = cohort[k][u].captured
                    /\ New(u).initial = cohort[k][u].initial
    <2>1. cohort[k][u] \in Row \cup {Null}
      BY DEF TypeOK
    <2>2. CASE u \in DOMAIN rows
      <3>1. cohort[k][u] \in Row /\ rows[u] \in Int
        BY <2>1, <2>2 DEF CanWrite
      <3>2. New(u) = [cohort[k][u] EXCEPT !.score = rows[u]]
        BY <2>2
      <3>3. /\ [cohort[k][u] EXCEPT !.score = rows[u]] \in Row
            /\ [cohort[k][u] EXCEPT !.score = rows[u]].captured = cohort[k][u].captured
            /\ [cohort[k][u] EXCEPT !.score = rows[u]].initial = cohort[k][u].initial
        BY <3>1 DEF Row
      <3> QED
        BY <3>2, <3>3, MonthlyAssumption
    <2>3. CASE u \notin DOMAIN rows
      BY <2>1, <2>3
    <2> QED
      BY <2>2, <2>3
  <1> HIDE DEF New
  <1>3. cohort \in [Kinds -> [Users -> Row \cup {Null}]]
    BY DEF TypeOK
  <1> QED
    BY <1>1, <1>2, <1>3

\* What a pass has built is numbers.
LEMMA RowsAtType ==
    ASSUME TypeOK, NEW k \in Kinds, NEW at
    PROVE  \A u \in DOMAIN RowsAt(k, at) : RowsAt(k, at)[u] \in Int
  <1> SUFFICES ASSUME NEW u \in DOMAIN RowsAt(k, at)
               PROVE  RowsAt(k, at)[u] \in Int
    OBVIOUS
  <1>1. u \in Users /\ cohort[k][u] # Null /\ RowsAt(k, at)[u] = ScoreAt(cohort[k][u], u, at)
    BY DEF RowsAt
  <1>2. cohort[k][u] \in Row
    BY <1>1 DEF TypeOK
  <1> QED
    BY <1>1, <1>2, ScoreAtType

-----------------------------------------------------------------------------
(* TYPE CORRECTNESS: one lemma for the actions of each part.                *)

\* What the points of a round do to the totals and the histories.
LEMMA ScoringType ==
    ASSUME TypeOK, NEW r \in Rounds,
           total' = [u \in Users |-> total[u] + OrElse(Points[u][r], 0)],
           history' = [u \in Users |->
               IF u \in Played(r) THEN [history[u] EXCEPT ![r] = total'[u]] ELSE history[u]]
    PROVE  /\ total' \in [Users -> Int]
           /\ history' \in [Users -> [Rounds -> Int \cup {Null}]]
  <1>1. \A u \in Users : OrElse(Points[u][r], 0) \in Int
    BY MonthlyAssumption DEF OrElse
  <1>2. total' \in [Users -> Int]
    BY <1>1 DEF TypeOK
  <1> QED
    BY <1>2 DEF TypeOK

LEMMA SeasonType == MonthlyInv /\ Season => MonthlyInv'
  <1> SUFFICES ASSUME MonthlyInv, Season
               PROVE  MonthlyInv'
    OBVIOUS
  <1>1. CASE Tick
    BY <1>1, MonthlyAssumption DEF MonthlyInv, TypeOK, Tick, Time, IsPass
  <1>2. ASSUME NEW r \in Rounds, OpenRound(r)
        PROVE  MonthlyInv'
    BY <1>2 DEF MonthlyInv, TypeOK, OpenRound, Time, IsPass
  <1>3. ASSUME NEW r \in Rounds, CloseRound(r)
        PROVE  MonthlyInv'
    BY <1>3 DEF MonthlyInv, TypeOK, CloseRound, Time, IsPass
  <1> QED
    BY <1>1, <1>2, <1>3 DEF Season

\* A synchronisation is an Ensure for some moment.
LEMMA SyncIsEnsure == TypeOK /\ Sync => \E at \in Int : Ensure(at)
  <1> SUFFICES ASSUME TypeOK, Sync
               PROVE  \E at \in Int : Ensure(at)
    OBVIOUS
  <1>1. now \in Int
    BY MonthlyAssumption DEF TypeOK, Time
  <1>2. \A r \in Rounds : CloseAt[r] - 1 \in Int
    BY MonthlyAssumption
  <1> QED
    BY <1>1, <1>2 DEF Sync, EnsureBySchedule, EnsureBeforeOpening, EnsureBeforeClosing

LEMMA SyncType == MonthlyInv /\ Sync => MonthlyInv'
  <1> SUFFICES ASSUME MonthlyInv, Sync
               PROVE  MonthlyInv'
    OBVIOUS
  <1>1. PICK at \in Int : Ensure(at)
    BY SyncIsEnsure DEF MonthlyInv
  <1>2. cohort' \in [Kinds -> [Users -> Row \cup {Null}]]
    BY SMTT(30), <1>1, EnsureCohort DEF MonthlyInv
  <1>3. board' \in [Kinds -> {"NONE", "ACTIVE", "CLOSED"}]
    BY ZenonT(40), <1>1 DEF Ensure, Provisioned, MonthlyInv, TypeOK
  <1>4. UNCHANGED <<now, round, history, total, subscription, work, rebuild>>
    BY <1>1 DEF Ensure
  <1> QED
    BY <1>2, <1>3, <1>4 DEF MonthlyInv, TypeOK, IsPass

LEMMA UserType ==
    ASSUME MonthlyInv, NEW u \in Users,
           Renew(u) \/ Expire(u) \/ \E r \in Rounds : Backfill(u, r)
    PROVE  MonthlyInv'
  <1>1. CASE Renew(u)
    <2>1. subscription' \in [Users -> [from : Nat, until : Nat, expired : BOOLEAN] \cup {Null}]
      BY <1>1, MonthlyAssumption DEF MonthlyInv, TypeOK, Renew, ExtendsPeriod, Time
    <2> QED
      BY <1>1, <2>1 DEF MonthlyInv, TypeOK, Renew, IsPass
  <1>2. CASE Expire(u)
    <2>1. subscription' \in [Users -> [from : Nat, until : Nat, expired : BOOLEAN] \cup {Null}]
      BY ZenonT(40), <1>2 DEF MonthlyInv, TypeOK, Expire
    <2> QED
      BY <1>2, <2>1 DEF MonthlyInv, TypeOK, Expire, IsPass
  <1>3. ASSUME NEW r \in Rounds, Backfill(u, r)
        PROVE  MonthlyInv'
    <2>1. Points[u][r] \in Int
      BY <1>3, MonthlyAssumption DEF Backfill, Played
    <2>2. /\ total' \in [Users -> Int]
          /\ history' \in [Users -> [Rounds -> Int \cup {Null}]]
      BY <1>3, <2>1 DEF MonthlyInv, TypeOK, Backfill
    <2> QED
      BY <1>3, <2>2 DEF MonthlyInv, TypeOK, Backfill, IsPass
  <1> QED
    BY <1>1, <1>2, <1>3

\* A job that has a next statement is inside a pass.
LEMMA PassFields ==
    ASSUME TypeOK, NEW j \in Jobs, work[j].op \in {"recalc", "close"}
    PROVE  IsPass(work[j])
  BY DEF TypeOK, Idle

\* The table of the jobs stays well formed when one of them moves.
LEMMA WorkType ==
    ASSUME TypeOK, NEW j \in Jobs, NEW w, Set(j, w),
           w \in {Idle, [op |-> "scored"]} \/ IsPass(w)
    PROVE  /\ DOMAIN work' = Jobs
           /\ \A i \in Jobs : work'[i] \in {Idle, [op |-> "scored"]} \/ IsPass(work'[i])
  <1>1. \A i \in Jobs : work'[i] = IF i = j THEN w ELSE work[i]
    BY DEF Set, TypeOK
  <1>2. DOMAIN work' = Jobs
    BY DEF Set, TypeOK
  <1>3. ASSUME NEW i \in Jobs
        PROVE  work[i] \in {Idle, [op |-> "scored"]} \/ IsPass(work[i])
    BY DEF TypeOK
  <1> QED
    BY <1>1, <1>2, <1>3

LEMMA CurrentIsLeft ==
    ASSUME NEW w, IsPass(w)
    PROVE  Current(w) \in Kinds
  BY MonthlyAssumption DEF Current, IsPass

LEMMA JobType ==
    ASSUME MonthlyInv, NEW j \in Jobs, Job(j)
    PROVE  MonthlyInv'
  <1>a. TypeOK
    BY DEF MonthlyInv
  <1>1. ASSUME NEW r \in Rounds, ScoreRound(j, r)
        PROVE  MonthlyInv'
    <2>1. /\ total' \in [Users -> Int]
          /\ history' \in [Users -> [Rounds -> Int \cup {Null}]]
      BY <1>1, <1>a, ScoringType DEF ScoreRound
    <2>2. /\ DOMAIN work' = Jobs
          /\ \A i \in Jobs : work'[i] \in {Idle, [op |-> "scored"]} \/ IsPass(work'[i])
      BY <1>1, <1>a, WorkType DEF ScoreRound
    <2> QED
      BY <1>1, <2>1, <2>2 DEF MonthlyInv, TypeOK, ScoreRound
  <1>2. CASE StartRecalculation(j)
    <2> DEFINE todo == IF now < EndDate THEN {k \in Kinds : board[k] = "ACTIVE"} ELSE {}
               w == IF todo = {} THEN Idle
                    ELSE [op |-> "recalc", at |-> now, todo |-> todo, rows |-> Null]
    <2>1. now \in Nat /\ todo \subseteq Kinds
      BY MonthlyAssumption DEF MonthlyInv, TypeOK, Time
    <2>2. Set(j, w)
      BY <1>2 DEF StartRecalculation
    <2> HIDE DEF todo
    <2>3. w \in {Idle, [op |-> "scored"]} \/ IsPass(w)
      BY <2>1 DEF IsPass
    <2> HIDE DEF w
    <2>4. /\ DOMAIN work' = Jobs
          /\ \A i \in Jobs : work'[i] \in {Idle, [op |-> "scored"]} \/ IsPass(work'[i])
      BY <1>a, <2>2, <2>3, WorkType
    <2> QED
      BY <1>2, <2>4 DEF MonthlyInv, TypeOK, StartRecalculation
  <1>3. ASSUME NEW k \in Kinds, StartClose(j, k)
        PROVE  MonthlyInv'
    <2>1. IsPass([op |-> "close", at |-> now, todo |-> {k}, rows |-> Null])
      BY MonthlyAssumption DEF MonthlyInv, TypeOK, Time, IsPass
    <2>2. /\ DOMAIN work' = Jobs
          /\ \A i \in Jobs : work'[i] \in {Idle, [op |-> "scored"]} \/ IsPass(work'[i])
      BY <1>3, <1>a, <2>1, WorkType DEF StartClose
    <2> QED
      BY <1>3, <2>2 DEF MonthlyInv, TypeOK, StartClose
  <1>4. CASE BuildRows(j)
    <2> DEFINE rows == RowsAt(Current(work[j]), work[j].at)
               w == [work[j] EXCEPT !.rows = rows]
    <2>1. IsPass(work[j]) /\ Current(work[j]) \in Kinds
      BY <1>4, <1>a, PassFields, CurrentIsLeft DEF BuildRows
    <2>2. \A u \in DOMAIN rows : rows[u] \in Int
      BY <1>a, <2>1, RowsAtType
    <2>3. Set(j, w)
      BY <1>4 DEF BuildRows
    <2> HIDE DEF rows
    <2>4. IsPass(w)
      BY <2>1, <2>2 DEF IsPass
    <2> HIDE DEF w
    <2>5. /\ DOMAIN work' = Jobs
          /\ \A i \in Jobs : work'[i] \in {Idle, [op |-> "scored"]} \/ IsPass(work'[i])
      BY <1>a, <2>3, <2>4, WorkType
    <2> QED
      BY <1>4, <2>5 DEF MonthlyInv, TypeOK, BuildRows
  <1>5. CASE CommitRows(j)
    <2> DEFINE k == Current(work[j])
               left == work[j].todo \ {k}
               w == IF left = {} THEN Idle ELSE [work[j] EXCEPT !.todo = left, !.rows = Null]
    <2>1. IsPass(work[j]) /\ k \in Kinds
      BY <1>5, <1>a, PassFields, CurrentIsLeft DEF CommitRows
    <2>2. cohort' \in [Kinds -> [Users -> Row \cup {Null}]]
      BY <1>5, <1>a, <2>1, WriteRowsCohort DEF CommitRows, IsPass
    <2>3. Set(j, w)
      BY <1>5 DEF CommitRows
    <2> HIDE DEF k
    <2>4. w \in {Idle} \/ IsPass(w)
      BY <2>1 DEF IsPass
    <2> HIDE DEF w
    <2>5. /\ DOMAIN work' = Jobs
          /\ \A i \in Jobs : work'[i] \in {Idle, [op |-> "scored"]} \/ IsPass(work'[i])
      BY <1>a, <2>3, <2>4, WorkType
    <2> QED
      BY <1>5, <2>2, <2>5 DEF MonthlyInv, TypeOK, CommitRows
  <1>6. CASE CommitClose(j)
    <2> DEFINE k == Current(work[j])
    <2>1. IsPass(work[j]) /\ k \in Kinds
      BY <1>6, <1>a, PassFields, CurrentIsLeft DEF CommitClose
    <2>2. cohort' \in [Kinds -> [Users -> Row \cup {Null}]]
      BY <1>6, <1>a, <2>1, WriteRowsCohort DEF CommitClose, IsPass
    <2>3. board' \in [Kinds -> {"NONE", "ACTIVE", "CLOSED"}]
      BY <1>6 DEF CommitClose, MonthlyInv, TypeOK
    <2>4. /\ DOMAIN work' = Jobs
          /\ \A i \in Jobs : work'[i] \in {Idle, [op |-> "scored"]} \/ IsPass(work'[i])
      BY <1>6, <1>a, WorkType DEF CommitClose
    <2> QED
      BY <1>6, <2>2, <2>3, <2>4 DEF MonthlyInv, TypeOK, CommitClose
  <1>7. CASE Die(j)
    <2>1. /\ DOMAIN work' = Jobs
          /\ \A i \in Jobs : work'[i] \in {Idle, [op |-> "scored"]} \/ IsPass(work'[i])
      BY <1>7, <1>a, WorkType DEF Die
    <2> QED
      BY <1>7, <2>1 DEF MonthlyInv, TypeOK, Die
  <1> QED
    BY <1>1, <1>2, <1>3, <1>4, <1>5, <1>6, <1>7 DEF Job

LEMMA RecomputeType == MonthlyInv /\ Recompute => MonthlyInv'
  <1> SUFFICES ASSUME MonthlyInv, Recompute
               PROVE  MonthlyInv'
    OBVIOUS
  <1>a. TypeOK
    BY DEF MonthlyInv
  <1>1. CASE StartRecompute
    BY <1>1, MonthlyAssumption DEF MonthlyInv, TypeOK, StartRecompute, IsPass
  <1>2. CASE DeleteHistories
    BY ZenonT(40), <1>2 DEF MonthlyInv, TypeOK, DeleteHistories, IsPass
  <1>3. CASE ZeroTotals
    <2>1. total' \in [Users -> Int]
      BY <1>3 DEF ZeroTotals, Zeroed
    <2>2. /\ rebuild' \in [op : {"idle", "delete", "zero", "rebuild"}, rounds : SUBSET Rounds,
                           todo : SUBSET Rounds, started : 0..MaxRecomputes]
          /\ rebuild'.todo # {}
      BY <1>3 DEF MonthlyInv, TypeOK, ZeroTotals
    <2>3. \A j \in Jobs : work'[j] \in {Idle, [op |-> "scored"]} \/ IsPass(work'[j])
      BY <1>3 DEF MonthlyInv, TypeOK, ZeroTotals
    <2> QED
      BY <1>3, <2>1, <2>2, <2>3 DEF MonthlyInv, TypeOK, ZeroTotals
  <1>4. CASE RebuildRound
    <2> DEFINE r == Min(rebuild.todo)
               left == rebuild.todo \ {r}
    <2>1. rebuild.todo \subseteq 1..NumRounds /\ rebuild.todo # {} /\ NumRounds \in Nat
      BY <1>4, MonthlyAssumption DEF RebuildRound, MonthlyInv, TypeOK, Rounds
    <2>2. r \in Rounds
      BY <2>1, MinIsMember DEF Rounds
    <2>3. /\ total' \in [Users -> Int]
          /\ history' \in [Users -> [Rounds -> Int \cup {Null}]]
      BY <1>4, <1>a, <2>2, ScoringType DEF RebuildRound
    <2>4. /\ DOMAIN work' = Jobs
          /\ \A i \in Jobs : work'[i] \in {Idle, [op |-> "scored"]} \/ IsPass(work'[i])
      <3>1. CASE left = {}
        <4>1. PICK j \in Jobs : Set(j, [op |-> "scored"])
          BY <1>4, <3>1 DEF RebuildRound
        <4> QED
          BY <1>a, <4>1, WorkType
      <3>2. CASE left # {}
        BY <1>4, <1>a, <3>2 DEF RebuildRound, TypeOK, IsPass
      <3> QED
        BY <3>1, <3>2
    <2>5. /\ rebuild' \in [op : {"idle", "delete", "zero", "rebuild"}, rounds : SUBSET Rounds,
                           todo : SUBSET Rounds, started : 0..MaxRecomputes]
          /\ rebuild'.op # "idle" => rebuild'.todo # {}
      <3> HIDE DEF r
      <3>1. rebuild' = [rebuild EXCEPT !.todo = left, !.op = IF left = {} THEN "idle" ELSE @]
        BY <1>4 DEF RebuildRound, r
      <3> QED
        BY <3>1 DEF MonthlyInv, TypeOK
    <2> QED
      BY <1>4, <2>3, <2>4, <2>5 DEF MonthlyInv, TypeOK, RebuildRound
  <1>5. CASE StopRecompute
    BY <1>5 DEF MonthlyInv, TypeOK, StopRecompute, IsPass
  <1> QED
    BY <1>1, <1>2, <1>3, <1>4, <1>5 DEF Recompute

\* The initial states are well formed and every step leaves the state so.
LEMMA MonthlyInvHolds == Spec => []MonthlyInv
  <1>1. Init => MonthlyInv
    BY MonthlyAssumption DEF Init, MonthlyInv, TypeOK, Time
  <1>2. MonthlyInv /\ [Next]_vars => MonthlyInv'
    <2> SUFFICES ASSUME MonthlyInv, [Next]_vars
                 PROVE  MonthlyInv'
      OBVIOUS
    <2>1. CASE UNCHANGED vars
      <3>1. \A j \in Jobs : work'[j] \in {Idle, [op |-> "scored"]} \/ IsPass(work'[j])
        BY <2>1 DEF vars, MonthlyInv, TypeOK
      <3> QED
        BY <2>1, <3>1 DEF vars, MonthlyInv, TypeOK
    <2> QED
      BY <2>1, SeasonType, SyncType, UserType, JobType, RecomputeType DEF Next
  <1> QED
    BY <1>1, <1>2, PTL DEF Spec

\* The tables of a month and the passes over them are well formed in every state
\* (schema.prisma: rankings, ranking_participants, user_score_history).
THEOREM MonthlyTypeCorrect == Spec => []TypeOK
  BY MonthlyInvHolds, PTL DEF MonthlyInv

-----------------------------------------------------------------------------
(* THE INITIAL SCORE IS FINAL                                               *)

\* A step changes the rows by a synchronisation, or by a pass that writes its scores.
LEMMA CohortSteps ==
    ASSUME TypeOK, [Next]_vars
    PROVE  \/ UNCHANGED cohort
           \/ Sync
           \/ \E j \in Jobs : CommitRows(j) \/ CommitClose(j)
  <1>1. CASE Sync
    BY <1>1
  <1>2. CASE Season
    BY <1>2 DEF Season, Tick, OpenRound, CloseRound
  <1>3. CASE \E u \in Users : Renew(u) \/ Expire(u) \/ \E r \in Rounds : Backfill(u, r)
    BY <1>3 DEF Renew, Expire, Backfill
  <1>4. ASSUME NEW j \in Jobs, Job(j)
        PROVE  UNCHANGED cohort \/ CommitRows(j) \/ CommitClose(j)
    BY <1>4 DEF Job, ScoreRound, StartRecalculation, StartClose, BuildRows, Die
  <1>5. CASE Recompute
    BY <1>5 DEF Recompute, StartRecompute, DeleteHistories, ZeroTotals, RebuildRound,
                StopRecompute
  <1>6. CASE UNCHANGED vars
    BY <1>6 DEF vars
  <1> QED
    BY <1>1, <1>2, <1>3, <1>4, <1>5, <1>6 DEF Next

\* Whatever syncs, recalculations, closings, recomputations and backfills follow,
\* a captured initial score stays: scoreInitialCapturedAt guards the only statement
\* that writes it, and a captured participant is not removed.
THEOREM InitialScoreIsFinal == Spec => InitialIsFinal
  <1> DEFINE Keeps == \A k \in Kinds, u \in Users :
                 cohort[k][u] # Null /\ cohort[k][u].captured =>
                   /\ cohort'[k][u] # Null /\ cohort'[k][u].captured
                   /\ cohort'[k][u].initial = cohort[k][u].initial
  <1>1. TypeOK /\ [Next]_vars => Keeps
    <2> SUFFICES ASSUME TypeOK, [Next]_vars
                 PROVE  Keeps
      OBVIOUS
    <2>1. CASE UNCHANGED cohort
      BY <2>1
    <2>2. CASE Sync
      BY <2>2, SyncIsEnsure, EnsureCohort
    <2>3. ASSUME NEW j \in Jobs, CommitRows(j) \/ CommitClose(j)
          PROVE  Keeps
      <3> DEFINE k == Current(work[j])
                 rows == work[j].rows
      <3>1. /\ work[j].op \in {"recalc", "close"} /\ rows # Null
            /\ CanWrite(k, rows) /\ WriteRows(k, rows)
        BY <2>3 DEF CommitRows, CommitClose
      <3>2. k \in Kinds /\ \A u \in DOMAIN rows : rows[u] \in Int
        BY <3>1, PassFields, CurrentIsLeft DEF IsPass
      <3> HIDE DEF k, rows
      <3> QED
        BY <3>1, <3>2, WriteRowsCohort
    <2> QED
      BY <2>1, <2>2, <2>3, CohortSteps
  <1>2. TypeOK /\ [Next]_vars => [Keeps]_vars
    BY <1>1
  <1> QED
    BY <1>2, MonthlyTypeCorrect, PTL DEF Spec, InitialIsFinal

-----------------------------------------------------------------------------
(* LATE SUBSCRIBERS                                                         *)

\* A month has a round that closes first; of those that close together, the one
\* with the smallest number.
LEMMA FirstToClose ==
    \E r \in MonthRounds : \A s \in MonthRounds :
        CloseAt[r] < CloseAt[s] \/ (CloseAt[r] = CloseAt[s] /\ r <= s)
  <1> DEFINE times == {CloseAt[r] - Start + 1 : r \in MonthRounds}
             first == Min(times)
             R == {r \in MonthRounds : CloseAt[r] - Start + 1 = first}
  <1>1. /\ MonthRounds \subseteq 1..NumRounds /\ MonthRounds # {} /\ NumRounds \in Nat
        /\ Start \in Nat /\ Finish \in Nat /\ Start < Finish
        /\ \A r \in MonthRounds : CloseAt[r] \in Nat /\ CloseAt[r] >= Start /\ CloseAt[r] < Finish
    BY MonthlyAssumption DEF MonthRounds, Rounds
  <1>2. times \subseteq 1..(Finish - Start) /\ times # {} /\ Finish - Start \in Nat
    <2>1. ASSUME NEW r \in MonthRounds
          PROVE  CloseAt[r] - Start + 1 \in 1..(Finish - Start)
      <3>1. CloseAt[r] \in Nat /\ CloseAt[r] >= Start /\ CloseAt[r] < Finish
        BY <1>1
      <3> QED
        BY <1>1, <3>1
    <2>2. PICK r \in MonthRounds : TRUE
      BY <1>1
    <2>3. CloseAt[r] - Start + 1 \in times
      BY <2>2
    <2>4. Finish - Start \in Nat
      BY <1>1
    <2> QED
      BY <2>1, <2>3, <2>4
  <1> HIDE DEF times
  <1>3. first \in times /\ \A t \in times : first <= t
    BY <1>2, MinIsMember
  <1> HIDE DEF first
  <1>4. R \subseteq 1..NumRounds /\ R # {}
    BY <1>1, <1>3 DEF times
  <1> DEFINE m == Min(R)
  <1>5. m \in R /\ \A r \in R : m <= r
    <2> HIDE DEF R
    <2> QED
      BY <1>1, <1>4, MinIsMember
  <1> HIDE DEF m
  <1>6. ASSUME NEW s \in MonthRounds
        PROVE  CloseAt[m] < CloseAt[s] \/ (CloseAt[m] = CloseAt[s] /\ m <= s)
    <2>1. first <= CloseAt[s] - Start + 1
      BY <1>3 DEF times
    <2>2. CloseAt[m] - Start + 1 = first /\ m \in MonthRounds
      BY <1>5
    <2>3. CloseAt[s] - Start + 1 = first => m <= s
      BY <1>5
    <2>4. CloseAt[m] \in Nat /\ CloseAt[s] \in Nat /\ Start \in Nat
      BY <1>1, <2>2
    <2> QED
      BY <2>1, <2>2, <2>3, <2>4
  <1> QED
    BY <1>5, <1>6

\* Whoever an Ensure adds to the PRO ranking has a period that covers the last
\* moment before the reference round closes, or its closing.
LEMMA EnsureAddsSubscribers ==
    ASSUME TypeOK, NEW at \in Int, Ensure(at), at >= CloseAt[Reference] - 1,
           "PRO" \in Kinds, NEW u \in Users, cohort["PRO"][u] = Null, cohort'["PRO"][u] # Null
    PROVE  /\ subscription[u] # Null
           /\ subscription[u].from <= CloseAt[Reference]
           /\ subscription[u].until >= CloseAt[Reference]
  <1> DEFINE open == round[Reference] \in {"DRAFT", "OPEN"} /\ CloseAt[Reference] > at
             moment == IF open THEN at ELSE CloseAt[Reference]
  <1>1. u \in ProCohort(at, open)
    BY DEF Ensure
  <1>2. ActiveAt(subscription[u], moment)
    BY <1>1 DEF ProCohort
  <1>3. CloseAt[Reference] \in Int
    <2>1. \E r \in MonthRounds : \A s \in MonthRounds :
             CloseAt[r] < CloseAt[s] \/ (CloseAt[r] = CloseAt[s] /\ r <= s)
      BY FirstToClose
    <2>2. Reference \in MonthRounds
      BY <2>1 DEF Reference
    <2> QED
      BY <2>2, MonthlyAssumption DEF MonthRounds
  <1>4. subscription[u] # Null => subscription[u].from \in Nat /\ subscription[u].until \in Nat
    BY DEF TypeOK
  <1>5. moment \in Int /\ moment <= CloseAt[Reference] /\ moment >= CloseAt[Reference] - 1
    BY <1>3
  <1> HIDE DEF moment
  <1> QED
    BY SMTT(40), <1>2, <1>3, <1>4, <1>5 DEF ActiveAt

\* The moment a synchronisation works for, once the reference round is due, is not
\* more than a millisecond before its closing.
LEMMA SyncMoment ==
    ASSUME TypeOK, Sync, now >= CloseAt[Reference]
    PROVE  \E at \in Int : Ensure(at) /\ at >= CloseAt[Reference] - 1
  <1>1. /\ Reference \in MonthRounds
        /\ \A s \in MonthRounds : CloseAt[Reference] < CloseAt[s] \/ CloseAt[Reference] = CloseAt[s]
    BY FirstToClose DEF Reference
  <1>2. now \in Int /\ \A r \in MonthRounds : CloseAt[r] \in Int
    BY MonthlyAssumption DEF TypeOK, Time, MonthRounds
  <1>3. CASE EnsureBySchedule
    <2>1. Ensure(now) /\ now >= CloseAt[Reference] - 1
      BY <1>1, <1>2, <1>3 DEF EnsureBySchedule
    <2> QED
      BY <1>2, <2>1
  <1>4. ASSUME NEW r \in Rounds, EnsureBeforeOpening(r)
        PROVE  \E at \in Int : Ensure(at) /\ at >= CloseAt[Reference] - 1
    <2>1. Ensure(now) /\ now >= CloseAt[Reference] - 1
      BY <1>1, <1>2, <1>4 DEF EnsureBeforeOpening
    <2> QED
      BY <1>2, <2>1
  <1>5. ASSUME NEW r \in Rounds, EnsureBeforeClosing(r)
        PROVE  \E at \in Int : Ensure(at) /\ at >= CloseAt[Reference] - 1
    <2>1. Ensure(CloseAt[r] - 1) /\ r \in MonthRounds
      BY <1>5 DEF EnsureBeforeClosing
    <2>2. CloseAt[r] - 1 \in Int /\ CloseAt[r] - 1 >= CloseAt[Reference] - 1
      BY <1>1, <1>2, <2>1
    <2> QED
      BY <2>1, <2>2
  <1> QED
    BY <1>3, <1>4, <1>5 DEF Sync

\* Nobody enters the PRO ranking of a month on a subscription that was paid or
\* renewed after the reference round, whenever the synchronisations run, and in
\* whatever order with payments, expiries and rounds (RM-16).
THEOREM LateSubscribersNeverEnter == Spec => LateSubscribersStayOut
  <1> DEFINE Late == \A u \in Users :
                 "PRO" \in Kinds /\ cohort["PRO"][u] = Null /\ cohort'["PRO"][u] # Null
                 /\ now >= CloseAt[Reference]
                 => /\ subscription[u] # Null
                    /\ subscription[u].from <= CloseAt[Reference]
                    /\ subscription[u].until >= CloseAt[Reference]
  <1>1. TypeOK /\ [Next]_vars => Late
    <2> SUFFICES ASSUME TypeOK, [Next]_vars, NEW u \in Users, "PRO" \in Kinds,
                        cohort["PRO"][u] = Null, cohort'["PRO"][u] # Null,
                        now >= CloseAt[Reference]
                 PROVE  /\ subscription[u] # Null
                        /\ subscription[u].from <= CloseAt[Reference]
                        /\ subscription[u].until >= CloseAt[Reference]
      OBVIOUS
    <2>1. CASE Sync
      <3>1. PICK at \in Int : Ensure(at) /\ at >= CloseAt[Reference] - 1
        BY <2>1, SyncMoment
      <3> QED
        BY <3>1, EnsureAddsSubscribers
    <2>2. ASSUME NEW j \in Jobs, CommitRows(j) \/ CommitClose(j)
          PROVE  FALSE
      <3> DEFINE k == Current(work[j])
                 rows == work[j].rows
      <3>1. CanWrite(k, rows) /\ WriteRows(k, rows) /\ work[j].op \in {"recalc", "close"}
        BY <2>2 DEF CommitRows, CommitClose
      <3>2. k \in Kinds
        BY <3>1, PassFields, CurrentIsLeft
      <3> HIDE DEF k, rows
      <3> QED
        BY <3>1, <3>2 DEF WriteRows, CanWrite, TypeOK
    <2>3. CASE UNCHANGED cohort
      BY <2>3
    <2> QED
      BY <2>1, <2>2, <2>3, CohortSteps
  <1>2. TypeOK /\ [Next]_vars => [Late]_vars
    BY <1>1
  <1> QED
    BY <1>2, MonthlyTypeCorrect, PTL DEF Spec, LateSubscribersStayOut

-----------------------------------------------------------------------------
(* WHAT A PLAYER EARNED                                                     *)

\* The rounds that count for it are finitely many, and each gave a number.
LEMMA CountedRounds ==
    ASSUME NEW u \in Users, NEW R, R \subseteq Rounds
    PROVE  /\ IsFiniteSet({r \in R : round[r] = "SCORED" /\ u \in Played(r)})
           /\ \A r \in {s \in R : round[s] = "SCORED" /\ u \in Played(s)} : Points[u][r] \in Int
  <1>1. IsFiniteSet(Rounds)
    BY MonthlyAssumption, FS_Interval DEF Rounds
  <1>2. IsFiniteSet({r \in R : round[r] = "SCORED" /\ u \in Played(r)})
    BY <1>1, FS_Subset
  <1> QED
    BY <1>2, MonthlyAssumption DEF Played

LEMMA EarnedType ==
    ASSUME NEW u \in Users, NEW R, R \subseteq Rounds
    PROVE  Earned(u, R) \in Int
  <1> DEFINE S == {r \in R : round[r] = "SCORED" /\ u \in Played(r)}
  <1>1. IsFiniteSet(S) /\ \A r \in S : Points[u][r] \in Int
    BY CountedRounds
  <1>2. Earned(u, R) = SumFunctionOnSet(Points[u], S)
    BY DEF Earned
  <1> HIDE DEF S
  <1> QED
    BY <1>1, <1>2, SumType

LEMMA EarnedSplits ==
    ASSUME NEW u \in Users, NEW A, A \subseteq Rounds, NEW B, B \subseteq Rounds, A \cap B = {}
    PROVE  Earned(u, A \cup B) = Earned(u, A) + Earned(u, B)
  <1> DEFINE Counted(R) == {r \in R : round[r] = "SCORED" /\ u \in Played(r)}
  <1>1. \A R \in SUBSET Rounds :
            IsFiniteSet(Counted(R)) /\ \A r \in Counted(R) : Points[u][r] \in Int
    BY CountedRounds
  <1>2. \A R : Earned(u, R) = SumFunctionOnSet(Points[u], Counted(R))
    BY DEF Earned
  <1>3. Counted(A \cup B) = Counted(A) \cup Counted(B) /\ Counted(A) \cap Counted(B) = {}
    OBVIOUS
  <1>4. A \in SUBSET Rounds /\ B \in SUBSET Rounds
    OBVIOUS
  <1> HIDE DEF Counted
  <1>5. \A r \in Counted(A) \cup Counted(B) : Points[u][r] \in Int
    BY <1>1, <1>4
  <1>6. SumFunctionOnSet(Points[u], Counted(A) \cup Counted(B))
            = SumFunctionOnSet(Points[u], Counted(A)) + SumFunctionOnSet(Points[u], Counted(B))
    BY <1>1, <1>3, <1>4, <1>5, SumOfUnion
  <1> QED
    BY <1>2, <1>3, <1>6

\* A scored round adds its points, or nothing without a ticket.
LEMMA EarnedGrows ==
    ASSUME NEW u \in Users, NEW A, A \subseteq Rounds, NEW r \in Rounds, r \notin A,
           round[r] = "SCORED"
    PROVE  Earned(u, A \cup {r}) = Earned(u, A) + OrElse(Points[u][r], 0)
  <1> DEFINE S == {s \in {r} : round[s] = "SCORED" /\ u \in Played(s)}
  <1>1. Earned(u, A \cup {r}) = Earned(u, A) + Earned(u, {r})
    BY EarnedSplits
  <1>2. Earned(u, {r}) = SumFunctionOnSet(Points[u], S)
    BY DEF Earned
  <1>3. CASE u \in Played(r)
    <2>1. S = {r} /\ S \ {r} = {}
      BY <1>3
    <2>2. Points[u][r] \in Int /\ Points[u][r] # Null
      BY <1>3, MonthlyAssumption DEF Played
    <2>3. IsFiniteSet({r})
      BY FS_Singleton
    <2>4. SumFunctionOnSet(Points[u], {r})
              = Points[u][r] + SumFunctionOnSet(Points[u], {r} \ {r})
      BY <2>2, <2>3, SumTakesAny
    <2>5. SumFunctionOnSet(Points[u], {}) = 0
      BY SumOfNothing
    <2>6. Earned(u, {r}) = Points[u][r]
      <3>1. {r} \ {r} = {}
        OBVIOUS
      <3>2. SumFunctionOnSet(Points[u], {r}) = Points[u][r] + 0
        BY <2>4, <2>5, <3>1
      <3>3. Earned(u, {r}) = SumFunctionOnSet(Points[u], {r})
        <4> HIDE DEF S
        <4> QED
          BY <1>2, <2>1
      <3> QED
        BY <2>2, <3>2, <3>3
    <2> QED
      BY <1>1, <2>2, <2>6 DEF OrElse
  <1>4. CASE u \notin Played(r)
    <2>1. S = {} /\ Points[u][r] = Null
      BY <1>4 DEF Played
    <2>2. Earned(u, {r}) = 0
      BY <1>2, <2>1, SumOfNothing
    <2> QED
      BY <1>1, <2>1, <2>2 DEF OrElse
  <1> QED
    BY <1>3, <1>4

\* Only the scored rounds that u played count.
LEMMA EarnedSame ==
    ASSUME NEW u \in Users, NEW A, NEW B,
           \A r : round[r] = "SCORED" /\ u \in Played(r) => (r \in A <=> r \in B)
    PROVE  Earned(u, A) = Earned(u, B)
  <1>1. {r \in A : round[r] = "SCORED" /\ u \in Played(r)}
            = {r \in B : round[r] = "SCORED" /\ u \in Played(r)}
    OBVIOUS
  <1> QED
    BY <1>1 DEF Earned

LEMMA NothingEarned ==
    ASSUME NEW u \in Users, NEW R, \A r \in R : ~(round[r] = "SCORED" /\ u \in Played(r))
    PROVE  Earned(u, R) = 0
  <1>1. {r \in R : round[r] = "SCORED" /\ u \in Played(r)} = {}
    OBVIOUS
  <1> QED
    BY <1>1, SumOfNothing DEF Earned


-----------------------------------------------------------------------------
(* WHAT THE HISTORIES ARE                                                   *)

\* A history is one of a scored round that its user played.
HistoriesAreScored ==
    \A u \in Users, r \in Rounds : history[u][r] # Null => u \in Played(r) /\ round[r] = "SCORED"

\* A recomputation has scored rounds in hand, and what it has left is some of them.
RebuildsScored ==
    rebuild.op # "idle" =>
        /\ rebuild.todo \subseteq rebuild.rounds
        /\ \A r \in rebuild.rounds : round[r] = "SCORED"

\* A round is closed, and then scored, when its time is over.
ClosedIsPast == \A r \in Rounds : round[r] \in {"CLOSED", "SCORED"} => CloseAt[r] <= now

\* A closing began when the month was over.
ClosesAreLate == \A j \in Jobs : work[j].op = "close" => work[j].at > EndDate

HistoryInv ==
    MonthlyInv /\ HistoriesAreScored /\ RebuildsScored /\ ClosedIsPast /\ ClosesAreLate

\* A synchronisation writes the rankings and their rows, and nothing else.
LEMMA SyncKeeps ==
    ASSUME Sync
    PROVE  UNCHANGED <<now, round, history, total, subscription, work, rebuild>>
  <1>1. ASSUME NEW at, Ensure(at)
        PROVE  UNCHANGED <<now, round, history, total, subscription, work, rebuild>>
    BY <1>1 DEF Ensure
  <1>2. \E at : Ensure(at)
    BY DEF Sync, EnsureBySchedule, EnsureBeforeOpening, EnsureBeforeClosing
  <1> QED
    BY Zenon, <1>1, <1>2

\* What changes the rounds, the histories, the recomputation, or a job.
LEMMA RoundSteps ==
    ASSUME [Next]_vars
    PROVE  \/ UNCHANGED round
           \/ \E r \in Rounds : OpenRound(r) \/ CloseRound(r)
           \/ \E j \in Jobs, r \in Rounds : ScoreRound(j, r)
  <1>1. CASE Season
    BY <1>1 DEF Season, Tick
  <1>2. CASE Sync
    BY <1>2, SyncKeeps
  <1>3. CASE \E u \in Users : Renew(u) \/ Expire(u) \/ \E r \in Rounds : Backfill(u, r)
    BY <1>3 DEF Renew, Expire, Backfill
  <1>4. ASSUME NEW j \in Jobs, Job(j)
        PROVE  UNCHANGED round \/ \E r \in Rounds : ScoreRound(j, r)
    BY <1>4 DEF Job, StartRecalculation, StartClose, BuildRows, CommitRows, CommitClose, Die
  <1>5. CASE Recompute
    BY <1>5 DEF Recompute, StartRecompute, DeleteHistories, ZeroTotals, RebuildRound,
                StopRecompute
  <1>6. CASE UNCHANGED vars
    BY <1>6 DEF vars
  <1> QED
    BY <1>1, <1>2, <1>3, <1>4, <1>5, <1>6 DEF Next

LEMMA HistorySteps ==
    ASSUME [Next]_vars
    PROVE  \/ UNCHANGED <<history, total>>
           \/ \E j \in Jobs, r \in Rounds : ScoreRound(j, r)
           \/ \E u \in Users, r \in Rounds : Backfill(u, r)
           \/ DeleteHistories \/ ZeroTotals \/ RebuildRound
  <1>1. CASE Season
    BY <1>1 DEF Season, Tick, OpenRound, CloseRound
  <1>2. CASE Sync
    BY <1>2, SyncKeeps
  <1>3. CASE \E u \in Users : Renew(u) \/ Expire(u) \/ \E r \in Rounds : Backfill(u, r)
    BY <1>3 DEF Renew, Expire
  <1>4. ASSUME NEW j \in Jobs, Job(j)
        PROVE  UNCHANGED <<history, total>> \/ \E r \in Rounds : ScoreRound(j, r)
    BY <1>4 DEF Job, StartRecalculation, StartClose, BuildRows, CommitRows, CommitClose, Die
  <1>5. CASE Recompute
    BY <1>5 DEF Recompute, StartRecompute, StopRecompute
  <1>6. CASE UNCHANGED vars
    BY <1>6 DEF vars
  <1> QED
    BY <1>1, <1>2, <1>3, <1>4, <1>5, <1>6 DEF Next

LEMMA RebuildSteps ==
    ASSUME [Next]_vars
    PROVE  UNCHANGED rebuild \/ Recompute
  <1>1. CASE Season
    BY <1>1 DEF Season, Tick, OpenRound, CloseRound
  <1>2. CASE Sync
    BY <1>2, SyncKeeps
  <1>3. CASE \E u \in Users : Renew(u) \/ Expire(u) \/ \E r \in Rounds : Backfill(u, r)
    BY <1>3 DEF Renew, Expire, Backfill
  <1>4. ASSUME NEW j \in Jobs, Job(j)
        PROVE  UNCHANGED rebuild
    BY <1>4 DEF Job, ScoreRound, StartRecalculation, StartClose, BuildRows, CommitRows,
                CommitClose, Die
  <1>5. CASE UNCHANGED vars
    BY <1>5 DEF vars
  <1> QED
    BY <1>1, <1>2, <1>3, <1>4, <1>5 DEF Next

LEMMA WorkSteps ==
    ASSUME [Next]_vars
    PROVE  \/ UNCHANGED work
           \/ \E j \in Jobs : Job(j)
           \/ \E j \in Jobs : Set(j, [op |-> "scored"])
  <1>1. CASE Season
    BY <1>1 DEF Season, Tick, OpenRound, CloseRound
  <1>2. CASE Sync
    BY <1>2, SyncKeeps
  <1>3. CASE \E u \in Users : Renew(u) \/ Expire(u) \/ \E r \in Rounds : Backfill(u, r)
    BY <1>3 DEF Renew, Expire, Backfill
  <1>4. CASE Recompute
    BY <1>4 DEF Recompute, StartRecompute, DeleteHistories, ZeroTotals, RebuildRound,
                StopRecompute
  <1>5. CASE UNCHANGED vars
    BY <1>5 DEF vars
  <1> QED
    BY <1>1, <1>2, <1>3, <1>4, <1>5 DEF Next

\* Time goes on.
LEMMA TimeGoesOn ==
    ASSUME TypeOK, [Next]_vars
    PROVE  now \in Nat /\ now' \in Nat /\ now <= now'
  <1>1. now \in Nat
    BY MonthlyAssumption DEF TypeOK, Time
  <1>2. CASE Tick
    BY <1>1, <1>2 DEF Tick
  <1>3. UNCHANGED now \/ Tick
    <2>1. CASE Season
      BY <2>1 DEF Season, OpenRound, CloseRound
    <2>2. CASE Sync
      BY <2>2, SyncKeeps
    <2>3. CASE \E u \in Users : Renew(u) \/ Expire(u) \/ \E r \in Rounds : Backfill(u, r)
      BY <2>3 DEF Renew, Expire, Backfill
    <2>4. ASSUME NEW j \in Jobs, Job(j)
          PROVE  UNCHANGED now
      BY <2>4 DEF Job, ScoreRound, StartRecalculation, StartClose, BuildRows, CommitRows,
                  CommitClose, Die
    <2>5. CASE Recompute
      BY <2>5 DEF Recompute, StartRecompute, DeleteHistories, ZeroTotals, RebuildRound,
                  StopRecompute
    <2>6. CASE UNCHANGED vars
      BY <2>6 DEF vars
    <2> QED
      BY <2>1, <2>2, <2>3, <2>4, <2>5, <2>6 DEF Next
  <1> QED
    BY <1>1, <1>2, <1>3

\* A scored round stays scored.
LEMMA ScoredStays ==
    ASSUME TypeOK, [Next]_vars, NEW r \in Rounds, round[r] = "SCORED"
    PROVE  round'[r] = "SCORED"
  <1>1. round \in [Rounds -> {"DRAFT", "OPEN", "CLOSED", "SCORED", "CANCELLED"}]
    BY DEF TypeOK
  <1>2. ASSUME NEW s \in Rounds, OpenRound(s) \/ CloseRound(s)
        PROVE  round'[r] = "SCORED"
    BY <1>1, <1>2 DEF OpenRound, CloseRound
  <1>3. ASSUME NEW j \in Jobs, NEW s \in Rounds, ScoreRound(j, s)
        PROVE  round'[r] = "SCORED"
    BY <1>1, <1>3 DEF ScoreRound
  <1> QED
    BY <1>2, <1>3, RoundSteps

LEMMA HistoriesStep ==
    ASSUME HistoryInv, [Next]_vars
    PROVE  HistoriesAreScored'
  <1> SUFFICES ASSUME NEW u \in Users, NEW r \in Rounds, history'[u][r] # Null
               PROVE  u \in Played(r) /\ round'[r] = "SCORED"
    BY DEF HistoriesAreScored, Played
  <1>a. TypeOK /\ HistoriesAreScored /\ RebuildsScored
    BY DEF HistoryInv, MonthlyInv
  <1>b. history \in [Users -> [Rounds -> Int \cup {Null}]]
    BY <1>a DEF TypeOK
  <1>1. CASE history[u][r] # Null
    BY <1>1, <1>a, ScoredStays DEF HistoriesAreScored
  <1>2. ASSUME NEW j \in Jobs, NEW s \in Rounds, ScoreRound(j, s), history[u][r] = Null
        PROVE  u \in Played(r) /\ round'[r] = "SCORED"
    <2>1. s = r /\ u \in Played(r)
      BY <1>2, <1>b DEF ScoreRound
    <2>2. round'[r] = "SCORED"
      BY <1>2, <1>a, <2>1 DEF ScoreRound, TypeOK
    <2> QED
      BY <2>1, <2>2
  <1>3. ASSUME NEW v \in Users, NEW s \in Rounds, Backfill(v, s), history[u][r] = Null
        PROVE  u \in Played(r) /\ round'[r] = "SCORED"
    <2>1. s = r /\ u = v
      BY <1>3, <1>b DEF Backfill
    <2> QED
      BY <1>3, <2>1 DEF Backfill
  <1>4. CASE DeleteHistories /\ history[u][r] = Null
    BY <1>4 DEF DeleteHistories
  <1>5. CASE RebuildRound /\ history[u][r] = Null
    <2>1. rebuild.todo \subseteq 1..NumRounds /\ rebuild.todo # {} /\ NumRounds \in Nat
      BY <1>5, MonthlyAssumption DEF RebuildRound, HistoryInv, MonthlyInv, TypeOK, Rounds
    <2>2. Min(rebuild.todo) \in rebuild.todo
      BY <2>1, MinIsMember
    <2>3. r = Min(rebuild.todo) /\ u \in Played(r)
      BY <1>5, <1>b DEF RebuildRound
    <2>4. round[r] = "SCORED"
      BY <1>5, <1>a, <2>2, <2>3 DEF RebuildsScored, RebuildRound
    <2> QED
      BY <1>5, <2>3, <2>4 DEF RebuildRound
  <1>6. CASE UNCHANGED history /\ history[u][r] = Null
    BY <1>6
  <1>7. ZeroTotals => UNCHANGED history
    BY DEF ZeroTotals
  <1> QED
    BY <1>1, <1>2, <1>3, <1>4, <1>5, <1>6, <1>7, HistorySteps

LEMMA RebuildsStep ==
    ASSUME HistoryInv, [Next]_vars
    PROVE  RebuildsScored'
  <1>a. TypeOK /\ RebuildsScored
    BY DEF HistoryInv, MonthlyInv
  <1>b. rebuild \in [op : {"idle", "delete", "zero", "rebuild"}, rounds : SUBSET Rounds,
                     todo : SUBSET Rounds, started : 0..MaxRecomputes]
    BY <1>a DEF TypeOK
  <1>1. \A r \in Rounds : round[r] = "SCORED" => round'[r] = "SCORED"
    BY <1>a, ScoredStays
  <1>2. CASE UNCHANGED rebuild
    BY <1>a, <1>b, <1>1, <1>2 DEF RebuildsScored
  <1>3. CASE StartRecompute
    BY <1>b, <1>1, <1>3 DEF RebuildsScored, StartRecompute
  <1>4. CASE DeleteHistories \/ ZeroTotals \/ RebuildRound
    <2>1. /\ rebuild.op # "idle" /\ rebuild'.rounds = rebuild.rounds
          /\ rebuild'.todo \subseteq rebuild.todo
      <3>1. CASE DeleteHistories
        BY <1>b, <3>1 DEF DeleteHistories
      <3>2. CASE ZeroTotals
        BY <1>b, <3>2 DEF ZeroTotals
      <3>3. CASE RebuildRound
        <4> DEFINE r == Min(rebuild.todo)
                   left == rebuild.todo \ {r}
        <4>1. /\ rebuild.op = "rebuild"
              /\ rebuild' = [rebuild EXCEPT !.todo = left, !.op = IF left = {} THEN "idle" ELSE @]
          BY <3>3 DEF RebuildRound
        <4> HIDE DEF r
        <4> QED
          BY <1>b, <4>1
      <3> QED
        BY <1>4, <3>1, <3>2, <3>3
    <2> QED
      BY <1>a, <1>b, <1>1, <2>1 DEF RebuildsScored
  <1>5. CASE StopRecompute
    BY <1>b, <1>5 DEF RebuildsScored, StopRecompute
  <1> QED
    BY <1>2, <1>3, <1>4, <1>5, RebuildSteps DEF Recompute

LEMMA ClosedStep ==
    ASSUME HistoryInv, [Next]_vars
    PROVE  ClosedIsPast'
  <1> SUFFICES ASSUME NEW r \in Rounds, round'[r] \in {"CLOSED", "SCORED"}
               PROVE  CloseAt[r] <= now'
    BY DEF ClosedIsPast
  <1>a. TypeOK /\ ClosedIsPast
    BY DEF HistoryInv, MonthlyInv
  <1>b. now \in Nat /\ now' \in Nat /\ now <= now' /\ CloseAt[r] \in Nat
    BY <1>a, TimeGoesOn, MonthlyAssumption
  <1>c. round \in [Rounds -> {"DRAFT", "OPEN", "CLOSED", "SCORED", "CANCELLED"}]
    BY <1>a DEF TypeOK
  <1>1. CASE round[r] \in {"CLOSED", "SCORED"}
    BY <1>1, <1>a, <1>b DEF ClosedIsPast
  <1>2. ASSUME NEW s \in Rounds, OpenRound(s) \/ CloseRound(s),
               round[r] \notin {"CLOSED", "SCORED"}
        PROVE  CloseAt[r] <= now'
    <2>1. s = r /\ CloseRound(s)
      BY <1>2, <1>c DEF OpenRound, CloseRound
    <2> QED
      BY <1>b, <2>1 DEF CloseRound
  <1>3. ASSUME NEW j \in Jobs, NEW s \in Rounds, ScoreRound(j, s)
        PROVE  round[r] \in {"CLOSED", "SCORED"}
    BY <1>3, <1>c DEF ScoreRound
  <1> QED
    BY <1>1, <1>2, <1>3, RoundSteps

LEMMA ClosesStep ==
    ASSUME HistoryInv, [Next]_vars
    PROVE  ClosesAreLate'
  <1> SUFFICES ASSUME NEW i \in Jobs, work'[i].op = "close"
               PROVE  work'[i].at > EndDate
    BY DEF ClosesAreLate, EndDate
  <1>a. TypeOK /\ ClosesAreLate
    BY DEF HistoryInv, MonthlyInv
  <1>b. DOMAIN work = Jobs
    BY <1>a DEF TypeOK
  <1>c. now \in Nat /\ EndDate \in Int
    BY <1>a, MonthlyAssumption DEF TypeOK, Time, EndDate
  <1>1. CASE work'[i] = work[i]
    BY <1>1, <1>a DEF ClosesAreLate
  <1>2. ASSUME NEW j \in Jobs, NEW w, Set(j, w), work'[i] # work[i]
        PROVE  i = j /\ work'[i] = w
    BY <1>2, <1>b DEF Set
  <1>3. ASSUME NEW j \in Jobs, Job(j), work'[i] # work[i]
        PROVE  work'[i].at > EndDate
    <2>1. ASSUME NEW k \in Kinds, StartClose(j, k)
          PROVE  work'[i].at > EndDate
      <3>1. work'[i] = [op |-> "close", at |-> now, todo |-> {k}, rows |-> Null] /\ EndDate < now
        BY <1>2, <1>3, <2>1 DEF StartClose
      <3> QED
        BY <1>c, <3>1
    <2>2. CASE BuildRows(j)
      <3>1. i = j /\ work'[i] = [work[j] EXCEPT !.rows = RowsAt(Current(work[j]), work[j].at)]
        BY <1>2, <1>3, <2>2 DEF BuildRows
      <3>2. IsPass(work[j])
        BY <1>a, <2>2, PassFields DEF BuildRows
      <3>3. work'[i].op = work[i].op /\ work'[i].at = work[i].at
        BY <3>1, <3>2 DEF IsPass
      <3> QED
        BY <1>a, <3>3 DEF ClosesAreLate
    <2>3. ASSUME NEW r \in Rounds, ScoreRound(j, r)
          PROVE  FALSE
      BY <1>2, <1>3, <2>3 DEF ScoreRound
    <2>4. CASE StartRecalculation(j)
      BY <1>2, <1>3, <2>4 DEF StartRecalculation, Idle
    <2>5. CASE CommitRows(j)
      <3> DEFINE left == work[j].todo \ {Current(work[j])}
      <3>1. work'[i] = IF left = {} THEN Idle ELSE [work[j] EXCEPT !.todo = left, !.rows = Null]
        BY <1>2, <1>3, <2>5 DEF CommitRows
      <3>2. IsPass(work[j]) /\ work[j].op = "recalc"
        BY <1>a, <2>5, PassFields DEF CommitRows
      <3> HIDE DEF left
      <3> QED
        BY <3>1, <3>2 DEF IsPass, Idle
    <2>6. CASE CommitClose(j) \/ Die(j)
      BY <1>2, <1>3, <2>6 DEF CommitClose, Die, Idle
    <2> QED
      BY <1>3, <2>1, <2>2, <2>3, <2>4, <2>5, <2>6 DEF Job
  <1>4. ASSUME NEW j \in Jobs, Set(j, [op |-> "scored"]), work'[i] # work[i]
        PROVE  FALSE
    BY <1>2, <1>4
  <1> QED
    BY <1>1, <1>3, <1>4, WorkSteps

LEMMA HistoryInvHolds == Spec => []HistoryInv
  <1>1. Init => HistoryInv
    BY MonthlyAssumption DEF Init, HistoryInv, MonthlyInv, TypeOK, Time, HistoriesAreScored,
        RebuildsScored, ClosedIsPast, ClosesAreLate, Idle
  <1>2. HistoryInv /\ [Next]_vars /\ MonthlyInv' => HistoryInv'
    BY HistoriesStep, RebuildsStep, ClosedStep, ClosesStep DEF HistoryInv
  <1> QED
    BY <1>1, <1>2, MonthlyInvHolds, PTL DEF Spec


-----------------------------------------------------------------------------
(* THE INITIAL SCORE IS THAT OF THE REFERENCE ROUND                         *)

LEMMA ReferenceIsFirst ==
    /\ Reference \in Rounds /\ Reference \in MonthRounds
    /\ CloseAt[Reference] \in Int /\ CloseAt[Reference] >= Start /\ CloseAt[Reference] < Finish
  <1>1. Reference \in MonthRounds
    BY FirstToClose DEF Reference
  <1> QED
    BY <1>1, MonthlyAssumption DEF MonthRounds

\* From consolidated histories, the last one of u in R is what u had earned by then.
LEMMA LastIsEarned ==
    ASSUME HistoryInv, Consolidated, NEW u \in Users, NEW R, R \subseteq Rounds
    PROVE  \/ /\ LastTotal(u, R) = Null
              /\ \A r \in R : ~(round[r] = "SCORED" /\ u \in Played(r))
           \/ \E m \in R :
                /\ round[m] = "SCORED" /\ u \in Played(m)
                /\ \A r \in R : round[r] = "SCORED" /\ u \in Played(r) => r <= m
                /\ LastTotal(u, R) = Earned(u, 1..m) /\ LastTotal(u, R) # Null
  <1> DEFINE played == {r \in R : history[u][r] # Null}
  <1>1. ASSUME NEW r \in R, round[r] = "SCORED", u \in Played(r)
        PROVE  history[u][r] = Earned(u, 1..r) /\ history[u][r] # Null
    <2>1. r \in 1..NumRounds /\ NumRounds \in Nat
      BY MonthlyAssumption DEF Rounds
    <2>2. 1..r \subseteq Rounds
      BY <2>1 DEF Rounds
    <2>3. Earned(u, 1..r) \in Int
      BY <2>2, EarnedType
    <2>4. history[u][r] = Earned(u, 1..r)
      BY <1>1 DEF Consolidated
    <2> QED
      BY <2>3, <2>4, MonthlyAssumption
  <1>2. \A r \in R : history[u][r] # Null => round[r] = "SCORED" /\ u \in Played(r)
    BY DEF HistoryInv, HistoriesAreScored
  <1>3. \A r \in R : r \in played <=> round[r] = "SCORED" /\ u \in Played(r)
    BY <1>1, <1>2
  <1>4. LastTotal(u, R) = IF played = {} THEN Null ELSE history[u][Max(played)]
    BY DEF LastTotal
  <1>5. played \subseteq 1..NumRounds /\ NumRounds \in Nat /\ played \subseteq R
    BY MonthlyAssumption DEF Rounds
  <1> HIDE DEF played
  <1>6. CASE played = {}
    BY <1>3, <1>4, <1>6
  <1>7. CASE played # {}
    <2> DEFINE m == Max(played)
    <2>1. m \in played /\ \A r \in played : r <= m
      BY <1>5, <1>7, MaxIsMember
    <2>2. LastTotal(u, R) = history[u][m]
      BY <1>4, <1>7
    <2> HIDE DEF m
    <2>3. m \in R /\ round[m] = "SCORED" /\ u \in Played(m)
      BY <1>3, <1>5, <2>1
    <2>4. LastTotal(u, R) = Earned(u, 1..m) /\ LastTotal(u, R) # Null
      BY <1>1, <2>2, <2>3
    <2>5. \A r \in R : round[r] = "SCORED" /\ u \in Played(r) => r <= m
      BY <1>3, <2>1
    <2> QED
      BY <2>3, <2>4, <2>5
  <1> QED
    BY <1>6, <1>7

LEMMA BaselineIsEarned ==
    ASSUME HistoryInv, Consolidated, NEW u \in Users
    PROVE  Baseline(u) = Earned(u, 1..Reference)
  <1> DEFINE R == {r \in Rounds : r <= Reference /\ round[r] = "SCORED"}
  <1>1. /\ Baseline(u) = OrElse(LastTotal(u, R), 0)
        /\ R \subseteq Rounds
        /\ Reference \in Nat /\ Reference \in 1..NumRounds /\ NumRounds \in Nat
    BY ReferenceIsFirst, MonthlyAssumption DEF Baseline, Rounds
  <1>2. \A r : r \in R <=> r \in 1..Reference /\ round[r] = "SCORED"
    BY <1>1 DEF Rounds
  <1> HIDE DEF R
  <1>3. CASE /\ LastTotal(u, R) = Null
             /\ \A r \in R : ~(round[r] = "SCORED" /\ u \in Played(r))
    <2>1. Earned(u, 1..Reference) = 0
      BY <1>2, <1>3, NothingEarned
    <2> QED
      BY <1>1, <1>3, <2>1 DEF OrElse
  <1>4. ASSUME NEW m \in R, round[m] = "SCORED", u \in Played(m),
               \A r \in R : round[r] = "SCORED" /\ u \in Played(r) => r <= m,
               LastTotal(u, R) = Earned(u, 1..m), LastTotal(u, R) # Null
        PROVE  Baseline(u) = Earned(u, 1..Reference)
    <2>1. m \in 1..Reference
      BY <1>2
    <2>2. ASSUME NEW r, round[r] = "SCORED", u \in Played(r)
          PROVE  r \in 1..m <=> r \in 1..Reference
      <3>1. r \in 1..m => r \in 1..Reference
        BY <1>1, <2>1
      <3>2. r \in 1..Reference => r \in R
        BY <1>2, <2>2
      <3>3. r \in 1..Reference /\ r <= m => r \in 1..m
        BY <1>1, <2>1
      <3> QED
        BY <1>4, <2>2, <3>1, <3>2, <3>3
    <2>3. Earned(u, 1..m) = Earned(u, 1..Reference)
      <3> DEFINE A == 1..m
                 B == 1..Reference
      <3>1. \A r : round[r] = "SCORED" /\ u \in Played(r) => (r \in A <=> r \in B)
        BY <2>2
      <3> HIDE DEF A, B
      <3>2. Earned(u, A) = Earned(u, B)
        BY <3>1, EarnedSame
      <3> QED
        BY <3>2 DEF A, B
    <2> QED
      BY <1>1, <1>4, <2>3 DEF OrElse
  <1> QED
    BY <1>1, <1>3, <1>4, LastIsEarned

\* A row that Ensure captures takes the baseline of its player.
LEMMA EnsureCaptures ==
    ASSUME TypeOK, NEW at \in Int, Ensure(at), NEW k \in Kinds, NEW u \in Users,
           cohort'[k][u] # Null, cohort'[k][u].captured,
           cohort[k][u] = Null \/ ~cohort[k][u].captured
    PROVE  cohort'[k][u].initial = Baseline(u)
  <1> DEFINE open == round[Reference] \in {"DRAFT", "OPEN"} /\ CloseAt[Reference] > at
             cutoff == IF open THEN at ELSE CloseAt[Reference]
             listed == {v \in Users : Created[v] < cutoff}
             scored == round[Reference] = "SCORED"
             Enrolled(l) == IF l = "GLOBAL" THEN listed ELSE listed \cap ProCohort(at, open)
             Stays(l, v) == \/ ~scored \/ l = "GLOBAL"
                            \/ v \in listed /\ ActiveAt(subscription[v], CloseAt[Reference])
                            \/ cohort[l][v].score # 0 \/ cohort[l][v].captured
             Kept(l, v) == IF cohort[l][v] # Null
                           THEN IF Stays(l, v) THEN cohort[l][v] ELSE Null
                           ELSE IF v \in Enrolled(l) THEN NewRow(at) ELSE Null
             Taken(row, v) == IF row # Null /\ scored /\ Pending(row)
                              THEN [row EXCEPT !.initial = Baseline(v), !.captured = TRUE]
                              ELSE row
  <1>1. cohort' = [l \in Kinds |-> [v \in Users |-> Taken(Kept(l, v), v)]]
    BY DEF Ensure
  <1>2. cohort'[k][u] = Taken(Kept(k, u), u)
    BY <1>1
  <1>3. cohort[k][u] \in Row \cup {Null} /\ NewRow(at) \in Row /\ ~NewRow(at).captured
    BY DEF TypeOK, NewRow, Row
  <1>4. Kept(k, u) = Null \/ (Kept(k, u) \in Row /\ ~Kept(k, u).captured)
    <2> HIDE DEF Stays, Enrolled
    <2> QED
      BY <1>3
  <1> HIDE DEF Kept, scored
  <1>5. Kept(k, u) \in Row /\ cohort'[k][u] = [Kept(k, u) EXCEPT !.initial = Baseline(u), !.captured = TRUE]
    BY <1>2, <1>4 DEF Pending
  <1> QED
    BY <1>5 DEF Row

\* However late it is captured, the initial score of a participant is what the scored
\* rounds up to the reference round gave: the rounds that were scored in between do
\* not count (RM-04).
THEOREM InitialScoreIsReference == Spec => InitialIsReference
  <1> DEFINE Takes == \A k \in Kinds, u \in Users :
                 /\ cohort'[k][u] # Null /\ cohort'[k][u].captured
                 /\ cohort[k][u] = Null \/ ~cohort[k][u].captured
                 /\ Consolidated
                 => cohort'[k][u].initial = Earned(u, 1..Reference)
  <1>1. HistoryInv /\ [Next]_vars => Takes
    <2> SUFFICES ASSUME HistoryInv, [Next]_vars, NEW k \in Kinds, NEW u \in Users,
                        cohort'[k][u] # Null, cohort'[k][u].captured,
                        cohort[k][u] = Null \/ ~cohort[k][u].captured, Consolidated
                 PROVE  cohort'[k][u].initial = Earned(u, 1..Reference)
      OBVIOUS
    <2>a. TypeOK
      BY DEF HistoryInv, MonthlyInv
    <2>1. CASE UNCHANGED cohort
      BY <2>1
    <2>2. CASE Sync
      <3>1. PICK at \in Int : Ensure(at)
        BY <2>a, <2>2, SyncIsEnsure
      <3>2. cohort'[k][u].initial = Baseline(u)
        BY <2>a, <3>1, EnsureCaptures
      <3> QED
        BY <3>2, BaselineIsEarned
    <2>3. ASSUME NEW j \in Jobs, CommitRows(j) \/ CommitClose(j)
          PROVE  FALSE
      <3> DEFINE l == Current(work[j])
                 rows == work[j].rows
      <3>1. /\ work[j].op \in {"recalc", "close"} /\ rows # Null
            /\ CanWrite(l, rows) /\ WriteRows(l, rows)
        BY <2>3 DEF CommitRows, CommitClose
      <3>2. l \in Kinds /\ \A v \in DOMAIN rows : rows[v] \in Int
        BY <2>a, <3>1, PassFields, CurrentIsLeft DEF IsPass
      <3> HIDE DEF l, rows
      <3>3. cohort[k][u] # Null => cohort'[k][u].captured = cohort[k][u].captured
        BY <2>a, <3>1, <3>2, WriteRowsCohort
      <3>4. cohort[k][u] = Null => cohort'[k][u] = Null
        BY <2>a, <3>1, <3>2 DEF WriteRows, CanWrite, TypeOK
      <3> QED
        BY <3>3, <3>4
    <2> QED
      BY <2>a, <2>1, <2>2, <2>3, CohortSteps
  <1>2. HistoryInv /\ [Next]_vars => [Takes]_vars
    BY <1>1
  <1> QED
    BY <1>2, HistoryInvHolds, PTL DEF Spec, InitialIsReference


-----------------------------------------------------------------------------
(* A MONTH PAYS BY ITS OWN ROUNDS                                           *)

\* The rounds are numbered month after month.  create-round.service.ts numbers them
\* as they are created and does not look at their times, and the histories are read
\* by number: without it, a round that was created later and closes in an earlier
\* month is not told from those of its month.
MonthsInOrder ==
    \A r, s \in Rounds : r < s =>
        /\ CloseAt[s] < Start => CloseAt[r] < Start
        /\ CloseAt[s] < Finish => CloseAt[r] < Finish

\* The rounds that closed by the end of the month.
UpToEnd == {r \in Rounds : CloseAt[r] <= EndDate}

\* They are those up to the reference round, and those of the month that follow it.
LEMMA RoundsUpToEnd ==
    ASSUME MonthsInOrder
    PROVE  /\ UpToEnd = (1..Reference) \cup OwnRounds
           /\ (1..Reference) \cap OwnRounds = {}
           /\ 1..Reference \subseteq Rounds /\ OwnRounds \subseteq Rounds
  <1>1. /\ Reference \in 1..NumRounds /\ NumRounds \in Nat /\ Rounds = 1..NumRounds
        /\ CloseAt[Reference] \in Int /\ CloseAt[Reference] >= Start /\ CloseAt[Reference] < Finish
        /\ Start \in Nat /\ Finish \in Nat
    BY ReferenceIsFirst, MonthlyAssumption DEF Rounds
  <1>2. \A r \in Rounds : CloseAt[r] \in Nat /\ r \in Nat
    BY <1>1, MonthlyAssumption
  <1>3. \A r \in Rounds : r \in UpToEnd <=> CloseAt[r] < Finish
    BY <1>1, <1>2 DEF UpToEnd, EndDate
  <1>4. \A r \in Rounds : r \in OwnRounds <=>
            CloseAt[r] >= Start /\ CloseAt[r] < Finish /\ r > Reference
    BY DEF OwnRounds, MonthRounds
  <1>5. OwnRounds \subseteq Rounds /\ UpToEnd \subseteq Rounds /\ 1..Reference \subseteq Rounds
    BY <1>1 DEF OwnRounds, MonthRounds, UpToEnd
  <1>6. ASSUME NEW r \in Rounds, r > Reference
        PROVE  r \in UpToEnd <=> r \in OwnRounds
    <2>1. CloseAt[r] >= Start
      BY <1>1, <1>2, <1>6 DEF MonthsInOrder
    <2> QED
      BY <1>3, <1>4, <1>6, <2>1
  <1>7. ASSUME NEW r \in Rounds, r <= Reference
        PROVE  r \in UpToEnd /\ r \notin OwnRounds
    <2>1. CloseAt[r] < Finish
      BY <1>1, <1>2, <1>7 DEF MonthsInOrder
    <2> QED
      BY <1>1, <1>2, <1>3, <1>4, <1>7, <2>1
  <1>8. \A r \in Rounds : r \in 1..Reference <=> r <= Reference
    BY <1>1
  <1>9. \A r \in Rounds : r <= Reference \/ r > Reference
    BY <1>1, <1>2
  <1> QED
    BY <1>5, <1>6, <1>7, <1>8, <1>9

\* From consolidated histories, the last one in R is everything earned in R, when the
\* rounds of R are the first ones.
LEMMA LastIsAll ==
    ASSUME HistoryInv, Consolidated, NEW u \in Users, NEW R, R \subseteq Rounds,
           \A r \in Rounds, s \in R : r <= s => r \in R
    PROVE  IF LastTotal(u, R) = Null
           THEN \A r \in R : ~(round[r] = "SCORED" /\ u \in Played(r))
           ELSE LastTotal(u, R) = Earned(u, R)
  <1>1. ASSUME NEW m \in R, round[m] = "SCORED", u \in Played(m),
               \A r \in R : round[r] = "SCORED" /\ u \in Played(r) => r <= m
        PROVE  Earned(u, 1..m) = Earned(u, R)
    <2>1. m \in 1..NumRounds /\ NumRounds \in Nat /\ Rounds = 1..NumRounds
      BY MonthlyAssumption DEF Rounds
    <2>2. ASSUME NEW r, round[r] = "SCORED", u \in Played(r)
          PROVE  r \in 1..m <=> r \in R
      <3>1. r \in 1..m => r \in Rounds /\ r <= m
        BY <2>1
      <3>2. r \in R => r <= m /\ r \in 1..NumRounds
        BY <1>1, <2>1, <2>2
      <3> QED
        BY <2>1, <3>1, <3>2
    <2> QED
      BY <2>2, EarnedSame
  <1> QED
    BY <1>1, LastIsEarned

\* The score of a row that was captured from consolidated histories.
LEMMA ScoreIsOwn ==
    ASSUME HistoryInv, MonthsInOrder, Consolidated, NEW u \in Users, NEW row \in Row,
           row.initial = Earned(u, 1..Reference), row.since >= Start, NEW at \in Int,
           \/ Ended(at)
           \/ /\ at >= Start /\ total[u] = Earned(u, Rounds)
              /\ \A r \in Rounds : round[r] = "SCORED" => r \in UpToEnd
    PROVE  ScoreAt(row, u, at) = Earned(u, OwnRounds)
  <1> DEFINE latest == LastTotal(u, UpToEnd)
             before == LastTotal(u, {r \in Rounds : CloseAt[r] < Start})
             initial == IF row.since < Start /\ before # Null THEN before ELSE row.initial
             current == IF at < Start THEN initial
                        ELSE IF Ended(at) THEN OrElse(latest, initial)
                        ELSE total[u]
  <1>1. ScoreAt(row, u, at) = current - initial
    BY DEF ScoreAt, UpToEnd
  <1>2. /\ Start \in Nat /\ Finish \in Nat /\ Start < Finish /\ row.since \in Int
        /\ (Ended(at) <=> at > Finish - 1)
    BY MonthlyAssumption DEF Row, Ended, EndDate
  <1>3. initial = Earned(u, 1..Reference)
    <2> HIDE DEF before
    <2> QED
      BY <1>2
  <1>4. current = IF Ended(at) THEN OrElse(latest, initial) ELSE total[u]
    <2> HIDE DEF initial, latest
    <2> QED
      BY <1>2
  <1> HIDE DEF initial, current, latest
  <1>5. /\ Earned(u, UpToEnd) = Earned(u, 1..Reference) + Earned(u, OwnRounds)
        /\ Earned(u, 1..Reference) \in Int /\ Earned(u, OwnRounds) \in Int
    <2> DEFINE A == 1..Reference
    <2>1. UpToEnd = A \cup OwnRounds /\ A \cap OwnRounds = {}
      BY RoundsUpToEnd
    <2>2. A \subseteq Rounds /\ OwnRounds \subseteq Rounds
      BY RoundsUpToEnd
    <2> HIDE DEF A
    <2>3. Earned(u, A \cup OwnRounds) = Earned(u, A) + Earned(u, OwnRounds)
      BY <2>1, <2>2, EarnedSplits
    <2>4. Earned(u, A) \in Int /\ Earned(u, OwnRounds) \in Int
      BY <2>2, EarnedType
    <2> QED
      BY <2>1, <2>3, <2>4 DEF A
  <1>6. CASE Ended(at)
    <2>1. ASSUME NEW r \in Rounds, NEW s \in UpToEnd, r <= s
          PROVE  r \in UpToEnd
      <3>1. /\ s \in Rounds /\ r \in Int /\ s \in Int /\ CloseAt[r] \in Nat /\ CloseAt[s] \in Nat
            /\ CloseAt[s] < Finish
        BY <1>2, MonthlyAssumption DEF UpToEnd, EndDate, Rounds
      <3>2. r = s \/ CloseAt[r] < Finish
        BY <2>1, <3>1 DEF MonthsInOrder
      <3> QED
        BY <1>2, <3>1, <3>2 DEF UpToEnd, EndDate
    <2>2. UpToEnd \subseteq Rounds
      BY DEF UpToEnd
    <2>3. IF latest = Null
          THEN \A r \in UpToEnd : ~(round[r] = "SCORED" /\ u \in Played(r))
          ELSE latest = Earned(u, UpToEnd)
      BY <2>1, <2>2, LastIsAll DEF latest
    <2>4. CASE latest = Null
      <3>1. OwnRounds \subseteq UpToEnd
        BY RoundsUpToEnd
      <3>2. Earned(u, OwnRounds) = 0
        BY <2>3, <2>4, <3>1, NothingEarned
      <3> QED
        BY <1>1, <1>3, <1>4, <1>5, <1>6, <2>4, <3>2 DEF OrElse
    <2>5. CASE latest # Null
      <3>1. current = Earned(u, UpToEnd)
        BY <1>4, <1>6, <2>3, <2>5 DEF OrElse
      <3> QED
        BY <1>1, <1>3, <1>5, <3>1
    <2> QED
      BY <2>4, <2>5
  <1>7. CASE ~Ended(at)
    <2>1. \A r : round[r] = "SCORED" /\ u \in Played(r) => (r \in Rounds => r \in UpToEnd)
      BY <1>7
    <2>2. Earned(u, Rounds) = Earned(u, UpToEnd)
      <3>1. {r \in Rounds : round[r] = "SCORED" /\ u \in Played(r)}
                = {r \in UpToEnd : round[r] = "SCORED" /\ u \in Played(r)}
        BY <2>1 DEF UpToEnd
      <3> QED
        BY <3>1 DEF Earned
    <2>3. current = Earned(u, UpToEnd)
      BY <1>4, <1>7, <2>2
    <2> QED
      BY <1>1, <1>3, <1>5, <2>3
  <1> QED
    BY <1>6, <1>7

\* What the page shows.
LEMMA PageShowsOwn ==
    ASSUME MonthsInOrder, HistoryInv
    PROVE  PageIsOwn
  <1> SUFFICES ASSUME NEW k \in Kinds, board[k] = "ACTIVE", now >= Start, Consolidated,
                      \A u \in Users : total[u] = Earned(u, Rounds),
                      NEW u \in DOMAIN Page(k), Measured(k, u)
               PROVE  Page(k)[u].points = Earned(u, OwnRounds)
    BY DEF PageIsOwn
  <1>a. TypeOK
    BY DEF HistoryInv, MonthlyInv
  <1>1. PagePoints(k) = RowsAt(k, now)
    BY DEF PagePoints
  <1>2. u \in DOMAIN PagePoints(k) /\ Page(k)[u].points = PagePoints(k)[u]
    BY DEF Page
  <1>3. u \in Users /\ cohort[k][u] # Null /\ RowsAt(k, now)[u] = ScoreAt(cohort[k][u], u, now)
    BY <1>1, <1>2 DEF RowsAt
  <1>4. /\ cohort[k][u] \in Row
        /\ cohort[k][u].initial = Earned(u, 1..Reference) /\ cohort[k][u].since >= Start
    BY <1>a, <1>3 DEF TypeOK, Measured
  <1>5. now \in Nat
    BY <1>a, MonthlyAssumption DEF TypeOK, Time
  <1>6. ~Ended(now) => \A r \in Rounds : round[r] = "SCORED" => r \in UpToEnd
    <2> SUFFICES ASSUME ~Ended(now), NEW r \in Rounds, round[r] = "SCORED"
                 PROVE  r \in UpToEnd
      OBVIOUS
    <2>1. CloseAt[r] <= now
      BY DEF HistoryInv, ClosedIsPast
    <2>2. CloseAt[r] \in Nat /\ EndDate \in Int
      BY MonthlyAssumption DEF EndDate
    <2> QED
      BY <1>5, <2>1, <2>2 DEF Ended, UpToEnd
  <1>7. ScoreAt(cohort[k][u], u, now) = Earned(u, OwnRounds)
    BY <1>3, <1>4, <1>5, <1>6, ScoreIsOwn
  <1> QED
    BY <1>1, <1>2, <1>3, <1>7

\* A closing builds its rows in one step, for the ranking it has in hand.
LEMMA SettlingBuilds ==
    ASSUME HistoryInv, [Next]_vars, NEW j \in Jobs, NEW k \in Kinds, Settles(j, k)
    PROVE  work'[j].rows = RowsAt(k, work[j].at) /\ work[j].at \in Nat
  <1>a. TypeOK /\ DOMAIN work = Jobs
    BY DEF HistoryInv, MonthlyInv, TypeOK
  <1>b. IsPass(work[j]) /\ work[j].op = "close" /\ work[j].todo = {k} /\ work[j].rows = Null
    BY <1>a, PassFields DEF Settles
  <1>c. work'[j] # work[j] /\ work'[j].op = "close" /\ work'[j].rows # Null
    BY DEF Settles
  <1>d. Current(work[j]) = k
    BY <1>b, MonthlyAssumption DEF Current
  <1>1. ASSUME NEW i \in Jobs, NEW w, Set(i, w)
        PROVE  i = j /\ work'[j] = w
    BY <1>1, <1>a, <1>c DEF Set
  <1>2. CASE BuildRows(j)
    <2>1. work'[j] = [work[j] EXCEPT !.rows = RowsAt(k, work[j].at)]
      BY <1>1, <1>2, <1>d DEF BuildRows
    <2> QED
      BY <1>b, <2>1 DEF IsPass
  <1>3. ASSUME NEW i \in Jobs, Job(i)
        PROVE  BuildRows(j)
    <2>1. CASE BuildRows(i)
      BY <1>1, <2>1 DEF BuildRows
    <2>2. ASSUME NEW r \in Rounds, ScoreRound(i, r)
          PROVE  FALSE
      BY <1>1, <1>c, <2>2 DEF ScoreRound
    <2>3. CASE StartRecalculation(i)
      BY <1>1, <1>b, <2>3 DEF StartRecalculation
    <2>4. ASSUME NEW l \in Kinds, StartClose(i, l)
          PROVE  FALSE
      BY <1>1, <1>b, <2>4 DEF StartClose, Idle
    <2>5. CASE CommitRows(i)
      BY <1>1, <1>b, <2>5 DEF CommitRows
    <2>6. CASE CommitClose(i) \/ Die(i)
      BY <1>1, <1>c, <2>6 DEF CommitClose, Die, Idle
    <2> QED
      BY <1>3, <2>1, <2>2, <2>3, <2>4, <2>5, <2>6 DEF Job
  <1>4. ASSUME NEW i \in Jobs, Set(i, [op |-> "scored"])
        PROVE  FALSE
    BY <1>1, <1>4, <1>c
  <1> QED
    BY <1>b, <1>c, <1>2, <1>3, <1>4, WorkSteps

\* When the rounds are numbered month after month: at however late a time a month is
\* closed, and beside the scorings of the next month, the score of a player who entered
\* in the month and was captured from consolidated histories is what the scored rounds
\* after the reference round gave; until then the page shows no other (RM-05, RM-06).
THEOREM MonthPaysItsOwnRounds ==
    ASSUME MonthsInOrder
    PROVE  Spec => MonthScoreIsOwn
  <1> DEFINE Settled == \A j \in Jobs, k \in Kinds : Settles(j, k) /\ Consolidated =>
                 \A u \in DOMAIN work'[j].rows :
                     cohort[k][u].initial = Earned(u, 1..Reference) /\ cohort[k][u].since >= Start =>
                         work'[j].rows[u] = Earned(u, OwnRounds)
             Owns == Settled /\ PageIsOwn'
  <1>1. HistoryInv /\ [Next]_vars => Settled
    <2> SUFFICES ASSUME HistoryInv, [Next]_vars, NEW j \in Jobs, NEW k \in Kinds, Settles(j, k),
                        Consolidated, NEW u \in DOMAIN work'[j].rows,
                        cohort[k][u].initial = Earned(u, 1..Reference),
                        cohort[k][u].since >= Start
                 PROVE  work'[j].rows[u] = Earned(u, OwnRounds)
      OBVIOUS
    <2>1. work'[j].rows = RowsAt(k, work[j].at) /\ work[j].at \in Nat
      BY SettlingBuilds
    <2>2. /\ u \in Users /\ cohort[k][u] # Null
          /\ work'[j].rows[u] = ScoreAt(cohort[k][u], u, work[j].at)
      BY <2>1 DEF RowsAt
    <2>3. cohort[k][u] \in Row
      BY <2>2 DEF HistoryInv, MonthlyInv, TypeOK
    <2>4. Ended(work[j].at)
      BY DEF HistoryInv, ClosesAreLate, Settles, Ended
    <2> QED
      BY <2>1, <2>2, <2>3, <2>4, ScoreIsOwn
  <1>2. HistoryInv => PageIsOwn
    BY PageShowsOwn
  <1>3. HistoryInv /\ PageIsOwn' /\ [Next]_vars => [Owns]_vars
    BY <1>1
  <1> QED
    BY <1>2, <1>3, HistoryInvHolds, PTL DEF Spec, MonthScoreIsOwn


-----------------------------------------------------------------------------
(* A RECOMPUTATION REBUILDS                                                 *)

\* What u's tickets in the rounds of R gave.
Gains(u, R) == SumFunctionOnSet(Points[u], {r \in R : u \in Played(r)})

\* No round was scored since the recomputation began.
NothingScoredSince == rebuild.rounds = {r \in Rounds : round[r] = "SCORED"}

Done == rebuild.rounds \ rebuild.todo

\* What is left after the next round.
Left == rebuild.todo \ {Min(rebuild.todo)}

\* A backfill was faster: a round that is left has a history, and will be refused.
Overtaken == \E r \in rebuild.todo, u \in Users : u \in Played(r) /\ history[u][r] # Null

\* The totals and the histories are those of the rounds that are done.
Rebuilt ==
    \A u \in Users :
        /\ total[u] = Gains(u, Done)
        /\ \A r \in Done : u \in Played(r) =>
               history[u][r] = Gains(u, {s \in rebuild.rounds : s <= r})

RebuildInv ==
    /\ rebuild.op \in {"delete", "zero"} => rebuild.todo = rebuild.rounds
    /\ rebuild.op = "rebuild" => \A r \in Done, s \in rebuild.todo : r < s
    /\ rebuild.op = "rebuild" /\ NothingScoredSince => Overtaken \/ Rebuilt

LEMMA GainsAreEarned ==
    ASSUME NEW u \in Users, NEW A, \A r \in A : round[r] = "SCORED"
    PROVE  Gains(u, A) = Earned(u, A)
  <1>1. {r \in A : u \in Played(r)} = {r \in A : round[r] = "SCORED" /\ u \in Played(r)}
    OBVIOUS
  <1> QED
    BY <1>1 DEF Gains, Earned

\* A number is not a missing history.
LEMMA GainsType ==
    ASSUME NEW u \in Users, NEW A, A \subseteq Rounds, \A r \in A : round[r] = "SCORED"
    PROVE  Gains(u, A) \in Int /\ Gains(u, A) # Null
  BY GainsAreEarned, EarnedType, MonthlyAssumption

\* What the next round of a recomputation does, when nothing was scored since it began.
LEMMA RebuildAdds ==
    ASSUME HistoryInv, RebuildInv, RebuildRound, NothingScoredSince
    PROVE  \/ \E s \in Left, u \in Users : u \in Played(s) /\ history'[u][s] # Null
           \/ \A u \in Users :
                /\ total'[u] = Gains(u, rebuild.rounds \ Left)
                /\ \A s \in rebuild.rounds \ Left : u \in Played(s) =>
                       history'[u][s] = Gains(u, {x \in rebuild.rounds : x <= s})
  <1> DEFINE r == Min(rebuild.todo)
  <1>a. /\ TypeOK /\ rebuild.op = "rebuild" /\ rebuild.todo # {}
        /\ rebuild.todo \subseteq rebuild.rounds /\ rebuild.rounds \subseteq Rounds
        /\ \A s \in rebuild.rounds : round[s] = "SCORED"
    BY DEF HistoryInv, MonthlyInv, RebuildsScored, RebuildRound, NothingScoredSince
  <1>b. NumRounds \in Nat /\ Rounds = 1..NumRounds
    BY MonthlyAssumption DEF Rounds
  <1>c. r \in rebuild.todo /\ \A s \in rebuild.todo : r <= s
    BY <1>a, <1>b, MinIsMember
  <1>d. /\ \A u \in Played(r) : history[u][r] = Null
        /\ total' = [u \in Users |-> total[u] + OrElse(Points[u][r], 0)]
        /\ history' = [u \in Users |->
               IF u \in Played(r) THEN [history[u] EXCEPT ![r] = total'[u]] ELSE history[u]]
    BY DEF RebuildRound
  <1>e. history \in [Users -> [Rounds -> Int \cup {Null}]]
    BY <1>a DEF TypeOK
  <1>0. Left = rebuild.todo \ {r}
    BY DEF Left
  <1> HIDE DEF r
  <1>f. r \in Rounds /\ r \notin Done /\ Done \subseteq Rounds
        /\ rebuild.rounds \ Left = Done \cup {r}
    BY <1>0, <1>a, <1>c DEF Done
  <1>g. \A s \in Done, t \in rebuild.todo : s < t
    BY <1>a DEF RebuildInv
  <1>1. CASE Overtaken
    <2>1. PICK s \in rebuild.todo, u \in Users : u \in Played(s) /\ history[u][s] # Null
      BY <1>1 DEF Overtaken
    <2>2. s # r
      BY <1>d, <2>1
    <2>3. history'[u][s] = history[u][s]
      BY <1>a, <1>d, <1>e, <2>1, <2>2
    <2> QED
      BY <1>0, <2>1, <2>2, <2>3
  <1>2. CASE Rebuilt
    <2> SUFFICES ASSUME NEW u \in Users
                 PROVE  /\ total'[u] = Gains(u, rebuild.rounds \ Left)
                        /\ \A s \in rebuild.rounds \ Left : u \in Played(s) =>
                               history'[u][s] = Gains(u, {x \in rebuild.rounds : x <= s})
      OBVIOUS
    <2>1. total'[u] = Gains(u, Done \cup {r})
      <3>1. total'[u] = Gains(u, Done) + OrElse(Points[u][r], 0)
        BY <1>2, <1>d DEF Rebuilt
      <3>2. /\ Gains(u, Done) = Earned(u, Done)
            /\ Gains(u, Done \cup {r}) = Earned(u, Done \cup {r})
        BY <1>a, <1>c, GainsAreEarned DEF Done
      <3>3. Earned(u, Done \cup {r}) = Earned(u, Done) + OrElse(Points[u][r], 0)
        BY <1>a, <1>c, <1>f, EarnedGrows
      <3> QED
        BY <3>1, <3>2, <3>3
    <2>2. ASSUME NEW s \in Done, u \in Played(s)
          PROVE  history'[u][s] = Gains(u, {x \in rebuild.rounds : x <= s})
      <3>1. history'[u][s] = history[u][s]
        BY <1>d, <1>e, <1>f, <2>2
      <3> QED
        BY <1>2, <2>2, <3>1 DEF Rebuilt
    <2>3. ASSUME u \in Played(r)
          PROVE  history'[u][r] = Gains(u, {x \in rebuild.rounds : x <= r})
      <3>1. history'[u][r] = total'[u]
        BY <1>d, <1>e, <1>f, <2>3
      <3>2. {x \in rebuild.rounds : x <= r} = Done \cup {r}
        <4>1. \A x \in rebuild.rounds : x \in Int
          BY <1>a, <1>b
        <4>2. \A x \in Done : x <= r
          BY <1>c, <1>g, <1>a, <4>1 DEF Done
        <4>3. \A x \in rebuild.todo : x <= r => x = r
          BY <1>a, <1>c, <4>1
        <4> QED
          BY <1>a, <1>c, <4>1, <4>2, <4>3 DEF Done
      <3> QED
        BY <2>1, <3>1, <3>2
    <2> QED
      BY <1>f, <2>1, <2>2, <2>3
  <1> QED
    BY <1>a, <1>1, <1>2 DEF RebuildInv

\* A history that is written beside a recomputation overtakes it, or would already be there.
LEMMA BackfillOvertakes ==
    ASSUME HistoryInv, RebuildInv, rebuild.op = "rebuild", NothingScoredSince,
           NEW v \in Users, NEW s \in Rounds, Backfill(v, s)
    PROVE  Overtaken'
  <1>a. /\ rebuild.todo \subseteq rebuild.rounds /\ rebuild.rounds \subseteq Rounds
        /\ history \in [Users -> [Rounds -> Int \cup {Null}]] /\ total \in [Users -> Int]
        /\ rebuild' = rebuild
    BY DEF HistoryInv, MonthlyInv, TypeOK, RebuildsScored, Backfill
  <1>b. /\ round[s] = "SCORED" /\ v \in Played(s) /\ history[v][s] = Null
        /\ total' = [total EXCEPT ![v] = @ + Points[v][s]]
        /\ history' = [history EXCEPT ![v][s] = total'[v]]
    BY DEF Backfill
  <1>c. Points[v][s] \in Int
    BY <1>b, MonthlyAssumption DEF Played
  <1>d. history'[v][s] # Null
    <2>1. total'[v] \in Int
      BY <1>a, <1>b, <1>c
    <2> QED
      BY <1>a, <1>b, <2>1, MonthlyAssumption
  <1>1. CASE s \in rebuild.todo
    BY <1>1, <1>a, <1>b, <1>d DEF Overtaken, Played
  <1>2. CASE s \notin rebuild.todo
    <2>1. s \in Done
      BY <1>2, <1>b DEF Done, NothingScoredSince
    <2>2. ~Rebuilt
      <3>1. \A x \in {y \in rebuild.rounds : y <= s} : round[x] = "SCORED"
        BY DEF NothingScoredSince
      <3>2. Gains(v, {y \in rebuild.rounds : y <= s}) # Null
        BY <1>a, <3>1, GainsType
      <3> QED
        BY <1>b, <2>1, <3>2 DEF Rebuilt
    <2>3. Overtaken
      BY <2>2 DEF RebuildInv
    <2>4. PICK r \in rebuild.todo, u \in Users : u \in Played(r) /\ history[u][r] # Null
      BY <2>3 DEF Overtaken
    <2>5. history'[u][r] # Null
      BY <1>a, <1>b, <1>d, <2>4
    <2> QED
      BY <1>a, <2>4, <2>5 DEF Overtaken, Played
  <1> QED
    BY <1>1, <1>2


LEMMA RebuildRoundStep ==
    ASSUME HistoryInv, RebuildInv, RebuildRound
    PROVE  RebuildInv'
  <1> DEFINE r == Min(rebuild.todo)
  <1>a. /\ rebuild \in [op : {"idle", "delete", "zero", "rebuild"}, rounds : SUBSET Rounds,
                        todo : SUBSET Rounds, started : 0..MaxRecomputes]
        /\ rebuild.op = "rebuild" /\ rebuild.todo # {} /\ rebuild.todo \subseteq rebuild.rounds
        /\ NumRounds \in Nat /\ Rounds = 1..NumRounds
    BY MonthlyAssumption DEF HistoryInv, MonthlyInv, TypeOK, RebuildsScored, RebuildRound, Rounds
  <1>b. /\ rebuild' = [rebuild EXCEPT !.todo = Left, !.op = IF Left = {} THEN "idle" ELSE @]
        /\ UNCHANGED round
    BY DEF RebuildRound, Left
  <1>0. Left = rebuild.todo \ {r}
    BY DEF Left
  <1>c. r \in rebuild.todo /\ \A s \in rebuild.todo : r <= s
    BY <1>a, MinIsMember
  <1> HIDE DEF r
  <1>d. /\ rebuild'.rounds = rebuild.rounds /\ rebuild'.todo = Left
        /\ rebuild'.op \in {"idle", "rebuild"}
    BY <1>a, <1>b
  <1>1. \A s \in Done', t \in rebuild'.todo : s < t
    <2> SUFFICES ASSUME NEW s \in rebuild.rounds \ Left, NEW t \in Left
                 PROVE  s < t
      BY <1>d DEF Done
    <2>1. s \in Int /\ t \in Int /\ r \in Int /\ r <= t /\ t # r
      BY <1>0, <1>a, <1>c
    <2>2. s = r \/ s \in Done
      BY <1>0 DEF Done
    <2>3. s \in Done => s < t
      BY <1>0, <1>a DEF RebuildInv
    <2> QED
      BY <2>1, <2>2, <2>3
  <1>2. ASSUME NothingScoredSince'
        PROVE  Overtaken' \/ Rebuilt'
    <2>1. NothingScoredSince
      BY <1>b, <1>d, <1>2 DEF NothingScoredSince
    <2>2. \/ \E s \in Left, u \in Users : u \in Played(s) /\ history'[u][s] # Null
          \/ \A u \in Users :
               /\ total'[u] = Gains(u, rebuild.rounds \ Left)
               /\ \A s \in rebuild.rounds \ Left : u \in Played(s) =>
                      history'[u][s] = Gains(u, {x \in rebuild.rounds : x <= s})
      BY <2>1, RebuildAdds
    <2>3. ASSUME NEW s \in Left, NEW u \in Users, u \in Played(s), history'[u][s] # Null
          PROVE  Overtaken'
      BY <1>d, <2>3 DEF Overtaken, Played
    <2>4. ASSUME \A u \in Users :
                   /\ total'[u] = Gains(u, rebuild.rounds \ Left)
                   /\ \A s \in rebuild.rounds \ Left : u \in Played(s) =>
                          history'[u][s] = Gains(u, {x \in rebuild.rounds : x <= s})
          PROVE  Rebuilt'
      <3>1. Done' = rebuild.rounds \ Left
        BY <1>d DEF Done
      <3> HIDE DEF Done
      <3> QED
        BY <1>d, <2>4, <3>1 DEF Rebuilt, Played, Gains
    <2> QED
      BY <2>2, <2>3, <2>4
  <1> QED
    BY <1>d, <1>1, <1>2 DEF RebuildInv

LEMMA BesideRebuildStep ==
    ASSUME HistoryInv, RebuildInv, [Next]_vars, UNCHANGED rebuild
    PROVE  RebuildInv'
  <1>a. /\ TypeOK /\ RebuildsScored
        /\ rebuild.op # "idle" => rebuild.todo # {}
    BY DEF HistoryInv, MonthlyInv
  <1>1. ASSUME rebuild.op = "rebuild", NothingScoredSince'
        PROVE  Overtaken' \/ Rebuilt'
    <2>1. \A r \in rebuild.rounds : r \in Rounds /\ round[r] = "SCORED"
      BY <1>a, <1>1 DEF RebuildsScored, TypeOK
    <2>2. \A r \in Rounds : round'[r] = "SCORED" => r \in rebuild.rounds
      BY <1>1 DEF NothingScoredSince
    <2>3. NothingScoredSince
      <3>1. \A r \in Rounds : round[r] = "SCORED" => round'[r] = "SCORED"
        BY <1>a, ScoredStays
      <3> QED
        BY <2>1, <2>2, <3>1 DEF NothingScoredSince
    <2>4. Overtaken \/ Rebuilt
      BY <1>1, <2>3 DEF RebuildInv
    <2>5. CASE UNCHANGED <<history, total>>
      BY <2>4, <2>5 DEF Overtaken, Rebuilt, Done, Played, Gains
    <2>6. ASSUME NEW j \in Jobs, NEW r \in Rounds, ScoreRound(j, r)
          PROVE  FALSE
      <3>1. round'[r] = "SCORED" /\ round[r] = "CLOSED"
        BY <1>a, <2>6 DEF ScoreRound, TypeOK
      <3> QED
        BY <2>1, <2>2, <3>1
    <2>7. ASSUME NEW v \in Users, NEW s \in Rounds, Backfill(v, s)
          PROVE  Overtaken'
      BY <1>1, <2>3, <2>7, BackfillOvertakes
    <2>8. CASE DeleteHistories \/ ZeroTotals
      BY <1>1, <2>8 DEF DeleteHistories, ZeroTotals
    <2>9. CASE RebuildRound
      <3>1. RebuildInv' /\ rebuild'.op = "rebuild"
        BY <1>1, <2>9, RebuildRoundStep
      <3> QED
        BY <1>1, <3>1 DEF RebuildInv
    <2> QED
      BY <2>5, <2>6, <2>7, <2>8, <2>9, HistorySteps
  <1> QED
    BY <1>1 DEF RebuildInv, Done

LEMMA RebuildStep ==
    ASSUME HistoryInv, RebuildInv, [Next]_vars
    PROVE  RebuildInv'
  <1>a. rebuild \in [op : {"idle", "delete", "zero", "rebuild"}, rounds : SUBSET Rounds,
                     todo : SUBSET Rounds, started : 0..MaxRecomputes]
    BY DEF HistoryInv, MonthlyInv, TypeOK
  <1>1. CASE UNCHANGED rebuild
    BY <1>1, BesideRebuildStep
  <1>2. CASE StartRecompute
    BY <1>a, <1>2 DEF RebuildInv, StartRecompute
  <1>3. CASE DeleteHistories
    BY <1>a, <1>3 DEF RebuildInv, DeleteHistories
  <1>4. CASE ZeroTotals
    <2>1. rebuild'.op = "rebuild" /\ rebuild'.todo = rebuild'.rounds
      BY <1>a, <1>4 DEF ZeroTotals, RebuildInv
    <2>2. Done' = {}
      BY <2>1 DEF Done
    <2>3. \A u \in Users : Gains(u, {}) = 0
      <3> SUFFICES ASSUME NEW u \in Users
                   PROVE  Gains(u, {}) = 0
        OBVIOUS
      <3>1. {r \in {} : u \in Played(r)} = {}
        OBVIOUS
      <3> QED
        BY <3>1, SumOfNothing DEF Gains
    <2>4. \A u \in Users : total'[u] = 0
      BY <1>4 DEF ZeroTotals, Zeroed
    <2>5. Rebuilt'
      BY <2>2, <2>3, <2>4 DEF Rebuilt, Gains, Played
    <2> QED
      BY <2>1, <2>2, <2>5 DEF RebuildInv
  <1>5. CASE RebuildRound
    BY <1>5, RebuildRoundStep
  <1>6. CASE StopRecompute
    BY <1>a, <1>6 DEF RebuildInv, StopRecompute
  <1> QED
    BY <1>1, <1>2, <1>3, <1>4, <1>5, <1>6, RebuildSteps DEF Recompute

LEMMA RebuildInvHolds == Spec => []RebuildInv
  <1>1. Init => RebuildInv
    BY DEF Init, RebuildInv
  <1>2. HistoryInv /\ RebuildInv /\ [Next]_vars => RebuildInv'
    BY RebuildStep
  <1> QED
    BY <1>1, <1>2, HistoryInvHolds, PTL DEF Spec

\* A recomputation that reaches its last round, with no round scored since it began,
\* leaves every history consolidated and every total the sum of the scored rounds:
\* whatever an earlier one that stopped half-way had left, and although backfills wrote
\* histories and totals beside it.
THEOREM RecomputationRebuilds == Spec => RecomputeRebuilds
  <1> DEFINE Rebuilds ==
                 /\ rebuild.op = "rebuild" /\ rebuild'.op = "idle" /\ rebuild'.rounds # {}
                 /\ rebuild.rounds = {r \in Rounds : round[r] = "SCORED"}
                 => /\ Consolidated'
                    /\ \A u \in Users : total'[u] = Earned(u, Rounds)
  <1>1. HistoryInv /\ RebuildInv /\ [Next]_vars => Rebuilds
    <2> SUFFICES ASSUME HistoryInv, RebuildInv, [Next]_vars,
                        rebuild.op = "rebuild", rebuild'.op = "idle", rebuild'.rounds # {},
                        NothingScoredSince
                 PROVE  Consolidated' /\ \A u \in Users : total'[u] = Earned(u, Rounds)
      BY DEF NothingScoredSince
    <2>a. rebuild \in [op : {"idle", "delete", "zero", "rebuild"}, rounds : SUBSET Rounds,
                       todo : SUBSET Rounds, started : 0..MaxRecomputes]
      BY DEF HistoryInv, MonthlyInv, TypeOK
    <2>1. RebuildRound
      BY <2>a, RebuildSteps DEF Recompute, StartRecompute, DeleteHistories, ZeroTotals,
                                StopRecompute
    <2>2. Left = {}
      <3>1. rebuild' = [rebuild EXCEPT !.todo = Left, !.op = IF Left = {} THEN "idle" ELSE @]
        BY <2>1 DEF RebuildRound, Left
      <3> QED
        BY <2>a, <3>1
    <2>3. /\ rebuild.rounds \ Left = rebuild.rounds /\ rebuild.rounds \subseteq Rounds
          /\ NumRounds \in Nat /\ Rounds = 1..NumRounds
      BY <2>a, <2>2, MonthlyAssumption DEF Rounds
    <2>4. ASSUME NEW u \in Users
          PROVE  /\ total'[u] = Gains(u, rebuild.rounds)
                 /\ \A s \in rebuild.rounds : u \in Played(s) =>
                        history'[u][s] = Gains(u, {x \in rebuild.rounds : x <= s})
      <3>1. \/ \E s \in Left, v \in Users : v \in Played(s) /\ history'[v][s] # Null
            \/ \A v \in Users :
                 /\ total'[v] = Gains(v, rebuild.rounds \ Left)
                 /\ \A s \in rebuild.rounds \ Left : v \in Played(s) =>
                        history'[v][s] = Gains(v, {x \in rebuild.rounds : x <= s})
        BY <2>1, RebuildAdds
      <3> QED
        BY <2>2, <2>3, <3>1
    <2>5. ASSUME NEW u \in Users
          PROVE  total'[u] = Earned(u, Rounds)
      <3>1. {s \in rebuild.rounds : u \in Played(s)}
                = {s \in Rounds : round[s] = "SCORED" /\ u \in Played(s)}
        BY DEF NothingScoredSince
      <3> QED
        BY <2>4, <3>1 DEF Gains, Earned
    <2>6. ASSUME NEW u \in Users, NEW s \in Rounds, round'[s] = "SCORED", u \in Played(s)
          PROVE  history'[u][s] =
                     SumFunctionOnSet(Points[u],
                         {x \in 1..s : round'[x] = "SCORED" /\ u \in Played(x)})
      <3>1. UNCHANGED round
        BY <2>1 DEF RebuildRound
      <3>2. s \in rebuild.rounds
        BY <2>6, <3>1 DEF NothingScoredSince
      <3>3. \A x : x \in rebuild.rounds /\ x <= s <=> x \in 1..s /\ round'[x] = "SCORED"
        BY <2>3, <3>1 DEF NothingScoredSince
      <3>4. {x \in {y \in rebuild.rounds : y <= s} : u \in Played(x)}
                = {x \in 1..s : round'[x] = "SCORED" /\ u \in Played(x)}
        BY <3>3
      <3> QED
        BY <2>4, <2>6, <3>2, <3>4 DEF Gains
    <2> QED
      BY <2>5, <2>6 DEF Consolidated, Earned, Played
  <1>2. HistoryInv /\ RebuildInv /\ [Next]_vars => [Rebuilds]_vars
    BY <1>1
  <1> QED
    BY <1>2, HistoryInvHolds, RebuildInvHolds, PTL DEF Spec, RecomputeRebuilds

=============================================================================
