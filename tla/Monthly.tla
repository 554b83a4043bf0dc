------------------------------- MODULE Monthly -------------------------------
(***************************************************************************)
(* The rankings GLOBAL and PRO of one month: EnsureMonthlyRankingsService  *)
(* and the sweeps and schedules that call it, RecalculateRankingService    *)
(* after a scoring, CloseExpiredRankingsService with CloseRankingService,  *)
(* and what they read: score histories, the totals of the users, their     *)
(* subscriptions.  Histories and totals are also rewritten by two tools of *)
(* the operators, RecomputeScoredRoundsService and                         *)
(* BackfillMonthlyRankingStateService.                                     *)
(*                                                                         *)
(* The clock counts the milliseconds the code adds and subtracts.          *)
(* Positions are left out: they are Prizes!Position of the scores, and     *)
(* nothing reads them.                                                     *)
(***************************************************************************)
EXTENDS Integers, FiniteSetsExt

CONSTANTS
    Users,
    Created,  \* [Users -> Time]: users.createdAt
    Kinds,    \* the rankings of the month, of GLOBAL and PRO
    Start,    \* the first moment of the month
    Finish,   \* the first moment of the next one
    NumRounds,
    OpenAt,   \* [Rounds -> Time]
    CloseAt,  \* [Rounds -> Time]
    Points,   \* [Users -> [Rounds -> Int \cup {Null}]], Null without a ticket
    PayAt,    \* [Users -> SUBSET Time]: when their payments come
    Validity, \* what a payment adds to a subscription
    Jobs,     \* processes that score or close
    MaxNow,   \* bound on the time
    MaxRecomputes, \* bound on the recomputations ever started
    Null

Rounds == 1..NumRounds
Time == 0..MaxNow

\* The rounds that close in the month, as SaoPauloPeriodService delimits it.
MonthRounds == {r \in Rounds : CloseAt[r] >= Start /\ CloseAt[r] < Finish}

\* A row of ranking_participants.
Row == [since : Int, initial : Int, captured : BOOLEAN, score : Int]

ASSUME MonthlyAssumption ==
    /\ Kinds \subseteq {"GLOBAL", "PRO"}
    /\ NumRounds \in Nat /\ MaxNow \in Nat /\ MaxRecomputes \in Nat
    /\ Start \in Nat /\ Finish \in Nat /\ Start < Finish
    /\ Created \in [Users -> Nat] /\ Validity \in Nat \ {0}
    /\ PayAt \in [Users -> SUBSET Nat]
    /\ OpenAt \in [Rounds -> Nat] /\ CloseAt \in [Rounds -> Nat]
    /\ Points \in [Users -> [Rounds -> Int \cup {Null}]]
    /\ Null \notin Int /\ Null \notin Row
    /\ MonthRounds # {}    \* the calendar of the month is known (a bound)

\* firstRound: the one that closes first.
Reference ==
    CHOOSE r \in MonthRounds : \A s \in MonthRounds :
        CloseAt[r] < CloseAt[s] \/ (CloseAt[r] = CloseAt[s] /\ r <= s)

VARIABLES
    now,
    round,        \* rounds.status
    history,      \* user_score_history: Null or scoreTotal
    total,        \* users.scoreTotal
    subscription, \* Null or [from, until, expired]
    board,        \* rankings.status of each kind, NONE without a row
    cohort,       \* ranking_participants: Null or [since, initial, captured, score]
    work,         \* what each job keeps between two statements
    rebuild       \* the recomputation: its next statement, its rounds, how many there were

vars == <<now, round, history, total, subscription, board, cohort, work, rebuild>>

Idle == [op |-> "idle"]

\* What a recalculation or a closing has in hand: the moment it began, the rankings
\* left to it, and the scores of the players it found.
IsPass(w) ==
    /\ w.op \in {"recalc", "close"} /\ w.at \in Nat /\ w.todo \in (SUBSET Kinds) \ {{}}
    /\ w.rows = Null \/ \A u \in DOMAIN w.rows : w.rows[u] \in Int

TypeOK ==
    /\ now \in Time
    /\ round \in [Rounds -> {"DRAFT", "OPEN", "CLOSED", "SCORED", "CANCELLED"}]
    /\ history \in [Users -> [Rounds -> Int \cup {Null}]]
    /\ total \in [Users -> Int]
    /\ subscription \in
         [Users -> [from : Nat, until : Nat, expired : BOOLEAN] \cup {Null}]
    /\ board \in [Kinds -> {"NONE", "ACTIVE", "CLOSED"}]
    /\ cohort \in [Kinds -> [Users -> Row \cup {Null}]]
    /\ DOMAIN work = Jobs
    /\ \A j \in Jobs : work[j] \in {Idle, [op |-> "scored"]} \/ IsPass(work[j])
    /\ rebuild \in [op : {"idle", "delete", "zero", "rebuild"}, rounds : SUBSET Rounds,
                    todo : SUBSET Rounds, started : 0..MaxRecomputes]

Init ==
    /\ now = 0
    /\ round = [r \in Rounds |-> "DRAFT"]
    /\ history = [u \in Users |-> [r \in Rounds |-> Null]]
    /\ total = [u \in Users |-> 0]
    /\ subscription = [u \in Users |-> Null]
    /\ board = [k \in Kinds |-> "NONE"]
    /\ cohort = [k \in Kinds |-> [u \in Users |-> Null]]
    /\ work = [j \in Jobs |-> Idle]
    /\ rebuild = [op |-> "idle", rounds |-> {}, todo |-> {}, started |-> 0]

Set(j, w) == work' = [work EXCEPT ![j] = w]

OrElse(value, default) == IF value = Null THEN default ELSE value

\* scoreTotal of u's history in the last round of R, by number.
LastTotal(u, R) ==
    LET played == {r \in R : history[u][r] # Null}
    IN  IF played = {} THEN Null ELSE history[u][Max(played)]

Played(r) == {u \in Users : Points[u][r] # Null}

-----------------------------------------------------------------------------
(* SUBSCRIPTIONS                                                            *)

\* hasActiveProSubscriptionAt.
ActiveAt(s, at) == s # Null /\ ~s.expired /\ s.from <= at /\ s.until > at

\* A payment extends the period that still runs, else a new one begins.
ExtendsPeriod(s) == s # Null /\ s.until > now

Renew(u) ==
    LET s == subscription[u]
    IN  /\ now \in PayAt[u]
        /\ subscription' = [subscription EXCEPT ![u] =
               [from |-> IF ExtendsPeriod(s) THEN s.from ELSE now,
                until |-> (IF ExtendsPeriod(s) THEN s.until ELSE now) + Validity,
                expired |-> FALSE]]
        /\ subscription'[u].until <= MaxNow + 1    \* a bound
        /\ UNCHANGED <<now, round, history, total, board, cohort, work, rebuild>>

\* RevalidateActiveSubscriptionsService.
Expire(u) ==
    /\ subscription[u] # Null /\ ~subscription[u].expired /\ subscription[u].until <= now
    /\ subscription' = [subscription EXCEPT ![u].expired = TRUE]
    /\ UNCHANGED <<now, round, history, total, board, cohort, work, rebuild>>

-----------------------------------------------------------------------------
(* ENSURE                                                                   *)

NewRow(at) == [since |-> at, initial |-> 0, captured |-> FALSE, score |-> 0]

\* Fault: the baseline is the total of the user.
LiveBaseline(u) == total[u]

\* What u had when the reference round was consolidated.
Baseline(u) ==
    OrElse(LastTotal(u, {r \in Rounds : r <= Reference /\ round[r] = "SCORED"}), 0)

\* Fault: a participant that had been captured is captured again.
Recapture(row) == TRUE

\* where: { scoreInitialCapturedAt: null }
Pending(row) == ~row.captured

\* Fault: eligible is who has a subscription now.
ActiveNow(at, open) == {u \in Users : ActiveAt(subscription[u], at)}

\* The PRO players as of the moment that decides: now, or the closing of the
\* reference round once registrations are over.
ProCohort(at, open) ==
    {u \in Users : /\ Created[u] <= CloseAt[Reference]
                   /\ ActiveAt(subscription[u], IF open THEN at ELSE CloseAt[Reference])}

\* The upserts of the two rankings: one that exists keeps its status.
Provisioned == [k \in Kinds |-> IF board[k] = "NONE" THEN "ACTIVE" ELSE board[k]]

\* One transaction, for the moment `at' that the caller takes for now.
Ensure(at) ==
    LET open == round[Reference] \in {"DRAFT", "OPEN"} /\ CloseAt[Reference] > at
        cutoff == IF open THEN at ELSE CloseAt[Reference]
        listed == {u \in Users : Created[u] < cutoff}
        scored == round[Reference] = "SCORED"
        Enrolled(k) == IF k = "GLOBAL" THEN listed ELSE listed \cap ProCohort(at, open)
        Stays(k, u) == \/ ~scored \/ k = "GLOBAL"
                       \/ u \in listed /\ ActiveAt(subscription[u], CloseAt[Reference])
                       \/ cohort[k][u].score # 0 \/ cohort[k][u].captured
        Kept(k, u) == IF cohort[k][u] # Null
                      THEN IF Stays(k, u) THEN cohort[k][u] ELSE Null
                      ELSE IF u \in Enrolled(k) THEN NewRow(at) ELSE Null
        Captured(row, u) == IF row # Null /\ scored /\ Pending(row)
                            THEN [row EXCEPT !.initial = Baseline(u), !.captured = TRUE]
                            ELSE row
    IN  /\ board' = Provisioned
        /\ cohort' = [k \in Kinds |-> [u \in Users |-> Captured(Kept(k, u), u)]]
        /\ UNCHANGED <<now, round, history, total, subscription, work, rebuild>>

\* The hourly schedule, and the start of a worker: the period of the present month.
EnsureBySchedule == now >= Start /\ now < Finish /\ Ensure(now)

\* The sweep that is about to open r: the period of its closing.
EnsureBeforeOpening(r) ==
    /\ round[r] = "DRAFT" /\ OpenAt[r] <= now /\ r \in MonthRounds
    /\ Ensure(now)

\* The sweep that is about to close r: a millisecond before its closing.
EnsureBeforeClosing(r) ==
    /\ round[r] = "OPEN" /\ CloseAt[r] <= now /\ r \in MonthRounds
    /\ Ensure(CloseAt[r] - 1)

-----------------------------------------------------------------------------
(* ROWS: RankingWindowScoreService.buildRows for a ranking by dates.        *)

EndDate == Finish - 1

\* Fault: a ranking whose window is over still counts the user's total.
NeverEnds(at) == FALSE

Ended(at) == at > EndDate

\* The score of u's row when the caller's now is `at'.
ScoreAt(row, u, at) ==
    LET latest == LastTotal(u, {r \in Rounds : CloseAt[r] <= EndDate})
        before == LastTotal(u, {r \in Rounds : CloseAt[r] < Start})
        initial == IF row.since < Start /\ before # Null THEN before ELSE row.initial
        current == IF at < Start THEN initial
                   ELSE IF Ended(at) THEN OrElse(latest, initial)
                   ELSE total[u]
    IN  current - initial

RowsAt(k, at) == [u \in {v \in Users : cohort[k][v] # Null} |-> ScoreAt(cohort[k][u], u, at)]

\* A row that Ensure has deleted makes the update fail.
CanWrite(k, rows) == \A u \in DOMAIN rows : cohort[k][u] # Null

WriteRows(k, rows) ==
    cohort' = [cohort EXCEPT ![k] = [u \in Users |->
        IF u \in DOMAIN rows THEN [cohort[k][u] EXCEPT !.score = rows[u]] ELSE cohort[k][u]]]

\* The transactions of ScoreRoundService; the same process then recalculates.
ScoreRound(j, r) ==
    /\ work[j] = Idle /\ round[r] = "CLOSED"
    /\ round' = [round EXCEPT ![r] = "SCORED"]
    /\ total' = [u \in Users |-> total[u] + OrElse(Points[u][r], 0)]
    /\ history' = [u \in Users |->
            IF u \in Played(r) THEN [history[u] EXCEPT ![r] = total'[u]] ELSE history[u]]
    /\ Set(j, [op |-> "scored"])
    /\ UNCHANGED <<now, subscription, board, cohort, rebuild>>

StartRecalculation(j) ==
    /\ work[j].op = "scored"
    /\ LET todo == IF now < EndDate THEN {k \in Kinds : board[k] = "ACTIVE"} ELSE {}
       IN  Set(j, IF todo = {} THEN Idle
                  ELSE [op |-> "recalc", at |-> now, todo |-> todo, rows |-> Null])
    /\ UNCHANGED <<now, round, history, total, subscription, board, cohort, rebuild>>

\* The ranking a job works on: GLOBAL was created first.
Current(w) == IF "GLOBAL" \in w.todo THEN "GLOBAL" ELSE "PRO"

BuildRows(j) ==
    /\ work[j].op \in {"recalc", "close"} /\ work[j].rows = Null
    /\ Set(j, [work[j] EXCEPT !.rows = RowsAt(Current(work[j]), work[j].at)])
    /\ UNCHANGED <<now, round, history, total, subscription, board, cohort, rebuild>>

CommitRows(j) ==
    LET k == Current(work[j])
        left == work[j].todo \ {k}
    IN  /\ work[j].op = "recalc" /\ work[j].rows # Null
        /\ CanWrite(k, work[j].rows)
        /\ WriteRows(k, work[j].rows)
        /\ Set(j, IF left = {} THEN Idle ELSE [work[j] EXCEPT !.todo = left, !.rows = Null])
        /\ UNCHANGED <<now, round, history, total, subscription, board, rebuild>>

\* The job closes an expired ranking once the reference round is SCORED.
StartClose(j, k) ==
    /\ work[j] = Idle
    /\ board[k] = "ACTIVE" /\ EndDate < now
    /\ round[Reference] = "SCORED"
    /\ Set(j, [op |-> "close", at |-> now, todo |-> {k}, rows |-> Null])
    /\ UNCHANGED <<now, round, history, total, subscription, board, cohort, rebuild>>

CommitClose(j) ==
    LET k == Current(work[j])
    IN  /\ work[j].op = "close" /\ work[j].rows # Null
        /\ CanWrite(k, work[j].rows)
        /\ WriteRows(k, work[j].rows)
        /\ board' = [board EXCEPT ![k] = "CLOSED"]
        /\ Set(j, Idle)
        /\ UNCHANGED <<now, round, history, total, subscription, rebuild>>

-----------------------------------------------------------------------------
(* THE PUBLIC PAGE: it reads, and never provisions what it does not find.   *)

PagePoints(k) ==
    IF board[k] = "CLOSED"
    THEN [u \in {v \in Users : cohort[k][v] # Null} |-> cohort[k][u].score]
    ELSE RowsAt(k, now)

\* In the PRO ranking the badge is the cohort's, in the other one the present plan's.
Page(k) ==
    [u \in DOMAIN PagePoints(k) |->
        [points |-> PagePoints(k)[u], pro |-> k = "PRO" \/ ActiveAt(subscription[u], now)]]

-----------------------------------------------------------------------------
(* THE OPERATORS' TOOLS                                                     *)

\* RecomputeScoredRoundsService: the rounds it will rebuild.  The runner refuses
\* a second one while the first is RUNNING.
StartRecompute ==
    /\ rebuild.op = "idle" /\ rebuild.started < MaxRecomputes
    /\ LET scored == {r \in Rounds : round[r] = "SCORED"}
       IN  /\ scored # {}
           /\ rebuild' = [op |-> "delete", rounds |-> scored, todo |-> scored,
                          started |-> rebuild.started + 1]
    /\ UNCHANGED <<now, round, history, total, subscription, board, cohort, work>>

DeleteHistories ==
    /\ rebuild.op = "delete"
    /\ history' = [u \in Users |-> [r \in Rounds |->
            IF r \in rebuild.rounds THEN Null ELSE history[u][r]]]
    /\ rebuild' = [rebuild EXCEPT !.op = "zero"]
    /\ UNCHANGED <<now, round, total, subscription, board, cohort, work>>

\* Fault: the totals are left as they are.
NotZeroed == total

Zeroed == [u \in Users |-> 0]

ZeroTotals ==
    /\ rebuild.op = "zero"
    /\ total' = Zeroed
    /\ rebuild' = [rebuild EXCEPT !.op = "rebuild"]
    /\ UNCHANGED <<now, round, history, subscription, board, cohort, work>>

\* One transaction for each round, in the order of the numbers; a history that
\* exists already refuses it.  After the last round the rankings are recalculated
\* by a job that is free (a bound).
RebuildRound ==
    /\ rebuild.op = "rebuild"
    /\ LET r == Min(rebuild.todo)
           left == rebuild.todo \ {r}
       IN  /\ \A u \in Played(r) : history[u][r] = Null
           /\ total' = [u \in Users |-> total[u] + OrElse(Points[u][r], 0)]
           /\ history' = [u \in Users |->
                  IF u \in Played(r) THEN [history[u] EXCEPT ![r] = total'[u]] ELSE history[u]]
           /\ rebuild' = [rebuild EXCEPT !.todo = left, !.op = IF left = {} THEN "idle" ELSE @]
           /\ IF left = {} THEN \E j \in Jobs : work[j] = Idle /\ Set(j, [op |-> "scored"])
                           ELSE UNCHANGED work
    /\ UNCHANGED <<now, round, subscription, board, cohort>>

StopRecompute ==
    /\ rebuild.op # "idle"
    /\ rebuild' = [rebuild EXCEPT !.op = "idle", !.rounds = {}, !.todo = {}]
    /\ UNCHANGED <<now, round, history, total, subscription, board, cohort, work>>

\* BackfillMonthlyRankingStateService: one transaction for each ticket of a scored
\* round that has no history, the lower rounds first.
Backfill(u, r) ==
    /\ round[r] = "SCORED" /\ u \in Played(r) /\ history[u][r] = Null
    /\ \A s \in Rounds, v \in Users : s < r /\ round[s] = "SCORED" /\ v \in Played(s) =>
            history[v][s] # Null
    /\ total' = [total EXCEPT ![u] = @ + Points[u][r]]
    /\ history' = [history EXCEPT ![u][r] = total'[u]]
    /\ UNCHANGED <<now, round, subscription, board, cohort, work, rebuild>>

\* A process dies, or a statement fails: transactions leave nothing, what was
\* committed stays.
Die(j) ==
    /\ work[j] # Idle
    /\ Set(j, Idle)
    /\ UNCHANGED <<now, round, history, total, subscription, board, cohort, rebuild>>

-----------------------------------------------------------------------------
(* THE SEASON: of the rounds that are due the sweep opens the one with the  *)
(* earliest opening; Rounds has them in detail.                             *)

OpenRound(r) ==
    /\ round[r] = "DRAFT" /\ OpenAt[r] <= now
    /\ \A s \in Rounds : round[s] # "OPEN" /\ (OpenAt[s] < OpenAt[r] => round[s] # "DRAFT")
    /\ round' = [round EXCEPT ![r] = "OPEN"]
    /\ UNCHANGED <<now, history, total, subscription, board, cohort, work, rebuild>>

CloseRound(r) ==
    /\ round[r] = "OPEN" /\ CloseAt[r] <= now
    /\ round' = [round EXCEPT ![r] = "CLOSED"]
    /\ UNCHANGED <<now, history, total, subscription, board, cohort, work, rebuild>>

Tick ==
    /\ now < MaxNow
    /\ now' = now + 1
    /\ UNCHANGED <<round, history, total, subscription, board, cohort, work, rebuild>>

-----------------------------------------------------------------------------
Season == Tick \/ \E r \in Rounds : OpenRound(r) \/ CloseRound(r)

Sync ==
    \/ EnsureBySchedule
    \/ \E r \in Rounds : EnsureBeforeOpening(r) \/ EnsureBeforeClosing(r)

Job(j) ==
    \/ \E r \in Rounds : ScoreRound(j, r)
    \/ StartRecalculation(j)
    \/ \E k \in Kinds : StartClose(j, k)
    \/ BuildRows(j) \/ CommitRows(j) \/ CommitClose(j)
    \/ Die(j)

Recompute ==
    StartRecompute \/ DeleteHistories \/ ZeroTotals \/ RebuildRound \/ StopRecompute

Next ==
    \/ Season
    \/ Sync
    \/ \E u \in Users : Renew(u) \/ Expire(u) \/ \E r \in Rounds : Backfill(u, r)
    \/ \E j \in Jobs : Job(j)
    \/ Recompute

Spec == Init /\ [][Next]_vars

-----------------------------------------------------------------------------
(* PROPERTIES                                                               *)

Earned(u, R) ==
    SumFunctionOnSet(Points[u], {r \in R : round[r] = "SCORED" /\ u \in Played(r)})

\* Every ticket of a scored round has its history, and each history is the sum
\* of the rounds up to it: they were scored in order and nothing was lost.
Consolidated ==
    \A u \in Users, r \in Rounds : round[r] = "SCORED" /\ u \in Played(r) =>
        history[u][r] = Earned(u, 1..r)

\* The initial score of a participant is taken once and stays, whatever syncs,
\* recalculations and recomputations follow (scoreInitialCapturedAt).
InitialIsFinal ==
    [][\A k \in Kinds, u \in Users : cohort[k][u] # Null /\ cohort[k][u].captured =>
         /\ cohort'[k][u] # Null /\ cohort'[k][u].captured
         /\ cohort'[k][u].initial = cohort[k][u].initial]_vars

\* However late it is taken, the initial score is what the player had when the
\* reference round was consolidated: later rounds do not count
\* (docs/validation/rankings-mensais-free-pro-20261027.md, RM-04).
InitialIsReference ==
    [][\A k \in Kinds, u \in Users :
         /\ cohort'[k][u] # Null /\ cohort'[k][u].captured
         /\ cohort[k][u] = Null \/ ~cohort[k][u].captured
         /\ Consolidated
         => cohort'[k][u].initial = Earned(u, 1..Reference)]_vars

OwnRounds == {r \in MonthRounds : r > Reference}

\* The closing j builds its rows, for the ranking k.
Settles(j, k) ==
    /\ work[j].op = "close" /\ work[j].todo = {k} /\ work[j].rows = Null
    /\ work'[j].op = "close" /\ work'[j].rows # Null

\* Who entered in the month, captured from consolidated histories.
Measured(k, u) ==
    /\ cohort[k][u] # Null /\ cohort[k][u].captured
    /\ cohort[k][u].initial = Earned(u, 1..Reference) /\ cohort[k][u].since >= Start

\* What the page shows of such a player, between recomputations.
PageIsOwn ==
    \A k \in Kinds :
        board[k] = "ACTIVE" /\ now >= Start
        /\ Consolidated /\ (\A u \in Users : total[u] = Earned(u, Rounds)) =>
            \A u \in DOMAIN Page(k) : Measured(k, u) => Page(k)[u].points = Earned(u, OwnRounds)

\* A month pays by its own rounds: at however late a time a ranking is closed, and
\* beside scorings of the next month, the score of a participant that entered in
\* the month and was captured from consolidated histories is what the scored
\* rounds after the reference round gave, and until then the page shows no other
\* (RM-05, RM-06).
MonthScoreIsOwn ==
    [][/\ \A j \in Jobs, k \in Kinds : Settles(j, k) /\ Consolidated =>
            \A u \in DOMAIN work'[j].rows :
                cohort[k][u].initial = Earned(u, 1..Reference) /\ cohort[k][u].since >= Start =>
                    work'[j].rows[u] = Earned(u, OwnRounds)
       /\ PageIsOwn']_vars

\* Stronger: whoever entered, and whether captured or not.  A player enrolled by
\* a round that opens before the month begins is measured from the last round
\* before the month, and so is paid for the reference round; a reference round
\* scored after the month has nobody captured; a capture while a recomputation has
\* deleted the histories takes a zero.
MonthCountsNothingElse ==
    [][\A j \in Jobs, k \in Kinds : Settles(j, k) /\ Consolidated =>
         \A u \in DOMAIN work'[j].rows : work'[j].rows[u] = Earned(u, OwnRounds)]_vars

\* Who had no subscription when the reference round closed does not enter the
\* PRO ranking afterwards, whatever is paid or renewed later (RM-16): a row that
\* the closing finds missing is only made for a period that lasted until then.
LateSubscribersStayOut ==
    [][\A u \in Users :
         "PRO" \in Kinds /\ cohort["PRO"][u] = Null /\ cohort'["PRO"][u] # Null
         /\ now >= CloseAt[Reference]
         => /\ subscription[u] # Null
            /\ subscription[u].from <= CloseAt[Reference]
            /\ subscription[u].until >= CloseAt[Reference]]_vars

\* A recomputation that nothing overtakes leaves every history consolidated and
\* every total equal to the points of the scored rounds, whatever failures,
\* backfills and recomputations went before it (RecomputeScoredRoundsService).
RecomputeRebuilds ==
    [][/\ rebuild.op = "rebuild" /\ rebuild'.op = "idle" /\ rebuild'.rounds # {}
       /\ rebuild.rounds = {r \in Rounds : round[r] = "SCORED"}
       => /\ Consolidated'
          /\ \A u \in Users : total'[u] = Earned(u, Rounds)]_vars

=============================================================================
