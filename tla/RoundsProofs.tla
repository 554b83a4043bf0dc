---------------------------- MODULE RoundsProofs ----------------------------
(***************************************************************************)
(* Theorems about Rounds, for every number of users, rounds, submissions   *)
(* and jobs in progress, and about RoundJobs, for every number of sweeps   *)
(* that overlap, throw or die.                                             *)
(***************************************************************************)
EXTENDS RoundJobs, Aggregates, TLAPS

-----------------------------------------------------------------------------
(* What an operation has in its local variables at each of its steps.       *)

\* A job that has done a step has the fields of that step.
LEMMA JobFields ==
    ASSUME TypeOK, NEW j \in Jobs
    PROVE  /\ job[j].op \in {"open", "count", "snapshot", "score"} => job[j] \in StepJob
           /\ job[j].op = "grant" => job[j] \in GrantJob
           /\ job[j].op \in {"close", "zero"} => job[j] \in CloseJob
           /\ job[j].op = "cancel" => job[j] \in CancelJob
           /\ job[j].op = "result" => job[j] \in ResultJob
           /\ job[j].op = "scoring" => job[j] \in ScoringJob
  <1> DEFINE w == job[j]
  <1>1. w \in {Idle} \cup Job
    BY DEF TypeOK
  <1>2. w \in {Idle} => w.op = "idle"
    BY DEF Idle
  <1>3. w \in StepJob => w.op \in {"open", "count", "snapshot", "score"}
    BY DEF StepJob
  <1>4. w \in GrantJob => w.op = "grant"
    BY DEF GrantJob
  <1>5. w \in CloseJob => w.op \in {"close", "zero"}
    BY DEF CloseJob
  <1>6. w \in CancelJob => w.op = "cancel"
    BY DEF CancelJob
  <1>7. w \in ResultJob => w.op = "result"
    BY DEF ResultJob
  <1>8. w \in ScoringJob => w.op = "scoring"
    BY DEF ScoringJob
  <1> HIDE DEF w
  <1>9. /\ w.op \in {"open", "count", "snapshot", "score"} => w \in StepJob
        /\ w.op = "grant" => w \in GrantJob
        /\ w.op \in {"close", "zero"} => w \in CloseJob
        /\ w.op = "cancel" => w \in CancelJob
        /\ w.op = "result" => w \in ResultJob
        /\ w.op = "scoring" => w \in ScoringJob
    BY <1>1, <1>2, <1>3, <1>4, <1>5, <1>6, <1>7, <1>8 DEF Job
  <1> QED
    BY <1>9 DEF w

\* The same for a submission.
LEMMA RequestFields ==
    ASSUME TypeOK, NEW q \in Requests
    PROVE  /\ request[q].op = "submit" => request[q] \in Submission
           /\ request[q].op = "consume" => request[q] \in Consumption
  <1> DEFINE s == request[q]
  <1>1. s \in {Idle} \cup Submission \cup Consumption
    BY DEF TypeOK
  <1>2. s \in {Idle} => s.op = "idle"
    BY DEF Idle
  <1>3. s \in Submission => s.op = "submit"
    BY DEF Submission
  <1>4. s \in Consumption => s.op = "consume"
    BY DEF Consumption
  <1> QED
    BY <1>1, <1>2, <1>3, <1>4

\* A job that starts, goes on or ends leaves the table of jobs well formed.
LEMMA JobType ==
    ASSUME TypeOK, NEW j \in Jobs, NEW w \in {Idle} \cup Job, Continue(j, w)
    PROVE  job' \in [Jobs -> {Idle} \cup Job]
  BY DEF TypeOK, Continue

\* A change of status leaves the table of rounds well formed.
LEMMA StatusType ==
    ASSUME TypeOK, NEW r \in Rounds, NEW s \in Status, SetStatus(r, s)
    PROVE  round' \in [Rounds -> [status : Status, result : Results \cup {Nothing}]]
  BY DEF TypeOK, SetStatus

\* The same for the result.
LEMMA ResultType ==
    ASSUME TypeOK, NEW r \in Rounds, NEW x \in Results,
           round' = [round EXCEPT ![r].result = x]
    PROVE  round' \in [Rounds -> [status : Status, result : Results \cup {Nothing}]]
  BY DEF TypeOK

\* A row of a table of rows is replaced by one of its own kind.
LEMMA CellType ==
    ASSUME NEW A, NEW B, NEW V, NEW f \in [A -> [B -> V]], NEW a \in A, NEW b \in B,
           NEW v \in V
    PROVE  [f EXCEPT ![a][b] = v] \in [A -> [B -> V]]
  OBVIOUS

\* What a submission pays: the free part and the bought part make up what its
\* multipliers demand, and the free row is never taken below zero.
LEMMA PaidParts ==
    ASSUME TypeOK, NEW q \in Requests, request[q].op = "consume"
    PROVE  LET u == request[q].user
               r == request[q].round
               used == FreeUsed(q)
           IN  /\ used \in Nat
               /\ InventoryUsed(q) \in Nat
               /\ used + InventoryUsed(q) = Demand[request[q].prediction]
               /\ used > 0 => free[u][r] \in Nat /\ free[u][r] >= used
               /\ (IF used > 0 THEN free[u][r] - used ELSE free[u][r]) \in Nat \cup {NoRow}
  <1> DEFINE u == request[q].user
             r == request[q].round
             seen == request[q].seen
             demand == Demand[request[q].prediction]
             row == free[u][r]
  <1>1. u \in Users /\ r \in Rounds /\ request[q].prediction \in Predictions /\ seen \in Nat
    BY RequestFields DEF Consumption
  <1>2. demand \in Nat /\ row \in Nat \cup {NoRow}
    BY <1>1, RoundsAssumption DEF TypeOK
  <1>3. FreeUsed(q) = IF row >= Least(seen, demand) THEN Least(seen, demand) ELSE 0
    BY DEF FreeUsed
  <1>4. InventoryUsed(q) = demand - FreeUsed(q)
    BY DEF InventoryUsed
  <1>5. Least(seen, demand) \in Nat /\ Least(seen, demand) <= demand
    BY <1>1, <1>2 DEF Least
  <1> HIDE DEF demand, row
  <1>6. FreeUsed(q) \in Nat /\ InventoryUsed(q) \in Nat /\ FreeUsed(q) + InventoryUsed(q) = demand
    BY <1>2, <1>3, <1>4, <1>5
  <1>7. FreeUsed(q) > 0 => row \in Nat /\ row >= FreeUsed(q)
    BY <1>2, <1>3, <1>5 DEF NoRow
  <1>8. (IF FreeUsed(q) > 0 THEN row - FreeUsed(q) ELSE row) \in Nat \cup {NoRow}
    BY <1>2, <1>6, <1>7
  <1> QED
    BY <1>6, <1>7, <1>8 DEF demand, row

LEMMA BoughtPart ==
    ASSUME TypeOK, NEW q \in Requests, request[q].op = "consume"
    PROVE  InventoryUsed(q) \in Nat
  BY PaidParts

\* The total a snapshot shows for a user comes from a history the user has.
LEMMA LatestTotalIsHistory ==
    ASSUME TypeOK, NEW u \in Users, NEW r \in Rounds
    PROVE  \/ LatestTotal(u, r) = Nothing
           \/ \E s \in 1..r : /\ history[u][s] # Nothing
                             /\ LatestTotal(u, r) = history[u][s].scoreTotal
  <1> DEFINE played == {s \in ValidRounds(r) : history[u][s] # Nothing}
  <1>1. played \subseteq 1..r
    BY RoundsAssumption DEF ValidRounds, Rounds
  <1>2. r \in Nat
    BY RoundsAssumption DEF Rounds
  <1>3. LatestTotal(u, r) = IF played = {} THEN Nothing
                            ELSE history[u][Max(played)].scoreTotal
    BY DEF LatestTotal
  <1>4. \A s \in played : history[u][s] # Nothing
    OBVIOUS
  <1> HIDE DEF played
  <1>5. CASE played = {}
    BY <1>3, <1>5
  <1>6. CASE played # {}
    <2>1. Max(played) \in played
      BY <1>1, <1>2, <1>6, MaxIsMember
    <2> QED
      BY <1>1, <1>3, <1>4, <1>6, <2>1
  <1> QED
    BY <1>5, <1>6

\* What a snapshot lists for a user is a total or nothing.
LEMMA LatestTotalType ==
    ASSUME TypeOK, NEW u \in Users, NEW r \in Rounds
    PROVE  LatestTotal(u, r) \in Int \cup {Nothing}
  <1>1. CASE LatestTotal(u, r) = Nothing
    BY <1>1
  <1>2. CASE LatestTotal(u, r) # Nothing
    <2>1. PICK s \in 1..r : /\ history[u][s] # Nothing
                            /\ LatestTotal(u, r) = history[u][s].scoreTotal
      BY <1>2, LatestTotalIsHistory
    <2>2. s \in Rounds
      BY RoundsAssumption DEF Rounds
    <2>3. history[u][s] \in History
      BY <2>1, <2>2 DEF TypeOK
    <2> QED
      BY <2>1, <2>3 DEF History
  <1> QED
    BY <1>1, <1>2

\* A snapshot leaves the table of snapshots well formed.
LEMMA SnapshotType ==
    ASSUME TypeOK, NEW r \in Rounds, WriteSnapshot(r)
    PROVE  snapshot' \in [Rounds -> [Users -> Int \cup {Nothing}] \cup {Nothing}]
  <1> DEFINE rows == [u \in Users |-> LatestTotal(u, r)]
  <1>1. rows \in [Users -> Int \cup {Nothing}]
    BY LatestTotalType
  <1>2. snapshot' = snapshot \/ snapshot' = [snapshot EXCEPT ![r] = rows]
    BY DEF WriteSnapshot
  <1> HIDE DEF rows
  <1> QED
    BY <1>1, <1>2 DEF TypeOK

-----------------------------------------------------------------------------
(* The invariant: the players a scoring has read still have their tickets,  *)
(* since no operation deletes one.  Without it the points that the scoring  *)
(* adds need not be a number, and TypeOK alone is not inductive.            *)

PlayersHaveTickets ==
    \A j \in Jobs : job[j].op = "scoring" =>
        \A u \in job[j].players : ticket[u][job[j].round] # Nothing

\* A scoring meets tickets that exist, and their points are numbers.
LEMMA ScoreType ==
    ASSUME TypeOK, PlayersHaveTickets, NEW j \in Jobs, CommitScore(j), NEW u \in job[j].players
    PROVE  LET t == ticket[u][job[j].round]
           IN  /\ t \in Ticket
               /\ ScoreOf(j, u) \in Int
               /\ [t EXCEPT !.score = ScoreOf(j, u)] \in Ticket
  <1> DEFINE r == job[j].round
             t == ticket[u][r]
  <1>1. r \in Rounds /\ u \in Users /\ job[j].result \in Results
    BY JobFields DEF CommitScore, ScoringJob
  <1>2. t \in Ticket
    BY <1>1 DEF PlayersHaveTickets, CommitScore, TypeOK
  <1>3. ScoreOf(j, u) \in Int
    BY <1>1, <1>2, RoundsAssumption DEF ScoreOf, Ticket
  <1> HIDE DEF t
  <1>4. [t EXCEPT !.score = ScoreOf(j, u)] \in Ticket
    BY <1>2, <1>3 DEF Ticket
  <1> QED
    BY <1>2, <1>3, <1>4 DEF t

\* Every operation keeps the tables well formed, one step for each of them.
LEMMA TypeStep == TypeOK /\ PlayersHaveTickets /\ [Next]_vars => TypeOK'
  <1> SUFFICES ASSUME TypeOK, PlayersHaveTickets, [Next]_vars
               PROVE  TypeOK'
    OBVIOUS
  <1> USE RoundsAssumption
  <1>1. ASSUME NEW r \in Rounds, CreateRound(r)
        PROVE  TypeOK'
    <2>1. round' \in [Rounds -> [status : Status, result : Results \cup {Nothing}]]
      BY <1>1, StatusType DEF CreateRound, Status
    <2> QED
      BY <1>1, <2>1 DEF TypeOK, CreateRound, benefitVars, scoreVars
  <1>2. ASSUME NEW r \in Rounds, PassCloseAt(r)
        PROVE  TypeOK'
    BY <1>2 DEF TypeOK, PassCloseAt, benefitVars, scoreVars
  <1>3. ASSUME NEW j \in Jobs, NEW r \in Rounds, Start(j, r)
        PROVE  TypeOK'
    <2>1. \E w \in Job : Continue(j, w)
      <3>1. CASE StartOpen(j, r)
        BY <3>1 DEF StartOpen, Begin, Continue, Job, StepJob
      <3>2. CASE StartGrants(j, r)
        BY <3>2 DEF StartGrants, Begin, Continue, Job, GrantJob
      <3>3. CASE StartScheduledClose(j, r) \/ StartCloseAndScore(j, r)
        BY <3>3 DEF StartScheduledClose, StartCloseAndScore, Begin, Continue, Job, CloseJob
      <3>4. CASE StartCancel(j, r)
        BY <3>4 DEF StartCancel, Begin, Continue, Job, CancelJob, StepJob
      <3>5. ASSUME NEW x \in Results, StartSetResult(j, r, x)
            PROVE  \E w \in Job : Continue(j, w)
        BY <3>5 DEF StartSetResult, Begin, Continue, Job, ResultJob
      <3>6. CASE StartScore(j, r)
        <4>1. Scoring(r) \in ScoringJob
          BY <3>6 DEF StartScore, CanScore, Scoring, ScoringJob, TypeOK
        <4> QED
          BY <3>6, <4>1 DEF StartScore, Begin, Continue, Job
      <3> QED
        BY <1>3, <3>1, <3>2, <3>3, <3>4, <3>5, <3>6 DEF Start
    <2>2. job' \in [Jobs -> {Idle} \cup Job]
      BY <2>1, JobType
    <2>3. UNCHANGED <<roundVars, benefitVars, ticket, scoreVars, request>>
      BY <1>3 DEF Start, StartOpen, StartGrants, StartScheduledClose, StartCloseAndScore,
                  StartCancel, StartSetResult, StartScore
    <2> QED
      BY <2>2, <2>3 DEF TypeOK, roundVars, benefitVars, scoreVars

  <1>4. ASSUME NEW j \in Jobs, CommitOpen(j)
        PROVE  TypeOK'
    <2> DEFINE r == job[j].round
               w == [op |-> "grant", round |-> r, todo |-> Users]
    <2>1. r \in Rounds
      BY <1>4, JobFields DEF CommitOpen, StepJob
    <2>2. round' \in [Rounds -> [status : Status, result : Results \cup {Nothing}]]
      BY <1>4, <2>1, StatusType DEF CommitOpen, Status
    <2>3. w \in Job
      BY <2>1 DEF Job, GrantJob
    <2>4. job' \in [Jobs -> {Idle} \cup Job]
      BY <1>4, <2>3, JobType DEF CommitOpen
    <2> QED
      BY <1>4, <2>2, <2>4 DEF TypeOK, CommitOpen, benefitVars, scoreVars
  <1>5. ASSUME NEW j \in Jobs, NEW u \in Users, GrantTo(j, u)
        PROVE  TypeOK'
    <2> DEFINE r == job[j].round
               g == IF free[u][r] = NoRow THEN given[u][r] + Grant[u] ELSE given[u][r]
    <2>1. r \in Rounds /\ job[j] \in GrantJob
      BY <1>5, JobFields DEF GrantTo, GrantJob
    <2>2. AfterGrant(u, r) \in Nat \cup {NoRow}
      BY <2>1 DEF AfterGrant, TypeOK
    <2>3. free' = [free EXCEPT ![u][r] = AfterGrant(u, r)]
      BY <1>5 DEF GrantTo
    <2>4. free' \in [Users -> [Rounds -> Nat \cup {NoRow}]]
      BY <2>1, <2>2, <2>3, CellType DEF TypeOK
    <2>5. g \in Nat
      BY <2>1 DEF TypeOK
    <2>6. given' = [given EXCEPT ![u][r] = g]
      BY <1>5 DEF GrantTo
    <2>7. given' \in [Users -> [Rounds -> Nat]]
      BY <2>1, <2>5, <2>6, CellType DEF TypeOK
    <2>8. [job[j] EXCEPT !.todo = @ \ {u}] \in Job
      BY <2>1 DEF GrantJob, Job
    <2>9. job' \in [Jobs -> {Idle} \cup Job]
      BY <1>5, <2>8, JobType DEF GrantTo, End
    <2> QED
      BY <1>5, <2>4, <2>7, <2>9 DEF TypeOK, GrantTo, roundVars, scoreVars
  <1>6. ASSUME NEW u \in Users, NEW r \in Rounds, CreditFree(u, r)
        PROVE  TypeOK'
    <2> DEFINE f == IF free[u][r] = NoRow THEN Gift ELSE free[u][r] + Gift
    <2>1. f \in Nat \cup {NoRow} /\ given[u][r] + Gift \in Nat
      BY DEF TypeOK
    <2>2. free' = [free EXCEPT ![u][r] = f]
      BY <1>6 DEF CreditFree
    <2>3. free' \in [Users -> [Rounds -> Nat \cup {NoRow}]]
      BY <2>1, <2>2, CellType DEF TypeOK
    <2>4. given' = [given EXCEPT ![u][r] = given[u][r] + Gift]
      BY <1>6 DEF CreditFree
    <2>5. given' \in [Users -> [Rounds -> Nat]]
      BY <2>1, <2>4, CellType DEF TypeOK
    <2>6. gifts' \in 0..MaxGifts
      BY <1>6 DEF CreditFree, TypeOK
    <2> QED
      BY <1>6, <2>3, <2>5, <2>6 DEF TypeOK, CreditFree, roundVars, scoreVars
  <1>7. ASSUME NEW q \in Requests, NEW u \in Users, NEW r \in Rounds, NEW p \in Predictions,
               StartTicket(q, u, r, p)
        PROVE  TypeOK'
    <2>1. [op |-> "submit", user |-> u, round |-> r, prediction |-> p] \in Submission
      BY DEF Submission
    <2> QED
      BY <1>7, <2>1 DEF TypeOK, StartTicket, roundVars, benefitVars, scoreVars
  <1>8. ASSUME NEW q \in Requests, ReadBenefits(q)
        PROVE  TypeOK'
    <2> DEFINE s == request[q]
               row == free[s.user][s.round]
               seen == IF row > 0 THEN row ELSE 0
               c == [op |-> "consume", user |-> s.user, round |-> s.round,
                     prediction |-> s.prediction, seen |-> seen]
    <2>1. s \in Submission
      BY <1>8, RequestFields DEF ReadBenefits
    <2>2. s.user \in Users /\ s.round \in Rounds /\ s.prediction \in Predictions
      BY <2>1 DEF Submission
    <2>3. row \in Nat \cup {NoRow}
      BY <2>2 DEF TypeOK
    <2>4. seen \in Nat
      BY <2>3 DEF NoRow
    <2>5. c \in Consumption
      BY <2>2, <2>4 DEF Consumption
    <2>6. request' = [request EXCEPT ![q] = c]
      BY <1>8 DEF ReadBenefits
    <2>7. request' \in [Requests -> {Idle} \cup Submission \cup Consumption]
      BY <2>5, <2>6 DEF TypeOK
    <2> QED
      BY <1>8, <2>7 DEF TypeOK, ReadBenefits, roundVars, benefitVars, scoreVars
  <1>9. ASSUME NEW q \in Requests, CommitTicket(q)
        PROVE  TypeOK'
    <2> DEFINE u == request[q].user
               r == request[q].round
               p == request[q].prediction
               used == FreeUsed(q)
               f == IF used > 0 THEN free[u][r] - used ELSE free[u][r]
               t == [prediction |-> p, freeUsed |-> used,
                     inventoryUsed |-> InventoryUsed(q), score |-> Nothing]
    <2>1. u \in Users /\ r \in Rounds /\ p \in Predictions
      BY <1>9, RequestFields DEF CommitTicket, Consumption
    <2>2. /\ used \in Nat
          /\ InventoryUsed(q) \in Nat
          /\ f \in Nat \cup {NoRow}
      BY <1>9, PaidParts DEF CommitTicket
    <2> HIDE DEF f, t
    <2>3. free' = [free EXCEPT ![u][r] = f]
      BY <1>9 DEF CommitTicket, f
    <2>4. free' \in [Users -> [Rounds -> Nat \cup {NoRow}]]
      BY <2>1, <2>2, <2>3, CellType DEF TypeOK
    <2>5. inventory[u] - InventoryUsed(q) \in Nat
      BY <1>9, <2>1, <2>2 DEF CommitTicket, CanPay, TypeOK
    <2>6. inventory' = [inventory EXCEPT ![u] = inventory[u] - InventoryUsed(q)]
      BY <1>9 DEF CommitTicket
    <2>7. inventory' \in [Users -> Nat]
      BY <2>5, <2>6 DEF TypeOK
    <2>8. t \in Ticket
      BY <2>1, <2>2 DEF Ticket, t
    <2>9. ticket' = [ticket EXCEPT ![u][r] = t]
      BY <1>9 DEF CommitTicket, t
    <2>10. ticket' \in [Users -> [Rounds -> Ticket \cup {Nothing}]]
      BY <2>1, <2>8, <2>9, CellType DEF TypeOK
    <2>11. request' \in [Requests -> {Idle} \cup Submission \cup Consumption]
      BY <1>9 DEF CommitTicket, TypeOK
    <2> QED
      BY <1>9, <2>4, <2>7, <2>10, <2>11 DEF TypeOK, CommitTicket, roundVars, scoreVars
  <1>10. ASSUME NEW q \in Requests, RollBackTicket(q)
         PROVE  TypeOK'
    BY <1>10 DEF TypeOK, RollBackTicket, roundVars, benefitVars, scoreVars
  <1>11. ASSUME NEW j \in Jobs, RejectOpen(j) \/ RejectScore(j) \/ Crash(j)
         PROVE  TypeOK'
    <2>1. job' \in [Jobs -> {Idle} \cup Job]
      BY <1>11, JobType DEF RejectOpen, RejectScore, Crash, End
    <2> QED
      BY <1>11, <2>1
      DEF TypeOK, RejectOpen, RejectScore, Crash, roundVars, benefitVars, scoreVars
  <1>12. ASSUME NEW j \in Jobs, CommitClose(j)
         PROVE  TypeOK'
    <2>1. job[j] \in CloseJob
      BY <1>12, JobFields DEF CommitClose
    <2>2. round' \in [Rounds -> [status : Status, result : Results \cup {Nothing}]]
      BY <1>12, <2>1, StatusType DEF CommitClose, CloseJob, Status
    <2>3. [job[j] EXCEPT !.op = "zero"] \in Job
      BY <2>1 DEF CloseJob, Job
    <2>4. job' \in [Jobs -> {Idle} \cup Job]
      BY <1>12, <2>3, JobType DEF CommitClose
    <2> QED
      BY <1>12, <2>2, <2>4 DEF TypeOK, CommitClose, benefitVars, scoreVars
  <1>13. ASSUME NEW j \in Jobs, ZeroBenefits(j)
         PROVE  TypeOK'
    <2> DEFINE r == job[j].round
               f(u) == IF free[u][r] = NoRow THEN NoRow ELSE 0
    <2>1. r \in Rounds
      BY <1>13, JobFields DEF ZeroBenefits, CloseJob
    <2>2. free' = [u \in Users |-> [free[u] EXCEPT ![r] = f(u)]]
      BY <1>13 DEF ZeroBenefits
    <2>3. \A u \in Users : [free[u] EXCEPT ![r] = f(u)] \in [Rounds -> Nat \cup {NoRow}]
      BY <2>1 DEF TypeOK
    <2>4. free' \in [Users -> [Rounds -> Nat \cup {NoRow}]]
      BY <2>2, <2>3
    <2>5. [op |-> "score", round |-> r] \in Job
      BY <2>1 DEF StepJob, Job
    <2>6. job' \in [Jobs -> {Idle} \cup Job]
      BY <1>13, <2>5, JobType DEF ZeroBenefits, End
    <2> QED
      BY <1>13, <2>4, <2>6 DEF TypeOK, ZeroBenefits, roundVars, scoreVars
  <1>14. ASSUME NEW j \in Jobs, CountTickets(j)
         PROVE  TypeOK'
    <2> DEFINE w == [op |-> "cancel", round |-> job[j].round, expire |-> TRUE]
    <2>1. w \in Job
      BY <1>14, JobFields DEF CountTickets, StepJob, CancelJob, Job
    <2>2. job' \in [Jobs -> {Idle} \cup Job]
      BY <1>14, <2>1, JobType DEF CountTickets, End
    <2> QED
      BY <1>14, <2>2 DEF TypeOK, CountTickets, roundVars, benefitVars, scoreVars
  <1>15. ASSUME NEW j \in Jobs, CommitCancel(j)
         PROVE  TypeOK'
    <2>1. job[j] \in CancelJob
      BY <1>15, JobFields DEF CommitCancel
    <2>2. round' \in [Rounds -> [status : Status, result : Results \cup {Nothing}]]
      BY <1>15, <2>1, StatusType DEF CommitCancel, CancelJob, Status
    <2>3. due' \in [Rounds -> BOOLEAN]
      BY <1>15, <2>1 DEF CommitCancel, CancelJob, TypeOK
    <2>4. job' \in [Jobs -> {Idle} \cup Job]
      BY <1>15, JobType DEF CommitCancel, End
    <2> QED
      BY <1>15, <2>2, <2>3, <2>4 DEF TypeOK, CommitCancel, benefitVars, scoreVars
  <1>16. ASSUME NEW j \in Jobs, CommitResult(j)
         PROVE  TypeOK'
    <2>1. job[j] \in ResultJob
      BY <1>16, JobFields DEF CommitResult
    <2>2. round' \in [Rounds -> [status : Status, result : Results \cup {Nothing}]]
      BY <1>16, <2>1, ResultType DEF CommitResult, ResultJob
    <2>3. job' \in [Jobs -> {Idle} \cup Job]
      BY <1>16, JobType DEF CommitResult, End
    <2> QED
      BY <1>16, <2>2, <2>3 DEF TypeOK, CommitResult, benefitVars, scoreVars
  <1>17. ASSUME NEW j \in Jobs, ReadClosedRound(j)
         PROVE  TypeOK'
    <2> DEFINE r == job[j].round
    <2>1. r \in Rounds
      BY <1>17, JobFields DEF ReadClosedRound, StepJob
    <2>2. CanScore(r) => Scoring(r) \in Job
      BY <2>1 DEF CanScore, Scoring, ScoringJob, Job, TypeOK
    <2>3. job' \in [Jobs -> {Idle} \cup Job]
      BY <1>17, <2>2, JobType DEF ReadClosedRound, End
    <2> QED
      BY <1>17, <2>3 DEF TypeOK, ReadClosedRound, roundVars, benefitVars, scoreVars
  <1>18. ASSUME NEW j \in Jobs, CommitScore(j)
         PROVE  TypeOK'
    <2> DEFINE r == job[j].round
               players == job[j].players
               s(u) == ScoreOf(j, u)
    <2>1. r \in Rounds /\ players \subseteq Users /\ job[j].result \in Results
      BY <1>18, JobFields DEF CommitScore, ScoringJob
    <2>2. ASSUME NEW u \in players
          PROVE  [ticket[u][r] EXCEPT !.score = s(u)] \in Ticket
      BY <1>18, <2>2, ScoreType
    <2>3. ASSUME NEW u \in players
          PROVE  s(u) \in Int
      BY <1>18, <2>3, ScoreType
    <2>4. scoreTotal' = [u \in Users |-> IF u \in players THEN scoreTotal[u] + s(u)
                                         ELSE scoreTotal[u]]
      BY <1>18 DEF CommitScore
    <2>5. ticket' = [u \in Users |-> IF u \in players
                                     THEN [ticket[u] EXCEPT ![r].score = s(u)]
                                     ELSE ticket[u]]
      BY <1>18 DEF CommitScore
    <2>6. history' = [u \in Users |->
                        IF u \in players
                        THEN [history[u] EXCEPT ![r] = [scoreRound |-> s(u),
                                                        scoreTotal |-> scoreTotal[u] + s(u)]]
                        ELSE history[u]]
      BY <1>18 DEF CommitScore
    <2>7. round' \in [Rounds -> [status : Status, result : Results \cup {Nothing}]]
      BY <1>18, <2>1, StatusType DEF CommitScore, Status
    <2>8. job' \in [Jobs -> {Idle} \cup Job]
      <3> DEFINE w == [op |-> "snapshot", round |-> r]
      <3>1. w \in StepJob
        BY <2>1 DEF StepJob
      <3>2. w \in {Idle} \cup Job /\ Continue(j, w)
        BY <1>18, <3>1 DEF CommitScore, Job
      <3> HIDE DEF w
      <3> QED
        BY <3>2, JobType
    <2> HIDE DEF r, players, s
    <2>9. scoreTotal' \in [Users -> Int]
      BY <2>3, <2>4 DEF TypeOK
    <2>10. ticket' \in [Users -> [Rounds -> Ticket \cup {Nothing}]]
      <3>1. ASSUME NEW u \in players
            PROVE  [ticket[u] EXCEPT ![r].score = s(u)] \in [Rounds -> Ticket \cup {Nothing}]
        <4>1. [ticket[u][r] EXCEPT !.score = s(u)] \in Ticket
          BY <2>2, <3>1
        <4>2. ticket[u] \in [Rounds -> Ticket \cup {Nothing}]
          BY <2>1, <3>1 DEF TypeOK
        <4> QED
          BY <2>1, <4>1, <4>2
      <3>2. ASSUME NEW u \in Users
            PROVE  ticket[u] \in [Rounds -> Ticket \cup {Nothing}]
        BY DEF TypeOK
      <3> QED
        BY <2>5, <3>1, <3>2
    <2>11. history' \in [Users -> [Rounds -> History \cup {Nothing}]]
      <3>1. ASSUME NEW u \in players
            PROVE  [scoreRound |-> s(u), scoreTotal |-> scoreTotal[u] + s(u)] \in History
        <4>1. scoreTotal[u] \in Int
          BY <2>1, <3>1 DEF TypeOK
        <4> QED
          BY <2>3, <3>1, <4>1 DEF History
      <3>2. ASSUME NEW u \in Users
            PROVE  history[u] \in [Rounds -> History \cup {Nothing}]
        BY DEF TypeOK
      <3>3. ASSUME NEW u \in players
            PROVE  [history[u] EXCEPT ![r] = [scoreRound |-> s(u),
                                              scoreTotal |-> scoreTotal[u] + s(u)]]
                     \in [Rounds -> History \cup {Nothing}]
        BY <2>1, <3>1, <3>2, <3>3
      <3> QED
        BY <2>6, <3>2, <3>3
    <2> QED
      BY <1>18, <2>7, <2>8, <2>9, <2>10, <2>11 DEF TypeOK, CommitScore, benefitVars
  <1>19. ASSUME NEW j \in Jobs, TakeSnapshot(j)
         PROVE  TypeOK'
    <2>1. job[j].round \in Rounds
      BY <1>19, JobFields DEF TakeSnapshot, StepJob
    <2>2. snapshot' \in [Rounds -> [Users -> Int \cup {Nothing}] \cup {Nothing}]
      BY <1>19, <2>1, SnapshotType DEF TakeSnapshot
    <2>3. job' \in [Jobs -> {Idle} \cup Job]
      BY <1>19, JobType DEF TakeSnapshot, End
    <2> QED
      BY <1>19, <2>2, <2>3 DEF TypeOK, TakeSnapshot, roundVars, benefitVars
  <1>20. ASSUME NEW r \in Rounds, GenerateSnapshot(r)
         PROVE  TypeOK'
    <2>1. snapshot' \in [Rounds -> [Users -> Int \cup {Nothing}] \cup {Nothing}]
      BY <1>20, SnapshotType DEF GenerateSnapshot
    <2> QED
      BY <1>20, <2>1 DEF TypeOK, GenerateSnapshot, roundVars, benefitVars
  <1>21. CASE UNCHANGED vars
    BY <1>21 DEF TypeOK, vars
  <1> QED
    BY <1>1, <1>2, <1>3, <1>4, <1>5, <1>6, <1>7, <1>8, <1>9, <1>10, <1>11, <1>12, <1>13,
       <1>14, <1>15, <1>16, <1>17, <1>18, <1>19, <1>20, <1>21
    DEF Next, Submit, Work

-----------------------------------------------------------------------------
(* Which operations write which tables.                                     *)

\* Tickets, histories, totals and the bought benefits are written by a submission
\* and by a scoring only.
LEMMA TicketSteps ==
    [Next]_vars => \/ \E q \in Requests : CommitTicket(q)
                   \/ \E j \in Jobs : CommitScore(j)
                   \/ UNCHANGED <<ticket, history, scoreTotal, inventory>>
  <1>1. ASSUME NEW j \in Jobs, NEW r \in Rounds, Start(j, r)
        PROVE  UNCHANGED <<ticket, history, scoreTotal, inventory>>
    BY <1>1 DEF Start, StartOpen, StartGrants, StartScheduledClose, StartCloseAndScore,
                StartCancel, StartSetResult, StartScore, scoreVars, benefitVars
  <1>2. ASSUME NEW j \in Jobs, Work(j) \/ Crash(j)
        PROVE  CommitScore(j) \/ UNCHANGED <<ticket, history, scoreTotal, inventory>>
    BY <1>2 DEF Work, CommitOpen, RejectOpen, GrantTo, CommitClose, ZeroBenefits,
                CountTickets, CommitCancel, CommitResult, ReadClosedRound, RejectScore,
                TakeSnapshot, Crash, scoreVars, benefitVars
  <1>3. ASSUME NEW q \in Requests, Submit(q)
        PROVE  CommitTicket(q) \/ UNCHANGED <<ticket, history, scoreTotal, inventory>>
    BY <1>3 DEF Submit, StartTicket, ReadBenefits, RollBackTicket, scoreVars, benefitVars
  <1>4. ASSUME NEW r \in Rounds, CreateRound(r) \/ PassCloseAt(r) \/ GenerateSnapshot(r)
        PROVE  UNCHANGED <<ticket, history, scoreTotal, inventory>>
    BY <1>4 DEF CreateRound, PassCloseAt, GenerateSnapshot, scoreVars, benefitVars
  <1>5. ASSUME NEW u \in Users, NEW r \in Rounds, CreditFree(u, r)
        PROVE  UNCHANGED <<ticket, history, scoreTotal, inventory>>
    BY <1>5 DEF CreditFree, scoreVars, benefitVars
  <1>6. ASSUME UNCHANGED vars
        PROVE  UNCHANGED <<ticket, history, scoreTotal, inventory>>
    BY <1>6 DEF vars
  <1> QED
    BY <1>1, <1>2, <1>3, <1>4, <1>5, <1>6 DEF Next

\* Free benefits move by tickets, grants, credits and closings only.
LEMMA BenefitSteps ==
    [Next]_vars => \/ \E q \in Requests : CommitTicket(q)
                   \/ \E j \in Jobs, u \in Users : GrantTo(j, u)
                   \/ \E u \in Users, r \in Rounds : CreditFree(u, r)
                   \/ \E j \in Jobs : ZeroBenefits(j)
                   \/ UNCHANGED <<free, given>>
  <1>1. ASSUME NEW j \in Jobs, NEW r \in Rounds, Start(j, r)
        PROVE  UNCHANGED <<free, given>>
    BY <1>1 DEF Start, StartOpen, StartGrants, StartScheduledClose, StartCloseAndScore,
                StartCancel, StartSetResult, StartScore, benefitVars
  <1>2. ASSUME NEW j \in Jobs, Work(j) \/ Crash(j)
        PROVE  \/ \E u \in Users : GrantTo(j, u)
               \/ ZeroBenefits(j)
               \/ UNCHANGED <<free, given>>
    BY <1>2 DEF Work, CommitOpen, RejectOpen, CommitClose, CountTickets, CommitCancel,
                CommitResult, ReadClosedRound, CommitScore, RejectScore, TakeSnapshot,
                Crash, benefitVars
  <1>3. ASSUME NEW q \in Requests, Submit(q)
        PROVE  CommitTicket(q) \/ UNCHANGED <<free, given>>
    BY <1>3 DEF Submit, StartTicket, ReadBenefits, RollBackTicket, benefitVars
  <1>4. ASSUME NEW r \in Rounds, CreateRound(r) \/ PassCloseAt(r) \/ GenerateSnapshot(r)
        PROVE  UNCHANGED <<free, given>>
    BY <1>4 DEF CreateRound, PassCloseAt, GenerateSnapshot, benefitVars
  <1>5. ASSUME UNCHANGED vars
        PROVE  UNCHANGED <<free, given>>
    BY <1>5 DEF vars
  <1> QED
    BY <1>1, <1>2, <1>3, <1>4, <1>5 DEF Next

\* Snapshots are written by SnapshotRanking only, which writes no history.
LEMMA SnapshotSteps ==
    ASSUME TypeOK
    PROVE  [Next]_vars => \/ \E r \in Rounds : WriteSnapshot(r) /\ UNCHANGED history
                          \/ UNCHANGED snapshot
  <1>1. ASSUME NEW j \in Jobs, NEW r \in Rounds, Start(j, r)
        PROVE  UNCHANGED snapshot
    BY <1>1 DEF Start, StartOpen, StartGrants, StartScheduledClose, StartCloseAndScore,
                StartCancel, StartSetResult, StartScore, scoreVars
  <1>2. ASSUME NEW j \in Jobs, TakeSnapshot(j)
        PROVE  \E r \in Rounds : WriteSnapshot(r) /\ UNCHANGED history
    BY <1>2, JobFields DEF TakeSnapshot, StepJob
  <1>3. ASSUME NEW j \in Jobs, Work(j) \/ Crash(j)
        PROVE  TakeSnapshot(j) \/ UNCHANGED snapshot
    BY <1>3 DEF Work, CommitOpen, RejectOpen, GrantTo, CommitClose, ZeroBenefits,
                CountTickets, CommitCancel, CommitResult, ReadClosedRound, CommitScore,
                RejectScore, Crash, scoreVars
  <1>4. ASSUME NEW q \in Requests, Submit(q)
        PROVE  UNCHANGED snapshot
    BY <1>4 DEF Submit, StartTicket, ReadBenefits, CommitTicket, RollBackTicket, scoreVars
  <1>5. ASSUME NEW r \in Rounds, CreateRound(r) \/ PassCloseAt(r) \/ GenerateSnapshot(r)
        PROVE  (WriteSnapshot(r) /\ UNCHANGED history) \/ UNCHANGED snapshot
    BY <1>5 DEF CreateRound, PassCloseAt, GenerateSnapshot, scoreVars
  <1>6. ASSUME NEW u \in Users, NEW r \in Rounds, CreditFree(u, r)
        PROVE  UNCHANGED snapshot
    BY <1>6 DEF CreditFree, scoreVars
  <1>7. ASSUME UNCHANGED vars
        PROVE  UNCHANGED snapshot
    BY <1>7 DEF vars
  <1> QED
    BY <1>1, <1>2, <1>3, <1>4, <1>5, <1>6, <1>7 DEF Next

Unopened == {"NONE", "DRAFT"}

\* Only an opening that the index allows makes a round OPEN, and only its creation
\* a draft.
LEMMA RoundSteps ==
    ASSUME TypeOK
    PROVE  [Next]_vars =>
             \/ UNCHANGED round
             \/ \E r \in Rounds, s \in Status :
                  /\ SetStatus(r, s)
                  /\ s = "OPEN" => OpenIndexAllows(r)
                  /\ s \in Unopened => round[r].status = "NONE"
             \/ \E r \in Rounds, x \in Results : round' = [round EXCEPT ![r].result = x]
  <1> DEFINE P == \/ UNCHANGED round
                  \/ \E r \in Rounds, s \in Status :
                       /\ SetStatus(r, s)
                       /\ s = "OPEN" => OpenIndexAllows(r)
                       /\ s \in Unopened => round[r].status = "NONE"
                  \/ \E r \in Rounds, x \in Results : round' = [round EXCEPT ![r].result = x]
  <1>1. ASSUME NEW j \in Jobs, NEW r \in Rounds, Start(j, r)
        PROVE  UNCHANGED round
    BY <1>1 DEF Start, StartOpen, StartGrants, StartScheduledClose, StartCloseAndScore,
                StartCancel, StartSetResult, StartScore, roundVars
  <1>2. ASSUME NEW j \in Jobs, CommitOpen(j)
        PROVE  P
    BY <1>2, JobFields DEF CommitOpen, StepJob, Status, Unopened
  <1>3. ASSUME NEW j \in Jobs, CommitClose(j)
        PROVE  P
    BY <1>3, JobFields DEF CommitClose, CloseJob, Status, Unopened
  <1>4. ASSUME NEW j \in Jobs, CommitCancel(j)
        PROVE  P
    BY <1>4, JobFields DEF CommitCancel, CancelJob, Status, Unopened
  <1>5. ASSUME NEW j \in Jobs, CommitScore(j)
        PROVE  P
    BY <1>5, JobFields DEF CommitScore, ScoringJob, Status, Unopened
  <1>6. ASSUME NEW j \in Jobs, CommitResult(j)
        PROVE  P
    BY <1>6, JobFields DEF CommitResult, ResultJob
  <1>7. ASSUME NEW r \in Rounds, CreateRound(r)
        PROVE  P
    BY <1>7 DEF CreateRound, Status, Unopened
  <1>8. ASSUME NEW j \in Jobs, Work(j) \/ Crash(j)
        PROVE  \/ CommitOpen(j) \/ CommitClose(j) \/ CommitCancel(j)
               \/ CommitScore(j) \/ CommitResult(j) \/ UNCHANGED round
    BY <1>8 DEF Work, RejectOpen, GrantTo, ZeroBenefits, CountTickets, ReadClosedRound,
                RejectScore, TakeSnapshot, Crash, roundVars
  <1>9. ASSUME NEW q \in Requests, Submit(q)
        PROVE  UNCHANGED round
    BY <1>9 DEF Submit, StartTicket, ReadBenefits, CommitTicket, RollBackTicket, roundVars
  <1>10. ASSUME NEW r \in Rounds, PassCloseAt(r) \/ GenerateSnapshot(r)
         PROVE  UNCHANGED round
    BY <1>10 DEF PassCloseAt, GenerateSnapshot, roundVars
  <1>11. ASSUME NEW u \in Users, NEW r \in Rounds, CreditFree(u, r)
         PROVE  UNCHANGED round
    BY <1>11 DEF CreditFree, roundVars
  <1>12. ASSUME UNCHANGED vars
         PROVE  UNCHANGED round
    BY <1>12 DEF vars
  <1> HIDE DEF P
  <1>13. UNCHANGED round => P
    BY DEF P
  <1>14. [Next]_vars => P
    BY <1>1, <1>2, <1>3, <1>4, <1>5, <1>6, <1>7, <1>8, <1>9, <1>10, <1>11, <1>12, <1>13
    DEF Next
  <1> QED
    BY <1>14 DEF P

\* An operation that is scoring has been so before or has just read the tickets.
LEMMA ScoringSteps ==
    ASSUME TypeOK, [Next]_vars, NEW k \in Jobs, job'[k].op = "scoring"
    PROVE  \/ job'[k] = job[k]
           \/ \E r \in Rounds : job'[k] = Scoring(r) /\ UNCHANGED ticket
  <1> DEFINE P == \/ job'[k] = job[k]
                  \/ \E r \in Rounds : job'[k] = Scoring(r) /\ UNCHANGED ticket
  <1>1. ASSUME NEW j \in Jobs, NEW w, Continue(j, w), w.op # "scoring"
        PROVE  P
    BY <1>1 DEF Continue, TypeOK
  <1>2. ASSUME NEW j \in Jobs, NEW r \in Rounds, Continue(j, Scoring(r)), UNCHANGED ticket
        PROVE  P
    BY <1>2 DEF Continue, TypeOK
  <1> HIDE DEF P
  <1>3. ASSUME NEW j \in Jobs, NEW r \in Rounds, Start(j, r)
        PROVE  P
    <2>1. StartScore(j, r) => P
      BY <1>2 DEF StartScore, Begin, Continue
    <2>2. ASSUME NEW w, Begin(j, w), w.op # "scoring"
          PROVE  P
      BY <1>1, <2>2 DEF Begin, Continue
    <2>3. StartOpen(j, r) => P
      BY <2>2 DEF StartOpen
    <2>4. StartGrants(j, r) => P
      BY <2>2 DEF StartGrants
    <2>5. StartScheduledClose(j, r) => P
      BY <2>2 DEF StartScheduledClose
    <2>6. StartCloseAndScore(j, r) => P
      BY <2>2 DEF StartCloseAndScore
    <2>7. StartCancel(j, r) => P
      BY <2>2 DEF StartCancel
    <2>8. ASSUME NEW x \in Results, StartSetResult(j, r, x)
          PROVE  P
      BY <2>2, <2>8 DEF StartSetResult
    <2> QED
      BY <1>3, <2>1, <2>3, <2>4, <2>5, <2>6, <2>7, <2>8 DEF Start
  <1>4. ASSUME NEW j \in Jobs, End(j)
        PROVE  P
    BY <1>1, <1>4 DEF End, Idle
  <1>5. ASSUME NEW j \in Jobs, Work(j) \/ Crash(j)
        PROVE  P
    <2>1. Crash(j) => P
      BY <1>4 DEF Crash
    <2>2. CommitOpen(j) => P
      BY <1>1 DEF CommitOpen
    <2>3. RejectOpen(j) => P
      BY <1>4 DEF RejectOpen
    <2>4. ASSUME NEW u \in Users, GrantTo(j, u)
          PROVE  P
      <3>1. [job[j] EXCEPT !.todo = @ \ {u}].op = "grant"
        BY <2>4, JobFields DEF GrantTo, GrantJob
      <3> QED
        BY <1>1, <1>4, <2>4, <3>1 DEF GrantTo
    <2>5. CommitClose(j) => P
      <3> SUFFICES ASSUME CommitClose(j)
                   PROVE  P
        OBVIOUS
      <3>1. [job[j] EXCEPT !.op = "zero"].op = "zero"
        BY JobFields DEF CommitClose, CloseJob
      <3> QED
        BY <1>1, <3>1 DEF CommitClose
    <2>6. ZeroBenefits(j) => P
      BY <1>1, <1>4 DEF ZeroBenefits
    <2>7. CountTickets(j) => P
      BY <1>1, <1>4 DEF CountTickets
    <2>8. CommitCancel(j) \/ CommitResult(j) \/ RejectScore(j) \/ TakeSnapshot(j) => P
      BY <1>4 DEF CommitCancel, CommitResult, RejectScore, TakeSnapshot
    <2>9. ReadClosedRound(j) => P
      BY <1>2, <1>4, JobFields DEF ReadClosedRound, StepJob
    <2>10. CommitScore(j) => P
      BY <1>1 DEF CommitScore
    <2> QED
      BY <1>5, <2>1, <2>2, <2>3, <2>4, <2>5, <2>6, <2>7, <2>8, <2>9, <2>10 DEF Work
  <1>6. ASSUME UNCHANGED job
        PROVE  P
    BY <1>6 DEF P
  <1>7. ASSUME NEW q \in Requests, Submit(q)
        PROVE  UNCHANGED job
    BY <1>7 DEF Submit, StartTicket, ReadBenefits, CommitTicket, RollBackTicket
  <1>8. ASSUME NEW r \in Rounds, CreateRound(r) \/ PassCloseAt(r) \/ GenerateSnapshot(r)
        PROVE  UNCHANGED job
    BY <1>8 DEF CreateRound, PassCloseAt, GenerateSnapshot
  <1>9. ASSUME NEW u \in Users, NEW r \in Rounds, CreditFree(u, r)
        PROVE  UNCHANGED job
    BY <1>9 DEF CreditFree
  <1>10. ASSUME UNCHANGED vars
         PROVE  UNCHANGED job
    BY <1>10 DEF vars
  <1>11. P
    BY <1>3, <1>5, <1>6, <1>7, <1>8, <1>9, <1>10 DEF Next
  <1> QED
    BY <1>11 DEF P

\* No operation deletes a ticket.
LEMMA TicketsStay ==
    ASSUME TypeOK, PlayersHaveTickets, [Next]_vars, NEW u \in Users, NEW r \in Rounds,
           ticket[u][r] # Nothing
    PROVE  ticket'[u][r] # Nothing
  <1>1. CASE UNCHANGED <<ticket, history>>
    BY <1>1
  <1>2. ASSUME NEW q \in Requests, CommitTicket(q)
        PROVE  ticket'[u][r] # Nothing
    BY <1>2 DEF CommitTicket, TicketIsNew, TypeOK
  <1>3. ASSUME NEW j \in Jobs, CommitScore(j)
        PROVE  ticket'[u][r] # Nothing
    <2>1. CASE u \in job[j].players /\ r = job[j].round
      <3>1. ticket'[u][r] = [ticket[u][r] EXCEPT !.score = ScoreOf(j, u)]
        BY <1>3, <2>1 DEF CommitScore, TypeOK
      <3> QED
        BY <1>3, <2>1, <3>1, ScoreType, NothingAssumption
    <2>2. CASE ~(u \in job[j].players /\ r = job[j].round)
      BY <1>3, <2>2 DEF CommitScore, TypeOK
    <2> QED
      BY <2>1, <2>2
  <1> QED
    BY <1>1, <1>2, <1>3, TicketSteps

\* Every operation keeps the tickets of the players a scoring has read.
LEMMA PlayersStep == TypeOK /\ PlayersHaveTickets /\ [Next]_vars => PlayersHaveTickets'
  <1> SUFFICES ASSUME TypeOK, PlayersHaveTickets, [Next]_vars,
                      NEW k \in Jobs, job'[k].op = "scoring",
                      NEW u \in job'[k].players
               PROVE  ticket'[u][job'[k].round] # Nothing
    BY DEF PlayersHaveTickets
  <1>1. CASE job'[k] = job[k]
    <2>1. u \in Users /\ job[k].round \in Rounds
      BY <1>1, JobFields DEF ScoringJob
    <2>2. ticket[u][job[k].round] # Nothing
      BY <1>1 DEF PlayersHaveTickets
    <2> QED
      BY <1>1, <2>1, <2>2, TicketsStay
  <1>2. ASSUME NEW r \in Rounds, job'[k] = Scoring(r), UNCHANGED ticket
        PROVE  ticket'[u][job'[k].round] # Nothing
    BY <1>2 DEF Scoring
  <1> QED
    BY <1>1, <1>2, ScoringSteps

-----------------------------------------------------------------------------
(* TYPES                                                                    *)

\* The invariant holds before the first round is created.
LEMMA RoundsInit == Init => TypeOK /\ PlayersHaveTickets
  <1> SUFFICES ASSUME Init
               PROVE  TypeOK /\ PlayersHaveTickets
    OBVIOUS
  <1>1. TypeOK
    BY RoundsAssumption DEF Init, TypeOK, Status, NoRow
  <1>2. PlayersHaveTickets
    BY DEF Init, PlayersHaveTickets, Idle
  <1> QED
    BY <1>1, <1>2

\* Every table of the rounds keeps its form in every interleaving of submissions,
\* admins, jobs and crashes: no benefit row, inventory or price paid by a ticket
\* (ConsumeBenefitsService) goes below zero, and a scoring only ever meets tickets
\* that exist (ScoreRoundService).
THEOREM RoundsTypeCorrect == Spec => [](TypeOK /\ PlayersHaveTickets)
  <1>1. TypeOK /\ PlayersHaveTickets /\ [Next]_vars => (TypeOK /\ PlayersHaveTickets)'
    BY TypeStep, PlayersStep
  <1> QED
    BY <1>1, RoundsInit, PTL DEF Spec

-----------------------------------------------------------------------------
(* ONE OPEN ROUND                                                           *)

\* Every operation leaves at most one round OPEN.
LEMMA OneOpenStep == TypeOK /\ OneOpenRound /\ [Next]_vars => OneOpenRound'
  <1> SUFFICES ASSUME TypeOK, OneOpenRound, [Next]_vars,
                      NEW a \in Rounds, NEW b \in Rounds,
                      round'[a].status = "OPEN", round'[b].status = "OPEN"
               PROVE  a = b
    BY DEF OneOpenRound
  <1>1. CASE UNCHANGED round
    BY <1>1 DEF OneOpenRound
  <1>2. ASSUME NEW r \in Rounds, NEW s \in Status, SetStatus(r, s),
               s = "OPEN" => OpenIndexAllows(r)
        PROVE  a = b
    <2>1. \A c \in Rounds : round'[c].status = IF c = r THEN s ELSE round[c].status
      BY <1>2 DEF SetStatus, TypeOK
    <2> QED
      BY <1>2, <2>1 DEF OneOpenRound, OpenIndexAllows
  <1>3. ASSUME NEW r \in Rounds, NEW x \in Results, round' = [round EXCEPT ![r].result = x]
        PROVE  a = b
    <2>1. \A c \in Rounds : round'[c].status = round[c].status
      BY <1>3 DEF TypeOK
    <2> QED
      BY <2>1 DEF OneOpenRound
  <1> QED
    BY <1>1, <1>2, <1>3, RoundSteps

\* At most one round is OPEN, for any number of rounds, admins and job workers
\* opening them together (OpenRoundService under the partial unique index).
THEOREM RoundsOneOpen == Spec => []OneOpenRound
  <1>1. Init => OneOpenRound
    BY DEF Init, OneOpenRound
  <1> QED
    BY <1>1, OneOpenStep, RoundsTypeCorrect, PTL DEF Spec

-----------------------------------------------------------------------------
(* SNAPSHOTS                                                                *)

\* A history that exists stays as it is: the unique index stops a second scoring.
LEMMA HistoryStays ==
    ASSUME TypeOK, [Next]_vars, NEW u \in Users, NEW r \in Rounds, history[u][r] # Nothing
    PROVE  history'[u][r] = history[u][r]
  <1>1. ASSUME NEW j \in Jobs, CommitScore(j)
        PROVE  history'[u][r] = history[u][r]
    <2>1. ~(u \in job[j].players /\ r = job[j].round)
      BY <1>1 DEF CommitScore, HistoryIsNew
    <2> QED
      BY <1>1, <2>1 DEF CommitScore, TypeOK
  <1>2. ASSUME NEW q \in Requests, CommitTicket(q)
        PROVE  history'[u][r] = history[u][r]
    BY <1>2 DEF CommitTicket, scoreVars
  <1> QED
    BY <1>1, <1>2, TicketSteps

\* Every operation keeps the snapshots true to the histories.
LEMMA SnapshotStep ==
    TypeOK /\ SnapshotShowsHistory /\ [Next]_vars => SnapshotShowsHistory'
  <1> SUFFICES ASSUME TypeOK, SnapshotShowsHistory, [Next]_vars,
                      NEW r \in Rounds, NEW u \in Users,
                      snapshot'[r] # Nothing, snapshot'[r][u] # Nothing
               PROVE  \E s \in 1..r : /\ history'[u][s] # Nothing
                                      /\ history'[u][s].scoreTotal = snapshot'[r][u]
    BY DEF SnapshotShowsHistory
  <1>1. \A s \in 1..r : s \in Rounds
    BY RoundsAssumption DEF Rounds
  <1>2. CASE snapshot'[r] = snapshot[r]
    <2>1. PICK s \in 1..r : /\ history[u][s] # Nothing
                            /\ history[u][s].scoreTotal = snapshot[r][u]
      BY <1>2 DEF SnapshotShowsHistory
    <2>2. history'[u][s] = history[u][s]
      BY <1>1, <2>1, HistoryStays
    <2> QED
      BY <1>2, <2>1, <2>2
  <1>3. ASSUME NEW a \in Rounds, WriteSnapshot(a), UNCHANGED history,
               snapshot'[r] # snapshot[r]
        PROVE  \E s \in 1..r : /\ history'[u][s] # Nothing
                               /\ history'[u][s].scoreTotal = snapshot'[r][u]
    <2>1. snapshot'[r][u] = LatestTotal(u, r)
      BY <1>3 DEF WriteSnapshot, TypeOK
    <2> QED
      BY <1>3, <2>1, LatestTotalIsHistory
  <1> QED
    BY <1>2, <1>3, SnapshotSteps

\* A ranking snapshot only shows totals that a scoring committed, for that round
\* or an earlier one (SnapshotRankingService against ScoreRoundService).
THEOREM RoundsSnapshots == Spec => []SnapshotShowsHistory
  <1>1. Init => SnapshotShowsHistory
    BY DEF Init, SnapshotShowsHistory
  <1> QED
    BY <1>1, SnapshotStep, RoundsTypeCorrect, PTL DEF Spec

-----------------------------------------------------------------------------
(* TICKETS AND THEIR SCORES                                                 *)

EveryTicketScored == \A u \in Users, r \in Rounds : TicketScored(u, r)

\* Every operation keeps tickets and histories together.
LEMMA ScoredStep ==
    TypeOK /\ PlayersHaveTickets /\ EveryTicketScored /\ [Next]_vars => EveryTicketScored'
  <1> SUFFICES ASSUME TypeOK, PlayersHaveTickets, EveryTicketScored, [Next]_vars,
                      NEW u \in Users, NEW r \in Rounds
               PROVE  TicketScored(u, r)'
    BY DEF EveryTicketScored
  <1>1. TicketScored(u, r)
    BY DEF EveryTicketScored
  <1>2. ASSUME ticket'[u][r] = ticket[u][r], history'[u][r] = history[u][r]
        PROVE  TicketScored(u, r)'
    BY <1>1, <1>2 DEF TicketScored
  <1>3. ASSUME NEW q \in Requests, CommitTicket(q)
        PROVE  TicketScored(u, r)'
    <2>1. history'[u][r] = history[u][r]
      BY <1>3 DEF CommitTicket, scoreVars
    <2>2. CASE request[q].user = u /\ request[q].round = r
      <3>1. history[u][r] = Nothing
        BY <1>1, <1>3, <2>2 DEF CommitTicket, TicketIsNew, TicketScored
      <3>2. ticket'[u][r].score = Nothing
        BY <1>3, <2>2 DEF CommitTicket, TypeOK
      <3> QED
        BY <2>1, <3>1, <3>2 DEF TicketScored
    <2>3. CASE ~(request[q].user = u /\ request[q].round = r)
      <3>1. ticket'[u][r] = ticket[u][r]
        BY <1>3, <2>3 DEF CommitTicket, TypeOK
      <3> QED
        BY <1>2, <2>1, <3>1
    <2> QED
      BY <2>2, <2>3
  <1>4. ASSUME NEW j \in Jobs, CommitScore(j)
        PROVE  TicketScored(u, r)'
    <2>1. CASE u \in job[j].players /\ r = job[j].round
      <3> DEFINE s == ScoreOf(j, u)
                 h == [scoreRound |-> s, scoreTotal |-> scoreTotal[u] + s]
                 t == [ticket[u][r] EXCEPT !.score = s]
      <3>1. history'[u][r] = h
        BY <1>4, <2>1 DEF CommitScore, TypeOK
      <3>2. ticket'[u][r] = t
        BY <1>4, <2>1 DEF CommitScore, TypeOK
      <3>3. s \in Int /\ t \in Ticket /\ ticket[u][r] \in Ticket
        BY <1>4, <2>1, ScoreType
      <3>4. h \in History
        BY <3>3 DEF History, TypeOK
      <3>5. t.score = s /\ h.scoreRound = s
        BY <3>3 DEF Ticket
      <3>6. t # Nothing /\ h # Nothing
        BY <3>3, <3>4, NothingAssumption
      <3> HIDE DEF t, h, s
      <3> QED
        BY <3>1, <3>2, <3>5, <3>6 DEF TicketScored
    <2>2. CASE ~(u \in job[j].players /\ r = job[j].round)
      <3>1. ticket'[u][r] = ticket[u][r] /\ history'[u][r] = history[u][r]
        BY <1>4, <2>2 DEF CommitScore, TypeOK
      <3> QED
        BY <1>2, <3>1
    <2> QED
      BY <2>1, <2>2
  <1>5. ASSUME UNCHANGED <<ticket, history>>
        PROVE  TicketScored(u, r)'
    BY <1>2, <1>5
  <1> QED
    BY <1>3, <1>4, <1>5, TicketSteps

\* A ticket has a score exactly when its score history exists, with the same
\* points, however many scorers race for the round (ScoreRoundService): the half
\* of ScoresAddUp that speaks of one ticket.
THEOREM RoundsTicketsScored == Spec => []EveryTicketScored
  <1>1. Init => EveryTicketScored
    BY DEF Init, EveryTicketScored, TicketScored
  <1> QED
    BY <1>1, ScoredStep, RoundsTypeCorrect, PTL DEF Spec

-----------------------------------------------------------------------------
(* TICKETS AND WHAT THEY PAID                                               *)

EveryTicketPaid == \A u \in Users, r \in Rounds : TicketPaid(u, r)

\* TicketPaid, of a benefit row, what was given, and a ticket.
Paid(row, sum, t) ==
    LET left == IF row = NoRow THEN 0 ELSE row
    IN  IF t = Nothing
        THEN left <= sum
        ELSE left + t.freeUsed <= sum /\ t.freeUsed + t.inventoryUsed = Demand[t.prediction]

\* Every operation keeps what each ticket has paid, cell by cell of the benefits.
LEMMA PaidStep ==
    TypeOK /\ PlayersHaveTickets /\ EveryTicketPaid /\ [Next]_vars => EveryTicketPaid'
  <1> SUFFICES ASSUME TypeOK, PlayersHaveTickets, EveryTicketPaid, [Next]_vars,
                      NEW u \in Users, NEW r \in Rounds
               PROVE  Paid(free'[u][r], given'[u][r], ticket'[u][r])
    BY DEF EveryTicketPaid, TicketPaid, Paid
  <1> DEFINE row == free[u][r]
             sum == given[u][r]
             t == ticket[u][r]
             Goal == Paid(free'[u][r], given'[u][r], ticket'[u][r])
  <1>1. Paid(row, sum, t)
    BY DEF EveryTicketPaid, TicketPaid, Paid
  <1>2. row \in Nat \cup {NoRow} /\ sum \in Nat /\ t \in Ticket \cup {Nothing}
    BY DEF TypeOK
  <1>3. ASSUME NEW q \in Requests, CommitTicket(q)
        PROVE  Goal
    <2>1. given'[u][r] = sum
      BY <1>3 DEF CommitTicket
    <2>2. CASE request[q].user = u /\ request[q].round = r
      <3> DEFINE used == FreeUsed(q)
                 new == [prediction |-> request[q].prediction, freeUsed |-> used,
                         inventoryUsed |-> InventoryUsed(q), score |-> Nothing]
                 left == IF used > 0 THEN row - used ELSE row
      <3>1. free'[u][r] = left
        BY <1>3, <2>2 DEF CommitTicket, TypeOK
      <3>2. ticket'[u][r] = new
        BY <1>3, <2>2 DEF CommitTicket, TypeOK
      <3>3. t = Nothing
        BY <1>3, <2>2 DEF CommitTicket, TicketIsNew
      <3>4. /\ used \in Nat
            /\ used + InventoryUsed(q) = Demand[request[q].prediction]
            /\ used > 0 => row \in Nat /\ row >= used
        BY <1>3, <2>2, PaidParts DEF CommitTicket
      <3>5. (IF left = NoRow THEN 0 ELSE left) + used <= sum
        BY <1>1, <1>2, <3>3, <3>4 DEF Paid, NoRow
      <3>6. /\ new.freeUsed = used
            /\ new.inventoryUsed = InventoryUsed(q)
            /\ new.prediction = request[q].prediction
        OBVIOUS
      <3>7. Paid(left, sum, new)
        <4>1. (IF left = NoRow THEN 0 ELSE left) <= sum
          BY <1>2, <3>4, <3>5 DEF NoRow
        <4> HIDE DEF new, used, left
        <4> QED
          BY <3>4, <3>5, <3>6, <4>1 DEF Paid
      <3> QED
        BY <2>1, <3>1, <3>2, <3>7
    <2>3. CASE ~(request[q].user = u /\ request[q].round = r)
      <3>1. free'[u][r] = row /\ ticket'[u][r] = t
        BY <1>3, <2>3 DEF CommitTicket, TypeOK
      <3> QED
        BY <1>1, <2>1, <3>1
    <2> QED
      BY <2>2, <2>3
  <1>4. ASSUME NEW j \in Jobs, CommitScore(j)
        PROVE  Goal
    <2>1. free'[u][r] = row /\ given'[u][r] = sum
      BY <1>4 DEF CommitScore, benefitVars
    <2>2. CASE u \in job[j].players /\ r = job[j].round
      <3> DEFINE new == [t EXCEPT !.score = ScoreOf(j, u)]
      <3>1. ticket'[u][r] = new
        BY <1>4, <2>2 DEF CommitScore, TypeOK
      <3>2. t \in Ticket
        BY <1>4, <2>2, ScoreType
      <3>3. /\ new.freeUsed = t.freeUsed
            /\ new.inventoryUsed = t.inventoryUsed
            /\ new.prediction = t.prediction
            /\ t.freeUsed \in Nat
        BY <3>2 DEF Ticket
      <3>4. t # Nothing
        BY <3>2, NothingAssumption
      <3> HIDE DEF new, t
      <3>5. Paid(row, sum, new)
        BY <1>1, <1>2, <3>3, <3>4 DEF Paid, NoRow
      <3> QED
        BY <2>1, <3>1, <3>5
    <2>3. CASE ~(u \in job[j].players /\ r = job[j].round)
      <3>1. ticket'[u][r] = t
        BY <1>4, <2>3 DEF CommitScore, TypeOK
      <3> QED
        BY <1>1, <2>1, <3>1
    <2> QED
      BY <2>2, <2>3
  <1>5. ASSUME ticket'[u][r] = t,
               \/ free'[u][r] = row /\ given'[u][r] = sum
               \/ row = NoRow /\ \E n \in Nat : free'[u][r] = n /\ given'[u][r] = sum + n
               \/ row # NoRow /\ \E n \in Nat : free'[u][r] = row + n /\ given'[u][r] = sum + n
               \/ row # NoRow /\ free'[u][r] = 0 /\ given'[u][r] = sum
        PROVE  Goal
    <2> HIDE DEF t, row, sum
    <2>1. t # Nothing => t.freeUsed \in Nat
      BY <1>2 DEF Ticket
    <2> QED
      BY <1>1, <1>2, <1>5, <2>1 DEF Paid, NoRow
  <1> HIDE DEF Goal
  <1>6. ASSUME NEW j \in Jobs, NEW v \in Users, GrantTo(j, v)
        PROVE  Goal
    <2>1. ticket'[u][r] = t
      BY <1>6 DEF GrantTo
    <2>2. Grant[u] \in Nat
      BY RoundsAssumption
    <2>3. CASE v = u /\ job[j].round = r /\ row = NoRow
      <3>1. free'[u][r] = Grant[u] /\ given'[u][r] = sum + Grant[u]
        BY <1>6, <2>3 DEF GrantTo, AfterGrant, TypeOK
      <3> QED
        BY <1>5, <2>1, <2>2, <2>3, <3>1
    <2>4. CASE ~(v = u /\ job[j].round = r /\ row = NoRow)
      <3>1. free'[u][r] = row /\ given'[u][r] = sum
        BY <1>6, <2>4 DEF GrantTo, AfterGrant, TypeOK
      <3> QED
        BY <1>5, <2>1, <3>1
    <2> QED
      BY <2>3, <2>4
  <1>7. ASSUME NEW v \in Users, NEW b \in Rounds, CreditFree(v, b)
        PROVE  Goal
    <2>1. ticket'[u][r] = t
      BY <1>7 DEF CreditFree
    <2>2. Gift \in Nat
      BY RoundsAssumption
    <2>3. CASE v = u /\ b = r
      <3>1. /\ free'[u][r] = IF row = NoRow THEN Gift ELSE row + Gift
            /\ given'[u][r] = sum + Gift
        BY <1>7, <2>3 DEF CreditFree, TypeOK
      <3> QED
        BY <1>5, <2>1, <2>2, <3>1
    <2>4. CASE ~(v = u /\ b = r)
      <3>1. free'[u][r] = row /\ given'[u][r] = sum
        BY <1>7, <2>4 DEF CreditFree, TypeOK
      <3> QED
        BY <1>5, <2>1, <3>1
    <2> QED
      BY <2>3, <2>4
  <1>8. ASSUME NEW j \in Jobs, ZeroBenefits(j)
        PROVE  Goal
    <2>1. ticket'[u][r] = t /\ given'[u][r] = sum
      BY <1>8 DEF ZeroBenefits
    <2>2. free'[u][r] = row \/ (row # NoRow /\ free'[u][r] = 0)
      BY <1>8 DEF ZeroBenefits, TypeOK
    <2> QED
      BY <1>5, <2>1, <2>2
  <1>9. ASSUME UNCHANGED <<free, given>>
        PROVE  Goal
    <2>1. ASSUME UNCHANGED <<ticket, history>>
          PROVE  Goal
      BY <1>5, <1>9, <2>1
    <2> QED
      BY <1>3, <1>4, <2>1, TicketSteps
  <1>10. Goal
    BY <1>3, <1>6, <1>7, <1>8, <1>9, BenefitSteps
  <1> QED
    BY <1>10 DEF Goal

\* Every ticket has paid, in free and in bought benefits, exactly what its
\* multipliers demand, and free benefits used and left never exceed those given,
\* while closings empty the rows and other submissions spend the same inventory
\* (ConsumeBenefitsService): the half of BenefitsAccounted that speaks of one
\* ticket.
THEOREM RoundsTicketsPaid == Spec => []EveryTicketPaid
  <1>1. Init => EveryTicketPaid
    BY DEF Init, EveryTicketPaid, TicketPaid, NoRow
  <1> QED
    BY <1>1, PaidStep, RoundsTypeCorrect, PTL DEF Spec

-----------------------------------------------------------------------------
(* TOTALS: the sums over the rounds, of which there are finitely many.      *)

LEMMA RoundsFinite == IsFiniteSet(Rounds)
  BY RoundsAssumption, FS_Interval DEF Rounds

\* The sum of a player's scores grows by what a scoring gives the player.
LEMMA ScoreSumGrows ==
    ASSUME TypeOK, PlayersHaveTickets, NEW j \in Jobs, CommitScore(j), NEW u \in Users
    PROVE  ScoreSum(u)' = ScoreSum(u) + (IF u \in job[j].players THEN ScoreOf(j, u) ELSE 0)
  <1> DEFINE a == job[j].round
             plays == u \in job[j].players
             d == IF plays THEN ScoreOf(j, u) ELSE 0
             f == [r \in Rounds |-> ScoredIn(u, r)]
             g == [r \in Rounds |-> ScoredIn(u, r)']
  <1>1. a \in Rounds
    BY JobFields DEF CommitScore, ScoringJob
  <1>2. d \in Int
    <2>1. plays => ScoreOf(j, u) \in Int
      BY ScoreType
    <2> QED
      BY <2>1
  <1>3. \A r \in Rounds : f[r] \in Int
    <2> SUFFICES ASSUME NEW r \in Rounds PROVE ScoredIn(u, r) \in Int
      OBVIOUS
    <2>1. history[u][r] \in History \cup {Nothing}
      BY DEF TypeOK
    <2> QED
      BY <2>1 DEF ScoredIn, History
  <1>4. \A r \in Rounds : g[r] = f[r] + (IF r = a THEN d ELSE 0)
    <2> SUFFICES ASSUME NEW r \in Rounds
                 PROVE  ScoredIn(u, r)' = f[r] + (IF r = a THEN d ELSE 0)
      OBVIOUS
    <2>1. CASE plays /\ r = a
      <3> DEFINE s == ScoreOf(j, u)
                 h == [scoreRound |-> s, scoreTotal |-> scoreTotal[u] + s]
      <3>1. history'[u][r] = h
        BY <2>1 DEF CommitScore, TypeOK
      <3>2. h \in History /\ h.scoreRound = s
        BY <1>2, <2>1 DEF History, TypeOK
      <3>3. h # Nothing
        BY <3>2, NothingAssumption
      <3>4. history[u][r] = Nothing
        BY <2>1 DEF CommitScore, HistoryIsNew
      <3> HIDE DEF h, s
      <3>5. ScoredIn(u, r)' = s /\ ScoredIn(u, r) = 0
        BY <3>1, <3>2, <3>3, <3>4 DEF ScoredIn
      <3> QED
        BY <1>2, <2>1, <3>5 DEF s
    <2>2. CASE ~(plays /\ r = a)
      <3>1. history'[u][r] = history[u][r]
        BY <2>2 DEF CommitScore, TypeOK
      <3>2. ScoredIn(u, r)' = f[r]
        BY <3>1 DEF ScoredIn
      <3> QED
        BY <1>3, <2>2, <3>2
    <2> QED
      BY <2>1, <2>2
  <1>5. ScoreSum(u) = SumFunctionOnSet(f, Rounds) /\ ScoreSum(u)' = SumFunctionOnSet(g, Rounds)
    BY DEF ScoreSum, SumFunction
  <1>6. IsFiniteSet(Rounds)
    BY RoundsFinite
  <1> HIDE DEF a, d, f, g
  <1>7. SumFunctionOnSet(g, Rounds) = SumFunctionOnSet(f, Rounds) + (IF a \in Rounds THEN d ELSE 0)
    BY <1>2, <1>3, <1>4, <1>6, SumGrows
  <1> QED
    BY <1>1, <1>5, <1>7 DEF d

\* Every operation keeps a player's total the sum of the player's scores.
TotalsAddUp == \A u \in Users : scoreTotal[u] = ScoreSum(u)

LEMMA TotalsStep ==
    TypeOK /\ PlayersHaveTickets /\ TotalsAddUp /\ [Next]_vars => TotalsAddUp'
  <1> SUFFICES ASSUME TypeOK, PlayersHaveTickets, TotalsAddUp, [Next]_vars, NEW u \in Users
               PROVE  scoreTotal'[u] = ScoreSum(u)'
    BY DEF TotalsAddUp
  <1>1. scoreTotal[u] = ScoreSum(u)
    BY DEF TotalsAddUp
  <1>2. ASSUME scoreTotal' = scoreTotal, history' = history
        PROVE  scoreTotal'[u] = ScoreSum(u)'
    BY <1>1, <1>2 DEF ScoreSum, ScoredIn
  <1>3. ASSUME NEW q \in Requests, CommitTicket(q)
        PROVE  scoreTotal'[u] = ScoreSum(u)'
    BY <1>2, <1>3 DEF CommitTicket, scoreVars
  <1>4. ASSUME NEW j \in Jobs, CommitScore(j)
        PROVE  scoreTotal'[u] = ScoreSum(u)'
    <2>1. scoreTotal'[u] = scoreTotal[u] + (IF u \in job[j].players THEN ScoreOf(j, u) ELSE 0)
      BY <1>4 DEF CommitScore, TypeOK
    <2> QED
      BY <1>1, <1>4, <2>1, ScoreSumGrows
  <1> QED
    BY <1>2, <1>3, <1>4, TicketSteps

\* A player's total is the sum of the player's score histories, and a ticket has
\* a score exactly when its history exists, for any number of rounds, players and
\* scorers of the same round (ScoreRoundService): the total is incremented in the
\* transaction that the unique index lets write the history only once.
THEOREM RoundsScoresAddUp == Spec => []ScoresAddUp
  <1>1. Init => TotalsAddUp
    <2> SUFFICES ASSUME Init, NEW u \in Users PROVE scoreTotal[u] = ScoreSum(u)
      BY DEF TotalsAddUp
    <2> DEFINE f == [r \in Rounds |-> ScoredIn(u, r)]
    <2>1. \A r \in Rounds : f[r] = 0
      BY DEF Init, ScoredIn
    <2>2. ScoreSum(u) = SumFunctionOnSet(f, Rounds)
      BY DEF ScoreSum, SumFunction
    <2> HIDE DEF f
    <2>3. ScoreSum(u) = 0
      BY <2>1, <2>2, RoundsFinite, SumOfZeros
    <2> QED
      BY <2>3 DEF Init
  <1>2. TotalsAddUp /\ EveryTicketScored => ScoresAddUp
    BY DEF TotalsAddUp, EveryTicketScored, ScoresAddUp
  <1> QED
    BY <1>1, <1>2, TotalsStep, RoundsTypeCorrect, RoundsTicketsScored, PTL DEF Spec

-----------------------------------------------------------------------------
(* BENEFITS: the same for what tickets take from the inventory.             *)

\* The bought benefits in a user's tickets grow by what a new ticket takes.
LEMMA InventoryUsedGrows ==
    ASSUME TypeOK, NEW q \in Requests, CommitTicket(q), NEW u \in Users
    PROVE  /\ InventoryUsedBy(u) \in Int
           /\ InventoryUsedBy(u)' =
                InventoryUsedBy(u) + (IF u = request[q].user THEN InventoryUsed(q) ELSE 0)
  <1> DEFINE a == request[q].round
             mine == u = request[q].user
             d == IF mine THEN InventoryUsed(q) ELSE 0
             f == [r \in Rounds |-> InventoryUsedIn(u, r)]
             g == [r \in Rounds |-> InventoryUsedIn(u, r)']
  <1>1. a \in Rounds
    BY RequestFields DEF CommitTicket, Consumption
  <1>2. d \in Int
    BY BoughtPart DEF CommitTicket
  <1>3. \A r \in Rounds : f[r] \in Int
    <2> SUFFICES ASSUME NEW r \in Rounds PROVE InventoryUsedIn(u, r) \in Int
      OBVIOUS
    <2>1. ticket[u][r] \in Ticket \cup {Nothing}
      BY DEF TypeOK
    <2> QED
      BY <2>1 DEF InventoryUsedIn, Ticket
  <1>4. \A r \in Rounds : g[r] = f[r] + (IF r = a THEN d ELSE 0)
    <2> SUFFICES ASSUME NEW r \in Rounds
                 PROVE  InventoryUsedIn(u, r)' = f[r] + (IF r = a THEN d ELSE 0)
      OBVIOUS
    <2>1. CASE mine /\ r = a
      <3> DEFINE t == [prediction |-> request[q].prediction, freeUsed |-> FreeUsed(q),
                       inventoryUsed |-> InventoryUsed(q), score |-> Nothing]
      <3>1. ticket'[u][r] = t
        BY <2>1 DEF CommitTicket, TypeOK
      <3>2. t \in Ticket /\ t.inventoryUsed = InventoryUsed(q)
        BY PaidParts, RequestFields DEF CommitTicket, Consumption, Ticket
      <3>3. t # Nothing
        BY <3>2, NothingAssumption
      <3>4. ticket[u][r] = Nothing
        BY <2>1 DEF CommitTicket, TicketIsNew
      <3> HIDE DEF t
      <3>5. InventoryUsedIn(u, r)' = InventoryUsed(q) /\ InventoryUsedIn(u, r) = 0
        BY <3>1, <3>2, <3>3, <3>4 DEF InventoryUsedIn
      <3> QED
        BY <1>2, <2>1, <3>5
    <2>2. CASE ~(mine /\ r = a)
      <3>1. ticket'[u][r] = ticket[u][r]
        BY <2>2 DEF CommitTicket, TypeOK
      <3>2. InventoryUsedIn(u, r)' = f[r]
        BY <3>1 DEF InventoryUsedIn
      <3> QED
        BY <1>3, <2>2, <3>2
    <2> QED
      BY <2>1, <2>2
  <1>5. /\ InventoryUsedBy(u) = SumFunctionOnSet(f, Rounds)
        /\ InventoryUsedBy(u)' = SumFunctionOnSet(g, Rounds)
    BY DEF InventoryUsedBy, SumFunction
  <1>6. IsFiniteSet(Rounds)
    BY RoundsFinite
  <1> HIDE DEF a, d, f, g
  <1>7. /\ SumFunctionOnSet(f, Rounds) \in Int
        /\ SumFunctionOnSet(g, Rounds) =
             SumFunctionOnSet(f, Rounds) + (IF a \in Rounds THEN d ELSE 0)
    BY ZenonT(60), <1>2, <1>3, <1>4, <1>6, SumGrows
  <1> QED
    BY <1>1, <1>5, <1>7 DEF d

\* A scoring leaves what the tickets took from the inventory as it is.
LEMMA InventoryUsedStays ==
    ASSUME TypeOK, PlayersHaveTickets, NEW j \in Jobs, CommitScore(j), NEW u \in Users
    PROVE  InventoryUsedBy(u)' = InventoryUsedBy(u)
  <1>1. ASSUME NEW r \in Rounds
        PROVE  InventoryUsedIn(u, r)' = InventoryUsedIn(u, r)
    <2>1. CASE u \in job[j].players /\ r = job[j].round
      <3> DEFINE t == [ticket[u][r] EXCEPT !.score = ScoreOf(j, u)]
      <3>1. ticket'[u][r] = t
        BY <2>1 DEF CommitScore, TypeOK
      <3>2. ticket[u][r] \in Ticket /\ t \in Ticket
        BY <2>1, ScoreType
      <3>3. t.inventoryUsed = ticket[u][r].inventoryUsed
        BY <3>2 DEF Ticket
      <3>4. t # Nothing /\ ticket[u][r] # Nothing
        BY <3>2, NothingAssumption
      <3> HIDE DEF t
      <3> QED
        BY <3>1, <3>3, <3>4 DEF InventoryUsedIn
    <2>2. CASE ~(u \in job[j].players /\ r = job[j].round)
      <3>1. ticket'[u][r] = ticket[u][r]
        BY <2>2 DEF CommitScore, TypeOK
      <3> QED
        BY <3>1 DEF InventoryUsedIn
    <2> QED
      BY <2>1, <2>2
  <1>2. [r \in Rounds |-> InventoryUsedIn(u, r)'] = [r \in Rounds |-> InventoryUsedIn(u, r)]
    BY <1>1
  <1> QED
    BY <1>2 DEF InventoryUsedBy

\* What is left of the inventory and what tickets took from it is what there was.
InventoryAddsUp == \A u \in Users : inventory[u] + InventoryUsedBy(u) = Stock[u]

LEMMA InventoryStep ==
    TypeOK /\ PlayersHaveTickets /\ InventoryAddsUp /\ [Next]_vars => InventoryAddsUp'
  <1> SUFFICES ASSUME TypeOK, PlayersHaveTickets, InventoryAddsUp, [Next]_vars, NEW u \in Users
               PROVE  inventory'[u] + InventoryUsedBy(u)' = Stock[u]
    BY DEF InventoryAddsUp
  <1>1. inventory[u] + InventoryUsedBy(u) = Stock[u]
    BY DEF InventoryAddsUp
  <1>2. ASSUME NEW q \in Requests, CommitTicket(q)
        PROVE  inventory'[u] + InventoryUsedBy(u)' = Stock[u]
    <2> DEFINE paid == IF u = request[q].user THEN InventoryUsed(q) ELSE 0
    <2>1. paid \in Int
      BY <1>2, BoughtPart DEF CommitTicket
    <2>2. inventory[u] \in Int /\ inventory'[u] = inventory[u] - paid
      BY <1>2 DEF CommitTicket, TypeOK
    <2>3. InventoryUsedBy(u) \in Int /\ InventoryUsedBy(u)' = InventoryUsedBy(u) + paid
      BY <1>2, InventoryUsedGrows
    <2> HIDE DEF paid
    <2> QED
      BY <1>1, <2>1, <2>2, <2>3
  <1>3. ASSUME NEW j \in Jobs, CommitScore(j)
        PROVE  inventory'[u] + InventoryUsedBy(u)' = Stock[u]
    <2>1. inventory' = inventory
      BY <1>3 DEF CommitScore, benefitVars
    <2> QED
      BY <1>1, <1>3, <2>1, InventoryUsedStays
  <1>4. ASSUME ticket' = ticket, inventory' = inventory
        PROVE  inventory'[u] + InventoryUsedBy(u)' = Stock[u]
    BY <1>1, <1>4 DEF InventoryUsedBy, InventoryUsedIn
  <1> QED
    BY <1>2, <1>3, <1>4, TicketSteps

\* Benefits are neither lost nor made up: every ticket has paid for exactly the
\* multipliers it carries, free benefits used and left never exceed those given,
\* and what tickets took from the inventory is exactly what it lacks, for any
\* number of submissions racing with each other and with the closing of the round
\* (ConsumeBenefitsService inside the transaction of CreateTicketService).
THEOREM RoundsBenefitsAccounted == Spec => []BenefitsAccounted
  <1>1. Init => InventoryAddsUp
    <2> SUFFICES ASSUME Init, NEW u \in Users
                 PROVE  inventory[u] + InventoryUsedBy(u) = Stock[u]
      BY DEF InventoryAddsUp
    <2> DEFINE f == [r \in Rounds |-> InventoryUsedIn(u, r)]
    <2>1. \A r \in Rounds : f[r] = 0
      BY DEF Init, InventoryUsedIn
    <2>2. InventoryUsedBy(u) = SumFunctionOnSet(f, Rounds)
      BY DEF InventoryUsedBy, SumFunction
    <2> HIDE DEF f
    <2>3. InventoryUsedBy(u) = 0
      BY <2>1, <2>2, RoundsFinite, SumOfZeros
    <2> QED
      BY <2>3, RoundsAssumption DEF Init
  <1>2. InventoryAddsUp /\ EveryTicketPaid => BenefitsAccounted
    BY DEF InventoryAddsUp, EveryTicketPaid, BenefitsAccounted
  <1> QED
    BY <1>1, <1>2, InventoryStep, RoundsTypeCorrect, RoundsTicketsPaid, PTL DEF Spec

-----------------------------------------------------------------------------
(* WHAT IS NEVER TAKEN BACK                                                 *)

\* A round that has been opened, or cancelled, is a draft no more.
LEMMA OpenedStays ==
    ASSUME TypeOK, [Next]_vars, NEW r \in Rounds,
           round[r].status \notin Unopened
    PROVE  round'[r].status \notin Unopened
  <1>1. ASSUME NEW a \in Rounds, NEW s \in Status, SetStatus(a, s),
               s \in Unopened => round[a].status = "NONE"
        PROVE  round'[r].status \notin Unopened
    <2>1. round'[r].status = IF r = a THEN s ELSE round[r].status
      BY <1>1 DEF SetStatus, TypeOK
    <2> QED
      BY <1>1, <2>1 DEF Unopened
  <1>2. ASSUME NEW a \in Rounds, NEW x \in Results, round' = [round EXCEPT ![a].result = x]
        PROVE  round'[r].status \notin Unopened
    <2>1. round'[r].status = round[r].status
      BY <1>2 DEF TypeOK
    <2> QED
      BY <2>1
  <1>3. UNCHANGED round => round'[r].status \notin Unopened
    OBVIOUS
  <1> QED
    BY <1>1, <1>2, <1>3, RoundSteps

\* A user's row of benefits for a round is never deleted.
LEMMA RowsStay ==
    ASSUME TypeOK, [Next]_vars, NEW u \in Users, NEW r \in Rounds, free[u][r] # NoRow
    PROVE  free'[u][r] # NoRow
  <1>1. free[u][r] \in Nat
    BY DEF TypeOK
  <1>2. ASSUME NEW q \in Requests, CommitTicket(q)
        PROVE  free'[u][r] # NoRow
    <2>1. CASE request[q].user = u /\ request[q].round = r
      <3>1. free'[u][r] = IF FreeUsed(q) > 0 THEN free[u][r] - FreeUsed(q) ELSE free[u][r]
        BY <1>2, <2>1 DEF CommitTicket, TypeOK
      <3>2. FreeUsed(q) \in Nat /\ (FreeUsed(q) > 0 => free[u][r] >= FreeUsed(q))
        BY <1>2, <2>1, PaidParts DEF CommitTicket
      <3> QED
        BY <1>1, <3>1, <3>2 DEF NoRow
    <2>2. CASE ~(request[q].user = u /\ request[q].round = r)
      BY <1>2, <2>2 DEF CommitTicket, TypeOK
    <2> QED
      BY <2>1, <2>2
  <1>3. ASSUME NEW j \in Jobs, NEW v \in Users, GrantTo(j, v)
        PROVE  free'[u][r] # NoRow
    BY <1>3 DEF GrantTo, AfterGrant, TypeOK
  <1>4. ASSUME NEW v \in Users, NEW b \in Rounds, CreditFree(v, b)
        PROVE  free'[u][r] # NoRow
    <2>1. free'[u][r] = free[u][r] \/ free'[u][r] = free[u][r] + Gift
      BY <1>4 DEF CreditFree, TypeOK
    <2> QED
      BY <1>1, <2>1, RoundsAssumption DEF NoRow
  <1>5. ASSUME NEW j \in Jobs, ZeroBenefits(j)
        PROVE  free'[u][r] # NoRow
    <2>1. free'[u][r] = free[u][r] \/ free'[u][r] = 0
      BY <1>5 DEF ZeroBenefits, TypeOK
    <2> QED
      BY <2>1 DEF NoRow
  <1> QED
    BY <1>2, <1>3, <1>4, <1>5, BenefitSteps

-----------------------------------------------------------------------------
(* GRANTS                                                                   *)

\* Who the grants of a round have passed has a row.
GrantsPassed ==
    \A j \in Jobs : job[j].op = "grant" =>
        /\ round[job[j].round].status \notin Unopened
        /\ \A u \in Users \ job[j].todo : free[u][job[j].round] # NoRow

\* An operation that grants has just begun, on an opened round, or goes on.
LEMMA GrantSteps ==
    ASSUME TypeOK, [Next]_vars, NEW k \in Jobs, job'[k].op = "grant"
    PROVE  \/ job'[k] = job[k]
           \/ /\ job'[k].todo = Users
              /\ round'[job'[k].round].status \notin Unopened
           \/ \E u \in Users : /\ GrantTo(k, u)
                               /\ job'[k] = [job[k] EXCEPT !.todo = @ \ {u}]
  <1> DEFINE P == \/ job'[k] = job[k]
                  \/ /\ job'[k].todo = Users
                     /\ round'[job'[k].round].status \notin Unopened
                  \/ \E u \in Users : /\ GrantTo(k, u)
                                      /\ job'[k] = [job[k] EXCEPT !.todo = @ \ {u}]
  <1>1. ASSUME NEW j \in Jobs, NEW w, Continue(j, w), w.op # "grant"
        PROVE  P
    BY <1>1 DEF Continue, TypeOK
  <1>2. ASSUME NEW j \in Jobs, NEW r \in Rounds, round'[r].status = "OPEN",
               Continue(j, [op |-> "grant", round |-> r, todo |-> Users])
        PROVE  P
    BY <1>2 DEF Continue, TypeOK, Unopened
  <1>3. ASSUME NEW j \in Jobs, NEW u \in Users, GrantTo(j, u)
        PROVE  P
    <2>1. CASE j = k
      <3>1. CASE job[j].todo = {u}
        BY <1>3, <2>1, <3>1 DEF GrantTo, End, Continue, Idle, TypeOK
      <3>2. CASE job[j].todo # {u}
        BY <1>3, <2>1, <3>2 DEF GrantTo, Continue, TypeOK
      <3> QED
        BY <3>1, <3>2
    <2>2. CASE j # k
      BY <1>3, <2>2 DEF GrantTo, End, Continue, TypeOK
    <2> QED
      BY <2>1, <2>2
  <1> HIDE DEF P
  <1>4. ASSUME NEW j \in Jobs, NEW r \in Rounds, Start(j, r)
        PROVE  P
    <2>1. StartGrants(j, r) => P
      BY <1>2 DEF StartGrants, Begin, Continue, roundVars
    <2>2. ASSUME NEW w, Begin(j, w), w.op # "grant"
          PROVE  P
      BY <1>1, <2>2 DEF Begin, Continue
    <2>3. StartOpen(j, r) => P
      BY <2>2 DEF StartOpen
    <2>4. StartScore(j, r) => P
      BY <2>2 DEF StartScore, Scoring
    <2>5. StartScheduledClose(j, r) => P
      BY <2>2 DEF StartScheduledClose
    <2>6. StartCloseAndScore(j, r) => P
      BY <2>2 DEF StartCloseAndScore
    <2>7. StartCancel(j, r) => P
      BY <2>2 DEF StartCancel
    <2>8. ASSUME NEW x \in Results, StartSetResult(j, r, x)
          PROVE  P
      BY <2>2, <2>8 DEF StartSetResult
    <2> QED
      BY <1>4, <2>1, <2>3, <2>4, <2>5, <2>6, <2>7, <2>8 DEF Start
  <1>5. ASSUME NEW j \in Jobs, End(j)
        PROVE  P
    BY <1>1, <1>5 DEF End, Idle
  <1>6. ASSUME NEW j \in Jobs, Work(j) \/ Crash(j)
        PROVE  P
    <2>1. Crash(j) => P
      BY <1>5 DEF Crash
    <2>2. CommitOpen(j) => P
      <3> SUFFICES ASSUME CommitOpen(j)
                   PROVE  P
        OBVIOUS
      <3>1. job[j].round \in Rounds
        BY JobFields DEF CommitOpen, StepJob
      <3>2. round'[job[j].round].status = "OPEN"
        BY <3>1 DEF CommitOpen, SetStatus, TypeOK
      <3> QED
        BY <1>2, <3>1, <3>2 DEF CommitOpen
    <2>3. RejectOpen(j) => P
      BY <1>5 DEF RejectOpen
    <2>4. CommitClose(j) => P
      <3> SUFFICES ASSUME CommitClose(j)
                   PROVE  P
        OBVIOUS
      <3>1. [job[j] EXCEPT !.op = "zero"].op = "zero"
        BY JobFields DEF CommitClose, CloseJob
      <3> QED
        BY <1>1, <3>1 DEF CommitClose
    <2>5. ZeroBenefits(j) => P
      BY <1>1, <1>5 DEF ZeroBenefits
    <2>6. CountTickets(j) => P
      BY <1>1, <1>5 DEF CountTickets
    <2>7. CommitCancel(j) \/ CommitResult(j) \/ RejectScore(j) \/ TakeSnapshot(j) => P
      BY <1>5 DEF CommitCancel, CommitResult, RejectScore, TakeSnapshot
    <2>8. ReadClosedRound(j) => P
      BY <1>1, <1>5 DEF ReadClosedRound, Scoring
    <2>9. CommitScore(j) => P
      BY <1>1 DEF CommitScore
    <2> QED
      BY <1>3, <1>6, <2>1, <2>2, <2>3, <2>4, <2>5, <2>6, <2>7, <2>8, <2>9 DEF Work
  <1>7. ASSUME UNCHANGED job
        PROVE  P
    BY <1>7 DEF P
  <1>8. ASSUME NEW q \in Requests, Submit(q)
        PROVE  UNCHANGED job
    BY <1>8 DEF Submit, StartTicket, ReadBenefits, CommitTicket, RollBackTicket
  <1>9. ASSUME NEW r \in Rounds, CreateRound(r) \/ PassCloseAt(r) \/ GenerateSnapshot(r)
        PROVE  UNCHANGED job
    BY <1>9 DEF CreateRound, PassCloseAt, GenerateSnapshot
  <1>10. ASSUME NEW u \in Users, NEW r \in Rounds, CreditFree(u, r)
         PROVE  UNCHANGED job
    BY <1>10 DEF CreditFree
  <1>11. ASSUME UNCHANGED vars
         PROVE  UNCHANGED job
    BY <1>11 DEF vars
  <1>12. P
    BY <1>4, <1>6, <1>7, <1>8, <1>9, <1>10, <1>11 DEF Next
  <1> QED
    BY <1>12 DEF P

\* A grant gives a row to the user it is for.
LEMMA GrantGives ==
    ASSUME TypeOK, NEW j \in Jobs, NEW u \in Users, GrantTo(j, u)
    PROVE  free'[u][job[j].round] # NoRow
  <1>1. job[j].round \in Rounds
    BY JobFields DEF GrantTo, GrantJob
  <1>2. free'[u][job[j].round] = AfterGrant(u, job[j].round)
    BY <1>1 DEF GrantTo, TypeOK
  <1> QED
    BY <1>2, RoundsAssumption DEF AfterGrant, NoRow

LEMMA GrantsStep == TypeOK /\ GrantsPassed /\ [Next]_vars => GrantsPassed'
  <1> SUFFICES ASSUME TypeOK, GrantsPassed, [Next]_vars, NEW k \in Jobs, job'[k].op = "grant"
               PROVE  /\ round'[job'[k].round].status \notin Unopened
                      /\ \A u \in Users \ job'[k].todo : free'[u][job'[k].round] # NoRow
    BY DEF GrantsPassed
  <1> DEFINE r == job[k].round
  <1>1. job[k].op = "grant" => r \in Rounds /\ job[k] \in GrantJob
    BY JobFields DEF GrantJob
  <1>2. CASE job'[k] = job[k]
    BY <1>1, <1>2, OpenedStays, RowsStay DEF GrantsPassed
  <1>3. CASE job'[k].todo = Users /\ round'[job'[k].round].status \notin Unopened
    BY <1>3
  <1>4. ASSUME NEW u \in Users, GrantTo(k, u), job'[k] = [job[k] EXCEPT !.todo = @ \ {u}]
        PROVE  /\ round'[job'[k].round].status \notin Unopened
               /\ \A v \in Users \ job'[k].todo : free'[v][job'[k].round] # NoRow
    <2>1. job[k].op = "grant" /\ r \in Rounds
      BY <1>1, <1>4 DEF GrantTo
    <2>2. job'[k].round = r /\ job'[k].todo = job[k].todo \ {u}
      BY <1>1, <1>4, <2>1 DEF GrantJob
    <2>3. free'[u][r] # NoRow
      BY <1>4, GrantGives
    <2>4. ASSUME NEW v \in Users \ job[k].todo
          PROVE  free'[v][r] # NoRow
      BY <2>1, <2>4, RowsStay DEF GrantsPassed
    <2>5. round'[r].status \notin Unopened
      BY <2>1, OpenedStays DEF GrantsPassed
    <2> QED
      BY <2>2, <2>3, <2>4, <2>5
  <1> QED
    BY <1>2, <1>3, <1>4, GrantSteps

-----------------------------------------------------------------------------
(* ROUNDS UNDER THE RUNNER                                                  *)

\* A delivery in progress has the fields of one.
LEMMA DeliveryFields ==
    ASSUME JobsTypeOK, NEW d \in Jobs
    PROVE  delivery[d].pc # "resting" =>
             /\ delivery[d] \in Delivery
             /\ delivery[d].name \in Names
             /\ delivery[d].ref \in Rounds
  BY DEF JobsTypeOK, Resting, Delivery

\* Whatever the sweeps, the runner and the operator's script do is something the
\* round operations can do, or touches nothing of theirs.
LEMMA JobsStepsAreRounds ==
    ASSUME JobsTypeOK, [JobsNext]_allVars
    PROVE  [Next]_vars
  <1>1. ASSUME NEW r \in Rounds, Calendar(r)
        PROVE  [Next]_vars
    BY <1>1 DEF Calendar, Next
  <1>2. ASSUME NEW d \in Jobs, job' = [job EXCEPT ![d] = Idle],
               UNCHANGED <<roundVars, benefitVars, ticket, scoreVars, request>>
        PROVE  [Next]_vars
    <2>1. CASE job[d] = Idle
      <3>1. job' = job
        BY <1>2, <2>1 DEF JobsTypeOK, TypeOK
      <3> QED
        BY <1>2, <3>1 DEF vars, roundVars, benefitVars, scoreVars
    <2>2. CASE job[d] # Idle
      BY <1>2, <2>2 DEF Crash, End, Continue, Next
    <2> QED
      BY <2>1, <2>2
  <1>3. ASSUME NEW d \in Schedulers, Sweep(d)
        PROVE  UNCHANGED vars
    BY <1>3 DEF Sweep, SweepOpen, SweepClose
  <1>4. ASSUME NEW d \in Schedulers, Deliver(d)
        PROVE  [Next]_vars
    <2>1. d \in Jobs
      BY DEF Schedulers
    <2>2. FindFirst(d) \/ CreateExecution(d) \/ Refuse(d) \/ Finish(d) => UNCHANGED vars
      BY DEF FindFirst, CreateExecution, Refuse, Finish
    <2>3. Run(d) => Start(d, delivery[d].ref) /\ delivery[d].ref \in Rounds
      BY <2>1, DeliveryFields DEF Run, StartRound, Start
    <2>4. WorkOn(d) => Work(d)
      BY DEF WorkOn
    <2> QED
      BY <1>4, <2>1, <2>2, <2>3, <2>4 DEF Deliver, Next
  <1>5. ASSUME NEW d \in Schedulers, Throw(d) \/ Die(d)
        PROVE  [Next]_vars
    BY <1>2, <1>5 DEF Throw, Die, Schedulers
  <1>6. ASSUME Script
        PROVE  [Next]_vars
    <2>1. Operator \in Jobs
      BY BoundAssumption
    <2>2. RegrantStops => Crash(Operator)
      BY DEF RegrantStops
    <2>3. ASSUME NEW r \in Rounds, Regrant(r)
          PROVE  Start(Operator, r)
      BY <2>3 DEF Regrant, Start
    <2>4. ASSUME NEW u \in Users, RegrantTo(u)
          PROVE  Work(Operator)
      BY <2>4 DEF RegrantTo, Work
    <2> QED
      BY <1>6, <2>1, <2>2, <2>3, <2>4 DEF Script, Next
  <1>7. ASSUME UNCHANGED allVars
        PROVE  UNCHANGED vars
    BY <1>7 DEF allVars
  <1> QED
    BY <1>1, <1>3, <1>4, <1>5, <1>6, <1>7 DEF JobsNext

\* What the runner's tables become.
LEMMA RunnerType ==
    ASSUME JobsTypeOK, [JobsNext]_allVars
    PROVE  /\ executions' \in [Names -> [Rounds -> SUBSET Execution]]
           /\ delivery' \in [Jobs -> {Resting} \cup Delivery]
           /\ faults' \in 0..MaxFaults
  <1> DEFINE Goal == /\ executions' \in [Names -> [Rounds -> SUBSET Execution]]
                     /\ delivery' \in [Jobs -> {Resting} \cup Delivery]
                     /\ faults' \in 0..MaxFaults
  <1>1. ASSUME UNCHANGED runnerVars
        PROVE  Goal
    BY <1>1 DEF runnerVars, JobsTypeOK
  <1>2. ASSUME NEW d \in Schedulers,
               NEW pc \in {"lookup", "create", "run", "work", "done", "failed"},
               delivery[d].pc # "resting", Goto(d, pc)
        PROVE  delivery' \in [Jobs -> {Resting} \cup Delivery]
    <2>1. d \in Jobs
      BY DEF Schedulers
    <2>2. [delivery[d] EXCEPT !.pc = pc] \in Delivery
      BY <1>2, <2>1, DeliveryFields DEF Delivery
    <2> QED
      BY <1>2, <2>1, <2>2 DEF Goto, JobsTypeOK
  <1>3. ASSUME NEW d \in Schedulers, Rest(d)
        PROVE  delivery' \in [Jobs -> {Resting} \cup Delivery]
    BY <1>3 DEF Rest, JobsTypeOK, Schedulers
  <1>4. ASSUME NEW d \in Schedulers, NEW rows \in SUBSET Execution, delivery[d].pc # "resting",
               executions' = [executions EXCEPT ![delivery[d].name][delivery[d].ref] = rows]
        PROVE  executions' \in [Names -> [Rounds -> SUBSET Execution]]
    <2>1. delivery[d].name \in Names /\ delivery[d].ref \in Rounds
      BY <1>4, DeliveryFields DEF Schedulers
    <2> QED
      BY <1>4, <2>1, CellType DEF JobsTypeOK
  <1>5. ASSUME NEW d \in Schedulers, delivery[d].pc # "resting"
        PROVE  Of(d) \subseteq Execution /\ Mine(d) \in Execution /\ Success \in Execution
    BY <1>5, DeliveryFields DEF Of, Mine, Success, Execution, Schedulers, JobsTypeOK
  <1>6. ASSUME NEW d \in Schedulers, Sweep(d)
        PROVE  Goal
    <2>1. \A n \in Names, r \in Rounds : [pc |-> "lookup", name |-> n, ref |-> r] \in Delivery
      BY DEF Delivery
    <2>2. PICK r \in Rounds : SweepOpen(d, r) \/ SweepClose(d, r)
      BY <1>6 DEF Sweep
    <2>3. delivery' \in [Jobs -> {Resting} \cup Delivery]
      BY <2>1, <2>2 DEF SweepOpen, SweepClose, Names, JobsTypeOK
    <2> QED
      BY <2>2, <2>3 DEF SweepOpen, SweepClose, JobsTypeOK
  <1>7. ASSUME NEW d \in Schedulers, Deliver(d)
        PROVE  Goal
    <2>1. CASE FindFirst(d) \/ Run(d) \/ Refuse(d) \/ WorkOn(d)
      <3>1. delivery' \in [Jobs -> {Resting} \cup Delivery]
        BY <1>2, <1>3, <2>1 DEF FindFirst, Run, Refuse, WorkOn, JobsTypeOK
      <3> QED
        BY <2>1, <3>1 DEF FindFirst, Run, Refuse, WorkOn, JobsTypeOK
    <2>2. CASE CreateExecution(d)
      <3>1. executions' \in [Names -> [Rounds -> SUBSET Execution]]
        <4>1. Of(d) \cup {Mine(d)} \in SUBSET Execution
          BY <1>5, <2>2 DEF CreateExecution
        <4>2. executions' = [executions EXCEPT ![delivery[d].name][delivery[d].ref] =
                               Of(d) \cup {Mine(d)}]
          BY <2>2 DEF CreateExecution, Of
        <4> QED
          BY <1>4, <2>2, <4>1, <4>2 DEF CreateExecution
      <3> QED
        BY <1>2, <2>2, <3>1 DEF CreateExecution, JobsTypeOK
    <2>3. CASE Finish(d)
      <3> DEFINE rows == (Of(d) \ {Mine(d)})
                           \cup (IF delivery[d].pc = "done" THEN {Success} ELSE {})
      <3>1. executions' \in [Names -> [Rounds -> SUBSET Execution]]
        <4>1. rows \in SUBSET Execution
          BY <1>5, <2>3 DEF Finish
        <4>2. executions' = [executions EXCEPT ![delivery[d].name][delivery[d].ref] = rows]
          BY <2>3 DEF Finish, Of
        <4> HIDE DEF rows
        <4> QED
          BY <1>4, <2>3, <4>1, <4>2 DEF Finish
      <3> QED
        BY <1>3, <2>3, <3>1 DEF Finish, JobsTypeOK
    <2> QED
      BY <1>7, <2>1, <2>2, <2>3 DEF Deliver
  <1>8. ASSUME NEW d \in Schedulers, Throw(d)
        PROVE  Goal
    <2>1. faults' \in 0..MaxFaults
      BY <1>8, BoundAssumption DEF Throw, JobsTypeOK
    <2> QED
      BY <1>2, <1>8, <2>1 DEF Throw, JobsTypeOK
  <1>9. ASSUME NEW d \in Schedulers, Die(d)
        PROVE  Goal
    <2>1. faults' \in 0..MaxFaults
      BY <1>9, BoundAssumption DEF Die, JobsTypeOK
    <2>2. ASSUME NEW n \in Names, NEW r \in Rounds, NEW e \in executions[n][r]
          PROVE  (IF e.by = d THEN [e EXCEPT !.by = Nothing] ELSE e) \in Execution
      <3>1. e \in Execution
        BY DEF JobsTypeOK
      <3> QED
        BY <3>1 DEF Execution
    <2>3. ASSUME NEW n \in Names, NEW r \in Rounds
          PROVE  {IF e.by = d THEN [e EXCEPT !.by = Nothing] ELSE e : e \in executions[n][r]}
                   \in SUBSET Execution
      BY <2>2
    <2>4. executions' \in [Names -> [Rounds -> SUBSET Execution]]
      BY <1>9, <2>3 DEF Die
    <2> QED
      BY <1>3, <1>9, <2>1, <2>4 DEF Die
  <1> HIDE DEF Goal
  <1>10. Script \/ (\E r \in Rounds : Calendar(r)) \/ UNCHANGED allVars => UNCHANGED runnerVars
    BY DEF Script, Regrant, RegrantTo, RegrantStops, Calendar, allVars
  <1>11. Goal
    BY <1>1, <1>6, <1>7, <1>8, <1>9, <1>10 DEF JobsNext
  <1> QED
    BY <1>11 DEF Goal

LEMMA JobsTypeStep ==
    JobsTypeOK /\ PlayersHaveTickets /\ [JobsNext]_allVars => JobsTypeOK' /\ PlayersHaveTickets'
  <1> SUFFICES ASSUME JobsTypeOK, PlayersHaveTickets, [JobsNext]_allVars
               PROVE  JobsTypeOK' /\ PlayersHaveTickets'
    OBVIOUS
  <1>1. TypeOK' /\ PlayersHaveTickets'
    <2>1. [Next]_vars
      BY JobsStepsAreRounds
    <2> QED
      BY <2>1, TypeStep, PlayersStep DEF JobsTypeOK
  <1> QED
    BY <1>1, RunnerType DEF JobsTypeOK

LEMMA JobsTypeInit == JobsInit => JobsTypeOK
  <1> SUFFICES ASSUME JobsInit PROVE JobsTypeOK
    OBVIOUS
  <1>1. TypeOK
    BY RoundsInit DEF JobsInit
  <1> QED
    BY <1>1, BoundAssumption DEF JobsInit, JobsTypeOK

\* The tables of the rounds and of the runner keep their form, whichever
\* deliveries overlap, throw or die (InternalJobRunner).
THEOREM JobsTypeCorrect == JobsSpec => [](JobsTypeOK /\ PlayersHaveTickets)
  <1>1. JobsInit => JobsTypeOK /\ PlayersHaveTickets
    BY JobsTypeInit, RoundsInit DEF JobsInit
  <1>2. JobsTypeOK /\ PlayersHaveTickets /\ [JobsNext]_allVars
          => (JobsTypeOK /\ PlayersHaveTickets)'
    BY JobsTypeStep
  <1> QED
    BY <1>1, <1>2, PTL DEF JobsSpec

\* The rounds under the runner are the rounds: every step of a sweep, of the
\* runner and of the operator's script is one of the round operations, or leaves
\* the rounds alone.  So every theorem about Rounds holds of them too, one open
\* round first of all, on which the closing sweep counts.
THEOREM JobsImplementRounds == JobsSpec => Spec
  <1>1. JobsInit => Init
    BY DEF JobsInit
  <1>2. JobsTypeOK /\ [JobsNext]_allVars => [Next]_vars
    BY JobsStepsAreRounds
  <1> QED
    BY <1>1, <1>2, JobsTypeCorrect, PTL DEF JobsSpec, Spec

-----------------------------------------------------------------------------
(* AN IDEMPOTENT ANSWER IS NEVER PREMATURE.  The invariant: a delivery is   *)
(* where its round operation is, a delivery that is done has granted to     *)
(* everybody, and so has every execution that succeeded.                    *)

Matches(d) ==
    /\ delivery[d].pc # "work" => job[d] = Idle
    /\ delivery[d].pc = "work" =>
         /\ job[d].round = delivery[d].ref
         /\ delivery[d].name = Open => job[d].op \in {"open", "grant"}
         /\ delivery[d].name = Close => job[d].op \in {"close", "zero"} /\ ~job[d].score

DeliveriesMatch ==
    /\ \A d \in Schedulers : Matches(d)
    /\ job[Operator] # Idle => job[Operator].op = "grant"

Complete(r) == round[r].status \notin Unopened /\ \A u \in Users : free[u][r] # NoRow

DoneIsComplete ==
    \A d \in Schedulers, r \in Rounds :
        /\ delivery[d].pc = "done"
        /\ delivery[d].name = Open
        /\ delivery[d].ref = r
        => Complete(r)

SuccessIsComplete == \A r \in Rounds : Succeeded(Open, r) => Complete(r)

JobsInv ==
    /\ JobsTypeOK
    /\ PlayersHaveTickets
    /\ GrantsPassed
    /\ DeliveriesMatch
    /\ DoneIsComplete
    /\ SuccessIsComplete

\* What the operation of a delivery becomes when the delivery works on.
LEMMA WorkOnEffect ==
    ASSUME JobsTypeOK, DeliveriesMatch, NEW d \in Schedulers, WorkOn(d)
    PROVE  /\ \E w : job' = [job EXCEPT ![d] = w]
           /\ \/ /\ job'[d] # Idle
                 /\ delivery' = delivery
                 /\ Matches(d)'
              \/ /\ job'[d] = Idle
                 /\ job[d].op = "open"
                 /\ Goto(d, "failed")
              \/ /\ job'[d] = Idle
                 /\ \E u \in Users : GrantTo(d, u) /\ job[d].todo = {u}
                 /\ Goto(d, "done")
              \/ /\ job'[d] = Idle
                 /\ delivery[d].name = Close
                 /\ Goto(d, "done")
  <1> DEFINE Goal == /\ \E w : job' = [job EXCEPT ![d] = w]
                     /\ \/ /\ job'[d] # Idle
                           /\ delivery' = delivery
                           /\ Matches(d)'
                        \/ /\ job'[d] = Idle
                           /\ job[d].op = "open"
                           /\ Goto(d, "failed")
                        \/ /\ job'[d] = Idle
                           /\ \E u \in Users : GrantTo(d, u) /\ job[d].todo = {u}
                           /\ Goto(d, "done")
                        \/ /\ job'[d] = Idle
                           /\ delivery[d].name = Close
                           /\ Goto(d, "done")
  <1>1. d \in Jobs /\ d \in DOMAIN job
    BY DEF Schedulers, JobsTypeOK, TypeOK
  <1>2. /\ delivery[d].pc = "work" /\ delivery[d].name \in {Open, Close}
        /\ job[d].round = delivery[d].ref
        /\ delivery[d].name = Open => job[d].op \in {"open", "grant"}
        /\ delivery[d].name = Close => job[d].op \in {"close", "zero"} /\ ~job[d].score
    BY <1>1, DeliveryFields DEF WorkOn, DeliveriesMatch, Matches, Names
  <1>3. IF job'[d] # Idle THEN delivery' = delivery
        ELSE Goto(d, IF job[d].op = "open" THEN "failed" ELSE "done")
    BY DEF WorkOn
  <1>4. Open # Close
    BY DEF Open, Close
  <1>5. TypeOK
    BY DEF JobsTypeOK
  <1>6. ASSUME NEW w, w # Idle, Continue(d, w), w.round = delivery[d].ref,
               delivery[d].name = Open => w.op \in {"open", "grant"},
               delivery[d].name = Close => w.op \in {"close", "zero"} /\ ~w.score
        PROVE  Goal
    <2>1. job'[d] = w /\ job' = [job EXCEPT ![d] = w]
      BY <1>1, <1>6 DEF Continue
    <2>2. delivery' = delivery
      BY <1>3, <1>6, <2>1
    <2>3. Matches(d)'
      BY <1>2, <1>6, <2>1, <2>2 DEF Matches
    <2> QED
      BY <1>6, <2>1, <2>2, <2>3
  <1>7. ASSUME CommitOpen(d)
        PROVE  Goal
    <2> DEFINE w == [op |-> "grant", round |-> job[d].round, todo |-> Users]
    <2>1. w # Idle /\ w.round = delivery[d].ref /\ w.op = "grant"
      BY <1>2 DEF Idle
    <2>2. Continue(d, w) /\ delivery[d].name = Open
      BY <1>2, <1>4, <1>7 DEF CommitOpen
    <2>3. /\ delivery[d].name = Open => w.op \in {"open", "grant"}
          /\ delivery[d].name = Close => w.op \in {"close", "zero"} /\ ~w.score
      BY <1>4, <2>1, <2>2
    <2> HIDE DEF w, Goal
    <2> QED
      BY <1>6, <2>1, <2>2, <2>3
  <1>8. ASSUME RejectOpen(d)
        PROVE  Goal
    BY <1>1, <1>3, <1>8 DEF RejectOpen, End, Continue
  <1>9. ASSUME NEW u \in Users, GrantTo(d, u)
        PROVE  Goal
    <2>1. job[d].op = "grant" /\ delivery[d].name = Open
      BY <1>2, <1>4, <1>9 DEF GrantTo
    <2>2. CASE job[d].todo = {u}
      <3>1. job' = [job EXCEPT ![d] = Idle] /\ job'[d] = Idle
        BY <1>1, <1>9, <2>2 DEF GrantTo, End, Continue
      <3> QED
        BY <1>3, <1>9, <2>1, <2>2, <3>1
    <2>3. CASE job[d].todo # {u}
      <3> DEFINE w == [job[d] EXCEPT !.todo = @ \ {u}]
      <3>1. job[d] \in GrantJob
        BY <1>1, <1>5, <2>1, JobFields
      <3>2. w.op = "grant" /\ w.round = delivery[d].ref
        BY <1>2, <2>1, <3>1 DEF GrantJob
      <3>3. Continue(d, w) /\ w # Idle
        BY <1>9, <2>3, <3>2 DEF GrantTo, Idle
      <3> HIDE DEF w, Goal
      <3> QED
        BY <1>4, <1>6, <2>1, <3>2, <3>3
    <2> QED
      BY <2>2, <2>3
  <1>10. ASSUME CommitClose(d)
         PROVE  Goal
    <2> DEFINE w == [job[d] EXCEPT !.op = "zero"]
    <2>1. job[d] \in CloseJob /\ delivery[d].name = Close
      BY <1>1, <1>2, <1>5, <1>10, JobFields DEF CommitClose
    <2>2. w.op = "zero" /\ w.round = delivery[d].ref /\ ~w.score
      BY <1>2, <2>1 DEF CloseJob
    <2>3. Continue(d, w) /\ w # Idle
      BY <1>10, <2>2 DEF CommitClose, Idle
    <2>4. /\ delivery[d].name = Open => w.op \in {"open", "grant"}
          /\ delivery[d].name = Close => w.op \in {"close", "zero"} /\ ~w.score
      BY <1>4, <2>1, <2>2
    <2> HIDE DEF w, Goal
    <2> QED
      BY <1>6, <2>2, <2>3, <2>4
  <1>11. ASSUME ZeroBenefits(d)
         PROVE  Goal
    <2>1. delivery[d].name = Close /\ job[d].op = "zero"
      BY <1>2, <1>11 DEF ZeroBenefits
    <2>2. End(d)
      BY <1>2, <1>11, <2>1 DEF ZeroBenefits
    <2>3. job'[d] = Idle /\ job' = [job EXCEPT ![d] = Idle]
      BY <1>1, <2>2 DEF End, Continue
    <2> QED
      BY <1>3, <2>1, <2>3
  <1> HIDE DEF Goal
  <1>12. job[d].op \in {"open", "grant", "close", "zero"}
    BY <1>2
  <1>13. CountTickets(d) \/ CommitCancel(d) \/ CommitResult(d) \/ ReadClosedRound(d)
           \/ CommitScore(d) \/ RejectScore(d) \/ TakeSnapshot(d) => FALSE
    BY <1>12 DEF CountTickets, CommitCancel, CommitResult, ReadClosedRound, CommitScore,
                 RejectScore, TakeSnapshot
  <1>14. Work(d)
    BY DEF WorkOn
  <1>15. Goal
    BY <1>7, <1>8, <1>9, <1>10, <1>11, <1>13, <1>14 DEF Work
  <1> QED
    BY <1>15 DEF Goal

\* A delivery is where its round operation is.
LEMMA MatchStep ==
    JobsTypeOK /\ DeliveriesMatch /\ [JobsNext]_allVars => DeliveriesMatch'
  <1> SUFFICES ASSUME JobsTypeOK, DeliveriesMatch, [JobsNext]_allVars
               PROVE  DeliveriesMatch'
    OBVIOUS
  <1>1. /\ delivery \in [Jobs -> {Resting} \cup Delivery]
        /\ job \in [Jobs -> {Idle} \cup Job]
        /\ Operator \in Jobs /\ Operator \notin Schedulers /\ Schedulers \subseteq Jobs
    BY BoundAssumption DEF JobsTypeOK, TypeOK, Schedulers
  <1>2. Open # Close
    BY DEF Open, Close
  <1>3. ASSUME NEW d \in Schedulers, Matches(d)',
               \E w : job' = [job EXCEPT ![d] = w],
               \E w : delivery' = [delivery EXCEPT ![d] = w]
        PROVE  DeliveriesMatch'
    <2>1. \A e \in Jobs : e # d => job'[e] = job[e] /\ delivery'[e] = delivery[e]
      BY <1>1, <1>3
    <2>2. ASSUME NEW e \in Schedulers
          PROVE  Matches(e)'
      <3>1. CASE e = d
        BY <1>3, <3>1
      <3>2. CASE e # d
        BY <1>1, <2>1, <3>2 DEF DeliveriesMatch, Matches
      <3> QED
        BY <3>1, <3>2
    <2>3. job'[Operator] = job[Operator]
      BY <1>1, <2>1
    <2> QED
      BY <2>2, <2>3 DEF DeliveriesMatch
  <1>4. ASSUME NEW d \in Schedulers, NEW w, w.pc # "work", job'[d] = Idle,
               \E x : job' = [job EXCEPT ![d] = x],
               delivery' = [delivery EXCEPT ![d] = w]
        PROVE  DeliveriesMatch'
    <2>1. delivery'[d] = w
      BY <1>1, <1>4
    <2> QED
      BY <1>3, <1>4, <2>1 DEF Matches
  <1>5. ASSUME NEW d \in Schedulers, job[d] = Idle, UNCHANGED job
        PROVE  job'[d] = Idle /\ \E x : job' = [job EXCEPT ![d] = x]
    <2>1. job' = [job EXCEPT ![d] = Idle]
      BY <1>1, <1>5
    <2> QED
      BY <1>5, <2>1
  <1>6. ASSUME NEW d \in Schedulers, NEW pc, pc # "work", delivery[d].pc # "resting",
               Goto(d, pc), job'[d] = Idle, \E x : job' = [job EXCEPT ![d] = x]
        PROVE  DeliveriesMatch'
    <2> DEFINE w == [delivery[d] EXCEPT !.pc = pc]
    <2>1. w.pc = pc
      BY <1>1, <1>6, DeliveryFields DEF Delivery
    <2>2. delivery' = [delivery EXCEPT ![d] = w]
      BY <1>6 DEF Goto
    <2> HIDE DEF w
    <2> QED
      BY <1>4, <1>6, <2>1, <2>2
  <1>7. ASSUME NEW d \in Schedulers, Rest(d), job'[d] = Idle, \E x : job' = [job EXCEPT ![d] = x]
        PROVE  DeliveriesMatch'
    BY <1>4, <1>7 DEF Rest, Resting
  <1>8. ASSUME NEW d \in Schedulers, Sweep(d)
        PROVE  DeliveriesMatch'
    <2>1. PICK r \in Rounds : SweepOpen(d, r) \/ SweepClose(d, r)
      BY <1>8 DEF Sweep
    <2>2. job[d] = Idle /\ UNCHANGED job
      BY <2>1 DEF SweepOpen, SweepClose, vars, DeliveriesMatch, Matches, Resting
    <2>3. \E n : delivery' = [delivery EXCEPT ![d] = [pc |-> "lookup", name |-> n, ref |-> r]]
      BY <2>1 DEF SweepOpen, SweepClose
    <2> QED
      BY <1>4, <1>5, <2>2, <2>3
  <1>9. ASSUME NEW d \in Schedulers,
               FindFirst(d) \/ CreateExecution(d) \/ Refuse(d) \/ Finish(d)
        PROVE  DeliveriesMatch'
    <2>1. UNCHANGED job /\ delivery[d].pc \notin {"work", "resting"}
      BY <1>9 DEF FindFirst, CreateExecution, Refuse, Finish, vars
    <2>2. job[d] = Idle
      BY <2>1 DEF DeliveriesMatch, Matches
    <2>3. Goto(d, "create") \/ Goto(d, "run") \/ Goto(d, "failed") \/ Rest(d)
      BY <1>9 DEF FindFirst, CreateExecution, Refuse, Finish
    <2> QED
      BY <1>5, <1>6, <1>7, <2>1, <2>2, <2>3
  <1>10. ASSUME NEW d \in Schedulers, Run(d)
         PROVE  DeliveriesMatch'
    <2> DEFINE r == delivery[d].ref
    <2>1. delivery[d] \in Delivery /\ delivery[d].name \in {Open, Close}
      BY <1>1, <1>10, DeliveryFields DEF Run, Names
    <2>2. delivery' = [delivery EXCEPT ![d] = [delivery[d] EXCEPT !.pc = "work"]]
      BY <1>10 DEF Run, Goto
    <2>3. delivery'[d].pc = "work" /\ delivery'[d].name = delivery[d].name
            /\ delivery'[d].ref = r
      BY <1>1, <2>1, <2>2 DEF Delivery
    <2>4. \E w : /\ job' = [job EXCEPT ![d] = w]
                 /\ w.round = r
                 /\ delivery[d].name = Open => w.op \in {"open", "grant"}
                 /\ delivery[d].name = Close => w.op \in {"close", "zero"} /\ ~w.score
      <3>1. CASE delivery[d].name = Open
        <4>1. \E w : /\ job' = [job EXCEPT ![d] = w] /\ w.round = r
                     /\ w.op \in {"open", "grant"}
          <5> DEFINE v == [op |-> "open", round |-> r]
                     w == [op |-> "grant", round |-> r, todo |-> Users]
          <5>1. job' = [job EXCEPT ![d] = v] \/ job' = [job EXCEPT ![d] = w]
            BY <1>10, <3>1 DEF Run, StartRound, StartOpen, StartGrants, Begin
          <5>2. v.round = r /\ v.op = "open" /\ w.round = r /\ w.op = "grant"
            OBVIOUS
          <5> HIDE DEF v, w
          <5> QED
            BY <5>1, <5>2
        <4> QED
          BY <1>2, <3>1, <4>1
      <3>2. CASE delivery[d].name = Close
        <4>1. \E w : /\ job' = [job EXCEPT ![d] = w] /\ w.round = r
                     /\ w.op \in {"close", "zero"} /\ ~w.score
          <5> DEFINE w == [op |-> "close", round |-> r, score |-> FALSE]
          <5>1. job' = [job EXCEPT ![d] = w]
            BY <1>2, <1>10, <3>2 DEF Run, StartRound, StartScheduledClose, Begin
          <5>2. w.round = r /\ w.op = "close" /\ ~w.score
            OBVIOUS
          <5> HIDE DEF w
          <5> QED
            BY <5>1, <5>2
        <4> QED
          BY <1>2, <3>2, <4>1
      <3> QED
        BY <2>1, <3>1, <3>2
    <2>5. PICK w : /\ job' = [job EXCEPT ![d] = w]
                   /\ w.round = r
                   /\ delivery[d].name = Open => w.op \in {"open", "grant"}
                   /\ delivery[d].name = Close => w.op \in {"close", "zero"} /\ ~w.score
      BY <2>4
    <2>6. job'[d] = w
      BY <1>1, <2>5
    <2>7. Matches(d)'
      BY <2>3, <2>5, <2>6 DEF Matches
    <2> QED
      BY <1>3, <2>2, <2>5, <2>7
  <1>11. ASSUME NEW d \in Schedulers, WorkOn(d)
         PROVE  DeliveriesMatch'
    <2>1. delivery[d].pc # "resting"
      BY <1>11 DEF WorkOn
    <2>2. \/ job'[d] # Idle /\ delivery' = delivery /\ Matches(d)'
          \/ job'[d] = Idle /\ (Goto(d, "failed") \/ Goto(d, "done"))
      BY <1>11, WorkOnEffect
    <2>3. \E w : job' = [job EXCEPT ![d] = w]
      BY <1>11, WorkOnEffect
    <2>4. delivery' = delivery => \E w : delivery' = [delivery EXCEPT ![d] = w]
      <3>1. delivery = [delivery EXCEPT ![d] = delivery[d]]
        BY <1>1
      <3> QED
        BY <3>1
    <2> QED
      BY <1>3, <1>6, <2>1, <2>2, <2>3, <2>4
  <1>12. ASSUME NEW d \in Schedulers, Throw(d) \/ Die(d)
         PROVE  DeliveriesMatch'
    <2>1. job' = [job EXCEPT ![d] = Idle] /\ job'[d] = Idle
      BY <1>1, <1>12 DEF Throw, Die
    <2>2. Throw(d) => Goto(d, "failed") /\ delivery[d].pc # "resting"
      BY DEF Throw
    <2>3. Die(d) => Rest(d)
      BY DEF Die
    <2> QED
      BY <1>6, <1>7, <1>12, <2>1, <2>2, <2>3
  <1>13. ASSUME UNCHANGED delivery, \A d \in Schedulers : job'[d] = job[d],
                job'[Operator] # Idle => job'[Operator].op = "grant"
         PROVE  DeliveriesMatch'
    BY <1>13 DEF DeliveriesMatch, Matches
  <1>14. ASSUME Script
         PROVE  DeliveriesMatch'
    <2>1. ASSUME NEW r \in Rounds, Regrant(r)
          PROVE  job' = [job EXCEPT ![Operator] = [op |-> "grant", round |-> r, todo |-> Users]]
      BY <2>1 DEF Regrant, StartGrants, Begin
    <2>2. ASSUME NEW u \in Users, RegrantTo(u)
          PROVE  \/ job' = [job EXCEPT ![Operator] = Idle]
                 \/ /\ job' = [job EXCEPT ![Operator] = [job[Operator] EXCEPT !.todo = @ \ {u}]]
                    /\ [job[Operator] EXCEPT !.todo = @ \ {u}].op = "grant"
      <3>1. job[Operator].op = "grant" /\ TypeOK
        BY <2>2 DEF RegrantTo, GrantTo, JobsTypeOK
      <3>2. job[Operator] \in GrantJob
        BY <1>1, <3>1, JobFields
      <3> QED
        BY <2>2, <3>1, <3>2 DEF RegrantTo, GrantTo, End, Continue, GrantJob
    <2>3. RegrantStops => job' = [job EXCEPT ![Operator] = Idle]
      BY DEF RegrantStops, Crash, End, Continue
    <2>4. \E w : job' = [job EXCEPT ![Operator] = w] /\ (w # Idle => w.op = "grant")
      <3>1. CASE RegrantStops
        BY <2>3, <3>1
      <3>2. ASSUME NEW r \in Rounds, Regrant(r)
            PROVE  \E w : job' = [job EXCEPT ![Operator] = w] /\ (w # Idle => w.op = "grant")
        <4> DEFINE w == [op |-> "grant", round |-> r, todo |-> Users]
        <4>1. job' = [job EXCEPT ![Operator] = w] /\ w.op = "grant"
          BY <2>1, <3>2
        <4> QED
          BY <4>1
      <3>3. ASSUME NEW u \in Users, RegrantTo(u)
            PROVE  \E w : job' = [job EXCEPT ![Operator] = w] /\ (w # Idle => w.op = "grant")
        BY <2>2, <3>3
      <3> QED
        BY <1>14, <3>1, <3>2, <3>3 DEF Script
    <2>5. UNCHANGED delivery
      BY <1>14 DEF Script, Regrant, RegrantTo, RegrantStops, runnerVars
    <2>6. \A d \in Schedulers : job'[d] = job[d]
      BY <1>1, <2>4
    <2>7. job'[Operator] # Idle => job'[Operator].op = "grant"
      BY <1>1, <2>4
    <2> QED
      BY <1>13, <2>5, <2>6, <2>7
  <1>15. ASSUME UNCHANGED <<job, delivery>>
         PROVE  DeliveriesMatch'
    BY <1>13, <1>15 DEF DeliveriesMatch
  <1>16. (\E r \in Rounds : Calendar(r)) \/ UNCHANGED allVars => UNCHANGED <<job, delivery>>
    BY DEF Calendar, CreateRound, PassCloseAt, runnerVars, allVars, vars
  <1> QED
    BY <1>8, <1>9, <1>10, <1>11, <1>12, <1>14, <1>15, <1>16 DEF JobsNext, Deliver

\* What is complete stays so.
LEMMA CompleteStays ==
    ASSUME TypeOK, [Next]_vars, NEW r \in Rounds, Complete(r)
    PROVE  Complete(r)'
  <1>1. round'[r].status \notin Unopened
    BY OpenedStays DEF Complete
  <1>2. \A u \in Users : free'[u][r] # NoRow
    BY RowsStay DEF Complete
  <1> QED
    BY <1>1, <1>2 DEF Complete

\* A delivery of the opening is done when it has granted to the last user.
LEMMA DoneStep == JobsInv /\ [JobsNext]_allVars => DoneIsComplete'
  <1> SUFFICES ASSUME JobsInv, [JobsNext]_allVars, NEW d \in Schedulers, NEW r \in Rounds,
                      delivery'[d].pc = "done", delivery'[d].name = Open, delivery'[d].ref = r
               PROVE  Complete(r)'
    BY DEF DoneIsComplete
  <1>1. /\ JobsTypeOK /\ TypeOK /\ GrantsPassed /\ DeliveriesMatch /\ DoneIsComplete
        /\ delivery \in [Jobs -> {Resting} \cup Delivery]
        /\ Schedulers \subseteq Jobs
    BY DEF JobsInv, JobsTypeOK, Schedulers
  <1>2. [Next]_vars
    BY <1>1, JobsStepsAreRounds
  <1>3. CASE delivery'[d] = delivery[d]
    <2>1. Complete(r)
      BY <1>1, <1>3 DEF DoneIsComplete
    <2> QED
      BY <1>1, <1>2, <1>3, <2>1, CompleteStays
  <1>4. ASSUME NEW e \in Schedulers, NEW pc, delivery[e].pc # "resting", Goto(e, pc),
               delivery'[d] # delivery[d]
        PROVE  e = d /\ pc = "done" /\ delivery[d].name = Open /\ delivery[d].ref = r
    <2>1. e = d
      BY <1>1, <1>4 DEF Goto
    <2>2. delivery[d] \in Delivery
      BY <1>1, <1>4, <2>1, DeliveryFields
    <2>3. delivery'[d] = [delivery[d] EXCEPT !.pc = pc]
      BY <1>1, <1>4, <2>1 DEF Goto
    <2>4. /\ delivery'[d].pc = pc
          /\ delivery'[d].name = delivery[d].name
          /\ delivery'[d].ref = delivery[d].ref
      BY <2>2, <2>3 DEF Delivery
    <2> QED
      BY <2>1, <2>2, <2>4
  <1>5. ASSUME NEW e \in Schedulers, WorkOn(e), delivery'[d] # delivery[d]
        PROVE  Complete(r)'
    <2>1. delivery[e].pc = "work"
      BY <1>5 DEF WorkOn
    <2>2. \/ Goto(e, "failed")
          \/ Goto(e, "done") /\ \E u \in Users : GrantTo(e, u) /\ job[e].todo = {u}
          \/ Goto(e, "done") /\ delivery[e].name = Close
      BY <1>1, <1>5, WorkOnEffect
    <2>3. e = d /\ delivery[d].name = Open /\ delivery[d].ref = r
      BY <1>4, <1>5, <2>1, <2>2
    <2>4. ~Goto(e, "failed") /\ Open # Close
      BY <1>4, <1>5, <2>1 DEF Open, Close
    <2>5. PICK u \in Users : GrantTo(d, u) /\ job[d].todo = {u}
      BY <2>2, <2>3, <2>4
    <2>6. job[d].op = "grant" /\ job[d].round = r
      BY <1>1, <2>1, <2>3, <2>5 DEF GrantTo, DeliveriesMatch, Matches
    <2>7. round[r].status \notin Unopened /\ \A v \in Users \ {u} : free[v][r] # NoRow
      BY <1>1, <2>5, <2>6 DEF GrantsPassed
    <2>8. round'[r].status \notin Unopened
      BY <1>1, <1>2, <2>3, <2>7, OpenedStays
    <2>9. \A v \in Users \ {u} : free'[v][r] # NoRow
      BY <1>1, <1>2, <2>3, <2>7, RowsStay
    <2>10. free'[u][r] # NoRow
      BY <1>1, <2>5, <2>6, GrantGives
    <2> QED
      BY <2>8, <2>9, <2>10 DEF Complete
  <1>6. ASSUME NEW e \in Schedulers, Sweep(e)
        PROVE  delivery'[d] = delivery[d]
    <2>1. \E n, b : delivery' = [delivery EXCEPT ![e] = [pc |-> "lookup", name |-> n, ref |-> b]]
      BY <1>6 DEF Sweep, SweepOpen, SweepClose
    <2>2. PICK n, b : delivery' = [delivery EXCEPT ![e] = [pc |-> "lookup", name |-> n, ref |-> b]]
      BY <2>1
    <2>3. [pc |-> "lookup", name |-> n, ref |-> b].pc # "done"
      OBVIOUS
    <2> QED
      BY <1>1, <2>2, <2>3
  <1>7. ASSUME NEW e \in Schedulers, Rest(e)
        PROVE  delivery'[d] = delivery[d]
    BY <1>1, <1>7 DEF Rest, Resting
  <1>8. ASSUME NEW e \in Schedulers,
               \/ FindFirst(e) \/ CreateExecution(e) \/ Run(e) \/ Refuse(e) \/ Finish(e)
               \/ Throw(e) \/ Die(e)
        PROVE  delivery'[d] = delivery[d]
    <2>1. \/ Rest(e)
          \/ /\ delivery[e].pc # "resting"
             /\ Goto(e, "create") \/ Goto(e, "run") \/ Goto(e, "work") \/ Goto(e, "failed")
      BY <1>8 DEF FindFirst, CreateExecution, Run, Refuse, Finish, Throw, Die
    <2> QED
      BY <1>4, <1>7, <2>1
  <1>9. Script \/ (\E b \in Rounds : Calendar(b)) \/ UNCHANGED allVars
          => delivery'[d] = delivery[d]
    BY DEF Script, Regrant, RegrantTo, RegrantStops, Calendar, runnerVars, allVars
  <1>10. CASE delivery'[d] # delivery[d]
    <2>1. \E e \in Schedulers : WorkOn(e)
      BY <1>6, <1>8, <1>9, <1>10 DEF JobsNext, Deliver
    <2> QED
      BY <1>5, <1>10, <2>1
  <1> QED
    BY <1>3, <1>10

\* An execution succeeds when its delivery is done.
LEMMA SuccessStep == JobsInv /\ [JobsNext]_allVars => SuccessIsComplete'
  <1> SUFFICES ASSUME JobsInv, [JobsNext]_allVars, NEW r \in Rounds, Succeeded(Open, r)'
               PROVE  Complete(r)'
    BY DEF SuccessIsComplete
  <1>1. /\ JobsTypeOK /\ TypeOK /\ DoneIsComplete /\ SuccessIsComplete
        /\ executions \in [Names -> [Rounds -> SUBSET Execution]]
        /\ Schedulers \subseteq Jobs /\ Open \in Names
    BY DEF JobsInv, JobsTypeOK, Schedulers, Names
  <1>2. [Next]_vars
    BY <1>1, JobsStepsAreRounds
  <1>3. ASSUME Complete(r)
        PROVE  Complete(r)'
    BY <1>1, <1>2, <1>3, CompleteStays
  <1>4. PICK e \in executions'[Open][r] : e.status = "SUCCESS"
    BY DEF Succeeded
  <1>5. ASSUME e \in executions[Open][r]
        PROVE  Complete(r)'
    BY <1>1, <1>3, <1>4, <1>5 DEF SuccessIsComplete, Succeeded
  <1>6. ASSUME NEW d \in Schedulers, NEW rows, delivery[d].pc # "resting",
               executions' = [executions EXCEPT ![delivery[d].name][delivery[d].ref] = rows],
               e \notin executions[Open][r]
        PROVE  delivery[d].name = Open /\ delivery[d].ref = r /\ e \in rows
    <2>1. delivery[d].name \in Names /\ delivery[d].ref \in Rounds
      BY <1>1, <1>6, DeliveryFields
    <2> QED
      BY <1>1, <1>4, <1>6, <2>1
  <1>7. ASSUME NEW d \in Schedulers, CreateExecution(d)
        PROVE  e \in executions[Open][r]
    <2> SUFFICES ASSUME e \notin executions[Open][r] PROVE FALSE
      OBVIOUS
    <2>1. executions' = [executions EXCEPT ![delivery[d].name][delivery[d].ref] =
                           Of(d) \cup {Mine(d)}]
      BY <1>7 DEF CreateExecution, Of
    <2>2. delivery[d].pc # "resting"
      BY <1>7 DEF CreateExecution
    <2>3. e \in Of(d) \cup {Mine(d)} /\ Of(d) = executions[Open][r]
      BY <1>6, <2>1, <2>2 DEF Of
    <2> QED
      BY <1>4, <2>3 DEF Mine
  <1>8. ASSUME NEW d \in Schedulers, Finish(d), e \notin executions[Open][r]
        PROVE  Complete(r)'
    <2> DEFINE rows == (Of(d) \ {Mine(d)})
                         \cup (IF delivery[d].pc = "done" THEN {Success} ELSE {})
    <2>1. executions' = [executions EXCEPT ![delivery[d].name][delivery[d].ref] = rows]
      BY <1>8 DEF Finish, Of
    <2>2. delivery[d].pc # "resting"
      BY <1>8 DEF Finish
    <2>3. delivery[d].name = Open /\ delivery[d].ref = r /\ e \in rows
      <3> HIDE DEF rows
      <3> QED
        BY <1>6, <1>8, <2>1, <2>2
    <2>4. delivery[d].pc = "done"
      BY <1>8, <2>3 DEF Of
    <2>5. Complete(r)
      BY <1>1, <2>3, <2>4 DEF DoneIsComplete
    <2> QED
      BY <1>3, <2>5
  <1>9. ASSUME NEW d \in Schedulers, Die(d)
        PROVE  Complete(r)'
    <2>1. executions'[Open][r] = {IF x.by = d THEN [x EXCEPT !.by = Nothing] ELSE x :
                                    x \in executions[Open][r]}
      BY <1>1, <1>9 DEF Die
    <2>2. PICK x \in executions[Open][r] : e = IF x.by = d THEN [x EXCEPT !.by = Nothing] ELSE x
      BY <1>4, <2>1
    <2>3. x \in Execution
      BY <1>1
    <2>4. x.status = "SUCCESS"
      BY <1>4, <2>2, <2>3 DEF Execution
    <2> QED
      BY <1>1, <1>3, <2>4 DEF SuccessIsComplete, Succeeded
  <1>10. ASSUME UNCHANGED executions
         PROVE  e \in executions[Open][r]
    BY <1>4, <1>10
  <1>11. ASSUME NEW d \in Schedulers,
                Sweep(d) \/ FindFirst(d) \/ Run(d) \/ Refuse(d) \/ WorkOn(d) \/ Throw(d)
         PROVE  UNCHANGED executions
    BY <1>11 DEF Sweep, SweepOpen, SweepClose, FindFirst, Run, Refuse, WorkOn, Throw
  <1>12. Script \/ (\E b \in Rounds : Calendar(b)) \/ UNCHANGED allVars => UNCHANGED executions
    BY DEF Script, Regrant, RegrantTo, RegrantStops, Calendar, runnerVars, allVars
  <1> QED
    BY <1>5, <1>7, <1>8, <1>9, <1>10, <1>11, <1>12 DEF JobsNext, Deliver

\* An IDEMPOTENT answer about the opening is never given for work that was not
\* done, for any number of users, rounds and overlapping deliveries, however many
\* of them throw or die (InternalJobRunner, OpenScheduledRounds).
THEOREM SuccessMeansGranted == JobsSpec => []OpenSuccessMeansGranted
  <1>1. JobsInit => JobsInv
    <2> SUFFICES ASSUME JobsInit PROVE JobsInv
      OBVIOUS
    <2>1. JobsTypeOK /\ PlayersHaveTickets
      BY JobsTypeInit, RoundsInit DEF JobsInit
    <2>2. \A j \in Jobs : job[j] = Idle /\ job[j].op = "idle"
      BY DEF JobsInit, Init, Idle
    <2>3. \A d \in Jobs : delivery[d].pc = "resting"
      BY DEF JobsInit, Resting
    <2>4. GrantsPassed
      BY <2>2 DEF GrantsPassed
    <2>5. DeliveriesMatch
      BY <2>2, <2>3, BoundAssumption DEF DeliveriesMatch, Matches, Schedulers
    <2>6. DoneIsComplete
      BY <2>3 DEF DoneIsComplete, Schedulers
    <2>7. SuccessIsComplete
      BY DEF SuccessIsComplete, Succeeded, JobsInit, Names
    <2> QED
      BY <2>1, <2>4, <2>5, <2>6, <2>7 DEF JobsInv
  <1>2. JobsInv /\ [JobsNext]_allVars => JobsInv'
    <2> SUFFICES ASSUME JobsInv, [JobsNext]_allVars PROVE JobsInv'
      OBVIOUS
    <2>1. JobsTypeOK' /\ PlayersHaveTickets'
      BY JobsTypeStep DEF JobsInv
    <2>2. GrantsPassed'
      <3>1. [Next]_vars
        BY JobsStepsAreRounds DEF JobsInv
      <3> QED
        BY <3>1, GrantsStep DEF JobsInv, JobsTypeOK
    <2>3. DeliveriesMatch'
      BY MatchStep DEF JobsInv
    <2> QED
      BY <2>1, <2>2, <2>3, DoneStep, SuccessStep DEF JobsInv
  <1>3. JobsInv => OpenSuccessMeansGranted
    <2> SUFFICES ASSUME JobsInv PROVE OpenSuccessMeansGranted
      OBVIOUS
    <2>1. \A r \in Rounds : Succeeded(Open, r) =>
            round[r].status \notin {"NONE", "DRAFT"} /\ \A u \in Users : free[u][r] # NoRow
      BY DEF JobsInv, SuccessIsComplete, Complete, Unopened
    <2>2. job[Operator] # Idle =>
            \A u \in Users \ job[Operator].todo : free[u][job[Operator].round] # NoRow
      BY BoundAssumption DEF JobsInv, DeliveriesMatch, GrantsPassed
    <2> QED
      BY <2>1, <2>2 DEF OpenSuccessMeansGranted
  <1> QED
    BY <1>1, <1>2, <1>3, PTL DEF JobsSpec

=============================================================================
