-------------------------------- MODULE Rounds --------------------------------
(***************************************************************************)
(* A round from its draft to its score: RoundRepository.create,            *)
(* OpenRoundService, GrantRoundBenefitsService, AdminBenefitsService,      *)
(* CreateTicketService, ConsumeBenefitsService, CloseRoundService,         *)
(* RoundAdminService, SetRoundResultService, ScoreRoundService and         *)
(* SnapshotRankingService.                                                 *)
(*                                                                         *)
(* Players' requests run beside the operations of admins and of the job    *)
(* worker, at READ COMMITTED: what an operation reads without a lock is a  *)
(* step of its own, and its writes apply to the rows as they are when it   *)
(* commits.  DOUBLE stands for both benefit types, whose code is the same. *)
(***************************************************************************)
EXTENDS Integers, FiniteSetsExt, Functions

CONSTANTS
    Users,
    NumRounds,     \* bound on the rounds ever created; Round.number is 1..NumRounds
    Predictions,   \* what a ticket may contain: prediction and multipliers
    Demand,        \* [Predictions -> benefits its multipliers consume]
    Results,       \* official results a round may get
    Points,        \* [Predictions -> [Results -> Int]]: CalculateTicketScoreService
    Grant,         \* [Users -> free benefits of the user's plan]
    Stock,         \* [Users -> paid benefits in the inventory at the start]
    Gift,          \* free benefits an admin credits at a time
    MaxGifts,      \* bound on such credits
    Requests,      \* ticket submissions in progress together
    Jobs,          \* admin requests and worker jobs in progress together
    Nothing        \* a null column, a row that does not exist

Rounds == 1..NumRounds

ASSUME RoundsAssumption ==
    /\ NumRounds \in Nat
    /\ Demand \in [Predictions -> Nat]
    /\ Points \in [Predictions -> [Results -> Int]]
    /\ Grant \in [Users -> Nat]
    /\ Stock \in [Users -> Nat]
    /\ Gift \in Nat \ {0} /\ MaxGifts \in Nat

NoRow == -1

VARIABLES
    round,      \* rounds: status and result; "NONE" before the row exists
    due,        \* closeAt <= now
    free,       \* round_benefits.freeDoubles, NoRow where there is no row
    given,      \* free benefits ever given to a user for a round (history)
    inventory,  \* user_benefit_inventory.quantity
    ticket,     \* tickets: at most one for a user and a round
    history,    \* user_score_history: at most one for a user and a round
    scoreTotal, \* users.scoreTotal
    snapshot,   \* ranking_snapshots: the scoreTotal of each user listed
    request,    \* what each submission has read
    job,        \* what each admin request or job has read and still has to do
    gifts       \* credits of free benefits made so far

vars == <<round, due, free, given, inventory, ticket, history, scoreTotal,
          snapshot, request, job, gifts>>
roundVars == <<round, due>>
benefitVars == <<free, given, inventory, gifts>>
scoreVars == <<history, scoreTotal, snapshot>>

Status == {"NONE", "DRAFT", "OPEN", "CLOSED", "SCORED", "CANCELLED"}
Ticket == [prediction : Predictions, freeUsed : Nat, inventoryUsed : Nat,
           score : Int \cup {Nothing}]
History == [scoreRound : Int, scoreTotal : Int]

ASSUME NothingAssumption == Nothing \notin Results \cup Int \cup Ticket \cup History

Idle == [op |-> "idle"]
Submission == [op : {"submit"}, user : Users, round : Rounds, prediction : Predictions]
Consumption == [op : {"consume"}, user : Users, round : Rounds, prediction : Predictions,
                seen : Nat]
StepJob == [op : {"open", "count", "snapshot", "score"}, round : Rounds]
GrantJob == [op : {"grant"}, round : Rounds, todo : SUBSET Users]
CloseJob == [op : {"close", "zero"}, round : Rounds, score : BOOLEAN]
CancelJob == [op : {"cancel"}, round : Rounds, expire : BOOLEAN]
ResultJob == [op : {"result"}, round : Rounds, result : Results]
ScoringJob == [op : {"scoring"}, round : Rounds, result : Results, players : SUBSET Users]
Job == StepJob \cup GrantJob \cup CloseJob \cup CancelJob \cup ResultJob \cup ScoringJob

TypeOK ==
    /\ round \in [Rounds -> [status : Status, result : Results \cup {Nothing}]]
    /\ due \in [Rounds -> BOOLEAN]
    /\ free \in [Users -> [Rounds -> Nat \cup {NoRow}]]
    /\ given \in [Users -> [Rounds -> Nat]]
    /\ inventory \in [Users -> Nat]
    /\ ticket \in [Users -> [Rounds -> Ticket \cup {Nothing}]]
    /\ history \in [Users -> [Rounds -> History \cup {Nothing}]]
    /\ scoreTotal \in [Users -> Int]
    /\ snapshot \in [Rounds -> [Users -> Int \cup {Nothing}] \cup {Nothing}]
    /\ request \in [Requests -> {Idle} \cup Submission \cup Consumption]
    /\ job \in [Jobs -> {Idle} \cup Job]
    /\ gifts \in 0..MaxGifts

Init ==
    /\ round = [r \in Rounds |-> [status |-> "NONE", result |-> Nothing]]
    /\ due = [r \in Rounds |-> FALSE]
    /\ free = [u \in Users |-> [r \in Rounds |-> NoRow]]
    /\ given = [u \in Users |-> [r \in Rounds |-> 0]]
    /\ inventory = Stock
    /\ ticket = [u \in Users |-> [r \in Rounds |-> Nothing]]
    /\ history = [u \in Users |-> [r \in Rounds |-> Nothing]]
    /\ scoreTotal = [u \in Users |-> 0]
    /\ snapshot = [r \in Rounds |-> Nothing]
    /\ request = [q \in Requests |-> Idle]
    /\ job = [j \in Jobs |-> Idle]
    /\ gifts = 0

Begin(j, work) == job[j] = Idle /\ job' = [job EXCEPT ![j] = work]
Continue(j, work) == job' = [job EXCEPT ![j] = work]
End(j) == Continue(j, Idle)
SetStatus(r, status) == round' = [round EXCEPT ![r].status = status]

-----------------------------------------------------------------------------
(* DRAFT: the next number, which is unique.                                 *)

CreateRound(r) ==
    /\ round[r].status = "NONE"
    /\ \A s \in Rounds : s < r => round[s].status # "NONE"
    /\ SetStatus(r, "DRAFT")
    /\ UNCHANGED <<due, benefitVars, ticket, scoreVars, request, job>>

\* The clock passes closeAt.
PassCloseAt(r) ==
    /\ round[r].status # "NONE"
    /\ ~due[r]
    /\ due' = [due EXCEPT ![r] = TRUE]
    /\ UNCHANGED <<round, benefitVars, ticket, scoreVars, request, job>>

-----------------------------------------------------------------------------
(* OPEN                                                                     *)

StartOpen(j, r) ==
    /\ round[r].status = "DRAFT"
    /\ \A s \in Rounds \ {r} : round[s].status # "OPEN"
    /\ Begin(j, [op |-> "open", round |-> r])
    /\ UNCHANGED <<roundVars, benefitVars, ticket, scoreVars, request>>

\* The transaction of an OPEN round returns early; the grants follow all the same.
StartGrants(j, r) ==
    /\ round[r].status = "OPEN"
    /\ Begin(j, [op |-> "grant", round |-> r, todo |-> Users])
    /\ UNCHANGED <<roundVars, benefitVars, ticket, scoreVars, request>>

\* The partial unique index on status = 'OPEN'.
OpenIndexAllows(r) == \A s \in Rounds \ {r} : round[s].status # "OPEN"

\* Fault: the opening ends without the grants.
CommitOpenOnly(j) ==
    /\ job[j].op = "open"
    /\ OpenIndexAllows(job[j].round)
    /\ SetStatus(job[j].round, "OPEN")
    /\ End(j)
    /\ UNCHANGED <<due, benefitVars, ticket, scoreVars, request>>

CommitOpen(j) ==
    /\ job[j].op = "open"
    /\ OpenIndexAllows(job[j].round)
    /\ SetStatus(job[j].round, "OPEN")
    /\ Continue(j, [op |-> "grant", round |-> job[j].round, todo |-> Users])
    /\ UNCHANGED <<due, benefitVars, ticket, scoreVars, request>>

RejectOpen(j) ==
    /\ job[j].op = "open"
    /\ ~OpenIndexAllows(job[j].round)
    /\ End(j)
    /\ UNCHANGED <<roundVars, benefitVars, ticket, scoreVars, request>>

\* Fault: running the opening again restores what was consumed.
AfterGrantRestored(u, r) == Grant[u]

\* The upsert of GrantRoundBenefits: an existing row is left as it is.
AfterGrant(u, r) == IF free[u][r] = NoRow THEN Grant[u] ELSE free[u][r]

GrantTo(j, u) ==
    /\ job[j].op = "grant"
    /\ u \in job[j].todo
    /\ LET r == job[j].round
       IN  /\ free' = [free EXCEPT ![u][r] = AfterGrant(u, r)]
           /\ given' = [given EXCEPT ![u][r] = IF free[u][r] = NoRow THEN @ + Grant[u] ELSE @]
    /\ IF job[j].todo = {u}
       THEN End(j)
       ELSE Continue(j, [job[j] EXCEPT !.todo = @ \ {u}])
    /\ UNCHANGED <<roundVars, inventory, gifts, ticket, scoreVars, request>>

\* AdminBenefitsService.creditFree: one upsert, for any round.
CreditFree(u, r) ==
    /\ round[r].status # "NONE"
    /\ gifts < MaxGifts
    /\ gifts' = gifts + 1
    /\ free' = [free EXCEPT ![u][r] = IF @ = NoRow THEN Gift ELSE @ + Gift]
    /\ given' = [given EXCEPT ![u][r] = @ + Gift]
    /\ UNCHANGED <<roundVars, inventory, ticket, scoreVars, request, job>>

-----------------------------------------------------------------------------
(* TICKETS: one transaction, whose reads come first.                        *)

StartTicket(q, u, r, p) ==
    /\ request[q] = Idle
    /\ round[r].status = "OPEN"
    /\ ~due[r]
    /\ ticket[u][r] = Nothing
    /\ request' = [request EXCEPT ![q] =
                     [op |-> "submit", user |-> u, round |-> r, prediction |-> p]]
    /\ UNCHANGED <<roundVars, benefitVars, ticket, scoreVars, job>>

\* ConsumeBenefits reads the free benefits of the round; a missing row counts as 0.
ReadBenefits(q) ==
    /\ request[q].op = "submit"
    /\ LET row == free[request[q].user][request[q].round]
       IN  request' = [request EXCEPT ![q] =
                         [op |-> "consume", user |-> @.user, round |-> @.round,
                          prediction |-> @.prediction, seen |-> IF row > 0 THEN row ELSE 0]]
    /\ UNCHANGED <<roundVars, benefitVars, ticket, scoreVars, job>>

Least(a, b) == IF a < b THEN a ELSE b

\* The free benefits are taken if the conditional update still finds as many as
\* were counted on, else none of them.
FreeUsed(q) ==
    LET used == Least(request[q].seen, Demand[request[q].prediction])
    IN  IF free[request[q].user][request[q].round] >= used THEN used ELSE 0

InventoryUsed(q) == Demand[request[q].prediction] - FreeUsed(q)

TicketIsNew(q) == ticket[request[q].user][request[q].round] = Nothing

CanPay(q) == inventory[request[q].user] >= InventoryUsed(q)

CommitTicket(q) ==
    /\ request[q].op = "consume"
    /\ TicketIsNew(q)
    /\ CanPay(q)
    /\ LET u == request[q].user
           r == request[q].round
       IN  /\ free' = [free EXCEPT ![u][r] = IF FreeUsed(q) > 0 THEN @ - FreeUsed(q) ELSE @]
           /\ inventory' = [inventory EXCEPT ![u] = @ - InventoryUsed(q)]
           /\ ticket' = [ticket EXCEPT ![u][r] =
                           [prediction |-> request[q].prediction, freeUsed |-> FreeUsed(q),
                            inventoryUsed |-> InventoryUsed(q), score |-> Nothing]]
    /\ request' = [request EXCEPT ![q] = Idle]
    /\ UNCHANGED <<roundVars, given, gifts, scoreVars, job>>

\* Too few benefits, a second ticket (unique userId, roundId), a crash or any
\* other error: the transaction leaves nothing behind.
RollBackTicket(q) ==
    /\ request[q] # Idle
    /\ request' = [request EXCEPT ![q] = Idle]
    /\ UNCHANGED <<roundVars, benefitVars, ticket, scoreVars, job>>

-----------------------------------------------------------------------------
(* CLOSE: by the scheduled job, or by an admin who wants it scored too.     *)

StartScheduledClose(j, r) ==
    /\ round[r].status = "OPEN"
    /\ due[r]
    /\ Begin(j, [op |-> "close", round |-> r, score |-> FALSE])
    /\ UNCHANGED <<roundVars, benefitVars, ticket, scoreVars, request>>

\* closeRound of RoundAdmin, which goes on to score what it closed.
StartCloseAndScore(j, r) ==
    /\ round[r].status = "OPEN"
    /\ round[r].result # Nothing
    /\ Begin(j, [op |-> "close", round |-> r, score |-> TRUE])
    /\ UNCHANGED <<roundVars, benefitVars, ticket, scoreVars, request>>

CommitClose(j) ==
    /\ job[j].op = "close"
    /\ SetStatus(job[j].round, "CLOSED")
    /\ Continue(j, [job[j] EXCEPT !.op = "zero"])
    /\ UNCHANGED <<due, benefitVars, ticket, scoreVars, request>>

\* The free benefits of the round expire.
ZeroBenefits(j) ==
    /\ job[j].op = "zero"
    /\ LET r == job[j].round
       IN  /\ free' = [u \in Users |->
                         [free[u] EXCEPT ![r] = IF @ = NoRow THEN NoRow ELSE 0]]
           /\ IF job[j].score THEN Continue(j, [op |-> "score", round |-> r]) ELSE End(j)
    /\ UNCHANGED <<roundVars, given, inventory, gifts, ticket, scoreVars, request>>

-----------------------------------------------------------------------------
(* CANCEL                                                                   *)

StartCancel(j, r) ==
    /\ \/ /\ round[r].status = "DRAFT"
          /\ Begin(j, [op |-> "cancel", round |-> r, expire |-> FALSE])
       \/ /\ round[r].status = "OPEN"
          /\ round[r].result = Nothing
          /\ Begin(j, [op |-> "count", round |-> r])
    /\ UNCHANGED <<roundVars, benefitVars, ticket, scoreVars, request>>

CountTickets(j) ==
    /\ job[j].op = "count"
    /\ LET r == job[j].round
       IN  IF \A u \in Users : ticket[u][r] = Nothing
           THEN Continue(j, [op |-> "cancel", round |-> r, expire |-> TRUE])
           ELSE End(j)
    /\ UNCHANGED <<roundVars, benefitVars, ticket, scoreVars, request>>

\* Cancelling an OPEN round also sets closeAt to the present.
CommitCancel(j) ==
    /\ job[j].op = "cancel"
    /\ SetStatus(job[j].round, "CANCELLED")
    /\ due' = [due EXCEPT ![job[j].round] = @ \/ job[j].expire]
    /\ End(j)
    /\ UNCHANGED <<benefitVars, ticket, scoreVars, request>>

-----------------------------------------------------------------------------
(* RESULT                                                                   *)

StartSetResult(j, r, x) ==
    /\ round[r].status \notin {"NONE", "SCORED"}
    /\ Begin(j, [op |-> "result", round |-> r, result |-> x])
    /\ UNCHANGED <<roundVars, benefitVars, ticket, scoreVars, request>>

CommitResult(j) ==
    /\ job[j].op = "result"
    /\ round' = [round EXCEPT ![job[j].round].result = job[j].result]
    /\ End(j)
    /\ UNCHANGED <<due, benefitVars, ticket, scoreVars, request>>

-----------------------------------------------------------------------------
(* SCORE                                                                    *)

\* The transaction reads the round with its tickets; nothing happens unless it
\* is CLOSED and has a result.
CanScore(r) == round[r].status = "CLOSED" /\ round[r].result # Nothing

Scoring(r) ==
    [op |-> "scoring", round |-> r, result |-> round[r].result,
     players |-> {u \in Users : ticket[u][r] # Nothing}]

\* The SCORE_ROUND job, or closeRound of RoundAdmin for a round that is CLOSED.
StartScore(j, r) ==
    /\ CanScore(r)
    /\ Begin(j, Scoring(r))
    /\ UNCHANGED <<roundVars, benefitVars, ticket, scoreVars, request>>

\* closeRound of RoundAdmin, once it has closed the round.
ReadClosedRound(j) ==
    /\ job[j].op = "score"
    /\ IF CanScore(job[j].round) THEN Continue(j, Scoring(job[j].round)) ELSE End(j)
    /\ UNCHANGED <<roundVars, benefitVars, ticket, scoreVars, request>>

\* Fault: the unique index is missing.
HistoryIsWelcome(j) == job[j].players \subseteq Users

\* unique (userId, roundId) of user_score_history.
HistoryIsNew(j) == \A u \in job[j].players : history[u][job[j].round] = Nothing

ScoreOf(j, u) == Points[ticket[u][job[j].round].prediction][job[j].result]

CommitScore(j) ==
    /\ job[j].op = "scoring"
    /\ HistoryIsNew(j)
    /\ LET r == job[j].round
           plays(u) == u \in job[j].players
       IN  /\ scoreTotal' = [u \in Users |->
                IF plays(u) THEN scoreTotal[u] + ScoreOf(j, u) ELSE scoreTotal[u]]
           /\ ticket' = [u \in Users |->
                IF plays(u) THEN [ticket[u] EXCEPT ![r].score = ScoreOf(j, u)] ELSE ticket[u]]
           /\ history' = [u \in Users |->
                IF plays(u)
                THEN [history[u] EXCEPT ![r] = [scoreRound |-> ScoreOf(j, u),
                                                scoreTotal |-> scoreTotal[u] + ScoreOf(j, u)]]
                ELSE history[u]]
           /\ SetStatus(r, "SCORED")
           /\ Continue(j, [op |-> "snapshot", round |-> r])
    /\ UNCHANGED <<due, benefitVars, snapshot, request>>

\* Another scorer was first: the whole transaction goes.
RejectScore(j) ==
    /\ job[j].op = "scoring"
    /\ ~HistoryIsNew(j)
    /\ End(j)
    /\ UNCHANGED <<roundVars, benefitVars, ticket, scoreVars, request>>

ValidRounds(r) == {s \in Rounds : s <= r /\ round[s].status = "SCORED"}

\* Fault: the snapshot takes the user's present total.
PresentTotal(u, r) == scoreTotal[u]

\* The scoreTotal of the user's latest history among the rounds scored up to r.
LatestTotal(u, r) ==
    LET played == {s \in ValidRounds(r) : history[u][s] # Nothing}
    IN  IF played = {} THEN Nothing ELSE history[u][Max(played)].scoreTotal

WriteSnapshot(r) ==
    LET rows == [u \in Users |-> LatestTotal(u, r)]
    IN  snapshot' = IF /\ round[r].status = "SCORED"
                       /\ snapshot[r] = Nothing
                       /\ \E u \in Users : rows[u] # Nothing
                    THEN [snapshot EXCEPT ![r] = rows]
                    ELSE snapshot

TakeSnapshot(j) ==
    /\ job[j].op = "snapshot"
    /\ WriteSnapshot(job[j].round)
    /\ End(j)
    /\ UNCHANGED <<roundVars, benefitVars, ticket, history, scoreTotal, request>>

\* The snapshot job of /internal, on its own.
GenerateSnapshot(r) ==
    /\ round[r].status = "SCORED"
    /\ WriteSnapshot(r)
    /\ UNCHANGED <<roundVars, benefitVars, ticket, history, scoreTotal, request, job>>

\* A crash, a timeout or any other error between two steps of a job.
Crash(j) ==
    /\ job[j] # Idle
    /\ End(j)
    /\ UNCHANGED <<roundVars, benefitVars, ticket, scoreVars, request>>

-----------------------------------------------------------------------------
Start(j, r) ==
    \/ StartOpen(j, r)
    \/ StartGrants(j, r)
    \/ StartScheduledClose(j, r)
    \/ StartCloseAndScore(j, r)
    \/ StartCancel(j, r)
    \/ \E x \in Results : StartSetResult(j, r, x)
    \/ StartScore(j, r)

Work(j) ==
    \/ CommitOpen(j)
    \/ RejectOpen(j)
    \/ \E u \in Users : GrantTo(j, u)
    \/ CommitClose(j)
    \/ ZeroBenefits(j)
    \/ CountTickets(j)
    \/ CommitCancel(j)
    \/ CommitResult(j)
    \/ ReadClosedRound(j)
    \/ CommitScore(j)
    \/ RejectScore(j)
    \/ TakeSnapshot(j)

Submit(q) ==
    \/ \E u \in Users, r \in Rounds, p \in Predictions : StartTicket(q, u, r, p)
    \/ ReadBenefits(q)
    \/ CommitTicket(q)
    \/ RollBackTicket(q)

Next ==
    \/ \E r \in Rounds : CreateRound(r) \/ PassCloseAt(r) \/ GenerateSnapshot(r)
    \/ \E u \in Users, r \in Rounds : CreditFree(u, r)
    \/ \E q \in Requests : Submit(q)
    \/ \E j \in Jobs, r \in Rounds : Start(j, r)
    \/ \E j \in Jobs : Work(j) \/ Crash(j)

Spec == Init /\ [][Next]_vars

-----------------------------------------------------------------------------
(* PROPERTIES                                                               *)

\* At most one round takes predictions, however many admins and schedulers open
\* rounds at once: the read of OpenRoundService alone would not ensure it, the
\* partial unique index does.
OneOpenRound ==
    \A r, s \in Rounds : round[r].status = "OPEN" /\ round[s].status = "OPEN" => r = s

\* What a ticket paid, against what the user was given for the round.
TicketPaid(u, r) ==
    LET left == IF free[u][r] = NoRow THEN 0 ELSE free[u][r]
        t == ticket[u][r]
    IN  IF t = Nothing
        THEN left <= given[u][r]
        ELSE /\ left + t.freeUsed <= given[u][r]
             /\ t.freeUsed + t.inventoryUsed = Demand[t.prediction]

InventoryUsedIn(u, r) == IF ticket[u][r] = Nothing THEN 0 ELSE ticket[u][r].inventoryUsed
InventoryUsedBy(u) == SumFunction([r \in Rounds |-> InventoryUsedIn(u, r)])

\* Benefits are neither lost nor made up: every ticket has paid for exactly the
\* multipliers it carries, a submission that failed has paid nothing, the free
\* benefits used and left never exceed those given, and only tickets empty the
\* inventory (ConsumeBenefitsService inside the transaction of CreateTicket,
\* against the concurrent zeroing of CloseRound and a second submission).
BenefitsAccounted ==
    \A u \in Users :
        /\ inventory[u] + InventoryUsedBy(u) = Stock[u]
        /\ \A r \in Rounds : TicketPaid(u, r)

\* A ticket's score and its history are written together.
TicketScored(u, r) ==
    IF history[u][r] = Nothing
    THEN ticket[u][r] # Nothing => ticket[u][r].score = Nothing
    ELSE ticket[u][r] # Nothing /\ ticket[u][r].score = history[u][r].scoreRound

ScoredIn(u, r) == IF history[u][r] = Nothing THEN 0 ELSE history[u][r].scoreRound
ScoreSum(u) == SumFunction([r \in Rounds |-> ScoredIn(u, r)])

\* Every ticket counts once: a user's total is the sum of the score histories,
\* and a ticket carries a score exactly when its history was written, with the
\* same points, whatever scorers ran for the same round and wherever they
\* crashed (ScoreRoundService.execute).
ScoresAddUp ==
    \A u \in Users :
        /\ scoreTotal[u] = ScoreSum(u)
        /\ \A r \in Rounds : TicketScored(u, r)

\* A snapshot lists a player with a total that the scoring of that round or of an
\* earlier one gave the player, never with one that was rolled back or half done.
SnapshotShowsHistory ==
    \A r \in Rounds, u \in Users :
        snapshot[r] # Nothing /\ snapshot[r][u] # Nothing =>
            \E s \in 1..r : /\ history[u][s] # Nothing
                            /\ history[u][s].scoreTotal = snapshot[r][u]

\* After a round is closed, or even scored, nobody sends a ticket for it any more.
NoTicketAfterClose ==
    [][\A u \in Users, r \in Rounds :
          ticket[u][r] = Nothing /\ ticket'[u][r] # Nothing =>
             round[r].status \notin {"CLOSED", "SCORED"}]_vars

\* The benefits of the user's plan come with every round: once the opening has
\* been through a user, that user has been given at least the grant of the plan.
GrantsComplete ==
    [][\A j \in Jobs, u \in Users :
          (job[j].op = "grant" /\ u \in job[j].todo /\ GrantTo(j, u)) =>
              given'[u][job[j].round] >= Grant[u]]_vars

=============================================================================
