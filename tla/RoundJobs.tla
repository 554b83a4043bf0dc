------------------------------ MODULE RoundJobs ------------------------------
(***************************************************************************)
(* The scheduled opening and closing of rounds: OpenScheduledRounds,       *)
(* CloseScheduledRounds and the InternalJobRunner they run under, composed *)
(* with the round operations of Rounds.  Several deliveries of the same    *)
(* sweep may be in progress: the BullMQ worker, the internal endpoint that *)
(* cron used to call and operators still use for recovery, and replicas of *)
(* either.                                                                 *)
(***************************************************************************)
EXTENDS Rounds

CONSTANTS
    Operator,    \* the process of an operator's script, which no scheduler sweeps with
    MaxFaults    \* bound on runs that throw and on processes that die

ASSUME BoundAssumption == MaxFaults \in Nat /\ Operator \in Jobs

VARIABLES
    executions,  \* internal_job_executions that are RUNNING or SUCCESS; no lookup tells
                 \* rows apart that are alike, so they count once
    delivery,    \* what each delivery of a sweep is doing
    faults       \* runs that threw and processes that died so far

runnerVars == <<executions, delivery, faults>>
allVars == <<vars, runnerVars>>

Open == "OPEN_SCHEDULED_ROUND"
Close == "CLOSE_ROUND_PREDICTIONS"
Names == {Open, Close}

\* FAILED rows are left out: no lookup asks for them.
Execution == [status : {"RUNNING", "SUCCESS"}, by : Jobs \cup {Nothing}]
Resting == [pc |-> "resting"]
Delivery == [pc : {"lookup", "create", "run", "work", "done", "failed"},
             name : Names, ref : Rounds]

JobsTypeOK ==
    /\ TypeOK
    /\ executions \in [Names -> [Rounds -> SUBSET Execution]]
    /\ delivery \in [Jobs -> {Resting} \cup Delivery]
    /\ faults \in 0..MaxFaults

JobsInit ==
    /\ Init
    /\ executions = [n \in Names |-> [r \in Rounds |-> {}]]
    /\ delivery = [d \in Jobs |-> Resting]
    /\ faults = 0

Goto(d, pc) == delivery' = [delivery EXCEPT ![d].pc = pc]
Rest(d) == delivery' = [delivery EXCEPT ![d] = Resting]
Of(d) == executions[delivery[d].name][delivery[d].ref]
Mine(d) == [status |-> "RUNNING", by |-> d]
Success == [status |-> "SUCCESS", by |-> Nothing]

-----------------------------------------------------------------------------
(* THE SWEEPS                                                               *)

\* The draft whose openAt has come (admins give rounds any openAt), unless a
\* round is open already.
SweepOpen(d, r) ==
    /\ delivery[d] = Resting
    /\ \A s \in Rounds : round[s].status # "OPEN"
    /\ round[r].status = "DRAFT"
    /\ delivery' = [delivery EXCEPT ![d] = [pc |-> "lookup", name |-> Open, ref |-> r]]
    /\ UNCHANGED <<vars, executions, faults>>

\* The open rounds past closeAt: there is at most one (OneOpenRound).
SweepClose(d, r) ==
    /\ delivery[d] = Resting
    /\ round[r].status = "OPEN"
    /\ due[r]
    /\ delivery' = [delivery EXCEPT ![d] = [pc |-> "lookup", name |-> Close, ref |-> r]]
    /\ UNCHANGED <<vars, executions, faults>>

-----------------------------------------------------------------------------
(* THE RUNNER: look for an execution, then create one, then run.            *)

\* The newest one decides: RUNNING throws and SUCCESS answers IDEMPOTENT, and
\* either way this delivery is over.
FindFirst(d) ==
    /\ delivery[d].pc = "lookup"
    /\ IF Of(d) = {} THEN Goto(d, "create") ELSE Rest(d)
    /\ UNCHANGED <<vars, executions, faults>>

CreateExecution(d) ==
    /\ delivery[d].pc = "create"
    /\ executions' = [executions EXCEPT ![delivery[d].name][delivery[d].ref] =
                        @ \cup {Mine(d)}]
    /\ Goto(d, "run")
    /\ UNCHANGED <<vars, faults>>

StartRound(d) ==
    IF delivery[d].name = Open
    THEN StartOpen(d, delivery[d].ref) \/ StartGrants(d, delivery[d].ref)
    ELSE StartScheduledClose(d, delivery[d].ref)

\* The round operation's own checks.
Run(d) ==
    /\ delivery[d].pc = "run"
    /\ StartRound(d)
    /\ Goto(d, "work")
    /\ UNCHANGED <<executions, faults>>

\* What OpenRoundService and CloseRoundService accept at the moment of their read.
CanStart(d) ==
    LET r == delivery[d].ref
    IN  IF delivery[d].name = Open
        THEN \/ round[r].status = "OPEN"
             \/ round[r].status = "DRAFT" /\ \A s \in Rounds \ {r} : round[s].status # "OPEN"
        ELSE round[r].status = "OPEN"

Refuse(d) ==
    /\ delivery[d].pc = "run"
    /\ ~CanStart(d)
    /\ Goto(d, "failed")
    /\ UNCHANGED <<vars, executions, faults>>

WorkOn(d) ==
    /\ delivery[d].pc = "work"
    /\ Work(d)
    /\ IF job'[d] # Idle
       THEN UNCHANGED delivery
       ELSE Goto(d, IF job[d].op = "open" THEN "failed" ELSE "done")
    /\ UNCHANGED <<executions, faults>>

\* Fault: the run swallows its error, and the runner takes it for a success.
ThrowSwallowed(d) ==
    /\ delivery[d].pc \in {"run", "work"}
    /\ faults < MaxFaults
    /\ faults' = faults + 1
    /\ job' = [job EXCEPT ![d] = Idle]
    /\ Goto(d, "done")
    /\ UNCHANGED <<roundVars, benefitVars, ticket, scoreVars, request, executions>>

\* The run throws; the transaction that was open, if any, rolls back.
Throw(d) ==
    /\ delivery[d].pc \in {"run", "work"}
    /\ faults < MaxFaults
    /\ faults' = faults + 1
    /\ job' = [job EXCEPT ![d] = Idle]
    /\ Goto(d, "failed")
    /\ UNCHANGED <<roundVars, benefitVars, ticket, scoreVars, request, executions>>

\* Fault: the error path does not update the execution.
FinishForgetful(d) ==
    /\ delivery[d].pc \in {"done", "failed"}
    /\ executions' = [executions EXCEPT ![delivery[d].name][delivery[d].ref] =
                        IF delivery[d].pc = "done" THEN (@ \ {Mine(d)}) \cup {Success} ELSE @]
    /\ Rest(d)
    /\ UNCHANGED <<vars, faults>>

\* The runner's update by the id of the execution it created.
Finish(d) ==
    /\ delivery[d].pc \in {"done", "failed"}
    /\ executions' = [executions EXCEPT ![delivery[d].name][delivery[d].ref] =
                        (@ \ {Mine(d)}) \cup (IF delivery[d].pc = "done" THEN {Success} ELSE {})]
    /\ Rest(d)
    /\ UNCHANGED <<vars, faults>>

\* The process dies: its execution stays RUNNING and nobody will ever update it.
Die(d) ==
    /\ delivery[d] # Resting
    /\ faults < MaxFaults
    /\ faults' = faults + 1
    /\ executions' = [n \in Names |-> [r \in Rounds |->
                        {IF e.by = d THEN [e EXCEPT !.by = Nothing] ELSE e :
                             e \in executions[n][r]}]]
    /\ job' = [job EXCEPT ![d] = Idle]
    /\ Rest(d)
    /\ UNCHANGED <<roundVars, benefitVars, ticket, scoreVars, request>>

-----------------------------------------------------------------------------
(* regrant-open-round-benefits.js: the operator's way out when a sweep that *)
(* opened a round did not finish its grants.                               *)

\* The open round, and the users of that moment.
Regrant(r) ==
    /\ faults > 0    \* operators run it after a failure (a bound)
    /\ StartGrants(Operator, r)
    /\ UNCHANGED runnerVars

RegrantTo(u) == GrantTo(Operator, u) /\ UNCHANGED runnerVars

RegrantStops == Crash(Operator) /\ UNCHANGED runnerVars

Script == RegrantStops \/ (\E r \in Rounds : Regrant(r)) \/ (\E u \in Users : RegrantTo(u))

-----------------------------------------------------------------------------
Schedulers == Jobs \ {Operator}

Sweep(d) == \E r \in Rounds : SweepOpen(d, r) \/ SweepClose(d, r)

Deliver(d) ==
    \/ FindFirst(d)
    \/ CreateExecution(d)
    \/ Run(d)
    \/ Refuse(d)
    \/ WorkOn(d)
    \/ Finish(d)

Calendar(r) == (CreateRound(r) \/ PassCloseAt(r)) /\ UNCHANGED runnerVars

JobsNext ==
    \/ \E r \in Rounds : Calendar(r)
    \/ \E d \in Schedulers : Sweep(d) \/ Deliver(d) \/ Throw(d) \/ Die(d)
    \/ Script

JobsSpec == JobsInit /\ [][JobsNext]_allVars

\* The schedulers sweep every minute, a delivery in progress goes on, and the
\* clock reaches every closeAt.
JobsFairness ==
    /\ \A d \in Schedulers : WF_allVars(Deliver(d))
    /\ WF_allVars(\E d \in Schedulers : Sweep(d))
    /\ \A r \in Rounds : WF_allVars(PassCloseAt(r) /\ UNCHANGED runnerVars)

FairJobsSpec == JobsSpec /\ JobsFairness

-----------------------------------------------------------------------------
(* PROPERTIES                                                               *)

Succeeded(n, r) == \E e \in executions[n][r] : e.status = "SUCCESS"

\* An IDEMPOTENT answer about the opening is never given for work that was not
\* done: when an execution succeeded, the round was opened and every user has the
\* benefits of the round, whichever of the overlapping deliveries got how far; and
\* what an operator's regrant has passed, it has granted.
OpenSuccessMeansGranted ==
    /\ \A r \in Rounds :
        Succeeded(Open, r) => /\ round[r].status \notin {"NONE", "DRAFT"}
                              /\ \A u \in Users : free[u][r] # NoRow
    /\ job[Operator] # Idle =>
        \A u \in Users \ job[Operator].todo : free[u][job[Operator].round] # NoRow

\* An execution nobody will finish.  The operational status counts it after 30
\* minutes, and only a person can remove it.
Stuck ==
    \E n \in Names, r \in Rounds : \E e \in executions[n][r] :
        e.status = "RUNNING" /\ e.by = Nothing

\* A stale opening has reopened a round whose closing already succeeded: every
\* later sweep finds the SUCCESS and answers IDEMPOTENT.
Reopened == \E r \in Rounds : round[r].status = "OPEN" /\ Succeeded(Close, r)

\* Every round is opened and closed in the end, through runs that throw and
\* deliveries that overlap, unless a process died with its execution RUNNING or
\* a stale opening came after the closing: nothing else stops the calendar.
EveryRoundIsPlayed ==
    \A r \in Rounds :
        round[r].status = "DRAFT" ~> (round[r].status = "CLOSED" \/ Stuck \/ Reopened)

\* A round past its closeAt does not stay open, as long as no process dies.
DueRoundsClose ==
    \A r \in Rounds :
        (round[r].status = "OPEN" /\ due[r]) ~> (round[r].status # "OPEN" \/ Stuck)

\* A round that is open has given its benefits to every user in the end, unless
\* it is closed first, or the run that opened it threw or died before the grants:
\* no later sweep looks at a round that is open already.
GrantsArrive ==
    \A u \in Users, r \in Rounds :
        round[r].status = "OPEN"
            ~> \/ free[u][r] # NoRow
               \/ round[r].status # "OPEN"
               \/ faults > 0

=============================================================================
