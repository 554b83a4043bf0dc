----------------------------- MODULE Operations -----------------------------
(***************************************************************************)
(* The worker as a process, and what operators see of it: worker.ts with   *)
(* registerBoteco12Schedules, the health server, the provisioning of the   *)
(* month at startup and by schedule under InternalJobRunnerService, the    *)
(* production preflight, and the jobs' part of GetOperationalStatusService. *)
(*                                                                         *)
(* Processes of two releases may run beside each other, restart and die;   *)
(* BullMQ and Redis are external.  Redis keeps its data when it is away    *)
(* (docs/production-deploy.md).  Time goes in steps of half an hour, of    *)
(* which there are less than a day.                                        *)
(***************************************************************************)
EXTENDS Naturals, FiniteSets

CONSTANTS
    Workers,     \* containers of the worker service
    Releases,    \* 1..n
    Schedulers,  \* the ids of schedulers, in the order of their registration: 1..m
    RequiredBy,  \* [Releases -> how many of them a release has]
    Registers,   \* [Workers -> BULLMQ_REGISTER_SCHEDULES]
    JobSources,  \* [Schedulers -> the source that its job provisions the month for, or Other]
    Other,       \* a job that is another's concern
    Reconcile,   \* the source of the startup
    LastTime,    \* bound on the clock, in half hours
    MaxRuns      \* bound on the rows of internal_job_executions

ASSUME OperationsAssumption ==
    /\ Releases \subseteq Nat \ {0} /\ Schedulers \subseteq Nat \ {0}
    /\ 1 \in Releases
    /\ \A s \in Schedulers : 1..s \subseteq Schedulers
    /\ RequiredBy \in [Releases -> Schedulers]
    /\ Registers \in [Workers -> BOOLEAN]
    /\ Reconcile # Other
    /\ LastTime \in 0..47

VARIABLES
    redis,       \* whether Redis answers
    schedulers,  \* the job schedulers that Redis keeps
    queued,      \* jobs that wait, by their scheduler
    worker,      \* what each process is doing
    execution,   \* rows of internal_job_executions of the month
    provisioned, \* the rankings of the month exist
    release,     \* release[s]: the image of each service
    api,         \* the release of the API's container
    migrated,    \* the last release whose migrations are applied
    check,       \* the preflight in progress
    clock

operationVars == <<redis, schedulers, queued, worker, execution, provisioned, release, api,
                   migrated, check, clock>>
fleet == <<release, api, migrated, check>>

Sources == ({Reconcile} \cup {JobSources[s] : s \in Schedulers}) \ {Other}
Off == [pc |-> "off"]
Resting == [step |-> "none"]
Execution == [source : Sources, by : Workers, started : 0..LastTime,
              status : {"RUNNING", "SUCCESS", "FAILED"}]

OperationsTypeOK ==
    /\ redis \in BOOLEAN /\ provisioned \in BOOLEAN
    /\ schedulers \subseteq Schedulers /\ queued \subseteq Schedulers
    /\ execution \subseteq Execution
    /\ clock \in 0..LastTime

OperationsInit ==
    /\ redis = TRUE
    /\ schedulers = {} /\ queued = {}
    /\ worker = [w \in Workers |-> Off]
    /\ execution = {}
    /\ provisioned = FALSE
    /\ release = [s \in {"api", "worker"} |-> 1]
    /\ api = 1
    /\ migrated = 1
    /\ check = Resting
    /\ clock = 0

At(w, pc) == worker[w].pc = pc
Goes(w, next) == worker' = [worker EXCEPT ![w] = next]
Doing(w, step) == ~At(w, "off") /\ worker[w].doing.step = step
AtRest(w) == Doing(w, "none")
JobsOf(w) == IF ~At(w, "off") /\ "job" \in DOMAIN worker[w].doing THEN {worker[w].doing.job} ELSE {}
Turns(w, doing) == worker' = [worker EXCEPT ![w].doing = doing]

-----------------------------------------------------------------------------
(* THE PROCESS                                                              *)

\* main, up to the SELECT 1.  The release is that of the image.
Boot(w) ==
    /\ At(w, "off")
    /\ Goes(w, [pc |-> "connecting", of |-> release["worker"], next |-> 1,
                registered |-> FALSE, unseen |-> FALSE, since |-> 0, doing |-> Resting])
    /\ UNCHANGED <<redis, schedulers, queued, execution, provisioned, fleet, clock>>

\* The flag is raised, and the month is provisioned before anything is served.
Reconciling(w) == [worker[w] EXCEPT !.pc = "reconciling", !.registered = TRUE,
                                    !.doing = [step |-> "look", source |-> Reconcile]]

\* Without BULLMQ_REGISTER_SCHEDULES the flag is raised all the same.
Connected(w) == IF Registers[w] THEN [worker[w] EXCEPT !.pc = "registering"] ELSE Reconciling(w)

Connect(w) ==
    /\ At(w, "connecting")
    /\ Goes(w, Connected(w))
    /\ UNCHANGED <<redis, schedulers, queued, execution, provisioned, fleet, clock>>

\* Fault: the loop does not wait for what it sends.
UpsertUnawaited(w) ==
    /\ At(w, "registering")
    /\ schedulers' = IF redis THEN schedulers \cup {worker[w].next} ELSE schedulers
    /\ Goes(w, IF worker[w].next < RequiredBy[worker[w].of]
               THEN [worker[w] EXCEPT !.next = @ + 1]
               ELSE Reconciling(w))
    /\ UNCHANGED <<redis, queued, execution, provisioned, fleet, clock>>

\* upsertJobScheduler, one after the other; a Redis that is away makes it wait.
Upsert(w) ==
    /\ At(w, "registering")
    /\ redis
    /\ schedulers' = schedulers \cup {worker[w].next}
    /\ Goes(w, IF worker[w].next < RequiredBy[worker[w].of]
               THEN [worker[w] EXCEPT !.next = @ + 1]
               ELSE Reconciling(w))
    /\ UNCHANGED <<redis, queued, execution, provisioned, fleet, clock>>

\* The provisioning at startup has ended, well or not: the worker and the health
\* server are created.
Serve(w) ==
    /\ At(w, "reconciling") /\ AtRest(w)
    /\ Goes(w, [worker[w] EXCEPT !.pc = "serving", !.since = clock])
    /\ UNCHANGED <<redis, schedulers, queued, execution, provisioned, fleet, clock>>

\* SIGTERM: no more jobs are taken, and the health server still answers.
Terminate(w) ==
    /\ At(w, "serving")
    /\ Goes(w, [worker[w] EXCEPT !.pc = "closing"])
    /\ UNCHANGED <<redis, schedulers, queued, execution, provisioned, fleet, clock>>

\* worker.close has waited for the job; the queue, the server and the connections follow.
Exit(w) ==
    /\ At(w, "closing") /\ AtRest(w)
    /\ Goes(w, Off)
    /\ UNCHANGED <<redis, schedulers, queued, execution, provisioned, fleet, clock>>

\* A process dies, or is stopped before it handles signals: BullMQ gives its job to
\* another one.
Kill(w) ==
    /\ ~At(w, "off")
    /\ queued' = queued \cup JobsOf(w)
    /\ Goes(w, Off)
    /\ UNCHANGED <<redis, schedulers, execution, provisioned, fleet, clock>>

\* GET /ready
Ready(w) ==
    /\ worker[w].pc \in {"serving", "closing"}
    /\ redis
    /\ worker[w].registered

-----------------------------------------------------------------------------
(* JOBS                                                                     *)

Due(s) ==
    /\ redis
    /\ s \in schedulers \ queued
    /\ \A w \in Workers : s \notin JobsOf(w)
    /\ queued' = queued \cup {s}
    /\ UNCHANGED <<redis, schedulers, worker, execution, provisioned, fleet, clock>>

\* processBoteco12Job: a name that the release does not know is an error, and the
\* attempts of the job are used up.
Routable(w, s) == s <= RequiredBy[worker[w].of]

Take(w, s) ==
    /\ At(w, "serving") /\ AtRest(w)
    /\ redis
    /\ s \in queued
    /\ queued' = queued \ {s}
    /\ IF Routable(w, s) /\ JobSources[s] # Other
       THEN Turns(w, [step |-> "look", source |-> JobSources[s], job |-> s])
       ELSE UNCHANGED worker
    /\ UNCHANGED <<redis, schedulers, execution, provisioned, fleet, clock>>

Running(source) == \E x \in execution : x.source = source /\ x.status = "RUNNING"
Own(w) == {x \in execution : /\ x.by = w /\ x.source = worker[w].doing.source
                             /\ x.status = "RUNNING"}

\* InternalJobRunnerService with allowRepeat: a RUNNING row refuses the run.
Look(w) ==
    /\ Doing(w, "look")
    /\ Turns(w, IF Running(worker[w].doing.source) THEN Resting
               ELSE [worker[w].doing EXCEPT !.step = "create"])
    /\ UNCHANGED <<redis, schedulers, queued, execution, provisioned, fleet, clock>>

CreateExecution(w) ==
    /\ Doing(w, "create")
    /\ Cardinality(execution) < MaxRuns
    /\ execution' = execution \cup {[source |-> worker[w].doing.source, by |-> w,
                                     started |-> clock, status |-> "RUNNING"]}
    /\ Turns(w, [worker[w].doing EXCEPT !.step = "run"])
    /\ UNCHANGED <<redis, schedulers, queued, provisioned, fleet, clock>>

\* EnsureMonthlyRankingsService commits, or throws.
RunEnsure(w) ==
    /\ Doing(w, "run")
    /\ \/ provisioned' = TRUE /\ Turns(w, [worker[w].doing EXCEPT !.step = "succeed"])
       \/ UNCHANGED provisioned /\ Turns(w, [worker[w].doing EXCEPT !.step = "fail"])
    /\ UNCHANGED <<redis, schedulers, queued, execution, fleet, clock>>

\* A run whose end cannot be recorded is recorded as a failure.
FinishExecution(w) ==
    /\ Doing(w, "succeed") \/ Doing(w, "fail")
    /\ \E status \in IF Doing(w, "succeed") THEN {"SUCCESS", "FAILED"} ELSE {"FAILED"} :
         execution' = (execution \ Own(w)) \cup {[x EXCEPT !.status = status] : x \in Own(w)}
    /\ Turns(w, Resting)
    /\ UNCHANGED <<redis, schedulers, queued, provisioned, fleet, clock>>

\* The database refuses a statement: before the row there is no trace of it, after it
\* the row stays as it is.
LoseDatabase(w) ==
    /\ ~At(w, "off") /\ ~AtRest(w)
    /\ Goes(w, [worker[w] EXCEPT !.doing = Resting,
                                 !.unseen = @ \/ worker[w].doing.step \in {"look", "create"}])
    /\ UNCHANGED <<redis, schedulers, queued, execution, provisioned, fleet, clock>>

RedisFails == /\ redis' = ~redis
              /\ UNCHANGED <<schedulers, queued, worker, execution, provisioned, fleet, clock>>

-----------------------------------------------------------------------------
(* RELEASES AND THE PREFLIGHT                                               *)

Build(service) ==
    /\ release[service] + 1 \in Releases
    /\ release' = [release EXCEPT ![service] = @ + 1]
    /\ UNCHANGED <<redis, schedulers, queued, worker, execution, provisioned, api, migrated,
                   check, clock>>

ReplaceApi ==
    /\ api' = release["api"]
    /\ UNCHANGED <<redis, schedulers, queued, worker, execution, provisioned, release, migrated,
                   check, clock>>

Migrate ==
    /\ migrated' = api
    /\ migrated < api
    /\ UNCHANGED <<redis, schedulers, queued, worker, execution, provisioned, release, api,
                   check, clock>>

Unanswered == [api |-> 0, worker |-> 0]

\* main: the first container that Docker lists for the worker.
StartPreflight(w) ==
    /\ check.step # "ask"
    /\ ~At(w, "off")
    /\ check' = [step |-> "ask", container |-> w, answers |-> Unanswered, ok |-> TRUE]
    /\ UNCHANGED <<redis, schedulers, queued, worker, execution, provisioned, release, api,
                   migrated, clock>>

\* apiPreflightSource in the API's container: health, and prisma migrate status.
AskApi ==
    /\ check.step = "ask" /\ check.answers.api = 0
    /\ check' = [check EXCEPT !.answers.api = api, !.ok = @ /\ redis /\ migrated >= api]
    /\ UNCHANGED <<redis, schedulers, queued, worker, execution, provisioned, release, api,
                   migrated, clock>>

\* workerPreflightSource in the worker's container.
AskWorker ==
    /\ check.step = "ask" /\ check.answers.worker = 0
    /\ check' = IF At(check.container, "off") THEN Resting
                ELSE [check EXCEPT !.answers.worker = worker[check.container].of,
                                   !.ok = @ /\ Ready(check.container)]
    /\ UNCHANGED <<redis, schedulers, queued, worker, execution, provisioned, release, api,
                   migrated, clock>>

\* The two ran at once; releaseConsistency and all checks.
Conclude ==
    /\ check.step = "ask" /\ 0 \notin {check.answers.api, check.answers.worker}
    /\ check' = IF check.ok /\ check.answers.api = check.answers.worker
                THEN [step |-> "ready", of |-> check.answers.api, registers |-> Registers[check.container]]
                ELSE Resting
    /\ UNCHANGED <<redis, schedulers, queued, worker, execution, provisioned, release, api,
                   migrated, clock>>

-----------------------------------------------------------------------------
(* THE OPERATIONAL STATUS                                                   *)

FailedLately == \E x \in execution : x.status = "FAILED"
StuckOver30m == \E x \in execution : x.status = "RUNNING" /\ x.started + 1 < clock
Status == IF FailedLately \/ StuckOver30m THEN "CRITICAL" ELSE "OK"

PassTime ==
    /\ clock < LastTime
    /\ clock' = clock + 1
    /\ UNCHANGED <<redis, schedulers, queued, worker, execution, provisioned, fleet>>

ProcessNext ==
    \/ \E w \in Workers : \/ Boot(w) \/ Connect(w) \/ Upsert(w) \/ Serve(w) \/ Terminate(w)
                          \/ Exit(w) \/ Kill(w) \/ LoseDatabase(w)
    \/ RedisFails

JobsNext ==
    \/ \E w \in Workers : \/ Look(w) \/ CreateExecution(w) \/ RunEnsure(w) \/ FinishExecution(w)
                          \/ \E s \in Schedulers : Take(w, s)
    \/ \E s \in Schedulers : Due(s)
    \/ PassTime

ReleasesNext ==
    \/ \E w \in Workers : StartPreflight(w)
    \/ \E service \in {"api", "worker"} : Build(service)
    \/ ReplaceApi \/ Migrate \/ AskApi \/ AskWorker \/ Conclude

OperationsNext == ProcessNext \/ JobsNext \/ ReleasesNext

-----------------------------------------------------------------------------
(* PROPERTIES                                                               *)

RequiredOf(r) == {s \in Schedulers : s <= RequiredBy[r]}

PreflightIsTrue ==
    check.step = "ready" =>
        /\ migrated >= check.of
        /\ check.registers => RequiredOf(check.of) \subseteq schedulers

StatusTellsTheMonth ==
    \A w \in Workers :
        At(w, "serving") /\ worker[w].since + 1 < clock /\ ~worker[w].unseen
            => provisioned \/ Status = "CRITICAL"

\* What operators are told is true.  When the preflight says "ready", the database has
\* the migrations of the release it saw and Redis every schedule of it, and that stays
\* so, though processes restart and Redis goes away between the questions.  When a
\* worker has served for more than half an hour, the month exists or the operational
\* status is critical, whatever died, was refused as already running or lost the
\* database meanwhile; only a run that was refused before its row leaves no trace.
OperatorsAreTold == PreflightIsTrue /\ StatusTellsTheMonth

OperationsSpec == OperationsInit /\ [][OperationsNext]_operationVars
=============================================================================
