------------------------------- MODULE MCWallet -------------------------------
(* A small instance of Wallet for TLC, two packages of one benefit type, and   *)
(* one of Operations beside it: a behaviour moves coins, brings out releases,  *)
(* or runs the worker's jobs for an hour and more.                             *)
EXTENDS Wallet, Operations, TLC

CONSTANTS single, combo, double, r1, r2, w1, schedule

VARIABLE about    \* which of the three a behaviour is one of

MCPackages == {single, combo}
MCPackageType == single :> double @@ combo :> double
MCCost == single :> 1 @@ combo :> 2
MCQuantity == single :> 1 @@ combo :> 3

\* The first release has one schedule, the next has two; one worker registers them.
MCRequiredBy == <<1, 2>>
MCRegisters == [w \in Workers |-> w = w1]
MCJobSources == <<schedule, Other>>

MCInit == Init /\ OperationsInit /\ about \in {"coins", "releases", "jobs"}

Move == about = "coins" /\ UNCHANGED <<about, operationVars>>
Deploy == about = "releases" /\ UNCHANGED <<about, vars>>
\* Redis answers and no one stops the workers while jobs run: they may still die.
Work == about = "jobs" /\ UNCHANGED <<about, vars>>
Either == about \in {"releases", "jobs"} /\ UNCHANGED <<about, vars>>

MCNext ==
    \/ \E u \in Users, a \in Amounts : Move /\ AddCoins(u, a)
    \/ \E u \in Users, t \in Types, a \in Amounts : Move /\ CreditPaid(u, t, a)
    \/ \E r \in Requests : Move /\ Handle(r)
    \/ \E w \in Workers :
         \/ Either /\ Boot(w)
         \/ Either /\ Connect(w)
         \/ Either /\ Upsert(w)
         \/ Either /\ Serve(w)
         \/ Deploy /\ Terminate(w)
         \/ Deploy /\ Exit(w)
         \/ Either /\ Kill(w)
         \/ Either /\ LoseDatabase(w)
         \/ Deploy /\ StartPreflight(w)
         \/ Work /\ Look(w)
         \/ Work /\ CreateExecution(w)
         \/ Work /\ RunEnsure(w)
         \/ Work /\ FinishExecution(w)
         \/ \E s \in Schedulers : Work /\ Take(w, s)
    \/ \E s \in Schedulers : Work /\ Due(s)
    \/ Work /\ PassTime
    \/ \E service \in {"api", "worker"} : Deploy /\ Build(service)
    \/ Deploy /\ RedisFails
    \/ Deploy /\ ReplaceApi
    \/ Deploy /\ Migrate
    \/ Deploy /\ AskApi
    \/ Deploy /\ AskWorker
    \/ Deploy /\ Conclude

MCSpec == MCInit /\ [][MCNext]_<<vars, operationVars, about>>
=============================================================================
