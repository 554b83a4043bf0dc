------------------------------- MODULE MCRounds -------------------------------
(* A small instance of Rounds: one kind of ticket that needs two benefits,   *)
(* one of which the plan gives for free, and two results.                    *)
EXTENDS Rounds, TLC

CONSTANTS bet, home, away, Doubled, PlanGrant

MCDemand == bet :> Doubled
MCPoints == bet :> [x \in Results |-> IF x = home THEN 2 ELSE -1]
MCGrant == [u \in Users |-> PlanGrant]
MCStock == [u \in Users |-> 2]

\* Jobs and submissions are interchangeable; the runs check invariants only.
MCSymmetry == Permutations(Jobs) \cup Permutations(Requests)
=============================================================================
