----------------------------- MODULE MCRoundJobs -----------------------------
(* A small instance of RoundJobs: no tickets, one user, two rounds.          *)
EXTENDS RoundJobs, TLC

CONSTANTS bet, home

MCDemand == bet :> 0
MCPoints == bet :> (home :> 1)
MCGrant == [u \in Users |-> 1]
MCStock == [u \in Users |-> 0]
=============================================================================
