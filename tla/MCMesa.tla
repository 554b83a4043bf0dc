-------------------------------- MODULE MCMesa --------------------------------
(* Small instances of Mesa: purses that pay for one entry, rounds that close *)
(* one after the other, and Mesas of every kind.                             *)
EXTENDS MesaViews, TLC

MCStake == [u \in Users |-> IF u = 3 THEN 4 ELSE 5]
MCCreated == [u \in Users |-> IF u = 3 THEN 2 ELSE 1]
MCCloseAt == [r \in Rounds |-> r]
EarlyCloseAt == [r \in Rounds |-> r - 1]

\* Player 1 leads after round 1, player 2 is best in round 2, player 3 plays late.
MCPoints == [u \in Users |-> [r \in Rounds |->
    CASE u = 1 -> IF r = 1 THEN 3 ELSE 1
      [] u = 2 -> IF r = 2 THEN 2 ELSE 1
      [] OTHER -> IF r = 3 THEN 1 ELSE Null]]

\* Nobody plays round 1.
MCNoPointsFirst == [u \in Users |-> [r \in Rounds |-> IF r = 1 THEN Null ELSE MCPoints[u][r]]]

\* A paid Mesa of two places that lasts one round.
Duel == [category |-> "PAID", cap |-> 2, cost |-> 5, sponsor |-> 0, rounds |-> 1,
         start |-> 0, entryEnd |-> Null, end |-> Null, distribution |-> <<60, 40>>,
         eligibility |-> "ALL"]
TomorrowDuel == [Duel EXCEPT !.start = 1]
DearDuel == [TomorrowDuel EXCEPT !.cost = 9]    \* nobody can pay for it
LongerDuel == [Duel EXCEPT !.cap = 3]
CheapDuel == [Duel EXCEPT !.cost = 2]

\* A sponsored one whose entries are paid too, until a date, for subscribers.
Gala == [category |-> "SPONSORED_FREE", cap |-> Null, cost |-> 2, sponsor |-> 4, rounds |-> Null,
         start |-> 0, entryEnd |-> 1, end |-> 2, distribution |-> <<100>>,
         eligibility |-> "SUBSCRIBERS_ONLY"]

\* A free one for who is no subscriber, whose entries close by date.
Friendly == [category |-> "FREE", cap |-> Null, cost |-> 0, sponsor |-> 0, rounds |-> 1,
             start |-> 0, entryEnd |-> 1, end |-> Null, distribution |-> <<>>,
             eligibility |-> "FREE_ONLY"]

OnlyDuel == {Duel}
TomorrowTerms == {TomorrowDuel, DearDuel}
AllTerms == {Duel, Gala, Friendly}
EditedTerms == {LongerDuel, CheapDuel}

\* Requests are interchangeable; for the run without liveness.
MCSymmetry == Permutations(Requests)
=============================================================================
