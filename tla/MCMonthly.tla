------------------------------ MODULE MCMonthly ------------------------------
(* Small instances of Monthly: the reference round, one more round, and one   *)
(* that closes when the month is over.                                        *)
EXTENDS Monthly, TLC

MCCreated == [u \in Users |-> -1 + u]
MCOpenAt == [r \in Rounds |-> r - 1]
MCCloseAt == [r \in Rounds |-> r]

\* Player 1 pays before the reference round closes and when that period is over;
\* player 2 when it is closed.
MCPayAt == [u \in Users |-> IF u = 1 THEN {0, 2} ELSE {1}]

\* Player 2 does not play the reference round.
MCPoints == [u \in Users |-> [r \in Rounds |-> IF u = 2 /\ r = 1 THEN Null ELSE 1]]

\* The third round was created last and is played before the second one, which closes
\* in the next month.
MCOpenAtMixed == <<0, 2, 1>>
MCCloseAtMixed == <<1, 3, 2>>

MCSymmetry == Permutations(Jobs)
=============================================================================
