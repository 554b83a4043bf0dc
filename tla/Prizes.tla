-------------------------------- MODULE Prizes --------------------------------
(***************************************************************************)
(* The arithmetic of a Mesa: BolaoPrizeService, and the order of its       *)
(* players, RankingTiebreakService.  Everything is a function of its       *)
(* arguments; the code's floating point is written here as the exact       *)
(* fractions it stands for.                                                *)
(***************************************************************************)
EXTENDS Integers, Sequences, FiniteSetsExt

\* calculatePool: the platform keeps a tenth, rounded down.
PlatformFee(gross) == gross \div 10
PrizePool(gross) == gross - PlatformFee(gross)

\* validateDistribution: percentage[i] belongs to position i; position numbers
\* that are not 1, 2, ... in this order are refused, so a sequence is enough.
ValidDistribution(percentage) ==
    /\ percentage # <<>>
    /\ \A i \in DOMAIN percentage : percentage[i] > 0
    /\ SumFunction(percentage) = 100

-----------------------------------------------------------------------------
(* RANKING: metrics is [players -> [score, superDoubles, doubles, created]] *)

\* compare, without the final userId that only makes the sort stable.
Better(a, b) ==
    \/ a.score > b.score
    \/ a.score = b.score /\ a.superDoubles > b.superDoubles
    \/ a.score = b.score /\ a.superDoubles = b.superDoubles /\ a.doubles > b.doubles
    \/ /\ a.score = b.score /\ a.superDoubles = b.superDoubles /\ a.doubles = b.doubles
       /\ a.created < b.created

\* rank: players with the same metrics share a position, the next ones skip.
Position(metrics) ==
    [u \in DOMAIN metrics |->
        1 + Cardinality({v \in DOMAIN metrics : Better(metrics[v], metrics[u])})]

-----------------------------------------------------------------------------
(* PAYOUTS: position is [players -> Nat], order the players' place in the   *)
(* sorted rows, which no two of them share.                                 *)

Tied(u, position) == {v \in DOMAIN position : position[v] = position[u]}

\* The percentages of all the positions that a group of tied players occupies.
GroupPercentage(u, position, percentage) ==
    LET last == position[u] + Cardinality(Tied(u, position)) - 1
    IN  SumFunctionOnSet(percentage, DOMAIN percentage \cap (position[u] .. last))

\* weightedRows: the players of the groups that win something, with the fraction
\* numerator / parts of 100% that is each one's weight.
Weights(position, percentage) ==
    LET numerator == [u \in DOMAIN position |-> GroupPercentage(u, position, percentage)]
    IN  [u \in {v \in DOMAIN position : numerator[v] > 0} |->
            [numerator |-> numerator[u], parts |-> Cardinality(Tied(u, position))]]

\* A winner's exact share of the pool, as a fraction.  The weights of a group add
\* up to its percentage, totalWeight to the percentages of all the groups.
Shares(pool, weight, position) ==
    LET groups == {position[u] : u \in DOMAIN weight}
        ofGroup == [p \in groups |->
                      weight[CHOOSE u \in DOMAIN weight : position[u] = p].numerator]
        total == SumFunction(ofGroup)
    IN  [u \in DOMAIN weight |-> [dividend |-> pool * weight[u].numerator,
                                  divisor |-> weight[u].parts * total]]

Whole(share) == share.dividend \div share.divisor

\* The fraction that rounding share down leaves, against that of another one.
MoreLeft(a, b) ==
    (a.dividend % a.divisor) * b.divisor > (b.dividend % b.divisor) * a.divisor

\* Fault: shares are rounded down and the coins left over go to nobody.
RoundedDown(pool, share, order) == [u \in DOMAIN share |-> Whole(share[u])]

\* Shares rounded down, then one more coin each, in the order of the remainders,
\* until the pool is used up.
Allocate(pool, share, order) ==
    LET left == pool - SumFunction([u \in DOMAIN share |-> Whole(share[u])])
        First(u, v) == \/ MoreLeft(share[u], share[v])
                       \/ ~MoreLeft(share[v], share[u]) /\ order[u] < order[v]
        place == [u \in DOMAIN share |-> Cardinality({v \in DOMAIN share : First(v, u)})]
    IN  [u \in DOMAIN share |-> Whole(share[u]) + (IF place[u] < left THEN 1 ELSE 0)]

\* calculatePayouts.
Payouts(pool, percentage, position, order) ==
    IF pool <= 0 THEN [u \in {} |-> 0]
    ELSE Allocate(pool, Shares(pool, Weights(position, percentage), position), order)

=============================================================================
