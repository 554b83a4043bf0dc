------------------------------- MODULE Scoring -------------------------------
(***************************************************************************)
(* From a ticket to a place in a ranking: CalculateTicketScoreService, the *)
(* histories that the scoring of a round writes, the weekly and half-year  *)
(* rankings that BuildPeriodRankingFromHistoryService reads from them, and *)
(* RankingTiebreakService.rank.                                            *)
(***************************************************************************)
EXTENDS Prizes, SequencesExt

-----------------------------------------------------------------------------
(* TICKETS: sequences of predictions, results and multipliers, one for each *)
(* match.  The result "C" is a match that did not count.                    *)

Multipliers == {1, 2, 4}

Counted(result) == {i \in DOMAIN result : result[i] # "C"}

\* detail.
Detail(prediction, result, multiplier) ==
    LET hit == {i \in Counted(result) : prediction[i] = result[i]}
        miss == Counted(result) \ hit
        Among(matches, m) == Cardinality({i \in matches : multiplier[i] = m})
    IN  [doubles |-> Among(hit, 2),
         supers |-> Among(hit, 4),
         total |-> Cardinality(hit) + Among(hit, 2) + 3 * Among(hit, 4)
                     - 2 * Among(miss, 2) - 4 * Among(miss, 4)]

-----------------------------------------------------------------------------
(* PERIODS: history is a set of [user, round, closeAt, score, doubles,      *)
(* supers], one row for each player of a SCORED round; doubles and supers   *)
(* are the player's totals up to it.                                        *)

Latest(rows) == CHOOSE h \in rows : \A g \in rows : g.round <= h.round

Window(history, start, end) == {h \in history : h.closeAt >= start /\ h.closeAt < end}

\* Fault: what closes as the period begins is before it and in it.
BeforeOrAt(history, start) == {h \in history : h.closeAt <= start}

Before(history, start) == {h \in history : h.closeAt < start}

\* One row for each player of the period: the points of its rounds, and the hits
\* ("doubles" or "supers") gained since the last round before it.
PeriodRows(history, start, end) ==
    LET window == Window(history, start, end)
        Of(u, rows) == {h \in rows : h.user = u}
        points == [h \in window |-> h.score]
        Gained(u, hits) ==
            LET before == Of(u, Before(history, start))
            IN  Latest(Of(u, window))[hits] - (IF before = {} THEN 0 ELSE Latest(before)[hits])
    IN  [u \in {h.user : h \in window} |->
            [score |-> SumFunctionOnSet(points, Of(u, window)),
             doubles |-> Gained(u, "doubles"),
             supers |-> Gained(u, "supers")]]

-----------------------------------------------------------------------------
(* POSITIONS                                                                *)

\* compare: players that are equal come by their ids.
Precedes(metrics, u, v) ==
    \/ Better(metrics[u], metrics[v])
    \/ ~Better(metrics[v], metrics[u]) /\ u < v

\* The players from best to worst.
Sorted(metrics) ==
    LET place == [u \in DOMAIN metrics |->
                    1 + Cardinality({v \in DOMAIN metrics : Precedes(metrics, v, u)})]
    IN  [i \in 1..Cardinality(DOMAIN metrics) |-> CHOOSE u \in DOMAIN metrics : place[u] = i]

SameOfficialPosition(a, b) == a = b

Skipping(position, place) == place

\* rank: going down the rows, a player that is not equal to the one above takes
\* the number of the row as position.
Rank(metrics) ==
    LET sorted == Sorted(metrics)
        at[i \in DOMAIN sorted] ==
            IF i = 1 THEN 1
            ELSE IF SameOfficialPosition(metrics[sorted[i]], metrics[sorted[i - 1]]) THEN at[i - 1]
            ELSE Skipping(at[i - 1], i)
    IN  [u \in DOMAIN metrics |-> at[CHOOSE i \in DOMAIN sorted : sorted[i] = u]]

=============================================================================
