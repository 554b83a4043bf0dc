-------------------------------- MODULE Rules --------------------------------
(***************************************************************************)
(* The rules that are arithmetic, each checked against what it means on    *)
(* every small input.  A behaviour poses one question and stops.           *)
(***************************************************************************)
EXTENDS Scoring, Calendar, Discovery, TLC

CONSTANTS
    Players,       \* integers: users by the order of their ids
    Measures,      \* what score, hits and age are taken from
    Distributions, \* sequences of percentages
    Gross,         \* coins collected by a Mesa
    Seasons,       \* sets of sequences: for each round its tickets' [result, multiplier]
    Dates,
    Zones,
    MatchTimes,    \* sets of hours
    Hours,         \* what an administrator sets
    Submitted,     \* Mesas with the region that their creator submitted
    Profiles,      \* players with the location that they submitted
    Searches,      \* searches, but for the page
    MaxMesas       \* Mesas at the time of a search (a bound)

\* A scored ticket: a result and a multiplier for each match.
Scored == {t \in [result : Seq({"1", "X", "2", "C"}), multiplier : Seq(Multipliers)] :
            Len(t.result) = Len(t.multiplier)}

\* Players are finitely many; the clocks of a zone move by an hour at most.
ASSUME RulesAssumption ==
    /\ Players \subseteq Int /\ IsFiniteSet(Players) /\ Players # {}
    /\ Measures \subseteq Int /\ Gross \subseteq Nat
    /\ Distributions \subseteq Seq(Int) /\ \A d \in Distributions : ValidDistribution(d)
    /\ Seasons \subseteq Seq(Scored \cup {Unset})
    /\ Dates \subseteq [year : Int, month : 1..12, day : 1..31]
    /\ Zones \subseteq [change : Int, before : Int, after : Int]
    /\ \A zone \in Zones : zone.after - zone.before \in -1..1
    /\ \A times \in MatchTimes : times \subseteq Int /\ IsFiniteSet(times) /\ times # {}
    /\ Hours \subseteq Int
    /\ MaxMesas \in Nat
    /\ Unset \notin Int

VARIABLE question

Unasked == question = [about |-> "nothing"]

Asks(q) == question' = q

\* Players of any score, hits and age.
AskPositions ==
    Unasked /\ \E metrics \in [Players -> [score : Measures, superDoubles : Measures,
                                doubles : Measures, created : Measures]] :
        Asks([about |-> "positions", metrics |-> metrics])

\* A Mesa that ends with some scores.
AskPayouts ==
    Unasked /\ \E gross \in Gross, percentage \in Distributions, score \in [Players -> 0..2] :
        Asks([about |-> "payouts", gross |-> gross, percentage |-> percentage,
              metrics |-> [u \in Players |-> [score |-> score[u], superDoubles |-> 0,
                                              doubles |-> 0, created |-> 0]]])

\* A season of one player, round r closing at the moment r, and a period of it.
AskPeriod ==
    Unasked /\ \E season \in Seasons : \E start, end \in 1..(Len(season) + 1) :
        start < end /\ Asks([about |-> "period", season |-> season, start |-> start, end |-> end])

AskRenewal ==
    Unasked /\ \E date, other \in Dates, months \in 1..12 :
        Asks([about |-> "renewal", date |-> date, other |-> other, months |-> months])

AskSchedule ==
    Unasked /\ \E zone \in Zones, matches \in MatchTimes, open, close \in Hours \cup {Unset} :
        Asks([about |-> "schedule", zone |-> zone, matches |-> matches,
              open |-> open, close |-> close])

\* Mesas and players as their regions and locations are saved, if they are accepted.
Published ==
    {[m EXCEPT !.region = NormalizedRegion(m.region)] :
        m \in {n \in Submitted : NormalizedRegion(n.region) # Invalid}}
Viewers ==
    {[pro |-> p.pro, balance |-> p.balance,
      state |-> NormalizedLocation(p).state, city |-> NormalizedLocation(p).city] :
        p \in {q \in Profiles : NormalizedLocation(q) # Invalid}}

AskSearch ==
    Unasked /\ \E n \in 0..MaxMesas : \E mesas \in kSubset(n, Published),
                                       viewer \in Viewers, search \in Searches :
        Asks([about |-> "search", mesas |-> mesas, viewer |-> viewer, search |-> search])

\* Administrators look at Mesas of any status.
AskPanel ==
    Unasked /\ \E mesas \in kSubset(MaxMesas, Published), category \in {Unset, "PAID"}, limit \in 1..2 :
        \E status \in [mesas -> {"DRAFT", "ACTIVE", "CLOSED"}] :
            Asks([about |-> "panel", mesas |-> {m @@ [status |-> status[m]] : m \in mesas},
                  search |-> [category |-> category, limit |-> limit]])

Asking == AskPositions \/ AskPayouts \/ AskPeriod \/ AskRenewal \/ AskSchedule \/ AskSearch \/ AskPanel

RulesSpec == Unasked /\ [][Asking]_question

-----------------------------------------------------------------------------
(* PROPERTIES                                                               *)

\* Prizes follow the ranking and are fair: the scan of the sorted rows gives each
\* player the number of those who are better, and one, however equal players come; the
\* prizes add up to the pool to the last coin, whatever ties and however few players;
\* each is within a coin of the exact share; and an exact share that is larger is never
\* paid less (RankingTiebreakService.rank, BolaoPrizeService.calculatePayouts).
PayoutsAreFair ==
    question.about \in {"positions", "payouts"} =>
        LET position == Rank(question.metrics)
            sorted == Sorted(question.metrics)
            order == [u \in Players |-> CHOOSE i \in DOMAIN sorted : sorted[i] = u]
            pool == PrizePool(question.gross)
            paid == Payouts(pool, question.percentage, position, order)
            share == Shares(pool, Weights(position, question.percentage), position)
        IN  /\ position = Position(question.metrics)
            /\ question.about = "payouts" =>
                 /\ SumFunction(paid) = pool
                 /\ \A u \in DOMAIN paid :
                      /\ paid[u] * share[u].divisor > share[u].dividend - share[u].divisor
                      /\ paid[u] * share[u].divisor < share[u].dividend + share[u].divisor
                      /\ \A v \in DOMAIN paid :
                           share[u].dividend * share[v].divisor > share[v].dividend * share[u].divisor
                           => paid[u] >= paid[v]

\* The histories that the season leaves: a player without a ticket has none.
History(season) ==
    LET played == {r \in DOMAIN season : season[r] # Unset}
        outcome == [r \in played |-> Detail([i \in DOMAIN season[r].result |-> "1"],
                                            season[r].result, season[r].multiplier)]
        doubles == [r \in played |-> outcome[r].doubles]
        supers == [r \in played |-> outcome[r].supers]
        UpTo(r) == {s \in played : s <= r}
    IN  {[user |-> 1, round |-> r, closeAt |-> r, score |-> outcome[r].total,
          doubles |-> SumFunctionOnSet(doubles, UpTo(r)),
          supers |-> SumFunctionOnSet(supers, UpTo(r))] : r \in played}

\* What a match is worth to who predicted "1": its multiplier, won or lost; a plain
\* miss costs nothing, a match that did not count gives nothing.
Worth(result, multiplier) ==
    CASE result = "C" -> 0
      [] result = "1" -> multiplier
      [] OTHER -> IF multiplier = 1 THEN 0 ELSE -multiplier

\* A ranking of a period shows what the matches of its own rounds were worth, and
\* the doubles won in them, for exactly those who played: the cumulative totals of
\* the histories and their baseline count no round twice and lose none
\* (BuildPeriodRankingFromHistoryService over CalculateTicketScoreService).
PeriodCountsItsMatches ==
    question.about = "period" =>
        LET season == question.season
            own == {r \in DOMAIN season : /\ season[r] # Unset
                                          /\ r >= question.start /\ r < question.end}
            matches == UNION {{r} \X DOMAIN season[r].result : r \in own}
            ResultOf(x) == season[x[1]].result[x[2]]
            MultiplierOf(x) == season[x[1]].multiplier[x[2]]
            worth == [x \in matches |-> Worth(ResultOf(x), MultiplierOf(x))]
            Won(m) == Cardinality({x \in matches : ResultOf(x) = "1" /\ MultiplierOf(x) = m})
            rows == PeriodRows(History(season), question.start, question.end)
        IN  /\ (1 \in DOMAIN rows) = (own # {})
            /\ own # {} =>
                 rows[1] = [score |-> SumFunction(worth), doubles |-> Won(2), supers |-> Won(4)]

\* n monthly payments, one after the other.
Monthly(date, n) ==
    LET after[k \in 0..n] == IF k = 0 THEN date ELSE AddMonths(after[k - 1], 1)
    IN  after[n]

\* Subscription time is added in calendar months: the end falls in the month that
\* was paid for, a later end stays later or equal, and a chain of monthly renewals
\* ends in the month of the single payment, at most the days short that a
\* February takes (addSubscriptionValidityMonths).
RenewalKeepsCalendar ==
    question.about = "renewal" =>
        LET end == AddMonths(question.date, question.months)
            chain == Monthly(question.date, question.months)
            Index(d) == 12 * d.year + d.month
        IN  /\ Index(end) = Index(question.date) + question.months
            /\ Index(chain) = Index(end)
            /\ ~Earlier(end, chain)
            /\ chain.day >= Min({question.date.day, 28})
            /\ Earlier(question.date, question.other) =>
                 ~Earlier(AddMonths(question.other, question.months), end)

\* A derived schedule opens when the day before the first match begins in local
\* time, across a change of the clocks too unless they skip that hour; it leaves at
\* least 22 hours, and it is accepted, also when an administrator moves the closing
\* within them (OfficialRoundScheduleService, SaoPauloPeriodService).
ScheduleIsPlayable ==
    question.about = "schedule" /\ question.open = Unset =>
        LET zone == question.zone
            matches == question.matches
            first == Min(matches)
            schedule == Resolved(zone, matches, Unset, question.close, Unset)
            wanted == Midnight(zone, first) - 24
            exists == \E t \in (wanted - 24)..(wanted + 24) : Local(zone, t) = wanted
        IN  /\ exists => Local(zone, schedule.open) = wanted
            /\ question.close = Unset => schedule.close - schedule.open >= 22
            /\ question.close = Unset \/ question.close \in (first - 22)..first =>
                 Accepted(schedule, matches)

\* What is computed about dates keeps the calendar, at the ends of months and where
\* the clocks change.
CalendarIsKept == RenewalKeepsCalendar /\ ScheduleIsPlayable

\* A search is consistent.  Its pages, one after the other, show each Mesa once, and
\* as many as it counts; what it counts for a region is what the same search finds
\* there; the region that a Mesa is shown with is the one that it is ordered by; and
\* a recommendation puts what can be joined first, and what is near before what is
\* far (buildDiscoveryIndexQuery, mesaRegionMatch).
SearchIsConsistent ==
    question.about = "search" =>
        LET mesas == question.mesas
            viewer == question.viewer
            search == question.search @@ [page |-> 1]
            Page(n) == Answer(mesas, viewer, [search EXCEPT !.page = n])
            answer == Page(1)
            shown == FlattenSeq([n \in 1..answer.totalPages |-> Page(n).mesas])
            Showing(Is(_)) == Cardinality({i \in DOMAIN shown : Is(shown[i])})
            CanJoin(m) == Access(m, viewer) = "CAN_JOIN"
            Total(region) ==
                Answer(mesas, viewer, [search EXCEPT !.region = region, !.state = Unset,
                                                     !.city = Unset]).total
            Distance(m) == CASE RegionMatch(viewer, m.region) = "CITY" -> 0
                             [] RegionMatch(viewer, m.region) = "STATE" -> 1
                             [] RegionMatch(viewer, m.region) = "NATIONAL" -> 2
                             [] OTHER -> 3
        IN  /\ Len(shown) = answer.total /\ Cardinality(ToSet(shown)) = answer.total
            /\ Page(answer.totalPages + 1).mesas = <<>>
            /\ answer.canJoin = Showing(CanJoin)
            /\ answer.closingSoon = Showing(LAMBDA m : m.registration = "CLOSING_SOON")
            /\ answer.upcoming = Showing(LAMBDA m : m.registration = "UPCOMING")
            /\ answer.regionCounts = [national |-> Total("NATIONAL"), state |-> Total("STATE"),
                                      city |-> Total("CITY"), nearby |-> Total("NEARBY")]
            /\ \A m \in ToSet(shown) : RegionRank(m, viewer) = Distance(m)
            /\ search.sort = "RECOMMENDED" => \A i, j \in DOMAIN shown : i < j =>
                 /\ CanJoin(shown[j]) => CanJoin(shown[i])
                 /\ StateRank(shown[i], viewer) = StateRank(shown[j], viewer)
                    => Distance(shown[i]) <= Distance(shown[j])

\* The administrators' list is consistent too: its two buckets share the Mesas out, the
\* pages of a bucket show each of its Mesas once, and the counters tell how many both
\* hold, whichever is looked at (ListAdminMesasService).
PanelIsConsistent ==
    question.about = "panel" =>
        LET Page(bucket, n) ==
                AdminAnswer(question.mesas, question.search @@ [bucket |-> bucket, page |-> n])
            Shown(bucket) ==
                FlattenSeq([n \in 1..Page(bucket, 1).totalPages |-> Page(bucket, n).mesas])
            wanted == {m \in question.mesas :
                        question.search.category # Unset => m.category = question.search.category}
        IN  /\ \A b \in DOMAIN Buckets :
                 /\ Cardinality(ToSet(Shown(b))) = Len(Shown(b))
                 /\ \A c \in DOMAIN Buckets : Page(b, 1).counts[c] = Len(Shown(c))
            /\ ToSet(Shown("OPEN")) \cup ToSet(Shown("CLOSED")) = wanted

\* The lists of Mesas, for players and for administrators, show each Mesa once, where
\* it belongs, and count what they show.
ListsAreConsistent == SearchIsConsistent /\ PanelIsConsistent

=============================================================================
