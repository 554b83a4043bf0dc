------------------------------ MODULE Discovery ------------------------------
(***************************************************************************)
(* The search for Mesas, one SQL query over the Mesas that a player may    *)
(* discover (MesaViews models which those are, and their registration      *)
(* state): filters, order, pages and counters (DiscoverMesasService), and  *)
(* where Mesas and players are (mesa-region-rules.ts); and the list of all *)
(* Mesas that administrators see (ListAdminMesasService).                  *)
(***************************************************************************)
EXTENDS Integers, FiniteSets, SequencesExt

CONSTANT Unset    \* null, and what a client leaves out

\* In SQL, nothing equals NULL.
Same(a, b) == a # Unset /\ b # Unset /\ a = b

Or(a, b) == IF a # Unset THEN a ELSE b

-----------------------------------------------------------------------------
(* mesa-region-rules.ts.  Codes of the wrong form are left out: both         *)
(* functions refuse them.                                                    *)

Invalid == [invalid |-> TRUE]

\* The default is the whole country; a state, or a state, a city and its name.
NormalizedRegion(input) ==
    CASE input.scope \in {Unset, "NATIONAL"} ->
           [scope |-> "NATIONAL", state |-> Unset, city |-> Unset]
      [] input.scope = "STATE" /\ input.state # Unset ->
           [scope |-> "STATE", state |-> input.state, city |-> Unset]
      [] input.scope = "CITY" /\ input.state # Unset /\ input.city # Unset /\ input.named ->
           [scope |-> "CITY", state |-> input.state, city |-> input.city]
      [] OTHER -> Invalid

NormalizedLocation(input) ==
    CASE input.city = Unset -> [state |-> input.state, city |-> Unset]
      [] input.state # Unset /\ input.named -> [state |-> input.state, city |-> input.city]
      [] OTHER -> Invalid

\* What the page says of the region of a Mesa.
RegionMatch(viewer, region) ==
    IF region.scope = "NATIONAL" THEN "NATIONAL"
    ELSE IF viewer.state = Unset THEN "UNKNOWN"
    ELSE IF viewer.state # region.state THEN "OTHER"
    ELSE IF region.scope = "CITY" /\ Same(viewer.city, region.city) THEN "CITY"
    ELSE "STATE"

-----------------------------------------------------------------------------
(* The query.  A Mesa is [id, category, eligibility, cost, reward, entryEnd, *)
(* created, registration] with its region; a viewer [pro, balance] with a    *)
(* location; a search has the filters, the order and the page.               *)

BaseFilter(m, search) ==
    /\ search.category # Unset => m.category = search.category
    /\ search.maxCost # Unset => m.cost <= search.maxCost

Access(m, viewer) ==
    IF m.eligibility = "SUBSCRIBERS_ONLY" /\ ~viewer.pro THEN "PLAN_REQUIRED"
    ELSE IF m.eligibility = "FREE_ONLY" /\ viewer.pro THEN "SIDEWALK_REQUIRED"
    ELSE IF m.registration = "UPCOMING" THEN "NOT_OPEN"
    ELSE IF m.category = "PAID" /\ viewer.balance < m.cost THEN "INSUFFICIENT_BALANCE"
    ELSE "CAN_JOIN"

RegistrationFilter(m, search) ==
    CASE search.registration = "ALL" -> TRUE
      [] search.registration = "OPEN" -> m.registration \in {"OPEN", "CLOSING_SOON"}
      [] OTHER -> m.registration = search.registration

AccessFilter(m, viewer, search) ==
    search.access = "CAN_JOIN" => Access(m, viewer) = "CAN_JOIN"

InState(m, state) == m.region.scope = "STATE" /\ Same(m.region.state, state)
InCity(m, city) == m.region.scope = "CITY" /\ Same(m.region.city, city)
National(m) == m.region.scope = "NATIONAL"

RegionFilter(m, viewer, search) ==
    CASE search.region = "ALL" -> TRUE
      [] search.region = "NATIONAL" -> National(m)
      [] search.region = "STATE" -> InState(m, Or(search.state, viewer.state))
      [] search.region = "CITY" -> InCity(m, Or(search.city, viewer.city))
      [] search.region = "NEARBY" -> \/ National(m)
                                     \/ InState(m, viewer.state) \/ InCity(m, viewer.city)

StateRank(m, viewer) ==
    CASE Access(m, viewer) = "CAN_JOIN" -> IF m.registration = "CLOSING_SOON" THEN 0 ELSE 1
      [] OTHER -> IF m.registration # "UPCOMING" THEN 2 ELSE 3

RegionRank(m, viewer) ==
    IF National(m) THEN 2
    ELSE IF InCity(m, viewer.city) THEN 0
    ELSE IF Same(m.region.state, viewer.state) THEN 1
    ELSE 3

FilteredAll(mesas, viewer, search) ==
    {m \in mesas : /\ BaseFilter(m, search)
                   /\ RegistrationFilter(m, search) /\ AccessFilter(m, viewer, search)}

Filtered(mesas, viewer, search) ==
    {m \in FilteredAll(mesas, viewer, search) : RegionFilter(m, viewer, search)}

NullsLast == 1000    \* later than every date (a bound)

\* What the order compares, the first first; smaller comes earlier.
SortKey(m, viewer, sort) ==
    LET rank == StateRank(m, viewer)
        closes == IF m.entryEnd = Unset THEN NullsLast ELSE m.entryEnd
    IN  CASE sort = "NEWEST" -> <<-m.created, m.id>>
          [] sort = "LOWEST_COST" -> <<m.cost, rank, -m.created, m.id>>
          [] sort = "HIGHEST_REWARD" -> <<-m.reward, rank, -m.created, m.id>>
          [] sort = "CLOSING_SOON" -> <<rank, closes, -m.created, m.id>>
          [] sort = "RECOMMENDED" -> <<rank, RegionRank(m, viewer), closes, -m.created, m.id>>

Less(k, l) == \E i \in DOMAIN k : k[i] < l[i] /\ \A j \in 1..(i - 1) : k[j] = l[j]

Ordered(mesas, viewer, search) ==
    SetToSortSeq(Filtered(mesas, viewer, search),
                 LAMBDA m, n : Less(SortKey(m, viewer, search.sort), SortKey(n, viewer, search.sort)))

Count(mesas, Is(_)) == Cardinality({m \in mesas : Is(m)})

\* Fault: the counters of the regions are taken after the region filter.
RegionStatsOfFiltered(mesas, viewer, search) ==
    LET all == Filtered(mesas, viewer, search) IN
    [national |-> Count(all, National),
     state |-> Count(all, LAMBDA m : InState(m, viewer.state)),
     city |-> Count(all, LAMBDA m : InCity(m, viewer.city))]

RegionStats(mesas, viewer, search) ==
    LET all == FilteredAll(mesas, viewer, search) IN
    [national |-> Count(all, National),
     state |-> Count(all, LAMBDA m : InState(m, viewer.state)),
     city |-> Count(all, LAMBDA m : InCity(m, viewer.city))]

\* OFFSET and LIMIT, or skip and take.
PageOf(ordered, search) ==
    LET offset == (search.page - 1) * search.limit
        size == IF Len(ordered) - offset < search.limit THEN Len(ordered) - offset ELSE search.limit
    IN  [i \in 1..size |-> ordered[offset + i]]

TotalPages(total, search) == (total + search.limit - 1) \div search.limit

\* The answer: the rows of the page, the totals and the counters.
Answer(mesas, viewer, search) ==
    LET ordered == Ordered(mesas, viewer, search)
        found == Filtered(mesas, viewer, search)
        stats == RegionStats(mesas, viewer, search)
    IN  [mesas |-> PageOf(ordered, search),
         total |-> Len(ordered),
         totalPages |-> TotalPages(Len(ordered), search),
         canJoin |-> Count(found, LAMBDA m : Access(m, viewer) = "CAN_JOIN"),
         closingSoon |-> Count(found, LAMBDA m : m.registration = "CLOSING_SOON"),
         upcoming |-> Count(found, LAMBDA m : m.registration = "UPCOMING"),
         regionCounts |-> [national |-> stats.national, state |-> stats.state,
                           city |-> stats.city,
                           nearby |-> stats.national + stats.state + stats.city]]

-----------------------------------------------------------------------------
(* The administrators' list (ListAdminMesasService): every Mesa, in two      *)
(* buckets by its status, the newest first.                                  *)

Buckets == [OPEN |-> {"DRAFT", "ACTIVE"}, CLOSED |-> {"CLOSED"}]

\* Three queries; the counters group the Mesas of both buckets.
AdminAnswer(mesas, search) ==
    LET matching == {m \in mesas : search.category # Unset => m.category = search.category}
        ordered == SetToSortSeq({m \in matching : m.status \in Buckets[search.bucket]},
                                LAMBDA m, n : Less(<<-m.created, -m.id>>, <<-n.created, -n.id>>))
        closed == Count(matching, LAMBDA m : m.status = "CLOSED")
    IN  [mesas |-> PageOf(ordered, search),
         total |-> Len(ordered),
         totalPages |-> TotalPages(Len(ordered), search),
         counts |-> [OPEN |-> Cardinality(matching) - closed, CLOSED |-> closed]]

=============================================================================
