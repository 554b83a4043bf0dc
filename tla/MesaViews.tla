------------------------------ MODULE MesaViews ------------------------------
(***************************************************************************)
(* What a player is told about a Mesa: the list of Mesas to discover       *)
(* (DiscoverMesasService, one SQL query), the list of those published, the *)
(* player's own, and the page of a Mesa with its registration state        *)
(* (mesaRegistrationState) and its ranking.  The handlers of Mesa decide   *)
(* on their own whether an entry is accepted and what a result is; they    *)
(* have to agree.                                                          *)
(***************************************************************************)
EXTENDS Mesa

CLOSING_SOON_MS == 1    \* 72 hours, in units of the clock (a bound)

OpenStates == {"OPEN", "CLOSING_SOON"}
FewSpots(m) == m.terms.cap # Null /\ m.terms.cap - m.seats <= 2
EndsSoon(t) == t.entryEnd # Null /\ t.entryEnd - now <= CLOSING_SOON_MS

\* mesaRegistrationState, and CLOSED for a closed Mesa (GetBolaoRankingService).
RegistrationState(m) ==
    IF m.status = "CLOSED" THEN "CLOSED"
    ELSE IF m.terms.cap # Null /\ m.terms.cap <= m.seats THEN "FULL"
    ELSE IF \/ m.closedAt # Null /\ m.closedAt <= now
            \/ m.terms.entryEnd # Null /\ m.terms.entryEnd <= now THEN "CLOSED"
    ELSE IF m.terms.start > now THEN "UPCOMING"
    ELSE IF EndsSoon(m.terms) \/ FewSpots(m) THEN "CLOSING_SOON"
    ELSE "OPEN"

\* An admin's Mesa is owned by the admin, who is not one of Users.
Owner(u) == ~mesa.byAdmin /\ u = Creator

\* The filters of the query.
Discovered(u) ==
    /\ mesa.status = "ACTIVE"
    /\ ~Owner(u) /\ participant[u] = Null
    /\ mesa.closedAt = Null
    /\ mesa.terms.entryEnd # Null => mesa.terms.entryEnd > now
    /\ mesa.terms.cap # Null => mesa.seats < mesa.terms.cap

\* The query's registration_state, of a Mesa that passed the filters.
ListedState ==
    IF mesa.terms.start > now THEN "UPCOMING"
    ELSE IF EndsSoon(mesa.terms) \/ FewSpots(mesa) THEN "CLOSING_SOON"
    ELSE "OPEN"

\* Fault: the plan is only asked for at the entry.
AccessWithoutPlan(u) ==
    IF ListedState \notin OpenStates THEN "NOT_OPEN"
    ELSE IF mesa.terms.category = "PAID" /\ ~HasFunds(wallet[u], mesa.terms.cost)
         THEN "INSUFFICIENT_BALANCE"
    ELSE "CAN_JOIN"

\* The query's access_state.
AccessState(u) ==
    IF mesa.terms.eligibility = "SUBSCRIBERS_ONLY" /\ u \notin pro THEN "PLAN_REQUIRED"
    ELSE IF mesa.terms.eligibility = "FREE_ONLY" /\ u \in pro THEN "SIDEWALK_REQUIRED"
    ELSE IF ListedState \notin OpenStates THEN "NOT_OPEN"
    ELSE IF mesa.terms.category = "PAID" /\ ~HasFunds(wallet[u], mesa.terms.cost)
         THEN "INSUFFICIENT_BALANCE"
    ELSE "CAN_JOIN"

Offered(u) == Discovered(u) /\ AccessState(u) = "CAN_JOIN"

\* The two exceptions the query makes: it does not look at the price of a
\* sponsored Mesa, nor at the end of one whose entries close with it.
PriceIsShown == mesa.terms.category = "SPONSORED_FREE" => mesa.terms.cost = 0
EndIsShown == DateMode(mesa.terms) \/ NotPast(mesa.end)

\* At any moment of a Mesa's life, what the list offers as CAN_JOIN is what a join
\* accepts and the player can pay, apart from the two exceptions, and what a join
\* accepts before registrations close is offered; the list and the page of the
\* Mesa name the same state (DiscoverMesasService, mesaRegistrationState,
\* JoinBolaoService).
OffersMatchEntry ==
    mesa # NoMesa => \A u \in Users :
        /\ Offered(u) /\ EndIsShown => Accepts(u)
        /\ Offered(u) /\ PriceIsShown => CanPay(u, mesa.terms)
        /\ Accepts(u) /\ CanPay(u, mesa.terms) /\ mesa.closedAt = Null /\ ~Owner(u) => Offered(u)
        /\ Discovered(u) => ListedState = RegistrationState(mesa)

\* Stronger, as the backlog asks: nothing is recommended that the player cannot
\* enter.  The exceptions break it, and so does a last seat while no round is OPEN.
OffersAreKept ==
    mesa # NoMesa => \A u \in Users : Offered(u) =>
        /\ Accepts(u) /\ CanPay(u, mesa.terms)
        /\ Fills(mesa, mesa.terms) => OpenRounds # {}

-----------------------------------------------------------------------------
(* THE PAGE OF A MESA AND THE LISTS                                         *)

\* A closed Mesa's entries are the stored ones, another's are worked out again.
Stored(m) ==
    [u \in Approved |-> [score |-> participant[u].score, position |-> participant[u].position]]
Entries(m) == IF m.status = "CLOSED" THEN Stored(m) ELSE Rows(m)

SpotsRemaining(m) ==
    IF m.terms.cap = Null THEN Null
    ELSE IF m.status = "CLOSED" /\ m.terms.cap < m.seats THEN 0
    ELSE m.terms.cap - m.seats

\* GetBolaoRankingService: only its owner sees a draft.
HasPage(u) == mesa # NoMesa /\ (mesa.status = "DRAFT" => Owner(u))
Page(u) ==
    [state |-> RegistrationState(mesa), spots |-> SpotsRemaining(mesa), owner |-> Owner(u),
     joined |-> u \in Approved, entries |-> Entries(mesa)]

\* ListAvailableBoloesService: every active Mesa.
Available == mesa # NoMesa /\ mesa.status = "ACTIVE"

\* ListUserBoloesService: once, for who takes part in it or owns it, with the score and
\* the position of the last recalculation.
OnOwnList(u) == mesa # NoMesa /\ (u \in Approved \/ Owner(u))
OwnRow(u) == IF u \in Approved THEN Stored(mesa)[u] ELSE [score |-> 0, position |-> Null]

\* However entries, recalculations and the closing overlap: the page has a seat for
\* each entry; until the initial scores are captured, neither the page nor a player's
\* list gives any score or place away; then the page of a Mesa that goes on shows what
\* each player earned since the reference round; and a Mesa that a player has not
\* entered is found by who may enter it (GetBolaoRankingService,
\* ListUserBoloesService, RankingWindowScoreService.buildRows).
PagesTellTheGame ==
    /\ mesa # NoMesa /\ mesa.terms.cap # Null =>
            SpotsRemaining(mesa) = mesa.terms.cap - Cardinality(DOMAIN Entries(mesa))
    /\ \A u \in Users : Discovered(u) => Available /\ HasPage(u) /\ ~OnOwnList(u)
    /\ mesa # NoMesa /\ ~mesa.ready => \A u \in Approved :
            Entries(mesa)[u] = [score |-> 0, position |-> 0] /\ OwnRow(u) = Entries(mesa)[u]
    /\ mesa # NoMesa /\ mesa.status = "ACTIVE" /\ mesa.ready /\ AllCaptured /\ ScoredInOrder =>
            LET until == OrElse(mesa.end, now) IN
            \A u \in Approved : Entries(mesa)[u].score =
                Earned(u, {r \in Rounds : r > mesa.ref /\ CloseAt[r] <= until})

\* What players are told of a Mesa is what holds for them: the offers of the list are
\* kept by the entry, and the pages show its seats and its game.
PlayersAreTold == OffersMatchEntry /\ PagesTellTheGame

=============================================================================
