--------------------------------- MODULE Mesa ---------------------------------
(***************************************************************************)
(* One Mesa, a competition among its participants, from draft to payment:  *)
(* CreateBolaoService, UpdateMesaService, PublishMesaService and its       *)
(* scheduled job, JoinBolaoService with invites, MesaLifecycleService,     *)
(* MesaInitialScoreService, RecalculateRankingService, CloseRankingService *)
(* and SettleBolaoService.  Rounds are reduced to what a Mesa reads: their *)
(* status, their tickets and the score histories.                          *)
(*                                                                         *)
(* Transactions run at READ COMMITTED.  A request that decides on what it  *)
(* read before it holds the row lock is split there; what it has read is   *)
(* kept in `request'.  Any request may fail between two steps.             *)
(***************************************************************************)
EXTENDS WalletOps, Prizes

CONSTANTS
    Users,       \* numbers, in the order of the users' ids
    Creator,     \* the user who creates the Mesa
    Stake,       \* [Users -> coins in the wallet at the start]
    Subscribers, \* the users with an active PRO subscription at the start
    Created,     \* [Users -> Nat]: users.createdAt
    NumRounds,   \* bound on the rounds of the season
    CloseAt,     \* [Rounds -> Nat]: rounds.closeAt
    Points,      \* [Users -> [Rounds -> Nat \cup {Null}]], Null without a ticket
    Terms,       \* the terms a Mesa may be created with
    NewTerms,    \* the terms an edit may enter
    InviteUses,  \* the maxUses an invite may have
    Requests,    \* HTTP requests in progress together
    Jobs,        \* jobs of the worker in progress together
    MaxNow,      \* bound on the time
    Null

Rounds == 1..NumRounds
Time == 0..MaxNow

Term == [category : {"PAID", "FREE", "SPONSORED_FREE"}, cap : Nat \cup {Null}, cost : Nat,
         sponsor : Nat, rounds : Nat \cup {Null}, start : Nat, entryEnd : Nat \cup {Null},
         end : Nat \cup {Null}, distribution : Seq(Nat),
         eligibility : {"ALL", "SUBSCRIBERS_ONLY", "FREE_ONLY"}]

Participation == [fee : Nat, invited : BOOLEAN, base : Int \cup {Null}, score : Int, position : Nat]

ASSUME MesaAssumption ==
    /\ Users \subseteq Nat /\ IsFiniteSet(Users)
    /\ Creator \in Users
    /\ Stake \in [Users -> Nat]
    /\ Subscribers \subseteq Users
    /\ Created \in [Users -> Nat]
    /\ NumRounds \in Nat /\ MaxNow \in Nat
    /\ CloseAt \in [Rounds -> Nat]
    /\ Points \in [Users -> [Rounds -> Nat \cup {Null}]]
    /\ Terms \subseteq Term /\ NewTerms \subseteq Term
    /\ InviteUses \subseteq Nat \ {0}
    /\ Requests \cap Jobs = {}
    /\ Null \notin Int \cup Participation \cup [max : Nat, used : Nat]

VARIABLES
    now,
    round,       \* rounds.status
    history,     \* user_score_history.scoreTotal
    total,       \* users.scoreTotal
    pro,         \* users whose subscription is active
    wallet,
    mesa,        \* the row of rankings
    participant, \* ranking_participants, APPROVED; Null where there is no row
    invite,      \* bolao_invites: Null or [max, used]
    request

vars == <<now, round, history, total, pro, wallet, mesa, participant, invite, request>>
season == <<now, round, history, total, pro>>

DateMode(t) == t.entryEnd # Null    \* registrationCloseMode = DATE
RoundMode(t) == t.rounds # Null     \* durationMode = ROUNDS

Idle == [op |-> "idle"]
NoMesa == [status |-> "NONE"]

MesaRow ==
    [status : {"DRAFT", "ACTIVE", "CLOSED"}, terms : Term, end : Nat \cup {Null},
     byAdmin : BOOLEAN, publishAt : Nat \cup {Null}, seats : Nat, gross : Int, fee : Int,
     pool : Int, closedAt : Nat \cup {Null}, ref : Rounds \cup {Null}, ready : BOOLEAN,
     settled : BOOLEAN]

TypeOK ==
    /\ now \in Time
    /\ round \in [Rounds -> {"DRAFT", "OPEN", "CLOSED", "SCORED", "CANCELLED"}]
    /\ history \in [Users -> [Rounds -> Int \cup {Null}]]
    /\ total \in [Users -> Int]
    /\ pro \subseteq Users
    /\ wallet \in [Users -> Account]
    /\ mesa \in {NoMesa} \cup MesaRow
    /\ participant \in [Users -> Participation \cup {Null}]
    /\ invite \in [max : Nat, used : Nat] \cup {Null}
    /\ \A q \in Requests : request[q].op \in {"idle", "join", "edit", "close"}
    /\ \A q \in Jobs : request[q].op \in
            {"idle", "unschedule", "registrations", "finish", "recalc", "close"}

Init ==
    /\ now = 0
    /\ round = [r \in Rounds |-> "DRAFT"]
    /\ history = [u \in Users |-> [r \in Rounds |-> Null]]
    /\ total = [u \in Users |-> 0]
    /\ pro = Subscribers
    /\ wallet = [u \in Users |-> Credit(EmptyWallet, Stake[u])]
    /\ mesa = NoMesa
    /\ participant = [u \in Users |-> Null]
    /\ invite = Null
    /\ request = [q \in Requests \cup Jobs |-> Idle]

Begin(q, work) == request[q] = Idle /\ request' = [request EXCEPT ![q] = work]
Continue(q, work) == request' = [request EXCEPT ![q] = work]
End(q) == Continue(q, Idle)

Approved == {u \in Users : participant[u] # Null}
AllCaptured == \A u \in Approved : participant[u].base # Null

\* Rounds.status = OPEN is held by at most one round (partial unique index).
OpenRounds == {r \in Rounds : round[r] = "OPEN"}

-----------------------------------------------------------------------------
(* TERMS: MesaCategoryRules, assertMesaScheduleRules and the date checks.   *)

ValidCategory(t) ==
    CASE t.category = "PAID" -> ~DateMode(t) /\ t.cost > 0 /\ t.sponsor = 0
      [] t.category = "SPONSORED_FREE" -> t.sponsor > 0
      [] t.category = "FREE" -> DateMode(t) /\ t.cost = 0 /\ t.sponsor = 0

ValidSchedule(t) ==
    /\ IF DateMode(t) THEN t.cap = Null ELSE t.cap # Null /\ t.cap >= 2
    /\ RoundMode(t) <=> t.end = Null

ValidTerms(t) ==
    /\ ValidCategory(t) /\ ValidSchedule(t)
    /\ DateMode(t) => t.entryEnd > t.start
    /\ ~RoundMode(t) => t.end > (IF DateMode(t) THEN t.entryEnd ELSE t.start)
    /\ t.category # "FREE" => ValidDistribution(t.distribution)
    /\ t.cap # Null => Len(t.distribution) <= t.cap

\* Who may set such terms: sponsored ones an admin, paid ones an admin or PRO.
MaySet(t, admin) ==
    /\ t.category = "SPONSORED_FREE" => admin
    /\ t.category = "PAID" => admin \/ Creator \in pro

NotPast(end) == end # Null => end > now

-----------------------------------------------------------------------------
(* ENTRY                                                                    *)

HasPaidEntry(t) == t.cost > 0
HasSeat(m, t) == ~DateMode(t) => m.seats < t.cap

\* The reward of a Mesa that collected gross.
Reward(gross, t) ==
    PrizePool(gross) + (IF t.category = "SPONSORED_FREE" THEN t.sponsor ELSE 0)

\* Fault: the last seat moves the reference even if registrations had closed.
FillsAgain(m, t) == ~DateMode(t) /\ m.seats + 1 = t.cap

\* The entry takes the last seat of a Mesa whose registrations are open.
Fills(m, t) == ~DateMode(t) /\ m.seats + 1 = t.cap /\ m.closedAt = Null

\* Fault: nothing keeps a player from having two rows.
MayRepeat(u) == u \in Users

IsNew(u) == participant[u] = Null

CanPay(u, t) == HasPaidEntry(t) => HasFunds(wallet[u], t.cost)

\* From the debit to the audit row, for a Mesa m read with terms t: the debit and
\* the reservation repeat their conditions, (rankingId, userId) and the ledger's
\* idempotency key are unique, and the last seat needs an OPEN round.
Enter(m, u, t, invited) ==
    /\ IsNew(u)
    /\ CanPay(u, t)
    /\ HasSeat(m, t)
    /\ Fills(m, t) => OpenRounds # {}
    /\ LET gross == m.gross + t.cost
           counted == [m EXCEPT !.seats = @ + 1, !.gross = gross,
                                !.fee = IF HasPaidEntry(t) THEN PlatformFee(gross) ELSE @,
                                !.pool = IF HasPaidEntry(t) THEN Reward(gross, t) ELSE @]
       IN  mesa' = IF Fills(m, t)
                   THEN [counted EXCEPT !.closedAt = now, !.ref = CHOOSE r \in OpenRounds : TRUE]
                   ELSE counted
    /\ participant' = [participant EXCEPT ![u] =
            [fee |-> t.cost, invited |-> invited, base |-> Null, score |-> 0, position |-> 0]]
    /\ wallet' = IF HasPaidEntry(t) THEN [wallet EXCEPT ![u] = Debit(@, t.cost)] ELSE wallet

\* BolaoRegistrationWindowService: entryEndDate, else endDate.
WindowOpen(m) ==
    LET closesAt == IF DateMode(m.terms) THEN m.terms.entryEnd ELSE m.end
    IN  NotPast(closesAt)

Usable(i) == i # Null /\ i.used < i.max

\* Fault: the reservation does not hold the row.
NobodyWaits == TRUE

\* An invite's row stays locked from its reservation to the commit of the entry.
InviteFree == \A p \in Requests : request[p].op = "join" => ~request[p].invited

Eligible(u) ==
    CASE mesa.terms.eligibility = "ALL" -> TRUE
      [] mesa.terms.eligibility = "SUBSCRIBERS_ONLY" -> u \in pro
      [] mesa.terms.eligibility = "FREE_ONLY" -> u \notin pro

Accepts(u) ==
    /\ mesa.status = "ACTIVE"
    /\ Eligible(u)
    /\ mesa.terms.start <= now /\ WindowOpen(mesa)
    /\ HasSeat(mesa, mesa.terms)
    /\ IsNew(u)

StartJoin(q, u, invited) ==
    /\ Accepts(u)
    /\ invited => Usable(invite) /\ InviteFree
    /\ Begin(q, [op |-> "join", user |-> u, terms |-> mesa.terms, invited |-> invited])
    /\ UNCHANGED <<season, wallet, mesa, participant, invite>>

CommitJoin(q) ==
    /\ request[q].op = "join"
    /\ Enter(mesa, request[q].user, request[q].terms, request[q].invited)
    /\ invite' = IF request[q].invited THEN [invite EXCEPT !.used = @ + 1] ELSE invite
    /\ End(q)
    /\ UNCHANGED season

CreateInvite(max) ==
    /\ invite = Null
    /\ mesa.status = "ACTIVE" /\ WindowOpen(mesa) /\ HasSeat(mesa, mesa.terms)
    /\ invite' = [max |-> max, used |-> 0]
    /\ UNCHANGED <<season, wallet, mesa, participant, request>>

-----------------------------------------------------------------------------
(* CREATION, PUBLICATION, EDITING                                           *)

\* PublishMesaService for a DRAFT m: the creator enters, whatever the window and
\* the eligibility, unless an admin created the Mesa.
PublishRow(m) ==
    LET active == [m EXCEPT !.status = "ACTIVE", !.publishAt = Null]
    IN  /\ m.status = "DRAFT"
        /\ m.terms.category = "PAID" /\ ~m.byAdmin => Creator \in pro
        /\ IF m.byAdmin
           THEN mesa' = active /\ UNCHANGED <<participant, wallet>>
           ELSE Enter(active, Creator, m.terms, FALSE)

Save(m, mode) ==
    CASE mode = "NOW" -> PublishRow(m)
      [] mode = "AT_START" -> /\ m.terms.start > now
                              /\ mesa' = [m EXCEPT !.publishAt = m.terms.start]
                              /\ UNCHANGED <<participant, wallet>>
      [] mode = "DRAFT" -> mesa' = [m EXCEPT !.publishAt = Null] /\ UNCHANGED <<participant, wallet>>
      [] mode = "KEEP" -> mesa' = m /\ UNCHANGED <<participant, wallet>>

Create(t, admin, mode) ==
    /\ mesa = NoMesa
    /\ ValidTerms(t) /\ MaySet(t, admin)
    /\ t.start >= now /\ NotPast(t.end)
    /\ mode # "KEEP"
    /\ Save([status |-> "DRAFT", terms |-> t, end |-> t.end, byAdmin |-> admin,
             publishAt |-> Null, seats |-> 0, gross |-> 0, fee |-> 0, pool |-> Reward(0, t),
             closedAt |-> Null, ref |-> Null, ready |-> FALSE, settled |-> FALSE], mode)
    /\ UNCHANGED <<season, invite, request>>

Publish ==
    /\ mesa.status = "DRAFT"
    /\ PublishRow(mesa)
    /\ UNCHANGED <<season, invite, request>>

Scheduled == mesa.status = "DRAFT" /\ mesa.publishAt # Null /\ mesa.publishAt <= now

PublishScheduled ==
    /\ Scheduled
    /\ PublishRow(mesa)
    /\ UNCHANGED <<season, invite, request>>

\* Fault: only the missing plan cancels the schedule.
NoSubscription == mesa.terms.category = "PAID" /\ Creator \notin pro

\* The failures of a publication that cancel its schedule.
CreatorUnable ==
    \/ mesa.terms.category = "PAID" /\ Creator \notin pro
    \/ ~CanPay(Creator, mesa.terms)

StartUnschedule(q) ==
    /\ Scheduled /\ ~mesa.byAdmin
    /\ CreatorUnable
    /\ Begin(q, [op |-> "unschedule"])
    /\ UNCHANGED <<season, wallet, mesa, participant, invite>>

CommitUnschedule(q) ==
    /\ request[q].op = "unschedule"
    /\ mesa.status = "DRAFT" /\ mesa.publishAt # Null
    /\ mesa' = [mesa EXCEPT !.publishAt = Null]
    /\ End(q)
    /\ UNCHANGED <<season, wallet, participant, invite>>

FinancialTerms(t) == <<t.category, t.cost, t.sponsor, t.distribution>>
Locked == mesa.seats > 0 \/ mesa.gross > 0 \/ mesa.settled

\* Everything but the update is checked against the row as read here.
StartEdit(q, t, admin, mode) ==
    /\ mesa # NoMesa
    /\ mesa.status = "DRAFT" \/ (admin /\ mode = "KEEP")
    /\ t.start = mesa.terms.start \/ t.start >= now
    /\ ValidTerms(t) /\ MaySet(t, admin)
    /\ mesa.status = "DRAFT" => NotPast(t.end)
    /\ mode = "AT_START" => t.start > now
    /\ mesa.status # "DRAFT" /\ Locked => FinancialTerms(t) = FinancialTerms(mesa.terms)
    /\ Begin(q, [op |-> "edit", terms |-> t, mode |-> mode, status |-> mesa.status,
                 start |-> mesa.terms.start, reset |-> mesa.status = "DRAFT" \/ ~Locked])
    /\ UNCHANGED <<season, wallet, mesa, participant, invite>>

\* The update only asks for the status and the start that were read.
CommitEdit(q) ==
    /\ request[q].op = "edit"
    /\ mesa.status = request[q].status
    /\ mesa.terms.start = request[q].start
    /\ LET t == request[q].terms
           edited == [mesa EXCEPT !.terms = t, !.end = t.end]
       IN  Save(IF request[q].reset
                THEN [edited EXCEPT !.gross = 0, !.fee = 0, !.pool = Reward(0, t)]
                ELSE edited, request[q].mode)
    /\ End(q)
    /\ UNCHANGED <<season, invite>>

-----------------------------------------------------------------------------
(* THE JOB OF EXPIRED RANKINGS, which also captures initial scores.         *)

StartCloseRegistrations(q) ==
    /\ mesa.status = "ACTIVE" /\ DateMode(mesa.terms) /\ mesa.closedAt = Null
    /\ mesa.terms.entryEnd <= now
    /\ Begin(q, [op |-> "registrations", at |-> mesa.terms.entryEnd,
                 ref |-> IF OpenRounds = {} THEN Null ELSE CHOOSE r \in OpenRounds : TRUE])
    /\ UNCHANGED <<season, wallet, mesa, participant, invite>>

CommitCloseRegistrations(q) ==
    /\ request[q].op = "registrations"
    /\ mesa.status = "ACTIVE" /\ mesa.closedAt = Null
    /\ mesa' = [mesa EXCEPT !.closedAt = request[q].at, !.ref = request[q].ref]
    /\ End(q)
    /\ UNCHANGED <<season, wallet, participant, invite>>

HasTicket(u, r) == Points[u][r] # Null /\ round[r] \in {"OPEN", "CLOSED", "SCORED"}

\* user_score_history of u for the scored rounds of R, the last by number.
LastTotal(u, R) ==
    LET played == {r \in R : round[r] = "SCORED" /\ history[u][r] # Null}
    IN  IF played = {} THEN Null ELSE history[u][Max(played)]

OrElse(value, default) == IF value = Null THEN default ELSE value

\* Fault: the baseline is the player's total at the time of the capture.
PresentBase(u) == OrElse(LastTotal(u, Rounds), 0)

BaseOf(u) == OrElse(LastTotal(u, 1..mesa.ref), 0)

\* No ticket up to the reference round is without its history.
HistoriesComplete ==
    \A u \in Approved, r \in 1..mesa.ref : HasTicket(u, r) => history[u][r] # Null

\* One transaction, which locks the Mesa before it reads anything.
Capture ==
    /\ mesa.status = "ACTIVE" /\ ~mesa.ready
    /\ mesa.ref # Null /\ mesa.closedAt # Null
    /\ round[mesa.ref] = "SCORED"
    /\ Approved # {} /\ Cardinality(Approved) = mesa.seats
    /\ HistoriesComplete
    /\ participant' = [u \in Users |->
            IF u \in Approved /\ participant[u].base = Null
            THEN [participant[u] EXCEPT !.base = BaseOf(u)]
            ELSE participant[u]]
    /\ mesa' = [mesa EXCEPT !.ready = TRUE]
    /\ UNCHANGED <<season, wallet, invite, request>>

\* The scored rounds after the reference, and the last one of the Mesa's own.
RoundsAfter == {r \in Rounds : round[r] = "SCORED" /\ r > mesa.ref}

\* Fault: the round that comes after the last one.
IsNextRound(r) == Cardinality({s \in RoundsAfter : s < r}) = mesa.terms.rounds

IsLastRound(r) == Cardinality({s \in RoundsAfter : s <= r}) = mesa.terms.rounds

StartFinish(q) ==
    /\ mesa.status = "ACTIVE" /\ RoundMode(mesa.terms) /\ mesa.closedAt # Null
    /\ mesa.ready /\ Approved # {} /\ AllCaptured
    /\ \E r \in RoundsAfter :
         /\ IsLastRound(r)
         /\ mesa.end # Null => mesa.terms.category = "FREE" /\ mesa.end > CloseAt[r]
         /\ Begin(q, [op |-> "finish", end |-> CloseAt[r]])
    /\ UNCHANGED <<season, wallet, mesa, participant, invite>>

CommitFinish(q) ==
    /\ request[q].op = "finish"
    /\ mesa.status = "ACTIVE" /\ (mesa.end # Null => mesa.end > request[q].end)
    /\ mesa' = [mesa EXCEPT !.end = request[q].end]
    /\ End(q)
    /\ UNCHANGED <<season, wallet, participant, invite>>

-----------------------------------------------------------------------------
(* ROWS AND SETTLEMENT                                                      *)

\* buildRows for the row m of rankings as the caller read it.
Rows(m) ==
    LET until == IF m.end # Null THEN m.end ELSE now
        window == {r \in Rounds : r > m.ref /\ CloseAt[r] <= until}
        score == [u \in Approved |->
                    OrElse(LastTotal(u, window), participant[u].base) - participant[u].base]
        metrics == [u \in Approved |-> [score |-> score[u], superDoubles |-> 0, doubles |-> 0,
                                        created |-> Created[u]]]
        position == Position(metrics)
    IN  IF m.ready /\ AllCaptured
        THEN [u \in Approved |-> [score |-> score[u], position |-> position[u]]]
        ELSE [u \in Approved |-> [score |-> 0, position |-> 0]]

\* MesaIntegrityService.inspect, the issues that the Mesa's history can cause.
\* The terms were validated when they were saved.
Sound ==
    /\ mesa.seats = Cardinality(Approved)
    /\ mesa.terms.cap # Null => mesa.seats <= mesa.terms.cap
    /\ HasPaidEntry(mesa.terms) => \A u \in Approved : participant[u].fee = mesa.terms.cost
    /\ mesa.gross = Cardinality(Approved) * mesa.terms.cost
    /\ mesa.fee = PlatformFee(mesa.gross) /\ mesa.pool = Reward(mesa.gross, mesa.terms)

\* A DRAFT is recalculated too, but it has no participants.
StartRecalculation(q) ==
    /\ mesa.status = "ACTIVE"
    /\ NotPast(mesa.end)
    /\ Begin(q, [op |-> "recalc", seen |-> mesa, rows |-> Null])
    /\ UNCHANGED <<season, wallet, mesa, participant, invite>>

\* The job, the creator or, with force, an admin.  A DRAFT is never ready.
StartClose(q, force) ==
    /\ mesa.status = "ACTIVE"
    /\ mesa.ready /\ AllCaptured
    /\ force \/ (mesa.end # Null /\ mesa.end <= now)
    /\ mesa.settled \/ Sound
    /\ Begin(q, [op |-> "close", seen |-> mesa, rows |-> Null])
    /\ UNCHANGED <<season, wallet, mesa, participant, invite>>

BuildRows(q) ==
    /\ request[q].op \in {"recalc", "close"} /\ request[q].rows = Null
    /\ \E rows \in {Rows(request[q].seen)} : Continue(q, [request[q] EXCEPT !.rows = rows])
    /\ UNCHANGED <<season, wallet, mesa, participant, invite>>

WriteRows(rows) ==
    participant' = [u \in Users |->
        IF u \in DOMAIN rows
        THEN [participant[u] EXCEPT !.score = rows[u].score, !.position = rows[u].position]
        ELSE participant[u]]

CommitRecalculation(q) ==
    /\ request[q].op = "recalc" /\ request[q].rows # Null
    /\ WriteRows(request[q].rows)
    /\ End(q)
    /\ UNCHANGED <<season, wallet, mesa, invite>>

\* The place of each row, sorted by its position and then by its user.
RowOrder(position) ==
    LET Before(v, u) == position[v] < position[u] \/ (position[v] = position[u] /\ v < u)
    IN  [u \in DOMAIN position |-> Cardinality({v \in DOMAIN position : Before(v, u)})]

\* The coins each winner gets; those of a sponsored Mesa need an active PRO.
Prize(m, rows) ==
    LET position == [u \in DOMAIN rows |-> rows[u].position]
        payouts == Payouts(Reward(m.gross, m.terms), m.terms.distribution, position,
                           RowOrder(position))
    IN  IF m.terms.category = "FREE" THEN [u \in {} |-> 0]
        ELSE IF m.terms.category = "SPONSORED_FREE"
             THEN [u \in DOMAIN payouts \cap pro |-> payouts[u]]
             ELSE payouts

\* Fault: only the row read before the payment says that nothing was paid.
UnsettledWhenRead(m) == ~m.settled

\* where: { settledAt: null } of the update that ends the settlement.
Unsettled(m) == ~mesa.settled

\* Fault: the balance is incremented without the ledger row.
PayWithoutRow(w, amount) == [w EXCEPT !.balance = @ + amount]

Pay(w, amount) == Credit(w, amount)

CommitClose(q) ==
    /\ request[q].op = "close" /\ request[q].rows # Null
    /\ Unsettled(request[q].seen)
    /\ WriteRows(request[q].rows)
    /\ \E prize \in {Prize(request[q].seen, request[q].rows)} :
            wallet' = [u \in Users |->
                IF u \in DOMAIN prize THEN Pay(wallet[u], prize[u]) ELSE wallet[u]]
    /\ mesa' = [mesa EXCEPT !.settled = TRUE, !.status = "CLOSED",
                            !.fee = PlatformFee(request[q].seen.gross),
                            !.pool = Reward(request[q].seen.gross, request[q].seen.terms)]
    /\ End(q)
    /\ UNCHANGED <<season, invite>>

\* A refused write, a crash, a timeout: the transaction leaves nothing behind.
RollBack(q) ==
    /\ request[q] # Idle
    /\ End(q)
    /\ UNCHANGED <<season, wallet, mesa, participant, invite>>

-----------------------------------------------------------------------------
(* THE SEASON: the rounds in the order of their numbers, as Rounds has them *)
(* in detail, the clock and the subscriptions.                              *)

OpenRound(r) ==
    /\ round[r] = "DRAFT" /\ OpenRounds = {}
    /\ \A s \in Rounds : s < r => round[s] # "DRAFT"
    /\ round' = [round EXCEPT ![r] = "OPEN"]
    /\ UNCHANGED <<now, history, total, pro, wallet, mesa, participant, invite, request>>

\* The job closes a round at closeAt; an admin may close it at any time.
CloseRound(r) ==
    /\ round[r] = "OPEN"
    /\ round' = [round EXCEPT ![r] = "CLOSED"]
    /\ UNCHANGED <<now, history, total, pro, wallet, mesa, participant, invite, request>>

\* cancelRound of RoundAdmin: an OPEN round only if nobody has played it.
CancelRound(r) ==
    /\ round[r] = "DRAFT" \/ (round[r] = "OPEN" /\ \A u \in Users : ~HasTicket(u, r))
    /\ round' = [round EXCEPT ![r] = "CANCELLED"]
    /\ UNCHANGED <<now, history, total, pro, wallet, mesa, participant, invite, request>>

ScoreRound(r) ==
    /\ round[r] = "CLOSED"
    /\ round' = [round EXCEPT ![r] = "SCORED"]
    /\ history' = [u \in Users |->
            IF Points[u][r] = Null THEN history[u]
            ELSE [history[u] EXCEPT ![r] = total[u] + Points[u][r]]]
    /\ total' = [u \in Users |-> total[u] + OrElse(Points[u][r], 0)]
    /\ UNCHANGED <<now, pro, wallet, mesa, participant, invite, request>>

Tick ==
    /\ now < MaxNow
    /\ now' = now + 1
    /\ UNCHANGED <<round, history, total, pro, wallet, mesa, participant, invite, request>>

\* A subscription ends; none begins (a bound).
LosePro(u) ==
    /\ u \in pro
    /\ pro' = pro \ {u}
    /\ UNCHANGED <<now, round, history, total, wallet, mesa, participant, invite, request>>

-----------------------------------------------------------------------------
Enrol(q) ==
    \/ \E u \in Users, invited \in BOOLEAN : StartJoin(q, u, invited)
    \/ CommitJoin(q)
    \/ \E t \in NewTerms, admin \in BOOLEAN, mode \in {"KEEP", "DRAFT", "AT_START", "NOW"} :
         StartEdit(q, t, admin, mode)
    \/ CommitEdit(q)

StartJob(q) ==
    \/ StartUnschedule(q)
    \/ StartCloseRegistrations(q)
    \/ StartFinish(q)
    \/ StartClose(q, FALSE)

CommitJob(q) ==
    \/ CommitUnschedule(q)
    \/ CommitCloseRegistrations(q)
    \/ CommitFinish(q)

Season ==
    \/ \E r \in Rounds : OpenRound(r) \/ CloseRound(r) \/ ScoreRound(r) \/ CancelRound(r)
    \/ Tick
    \/ \E u \in Users : LosePro(u)

Next ==
    \/ \E t \in Terms, admin \in BOOLEAN, mode \in {"DRAFT", "AT_START", "NOW"} :
         Create(t, admin, mode)
    \/ Publish
    \/ PublishScheduled
    \/ \E max \in InviteUses : CreateInvite(max)
    \/ \E q \in Requests : Enrol(q) \/ \E force \in BOOLEAN : StartClose(q, force)
    \/ \E q \in Jobs :
         StartJob(q) \/ CommitJob(q) \/ StartRecalculation(q) \/ CommitRecalculation(q)
    \/ \E q \in Requests \cup Jobs : BuildRows(q) \/ CommitClose(q) \/ RollBack(q)
    \/ Capture
    \/ Season

Spec == Init /\ [][Next]_vars

\* The clock goes on (the season need not).  The worker runs every job each minute: a job
\* that has something to do gets its turn, and does not fail for ever.
Fairness ==
    /\ WF_vars(Tick)
    /\ WF_vars(PublishScheduled)
    /\ WF_vars(Capture)
    /\ \A q \in Jobs :
         /\ SF_vars(StartJob(q))
         /\ SF_vars(BuildRows(q))
         /\ SF_vars(CommitJob(q) \/ CommitClose(q))
         /\ WF_vars(CommitRecalculation(q))

FairSpec == Spec /\ Fairness

-----------------------------------------------------------------------------
(* PROPERTIES                                                               *)

Debited == SumFunction([u \in Users |-> wallet[u].debited])
Paid(u) == wallet[u].credited - Stake[u]
PaidOut == SumFunction([u \in Users |-> Paid(u)])

FeeOf(u) == IF participant[u] = Null THEN 0 ELSE participant[u].fee

\* However entries, edits of the price, publications and invites overlap, a
\* player is charged exactly what the only participation says, and every
\* participation holds one seat (JoinBolaoService: debit, reservation and
\* participant row commit together).
EntriesAccounted ==
    /\ \A u \in Users : wallet[u].debited = FeeOf(u)
    /\ mesa # NoMesa => mesa.seats = Cardinality(Approved)

\* An invite is used up only by entries that went through, each of them once, and
\* never beyond its limit (UseBolaoInviteService reserves in the entry's own
\* transaction).
InviteUsesAccounted ==
    invite # Null =>
        /\ invite.used = Cardinality({u \in Approved : participant[u].invited})
        /\ invite.used <= invite.max

\* Coins neither appear nor vanish: whatever closes the Mesa, and whoever enters
\* meanwhile, the winners get, once, at most what the entries left after the fee plus
\* the sponsor's share; and once a paid Mesa is settled, every coin its players paid is
\* the platform's fee or in a winner's wallet (SettleBolaoService, unique payout keys).
\* It is so while nobody edits the Mesa once it is published: an edit that read the
\* Mesa before an entry committed resets the coins counted, and may let more players in
\* than a settlement under way has read (UpdateMesaService).
CoinsAreConserved ==
    mesa # NoMesa =>
        /\ PaidOut <= PrizePool(Debited) + (IF mesa.settled THEN mesa.terms.sponsor ELSE 0)
        /\ mesa.settled /\ mesa.terms.category = "PAID" => PaidOut + mesa.fee = Debited

\* The reference round and the initial scores are final: no later entry, edit or
\* job moves the round that closed the registrations, or a score once captured
\* (JoinBolaoService's conditional update, MesaInitialScoreService).
CaptureIsFinal ==
    [][/\ mesa # NoMesa /\ mesa.ref # Null => mesa'.ref = mesa.ref /\ mesa'.closedAt = mesa.closedAt
       /\ \A u \in Users : participant[u] # Null /\ participant[u].base # Null =>
            participant'[u] # Null /\ participant'[u].base = participant[u].base]_vars

\* The points of u in each round, none without a ticket.
PointsOf(u) == [r \in Rounds |-> OrElse(Points[u][r], 0)]

\* The rounds were scored in the order of their numbers.
ScoredInOrder ==
    \A r \in Rounds, u \in Users : round[r] = "SCORED" /\ history[u][r] # Null =>
        history[u][r] = SumFunctionOnSet(PointsOf(u), 1..r)

Earned(u, R) == SumFunctionOnSet(PointsOf(u), {r \in R : round[r] = "SCORED"})

\* A Mesa is paid by what its players earned in it: when the rounds are scored in
\* order, the score that settles a Mesa of so many rounds at its end is the points
\* of that many scored rounds after the reference round, the first ones, however
\* late the capture, the scoring and the closing job run, and whatever
\* recalculations run beside them (CloseRankingService, buildRows).
\* An entry that outlives the capture leaves a player without a baseline, and the
\* rows of such a Mesa are all zero: AllCaptured sets that case aside.
SettledByOwnRounds ==
    [][\A q \in Requests \cup Jobs :
         /\ request[q].op = "close" /\ request[q].seen.end # Null
         /\ mesa.status = "ACTIVE" /\ mesa'.status = "CLOSED" /\ request'[q] = Idle
         /\ RoundMode(mesa.terms) /\ ScoredInOrder /\ AllCaptured
         => LET own == {r \in RoundsAfter :
                            Cardinality({s \in RoundsAfter : s <= r}) <= mesa.terms.rounds}
            IN  \A u \in Approved : participant'[u].score = Earned(u, own)]_vars

L == INSTANCE Ledger WITH Users <- Users, wallet <- wallet

\* A Mesa moves coins as the ledger promises: entries and payouts, overlapping
\* with edits and closings, never overdraw a wallet nor change a balance without
\* a row (BolaoEntryPaymentService, SettleBolaoService).
LedgerSpec == L!Spec

Ended == mesa # NoMesa /\ mesa.status = "CLOSED"

\* Enough rounds were scored after the one that closed the registrations.
RoundsPlayed ==
    /\ mesa # NoMesa /\ mesa.status = "ACTIVE" /\ RoundMode(mesa.terms)
    /\ mesa.ref # Null
    /\ Cardinality(RoundsAfter) >= mesa.terms.rounds

\* A Mesa whose reference round and whose own rounds have all been scored is
\* captured, given its end, closed and paid, in spite of the jobs' failures and
\* of recalculations in between (CloseExpiredRankingsService).
PlayedMesaEnds == RoundsPlayed /\ round[mesa.ref] = "SCORED" ~> Ended

\* Stronger: the reference round itself may be anything.  Nothing keeps an admin
\* from cancelling a reference round that nobody played; it is never scored then,
\* and the Mesa waits for it with its players' coins.
LastRoundEndsMesa == RoundsPlayed ~> Ended

\* The result of a closed Mesa stays as it was settled.  A recalculation that read
\* the Mesa before the closing writes its rows after it.
ResultIsFinal ==
    [][mesa # NoMesa /\ mesa.status = "CLOSED" =>
         \A u \in Approved : participant'[u].score = participant[u].score
                            /\ participant'[u].position = participant[u].position]_vars

\* A scheduled publication does not linger: it is published, or given up because
\* its creator cannot pay for the entry or lost the PRO plan.
ScheduleEnds == Scheduled ~> ~Scheduled

=============================================================================
