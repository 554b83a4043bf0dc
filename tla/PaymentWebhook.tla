--------------------------- MODULE PaymentWebhook ---------------------------
(***************************************************************************)
(* Mercado Pago checkouts and the webhook that settles them:               *)
(* CreatePaymentService, CreateSubscriptionCheckoutService,                *)
(* MercadoPagoWebhookController, ProcessMercadoPagoWebhookService and      *)
(* RenewSubscriptionFromPaymentService, with what else changes the         *)
(* subscription: CancelSubscriptionService and the daily revalidation.     *)
(*                                                                         *)
(* The provider moves on its own, tells the API about each move with an    *)
(* event of its own id and also through the legacy IPN, whose id is the    *)
(* same for every move of a payment, and repeats a notification until one  *)
(* delivery is answered with 200.  Any number of deliveries may be in      *)
(* progress at once (several requests of one process, several replicas).   *)
(***************************************************************************)
EXTENDS WalletOps, FiniteSets, Functions

CONSTANTS
    Users,
    Payments,     \* local payments, one per checkout
    Owner,        \* [Payments -> Users]
    Purpose,      \* [Payments -> {"WALLET_CREDIT", "SUBSCRIPTION"}]
    Coins,        \* coinsAmount + bonusCoins of a WALLET_CREDIT payment
    Months,       \* subscriptionValidityMonths of a SUBSCRIPTION payment
    Subscribed,   \* [Users -> endAt of the subscription at the start, NoRow if none]
    MpPayments,   \* the provider's payments: one checkout may see several
    Foreign,      \* external_reference of a provider payment nobody here knows
    LegacyIpn,    \* whether the provider account still sends the legacy IPN too
    Cancellers,   \* the users who may cancel their subscription
    Handlers,     \* webhook deliveries that can be in progress together
    MaxNow,       \* bound on the clock (in months)
    MaxFailures   \* bound on transactions that roll back

NoRow == -1

ASSUME PaymentAssumption ==
    /\ IsFiniteSet(Payments)
    /\ Owner \in [Payments -> Users]
    /\ Purpose \in [Payments -> {"WALLET_CREDIT", "SUBSCRIPTION"}]
    /\ Coins \in [Payments -> Nat \ {0}]
    /\ Months \in [Payments -> Nat \ {0}]
    /\ Subscribed \in [Users -> Nat \cup {NoRow}]
    /\ Foreign \notin Payments
    /\ Cancellers \subseteq Users
    /\ LegacyIpn \in BOOLEAN
    /\ MaxNow \in Nat /\ MaxFailures \in Nat

VARIABLES
    payments,      \* payments table
    mercadoPago,   \* the provider's view of its payments (external)
    outbox,        \* notifications the provider still has to deliver (external)
    events,        \* payment_webhook_events: the external ids recorded
    wallet,        \* wallets and wallet_ledger
    creditRows,    \* ledger rows described "Pagamento Mercado Pago ..." of a payment
    endAt,         \* subscriptions.endAt, NoRow where the user has no row
    proStatus,     \* subscriptions.status, where there is a row
    cancelling,    \* users whose request has read a subscription it will cancel
    handler,       \* deliveries in progress
    now,           \* the clock
    failures       \* transactions rolled back so far

coinVars == <<wallet, creditRows>>
subscription == <<endAt, proStatus, cancelling>>
vars == <<payments, mercadoPago, outbox, events, wallet, creditRows, endAt, proStatus,
          cancelling, handler, now, failures>>

\* The status groups mapMpStatus tells apart; in_process and the others are pending.
MpStatus == {"pending", "approved", "rejected", "cancelled", "refunded"}
PaymentStatus == {"PENDING", "APPROVED", "REJECTED", "CANCELLED", "REFUNDED"}

mapMpStatus ==
    [pending |-> "PENDING", approved |-> "APPROVED", rejected |-> "REJECTED",
     cancelled |-> "CANCELLED", refunded |-> "REFUNDED"]

NoMp == "no provider payment"

\* A notification is its external event id and the provider payment it names.
ModernNote(m, status) == <<m, status>>
LegacyNote(m) == <<m, "legacy">>
Notifications == MpPayments \X (MpStatus \cup {"legacy"})

NoPayment == [state |-> "NONE", status |-> "PENDING", processed |-> FALSE, ext |-> NoMp]
PaymentRow == [state : {"NONE", "CREATED", "CHECKOUT"}, status : PaymentStatus,
               processed : BOOLEAN, ext : MpPayments \cup {NoMp}]

Unpaid == [ref |-> Foreign, status |-> "unpaid", valid |-> FALSE]
MpRow == [ref : Payments \cup {Foreign}, status : MpStatus \cup {"unpaid"}, valid : BOOLEAN]

IdleHandler == [pc |-> "idle"]
Fetched == [pc : {"fetched"}, note : Notifications, status : MpStatus]
Settling == [pc : {"settle"}, note : Notifications, status : MpStatus]
Renewing == [pc : {"renew"}, note : Notifications, status : MpStatus,
             rowSeen : BOOLEAN, newEndAt : Nat]

TypeOK ==
    /\ payments \in [Payments -> PaymentRow]
    /\ mercadoPago \in [MpPayments -> MpRow]
    /\ outbox \subseteq Notifications
    /\ events \subseteq Notifications
    /\ wallet \in [Users -> Account]
    /\ creditRows \in [Payments -> Nat]
    /\ endAt \in [Users -> Nat \cup {NoRow}]
    /\ proStatus \in [Users -> {"ACTIVE", "CANCELLED", "EXPIRED"}]
    /\ cancelling \subseteq Users
    /\ handler \in [Handlers -> {IdleHandler} \cup Fetched \cup Settling \cup Renewing]
    /\ now \in 0..MaxNow
    /\ failures \in 0..MaxFailures

Init ==
    /\ payments = [p \in Payments |-> NoPayment]
    /\ mercadoPago = [m \in MpPayments |-> Unpaid]
    /\ outbox = {}
    /\ events = {}
    /\ wallet = [u \in Users |-> EmptyWallet]
    /\ creditRows = [p \in Payments |-> 0]
    /\ endAt = Subscribed
    /\ proStatus = [u \in Users |-> "ACTIVE"]
    /\ cancelling = {}
    /\ handler = [h \in Handlers |-> IdleHandler]
    /\ now = 0
    /\ failures = 0

-----------------------------------------------------------------------------
(* CHECKOUT: a row first, then the provider's preference, then its URL.     *)

\* A row that awaits its preference, or that has the provider's URL.
Reaches(p, state) ==
    /\ payments' = [payments EXCEPT ![p].state = state]
    /\ UNCHANGED <<mercadoPago, outbox, events, coinVars, subscription, handler, now, failures>>

\* CreatePaymentService: a package of coins.
CreatePayment(p) ==
    /\ Purpose[p] = "WALLET_CREDIT"
    /\ payments[p].state = "NONE"
    /\ Reaches(p, "CREATED")

\* createPreference answered: the second transaction stores the checkout URL.
\* If it never does, the row stays PENDING and nobody can pay it.
SaveCheckout(p) ==
    /\ Purpose[p] = "WALLET_CREDIT"
    /\ payments[p].state = "CREATED"
    /\ Reaches(p, "CHECKOUT")

\* CreateSubscriptionCheckoutService: months of a plan.
CreateSubscriptionCheckout(p) ==
    /\ Purpose[p] = "SUBSCRIPTION"
    /\ payments[p].state = "NONE"
    /\ Reaches(p, "CREATED")

SaveSubscriptionCheckout(p) ==
    /\ Purpose[p] = "SUBSCRIPTION"
    /\ payments[p].state = "CREATED"
    /\ Reaches(p, "CHECKOUT")

-----------------------------------------------------------------------------
(* THE PROVIDER (external)                                                  *)

Notify(m, status) ==
    outbox' = outbox \cup {ModernNote(m, status)}
                     \cup (IF LegacyIpn THEN {LegacyNote(m)} ELSE {})

Pay(m, ref, status, valid) ==
    /\ mercadoPago[m] = Unpaid
    /\ IF ref = Foreign THEN ~valid ELSE payments[ref].state = "CHECKOUT"
    /\ mercadoPago' = [mercadoPago EXCEPT ![m] =
                         [ref |-> ref, status |-> status, valid |-> valid]]
    /\ Notify(m, status)
    /\ UNCHANGED <<payments, events, coinVars, subscription, handler, now, failures>>

Advance(m, status) ==
    /\ \/ mercadoPago[m].status = "pending" /\ status \in {"approved", "rejected", "cancelled"}
       \/ mercadoPago[m].status = "approved" /\ status = "refunded"
    /\ mercadoPago' = [mercadoPago EXCEPT ![m].status = status]
    /\ Notify(m, status)
    /\ UNCHANGED <<payments, events, coinVars, subscription, handler, now, failures>>

Tick ==
    /\ now < MaxNow
    /\ now' = now + 1
    /\ UNCHANGED <<payments, mercadoPago, outbox, events, coinVars, subscription, handler,
                   failures>>

-----------------------------------------------------------------------------
(* THE WEBHOOK                                                              *)

Note(h) == handler[h].note
Mp(h) == mercadoPago[Note(h)[1]]

\* getPayment runs before the transaction: its answer may be old when it is used.
Receive(h, n) ==
    /\ handler[h] = IdleHandler
    /\ n \in outbox
    /\ handler' = [handler EXCEPT ![h] =
                     [pc |-> "fetched", note |-> n, status |-> mercadoPago[n[1]].status]]
    /\ UNCHANGED <<payments, mercadoPago, outbox, events, coinVars, subscription, now, failures>>

InTransaction(h) == handler[h].pc \in {"settle", "renew"}

\* The insert of an external id waits while another open transaction has
\* inserted the same one: unique (provider, externalEventId).
EventIsFree(n) == \A h \in Handlers : InTransaction(h) => Note(h) # n

\* Answer 200: the provider stops repeating the notification.
Acknowledge(h) ==
    /\ outbox' = outbox \ {Note(h)}
    /\ handler' = [handler EXCEPT ![h] = IdleHandler]

\* P2002 on the insert: somebody has dealt with this event already.
SkipDuplicate(h) ==
    /\ handler[h].pc = "fetched"
    /\ Note(h) \in events
    /\ Acknowledge(h)
    /\ UNCHANGED <<payments, mercadoPago, events, coinVars, subscription, now, failures>>

\* Fault: the guard on processedAt is gone.
NeverProcessed(p) == payments[p].state = "NONE"

AlreadyProcessed(p) == payments[p].processed

\* The transaction that has nothing to settle commits its event and an audit
\* row: no local payment has the reference, or processedAt is set.
RecordOnly(h) ==
    /\ handler[h].pc = "fetched"
    /\ Note(h) \notin events
    /\ EventIsFree(Note(h))
    /\ Mp(h).ref \in Payments => AlreadyProcessed(Mp(h).ref)
    /\ events' = events \cup {Note(h)}
    /\ Acknowledge(h)
    /\ UNCHANGED <<payments, mercadoPago, coinVars, subscription, now, failures>>

\* The event is inserted, the payment is read and processedAt is null.
Begin(h) ==
    /\ handler[h].pc = "fetched"
    /\ Note(h) \notin events
    /\ EventIsFree(Note(h))
    /\ Mp(h).ref \in Payments
    /\ ~AlreadyProcessed(Mp(h).ref)
    /\ handler' = [handler EXCEPT ![h] =
                     [pc |-> "settle", note |-> Note(h), status |-> handler[h].status]]
    /\ UNCHANGED <<payments, mercadoPago, outbox, events, coinVars, subscription, now, failures>>

Commit(h) ==
    /\ events' = events \cup {Note(h)}
    /\ Acknowledge(h)

\* Fault: the status is written before anybody asks whether it is an approval.
CommitAnyStatus(h) ==
    /\ handler[h].pc = "settle"
    /\ payments' = [payments EXCEPT ![Mp(h).ref].status = mapMpStatus[handler[h].status],
                                    ![Mp(h).ref].ext = Note(h)[1]]
    /\ Commit(h)
    /\ UNCHANGED <<mercadoPago, coinVars, subscription, now, failures>>

\* Not approved: the row takes the provider's status, whatever it is by now.
CommitStatus(h) ==
    /\ handler[h].pc = "settle"
    /\ handler[h].status # "approved"
    /\ payments' = [payments EXCEPT ![Mp(h).ref].status = mapMpStatus[handler[h].status],
                                    ![Mp(h).ref].ext = Note(h)[1]]
    /\ Commit(h)
    /\ UNCHANGED <<mercadoPago, coinVars, subscription, now, failures>>

\* validateMercadoPagoPayment: the currency and the amount the provider reports.
CommitInvalid(h) ==
    /\ handler[h].pc = "settle"
    /\ handler[h].status = "approved"
    /\ ~Mp(h).valid
    /\ Commit(h)
    /\ UNCHANGED <<payments, mercadoPago, coinVars, subscription, now, failures>>

Approve(h) ==
    payments' = [payments EXCEPT ![Mp(h).ref] =
                   [@ EXCEPT !.status = "APPROVED", !.processed = TRUE, !.ext = Note(h)[1]]]

\* Fault: amount and currency are not validated.
CanSettleUnchecked(h, purpose) ==
    /\ handler[h].pc = "settle"
    /\ handler[h].status = "approved"
    /\ Purpose[Mp(h).ref] = purpose

CanSettle(h, purpose) ==
    /\ handler[h].pc = "settle"
    /\ handler[h].status = "approved"
    /\ Mp(h).valid
    /\ Purpose[Mp(h).ref] = purpose

CommitCredit(h) ==
    /\ CanSettle(h, "WALLET_CREDIT")
    /\ LET p == Mp(h).ref
       IN  /\ wallet' = [wallet EXCEPT ![Owner[p]] = Credit(@, Coins[p])]
           /\ creditRows' = [creditRows EXCEPT ![p] = @ + 1]
    /\ Approve(h)
    /\ Commit(h)
    /\ UNCHANGED <<mercadoPago, subscription, now, failures>>

\* Fault: the months count from today even when the subscription runs longer.
ReadSubscriptionFromToday(h) ==
    /\ CanSettle(h, "SUBSCRIPTION")
    /\ LET p == Mp(h).ref
       IN  handler' = [handler EXCEPT ![h] =
                         [pc |-> "renew", note |-> Note(h), status |-> handler[h].status,
                          rowSeen |-> endAt[Owner[p]] # NoRow, newEndAt |-> now + Months[p]]]
    /\ UNCHANGED <<payments, mercadoPago, outbox, events, coinVars, subscription, now, failures>>

\* RenewSubscriptionFromPayment reads the subscription and the clock ...
ReadSubscription(h) ==
    /\ CanSettle(h, "SUBSCRIPTION")
    /\ LET p == Mp(h).ref
           end == endAt[Owner[p]]
           base == IF end > now THEN end ELSE now
       IN  handler' = [handler EXCEPT ![h] =
                         [pc |-> "renew", note |-> Note(h), status |-> handler[h].status,
                          rowSeen |-> end # NoRow, newEndAt |-> base + Months[p]]]
    /\ UNCHANGED <<payments, mercadoPago, outbox, events, coinVars, subscription, now, failures>>

\* ... and writes the sum it computed, by update or by create.
RowAsSeen(h) == handler[h].rowSeen \/ endAt[Owner[Mp(h).ref]] = NoRow

\* Fault: a renewal only writes the dates.
StatusAsBefore(u) == proStatus[u]

RenewedStatus(u) == "ACTIVE"

CommitRenewal(h) ==
    /\ handler[h].pc = "renew"
    /\ RowAsSeen(h)
    /\ LET u == Owner[Mp(h).ref]
       IN  /\ endAt' = [endAt EXCEPT ![u] = handler[h].newEndAt]
           /\ proStatus' = [proStatus EXCEPT ![u] = RenewedStatus(u)]
    /\ Approve(h)
    /\ Commit(h)
    /\ UNCHANGED <<mercadoPago, wallet, creditRows, cancelling, now, failures>>

\* subscription.create meets a row created meanwhile: P2002, the transaction
\* rolls back, the answer is 500 and the notification comes again.
RenewalConflict(h) ==
    /\ handler[h].pc = "renew"
    /\ ~RowAsSeen(h)
    /\ handler' = [handler EXCEPT ![h] = IdleHandler]
    /\ UNCHANGED <<payments, mercadoPago, outbox, events, coinVars, subscription, now, failures>>

\* Fault: the controller answers 200 whatever happened.
FailAcknowledged(h) ==
    /\ handler[h] # IdleHandler
    /\ failures < MaxFailures
    /\ failures' = failures + 1
    /\ Acknowledge(h)
    /\ UNCHANGED <<payments, mercadoPago, events, coinVars, subscription, now>>

\* A crash, a timeout of getPayment or any other error before the commit.
Fail(h) ==
    /\ handler[h] # IdleHandler
    /\ failures < MaxFailures
    /\ failures' = failures + 1
    /\ handler' = [handler EXCEPT ![h] = IdleHandler]
    /\ UNCHANGED <<payments, mercadoPago, outbox, events, coinVars, subscription, now>>

-----------------------------------------------------------------------------
(* THE SUBSCRIPTION: what the user and the daily job do to it.  Its rows    *)
(* have no preapproval at the provider (externalSubscriptionId is null): no *)
(* code that runs writes one.                                               *)

\* CancelSubscriptionService reads the row, then updates it by id.
StartCancel(u) ==
    /\ endAt[u] # NoRow /\ proStatus[u] # "CANCELLED"
    /\ cancelling' = cancelling \cup {u}
    /\ UNCHANGED <<payments, mercadoPago, outbox, events, coinVars, endAt, proStatus,
                   handler, now, failures>>

CommitCancel(u) ==
    /\ u \in cancelling
    /\ proStatus' = [proStatus EXCEPT ![u] = "CANCELLED"]
    /\ cancelling' = cancelling \ {u}
    /\ UNCHANGED <<payments, mercadoPago, outbox, events, coinVars, endAt, handler,
                   now, failures>>

\* RevalidateActiveSubscriptionsService: one statement for all the fixed terms.
ExpireFixedTerm ==
    /\ proStatus' = [u \in Users |->
            IF endAt[u] # NoRow /\ proStatus[u] = "ACTIVE" /\ endAt[u] <= now
            THEN "EXPIRED" ELSE proStatus[u]]
    /\ UNCHANGED <<payments, mercadoPago, outbox, events, coinVars, endAt, cancelling,
                   handler, now, failures>>

\* hasActiveProSubscription: a cancelled one serves until it ends.
HasAccess(u) == endAt[u] # NoRow /\ proStatus[u] # "EXPIRED" /\ endAt[u] > now

-----------------------------------------------------------------------------
Step(h) ==
    \/ SkipDuplicate(h)
    \/ RecordOnly(h)
    \/ Begin(h)
    \/ CommitStatus(h)
    \/ CommitInvalid(h)
    \/ CommitCredit(h)
    \/ ReadSubscription(h)
    \/ CommitRenewal(h)
    \/ RenewalConflict(h)

Next ==
    \/ \E p \in Payments : \/ CreatePayment(p) \/ SaveCheckout(p)
                           \/ CreateSubscriptionCheckout(p) \/ SaveSubscriptionCheckout(p)
    \/ \E m \in MpPayments, ref \in Payments \cup {Foreign}, valid \in BOOLEAN :
         \E status \in {"pending", "approved", "rejected"} : Pay(m, ref, status, valid)
    \/ \E m \in MpPayments, status \in MpStatus : Advance(m, status)
    \/ Tick
    \/ \E u \in Cancellers : StartCancel(u) \/ CommitCancel(u)
    \/ ExpireFixedTerm
    \/ \E h \in Handlers, n \in Notifications : Receive(h, n)
    \/ \E h \in Handlers : Step(h) \/ Fail(h)

Spec == Init /\ [][Next]_vars

\* The provider repeats what was not answered, and a delivery that started ends.
Fairness ==
    /\ \A n \in Notifications : WF_vars(\E h \in Handlers : Receive(h, n))
    /\ \A h \in Handlers : WF_vars(Step(h))

FairSpec == Spec /\ Fairness

-----------------------------------------------------------------------------
(* PROPERTIES                                                               *)

PaidBy(m, p) ==
    /\ mercadoPago[m].ref = p
    /\ mercadoPago[m].valid
    /\ mercadoPago[m].status \in {"approved", "refunded"}

\* A payment is settled only on the strength of a provider payment that names
\* it, was approved, and has the right amount and currency; the row keeps
\* pointing at a provider payment of this checkout however stale the
\* answers of getPayment are (execute, lines 99-145).
SettledOnlyIfPaid ==
    \A p \in Payments :
        /\ payments[p].processed \/ creditRows[p] > 0 => \E m \in MpPayments : PaidBy(m, p)
        /\ payments[p].ext # NoMp => mercadoPago[payments[p].ext].ref = p

CreditsOf(u) == SumFunction([p \in {q \in Payments : Owner[q] = u} |-> creditRows[p] * Coins[p]])

\* What the payment anomaly alert watches for never happens: a WALLET_CREDIT
\* payment shown as APPROVED has been credited, and every credit of a wallet is
\* the coins of such payments (approvedWalletCreditNotCreditedWhere).
ApprovedIsCredited ==
    /\ \A p \in Payments :
         payments[p].status = "APPROVED" /\ Purpose[p] = "WALLET_CREDIT" =>
            payments[p].processed /\ creditRows[p] > 0
    /\ \A u \in Users : wallet[u].balance = CreditsOf(u)

\* A payment is credited once, whatever the provider sends: the second
\* approval finds processedAt set (PAYMENT_WEBHOOK_ALREADY_PROCESSED).
CreditedOnce == \A p \in Payments : creditRows[p] <= 1

\* A settled subscription payment moves the end of the subscription by at least
\* the months that were paid, never back, whether the subscription still runs or
\* not (RenewSubscriptionFromPaymentService).  Deliveries that overlap break it.
RenewalAddsPaidMonths ==
    [][\A p \in Payments :
          Purpose[p] = "SUBSCRIPTION" /\ ~payments[p].processed /\ payments'[p].processed =>
             LET end == endAt[Owner[p]]
             IN  endAt'[Owner[p]] >= (IF end = NoRow THEN 0 ELSE end) + Months[p]]_vars

\* Time that was paid for gives access: a user whose subscription has not reached
\* its end has the PRO plan, however cancellations, the daily expiry, renewals and
\* the clock interleave (CancelSubscriptionService: access lasts until endAt).
PaidTimeGivesAccess == \A u \in Users : endAt[u] > now => HasAccess(u)

\* A valid approved payment is settled in the end, through lost deliveries,
\* duplicates and failed transactions, unless the provider refunds it first.
ApprovedIsSettled ==
    \A m \in MpPayments, p \in Payments :
        (mercadoPago[m].ref = p /\ mercadoPago[m].valid /\ mercadoPago[m].status = "approved")
            ~> (payments[p].processed \/ mercadoPago[m].status = "refunded")

L == INSTANCE Ledger WITH Users <- Users, wallet <- wallet

\* The webhook moves coins as the ledger promises: whatever deliveries overlap,
\* fail or repeat, a balance changes only together with a credit row
\* (ProcessMercadoPagoWebhookService, WalletService).
LedgerSpec == L!Spec

=============================================================================
