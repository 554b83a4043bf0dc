---------------------------- MODULE PaymentProofs ----------------------------
(***************************************************************************)
(* Theorems about PaymentWebhook, for any number of users, checkouts,      *)
(* provider payments and deliveries in progress, and any number of         *)
(* failures.                                                               *)
(***************************************************************************)
EXTENDS PaymentWebhook, Aggregates, TLAPS

-----------------------------------------------------------------------------
(* THE INVARIANT                                                            *)

\* A notification is about a payment that was made.
NotesArePaid ==
    /\ \A n \in outbox : mercadoPago[n[1]].status # "unpaid"
    /\ \A h \in Handlers : handler[h] # IdleHandler => Mp(h).status # "unpaid"

\* What a delivery has seen of the provider is still so, or was refunded since.
SeenIsSo ==
    \A h \in Handlers : handler[h] # IdleHandler =>
        /\ handler[h].status = "approved" => Mp(h).status \in {"approved", "refunded"}
        /\ handler[h].pc \in {"settle", "renew"} => Mp(h).ref \in Payments
        /\ handler[h].pc = "renew" => handler[h].status = "approved" /\ Mp(h).valid

PaymentInv == TypeOK /\ NotesArePaid /\ SeenIsSo /\ SettledOnlyIfPaid

-----------------------------------------------------------------------------
(* DELIVERIES                                                               *)

\* A delivery that is under way has the fields of its step.
LEMMA HandlerFields ==
    ASSUME TypeOK, NEW h \in Handlers
    PROVE  /\ handler[h].pc = "fetched" => handler[h] \in Fetched
           /\ handler[h].pc = "settle" => handler[h] \in Settling
           /\ handler[h].pc = "renew" => handler[h] \in Renewing
           /\ handler[h].pc \in {"fetched", "settle", "renew"} => handler[h] # IdleHandler
  <1>1. handler[h] \in {IdleHandler} \cup Fetched \cup Settling \cup Renewing
    BY DEF TypeOK
  <1>2. handler[h] = IdleHandler => handler[h].pc = "idle"
    BY DEF IdleHandler
  <1>3. handler[h] \in Fetched => handler[h].pc = "fetched"
    BY DEF Fetched
  <1>4. handler[h] \in Settling => handler[h].pc = "settle"
    BY DEF Settling
  <1>5. handler[h] \in Renewing => handler[h].pc = "renew"
    BY DEF Renewing
  <1> QED
    BY <1>1, <1>2, <1>3, <1>4, <1>5

\* The note of a delivery is about one of the provider's payments.
LEMMA NoteType ==
    ASSUME TypeOK, NEW h \in Handlers, handler[h].pc \in {"fetched", "settle", "renew"}
    PROVE  /\ Note(h) \in Notifications /\ Note(h)[1] \in MpPayments
           /\ handler[h].status \in MpStatus
           /\ Mp(h) \in MpRow
  <1>1. handler[h].note \in Notifications /\ handler[h].status \in MpStatus
    BY HandlerFields DEF Fetched, Settling, Renewing
  <1>2. handler[h].note[1] \in MpPayments
    BY <1>1 DEF Notifications
  <1> QED
    BY <1>1, <1>2 DEF Note, Mp, TypeOK

LEMMA NoteOfHandler ==
    ASSUME TypeOK, NEW h \in Handlers, handler[h] # IdleHandler
    PROVE  Note(h)[1] \in MpPayments /\ handler[h].pc \in {"fetched", "settle", "renew"}
  <1>1. handler[h].pc \in {"fetched", "settle", "renew"}
    BY DEF TypeOK, Fetched, Settling, Renewing
  <1> QED
    BY <1>1, NoteType

\* A delivery that ends leaves the others as they are.
LEMMA AcknowledgeType ==
    ASSUME TypeOK, NEW h \in Handlers, Acknowledge(h)
    PROVE  /\ outbox' \subseteq Notifications
           /\ handler' \in [Handlers -> {IdleHandler} \cup Fetched \cup Settling \cup Renewing]
           /\ outbox' \subseteq outbox
           /\ \A i \in Handlers : handler'[i] = IdleHandler \/ handler'[i] = handler[i]
  BY DEF TypeOK, Acknowledge

\* The provider's payment that a processed payment stands for.
LEMMA ApproveKeeps ==
    ASSUME TypeOK, SettledOnlyIfPaid, NEW h \in Handlers, handler[h].pc \in {"settle", "renew"},
           Mp(h).ref \in Payments, Mp(h).valid, Mp(h).status \in {"approved", "refunded"},
           Approve(h), mercadoPago' = mercadoPago,
           \A p \in Payments : p # Mp(h).ref => creditRows'[p] = creditRows[p]
    PROVE  payments' \in [Payments -> PaymentRow] /\ SettledOnlyIfPaid'
  <1> DEFINE p0 == Mp(h).ref
             m0 == Note(h)[1]
  <1>1. m0 \in MpPayments /\ p0 \in Payments /\ mercadoPago[m0] = Mp(h)
    BY NoteType DEF Mp
  <1>2. payments' = [payments EXCEPT ![p0] =
                       [payments[p0] EXCEPT !.status = "APPROVED", !.processed = TRUE, !.ext = m0]]
    BY DEF Approve
  <1>3. PaidBy(m0, p0)
    BY <1>1 DEF PaidBy
  <1> HIDE DEF p0, m0
  <1>4. payments' \in [Payments -> PaymentRow]
    <2> DEFINE row == [payments[p0] EXCEPT !.status = "APPROVED", !.processed = TRUE, !.ext = m0]
    <2>1. payments[p0] \in PaymentRow /\ payments \in [Payments -> PaymentRow]
      BY <1>1 DEF TypeOK
    <2>2. row \in PaymentRow
      BY <1>1, <2>1 DEF PaymentRow, PaymentStatus
    <2> HIDE DEF row
    <2>3. payments' = [payments EXCEPT ![p0] = row]
      BY <1>2 DEF row
    <2> QED
      BY <2>1, <2>2, <2>3
  <1>5. ASSUME NEW p \in Payments
        PROVE  /\ payments'[p].processed \/ creditRows'[p] > 0 =>
                    \E m \in MpPayments : PaidBy(m, p)
               /\ payments'[p].ext # NoMp => mercadoPago[payments'[p].ext].ref = p
    <2>1. CASE p = p0
      <3>1. payments'[p].ext = m0
        BY <1>1, <1>2, <2>1 DEF TypeOK, PaymentRow
      <3>2. mercadoPago[m0].ref = p0
        BY <1>3 DEF PaidBy
      <3> QED
        BY <1>1, <1>3, <2>1, <3>1, <3>2
    <2>2. CASE p # p0
      <3>1. payments'[p] = payments[p] /\ creditRows'[p] = creditRows[p]
        BY <1>2, <2>2 DEF TypeOK, p0
      <3> QED
        BY <3>1 DEF SettledOnlyIfPaid
    <2> QED
      BY <2>1, <2>2
  <1>6. \A p \in Payments, m \in MpPayments : PaidBy(m, p)' <=> PaidBy(m, p)
    BY DEF PaidBy
  <1> QED
    BY <1>4, <1>5, <1>6 DEF SettledOnlyIfPaid

-----------------------------------------------------------------------------
(* CHECKOUTS                                                                *)

Checkout(p) == \/ CreatePayment(p) \/ SaveCheckout(p)
               \/ CreateSubscriptionCheckout(p) \/ SaveSubscriptionCheckout(p)

\* A checkout moves the state of its own row, and nothing else.
LEMMA CheckoutMoves ==
    ASSUME NEW p \in Payments, Checkout(p)
    PROVE  \E state \in {"CREATED", "CHECKOUT"} : Reaches(p, state)
  BY DEF Checkout, CreatePayment, SaveCheckout, CreateSubscriptionCheckout,
         SaveSubscriptionCheckout

-----------------------------------------------------------------------------
(* TYPE CORRECTNESS                                                         *)

HandlerType == [Handlers -> {IdleHandler} \cup Fetched \cup Settling \cup Renewing]

LEMMA CheckoutType ==
    ASSUME TypeOK, NEW p \in Payments, Checkout(p)
    PROVE  TypeOK'
  <1>1. payments' \in [Payments -> PaymentRow]
    BY SMTT(30), CheckoutMoves DEF TypeOK, Reaches, PaymentRow
  <1> QED
    BY <1>1, CheckoutMoves DEF TypeOK, Reaches, coinVars, subscription

LEMMA ProviderType ==
    ASSUME TypeOK, NEW m \in MpPayments, NEW status \in MpStatus,
           \/ Advance(m, status)
           \/ \E ref \in Payments \cup {Foreign}, valid \in BOOLEAN : Pay(m, ref, status, valid)
    PROVE  TypeOK'
  <1>1. mercadoPago' \in [MpPayments -> MpRow]
    BY DEF TypeOK, Advance, Pay, MpRow
  <1>2. Notify(m, status)
    BY DEF Advance, Pay
  <1>3. outbox' \subseteq Notifications
    BY <1>2 DEF TypeOK, Notify, Notifications, ModernNote, LegacyNote
  <1>4. UNCHANGED <<payments, events, wallet, creditRows, endAt, proStatus, cancelling,
                    handler, now, failures>>
    BY DEF Advance, Pay, coinVars, subscription
  <1> QED
    BY <1>1, <1>3, <1>4 DEF TypeOK

LEMMA ReceiveType ==
    ASSUME TypeOK, NotesArePaid, NEW h \in Handlers, NEW n \in Notifications, Receive(h, n)
    PROVE  TypeOK'
  <1>1. mercadoPago[n[1]] \in MpRow /\ mercadoPago[n[1]].status # "unpaid"
    BY DEF TypeOK, Receive, Notifications, NotesArePaid
  <1>2. [pc |-> "fetched", note |-> n, status |-> mercadoPago[n[1]].status] \in Fetched
    BY <1>1 DEF Fetched, MpRow
  <1>3. handler' \in HandlerType
    BY <1>2 DEF TypeOK, Receive, HandlerType
  <1> QED
    BY <1>3 DEF TypeOK, Receive, coinVars, subscription, HandlerType

LEMMA RecordType ==
    ASSUME TypeOK, NEW h \in Handlers,
           SkipDuplicate(h) \/ RecordOnly(h) \/ CommitInvalid(h)
    PROVE  TypeOK'
  <1>1. handler[h].pc \in {"fetched", "settle"} /\ Acknowledge(h)
    BY DEF SkipDuplicate, RecordOnly, CommitInvalid, Commit
  <1>2. events' \subseteq Notifications
    BY <1>1, NoteType DEF TypeOK, SkipDuplicate, RecordOnly, CommitInvalid, Commit
  <1>3. UNCHANGED <<payments, mercadoPago, wallet, creditRows, endAt, proStatus, cancelling,
                    now, failures>>
    BY DEF SkipDuplicate, RecordOnly, CommitInvalid, coinVars, subscription
  <1>4. outbox' \subseteq Notifications /\ handler' \in HandlerType
    BY <1>1, AcknowledgeType DEF HandlerType
  <1> QED
    BY <1>2, <1>3, <1>4 DEF TypeOK, HandlerType

LEMMA BeginType ==
    ASSUME TypeOK, NEW h \in Handlers, Begin(h)
    PROVE  TypeOK'
  <1>1. [pc |-> "settle", note |-> Note(h), status |-> handler[h].status] \in Settling
    BY NoteType DEF Begin, Settling
  <1>2. handler' \in HandlerType
    BY <1>1 DEF TypeOK, Begin, HandlerType
  <1> QED
    BY <1>2 DEF TypeOK, Begin, coinVars, subscription, HandlerType

LEMMA CommitStatusType ==
    ASSUME TypeOK, NEW h \in Handlers, CommitStatus(h), Mp(h).ref \in Payments
    PROVE  TypeOK'
  <1>1. /\ Note(h)[1] \in MpPayments /\ handler[h].status \in MpStatus /\ Note(h) \in Notifications
    BY NoteType DEF CommitStatus
  <1>2. mapMpStatus[handler[h].status] \in PaymentStatus
    BY <1>1 DEF mapMpStatus, MpStatus, PaymentStatus
  <1>3. payments' \in [Payments -> PaymentRow]
    <2> DEFINE p == Mp(h).ref
               row == [payments[p] EXCEPT !.status = mapMpStatus[handler[h].status],
                                          !.ext = Note(h)[1]]
    <2>1. payments \in [Payments -> PaymentRow] /\ payments[p] \in PaymentRow
      BY DEF TypeOK
    <2>2. row \in PaymentRow
      BY <1>1, <1>2, <2>1 DEF PaymentRow
    <2>3. payments' = [payments EXCEPT ![p] = row]
      BY <2>1 DEF CommitStatus
    <2> HIDE DEF p, row
    <2> QED
      BY <2>1, <2>2, <2>3
  <1>4. events' \subseteq Notifications
    BY <1>1 DEF TypeOK, CommitStatus, Commit
  <1>5. outbox' \subseteq Notifications /\ handler' \in HandlerType
    BY AcknowledgeType DEF CommitStatus, Commit, HandlerType
  <1> QED
    BY <1>3, <1>4, <1>5 DEF TypeOK, CommitStatus, coinVars, subscription, HandlerType

LEMMA ReadSubscriptionType ==
    ASSUME TypeOK, NEW h \in Handlers, ReadSubscription(h), Mp(h).ref \in Payments
    PROVE  TypeOK'
  <1> DEFINE p == Mp(h).ref
             end == endAt[Owner[p]]
             base == IF end > now THEN end ELSE now
             w == [pc |-> "renew", note |-> Note(h), status |-> handler[h].status,
                   rowSeen |-> end # NoRow, newEndAt |-> base + Months[p]]
  <1>1. Note(h) \in Notifications /\ handler[h].status \in MpStatus
    BY NoteType DEF ReadSubscription, CanSettle
  <1>2. end \in Nat \cup {NoRow} /\ now \in Nat /\ Months[p] \in Nat
    BY PaymentAssumption DEF TypeOK
  <1>3. base + Months[p] \in Nat
    BY <1>2 DEF NoRow
  <1>4. w \in Renewing
    BY <1>1, <1>3 DEF Renewing
  <1>5. handler' = [handler EXCEPT ![h] = w]
    BY DEF ReadSubscription
  <1> HIDE DEF w
  <1>6. handler' \in HandlerType
    BY <1>4, <1>5 DEF TypeOK, HandlerType
  <1> QED
    BY <1>6 DEF TypeOK, ReadSubscription, coinVars, subscription, HandlerType

LEMMA CommitCreditType ==
    ASSUME TypeOK, NEW h \in Handlers, CommitCredit(h), Mp(h).ref \in Payments,
           payments' \in [Payments -> PaymentRow]
    PROVE  TypeOK'
  <1> DEFINE p == Mp(h).ref
             u == Owner[p]
  <1>1. p \in Payments /\ u \in Users /\ Coins[p] \in Nat
    BY PaymentAssumption
  <1>2. wallet' = [wallet EXCEPT ![u] = Credit(wallet[u], Coins[p])]
    BY <1>1 DEF CommitCredit, TypeOK
  <1>3. creditRows' = [creditRows EXCEPT ![p] = creditRows[p] + 1]
    BY DEF CommitCredit, TypeOK
  <1>4. Note(h) \in Notifications
    BY NoteType DEF CommitCredit, CanSettle
  <1> HIDE DEF p, u
  <1>5. Credit(wallet[u], Coins[p]) \in Account
    BY <1>1 DEF TypeOK, Credit, Account
  <1>6. wallet' \in [Users -> Account] /\ creditRows' \in [Payments -> Nat]
    BY <1>1, <1>2, <1>3, <1>5 DEF TypeOK
  <1>7. outbox' \subseteq Notifications /\ handler' \in HandlerType /\ events' \subseteq Notifications
    BY <1>4, AcknowledgeType DEF CommitCredit, Commit, HandlerType, TypeOK
  <1> QED
    BY <1>6, <1>7 DEF TypeOK, CommitCredit, subscription, HandlerType

LEMMA CommitRenewalType ==
    ASSUME TypeOK, NEW h \in Handlers, CommitRenewal(h), Mp(h).ref \in Payments,
           payments' \in [Payments -> PaymentRow]
    PROVE  TypeOK'
  <1>1. Owner[Mp(h).ref] \in Users
    BY PaymentAssumption
  <1>2. handler[h].newEndAt \in Nat /\ Note(h) \in Notifications
    BY HandlerFields, NoteType DEF CommitRenewal, Renewing
  <1>3. endAt' \in [Users -> Nat \cup {NoRow}]
    BY <1>1, <1>2 DEF CommitRenewal, TypeOK
  <1>4. proStatus' \in [Users -> {"ACTIVE", "CANCELLED", "EXPIRED"}]
    BY <1>1 DEF CommitRenewal, TypeOK, RenewedStatus
  <1>5. outbox' \subseteq Notifications /\ handler' \in HandlerType /\ events' \subseteq Notifications
    BY <1>2, AcknowledgeType DEF CommitRenewal, Commit, HandlerType, TypeOK
  <1> QED
    BY <1>3, <1>4, <1>5 DEF TypeOK, CommitRenewal, HandlerType

LEMMA EndOfDeliveryType ==
    ASSUME TypeOK, NEW h \in Handlers, RenewalConflict(h) \/ Fail(h)
    PROVE  TypeOK'
  <1>1. handler' \in HandlerType
    BY DEF TypeOK, RenewalConflict, Fail, HandlerType
  <1>2. failures' \in 0..MaxFailures
    BY PaymentAssumption DEF TypeOK, RenewalConflict, Fail
  <1> QED
    BY <1>1, <1>2 DEF TypeOK, RenewalConflict, Fail, coinVars, subscription, HandlerType

LEMMA SubscriptionType ==
    ASSUME TypeOK, Tick \/ ExpireFixedTerm \/ \E u \in Cancellers : StartCancel(u) \/ CommitCancel(u)
    PROVE  TypeOK'
  <1>1. CASE Tick
    BY <1>1, PaymentAssumption DEF TypeOK, Tick, coinVars, subscription
  <1>2. CASE ExpireFixedTerm
    BY <1>2 DEF TypeOK, ExpireFixedTerm, coinVars
  <1>3. ASSUME NEW u \in Cancellers, StartCancel(u) \/ CommitCancel(u)
        PROVE  TypeOK'
    <2>1. u \in Users
      BY PaymentAssumption
    <2>2. cancelling' \subseteq Users /\ proStatus' \in [Users -> {"ACTIVE", "CANCELLED", "EXPIRED"}]
      BY <1>3, <2>1 DEF TypeOK, StartCancel, CommitCancel
    <2> QED
      BY <1>3, <2>2 DEF TypeOK, StartCancel, CommitCancel, coinVars
  <1> QED
    BY <1>1, <1>2, <1>3

-----------------------------------------------------------------------------
(* WHAT THE DELIVERIES KNOW, AND WHAT IS SETTLED                            *)

\* The provider's moves never take back a payment it approved but for a refund, nor
\* change what a payment is for.
LEMMA ProviderKeeps ==
    ASSUME PaymentInv, NEW m \in MpPayments, NEW status \in {"pending", "approved", "rejected",
                                                             "cancelled", "refunded"},
           \/ Advance(m, status)
           \/ \E ref \in Payments \cup {Foreign}, valid \in BOOLEAN : Pay(m, ref, status, valid)
    PROVE  NotesArePaid' /\ SeenIsSo' /\ SettledOnlyIfPaid'
  <1>1. \A x \in MpPayments :
           \/ mercadoPago'[x] = mercadoPago[x]
           \/ mercadoPago[x] = Unpaid /\ mercadoPago'[x].status # "unpaid"
           \/ /\ mercadoPago'[x].ref = mercadoPago[x].ref
              /\ mercadoPago'[x].valid = mercadoPago[x].valid
              /\ mercadoPago'[x].status # "unpaid"
              /\ mercadoPago[x].status \in {"approved", "refunded"} =>
                   mercadoPago'[x].status \in {"approved", "refunded"}
    BY DEF PaymentInv, TypeOK, Advance, Pay, MpRow
  <1>2. \A n \in outbox' : n \in outbox \/ n[1] = m
    BY DEF Advance, Pay, Notify, ModernNote, LegacyNote
  <1>3. mercadoPago'[m].status # "unpaid"
    BY DEF PaymentInv, TypeOK, Advance, Pay, MpRow
  <1>4. UNCHANGED <<payments, creditRows, handler>>
    BY DEF Advance, Pay, coinVars
  <1>5. \A n \in outbox : n[1] \in MpPayments
    BY DEF PaymentInv, TypeOK, Notifications
  <1>6. NotesArePaid'
    <2>1. ASSUME NEW n \in outbox'
          PROVE  mercadoPago'[n[1]].status # "unpaid"
      <3>1. CASE n \in outbox
        BY <1>1, <1>5, <3>1 DEF PaymentInv, NotesArePaid
      <3>2. CASE n[1] = m
        BY <1>3, <3>2
      <3> QED
        BY <1>2, <3>1, <3>2
    <2>2. ASSUME NEW h \in Handlers, handler'[h] # IdleHandler
          PROVE  Mp(h)'.status # "unpaid"
      <3>1. handler[h] # IdleHandler /\ Note(h)[1] \in MpPayments /\ Note(h)' = Note(h)
        BY <1>4, <2>2, NoteOfHandler DEF PaymentInv, Note
      <3>2. Mp(h)' = mercadoPago'[Note(h)[1]] /\ Mp(h) = mercadoPago[Note(h)[1]]
        BY <3>1 DEF Mp
      <3> QED
        BY <1>1, <3>1, <3>2 DEF PaymentInv, NotesArePaid
    <2> QED
      BY <2>1, <2>2 DEF NotesArePaid
  <1>7. SeenIsSo'
    <2> SUFFICES ASSUME NEW h \in Handlers, handler'[h] # IdleHandler
                 PROVE  /\ handler'[h].status = "approved" => Mp(h)'.status \in {"approved", "refunded"}
                        /\ handler'[h].pc \in {"settle", "renew"} => Mp(h)'.ref \in Payments
                        /\ handler'[h].pc = "renew" => handler'[h].status = "approved" /\ Mp(h)'.valid
      BY DEF SeenIsSo
    <2>1. handler[h] # IdleHandler /\ Note(h)[1] \in MpPayments /\ Note(h)' = Note(h)
      BY <1>4, NoteOfHandler DEF PaymentInv, Note
    <2>2. Mp(h)' = mercadoPago'[Note(h)[1]] /\ Mp(h) = mercadoPago[Note(h)[1]]
      BY <2>1 DEF Mp
    <2>3. Mp(h).status # "unpaid"
      BY <2>1 DEF PaymentInv, NotesArePaid
    <2>4. /\ handler[h].status = "approved" => Mp(h).status \in {"approved", "refunded"}
          /\ handler[h].pc \in {"settle", "renew"} => Mp(h).ref \in Payments
          /\ handler[h].pc = "renew" => handler[h].status = "approved" /\ Mp(h).valid
      BY <2>1 DEF PaymentInv, SeenIsSo
    <2> QED
      BY <1>1, <1>4, <2>1, <2>2, <2>3, <2>4 DEF Unpaid
  <1>8. SettledOnlyIfPaid'
    <2> SUFFICES ASSUME NEW p \in Payments
                 PROVE  /\ payments[p].processed \/ creditRows[p] > 0 =>
                             \E x \in MpPayments : PaidBy(x, p)'
                        /\ payments[p].ext # NoMp => mercadoPago'[payments[p].ext].ref = p
      BY <1>4 DEF SettledOnlyIfPaid
    <2>1. ASSUME NEW x \in MpPayments, PaidBy(x, p)
          PROVE  PaidBy(x, p)'
      BY <1>1, <2>1 DEF PaidBy, Unpaid
    <2>2. payments[p].ext \in MpPayments \cup {NoMp}
      BY DEF PaymentInv, TypeOK, PaymentRow
    <2>3. ASSUME NEW x \in MpPayments, mercadoPago[x].ref = p
          PROVE  mercadoPago'[x].ref = p
      BY <1>1, <2>3, PaymentAssumption DEF Unpaid
    <2>4. /\ payments[p].processed \/ creditRows[p] > 0 => \E x \in MpPayments : PaidBy(x, p)
          /\ payments[p].ext # NoMp => mercadoPago[payments[p].ext].ref = p
      BY DEF PaymentInv, SettledOnlyIfPaid
    <2> QED
      BY <2>1, <2>2, <2>3, <2>4
  <1> QED
    BY <1>6, <1>7, <1>8

\* A step that leaves the provider, the payments and the credits alone, and at most
\* ends deliveries, keeps all that is known.
LEMMA QuietStepKeeps ==
    ASSUME PaymentInv, UNCHANGED <<mercadoPago, payments, creditRows>>, outbox' \subseteq outbox,
           \A i \in Handlers : handler'[i] = IdleHandler \/ handler'[i] = handler[i]
    PROVE  NotesArePaid' /\ SeenIsSo' /\ SettledOnlyIfPaid'
  <1>1. \A i \in Handlers : handler'[i] # IdleHandler => Mp(i)' = Mp(i)
    BY DEF Mp, Note
  <1>2. NotesArePaid'
    BY <1>1 DEF PaymentInv, NotesArePaid
  <1>3. SeenIsSo'
    BY <1>1 DEF PaymentInv, SeenIsSo
  <1>4. SettledOnlyIfPaid'
    BY DEF PaymentInv, SettledOnlyIfPaid, PaidBy
  <1> QED
    BY <1>2, <1>3, <1>4

\* A step of one delivery that leaves it with a new record in hand: what the record
\* says must be so.
LEMMA DeliveryStepKeeps ==
    ASSUME PaymentInv, UNCHANGED <<mercadoPago, payments, creditRows>>, outbox' \subseteq outbox,
           NEW h \in Handlers, NEW w, handler' = [handler EXCEPT ![h] = w],
           mercadoPago[w.note[1]].status # "unpaid",
           w.status = "approved" => mercadoPago[w.note[1]].status \in {"approved", "refunded"},
           w.pc \in {"settle", "renew"} => mercadoPago[w.note[1]].ref \in Payments,
           w.pc = "renew" => w.status = "approved" /\ mercadoPago[w.note[1]].valid
    PROVE  NotesArePaid' /\ SeenIsSo' /\ SettledOnlyIfPaid'
  <1>1. handler'[h] = w /\ \A i \in Handlers : i # h => handler'[i] = handler[i]
    BY DEF PaymentInv, TypeOK
  <1>2. Mp(h)' = mercadoPago[w.note[1]]
    BY <1>1 DEF Mp, Note
  <1>3. \A i \in Handlers : i # h => Mp(i)' = Mp(i)
    BY <1>1 DEF Mp, Note
  <1>4. NotesArePaid'
    BY <1>1, <1>2, <1>3 DEF PaymentInv, NotesArePaid
  <1>5. SeenIsSo'
    BY <1>1, <1>2, <1>3 DEF PaymentInv, SeenIsSo
  <1>6. SettledOnlyIfPaid'
    BY DEF PaymentInv, SettledOnlyIfPaid, PaidBy
  <1> QED
    BY <1>4, <1>5, <1>6

LEMMA ReceiveKeeps ==
    ASSUME PaymentInv, NEW h \in Handlers, NEW n \in Notifications, Receive(h, n)
    PROVE  NotesArePaid' /\ SeenIsSo' /\ SettledOnlyIfPaid'
  <1> DEFINE w == [pc |-> "fetched", note |-> n, status |-> mercadoPago[n[1]].status]
  <1>1. /\ UNCHANGED <<mercadoPago, payments, creditRows, outbox>>
        /\ handler' = [handler EXCEPT ![h] = w]
        /\ mercadoPago[n[1]].status # "unpaid"
    BY DEF Receive, PaymentInv, NotesArePaid, coinVars
  <1>2. w.note = n /\ w.pc = "fetched" /\ w.status = mercadoPago[n[1]].status
    OBVIOUS
  <1> HIDE DEF w
  <1> QED
    BY <1>1, <1>2, DeliveryStepKeeps

LEMMA BeginKeeps ==
    ASSUME PaymentInv, NEW h \in Handlers, Begin(h)
    PROVE  NotesArePaid' /\ SeenIsSo' /\ SettledOnlyIfPaid'
  <1> DEFINE w == [pc |-> "settle", note |-> Note(h), status |-> handler[h].status]
  <1>1. /\ UNCHANGED <<mercadoPago, payments, creditRows, outbox>>
        /\ handler' = [handler EXCEPT ![h] = w]
        /\ Mp(h).ref \in Payments
        /\ handler[h].pc = "fetched"
    BY DEF Begin, coinVars
  <1>2. handler[h] # IdleHandler
    BY <1>1, HandlerFields DEF PaymentInv
  <1>3. /\ Mp(h).status # "unpaid"
        /\ handler[h].status = "approved" => Mp(h).status \in {"approved", "refunded"}
    BY <1>2 DEF PaymentInv, NotesArePaid, SeenIsSo
  <1>4. w.note = Note(h) /\ w.pc = "settle" /\ w.status = handler[h].status
    OBVIOUS
  <1>5. mercadoPago[w.note[1]] = Mp(h)
    BY <1>4 DEF Mp
  <1> HIDE DEF w
  <1> QED
    BY <1>1, <1>3, <1>4, <1>5, DeliveryStepKeeps

LEMMA ReadSubscriptionKeeps ==
    ASSUME PaymentInv, NEW h \in Handlers, ReadSubscription(h)
    PROVE  NotesArePaid' /\ SeenIsSo' /\ SettledOnlyIfPaid'
  <1> DEFINE p == Mp(h).ref
             end == endAt[Owner[p]]
             base == IF end > now THEN end ELSE now
             w == [pc |-> "renew", note |-> Note(h), status |-> handler[h].status,
                   rowSeen |-> end # NoRow, newEndAt |-> base + Months[p]]
  <1>1. /\ UNCHANGED <<mercadoPago, payments, creditRows, outbox>>
        /\ handler' = [handler EXCEPT ![h] = w]
        /\ handler[h].pc = "settle" /\ handler[h].status = "approved" /\ Mp(h).valid
    BY DEF ReadSubscription, CanSettle, coinVars
  <1>2. handler[h] # IdleHandler
    BY <1>1, HandlerFields DEF PaymentInv
  <1>3. /\ Mp(h).status # "unpaid" /\ Mp(h).ref \in Payments
        /\ Mp(h).status \in {"approved", "refunded"}
    BY <1>1, <1>2 DEF PaymentInv, NotesArePaid, SeenIsSo
  <1>4. w.note = Note(h) /\ w.pc = "renew" /\ w.status = handler[h].status
    OBVIOUS
  <1>5. mercadoPago[w.note[1]] = Mp(h)
    BY <1>4 DEF Mp
  <1> HIDE DEF w
  <1> QED
    BY <1>1, <1>3, <1>4, <1>5, DeliveryStepKeeps

\* A checkout that is opened says nothing about money.
LEMMA CheckoutKeeps ==
    ASSUME PaymentInv, NEW p \in Payments, Checkout(p)
    PROVE  NotesArePaid' /\ SeenIsSo' /\ SettledOnlyIfPaid'
  <1>1. UNCHANGED <<mercadoPago, creditRows, handler, outbox>>
    BY CheckoutMoves DEF Reaches, coinVars
  <1>2. \A x \in Payments : /\ payments'[x].processed = payments[x].processed
                            /\ payments'[x].ext = payments[x].ext
    BY SMTT(30), CheckoutMoves DEF Reaches, PaymentInv, TypeOK, PaymentRow
  <1>3. NotesArePaid' /\ SeenIsSo'
    BY <1>1 DEF PaymentInv, NotesArePaid, SeenIsSo, Mp, Note
  <1>4. SettledOnlyIfPaid'
    BY <1>1, <1>2 DEF PaymentInv, SettledOnlyIfPaid, PaidBy
  <1> QED
    BY <1>3, <1>4

\* A delivery that commits ends, and the others know what they knew.
LEMMA CommitKeepsKnowledge ==
    ASSUME PaymentInv, NEW h \in Handlers, Commit(h), mercadoPago' = mercadoPago
    PROVE  NotesArePaid' /\ SeenIsSo'
  <1>1. outbox' \subseteq outbox /\ \A i \in Handlers : handler'[i] = IdleHandler \/ handler'[i] = handler[i]
    BY AcknowledgeType DEF Commit, PaymentInv
  <1>2. \A i \in Handlers : handler'[i] # IdleHandler => Mp(i)' = Mp(i)
    BY <1>1 DEF Mp, Note
  <1>3. NotesArePaid'
    BY <1>1, <1>2 DEF PaymentInv, NotesArePaid
  <1>4. SeenIsSo'
    BY <1>1, <1>2 DEF PaymentInv, SeenIsSo
  <1> QED
    BY <1>3, <1>4

\* The row of a payment that is not approved points at the provider's payment.
LEMMA CommitStatusKeeps ==
    ASSUME PaymentInv, NEW h \in Handlers, CommitStatus(h)
    PROVE  TypeOK' /\ NotesArePaid' /\ SeenIsSo' /\ SettledOnlyIfPaid'
  <1> DEFINE p0 == Mp(h).ref
             m0 == Note(h)[1]
  <1>1. handler[h].pc = "settle" /\ handler[h] # IdleHandler
    BY HandlerFields DEF CommitStatus, PaymentInv
  <1>2. p0 \in Payments /\ m0 \in MpPayments /\ mercadoPago[m0].ref = p0
    BY <1>1, NoteType DEF PaymentInv, SeenIsSo, Mp
  <1>3. TypeOK'
    BY <1>2, CommitStatusType DEF PaymentInv
  <1>4. UNCHANGED <<mercadoPago, creditRows>> /\ Commit(h)
    BY DEF CommitStatus, coinVars
  <1>5. \A x \in Payments : /\ payments'[x].processed = payments[x].processed
                            /\ payments'[x].ext = IF x = p0 THEN m0 ELSE payments[x].ext
    <2>1. payments \in [Payments -> PaymentRow]
      BY DEF PaymentInv, TypeOK
    <2>2. payments' = [payments EXCEPT
                         ![p0] = [payments[p0] EXCEPT !.status = mapMpStatus[handler[h].status],
                                                      !.ext = m0]]
      BY <1>2, <2>1 DEF CommitStatus
    <2>3. payments[p0] \in PaymentRow
      BY <1>2, <2>1
    <2> HIDE DEF p0, m0
    <2> QED
      BY <1>2, <2>1, <2>2, <2>3 DEF PaymentRow
  <1> HIDE DEF p0, m0
  <1>6. SettledOnlyIfPaid'
    BY <1>2, <1>4, <1>5 DEF PaymentInv, SettledOnlyIfPaid, PaidBy
  <1> QED
    BY <1>3, <1>4, <1>6, CommitKeepsKnowledge

\* A settlement: the delivery has seen the approval of a valid payment.
LEMMA SettlementKeeps ==
    ASSUME PaymentInv, NEW h \in Handlers, CommitCredit(h) \/ CommitRenewal(h)
    PROVE  TypeOK' /\ NotesArePaid' /\ SeenIsSo' /\ SettledOnlyIfPaid'
  <1>1. handler[h].pc \in {"settle", "renew"} /\ handler[h] # IdleHandler
    BY HandlerFields DEF CommitCredit, CanSettle, CommitRenewal, PaymentInv
  <1>2. Mp(h).ref \in Payments /\ Mp(h).valid /\ Mp(h).status \in {"approved", "refunded"}
    BY <1>1 DEF PaymentInv, SeenIsSo, CommitCredit, CanSettle, CommitRenewal
  <1>3. Approve(h) /\ Commit(h) /\ mercadoPago' = mercadoPago
    BY DEF CommitCredit, CommitRenewal
  <1>4. \A p \in Payments : p # Mp(h).ref => creditRows'[p] = creditRows[p]
    BY DEF CommitCredit, CommitRenewal, PaymentInv, TypeOK
  <1>5. payments' \in [Payments -> PaymentRow] /\ SettledOnlyIfPaid'
    BY <1>1, <1>2, <1>3, <1>4, ApproveKeeps DEF PaymentInv
  <1>6. TypeOK'
    BY <1>2, <1>5, CommitCreditType, CommitRenewalType DEF PaymentInv
  <1> QED
    BY <1>3, <1>5, <1>6, CommitKeepsKnowledge

\* Every other step of a delivery settles nothing.
LEMMA OtherStepsKeep ==
    ASSUME PaymentInv, NEW h \in Handlers,
           \/ SkipDuplicate(h) \/ RecordOnly(h) \/ CommitInvalid(h)
           \/ RenewalConflict(h) \/ Fail(h)
    PROVE  TypeOK' /\ NotesArePaid' /\ SeenIsSo' /\ SettledOnlyIfPaid'
  <1>1. TypeOK'
    BY RecordType, EndOfDeliveryType DEF PaymentInv
  <1>2. UNCHANGED <<mercadoPago, payments, creditRows>>
    BY DEF SkipDuplicate, RecordOnly, CommitInvalid, RenewalConflict, Fail, coinVars
  <1>3. outbox' \subseteq outbox /\ \A i \in Handlers : handler'[i] = IdleHandler \/ handler'[i] = handler[i]
    BY AcknowledgeType DEF SkipDuplicate, RecordOnly, CommitInvalid, RenewalConflict, Fail, Commit,
                           PaymentInv, TypeOK
  <1> QED
    BY <1>1, <1>2, <1>3, QuietStepKeeps

-----------------------------------------------------------------------------
(* THE THEOREMS                                                             *)

LEMMA PaymentInitial == Init => PaymentInv
  <1> SUFFICES ASSUME Init PROVE PaymentInv
    OBVIOUS
  <1>1. TypeOK
    BY PaymentAssumption DEF Init, TypeOK, NoPayment, PaymentRow, PaymentStatus, Unpaid, MpRow,
                             EmptyWallet, Account
  <1>2. NotesArePaid /\ SeenIsSo
    BY DEF Init, NotesArePaid, SeenIsSo
  <1>3. SettledOnlyIfPaid
    BY DEF Init, SettledOnlyIfPaid, NoPayment
  <1> QED
    BY <1>1, <1>2, <1>3 DEF PaymentInv

LEMMA PaymentStep == PaymentInv /\ [Next]_vars => PaymentInv'
  <1> SUFFICES ASSUME PaymentInv, [Next]_vars PROVE PaymentInv'
    OBVIOUS
  <1> USE DEF PaymentInv
  <1>1. ASSUME NEW p \in Payments, Checkout(p)
        PROVE  PaymentInv'
    BY <1>1, CheckoutType, CheckoutKeeps
  <1>2. ASSUME NEW m \in MpPayments, NEW status \in MpStatus,
               \/ Advance(m, status)
               \/ \E ref \in Payments \cup {Foreign}, valid \in BOOLEAN : Pay(m, ref, status, valid)
        PROVE  PaymentInv'
    BY <1>2, ProviderType, ProviderKeeps DEF MpStatus
  <1>3. ASSUME Tick \/ ExpireFixedTerm \/ \E u \in Cancellers : StartCancel(u) \/ CommitCancel(u)
        PROVE  PaymentInv'
    <2>1. UNCHANGED <<mercadoPago, payments, creditRows, outbox, handler>>
      BY <1>3 DEF Tick, ExpireFixedTerm, StartCancel, CommitCancel, coinVars
    <2>2. TypeOK'
      BY <1>3, SubscriptionType
    <2> QED
      BY <2>1, <2>2, QuietStepKeeps
  <1>4. ASSUME NEW h \in Handlers, NEW n \in Notifications, Receive(h, n)
        PROVE  PaymentInv'
    BY <1>4, ReceiveType, ReceiveKeeps
  <1>5. ASSUME NEW h \in Handlers, Step(h) \/ Fail(h)
        PROVE  PaymentInv'
    <2>1. CASE Begin(h)
      BY <2>1, BeginType, BeginKeeps
    <2>2. CASE ReadSubscription(h)
      <3>1. Mp(h).ref \in Payments
        BY <2>2, HandlerFields DEF ReadSubscription, CanSettle, SeenIsSo
      <3> QED
        BY <2>2, <3>1, ReadSubscriptionType, ReadSubscriptionKeeps
    <2>3. CASE CommitStatus(h)
      BY <2>3, CommitStatusKeeps
    <2>4. CASE CommitCredit(h) \/ CommitRenewal(h)
      BY <2>4, SettlementKeeps
    <2>5. CASE \/ SkipDuplicate(h) \/ RecordOnly(h) \/ CommitInvalid(h)
               \/ RenewalConflict(h) \/ Fail(h)
      BY <2>5, OtherStepsKeep
    <2> QED
      BY <1>5, <2>1, <2>2, <2>3, <2>4, <2>5 DEF Step
  <1>6. CASE UNCHANGED vars
    <2>1. UNCHANGED <<mercadoPago, payments, creditRows, outbox, handler>>
      BY <1>6 DEF vars
    <2>2. TypeOK'
      BY <1>6 DEF TypeOK, vars
    <2> QED
      BY <2>1, <2>2, QuietStepKeeps
  <1> QED
    BY <1>1, <1>2, <1>3, <1>4, <1>5, <1>6 DEF Next, Checkout, MpStatus

THEOREM PaymentInvHolds == Spec => []PaymentInv
  BY PaymentInitial, PaymentStep, PTL DEF Spec

\* The tables of the webhook, the deliveries in progress and the provider's view keep
\* their types, and a row never leaves the states the code gives it.
THEOREM PaymentTypeCorrect == Spec => []TypeOK
  <1>1. PaymentInv => TypeOK
    BY DEF PaymentInv
  <1> QED
    BY <1>1, PaymentInvHolds, PTL

\* Whatever the provider repeats, delays or moves meanwhile, and however many deliveries
\* overlap or fail: only a payment the provider approved, valid and of this checkout,
\* settles a checkout or credits a wallet (ProcessMercadoPagoWebhookService).
THEOREM NothingIsSettledUnpaid == Spec => []SettledOnlyIfPaid
  <1>1. PaymentInv => SettledOnlyIfPaid
    BY DEF PaymentInv
  <1> QED
    BY <1>1, PaymentInvHolds, PTL

\* Time that was paid for gives access, however cancellations, the daily expiry,
\* renewals and the clock interleave.
THEOREM PaidTimeServes == Spec => []PaidTimeGivesAccess
  <1>1. Init => PaidTimeGivesAccess
    BY PaymentAssumption DEF Init, PaidTimeGivesAccess, HasAccess, NoRow
  <1>2. TypeOK /\ TypeOK' /\ PaidTimeGivesAccess /\ [Next]_vars => PaidTimeGivesAccess'
    <2> SUFFICES ASSUME TypeOK, TypeOK', PaidTimeGivesAccess, [Next]_vars,
                        NEW u \in Users, endAt'[u] > now'
                 PROVE  endAt'[u] # NoRow /\ proStatus'[u] # "EXPIRED"
      BY DEF PaidTimeGivesAccess, HasAccess
    <2>1. endAt'[u] # NoRow
      BY DEF TypeOK, NoRow
    <2>2. endAt[u] > now => proStatus[u] # "EXPIRED"
      BY DEF PaidTimeGivesAccess, HasAccess
    <2>3. CASE Tick
      BY <2>1, <2>2, <2>3 DEF Tick, subscription, TypeOK, NoRow
    <2>4. CASE ExpireFixedTerm
      BY <2>1, <2>2, <2>4 DEF ExpireFixedTerm, TypeOK, NoRow
    <2>5. ASSUME NEW v \in Cancellers, StartCancel(v) \/ CommitCancel(v)
          PROVE  proStatus'[u] # "EXPIRED"
      BY <2>1, <2>2, <2>5 DEF StartCancel, CommitCancel, TypeOK
    <2>6. ASSUME NEW h \in Handlers, CommitRenewal(h)
          PROVE  proStatus'[u] # "EXPIRED"
      <3> DEFINE v == Owner[Mp(h).ref]
      <3>1. /\ endAt' = [endAt EXCEPT ![v] = handler[h].newEndAt]
            /\ proStatus' = [proStatus EXCEPT ![v] = "ACTIVE"]
            /\ now' = now
        BY <2>6 DEF CommitRenewal, RenewedStatus
      <3> HIDE DEF v
      <3> QED
        BY <2>1, <2>2, <3>1 DEF TypeOK
    <2>7. CASE UNCHANGED <<endAt, proStatus, now>>
      BY <2>1, <2>2, <2>7
    <2>8. UNCHANGED <<endAt, proStatus, now>>
          \/ Tick \/ ExpireFixedTerm
          \/ (\E v \in Cancellers : StartCancel(v) \/ CommitCancel(v))
          \/ \E h \in Handlers : CommitRenewal(h)
      BY ZenonT(40)
      DEF Next, vars, subscription, CreatePayment, SaveCheckout,
          CreateSubscriptionCheckout, SaveSubscriptionCheckout, Reaches, Pay, Advance, Receive, Step,
          SkipDuplicate, RecordOnly, Begin, CommitStatus, CommitInvalid, CommitCredit,
          ReadSubscription, RenewalConflict, Fail
    <2> QED
      BY <2>1, <2>3, <2>4, <2>5, <2>6, <2>7, <2>8
  <1> QED
    BY <1>1, <1>2, PaymentTypeCorrect, PTL DEF Spec

LEMMA PaymentLedgerStep == PaymentInv /\ [Next]_vars => [L!Post]_wallet
  <1> SUFFICES ASSUME PaymentInv, [Next]_vars
               PROVE  [L!Post]_wallet
    OBVIOUS
  <1>1. ASSUME NEW h \in Handlers, CommitCredit(h)
        PROVE  L!Post
    <2> DEFINE p == Mp(h).ref
               u == Owner[p]
               credited == Credit(wallet[u], Coins[p])
    <2>1. p \in Payments
      BY <1>1, HandlerFields DEF CommitCredit, CanSettle, PaymentInv, SeenIsSo
    <2>2. u \in Users /\ Coins[p] \in Nat \ {0} /\ wallet[u] \in Account
      BY <2>1, PaymentAssumption DEF PaymentInv, TypeOK
    <2>3. wallet' = [wallet EXCEPT ![u] = credited]
      BY <1>1 DEF CommitCredit
    <2> HIDE DEF p, u
    <2>4. L!PostsCredit(wallet[u], credited)
      BY <2>2 DEF Account, Credit, L!PostsCredit
    <2> HIDE DEF credited
    <2>5. \A v \in Users : wallet'[v] = IF v = u THEN credited ELSE wallet[v]
      BY <2>2, <2>3 DEF PaymentInv, TypeOK
    <2> QED
      BY <2>4, <2>5 DEF L!Post
  <1>2. ASSUME NEW h \in Handlers,
               \/ Begin(h) \/ ReadSubscription(h) \/ CommitStatus(h) \/ CommitRenewal(h)
               \/ SkipDuplicate(h) \/ RecordOnly(h) \/ CommitInvalid(h)
               \/ RenewalConflict(h) \/ Fail(h)
        PROVE  UNCHANGED wallet
    BY <1>2 DEF Begin, ReadSubscription, CommitStatus, CommitRenewal, SkipDuplicate, RecordOnly,
                CommitInvalid, RenewalConflict, Fail, coinVars
  <1>3. ASSUME NEW p \in Payments, Checkout(p)
        PROVE  UNCHANGED wallet
    BY <1>3, CheckoutMoves DEF Reaches, coinVars
  <1>4. ASSUME \/ \E m \in MpPayments, ref \in Payments \cup {Foreign}, valid \in BOOLEAN :
                    \E status \in {"pending", "approved", "rejected"} : Pay(m, ref, status, valid)
               \/ \E m \in MpPayments, status \in MpStatus : Advance(m, status)
               \/ \E h \in Handlers, n \in Notifications : Receive(h, n)
        PROVE  UNCHANGED wallet
    BY <1>4 DEF Advance, Pay, Receive, coinVars
  <1>5. ASSUME Tick \/ ExpireFixedTerm \/ \E u \in Cancellers : StartCancel(u) \/ CommitCancel(u)
        PROVE  UNCHANGED wallet
    BY <1>5 DEF Tick, ExpireFixedTerm, StartCancel, CommitCancel, coinVars
  <1>6. CASE UNCHANGED vars
    BY <1>6 DEF vars
  <1> QED
    BY <1>1, <1>2, <1>3, <1>4, <1>5, <1>6 DEF Next, Step, Checkout

\* Coins enter a wallet through the webhook only with their ledger row, for any
\* payments, deliveries and failures (ProcessMercadoPagoWebhookService).
THEOREM PaymentImplementsLedger == Spec => LedgerSpec
  <1>1. Init => L!Init
    BY DEF Init, L!Init, L!Backed, EmptyWallet
  <1> QED
    BY <1>1, PaymentInvHolds, PaymentLedgerStep, PTL DEF Spec, LedgerSpec, L!Spec

-----------------------------------------------------------------------------
(* ONE DELIVERY AT A TIME                                                   *)

\* Deliveries that do not overlap: with two of them, both theorems below fail.
OneAtATime == \A g, h \in Handlers : g = h

AddsMonths(p, newEndAt) ==
    newEndAt >= (IF endAt[Owner[p]] = NoRow THEN 0 ELSE endAt[Owner[p]]) + Months[p]

\* What a credit leaves behind, and what the delivery in progress still finds as it
\* read it: its payment is not settled, and the end it will write adds the months.
TurnInv ==
    /\ \A p \in Payments : creditRows[p] <= 1 /\ (creditRows[p] > 0 => payments[p].processed)
    /\ \A h \in Handlers :
         /\ handler[h].pc \in {"settle", "renew"} => ~payments[Mp(h).ref].processed
         /\ handler[h].pc = "renew" => AddsMonths(Mp(h).ref, handler[h].newEndAt)

\* A delivery between its read of the payment and its commit is about a known payment.
LEMMA SettlingIsKnown ==
    ASSUME PaymentInv, NEW h \in Handlers, handler[h].pc \in {"settle", "renew"}
    PROVE  Mp(h).ref \in Payments /\ Mp(h).status # "unpaid" /\ Note(h)[1] \in MpPayments
  BY HandlerFields, NoteType DEF PaymentInv, SeenIsSo, NotesArePaid

\* A step that settles nothing, and begins no settlement.
LEMMA TurnQuiet ==
    ASSUME PaymentInv, TurnInv, creditRows' = creditRows, endAt' = endAt,
           \A p \in Payments : payments'[p].processed = payments[p].processed,
           \A h \in Handlers : handler'[h].pc \in {"settle", "renew"} =>
              handler'[h] = handler[h] /\ Mp(h)'.ref = Mp(h).ref
    PROVE  TurnInv'
  <1>1. ASSUME NEW h \in Handlers, handler'[h].pc \in {"settle", "renew"}
        PROVE  /\ ~payments'[Mp(h)'.ref].processed
               /\ handler'[h].pc = "renew" => AddsMonths(Mp(h).ref, handler[h].newEndAt)'
    <2>1. handler'[h] = handler[h] /\ Mp(h)'.ref = Mp(h).ref /\ Mp(h).ref \in Payments
      BY <1>1, SettlingIsKnown
    <2> QED
      BY <1>1, <2>1 DEF TurnInv, AddsMonths
  <1> QED
    BY <1>1 DEF TurnInv, AddsMonths

LEMMA TurnKept ==
    ASSUME PaymentInv, TurnInv, NEW h \in Handlers,
           \/ SkipDuplicate(h) \/ RecordOnly(h) \/ CommitStatus(h) \/ CommitInvalid(h)
           \/ RenewalConflict(h) \/ Fail(h)
    PROVE  TurnInv'
  <1>1. creditRows' = creditRows /\ endAt' = endAt /\ mercadoPago' = mercadoPago
    BY DEF SkipDuplicate, RecordOnly, CommitStatus, CommitInvalid, RenewalConflict, Fail,
           coinVars, subscription
  <1>2. \A i \in Handlers : handler'[i] = IdleHandler \/ handler'[i] = handler[i]
    BY DEF SkipDuplicate, RecordOnly, CommitStatus, CommitInvalid, RenewalConflict, Fail,
           Commit, Acknowledge, PaymentInv, TypeOK
  <1>3. \A p \in Payments : payments'[p].processed = payments[p].processed
    BY DEF SkipDuplicate, RecordOnly, CommitStatus, CommitInvalid, RenewalConflict, Fail,
           PaymentInv, TypeOK, PaymentRow
  <1>4. IdleHandler.pc = "idle"
    BY DEF IdleHandler
  <1>5. \A i \in Handlers : handler'[i].pc \in {"settle", "renew"} =>
           handler'[i] = handler[i] /\ Mp(i)'.ref = Mp(i).ref
    BY <1>1, <1>2, <1>4 DEF Mp, Note
  <1> QED
    BY <1>1, <1>3, <1>5, TurnQuiet

\* The checkouts, the provider, the clock and the subscription's other writers.
LEMMA TurnOutside ==
    ASSUME PaymentInv, TurnInv,
           \/ \E p \in Payments : Checkout(p)
           \/ \E m \in MpPayments, status \in MpStatus :
                 \/ Advance(m, status)
                 \/ \E ref \in Payments \cup {Foreign}, valid \in BOOLEAN :
                       Pay(m, ref, status, valid)
           \/ Tick \/ ExpireFixedTerm
           \/ \E u \in Cancellers : StartCancel(u) \/ CommitCancel(u)
    PROVE  TurnInv'
  <1>1. UNCHANGED <<creditRows, endAt, handler>>
    BY CheckoutMoves DEF Reaches, Advance, Pay, Tick, ExpireFixedTerm, StartCancel, CommitCancel,
                         coinVars, subscription
  <1>2. \A p \in Payments : payments'[p].processed = payments[p].processed
    BY CheckoutMoves DEF Reaches, Advance, Pay, Tick, ExpireFixedTerm, StartCancel, CommitCancel,
                         PaymentInv, TypeOK, PaymentRow
  <1>3. \A x \in MpPayments : mercadoPago[x].status # "unpaid" =>
                                 mercadoPago'[x].ref = mercadoPago[x].ref
    BY CheckoutMoves DEF Reaches, Advance, Pay, Tick, ExpireFixedTerm, StartCancel, CommitCancel,
                         PaymentInv, TypeOK, MpRow, Unpaid
  <1>4. \A h \in Handlers : handler[h].pc \in {"settle", "renew"} => Mp(h)'.ref = Mp(h).ref
    BY <1>1, <1>3, SettlingIsKnown DEF Mp, Note
  <1> QED
    BY <1>1, <1>2, <1>4, TurnQuiet

LEMMA TurnReceive ==
    ASSUME PaymentInv, TurnInv, NEW h \in Handlers, NEW n \in Notifications, Receive(h, n)
    PROVE  TurnInv'
  <1>1. UNCHANGED <<payments, mercadoPago, creditRows, endAt>>
    BY DEF Receive, coinVars, subscription
  <1>2. handler'[h].pc = "fetched" /\ \A i \in Handlers : i # h => handler'[i] = handler[i]
    BY DEF Receive, PaymentInv, TypeOK
  <1>3. \A i \in Handlers : i # h => Mp(i)' = Mp(i)
    BY <1>1, <1>2 DEF Mp, Note
  <1> QED
    BY <1>1, <1>2, <1>3, TurnQuiet

\* A delivery that takes a payment in hand finds it unsettled.
LEMMA TurnTaken ==
    ASSUME PaymentInv, TurnInv, NEW h \in Handlers, Begin(h) \/ ReadSubscription(h)
    PROVE  TurnInv'
  <1>1. UNCHANGED <<payments, mercadoPago, creditRows, endAt>>
    BY DEF Begin, ReadSubscription, coinVars, subscription
  <1>2. PICK w : /\ handler' = [handler EXCEPT ![h] = w] /\ w.note = Note(h)
                 /\ w.pc \in {"settle", "renew"}
                 /\ w.pc = "renew" => ReadSubscription(h) /\ AddsMonths(Mp(h).ref, w.newEndAt)
    <2>1. CASE Begin(h)
      <3> DEFINE x == [pc |-> "settle", note |-> Note(h), status |-> handler[h].status]
      <3>1. handler' = [handler EXCEPT ![h] = x] /\ x.note = Note(h) /\ x.pc = "settle"
        BY <2>1 DEF Begin
      <3> QED
        BY <3>1
    <2>2. CASE ReadSubscription(h)
      <3> DEFINE p == Mp(h).ref
                 end == endAt[Owner[p]]
                 base == IF end > now THEN end ELSE now
                 x == [pc |-> "renew", note |-> Note(h), status |-> handler[h].status,
                       rowSeen |-> end # NoRow, newEndAt |-> base + Months[p]]
      <3>1. handler' = [handler EXCEPT ![h] = x]
        BY <2>2 DEF ReadSubscription
      <3>2. p \in Payments
        BY <2>2, SettlingIsKnown DEF ReadSubscription, CanSettle
      <3>3. end \in Nat \cup {NoRow} /\ now \in Nat /\ Months[p] \in Nat
        BY <3>2, PaymentAssumption DEF PaymentInv, TypeOK
      <3>4. AddsMonths(p, base + Months[p])
        BY <3>3 DEF AddsMonths, NoRow
      <3>5. x.note = Note(h) /\ x.pc = "renew" /\ x.newEndAt = base + Months[p]
        OBVIOUS
      <3> HIDE DEF x
      <3>6. AddsMonths(p, x.newEndAt)
        BY <3>4, <3>5
      <3> QED
        BY <2>2, <3>1, <3>5, <3>6
    <2> QED
      BY <2>1, <2>2
  <1>3. handler'[h] = w /\ \A i \in Handlers : i # h => handler'[i] = handler[i]
    BY <1>2 DEF PaymentInv, TypeOK
  <1>4. \A i \in Handlers : Mp(i)' = Mp(i)
    BY <1>1, <1>2, <1>3 DEF Mp, Note
  <1>5. ~payments[Mp(h).ref].processed
    BY DEF Begin, AlreadyProcessed, ReadSubscription, CanSettle, TurnInv
  <1>6. ASSUME NEW i \in Handlers
        PROVE  /\ handler'[i].pc \in {"settle", "renew"} => ~payments'[Mp(i)'.ref].processed
               /\ handler'[i].pc = "renew" => AddsMonths(Mp(i).ref, handler[i].newEndAt)'
    <2>1. CASE i = h
      BY <1>1, <1>2, <1>3, <1>4, <1>5, <2>1 DEF AddsMonths
    <2>2. CASE i # h
      BY <1>1, <1>3, <1>4, <2>2 DEF TurnInv, AddsMonths
    <2> QED
      BY <2>1, <2>2
  <1> QED
    BY <1>1, <1>6 DEF TurnInv

\* A settlement is the first of its payment, and leaves no delivery in progress.
LEMMA TurnSettled ==
    ASSUME OneAtATime, PaymentInv, TurnInv, NEW h \in Handlers,
           CommitCredit(h) \/ CommitRenewal(h)
    PROVE  TurnInv'
  <1> DEFINE p0 == Mp(h).ref
  <1>1. handler[h].pc \in {"settle", "renew"} /\ Approve(h) /\ Commit(h)
    BY DEF CommitCredit, CanSettle, CommitRenewal
  <1>2. p0 \in Payments /\ ~payments[p0].processed
    BY <1>1, SettlingIsKnown DEF TurnInv
  <1>3. creditRows[p0] = 0
    BY <1>2 DEF TurnInv, PaymentInv, TypeOK
  <1>4. \A i \in Handlers : handler'[i].pc = "idle"
    BY <1>1 DEF Commit, Acknowledge, OneAtATime, PaymentInv, TypeOK, IdleHandler
  <1>5. payments'[p0].processed /\ \A p \in Payments : p # p0 => payments'[p] = payments[p]
    BY <1>1, <1>2 DEF Approve, PaymentInv, TypeOK, PaymentRow
  <1>6. \A p \in Payments : creditRows'[p] \in {creditRows[p], IF p = p0 THEN 1 ELSE creditRows[p]}
    BY <1>2, <1>3 DEF CommitCredit, CommitRenewal, PaymentInv, TypeOK
  <1> HIDE DEF p0
  <1>7. \A p \in Payments : creditRows'[p] <= 1 /\ (creditRows'[p] > 0 => payments'[p].processed)
    BY <1>5, <1>6 DEF TurnInv
  <1> QED
    BY <1>4, <1>7 DEF TurnInv

LEMMA TurnStep ==
    ASSUME OneAtATime, PaymentInv, TurnInv, [Next]_vars
    PROVE  TurnInv'
  <1>1. CASE \/ \E p \in Payments : Checkout(p)
             \/ \E m \in MpPayments, status \in MpStatus :
                   \/ Advance(m, status)
                   \/ \E ref \in Payments \cup {Foreign}, valid \in BOOLEAN :
                         Pay(m, ref, status, valid)
             \/ Tick \/ ExpireFixedTerm
             \/ \E u \in Cancellers : StartCancel(u) \/ CommitCancel(u)
    BY <1>1, TurnOutside
  <1>2. ASSUME NEW h \in Handlers, NEW n \in Notifications, Receive(h, n)
        PROVE  TurnInv'
    BY <1>2, TurnReceive
  <1>3. ASSUME NEW h \in Handlers, Step(h) \/ Fail(h)
        PROVE  TurnInv'
    BY <1>3, TurnKept, TurnTaken, TurnSettled DEF Step
  <1>4. CASE UNCHANGED vars
    <2>1. UNCHANGED <<creditRows, endAt, handler, payments, mercadoPago>>
      BY <1>4 DEF vars
    <2>2. \A h \in Handlers : Mp(h)' = Mp(h)
      BY <2>1 DEF Mp, Note
    <2> QED
      BY <2>1, <2>2, TurnQuiet
  <1> QED
    BY <1>1, <1>2, <1>3, <1>4 DEF Next, Checkout, MpStatus

LEMMA TurnHolds ==
    ASSUME OneAtATime
    PROVE  Spec => [](PaymentInv /\ TurnInv)
  <1>1. Init => TurnInv
    BY DEF Init, TurnInv, IdleHandler
  <1>2. PaymentInv /\ TurnInv /\ [Next]_vars => TurnInv'
    BY TurnStep
  <1> QED
    BY <1>1, <1>2, PaymentInvHolds, PTL DEF Spec

\* Deliveries that come one after the other credit a payment at most once, however
\* often the provider repeats itself, under however many event ids, and wherever a
\* delivery fails (processedAt, ProcessMercadoPagoWebhookService).
THEOREM CreditedOnceInTurn ==
    ASSUME OneAtATime
    PROVE  Spec => []CreditedOnce
  <1>1. TurnInv => CreditedOnce
    BY DEF TurnInv, CreditedOnce
  <1> QED
    BY <1>1, TurnHolds, PTL

\* Deliveries that come one after the other never lose time: whenever a subscription
\* payment is settled, the end of the subscription has moved by at least the months
\* that were paid (RenewSubscriptionFromPaymentService).
THEOREM RenewalsAddInTurn ==
    ASSUME OneAtATime
    PROVE  Spec => RenewalAddsPaidMonths
  <1> DEFINE A == \A p \in Payments :
                    Purpose[p] = "SUBSCRIPTION" /\ ~payments[p].processed /\ payments'[p].processed =>
                       LET end == endAt[Owner[p]]
                       IN  endAt'[Owner[p]] >= (IF end = NoRow THEN 0 ELSE end) + Months[p]
  <1>1. ASSUME PaymentInv, TurnInv, Next PROVE A
    <2> USE <1>1
    <2> SUFFICES ASSUME NEW p \in Payments, Purpose[p] = "SUBSCRIPTION",
                        ~payments[p].processed, payments'[p].processed
                 PROVE  AddsMonths(p, endAt'[Owner[p]])
      BY SMTT(30) DEF AddsMonths
    <2>1. PICK h \in Handlers : CommitCredit(h) \/ CommitRenewal(h)
      <3>1. ~\E q \in Payments : Checkout(q)
        BY SMTT(30), CheckoutMoves DEF Reaches, PaymentInv, TypeOK, PaymentRow
      <3>2. payments' # payments
        OBVIOUS
      <3>3. \A h \in Handlers : ~CommitStatus(h)
        BY DEF CommitStatus, PaymentInv, TypeOK, PaymentRow
      <3> QED
        BY <1>1, <3>1, <3>2, <3>3 DEF Next, Checkout, Pay, Advance, Tick, StartCancel, CommitCancel,
             ExpireFixedTerm, Receive, Step, Fail, SkipDuplicate, RecordOnly, Begin, CommitInvalid,
             ReadSubscription, RenewalConflict
    <2>2. handler[h].pc \in {"settle", "renew"} /\ Approve(h)
      BY <2>1 DEF CommitCredit, CanSettle, CommitRenewal
    <2>3. Mp(h).ref \in Payments
      BY <2>2, SettlingIsKnown
    <2>4. Mp(h).ref = p
      BY <2>2, <2>3 DEF Approve, PaymentInv, TypeOK
    <2>5. CommitRenewal(h)
      BY <2>1, <2>4 DEF CommitCredit, CanSettle
    <2>6. AddsMonths(p, handler[h].newEndAt) /\ Owner[p] \in Users
      BY <2>4, <2>5, PaymentAssumption DEF CommitRenewal, TurnInv
    <2>7. endAt'[Owner[p]] = handler[h].newEndAt
      BY <2>4, <2>5, <2>6 DEF CommitRenewal, PaymentInv, TypeOK
    <2> QED
      BY <2>6, <2>7
  <1>2. PaymentInv /\ TurnInv /\ [Next]_vars => [A]_vars
    BY <1>1
  <1> QED
    BY <1>2, TurnHolds, PTL DEF Spec, RenewalAddsPaidMonths

-----------------------------------------------------------------------------
(* WHAT IS APPROVED IS CREDITED                                             *)

\* Only subscriptions are renewed.
RenewsSubscriptions ==
    \A h \in Handlers : handler[h].pc = "renew" => Purpose[Mp(h).ref] = "SUBSCRIPTION"

CreditedInv == RenewsSubscriptions /\ ApprovedIsCredited

\* The credits of a user's payments are a number.
LEMMA CreditsType ==
    ASSUME TypeOK, NEW u \in Users
    PROVE  CreditsOf(u) \in Int
  <1> DEFINE P == {q \in Payments : Owner[q] = u}
             f == [p \in P |-> creditRows[p] * Coins[p]]
  <1>1. IsFiniteSet(P)
    BY PaymentAssumption, FS_Subset
  <1>2. \A p \in P : creditRows[p] \in Int /\ Coins[p] \in Int
    BY PaymentAssumption DEF TypeOK
  <1>3. \A p \in P : f[p] \in Int
    BY <1>2
  <1>4. CreditsOf(u) = SumFunctionOnSet(f, P)
    BY DEF CreditsOf, SumFunction
  <1> HIDE DEF f, P
  <1> QED
    BY <1>1, <1>3, <1>4, SumType

Credits(p) == creditRows' = [creditRows EXCEPT ![p] = @ + 1]

\* One more credit row of a payment is its coins for its owner.
LEMMA CreditCounts ==
    ASSUME TypeOK, NEW p \in Payments, Credits(p), NEW u \in Users
    PROVE  CreditsOf(u)' = CreditsOf(u) + (IF u = Owner[p] THEN Coins[p] ELSE 0)
  <1> DEFINE P == {q \in Payments : Owner[q] = u}
             f == [q \in P |-> creditRows[q] * Coins[q]]
             g == [q \in P |-> creditRows'[q] * Coins[q]]
             c == Coins[p]
  <1>1. IsFiniteSet(P)
    BY PaymentAssumption, FS_Subset
  <1>2. \A q \in P : creditRows[q] \in Int /\ Coins[q] \in Int
    BY PaymentAssumption DEF TypeOK
  <1>3. \A q \in P : creditRows'[q] = creditRows[q] + (IF q = p THEN 1 ELSE 0)
    BY DEF TypeOK, Credits
  <1>4. \A q \in P : f[q] \in Int /\ g[q] = f[q] + (IF q = p THEN c ELSE 0)
    <2>1. \A q \in P : f[q] = creditRows[q] * Coins[q] /\ g[q] = creditRows'[q] * Coins[q]
      OBVIOUS
    <2>2. \A q \in P : (creditRows[q] + 1) * Coins[q] = creditRows[q] * Coins[q] + Coins[q]
      BY <1>2
    <2> HIDE DEF f, g, P
    <2> QED
      BY <1>2, <1>3, <2>1, <2>2
  <1>5. CreditsOf(u) = SumFunctionOnSet(f, P) /\ CreditsOf(u)' = SumFunctionOnSet(g, P)
    BY DEF CreditsOf, SumFunction
  <1>6. p \in P <=> u = Owner[p]
    OBVIOUS
  <1>7. c \in Int
    BY PaymentAssumption
  <1> HIDE DEF f, g, P, c
  <1>8. SumFunctionOnSet(g, P) = SumFunctionOnSet(f, P) + (IF p \in P THEN c ELSE 0)
    BY <1>1, <1>4, <1>7, SumGrows
  <1> QED
    BY <1>5, <1>6, <1>8 DEF c

\* A step that approves nothing and credits nothing.
LEMMA CreditedQuiet ==
    ASSUME PaymentInv, CreditedInv, UNCHANGED <<wallet, creditRows>>,
           \A p \in Payments :
              /\ payments'[p].processed = payments[p].processed
              /\ payments'[p].status = "APPROVED" => payments[p].status = "APPROVED",
           \A h \in Handlers : handler'[h].pc = "renew" =>
              handler[h].pc = "renew" /\ Mp(h)'.ref = Mp(h).ref
    PROVE  CreditedInv'
  <1>1. \A u \in Users : CreditsOf(u)' = CreditsOf(u)
    BY DEF CreditsOf
  <1>2. ApprovedIsCredited'
    BY <1>1 DEF CreditedInv, ApprovedIsCredited
  <1> QED
    BY <1>2 DEF CreditedInv, RenewsSubscriptions

\* The steps that settle nothing.
LEMMA CreditedKept ==
    ASSUME PaymentInv, CreditedInv, NEW h \in Handlers,
           \/ SkipDuplicate(h) \/ RecordOnly(h) \/ Begin(h) \/ CommitStatus(h) \/ CommitInvalid(h)
           \/ RenewalConflict(h) \/ Fail(h) \/ \E n \in Notifications : Receive(h, n)
    PROVE  CreditedInv'
  <1>1. UNCHANGED <<wallet, creditRows, mercadoPago>>
    BY DEF SkipDuplicate, RecordOnly, Begin, CommitStatus, CommitInvalid, RenewalConflict, Fail,
           Receive, coinVars
  <1>2. \A i \in Handlers : handler'[i].pc = "renew" => handler'[i] = handler[i]
    BY DEF SkipDuplicate, RecordOnly, Begin, CommitStatus, CommitInvalid, RenewalConflict, Fail,
           Receive, Commit, Acknowledge, IdleHandler, PaymentInv, TypeOK
  <1>3. \A p \in Payments :
           /\ payments'[p].processed = payments[p].processed
           /\ payments'[p].status = "APPROVED" => payments[p].status = "APPROVED"
    <2>1. CASE CommitStatus(h)
      <3>1. handler[h].status # "approved" /\ handler[h].status \in MpStatus
        BY <2>1, NoteType DEF CommitStatus, PaymentInv
      <3>2. mapMpStatus[handler[h].status] # "APPROVED"
        BY <3>1 DEF mapMpStatus, MpStatus
      <3> QED
        BY <2>1, <3>2 DEF CommitStatus, PaymentInv, TypeOK, PaymentRow
    <2>2. CASE ~CommitStatus(h)
      BY <2>2 DEF SkipDuplicate, RecordOnly, Begin, CommitInvalid, RenewalConflict, Fail, Receive
    <2> QED
      BY <2>1, <2>2
  <1>4. \A i \in Handlers : handler'[i].pc = "renew" =>
           handler[i].pc = "renew" /\ Mp(i)'.ref = Mp(i).ref
    BY <1>1, <1>2 DEF Mp, Note
  <1> QED
    BY <1>1, <1>3, <1>4, CreditedQuiet

\* What happens outside the webhook.
LEMMA CreditedOutside ==
    ASSUME PaymentInv, CreditedInv,
           \/ \E p \in Payments : Checkout(p)
           \/ \E m \in MpPayments, status \in MpStatus :
                 \/ Advance(m, status)
                 \/ \E ref \in Payments \cup {Foreign}, valid \in BOOLEAN :
                       Pay(m, ref, status, valid)
           \/ Tick \/ ExpireFixedTerm
           \/ \E u \in Cancellers : StartCancel(u) \/ CommitCancel(u)
    PROVE  CreditedInv'
  <1>1. UNCHANGED <<wallet, creditRows, handler>>
    BY CheckoutMoves DEF Reaches, Advance, Pay, Tick, ExpireFixedTerm, StartCancel, CommitCancel,
                         coinVars
  <1>2. \A p \in Payments : /\ payments'[p].processed = payments[p].processed
                            /\ payments'[p].status = payments[p].status
    BY CheckoutMoves DEF Reaches, Advance, Pay, Tick, ExpireFixedTerm, StartCancel, CommitCancel,
                         PaymentInv, TypeOK, PaymentRow
  <1>3. \A x \in MpPayments : mercadoPago[x].status # "unpaid" =>
                                 mercadoPago'[x].ref = mercadoPago[x].ref
    BY CheckoutMoves DEF Reaches, Advance, Pay, Tick, ExpireFixedTerm, StartCancel, CommitCancel,
                         PaymentInv, TypeOK, MpRow, Unpaid
  <1>4. \A h \in Handlers : handler[h].pc = "renew" => Mp(h)'.ref = Mp(h).ref
    BY <1>1, <1>3, SettlingIsKnown DEF Mp, Note
  <1> QED
    BY <1>1, <1>2, <1>4, CreditedQuiet

\* A renewal is of a subscription payment.
LEMMA CreditedRead ==
    ASSUME PaymentInv, CreditedInv, NEW h \in Handlers, ReadSubscription(h)
    PROVE  CreditedInv'
  <1>1. UNCHANGED <<wallet, creditRows, mercadoPago, payments>>
    BY DEF ReadSubscription, coinVars
  <1>2. Note(h)' = Note(h) /\ \A i \in Handlers : i # h => handler'[i] = handler[i]
    BY DEF ReadSubscription, PaymentInv, TypeOK, Note
  <1>3. \A i \in Handlers : Mp(i)' = Mp(i)
    BY <1>1, <1>2 DEF Mp, Note
  <1>4. Purpose[Mp(h).ref] = "SUBSCRIPTION"
    BY DEF ReadSubscription, CanSettle
  <1>5. RenewsSubscriptions'
    BY <1>2, <1>3, <1>4 DEF CreditedInv, RenewsSubscriptions
  <1>6. \A u \in Users : CreditsOf(u)' = CreditsOf(u)
    BY <1>1 DEF CreditsOf
  <1>7. ApprovedIsCredited'
    BY <1>1, <1>6 DEF CreditedInv, ApprovedIsCredited
  <1> QED
    BY <1>5, <1>7 DEF CreditedInv

LEMMA CreditedSettled ==
    ASSUME PaymentInv, CreditedInv, NEW h \in Handlers, CommitCredit(h) \/ CommitRenewal(h)
    PROVE  CreditedInv'
  <1> DEFINE p0 == Mp(h).ref
  <1>1. handler[h].pc \in {"settle", "renew"} /\ Approve(h) /\ Commit(h) /\ UNCHANGED mercadoPago
    BY DEF CommitCredit, CanSettle, CommitRenewal
  <1>2. p0 \in Payments /\ Owner[p0] \in Users
    BY <1>1, SettlingIsKnown, PaymentAssumption
  <1>3. \A i \in Handlers : handler'[i].pc = "renew" => handler'[i] = handler[i]
    BY <1>1 DEF Commit, Acknowledge, PaymentInv, TypeOK, IdleHandler
  <1>4. \A i \in Handlers : handler'[i].pc = "renew" => Mp(i)' = Mp(i)
    BY <1>1, <1>3 DEF Mp, Note
  <1>5. RenewsSubscriptions'
    BY <1>3, <1>4 DEF CreditedInv, RenewsSubscriptions
  <1>6. payments'[p0].processed /\ \A p \in Payments : p # p0 => payments'[p] = payments[p]
    BY <1>1, <1>2 DEF Approve, PaymentInv, TypeOK, PaymentRow
  <1>7. CASE CommitRenewal(h)
    <2>1. Purpose[p0] = "SUBSCRIPTION" /\ UNCHANGED <<wallet, creditRows>>
      BY <1>7 DEF CommitRenewal, CreditedInv, RenewsSubscriptions
    <2>2. \A u \in Users : CreditsOf(u)' = CreditsOf(u)
      BY <2>1 DEF CreditsOf
    <2> HIDE DEF p0
    <2>3. ApprovedIsCredited'
      BY <1>6, <2>1, <2>2 DEF CreditedInv, ApprovedIsCredited
    <2> QED
      BY <1>5, <2>3 DEF CreditedInv
  <1>8. CASE CommitCredit(h)
    <2>1. Credits(p0)
      BY <1>8 DEF CommitCredit, Credits
    <2>2. \A u \in Users : CreditsOf(u)' = CreditsOf(u) + (IF u = Owner[p0] THEN Coins[p0] ELSE 0)
      BY <1>2, <2>1, CreditCounts DEF PaymentInv
    <2>3. \A p \in Payments : creditRows'[p] = creditRows[p] + (IF p = p0 THEN 1 ELSE 0)
                              /\ creditRows[p] \in Nat
      BY <1>2, <2>1 DEF Credits, PaymentInv, TypeOK
    <2>4. \A u \in Users : wallet'[u].balance =
                              wallet[u].balance + (IF u = Owner[p0] THEN Coins[p0] ELSE 0)
      <3>1. wallet' = [wallet EXCEPT ![Owner[p0]] = Credit(wallet[Owner[p0]], Coins[p0])]
        BY <1>8 DEF CommitCredit
      <3>2. Coins[p0] \in Nat /\ \A u \in Users : wallet[u].balance \in Nat
        BY <1>2, PaymentAssumption DEF PaymentInv, TypeOK, Account
      <3> HIDE DEF p0
      <3> QED
        BY <1>2, <3>1, <3>2 DEF Credit, PaymentInv, TypeOK
    <2> HIDE DEF p0
    <2>5. \A p \in Payments :
             payments'[p].status = "APPROVED" /\ Purpose[p] = "WALLET_CREDIT" =>
                payments'[p].processed /\ creditRows'[p] > 0
      BY <1>6, <2>3 DEF CreditedInv, ApprovedIsCredited
    <2>6. \A u \in Users : wallet'[u].balance = CreditsOf(u)'
      BY <2>2, <2>4 DEF CreditedInv, ApprovedIsCredited
    <2>7. ApprovedIsCredited'
      BY <2>5, <2>6 DEF ApprovedIsCredited
    <2> QED
      BY <1>5, <2>7 DEF CreditedInv
  <1> QED
    BY <1>7, <1>8

LEMMA CreditedStep == PaymentInv /\ CreditedInv /\ [Next]_vars => CreditedInv'
  <1> SUFFICES ASSUME PaymentInv, CreditedInv, [Next]_vars PROVE CreditedInv'
    OBVIOUS
  <1>1. CASE UNCHANGED vars
    <2>1. UNCHANGED <<wallet, creditRows, handler, payments, mercadoPago>>
      BY <1>1 DEF vars
    <2>2. \A h \in Handlers : Mp(h)' = Mp(h)
      BY <2>1 DEF Mp, Note
    <2> QED
      BY <2>1, <2>2, CreditedQuiet
  <1>2. ASSUME NEW h \in Handlers, Step(h) \/ Fail(h) \/ \E n \in Notifications : Receive(h, n)
        PROVE  CreditedInv'
    BY <1>2, CreditedKept, CreditedRead, CreditedSettled DEF Step
  <1>3. CASE \/ \E p \in Payments : Checkout(p)
             \/ \E m \in MpPayments, status \in MpStatus :
                   \/ Advance(m, status)
                   \/ \E ref \in Payments \cup {Foreign}, valid \in BOOLEAN :
                         Pay(m, ref, status, valid)
             \/ Tick \/ ExpireFixedTerm
             \/ \E u \in Cancellers : StartCancel(u) \/ CommitCancel(u)
    BY <1>3, CreditedOutside
  <1> QED
    BY <1>1, <1>2, <1>3 DEF Next, Checkout, MpStatus

\* Whatever deliveries overlap, fail or repeat: a WALLET_CREDIT payment shown as
\* APPROVED has been credited, and the balance of a user is what the credit rows of
\* its payments add up to (approvedWalletCreditNotCreditedWhere).
THEOREM ApprovedMeansCredited == Spec => []ApprovedIsCredited
  <1>1. Init => CreditedInv
    <2> SUFFICES ASSUME Init PROVE CreditedInv
      OBVIOUS
    <2>1. RenewsSubscriptions
      BY DEF Init, RenewsSubscriptions, IdleHandler
    <2>2. ASSUME NEW u \in Users
          PROVE  CreditsOf(u) = 0
      <3> DEFINE P == {q \in Payments : Owner[q] = u}
                 f == [q \in P |-> creditRows[q] * Coins[q]]
      <3>1. IsFiniteSet(P)
        BY PaymentAssumption, FS_Subset
      <3>2. \A q \in P : creditRows[q] = 0 /\ Coins[q] \in Nat
        BY PaymentAssumption DEF Init
      <3>3. \A q \in P : f[q] = 0
        BY <3>2
      <3>4. CreditsOf(u) = SumFunctionOnSet(f, P)
        BY DEF CreditsOf, SumFunction
      <3> HIDE DEF f, P
      <3> QED
        BY <3>1, <3>3, <3>4, SumOfZeros
    <2>3. ApprovedIsCredited
      BY <2>2 DEF Init, ApprovedIsCredited, NoPayment, EmptyWallet
    <2> QED
      BY <2>1, <2>3 DEF CreditedInv
  <1>2. CreditedInv => ApprovedIsCredited
    BY DEF CreditedInv
  <1> QED
    BY <1>1, <1>2, CreditedStep, PaymentInvHolds, PTL DEF Spec

=============================================================================
