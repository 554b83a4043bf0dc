------------------------------- MODULE Wallet -------------------------------
(***************************************************************************)
(* Coins (tampinhas) and the benefits bought with them: WalletService,     *)
(* AdminWalletCreditService, PurchaseBenefitsService and                   *)
(* AdminPaidBenefitsService.  Transactions run at READ COMMITTED: what a   *)
(* request reads before it holds a row lock is a step of its own, and its  *)
(* writes apply to the rows as they are when it commits.                   *)
(***************************************************************************)
EXTENDS WalletOps, FiniteSets, Functions

CONSTANTS
    Users,
    Types,        \* PaidBenefitType: DOUBLE, SUPER_DOUBLE
    Packages,     \* the ids of BENEFIT_PURCHASE_PACKAGES
    PackageType,  \* [Packages -> Types]
    Cost,         \* [Packages -> coins]
    Quantity,     \* [Packages -> benefits delivered]
    Requests,     \* concurrent HTTP requests that debit something
    Amounts,      \* the coin and benefit amounts an admin enters
    MaxCredited,  \* bound on the coins ever credited to one user
    MaxGranted    \* bound on the benefits an admin ever grants to one user

ASSUME PackageAssumption ==
    /\ IsFiniteSet(Packages) /\ Types # {}
    /\ PackageType \in [Packages -> Types]
    /\ Cost \in [Packages -> Nat \ {0}]
    /\ Quantity \in [Packages -> Nat \ {0}]

ASSUME AmountAssumption == Amounts \subseteq Nat \ {0} /\ MaxCredited \in Nat /\ MaxGranted \in Nat

VARIABLES
    wallet,      \* wallets and wallet_ledger, one Account per user
    inventory,   \* user_benefit_inventory: [Users -> [Types -> quantity]]
    request,     \* what each request in progress has read and decided
    purchases,   \* BENEFIT_PACKAGE_PURCHASED rows of the audit log
    adminDebits, \* ADMIN DEBIT rows of the ledger, summed
    adminGrants, \* benefits granted by admins, summed (history)
    adminTakes   \* benefits taken back by admins, summed (history)

vars == <<wallet, inventory, request, purchases, adminDebits, adminGrants, adminTakes>>

Idle == [op |-> "idle"]
PurchaseRequest == [op : {"purchase"}, user : Users, pkg : Packages]
AdminDebitRequest == [op : {"adminDebit"}, user : Users, amount : Amounts]
TakeBackRequest == [op : {"debitPaid"}, user : Users, type : Types, amount : Amounts]

TypeOK ==
    /\ wallet \in [Users -> Account]
    /\ inventory \in [Users -> [Types -> Nat]]
    /\ request \in [Requests -> {Idle} \cup PurchaseRequest
                                \cup AdminDebitRequest \cup TakeBackRequest]
    /\ purchases \in [Users -> [Packages -> Nat]]
    /\ adminDebits \in [Users -> Nat]
    /\ adminGrants \in [Users -> [Types -> Nat]]
    /\ adminTakes \in [Users -> [Types -> Nat]]

Init ==
    /\ wallet = [u \in Users |-> EmptyWallet]
    /\ inventory = [u \in Users |-> [t \in Types |-> 0]]
    /\ request = [r \in Requests |-> Idle]
    /\ purchases = [u \in Users |-> [k \in Packages |-> 0]]
    /\ adminDebits = [u \in Users |-> 0]
    /\ adminGrants = [u \in Users |-> [t \in Types |-> 0]]
    /\ adminTakes = [u \in Users |-> [t \in Types |-> 0]]

-----------------------------------------------------------------------------
(* WalletService.credit and AdminWalletCreditService.credit: nothing read   *)
(* outside the row lock decides anything, so a credit is one step.          *)

AddCoins(u, amount) ==
    /\ wallet[u].credited + amount <= MaxCredited
    /\ wallet' = [wallet EXCEPT ![u] = Credit(@, amount)]
    /\ UNCHANGED <<inventory, request, purchases, adminDebits, adminGrants, adminTakes>>

(* Every debit reads the wallet first and gives up if it is too small.      *)

StartPurchase(r, u, k) ==
    /\ request[r] = Idle
    /\ HasFunds(wallet[u], Cost[k])
    /\ request' = [request EXCEPT ![r] = [op |-> "purchase", user |-> u, pkg |-> k]]
    /\ UNCHANGED <<wallet, inventory, purchases, adminDebits, adminGrants, adminTakes>>

StartAdminDebit(r, u, amount) ==
    /\ request[r] = Idle
    /\ HasFunds(wallet[u], amount)
    /\ request' = [request EXCEPT ![r] = [op |-> "adminDebit", user |-> u, amount |-> amount]]
    /\ UNCHANGED <<wallet, inventory, purchases, adminDebits, adminGrants, adminTakes>>

Finish(r) == request' = [request EXCEPT ![r] = Idle]

(* The conditional updateMany matched a row: debit, deliver, audit, commit. *)
CommitPurchase(r) ==
    /\ request[r].op = "purchase"
    /\ LET u == request[r].user
           k == request[r].pkg
       IN  /\ HasFunds(wallet[u], Cost[k])
           /\ wallet' = [wallet EXCEPT ![u] = Debit(@, Cost[k])]
           /\ inventory' = [inventory EXCEPT ![u][PackageType[k]] = @ + Quantity[k]]
           /\ purchases' = [purchases EXCEPT ![u][k] = @ + 1]
    /\ Finish(r)
    /\ UNCHANGED <<adminDebits, adminGrants, adminTakes>>

\* Fault: benefits delivered outside the transaction stay when the debit fails.
RejectPurchaseDelivers(r) ==
    /\ request[r].op = "purchase"
    /\ LET u == request[r].user
           k == request[r].pkg
       IN  /\ ~HasFunds(wallet[u], Cost[k])
           /\ inventory' = [inventory EXCEPT ![u][PackageType[k]] = @ + Quantity[k]]
    /\ Finish(r)
    /\ UNCHANGED <<wallet, purchases, adminDebits, adminGrants, adminTakes>>

(* It matched none: the request throws and the whole transaction goes.      *)
RejectPurchase(r) ==
    /\ request[r].op = "purchase"
    /\ ~HasFunds(wallet[request[r].user], Cost[request[r].pkg])
    /\ Finish(r)
    /\ UNCHANGED <<wallet, inventory, purchases, adminDebits, adminGrants, adminTakes>>

\* Fault: the update does not repeat the condition of the read.
CommitAdminDebitBlind(r) ==
    /\ request[r].op = "adminDebit"
    /\ LET u == request[r].user
           amount == request[r].amount
       IN  /\ wallet' = [wallet EXCEPT ![u] = Debit(@, amount)]
           /\ adminDebits' = [adminDebits EXCEPT ![u] = @ + amount]
    /\ Finish(r)
    /\ UNCHANGED <<inventory, purchases, adminGrants, adminTakes>>

CommitAdminDebit(r) ==
    /\ request[r].op = "adminDebit"
    /\ LET u == request[r].user
           amount == request[r].amount
       IN  /\ HasFunds(wallet[u], amount)
           /\ wallet' = [wallet EXCEPT ![u] = Debit(@, amount)]
           /\ adminDebits' = [adminDebits EXCEPT ![u] = @ + amount]
    /\ Finish(r)
    /\ UNCHANGED <<inventory, purchases, adminGrants, adminTakes>>

RejectAdminDebit(r) ==
    /\ request[r].op = "adminDebit"
    /\ ~HasFunds(wallet[request[r].user], request[r].amount)
    /\ Finish(r)
    /\ UNCHANGED <<wallet, inventory, purchases, adminDebits, adminGrants, adminTakes>>

(* A crash, a lost connection or any other error before the commit.         *)
RollBack(r) ==
    /\ request[r] # Idle
    /\ Finish(r)
    /\ UNCHANGED <<wallet, inventory, purchases, adminDebits, adminGrants, adminTakes>>

-----------------------------------------------------------------------------
(* AdminPaidBenefitsService works outside any transaction.                  *)

CreditPaid(u, t, amount) ==
    /\ adminGrants[u][t] + amount <= MaxGranted
    /\ inventory' = [inventory EXCEPT ![u][t] = @ + amount]
    /\ adminGrants' = [adminGrants EXCEPT ![u][t] = @ + amount]
    /\ UNCHANGED <<wallet, request, purchases, adminDebits, adminTakes>>

StartDebitPaid(r, u, t, amount) ==
    /\ request[r] = Idle
    /\ inventory[u][t] >= amount
    /\ request' = [request EXCEPT ![r] =
                     [op |-> "debitPaid", user |-> u, type |-> t, amount |-> amount]]
    /\ UNCHANGED <<wallet, inventory, purchases, adminDebits, adminGrants, adminTakes>>

(* The CHECK constraint user_benefit_inventory_quantity_non_negative.       *)
QuantityCheck(quantity) == quantity >= 0

(* The decrement is unconditional: only the CHECK can still refuse it.      *)
CommitDebitPaid(r) ==
    /\ request[r].op = "debitPaid"
    /\ LET u == request[r].user
           t == request[r].type
           amount == request[r].amount
       IN  /\ QuantityCheck(inventory[u][t] - amount)
           /\ inventory' = [inventory EXCEPT ![u][t] = @ - amount]
           /\ adminTakes' = [adminTakes EXCEPT ![u][t] = @ + amount]
    /\ Finish(r)
    /\ UNCHANGED <<wallet, purchases, adminDebits, adminGrants>>

RejectDebitPaid(r) ==
    /\ request[r].op = "debitPaid"
    /\ ~QuantityCheck(inventory[request[r].user][request[r].type] - request[r].amount)
    /\ Finish(r)
    /\ UNCHANGED <<wallet, inventory, purchases, adminDebits, adminGrants, adminTakes>>

-----------------------------------------------------------------------------
Handle(r) ==
    \/ \E u \in Users, k \in Packages : StartPurchase(r, u, k)
    \/ \E u \in Users, a \in Amounts : StartAdminDebit(r, u, a)
    \/ \E u \in Users, t \in Types, a \in Amounts : StartDebitPaid(r, u, t, a)
    \/ CommitPurchase(r)
    \/ RejectPurchase(r)
    \/ CommitAdminDebit(r)
    \/ RejectAdminDebit(r)
    \/ CommitDebitPaid(r)
    \/ RejectDebitPaid(r)
    \/ RollBack(r)

Next ==
    \/ \E u \in Users, a \in Amounts : AddCoins(u, a)
    \/ \E u \in Users, t \in Types, a \in Amounts : CreditPaid(u, t, a)
    \/ \E r \in Requests : Handle(r)

Spec == Init /\ [][Next]_vars

-----------------------------------------------------------------------------
(* PROPERTIES                                                               *)

SpentOn(u) == SumFunction([k \in Packages |-> purchases[u][k] * Cost[k]])

BoughtBy(u, t) ==
    SumFunction([k \in {p \in Packages : PackageType[p] = t} |-> purchases[u][k] * Quantity[k]])

\* Nobody is charged for benefits that were not delivered, and nobody gets
\* benefits without being charged: over any interleaving of purchases, admin
\* operations and rollbacks, the DEBIT rows of a user are exactly the price of
\* the packages the audit log says were bought plus the admin debits, and the
\* inventory is exactly their content plus what admins granted and minus what
\* they took back (PurchaseBenefitsService.execute, one transaction).
DeliveredIffCharged ==
    \A u \in Users :
        /\ wallet[u].debited = SpentOn(u) + adminDebits[u]
        /\ \A t \in Types :
             inventory[u][t] + adminTakes[u][t] = BoughtBy(u, t) + adminGrants[u][t]

L == INSTANCE Ledger WITH Users <- Users, wallet <- wallet

\* The wallet service implements the ledger promise: no interleaving of the
\* read-then-conditional-update debits loses an update, overdraws a balance or
\* moves coins without a ledger row (WalletService.creditWithTx, debitWithTx).
LedgerSpec == L!Spec

=============================================================================
