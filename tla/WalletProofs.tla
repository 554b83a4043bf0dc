---------------------------- MODULE WalletProofs ----------------------------
(***************************************************************************)
(* Wallet implements Ledger, and delivers what it charges, for every       *)
(* number of users, packages and concurrent requests.  Operations, which   *)
(* is checked beside it, tells operators what is true, for every number of *)
(* workers, releases, schedules and executions.                            *)
(***************************************************************************)
EXTENDS Wallet, Operations, Aggregates, TLAPS

\* creditWithTx posts exactly one CREDIT row.
LEMMA CreditPosts ==
    ASSUME NEW w \in Account, NEW a \in Nat \ {0}
    PROVE  /\ Credit(w, a) \in Account
           /\ L!PostsCredit(w, Credit(w, a))
  BY DEF Account, Credit, L!PostsCredit

\* debitWithTx posts exactly one DEBIT row, of what the balance can pay.
LEMMA DebitPosts ==
    ASSUME NEW w \in Account, NEW a \in Nat \ {0}, HasFunds(w, a)
    PROVE  /\ Debit(w, a) \in Account
           /\ L!PostsDebit(w, Debit(w, a))
  BY DEF Account, Debit, HasFunds, L!PostsDebit

\* A request that is not idle has the fields of its operation.
LEMMA RequestFields ==
    ASSUME TypeOK, NEW r \in Requests
    PROVE  /\ request[r].op = "purchase" => request[r] \in PurchaseRequest
           /\ request[r].op = "adminDebit" => request[r] \in AdminDebitRequest
           /\ request[r].op = "debitPaid" => request[r] \in TakeBackRequest
  <1> DEFINE q == request[r]
  <1>1. q \in {Idle} \cup PurchaseRequest \cup AdminDebitRequest \cup TakeBackRequest
    BY DEF TypeOK
  <1>2. q \in {Idle} => q.op = "idle"
    BY DEF Idle
  <1>3. q \in PurchaseRequest => q.op = "purchase"
    BY DEF PurchaseRequest
  <1>4. q \in AdminDebitRequest => q.op = "adminDebit"
    BY DEF AdminDebitRequest
  <1>5. q \in TakeBackRequest => q.op = "debitPaid"
    BY DEF TakeBackRequest
  <1> QED
    BY <1>1, <1>2, <1>3, <1>4, <1>5

\* Ending a request keeps the table of requests well formed.
LEMMA FinishType ==
    ASSUME TypeOK, NEW r \in Requests, Finish(r)
    PROVE  request' \in [Requests -> {Idle} \cup PurchaseRequest
                                     \cup AdminDebitRequest \cup TakeBackRequest]
  BY DEF TypeOK, Finish

\* Every operation keeps the tables well formed, one step for each of them.
LEMMA TypeStep == TypeOK /\ [Next]_vars => TypeOK'
  <1> SUFFICES ASSUME TypeOK, [Next]_vars
               PROVE  TypeOK'
    OBVIOUS
  <1> USE PackageAssumption, AmountAssumption
  <1>1. ASSUME NEW u \in Users, NEW a \in Amounts, AddCoins(u, a)
        PROVE  TypeOK'
    <2>1. Credit(wallet[u], a) \in Account
      BY CreditPosts DEF TypeOK
    <2> QED
      BY <1>1, <2>1 DEF TypeOK, AddCoins
  <1>2. ASSUME NEW u \in Users, NEW t \in Types, NEW a \in Amounts, CreditPaid(u, t, a)
        PROVE  TypeOK'
    BY <1>2 DEF TypeOK, CreditPaid
  <1>3. ASSUME NEW r \in Requests, NEW u \in Users, NEW k \in Packages,
               StartPurchase(r, u, k)
        PROVE  TypeOK'
    <2>1. [op |-> "purchase", user |-> u, pkg |-> k] \in PurchaseRequest
      BY DEF PurchaseRequest
    <2> QED
      BY <1>3, <2>1 DEF TypeOK, StartPurchase
  <1>4. ASSUME NEW r \in Requests, NEW u \in Users, NEW a \in Amounts,
               StartAdminDebit(r, u, a)
        PROVE  TypeOK'
    <2>1. [op |-> "adminDebit", user |-> u, amount |-> a] \in AdminDebitRequest
      BY DEF AdminDebitRequest
    <2> QED
      BY <1>4, <2>1 DEF TypeOK, StartAdminDebit
  <1>5. ASSUME NEW r \in Requests, NEW u \in Users, NEW t \in Types, NEW a \in Amounts,
               StartDebitPaid(r, u, t, a)
        PROVE  TypeOK'
    <2>1. [op |-> "debitPaid", user |-> u, type |-> t, amount |-> a] \in TakeBackRequest
      BY DEF TakeBackRequest
    <2> QED
      BY SMTT(30), <1>5, <2>1 DEF TypeOK, StartDebitPaid
  <1>6. ASSUME NEW r \in Requests, CommitPurchase(r)
        PROVE  TypeOK'
    <2> DEFINE u == request[r].user
               k == request[r].pkg
    <2>1. u \in Users /\ k \in Packages
      BY <1>6, RequestFields DEF CommitPurchase, PurchaseRequest
    <2>2. Debit(wallet[u], Cost[k]) \in Account
      BY <1>6, <2>1, DebitPosts DEF TypeOK, CommitPurchase
    <2>3. wallet' \in [Users -> Account]
      BY <1>6, <2>1, <2>2 DEF TypeOK, CommitPurchase
    <2>4. inventory' \in [Users -> [Types -> Nat]]
      BY <1>6, <2>1 DEF TypeOK, CommitPurchase
    <2>5. purchases' \in [Users -> [Packages -> Nat]]
      BY <1>6, <2>1 DEF TypeOK, CommitPurchase
    <2> QED
      BY <1>6, <2>3, <2>4, <2>5, FinishType DEF TypeOK, CommitPurchase
  <1>7. ASSUME NEW r \in Requests, CommitAdminDebit(r)
        PROVE  TypeOK'
    <2> DEFINE u == request[r].user
               a == request[r].amount
    <2>1. u \in Users /\ a \in Amounts
      BY <1>7, RequestFields DEF CommitAdminDebit, AdminDebitRequest
    <2>2. Debit(wallet[u], a) \in Account
      BY <1>7, <2>1, DebitPosts DEF TypeOK, CommitAdminDebit
    <2>3. wallet' \in [Users -> Account]
      BY <1>7, <2>1, <2>2 DEF TypeOK, CommitAdminDebit
    <2>4. a \in Nat /\ adminDebits[u] \in Nat
      BY <2>1 DEF TypeOK
    <2>5. adminDebits' = [adminDebits EXCEPT ![u] = adminDebits[u] + a]
      BY <1>7 DEF CommitAdminDebit
    <2>6. adminDebits' \in [Users -> Nat]
      BY SMTT(30), <2>1, <2>4, <2>5 DEF TypeOK
    <2> QED
      BY <1>7, <2>3, <2>6, FinishType DEF TypeOK, CommitAdminDebit
  <1>8. ASSUME NEW r \in Requests, CommitDebitPaid(r)
        PROVE  TypeOK'
    <2> DEFINE u == request[r].user
               t == request[r].type
               a == request[r].amount
    <2>1. u \in Users /\ t \in Types /\ a \in Amounts
      BY <1>8, RequestFields DEF CommitDebitPaid, TakeBackRequest
    <2>2. inventory[u][t] \in Nat /\ adminTakes[u][t] \in Nat /\ a \in Nat
      <3>1. inventory[u][t] \in Nat
        BY <2>1 DEF TypeOK
      <3>2. adminTakes[u][t] \in Nat
        BY <2>1 DEF TypeOK
      <3>3. a \in Nat
        BY <2>1
      <3> QED
        BY <3>1, <3>2, <3>3
    <2>3. inventory[u][t] - a \in Nat
      BY <1>8, <2>2 DEF CommitDebitPaid, QuantityCheck
    <2>4. inventory' = [inventory EXCEPT ![u][t] = inventory[u][t] - a]
      BY <1>8 DEF CommitDebitPaid
    <2>5. inventory' \in [Users -> [Types -> Nat]]
      BY <2>1, <2>3, <2>4 DEF TypeOK
    <2>6. adminTakes' = [adminTakes EXCEPT ![u][t] = adminTakes[u][t] + a]
      BY <1>8 DEF CommitDebitPaid
    <2>7. adminTakes[u][t] + a \in Nat
      BY <2>2
    <2>8. adminTakes' \in [Users -> [Types -> Nat]]
      BY <2>1, <2>6, <2>7 DEF TypeOK
    <2> QED
      BY <1>8, <2>5, <2>8, FinishType DEF TypeOK, CommitDebitPaid
  <1>9. ASSUME NEW r \in Requests,
               RejectPurchase(r) \/ RejectAdminDebit(r) \/ RejectDebitPaid(r) \/ RollBack(r)
        PROVE  TypeOK'
    BY <1>9, FinishType
    DEF TypeOK, RejectPurchase, RejectAdminDebit, RejectDebitPaid, RollBack
  <1>10. CASE UNCHANGED vars
    BY <1>10 DEF TypeOK, vars
  <1> QED
    BY <1>1, <1>2, <1>3, <1>4, <1>5, <1>6, <1>7, <1>8, <1>9, <1>10 DEF Next, Handle

\* Balances, ledger totals and inventories stay natural numbers under every
\* interleaving: no debit overdraws a wallet or an inventory.
THEOREM WalletTypeCorrect == Spec => []TypeOK
  <1>1. Init => TypeOK
    BY DEF Init, TypeOK, Account, EmptyWallet, Idle
  <1> QED
    BY <1>1, TypeStep, PTL DEF Spec

\* Each step of the wallet service posts what the ledger promise allows.
LEMMA LedgerStep == TypeOK /\ [Next]_vars => [L!Post]_wallet
  <1> SUFFICES ASSUME TypeOK, [Next]_vars
               PROVE  [L!Post]_wallet
    OBVIOUS
  <1> USE PackageAssumption, AmountAssumption
  <1>1. ASSUME NEW u \in Users, NEW a \in Amounts, AddCoins(u, a)
        PROVE  L!Post
    <2>1. L!PostsCredit(wallet[u], Credit(wallet[u], a))
      BY CreditPosts DEF TypeOK
    <2>2. \A v \in Users : wallet'[v] = IF v = u THEN Credit(wallet[u], a) ELSE wallet[v]
      BY <1>1 DEF AddCoins, TypeOK
    <2> QED
      BY <2>1, <2>2 DEF L!Post
  <1>2. ASSUME NEW r \in Requests, CommitPurchase(r)
        PROVE  L!Post
    <2> DEFINE u == request[r].user
               k == request[r].pkg
    <2>1. u \in Users /\ k \in Packages
      BY <1>2, RequestFields DEF CommitPurchase, PurchaseRequest
    <2>2. L!PostsDebit(wallet[u], Debit(wallet[u], Cost[k]))
      BY <1>2, <2>1, DebitPosts DEF TypeOK, CommitPurchase
    <2>3. \A v \in Users : wallet'[v] = IF v = u THEN Debit(wallet[u], Cost[k]) ELSE wallet[v]
      BY <1>2, <2>1 DEF CommitPurchase, TypeOK
    <2> QED
      BY <2>2, <2>3 DEF L!Post
  <1>3. ASSUME NEW r \in Requests, CommitAdminDebit(r)
        PROVE  L!Post
    <2> DEFINE u == request[r].user
               a == request[r].amount
    <2>1. u \in Users /\ a \in Amounts
      BY <1>3, RequestFields DEF CommitAdminDebit, AdminDebitRequest
    <2>2. L!PostsDebit(wallet[u], Debit(wallet[u], a))
      BY <1>3, <2>1, DebitPosts DEF TypeOK, CommitAdminDebit
    <2>3. \A v \in Users : wallet'[v] = IF v = u THEN Debit(wallet[u], a) ELSE wallet[v]
      BY <1>3, <2>1 DEF CommitAdminDebit, TypeOK
    <2> QED
      BY <2>2, <2>3 DEF L!Post
  <1>4. ASSUME \/ \E u \in Users, t \in Types, a \in Amounts : CreditPaid(u, t, a)
               \/ \E r \in Requests, u \in Users, k \in Packages : StartPurchase(r, u, k)
               \/ \E r \in Requests, u \in Users, a \in Amounts : StartAdminDebit(r, u, a)
               \/ \E r \in Requests, u \in Users, t \in Types, a \in Amounts :
                     StartDebitPaid(r, u, t, a)
               \/ \E r \in Requests : \/ RejectPurchase(r) \/ RejectAdminDebit(r)
                                      \/ CommitDebitPaid(r) \/ RejectDebitPaid(r)
                                      \/ RollBack(r)
               \/ UNCHANGED vars
        PROVE  UNCHANGED wallet
    BY <1>4 DEF CreditPaid, StartPurchase, StartAdminDebit, StartDebitPaid, RejectPurchase,
                RejectAdminDebit, CommitDebitPaid, RejectDebitPaid, RollBack, vars
  <1> QED
    BY <1>1, <1>2, <1>3, <1>4 DEF Next, Handle

\* WalletService and the services around it implement the ledger promise: a
\* balance moves only together with its ledger row and is never overdrawn.
THEOREM WalletImplementsLedger == Spec => LedgerSpec
  <1>1. Init => L!Init
    <2>1. L!Backed(EmptyWallet)
      BY DEF L!Backed, EmptyWallet
    <2> QED
      BY <2>1 DEF Init, L!Init
  <1> QED
    BY <1>1, WalletTypeCorrect, LedgerStep, PTL DEF Spec, LedgerSpec, L!Spec

-----------------------------------------------------------------------------
(* WHAT WAS BOUGHT                                                          *)

\* The sums over the purchases are numbers.
LEMMA BoughtType ==
    ASSUME TypeOK, NEW u \in Users, NEW t \in Types
    PROVE  SpentOn(u) \in Int /\ BoughtBy(u, t) \in Int
  <1> DEFINE P == {p \in Packages : PackageType[p] = t}
             f == [k \in Packages |-> purchases[u][k] * Cost[k]]
             g == [k \in P |-> purchases[u][k] * Quantity[k]]
  <1>1. IsFiniteSet(Packages) /\ IsFiniteSet(P)
    BY PackageAssumption, FS_Subset
  <1>2. \A k \in Packages : purchases[u][k] \in Int /\ Cost[k] \in Int /\ Quantity[k] \in Int
    BY PackageAssumption DEF TypeOK
  <1>3. (\A k \in Packages : f[k] \in Int) /\ (\A k \in P : g[k] \in Int)
    BY <1>2
  <1>4. SpentOn(u) = SumFunctionOnSet(f, Packages) /\ BoughtBy(u, t) = SumFunctionOnSet(g, P)
    BY DEF SpentOn, BoughtBy, SumFunction
  <1> HIDE DEF f, g, P
  <1> QED
    BY <1>1, <1>3, <1>4, SumType

Buys(u, k) == purchases' = [purchases EXCEPT ![u][k] = @ + 1]

\* One more purchase of a package costs its price and brings its content.
LEMMA PurchaseCounts ==
    ASSUME TypeOK, NEW u \in Users, NEW k \in Packages, Buys(u, k),
           NEW v \in Users, NEW t \in Types
    PROVE  /\ SpentOn(v)' = SpentOn(v) + (IF v = u THEN Cost[k] ELSE 0)
           /\ BoughtBy(v, t)' = BoughtBy(v, t) + (IF v = u /\ PackageType[k] = t
                                                  THEN Quantity[k] ELSE 0)
  <1> DEFINE A == Packages
             P == {p \in Packages : PackageType[p] = t}
             f == [p \in A |-> purchases[u][p] * Cost[p]]
             f1 == [p \in A |-> purchases'[u][p] * Cost[p]]
             g == [p \in P |-> purchases[u][p] * Quantity[p]]
             g1 == [p \in P |-> purchases'[u][p] * Quantity[p]]
  <1>1. IsFiniteSet(A) /\ IsFiniteSet(P)
    BY PackageAssumption, FS_Subset
  <1>2. \A p \in Packages : purchases[u][p] \in Nat /\ Cost[p] \in Nat /\ Quantity[p] \in Nat
    BY PackageAssumption DEF TypeOK
  <1>3. purchases'[u][k] = purchases[u][k] + 1
        /\ \A p \in Packages : p # k => purchases'[u][p] = purchases[u][p]
    BY DEF TypeOK, Buys
  <1>4. CASE v # u
    <2>1. purchases'[v] = purchases[v]
      BY <1>4 DEF TypeOK, Buys
    <2>2. SpentOn(v)' = SpentOn(v) /\ BoughtBy(v, t)' = BoughtBy(v, t)
      BY <2>1 DEF SpentOn, BoughtBy
    <2> QED
      BY <1>4, <2>2, BoughtType
  <1>5. CASE v = u
    <2>1. /\ SpentOn(u) = SumFunctionOnSet(f, A)
          /\ SpentOn(u)' = SumFunctionOnSet(f1, A)
          /\ BoughtBy(u, t) = SumFunctionOnSet(g, P)
          /\ BoughtBy(u, t)' = SumFunctionOnSet(g1, P)
      BY DEF SpentOn, BoughtBy, SumFunction
    <2>2. \A p \in A : f[p] \in Int /\ f1[p] = f[p] + (IF p = k THEN Cost[k] ELSE 0)
      <3>1. \A p \in A : f[p] = purchases[u][p] * Cost[p] /\ f1[p] = purchases'[u][p] * Cost[p]
        OBVIOUS
      <3>2. (purchases[u][k] + 1) * Cost[k] = purchases[u][k] * Cost[k] + Cost[k]
        BY <1>2
      <3> HIDE DEF f, f1
      <3> QED
        BY <1>2, <1>3, <3>1, <3>2
    <2>3. \A p \in P : g[p] \in Int /\ g1[p] = g[p] + (IF p = k THEN Quantity[k] ELSE 0)
      <3>1. \A p \in P : g[p] = purchases[u][p] * Quantity[p] /\ g1[p] = purchases'[u][p] * Quantity[p]
        OBVIOUS
      <3>2. (purchases[u][k] + 1) * Quantity[k] = purchases[u][k] * Quantity[k] + Quantity[k]
        BY <1>2
      <3>3. P \subseteq Packages
        OBVIOUS
      <3> HIDE DEF g, g1, P
      <3> QED
        BY <1>2, <1>3, <3>1, <3>2, <3>3
    <2>4. k \in A /\ (k \in P <=> PackageType[k] = t)
      OBVIOUS
    <2>5. Cost[k] \in Int /\ Quantity[k] \in Int
      BY <1>2
    <2> HIDE DEF f, f1, g, g1, P, A
    <2>6. SumFunctionOnSet(f1, A) = SumFunctionOnSet(f, A) + (IF k \in A THEN Cost[k] ELSE 0)
      BY <1>1, <2>2, <2>5, SumGrows
    <2>7. SumFunctionOnSet(g1, P) = SumFunctionOnSet(g, P) + (IF k \in P THEN Quantity[k] ELSE 0)
      BY <1>1, <2>3, <2>5, SumGrows
    <2> QED
      BY <1>5, <2>1, <2>4, <2>6, <2>7
  <1> QED
    BY <1>4, <1>5

\* Where the purchases stay, so do their sums.
LEMMA BoughtStays ==
    ASSUME purchases' = purchases, NEW u, NEW t
    PROVE  SpentOn(u)' = SpentOn(u) /\ BoughtBy(u, t)' = BoughtBy(u, t)
  BY DEF SpentOn, BoughtBy

\* Every operation charges and delivers together.
LEMMA DeliveredStep == TypeOK /\ DeliveredIffCharged /\ [Next]_vars => DeliveredIffCharged'
  <1> SUFFICES ASSUME TypeOK, DeliveredIffCharged, [Next]_vars, NEW v \in Users, NEW t \in Types
               PROVE  /\ wallet'[v].debited = SpentOn(v)' + adminDebits'[v]
                      /\ inventory'[v][t] + adminTakes'[v][t] =
                            BoughtBy(v, t)' + adminGrants'[v][t]
    BY PackageAssumption DEF DeliveredIffCharged
  <1> USE PackageAssumption, AmountAssumption
  <1>0. /\ wallet[v].debited = SpentOn(v) + adminDebits[v]
        /\ inventory[v][t] + adminTakes[v][t] = BoughtBy(v, t) + adminGrants[v][t]
        /\ wallet[v].debited \in Nat /\ adminDebits[v] \in Nat /\ inventory[v][t] \in Nat
        /\ adminTakes[v][t] \in Nat /\ adminGrants[v][t] \in Nat
        /\ SpentOn(v) \in Int /\ BoughtBy(v, t) \in Int
    BY BoughtType DEF DeliveredIffCharged, TypeOK, Account
  <1>1. ASSUME NEW r \in Requests, CommitPurchase(r)
        PROVE  /\ wallet'[v].debited = SpentOn(v)' + adminDebits'[v]
               /\ inventory'[v][t] + adminTakes'[v][t] = BoughtBy(v, t)' + adminGrants'[v][t]
    <2> DEFINE u == request[r].user
               k == request[r].pkg
    <2>1. u \in Users /\ k \in Packages /\ PackageType[k] \in Types
      BY <1>1, RequestFields DEF CommitPurchase, PurchaseRequest
    <2>2. Buys(u, k) /\ UNCHANGED <<adminDebits, adminGrants, adminTakes>>
      BY <1>1 DEF CommitPurchase, Buys
    <2>3. /\ SpentOn(v)' = SpentOn(v) + (IF v = u THEN Cost[k] ELSE 0)
          /\ BoughtBy(v, t)' = BoughtBy(v, t) + (IF v = u /\ PackageType[k] = t
                                                 THEN Quantity[k] ELSE 0)
      BY <2>1, <2>2, PurchaseCounts
    <2>4. wallet'[v].debited = wallet[v].debited + (IF v = u THEN Cost[k] ELSE 0)
      BY <1>0, <1>1, <2>1 DEF CommitPurchase, TypeOK, Debit
    <2>5. inventory'[v][t] = inventory[v][t] + (IF v = u /\ PackageType[k] = t
                                                THEN Quantity[k] ELSE 0)
      BY <1>0, <1>1, <2>1 DEF CommitPurchase, TypeOK
    <2>6. Cost[k] \in Nat /\ Quantity[k] \in Nat
      BY <2>1
    <2> HIDE DEF u, k
    <2> QED
      BY <1>0, <2>2, <2>3, <2>4, <2>5, <2>6
  <1>2. ASSUME purchases' = purchases,
               wallet'[v].debited - adminDebits'[v] = wallet[v].debited - adminDebits[v],
               wallet'[v].debited \in Nat /\ adminDebits'[v] \in Nat,
               UNCHANGED <<inventory, adminTakes, adminGrants>>
        PROVE  /\ wallet'[v].debited = SpentOn(v)' + adminDebits'[v]
               /\ inventory'[v][t] + adminTakes'[v][t] = BoughtBy(v, t)' + adminGrants'[v][t]
    BY <1>0, <1>2, BoughtStays
  <1>3. ASSUME UNCHANGED <<purchases, wallet, adminDebits>>,
               inventory'[v][t] + adminTakes'[v][t] - adminGrants'[v][t]
                  = inventory[v][t] + adminTakes[v][t] - adminGrants[v][t],
               inventory'[v][t] \in Nat /\ adminTakes'[v][t] \in Nat /\ adminGrants'[v][t] \in Nat
        PROVE  /\ wallet'[v].debited = SpentOn(v)' + adminDebits'[v]
               /\ inventory'[v][t] + adminTakes'[v][t] = BoughtBy(v, t)' + adminGrants'[v][t]
    BY <1>0, <1>3, BoughtStays
  <1>4. /\ wallet'[v].debited \in Nat /\ adminDebits'[v] \in Nat /\ inventory'[v][t] \in Nat
        /\ adminTakes'[v][t] \in Nat /\ adminGrants'[v][t] \in Nat
    BY TypeStep DEF TypeOK, Account
  <1>5. ASSUME NEW u \in Users, NEW a \in Amounts, AddCoins(u, a)
        PROVE  wallet'[v].debited = wallet[v].debited
    BY <1>5 DEF AddCoins, TypeOK, Account, Credit
  <1>6. ASSUME NEW r \in Requests, CommitAdminDebit(r)
        PROVE  wallet'[v].debited - adminDebits'[v] = wallet[v].debited - adminDebits[v]
    <2> DEFINE u == request[r].user
               a == request[r].amount
    <2>1. u \in Users /\ a \in Nat
      BY <1>6, RequestFields DEF CommitAdminDebit, AdminDebitRequest
    <2>2. /\ wallet'[v].debited = wallet[v].debited + (IF v = u THEN a ELSE 0)
          /\ adminDebits'[v] = adminDebits[v] + (IF v = u THEN a ELSE 0)
      BY <1>0, <1>6, <2>1 DEF CommitAdminDebit, TypeOK, Debit
    <2> HIDE DEF u, a
    <2> QED
      BY <1>0, <2>1, <2>2
  <1>7. ASSUME NEW u \in Users, NEW s \in Types, NEW a \in Amounts, CreditPaid(u, s, a)
        PROVE  inventory'[v][t] + adminTakes'[v][t] - adminGrants'[v][t]
                  = inventory[v][t] + adminTakes[v][t] - adminGrants[v][t]
    <2>1. /\ inventory'[v][t] = inventory[v][t] + (IF v = u /\ t = s THEN a ELSE 0)
          /\ adminGrants'[v][t] = adminGrants[v][t] + (IF v = u /\ t = s THEN a ELSE 0)
          /\ adminTakes' = adminTakes
      BY <1>0, <1>7 DEF CreditPaid, TypeOK
    <2> QED
      BY <1>0, <2>1
  <1>8. ASSUME NEW r \in Requests, CommitDebitPaid(r)
        PROVE  inventory'[v][t] + adminTakes'[v][t] - adminGrants'[v][t]
                  = inventory[v][t] + adminTakes[v][t] - adminGrants[v][t]
    <2> DEFINE u == request[r].user
               s == request[r].type
               a == request[r].amount
    <2>1. u \in Users /\ s \in Types /\ a \in Nat
      BY <1>8, RequestFields DEF CommitDebitPaid, TakeBackRequest
    <2>2. /\ inventory'[v][t] = inventory[v][t] - (IF v = u /\ t = s THEN a ELSE 0)
          /\ adminTakes'[v][t] = adminTakes[v][t] + (IF v = u /\ t = s THEN a ELSE 0)
          /\ adminGrants' = adminGrants
      BY <1>0, <1>8, <2>1 DEF CommitDebitPaid, TypeOK
    <2> HIDE DEF u, s, a
    <2> QED
      BY <1>0, <2>1, <2>2
  <1>9. CASE \/ \E r \in Requests, u \in Users, k \in Packages : StartPurchase(r, u, k)
             \/ \E r \in Requests, u \in Users, a \in Amounts : StartAdminDebit(r, u, a)
             \/ \E r \in Requests, u \in Users, s \in Types, a \in Amounts :
                   StartDebitPaid(r, u, s, a)
             \/ \E r \in Requests : \/ RejectPurchase(r) \/ RejectAdminDebit(r)
                                    \/ RejectDebitPaid(r) \/ RollBack(r)
             \/ UNCHANGED vars
    <2>1. UNCHANGED <<purchases, wallet, adminDebits, inventory, adminTakes, adminGrants>>
      BY <1>9 DEF StartPurchase, StartAdminDebit, StartDebitPaid, RejectPurchase,
                  RejectAdminDebit, RejectDebitPaid, RollBack, vars
    <2> QED
      BY <1>0, <2>1, BoughtStays
  <1>10. CASE \E u \in Users, a \in Amounts : AddCoins(u, a)
    <2>1. UNCHANGED <<purchases, adminDebits, inventory, adminTakes, adminGrants>>
      BY <1>10 DEF AddCoins
    <2> QED
      BY <1>2, <1>4, <1>5, <1>10, <2>1
  <1>11. CASE \E r \in Requests : CommitAdminDebit(r)
    <2>1. UNCHANGED <<purchases, inventory, adminTakes, adminGrants>>
      BY <1>11 DEF CommitAdminDebit
    <2> QED
      BY <1>2, <1>4, <1>6, <1>11, <2>1
  <1>12. CASE \/ \E u \in Users, s \in Types, a \in Amounts : CreditPaid(u, s, a)
              \/ \E r \in Requests : CommitDebitPaid(r)
    <2>1. UNCHANGED <<purchases, wallet, adminDebits>>
      BY <1>12 DEF CreditPaid, CommitDebitPaid
    <2> QED
      BY <1>3, <1>4, <1>7, <1>8, <1>12, <2>1
  <1> QED
    BY <1>1, <1>9, <1>10, <1>11, <1>12 DEF Next, Handle

\* Nobody is charged without delivery and nobody receives without being charged: the
\* DEBIT rows and the inventory of every user are exactly what the audit log and the
\* administrators' entries add up to (PurchaseBenefitsService.execute).
THEOREM WalletDelivers == Spec => []DeliveredIffCharged
  <1>1. Init => DeliveredIffCharged
    <2> SUFFICES ASSUME Init, NEW u \in Users, NEW t \in Types
                 PROVE  SpentOn(u) = 0 /\ BoughtBy(u, t) = 0
      BY PackageAssumption DEF Init, DeliveredIffCharged, EmptyWallet
    <2> DEFINE P == {p \in Packages : PackageType[p] = t}
               f == [k \in Packages |-> purchases[u][k] * Cost[k]]
               g == [k \in P |-> purchases[u][k] * Quantity[k]]
    <2>1. IsFiniteSet(Packages) /\ IsFiniteSet(P)
      BY PackageAssumption, FS_Subset
    <2>2. \A k \in Packages : Cost[k] \in Nat /\ Quantity[k] \in Nat /\ purchases[u][k] = 0
      BY PackageAssumption DEF Init
    <2>3. (\A k \in Packages : f[k] = 0) /\ (\A k \in P : g[k] = 0)
      BY <2>2
    <2>4. SpentOn(u) = SumFunctionOnSet(f, Packages) /\ BoughtBy(u, t) = SumFunctionOnSet(g, P)
      BY DEF SpentOn, BoughtBy, SumFunction
    <2> HIDE DEF f, g, P
    <2> QED
      BY <2>1, <2>3, <2>4, SumOfZeros
  <1> QED
    BY <1>1, WalletTypeCorrect, DeliveredStep, PTL DEF Spec

-----------------------------------------------------------------------------
(* OPERATIONS: what its variables hold.                                     *)

Busy == {"look", "create", "run", "succeed", "fail"}
Doings == {Resting} \cup [step : Busy, source : Sources]
                    \cup [step : Busy, source : Sources, job : Schedulers]
Process == [pc : {"connecting", "registering", "reconciling", "serving", "closing"},
            of : Releases, next : Schedulers, registered : BOOLEAN, unseen : BOOLEAN,
            since : 0..LastTime, doing : Doings]
Question == [step : {"ask"}, container : Workers,
             answers : [api : Releases \cup {0}, worker : Releases \cup {0}], ok : BOOLEAN]
Verdict == [step : {"ready"}, of : Releases, registers : BOOLEAN]

WorkersTypeOK == worker \in [Workers -> {Off} \cup Process]
FleetTypeOK ==
    /\ release \in [{"api", "worker"} -> Releases]
    /\ api \in Releases /\ migrated \in Releases
    /\ check \in {Resting} \cup Question \cup Verdict

\* A process that is not off has the fields of one.
LEMMA ProcessFields ==
    ASSUME WorkersTypeOK, NEW w \in Workers, ~At(w, "off")
    PROVE  worker[w] \in Process
  BY DEF WorkersTypeOK, At, Off

\* One process goes to its next state, and the others stay.
LEMMA GoesStep ==
    ASSUME WorkersTypeOK, NEW w \in Workers, NEW next \in {Off} \cup Process, Goes(w, next)
    PROVE  /\ WorkersTypeOK'
           /\ worker'[w] = next
           /\ \A v \in Workers : v # w => worker'[v] = worker[v]
  BY DEF WorkersTypeOK, Goes

\* A process turns to something else, and is otherwise the same.
LEMMA TurnsStep ==
    ASSUME WorkersTypeOK, NEW w \in Workers, ~At(w, "off"), NEW doing \in Doings,
           Turns(w, doing)
    PROVE  /\ WorkersTypeOK'
           /\ worker'[w] = [worker[w] EXCEPT !.doing = doing]
           /\ worker'[w] \in Process
           /\ \A v \in Workers : v # w => worker'[v] = worker[v]
  <1>1. worker[w] \in Process
    BY ProcessFields
  <1>2. [worker[w] EXCEPT !.doing = doing] \in Process
    BY <1>1 DEF Process
  <1>3. worker' = [worker EXCEPT ![w] = [worker[w] EXCEPT !.doing = doing]]
    BY DEF Turns, WorkersTypeOK
  <1> QED
    BY <1>2, <1>3 DEF WorkersTypeOK

\* A process that does something does one of the steps of a job.
LEMMA DoingIsBusy ==
    ASSUME WorkersTypeOK, NEW w \in Workers, NEW step \in Busy, Doing(w, step)
    PROVE  /\ ~At(w, "off") /\ worker[w] \in Process
           /\ worker[w].doing \in [step : Busy, source : Sources]
                                    \cup [step : Busy, source : Sources, job : Schedulers]
           /\ worker[w].doing.source \in Sources
           /\ \A s \in Busy : [worker[w].doing EXCEPT !.step = s] \in Doings
  <1>1. ~At(w, "off") /\ worker[w] \in Process
    BY ProcessFields DEF Doing
  <1>2. worker[w].doing \in Doings /\ worker[w].doing.step = step
    BY <1>1 DEF Process, Doing
  <1>3. worker[w].doing # Resting
    BY <1>2 DEF Busy, Resting
  <1> QED
    BY <1>1, <1>2, <1>3 DEF Doings

\* A process that goes on to the startup's provisioning has the fields of one.
LEMMA ReconcilingType ==
    ASSUME NEW w \in Workers, worker[w] \in Process
    PROVE  Reconciling(w) \in Process
  <1>1. [step |-> "look", source |-> Reconcile] \in Doings
    BY OperationsAssumption DEF Doings, Busy, Sources
  <1> QED
    BY <1>1 DEF Reconciling, Process

OpsTypeOK == OperationsTypeOK /\ WorkersTypeOK /\ FleetTypeOK

\* The processes stay well formed, one step for each action that moves one.
LEMMA WorkersStep == OpsTypeOK /\ [OperationsNext]_operationVars => WorkersTypeOK'
  <1> SUFFICES ASSUME OpsTypeOK, [OperationsNext]_operationVars
               PROVE  WorkersTypeOK'
    OBVIOUS
  <1> USE DEF OpsTypeOK
  <1>0. \A s \in Schedulers : s \in Nat \ {0} /\ 1..s \subseteq Schedulers
    BY OperationsAssumption
  <1>1. ASSUME NEW w \in Workers, Boot(w)
        PROVE  WorkersTypeOK'
    <2>1. 1 \in Schedulers
      <3>1. RequiredBy[1] \in Schedulers
        BY OperationsAssumption
      <3> QED
        BY <1>0, <3>1
    <2>2. Resting \in Doings /\ 0 \in 0..LastTime /\ release["worker"] \in Releases
      BY OperationsAssumption DEF Doings, FleetTypeOK
    <2> QED
      BY <1>1, <2>1, <2>2, GoesStep DEF Boot, Process
  <1>2. ASSUME NEW w \in Workers, Connect(w)
        PROVE  WorkersTypeOK'
    <2>1. worker[w] \in Process
      BY <1>2, ProcessFields DEF Connect, At
    <2>2. Connected(w) \in Process
      BY <2>1, ReconcilingType DEF Connected, Process
    <2> QED
      BY <1>2, <2>2, GoesStep DEF Connect
  <1>3. ASSUME NEW w \in Workers, Upsert(w)
        PROVE  WorkersTypeOK'
    <2>1. worker[w] \in Process
      BY <1>3, ProcessFields DEF Upsert, At
    <2>2. worker[w].next \in Schedulers /\ RequiredBy[worker[w].of] \in Schedulers
      BY <2>1, OperationsAssumption DEF Process
    <2>3. worker[w].next < RequiredBy[worker[w].of] => worker[w].next + 1 \in Schedulers
      BY <1>0, <2>2
    <2>4. worker[w].next + 1 \in Schedulers => [worker[w] EXCEPT !.next = @ + 1] \in Process
      BY <2>1 DEF Process
    <2>5. Reconciling(w) \in Process
      BY <2>1, ReconcilingType
    <2> QED
      BY <1>3, <2>3, <2>4, <2>5, GoesStep DEF Upsert
  <1>4. ASSUME NEW w \in Workers, Serve(w) \/ Terminate(w)
        PROVE  WorkersTypeOK'
    <2>1. worker[w] \in Process
      BY <1>4, ProcessFields DEF Serve, Terminate, At
    <2>2. /\ [worker[w] EXCEPT !.pc = "serving", !.since = clock] \in Process
          /\ [worker[w] EXCEPT !.pc = "closing"] \in Process
      BY <2>1 DEF Process, OperationsTypeOK
    <2> QED
      BY <1>4, <2>2, GoesStep DEF Serve, Terminate
  <1>5. ASSUME NEW w \in Workers, Exit(w) \/ Kill(w)
        PROVE  WorkersTypeOK'
    BY <1>5, GoesStep DEF Exit, Kill
  <1>6. ASSUME NEW w \in Workers, LoseDatabase(w)
        PROVE  WorkersTypeOK'
    <2>1. worker[w] \in Process
      BY <1>6, ProcessFields DEF LoseDatabase
    <2>2. \A unseen \in BOOLEAN :
             [worker[w] EXCEPT !.doing = Resting, !.unseen = unseen] \in Process
      BY <2>1 DEF Process, Doings
    <2>3. (worker[w].unseen \/ worker[w].doing.step \in {"look", "create"}) \in BOOLEAN
      OBVIOUS
    <2> QED
      BY <1>6, <2>2, <2>3, GoesStep DEF LoseDatabase
  <1>7. ASSUME NEW w \in Workers, NEW s \in Schedulers, Take(w, s)
        PROVE  WorkersTypeOK'
    <2>1. CASE Turns(w, [step |-> "look", source |-> JobSources[s], job |-> s])
               /\ JobSources[s] # Other
      <3>1. ~At(w, "off")
        BY <1>7 DEF Take, At
      <3>2. [step |-> "look", source |-> JobSources[s], job |-> s] \in Doings
        BY <2>1 DEF Doings, Busy, Sources
      <3> QED
        BY <2>1, <3>1, <3>2, TurnsStep
    <2>2. CASE UNCHANGED worker
      BY <2>2 DEF WorkersTypeOK
    <2> QED
      BY <1>7, <2>1, <2>2 DEF Take
  <1>8. ASSUME NEW w \in Workers,
               Look(w) \/ CreateExecution(w) \/ RunEnsure(w) \/ FinishExecution(w)
        PROVE  WorkersTypeOK'
    <2>1. PICK step \in Busy : Doing(w, step)
      BY <1>8 DEF Look, CreateExecution, RunEnsure, FinishExecution, Busy
    <2>2. ~At(w, "off") /\ \A s \in Busy : [worker[w].doing EXCEPT !.step = s] \in Doings
      BY <2>1, DoingIsBusy
    <2>3. \E doing \in Doings : Turns(w, doing)
      BY <1>8, <2>2 DEF Look, CreateExecution, RunEnsure, FinishExecution, Busy, Doings
    <2> QED
      BY <2>2, <2>3, TurnsStep
  <1>9. CASE UNCHANGED worker
    BY <1>9 DEF WorkersTypeOK
  <1>10. (\E s \in Schedulers : Due(s)) \/ PassTime \/ RedisFails \/ ReleasesNext => UNCHANGED worker
    BY DEF Due, PassTime, RedisFails, ReleasesNext, StartPreflight, Build, ReplaceApi, Migrate,
           AskApi, AskWorker, Conclude
  <1>11. UNCHANGED operationVars => UNCHANGED worker
    BY DEF operationVars
  <1> QED
    BY <1>1, <1>2, <1>3, <1>4, <1>5, <1>6, <1>7, <1>8, <1>9, <1>10, <1>11
       DEF OperationsNext, ProcessNext, JobsNext

\* The preflight and the releases stay well formed.
LEMMA FleetStep == OpsTypeOK /\ [OperationsNext]_operationVars => FleetTypeOK'
  <1> SUFFICES ASSUME OpsTypeOK, [OperationsNext]_operationVars
               PROVE  FleetTypeOK'
    OBVIOUS
  <1> USE DEF OpsTypeOK
  <1>1. ASSUME NEW w \in Workers, StartPreflight(w)
        PROVE  FleetTypeOK'
    BY <1>1 DEF StartPreflight, FleetTypeOK, Question, Unanswered
  <1>2. ASSUME NEW service \in {"api", "worker"}, Build(service)
        PROVE  FleetTypeOK'
    BY <1>2 DEF Build, FleetTypeOK
  <1>3. CASE ReplaceApi \/ Migrate
    BY <1>3 DEF ReplaceApi, Migrate, FleetTypeOK
  <1>4. CASE AskApi \/ AskWorker
    <2>1. check \in Question
      BY <1>4 DEF AskApi, AskWorker, FleetTypeOK, Resting, Verdict
    <2>2. CASE AskApi
      <3>1. (check.ok /\ redis /\ migrated >= api) \in BOOLEAN
        BY DEF OperationsTypeOK
      <3> QED
        BY <2>1, <2>2, <3>1 DEF AskApi, FleetTypeOK, Question
    <2>3. CASE AskWorker
      <3>1. CASE At(check.container, "off")
        BY <2>3, <3>1 DEF AskWorker, FleetTypeOK
      <3>2. CASE ~At(check.container, "off")
        <4>1. check.container \in Workers /\ worker[check.container].of \in Releases
          BY <2>1, <3>2, ProcessFields DEF Question, Process
        <4>2. (check.ok /\ Ready(check.container)) \in BOOLEAN
          OBVIOUS
        <4> QED
          BY <2>1, <2>3, <3>2, <4>1, <4>2 DEF AskWorker, FleetTypeOK, Question
      <3> QED
        BY <3>1, <3>2
    <2> QED
      BY <1>4, <2>2, <2>3
  <1>5. CASE Conclude
    <2>1. check \in Question
      BY <1>5 DEF Conclude, FleetTypeOK, Resting, Verdict
    <2>2. check.answers.api \in Releases /\ Registers[check.container] \in BOOLEAN
      BY <1>5, <2>1, OperationsAssumption DEF Conclude, Question
    <2> QED
      BY <1>5, <2>2 DEF Conclude, FleetTypeOK, Verdict
  <1>6. CASE UNCHANGED fleet
    BY <1>6 DEF fleet, FleetTypeOK
  <1>7. ProcessNext \/ JobsNext => UNCHANGED fleet
    BY DEF ProcessNext, JobsNext, Boot, Connect, Upsert, Serve, Terminate, Exit, Kill,
           LoseDatabase, RedisFails, Look, CreateExecution, RunEnsure, FinishExecution, Take,
           Due, PassTime
  <1>8. UNCHANGED operationVars => UNCHANGED fleet
    BY DEF operationVars, fleet
  <1> QED
    BY <1>1, <1>2, <1>3, <1>4, <1>5, <1>6, <1>7, <1>8 DEF OperationsNext, ReleasesNext

\* Which actions write the schedules: what Redis keeps, it keeps.
LEMMA SchedulesStay ==
    ASSUME OpsTypeOK, [OperationsNext]_operationVars
    PROVE  schedulers \subseteq schedulers' /\ schedulers' \subseteq Schedulers
  <1>1. ASSUME NEW w \in Workers, Upsert(w)
        PROVE  schedulers \subseteq schedulers' /\ schedulers' \subseteq Schedulers
    <2>1. worker[w].next \in Schedulers
      BY <1>1, ProcessFields DEF Upsert, At, Process, OpsTypeOK
    <2> QED
      BY <1>1, <2>1 DEF Upsert, OpsTypeOK, OperationsTypeOK
  <1>2. CASE UNCHANGED schedulers
    BY <1>2 DEF OpsTypeOK, OperationsTypeOK
  <1>3. ASSUME NEW w \in Workers,
               Boot(w) \/ Connect(w) \/ Serve(w) \/ Terminate(w) \/ Exit(w) \/ Kill(w)
                 \/ LoseDatabase(w)
        PROVE  UNCHANGED schedulers
    BY <1>3 DEF Boot, Connect, Serve, Terminate, Exit, Kill, LoseDatabase
  <1>4. RedisFails \/ JobsNext \/ ReleasesNext => UNCHANGED schedulers
    BY DEF RedisFails, JobsNext, ReleasesNext, Look, CreateExecution, RunEnsure,
           FinishExecution, Take, Due, PassTime, StartPreflight, Build, ReplaceApi, Migrate,
           AskApi, AskWorker, Conclude, fleet
  <1>5. UNCHANGED operationVars => UNCHANGED schedulers
    BY DEF operationVars
  <1> QED
    BY <1>1, <1>2, <1>3, <1>4, <1>5 DEF OperationsNext, ProcessNext

\* Which actions write the executions, the month and the clock.
MonthUnchanged == UNCHANGED <<execution, provisioned, clock>>

LEMMA MonthSteps ==
    ASSUME [OperationsNext]_operationVars, ~MonthUnchanged
    PROVE  \/ PassTime
           \/ \E w \in Workers : CreateExecution(w) \/ RunEnsure(w) \/ FinishExecution(w)
  <1>1. ASSUME NEW w \in Workers,
               \/ Boot(w) \/ Connect(w) \/ Upsert(w) \/ Serve(w) \/ Terminate(w) \/ Exit(w)
               \/ Kill(w) \/ LoseDatabase(w) \/ Look(w) \/ \E s \in Schedulers : Take(w, s)
        PROVE  MonthUnchanged
    BY <1>1 DEF Boot, Connect, Upsert, Serve, Terminate, Exit, Kill, LoseDatabase, Look, Take,
                MonthUnchanged
  <1>2. RedisFails \/ ReleasesNext \/ (\E s \in Schedulers : Due(s)) => MonthUnchanged
    BY DEF RedisFails, ReleasesNext, StartPreflight, Build, ReplaceApi, Migrate, AskApi,
           AskWorker, Conclude, Due, MonthUnchanged
  <1>3. UNCHANGED operationVars => MonthUnchanged
    BY DEF operationVars, MonthUnchanged
  <1> QED
    BY <1>1, <1>2, <1>3 DEF OperationsNext, ProcessNext, JobsNext

\* The tables stay well formed.
LEMMA OperationsTypeStep == OpsTypeOK /\ [OperationsNext]_operationVars => OpsTypeOK'
  <1> SUFFICES ASSUME OpsTypeOK, [OperationsNext]_operationVars
               PROVE  OpsTypeOK'
    OBVIOUS
  <1>1. execution' \subseteq Execution /\ provisioned' \in BOOLEAN /\ clock' \in 0..LastTime
    <2> USE DEF OpsTypeOK, OperationsTypeOK
    <2>1. CASE PassTime
      BY <2>1, OperationsAssumption DEF PassTime
    <2>2. ASSUME NEW w \in Workers, CreateExecution(w)
          PROVE  execution' \subseteq Execution
      <3>1. worker[w].doing.source \in Sources
        BY <2>2, DoingIsBusy DEF CreateExecution, Busy
      <3> QED
        BY <2>2, <3>1 DEF CreateExecution, Execution
    <2>3. ASSUME NEW w \in Workers, FinishExecution(w)
          PROVE  execution' \subseteq Execution
      <3>1. \A x \in Own(w) : x \in Execution
        BY DEF Own
      <3>2. \A x \in Execution, status \in {"SUCCESS", "FAILED"} :
              [x EXCEPT !.status = status] \in Execution
        BY DEF Execution
      <3>3. PICK status \in {"SUCCESS", "FAILED"} :
               execution' = (execution \ Own(w)) \cup {[x EXCEPT !.status = status] : x \in Own(w)}
        BY <2>3 DEF FinishExecution
      <3>4. \A x \in Own(w) : [x EXCEPT !.status = status] \in Execution
        BY <3>1, <3>2
      <3> QED
        BY <3>3, <3>4
    <2>4. ASSUME NEW w \in Workers, CreateExecution(w) \/ FinishExecution(w)
          PROVE  UNCHANGED <<provisioned, clock>>
      BY <2>4 DEF CreateExecution, FinishExecution
    <2>5. ASSUME NEW w \in Workers, RunEnsure(w)
          PROVE  UNCHANGED <<execution, clock>> /\ provisioned' \in BOOLEAN
      BY <2>5 DEF RunEnsure
    <2>6. CASE MonthUnchanged
      BY <2>6 DEF MonthUnchanged
    <2> QED
      BY <2>1, <2>2, <2>3, <2>4, <2>5, <2>6, MonthSteps DEF PassTime
  <1>2. redis' \in BOOLEAN
    BY DEF OpsTypeOK, OperationsTypeOK, OperationsNext, ProcessNext, JobsNext, ReleasesNext,
           Boot, Connect, Upsert, Serve, Terminate, Exit, Kill, LoseDatabase, RedisFails, Look,
           CreateExecution, RunEnsure, FinishExecution, Take, Due, PassTime, StartPreflight,
           Build, ReplaceApi, Migrate, AskApi, AskWorker, Conclude, operationVars
  <1>3. queued' \subseteq Schedulers
    <2> USE DEF OpsTypeOK, OperationsTypeOK
    <2>1. ASSUME NEW w \in Workers, Kill(w)
          PROVE  queued' \subseteq Schedulers
      <3>1. worker[w].doing \in Doings
        BY <2>1, ProcessFields DEF Kill, Process
      <3>2. JobsOf(w) \subseteq Schedulers
        BY <3>1 DEF JobsOf, Doings, Resting
      <3> QED
        BY <2>1, <3>2 DEF Kill
    <2>2. ASSUME NEW w \in Workers,
                 \/ Boot(w) \/ Connect(w) \/ Upsert(w) \/ Serve(w) \/ Terminate(w) \/ Exit(w)
                 \/ LoseDatabase(w) \/ Look(w) \/ CreateExecution(w) \/ RunEnsure(w)
                 \/ FinishExecution(w) \/ \E s \in Schedulers : Take(w, s)
          PROVE  queued' \subseteq queued
      BY <2>2 DEF Boot, Connect, Upsert, Serve, Terminate, Exit, LoseDatabase, Look,
                  CreateExecution, RunEnsure, FinishExecution, Take
    <2>3. ASSUME NEW s \in Schedulers, Due(s)
          PROVE  queued' \subseteq Schedulers
      BY <2>3 DEF Due
    <2>4. PassTime \/ RedisFails \/ ReleasesNext \/ UNCHANGED operationVars => UNCHANGED queued
      BY DEF PassTime, RedisFails, ReleasesNext, StartPreflight, Build, ReplaceApi, Migrate,
             AskApi, AskWorker, Conclude, operationVars
    <2> QED
      BY <2>1, <2>2, <2>3, <2>4 DEF OperationsNext, ProcessNext, JobsNext
  <1> QED
    BY <1>1, <1>2, <1>3, SchedulesStay, WorkersStep, FleetStep DEF OpsTypeOK, OperationsTypeOK

-----------------------------------------------------------------------------
(* OPERATIONS: what the preflight says.                                     *)

\* A worker that registers schedules has left in Redis those before the next, and all
\* that its release requires when it raises its flag.
Scheduled(w) ==
    ~At(w, "off") /\ Registers[w] =>
        /\ \A s \in Schedulers : s < worker[w].next => s \in schedulers
        /\ worker[w].registered => RequiredOf(worker[w].of) \subseteq schedulers

\* An answer that was good is about what does not change back.
AnswersStand ==
    check.step = "ask" /\ check.ok =>
        /\ check.answers.api # 0 => migrated >= check.answers.api
        /\ check.answers.worker # 0 /\ Registers[check.container]
               => RequiredOf(check.answers.worker) \subseteq schedulers

PreflightInv == (\A w \in Workers : Scheduled(w)) /\ AnswersStand /\ PreflightIsTrue

\* What a release requires stays in Redis.
LEMMA ScheduledStays ==
    ASSUME OpsTypeOK, schedulers \subseteq schedulers', NEW w \in Workers, Scheduled(w),
           \/ worker'[w] = worker[w]
           \/ worker'[w] = Off
           \/ /\ worker'[w].of = worker[w].of /\ worker'[w].next = worker[w].next
              /\ worker'[w].registered = worker[w].registered /\ ~At(w, "off")
    PROVE  Scheduled(w)'
  BY DEF Scheduled, At, Off, RequiredOf

\* The schedules of a worker, one step for each action that moves it.
LEMMA ScheduledStep ==
    ASSUME OpsTypeOK, [OperationsNext]_operationVars, \A w \in Workers : Scheduled(w)
    PROVE  \A w \in Workers : Scheduled(w)'
  <1> USE DEF OpsTypeOK
  <1>0. schedulers \subseteq schedulers'
    BY SchedulesStay
  <1>1. ASSUME NEW w \in Workers, NEW next, Goes(w, next),
               \/ next = Off
               \/ /\ next.of = worker[w].of /\ next.next = worker[w].next
                  /\ next.registered = worker[w].registered /\ ~At(w, "off")
        PROVE  \A v \in Workers : Scheduled(v)'
    <2>1. \A v \in Workers : worker'[v] = IF v = w THEN next ELSE worker[v]
      BY <1>1 DEF Goes, WorkersTypeOK
    <2> QED
      BY <1>0, <1>1, <2>1, ScheduledStays
  <1>2. ASSUME NEW w \in Workers, Boot(w)
        PROVE  \A v \in Workers : Scheduled(v)'
    <2>1. \A v \in Workers : v # w => worker'[v] = worker[v]
      BY <1>2 DEF Boot, Goes, WorkersTypeOK
    <2>2. worker'[w].next = 1 /\ worker'[w].registered = FALSE
      BY <1>2 DEF Boot, Goes, WorkersTypeOK
    <2>3. \A s \in Schedulers : ~(s < 1)
      BY OperationsAssumption
    <2>4. Scheduled(w)'
      BY <2>2, <2>3 DEF Scheduled
    <2> QED
      BY <1>0, <2>1, <2>4, ScheduledStays
  <1>3. ASSUME NEW w \in Workers, Connect(w)
        PROVE  \A v \in Workers : Scheduled(v)'
    <2>1. worker[w] \in Process
      BY <1>3, ProcessFields DEF Connect, At
    <2>2. CASE Registers[w]
      <3>1. Goes(w, [worker[w] EXCEPT !.pc = "registering"]) /\ ~At(w, "off")
        BY <1>3, <2>2 DEF Connect, Connected, At
      <3> QED
        BY <1>1, <2>1, <3>1 DEF Process
    <2>3. CASE ~Registers[w]
      <3>1. \A v \in Workers : v # w => worker'[v] = worker[v]
        BY <1>3 DEF Connect, Goes, WorkersTypeOK
      <3> QED
        BY <1>0, <2>3, <3>1, ScheduledStays DEF Scheduled
    <2> QED
      BY <2>2, <2>3
  <1>4. ASSUME NEW w \in Workers, Upsert(w)
        PROVE  \A v \in Workers : Scheduled(v)'
    <2>1. worker[w] \in Process /\ ~At(w, "off")
      BY <1>4, ProcessFields DEF Upsert, At
    <2>2. \A v \in Workers : v # w => worker'[v] = worker[v]
      BY <1>4 DEF Upsert, Goes, WorkersTypeOK
    <2> DEFINE next == worker[w].next
               last == RequiredBy[worker[w].of]
    <2>3. next \in Nat /\ last \in Nat /\ \A s \in Schedulers : s \in Nat
      BY <2>1, OperationsAssumption DEF Process
    <2>4. Registers[w] => \A s \in Schedulers : s <= next => s \in schedulers'
      <3>1. schedulers' = schedulers \cup {next}
        BY <1>4 DEF Upsert
      <3>2. Registers[w] => \A s \in Schedulers : s < next => s \in schedulers
        BY <2>1 DEF Scheduled
      <3> HIDE DEF next
      <3>3. \A s \in Schedulers : s <= next => s < next \/ s = next
        BY <2>3
      <3> QED
        BY <3>1, <3>2, <3>3
    <2>5. CASE next < last
      <3>1. worker'[w] = [worker[w] EXCEPT !.next = @ + 1]
        BY <1>4, <2>5 DEF Upsert, Goes, WorkersTypeOK
      <3>2. /\ worker'[w].next = next + 1 /\ worker'[w].of = worker[w].of
            /\ worker'[w].registered = worker[w].registered
        BY <2>1, <3>1 DEF Process
      <3>3. \A s \in Schedulers : s < next + 1 => s <= next
        <4> HIDE DEF next
        <4> QED
          BY <2>3
      <3>4. Registers[w] /\ worker[w].registered => RequiredOf(worker[w].of) \subseteq schedulers'
        BY <1>0, <2>1 DEF Scheduled
      <3> HIDE DEF next, last
      <3>5. Scheduled(w)'
        BY <2>4, <3>2, <3>3, <3>4 DEF Scheduled, RequiredOf
      <3> QED
        BY <1>0, <2>2, <3>5, ScheduledStays
    <2>6. CASE ~(next < last)
      <3>1. worker'[w] = Reconciling(w)
        BY <1>4, <2>6 DEF Upsert, Goes, WorkersTypeOK
      <3>2. worker'[w].next = next /\ worker'[w].of = worker[w].of
        BY <2>1, <3>1 DEF Process, Reconciling
      <3>3. \A s \in Schedulers : (s < next => s <= next) /\ (s <= last => s <= next)
        <4> HIDE DEF next, last
        <4> QED
          BY <2>3, <2>6
      <3>4. Registers[w] => RequiredOf(worker[w].of) \subseteq schedulers'
        BY <2>4, <3>3 DEF RequiredOf
      <3> HIDE DEF next, last
      <3>5. Scheduled(w)'
        BY <2>4, <3>2, <3>3, <3>4 DEF Scheduled, RequiredOf
      <3> QED
        BY <1>0, <2>2, <3>5, ScheduledStays
    <2> QED
      BY <2>5, <2>6
  <1>5. ASSUME NEW w \in Workers, Serve(w) \/ Terminate(w) \/ LoseDatabase(w)
        PROVE  \A v \in Workers : Scheduled(v)'
    <2>1. ~At(w, "off") /\ worker[w] \in Process
      BY <1>5, ProcessFields DEF Serve, Terminate, LoseDatabase, At
    <2>2. CASE Serve(w)
      BY <1>1, <2>1, <2>2 DEF Serve, Process
    <2>3. CASE Terminate(w)
      BY <1>1, <2>1, <2>3 DEF Terminate, Process
    <2>4. CASE LoseDatabase(w)
      BY <1>1, <2>1, <2>4 DEF LoseDatabase, Process
    <2> QED
      BY <1>5, <2>2, <2>3, <2>4
  <1>6. ASSUME NEW w \in Workers, Exit(w) \/ Kill(w)
        PROVE  \A v \in Workers : Scheduled(v)'
    BY <1>1, <1>6 DEF Exit, Kill
  <1>7. ASSUME NEW w \in Workers, NEW doing, Turns(w, doing), ~At(w, "off")
        PROVE  \A v \in Workers : Scheduled(v)'
    <2>1. worker[w] \in Process
      BY <1>7, ProcessFields
    <2> DEFINE next == [worker[w] EXCEPT !.doing = doing]
    <2>2. Goes(w, next)
      BY <1>7 DEF Turns, Goes, WorkersTypeOK
    <2>3. /\ next.of = worker[w].of /\ next.next = worker[w].next
          /\ next.registered = worker[w].registered
      BY <2>1 DEF Process
    <2> HIDE DEF next
    <2> QED
      BY <1>1, <1>7, <2>2, <2>3
  <1>8. CASE UNCHANGED worker
    BY <1>0, <1>8, ScheduledStays
  <1>9. ASSUME NEW w \in Workers,
               \/ Look(w) \/ CreateExecution(w) \/ RunEnsure(w) \/ FinishExecution(w)
               \/ \E s \in Schedulers : Take(w, s)
        PROVE  \A v \in Workers : Scheduled(v)'
    <2>1. ~At(w, "off")
      BY <1>9 DEF Look, CreateExecution, RunEnsure, FinishExecution, Take, Doing, At
    <2>2. (\E doing : Turns(w, doing)) \/ UNCHANGED worker
      BY <1>9 DEF Look, CreateExecution, RunEnsure, FinishExecution, Take
    <2> QED
      BY <1>7, <1>8, <2>1, <2>2
  <1>10. (\E s \in Schedulers : Due(s)) \/ PassTime \/ RedisFails \/ ReleasesNext
         => UNCHANGED worker
    BY DEF Due, PassTime, RedisFails, ReleasesNext, StartPreflight, Build, ReplaceApi, Migrate,
           AskApi, AskWorker, Conclude
  <1>11. UNCHANGED operationVars => UNCHANGED worker
    BY DEF operationVars
  <1> QED
    BY <1>2, <1>3, <1>4, <1>5, <1>6, <1>8, <1>9, <1>10, <1>11
       DEF OperationsNext, ProcessNext, JobsNext

\* What Migrate writes is later than what was there.
LEMMA MigratedGrows ==
    ASSUME OpsTypeOK, [OperationsNext]_operationVars
    PROVE  migrated' >= migrated /\ migrated' \in Nat /\ migrated \in Nat
  <1>1. migrated \in Nat /\ api \in Nat
    BY OperationsAssumption DEF OpsTypeOK, FleetTypeOK
  <1>2. Migrate \/ UNCHANGED migrated
    BY DEF OperationsNext, ProcessNext, JobsNext, ReleasesNext, Boot, Connect, Upsert, Serve,
           Terminate, Exit, Kill, LoseDatabase, RedisFails, Look, CreateExecution, RunEnsure,
           FinishExecution, Take, Due, PassTime, StartPreflight, Build, ReplaceApi, AskApi,
           AskWorker, Conclude, operationVars, fleet
  <1> QED
    BY <1>1, <1>2 DEF Migrate

\* A question and a verdict have their fields.
LEMMA CheckFields ==
    ASSUME OpsTypeOK
    PROVE  /\ check.step = "ask" => check \in Question
           /\ check.step = "ready" => check \in Verdict
  <1>1. check \in {Resting} \cup Question \cup Verdict
    BY DEF OpsTypeOK, FleetTypeOK
  <1>2. check \in Question => check.step = "ask"
    BY DEF Question
  <1>3. check \in Verdict => check.step = "ready"
    BY DEF Verdict
  <1>4. check = Resting => check.step = "none"
    BY DEF Resting
  <1> QED
    BY <1>1, <1>2, <1>3, <1>4

\* What was answered stays so, and so does what was concluded of it.
LEMMA PreflightStays ==
    ASSUME OpsTypeOK, [OperationsNext]_operationVars, AnswersStand, PreflightIsTrue,
           UNCHANGED check
    PROVE  AnswersStand' /\ PreflightIsTrue'
  <1>1. schedulers \subseteq schedulers'
    BY SchedulesStay
  <1>2. migrated' >= migrated /\ migrated' \in Nat /\ migrated \in Nat
    BY MigratedGrows
  <1>3. check.step = "ask" => check.answers.api \in Nat
    <2>1. Releases \cup {0} \subseteq Nat
      BY OperationsAssumption
    <2>2. check \in Question => check.answers.api \in Releases \cup {0}
      BY DEF Question
    <2> QED
      BY <2>1, <2>2, CheckFields
  <1>4. check.step = "ready" => check.of \in Nat
    BY OperationsAssumption, CheckFields DEF Verdict
  <1>5. AnswersStand'
    BY <1>1, <1>2, <1>3 DEF AnswersStand
  <1>6. PreflightIsTrue'
    BY <1>1, <1>2, <1>4 DEF PreflightIsTrue
  <1> QED
    BY <1>5, <1>6

\* The preflight, one step for each action of it.
LEMMA PreflightStep ==
    ASSUME OpsTypeOK, [OperationsNext]_operationVars, PreflightInv
    PROVE  PreflightInv'
  <1>0. \A w \in Workers : Scheduled(w)'
    BY ScheduledStep DEF PreflightInv
  <1>1. CASE UNCHANGED check
    BY <1>0, <1>1, PreflightStays DEF PreflightInv
  <1>2. ASSUME NEW w \in Workers, StartPreflight(w)
        PROVE  AnswersStand' /\ PreflightIsTrue'
    BY <1>2 DEF StartPreflight, AnswersStand, PreflightIsTrue, Unanswered
  <1>3. ASSUME AskApi \/ AskWorker \/ Conclude
        PROVE  AnswersStand' /\ PreflightIsTrue'
    <2>1. check.step = "ask" /\ check \in Question
      BY <1>3, CheckFields DEF AskApi, AskWorker, Conclude
    <2>2. schedulers' = schedulers /\ migrated' = migrated
      BY <1>3 DEF AskApi, AskWorker, Conclude
    <2>3. CASE AskApi
      <3>1. /\ check'.step = "ask" /\ check'.container = check.container
            /\ check'.answers.api = api /\ check'.answers.worker = check.answers.worker
            /\ check'.ok => check.ok /\ migrated >= api
        BY <2>1, <2>3 DEF AskApi, Question
      <3> QED
        BY <2>1, <2>2, <3>1 DEF PreflightInv, AnswersStand, PreflightIsTrue
    <2>4. CASE AskWorker
      <3>1. CASE At(check.container, "off")
        <4>1. check'.step = "none"
          BY <2>4, <3>1 DEF AskWorker, Resting
        <4> QED
          BY <4>1 DEF AnswersStand, PreflightIsTrue
      <3>2. CASE ~At(check.container, "off")
        <4> DEFINE w == check.container
        <4>1. w \in Workers
          BY <2>1 DEF Question
        <4>2. /\ check'.step = "ask" /\ check'.container = w
              /\ check'.answers.api = check.answers.api /\ check'.answers.worker = worker[w].of
              /\ check'.ok => check.ok /\ worker[w].registered
          BY <2>1, <2>4, <3>2 DEF AskWorker, Question, Ready
        <4>3. Registers[w] /\ worker[w].registered
                => RequiredOf(worker[w].of) \subseteq schedulers
          BY <3>2, <4>1 DEF PreflightInv, Scheduled
        <4> HIDE DEF w
        <4> QED
          BY <2>1, <2>2, <4>2, <4>3 DEF PreflightInv, AnswersStand, PreflightIsTrue
      <3> QED
        BY <3>1, <3>2
    <2>5. CASE Conclude
      <3>1. CASE check.ok /\ check.answers.api = check.answers.worker
        <4>1. check' = [step |-> "ready", of |-> check.answers.api,
                        registers |-> Registers[check.container]]
          BY <2>5, <3>1 DEF Conclude
        <4>2. migrated >= check.answers.api
          BY <2>5, <3>1 DEF Conclude, PreflightInv, AnswersStand
        <4>3. Registers[check.container] => RequiredOf(check.answers.api) \subseteq schedulers
          BY <2>5, <3>1 DEF Conclude, PreflightInv, AnswersStand
        <4>4. /\ check'.step = "ready" /\ check'.of = check.answers.api
              /\ check'.registers = Registers[check.container]
          BY <4>1
        <4> QED
          BY <2>2, <4>2, <4>3, <4>4 DEF AnswersStand, PreflightIsTrue
      <3>2. CASE ~(check.ok /\ check.answers.api = check.answers.worker)
        <4>1. check'.step = "none"
          BY <2>5, <3>2 DEF Conclude, Resting
        <4> QED
          BY <4>1 DEF AnswersStand, PreflightIsTrue
      <3> QED
        BY <3>1, <3>2
    <2> QED
      BY <1>3, <2>3, <2>4, <2>5
  <1>4. ProcessNext \/ JobsNext => UNCHANGED check
    BY DEF ProcessNext, JobsNext, Boot, Connect, Upsert, Serve, Terminate, Exit, Kill,
           LoseDatabase, RedisFails, Look, CreateExecution, RunEnsure, FinishExecution, Take,
           Due, PassTime, fleet
  <1>5. ReplaceApi \/ Migrate \/ (\E service \in {"api", "worker"} : Build(service))
        \/ UNCHANGED operationVars => UNCHANGED check
    BY DEF ReplaceApi, Migrate, Build, operationVars
  <1> QED
    BY <1>0, <1>1, <1>2, <1>3, <1>4, <1>5 DEF OperationsNext, ReleasesNext, PreflightInv

-----------------------------------------------------------------------------
(* OPERATIONS: what the executions leave of the month.                      *)

\* The month exists, or a row tells that it may not: one that failed, or one that has
\* been running since t.
Traced(rows, month, t) ==
    \/ month
    \/ \E x \in rows : x.status = "FAILED"
    \/ \E x \in rows : x.status = "RUNNING" /\ x.started <= t

\* No execution is of the future.
NotAhead == \A x \in execution : x.started <= clock

\* A run that is to succeed has made the month.  The startup's provisioning, once it is
\* beyond its row, has left a trace, and a worker that serves left one before it did;
\* unless it was refused before its row.
Followed(w) ==
    ~At(w, "off") =>
        /\ worker[w].doing.step = "succeed" => provisioned
        /\ ~worker[w].unseen =>
             /\ At(w, "reconciling") /\ worker[w].doing.step \notin {"look", "create"}
                  => Traced(execution, provisioned, clock)
             /\ At(w, "serving") => Traced(execution, provisioned, worker[w].since)

MonthInv == NotAhead /\ \A w \in Workers : Followed(w)

\* A trace of some time is one of a later time.
LEMMA TracedLater ==
    ASSUME NEW rows, rows \subseteq Execution, NEW month, NEW t \in Nat, NEW u \in Nat,
           t <= u, Traced(rows, month, t)
    PROVE  Traced(rows, month, u)
  <1>1. \A x \in rows : x.started \in 0..LastTime
    BY DEF Execution
  <1>2. \A x \in rows : x.started \in Nat
    BY <1>1, OperationsAssumption
  <1>3. \A x \in rows : x.started <= t => x.started <= u
    BY <1>2
  <1> QED
    BY <1>3 DEF Traced

\* A trace is not lost: a row that was running succeeds with the month, or has failed.
LEMMA TracedStays ==
    ASSUME OpsTypeOK, [OperationsNext]_operationVars, MonthInv, NEW t,
           Traced(execution, provisioned, t)
    PROVE  Traced(execution', provisioned', t)
  <1>1. CASE MonthUnchanged
    BY <1>1 DEF MonthUnchanged
  <1>2. CASE PassTime
    BY <1>2 DEF PassTime
  <1>3. ASSUME NEW w \in Workers, CreateExecution(w)
        PROVE  Traced(execution', provisioned', t)
    <2>1. execution \subseteq execution' /\ provisioned' = provisioned
      BY <1>3 DEF CreateExecution
    <2> QED
      BY <2>1 DEF Traced
  <1>4. ASSUME NEW w \in Workers, RunEnsure(w)
        PROVE  Traced(execution', provisioned', t)
    <2>1. execution' = execution /\ (provisioned' = TRUE \/ provisioned' = provisioned)
      BY <1>4 DEF RunEnsure
    <2> QED
      BY <2>1 DEF Traced
  <1>5. ASSUME NEW w \in Workers, FinishExecution(w)
        PROVE  Traced(execution', provisioned', t)
    <2>1. provisioned' = provisioned
      BY <1>5 DEF FinishExecution
    <2>2. CASE Doing(w, "succeed")
      <3>1. provisioned
        BY <2>2 DEF MonthInv, Followed, Doing
      <3> QED
        BY <2>1, <3>1 DEF Traced
    <2>3. CASE ~Doing(w, "succeed")
      <3>1. execution' = (execution \ Own(w)) \cup {[x EXCEPT !.status = "FAILED"] : x \in Own(w)}
        BY <1>5, <2>3 DEF FinishExecution
      <3>2. \A x \in execution : x \in execution' \/ x \in Own(w)
        BY <3>1
      <3>3. \A x \in Own(w) : \E y \in execution' : y.status = "FAILED"
        <4> SUFFICES ASSUME NEW x \in Own(w)
                     PROVE  \E y \in execution' : y.status = "FAILED"
          OBVIOUS
        <4>1. [x EXCEPT !.status = "FAILED"] \in execution'
          BY <3>1
        <4>2. [x EXCEPT !.status = "FAILED"].status = "FAILED"
          <5>1. x \in Execution
            BY DEF Own, OpsTypeOK, OperationsTypeOK
          <5> QED
            BY <5>1 DEF Execution
        <4> QED
          BY <4>1, <4>2
      <3> QED
        BY <2>1, <3>2, <3>3 DEF Traced
    <2> QED
      BY <2>2, <2>3
  <1> QED
    BY <1>1, <1>2, <1>3, <1>4, <1>5, MonthSteps

\* Time does not run back, and no row is of a later time.
LEMMA NotAheadStep ==
    ASSUME OpsTypeOK, [OperationsNext]_operationVars, NotAhead
    PROVE  NotAhead' /\ clock \in Nat /\ clock' \in Nat /\ clock <= clock'
  <1> USE DEF NotAhead
  <1>1. clock \in Nat /\ \A x \in execution : x.started \in Nat
    <2>1. \A x \in execution : x.started \in 0..LastTime
      BY DEF OpsTypeOK, OperationsTypeOK, Execution
    <2> QED
      BY <2>1, OperationsAssumption DEF OpsTypeOK, OperationsTypeOK
  <1>2. CASE MonthUnchanged
    BY <1>1, <1>2 DEF MonthUnchanged
  <1>3. CASE PassTime
    BY <1>1, <1>3 DEF PassTime
  <1>4. ASSUME NEW w \in Workers, CreateExecution(w) \/ RunEnsure(w)
        PROVE  NotAhead' /\ clock' = clock
    BY <1>1, <1>4 DEF CreateExecution, RunEnsure
  <1>5. ASSUME NEW w \in Workers, FinishExecution(w)
        PROVE  NotAhead' /\ clock' = clock
    <2>1. clock' = clock
      BY <1>5 DEF FinishExecution
    <2>2. PICK status : execution' = (execution \ Own(w))
                                       \cup {[x EXCEPT !.status = status] : x \in Own(w)}
      BY <1>5 DEF FinishExecution
    <2>3. \A x \in Own(w) : x \in execution /\ x \in Execution
      BY DEF Own, OpsTypeOK, OperationsTypeOK
    <2>4. \A x \in Own(w) : [x EXCEPT !.status = status].started = x.started
      BY <2>3 DEF Execution
    <2> QED
      BY <2>1, <2>2, <2>3, <2>4
  <1> QED
    BY <1>1, <1>2, <1>3, <1>4, <1>5, MonthSteps

\* A process that does not begin, serve or have more to show keeps what it left.
LEMMA FollowedStays ==
    ASSUME OpsTypeOK, [OperationsNext]_operationVars, MonthInv, NEW w \in Workers,
           \/ worker'[w] = worker[w]
           \/ worker'[w] = Off
           \/ /\ ~At(w, "off")
              /\ worker'[w].pc = worker[w].pc
              /\ worker'[w].since = worker[w].since
              /\ worker'[w].unseen = worker[w].unseen
              /\ worker'[w].doing.step = "succeed" => provisioned'
              /\ \/ At(w, "reconciling") /\ worker'[w].doing.step \notin {"look", "create"}
                      => worker[w].doing.step \notin {"look", "create"}
                 \/ Traced(execution', provisioned', clock')
    PROVE  Followed(w)'
  <1>1. \A t : Traced(execution, provisioned, t) => Traced(execution', provisioned', t)
    BY TracedStays
  <1>2. Traced(execution, provisioned, clock) => Traced(execution', provisioned', clock')
    <2>1. clock \in Nat /\ clock' \in Nat /\ clock <= clock'
      BY NotAheadStep DEF MonthInv
    <2>2. execution' \subseteq Execution
      BY OperationsTypeStep DEF OpsTypeOK, OperationsTypeOK
    <2> QED
      BY <1>1, <2>1, <2>2, TracedLater
  <1>3. provisioned => provisioned'
    <2>1. CASE MonthUnchanged
      BY <2>1 DEF MonthUnchanged
    <2> QED
      BY <2>1, MonthSteps DEF PassTime, CreateExecution, RunEnsure, FinishExecution
  <1>4. Followed(w)
    BY DEF MonthInv
  <1>5. CASE worker'[w] = worker[w]
    BY <1>1, <1>2, <1>3, <1>4, <1>5 DEF Followed, At
  <1>6. CASE worker'[w] = Off
    BY <1>6 DEF Followed, At, Off
  <1>7. ASSUME ~At(w, "off"),
               worker'[w].pc = worker[w].pc, worker'[w].since = worker[w].since,
               worker'[w].unseen = worker[w].unseen,
               worker'[w].doing.step = "succeed" => provisioned',
               \/ At(w, "reconciling") /\ worker'[w].doing.step \notin {"look", "create"}
                    => worker[w].doing.step \notin {"look", "create"}
               \/ Traced(execution', provisioned', clock')
        PROVE  Followed(w)'
    BY <1>1, <1>2, <1>4, <1>7 DEF Followed, At
  <1> QED
    BY <1>5, <1>6, <1>7

\* The traces that processes leave, one step for each action that moves one.
LEMMA FollowedStep ==
    ASSUME OpsTypeOK, [OperationsNext]_operationVars, MonthInv
    PROVE  \A w \in Workers : Followed(w)'
  <1> USE DEF OpsTypeOK
  <1>1. ASSUME NEW w \in Workers, Followed(w)', NEW next, Goes(w, next)
        PROVE  \A v \in Workers : Followed(v)'
    <2>1. \A v \in Workers : v # w => worker'[v] = worker[v]
      BY <1>1 DEF Goes, WorkersTypeOK
    <2> QED
      BY <1>1, <2>1, FollowedStays
  <1>2. ASSUME NEW w \in Workers, NEW next, Goes(w, next),
               next.pc \notin {"reconciling", "serving"} \/ next.doing.step = "look",
               next.pc # "serving",
               next.doing.step = "succeed" => provisioned, provisioned' = provisioned
        PROVE  \A v \in Workers : Followed(v)'
    <2>1. worker'[w] = next
      BY <1>2 DEF Goes, WorkersTypeOK
    <2>2. Followed(w)'
      BY <1>2, <2>1 DEF Followed, At
    <2> QED
      BY <1>1, <1>2, <2>2
  <1>3. ASSUME NEW w \in Workers, Boot(w)
        PROVE  \A v \in Workers : Followed(v)'
    BY <1>2, <1>3 DEF Boot, Resting
  <1>4. ASSUME NEW w \in Workers, Connect(w) \/ Upsert(w)
        PROVE  \A v \in Workers : Followed(v)'
    <2>0. ~At(w, "off")
      BY <1>4 DEF Connect, Upsert, At
    <2>1. worker[w] \in Process
      BY <2>0, ProcessFields
    <2>2. worker[w].doing.step = "succeed" => provisioned
      BY <2>0 DEF MonthInv, Followed
    <2>3. /\ Reconciling(w).pc = "reconciling" /\ Reconciling(w).doing.step = "look"
          /\ [worker[w] EXCEPT !.pc = "registering"].pc = "registering"
          /\ [worker[w] EXCEPT !.pc = "registering"].doing = worker[w].doing
          /\ [worker[w] EXCEPT !.next = @ + 1].pc = worker[w].pc
          /\ [worker[w] EXCEPT !.next = @ + 1].doing = worker[w].doing
      BY <2>1 DEF Reconciling, Process
    <2>4. CASE Goes(w, Reconciling(w))
      BY <1>2, <1>4, <2>3, <2>4 DEF Connect, Upsert
    <2>5. CASE Goes(w, [worker[w] EXCEPT !.pc = "registering"])
      BY <1>2, <1>4, <2>2, <2>3, <2>5 DEF Connect, Upsert
    <2>6. CASE Upsert(w) /\ Goes(w, [worker[w] EXCEPT !.next = @ + 1])
      BY <1>2, <2>2, <2>3, <2>6 DEF Upsert, At
    <2> QED
      BY <1>4, <2>4, <2>5, <2>6 DEF Connect, Connected, Upsert
  <1>5. ASSUME NEW w \in Workers, Serve(w)
        PROVE  \A v \in Workers : Followed(v)'
    <2>1. worker[w] \in Process /\ ~At(w, "off")
      BY <1>5, ProcessFields DEF Serve, At
    <2>2. worker'[w] = [worker[w] EXCEPT !.pc = "serving", !.since = clock]
      BY <1>5 DEF Serve, Goes, WorkersTypeOK
    <2>3. /\ worker'[w].pc = "serving" /\ worker'[w].since = clock
          /\ worker'[w].doing.step = "none" /\ worker'[w].unseen = worker[w].unseen
      BY <1>5, <2>1, <2>2 DEF Serve, Process, AtRest, Doing
    <2>4. ~worker[w].unseen => Traced(execution, provisioned, clock)
      BY <1>5, <2>1 DEF Serve, AtRest, Doing, MonthInv, Followed
    <2>5. UNCHANGED <<execution, provisioned>>
      BY <1>5 DEF Serve
    <2>6. Followed(w)'
      BY <2>3, <2>4, <2>5 DEF Followed, At
    <2> QED
      BY <1>1, <1>5, <2>6 DEF Serve
  <1>6. ASSUME NEW w \in Workers, Terminate(w)
        PROVE  \A v \in Workers : Followed(v)'
    <2>1. worker[w] \in Process /\ ~At(w, "off")
      BY <1>6, ProcessFields DEF Terminate, At
    <2>2. worker[w].doing.step = "succeed" => provisioned
      BY <2>1 DEF MonthInv, Followed
    <2>3. /\ [worker[w] EXCEPT !.pc = "closing"].pc = "closing"
          /\ [worker[w] EXCEPT !.pc = "closing"].doing = worker[w].doing
      BY <2>1 DEF Process
    <2> QED
      BY <1>2, <1>6, <2>2, <2>3 DEF Terminate
  <1>7. ASSUME NEW w \in Workers, Exit(w) \/ Kill(w)
        PROVE  \A v \in Workers : Followed(v)'
    <2>1. Goes(w, Off)
      BY <1>7 DEF Exit, Kill
    <2>2. worker'[w] = Off
      BY <2>1 DEF Goes, WorkersTypeOK
    <2> QED
      BY <1>1, <2>1, <2>2, FollowedStays
  <1>8. ASSUME NEW w \in Workers, LoseDatabase(w)
        PROVE  \A v \in Workers : Followed(v)'
    <2>1. worker[w] \in Process /\ ~At(w, "off")
      BY <1>8, ProcessFields DEF LoseDatabase
    <2>2. worker'[w] = [worker[w] EXCEPT !.doing = Resting,
                            !.unseen = @ \/ worker[w].doing.step \in {"look", "create"}]
      BY <1>8 DEF LoseDatabase, Goes, WorkersTypeOK
    <2>3. /\ worker'[w].pc = worker[w].pc /\ worker'[w].since = worker[w].since
          /\ worker'[w].doing.step = "none"
          /\ worker'[w].unseen
               = (worker[w].unseen \/ worker[w].doing.step \in {"look", "create"})
      BY <2>1, <2>2 DEF Process, Resting
    <2>4. UNCHANGED <<execution, provisioned, clock>>
      BY <1>8 DEF LoseDatabase
    <2>5. Followed(w)'
      BY <2>1, <2>3, <2>4 DEF Followed, At, MonthInv
    <2> QED
      BY <1>1, <1>8, <2>5 DEF LoseDatabase
  <1>9. ASSUME NEW w \in Workers, NEW doing, Turns(w, doing), ~At(w, "off"),
               doing.step = "succeed" => provisioned',
               \/ At(w, "reconciling") /\ doing.step \notin {"look", "create"}
                    => worker[w].doing.step \notin {"look", "create"}
               \/ Traced(execution', provisioned', clock')
        PROVE  \A v \in Workers : Followed(v)'
    <2>1. worker[w] \in Process
      BY <1>9, ProcessFields
    <2> DEFINE next == [worker[w] EXCEPT !.doing = doing]
    <2>2. Goes(w, next) /\ worker'[w] = next
      BY <1>9 DEF Turns, Goes, WorkersTypeOK
    <2>3. /\ next.pc = worker[w].pc /\ next.since = worker[w].since
          /\ next.unseen = worker[w].unseen /\ next.doing = doing
      BY <2>1 DEF Process
    <2> HIDE DEF next
    <2>4. Followed(w)'
      BY <1>9, <2>2, <2>3, FollowedStays
    <2> QED
      BY <1>1, <2>2, <2>4
  <1>10. ASSUME NEW w \in Workers, NEW s \in Schedulers, Take(w, s)
         PROVE  (\A v \in Workers : Followed(v)') \/ UNCHANGED worker
    <2>1. ~At(w, "off") /\ ~At(w, "reconciling")
      BY <1>10 DEF Take, At
    <2>2. CASE Turns(w, [step |-> "look", source |-> JobSources[s], job |-> s])
      BY <1>9, <2>1, <2>2
    <2> QED
      BY <1>10, <2>2 DEF Take
  <1>11. ASSUME NEW w \in Workers, Look(w)
         PROVE  \A v \in Workers : Followed(v)'
    <2>1. ~At(w, "off") /\ worker[w].doing \in Doings
      BY <1>11, DoingIsBusy DEF Look, Busy, Doings
    <2>2. CASE Running(worker[w].doing.source)
      <3>1. Traced(execution, provisioned, clock)
        BY <2>2 DEF Running, Traced, MonthInv, NotAhead
      <3>2. Traced(execution', provisioned', clock')
        BY <1>11, <3>1 DEF Look
      <3> QED
        BY <1>9, <1>11, <2>1, <2>2, <3>2 DEF Look, Resting
    <2>3. CASE ~Running(worker[w].doing.source)
      <3>1. [worker[w].doing EXCEPT !.step = "create"].step = "create"
        BY <2>1 DEF Doings, Resting
      <3> QED
        BY <1>9, <1>11, <2>1, <2>3, <3>1 DEF Look
    <2> QED
      BY <2>2, <2>3
  <1>12. ASSUME NEW w \in Workers, CreateExecution(w)
         PROVE  \A v \in Workers : Followed(v)'
    <2>1. ~At(w, "off") /\ worker[w].doing \in Doings
      BY <1>12, DoingIsBusy DEF CreateExecution, Busy, Doings
    <2>2. [worker[w].doing EXCEPT !.step = "run"].step = "run"
      BY <2>1 DEF Doings, Resting
    <2>3. Traced(execution', provisioned', clock')
      <3> DEFINE row == [source |-> worker[w].doing.source, by |-> w,
                         started |-> clock, status |-> "RUNNING"]
      <3>1. row \in execution' /\ clock' = clock
        BY <1>12 DEF CreateExecution
      <3>2. row.status = "RUNNING" /\ row.started <= clock
        BY OperationsAssumption DEF OperationsTypeOK
      <3> HIDE DEF row
      <3> QED
        BY <3>1, <3>2 DEF Traced
    <2> QED
      BY <1>9, <1>12, <2>1, <2>2, <2>3 DEF CreateExecution
  <1>13. ASSUME NEW w \in Workers, RunEnsure(w)
         PROVE  \A v \in Workers : Followed(v)'
    <2>1. ~At(w, "off") /\ worker[w].doing \in Doings /\ worker[w].doing.step = "run"
      BY <1>13, DoingIsBusy DEF RunEnsure, Busy, Doings, Doing
    <2>2. PICK step \in {"succeed", "fail"} :
             /\ Turns(w, [worker[w].doing EXCEPT !.step = step])
             /\ step = "succeed" => provisioned'
      BY <1>13 DEF RunEnsure
    <2>3. [worker[w].doing EXCEPT !.step = step].step = step
      BY <2>1 DEF Doings, Resting
    <2> QED
      BY <1>9, <2>1, <2>2, <2>3
  <1>14. ASSUME NEW w \in Workers, FinishExecution(w)
         PROVE  \A v \in Workers : Followed(v)'
    <2>1. ~At(w, "off") /\ worker[w].doing.step \in {"succeed", "fail"}
      BY <1>14 DEF FinishExecution, Doing
    <2>2. Turns(w, Resting) /\ Resting.step = "none"
      BY <1>14 DEF FinishExecution, Resting
    <2> QED
      BY <1>9, <2>1, <2>2
  <1>15. CASE UNCHANGED worker
    BY <1>15, FollowedStays
  <1>16. (\E s \in Schedulers : Due(s)) \/ PassTime \/ RedisFails \/ ReleasesNext
         => UNCHANGED worker
    BY DEF Due, PassTime, RedisFails, ReleasesNext, StartPreflight, Build, ReplaceApi, Migrate,
           AskApi, AskWorker, Conclude
  <1>17. UNCHANGED operationVars => UNCHANGED worker
    BY DEF operationVars
  <1> QED
    BY <1>3, <1>4, <1>5, <1>6, <1>7, <1>8, <1>10, <1>11, <1>12, <1>13, <1>14, <1>15, <1>16,
       <1>17 DEF OperationsNext, ProcessNext, JobsNext

OpsInv == OpsTypeOK /\ PreflightInv /\ MonthInv

LEMMA OpsStep == OpsInv /\ [OperationsNext]_operationVars => OpsInv'
  BY OperationsTypeStep, PreflightStep, FollowedStep, NotAheadStep DEF OpsInv, MonthInv

LEMMA OpsInitHolds == OperationsInit => OpsInv
  <1> SUFFICES ASSUME OperationsInit
               PROVE  OpsInv
    OBVIOUS
  <1> USE DEF OperationsInit
  <1>1. OpsTypeOK
    <2>1. 1 \in Releases /\ 0 \in 0..LastTime
      BY OperationsAssumption
    <2>2. OperationsTypeOK
      BY <2>1 DEF OperationsTypeOK
    <2>3. WorkersTypeOK /\ FleetTypeOK
      BY <2>1 DEF WorkersTypeOK, FleetTypeOK
    <2> QED
      BY <2>2, <2>3 DEF OpsTypeOK
  <1>2. PreflightInv
    BY DEF PreflightInv, Scheduled, AnswersStand, PreflightIsTrue, At, Off, Resting
  <1>3. MonthInv
    BY DEF MonthInv, NotAhead, Followed, At, Off
  <1> QED
    BY <1>1, <1>2, <1>3 DEF OpsInv

\* The processes, the rows of executions, the releases and the preflight stay well formed
\* (worker.ts, registerBoteco12Schedules, InternalJobRunnerService).
THEOREM OperationsTypeCorrect == OperationsSpec => []OpsTypeOK
  <1>1. OpsInv => OpsTypeOK
    BY DEF OpsInv
  <1> QED
    BY <1>1, OpsInitHolds, OpsStep, PTL DEF OperationsSpec

\* What operators are told is true, for every number of workers, releases, schedules and
\* executions: a preflight that says "ready" stays true, and a worker that has served for
\* more than half an hour has the month, or a status that is critical (production
\* preflight, GetOperationalStatusService, InternalJobRunnerService).
THEOREM OperatorsAreToldTheTruth == OperationsSpec => []OperatorsAreTold
  <1>1. OpsInv => OperatorsAreTold
    <2> SUFFICES ASSUME OpsInv
                 PROVE  OperatorsAreTold
      OBVIOUS
    <2>1. ASSUME NEW w \in Workers, At(w, "serving"), worker[w].since + 1 < clock,
                 ~worker[w].unseen
          PROVE  provisioned \/ Status = "CRITICAL"
      <3>1. ~At(w, "off")
        BY <2>1 DEF At
      <3>2. worker[w] \in Process
        BY <3>1, ProcessFields DEF OpsInv, OpsTypeOK
      <3>3. Traced(execution, provisioned, worker[w].since)
        BY <2>1, <3>1 DEF OpsInv, MonthInv, Followed
      <3>4. worker[w].since \in Nat /\ clock \in Nat /\ \A x \in execution : x.started \in Nat
        <4>1. \A x \in execution : x.started \in 0..LastTime
          BY DEF OpsInv, OpsTypeOK, OperationsTypeOK, Execution
        <4>2. worker[w].since \in 0..LastTime /\ clock \in 0..LastTime
          BY <3>2 DEF Process, OpsInv, OpsTypeOK, OperationsTypeOK
        <4> QED
          BY <4>1, <4>2, OperationsAssumption
      <3>5. \A x \in execution : x.started <= worker[w].since => x.started + 1 < clock
        BY <2>1, <3>4
      <3> QED
        BY <3>3, <3>5 DEF Traced, Status, FailedLately, StuckOver30m
    <2> QED
      BY <2>1 DEF OpsInv, PreflightInv, OperatorsAreTold, StatusTellsTheMonth
  <1> QED
    BY <1>1, OpsInitHolds, OpsStep, PTL DEF OperationsSpec


=============================================================================
