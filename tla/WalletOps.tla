------------------------------ MODULE WalletOps ------------------------------
(***************************************************************************)
(* The wallet row and its ledger, as WalletService writes them.  A wallet  *)
(* is its balance plus the sums of the CREDIT and DEBIT rows of            *)
(* wallet_ledger that refer to it: the rows themselves are only ever added *)
(* up, so their totals are all the properties can tell apart.              *)
(***************************************************************************)
EXTENDS Integers

Account == [balance : Nat, credited : Nat, debited : Nat]

\* wallet.upsert(create: { userId }): a new wallet has balance 0 and no rows.
EmptyWallet == [balance |-> 0, credited |-> 0, debited |-> 0]

\* creditWithTx: one CREDIT row and a relative increment of the balance.
Credit(w, amount) ==
    [balance |-> w.balance + amount, credited |-> w.credited + amount, debited |-> w.debited]

\* balance: { gte: amount }, both in the read and in the updateMany.
HasFunds(w, amount) == w.balance >= amount

\* debitWithTx once updateMany matched: a decrement and one DEBIT row.
Debit(w, amount) ==
    [balance |-> w.balance - amount, credited |-> w.credited, debited |-> w.debited + amount]

=============================================================================
