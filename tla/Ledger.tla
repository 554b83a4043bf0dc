------------------------------- MODULE Ledger -------------------------------
(***************************************************************************)
(* What a wallet promises, whatever service moves the coins: a balance     *)
(* changes only in a step that also posts the matching ledger row, and a   *)
(* debit is never larger than the balance it finds.  One transaction may   *)
(* post rows for several users (a Mesa pays all its winners at once), so a *)
(* step posts at most one row for each user.  Wallets may hold coins at    *)
(* first, if the rows account for them.                                    *)
(***************************************************************************)
EXTENDS Integers

CONSTANT Users
VARIABLE wallet

Backed(account) == account.balance = account.credited - account.debited /\ account.balance >= 0

Init == DOMAIN wallet = Users /\ \A u \in Users : Backed(wallet[u])

PostsCredit(before, after) ==
    /\ after.credited > before.credited
    /\ after.debited = before.debited
    /\ after.balance - before.balance = after.credited - before.credited

PostsDebit(before, after) ==
    /\ after.debited > before.debited
    /\ after.credited = before.credited
    /\ before.balance - after.balance = after.debited - before.debited
    /\ after.debited - before.debited <= before.balance

Post ==
    \A u \in Users :
        \/ wallet'[u] = wallet[u]
        \/ PostsCredit(wallet[u], wallet'[u])
        \/ PostsDebit(wallet[u], wallet'[u])

Spec == Init /\ [][Post]_wallet

=============================================================================
