--------------------------- MODULE MCPaymentWebhook ---------------------------
(* One user with a coin package and two subscriptions in checkout.           *)
EXTENDS PaymentWebhook, TLC

CONSTANTS ana, coins, annual, monthly

MCOwner == [p \in Payments |-> ana]
MCPurpose == [p \in Payments |-> IF p = coins THEN "WALLET_CREDIT" ELSE "SUBSCRIPTION"]
MCCoins == [p \in Payments |-> 2]
MCMonths == [p \in Payments |-> IF p = annual THEN 2 ELSE 1]
MCSubscribed == [u \in Users |-> 1]
MCUnsubscribed == [u \in Users |-> NoRow]

\* The provider's payments and the deliveries are interchangeable; for the runs
\* without liveness.
MCSymmetry == Permutations(MpPayments) \cup Permutations(Handlers)
=============================================================================
