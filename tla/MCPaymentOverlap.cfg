CONSTANTS
    ana = ana
    coins = coins
    annual = annual
    monthly = monthly
    Users = {ana}
    Payments = {coins, annual}
    Owner <- MCOwner
    Purpose <- MCPurpose
    Coins <- MCCoins
    Months <- MCMonths
    Subscribed <- MCUnsubscribed
    MpPayments = {m1}
    Foreign = foreign
    LegacyIpn = TRUE
    Cancellers = {}
    Handlers = {h1, h2}
    MaxNow = 0
    MaxFailures = 1
SPECIFICATION FairSpec
CHECK_DEADLOCK FALSE
INVARIANT SettledOnlyIfPaid
INVARIANT ApprovedIsCredited
PROPERTY ApprovedIsSettled
