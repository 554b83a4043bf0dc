CONSTANTS
    ana = ana
    coins = coins
    annual = annual
    monthly = monthly
    Users = {ana}
    Payments = {coins, annual}
    Owner <- MCOwner
    Purpose <- MCPurpose
    Coins <- MCCoins
    Months <- MCMonths
    Subscribed <- MCSubscribed
    MpPayments = {m1, m2}
    Foreign = foreign
    LegacyIpn = FALSE
    Cancellers = {ana}
    Handlers = {h1}
    MaxNow = 1
    MaxFailures = 0
SPECIFICATION Spec
CHECK_DEADLOCK FALSE
INVARIANT PaidTimeGivesAccess
 
PROPERTY RenewalAddsPaidMonths
SYMMETRY MCSymmetry
