CONSTANTS
    Null = Null
    Users = {1, 2, 3}
    Creator = 1
    Stake <- MCStake
    Subscribers = {1, 2}
    Created <- MCCreated
    NumRounds = 3
    CloseAt <- MCCloseAt
    Points <- MCPoints
    Terms <- AllTerms
    NewTerms = {}
    InviteUses = {}
    Requests = {q}
    Jobs = {worker}
    MaxNow = 2
SPECIFICATION Spec
CHECK_DEADLOCK FALSE
 
INVARIANT CoinsAreConserved
INVARIANT PlayersAreTold
PROPERTY SettledByOwnRounds
PROPERTY LedgerSpec
