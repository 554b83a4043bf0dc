CONSTANTS
    Null = Null
    Users = {1, 2}
    Creator = 1
    Stake <- MCStake
    Subscribers = {1}
    Created <- MCCreated
    NumRounds = 2
    CloseAt <- EarlyCloseAt
    Points <- MCPoints
    Terms <- TomorrowTerms
    NewTerms = {}
    InviteUses = {}
    Requests = {q}
    Jobs = {worker}
    MaxNow = 1
SPECIFICATION FairSpec
CHECK_DEADLOCK FALSE
 
PROPERTY ScheduleEnds
