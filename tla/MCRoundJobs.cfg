CONSTANTS
    bet = bet
    home = home
    Nothing = Nothing
    Users = {u1}
    NumRounds = 2
    Predictions = {bet}
    Results = {home}
    Demand <- MCDemand
    Points <- MCPoints
    Grant <- MCGrant
    Stock <- MCStock
    Gift = 1
    MaxGifts = 0
    Requests = {q1}
    Jobs = {worker, cron, script}
    Operator = script
    MaxFaults = 1
SPECIFICATION FairJobsSpec
CHECK_DEADLOCK FALSE
INVARIANT OpenSuccessMeansGranted
PROPERTY EveryRoundIsPlayed
PROPERTY GrantsArrive
