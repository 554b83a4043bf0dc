CONSTANTS
    bet = bet
    home = home
    away = away
    Nothing = Nothing
    Users = {u1}
    NumRounds = 2
    Predictions = {bet}
    Results = {home}
    Demand <- MCDemand
    Points <- MCPoints
    Grant <- MCGrant
    Stock <- MCStock
    Doubled = 0
    PlanGrant = 0
    Gift = 1
    MaxGifts = 0
    Requests = {q1}
    Jobs = {j1, j2}
SPECIFICATION Spec
CHECK_DEADLOCK FALSE
INVARIANT ScoresAddUp
INVARIANT SnapshotShowsHistory
SYMMETRY MCSymmetry
