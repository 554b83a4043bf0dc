CONSTANTS
    bet = bet
    home = home
    away = away
    Nothing = Nothing
    Users = {u1}
    NumRounds = 1
    Predictions = {bet}
    Results = {home, away}
    Demand <- MCDemand
    Points <- MCPoints
    Grant <- MCGrant
    Stock <- MCStock
    Doubled = 2
    PlanGrant = 1
    Gift = 1
    MaxGifts = 1
    Requests = {q1, q2}
    Jobs = {j1, j2}
SPECIFICATION Spec
CHECK_DEADLOCK FALSE
INVARIANT BenefitsAccounted
SYMMETRY MCSymmetry
