CONSTANTS
    Null = Null
    Users = {1, 2, 3}
    Creator = 1
    Stake <- MCStake
    Subscribers = {1, 2}
    Created <- MCCreated
    NumRounds = 1
    CloseAt <- MCCloseAt
    Points <- MCPoints
    Terms <- OnlyDuel
    NewTerms <- EditedTerms
    InviteUses = {1}
    Requests = {q1, q2}
    Jobs = {}
    MaxNow = 1
SPECIFICATION Spec
CHECK_DEADLOCK FALSE
INVARIANT InviteUsesAccounted
PROPERTY CaptureIsFinal
SYMMETRY MCSymmetry
