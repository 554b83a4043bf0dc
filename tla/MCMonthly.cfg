CONSTANTS
    Null = Null
    Users = {1}
    Created <- MCCreated
    Kinds = {"PRO"}
    Start = 1
    Finish = 3
    NumRounds = 3
    OpenAt <- MCOpenAt
    CloseAt <- MCCloseAt
    Points <- MCPoints
    PayAt <- MCPayAt
    Validity = 2
    Jobs = {a, b}
    MaxNow = 3
    MaxRecomputes = 1
SPECIFICATION Spec
CHECK_DEADLOCK FALSE
PROPERTY InitialIsFinal
 
 
PROPERTY LateSubscribersStayOut
PROPERTY RecomputeRebuilds
SYMMETRY MCSymmetry
