CONSTANTS
    r1 = r1
    r2 = r2
    single = single
    combo = combo
    double = double
    Users = {u1, u2}
    Requests = {r1, r2}
    Types = {double}
    Amounts = {1, 2}
    MaxCredited = 2
    MaxGranted = 1
    Packages <- MCPackages
    PackageType <- MCPackageType
    Cost <- MCCost
    Quantity <- MCQuantity
    w1 = w1
    schedule = schedule
    Workers = {w1, w2}
    Releases = {1, 2}
    Schedulers = {1, 2}
    RequiredBy <- MCRequiredBy
    Registers <- MCRegisters
    JobSources <- MCJobSources
    Other = Other
    Reconcile = Reconcile
    LastTime = 2
    MaxRuns = 2
SPECIFICATION MCSpec
INVARIANT DeliveredIffCharged
 
PROPERTY LedgerSpec
CHECK_DEADLOCK FALSE
