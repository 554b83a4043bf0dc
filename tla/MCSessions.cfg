CONSTANTS
    Null = Null
    NoSid = NoSid
    Users = {u1}
    Sids = {s1, s2}
    Links = {l1}
    Requests = {r1, r2}
    MaxFailed = 2
    MaxWrong = 3
    MaxVersion = 2
    People = {p1, p2}
    Legacy = {p1}
    FirstAdmins = {p1}
    Mail <- MCMail
    Cpfs = {c1, c2}
    Births = {d1, d2}
    Blank = Blank
    Forms = {f1, f2}
SPECIFICATION MCSpec
SYMMETRY MCSymmetry
INVARIANT EveryFailureCounts
PROPERTY OnlyCurrentSessions
PROPERTY IdentityIsFinal
