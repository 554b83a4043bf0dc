CONSTANTS
    Unset = Unset
    Players = {1, 2, 3, 4}
    Measures = {0, 1}
    Distributions <- MCDistributions
    Gross = {0, 1, 9, 10, 11, 25, 37, 100}
    Seasons <- MCSeasons
    Dates <- MCDates
    Zones <- MCZones
    MatchTimes <- MCMatchTimes
    Hours <- MCHours
    Submitted <- MCSubmitted
    Profiles <- MCProfiles
    Searches <- MCSearches
    MaxMesas = 3
    Legacy = {"l1", "l2"}
    Later = {"m1", "m2"}
    Baseline = "b"
    Order <- MCOrder
    Runs = {r1, r2}
    Bootstrap = boot
    None = None
    t1 = t1
    n1 = n1
    n2 = n2
    men = men
    women = women
    Absent = Absent
    Teams = {t1}
    Names = {n1, n2}
    Kinds = {men, women}
    Default = men
    Seeded <- MCSeeded
    Lists <- MCLists
    NewTeams <- MCNewTeams
    Changes <- MCChanges
    MatchCount = 2
    MaxNumber = 1
    SetOpens = {190}
    SetCloses = {180}
    Zone <- MCZone
    Admins = {a1, a2}
SPECIFICATION MCSpec
SYMMETRY MCSymmetry
CHECK_DEADLOCK FALSE
INVARIANT PayoutsAreFair
 
INVARIANT CalendarIsKept
INVARIANT ListsAreConsistent
INVARIANT HistoryTellsSchema
INVARIANT DeploymentsAreSafe
 
INVARIANT RoundsArePlayable
