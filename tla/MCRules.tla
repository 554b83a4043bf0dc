------------------------------- MODULE MCRules -------------------------------
(* Small inputs for Rules, and small instances of Migrations and Fixtures.    *)
(* One run has them all: each of its behaviours poses a question, changes the *)
(* database, or prepares rounds.                                              *)
EXTENDS Rules, Migrations, Fixtures

CONSTANTS t1, n1, n2, men, women

VARIABLE about    \* which of the three a behaviour is one of

\* A question is asked once.
Question(Ask) == about = "rules" /\ Ask /\ UNCHANGED <<about, vars, fixtureVars>>

MCInit ==
    /\ Unasked /\ Init /\ FixturesInit
    /\ about \in {"rules", "migrations", "fixtures"}
    /\ about # "migrations" => history = None

MCDistributions == {<<100>>, <<70, 30>>, <<50, 30, 20>>, <<34, 33, 33>>, <<40, 30, 20, 10>>}

Tickets(matches) ==
    {[result |-> r, multiplier |-> m] :
        r \in [1..matches -> {"1", "X", "C"}], m \in [1..matches -> {1, 2, 4}]}

\* Three rounds of one match, or two rounds of which the second has two.
MCSeasons ==
    [1..3 -> Tickets(1) \cup {Unset}]
        \cup {<<a, b>> : a \in Tickets(1) \cup {Unset}, b \in Tickets(2) \cup {Unset}}

\* The ends of the months around a leap day.
MCDates ==
    {[year |-> y, month |-> m, day |-> d] : y \in {2027, 2028}, m \in {1, 2, 12}, d \in {1, 28}}
        \cup {[year |-> y, month |-> m, day |-> d] : y \in {2027}, m \in {1, 3, 8, 12}, d \in 29..31}
        \cup {[year |-> 2028, month |-> 2, day |-> 29]}

\* Sao Paulo at UTC-3, and the clocks going forward or back by an hour.
MCZones ==
    {[change |-> c, before |-> b[1], after |-> b[2]] :
        c \in 115..170, b \in {<<-3, -2>>, <<-2, -3>>, <<-3, -3>>}}
MCMatchTimes == {{t} : t \in 170..194} \cup {{180, 200}}
MCHours == {120, 179, 180, 181}

\* A city belongs to one state: clients take both from the same catalogue.
Place(scope, state, city) == [scope |-> scope, state |-> state, city |-> city, named |-> TRUE]
MCSubmitted ==
    {[id |-> 1, category |-> "FREE", eligibility |-> "ALL", cost |-> 0, reward |-> 0,
      entryEnd |-> 1, created |-> 1, registration |-> "CLOSING_SOON",
      region |-> Place(Unset, "SC", "c1")],
     [id |-> 2, category |-> "PAID", eligibility |-> "ALL", cost |-> 2, reward |-> 5,
      entryEnd |-> Unset, created |-> 1, registration |-> "OPEN",
      region |-> Place("STATE", "SC", "c1")],
     [id |-> 3, category |-> "PAID", eligibility |-> "ALL", cost |-> 1, reward |-> 2,
      entryEnd |-> 5, created |-> 2, registration |-> "OPEN",
      region |-> Place("CITY", "SC", "c1")],
     [id |-> 4, category |-> "SPONSORED_FREE", eligibility |-> "SUBSCRIBERS_ONLY",
      cost |-> 1, reward |-> 9, entryEnd |-> 1, created |-> 3, registration |-> "CLOSING_SOON",
      region |-> Place("CITY", "SC", "c2")],
     [id |-> 5, category |-> "FREE", eligibility |-> "ALL", cost |-> 0, reward |-> 1,
      entryEnd |-> 9, created |-> 2, registration |-> "UPCOMING",
      region |-> Place("STATE", "RS", Unset)],
     [id |-> 6, category |-> "FREE", eligibility |-> "ALL", cost |-> 0, reward |-> 1,
      entryEnd |-> 9, created |-> 2, registration |-> "OPEN",
      region |-> Place("NATIONAL", Unset, Unset)],
     [id |-> 7, category |-> "PAID", eligibility |-> "FREE_ONLY", cost |-> 1, reward |-> 2,
      entryEnd |-> 5, created |-> 2, registration |-> "OPEN",
      region |-> Place("CITY", "RS", "c3")],
     [id |-> 8, category |-> "FREE", eligibility |-> "ALL", cost |-> 0, reward |-> 1,
      entryEnd |-> 9, created |-> 2, registration |-> "OPEN",
      region |-> Place("STATE", Unset, Unset)]}

MCProfiles ==
    {[pro |-> p, balance |-> 1, state |-> l[1], city |-> l[2], named |-> TRUE] :
        p \in BOOLEAN, l \in {<<"SC", "c1">>, <<"RS", Unset>>, <<Unset, Unset>>, <<Unset, "c1">>}}

Anywhere == [category |-> Unset, maxCost |-> Unset, registration |-> "ALL", access |-> "ALL",
             region |-> "ALL", state |-> Unset, city |-> Unset, sort |-> "RECOMMENDED",
             limit |-> 2]
MCSearches ==
    {[Anywhere EXCEPT !.sort = s, !.limit = n] : n \in {1, 2},
        s \in {"RECOMMENDED", "CLOSING_SOON", "NEWEST", "LOWEST_COST", "HIGHEST_REWARD"}}
    \cup {[Anywhere EXCEPT !.region = r, !.access = a] : a \in {"ALL", "CAN_JOIN"},
            r \in {"NATIONAL", "STATE", "CITY", "NEARBY"}}
    \cup {[Anywhere EXCEPT !.registration = r] : r \in {"OPEN", "CLOSING_SOON", "UPCOMING"}}
    \cup {[Anywhere EXCEPT !.category = "PAID"], [Anywhere EXCEPT !.maxCost = 1],
          [Anywhere EXCEPT !.region = "STATE", !.state = "RS"],
          [Anywhere EXCEPT !.region = "CITY", !.city = "c2"]}

\* Names are ordered as the timestamps that they begin with.
MCOrder == [m \in Active |-> CASE m = Baseline -> 0 [] m = "m1" -> 1 [] OTHER -> 2]

\* The seed's catalogue has one team, which has a men's and a women's.
MCSeeded == t1 :> [name |-> n1, alias |-> n2]
Unsent == [name |-> Absent, alias |-> Absent, active |-> Absent, variants |-> Absent]
MCNewTeams == {[name |-> n2, alias |-> Absent, variants |-> men :> TRUE @@ women :> TRUE]}
MCChanges == {[Unsent EXCEPT !.name = n1, !.active = FALSE],
              [Unsent EXCEPT !.alias = n1, !.variants = men :> TRUE],
              [Unsent EXCEPT !.active = TRUE, !.variants = men :> TRUE @@ women :> TRUE]}

\* Lists for today and for tomorrow, and lists that are refused.
Game(i, home, away, time) ==
    [position |-> i, home |-> [team |-> t1, kind |-> home], away |-> [team |-> t1, kind |-> away],
     time |-> time]
MCLists ==
    {<<Game(1, men, women, 184), Game(2, women, men, 180)>>,
     <<Game(2, men, women, 204), Game(1, women, men, 204)>>,
     <<Game(1, men, women, 180), Game(1, women, men, 180)>>,
     <<Game(1, men, women, 180), Game(2, men, men, 180)>>,
     <<Game(1, men, women, 180)>>}
\* For the administrators alone: they only occur in Fixtures.
MCSymmetry == Permutations(Admins)

MCZone == [change |-> 0, before |-> -3, after |-> -3]

Alone == about = "migrations" /\ UNCHANGED <<about, question, fixtureVars>>
Prepare == about = "fixtures" /\ UNCHANGED <<about, question, vars>>

MCNext ==
    \/ Question(AskPositions) \/ Question(AskPayouts) \/ Question(AskPeriod)
    \/ Question(AskRenewal) \/ Question(AskSchedule) \/ Question(AskSearch)
    \/ Question(AskPanel)
    \/ \E d \in Deployers : \/ Alone /\ Begin(d)
                            \/ Alone /\ RunSql(d)
                            \/ Alone /\ Finish(d)
                            \/ Alone /\ Migrated(d)
                            \/ Alone /\ Die(d)
    \/ \E r \in Runs : \/ Alone /\ List(r)
                       \/ Alone /\ Backup(r)
                       \/ Alone /\ StartStage(r)
                       \/ Alone /\ FinishStage(r)
                       \/ Alone /\ MigrateInContainer(r)
                       \/ Alone /\ Verify(r)
    \/ Alone /\ StartBootstrap
    \/ Alone /\ MigrateBootstrap
    \/ Alone /\ Release
    \/ Alone /\ StartCutover
    \/ Alone /\ LockHistory
    \/ Alone /\ CommitCutover
    \/ Alone /\ StopCutover
    \/ Alone /\ FinishLegacy
    \/ \E t \in Teams, sent \in NewTeams : Prepare /\ CreateTeam(t, sent)
    \/ \E a \in Admins, t \in Teams :
         \/ \E sent \in Changes : Prepare /\ ReadTeam(a, t, sent)
         \/ Prepare /\ SeedFind(a, t)
         \/ Prepare /\ SeedCreate(a, t)
         \/ Prepare /\ SeedUpdate(a, t)
    \/ \E a \in Admins, list \in Lists, open \in SetOpens \cup {Absent},
          close \in SetCloses \cup {Absent} :
         \/ Prepare /\ StartRound(a, list, open, close)
         \/ \E n \in 1..MaxNumber : Prepare /\ StartEdit(a, n, list, open, close)
    \/ \E a \in Admins, n \in 1..MaxNumber, open \in SetOpens \cup {Absent},
          close \in SetCloses \cup {Absent} :
         Prepare /\ StartReschedule(a, n, open, close)
    \/ \E a \in Admins :
         \/ Prepare /\ WriteTeam(a)
         \/ Prepare /\ SeedVariant(a)
         \/ Prepare /\ FindGenerated(a)
         \/ Prepare /\ DeactivateGenerated(a)
         \/ Prepare /\ FindTeams(a)
         \/ Prepare /\ InsertRound(a)
         \/ Prepare /\ ReplaceMatches(a)
         \/ Prepare /\ Reschedule(a)
         \/ Prepare /\ GiveUp(a)
    \/ \E n \in 1..MaxNumber : Prepare /\ OpenFixture(n)

MCSpec == MCInit /\ [][MCNext]_<<vars, question, fixtureVars, about>>
=============================================================================
