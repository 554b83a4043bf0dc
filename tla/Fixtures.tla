------------------------------ MODULE Fixtures ------------------------------
(***************************************************************************)
(* The catalogue of teams and the matches of rounds that are being         *)
(* prepared: CreateTeamService, UpdateTeamService, syncTeamVariants, the   *)
(* seed of teams, the clean-up of generated variants, the two searches;    *)
(* RoundRepository.create under CreateRoundService, UpdateRoundService,    *)
(* resolveRoundMatchTeams, and the opening of a round as far as it reads   *)
(* the matches.                                                            *)
(*                                                                         *)
(* An administrator's request decides on what it has read, in part outside *)
(* the transaction that it then writes in.  A text is a name, and the text *)
(* that is searched is the set of the names it was built from.             *)
(***************************************************************************)
EXTENDS Calendar, FiniteSets, Sequences

CONSTANTS
    Teams,        \* ids of teams, as they sort by name
    Names,
    Kinds,        \* gender and age category of a variant
    Default,      \* MEN and SENIOR
    Seeded,       \* [Teams -> what the seed's catalogue says of the team, or Absent]
    Lists,        \* sequences of matches that administrators submit
    MatchCount,   \* ROUND_MATCH_COUNT (12 in the code)
    MaxNumber,    \* bound on the rounds created
    NewTeams,     \* what a new team may come with: name, alias, variants
    Changes,      \* what an update of a team may send: name, alias, active, variants
    SetOpens,     \* opening and closing times that administrators set
    SetCloses,
    Zone,         \* Sao Paulo
    Absent,       \* no row, null, or a field that is not sent
    Admins        \* requests and scripts that can be in progress together

ASSUME FixturesAssumption ==
    /\ Default \in Kinds
    /\ MatchCount \in Nat \ {0} /\ MaxNumber \in Nat
    /\ SetOpens \cup SetCloses \subseteq Int
    /\ Absent \notin Names \cup SetOpens \cup SetCloses

VARIABLES
    team,         \* teams and team_variants
    fixture,      \* rounds and round_matches, by number
    admin,        \* what each request is doing
    crossed       \* history: rounds whose matches were replaced under an edit of the times

fixtureVars == <<team, fixture, admin, crossed>>

\* name, and alias for the other names; text is searchText; variant tells for each
\* kind whether there is a row, and an active one; seed is the external id.
Team == [name : Names, alias : Names \cup {Absent}, text : SUBSET Names, active : BOOLEAN,
         seed : Teams \cup {Absent}, variant : [Kinds -> {"none", "active", "inactive"}]]
Variant == [team : Teams, kind : Kinds]
Match == [position : 0..(MatchCount + 1), home : Variant, away : Variant, time : Int]
Fixture == [status : {"DRAFT", "OPEN"}, open : Int, close : Int, matches : SUBSET Match]

\* What requests and the seed's catalogue come with.
Desired == UNION {[kinds -> BOOLEAN] : kinds \in SUBSET Kinds}
ASSUME InputAssumption ==
    /\ Seeded \in [Teams -> [name : Names, alias : Names \cup {Absent}] \cup {Absent}]
    /\ NewTeams \subseteq [name : Names, alias : Names \cup {Absent},
                          variants : Desired \cup {Absent}]
    /\ Changes \subseteq [name : Names \cup {Absent}, alias : Names \cup {Absent},
                         active : BOOLEAN \cup {Absent}, variants : Desired \cup {Absent}]
    /\ Lists \subseteq Seq(Match)
    /\ Zone \in [change : Int, before : Int, after : Int]
    /\ Absent \notin Team \cup Fixture

FixturesTypeOK ==
    /\ team \in [Teams -> Team \cup {Absent}]
    /\ fixture \in [1..MaxNumber -> Fixture \cup {Absent}]
    /\ crossed \subseteq 1..MaxNumber

FixturesInit ==
    /\ team = [t \in Teams |-> Absent]
    /\ fixture = [n \in 1..MaxNumber |-> Absent]
    /\ admin = [a \in Admins |-> [doing |-> "nothing"]]
    /\ crossed = {}

Does(a, what) == admin[a].doing = what
Turn(a, next) == admin' = [admin EXCEPT ![a] = next]
Stop(a) == Turn(a, [doing |-> "nothing"])
Present(t) == team[t] # Absent

-----------------------------------------------------------------------------
(* TEAMS                                                                    *)

\* buildTeamSearchText
SearchText(name, alias) == {name, alias} \ {Absent}

\* syncTeamVariants: what is desired is upserted, and the others are deactivated.
\* desired maps kinds to whether they shall be active.
Synced(variant, desired) ==
    [k \in Kinds |-> IF k \in DOMAIN desired
                     THEN IF desired[k] THEN "active" ELSE "inactive"
                     ELSE IF variant[k] = "none" THEN "none" ELSE "inactive"]

NoVariants == [k \in Kinds |-> "none"]
OnlyDefault == [k \in {Default} |-> TRUE]

\* CreateTeamService: one transaction that reads nothing.
CreateTeam(t, sent) ==
    /\ ~Present(t)
    /\ team' = [team EXCEPT ![t] =
         [name |-> sent.name, alias |-> sent.alias, text |-> SearchText(sent.name, sent.alias),
          active |-> TRUE, seed |-> Absent,
          variant |-> Synced(NoVariants,
                             IF sent.variants = Absent THEN OnlyDefault ELSE sent.variants)]]
    /\ UNCHANGED <<fixture, admin, crossed>>

\* UpdateTeamService reads the row, and merges what was sent into its names.
ReadTeam(a, t, sent) ==
    /\ Does(a, "nothing")
    /\ Present(t)
    /\ Turn(a, [doing |-> "team", of |-> t, sent |-> sent,
                name |-> IF sent.name = Absent THEN team[t].name ELSE sent.name,
                alias |-> IF sent.alias = Absent THEN team[t].alias ELSE sent.alias])
    /\ UNCHANGED <<team, fixture, crossed>>

\* Fault: only the names that were sent are written.
OnlySent(row, doc) ==
    [row EXCEPT !.name = IF doc.sent.name = Absent THEN @ ELSE doc.sent.name,
                !.alias = IF doc.sent.alias = Absent THEN @ ELSE doc.sent.alias,
                !.text = SearchText(doc.name, doc.alias)]

\* Every name is written, with the text that was built of them.
AllNames(row, doc) ==
    [row EXCEPT !.name = doc.name, !.alias = doc.alias,
                !.text = SearchText(doc.name, doc.alias)]

WriteTeam(a) ==
    /\ Does(a, "team")
    /\ LET doc == admin[a]
           row == AllNames(team[doc.of], doc)
       IN  team' = [team EXCEPT ![doc.of] =
             [row EXCEPT !.active = IF doc.sent.active = Absent THEN @ ELSE doc.sent.active,
                         !.variant = IF doc.sent.variants = Absent THEN @
                                     ELSE Synced(@, doc.sent.variants)]]
    /\ Stop(a)
    /\ UNCHANGED <<fixture, crossed>>

\* The seed looks for the team by its external id, then by name or alias; it stops
\* where several answer and none alone is of the country.
SeedFind(a, entry) ==
    /\ Does(a, "nothing")
    /\ Seeded[entry] # Absent
    /\ LET names == SearchText(Seeded[entry].name, Seeded[entry].alias)
           own == {t \in Teams : Present(t) /\ team[t].seed = entry}
           found == IF own # {} THEN own
                    ELSE {t \in Teams : Present(t) /\ team[t].name \in names}
       IN  /\ Cardinality(found) <= 1
           /\ Turn(a, [doing |-> IF found = {} THEN "seedCreate" ELSE "seedUpdate",
                       entry |-> entry, found |-> found])
    /\ UNCHANGED <<team, fixture, crossed>>

SeededRow(entry, variant) ==
    [name |-> Seeded[entry].name, alias |-> Seeded[entry].alias, active |-> TRUE,
     seed |-> entry, variant |-> variant,
     text |-> SearchText(Seeded[entry].name, Seeded[entry].alias)]

\* The external id is unique: a second seed fails.
SeedCreate(a, t) ==
    /\ Does(a, "seedCreate")
    /\ ~Present(t)
    /\ LET entry == admin[a].entry
       IN  team' = IF \E s \in Teams : Present(s) /\ team[s].seed = entry THEN team
                   ELSE [team EXCEPT ![t] = SeededRow(entry, Synced(NoVariants, OnlyDefault))]
    /\ Stop(a)
    /\ UNCHANGED <<fixture, crossed>>

\* The default variant of an existing row is upserted in a call of its own.
SeedUpdate(a, t) ==
    /\ Does(a, "seedUpdate")
    /\ t \in admin[a].found
    /\ IF \E s \in Teams \ {t} : Present(s) /\ team[s].seed = admin[a].entry
       THEN UNCHANGED team /\ Stop(a)
       ELSE /\ team' = [team EXCEPT ![t] = SeededRow(admin[a].entry, @.variant)]
            /\ Turn(a, [doing |-> "seedVariant", of |-> t])
    /\ UNCHANGED <<fixture, crossed>>

SeedVariant(a) ==
    /\ Does(a, "seedVariant")
    /\ team' = [team EXCEPT ![admin[a].of].variant[Default] = "active"]
    /\ Stop(a)
    /\ UNCHANGED <<fixture, crossed>>

\* cleanupGeneratedTeamVariants reads the seeded teams that have every kind.
FindGenerated(a) ==
    /\ Does(a, "nothing")
    /\ LET generated == {t \in Teams : /\ Present(t) /\ team[t].seed # Absent
                                       /\ \A k \in Kinds : team[t].variant[k] # "none"}
           targets == {v \in [team : generated, kind : Kinds \ {Default}] :
                         team[v.team].variant[v.kind] = "active"}
       IN  targets # {} /\ Turn(a, [doing |-> "cleanUp", targets |-> targets])
    /\ UNCHANGED <<team, fixture, crossed>>

DeactivateGenerated(a) ==
    /\ Does(a, "cleanUp")
    /\ LET Target(t, k) == [team |-> t, kind |-> k] \in admin[a].targets
       IN  team' = [t \in Teams |-> IF ~Present(t) THEN Absent ELSE
                      [team[t] EXCEPT !.variant =
                         [k \in Kinds |-> IF Target(t, k) THEN "inactive" ELSE @[k]]]]
    /\ Stop(a)
    /\ UNCHANGED <<fixture, crossed>>

-----------------------------------------------------------------------------
(* SEARCHES: before the order of relevance.                                 *)

ActiveKinds(t, kinds) == {k \in kinds : team[t].variant[k] = "active"}

\* SearchTeamGroupsService: the query names a team, and may narrow the kinds.
TeamGroups(name, kinds) ==
    {t \in Teams : /\ Present(t) /\ team[t].active
                   /\ name = Absent \/ name \in team[t].text
                   /\ ActiveKinds(t, kinds) # {}}

\* SearchTeamsService: the active variants of the same teams.
TeamVariants(name) ==
    {v \in Variant : v.team \in TeamGroups(name, Kinds) /\ team[v.team].variant[v.kind] = "active"}

-----------------------------------------------------------------------------
(* THE MATCHES OF A ROUND                                                   *)

\* normalizeRoundMatches, and the part of resolveRoundMatchTeams that needs no rows.
WellFormed(list) ==
    /\ Len(list) = MatchCount
    /\ \A i \in DOMAIN list : /\ list[i].position \in 1..MatchCount
                              /\ list[i].home # list[i].away
    /\ \A i, j \in DOMAIN list : list[i].position = list[j].position => i = j

Times(matches) == {m.time : m \in matches}
Entries(list) == {list[i] : i \in DOMAIN list}

ActiveVariant(v) == Present(v.team) /\ team[v.team].active
                    /\ team[v.team].variant[v.kind] = "active"

\* resolveRoundMatchTeams finds every variant active.
Resolvable(matches) == \A m \in matches : ActiveVariant(m.home) /\ ActiveVariant(m.away)

Schedule(matches, open, close) == Resolved(Zone, Times(matches), open, close, Absent)
Playable(matches, open, close) == Accepted(Schedule(matches, open, close), Times(matches))

\* CreateRoundService: the schedule, the last number, and then the teams.
StartRound(a, list, open, close) ==
    /\ Does(a, "nothing")
    /\ WellFormed(list)
    /\ Playable(Entries(list), open, close)
    /\ LET last == CHOOSE n \in 0..MaxNumber :
                     /\ n = 0 \/ fixture[n] # Absent
                     /\ \A m \in (n + 1)..MaxNumber : fixture[m] = Absent
       IN  /\ last < MaxNumber
           /\ Turn(a, [doing |-> "create", number |-> last + 1, matches |-> Entries(list),
                       times |-> Schedule(Entries(list), open, close)])
    /\ UNCHANGED <<team, fixture, crossed>>

FindTeams(a) ==
    /\ admin[a].doing \in {"create", "edit"}
    /\ IF Resolvable(admin[a].matches)
       THEN Turn(a, [admin[a] EXCEPT !.doing = IF @ = "create" THEN "insert" ELSE "replace"])
       ELSE Stop(a)
    /\ UNCHANGED <<team, fixture, crossed>>

\* The number is unique: the second of two creations fails.
InsertRound(a) ==
    /\ Does(a, "insert")
    /\ LET doc == admin[a]
       IN  fixture' = IF fixture[doc.number] # Absent THEN fixture
                      ELSE [fixture EXCEPT ![doc.number] =
                              [status |-> "DRAFT", open |-> doc.times.open,
                               close |-> doc.times.close, matches |-> doc.matches]]
    /\ Stop(a)
    /\ UNCHANGED <<team, crossed>>

Draft(n) == fixture[n] # Absent /\ fixture[n].status = "DRAFT"

\* Fault: the matches that are being replaced.
OldMatches(n, list) == fixture[n].matches

NewMatches(n, list) == Entries(list)

\* UpdateRoundService reads the round, without a lock; new matches bring new times.
StartEdit(a, n, list, open, close) ==
    /\ Does(a, "nothing")
    /\ Draft(n)
    /\ WellFormed(list)
    /\ Playable(NewMatches(n, list), open, close)
    /\ Turn(a, [doing |-> "edit", number |-> n, matches |-> Entries(list),
                times |-> Schedule(NewMatches(n, list), open, close)])
    /\ UNCHANGED <<team, fixture, crossed>>

\* Without matches, the times are checked against those it has read.
StartReschedule(a, n, open, close) ==
    /\ Does(a, "nothing")
    /\ Draft(n)
    /\ Playable(fixture[n].matches, open, close)
    /\ Turn(a, [doing |-> "reschedule", number |-> n,
                times |-> Schedule(fixture[n].matches, open, close)])
    /\ UNCHANGED <<team, fixture, crossed>>

Timed(row, times) == [row EXCEPT !.open = times.open, !.close = times.close]

\* The update by id locks the row until the commit; deleteMany and createMany follow.
ReplaceMatches(a) ==
    /\ Does(a, "replace")
    /\ LET doc == admin[a]
       IN  /\ fixture' = [fixture EXCEPT ![doc.number] =
                            [Timed(@, doc.times) EXCEPT !.matches = doc.matches]]
           /\ crossed' = IF \E b \in Admins : /\ Does(b, "reschedule")
                                              /\ admin[b].number = doc.number
                         THEN crossed \cup {doc.number} ELSE crossed
    /\ Stop(a)
    /\ UNCHANGED team

Reschedule(a) ==
    /\ Does(a, "reschedule")
    /\ fixture' = [fixture EXCEPT ![admin[a].number] = Timed(@, admin[a].times)]
    /\ Stop(a)
    /\ UNCHANGED <<team, crossed>>

\* OpenRoundService counts the matches; one round is open at a time.
OpenFixture(n) ==
    /\ Draft(n)
    /\ Cardinality(fixture[n].matches) = MatchCount
    /\ \A m \in 1..MaxNumber : fixture[m] = Absent \/ fixture[m].status # "OPEN"
    /\ fixture' = [fixture EXCEPT ![n].status = "OPEN"]
    /\ UNCHANGED <<team, admin, crossed>>

\* The request ends without its writes: it fails, or its process dies.
GiveUp(a) ==
    /\ ~Does(a, "nothing")
    /\ Stop(a)
    /\ UNCHANGED <<team, fixture, crossed>>

-----------------------------------------------------------------------------
FixturesNext ==
    \/ \E t \in Teams, sent \in NewTeams : CreateTeam(t, sent)
    \/ \E a \in Admins, t \in Teams :
         \/ \E sent \in Changes : ReadTeam(a, t, sent)
         \/ SeedFind(a, t) \/ SeedCreate(a, t) \/ SeedUpdate(a, t)
    \/ \E a \in Admins, list \in Lists, open \in SetOpens \cup {Absent},
          close \in SetCloses \cup {Absent} :
         \/ StartRound(a, list, open, close)
         \/ \E n \in 1..MaxNumber : StartEdit(a, n, list, open, close)
    \/ \E a \in Admins, n \in 1..MaxNumber, open \in SetOpens \cup {Absent},
          close \in SetCloses \cup {Absent} :
         StartReschedule(a, n, open, close)
    \/ \E a \in Admins :
         \/ WriteTeam(a) \/ SeedVariant(a) \/ FindGenerated(a) \/ DeactivateGenerated(a)
         \/ FindTeams(a) \/ InsertRound(a) \/ ReplaceMatches(a) \/ Reschedule(a) \/ GiveUp(a)
    \/ \E n \in 1..MaxNumber : OpenFixture(n)

FixturesSpec == FixturesInit /\ [][FixturesNext]_fixtureVars

-----------------------------------------------------------------------------
(* PROPERTIES                                                               *)

\* An active team that has an active variant is found under each of its names, and
\* under no other, whichever updates and seeds overlap: an update takes names from an
\* earlier read, and writes all of them with the text they make (UpdateTeamService).
SearchFindsNames ==
    \A t \in Teams : Present(t) /\ team[t].active /\ ActiveKinds(t, Kinds) # {} =>
        \A name \in Names :
            /\ t \in TeamGroups(name, Kinds) <=> name \in {team[t].name, team[t].alias}
            /\ t \in TeamGroups(name, Kinds) <=> \E v \in TeamVariants(name) : v.team = t

\* A round has its matches, each position once and two teams in each, and closes no
\* later than the first begins: also when edits overlap, unless the matches were
\* replaced under an edit of the times alone (UpdateRoundService).
RoundsArePlayable ==
    \A n \in 1..MaxNumber : fixture[n] # Absent =>
        LET matches == fixture[n].matches
        IN  /\ {m.position : m \in matches} = 1..MatchCount
            /\ Cardinality(matches) = MatchCount
            /\ \A m \in matches : m.home # m.away
            /\ n \notin crossed => Accepted(fixture[n], Times(matches))

\* A round never closes after its first match.  It does not hold: an edit of the
\* times is checked against matches that another edit replaces.
ClosesBeforeMatches ==
    \A n \in 1..MaxNumber : fixture[n] # Absent =>
        fixture[n].close <= Min(Times(fixture[n].matches))

\* Only drafts are edited.  It does not hold: the status was read before the opening.
OnlyDraftsAreEdited ==
    [][\A n \in 1..MaxNumber : fixture[n] # Absent /\ fixture[n].status = "OPEN"
          => fixture'[n] = fixture[n]]_fixtureVars
=============================================================================
