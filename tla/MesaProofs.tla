------------------------------ MODULE MesaProofs ------------------------------
(***************************************************************************)
(* Theorems about Mesa, for any users, terms, season and number of         *)
(* requests and jobs: every entry is charged once and holds one seat, the  *)
(* reference round and the captured scores are final, an invite is used up *)
(* by the entries it let in, and the prizes add up: a Mesa moves coins as  *)
(* the ledger promises, pays once, and pays out what its players put in,   *)
(* for the rounds of its own; what its pages and lists tell is true.       *)
(* And about Rules, for any players and distribution: who gets which prize.*)
(***************************************************************************)
EXTENDS MesaViews, Rules, Aggregates, TLAPS

Pool == Requests \cup Jobs
Row == [score : Int, position : Nat]
Table == UNION {[S -> Row] : S \in SUBSET Users}

\* What a request or a job may have in hand.
Join == [op : {"join"}, user : Users, terms : Term, invited : BOOLEAN]
Edit == [op : {"edit"}, terms : Term, mode : {"KEEP", "DRAFT", "AT_START", "NOW"},
         status : {"DRAFT", "ACTIVE", "CLOSED"}, start : Nat, reset : BOOLEAN]
Closing == [op : {"registrations"}, at : Nat, ref : Rounds \cup {Null}]
Finish == [op : {"finish"}, end : Nat]
Pass == [op : {"recalc", "close"}, seen : MesaRow, rows : Table \cup {Null}]
Work == {Idle} \cup Join \cup Edit \cup [op : {"unschedule"}] \cup Closing \cup Finish \cup Pass

SeasonTyped ==
    /\ now \in Nat
    /\ round \in [Rounds -> {"DRAFT", "OPEN", "CLOSED", "SCORED", "CANCELLED"}]
    /\ history \in [Users -> [Rounds -> Int \cup {Null}]]
    /\ total \in [Users -> Int]

MesaTyped ==
    /\ mesa \in {NoMesa} \cup MesaRow
    /\ participant \in [Users -> Participation \cup {Null}]
    /\ invite \in [max : Nat, used : Nat] \cup {Null}
    /\ DOMAIN wallet = Users

\* Rows in hand are of players who take part, and there is no work before a Mesa.
RequestsTyped ==
    /\ request \in [Pool -> Work]
    /\ \A q \in Pool : request[q] \in Pass /\ request[q].rows # Null =>
            DOMAIN request[q].rows \subseteq Approved
    /\ mesa = NoMesa => \A q \in Pool : request[q] = Idle

\* The accounts of the entries, of an empty Mesa too.
Seated == EntriesAccounted /\ (mesa = NoMesa => Approved = {} /\ invite = Null)

\* A reference round is only set when registrations close.
ClosedWithReference == mesa # NoMesa /\ mesa.ref # Null => mesa.closedAt # Null

Invitees == {u \in Approved : participant[u].invited}
ByInvite(q) == request[q] \in Join /\ request[q].invited

\* The invite in the hands of an entry has a use left, and no other entry has it.
InviteHeld ==
    /\ InviteUsesAccounted
    /\ invite = Null => Invitees = {}
    /\ \A q \in Requests : ByInvite(q) => invite # Null /\ invite.used < invite.max
    /\ \A p, q \in Requests : ByInvite(p) /\ ByInvite(q) => p = q

MesaInv ==
    /\ SeasonTyped /\ MesaTyped /\ RequestsTyped
    /\ Seated /\ ClosedWithReference /\ InviteHeld

\* CaptureIsFinal of one step.
StaysCaptured ==
    /\ mesa # NoMesa /\ mesa.ref # Null => mesa'.ref = mesa.ref /\ mesa'.closedAt = mesa.closedAt
    /\ \A u \in Users : participant[u] # Null /\ participant[u].base # Null =>
            participant'[u] # Null /\ participant'[u].base = participant[u].base

-----------------------------------------------------------------------------
(* NUMBERS                                                                  *)

LEMMA MoneyType ==
    ASSUME NEW gross \in Int, NEW t \in Term
    PROVE  PlatformFee(gross) \in Int /\ Reward(gross, t) \in Int
  <1>1. gross \div 10 \in Int
    OBVIOUS
  <1>2. t.sponsor \in Nat
    BY DEF Term
  <1> QED
    BY <1>1, <1>2 DEF PlatformFee, Reward, PrizePool

\* The last total of a user is one of the user's histories, or nothing.
LEMMA LastTotalType ==
    ASSUME SeasonTyped, NEW u \in Users, NEW R, R \subseteq Rounds
    PROVE  LastTotal(u, R) \in Int \cup {Null}
  <1> DEFINE played == {r \in R : round[r] = "SCORED" /\ history[u][r] # Null}
  <1>1. CASE played = {}
    BY <1>1 DEF LastTotal
  <1>2. CASE played # {}
    <2>1. played \subseteq 1..NumRounds /\ NumRounds \in Nat
      BY MesaAssumption DEF Rounds
    <2>2. LastTotal(u, R) = history[u][Max(played)]
      BY <1>2 DEF LastTotal
    <2> HIDE DEF played
    <2>3. Max(played) \in played
      BY <1>2, <2>1, MaxIsMember
    <2>4. Max(played) \in Rounds
      BY <2>1, <2>3 DEF Rounds
    <2> QED
      BY <2>2, <2>4 DEF SeasonTyped
  <1> QED
    BY <1>1, <1>2

\* A table of rows has a row for every player who takes part.
LEMMA RowsType ==
    ASSUME SeasonTyped, MesaTyped, NEW m \in MesaRow
    PROVE  Rows(m) \in Table /\ DOMAIN Rows(m) = Approved
  <1> DEFINE until == IF m.end # Null THEN m.end ELSE now
             window == {r \in Rounds : r > m.ref /\ CloseAt[r] <= until}
             score == [u \in Approved |->
                         OrElse(LastTotal(u, window), participant[u].base) - participant[u].base]
             metrics == [u \in Approved |-> [score |-> score[u], superDoubles |-> 0, doubles |-> 0,
                                             created |-> Created[u]]]
             position == Position(metrics)
  <1>1. Rows(m) = IF m.ready /\ AllCaptured
                  THEN [u \in Approved |-> [score |-> score[u], position |-> position[u]]]
                  ELSE [u \in Approved |-> [score |-> 0, position |-> 0]]
    BY DEF Rows
  <1>2. ASSUME AllCaptured, NEW u \in Approved
        PROVE  score[u] \in Int
    <2>1. participant[u].base \in Int
      BY <1>2 DEF AllCaptured, Approved, MesaTyped, Participation
    <2>2. LastTotal(u, window) \in Int \cup {Null}
      BY <1>2, LastTotalType DEF Approved
    <2> HIDE DEF window
    <2> QED
      BY <1>2, <2>1, <2>2 DEF OrElse
  <1> HIDE DEF score
  <1>3. ASSUME NEW u \in Approved
        PROVE  position[u] \in Nat
    <2> DEFINE above == {v \in Approved : Better(metrics[v], metrics[u])}
    <2>1. above \subseteq Users
      BY DEF Approved
    <2>2. Cardinality(above) \in Nat
      BY <2>1, MesaAssumption, FS_Subset, FS_CardinalityType
    <2>3. position[u] = 1 + Cardinality(above)
      BY DEF Position
    <2> QED
      BY <2>2, <2>3
  <1> HIDE DEF position, metrics
  <1>4. Approved \in SUBSET Users
    BY DEF Approved
  <1>5. CASE m.ready /\ AllCaptured
    <2>1. Rows(m) \in [Approved -> Row]
      BY <1>1, <1>2, <1>3, <1>5 DEF Row
    <2> QED
      BY <1>4, <2>1 DEF Table
  <1>6. CASE ~(m.ready /\ AllCaptured)
    <2>1. Rows(m) \in [Approved -> Row]
      BY <1>1, <1>6 DEF Row
    <2> QED
      BY <1>4, <2>1 DEF Table
  <1> QED
    BY <1>5, <1>6

-----------------------------------------------------------------------------
(* PRIZES                                                                   *)

\* Integer division, with its remainder.
LEMMA Division ==
    ASSUME NEW a \in Nat, NEW b \in Nat \ {0}
    PROVE  /\ a \div b \in Nat /\ a % b \in Nat
           /\ (a \div b) * b <= a /\ a < ((a \div b) + 1) * b
           /\ a = (a \div b) * b + (a % b)
  <1> DEFINE q == a \div b
             r == a % b
  <1>1. q \in Int /\ r \in 0..(b - 1) /\ a = q * b + r
    BY SMT
  <1> HIDE DEF q, r
  <1>2. q >= 0
    <2> SUFFICES ASSUME q <= -1
                 PROVE  FALSE
      BY <1>1
    <2>1. q * b <= (-1) * b
      BY <1>1
    <2> QED
      BY <1>1, <2>1
  <1>3. (q + 1) * b = q * b + b
    BY <1>1
  <1>4. q * b \in Int
    BY <1>1
  <1>5. q * b <= a /\ a < q * b + b
    BY <1>1, <1>4
  <1>6. q \in Nat /\ r \in Nat /\ q * b <= a /\ a < (q + 1) * b /\ a = q * b + r
    BY <1>1, <1>2, <1>3, <1>5
  <1> QED
    BY Zenon, <1>6 DEF q, r

\* Products of integers are integers, in either order.
LEMMA Products ==
    ASSUME NEW a \in Int, NEW b \in Int
    PROVE  a * b \in Int /\ a * b = b * a
  OBVIOUS

LEMMA ProductsOfThree ==
    ASSUME NEW a \in Int, NEW b \in Int, NEW c \in Int
    PROVE  a * (b * c) = (a * b) * c /\ (a + 1) * (b * c) = (a * b + b) * c
  OBVIOUS

\* Products keep an order of integers, and show it.
LEMMA Scaling ==
    ASSUME NEW a \in Int, NEW b \in Int, NEW k \in Nat \ {0}
    PROVE  /\ a <= b <=> a * k <= b * k
           /\ a < b <=> a * k < b * k
  OBVIOUS

\* Fractions are compared by their cross products, which is an order.
LEMMA Fractions ==
    ASSUME NEW a \in Int, NEW b \in Int, NEW c \in Int,
           NEW d \in Nat \ {0}, NEW e \in Nat \ {0}, NEW f \in Nat \ {0},
           a * e >= b * d, b * f >= c * e
    PROVE  /\ a * f >= c * d
           /\ a * e > b * d \/ b * f > c * e => a * f > c * d
  <1>1. (a * e) * f >= (b * d) * f /\ (a * e > b * d => (a * e) * f > (b * d) * f)
    <2>1. a * e \in Int /\ b * d \in Int
      OBVIOUS
    <2> QED
      BY <2>1, Scaling
  <1>2. (b * f) * d >= (c * e) * d /\ (b * f > c * e => (b * f) * d > (c * e) * d)
    <2>1. b * f \in Int /\ c * e \in Int
      OBVIOUS
    <2> QED
      BY <2>1, Scaling
  <1>3. (a * e) * f = (a * f) * e /\ (b * d) * f = (b * f) * d /\ (c * e) * d = (c * d) * e
    OBVIOUS
  <1>4. a * f \in Int /\ c * d \in Int /\ (b * f) * d \in Int
    OBVIOUS
  <1> DEFINE x == a * f
             y == c * d
             z == (b * f) * d
  <1>5. x * e >= z /\ z >= y * e /\ (a * e > b * d => x * e > z) /\ (b * f > c * e => z > y * e)
    BY <1>1, <1>2, <1>3
  <1>6. x \in Int /\ y \in Int /\ z \in Int /\ x * e \in Int /\ y * e \in Int
    BY <1>4
  <1> HIDE DEF x, y, z
  <1>7. x * e >= y * e /\ (a * e > b * d \/ b * f > c * e => x * e > y * e)
    BY <1>5, <1>6
  <1>8. x >= y /\ (a * e > b * d \/ b * f > c * e => x > y)
    BY <1>6, <1>7, Scaling
  <1> QED
    BY <1>8 DEF x, y

Metric == [score : Int, superDoubles : Int, doubles : Int, created : Int]

\* However equal the players, somebody is first.
LEMMA SomebodyWins ==
    ASSUME NEW S, IsFiniteSet(S), S # {}, NEW metrics \in [S -> Metric]
    PROVE  \E u \in S : Position(metrics)[u] = 1
  <1> DEFINE before == {p \in S \X S : Better(metrics[p[1]], metrics[p[2]])}
  <1>1. ASSUME NEW x \in S, NEW y \in S
        PROVE  <<x, y>> \in before <=> Better(metrics[x], metrics[y])
    OBVIOUS
  <1> HIDE DEF before
  <1>2. ASSUME NEW a \in Metric
        PROVE  ~Better(a, a)
    BY DEF Better, Metric
  <1>3. ASSUME NEW a \in Metric, NEW b \in Metric, NEW c \in Metric, Better(a, b), Better(b, c)
        PROVE  Better(a, c)
    BY <1>3 DEF Better, Metric
  <1>4. StrictOrder(S, before)
    <2>1. \A x \in S : <<x, x>> \notin before
      BY <1>1, <1>2
    <2>2. ASSUME NEW x \in S, NEW y \in S, NEW z \in S, <<x, y>> \in before, <<y, z>> \in before
          PROVE  <<x, z>> \in before
      <3>1. Better(metrics[x], metrics[y]) /\ Better(metrics[y], metrics[z])
        BY <1>1, <2>2
      <3>2. Better(metrics[x], metrics[z])
        BY <1>3, <3>1
      <3> QED
        BY <1>1, <3>2
    <2> QED
      BY <2>1, <2>2 DEF StrictOrder
  <1>5. PICK u \in S : Ahead(S, before, u) = {}
    BY <1>4, SomebodyFirst
  <1>6. {v \in S : Better(metrics[v], metrics[u])} = {}
    BY <1>1, <1>5 DEF Ahead
  <1>7. Position(metrics)[u] = 1 + Cardinality({v \in S : Better(metrics[v], metrics[u])})
    BY DEF Position
  <1> QED
    BY <1>6, <1>7, FS_EmptySet

Share == [dividend : Nat, divisor : Nat \ {0}]
Remainder(s) == s.dividend % s.divisor

\* The winners whose shares are not whole coins.
Broken(share) == {u \in DOMAIN share : Remainder(share[u]) > 0}
Larger(a, b) == a.dividend * b.divisor > b.dividend * a.divisor

LEMMA ShareType ==
    ASSUME NEW s \in Share
    PROVE  /\ s.dividend \in Nat /\ s.divisor \in Nat \ {0}
           /\ Whole(s) \in Nat /\ Remainder(s) \in Nat
           /\ s.dividend = Whole(s) * s.divisor + Remainder(s)
           /\ s.dividend < (Whole(s) + 1) * s.divisor
  <1>1. s.dividend \in Nat /\ s.divisor \in Nat \ {0}
    BY DEF Share
  <1> QED
    BY <1>1, Division DEF Whole, Remainder

\* Of a larger share, the whole coins are more, or as many and more is left.
LEMMA LargerShare ==
    ASSUME NEW a \in Share, NEW b \in Share, Larger(a, b)
    PROVE  Whole(a) > Whole(b) \/ (Whole(a) = Whole(b) /\ MoreLeft(a, b))
  <1> DEFINE x == Whole(a)
             y == Whole(b)
             d == a.divisor
             e == b.divisor
             r == Remainder(a)
             s == Remainder(b)
  <1>1. /\ x \in Nat /\ y \in Nat /\ d \in Nat \ {0} /\ e \in Nat \ {0} /\ r \in Nat /\ s \in Nat
        /\ a.dividend = x * d + r /\ a.dividend < (x + 1) * d /\ b.dividend = y * e + s
    BY ShareType
  <1>2. MoreLeft(a, b) <=> r * e > s * d
    BY DEF MoreLeft, Remainder
  <1>3. (x * d + r) * e > (y * e + s) * d
    BY <1>1 DEF Larger
  <1> HIDE DEF x, y, d, e, r, s
  <1>4. (x * d + r) * e = x * (d * e) + r * e /\ (y * e + s) * d = y * (d * e) + s * d
    BY <1>1
  <1>5. /\ d * e \in Nat /\ r * e \in Nat /\ s * d \in Nat
        /\ x * (d * e) \in Int /\ y * (d * e) \in Int
    BY <1>1
  <1>6. CASE x = y
    <2>1. r * e > s * d
      BY <1>3, <1>4, <1>5, <1>6
    <2> QED
      BY <1>2, <1>6, <2>1 DEF x, y
  <1>7. x >= y
    <2> SUFFICES ASSUME x + 1 <= y
                 PROVE  FALSE
      BY <1>1
    <2>1. r < d
      <3>1. (x + 1) * d = x * d + d /\ x * d \in Int
        BY <1>1
      <3>2. x * d + r < x * d + d
        BY <1>1, <3>1 DEF x, d, r
      <3> QED
        BY <1>1, <3>1, <3>2
    <2>2. r * e < d * e
      BY <1>1, <2>1, Scaling
    <2>3. (x + 1) * (d * e) <= y * (d * e)
      <3>1. d * e \in Nat \ {0}
        BY <1>1
      <3>2. x + 1 \in Int /\ y \in Int
        BY <1>1
      <3> QED
        BY <3>1, <3>2, Scaling
    <2>4. (x + 1) * (d * e) = x * (d * e) + d * e
      BY <1>1, <1>5
    <2> QED
      BY <1>3, <1>4, <1>5, <2>2, <2>3, <2>4
  <1>8. x > y \/ x = y
    BY <1>1, <1>7
  <1> QED
    BY <1>6, <1>8 DEF x, y

\* The coins left over after rounding down are no more than the winners whose shares are
\* not whole, and each goes to another one of them: a share is given out to the last
\* coin, and a larger one is never paid less.

LEMMA AllocateAll ==
    ASSUME NEW W, IsFiniteSet(W), NEW share \in [W -> Share], NEW pool \in Nat,
           NEW order, \A u \in W : order[u] \in Int,
           \A u, v \in W : order[u] = order[v] => u = v,
           NEW floor, \A u \in W : floor[u] = Whole(share[u]),
           SumFunctionOnSet(floor, W) <= pool,
           pool <= SumFunctionOnSet(floor, W) + Cardinality(Broken(share))
    PROVE  /\ DOMAIN Allocate(pool, share, order) = W
           /\ \A u \in W : Allocate(pool, share, order)[u] \in Nat
           /\ SumFunction(Allocate(pool, share, order)) = pool
           /\ \A u \in W :
                \/ Allocate(pool, share, order)[u] = Whole(share[u])
                \/ Allocate(pool, share, order)[u] = Whole(share[u]) + 1 /\ u \in Broken(share)
           /\ \A u, v \in W : Larger(share[u], share[v]) =>
                Allocate(pool, share, order)[u] >= Allocate(pool, share, order)[v]
  <1> DEFINE whole == [u \in W |-> Whole(share[u])]
             First(u, v) == \/ MoreLeft(share[u], share[v])
                            \/ ~MoreLeft(share[v], share[u]) /\ order[u] < order[v]
             before == {p \in W \X W : First(p[1], p[2])}
             left == pool - SumFunction(whole)
             low == {u \in W : Cardinality(Ahead(W, before, u)) < left}
             extra == [u \in W |-> IF u \in low THEN 1 ELSE 0]
             paid == [u \in W |-> whole[u] + extra[u]]
  <1>1. Allocate(pool, share, order) = paid
    <2>1. \A u \in W : {v \in W : First(v, u)} = Ahead(W, before, u)
      BY DEF Ahead
    <2>2. Allocate(pool, share, order) =
            [u \in W |-> Whole(share[u])
                         + (IF Cardinality({v \in W : First(v, u)}) < left THEN 1 ELSE 0)]
      BY DEF Allocate
    <2> QED
      BY <2>1, <2>2
  <1>2. ASSUME NEW u \in W
        PROVE  whole[u] \in Nat
    <2>1. share[u].dividend \in Nat /\ share[u].divisor \in Nat \ {0}
      BY DEF Share
    <2> QED
      BY <2>1, Division DEF Whole
  <1>3. SumFunction(whole) \in Nat
    <2>1. DOMAIN whole = W
      OBVIOUS
    <2> HIDE DEF whole
    <2> QED
      BY <1>2, <2>1, SumOfNaturals DEF SumFunction
  <1>b. Broken(share) \in SUBSET W
    BY DEF Broken
  <1>4. left \in 0..Cardinality(W) /\ left <= Cardinality(Broken(share))
    <2>1. SumFunction(whole) <= pool /\ pool <= SumFunction(whole) + Cardinality(Broken(share))
      <3>1. SumFunction(whole) = SumFunctionOnSet(whole, W)
        BY DEF SumFunction
      <3>2. \A u \in W : whole[u] = floor[u]
        OBVIOUS
      <3> HIDE DEF whole
      <3> QED
        BY <3>1, <3>2, SumsAgree
    <2>2. /\ Cardinality(W) \in Nat /\ Cardinality(Broken(share)) \in Nat
          /\ Cardinality(Broken(share)) <= Cardinality(W)
      BY <1>b, FS_CardinalityType, FS_Subset
    <2> HIDE DEF whole
    <2> QED
      BY <1>3, <2>1, <2>2
  <1>5. Chain(W, before)
    <2> DEFINE r(u) == share[u].dividend % share[u].divisor
               d(u) == share[u].divisor
    <2>1. ASSUME NEW u \in W
          PROVE  r(u) \in Nat /\ d(u) \in Nat \ {0} /\ order[u] \in Int
      <3>1. share[u].dividend \in Nat /\ share[u].divisor \in Nat \ {0}
        BY DEF Share
      <3> QED
        BY <3>1, Division
    <2>2. \A u, v \in W : MoreLeft(share[u], share[v]) <=> r(u) * d(v) > r(v) * d(u)
      BY DEF MoreLeft
    <2>3. \A u, v \in W : <<u, v>> \in before <=> First(u, v)
      OBVIOUS
    <2> HIDE DEF r, d, before
    <2>4. ASSUME NEW u \in W
          PROVE  ~First(u, u)
      <3>1. r(u) * d(u) \in Int
        BY <2>1
      <3> QED
        BY <2>1, <2>2, <3>1
    <2>5. ASSUME NEW u \in W, NEW v \in W, u # v
          PROVE  First(u, v) \/ First(v, u)
      <3>1. r(u) * d(v) \in Int /\ r(v) * d(u) \in Int /\ order[u] \in Int /\ order[v] \in Int
        BY <2>1
      <3>2. order[u] < order[v] \/ order[v] < order[u]
        BY <2>5, <3>1
      <3> QED
        BY <2>2, <3>1, <3>2
    <2>6. ASSUME NEW u \in W, NEW v \in W, NEW w \in W, First(u, v), First(v, w)
          PROVE  First(u, w)
      <3>1. /\ r(u) * d(v) \in Int /\ r(v) * d(u) \in Int /\ r(v) * d(w) \in Int
            /\ r(w) * d(v) \in Int /\ r(u) * d(w) \in Int /\ r(w) * d(u) \in Int
            /\ order[u] \in Int /\ order[v] \in Int /\ order[w] \in Int
        BY <2>1
      <3>2. r(u) * d(v) >= r(v) * d(u) /\ (r(u) * d(v) > r(v) * d(u) \/ order[u] < order[v])
        BY <2>2, <2>6, <3>1
      <3>3. r(v) * d(w) >= r(w) * d(v) /\ (r(v) * d(w) > r(w) * d(v) \/ order[v] < order[w])
        BY <2>2, <2>6, <3>1
      <3>4. /\ r(u) * d(w) >= r(w) * d(u)
            /\ r(u) * d(v) > r(v) * d(u) \/ r(v) * d(w) > r(w) * d(v)
               => r(u) * d(w) > r(w) * d(u)
        <4>1. r(u) \in Int /\ r(v) \in Int /\ r(w) \in Int
          BY <2>1
        <4> QED
          BY <2>1, <3>2, <3>3, <4>1, Fractions
      <3>5. r(u) * d(w) > r(w) * d(u) \/ order[u] < order[w]
        BY <3>1, <3>2, <3>3, <3>4
      <3>6. ~(r(w) * d(u) > r(u) * d(w))
        BY <3>1, <3>4
      <3> QED
        BY <2>2, <3>5, <3>6
    <2> HIDE DEF First
    <2> QED
      BY <2>3, <2>4, <2>5, <2>6 DEF Chain, StrictOrder
  <1>6. Cardinality(low) = left
    <2> HIDE DEF before, left
    <2> QED
      BY <1>4, <1>5, ChainRanks
  <1>7. SumFunctionOnSet(extra, W) = left
    <2>1. \A u \in W : extra[u] = IF u \in low THEN 1 ELSE 0
      OBVIOUS
    <2>2. low \in SUBSET W
      OBVIOUS
    <2> HIDE DEF extra, low, left
    <2> QED
      BY <1>6, <2>1, <2>2, SumOfOnes
  <1>8. SumFunctionOnSet(paid, W) = SumFunctionOnSet(whole, W) + SumFunctionOnSet(extra, W)
    <2>1. \A u \in W : extra[u] \in Int /\ paid[u] = whole[u] + extra[u]
      OBVIOUS
    <2> HIDE DEF extra, paid, whole, First, before, left, low
    <2>2. AddsUp(W, whole, extra, paid)
      BY <1>2, <2>1 DEF AddsUp
    <2> QED
      BY <2>2, SumOfSums
  <1>9. DOMAIN paid = W /\ \A u \in W : paid[u] \in Nat
    <2>1. \A u \in W : extra[u] \in Nat /\ paid[u] = whole[u] + extra[u]
      OBVIOUS
    <2>2. DOMAIN paid = W
      OBVIOUS
    <2> HIDE DEF extra, paid, whole
    <2> QED
      BY <1>2, <2>1, <2>2
  <1>10. SumFunction(whole) = SumFunctionOnSet(whole, W)
    BY DEF SumFunction
  <1>11. SumFunction(paid) = SumFunctionOnSet(paid, W)
    BY <1>9 DEF SumFunction
  <1>12. SumFunction(paid) = pool
    <2>1. left = pool - SumFunction(whole)
      OBVIOUS
    <2> HIDE DEF left, paid, whole, extra
    <2> QED
      BY <1>3, <1>7, <1>8, <1>10, <1>11, <2>1
  <1>13. ASSUME NEW u \in low
         PROVE  u \in Broken(share)
    <2> SUFFICES ASSUME u \notin Broken(share)
                 PROVE  FALSE
      OBVIOUS
    <2>1. share[u] \in Share /\ Remainder(share[u]) = 0
      BY ShareType DEF Broken
    <2>2. Broken(share) \subseteq Ahead(W, before, u)
      <3> SUFFICES ASSUME NEW v \in Broken(share)
                   PROVE  v \in Ahead(W, before, u)
        OBVIOUS
      <3> DEFINE d == share[u].divisor
                 e == share[v].divisor
                 s == Remainder(share[v])
      <3>1. v \in W /\ s > 0 /\ share[v] \in Share
        BY DEF Broken
      <3>2. s \in Nat /\ d \in Nat \ {0} /\ e \in Nat \ {0}
        BY <2>1, <3>1, ShareType
      <3>3. MoreLeft(share[v], share[u]) <=> s * d > 0 * e
        BY <2>1 DEF MoreLeft, Remainder
      <3> HIDE DEF d, e, s
      <3>4. s * d > 0 * e
        BY <3>1, <3>2, Scaling
      <3>5. First(v, u)
        BY <3>3, <3>4
      <3> HIDE DEF First
      <3> QED
        BY <3>1, <3>5 DEF Ahead
    <2> HIDE DEF before
    <2>3. IsFiniteSet(Ahead(W, before, u)) /\ Cardinality(Ahead(W, before, u)) \in Nat
      <3>1. Ahead(W, before, u) \subseteq W
        BY DEF Ahead
      <3> QED
        BY <3>1, FS_Subset, FS_CardinalityType
    <2>4. Cardinality(Broken(share)) <= Cardinality(Ahead(W, before, u))
      BY <2>2, <2>3, FS_Subset
    <2>5. Cardinality(Ahead(W, before, u)) < left
      OBVIOUS
    <2>6. Cardinality(Broken(share)) \in Nat /\ left \in Int
      BY <1>4, <1>b, FS_Subset, FS_CardinalityType
    <2> HIDE DEF left
    <2> QED
      BY <1>4, <2>3, <2>4, <2>5, <2>6
  <1>14. ASSUME NEW u \in W
         PROVE  \/ paid[u] = Whole(share[u])
                \/ paid[u] = Whole(share[u]) + 1 /\ u \in low
    <2>1. whole[u] = Whole(share[u]) /\ whole[u] \in Nat
      BY <1>2
    <2> HIDE DEF low
    <2> QED
      BY <2>1
  <1>15. ASSUME NEW u \in W, NEW v \in W, Larger(share[u], share[v])
         PROVE  paid[u] >= paid[v]
    <2> DEFINE x == Whole(share[u])
               y == Whole(share[v])
    <2>1. share[u] \in Share /\ share[v] \in Share
      OBVIOUS
    <2>2. x \in Nat /\ y \in Nat
      BY <2>1, ShareType
    <2>3. CASE x > y
      <3>1. paid[u] \in {x, x + 1} /\ paid[v] \in {y, y + 1}
        BY <1>14
      <3> HIDE DEF x, y, paid
      <3> QED
        BY <2>2, <2>3, <3>1
    <2>4. CASE x = y /\ MoreLeft(share[u], share[v])
      <3>1. <<u, v>> \in before
        BY <2>4
      <3>2. /\ Cardinality(Ahead(W, before, u)) < Cardinality(Ahead(W, before, v))
            /\ Cardinality(Ahead(W, before, u)) \in Nat
            /\ Cardinality(Ahead(W, before, v)) \in Nat
        <4> HIDE DEF before
        <4> QED
          BY <1>5, <3>1, AheadGrows DEF Chain
      <3>3. v \in low => u \in low
        <4>1. left \in Int
          BY <1>4
        <4> HIDE DEF left, before
        <4> QED
          BY <3>2, <4>1
      <3>4. paid[u] = x + extra[u] /\ paid[v] = y + extra[v]
        OBVIOUS
      <3>5. extra[u] >= extra[v] /\ extra[u] \in Nat /\ extra[v] \in Nat
        <4> HIDE DEF low
        <4> QED
          BY <3>3
      <3> HIDE DEF paid, extra, x, y
      <3> QED
        BY <2>2, <2>4, <3>4, <3>5
    <2> QED
      BY <1>15, <2>1, <2>3, <2>4, LargerShare
  <1> HIDE DEF paid, low
  <1> QED
    BY <1>1, <1>9, <1>12, <1>13, <1>14, <1>15

\* The percentages of a group of tied players are the same for each of them.
LEMMA GroupsShare ==
    ASSUME NEW S, IsFiniteSet(S), NEW position \in [S -> Nat], NEW percentage \in Seq(Nat)
    PROVE  /\ \A u \in S : GroupPercentage(u, position, percentage) \in Nat
           /\ \A u, v \in S : position[u] = position[v] =>
                GroupPercentage(u, position, percentage) = GroupPercentage(v, position, percentage)
  <1>1. ASSUME NEW u \in S
        PROVE  GroupPercentage(u, position, percentage) \in Nat
    <2> DEFINE last == position[u] + Cardinality(Tied(u, position)) - 1
               places == DOMAIN percentage \cap (position[u] .. last)
    <2>1. places \subseteq 1..Len(percentage) /\ Len(percentage) \in Nat
      OBVIOUS
    <2>2. \A i \in places : percentage[i] \in Nat
      OBVIOUS
    <2>3. GroupPercentage(u, position, percentage) = SumFunctionOnSet(percentage, places)
      BY DEF GroupPercentage
    <2> HIDE DEF places
    <2>4. IsFiniteSet(places)
      <3>1. IsFiniteSet(1..Len(percentage))
        BY <2>1, FS_Interval
      <3> QED
        BY <2>1, <3>1, FS_Subset
    <2> QED
      BY <2>2, <2>3, <2>4, SumOfNaturals
  <1>2. \A u, v \in S : position[u] = position[v] => Tied(u, position) = Tied(v, position)
    BY DEF Tied
  <1> QED
    BY <1>1, <1>2 DEF GroupPercentage

\* Rounding the shares of all the winners down leaves a coin at most for each that is not
\* whole.
LEMMA SharesFit ==
    ASSUME NEW S, IsFiniteSet(S), NEW position \in [S -> Nat], NEW percentage \in Seq(Nat),
           NEW pool \in Nat \ {0}, DOMAIN Weights(position, percentage) # {}
    PROVE  LET weight == Weights(position, percentage)
               share == Shares(pool, weight, position)
               whole == SumFunction([u \in DOMAIN weight |-> Whole(share[u])])
           IN  /\ share \in [DOMAIN weight -> Share]
               /\ whole <= pool /\ pool <= whole + Cardinality(Broken(share))
  <1> DEFINE G == [u \in S |-> GroupPercentage(u, position, percentage)]
             W == {u \in S : G[u] > 0}
             weight == [u \in W |-> [numerator |-> G[u], parts |-> Cardinality(Tied(u, position))]]
             groups == {position[u] : u \in W}
             ofGroup == [p \in groups |-> weight[CHOOSE u \in W : position[u] = p].numerator]
             sum == SumFunction(ofGroup)
             share == [u \in W |-> [dividend |-> pool * weight[u].numerator,
                                    divisor |-> weight[u].parts * sum]]
             whole == [u \in W |-> Whole(share[u])]
             M(p) == {u \in W : position[u] = p}
             some == [u \in W |-> IF u \in Broken(share) THEN 1 ELSE 0]
             n == [p \in groups |-> SumFunctionOnSet(some, M(p))]
             h == [p \in groups |-> SumFunctionOnSet(whole, M(p))]
  <1>1. Weights(position, percentage) = weight
    BY DEF Weights
  <1>2. Shares(pool, weight, position) = share
    BY DEF Shares
  <1>3. /\ \A u \in S : G[u] \in Nat
        /\ \A u, v \in S : position[u] = position[v] => G[u] = G[v]
    BY GroupsShare
  <1> HIDE DEF G
  <1>4. W \subseteq S /\ W # {}
    BY <1>1
  <1>5. IsFiniteSet(W)
    <2> HIDE DEF W
    <2> QED
      BY <1>4, FS_Subset
  <1>6. ASSUME NEW u \in W
        PROVE  /\ Tied(u, position) = M(position[u])
               /\ Cardinality(M(position[u])) \in Nat \ {0}
    <2>1. Tied(u, position) = M(position[u])
      BY <1>3 DEF Tied
    <2>2. M(position[u]) \subseteq W /\ u \in M(position[u])
      OBVIOUS
    <2> HIDE DEF M, W
    <2>3. IsFiniteSet(M(position[u])) /\ M(position[u]) # {}
      BY <1>5, <2>2, FS_Subset
    <2>4. Cardinality(M(position[u])) # 0
      BY <2>3, FS_EmptySet
    <2> QED
      BY <2>1, <2>3, <2>4, FS_CardinalityType
  <1>7. IsFiniteSet(groups) /\ groups # {}
    <2> DEFINE q == [u \in W |-> position[u]]
    <2>1. q \in [W -> groups] /\ \A p \in groups : \E u \in W : q[u] = p
      OBVIOUS
    <2>2. groups # {}
      BY <1>4
    <2> HIDE DEF q, groups, W
    <2>3. q \in Surjection(W, groups)
      BY <2>1 DEF Surjection
    <2> QED
      BY <1>5, <2>2, <2>3, FS_Surjection
  <1>8. ASSUME NEW u \in W
        PROVE  ofGroup[position[u]] = G[u] /\ G[u] \in Nat \ {0} /\ position[u] \in groups
    <2> DEFINE v == CHOOSE v \in W : position[v] = position[u]
    <2>1. v \in W /\ position[v] = position[u]
      OBVIOUS
    <2>2. ofGroup[position[u]] = weight[v].numerator
      OBVIOUS
    <2>3. G[v] = G[u] /\ G[u] \in Nat /\ G[u] > 0
      BY <1>3, <2>1
    <2> HIDE DEF v
    <2>4. weight[v].numerator = G[v]
      BY <2>1
    <2> QED
      BY <2>2, <2>3, <2>4
  <1>9. \A p \in groups : ofGroup[p] \in Nat \ {0}
    BY <1>8
  <1>10. sum = SumFunctionOnSet(ofGroup, groups) /\ sum \in Nat \ {0}
    <2>1. sum = SumFunctionOnSet(ofGroup, groups)
      BY DEF SumFunction
    <2> HIDE DEF W, weight, share, whole, M, n, h, ofGroup, groups, sum
    <2>2. SumFunctionOnSet(ofGroup, groups) \in Nat \ {0}
      BY <1>7, <1>9, SumIsPositive
    <2> QED
      BY <2>1, <2>2
  <1> HIDE DEF sum, ofGroup
  <1>11. ASSUME NEW u \in W
         PROVE  /\ share[u] = [dividend |-> pool * G[u],
                               divisor |-> Cardinality(M(position[u])) * sum]
                /\ share[u] \in Share
    <2>1. share[u] = [dividend |-> pool * G[u],
                      divisor |-> Cardinality(M(position[u])) * sum]
      BY <1>6
    <2>2. pool * G[u] \in Nat
      BY <1>8
    <2>3. Cardinality(M(position[u])) * sum \in Nat \ {0}
      <3> DEFINE c == Cardinality(M(position[u]))
      <3>1. c \in Nat \ {0}
        BY <1>6
      <3> HIDE DEF c
      <3>2. c * sum \in Nat /\ c * sum # 0
        BY <1>10, <3>1
      <3> QED
        BY <3>2 DEF c
    <2> HIDE DEF share, M
    <2> QED
      BY <2>1, <2>2, <2>3 DEF Share
  <1>12. ASSUME NEW u \in W
         PROVE  /\ whole[u] \in Nat /\ some[u] \in {0, 1}
                /\ (whole[u] * Cardinality(M(position[u]))) * sum <= pool * G[u]
                /\ pool * G[u] <= (whole[u] * Cardinality(M(position[u]))
                                   + some[u] * Cardinality(M(position[u]))) * sum
    <2> DEFINE c == Cardinality(M(position[u]))
               a == pool * G[u]
               x == a \div (c * sum)
               y == some[u]
    <2>1. c \in Nat \ {0} /\ a \in Nat /\ c * sum \in Nat \ {0}
      BY <1>6, <1>11 DEF Share
    <2>2. whole[u] = x
      BY <1>11 DEF Whole
    <2>b. y = IF a % (c * sum) > 0 THEN 1 ELSE 0
      <3>1. u \in Broken(share) <=> Remainder(share[u]) > 0
        BY DEF Broken
      <3>2. Remainder(share[u]) = a % (c * sum)
        BY <1>11 DEF Remainder
      <3> HIDE DEF share, c, a
      <3> QED
        BY <3>1, <3>2
    <2> HIDE DEF c, a
    <2>3. /\ x \in Nat /\ x * (c * sum) <= a /\ a < (x + 1) * (c * sum)
          /\ a % (c * sum) = 0 => a = x * (c * sum)
      <3> DEFINE k == c * sum
                 r == a % k
      <3>1. r \in Nat /\ a = x * k + r
        BY <2>1, Division
      <3>2. x \in Nat /\ x * k <= a /\ a < (x + 1) * k
        BY <2>1, Division
      <3>3. x * k \in Int
        BY <2>1, <3>2
      <3> HIDE DEF x, k, r
      <3>4. r = 0 => a = x * k
        BY <2>1, <3>1, <3>3
      <3> QED
        BY <3>2, <3>4 DEF k, r
    <2>c. a % (c * sum) \in Nat
      BY <2>1, Division
    <2> HIDE DEF x, whole
    <2>a. x \in Int /\ c \in Int /\ sum \in Int
      BY <1>10, <2>1, <2>3
    <2>4. x * (c * sum) = (x * c) * sum /\ (x + 1) * (c * sum) = (x * c + c) * sum
      BY <2>a, ProductsOfThree
    <2> HIDE DEF y
    <2>5. a <= (x * c + y * c) * sum
      <3>1. CASE y = 1
        <4>1. y * c = c
          BY <2>a, <3>1
        <4>2. (x * c + c) * sum \in Int
          BY <2>a
        <4> QED
          BY <2>1, <2>3, <2>4, <4>1, <4>2
      <3>2. CASE y = 0
        <4>1. y * c = 0 /\ x * c + 0 = x * c
          BY <2>a, <3>2
        <4>2. a = (x * c) * sum
          BY <2>3, <2>4, <2>b, <2>c, <3>2
        <4> QED
          BY <2>1, <4>1, <4>2
      <3> QED
        BY <2>b, <3>1, <3>2
    <2> QED
      BY <2>2, <2>3, <2>4, <2>5, <2>b DEF c, a, y
  <1>13. \A p \in groups : h[p] \in Int /\ n[p] \in Int /\ h[p] * sum <= pool * ofGroup[p]
                           /\ pool * ofGroup[p] <= (h[p] + n[p]) * sum
    <2> SUFFICES ASSUME NEW u \in W
                 PROVE  LET p == position[u]
                        IN  h[p] \in Int /\ n[p] \in Int /\ h[p] * sum <= pool * ofGroup[p]
                            /\ pool * ofGroup[p] <= (h[p] + n[p]) * sum
      OBVIOUS
    <2> DEFINE p == position[u]
               c == Cardinality(M(p))
    <2>1. IsFiniteSet(M(p)) /\ c \in Nat
      <3>1. M(p) \subseteq W
        OBVIOUS
      <3> HIDE DEF M, W
      <3> QED
        BY <1>5, <3>1, FS_Subset, FS_CardinalityType
    <2>2. \A v \in M(p) : whole[v] = whole[u] /\ some[v] = some[u]
      <3> SUFFICES ASSUME NEW v \in M(p)
                   PROVE  whole[v] = whole[u] /\ some[v] = some[u]
        OBVIOUS
      <3>1. v \in W /\ position[v] = p
        OBVIOUS
      <3>2. G[v] = G[u]
        BY <1>3, <3>1
      <3>3. share[v] = share[u]
        <4> HIDE DEF share, M
        <4> QED
          BY <1>11, <3>1, <3>2
      <3> QED
        BY <3>1, <3>3 DEF Broken
    <2>4. h[p] = SumFunctionOnSet(whole, M(p)) /\ n[p] = SumFunctionOnSet(some, M(p))
      OBVIOUS
    <2>5. whole[u] \in Nat /\ some[u] \in Int
      <3>1. whole[u] \in Nat /\ some[u] \in {0, 1}
        BY <1>12
      <3> HIDE DEF some, whole
      <3> QED
        BY <3>1
    <2>6. ofGroup[p] = G[u]
      BY <1>8
    <2>7. /\ (whole[u] * c) * sum <= pool * G[u]
          /\ pool * G[u] <= (whole[u] * c + some[u] * c) * sum
      BY <1>12
    <2> DEFINE x == whole[u]
               y == some[u]
    <2>8. x \in Nat /\ y \in Int /\ \A v \in M(p) : whole[v] = x /\ some[v] = y
      BY <2>2, <2>5
    <2> DEFINE m == M(p)
    <2> HIDE DEF x, y, whole, M, some, h, n, p, W, groups, G
    <2>9. /\ IsFiniteSet(m) /\ c = Cardinality(m) /\ x \in Int /\ y \in Int
          /\ h[p] = SumFunctionOnSet(whole, m) /\ n[p] = SumFunctionOnSet(some, m)
          /\ \A v \in m : whole[v] = x
          /\ \A v \in m : some[v] = y
      BY <2>1, <2>4, <2>8
    <2> HIDE DEF m, c
    <2>10. h[p] = c * x /\ n[p] = c * y
      <3>1. SumFunctionOnSet(whole, m) = Cardinality(m) * x
        BY <2>9, SumOfEqual
      <3>2. SumFunctionOnSet(some, m) = Cardinality(m) * y
        BY <2>9, SumOfEqual
      <3> QED
        BY <2>9, <3>1, <3>2
    <2>11. c * x = x * c /\ c * x \in Int /\ c * y = y * c /\ c * y \in Int
      BY <2>1, <2>8
    <2>12. h[p] \in Int /\ n[p] \in Int /\ h[p] = x * c /\ n[p] = y * c
      BY <2>1, <2>10, <2>11
    <2>13. h[p] * sum <= pool * ofGroup[p] /\ pool * ofGroup[p] <= (h[p] + n[p]) * sum
      BY <2>6, <2>7, <2>12 DEF x, y
    <2> QED
      BY <2>12, <2>13 DEF p
  <1> DEFINE H == SumFunctionOnSet(h, groups)
             N == SumFunctionOnSet(n, groups)
  <1> DEFINE group == [p \in groups |-> M(p)]
  <1>14. SumFunction(whole) = H
    <2>1. SumFunction(whole) = SumFunctionOnSet(whole, W)
      BY DEF SumFunction
    <2>2. Grouping(W, groups, position, group)
      BY DEF Grouping
    <2>3. GroupSums(whole, groups, group, h)
      BY DEF GroupSums
    <2> HIDE DEF whole, h, n, W, groups, group, M, weight, share, H, N
    <2>5. \A u \in W : whole[u] \in Int
      BY <1>12
    <2>6. SumFunctionOnSet(whole, W) = SumFunctionOnSet(h, groups)
      BY <1>5, <1>7, <2>2, <2>3, <2>5, SumByGroups
    <2> QED
      BY <2>1, <2>6 DEF H
  <1>15. Cardinality(Broken(share)) = N
    <2>1. \A u \in W : some[u] = IF u \in Broken(share) THEN 1 ELSE 0
      OBVIOUS
    <2>2. Grouping(W, groups, position, group)
      BY DEF Grouping
    <2>3. GroupSums(some, groups, group, n)
      BY DEF GroupSums
    <2>4. Broken(share) \in SUBSET W
      BY DEF Broken
    <2> HIDE DEF some, whole, h, n, W, groups, group, M, weight, share, H, N
    <2>5. SumFunctionOnSet(some, W) = Cardinality(Broken(share))
      BY <1>5, <2>1, <2>4, SumOfOnes
    <2>6. \A u \in W : some[u] \in Int
      BY <2>1
    <2>7. SumFunctionOnSet(some, W) = SumFunctionOnSet(n, groups)
      BY <1>5, <1>7, <2>2, <2>3, <2>6, SumByGroups
    <2> QED
      BY <2>5, <2>7 DEF N
  <1> HIDE DEF whole, some, h, n, M, W, weight, share
  <1>16. H \in Int /\ N \in Int
    BY <1>7, <1>13, SumType
  <1>17. sum * H <= pool * sum /\ pool * sum <= sum * (H + N)
    <2> DEFINE low == [p \in groups |-> sum * h[p]]
               mid == [p \in groups |-> pool * ofGroup[p]]
               both == [p \in groups |-> h[p] + n[p]]
               high == [p \in groups |-> sum * both[p]]
    <2>1. \A p \in groups : /\ low[p] = sum * h[p] /\ mid[p] = pool * ofGroup[p]
                            /\ both[p] = h[p] + n[p] /\ high[p] = sum * both[p]
      OBVIOUS
    <2>2. \A p \in groups : both[p] \in Int
      BY <1>13, <2>1
    <2> HIDE DEF low, mid, both, high, groups
    <2>3. \A p \in groups : low[p] \in Int /\ mid[p] \in Int /\ high[p] \in Int
                            /\ low[p] <= mid[p] /\ mid[p] <= high[p]
      <3> SUFFICES ASSUME NEW p \in groups
                   PROVE  low[p] \in Int /\ mid[p] \in Int /\ high[p] \in Int
                          /\ low[p] <= mid[p] /\ mid[p] <= high[p]
        OBVIOUS
      <3>a. h[p] \in Int /\ both[p] \in Int /\ ofGroup[p] \in Int /\ sum \in Int /\ pool \in Int
        BY <1>9, <1>10, <1>13, <2>2
      <3>b. low[p] = sum * h[p] /\ high[p] = sum * both[p] /\ mid[p] = pool * ofGroup[p]
        BY <2>1
      <3>1. low[p] = h[p] * sum /\ high[p] = (h[p] + n[p]) * sum
        BY <2>1, <3>a, <3>b, Products
      <3>c. sum * h[p] \in Int
        BY <3>a, Products
      <3>d. sum * both[p] \in Int
        BY <3>a, Products
      <3>e. pool * ofGroup[p] \in Int
        BY <3>a, Products
      <3>2. low[p] \in Int /\ mid[p] \in Int /\ high[p] \in Int
        BY <3>b, <3>c, <3>d, <3>e
      <3> QED
        BY <1>13, <2>1, <3>1, <3>2
    <2>4. SumFunctionOnSet(low, groups) = sum * H
      BY <1>7, <1>10, <1>13, <2>1, SumOfMultiples
    <2>5. SumFunctionOnSet(mid, groups) = pool * sum
      BY <1>7, <1>9, <1>10, <2>1, SumOfMultiples
    <2>6. SumFunctionOnSet(both, groups) = H + N
      BY <1>7, <1>13, <2>1, SumOfSums DEF AddsUp
    <2>7. SumFunctionOnSet(high, groups) = sum * SumFunctionOnSet(both, groups)
      BY <1>7, <1>10, <2>1, <2>2, SumOfMultiples
    <2>8. SumFunctionOnSet(low, groups) <= SumFunctionOnSet(mid, groups)
      BY <1>7, <2>3, SumIsMonotone
    <2>9. SumFunctionOnSet(mid, groups) <= SumFunctionOnSet(high, groups)
      BY <1>7, <2>3, SumIsMonotone
    <2> HIDE DEF H, N
    <2> QED
      BY <2>4, <2>5, <2>6, <2>7, <2>8, <2>9
  <1>18. H <= pool /\ pool <= H + N
    <2> HIDE DEF H, N
    <2>a. sum \in Int /\ H + N \in Int
      BY <1>10, <1>16
    <2>1. sum * H = H * sum /\ sum * (H + N) = (H + N) * sum /\ H + N \in Int
      BY <1>16, <2>a, Products
    <2>2. H * sum <= pool * sum /\ pool * sum <= (H + N) * sum
      BY <1>17, <2>1
    <2>3. H <= pool
      <3>1. H \in Int /\ pool \in Int /\ sum \in Nat \ {0}
        BY <1>10, <1>16
      <3> QED
        BY ZenonT(40), <2>2, <3>1, Scaling
    <2>4. pool <= H + N
      <3> DEFINE m == H + N
      <3>1. m \in Int /\ pool * sum <= m * sum
        BY <2>1, <2>2
      <3> HIDE DEF m
      <3>a. pool \in Int /\ sum \in Nat \ {0}
        BY <1>10
      <3>2. pool <= m
        BY ZenonT(40), <3>1, <3>a, Scaling
      <3> QED
        BY <3>2 DEF m
    <2> QED
      BY <2>3, <2>4
  <1>19. DOMAIN weight = W
    BY DEF weight
  <1>20. share \in [W -> Share]
    BY <1>11 DEF share
  <1>21. [u \in DOMAIN weight |-> Whole(share[u])] = whole
    BY <1>19 DEF whole
  <1> HIDE DEF H, N
  <1> QED
    BY <1>1, <1>2, <1>14, <1>15, <1>18, <1>19, <1>20, <1>21

\* A pool is paid out to the last coin as soon as somebody wins, and nothing otherwise.
LEMMA PayoutsAddUp ==
    ASSUME NEW S, IsFiniteSet(S), NEW position \in [S -> Nat], NEW percentage \in Seq(Nat),
           NEW pool \in Int, NEW order, \A u \in S : order[u] \in Int,
           \A u, v \in S : order[u] = order[v] => u = v
    PROVE  LET paid == Payouts(pool, percentage, position, order)
           IN  /\ DOMAIN paid \subseteq S
               /\ \A u \in DOMAIN paid : paid[u] \in Nat
               /\ SumFunction(paid) =
                    IF pool > 0 /\ \E u \in S : GroupPercentage(u, position, percentage) > 0
                    THEN pool ELSE 0
  <1> DEFINE paid == Payouts(pool, percentage, position, order)
             weight == Weights(position, percentage)
             W == DOMAIN weight
             share == Shares(pool, weight, position)
  <1>1. W = {u \in S : GroupPercentage(u, position, percentage) > 0}
    BY DEF Weights
  <1>2. IsFiniteSet(W) /\ W \subseteq S
    BY <1>1, FS_Subset
  <1>3. CASE pool <= 0
    <2>1. paid = [u \in {} |-> 0]
      BY <1>3 DEF Payouts
    <2>2. DOMAIN paid = {}
      BY <2>1
    <2>3. SumFunction(paid) = 0
      BY <2>2, SumOfNothing DEF SumFunction
    <2> HIDE DEF paid
    <2> QED
      BY <1>3, <2>2, <2>3 DEF paid
  <1>4. CASE pool > 0
    <2>1. paid = Allocate(pool, share, order)
      BY <1>4 DEF Payouts
    <2>2. CASE W = {}
      <3>1. DOMAIN share = {}
        BY <2>2 DEF Shares
      <3>2. DOMAIN paid = {}
        BY <2>1, <3>1 DEF Allocate
      <3>3. SumFunction(paid) = 0
        BY <3>2, SumOfNothing DEF SumFunction
      <3> HIDE DEF paid, W
      <3> QED
        BY <1>1, <2>2, <3>2, <3>3 DEF paid
    <2>3. CASE W # {}
      <3>1. pool \in Nat \ {0}
        BY <1>4
      <3> DEFINE floor == [u \in W |-> Whole(share[u])]
      <3>2. share \in [W -> Share] /\ SumFunction(floor) <= pool
            /\ pool <= SumFunction(floor) + Cardinality(Broken(share))
        BY <2>3, <3>1, SharesFit
      <3>4. SumFunction(floor) = SumFunctionOnSet(floor, W)
        BY DEF SumFunction
      <3>5. \A u \in W : floor[u] = Whole(share[u])
        OBVIOUS
      <3>6. (\A u \in W : order[u] \in Int) /\ (\A u, v \in W : order[u] = order[v] => u = v)
            /\ pool \in Nat /\ IsFiniteSet(W)
        BY <1>2, <3>1
      <3> HIDE DEF share, W, floor
      <3>3. /\ DOMAIN Allocate(pool, share, order) = W
            /\ \A u \in W : Allocate(pool, share, order)[u] \in Nat
            /\ SumFunction(Allocate(pool, share, order)) = pool
        BY <3>2, <3>4, <3>5, <3>6, AllocateAll
      <3> HIDE DEF paid
      <3> QED
        BY <1>1, <1>2, <1>4, <2>1, <2>3, <3>3 DEF paid
    <2> QED
      BY <2>2, <2>3
  <1> QED
    BY <1>3, <1>4

-----------------------------------------------------------------------------
(* WRITES OF THE MESA AND ITS PLAYERS                                       *)

\* What every write leaves behind.
Sane ==
    /\ mesa' \in MesaRow
    /\ participant' \in [Users -> Participation \cup {Null}]
    /\ DOMAIN wallet' = Users
    /\ EntriesAccounted'
    /\ mesa'.ref # Null => mesa'.closedAt # Null
    /\ StaysCaptured
    /\ Approved \subseteq Approved'

\* A row that may replace the Mesa: the same seats, the same close.
Replaces(m) ==
    /\ m \in MesaRow /\ m.seats = Cardinality(Approved)
    /\ m.ref # Null => m.closedAt # Null
    /\ mesa # NoMesa => m.ref = mesa.ref /\ m.closedAt = mesa.closedAt

LEMMA MesaReplaces ==
    ASSUME MesaInv, mesa \in MesaRow
    PROVE  Replaces(mesa)
  <1>1. mesa # NoMesa
    BY DEF NoMesa, MesaRow
  <1> QED
    BY <1>1 DEF Replaces, MesaInv, Seated, EntriesAccounted, ClosedWithReference

LEMMA ApprovedFinite == IsFiniteSet(Approved) /\ Cardinality(Approved) \in Nat
  <1>1. Approved \subseteq Users
    BY DEF Approved
  <1> QED
    BY <1>1, MesaAssumption, FS_Subset, FS_CardinalityType

\* The same players, with the same entries; only scores and places change.
SamePlayers ==
    \A u \in Users :
        IF participant[u] = Null THEN participant'[u] = Null
        ELSE /\ participant'[u] \in Participation
             /\ participant'[u].fee = participant[u].fee
             /\ participant'[u].invited = participant[u].invited
             /\ participant[u].base # Null => participant'[u].base = participant[u].base

LEMMA SamePlayersStay ==
    ASSUME MesaTyped, SamePlayers
    PROVE  /\ Approved' = Approved /\ Invitees' = Invitees
           /\ \A u \in Users : FeeOf(u)' = FeeOf(u)
  <1>1. \A u \in Users : participant[u] \in Participation \cup {Null}
    BY DEF MesaTyped
  <1>2. Null \notin Participation
    BY MesaAssumption
  <1>3. \A u \in Users : participant'[u] = Null <=> participant[u] = Null
    BY <1>1, <1>2 DEF SamePlayers
  <1>4. Approved' = Approved
    BY <1>3 DEF Approved
  <1>5. Invitees' = Invitees
    BY <1>3, <1>4 DEF Invitees, Approved, SamePlayers
  <1>6. \A u \in Users : FeeOf(u)' = FeeOf(u)
    BY <1>3 DEF FeeOf, SamePlayers
  <1> QED
    BY <1>4, <1>5, <1>6

\* A write that admits nobody keeps the accounts.
LEMMA SamePlayersSane ==
    ASSUME MesaInv, SamePlayers, NEW m, Replaces(m), mesa' = m,
           participant' \in [Users -> Participation \cup {Null}],
           DOMAIN wallet' = Users,
           \A u \in Users : wallet'[u].debited = wallet[u].debited
    PROVE  Sane /\ Invitees' = Invitees
  <1>1. /\ Approved' = Approved /\ Invitees' = Invitees
        /\ \A u \in Users : FeeOf(u)' = FeeOf(u)
    BY SamePlayersStay DEF MesaInv
  <1>2. EntriesAccounted'
    BY <1>1 DEF EntriesAccounted, Replaces, MesaInv, Seated
  <1>3. StaysCaptured
    <2>1. \A u \in Users : participant[u] # Null =>
            participant'[u] # Null
      BY <1>1 DEF Approved
    <2> QED
      BY <2>1 DEF StaysCaptured, SamePlayers, Replaces
  <1> QED
    BY <1>1, <1>2, <1>3 DEF Sane, Replaces

\* Counting an entry touches the seats and the coins of the row, nothing else.
RowCounting(m, seats, gross, fee, pool) ==
    [m EXCEPT !.seats = seats, !.gross = gross, !.fee = fee, !.pool = pool]

LEMMA CountedRow ==
    ASSUME NEW m \in MesaRow, NEW seats \in Nat, NEW gross \in Int, NEW fee \in Int,
           NEW pool \in Int
    PROVE  /\ RowCounting(m, seats, gross, fee, pool) \in MesaRow
           /\ RowCounting(m, seats, gross, fee, pool).seats = seats
           /\ RowCounting(m, seats, gross, fee, pool).ref = m.ref
           /\ RowCounting(m, seats, gross, fee, pool).closedAt = m.closedAt
  BY DEF MesaRow, RowCounting

\* An entry charges the new player, and nobody else, and takes one seat.
LEMMA EnterSane ==
    ASSUME MesaInv, NEW m, Replaces(m), NEW u \in Users, NEW t \in Term, NEW invited \in BOOLEAN,
           Enter(m, u, t, invited)
    PROVE  /\ Sane /\ participant[u] = Null
           /\ Invitees' = IF invited THEN Invitees \cup {u} ELSE Invitees
  <1> DEFINE entry == [fee |-> t.cost, invited |-> invited, base |-> Null, score |-> 0,
                       position |-> 0]
  <1>1. participant[u] = Null /\ participant' = [participant EXCEPT ![u] = entry]
    BY DEF Enter, IsNew
  <1>2. entry \in Participation /\ entry # Null
    <2>1. entry \in Participation
      BY DEF Participation, Term
    <2> QED
      BY <2>1, MesaAssumption
  <1>3. participant' \in [Users -> Participation \cup {Null}]
    BY <1>1, <1>2 DEF MesaInv, MesaTyped
  <1>4. participant'[u] = entry /\ \A v \in Users \ {u} : participant'[v] = participant[v]
    BY <1>1 DEF MesaInv, MesaTyped
  <1>5. Approved' = Approved \cup {u} /\ u \notin Approved
    BY <1>1, <1>2, <1>4 DEF Approved
  <1>6. Invitees' = IF invited THEN Invitees \cup {u} ELSE Invitees
    <2>1. participant'[u].invited = invited
      BY <1>4
    <2> HIDE DEF entry
    <2> QED
      BY <1>4, <1>5, <2>1 DEF Invitees, Approved
  <1>7. mesa' \in MesaRow /\ mesa'.seats = m.seats + 1
        /\ (m.closedAt # Null => mesa'.ref = m.ref /\ mesa'.closedAt = m.closedAt)
        /\ (mesa'.ref # Null => mesa'.closedAt # Null)
    <2> DEFINE gross == m.gross + t.cost
               fee == IF HasPaidEntry(t) THEN PlatformFee(gross) ELSE m.fee
               pool == IF HasPaidEntry(t) THEN Reward(gross, t) ELSE m.pool
               counted == RowCounting(m, m.seats + 1, gross, fee, pool)
               open == CHOOSE r \in OpenRounds : TRUE
    <2>1. gross \in Int
      BY DEF Replaces, MesaRow, Term
    <2>2. PlatformFee(gross) \in Int /\ Reward(gross, t) \in Int
      BY <2>1, MoneyType
    <2>4. mesa' = IF Fills(m, t) THEN [counted EXCEPT !.closedAt = now, !.ref = open]
                  ELSE counted
      BY DEF Enter, RowCounting
    <2>8. fee \in Int /\ pool \in Int
      BY <2>2 DEF Replaces, MesaRow
    <2> HIDE DEF gross, fee, pool
    <2>3. counted \in MesaRow /\ counted.seats = m.seats + 1
          /\ counted.ref = m.ref /\ counted.closedAt = m.closedAt
      <3>1. m \in MesaRow /\ m.seats + 1 \in Nat
        BY DEF Replaces, MesaRow
      <3> QED
        BY <2>1, <2>8, <3>1, CountedRow
    <2>5. now \in Nat /\ now # Null
      BY MesaAssumption DEF MesaInv, SeasonTyped
    <2> HIDE DEF counted
    <2>6. CASE Fills(m, t)
      <3>1. open \in Rounds
        BY <2>6 DEF Enter, OpenRounds
      <3>2. m.closedAt = Null
        BY <2>6 DEF Fills
      <3> HIDE DEF open
      <3>3. mesa' = [counted EXCEPT !.closedAt = now, !.ref = open]
        BY <2>4, <2>6
      <3>4. mesa' \in MesaRow /\ mesa'.seats = counted.seats /\ mesa'.closedAt = now
        BY <2>3, <2>5, <3>1, <3>3 DEF MesaRow
      <3> QED
        BY <2>3, <2>5, <3>2, <3>4
    <2>7. CASE ~Fills(m, t)
      BY <2>3, <2>4, <2>7 DEF Replaces
    <2> QED
      BY <2>6, <2>7
  <1>8. mesa'.seats = Cardinality(Approved')
    <2>1. Cardinality(Approved \cup {u}) = Cardinality(Approved) + 1
      BY <1>5, ApprovedFinite, FS_AddElement
    <2> QED
      BY <1>5, <1>7, <2>1 DEF Replaces
  <1>9. /\ DOMAIN wallet' = Users
        /\ wallet'[u].debited = t.cost
        /\ \A v \in Users \ {u} : wallet'[v].debited = wallet[v].debited
    <2>1. DOMAIN wallet = Users /\ wallet[u].debited = 0 /\ t.cost \in Nat
      BY <1>1 DEF MesaInv, MesaTyped, Seated, EntriesAccounted, FeeOf, Term
    <2>2. CASE HasPaidEntry(t)
      <3>1. wallet' = [wallet EXCEPT ![u] = Debit(wallet[u], t.cost)]
        BY <2>2 DEF Enter
      <3>2. Debit(wallet[u], t.cost).debited = t.cost
        BY <2>1 DEF Debit
      <3> QED
        BY <2>1, <3>1, <3>2
    <2>3. CASE ~HasPaidEntry(t)
      <3>1. wallet' = wallet
        BY <2>3 DEF Enter
      <3>2. t.cost = 0
        BY <2>1, <2>3 DEF HasPaidEntry
      <3> QED
        BY <2>1, <3>1, <3>2
    <2> QED
      BY <2>2, <2>3
  <1>10. \A v \in Users : wallet'[v].debited = FeeOf(v)'
    <2>1. FeeOf(u)' = t.cost
      BY <1>2, <1>4 DEF FeeOf
    <2>2. \A v \in Users \ {u} : FeeOf(v)' = FeeOf(v)
      BY <1>4 DEF FeeOf
    <2> QED
      BY <1>9, <2>1, <2>2 DEF MesaInv, Seated, EntriesAccounted
  <1>11. StaysCaptured
    <2>1. \A v \in Users : participant[v] # Null => participant'[v] = participant[v]
      BY <1>1, <1>4
    <2>2. mesa # NoMesa /\ mesa.ref # Null => mesa'.ref = mesa.ref /\ mesa'.closedAt = mesa.closedAt
      BY <1>7 DEF Replaces
    <2> QED
      BY <2>1, <2>2 DEF StaysCaptured
  <1> QED
    BY <1>1, <1>3, <1>5, <1>6, <1>7, <1>8, <1>9, <1>10, <1>11 DEF Sane, EntriesAccounted

\* A row with the seats and the close of another one.
Alike(a, b) == a \in MesaRow /\ a.seats = b.seats /\ a.ref = b.ref /\ a.closedAt = b.closedAt

LEMMA AlikeReplaces ==
    ASSUME NEW a, NEW b, Alike(a, b), Replaces(b)
    PROVE  Replaces(a)
  BY DEF Alike, Replaces

LEMMA StatusAlike ==
    ASSUME NEW m \in MesaRow
    PROVE  Alike([m EXCEPT !.status = "ACTIVE", !.publishAt = Null], m)
  BY DEF Alike, MesaRow

LEMMA ScheduleAlike ==
    ASSUME NEW m \in MesaRow, NEW at \in Nat \cup {Null}
    PROVE  Alike([m EXCEPT !.publishAt = at], m)
  BY DEF Alike, MesaRow

LEMMA TermsAlike ==
    ASSUME NEW m \in MesaRow, NEW t \in Term
    PROVE  Alike([m EXCEPT !.terms = t, !.end = t.end], m)
  <1>1. t.end \in Nat \cup {Null}
    BY DEF Term
  <1> QED
    BY <1>1 DEF Alike, MesaRow

Priced(m, gross, fee, pool) == [m EXCEPT !.gross = gross, !.fee = fee, !.pool = pool]

LEMMA PricedAlike ==
    ASSUME NEW m \in MesaRow, NEW gross \in Int, NEW fee \in Int, NEW pool \in Int
    PROVE  Alike(Priced(m, gross, fee, pool), m)
  BY DEF Alike, MesaRow, Priced

LEMMA SettledAlike ==
    ASSUME NEW m \in MesaRow, NEW fee \in Int, NEW pool \in Int
    PROVE  Alike([m EXCEPT !.settled = TRUE, !.status = "CLOSED", !.fee = fee, !.pool = pool], m)
  BY DEF Alike, MesaRow

\* Publishing lets the creator in at most; saving does that or keeps the players.
LEMMA PublishSane ==
    ASSUME MesaInv, NEW m, Replaces(m), PublishRow(m)
    PROVE  Sane /\ Invitees' = Invitees
  <1> DEFINE active == [m EXCEPT !.status = "ACTIVE", !.publishAt = Null]
  <1>1. m \in MesaRow
    BY DEF Replaces
  <1>2. Replaces(active)
    BY <1>1, StatusAlike, AlikeReplaces
  <1> HIDE DEF active
  <1>3. CASE m.byAdmin
    <2>1. mesa' = active /\ participant' = participant /\ wallet' = wallet
      BY <1>3 DEF PublishRow, active
    <2>2. SamePlayers /\ participant' \in [Users -> Participation \cup {Null}]
          /\ DOMAIN wallet' = Users
      BY <2>1 DEF SamePlayers, MesaInv, MesaTyped
    <2> QED
      BY <1>2, <2>1, <2>2, SamePlayersSane
  <1>4. CASE ~m.byAdmin
    <2>1. Enter(active, Creator, m.terms, FALSE)
      BY <1>4 DEF PublishRow, active
    <2>2. Creator \in Users /\ m.terms \in Term
      BY <1>1, MesaAssumption DEF MesaRow
    <2> QED
      BY <1>2, <2>1, <2>2, EnterSane
  <1> QED
    BY <1>3, <1>4

LEMMA SaveSane ==
    ASSUME MesaInv, NEW m, Replaces(m), NEW mode \in {"KEEP", "DRAFT", "AT_START", "NOW"},
           Save(m, mode)
    PROVE  Sane /\ Invitees' = Invitees
  <1>1. CASE mode = "NOW"
    BY <1>1, PublishSane DEF Save
  <1>2. CASE mode # "NOW"
    <2>1. m \in MesaRow
      BY DEF Replaces
    <2>2. participant' = participant /\ wallet' = wallet
      BY <1>2 DEF Save
    <2>3. Replaces(mesa')
      <3>1. CASE mode = "AT_START"
        <4>1. mesa' = [m EXCEPT !.publishAt = m.terms.start]
          BY <3>1 DEF Save
        <4>2. m.terms.start \in Nat
          BY <2>1 DEF MesaRow, Term
        <4> QED
          BY <2>1, <4>1, <4>2, ScheduleAlike, AlikeReplaces
      <3>2. CASE mode = "DRAFT"
        <4>1. mesa' = [m EXCEPT !.publishAt = Null]
          BY <3>2 DEF Save
        <4> QED
          BY <2>1, <4>1, ScheduleAlike, AlikeReplaces
      <3>3. CASE mode = "KEEP"
        BY <3>3 DEF Save
      <3> QED
        BY <1>2, <3>1, <3>2, <3>3
    <2>4. SamePlayers /\ participant' \in [Users -> Participation \cup {Null}]
          /\ DOMAIN wallet' = Users
      BY <2>2 DEF SamePlayers, MesaInv, MesaTyped
    <2> QED
      BY <2>2, <2>3, <2>4, SamePlayersSane
  <1> QED
    BY <1>1, <1>2

\* Written rows keep the players: only the players who take part have one.
LEMMA WriteRowsSane ==
    ASSUME MesaInv, NEW q \in Pool, request[q] \in Pass, request[q].rows # Null,
           WriteRows(request[q].rows)
    PROVE  SamePlayers /\ participant' \in [Users -> Participation \cup {Null}]
  <1> DEFINE rows == request[q].rows
             New(u) == IF u \in DOMAIN rows
                       THEN [participant[u] EXCEPT !.score = rows[u].score,
                                                   !.position = rows[u].position]
                       ELSE participant[u]
  <1>1. PICK S \in SUBSET Users : rows \in [S -> Row]
    BY DEF Pass, Table
  <1>2. DOMAIN rows \subseteq Approved
    BY DEF MesaInv, RequestsTyped
  <1>3. participant' = [u \in Users |-> New(u)]
    BY DEF WriteRows
  <1> HIDE DEF rows
  <1>4. ASSUME NEW u \in Users
        PROVE  IF participant[u] = Null THEN New(u) = Null
               ELSE /\ New(u) \in Participation
                    /\ New(u).fee = participant[u].fee
                    /\ New(u).invited = participant[u].invited
                    /\ New(u).base = participant[u].base
    <2>1. participant[u] \in Participation \cup {Null}
      BY DEF MesaInv, MesaTyped
    <2>2. CASE u \in DOMAIN rows
      <3>1. rows[u].score \in Int /\ rows[u].position \in Nat
        BY <1>1, <2>2 DEF Row
      <3>2. participant[u] \in Participation
        BY <1>2, <2>1, <2>2 DEF Approved
      <3>3. ASSUME NEW p \in Participation, NEW score \in Int, NEW position \in Nat
            PROVE  LET new == [p EXCEPT !.score = score, !.position = position]
                   IN  /\ new \in Participation
                       /\ new.fee = p.fee /\ new.invited = p.invited /\ new.base = p.base
        BY DEF Participation
      <3>4. New(u) = [participant[u] EXCEPT !.score = rows[u].score,
                                            !.position = rows[u].position]
        BY <2>2
      <3>5. participant[u] # Null
        BY <3>2, MesaAssumption
      <3> QED
        BY ZenonT(40), <3>1, <3>2, <3>3, <3>4, <3>5
    <2>3. CASE u \notin DOMAIN rows
      BY <2>1, <2>3
    <2> QED
      BY <2>2, <2>3
  <1>5. \A u \in Users : New(u) \in Participation \cup {Null}
    BY <1>4
  <1> HIDE DEF New
  <1> QED
    BY <1>3, <1>4, <1>5 DEF SamePlayers

\* A capture gives a player without an initial score one, and changes nothing else.
LEMMA CaptureSane ==
    ASSUME MesaInv, Capture
    PROVE  SamePlayers /\ participant' \in [Users -> Participation \cup {Null}]
  <1> DEFINE New(u) == IF u \in Approved /\ participant[u].base = Null
                       THEN [participant[u] EXCEPT !.base = BaseOf(u)]
                       ELSE participant[u]
  <1>1. participant' = [u \in Users |-> New(u)]
    BY DEF Capture
  <1>2. mesa \in MesaRow
    BY DEF Capture, MesaInv, MesaTyped, NoMesa
  <1>3. mesa.ref \in Rounds
    BY <1>2 DEF Capture, MesaRow
  <1>4. 1..mesa.ref \subseteq Rounds
    BY <1>3, MesaAssumption DEF Rounds
  <1>5. ASSUME NEW u \in Users
        PROVE  IF participant[u] = Null THEN New(u) = Null
               ELSE /\ New(u) \in Participation
                    /\ New(u).fee = participant[u].fee
                    /\ New(u).invited = participant[u].invited
                    /\ participant[u].base # Null => New(u).base = participant[u].base
    <2>1. participant[u] \in Participation \cup {Null}
      BY DEF MesaInv, MesaTyped
    <2>2. LastTotal(u, 1..mesa.ref) \in Int \cup {Null}
      BY <1>4, LastTotalType DEF MesaInv
    <2>3. BaseOf(u) \in Int
      BY <2>2 DEF BaseOf, OrElse
    <2>4. ASSUME NEW p \in Participation
          PROVE  LET new == [p EXCEPT !.base = BaseOf(u)]
                 IN  new \in Participation /\ new.fee = p.fee /\ new.invited = p.invited
      BY <2>3 DEF Participation
    <2>5. CASE u \in Approved /\ participant[u].base = Null
      <3>1. participant[u] \in Participation /\ participant[u] # Null
        BY <2>1, <2>5 DEF Approved
      <3>2. New(u) = [participant[u] EXCEPT !.base = BaseOf(u)]
        BY <2>5
      <3> QED
        BY <2>4, <2>5, <3>1, <3>2
    <2>6. CASE ~(u \in Approved /\ participant[u].base = Null)
      BY <2>1, <2>6
    <2> QED
      BY <2>5, <2>6
  <1>6. \A u \in Users : New(u) \in Participation \cup {Null}
    BY <1>5
  <1> HIDE DEF New
  <1> QED
    BY <1>1, <1>5, <1>6 DEF SamePlayers

-----------------------------------------------------------------------------
(* WORK IN HAND                                                             *)

\* There is a Mesa as soon as there is work, or the Mesa has a status.
LEMMA MesaExists ==
    ASSUME MesaInv,
           \/ \E q \in Pool : request[q] # Idle
           \/ mesa # NoMesa
           \/ mesa.status \in {"DRAFT", "ACTIVE", "CLOSED"}
    PROVE  mesa \in MesaRow /\ mesa # NoMesa
  BY DEF MesaInv, MesaTyped, RequestsTyped, NoMesa

LEMMA WorkTyped ==
    ASSUME MesaInv, Approved \subseteq Approved', NEW q \in Pool, NEW w \in Work,
           request' = [request EXCEPT ![q] = w],
           w \in Pass /\ w.rows # Null => DOMAIN w.rows \subseteq Approved',
           mesa' # NoMesa
    PROVE  RequestsTyped'
  <1>1. request' \in [Pool -> Work] /\ \A p \in Pool \ {q} : request'[p] = request[p]
    BY DEF MesaInv, RequestsTyped
  <1>2. request'[q] = w
    BY DEF MesaInv, RequestsTyped
  <1>3. ASSUME NEW p \in Pool, request'[p] \in Pass, request'[p].rows # Null
        PROVE  DOMAIN request'[p].rows \subseteq Approved'
    <2>1. CASE p = q
      BY <1>2, <1>3, <2>1
    <2>2. CASE p # q
      <3>1. request'[p] = request[p]
        BY <1>1, <2>2
      <3> QED
        BY <1>3, <3>1 DEF MesaInv, RequestsTyped
    <2> QED
      BY <2>1, <2>2
  <1> QED
    BY <1>1, <1>3 DEF RequestsTyped

\* Work that does not hold the invite takes nothing from those that do.
LEMMA InviteStaysHeld ==
    ASSUME MesaInv, Invitees' = Invitees, invite' = invite,
           NEW q \in Pool, NEW w, ~(w \in Join /\ w.invited),
           request' = [request EXCEPT ![q] = w]
    PROVE  InviteHeld'
  <1>1. \A p \in Requests : ByInvite(p)' => ByInvite(p)
    <2> SUFFICES ASSUME NEW p \in Requests, ByInvite(p)'
                 PROVE  ByInvite(p)
      OBVIOUS
    <2>1. p \in Pool
      BY DEF Pool
    <2>2. request'[p] = IF p = q THEN w ELSE request[p]
      BY <2>1 DEF MesaInv, RequestsTyped
    <2> QED
      BY <2>2 DEF ByInvite
  <1>2. InviteUsesAccounted'
    BY DEF MesaInv, InviteHeld, InviteUsesAccounted, Invitees
  <1> QED
    BY <1>1, <1>2 DEF MesaInv, InviteHeld

LEMMA IdleIsNoEntry == Idle \in Work /\ Idle \notin Join /\ Idle \notin Pass
  BY DEF Idle, Work, Join, Pass

\* A request or a job begins, or goes on: nothing but its work changes.
LEMMA BeginStep ==
    ASSUME MesaInv, mesa # NoMesa, NEW q \in Pool, NEW w \in Work,
           request' = [request EXCEPT ![q] = w],
           w \in Pass /\ w.rows # Null => DOMAIN w.rows \subseteq Approved,
           ~(w \in Join /\ w.invited),
           UNCHANGED <<season, wallet, mesa, participant, invite>>
    PROVE  MesaInv' /\ StaysCaptured
  <1>1. Approved' = Approved /\ Invitees' = Invitees
    BY DEF Approved, Invitees
  <1>2. RequestsTyped'
    BY <1>1, WorkTyped
  <1>3. InviteHeld'
    BY <1>1, InviteStaysHeld
  <1>4. SeasonTyped' /\ MesaTyped'
    BY DEF MesaInv, season, SeasonTyped, MesaTyped
  <1>5. Seated' /\ ClosedWithReference'
    BY <1>1 DEF MesaInv, Seated, EntriesAccounted, FeeOf, ClosedWithReference
  <1>6. StaysCaptured
    BY DEF StaysCaptured
  <1> QED
    BY <1>2, <1>3, <1>4, <1>5, <1>6 DEF MesaInv

\* A write that is sane, and that ends the work it came from, if any.
LEMMA WriteStep ==
    ASSUME MesaInv, Sane, Invitees' = Invitees, UNCHANGED <<season, invite>>,
           \/ request' = request
           \/ \E q \in Pool : request' = [request EXCEPT ![q] = Idle]
    PROVE  MesaInv' /\ StaysCaptured
  <1>1. mesa' # NoMesa
    BY DEF Sane, MesaRow, NoMesa
  <1>2. RequestsTyped' /\ InviteHeld'
    <2>1. CASE request' = request
      <3>1. RequestsTyped'
        BY <1>1, <2>1 DEF MesaInv, RequestsTyped, Sane
      <3>2. InviteHeld'
        BY <2>1 DEF MesaInv, InviteHeld, InviteUsesAccounted, Invitees, ByInvite
      <3> QED
        BY <3>1, <3>2
    <2>2. CASE \E q \in Pool : request' = [request EXCEPT ![q] = Idle]
      BY <1>1, <2>2, IdleIsNoEntry, WorkTyped, InviteStaysHeld DEF Sane
    <2> QED
      BY <2>1, <2>2
  <1>3. SeasonTyped' /\ MesaTyped'
    BY DEF MesaInv, season, SeasonTyped, MesaTyped, Sane
  <1>4. Seated' /\ ClosedWithReference'
    BY <1>1 DEF Sane, Seated, ClosedWithReference
  <1> QED
    BY <1>2, <1>3, <1>4 DEF MesaInv, Sane

-----------------------------------------------------------------------------
(* THE STEPS                                                                *)

LEMMA InitHolds == Init => MesaInv
  <1> SUFFICES ASSUME Init
               PROVE  MesaInv
    OBVIOUS
  <1>1. SeasonTyped
    BY MesaAssumption DEF Init, SeasonTyped
  <1>2. MesaTyped
    BY DEF Init, MesaTyped
  <1>3. Approved = {} /\ Invitees = {}
    BY DEF Init, Approved, Invitees
  <1>4. RequestsTyped
    BY IdleIsNoEntry DEF Init, RequestsTyped, Pool
  <1>5. Seated
    BY <1>3 DEF Init, Seated, EntriesAccounted, FeeOf, Credit, EmptyWallet
  <1>6. ClosedWithReference
    BY DEF Init, ClosedWithReference
  <1>7. InviteHeld
    <2>1. \A q \in Requests : ~ByInvite(q)
      BY IdleIsNoEntry DEF Init, ByInvite
    <2> QED
      BY <1>3, <2>1 DEF Init, InviteHeld, InviteUsesAccounted
  <1> QED
    BY <1>1, <1>2, <1>4, <1>5, <1>6, <1>7 DEF MesaInv

\* Entries: what StartJoin read no longer matters when CommitJoin repeats it.
LEMMA StartJoinStep ==
    ASSUME MesaInv, NEW q \in Requests, NEW u \in Users, NEW invited \in BOOLEAN,
           StartJoin(q, u, invited)
    PROVE  MesaInv' /\ StaysCaptured
  <1> DEFINE w == [op |-> "join", user |-> u, terms |-> mesa.terms, invited |-> invited]
  <1>1. mesa \in MesaRow /\ mesa # NoMesa
    BY MesaExists DEF StartJoin, Accepts
  <1>2. w \in Join /\ w \in Work /\ w \notin Pass
    <2>1. mesa.terms \in Term
      BY <1>1 DEF MesaRow
    <2> QED
      BY <2>1 DEF Join, Work, Pass
  <1>3. q \in Pool /\ request' = [request EXCEPT ![q] = w] /\ request[q] = Idle
    BY DEF StartJoin, Begin, Pool
  <1>4. UNCHANGED <<season, wallet, mesa, participant, invite>>
    BY DEF StartJoin
  <1>5. CASE ~invited
    <2>1. ~w.invited
      BY <1>5
    <2> HIDE DEF w
    <2> QED
      BY <1>1, <1>2, <1>3, <1>4, <2>1, BeginStep
  <1>6. CASE invited
    <2> HIDE DEF w
    <2>1. Approved' = Approved /\ Invitees' = Invitees
      BY <1>4 DEF Approved, Invitees
    <2>2. RequestsTyped'
      BY <1>1, <1>2, <1>3, <1>4, <2>1, WorkTyped
    <2>3. SeasonTyped' /\ MesaTyped' /\ StaysCaptured
      BY <1>4 DEF MesaInv, season, SeasonTyped, MesaTyped, StaysCaptured
    <2>4. Seated' /\ ClosedWithReference'
      BY <1>4, <2>1 DEF MesaInv, Seated, EntriesAccounted, FeeOf, ClosedWithReference
    <2>5. InviteHeld'
      <3>1. invite # Null /\ invite.used < invite.max
        BY <1>6 DEF StartJoin, Usable
      <3>2. \A p \in Requests : ~ByInvite(p)
        BY <1>6 DEF StartJoin, InviteFree, ByInvite, Join
      <3>3. \A p \in Requests \ {q} : request'[p] = request[p]
        BY <1>3 DEF MesaInv, RequestsTyped, Pool
      <3>4. \A p \in Requests \ {q} : ~ByInvite(p)'
        BY <3>2, <3>3 DEF ByInvite
      <3>5. InviteUsesAccounted'
        BY <1>4, <2>1 DEF MesaInv, InviteHeld, InviteUsesAccounted, Invitees
      <3> QED
        BY <1>4, <2>1, <3>1, <3>4, <3>5 DEF MesaInv, InviteHeld
    <2> QED
      BY <2>2, <2>3, <2>4, <2>5 DEF MesaInv
  <1> QED
    BY <1>5, <1>6

LEMMA CommitJoinStep ==
    ASSUME MesaInv, NEW q \in Requests, CommitJoin(q)
    PROVE  MesaInv' /\ StaysCaptured
  <1> DEFINE u == request[q].user
             invited == request[q].invited
  <1>1. q \in Pool /\ request[q] \in Join
    BY DEF CommitJoin, Pool, MesaInv, RequestsTyped, Work, Idle, Edit, Closing, Finish, Pass
  <1>2. mesa \in MesaRow
    <2>1. request[q] # Idle
      BY <1>1, IdleIsNoEntry
    <2> QED
      BY <1>1, <2>1, MesaExists
  <1>3. u \in Users /\ request[q].terms \in Term /\ invited \in BOOLEAN
    BY <1>1 DEF Join
  <1>4. Enter(mesa, u, request[q].terms, invited) /\ UNCHANGED season
        /\ request' = [request EXCEPT ![q] = Idle]
    BY DEF CommitJoin, End, Continue
  <1>5. /\ Sane /\ participant[u] = Null
        /\ Invitees' = IF invited THEN Invitees \cup {u} ELSE Invitees
    BY <1>2, <1>3, <1>4, MesaReplaces, EnterSane
  <1>6. CASE ~invited
    <2>1. invite' = invite
      BY <1>6 DEF CommitJoin
    <2> QED
      BY <1>1, <1>4, <1>5, <1>6, <2>1, WriteStep
  <1>7. CASE invited
    <2>1. ByInvite(q) /\ invite # Null /\ invite.used < invite.max
      BY <1>1, <1>7 DEF MesaInv, InviteHeld, ByInvite
    <2>2. invite \in [max : Nat, used : Nat]
      BY <2>1 DEF MesaInv, MesaTyped
    <2>3. invite' = [invite EXCEPT !.used = @ + 1]
      BY <1>7 DEF CommitJoin
    <2>4. /\ invite' \in [max : Nat, used : Nat] /\ invite' # Null
          /\ invite'.used = invite.used + 1 /\ invite'.max = invite.max
      BY <2>2, <2>3, MesaAssumption
    <2>5. mesa' # NoMesa
      BY <1>5 DEF Sane, MesaRow, NoMesa
    <2>6. RequestsTyped'
      BY <1>1, <1>4, <1>5, <2>5, IdleIsNoEntry, WorkTyped DEF Sane
    <2>7. SeasonTyped' /\ MesaTyped' /\ Seated' /\ ClosedWithReference'
      BY <1>4, <1>5, <2>4, <2>5
         DEF MesaInv, season, SeasonTyped, MesaTyped, Sane, Seated, ClosedWithReference
    <2>8. InviteHeld'
      <3>1. \A p \in Requests \ {q} : request'[p] = request[p] /\ ~ByInvite(p)
        BY <1>4, <2>1 DEF MesaInv, RequestsTyped, InviteHeld, Pool
      <3>2. \A p \in Requests \ {q} : ~ByInvite(p)'
        BY <3>1 DEF ByInvite
      <3>3. ~ByInvite(q)'
        BY <1>1, <1>4, IdleIsNoEntry DEF ByInvite, MesaInv, RequestsTyped
      <3>4. InviteUsesAccounted'
        <4>1. invite.used = Cardinality(Invitees)
          BY <2>1 DEF MesaInv, InviteHeld, InviteUsesAccounted, Invitees
        <4>2. u \notin Invitees /\ Invitees \subseteq Approved
          BY <1>5 DEF Invitees, Approved
        <4>3. Cardinality(Invitees \cup {u}) = Cardinality(Invitees) + 1
          BY <4>2, ApprovedFinite, FS_Subset, FS_AddElement
        <4>4. invite'.used = Cardinality(Invitees')
          BY <1>5, <1>7, <2>4, <4>1, <4>3
        <4>5. invite'.used <= invite'.max
          BY <2>1, <2>2, <2>4
        <4> QED
          BY <4>4, <4>5 DEF InviteUsesAccounted, Invitees
      <3> QED
        BY <2>4, <3>2, <3>3, <3>4 DEF InviteHeld
    <2> QED
      BY <1>5, <2>6, <2>7, <2>8 DEF MesaInv, Sane
  <1> QED
    BY <1>3, <1>6, <1>7

LEMMA CreateInviteStep ==
    ASSUME MesaInv, NEW max \in InviteUses, CreateInvite(max)
    PROVE  MesaInv' /\ StaysCaptured
  <1>1. mesa # NoMesa
    BY MesaExists DEF CreateInvite
  <1>2. UNCHANGED <<season, wallet, mesa, participant, request>> /\ invite = Null
        /\ invite' = [max |-> max, used |-> 0]
    BY DEF CreateInvite
  <1>3. max \in Nat
    BY MesaAssumption
  <1>4. invite' \in [max : Nat, used : Nat] /\ invite' # Null
        /\ invite'.max = max /\ invite'.used = 0
    BY <1>2, <1>3, MesaAssumption
  <1>5. Approved' = Approved /\ Invitees' = Invitees /\ Invitees = {}
    BY <1>2 DEF Approved, Invitees, MesaInv, InviteHeld
  <1>6. SeasonTyped' /\ MesaTyped' /\ RequestsTyped' /\ StaysCaptured
    BY <1>2, <1>4, <1>5
       DEF MesaInv, season, SeasonTyped, MesaTyped, RequestsTyped, StaysCaptured
  <1>7. Seated' /\ ClosedWithReference'
    BY <1>1, <1>2, <1>5 DEF MesaInv, Seated, EntriesAccounted, FeeOf, ClosedWithReference
  <1>8. InviteHeld'
    <2>1. \A p \in Requests : ~ByInvite(p)'
      BY <1>2 DEF MesaInv, InviteHeld, ByInvite
    <2>2. Cardinality({}) = 0
      BY FS_EmptySet
    <2>3. InviteUsesAccounted'
      <3>1. invite'.used = Cardinality(Invitees')
        BY <1>4, <1>5, <2>2
      <3>2. invite'.used <= invite'.max
        BY <1>3, <1>4
      <3> QED
        BY <3>1, <3>2 DEF InviteUsesAccounted, Invitees
    <2> QED
      BY <1>4, <2>1, <2>3 DEF InviteHeld
  <1> QED
    BY <1>6, <1>7, <1>8 DEF MesaInv

LEMMA CreateStep ==
    ASSUME MesaInv, NEW t \in Terms, NEW admin \in BOOLEAN,
           NEW mode \in {"DRAFT", "AT_START", "NOW"}, Create(t, admin, mode)
    PROVE  MesaInv' /\ StaysCaptured
  <1> DEFINE m == [status |-> "DRAFT", terms |-> t, end |-> t.end, byAdmin |-> admin,
                   publishAt |-> Null, seats |-> 0, gross |-> 0, fee |-> 0, pool |-> Reward(0, t),
                   closedAt |-> Null, ref |-> Null, ready |-> FALSE, settled |-> FALSE]
  <1>1. t \in Term /\ t.end \in Nat \cup {Null}
    BY MesaAssumption DEF Term
  <1>2. Reward(0, t) \in Int
    BY <1>1, MoneyType
  <1>3. m \in MesaRow /\ m.seats = 0 /\ m.ref = Null
    BY <1>1, <1>2 DEF MesaRow
  <1>4. Save(m, mode) /\ mesa = NoMesa /\ UNCHANGED <<season, invite, request>>
    BY DEF Create
  <1> HIDE DEF m
  <1>5. Cardinality(Approved) = 0
    BY <1>4, FS_EmptySet DEF MesaInv, Seated
  <1>6. Replaces(m)
    BY <1>3, <1>4, <1>5 DEF Replaces
  <1>7. Sane /\ Invitees' = Invitees
    BY <1>4, <1>6, SaveSane
  <1> QED
    BY <1>4, <1>7, WriteStep

LEMMA PublishStep ==
    ASSUME MesaInv, Publish \/ PublishScheduled
    PROVE  MesaInv' /\ StaysCaptured
  <1>1. PublishRow(mesa) /\ UNCHANGED <<season, invite, request>> /\ mesa.status = "DRAFT"
    BY DEF Publish, PublishScheduled, Scheduled
  <1>2. Replaces(mesa)
    BY <1>1, MesaExists, MesaReplaces
  <1>3. Sane /\ Invitees' = Invitees
    BY <1>1, <1>2, PublishSane
  <1> QED
    BY <1>1, <1>3, WriteStep

LEMMA StartEditStep ==
    ASSUME MesaInv, NEW q \in Requests, NEW t \in NewTerms, NEW admin \in BOOLEAN,
           NEW mode \in {"KEEP", "DRAFT", "AT_START", "NOW"}, StartEdit(q, t, admin, mode)
    PROVE  MesaInv' /\ StaysCaptured
  <1> DEFINE w == [op |-> "edit", terms |-> t, mode |-> mode, status |-> mesa.status,
                   start |-> mesa.terms.start, reset |-> mesa.status = "DRAFT" \/ ~Locked]
  <1>1. mesa \in MesaRow /\ mesa # NoMesa
    BY MesaExists DEF StartEdit
  <1>2. w \in Edit /\ w \in Work /\ w \notin Pass /\ w \notin Join
    <2>1. mesa.status \in {"DRAFT", "ACTIVE", "CLOSED"} /\ mesa.terms.start \in Nat /\ t \in Term
      BY <1>1, MesaAssumption DEF MesaRow, Term
    <2>2. (mesa.status = "DRAFT" \/ ~Locked) \in BOOLEAN
      OBVIOUS
    <2>3. w \in Edit
      BY <2>1, <2>2 DEF Edit
    <2>4. w.op = "edit"
      OBVIOUS
    <2> HIDE DEF w
    <2> QED
      BY <2>3, <2>4 DEF Work, Pass, Join
  <1>3. q \in Pool /\ request' = [request EXCEPT ![q] = w]
    BY DEF StartEdit, Begin, Pool
  <1>4. UNCHANGED <<season, wallet, mesa, participant, invite>>
    BY DEF StartEdit
  <1> HIDE DEF w
  <1> QED
    BY <1>1, <1>2, <1>3, <1>4, BeginStep

LEMMA CommitEditStep ==
    ASSUME MesaInv, NEW q \in Requests, CommitEdit(q)
    PROVE  MesaInv' /\ StaysCaptured
  <1> DEFINE t == request[q].terms
             edited == [mesa EXCEPT !.terms = t, !.end = t.end]
             m == IF request[q].reset
                  THEN Priced(edited, 0, 0, Reward(0, t))
                  ELSE edited
  <1>1. q \in Pool /\ request[q] \in Edit
    BY DEF CommitEdit, Pool, MesaInv, RequestsTyped, Work, Idle, Join, Closing, Finish, Pass
  <1>2. t \in Term /\ request[q].mode \in {"KEEP", "DRAFT", "AT_START", "NOW"}
    BY <1>1 DEF Edit
  <1>3. mesa \in MesaRow
    <2>1. request[q] # Idle
      BY <1>1 DEF Edit, Idle
    <2> QED
      BY <1>1, <2>1, MesaExists
  <1>4. Save(m, request[q].mode) /\ UNCHANGED <<season, invite>>
        /\ request' = [request EXCEPT ![q] = Idle]
    BY DEF CommitEdit, End, Continue, Priced
  <1>5. Replaces(edited) /\ edited \in MesaRow
    BY <1>2, <1>3, MesaReplaces, TermsAlike, AlikeReplaces DEF Alike
  <1> HIDE DEF edited
  <1>6. Replaces(m)
    <2>1. Reward(0, t) \in Int
      BY <1>2, MoneyType
    <2>2. Alike(Priced(edited, 0, 0, Reward(0, t)), edited)
      BY <1>5, <2>1, PricedAlike
    <2> QED
      BY <1>5, <2>2, AlikeReplaces
  <1> HIDE DEF m
  <1>7. Sane /\ Invitees' = Invitees
    BY <1>2, <1>4, <1>6, SaveSane
  <1> QED
    BY <1>1, <1>4, <1>7, WriteStep

\* The jobs and requests that begin with what they read.
LEMMA StartJobStep ==
    ASSUME MesaInv, NEW q \in Pool,
           \/ StartUnschedule(q) \/ StartCloseRegistrations(q) \/ StartFinish(q)
           \/ StartRecalculation(q) \/ \E force \in BOOLEAN : StartClose(q, force)
    PROVE  MesaInv' /\ StaysCaptured
  <1>1. mesa.status \in {"DRAFT", "ACTIVE"} /\ UNCHANGED <<season, wallet, mesa, participant, invite>>
    BY DEF StartUnschedule, Scheduled, StartCloseRegistrations, StartFinish, StartRecalculation,
           StartClose
  <1>2. mesa \in MesaRow /\ mesa # NoMesa
    BY <1>1, MesaExists
  <1>3. \E w \in Work : /\ request' = [request EXCEPT ![q] = w]
                        /\ w \notin Join /\ (w \in Pass => w.rows = Null)
    <2>1. CASE StartUnschedule(q)
      <3> DEFINE w == [op |-> "unschedule"]
      <3>1. w \in Work /\ w \notin Join /\ w \notin Pass
        BY DEF Work, Join, Pass
      <3>2. request' = [request EXCEPT ![q] = w]
        BY <2>1 DEF StartUnschedule, Begin
      <3> QED
        BY <3>1, <3>2
    <2>2. CASE StartCloseRegistrations(q)
      <3> DEFINE ref == IF OpenRounds = {} THEN Null ELSE CHOOSE r \in OpenRounds : TRUE
                 w == [op |-> "registrations", at |-> mesa.terms.entryEnd, ref |-> ref]
      <3>1. mesa.terms.entryEnd \in Nat
        BY <1>2, <2>2 DEF StartCloseRegistrations, DateMode, MesaRow, Term
      <3>2. ref \in Rounds \cup {Null}
        BY DEF OpenRounds
      <3>3. request' = [request EXCEPT ![q] = w]
        BY <2>2 DEF StartCloseRegistrations, Begin
      <3> HIDE DEF ref
      <3>4. w \in Work /\ w \notin Join /\ w \notin Pass
        BY <3>1, <3>2 DEF Closing, Work, Join, Pass
      <3> QED
        BY <3>3, <3>4
    <2>3. CASE StartFinish(q)
      <3>1. PICK r \in RoundsAfter : Begin(q, [op |-> "finish", end |-> CloseAt[r]])
        BY <2>3 DEF StartFinish
      <3> DEFINE w == [op |-> "finish", end |-> CloseAt[r]]
      <3>2. CloseAt[r] \in Nat
        BY MesaAssumption DEF RoundsAfter
      <3>3. w \in Work /\ w \notin Join /\ w \notin Pass
        BY <3>2 DEF Finish, Work, Join, Pass
      <3> QED
        BY <3>1, <3>3 DEF Begin
    <2>4. CASE StartRecalculation(q)
      <3> DEFINE w == [op |-> "recalc", seen |-> mesa, rows |-> Null]
      <3>1. w \in Pass
        BY <1>2 DEF Pass
      <3>2. w \in Work /\ w \notin Join /\ w.rows = Null
        BY <3>1 DEF Work, Join
      <3> QED
        BY <2>4, <3>2 DEF StartRecalculation, Begin
    <2>5. CASE \E force \in BOOLEAN : StartClose(q, force)
      <3> DEFINE w == [op |-> "close", seen |-> mesa, rows |-> Null]
      <3>1. w \in Pass
        BY <1>2 DEF Pass
      <3>2. w \in Work /\ w \notin Join /\ w.rows = Null
        BY <3>1 DEF Work, Join
      <3> QED
        BY <2>5, <3>2 DEF StartClose, Begin
    <2> QED
      BY <2>1, <2>2, <2>3, <2>4, <2>5
  <1> QED
    BY <1>1, <1>2, <1>3, BeginStep

LEMMA BuildRowsStep ==
    ASSUME MesaInv, NEW q \in Pool, BuildRows(q)
    PROVE  MesaInv' /\ StaysCaptured
  <1> DEFINE rows == Rows(request[q].seen)
             w == [request[q] EXCEPT !.rows = rows]
  <1>1. request[q] \in Pass
    BY DEF BuildRows, MesaInv, RequestsTyped, Work, Idle, Join, Edit, Closing, Finish
  <1>2. mesa # NoMesa
    <2>1. request[q] # Idle
      BY <1>1, IdleIsNoEntry
    <2> QED
      BY <2>1, MesaExists
  <1>3. rows \in Table /\ DOMAIN rows = Approved
    <2>1. request[q].seen \in MesaRow
      BY <1>1 DEF Pass
    <2> QED
      BY <2>1, RowsType DEF MesaInv
  <1>4. request' = [request EXCEPT ![q] = w] /\ UNCHANGED <<season, wallet, mesa, participant, invite>>
    BY DEF BuildRows, Continue
  <1> HIDE DEF rows
  <1>5. w \in Pass /\ w.rows = rows
    BY <1>1, <1>3 DEF Pass
  <1>6. w \in Work /\ w \notin Join
    BY <1>5 DEF Work, Pass, Join
  <1> HIDE DEF w
  <1> QED
    BY <1>2, <1>3, <1>4, <1>5, <1>6, BeginStep

\* A job that writes the row of the Mesa only.
LEMMA RowStep ==
    ASSUME MesaInv, NEW q \in Pool, Replaces(mesa'), End(q),
           UNCHANGED <<season, wallet, participant, invite>>
    PROVE  MesaInv' /\ StaysCaptured
  <1>1. SamePlayers /\ participant' \in [Users -> Participation \cup {Null}]
        /\ DOMAIN wallet' = Users
    BY DEF SamePlayers, MesaInv, MesaTyped
  <1>2. \A u \in Users : wallet'[u].debited = wallet[u].debited
    OBVIOUS
  <1>3. Sane /\ Invitees' = Invitees
    BY <1>1, <1>2, SamePlayersSane
  <1> QED
    BY <1>3, WriteStep DEF End, Continue

LEMMA CommitUnscheduleStep ==
    ASSUME MesaInv, NEW q \in Pool, CommitUnschedule(q)
    PROVE  MesaInv' /\ StaysCaptured
  <1>1. mesa \in MesaRow /\ mesa' = [mesa EXCEPT !.publishAt = Null]
    BY MesaExists DEF CommitUnschedule
  <1>2. Replaces(mesa')
    BY <1>1, MesaReplaces, ScheduleAlike, AlikeReplaces
  <1> QED
    BY <1>2, RowStep DEF CommitUnschedule

LEMMA CommitFinishStep ==
    ASSUME MesaInv, NEW q \in Pool, CommitFinish(q)
    PROVE  MesaInv' /\ StaysCaptured
  <1>1. mesa \in MesaRow /\ mesa' = [mesa EXCEPT !.end = request[q].end]
    BY MesaExists DEF CommitFinish
  <1>2. request[q].end \in Nat
    BY DEF CommitFinish, MesaInv, RequestsTyped, Work, Idle, Join, Edit, Closing, Finish, Pass
  <1>3. Alike(mesa', mesa)
    BY <1>1, <1>2 DEF Alike, MesaRow
  <1>4. Replaces(mesa')
    BY <1>1, <1>3, MesaReplaces, AlikeReplaces
  <1> QED
    BY <1>4, RowStep DEF CommitFinish

\* Registrations close once: the update asks for a Mesa whose they are open.
LEMMA CommitCloseRegistrationsStep ==
    ASSUME MesaInv, NEW q \in Pool, CommitCloseRegistrations(q)
    PROVE  MesaInv' /\ StaysCaptured
  <1>1. mesa \in MesaRow /\ mesa # NoMesa
    BY MesaExists DEF CommitCloseRegistrations
  <1>2. request[q].at \in Nat /\ request[q].ref \in Rounds \cup {Null}
    BY DEF CommitCloseRegistrations, MesaInv, RequestsTyped, Work, Idle, Join, Edit, Closing,
           Finish, Pass
  <1>3. mesa' = [mesa EXCEPT !.closedAt = request[q].at, !.ref = request[q].ref]
        /\ mesa.closedAt = Null
    BY DEF CommitCloseRegistrations
  <1>4. mesa' \in MesaRow /\ mesa'.seats = mesa.seats /\ mesa'.closedAt = request[q].at
    BY <1>1, <1>2, <1>3 DEF MesaRow
  <1>5. mesa'.closedAt # Null /\ mesa' # NoMesa
    BY <1>2, <1>4, MesaAssumption DEF MesaRow, NoMesa
  <1>6. mesa.ref = Null
    BY <1>1, <1>3 DEF MesaInv, ClosedWithReference
  <1>7. UNCHANGED <<season, wallet, participant, invite>> /\ request' = [request EXCEPT ![q] = Idle]
    BY DEF CommitCloseRegistrations, End, Continue
  <1>8. Approved' = Approved /\ Invitees' = Invitees
    BY <1>7 DEF Approved, Invitees
  <1>9. EntriesAccounted' /\ StaysCaptured
    BY <1>1, <1>4, <1>6, <1>7, <1>8
       DEF MesaInv, Seated, EntriesAccounted, FeeOf, StaysCaptured
  <1>10. Sane
    BY <1>4, <1>5, <1>7, <1>8, <1>9 DEF Sane, MesaInv, MesaTyped
  <1> QED
    BY <1>7, <1>8, <1>10, WriteStep

LEMMA CaptureStep ==
    ASSUME MesaInv, Capture
    PROVE  MesaInv' /\ StaysCaptured
  <1>1. mesa \in MesaRow /\ mesa' = [mesa EXCEPT !.ready = TRUE]
    BY MesaExists DEF Capture
  <1>2. Alike(mesa', mesa)
    BY <1>1 DEF Alike, MesaRow
  <1>3. Replaces(mesa')
    BY <1>1, <1>2, MesaReplaces, AlikeReplaces
  <1>4. UNCHANGED <<season, wallet, invite, request>> /\ DOMAIN wallet' = Users
    BY DEF Capture, MesaInv, MesaTyped
  <1>5. \A u \in Users : wallet'[u].debited = wallet[u].debited
    BY <1>4
  <1>6. Sane /\ Invitees' = Invitees
    BY <1>3, <1>4, <1>5, CaptureSane, SamePlayersSane
  <1> QED
    BY <1>4, <1>6, WriteStep

LEMMA CommitRecalculationStep ==
    ASSUME MesaInv, NEW q \in Pool, CommitRecalculation(q)
    PROVE  MesaInv' /\ StaysCaptured
  <1>1. request[q] \in Pass /\ request[q].rows # Null /\ WriteRows(request[q].rows)
    BY DEF CommitRecalculation, MesaInv, RequestsTyped, Work, Idle, Join, Edit, Closing, Finish
  <1>2. UNCHANGED <<season, wallet, mesa, invite>> /\ request' = [request EXCEPT ![q] = Idle]
        /\ DOMAIN wallet' = Users
    BY DEF CommitRecalculation, End, Continue, MesaInv, MesaTyped
  <1>3. Replaces(mesa)
    <2>1. request[q] # Idle
      BY <1>1, IdleIsNoEntry
    <2> QED
      BY <2>1, MesaExists, MesaReplaces
  <1>4. \A u \in Users : wallet'[u].debited = wallet[u].debited
    BY <1>2
  <1>5. Sane /\ Invitees' = Invitees
    BY <1>1, <1>2, <1>3, <1>4, WriteRowsSane, SamePlayersSane
  <1> QED
    BY <1>2, <1>5, WriteStep

\* A settlement pays players, and debits nobody.
LEMMA CommitCloseStep ==
    ASSUME MesaInv, NEW q \in Pool, CommitClose(q)
    PROVE  MesaInv' /\ StaysCaptured
  <1> DEFINE seen == request[q].seen
             fee == PlatformFee(seen.gross)
             pool == Reward(seen.gross, seen.terms)
  <1>1. request[q] \in Pass /\ request[q].rows # Null /\ WriteRows(request[q].rows)
    BY DEF CommitClose, MesaInv, RequestsTyped, Work, Idle, Join, Edit, Closing, Finish
  <1>2. UNCHANGED <<season, invite>> /\ request' = [request EXCEPT ![q] = Idle]
    BY DEF CommitClose, End, Continue
  <1>3. mesa \in MesaRow
    <2>1. request[q] # Idle
      BY <1>1, IdleIsNoEntry
    <2> QED
      BY <2>1, MesaExists
  <1>4. mesa' = [mesa EXCEPT !.settled = TRUE, !.status = "CLOSED", !.fee = fee, !.pool = pool]
    BY DEF CommitClose
  <1>5. fee \in Int /\ pool \in Int
    <2>1. seen \in MesaRow
      BY <1>1 DEF Pass
    <2>2. seen.gross \in Int /\ seen.terms \in Term
      BY <2>1 DEF MesaRow
    <2> QED
      BY <2>2, MoneyType
  <1> HIDE DEF fee, pool
  <1>6. Replaces(mesa')
    <2>1. Alike(mesa', mesa)
      BY <1>3, <1>4, <1>5 DEF Alike, MesaRow
    <2> QED
      BY <1>3, <2>1, MesaReplaces, AlikeReplaces
  <1>7. DOMAIN wallet' = Users /\ \A u \in Users : wallet'[u].debited = wallet[u].debited
    <2>1. PICK prize : wallet' = [u \in Users |->
                IF u \in DOMAIN prize THEN Pay(wallet[u], prize[u]) ELSE wallet[u]]
      BY DEF CommitClose
    <2>2. \A u \in Users : Pay(wallet[u], prize[u]).debited = wallet[u].debited
      BY DEF Pay, Credit
    <2> QED
      BY <2>1, <2>2
  <1>8. Sane /\ Invitees' = Invitees
    BY <1>1, <1>6, <1>7, WriteRowsSane, SamePlayersSane
  <1> QED
    BY <1>2, <1>8, WriteStep

LEMMA RollBackStep ==
    ASSUME MesaInv, NEW q \in Pool, RollBack(q)
    PROVE  MesaInv' /\ StaysCaptured
  <1>1. mesa # NoMesa
    BY MesaExists DEF RollBack
  <1>2. request' = [request EXCEPT ![q] = Idle] /\ UNCHANGED <<season, wallet, mesa, participant, invite>>
    BY DEF RollBack, End, Continue
  <1> QED
    BY <1>1, <1>2, IdleIsNoEntry, BeginStep

\* The season moves the rounds, the clock, the histories and the subscriptions.
LEMMA SeasonStep ==
    ASSUME MesaInv, Season \/ UNCHANGED vars
    PROVE  MesaInv' /\ StaysCaptured
  <1>1. UNCHANGED <<wallet, mesa, participant, invite, request>>
    BY DEF Season, OpenRound, CloseRound, ScoreRound, CancelRound, Tick, LosePro, vars
  <1>2. SeasonTyped'
    <2>1. ASSUME NEW r \in Rounds, OpenRound(r) \/ CloseRound(r) \/ CancelRound(r)
          PROVE  SeasonTyped'
      BY <2>1 DEF OpenRound, CloseRound, CancelRound, MesaInv, SeasonTyped
    <2>2. ASSUME NEW r \in Rounds, ScoreRound(r)
          PROVE  SeasonTyped'
      <3>1. \A u \in Users : Points[u][r] \in Nat \cup {Null} /\ total[u] \in Int
        BY MesaAssumption DEF MesaInv, SeasonTyped
      <3>2. total' \in [Users -> Int]
        BY <2>2, <3>1 DEF ScoreRound, OrElse
      <3>3. history' \in [Users -> [Rounds -> Int \cup {Null}]]
        <4>1. \A u \in Users : Points[u][r] # Null => total[u] + Points[u][r] \in Int
          BY <3>1
        <4> QED
          BY <2>2, <4>1 DEF ScoreRound, MesaInv, SeasonTyped
      <3>4. round' \in [Rounds -> {"DRAFT", "OPEN", "CLOSED", "SCORED", "CANCELLED"}]
        BY <2>2 DEF ScoreRound, MesaInv, SeasonTyped
      <3> QED
        BY <2>2, <3>2, <3>3, <3>4 DEF ScoreRound, MesaInv, SeasonTyped
    <2>3. CASE Tick
      BY <2>3 DEF Tick, MesaInv, SeasonTyped
    <2>4. CASE (\E u \in Users : LosePro(u)) \/ UNCHANGED vars
      BY <2>4 DEF LosePro, vars, MesaInv, SeasonTyped
    <2> QED
      BY <2>1, <2>2, <2>3, <2>4 DEF Season
  <1>3. Approved' = Approved /\ Invitees' = Invitees
    BY <1>1 DEF Approved, Invitees
  <1>4. MesaTyped' /\ RequestsTyped' /\ Seated' /\ ClosedWithReference'
    BY <1>1, <1>3
       DEF MesaInv, MesaTyped, RequestsTyped, Seated, EntriesAccounted, FeeOf, ClosedWithReference
  <1>5. InviteHeld'
    BY <1>1, <1>3 DEF MesaInv, InviteHeld, InviteUsesAccounted, Invitees, ByInvite
  <1> QED
    BY <1>1, <1>2, <1>4, <1>5 DEF MesaInv, StaysCaptured

LEMMA NextHolds == MesaInv /\ [Next]_vars => MesaInv' /\ StaysCaptured
  <1> SUFFICES ASSUME MesaInv, [Next]_vars
               PROVE  MesaInv' /\ StaysCaptured
    OBVIOUS
  <1>1. CASE \E t \in Terms, admin \in BOOLEAN, mode \in {"DRAFT", "AT_START", "NOW"} :
               Create(t, admin, mode)
    BY <1>1, CreateStep
  <1>2. CASE Publish \/ PublishScheduled
    BY <1>2, PublishStep
  <1>3. CASE \E max \in InviteUses : CreateInvite(max)
    BY <1>3, CreateInviteStep
  <1>4. ASSUME NEW q \in Requests, Enrol(q)
        PROVE  MesaInv' /\ StaysCaptured
    BY <1>4, StartJoinStep, CommitJoinStep, StartEditStep, CommitEditStep DEF Enrol
  <1>5. ASSUME NEW q \in Requests, \E force \in BOOLEAN : StartClose(q, force)
        PROVE  MesaInv' /\ StaysCaptured
    BY <1>5, StartJobStep DEF Pool
  <1>6. ASSUME NEW q \in Jobs, StartJob(q) \/ StartRecalculation(q)
        PROVE  MesaInv' /\ StaysCaptured
    BY <1>6, StartJobStep DEF Pool, StartJob
  <1>7. ASSUME NEW q \in Jobs, CommitJob(q)
        PROVE  MesaInv' /\ StaysCaptured
    BY <1>7, CommitUnscheduleStep, CommitCloseRegistrationsStep, CommitFinishStep
       DEF Pool, CommitJob
  <1>8. ASSUME NEW q \in Jobs, CommitRecalculation(q)
        PROVE  MesaInv' /\ StaysCaptured
    BY <1>8, CommitRecalculationStep DEF Pool
  <1>9. ASSUME NEW q \in Pool, BuildRows(q) \/ CommitClose(q) \/ RollBack(q)
        PROVE  MesaInv' /\ StaysCaptured
    BY <1>9, BuildRowsStep, CommitCloseStep, RollBackStep
  <1>10. CASE Capture
    BY <1>10, CaptureStep
  <1>11. CASE Season \/ UNCHANGED vars
    BY <1>11, SeasonStep
  <1> QED
    BY <1>1, <1>2, <1>3, <1>4, <1>5, <1>6, <1>7, <1>8, <1>9, <1>10, <1>11 DEF Next, Pool

LEMMA Inductive == Spec => []MesaInv
  <1>1. MesaInv /\ [Next]_vars => MesaInv'
    BY NextHolds
  <1> QED
    BY InitHolds, <1>1, PTL DEF Spec

-----------------------------------------------------------------------------
(* PURSES                                                                   *)

\* A player's wallet is the one the ledger accounts for, and nobody is paid before
\* the Mesa is settled.
PurseInv ==
    /\ wallet \in [Users -> Account]
    /\ \A u \in Users : wallet[u].balance = wallet[u].credited - wallet[u].debited
    /\ mesa = NoMesa \/ ~mesa.settled => \A u \in Users : wallet[u].credited = Stake[u]

\* The order of the rows tells any two players apart.
LEMMA OrderOfRows ==
    ASSUME NEW S, S \subseteq Users, NEW position \in [S -> Nat]
    PROVE  /\ IsFiniteSet(S)
           /\ \A u \in S : RowOrder(position)[u] \in Int
           /\ \A u, v \in S : RowOrder(position)[u] = RowOrder(position)[v] => u = v
  <1> DEFINE ComesFirst(v, u) == position[v] < position[u] \/ (position[v] = position[u] /\ v < u)
             before == {p \in S \X S : ComesFirst(p[1], p[2])}
             order == RowOrder(position)
  <1>1. IsFiniteSet(S) /\ \A u \in S : u \in Nat /\ position[u] \in Nat
    BY MesaAssumption, FS_Subset
  <1>2. \A u, v \in S : <<v, u>> \in before <=> ComesFirst(v, u)
    OBVIOUS
  <1>3. \A u \in S : order[u] = Cardinality({v \in S : ComesFirst(v, u)})
    BY DEF RowOrder
  <1> HIDE DEF before, order
  <1>4. \A u \in S : order[u] = Cardinality(Ahead(S, before, u))
    BY <1>2, <1>3 DEF Ahead
  <1>5. StrictOrder(S, before)
    <2>1. \A u \in S : ~ComesFirst(u, u)
      BY <1>1
    <2>2. \A u, v, w \in S : ComesFirst(u, v) /\ ComesFirst(v, w) => ComesFirst(u, w)
      BY <1>1
    <2> HIDE DEF ComesFirst
    <2> QED
      BY <1>2, <2>1, <2>2 DEF StrictOrder
  <1>6. \A u, v \in S : u # v => ComesFirst(u, v) \/ ComesFirst(v, u)
    BY <1>1
  <1>7. ASSUME NEW u \in S, NEW v \in S, ComesFirst(u, v)
        PROVE  order[u] < order[v]
    <2>1. <<u, v>> \in before
      BY <1>2, <1>7
    <2> HIDE DEF ComesFirst
    <2> QED
      BY <1>1, <1>4, <1>5, <2>1, AheadGrows
  <1>8. \A u \in S : order[u] \in Int
    <2> SUFFICES ASSUME NEW u \in S PROVE order[u] \in Nat
      OBVIOUS
    <2>1. Ahead(S, before, u) \subseteq S
      BY DEF Ahead
    <2> QED
      BY <1>1, <1>4, <2>1, FS_Subset, FS_CardinalityType
  <1>9. \A u, v \in S : order[u] = order[v] => u = v
    <2> SUFFICES ASSUME NEW u \in S, NEW v \in S, u # v PROVE order[u] # order[v]
      OBVIOUS
    <2>1. order[u] < order[v] \/ order[v] < order[u]
      <3> HIDE DEF ComesFirst
      <3> QED
        BY <1>6, <1>7
    <2> QED
      BY <1>8, <2>1
  <1> QED
    BY <1>1, <1>8, <1>9 DEF order

Positions(rows) == [u \in DOMAIN rows |-> rows[u].position]

\* The prizes of a settlement add up to no more than the reward of the row it read;
\* to all of it in a paid Mesa with a winner.
LEMMA PrizesAddUp ==
    ASSUME NEW m \in MesaRow, NEW rows \in Table
    PROVE  LET prize == Prize(m, rows)
               reward == Reward(m.gross, m.terms)
           IN  /\ DOMAIN prize \subseteq DOMAIN rows
               /\ \A u \in DOMAIN prize : prize[u] \in Nat
               /\ SumFunction(prize) <= (IF reward > 0 THEN reward ELSE 0)
               /\ /\ m.terms.category = "PAID" /\ reward > 0
                  /\ \E u \in DOMAIN rows :
                        GroupPercentage(u, Positions(rows), m.terms.distribution) > 0
                  => SumFunction(prize) = reward
  <1> DEFINE S == DOMAIN rows
             position == [u \in S |-> rows[u].position]
             order == RowOrder(position)
             reward == Reward(m.gross, m.terms)
             percentage == m.terms.distribution
             payouts == Payouts(reward, percentage, position, order)
             prize == Prize(m, rows)
             D == DOMAIN payouts
  <1>1. S \subseteq Users /\ \A u \in S : rows[u] \in Row
    BY DEF Table
  <1>2. position \in [S -> Nat]
    BY <1>1 DEF Row
  <1>3. m.gross \in Int /\ m.terms \in Term /\ percentage \in Seq(Nat)
    BY DEF MesaRow, Term
  <1>4. reward \in Int
    BY <1>3, MoneyType
  <1>5. prize = IF m.terms.category = "FREE" THEN [u \in {} |-> 0]
                ELSE IF m.terms.category = "SPONSORED_FREE"
                     THEN [u \in D \cap pro |-> payouts[u]]
                     ELSE payouts
    BY DEF Prize
  <1>6. /\ IsFiniteSet(S)
        /\ \A u \in S : order[u] \in Int
        /\ \A u, v \in S : order[u] = order[v] => u = v
    <2> HIDE DEF position, S
    <2> QED
      BY <1>1, <1>2, OrderOfRows
  <1> DEFINE won == reward > 0 /\ \E u \in S : GroupPercentage(u, position, percentage) > 0
  <1>7. /\ D \subseteq S
        /\ \A u \in D : payouts[u] \in Nat
        /\ SumFunction(payouts) = IF won THEN reward ELSE 0
    <2> HIDE DEF order, position, S, percentage, reward
    <2>1. /\ IsFiniteSet(S)
          /\ \A u \in S : order[u] \in Int
          /\ \A u, v \in S : order[u] = order[v] => u = v
      BY <1>6
    <2>2. LET paid == Payouts(reward, percentage, position, order)
          IN  /\ DOMAIN paid \subseteq S
              /\ \A u \in DOMAIN paid : paid[u] \in Nat
              /\ SumFunction(paid) =
                   IF reward > 0 /\ \E u \in S : GroupPercentage(u, position, percentage) > 0
                   THEN reward ELSE 0
      BY SMTT(60), <1>2, <1>3, <1>4, <2>1, PayoutsAddUp
    <2> QED
      BY Zenon, <2>2
  <1>8. IsFiniteSet(D) /\ SumFunction(payouts) = SumFunctionOnSet(payouts, D)
    <2>1. SumFunction(payouts) = SumFunctionOnSet(payouts, D)
      BY DEF SumFunction
    <2> HIDE DEF payouts, S
    <2> QED
      BY <1>6, <1>7, <2>1, FS_Subset
  <1>9. SumFunction(payouts) <= (IF reward > 0 THEN reward ELSE 0)
    BY <1>4, <1>7
  <1> HIDE DEF payouts, reward, prize, position, percentage, order, S, won
  <1>10. CASE m.terms.category = "FREE"
    <2>1. DOMAIN prize = {} /\ prize = [u \in {} |-> 0]
      BY <1>5, <1>10
    <2>2. SumFunction(prize) = 0
      BY <2>1, SumOfNothing DEF SumFunction
    <2> QED
      BY <1>4, <1>10, <2>1, <2>2 DEF prize, reward, S, position, percentage, Positions
  <1>11. CASE m.terms.category = "SPONSORED_FREE"
    <2> DEFINE E == D \cap pro
               F == D \ pro
    <2>1. prize = [u \in E |-> payouts[u]]
      BY <1>5, <1>11
    <2>2. DOMAIN prize = E /\ \A u \in E : prize[u] = payouts[u]
      BY <2>1
    <2>3. E \subseteq D /\ F \subseteq D /\ E \cup F = D /\ E \cap F = {}
      OBVIOUS
    <2> HIDE DEF E, F
    <2>4. IsFiniteSet(E) /\ IsFiniteSet(F)
      BY <1>8, <2>3, FS_Subset
    <2>5. \A u \in E \cup F : payouts[u] \in Int
      BY <1>7, <2>3
    <2>6. \A u \in E : payouts[u] \in Nat
      BY <1>7, <2>3
    <2>7. \A u \in F : payouts[u] \in Nat
      BY <1>7, <2>3
    <2> HIDE DEF D
    <2>8. SumFunctionOnSet(payouts, E \cup F)
            = SumFunctionOnSet(payouts, E) + SumFunctionOnSet(payouts, F)
      BY <2>3, <2>4, <2>5, SumOfUnion
    <2>9. SumFunctionOnSet(payouts, E) \in Nat /\ SumFunctionOnSet(payouts, F) \in Nat
      BY <2>4, <2>6, <2>7, SumOfNaturals
    <2>10. SumFunctionOnSet(prize, E) = SumFunctionOnSet(payouts, E)
      BY <2>2, <2>4, SumsAgree
    <2>11. SumFunction(prize) = SumFunctionOnSet(prize, E)
      BY <2>2 DEF SumFunction
    <2>12. SumFunction(prize) <= SumFunction(payouts) /\ SumFunction(payouts) \in Int
      <3>1. SumFunction(payouts) = SumFunctionOnSet(payouts, E \cup F)
        BY <1>8, <2>3
      <3>2. SumFunction(prize) = SumFunctionOnSet(payouts, E)
        BY <2>10, <2>11
      <3> QED
        BY <2>8, <2>9, <3>1, <3>2
    <2>13. SumFunction(prize) <= (IF reward > 0 THEN reward ELSE 0)
      BY <1>4, <1>9, <2>9, <2>10, <2>11, <2>12
    <2>14. DOMAIN prize \subseteq S /\ \A u \in DOMAIN prize : prize[u] \in Nat
      BY <1>7, <2>2, <2>3, <2>6
    <2> QED
      BY <1>11, <2>13, <2>14 DEF prize, reward, S
  <1>12. CASE m.terms.category \notin {"FREE", "SPONSORED_FREE"}
    <2>1. prize = payouts
      BY <1>5, <1>12
    <2>2. DOMAIN prize \subseteq S /\ \A u \in DOMAIN prize : prize[u] \in Nat
      BY <1>7, <2>1
    <2>3. SumFunction(prize) <= (IF reward > 0 THEN reward ELSE 0)
      BY <1>9, <2>1
    <2>4. won => SumFunction(prize) = reward
      BY <1>7, <2>1
    <2> QED
      BY <2>2, <2>3, <2>4 DEF prize, reward, S, won, position, percentage, Positions
  <1> QED
    BY <1>10, <1>11, <1>12

\* What a step does to the wallets: it keeps them in order, as the ledger promises,
\* and pays only as it settles.
Posts ==
    /\ PurseInv'
    /\ L!Post
    /\ \A u \in Users : wallet'[u].credited # wallet[u].credited =>
            mesa # NoMesa /\ ~mesa.settled /\ mesa'.settled

\* A settled row stays settled.
StaysSettled == mesa # NoMesa /\ mesa.settled => mesa' # NoMesa /\ mesa'.settled

LEMMA SameWallets ==
    ASSUME PurseInv, UNCHANGED wallet, StaysSettled
    PROVE  Posts
  BY DEF PurseInv, Posts, L!Post, StaysSettled

LEMMA DebitPosts ==
    ASSUME NEW w \in Account, NEW cost \in Nat \ {0}, HasFunds(w, cost),
           w.balance = w.credited - w.debited
    PROVE  /\ Debit(w, cost) \in Account
           /\ L!PostsDebit(w, Debit(w, cost))
           /\ Debit(w, cost).credited = w.credited
           /\ Debit(w, cost).balance = Debit(w, cost).credited - Debit(w, cost).debited
  BY DEF Account, HasFunds, Debit, L!PostsDebit

LEMMA CreditPosts ==
    ASSUME NEW w \in Account, NEW amount \in Nat, w.balance = w.credited - w.debited
    PROVE  /\ Credit(w, amount) \in Account
           /\ Credit(w, amount) = w \/ L!PostsCredit(w, Credit(w, amount))
           /\ Credit(w, amount).balance = Credit(w, amount).credited - Credit(w, amount).debited
           /\ Credit(w, amount).credited = w.credited + amount
  BY DEF Account, Credit, L!PostsCredit

\* The row an entry leaves is that of the Mesa, but for the seats, the coins and
\* the close of the registrations.
LEMMA EnterRow ==
    ASSUME NEW m \in MesaRow, NEW u, NEW t \in Term, NEW invited, Enter(m, u, t, invited),
           SeasonTyped
    PROVE  /\ mesa' \in MesaRow
           /\ mesa'.status = m.status /\ mesa'.terms = m.terms /\ mesa'.settled = m.settled
           /\ mesa'.ready = m.ready
           /\ mesa'.seats = m.seats + 1 /\ mesa'.gross = m.gross + t.cost
           /\ ~HasPaidEntry(t) => mesa'.fee = m.fee
           /\ mesa'.closedAt = IF Fills(m, t) THEN now ELSE m.closedAt
           /\ IF Fills(m, t) THEN mesa'.ref \in OpenRounds ELSE mesa'.ref = m.ref
           /\ mesa'.end = m.end
  <1> DEFINE gross == m.gross + t.cost
             fee == IF HasPaidEntry(t) THEN PlatformFee(gross) ELSE m.fee
             pool == IF HasPaidEntry(t) THEN Reward(gross, t) ELSE m.pool
             counted == RowCounting(m, m.seats + 1, gross, fee, pool)
             open == CHOOSE r \in OpenRounds : TRUE
  <1>1. m.seats \in Nat /\ m.gross \in Int /\ m.fee \in Int /\ m.pool \in Int /\ t.cost \in Nat
    BY DEF MesaRow, Term
  <1>2. gross \in Int /\ m.seats + 1 \in Nat
    BY <1>1
  <1>3. PlatformFee(gross) \in Int /\ Reward(gross, t) \in Int
    BY <1>2, MoneyType
  <1>4. fee \in Int /\ pool \in Int /\ (~HasPaidEntry(t) => fee = m.fee)
    BY <1>1, <1>3
  <1>5. mesa' = IF Fills(m, t) THEN [counted EXCEPT !.closedAt = now, !.ref = open] ELSE counted
    BY DEF Enter, RowCounting
  <1>6. now \in Nat
    BY DEF SeasonTyped
  <1>7. Fills(m, t) => open \in OpenRounds /\ open \in Rounds
    BY DEF Enter, OpenRounds
  <1> HIDE DEF open, fee, pool, gross
  <1>8. /\ counted \in MesaRow
        /\ counted.status = m.status /\ counted.terms = m.terms /\ counted.settled = m.settled
        /\ counted.ready = m.ready /\ counted.closedAt = m.closedAt
        /\ counted.ref = m.ref /\ counted.end = m.end
        /\ counted.seats = m.seats + 1 /\ counted.gross = gross /\ counted.fee = fee
    BY <1>2, <1>4 DEF RowCounting, MesaRow
  <1> HIDE DEF counted
  <1>9. CASE Fills(m, t)
    <2>1. mesa' = [counted EXCEPT !.closedAt = now, !.ref = open]
      BY <1>5, <1>9
    <2>2. /\ mesa' \in MesaRow
          /\ mesa'.status = counted.status /\ mesa'.terms = counted.terms
          /\ mesa'.settled = counted.settled /\ mesa'.ready = counted.ready
          /\ mesa'.closedAt = now /\ mesa'.ref = open /\ mesa'.end = counted.end
          /\ mesa'.seats = counted.seats /\ mesa'.gross = counted.gross /\ mesa'.fee = counted.fee
      BY <1>6, <1>7, <1>8, <1>9, <2>1 DEF MesaRow
    <2> QED
      BY <1>4, <1>7, <1>8, <1>9, <2>2 DEF gross
  <1>10. CASE ~Fills(m, t)
    <2>1. mesa' = counted
      BY <1>5, <1>10
    <2> QED
      BY <1>4, <1>8, <1>10, <2>1 DEF gross
  <1> QED
    BY <1>9, <1>10

\* An entry debits the player who enters, who has the coins.
LEMMA EnterPosts ==
    ASSUME PurseInv, NEW m \in MesaRow, NEW u \in Users, NEW t \in Term, NEW invited,
           Enter(m, u, t, invited), SeasonTyped,
           IF mesa = NoMesa THEN ~m.settled ELSE m.settled = mesa.settled
    PROVE  Posts /\ \A v \in Users : wallet'[v].credited = wallet[v].credited
  <1>1. mesa' \in MesaRow /\ mesa'.settled = m.settled
    BY EnterRow
  <1>2. mesa' # NoMesa
    BY <1>1 DEF MesaRow, NoMesa
  <1>3. t.cost \in Nat
    BY DEF Term
  <1>4. CASE ~HasPaidEntry(t)
    <2>1. UNCHANGED wallet
      BY <1>4 DEF Enter
    <2> QED
      BY <1>1, <1>2, <2>1, SameWallets DEF StaysSettled
  <1>5. CASE HasPaidEntry(t)
    <2> DEFINE w == Debit(wallet[u], t.cost)
    <2>1. wallet' = [wallet EXCEPT ![u] = w] /\ HasFunds(wallet[u], t.cost) /\ t.cost \in Nat \ {0}
      BY <1>3, <1>5 DEF Enter, CanPay, HasPaidEntry
    <2>2. wallet \in [Users -> Account]
      BY DEF PurseInv
    <2>3. wallet[u].balance = wallet[u].credited - wallet[u].debited
      BY DEF PurseInv
    <2>4. /\ w \in Account /\ L!PostsDebit(wallet[u], w)
          /\ w.credited = wallet[u].credited /\ w.balance = w.credited - w.debited
      BY <2>1, <2>2, <2>3, DebitPosts
    <2> HIDE DEF w
    <2>5. wallet' \in [Users -> Account] /\ wallet'[u] = w
          /\ \A v \in Users \ {u} : wallet'[v] = wallet[v]
      BY <2>1, <2>2, <2>4
    <2>6. \A v \in Users : wallet'[v].credited = wallet[v].credited
      BY <2>4, <2>5
    <2>7. L!Post
      BY <2>4, <2>5 DEF L!Post
    <2>8. PurseInv'
      <3>1. \A v \in Users : wallet'[v].balance = wallet'[v].credited - wallet'[v].debited
        BY <2>4, <2>5 DEF PurseInv
      <3> QED
        BY <1>1, <1>2, <2>5, <2>6, <3>1 DEF PurseInv
    <2> QED
      BY <2>6, <2>7, <2>8 DEF Posts
  <1> QED
    BY <1>4, <1>5

\* What an edit that resets the coins leaves alone.
LEMMA PricedRow ==
    ASSUME NEW m \in MesaRow, NEW gross \in Int, NEW fee \in Int, NEW pool \in Int
    PROVE  LET p == Priced(m, gross, fee, pool)
           IN  /\ p \in MesaRow /\ p.gross = gross
               /\ p.status = m.status /\ p.terms = m.terms /\ p.settled = m.settled
               /\ p.ready = m.ready /\ p.seats = m.seats /\ p.closedAt = m.closedAt
               /\ p.ref = m.ref /\ p.end = m.end
  BY DEF MesaRow, Priced

\* A row saved over the Mesa is as settled as the Mesa.
SameSettlement(m) ==
    m \in MesaRow /\ (IF mesa = NoMesa THEN ~m.settled ELSE m.settled = mesa.settled)

\* A row that takes the Mesa's place, without an entry.
LEMMA RowPosts ==
    ASSUME PurseInv, UNCHANGED wallet, SameSettlement(mesa')
    PROVE  Posts
  <1>1. mesa' # NoMesa
    BY DEF SameSettlement, MesaRow, NoMesa
  <1> QED
    BY <1>1, SameWallets DEF SameSettlement, StaysSettled

LEMMA SavePosts ==
    ASSUME PurseInv, SeasonTyped, NEW m, SameSettlement(m),
           NEW mode \in {"KEEP", "DRAFT", "AT_START", "NOW"}, Save(m, mode) \/ PublishRow(m)
    PROVE  Posts
  <1>1. m \in MesaRow
    BY DEF SameSettlement
  <1>2. ASSUME PublishRow(m)
        PROVE  Posts
    <2> DEFINE active == [m EXCEPT !.status = "ACTIVE", !.publishAt = Null]
    <2>1. active \in MesaRow /\ active.settled = m.settled
      BY <1>1 DEF MesaRow
    <2>2. m.terms \in Term /\ Creator \in Users
      BY <1>1, MesaAssumption DEF MesaRow
    <2>3. (mesa' = active /\ UNCHANGED wallet) \/ Enter(active, Creator, m.terms, FALSE)
      BY <1>2 DEF PublishRow
    <2> HIDE DEF active
    <2>4. SameSettlement(active)
      BY <2>1 DEF SameSettlement
    <2> QED
      BY <2>1, <2>2, <2>3, <2>4, RowPosts, EnterPosts DEF SameSettlement
  <1>3. ASSUME Save(m, mode), mode # "NOW"
        PROVE  Posts
    <2>1. UNCHANGED wallet
      BY <1>3 DEF Save
    <2>2. \A at \in Nat \cup {Null} : SameSettlement([m EXCEPT !.publishAt = at])
      BY <1>1 DEF SameSettlement, MesaRow
    <2>3. m.terms.start \in Nat
      BY <1>1 DEF MesaRow, Term
    <2>4. mesa' = m \/ \E at \in Nat \cup {Null} : mesa' = [m EXCEPT !.publishAt = at]
      BY <1>3, <2>3 DEF Save
    <2>5. SameSettlement(mesa')
      BY <2>2, <2>4
    <2> QED
      BY <2>1, <2>5, RowPosts
  <1> QED
    BY <1>2, <1>3 DEF Save

\* A settlement credits the winners, once.
LEMMA ClosePosts ==
    ASSUME MesaInv, PurseInv, NEW q \in Pool, CommitClose(q)
    PROVE  Posts
  <1> DEFINE seen == request[q].seen
             rows == request[q].rows
             prize == Prize(seen, rows)
  <1>1. request[q] \in Pass
    BY DEF CommitClose, MesaInv, RequestsTyped, Work, Idle, Join, Edit, Closing, Finish
  <1>2. seen \in MesaRow /\ rows \in Table /\ rows # Null
    BY <1>1 DEF Pass, CommitClose
  <1>3. mesa \in MesaRow /\ mesa # NoMesa
    <2>1. request[q] # Idle
      BY <1>1, IdleIsNoEntry
    <2> QED
      BY <2>1, MesaExists
  <1>4. ~mesa.settled
    BY DEF CommitClose, Unsettled
  <1>5. mesa'.settled
    BY <1>3 DEF CommitClose, MesaRow
  <1>6. wallet' = [u \in Users |->
                     IF u \in DOMAIN prize THEN Pay(wallet[u], prize[u]) ELSE wallet[u]]
    BY DEF CommitClose
  <1> HIDE DEF seen, rows
  <1>7. \A u \in DOMAIN prize : prize[u] \in Nat
    BY <1>2, PrizesAddUp
  <1> HIDE DEF prize
  <1>8. ASSUME NEW u \in Users
        PROVE  /\ wallet'[u] \in Account
               /\ wallet'[u] = wallet[u] \/ L!PostsCredit(wallet[u], wallet'[u])
               /\ wallet'[u].balance = wallet'[u].credited - wallet'[u].debited
    <2>1. wallet[u] \in Account /\ wallet[u].balance = wallet[u].credited - wallet[u].debited
      BY DEF PurseInv
    <2>2. CASE u \in DOMAIN prize
      <3>1. wallet'[u] = Credit(wallet[u], prize[u]) /\ prize[u] \in Nat
        BY <1>6, <1>7, <2>2 DEF Pay
      <3> QED
        BY <2>1, <3>1, CreditPosts
    <2>3. CASE u \notin DOMAIN prize
      <3>1. wallet'[u] = wallet[u]
        BY <1>6, <2>3
      <3> QED
        BY <2>1, <3>1
    <2> QED
      BY <2>2, <2>3
  <1>9. mesa' # NoMesa
    BY <1>3 DEF CommitClose, MesaRow, NoMesa
  <1>10. wallet' \in [Users -> Account]
    BY <1>6, <1>8
  <1>11. PurseInv'
    BY <1>5, <1>8, <1>9, <1>10 DEF PurseInv
  <1>12. L!Post
    BY <1>8 DEF L!Post
  <1> QED
    BY <1>3, <1>4, <1>5, <1>11, <1>12 DEF Posts

LEMMA PurseStarts == Init => PurseInv /\ L!Init
  <1> SUFFICES ASSUME Init PROVE PurseInv /\ L!Init
    OBVIOUS
  <1>1. ASSUME NEW u \in Users
        PROVE  /\ wallet[u] \in Account
               /\ wallet[u].balance = wallet[u].credited - wallet[u].debited
               /\ wallet[u].credited = Stake[u]
    <2>1. wallet[u] = Credit(EmptyWallet, Stake[u]) /\ Stake[u] \in Nat
      BY MesaAssumption DEF Init
    <2> QED
      BY <2>1 DEF Credit, EmptyWallet, Account
  <1>2. wallet \in [Users -> Account]
    BY <1>1 DEF Init
  <1>3. PurseInv
    BY <1>1, <1>2 DEF PurseInv
  <1> QED
    BY <1>1, <1>2, <1>3 DEF L!Init, L!Backed, Account

LEMMA NextPosts == MesaInv /\ PurseInv /\ [Next]_vars => Posts
  <1> SUFFICES ASSUME MesaInv, PurseInv, [Next]_vars PROVE Posts
    OBVIOUS
  <1>1. SeasonTyped /\ mesa \in {NoMesa} \cup MesaRow
    BY DEF MesaInv, MesaTyped
  <1>2. mesa # NoMesa => SameSettlement(mesa)
    BY <1>1 DEF SameSettlement
  <1>3. ASSUME NEW t \in Terms, NEW admin \in BOOLEAN, NEW mode \in {"DRAFT", "AT_START", "NOW"},
               Create(t, admin, mode)
        PROVE  Posts
    <2> DEFINE m == [status |-> "DRAFT", terms |-> t, end |-> t.end, byAdmin |-> admin,
                     publishAt |-> Null, seats |-> 0, gross |-> 0, fee |-> 0,
                     pool |-> Reward(0, t), closedAt |-> Null, ref |-> Null, ready |-> FALSE,
                     settled |-> FALSE]
    <2>1. t \in Term /\ t.end \in Nat \cup {Null} /\ Reward(0, t) \in Int
      BY MesaAssumption, MoneyType DEF Term
    <2>2. m \in MesaRow /\ ~m.settled
      BY <2>1 DEF MesaRow
    <2>3. Save(m, mode) /\ mesa = NoMesa
      BY <1>3 DEF Create
    <2> HIDE DEF m
    <2>4. SameSettlement(m)
      BY <2>2, <2>3 DEF SameSettlement
    <2> QED
      BY <1>1, <2>3, <2>4, SavePosts
  <1>4. ASSUME Publish \/ PublishScheduled
        PROVE  Posts
    <2>1. PublishRow(mesa) /\ mesa.status = "DRAFT"
      BY <1>4 DEF Publish, PublishScheduled, Scheduled
    <2>2. SameSettlement(mesa)
      BY <1>2, <2>1 DEF NoMesa
    <2> QED
      BY <1>1, <2>1, <2>2, SavePosts
  <1>5. ASSUME NEW q \in Requests, CommitJoin(q)
        PROVE  Posts
    <2>1. q \in Pool /\ request[q] \in Join
      BY <1>5 DEF CommitJoin, Pool, MesaInv, RequestsTyped, Work, Idle, Edit, Closing, Finish, Pass
    <2>2. mesa # NoMesa
      BY <2>1, IdleIsNoEntry, MesaExists
    <2>3. request[q].user \in Users /\ request[q].terms \in Term
      BY <2>1 DEF Join
    <2>4. Enter(mesa, request[q].user, request[q].terms, request[q].invited)
      BY <1>5 DEF CommitJoin
    <2> QED
      BY <1>1, <2>2, <2>3, <2>4, EnterPosts
  <1>6. ASSUME NEW q \in Requests, CommitEdit(q)
        PROVE  Posts
    <2> DEFINE t == request[q].terms
               edited == [mesa EXCEPT !.terms = t, !.end = t.end]
               m == IF request[q].reset THEN Priced(edited, 0, 0, Reward(0, t)) ELSE edited
    <2>1. q \in Pool /\ request[q] \in Edit
      BY <1>6 DEF CommitEdit, Pool, MesaInv, RequestsTyped, Work, Idle, Join, Closing, Finish, Pass
    <2>2. t \in Term /\ request[q].mode \in {"KEEP", "DRAFT", "AT_START", "NOW"}
          /\ t.end \in Nat \cup {Null}
      BY <2>1 DEF Edit, Term
    <2>3. mesa \in MesaRow /\ mesa # NoMesa
      <3>1. request[q] # Idle
        BY <2>1 DEF Edit, Idle
      <3> QED
        BY <2>1, <3>1, MesaExists
    <2>4. Save(m, request[q].mode)
      BY <1>6 DEF CommitEdit, Priced
    <2>5. edited \in MesaRow /\ edited.settled = mesa.settled
      BY <2>2, <2>3 DEF MesaRow
    <2>6. Reward(0, t) \in Int
      BY <2>2, MoneyType
    <2> HIDE DEF edited
    <2>7. m \in MesaRow /\ m.settled = mesa.settled
      BY <2>5, <2>6, PricedRow
    <2> HIDE DEF m
    <2>8. SameSettlement(m)
      BY <2>3, <2>7 DEF SameSettlement
    <2> QED
      BY <1>1, <2>2, <2>4, <2>8, SavePosts
  <1>7. ASSUME NEW q \in Pool, CommitClose(q)
        PROVE  Posts
    BY <1>7, ClosePosts
  <1>8. ASSUME Capture \/ \E q \in Jobs : CommitJob(q)
        PROVE  Posts
    <2>1. UNCHANGED wallet /\ mesa.status \in {"DRAFT", "ACTIVE", "CLOSED"}
      BY <1>8 DEF Capture, CommitJob, CommitUnschedule, CommitCloseRegistrations, CommitFinish
    <2>2. mesa \in MesaRow /\ mesa # NoMesa
      BY <2>1, MesaExists
    <2>3. mesa'.settled = mesa.settled /\ (mesa'.settled => mesa' # NoMesa)
      <3>1. CASE Capture
        BY <2>2, <3>1 DEF Capture, MesaRow, NoMesa
      <3>2. ASSUME NEW q \in Jobs, CommitUnschedule(q)
            PROVE  mesa'.settled = mesa.settled /\ mesa' # NoMesa
        BY <2>2, <3>2 DEF CommitUnschedule, MesaRow, NoMesa
      <3>3. ASSUME NEW q \in Jobs, CommitCloseRegistrations(q)
            PROVE  mesa'.settled = mesa.settled /\ mesa' # NoMesa
        BY <2>2, <3>3 DEF CommitCloseRegistrations, MesaRow, NoMesa
      <3>4. ASSUME NEW q \in Jobs, CommitFinish(q)
            PROVE  mesa'.settled = mesa.settled /\ mesa' # NoMesa
        BY <2>2, <3>4 DEF CommitFinish, MesaRow, NoMesa
      <3> QED
        BY <1>8, <3>1, <3>2, <3>3, <3>4 DEF CommitJob
    <2> QED
      BY SMTT(30), <2>1, <2>3, SameWallets DEF StaysSettled
  <1>9. ASSUME UNCHANGED <<wallet, mesa>>
        PROVE  Posts
    BY <1>9, SameWallets DEF StaysSettled
  <1>10. ASSUME \/ \E max \in InviteUses : CreateInvite(max)
                \/ \E q \in Requests : \E u \in Users, invited \in BOOLEAN : StartJoin(q, u, invited)
                \/ \E q \in Requests : \E t \in NewTerms, admin \in BOOLEAN,
                     mode \in {"KEEP", "DRAFT", "AT_START", "NOW"} : StartEdit(q, t, admin, mode)
                \/ \E q \in Requests : \E force \in BOOLEAN : StartClose(q, force)
                \/ \E q \in Jobs : StartJob(q) \/ StartRecalculation(q) \/ CommitRecalculation(q)
                \/ \E q \in Pool : BuildRows(q) \/ RollBack(q)
                \/ Season \/ UNCHANGED vars
         PROVE  UNCHANGED <<wallet, mesa>>
    BY <1>10 DEF CreateInvite, StartJoin, StartEdit, StartClose, StartJob, StartUnschedule,
                 StartCloseRegistrations, StartFinish, StartRecalculation, CommitRecalculation,
                 BuildRows, RollBack, Season, OpenRound, CloseRound, ScoreRound, CancelRound, Tick,
                 LosePro, vars
  <1> QED
    BY <1>3, <1>4, <1>5, <1>6, <1>7, <1>8, <1>9, <1>10 DEF Next, Enrol, Pool

LEMMA PurseInductive == Spec => [](MesaInv /\ PurseInv)
  <1>1. Init => PurseInv
    BY PurseStarts
  <1>2. MesaInv /\ PurseInv /\ [Next]_vars => PurseInv'
    BY NextPosts DEF Posts
  <1> QED
    BY Inductive, <1>1, <1>2, PTL DEF Spec

-----------------------------------------------------------------------------
(* COINS                                                                    *)

\* Nobody edits a Mesa that is published.
OnlyDraftsEdited == \A q \in Requests : request[q] \in Edit => request[q].status = "DRAFT"

Paying(t) == t.category = "PAID"

\* A settlement in hand of a paid Mesa that pays everything its players paid: the
\* registrations have closed, the row it read is up to date, and somebody is first.
SettlesAll(w) ==
    /\ w.seen.ready /\ w.seen.gross = mesa.gross
    /\ mesa.closedAt # Null /\ AllCaptured
    /\ w.rows # Null => \E u \in DOMAIN w.rows : w.rows[u].position = 1

\* What work in hand knows of the Mesa.
InHand(w) ==
    /\ w \in Edit => ValidTerms(w.terms)
    /\ w \in Join => mesa.status # "DRAFT" /\ w.terms = mesa.terms
    /\ w \in Closing => mesa.status # "DRAFT" /\ DateMode(mesa.terms)
    /\ w \in Pass =>
        /\ mesa.status # "DRAFT" /\ w.seen.terms = mesa.terms /\ w.seen.gross \in 0..mesa.gross
        /\ w.op = "close" /\ Paying(mesa.terms) => SettlesAll(w)

\* The books of a settled row m.
Settled(m) ==
    /\ PaidOut <= PrizePool(Debited) + m.terms.sponsor
    /\ Paying(m.terms) => m.closedAt # Null /\ PaidOut + m.fee = Debited

\* The row m records what the players paid, and its registrations close when it is full.
RowBooks(m) ==
    /\ ValidTerms(m.terms) /\ m.gross = Debited
    /\ m.ready => m.closedAt # Null
    /\ ~DateMode(m.terms) /\ m.closedAt # Null => m.seats >= m.terms.cap
    /\ m.settled => Settled(m)

\* Nothing has happened to a draft m.
Fresh(m) == Approved = {} /\ m.closedAt = Null /\ ~m.ready /\ ~m.settled

Books == mesa # NoMesa => RowBooks(mesa) /\ (mesa.status = "DRAFT" => Fresh(mesa))

CoinsInv == Books /\ \A q \in Pool : InHand(request[q])

-----------------------------------------------------------------------------
(* NUMBERS OF COINS                                                         *)

\* The larger the gross, the larger the pool; pool and fee are all of it.
LEMMA PoolGrows ==
    ASSUME NEW a \in Nat, NEW b \in Nat, a <= b
    PROVE  /\ PrizePool(a) \in Nat /\ PrizePool(b) \in Nat /\ PlatformFee(a) \in Nat
           /\ PrizePool(a) <= PrizePool(b)
           /\ PrizePool(a) + PlatformFee(a) = a
           /\ PrizePool(a) = 0 => a = 0
  <1> DEFINE x == a \div 10
             y == b \div 10
  <1>1. x \in Nat /\ x * 10 <= a /\ a < (x + 1) * 10
    BY Division
  <1>2. y \in Nat /\ y * 10 <= b /\ b < (y + 1) * 10
    BY Division
  <1>3. PlatformFee(a) = x /\ PlatformFee(b) = y
    BY DEF PlatformFee
  <1> HIDE DEF x, y
  <1>4. a - x \in Nat /\ b - y \in Nat /\ a - x <= b - y /\ (a - x = 0 => a = 0)
    BY <1>1, <1>2
  <1> QED
    BY <1>1, <1>3, <1>4 DEF PrizePool

\* What valid terms say of the seats and of the prizes.
LEMMA TermsAreSound ==
    ASSUME NEW t \in Term, ValidTerms(t)
    PROVE  /\ ~DateMode(t) => t.cap \in Nat /\ t.cap >= 2
           /\ Paying(t) => /\ ~DateMode(t) /\ t.cost > 0
                           /\ ValidDistribution(t.distribution)
  <1>1. ~DateMode(t) => t.cap \in Nat /\ t.cap >= 2
    BY DEF ValidTerms, ValidSchedule, Term
  <1>2. Paying(t) => ~DateMode(t) /\ t.cost > 0
    BY DEF ValidTerms, ValidCategory, Paying
  <1>3. Paying(t) => ValidDistribution(t.distribution)
    BY DEF ValidTerms, Paying
  <1> QED
    BY <1>1, <1>2, <1>3

\* The player in first place wins something.
LEMMA FirstWins ==
    ASSUME NEW S, IsFiniteSet(S), NEW position \in [S -> Nat], NEW percentage \in Seq(Nat),
           ValidDistribution(percentage), NEW u \in S, position[u] = 1
    PROVE  GroupPercentage(u, position, percentage) > 0
  <1> DEFINE last == position[u] + Cardinality(Tied(u, position)) - 1
             places == DOMAIN percentage \cap (position[u] .. last)
  <1>1. GroupPercentage(u, position, percentage) = SumFunctionOnSet(percentage, places)
    BY DEF GroupPercentage
  <1>2. Cardinality(Tied(u, position)) \in Nat \ {0}
    <2>1. Tied(u, position) \subseteq S /\ u \in Tied(u, position)
      BY DEF Tied
    <2>2. IsFiniteSet(Tied(u, position)) /\ Tied(u, position) # {}
      BY <2>1, FS_Subset
    <2> QED
      BY <2>2, FS_EmptySet, FS_CardinalityType
  <1>3. 1 \in DOMAIN percentage /\ DOMAIN percentage = 1..Len(percentage) /\ Len(percentage) \in Nat
    BY DEF ValidDistribution
  <1>4. 1 \in places /\ places \subseteq 1..Len(percentage)
    <2> DEFINE c == Cardinality(Tied(u, position))
    <2>1. c \in Nat \ {0}
      BY <1>2
    <2> HIDE DEF c
    <2>2. 1 \in 1 .. (1 + c - 1)
      BY <2>1
    <2> QED
      BY <1>3, <2>2 DEF c
  <1>5. \A i \in places : percentage[i] \in Nat
    OBVIOUS
  <1>6. percentage[1] > 0 /\ percentage[1] \in Nat
    BY <1>3 DEF ValidDistribution
  <1> HIDE DEF places
  <1>7. IsFiniteSet(places) /\ IsFiniteSet(places \ {1})
    <2>1. IsFiniteSet(1..Len(percentage))
      BY <1>3, FS_Interval
    <2> QED
      BY <1>4, <2>1, FS_Subset, FS_RemoveElement
  <1>8. SumFunctionOnSet(percentage, places)
          = percentage[1] + SumFunctionOnSet(percentage, places \ {1})
    <2>1. \A i \in places : percentage[i] \in Int
      BY <1>5
    <2> QED
      BY <1>4, <1>7, <2>1, SumTakesAny
  <1>9. SumFunctionOnSet(percentage, places \ {1}) \in Nat
    BY <1>5, <1>7, SumOfNaturals
  <1> QED
    BY <1>1, <1>6, <1>8, <1>9

\* The rows of a captured Mesa that has players have a first place.
LEMMA RowsHaveFirst ==
    ASSUME SeasonTyped, MesaTyped, NEW m \in MesaRow, m.ready, AllCaptured, Approved # {}
    PROVE  \E u \in DOMAIN Rows(m) : Rows(m)[u].position = 1
  <1> DEFINE until == IF m.end # Null THEN m.end ELSE now
             window == {r \in Rounds : r > m.ref /\ CloseAt[r] <= until}
             score == [u \in Approved |->
                         OrElse(LastTotal(u, window), participant[u].base) - participant[u].base]
             metrics == [u \in Approved |-> [score |-> score[u], superDoubles |-> 0, doubles |-> 0,
                                             created |-> Created[u]]]
             position == Position(metrics)
  <1>1. Rows(m) = [u \in Approved |-> [score |-> score[u], position |-> position[u]]]
    BY DEF Rows
  <1>2. ASSUME NEW u \in Approved
        PROVE  score[u] \in Int /\ Created[u] \in Int
    <2>1. participant[u].base \in Int
      BY DEF AllCaptured, Approved, MesaTyped, Participation
    <2>2. LastTotal(u, window) \in Int \cup {Null}
      BY LastTotalType DEF Approved
    <2>3. Created[u] \in Nat
      BY MesaAssumption DEF Approved
    <2> HIDE DEF window
    <2> QED
      BY <2>1, <2>2, <2>3 DEF OrElse
  <1> HIDE DEF score
  <1>3. metrics \in [Approved -> Metric]
    BY <1>2 DEF Metric
  <1>4. IsFiniteSet(Approved)
    BY ApprovedFinite
  <1> HIDE DEF metrics
  <1>5. PICK u \in Approved : position[u] = 1
    BY <1>3, <1>4, SomebodyWins
  <1> HIDE DEF position
  <1> QED
    BY <1>1, <1>5

-----------------------------------------------------------------------------
(* SUMS OVER THE WALLETS                                                    *)

LEMMA SumsTyped ==
    ASSUME PurseInv
    PROVE  /\ Debited \in Nat /\ PaidOut \in Int
           /\ mesa = NoMesa \/ ~mesa.settled => PaidOut = 0
  <1> DEFINE d == [u \in Users |-> wallet[u].debited]
             p == [u \in Users |-> Paid(u)]
  <1>1. IsFiniteSet(Users)
    BY MesaAssumption
  <1>2. Debited = SumFunctionOnSet(d, Users) /\ PaidOut = SumFunctionOnSet(p, Users)
    BY DEF Debited, PaidOut, SumFunction
  <1>3. \A u \in Users : d[u] \in Nat
    BY DEF PurseInv, Account
  <1>4. ASSUME mesa = NoMesa \/ ~mesa.settled
        PROVE  \A u \in Users : p[u] = 0
    BY <1>4 DEF PurseInv, Account, Paid
  <1>7. \A u \in Users : p[u] \in Int
    BY MesaAssumption DEF PurseInv, Account, Paid
  <1> HIDE DEF d, p
  <1>5. SumFunctionOnSet(d, Users) \in Nat
    BY <1>1, <1>3, SumOfNaturals
  <1>6. ASSUME mesa = NoMesa \/ ~mesa.settled
        PROVE  SumFunctionOnSet(p, Users) = 0
    BY <1>1, <1>4, <1>6, SumOfZeros
  <1>8. SumFunctionOnSet(p, Users) \in Int
    BY <1>1, <1>7, SumType
  <1> QED
    BY <1>2, <1>5, <1>6, <1>8

\* Nobody has paid before somebody takes part.
LEMMA NobodyPays ==
    ASSUME MesaInv, Approved = {}
    PROVE  Debited = 0
  <1> DEFINE d == [u \in Users |-> wallet[u].debited]
  <1>1. \A u \in Users : d[u] = 0
    BY DEF MesaInv, Seated, EntriesAccounted, FeeOf, Approved
  <1>2. Debited = SumFunctionOnSet(d, Users)
    BY DEF Debited, SumFunction
  <1> HIDE DEF d
  <1> QED
    BY <1>1, <1>2, MesaAssumption, SumOfZeros

LEMMA SameSums ==
    ASSUME UNCHANGED wallet
    PROVE  Debited' = Debited /\ PaidOut' = PaidOut
  BY DEF Debited, PaidOut, Paid

\* An entry adds its price to what the players paid.
LEMMA EntryAdds ==
    ASSUME PurseInv, NEW m, NEW u \in Users, NEW t \in Term, NEW invited, Enter(m, u, t, invited),
           \A v \in Users : wallet'[v].credited = wallet[v].credited
    PROVE  Debited' = Debited + t.cost /\ PaidOut' = PaidOut
  <1>1. PaidOut' = PaidOut
    BY DEF PaidOut, Paid
  <1>2. t.cost \in Nat
    BY DEF Term
  <1>3. CASE ~HasPaidEntry(t)
    <2>1. UNCHANGED wallet /\ t.cost = 0
      BY <1>2, <1>3 DEF Enter, HasPaidEntry
    <2>2. Debited' = Debited
      BY <2>1 DEF Debited
    <2> QED
      BY <1>1, <2>1, <2>2, SumsTyped
  <1>4. CASE HasPaidEntry(t)
    <2> DEFINE d == [v \in Users |-> wallet[v].debited]
               e == [v \in Users |-> wallet'[v].debited]
    <2>1. wallet' = [wallet EXCEPT ![u] = Debit(wallet[u], t.cost)] /\ wallet \in [Users -> Account]
      BY <1>4 DEF Enter, PurseInv
    <2>2. \A v \in Users : d[v] \in Int
      BY <2>1 DEF Account
    <2>3. \A v \in Users : e[v] = d[v] + (IF v = u THEN t.cost ELSE 0)
      BY <1>2, <2>1 DEF Debit, Account
    <2>4. Debited = SumFunctionOnSet(d, Users)
      BY DEF Debited, SumFunction
    <2>5. Debited' = SumFunctionOnSet(e, Users)
      BY DEF Debited, SumFunction
    <2> HIDE DEF d, e
    <2>6. SumFunctionOnSet(e, Users) = SumFunctionOnSet(d, Users) + e[u] - d[u]
          /\ SumFunctionOnSet(d, Users) \in Int
      <3>1. IsFiniteSet(Users)
        BY MesaAssumption
      <3>2. /\ \A v \in Users : d[v] \in Int /\ e[v] \in Int
            /\ \A v \in Users : v # u => d[v] = e[v]
        BY <1>2, <2>2, <2>3
      <3> QED
        BY <3>1, <3>2, SumMoves
    <2>7. e[u] = d[u] + t.cost /\ d[u] \in Int
      BY <2>2, <2>3
    <2> QED
      BY <1>1, <1>2, <2>4, <2>5, <2>6, <2>7
  <1> QED
    BY <1>3, <1>4

\* A settlement pays out its prizes.
LEMMA PrizesArePaid ==
    ASSUME PurseInv, \A u \in Users : wallet[u].credited = Stake[u],
           NEW prize, DOMAIN prize \subseteq Users, \A u \in DOMAIN prize : prize[u] \in Nat,
           wallet' = [u \in Users |-> IF u \in DOMAIN prize THEN Pay(wallet[u], prize[u])
                                      ELSE wallet[u]]
    PROVE  /\ Debited' = Debited
           /\ PaidOut' = SumFunction(prize) /\ SumFunction(prize) \in Nat
  <1> DEFINE D == DOMAIN prize
             E == Users \ D
             p == [u \in Users |-> wallet'[u].credited - Stake[u]]
  <1>1. \A u \in Users : wallet[u].credited \in Nat /\ Stake[u] \in Nat
    BY MesaAssumption DEF PurseInv, Account
  <1>2. \A u \in Users : p[u] = IF u \in D THEN prize[u] ELSE 0
    BY <1>1 DEF Pay, Credit
  <1>3. PaidOut' = SumFunctionOnSet(p, Users)
    BY DEF PaidOut, Paid, SumFunction
  <1>4. SumFunction(prize) = SumFunctionOnSet(prize, D)
    BY DEF SumFunction
  <1>5. Debited' = Debited
    <2>1. \A u \in Users : wallet'[u].debited = wallet[u].debited
      BY DEF Pay, Credit
    <2> QED
      BY <2>1 DEF Debited
  <1>6. D \subseteq Users /\ E \subseteq Users /\ D \cup E = Users /\ D \cap E = {}
    OBVIOUS
  <1> HIDE DEF D, E, p
  <1>7. IsFiniteSet(D) /\ IsFiniteSet(E)
    BY <1>6, MesaAssumption, FS_Subset
  <1>8. /\ \A u \in D : p[u] = prize[u]
        /\ \A u \in E : p[u] = 0
        /\ \A u \in D \cup E : p[u] \in Int
        /\ \A u \in D : prize[u] \in Nat
    BY <1>2, <1>6 DEF D, E
  <1>9. SumFunctionOnSet(p, D \cup E) = SumFunctionOnSet(p, D) + SumFunctionOnSet(p, E)
    BY <1>6, <1>7, <1>8, SumOfUnion
  <1>10. SumFunctionOnSet(p, D) = SumFunctionOnSet(prize, D)
    BY <1>7, <1>8, SumsAgree
  <1>11. SumFunctionOnSet(p, E) = 0
    BY <1>7, <1>8, SumOfZeros
  <1>12. SumFunctionOnSet(prize, D) \in Nat
    BY <1>7, <1>8, SumOfNaturals
  <1>13. PaidOut' = SumFunctionOnSet(p, D \cup E)
    BY <1>3, <1>6
  <1>14. PaidOut' = SumFunction(prize) /\ SumFunction(prize) \in Nat
    BY <1>4, <1>9, <1>10, <1>11, <1>12, <1>13
  <1> QED
    BY <1>5, <1>14

-----------------------------------------------------------------------------
(* STEPS OF THE BOOKS                                                       *)

\* A published Mesa keeps its terms, and its coins once a paid one is full.
Onward ==
    mesa.status # "DRAFT" =>
        /\ mesa'.status # "DRAFT" /\ mesa'.terms = mesa.terms /\ mesa.gross <= mesa'.gross
        /\ Paying(mesa.terms) /\ mesa.closedAt # Null =>
             mesa'.closedAt # Null /\ mesa'.gross = mesa.gross /\ (AllCaptured => AllCaptured')

\* No work, or one piece of it, begins, goes on or ends.
Works ==
    \/ request' = request
    \/ \E q \in Pool, w \in Work : InHand(w) /\ request' = [request EXCEPT ![q] = w]

LEMMA IdleInHand == Idle \in Work /\ InHand(Idle)
  BY DEF Idle, Work, InHand, Edit, Join, Closing, Pass

\* What work knows of a published Mesa stays true.
LEMMA WorkStaysKnown ==
    ASSUME MesaInv, CoinsInv, mesa \in MesaRow, mesa' \in MesaRow, Onward, Works
    PROVE  \A q \in Pool : InHand(request[q])'
  <1>1. ASSUME NEW w \in Work, InHand(w)
        PROVE  InHand(w)'
    <2>1. w \in Join => mesa'.status # "DRAFT" /\ w.terms = mesa'.terms
      BY <1>1 DEF InHand, Onward
    <2>2. w \in Closing => mesa'.status # "DRAFT" /\ DateMode(mesa'.terms)
      BY <1>1 DEF InHand, Onward
    <2>3. ASSUME w \in Pass
          PROVE  /\ mesa'.status # "DRAFT" /\ w.seen.terms = mesa'.terms
                 /\ w.seen.gross \in 0..mesa'.gross
                 /\ w.op = "close" /\ Paying(mesa'.terms) => SettlesAll(w)'
      <3>1. /\ mesa.status # "DRAFT" /\ w.seen.terms = mesa.terms /\ w.seen.gross \in 0..mesa.gross
            /\ w.op = "close" /\ Paying(mesa.terms) => SettlesAll(w)
        BY <1>1, <2>3 DEF InHand
      <3>2. mesa'.status # "DRAFT" /\ mesa'.terms = mesa.terms /\ mesa.gross <= mesa'.gross
        BY <3>1 DEF Onward
      <3>3. mesa.gross \in Int /\ mesa'.gross \in Int
        BY DEF MesaRow
      <3>4. w.seen.gross \in 0..mesa'.gross
        BY <3>1, <3>2, <3>3
      <3>5. ASSUME w.op = "close", Paying(mesa.terms)
            PROVE  SettlesAll(w)'
        <4>1. SettlesAll(w)
          BY <3>1, <3>5
        <4>2. mesa'.closedAt # Null /\ mesa'.gross = mesa.gross /\ (AllCaptured => AllCaptured')
          BY <3>1, <3>5, <4>1 DEF SettlesAll, Onward
        <4> QED
          BY <4>1, <4>2 DEF SettlesAll
      <3> QED
        BY <3>1, <3>2, <3>4, <3>5
    <2>4. w \in Edit => ValidTerms(w.terms)
      BY <1>1 DEF InHand
    <2>5. w \in Pass =>
            /\ mesa'.status # "DRAFT" /\ w.seen.terms = mesa'.terms
            /\ w.seen.gross \in 0..mesa'.gross
            /\ w.op = "close" /\ Paying(mesa'.terms) => SettlesAll(w)'
      BY <2>3
    <2> QED
      BY <2>1, <2>2, <2>4, <2>5, Zenon DEF InHand
  <1>2. SUFFICES ASSUME NEW p \in Pool
                 PROVE  InHand(request[p])'
    OBVIOUS
  <1>3. request[p] \in Work /\ InHand(request[p])
    BY DEF MesaInv, RequestsTyped, CoinsInv
  <1>4. \E w \in Work : InHand(w) /\ request'[p] = w
    <2>1. CASE request' = request
      BY <1>3, <2>1
    <2>2. ASSUME NEW q \in Pool, NEW w \in Work, InHand(w), request' = [request EXCEPT ![q] = w]
          PROVE  \E v \in Work : InHand(v) /\ request'[p] = v
      <3>1. request'[p] = IF p = q THEN w ELSE request[p]
        BY <2>2 DEF MesaInv, RequestsTyped
      <3> QED
        BY <1>3, <2>2, <3>1
    <2> QED
      BY <2>1, <2>2 DEF Works
  <1>5. PICK w \in Work : InHand(w) /\ request'[p] = w
    BY <1>4
  <1>6. InHand(w)'
    BY <1>1, <1>5
  <1> QED
    BY <1>5, <1>6 DEF InHand, SettlesAll

\* A step that moves no coins and no seats.
Quiet ==
    /\ mesa' \in MesaRow /\ UNCHANGED wallet /\ Approved' = Approved
    /\ mesa'.status = mesa.status /\ mesa'.terms = mesa.terms /\ mesa'.seats = mesa.seats
    /\ mesa'.gross = mesa.gross /\ mesa'.fee = mesa.fee /\ mesa'.settled = mesa.settled
    /\ AllCaptured => AllCaptured'
    /\ mesa'.ready = mesa.ready \/ (mesa.status # "DRAFT" /\ mesa.closedAt # Null)
    /\ \/ mesa'.closedAt = mesa.closedAt
       \/ mesa.status # "DRAFT" /\ DateMode(mesa.terms) /\ mesa'.closedAt # Null

LEMMA QuietKeeps ==
    ASSUME MesaInv, CoinsInv, mesa \in MesaRow, Quiet, Works
    PROVE  CoinsInv'
  <1>1. mesa # NoMesa /\ mesa' # NoMesa
    BY DEF Quiet, MesaRow, NoMesa
  <1>2. Debited' = Debited /\ PaidOut' = PaidOut
    BY SameSums DEF Quiet
  <1>3. RowBooks(mesa) /\ (mesa.status = "DRAFT" => Fresh(mesa))
    BY <1>1 DEF CoinsInv, Books
  <1>4. RowBooks(mesa)'
    <2>1. ValidTerms(mesa'.terms) /\ mesa'.gross = Debited'
      BY <1>2, <1>3 DEF RowBooks, Quiet
    <2>2. mesa'.ready => mesa'.closedAt # Null
      BY <1>3 DEF RowBooks, Quiet
    <2>3. ~DateMode(mesa'.terms) /\ mesa'.closedAt # Null => mesa'.seats >= mesa'.terms.cap
      BY <1>3 DEF RowBooks, Quiet
    <2>4. mesa'.settled => Settled(mesa)'
      BY <1>2, <1>3 DEF RowBooks, Quiet, Settled
    <2> QED
      BY <2>1, <2>2, <2>3, <2>4 DEF RowBooks
  <1>5. mesa'.status = "DRAFT" => Fresh(mesa)'
    BY <1>3 DEF Quiet, Fresh
  <1>6. Onward
    <2>1. mesa.gross \in Int
      BY DEF MesaRow
    <2> QED
      BY <2>1 DEF Quiet, Onward
  <1>7. \A q \in Pool : InHand(request[q])'
    BY <1>6, WorkStaysKnown DEF Quiet
  <1> QED
    BY <1>4, <1>5, <1>7 DEF CoinsInv, Books

\* Requests and jobs that only read, and the season.
LEMMA ReadingKeeps ==
    ASSUME MesaInv, CoinsInv, UNCHANGED <<wallet, mesa, participant>>, Works,
           mesa = NoMesa => request' = request
    PROVE  CoinsInv'
  <1>1. Approved' = Approved /\ AllCaptured' = AllCaptured
    BY DEF Approved, AllCaptured
  <1>2. CASE mesa \in MesaRow
    <2>1. Quiet
      BY <1>1, <1>2 DEF Quiet
    <2> QED
      BY <1>2, <2>1, QuietKeeps
  <1>3. CASE mesa = NoMesa
    <2>1. \A q \in Pool : request'[q] = Idle
      BY <1>3 DEF MesaInv, RequestsTyped
    <2>2. \A q \in Pool : InHand(request[q])'
      BY <2>1 DEF InHand, Idle, Edit, Join, Closing, Pass
    <2> QED
      BY <1>3, <2>2 DEF CoinsInv, Books
  <1> QED
    BY <1>2, <1>3 DEF MesaInv, MesaTyped

LEMMA EndWorks ==
    ASSUME NEW q \in Pool, End(q)
    PROVE  Works
  BY IdleInHand DEF End, Continue, Works

LEMMA WorkBegins ==
    ASSUME MesaInv, CoinsInv, mesa # NoMesa, NEW q \in Pool, NEW w \in Work, InHand(w),
           request' = [request EXCEPT ![q] = w], UNCHANGED <<wallet, mesa, participant>>
    PROVE  CoinsInv'
  BY ReadingKeeps DEF Works

\* What a request or a job has read when it begins is the Mesa as it is.
LEMMA StartKeeps ==
    ASSUME MesaInv, PurseInv, CoinsInv, NEW q \in Pool,
           \/ \E u \in Users, invited \in BOOLEAN : StartJoin(q, u, invited)
           \/ \E t \in NewTerms, admin \in BOOLEAN,
                 mode \in {"KEEP", "DRAFT", "AT_START", "NOW"} : StartEdit(q, t, admin, mode)
           \/ StartUnschedule(q) \/ StartCloseRegistrations(q) \/ StartFinish(q)
           \/ StartRecalculation(q) \/ \E force \in BOOLEAN : StartClose(q, force)
    PROVE  CoinsInv'
  <1>1. UNCHANGED <<wallet, mesa, participant>> /\ mesa.status \in {"DRAFT", "ACTIVE", "CLOSED"}
    <2>1. mesa \in {NoMesa} \cup MesaRow
      BY DEF MesaInv, MesaTyped
    <2> QED
      BY <2>1 DEF StartJoin, Accepts, StartEdit, StartUnschedule, Scheduled,
                  StartCloseRegistrations, StartFinish, StartRecalculation, StartClose, MesaRow
  <1>2. mesa \in MesaRow /\ mesa # NoMesa
    BY <1>1, MesaExists
  <1>3. mesa.gross \in 0..mesa.gross /\ RowBooks(mesa)
    <2>1. RowBooks(mesa) /\ Debited \in Nat
      BY <1>2, SumsTyped DEF CoinsInv, Books
    <2> QED
      BY <2>1 DEF RowBooks
  <1> SUFFICES \E w \in Work : InHand(w) /\ request' = [request EXCEPT ![q] = w]
    BY <1>1, <1>2, WorkBegins
  <1>4. CASE \E u \in Users, invited \in BOOLEAN : StartJoin(q, u, invited)
    <2>1. PICK u \in Users, invited \in BOOLEAN : StartJoin(q, u, invited)
      BY <1>4
    <2> DEFINE w == [op |-> "join", user |-> u, terms |-> mesa.terms, invited |-> invited]
    <2>2. mesa.terms \in Term
      BY <1>2 DEF MesaRow
    <2>3. w \in Work
      BY <2>2 DEF Join, Work
    <2>4. mesa.status = "ACTIVE"
      BY <2>1 DEF StartJoin, Accepts
    <2>5. InHand(w)
      BY <2>4 DEF InHand, Edit, Closing, Pass
    <2> QED
      BY <2>1, <2>3, <2>5 DEF StartJoin, Begin
  <1>5. CASE \E t \in NewTerms, admin \in BOOLEAN,
                mode \in {"KEEP", "DRAFT", "AT_START", "NOW"} : StartEdit(q, t, admin, mode)
    <2>1. PICK t \in NewTerms, admin \in BOOLEAN,
               mode \in {"KEEP", "DRAFT", "AT_START", "NOW"} : StartEdit(q, t, admin, mode)
      BY <1>5
    <2> DEFINE reset == mesa.status = "DRAFT" \/ ~Locked
               w == [op |-> "edit", terms |-> t, mode |-> mode, status |-> mesa.status,
                     start |-> mesa.terms.start, reset |-> reset]
    <2>2. mesa.terms.start \in Nat /\ t \in Term /\ reset \in BOOLEAN
      BY <1>2, MesaAssumption DEF MesaRow, Term
    <2>3. ValidTerms(t) /\ request' = [request EXCEPT ![q] = w]
      BY <2>1 DEF StartEdit, Begin
    <2> HIDE DEF reset
    <2>4. w \in Work
      BY <1>1, <2>2 DEF Edit, Work
    <2>5. InHand(w)
      BY <2>3 DEF InHand, Join, Closing, Pass
    <2> QED
      BY <2>3, <2>4, <2>5
  <1>6. CASE StartUnschedule(q)
    <2> DEFINE w == [op |-> "unschedule"]
    <2>1. w \in Work /\ InHand(w)
      BY DEF Work, InHand, Edit, Join, Closing, Pass
    <2> QED
      BY <1>6, <2>1 DEF StartUnschedule, Begin
  <1>7. CASE StartCloseRegistrations(q)
    <2> DEFINE ref == IF OpenRounds = {} THEN Null ELSE CHOOSE r \in OpenRounds : TRUE
               w == [op |-> "registrations", at |-> mesa.terms.entryEnd, ref |-> ref]
    <2>1. mesa.terms.entryEnd \in Nat /\ mesa.status = "ACTIVE" /\ DateMode(mesa.terms)
      BY <1>2, <1>7 DEF StartCloseRegistrations, DateMode, MesaRow, Term
    <2>2. ref \in Rounds \cup {Null}
      BY DEF OpenRounds
    <2>3. request' = [request EXCEPT ![q] = w]
      BY <1>7 DEF StartCloseRegistrations, Begin
    <2> HIDE DEF ref
    <2>4. w \in Work
      BY <2>1, <2>2 DEF Closing, Work
    <2>5. InHand(w)
      BY <2>1 DEF InHand, Edit, Join, Pass
    <2> QED
      BY <2>3, <2>4, <2>5
  <1>8. CASE StartFinish(q)
    <2>1. PICK r \in RoundsAfter : Begin(q, [op |-> "finish", end |-> CloseAt[r]])
      BY <1>8 DEF StartFinish
    <2> DEFINE w == [op |-> "finish", end |-> CloseAt[r]]
    <2>2. CloseAt[r] \in Nat
      BY MesaAssumption DEF RoundsAfter
    <2>3. w \in Work /\ InHand(w)
      BY <2>2 DEF Work, Finish, InHand, Edit, Join, Closing, Pass
    <2> QED
      BY <2>1, <2>3 DEF Begin
  <1>9. CASE StartRecalculation(q)
    <2> DEFINE w == [op |-> "recalc", seen |-> mesa, rows |-> Null]
    <2>1. w \in Work
      BY <1>2 DEF Work, Pass
    <2>2. mesa.status = "ACTIVE"
      BY <1>9 DEF StartRecalculation
    <2>3. InHand(w)
      BY <1>3, <2>2 DEF InHand, Edit, Join, Closing, Pass
    <2> QED
      BY <1>9, <2>1, <2>3 DEF StartRecalculation, Begin
  <1>10. CASE \E force \in BOOLEAN : StartClose(q, force)
    <2> DEFINE w == [op |-> "close", seen |-> mesa, rows |-> Null]
    <2>1. w \in Work
      BY <1>2 DEF Work, Pass
    <2>2. mesa.status = "ACTIVE" /\ mesa.ready /\ AllCaptured /\ request' = [request EXCEPT ![q] = w]
      BY <1>10 DEF StartClose, Begin
    <2>3. mesa.closedAt # Null
      BY <1>3, <2>2 DEF RowBooks
    <2>4. SettlesAll(w)
      BY <2>2, <2>3 DEF SettlesAll
    <2>5. InHand(w)
      BY <1>3, <2>2, <2>4 DEF InHand, Edit, Join, Closing
    <2> QED
      BY <2>1, <2>2, <2>5
  <1> QED
    BY <1>4, <1>5, <1>6, <1>7, <1>8, <1>9, <1>10

\* A paid Mesa whose registrations have closed is full, and so has players.
LEMMA FullHasPlayers ==
    ASSUME MesaInv, CoinsInv, mesa \in MesaRow, mesa # NoMesa, Paying(mesa.terms),
           mesa.closedAt # Null
    PROVE  Approved # {} /\ mesa.seats >= mesa.terms.cap /\ ~DateMode(mesa.terms)
           /\ mesa.terms.cap \in Nat /\ mesa.seats \in Nat
  <1>1. RowBooks(mesa) /\ mesa.terms \in Term /\ mesa.seats \in Nat
    BY DEF CoinsInv, Books, MesaRow
  <1>2. ~DateMode(mesa.terms) /\ mesa.terms.cap \in Nat /\ mesa.terms.cap >= 2
    BY <1>1, TermsAreSound DEF RowBooks
  <1>3. mesa.seats >= mesa.terms.cap
    BY <1>1, <1>2 DEF RowBooks
  <1>4. Cardinality(Approved) # 0
    BY <1>1, <1>2, <1>3 DEF MesaInv, Seated, EntriesAccounted
  <1>5. Approved # {}
    BY <1>4, FS_EmptySet
  <1> QED
    BY <1>1, <1>2, <1>3, <1>5

LEMMA BuildRowsKeeps ==
    ASSUME MesaInv, CoinsInv, NEW q \in Pool, BuildRows(q)
    PROVE  CoinsInv'
  <1> DEFINE rows == Rows(request[q].seen)
             w == [request[q] EXCEPT !.rows = rows]
  <1>1. request[q] \in Pass
    BY DEF BuildRows, MesaInv, RequestsTyped, Work, Idle, Join, Edit, Closing, Finish
  <1>2. mesa # NoMesa /\ mesa \in MesaRow
    BY <1>1, IdleIsNoEntry, MesaExists
  <1>3. request[q].seen \in MesaRow
    BY <1>1 DEF Pass
  <1>4. rows \in Table
    BY <1>3, RowsType DEF MesaInv
  <1>5. InHand(request[q])
    BY DEF CoinsInv
  <1>6. ASSUME request[q].op = "close", Paying(mesa.terms)
        PROVE  SettlesAll(request[q]) /\ \E u \in DOMAIN rows : rows[u].position = 1
    <2>1. SettlesAll(request[q])
      BY <1>1, <1>5, <1>6 DEF InHand
    <2>2. Approved # {}
      BY <1>2, <1>6, <2>1, FullHasPlayers DEF SettlesAll
    <2>3. request[q].seen.ready /\ AllCaptured
      BY <2>1 DEF SettlesAll
    <2> QED
      BY <1>3, <2>1, <2>2, <2>3, RowsHaveFirst DEF MesaInv
  <1>7. request' = [request EXCEPT ![q] = w] /\ UNCHANGED <<wallet, mesa, participant>>
    BY DEF BuildRows, Continue
  <1> HIDE DEF rows
  <1>8. w \in Pass /\ w.rows = rows /\ w.seen = request[q].seen /\ w.op = request[q].op
    BY <1>1, <1>4 DEF Pass
  <1> HIDE DEF w
  <1>9. w.op = "close" /\ Paying(mesa.terms) => SettlesAll(w)
    BY <1>6, <1>8 DEF SettlesAll
  <1>10. InHand(w)
    <2>1. w \notin Edit /\ w \notin Join /\ w \notin Closing
      BY <1>8 DEF Pass, Edit, Join, Closing
    <2> QED
      BY <1>1, <1>5, <1>8, <1>9, <2>1 DEF InHand
  <1>11. w \in Work
    BY <1>8 DEF Work
  <1> QED
    BY <1>2, <1>7, <1>10, <1>11, WorkBegins

\* Captured scores stay captured while the players stay.
LEMMA SamePlayersCaptured ==
    ASSUME MesaTyped, SamePlayers
    PROVE  Approved' = Approved /\ (AllCaptured => AllCaptured')
  <1>1. Approved' = Approved
    BY SamePlayersStay
  <1>2. ASSUME AllCaptured, NEW u \in Approved
        PROVE  participant'[u].base # Null
    <2>1. u \in Users /\ participant[u] # Null /\ participant[u].base # Null
      BY <1>2 DEF Approved, AllCaptured
    <2> QED
      BY <2>1 DEF SamePlayers
  <1> QED
    BY <1>1, <1>2 DEF AllCaptured

\* The jobs that write the row, or the scores of the players, move no coins.
LEMMA JobKeeps ==
    ASSUME MesaInv, CoinsInv, NEW q \in Pool,
           CommitUnschedule(q) \/ CommitFinish(q) \/ CommitCloseRegistrations(q)
    PROVE  CoinsInv'
  <1>1. mesa \in MesaRow /\ mesa # NoMesa
    BY MesaExists DEF CommitUnschedule, CommitFinish, CommitCloseRegistrations
  <1>2. UNCHANGED <<wallet, participant>> /\ End(q)
    BY DEF CommitUnschedule, CommitFinish, CommitCloseRegistrations
  <1>3. Approved' = Approved /\ AllCaptured' = AllCaptured
    BY <1>2 DEF Approved, AllCaptured
  <1>4. ASSUME mesa' \in MesaRow, mesa'.status = mesa.status, mesa'.terms = mesa.terms,
               mesa'.seats = mesa.seats, mesa'.gross = mesa.gross, mesa'.fee = mesa.fee,
               mesa'.settled = mesa.settled, mesa'.ready = mesa.ready,
               \/ mesa'.closedAt = mesa.closedAt
               \/ mesa.status # "DRAFT" /\ DateMode(mesa.terms) /\ mesa'.closedAt # Null
        PROVE  CoinsInv'
    <2>1. Quiet
      BY <1>2, <1>3, <1>4 DEF Quiet
    <2>2. Works
      BY <1>2, EndWorks
    <2> QED
      BY <1>1, <2>1, <2>2, QuietKeeps
  <1>5. CASE CommitUnschedule(q)
    <2>1. mesa' = [mesa EXCEPT !.publishAt = Null]
      BY <1>5 DEF CommitUnschedule
    <2> QED
      BY <1>1, <1>4, <2>1 DEF MesaRow
  <1>6. CASE CommitFinish(q)
    <2>1. request[q].end \in Nat
      BY <1>6 DEF CommitFinish, MesaInv, RequestsTyped, Work, Idle, Join, Edit, Closing, Finish, Pass
    <2>2. mesa' = [mesa EXCEPT !.end = request[q].end]
      BY <1>6 DEF CommitFinish
    <2> QED
      BY <1>1, <1>4, <2>1, <2>2 DEF MesaRow
  <1>7. CASE CommitCloseRegistrations(q)
    <2>1. request[q] \in Closing
      BY <1>7 DEF CommitCloseRegistrations, MesaInv, RequestsTyped, Work, Idle, Join, Edit, Finish,
                  Pass
    <2>2. request[q].at \in Nat /\ request[q].ref \in Rounds \cup {Null}
      BY <2>1 DEF Closing
    <2>3. request[q].at # Null
      BY <2>2, MesaAssumption
    <2>4. mesa.status # "DRAFT" /\ DateMode(mesa.terms)
      BY <2>1 DEF CoinsInv, InHand
    <2>5. mesa' = [mesa EXCEPT !.closedAt = request[q].at, !.ref = request[q].ref]
      BY <1>7 DEF CommitCloseRegistrations
    <2> QED
      BY <1>1, <1>4, <2>2, <2>3, <2>4, <2>5 DEF MesaRow
  <1> QED
    BY <1>5, <1>6, <1>7

LEMMA CaptureKeeps ==
    ASSUME MesaInv, CoinsInv, Capture
    PROVE  CoinsInv'
  <1>1. mesa \in MesaRow /\ mesa # NoMesa
    BY MesaExists DEF Capture
  <1>2. Approved' = Approved /\ (AllCaptured => AllCaptured')
    BY CaptureSane, SamePlayersCaptured DEF MesaInv
  <1>3. UNCHANGED <<wallet, request>> /\ mesa' = [mesa EXCEPT !.ready = TRUE]
        /\ mesa.status = "ACTIVE" /\ mesa.closedAt # Null
    BY DEF Capture
  <1>4. Quiet
    BY <1>1, <1>2, <1>3 DEF Quiet, MesaRow
  <1> QED
    BY <1>1, <1>3, <1>4, QuietKeeps DEF Works

LEMMA RecalculationKeeps ==
    ASSUME MesaInv, CoinsInv, NEW q \in Pool, CommitRecalculation(q)
    PROVE  CoinsInv'
  <1>1. request[q] \in Pass /\ request[q].rows # Null /\ WriteRows(request[q].rows)
    BY DEF CommitRecalculation, MesaInv, RequestsTyped, Work, Idle, Join, Edit, Closing, Finish
  <1>2. mesa \in MesaRow /\ mesa # NoMesa
    BY <1>1, IdleIsNoEntry, MesaExists
  <1>3. Approved' = Approved /\ (AllCaptured => AllCaptured')
    BY <1>1, WriteRowsSane, SamePlayersCaptured DEF MesaInv
  <1>4. UNCHANGED <<wallet, mesa>> /\ End(q)
    BY DEF CommitRecalculation
  <1>5. Quiet
    BY <1>2, <1>3, <1>4 DEF Quiet
  <1> QED
    BY <1>2, <1>4, <1>5, EndWorks, QuietKeeps

-----------------------------------------------------------------------------
(* ENTRIES                                                                  *)

\* An entry keeps the books: its price is in the gross, and the registrations of a full
\* Mesa close.
LEMMA EnterBooks ==
    ASSUME MesaInv, PurseInv, NEW m \in MesaRow, RowBooks(m), NEW u \in Users, NEW invited,
           Enter(m, u, m.terms, invited),
           IF mesa = NoMesa THEN ~m.settled ELSE m.settled = mesa.settled
    PROVE  /\ RowBooks(mesa)' /\ mesa' \in MesaRow
           /\ mesa'.status = m.status /\ mesa'.terms = m.terms /\ m.gross <= mesa'.gross
           /\ ~(Paying(m.terms) /\ m.closedAt # Null)
  <1> DEFINE t == m.terms
  <1>1. t \in Term /\ t.cost \in Nat /\ m.seats \in Nat /\ m.fee \in Int
    BY DEF MesaRow, Term
  <1>2. SeasonTyped
    BY DEF MesaInv
  <1>3. /\ mesa' \in MesaRow
        /\ mesa'.status = m.status /\ mesa'.terms = t /\ mesa'.settled = m.settled
        /\ mesa'.ready = m.ready
        /\ mesa'.seats = m.seats + 1 /\ mesa'.gross = m.gross + t.cost
        /\ ~HasPaidEntry(t) => mesa'.fee = m.fee
        /\ mesa'.closedAt = IF Fills(m, t) THEN now ELSE m.closedAt
    BY <1>1, <1>2, EnterRow
  <1>4. \A v \in Users : wallet'[v].credited = wallet[v].credited
    BY <1>1, <1>2, EnterPosts
  <1>5. Debited' = Debited + t.cost /\ PaidOut' = PaidOut /\ Debited \in Nat
    BY <1>1, <1>4, EntryAdds, SumsTyped
  <1>6. now # Null
    BY <1>2, MesaAssumption DEF SeasonTyped
  <1>7. HasSeat(m, t)
    BY DEF Enter
  <1>8. /\ ~DateMode(t) => t.cap \in Nat
        /\ Paying(t) => ~DateMode(t) /\ t.cost > 0
    BY <1>1, TermsAreSound DEF RowBooks
  <1>9. ~(Paying(t) /\ m.closedAt # Null)
    BY <1>1, <1>7, <1>8 DEF HasSeat, RowBooks
  <1>10. m.gross = Debited /\ ValidTerms(t)
    BY DEF RowBooks
  <1>11. mesa'.ready => mesa'.closedAt # Null
    BY <1>3, <1>6 DEF RowBooks
  <1>12. ~DateMode(t) /\ mesa'.closedAt # Null => mesa'.seats >= t.cap
    BY <1>1, <1>3, <1>8 DEF RowBooks, Fills
  <1>13. ASSUME m.settled
         PROVE  Settled(mesa)'
    <2>1. Settled(m)
      BY <1>13 DEF RowBooks
    <2>2. ~Paying(t)
      BY <1>9, <2>1 DEF Settled
    <2>3. PrizePool(Debited) <= PrizePool(Debited')
          /\ PrizePool(Debited) \in Nat /\ PrizePool(Debited') \in Nat
      <3> DEFINE a == Debited
                 b == Debited'
      <3>1. a \in Nat /\ b \in Nat /\ a <= b
        BY <1>1, <1>5
      <3> HIDE DEF a, b
      <3>2. PrizePool(a) <= PrizePool(b) /\ PrizePool(a) \in Nat /\ PrizePool(b) \in Nat
        BY <3>1, PoolGrows
      <3> QED
        BY <3>2 DEF a, b
    <2>4. PaidOut \in Int /\ t.sponsor \in Nat
      BY <1>1, SumsTyped DEF Term
    <2>5. PaidOut <= PrizePool(Debited) + t.sponsor
      BY <2>1 DEF Settled
    <2>6. PaidOut' <= PrizePool(Debited') + mesa'.terms.sponsor
      BY <1>3, <1>5, <2>3, <2>4, <2>5
    <2>7. ~Paying(mesa'.terms)
      BY <1>3, <2>2
    <2> QED
      BY <2>6, <2>7 DEF Settled, Paying, PrizePool, PlatformFee
  <1>14. RowBooks(mesa)'
    BY <1>3, <1>5, <1>10, <1>11, <1>12, <1>13 DEF RowBooks
  <1> QED
    BY <1>1, <1>3, <1>5, <1>9, <1>10, <1>14

LEMMA CommitJoinKeeps ==
    ASSUME MesaInv, PurseInv, CoinsInv, NEW q \in Requests, CommitJoin(q)
    PROVE  CoinsInv'
  <1>1. q \in Pool /\ request[q] \in Join
    BY DEF CommitJoin, Pool, MesaInv, RequestsTyped, Work, Idle, Edit, Closing, Finish, Pass
  <1>2. mesa \in MesaRow /\ mesa # NoMesa
    BY <1>1, IdleIsNoEntry, MesaExists
  <1>3. mesa.status # "DRAFT" /\ request[q].terms = mesa.terms
    BY <1>1 DEF CoinsInv, InHand
  <1>4. RowBooks(mesa)
    BY <1>2 DEF CoinsInv, Books
  <1>5. Enter(mesa, request[q].user, mesa.terms, request[q].invited) /\ request[q].user \in Users
    BY <1>1, <1>3 DEF CommitJoin, Join
  <1>6. /\ RowBooks(mesa)' /\ mesa' \in MesaRow
        /\ mesa'.status = mesa.status /\ mesa'.terms = mesa.terms /\ mesa.gross <= mesa'.gross
        /\ ~(Paying(mesa.terms) /\ mesa.closedAt # Null)
    BY <1>2, <1>4, <1>5, EnterBooks
  <1>7. Works
    BY <1>1, EndWorks DEF CommitJoin
  <1>8. Onward
    BY <1>3, <1>6 DEF Onward
  <1>9. \A p \in Pool : InHand(request[p])'
    BY <1>2, <1>6, <1>7, <1>8, WorkStaysKnown
  <1> QED
    BY <1>3, <1>6, <1>9 DEF CoinsInv, Books

-----------------------------------------------------------------------------
(* DRAFTS                                                                   *)

\* A draft row that may take the Mesa's place.
Drafted(m) ==
    /\ SameSettlement(m) /\ m.status = "DRAFT" /\ RowBooks(m) /\ Fresh(m)
    /\ mesa = NoMesa \/ mesa.status = "DRAFT"

\* Of what is in hand, nothing but edits knows a draft.
LEMMA DraftInHand ==
    ASSUME MesaInv, CoinsInv, mesa = NoMesa \/ mesa.status = "DRAFT", mesa' \in MesaRow, Works,
           mesa = NoMesa => request' = request
    PROVE  \A q \in Pool : InHand(request[q])'
  <1>1. CASE mesa = NoMesa
    <2>1. \A q \in Pool : request'[q] = Idle
      BY <1>1 DEF MesaInv, RequestsTyped
    <2> QED
      BY <2>1 DEF InHand, Idle, Edit, Join, Closing, Pass
  <1>2. CASE mesa # NoMesa
    <2>1. mesa \in MesaRow
      BY <1>2 DEF MesaInv, MesaTyped
    <2>2. Onward
      BY <1>2 DEF Onward
    <2> QED
      BY <2>1, <2>2, WorkStaysKnown
  <1> QED
    BY <1>1, <1>2

LEMMA PublishKeeps ==
    ASSUME MesaInv, PurseInv, CoinsInv, NEW m, Drafted(m), PublishRow(m), Works,
           mesa = NoMesa => request' = request
    PROVE  CoinsInv'
  <1> DEFINE active == [m EXCEPT !.status = "ACTIVE", !.publishAt = Null]
  <1>1. m \in MesaRow
    BY DEF Drafted, SameSettlement
  <1>2. /\ active \in MesaRow /\ active.status = "ACTIVE" /\ active.terms = m.terms
        /\ active.settled = m.settled /\ active.gross = m.gross /\ active.ready = m.ready
        /\ active.closedAt = m.closedAt /\ active.seats = m.seats
    BY <1>1 DEF MesaRow
  <1>3. ~m.settled /\ RowBooks(m) /\ (IF mesa = NoMesa THEN ~m.settled ELSE m.settled = mesa.settled)
    BY DEF Drafted, Fresh, SameSettlement
  <1>4. \/ mesa' = active /\ UNCHANGED <<participant, wallet>>
        \/ Enter(active, Creator, active.terms, FALSE)
    BY <1>2 DEF PublishRow
  <1> HIDE DEF active
  <1>5. RowBooks(active)
    BY <1>2, <1>3 DEF RowBooks
  <1>6. RowBooks(mesa)' /\ mesa' \in MesaRow /\ mesa'.status = "ACTIVE"
    <2>1. CASE mesa' = active /\ UNCHANGED <<participant, wallet>>
      <3>1. Debited' = Debited /\ ~active.settled
        BY <1>2, <1>3, <2>1, SameSums
      <3> QED
        BY <1>2, <1>5, <2>1, <3>1 DEF RowBooks
    <2>2. CASE Enter(active, Creator, active.terms, FALSE)
      <3>1. Creator \in Users
        BY MesaAssumption
      <3> QED
        BY <1>2, <1>3, <1>5, <2>2, <3>1, EnterBooks
    <2> QED
      BY <1>4, <2>1, <2>2
  <1>7. \A q \in Pool : InHand(request[q])'
    BY <1>6, DraftInHand DEF Drafted
  <1> QED
    BY <1>6, <1>7 DEF CoinsInv, Books

LEMMA SaveKeeps ==
    ASSUME MesaInv, PurseInv, CoinsInv, NEW m, Drafted(m), Works,
           mesa = NoMesa => request' = request,
           NEW mode \in {"KEEP", "DRAFT", "AT_START", "NOW"}, Save(m, mode)
    PROVE  CoinsInv'
  <1>1. CASE mode = "NOW"
    BY <1>1, PublishKeeps DEF Save
  <1>2. CASE mode # "NOW"
    <2>1. m \in MesaRow /\ m.terms.start \in Nat
      BY DEF Drafted, SameSettlement, MesaRow, Term
    <2>2. /\ UNCHANGED <<participant, wallet>>
          /\ mesa' = m \/ \E at \in Nat \cup {Null} : mesa' = [m EXCEPT !.publishAt = at]
      BY <1>2, <2>1 DEF Save
    <2>3. /\ mesa' \in MesaRow /\ mesa'.status = m.status /\ mesa'.terms = m.terms
          /\ mesa'.settled = m.settled /\ mesa'.gross = m.gross /\ mesa'.ready = m.ready
          /\ mesa'.closedAt = m.closedAt /\ mesa'.seats = m.seats
      BY <2>1, <2>2 DEF MesaRow
    <2>4. Debited' = Debited /\ Approved' = Approved
      BY <2>2, SameSums DEF Approved
    <2>5. RowBooks(m) /\ Fresh(m) /\ m.status = "DRAFT"
      BY DEF Drafted
    <2>6. Fresh(mesa)'
      BY <2>3, <2>4, <2>5 DEF Fresh
    <2>7. RowBooks(mesa)'
      BY <2>3, <2>4, <2>5, <2>6 DEF RowBooks, Fresh
    <2>8. \A q \in Pool : InHand(request[q])'
      BY <2>3, DraftInHand DEF Drafted
    <2> QED
      BY <2>6, <2>7, <2>8 DEF CoinsInv, Books
  <1> QED
    BY <1>1, <1>2

LEMMA CreateKeeps ==
    ASSUME MesaInv, PurseInv, CoinsInv, NEW t \in Terms, NEW admin \in BOOLEAN,
           NEW mode \in {"DRAFT", "AT_START", "NOW"}, Create(t, admin, mode)
    PROVE  CoinsInv'
  <1> DEFINE pool == Reward(0, t)
             m == [status |-> "DRAFT", terms |-> t, end |-> t.end, byAdmin |-> admin,
                   publishAt |-> Null, seats |-> 0, gross |-> 0, fee |-> 0,
                   pool |-> pool, closedAt |-> Null, ref |-> Null, ready |-> FALSE,
                   settled |-> FALSE]
  <1>1. t \in Term /\ t.end \in Nat \cup {Null} /\ pool \in Int
    BY MesaAssumption, MoneyType DEF Term
  <1>2. Save(m, mode) /\ mesa = NoMesa /\ request' = request /\ ValidTerms(t)
    BY DEF Create
  <1>3. Approved = {} /\ Debited = 0
    BY <1>2, NobodyPays DEF MesaInv, Seated
  <1> HIDE DEF pool
  <1>4. m \in MesaRow /\ m.status = "DRAFT" /\ ~m.settled
    BY <1>1 DEF MesaRow
  <1>5. RowBooks(m) /\ Fresh(m)
    BY <1>2, <1>3 DEF RowBooks, Fresh
  <1> HIDE DEF m
  <1>6. Drafted(m)
    BY <1>2, <1>4, <1>5 DEF Drafted, SameSettlement
  <1>7. Works
    BY <1>2 DEF Works
  <1> QED
    BY <1>2, <1>6, <1>7, SaveKeeps

LEMMA DraftedMesa ==
    ASSUME CoinsInv, mesa \in MesaRow, mesa.status = "DRAFT"
    PROVE  Drafted(mesa)
  <1>1. mesa # NoMesa
    BY DEF MesaRow, NoMesa
  <1> QED
    BY <1>1 DEF CoinsInv, Books, Drafted, SameSettlement

LEMMA PublishNowKeeps ==
    ASSUME MesaInv, PurseInv, CoinsInv, Publish \/ PublishScheduled
    PROVE  CoinsInv'
  <1>1. PublishRow(mesa) /\ mesa.status = "DRAFT" /\ request' = request
    BY DEF Publish, PublishScheduled, Scheduled
  <1>2. Drafted(mesa)
    BY <1>1, MesaExists, DraftedMesa
  <1> QED
    BY <1>1, <1>2, PublishKeeps DEF Works

LEMMA CommitEditKeeps ==
    ASSUME MesaInv, PurseInv, CoinsInv, NEW q \in Requests, CommitEdit(q), OnlyDraftsEdited
    PROVE  CoinsInv'
  <1> DEFINE t == request[q].terms
             edited == [mesa EXCEPT !.terms = t, !.end = t.end]
             m == IF request[q].reset THEN Priced(edited, 0, 0, Reward(0, t)) ELSE edited
  <1>1. q \in Pool /\ request[q] \in Edit
    BY DEF CommitEdit, Pool, MesaInv, RequestsTyped, Work, Idle, Join, Closing, Finish, Pass
  <1>2. t \in Term /\ request[q].mode \in {"KEEP", "DRAFT", "AT_START", "NOW"}
        /\ t.end \in Nat \cup {Null}
    BY <1>1 DEF Edit, Term
  <1>3. mesa \in MesaRow /\ mesa # NoMesa
    <2>1. request[q] # Idle
      BY <1>1 DEF Edit, Idle
    <2> QED
      BY <1>1, <2>1, MesaExists
  <1>4. mesa.status = "DRAFT"
    BY <1>1 DEF CommitEdit, OnlyDraftsEdited
  <1>5. ValidTerms(t)
    BY <1>1 DEF CoinsInv, InHand
  <1>6. Save(m, request[q].mode) /\ End(q)
    BY DEF CommitEdit, Priced
  <1>7. Drafted(mesa)
    BY <1>3, <1>4, DraftedMesa
  <1>8. Debited = 0
    BY <1>7, NobodyPays DEF Drafted, Fresh
  <1>9. /\ edited \in MesaRow /\ edited.terms = t
        /\ edited.status = "DRAFT" /\ edited.settled = mesa.settled /\ edited.gross = mesa.gross
        /\ edited.ready = mesa.ready /\ edited.closedAt = mesa.closedAt
    BY <1>2, <1>3, <1>4 DEF MesaRow
  <1>10. Reward(0, t) \in Int
    BY <1>2, MoneyType
  <1> HIDE DEF edited
  <1>11. /\ m \in MesaRow /\ m.terms = t
         /\ m.status = "DRAFT" /\ m.settled = mesa.settled /\ m.gross = 0
         /\ m.ready = mesa.ready /\ m.closedAt = mesa.closedAt
    <2>1. mesa.gross = 0
      BY <1>7, <1>8 DEF Drafted, RowBooks
    <2> QED
      BY <1>9, <1>10, <2>1, PricedRow
  <1> HIDE DEF m, t
  <1>12. Fresh(m)
    BY <1>7, <1>11 DEF Drafted, Fresh
  <1>13. RowBooks(m)
    BY <1>5, <1>8, <1>11, <1>12 DEF RowBooks, Fresh
  <1>14. Drafted(m)
    BY <1>3, <1>4, <1>11, <1>12, <1>13 DEF Drafted, SameSettlement
  <1> QED
    BY <1>1, <1>2, <1>3, <1>6, <1>14, EndWorks, SaveKeeps

-----------------------------------------------------------------------------
(* SETTLEMENT                                                               *)

LEMMA CloseKeeps ==
    ASSUME MesaInv, PurseInv, CoinsInv, NEW q \in Pool, CommitClose(q)
    PROVE  CoinsInv'
  <1> DEFINE w == request[q]
             seen == w.seen
             rows == w.rows
             prize == Prize(seen, rows)
             t == mesa.terms
             reward == Reward(seen.gross, t)
  <1>1. w \in Pass /\ rows # Null /\ w.op = "close"
    BY DEF CommitClose, MesaInv, RequestsTyped, Work, Idle, Join, Edit, Closing, Finish
  <1>2. seen \in MesaRow /\ rows \in Table /\ DOMAIN rows \subseteq Users
    BY <1>1 DEF Pass, Table
  <1>3. mesa \in MesaRow /\ mesa # NoMesa
    BY <1>1, IdleIsNoEntry, MesaExists
  <1>4. /\ mesa.status # "DRAFT" /\ seen.terms = t /\ seen.gross \in 0..mesa.gross
        /\ Paying(t) => SettlesAll(w)
    BY <1>1 DEF CoinsInv, InHand
  <1>5. RowBooks(mesa) /\ t \in Term /\ mesa.fee \in Int
    BY <1>3 DEF CoinsInv, Books, MesaRow
  <1>6. mesa.gross = Debited /\ Debited \in Nat
    BY <1>5, SumsTyped DEF RowBooks
  <1>7. ~mesa.settled /\ \A u \in Users : wallet[u].credited = Stake[u]
    BY DEF CommitClose, Unsettled, PurseInv
  <1>8. WriteRows(rows) /\ End(q)
    BY DEF CommitClose
  <1>9. wallet' = [u \in Users |->
                     IF u \in DOMAIN prize THEN Pay(wallet[u], prize[u]) ELSE wallet[u]]
    BY DEF CommitClose
  <1>10. /\ mesa'.status = "CLOSED" /\ mesa'.terms = t /\ mesa'.settled /\ mesa'.gross = mesa.gross
         /\ mesa'.fee = PlatformFee(seen.gross) /\ mesa'.ready = mesa.ready
         /\ mesa'.closedAt = mesa.closedAt /\ mesa'.seats = mesa.seats /\ mesa' \in MesaRow
    <2> DEFINE fee == PlatformFee(seen.gross)
               pool == Reward(seen.gross, seen.terms)
    <2>1. fee \in Int /\ pool \in Int
      <3>1. seen.gross \in Int /\ seen.terms \in Term
        BY <1>2 DEF MesaRow
      <3> QED
        BY <3>1, MoneyType
    <2>2. mesa' = [mesa EXCEPT !.settled = TRUE, !.status = "CLOSED", !.fee = fee, !.pool = pool]
      BY DEF CommitClose
    <2> HIDE DEF fee, pool
    <2>3. /\ mesa'.status = "CLOSED" /\ mesa'.terms = t /\ mesa'.settled
          /\ mesa'.gross = mesa.gross /\ mesa'.fee = fee /\ mesa'.ready = mesa.ready
          /\ mesa'.closedAt = mesa.closedAt /\ mesa'.seats = mesa.seats /\ mesa' \in MesaRow
      BY <1>3, <2>1, <2>2 DEF MesaRow
    <2> QED
      BY <2>3 DEF fee
  <1>11. Approved' = Approved /\ (AllCaptured => AllCaptured')
    BY <1>1, <1>8, WriteRowsSane, SamePlayersCaptured DEF MesaInv
  <1>12. Onward
    BY <1>3, <1>4, <1>5, <1>6, <1>10, <1>11 DEF Onward, SettlesAll
  <1>13. \A p \in Pool : InHand(request[p])'
    BY <1>3, <1>8, <1>10, <1>12, EndWorks, WorkStaysKnown
  <1>14. /\ DOMAIN prize \subseteq Users
         /\ \A u \in DOMAIN prize : prize[u] \in Nat
         /\ SumFunction(prize) <= (IF reward > 0 THEN reward ELSE 0)
         /\ /\ t.category = "PAID" /\ reward > 0
            /\ \E u \in DOMAIN rows : GroupPercentage(u, Positions(rows), t.distribution) > 0
            => SumFunction(prize) = reward
    <2> HIDE DEF seen, rows
    <2> QED
      BY <1>2, <1>4, PrizesAddUp
  <1> HIDE DEF prize
  <1>15. /\ Debited' = Debited
         /\ PaidOut' = SumFunction(prize) /\ SumFunction(prize) \in Nat
    BY <1>7, <1>9, <1>14, PrizesArePaid
  <1>16. /\ PrizePool(seen.gross) \in Nat /\ PrizePool(Debited) \in Nat
         /\ PlatformFee(seen.gross) \in Nat
         /\ PrizePool(seen.gross) <= PrizePool(Debited)
         /\ PrizePool(seen.gross) + PlatformFee(seen.gross) = seen.gross
         /\ PrizePool(seen.gross) = 0 => seen.gross = 0
    <2>1. seen.gross \in Nat /\ seen.gross <= Debited
      BY <1>4, <1>6
    <2> QED
      BY <1>6, <2>1, PoolGrows
  <1>17. t.sponsor \in Nat /\ reward = PrizePool(seen.gross)
            + (IF t.category = "SPONSORED_FREE" THEN t.sponsor ELSE 0)
    BY <1>5 DEF Reward, Term
  <1>18. PaidOut' <= PrizePool(Debited) + t.sponsor
    <2>1. reward >= 0 /\ reward <= PrizePool(Debited) + t.sponsor
      <3>1. CASE t.category = "SPONSORED_FREE"
        BY <1>16, <1>17, <3>1
      <3>2. CASE t.category # "SPONSORED_FREE"
        BY <1>16, <1>17, <3>2
      <3> QED
        BY <3>1, <3>2
    <2>2. reward \in Int
      BY <1>16, <1>17
    <2> HIDE DEF reward
    <2> QED
      BY <1>14, <1>15, <1>16, <1>17, <2>1, <2>2
  <1>19. ASSUME Paying(t)
         PROVE  mesa.closedAt # Null /\ PaidOut' + PlatformFee(seen.gross) = Debited
    <2>1. SettlesAll(w)
      BY <1>4, <1>19
    <2>2. mesa.closedAt # Null /\ seen.gross = Debited /\ \E u \in DOMAIN rows : rows[u].position = 1
      BY <1>1, <1>6, <2>1 DEF SettlesAll
    <2>3. ValidDistribution(t.distribution) /\ t.distribution \in Seq(Nat) /\ t.category = "PAID"
      BY <1>5, <1>19, TermsAreSound DEF RowBooks, Term, Paying
    <2>4. \E u \in DOMAIN rows : GroupPercentage(u, Positions(rows), t.distribution) > 0
      <3> DEFINE S == DOMAIN rows
                 position == Positions(rows)
      <3>1. PICK u \in S : rows[u].position = 1
        BY <2>2
      <3>2. IsFiniteSet(S)
        BY <1>2, MesaAssumption, FS_Subset
      <3>3. position \in [S -> Nat] /\ position[u] = 1
        BY <1>2, <3>1 DEF Positions, Table, Row
      <3> HIDE DEF position, S
      <3>4. GroupPercentage(u, position, t.distribution) > 0
        BY <2>3, <3>1, <3>2, <3>3, FirstWins
      <3> QED
        BY <3>1, <3>4 DEF position, S
    <2>5. reward = PrizePool(seen.gross)
      BY <1>16, <1>17, <2>3
    <2> HIDE DEF reward
    <2>6. CASE reward > 0
      <3>1. SumFunction(prize) = reward
        BY <1>14, <2>3, <2>4, <2>6
      <3> QED
        BY <1>6, <1>15, <1>16, <2>2, <2>5, <3>1
    <2>7. CASE ~(reward > 0)
      <3>1. SumFunction(prize) <= 0
        BY <1>14, <2>7
      <3> QED
        BY <1>6, <1>15, <1>16, <2>2, <2>5, <2>7, <3>1
    <2> QED
      BY <2>6, <2>7
  <1> HIDE DEF w, seen, rows, t, reward
  <1>20. Settled(mesa)'
    <2>1. PaidOut' <= PrizePool(Debited') + mesa'.terms.sponsor
      BY <1>10, <1>15, <1>18
    <2>2. Paying(mesa'.terms) => mesa'.closedAt # Null /\ PaidOut' + mesa'.fee = Debited'
      BY <1>10, <1>15, <1>19
    <2> QED
      BY <2>1, <2>2 DEF Settled, Paying, PrizePool, PlatformFee
  <1>21. RowBooks(mesa)'
    BY <1>5, <1>6, <1>10, <1>15, <1>20 DEF RowBooks, t
  <1> QED
    BY <1>10, <1>13, <1>21 DEF CoinsInv, Books

-----------------------------------------------------------------------------
(* COINS, STEP BY STEP                                                      *)

LEMMA CoinsStart == Init => CoinsInv
  <1> SUFFICES ASSUME Init PROVE CoinsInv
    OBVIOUS
  <1>1. \A q \in Pool : request[q] = Idle
    BY DEF Init, Pool
  <1>2. \A q \in Pool : InHand(request[q])
    BY <1>1 DEF InHand, Idle, Edit, Join, Closing, Pass
  <1> QED
    BY <1>2 DEF CoinsInv, Books, Init

LEMMA NextKeeps ==
    MesaInv /\ PurseInv /\ OnlyDraftsEdited /\ CoinsInv /\ [Next]_vars => CoinsInv'
  <1> SUFFICES ASSUME MesaInv, PurseInv, OnlyDraftsEdited, CoinsInv, [Next]_vars
               PROVE  CoinsInv'
    OBVIOUS
  <1>1. CASE \E t \in Terms, admin \in BOOLEAN, mode \in {"DRAFT", "AT_START", "NOW"} :
               Create(t, admin, mode)
    BY <1>1, CreateKeeps
  <1>2. CASE Publish \/ PublishScheduled
    BY <1>2, PublishNowKeeps
  <1>3. ASSUME NEW q \in Requests, Enrol(q)
        PROVE  CoinsInv'
    <2>1. q \in Pool
      BY DEF Pool
    <2>2. CASE \E u \in Users, invited \in BOOLEAN : StartJoin(q, u, invited)
      BY <2>1, <2>2, StartKeeps
    <2>3. CASE \E t \in NewTerms, admin \in BOOLEAN,
                  mode \in {"KEEP", "DRAFT", "AT_START", "NOW"} : StartEdit(q, t, admin, mode)
      BY <2>1, <2>3, StartKeeps
    <2> QED
      BY <1>3, <2>2, <2>3, CommitJoinKeeps, CommitEditKeeps DEF Enrol
  <1>4. ASSUME NEW q \in Requests, \E force \in BOOLEAN : StartClose(q, force)
        PROVE  CoinsInv'
    BY <1>4, StartKeeps DEF Pool
  <1>5. ASSUME NEW q \in Jobs, StartJob(q) \/ StartRecalculation(q)
        PROVE  CoinsInv'
    BY <1>5, StartKeeps DEF Pool, StartJob
  <1>6. ASSUME NEW q \in Jobs, CommitJob(q) \/ CommitRecalculation(q)
        PROVE  CoinsInv'
    BY <1>6, JobKeeps, RecalculationKeeps DEF Pool, CommitJob
  <1>7. ASSUME NEW q \in Pool, BuildRows(q) \/ CommitClose(q)
        PROVE  CoinsInv'
    BY <1>7, BuildRowsKeeps, CloseKeeps
  <1>8. ASSUME NEW q \in Pool, RollBack(q)
        PROVE  CoinsInv'
    <2>1. Works /\ UNCHANGED <<wallet, mesa, participant>> /\ mesa # NoMesa
      BY <1>8, EndWorks, MesaExists DEF RollBack
    <2> QED
      BY <2>1, ReadingKeeps
  <1>9. CASE Capture
    BY <1>9, CaptureKeeps
  <1>10. CASE Season \/ (\E max \in InviteUses : CreateInvite(max)) \/ UNCHANGED vars
    <2>1. UNCHANGED <<wallet, mesa, participant, request>>
      BY <1>10 DEF Season, OpenRound, CloseRound, ScoreRound, CancelRound, Tick, LosePro,
                   CreateInvite, vars
    <2> QED
      BY <2>1, ReadingKeeps DEF Works
  <1> QED
    BY <1>1, <1>2, <1>3, <1>4, <1>5, <1>6, <1>7, <1>8, <1>9, <1>10 DEF Next, Pool

-----------------------------------------------------------------------------
(* THE THEOREMS                                                             *)

\* However many requests and jobs overlap, a player is charged exactly what the
\* one participation says, and every participation holds one seat
\* (JoinBolaoService, PublishMesaService, UpdateMesaService).
THEOREM EntriesHold == Spec => []EntriesAccounted
  <1>1. MesaInv => EntriesAccounted
    BY DEF MesaInv, Seated
  <1> QED
    BY Inductive, <1>1, PTL

\* An invite is used up only by the entries it let in, and never beyond its limit
\* (UseBolaoInviteService).
THEOREM InvitesHold == Spec => []InviteUsesAccounted
  <1>1. MesaInv => InviteUsesAccounted
    BY DEF MesaInv, InviteHeld
  <1> QED
    BY Inductive, <1>1, PTL

\* The round that closed the registrations and the captured scores are final
\* (JoinBolaoService, MesaLifecycleService, MesaInitialScoreService).
THEOREM CaptureHolds == Spec => CaptureIsFinal
  <1>1. MesaInv /\ [Next]_vars => [StaysCaptured]_vars
    BY NextHolds
  <1>2. [StaysCaptured]_vars
          => [/\ mesa # NoMesa /\ mesa.ref # Null =>
                   mesa'.ref = mesa.ref /\ mesa'.closedAt = mesa.closedAt
              /\ \A u \in Users : participant[u] # Null /\ participant[u].base # Null =>
                   participant'[u] # Null /\ participant'[u].base = participant[u].base]_vars
    BY DEF StaysCaptured
  <1> QED
    BY Inductive, <1>1, <1>2, PTL DEF Spec, CaptureIsFinal

\* A Mesa moves coins as the ledger promises: no step overdraws a wallet, or
\* changes a balance without a row (BolaoEntryPaymentService, SettleBolaoService).
THEOREM MesaImplementsLedger == Spec => LedgerSpec
  <1>1. Init => L!Init
    BY PurseStarts
  <1>2. MesaInv /\ PurseInv /\ [Next]_vars => [L!Post]_wallet
    BY NextPosts DEF Posts
  <1> QED
    BY PurseInductive, <1>1, <1>2, PTL DEF Spec, LedgerSpec, L!Spec

\* Whatever requests and jobs overlap, and whatever is edited, a player is paid only
\* in the step that settles the Mesa, and a Mesa is settled once (SettleBolaoService).
PaidOnce ==
    /\ [](mesa = NoMesa \/ ~mesa.settled => \A u \in Users : wallet[u].credited = Stake[u])
    /\ [][\A u \in Users : wallet'[u].credited # wallet[u].credited =>
            mesa # NoMesa /\ ~mesa.settled /\ mesa'.settled]_vars

THEOREM WinnersArePaidOnce == Spec => PaidOnce
  <1>1. PurseInv => (mesa = NoMesa \/ ~mesa.settled => \A u \in Users : wallet[u].credited = Stake[u])
    BY DEF PurseInv
  <1>2. MesaInv /\ PurseInv /\ [Next]_vars =>
          [\A u \in Users : wallet'[u].credited # wallet[u].credited =>
             mesa # NoMesa /\ ~mesa.settled /\ mesa'.settled]_vars
    BY NextPosts DEF Posts
  <1> QED
    BY PurseInductive, <1>1, <1>2, PTL DEF Spec, PaidOnce

\* Coins neither appear nor vanish in a Mesa that nobody edits once it is published,
\* whoever enters and whatever job or request closes it meanwhile: the winners get at
\* most what the entries left after the fee plus the sponsor's share, and a settled paid
\* Mesa leaves every coin its players paid with the platform or with a winner.  With
\* edits of a published Mesa the statement is false: an edit decided before the first
\* entry commits resets the coins counted (UpdateMesaService).
THEOREM CoinsConserved == Spec /\ []OnlyDraftsEdited => []CoinsAreConserved
  <1>1. Init => CoinsInv
    BY CoinsStart
  <1>2. MesaInv /\ PurseInv /\ OnlyDraftsEdited /\ CoinsInv /\ [Next]_vars => CoinsInv'
    BY NextKeeps
  <1>3. MesaInv /\ PurseInv /\ CoinsInv => CoinsAreConserved
    <2> SUFFICES ASSUME MesaInv, PurseInv, CoinsInv, mesa # NoMesa
                 PROVE  /\ PaidOut <= PrizePool(Debited)
                                        + (IF mesa.settled THEN mesa.terms.sponsor ELSE 0)
                        /\ mesa.settled /\ mesa.terms.category = "PAID" => PaidOut + mesa.fee = Debited
      BY DEF CoinsAreConserved
    <2>1. RowBooks(mesa) /\ Debited \in Nat
      BY SumsTyped DEF CoinsInv, Books
    <2>2. PrizePool(Debited) \in Nat
      BY <2>1, PoolGrows
    <2>3. CASE mesa.settled
      BY <2>1, <2>3 DEF RowBooks, Settled, Paying
    <2>4. CASE ~mesa.settled
      BY <2>2, <2>4, SumsTyped
    <2> QED
      BY <2>3, <2>4
  <1> QED
    BY PurseInductive, <1>1, <1>2, <1>3, PTL DEF Spec

-----------------------------------------------------------------------------
(* WHO GETS WHICH PRIZE                                                     *)

\* A share that is rounded down, or up because it is not whole, is less than a coin off.
LEMMA WithinACoin ==
    ASSUME NEW s \in Share, NEW coins,
           coins = Whole(s) \/ (coins = Whole(s) + 1 /\ Remainder(s) > 0)
    PROVE  /\ coins * s.divisor > s.dividend - s.divisor
           /\ coins * s.divisor < s.dividend + s.divisor
  <1> DEFINE w == Whole(s)
             r == Remainder(s)
             d == s.divisor
             a == s.dividend
  <1>1. /\ a \in Nat /\ d \in Nat \ {0} /\ w \in Nat /\ r \in Nat
        /\ a = w * d + r /\ a < (w + 1) * d
    BY ShareType
  <1>2. coins = w \/ (coins = w + 1 /\ r > 0)
    OBVIOUS
  <1> HIDE DEF w, r, d, a
  <1>3. w * d \in Int /\ (w + 1) * d = w * d + d
    BY <1>1
  <1>4. CASE coins = w
    BY <1>1, <1>3, <1>4 DEF d, a
  <1>5. CASE coins = w + 1 /\ r > 0
    <2>1. coins * d = w * d + d
      BY <1>3, <1>5
    <2> QED
      BY <1>1, <1>3, <1>5, <2>1 DEF d, a
  <1> QED
    BY <1>2, <1>4, <1>5

\* Shares that can be given out of a pool, and what is then given.
Allocatable(W, share, pool, order, floor) ==
    /\ IsFiniteSet(W) /\ share \in [W -> Share] /\ pool \in Nat
    /\ (\A u \in W : order[u] \in Int) /\ (\A u, v \in W : order[u] = order[v] => u = v)
    /\ \A u \in W : floor[u] = Whole(share[u])
    /\ SumFunctionOnSet(floor, W) <= pool
    /\ pool <= SumFunctionOnSet(floor, W) + Cardinality(Broken(share))

Allocated(W, share, pool, paid) ==
    /\ DOMAIN paid = W /\ SumFunction(paid) = pool
    /\ \A u \in W : \/ paid[u] = Whole(share[u])
                    \/ paid[u] = Whole(share[u]) + 1 /\ u \in Broken(share)
    /\ \A u, v \in W : Larger(share[u], share[v]) => paid[u] >= paid[v]

LEMMA AllocateFairly ==
    ASSUME NEW W, NEW share, NEW pool, NEW order, NEW floor,
           Allocatable(W, share, pool, order, floor)
    PROVE  Allocated(W, share, pool, Allocate(pool, share, order))
  <1>1. /\ IsFiniteSet(W) /\ share \in [W -> Share] /\ pool \in Nat
        /\ \A u \in W : order[u] \in Int
        /\ \A u, v \in W : order[u] = order[v] => u = v
        /\ \A u \in W : floor[u] = Whole(share[u])
        /\ SumFunctionOnSet(floor, W) <= pool
        /\ pool <= SumFunctionOnSet(floor, W) + Cardinality(Broken(share))
    BY DEF Allocatable
  <1>2. /\ DOMAIN Allocate(pool, share, order) = W
        /\ SumFunction(Allocate(pool, share, order)) = pool
    BY <1>1, AllocateAll
  <1>3. \A u \in W : \/ Allocate(pool, share, order)[u] = Whole(share[u])
                     \/ /\ Allocate(pool, share, order)[u] = Whole(share[u]) + 1
                        /\ u \in Broken(share)
    BY <1>1, AllocateAll
  <1>4. \A u, v \in W : Larger(share[u], share[v]) =>
            Allocate(pool, share, order)[u] >= Allocate(pool, share, order)[v]
    BY <1>1, AllocateAll
  <1> QED
    BY <1>2, <1>3, <1>4 DEF Allocated

\* The shares of a pool are paid to the last coin, each to within a coin of what it is,
\* and a larger one is not paid less.
LEMMA SharesArePaid ==
    ASSUME NEW S, IsFiniteSet(S), NEW position \in [S -> Nat], NEW percentage \in Seq(Nat),
           NEW pool \in Nat \ {0}, NEW order, \A u \in S : order[u] \in Int,
           \A u, v \in S : order[u] = order[v] => u = v,
           \E u \in S : GroupPercentage(u, position, percentage) > 0
    PROVE  LET share == Shares(pool, Weights(position, percentage), position)
               paid == Payouts(pool, percentage, position, order)
           IN  /\ SumFunction(paid) = pool
               /\ \A u \in DOMAIN paid :
                    /\ paid[u] * share[u].divisor > share[u].dividend - share[u].divisor
                    /\ paid[u] * share[u].divisor < share[u].dividend + share[u].divisor
                    /\ \A v \in DOMAIN paid : Larger(share[u], share[v]) => paid[u] >= paid[v]
  <1> DEFINE weight == Weights(position, percentage)
             W == DOMAIN weight
             share == Shares(pool, weight, position)
             paid == Payouts(pool, percentage, position, order)
             floor == [u \in W |-> Whole(share[u])]
  <1>1. W = {u \in S : GroupPercentage(u, position, percentage) > 0}
    BY DEF Weights
  <1>2. IsFiniteSet(W) /\ W \subseteq S /\ W # {}
    BY <1>1, FS_Subset
  <1>3. /\ share \in [W -> Share]
        /\ SumFunction(floor) <= pool /\ pool <= SumFunction(floor) + Cardinality(Broken(share))
    BY <1>2, SharesFit
  <1>4. SumFunction(floor) = SumFunctionOnSet(floor, W)
    BY DEF SumFunction
  <1>5. \A u \in W : floor[u] = Whole(share[u])
    OBVIOUS
  <1>6. (\A u \in W : order[u] \in Int) /\ (\A u, v \in W : order[u] = order[v] => u = v)
        /\ pool \in Nat /\ pool > 0
    BY <1>2
  <1>7. paid = Allocate(pool, share, order)
    BY <1>6 DEF Payouts
  <1> HIDE DEF share, W, floor, paid
  <1>8. /\ DOMAIN paid = W /\ SumFunction(paid) = pool
        /\ \A u \in W : \/ paid[u] = Whole(share[u])
                        \/ paid[u] = Whole(share[u]) + 1 /\ u \in Broken(share)
        /\ \A u, v \in W : Larger(share[u], share[v]) => paid[u] >= paid[v]
    <2>1. /\ SumFunctionOnSet(floor, W) <= pool
          /\ pool <= SumFunctionOnSet(floor, W) + Cardinality(Broken(share))
      BY <1>3, <1>4
    <2>2. Allocatable(W, share, pool, order, floor)
      BY <1>2, <1>3, <1>5, <1>6, <2>1 DEF Allocatable
    <2>3. Allocated(W, share, pool, Allocate(pool, share, order))
      BY <2>2, AllocateFairly
    <2> QED
      BY <1>7, <2>3 DEF Allocated
  <1>9. ASSUME NEW u \in W
        PROVE  /\ paid[u] * share[u].divisor > share[u].dividend - share[u].divisor
               /\ paid[u] * share[u].divisor < share[u].dividend + share[u].divisor
    <2>1. share[u] \in Share
      BY <1>3
    <2>2. u \in Broken(share) => Remainder(share[u]) > 0
      BY DEF Broken
    <2>3. \/ paid[u] = Whole(share[u])
          \/ paid[u] = Whole(share[u]) + 1 /\ Remainder(share[u]) > 0
      BY <1>8, <2>2
    <2> QED
      BY <2>1, <2>3, WithinACoin
  <1> QED
    BY <1>8, <1>9 DEF share, paid

-----------------------------------------------------------------------------
(* POSITIONS                                                                *)

\* Better is an order of what players have done, in which only equals are not comparable.
LEMMA BetterOrders ==
    ASSUME NEW a \in Metric, NEW b \in Metric, NEW c \in Metric
    PROVE  /\ ~Better(a, a)
           /\ Better(a, b) /\ Better(b, c) => Better(a, c)
           /\ Better(a, b) \/ Better(b, a) \/ a = b
  <1>1. /\ a.score \in Int /\ a.superDoubles \in Int /\ a.doubles \in Int /\ a.created \in Int
        /\ b.score \in Int /\ b.superDoubles \in Int /\ b.doubles \in Int /\ b.created \in Int
        /\ c.score \in Int /\ c.superDoubles \in Int /\ c.doubles \in Int /\ c.created \in Int
    BY DEF Metric
  <1>2. ~Better(a, a)
    BY <1>1 DEF Better
  <1>3. Better(a, b) /\ Better(b, c) => Better(a, c)
    BY <1>1 DEF Better
  <1>4. Better(a, b) \/ Better(b, a) \/ a = b
    <2> SUFFICES ASSUME ~Better(a, b), ~Better(b, a)
                 PROVE  a = b
      OBVIOUS
    <2>1. /\ a.score = b.score /\ a.superDoubles = b.superDoubles
          /\ a.doubles = b.doubles /\ a.created = b.created
      BY <1>1 DEF Better
    <2> QED
      BY <2>1 DEF Metric
  <1> QED
    BY <1>2, <1>3, <1>4

Preceding(S, metrics) ==
    {p \in S \X S : Precedes(metrics, p[1], p[2])}

\* The players in the order of the rows, a chain of them.
LEMMA RowsAreAChain ==
    ASSUME NEW S, S \subseteq Int, NEW metrics \in [S -> Metric]
    PROVE  /\ Chain(S, Preceding(S, metrics))
           /\ \A u, v \in S : <<u, v>> \in Preceding(S, metrics) <=> Precedes(metrics, u, v)
           /\ \A u \in S : Ahead(S, Preceding(S, metrics), u) = {v \in S : Precedes(metrics, v, u)}
  <1> DEFINE before == Preceding(S, metrics)
  <1>1. \A u, v \in S : <<u, v>> \in before <=> Precedes(metrics, u, v)
    BY DEF Preceding
  <1> HIDE DEF before
  <1>2. \A u \in S : <<u, u>> \notin before
    BY <1>1, BetterOrders DEF Precedes
  <1>3. \A u, v \in S : Precedes(metrics, u, v) =>
            Better(metrics[u], metrics[v]) \/ (metrics[u] = metrics[v] /\ u < v)
    BY BetterOrders DEF Precedes
  <1>4. ASSUME NEW u \in S, NEW v \in S, NEW w \in S, <<u, v>> \in before, <<v, w>> \in before
        PROVE  <<u, w>> \in before
    <2> DEFINE a == metrics[u]
               b == metrics[v]
               c == metrics[w]
    <2>1. a \in Metric /\ b \in Metric /\ c \in Metric /\ u \in Int /\ v \in Int /\ w \in Int
      OBVIOUS
    <2>2. Better(a, b) \/ (a = b /\ u < v)
      BY <1>1, <1>3, <1>4
    <2>3. Better(b, c) \/ (b = c /\ v < w)
      BY <1>1, <1>3, <1>4
    <2> HIDE DEF a, b, c
    <2>4. Better(a, c) \/ (a = c /\ u < w)
      <3>1. CASE Better(a, b) /\ Better(b, c)
        BY <2>1, <3>1, BetterOrders
      <3>2. CASE ~(Better(a, b) /\ Better(b, c))
        BY <2>1, <2>2, <2>3, <3>2
      <3> QED
        BY <3>1, <3>2
    <2>5. ~Better(a, a)
      BY <2>1, BetterOrders
    <2>6. Precedes(metrics, u, w)
      BY <2>4, <2>5 DEF Precedes, a, c
    <2> QED
      BY <1>1, <2>6
  <1>5. ASSUME NEW u \in S, NEW v \in S, u # v
        PROVE  <<u, v>> \in before \/ <<v, u>> \in before
    <2>1. u \in Int /\ v \in Int
      OBVIOUS
    <2>2. u < v \/ v < u
      BY <1>5, <2>1
    <2> QED
      BY <1>1, <2>2 DEF Precedes
  <1>6. Chain(S, before)
    BY <1>2, <1>4, <1>5 DEF Chain, StrictOrder
  <1>7. \A u \in S : Ahead(S, before, u) = {v \in S : Precedes(metrics, v, u)}
    BY <1>1 DEF Ahead
  <1> QED
    BY <1>1, <1>6, <1>7 DEF before

\* The number of players who come before.
Places(metrics) == [u \in DOMAIN metrics |->
    Cardinality({v \in DOMAIN metrics : Precedes(metrics, v, u)})]

SortedBy(S, metrics, N, sorted, n) ==
    /\ N \in Nat /\ sorted \in [1..N -> S]
    /\ \A i \in 1..N : n[sorted[i]] = i - 1
    /\ \A u \in S : \E i \in 1..N : sorted[i] = u
    /\ \A u, v \in S : n[u] = n[v] => u = v
    /\ \A u \in S : n[u] \in Nat
    /\ \A u, v \in S : Precedes(metrics, u, v) <=> n[u] < n[v]

\* Every player has a row of the sorted table, below those who come before.
LEMMA SortedRows ==
    ASSUME NEW S, S \subseteq Int, IsFiniteSet(S), NEW metrics \in [S -> Metric]
    PROVE  SortedBy(S, metrics, Cardinality(S), Sorted(metrics), Places(metrics))
  <1> DEFINE N == Cardinality(S)
             sorted == Sorted(metrics)
             before == Preceding(S, metrics)
             n == Places(metrics)
  <1>1. N \in Nat
    BY FS_CardinalityType
  <1>2. /\ Chain(S, before)
        /\ \A u, v \in S : <<u, v>> \in before <=> Precedes(metrics, u, v)
        /\ \A u \in S : Ahead(S, before, u) = {v \in S : Precedes(metrics, v, u)}
    BY RowsAreAChain
  <1> HIDE DEF before
  <1>3. \A u \in S : n[u] = Cardinality(Ahead(S, before, u))
    <2> SUFFICES ASSUME NEW u \in S
                 PROVE  n[u] = Cardinality(Ahead(S, before, u))
      OBVIOUS
    <2>1. DOMAIN metrics = S
      OBVIOUS
    <2>2. n[u] = Cardinality({v \in S : Precedes(metrics, v, u)})
      BY <2>1 DEF Places
    <2> QED
      BY <1>2, <2>2
  <1> DEFINE place == [u \in S |-> 1 + Cardinality({v \in S : Precedes(metrics, v, u)})]
  <1>4. /\ sorted = [i \in 1..N |-> CHOOSE u \in S : place[u] = i]
        /\ \A u \in S : place[u] = 1 + n[u]
    <2>1. DOMAIN metrics = S
      OBVIOUS
    <2> QED
      BY <2>1 DEF Sorted, Places
  <1> HIDE DEF n, sorted, N, place
  <1>5. /\ \A u \in S : n[u] \in 0..(N - 1)
        /\ \A u, v \in S : n[u] = n[v] => u = v
        /\ \A t \in 0..(N - 1) : \E u \in S : n[u] = t
    <2> DEFINE m == [u \in S |-> Cardinality(Ahead(S, before, u))]
    <2>1. m \in Bijection(S, 0..(N - 1))
      BY <1>2, ChainPlaces DEF N
    <2>2. \A u \in S : n[u] = m[u]
      BY <1>3
    <2> HIDE DEF m
    <2> QED
      BY <2>1, <2>2 DEF Bijection, Injection, IsInjective, Surjection
  <1>6. ASSUME NEW i \in 1..N
        PROVE  sorted[i] \in S /\ n[sorted[i]] = i - 1
    <2>1. i - 1 \in 0..(N - 1)
      BY <1>1
    <2>2. PICK u \in S : n[u] = i - 1
      BY <1>5, <2>1
    <2>3. \E w \in S : place[w] = i
      BY <1>4, <2>2
    <2>4. sorted[i] = CHOOSE w \in S : place[w] = i
      BY <1>4
    <2>5. sorted[i] \in S /\ 1 + n[sorted[i]] = i
      BY <1>4, <2>3, <2>4
    <2>6. n[sorted[i]] \in 0..(N - 1)
      BY <1>5, <2>5
    <2> QED
      BY <2>5, <2>6
  <1>7. sorted \in [1..N -> S]
    BY <1>4, <1>6
  <1>8. ASSUME NEW u \in S
        PROVE  n[u] \in Nat /\ \E i \in 1..N : sorted[i] = u
    <2> DEFINE i == n[u] + 1
    <2>1. n[u] \in 0..(N - 1)
      BY <1>5
    <2>2. n[u] \in Nat /\ i \in 1..N /\ i - 1 = n[u]
      BY <1>1, <2>1
    <2>3. sorted[i] \in S /\ n[sorted[i]] = n[u]
      BY <1>6, <2>2
    <2>4. sorted[i] = u
      BY <1>5, <2>3
    <2> QED
      BY <2>2, <2>4
  <1>9. ASSUME NEW u \in S, NEW v \in S
        PROVE  Precedes(metrics, u, v) <=> n[u] < n[v]
    <2>1. n[u] \in Nat /\ n[v] \in Nat
      BY <1>8
    <2>2. ASSUME NEW x \in S, NEW y \in S, Precedes(metrics, x, y)
          PROVE  n[x] < n[y]
      <3>1. <<x, y>> \in before /\ StrictOrder(S, before)
        BY <1>2, <2>2 DEF Chain
      <3>2. Cardinality(Ahead(S, before, x)) < Cardinality(Ahead(S, before, y))
        BY <3>1, AheadGrows
      <3> QED
        BY <1>3, <3>2
    <2>3. ASSUME n[u] < n[v]
          PROVE  Precedes(metrics, u, v)
      <3>1. u # v
        BY <2>1, <2>3
      <3>2. Precedes(metrics, u, v) \/ Precedes(metrics, v, u)
        BY <1>2, <3>1 DEF Chain
      <3>3. ~Precedes(metrics, v, u)
        <4> SUFFICES ASSUME Precedes(metrics, v, u)
                     PROVE  FALSE
          OBVIOUS
        <4>1. n[v] < n[u]
          BY <2>2
        <4> QED
          BY <2>1, <2>3, <4>1
      <3> QED
        BY <3>2, <3>3
    <2> QED
      BY <2>2, <2>3
  <1>10. /\ \A i \in 1..N : n[sorted[i]] = i - 1
         /\ \A u \in S : \E i \in 1..N : sorted[i] = u
         /\ \A u, v \in S : n[u] = n[v] => u = v
         /\ \A u \in S : n[u] \in Nat
         /\ \A u, v \in S : Precedes(metrics, u, v) <=> n[u] < n[v]
    BY <1>5, <1>6, <1>8, <1>9
  <1> QED
    BY <1>1, <1>7, <1>10 DEF N, n, sorted, SortedBy

\* The position of the player in row i.
Standing(metrics, i) == Position(metrics)[Sorted(metrics)[i]]

\* Going down the rows, the position stays with the metrics or is the number of the row.
LEMMA StandingsSkip ==
    ASSUME NEW S, S \subseteq Int, IsFiniteSet(S), NEW metrics \in [S -> Metric],
           NEW i \in 1..Cardinality(S)
    PROVE  Standing(metrics, i) =
             IF i = 1 THEN 1
             ELSE IF metrics[Sorted(metrics)[i]] = metrics[Sorted(metrics)[i - 1]]
                  THEN Standing(metrics, i - 1)
                  ELSE i
  <1> DEFINE N == Cardinality(S)
             sorted == Sorted(metrics)
             n == Places(metrics)
             above(u) == {v \in S : Better(metrics[v], metrics[u])}
             ahead(u) == {v \in S : Precedes(metrics, v, u)}
  <1>1. /\ N \in Nat /\ sorted \in [1..N -> S]
        /\ \A j \in 1..N : n[sorted[j]] = j - 1
        /\ \A u, v \in S : n[u] = n[v] => u = v
        /\ \A u \in S : n[u] \in Nat
        /\ \A u, v \in S : Precedes(metrics, u, v) <=> n[u] < n[v]
    <2>1. SortedBy(S, metrics, N, sorted, n)
      BY SortedRows
    <2> HIDE DEF N, sorted, n
    <2> QED
      BY <2>1 DEF SortedBy
  <1>d. DOMAIN metrics = S
    OBVIOUS
  <1>2. \A u \in S : Position(metrics)[u] = 1 + Cardinality(above(u))
    BY <1>d DEF Position
  <1>3. \A u \in S : n[u] = Cardinality(ahead(u))
    BY <1>d DEF Places
  <1>4. \A u, v \in S : Better(metrics[u], metrics[v]) => Precedes(metrics, u, v)
    BY DEF Precedes
  <1>5. \A u, v \in S : Precedes(metrics, u, v) =>
            Better(metrics[u], metrics[v]) \/ metrics[u] = metrics[v]
    BY BetterOrders DEF Precedes
  <1> HIDE DEF n, sorted, N
  <1>6. \A j \in 1..N : Standing(metrics, j) = 1 + Cardinality(above(sorted[j]))
    <2> HIDE DEF above
    <2> QED
      BY <1>1, <1>2 DEF Standing, sorted
  <1>7. i \in 1..N
    BY DEF N
  <1>8. CASE i = 1
    <2> DEFINE u == sorted[1]
    <2>1. u \in S /\ n[u] = 0
      BY <1>1, <1>7, <1>8
    <2> HIDE DEF u
    <2>2. above(u) = {}
      <3> SUFFICES ASSUME NEW v \in S, Better(metrics[v], metrics[u])
                   PROVE  FALSE
        OBVIOUS
      <3>1. n[v] < n[u]
        BY <1>1, <1>4, <2>1
      <3> QED
        BY <1>1, <2>1, <3>1
    <2>3. Cardinality(above(u)) = 0
      BY <2>2, FS_EmptySet
    <2>4. Standing(metrics, 1) = 1 + Cardinality(above(u))
      BY <1>6, <1>7, <1>8 DEF u
    <2> HIDE DEF above
    <2> QED
      BY <1>8, <2>3, <2>4
  <1>9. CASE i # 1
    <2> DEFINE u == sorted[i]
               w == sorted[i - 1]
    <2>1. i - 1 \in 1..N /\ i \in Int /\ i - 1 # i /\ (i - 1) - 1 = i - 2
      BY <1>1, <1>7, <1>9
    <2>2. u \in S /\ w \in S /\ n[u] = i - 1 /\ n[w] = i - 2
      BY <1>1, <1>7, <2>1
    <2>s. Standing(metrics, i) = 1 + Cardinality(above(u))
          /\ Standing(metrics, i - 1) = 1 + Cardinality(above(w))
      <3> HIDE DEF above
      <3> QED
        BY <1>6, <1>7, <2>1
    <2> HIDE DEF u, w
    <2>3. CASE metrics[u] = metrics[w]
      <3>1. above(u) = above(w)
        BY <2>3
      <3> HIDE DEF above
      <3> QED
        BY <1>9, <2>3, <2>s, <3>1 DEF u, w, sorted
    <2>4. CASE metrics[u] # metrics[w]
      <3>1. Precedes(metrics, w, u)
        BY <1>1, <2>1, <2>2
      <3>2. Better(metrics[w], metrics[u])
        BY <1>5, <2>2, <2>4, <3>1
      <3>3. ASSUME NEW v \in S, Precedes(metrics, v, u)
            PROVE  Better(metrics[v], metrics[u])
        <4> SUFFICES ASSUME ~Better(metrics[v], metrics[u])
                     PROVE  FALSE
          OBVIOUS
        <4>1. metrics[v] = metrics[u]
          BY <1>5, <2>2, <3>3
        <4>2. v # w
          BY <2>4, <4>1
        <4>3. n[v] < i - 1 /\ n[v] \in Nat /\ n[v] # i - 2
          BY <1>1, <2>2, <3>3, <4>2
        <4>4. n[v] < n[w]
          BY <2>1, <2>2, <4>3
        <4>5. Precedes(metrics, v, w)
          BY <1>1, <2>2, <4>4
        <4>6. Better(metrics[v], metrics[w]) \/ metrics[v] = metrics[w]
          BY <1>5, <2>2, <4>5
        <4>7. Better(metrics[u], metrics[w])
          BY <2>4, <4>1, <4>6
        <4>8. metrics[u] \in Metric /\ metrics[w] \in Metric
          BY <2>2
        <4>9. Better(metrics[u], metrics[u])
          BY <3>2, <4>7, <4>8, BetterOrders
        <4> QED
          BY <4>8, <4>9, BetterOrders
      <3>4. above(u) = ahead(u)
        BY <1>4, <2>2, <3>3
      <3>5. Cardinality(above(u)) = i - 1
        BY <1>3, <2>2, <3>4
      <3> HIDE DEF above
      <3>6. Standing(metrics, i) = i
        BY <2>1, <2>s, <3>5
      <3> QED
        BY <1>9, <2>4, <3>6 DEF u, w, sorted
    <2> QED
      BY <2>3, <2>4
  <1> QED
    BY <1>8, <1>9

\* The scan of the sorted rows, as the table that it builds.
Descends(metrics, f) ==
    f = [i \in DOMAIN Sorted(metrics) |->
            IF i = 1 THEN 1
            ELSE IF SameOfficialPosition(metrics[Sorted(metrics)[i]], metrics[Sorted(metrics)[i - 1]])
                 THEN f[i - 1]
                 ELSE Skipping(f[i - 1], i)]

\* The scan gives each player the number of those who are better, and one.
LEMMA RankIsPosition ==
    ASSUME NEW S, S \subseteq Int, IsFiniteSet(S), NEW metrics \in [S -> Metric]
    PROVE  Rank(metrics) = Position(metrics)
  <1> DEFINE N == Cardinality(S)
             sorted == Sorted(metrics)
             n == Places(metrics)
             at == CHOOSE f : Descends(metrics, f)
             standing == [i \in 1..N |-> Standing(metrics, i)]
             Bad == {i \in 1..N : at[i] # standing[i]}
  <1>1. /\ N \in Nat /\ sorted \in [1..N -> S] /\ DOMAIN metrics = S
        /\ \A u \in S : \E i \in 1..N : sorted[i] = u
    <2>1. SortedBy(S, metrics, N, sorted, n)
      BY SortedRows
    <2> HIDE DEF N, sorted, n
    <2> QED
      BY <2>1 DEF SortedBy
  <1>2. Rank(metrics) = [u \in S |-> at[CHOOSE i \in DOMAIN sorted : sorted[i] = u]]
    BY <1>1 DEF Rank, Descends
  <1>3. \A i \in 1..N : standing[i] =
          IF i = 1 THEN 1
          ELSE IF metrics[sorted[i]] = metrics[sorted[i - 1]] THEN standing[i - 1] ELSE i
    <2> SUFFICES ASSUME NEW i \in 1..N
                 PROVE  standing[i] =
                          IF i = 1 THEN 1
                          ELSE IF metrics[sorted[i]] = metrics[sorted[i - 1]]
                               THEN standing[i - 1] ELSE i
      OBVIOUS
    <2>1. Standing(metrics, i) =
            IF i = 1 THEN 1
            ELSE IF metrics[sorted[i]] = metrics[sorted[i - 1]] THEN Standing(metrics, i - 1) ELSE i
      BY StandingsSkip
    <2>2. i # 1 => i - 1 \in 1..N
      BY <1>1
    <2> HIDE DEF sorted
    <2> QED
      BY <2>1, <2>2
  <1> HIDE DEF sorted, N
  <1>4. Descends(metrics, standing)
    <2>1. standing = [i \in 1..N |-> standing[i]]
      OBVIOUS
    <2> HIDE DEF standing
    <2>2. DOMAIN sorted = 1..N
      BY <1>1
    <2>3. standing = [i \in 1..N |->
            IF i = 1 THEN 1
            ELSE IF metrics[sorted[i]] = metrics[sorted[i - 1]] THEN standing[i - 1] ELSE i]
      BY <1>3, <2>1
    <2> QED
      BY <2>2, <2>3 DEF Descends, SameOfficialPosition, Skipping, sorted
  <1>5. Descends(metrics, at)
    BY <1>4
  <1> HIDE DEF at
  <1>6. \A i \in 1..N : at[i] =
          IF i = 1 THEN 1
          ELSE IF metrics[sorted[i]] = metrics[sorted[i - 1]] THEN at[i - 1] ELSE i
    <2>1. DOMAIN sorted = 1..N
      BY <1>1
    <2> QED
      BY <1>5, <2>1 DEF Descends, SameOfficialPosition, Skipping, sorted
  <1> HIDE DEF standing
  <1>7. Bad = {}
    <2> SUFFICES ASSUME Bad # {} PROVE FALSE
      OBVIOUS
    <2> DEFINE k == Min(Bad)
    <2>1. k \in Bad /\ \A j \in Bad : k <= j
      <3>1. Bad \subseteq 1..N /\ N \in Nat
        BY <1>1
      <3> HIDE DEF Bad
      <3> QED
        BY <3>1, MinIsMember
    <2> HIDE DEF k
    <2>2. k \in 1..N /\ at[k] # standing[k]
      BY <2>1
    <2>3. k # 1
      BY <1>3, <1>6, <2>2
    <2>4. k - 1 \in 1..N /\ ~(k <= k - 1)
      BY <1>1, <2>2, <2>3
    <2>5. at[k - 1] = standing[k - 1]
      BY <2>1, <2>4
    <2> QED
      BY <1>3, <1>6, <2>2, <2>5
  <1>8. ASSUME NEW u \in S
        PROVE  Rank(metrics)[u] = Position(metrics)[u]
    <2> DEFINE i == CHOOSE j \in DOMAIN sorted : sorted[j] = u
    <2>1. \E j \in DOMAIN sorted : sorted[j] = u
      BY <1>1
    <2>2. i \in DOMAIN sorted /\ sorted[i] = u
      BY <2>1
    <2>3. i \in 1..N
      BY <1>1, <2>2
    <2>4. Rank(metrics)[u] = at[i]
      BY <1>2
    <2> HIDE DEF i
    <2>5. at[i] = standing[i]
      BY <1>7, <2>3
    <2>6. standing[i] = Position(metrics)[u]
      BY <2>2, <2>3 DEF standing, Standing, sorted
    <2> QED
      BY <2>4, <2>5, <2>6
  <1>9. /\ Rank(metrics) = [u \in S |-> Rank(metrics)[u]]
        /\ Position(metrics) = [u \in S |-> Position(metrics)[u]]
    <2>1. Rank(metrics) = [u \in S |-> Rank(metrics)[u]]
      BY <1>2
    <2>2. Position(metrics) = [u \in S |-> Position(metrics)[u]]
      BY <1>1 DEF Position
    <2> QED
      BY <2>1, <2>2
  <1> QED
    BY <1>8, <1>9

RowNumbers(S, metrics) ==
    [u \in S |-> CHOOSE i \in DOMAIN Sorted(metrics) : Sorted(metrics)[i] = u]

\* The rows give each player a place of its own.
LEMMA OrderOfTheSorted ==
    ASSUME NEW S, S \subseteq Int, IsFiniteSet(S), NEW metrics \in [S -> Metric]
    PROVE  LET order == RowNumbers(S, metrics)
           IN  /\ \A u \in S : order[u] \in Int
               /\ \A u, v \in S : order[u] = order[v] => u = v
  <1> DEFINE N == Cardinality(S)
             sorted == Sorted(metrics)
             n == Places(metrics)
             order == RowNumbers(S, metrics)
  <1>1. /\ N \in Nat /\ sorted \in [1..N -> S]
        /\ \A u \in S : \E i \in 1..N : sorted[i] = u
    <2>1. SortedBy(S, metrics, N, sorted, n)
      BY SortedRows
    <2> HIDE DEF N, sorted, n
    <2> QED
      BY <2>1 DEF SortedBy
  <1>2. \A u \in S : order[u] = CHOOSE i \in DOMAIN sorted : sorted[i] = u
    BY DEF RowNumbers
  <1> HIDE DEF sorted, N, order
  <1>3. \A u \in S : order[u] \in 1..N /\ sorted[order[u]] = u
    <2> SUFFICES ASSUME NEW u \in S
                 PROVE  order[u] \in 1..N /\ sorted[order[u]] = u
      OBVIOUS
    <2>1. \E i \in DOMAIN sorted : sorted[i] = u
      BY <1>1
    <2>2. order[u] \in DOMAIN sorted /\ sorted[order[u]] = u
      BY <1>2, <2>1
    <2> QED
      BY <1>1, <2>2
  <1>4. \A u \in S : order[u] \in Int
    BY <1>1, <1>3
  <1> QED
    BY <1>3, <1>4 DEF order

-----------------------------------------------------------------------------
(* THE QUESTIONS ABOUT PRIZES                                               *)

\* A question about players comes with the metrics of all of them.
PlayersAsked ==
    /\ question.about \in {"positions", "payouts"} => question.metrics \in [Players -> Metric]
    /\ question.about = "payouts" => question.gross \in Gross /\ question.percentage \in Distributions

LEMMA PlayersAskedHolds == RulesSpec => []PlayersAsked
  <1>1. Unasked => PlayersAsked
    BY DEF Unasked, PlayersAsked
  <1>2. ASSUME PlayersAsked, [Asking]_question
        PROVE  PlayersAsked'
    <2>1. CASE AskPositions
      <3>1. PICK metrics \in [Players -> [score : Measures, superDoubles : Measures,
                                          doubles : Measures, created : Measures]] :
              question' = [about |-> "positions", metrics |-> metrics]
        BY <2>1 DEF AskPositions, Asks
      <3>2. metrics \in [Players -> Metric]
        BY RulesAssumption DEF Metric
      <3> QED
        BY <3>1, <3>2 DEF PlayersAsked
    <2>2. CASE AskPayouts
      <3>1. PICK gross \in Gross, percentage \in Distributions, score \in [Players -> 0..2] :
              question' = [about |-> "payouts", gross |-> gross, percentage |-> percentage,
                           metrics |-> [u \in Players |->
                                          [score |-> score[u], superDoubles |-> 0,
                                           doubles |-> 0, created |-> 0]]]
        BY <2>2 DEF AskPayouts, Asks
      <3> DEFINE metrics == [u \in Players |-> [score |-> score[u], superDoubles |-> 0,
                                                doubles |-> 0, created |-> 0]]
      <3>2. metrics \in [Players -> Metric]
        BY DEF Metric
      <3> HIDE DEF metrics
      <3> QED
        BY <3>1, <3>2 DEF PlayersAsked, metrics
    <2>3. CASE AskRenewal \/ AskSchedule \/ AskPeriod \/ AskSearch \/ AskPanel
      <3>1. question'.about \in {"renewal", "schedule", "period", "search", "panel"}
        BY <2>3 DEF AskRenewal, AskSchedule, AskPeriod, AskSearch, AskPanel, Asks
      <3> QED
        BY <3>1 DEF PlayersAsked
    <2>4. CASE UNCHANGED question
      BY <1>2, <2>4 DEF PlayersAsked
    <2> QED
      BY <1>2, <2>1, <2>2, <2>3, <2>4 DEF Asking
  <1> QED
    BY <1>1, <1>2, PTL DEF RulesSpec

\* The fee leaves a pool of whole coins.
LEMMA PoolIsWhole ==
    ASSUME NEW gross \in Nat
    PROVE  PrizePool(gross) \in Nat
  <1> DEFINE fee == gross \div 10
  <1>1. fee \in Nat /\ fee * 10 <= gross
    BY Division
  <1>2. PrizePool(gross) = gross - fee
    BY DEF PrizePool, PlatformFee
  <1> HIDE DEF fee
  <1> QED
    BY <1>1, <1>2

LEMMA PositionType ==
    ASSUME NEW S, IsFiniteSet(S), NEW metrics \in [S -> Metric]
    PROVE  Position(metrics) \in [S -> Nat]
  <1> DEFINE above(u) == {v \in S : Better(metrics[v], metrics[u])}
  <1>1. Position(metrics) = [u \in S |-> 1 + Cardinality(above(u))]
    BY DEF Position
  <1>2. ASSUME NEW u \in S
        PROVE  Cardinality(above(u)) \in Nat
    <2>1. above(u) \subseteq S
      OBVIOUS
    <2> HIDE DEF above
    <2> QED
      BY <2>1, FS_Subset, FS_CardinalityType
  <1> HIDE DEF above
  <1> QED
    BY <1>1, <1>2

LEMMA AskedPayoutsAreFair ==
    ASSUME PlayersAsked
    PROVE  PayoutsAreFair
  <1> SUFFICES ASSUME question.about \in {"positions", "payouts"}
               PROVE  PayoutsAreFair
    BY DEF PayoutsAreFair
  <1> DEFINE metrics == question.metrics
             percentage == question.percentage
             position == Rank(metrics)
             sorted == Sorted(metrics)
             order == [u \in Players |-> CHOOSE i \in DOMAIN sorted : sorted[i] = u]
             pool == PrizePool(question.gross)
             paid == Payouts(pool, percentage, position, order)
             share == Shares(pool, Weights(position, percentage), position)
  <1>1. metrics \in [Players -> Metric] /\ IsFiniteSet(Players) /\ Players # {} /\ Players \subseteq Int
    BY RulesAssumption DEF PlayersAsked
  <1> HIDE DEF metrics
  <1>2. position = Position(metrics)
    BY <1>1, RankIsPosition
  <1>3. /\ \A u \in Players : order[u] \in Int
        /\ \A u, v \in Players : order[u] = order[v] => u = v
    <2>1. order = RowNumbers(Players, metrics)
      BY DEF RowNumbers
    <2> HIDE DEF order
    <2> QED
      BY <1>1, <2>1, OrderOfTheSorted
  <1>4. ASSUME question.about = "payouts"
        PROVE  /\ SumFunction(paid) = pool
               /\ \A u \in DOMAIN paid :
                    /\ paid[u] * share[u].divisor > share[u].dividend - share[u].divisor
                    /\ paid[u] * share[u].divisor < share[u].dividend + share[u].divisor
                    /\ \A v \in DOMAIN paid : Larger(share[u], share[v]) => paid[u] >= paid[v]
    <2>1. /\ question.gross \in Nat /\ percentage \in Seq(Int) /\ ValidDistribution(percentage)
      BY <1>4, RulesAssumption DEF PlayersAsked
    <2>2. pool \in Nat
      BY <2>1, PoolIsWhole
    <2> HIDE DEF pool
    <2>3. percentage \in Seq(Nat)
      <3>1. \A i \in DOMAIN percentage : percentage[i] \in Nat
        BY <2>1 DEF ValidDistribution
      <3> HIDE DEF percentage
      <3> QED
        BY <2>1, <3>1
    <2> HIDE DEF percentage
    <2>4. position \in [Players -> Nat]
      <3>1. Position(metrics) \in [Players -> Nat]
        BY <1>1, PositionType
      <3> QED
        BY <1>2, <3>1
    <2>5. PICK u \in Players : position[u] = 1
      BY <1>1, <1>2, SomebodyWins
    <2> HIDE DEF order, position
    <2>6. GroupPercentage(u, position, percentage) > 0
      BY <1>1, <2>1, <2>3, <2>4, <2>5, FirstWins
    <2>7. CASE pool = 0
      <3>1. paid = [v \in {} |-> 0]
        BY <2>7 DEF Payouts
      <3>2. DOMAIN paid = {}
        BY <3>1
      <3>3. SumFunction(paid) = 0
        BY <3>2, SumOfNothing DEF SumFunction
      <3> HIDE DEF paid
      <3> QED
        BY <2>7, <3>2, <3>3
    <2>8. CASE pool # 0
      <3>1. pool \in Nat \ {0}
        BY <2>2, <2>8
      <3>2. \E v \in Players : GroupPercentage(v, position, percentage) > 0
        BY <2>6
      <3> QED
        BY <1>1, <1>3, <2>3, <2>4, <3>1, <3>2, SharesArePaid
    <2> QED
      BY <2>7, <2>8
  <1> HIDE DEF paid, pool, share, position
  <1> QED
    BY <1>2, <1>4 DEF PayoutsAreFair, paid, pool, share, order, position, percentage, metrics, Larger

\* Whatever the players have done, the scan of the rows gives the positions, and the prizes
\* of any distribution add up to the pool, each to within a coin of the exact share and a
\* larger share never paid less (RankingTiebreakService.rank, BolaoPrizeService.calculatePayouts).
THEOREM PayoutsStayFair == RulesSpec => []PayoutsAreFair
  <1>1. PlayersAsked => PayoutsAreFair
    BY AskedPayoutsAreFair
  <1> QED
    BY <1>1, PlayersAskedHolds, PTL

-----------------------------------------------------------------------------
(* THE SEASON AND THE HISTORIES                                             *)

ScoredRounds == {r \in Rounds : round[r] = "SCORED"}

\* The history of u for the round r was written when the rounds of A were scored, r
\* the last of them.
WrittenAfter(u, r, A) ==
    /\ r \in A /\ A \subseteq ScoredRounds
    /\ history[u][r] = SumFunctionOnSet(PointsOf(u), A)
    /\ \A s \in A \ {r} : history[u][s] # Null => history[u][s] + Points[u][r] <= history[u][r]

\* The rounds are opened in order; a history is a running total of the scored rounds.
SeasonKept ==
    /\ \A s, r \in Rounds : s < r /\ round[r] \in {"OPEN", "CLOSED", "SCORED"} => round[s] # "DRAFT"
    /\ \A u \in Users, r \in Rounds : history[u][r] # Null <=> round[r] = "SCORED" /\ Points[u][r] # Null
    /\ \A u \in Users : total[u] = SumFunctionOnSet(PointsOf(u), ScoredRounds)
    /\ \A u \in Users, r \in Rounds : history[u][r] # Null =>
          history[u][r] <= total[u] /\ \E A \in SUBSET ScoredRounds : WrittenAfter(u, r, A)

LEMMA PointsType ==
    ASSUME NEW u \in Users
    PROVE  /\ PointsOf(u) \in [Rounds -> Nat]
           /\ \A r \in Rounds : Points[u][r] \in Nat \cup {Null}
           /\ \A r \in Rounds : PointsOf(u)[r] = IF Points[u][r] = Null THEN 0 ELSE Points[u][r]
  BY MesaAssumption DEF PointsOf, OrElse

\* Of a part of the rounds and the rest, the points add up.
LEMMA PointsOfParts ==
    ASSUME NEW u \in Users, NEW S, S \subseteq Rounds, NEW T, T \subseteq S
    PROVE  LET F(R) == SumFunctionOnSet(PointsOf(u), R)
           IN  F(S) \in Nat /\ F(T) \in Nat /\ F(S \ T) \in Nat /\ F(S) = F(T) + F(S \ T)
  <1> DEFINE p == PointsOf(u)
  <1>1. IsFiniteSet(Rounds)
    BY MesaAssumption, FS_Interval DEF Rounds
  <1>2. \A r \in Rounds : p[r] \in Nat
    BY PointsType
  <1> HIDE DEF p
  <1>3. IsFiniteSet(S) /\ IsFiniteSet(T) /\ IsFiniteSet(S \ T) /\ T \cap (S \ T) = {}
        /\ T \cup (S \ T) = S /\ \A r \in S : p[r] \in Nat
    BY <1>1, <1>2, FS_Subset
  <1>4. SumFunctionOnSet(p, S) \in Nat /\ SumFunctionOnSet(p, T) \in Nat
        /\ SumFunctionOnSet(p, S \ T) \in Nat
    BY <1>3, SumOfNaturals
  <1>5. SumFunctionOnSet(p, T \cup (S \ T)) = SumFunctionOnSet(p, T) + SumFunctionOnSet(p, S \ T)
    BY <1>3, SumOfUnion
  <1> QED
    BY <1>3, <1>4, <1>5 DEF p

\* Rounds without points add nothing, and one round adds its points.
LEMMA PointsOfSome ==
    ASSUME NEW u \in Users, NEW S, S \subseteq Rounds
    PROVE  /\ (\A r \in S : PointsOf(u)[r] = 0) => SumFunctionOnSet(PointsOf(u), S) = 0
           /\ \A r \in S : SumFunctionOnSet(PointsOf(u), S) =
                              PointsOf(u)[r] + SumFunctionOnSet(PointsOf(u), S \ {r})
  <1> DEFINE p == PointsOf(u)
  <1>1. IsFiniteSet(S)
    <2>1. IsFiniteSet(Rounds)
      BY MesaAssumption, FS_Interval DEF Rounds
    <2> QED
      BY <2>1, FS_Subset
  <1>2. p \in [Rounds -> Nat]
    BY PointsType
  <1> HIDE DEF p
  <1>3. (\A r \in S : p[r] = 0) => SumFunctionOnSet(p, S) = 0
    BY <1>1, SumOfZeros
  <1>4. \A r \in S : SumFunctionOnSet(p, S) = p[r] + SumFunctionOnSet(p, S \ {r})
    BY <1>1, <1>2, SumTakesAny
  <1> QED
    BY <1>3, <1>4 DEF p

\* Rounds that are scored without a history gave no points.
LEMMA NoHistoryNoPoints ==
    ASSUME SeasonKept, NEW u \in Users, NEW S, S \subseteq ScoredRounds,
           \A r \in S : history[u][r] = Null
    PROVE  SumFunctionOnSet(PointsOf(u), S) = 0
  <1>1. \A r \in S : r \in Rounds /\ Points[u][r] = Null
    BY DEF SeasonKept, ScoredRounds
  <1>2. \A r \in S : PointsOf(u)[r] = 0
    BY <1>1, PointsType
  <1> QED
    BY <1>1, <1>2, PointsOfSome

\* In a season that was scored in order, the rounds up to one with a history that gave
\* points have all been scored.
LEMMA PlayedInOrder ==
    ASSUME SeasonTyped, SeasonKept, ScoredInOrder, NEW u \in Users, NEW r \in Rounds,
           history[u][r] # Null
    PROVE  history[u][r] = SumFunctionOnSet(PointsOf(u), ScoredRounds \cap 1..r)
  <1> DEFINE p == PointsOf(u)
             F(S) == SumFunctionOnSet(p, S)
             B == 1..r
  <1>1. round[r] = "SCORED" /\ Points[u][r] \in Nat /\ B \subseteq Rounds
        /\ ScoredRounds \subseteq Rounds /\ r \in Nat
    BY PointsType, MesaAssumption DEF SeasonKept, Rounds, ScoredRounds
  <1>2. history[u][r] = F(B)
    BY <1>1 DEF ScoredInOrder
  <1>3. PICK A \in SUBSET ScoredRounds : WrittenAfter(u, r, A)
    BY DEF SeasonKept
  <1>4. F(A) = F(B) /\ A \subseteq Rounds
    BY <1>1, <1>2, <1>3 DEF WrittenAfter
  <1>5. ASSUME NEW s \in A \ B
        PROVE  p[s] = 0
    <2>1. s \in Rounds /\ s > r /\ round[s] = "SCORED" /\ s \in Nat
      BY <1>1, <1>4 DEF ScoredRounds, Rounds
    <2>2. CASE Points[u][s] = Null
      BY <2>1, <2>2, PointsType
    <2>3. CASE Points[u][s] # Null
      <3>1. history[u][s] # Null /\ p[s] = Points[u][s] /\ p[s] \in Nat
        BY <2>1, <2>3, PointsType DEF SeasonKept
      <3>2. history[u][s] = F(1..s)
        BY <2>1, <3>1 DEF ScoredInOrder
      <3>3. F(1..s) + Points[u][r] <= F(B)
        <4>1. s \in A \ {r}
          BY <2>1
        <4>2. history[u][s] + Points[u][r] <= history[u][r]
          BY <1>3, <3>1, <4>1 DEF WrittenAfter
        <4> QED
          BY <1>2, <3>2, <4>2
      <3> DEFINE D == (1..s) \ B
      <3>4. 1..s \subseteq Rounds /\ B \subseteq 1..s /\ D \subseteq Rounds /\ s \in D
            /\ D \ {s} \subseteq D
        BY <1>1, <2>1, MesaAssumption DEF Rounds
      <3> HIDE DEF D, B, p
      <3>5. F(1..s) = F(B) + F((1..s) \ B) /\ F(B) \in Nat
        BY <3>4, PointsOfParts DEF p
      <3>6. F(D) = p[s] + F(D \ {s})
        BY <3>4, PointsOfSome DEF p
      <3>7. F(D \ {s}) \in Nat
        BY <3>4, PointsOfParts DEF p
      <3>8. F((1..s) \ B) = F(D)
        BY DEF D
      <3> HIDE DEF F
      <3> QED
        BY <1>1, <3>1, <3>3, <3>5, <3>6, <3>7, <3>8
    <2> QED
      BY <2>2, <2>3
  <1>6. F(A \ B) = 0
    <2>1. A \ B \subseteq Rounds
      BY <1>4
    <2> QED
      BY <1>5, <2>1, PointsOfSome
  <1> HIDE DEF B, p
  <1> DEFINE C == ScoredRounds \cap B
  <1>7. F(A) = F(A \cap B) + F(A \ (A \cap B)) /\ F(A \cap B) \in Nat
    BY <1>4, PointsOfParts DEF p
  <1>8. A \ (A \cap B) = A \ B /\ A \cap B \subseteq C /\ C \subseteq B
    OBVIOUS
  <1>9. F(B) = F(C) + F(B \ C) /\ F(B \ C) \in Nat /\ F(C) \in Nat
    BY <1>1, <1>8, PointsOfParts DEF p
  <1>10. F(C) = F(A \cap B) + F(C \ (A \cap B)) /\ F(C \ (A \cap B)) \in Nat
    <2>1. C \subseteq Rounds
      BY <1>1, <1>8
    <2> QED
      BY <1>8, <2>1, PointsOfParts DEF p
  <1>11. F(B) = F(C)
    <2>1. F(A \ (A \cap B)) = 0
      BY <1>6, <1>8
    <2> DEFINE all == F(B)
               some == F(C)
               few == F(A \cap B)
    <2>2. all = few /\ few \in Nat
      BY <1>4, <1>7, <2>1
    <2>3. \E more \in Nat : some = few + more
      BY <1>10
    <2>4. \E more \in Nat : all = some + more
      BY <1>9
    <2> HIDE DEF all, some, few
    <2>5. all = some
      BY <2>2, <2>3, <2>4
    <2> QED
      BY <2>5 DEF all, some
  <1> QED
    BY <1>2, <1>11 DEF B, p

\* The window W goes on from the round k: k < w, and all the rounds between.
GoesOn(W, k) ==
    /\ W \subseteq Rounds
    /\ \A w \in W : w > k /\ \A r \in Rounds : k < r /\ r <= w => r \in W

\* In a season that was scored in order, the last history of a window that goes on from
\* the round k has the points of the rounds up to k and of those of the window.
LEMMA LastOfWindow ==
    ASSUME SeasonTyped, SeasonKept, ScoredInOrder, NEW u \in Users, NEW k \in Nat,
           NEW W, GoesOn(W, k)
    PROVE  LET F(S) == SumFunctionOnSet(PointsOf(u), S)
           IN  /\ F(ScoredRounds \cap 1..k) \in Nat /\ F(ScoredRounds \cap W) \in Nat
               /\ OrElse(LastTotal(u, W), F(ScoredRounds \cap 1..k)) =
                    F(ScoredRounds \cap 1..k) + F(ScoredRounds \cap W)
  <1> DEFINE F(S) == SumFunctionOnSet(PointsOf(u), S)
             before == ScoredRounds \cap 1..k
             own == ScoredRounds \cap W
             played == {r \in W : round[r] = "SCORED" /\ history[u][r] # Null}
  <1>1. ScoredRounds \subseteq Rounds /\ before \subseteq Rounds /\ own \subseteq Rounds
        /\ W \subseteq 1..NumRounds /\ NumRounds \in Nat /\ played \subseteq 1..NumRounds
        /\ played \subseteq own
    BY MesaAssumption DEF ScoredRounds, Rounds, GoesOn
  <1>2. F(before) \in Nat /\ F(own) \in Nat
    BY <1>1, PointsOfParts
  <1>3. CASE played = {}
    <2>1. LastTotal(u, W) = Null
      BY <1>3 DEF LastTotal
    <2>2. \A r \in own : history[u][r] = Null
      BY <1>3 DEF ScoredRounds
    <2>3. F(own) = 0
      BY <2>2, NoHistoryNoPoints
    <2> QED
      BY <1>2, <2>1, <2>3 DEF OrElse
  <1>4. CASE played # {}
    <2> DEFINE last == Max(played)
               until == ScoredRounds \cap 1..last
               late == own \ (1..last)
    <2>1. LastTotal(u, W) = history[u][last]
      BY <1>4 DEF LastTotal
    <2>2. last \in played /\ \A r \in played : r <= last
      <3> HIDE DEF played
      <3> QED
        BY <1>1, <1>4, MaxIsMember
    <2> HIDE DEF last
    <2>3. last \in Rounds /\ last \in Nat /\ history[u][last] # Null /\ last \in W /\ last > k
      BY <1>1, <2>2 DEF Rounds, GoesOn
    <2>4. history[u][last] = F(until)
      BY <2>3, PlayedInOrder
    <2>5. F(late) = 0
      <3>1. late \subseteq ScoredRounds
        OBVIOUS
      <3>2. ASSUME NEW r \in late
            PROVE  history[u][r] = Null
        <4>1. r \in Rounds /\ r > last
          <5>1. r \in Rounds /\ r \notin 1..last
            BY <1>1
          <5>2. r \in Nat /\ r >= 1
            BY <5>1, MesaAssumption DEF Rounds
          <5> QED
            BY <2>3, <5>1, <5>2
        <4>2. r \notin played
          BY <2>2, <2>3, <4>1 DEF Rounds
        <4> QED
          BY <4>2 DEF ScoredRounds
      <3> HIDE DEF late
      <3> QED
        BY <3>1, <3>2, NoHistoryNoPoints
    <2>6. own \ late = until \ before /\ before \subseteq until /\ late \subseteq own
          /\ until \subseteq Rounds
      <3>1. \A r \in Rounds : r \in Nat
        BY DEF Rounds
      <3>2. \A w \in W : w > k
        BY DEF GoesOn
      <3>3. \A r \in Rounds : k < r /\ r <= last => r \in W
        BY <2>3 DEF GoesOn
      <3> QED
        BY <1>1, <2>3, <3>1, <3>2, <3>3
    <2> HIDE DEF own, before, until, late
    <2>7. F(own) = F(late) + F(own \ late)
      BY <1>1, <2>6, PointsOfParts
    <2>8. F(until) = F(before) + F(until \ before)
      BY <1>1, <2>6, PointsOfParts
    <2>9. F(own \ late) = F(own)
      <3>1. F(own \ late) \in Nat
        BY <1>1, <2>6, PointsOfParts
      <3> DEFINE x == F(own \ late)
                 y == F(own)
                 z == F(late)
      <3>2. x \in Nat /\ z = 0 /\ y = z + x
        BY <2>5, <2>7, <3>1
      <3> HIDE DEF x, y, z
      <3>3. x = y
        BY <3>2
      <3> QED
        BY <3>3 DEF x, y
    <2>10. history[u][last] = F(before) + F(own)
      BY <2>4, <2>6, <2>8, <2>9
    <2> QED
      BY <1>2, <2>1, <2>3, <2>10 DEF OrElse, before, own
  <1> QED
    BY <1>3, <1>4

LEMMA BaseOfWindow ==
    ASSUME SeasonTyped, SeasonKept, ScoredInOrder, NEW u \in Users, NEW k \in Rounds
    PROVE  OrElse(LastTotal(u, 1..k), 0) = SumFunctionOnSet(PointsOf(u), ScoredRounds \cap 1..k)
  <1> DEFINE F(S) == SumFunctionOnSet(PointsOf(u), S)
  <1>1. GoesOn(1..k, 0)
    BY MesaAssumption DEF GoesOn, Rounds
  <1>2. F(ScoredRounds \cap 1..0) = 0
    <2>1. ScoredRounds \cap 1..0 = {}
      OBVIOUS
    <2> QED
      BY <2>1, SumOfNothing
  <1>3. /\ F(ScoredRounds \cap 1..k) \in Nat
        /\ OrElse(LastTotal(u, 1..k), F(ScoredRounds \cap 1..0)) =
             F(ScoredRounds \cap 1..0) + F(ScoredRounds \cap 1..k)
    BY <1>1, LastOfWindow
  <1> QED
    BY <1>2, <1>3

\* Rounds with greater numbers do not close before.
ClosedInOrder == \A r, s \in Rounds : r < s => CloseAt[r] <= CloseAt[s]

RowWindow(m) == {r \in Rounds : r > m.ref /\ CloseAt[r] <= (IF m.end # Null THEN m.end ELSE now)}

\* A row has what its player earned since the reference round.
LEMMA RowsAreEarned ==
    ASSUME SeasonTyped, SeasonKept, ScoredInOrder, ClosedInOrder, AllCaptured,
           NEW m \in MesaRow, m.ready, m.ref # Null, NEW u \in Approved,
           participant[u].base = OrElse(LastTotal(u, 1..m.ref), 0)
    PROVE  Rows(m)[u].score = Earned(u, RowWindow(m))
  <1> DEFINE W == RowWindow(m)
             k == m.ref
             F(S) == SumFunctionOnSet(PointsOf(u), S)
             base == participant[u].base
  <1>1. u \in Users /\ k \in Rounds /\ k \in Nat
    BY DEF Approved, MesaRow, Rounds
  <1>2. GoesOn(W, k)
    <2>1. now \in Nat /\ m.end \in Nat \cup {Null} /\ CloseAt \in [Rounds -> Nat]
      BY MesaAssumption DEF SeasonTyped, MesaRow
    <2> DEFINE until == IF m.end # Null THEN m.end ELSE now
    <2>2. until \in Nat
      BY <2>1
    <2> HIDE DEF until
    <2>3. W = {r \in Rounds : r > k /\ CloseAt[r] <= until}
      BY DEF RowWindow, until
    <2>4. ASSUME NEW w \in W, NEW r \in Rounds, k < r, r <= w
          PROVE  r \in W
      <3>1. CloseAt[r] <= CloseAt[w] /\ CloseAt[w] <= until /\ w \in Rounds
        BY <2>1, <2>3, <2>4 DEF ClosedInOrder, Rounds
      <3> QED
        BY <1>1, <2>1, <2>2, <2>3, <2>4, <3>1
    <2> HIDE DEF W
    <2> QED
      BY <2>3, <2>4 DEF GoesOn
  <1>3. base = F(ScoredRounds \cap 1..k)
    BY <1>1, BaseOfWindow
  <1>4. /\ F(ScoredRounds \cap 1..k) \in Nat /\ F(ScoredRounds \cap W) \in Nat
        /\ OrElse(LastTotal(u, W), F(ScoredRounds \cap 1..k)) =
             F(ScoredRounds \cap 1..k) + F(ScoredRounds \cap W)
    <2> HIDE DEF W
    <2> QED
      BY <1>1, <1>2, LastOfWindow
  <1>5. Rows(m)[u].score = OrElse(LastTotal(u, W), base) - base
    BY DEF Rows, RowWindow
  <1>6. ScoredRounds \cap W = {r \in W : round[r] = "SCORED"}
    BY DEF ScoredRounds, RowWindow
  <1> HIDE DEF W
  <1>7. Rows(m)[u].score = F(ScoredRounds \cap W)
    <2> DEFINE x == F(ScoredRounds \cap 1..k)
               y == F(ScoredRounds \cap W)
    <2>1. x \in Nat /\ y \in Nat /\ OrElse(LastTotal(u, W), x) = x + y /\ base = x
      BY <1>3, <1>4
    <2> HIDE DEF x, y
    <2>2. Rows(m)[u].score = y
      BY <1>5, <2>1
    <2> QED
      BY <2>2 DEF y
  <1> QED
    BY <1>6, <1>7 DEF Earned, W

-----------------------------------------------------------------------------
(* STEPS OF THE SEASON                                                      *)

LEMMA SeasonMoves ==
    ASSUME [Next]_vars
    PROVE  Season \/ UNCHANGED season
  <1>1. CASE \E t \in Terms, admin \in BOOLEAN, mode \in {"DRAFT", "AT_START", "NOW"} :
               Create(t, admin, mode)
    BY <1>1 DEF Create
  <1>2. CASE Publish \/ PublishScheduled \/ Capture
    BY <1>2 DEF Publish, PublishScheduled, Capture
  <1>3. CASE \E max \in InviteUses : CreateInvite(max)
    BY <1>3 DEF CreateInvite
  <1>4. ASSUME NEW q, Enrol(q) \/ \E force \in BOOLEAN : StartClose(q, force)
        PROVE  UNCHANGED season
    BY <1>4 DEF Enrol, StartJoin, CommitJoin, StartEdit, CommitEdit, StartClose
  <1>5. ASSUME NEW q, StartJob(q) \/ CommitJob(q) \/ StartRecalculation(q) \/ CommitRecalculation(q)
        PROVE  UNCHANGED season
    BY <1>5 DEF StartJob, StartUnschedule, StartCloseRegistrations, StartFinish, StartClose,
                CommitJob, CommitUnschedule, CommitCloseRegistrations, CommitFinish,
                StartRecalculation, CommitRecalculation
  <1>6. ASSUME NEW q, BuildRows(q) \/ CommitClose(q) \/ RollBack(q)
        PROVE  UNCHANGED season
    BY <1>6 DEF BuildRows, CommitClose, RollBack
  <1>7. CASE UNCHANGED vars
    BY <1>7 DEF vars, season
  <1> QED
    BY <1>1, <1>2, <1>3, <1>4, <1>5, <1>6, <1>7 DEF Next

LEMMA SeasonStarts == Init => SeasonKept
  <1> SUFFICES ASSUME Init PROVE SeasonKept
    OBVIOUS
  <1>1. \A r \in Rounds : round[r] = "DRAFT" /\ \A u \in Users : history[u][r] = Null
    BY DEF Init
  <1>2. ScoredRounds = {}
    <2>1. \A r \in Rounds : round[r] # "SCORED"
      BY <1>1
    <2> QED
      BY <2>1 DEF ScoredRounds
  <1>3. \A u \in Users : total[u] = SumFunctionOnSet(PointsOf(u), ScoredRounds)
    <2>1. \A u \in Users : total[u] = 0
      BY DEF Init
    <2>2. \A u \in Users : SumFunctionOnSet(PointsOf(u), {}) = 0
      BY SumOfNothing
    <2> QED
      BY <1>2, <2>1, <2>2
  <1> QED
    BY <1>1, <1>3 DEF SeasonKept

\* The statuses of a round go forward.
LEMMA RoundsGoOn ==
    ASSUME SeasonTyped, Season
    PROVE  \A r \in Rounds :
             /\ round'[r] = "DRAFT" => round[r] = "DRAFT"
             /\ round[r] \in {"SCORED", "CANCELLED"} => round'[r] = round[r]
             /\ round'[r] \in {"CLOSED", "SCORED"} => round[r] \in {"OPEN", "CLOSED", "SCORED"}
  <1>1. ASSUME NEW r \in Rounds, OpenRound(r) \/ CloseRound(r) \/ ScoreRound(r) \/ CancelRound(r)
        PROVE  /\ round[r] \notin {"SCORED", "CANCELLED"}
               /\ \A s \in Rounds : s # r => round'[s] = round[s]
               /\ round'[r] \in {"CLOSED", "SCORED"} => round[r] \in {"OPEN", "CLOSED"}
               /\ round'[r] # "DRAFT"
    BY <1>1 DEF OpenRound, CloseRound, ScoreRound, CancelRound, SeasonTyped
  <1>2. CASE Tick \/ \E u \in Users : LosePro(u)
    BY <1>2 DEF Tick, LosePro
  <1> QED
    BY <1>1, <1>2 DEF Season

\* A round that is scored adds its points to every total.
LEMMA ScoringKeeps ==
    ASSUME SeasonTyped, SeasonKept, NEW r \in Rounds, ScoreRound(r), NEW u \in Users
    PROVE  /\ ScoredRounds' = ScoredRounds \cup {r}
           /\ total'[u] = SumFunctionOnSet(PointsOf(u), ScoredRounds')
           /\ \A s \in Rounds : history'[u][s] =
                IF s = r /\ Points[u][r] # Null THEN total[u] + Points[u][r] ELSE history[u][s]
           /\ \A s \in Rounds : history'[u][s] # Null =>
                history'[u][s] <= total'[u] /\ \E A \in SUBSET ScoredRounds' : WrittenAfter(u, s, A)'
  <1> DEFINE p == PointsOf(u)
             F(S) == SumFunctionOnSet(p, S)
  <1>1. round[r] = "CLOSED" /\ \A s \in Rounds : round'[s] = IF s = r THEN "SCORED" ELSE round[s]
    BY DEF ScoreRound, SeasonTyped
  <1>2. ScoredRounds' = ScoredRounds \cup {r} /\ r \notin ScoredRounds /\ ScoredRounds \subseteq Rounds
    BY <1>1 DEF ScoredRounds
  <1>3. total[u] = F(ScoredRounds) /\ total'[u] = total[u] + p[r] /\ p[r] \in Nat
        /\ F(ScoredRounds) \in Nat
    <2>1. p[r] = OrElse(Points[u][r], 0) /\ p[r] \in Nat
      BY PointsType DEF PointsOf
    <2>2. F(ScoredRounds) \in Nat
      BY <1>2, PointsOfParts
    <2> QED
      BY <2>1, <2>2 DEF ScoreRound, SeasonKept
  <1>4. F(ScoredRounds') = p[r] + F(ScoredRounds)
    <2>1. ScoredRounds' \ {r} = ScoredRounds /\ r \in ScoredRounds' /\ ScoredRounds' \subseteq Rounds
      BY <1>2
    <2> QED
      BY <2>1, PointsOfSome
  <1>5. total'[u] = F(ScoredRounds')
    <2> HIDE DEF F, p
    <2> QED
      BY <1>3, <1>4
  <1>6. \A s \in Rounds : history'[u][s] =
          IF s = r /\ Points[u][r] # Null THEN total[u] + Points[u][r] ELSE history[u][s]
    BY DEF ScoreRound, SeasonTyped
  <1>7. \A s \in Rounds : history[u][s] # Null =>
          /\ s \in ScoredRounds /\ history[u][s] \in Int /\ history[u][s] <= total[u]
          /\ Points[u][s] \in Nat
    BY PointsType DEF SeasonKept, ScoredRounds, SeasonTyped
  <1>8. ASSUME NEW s \in Rounds, history'[u][s] # Null
        PROVE  history'[u][s] <= total'[u] /\ \E A \in SUBSET ScoredRounds' : WrittenAfter(u, s, A)'
    <2>1. CASE s = r
      <3>1. Points[u][r] # Null /\ Points[u][r] = p[r] /\ history'[u][r] = total'[u]
        <4>1. history[u][r] = Null
          BY <1>1 DEF SeasonKept
        <4>2. Points[u][r] # Null
          BY <1>6, <1>8, <2>1, <4>1
        <4> QED
          BY <1>3, <1>6, <4>2, PointsType
      <3>2. \A v \in ScoredRounds' \ {r} : history'[u][v] # Null =>
                history'[u][v] + Points[u][r] <= history'[u][r]
        <4> SUFFICES ASSUME NEW v \in ScoredRounds, history[u][v] # Null
                     PROVE  history[u][v] + Points[u][r] <= history'[u][r]
          BY <1>2, <1>6
        <4>1. history[u][v] \in Int /\ history[u][v] <= total[u] /\ total[u] \in Int
          BY <1>2, <1>3, <1>7
        <4> QED
          BY <1>3, <3>1, <4>1
      <3>3. WrittenAfter(u, r, ScoredRounds)'
        BY <1>2, <1>5, <3>1, <3>2 DEF WrittenAfter
      <3>4. total'[u] \in Int
        BY <1>3
      <3> QED
        BY <2>1, <3>1, <3>3, <3>4
    <2>2. CASE s # r
      <3>1. history'[u][s] = history[u][s] /\ history[u][s] # Null
        BY <1>6, <1>8, <2>2
      <3>2. PICK A \in SUBSET ScoredRounds : WrittenAfter(u, s, A)
        BY <3>1 DEF SeasonKept
      <3>3. \A v \in A : v \in Rounds /\ history'[u][v] = history[u][v]
        BY <1>2, <1>6
      <3>4. WrittenAfter(u, s, A)' /\ A \in SUBSET ScoredRounds'
        BY <1>2, <3>1, <3>2, <3>3 DEF WrittenAfter
      <3>5. history[u][s] <= total'[u]
        <4>1. history[u][s] \in Int /\ history[u][s] <= total[u] /\ total[u] \in Int
          BY <1>3, <1>7, <3>1
        <4> QED
          BY <1>3, <4>1
      <3> QED
        BY <3>1, <3>4, <3>5
    <2> QED
      BY <2>1, <2>2
  <1> QED
    BY <1>2, <1>5, <1>6, <1>8

LEMMA SeasonKeeps ==
    ASSUME SeasonTyped, SeasonKept, Season \/ UNCHANGED season
    PROVE  SeasonKept'
  <1>1. CASE UNCHANGED <<round, history, total>>
    BY <1>1 DEF SeasonKept, ScoredRounds, WrittenAfter
  <1>2. ASSUME NEW r \in Rounds, OpenRound(r) \/ CloseRound(r) \/ CancelRound(r)
        PROVE  SeasonKept'
    <2>1. /\ UNCHANGED <<history, total>> /\ round[r] # "SCORED" /\ round'[r] # "SCORED"
          /\ \A s \in Rounds : s # r => round'[s] = round[s]
      BY <1>2 DEF OpenRound, CloseRound, CancelRound, SeasonTyped
    <2>2. ScoredRounds' = ScoredRounds
      BY <2>1 DEF ScoredRounds
    <2>3. \A u \in Users, s \in Rounds, A \in SUBSET ScoredRounds :
            WrittenAfter(u, s, A) => WrittenAfter(u, s, A)'
      BY <2>1, <2>2 DEF WrittenAfter
    <2>4. \A s, t \in Rounds :
            s < t /\ round'[t] \in {"OPEN", "CLOSED", "SCORED"} => round'[s] # "DRAFT"
      <3>1. OpenRound(r) => \A s \in Rounds : s < r => round[s] # "DRAFT"
        BY DEF OpenRound
      <3>2. round'[r] # "DRAFT" /\ (OpenRound(r) \/ round'[r] = "CANCELLED" \/ round[r] = "OPEN")
        BY <1>2 DEF OpenRound, CloseRound, CancelRound, SeasonTyped
      <3> QED
        BY <2>1, <3>1, <3>2 DEF SeasonKept
    <2>5. \A u \in Users, s \in Rounds : history'[u][s] # Null =>
            /\ history'[u][s] <= total'[u]
            /\ \E A \in SUBSET ScoredRounds' : WrittenAfter(u, s, A)'
      BY <2>1, <2>2, <2>3 DEF SeasonKept
    <2> QED
      BY <2>1, <2>2, <2>4, <2>5 DEF SeasonKept
  <1>3. ASSUME NEW r \in Rounds, ScoreRound(r)
        PROVE  SeasonKept'
    <2>1. round[r] = "CLOSED" /\ \A s \in Rounds : round'[s] = IF s = r THEN "SCORED" ELSE round[s]
      BY <1>3 DEF ScoreRound, SeasonTyped
    <2>2. \A s, t \in Rounds :
            s < t /\ round'[t] \in {"OPEN", "CLOSED", "SCORED"} => round'[s] # "DRAFT"
      BY <2>1 DEF SeasonKept
    <2>3. \A u \in Users, s \in Rounds :
            history'[u][s] # Null <=> round'[s] = "SCORED" /\ Points[u][s] # Null
      <3> SUFFICES ASSUME NEW u \in Users, NEW s \in Rounds
                   PROVE  history'[u][s] # Null <=> round'[s] = "SCORED" /\ Points[u][s] # Null
        OBVIOUS
      <3>1. history'[u][s] =
              IF s = r /\ Points[u][r] # Null THEN total[u] + Points[u][r] ELSE history[u][s]
        BY <1>3, ScoringKeeps
      <3>2. Points[u][r] # Null => total[u] + Points[u][r] # Null
        <4>1. Points[u][r] # Null => total[u] + Points[u][r] \in Int
          BY PointsType DEF SeasonTyped
        <4> QED
          BY <4>1, MesaAssumption
      <3>3. history[u][s] # Null <=> round[s] = "SCORED" /\ Points[u][s] # Null
        BY DEF SeasonKept
      <3> QED
        BY <2>1, <3>1, <3>2, <3>3
    <2>4. \A u \in Users :
            /\ total'[u] = SumFunctionOnSet(PointsOf(u), ScoredRounds')
            /\ \A s \in Rounds : history'[u][s] # Null =>
                 history'[u][s] <= total'[u] /\ \E A \in SUBSET ScoredRounds' : WrittenAfter(u, s, A)'
      BY <1>3, ScoringKeeps
    <2> QED
      BY <2>2, <2>3, <2>4 DEF SeasonKept
  <1> QED
    BY <1>1, <1>2, <1>3 DEF Season, season, Tick, LosePro

LEMMA SeasonInductive == Spec => [](MesaInv /\ SeasonKept)
  <1>1. MesaInv /\ SeasonKept /\ [Next]_vars => SeasonKept'
    BY SeasonMoves, SeasonKeeps DEF MesaInv
  <1> QED
    BY SeasonStarts, Inductive, <1>1, PTL DEF Spec

-----------------------------------------------------------------------------
(* WHAT A PAGE RESTS ON                                                     *)

NoDraftUpTo(r) == \A s \in 1..r : round[s] # "DRAFT"

\* The initial score base of u, of the rounds up to ref: none of them will be scored for
\* u any more.
CapturedAt(u, ref, base) ==
    /\ base = OrElse(LastTotal(u, 1..ref), 0)
    /\ \A r \in 1..ref : Points[u][r] = Null \/ round[r] \in {"SCORED", "CANCELLED"}

PlayerTold(m, u) ==
    /\ participant[u].base # Null => m.ready /\ CapturedAt(u, m.ref, participant[u].base)
    /\ ~m.ready => participant[u].score = 0 /\ participant[u].position = 0

RowTold(m) ==
    /\ m.ready => m.ref # Null
    /\ m.ref # Null => m.closedAt # Null /\ NoDraftUpTo(m.ref)
    /\ \A u \in Approved : PlayerTold(m, u)

\* Rows that give nothing away.
Blank(rows) == \A u \in DOMAIN rows : rows[u].score = 0 /\ rows[u].position = 0

WorkTold(w) ==
    /\ w \in Closing /\ w.ref # Null => NoDraftUpTo(w.ref)
    /\ w \in Pass => /\ w.seen.ready => mesa.ready
                     /\ ~w.seen.ready /\ w.rows # Null => Blank(w.rows)

ToldInv == (mesa # NoMesa => RowTold(mesa)) /\ \A q \in Pool : WorkTold(request[q])

\* What has been captured stays what it is while rounds are scored.
LEMMA CapturedStays ==
    ASSUME SeasonTyped, SeasonKept, Season \/ UNCHANGED season,
           NEW u \in Users, NEW k \in Rounds, NEW base, CapturedAt(u, k, base)
    PROVE  CapturedAt(u, k, base)'
  <1>1. CASE UNCHANGED season
    BY <1>1 DEF season, CapturedAt, LastTotal
  <1>2. CASE Season
    <2>1. 1..k \subseteq Rounds
      BY MesaAssumption DEF Rounds
    <2>2. \A r \in 1..k : Points[u][r] = Null \/ round'[r] \in {"SCORED", "CANCELLED"}
      BY <1>2, <2>1, RoundsGoOn DEF CapturedAt
    <2> DEFINE played == {r \in 1..k : round[r] = "SCORED" /\ history[u][r] # Null}
    <2>3. \A r \in 1..k : /\ history'[u][r] = history[u][r]
                          /\ round'[r] = "SCORED" /\ history[u][r] # Null <=>
                                 round[r] = "SCORED" /\ history[u][r] # Null
      <3> SUFFICES ASSUME NEW r \in 1..k
                   PROVE  /\ history'[u][r] = history[u][r]
                          /\ round'[r] = "SCORED" /\ history[u][r] # Null <=>
                                 round[r] = "SCORED" /\ history[u][r] # Null
        OBVIOUS
      <3>1. r \in Rounds
        BY <2>1
      <3>2. history[u][r] # Null => round[r] = "SCORED"
        BY <3>1 DEF SeasonKept
      <3>3. round[r] = "SCORED" => round'[r] = "SCORED"
        BY <1>2, <3>1, RoundsGoOn
      <3>4. history'[u][r] = history[u][r]
        <4>1. ASSUME NEW s \in Rounds, ScoreRound(s)
              PROVE  history'[u][r] = history[u][r]
          <5>1. round[s] = "CLOSED"
            BY <4>1 DEF ScoreRound
          <5>2. r = s => Points[u][s] = Null
            BY <5>1 DEF CapturedAt
          <5> QED
            BY <3>1, <4>1, <5>2, ScoringKeeps
        <4> QED
          BY <1>2, <4>1 DEF Season, OpenRound, CloseRound, CancelRound, Tick, LosePro
      <3> QED
        BY <3>2, <3>3, <3>4
    <2>4. {r \in 1..k : round'[r] = "SCORED" /\ history'[u][r] # Null} = played
      BY <2>3
    <2>5. LastTotal(u, 1..k)' = LastTotal(u, 1..k)
      <3>1. LastTotal(u, 1..k) = IF played = {} THEN Null ELSE history[u][Max(played)]
        BY DEF LastTotal
      <3>2. LastTotal(u, 1..k)' = IF played = {} THEN Null ELSE history'[u][Max(played)]
        BY <2>4 DEF LastTotal
      <3>3. played # {} => Max(played) \in 1..k
        <4>1. played \subseteq 1..NumRounds /\ NumRounds \in Nat /\ played \subseteq 1..k
          BY <2>1, MesaAssumption DEF Rounds
        <4> HIDE DEF played
        <4> QED
          BY <4>1, MaxIsMember
      <3> HIDE DEF played
      <3> QED
        BY <2>3, <3>1, <3>2, <3>3
    <2> QED
      BY <2>2, <2>5 DEF CapturedAt
  <1> QED
    BY <1>1, <1>2

LEMMA NoDraftStays ==
    ASSUME SeasonTyped, Season \/ UNCHANGED season, NEW k \in Rounds, NoDraftUpTo(k)
    PROVE  NoDraftUpTo(k)'
  <1>1. 1..k \subseteq Rounds
    BY MesaAssumption DEF Rounds
  <1>2. CASE Season
    BY <1>1, <1>2, RoundsGoOn DEF NoDraftUpTo
  <1> QED
    BY <1>2 DEF NoDraftUpTo, season

\* There is no draft up to the open round.
LEMMA OpenAfterDrafts ==
    ASSUME SeasonKept, NEW r \in OpenRounds
    PROVE  r \in Rounds /\ NoDraftUpTo(r)
  <1>1. r \in Rounds /\ round[r] = "OPEN"
    BY DEF OpenRounds
  <1>2. ASSUME NEW s \in 1..r
        PROVE  round[s] # "DRAFT"
    <2>1. s \in Rounds /\ (s = r \/ s < r)
      BY <1>1, MesaAssumption DEF Rounds
    <2> QED
      BY <1>1, <2>1 DEF SeasonKept
  <1> QED
    BY <1>1, <1>2 DEF NoDraftUpTo

LEMMA ToldThroughTheSeason ==
    ASSUME MesaInv, SeasonKept, ToldInv, Season \/ UNCHANGED vars
    PROVE  ToldInv'
  <1>1. UNCHANGED <<mesa, participant, request>> /\ (Season \/ UNCHANGED season)
    BY DEF Season, OpenRound, CloseRound, ScoreRound, CancelRound, Tick, LosePro, vars, season
  <1>2. SeasonTyped
    BY DEF MesaInv
  <1>3. ASSUME mesa # NoMesa
        PROVE  RowTold(mesa)'
    <2>1. RowTold(mesa) /\ mesa \in MesaRow
      BY <1>3 DEF ToldInv, MesaInv, MesaTyped
    <2>2. mesa.ref \in Rounds \cup {Null}
      BY <2>1 DEF MesaRow
    <2>3. ASSUME NEW u \in Approved
          PROVE  PlayerTold(mesa, u)'
      <3>1. PlayerTold(mesa, u) /\ u \in Users
        BY <2>1 DEF RowTold, Approved
      <3>2. mesa.ready => mesa.ref \in Rounds
        BY <2>1, <2>2 DEF RowTold
      <3>3. mesa.ready /\ CapturedAt(u, mesa.ref, participant[u].base) =>
                CapturedAt(u, mesa.ref, participant[u].base)'
        <4>1. \A k \in Rounds : \A base : CapturedAt(u, k, base) => CapturedAt(u, k, base)'
          BY <1>1, <1>2, <3>1, CapturedStays
        <4> SUFFICES ASSUME NEW k \in Rounds, k = mesa.ref, NEW base, base = participant[u].base,
                            CapturedAt(u, k, base)
                     PROVE  CapturedAt(u, mesa.ref, participant[u].base)'
          BY <3>2
        <4>2. CapturedAt(u, k, base)'
          BY <4>1
        <4> QED
          BY <1>1, <4>2 DEF CapturedAt, LastTotal
      <3> QED
        BY <1>1, <3>1, <3>3 DEF PlayerTold
    <2>4. Approved' = Approved
      BY <1>1 DEF Approved
    <2>5. mesa.ref # Null => NoDraftUpTo(mesa.ref)'
      <3>1. \A k \in Rounds : NoDraftUpTo(k) => NoDraftUpTo(k)'
        BY <1>1, <1>2, NoDraftStays
      <3> SUFFICES ASSUME NEW k \in Rounds, k = mesa.ref
                   PROVE  NoDraftUpTo(mesa.ref)'
        BY <2>2
      <3>2. NoDraftUpTo(k)'
        BY <2>1, <3>1, MesaAssumption DEF RowTold, Rounds
      <3> QED
        BY <1>1, <3>2 DEF NoDraftUpTo
    <2> QED
      BY <1>1, <2>1, <2>3, <2>4, <2>5 DEF RowTold
  <1>4. ASSUME NEW q \in Pool
        PROVE  WorkTold(request[q])'
    <2>1. WorkTold(request[q])
      BY DEF ToldInv
    <2>2. request[q] \in Closing /\ request[q].ref # Null => NoDraftUpTo(request[q].ref)'
      <3>1. \A k \in Rounds : NoDraftUpTo(k) => NoDraftUpTo(k)'
        BY <1>1, <1>2, NoDraftStays
      <3> SUFFICES ASSUME NEW k \in Rounds, k = request[q].ref, NoDraftUpTo(k)
                   PROVE  NoDraftUpTo(request[q].ref)'
        BY <2>1 DEF WorkTold, Closing
      <3>2. NoDraftUpTo(k)'
        BY <3>1
      <3> QED
        BY <1>1, <3>2 DEF NoDraftUpTo
    <2> QED
      BY <1>1, <2>1, <2>2 DEF WorkTold, Blank
  <1> QED
    BY <1>1, <1>3, <1>4 DEF ToldInv

-----------------------------------------------------------------------------
(* STEPS OF WHAT A PAGE RESTS ON                                            *)

\* No work, or one piece of it, begins, goes on or ends, on a Mesa.
WorksTold ==
    \/ request' = request
    \/ /\ mesa # NoMesa
       /\ \E q \in Pool, w \in Work : WorkTold(w) /\ request' = [request EXCEPT ![q] = w]

LEMMA IdleTold == Idle \in Work /\ WorkTold(Idle)
  BY DEF Idle, Work, WorkTold, Closing, Pass

LEMMA EndTold ==
    ASSUME MesaInv, NEW q \in Pool, End(q), request[q] # Idle
    PROVE  WorksTold
  BY IdleTold DEF End, Continue, WorksTold, MesaInv, RequestsTyped

\* A step of the Mesa that keeps its row told.
LEMMA ToldStep ==
    ASSUME MesaInv, ToldInv, UNCHANGED <<round, history>>, RowTold(mesa)',
           mesa # NoMesa /\ mesa.ready => mesa'.ready, WorksTold
    PROVE  ToldInv'
  <1>1. \A w \in Work : mesa # NoMesa /\ WorkTold(w) => WorkTold(w)'
    BY DEF WorkTold, NoDraftUpTo, Blank
  <1>2. ASSUME NEW p \in Pool, mesa # NoMesa
        PROVE  \E w \in Work : WorkTold(w) /\ request'[p] = w
    <2>1. request[p] \in Work /\ WorkTold(request[p])
      BY DEF MesaInv, RequestsTyped, ToldInv
    <2>2. ASSUME NEW q \in Pool, NEW w \in Work, WorkTold(w), request' = [request EXCEPT ![q] = w]
          PROVE  \E v \in Work : WorkTold(v) /\ request'[p] = v
      <3>1. request'[p] = IF p = q THEN w ELSE request[p]
        BY <2>2 DEF MesaInv, RequestsTyped
      <3> QED
        BY <2>1, <2>2, <3>1
    <2> QED
      BY <2>1, <2>2 DEF WorksTold
  <1>3. ASSUME NEW p \in Pool
        PROVE  WorkTold(request[p])'
    <2>1. CASE mesa = NoMesa
      <3>1. request'[p] = Idle
        BY <2>1 DEF WorksTold, MesaInv, RequestsTyped
      <3> QED
        BY <3>1 DEF Idle, WorkTold, Closing, Pass
    <2>2. CASE mesa # NoMesa
      <3>1. PICK w \in Work : WorkTold(w) /\ request'[p] = w
        BY <1>2, <2>2
      <3>2. WorkTold(w)'
        BY <1>1, <2>2, <3>1
      <3> QED
        BY <3>1, <3>2 DEF WorkTold
    <2> QED
      BY <2>1, <2>2
  <1> QED
    BY <1>3 DEF ToldInv

\* A row that may take the Mesa's place: it is as told, and as ready.
Told(m) ==
    /\ m \in MesaRow /\ RowTold(m)
    /\ IF mesa = NoMesa THEN ~m.ready ELSE m.ready = mesa.ready

\* A row with the same reference and the same initial scores is as told.
LEMMA SameTold ==
    ASSUME NEW m, Told(m), NEW n \in MesaRow,
           n.ref = m.ref, n.closedAt = m.closedAt, n.ready = m.ready
    PROVE  Told(n)
  BY DEF Told, RowTold, PlayerTold

LEMMA MesaTold ==
    ASSUME ToldInv, mesa \in MesaRow
    PROVE  Told(mesa)
  <1>1. mesa # NoMesa
    BY DEF MesaRow, NoMesa
  <1> QED
    BY <1>1 DEF Told, ToldInv

LEMMA RowReplaced ==
    ASSUME MesaInv, ToldInv, Told(mesa'), UNCHANGED <<round, history, participant>>, WorksTold
    PROVE  ToldInv'
  <1>1. RowTold(mesa') /\ Approved' = Approved
    BY DEF Told, Approved
  <1>2. RowTold(mesa)'
    BY <1>1 DEF RowTold, PlayerTold, NoDraftUpTo, CapturedAt, LastTotal
  <1>3. mesa # NoMesa /\ mesa.ready => mesa'.ready
    BY DEF Told
  <1> QED
    BY <1>2, <1>3, ToldStep

\* A new player has no initial score; the last entry takes the open round as reference.
LEMMA EnterTold ==
    ASSUME MesaInv, SeasonKept, ToldInv, NEW m, Told(m), NEW u \in Users, NEW t \in Term,
           NEW invited, Enter(m, u, t, invited), UNCHANGED <<round, history>>, WorksTold
    PROVE  ToldInv'
  <1> DEFINE new == [fee |-> t.cost, invited |-> invited, base |-> Null, score |-> 0,
                     position |-> 0]
  <1>1. m \in MesaRow /\ RowTold(m) /\ SeasonTyped
    BY DEF Told, MesaInv
  <1>2. /\ mesa' \in MesaRow /\ mesa'.ready = m.ready
        /\ mesa'.closedAt = IF Fills(m, t) THEN now ELSE m.closedAt
        /\ IF Fills(m, t) THEN mesa'.ref \in OpenRounds ELSE mesa'.ref = m.ref
    BY <1>1, EnterRow
  <1>3. now # Null
    BY <1>1, MesaAssumption DEF SeasonTyped
  <1>4. Fills(m, t) => m.ref = Null /\ ~m.ready
    BY <1>1 DEF Fills, RowTold
  <1>5. mesa'.ref # Null => mesa'.closedAt # Null /\ NoDraftUpTo(mesa'.ref)
    BY <1>1, <1>2, <1>3, OpenAfterDrafts DEF RowTold
  <1>6. mesa'.ready => mesa'.ref # Null
    BY <1>1, <1>2, <1>4 DEF RowTold
  <1>7. ASSUME NEW v \in Approved'
        PROVE  PlayerTold(mesa, v)'
    <2>1. v \in Users
      BY DEF Approved
    <2>2. participant' = [participant EXCEPT ![u] = new]
      BY DEF Enter
    <2>3. CASE v = u
      <3>1. participant'[v] = new
        BY <2>1, <2>2, <2>3 DEF MesaInv, MesaTyped
      <3> QED
        BY <3>1 DEF PlayerTold
    <2>4. CASE v # u
      <3>1. participant'[v] = participant[v] /\ v \in Approved
        BY <2>1, <2>2, <2>4 DEF MesaInv, MesaTyped, Approved
      <3>2. PlayerTold(m, v)
        BY <1>1, <3>1 DEF RowTold
      <3>3. m.ready => mesa'.ref = m.ref
        BY <1>2, <1>4
      <3> QED
        BY <1>2, <3>1, <3>2, <3>3 DEF PlayerTold, CapturedAt, LastTotal
    <2> QED
      BY <2>3, <2>4
  <1>8. RowTold(mesa)'
    BY <1>5, <1>6, <1>7 DEF RowTold, NoDraftUpTo
  <1>9. mesa # NoMesa /\ mesa.ready => mesa'.ready
    BY <1>2 DEF Told
  <1> QED
    BY <1>8, <1>9, ToldStep

LEMMA SaveTold ==
    ASSUME MesaInv, SeasonKept, ToldInv, NEW m, Told(m), UNCHANGED <<round, history>>, WorksTold,
           NEW mode \in {"KEEP", "DRAFT", "AT_START", "NOW"}, Save(m, mode) \/ PublishRow(m)
    PROVE  ToldInv'
  <1>1. m \in MesaRow
    BY DEF Told
  <1>2. ASSUME PublishRow(m)
        PROVE  ToldInv'
    <2> DEFINE active == [m EXCEPT !.status = "ACTIVE", !.publishAt = Null]
    <2>1. /\ active \in MesaRow /\ active.ref = m.ref /\ active.closedAt = m.closedAt
          /\ active.ready = m.ready
      BY <1>1 DEF MesaRow
    <2>2. (mesa' = active /\ UNCHANGED participant) \/ Enter(active, Creator, m.terms, FALSE)
      BY <1>2 DEF PublishRow
    <2> HIDE DEF active
    <2>3. Told(active)
      BY <2>1, SameTold
    <2>4. Creator \in Users /\ m.terms \in Term
      BY <1>1, MesaAssumption DEF MesaRow
    <2>5. CASE mesa' = active /\ UNCHANGED participant
      BY <2>3, <2>5, RowReplaced
    <2>6. CASE Enter(active, Creator, m.terms, FALSE)
      BY <2>3, <2>4, <2>6, EnterTold
    <2> QED
      BY <2>2, <2>5, <2>6
  <1>3. ASSUME Save(m, mode), mode # "NOW"
        PROVE  ToldInv'
    <2>1. m.terms.start \in Nat
      BY <1>1 DEF MesaRow, Term
    <2>2. /\ UNCHANGED participant
          /\ mesa' = m \/ \E at \in Nat \cup {Null} : mesa' = [m EXCEPT !.publishAt = at]
      BY <1>3, <2>1 DEF Save
    <2>3. /\ mesa' \in MesaRow /\ mesa'.ref = m.ref /\ mesa'.closedAt = m.closedAt
          /\ mesa'.ready = m.ready
      BY <1>1, <2>2 DEF MesaRow
    <2> QED
      BY <2>2, <2>3, SameTold, RowReplaced
  <1> QED
    BY <1>2, <1>3 DEF Save

LEMMA CreateTold ==
    ASSUME MesaInv, SeasonKept, ToldInv, NEW t \in Terms, NEW admin \in BOOLEAN,
           NEW mode \in {"DRAFT", "AT_START", "NOW"}, Create(t, admin, mode)
    PROVE  ToldInv'
  <1> DEFINE pool == Reward(0, t)
             m == [status |-> "DRAFT", terms |-> t, end |-> t.end, byAdmin |-> admin,
                   publishAt |-> Null, seats |-> 0, gross |-> 0, fee |-> 0,
                   pool |-> pool, closedAt |-> Null, ref |-> Null, ready |-> FALSE,
                   settled |-> FALSE]
  <1>1. t \in Term /\ t.end \in Nat \cup {Null} /\ pool \in Int
    BY MesaAssumption, MoneyType DEF Term
  <1>2. Save(m, mode) /\ mesa = NoMesa /\ request' = request /\ UNCHANGED <<round, history>>
    BY DEF Create, season
  <1>3. Approved = {}
    BY <1>2 DEF MesaInv, Seated
  <1> HIDE DEF pool
  <1>4. m \in MesaRow /\ m.ref = Null /\ ~m.ready
    BY <1>1 DEF MesaRow
  <1> HIDE DEF m
  <1>5. Told(m)
    BY <1>2, <1>3, <1>4 DEF Told, RowTold
  <1> QED
    BY <1>2, <1>5, SaveTold DEF WorksTold

LEMMA PublishTold ==
    ASSUME MesaInv, SeasonKept, ToldInv, Publish \/ PublishScheduled
    PROVE  ToldInv'
  <1>1. /\ PublishRow(mesa) /\ mesa.status = "DRAFT" /\ request' = request
        /\ UNCHANGED <<round, history>>
    BY DEF Publish, PublishScheduled, Scheduled, season
  <1>2. Told(mesa)
    BY <1>1, MesaExists, MesaTold
  <1> QED
    BY <1>1, <1>2, SaveTold DEF WorksTold

LEMMA CommitJoinTold ==
    ASSUME MesaInv, SeasonKept, ToldInv, NEW q \in Requests, CommitJoin(q)
    PROVE  ToldInv'
  <1>1. q \in Pool /\ request[q] \in Join
    BY DEF CommitJoin, Pool, MesaInv, RequestsTyped, Work, Idle, Edit, Closing, Finish, Pass
  <1>2. mesa \in MesaRow /\ mesa # NoMesa /\ request[q] # Idle
    BY <1>1, IdleIsNoEntry, MesaExists
  <1>3. /\ Enter(mesa, request[q].user, request[q].terms, request[q].invited)
        /\ request[q].user \in Users /\ request[q].terms \in Term
        /\ End(q) /\ UNCHANGED <<round, history>>
    BY <1>1 DEF CommitJoin, Join, season
  <1>4. WorksTold
    BY <1>1, <1>2, <1>3, EndTold
  <1> QED
    BY <1>2, <1>3, <1>4, EnterTold, MesaTold

LEMMA CommitEditTold ==
    ASSUME MesaInv, SeasonKept, ToldInv, NEW q \in Requests, CommitEdit(q)
    PROVE  ToldInv'
  <1> DEFINE t == request[q].terms
             edited == [mesa EXCEPT !.terms = t, !.end = t.end]
             m == IF request[q].reset THEN Priced(edited, 0, 0, Reward(0, t)) ELSE edited
  <1>1. q \in Pool /\ request[q] \in Edit
    BY DEF CommitEdit, Pool, MesaInv, RequestsTyped, Work, Idle, Join, Closing, Finish, Pass
  <1>2. t \in Term /\ request[q].mode \in {"KEEP", "DRAFT", "AT_START", "NOW"}
        /\ t.end \in Nat \cup {Null}
    BY <1>1 DEF Edit, Term
  <1>3. mesa \in MesaRow /\ mesa # NoMesa /\ request[q] # Idle
    <2>1. request[q] # Idle
      BY <1>1 DEF Edit, Idle
    <2> QED
      BY <1>1, <2>1, MesaExists
  <1>4. Save(m, request[q].mode) /\ End(q) /\ UNCHANGED <<round, history>>
    BY DEF CommitEdit, Priced, season
  <1>5. /\ edited \in MesaRow /\ edited.ref = mesa.ref /\ edited.closedAt = mesa.closedAt
        /\ edited.ready = mesa.ready
    BY <1>2, <1>3 DEF MesaRow
  <1>6. Reward(0, t) \in Int
    BY <1>2, MoneyType
  <1> HIDE DEF edited, t
  <1>7. m \in MesaRow /\ m.ref = mesa.ref /\ m.closedAt = mesa.closedAt /\ m.ready = mesa.ready
    BY <1>5, <1>6, PricedRow
  <1> HIDE DEF m
  <1>8. Told(m)
    BY <1>3, <1>7, MesaTold, SameTold
  <1>9. WorksTold
    BY <1>1, <1>3, <1>4, EndTold
  <1> QED
    BY <1>2, <1>4, <1>8, <1>9, SaveTold

\* Work begins with the Mesa as it is.
LEMMA StartTold ==
    ASSUME MesaInv, MesaInv', SeasonKept, ToldInv, NEW q \in Pool,
           \/ \E u \in Users, invited \in BOOLEAN : StartJoin(q, u, invited)
           \/ \E t \in NewTerms, admin \in BOOLEAN,
                 mode \in {"KEEP", "DRAFT", "AT_START", "NOW"} : StartEdit(q, t, admin, mode)
           \/ StartUnschedule(q) \/ StartCloseRegistrations(q) \/ StartFinish(q)
           \/ StartRecalculation(q) \/ \E force \in BOOLEAN : StartClose(q, force)
    PROVE  ToldInv'
  <1>1. UNCHANGED <<mesa, participant, round, history>> /\ mesa.status \in {"DRAFT", "ACTIVE", "CLOSED"}
    <2>1. mesa \in {NoMesa} \cup MesaRow
      BY DEF MesaInv, MesaTyped
    <2> QED
      BY <2>1 DEF StartJoin, Accepts, StartEdit, StartUnschedule, Scheduled,
                  StartCloseRegistrations, StartFinish, StartRecalculation, StartClose, MesaRow, season
  <1>2. mesa \in MesaRow /\ mesa # NoMesa
    BY <1>1, MesaExists
  <1>3. ASSUME NEW w, request' = [request EXCEPT ![q] = w], WorkTold(w)
        PROVE  ToldInv'
    <2>1. request'[q] = w
      BY <1>3 DEF MesaInv, RequestsTyped
    <2>2. w \in Work
      BY <2>1 DEF MesaInv, RequestsTyped
    <2> QED
      BY <1>1, <1>2, <1>3, <2>2, MesaTold, RowReplaced DEF WorksTold
  <1>4. ASSUME NEW w, request' = [request EXCEPT ![q] = w],
               w.op \in {"join", "edit", "unschedule", "finish"}
        PROVE  ToldInv'
    BY <1>3, <1>4 DEF WorkTold, Closing, Pass
  <1>5. CASE \E u \in Users, invited \in BOOLEAN : StartJoin(q, u, invited)
    <2>1. PICK u \in Users, invited \in BOOLEAN : StartJoin(q, u, invited)
      BY <1>5
    <2> DEFINE w == [op |-> "join", user |-> u, terms |-> mesa.terms, invited |-> invited]
    <2>2. request' = [request EXCEPT ![q] = w] /\ w.op = "join"
      BY <2>1 DEF StartJoin, Begin
    <2> HIDE DEF w
    <2> QED
      BY <1>4, <2>2
  <1>6. CASE \E t \in NewTerms, admin \in BOOLEAN,
                mode \in {"KEEP", "DRAFT", "AT_START", "NOW"} : StartEdit(q, t, admin, mode)
    <2>1. PICK t \in NewTerms, admin \in BOOLEAN,
               mode \in {"KEEP", "DRAFT", "AT_START", "NOW"} : StartEdit(q, t, admin, mode)
      BY <1>6
    <2> DEFINE reset == mesa.status = "DRAFT" \/ ~Locked
               w == [op |-> "edit", terms |-> t, mode |-> mode, status |-> mesa.status,
                     start |-> mesa.terms.start, reset |-> reset]
    <2>2. request' = [request EXCEPT ![q] = w]
      BY <2>1 DEF StartEdit, Begin
    <2> HIDE DEF reset
    <2>3. w.op = "edit"
      OBVIOUS
    <2> HIDE DEF w
    <2> QED
      BY <1>4, <2>2, <2>3
  <1>7. CASE StartUnschedule(q)
    <2> DEFINE w == [op |-> "unschedule"]
    <2>1. request' = [request EXCEPT ![q] = w] /\ w.op = "unschedule"
      BY <1>7 DEF StartUnschedule, Begin
    <2> HIDE DEF w
    <2> QED
      BY <1>4, <2>1
  <1>8. CASE StartCloseRegistrations(q)
    <2> DEFINE ref == IF OpenRounds = {} THEN Null ELSE CHOOSE r \in OpenRounds : TRUE
               w == [op |-> "registrations", at |-> mesa.terms.entryEnd, ref |-> ref]
    <2>1. ref # Null => NoDraftUpTo(ref)
      <3>1. OpenRounds # {} => ref \in OpenRounds
        OBVIOUS
      <3>2. ASSUME NEW r \in OpenRounds, r = ref
            PROVE  NoDraftUpTo(ref)
        <4> HIDE DEF ref
        <4>1. NoDraftUpTo(r)
          BY OpenAfterDrafts
        <4> QED
          BY <3>2, <4>1
      <3> QED
        BY <3>1, <3>2
    <2>2. request' = [request EXCEPT ![q] = w]
      BY <1>8 DEF StartCloseRegistrations, Begin
    <2> HIDE DEF ref
    <2>3. WorkTold(w)
      BY <2>1 DEF WorkTold, Pass
    <2> HIDE DEF w
    <2> QED
      BY <1>3, <2>2, <2>3
  <1>9. CASE StartFinish(q)
    <2>1. PICK r \in RoundsAfter : Begin(q, [op |-> "finish", end |-> CloseAt[r]])
      BY <1>9 DEF StartFinish
    <2> DEFINE w == [op |-> "finish", end |-> CloseAt[r]]
    <2>2. request' = [request EXCEPT ![q] = w] /\ w.op = "finish"
      BY <2>1 DEF Begin
    <2> HIDE DEF w
    <2> QED
      BY <1>4, <2>2
  <1>10. CASE StartRecalculation(q) \/ \E force \in BOOLEAN : StartClose(q, force)
    <2>1. PICK op \in {"recalc", "close"} :
            request' = [request EXCEPT ![q] = [op |-> op, seen |-> mesa, rows |-> Null]]
      BY <1>10 DEF StartRecalculation, StartClose, Begin
    <2> DEFINE w == [op |-> op, seen |-> mesa, rows |-> Null]
    <2>2. WorkTold(w)
      BY DEF WorkTold, Closing
    <2> HIDE DEF w
    <2> QED
      BY <1>3, <2>1, <2>2 DEF w
  <1> QED
    BY <1>5, <1>6, <1>7, <1>8, <1>9, <1>10

\* What a pass builds of a row that is not ready gives nothing away.
LEMMA BuildRowsTold ==
    ASSUME MesaInv, MesaInv', SeasonKept, ToldInv, NEW q \in Pool, BuildRows(q)
    PROVE  ToldInv'
  <1> DEFINE rows == Rows(request[q].seen)
             w == [request[q] EXCEPT !.rows = rows]
  <1>1. request[q] \in Pass
    BY DEF BuildRows, MesaInv, RequestsTyped, Work, Idle, Join, Edit, Closing, Finish
  <1>2. mesa # NoMesa /\ mesa \in MesaRow
    <2>1. request[q] # Idle
      BY <1>1, IdleIsNoEntry
    <2> QED
      BY <2>1, MesaExists
  <1>3. request' = [request EXCEPT ![q] = w] /\ UNCHANGED <<mesa, participant, round, history>>
    BY DEF BuildRows, Continue, season
  <1>4. ~request[q].seen.ready => Blank(rows)
    BY DEF Rows, Blank
  <1> HIDE DEF rows
  <1>5. w.seen = request[q].seen /\ w.rows = rows /\ w.op \in {"recalc", "close"}
    BY <1>1 DEF Pass
  <1>6. request[q].seen.ready => mesa.ready
    BY <1>1 DEF ToldInv, WorkTold
  <1> HIDE DEF w
  <1>7. WorkTold(w)
    BY <1>4, <1>5, <1>6 DEF WorkTold, Closing
  <1>8. w \in Work
    <2>1. request'[q] = w
      BY <1>3 DEF MesaInv, RequestsTyped
    <2> QED
      BY <2>1 DEF MesaInv, RequestsTyped
  <1> QED
    BY <1>2, <1>3, <1>7, <1>8, MesaTold, RowReplaced DEF WorksTold

LEMMA JobTold ==
    ASSUME MesaInv, MesaInv', SeasonKept, ToldInv, NEW q \in Pool,
           CommitUnschedule(q) \/ CommitFinish(q) \/ CommitCloseRegistrations(q) \/ RollBack(q)
    PROVE  ToldInv'
  <1>1. request[q] # Idle /\ End(q) /\ UNCHANGED <<participant, round, history>>
    BY DEF CommitUnschedule, CommitFinish, CommitCloseRegistrations, RollBack, Idle, season
  <1>2. WorksTold /\ mesa \in MesaRow /\ mesa # NoMesa
    BY <1>1, EndTold, MesaExists
  <1>3. mesa' \in MesaRow
    <2>1. mesa' # NoMesa
      BY <1>2 DEF CommitUnschedule, CommitFinish, CommitCloseRegistrations, RollBack, MesaRow, NoMesa
    <2> QED
      BY <2>1 DEF MesaInv, MesaTyped
  <1>4. CASE CommitUnschedule(q) \/ CommitFinish(q) \/ RollBack(q)
    <2>1. mesa'.ref = mesa.ref /\ mesa'.closedAt = mesa.closedAt /\ mesa'.ready = mesa.ready
      BY <1>2, <1>4 DEF CommitUnschedule, CommitFinish, RollBack, MesaRow
    <2> QED
      BY <1>1, <1>2, <1>3, <2>1, MesaTold, SameTold, RowReplaced
  <1>5. CASE CommitCloseRegistrations(q)
    <2>1. mesa'.closedAt = request[q].at /\ mesa'.ref = request[q].ref /\ mesa'.ready = mesa.ready
          /\ mesa.closedAt = Null
      BY <1>2, <1>5 DEF CommitCloseRegistrations, MesaRow
    <2>2. request[q] \in Closing /\ request[q].at # Null
      BY <1>5, MesaAssumption
         DEF CommitCloseRegistrations, MesaInv, RequestsTyped, Work, Idle, Join, Edit, Closing,
             Finish, Pass
    <2>3. request[q].ref # Null => NoDraftUpTo(request[q].ref)
      BY <2>2 DEF ToldInv, WorkTold
    <2>4. RowTold(mesa)
      BY <1>2 DEF ToldInv
    <2>5. ~mesa.ready
      BY <2>1, <2>4 DEF RowTold
    <2>6. \A u \in Approved : PlayerTold(mesa', u)
      BY <2>1, <2>4, <2>5 DEF RowTold, PlayerTold
    <2>7. RowTold(mesa')
      BY <2>1, <2>2, <2>3, <2>5, <2>6 DEF RowTold
    <2>8. Told(mesa')
      BY <1>2, <1>3, <2>1, <2>7 DEF Told
    <2> QED
      BY <1>1, <1>2, <2>8, RowReplaced
  <1> QED
    BY <1>4, <1>5

\* The initial scores are captured when no round up to the reference is to be scored for a
\* player.
LEMMA CaptureTold ==
    ASSUME MesaInv, MesaInv', SeasonKept, ToldInv, Capture
    PROVE  ToldInv'
  <1>1. mesa \in MesaRow /\ mesa # NoMesa
    BY MesaExists DEF Capture
  <1>2. /\ mesa' = [mesa EXCEPT !.ready = TRUE] /\ ~mesa.ready /\ HistoriesComplete
        /\ UNCHANGED <<round, history, request>> /\ mesa.ref # Null
        /\ participant' = [u \in Users |->
             IF u \in Approved /\ participant[u].base = Null
             THEN [participant[u] EXCEPT !.base = BaseOf(u)] ELSE participant[u]]
    BY DEF Capture, season
  <1>3. mesa.ref \in Rounds /\ mesa'.ready /\ mesa'.ref = mesa.ref /\ mesa'.closedAt = mesa.closedAt
    BY <1>1, <1>2 DEF MesaRow
  <1>4. RowTold(mesa)
    BY <1>1 DEF ToldInv
  <1>5. Approved' = Approved
    BY CaptureSane, SamePlayersStay DEF MesaInv
  <1>6. ASSUME NEW u \in Approved
        PROVE  CapturedAt(u, mesa.ref, participant'[u].base)
    <2>1. u \in Users /\ participant[u] \in Participation
      BY DEF Approved, MesaInv, MesaTyped
    <2>2. participant[u].base = Null
      BY <1>2, <1>4 DEF RowTold, PlayerTold
    <2>3. participant'[u] = [participant[u] EXCEPT !.base = BaseOf(u)]
      BY <1>2, <2>1, <2>2
    <2>4. participant'[u].base = BaseOf(u)
      BY <2>1, <2>3 DEF Participation
    <2>5. ASSUME NEW r \in 1..mesa.ref
          PROVE  Points[u][r] = Null \/ round[r] \in {"SCORED", "CANCELLED"}
      <3>1. r \in Rounds
        BY <1>3, MesaAssumption DEF Rounds
      <3>2. round[r] \in {"OPEN", "CLOSED", "SCORED", "CANCELLED"}
        BY <1>2, <1>4, <3>1 DEF RowTold, NoDraftUpTo, MesaInv, SeasonTyped
      <3>3. HasTicket(u, r) => round[r] = "SCORED"
        BY <1>2, <2>1, <3>1 DEF HistoriesComplete, SeasonKept
      <3> QED
        BY <3>2, <3>3 DEF HasTicket
    <2> QED
      BY <2>4, <2>5 DEF CapturedAt, BaseOf
  <1>7. ASSUME NEW u \in Approved'
        PROVE  PlayerTold(mesa, u)'
    <2>1. CapturedAt(u, mesa.ref, participant'[u].base)
      BY <1>5, <1>6
    <2> QED
      BY <1>2, <1>3, <2>1 DEF PlayerTold, CapturedAt, LastTotal
  <1>8. RowTold(mesa)'
    BY <1>2, <1>3, <1>4, <1>7 DEF RowTold, NoDraftUpTo
  <1> QED
    BY <1>2, <1>3, <1>8, ToldStep DEF WorksTold

\* The rows of a pass over a Mesa that is not ready are blank.
LEMMA RowsTold ==
    ASSUME MesaInv, MesaInv', SeasonKept, ToldInv, NEW q \in Pool, request[q] \in Pass,
           request[q].rows # Null, WriteRows(request[q].rows), End(q),
           UNCHANGED <<round, history>>,
           mesa'.ref = mesa.ref, mesa'.closedAt = mesa.closedAt, mesa'.ready = mesa.ready
    PROVE  ToldInv'
  <1> DEFINE rows == request[q].rows
  <1>1. request[q] # Idle /\ mesa \in MesaRow /\ mesa # NoMesa
    <2>1. request[q] # Idle
      BY IdleIsNoEntry
    <2> QED
      BY <2>1, MesaExists
  <1>2. WorksTold
    BY <1>1, EndTold
  <1>3. RowTold(mesa)
    BY <1>1 DEF ToldInv
  <1>4. ~mesa.ready => Blank(rows)
    BY DEF ToldInv, WorkTold
  <1>5. Approved' = Approved
    BY WriteRowsSane, SamePlayersStay DEF MesaInv
  <1> HIDE DEF rows
  <1>6. ASSUME NEW u \in Approved
        PROVE  /\ participant'[u].base = participant[u].base
               /\ ~mesa.ready => participant'[u].score = 0 /\ participant'[u].position = 0
    <2>1. u \in Users /\ participant[u] \in Participation /\ PlayerTold(mesa, u)
      BY <1>3 DEF Approved, MesaInv, MesaTyped, RowTold
    <2>2. participant'[u] = IF u \in DOMAIN rows
            THEN [participant[u] EXCEPT !.score = rows[u].score, !.position = rows[u].position]
            ELSE participant[u]
      BY <2>1 DEF WriteRows, rows
    <2>3. CASE u \in DOMAIN rows
      <3>1. /\ participant'[u].base = participant[u].base
            /\ participant'[u].score = rows[u].score
            /\ participant'[u].position = rows[u].position
        BY <2>1, <2>2, <2>3 DEF Participation
      <3> QED
        BY <1>4, <2>3, <3>1 DEF Blank
    <2>4. CASE u \notin DOMAIN rows
      BY <2>1, <2>2, <2>4 DEF PlayerTold
    <2> QED
      BY <2>3, <2>4
  <1>7. ASSUME NEW u \in Approved'
        PROVE  PlayerTold(mesa, u)'
    BY <1>3, <1>5, <1>6 DEF RowTold, PlayerTold, CapturedAt, LastTotal
  <1>8. RowTold(mesa)'
    BY <1>3, <1>7 DEF RowTold, NoDraftUpTo
  <1> QED
    BY <1>2, <1>8, ToldStep

LEMMA CommitRowsTold ==
    ASSUME MesaInv, MesaInv', SeasonKept, ToldInv, NEW q \in Pool,
           CommitRecalculation(q) \/ CommitClose(q)
    PROVE  ToldInv'
  <1>1. /\ request[q] \in Pass /\ request[q].rows # Null /\ WriteRows(request[q].rows)
        /\ End(q) /\ UNCHANGED <<round, history>>
    BY DEF CommitRecalculation, CommitClose, season, MesaInv, RequestsTyped, Work, Idle, Join,
           Edit, Closing, Finish
  <1>2. mesa \in MesaRow
    <2>1. request[q] # Idle
      BY <1>1, IdleIsNoEntry
    <2> QED
      BY <2>1, MesaExists
  <1>3. mesa'.ref = mesa.ref /\ mesa'.closedAt = mesa.closedAt /\ mesa'.ready = mesa.ready
    BY <1>2 DEF CommitRecalculation, CommitClose, MesaRow
  <1> QED
    BY <1>1, <1>3, RowsTold

LEMMA NextTold == MesaInv /\ MesaInv' /\ SeasonKept /\ ToldInv /\ [Next]_vars => ToldInv'
  <1> SUFFICES ASSUME MesaInv, MesaInv', SeasonKept, ToldInv, [Next]_vars
               PROVE  ToldInv'
    OBVIOUS
  <1>1. CASE \E t \in Terms, admin \in BOOLEAN, mode \in {"DRAFT", "AT_START", "NOW"} :
               Create(t, admin, mode)
    BY <1>1, CreateTold
  <1>2. CASE Publish \/ PublishScheduled
    BY <1>2, PublishTold
  <1>3. CASE \E max \in InviteUses : CreateInvite(max)
    <2>1. UNCHANGED <<season, mesa, participant, request>> /\ mesa.status = "ACTIVE"
      BY <1>3 DEF CreateInvite
    <2>2. mesa \in MesaRow
      BY <2>1, MesaExists
    <2> QED
      BY <2>1, <2>2, MesaTold, RowReplaced DEF WorksTold, season
  <1>4. ASSUME NEW q \in Requests, Enrol(q)
        PROVE  ToldInv'
    BY <1>4, StartTold, CommitJoinTold, CommitEditTold DEF Enrol, Pool
  <1>5. ASSUME NEW q \in Pool, StartJob(q) \/ StartRecalculation(q)
                                 \/ \E force \in BOOLEAN : StartClose(q, force)
        PROVE  ToldInv'
    BY <1>5, StartTold DEF StartJob
  <1>6. ASSUME NEW q \in Pool, CommitJob(q) \/ RollBack(q)
        PROVE  ToldInv'
    BY <1>6, JobTold DEF CommitJob
  <1>7. ASSUME NEW q \in Pool, CommitRecalculation(q) \/ CommitClose(q)
        PROVE  ToldInv'
    BY <1>7, CommitRowsTold
  <1>8. ASSUME NEW q \in Pool, BuildRows(q)
        PROVE  ToldInv'
    BY <1>8, BuildRowsTold
  <1>9. CASE Capture
    BY <1>9, CaptureTold
  <1>10. CASE Season \/ UNCHANGED vars
    BY <1>10, ToldThroughTheSeason
  <1> QED
    BY <1>1, <1>2, <1>3, <1>4, <1>5, <1>6, <1>7, <1>8, <1>9, <1>10 DEF Next, Pool

LEMMA ToldStarts == Init => ToldInv
  <1> SUFFICES ASSUME Init
               PROVE  ToldInv
    OBVIOUS
  <1>1. mesa = NoMesa /\ \A q \in Pool : request[q] = Idle
    BY DEF Init, Pool
  <1> QED
    BY <1>1, IdleTold DEF ToldInv

-----------------------------------------------------------------------------
(* WHAT A PLAYER IS TOLD                                                    *)

\* The players of the row m have a seat each.
SeatsFit(m) == m.terms.cap # Null => m.seats <= m.terms.cap
SeatsKept == mesa # NoMesa => SeatsFit(mesa)

LEMMA EntryFits ==
    ASSUME MesaInv, NEW m \in MesaRow, ValidTerms(m.terms), NEW u \in Users, NEW invited,
           Enter(m, u, m.terms, invited)
    PROVE  SeatsFit(mesa')
  <1>1. mesa'.terms = m.terms /\ mesa'.seats = m.seats + 1
    BY EnterRow DEF MesaInv, MesaRow
  <1>2. m.seats \in Nat /\ m.terms.cap \in Nat \cup {Null}
    BY DEF MesaRow, Term
  <1>3. m.terms.cap # Null => m.seats < m.terms.cap
    BY DEF Enter, HasSeat, ValidTerms, ValidSchedule
  <1> QED
    BY <1>1, <1>2, <1>3 DEF SeatsFit

LEMMA SaveFits ==
    ASSUME MesaInv, NEW m \in MesaRow, ValidTerms(m.terms), SeatsFit(m),
           NEW mode \in {"KEEP", "DRAFT", "AT_START", "NOW"}, Save(m, mode) \/ PublishRow(m)
    PROVE  SeatsFit(mesa')
  <1>1. ASSUME PublishRow(m)
        PROVE  SeatsFit(mesa')
    <2> DEFINE active == [m EXCEPT !.status = "ACTIVE", !.publishAt = Null]
    <2>1. active \in MesaRow /\ active.terms = m.terms /\ active.seats = m.seats
      BY DEF MesaRow
    <2>2. mesa' = active \/ Enter(active, Creator, m.terms, FALSE)
      BY <1>1 DEF PublishRow
    <2> HIDE DEF active
    <2>3. Creator \in Users
      BY MesaAssumption
    <2>4. CASE mesa' = active
      BY <2>1, <2>4 DEF SeatsFit
    <2>5. CASE Enter(active, Creator, m.terms, FALSE)
      BY <2>1, <2>3, <2>5, EntryFits
    <2> QED
      BY <2>2, <2>4, <2>5
  <1>2. ASSUME Save(m, mode), mode # "NOW"
        PROVE  SeatsFit(mesa')
    <2>1. mesa' = m \/ \E at : mesa' = [m EXCEPT !.publishAt = at]
      BY <1>2 DEF Save
    <2>2. mesa'.terms = m.terms /\ mesa'.seats = m.seats
      BY <2>1 DEF MesaRow
    <2> QED
      BY <2>2 DEF SeatsFit
  <1> QED
    BY <1>1, <1>2 DEF Save

\* Nobody has a seat in a draft.
LEMMA DraftFits ==
    ASSUME MesaInv, CoinsInv, mesa # NoMesa, mesa.status = "DRAFT"
    PROVE  mesa.seats = 0
  <1>1. Approved = {}
    BY DEF CoinsInv, Books, Fresh
  <1> QED
    BY <1>1, FS_EmptySet DEF MesaInv, Seated, EntriesAccounted

LEMMA ZeroFits ==
    ASSUME NEW m \in MesaRow, m.seats = 0
    PROVE  SeatsFit(m)
  <1>1. m.terms.cap \in Nat \cup {Null}
    BY DEF MesaRow, Term
  <1> QED
    BY <1>1 DEF SeatsFit

LEMMA NextFits ==
    MesaInv /\ CoinsInv /\ SeatsKept /\ OnlyDraftsEdited /\ [Next]_vars => SeatsKept'
  <1> SUFFICES ASSUME MesaInv, CoinsInv, SeatsKept, OnlyDraftsEdited, [Next]_vars
               PROVE  SeatsKept'
    OBVIOUS
  <1>1. CASE \E t \in Terms, admin \in BOOLEAN, mode \in {"DRAFT", "AT_START", "NOW"} :
               Create(t, admin, mode)
    <2>1. PICK t \in Terms, admin \in BOOLEAN, mode \in {"DRAFT", "AT_START", "NOW"} :
                 Create(t, admin, mode)
      BY <1>1
    <2> DEFINE pool == Reward(0, t)
               m == [status |-> "DRAFT", terms |-> t, end |-> t.end, byAdmin |-> admin,
                     publishAt |-> Null, seats |-> 0, gross |-> 0, fee |-> 0,
                     pool |-> pool, closedAt |-> Null, ref |-> Null, ready |-> FALSE,
                     settled |-> FALSE]
    <2>2. t \in Term /\ t.end \in Nat \cup {Null} /\ pool \in Int
      BY MesaAssumption, MoneyType DEF Term
    <2>3. Save(m, mode) /\ ValidTerms(t)
      BY <2>1 DEF Create
    <2> HIDE DEF pool
    <2>4. m \in MesaRow /\ m.terms = t /\ m.seats = 0
      BY <2>2 DEF MesaRow
    <2> HIDE DEF m
    <2> QED
      BY <2>3, <2>4, ZeroFits, SaveFits DEF SeatsKept
  <1>2. CASE Publish \/ PublishScheduled
    <2>1. PublishRow(mesa) /\ mesa \in MesaRow /\ mesa # NoMesa
      BY <1>2, MesaExists DEF Publish, PublishScheduled, Scheduled
    <2>2. ValidTerms(mesa.terms) /\ SeatsFit(mesa)
      BY <2>1 DEF CoinsInv, Books, RowBooks, SeatsKept
    <2> QED
      BY <2>1, <2>2, SaveFits DEF SeatsKept
  <1>3. ASSUME NEW q \in Requests, CommitJoin(q)
        PROVE  SeatsKept'
    <2>1. q \in Pool /\ request[q] \in Join
      BY <1>3 DEF CommitJoin, Pool, MesaInv, RequestsTyped, Work, Idle, Edit, Closing, Finish, Pass
    <2>2. mesa \in MesaRow /\ mesa # NoMesa
      <3>1. request[q] # Idle
        BY <2>1, IdleIsNoEntry
      <3> QED
        BY <2>1, <3>1, MesaExists
    <2>3. request[q].terms = mesa.terms /\ ValidTerms(mesa.terms) /\ request[q].user \in Users
      BY <2>1, <2>2 DEF CoinsInv, Books, RowBooks, InHand, Join
    <2>4. Enter(mesa, request[q].user, mesa.terms, request[q].invited)
      BY <1>3, <2>3 DEF CommitJoin
    <2> QED
      BY <2>2, <2>3, <2>4, EntryFits DEF SeatsKept
  <1>4. ASSUME NEW q \in Requests, CommitEdit(q)
        PROVE  SeatsKept'
    <2> DEFINE t == request[q].terms
               pool == Reward(0, t)
               edited == [mesa EXCEPT !.terms = t, !.end = t.end]
               m == IF request[q].reset THEN Priced(edited, 0, 0, pool) ELSE edited
    <2>1. q \in Pool /\ request[q] \in Edit
      BY <1>4 DEF CommitEdit, Pool, MesaInv, RequestsTyped, Work, Idle, Join, Closing, Finish, Pass
    <2>2. t \in Term /\ request[q].mode \in {"KEEP", "DRAFT", "AT_START", "NOW"}
          /\ t.end \in Nat \cup {Null}
      BY <2>1 DEF Edit, Term
    <2>3. mesa \in MesaRow /\ mesa # NoMesa
      <3>1. request[q] # Idle
        BY <2>1 DEF Edit, Idle
      <3> QED
        BY <2>1, <3>1, MesaExists
    <2>4. mesa.seats = 0
      <3>1. mesa.status = "DRAFT"
        BY <1>4, <2>1 DEF CommitEdit, OnlyDraftsEdited
      <3> QED
        BY <2>3, <3>1, DraftFits
    <2>5. ValidTerms(t)
      BY <2>1 DEF CoinsInv, InHand
    <2>6. Save(m, request[q].mode)
      BY <1>4 DEF CommitEdit, Priced
    <2>7. edited \in MesaRow /\ edited.terms = t /\ edited.seats = 0
      BY <2>2, <2>3, <2>4 DEF MesaRow
    <2>8. pool \in Int
      BY <2>2, MoneyType
    <2> HIDE DEF edited, pool, t
    <2>9. m \in MesaRow /\ m.terms = t /\ m.seats = 0
      BY <2>7, <2>8, PricedRow
    <2> HIDE DEF m
    <2> QED
      BY <2>2, <2>5, <2>6, <2>9, ZeroFits, SaveFits DEF SeatsKept
  <1>5. ASSUME mesa' = mesa \/ (mesa \in MesaRow /\ mesa # NoMesa
                                /\ mesa'.terms = mesa.terms /\ mesa'.seats = mesa.seats)
        PROVE  SeatsKept'
    BY <1>5 DEF SeatsKept, SeatsFit
  <1>6. ASSUME \/ \E max \in InviteUses : CreateInvite(max)
               \/ \E q \in Requests, u \in Users, invited \in BOOLEAN : StartJoin(q, u, invited)
               \/ \E q \in Requests, t \in NewTerms, admin \in BOOLEAN,
                     mode \in {"KEEP", "DRAFT", "AT_START", "NOW"} : StartEdit(q, t, admin, mode)
               \/ \E q \in Pool, force \in BOOLEAN : StartClose(q, force)
               \/ \E q \in Jobs : StartJob(q) \/ StartRecalculation(q) \/ CommitRecalculation(q)
               \/ \E q \in Pool : BuildRows(q) \/ RollBack(q)
               \/ Season \/ UNCHANGED vars
        PROVE  mesa' = mesa
    BY <1>6 DEF CreateInvite, StartJoin, StartEdit, StartClose, StartJob, StartUnschedule,
                StartCloseRegistrations, StartFinish, StartRecalculation, CommitRecalculation,
                BuildRows, RollBack, Season, OpenRound, CloseRound, ScoreRound, CancelRound, Tick,
                LosePro, vars
  <1>7. ASSUME Capture \/ \E q \in Pool : CommitJob(q) \/ CommitClose(q)
        PROVE  mesa \in MesaRow /\ mesa # NoMesa
               /\ mesa'.terms = mesa.terms /\ mesa'.seats = mesa.seats
    <2>1. mesa \in MesaRow /\ mesa # NoMesa
      <3>1. ASSUME NEW q \in Pool, CommitJob(q) \/ CommitClose(q)
            PROVE  request[q] # Idle
        BY <3>1 DEF CommitJob, CommitUnschedule, CommitFinish, CommitCloseRegistrations, CommitClose,
                    Idle
      <3>2. Capture => mesa.status = "ACTIVE"
        BY DEF Capture
      <3> QED
        BY <1>7, <3>1, <3>2, MesaExists
    <2> QED
      BY <1>7, <2>1 DEF Capture, CommitJob, CommitUnschedule, CommitFinish,
                        CommitCloseRegistrations, CommitClose, MesaRow
  <1> QED
    BY <1>1, <1>2, <1>3, <1>4, <1>5, <1>6, <1>7 DEF Next, Enrol, Pool

\* In a row of sound terms, the list of Mesas and the handler of the entry agree.
LEMMA OffersAreMet ==
    ASSUME MesaInv, CoinsInv
    PROVE  OffersMatchEntry
  <1> SUFFICES ASSUME mesa # NoMesa, NEW u \in Users
               PROVE  /\ Offered(u) /\ EndIsShown => Accepts(u)
                      /\ Offered(u) /\ PriceIsShown => CanPay(u, mesa.terms)
                      /\ Accepts(u) /\ CanPay(u, mesa.terms) /\ mesa.closedAt = Null /\ ~Owner(u)
                            => Offered(u)
                      /\ Discovered(u) => ListedState = RegistrationState(mesa)
    BY DEF OffersMatchEntry
  <1>1. mesa \in MesaRow /\ ValidTerms(mesa.terms) /\ now \in Nat
    BY DEF MesaInv, MesaTyped, SeasonTyped, CoinsInv, Books, RowBooks
  <1> DEFINE t == mesa.terms
  <1>2. /\ t.category \in {"PAID", "FREE", "SPONSORED_FREE"}
        /\ t.eligibility \in {"ALL", "SUBSCRIBERS_ONLY", "FREE_ONLY"}
        /\ t.start \in Nat /\ t.cost \in Nat /\ mesa.seats \in Nat
        /\ t.cap \in Nat \cup {Null} /\ t.entryEnd \in Nat \cup {Null}
        /\ mesa.end \in Nat \cup {Null}
    BY <1>1 DEF MesaRow, Term
  <1>3. /\ t.category = "PAID" => t.cost > 0
        /\ t.category = "FREE" => t.cost = 0
        /\ t.cap = Null <=> DateMode(t)
    BY <1>1 DEF ValidTerms, ValidCategory, ValidSchedule
  <1>4. HasSeat(mesa, t) <=> (t.cap # Null => mesa.seats < t.cap)
    BY <1>3 DEF HasSeat
  <1>5. WindowOpen(mesa) <=> /\ t.entryEnd # Null => t.entryEnd > now
                             /\ DateMode(t) \/ NotPast(mesa.end)
    BY DEF WindowOpen, NotPast, DateMode
  <1>6. ListedState \in OpenStates <=> t.start <= now
    BY <1>1, <1>2 DEF ListedState, OpenStates
  <1>7. Eligible(u) <=> /\ t.eligibility = "SUBSCRIBERS_ONLY" => u \in pro
                        /\ t.eligibility = "FREE_ONLY" => u \notin pro
    BY <1>2 DEF Eligible
  <1>8. AccessState(u) = "CAN_JOIN" <=>
          Eligible(u) /\ t.start <= now /\ (t.category = "PAID" => HasFunds(wallet[u], t.cost))
    BY <1>6, <1>7 DEF AccessState
  <1>9. CanPay(u, t) <=> (t.cost > 0 => HasFunds(wallet[u], t.cost))
    BY DEF CanPay, HasPaidEntry
  <1>10. ASSUME Offered(u), EndIsShown
         PROVE  Accepts(u)
    BY <1>4, <1>5, <1>8, <1>10 DEF Offered, Discovered, EndIsShown, Accepts, IsNew
  <1>11. ASSUME Offered(u), PriceIsShown
         PROVE  CanPay(u, t)
    BY <1>2, <1>3, <1>8, <1>9, <1>11 DEF Offered, PriceIsShown
  <1>12. ASSUME Accepts(u), CanPay(u, t), mesa.closedAt = Null, ~Owner(u)
         PROVE  Offered(u)
    BY <1>3, <1>4, <1>5, <1>8, <1>9, <1>12 DEF Offered, Discovered, Accepts, IsNew
  <1>13. ASSUME Discovered(u)
         PROVE  ListedState = RegistrationState(mesa)
    <2>1. /\ mesa.status = "ACTIVE" /\ mesa.closedAt = Null
          /\ t.entryEnd # Null => ~(t.entryEnd <= now)
          /\ t.cap # Null => ~(t.cap <= mesa.seats)
      BY <1>1, <1>2, <1>13 DEF Discovered
    <2> QED
      BY <2>1 DEF ListedState, RegistrationState
  <1> QED
    BY <1>10, <1>11, <1>12, <1>13

LEMMA PagesAreTrue ==
    ASSUME MesaInv, SeasonKept, ToldInv, SeatsKept, ClosedInOrder
    PROVE  PagesTellTheGame
  <1>1. ASSUME mesa # NoMesa
        PROVE  mesa \in MesaRow /\ RowTold(mesa) /\ mesa.seats = Cardinality(Approved)
    BY <1>1 DEF MesaInv, MesaTyped, ToldInv, Seated, EntriesAccounted
  <1>2. DOMAIN Entries(mesa) = Approved
    BY DEF Entries, Stored, Rows
  <1>3. ASSUME mesa # NoMesa, mesa.terms.cap # Null
        PROVE  SpotsRemaining(mesa) = mesa.terms.cap - Cardinality(DOMAIN Entries(mesa))
    <2>1. mesa.seats \in Nat /\ mesa.terms.cap \in Nat /\ mesa.seats <= mesa.terms.cap
      BY <1>1, <1>3 DEF MesaRow, Term, SeatsKept, SeatsFit
    <2> QED
      BY <1>1, <1>2, <1>3, <2>1 DEF SpotsRemaining
  <1>4. ASSUME NEW u \in Users, Discovered(u)
        PROVE  Available /\ HasPage(u) /\ ~OnOwnList(u)
    BY <1>4 DEF Discovered, Available, HasPage, OnOwnList, NoMesa, Approved
  <1>5. ASSUME mesa # NoMesa, ~mesa.ready, NEW u \in Approved
        PROVE  Entries(mesa)[u] = [score |-> 0, position |-> 0] /\ OwnRow(u) = Entries(mesa)[u]
    <2>1. participant[u].score = 0 /\ participant[u].position = 0
      BY <1>1, <1>5 DEF RowTold, PlayerTold
    <2>2. Stored(mesa)[u] = [score |-> 0, position |-> 0]
      BY <2>1 DEF Stored
    <2>3. Rows(mesa)[u] = [score |-> 0, position |-> 0]
      BY <1>5 DEF Rows
    <2> QED
      BY <2>2, <2>3 DEF Entries, OwnRow
  <1>6. ASSUME mesa # NoMesa, mesa.status = "ACTIVE", mesa.ready, AllCaptured, ScoredInOrder,
               NEW u \in Approved
        PROVE  Entries(mesa)[u].score = Earned(u, RowWindow(mesa))
    <2>1. mesa \in MesaRow /\ mesa.ref # Null /\ SeasonTyped
      BY <1>1, <1>6 DEF RowTold, MesaInv
    <2>2. participant[u].base = OrElse(LastTotal(u, 1..mesa.ref), 0)
      BY <1>1, <1>6 DEF RowTold, PlayerTold, CapturedAt, AllCaptured
    <2>3. Rows(mesa)[u].score = Earned(u, RowWindow(mesa))
      BY <1>6, <2>1, <2>2, RowsAreEarned
    <2> QED
      BY <1>6, <2>3 DEF Entries
  <1>7. RowWindow(mesa) = {r \in Rounds : r > mesa.ref /\ CloseAt[r] <= OrElse(mesa.end, now)}
    BY DEF RowWindow, OrElse
  <1> QED
    BY <1>3, <1>4, <1>5, <1>6, <1>7 DEF PagesTellTheGame

\* Of a Mesa that nobody edits once it is published, in a season whose rounds do not close
\* before those with smaller numbers, players are told the truth at any moment: what the
\* list offers is what an entry accepts, nothing is given away before the initial scores,
\* and then each row has what its player earned since the reference round
\* (DiscoverMesasService, GetBolaoRankingService, MesaInitialScoreService).  An edit may
\* leave a Mesa that closes with fewer places than players, and a round that closes before
\* an earlier one leaves a hole in the window of a row.
THEOREM PlayersStayTold ==
    ASSUME ClosedInOrder
    PROVE  Spec /\ []OnlyDraftsEdited => []PlayersAreTold
  <1>1. Init => CoinsInv /\ ToldInv /\ SeatsKept
    BY CoinsStart, ToldStarts DEF Init, SeatsKept
  <1>2. MesaInv /\ PurseInv /\ SeasonKept /\ OnlyDraftsEdited /\ MesaInv'
        /\ CoinsInv /\ ToldInv /\ SeatsKept /\ [Next]_vars => CoinsInv' /\ ToldInv' /\ SeatsKept'
    BY NextKeeps, NextTold, NextFits
  <1>3. MesaInv /\ SeasonKept /\ CoinsInv /\ ToldInv /\ SeatsKept => PlayersAreTold
    BY OffersAreMet, PagesAreTrue DEF PlayersAreTold
  <1> QED
    BY PurseInductive, SeasonInductive, <1>1, <1>2, <1>3, PTL DEF Spec

-----------------------------------------------------------------------------
(* THE ROUNDS OF A MESA'S OWN                                               *)

ClosedOneByOne == \A r, s \in Rounds : r < s => CloseAt[r] < CloseAt[s]

\* The rounds are scored one after the other: no round before a scored one is still to be.
InTurn == \A r, s \in Rounds : s < r /\ round[r] = "SCORED" => round[s] \in {"SCORED", "CANCELLED"}

\* The end of a Mesa of so many rounds is when the last of them closed.
EndIsLast(end) ==
    RoundMode(mesa.terms) /\ end # Null =>
        mesa.ref # Null /\ \E r \in RoundsAfter : IsLastRound(r) /\ end = CloseAt[r]

\* The rows of the pass w are what the players earned until the end.
RowsEarned(w) ==
    RoundMode(mesa.terms) /\ w.seen.end # Null /\ AllCaptured /\ ScoredInOrder =>
        \A u \in Approved : u \in DOMAIN w.rows /\ w.rows[u].score = Earned(u, RowWindow(w.seen))

OwnWork(w) ==
    /\ w \in Finish => mesa.status # "DRAFT" /\ EndIsLast(w.end)
    /\ w \in Pass /\ w.op = "close" =>
         /\ mesa.ready /\ w.seen.ready /\ w.seen.ref = mesa.ref /\ EndIsLast(w.seen.end)
         /\ w.rows # Null => RowsEarned(w)

OwnInv == mesa # NoMesa => EndIsLast(mesa.end) /\ \A q \in Pool : OwnWork(request[q])

\* Up to the last round nothing will be scored any more.
LEMMA LastStays ==
    ASSUME SeasonTyped, Season \/ UNCHANGED season, InTurn, NEW r \in Rounds, round[r] = "SCORED"
    PROVE  /\ round'[r] = "SCORED"
           /\ \A s \in Rounds : s <= r => (round'[s] = "SCORED" <=> round[s] = "SCORED")
  <1>1. \A s \in Rounds : s <= r => round[s] \in {"SCORED", "CANCELLED"}
    <2>1. \A s \in Rounds : s <= r => s = r \/ s < r
      BY DEF Rounds
    <2> QED
      BY <2>1 DEF InTurn
  <1>2. \A s \in Rounds : round[s] \in {"SCORED", "CANCELLED"} => round'[s] = round[s]
    BY RoundsGoOn DEF season
  <1> QED
    BY <1>1, <1>2

LEMMA EndStays ==
    ASSUME MesaInv, Season \/ UNCHANGED season, InTurn, mesa \in MesaRow, NEW end, EndIsLast(end),
           mesa'.terms = mesa.terms, mesa.ref # Null => mesa'.ref = mesa.ref
    PROVE  EndIsLast(end)'
  <1> SUFFICES ASSUME RoundMode(mesa.terms), end # Null
               PROVE  /\ mesa'.ref # Null
                      /\ \E r \in RoundsAfter' : IsLastRound(r)' /\ end = CloseAt[r]
    BY DEF EndIsLast, RoundMode
  <1>1. PICK r \in RoundsAfter : IsLastRound(r) /\ end = CloseAt[r]
    BY DEF EndIsLast
  <1>2. mesa.ref # Null /\ mesa'.ref = mesa.ref /\ mesa.ref \in Rounds
    BY DEF EndIsLast, MesaRow
  <1>3. r \in Rounds /\ round[r] = "SCORED" /\ r > mesa.ref
    BY DEF RoundsAfter
  <1>4. /\ round'[r] = "SCORED"
        /\ \A s \in Rounds : s <= r => (round'[s] = "SCORED" <=> round[s] = "SCORED")
    BY <1>2, <1>3, LastStays DEF MesaInv
  <1>5. {s \in RoundsAfter' : s <= r} = {s \in RoundsAfter : s <= r}
    BY <1>2, <1>4 DEF RoundsAfter
  <1>6. r \in RoundsAfter'
    BY <1>2, <1>3, <1>4 DEF RoundsAfter
  <1> QED
    BY <1>1, <1>2, <1>5, <1>6 DEF IsLastRound

\* What was scored in order was so before.
LEMMA OrderWasKept ==
    ASSUME SeasonTyped, SeasonKept, Season \/ UNCHANGED season, ScoredInOrder'
    PROVE  ScoredInOrder
  <1> SUFFICES ASSUME NEW r \in Rounds, NEW u \in Users, round[r] = "SCORED", history[u][r] # Null
               PROVE  history[u][r] = SumFunctionOnSet(PointsOf(u), 1..r)
    BY DEF ScoredInOrder
  <1>1. round'[r] = "SCORED"
    BY RoundsGoOn DEF season
  <1>2. history'[u][r] = history[u][r]
    <2>1. ASSUME NEW s \in Rounds, ScoreRound(s)
          PROVE  history'[u][r] = history[u][r]
      <3>1. r # s
        BY <2>1 DEF ScoreRound
      <3> QED
        BY <2>1, <3>1, ScoringKeeps
    <2> QED
      BY <2>1 DEF Season, OpenRound, CloseRound, CancelRound, Tick, LosePro, season
  <1> QED
    BY <1>1, <1>2 DEF ScoredInOrder, PointsOf

\* The rounds of the window of a row that ends with the last round are those up to it.
LEMMA WindowOfLast ==
    ASSUME ClosedOneByOne, NEW m, m.end # Null, NEW r \in Rounds, m.end = CloseAt[r]
    PROVE  RowWindow(m) = {s \in Rounds : s > m.ref /\ s <= r}
  <1>1. \A s \in Rounds : CloseAt[s] <= CloseAt[r] <=> s <= r
    <2> SUFFICES ASSUME NEW s \in Rounds
                 PROVE  CloseAt[s] <= CloseAt[r] <=> s <= r
      OBVIOUS
    <2>1. CloseAt[s] \in Nat /\ CloseAt[r] \in Nat /\ s \in Nat /\ r \in Nat
      BY MesaAssumption DEF Rounds
    <2>2. (s < r => CloseAt[s] < CloseAt[r]) /\ (r < s => CloseAt[r] < CloseAt[s])
      BY DEF ClosedOneByOne
    <2> QED
      BY <2>1, <2>2
  <1> QED
    BY <1>1 DEF RowWindow

LEMMA OwnThroughTheSeason ==
    ASSUME MesaInv, SeasonKept, InTurn, ClosedOneByOne, OwnInv, Season \/ UNCHANGED vars
    PROVE  OwnInv'
  <1>1. UNCHANGED <<mesa, participant, request>> /\ (Season \/ UNCHANGED season)
    BY DEF Season, OpenRound, CloseRound, ScoreRound, CancelRound, Tick, LosePro, vars, season
  <1> SUFFICES ASSUME mesa # NoMesa
               PROVE  EndIsLast(mesa.end)' /\ \A q \in Pool : OwnWork(request[q])'
    BY <1>1 DEF OwnInv
  <1>2. mesa \in MesaRow /\ SeasonTyped
    BY DEF MesaInv, MesaTyped
  <1>3. \A end : EndIsLast(end) => EndIsLast(end)'
    BY <1>1, <1>2, EndStays
  <1>4. EndIsLast(mesa.end)'
    <2> SUFFICES ASSUME NEW end, end = mesa.end
                 PROVE  EndIsLast(mesa.end)'
      OBVIOUS
    <2>1. EndIsLast(end)'
      BY <1>3 DEF OwnInv
    <2> QED
      BY <1>1, <2>1 DEF EndIsLast
  <1>5. Approved' = Approved /\ AllCaptured' = AllCaptured
    BY <1>1 DEF Approved, AllCaptured
  <1>6. ASSUME NEW w \in Work, OwnWork(w)
        PROVE  OwnWork(w)'
    <2>1. w \in Finish => mesa'.status # "DRAFT" /\ EndIsLast(w.end)'
      BY <1>1, <1>3, <1>6 DEF OwnWork
    <2>2. ASSUME w \in Pass, w.op = "close"
          PROVE  /\ mesa'.ready /\ w.seen.ready /\ w.seen.ref = mesa'.ref /\ EndIsLast(w.seen.end)'
                 /\ w.rows # Null => RowsEarned(w)'
      <3>1. /\ mesa.ready /\ w.seen.ready /\ w.seen.ref = mesa.ref /\ EndIsLast(w.seen.end)
            /\ w.rows # Null => RowsEarned(w)
        BY <1>6, <2>2 DEF OwnWork
      <3>2. ASSUME w.rows # Null, RoundMode(mesa.terms), w.seen.end # Null, AllCaptured,
                   ScoredInOrder', NEW u \in Approved
            PROVE  u \in DOMAIN w.rows /\ w.rows[u].score = Earned(u, RowWindow(w.seen))'
        <4>1. ScoredInOrder
          BY <1>1, <1>2, <3>2, OrderWasKept
        <4>2. u \in DOMAIN w.rows /\ w.rows[u].score = Earned(u, RowWindow(w.seen))
          BY <3>1, <3>2, <4>1 DEF RowsEarned
        <4>3. PICK r \in RoundsAfter : w.seen.end = CloseAt[r]
          BY <3>1, <3>2 DEF EndIsLast
        <4>4. r \in Rounds /\ round[r] = "SCORED"
          BY DEF RoundsAfter
        <4> DEFINE W == {s \in Rounds : s > w.seen.ref /\ s <= r}
        <4>5. RowWindow(w.seen) = W
          BY <3>2, <4>3, <4>4, WindowOfLast
        <4>6. RowWindow(w.seen)' = W
          BY <3>2, <4>5 DEF RowWindow
        <4>7. \A s \in Rounds : s <= r => (round'[s] = "SCORED" <=> round[s] = "SCORED")
          BY <1>1, <1>2, <4>4, LastStays
        <4>8. {s \in W : round'[s] = "SCORED"} = {s \in W : round[s] = "SCORED"}
          BY <4>7
        <4> HIDE DEF W
        <4>9. Earned(u, RowWindow(w.seen))' = Earned(u, RowWindow(w.seen))
          BY <4>5, <4>6, <4>8 DEF Earned, PointsOf
        <4> QED
          BY <4>2, <4>9
      <3> QED
        BY <1>1, <1>3, <1>5, <3>1, <3>2 DEF RowsEarned
    <2> QED
      BY <2>1, <2>2 DEF OwnWork
  <1>7. ASSUME NEW q \in Pool
        PROVE  OwnWork(request[q])'
    <2>1. request[q] \in Work /\ OwnWork(request[q])
      BY DEF MesaInv, RequestsTyped, OwnInv
    <2>2. PICK w \in Work : OwnWork(w) /\ w = request[q]
      BY <2>1
    <2>3. OwnWork(w)' /\ w = request'[q]
      BY <1>1, <1>6, <2>2
    <2> QED
      BY <2>3 DEF OwnWork, RowsEarned, RowWindow
  <1> QED
    BY <1>4, <1>7

\* A step of a Mesa that keeps its terms, its reference and, once captured, its players.
Held ==
    /\ mesa \in MesaRow /\ mesa # NoMesa /\ UNCHANGED season
    /\ mesa'.terms = mesa.terms /\ (mesa.ref # Null => mesa'.ref = mesa.ref)
    /\ mesa.status # "DRAFT" => mesa'.status # "DRAFT"
    /\ mesa.ready => mesa.ref # Null /\ mesa'.ready
                     /\ (AllCaptured' => AllCaptured /\ Approved' = Approved)

LEMMA WorkStaysOwn ==
    ASSUME MesaInv, InTurn, Held, NEW w \in Work, OwnWork(w)
    PROVE  OwnWork(w)'
  <1>1. \A end : EndIsLast(end) => EndIsLast(end)'
    BY EndStays DEF Held
  <1>2. w \in Finish => mesa'.status # "DRAFT" /\ EndIsLast(w.end)'
    BY <1>1 DEF OwnWork, Held
  <1>3. ASSUME w \in Pass, w.op = "close"
        PROVE  /\ mesa'.ready /\ w.seen.ready /\ w.seen.ref = mesa'.ref /\ EndIsLast(w.seen.end)'
               /\ w.rows # Null => RowsEarned(w)'
    <2>1. /\ mesa.ready /\ w.seen.ready /\ w.seen.ref = mesa.ref /\ EndIsLast(w.seen.end)
          /\ w.rows # Null => RowsEarned(w)
      BY <1>3 DEF OwnWork
    <2>2. UNCHANGED <<now, round, history>>
      BY DEF Held, season
    <2>3. ScoredInOrder' = ScoredInOrder
      BY <2>2 DEF ScoredInOrder, PointsOf
    <2>4. \A u : Earned(u, RowWindow(w.seen))' = Earned(u, RowWindow(w.seen))
      BY <2>2 DEF Earned, RowWindow, PointsOf
    <2>5. w.rows # Null => RowsEarned(w)'
      BY <2>1, <2>3, <2>4 DEF RowsEarned, Held
    <2> QED
      BY <1>1, <2>1, <2>5 DEF Held
  <1> QED
    BY <1>2, <1>3 DEF OwnWork

\* No work, or one piece of it, begins, goes on or ends.
WorksOwn == \/ request' = request
            \/ \E q \in Pool, w \in Work : OwnWork(w) /\ request' = [request EXCEPT ![q] = w]

LEMMA IdleOwn == Idle \in Work /\ OwnWork(Idle)
  BY DEF Idle, Work, OwnWork, Finish, Pass

LEMMA EndOwn ==
    ASSUME NEW q \in Pool, End(q)
    PROVE  WorksOwn
  BY IdleOwn DEF End, Continue, WorksOwn

LEMMA OwnStep ==
    ASSUME MesaInv, InTurn, OwnInv, Held, EndIsLast(mesa'.end), WorksOwn
    PROVE  OwnInv'
  <1>1. EndIsLast(mesa.end)'
    <2>1. \A end : EndIsLast(end) => EndIsLast(end)'
      BY EndStays DEF Held
    <2>2. PICK end : end = mesa'.end
      OBVIOUS
    <2>3. EndIsLast(end)'
      BY <2>1, <2>2
    <2> QED
      BY <2>2, <2>3 DEF EndIsLast
  <1>2. ASSUME NEW p \in Pool
        PROVE  OwnWork(request[p])'
    <2>1. request[p] \in Work /\ OwnWork(request[p])
      BY DEF MesaInv, RequestsTyped, OwnInv, Held
    <2>2. \E w \in Work : OwnWork(w) /\ request'[p] = w
      <3>1. ASSUME NEW q \in Pool, NEW w \in Work, OwnWork(w), request' = [request EXCEPT ![q] = w]
            PROVE  \E v \in Work : OwnWork(v) /\ request'[p] = v
        <4>1. request'[p] = IF p = q THEN w ELSE request[p]
          BY <3>1 DEF MesaInv, RequestsTyped
        <4> QED
          BY <2>1, <3>1, <4>1
      <3> QED
        BY <2>1, <3>1 DEF WorksOwn
    <2>3. PICK w \in Work : OwnWork(w) /\ request'[p] = w
      BY <2>2
    <2>4. OwnWork(w)'
      BY <2>3, WorkStaysOwn
    <2> QED
      BY <2>3, <2>4 DEF OwnWork, RowsEarned, RowWindow
  <1> QED
    BY <1>1, <1>2 DEF OwnInv

\* A step that leaves the row as it is.
LEMMA ReadingOwn ==
    ASSUME MesaInv, InTurn, OwnInv, ToldInv, mesa # NoMesa, UNCHANGED season,
           UNCHANGED <<mesa, participant>>, WorksOwn
    PROVE  OwnInv'
  <1>1. Approved' = Approved /\ AllCaptured' = AllCaptured
    BY DEF Approved, AllCaptured
  <1>2. Held
    BY <1>1 DEF Held, MesaInv, MesaTyped, ToldInv, RowTold
  <1>3. EndIsLast(mesa'.end)
    BY DEF OwnInv
  <1> QED
    BY <1>2, <1>3, OwnStep

\* Nothing is done to a draft that has to do with its end.
LEMMA DraftOwn ==
    ASSUME MesaInv, CoinsInv, OwnInv, mesa # NoMesa, mesa.status = "DRAFT"
    PROVE  /\ RoundMode(mesa.terms) => mesa.end = Null
           /\ \A q \in Pool : request[q] \notin Finish /\ request[q] \notin Pass
  <1>1. mesa.ref = Null
    BY DEF MesaInv, ClosedWithReference, CoinsInv, Books, Fresh
  <1>2. EndIsLast(mesa.end) /\ \A q \in Pool : OwnWork(request[q]) /\ InHand(request[q])
    BY DEF OwnInv, CoinsInv
  <1> QED
    BY <1>1, <1>2 DEF EndIsLast, OwnWork, InHand

\* A row that has no end of its own takes the place of a draft, or of no Mesa.
LEMMA DraftMoves ==
    ASSUME MesaInv, CoinsInv, OwnInv, mesa = NoMesa \/ mesa.status = "DRAFT",
           RoundMode(mesa'.terms) => mesa'.end = Null,
           request' = request \/ \E q \in Pool : End(q)
    PROVE  OwnInv'
  <1>1. EndIsLast(mesa.end)'
    BY DEF EndIsLast, RoundMode
  <1>2. ASSUME NEW p \in Pool
        PROVE  request'[p] \notin Finish /\ request'[p] \notin Pass
    <2>1. request[p] \notin Finish /\ request[p] \notin Pass
      <3>1. CASE mesa = NoMesa
        BY <3>1 DEF MesaInv, RequestsTyped, Idle, Finish, Pass
      <3>2. CASE mesa # NoMesa
        BY <3>2, DraftOwn
      <3> QED
        BY <3>1, <3>2
    <2>2. request'[p] = request[p] \/ request'[p] = Idle
      BY DEF End, Continue, MesaInv, RequestsTyped
    <2> QED
      BY <2>1, <2>2 DEF Idle, Finish, Pass
  <1>3. \A p \in Pool : OwnWork(request[p])'
    BY <1>2 DEF OwnWork
  <1> QED
    BY <1>1, <1>3 DEF OwnInv

\* A row that is saved keeps its terms and its end.
LEMMA SaveEnds ==
    ASSUME MesaInv, NEW m \in MesaRow,
           NEW mode \in {"KEEP", "DRAFT", "AT_START", "NOW"}, Save(m, mode) \/ PublishRow(m)
    PROVE  mesa'.terms = m.terms /\ mesa'.end = m.end
  <1>1. ASSUME PublishRow(m)
        PROVE  mesa'.terms = m.terms /\ mesa'.end = m.end
    <2> DEFINE active == [m EXCEPT !.status = "ACTIVE", !.publishAt = Null]
    <2>1. active \in MesaRow /\ active.terms = m.terms /\ active.end = m.end /\ m.terms \in Term
      BY DEF MesaRow
    <2>2. mesa' = active \/ Enter(active, Creator, m.terms, FALSE)
      BY <1>1 DEF PublishRow
    <2> HIDE DEF active
    <2> QED
      BY <2>1, <2>2, EnterRow DEF MesaInv
  <1>2. ASSUME Save(m, mode), mode # "NOW"
        PROVE  mesa'.terms = m.terms /\ mesa'.end = m.end
    <2>1. mesa' = m \/ \E at : mesa' = [m EXCEPT !.publishAt = at]
      BY <1>2 DEF Save
    <2> QED
      BY <2>1 DEF MesaRow
  <1> QED
    BY <1>1, <1>2 DEF Save

LEMMA CreateOwn ==
    ASSUME MesaInv, CoinsInv, OwnInv, NEW t \in Terms, NEW admin \in BOOLEAN,
           NEW mode \in {"DRAFT", "AT_START", "NOW"}, Create(t, admin, mode)
    PROVE  OwnInv'
  <1> DEFINE pool == Reward(0, t)
             m == [status |-> "DRAFT", terms |-> t, end |-> t.end, byAdmin |-> admin,
                   publishAt |-> Null, seats |-> 0, gross |-> 0, fee |-> 0,
                   pool |-> pool, closedAt |-> Null, ref |-> Null, ready |-> FALSE,
                   settled |-> FALSE]
  <1>1. t \in Term /\ t.end \in Nat \cup {Null} /\ pool \in Int
    BY MesaAssumption, MoneyType DEF Term
  <1>2. Save(m, mode) /\ mesa = NoMesa /\ request' = request
    BY DEF Create
  <1>3. RoundMode(t) => t.end = Null
    BY DEF Create, ValidTerms, ValidSchedule
  <1> HIDE DEF pool
  <1>4. m \in MesaRow /\ m.terms = t /\ m.end = t.end
    BY <1>1 DEF MesaRow
  <1> HIDE DEF m
  <1>5. mesa'.terms = t /\ mesa'.end = t.end
    BY <1>2, <1>4, SaveEnds
  <1> QED
    BY <1>2, <1>3, <1>5, DraftMoves

LEMMA PublishOwn ==
    ASSUME MesaInv, CoinsInv, OwnInv, Publish \/ PublishScheduled
    PROVE  OwnInv'
  <1>1. PublishRow(mesa) /\ mesa.status = "DRAFT" /\ request' = request
    BY DEF Publish, PublishScheduled, Scheduled
  <1>2. mesa \in MesaRow /\ mesa # NoMesa
    BY <1>1, MesaExists
  <1>3. mesa'.terms = mesa.terms /\ mesa'.end = mesa.end
    BY <1>1, <1>2, SaveEnds
  <1>4. RoundMode(mesa.terms) => mesa.end = Null
    BY <1>1, <1>2, DraftOwn
  <1> QED
    BY <1>1, <1>3, <1>4, DraftMoves

LEMMA CommitEditOwn ==
    ASSUME MesaInv, CoinsInv, OwnInv, OnlyDraftsEdited, NEW q \in Requests, CommitEdit(q)
    PROVE  OwnInv'
  <1> DEFINE t == request[q].terms
             pool == Reward(0, t)
             edited == [mesa EXCEPT !.terms = t, !.end = t.end]
             m == IF request[q].reset THEN Priced(edited, 0, 0, pool) ELSE edited
  <1>1. q \in Pool /\ request[q] \in Edit
    BY DEF CommitEdit, Pool, MesaInv, RequestsTyped, Work, Idle, Join, Closing, Finish, Pass
  <1>2. t \in Term /\ request[q].mode \in {"KEEP", "DRAFT", "AT_START", "NOW"}
        /\ t.end \in Nat \cup {Null}
    BY <1>1 DEF Edit, Term
  <1>3. mesa \in MesaRow
    <2>1. request[q] # Idle
      BY <1>1 DEF Edit, Idle
    <2> QED
      BY <1>1, <2>1, MesaExists
  <1>4. mesa.status = "DRAFT"
    BY <1>1 DEF CommitEdit, OnlyDraftsEdited
  <1>5. RoundMode(t) => t.end = Null
    BY <1>1 DEF CoinsInv, InHand, ValidTerms, ValidSchedule
  <1>6. Save(m, request[q].mode) /\ End(q)
    BY DEF CommitEdit, Priced
  <1>7. pool \in Int
    BY <1>2, MoneyType
  <1> HIDE DEF t, pool
  <1>8. edited \in MesaRow /\ edited.terms = t /\ edited.end = t.end
    BY <1>2, <1>3 DEF MesaRow
  <1> HIDE DEF edited
  <1>9. m \in MesaRow /\ m.terms = t /\ m.end = t.end
    BY <1>7, <1>8, PricedRow
  <1> HIDE DEF m
  <1>10. mesa'.terms = t /\ mesa'.end = t.end
    BY <1>2, <1>6, <1>9, SaveEnds
  <1> QED
    BY <1>1, <1>4, <1>5, <1>6, <1>10, DraftMoves

\* An entry after the capture has no initial score.
LEMMA CommitJoinOwn ==
    ASSUME MesaInv, InTurn, CoinsInv, ToldInv, OwnInv, NEW q \in Requests, CommitJoin(q)
    PROVE  OwnInv'
  <1>1. q \in Pool /\ request[q] \in Join
    BY DEF CommitJoin, Pool, MesaInv, RequestsTyped, Work, Idle, Edit, Closing, Finish, Pass
  <1>2. mesa \in MesaRow /\ mesa # NoMesa
    <2>1. request[q] # Idle
      BY <1>1, IdleIsNoEntry
    <2> QED
      BY <1>1, <2>1, MesaExists
  <1> DEFINE u == request[q].user
             t == request[q].terms
  <1>3. /\ Enter(mesa, u, t, request[q].invited) /\ u \in Users /\ t \in Term
        /\ End(q) /\ UNCHANGED season
    BY <1>1 DEF CommitJoin, Join
  <1> HIDE DEF u, t
  <1>4. /\ mesa'.terms = mesa.terms /\ mesa'.status = mesa.status /\ mesa'.end = mesa.end
        /\ mesa'.ready = mesa.ready /\ (~Fills(mesa, t) => mesa'.ref = mesa.ref)
    BY <1>2, <1>3, EnterRow DEF MesaInv
  <1>5. mesa.ref # Null => ~Fills(mesa, t)
    BY <1>2 DEF Fills, MesaInv, ClosedWithReference
  <1>6. ~AllCaptured'
    <2>1. /\ participant'[u] # Null /\ participant'[u].base = Null
      <3> DEFINE new == [fee |-> t.cost, invited |-> request[q].invited, base |-> Null,
                         score |-> 0, position |-> 0]
      <3>1. participant'[u] = new
        BY <1>3 DEF Enter, MesaInv, MesaTyped
      <3>2. new \in Participation
        <4>1. t.cost \in Nat /\ request[q].invited \in BOOLEAN
          BY <1>1, <1>3 DEF Join, Term
        <4> QED
          BY <4>1 DEF Participation
      <3> QED
        BY <3>1, <3>2, MesaAssumption
    <2> QED
      BY <1>3, <2>1 DEF AllCaptured, Approved
  <1>7. mesa.ready => mesa.ref # Null
    BY <1>2 DEF ToldInv, RowTold
  <1>8. Held
    BY <1>2, <1>3, <1>4, <1>5, <1>6, <1>7 DEF Held
  <1>9. EndIsLast(mesa'.end)
    BY <1>2, <1>4 DEF OwnInv
  <1> QED
    BY <1>1, <1>3, <1>8, <1>9, EndOwn, OwnStep

\* A step that keeps the players and whether they have an initial score.
LEMMA SamePlayersCapturedBy ==
    ASSUME MesaInv, SamePlayers,
           \A u \in Approved : participant[u].base = Null => participant'[u].base = Null
    PROVE  AllCaptured' => AllCaptured /\ Approved' = Approved
  <1>1. Approved' = Approved
    BY SamePlayersStay DEF MesaInv
  <1> QED
    BY <1>1 DEF AllCaptured

LEMMA BaseStays ==
    ASSUME MesaInv, NEW q \in Pool, request[q] \in Pass, request[q].rows # Null,
           WriteRows(request[q].rows)
    PROVE  AllCaptured' => AllCaptured /\ Approved' = Approved
  <1> DEFINE rows == request[q].rows
  <1>1. ASSUME NEW u \in Approved
        PROVE  participant'[u].base = participant[u].base
    <2>1. u \in Users /\ participant[u] \in Participation
      BY DEF Approved, MesaInv, MesaTyped
    <2> HIDE DEF rows
    <2>2. participant'[u] = IF u \in DOMAIN rows
            THEN [participant[u] EXCEPT !.score = rows[u].score, !.position = rows[u].position]
            ELSE participant[u]
      BY <2>1 DEF WriteRows, rows
    <2> QED
      BY <2>1, <2>2 DEF Participation
  <1> QED
    BY <1>1, WriteRowsSane, SamePlayersCapturedBy

LEMMA JobOwn ==
    ASSUME MesaInv, InTurn, CoinsInv, ToldInv, OwnInv, NEW q \in Pool,
           CommitUnschedule(q) \/ CommitFinish(q) \/ CommitCloseRegistrations(q) \/ RollBack(q)
    PROVE  OwnInv'
  <1>1. request[q] # Idle /\ End(q) /\ UNCHANGED season /\ participant' = participant
    BY DEF CommitUnschedule, CommitFinish, CommitCloseRegistrations, RollBack, Idle
  <1>2. mesa \in MesaRow /\ mesa # NoMesa
    BY <1>1, MesaExists
  <1>3. AllCaptured' = AllCaptured /\ Approved' = Approved
    BY <1>1 DEF AllCaptured, Approved
  <1>4. mesa'.terms = mesa.terms /\ mesa'.status = mesa.status /\ mesa'.ready = mesa.ready
    BY <1>2 DEF CommitUnschedule, CommitFinish, CommitCloseRegistrations, RollBack, MesaRow
  <1>5. mesa.ref # Null => mesa.closedAt # Null
    BY <1>2 DEF MesaInv, ClosedWithReference
  <1>6. mesa.ref # Null => mesa'.ref = mesa.ref
    BY <1>2, <1>5 DEF CommitUnschedule, CommitFinish, CommitCloseRegistrations, RollBack, MesaRow
  <1>7. mesa.ready => mesa.ref # Null
    BY <1>2 DEF ToldInv, RowTold
  <1>8. Held
    BY <1>1, <1>2, <1>3, <1>4, <1>6, <1>7 DEF Held
  <1>9. EndIsLast(mesa'.end)
    <2>1. CASE CommitFinish(q)
      <3>1. request[q] \in Finish /\ mesa'.end = request[q].end
        BY <1>2, <2>1 DEF CommitFinish, MesaRow, MesaInv, RequestsTyped, Work, Idle, Join, Edit,
                          Closing, Pass
      <3> QED
        BY <1>2, <3>1 DEF OwnInv, OwnWork
    <2>2. CASE CommitUnschedule(q) \/ CommitCloseRegistrations(q) \/ RollBack(q)
      <3>1. mesa'.end = mesa.end
        BY <1>2, <2>2 DEF CommitUnschedule, CommitCloseRegistrations, RollBack, MesaRow
      <3> QED
        BY <1>2, <3>1 DEF OwnInv
    <2> QED
      BY <2>1, <2>2
  <1> QED
    BY <1>1, <1>8, <1>9, EndOwn, OwnStep

\* No closing is under way before the capture.
LEMMA CaptureOwn ==
    ASSUME MesaInv, InTurn, OwnInv, Capture
    PROVE  OwnInv'
  <1>1. mesa \in MesaRow /\ mesa # NoMesa
    BY MesaExists DEF Capture
  <1>2. /\ mesa' = [mesa EXCEPT !.ready = TRUE] /\ ~mesa.ready
        /\ UNCHANGED season /\ request' = request
    BY DEF Capture
  <1>3. Held
    BY <1>1, <1>2 DEF Held, MesaRow
  <1>4. EndIsLast(mesa'.end)
    BY <1>1, <1>2 DEF OwnInv, MesaRow
  <1> QED
    BY <1>2, <1>3, <1>4, OwnStep DEF WorksOwn

LEMMA CommitRowsOwn ==
    ASSUME MesaInv, InTurn, ToldInv, OwnInv, NEW q \in Pool,
           CommitRecalculation(q) \/ CommitClose(q)
    PROVE  OwnInv'
  <1>1. /\ request[q] \in Pass /\ request[q].rows # Null /\ WriteRows(request[q].rows)
        /\ End(q) /\ UNCHANGED season
    BY DEF CommitRecalculation, CommitClose, MesaInv, RequestsTyped, Work, Idle, Join, Edit,
           Closing, Finish
  <1>2. mesa \in MesaRow /\ mesa # NoMesa
    <2>1. request[q] # Idle
      BY <1>1, IdleIsNoEntry
    <2> QED
      BY <2>1, MesaExists
  <1>3. /\ mesa'.terms = mesa.terms /\ mesa'.ref = mesa.ref /\ mesa'.end = mesa.end
        /\ mesa'.ready = mesa.ready /\ (mesa.status # "DRAFT" => mesa'.status # "DRAFT")
    BY <1>2 DEF CommitRecalculation, CommitClose, MesaRow
  <1>4. AllCaptured' => AllCaptured /\ Approved' = Approved
    BY <1>1, BaseStays
  <1>5. mesa.ready => mesa.ref # Null
    BY <1>2 DEF ToldInv, RowTold
  <1>6. Held
    BY <1>1, <1>2, <1>3, <1>4, <1>5 DEF Held
  <1>7. EndIsLast(mesa'.end)
    BY <1>2, <1>3 DEF OwnInv
  <1> QED
    BY <1>1, <1>6, <1>7, EndOwn, OwnStep

\* The rows built for a closing are what the players earned.
LEMMA BuildRowsOwn ==
    ASSUME MesaInv, MesaInv', SeasonKept, InTurn, ClosedInOrder, ToldInv, OwnInv,
           NEW q \in Pool, BuildRows(q)
    PROVE  OwnInv'
  <1> DEFINE seen == request[q].seen
             rows == Rows(seen)
             w == [request[q] EXCEPT !.rows = rows]
  <1>1. request[q] \in Pass /\ seen \in MesaRow
    BY DEF BuildRows, MesaInv, RequestsTyped, Work, Idle, Join, Edit, Closing, Finish, Pass
  <1>2. mesa \in MesaRow /\ mesa # NoMesa
    <2>1. request[q] # Idle
      BY <1>1, IdleIsNoEntry
    <2> QED
      BY <2>1, MesaExists
  <1>3. request' = [request EXCEPT ![q] = w] /\ UNCHANGED <<season, mesa, participant>>
    BY DEF BuildRows, Continue
  <1>4. OwnWork(request[q]) /\ RowTold(mesa) /\ (seen.ready => mesa.ready)
    BY <1>1, <1>2 DEF OwnInv, ToldInv, WorkTold
  <1>5. DOMAIN rows = Approved
    BY DEF Rows
  <1>6. ASSUME request[q].op = "close", AllCaptured, ScoredInOrder, seen.ready, NEW u \in Approved
        PROVE  rows[u].score = Earned(u, RowWindow(seen))
    <2>1. seen.ref = mesa.ref /\ mesa.ref # Null
      BY <1>1, <1>4, <1>6 DEF OwnWork, RowTold
    <2>2. participant[u].base = OrElse(LastTotal(u, 1..seen.ref), 0)
      BY <1>4, <1>6, <2>1 DEF RowTold, PlayerTold, CapturedAt, AllCaptured
    <2> HIDE DEF seen
    <2> QED
      BY <1>1, <1>6, <2>1, <2>2, RowsAreEarned DEF MesaInv
  <1>7. ASSUME request[q].op = "close"
        PROVE  seen.ready
    BY <1>1, <1>4, <1>7 DEF OwnWork
  <1> HIDE DEF rows
  <1>8. w.seen = seen /\ w.rows = rows /\ w.op = request[q].op /\ w.op \in {"recalc", "close"}
    BY <1>1 DEF Pass
  <1> HIDE DEF w
  <1>9. OwnWork(w)
    <2>1. w \notin Finish
      BY <1>8 DEF Finish
    <2>2. ASSUME w.op = "close"
          PROVE  /\ mesa.ready /\ w.seen.ready /\ w.seen.ref = mesa.ref /\ EndIsLast(w.seen.end)
                 /\ RowsEarned(w)
      <3>1. mesa.ready /\ seen.ref = mesa.ref /\ EndIsLast(seen.end)
        BY <1>1, <1>4, <1>8, <2>2 DEF OwnWork
      <3>2. RowsEarned(w)
        BY <1>5, <1>6, <1>7, <1>8, <2>2 DEF RowsEarned
      <3> QED
        BY <1>7, <1>8, <2>2, <3>1, <3>2
    <2> QED
      BY <2>1, <2>2 DEF OwnWork
  <1>10. w \in Work
    <2>1. request'[q] = w
      BY <1>3 DEF MesaInv, RequestsTyped
    <2> QED
      BY <2>1 DEF MesaInv, RequestsTyped
  <1> QED
    BY <1>2, <1>3, <1>9, <1>10, ReadingOwn DEF WorksOwn

LEMMA StartOwn ==
    ASSUME MesaInv, MesaInv', InTurn, CoinsInv, ToldInv, OwnInv, NEW q \in Pool,
           \/ \E u \in Users, invited \in BOOLEAN : StartJoin(q, u, invited)
           \/ \E t \in NewTerms, admin \in BOOLEAN,
                 mode \in {"KEEP", "DRAFT", "AT_START", "NOW"} : StartEdit(q, t, admin, mode)
           \/ StartUnschedule(q) \/ StartCloseRegistrations(q) \/ StartFinish(q)
           \/ StartRecalculation(q) \/ \E force \in BOOLEAN : StartClose(q, force)
    PROVE  OwnInv'
  <1>1. UNCHANGED <<season, mesa, participant>> /\ mesa.status \in {"DRAFT", "ACTIVE", "CLOSED"}
    <2>1. mesa \in {NoMesa} \cup MesaRow
      BY DEF MesaInv, MesaTyped
    <2> QED
      BY <2>1 DEF StartJoin, Accepts, StartEdit, StartUnschedule, Scheduled,
                  StartCloseRegistrations, StartFinish, StartRecalculation, StartClose, MesaRow
  <1>2. mesa \in MesaRow /\ mesa # NoMesa
    BY <1>1, MesaExists
  <1>3. ASSUME NEW w, request' = [request EXCEPT ![q] = w], OwnWork(w)
        PROVE  OwnInv'
    <2>1. request'[q] = w
      BY <1>3 DEF MesaInv, RequestsTyped
    <2>2. w \in Work
      BY <2>1 DEF MesaInv, RequestsTyped
    <2> QED
      BY <1>1, <1>2, <1>3, <2>2, ReadingOwn DEF WorksOwn
  <1>4. ASSUME NEW w, request' = [request EXCEPT ![q] = w],
               w.op \in {"join", "edit", "unschedule", "registrations", "recalc"}
        PROVE  OwnInv'
    BY <1>3, <1>4 DEF OwnWork, Finish
  <1>5. CASE \E u \in Users, invited \in BOOLEAN : StartJoin(q, u, invited)
    <2>1. PICK u \in Users, invited \in BOOLEAN : StartJoin(q, u, invited)
      BY <1>5
    <2> DEFINE w == [op |-> "join", user |-> u, terms |-> mesa.terms, invited |-> invited]
    <2>2. request' = [request EXCEPT ![q] = w] /\ w.op = "join"
      BY <2>1 DEF StartJoin, Begin
    <2> HIDE DEF w
    <2> QED
      BY <1>4, <2>2
  <1>6. CASE \E t \in NewTerms, admin \in BOOLEAN,
                mode \in {"KEEP", "DRAFT", "AT_START", "NOW"} : StartEdit(q, t, admin, mode)
    <2>1. PICK t \in NewTerms, admin \in BOOLEAN,
               mode \in {"KEEP", "DRAFT", "AT_START", "NOW"} : StartEdit(q, t, admin, mode)
      BY <1>6
    <2> DEFINE reset == mesa.status = "DRAFT" \/ ~Locked
               w == [op |-> "edit", terms |-> t, mode |-> mode, status |-> mesa.status,
                     start |-> mesa.terms.start, reset |-> reset]
    <2>2. request' = [request EXCEPT ![q] = w]
      BY <2>1 DEF StartEdit, Begin
    <2> HIDE DEF reset
    <2>3. w.op = "edit"
      OBVIOUS
    <2> HIDE DEF w
    <2> QED
      BY <1>4, <2>2, <2>3
  <1>7. CASE StartUnschedule(q)
    <2> DEFINE w == [op |-> "unschedule"]
    <2>1. request' = [request EXCEPT ![q] = w] /\ w.op = "unschedule"
      BY <1>7 DEF StartUnschedule, Begin
    <2> HIDE DEF w
    <2> QED
      BY <1>4, <2>1
  <1>8. CASE StartCloseRegistrations(q)
    <2> DEFINE ref == IF OpenRounds = {} THEN Null ELSE CHOOSE r \in OpenRounds : TRUE
               w == [op |-> "registrations", at |-> mesa.terms.entryEnd, ref |-> ref]
    <2>1. request' = [request EXCEPT ![q] = w]
      BY <1>8 DEF StartCloseRegistrations, Begin
    <2> HIDE DEF ref
    <2>2. w.op = "registrations"
      OBVIOUS
    <2> HIDE DEF w
    <2> QED
      BY <1>4, <2>1, <2>2
  <1>9. CASE StartFinish(q)
    <2>1. PICK r \in RoundsAfter :
            IsLastRound(r) /\ Begin(q, [op |-> "finish", end |-> CloseAt[r]])
      BY <1>9 DEF StartFinish
    <2> DEFINE w == [op |-> "finish", end |-> CloseAt[r]]
    <2>2. mesa.ref # Null /\ mesa.status = "ACTIVE"
      BY <1>2, <1>9 DEF StartFinish, ToldInv, RowTold
    <2>3. EndIsLast(CloseAt[r])
      BY <2>1, <2>2 DEF EndIsLast
    <2>4. OwnWork(w)
      BY <2>2, <2>3 DEF OwnWork, Pass
    <2>5. request' = [request EXCEPT ![q] = w]
      BY <2>1 DEF Begin
    <2> HIDE DEF w
    <2> QED
      BY <1>3, <2>4, <2>5
  <1>10. CASE StartRecalculation(q)
    <2> DEFINE w == [op |-> "recalc", seen |-> mesa, rows |-> Null]
    <2>1. request' = [request EXCEPT ![q] = w] /\ w.op = "recalc"
      BY <1>10 DEF StartRecalculation, Begin
    <2> HIDE DEF w
    <2> QED
      BY <1>4, <2>1
  <1>11. CASE \E force \in BOOLEAN : StartClose(q, force)
    <2> DEFINE w == [op |-> "close", seen |-> mesa, rows |-> Null]
    <2>1. mesa.ready /\ request' = [request EXCEPT ![q] = w]
      BY <1>11 DEF StartClose, Begin
    <2>2. EndIsLast(mesa.end)
      BY <1>2 DEF OwnInv
    <2>3. OwnWork(w)
      BY <2>1, <2>2 DEF OwnWork, Finish
    <2> HIDE DEF w
    <2> QED
      BY <1>3, <2>1, <2>3
  <1> QED
    BY <1>5, <1>6, <1>7, <1>8, <1>9, <1>10, <1>11

LEMMA NextOwn ==
    ASSUME ClosedOneByOne
    PROVE  MesaInv /\ MesaInv' /\ SeasonKept /\ ToldInv /\ CoinsInv /\ OnlyDraftsEdited /\ InTurn
           /\ OwnInv /\ [Next]_vars => OwnInv'
  <1>1. ClosedInOrder
    <2>1. \A r, s \in Rounds : CloseAt[r] \in Nat /\ CloseAt[s] \in Nat
      BY MesaAssumption
    <2> QED
      BY <2>1 DEF ClosedInOrder, ClosedOneByOne
  <1> SUFFICES ASSUME MesaInv, MesaInv', SeasonKept, ToldInv, CoinsInv, OnlyDraftsEdited, InTurn,
                      OwnInv, [Next]_vars
               PROVE  OwnInv'
    OBVIOUS
  <1>2. CASE \E t \in Terms, admin \in BOOLEAN, mode \in {"DRAFT", "AT_START", "NOW"} :
               Create(t, admin, mode)
    BY <1>2, CreateOwn
  <1>3. CASE Publish \/ PublishScheduled
    BY <1>3, PublishOwn
  <1>4. CASE \E max \in InviteUses : CreateInvite(max)
    <2>1. UNCHANGED <<season, mesa, participant, request>> /\ mesa.status = "ACTIVE"
      BY <1>4 DEF CreateInvite
    <2>2. mesa # NoMesa
      BY <2>1, MesaExists
    <2> QED
      BY <2>1, <2>2, ReadingOwn DEF WorksOwn
  <1>5. ASSUME NEW q \in Requests, Enrol(q)
        PROVE  OwnInv'
    BY <1>5, StartOwn, CommitJoinOwn, CommitEditOwn DEF Enrol, Pool
  <1>6. ASSUME NEW q \in Pool, StartJob(q) \/ StartRecalculation(q)
                                 \/ \E force \in BOOLEAN : StartClose(q, force)
        PROVE  OwnInv'
    BY <1>6, StartOwn DEF StartJob
  <1>7. ASSUME NEW q \in Pool, CommitJob(q) \/ RollBack(q)
        PROVE  OwnInv'
    BY <1>7, JobOwn DEF CommitJob
  <1>8. ASSUME NEW q \in Pool, CommitRecalculation(q) \/ CommitClose(q)
        PROVE  OwnInv'
    BY <1>8, CommitRowsOwn
  <1>9. ASSUME NEW q \in Pool, BuildRows(q)
        PROVE  OwnInv'
    BY <1>1, <1>9, BuildRowsOwn
  <1>10. CASE Capture
    BY <1>10, CaptureOwn
  <1>11. CASE Season \/ UNCHANGED vars
    BY <1>11, OwnThroughTheSeason
  <1> QED
    BY <1>2, <1>3, <1>4, <1>5, <1>6, <1>7, <1>8, <1>9, <1>10, <1>11 DEF Next, Pool

LEMMA OwnStarts == Init => OwnInv
  BY DEF Init, OwnInv

\* The rounds of the Mesa's own are those scored after the reference, up to the last one.
LEMMA OwnUpToLast ==
    ASSUME NEW last \in RoundsAfter, IsLastRound(last), mesa.terms.rounds \in Nat
    PROVE  {r \in RoundsAfter : Cardinality({s \in RoundsAfter : s <= r}) <= mesa.terms.rounds}
             = {r \in RoundsAfter : r <= last}
  <1> DEFINE B(r) == {s \in RoundsAfter : s <= r}
             n == mesa.terms.rounds
  <1>1. IsFiniteSet(RoundsAfter) /\ RoundsAfter \subseteq Nat
    <2>1. RoundsAfter \subseteq Rounds
      BY DEF RoundsAfter
    <2>2. IsFiniteSet(Rounds) /\ Rounds \subseteq Nat
      BY MesaAssumption, FS_Interval DEF Rounds
    <2>3. IsFiniteSet(RoundsAfter)
      BY <2>1, <2>2, FS_Subset
    <2> QED
      BY <2>1, <2>2, <2>3
  <1>2. ASSUME NEW r \in RoundsAfter
        PROVE  IsFiniteSet(B(r)) /\ Cardinality(B(r)) \in Nat
    <2>1. B(r) \subseteq RoundsAfter
      OBVIOUS
    <2> HIDE DEF B
    <2> QED
      BY <1>1, <2>1, FS_Subset, FS_CardinalityType
  <1>3. Cardinality(B(last)) = n
    BY DEF IsLastRound
  <1>4. ASSUME NEW r \in RoundsAfter, r <= last
        PROVE  Cardinality(B(r)) <= n
    <2>1. B(r) \subseteq B(last)
      BY <1>1, <1>4
    <2> HIDE DEF B, n
    <2> QED
      BY <1>2, <1>3, <2>1, FS_Subset
  <1>5. ASSUME NEW r \in RoundsAfter, ~(r <= last)
        PROVE  ~(Cardinality(B(r)) <= n)
    <2>1. B(last) \cup {r} \subseteq B(r) /\ r \notin B(last)
      <3>1. r \in Nat /\ last \in Nat /\ last < r
        BY <1>1, <1>5
      <3>2. \A s \in RoundsAfter : s <= last => s <= r
        BY <1>1, <3>1
      <3>3. r \in B(r) /\ r \notin B(last)
        BY <1>5, <3>1
      <3>4. B(last) \subseteq B(r)
        BY <3>2
      <3> HIDE DEF B
      <3> QED
        BY <3>3, <3>4
    <2> HIDE DEF B, n
    <2>2. Cardinality(B(last) \cup {r}) = n + 1
      BY <1>2, <1>3, <2>1, FS_AddElement
    <2>3. Cardinality(B(last) \cup {r}) <= Cardinality(B(r))
      BY <1>2, <2>1, FS_Subset
    <2>4. n \in Nat /\ Cardinality(B(r)) \in Nat
      BY <1>2 DEF n
    <2> QED
      BY <2>2, <2>3, <2>4
  <1> QED
    BY <1>4, <1>5

LEMMA CloseSettles ==
    ASSUME MesaInv, OwnInv, ClosedOneByOne, NEW q \in Pool, CommitClose(q),
           request[q].seen.end # Null, RoundMode(mesa.terms), ScoredInOrder, AllCaptured,
           NEW u \in Approved
    PROVE  participant'[u].score = Earned(u,
             {r \in RoundsAfter : Cardinality({s \in RoundsAfter : s <= r}) <= mesa.terms.rounds})
  <1> DEFINE seen == request[q].seen
             rows == request[q].rows
  <1>1. request[q] \in Pass /\ request[q].op = "close" /\ rows # Null /\ WriteRows(rows)
    BY DEF CommitClose, MesaInv, RequestsTyped, Work, Idle, Join, Edit, Closing, Finish
  <1>2. mesa \in MesaRow /\ mesa # NoMesa
    <2>1. request[q] # Idle
      BY <1>1, IdleIsNoEntry
    <2> QED
      BY <2>1, MesaExists
  <1>3. seen.ref = mesa.ref /\ EndIsLast(seen.end) /\ RowsEarned(request[q])
    BY <1>1, <1>2 DEF OwnInv, OwnWork
  <1>4. u \in DOMAIN rows /\ rows[u].score = Earned(u, RowWindow(seen))
    BY <1>3 DEF RowsEarned
  <1>5. participant'[u].score = rows[u].score
    <2>1. u \in Users /\ participant[u] \in Participation
      BY DEF Approved, MesaInv, MesaTyped
    <2> HIDE DEF rows
    <2>2. participant'[u] =
            [participant[u] EXCEPT !.score = rows[u].score, !.position = rows[u].position]
      BY <1>1, <1>4, <2>1 DEF WriteRows
    <2> QED
      BY <2>1, <2>2 DEF Participation
  <1>6. PICK last \in RoundsAfter : IsLastRound(last) /\ seen.end = CloseAt[last]
    BY <1>3 DEF EndIsLast
  <1>7. mesa.terms.rounds \in Nat
    BY <1>2 DEF MesaRow, Term, RoundMode
  <1> DEFINE own == {r \in RoundsAfter :
                       Cardinality({s \in RoundsAfter : s <= r}) <= mesa.terms.rounds}
  <1>8. own = {r \in RoundsAfter : r <= last}
    BY <1>6, <1>7, OwnUpToLast
  <1>9. RowWindow(seen) = {s \in Rounds : s > seen.ref /\ s <= last}
    BY <1>6, WindowOfLast DEF RoundsAfter
  <1> HIDE DEF own, seen
  <1>10. {r \in RowWindow(seen) : round[r] = "SCORED"} = {r \in own : round[r] = "SCORED"}
    BY <1>3, <1>8, <1>9 DEF RoundsAfter
  <1>11. Earned(u, RowWindow(seen)) = Earned(u, own)
    BY <1>10 DEF Earned
  <1> QED
    BY <1>4, <1>5, <1>11 DEF own

\* Nothing but a settlement closes an active Mesa.
LEMMA OnlyCloses ==
    ASSUME MesaInv, OnlyDraftsEdited, [Next]_vars, mesa.status = "ACTIVE", mesa'.status = "CLOSED"
    PROVE  \E q \in Pool : CommitClose(q)
  <1>1. mesa \in MesaRow /\ mesa # NoMesa
    BY MesaExists
  <1>2. mesa' # mesa
    OBVIOUS
  <1>3. ~\E t \in Terms, admin \in BOOLEAN, mode \in {"DRAFT", "AT_START", "NOW"} :
            Create(t, admin, mode)
    BY <1>1 DEF Create
  <1>4. ~Publish /\ ~PublishScheduled
    BY DEF Publish, PublishScheduled, Scheduled
  <1>5. ASSUME NEW q \in Requests, CommitJoin(q)
        PROVE  FALSE
    <2>1. request[q] \in Join
      BY <1>5 DEF CommitJoin, Pool, MesaInv, RequestsTyped, Work, Idle, Edit, Closing, Finish, Pass
    <2>2. Enter(mesa, request[q].user, request[q].terms, request[q].invited)
          /\ request[q].terms \in Term
      BY <1>5, <2>1 DEF CommitJoin, Join
    <2>3. mesa'.status = mesa.status
      BY <1>1, <2>2, EnterRow DEF MesaInv
    <2> QED
      BY <2>3
  <1>6. ASSUME NEW q \in Requests, CommitEdit(q)
        PROVE  FALSE
    <2>1. request[q] \in Edit
      BY <1>6 DEF CommitEdit, Pool, MesaInv, RequestsTyped, Work, Idle, Join, Closing, Finish, Pass
    <2> QED
      BY <1>6, <2>1 DEF CommitEdit, OnlyDraftsEdited
  <1>7. ASSUME Capture \/ \E q \in Pool : CommitJob(q)
        PROVE  FALSE
    BY <1>1, <1>7 DEF Capture, CommitJob, CommitUnschedule, CommitFinish,
                      CommitCloseRegistrations, MesaRow
  <1>8. ASSUME \/ \E max \in InviteUses : CreateInvite(max)
               \/ \E q \in Requests, u \in Users, invited \in BOOLEAN : StartJoin(q, u, invited)
               \/ \E q \in Requests, t \in NewTerms, admin \in BOOLEAN,
                     mode \in {"KEEP", "DRAFT", "AT_START", "NOW"} : StartEdit(q, t, admin, mode)
               \/ \E q \in Pool, force \in BOOLEAN : StartClose(q, force)
               \/ \E q \in Jobs : StartJob(q) \/ StartRecalculation(q) \/ CommitRecalculation(q)
               \/ \E q \in Pool : BuildRows(q) \/ RollBack(q)
               \/ Season \/ UNCHANGED vars
        PROVE  mesa' = mesa
    BY <1>8 DEF CreateInvite, StartJoin, StartEdit, StartClose, StartJob, StartUnschedule,
                StartCloseRegistrations, StartFinish, StartRecalculation, CommitRecalculation,
                BuildRows, RollBack, Season, OpenRound, CloseRound, ScoreRound, CancelRound, Tick,
                LosePro, vars
  <1> QED
    BY <1>2, <1>3, <1>4, <1>5, <1>6, <1>7, <1>8 DEF Next, Enrol, Pool

\* A Mesa of so many rounds that nobody edits once it is published, in a season whose
\* rounds close and are scored one after the other, is paid by what its players earned in
\* its own rounds, the first so many scored after the reference, however late the capture,
\* the scoring and the closing job run (MesaInitialScoreService, MesaLifecycleService,
\* CloseRankingService).  The end of a Mesa is a time: a round that closes with the last
\* one counts, and one scored late moves which the last one is.
THEOREM MesasAreSettledByTheirRounds ==
    ASSUME ClosedOneByOne
    PROVE  Spec /\ []OnlyDraftsEdited /\ []InTurn => SettledByOwnRounds
  <1> DEFINE Settles == \A q \in Requests \cup Jobs :
         /\ request[q].op = "close" /\ request[q].seen.end # Null
         /\ mesa.status = "ACTIVE" /\ mesa'.status = "CLOSED" /\ request'[q] = Idle
         /\ RoundMode(mesa.terms) /\ ScoredInOrder /\ AllCaptured
         => LET own == {r \in RoundsAfter :
                            Cardinality({s \in RoundsAfter : s <= r}) <= mesa.terms.rounds}
            IN  \A u \in Approved : participant'[u].score = Earned(u, own)
  <1>1. Init => CoinsInv /\ ToldInv /\ OwnInv
    BY CoinsStart, ToldStarts, OwnStarts
  <1>2. MesaInv /\ PurseInv /\ SeasonKept /\ OnlyDraftsEdited /\ InTurn /\ MesaInv'
        /\ CoinsInv /\ ToldInv /\ OwnInv /\ [Next]_vars => CoinsInv' /\ ToldInv' /\ OwnInv'
    BY NextKeeps, NextTold, NextOwn
  <1>3. MesaInv /\ OnlyDraftsEdited /\ OwnInv /\ [Next]_vars => Settles
    <2> SUFFICES ASSUME MesaInv, OnlyDraftsEdited, OwnInv, [Next]_vars, NEW q \in Pool,
                        request[q].op = "close", request[q].seen.end # Null,
                        mesa.status = "ACTIVE", mesa'.status = "CLOSED", request'[q] = Idle,
                        RoundMode(mesa.terms), ScoredInOrder, AllCaptured, NEW u \in Approved
                 PROVE  participant'[u].score = Earned(u, {r \in RoundsAfter :
                            Cardinality({s \in RoundsAfter : s <= r}) <= mesa.terms.rounds})
      BY DEF Pool
    <2>1. PICK p \in Pool : CommitClose(p)
      BY OnlyCloses
    <2>2. p = q
      BY <2>1 DEF CommitClose, End, Continue, MesaInv, RequestsTyped, Idle
    <2> QED
      BY <2>1, <2>2, CloseSettles
  <1>4. MesaInv /\ OnlyDraftsEdited /\ OwnInv /\ [Next]_vars => [Settles]_vars
    BY <1>3
  <1> HIDE DEF Settles
  <1>5. [][Settles]_vars => SettledByOwnRounds
    BY PTL DEF Settles, SettledByOwnRounds
  <1> QED
    BY PurseInductive, SeasonInductive, <1>1, <1>2, <1>4, <1>5, PTL DEF Spec

=============================================================================
