----------------------------- MODULE BBBDispatch -----------------------------
(***************************************************************************)
(* The dispatch of the BBB market: BBB_ISO in bbb_iso.py over its units    *)
(* (local_unit.py, battery.py, bakery.py, bucket.py).  In each time step   *)
(* every unit adds what it was given to its energy, and the power of the   *)
(* step is divided anew.  A battery takes any power up to its limit, a     *)
(* bakery its limit or nothing and may not stop once it runs, a bucket     *)
(* takes what is left and gives what is missing.                           *)
(*                                                                         *)
(* The step is one time unit (tS = 1) and energies are integers.  An       *)
(* agility is a fraction, kept as numerator and denominator, less a        *)
(* billionth of the number of a bakery, kept as a tie breaker.             *)
(***************************************************************************)
EXTENDS Integers, FiniteSets, FiniteSetsExt, SequencesExt

CONSTANTS
  Battery, Bakery, Bucket,   \* the units, by kind
  eMin, eMax,                \* limits of the energy of each unit
  pMin, pMax,                \* limits of its power
  tEnd,                      \* when a battery or bakery is to be full
  tRun,                      \* how long a bakery runs
  unitNumber,                \* the number in the id of a unit
  N,                         \* bound: time steps
  Dispatch                   \* the powers a step may have to divide

Unit == Battery \cup Bakery \cup Bucket
Urgent == Battery \cup Bakery

ASSUME UnitAssumption ==
  /\ Battery \cap Bakery = {} /\ Urgent \cap Bucket = {}
  /\ eMin \in [Unit -> Int] /\ eMax \in [Unit -> Int]
  /\ pMin \in [Unit -> Int] /\ pMax \in [Unit -> Nat \ {0}]
  /\ tEnd \in [Urgent -> Nat] /\ tRun \in [Bakery -> Nat]
  /\ unitNumber \in [Unit -> Nat]
  /\ \A u \in Unit : eMin[u] <= 0 /\ 0 <= eMax[u] /\ pMin[u] <= 0
  /\ \A u \in Urgent : eMin[u] = 0 /\ pMin[u] = 0
  /\ N \in Nat /\ Dispatch \subseteq Int

VARIABLES
  units,     \* unitList: the units that are registered
  currentTime,
  e, p,      \* energy and power of each unit
  v,         \* the bakeries that were started
  dispatched,   \* the power of the last step
  forced,       \* pForced of the last step, 0 before
  order         \* history: batteries and bakeries in the order they were
                \* served, empty if they were given what they are forced to

dispatchVars == <<units, currentTime, e, p, v, dispatched, forced, order>>

Zero == [u \in Unit |-> 0]

DispatchInit ==
  /\ units = {} /\ currentTime = 0
  /\ e = Zero /\ p = Zero /\ v = {}
  /\ dispatched = 0 /\ forced = Zero /\ order = << >>

-----------------------------------------------------------------------------
\* mutant: the limit is that of the power alone.
PowerLimit(u, en) == pMax[u]

Limit(u, en) == Min({pMax[u], eMax[u] - en[u]})   \* getConstrainedPMax

\* What a bucket can still take, and what it can give.
Reserve(u, en) == Min({pMax[u], eMax[u] - en[u]})
Available(u, en) == Min({-pMin[u], en[u] - eMin[u]})

\* updateAgility of each kind.
BatteryAgility(u, k, en) ==
  [num |-> (tEnd[u] - k) * pMax[u] - (eMax[u] - en[u]), den |-> pMax[u], tie |-> 0]
BakeryAgility(u, k) == [num |-> tEnd[u] - tRun[u] - k, den |-> 1, tie |-> unitNumber[u]]
BucketAgility(u, en) == [num |-> eMax[u] - en[u], den |-> pMax[u], tie |-> 0]

Agility(u, k, en) ==
  CASE u \in Battery -> BatteryAgility(u, k, en)
    [] u \in Bakery  -> BakeryAgility(u, k)
    [] u \in Bucket  -> BucketAgility(u, en)

Less(a, b) ==
  \/ a.num * b.den < b.num * a.den
  \/ a.num * b.den = b.num * a.den /\ a.tie > b.tie

\* The tie breaker keeps an agility of 1 from being larger than 1, and never
\* makes one above 1 smaller.
AboveOne(a) == a.num > a.den

\* updatePForced of each kind; "started" are the bakeries with v set.
BatteryForced(u, a, en) ==
  IF AboveOne(a) THEN 0
  ELSE IF a.num > 0 THEN pMax[u] - a.num
  ELSE Min({pMax[u], Max({pMin[u], eMax[u] - en[u]})})
BakeryForced(u, a, en, started) ==
  IF AboveOne(a) /\ u \notin started THEN 0 ELSE Limit(u, en)
BucketForced == 0

Forced(u, k, en, started) ==
  LET a == Agility(u, k, en) IN
  CASE u \in Battery -> BatteryForced(u, a, en)
    [] u \in Bakery  -> BakeryForced(u, a, en, started)
    [] u \in Bucket  -> BucketForced

\* list.sort: any order of units with the same agility.
Sorted(S, k, en) ==
  {s \in SetToSeqs(S) : \A i, j \in DOMAIN s :
     i < j => ~ Less(Agility(s[j], k, en), Agility(s[i], k, en))}

Sum(f, S) == MapThenSumSet(LAMBDA u : f[u], S)

\* The units of a sequence take theirs in turn: what each takes, by "take", of
\* what those before it have left.
InTurn(s, d, take) ==
  LET rest[i \in 1 .. Len(s) + 1] ==
        IF i = 1 THEN d ELSE rest[i - 1] - take[s[i - 1]][rest[i - 1]]
  IN [u \in Range(s) |-> LET i == CHOOSE i \in DOMAIN s : s[i] = u IN take[u][rest[i]]]

\* mutant: a battery takes its limit, whatever is left.
ShareUnbounded(u, rest, en, force) ==
  IF u \in Battery \/ rest >= Limit(u, en) THEN Limit(u, en) ELSE 0

Share(u, rest, en, force) ==
  IF u \in Battery THEN Min({Limit(u, en), rest})
  ELSE IF rest >= Limit(u, en) THEN Max({force[u], Limit(u, en)}) ELSE 0

\* mutant: the buckets give the limit of their power, whatever they hold.
BucketShareUnlimited(u, rest, en) ==
  IF rest < 0 THEN Max({pMin[u], rest}) ELSE Min({Reserve(u, en), rest})

BucketShare(u, rest, en) ==
  IF rest < 0 THEN Max({-Available(u, en), rest}) ELSE Min({Reserve(u, en), rest})

\* mutant: the order of giving is that of taking.
BucketOrdersSame(S, rest, k, en) == Sorted(S, k, en)

\* The buckets that hold most give first; those that hold least take first.
BucketOrders(S, rest, k, en) ==
  IF rest < 0 THEN Sorted(S, k, en) ELSE {Reverse(s) : s \in Sorted(S, k, en)}

-----------------------------------------------------------------------------
\* updateE of the units that are registered.
EnergyAfterStep == [u \in Unit |-> IF u \in units THEN e[u] + p[u] ELSE e[u]]

\* setP of a bakery: once it was given power it runs.
SetV(bakeries, given) == v' = v \cup {u \in bakeries : given[u] > 0}

\* What each unit is forced to take, and what it takes of what is left.
Forces(k, en) == [u \in Unit |-> IF u \in units THEN Forced(u, k, en, v) ELSE 0]
UrgentTake(en, force) == [u \in Unit |-> [rest \in Int |-> Share(u, rest, en, force)]]
BucketTake(en) == [u \in Unit |-> [rest \in Int |-> BucketShare(u, rest, en)]]

AgileBalancing(d) ==
  LET k  == currentTime + 1
      en == EnergyAfterStep
      force == Forces(k, en)
      urgent == units \cap Urgent
      buckets == units \cap Bucket
      enough == Sum(force, urgent) <= d
  IN /\ k <= N
     /\ \E s \in IF enough THEN Sorted(urgent, k, en) ELSE {<< >>} :
        LET given == IF enough THEN InTurn(s, d, UrgentTake(en, force)) ELSE force
            left == d - Sum(given, urgent)
        IN \E t \in BucketOrders(buckets, left, k, en) :
             /\ p' = [u \in Unit |-> IF u \in urgent THEN given[u]
                                    ELSE IF u \in buckets
                                           THEN InTurn(t, left, BucketTake(en))[u] ELSE 0]
             /\ SetV(urgent \cap Bakery, given)
             /\ order' = s
     /\ currentTime' = k /\ e' = en /\ forced' = force
     /\ dispatched' = d
     /\ UNCHANGED units

\* The unit is made from the parameters the client sends, of its kind, empty
\* and not running.
MakeUnit(u) ==
  e' = [e EXCEPT ![u] = 0] /\ p' = [p EXCEPT ![u] = 0] /\ v' = v \ {u}

\* One that is registered already is refused.
RegisterUnit(u) ==
  /\ u \notin units
  /\ units' = units \cup {u}
  /\ MakeUnit(u)
  /\ UNCHANGED <<currentTime, dispatched, forced, order>>

DeregisterUnit(u) ==
  /\ u \in units
  /\ units' = units \ {u}
  /\ e' = [e EXCEPT ![u] = 0] /\ p' = [p EXCEPT ![u] = 0] /\ v' = v \ {u}
  /\ UNCHANGED <<currentTime, dispatched, forced, order>>

DispatchNext ==
  \/ \E d \in Dispatch : AgileBalancing(d)
  \/ \E u \in Unit : RegisterUnit(u) \/ DeregisterUnit(u)

DispatchSpec == DispatchInit /\ [][DispatchNext]_dispatchVars

-----------------------------------------------------------------------------
(* The power a unit was given keeps its energy within its limits when the  *)
(* next step adds it, forced or shared, whenever the unit joined.          *)
EnergyInLimits ==
  \A u \in units :
    /\ eMin[u] <= e[u] /\ e[u] <= eMax[u]
    /\ eMin[u] <= e[u] + p[u] /\ e[u] + p[u] <= eMax[u]

Step == currentTime' # currentTime

\* generateStats: pResidual.
Residual == dispatched - Sum(p, units)

(* Power is left over, or missing, only if every bucket takes, or gives,   *)
(* all it can: the parts always add up to the power of the step.           *)
BucketsAbsorb ==
  [][Step => \A u \in units \cap Bucket :
               /\ Residual' > 0 => p'[u] = Limit(u, e')
               /\ Residual' < 0 => p'[u] = -Available(u, e')]_dispatchVars

(* A bucket gives only if every bucket that holds more, for its power,     *)
(* gives all it can, and takes only if every emptier one takes all it can. *)
BucketsInOrder ==
  [][Step => \A b, c \in units \cap Bucket :
       Less(Agility(b, currentTime', e'), Agility(c, currentTime', e'))
         => /\ p'[c] < 0 => p'[b] = -Available(b, e')
            /\ p'[b] > 0 => p'[c] = Limit(c, e')]_dispatchVars

(* If the power covers what batteries and bakeries are forced to, they are *)
(* never given more than there is, the most urgent is given at least what  *)
(* it is forced to, and once a battery is given less than its limit        *)
(* nothing is left for the less urgent.                                    *)
UrgentFirst ==
  [][Step /\ order' # << >> =>
       /\ Sum(p', units \cap Urgent) <= dispatched'
       /\ p'[order'[1]] >= forced'[order'[1]]
       /\ \A i, j \in DOMAIN order' :
            i < j /\ order'[i] \in Battery /\ p'[order'[i]] < Limit(order'[i], e')
              => p'[order'[j]] = 0]_dispatchVars

=============================================================================
