---------------------------- MODULE ReportProofs ----------------------------
(***************************************************************************)
(* Proofs about the two kinds of report.                                   *)
(*                                                                         *)
(* MinerReport, for any hours, readings, models and limits: "insufficient  *)
(* data" is answered only when there was none, a report never asks a hot   *)
(* miner for more heat, and its adjustments are safe, explained, and one   *)
(* for each parameter.                                                     *)
(*                                                                         *)
(* DailyReport, for any zones whose offset changes by an hour at most, any *)
(* schedule, any horizon and however long a generation takes: a day whose  *)
(* calendar is ordinary is not left without its report, and the report of  *)
(* its run is of a whole day.  The modules share no state; the second half *)
(* starts at the line "Daily reports: the calendar".                       *)
(***************************************************************************)
EXTENDS MinerReport, DailyReport, SumTheorems

(* What the series was made of shows in its maxima. *)
Covers(series, covered) ==
  \A k \in covered :
    k \in Kinds /\ \E i \in DOMAIN series : series[i].maxTemp >= k.temp * Unit

(* A row of the aggregate was made of readings that are stored. *)
StoreInv ==
  \A h \in Hours : aggregate[h] \subseteq readings[h] /\ IsFiniteSet(readings[h])

(* Between the two statements: an empty series means that nothing was      *)
(* stored, and what was stored still is.                                   *)
SeriesInv ==
  request.phase = "series" =>
    /\ request.from \in Hours /\ request.to \in Hours
    /\ Covers(request.series, request.covered)
    /\ request.series = << >> => request.stored = {}
    /\ \A h \in request.stored :
         h \in request.from .. request.to /\ readings[h] # {}

(* A report is the analysis of the series it answers for. *)
ReportInv ==
  request.phase = "reported" =>
    /\ request.series # << >>
    /\ Covers(request.series, request.covered)
    /\ request.report = Analyze(model, request.series, request.ambient)

IInv == TypeOK /\ StoreInv /\ SeriesInv /\ ReportInv /\ InsufficientMeansNoData
-----------------------------------------------------------------------------
(* A finite set of integers that is not empty has a maximum. *)
LEMMA MaxExists ==
  ASSUME NEW S, IsFiniteSet(S), S \subseteq Int, S # {}
  PROVE  Max(S) \in S /\ \A y \in S : Max(S) >= y
<1> DEFINE P == {s \in SUBSET S : s # {} => \E x \in s : \A y \in s : x >= y}
<1>1. ASSUME NEW s \in SUBSET S, \A x \in s : s \ {x} \in P
      PROVE  s \in P
  <2> SUFFICES ASSUME NEW z \in s PROVE \E x \in s : \A y \in s : x >= y
    OBVIOUS
  <2>1. CASE s \ {z} = {}
    BY <2>1
  <2>2. CASE s \ {z} # {}
    <3>1. PICK x \in s \ {z} : \A y \in s \ {z} : x >= y
      BY <1>1, <2>2
    <3>2. x \in Int /\ z \in Int /\ \A y \in s : y \in Int
      OBVIOUS
    <3>3. CASE x >= z
      BY <3>1, <3>3
    <3>4. CASE ~(x >= z)
      <4>1. \A y \in s : z >= y
        BY <3>1, <3>2, <3>4
      <4> QED BY <4>1
    <3> QED BY <3>3, <3>4
  <2> QED BY <2>1, <2>2
<1> HIDE DEF P
<1>2. S \in P
  BY <1>1, SubsetInduction
<1>3. \E x \in S : \A y \in S : x >= y
  BY <1>2 DEF P
<1> QED BY <1>3 DEF Max

(* The values of a function on a finite set are finitely many. *)
LEMMA ValuesFinite ==
  ASSUME NEW f, NEW S, IsFiniteSet(S)
  PROVE  IsFiniteSet({f[x] : x \in S})
<1> DEFINE T == {f[x] : x \in S}
           g == [x \in S |-> f[x]]
<1>1. g \in Surjection(S, T)
  BY DEF Surjection
<1> HIDE DEF g, T
<1>2. IsFiniteSet(T)
  BY <1>1, FS_Surjection
<1> QED BY <1>2 DEF T

(* So the values of an integer function have a maximum. *)
LEMMA MaxOfValues ==
  ASSUME NEW f, NEW S, IsFiniteSet(S), S # {}, \A x \in S : f[x] \in Int
  PROVE  LET m == Max({f[x] : x \in S})
         IN  m \in Int /\ \A x \in S : m >= f[x]
<1> DEFINE T == {f[x] : x \in S}
<1>1. IsFiniteSet(T)
  BY ValuesFinite
<1>2. T # {} /\ T \subseteq Int
  OBVIOUS
<1>3. \A x \in S : f[x] \in T
  OBVIOUS
<1> HIDE DEF T
<1>4. Max(T) \in T /\ \A y \in T : Max(T) >= y
  BY <1>1, <1>2, MaxExists
<1>5. Max(T) \in Int /\ \A x \in S : Max(T) >= f[x]
  BY <1>2, <1>3, <1>4
<1> QED BY <1>5 DEF T

(* An average, in hundredths, is an integer. *)
LEMMA AverageIsInt ==
  ASSUME NEW f, IsFiniteSet(DOMAIN f), DOMAIN f # {},
         \A x \in DOMAIN f : f[x] \in Int
  PROVE  (SumFunction(f) * Unit) \div Cardinality(DOMAIN f) \in Int
<1>1. PICK sum \in Int : sum = SumFunction(f)
  BY SumIsInt DEF SumFunction
<1>2. PICK n \in Nat : n = Cardinality(DOMAIN f) /\ n > 0
  <2>1. Cardinality(DOMAIN f) \in Nat /\ Cardinality(DOMAIN f) # 0
    BY FS_CardinalityType, FS_EmptySet
  <2> QED BY <2>1
<1>3. PICK total \in Int : total = sum * Unit
  BY DEF Unit
<1>4. total \div n \in Int
  BY <1>2
<1> QED BY <1>1, <1>2, <1>3, <1>4
-----------------------------------------------------------------------------
LEMMA HoursFinite == IsFiniteSet(Hours) /\ Hours \subseteq Nat
<1>1. Cardinality(Hours) \in Nat
  BY HoursAssumption, FS_CardinalityType
<1> QED BY <1>1, HoursAssumption

(* A bucket of readings is a point, as hot as its hottest reading. *)
LEMMA PointFacts ==
  ASSUME NEW h \in Hours, NEW set \in SUBSET Kinds, IsFiniteSet(set), set # {}
  PROVE  /\ Point(h, set) \in Points
         /\ \A k \in set : Point(h, set).maxTemp >= k.temp * Unit
<1> DEFINE hash  == [k \in set |-> k.hash]
           power == [k \in set |-> k.power]
           temp  == [k \in set |-> k.temp]
           fan   == [k \in set |-> k.fan]
           Average(f) == (SumFunction(f) * Unit) \div Cardinality(set)
           hottest == Max({k.temp : k \in set})
<1>1. \A k \in set : /\ k.hash \in Int /\ k.power \in Int
                     /\ k.temp \in Int /\ k.fan \in Int
  BY KindsAssumption
<1>2. /\ Average(hash) \in Int /\ Average(power) \in Int
      /\ Average(temp) \in Int /\ Average(fan) \in Int
  <2>1. ASSUME NEW f, DOMAIN f = set, \A k \in set : f[k] \in Int
        PROVE  Average(f) \in Int
    BY <2>1, AverageIsInt
  <2>2. /\ DOMAIN hash = set /\ \A k \in set : hash[k] \in Int
        /\ DOMAIN power = set /\ \A k \in set : power[k] \in Int
        /\ DOMAIN temp = set /\ \A k \in set : temp[k] \in Int
        /\ DOMAIN fan = set /\ \A k \in set : fan[k] \in Int
    BY <1>1
  <2> HIDE DEF hash, power, temp, fan, Average
  <2> QED BY <2>1, <2>2
<1>3. hottest \in Int /\ \A k \in set : hottest >= k.temp
  <2>1. {temp[k] : k \in set} = {k.temp : k \in set}
    OBVIOUS
  <2>2. \A k \in set : temp[k] = k.temp
    OBVIOUS
  <2>3. \A k \in set : temp[k] \in Int
    BY <1>1
  <2> HIDE DEF temp
  <2>4. /\ Max({temp[k] : k \in set}) \in Int
        /\ \A x \in set : Max({temp[k] : k \in set}) >= temp[x]
    BY <2>3, MaxOfValues
  <2> QED BY <2>1, <2>2, <2>4
<1>4. Point(h, set) = [bucket |-> h, hash |-> Average(hash),
                       power |-> Average(power), temp |-> Average(temp),
                       maxTemp |-> hottest * Unit, fan |-> Average(fan)]
  BY DEF Point, HashOf, PowerOf, TempOf, FanOf
<1> HIDE DEF hash, power, temp, fan, Average, hottest
<1>5. hottest * Unit \in Int /\ \A k \in set : hottest * Unit >= k.temp * Unit
  BY <1>1, <1>3 DEF Unit
<1> QED BY <1>2, <1>4, <1>5 DEF Points
-----------------------------------------------------------------------------
(* The elements of a finite set of naturals have the ranks 0, 1, ... *)
LEMMA Ranks ==
  ASSUME NEW hours, hours \subseteq Nat, IsFiniteSet(hours)
  PROVE  LET rank == [h \in hours |-> Cardinality({g \in hours : g < h})]
             n    == Cardinality(hours)
         IN  /\ n \in Nat
             /\ \A h \in hours : rank[h] \in 0 .. n - 1
             /\ \A h, g \in hours : rank[h] = rank[g] => h = g
             /\ \A i \in 0 .. n - 1 : \E h \in hours : rank[h] = i
<1> DEFINE Below(h) == {g \in hours : g < h}
           rank == [h \in hours |-> Cardinality(Below(h))]
           n == Cardinality(hours)
           R == 0 .. n - 1
<1>1. n \in Nat
  BY FS_CardinalityType
<1>2. ASSUME NEW h \in hours, NEW T, Below(h) \subseteq T, h \in T, T \subseteq hours
      PROVE  rank[h] \in Nat /\ Cardinality(T) \in Nat /\ rank[h] < Cardinality(T)
  <2>1. IsFiniteSet(T) /\ Below(h) \in SUBSET T /\ h \notin Below(h)
    <3>1. h \in Nat /\ ~(h < h)
      OBVIOUS
    <3>2. h \notin Below(h)
      BY <3>1
    <3>3. IsFiniteSet(T)
      BY <1>2, FS_Subset
    <3> QED BY <1>2, <3>2, <3>3
  <2>2. IsFiniteSet(Below(h))
    BY <2>1, FS_Subset
  <2>3. /\ Cardinality(T) \in Nat /\ Cardinality(Below(h)) \in Nat
        /\ Cardinality(Below(h)) <= Cardinality(T)
        /\ Cardinality(Below(h)) # Cardinality(T)
    <3> HIDE DEF Below
    <3> QED BY <1>2, <2>1, <2>2, FS_Subset, FS_CardinalityType
  <2>4. rank[h] = Cardinality(Below(h))
    OBVIOUS
  <2> HIDE DEF Below, rank
  <2> QED BY <2>3, <2>4
<1>3. \A h \in hours : rank[h] \in R
  <2> SUFFICES ASSUME NEW h \in hours PROVE rank[h] \in R
    OBVIOUS
  <2>1. rank[h] \in Nat /\ rank[h] < n
    BY <1>2
  <2> HIDE DEF rank, n
  <2> QED BY <1>1, <2>1
<1>4. \A h, g \in hours : rank[h] = rank[g] => h = g
  <2>1. ASSUME NEW h \in hours, NEW g \in hours, h < g
        PROVE  rank[h] # rank[g]
    <3>1. Below(h) \subseteq Below(g) /\ h \in Below(g) /\ Below(g) \subseteq hours
      <4>1. \A x \in hours : x < h => x < g
        BY <2>1
      <4> QED BY <2>1, <4>1
    <3>2. rank[g] = Cardinality(Below(g))
      OBVIOUS
    <3>3. /\ rank[h] \in Nat /\ Cardinality(Below(g)) \in Nat
          /\ rank[h] < Cardinality(Below(g))
      <4> HIDE DEF Below, rank
      <4> QED BY <1>2, <3>1
    <3> HIDE DEF Below, rank
    <3> QED BY <3>2, <3>3
  <2> HIDE DEF rank
  <2> QED BY <2>1
<1>5. \A i \in R : \E h \in hours : rank[h] = i
  <2>1. rank \in [hours -> R]
    BY <1>3
  <2>2. IsFiniteSet(R) /\ Cardinality(R) = n
    <3> HIDE DEF n
    <3>1. 0 \in Int /\ n - 1 \in Int
      BY <1>1
    <3> QED BY <1>1, <3>1, FS_Interval
  <2> HIDE DEF rank, R
  <2>3. rank \in Injection(hours, R)
    BY <1>4, <2>1 DEF Injection, IsInjective
  <2>4. rank \in Surjection(hours, R)
    BY <2>2, <2>3, FS_Injection
  <2> QED BY <2>4 DEF Surjection
<1> QED BY <1>1, <1>3, <1>4, <1>5
-----------------------------------------------------------------------------
(* The series of some hours has a point for each of them. *)
LEMMA SeriesFacts ==
  ASSUME NEW table, NEW hours \in SUBSET Hours,
         \A h \in hours : /\ table[h] \in SUBSET Kinds
                          /\ IsFiniteSet(table[h])
                          /\ table[h] # {}
  PROVE  /\ SeriesFrom(table, hours) \in Seq(Points)
         /\ Covers(SeriesFrom(table, hours), UNION {table[h] : h \in hours})
         /\ SeriesFrom(table, hours) = << >> => hours = {}
<1> DEFINE rank == [h \in hours |-> Cardinality({g \in hours : g < h})]
           n == Cardinality(hours)
           At(i) == CHOOSE h \in hours : Cardinality({g \in hours : g < h}) = i - 1
           series == [i \in 1 .. n |-> Point(At(i), table[At(i)])]
<1>1. hours \subseteq Nat /\ IsFiniteSet(hours)
  BY HoursFinite, FS_Subset
<1>2. /\ n \in Nat
      /\ \A h \in hours : rank[h] \in 0 .. n - 1
      /\ \A h, g \in hours : rank[h] = rank[g] => h = g
      /\ \A i \in 0 .. n - 1 : \E h \in hours : rank[h] = i
  BY <1>1, Ranks
<1>3. ASSUME NEW i \in 1 .. n
      PROVE  At(i) \in hours /\ rank[At(i)] = i - 1
  <2>1. i - 1 \in 0 .. n - 1
    BY <1>2
  <2>2. \E h \in hours : Cardinality({g \in hours : g < h}) = i - 1
    <3>1. PICK h \in hours : rank[h] = i - 1
      BY <1>2, <2>1
    <3>2. Cardinality({g \in hours : g < h}) = i - 1
      BY <3>1
    <3> QED BY <3>2
  <2>3. At(i) \in hours /\ Cardinality({g \in hours : g < At(i)}) = i - 1
    BY <2>2
  <2> HIDE DEF At
  <2> QED BY <2>3
<1>4. \A h \in hours : \E i \in 1 .. n : At(i) = h
  <2> SUFFICES ASSUME NEW h \in hours PROVE \E i \in 1 .. n : At(i) = h
    OBVIOUS
  <2> HIDE DEF At, rank, n
  <2>1. PICK r \in 0 .. n - 1 : r = rank[h]
    BY <1>2
  <2>2. r + 1 \in 1 .. n /\ (r + 1) - 1 = r
    BY <1>2
  <2> QED BY <1>2, <1>3, <2>1, <2>2
<1>5. \A i \in 1 .. n :
        /\ series[i] \in Points
        /\ \A k \in table[At(i)] : series[i].maxTemp >= k.temp * Unit
  <2> SUFFICES ASSUME NEW i \in 1 .. n
               PROVE  /\ series[i] \in Points
                      /\ \A k \in table[At(i)] : series[i].maxTemp >= k.temp * Unit
    OBVIOUS
  <2>1. series[i] = Point(At(i), table[At(i)])
    OBVIOUS
  <2>2. At(i) \in hours /\ At(i) \in Hours
    BY <1>3
  <2> HIDE DEF At, series
  <2>3. PICK h \in Hours : h = At(i)
    BY <2>2
  <2>4. PICK set \in SUBSET Kinds : set = table[h] /\ IsFiniteSet(set) /\ set # {}
    BY <2>2, <2>3
  <2> QED BY <2>1, <2>3, <2>4, PointFacts
<1>6. SeriesFrom(table, hours) = series
  BY DEF SeriesFrom
<1>7. series \in Seq(Points)
  <2>1. series = [i \in 1 .. n |-> series[i]]
    OBVIOUS
  <2> HIDE DEF series, n
  <2> QED BY <1>2, <1>5, <2>1
<1>8. Covers(series, UNION {table[h] : h \in hours})
  <2> SUFFICES ASSUME NEW h \in hours, NEW k \in table[h]
               PROVE  /\ k \in Kinds
                      /\ \E i \in DOMAIN series : series[i].maxTemp >= k.temp * Unit
    BY DEF Covers
  <2>1. PICK i \in 1 .. n : At(i) = h
    BY <1>4
  <2>2. i \in DOMAIN series
    OBVIOUS
  <2> HIDE DEF At, series
  <2> QED BY <1>5, <2>1, <2>2
<1>9. series = << >> => hours = {}
  <2>1. DOMAIN series = 1 .. n
    OBVIOUS
  <2>2. series = << >> => n = 0
    <3> HIDE DEF series, n
    <3> QED BY <1>2, <2>1
  <2> QED BY <1>1, <2>2, FS_EmptySet
<1> HIDE DEF series
<1> QED BY <1>6, <1>7, <1>8, <1>9

(* The limit keeps at least one bucket of a window that has one. *)
LEMMA ServedFacts ==
  ASSUME NEW table, NEW from \in Hours, NEW to \in Hours, NEW limit \in Limits
  PROVE  LET served == ServedHours(table, from, to, limit)
         IN  /\ served \subseteq {h \in from .. to : table[h] # {}}
             /\ served = {} => \A h \in from .. to : table[h] = {}
<1> DEFINE present == {h \in from .. to : table[h] # {}}
<1>1. present \subseteq Nat
  BY HoursFinite
<1>2. limit \in Nat /\ 0 < limit
  BY LimitsAssumption
<1>3. ASSUME present # {}
      PROVE  ServedHours(table, from, to, limit) # {}
  <2> HIDE DEF present
  <2>1. PICK least \in present : \A h \in present : least <= h
    BY <1>1, <1>3, LeastNat
  <2>2. {g \in present : g < least} = {}
    <3>1. \A g \in present : ~(g < least)
      <4>1. \A g \in present : g \in Nat
        BY <1>1
      <4> QED BY <2>1, <4>1
    <3> QED BY <3>1
  <2>3. Cardinality({g \in present : g < least}) < limit
    BY <1>2, <2>2, FS_EmptySet
  <2> QED BY <2>1, <2>3 DEF ServedHours, present
<1>4. ServedHours(table, from, to, limit) \subseteq present
  BY DEF ServedHours
<1> QED BY <1>3, <1>4

(* A window with a reading has a newest one. *)
LEMMA LatestExists ==
  ASSUME TypeOK, NEW from \in Hours, NEW to \in Hours, NEW h \in from .. to,
         readings[h] # {}
  PROVE  LatestReadings(from, to) # {}
<1> DEFINE present == {g \in from .. to : readings[g] # {}}
<1>1. from .. to \subseteq Hours
  <2>1. PICK n \in Nat : Hours = 1 .. n
    BY HoursAssumption, FS_CardinalityType
  <2> QED BY <2>1
<1>2. /\ present \subseteq Hours /\ present \subseteq Int /\ IsFiniteSet(present)
      /\ present # {}
  BY <1>1, HoursFinite, FS_Subset
<1>3. PICK last \in present : \A g \in present : g <= last
  <2> HIDE DEF present
  <2> QED BY <1>2, MaxExists
<1>4. PICK k \in readings[last] : TRUE
  OBVIOUS
<1>5. k \in Kinds
  BY <1>2, <1>3 DEF TypeOK
<1> QED BY <1>3, <1>5 DEF LatestReadings
-----------------------------------------------------------------------------
(* What the analysis makes of the temperatures of a series. *)
LEMMA FeatureFacts ==
  ASSUME NEW series \in Seq(Points), series # << >>, NEW ambient, NEW baseline,
         NEW f, f = BuildFeatures(series, ambient, baseline)
  PROVE  /\ f.temp \in Int
         /\ f.maxTemp \in Int
         /\ \A i \in DOMAIN series : f.maxTemp >= series[i].maxTemp
<1>1. /\ DOMAIN series = 1 .. Len(series) /\ Len(series) \in Nat
      /\ Len(series) > 0 /\ IsFiniteSet(DOMAIN series) /\ DOMAIN series # {}
  <2>1. DOMAIN series = 1 .. Len(series) /\ Len(series) \in Nat /\ Len(series) > 0
    OBVIOUS
  <2>2. IsFiniteSet(1 .. Len(series))
    BY <2>1, FS_Interval
  <2>3. 1 \in DOMAIN series
    BY <2>1
  <2> QED BY <2>1, <2>2, <2>3
<1>2. \A i \in DOMAIN series : series[i].temp \in Int /\ series[i].maxTemp \in Int
  <2>1. \A i \in DOMAIN series : series[i] \in Points
    BY <1>1
  <2> QED BY <2>1 DEF Points
<1>3. f.temp = Mean(series, TempOf)
  BY DEF BuildFeatures
<1>4. f.maxTemp = Max({series[i].maxTemp : i \in DOMAIN series})
  BY DEF BuildFeatures
<1>5. Mean(series, TempOf) \in Int
  <2> DEFINE temps == [i \in DOMAIN series |-> series[i].temp]
  <2>1. Mean(series, TempOf) = SumFunction(temps) \div Len(series)
    BY DEF Mean, Total, TempOf
  <2>2. DOMAIN temps = DOMAIN series /\ \A i \in DOMAIN temps : temps[i] \in Int
    BY <1>2
  <2> HIDE DEF temps
  <2>3. PICK sum \in Int : sum = SumFunction(temps)
    BY <1>1, <2>2, SumIsInt DEF SumFunction
  <2> QED BY <1>1, <2>1, <2>3
<1>6. LET m == Max({series[i].maxTemp : i \in DOMAIN series})
      IN  m \in Int /\ \A i \in DOMAIN series : m >= series[i].maxTemp
  <2> DEFINE maxima == [i \in DOMAIN series |-> series[i].maxTemp]
  <2>1. {maxima[i] : i \in DOMAIN series} = {series[i].maxTemp : i \in DOMAIN series}
    OBVIOUS
  <2>2. \A i \in DOMAIN series : /\ maxima[i] = series[i].maxTemp
                                 /\ maxima[i] \in Int
    BY <1>2
  <2> HIDE DEF maxima
  <2>3. LET m == Max({maxima[i] : i \in DOMAIN series})
        IN  m \in Int /\ \A i \in DOMAIN series : m >= maxima[i]
    BY <1>1, <2>2, MaxOfValues
  <2> QED BY <2>1, <2>2, <2>3
<1> QED BY <1>3, <1>4, <1>5, <1>6

(* Whatever alerts as critically hot is a hotspot, for every model. *)
LEMMA CriticalIsHotspot ==
  ASSUME NEW m, NEW f, f.maxTemp \in Int, f.maxTemp >= 95 * Unit
  PROVE  DetectHotspot(f, BaselineForModel(m)).triggered
<1>1. BaselineForModel(m).hotspot \in Int /\ BaselineForModel(m).hotspot <= 95 * Unit
  BY DEF BaselineForModel, Unit
<1> QED BY <1>1 DEF DetectHotspot, Unit

LEMMA CriticalOverheat ==
  ASSUME NEW k \in Kinds,
         Rules!Alert("overheat", "critical") \in Rules!Evaluate(Event(k))
  PROVE  k.temp >= 95
BY KindsAssumption
   DEF Rules!Alert, Rules!Evaluate, Rules!Overheat, Rules!PowerSpike,
       Rules!HashrateDrop, Event
-----------------------------------------------------------------------------
Setting(p, amount) == [amount |-> amount, unit |-> SafeUnit(p)]

(* One adjustment through the guardrails: it is applied as asked, or it is  *)
(* unsafe and replaced by 0, with what was asked kept and blocked.          *)
LEMMA GuardFacts ==
  ASSUME NEW f, NEW baseline, NEW hotspot,
         NEW p \in Parameters, NEW amount \in Int,
         SafeRange(p).low <= amount, amount <= SafeRange(p).high,
         NEW asked, asked = Setting(p, amount),
         NEW g, g = Guard(Recommend(p, asked), f, baseline, hotspot)
  PROVE  /\ g.recommendation.parameter = p
         /\ \/ g.recommendation.suggested = asked
            \/ /\ UnsafeDirection(p, amount, f, baseline, hotspot)
               /\ g.recommendation.suggested = Setting(p, 0)
               /\ g.recommendation.requested = asked
               /\ g.decision.action = "blocked"
<1>1. /\ asked.amount = amount /\ asked.unit = SafeUnit(p)
      /\ asked.unit # "none" /\ SafeUnit(p) # "none"
  BY DEF SafeUnit, Setting
<1>2. SafeRange(p).low \in Int /\ SafeRange(p).high \in Int
  BY DEF SafeRange, Parameters, Unit
<1>3. Clamp(amount, SafeRange(p).low, SafeRange(p).high) = amount
  BY <1>2 DEF Clamp
<1>4. Recommend(p, asked).parameter = p /\ Recommend(p, asked).suggested = asked
  BY DEF Recommend
<1>5. CASE UnsafeDirection(p, amount, f, baseline, hotspot)
  <2>1. g = [recommendation |->
               [parameter |-> p, suggested |-> [amount |-> 0, unit |-> SafeUnit(p)],
                requested |-> asked],
             decision |->
               [parameter |-> p, requested |-> asked,
                applied |-> [amount |-> 0, unit |-> SafeUnit(p)],
                action |-> "blocked"]]
    BY <1>1, <1>3, <1>4, <1>5 DEF Guard
  <2> QED BY <1>5, <2>1 DEF Setting
<1>6. CASE ~ UnsafeDirection(p, amount, f, baseline, hotspot)
  <2>1. g.recommendation.parameter = p
    BY <1>4 DEF Guard
  <2>2. g.recommendation.suggested = [amount |-> amount, unit |-> SafeUnit(p)]
    BY <1>1, <1>3, <1>4, <1>6 DEF Guard
  <2> QED BY <2>1, <2>2 DEF Setting
<1> QED BY <1>5, <1>6
-----------------------------------------------------------------------------
(* The fold of the estimate over three adjustments, written out. *)
Top(s) == CHOOSE x \in s : \A y \in s : x >= y

Estimates(b, recs, est) ==
  est = [s \in SUBSET DOMAIN recs |->
           IF s = {} THEN b ELSE Elasticity(est[s \ {Top(s)}], recs[Top(s)])]

LEMMA FoldUnfolds ==
  ASSUME NEW b, NEW recs
  PROVE  FoldLeft(Elasticity, b, recs) =
           (CHOOSE est : Estimates(b, recs, est))[DOMAIN recs]
BY Zenon DEF FoldLeft, MapThenFoldSet, Estimates, Top, Max

LEMMA ThreeFinite == IsFiniteSet(1 .. 3) /\ Cardinality(1 .. 3) = 3
<1>1. 1 \in Int /\ 3 \in Int /\ ~(1 > 3) /\ (3 - 1) + 1 = 3
  OBVIOUS
<1>2. PICK a \in Int, c \in Int : a = 1 /\ c = 3
  BY <1>1
<1>3. IsFiniteSet(a .. c) /\ Cardinality(a .. c) = IF a > c THEN 0 ELSE c - a + 1
  BY FS_Interval
<1> QED BY <1>1, <1>2, <1>3

LEMMA FoldOfThree ==
  ASSUME NEW b, NEW recs, DOMAIN recs = 1 .. 3
  PROVE  FoldLeft(Elasticity, b, recs) =
           Elasticity(Elasticity(Elasticity(b, recs[1]), recs[2]), recs[3])
<1> DEFINE D == SUBSET DOMAIN recs
           Once(prior) == [s \in D |-> IF s = {} THEN b
                             ELSE Elasticity(prior[s \ {Top(s)}], recs[Top(s)])]
           e0 == [s \in D |-> b]
           e1 == Once(e0)
           e2 == Once(e1)
           e3 == Once(e2)
<1>1. ASSUME NEW s \in D, s # {}
      PROVE  Top(s) \in s /\ s \ {Top(s)} \in D
  <2>1. IsFiniteSet(s) /\ s \subseteq Int
    <3>1. IsFiniteSet(1 .. 3) /\ 1 .. 3 \subseteq Int
      BY ThreeFinite
    <3>2. s \in SUBSET (1 .. 3)
      OBVIOUS
    <3>3. s \subseteq Int
      BY <3>1, <3>2
    <3>4. IsFiniteSet(s)
      BY <3>1, <3>2, FS_Subset
    <3> QED BY <3>3, <3>4
  <2>2. Top(s) \in s
    BY <1>1, <2>1, MaxExists DEF Max, Top
  <2> QED BY <2>2
<1> DEFINE Small(n) == {s \in D : IsFiniteSet(s) /\ Cardinality(s) <= n}
<1>2. ASSUME NEW n \in Nat, NEW s \in Small(n + 1), s # {}
      PROVE  s \ {Top(s)} \in Small(n)
  <2>1. IsFiniteSet(s \ {Top(s)}) /\ Cardinality(s \ {Top(s)}) = Cardinality(s) - 1
    BY <1>1, <1>2, FS_RemoveElement
  <2>2. Cardinality(s) \in Nat /\ Cardinality(s) <= n + 1
    BY FS_CardinalityType
  <2> QED BY <1>1, <1>2, <2>1, <2>2
<1>3. \A s \in D : s \in Small(3)
  <2>1. ASSUME NEW s \in SUBSET (1 .. 3)
        PROVE  IsFiniteSet(s) /\ Cardinality(s) <= 3
    <3>1. PICK T : T = 1 .. 3 /\ IsFiniteSet(T) /\ Cardinality(T) = 3
      BY ThreeFinite
    <3>2. IsFiniteSet(s) /\ Cardinality(s) <= Cardinality(T)
      BY <3>1, FS_Subset
    <3> QED BY <3>1, <3>2
  <2> QED BY <2>1
<1>4. ASSUME NEW n \in Nat, NEW e, NEW f, \A s \in Small(n) : e[s] = f[s]
      PROVE  \A s \in Small(n + 1) : Once(e)[s] = Once(f)[s]
  <2> SUFFICES ASSUME NEW s \in Small(n + 1) PROVE Once(e)[s] = Once(f)[s]
    OBVIOUS
  <2>1. s # {} => e[s \ {Top(s)}] = f[s \ {Top(s)}]
    BY <1>2, <1>4
  <2> QED BY <2>1
<1>5. \A s \in Small(0) : e0[s] = e1[s]
  <2>1. \A s \in Small(0) : s = {}
    <3>1. ASSUME NEW s \in Small(0) PROVE s = {}
      <4>1. IsFiniteSet(s) /\ Cardinality(s) \in Nat /\ Cardinality(s) <= 0
        BY FS_CardinalityType
      <4> QED BY <4>1, FS_EmptySet
    <3> QED BY <3>1
  <2> QED BY <2>1
<1> HIDE DEF Small
<1>6. \A s \in Small(0 + 1) : e1[s] = e2[s]
  <2> HIDE DEF Once, e0
  <2> QED BY <1>4, <1>5
<1>7. \A s \in Small(1 + 1) : e2[s] = e3[s]
  <2>1. 0 + 1 = 1
    OBVIOUS
  <2> HIDE DEF Once, e1
  <2> QED BY <1>4, <1>6, <2>1
<1>8. \A s \in Small(2 + 1) : e3[s] = Once(e3)[s]
  <2>1. 1 + 1 = 2
    OBVIOUS
  <2> HIDE DEF Once, e2
  <2> QED BY <1>4, <1>7, <2>1
<1>9. Estimates(b, recs, e3)
  <2>1. \A s \in D : e3[s] = Once(e3)[s]
    <3>1. 2 + 1 = 3
      OBVIOUS
    <3> HIDE DEF e3, Once
    <3> QED BY <1>3, <1>8, <3>1
  <2>2. DOMAIN e3 = D /\ DOMAIN Once(e3) = D /\ e3 = [s \in D |-> e3[s]]
    OBVIOUS
  <2>3. Once(e3) = [s \in D |-> Once(e3)[s]]
    OBVIOUS
  <2>4. e3 = Once(e3)
    <3> HIDE DEF e3, Once, D
    <3> QED BY <2>1, <2>2, <2>3
  <2>5. e3 = [s \in SUBSET DOMAIN recs |->
                IF s = {} THEN b ELSE Elasticity(e3[s \ {Top(s)}], recs[Top(s)])]
    <3> HIDE DEF e3
    <3> QED BY <2>4
  <2> HIDE DEF e3
  <2> QED BY <2>5 DEF Estimates
<1> HIDE DEF e3
<1>10. PICK est : est = CHOOSE it : Estimates(b, recs, it)
  OBVIOUS
<1>11. Estimates(b, recs, est)
  BY <1>9, <1>10
<1>12. FoldLeft(Elasticity, b, recs) = est[1 .. 3]
  BY <1>10, FoldUnfolds
<1>13. ASSUME NEW n \in 1 .. 3
       PROVE  est[1 .. n] = Elasticity(est[1 .. n - 1], recs[n])
  <2>1. Top(1 .. n) = n
    <3>1. n \in 1 .. n /\ \A y \in 1 .. n : n >= y
      OBVIOUS
    <3>2. \A x \in 1 .. n : (\A y \in 1 .. n : x >= y) => x = n
      BY <3>1
    <3> QED BY <3>1, <3>2 DEF Top
  <2>2. (1 .. n) \ {n} = 1 .. n - 1
    OBVIOUS
  <2>3. 1 .. n \in SUBSET DOMAIN recs /\ 1 .. n # {}
    OBVIOUS
  <2> QED BY <1>11, <2>1, <2>2, <2>3 DEF Estimates
<1>14. est[{}] = b
  BY <1>11 DEF Estimates
<1>15. 1 .. 1 - 1 = {} /\ 2 - 1 = 1 /\ 3 - 1 = 2
  OBVIOUS
<1>16. /\ est[1 .. 1] = Elasticity(b, recs[1])
       /\ est[1 .. 2] = Elasticity(est[1 .. 1], recs[2])
       /\ est[1 .. 3] = Elasticity(est[1 .. 2], recs[3])
  BY <1>13, <1>14, <1>15
<1> QED BY <1>12, <1>16
-----------------------------------------------------------------------------
(* What the analyzer asks for: of a hot miner, of one that lost hashrate,  *)
(* of any other.                                                           *)
Asked(fan, freq, volt) ==
  << Recommend("fan", Setting("fan", fan)), Recommend("freq", Setting("freq", freq)),
     Recommend("volt", Setting("volt", volt)) >>

LEMMA AskedFacts ==
  ASSUME NEW hotspot, hotspot.triggered \in BOOLEAN,
         NEW hashDrop, hashDrop.triggered \in BOOLEAN
  PROVE  \/ RecommendActions(hotspot, hashDrop) = Asked(1200, -600, -1500)
         \/ /\ ~hotspot.triggered
            /\ \/ RecommendActions(hotspot, hashDrop) = Asked(500, -300, 1000)
               \/ RecommendActions(hotspot, hashDrop) = Asked(0, 0, 0)
<1>1. \A a : /\ Percent(a) = Setting("fan", a * 100)
             /\ Percent(a) = Setting("freq", a * 100)
  BY DEF Percent, Setting, SafeUnit, Unit
<1>2. \A a : MilliVolt(a) = Setting("volt", a * 100)
  BY DEF MilliVolt, Setting, SafeUnit, Unit
<1>3. /\ 12 * 100 = 1200 /\ -6 * 100 = -600 /\ 5 * 100 = 500 /\ -3 * 100 = -300
      /\ -15 * 100 = -1500 /\ 10 * 100 = 1000 /\ 0 * 100 = 0
  OBVIOUS
<1>4. /\ Percent(12) = Setting("fan", 1200) /\ Percent(-6) = Setting("freq", -600)
      /\ Percent(5) = Setting("fan", 500) /\ Percent(-3) = Setting("freq", -300)
      /\ Percent(0) = Setting("fan", 0) /\ Percent(0) = Setting("freq", 0)
      /\ MilliVolt(-15) = Setting("volt", -1500)
      /\ MilliVolt(10) = Setting("volt", 1000)
      /\ MilliVolt(0) = Setting("volt", 0)
  BY <1>1, <1>2, <1>3
<1>5. CASE hotspot.triggered
  BY <1>4, <1>5 DEF RecommendActions, Asked
<1>6. CASE ~hotspot.triggered /\ hashDrop.triggered
  BY <1>4, <1>6 DEF RecommendActions, Asked
<1>7. CASE ~hotspot.triggered /\ ~hashDrop.triggered
  BY <1>4, <1>7 DEF RecommendActions, Asked
<1> QED BY <1>5, <1>6, <1>7

(* The three adjustments after the guardrails: only an increase of the     *)
(* voltage is ever blocked.                                                *)
LEMMA GuardedFacts ==
  ASSUME NEW f, NEW baseline, NEW hotspot,
         NEW fan \in Int, NEW freq \in Int, NEW volt \in Int,
         0 <= fan, fan <= 2000, -800 <= freq, freq <= 0, -2000 <= volt, volt <= 1200,
         NEW recs, recs = Asked(fan, freq, volt),
         NEW g, g = ApplyGuardrails(f, baseline, hotspot, recs)
  PROVE  /\ DOMAIN g.recommendations = 1 .. 3
         /\ g.recommendations[1].parameter = "fan"
         /\ g.recommendations[2].parameter = "freq"
         /\ g.recommendations[3].parameter = "volt"
         /\ g.recommendations[1].suggested = Setting("fan", fan)
         /\ g.recommendations[2].suggested = Setting("freq", freq)
         /\ \/ g.recommendations[3].suggested = Setting("volt", volt)
            \/ volt > 0 /\ g.recommendations[3].suggested = Setting("volt", 0)
         /\ \A i \in 1 .. 3 :
              \/ g.recommendations[i].suggested = recs[i].suggested
              \/ /\ g.recommendations[i].requested = recs[i].suggested
                 /\ g.decisions[i].action = "blocked"
<1>1. /\ DOMAIN recs = 1 .. 3
      /\ recs[1] = Recommend("fan", Setting("fan", fan))
      /\ recs[2] = Recommend("freq", Setting("freq", freq))
      /\ recs[3] = Recommend("volt", Setting("volt", volt))
  BY DEF Asked
<1>2. /\ DOMAIN g.recommendations = 1 .. 3
      /\ \A i \in 1 .. 3 :
           /\ g.recommendations[i] = Guard(recs[i], f, baseline, hotspot).recommendation
           /\ g.decisions[i] = Guard(recs[i], f, baseline, hotspot).decision
  BY <1>1 DEF ApplyGuardrails
<1>3. /\ recs[1].suggested = Setting("fan", fan)
      /\ recs[2].suggested = Setting("freq", freq)
      /\ recs[3].suggested = Setting("volt", volt)
  BY <1>1 DEF Recommend
<1>4. /\ g.recommendations[1].parameter = "fan"
      /\ g.recommendations[1].suggested = Setting("fan", fan)
  <2>1. "fan" \in Parameters
        /\ SafeRange("fan").low <= fan /\ fan <= SafeRange("fan").high
    BY DEF Parameters, SafeRange, Unit
  <2>2. UnsafeDirection("fan", fan, f, baseline, hotspot) => fan < 0
    BY DEF UnsafeDirection
  <2>3. PICK one : one = Guard(recs[1], f, baseline, hotspot)
    OBVIOUS
  <2>4. /\ one.recommendation.parameter = "fan"
        /\ \/ one.recommendation.suggested = Setting("fan", fan)
           \/ UnsafeDirection("fan", fan, f, baseline, hotspot)
    BY <1>1, <2>1, <2>3, GuardFacts
  <2>5. g.recommendations[1] = one.recommendation
    BY <1>2, <2>3
  <2> QED BY <2>2, <2>4, <2>5
<1>5. /\ g.recommendations[2].parameter = "freq"
      /\ g.recommendations[2].suggested = Setting("freq", freq)
  <2>1. "freq" \in Parameters
        /\ SafeRange("freq").low <= freq /\ freq <= SafeRange("freq").high
    BY DEF Parameters, SafeRange, Unit
  <2>2. UnsafeDirection("freq", freq, f, baseline, hotspot) => freq > 0
    BY DEF UnsafeDirection
  <2>3. PICK one : one = Guard(recs[2], f, baseline, hotspot)
    OBVIOUS
  <2>4. /\ one.recommendation.parameter = "freq"
        /\ \/ one.recommendation.suggested = Setting("freq", freq)
           \/ UnsafeDirection("freq", freq, f, baseline, hotspot)
    BY <1>1, <2>1, <2>3, GuardFacts
  <2>5. g.recommendations[2] = one.recommendation
    BY <1>2, <2>3
  <2> QED BY <2>2, <2>4, <2>5
<1>6. /\ g.recommendations[3].parameter = "volt"
      /\ \/ g.recommendations[3].suggested = Setting("volt", volt)
         \/ /\ volt > 0
            /\ g.recommendations[3].suggested = Setting("volt", 0)
            /\ g.recommendations[3].requested = Setting("volt", volt)
            /\ g.decisions[3].action = "blocked"
  <2>1. "volt" \in Parameters
        /\ SafeRange("volt").low <= volt /\ volt <= SafeRange("volt").high
    BY DEF Parameters, SafeRange, Unit
  <2>2. UnsafeDirection("volt", volt, f, baseline, hotspot) => volt > 0
    BY DEF UnsafeDirection
  <2>3. PICK one : one = Guard(recs[3], f, baseline, hotspot)
    OBVIOUS
  <2>4. /\ one.recommendation.parameter = "volt"
        /\ \/ one.recommendation.suggested = Setting("volt", volt)
           \/ /\ volt > 0
              /\ one.recommendation.suggested = Setting("volt", 0)
              /\ one.recommendation.requested = Setting("volt", volt)
              /\ one.decision.action = "blocked"
    BY <1>1, <2>1, <2>2, <2>3, GuardFacts
  <2>5. g.recommendations[3] = one.recommendation /\ g.decisions[3] = one.decision
    BY <1>2, <2>3
  <2> QED BY <2>4, <2>5
<1>7. \A i \in 1 .. 3 : i = 1 \/ i = 2 \/ i = 3
  OBVIOUS
<1> QED BY <1>2, <1>3, <1>4, <1>5, <1>6, <1>7
-----------------------------------------------------------------------------
(* The estimate of the temperature after the three adjustments. *)
Snapshot == {"hash", "power", "temp", "fan", "compensated"}

LEMMA ElasticityFacts ==
  ASSUME NEW s, DOMAIN s = Snapshot, NEW rec, rec.suggested.unit # "none",
         NEW d, d = rec.suggested.amount,
         NEW p \in Parameters, p = rec.parameter
  PROVE  /\ DOMAIN Elasticity(s, rec) = Snapshot
         /\ p = "fan" => Elasticity(s, rec).temp = s.temp - (14 * d) \div 100
         /\ p = "freq" => Elasticity(s, rec).temp = s.temp + (9 * d) \div 100
         /\ p = "volt" => Elasticity(s, rec).temp = s.temp + d \div 70
<1>1. CASE p = "fan"
  <2>1. Elasticity(s, rec) =
          [s EXCEPT !.fan = Grow(@, d), !.temp = @ - (14 * d) \div 100,
                    !.power = Grow(@, (2 * d) \div 100)]
    BY <1>1 DEF Elasticity
  <2> QED BY <1>1, <2>1 DEF Snapshot
<1>2. CASE p = "freq"
  <2>1. Elasticity(s, rec) =
          [s EXCEPT !.hash = Grow(@, (82 * d) \div 100),
                    !.power = Grow(@, (68 * d) \div 100),
                    !.temp = @ + (9 * d) \div 100]
    BY <1>2 DEF Elasticity
  <2> QED BY <1>2, <2>1 DEF Snapshot
<1>3. CASE p = "volt"
  <2>1. Elasticity(s, rec) =
          [s EXCEPT !.power = Grow(@, d \div 10), !.hash = Grow(@, (18 * d) \div 700),
                    !.temp = @ + d \div 70]
    BY <1>3 DEF Elasticity
  <2> QED BY <1>3, <2>1 DEF Snapshot
<1> QED BY <1>1, <1>2, <1>3 DEF Parameters

Estimate(temp, fan, freq, volt) ==
  AtLeast(((temp - (14 * fan) \div 100) + (9 * freq) \div 100) + volt \div 70,
          ColdestEstimate)

Suggests(recs, fan, freq, volt) ==
  /\ DOMAIN recs = 1 .. 3
  /\ recs[1].parameter = "fan"  /\ recs[1].suggested = Setting("fan", fan)
  /\ recs[2].parameter = "freq" /\ recs[2].suggested = Setting("freq", freq)
  /\ recs[3].parameter = "volt" /\ recs[3].suggested = Setting("volt", volt)

LEMMA ImpactFacts ==
  ASSUME NEW f, NEW baseline, NEW recs, NEW fan, NEW freq, NEW volt,
         Suggests(recs, fan, freq, volt),
         NEW impact, impact = EstimateImpact(f, baseline, recs)
  PROVE  /\ impact.after.temp = Estimate(f.temp, fan, freq, volt)
         /\ impact.delta.temp = impact.after.temp - f.temp
<1>1. \A p, a : Setting(p, a).amount = a /\ Setting(p, a).unit # "none"
  BY DEF Setting, SafeUnit
<1> USE DEF Suggests
<1>2. PICK b : b = [hash |-> f.hash, power |-> f.power, temp |-> f.temp,
                    fan |-> f.fan, compensated |-> f.compensated]
  OBVIOUS
<1>3. DOMAIN b = Snapshot /\ b.temp = f.temp
  BY <1>2 DEF Snapshot
<1>4. PICK b1 : b1 = Elasticity(b, recs[1])
  OBVIOUS
<1>5. DOMAIN b1 = Snapshot /\ b1.temp = f.temp - (14 * fan) \div 100
  BY <1>1, <1>3, <1>4, ElasticityFacts DEF Parameters
<1>6. PICK b2 : b2 = Elasticity(b1, recs[2])
  OBVIOUS
<1>7. DOMAIN b2 = Snapshot /\ b2.temp = b1.temp + (9 * freq) \div 100
  BY <1>1, <1>5, <1>6, ElasticityFacts DEF Parameters
<1>8. PICK raw : raw = Elasticity(b2, recs[3])
  OBVIOUS
<1>9. DOMAIN raw = Snapshot /\ raw.temp = b2.temp + volt \div 70
  BY <1>1, <1>7, <1>8, ElasticityFacts DEF Parameters
<1>10. FoldLeft(Elasticity, b, recs) = raw
  BY <1>4, <1>6, <1>8, FoldOfThree
<1>11. PICK floor :
         floor = [raw EXCEPT !.hash = AtLeast(@, Unit), !.power = AtLeast(@, Unit),
                             !.temp = AtLeast(@, ColdestEstimate),
                             !.fan = AtLeast(@, 0)]
  OBVIOUS
<1>12. DOMAIN floor = Snapshot /\ floor.temp = AtLeast(raw.temp, ColdestEstimate)
  BY <1>9, <1>11 DEF Snapshot
<1>13. PICK after :
         after = [floor EXCEPT !.compensated =
                    CompensateJTH(ComputeJTH(floor.power, floor.hash), f.ambient,
                                  baseline)]
  OBVIOUS
<1>14. after.temp = floor.temp
  BY <1>12, <1>13 DEF Snapshot
<1>15. impact.after = after /\ impact.delta.temp = after.temp - f.temp
  BY <1>2, <1>3, <1>10, <1>11, <1>13 DEF EstimateImpact
<1> QED BY <1>5, <1>7, <1>9, <1>12, <1>14, <1>15 DEF Estimate
-----------------------------------------------------------------------------
(* An analysis recommends what the analyzer asks for, but for an increase of *)
(* the voltage that the guardrails replace by 0.                           *)
Applied(report, fan, freq, volt) ==
  LET recs  == report.recommendations
      asked == RecommendActions(report.hotspot, report.hashDrop)
      temp  == report.features.temp
  IN  /\ Suggests(recs, fan, freq, volt)
      /\ \A i \in 1 .. 3 :
           \/ recs[i].suggested = asked[i].suggested
           \/ /\ recs[i].requested = asked[i].suggested
              /\ report.guardrails[i].action # "allow"
      /\ report.impact.after.temp = Estimate(temp, fan, freq, volt)
      /\ report.impact.delta.temp = report.impact.after.temp - temp

LEMMA AppliedFacts ==
  ASSUME NEW m, NEW series, NEW ambient,
         NEW report, report = Analyze(m, series, ambient),
         NEW fan \in Int, NEW freq \in Int, NEW volt \in Int,
         0 <= fan, fan <= 2000, -800 <= freq, freq <= 0, -2000 <= volt, volt <= 1200,
         RecommendActions(report.hotspot, report.hashDrop) = Asked(fan, freq, volt)
  PROVE  \/ Applied(report, fan, freq, volt)
         \/ volt > 0 /\ Applied(report, fan, freq, 0)
<1>1. PICK baseline : baseline = BaselineForModel(m)
  OBVIOUS
<1>2. PICK f : f = BuildFeatures(series, ambient, baseline)
  OBVIOUS
<1>3. PICK hotspot : hotspot = DetectHotspot(f, baseline)
  OBVIOUS
<1>4. PICK hashDrop : hashDrop = DetectHashDegradation(f, baseline)
  OBVIOUS
<1>5. PICK recs : recs = RecommendActions(hotspot, hashDrop)
  OBVIOUS
<1>6. PICK g : g = ApplyGuardrails(f, baseline, hotspot, recs)
  OBVIOUS
<1>7. /\ report.features = f /\ report.hotspot = hotspot /\ report.hashDrop = hashDrop
      /\ report.recommendations = g.recommendations
      /\ report.guardrails = g.decisions
      /\ report.impact = EstimateImpact(f, baseline, g.recommendations)
  BY <1>1, <1>2, <1>3, <1>4, <1>5, <1>6 DEF Analyze
<1>8. recs = Asked(fan, freq, volt)
  BY <1>5, <1>7
<1>9. /\ DOMAIN g.recommendations = 1 .. 3
      /\ g.recommendations[1].parameter = "fan"
      /\ g.recommendations[2].parameter = "freq"
      /\ g.recommendations[3].parameter = "volt"
      /\ g.recommendations[1].suggested = Setting("fan", fan)
      /\ g.recommendations[2].suggested = Setting("freq", freq)
      /\ \/ g.recommendations[3].suggested = Setting("volt", volt)
         \/ volt > 0 /\ g.recommendations[3].suggested = Setting("volt", 0)
      /\ \A i \in 1 .. 3 :
           \/ g.recommendations[i].suggested = recs[i].suggested
           \/ /\ g.recommendations[i].requested = recs[i].suggested
              /\ g.decisions[i].action = "blocked"
  BY <1>6, <1>8, GuardedFacts
<1>10. ASSUME NEW v, g.recommendations[3].suggested = Setting("volt", v)
       PROVE  Applied(report, fan, freq, v)
  <2>1. PICK impact : impact = EstimateImpact(f, baseline, g.recommendations)
    OBVIOUS
  <2>2. Suggests(g.recommendations, fan, freq, v)
    BY <1>9, <1>10 DEF Suggests
  <2>3. /\ impact.after.temp = Estimate(f.temp, fan, freq, v)
        /\ impact.delta.temp = impact.after.temp - f.temp
    BY <2>1, <2>2, ImpactFacts
  <2>4. \A i \in 1 .. 3 :
          \/ g.recommendations[i].suggested = recs[i].suggested
          \/ /\ g.recommendations[i].requested = recs[i].suggested
             /\ g.decisions[i].action # "allow"
    BY <1>9
  <2> QED BY <1>5, <1>7, <2>1, <2>2, <2>3, <2>4 DEF Applied
<1> QED BY <1>9, <1>10

(* Three outcomes, and which of them a hot miner gets. *)
Outcome(series, report) ==
  /\ report.features.temp \in Int
  /\ \/ Applied(report, 1200, -600, -1500)
     \/ /\ ~report.hotspot.triggered
        /\ \/ Applied(report, 500, -300, 1000)
           \/ Applied(report, 500, -300, 0)
           \/ Applied(report, 0, 0, 0)
  /\ (\E i \in DOMAIN series : series[i].maxTemp >= 95 * Unit) =>
        report.hotspot.triggered

LEMMA AnalysisFacts ==
  ASSUME NEW m, NEW series \in Seq(Points), series # << >>, NEW ambient,
         NEW report, report = Analyze(m, series, ambient)
  PROVE  Outcome(series, report)
<1>1. PICK baseline : baseline = BaselineForModel(m)
  OBVIOUS
<1>2. PICK f : f = BuildFeatures(series, ambient, baseline)
  OBVIOUS
<1>3. /\ report.features = f
      /\ report.hotspot = DetectHotspot(f, baseline)
      /\ report.hashDrop = DetectHashDegradation(f, baseline)
  BY <1>1, <1>2 DEF Analyze
<1>4. /\ f.temp \in Int /\ f.maxTemp \in Int
      /\ \A i \in DOMAIN series : f.maxTemp >= series[i].maxTemp
  BY <1>2, FeatureFacts
<1>5. report.hotspot.triggered \in BOOLEAN /\ report.hashDrop.triggered \in BOOLEAN
  BY <1>3 DEF DetectHotspot, DetectHashDegradation
<1>6. ASSUME NEW i \in DOMAIN series, series[i].maxTemp >= 95 * Unit
      PROVE  report.hotspot.triggered
  <2>1. series[i].maxTemp \in Int
    <3>1. series[i] \in Points
      OBVIOUS
    <3> QED BY <3>1 DEF Points
  <2>2. f.maxTemp >= 95 * Unit
    BY <1>4, <1>6, <2>1 DEF Unit
  <2> QED BY <1>1, <1>3, <1>4, <2>2, CriticalIsHotspot
<1>7. CASE RecommendActions(report.hotspot, report.hashDrop) = Asked(1200, -600, -1500)
  <2>1. Applied(report, 1200, -600, -1500) \/ -1500 > 0
    BY <1>7, AppliedFacts
  <2> QED BY <1>3, <1>4, <1>6, <2>1 DEF Outcome
<1>8. CASE /\ ~report.hotspot.triggered
           /\ RecommendActions(report.hotspot, report.hashDrop) = Asked(500, -300, 1000)
  <2>1. Applied(report, 500, -300, 1000) \/ Applied(report, 500, -300, 0)
    BY <1>8, AppliedFacts
  <2> QED BY <1>3, <1>4, <1>6, <1>8, <2>1 DEF Outcome
<1>9. CASE /\ ~report.hotspot.triggered
           /\ RecommendActions(report.hotspot, report.hashDrop) = Asked(0, 0, 0)
  <2>1. Applied(report, 0, 0, 0)
    BY <1>9, AppliedFacts
  <2> QED BY <1>3, <1>4, <1>6, <1>9, <2>1 DEF Outcome
<1> QED BY <1>5, <1>7, <1>8, <1>9, AskedFacts
-----------------------------------------------------------------------------
LEMMA InitIInv == Init => IInv
<1> SUFFICES ASSUME Init PROVE IInv
  OBVIOUS
<1>1. 1 \in Hours
  <2>1. PICK n \in Nat : Hours = 1 .. n
    BY HoursAssumption, FS_CardinalityType
  <2> QED BY <2>1, HoursAssumption
<1>2. \A h \in Hours : readings[h] = {} /\ aggregate[h] = {}
  BY DEF Init
<1>3. request.phase = "idle"
  BY DEF Init, NoRequest
<1>4. TypeOK
  BY <1>1, <1>3 DEF Init, TypeOK
<1>5. StoreInv
  BY <1>2, FS_EmptySet DEF StoreInv
<1> QED BY <1>3, <1>4, <1>5 DEF IInv, SeriesInv, ReportInv, InsufficientMeansNoData

(* A step that changes no answer but to drop it, and takes nothing stored   *)
(* away, keeps what is known of the request.                               *)
LEMMA UnderWayKept ==
  ASSUME IInv, request' = UnderWay, model' = model,
         \A h \in Hours : readings[h] \subseteq readings'[h]
  PROVE  /\ request'.phase \in {"idle", "series", "reported", "insufficient"}
         /\ request'.phase \in {"series", "reported"} =>
              request'.series \in Seq(Points)
         /\ SeriesInv' /\ ReportInv' /\ InsufficientMeansNoData'
<1>1. CASE request.phase = "series"
  <2>1. request' = request
    BY <1>1 DEF UnderWay
  <2>2. /\ request.series \in Seq(Points)
        /\ request.from \in Hours /\ request.to \in Hours
        /\ Covers(request.series, request.covered)
        /\ request.series = << >> => request.stored = {}
        /\ \A h \in request.stored :
             h \in request.from .. request.to /\ readings[h] # {}
    BY <1>1 DEF IInv, TypeOK, SeriesInv
  <2>3. request.from .. request.to \subseteq Hours
    <3>1. PICK n \in Nat : Hours = 1 .. n
      BY HoursAssumption, FS_CardinalityType
    <3> QED BY <2>2, <3>1
  <2>4. \A h \in request.stored : readings'[h] # {}
    BY <2>2, <2>3
  <2>5. SeriesInv'
    BY <2>1, <2>2, <2>4 DEF SeriesInv, Covers
  <2> QED BY <1>1, <2>1, <2>2, <2>5 DEF ReportInv, InsufficientMeansNoData
<1>2. CASE request.phase # "series"
  <2>1. request'.phase = "idle"
    BY <1>2 DEF UnderWay, NoRequest
  <2> QED BY <2>1 DEF SeriesInv, ReportInv, InsufficientMeansNoData
<1> QED BY <1>1, <1>2

LEMMA PersistIInv ==
  ASSUME IInv, NEW h \in Hours, NEW k \in Kinds, Persist(h, k)
  PROVE  IInv'
<1>1. /\ request' = UnderWay /\ UNCHANGED << model, now, aggregate >>
      /\ readings' = [readings EXCEPT ![h] = readings[h] \cup {k}]
  BY DEF Persist
<1>2. TypeOK /\ StoreInv
  BY DEF IInv
<1>3. /\ readings' \in [Hours -> SUBSET Kinds]
      /\ \A g \in Hours : /\ readings[g] \subseteq readings'[g]
                          /\ readings'[g] = readings[g] \/
                             readings'[g] = readings[g] \cup {k}
  BY <1>1, <1>2 DEF TypeOK
<1>4. StoreInv'
  <2>1. ASSUME NEW g \in Hours
        PROVE  aggregate'[g] \subseteq readings'[g] /\ IsFiniteSet(readings'[g])
    <3>1. IsFiniteSet(readings[g] \cup {k})
      BY <1>2, FS_AddElement DEF StoreInv
    <3> QED BY <1>1, <1>2, <1>3, <3>1 DEF StoreInv
  <2> QED BY <2>1 DEF StoreInv
<1>5. /\ request'.phase \in {"idle", "series", "reported", "insufficient"}
      /\ request'.phase \in {"series", "reported"} => request'.series \in Seq(Points)
      /\ SeriesInv' /\ ReportInv' /\ InsufficientMeansNoData'
  BY <1>1, <1>3, UnderWayKept
<1>6. TypeOK'
  BY <1>1, <1>2, <1>3, <1>5 DEF TypeOK
<1> QED BY <1>4, <1>5, <1>6 DEF IInv

LEMMA TickIInv ==
  ASSUME IInv, Tick
  PROVE  IInv'
<1>1. /\ request' = UnderWay /\ UNCHANGED << model, readings, aggregate >>
      /\ now' \in Hours
  BY DEF Tick
<1>2. /\ request'.phase \in {"idle", "series", "reported", "insufficient"}
      /\ request'.phase \in {"series", "reported"} => request'.series \in Seq(Points)
      /\ SeriesInv' /\ ReportInv' /\ InsufficientMeansNoData'
  BY <1>1, UnderWayKept
<1>3. TypeOK' /\ StoreInv'
  BY <1>1, <1>2 DEF IInv, TypeOK, StoreInv
<1> QED BY <1>2, <1>3 DEF IInv

LEMMA RefreshIInv ==
  ASSUME IInv, Refresh
  PROVE  IInv'
<1>1. /\ request' = UnderWay /\ UNCHANGED << model, now, readings >>
      /\ aggregate' = [h \in Hours |-> IF h <= now - 2 THEN readings[h]
                                       ELSE aggregate[h]]
  BY DEF Refresh
<1>2. /\ request'.phase \in {"idle", "series", "reported", "insufficient"}
      /\ request'.phase \in {"series", "reported"} => request'.series \in Seq(Points)
      /\ SeriesInv' /\ ReportInv' /\ InsufficientMeansNoData'
  BY <1>1, UnderWayKept
<1>3. \A h \in Hours : aggregate'[h] = readings[h] \/ aggregate'[h] = aggregate[h]
  BY <1>1
<1>4. TypeOK'
  BY <1>1, <1>2 DEF IInv, TypeOK
<1>5. StoreInv'
  BY <1>1, <1>3 DEF IInv, StoreInv
<1> QED BY <1>2, <1>4, <1>5 DEF IInv
-----------------------------------------------------------------------------
LEMMA ReadSeriesIInv ==
  ASSUME IInv, NEW from \in Hours, NEW to \in Hours, NEW limit \in Limits,
         NEW override \in Overrides, ReadSeries(from, to, limit, override)
  PROVE  IInv'
<1>1. PICK source, hours :
        /\ source = SeriesSource(from, to, limit)
        /\ hours = ServedHours(source, from, to, limit)
  OBVIOUS
<1>2. /\ request' = [phase    |-> "series",
                     from     |-> from,
                     to       |-> to,
                     override |-> override,
                     series   |-> SeriesFrom(source, hours),
                     covered  |-> UNION {source[h] : h \in hours},
                     stored   |-> {h \in from .. to : readings[h] # {}}]
      /\ UNCHANGED << model, now, readings, aggregate >>
  BY <1>1 DEF ReadSeries
<1>3. /\ readings \in [Hours -> SUBSET Kinds] /\ aggregate \in [Hours -> SUBSET Kinds]
      /\ StoreInv
  BY DEF IInv, TypeOK
<1>4. from .. to \subseteq Hours
  <2>1. PICK n \in Nat : Hours = 1 .. n
    BY HoursAssumption, FS_CardinalityType
  <2> QED BY <2>1
<1>5. hours \subseteq {h \in from .. to : source[h] # {}}
  BY <1>1, ServedFacts
<1>6. \A h \in hours : /\ source[h] \in SUBSET Kinds
                       /\ IsFiniteSet(source[h])
                       /\ source[h] # {}
  <2> SUFFICES ASSUME NEW h \in hours
               PROVE  /\ source[h] \in SUBSET Kinds
                      /\ IsFiniteSet(source[h])
                      /\ source[h] # {}
    OBVIOUS
  <2>1. h \in Hours /\ source[h] # {}
    BY <1>4, <1>5
  <2>2. source = aggregate \/ source = readings
    BY <1>1 DEF SeriesSource
  <2>3. IsFiniteSet(readings[h]) /\ aggregate[h] \in SUBSET readings[h]
    BY <1>3, <2>1 DEF StoreInv
  <2>4. IsFiniteSet(aggregate[h])
    BY <2>3, FS_Subset
  <2> QED BY <1>3, <2>1, <2>2, <2>3, <2>4
<1>7. hours \in SUBSET Hours
  BY <1>4, <1>5
<1>8. PICK series, covered : /\ series = SeriesFrom(source, hours)
                             /\ covered = UNION {source[h] : h \in hours}
  OBVIOUS
<1>9. /\ series \in Seq(Points) /\ Covers(series, covered)
      /\ series = << >> => hours = {}
  BY <1>6, <1>7, <1>8, SeriesFacts
<1>10. hours = {} => \A h \in from .. to : readings[h] = {}
  <2> SUFFICES ASSUME hours = {} PROVE \A h \in from .. to : readings[h] = {}
    OBVIOUS
  <2>1. source = readings
    BY <1>1 DEF SeriesSource
  <2> QED BY <1>1, <2>1, ServedFacts
<1>11. PICK stored : stored = {h \in from .. to : readings[h] # {}}
  OBVIOUS
<1>12. /\ request'.phase = "series"
       /\ request'.from = from /\ request'.to = to
       /\ request'.series = series /\ request'.covered = covered
       /\ request'.stored = stored
  BY <1>2, <1>8, <1>11
<1>13. TypeOK' /\ StoreInv'
  BY <1>2, <1>9, <1>12 DEF IInv, TypeOK, StoreInv
<1>14. SeriesInv'
  <2>1. series = << >> => stored = {}
    BY <1>9, <1>10, <1>11
  <2>2. \A h \in stored : h \in from .. to /\ readings'[h] # {}
    BY <1>2, <1>11
  <2>3. Covers(request'.series, request'.covered)
    BY <1>9, <1>12
  <2> QED BY <1>12, <2>1, <2>2, <2>3 DEF SeriesInv, Covers
<1> QED BY <1>12, <1>13, <1>14 DEF IInv, ReportInv, InsufficientMeansNoData

LEMMA ReadLatestIInv ==
  ASSUME IInv, ReadLatest
  PROVE  IInv'
<1>1. /\ request.phase = "series" /\ request.from \in Hours /\ request.to \in Hours
      /\ request.series \in Seq(Points)
      /\ Covers(request.series, request.covered)
      /\ request.series = << >> => request.stored = {}
      /\ \A h \in request.stored :
           h \in request.from .. request.to /\ readings[h] # {}
      /\ TypeOK /\ StoreInv
  BY DEF ReadLatest, IInv, SeriesInv, TypeOK
<1>2. UNCHANGED << model, now, readings, aggregate >>
  BY DEF ReadLatest
<1>3. PICK latest : latest = LatestReadings(request.from, request.to)
  OBVIOUS
<1>4. CASE /\ latest = {} \/ request.series = << >>
           /\ request' = [phase |-> "insufficient", stored |-> request.stored]
  <2>1. request.stored = {}
    <3>1. ASSUME NEW h \in request.stored PROVE latest # {}
      BY <1>1, <1>3, LatestExists
    <3> QED BY <1>1, <1>4, <3>1
  <2>2. request'.phase = "insufficient" /\ request'.stored = {}
    BY <1>4, <2>1
  <2> QED BY <1>1, <1>2, <2>2
          DEF IInv, TypeOK, StoreInv, SeriesInv, ReportInv, InsufficientMeansNoData
<1>5. CASE /\ request.series # << >>
           /\ \E k \in latest :
                request' = [phase   |-> "reported",
                            covered |-> request.covered,
                            series  |-> request.series,
                            ambient |-> Ambient(k),
                            report  |-> Analyze(model, request.series, Ambient(k))]
  <2>1. PICK k \in latest :
          request' = [phase   |-> "reported",
                      covered |-> request.covered,
                      series  |-> request.series,
                      ambient |-> Ambient(k),
                      report  |-> Analyze(model, request.series, Ambient(k))]
    BY <1>5
  <2>2. /\ request'.phase = "reported"
        /\ request'.covered = request.covered
        /\ request'.series = request.series
        /\ request'.report = Analyze(model, request'.series, request'.ambient)
    BY <2>1
  <2>3. TypeOK' /\ StoreInv' /\ SeriesInv' /\ InsufficientMeansNoData'
    BY <1>1, <1>2, <2>2
       DEF TypeOK, StoreInv, SeriesInv, InsufficientMeansNoData
  <2>4. ReportInv'
    BY <1>1, <1>2, <1>5, <2>2 DEF ReportInv, Covers
  <2> QED BY <2>3, <2>4 DEF IInv
<1> QED BY <1>3, <1>4, <1>5 DEF ReadLatest

LEMMA NextIInv == IInv /\ [Next]_vars => IInv'
<1> SUFFICES ASSUME IInv, [Next]_vars PROVE IInv'
  OBVIOUS
<1>1. ASSUME NEW h \in Hours, NEW k \in Kinds, Persist(h, k) PROVE IInv'
  BY <1>1, PersistIInv
<1>2. CASE Tick
  BY <1>2, TickIInv
<1>3. CASE Refresh
  BY <1>3, RefreshIInv
<1>4. ASSUME NEW from \in Hours, NEW to \in Hours, NEW limit \in Limits,
             NEW override \in Overrides, ReadSeries(from, to, limit, override)
      PROVE  IInv'
  BY <1>4, ReadSeriesIInv
<1>5. CASE ReadLatest
  BY <1>5, ReadLatestIInv
<1>6. CASE UNCHANGED vars
  BY <1>6 DEF vars, IInv, TypeOK, StoreInv, SeriesInv, ReportInv, Covers,
              InsufficientMeansNoData
<1> QED BY <1>1, <1>2, <1>3, <1>4, <1>5, <1>6 DEF Next
-----------------------------------------------------------------------------
(* What the report of a state says, by the three outcomes of the analysis. *)
LEMMA ReportFacts ==
  ASSUME IInv, Reported
  PROVE  Outcome(request.series, request.report)
<1>1. PICK series, ambient, report :
        /\ series = request.series /\ ambient = request.ambient
        /\ report = request.report
  OBVIOUS
<1>2. /\ series \in Seq(Points) /\ series # << >>
      /\ report = Analyze(model, series, ambient)
  BY <1>1 DEF IInv, TypeOK, ReportInv, Reported
<1>3. Outcome(series, report)
  BY <1>2, AnalysisFacts
<1> QED BY <1>1, <1>3

(* Which adjustment of a report is recommended for each parameter. *)
LEMMA RecommendedFacts ==
  ASSUME NEW fan \in Int, NEW freq \in Int, NEW volt \in Int,
         Applied(request.report, fan, freq, volt)
  PROVE  /\ Recommended("fan") = request.report.recommendations[1]
         /\ Recommended("freq") = request.report.recommendations[2]
         /\ Recommended("volt") = request.report.recommendations[3]
<1>1. PICK recs : recs = request.report.recommendations
  OBVIOUS
<1>2. /\ DOMAIN recs = 1 .. 3 /\ recs[1].parameter = "fan"
      /\ recs[2].parameter = "freq" /\ recs[3].parameter = "volt"
  BY <1>1 DEF Applied, Suggests
<1>3. /\ \A i \in DOMAIN recs : i = 1 \/ i = 2 \/ i = 3
      /\ 1 \in DOMAIN recs /\ 2 \in DOMAIN recs /\ 3 \in DOMAIN recs
  BY <1>2
<1>4. (CHOOSE i \in DOMAIN recs : recs[i].parameter = "fan") = 1
  BY <1>2, <1>3
<1>5. (CHOOSE i \in DOMAIN recs : recs[i].parameter = "freq") = 2
  BY <1>2, <1>3
<1>6. (CHOOSE i \in DOMAIN recs : recs[i].parameter = "volt") = 3
  BY <1>2, <1>3
<1> QED BY <1>1, <1>4, <1>5, <1>6 DEF Recommended

LEMMA CriticalHeatFollows == IInv => CriticalHeatCoolsDown
<1> SUFFICES ASSUME IInv, Reported, NEW k \in request.covered,
                    Rules!Alert("overheat", "critical") \in Rules!Evaluate(Event(k))
             PROVE  /\ Recommended("fan").suggested.amount > 0
                    /\ Recommended("freq").suggested.amount < 0
                    /\ Recommended("volt").suggested.amount < 0
  BY DEF CriticalHeatCoolsDown
<1>1. k \in Kinds /\ \E i \in DOMAIN request.series :
                        request.series[i].maxTemp >= k.temp * Unit
  BY DEF IInv, ReportInv, Reported, Covers
<1>2. PICK i \in DOMAIN request.series : request.series[i].maxTemp >= k.temp * Unit
  BY <1>1
<1>3. request.series[i].maxTemp \in Int
  <2>1. request.series \in Seq(Points)
    BY DEF IInv, TypeOK, Reported
  <2>2. request.series[i] \in Points
    BY <2>1
  <2> QED BY <2>2 DEF Points
<1>4. k.temp \in Int /\ k.temp >= 95
  BY <1>1, KindsAssumption, CriticalOverheat
<1>5. request.series[i].maxTemp >= 95 * Unit
  BY <1>2, <1>3, <1>4 DEF Unit
<1>6. Applied(request.report, 1200, -600, -1500)
  BY <1>5, ReportFacts DEF Outcome
<1>7. /\ Recommended("fan").suggested = Setting("fan", 1200)
      /\ Recommended("freq").suggested = Setting("freq", -600)
      /\ Recommended("volt").suggested = Setting("volt", -1500)
  <2>1. PICK fan \in Int, freq \in Int, volt \in Int :
          fan = 1200 /\ freq = -600 /\ volt = -1500
    OBVIOUS
  <2>2. Applied(request.report, fan, freq, volt)
    BY <1>6, <2>1
  <2>3. /\ Recommended("fan").suggested = Setting("fan", fan)
        /\ Recommended("freq").suggested = Setting("freq", freq)
        /\ Recommended("volt").suggested = Setting("volt", volt)
    BY <2>2, RecommendedFacts DEF Applied, Suggests
  <2> QED BY <2>1, <2>3
<1> QED BY <1>7 DEF Setting

(* The three outcomes are estimated to cool, and lie within the limits. *)
LEMMA CoolEstimate ==
  ASSUME NEW temp \in Int, NEW fan, NEW freq, NEW volt,
         \/ fan = 1200 /\ freq = -600 /\ volt = -1500
         \/ fan = 500 /\ freq = -300 /\ volt = 1000
         \/ fan = 500 /\ freq = -300 /\ volt = 0
         \/ fan = 0 /\ freq = 0 /\ volt = 0
  PROVE  \/ Estimate(temp, fan, freq, volt) - temp <= 0
         \/ Estimate(temp, fan, freq, volt) = ColdestEstimate
<1>1. (14 * 1200) \div 100 = 168 /\ (14 * 500) \div 100 = 70 /\ (14 * 0) \div 100 = 0
  OBVIOUS
<1>2. (9 * (-600)) \div 100 = -54
  OBVIOUS
<1>3. (9 * (-300)) \div 100 = -27 /\ (9 * 0) \div 100 = 0
  OBVIOUS
<1>4. 1000 \div 70 = 14 /\ 0 \div 70 = 0
  OBVIOUS
<1>5. \A v \in Int : v <= 0 => v \div 70 \in Int /\ v \div 70 <= 0
  OBVIOUS
<1>6. PICK drop \in Int, heat \in Int, rise \in Int :
        /\ drop = (14 * fan) \div 100 /\ heat = (9 * freq) \div 100
        /\ rise = volt \div 70
        /\ \/ drop = 168 /\ heat = -54 /\ rise <= 0
           \/ drop = 70 /\ heat = -27 /\ rise <= 14
           \/ drop = 0 /\ heat = 0 /\ rise = 0
  BY <1>1, <1>2, <1>3, <1>4, <1>5
<1>7. PICK raw \in Int :
        /\ Estimate(temp, fan, freq, volt) = AtLeast(raw, ColdestEstimate)
        /\ raw - temp <= 0
  BY <1>6 DEF Estimate
<1> QED BY <1>7 DEF AtLeast

LEMMA AdjustmentsFollow == IInv => AdjustmentsAreSafeAndExplained
<1> SUFFICES ASSUME IInv, Reported PROVE AdjustmentsAreSafeAndExplained
  BY DEF AdjustmentsAreSafeAndExplained
<1>1. PICK fan \in Int, freq \in Int, volt \in Int :
        /\ Applied(request.report, fan, freq, volt)
        /\ \/ fan = 1200 /\ freq = -600 /\ volt = -1500
           \/ fan = 500 /\ freq = -300 /\ volt = 1000
           \/ fan = 500 /\ freq = -300 /\ volt = 0
           \/ fan = 0 /\ freq = 0 /\ volt = 0
  <2>1. PICK report : report = request.report
    OBVIOUS
  <2>2. Outcome(request.series, report)
    BY <2>1, ReportFacts
  <2>3. \/ Applied(report, 1200, -600, -1500)
        \/ Applied(report, 500, -300, 1000)
        \/ Applied(report, 500, -300, 0)
        \/ Applied(report, 0, 0, 0)
    BY <2>2 DEF Outcome
  <2>4. 1200 \in Int /\ -600 \in Int /\ -1500 \in Int /\ 500 \in Int /\ -300 \in Int
        /\ 1000 \in Int /\ 0 \in Int
    OBVIOUS
  <2> QED BY <2>1, <2>3, <2>4
<1>2. PICK recs : recs = request.report.recommendations
  OBVIOUS
<1>3. /\ Suggests(recs, fan, freq, volt)
      /\ Recommended("fan") = recs[1] /\ Recommended("freq") = recs[2]
      /\ Recommended("volt") = recs[3]
  BY <1>1, <1>2, RecommendedFacts DEF Applied
<1>4. \/ request.report.impact.delta.temp <= 0
      \/ request.report.impact.after.temp = ColdestEstimate
  <2>1. PICK temp \in Int : temp = request.report.features.temp
    BY ReportFacts DEF Outcome
  <2>2. \/ Estimate(temp, fan, freq, volt) - temp <= 0
        \/ Estimate(temp, fan, freq, volt) = ColdestEstimate
    BY <1>1, CoolEstimate
  <2> QED BY <1>1, <2>1, <2>2 DEF Applied
<1>5. \A p \in Parameters : Recommended(p).parameter = p
  BY <1>3 DEF Suggests, Parameters
<1>6. \A i \in DOMAIN recs :
        /\ recs[i].suggested.unit = SafeUnit(recs[i].parameter)
        /\ recs[i].suggested.amount \in SafeRange(recs[i].parameter).low
                                          .. SafeRange(recs[i].parameter).high
  <2>1. \A p, a : Setting(p, a).unit = SafeUnit(p) /\ Setting(p, a).amount = a
    BY DEF Setting
  <2>2. /\ fan \in SafeRange("fan").low .. SafeRange("fan").high
        /\ freq \in SafeRange("freq").low .. SafeRange("freq").high
        /\ volt \in SafeRange("volt").low .. SafeRange("volt").high
    BY <1>1 DEF SafeRange, Unit
  <2>3. \A i \in DOMAIN recs : i = 1 \/ i = 2 \/ i = 3
    BY <1>3 DEF Suggests
  <2> QED BY <1>3, <2>1, <2>2, <2>3 DEF Suggests
<1>7. PICK asked : asked = RecommendActions(request.report.hotspot,
                                            request.report.hashDrop)
  OBVIOUS
<1>8. \A i \in DOMAIN recs :
        \/ recs[i].suggested = asked[i].suggested
        \/ /\ recs[i].requested = asked[i].suggested
           /\ request.report.guardrails[i].action # "allow"
  <2>1. DOMAIN recs = 1 .. 3
    BY <1>3 DEF Suggests
  <2> QED BY <1>1, <1>2, <1>7, <2>1 DEF Applied
<1> QED BY <1>2, <1>4, <1>5, <1>6, <1>7, <1>8 DEF AdjustmentsAreSafeAndExplained
-----------------------------------------------------------------------------
LEMMA IInvHolds == Spec => []IInv
BY InitIInv, NextIInv, PTL DEF Spec

(* Types: what is stored is readings of the miner, and every series that    *)
(* is read or answered for is a sequence of points.                        *)
THEOREM TypeCorrect == Spec => []TypeOK
<1>1. IInv => TypeOK
  BY DEF IInv
<1> QED BY <1>1, IInvHolds, PTL

(* However far behind the aggregate is, and whatever arrives between the    *)
(* two statements, "insufficient telemetry data" (anomaly_handler.go       *)
(* computeMinerReport) means that the window held nothing when it was read. *)
THEOREM InsufficientMeansNoDataHolds == Spec => []InsufficientMeansNoData
<1>1. IInv => InsufficientMeansNoData
  BY DEF IInv
<1> QED BY <1>1, IInvHolds, PTL

(* For every model, and any number of readings in any number of buckets:    *)
(* a reading that alone raises a critical overheat alert (rules.go) makes   *)
(* the report ask for more fan, less frequency and less voltage            *)
(* (analyzer.go), however many cool readings it is averaged with.          *)
THEOREM CriticalHeatCoolsDownHolds == Spec => []CriticalHeatCoolsDown
<1>1. IInv => CriticalHeatCoolsDown
  BY CriticalHeatFollows
<1> QED BY <1>1, IInvHolds, PTL

(* Whatever the readings: an adjustment for each parameter, in its unit and *)
(* within its limits (analyzer.go applyGuardrails), every intervention of a *)
(* guardrail explained, and an estimate that is not hotter than before or   *)
(* is the floor of -20 degrees, to which a colder miner is estimated to     *)
(* rise.                                                                    *)
THEOREM AdjustmentsAreSafeAndExplainedHolds ==
  Spec => []AdjustmentsAreSafeAndExplained
<1>1. IInv => AdjustmentsAreSafeAndExplained
  BY AdjustmentsFollow
<1> QED BY <1>1, IInvHolds, PTL

(* What the log of changes assumes of the reports it is given              *)
(* (ReportsAssumption of RecommendationChanges), of any report.            *)
Complete(recs) ==
  /\ \A p \in Parameters : \E i \in DOMAIN recs : recs[i].parameter = p
  /\ \A i \in DOMAIN recs : recs[i].suggested.unit \in {"%", "mV"}

(* The analysis of any series recommends an adjustment for each parameter, *)
(* in percent or millivolts: a change made of its report can be inverted   *)
(* (storage/postgres.go invertRecommendations).                            *)
THEOREM ReportsAreComplete ==
  Spec => [](Reported => Complete(request.report.recommendations))
<1>1. ASSUME IInv, Reported
      PROVE  Complete(request.report.recommendations)
  <2>1. PICK fan \in Int, freq \in Int, volt \in Int :
          Applied(request.report, fan, freq, volt)
    BY <1>1, ReportFacts DEF Outcome
  <2>2. PICK recs : recs = request.report.recommendations
    OBVIOUS
  <2>3. Suggests(recs, fan, freq, volt)
    BY <2>1, <2>2 DEF Applied
  <2>4. 1 \in DOMAIN recs /\ 2 \in DOMAIN recs /\ 3 \in DOMAIN recs
    BY <2>3 DEF Suggests
  <2>5. \A i \in DOMAIN recs : i = 1 \/ i = 2 \/ i = 3
    BY <2>3 DEF Suggests
  <2>6. \A p \in Parameters : \E i \in DOMAIN recs : recs[i].parameter = p
    BY <2>3, <2>4 DEF Suggests, Parameters
  <2>7. \A p, a : Setting(p, a).unit \in {"%", "mV"}
    BY DEF Setting, SafeUnit
  <2>8. \A i \in DOMAIN recs : recs[i].suggested.unit \in {"%", "mV"}
    BY <2>3, <2>5, <2>7 DEF Suggests
  <2> QED BY <2>2, <2>6, <2>8 DEF Complete
<1> QED BY <1>1, IInvHolds, PTL
-----------------------------------------------------------------------------
(* Daily reports: the calendar. *)

\* The local time of instant t.
Local(t) == t + OffsetAt(t)

\* The hour the zone skips, if any.
Skipped(wall) == zone.after = zone.before + 1 /\ wall = zone.at + zone.before

LEMMA ZoneFacts ==
    ASSUME zone \in Zone
    PROVE  /\ zone.at \in Int
           /\ zone.before \in -12 .. 14
           /\ zone.after \in -12 .. 14
           /\ zone.after - zone.before \in -1 .. 1
BY ZoneAssumption

LEMMA OffsetFacts ==
    ASSUME zone \in Zone, NEW t \in Int
    PROVE  /\ OffsetAt(t) \in Int
           /\ Local(t) \in Int
           /\ t < zone.at => OffsetAt(t) = zone.before
           /\ t >= zone.at => OffsetAt(t) = zone.after
BY ZoneFacts DEF OffsetAt, Local

LEMMA DayBounds ==
    ASSUME NEW n \in Int
    PROVE  /\ n \div 24 \in Int
           /\ 24 * (n \div 24) <= n
           /\ n < 24 * (n \div 24) + 24
OBVIOUS

LEMMA DayUnique ==
    ASSUME NEW n \in Int, NEW d \in Int, 24 * d <= n, n < 24 * d + 24
    PROVE  n \div 24 = d
OBVIOUS

\* Local time never goes back by more than the clock goes on, nor forward by
\* more than an hour beyond it.
LEMMA LocalSlope ==
    ASSUME zone \in Zone, NEW s \in Int, NEW t \in Int, s < t
    PROVE  /\ Local(t) - Local(s) >= t - s - 1
           /\ Local(t) - Local(s) <= t - s + 1
           /\ zone.after = zone.before + 1 => Local(t) - Local(s) >= t - s
           /\ s >= zone.at => Local(t) - Local(s) = t - s
           /\ t < zone.at => Local(t) - Local(s) = t - s
<1>1. CASE s >= zone.at
    BY <1>1, ZoneFacts DEF Local, OffsetAt
<1>2. CASE s < zone.at /\ t >= zone.at
    BY <1>2, ZoneFacts DEF Local, OffsetAt
<1>3. CASE s < zone.at /\ t < zone.at
    BY <1>3, ZoneFacts DEF Local, OffsetAt
<1> QED
    BY <1>1, <1>2, <1>3, ZoneFacts

LEMMA DateLocal ==
    ASSUME zone \in Zone, NEW day \in Int, NEW hour \in Int
    PROVE  /\ Date(day, hour) \in Int
           /\ \/ Local(Date(day, hour)) = 24 * day + hour
              \/ /\ Skipped(24 * day + hour)
                 /\ \/ /\ Local(Date(day, hour)) = 24 * day + hour + 1
                       /\ Date(day, hour) >= zone.at
                    \/ /\ Local(Date(day, hour)) = 24 * day + hour - 1
                       /\ Date(day, hour) < zone.at
<1> DEFINE wall == 24 * day + hour
           first == wall - OffsetAt(wall)
           second == wall - OffsetAt(first)
<1>1. wall \in Int /\ first \in Int /\ second \in Int
    BY OffsetFacts
<1>2. \/ Date(day, hour) = first /\ (OffsetAt(wall) = 0 \/ (first < zone.at) = (wall < zone.at))
      \/ Date(day, hour) = second /\ OffsetAt(wall) # 0 /\ (first < zone.at) # (wall < zone.at)
    BY <1>1 DEF Date
<1> HIDE DEF wall
<1>3. CASE Date(day, hour) = first /\ (OffsetAt(wall) = 0 \/ (first < zone.at) = (wall < zone.at))
    <2>1. Local(first) = wall
        BY <1>1, <1>3, ZoneFacts DEF Local, OffsetAt
    <2> QED
        BY <1>1, <1>3, <2>1 DEF wall
<1>4. CASE Date(day, hour) = second /\ OffsetAt(wall) # 0 /\ (first < zone.at) # (wall < zone.at)
    <2>1. CASE wall < zone.at
        <3>1. first = wall - zone.before /\ first >= zone.at /\ second = wall - zone.after
            BY <1>1, <1>4, <2>1, ZoneFacts DEF OffsetAt
        <3>2. CASE second < zone.at
            <4>1. Local(second) = wall - 1 /\ zone.after = zone.before + 1 /\ wall = zone.at + zone.before
                BY <1>1, <2>1, <3>1, <3>2, ZoneFacts DEF Local, OffsetAt
            <4> QED
                BY <1>1, <1>4, <3>2, <4>1 DEF Skipped, wall
        <3>3. CASE second >= zone.at
            <4>1. Local(second) = wall
                BY <1>1, <3>1, <3>3, ZoneFacts DEF Local, OffsetAt
            <4> QED
                BY <1>1, <1>4, <4>1 DEF wall
        <3> QED
            BY <1>1, <3>2, <3>3, ZoneFacts
    <2>2. CASE wall >= zone.at
        <3>1. first = wall - zone.after /\ first < zone.at /\ second = wall - zone.before
            BY <1>1, <1>4, <2>2, ZoneFacts DEF OffsetAt
        <3>2. CASE second >= zone.at
            <4>1. Local(second) = wall + 1 /\ zone.after = zone.before + 1 /\ wall = zone.at + zone.before
                BY <1>1, <2>2, <3>1, <3>2, ZoneFacts DEF Local, OffsetAt
            <4> QED
                BY <1>1, <1>4, <3>2, <4>1 DEF Skipped, wall
        <3>3. CASE second < zone.at
            <4>1. Local(second) = wall
                BY <1>1, <3>1, <3>3, ZoneFacts DEF Local, OffsetAt
            <4> QED
                BY <1>1, <1>4, <4>1 DEF wall
        <3> QED
            BY <1>1, <3>2, <3>3, ZoneFacts
    <2> QED
        BY <1>1, <2>1, <2>2, ZoneFacts
<1> QED
    BY <1>2, <1>3, <1>4

\* An instant is on the day its local time falls in.
LEMMA DayOfFacts ==
    ASSUME zone \in Zone, NEW t \in Int
    PROVE  /\ DayOf(t) \in Int
           /\ Local(t) \in Int
           /\ 24 * DayOf(t) <= Local(t)
           /\ Local(t) < 24 * DayOf(t) + 24
<1>1. Local(t) \in Int
    BY OffsetFacts
<1> QED
    BY <1>1, DayBounds DEF DayOf, Local

LEMMA DayOfIs ==
    ASSUME zone \in Zone, NEW t \in Int, NEW d \in Int,
           24 * d <= Local(t), Local(t) < 24 * d + 24
    PROVE  DayOf(t) = d
<1>1. Local(t) \in Int
    BY OffsetFacts
<1> QED
    BY <1>1, DayUnique DEF DayOf, Local

LEMMA DayOfMonotone ==
    ASSUME zone \in Zone, NEW s \in Int, NEW t \in Int, s <= t
    PROVE  DayOf(s) <= DayOf(t)
<1>1. Local(s) \in Int /\ Local(t) \in Int
    BY OffsetFacts
<1>2. Local(s) <= Local(t)
    <2>1. CASE s < t
        BY <1>1, <2>1, LocalSlope
    <2>2. CASE s = t
        BY <1>1, <2>2
    <2> QED
        BY <2>1, <2>2
<1> QED
    BY <1>1, <1>2, DayOfFacts

\* Where the midnight of a day is: a zone that skips it has it an hour off.
LEMMA Midnight ==
    ASSUME zone \in Zone, NEW d \in Int
    PROVE  /\ Date(d, 0) \in Int
           /\ Local(Date(d, 0)) \in {24 * d - 1, 24 * d, 24 * d + 1}
           /\ Local(Date(d, 0)) # 24 * d => Skipped(24 * d)
           /\ DayOf(Date(d, 0)) \in {d - 1, d}
           /\ Local(Date(d, 0)) >= 24 * d => DayOf(Date(d, 0)) = d
<1> DEFINE m == Date(d, 0)
<1>1. /\ m \in Int
      /\ \/ Local(m) = 24 * d + 0
         \/ Skipped(24 * d + 0) /\ Local(m) = 24 * d + 0 + 1
         \/ Skipped(24 * d + 0) /\ Local(m) = 24 * d + 0 - 1
    BY DateLocal
<1> HIDE DEF m
<1>2. 24 * d + 0 = 24 * d
    OBVIOUS
<1>3. /\ Local(m) \in {24 * d - 1, 24 * d, 24 * d + 1}
      /\ Local(m) # 24 * d => Skipped(24 * d)
    BY <1>1, <1>2
<1>4. Local(m) >= 24 * d => DayOf(m) = d
    <2>1. Local(m) >= 24 * d => 24 * d <= Local(m) /\ Local(m) < 24 * d + 24
        BY <1>3
    <2> QED
        BY <1>1, <2>1, DayOfIs
<1>5. DayOf(m) = d \/ DayOf(m) = d - 1
    <2>1. CASE Local(m) = 24 * d - 1
        <3> DEFINE c == d - 1
        <3>1. c \in Int /\ 24 * c <= Local(m) /\ Local(m) < 24 * c + 24
            BY <2>1
        <3> HIDE DEF c
        <3>2. DayOf(m) = c
            BY <1>1, <3>1, DayOfIs
        <3> QED
            BY <3>2 DEF c
    <2>2. CASE Local(m) # 24 * d - 1
        BY <1>3, <1>4, <2>2
    <2> QED
        BY <2>1, <2>2
<1> QED
    BY <1>1, <1>3, <1>4, <1>5 DEF m

\* A local day lasts 25 hours at most.
LEMMA DayLength ==
    ASSUME zone \in Zone, NEW c \in Int, NEW d \in Int, d = c + 1
    PROVE  Date(d, 0) <= Date(c, 0) + 25
<1> DEFINE m == Date(d, 0)
           n == Date(c, 0)
<1>1. /\ m \in Int /\ Local(m) \in {24 * d - 1, 24 * d, 24 * d + 1}
      /\ Local(m) # 24 * d => Skipped(24 * d)
    BY Midnight
<1>2. /\ n \in Int /\ Local(n) \in {24 * c - 1, 24 * c, 24 * c + 1}
      /\ Local(n) # 24 * c => Skipped(24 * c)
    BY Midnight
<1> HIDE DEF m, n
<1>3. 24 * d = 24 * c + 24
    OBVIOUS
<1>4. ASSUME n < m
      PROVE  m <= n + 25
    <2>1. /\ Local(m) - Local(n) >= m - n - 1
          /\ zone.after = zone.before + 1 => Local(m) - Local(n) >= m - n
        BY <1>1, <1>2, <1>4, LocalSlope
    <2>2. CASE Local(m) = 24 * d /\ Local(n) = 24 * c
        BY <1>1, <1>2, <1>3, <2>1, <2>2
    <2>3. CASE Local(m) # 24 * d
        <3>1. zone.after = zone.before + 1 /\ 24 * d = zone.at + zone.before
            BY <1>1, <2>3 DEF Skipped
        <3>2. Local(n) = 24 * c
            BY <1>2, <1>3, <3>1 DEF Skipped
        <3> QED
            BY <1>1, <1>2, <1>3, <2>1, <3>1, <3>2
    <2>4. CASE Local(n) # 24 * c
        <3>1. zone.after = zone.before + 1 /\ 24 * c = zone.at + zone.before
            BY <1>2, <2>4 DEF Skipped
        <3>2. Local(m) = 24 * d
            BY <1>1, <1>3, <3>1 DEF Skipped
        <3> QED
            BY <1>1, <1>2, <1>3, <2>1, <3>1, <3>2
    <2> QED
        BY <2>2, <2>3, <2>4
<1> QED
    BY <1>1, <1>2, <1>4 DEF m, n

\* The day before the one of instant t, as the daemon takes it.
LEMMA PreviousDayFacts ==
    ASSUME zone \in Zone, NEW t \in Int
    PROVE  /\ PreviousDay(t) \in Int
           /\ DayOf(PreviousDay(t)) \in {DayOf(t) - 2, DayOf(t) - 1}
           /\ Ordinary(DayOf(t)) => DayOf(PreviousDay(t)) = DayOf(t) - 1
<1> DEFINE r == DayOf(t)
           m == Date(r, 0)
           q == r - 1
<1>1. r \in Int /\ q \in Int
    BY DayOfFacts
<1> HIDE DEF r, q
<1>2. /\ m \in Int
      /\ Local(m) \in {24 * r - 1, 24 * r, 24 * r + 1}
      /\ Local(m) # 24 * r => Skipped(24 * r)
    BY <1>1, Midnight
<1>3. Ordinary(r) => DayOf(m) = r /\ DayOf(Date(q, 0)) = q
    BY DEF Ordinary, OnDay, q
<1>4. PreviousDay(t) = Date(DayOf(m) + -1, Local(m) % 24)
    BY DEF PreviousDay, AddDays, Local, r
<1> HIDE DEF m
<1>5. 24 * q = 24 * r - 24 /\ r = q + 1
    BY <1>1 DEF q
<1>6. CASE Local(m) = 24 * r
    <2>1. DayOf(m) = r /\ Local(m) % 24 = 0
        <3>1. Local(m) % 24 = 0 /\ 24 * r <= Local(m) /\ Local(m) < 24 * r + 24
            BY <1>1, <1>6
        <3> QED
            BY <1>1, <1>2, <3>1, DayOfIs
    <2>2. PreviousDay(t) = Date(q, 0)
        BY <1>1, <1>4, <1>5, <2>1
    <2>3. Date(q, 0) \in Int /\ DayOf(Date(q, 0)) \in {q - 1, q}
        BY <1>1, Midnight
    <2> QED
        BY <1>1, <1>3, <1>5, <2>2, <2>3 DEF r
<1>7. CASE Local(m) = 24 * r + 1
    <2>1. DayOf(m) = r /\ Local(m) % 24 = 1
        <3>1. Local(m) % 24 = 1 /\ 24 * r <= Local(m) /\ Local(m) < 24 * r + 24
            BY <1>1, <1>7
        <3> QED
            BY <1>1, <1>2, <3>1, DayOfIs
    <2>2. PreviousDay(t) = Date(q, 1)
        BY <1>1, <1>4, <1>5, <2>1
    <2>3. Date(q, 1) \in Int /\ Local(Date(q, 1)) \in {24 * q, 24 * q + 1, 24 * q + 2}
        BY <1>1, DateLocal
    <2>4. DayOf(Date(q, 1)) = q
        <3>1. 24 * q <= Local(Date(q, 1)) /\ Local(Date(q, 1)) < 24 * q + 24
            BY <1>1, <2>3
        <3> QED
            BY <1>1, <2>3, <3>1, DayOfIs
    <2> QED
        BY <1>1, <1>5, <2>2, <2>3, <2>4 DEF r
<1>8. CASE Local(m) = 24 * r - 1
    <2> DEFINE p == q - 1
    <2>1. p \in Int /\ 24 * p = 24 * r - 48 /\ p = r - 2
        BY <1>1, <1>5
    <2> HIDE DEF p
    <2>2. DayOf(m) = q /\ Local(m) % 24 = 23
        <3>1. Local(m) % 24 = 23 /\ 24 * q <= Local(m) /\ Local(m) < 24 * q + 24
            BY <1>1, <1>5, <1>8
        <3> QED
            BY <1>1, <1>2, <3>1, DayOfIs
    <2>3. PreviousDay(t) = Date(p, 23)
        BY <1>1, <1>4, <1>5, <2>1, <2>2
    <2>4. Skipped(24 * r)
        BY <1>1, <1>2, <1>8
    <2>5. ~Skipped(24 * p + 23)
        BY <1>1, <2>1, <2>4 DEF Skipped
    <2>6. Date(p, 23) \in Int /\ Local(Date(p, 23)) = 24 * p + 23
        BY <2>1, <2>5, DateLocal
    <2>7. DayOf(Date(p, 23)) = p
        <3>1. 24 * p <= Local(Date(p, 23)) /\ Local(Date(p, 23)) < 24 * p + 24
            BY <2>1, <2>6
        <3> QED
            BY <2>1, <2>6, <3>1, DayOfIs
    <2>8. ~Ordinary(r)
        BY <1>1, <1>3, <1>5, <2>2
    <2> QED
        BY <2>1, <2>3, <2>6, <2>7, <2>8 DEF r
<1> QED
    BY <1>2, <1>6, <1>7, <1>8

\* A day is over as soon as another has begun.
LEMMA OverFacts ==
    ASSUME zone \in Zone, NEW t \in Int, NEW c \in Int, c < DayOf(t)
    PROVE  Over(c, t)
<1> DEFINE d == c + 1
           m == Date(d, 0)
           n == Date(c, 0)
<1>1. d \in Int /\ 24 * d = 24 * c + 24
    OBVIOUS
<1> HIDE DEF d
<1>2. /\ m \in Int /\ Local(m) \in {24 * d - 1, 24 * d, 24 * d + 1}
      /\ Local(m) # 24 * d => Skipped(24 * d)
    BY <1>1, Midnight
<1>3. /\ n \in Int /\ Local(n) \in {24 * c - 1, 24 * c, 24 * c + 1}
      /\ Local(n) # 24 * c => Skipped(24 * c)
    BY Midnight
<1> HIDE DEF m, n
<1>4. Local(t) \in Int /\ Local(t) >= 24 * d
    <2>1. DayOf(t) \in Int /\ 24 * DayOf(t) <= Local(t) /\ Local(t) \in Int
        BY DayOfFacts
    <2> QED
        BY <1>1, <2>1
<1>5. ASSUME t < m
      PROVE  n + 24 <= t
    <2>1. /\ Local(m) - Local(t) >= m - t - 1
          /\ zone.after = zone.before + 1 => Local(m) - Local(t) >= m - t
          /\ t >= zone.at => Local(m) - Local(t) = m - t
          /\ m < zone.at => Local(m) - Local(t) = m - t
        BY <1>2, <1>5, LocalSlope
    <2>2. zone.after # zone.before + 1
        <3> SUFFICES ASSUME zone.after = zone.before + 1
                     PROVE  FALSE
            OBVIOUS
        <3>1. Local(m) = 24 * d + 1 /\ Local(t) = 24 * d
            BY <1>1, <1>2, <1>4, <1>5, <2>1
        <3>2. 24 * d = zone.at + zone.before
            BY <1>1, <1>2, <3>1 DEF Skipped
        <3> QED
            BY <3>1, <3>2, ZoneFacts DEF Local, OffsetAt
    <2>3. Local(m) = 24 * d /\ Local(n) = 24 * c
        BY <1>2, <1>3, <2>2 DEF Skipped
    <2>4. t < zone.at /\ Local(t) = 24 * d
        BY <1>1, <1>2, <1>4, <1>5, <2>1, <2>3, ZoneFacts
    <2>5. n < t
        <3>1. CASE n = t
            BY <1>1, <2>3, <2>4, <3>1
        <3>2. CASE t < n
            <4>1. Local(n) - Local(t) >= n - t - 1
                BY <1>3, <3>2, LocalSlope
            <4> QED
                BY <1>1, <1>3, <2>3, <2>4, <3>2, <4>1
        <3> QED
            BY <1>3, <3>1, <3>2
    <2>6. Local(t) - Local(n) = t - n
        BY <1>3, <2>4, <2>5, LocalSlope
    <2> QED
        BY <1>1, <1>3, <2>3, <2>4, <2>6
<1>6. m <= t \/ n + 24 <= t
    BY <1>2, <1>5
<1> QED
    BY <1>6 DEF Over, m, n, d

\* What 24 hours are in local time.
LEMMA TimerSlope ==
    ASSUME zone \in Zone, NEW s \in Int, NEW t \in Int, t = s + 24
    PROVE  /\ 23 <= Local(t) - Local(s)
           /\ Local(t) - Local(s) <= 25
           /\ zone.after = zone.before + 1 => 24 <= Local(t) - Local(s)
           /\ s >= zone.at => Local(t) - Local(s) = 24
           /\ t < zone.at => Local(t) - Local(s) = 24
<1>1. s < t /\ t - s = 24
    OBVIOUS
<1>2. Local(s) \in Int /\ Local(t) \in Int
    BY OffsetFacts
<1>3. /\ Local(t) - Local(s) >= t - s - 1
      /\ Local(t) - Local(s) <= t - s + 1
      /\ zone.after = zone.before + 1 => Local(t) - Local(s) >= t - s
      /\ s >= zone.at => Local(t) - Local(s) = t - s
      /\ t < zone.at => Local(t) - Local(s) = t - s
    BY <1>1, LocalSlope
<1> QED
    BY <1>1, <1>2, <1>3

\* The timer is set to an instant that has not passed.  It leaves out a day only
\* if the calendar moves that day's run to another or its hour has passed, and
\* on an ordinary day it waits for the day's run to be due.
LEMMA NextRun ==
    ASSUME zone \in Zone, schedule \in ScheduleHour, NEW t \in Int
    PROVE  /\ NextRunAt(t) \in Int
           /\ t <= NextRunAt(t)
           /\ DayOf(NextRunAt(t)) \in Int
           /\ DayOf(t) <= DayOf(NextRunAt(t))
           /\ \A k \in Int : DayOf(t) < k /\ k < DayOf(NextRunAt(t)) => ~Ordinary(k)
           /\ DayOf(t) < DayOf(NextRunAt(t)) /\ Ordinary(DayOf(t)) => Date(DayOf(t), schedule) <= t
           /\ Ordinary(DayOf(NextRunAt(t))) => Due(DayOf(NextRunAt(t)), NextRunAt(t))
<1> DEFINE e == DayOf(t)
           candidate == Date(e, schedule)
           later == candidate + 24
           f == e + 1
<1>1. schedule \in Int /\ 0 <= schedule /\ schedule <= 23
    BY ScheduleAssumption
<1>2. /\ e \in Int /\ 24 * e <= Local(t) /\ Local(t) < 24 * e + 24 /\ Local(t) \in Int
      /\ f \in Int
    BY DayOfFacts
<1>3. \A k \in Int : Ordinary(k) => /\ DayOf(Date(k, schedule)) = k
                                    /\ DayOf(Date(k - 1, schedule)) = k - 1
                                    /\ DayOf(Date(k - 1, schedule) + 24) = k
    BY DEF Ordinary, OnDay
<1>4. /\ Ordinary(e) => DayOf(candidate) = e
      /\ Ordinary(f) => DayOf(candidate) = e /\ DayOf(later) = f
    <2>1. f - 1 = e
        BY <1>2
    <2> HIDE DEF e, f
    <2>2. Ordinary(e) => DayOf(candidate) = e
        BY <1>2, <1>3
    <2>3. Ordinary(f) => DayOf(Date(f - 1, schedule)) = f - 1 /\ DayOf(Date(f - 1, schedule) + 24) = f
        BY <1>2, <1>3
    <2> QED
        BY <2>1, <2>2, <2>3
<1> HIDE DEF e
<1>5. /\ candidate \in Int
      /\ \/ Local(candidate) = 24 * e + schedule
         \/ /\ zone.after = zone.before + 1
            /\ \/ Local(candidate) = 24 * e + schedule + 1 /\ candidate >= zone.at
               \/ Local(candidate) = 24 * e + schedule - 1 /\ candidate < zone.at
    BY <1>1, <1>2, DateLocal DEF Skipped
<1> HIDE DEF candidate
<1>6. later \in Int /\ Local(candidate) \in Int /\ Local(later) \in Int
    BY <1>5, OffsetFacts
<1>7. /\ 23 <= Local(later) - Local(candidate)
      /\ Local(later) - Local(candidate) <= 25
      /\ zone.after = zone.before + 1 => 24 <= Local(later) - Local(candidate)
      /\ candidate >= zone.at => Local(later) - Local(candidate) = 24
      /\ later < zone.at => Local(later) - Local(candidate) = 24
    <2>1. later = candidate + 24
        OBVIOUS
    <2> HIDE DEF later
    <2> QED
        BY <1>5, <1>6, <2>1, TimerSlope
<1>8. t <= later
    <2> SUFFICES ASSUME later < t
                 PROVE  FALSE
        BY <1>6
    <2>1. /\ Local(t) - Local(later) >= t - later - 1
          /\ zone.after = zone.before + 1 => Local(t) - Local(later) >= t - later
          /\ later >= zone.at => Local(t) - Local(later) = t - later
          /\ t < zone.at => Local(t) - Local(later) = t - later
        BY <1>6, LocalSlope
    <2> HIDE DEF later
    <2>2. CASE Local(candidate) = 24 * e + schedule
        <3>1. later < zone.at \/ later >= zone.at
            BY <1>6, ZoneFacts
        <3>2. CASE later >= zone.at
            BY <1>1, <1>2, <1>6, <1>7, <2>1, <2>2, <3>2
        <3>3. CASE later < zone.at
            BY <1>1, <1>2, <1>6, <1>7, <2>1, <2>2, <3>3
        <3> QED
            BY <3>1, <3>2, <3>3
    <2>3. CASE Local(candidate) # 24 * e + schedule
        <3>1. zone.after = zone.before + 1
            BY <1>5, <2>3
        <3>2. Local(t) - Local(later) >= t - later /\ 24 <= Local(later) - Local(candidate)
            BY <1>7, <2>1, <3>1
        <3>3. Local(candidate) >= 24 * e - 1
            BY <1>1, <1>2, <1>5, <1>6
        <3> QED
            BY <1>2, <1>6, <3>2, <3>3
    <2> QED
        BY <2>2, <2>3
<1>9. Local(candidate) <= 24 * e + 24 /\ Local(later) <= 24 * e + 48
    <2> HIDE DEF later
    <2> QED
        BY <1>1, <1>2, <1>5, <1>6, <1>7
<1>10. /\ DayOf(candidate) \in Int /\ DayOf(candidate) <= e + 1
       /\ DayOf(later) \in Int /\ DayOf(later) <= e + 2
    <2>1. /\ DayOf(candidate) \in Int /\ 24 * DayOf(candidate) <= Local(candidate)
          /\ DayOf(later) \in Int /\ 24 * DayOf(later) <= Local(later)
        BY <1>5, <1>6, DayOfFacts
    <2> HIDE DEF later
    <2> QED
        BY <1>2, <1>6, <1>9, <2>1
<1>11. /\ NextRunAt(t) = IF candidate > t THEN candidate ELSE later
    BY DEF NextRunAt, candidate, e
<1>12. f - 1 = e /\ later = candidate + 24
    BY <1>2
<1>13. \A q \in Int : q = e \/ q = f => (Due(q, later) \/ candidate > later)
    BY <1>2, <1>5, <1>12 DEF Due, candidate
<1> HIDE DEF later, f
<1>14. CASE candidate > t
    <2>1. NextRunAt(t) = candidate
        BY <1>11, <1>14
    <2>2. e <= DayOf(candidate)
        BY <1>5, <1>14, DayOfMonotone DEF e
    <2>3. \A k \in Int : e < k /\ k < DayOf(candidate) => ~Ordinary(k)
        BY <1>2, <1>10
    <2>4. ~(e < DayOf(candidate) /\ Ordinary(e))
        BY <1>4, <1>2
    <2>5. Ordinary(DayOf(candidate)) => Due(DayOf(candidate), candidate)
        <3>1. CASE DayOf(candidate) = e
            <4>1. Due(e, candidate)
                BY <1>5 DEF Due, candidate
            <4> QED
                BY <3>1, <4>1
        <3>2. CASE DayOf(candidate) # e
            <4>1. DayOf(candidate) = f
                BY <1>2, <1>10, <1>12, <2>2, <3>2
            <4> QED
                BY <1>4, <3>2, <4>1
        <3> QED
            BY <3>1, <3>2
    <2> QED
        BY <1>5, <1>10, <1>14, <2>1, <2>2, <2>3, <2>4, <2>5 DEF e
<1>15. CASE ~(candidate > t)
    <2>1. NextRunAt(t) = later
        BY <1>11, <1>15
    <2>2. e <= DayOf(later)
        BY <1>6, <1>8, DayOfMonotone DEF e
    <2>3. ASSUME NEW k \in Int, e < k, k < DayOf(later)
          PROVE  ~Ordinary(k)
        <3>1. k = f
            BY <1>2, <1>10, <1>12, <2>3
        <3> QED
            BY <1>4, <2>3, <3>1
    <2>4. candidate <= t
        BY <1>5, <1>15
    <2>5. Ordinary(DayOf(later)) => Due(DayOf(later), later)
        <3>1. CASE DayOf(later) = e \/ DayOf(later) = f
            BY <1>2, <1>5, <1>10, <1>12, <1>13, <3>1
        <3>2. CASE DayOf(later) # e /\ DayOf(later) # f
            <4> DEFINE g == e + 2
            <4>1. g \in Int /\ DayOf(later) = g /\ g - 1 = f
                BY <1>2, <1>10, <1>12, <2>2, <3>2
            <4>2. Ordinary(g) => DayOf(Date(g - 1 - 1, schedule) + 24) = g - 1
                BY <4>1 DEF Ordinary, OnDay
            <4>3. g - 1 - 1 = e
                BY <1>2
            <4>4. Ordinary(g) => DayOf(later) = f
                BY <1>12, <4>1, <4>2, <4>3 DEF candidate
            <4> QED
                BY <3>2, <4>1, <4>4
        <3> QED
            BY <3>1, <3>2
    <2> QED
        BY <1>6, <1>8, <1>10, <2>1, <2>2, <2>3, <2>4, <2>5 DEF e, candidate
<1> QED
    BY <1>5, <1>14, <1>15

-----------------------------------------------------------------------------
(* Daily reports: the invariant. *)

\* What a worker is generating.
Task == [stage : {"collect", "save", "write"}, date : Int, ranOn : Int, started : Int,
         whole : BOOLEAN]

DailyTypeInv ==
    /\ clock \in FirstHour .. Horizon
    /\ zone \in Zone
    /\ schedule \in ScheduleHour
    /\ up \in BOOLEAN
    /\ next \in Int
    /\ job \in [Worker -> Task \cup {Idle}]
    /\ rows \in [Days -> Report \cup {NoReport}]
    /\ since \in Int

\* A row is of the window that starts at its day's midnight.
RowsInv ==
    \A d \in Days : rows[d] # NoReport =>
        rows[d].window = [from |-> Date(d, 0), to |-> Date(d, 0) + 24]

\* A generation has begun, for a day that has a row.
WorkInv ==
    \A w \in Worker : job[w] # Idle => DayOf(job[w].date) \in Days /\ job[w].started <= clock

\* The run of day r is for the day before, unless the calendar moved something.
ForDayBefore(date, r) ==
    /\ DayOf(date) \in {r - 2, r - 1}
    /\ Ordinary(r) => DayOf(date) = r - 1

\* The run of an ordinary day r is due at instant t, unless it is the run with
\* which the daemon started.
DueUnlessFirst(r, t) == r > since /\ Ordinary(r) => Due(r, t)

\* The daemon generates the report of the day before the one it began on, which
\* is over when it collects the metrics.
DaemonInv ==
    /\ up => since - 1 \in Days
    /\ job["daemon"] # Idle =>
           /\ up
           /\ job["daemon"].ranOn = DayOf(job["daemon"].started)
           /\ ForDayBefore(job["daemon"].date, job["daemon"].ranOn)
           /\ since <= job["daemon"].ranOn
           /\ DueUnlessFirst(job["daemon"].ranOn, job["daemon"].started)
           /\ job["daemon"].stage # "collect" => job["daemon"].whole

\* The timer of a waiting daemon is set to an instant at which a run is due.
TimerInv ==
    Waiting => clock <= next /\ since <= DayOf(next) /\ DueUnlessFirst(DayOf(next), next)

\* A scheduled hour that passes during a generation finds the daemon busy.
LateInv ==
    job["daemon"] # Idle =>
        \A d \in Days :
            /\ job["daemon"].ranOn # d
            /\ job["daemon"].started < Date(d, schedule)
            /\ Date(d, schedule) <= clock
            => d \in late

\* The first day whose run the daemon has yet to save.
Done ==
    IF job["daemon"] = Idle THEN DayOf(next)
    ELSE IF job["daemon"].stage = "write" THEN job["daemon"].ranOn + 1 ELSE job["daemon"].ranOn

\* What the run of day d has left.
Served(d) ==
    /\ rows[d - 1] # NoReport
    /\ d > since => Due(d, clock) /\ (rows[d - 1].whole \/ rows[d - 1].overdue)

CoveredInv ==
    up => \A d \in Days :
        since <= d /\ d < Done /\ d \notin failed /\ d \notin late /\ Ordinary(d) => Served(d)

DailyInv ==
    /\ DailyTypeInv
    /\ RowsInv
    /\ WorkInv
    /\ DaemonInv
    /\ TimerInv
    /\ LateInv
    /\ CoveredInv

LEMMA DaysFacts ==
    ASSUME zone \in Zone, NEW t \in FirstHour .. Horizon
    PROVE  /\ t \in Int
           /\ DayOf(t) \in Int
           /\ DayOf(t) - 2 \in Days
           /\ DayOf(t) - 1 \in Days
           /\ DayOf(t) \in Days
<1>1. FirstHour \in Int /\ Horizon \in Int /\ t \in Int /\ FirstHour <= t /\ t <= Horizon
    BY BoundsAssumption
<1>2. /\ FirstHour \div 24 \in Int /\ 24 * (FirstHour \div 24) <= FirstHour
      /\ Horizon \div 24 \in Int /\ Horizon < 24 * (Horizon \div 24) + 24
    BY <1>1, DayBounds
<1>3. /\ DayOf(t) \in Int
      /\ 24 * DayOf(t) <= Local(t)
      /\ Local(t) < 24 * DayOf(t) + 24
    BY <1>1, DayOfFacts
<1>4. Local(t) \in Int /\ t - 12 <= Local(t) /\ Local(t) <= t + 14
    BY <1>1, ZoneFacts DEF Local, OffsetAt
<1>5. FirstHour \div 24 - 2 <= DayOf(t) /\ DayOf(t) <= Horizon \div 24 + 1
    BY <1>1, <1>2, <1>3, <1>4
<1> QED
    BY <1>1, <1>2, <1>3, <1>5 DEF Days

LEMMA DaysInterval ==
    ASSUME NEW a \in Days, NEW b \in Days, NEW d \in Int, a <= d, d <= b
    PROVE  d \in Days
<1>1. FirstHour \div 24 \in Int /\ Horizon \div 24 \in Int
    BY BoundsAssumption
<1> QED
    BY <1>1 DEF Days

\* The calendar does not change.
LEMMA SameCalendar ==
    ASSUME zone' = zone, schedule' = schedule
    PROVE  /\ \A d, h : Date(d, h)' = Date(d, h)
           /\ \A t : DayOf(t)' = DayOf(t)
           /\ \A d, t : Due(d, t)' <=> Due(d, t)
           /\ \A d : Ordinary(d)' <=> Ordinary(d)
<1>1. \A d, h : Date(d, h)' = Date(d, h)
    BY DEF Date, OffsetAt
<1>2. \A t : DayOf(t)' = DayOf(t)
    BY DEF DayOf, OffsetAt
<1>3. \A d, t : Due(d, t)' <=> Due(d, t)
    BY <1>1 DEF Due
<1>4. \A d : Ordinary(d)' <=> Ordinary(d)
    BY <1>1, <1>2 DEF Ordinary, OnDay
<1> QED
    BY <1>1, <1>2, <1>3, <1>4

\* What is due stays due.
LEMMA StaysDue ==
    ASSUME zone \in Zone, schedule \in ScheduleHour,
           NEW d \in Int, NEW s \in Int, NEW t \in Int, s <= t, Due(d, s)
    PROVE  Due(d, t)
<1>1. schedule \in Int
    BY ScheduleAssumption
<1>2. Date(d, schedule) \in Int
    BY <1>1, DateLocal
<1>3. Date(d - 1, schedule) \in Int
    <2> DEFINE c == d - 1
    <2>1. c \in Int
        OBVIOUS
    <2> HIDE DEF c
    <2>2. Date(c, schedule) \in Int
        BY <1>1, <2>1, DateLocal
    <2> QED
        BY <2>2 DEF c
<1> QED
    BY <1>2, <1>3 DEF Due

LEMMA DailyInitInv ==
    ASSUME DailyInit
    PROVE  DailyInv
<1>1. DailyTypeInv
    <2>1. FirstHour \in Int /\ Horizon \in Int /\ FirstHour <= Horizon
        BY BoundsAssumption
    <2>2. FirstHour \in FirstHour .. Horizon
        BY <2>1
    <2>3. /\ clock = FirstHour /\ next = FirstHour /\ since = 0 /\ up = FALSE
          /\ zone \in Zone /\ schedule \in ScheduleHour
        BY DEF DailyInit
    <2>4. job \in [Worker -> Task \cup {Idle}]
        BY DEF DailyInit
    <2>5. rows \in [Days -> Report \cup {NoReport}]
        BY DEF DailyInit
    <2>6. clock \in FirstHour .. Horizon /\ next \in Int /\ since \in Int
        BY <2>1, <2>2, <2>3
    <2>7. up \in BOOLEAN
        BY <2>3
    <2> QED
        BY <2>3, <2>4, <2>5, <2>6, <2>7 DEF DailyTypeInv
<1>2. RowsInv
    BY DEF DailyInit, RowsInv
<1>3. WorkInv
    BY DEF DailyInit, WorkInv
<1>4. DaemonInv /\ LateInv
    BY DEF DailyInit, DaemonInv, LateInv, Worker
<1>5. TimerInv
    BY DEF DailyInit, TimerInv, Waiting
<1>6. CoveredInv
    BY DEF DailyInit, CoveredInv
<1> QED
    BY <1>1, <1>2, <1>3, <1>4, <1>5, <1>6 DEF DailyInv

LEMMA JobFacts ==
    ASSUME DailyTypeInv, NEW w \in Worker
    PROVE  /\ job[w] = Idle \/ job[w] \in Task
           /\ job[w] # Idle => job[w] \in Task
           /\ job[w].stage \in {"collect", "save", "write"} => job[w] # Idle
BY DEF DailyTypeInv, Task, Idle

LEMMA HourPassesInv ==
    ASSUME DailyInv, HourPasses
    PROVE  DailyInv'
<1> USE DEF DailyInv
<1>1. /\ zone \in Zone /\ schedule \in ScheduleHour /\ schedule \in Int
      /\ clock \in Int /\ Horizon \in Int /\ since \in Int
    BY BoundsAssumption, ScheduleAssumption DEF DailyTypeInv
<1>2. /\ clock' = clock + 1
      /\ clock < Horizon
      /\ ~(Waiting /\ next <= clock)
      /\ zone' = zone /\ schedule' = schedule /\ up' = up /\ next' = next /\ job' = job
      /\ rows' = rows /\ since' = since /\ failed' = failed
    BY DEF HourPasses
<1>3. \A d \in Days : \/ d \in late
                      \/ /\ Date(d, schedule) = clock + 1
                         /\ job["daemon"] # Idle /\ job["daemon"].ranOn # d
                      => d \in late'
    BY DEF HourPasses
<1>4. /\ \A d, h : Date(d, h)' = Date(d, h)
      /\ \A t : DayOf(t)' = DayOf(t)
      /\ \A d, t : Due(d, t)' <=> Due(d, t)
      /\ \A d : Ordinary(d)' <=> Ordinary(d)
    BY <1>2, SameCalendar
<1>5. DailyTypeInv'
    BY <1>1, <1>2, BoundsAssumption DEF DailyTypeInv
<1>6. RowsInv'
    BY <1>2, <1>4 DEF RowsInv
<1>7. WorkInv'
    <2> SUFFICES ASSUME NEW w \in Worker, job[w] # Idle
                 PROVE  DayOf(job[w].date) \in Days /\ job[w].started <= clock + 1
        BY <1>2, <1>4 DEF WorkInv
    <2>1. job[w] \in Task /\ DayOf(job[w].date) \in Days /\ job[w].started <= clock
        BY JobFacts DEF WorkInv
    <2>2. job[w].started \in Int
        BY <2>1 DEF Task
    <2> QED
        BY <1>1, <2>1, <2>2
<1>8. DaemonInv'
    BY <1>2, <1>4 DEF DaemonInv, ForDayBefore, DueUnlessFirst
<1>9. TimerInv'
    <2> SUFFICES ASSUME Waiting
                 PROVE  clock + 1 <= next /\ since <= DayOf(next) /\ DueUnlessFirst(DayOf(next), next)
        BY <1>2, <1>4 DEF TimerInv, Waiting, DueUnlessFirst
    <2>1. next \in Int /\ ~(next <= clock)
        BY <1>2 DEF DailyTypeInv
    <2>2. since <= DayOf(next) /\ DueUnlessFirst(DayOf(next), next)
        BY DEF TimerInv
    <2> QED
        BY <1>1, <2>1, <2>2
<1>10. LateInv'
    <2> SUFFICES ASSUME job["daemon"] # Idle, NEW d \in Days, job["daemon"].ranOn # d,
                        job["daemon"].started < Date(d, schedule), Date(d, schedule) <= clock + 1
                 PROVE  d \in late'
        BY <1>2, <1>4 DEF LateInv
    <2>1. d \in Int
        BY DEF Days
    <2>2. Date(d, schedule) \in Int
        BY <1>1, <2>1, DateLocal
    <2>3. CASE Date(d, schedule) <= clock
        <3>1. d \in late
            BY <2>3 DEF LateInv
        <3> QED
            BY <1>3, <3>1
    <2>4. CASE Date(d, schedule) = clock + 1
        BY <1>3, <2>4
    <2> QED
        BY <1>1, <2>2, <2>3, <2>4
<1>11. CoveredInv'
    <2> SUFFICES ASSUME up, NEW d \in Days, since <= d, d < Done, d \notin failed,
                        d \notin late, Ordinary(d)
                 PROVE  Served(d)'
        BY <1>2, <1>3, <1>4 DEF CoveredInv, Done
    <2>1. Served(d)
        BY DEF CoveredInv
    <2>2. d \in Int
        BY DEF Days
    <2>3. Due(d, clock) => Due(d, clock + 1)
        BY <1>1, <2>2, StaysDue
    <2> QED
        BY <1>2, <1>4, <2>1, <2>3 DEF Served
<1> QED
    BY <1>5, <1>6, <1>7, <1>8, <1>9, <1>10, <1>11

LEMMA StartInv ==
    ASSUME DailyInv, Start
    PROVE  DailyInv'
<1> USE DEF DailyInv
<1> DEFINE r == DayOf(clock)
           date == PreviousDay(clock)
           task == [stage |-> "collect", date |-> date, ranOn |-> r,
                    started |-> clock, whole |-> FALSE]
<1>1. zone \in Zone /\ clock \in Int /\ clock \in FirstHour .. Horizon
    BY BoundsAssumption DEF DailyTypeInv
<1>2. /\ up' = TRUE /\ since' = r /\ failed' = {}
      /\ job' = [job EXCEPT !["daemon"] = task]
      /\ clock' = clock /\ zone' = zone /\ schedule' = schedule /\ next' = next /\ rows' = rows
    BY DEF Start, Generate
<1>3. /\ \A d, h : Date(d, h)' = Date(d, h)
      /\ \A t : DayOf(t)' = DayOf(t)
      /\ \A d, t : Due(d, t)' <=> Due(d, t)
      /\ \A d : Ordinary(d)' <=> Ordinary(d)
    BY <1>2, SameCalendar
<1>4. r \in Int /\ r - 1 \in Days /\ r - 2 \in Days
    BY <1>1, DaysFacts
<1>5. date \in Int /\ ForDayBefore(date, r)
    BY <1>1, PreviousDayFacts DEF ForDayBefore
<1>6. DayOf(date) \in Days
    BY <1>4, <1>5 DEF ForDayBefore
<1>7. r = DayOf(clock)
    OBVIOUS
<1> HIDE DEF r, date
<1>8. /\ task \in Task /\ task # Idle /\ task.date = date /\ task.ranOn = r
      /\ task.started = clock /\ task.stage = "collect"
    BY <1>1, <1>4, <1>5 DEF Task, Idle
<1> HIDE DEF task
<1>9. /\ job'["daemon"] = task
      /\ \A w \in Worker : job'[w] = task \/ job'[w] = job[w]
    BY <1>2 DEF DailyTypeInv, Worker
<1>10. DailyTypeInv'
    BY <1>1, <1>2, <1>4, <1>8, <1>9 DEF DailyTypeInv
<1>11. RowsInv'
    BY <1>2, <1>3 DEF RowsInv
<1>12. WorkInv'
    <2> SUFFICES ASSUME NEW w \in Worker, job'[w] # Idle
                 PROVE  DayOf(job'[w].date) \in Days /\ job'[w].started <= clock
        BY <1>2, <1>3 DEF WorkInv
    <2>1. CASE job'[w] = task
        BY <1>1, <1>6, <1>8, <2>1
    <2>2. CASE job'[w] = job[w]
        BY <2>2 DEF WorkInv
    <2> QED
        BY <1>9, <2>1, <2>2
<1>13. DaemonInv'
    BY <1>2, <1>3, <1>4, <1>5, <1>7, <1>8, <1>9 DEF DaemonInv, ForDayBefore, DueUnlessFirst
<1>14. TimerInv'
    BY <1>8, <1>9 DEF TimerInv, Waiting
<1>15. LateInv'
    <2> SUFFICES ASSUME NEW d \in Days, clock < Date(d, schedule), Date(d, schedule) <= clock
                 PROVE  FALSE
        BY <1>2, <1>3, <1>8, <1>9 DEF LateInv
    <2>1. d \in Int /\ schedule \in Int
        BY ScheduleAssumption DEF Days, DailyTypeInv
    <2>2. Date(d, schedule) \in Int
        BY <1>1, <2>1, DateLocal
    <2> QED
        BY <1>1, <2>2
<1>16. CoveredInv'
    <2>1. Done' = r
        BY <1>8, <1>9 DEF Done
    <2>2. \A d \in Days : d \in Int
        BY DEF Days
    <2> QED
        BY <1>2, <1>4, <2>1, <2>2 DEF CoveredInv
<1> QED
    BY <1>10, <1>11, <1>12, <1>13, <1>14, <1>15, <1>16

LEMMA TimerFiresInv ==
    ASSUME DailyInv, TimerFires
    PROVE  DailyInv'
<1> USE DEF DailyInv
<1> DEFINE r == DayOf(clock)
           date == PreviousDay(clock)
           task == [stage |-> "collect", date |-> date, ranOn |-> r,
                    started |-> clock, whole |-> FALSE]
<1>1. /\ zone \in Zone /\ clock \in Int /\ next \in Int /\ since \in Int
      /\ clock \in FirstHour .. Horizon
    BY BoundsAssumption DEF DailyTypeInv
<1>2. Waiting /\ next = clock
    <2>1. Waiting /\ next <= clock
        BY DEF TimerFires
    <2>2. clock <= next
        BY <2>1 DEF TimerInv
    <2> QED
        BY <1>1, <2>1, <2>2
<1>3. since <= r /\ DueUnlessFirst(r, clock)
    BY <1>2 DEF TimerInv
<1>4. /\ job' = [job EXCEPT !["daemon"] = task]
      /\ clock' = clock /\ zone' = zone /\ schedule' = schedule /\ next' = next /\ rows' = rows
      /\ up' = up /\ since' = since /\ failed' = failed /\ late' = late
    BY <1>2 DEF TimerFires, Generate
<1>5. /\ \A d, h : Date(d, h)' = Date(d, h)
      /\ \A t : DayOf(t)' = DayOf(t)
      /\ \A d, t : Due(d, t)' <=> Due(d, t)
      /\ \A d : Ordinary(d)' <=> Ordinary(d)
    BY <1>4, SameCalendar
<1>6. r \in Int /\ r - 1 \in Days /\ r - 2 \in Days
    BY <1>1, DaysFacts
<1>7. date \in Int /\ ForDayBefore(date, r)
    BY <1>1, PreviousDayFacts DEF ForDayBefore
<1>8. DayOf(date) \in Days
    BY <1>6, <1>7 DEF ForDayBefore
<1>9. r = DayOf(clock)
    OBVIOUS
<1> HIDE DEF r, date
<1>10. /\ task \in Task /\ task # Idle /\ task.date = date /\ task.ranOn = r
       /\ task.started = clock /\ task.stage = "collect"
    BY <1>1, <1>6, <1>7 DEF Task, Idle
<1> HIDE DEF task
<1>11. /\ job'["daemon"] = task
       /\ \A w \in Worker : job'[w] = task \/ job'[w] = job[w]
    BY <1>4 DEF DailyTypeInv, Worker
<1>12. DailyTypeInv'
    BY <1>4, <1>10, <1>11 DEF DailyTypeInv
<1>13. RowsInv'
    BY <1>4, <1>5 DEF RowsInv
<1>14. WorkInv'
    <2> SUFFICES ASSUME NEW w \in Worker, job'[w] # Idle
                 PROVE  DayOf(job'[w].date) \in Days /\ job'[w].started <= clock
        BY <1>4, <1>5 DEF WorkInv
    <2>1. CASE job'[w] = task
        BY <1>1, <1>8, <1>10, <2>1
    <2>2. CASE job'[w] = job[w]
        BY <2>2 DEF WorkInv
    <2> QED
        BY <1>11, <2>1, <2>2
<1>15. DaemonInv'
    BY <1>2, <1>3, <1>4, <1>5, <1>7, <1>9, <1>10, <1>11
       DEF DaemonInv, ForDayBefore, DueUnlessFirst, Waiting
<1>16. TimerInv'
    BY <1>10, <1>11 DEF TimerInv, Waiting
<1>17. LateInv'
    <2> SUFFICES ASSUME NEW d \in Days, clock < Date(d, schedule), Date(d, schedule) <= clock
                 PROVE  FALSE
        BY <1>4, <1>5, <1>10, <1>11 DEF LateInv
    <2>1. d \in Int /\ schedule \in Int
        BY ScheduleAssumption DEF Days, DailyTypeInv
    <2>2. Date(d, schedule) \in Int
        BY <1>1, <2>1, DateLocal
    <2> QED
        BY <1>1, <2>2
<1>18. CoveredInv'
    <2>1. Done' = r
        BY <1>10, <1>11 DEF Done
    <2>2. Done = r
        BY <1>2, <1>9 DEF Done, Waiting
    <2>3. \A d \in Days : Served(d) => Served(d)'
        BY <1>4, <1>5 DEF Served
    <2> QED
        BY <1>4, <1>5, <2>1, <2>2, <2>3 DEF CoveredInv
<1> QED
    BY <1>12, <1>13, <1>14, <1>15, <1>16, <1>17, <1>18

LEMMA RunOnceInv ==
    ASSUME DailyInv, RunOnce
    PROVE  DailyInv'
<1> USE DEF DailyInv
<1> DEFINE r == DayOf(clock)
           q == r - 1
<1>1. zone \in Zone /\ clock \in Int /\ clock \in FirstHour .. Horizon
    BY BoundsAssumption DEF DailyTypeInv
<1>2. r \in Int /\ r - 2 \in Days /\ q \in Days /\ r \in Days /\ q \in Int /\ q - 1 = r - 2
    BY <1>1, DaysFacts
<1>3. PICK date \in {PreviousDay(clock), Date(q, 0), Date(r, 0)} : Generate("once", date, clock)
    BY DEF RunOnce
<1>4. date \in Int /\ DayOf(date) \in Days
    <2>1. CASE date = PreviousDay(clock)
        BY <1>1, <1>2, <2>1, PreviousDayFacts
    <2> HIDE DEF r, q
    <2>2. CASE date = Date(q, 0)
        BY <1>1, <1>2, <2>2, Midnight
    <2>3. CASE date = Date(r, 0)
        <3>1. Date(r, 0) \in Int /\ DayOf(Date(r, 0)) \in {r - 1, r}
            BY <1>1, <1>2, Midnight
        <3> QED
            BY <1>2, <2>3, <3>1 DEF q
    <2> QED
        BY <1>3, <2>1, <2>2, <2>3
<1> DEFINE task == [stage |-> "collect", date |-> date, ranOn |-> r,
                    started |-> clock, whole |-> FALSE]
<1>5. /\ job' = [job EXCEPT !["once"] = task]
      /\ clock' = clock /\ zone' = zone /\ schedule' = schedule /\ next' = next /\ rows' = rows
      /\ up' = up /\ since' = since /\ failed' = failed /\ late' = late
    BY <1>3 DEF RunOnce, Generate
<1>6. /\ \A d, h : Date(d, h)' = Date(d, h)
      /\ \A t : DayOf(t)' = DayOf(t)
      /\ \A d, t : Due(d, t)' <=> Due(d, t)
      /\ \A d : Ordinary(d)' <=> Ordinary(d)
    BY <1>5, SameCalendar
<1> HIDE DEF r
<1>7. task \in Task /\ task.date = date /\ task.started = clock
    BY <1>1, <1>2, <1>4 DEF Task
<1> HIDE DEF task
<1>8. /\ job'["daemon"] = job["daemon"]
      /\ \A w \in Worker : job'[w] = task \/ job'[w] = job[w]
    BY <1>5 DEF DailyTypeInv, Worker
<1>9. DailyTypeInv'
    BY <1>5, <1>7, <1>8 DEF DailyTypeInv
<1>10. RowsInv'
    BY <1>5, <1>6 DEF RowsInv
<1>11. WorkInv'
    <2> SUFFICES ASSUME NEW w \in Worker, job'[w] # Idle
                 PROVE  DayOf(job'[w].date) \in Days /\ job'[w].started <= clock
        BY <1>5, <1>6 DEF WorkInv
    <2>1. CASE job'[w] = task
        BY <1>1, <1>4, <1>7, <2>1
    <2>2. CASE job'[w] = job[w]
        BY <2>2 DEF WorkInv
    <2> QED
        BY <1>8, <2>1, <2>2
<1>12. DaemonInv'
    BY <1>5, <1>6, <1>8 DEF DaemonInv, ForDayBefore, DueUnlessFirst
<1>13. TimerInv' /\ LateInv'
    BY <1>5, <1>6, <1>8 DEF TimerInv, LateInv, Waiting, DueUnlessFirst
<1>14. CoveredInv'
    <2>1. Done' = Done
        BY <1>5, <1>6, <1>8 DEF Done
    <2>2. \A d \in Days : Served(d) => Served(d)'
        BY <1>5, <1>6 DEF Served
    <2> QED
        BY <1>5, <1>6, <2>1, <2>2 DEF CoveredInv
<1> QED
    BY <1>9, <1>10, <1>11, <1>12, <1>13, <1>14

\* The daemon collects the metrics of a day that is over.
LEMMA CollectInv ==
    ASSUME DailyInv, NEW w \in Worker, CollectMetrics(w)
    PROVE  DailyInv'
<1> USE DEF DailyInv
<1>1. zone \in Zone /\ clock \in Int
    BY BoundsAssumption DEF DailyTypeInv
<1>2. job[w].stage = "collect" /\ job[w] # Idle /\ job[w] \in Task
    BY JobFacts DEF CollectMetrics
<1> DEFINE whole == Over(DayOf(job[w].date), clock)
           task == [job[w] EXCEPT !.stage = "save", !.whole = whole]
<1>3. whole \in BOOLEAN
    BY DEF Over
<1>4. /\ job' = [job EXCEPT ![w] = task]
      /\ clock' = clock /\ zone' = zone /\ schedule' = schedule /\ next' = next /\ rows' = rows
      /\ up' = up /\ since' = since /\ failed' = failed /\ late' = late
    BY DEF CollectMetrics
<1>5. /\ \A d, h : Date(d, h)' = Date(d, h)
      /\ \A t : DayOf(t)' = DayOf(t)
      /\ \A d, t : Due(d, t)' <=> Due(d, t)
      /\ \A d : Ordinary(d)' <=> Ordinary(d)
    BY <1>4, SameCalendar
<1>6. /\ task \in Task /\ task # Idle
      /\ task.stage = "save" /\ task.whole = whole /\ task.date = job[w].date
      /\ task.ranOn = job[w].ranOn /\ task.started = job[w].started
    BY <1>2, <1>3 DEF Task, Idle
<1>7. w = "daemon" => whole
    <2> SUFFICES ASSUME w = "daemon"
                 PROVE  Over(DayOf(job[w].date), clock)
        OBVIOUS
    <2> DEFINE r == job[w].ranOn
               c == DayOf(job[w].date)
    <2>1. /\ r = DayOf(job[w].started) /\ c \in {r - 2, r - 1}
          /\ job[w].started <= clock /\ job[w].started \in Int /\ r \in Int
        BY <1>2 DEF DaemonInv, ForDayBefore, WorkInv, Task
    <2>2. DayOf(job[w].started) <= DayOf(clock) /\ DayOf(clock) \in Int
        BY <1>1, <2>1, DayOfMonotone, DayOfFacts
    <2> HIDE DEF r, c
    <2>3. c \in Int /\ c < DayOf(clock)
        BY <2>1, <2>2
    <2>4. Over(c, clock)
        BY <1>1, <2>3, OverFacts
    <2> QED
        BY <2>4 DEF c
<1> HIDE DEF whole, task
<1>8. job'[w] = task /\ \A v \in Worker : v # w => job'[v] = job[v]
    BY <1>4 DEF DailyTypeInv
<1>9. job'["daemon"] = job["daemon"] \/ (w = "daemon" /\ job'["daemon"] = task)
    BY <1>8 DEF Worker
<1>10. DailyTypeInv'
    BY <1>4, <1>6, <1>8 DEF DailyTypeInv
<1>11. RowsInv'
    BY <1>4, <1>5 DEF RowsInv
<1>12. WorkInv'
    <2> SUFFICES ASSUME NEW v \in Worker, job'[v] # Idle
                 PROVE  DayOf(job'[v].date) \in Days /\ job'[v].started <= clock
        BY <1>4, <1>5 DEF WorkInv
    <2>1. CASE v = w
        BY <1>2, <1>6, <1>8, <2>1 DEF WorkInv
    <2>2. CASE v # w
        BY <1>8, <2>2 DEF WorkInv
    <2> QED
        BY <2>1, <2>2
<1>13. DaemonInv'
    <2>1. CASE job'["daemon"] = job["daemon"]
        BY <1>4, <1>5, <2>1 DEF DaemonInv, ForDayBefore, DueUnlessFirst
    <2>2. CASE w = "daemon" /\ job'["daemon"] = task
        BY <1>2, <1>4, <1>5, <1>6, <1>7, <2>2 DEF DaemonInv, ForDayBefore, DueUnlessFirst
    <2> QED
        BY <1>9, <2>1, <2>2
<1>14. TimerInv'
    <2>1. Waiting' => Waiting
        BY <1>4, <1>6, <1>9 DEF Waiting
    <2> QED
        BY <1>4, <1>5, <2>1 DEF TimerInv, DueUnlessFirst
<1>15. LateInv'
    BY <1>2, <1>4, <1>5, <1>6, <1>9 DEF LateInv
<1>16. CoveredInv'
    <2>1. Done' = Done
        BY <1>2, <1>4, <1>5, <1>6, <1>9 DEF Done
    <2>2. \A d \in Days : Served(d) => Served(d)'
        BY <1>4, <1>5 DEF Served
    <2> QED
        BY <1>4, <1>5, <2>1, <2>2 DEF CoveredInv
<1> QED
    BY <1>10, <1>11, <1>12, <1>13, <1>14, <1>15, <1>16

\* The daemon saves a report of a whole day; a report by hand that replaces what
\* the run of a day has left is saved after that run was due.
LEMMA SaveInv ==
    ASSUME DailyInv, NEW w \in Worker, SaveDailyReport(w)
    PROVE  DailyInv'
<1> USE DEF DailyInv
<1> DEFINE j == job[w]
           e == DayOf(j.date)
           overdue == w = "once" /\ Due(e + 1, clock)
           report == [window |-> WindowForDate(j.date), whole |-> j.whole, overdue |-> overdue]
           task == [job[w] EXCEPT !.stage = "write"]
<1>1. /\ zone \in Zone /\ schedule \in ScheduleHour /\ clock \in Int /\ since \in Int
      /\ clock \in FirstHour .. Horizon
    BY BoundsAssumption DEF DailyTypeInv
<1>2. j.stage = "save" /\ j # Idle /\ j \in Task
    BY JobFacts DEF SaveDailyReport
<1>3. /\ job' = [job EXCEPT ![w] = task]
      /\ rows' = [rows EXCEPT ![e] = report]
      /\ clock' = clock /\ zone' = zone /\ schedule' = schedule /\ next' = next
      /\ up' = up /\ since' = since /\ failed' = failed /\ late' = late
    BY DEF SaveDailyReport, Stored
<1>4. /\ \A d, h : Date(d, h)' = Date(d, h)
      /\ \A t : DayOf(t)' = DayOf(t)
      /\ \A d, t : Due(d, t)' <=> Due(d, t)
      /\ \A d : Ordinary(d)' <=> Ordinary(d)
    BY <1>3, SameCalendar
<1>5. e \in Days /\ e \in Int /\ j.started <= clock
    BY <1>2 DEF WorkInv, Days
<1>6. /\ task \in Task /\ task # Idle
      /\ task.stage = "write" /\ task.whole = j.whole /\ task.date = j.date
      /\ task.ranOn = j.ranOn /\ task.started = j.started
    BY <1>2 DEF Task, Idle
<1>7. Date(e, 0) \in Int
    BY <1>1, <1>5, Midnight
<1>8. overdue \in BOOLEAN
    BY DEF Due
<1>9. /\ report.window = [from |-> Date(e, 0), to |-> Date(e, 0) + 24]
      /\ report.whole = j.whole /\ report.overdue = overdue
    BY DEF WindowForDate
<1>10. report \in Report /\ report # NoReport
    <2>1. j.whole \in BOOLEAN
        BY <1>2 DEF Task
    <2>2. report \in Report
        BY <1>7, <1>8, <2>1 DEF WindowForDate, Report
    <2> QED
        BY <2>2, NoReportAssumption
<1>11. w = "daemon" => j.whole
    BY <1>2 DEF DaemonInv
<1>12. w = "daemon" \/ (Due(e + 1, clock) => overdue)
    BY DEF Worker
<1> HIDE DEF task, report, overdue, e
<1>13. job'[w] = task /\ \A v \in Worker : v # w => job'[v] = job[v]
    BY <1>3 DEF DailyTypeInv
<1>14. job'["daemon"] = job["daemon"] \/ (w = "daemon" /\ job'["daemon"] = task)
    BY <1>13 DEF Worker
<1>15. rows'[e] = report /\ \A d \in Days : d # e => rows'[d] = rows[d]
    BY <1>3, <1>5 DEF DailyTypeInv
<1>16. DailyTypeInv'
    BY <1>3, <1>6, <1>10, <1>13 DEF DailyTypeInv
<1>17. RowsInv'
    <2> SUFFICES ASSUME NEW d \in Days, rows'[d] # NoReport
                 PROVE  rows'[d].window = [from |-> Date(d, 0), to |-> Date(d, 0) + 24]
        BY <1>4 DEF RowsInv
    <2>1. CASE d = e
        BY <1>9, <1>15, <2>1
    <2>2. CASE d # e
        BY <1>15, <2>2 DEF RowsInv
    <2> QED
        BY <2>1, <2>2
<1>18. WorkInv'
    <2> SUFFICES ASSUME NEW v \in Worker, job'[v] # Idle
                 PROVE  DayOf(job'[v].date) \in Days /\ job'[v].started <= clock
        BY <1>3, <1>4 DEF WorkInv
    <2>1. CASE v = w
        BY <1>2, <1>6, <1>13, <2>1 DEF WorkInv
    <2>2. CASE v # w
        BY <1>13, <2>2 DEF WorkInv
    <2> QED
        BY <2>1, <2>2
<1>19. DaemonInv'
    <2>1. CASE job'["daemon"] = job["daemon"]
        BY <1>3, <1>4, <2>1 DEF DaemonInv, ForDayBefore, DueUnlessFirst
    <2>2. CASE w = "daemon" /\ job'["daemon"] = task
        BY <1>2, <1>3, <1>4, <1>6, <1>11, <2>2 DEF DaemonInv, ForDayBefore, DueUnlessFirst
    <2> QED
        BY <1>14, <2>1, <2>2
<1>20. TimerInv' /\ LateInv'
    <2>1. Waiting' => Waiting
        BY <1>3, <1>6, <1>14 DEF Waiting
    <2>2. TimerInv'
        BY <1>3, <1>4, <2>1 DEF TimerInv, DueUnlessFirst
    <2>3. LateInv'
        BY <1>2, <1>3, <1>4, <1>6, <1>14 DEF LateInv
    <2> QED
        BY <2>2, <2>3
<1>21. ASSUME NEW d \in Days, d - 1 \in Days, Served(d)
       PROVE  Served(d)'
    <2>1. d \in Int
        BY DEF Days
    <2>2. CASE d - 1 = e
        <3>1. e + 1 = d
            BY <2>1, <2>2
        <3>2. d > since => Due(d, clock)
            BY <1>21 DEF Served
        <3>3. d > since => report.whole \/ report.overdue
            BY <1>9, <1>11, <1>12, <3>1, <3>2
        <3>4. rows'[d - 1] = report
            BY <1>15, <2>2
        <3> QED
            BY <1>3, <1>4, <1>10, <3>2, <3>3, <3>4 DEF Served
    <2>3. CASE d - 1 # e
        BY <1>3, <1>4, <1>15, <1>21, <2>3 DEF Served
    <2> QED
        BY <2>2, <2>3
<1>22. CoveredInv'
    <2> SUFFICES ASSUME up, NEW d \in Days, since <= d, d < Done', d \notin failed,
                        d \notin late, Ordinary(d)
                 PROVE  Served(d)'
        BY <1>3, <1>4 DEF CoveredInv
    <2>1. d \in Int
        BY DEF Days
    <2>2. d - 1 \in Days
        <3>1. since - 1 \in Days
            BY DEF DaemonInv
        <3> QED
            BY <1>1, <2>1, <3>1, DaysInterval
    <2>3. CASE d < Done
        BY <1>21, <2>2, <2>3 DEF CoveredInv
    <2>4. CASE ~(d < Done)
        <3>1. w = "daemon" /\ job'["daemon"] = task
            BY <1>3, <1>4, <1>14, <2>4 DEF Done
        <3>2. Done = j.ranOn /\ Done' = j.ranOn + 1
            BY <1>2, <1>6, <3>1 DEF Done
        <3>3. j.ranOn \in Int /\ j.started \in Int
            BY <1>2 DEF Task
        <3>4. d = j.ranOn
            BY <2>1, <2>4, <3>2, <3>3
        <3>5. e = d - 1 /\ DueUnlessFirst(d, j.started)
            BY <1>2, <3>1, <3>4 DEF DaemonInv, ForDayBefore, e
        <3>6. d > since => Due(d, clock)
            BY <1>1, <1>5, <2>1, <3>3, <3>5, StaysDue DEF DueUnlessFirst
        <3>7. rows'[d - 1] = report
            BY <1>15, <3>5
        <3> QED
            BY <1>3, <1>4, <1>9, <1>10, <1>11, <3>1, <3>6, <3>7 DEF Served
    <2> QED
        BY <2>3, <2>4
<1> QED
    BY <1>16, <1>17, <1>18, <1>19, <1>20, <1>22

\* A worker's run is over and, if it was the daemon's, its timer is set again:
\* the days it leaves out are not ordinary, or their hour found the daemon busy.
LEMMA ConcludeInv ==
    ASSUME DailyInv, NEW w \in Worker, job[w] # Idle, Conclude(w),
           \/ failed' = failed /\ job[w].stage = "write"
           \/ failed' = failed /\ w # "daemon"
           \/ failed' = failed \cup {job[w].ranOn} /\ w = "daemon"
    PROVE  DailyInv'
<1> USE DEF DailyInv
<1> DEFINE j == job["daemon"]
           n == NextRunAt(clock)
           e == DayOf(clock)
<1>1. /\ zone \in Zone /\ schedule \in ScheduleHour /\ schedule \in Int /\ clock \in Int
      /\ since \in Int /\ next \in Int /\ clock \in FirstHour .. Horizon
    BY BoundsAssumption, ScheduleAssumption DEF DailyTypeInv
<1>2. /\ job' = [job EXCEPT ![w] = Idle]
      /\ next' = IF w = "daemon" THEN n ELSE next
      /\ clock' = clock /\ zone' = zone /\ schedule' = schedule /\ rows' = rows
      /\ up' = up /\ since' = since /\ late' = late
    BY DEF Conclude
<1>3. /\ \A d, h : Date(d, h)' = Date(d, h)
      /\ \A t : DayOf(t)' = DayOf(t)
      /\ \A d, t : Due(d, t)' <=> Due(d, t)
      /\ \A d : Ordinary(d)' <=> Ordinary(d)
    BY <1>2, SameCalendar
<1>4. job'[w] = Idle /\ \A v \in Worker : v # w => job'[v] = job[v]
    BY <1>2 DEF DailyTypeInv
<1>5. /\ n \in Int /\ clock <= n /\ DayOf(n) \in Int /\ e <= DayOf(n) /\ e \in Int
      /\ e < DayOf(n) /\ Ordinary(e) => Date(e, schedule) <= clock
      /\ Ordinary(DayOf(n)) => Due(DayOf(n), n)
    BY <1>1, NextRun, DayOfFacts
<1>6. \A k \in Int : e < k /\ k < DayOf(n) => ~Ordinary(k)
    BY <1>1, NextRun
<1>7. e = DayOf(clock)
    OBVIOUS
<1> HIDE DEF n, e
<1>8. DailyTypeInv'
    BY <1>1, <1>2, <1>4, <1>5 DEF DailyTypeInv
<1>9. RowsInv'
    BY <1>2, <1>3 DEF RowsInv
<1>10. WorkInv'
    <2> SUFFICES ASSUME NEW v \in Worker, job'[v] # Idle
                 PROVE  DayOf(job'[v].date) \in Days /\ job'[v].started <= clock
        BY <1>2, <1>3 DEF WorkInv
    <2>1. v # w
        BY <1>4
    <2> QED
        BY <1>4, <2>1 DEF WorkInv
<1>11. \A d \in Days : Served(d) => Served(d)'
    BY <1>2, <1>3 DEF Served
<1>12. CASE w # "daemon"
    <2>1. "daemon" \in Worker
        BY DEF Worker
    <2>2. job'["daemon"] = j /\ next' = next /\ failed' = failed
        BY <1>2, <1>4, <1>12, <2>1
    <2>3. DaemonInv'
        BY <1>2, <1>3, <2>2 DEF DaemonInv, ForDayBefore, DueUnlessFirst
    <2>4. TimerInv' /\ LateInv'
        BY <1>2, <1>3, <2>2 DEF TimerInv, LateInv, Waiting, DueUnlessFirst
    <2>5. CoveredInv'
        <3>1. Done' = Done
            BY <1>2, <1>3, <2>2 DEF Done
        <3> QED
            BY <1>2, <1>3, <1>11, <2>2, <3>1 DEF CoveredInv
    <2> QED
        BY <1>8, <1>9, <1>10, <2>3, <2>4, <2>5
<1>13. CASE w = "daemon"
    <2>1. job'["daemon"] = Idle /\ next' = n /\ j # Idle /\ j \in Task
        BY <1>2, <1>4, <1>13, JobFacts
    <2>2. /\ up /\ j.ranOn = DayOf(j.started) /\ since <= j.ranOn
          /\ since - 1 \in Days
        BY <2>1 DEF DaemonInv
    <2>3. j.started <= clock /\ j.started \in Int /\ j.ranOn \in Int
        BY <1>13, <2>1 DEF WorkInv, Task
    <2>4. j.ranOn <= e
        BY <1>1, <1>7, <2>2, <2>3, DayOfMonotone
    <2>5. DaemonInv'
        BY <1>2, <2>1, <2>2 DEF DaemonInv
    <2>6. TimerInv'
        <3>1. since <= DayOf(n) /\ clock <= n
            BY <1>1, <1>5, <2>2, <2>3, <2>4
        <3> QED
            BY <1>2, <1>3, <1>5, <2>1, <3>1 DEF TimerInv, DueUnlessFirst
    <2>7. LateInv'
        BY <2>1 DEF LateInv
    <2>8. CoveredInv'
        <3> SUFFICES ASSUME NEW d \in Days, since <= d, d < DayOf(n), d \notin failed',
                            d \notin late, Ordinary(d)
                     PROVE  Served(d)'
            BY <1>2, <1>3, <2>1 DEF CoveredInv, Done
        <3>1. d \in Int
            BY DEF Days
        <3>2. d <= e
            BY <1>5, <1>6, <3>1
        <3>3. Date(d, schedule) \in Int
            BY <1>1, <3>1, DateLocal
        <3>4. Date(d, schedule) <= clock
            <4>1. CASE d = e
                BY <1>5, <4>1
            <4>2. CASE d # e
                <5>1. d < DayOf(clock)
                    BY <1>5, <1>7, <3>1, <3>2, <4>2
                <5>2. DayOf(Date(d, schedule)) = d
                    BY DEF Ordinary, OnDay
                <5>3. clock <= Date(d, schedule) => DayOf(clock) <= d
                    BY <1>1, <3>3, <5>2, DayOfMonotone
                <5> QED
                    BY <1>1, <1>5, <1>7, <3>1, <3>3, <5>1, <5>3
            <4> QED
                BY <4>1, <4>2
        <3>5. d <= j.ranOn
            <4> SUFFICES ASSUME j.ranOn < d
                         PROVE  FALSE
                BY <2>3, <3>1
            <4>1. DayOf(Date(d, schedule)) = d
                BY DEF Ordinary, OnDay
            <4>2. Date(d, schedule) <= j.started => d <= j.ranOn
                BY <1>1, <2>2, <2>3, <3>3, <4>1, DayOfMonotone
            <4>3. j.started < Date(d, schedule) /\ j.ranOn # d
                BY <2>3, <3>1, <3>3, <4>2
            <4> QED
                BY <2>1, <3>4, <4>3 DEF LateInv
        <3>6. d < Done /\ d \notin failed
            <4>1. CASE failed' = failed /\ j.stage = "write"
                <5>1. Done = j.ranOn + 1
                    BY <2>1, <4>1 DEF Done
                <5> QED
                    BY <2>3, <3>1, <3>5, <4>1, <5>1
            <4>2. CASE failed' = failed \cup {j.ranOn}
                <5>1. d # j.ranOn /\ d \notin failed
                    BY <4>2
                <5>2. Done = j.ranOn \/ Done = j.ranOn + 1
                    BY <2>1 DEF Done
                <5> QED
                    BY <2>3, <3>1, <3>5, <5>1, <5>2
            <4> QED
                BY <1>13, <4>1, <4>2
        <3> QED
            BY <1>11, <2>2, <3>6 DEF CoveredInv
    <2> QED
        BY <1>8, <1>9, <1>10, <2>5, <2>6, <2>7, <2>8
<1> QED
    BY <1>12, <1>13

LEMMA DaemonCrashInv ==
    ASSUME DailyInv, Crash
    PROVE  DailyInv'
<1> USE DEF DailyInv
<1>1. /\ up' = FALSE
      /\ job' = [job EXCEPT !["daemon"] = Idle]
      /\ clock' = clock /\ zone' = zone /\ schedule' = schedule /\ rows' = rows /\ next' = next
      /\ since' = since
    BY DEF Crash
<1>2. /\ \A d, h : Date(d, h)' = Date(d, h)
      /\ \A t : DayOf(t)' = DayOf(t)
    BY <1>1, SameCalendar
<1>3. job'["daemon"] = Idle /\ \A v \in Worker : v # "daemon" => job'[v] = job[v]
    BY <1>1 DEF DailyTypeInv, Worker
<1>4. DailyTypeInv'
    BY <1>1, <1>3 DEF DailyTypeInv
<1>5. RowsInv'
    BY <1>1, <1>2 DEF RowsInv
<1>6. WorkInv'
    <2> SUFFICES ASSUME NEW v \in Worker, job'[v] # Idle
                 PROVE  DayOf(job'[v].date) \in Days /\ job'[v].started <= clock
        BY <1>1, <1>2 DEF WorkInv
    <2>1. v # "daemon"
        BY <1>3
    <2> QED
        BY <1>3, <2>1 DEF WorkInv
<1>7. DaemonInv' /\ TimerInv' /\ LateInv' /\ CoveredInv'
    BY <1>1, <1>3 DEF DaemonInv, TimerInv, LateInv, Waiting, CoveredInv
<1> QED
    BY <1>4, <1>5, <1>6, <1>7

LEMMA DailyInvNext ==
    ASSUME DailyInv, DailyNext
    PROVE  DailyInv'
<1>1. CASE \E w \in Worker : PersistMarkdown(w)
    <2>1. PICK w \in Worker : PersistMarkdown(w)
        BY <1>1
    <2>2. job[w].stage = "write" /\ Conclude(w) /\ failed' = failed
        BY <2>1 DEF PersistMarkdown
    <2>3. job[w] # Idle
        BY <2>2 DEF Idle
    <2> QED
        BY <2>2, <2>3, ConcludeInv
<1>2. CASE \E w \in Worker : Fail(w)
    <2>1. PICK w \in Worker : Fail(w)
        BY <1>2
    <2>2. /\ job[w] # Idle /\ Conclude(w)
          /\ \/ failed' = failed /\ w # "daemon"
             \/ failed' = failed \cup {job[w].ranOn} /\ w = "daemon"
        BY <2>1 DEF Fail
    <2> QED
        BY <2>2, ConcludeInv
<1> QED
    BY <1>1, <1>2, HourPassesInv, StartInv, TimerFiresInv, RunOnceInv, DaemonCrashInv,
       CollectInv, SaveInv DEF DailyNext

LEMMA DailyInvStutter ==
    ASSUME DailyInv, UNCHANGED dailyVars
    PROVE  DailyInv'
<1>1. /\ clock' = clock /\ zone' = zone /\ schedule' = schedule /\ rows' = rows /\ next' = next
      /\ since' = since /\ up' = up /\ job' = job /\ failed' = failed /\ late' = late
    BY DEF dailyVars
<1>2. /\ \A d, h : Date(d, h)' = Date(d, h)
      /\ \A t : DayOf(t)' = DayOf(t)
      /\ \A d, t : Due(d, t)' <=> Due(d, t)
      /\ \A d : Ordinary(d)' <=> Ordinary(d)
    BY <1>1, SameCalendar
<1>3. DailyTypeInv'
    BY <1>1 DEF DailyInv, DailyTypeInv
<1>4. RowsInv' /\ WorkInv'
    BY <1>1, <1>2 DEF DailyInv, RowsInv, WorkInv
<1>5. DaemonInv' /\ TimerInv' /\ LateInv'
    BY <1>1, <1>2 DEF DailyInv, DaemonInv, TimerInv, LateInv, Waiting, ForDayBefore, DueUnlessFirst
<1>6. CoveredInv'
    BY <1>1, <1>2 DEF DailyInv, CoveredInv, Done, Served
<1> QED
    BY <1>3, <1>4, <1>5, <1>6 DEF DailyInv

LEMMA DailyInvHolds == DailySpec => []DailyInv
<1>1. DailyInit => DailyInv
    BY DailyInitInv
<1>2. DailyInv /\ [DailyNext]_dailyVars => DailyInv'
    BY DailyInvNext, DailyInvStutter
<1> QED
    BY <1>1, <1>2, PTL DEF DailySpec

\* A waiting daemon has run on every ordinary day that has passed.
LEMMA DaysServedAreServed ==
    ASSUME DailyInv, Waiting, NEW d \in DaysServed, Ordinary(d)
    PROVE  d \in Int /\ d - 1 \in Days /\ Served(d)
<1> USE DEF DailyInv
<1>1. d \in Days /\ since <= d /\ d < DayOf(clock) /\ d \notin failed /\ d \notin late
    BY DEF DaysServed
<1>2. /\ zone \in Zone /\ clock \in Int /\ clock \in FirstHour .. Horizon /\ next \in Int
      /\ since \in Int
    BY BoundsAssumption DEF DailyTypeInv
<1>3. d \in Int
    BY <1>1 DEF Days
<1>4. DayOf(clock) \in Int /\ DayOf(next) \in Int /\ DayOf(clock) <= DayOf(next)
    <2>1. clock <= next
        BY DEF TimerInv
    <2> QED
        BY <1>2, <2>1, DayOfFacts, DayOfMonotone
<1>5. d < Done
    BY <1>1, <1>3, <1>4 DEF Done, Waiting
<1>6. d - 1 \in Days
    <2>1. since - 1 \in Days
        BY DEF DaemonInv, Waiting
    <2> QED
        BY <1>1, <1>2, <1>3, <2>1, DaysInterval
<1> QED
    BY <1>1, <1>3, <1>5, <1>6 DEF CoveredInv, Waiting

(* OrdinaryDaysReported: whatever the zone, the schedule, the restarts and the  *)
(* stalls, a daemon that has run through a day has reported the day before it,  *)
(* over a window from that day's midnight that leaves out at most the last hour *)
(* of a day of 25 (RunLoop, NextRunAt, GeneratePreviousDay, WindowForDate),     *)
(* unless a run of the day failed, its hour found the daemon still generating   *)
(* for another day, or the calendar put one of the two days' midnights or runs  *)
(* on another day.                                                              *)
THEOREM OrdinaryDaysReportedHolds == DailySpec => []OrdinaryDaysReported
<1>1. DailyInv => OrdinaryDaysReported
    <2> SUFFICES ASSUME DailyInv, Waiting, NEW d \in DaysServed, Ordinary(d)
                 PROVE  ReportedBy(d)
        BY DEF OrdinaryDaysReported
    <2>1. d \in Int /\ d - 1 \in Days /\ Served(d)
        BY DaysServedAreServed
    <2>2. rows[d - 1] # NoReport
        BY <2>1 DEF Served
    <2>3. rows[d - 1].window = [from |-> Date(d - 1, 0), to |-> Date(d - 1, 0) + 24]
        BY <2>1, <2>2 DEF DailyInv, RowsInv
    <2>4. zone \in Zone
        BY DEF DailyInv, DailyTypeInv
    <2>5. Date(d - 1, 0) \in Int /\ Date(d, 0) \in Int /\ Date(d, 0) <= Date(d - 1, 0) + 25
        <3> DEFINE c == d - 1
        <3>1. c \in Int /\ d = c + 1
            BY <2>1
        <3> HIDE DEF c
        <3>2. Date(c, 0) \in Int /\ Date(d, 0) \in Int /\ Date(d, 0) <= Date(c, 0) + 25
            BY <2>1, <2>4, <3>1, Midnight, DayLength
        <3> QED
            BY <3>2 DEF c
    <2> QED
        BY <2>2, <2>3, <2>5 DEF ReportedBy
<1> QED
    BY <1>1, DailyInvHolds, PTL

(* ReportCountsWholeDay: under the same conditions, and unless it was the run   *)
(* with which the daemon started, the report that the run of a day leaves is of *)
(* a day that was over, whatever an operator had reported before; only a report *)
(* by hand that is saved once that run was due may replace it by one that is    *)
(* not (SaveDailyReport).                                                       *)
THEOREM ReportCountsWholeDayHolds == DailySpec => []ReportCountsWholeDay
<1>1. DailyInv => ReportCountsWholeDay
    <2> SUFFICES ASSUME DailyInv, Waiting, NEW d \in DaysServed, d # since, Ordinary(d)
                 PROVE  rows[d - 1].whole \/ rows[d - 1].overdue
        BY DEF ReportCountsWholeDay
    <2>1. d \in Int /\ Served(d)
        BY DaysServedAreServed
    <2>2. since \in Int /\ since <= d
        BY DEF DailyInv, DailyTypeInv, DaysServed
    <2> QED
        BY <2>1, <2>2 DEF Served
<1> QED
    BY <1>1, DailyInvHolds, PTL

\* The scheduled hour of a day, and the instant 24 hours later.
LEMMA ScheduledHour ==
    ASSUME zone \in Zone, schedule \in 1 .. 22, NEW d \in Int, NEW c \in Int, d = c + 1
    PROVE  /\ DayOf(Date(c, schedule)) = c
           /\ DayOf(Date(c, schedule) + 24) = d
<1> DEFINE s == Date(c, schedule)
           t == s + 24
<1>1. schedule \in Int /\ 1 <= schedule /\ schedule <= 22
    OBVIOUS
<1>2. /\ s \in Int
      /\ \/ Local(s) = 24 * c + schedule
         \/ /\ zone.after = zone.before + 1
            /\ \/ Local(s) = 24 * c + schedule + 1 /\ s >= zone.at
               \/ Local(s) = 24 * c + schedule - 1 /\ s < zone.at
    BY <1>1, DateLocal DEF Skipped
<1> HIDE DEF s
<1>3. t \in Int /\ t = s + 24
    BY <1>2
<1> HIDE DEF t
<1>4. Local(s) \in Int /\ Local(t) \in Int
    BY <1>2, <1>3, OffsetFacts
<1>5. /\ 23 <= Local(t) - Local(s)
      /\ Local(t) - Local(s) <= 25
      /\ zone.after = zone.before + 1 => 24 <= Local(t) - Local(s)
      /\ s >= zone.at => Local(t) - Local(s) = 24
    BY <1>2, <1>3, TimerSlope
<1>6. /\ 24 * c <= Local(s) /\ Local(s) < 24 * c + 24
      /\ 24 * d <= Local(t) /\ Local(t) < 24 * d + 24
    BY <1>1, <1>2, <1>4, <1>5
<1>7. DayOf(s) = c /\ DayOf(t) = d
    BY <1>2, <1>3, <1>6, DayOfIs
<1> QED
    BY <1>7 DEF s, t

(* With a schedule from 1 to 22, a day is ordinary unless its own midnight or   *)
(* that of the day before comes out on another day (time.Date at a midnight     *)
(* that the zone skips, NextRunAt).                                             *)
THEOREM OrdinaryUnlessMidnightMoves ==
    ASSUME zone \in Zone, schedule \in 1 .. 22, NEW d \in Int,
           DayOf(Date(d, 0)) = d, DayOf(Date(d - 1, 0)) = d - 1
    PROVE  Ordinary(d)
<1>1. ASSUME NEW k \in Int, DayOf(Date(k, 0)) = k
      PROVE  OnDay(k)
    <2> DEFINE c == k - 1
               g == k + 1
    <2>1. c \in Int /\ g \in Int /\ k = c + 1 /\ g = k + 1
        OBVIOUS
    <2> HIDE DEF c, g
    <2>2. DayOf(Date(c, schedule) + 24) = k
        BY <2>1, ScheduledHour
    <2>3. DayOf(Date(k, schedule)) = k
        BY <2>1, ScheduledHour
    <2> QED
        BY <1>1, <2>2, <2>3 DEF OnDay, c
<1>2. OnDay(d)
    BY <1>1
<1>3. OnDay(d - 1)
    <2> DEFINE c == d - 1
    <2>1. c \in Int /\ DayOf(Date(c, 0)) = c
        OBVIOUS
    <2> HIDE DEF c
    <2>2. OnDay(c)
        BY <1>1, <2>1
    <2> QED
        BY <2>2 DEF c
<1> QED
    BY <1>2, <1>3 DEF Ordinary
=============================================================================
