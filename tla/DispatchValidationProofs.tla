---------------------- MODULE DispatchValidationProofs ----------------------
(***************************************************************************)
(* Proofs about DispatchValidation, for every inventory and every batch.   *)
(* The argument: load, net change and remaining headroom of a capacity     *)
(* always add up to the same total, its safe capacity or, where it was     *)
(* exceeded to begin with, its initial load; and the headroom, from which  *)
(* no increase takes more than there is, is never negative.                *)
(***************************************************************************)
EXTENDS DispatchValidation, SumTheorems

Balanced ==
  \A s \in Scope :
    LoadOn(load, s) + net[s] + left[s] = Larger(SafeOf(s), LoadOn(load, s))

IInv == TypeOK /\ Balanced
-----------------------------------------------------------------------------
(* minPositive of limits that are not negative is one that bounds them all.*)
LEMMA MinPositiveOfNats ==
  ASSUME NEW S, S \subseteq Nat, S # {}
  PROVE  /\ MinPositive(S) \in S
         /\ \A y \in S : MinPositive(S) <= y
<1>1. {x \in S : x >= 0} = S
  <2>1. \A x \in S : x >= 0
    OBVIOUS
  <2> QED BY <2>1
<1>2. MinPositive(S) = CHOOSE x \in S : \A y \in S : x <= y
  BY <1>1 DEF MinPositive
<1>3. \E x \in S : \A y \in S : x <= y
  BY LeastNat
<1> QED BY <1>2, <1>3

(* What is granted is at most what is requested and what any limit leaves. *)
LEMMA GrantedBounds ==
  ASSUME NEW requested \in Nat, NEW limits, \A l \in limits : l.room \in Nat
  PROVE  /\ Granted(requested, limits) \in Nat
         /\ Granted(requested, limits) <= requested
         /\ \A l \in limits : Granted(requested, limits) <= l.room
<1> DEFINE S == {requested} \cup {l.room : l \in limits}
<1>1. S \subseteq Nat /\ S # {}
  OBVIOUS
<1>2. MinPositive(S) \in S /\ \A y \in S : MinPositive(S) <= y
  BY <1>1, MinPositiveOfNats
<1>3. requested \in S /\ \A l \in limits : l.room \in S
  OBVIOUS
<1>4. Granted(requested, limits) = MinPositive(S)
  BY DEF Granted
<1> HIDE DEF S
<1> QED BY <1>1, <1>2, <1>3, <1>4

LEMMA ScopeFacts ==
  ASSUME NEW r \in Rack
  PROVE  /\ Above(r) \subseteq Scope
         /\ UpRamps(r) \subseteq RampScope
         /\ DownRamps(r) \subseteq RampScope
<1>1. Path[r] \subseteq Asset
  BY InventoryAssumption
<1> QED BY <1>1 DEF Above, Scope, RampScope, UpRamps, DownRamps

(* The load on a capacity, summed over the racks, is a natural. *)
LEMMA LoadOnNat ==
  ASSUME NEW rl \in [Rack -> Nat], NEW s
  PROVE  LoadOn(rl, s) \in Nat
<1> DEFINE below == [r \in Rack |-> IF s \in Above(r) THEN rl[r] ELSE 0]
<1>1. \A r \in Rack : below[r] \in Nat
  OBVIOUS
<1> HIDE DEF below
<1>2. SumFunctionOnSet(below, Rack) \in Nat
  BY <1>1, InventoryAssumption, SumIsNat
<1> QED BY <1>2 DEF LoadOn, below

LEMMA SiteSafeNat == SiteSafe \in Nat
<1> DEFINE Total(k) == SumFunctionOnSet(Safe, {a \in Asset : Kind[a] = k})
           S == {SiteOwnSafe} \cup {t \in {Total(k) : k \in Layer} : t > 0}
<1>1. ASSUME NEW k \in Layer PROVE Total(k) \in Nat
  <2>1. {a \in Asset : Kind[a] = k} \subseteq Asset
    OBVIOUS
  <2>2. IsFiniteSet({a \in Asset : Kind[a] = k})
    BY <2>1, InventoryAssumption, FS_Subset
  <2> QED BY <2>2, InventoryAssumption, SumIsNat
<1>2. S \subseteq Nat /\ S # {}
  <2>1. SiteOwnSafe \in Nat
    BY InventoryAssumption
  <2> HIDE DEF Total
  <2> QED BY <1>1, <2>1
<1>3. SiteSafe = MinPositive(S)
  BY DEF SiteSafe
<1> HIDE DEF S
<1> QED BY <1>2, <1>3, MinPositiveOfNats

LEMMA SafeOfNat == ASSUME NEW s \in Scope PROVE SafeOf(s) \in Nat
<1>1. CASE s = Site
  BY <1>1, SiteSafeNat DEF SafeOf, Site
<1>2. CASE s \in {"rack"} \X Rack
  BY <1>2, InventoryAssumption DEF SafeOf
<1>3. CASE s \in {"thermal"} \X Rack
  BY <1>3, InventoryAssumption DEF SafeOf
<1>4. CASE s \in {"asset"} \X Asset
  BY <1>4, InventoryAssumption DEF SafeOf
<1> QED BY <1>1, <1>2, <1>3, <1>4 DEF Scope

LEMMA RampLimitNat ==
  ASSUME NEW s \in RampScope
  PROVE  UpLimit(s) \in Nat /\ DownLimit(s) \in Nat
<1>1. CASE s = Site
  BY <1>1, InventoryAssumption DEF UpLimit, DownLimit
<1>2. CASE s # Site
  <2>1. s[2] \in Rack
    BY <1>2 DEF RampScope
  <2>2. RackRampUp[s[2]] \in Nat /\ RackRampDown[s[2]] \in Nat
    BY <2>1, InventoryAssumption
  <2> QED BY <1>2, <2>2, InventoryAssumption DEF UpLimit, DownLimit
<1> QED BY <1>1, <1>2

(* Counters stay naturals when an amount is taken off or given back. *)
LEMMA CountersOK ==
  ASSUME NEW D, NEW c \in [D -> Nat], NEW S, NEW g \in Nat
  PROVE  /\ CountDown(c, S, g) \in [D -> Nat]
         /\ Add(c, S, g) \in [D -> Nat]
BY DEF CountDown, Add, Larger

LEMMA DecisionTyped ==
  ASSUME TypeOK, NEW i \in Request, NEW st \in Status, NEW a \in Int, NEW v,
         Record(i, st, a, v)
  PROVE  \A j \in Request : /\ decisions'[j].status \in Status
                            /\ decisions'[j].accepted \in Int
BY DEF TypeOK, Record
-----------------------------------------------------------------------------
LEMMA InitIInv == Init => IInv
<1> SUFFICES ASSUME Init PROVE IInv
  OBVIOUS
<1>1. ASSUME NEW s \in Scope
      PROVE  /\ left[s] \in Nat /\ net[s] = 0
             /\ LoadOn(load, s) + net[s] + left[s] =
                  Larger(SafeOf(s), LoadOn(load, s))
  <2>1. LoadOn(load, s) \in Nat /\ SafeOf(s) \in Nat
    BY InventoryAssumption, LoadOnNat, SafeOfNat DEF Init
  <2>2. left[s] = Larger(SafeOf(s) - LoadOn(load, s), 0) /\ net[s] = 0
    BY DEF Init, Available
  <2> QED BY <2>1, <2>2 DEF Larger
<1>2. Balanced
  BY <1>1 DEF Balanced
<1>3. load \in [Rack -> Nat]
  BY InventoryAssumption DEF Init
<1>4. upLeft \in [RampScope -> Nat] /\ downLeft \in [RampScope -> Nat]
  <2>1. ASSUME NEW s \in RampScope, s # Site PROVE load[s[2]] \in Nat
    BY <1>3, <2>1 DEF RampScope
  <2> QED BY <2>1, RampLimitNat DEF Init, Smaller
<1>5. left \in [Scope -> Nat] /\ net \in [Scope -> Int]
  BY <1>1 DEF Init
<1>6. \A i \in Request : /\ decisions[i].status \in Status
                         /\ decisions[i].accepted \in Int
  BY DEF Init, Undecided, Status
<1>7. load \in [Rack -> Load] /\ rackLoad = load /\ summary \in Status
      /\ requests \in [Request -> [rack : Rack \cup {UnknownRack},
                                   delta : Delta]]
  BY DEF Init, Status
<1> QED BY <1>2, <1>3, <1>4, <1>5, <1>6, <1>7 DEF IInv, TypeOK

LEMMA DecideTyped ==
  ASSUME TypeOK, NEW i \in Request, NEW requested, NEW granted,
         NEW accepted \in Int, NEW limits,
         Decide(i, requested, granted, accepted, limits)
  PROVE  \A j \in Request : /\ decisions'[j].status \in Status
                            /\ decisions'[j].accepted \in Int
<1>1. {"rejected", "partial", "accepted"} \subseteq Status
  BY DEF Status
<1>2. PICK st \in {"rejected", "partial", "accepted"} :
        \E v : Record(i, st, accepted, v)
  BY DEF Decide
<1> QED BY <1>1, <1>2, DecisionTyped

LEMMA BalancedKept ==
  ASSUME IInv, TypeOK', load' = load,
         \A s \in Scope : net'[s] + left'[s] = net[s] + left[s]
  PROVE  Balanced'
<1> SUFFICES ASSUME NEW s \in Scope
             PROVE  LoadOn(load, s) + net'[s] + left'[s] =
                      Larger(SafeOf(s), LoadOn(load, s))
  BY DEF Balanced
<1>1. LoadOn(load, s) \in Nat
  BY InventoryAssumption, LoadOnNat DEF IInv, TypeOK
<1>2. /\ left[s] \in Nat /\ left'[s] \in Nat
      /\ net[s] \in Int /\ net'[s] \in Int
  BY DEF IInv, TypeOK
<1>3. LoadOn(load, s) + net[s] + left[s] = Larger(SafeOf(s), LoadOn(load, s))
  BY DEF IInv, Balanced
<1> QED BY <1>1, <1>2, <1>3

(* A reduction moves what it grants from the load to the headroom. *)
LEMMA ReduceIInv ==
  ASSUME IInv, NEW i \in Request, Reduce(i),
         UNCHANGED <<load, requests, summary>>
  PROVE  IInv'
<1> DEFINE r == requests[i].rack
           requested == -requests[i].delta
           granted == Granted(requested, ReductionLimits(r))
<1>1. TypeOK /\ Balanced
  BY DEF IInv
<1>2. r \in Rack /\ requested \in Nat
  <2>1. requests[i].delta \in Int
    BY <1>1, InventoryAssumption DEF TypeOK
  <2>2. r \in Rack /\ requests[i].delta < 0
    BY DEF Reduce
  <2> QED BY <2>1, <2>2
<1>3. \A l \in ReductionLimits(r) : l.room \in Nat
  BY <1>1, <1>2, ScopeFacts DEF ReductionLimits, TypeOK
<1>4. granted \in Nat
  BY <1>2, <1>3, GrantedBounds
<1>5. /\ Decide(i, requested, granted, -granted, ReductionLimits(r))
      /\ rackLoad' = [rackLoad EXCEPT ![r] = Larger(@ - granted, 0)]
      /\ left' = Add(left, Above(r), granted)
      /\ downLeft' = CountDown(downLeft, DownRamps(r), granted)
      /\ net' = Add(net, Above(r), -granted)
      /\ upLeft' = upLeft
  BY DEF Reduce, ApplyReduction
<1> HIDE DEF granted, requested, r
<1>6. /\ left' \in [Scope -> Nat] /\ downLeft' \in [RampScope -> Nat]
      /\ upLeft' \in [RampScope -> Nat]
  BY <1>1, <1>4, <1>5, CountersOK DEF TypeOK
<1>7. net' \in [Scope -> Int] /\ rackLoad' \in [Rack -> Nat]
  BY <1>1, <1>2, <1>4, <1>5 DEF TypeOK, Add, Larger
<1>8. \A j \in Request : /\ decisions'[j].status \in Status
                         /\ decisions'[j].accepted \in Int
  BY <1>1, <1>4, <1>5, DecideTyped
<1>9. TypeOK'
  BY <1>1, <1>6, <1>7, <1>8 DEF TypeOK
<1>10. ASSUME NEW s \in Scope PROVE net'[s] + left'[s] = net[s] + left[s]
  <2>1. left[s] \in Nat /\ net[s] \in Int
    BY <1>1 DEF TypeOK
  <2>2. /\ DOMAIN left = Scope /\ DOMAIN net = Scope
    BY <1>1 DEF TypeOK
  <2> QED BY <1>4, <1>5, <2>1, <2>2 DEF Add
<1> QED BY <1>9, <1>10, BalancedKept DEF IInv

(* An increase moves what it grants from the headroom to the load; it is   *)
(* granted no more than any capacity above the rack has left.              *)
LEMMA IncreaseIInv ==
  ASSUME IInv, NEW i \in Request, Increase(i),
         UNCHANGED <<load, requests, summary>>
  PROVE  IInv'
<1> DEFINE r == requests[i].rack
           requested == requests[i].delta
           granted == Granted(requested, IncreaseLimits(r))
<1>1. TypeOK /\ Balanced
  BY DEF IInv
<1>2. r \in Rack /\ requested \in Nat
  <2>1. requests[i].delta \in Int
    BY <1>1, InventoryAssumption DEF TypeOK
  <2>2. r \in Rack /\ requests[i].delta > 0
    BY DEF Increase
  <2> QED BY <2>1, <2>2
<1>3. \A l \in IncreaseLimits(r) : l.room \in Nat
  BY <1>1, <1>2, ScopeFacts DEF IncreaseLimits, TypeOK
<1>4. granted \in Nat /\ \A l \in IncreaseLimits(r) : granted <= l.room
  BY <1>2, <1>3, GrantedBounds
<1>5. \A s \in Above(r) : granted <= left[s]
  <2>1. ASSUME NEW s \in Above(r) PROVE granted <= left[s]
    <3> DEFINE l == [kind |-> "capacity", scope |-> s, room |-> left[s]]
    <3>1. l \in IncreaseLimits(r) /\ l.room = left[s]
      BY DEF IncreaseLimits
    <3> HIDE DEF l, granted
    <3> QED BY <1>4, <3>1
  <2> QED BY <2>1
<1>6. /\ Decide(i, requested, granted, granted, IncreaseLimits(r))
      /\ rackLoad' = [rackLoad EXCEPT ![r] = @ + granted]
      /\ left' = CountDown(left, Above(r), granted)
      /\ upLeft' = CountDown(upLeft, UpRamps(r), granted)
      /\ net' = Add(net, Above(r), granted)
      /\ downLeft' = downLeft
  BY DEF Increase, ApplyIncrease
<1> HIDE DEF granted, requested, r
<1>7. /\ left' \in [Scope -> Nat] /\ downLeft' \in [RampScope -> Nat]
      /\ upLeft' \in [RampScope -> Nat]
  BY <1>1, <1>4, <1>6, CountersOK DEF TypeOK
<1>8. net' \in [Scope -> Int] /\ rackLoad' \in [Rack -> Nat]
  BY <1>1, <1>2, <1>4, <1>6 DEF TypeOK, Add
<1>9. \A j \in Request : /\ decisions'[j].status \in Status
                         /\ decisions'[j].accepted \in Int
  BY <1>1, <1>4, <1>6, DecideTyped
<1>10. TypeOK'
  BY <1>1, <1>7, <1>8, <1>9 DEF TypeOK
<1>11. ASSUME NEW s \in Scope PROVE net'[s] + left'[s] = net[s] + left[s]
  <2>1. left[s] \in Nat /\ net[s] \in Int
    BY <1>1 DEF TypeOK
  <2>2. DOMAIN left = Scope /\ DOMAIN net = Scope
    BY <1>1 DEF TypeOK
  <2>3. CASE s \in Above(r)
    BY <1>4, <1>5, <1>6, <2>1, <2>2, <2>3 DEF Add, CountDown, Larger
  <2>4. CASE s \notin Above(r)
    BY <1>6, <2>1, <2>2, <2>4 DEF Add, CountDown
  <2> QED BY <2>3, <2>4
<1> QED BY <1>10, <1>11, BalancedKept DEF IInv

(* A decision that grants nothing leaves every counter alone. *)
LEMMA NothingGranted ==
  ASSUME IInv, NEW i \in Request, NEW st \in Status, NEW v,
         Record(i, st, 0, v),
         UNCHANGED <<load, requests, summary, left, upLeft, downLeft,
                     rackLoad, net>>
  PROVE  IInv'
<1>1. TypeOK /\ Balanced
  BY DEF IInv
<1>2. \A j \in Request : /\ decisions'[j].status \in Status
                         /\ decisions'[j].accepted \in Int
  BY <1>1, DecisionTyped
<1>3. TypeOK'
  BY <1>1, <1>2 DEF TypeOK
<1> QED BY <1>3, BalancedKept DEF IInv

LEMMA NextIInv == IInv /\ [Next]_vars => IInv'
<1> SUFFICES ASSUME IInv, [Next]_vars PROVE IInv'
  OBVIOUS
<1>1. "rejected" \in Status /\ "accepted" \in Status
  BY DEF Status
<1>2. ASSUME NEW i \in Request,
             \/ RejectUnknownRack(i) \/ AcceptNoChange(i)
             \/ RejectSafetyBlocked(i) \/ Reduce(i) \/ Increase(i),
             UNCHANGED <<load, requests, summary>>
      PROVE  IInv'
  <2>1. CASE RejectUnknownRack(i)
    BY <1>1, <1>2, <2>1, NothingGranted DEF RejectUnknownRack, Refuse
  <2>2. CASE AcceptNoChange(i)
    BY <1>1, <1>2, <2>2, NothingGranted DEF AcceptNoChange
  <2>3. CASE RejectSafetyBlocked(i)
    BY <1>1, <1>2, <2>3, NothingGranted DEF RejectSafetyBlocked, Refuse
  <2>4. CASE Reduce(i)
    BY <1>2, <2>4, ReduceIInv
  <2>5. CASE Increase(i)
    BY <1>2, <2>5, IncreaseIInv
  <2> QED BY <1>2, <2>1, <2>2, <2>3, <2>4, <2>5
<1>3. CASE Summarize
  <2>1. UNCHANGED <<load, requests, decisions, left, upLeft, downLeft,
                    rackLoad, net>>
    BY <1>3 DEF Summarize
  <2>2. summary' \in Status
    BY <1>3 DEF Summarize, Status
  <2>3. TypeOK'
    BY <2>1, <2>2 DEF IInv, TypeOK
  <2> QED BY <2>1, <2>3, BalancedKept DEF IInv
<1>4. CASE UNCHANGED vars
  <2>1. TypeOK'
    BY <1>4 DEF IInv, TypeOK, vars
  <2> QED BY <1>4, <2>1, BalancedKept DEF IInv, vars
<1> QED BY <1>2, <1>3, <1>4 DEF Next

LEMMA IInvHolds == Spec => []IInv
BY InitIInv, NextIInv, PTL DEF Spec
-----------------------------------------------------------------------------
(* The validator's counters stay well-typed: in particular no headroom and *)
(* no ramp allowance of ValidateDispatch is ever negative.                 *)
THEOREM TypeCorrect == Spec => []TypeOK
BY IInvHolds, PTL DEF IInv

(* ValidateDispatch never accepts changes that take a site, rack, thermal, *)
(* bus, feeder or PDU load above its safe capacity, or, where it was above *)
(* it when the budget was computed, above that load.                       *)
THEOREM CapacityRespectedHolds == Spec => []CapacityRespected
<1>1. IInv => CapacityRespected
  <2> SUFFICES ASSUME IInv, NEW s \in Scope
               PROVE  LoadOn(load, s) + net[s] <=
                        Larger(SafeOf(s), LoadOn(load, s))
    BY DEF CapacityRespected
  <2>1. left[s] \in Nat /\ net[s] \in Int /\ LoadOn(load, s) \in Nat
    BY InventoryAssumption, LoadOnNat DEF IInv, TypeOK
  <2>2. LoadOn(load, s) + net[s] + left[s] =
          Larger(SafeOf(s), LoadOn(load, s))
    BY DEF IInv, Balanced
  <2> QED BY <2>1, <2>2
<1> QED BY <1>1, IInvHolds, PTL
-----------------------------------------------------------------------------
(* The second invariant, of the decisions.  The counters follow the racks  *)
(* and what was accepted; the batch is decided in the order Before gives;  *)
(* and once only the site stood in the way of a request, the site has      *)
(* nothing left for the requests of its direction that come after it.      *)
LimitKind == {"load", "ramp_down", "capacity", "ramp_up", "not_found",
              "safety_blocked"}
LimitScope == Scope \cup {<<"rack", UnknownRack>>}
Decision == [status : Status, accepted : Int,
             violations : SUBSET (LimitKind \X LimitScope)]
Explained(d) == (d.violations # {}) <=> (d.status \in {"partial", "rejected"})

(* A ramp limit is what is left of it and what was accepted against it. *)
RampInv ==
  \A s \in RampScope :
    /\ UpLimit(s) > 0 => upLeft[s] + Raised(s) = UpLimit(s)
    /\ DownLimit(s) > 0 =>
         downLeft[s] + Lowered(s) =
           IF s = Site THEN DownLimit(s) ELSE Smaller(load[s[2]], DownLimit(s))

InOrder ==
  \A i, j \in Request :
    decisions[i].status # "none" /\ decisions[j].status = "none" => Before(i, j)

(* Only the site stood in the way of request i. *)
SiteAlone(i) == /\ decisions[i].violations # {}
                /\ \A v \in decisions[i].violations : v[2] = Site

SiteExhausted ==
  \A i \in Request : SiteAlone(i) /\ requests[i].rack \in Rack =>
    /\ requests[i].delta < 0 => DownLimit(Site) > 0 /\ downLeft[Site] = 0
    /\ requests[i].delta > 0 => \/ left[Site] = 0
                                \/ UpLimit(Site) > 0 /\ upLeft[Site] = 0

DInv ==
  /\ decisions \in [Request -> Decision]
  /\ \A i \in Request : /\ decisions[i].status = "none" => decisions[i].accepted = 0
                        /\ Explained(decisions[i])
  /\ NetIsLoad
  /\ RampInv
  /\ InOrder
  /\ SiteExhausted
  /\ NoPriorityInversion
  /\ summary # "none" => "none" \notin Statuses
  /\ SummaryAgrees
-----------------------------------------------------------------------------
LEMMA RequestFacts ==
  ASSUME IInv, NEW i \in Request
  PROVE  /\ requests[i].delta \in Int /\ i \in Nat
         /\ requests[i].rack \in Rack \cup {UnknownRack}
BY InventoryAssumption DEF IInv, TypeOK

LEMMA RankFacts ==
  ASSUME IInv, NEW i \in Request
  PROVE  /\ CurtailmentPriority(requests[i].rack) \in Int
         /\ CriticalityRank(requests[i].rack) \in Int
<1>1. CASE requests[i].rack \notin Rack
  BY <1>1 DEF CurtailmentPriority, CriticalityRank
<1>2. CASE requests[i].rack \in Rack
  <2>1. Class[requests[i].rack] \in LoadClass
    BY <1>2, InventoryAssumption
  <2> QED BY <1>2, <2>1 DEF CurtailmentPriority, CriticalityRank, LoadClass
<1> QED BY <1>1, <1>2

(* The order in which the batch is decided is one. *)
LEMMA BeforeFacts ==
  ASSUME IInv, NEW i \in Request, NEW j \in Request
  PROVE  /\ ~(Before(i, j) /\ Before(j, i))
         /\ Outranks(i, j) => Before(i, j)
         /\ Before(i, j) /\ requests[i].delta > 0 => requests[j].delta > 0
<1>1. PICK di \in Int, dj \in Int :
        di = requests[i].delta /\ dj = requests[j].delta
  BY RequestFacts
<1>2. PICK ri \in Int, rj \in Int :
        /\ ri = CriticalityRank(requests[i].rack)
        /\ rj = CriticalityRank(requests[j].rack)
  BY RankFacts
<1>3. PICK ci \in Int, cj \in Int :
        /\ ci = CurtailmentPriority(requests[i].rack)
        /\ cj = CurtailmentPriority(requests[j].rack)
  BY RankFacts
<1>4. PICK pi \in Int, pj \in Int :
        /\ pi = IF di < 0 THEN ci ELSE -ri
        /\ pj = IF dj < 0 THEN cj ELSE -rj
  OBVIOUS
<1>5. /\ Direction(di) = IF di < 0 THEN -1 ELSE IF di = 0 THEN 0 ELSE 1
      /\ Direction(dj) = IF dj < 0 THEN -1 ELSE IF dj = 0 THEN 0 ELSE 1
  BY DEF Direction
<1>6. Before(i, j) <=>
        \/ Direction(di) < Direction(dj)
        \/ /\ Direction(di) = Direction(dj)
           /\ \/ pi < pj
              \/ pi = pj /\ di < 0 /\ di < dj
              \/ pi = pj /\ (di < 0 => di = dj) /\ i < j
  BY <1>1, <1>2, <1>3, <1>4 DEF Before
<1>7. Before(j, i) <=>
        \/ Direction(dj) < Direction(di)
        \/ /\ Direction(dj) = Direction(di)
           /\ \/ pj < pi
              \/ pj = pi /\ dj < 0 /\ dj < di
              \/ pj = pi /\ (dj < 0 => dj = di) /\ j < i
  BY <1>1, <1>2, <1>3, <1>4 DEF Before
<1>8. i \in Nat /\ j \in Nat
  BY InventoryAssumption
<1>9. ~(Before(i, j) /\ Before(j, i))
  BY <1>5, <1>6, <1>7, <1>8
<1>10. Outranks(i, j) => Before(i, j)
  <2>1. Outranks(i, j) => \/ di < 0 /\ dj < 0 /\ ci < cj
                          \/ di > 0 /\ dj > 0 /\ ri > rj
    BY <1>1, <1>2, <1>3 DEF Outranks
  <2> QED BY <1>4, <1>5, <1>6, <2>1
<1>11. Before(i, j) /\ di > 0 => dj > 0
  BY <1>5, <1>6
<1> QED BY <1>1, <1>9, <1>10, <1>11

(* What a decision on request i has to show for the second invariant. *)
LEMMA DecisionStep ==
  ASSUME IInv, DInv, NEW i \in Request, NextRequest(i), NEW a \in Int,
         decisions' \in [Request -> Decision],
         \A j \in Request : j # i => decisions'[j] = decisions[j],
         decisions'[i].status # "none", decisions'[i].accepted = a,
         Explained(decisions'[i]),
         requests' = requests, load' = load, summary' = summary,
         requests[i].delta > 0 /\ left[Site] = 0 => left'[Site] = 0,
         upLeft[Site] = 0 => upLeft'[Site] = 0,
         downLeft[Site] = 0 => downLeft'[Site] = 0,
         SiteAlone(i)' /\ requests[i].rack \in Rack =>
           /\ requests[i].delta < 0 => DownLimit(Site) > 0 /\ downLeft'[Site] = 0
           /\ requests[i].delta > 0 => \/ left'[Site] = 0
                                       \/ UpLimit(Site) > 0 /\ upLeft'[Site] = 0,
         requests[i].rack \in Rack /\ ~SafetyBlocked(requests[i].rack) =>
           /\ requests[i].delta < 0 /\ DownLimit(Site) > 0 /\ downLeft[Site] = 0
                => a = 0
           /\ requests[i].delta > 0 /\ \/ left[Site] = 0
                                       \/ UpLimit(Site) > 0 /\ upLeft[Site] = 0
                => a = 0,
         NetIsLoad', RampInv'
  PROVE  DInv'
<1>1. /\ decisions[i].status = "none" /\ decisions[i].accepted = 0
      /\ decisions[i].violations = {}
  BY DEF NextRequest, DInv, Explained
<1>2. \A j \in Request : /\ decisions'[j].status = "none" => decisions'[j].accepted = 0
                         /\ Explained(decisions[j])'
  <2> SUFFICES ASSUME NEW j \in Request
               PROVE  /\ decisions'[j].status = "none" => decisions'[j].accepted = 0
                      /\ Explained(decisions[j])'
    OBVIOUS
  <2>1. Explained(decisions'[j])
    BY DEF DInv
  <2>2. decisions'[j].status = "none" => decisions'[j].accepted = 0
    BY DEF DInv
  <2> QED BY <2>1, <2>2 DEF Explained
<1>3. \A k, j \in Request : Before(k, j)' <=> Before(k, j)
  BY DEF Before
<1>4. InOrder'
  <2> SUFFICES ASSUME NEW k \in Request, NEW j \in Request,
                      decisions'[k].status # "none", decisions'[j].status = "none"
               PROVE  Before(k, j)
    BY <1>3 DEF InOrder
  <2>1. j # i /\ decisions[j].status = "none"
    OBVIOUS
  <2>2. CASE k = i
    BY <2>1, <2>2 DEF NextRequest
  <2>3. CASE k # i
    BY <2>1, <2>3 DEF DInv, InOrder
  <2> QED BY <2>2, <2>3
<1>5. ASSUME NEW k \in Request, k # i, decisions[k].violations # {}
      PROVE  Before(k, i)
  <2>1. decisions[k].status # "none"
    BY <1>5 DEF DInv, Explained
  <2> QED BY <1>1, <2>1 DEF DInv, InOrder
<1>6. \A k \in Request : k # i => (SiteAlone(k)' <=> SiteAlone(k))
  BY DEF SiteAlone
<1>7. SiteExhausted'
  <2> SUFFICES ASSUME NEW k \in Request, SiteAlone(k)', requests[k].rack \in Rack
               PROVE  /\ requests[k].delta < 0 =>
                           DownLimit(Site) > 0 /\ downLeft'[Site] = 0
                      /\ requests[k].delta > 0 =>
                           \/ left'[Site] = 0
                           \/ UpLimit(Site) > 0 /\ upLeft'[Site] = 0
    BY DEF SiteExhausted, DownLimit, UpLimit
  <2>1. CASE k # i
    <3>1. SiteAlone(k) /\ Before(k, i)
      BY <1>5, <1>6, <2>1 DEF SiteAlone
    <3>2. requests[k].delta > 0 => requests[i].delta > 0
      BY <3>1, BeforeFacts
    <3> QED BY <3>1, <3>2 DEF DInv, SiteExhausted
  <2>2. CASE k = i
    BY <2>2
  <2> QED BY <2>1, <2>2
<1>8. NoPriorityInversion'
  <2> SUFFICES ASSUME NEW k \in Request, NEW j \in Request, Outranks(k, j),
                      SiteAlone(k)', ~SafetyBlocked(requests[j].rack)
               PROVE  decisions'[j].accepted = 0
    BY DEF NoPriorityInversion, Outranks, SiteAlone, SafetyBlocked
  <2>1. Before(k, j)
    BY BeforeFacts
  <2>2. k # j
    BY <2>1, BeforeFacts
  <2>3. CASE k # i /\ j # i
    BY <1>6, <2>3 DEF DInv, NoPriorityInversion, SiteAlone
  <2>4. CASE k = i
    <3>1. decisions[j].status = "none"
      <4> SUFFICES ASSUME decisions[j].status # "none" PROVE FALSE
        OBVIOUS
      <4>1. Before(j, i)
        BY <1>1 DEF DInv, InOrder
      <4> QED BY <2>1, <2>4, <4>1, BeforeFacts
    <3> QED BY <2>2, <2>4, <3>1 DEF DInv
  <2>5. CASE j = i /\ k # i
    <3>1. SiteAlone(k)
      BY <1>6, <2>5
    <3>2. /\ requests[k].rack \in Rack /\ requests[i].rack \in Rack
          /\ \/ requests[k].delta < 0 /\ requests[i].delta < 0
             \/ requests[k].delta > 0 /\ requests[i].delta > 0
      BY <2>5 DEF Outranks
    <3> QED BY <2>5, <3>1, <3>2 DEF DInv, SiteExhausted
  <2> QED BY <2>3, <2>4, <2>5
<1>9. summary = "none" /\ summary' = "none"
  <2>1. "none" \in Statuses
    BY <1>1 DEF Statuses
  <2> QED BY <2>1 DEF DInv
<1>10. SummaryAgrees'
  BY <1>9 DEF SummaryAgrees
<1> QED BY <1>2, <1>4, <1>7, <1>8, <1>9, <1>10 DEF DInv
-----------------------------------------------------------------------------
(* What one decision adds to the sums over the batch and over the racks. *)
LEMMA RaisedChanges ==
  ASSUME IInv, DInv, NEW i \in Request, NEW a \in Int, NEW s,
         decisions[i].accepted = 0,
         decisions' \in [Request -> Decision],
         \A j \in Request : j # i => decisions'[j] = decisions[j],
         decisions'[i].accepted = a, requests' = requests
  PROVE  /\ Raised(s) \in Int
         /\ Raised(s)' = Raised(s) +
              (IF a > 0 /\ s \in {Site, <<"rack", requests[i].rack>>} THEN a ELSE 0)
<1> DEFINE On(j) == s \in {Site, <<"rack", requests[j].rack>>}
           f == [j \in Request |->
                   IF decisions[j].accepted > 0 /\ On(j) THEN decisions[j].accepted ELSE 0]
           g == [j \in Request |->
                   IF decisions'[j].accepted > 0 /\ On(j) THEN decisions'[j].accepted ELSE 0]
<1>1. \A j \in Request : decisions[j].accepted \in Int /\ decisions'[j].accepted \in Int
  BY DEF DInv, Decision
<1>2. Raised(s) = SumFunctionOnSet(f, Request)
  BY DEF Raised
<1>3. Raised(s)' = SumFunctionOnSet(g, Request)
  BY DEF Raised
<1>4. \A j \in Request : f[j] \in Int /\ g[j] \in Int
  <2> HIDE DEF On
  <2> QED BY <1>1
<1>5. \A j \in Request : j # i => g[j] = f[j]
  OBVIOUS
<1>6. f[i] = 0 /\ g[i] = IF a > 0 /\ On(i) THEN a ELSE 0
  <2> HIDE DEF On
  <2> QED OBVIOUS
<1> HIDE DEF f, g
<1>7. IsFiniteSet(Request)
  BY InventoryAssumption
<1>8. SumFunctionOnSet(g, Request) = SumFunctionOnSet(f, Request) + (g[i] - f[i])
  BY <1>4, <1>5, <1>7, SumChanges
<1>9. SumFunctionOnSet(f, Request) \in Int
  BY <1>4, <1>7, SumIsInt
<1>10. g[i] - f[i] = IF a > 0 /\ On(i) THEN a ELSE 0
  <2> HIDE DEF On
  <2> QED BY <1>6
<1> QED BY <1>2, <1>3, <1>8, <1>9, <1>10

LEMMA LoweredChanges ==
  ASSUME IInv, DInv, NEW i \in Request, NEW a \in Int, NEW s,
         decisions[i].accepted = 0,
         decisions' \in [Request -> Decision],
         \A j \in Request : j # i => decisions'[j] = decisions[j],
         decisions'[i].accepted = a, requests' = requests
  PROVE  /\ Lowered(s) \in Int
         /\ Lowered(s)' = Lowered(s) +
              (IF /\ a < 0 /\ ~SafetyBlocked(requests[i].rack)
                  /\ s \in {Site, <<"rack", requests[i].rack>>} THEN -a ELSE 0)
<1> DEFINE On(j) == ~SafetyBlocked(requests[j].rack)
                      /\ s \in {Site, <<"rack", requests[j].rack>>}
           f == [j \in Request |->
                   IF decisions[j].accepted < 0 /\ On(j) THEN -decisions[j].accepted ELSE 0]
           g == [j \in Request |->
                   IF decisions'[j].accepted < 0 /\ On(j) THEN -decisions'[j].accepted ELSE 0]
<1>1. \A j \in Request : decisions[j].accepted \in Int /\ decisions'[j].accepted \in Int
  BY DEF DInv, Decision
<1>2. Lowered(s) = SumFunctionOnSet(f, Request)
  <2>1. f = [j \in Request |->
              IF /\ decisions[j].accepted < 0
                 /\ ~SafetyBlocked(requests[j].rack)
                 /\ s \in {Site, <<"rack", requests[j].rack>>}
              THEN -decisions[j].accepted ELSE 0]
    OBVIOUS
  <2> QED BY <2>1 DEF Lowered
<1>3. Lowered(s)' = SumFunctionOnSet(g, Request)
  <2>1. g = [j \in Request |->
              IF /\ decisions'[j].accepted < 0
                 /\ ~SafetyBlocked(requests'[j].rack)
                 /\ s \in {Site, <<"rack", requests'[j].rack>>}
              THEN -decisions'[j].accepted ELSE 0]
    OBVIOUS
  <2>2. \A j \in Request : SafetyBlocked(requests[j].rack)' = SafetyBlocked(requests'[j].rack)
    BY DEF SafetyBlocked
  <2> QED BY <2>1, <2>2 DEF Lowered
<1>4. \A j \in Request : f[j] \in Int /\ g[j] \in Int
  <2> HIDE DEF On
  <2> QED BY <1>1
<1>5. \A j \in Request : j # i => g[j] = f[j]
  OBVIOUS
<1>6. f[i] = 0 /\ g[i] = IF a < 0 /\ On(i) THEN -a ELSE 0
  <2> HIDE DEF On
  <2> QED OBVIOUS
<1> HIDE DEF f, g
<1>7. IsFiniteSet(Request)
  BY InventoryAssumption
<1>8. SumFunctionOnSet(g, Request) = SumFunctionOnSet(f, Request) + (g[i] - f[i])
  BY <1>4, <1>5, <1>7, SumChanges
<1>9. SumFunctionOnSet(f, Request) \in Int
  BY <1>4, <1>7, SumIsInt
<1>10. g[i] - f[i] = IF a < 0 /\ On(i) THEN -a ELSE 0
  <2> HIDE DEF On
  <2> QED BY <1>6
<1> QED BY <1>2, <1>3, <1>8, <1>9, <1>10

LEMMA LoadChanges ==
  ASSUME NEW rl \in [Rack -> Nat], NEW r \in Rack, NEW v \in Nat, NEW s
  PROVE  LoadOn([rl EXCEPT ![r] = v], s) =
           LoadOn(rl, s) + (IF s \in Above(r) THEN v - rl[r] ELSE 0)
<1> DEFINE f == [x \in Rack |-> IF s \in Above(x) THEN rl[x] ELSE 0]
           new == [rl EXCEPT ![r] = v]
           g == [x \in Rack |-> IF s \in Above(x) THEN new[x] ELSE 0]
<1>1. new[r] = v /\ \A x \in Rack : new[x] \in Nat /\ (x # r => new[x] = rl[x])
  OBVIOUS
<1>2. LoadOn(rl, s) = SumFunctionOnSet(f, Rack) /\ LoadOn(new, s) = SumFunctionOnSet(g, Rack)
  BY DEF LoadOn
<1> HIDE DEF new
<1>3. /\ \A x \in Rack : f[x] \in Int /\ g[x] \in Int
      /\ \A x \in Rack : x # r => g[x] = f[x]
  BY <1>1
<1>4. g[r] - f[r] = IF s \in Above(r) THEN v - rl[r] ELSE 0
  BY <1>1
<1> HIDE DEF f, g
<1>5. SumFunctionOnSet(g, Rack) = SumFunctionOnSet(f, Rack) + (g[r] - f[r])
  BY <1>3, InventoryAssumption, SumChanges
<1> QED BY <1>2, <1>4, <1>5 DEF new
-----------------------------------------------------------------------------
(* What recording a decision writes. *)
LEMMA RecordOutcome ==
  ASSUME DInv, NEW i \in Request, NEW st \in Status, NEW a \in Int, NEW V,
         \A v \in V : v.kind \in LimitKind /\ v.scope \in LimitScope,
         Record(i, st, a, V)
  PROVE  /\ decisions' \in [Request -> Decision]
         /\ \A j \in Request : j # i => decisions'[j] = decisions[j]
         /\ decisions'[i].status = st /\ decisions'[i].accepted = a
         /\ decisions'[i].violations = {<<v.kind, v.scope>> : v \in V}
<1> DEFINE W == {<<v.kind, v.scope>> : v \in V}
           d == [status |-> st, accepted |-> a, violations |-> W]
<1>1. decisions \in [Request -> Decision]
  BY DEF DInv
<1>2. W \subseteq LimitKind \X LimitScope
  OBVIOUS
<1>3. decisions' = [decisions EXCEPT ![i] = d]
  BY DEF Record
<1> HIDE DEF W
<1>4. /\ d \in Decision
      /\ d.status = st /\ d.accepted = a /\ d.violations = W
  BY <1>2 DEF Decision
<1> HIDE DEF d
<1>5. /\ decisions' \in [Request -> Decision] /\ decisions'[i] = d
      /\ \A j \in Request : j # i => decisions'[j] = decisions[j]
  BY <1>1, <1>3, <1>4
<1> QED BY <1>4, <1>5 DEF W

(* Unless all of it is granted, one of the limits leaves just that much.   *)
LEMMA GrantedIsARoom ==
  ASSUME NEW requested \in Nat, NEW limits, \A l \in limits : l.room \in Nat
  PROVE  \/ Granted(requested, limits) = requested
         \/ \E l \in limits : l.room = Granted(requested, limits)
<1> DEFINE S == {requested} \cup {l.room : l \in limits}
<1>1. S \subseteq Nat /\ S # {}
  OBVIOUS
<1>2. MinPositive(S) \in S
  BY <1>1, MinPositiveOfNats
<1>3. Granted(requested, limits) = MinPositive(S)
  BY DEF Granted
<1> QED BY <1>2, <1>3

(* What a decision that compares the request with its limits shows. *)
LEMMA DecideOutcome ==
  ASSUME DInv, NEW i \in Request, NEW requested \in Nat, requested > 0,
         NEW accepted \in Int, NEW limits,
         \A l \in limits : /\ l.room \in Nat /\ l.kind \in LimitKind
                           /\ l.scope \in LimitScope,
         NEW granted, granted = Granted(requested, limits),
         Decide(i, requested, granted, accepted, limits)
  PROVE  /\ decisions' \in [Request -> Decision]
         /\ \A j \in Request : j # i => decisions'[j] = decisions[j]
         /\ decisions'[i].status # "none" /\ decisions'[i].accepted = accepted
         /\ Explained(decisions'[i])
         /\ SiteAlone(i)' => \E l \in limits : l.scope = Site /\ l.room = granted
<1> DEFINE B == Broken(requested, limits)
<1>1. granted \in Nat /\ granted <= requested
  BY GrantedBounds
<1>2. ASSUME granted < requested
      PROVE  \E l \in B : l.room = granted
  BY <1>1, <1>2, GrantedIsARoom DEF Broken
<1>3. \A l \in B : l \in limits
  BY DEF Broken
<1>4. "rejected" \in Status /\ "partial" \in Status /\ "accepted" \in Status
  BY DEF Status
<1>5. CASE granted < requested
  <2>1. PICK st \in {"rejected", "partial"} : Record(i, st, accepted, B)
    BY <1>1, <1>5 DEF Decide
  <2> HIDE DEF B
  <2>2. /\ decisions' \in [Request -> Decision]
        /\ \A j \in Request : j # i => decisions'[j] = decisions[j]
        /\ decisions'[i].status = st /\ decisions'[i].accepted = accepted
        /\ decisions'[i].violations = {<<v.kind, v.scope>> : v \in B}
    BY <1>3, <1>4, <2>1, RecordOutcome
  <2>3. PICK l \in B : l.room = granted
    BY <1>2, <1>5
  <2>4. <<l.kind, l.scope>> \in decisions'[i].violations
    BY <2>2, <2>3
  <2>5. Explained(decisions'[i])
    BY <2>2, <2>4 DEF Explained
  <2>6. SiteAlone(i)' => l.scope = Site
    BY <2>4 DEF SiteAlone
  <2> QED BY <1>3, <2>2, <2>3, <2>5, <2>6
<1>6. CASE granted = requested
  <2>1. Record(i, "accepted", accepted, {})
    BY <1>1, <1>6 DEF Decide
  <2>2. /\ decisions' \in [Request -> Decision]
        /\ \A j \in Request : j # i => decisions'[j] = decisions[j]
        /\ decisions'[i].status = "accepted" /\ decisions'[i].accepted = accepted
        /\ decisions'[i].violations = {}
    <3>1. {<<v.kind, v.scope>> : v \in {}} = {}
      OBVIOUS
    <3>2. \A v \in {} : v.kind \in LimitKind /\ v.scope \in LimitScope
      OBVIOUS
    <3> QED BY <1>4, <2>1, <3>1, <3>2, RecordOutcome
  <2> QED BY <2>2 DEF Explained, SiteAlone
<1> QED BY <1>1, <1>5, <1>6
-----------------------------------------------------------------------------
(* The ramp limits after a decision that accepts a, given what it does to  *)
(* the counters.                                                           *)
LEMMA RampsKept ==
  ASSUME IInv, DInv, NEW i \in Request, NEW a \in Int,
         decisions[i].accepted = 0,
         decisions' \in [Request -> Decision],
         \A j \in Request : j # i => decisions'[j] = decisions[j],
         decisions'[i].accepted = a, requests' = requests, load' = load,
         NEW r, r = requests[i].rack,
         \A s \in RampScope :
           /\ UpLimit(s) > 0 =>
                upLeft'[s] = upLeft[s] -
                  (IF a > 0 /\ s \in {Site, <<"rack", r>>} THEN a ELSE 0)
           /\ DownLimit(s) > 0 =>
                downLeft'[s] = downLeft[s] -
                  (IF a < 0 /\ ~SafetyBlocked(r) /\ s \in {Site, <<"rack", r>>}
                   THEN -a ELSE 0)
  PROVE  RampInv'
<1> SUFFICES ASSUME NEW s \in RampScope
             PROVE  /\ UpLimit(s) > 0 => upLeft'[s] + Raised(s)' = UpLimit(s)
                    /\ DownLimit(s) > 0 =>
                         downLeft'[s] + Lowered(s)' =
                           IF s = Site THEN DownLimit(s)
                           ELSE Smaller(load[s[2]], DownLimit(s))
  <2>1. /\ \A s \in RampScope : UpLimit(s)' = UpLimit(s) /\ DownLimit(s)' = DownLimit(s)
    BY DEF UpLimit, DownLimit
  <2> QED BY <2>1 DEF RampInv
<1>1. PICK up \in Int : up = IF a > 0 /\ s \in {Site, <<"rack", r>>} THEN a ELSE 0
  OBVIOUS
<1>2. PICK down \in Int :
        down = IF a < 0 /\ ~SafetyBlocked(r) /\ s \in {Site, <<"rack", r>>}
               THEN -a ELSE 0
  OBVIOUS
<1>3. Raised(s) \in Int /\ Raised(s)' = Raised(s) + up
  BY <1>1, RaisedChanges
<1>4. Lowered(s) \in Int /\ Lowered(s)' = Lowered(s) + down
  BY <1>2, LoweredChanges
<1>5. upLeft[s] \in Nat /\ downLeft[s] \in Nat
  BY DEF IInv, TypeOK
<1>6. UpLimit(s) > 0 => upLeft[s] + Raised(s) = UpLimit(s) /\ upLeft'[s] = upLeft[s] - up
  BY <1>1 DEF DInv, RampInv
<1>7. DownLimit(s) > 0 =>
        /\ downLeft[s] + Lowered(s) = IF s = Site THEN DownLimit(s)
                                      ELSE Smaller(load[s[2]], DownLimit(s))
        /\ downLeft'[s] = downLeft[s] - down
  BY <1>2 DEF DInv, RampInv
<1>8. UpLimit(s) > 0 => upLeft'[s] + Raised(s)' = UpLimit(s)
  BY <1>3, <1>5, <1>6
<1>9. DownLimit(s) > 0 =>
        downLeft'[s] + Lowered(s)' = IF s = Site THEN DownLimit(s)
                                     ELSE Smaller(load[s[2]], DownLimit(s))
  BY <1>4, <1>5, <1>7
<1> QED BY <1>8, <1>9

(* The loads after a decision that adds v - rackLoad[r] to rack r. *)
LEMMA NetKept ==
  ASSUME IInv, DInv, NEW r \in Rack, NEW v \in Nat, NEW change \in Int,
         change = v - rackLoad[r], load' = load,
         rackLoad' = [rackLoad EXCEPT ![r] = v],
         net' = Add(net, Above(r), change)
  PROVE  NetIsLoad'
<1> SUFFICES ASSUME NEW s \in Scope
             PROVE  LoadOn(rackLoad', s) = LoadOn(load, s) + net'[s]
  BY DEF NetIsLoad, LoadOn
<1>1. rackLoad \in [Rack -> Nat] /\ load \in [Rack -> Nat] /\ net \in [Scope -> Int]
  BY InventoryAssumption DEF IInv, TypeOK
<1>2. LoadOn(rackLoad', s) = LoadOn(rackLoad, s) + (IF s \in Above(r) THEN change ELSE 0)
  <2>1. ASSUME NEW rl \in [Rack -> Nat]
        PROVE  LoadOn([rl EXCEPT ![r] = v], s) =
                 LoadOn(rl, s) + (IF s \in Above(r) THEN v - rl[r] ELSE 0)
    BY Zenon, LoadChanges
  <2>2. LoadOn([rackLoad EXCEPT ![r] = v], s) =
          LoadOn(rackLoad, s) + (IF s \in Above(r) THEN v - rackLoad[r] ELSE 0)
    BY <1>1, <2>1
  <2> QED BY <2>2
<1>3. LoadOn(rackLoad, s) = LoadOn(load, s) + net[s]
  BY DEF DInv, NetIsLoad
<1>4. net'[s] = IF s \in Above(r) THEN net[s] + change ELSE net[s]
  BY <1>1 DEF Add
<1>5. LoadOn(load, s) \in Nat /\ net[s] \in Int
  BY <1>1, LoadOnNat
<1> QED BY <1>2, <1>3, <1>4, <1>5

LEMMA AcceptedSums ==
  ASSUME DInv, NEW s
  PROVE  Raised(s) \in Int /\ Lowered(s) \in Int
<1> DEFINE raise == [i \in Request |->
             IF decisions[i].accepted > 0 /\ s \in {Site, <<"rack", requests[i].rack>>}
             THEN decisions[i].accepted ELSE 0]
           drop == [i \in Request |->
             IF /\ decisions[i].accepted < 0
                /\ ~SafetyBlocked(requests[i].rack)
                /\ s \in {Site, <<"rack", requests[i].rack>>}
             THEN -decisions[i].accepted ELSE 0]
<1>1. \A i \in Request : decisions[i].accepted \in Int
  BY DEF DInv, Decision
<1>2. \A i \in Request : raise[i] \in Int /\ drop[i] \in Int
  <2> SUFFICES ASSUME NEW i \in Request PROVE raise[i] \in Int /\ drop[i] \in Int
    OBVIOUS
  <2>1. PICK a \in Int : a = decisions[i].accepted
    BY <1>1
  <2>2. raise[i] = a \/ raise[i] = 0
    BY <2>1
  <2>3. drop[i] = -a \/ drop[i] = 0
    BY <2>1
  <2> QED BY <2>2, <2>3
<1>3. Raised(s) = SumFunctionOnSet(raise, Request)
  BY DEF Raised
<1>4. Lowered(s) = SumFunctionOnSet(drop, Request)
  BY DEF Lowered
<1> HIDE DEF raise, drop
<1>5. IsFiniteSet(Request)
  BY InventoryAssumption
<1>6. SumFunctionOnSet(raise, Request) \in Int
  BY <1>2, <1>5, SumIsInt
<1>7. SumFunctionOnSet(drop, Request) \in Int
  BY <1>2, <1>5, SumIsInt
<1> QED BY <1>3, <1>4, <1>6, <1>7
-----------------------------------------------------------------------------
LEMMA SiteIsAlone ==
  ASSUME NEW r \in Rack
  PROVE  /\ Site # <<"rack", r>> /\ Site \in Above(r)
         /\ Site \in RampScope /\ Site \in Scope
BY DEF Site, Above, RampScope, Scope

LEMMA ReduceDInv ==
  ASSUME IInv, DInv, NEW i \in Request, NextRequest(i), Reduce(i),
         UNCHANGED <<load, requests, summary>>
  PROVE  DInv'
<1>1. PICK r \in Rack : r = requests[i].rack
  BY DEF Reduce
<1>2. PICK requested \in Nat : requested = -requests[i].delta /\ requested > 0
  BY RequestFacts DEF Reduce
<1>3. PICK limits : limits = ReductionLimits(r)
  OBVIOUS
<1>4. PICK granted : granted = Granted(requested, limits)
  OBVIOUS
<1>5. /\ Decide(i, requested, granted, -granted, limits)
      /\ rackLoad' = [rackLoad EXCEPT ![r] = Larger(@ - granted, 0)]
      /\ left' = Add(left, Above(r), granted)
      /\ downLeft' = CountDown(downLeft, DownRamps(r), granted)
      /\ net' = Add(net, Above(r), -granted)
      /\ upLeft' = upLeft
  BY <1>1, <1>2, <1>3, <1>4 DEF Reduce, ApplyReduction
<1>6. /\ rackLoad \in [Rack -> Nat] /\ downLeft \in [RampScope -> Nat]
      /\ upLeft \in [RampScope -> Nat]
  BY DEF IInv, TypeOK
<1>7. \A l \in limits : l.room \in Nat /\ l.kind \in LimitKind /\ l.scope \in LimitScope
  <2>1. <<"rack", r>> \in LimitScope /\ RampScope \subseteq LimitScope
    BY DEF LimitScope, Scope, RampScope
  <2> QED BY <1>3, <1>6, <2>1, ScopeFacts DEF ReductionLimits, LimitKind
<1>8. granted \in Nat
  BY <1>4, <1>7, GrantedBounds
<1>9. \A l \in limits : granted <= l.room
  BY <1>4, <1>7, GrantedBounds
<1>10. granted <= rackLoad[r]
  <2>1. PICK l : l = [kind |-> "load", scope |-> <<"rack", r>>, room |-> rackLoad[r]]
    OBVIOUS
  <2>2. l \in limits
    BY <1>3, <2>1 DEF ReductionLimits
  <2>3. l.room = rackLoad[r]
    BY <2>1
  <2> QED BY <1>9, <2>2, <2>3
<1>11. ASSUME NEW s \in DownRamps(r) PROVE granted <= downLeft[s]
  <2>1. PICK l : l = [kind |-> "ramp_down", scope |-> s, room |-> downLeft[s]]
    OBVIOUS
  <2>2. l \in limits
    BY <1>3, <2>1 DEF ReductionLimits
  <2>3. l.room = downLeft[s]
    BY <2>1
  <2> QED BY <1>9, <2>2, <2>3
<1>12. /\ decisions' \in [Request -> Decision]
       /\ \A j \in Request : j # i => decisions'[j] = decisions[j]
       /\ decisions'[i].status # "none" /\ decisions'[i].accepted = -granted
       /\ Explained(decisions'[i])
       /\ SiteAlone(i)' => \E l \in limits : l.scope = Site /\ l.room = granted
  <2>1. -granted \in Int
    BY <1>8
  <2> QED BY <1>2, <1>4, <1>5, <1>7, <2>1, DecideOutcome
<1>13. decisions[i].accepted = 0
  BY DEF NextRequest, DInv
<1>14. NetIsLoad'
  <2>1. PICK v \in Nat : v = rackLoad[r] - granted
    BY <1>6, <1>8, <1>10
  <2>2. rackLoad' = [rackLoad EXCEPT ![r] = v]
    <3>1. Larger(rackLoad[r] - granted, 0) = v
      BY <2>1 DEF Larger
    <3> QED BY <1>5, <1>6, <3>1
  <2>3. PICK change \in Int : change = -granted /\ change = v - rackLoad[r]
    BY <1>6, <1>8, <2>1
  <2> QED BY <1>5, <2>2, <2>3, NetKept
<1>15. \A s \in RampScope :
         downLeft'[s] = IF s \in DownRamps(r) THEN downLeft[s] - granted
                        ELSE downLeft[s]
  BY <1>5, <1>6, <1>8, <1>11 DEF CountDown, Larger
<1>16. ASSUME NEW s \in RampScope
       PROVE  /\ UpLimit(s) > 0 =>
                   upLeft'[s] = upLeft[s] -
                     (IF -granted > 0 /\ s \in {Site, <<"rack", r>>} THEN -granted ELSE 0)
              /\ DownLimit(s) > 0 =>
                   downLeft'[s] = downLeft[s] -
                     (IF /\ -granted < 0 /\ ~SafetyBlocked(r)
                         /\ s \in {Site, <<"rack", r>>}
                      THEN -(-granted) ELSE 0)
  <2>1. DownLimit(s) > 0 =>
          (s \in DownRamps(r) <=> ~SafetyBlocked(r) /\ s \in {Site, <<"rack", r>>})
    BY DEF DownRamps
  <2>2. downLeft[s] \in Nat /\ upLeft[s] \in Nat
    BY <1>6
  <2>3. upLeft'[s] = upLeft[s] -
          (IF -granted > 0 /\ s \in {Site, <<"rack", r>>} THEN -granted ELSE 0)
    BY <1>5, <1>8, <2>2
  <2>4. ASSUME DownLimit(s) > 0
        PROVE downLeft'[s] = downLeft[s] -
                (IF /\ -granted < 0 /\ ~SafetyBlocked(r)
                    /\ s \in {Site, <<"rack", r>>}
                 THEN -(-granted) ELSE 0)
    <3>1. CASE s \in DownRamps(r)
      BY <1>8, <1>15, <2>1, <2>2, <2>4, <3>1
    <3>2. CASE s \notin DownRamps(r)
      BY <1>8, <1>15, <2>1, <2>2, <2>4, <3>2
    <3> QED BY <3>1, <3>2
  <2> QED BY <2>3, <2>4
<1>17. RampInv'
  <2>1. PICK a \in Int : a = -granted
    BY <1>8
  <2> QED BY <1>1, <1>12, <1>13, <1>16, <2>1, RampsKept
<1>18. Site \in DownRamps(r) <=> DownLimit(Site) > 0 /\ ~SafetyBlocked(r)
  BY DEF DownRamps
<1>19. downLeft[Site] = 0 => downLeft'[Site] = 0
  BY <1>5, <1>6, <1>8, SiteIsAlone DEF CountDown, Larger
<1>20. SiteAlone(i)' => DownLimit(Site) > 0 /\ downLeft'[Site] = 0
  <2> SUFFICES ASSUME SiteAlone(i)' PROVE DownLimit(Site) > 0 /\ downLeft'[Site] = 0
    OBVIOUS
  <2>1. PICK l \in limits : l.scope = Site /\ l.room = granted
    BY <1>12
  <2>2. Site \in DownRamps(r) /\ downLeft[Site] = granted
    BY <1>3, <2>1, SiteIsAlone DEF ReductionLimits
  <2> QED BY <1>8, <1>15, <1>18, <2>2, SiteIsAlone
<1>21. ASSUME ~SafetyBlocked(r), DownLimit(Site) > 0, downLeft[Site] = 0
       PROVE  -granted = 0
  BY <1>8, <1>11, <1>18, <1>21
<1>22. requests[i].delta \in Int /\ requests[i].delta < 0
  BY <1>2, RequestFacts
<1>23. PICK a \in Int : a = -granted
  BY <1>8
<1> QED BY <1>1, <1>5, <1>12, <1>14, <1>17, <1>19, <1>20, <1>21, <1>22, <1>23,
           DecisionStep

LEMMA IncreaseDInv ==
  ASSUME IInv, DInv, NEW i \in Request, NextRequest(i), Increase(i),
         UNCHANGED <<load, requests, summary>>
  PROVE  DInv'
<1>1. PICK r \in Rack : r = requests[i].rack
  BY DEF Increase
<1>2. PICK requested \in Nat : requested = requests[i].delta /\ requested > 0
  BY RequestFacts DEF Increase
<1>3. PICK limits : limits = IncreaseLimits(r)
  OBVIOUS
<1>4. PICK granted : granted = Granted(requested, limits)
  OBVIOUS
<1>5. /\ Decide(i, requested, granted, granted, limits)
      /\ rackLoad' = [rackLoad EXCEPT ![r] = @ + granted]
      /\ left' = CountDown(left, Above(r), granted)
      /\ upLeft' = CountDown(upLeft, UpRamps(r), granted)
      /\ net' = Add(net, Above(r), granted)
      /\ downLeft' = downLeft
  BY <1>1, <1>2, <1>3, <1>4 DEF Increase, ApplyIncrease
<1>6. /\ rackLoad \in [Rack -> Nat] /\ downLeft \in [RampScope -> Nat]
      /\ upLeft \in [RampScope -> Nat] /\ left \in [Scope -> Nat]
  BY DEF IInv, TypeOK
<1>7. \A l \in limits : l.room \in Nat /\ l.kind \in LimitKind /\ l.scope \in LimitScope
  <2>1. Scope \subseteq LimitScope /\ RampScope \subseteq LimitScope
    BY DEF LimitScope, Scope, RampScope
  <2> QED BY <1>3, <1>6, <2>1, ScopeFacts DEF IncreaseLimits, LimitKind
<1>8. granted \in Nat
  BY <1>4, <1>7, GrantedBounds
<1>9. \A l \in limits : granted <= l.room
  BY <1>4, <1>7, GrantedBounds
<1>10. granted <= left[Site]
  <2>1. PICK l : l = [kind |-> "capacity", scope |-> Site, room |-> left[Site]]
    OBVIOUS
  <2>2. l \in limits
    BY <1>3, <2>1, SiteIsAlone DEF IncreaseLimits
  <2>3. l.room = left[Site]
    BY <2>1
  <2> QED BY <1>9, <2>2, <2>3
<1>11. ASSUME NEW s \in UpRamps(r) PROVE granted <= upLeft[s]
  <2>1. PICK l : l = [kind |-> "ramp_up", scope |-> s, room |-> upLeft[s]]
    OBVIOUS
  <2>2. l \in limits
    BY <1>3, <2>1 DEF IncreaseLimits
  <2>3. l.room = upLeft[s]
    BY <2>1
  <2> QED BY <1>9, <2>2, <2>3
<1>12. /\ decisions' \in [Request -> Decision]
       /\ \A j \in Request : j # i => decisions'[j] = decisions[j]
       /\ decisions'[i].status # "none" /\ decisions'[i].accepted = granted
       /\ Explained(decisions'[i])
       /\ SiteAlone(i)' => \E l \in limits : l.scope = Site /\ l.room = granted
  <2>1. granted \in Int
    BY <1>8
  <2> QED BY <1>2, <1>4, <1>5, <1>7, <2>1, DecideOutcome
<1>13. decisions[i].accepted = 0
  BY DEF NextRequest, DInv
<1>14. NetIsLoad'
  <2>1. PICK v \in Nat : v = rackLoad[r] + granted
    BY <1>6, <1>8
  <2>2. rackLoad' = [rackLoad EXCEPT ![r] = v]
    BY <1>5, <2>1
  <2>3. PICK change \in Int : change = granted /\ change = v - rackLoad[r]
    BY <1>6, <1>8, <2>1
  <2> QED BY <1>5, <2>2, <2>3, NetKept
<1>15. \A s \in RampScope :
         upLeft'[s] = IF s \in UpRamps(r) THEN upLeft[s] - granted ELSE upLeft[s]
  BY <1>5, <1>6, <1>8, <1>11 DEF CountDown, Larger
<1>16. ASSUME NEW s \in RampScope
       PROVE  /\ UpLimit(s) > 0 =>
                   upLeft'[s] = upLeft[s] -
                     (IF granted > 0 /\ s \in {Site, <<"rack", r>>} THEN granted ELSE 0)
              /\ DownLimit(s) > 0 =>
                   downLeft'[s] = downLeft[s] -
                     (IF /\ granted < 0 /\ ~SafetyBlocked(r)
                         /\ s \in {Site, <<"rack", r>>}
                      THEN -granted ELSE 0)
  <2>1. UpLimit(s) > 0 => (s \in UpRamps(r) <=> s \in {Site, <<"rack", r>>})
    BY DEF UpRamps
  <2>2. downLeft[s] \in Nat /\ upLeft[s] \in Nat
    BY <1>6
  <2>3. ASSUME UpLimit(s) > 0
        PROVE  upLeft'[s] = upLeft[s] -
                 (IF granted > 0 /\ s \in {Site, <<"rack", r>>} THEN granted ELSE 0)
    <3>1. CASE s \in UpRamps(r)
      BY <1>8, <1>15, <2>1, <2>2, <2>3, <3>1
    <3>2. CASE s \notin UpRamps(r)
      BY <1>8, <1>15, <2>1, <2>2, <2>3, <3>2
    <3> QED BY <3>1, <3>2
  <2>4. downLeft'[s] = downLeft[s] - 0 /\ ~(granted < 0)
    BY <1>5, <1>8, <2>2
  <2> QED BY <2>3, <2>4
<1>17. RampInv'
  BY <1>1, <1>8, <1>12, <1>13, <1>16, RampsKept
<1>18. Site \in UpRamps(r) <=> UpLimit(Site) > 0
  BY DEF UpRamps
<1>19. left'[Site] = left[Site] - granted
  BY <1>5, <1>6, <1>8, <1>10, SiteIsAlone DEF CountDown, Larger
<1>20. upLeft[Site] = 0 => upLeft'[Site] = 0
  BY <1>5, <1>6, <1>8, SiteIsAlone DEF CountDown, Larger
<1>21. left[Site] = 0 => granted = 0 /\ left'[Site] = 0
  BY <1>8, <1>10, <1>19
<1>22. SiteAlone(i)' => left'[Site] = 0 \/ (UpLimit(Site) > 0 /\ upLeft'[Site] = 0)
  <2> SUFFICES ASSUME SiteAlone(i)'
               PROVE  left'[Site] = 0 \/ (UpLimit(Site) > 0 /\ upLeft'[Site] = 0)
    OBVIOUS
  <2>1. PICK l \in limits : l.scope = Site /\ l.room = granted
    BY <1>12
  <2>2. left[Site] = granted \/ (Site \in UpRamps(r) /\ upLeft[Site] = granted)
    BY <1>3, <2>1 DEF IncreaseLimits
  <2>3. CASE left[Site] = granted
    BY <1>8, <1>19, <2>3
  <2>4. CASE Site \in UpRamps(r) /\ upLeft[Site] = granted
    BY <1>8, <1>15, <1>18, <2>4, SiteIsAlone
  <2> QED BY <2>2, <2>3, <2>4
<1>23. ASSUME UpLimit(Site) > 0, upLeft[Site] = 0 PROVE granted = 0
  BY <1>8, <1>11, <1>18, <1>23
<1>24. requests[i].delta \in Int /\ requests[i].delta > 0
  BY <1>2, RequestFacts
<1> QED BY <1>1, <1>5, <1>8, <1>12, <1>14, <1>17, <1>20, <1>21, <1>22, <1>23, <1>24,
           DecisionStep
-----------------------------------------------------------------------------
(* A decision that grants nothing and names no limit of the site. *)
LEMMA NothingDecided ==
  ASSUME IInv, DInv, NEW i \in Request, NextRequest(i), NEW st \in Status,
         st # "none", NEW V,
         \A v \in V : /\ v.kind \in LimitKind /\ v.scope \in LimitScope
                      /\ v.scope # Site,
         V # {} <=> st \in {"partial", "rejected"},
         Record(i, st, 0, V),
         UNCHANGED <<load, requests, summary, left, upLeft, downLeft,
                     rackLoad, net>>
  PROVE  DInv'
<1>1. /\ decisions' \in [Request -> Decision]
      /\ \A j \in Request : j # i => decisions'[j] = decisions[j]
      /\ decisions'[i].status = st /\ decisions'[i].accepted = 0
      /\ decisions'[i].violations = {<<v.kind, v.scope>> : v \in V}
  BY RecordOutcome
<1>2. Explained(decisions'[i])
  BY <1>1 DEF Explained
<1>3. ~SiteAlone(i)'
  BY <1>1 DEF SiteAlone
<1>4. decisions[i].accepted = 0
  BY DEF NextRequest, DInv
<1>5. NetIsLoad'
  BY DEF DInv, NetIsLoad, LoadOn
<1>6. \A s \in RampScope : upLeft[s] \in Nat /\ downLeft[s] \in Nat
  BY DEF IInv, TypeOK
<1>7. \A s \in RampScope :
        upLeft'[s] = upLeft[s] - 0 /\ downLeft'[s] = downLeft[s] - 0
  BY <1>6
<1>8. RampInv'
  BY <1>1, <1>4, <1>7, RampsKept
<1> QED BY <1>1, <1>2, <1>3, <1>5, <1>8, DecisionStep

LEMMA InitDInv == Init => DInv
<1> SUFFICES ASSUME Init PROVE DInv
  OBVIOUS
<1>1. IInv
  BY InitIInv
<1>2. /\ Undecided \in Decision /\ Undecided.status = "none"
      /\ Undecided.accepted = 0 /\ Undecided.violations = {}
  BY DEF Undecided, Decision, Status
<1>3. decisions \in [Request -> Decision] /\ \A i \in Request : decisions[i] = Undecided
  BY <1>2 DEF Init
<1>4. \A i \in Request : /\ decisions[i].status = "none" => decisions[i].accepted = 0
                         /\ Explained(decisions[i])
  BY <1>2, <1>3 DEF Explained
<1>5. NetIsLoad
  <2> SUFFICES ASSUME NEW s \in Scope
               PROVE  LoadOn(rackLoad, s) = LoadOn(load, s) + net[s]
    BY DEF NetIsLoad
  <2>1. LoadOn(load, s) \in Nat
    BY InventoryAssumption, LoadOnNat DEF Init
  <2>2. rackLoad = load /\ net[s] = 0
    BY DEF Init
  <2> QED BY <2>1, <2>2
<1>6. ASSUME NEW s PROVE Raised(s) = 0 /\ Lowered(s) = 0
  <2> DEFINE raise == [i \in Request |->
               IF decisions[i].accepted > 0 /\ s \in {Site, <<"rack", requests[i].rack>>}
               THEN decisions[i].accepted ELSE 0]
             drop == [i \in Request |->
               IF /\ decisions[i].accepted < 0
                  /\ ~SafetyBlocked(requests[i].rack)
                  /\ s \in {Site, <<"rack", requests[i].rack>>}
               THEN -decisions[i].accepted ELSE 0]
  <2>1. \A i \in Request : raise[i] = 0 /\ drop[i] = 0
    BY <1>2, <1>3
  <2>2. Raised(s) = SumFunctionOnSet(raise, Request)
        /\ Lowered(s) = SumFunctionOnSet(drop, Request)
    BY DEF Raised, Lowered
  <2> HIDE DEF raise, drop
  <2> QED BY <2>1, <2>2, InventoryAssumption, SumOfZeros
<1>7. RampInv
  <2> SUFFICES ASSUME NEW s \in RampScope
               PROVE  /\ UpLimit(s) > 0 => upLeft[s] + Raised(s) = UpLimit(s)
                      /\ DownLimit(s) > 0 =>
                           downLeft[s] + Lowered(s) =
                             IF s = Site THEN DownLimit(s)
                             ELSE Smaller(load[s[2]], DownLimit(s))
    BY DEF RampInv
  <2>1. upLeft[s] \in Nat /\ downLeft[s] \in Nat
    BY <1>1 DEF IInv, TypeOK
  <2>2. upLeft[s] = UpLimit(s)
        /\ downLeft[s] = IF s = Site THEN DownLimit(s)
                         ELSE Smaller(load[s[2]], DownLimit(s))
    BY DEF Init
  <2> QED BY <1>6, <2>1, <2>2
<1>8. InOrder
  BY <1>2, <1>3 DEF InOrder
<1>9. SiteExhausted
  BY <1>2, <1>3 DEF SiteExhausted, SiteAlone
<1>10. NoPriorityInversion
  BY <1>2, <1>3 DEF NoPriorityInversion
<1>11. summary = "none"
  BY DEF Init
<1> QED BY <1>3, <1>4, <1>5, <1>7, <1>8, <1>9, <1>10, <1>11 DEF DInv, SummaryAgrees

(* Nothing but the summary changes. *)
LEMMA OnlySummary ==
  ASSUME DInv,
         UNCHANGED <<load, requests, decisions, left, upLeft, downLeft,
                     rackLoad, net>>,
         summary' # "none" => "none" \notin Statuses,
         SummaryAgrees'
  PROVE  DInv'
<1>1. Statuses' = Statuses
  BY DEF Statuses
<1>2. NetIsLoad'
  BY DEF DInv, NetIsLoad, LoadOn
<1>3. RampInv'
  BY DEF DInv, RampInv, Raised, Lowered, SafetyBlocked, UpLimit, DownLimit
<1>4. InOrder'
  BY DEF DInv, InOrder, Before
<1>5. SiteExhausted'
  BY DEF DInv, SiteExhausted, SiteAlone, UpLimit, DownLimit
<1>6. NoPriorityInversion'
  BY DEF DInv, NoPriorityInversion, Outranks, SafetyBlocked
<1>7. /\ decisions' \in [Request -> Decision]
      /\ \A i \in Request : /\ decisions'[i].status = "none" => decisions'[i].accepted = 0
                            /\ Explained(decisions'[i])
  BY DEF DInv
<1> QED BY <1>1, <1>2, <1>3, <1>4, <1>5, <1>6, <1>7 DEF DInv, Explained

LEMMA SummarizeDInv ==
  ASSUME DInv, Summarize
  PROVE  DInv'
<1>1. /\ UNCHANGED <<load, requests, decisions, left, upLeft, downLeft,
                     rackLoad, net>>
      /\ "none" \notin Statuses
  BY DEF Summarize
<1>2. Statuses \subseteq Status
  BY DEF Statuses, DInv, Decision
<1>3. Statuses \subseteq {"accepted", "partial", "rejected"}
  BY <1>1, <1>2 DEF Status
<1>4. summary' = IF "partial" \in Statuses THEN "partial"
                 ELSE IF "rejected" \in Statuses
                      THEN IF "accepted" \in Statuses THEN "partial" ELSE "rejected"
                      ELSE "accepted"
  BY DEF Summarize
<1>5. SummaryAgrees'
  <2>1. Statuses' = Statuses
    BY <1>1 DEF Statuses
  <2>2. (summary' = "accepted") <=>
          (Statuses \subseteq {"accepted"} /\ (Statuses = {} => "accepted" = "accepted"))
    BY <1>3, <1>4
  <2>3. (summary' = "rejected") <=>
          (Statuses \subseteq {"rejected"} /\ (Statuses = {} => "rejected" = "accepted"))
    BY <1>3, <1>4
  <2> QED BY <2>1, <2>2, <2>3 DEF SummaryAgrees
<1> QED BY <1>1, <1>5, OnlySummary

LEMMA NextDInv == IInv /\ DInv /\ [Next]_vars => DInv'
<1> SUFFICES ASSUME IInv, DInv, [Next]_vars PROVE DInv'
  OBVIOUS
<1>1. "rejected" \in Status /\ "accepted" \in Status
  BY DEF Status
<1>2. ASSUME NEW i \in Request, NextRequest(i),
             \/ RejectUnknownRack(i) \/ AcceptNoChange(i)
             \/ RejectSafetyBlocked(i) \/ Reduce(i) \/ Increase(i),
             UNCHANGED <<load, requests, summary>>
      PROVE  DInv'
  <2>1. ASSUME NEW kind \in {"not_found", "safety_blocked"},
               NEW r \in Rack \cup {UnknownRack}, Refuse(i, kind, <<"rack", r>>)
        PROVE  DInv'
    <3>1. PICK V : V = {[kind |-> kind, scope |-> <<"rack", r>>]}
      OBVIOUS
    <3>2. \A v \in V : v.kind = kind /\ v.scope = <<"rack", r>>
      BY <3>1
    <3>3. kind \in LimitKind /\ <<"rack", r>> \in LimitScope /\ <<"rack", r>> # Site
      BY DEF LimitKind, LimitScope, Scope, Site
    <3>4. V # {} <=> "rejected" \in {"partial", "rejected"}
      BY <3>1
    <3>5. Record(i, "rejected", 0, V)
      BY <2>1, <3>1 DEF Refuse
    <3>6. UNCHANGED <<left, upLeft, downLeft, rackLoad, net>>
      BY <2>1 DEF Refuse
    <3> QED BY <1>1, <1>2, <3>2, <3>3, <3>4, <3>5, <3>6, NothingDecided
  <2>2. CASE RejectUnknownRack(i)
    BY <2>1, <2>2 DEF RejectUnknownRack
  <2>3. CASE RejectSafetyBlocked(i)
    BY <2>1, <2>3 DEF RejectSafetyBlocked
  <2>4. CASE AcceptNoChange(i)
    <3>1. Record(i, "accepted", 0, {})
          /\ UNCHANGED <<left, upLeft, downLeft, rackLoad, net>>
      BY <2>4 DEF AcceptNoChange
    <3>2. PICK V : V = {}
      OBVIOUS
    <3> QED BY <1>1, <1>2, <3>1, <3>2, NothingDecided
  <2>5. CASE Reduce(i)
    BY <1>2, <2>5, ReduceDInv
  <2>6. CASE Increase(i)
    BY <1>2, <2>6, IncreaseDInv
  <2> QED BY <1>2, <2>2, <2>3, <2>4, <2>5, <2>6
<1>3. CASE Summarize
  BY <1>3, SummarizeDInv
<1>4. CASE UNCHANGED vars
  <2>1. SummaryAgrees' /\ (summary' # "none" => "none" \notin Statuses)
    BY <1>4 DEF vars, DInv, SummaryAgrees, Statuses
  <2> QED BY <1>4, <2>1, OnlySummary DEF vars
<1> QED BY <1>2, <1>3, <1>4 DEF Next

LEMMA DInvHolds == Spec => []DInv
BY IInvHolds, InitDInv, NextDInv, PTL DEF Spec
-----------------------------------------------------------------------------
(* The counters of ValidateDispatch follow the racks: the net change it    *)
(* has accepted under a capacity is the change of the load below it.       *)
THEOREM NetIsLoadHolds == Spec => []NetIsLoad
BY DInvHolds, PTL DEF DInv

(* Whatever a batch repeats or mixes, ValidateDispatch accepts no more     *)
(* change, up or down, than the ramp limits of the site and of each rack   *)
(* allow; only safety-blocked racks may drop faster.                       *)
THEOREM RampsRespectedHolds == Spec => []RampsRespected
<1>1. IInv /\ DInv => RampsRespected
  <2> SUFFICES ASSUME IInv, DInv, NEW s \in RampScope
               PROVE  /\ UpLimit(s) > 0 => Raised(s) <= UpLimit(s)
                      /\ DownLimit(s) > 0 => Lowered(s) <= DownLimit(s)
    BY DEF RampsRespected
  <2>1. upLeft[s] \in Nat /\ downLeft[s] \in Nat
    BY DEF IInv, TypeOK
  <2>2. UpLimit(s) \in Nat /\ DownLimit(s) \in Nat
    BY RampLimitNat
  <2>3. Raised(s) \in Int /\ Lowered(s) \in Int
    BY AcceptedSums
  <2>4. s # Site => load[s[2]] \in Nat
    BY InventoryAssumption DEF IInv, TypeOK, RampScope
  <2>5. DownLimit(s) > 0 =>
          downLeft[s] + Lowered(s) =
            IF s = Site THEN DownLimit(s) ELSE Smaller(load[s[2]], DownLimit(s))
    BY DEF DInv, RampInv
  <2>6. DownLimit(s) > 0 => Lowered(s) <= DownLimit(s)
    BY <2>1, <2>2, <2>3, <2>4, <2>5 DEF Smaller
  <2>7. UpLimit(s) > 0 => upLeft[s] + Raised(s) = UpLimit(s)
    BY DEF DInv, RampInv
  <2> QED BY <2>1, <2>2, <2>3, <2>6, <2>7
<1> QED BY <1>1, IInvHolds, DInvHolds, PTL

(* A request that ValidateDispatch rejects or cuts is told a limit that    *)
(* stood in its way, and a request that got all it asked for is told none. *)
THEOREM RefusalExplainedHolds == Spec => []RefusalExplained
<1>1. DInv => RefusalExplained
  BY DEF DInv, Explained, RefusalExplained
<1> QED BY <1>1, DInvHolds, PTL

(* ValidateDispatch decides by criticality: when only the site stood in    *)
(* the way of a request, no request it outranks got anything.              *)
THEOREM NoPriorityInversionHolds == Spec => []NoPriorityInversion
BY DInvHolds, PTL DEF DInv

(* summary_status is "accepted" or "rejected" exactly when every decision  *)
(* of the batch is.                                                        *)
THEOREM SummaryAgreesHolds == Spec => []SummaryAgrees
BY DInvHolds, PTL DEF DInv
=============================================================================
