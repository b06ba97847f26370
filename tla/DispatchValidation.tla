------------------------- MODULE DispatchValidation -------------------------
(***************************************************************************)
(* The dispatch validator of the energy-orchestrator                       *)
(* (orchestrator.ComputeSiteBudget and orchestrator.ValidateDispatch).     *)
(*                                                                         *)
(* A batch of requested power changes, one rack each, is decided greedily: *)
(* reductions first, then increases, each in an order given by criticality.*)
(* The validator keeps what is left of every capacity (site, rack, thermal *)
(* density, bus, feeder, PDU) and of every ramp limit; a reduction gives   *)
(* capacity back to what stands above the rack, an increase takes it.      *)
(*                                                                         *)
(* Power is in whole units instead of float64 kW.  The safe capacity of an *)
(* asset (nominal, status, maintenance, derating, margin) is a parameter.  *)
(***************************************************************************)
EXTENDS Integers, FiniteSets, Functions

CONSTANTS
  Rack,            \* racks of the site's energy inventory
  UnknownRack,     \* a rack id that is not in the inventory
  Asset,           \* transformers, buses, feeders and PDUs of the inventory
  Kind,            \* Asset -> its layer
  Path,            \* Rack -> its bus, feeder and PDU (any may be missing)
  TransformerOf,   \* Rack -> the parent of its bus
  Safe,            \* Asset -> safe_capacity_kw
  SiteOwnSafe,     \* safe capacity of the site profile itself
  RackSafe,        \* Rack -> safe capacity of the rack
  ThermalLimit,    \* Rack -> thermal_density_limit_kw
  Class,           \* Rack -> criticality class
  SafetyLocked,    \* racks with SafetyLocked set
  SiteRampUp, SiteRampDown,   \* ramp limits of the site, 0 if none
  RackRampUp, RackRampDown,   \* Rack -> override of the limit, 0 if none
  Request,         \* indices of the batch, 1..n
  Load,            \* loads a rack may have when the budget is computed
  Delta            \* power changes a request may ask for

Layer == {"transformer", "bus", "feeder", "pdu"}
LoadClass == {"preferred_production", "normal_production",
              "sacrificable_load", "safety_blocked"}

ASSUME InventoryAssumption ==
  /\ IsFiniteSet(Rack) /\ IsFiniteSet(Asset) /\ IsFiniteSet(Request)
  /\ UnknownRack \notin Rack
  /\ Kind \in [Asset -> Layer]
  /\ Path \in [Rack -> SUBSET {a \in Asset : Kind[a] # "transformer"}]
  /\ TransformerOf \in [Rack -> {a \in Asset : Kind[a] = "transformer"}]
  /\ Safe \in [Asset -> Nat]
  /\ SiteOwnSafe \in Nat
  /\ RackSafe \in [Rack -> Nat] /\ ThermalLimit \in [Rack -> Nat]
  /\ Class \in [Rack -> LoadClass]
  /\ SafetyLocked \subseteq Rack
  /\ SiteRampUp \in Nat /\ SiteRampDown \in Nat
  /\ RackRampUp \in [Rack -> Nat] /\ RackRampDown \in [Rack -> Nat]
  /\ Request \subseteq Nat
  /\ Load \subseteq Nat
  /\ Delta \subseteq Int

VARIABLES
  load,       \* CurrentRackLoadKW the budget was computed from
  requests,   \* the batch
  decisions,  \* the decision on each request
  left,       \* what is left of each capacity
  upLeft,     \* what is left of each up-ramp limit, 0 where there is none
  downLeft,   \* what is left of each down-ramp limit, 0 where there is none
  rackLoad,   \* rackCurrentLoad, as changed by the decisions so far
  net,        \* history: net change accepted under each capacity
  summary     \* summary_status, "none" until every request is decided

vars == <<load, requests, decisions, left, upLeft, downLeft, rackLoad, net,
          summary>>
-----------------------------------------------------------------------------
Larger(a, b) == IF a > b THEN a ELSE b
Smaller(a, b) == IF a < b THEN a ELSE b

(* minPositive: the least of the values that are not negative, 0 if none. *)
MinPositive(S) ==
  LET P == {x \in S : x >= 0}
  IN IF P = {} THEN 0 ELSE CHOOSE x \in P : \A y \in P : x <= y

(* The capacities the validator counts down. *)
Site == <<"site", "site">>
Scope == {Site} \cup ({"rack", "thermal"} \X Rack)
                \cup ({"asset"} \X Asset)
RampScope == {Site} \cup ({"rack"} \X Rack)

(* The capacities that a change on rack r is charged to. *)
Above(r) ==
  {Site, <<"rack", r>>, <<"thermal", r>>} \cup ({"asset"} \X Path[r])

(* The load on a capacity, given the loads of the racks: sumLoads and      *)
(* mapLoadsByAsset.                                                        *)
LoadOn(rl, s) ==
  SumFunctionOnSet([r \in Rack |-> IF s \in Above(r) THEN rl[r] ELSE 0], Rack)

(* Site safe capacity: the least of the site's own and of the totals of    *)
(* the layers, where a layer that totals zero is left out.                 *)
SiteSafe ==
  LET Total(k) == SumFunctionOnSet(Safe, {a \in Asset : Kind[a] = k})
  IN MinPositive({SiteOwnSafe} \cup {t \in {Total(k) : k \in Layer} : t > 0})

SafeOf(s) == CASE s[1] = "site" -> SiteSafe
               [] s[1] = "rack" -> RackSafe[s[2]]
               [] s[1] = "thermal" -> ThermalLimit[s[2]]
               [] s[1] = "asset" -> Safe[s[2]]

SafetyBlocked(r) == r \in SafetyLocked \/ Class[r] = "safety_blocked"

(* effectiveRampUpLimit and effectiveRampDownLimit; 0 means no limit. *)
UpLimit(s) == IF s = Site THEN SiteRampUp
              ELSE IF RackRampUp[s[2]] > 0 THEN RackRampUp[s[2]]
              ELSE SiteRampUp
DownLimit(s) == IF s = Site THEN SiteRampDown
                ELSE IF RackRampDown[s[2]] > 0 THEN RackRampDown[s[2]]
                ELSE SiteRampDown

(* The ramp limits a change on rack r has to respect. *)
UpRamps(r) == {s \in {Site, <<"rack", r>>} : UpLimit(s) > 0}
DownRamps(r) == IF SafetyBlocked(r) THEN {}
                ELSE {s \in {Site, <<"rack", r>>} : DownLimit(s) > 0}
-----------------------------------------------------------------------------
Direction(d) == CASE d < 0 -> -1 [] d = 0 -> 0 [] d > 0 -> 1

CurtailmentPriority(r) ==
  IF r \notin Rack THEN 5
  ELSE CASE Class[r] = "safety_blocked" -> 1
         [] Class[r] = "sacrificable_load" -> 2
         [] Class[r] = "normal_production" -> 3
         [] Class[r] = "preferred_production" -> 4

CriticalityRank(r) ==
  IF r \notin Rack THEN -1
  ELSE CASE Class[r] = "preferred_production" -> 3
         [] Class[r] = "normal_production" -> 2
         [] Class[r] = "sacrificable_load" -> 1
         [] Class[r] = "safety_blocked" -> 0

(* Mutant of Before: reductions are ordered as increases are. *)
BeforeByRank(i, j) ==
  LET di == requests[i].delta
      dj == requests[j].delta
      ri == CriticalityRank(requests[i].rack)
      rj == CriticalityRank(requests[j].rack)
  IN \/ Direction(di) < Direction(dj)
     \/ Direction(di) = Direction(dj) /\ (ri > rj \/ (ri = rj /\ i < j))

(* The order in which ValidateDispatch sorts the batch. *)
Before(i, j) ==
  LET di == requests[i].delta
      dj == requests[j].delta
      pi == IF di < 0 THEN CurtailmentPriority(requests[i].rack)
                      ELSE -CriticalityRank(requests[i].rack)
      pj == IF dj < 0 THEN CurtailmentPriority(requests[j].rack)
                      ELSE -CriticalityRank(requests[j].rack)
  IN \/ Direction(di) < Direction(dj)
     \/ /\ Direction(di) = Direction(dj)
        /\ \/ pi < pj
           \/ pi = pj /\ di < 0 /\ di < dj
           \/ pi = pj /\ (di < 0 => di = dj) /\ i < j

(* The first request, in that order, that has no decision yet. *)
NextRequest(i) ==
  /\ decisions[i].status = "none"
  /\ \A j \in Request \ {i} :
       decisions[j].status = "none" => Before(i, j)
-----------------------------------------------------------------------------
(* Mutant of Available: headroom is not cut off at zero. *)
AvailableSigned(s) == SafeOf(s) - LoadOn(load, s)

(* available_capacity_kw and thermal_headroom_kw of the budget. *)
Available(s) == Larger(SafeOf(s) - LoadOn(load, s), 0)

Undecided == [status |-> "none", accepted |-> 0, violations |-> {}]

Init ==
  /\ load \in [Rack -> Load]
  /\ requests \in [Request -> [rack : Rack \cup {UnknownRack},
                              delta : Delta]]
  /\ decisions = [i \in Request |-> Undecided]
  /\ left = [s \in Scope |-> Available(s)]
  /\ upLeft = [s \in RampScope |-> UpLimit(s)]
  /\ downLeft = [s \in RampScope |->
                   IF s = Site THEN DownLimit(s)
                   ELSE Smaller(load[s[2]], DownLimit(s))]
  /\ rackLoad = load
  /\ net = [s \in Scope |-> 0]
  /\ summary = "none"

(* The limits in the way of a reduction on r, each with what it leaves. *)
ReductionLimits(r) ==
  {[kind |-> "load", scope |-> <<"rack", r>>, room |-> rackLoad[r]]} \cup
  {[kind |-> "ramp_down", scope |-> s, room |-> downLeft[s]] :
     s \in DownRamps(r)}

(* Mutant of IncreaseLimits: the ramp limits are left out. *)
IncreaseLimitsNoRamp(r) ==
  {[kind |-> "capacity", scope |-> s, room |-> left[s]] : s \in Above(r)}

(* The limits in the way of an increase on r. *)
IncreaseLimits(r) ==
  {[kind |-> "capacity", scope |-> s, room |-> left[s]] : s \in Above(r)} \cup
  {[kind |-> "ramp_up", scope |-> s, room |-> upLeft[s]] : s \in UpRamps(r)}

Granted(requested, limits) ==
  MinPositive({requested} \cup {l.room : l \in limits})

(* Mutant of Broken: a limit that leaves nothing is not reported. *)
BrokenIfPartial(requested, limits) ==
  {l \in limits : 0 < l.room /\ l.room < requested}

Broken(requested, limits) == {l \in limits : l.room < requested}

Record(i, status, accepted, violations) ==
  decisions' = [decisions EXCEPT ![i] =
    [status |-> status, accepted |-> accepted,
     violations |-> {<<v.kind, v.scope>> : v \in violations}]]

(* The decision on request i, of which an amount is granted: unless it is  *)
(* all of it, the limits that stand in the way are reported.               *)
Decide(i, requested, granted, accepted, limits) ==
  \/ /\ granted = 0
     /\ Record(i, "rejected", accepted, Broken(requested, limits))
  \/ /\ 0 < granted /\ granted < requested
     /\ Record(i, "partial", accepted, Broken(requested, limits))
  \/ /\ granted >= requested
     /\ Record(i, "accepted", accepted, {})

Refuse(i, kind, scope) ==
  /\ Record(i, "rejected", 0, {[kind |-> kind, scope |-> scope]})
  /\ UNCHANGED <<left, upLeft, downLeft, rackLoad, net>>

(* Take an amount off some of the counters. *)
CountDown(counters, S, amount) ==
  [s \in DOMAIN counters |->
     IF s \in S THEN Larger(counters[s] - amount, 0) ELSE counters[s]]

Add(counters, S, amount) ==
  [s \in DOMAIN counters |->
     IF s \in S THEN counters[s] + amount ELSE counters[s]]
-----------------------------------------------------------------------------
RejectUnknownRack(i) ==
  /\ requests[i].rack = UnknownRack
  /\ Refuse(i, "not_found", <<"rack", UnknownRack>>)

AcceptNoChange(i) ==
  /\ requests[i].rack \in Rack
  /\ requests[i].delta = 0
  /\ Record(i, "accepted", 0, {})
  /\ UNCHANGED <<left, upLeft, downLeft, rackLoad, net>>

RejectSafetyBlocked(i) ==
  /\ requests[i].rack \in Rack
  /\ requests[i].delta > 0
  /\ SafetyBlocked(requests[i].rack)
  /\ Refuse(i, "safety_blocked", <<"rack", requests[i].rack>>)

(* Mutant of ApplyReduction: the capacity requested is given back.         *)
ApplyReductionAsRequested(r, requested, granted) ==
  /\ rackLoad' = [rackLoad EXCEPT ![r] = Larger(@ - granted, 0)]
  /\ left' = Add(left, Above(r), requested)
  /\ downLeft' = CountDown(downLeft, DownRamps(r), granted)

(* A reduction gives its capacity back at once, for the requests that are  *)
(* still to be decided.                                                    *)
ApplyReduction(r, requested, granted) ==
  /\ rackLoad' = [rackLoad EXCEPT ![r] = Larger(@ - granted, 0)]
  /\ left' = Add(left, Above(r), granted)
  /\ downLeft' = CountDown(downLeft, DownRamps(r), granted)

Reduce(i) ==
  LET r == requests[i].rack
      requested == -requests[i].delta
      granted == Granted(requested, ReductionLimits(r))
  IN /\ r \in Rack
     /\ requests[i].delta < 0
     /\ Decide(i, requested, granted, -granted, ReductionLimits(r))
     /\ ApplyReduction(r, requested, granted)
     /\ net' = Add(net, Above(r), -granted)
     /\ UNCHANGED upLeft

(* Mutant of ApplyIncrease: the load of the rack is not brought forward. *)
ApplyIncreaseLoadKept(r, granted) ==
  /\ left' = CountDown(left, Above(r), granted)
  /\ upLeft' = CountDown(upLeft, UpRamps(r), granted)
  /\ UNCHANGED rackLoad

ApplyIncrease(r, granted) ==
  /\ rackLoad' = [rackLoad EXCEPT ![r] = @ + granted]
  /\ left' = CountDown(left, Above(r), granted)
  /\ upLeft' = CountDown(upLeft, UpRamps(r), granted)

Increase(i) ==
  LET r == requests[i].rack
      requested == requests[i].delta
      granted == Granted(requested, IncreaseLimits(r))
  IN /\ r \in Rack
     /\ requested > 0
     /\ ~SafetyBlocked(r)
     /\ Decide(i, requested, granted, granted, IncreaseLimits(r))
     /\ ApplyIncrease(r, granted)
     /\ net' = Add(net, Above(r), granted)
     /\ UNCHANGED downLeft

(* The statuses of the decisions, in the order of the batch.  The loop of  *)
(* ValidateDispatch does not depend on that order.                         *)
Statuses == {decisions[i].status : i \in Request}

(* Mutant of Summarize: a rejection hides what was accepted. *)
SummarizeWorst ==
  /\ summary = "none"
  /\ "none" \notin Statuses
  /\ summary' = CASE "rejected" \in Statuses -> "rejected"
                  [] "rejected" \notin Statuses /\ "partial" \in Statuses
                       -> "partial"
                  [] OTHER -> "accepted"
  /\ UNCHANGED <<load, requests, decisions, left, upLeft, downLeft, rackLoad,
                 net>>

Summarize ==
  LET worst == CASE "partial" \in Statuses -> "partial"
                 [] "rejected" \in Statuses /\ "partial" \notin Statuses
                      -> "rejected"
                 [] OTHER -> "accepted"
  IN /\ summary = "none"
     /\ "none" \notin Statuses
     /\ summary' = IF "accepted" \in Statuses /\ worst = "rejected"
                   THEN "partial" ELSE worst
     /\ UNCHANGED <<load, requests, decisions, left, upLeft, downLeft,
                    rackLoad, net>>

Next ==
  \/ \E i \in Request :
       /\ NextRequest(i)
       /\ \/ RejectUnknownRack(i) \/ AcceptNoChange(i)
          \/ RejectSafetyBlocked(i) \/ Reduce(i) \/ Increase(i)
       /\ UNCHANGED <<load, requests, summary>>
  \/ Summarize

Spec == Init /\ [][Next]_vars
-----------------------------------------------------------------------------
Status == {"none", "accepted", "partial", "rejected"}

(* Types of the batch, of its decisions and of the counters. *)
TypeOK ==
  /\ load \in [Rack -> Load]
  /\ requests \in [Request -> [rack : Rack \cup {UnknownRack}, delta : Delta]]
  /\ \A i \in Request : /\ decisions[i].status \in Status
                        /\ decisions[i].accepted \in Int
  /\ left \in [Scope -> Nat]
  /\ upLeft \in [RampScope -> Nat]
  /\ downLeft \in [RampScope -> Nat]
  /\ rackLoad \in [Rack -> Nat]
  /\ net \in [Scope -> Int]
  /\ summary \in Status

(* D92: never exceed the safe capacity of site, bus, feeder, PDU, rack or  *)
(* thermal envelope.  After any prefix of any batch, a capacity that was   *)
(* respected still is, and one that was already exceeded is not made worse.*)
CapacityRespected ==
  \A s \in Scope :
    LoadOn(load, s) + net[s] <= Larger(SafeOf(s), LoadOn(load, s))

(* The counters follow the racks: what the validator believes of every     *)
(* capacity is what the accepted changes do to the loads of the racks.     *)
NetIsLoad ==
  \A s \in Scope : LoadOn(rackLoad, s) = LoadOn(load, s) + net[s]

(* What was accepted in one direction on the racks below a ramp limit. *)
Raised(s) ==
  LET raise == [i \in Request |->
        IF decisions[i].accepted > 0 /\ s \in {Site, <<"rack", requests[i].rack>>}
        THEN decisions[i].accepted ELSE 0]
  IN SumFunctionOnSet(raise, Request)
Lowered(s) ==
  LET drop == [i \in Request |->
        IF /\ decisions[i].accepted < 0
           /\ ~SafetyBlocked(requests[i].rack)
           /\ s \in {Site, <<"rack", requests[i].rack>>}
        THEN -decisions[i].accepted ELSE 0]
  IN SumFunctionOnSet(drop, Request)

(* D102: no batch, whatever it repeats or mixes, gets more change accepted *)
(* than the ramp limits of the site and of each rack allow in an interval; *)
(* only safety-blocked racks may drop faster.                              *)
RampsRespected ==
  \A s \in RampScope :
    /\ UpLimit(s) > 0 => Raised(s) <= UpLimit(s)
    /\ DownLimit(s) > 0 => Lowered(s) <= DownLimit(s)

(* Every request that did not get all it asked for is told at least one    *)
(* limit that stood in its way, and no other decision names one.           *)
RefusalExplained ==
  \A i \in Request :
    (decisions[i].violations # {}) <=>
      (decisions[i].status \in {"partial", "rejected"})

(* Whether criticality puts request i before request j. *)
Outranks(i, j) ==
  LET ri == requests[i].rack
      rj == requests[j].rack
  IN /\ ri \in Rack /\ rj \in Rack
     /\ \/ /\ requests[i].delta < 0 /\ requests[j].delta < 0
           /\ CurtailmentPriority(ri) < CurtailmentPriority(rj)
        \/ /\ requests[i].delta > 0 /\ requests[j].delta > 0
           /\ CriticalityRank(ri) > CriticalityRank(rj)

(* Criticality decides who gets what the site has left: when only the site *)
(* stood in the way of a request, no request that it outranks, in the same *)
(* direction, got anything (a safety-blocked rack may always be reduced).  *)
NoPriorityInversion ==
  \A i, j \in Request :
    /\ Outranks(i, j)
    /\ decisions[i].violations # {}
    /\ \A v \in decisions[i].violations : v[2] = Site
    /\ ~SafetyBlocked(requests[j].rack)
    => decisions[j].accepted = 0

(* The summary says "accepted" or "rejected" exactly when every decision   *)
(* does.                                                                   *)
SummaryAgrees ==
  summary # "none" =>
    \A st \in {"accepted", "rejected"} :
      (summary = st) <=> (Statuses \subseteq {st} /\ (Statuses = {} => st = "accepted"))

(* D91: "No exceder capacidad segura de transformador": the same promise   *)
(* as CapacityRespected for the transformers above the buses.              *)
TransformerRespected ==
  \A t \in Asset :
    LET under == {r \in Rack : TransformerOf[r] = t}
        Sum(rl) == SumFunctionOnSet(rl, under)
    IN Kind[t] = "transformer" =>
         Sum(rackLoad) <= Larger(Safe[t], Sum(load))
=============================================================================
