----------------------------- MODULE SiteBudget -----------------------------
(***************************************************************************)
(* The power budget of a site (orchestrator.ComputeSiteBudget): what the   *)
(* site, each asset above the racks and each rack may draw safely, from    *)
(* the inventory, the ambient temperature and the current loads.           *)
(*                                                                         *)
(* A BudgetInput is a record [site, assets, racks, ambient, load].  assets *)
(* and racks are functions from ids to records; load is a function on the  *)
(* racks that have telemetry, profiled or not.  Power is in milliwatts and *)
(* capacities are whole kilowatts, so that every percentage the budget     *)
(* takes of them is exact.                                                 *)
(***************************************************************************)
EXTENDS Integers, FiniteSetsExt, Functions

KW == 1000000

Larger(a, b) == IF a > b THEN a ELSE b

(* minPositive: the least of the values that are not negative, 0 if none. *)
MinPositive(S) ==
  LET P == {x \in S : x >= 0} IN IF P = {} THEN 0 ELSE Min(P)

(* p per cent of x, a multiple of 100 mW. *)
Percent(x, p) == (x \div 100) * p

(* Per cent of the nominal capacity that an asset of that status offers. *)
StatusFactor(status) ==
  CASE status = "active" -> 100
    [] status = "degraded" -> 85
    [] status \in {"maintenance", "inactive"} -> 0
    [] OTHER -> 75

(* Per cent that ambient derating leaves. *)
AmbientDerateFactor(ambient, start, pctPerDeg) ==
  IF pctPerDeg <= 0 \/ ambient <= start THEN 100
  ELSE Larger(100 - (ambient - start) * pctPerDeg, 0)

ComputeAssetBudget(asset, load, ambient) ==
  LET factor == IF asset.maintenance THEN 0 ELSE StatusFactor(asset.status)
      derate == AmbientDerateFactor(ambient, asset.derateStart,
                                    asset.deratePct)
      effective == Percent(Percent(asset.nominal, factor), derate)
      safe == Larger(effective - Percent(effective, asset.margin), 0)
  IN [load |-> load, safe |-> safe, available |-> Larger(safe - load, 0)]

Layer == {"transformer", "bus", "feeder", "pdu"}
NoAsset == "none"

(* The load of a rack: 0 without telemetry. *)
LoadOf(in, r) == IF r \in DOMAIN in.load THEN in.load[r] ELSE 0

(* Whether rack r draws its power through asset a. *)
Feeds(in, a, r) ==
  LET rack == in.racks[r]
      parent == IF rack.bus \in DOMAIN in.assets
                THEN in.assets[rack.bus].parent ELSE NoAsset
  IN a = CASE in.assets[a].layer = "transformer" -> parent
           [] in.assets[a].layer = "bus" -> rack.bus
           [] in.assets[a].layer = "feeder" -> rack.feeder
           [] in.assets[a].layer = "pdu" -> rack.pdu

AssetLoad(in, a) ==
  SumFunctionOnSet([r \in DOMAIN in.racks |-> LoadOf(in, r)],
                   {r \in DOMAIN in.racks : Feeds(in, a, r)})

SiteLoad(in) == SumFunction(in.load)

SafetyBlocked(rack) == rack.locked \/ rack.class = "safety_blocked"

(* effectiveRampUpLimit and effectiveRampDownLimit; 0 means no limit. *)
RampUpLimit(site, rack) ==
  IF rack.rampUp > 0 THEN rack.rampUp ELSE Larger(site.rampUp, 0)
RampDownLimit(site, rack) ==
  IF rack.rampDown > 0 THEN rack.rampDown ELSE Larger(site.rampDown, 0)

(* Mutant of PathOf: the budget forgets the PDUs. *)
PathWithoutPDU(in, r) ==
  {in.racks[r].bus, in.racks[r].feeder} \cap DOMAIN in.assets

(* The assets above a rack that bound what it may draw. *)
PathOf(in, r) ==
  {in.racks[r].bus, in.racks[r].feeder, in.racks[r].pdu} \cap DOMAIN in.assets

(* A rack: its own capacity, the thermal density, the ramps and its path. *)
RackBudget(in, r, assets, siteAvailable) ==
  LET rack == in.racks[r]
      load == LoadOf(in, r)
      own == ComputeAssetBudget(
               [nominal |-> rack.nominal, margin |-> rack.margin,
                derateStart |-> 0, deratePct |-> 0, status |-> rack.status,
                maintenance |-> rack.maintenance], load, in.ambient)
      headroom == Larger(rack.thermal - load, 0)
      blocked == SafetyBlocked(rack)
      up == RampUpLimit(in.site, rack)
      down == RampDownLimit(in.site, rack)
      exhausted == {in.assets[a].layer :
                      a \in {x \in PathOf(in, r) : assets[x].available <= 0}}
      path == {own.available, siteAvailable, headroom}
                \cup {assets[a].available : a \in PathOf(in, r)}
                \cup {x \in {in.site.rampUp, up} : x > 0}
  IN [class |-> rack.class, blocked |-> blocked, load |-> load,
      safe |-> own.safe, available |-> own.available,
      thermalHeadroom |-> headroom, rampUp |-> up, rampDown |-> down,
      upLeft |-> IF blocked THEN 0 ELSE IF up > 0 THEN up ELSE own.available,
      downLeft |-> IF blocked \/ down = 0 THEN load
                   ELSE MinPositive({load, down}),
      dispatchable |-> IF blocked THEN 0 ELSE MinPositive(path),
      flags |-> exhausted
        \cup {f \in {"rack"} : own.available <= 0}
        \cup {f \in {"above_safe"} : own.load > own.safe}
        \cup {f \in {"thermal"} : headroom <= 0}
        \cup {f \in {"maintenance"} : rack.maintenance}
        \cup {f \in {"safety"} : blocked}]

(* What a layer adds to the bounds of the site: the total of its assets,   *)
(* unless it is zero.                                                      *)
LayerTotals(in, assets) ==
  LET Total(k) == SumFunctionOnSet([a \in DOMAIN assets |-> assets[a].safe],
                                   {a \in DOMAIN assets : in.assets[a].layer = k})
  IN {t \in {Total(k) : k \in Layer} : t > 0}

ComputeSiteBudget(in) ==
  LET own == ComputeAssetBudget(
               [nominal |-> in.site.target, margin |-> in.site.reserve,
                derateStart |-> in.site.derateStart,
                deratePct |-> in.site.deratePct, status |-> "active",
                maintenance |-> FALSE], SiteLoad(in), in.ambient)
      assets == [a \in DOMAIN in.assets |->
                   ComputeAssetBudget(in.assets[a], AssetLoad(in, a),
                                      in.ambient)]
      safe == MinPositive({own.safe} \cup LayerTotals(in, assets))
      available == Larger(safe - own.load, 0)
  IN [load |-> own.load, safe |-> safe, available |-> available,
      dispatchable |-> IF in.site.rampUp > 0
                       THEN MinPositive({available, in.site.rampUp})
                       ELSE available,
      ramped |-> in.site.rampUp > 0 \/ in.site.rampDown > 0,
      ambient |-> in.ambient,
      assets |-> assets,
      racks |-> [r \in DOMAIN in.racks |->
                   RackBudget(in, r, assets, available)]]
=============================================================================
