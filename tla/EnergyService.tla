---------------------------- MODULE EnergyService ----------------------------
(***************************************************************************)
(* The energy orchestrator answering a request about the power of its      *)
(* sites (httpapi/energy_handler.go, service/service.go): it reads the     *)
(* inventory and the telemetry statement by statement, computes the        *)
(* budget, asks the ingest API for context, persists a snapshot as         *)
(* evidence, publishes events that name it, and answers.  Meanwhile        *)
(* telemetry arrives, any statement, call or publication may fail, and the *)
(* process may stop.  A client that goes away cancels the context of its   *)
(* request: every later statement and publication fails, which is one of   *)
(* these behaviours.                                                       *)
(*                                                                         *)
(* The budget of an answer is a function of what was read, so a request    *)
(* keeps what it read and the operators below compute the rest.            *)
(***************************************************************************)
EXTENDS Replay, Access

CONSTANTS
  Inventories,   \* site -> [site, assets, racks, windows]
  Configs,       \* access configurations, see Access
  Keys,          \* the keys callers present
  Times,         \* the instants `at` may name
  Readings,      \* what telemetry_latest may say of a site: the load of each
                 \* of its racks, and the average ambient tag or NoAmbient
  Overrides,     \* ambient_celsius parameter, or NoAmbient
  Targets,       \* the racks a dispatch request names
  Deltas,        \* the change a dispatch request asks for
  Histories,     \* the hours before `at`, see SiteOverview!HourlySample
  Days,          \* the telemetry of a day: a sequence of buckets
  RackLimit,     \* context_rack_limit
  MaxRequests,   \* bound on the requests received
  MaxTelemetry,  \* bound on the changes of telemetry
  NoAmbient, NoId

\* What the columns of the tables of a site hold (migration 0006), in the
\* units of the model: capacities are whole kilowatts, a ramp of 0 is none.
IntColumns(row, columns) ==
  \A column \in columns : column \in DOMAIN row /\ row[column] \in Int
SiteTables(site, assets, racks) ==
  /\ {site.target, site.deratePct} \subseteq Nat
  /\ site.target % KW = 0 /\ site.reserve \in 0 .. 60
  /\ IntColumns(site, {"reference", "derateStart", "rampUp", "rampDown"})
  /\ IsFiniteSet(DOMAIN assets) /\ IsFiniteSet(DOMAIN racks)
  /\ DOMAIN racks \subseteq Nat \ {Site}
  /\ \A a \in DOMAIN assets :
       /\ "layer" \in DOMAIN assets[a] /\ assets[a].layer \in Layer
       /\ IntColumns(assets[a], {"nominal", "margin", "deratePct",
                                "derateStart"})
  /\ \A r \in DOMAIN racks :
       /\ "class" \in DOMAIN racks[r]
       /\ racks[r].class \in {"normal_production", "preferred_production",
                              "sacrificable_load", "safety_blocked"}
       /\ "locked" \in DOMAIN racks[r] /\ racks[r].locked \in BOOLEAN
       /\ IntColumns(racks[r], {"nominal", "margin", "thermal", "rampUp",
                                "rampDown"})
ASSUME InventoriesAssumption ==
  \A inv \in Inventories :
    /\ IsFiniteSet(DOMAIN inv) /\ DOMAIN inv \subseteq Nat \ {0}
    /\ \A s \in DOMAIN inv : SiteTables(inv[s].site, inv[s].assets, inv[s].racks)
ASSUME ReadingsAssumption ==
  \A r \in Readings : /\ DOMAIN r = {"load", "ambient"}
                      /\ r.ambient \in Int \cup {NoAmbient}
                      /\ IsFiniteSet(DOMAIN r.load)
                      /\ \A rack \in DOMAIN r.load : r.load[rack] \in Int
ASSUME OverridesAssumption == Overrides \subseteq Int \cup {NoAmbient}
ASSUME HistoriesAssumption ==
  Histories \subseteq Seq([perMiner : Nat, load : Int, ambient : Int,
                          critical : Nat, errorPct : Int])

\* What telemetry_readings says of a rack in a bucket: powers are not negative
\* (migration 0001), the ambient tag may be missing.
ASSUME DaysAssumption ==
  \A day \in Days :
    /\ Len(day) \in Nat /\ DOMAIN day = 1 .. Len(day)
    /\ \A i \in DOMAIN day :
         /\ IsFiniteSet(DOMAIN day[i])
         /\ \A r \in DOMAIN day[i] :
              LET measured == day[i][r]
              IN  /\ {"load", "temp", "ambient"} \subseteq DOMAIN measured
                  /\ measured.load \in Nat /\ measured.temp \in Int
                  /\ measured.ambient \in Int \cup {NoAmbient}

VARIABLES
  inventory,   \* the energy tables; nothing in the program writes them
  config,      \* the access configuration, read at start
  telemetry,   \* site -> [load, ambient, version] of telemetry_latest
  request,     \* the request under way or last answered
  received,    \* how many requests came
  snapshots,   \* energy_budget_snapshots
  events       \* what the energy stream stored

vars == <<inventory, config, telemetry, request, received, snapshots, events>>

Idle == [pc |-> "idle"]

Sites == DOMAIN inventory
SettledStates == {"idle", "refused", "failed", "not_found", "answered"}
UnderWay == request.pc \notin SettledStates

Init ==
  /\ inventory \in Inventories
  /\ config \in Configs
  /\ \E reading \in Readings :
       telemetry = [s \in Sites |-> Join(reading, [version |-> 1])]
  /\ request = Idle
  /\ received = 0
  /\ snapshots = {}
  /\ events = {}
-------------------------------------------------------------------------------
(* What an answer is computed from. *)

WithMaintenance(items, under) ==
  [i \in DOMAIN items |-> Join(items[i], [maintenance |-> i \in under])]

\* The input of ComputeSiteBudget, from what LoadBudgetInput read.  Only the
\* maintenance windows depend on `at`; the loads are always the latest ones.
InputOf(s, at, read, override) ==
  LET here == inventory[s]
  IN  [site    |-> here.site,
       assets  |-> WithMaintenance(here.assets, here.windows[at].assets),
       racks   |-> WithMaintenance(here.racks, here.windows[at].racks),
       ambient |-> CASE override # NoAmbient -> override
                     [] override = NoAmbient /\ read.ambient # NoAmbient ->
                          read.ambient
                     [] OTHER -> here.site.reference,
       load    |-> read.load]

BudgetOf(q) == ComputeSiteBudget(InputOf(q.site, q.at, q.read, q.override))

\* selectConstrainedRacks: the racks context is asked for, the most
\* constrained first.
SelectConstrainedRacks(b) ==
  LET Weight(r) ==
        Cardinality(b.racks[r].flags)
          + (IF b.racks[r].dispatchable <= 0 THEN 2 ELSE 0)
          + (IF b.racks[r].load > b.racks[r].safe THEN 3 ELSE 0)
      Before(r, t) ==
        \/ Weight(r) > Weight(t)
        \/ /\ Weight(r) = Weight(t)
           /\ \/ b.racks[r].dispatchable < b.racks[t].dispatchable
              \/ b.racks[r].dispatchable = b.racks[t].dispatchable /\ r < t
      racks == {r \in DOMAIN b.racks : Weight(r) > 0}
  IN  {r \in racks : Cardinality({t \in racks : Before(t, r)}) < RackLimit}

\* The overview of one site of a campus: the budget and the projection are
\* made of two separate reads.
ProjectionOf(s, at, part) ==
  ProjectSiteRisk(inventory[s].site,
                  ComputeSiteBudget(InputOf(s, at, part.risk, NoAmbient)),
                  [i \in DOMAIN part.hours |-> HourlySample(part.hours[i])],
                  part.expensive)
OverviewOf(s, at, part) ==
  LET b == ComputeSiteBudget(InputOf(s, at, part.budget, NoAmbient))
  IN  BuildSiteOverview(BuildOperationalView(b), ProjectionOf(s, at, part),
                        part.expensive)
OverviewsOf(q) == [s \in DOMAIN q.parts |-> OverviewOf(s, q.at, q.parts[s])]

\* The points of a day: what the racks with a profile measured, with the class,
\* the lock and the ramps their profile has now; without an ambient tag, the
\* site's reference.
PointsOf(s, day) ==
  LET here == inventory[s]
      Own(limit, ofSite) == IF limit > 0 THEN limit ELSE ofSite
      Point(r, measured) ==
        Join([ambient  |-> IF measured.ambient = NoAmbient
                           THEN here.site.reference ELSE measured.ambient,
              class    |-> here.racks[r].class,
              locked   |-> here.racks[r].locked
                             \/ here.racks[r].class = "safety_blocked",
              rampUp   |-> Own(here.racks[r].rampUp, here.site.rampUp),
              rampDown |-> Own(here.racks[r].rampDown, here.site.rampDown)],
             measured)
      Seen(i) == DOMAIN day[i] \cap DOMAIN here.racks
      filled == {i \in DOMAIN day : Seen(i) # {}}
      order == InOrder(filled, {x \in filled \X filled : x[1] < x[2]})
  IN  [k \in DOMAIN order |->
         [r \in Seen(order[k]) |-> Point(r, day[order[k]][r])]]
-------------------------------------------------------------------------------
(* Reading. *)

OnlyRequest == UNCHANGED <<inventory, config, telemetry, received, snapshots,
                           events>>
At(stage) == request.pc = stage
ReadStages == {"sites", "profile", "ambient", "inventory", "loads", "samples",
               "history"}

\* One request at a time.
Accepting == ~UnderWay /\ received < MaxRequests

\* A request for a budget, an operational view, a dispatch or the replay of
\* one site.
Receive(kind, key, s, at, override, rack, delta) ==
  LET gate == Gate(config, key, kind = "dispatch", {s},
                   IF kind = "dispatch" THEN {rack} ELSE {})
  IN  /\ Accepting
      /\ received' = received + 1
      /\ request' = IF gate # "ok" THEN [pc |-> "refused"]
                    ELSE [pc |-> "profile", kind |-> kind, site |-> s,
                          at |-> at, override |-> override,
                          rack |-> rack, delta |-> delta, read |-> <<>>,
                          pass |-> "budget"]
      /\ UNCHANGED <<inventory, config, telemetry, snapshots, events>>

\* A request for the overview of the campus: the caller's sites in order.
ReceiveOverview(key, at) ==
  /\ Accepting
  /\ received' = received + 1
  /\ request' = IF Gate(config, key, FALSE, {}, {}) # "ok"
                THEN [pc |-> "refused"]
                ELSE [pc |-> "sites", kind |-> "overview", at |-> at,
                      scope |-> PrincipalOf(config, key).sites,
                      override |-> NoAmbient]
  /\ UNCHANGED <<inventory, config, telemetry, snapshots, events>>

\* The next site of the overview, or the answer when there is none left.
NextSite(q, left) ==
  IF left = {} THEN Join(q, [pc |-> "respond"])
  ELSE Join(q, [pc |-> "profile", site |-> Min(left), left |-> left,
                read |-> <<>>, pass |-> "budget"])
Kept(q) == [k \in DOMAIN q \cap {"kind", "at", "scope", "override", "parts"}
              |-> q[k]]

ListSiteProfiles ==
  /\ At("sites")
  /\ request' = NextSite(Join([parts |-> <<>>], Kept(request)),
                         {s \in Sites : ScopeAllows(request.scope, s)})
  /\ OnlyRequest

(* Mutant of StageAfter: the loads are read first. *)
LoadsFirst(stage) ==
  CASE stage = "profile" -> "loads" [] stage = "loads" -> "inventory"
    [] stage = "inventory" -> "ambient" [] stage = "ambient" -> "done"

\* The order of the statements of LoadBudgetInput.
StageAfter(stage) ==
  CASE stage = "profile" -> "ambient" [] stage = "ambient" -> "inventory"
    [] stage = "inventory" -> "loads" [] stage = "loads" -> "done"

\* What follows when everything has been read: the answer of one site goes on
\* with the context, a replay reads the day, an overview reads the same again
\* for the projection.
AfterInput(q) ==
  CASE q.kind \in {"budget", "view", "dispatch"} -> [q EXCEPT !.pc = "context"]
    [] q.kind = "replay" -> [q EXCEPT !.pc = "history"]
    [] q.kind = "overview" /\ q.pass = "budget" ->
         [q EXCEPT !.pc = "profile", !.pass = "risk", !.read = <<>>,
                   !.parts = Join([s \in {q.site} |-> [budget |-> q.read]], @)]
    [] q.kind = "overview" /\ q.pass = "risk" -> [q EXCEPT !.pc = "samples"]

Reading(stage, found) ==
  LET next == StageAfter(stage)
      q == [request EXCEPT !.read = Join(found, @)]
  IN  /\ At(stage)
      /\ request' = IF next = "done" THEN AfterInput(q)
                    ELSE [q EXCEPT !.pc = next]
      /\ OnlyRequest

\* A site without a profile is answered with "not found".
LoadSiteProfile ==
  \/ /\ At("profile") /\ request.site \in Sites
     /\ Reading("profile", <<>>)
  \/ /\ At("profile") /\ request.site \notin Sites
     /\ request' = [request EXCEPT !.pc = "not_found"]
     /\ OnlyRequest

\* The average ambient tag, and the time of the newest reading: what the
\* budget will claim as its telemetry_observed_at.
LoadAmbient ==
  /\ At("ambient")
  /\ LET latest == telemetry[request.site]
     IN Reading("ambient", [ambient |-> latest.ambient,
                            observed |-> latest.version])

\* Substations, transformers, buses, feeders, PDUs and rack profiles, with the
\* maintenance windows that contain `at`.
LoadInventory == Reading("inventory", <<>>)

LoadRackLoads ==
  /\ At("loads")
  /\ LET latest == telemetry[request.site]
     IN Reading("loads", [load |-> latest.load, version |-> latest.version])

\* The hours before `at` and the tariff in force; a tariff that cannot be read
\* is no tariff.
LoadRiskSamples(hours, expensive) ==
  LET s == request.site
      part == Join([risk |-> request.read, hours |-> hours,
                    expensive |-> expensive], request.parts[s])
      parts == Join([t \in {s} |-> part], request.parts)
  IN  /\ At("samples")
      /\ request' = NextSite(Kept([request EXCEPT !.parts = parts]),
                             request.left \ {s})
      /\ OnlyRequest

\* The telemetry of the day and the alerts of it; a day without telemetry of a
\* profiled rack is answered with "not found".  Of what was read for a budget
\* only the profile of the site is used.
LoadHistory(day) ==
  LET points == PointsOf(request.site, day)
  IN  /\ At("history")
      /\ request' = IF points = <<>> THEN [pc |-> "not_found"]
                    ELSE [pc |-> "respond", kind |-> "replay",
                          site |-> request.site, day |-> points]
      /\ OnlyRequest

\* Any statement fails: the request is answered with
\* an error and nothing was written.
ReadFails ==
  /\ request.pc \in ReadStages
  /\ request' = [pc |-> "failed"]
  /\ OnlyRequest
-------------------------------------------------------------------------------
(* Evidence. *)

\* Context from the ingest API, if it is asked for, and for the racks of
\* `missing` only a warning; a failure never fails the request.
LoadContext ==
  /\ At("context")
  /\ \E missing \in SUBSET SelectConstrainedRacks(BudgetOf(request)) :
       request' = Join([pc |-> "persist", missing |-> missing], request)
  /\ OnlyRequest

\* What a snapshot holds and an event is made of.
Evidence(q) ==
  [site |-> q.site, at |-> q.at, override |-> q.override, read |-> q.read]

(* Mutant of SnapshotAnswered: the id is the one that was generated. *)
SnapshotGenerated(id, stored, reported) == id

\* CreateBudgetSnapshot returns the id only when the insert is reported to
\* have succeeded.
SnapshotAnswered(id, stored, reported) ==
  IF stored /\ reported THEN id ELSE NoId

\* The insert may fail, or be made and its outcome lost.
PersistBudgetSnapshot(stored, reported) ==
  /\ At("persist")
  /\ reported => stored
  /\ snapshots' = IF stored
                  THEN snapshots \cup {[id |-> received,
                                        missing |-> request.missing,
                                        evidence |-> Evidence(request)]}
                  ELSE snapshots
  /\ request' = Join([pc |-> "publish_budget", missing |-> {},
                      snapshot |-> SnapshotAnswered(received, stored, reported)],
                     request)
  /\ UNCHANGED <<inventory, config, telemetry, received, events>>

Event(q, type) ==
  [type |-> type, snapshot |-> q.snapshot, evidence |-> Evidence(q)]

\* Publication is tried once; a publication that fails is logged.
Publish(stage, type, next, delivered) ==
  /\ At(stage)
  /\ events' = IF delivered THEN events \cup {Event(request, type)} ELSE events
  /\ request' = [request EXCEPT !.pc = next]
  /\ UNCHANGED <<inventory, config, telemetry, received, snapshots>>

Overloaded(b) == b.load > b.safe
Decision(q) ==
  ValidateRequest(InputOf(q.site, q.at, q.read, q.override), BudgetOf(q),
                  q.rack, q.delta)

PublishLoadBudgetUpdated ==
  \E delivered \in BOOLEAN :
    Publish("publish_budget", "load_budget_updated", "publish_curtailment",
            delivered)
PublishCurtailmentRecommended ==
  /\ At("publish_curtailment")
  /\ Overloaded(BudgetOf(request))
  /\ \E delivered \in BOOLEAN :
       Publish("publish_curtailment", "curtailment_recommended",
               "publish_rejected", delivered)
NoCurtailment ==
  /\ At("publish_curtailment")
  /\ ~Overloaded(BudgetOf(request))
  /\ request' = [request EXCEPT !.pc = "publish_rejected"]
  /\ OnlyRequest
PublishDispatchRejected ==
  /\ At("publish_rejected")
  /\ request.kind = "dispatch" /\ Decision(request).status # "accepted"
  /\ \E delivered \in BOOLEAN :
       Publish("publish_rejected", "dispatch_rejected", "respond", delivered)
NothingRejected ==
  /\ At("publish_rejected")
  /\ request.kind = "dispatch" => Decision(request).status = "accepted"
  /\ request' = [request EXCEPT !.pc = "respond"]
  /\ OnlyRequest

\* The body of each answer, a function of what the request read.
AnswerTo(q) ==
  CASE q.kind = "budget" -> BudgetOf(q)
    [] q.kind = "view" -> BuildOperationalView(BudgetOf(q))
    [] q.kind = "dispatch" -> Decision(q)
    [] q.kind = "overview" -> OverviewsOf(q)
    [] q.kind = "replay" -> RunShadowPilot(inventory[q.site].site, q.day)

Respond ==
  /\ At("respond")
  /\ request' = Join([pc |-> "answered", answer |-> AnswerTo(request)], request)
  /\ OnlyRequest
-------------------------------------------------------------------------------
(* The environment. *)

\* Telemetry that arrives when the request has read everything is the next
\* request's.
TelemetryArrives(s, reading) ==
  /\ request.pc \in ReadStages
  /\ \A t \in Sites : telemetry[t].version < MaxTelemetry
  /\ reading # [load |-> telemetry[s].load, ambient |-> telemetry[s].ambient]
  /\ telemetry' = [telemetry EXCEPT ![s] =
                     Join(reading, [version |-> @.version + 1])]
  /\ UNCHANGED <<inventory, config, request, received, snapshots, events>>

Crash ==
  /\ UnderWay
  /\ request' = Idle
  /\ OnlyRequest

RequestArrives ==
  /\ Accepting
  /\ \/ \E key \in Keys, s \in Sites \cup {0}, at \in Times,
           override \in Overrides :
          \/ \E kind \in {"budget", "view"} :
               Receive(kind, key, s, at, override, NoId, 0)
          \/ \E rack \in Targets, delta \in Deltas :
               Receive("dispatch", key, s, at, override, rack, delta)
     \/ \E key \in Keys, s \in Sites \cup {0}, at \in Times :
          Receive("replay", key, s, at, NoAmbient, NoId, 0)
     \/ \E key \in Keys, at \in Times : ReceiveOverview(key, at)

Next ==
  \/ RequestArrives
  \/ ListSiteProfiles \/ LoadSiteProfile \/ LoadAmbient \/ LoadInventory
  \/ LoadRackLoads
  \/ \E hours \in Histories, expensive \in BOOLEAN :
       LoadRiskSamples(hours, expensive)
  \/ \E day \in Days : LoadHistory(day)
  \/ ReadFails
  \/ LoadContext
  \/ \E stored, reported \in BOOLEAN : PersistBudgetSnapshot(stored, reported)
  \/ PublishLoadBudgetUpdated \/ PublishCurtailmentRecommended
  \/ PublishDispatchRejected \/ NoCurtailment \/ NothingRejected
  \/ Respond
  \/ \E s \in Sites, reading \in Readings : TelemetryArrives(s, reading)
  \/ Crash

Spec == Init /\ [][Next]_vars
-------------------------------------------------------------------------------
(* Properties. *)

Answered(kinds) == request.pc = "answered" /\ request.kind \in kinds
OneSite == {"budget", "view", "dispatch"}
ReductionsOf(recommendations, action) ==
  SumFunction([i \in DOMAIN recommendations |->
                 IF recommendations[i].action = action
                 THEN -recommendations[i].recommended ELSE 0])

Asked(recommendations) ==
  {recommendations[i].rack : i \in {j \in DOMAIN recommendations :
                                      recommendations[j].action = "curtail"}}
Gives(recommendations, r) ==
  CHOOSE x \in {-recommendations[i].recommended : i \in DOMAIN recommendations} :
    \E i \in DOMAIN recommendations :
      /\ recommendations[i].rack = r
      /\ x = -recommendations[i].recommended

AdviceAddsUp(b, recs) ==
  LET overload == Larger(b.load - b.safe, 0)
      Given(action) == ReductionsOf(recs, action)
  IN  /\ Given("curtail") + Given("escalate") <= overload
      /\ Given("curtail") + Given("escalate") + Given("isolate") >= overload

\* Sacrificable load goes before normal production and that before preferred;
\* of one class the rack that draws more, and of the same draw the lower id.
AskedBefore(b, s, r) ==
  LET Order == <<"sacrificable_load", "normal_production",
                 "preferred_production">>
      one == b.racks[s]
      other == b.racks[r]
  IN  \/ \E i, j \in DOMAIN Order :
           i < j /\ one.class = Order[i] /\ other.class = Order[j]
      \/ one.class = other.class /\ one.load > other.load
      \/ one.class = other.class /\ one.load = other.load /\ s < r

AskedInOrder(b, recs) ==
  \A r \in Asked(recs), s \in DOMAIN b.racks :
    /\ AskedBefore(b, s, r)
    /\ ~b.racks[s].blocked /\ b.racks[s].load > 0
    => s \in Asked(recs) /\ Gives(recs, s) = ReductionCap(b.racks[s])

AdviceIsGranted(in, b, recs) ==
  in.site.rampDown <= 0 =>
    \A r \in Asked(recs) :
      AcceptedReduction(in, b, r, Gives(recs, r)) = Gives(recs, r)

RefusalsAreBlocked(in, b, blocked) ==
  \A r \in DOMAIN b.racks :
    AcceptedIncrease(in, b, r, 1) = 0 => r \in {x.rack : x \in blocked}

\* The advice of an operational view adds up and can be carried out: what is
\* curtailed and escalated is the overload that isolating locked racks leaves,
\* or less; with the isolations it is never less than the overload; a rack is
\* asked to give only if every rack before it, by class, by draw and by id, is
\* locked, draws nothing or gives all it can; the validator accepts each
\* curtailment in full unless a ramp of the site forbids it; and every rack with
\* an increase the validator would refuse is among the blocked actions
\* (policy.go and engine.go decide separately).
AdviceIsSound ==
  Answered({"view"}) =>
    LET in == InputOf(request.site, request.at, request.read, request.override)
        view == request.answer
        b == view.budget
    IN  /\ AdviceAddsUp(b, view.recommendations)
        /\ AskedInOrder(b, view.recommendations)
        /\ AdviceIsGranted(in, b, view.recommendations)
        /\ RefusalsAreBlocked(in, b, view.blocked)

\* The headroom a budget promises one rack is there: after that rack has taken
\* all of it, neither the site nor the rack nor any bus, feeder or PDU above it
\* is over its safe capacity, unless it was before.
HeadroomIsReal ==
  Answered({"budget"}) =>
    LET in == InputOf(request.site, request.at, request.read, request.override)
        b == request.answer
    IN  \A r \in DOMAIN b.racks :
          LET taken == [x \in {r} |-> LoadOf(in, r) + b.racks[r].dispatchable]
              load == Join(taken, in.load)
              after == ComputeSiteBudget([in EXCEPT !.load = load])
          IN  /\ after.load <= Larger(b.safe, b.load)
              /\ after.racks[r].load <= Larger(b.racks[r].safe, b.racks[r].load)
              /\ \A a \in DOMAIN b.assets :
                   in.assets[a].layer # "transformer" =>
                     after.assets[a].load <= Larger(b.assets[a].safe,
                                                    b.assets[a].load)

\* A snapshot id that leaves the service, in an answer or in an event, names a
\* stored snapshot of the very budget it goes with (D98: every operational
\* answer can be traced), whatever failed, crashed or was cancelled meanwhile.
EvidenceMatches ==
  LET Holds(id, evidence) ==
        id # NoId => \E snapshot \in snapshots :
                       snapshot.id = id /\ snapshot.evidence = evidence
  IN  /\ \A e \in events : Holds(e.snapshot, e.evidence)
      /\ Answered(OneSite) => Holds(request.snapshot, Evidence(request))

\* The loads of a budget are not older than the telemetry_observed_at it
\* claims, although they are read by a later statement than that is.
LoadsAtLeastAsFresh ==
  /\ \A snapshot \in snapshots :
       snapshot.evidence.read.observed <= snapshot.evidence.read.version
  /\ Answered(OneSite) => request.read.observed <= request.read.version

\* A site whose last hour was over its own safe capacity, and whose load and
\* ambient temperature are not projected to fall, is at high risk in every
\* projected hour in which it can draw anything (an hour derated to a capacity
\* of zero gets no score for its load, whatever the load); and the campus
\* overview never lists a site whose budget is overloaded after one of the same
\* tariff that has no risk at all.
RiskSeesOverload ==
  Answered({"overview"}) =>
    /\ LET overview == request.answer
           order == BuildCampusOverview(overview)
       IN  \A i, j \in DOMAIN order :
             /\ overview[order[i]].topRisks = <<>>
             /\ overview[order[j]].load > overview[order[j]].allowed
             /\ overview[order[i]].expensive = overview[order[j]].expensive
             => j < i
    /\ \A s \in DOMAIN request.parts :
         LET part == request.parts[s]
             site == inventory[s].site
             samples == [i \in DOMAIN part.hours |->
                           HourlySample(part.hours[i])]
             b == ComputeSiteBudget(InputOf(s, request.at, part.risk,
                                            NoAmbient))
             base == BaseOf(b, samples)
             own == ComputeAssetBudget(
                      [nominal |-> site.target, margin |-> site.reserve,
                       derateStart |-> site.derateStart,
                       deratePct |-> site.deratePct, status |-> "active",
                       maintenance |-> FALSE], base.load, base.ambient)
             point == request.answer[s].projection
         IN  /\ base.load >= own.safe
             /\ TrendOf(samples).load >= 0 /\ TrendOf(samples).ambient >= 0
             => \A h \in 1 .. Horizon :
                  point[h].safe > 0 => point[h].level \in {"high", "critical"}

\* A down-ramp decided where a rack arrived.
Held(one) == one.ramps.down > 0 /\ one.load = one.before - one.ramps.down
Draws(bucket) == Sum([r \in DOMAIN bucket |-> bucket[r].load])

\* The i-th bucket of the replay under a policy is one that could have been.
Feasible(site, name, day, i, bucket) ==
  /\ \A r \in DOMAIN bucket :
       /\ \E j \in 1 .. i : /\ r \in DOMAIN day[j]
                            /\ bucket[r].load <= day[j][r].load
       /\ Isolated(day[i][r]) => bucket[r].load = 0
  /\ (\A r \in DOMAIN bucket : ~Held(bucket[r])) =>
       Draws(bucket) <=
         Percent(SiteSafeCapacityForAmbient(site, AverageAmbient(day[i])),
                 Policies[name].capacityPct)

\* The balanced policy touches production load, or does not find the load.
Touched(site, points) ==
  LET balanced == Policies["priority_balanced"]
      kept == LeftByPolicy(site, balanced, points)
      open == {r \in DOMAIN points : ~Isolated(points[r])}
  IN  \/ \E r \in open : /\ points[r].class # "sacrificable_load"
                         /\ kept[r] < points[r].load
      \/ Sum([r \in open |-> points[r].load - kept[r]])
           < Overage(site, balanced.capacityPct, points)

\* A replayed day could have happened and its two policies stand in the order
\* their names say: in every bucket each rack draws at most what it drew then or
\* before; an isolated rack draws nothing; the site keeps within the capacity of
\* the policy unless a down-ramp holds a rack back; and the protective policy
\* never draws more than the balanced one, rack by rack.  The pilot, which
\* judges without replaying, would escalate exactly the buckets in which the
\* balanced policy has to touch production load or cannot find the load at all,
\* as long as no sacrificable rack is locked.
ReplayIsFeasible ==
  Answered({"replay"}) =>
    LET site == inventory[request.site].site
        day == request.day
        runs == request.answer.replay.buckets
    IN  /\ \A name \in DOMAIN Policies : \A i \in DOMAIN day :
             Feasible(site, name, day, i, runs[name][i])
        /\ \A i \in DOMAIN day : \A r \in DOMAIN day[i] :
             runs["protective_thermal"][i][r].load
               <= runs["priority_balanced"][i][r].load
        /\ (\A i \in DOMAIN day : \A r \in DOMAIN day[i] :
              ~(day[i][r].locked /\ day[i][r].class = "sacrificable_load"))
           => request.answer.escalated =
                Cardinality({i \in DOMAIN day :
                               /\ Overage(site, 100, day[i]) > 0
                               /\ Touched(site, day[i])})

\* "expected site safe capacity to be capped by degraded transformer"
\* (overview_shadow_test.go:74): with one transformer, the site's safe capacity
\* is at most the transformer's, in a maintenance window too (D92).
SiteCappedByTransformer ==
  Answered(OneSite) =>
    LET b == BudgetOf(request)
        transformers == {a \in DOMAIN b.assets :
                           inventory[request.site].assets[a].layer
                             = "transformer"}
    IN  Cardinality(transformers) = 1 =>
          \A a \in transformers : b.safe <= b.assets[a].safe
=============================================================================
