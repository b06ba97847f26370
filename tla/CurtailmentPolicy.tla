------------------------- MODULE CurtailmentPolicy -------------------------
(***************************************************************************)
(* What the orchestrator advises on a budget                               *)
(* (orchestrator.BuildOperationalView): the constraints in force, the      *)
(* reductions it recommends and the increases it blocks; and what the      *)
(* validator answers to a batch of one request on the same budget.         *)
(*                                                                         *)
(* Racks are positive numbers, ordered as their ids are; 0 is the site.     *)
(***************************************************************************)
EXTENDS SiteBudget, Sequences, SequencesExt

Site == 0

(* The elements of a set in the order of a relation on it, in which each   *)
(* has a place: that after those before it.                                *)
InOrder(S, before) ==
  [n \in 1 .. Cardinality(S) |->
     CHOOSE x \in S : Cardinality({y \in S : <<y, x>> \in before}) = n - 1]

CurtailmentPriority(class) ==
  CASE class = "safety_blocked" -> 1
    [] class = "sacrificable_load" -> 2
    [] class = "normal_production" -> 3
    [] class = "preferred_production" -> 4

Constraint(scope, severity, code) ==
  [scope |-> scope, severity |-> severity, code |-> code]

(* collectActiveConstraints; the order it lists them in is left out. *)
ActiveConstraints(b) ==
  LET On(condition, constraint) == {c \in {constraint} : condition}
      OfRack(r) ==
        On(b.racks[r].blocked,
           Constraint(r, "critical", "rack_safety_blocked"))
        \cup On(b.racks[r].thermalHeadroom <= 0,
                Constraint(r, "warning", "rack_thermal_density_reached"))
        \cup On(b.racks[r].dispatchable <= 0 /\ ~b.racks[r].blocked,
                Constraint(r, "warning", "rack_dispatch_headroom_exhausted"))
  IN On(b.ramped, Constraint(Site, "info", "site_ramp_policy_active"))
     \cup On(b.load > b.safe,
             Constraint(Site, "critical",
                        "site_current_load_above_safe_capacity"))
     \cup On(b.available <= 0,
             Constraint(Site, "warning", "site_dispatch_headroom_exhausted"))
     \cup UNION {OfRack(r) : r \in DOMAIN b.racks}

(* Mutant of CurtailBefore: the racks in the order of their ids. *)
CurtailById(b, r, s) == r < s

(* Which of two racks is curtailed first. *)
CurtailBefore(b, r, s) ==
  LET Rank(x) == CurtailmentPriority(b.racks[x].class)
  IN \/ Rank(r) < Rank(s)
     \/ Rank(r) = Rank(s) /\ b.racks[r].load > b.racks[s].load
     \/ Rank(r) = Rank(s) /\ b.racks[r].load = b.racks[s].load /\ r < s

(* What one rack can give up: its load, within its down-ramp if it has one.*)
ReductionCap(rack) ==
  IF rack.downLeft > 0 THEN MinPositive({rack.load, rack.downLeft})
  ELSE rack.load

Recommend(acc, r, action, requested, reduction) ==
  [left |-> Larger(acc.left - reduction, 0),
   items |-> Append(acc.items, [rack |-> r, action |-> action,
                                requested |-> -requested,
                                recommended |-> -reduction])]

(* One candidate: a safety-blocked rack with load is isolated whatever the *)
(* site needs, any other is curtailed as long as something is missing.     *)
Consider(b, acc, r) ==
  LET rack == b.racks[r]
      reduction == MinPositive({acc.left, ReductionCap(rack)})
  IN CASE rack.blocked /\ rack.load > 0 ->
            Recommend(acc, r, "isolate", rack.load, ReductionCap(rack))
       [] /\ ~(rack.blocked /\ rack.load > 0)
          /\ acc.left > 0 /\ rack.load > 0 /\ reduction > 0 ->
            Recommend(acc, r, "curtail", acc.left, reduction)
       [] OTHER -> acc

(* The loop of buildPendingRecommendations, after each of its rounds.      *)
Considered(b, order) ==
  LET acc[n \in 0 .. Len(order)] ==
        IF n = 0
        THEN [left |-> Larger(b.load - b.safe, 0), items |-> <<>>]
        ELSE Consider(b, acc[n - 1], order[n])
  IN acc

(* buildPendingRecommendations: what the racks cannot give is escalated. *)
PendingRecommendations(b) ==
  LET racks == DOMAIN b.racks
      order == InOrder(racks,
                       {x \in racks \X racks : CurtailBefore(b, x[1], x[2])})
      acc == Considered(b, order)[Len(order)]
  IN IF acc.left > 0
     THEN Recommend(acc, Site, "escalate", acc.left, acc.left).items
     ELSE acc.items

(* buildBlockedActions: the increases that are ruled out, each with the    *)
(* first of the reasons that applies.                                      *)
BlockedActions(b) ==
  LET Code(rack) == CASE rack.blocked -> "rack_safety_blocked"
                      [] ~rack.blocked /\ rack.upLeft <= 0 ->
                           "rack_ramp_up_limit"
                      [] OTHER -> "rack_dispatch_headroom_exhausted"
  IN {[rack |-> r, code |-> Code(b.racks[r])] :
        r \in {x \in DOMAIN b.racks :
                 \/ b.racks[x].blocked \/ b.racks[x].upLeft <= 0
                 \/ b.racks[x].dispatchable <= 0}}
     \cup {x \in {[rack |-> Site, code |-> "site_dispatch_headroom_exhausted"]}
             : b.available <= 0}

(* siteExplanationSeverity and rackExplanationSeverity. *)
SiteSeverity(b) == CASE b.load > b.safe -> "critical"
                     [] b.load <= b.safe /\ b.available <= 0 -> "warning"
                     [] OTHER -> "info"
RackSeverity(rack) ==
  CASE rack.blocked -> "critical"
    [] /\ ~rack.blocked
       /\ rack.dispatchable <= 0 \/ rack.thermalHeadroom <= 0 -> "warning"
    [] OTHER -> "info"

(* buildDecisionExplanations: one for the site, one for each rack, each    *)
(* recommendation and each blocked action.                                 *)
Explanations(b, recommendations, blocked) ==
  {[scope |-> "site", about |-> Site, severity |-> SiteSeverity(b)]}
  \cup {[scope |-> "rack", about |-> r, severity |-> RackSeverity(b.racks[r])]
          : r \in DOMAIN b.racks}
  \cup {[scope |-> "recommendation", about |-> x.rack, severity |-> "warning"]
          : x \in Range(recommendations)}
  \cup {[scope |-> "blocked_action", about |-> x.rack,
         severity |-> "critical"] : x \in blocked}

BuildOperationalView(b) ==
  LET recommendations == PendingRecommendations(b)
      blocked == BlockedActions(b)
  IN [budget |-> b, constraints |-> ActiveConstraints(b),
      recommendations |-> recommendations, blocked |-> blocked,
      explanations |-> Explanations(b, recommendations, blocked)]
-----------------------------------------------------------------------------
(* What ValidateDispatch accepts of a batch of one request: in whole, with *)
(* its own counters, DispatchValidation.                                   *)
AcceptedReduction(in, b, r, requested) ==
  LET rack == b.racks[r]
      limits == IF rack.blocked THEN {}
                ELSE {rack.downLeft : x \in {y \in {rack.rampDown} : y > 0}}
                       \cup {x \in {in.site.rampDown} : x > 0}
  IN MinPositive({requested, rack.load} \cup limits)

AcceptedIncrease(in, b, r, requested) ==
  LET rack == b.racks[r]
      ramps == {rack.upLeft : x \in {y \in {rack.rampUp} : y > 0}}
                 \cup {x \in {in.site.rampUp} : x > 0}
      room == {b.available, rack.available, rack.thermalHeadroom}
                \cup {b.assets[a].available : a \in PathOf(in, r)}
  IN IF rack.blocked THEN 0 ELSE MinPositive({requested} \cup room \cup ramps)

ValidateRequest(in, b, r, delta) ==
  LET accepted == IF r \notin DOMAIN b.racks \/ delta = 0 THEN 0
                  ELSE IF delta < 0 THEN -AcceptedReduction(in, b, r, -delta)
                  ELSE AcceptedIncrease(in, b, r, delta)
  IN [accepted |-> accepted,
      status |-> CASE accepted = delta /\ r \in DOMAIN b.racks -> "accepted"
                   [] accepted # delta /\ accepted # 0 -> "partial"
                   [] OTHER -> "rejected"]
=============================================================================
