---------------------------- MODULE SiteOverview ----------------------------
(***************************************************************************)
(* The overview of a site: its top risks and the risk projected for the    *)
(* next four hours (orchestrator.BuildSiteOverview, ProjectSiteRisk and    *)
(* BuildCampusOverview), from the telemetry of the last hours.             *)
(*                                                                         *)
(* The tariff is whether an expensive window is in force.  Sites are       *)
(* numbers, ordered as their ids are.                                      *)
(***************************************************************************)
EXTENDS CurtailmentPolicy

Horizon == 4
MaxTopRisks == 4

(* Mutant of SiteSafeCapacityForAmbient: the reserve is forgotten. *)
CapacityWithoutReserve(site, ambient) ==
  Percent(site.target,
          AmbientDerateFactor(ambient, site.derateStart, site.deratePct))

(* siteSafeCapacityForAmbient: the site's own capacity, without the assets.*)
SiteSafeCapacityForAmbient(site, ambient) ==
  LET effective == Percent(site.target,
                     AmbientDerateFactor(ambient, site.derateStart,
                                         site.deratePct))
  IN Larger(effective - Percent(effective, site.reserve), 0)

(* One hour of telemetry_readings as LoadRiskProjectionInput reads it: the *)
(* power of all readings of the hour is added up, however many of them     *)
(* each miner sent; without an ambient tag the average is 0.               *)
HourlySample(hour) ==
  [load |-> hour.perMiner * hour.load, ambient |-> hour.ambient,
   critical |-> hour.critical, errorPct |-> hour.errorPct]

(* Within lo..hi. *)
Within(x, lo, hi) == IF x > hi THEN hi ELSE IF x < lo THEN lo ELSE x

(* What the projection starts from and how it goes on: samples is the      *)
(* sequence of the last hours, one sample an hour apart.                   *)
BaseOf(b, samples) ==
  LET last == samples[Len(samples)]
  IN IF samples = <<>>
     THEN [load |-> b.load, ambient |-> b.ambient, critical |-> 0,
           errorPct |-> 0]
     ELSE [load |-> IF last.load > 0 THEN last.load ELSE b.load,
           ambient |-> IF last.ambient > 0 THEN last.ambient ELSE b.ambient,
           critical |-> last.critical, errorPct |-> last.errorPct]

TrendOf(samples) ==
  LET hours == Len(samples) - 1
      first == samples[1]
      last == samples[Len(samples)]
  IN IF hours < 1 THEN [load |-> 0, ambient |-> 0]
     ELSE [load |-> Within((last.load - first.load) \div hours,
                           -60 * KW, 60 * KW),
           ambient |-> Within((last.ambient - first.ambient) \div hours, -4, 4)]

(* The score of a projected hour, a sum of reasons. *)
LoadScore(load, safe) ==
  CASE safe > 0 /\ load >= safe -> 65
    [] safe > 0 /\ load < safe /\ load >= Percent(safe, 92) -> 40
    [] safe > 0 /\ load < Percent(safe, 92) /\ load >= Percent(safe, 85) -> 20
    [] OTHER -> 0

AmbientScore(site, ambient) ==
  CASE ambient >= site.derateStart + 8 -> 20
    [] /\ ambient < site.derateStart + 8
       /\ ambient >= site.derateStart + 3 -> 10
    [] OTHER -> 0

EventScore(base, expensive) ==
  MinPositive({base.critical * 6, 18})
    + (IF base.errorPct >= 10 THEN 15 ELSE 0)
    + (IF expensive THEN 12 ELSE 0)

RiskLevel(score) == CASE score >= 75 -> "critical"
                      [] score < 75 /\ score >= 50 -> "high"
                      [] score < 50 /\ score >= 25 -> "moderate"
                      [] OTHER -> "low"

ProjectSiteRisk(site, b, samples, expensive) ==
  LET base == BaseOf(b, samples)
      trend == TrendOf(samples)
      Point(h) ==
        LET ambient == Larger(base.ambient + h * trend.ambient, -40)
            load == Larger(base.load + h * trend.load, 0)
            safe == SiteSafeCapacityForAmbient(site, ambient)
            score == LoadScore(load, safe) + AmbientScore(site, ambient)
                       + EventScore(base, expensive)
        IN [load |-> load, safe |-> safe, margin |-> safe - load,
            ambient |-> ambient, score |-> score, level |-> RiskLevel(score)]
  IN [h \in 1..Horizon |-> Point(h)]
-----------------------------------------------------------------------------
(* The codes of the risks, in the order of the alphabet. *)
RiskCodes == <<"expensive_tariff_active", "rack_dispatch_headroom_exhausted",
               "rack_safety_blocked", "rack_thermal_density_reached",
               "site_current_load_above_safe_capacity",
               "site_dispatch_headroom_exhausted">>

(* The codes are sorted and cut, whatever their severity. *)
TopRisks(view, expensive) ==
  LET codes == {c.code : c \in {x \in view.constraints :
                                  x.severity \in {"critical", "warning"}}}
                 \cup {x \in {"expensive_tariff_active"} : expensive}
      places == {i \in DOMAIN RiskCodes : RiskCodes[i] \in codes}
      sorted == InOrder(places, {x \in places \X places : x[1] < x[2]})
  IN [n \in {i \in DOMAIN sorted : i <= MaxTopRisks} |-> RiskCodes[sorted[n]]]

BuildSiteOverview(view, projection, expensive) ==
  LET OfClass(k) == Cardinality({r \in DOMAIN view.budget.racks :
                                   view.budget.racks[r].class = k})
  IN [load |-> view.budget.load, allowed |-> view.budget.safe,
      margin |-> view.budget.available,
      sacrificable |-> OfClass("sacrificable_load"),
      blocked |-> OfClass("safety_blocked"),
      constraints |-> Cardinality(view.constraints),
      recommendations |-> Len(view.recommendations),
      topRisks |-> TopRisks(view, expensive), projection |-> projection,
      expensive |-> expensive]

(* The sites of a campus: expensive ones first, then those with more risks.*)
ListedBefore(overviews, i, j) ==
  LET a == overviews[i]
      b == overviews[j]
  IN \/ a.expensive /\ ~b.expensive
     \/ /\ a.expensive = b.expensive
        /\ \/ Len(a.topRisks) > Len(b.topRisks)
           \/ Len(a.topRisks) = Len(b.topRisks) /\ i < j

BuildCampusOverview(overviews) ==
  LET sites == DOMAIN overviews
  IN InOrder(sites,
             {x \in sites \X sites : ListedBefore(overviews, x[1], x[2])})
=============================================================================
