----------------------- MODULE MCRecommendationChanges -----------------------
(* Reports of a hot miner and of a degraded one in a cool room. *)
EXTENDS RecommendationChanges

CONSTANTS m1, m2

Bucket(hour, hash, power, temp, maxTemp) ==
  [bucket |-> hour, hash |-> hash * Unit, power |-> power * Unit,
   temp |-> temp * Unit, maxTemp |-> maxTemp * Unit, fan |-> 6000 * Unit]

HotReport ==
  Analyze("S21", << Bucket(1, 190, 3450, 90, 93), Bucket(2, 185, 3460, 94, 97) >>, 25)
DegradedReport ==
  Analyze("S21", << Bucket(1, 200, 3000, 70, 72), Bucket(2, 165, 3000, 70, 72) >>, 25)

Kept(report) == [recommendations |-> report.recommendations,
                 impact          |-> report.impact]
MCReports == (m1 :> {Kept(HotReport)}) @@ (m2 :> {Kept(DegradedReport)})
MCIds == 1 .. 5
===============================================================================
