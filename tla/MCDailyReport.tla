---------------------------- MODULE MCDailyReport ----------------------------
(* Instances of DailyReport for TLC.  The change of offset falls on day 3, on *)
(* the midnight that begins it or on the one that ends it.                    *)
EXTENDS DailyReport

MadridAutumn == [at |-> 73, before |-> 2, after |-> 1]

\* The clock goes from midnight to one o'clock as day 3 begins.
SantiagoSpring == [at |-> 76, before |-> -4, after |-> -3]
BeirutSpring == [at |-> 70, before |-> 2, after |-> 3]

\* The clock goes back from midnight to eleven o'clock as day 3 ends.
SantiagoAutumn == [at |-> 99, before |-> -3, after |-> -4]

\* The clock goes back from one o'clock to midnight as day 3 begins.
HavanaAutumn == [at |-> 77, before |-> -4, after |-> -5]

MCZone == {MadridAutumn, SantiagoSpring, BeirutSpring, SantiagoAutumn, HavanaAutumn}
=============================================================================
