----------------------------- MODULE ChangeLedger -----------------------------
(***************************************************************************)
(* What the log of recommendation changes promises (D78): an applied       *)
(* change stays in the log for ever, takes effect once, and may be undone  *)
(* once, after which the adjustments of its miner are what they would be   *)
(* had it never been applied.  RecommendationChanges implements this       *)
(* specification.                                                          *)
(***************************************************************************)
EXTENDS Integers

CONSTANTS
  Change,     \* identifiers of applied changes
  Miner,      \* miners that changes are applied to
  Parameter,  \* parameters a change adjusts
  Adjustment, \* the adjustments a change may make, [Parameter -> Int]
  NoChange    \* an identifier not yet in the log

VARIABLES
  log,        \* the changes applied, and which of them were undone
  setpoint    \* the adjustments in force on each miner

Init ==
  /\ log = [c \in Change |-> NoChange]
  /\ setpoint = [m \in Miner |-> [p \in Parameter |-> 0]]

Apply(c, m, a) ==
  /\ log[c] = NoChange
  /\ log' = [log EXCEPT ![c] = [miner |-> m, adjustment |-> a, undone |-> FALSE]]
  /\ setpoint' = [setpoint EXCEPT ![m] = [p \in Parameter |-> @[p] + a[p]]]

Undo(c) ==
  /\ log[c] # NoChange
  /\ ~ log[c].undone
  /\ log' = [log EXCEPT ![c].undone = TRUE]
  /\ setpoint' = [setpoint EXCEPT ![log[c].miner] =
                    [p \in Parameter |-> @[p] - log[c].adjustment[p]]]

Next == \E c \in Change :
          \/ \E m \in Miner, a \in Adjustment : Apply(c, m, a)
          \/ Undo(c)

Spec == Init /\ [][Next]_<< log, setpoint >>
===============================================================================
