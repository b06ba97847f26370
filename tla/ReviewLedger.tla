---------------------------- MODULE ReviewLedger ----------------------------
(***************************************************************************)
(* What the governance of energy recommendations promises about one row   *)
(* of energy_recommendation_reviews, whatever the interleaving of the      *)
(* requests that write it: a recommendation is opened once, by a decision *)
(* that either settles it or leaves it waiting for a second approver, and  *)
(* it can only ever be settled by an approver other than the first, by a   *)
(* rejection or by a postponement.                                         *)
(*                                                                         *)
(* Settle is also allowed on a settled row: the source takes no lock       *)
(* between reading the row and writing it, so a decision taken against the *)
(* pending row may land after another one.  RecommendationReview implements*)
(* this specification.                                                     *)
(***************************************************************************)
CONSTANTS
  Actor,            \* principals that take decisions
  Recommendation,   \* recommendations under review
  NoActor,          \* an empty *_by column
  NoReview          \* no row for the recommendation

VARIABLE ledger     \* the governance columns of every row

Decision == {"approve", "reject", "postpone"}

SettledStatus == [approve  |-> "approved",
                  reject   |-> "rejected",
                  postpone |-> "postponed"]

Init == ledger = [r \in Recommendation |-> NoReview]

(* The first decision creates the row. *)
Open(r, a, d, dual) ==
  /\ ledger[r] = NoReview
  /\ ledger' = [ledger EXCEPT ![r] =
       [status |-> IF d = "approve" /\ dual THEN "pending_second_approval"
                                            ELSE SettledStatus[d],
        dual   |-> dual,
        first  |-> IF d = "approve" THEN a ELSE NoActor,
        second |-> NoActor]]

(* A row that an approver opened for dual confirmation gets its outcome. *)
Settle(r, a, d) ==
  /\ ledger[r] # NoReview
  /\ ledger[r].dual
  /\ ledger[r].first # NoActor
  /\ d = "approve" => a # ledger[r].first
  /\ ledger' = [ledger EXCEPT ![r] =
       [status |-> SettledStatus[d],
        dual   |-> TRUE,
        first  |-> ledger[r].first,
        second |-> IF d = "approve" THEN a ELSE NoActor]]

Next == \E r \in Recommendation, a \in Actor, d \in Decision :
           \/ \E dual \in BOOLEAN : Open(r, a, d, dual)
           \/ Settle(r, a, d)

Spec == Init /\ [][Next]_ledger
=============================================================================
