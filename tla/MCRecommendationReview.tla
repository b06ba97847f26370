----------------------- MODULE MCRecommendationReview -----------------------
(* Instance of RecommendationReview for TLC. *)
EXTENDS RecommendationReview, TLC

(* One recommendation needs two approvers by its size (the boundary of     *)
(* SensitiveReviewLevel, on the side of curtailment), one does not.        *)
MCPayload == {[action |-> "curtail", criticality |-> "normal_production",
               recommendedDeltaKW |-> -25],
              [action |-> "curtail", criticality |-> "normal_production",
               recommendedDeltaKW |-> -24]}

Symmetry == Permutations(Call) \cup Permutations(Actor)
=============================================================================
