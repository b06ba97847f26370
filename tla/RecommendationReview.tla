------------------------ MODULE RecommendationReview ------------------------
(***************************************************************************)
(* The review workflow of the energy-orchestrator                          *)
(* (service.ReviewRecommendation and the review tables behind it).         *)
(*                                                                         *)
(* Every HTTP request is a call that runs as a sequence of SQL statements, *)
(* each its own transaction: read the row, INSERT or UPDATE it, INSERT the *)
(* audit event, read the events back.  Calls interleave between statements *)
(* and the process may crash between them; a statement may also fail,      *)
(* before or after it took effect.                                         *)
(***************************************************************************)
EXTENDS Integers, FiniteSets

CONSTANTS
  Call,             \* requests POST .../recommendations/reviews
  Actor,            \* principals (PrincipalID of the API key)
  Recommendation,   \* (site_id, recommendation_id) pairs
  Payload,          \* what the requests say of the recommended action
  NoActor,          \* NULL in a *_by column, "" in the Go structs
  NoReview          \* pgx.ErrNoRows, an empty ReviewID in the Go structs

Decision == {"approve", "reject", "postpone"}
FinalStatus == {"approved", "rejected", "postponed"}

(* orchestrator.SensitiveReviewLevel: whether two approvers are required. *)
SensitiveReviewLevel(p) ==
  \/ p.action = "isolate"
  \/ p.criticality = "preferred_production"
  \/ p.recommendedDeltaKW >= 25
  \/ p.recommendedDeltaKW <= -25

(* A request: its author, its target, its decision (the handler binds any  *)
(* non-empty string, so an unsupported one reaches the service) and the    *)
(* payload the client copied from the recommendation.                      *)
Request == [actor : Actor, rec : Recommendation,
            decision : Decision \cup {"unsupported"}, payload : Payload]

ReviewRow == [status : FinalStatus \cup {"pending_second_approval"},
              dual : BOOLEAN,               \* requires_dual_confirmation
              requestedBy : Actor,
              first : Actor \cup {NoActor},
              second : Actor \cup {NoActor},
              rejectedBy : Actor \cup {NoActor},
              postponedBy : Actor \cup {NoActor},
              decided : BOOLEAN]            \* final_decision_at IS NOT NULL

(* The columns of a row that the ledger speaks of. *)
GovernanceRow == [status : FinalStatus \cup {"pending_second_approval"},
                  dual : BOOLEAN,
                  first : Actor \cup {NoActor},
                  second : Actor \cup {NoActor}]

EventType == {"awaiting_second_approval", "second_approved",
              "approved", "rejected", "postponed"}

Event == [call : Call, rec : Recommendation, actor : Actor, type : EventType]

ASSUME ConstantsAssumption ==
  /\ NoActor \notin Actor
  /\ NoReview \notin ReviewRow \cup GovernanceRow
  /\ Payload \subseteq [action : STRING, criticality : STRING,
                        recommendedDeltaKW : Int]

VARIABLES
  reviews,   \* table energy_recommendation_reviews
  events,    \* table energy_recommendation_review_events
  pc,        \* the next statement of each call
  req,       \* the request each call carries
  seen,      \* the row each call read (existing)
  result,    \* the answer each call got
  wrote      \* history: the calls whose INSERT or UPDATE took effect

vars == <<reviews, events, pc, req, seen, result, wrote>>

Step == {"lookup", "create", "update", "event", "respond", "done"}
Result == {"none", "ok", "review_finalized", "dual_confirmation_violation",
           "validation_error", "dependency_unavailable", "lost"}

Finalized(row) == row # NoReview /\ row.status \in FinalStatus

(* The status and the audit event of a decision that settles a review. *)
SettledStatus == [approve |-> "approved", reject |-> "rejected",
                  postpone |-> "postponed"]

(* The row of a first decision. *)
NewReview(q, dual) ==
  LET pending == q.decision = "approve" /\ dual
      by(d)   == IF q.decision = d THEN q.actor ELSE NoActor
  IN [status      |-> IF pending THEN "pending_second_approval"
                                 ELSE SettledStatus[q.decision],
      dual        |-> dual,
      requestedBy |-> q.actor,
      first       |-> by("approve"),
      second      |-> NoActor,
      rejectedBy  |-> by("reject"),
      postponedBy |-> by("postpone"),
      decided     |-> ~pending]

(* Mutant of DecidedReview: a postponement keeps the status that was read. *)
DecidedReviewKeepingStatus(row, copy, q) ==
  [status      |-> IF q.decision = "postpone" THEN copy.status
                                              ELSE SettledStatus[q.decision],
   dual        |-> row.dual,
   requestedBy |-> row.requestedBy,
   first       |-> copy.first,
   second      |-> IF q.decision = "approve" THEN q.actor ELSE copy.second,
   rejectedBy  |-> IF q.decision = "reject" THEN q.actor ELSE copy.rejectedBy,
   postponedBy |-> IF q.decision = "postpone" THEN q.actor
                                              ELSE copy.postponedBy,
   decided     |-> TRUE]

(* The row after a later decision: the columns the UPDATE sets are computed*)
(* from the copy the call read, the other two stay what they are.          *)
DecidedReview(row, copy, q) ==
  LET approves(dual) == q.decision = "approve" /\ copy.dual = dual
  IN [status      |-> SettledStatus[q.decision],
      dual        |-> row.dual,
      requestedBy |-> row.requestedBy,
      first       |-> IF approves(FALSE) THEN q.actor ELSE copy.first,
      second      |-> IF approves(TRUE) THEN q.actor ELSE copy.second,
      rejectedBy  |-> IF q.decision = "reject" THEN q.actor
                                               ELSE copy.rejectedBy,
      postponedBy |-> IF q.decision = "postpone" THEN q.actor
                                                 ELSE copy.postponedBy,
      decided     |-> TRUE]

(* Mutant of EventTypeOf: the default "updated" is left in place. *)
EventTypeDefault(c) ==
  IF seen[c] = NoReview /\ req[c].decision # "approve"
  THEN SettledStatus[req[c].decision] ELSE "updated"

(* The audit event of call c: what it did depends on the row it read. *)
EventTypeOf(c) ==
  LET q == req[c]
  IN IF q.decision # "approve" THEN SettledStatus[q.decision]
     ELSE IF seen[c] = NoReview
          THEN IF SensitiveReviewLevel(q.payload)
               THEN "awaiting_second_approval" ELSE "approved"
          ELSE IF seen[c].dual THEN "second_approved" ELSE "approved"

EventOf(c) == [call |-> c, rec |-> req[c].rec, actor |-> req[c].actor,
               type |-> EventTypeOf(c)]
-----------------------------------------------------------------------------
Init ==
  /\ reviews = [r \in Recommendation |-> NoReview]
  /\ events = {}
  /\ pc = [c \in Call |-> "lookup"]
  /\ req \in [Call -> Request]
  /\ seen = [c \in Call |-> NoReview]
  /\ result = [c \in Call |-> "none"]
  /\ wrote = {}

Answer(c, r) ==
  /\ pc' = [pc EXCEPT ![c] = "done"]
  /\ result' = [result EXCEPT ![c] = r]

Goto(c, step) ==
  /\ pc' = [pc EXCEPT ![c] = step]
  /\ UNCHANGED result

(* Mutant of Lookup: the first approver may approve again. *)
LookupSameApprover(c) ==
  LET q == req[c]
      row == reviews[q.rec]
  IN /\ pc[c] = "lookup"
     /\ seen' = [seen EXCEPT ![c] = row]
     /\ UNCHANGED <<reviews, events, req, wrote>>
     /\ IF q.decision \notin Decision THEN Answer(c, "validation_error")
        ELSE IF row = NoReview THEN Goto(c, "create")
        ELSE IF Finalized(row) THEN Answer(c, "review_finalized")
        ELSE Goto(c, "update")

(* Mutant of Lookup: a finalized review is decided again. *)
LookupFinalizedAgain(c) ==
  LET q == req[c]
      row == reviews[q.rec]
  IN /\ pc[c] = "lookup"
     /\ seen' = [seen EXCEPT ![c] = row]
     /\ UNCHANGED <<reviews, events, req, wrote>>
     /\ IF q.decision \notin Decision THEN Answer(c, "validation_error")
        ELSE Goto(c, IF row = NoReview THEN "create" ELSE "update")

(* GetRecommendationReview and the checks ReviewRecommendation makes on    *)
(* the row it returns, before any write.                                   *)
Lookup(c) ==
  LET q   == req[c]
      row == reviews[q.rec]
      supported  == q.decision \in Decision
      sameActor  == q.decision = "approve" /\ row.dual /\ row.first = q.actor
  IN /\ pc[c] = "lookup"
     /\ seen' = [seen EXCEPT ![c] = row]
     /\ UNCHANGED <<reviews, events, req, wrote>>
     /\ \/ /\ row = NoReview
           /\ IF supported THEN Goto(c, "create")
                           ELSE Answer(c, "validation_error")
        \/ /\ Finalized(row)
           /\ Answer(c, "review_finalized")
        \/ /\ row # NoReview /\ ~Finalized(row)
           /\ IF ~supported THEN Answer(c, "validation_error")
              ELSE IF sameActor THEN Answer(c, "dual_confirmation_violation")
              ELSE Goto(c, "update")

LookupFails(c) ==
  /\ pc[c] = "lookup"
  /\ Answer(c, "dependency_unavailable")
  /\ UNCHANGED <<reviews, events, req, seen, wrote>>

(* The INSERT; UNIQUE (site_id, recommendation_id) admits one row. *)
InsertReview(c) ==
  /\ reviews[req[c].rec] = NoReview
  /\ LET q == req[c]
     IN reviews' = [reviews EXCEPT ![q.rec] =
                      NewReview(q, SensitiveReviewLevel(q.payload))]
  /\ wrote' = wrote \cup {c}

(* Mutant of OverwriteReview: an empty *_by argument keeps the column. *)
OverwriteReviewCoalescing(c) ==
  LET row == reviews[req[c].rec]
      new == DecidedReview(row, seen[c], req[c])
      coalesce(x, y) == IF x = NoActor THEN y ELSE x
  IN /\ reviews' = [reviews EXCEPT ![req[c].rec] =
                      [new EXCEPT !.second = coalesce(@, row.second),
                                  !.rejectedBy = coalesce(@, row.rejectedBy),
                                  !.postponedBy = coalesce(@, row.postponedBy)]]
     /\ wrote' = wrote \cup {c}

(* The UPDATE ... WHERE review_id = $1.  Neither the status nor updated_at *)
(* is compared with what the call read.                                    *)
OverwriteReview(c) ==
  LET row == reviews[req[c].rec]
  IN /\ reviews' = [reviews EXCEPT ![req[c].rec] =
                      DecidedReview(row, seen[c], req[c])]
     /\ wrote' = wrote \cup {c}

(* Mutant of CreateRecommendationReview: ON CONFLICT DO NOTHING is taken   *)
(* for success.                                                            *)
CreateIgnoringConflict(c) ==
  /\ pc[c] = "create"
  /\ \/ InsertReview(c)
     \/ reviews[req[c].rec] # NoReview /\ UNCHANGED <<reviews, wrote>>
  /\ Goto(c, "event")
  /\ UNCHANGED <<events, req, seen>>

(* CreateRecommendationReview fails when another call created the row      *)
(* since the lookup.                                                       *)
CreateRecommendationReview(c) ==
  /\ pc[c] = "create"
  /\ \/ InsertReview(c) /\ Goto(c, "event")
     \/ /\ reviews[req[c].rec] # NoReview
        /\ Answer(c, "dependency_unavailable")
        /\ UNCHANGED <<reviews, wrote>>
  /\ UNCHANGED <<events, req, seen>>

(* Mutant of UpdateRecommendationReview: the conflict is noticed only      *)
(* after the write.                                                        *)
UpdateThenCheck(c) ==
  /\ pc[c] = "update"
  /\ OverwriteReview(c)
  /\ IF Finalized(reviews[req[c].rec]) THEN Answer(c, "review_finalized")
                                       ELSE Goto(c, "event")
  /\ UNCHANGED <<events, req, seen>>

(* UpdateRecommendationReview. *)
UpdateRecommendationReview(c) ==
  /\ pc[c] = "update"
  /\ OverwriteReview(c)
  /\ Goto(c, "event")
  /\ UNCHANGED <<events, req, seen>>

(* AppendRecommendationReviewEvent. *)
AppendRecommendationReviewEvent(c) ==
  /\ pc[c] = "event"
  /\ events' = events \cup {EventOf(c)}
  /\ Goto(c, "respond")
  /\ UNCHANGED <<reviews, req, seen, wrote>>

(* A write fails: the statement had no effect, or it committed and only    *)
(* its answer was lost.  Either way the client gets a 503.                 *)
WriteFails(c) ==
  /\ pc[c] \in {"create", "update", "event"}
  /\ \/ UNCHANGED <<reviews, events, wrote>>
     \/ pc[c] = "create" /\ InsertReview(c) /\ UNCHANGED events
     \/ pc[c] = "update" /\ OverwriteReview(c) /\ UNCHANGED events
     \/ /\ pc[c] = "event"
        /\ events' = events \cup {EventOf(c)}
        /\ UNCHANGED <<reviews, wrote>>
  /\ Answer(c, "dependency_unavailable")
  /\ UNCHANGED <<req, seen>>

(* decorateRecommendationReview reads the events back; its failure is      *)
(* reported to the client although everything was written.                 *)
Respond(c) ==
  /\ pc[c] = "respond"
  /\ \E r \in {"ok", "dependency_unavailable"} : Answer(c, r)
  /\ UNCHANGED <<reviews, events, req, seen, wrote>>

(* The process crashes: the calls in flight vanish, the tables stay. *)
Crash ==
  LET inFlight == {c \in Call : pc[c] \in Step \ {"lookup", "done"}}
  IN /\ inFlight # {}
     /\ pc' = [c \in Call |-> IF c \in inFlight THEN "done" ELSE pc[c]]
     /\ result' = [c \in Call |-> IF c \in inFlight THEN "lost" ELSE result[c]]
     /\ UNCHANGED <<reviews, events, req, seen, wrote>>

Next ==
  \/ \E c \in Call : \/ Lookup(c)
                     \/ LookupFails(c)
                     \/ CreateRecommendationReview(c)
                     \/ UpdateRecommendationReview(c)
                     \/ AppendRecommendationReviewEvent(c)
                     \/ WriteFails(c)
                     \/ Respond(c)
  \/ Crash

Spec == Init /\ [][Next]_vars
-----------------------------------------------------------------------------
(* Types of the tables and of the calls. *)
TypeOK ==
  /\ reviews \in [Recommendation -> ReviewRow \cup {NoReview}]
  /\ events \subseteq Event
  /\ pc \in [Call -> Step]
  /\ req \in [Call -> Request]
  /\ seen \in [Call -> ReviewRow \cup {NoReview}]
  /\ result \in [Call -> Result]
  /\ wrote \subseteq Call

(* A sensitive recommendation (UpdateRecommendationReview on a row with    *)
(* requires_dual_confirmation) is never approved by one actor alone: the   *)
(* row names two different approvers, even when calls race between reading *)
(* and writing it.                                                         *)
FourEyes ==
  \A r \in Recommendation :
    LET row == reviews[r]
    IN row # NoReview /\ row.dual /\ row.status = "approved" =>
         /\ row.first \in Actor
         /\ row.second \in Actor
         /\ row.first # row.second

(* The *_by columns agree with the status however many stale copies were   *)
(* written over the row: exactly the actor of the decision in force is     *)
(* named, and final_decision_at is set exactly when the review is final.   *)
RowCoherent ==
  \A r \in Recommendation :
    LET row == reviews[r]
    IN row # NoReview =>
         /\ row.decided <=> Finalized(row)
         /\ (row.rejectedBy # NoActor) <=> (row.status = "rejected")
         /\ (row.postponedBy # NoActor) <=> (row.status = "postponed")
         /\ (row.second # NoActor) <=> (row.status = "approved" /\ row.dual)

(* The audit trail never runs ahead of the review table: an event is only  *)
(* there when the call it belongs to changed the row, and a client told    *)
(* "ok" finds both its write and its event recorded.                       *)
AuditFollowsWrite ==
  /\ \A e \in events : e.call \in wrote
  /\ \A c \in Call : result[c] = "ok" => c \in wrote /\ EventOf(c) \in events

(* A client that was refused (conflict or bad request) changed nothing. *)
RefusedHasNoEffect ==
  \A c \in Call :
    result[c] \in {"review_finalized", "dual_confirmation_violation",
                   "validation_error"} =>
      c \notin wrote /\ \A e \in events : e.call # c

(* A review never goes back to waiting once it has an outcome, its first   *)
(* approver and its dual requirement never change, and no row disappears.  *)
OutcomeNeverReopened ==
  [][\A r \in Recommendation : reviews[r] # NoReview =>
       /\ reviews'[r] # NoReview
       /\ reviews'[r].first = reviews[r].first
       /\ reviews'[r].dual = reviews[r].dual
       /\ Finalized(reviews[r]) => Finalized(reviews'[r])]_vars

(* D106: "Rechazo o postergacion dejan el review finalizado": a rejection  *)
(* or postponement that was answered "ok" is the outcome of the review.    *)
AcknowledgedOutcomeStands ==
  \A c \in Call :
    result[c] = "ok" /\ req[c].decision \in {"reject", "postpone"} =>
      reviews[req[c].rec].status = SettledStatus[req[c].decision]

(* D106: "... con trazabilidad completa": once every call has ended, the   *)
(* outcome of a finalized review is in the audit trail.                    *)
FinalDecisionTraced ==
  (\A c \in Call : pc[c] = "done") =>
    \A r \in Recommendation :
      Finalized(reviews[r]) =>
        \E e \in events : e.rec = r /\ e.type # "awaiting_second_approval"

(* The governance columns, read as the ledger they implement. *)
Ledger == [r \in Recommendation |->
             IF reviews[r] = NoReview THEN NoReview
             ELSE [status |-> reviews[r].status, dual |-> reviews[r].dual,
                   first |-> reviews[r].first, second |-> reviews[r].second]]

RL == INSTANCE ReviewLedger WITH ledger <- Ledger

(* Every statement of every call is a step of the ledger or leaves it. *)
ImplementsLedger == RL!Spec
=============================================================================
