--------------------- MODULE RecommendationReviewProofs ---------------------
(***************************************************************************)
(* Proofs about RecommendationReview, for every set of calls, actors,      *)
(* recommendations and payloads.  The argument: a call that is about to    *)
(* UPDATE holds a copy of the row as it was while pending, and whatever     *)
(* was written since, the first approver and the dual requirement of the   *)
(* row are still those of the copy; so every UPDATE writes a coherent row.  *)
(***************************************************************************)
EXTENDS RecommendationReview, TLAPS

(* What a row of the review table looks like at any time. *)
RowInv(row) ==
  /\ row.decided <=> row.status \in FinalStatus
  /\ (row.rejectedBy # NoActor) <=> (row.status = "rejected")
  /\ (row.postponedBy # NoActor) <=> (row.status = "postponed")
  /\ (row.second # NoActor) <=> (row.status = "approved" /\ row.dual)
  /\ row.status = "pending_second_approval" => row.dual /\ row.first \in Actor
  /\ row.dual /\ row.status = "approved" =>
       /\ row.first \in Actor
       /\ row.first # row.second

(* What a call about to UPDATE knows of the row it read. *)
CopyInv(c) ==
  LET row == reviews[req[c].rec]
  IN /\ seen[c] # NoReview
     /\ RowInv(seen[c])
     /\ seen[c].status = "pending_second_approval"
     /\ req[c].decision = "approve" => seen[c].first # req[c].actor
     /\ row # NoReview
     /\ row.first = seen[c].first
     /\ row.dual

(* The writes and events a call has made at each of its steps. *)
CallInv(c) ==
  /\ pc[c] \in {"create", "update", "event", "respond"} =>
       req[c].decision \in Decision
  /\ pc[c] = "create" => seen[c] = NoReview
  /\ pc[c] = "update" => CopyInv(c)
  /\ pc[c] = "event" => c \in wrote
  /\ pc[c] = "respond" => c \in wrote /\ EventOf(c) \in events
  /\ pc[c] \in {"lookup", "create", "update"} =>
       c \notin wrote /\ result[c] = "none"
  /\ pc[c] # "done" => result[c] = "none"

IInv ==
  /\ TypeOK
  /\ \A r \in Recommendation : reviews[r] # NoReview => RowInv(reviews[r])
  /\ \A c \in Call : CallInv(c)
  /\ AuditFollowsWrite
  /\ RefusedHasNoEffect
-----------------------------------------------------------------------------
LEMMA SettledStatusValues ==
  /\ SettledStatus["approve"] = "approved"
  /\ SettledStatus["reject"] = "rejected"
  /\ SettledStatus["postpone"] = "postponed"
BY DEF SettledStatus

(* The row of a first decision is a well-formed, coherent row whose first  *)
(* approver is the author of an approval (service.go, creation branch).    *)
LEMMA NewReviewOK ==
  ASSUME NEW q \in Request, q.decision \in Decision, NEW dual \in BOOLEAN
  PROVE  /\ NewReview(q, dual) \in ReviewRow
         /\ RowInv(NewReview(q, dual))
<1> DEFINE new == NewReview(q, dual)
<1>1. q.actor \in Actor /\ q.actor # NoActor
  BY ConstantsAssumption DEF Request
<1>2. CASE q.decision = "approve" /\ dual = TRUE
  <2>1. new =
          [status |-> "pending_second_approval", dual |-> TRUE,
           requestedBy |-> q.actor,
           first |-> q.actor, second |-> NoActor,
           rejectedBy |-> NoActor, postponedBy |-> NoActor,
           decided |-> FALSE]
    BY <1>2, SettledStatusValues DEF NewReview
  <2> HIDE DEF new
  <2>2. new \in ReviewRow
    BY <1>1, <2>1 DEF ReviewRow, FinalStatus
  <2>3. RowInv(new)
    BY <1>1, <2>1 DEF RowInv, FinalStatus
  <2> QED BY <2>2, <2>3 DEF new
<1>3. CASE q.decision = "approve" /\ dual = FALSE
  <2>1. new =
          [status |-> "approved", dual |-> FALSE,
           requestedBy |-> q.actor,
           first |-> q.actor, second |-> NoActor,
           rejectedBy |-> NoActor, postponedBy |-> NoActor,
           decided |-> TRUE]
    BY <1>3, SettledStatusValues DEF NewReview
  <2> HIDE DEF new
  <2>2. new \in ReviewRow
    BY <1>1, <2>1 DEF ReviewRow, FinalStatus
  <2>3. RowInv(new)
    BY <1>1, <2>1 DEF RowInv, FinalStatus
  <2> QED BY <2>2, <2>3 DEF new
<1>4. CASE q.decision = "reject" /\ dual = TRUE
  <2>1. new =
          [status |-> "rejected", dual |-> TRUE,
           requestedBy |-> q.actor,
           first |-> NoActor, second |-> NoActor,
           rejectedBy |-> q.actor, postponedBy |-> NoActor,
           decided |-> TRUE]
    BY <1>4, SettledStatusValues DEF NewReview
  <2> HIDE DEF new
  <2>2. new \in ReviewRow
    BY <1>1, <2>1 DEF ReviewRow, FinalStatus
  <2>3. RowInv(new)
    BY <1>1, <2>1 DEF RowInv, FinalStatus
  <2> QED BY <2>2, <2>3 DEF new
<1>5. CASE q.decision = "reject" /\ dual = FALSE
  <2>1. new =
          [status |-> "rejected", dual |-> FALSE,
           requestedBy |-> q.actor,
           first |-> NoActor, second |-> NoActor,
           rejectedBy |-> q.actor, postponedBy |-> NoActor,
           decided |-> TRUE]
    BY <1>5, SettledStatusValues DEF NewReview
  <2> HIDE DEF new
  <2>2. new \in ReviewRow
    BY <1>1, <2>1 DEF ReviewRow, FinalStatus
  <2>3. RowInv(new)
    BY <1>1, <2>1 DEF RowInv, FinalStatus
  <2> QED BY <2>2, <2>3 DEF new
<1>6. CASE q.decision = "postpone" /\ dual = TRUE
  <2>1. new =
          [status |-> "postponed", dual |-> TRUE,
           requestedBy |-> q.actor,
           first |-> NoActor, second |-> NoActor,
           rejectedBy |-> NoActor, postponedBy |-> q.actor,
           decided |-> TRUE]
    BY <1>6, SettledStatusValues DEF NewReview
  <2> HIDE DEF new
  <2>2. new \in ReviewRow
    BY <1>1, <2>1 DEF ReviewRow, FinalStatus
  <2>3. RowInv(new)
    BY <1>1, <2>1 DEF RowInv, FinalStatus
  <2> QED BY <2>2, <2>3 DEF new
<1>7. CASE q.decision = "postpone" /\ dual = FALSE
  <2>1. new =
          [status |-> "postponed", dual |-> FALSE,
           requestedBy |-> q.actor,
           first |-> NoActor, second |-> NoActor,
           rejectedBy |-> NoActor, postponedBy |-> q.actor,
           decided |-> TRUE]
    BY <1>7, SettledStatusValues DEF NewReview
  <2> HIDE DEF new
  <2>2. new \in ReviewRow
    BY <1>1, <2>1 DEF ReviewRow, FinalStatus
  <2>3. RowInv(new)
    BY <1>1, <2>1 DEF RowInv, FinalStatus
  <2> QED BY <2>2, <2>3 DEF new
<1> QED BY <1>2, <1>3, <1>4, <1>5, <1>6, <1>7 DEF Decision

(* The row an UPDATE writes over a dual row, from a pending copy of it     *)
(* (service.go, decision branch).                                          *)
LEMMA DecidedReviewOK ==
  ASSUME NEW q \in Request, q.decision \in Decision,
         NEW row \in ReviewRow, row.dual = TRUE,
         NEW copy \in ReviewRow, RowInv(copy),
         copy.status = "pending_second_approval",
         q.decision = "approve" => copy.first # q.actor
  PROVE  LET new == DecidedReview(row, copy, q)
         IN /\ new \in ReviewRow
            /\ RowInv(new)
            /\ new.status \in FinalStatus
            /\ new.status = SettledStatus[q.decision]
            /\ new.dual = TRUE
            /\ new.first = copy.first
            /\ new.second = IF q.decision = "approve" THEN q.actor ELSE NoActor
<1> DEFINE new == DecidedReview(row, copy, q)
<1>1. q.actor \in Actor /\ q.actor # NoActor
  BY ConstantsAssumption DEF Request
<1>2. /\ copy.dual = TRUE
      /\ copy.first \in Actor
      /\ copy.second = NoActor
      /\ copy.rejectedBy = NoActor
      /\ copy.postponedBy = NoActor
      /\ row.requestedBy \in Actor
  BY DEF RowInv, ReviewRow, FinalStatus
<1>3. new = [status |-> SettledStatus[q.decision],
             dual |-> TRUE, requestedBy |-> row.requestedBy,
             first |-> copy.first,
             second |-> IF q.decision = "approve" THEN q.actor ELSE NoActor,
             rejectedBy |-> IF q.decision = "reject" THEN q.actor ELSE NoActor,
             postponedBy |-> IF q.decision = "postpone" THEN q.actor
                                                        ELSE NoActor,
             decided |-> TRUE]
  BY <1>2 DEF DecidedReview
<1>4. CASE q.decision = "approve"
  <2> HIDE DEF new
  <2>1. new =
          [status |-> "approved", dual |-> TRUE,
           requestedBy |-> row.requestedBy,
           first |-> copy.first, second |-> q.actor,
           rejectedBy |-> NoActor, postponedBy |-> NoActor,
           decided |-> TRUE]
    BY <1>3, <1>4, SettledStatusValues
  <2>2. new \in ReviewRow
    BY <1>1, <1>2, <2>1 DEF ReviewRow, FinalStatus
  <2>3. RowInv(new)
    BY <1>1, <1>2, <1>4, <2>1 DEF RowInv, FinalStatus
  <2>4. /\ new.status = SettledStatus[q.decision]
        /\ new.status \in FinalStatus
        /\ new.dual = TRUE
        /\ new.first = copy.first
        /\ new.second = IF q.decision = "approve" THEN q.actor ELSE NoActor
    BY <1>4, <2>1 DEF SettledStatus, FinalStatus
  <2> QED BY <2>2, <2>3, <2>4 DEF new
<1>5. CASE q.decision = "reject"
  <2> HIDE DEF new
  <2>1. new =
          [status |-> "rejected", dual |-> TRUE,
           requestedBy |-> row.requestedBy,
           first |-> copy.first, second |-> NoActor,
           rejectedBy |-> q.actor, postponedBy |-> NoActor,
           decided |-> TRUE]
    BY <1>3, <1>5, SettledStatusValues
  <2>2. new \in ReviewRow
    BY <1>1, <1>2, <2>1 DEF ReviewRow, FinalStatus
  <2>3. RowInv(new)
    BY <1>1, <1>2, <1>5, <2>1 DEF RowInv, FinalStatus
  <2>4. /\ new.status = SettledStatus[q.decision]
        /\ new.status \in FinalStatus
        /\ new.dual = TRUE
        /\ new.first = copy.first
        /\ new.second = IF q.decision = "approve" THEN q.actor ELSE NoActor
    BY <1>5, <2>1 DEF SettledStatus, FinalStatus
  <2> QED BY <2>2, <2>3, <2>4 DEF new
<1>6. CASE q.decision = "postpone"
  <2> HIDE DEF new
  <2>1. new =
          [status |-> "postponed", dual |-> TRUE,
           requestedBy |-> row.requestedBy,
           first |-> copy.first, second |-> NoActor,
           rejectedBy |-> NoActor, postponedBy |-> q.actor,
           decided |-> TRUE]
    BY <1>3, <1>6, SettledStatusValues
  <2>2. new \in ReviewRow
    BY <1>1, <1>2, <2>1 DEF ReviewRow, FinalStatus
  <2>3. RowInv(new)
    BY <1>1, <1>2, <1>6, <2>1 DEF RowInv, FinalStatus
  <2>4. /\ new.status = SettledStatus[q.decision]
        /\ new.status \in FinalStatus
        /\ new.dual = TRUE
        /\ new.first = copy.first
        /\ new.second = IF q.decision = "approve" THEN q.actor ELSE NoActor
    BY <1>6, <2>1 DEF SettledStatus, FinalStatus
  <2> QED BY <2>2, <2>3, <2>4 DEF new
<1> QED BY <1>4, <1>5, <1>6 DEF Decision
-----------------------------------------------------------------------------
Refused == {"review_finalized", "dual_confirmation_violation",
            "validation_error"}

(* No row disappears, is reopened, or changes its first approver or its    *)
(* dual requirement.                                                       *)
RowsKept ==
  \A r \in Recommendation : reviews[r] # NoReview =>
    /\ reviews'[r] # NoReview
    /\ reviews'[r].first = reviews[r].first
    /\ reviews'[r].dual = reviews[r].dual
    /\ Finalized(reviews[r]) => Finalized(reviews'[r])

LEMMA EventOfType ==
  ASSUME TypeOK, NEW c \in Call, req[c].decision \in Decision
  PROVE  EventOf(c) \in Event
<1>1. SettledStatus[req[c].decision] \in EventType
  BY SettledStatusValues DEF Decision, EventType
<1>2. EventTypeOf(c) \in EventType
  BY <1>1 DEF EventTypeOf, EventType
<1>3. req[c].rec \in Recommendation /\ req[c].actor \in Actor
  BY DEF TypeOK, Request
<1> QED BY <1>2, <1>3 DEF EventOf, Event

(* A step of one call keeps what is known of the others. *)
LEMMA OtherCalls ==
  ASSUME NEW c \in Call, NEW d \in Call, CallInv(d),
         d # c, TypeOK,
         pc'[d] = pc[d], result'[d] = result[d], seen'[d] = seen[d],
         req' = req, RowsKept,
         wrote \subseteq wrote', wrote' \subseteq wrote \cup {c},
         events \subseteq events'
  PROVE  CallInv(d)'
<1>1. req[d].rec \in Recommendation
  BY DEF TypeOK, Request
<1>2. EventTypeOf(d)' = EventTypeOf(d)
  BY DEF EventTypeOf
<1>3. EventOf(d)' = EventOf(d)
  BY <1>2 DEF EventOf
<1>4. CopyInv(d) => CopyInv(d)'
  BY <1>1 DEF CopyInv, RowsKept
<1> QED BY <1>3, <1>4 DEF CallInv

(* The shape every step of a call c has, and what it has to establish for  *)
(* c itself.                                                               *)
LEMMA StepOfCall ==
  ASSUME IInv, NEW c \in Call, NEW s \in Step, NEW a \in Result,
         pc' = [pc EXCEPT ![c] = s], result' = [result EXCEPT ![c] = a],
         req' = req,
         seen' \in [Call -> ReviewRow \cup {NoReview}],
         \A d \in Call : d # c => seen'[d] = seen[d],
         reviews' \in [Recommendation -> ReviewRow \cup {NoReview}],
         \A r \in Recommendation : reviews'[r] # NoReview => RowInv(reviews'[r]),
         RowsKept,
         wrote \subseteq wrote', wrote' \subseteq wrote \cup {c},
         events \subseteq events', events' \subseteq Event,
         \A e \in events' : e \in events \/ (e.call = c /\ c \in wrote'),
         CallInv(c)',
         a = "ok" => c \in wrote' /\ EventOf(c)' \in events',
         a \in Refused => c \notin wrote'
  PROVE  IInv'
<1>1. TypeOK /\ AuditFollowsWrite /\ RefusedHasNoEffect
  BY DEF IInv
<1>2. TypeOK'
  BY <1>1 DEF TypeOK
<1>3. \A d \in Call : CallInv(d)'
  <2> SUFFICES ASSUME NEW d \in Call, d # c PROVE CallInv(d)'
    OBVIOUS
  <2>1. pc'[d] = pc[d] /\ result'[d] = result[d]
    BY <1>1 DEF TypeOK
  <2>2. CallInv(d)
    BY DEF IInv
  <2> QED BY <1>1, <2>1, <2>2, OtherCalls
<1>4. AuditFollowsWrite'
  <2>1. \A e \in events' : e.call \in wrote'
    BY <1>1 DEF AuditFollowsWrite
  <2>2. ASSUME NEW d \in Call, result'[d] = "ok"
        PROVE  d \in wrote' /\ EventOf(d)' \in events'
    <3>1. CASE d = c
      BY <2>2, <3>1, <1>1 DEF TypeOK
    <3>2. CASE d # c
      <4>1. result[d] = "ok" /\ seen'[d] = seen[d]
        BY <2>2, <3>2, <1>1 DEF TypeOK
      <4>2. EventTypeOf(d)' = EventTypeOf(d)
        BY <4>1 DEF EventTypeOf
      <4>3. EventOf(d)' = EventOf(d)
        BY <4>2 DEF EventOf
      <4> QED BY <4>1, <4>3, <1>1 DEF AuditFollowsWrite
    <3> QED BY <3>1, <3>2
  <2> QED BY <2>1, <2>2 DEF AuditFollowsWrite
<1>5. RefusedHasNoEffect'
  <2> SUFFICES ASSUME NEW d \in Call, result'[d] \in Refused
               PROVE  d \notin wrote' /\ \A e \in events' : e.call # d
    BY DEF RefusedHasNoEffect, Refused
  <2>1. d \notin wrote'
    <3>1. CASE d = c
      BY <3>1, <1>1 DEF TypeOK
    <3>2. CASE d # c
      BY <3>2, <1>1 DEF TypeOK, RefusedHasNoEffect, Refused
    <3> QED BY <3>1, <3>2
  <2> QED BY <2>1, <1>4 DEF AuditFollowsWrite
<1> QED BY <1>2, <1>3, <1>4, <1>5 DEF IInv
-----------------------------------------------------------------------------
(* What an INSERT, and what an UPDATE from a pending copy, leave behind.   *)
LEMMA InsertEffect ==
  ASSUME IInv, NEW c \in Call, pc[c] = "create", InsertReview(c)
  PROVE  /\ reviews' \in [Recommendation -> ReviewRow \cup {NoReview}]
         /\ \A r \in Recommendation :
              reviews'[r] # NoReview => RowInv(reviews'[r])
         /\ RowsKept
<1> DEFINE q == req[c]
           new == NewReview(q, SensitiveReviewLevel(q.payload))
<1>1. q \in Request /\ q.decision \in Decision /\ q.rec \in Recommendation
  BY DEF IInv, CallInv, TypeOK, Request
<1>2. SensitiveReviewLevel(q.payload) \in BOOLEAN
  BY DEF SensitiveReviewLevel
<1>3. new \in ReviewRow /\ RowInv(new)
  BY <1>1, <1>2, NewReviewOK
<1>4. reviews[q.rec] = NoReview /\ reviews' = [reviews EXCEPT ![q.rec] = new]
  BY DEF InsertReview
<1> HIDE DEF q, new
<1> QED BY <1>1, <1>3, <1>4 DEF IInv, TypeOK, RowsKept

LEMMA OverwriteEffect ==
  ASSUME IInv, NEW c \in Call, pc[c] = "update", OverwriteReview(c)
  PROVE  /\ reviews' \in [Recommendation -> ReviewRow \cup {NoReview}]
         /\ \A r \in Recommendation :
              reviews'[r] # NoReview => RowInv(reviews'[r])
         /\ RowsKept
<1> DEFINE q == req[c]
           row == reviews[q.rec]
           new == DecidedReview(row, seen[c], q)
<1>1. q \in Request /\ q.decision \in Decision /\ q.rec \in Recommendation
  BY DEF IInv, CallInv, TypeOK, Request
<1>2. CopyInv(c)
  BY DEF IInv, CallInv
<1>3. /\ row \in ReviewRow /\ row.dual = TRUE /\ row.first = seen[c].first
      /\ seen[c] \in ReviewRow /\ RowInv(seen[c])
      /\ seen[c].status = "pending_second_approval"
      /\ q.decision = "approve" => seen[c].first # q.actor
  BY <1>1, <1>2 DEF CopyInv, IInv, TypeOK, ReviewRow
<1>4. /\ new \in ReviewRow /\ RowInv(new) /\ new.status \in FinalStatus
      /\ new.dual = TRUE /\ new.first = row.first
  BY <1>1, <1>3, DecidedReviewOK
<1>5. new # NoReview /\ Finalized(new)
  BY <1>4, ConstantsAssumption DEF Finalized
<1>6. reviews' = [reviews EXCEPT ![q.rec] = new]
  BY DEF OverwriteReview
<1>7. row = reviews[q.rec]
  OBVIOUS
<1> HIDE DEF q, new, row
<1> QED BY <1>1, <1>3, <1>4, <1>5, <1>6, <1>7 DEF IInv, TypeOK, RowsKept

LEMMA NoWrite ==
  ASSUME IInv, reviews' = reviews
  PROVE  /\ reviews' \in [Recommendation -> ReviewRow \cup {NoReview}]
         /\ \A r \in Recommendation :
              reviews'[r] # NoReview => RowInv(reviews'[r])
         /\ RowsKept
BY DEF IInv, TypeOK, RowsKept
-----------------------------------------------------------------------------
LEMMA LookupIInv ==
  ASSUME IInv, NEW c \in Call, Lookup(c)
  PROVE  IInv' /\ RowsKept
<1> DEFINE q == req[c]
           row == reviews[q.rec]
<1>1. TypeOK /\ pc[c] = "lookup" /\ result[c] = "none" /\ c \notin wrote
  BY DEF IInv, CallInv, Lookup
<1>2. /\ row \in ReviewRow \cup {NoReview}
      /\ row # NoReview => RowInv(row)
      /\ q \in Request
  BY <1>1 DEF TypeOK, IInv, Request
<1>3. /\ seen' \in [Call -> ReviewRow \cup {NoReview}]
      /\ seen'[c] = row
      /\ \A d \in Call : d # c => seen'[d] = seen[d]
      /\ req' = req /\ reviews' = reviews /\ wrote' = wrote /\ events' = events
  BY <1>1, <1>2 DEF Lookup, TypeOK
<1>4. \A e \in events : e.call # c
  BY <1>1 DEF IInv, AuditFollowsWrite
<1>5. ASSUME NEW a \in Result \ {"none", "ok"}, Answer(c, a)
      PROVE  IInv'
  <2>1. CallInv(c)'
    BY <1>1, <1>5 DEF CallInv, Answer, TypeOK
  <2>2. "done" \in Step /\ a \in Result
    BY DEF Step
  <2> QED BY <1>1, <1>3, <1>5, <2>1, <2>2, NoWrite, StepOfCall
             DEF Answer, IInv, TypeOK
<1>6. ASSUME NEW s \in {"create", "update"}, Goto(c, s), CallInv(c)'
      PROVE  IInv'
  <2>1. result' = [result EXCEPT ![c] = "none"]
    BY <1>1, <1>6 DEF Goto, TypeOK
  <2>2. s \in Step /\ "none" \in Result /\ "none" \notin Refused
    BY DEF Step, Result, Refused
  <2> QED BY <1>1, <1>3, <1>6, <2>1, <2>2, NoWrite, StepOfCall
             DEF Goto, IInv, TypeOK
<1>7. CASE Goto(c, "create") /\ row = NoReview /\ q.decision \in Decision
  <2>1. pc'[c] = "create" /\ result'[c] = "none"
    BY <1>1, <1>7 DEF Goto, TypeOK
  <2>2. CallInv(c)'
    BY <2>1, <1>1, <1>3, <1>7 DEF CallInv
  <2> QED BY <1>3, <1>6, <1>7, <2>2, NoWrite
<1>8. CASE /\ Goto(c, "update")
           /\ row # NoReview /\ ~Finalized(row) /\ q.decision \in Decision
           /\ ~(q.decision = "approve" /\ row.dual /\ row.first = q.actor)
  <2>1. pc'[c] = "update" /\ result'[c] = "none"
    BY <1>1, <1>8 DEF Goto, TypeOK
  <2>2. row.status = "pending_second_approval" /\ row.dual
    BY <1>2, <1>8 DEF Finalized, ReviewRow, RowInv
  <2>3. CopyInv(c)'
    BY <2>2, <1>2, <1>3, <1>8 DEF CopyInv
  <2>4. CallInv(c)'
    BY <2>1, <2>3, <1>1, <1>3, <1>8 DEF CallInv
  <2> QED BY <1>3, <1>6, <1>8, <2>4, NoWrite
<1>9. \/ \E a \in Result \ {"none", "ok"} : Answer(c, a)
      \/ Goto(c, "create") /\ row = NoReview /\ q.decision \in Decision
      \/ /\ Goto(c, "update")
         /\ row # NoReview /\ ~Finalized(row) /\ q.decision \in Decision
         /\ ~(q.decision = "approve" /\ row.dual /\ row.first = q.actor)
  BY DEF Lookup, Result
<1> QED BY <1>3, <1>5, <1>7, <1>8, <1>9, NoWrite

(* A call that ends without an answer of success, having written or not.   *)
LEMMA EndOfCall ==
  ASSUME IInv, NEW c \in Call, NEW a \in {"dependency_unavailable", "ok"},
         Answer(c, a), req' = req, seen' = seen,
         reviews' \in [Recommendation -> ReviewRow \cup {NoReview}],
         \A r \in Recommendation : reviews'[r] # NoReview => RowInv(reviews'[r]),
         RowsKept,
         wrote \subseteq wrote', wrote' \subseteq wrote \cup {c},
         events \subseteq events', events' \subseteq Event,
         \A e \in events' : e \in events \/ (e.call = c /\ c \in wrote'),
         a = "ok" => c \in wrote' /\ EventOf(c) \in events'
  PROVE  IInv'
<1>1. TypeOK
  BY DEF IInv
<1>2. pc' = [pc EXCEPT ![c] = "done"] /\ result' = [result EXCEPT ![c] = a]
  BY DEF Answer
<1>3. "done" \in Step /\ a \in Result /\ a \notin Refused
  BY DEF Step, Result, Refused
<1>4. CallInv(c)'
  BY <1>1, <1>2 DEF CallInv, TypeOK
<1>5. EventOf(c)' = EventOf(c)
  BY DEF EventOf, EventTypeOf
<1>6. seen' \in [Call -> ReviewRow \cup {NoReview}]
  BY <1>1 DEF TypeOK
<1> QED BY <1>2, <1>3, <1>4, <1>5, <1>6, StepOfCall

(* A call that goes on to its audit event after its write.                 *)
LEMMA WrittenCall ==
  ASSUME IInv, NEW c \in Call, pc[c] \in {"create", "update"},
         Goto(c, "event"), req' = req, seen' = seen, events' = events,
         reviews' \in [Recommendation -> ReviewRow \cup {NoReview}],
         \A r \in Recommendation : reviews'[r] # NoReview => RowInv(reviews'[r]),
         RowsKept,
         wrote' = wrote \cup {c}
  PROVE  IInv'
<1>1. TypeOK /\ result[c] = "none" /\ req[c].decision \in Decision
  BY DEF IInv, CallInv
<1>2. /\ pc' = [pc EXCEPT ![c] = "event"]
      /\ result' = [result EXCEPT ![c] = "none"]
  BY <1>1 DEF Goto, TypeOK
<1>3. "event" \in Step /\ "none" \in Result /\ "none" \notin Refused
  BY DEF Step, Result, Refused
<1>4. CallInv(c)'
  BY <1>1, <1>2 DEF CallInv, TypeOK
<1>5. seen' \in [Call -> ReviewRow \cup {NoReview}] /\ events' \subseteq Event
  BY <1>1 DEF TypeOK
<1> QED BY <1>2, <1>3, <1>4, <1>5, StepOfCall

LEMMA LookupFailsIInv ==
  ASSUME IInv, NEW c \in Call, LookupFails(c)
  PROVE  IInv' /\ RowsKept
BY NoWrite, EndOfCall DEF LookupFails, IInv, TypeOK

LEMMA CreateIInv ==
  ASSUME IInv, NEW c \in Call, CreateRecommendationReview(c)
  PROVE  IInv' /\ RowsKept
<1>1. CASE InsertReview(c) /\ Goto(c, "event")
  <2>1. /\ pc[c] = "create" /\ events' = events /\ req' = req /\ seen' = seen
        /\ wrote' = wrote \cup {c}
    BY <1>1 DEF CreateRecommendationReview, InsertReview
  <2> QED BY <1>1, <2>1, InsertEffect, WrittenCall
<1>2. CASE Answer(c, "dependency_unavailable") /\ UNCHANGED <<reviews, wrote>>
  BY <1>2, NoWrite, EndOfCall DEF CreateRecommendationReview, IInv, TypeOK
<1> QED BY <1>1, <1>2 DEF CreateRecommendationReview

LEMMA UpdateIInv ==
  ASSUME IInv, NEW c \in Call, UpdateRecommendationReview(c)
  PROVE  IInv' /\ RowsKept
<1>1. /\ pc[c] = "update" /\ OverwriteReview(c) /\ Goto(c, "event")
      /\ events' = events /\ req' = req /\ seen' = seen
      /\ wrote' = wrote \cup {c}
  BY DEF UpdateRecommendationReview, OverwriteReview
<1> QED BY <1>1, OverwriteEffect, WrittenCall

LEMMA AppendIInv ==
  ASSUME IInv, NEW c \in Call, AppendRecommendationReviewEvent(c)
  PROVE  IInv' /\ RowsKept
<1>1. /\ TypeOK /\ pc[c] = "event" /\ result[c] = "none" /\ c \in wrote
      /\ req[c].decision \in Decision
  BY DEF IInv, CallInv, AppendRecommendationReviewEvent
<1>2. EventOf(c) \in Event /\ EventOf(c).call = c /\ EventOf(c)' = EventOf(c)
  BY <1>1, EventOfType
     DEF EventOf, EventTypeOf, AppendRecommendationReviewEvent
<1>3. /\ pc' = [pc EXCEPT ![c] = "respond"]
      /\ result' = [result EXCEPT ![c] = "none"]
      /\ events' = events \cup {EventOf(c)}
      /\ reviews' = reviews /\ req' = req /\ seen' = seen /\ wrote' = wrote
  BY <1>1 DEF AppendRecommendationReviewEvent, Goto, TypeOK
<1>4. "respond" \in Step /\ "none" \in Result /\ "none" \notin Refused
  BY DEF Step, Result, Refused
<1>5. CallInv(c)'
  BY <1>1, <1>2, <1>3 DEF CallInv, TypeOK
<1>6. seen' \in [Call -> ReviewRow \cup {NoReview}] /\ events' \subseteq Event
  BY <1>1, <1>2, <1>3 DEF TypeOK
<1> QED BY <1>1, <1>2, <1>3, <1>4, <1>5, <1>6, NoWrite, StepOfCall

LEMMA WriteFailsIInv ==
  ASSUME IInv, NEW c \in Call, WriteFails(c)
  PROVE  IInv' /\ RowsKept
<1>1. /\ Answer(c, "dependency_unavailable") /\ req' = req /\ seen' = seen
      /\ events \subseteq Event
  BY DEF WriteFails, IInv, TypeOK
<1>2. CASE UNCHANGED <<reviews, events, wrote>>
  BY <1>1, <1>2, NoWrite, EndOfCall
<1>3. CASE pc[c] = "create" /\ InsertReview(c) /\ UNCHANGED events
  <2>1. wrote' = wrote \cup {c}
    BY <1>3 DEF InsertReview
  <2> QED BY <1>1, <1>3, <2>1, InsertEffect, EndOfCall
<1>4. CASE pc[c] = "update" /\ OverwriteReview(c) /\ UNCHANGED events
  <2>1. wrote' = wrote \cup {c}
    BY <1>4 DEF OverwriteReview
  <2> QED BY <1>1, <1>4, <2>1, OverwriteEffect, EndOfCall
<1>5. CASE /\ pc[c] = "event"
           /\ events' = events \cup {EventOf(c)}
           /\ UNCHANGED <<reviews, wrote>>
  <2>1. TypeOK /\ c \in wrote /\ req[c].decision \in Decision
    BY <1>5 DEF IInv, CallInv
  <2>2. EventOf(c) \in Event /\ EventOf(c).call = c
    BY <2>1, EventOfType DEF EventOf
  <2> QED BY <1>1, <1>5, <2>1, <2>2, NoWrite, EndOfCall
<1> QED BY <1>2, <1>3, <1>4, <1>5 DEF WriteFails

LEMMA RespondIInv ==
  ASSUME IInv, NEW c \in Call, Respond(c)
  PROVE  IInv' /\ RowsKept
<1>1. /\ c \in wrote /\ EventOf(c) \in events /\ events \subseteq Event
      /\ UNCHANGED <<reviews, events, req, seen, wrote>>
  BY DEF IInv, CallInv, Respond, TypeOK
<1>2. PICK a \in {"ok", "dependency_unavailable"} : Answer(c, a)
  BY DEF Respond
<1> QED BY <1>1, <1>2, NoWrite, EndOfCall

LEMMA CrashIInv ==
  ASSUME IInv, Crash
  PROVE  IInv' /\ RowsKept
<1> DEFINE inFlight == {c \in Call : pc[c] \in Step \ {"lookup", "done"}}
<1>1. /\ pc' = [c \in Call |-> IF c \in inFlight THEN "done" ELSE pc[c]]
      /\ result' = [c \in Call |-> IF c \in inFlight THEN "lost"
                                                     ELSE result[c]]
      /\ UNCHANGED <<reviews, events, req, seen, wrote>>
  BY DEF Crash
<1>2. TypeOK'
  BY <1>1 DEF IInv, TypeOK, Step, Result
<1>3. RowsKept /\ \A r \in Recommendation :
                    reviews'[r] # NoReview => RowInv(reviews'[r])
  BY <1>1, NoWrite
<1>4. ASSUME NEW c \in Call
      PROVE  CallInv(c)' /\ (result'[c] = "ok" => result[c] = "ok")
                        /\ (result'[c] \in Refused => result[c] \in Refused)
                        /\ EventOf(c)' = EventOf(c)
  <2>1. EventOf(c)' = EventOf(c)
    BY <1>1 DEF EventOf, EventTypeOf
  <2>2. CopyInv(c)' = CopyInv(c)
    BY <1>1 DEF CopyInv
  <2>3. CASE c \in inFlight
    <3>1. pc'[c] = "done" /\ result'[c] = "lost"
      BY <1>1, <2>3
    <3> QED BY <2>1, <3>1 DEF CallInv, Refused
  <2>4. CASE c \notin inFlight
    <3>1. pc'[c] = pc[c] /\ result'[c] = result[c]
      BY <1>1, <2>4
    <3>2. CallInv(c)
      BY DEF IInv
    <3> HIDE DEF inFlight
    <3>3. CallInv(c)'
      BY <1>1, <2>1, <2>2, <3>1, <3>2 DEF CallInv
    <3> QED BY <2>1, <3>1, <3>3
  <2> QED BY <2>3, <2>4
<1>5. AuditFollowsWrite' /\ RefusedHasNoEffect'
  BY <1>1, <1>4 DEF IInv, AuditFollowsWrite, RefusedHasNoEffect, Refused
<1> QED BY <1>2, <1>3, <1>4, <1>5 DEF IInv
-----------------------------------------------------------------------------
LEMMA InitIInv == Init => IInv
<1> SUFFICES ASSUME Init PROVE IInv
  OBVIOUS
<1>1. TypeOK
  BY DEF Init, TypeOK, Step, Result
<1>2. \A c \in Call : CallInv(c)
  BY DEF Init, CallInv
<1>3. AuditFollowsWrite /\ RefusedHasNoEffect
  BY DEF Init, AuditFollowsWrite, RefusedHasNoEffect
<1> QED BY <1>1, <1>2, <1>3 DEF IInv, Init

LEMMA NextIInv == IInv /\ [Next]_vars => IInv' /\ RowsKept
<1> SUFFICES ASSUME IInv, [Next]_vars PROVE IInv' /\ RowsKept
  OBVIOUS
<1>1. CASE Crash
  BY <1>1, CrashIInv
<1>2. ASSUME NEW c \in Call,
             \/ Lookup(c) \/ LookupFails(c)
             \/ CreateRecommendationReview(c)
             \/ UpdateRecommendationReview(c)
             \/ AppendRecommendationReviewEvent(c)
             \/ WriteFails(c) \/ Respond(c)
      PROVE  IInv' /\ RowsKept
  BY <1>2, LookupIInv, LookupFailsIInv, CreateIInv, UpdateIInv, AppendIInv,
     WriteFailsIInv, RespondIInv
<1>3. CASE UNCHANGED vars
  <2>1. RowsKept
    BY <1>3 DEF vars, RowsKept
  <2>2. \A c \in Call : CallInv(c)' = CallInv(c)
    BY <1>3 DEF vars, CallInv, CopyInv, EventOf, EventTypeOf
  <2>3. (AuditFollowsWrite /\ RefusedHasNoEffect)'
    BY <1>3 DEF vars, IInv, AuditFollowsWrite, RefusedHasNoEffect, EventOf,
                EventTypeOf
  <2> QED BY <1>3, <2>1, <2>2, <2>3 DEF vars, IInv, TypeOK
<1> QED BY <1>1, <1>2, <1>3 DEF Next

LEMMA IInvHolds == Spec => []IInv
BY InitIInv, NextIInv, PTL DEF Spec
-----------------------------------------------------------------------------
(* The review and event tables keep their column types (0009 migration)    *)
(* whatever calls interleave.                                              *)
THEOREM TypeCorrect == Spec => []TypeOK
BY IInvHolds, PTL DEF IInv

(* ReviewRecommendation never leaves a sensitive review approved by one    *)
(* actor, although it writes the row from a stale copy.                    *)
THEOREM FourEyesHolds == Spec => []FourEyes
<1>1. IInv => FourEyes
  <2> SUFFICES ASSUME IInv, NEW r \in Recommendation, reviews[r] # NoReview,
                      reviews[r].dual, reviews[r].status = "approved"
               PROVE  /\ reviews[r].first \in Actor
                      /\ reviews[r].second \in Actor
                      /\ reviews[r].first # reviews[r].second
    BY DEF FourEyes
  <2>1. RowInv(reviews[r]) /\ reviews[r] \in ReviewRow
    BY DEF IInv, TypeOK
  <2> QED BY <2>1 DEF RowInv, ReviewRow
<1> QED BY <1>1, IInvHolds, PTL

(* While every request has the same principal, as with authentication      *)
(* disabled (auth_middleware.go), a review that needs two approvers is     *)
(* never approved: the other side of FourEyes.                             *)
THEOREM OneActorNeverApproves ==
  ASSUME NEW a, Actor = {a}
  PROVE  Spec => [](\A r \in Recommendation :
                      reviews[r] # NoReview /\ reviews[r].dual =>
                        reviews[r].status # "approved")
<1>1. FourEyes => \A r \in Recommendation :
                    reviews[r] # NoReview /\ reviews[r].dual =>
                      reviews[r].status # "approved"
  BY DEF FourEyes
<1> QED BY <1>1, FourEyesHolds, PTL

(* The *_by columns and final_decision_at always agree with the status.    *)
THEOREM RowCoherentHolds == Spec => []RowCoherent
<1>1. IInv => RowCoherent
  BY DEF IInv, RowCoherent, RowInv, Finalized
<1> QED BY <1>1, IInvHolds, PTL

(* An audit event, or an answer "ok", implies that the row was written.    *)
THEOREM AuditFollowsWriteHolds == Spec => []AuditFollowsWrite
BY IInvHolds, PTL DEF IInv

(* A refused call (409 or 400) has changed neither table.                  *)
THEOREM RefusedHasNoEffectHolds == Spec => []RefusedHasNoEffect
BY IInvHolds, PTL DEF IInv

(* A finalized review is never pending again, and the first approver of a  *)
(* review never changes.                                                   *)
THEOREM OutcomeNeverReopenedHolds == Spec => OutcomeNeverReopened
<1>1. IInv /\ [Next]_vars => [RowsKept]_vars
  BY NextIInv
<1>2. [RowsKept]_vars =>
        [\A r \in Recommendation : reviews[r] # NoReview =>
           /\ reviews'[r] # NoReview
           /\ reviews'[r].first = reviews[r].first
           /\ reviews'[r].dual = reviews[r].dual
           /\ Finalized(reviews[r]) => Finalized(reviews'[r])]_vars
  BY DEF RowsKept
<1> QED BY <1>1, <1>2, IInvHolds, PTL DEF Spec, OutcomeNeverReopened
-----------------------------------------------------------------------------
(* A write to the review table is a step of the ledger. *)
LEMMA InsertOpens ==
  ASSUME IInv, NEW c \in Call, pc[c] = "create", InsertReview(c)
  PROVE  RL!Next
<1> DEFINE q == req[c]
           dual == SensitiveReviewLevel(q.payload)
<1>1. /\ q.rec \in Recommendation /\ q.actor \in Actor
      /\ q.decision \in RL!Decision /\ dual \in BOOLEAN
  BY DEF IInv, CallInv, TypeOK, Request, SensitiveReviewLevel, Decision,
         RL!Decision
<1> DEFINE new == NewReview(q, dual)
           entry == [status |-> IF q.decision = "approve" /\ dual
                                THEN "pending_second_approval"
                                ELSE RL!SettledStatus[q.decision],
                     dual |-> dual,
                     first |-> IF q.decision = "approve" THEN q.actor
                                                         ELSE NoActor,
                     second |-> NoActor]
<1> HIDE DEF dual
<1>2. new # NoReview
  <2>1. new \in ReviewRow
    BY <1>1, NewReviewOK DEF IInv, CallInv, TypeOK
  <2> QED BY <2>1, ConstantsAssumption
<1>3. [status |-> new.status, dual |-> new.dual,
       first |-> new.first, second |-> new.second] = entry
  BY DEF NewReview, SettledStatus, RL!SettledStatus
<1>4. reviews[q.rec] = NoReview /\ reviews' = [reviews EXCEPT ![q.rec] = new]
  BY DEF InsertReview, dual
<1> HIDE DEF new, entry, q
<1>5. Ledger' = [Ledger EXCEPT ![q.rec] = entry]
  BY <1>1, <1>2, <1>3, <1>4 DEF IInv, TypeOK, Ledger
<1>6. Ledger[q.rec] = NoReview
  BY <1>1, <1>4 DEF Ledger
<1>7. RL!Open(q.rec, q.actor, q.decision, dual)
  BY <1>5, <1>6 DEF RL!Open, entry
<1> QED BY <1>1, <1>7 DEF RL!Next

LEMMA LedgerEntry ==
  ASSUME TypeOK, NEW r \in Recommendation, reviews[r] # NoReview
  PROVE  /\ Ledger[r] # NoReview
         /\ Ledger[r].dual = reviews[r].dual
         /\ Ledger[r].first = reviews[r].first
<1> DEFINE row == reviews[r]
           entry == [status |-> row.status, dual |-> row.dual,
                     first |-> row.first, second |-> row.second]
<1>1. Ledger[r] = entry
  BY DEF Ledger
<1>2. row \in ReviewRow
  BY DEF TypeOK
<1>3. entry \in GovernanceRow
  BY <1>2 DEF ReviewRow, GovernanceRow
<1>4. Ledger[r] # NoReview
  BY <1>1, <1>3, ConstantsAssumption
<1>5. entry.dual = row.dual /\ entry.first = row.first
  OBVIOUS
<1> QED BY <1>1, <1>4, <1>5

LEMMA OverwriteSettles ==
  ASSUME IInv, NEW c \in Call, pc[c] = "update", OverwriteReview(c)
  PROVE  RL!Next
<1> DEFINE q == req[c]
           row == reviews[q.rec]
           new == DecidedReview(row, seen[c], q)
<1>1. /\ q \in Request /\ q.rec \in Recommendation /\ q.actor \in Actor
      /\ q.decision \in Decision /\ q.decision \in RL!Decision
  BY DEF IInv, CallInv, TypeOK, Request, Decision, RL!Decision
<1>2. CopyInv(c)
  BY DEF IInv, CallInv
<1>3. /\ row \in ReviewRow /\ row # NoReview
      /\ row.dual = TRUE /\ row.first = seen[c].first
      /\ seen[c] \in ReviewRow /\ RowInv(seen[c])
      /\ seen[c].status = "pending_second_approval"
      /\ q.decision = "approve" => seen[c].first # q.actor
  BY <1>1, <1>2 DEF CopyInv, IInv, TypeOK, ReviewRow
<1>4. row.first # NoActor
  BY <1>3, ConstantsAssumption DEF RowInv
<1>5. /\ new \in ReviewRow /\ new.status = SettledStatus[q.decision]
      /\ new.dual = TRUE /\ new.first = row.first
      /\ new.second = IF q.decision = "approve" THEN q.actor ELSE NoActor
  BY <1>1, <1>3, DecidedReviewOK
<1>6. new # NoReview
  BY <1>5, ConstantsAssumption
<1>7. reviews' = [reviews EXCEPT ![q.rec] = new]
  BY DEF OverwriteReview
<1>8. /\ Ledger[q.rec] # NoReview
      /\ Ledger[q.rec].dual
      /\ Ledger[q.rec].first = row.first
  <2>1. TypeOK /\ reviews[q.rec] # NoReview
    BY <1>3 DEF IInv
  <2>2. /\ Ledger[q.rec] # NoReview
        /\ Ledger[q.rec].dual = row.dual
        /\ Ledger[q.rec].first = row.first
    BY <1>1, <2>1, LedgerEntry
  <2> QED BY <1>3, <2>2
<1> DEFINE entry == [status |-> SettledStatus[q.decision], dual |-> TRUE,
                     first |-> row.first,
                     second |-> IF q.decision = "approve" THEN q.actor
                                                          ELSE NoActor]
<1>9. [status |-> new.status, dual |-> new.dual,
       first |-> new.first, second |-> new.second] = entry
  BY <1>5
<1> HIDE DEF new, entry
<1>10. Ledger' = [Ledger EXCEPT ![q.rec] = entry]
  BY <1>1, <1>6, <1>7, <1>9 DEF IInv, TypeOK, Ledger
<1>11. RL!Settle(q.rec, q.actor, q.decision)
  BY <1>3, <1>4, <1>8, <1>10
     DEF RL!Settle, RL!SettledStatus, SettledStatus, entry
<1> QED BY <1>1, <1>11 DEF RL!Next

(* The review workflow implements the ledger: its governance columns only  *)
(* change by opening a review or by settling a dual one.                   *)
THEOREM ReviewImplementsLedger == Spec => ImplementsLedger
<1>1. Init => RL!Init
  BY DEF Init, RL!Init, Ledger
<1>2. IInv /\ [Next]_vars => [RL!Next]_Ledger
  <2> SUFFICES ASSUME IInv, [Next]_vars PROVE RL!Next \/ Ledger' = Ledger
    OBVIOUS
  <2>1. CASE reviews' = reviews
    BY <2>1 DEF Ledger
  <2>2. ASSUME NEW c \in Call, InsertReview(c), pc[c] = "create"
        PROVE  RL!Next
    BY <2>2, InsertOpens
  <2>3. ASSUME NEW c \in Call, OverwriteReview(c), pc[c] = "update"
        PROVE  RL!Next
    BY <2>3, OverwriteSettles
  <2>4. ASSUME NEW c \in Call,
               \/ Lookup(c) \/ LookupFails(c)
               \/ CreateRecommendationReview(c)
               \/ UpdateRecommendationReview(c)
               \/ AppendRecommendationReviewEvent(c)
               \/ WriteFails(c) \/ Respond(c)
        PROVE  \/ reviews' = reviews
               \/ InsertReview(c) /\ pc[c] = "create"
               \/ OverwriteReview(c) /\ pc[c] = "update"
    <3>1. CASE Lookup(c) \/ LookupFails(c)
      BY <3>1 DEF Lookup, LookupFails
    <3>2. CASE CreateRecommendationReview(c)
      BY <3>2 DEF CreateRecommendationReview
    <3>3. CASE UpdateRecommendationReview(c)
      BY <3>3 DEF UpdateRecommendationReview
    <3>4. CASE AppendRecommendationReviewEvent(c) \/ Respond(c)
      BY <3>4 DEF AppendRecommendationReviewEvent, Respond
    <3>5. CASE WriteFails(c)
      BY <3>5 DEF WriteFails
    <3> QED BY <2>4, <3>1, <3>2, <3>3, <3>4, <3>5
  <2>5. Crash \/ UNCHANGED vars => reviews' = reviews
    BY DEF Crash, vars
  <2> QED BY <2>1, <2>2, <2>3, <2>4, <2>5 DEF Next
<1> QED BY <1>1, <1>2, IInvHolds, PTL DEF Spec, ImplementsLedger, RL!Spec
=============================================================================
