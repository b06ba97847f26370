------------------------ MODULE RecommendationChanges ------------------------
(***************************************************************************)
(* The log of changes that operators apply from an anomaly report and roll *)
(* back: POST .../changes/apply, POST .../changes/:id/rollback and GET     *)
(* .../changes (httpapi/anomaly_handler.go), over the table                *)
(* recommendation_changes (storage/postgres.go, migration 0004).           *)
(*                                                                         *)
(* An apply is one INSERT.  A rollback is a transaction: it locks the      *)
(* target row (SELECT ... FOR UPDATE), inserts the inverse change and      *)
(* marks the target; nothing of it shows before the commit.  Any statement *)
(* may fail, a commit or an insert may take effect although its caller is  *)
(* told that it failed, and the service may crash.                         *)
(*                                                                         *)
(* Identifiers are random (uuid): here the smallest one not in use.  A     *)
(* recommendation keeps its parameter, amount and unit; the impact keeps   *)
(* its before, after and delta.                                            *)
(***************************************************************************)
EXTENDS AnomalyAnalysis, FiniteSets

CONSTANTS
  Workers,     \* requests served at the same time
  Miners,
  Reports,     \* the reports computeMinerReport may give for each miner
  Ids,         \* change identifiers, 1 .. n: bounds the log
  NoRow,       \* an identifier that names no row
  NoWorker     \* a row that nobody locks

\* What the log keeps of a report.
Delta == [amount : Int, unit : {"", "%", "mV", "none"}]
Recommendation == [parameter : Parameters, suggested : Delta, requested : Delta]
Estimate == [hash : Int, power : Int, temp : Int, fan : Int, compensated : Int]
Impact == [before : Estimate, after : Estimate, delta : Estimate,
           confidence : Int]
Report == [recommendations : Seq(Recommendation), impact : Impact]

Row == [operation : {"apply", "rollback"}, status : {"applied", "rolled_back"},
        parent : Ids \cup {NoRow}, supersededBy : Ids \cup {NoRow},
        miner : Miners, recommendations : Seq(Recommendation), impact : Impact]

\* What an applied change is to the specification of the log.
Entry == [miner : Miners, adjustment : [Parameters -> Int], undone : BOOLEAN]

ASSUME IdsAssumption ==
  /\ Ids = 1 .. Cardinality(Ids)
  /\ IsFiniteSet(Ids) /\ IsFiniteSet(Workers)
  /\ NoRow \notin Ids \cup Row \cup Entry
  /\ NoWorker \notin Workers

\* A report recommends an adjustment, be it 0, for each parameter, in a unit
\* that the inversion knows: RecommendActions and ApplyGuardrails of the analyzer.
ASSUME ReportsAssumption ==
  /\ Reports \in [Miners -> SUBSET Report]
  /\ \A m \in Miners : \A r \in Reports[m] :
       /\ \A p \in Parameters : \E i \in DOMAIN r.recommendations :
            r.recommendations[i].parameter = p
       /\ \A i \in DOMAIN r.recommendations :
            r.recommendations[i].suggested.unit \in {"%", "mV"}

VARIABLES
  changes,     \* committed rows of recommendation_changes
  locks,       \* the transaction that holds each row's lock
  call         \* the request each worker serves, or the answer it gave

vars == << changes, locks, call >>

Idle == [phase |-> "idle"]

FreeIds == { i \in Ids : changes[i] = NoRow }
FreshId == CHOOSE i \in FreeIds : \A other \in FreeIds : i <= other

\* What a worker does: the request it serves, or the answer it gave last.
Code == {"applied", "rolled back", "already rolled back", "not found",
         "unavailable"}
Request ==
  {Idle} \cup [phase : {"reported"}, miner : Miners, report : Report]
         \cup [phase : {"locking"}, target : Ids]
         \cup [phase : {"selected"}, target : Ids, row : Row]
         \cup [phase : {"answered"}, code : Code, target : Ids \cup {NoRow}]

\* Types of the log, of its locks and of the requests; a row undoes another
\* exactly when it is a rollback.
TypeOK ==
  /\ changes \in [Ids -> Row \cup {NoRow}]
  /\ \A i \in Ids : changes[i] # NoRow =>
       (changes[i].operation = "apply" <=> changes[i].parent = NoRow)
  /\ locks \in [Ids -> Workers \cup {NoWorker}]
  /\ call \in [Workers -> Request]

Init ==
  /\ changes = [i \in Ids |-> NoRow]
  /\ locks = [i \in Ids |-> NoWorker]
  /\ call = [w \in Workers |-> Idle]

-------------------------------------------------------------------------------
(* Inverse of a change.  Amounts have two decimals, which is what the text  *)
(* of an inverted amount keeps, so nothing is lost; a text without a known  *)
(* unit is left as it was.                                                  *)

InvertDelta(delta) == [delta EXCEPT !.amount = -@]

(* Mutant of InvertRecommendation: only percentages are inverted. *)
InvertPercentOnly(rec) ==
  IF rec.suggested.unit # "%" THEN rec
  ELSE [rec EXCEPT !.requested = rec.suggested,
                   !.suggested = InvertDelta(rec.suggested)]

InvertRecommendation(rec) ==
  IF rec.suggested.unit \notin {"%", "mV"} THEN rec
  ELSE [rec EXCEPT !.requested = rec.suggested,
                   !.suggested = InvertDelta(rec.suggested)]

InvertRecommendations(recs) ==
  [i \in DOMAIN recs |-> InvertRecommendation(recs[i])]

\* The snapshots change places and every number of the delta its sign: the
\* percentages are not computed again from the new reference.
InvertImpactEstimate(impact) ==
  [impact EXCEPT !.before = impact.after,
                 !.after  = impact.before,
                 !.delta  = [k \in DOMAIN impact.delta |-> -impact.delta[k]]]

ApplyRow(miner, report) ==
  [operation |-> "apply", status |-> "applied", parent |-> NoRow,
   supersededBy |-> NoRow, miner |-> miner,
   recommendations |-> report.recommendations, impact |-> report.impact]

RollbackRow(target, id) ==
  [operation |-> "rollback", status |-> "applied", parent |-> id,
   supersededBy |-> NoRow, miner |-> target.miner,
   recommendations |-> InvertRecommendations(target.recommendations),
   impact |-> InvertImpactEstimate(target.impact)]

\* GET .../changes?status=s: the identifiers an operator sees.
Listed(status) == { i \in Ids : changes[i] # NoRow /\ changes[i].status = status }

-------------------------------------------------------------------------------
(* Requests. *)

Available(w) == call[w].phase \in {"idle", "answered"}

\* A request starts while an identifier is left for every row the requests
\* under way may write: this bounds the model, not the code.
MayStart(w) ==
  /\ Available(w)
  /\ Cardinality({ v \in Workers : ~ Available(v) }) < Cardinality(FreeIds)

Answer(w, code, target) ==
  call' = [call EXCEPT ![w] = [phase |-> "answered", code |-> code,
                               target |-> target]]

\* The report is computed first; the insert follows.
ApplyRecommendationChange(w, miner, report) ==
  /\ MayStart(w)
  /\ call' = [call EXCEPT ![w] = [phase |-> "reported", miner |-> miner,
                                  report |-> report]]
  /\ UNCHANGED << changes, locks >>

CreateRecommendationChange(w) ==
  /\ call[w].phase = "reported"
  /\ changes' = [changes EXCEPT ![FreshId] =
                   ApplyRow(call[w].miner, call[w].report)]
  /\ \/ Answer(w, "applied", FreshId)
     \/ Answer(w, "unavailable", NoRow)
  /\ UNCHANGED locks

CreateFails(w) ==
  /\ call[w].phase = "reported"
  /\ Answer(w, "unavailable", NoRow)
  /\ UNCHANGED << changes, locks >>

\* An operator rolls back a change of the list of applied ones, which holds
\* rollbacks too.
RollbackRecommendationChange(w, id) ==
  /\ MayStart(w)
  /\ id \in Listed("applied")
  /\ call' = [call EXCEPT ![w] = [phase |-> "locking", target |-> id]]
  /\ UNCHANGED << changes, locks >>

(* Mutant of SelectForUpdate: a plain SELECT, which waits for nobody. *)
SelectWithoutLock(w) ==
  LET id == call[w].target
  IN  /\ call[w].phase = "locking"
      /\ IF changes[id].operation # "apply" THEN Answer(w, "not found", id)
         ELSE IF changes[id].status = "rolled_back"
         THEN Answer(w, "already rolled back", id)
         ELSE call' = [call EXCEPT ![w] = [phase |-> "selected", target |-> id,
                                           row |-> changes[id]]]
      /\ UNCHANGED << changes, locks >>

(* Mutant of SelectForUpdate: the operation of the row is not looked at. *)
SelectAnyOperation(w) ==
  LET id == call[w].target
  IN  /\ call[w].phase = "locking"
      /\ locks[id] = NoWorker
      /\ IF changes[id].status = "rolled_back"
         THEN Answer(w, "already rolled back", id) /\ UNCHANGED locks
         ELSE /\ locks' = [locks EXCEPT ![id] = w]
              /\ call' = [call EXCEPT ![w] = [phase |-> "selected", target |-> id,
                                              row |-> changes[id]]]
      /\ UNCHANGED changes

\* SELECT ... WHERE operation = 'apply' FOR UPDATE: waits for the row's lock
\* and then sees its latest version.
SelectForUpdate(w) ==
  LET id == call[w].target
  IN  /\ call[w].phase = "locking"
      /\ \/ /\ changes[id].operation # "apply"
            /\ Answer(w, "not found", id)
            /\ UNCHANGED locks
         \/ /\ changes[id].operation = "apply"
            /\ locks[id] = NoWorker
            /\ changes[id].status = "rolled_back"
            /\ Answer(w, "already rolled back", id)
            /\ UNCHANGED locks
         \/ /\ changes[id].operation = "apply"
            /\ locks[id] = NoWorker
            /\ changes[id].status # "rolled_back"
            /\ locks' = [locks EXCEPT ![id] = w]
            /\ call' = [call EXCEPT ![w] = [phase |-> "selected", target |-> id,
                                            row |-> changes[id]]]
      /\ UNCHANGED changes

\* The INSERT of the rollback, the UPDATE of its target and the COMMIT: both
\* rows show at once, and the lock goes.
Commit(w) ==
  LET id  == call[w].target
      new == FreshId
  IN  /\ call[w].phase = "selected"
      /\ changes' = [changes EXCEPT
           ![new] = RollbackRow(call[w].row, id),
           ![id]  = [@ EXCEPT !.status = "rolled_back", !.supersededBy = new]]
      /\ locks' = [locks EXCEPT ![id] = NoWorker]
      /\ \/ Answer(w, "rolled back", id)
         \/ Answer(w, "unavailable", id)

(* Mutant of Abort: the transaction is left open. *)
AbortLeavesOpen(w) ==
  /\ call[w].phase \in {"locking", "selected"}
  /\ Answer(w, "unavailable", call[w].target)
  /\ UNCHANGED << changes, locks >>

\* A statement of the transaction fails: tx.Rollback.
Abort(w) ==
  /\ call[w].phase \in {"locking", "selected"}
  /\ locks' = [i \in Ids |-> IF locks[i] = w THEN NoWorker ELSE locks[i]]
  /\ Answer(w, "unavailable", call[w].target)
  /\ UNCHANGED changes

\* The service restarts: its requests end and the database drops their locks.
Crash ==
  /\ \E w \in Workers : ~ Available(w)
  /\ call' = [w \in Workers |-> Idle]
  /\ locks' = [i \in Ids |-> NoWorker]
  /\ UNCHANGED changes

Step(w) ==
  \/ CreateRecommendationChange(w)
  \/ SelectForUpdate(w)
  \/ Commit(w)

Fail(w) ==
  \/ CreateFails(w)
  \/ Abort(w)

Next ==
  \/ \E w \in Workers, m \in Miners : \E r \in Reports[m] :
       ApplyRecommendationChange(w, m, r)
  \/ \E w \in Workers, id \in Ids : RollbackRecommendationChange(w, id)
  \/ \E w \in Workers : Step(w) \/ Fail(w)
  \/ Crash

\* A request goes on by itself; it need not fail.  The database queues the
\* waiters for a row: one whose row is free again and again gets it.
Fairness ==
  \A w \in Workers : WF_vars(Step(w)) /\ SF_vars(SelectForUpdate(w))

Spec == Init /\ [][Next]_vars /\ Fairness

-------------------------------------------------------------------------------
(* Properties. *)

Rows == { i \in Ids : changes[i] # NoRow }
IsApply(i) == i \in Rows /\ changes[i].operation = "apply"
Children(i) == { j \in Rows : changes[j].parent = i }

\* The amount a list of recommendations moves a parameter by.
Amount(recs, parameter) ==
  recs[CHOOSE i \in DOMAIN recs : recs[i].parameter = parameter].suggested.amount
AdjustmentOf(recs) == [p \in Parameters |-> Amount(recs, p)]

\* Every row of the log taken together, rollbacks included.
SetpointOf(miner) ==
  [p \in Parameters |->
     LET moved == [i \in Ids |->
           IF i \in Rows /\ changes[i].miner = miner
           THEN Amount(changes[i].recommendations, p) ELSE 0]
     IN  SumFunctionOnSet(moved, Ids)]

\* The log implements its specification: applied rows stay and are undone at
\* most once, at the moment their inverse is recorded, and all rows of a miner
\* add up to the changes that are still in force, whatever transactions,
\* failures and restarts interleave (D78: full traceability and the
\* possibility of reverting).
Ledger == INSTANCE ChangeLedger WITH
  Change     <- Ids,
  Miner      <- Miners,
  Parameter  <- Parameters,
  Adjustment <- { AdjustmentOf(r.recommendations) : r \in UNION Range(Reports) },
  NoChange   <- NoRow,
  log        <- [i \in Ids |->
                   IF IsApply(i)
                   THEN [miner |-> changes[i].miner,
                         adjustment |-> AdjustmentOf(changes[i].recommendations),
                         undone |-> changes[i].status = "rolled_back"]
                   ELSE NoRow],
  setpoint   <- [m \in Miners |-> SetpointOf(m)]

ImplementsLedger == Ledger!Spec

\* The links of the log agree in both directions: a change is rolled back by
\* exactly the row it names as its successor, which undoes the same miner's
\* snapshots, and a change in force or a rollback has none.
RollbackLinksAgree ==
  \A i \in Rows :
    /\ changes[i].status = "rolled_back" =>
         /\ IsApply(i)
         /\ Children(i) = {changes[i].supersededBy}
         /\ changes[changes[i].supersededBy].miner = changes[i].miner
         /\ changes[changes[i].supersededBy].impact.before = changes[i].impact.after
         /\ changes[changes[i].supersededBy].impact.after = changes[i].impact.before
    /\ changes[i].status = "applied" =>
         Children(i) = {} /\ changes[i].supersededBy = NoRow

\* What a caller was told stays true: a change it applied is in the log; one it
\* rolled back, or could not because it was rolled back already, is rolled
\* back; one that was not found is not an applied change.
AnswersAreTrue ==
  \A w \in Workers : call[w].phase = "answered" =>
    LET id == call[w].target
    IN  CASE call[w].code = "applied" -> IsApply(id)
          [] call[w].code \in {"rolled back", "already rolled back"} ->
               IsApply(id) /\ changes[id].status = "rolled_back"
          [] call[w].code = "not found" -> ~ IsApply(id)
          [] OTHER -> TRUE

\* A rollback that waits for a row's lock is answered: no transaction keeps a
\* lock for ever, however its statements fail.
RollbackIsAnswered ==
  \A w \in Workers : call[w].phase = "locking" ~> Available(w)
===============================================================================
