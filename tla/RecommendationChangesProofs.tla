--------------------- MODULE RecommendationChangesProofs ---------------------
(***************************************************************************)
(* Proofs about RecommendationChanges, for any number of workers, miners,  *)
(* reports and identifiers.  The argument: a row lock and the row its      *)
(* holder read stay together until the commit, so a change is rolled back  *)
(* by one row only; every row's links point at rows that point back; and   *)
(* an inverse moves every parameter by the opposite amount, so that apply  *)
(* and rollback rows of one change cancel out of the sum of the log.       *)
(***************************************************************************)
EXTENDS RecommendationChanges, SumTheorems

\* The requests under way: each may still write one row.
Busy == { w \in Workers : ~ Available(w) }
Room == Cardinality(Busy) <= Cardinality(FreeIds)

Complete(recs) ==
  \A p \in Parameters : \E i \in DOMAIN recs : recs[i].parameter = p

Reported(row) ==
  \E r \in Reports[row.miner] : row.recommendations = r.recommendations

\* A row that undoes change i.
Undoes(row, i) ==
  /\ row.parent = i
  /\ row.miner = changes[i].miner
  /\ row.impact.before = changes[i].impact.after
  /\ row.impact.after = changes[i].impact.before

RowOK(i) ==
  /\ Complete(changes[i].recommendations)
  /\ changes[i].operation = "apply" => Reported(changes[i])
  /\ changes[i].status = "rolled_back" =>
       /\ changes[i].operation = "apply"
       /\ changes[i].supersededBy \in Rows
       /\ Undoes(changes[changes[i].supersededBy], i)
  /\ changes[i].status = "applied" => changes[i].supersededBy = NoRow
  /\ changes[i].operation = "rollback" =>
       /\ changes[i].parent \in Rows
       /\ changes[changes[i].parent].supersededBy = i

CallOK(w) ==
  LET id == call[w].target IN
  /\ call[w].phase = "reported" => call[w].report \in Reports[call[w].miner]
  /\ call[w].phase = "locking" => id \in Rows
  /\ call[w].phase = "selected" =>
       /\ id \in Rows /\ call[w].row = changes[id] /\ locks[id] = w
       /\ changes[id].operation = "apply" /\ changes[id].status = "applied"
  /\ call[w].phase = "answered" =>
       /\ call[w].code = "applied" => IsApply(id)
       /\ call[w].code \in {"rolled back", "already rolled back"} =>
            IsApply(id) /\ changes[id].status = "rolled_back"
       /\ call[w].code = "not found" =>
            id \in Rows /\ changes[id].operation = "rollback"

IInv ==
  /\ TypeOK
  /\ \A i \in Rows : RowOK(i)
  /\ \A w \in Workers : CallOK(w)
  /\ Room
-----------------------------------------------------------------------------
(* The amount a list of recommendations moves a parameter by, and that its *)
(* inverse moves it by the opposite.                                       *)
LEMMA AmountIsInt ==
  ASSUME NEW recs \in Seq(Recommendation), Complete(recs), NEW p \in Parameters
  PROVE  Amount(recs, p) \in Int
<1> DEFINE i == CHOOSE i \in DOMAIN recs : recs[i].parameter = p
<1>1. i \in DOMAIN recs
  BY DEF Complete
<1>2. \A j \in DOMAIN recs : recs[j] \in Recommendation
  OBVIOUS
<1>3. recs[i].suggested.amount \in Int
  BY <1>1, <1>2 DEF Recommendation, Delta
<1> QED BY <1>3 DEF Amount

LEMMA AmountInverted ==
  ASSUME NEW recs \in Seq(Recommendation), Complete(recs), NEW p \in Parameters,
         \A i \in DOMAIN recs : recs[i].suggested.unit \in {"%", "mV"}
  PROVE  /\ InvertRecommendations(recs) \in Seq(Recommendation)
         /\ Complete(InvertRecommendations(recs))
         /\ Amount(InvertRecommendations(recs), p) = -Amount(recs, p)
<1> DEFINE inverse == InvertRecommendations(recs)
<1>1. /\ DOMAIN inverse = DOMAIN recs
      /\ \A i \in DOMAIN recs : inverse[i] = InvertRecommendation(recs[i])
  BY DEF InvertRecommendations
<1>2. ASSUME NEW rec \in Recommendation, rec.suggested.unit \in {"%", "mV"}
      PROVE  /\ InvertRecommendation(rec) \in Recommendation
             /\ InvertRecommendation(rec).parameter = rec.parameter
             /\ InvertRecommendation(rec).suggested.amount = -rec.suggested.amount
  <2>1. /\ InvertDelta(rec.suggested) \in Delta
        /\ InvertDelta(rec.suggested).amount = -rec.suggested.amount
    <3>1. PICK d \in Delta : d = rec.suggested
      BY DEF Recommendation
    <3>2. d.amount \in Int
      BY DEF Delta
    <3>3. PICK opposite \in Int : opposite = -d.amount
      BY <3>2
    <3>4. InvertDelta(d) = [d EXCEPT !.amount = opposite]
      BY <3>3 DEF InvertDelta, Delta
    <3>5. InvertDelta(d) \in Delta /\ InvertDelta(d).amount = opposite
      BY <3>4 DEF Delta
    <3> QED BY <3>1, <3>3, <3>5
  <2>2. InvertRecommendation(rec) =
          [rec EXCEPT !.requested = rec.suggested,
                      !.suggested = InvertDelta(rec.suggested)]
    BY <1>2 DEF InvertRecommendation
  <2> QED BY <2>1, <2>2 DEF Recommendation
<1>3. \A i \in DOMAIN recs :
        /\ inverse[i] \in Recommendation
        /\ inverse[i].parameter = recs[i].parameter
        /\ inverse[i].suggested.amount = -recs[i].suggested.amount
  BY <1>1, <1>2
<1>4. inverse \in Seq(Recommendation)
  <2>1. inverse = [i \in 1 .. Len(recs) |-> inverse[i]]
    BY DEF InvertRecommendations
  <2>2. Len(recs) \in Nat /\ DOMAIN recs = 1 .. Len(recs)
    OBVIOUS
  <2> HIDE DEF inverse
  <2> QED BY <1>3, <2>1, <2>2
<1> HIDE DEF inverse
<1>5. Complete(inverse)
  BY <1>1, <1>3 DEF Complete
<1>6. PICK at : at = CHOOSE i \in DOMAIN recs : recs[i].parameter = p
  OBVIOUS
<1>7. at = CHOOSE i \in DOMAIN inverse : inverse[i].parameter = p
  <2>1. \A j : (j \in DOMAIN recs /\ recs[j].parameter = p) <=>
               (j \in DOMAIN inverse /\ inverse[j].parameter = p)
    BY <1>1, <1>3
  <2> QED BY <1>6, <2>1
<1>8. at \in DOMAIN recs
  BY <1>6 DEF Complete
<1> QED BY <1>3, <1>4, <1>5, <1>6, <1>7, <1>8 DEF Amount, inverse
-----------------------------------------------------------------------------
LEMMA IdsAreNat == Ids \subseteq Nat
<1>1. Cardinality(Ids) \in Nat
  BY IdsAssumption, FS_CardinalityType
<1> QED BY <1>1, IdsAssumption

LEMMA FreshFacts ==
  ASSUME FreeIds # {}
  PROVE  FreshId \in Ids /\ changes[FreshId] = NoRow
<1>1. FreeIds \subseteq Nat
  BY IdsAreNat DEF FreeIds
<1>2. \E i \in FreeIds : \A other \in FreeIds : i <= other
  BY <1>1, LeastNat
<1>3. FreshId \in FreeIds
  BY <1>2 DEF FreshId
<1> QED BY <1>3 DEF FreeIds

LEMMA RoomFacts ==
  /\ IsFiniteSet(Busy) /\ IsFiniteSet(FreeIds)
  /\ Cardinality(Busy) \in Nat /\ Cardinality(FreeIds) \in Nat
<1>1. Busy \subseteq Workers /\ FreeIds \subseteq Ids
  BY DEF Busy, FreeIds
<1>2. IsFiniteSet(Busy) /\ IsFiniteSet(FreeIds)
  BY <1>1, IdsAssumption, FS_Subset
<1> QED BY <1>2, FS_CardinalityType

(* Whoever is under way finds an identifier for its row. *)
LEMMA BusyHasRoom ==
  ASSUME IInv, NEW w \in Busy
  PROVE  FreeIds # {}
<1>1. Cardinality(Busy) # 0
  BY RoomFacts, FS_EmptySet
<1>2. Cardinality(FreeIds) # 0
  BY <1>1, RoomFacts DEF IInv, Room
<1> QED BY <1>2, FS_EmptySet

(* A request that starts has room: that is what MayStart looks at. *)
LEMMA RoomAtStart ==
  ASSUME NEW w \in Workers, MayStart(w), Busy' \subseteq Busy \cup {w},
         changes' = changes
  PROVE  Room'
<1>1. Cardinality(Busy) < Cardinality(FreeIds)
  BY DEF MayStart, Busy
<1>2. IsFiniteSet(Busy \cup {w}) /\ Cardinality(Busy \cup {w}) <= Cardinality(Busy) + 1
  <2>1. /\ IsFiniteSet(Busy \cup {w})
        /\ Cardinality(Busy \cup {w}) =
             IF w \in Busy THEN Cardinality(Busy) ELSE Cardinality(Busy) + 1
    BY RoomFacts, FS_AddElement, Zenon
  <2>2. Cardinality(Busy) \in Nat
    BY RoomFacts
  <2> QED BY <2>1, <2>2
<1>3. Cardinality(Busy') <= Cardinality(Busy \cup {w}) /\ Cardinality(Busy') \in Nat
  BY <1>2, FS_Subset, FS_CardinalityType
<1>4. FreeIds' = FreeIds
  BY DEF FreeIds
<1>5. Cardinality(Busy \cup {w}) \in Nat
  BY <1>2, FS_CardinalityType
<1> QED BY <1>1, <1>2, <1>3, <1>4, <1>5, RoomFacts DEF Room

(* A request that ends writes one row at most. *)
LEMMA RoomAtEnd ==
  ASSUME Room, NEW w \in Busy, Busy' \subseteq Busy \ {w},
         NEW x, FreeIds \ {x} \subseteq FreeIds', FreeIds' \subseteq Ids
  PROVE  Room'
<1>1. /\ IsFiniteSet(Busy \ {w}) /\ Cardinality(Busy \ {w}) = Cardinality(Busy) - 1
  BY RoomFacts, FS_RemoveElement
<1>2. Cardinality(Busy') <= Cardinality(Busy \ {w}) /\ Cardinality(Busy') \in Nat
  BY <1>1, FS_Subset, FS_CardinalityType
<1>3. /\ IsFiniteSet(FreeIds \ {x})
      /\ Cardinality(FreeIds \ {x}) >= Cardinality(FreeIds) - 1
      /\ Cardinality(FreeIds \ {x}) \in Nat
  <2>1. /\ IsFiniteSet(FreeIds \ {x})
        /\ Cardinality(FreeIds \ {x}) =
             IF x \in FreeIds THEN Cardinality(FreeIds) - 1
             ELSE Cardinality(FreeIds)
    BY RoomFacts, FS_RemoveElement, Zenon
  <2>2. Cardinality(FreeIds \ {x}) \in Nat
    BY <2>1, FS_CardinalityType
  <2>3. Cardinality(FreeIds) \in Nat
    BY RoomFacts
  <2> QED BY <2>1, <2>2, <2>3
<1>4. IsFiniteSet(FreeIds')
  BY IdsAssumption, FS_Subset
<1>5. /\ Cardinality(FreeIds \ {x}) <= Cardinality(FreeIds')
      /\ Cardinality(FreeIds') \in Nat
  BY <1>4, FS_Subset, FS_CardinalityType
<1> QED BY <1>1, <1>2, <1>3, <1>5, RoomFacts DEF Room
-----------------------------------------------------------------------------
(* A request that the step does not touch is still sound, if rows stay,    *)
(* keep their operation and are not un-rolled-back, and the row that it    *)
(* has locked is left alone.                                               *)
LEMMA CallKept ==
  ASSUME IInv, NEW v \in Workers, CallOK(v), call'[v] = call[v],
         \A i \in Rows : /\ i \in Rows'
                         /\ changes'[i].operation = changes[i].operation
                         /\ changes[i].status = "rolled_back" =>
                              changes'[i].status = "rolled_back",
         \A i \in Rows : locks[i] = v =>
                           changes'[i] = changes[i] /\ locks'[i] = v
  PROVE  CallOK(v)'
<1>1. PICK q : q = call[v] /\ q = call'[v]
  OBVIOUS
<1>2. \A i : IsApply(i) => IsApply(i)'
  BY DEF IsApply
<1>3. \A i : IsApply(i) => i \in Rows
  BY DEF IsApply
<1> QED BY <1>1, <1>2, <1>3 DEF CallOK

LEMMA RowsKept ==
  ASSUME IInv, changes' = changes
  PROVE  /\ Rows' = Rows /\ FreeIds' = FreeIds
         /\ \A i \in Rows : RowOK(i)'
         /\ \A i : IsApply(i)' = IsApply(i)
<1>1. Rows' = Rows /\ FreeIds' = FreeIds
  BY DEF Rows, FreeIds
<1>2. \A i : IsApply(i)' = IsApply(i)
  BY <1>1 DEF IsApply
<1>3. ASSUME NEW i \in Rows PROVE RowOK(i)'
  <2>1. RowOK(i)
    BY DEF IInv
  <2> QED BY <1>1, <2>1 DEF RowOK, Undoes
<1> QED BY <1>1, <1>2, <1>3

LEMMA IdleFacts ==
  ASSUME IInv, NEW w \in Workers
  PROVE  /\ call[w] \in Request
         /\ w \in Busy <=> call[w].phase \notin {"idle", "answered"}
BY DEF IInv, TypeOK, Busy, Available

(* A step that changes one worker's request and no row. *)
LEMMA OneCall ==
  ASSUME IInv, NEW w \in Workers, NEW q \in Request,
         call' = [call EXCEPT ![w] = q], changes' = changes,
         locks' \in [Ids -> Workers \cup {NoWorker}],
         \A i \in Ids : locks[i] \in Workers \ {w} => locks'[i] = locks[i],
         CallOK(w)', Room'
  PROVE  IInv'
<1>1. TypeOK'
  BY DEF IInv, TypeOK
<1>2. \A i \in Rows' : RowOK(i)'
  BY RowsKept
<1>3. ASSUME NEW v \in Workers, v # w PROVE CallOK(v)'
  <2>1. CallOK(v) /\ call'[v] = call[v]
    BY <1>3 DEF IInv, TypeOK
  <2>2. Rows' = Rows
    BY RowsKept
  <2>3. Rows \subseteq Ids
    BY DEF Rows
  <2>4. \A i \in Rows : locks[i] = v => locks'[i] = v
    BY <1>3, <2>3
  <2> QED BY <2>1, <2>2, <2>4, CallKept
<1> QED BY <1>1, <1>2, <1>3 DEF IInv
-----------------------------------------------------------------------------
LEMMA InitIInv == Init => IInv
<1> SUFFICES ASSUME Init PROVE IInv
  OBVIOUS
<1>1. TypeOK
  BY DEF Init, TypeOK, Request
<1>2. Rows = {}
  BY DEF Init, Rows
<1>3. \A w \in Workers : call[w].phase = "idle"
  BY DEF Init, Idle
<1>4. \A w \in Workers : CallOK(w)
  BY <1>3 DEF CallOK
<1>5. Busy = {}
  BY <1>3 DEF Busy, Available
<1>6. Room
  <2>1. Cardinality(Busy) = 0
    BY <1>5, FS_EmptySet
  <2> QED BY <2>1, RoomFacts DEF Room
<1> QED BY <1>1, <1>2, <1>4, <1>6 DEF IInv

(* Who is under way after worker w has gone on to q. *)
LEMMA BusyAfter ==
  ASSUME IInv, NEW w \in Workers, NEW q \in Request,
         call' = [call EXCEPT ![w] = q]
  PROVE  /\ Busy' \subseteq Busy \cup {w}
         /\ q.phase \in {"idle", "answered"} => Busy' \subseteq Busy \ {w}
         /\ w \in Busy => Busy' \subseteq Busy
<1>1. call'[w] = q /\ \A v \in Workers : v # w => call'[v] = call[v]
  BY DEF IInv, TypeOK
<1> QED BY <1>1 DEF Busy, Available

LEMMA ApplyIInv ==
  ASSUME IInv, NEW w \in Workers, NEW m \in Miners, NEW r \in Reports[m],
         ApplyRecommendationChange(w, m, r)
  PROVE  IInv'
<1>1. PICK q : q = [phase |-> "reported", miner |-> m, report |-> r]
  OBVIOUS
<1>2. /\ q.phase = "reported" /\ q.miner = m /\ q.report = r
  BY <1>1
<1>3. q \in Request
  BY <1>1, ReportsAssumption DEF Request
<1>4. /\ MayStart(w) /\ call' = [call EXCEPT ![w] = q]
      /\ changes' = changes /\ locks' = locks
  BY <1>1 DEF ApplyRecommendationChange
<1>5. call'[w] = q
  BY <1>4 DEF IInv, TypeOK
<1>6. CallOK(w)'
  BY <1>2, <1>5 DEF CallOK
<1>7. Room'
  BY <1>3, <1>4, BusyAfter, RoomAtStart
<1> QED BY <1>3, <1>4, <1>6, <1>7, OneCall DEF IInv, TypeOK

LEMMA RollbackIInv ==
  ASSUME IInv, NEW w \in Workers, NEW id \in Ids,
         RollbackRecommendationChange(w, id)
  PROVE  IInv'
<1>1. PICK q : q = [phase |-> "locking", target |-> id]
  OBVIOUS
<1>2. q.phase = "locking" /\ q.target = id
  BY <1>1
<1>3. q \in Request
  BY <1>1 DEF Request
<1>4. /\ MayStart(w) /\ call' = [call EXCEPT ![w] = q]
      /\ changes' = changes /\ locks' = locks
  BY <1>1 DEF RollbackRecommendationChange
<1>5. call'[w] = q
  BY <1>4 DEF IInv, TypeOK
<1>6. id \in Rows'
  BY <1>4 DEF RollbackRecommendationChange, Listed, Rows
<1>7. CallOK(w)'
  BY <1>2, <1>5, <1>6 DEF CallOK
<1>8. Room'
  BY <1>3, <1>4, BusyAfter, RoomAtStart
<1> QED BY <1>3, <1>4, <1>7, <1>8, OneCall DEF IInv, TypeOK

(* The answer a worker gives without writing a row. *)
LEMMA AnswerIInv ==
  ASSUME IInv, NEW w \in Busy, NEW code \in Code, NEW id \in Ids \cup {NoRow},
         Answer(w, code, id), changes' = changes,
         locks' \in [Ids -> Workers \cup {NoWorker}],
         \A i \in Ids : locks[i] \in Workers \ {w} => locks'[i] = locks[i],
         code # "applied",
         code \in {"rolled back", "already rolled back"} =>
           IsApply(id) /\ changes[id].status = "rolled_back",
         code = "not found" => id \in Rows /\ changes[id].operation = "rollback"
  PROVE  IInv'
<1>1. PICK q : q = [phase |-> "answered", code |-> code, target |-> id]
  OBVIOUS
<1>2. q.phase = "answered" /\ q.code = code /\ q.target = id
  BY <1>1
<1>3. q \in Request
  BY <1>1 DEF Request
<1>4. w \in Workers /\ call' = [call EXCEPT ![w] = q]
  BY <1>1 DEF Answer, Busy
<1>5. call'[w] = q
  BY <1>4 DEF IInv, TypeOK
<1>6. CallOK(w)'
  BY <1>2, <1>5, RowsKept DEF CallOK
<1>7. Room'
  <2>1. Busy' \subseteq Busy \ {w}
    BY <1>2, <1>3, <1>4, BusyAfter
  <2>2. FreeIds' = FreeIds /\ FreeIds \subseteq Ids
    BY RowsKept DEF FreeIds
  <2>3. Room
    BY DEF IInv
  <2> QED BY <2>1, <2>2, <2>3, RoomAtEnd
<1> QED BY <1>3, <1>4, <1>6, <1>7, OneCall

LEMMA CreateFailsIInv ==
  ASSUME IInv, NEW w \in Workers, CreateFails(w)
  PROVE  IInv'
<1>1. w \in Busy
  BY IdleFacts DEF CreateFails
<1>2. "unavailable" \in Code
  BY DEF Code
<1> QED BY <1>1, <1>2, AnswerIInv DEF CreateFails, IInv, TypeOK

LEMMA AbortIInv ==
  ASSUME IInv, NEW w \in Workers, Abort(w)
  PROVE  IInv'
<1>1. w \in Busy /\ "unavailable" \in Code
  BY IdleFacts DEF Abort, Code
<1>2. locks' = [i \in Ids |-> IF locks[i] = w THEN NoWorker ELSE locks[i]]
  BY DEF Abort
<1>3. /\ locks' \in [Ids -> Workers \cup {NoWorker}]
      /\ \A i \in Ids : locks[i] \in Workers \ {w} => locks'[i] = locks[i]
  BY <1>2 DEF IInv, TypeOK
<1>4. call[w].target \in Ids
  <2>1. CallOK(w) /\ call[w].phase \in {"locking", "selected"}
    BY DEF IInv, Abort
  <2>2. call[w].target \in Rows
    BY <2>1 DEF CallOK
  <2> QED BY <2>2 DEF Rows
<1>5. Answer(w, "unavailable", call[w].target) /\ changes' = changes
  BY DEF Abort
<1> QED BY <1>1, <1>3, <1>4, <1>5, AnswerIInv

LEMMA SelectIInv ==
  ASSUME IInv, NEW w \in Workers, SelectForUpdate(w)
  PROVE  IInv'
<1>1. PICK id : id = call[w].target
  OBVIOUS
<1>2. id \in Rows /\ id \in Ids
  <2>1. CallOK(w) /\ call[w].phase = "locking"
    BY DEF IInv, SelectForUpdate
  <2> QED BY <1>1, <2>1 DEF CallOK, Rows
<1>3. changes[id] \in Row
  BY <1>2 DEF IInv, TypeOK, Rows
<1>4. w \in Busy /\ changes' = changes
  BY IdleFacts DEF SelectForUpdate
<1>5. locks \in [Ids -> Workers \cup {NoWorker}]
  BY DEF IInv, TypeOK
<1>6. CASE /\ changes[id].operation # "apply"
           /\ Answer(w, "not found", id)
           /\ UNCHANGED locks
  <2>1. changes[id].operation = "rollback"
    BY <1>3, <1>6 DEF Row
  <2>2. "not found" \in Code
    BY DEF Code
  <2> QED BY <1>2, <1>4, <1>5, <1>6, <2>1, <2>2, AnswerIInv
<1>7. CASE /\ changes[id].operation = "apply"
           /\ changes[id].status = "rolled_back"
           /\ Answer(w, "already rolled back", id)
           /\ UNCHANGED locks
  <2>1. IsApply(id)
    BY <1>2, <1>7 DEF IsApply
  <2>2. "already rolled back" \in Code
    BY DEF Code
  <2> QED BY <1>2, <1>4, <1>5, <1>7, <2>1, <2>2, AnswerIInv
<1>8. CASE /\ changes[id].operation = "apply"
           /\ locks[id] = NoWorker
           /\ changes[id].status # "rolled_back"
           /\ locks' = [locks EXCEPT ![id] = w]
           /\ call' = [call EXCEPT ![w] = [phase |-> "selected", target |-> id,
                                           row |-> changes[id]]]
  <2>1. PICK q : q = [phase |-> "selected", target |-> id, row |-> changes[id]]
    OBVIOUS
  <2>2. q.phase = "selected" /\ q.target = id /\ q.row = changes[id]
    BY <2>1
  <2>3. q \in Request
    BY <1>2, <1>3, <2>1 DEF Request
  <2>4. call' = [call EXCEPT ![w] = q]
    BY <1>8, <2>1
  <2>5. call'[w] = q
    BY <2>4 DEF IInv, TypeOK
  <2>6. changes[id].status = "applied"
    BY <1>3, <1>8 DEF Row
  <2>7. /\ locks' \in [Ids -> Workers \cup {NoWorker}] /\ locks'[id] = w
        /\ \A i \in Ids : locks[i] \in Workers \ {w} => locks'[i] = locks[i]
    BY <1>2, <1>5, <1>8, IdsAssumption
  <2>8. CallOK(w)'
    BY <1>2, <1>4, <1>8, <2>2, <2>5, <2>6, <2>7, RowsKept DEF CallOK
  <2>9. Room'
    <3>1. Busy' \subseteq Busy
      BY <1>4, <2>3, <2>4, BusyAfter
    <3>2. Cardinality(Busy') <= Cardinality(Busy) /\ Cardinality(Busy') \in Nat
      BY <3>1, RoomFacts, FS_Subset, FS_CardinalityType
    <3>3. FreeIds' = FreeIds
      BY <1>4, RowsKept
    <3> QED BY <3>2, <3>3, RoomFacts DEF IInv, Room
  <2> QED BY <1>4, <2>3, <2>4, <2>7, <2>8, <2>9, OneCall
<1> QED BY <1>1, <1>6, <1>7, <1>8 DEF SelectForUpdate

LEMMA CrashIInv ==
  ASSUME IInv, Crash
  PROVE  IInv'
<1>1. /\ call' = [w \in Workers |-> Idle] /\ changes' = changes
      /\ locks' = [i \in Ids |-> NoWorker]
  BY DEF Crash
<1>2. TypeOK'
  BY <1>1 DEF IInv, TypeOK, Request
<1>3. \A i \in Rows' : RowOK(i)'
  BY <1>1, RowsKept
<1>4. \A w \in Workers : call'[w].phase = "idle"
  BY <1>1 DEF Idle
<1>5. \A w \in Workers : CallOK(w)'
  BY <1>4 DEF CallOK
<1>6. Busy' = {}
  BY <1>4 DEF Busy, Available
<1>7. Room'
  <2>1. Cardinality(Busy') = 0
    BY <1>6, FS_EmptySet
  <2>2. FreeIds' = FreeIds
    BY <1>1, RowsKept
  <2> QED BY <2>1, <2>2, RoomFacts DEF Room
<1> QED BY <1>2, <1>3, <1>5, <1>7 DEF IInv
-----------------------------------------------------------------------------
LEMMA ReportFacts ==
  ASSUME NEW m \in Miners, NEW r \in Reports[m]
  PROVE  /\ r \in Report /\ r.recommendations \in Seq(Recommendation)
         /\ r.impact \in Impact /\ Complete(r.recommendations)
         /\ \A i \in DOMAIN r.recommendations :
              r.recommendations[i].suggested.unit \in {"%", "mV"}
<1>1. r \in Report
  BY ReportsAssumption
<1> QED BY <1>1, ReportsAssumption DEF Report, Complete

(* The row that an apply writes. *)
LEMMA ApplyRowFacts ==
  ASSUME NEW m \in Miners, NEW r \in Reports[m], NEW row, row = ApplyRow(m, r)
  PROVE  /\ row \in Row
         /\ row.operation = "apply" /\ row.status = "applied"
         /\ row.parent = NoRow /\ row.supersededBy = NoRow
         /\ row.miner = m /\ row.recommendations = r.recommendations
<1>1. r.recommendations \in Seq(Recommendation) /\ r.impact \in Impact
  BY ReportFacts
<1> QED BY <1>1 DEF ApplyRow, Row

(* What a worker that has its report is about to write. *)
LEMMA CreateFacts ==
  ASSUME IInv, NEW w \in Workers, call[w].phase = "reported"
  PROVE  /\ w \in Busy /\ FreeIds # {}
         /\ call[w].miner \in Miners /\ call[w].report \in Reports[call[w].miner]
<1>1. w \in Busy
  BY IdleFacts
<1>2. FreeIds # {}
  BY <1>1, BusyHasRoom
<1>3. call[w] \in Request /\ CallOK(w)
  BY IdleFacts DEF IInv
<1>4. call[w].miner \in Miners
  BY <1>3 DEF Request, Idle
<1> QED BY <1>1, <1>2, <1>3, <1>4 DEF CallOK

LEMMA CreateIInv ==
  ASSUME IInv, NEW w \in Workers, CreateRecommendationChange(w)
  PROVE  IInv'
<1>0. PICK m \in Miners : m = call[w].miner
  BY CreateFacts DEF CreateRecommendationChange
<1>1. PICK r \in Reports[m] : r = call[w].report
  BY <1>0, CreateFacts DEF CreateRecommendationChange
<1>2. PICK new : new = FreshId
  OBVIOUS
<1>3. PICK row : row = ApplyRow(m, r)
  OBVIOUS
<1>4. /\ row \in Row
      /\ row.operation = "apply" /\ row.status = "applied"
      /\ row.parent = NoRow /\ row.supersededBy = NoRow
      /\ row.miner = m /\ row.recommendations = r.recommendations
  BY <1>3, ApplyRowFacts
<1>5. w \in Busy /\ new \in Ids /\ changes[new] = NoRow
  BY <1>2, CreateFacts, FreshFacts DEF CreateRecommendationChange
<1>6. /\ changes' = [changes EXCEPT ![new] = row] /\ locks' = locks
      /\ Answer(w, "applied", new) \/ Answer(w, "unavailable", NoRow)
  BY <1>0, <1>1, <1>2, <1>3 DEF CreateRecommendationChange
<1>7. row # NoRow
  BY <1>4, IdsAssumption
<1>8. /\ changes' \in [Ids -> Row \cup {NoRow}] /\ changes'[new] = row
      /\ \A i \in Ids : i # new => changes'[i] = changes[i]
  BY <1>4, <1>5, <1>6 DEF IInv, TypeOK
<1>9. Rows' = Rows \cup {new} /\ new \notin Rows
  BY <1>5, <1>7, <1>8 DEF Rows
<1>10. PICK code \in Code, id \in Ids \cup {NoRow} :
         /\ Answer(w, code, id) /\ code \in {"applied", "unavailable"}
         /\ code = "applied" => id = new
  BY <1>5, <1>6 DEF Code
<1>11. PICK q : q = [phase |-> "answered", code |-> code, target |-> id]
  OBVIOUS
<1>12. q.phase = "answered" /\ q.code = code /\ q.target = id /\ q \in Request
  BY <1>11 DEF Request
<1>13. call' = [call EXCEPT ![w] = q]
  BY <1>10, <1>11 DEF Answer
<1>14. TypeOK'
  <2>1. \A i \in Ids : changes'[i] # NoRow =>
          (changes'[i].operation = "apply" <=> changes'[i].parent = NoRow)
    BY <1>4, <1>8 DEF IInv, TypeOK
  <2>2. call' \in [Workers -> Request]
    BY <1>12, <1>13 DEF IInv, TypeOK
  <2> QED BY <1>6, <1>8, <2>1, <2>2 DEF IInv, TypeOK
<1>15. ASSUME NEW i \in Rows' PROVE RowOK(i)'
  <2>1. CASE i = new
    <3>1. Complete(row.recommendations)
      BY <1>4, ReportFacts
    <3>2. Reported(row)
      BY <1>4 DEF Reported
    <3> QED BY <1>4, <1>8, <2>1, <3>1, <3>2 DEF RowOK
  <2>2. CASE i # new
    <3>1. i \in Rows /\ RowOK(i) /\ changes'[i] = changes[i]
      BY <1>8, <1>9, <2>2 DEF IInv, Rows
    <3>2. \A j \in Rows : changes'[j] = changes[j] /\ j \in Rows'
      BY <1>8, <1>9 DEF Rows
    <3>3. Rows \subseteq Rows'
      BY <1>9
    <3> QED BY <3>1, <3>2, <3>3 DEF RowOK, Undoes
  <2> QED BY <2>1, <2>2
<1>16. ASSUME NEW v \in Workers PROVE CallOK(v)'
  <2>1. CASE v = w
    <3>1. call'[v] = q
      BY <1>13, <2>1 DEF IInv, TypeOK
    <3>2. IsApply(new)'
      BY <1>4, <1>8, <1>9 DEF IsApply
    <3> QED BY <1>10, <1>12, <3>1, <3>2 DEF CallOK
  <2>2. CASE v # w
    <3>1. CallOK(v) /\ call'[v] = call[v]
      BY <1>13, <2>2 DEF IInv, TypeOK
    <3>2. \A j \in Rows : changes'[j] = changes[j] /\ j \in Rows'
      BY <1>8, <1>9 DEF Rows
    <3> QED BY <1>6, <3>1, <3>2, CallKept
  <2> QED BY <2>1, <2>2
<1>17. Room'
  <2>1. Busy' \subseteq Busy \ {w}
    BY <1>12, <1>13, BusyAfter
  <2>2. FreeIds \ {new} \subseteq FreeIds' /\ FreeIds' \subseteq Ids
    BY <1>8 DEF FreeIds
  <2> QED BY <1>5, <2>1, <2>2, RoomAtEnd DEF IInv
<1> QED BY <1>14, <1>15, <1>16, <1>17 DEF IInv
-----------------------------------------------------------------------------
LEMMA InverseImpact ==
  ASSUME NEW impact \in Impact
  PROVE  /\ InvertImpactEstimate(impact) \in Impact
         /\ InvertImpactEstimate(impact).before = impact.after
         /\ InvertImpactEstimate(impact).after = impact.before
<1>1. PICK delta \in Estimate : delta = impact.delta
  BY DEF Impact
<1>2. PICK opposite : opposite = [k \in DOMAIN delta |-> -delta[k]]
  OBVIOUS
<1>3. opposite \in Estimate
  <2>1. /\ DOMAIN delta = {"hash", "power", "temp", "fan", "compensated"}
        /\ \A k \in DOMAIN delta : delta[k] \in Int
    BY DEF Estimate
  <2>2. \A k \in DOMAIN delta : -delta[k] \in Int
    BY <2>1
  <2>3. /\ DOMAIN opposite = {"hash", "power", "temp", "fan", "compensated"}
        /\ \A k \in {"hash", "power", "temp", "fan", "compensated"} :
             opposite[k] \in Int
    BY <1>2, <2>1, <2>2
  <2>4. opposite = [hash |-> opposite["hash"], power |-> opposite["power"],
                    temp |-> opposite["temp"], fan |-> opposite["fan"],
                    compensated |-> opposite["compensated"]]
    BY <1>2, <2>3
  <2> QED BY <2>3, <2>4 DEF Estimate
<1>4. InvertImpactEstimate(impact) =
        [impact EXCEPT !.before = impact.after, !.after = impact.before,
                       !.delta = opposite]
  BY <1>1, <1>2 DEF InvertImpactEstimate
<1> QED BY <1>3, <1>4 DEF Impact

(* The row that a rollback writes for a target that an apply wrote. *)
LEMMA RollbackRowFacts ==
  ASSUME NEW target \in Row, NEW id \in Ids, Reported(target),
         NEW row, row = RollbackRow(target, id)
  PROVE  /\ row \in Row
         /\ row.operation = "rollback" /\ row.status = "applied"
         /\ row.parent = id /\ row.supersededBy = NoRow
         /\ row.miner = target.miner
         /\ row.impact.before = target.impact.after
         /\ row.impact.after = target.impact.before
         /\ Complete(row.recommendations)
         /\ \A p \in Parameters :
              Amount(row.recommendations, p) = -Amount(target.recommendations, p)
<1>1. /\ target.miner \in Miners /\ target.impact \in Impact
      /\ target.recommendations \in Seq(Recommendation)
  BY DEF Row
<1>2. PICK recs \in Seq(Recommendation) :
        /\ recs = target.recommendations /\ Complete(recs)
        /\ \A i \in DOMAIN recs : recs[i].suggested.unit \in {"%", "mV"}
  <2>1. PICK r \in Reports[target.miner] : target.recommendations = r.recommendations
    BY DEF Reported
  <2> QED BY <1>1, <2>1, ReportFacts
<1>3. PICK inverse : inverse = InvertRecommendations(recs)
  OBVIOUS
<1>4. /\ inverse \in Seq(Recommendation) /\ Complete(inverse)
      /\ \A p \in Parameters : Amount(inverse, p) = -Amount(recs, p)
  <2>1. \A p \in Parameters :
          /\ inverse \in Seq(Recommendation) /\ Complete(inverse)
          /\ Amount(inverse, p) = -Amount(recs, p)
    BY <1>2, <1>3, AmountInverted
  <2>2. "fan" \in Parameters
    BY DEF Parameters
  <2> QED BY <2>1, <2>2
<1>5. PICK impact \in Impact :
        /\ impact = InvertImpactEstimate(target.impact)
        /\ impact.before = target.impact.after
        /\ impact.after = target.impact.before
  BY <1>1, InverseImpact
<1>6. row = [operation |-> "rollback", status |-> "applied", parent |-> id,
             supersededBy |-> NoRow, miner |-> target.miner,
             recommendations |-> inverse, impact |-> impact]
  BY <1>2, <1>3, <1>5 DEF RollbackRow
<1>7. /\ row \in Row
      /\ row.operation = "rollback" /\ row.status = "applied"
      /\ row.parent = id /\ row.supersededBy = NoRow
      /\ row.miner = target.miner
      /\ row.recommendations = inverse /\ row.impact = impact
  BY <1>1, <1>4, <1>6 DEF Row
<1> QED BY <1>2, <1>4, <1>5, <1>7

(* The target of a rollback, once it is marked. *)
LEMMA MarkedFacts ==
  ASSUME NEW target \in Row, NEW new \in Ids,
         NEW row, row = [target EXCEPT !.status = "rolled_back", !.supersededBy = new]
  PROVE  /\ row \in Row /\ row.status = "rolled_back" /\ row.supersededBy = new
         /\ row.operation = target.operation /\ row.parent = target.parent
         /\ row.miner = target.miner /\ row.impact = target.impact
         /\ row.recommendations = target.recommendations
BY DEF Row

(* What a commit finds and writes. *)
Committed(w, id, new, target, inverse, marked) ==
  /\ id = call[w].target /\ target = changes[id]
  /\ target.operation = "apply" /\ target.status = "applied"
  /\ Reported(target)
  /\ new = FreshId /\ changes[new] = NoRow /\ new # id
  /\ inverse = RollbackRow(target, id)
  /\ marked = [target EXCEPT !.status = "rolled_back", !.supersededBy = new]
  /\ changes'[new] = inverse /\ changes'[id] = marked
  /\ \A i \in Ids : i # new /\ i # id => changes'[i] = changes[i]
  /\ changes' \in [Ids -> Row \cup {NoRow}]
  /\ locks[id] = w /\ locks' = [locks EXCEPT ![id] = NoWorker]
  /\ Rows' = Rows \cup {new} /\ w \in Busy

LEMMA CommitFacts ==
  ASSUME IInv, NEW w \in Workers, Commit(w)
  PROVE  \E id \in Rows, new \in Ids, target \in Row, inverse \in Row,
           marked \in Row : Committed(w, id, new, target, inverse, marked)
<1>1. call[w].phase = "selected" /\ CallOK(w)
  BY DEF IInv, Commit
<1>2. PICK id \in Rows :
        /\ id = call[w].target /\ call[w].row = changes[id] /\ locks[id] = w
        /\ changes[id].operation = "apply" /\ changes[id].status = "applied"
  BY <1>1 DEF CallOK
<1>3. id \in Ids /\ changes[id] # NoRow /\ RowOK(id)
  BY DEF Rows, IInv
<1>4. PICK target \in Row : target = changes[id]
  BY <1>3 DEF IInv, TypeOK
<1>5. Reported(target)
  BY <1>2, <1>3, <1>4 DEF RowOK
<1>6. w \in Busy
  BY <1>1, IdleFacts
<1>7. PICK new \in Ids : new = FreshId /\ changes[new] = NoRow
  BY <1>6, BusyHasRoom, FreshFacts
<1>8. PICK inverse \in Row : inverse = RollbackRow(target, id)
  BY <1>3, <1>5, RollbackRowFacts
<1>9. PICK marked \in Row :
        marked = [target EXCEPT !.status = "rolled_back", !.supersededBy = new]
  BY MarkedFacts
<1>10. changes' = [changes EXCEPT ![new] = inverse, ![id] = marked]
  BY <1>2, <1>4, <1>7, <1>8, <1>9 DEF Commit
<1>11. changes \in [Ids -> Row \cup {NoRow}]
  BY DEF IInv, TypeOK
<1>12. /\ changes' \in [Ids -> Row \cup {NoRow}]
       /\ changes'[new] = inverse /\ changes'[id] = marked
       /\ \A i \in Ids : i # new /\ i # id => changes'[i] = changes[i]
  BY <1>3, <1>7, <1>10, <1>11
<1>13. inverse # NoRow /\ marked # NoRow
  BY IdsAssumption
<1>14. Rows' = Rows \cup {new}
  BY <1>3, <1>7, <1>12, <1>13 DEF Rows
<1>15. locks' = [locks EXCEPT ![id] = NoWorker]
  BY <1>2 DEF Commit
<1>16. Committed(w, id, new, target, inverse, marked)
  BY <1>2, <1>3, <1>4, <1>5, <1>6, <1>7, <1>8, <1>9, <1>12, <1>14, <1>15
     DEF Committed
<1> QED BY <1>16

LEMMA CommitIInv ==
  ASSUME IInv, NEW w \in Workers, Commit(w)
  PROVE  IInv'
<1>0. PICK id \in Rows, new \in Ids, target \in Row, inverse \in Row,
           marked \in Row : Committed(w, id, new, target, inverse, marked)
  BY CommitFacts
<1>1. /\ id = call[w].target /\ target = changes[id]
      /\ target.operation = "apply" /\ target.status = "applied"
      /\ Reported(target)
      /\ new = FreshId /\ changes[new] = NoRow /\ new # id
      /\ inverse = RollbackRow(target, id)
      /\ marked = [target EXCEPT !.status = "rolled_back", !.supersededBy = new]
      /\ changes'[new] = inverse /\ changes'[id] = marked
      /\ \A i \in Ids : i # new /\ i # id => changes'[i] = changes[i]
      /\ changes' \in [Ids -> Row \cup {NoRow}]
      /\ locks[id] = w /\ locks' = [locks EXCEPT ![id] = NoWorker]
      /\ Rows' = Rows \cup {new} /\ w \in Busy
  BY <1>0 DEF Committed
<1>1a. /\ target = changes[id]
       /\ target.operation = "apply" /\ target.status = "applied"
       /\ Reported(target)
       /\ changes[new] = NoRow /\ new # id
       /\ changes'[new] = inverse /\ changes'[id] = marked
       /\ \A i \in Ids : i # new /\ i # id => changes'[i] = changes[i]
       /\ Rows' = Rows \cup {new}
  BY <1>1
<1>2. id \in Ids /\ RowOK(id) /\ Rows \subseteq Ids /\ new \notin Rows
  BY <1>1 DEF Rows, IInv
<1>3. /\ inverse.operation = "rollback" /\ inverse.status = "applied"
      /\ inverse.parent = id /\ inverse.supersededBy = NoRow
      /\ inverse.miner = target.miner
      /\ inverse.impact.before = target.impact.after
      /\ inverse.impact.after = target.impact.before
      /\ Complete(inverse.recommendations)
  BY <1>1, <1>2, RollbackRowFacts
<1>4. /\ marked.status = "rolled_back" /\ marked.supersededBy = new
      /\ marked.operation = target.operation /\ marked.parent = target.parent
      /\ marked.miner = target.miner /\ marked.impact = target.impact
      /\ marked.recommendations = target.recommendations
  <2>1. marked = [target EXCEPT !.status = "rolled_back", !.supersededBy = new]
    BY <1>1
  <2> QED BY <2>1 DEF Row
<1>5. PICK code \in Code :
        /\ Answer(w, code, id) /\ code \in {"rolled back", "unavailable"}
  BY <1>1 DEF Commit, Code
<1>6. PICK q : q = [phase |-> "answered", code |-> code, target |-> id]
  OBVIOUS
<1>7. q.phase = "answered" /\ q.code = code /\ q.target = id /\ q \in Request
  BY <1>2, <1>6 DEF Request
<1>8. call' = [call EXCEPT ![w] = q]
  BY <1>5, <1>6 DEF Answer
<1>9. TypeOK'
  <2>1. ASSUME NEW i \in Ids, changes'[i] # NoRow
        PROVE  changes'[i].operation = "apply" <=> changes'[i].parent = NoRow
    <3>1. CASE i = new
      BY <1>1a, <1>2, <1>3, <3>1, IdsAssumption
    <3>2. CASE i = id
      BY <1>1a, <1>2, <1>4, <3>2 DEF IInv, TypeOK, Rows
    <3>3. CASE i # new /\ i # id
      BY <1>1a, <2>1, <3>3 DEF IInv, TypeOK
    <3> QED BY <3>1, <3>2, <3>3
  <2>2. call' \in [Workers -> Request]
    BY <1>7, <1>8 DEF IInv, TypeOK
  <2>3. locks' \in [Ids -> Workers \cup {NoWorker}]
    BY <1>1 DEF IInv, TypeOK
  <2> QED BY <1>1, <2>1, <2>2, <2>3 DEF TypeOK
<1>10. ASSUME NEW i \in Rows' PROVE RowOK(i)'
  <2>1. CASE i = new
    <3>1. changes'[id].supersededBy = new /\ id \in Rows'
      BY <1>1a, <1>4
    <3>2. /\ Complete(changes'[new].recommendations)
          /\ changes'[new].operation = "rollback"
          /\ changes'[new].status = "applied"
          /\ changes'[new].supersededBy = NoRow /\ changes'[new].parent = id
      BY <1>1a, <1>3
    <3>3. RowOK(new)'
      BY <3>1, <3>2 DEF RowOK
    <3> QED BY <2>1, <3>3
  <2>2. CASE i = id
    <3>1. Complete(marked.recommendations) /\ Reported(marked)
      BY <1>1a, <1>2, <1>4 DEF RowOK, Reported
    <3>3. new \in Rows'
      BY <1>1a
    <3>4. /\ Complete(changes'[id].recommendations) /\ Reported(changes'[id])
          /\ changes'[id].operation = "apply"
          /\ changes'[id].status = "rolled_back"
          /\ changes'[id].supersededBy = new
      BY <1>1a, <1>4, <3>1 DEF Reported
    <3>5. /\ changes'[new].parent = id
          /\ changes'[new].miner = changes'[id].miner
          /\ changes'[new].impact.before = changes'[id].impact.after
          /\ changes'[new].impact.after = changes'[id].impact.before
      BY <1>1a, <1>3, <1>4
    <3>6. RowOK(id)'
      BY <3>3, <3>4, <3>5 DEF RowOK, Reported, Undoes
    <3> QED BY <2>2, <3>6
  <2>3. CASE i # new /\ i # id
    <3>1. i \in Rows /\ i \in Ids /\ RowOK(i) /\ changes'[i] = changes[i]
      BY <1>1a, <1>2, <2>3 DEF IInv
    <3>2. changes[i] \in Row
      BY <3>1 DEF Rows, IInv, TypeOK
    <3>3. ASSUME changes[i].status = "rolled_back"
          PROVE  /\ changes[i].supersededBy \in Rows'
                 /\ Undoes(changes[changes[i].supersededBy], i)'
      <4>1. PICK j \in Rows : j = changes[i].supersededBy /\ Undoes(changes[j], i)
        BY <3>1, <3>3 DEF RowOK
      <4>2. changes[j].parent = i
        BY <4>1 DEF Undoes
      <4>3. changes[id].parent = NoRow /\ i # NoRow
        BY <1>1a, <1>2, <3>1, IdsAssumption DEF IInv, TypeOK, Rows
      <4>4. j # id /\ j # new /\ j \in Ids
        BY <1>2, <4>2, <4>3
      <4>5. changes'[j] = changes[j]
        BY <1>1a, <4>4
      <4> QED BY <1>1a, <3>1, <4>1, <4>5 DEF Undoes
    <3>4. ASSUME changes[i].operation = "rollback"
          PROVE  /\ changes[i].parent \in Rows'
                 /\ changes'[changes[i].parent].supersededBy = i
      <4>1. PICK j \in Rows : j = changes[i].parent /\ changes[j].supersededBy = i
        BY <3>1, <3>4 DEF RowOK
      <4>2. changes[id].supersededBy = NoRow /\ i # NoRow
        BY <1>1a, <1>2, <3>1, IdsAssumption DEF RowOK
      <4>3. j # id /\ j # new /\ j \in Ids
        BY <1>2, <4>1, <4>2
      <4>4. changes'[j] = changes[j]
        BY <1>1a, <4>3
      <4> QED BY <1>1a, <4>1, <4>4
    <3> QED BY <3>1, <3>3, <3>4 DEF RowOK
  <2> QED BY <2>1, <2>2, <2>3
<1>11. ASSUME NEW v \in Workers PROVE CallOK(v)'
  <2>1. CASE v = w
    <3>1. call'[v] = q
      BY <1>8, <2>1 DEF IInv, TypeOK
    <3>2. IsApply(id)' /\ changes'[id].status = "rolled_back"
      BY <1>1, <1>4 DEF IsApply
    <3> QED BY <1>5, <1>7, <3>1, <3>2 DEF CallOK
  <2>2. CASE v # w
    <3>1. CallOK(v) /\ call'[v] = call[v]
      BY <1>8, <2>2 DEF IInv, TypeOK
    <3>2. ASSUME NEW i \in Rows
          PROVE  /\ i \in Rows'
                 /\ changes'[i].operation = changes[i].operation
                 /\ changes[i].status = "rolled_back" =>
                      changes'[i].status = "rolled_back"
      <4>1. CASE i = id
        BY <1>1, <1>4, <4>1
      <4>2. CASE i # id
        BY <1>1, <1>2, <4>2
      <4> QED BY <4>1, <4>2
    <3>3. ASSUME NEW i \in Rows, locks[i] = v
          PROVE  changes'[i] = changes[i] /\ locks'[i] = v
      <4>1. i # id /\ i # new /\ i \in Ids
        BY <1>1, <1>2, <2>2, <3>3
      <4> QED BY <1>1, <3>3, <4>1 DEF IInv, TypeOK
    <3> QED BY <3>1, <3>2, <3>3, CallKept
  <2> QED BY <2>1, <2>2
<1>12. Room'
  <2>1. Busy' \subseteq Busy \ {w}
    BY <1>7, <1>8, BusyAfter
  <2>2. FreeIds \ {new} \subseteq FreeIds' /\ FreeIds' \subseteq Ids
    <3>1. \A i \in FreeIds : i \in Ids /\ i # id
      BY <1>2, <1>1 DEF FreeIds, Rows
    <3> QED BY <1>1, <3>1 DEF FreeIds
  <2> QED BY <1>1, <2>1, <2>2, RoomAtEnd DEF IInv
<1> QED BY <1>9, <1>10, <1>11, <1>12 DEF IInv

LEMMA StutterIInv ==
  ASSUME IInv, UNCHANGED vars
  PROVE  IInv'
<1>1. changes' = changes /\ locks' = locks /\ call' = call
  BY DEF vars
<1>2. TypeOK'
  BY <1>1 DEF IInv, TypeOK
<1>3. \A w \in Workers : CallOK(w)'
  BY <1>1, CallKept, RowsKept DEF IInv
<1>4. Busy' = Busy
  BY <1>1 DEF Busy, Available
<1>5. Room'
  BY <1>1, <1>4, RowsKept DEF IInv, Room
<1> QED BY <1>1, <1>2, <1>3, <1>5, RowsKept DEF IInv

LEMMA NextIInv == IInv /\ [Next]_vars => IInv'
<1> SUFFICES ASSUME IInv, [Next]_vars PROVE IInv'
  OBVIOUS
<1>1. CASE \E w \in Workers, m \in Miners : \E r \in Reports[m] :
             ApplyRecommendationChange(w, m, r)
  BY <1>1, ApplyIInv
<1>2. CASE \E w \in Workers, id \in Ids : RollbackRecommendationChange(w, id)
  BY <1>2, RollbackIInv
<1>3. ASSUME NEW w \in Workers, Step(w) PROVE IInv'
  BY <1>3, CreateIInv, SelectIInv, CommitIInv DEF Step
<1>4. ASSUME NEW w \in Workers, Fail(w) PROVE IInv'
  BY <1>4, CreateFailsIInv, AbortIInv DEF Fail
<1>5. CASE Crash
  BY <1>5, CrashIInv
<1>6. CASE UNCHANGED vars
  BY <1>6, StutterIInv
<1> QED BY <1>1, <1>2, <1>3, <1>4, <1>5, <1>6 DEF Next

LEMMA IInvHolds == Spec => []IInv
BY InitIInv, NextIInv, PTL DEF Spec
-----------------------------------------------------------------------------
(* The rows of recommendation_changes, their locks and the requests keep   *)
(* their types; exactly the rollbacks name a row that they undo.           *)
THEOREM TypeCorrect == Spec => []TypeOK
BY IInvHolds, PTL DEF IInv

(* A change is rolled back by exactly the row it names as its successor,   *)
(* which undoes the same miner's snapshots; a change in force, and a       *)
(* rollback, has none: no two rollbacks of one change both commit.         *)
THEOREM RollbackLinksAgreeHolds == Spec => []RollbackLinksAgree
<1>1. IInv => RollbackLinksAgree
  <2> SUFFICES ASSUME IInv, NEW i \in Rows
               PROVE  /\ changes[i].status = "rolled_back" =>
                           /\ IsApply(i)
                           /\ Children(i) = {changes[i].supersededBy}
                           /\ changes[changes[i].supersededBy].miner = changes[i].miner
                           /\ changes[changes[i].supersededBy].impact.before =
                                changes[i].impact.after
                           /\ changes[changes[i].supersededBy].impact.after =
                                changes[i].impact.before
                      /\ changes[i].status = "applied" =>
                           Children(i) = {} /\ changes[i].supersededBy = NoRow
    BY DEF RollbackLinksAgree
  <2>1. RowOK(i) /\ i \in Ids /\ i # NoRow
    BY IdsAssumption DEF IInv, Rows
  <2>2. ASSUME NEW j \in Rows, changes[j].parent = i
        PROVE  changes[i].supersededBy = j
    <3>1. j \in Ids /\ changes[j] \in Row /\ RowOK(j)
      BY DEF Rows, IInv, TypeOK
    <3>2. changes[j].operation # "apply"
      BY <2>1, <2>2, <3>1 DEF IInv, TypeOK, Rows
    <3>3. changes[j].operation = "rollback"
      BY <3>1, <3>2 DEF Row
    <3> QED BY <2>2, <3>1, <3>3 DEF RowOK
  <2>3. ASSUME changes[i].status = "rolled_back"
        PROVE  /\ IsApply(i)
               /\ Children(i) = {changes[i].supersededBy}
               /\ Undoes(changes[changes[i].supersededBy], i)
    BY <2>1, <2>2, <2>3 DEF RowOK, IsApply, Children, Undoes
  <2>4. ASSUME changes[i].status = "applied"
        PROVE  Children(i) = {} /\ changes[i].supersededBy = NoRow
    <3>1. changes[i].supersededBy = NoRow
      BY <2>1, <2>4 DEF RowOK
    <3>2. \A j \in Rows : j # NoRow
      BY IdsAssumption DEF Rows
    <3> QED BY <2>2, <3>1, <3>2 DEF Children
  <2> QED BY <2>3, <2>4 DEF Undoes
<1> QED BY <1>1, IInvHolds, PTL

(* What the API answered about a change stays true of the log, whatever    *)
(* other requests, failed commits and restarts follow.                     *)
THEOREM AnswersAreTrueHolds == Spec => []AnswersAreTrue
<1>1. IInv => AnswersAreTrue
  <2> SUFFICES ASSUME IInv, NEW w \in Workers, call[w].phase = "answered"
               PROVE  LET id == call[w].target
                      IN  CASE call[w].code = "applied" -> IsApply(id)
                            [] call[w].code \in {"rolled back", "already rolled back"} ->
                                 IsApply(id) /\ changes[id].status = "rolled_back"
                            [] call[w].code = "not found" -> ~ IsApply(id)
                            [] OTHER -> TRUE
    BY DEF AnswersAreTrue
  <2>1. CallOK(w)
    BY DEF IInv
  <2> QED BY <2>1 DEF CallOK, IsApply
<1> QED BY <1>1, IInvHolds, PTL
-----------------------------------------------------------------------------
(* The refinement.  What each row adds to a parameter of a miner; the      *)
(* setpoint is the sum.                                                    *)
Log ==
  [i \in Ids |->
     IF IsApply(i)
     THEN [miner |-> changes[i].miner,
           adjustment |-> AdjustmentOf(changes[i].recommendations),
           undone |-> changes[i].status = "rolled_back"]
     ELSE NoRow]

Setpoint == [m \in Miners |-> SetpointOf(m)]

Moved(m, p) ==
  [i \in Ids |-> IF i \in Rows /\ changes[i].miner = m
                 THEN Amount(changes[i].recommendations, p) ELSE 0]

LEMMA MovedFacts ==
  ASSUME IInv, NEW m, NEW p \in Parameters
  PROVE  /\ SetpointOf(m)[p] = SumFunctionOnSet(Moved(m, p), Ids)
         /\ \A i \in Ids : Moved(m, p)[i] \in Int
         /\ SetpointOf(m)[p] \in Int
<1>1. SetpointOf(m)[p] = SumFunctionOnSet(Moved(m, p), Ids)
  BY DEF SetpointOf, Moved
<1>2. ASSUME NEW i \in Rows PROVE Amount(changes[i].recommendations, p) \in Int
  <2>1. changes[i] \in Row /\ RowOK(i)
    BY DEF IInv, TypeOK, Rows
  <2>2. changes[i].recommendations \in Seq(Recommendation)
    BY <2>1 DEF Row
  <2> QED BY <2>1, <2>2, AmountIsInt DEF RowOK
<1>3. \A i \in Ids : Moved(m, p)[i] \in Int
  BY <1>2 DEF Moved
<1> QED BY <1>1, <1>3, IdsAssumption, SumIsInt

LEMMA MovedNext ==
  IInv' => (\A m : \A p \in Parameters :
              /\ SetpointOf(m)[p] = SumFunctionOnSet(Moved(m, p), Ids)
              /\ \A i \in Ids : Moved(m, p)[i] \in Int)'
<1>1. IInv => \A m : \A p \in Parameters :
                /\ SetpointOf(m)[p] = SumFunctionOnSet(Moved(m, p), Ids)
                /\ \A i \in Ids : Moved(m, p)[i] \in Int
  BY MovedFacts
<1> QED BY <1>1, PTL

(* A step that writes one new row, and leaves miner and recommendations of *)
(* every other row alone, moves the setpoint of the row's miner only.      *)
LEMMA OneMove ==
  ASSUME IInv, IInv', NEW new \in Ids, changes[new] = NoRow,
         changes'[new] # NoRow,
         \A i \in Ids : i # new =>
           /\ changes'[i] = NoRow <=> changes[i] = NoRow
           /\ changes[i] # NoRow =>
                /\ changes'[i].miner = changes[i].miner
                /\ changes'[i].recommendations = changes[i].recommendations,
         NEW m, NEW p \in Parameters
  PROVE  /\ SetpointOf(m)[p] \in Int
         /\ SetpointOf(m)'[p] =
              SetpointOf(m)[p] +
                (IF changes'[new].miner = m
                 THEN Amount(changes'[new].recommendations, p) ELSE 0)
<1>1. PICK before : before = Moved(m, p)
  OBVIOUS
<1>2. PICK after : after = Moved(m, p)'
  OBVIOUS
<1>3. /\ SetpointOf(m)[p] = SumFunctionOnSet(before, Ids)
      /\ SetpointOf(m)[p] \in Int
      /\ \A i \in Ids : before[i] \in Int
  BY <1>1, MovedFacts
<1>4. /\ SetpointOf(m)'[p] = SumFunctionOnSet(after, Ids)
      /\ \A i \in Ids : after[i] \in Int
  BY <1>2, MovedNext
<1>5. before[new] = 0
  BY <1>1 DEF Moved, Rows
<1>6. after[new] = IF changes'[new].miner = m
                   THEN Amount(changes'[new].recommendations, p) ELSE 0
  BY <1>2 DEF Moved, Rows, Amount
<1>7. ASSUME NEW i \in Ids, i # new PROVE after[i] = before[i]
  <2>1. i \in Rows' <=> i \in Rows
    BY <1>7 DEF Rows
  <2>2. i \in Rows => /\ changes'[i].miner = changes[i].miner
                      /\ changes'[i].recommendations = changes[i].recommendations
    BY <1>7 DEF Rows
  <2>3. before[i] = IF i \in Rows /\ changes[i].miner = m
                    THEN Amount(changes[i].recommendations, p) ELSE 0
    BY <1>1 DEF Moved
  <2>4. after[i] = IF i \in Rows' /\ changes'[i].miner = m
                   THEN Amount(changes'[i].recommendations, p) ELSE 0
    BY <1>2 DEF Moved, Amount
  <2> QED BY <2>1, <2>2, <2>3, <2>4
<1>8. SumFunctionOnSet(after, Ids) =
        SumFunctionOnSet(before, Ids) + (after[new] - before[new])
  BY <1>3, <1>4, <1>7, IdsAssumption, SumChanges
<1>9. PICK a \in Int : a = after[new]
  BY <1>4
<1>10. SetpointOf(m)'[p] = SetpointOf(m)[p] + a
  BY <1>3, <1>4, <1>5, <1>8, <1>9
<1> QED BY <1>3, <1>6, <1>9, <1>10

LEMMA SetpointMoves ==
  ASSUME IInv, IInv', NEW new \in Ids, changes[new] = NoRow,
         changes'[new] # NoRow,
         \A i \in Ids : i # new =>
           /\ changes'[i] = NoRow <=> changes[i] = NoRow
           /\ changes[i] # NoRow =>
                /\ changes'[i].miner = changes[i].miner
                /\ changes'[i].recommendations = changes[i].recommendations,
         NEW m \in Miners, changes'[new].miner = m
  PROVE  Setpoint' = [Setpoint EXCEPT ![m] =
           [p \in Parameters |->
              @[p] + Amount(changes'[new].recommendations, p)]]
<1>1. PICK recs : recs = changes'[new].recommendations
  OBVIOUS
<1>2. ASSUME NEW n \in Miners, NEW p \in Parameters
      PROVE  /\ SetpointOf(n)[p] \in Int
             /\ SetpointOf(n)'[p] =
                  SetpointOf(n)[p] + (IF n = m THEN Amount(recs, p) ELSE 0)
  <2>1. /\ SetpointOf(n)[p] \in Int
        /\ SetpointOf(n)'[p] =
             SetpointOf(n)[p] +
               (IF changes'[new].miner = n
                THEN Amount(changes'[new].recommendations, p) ELSE 0)
    BY OneMove
  <2> QED BY <1>1, <2>1
<1>3. ASSUME NEW n \in Miners
      PROVE  SetpointOf(n)' = IF n = m THEN [p \in Parameters |->
                                              SetpointOf(n)[p] + Amount(recs, p)]
                              ELSE SetpointOf(n)
  <2>1. /\ SetpointOf(n)' = [p \in Parameters |-> SetpointOf(n)'[p]]
        /\ SetpointOf(n) = [p \in Parameters |-> SetpointOf(n)[p]]
    BY DEF SetpointOf
  <2>2. CASE n = m
    <3>1. \A p \in Parameters : SetpointOf(n)'[p] = SetpointOf(n)[p] + Amount(recs, p)
      BY <1>2, <2>2
    <3> QED BY <2>1, <2>2, <3>1
  <2>3. CASE n # m
    <3>1. \A p \in Parameters : SetpointOf(n)'[p] = SetpointOf(n)[p]
      BY <1>2, <2>3
    <3> QED BY <2>1, <2>3, <3>1
  <2> QED BY <2>2, <2>3
<1>4. /\ Setpoint = [n \in Miners |-> SetpointOf(n)]
      /\ Setpoint' = [n \in Miners |-> SetpointOf(n)']
  BY DEF Setpoint
<1>5. [Setpoint EXCEPT ![m] = [p \in Parameters |-> @[p] + Amount(recs, p)]] =
        [n \in Miners |-> IF n = m THEN [p \in Parameters |->
                                           SetpointOf(n)[p] + Amount(recs, p)]
                          ELSE SetpointOf(n)]
  BY <1>4
<1> QED BY <1>1, <1>3, <1>4, <1>5

LEMMA AdjustmentFacts ==
  ASSUME NEW recs \in Seq(Recommendation), Complete(recs)
  PROVE  /\ AdjustmentOf(recs) \in [Parameters -> Int]
         /\ \A p \in Parameters : AdjustmentOf(recs)[p] = Amount(recs, p)
BY AmountIsInt DEF AdjustmentOf

\* The transaction that records a change applies it in the log.
LEMMA CreateRefines ==
  ASSUME IInv, IInv', NEW w \in Workers, CreateRecommendationChange(w)
  PROVE  Ledger!Next
<1>0. PICK m \in Miners : m = call[w].miner
  BY CreateFacts DEF CreateRecommendationChange
<1>1. PICK r \in Reports[m] : r = call[w].report
  BY <1>0, CreateFacts DEF CreateRecommendationChange
<1>2. PICK new \in Ids : new = FreshId /\ changes[new] = NoRow
  BY CreateFacts, FreshFacts DEF CreateRecommendationChange
<1>3. PICK row : row = ApplyRow(m, r)
  OBVIOUS
<1>4. /\ row \in Row /\ row.operation = "apply" /\ row.status = "applied"
      /\ row.miner = m /\ row.recommendations = r.recommendations
  BY <1>3, ApplyRowFacts
<1>5. changes' = [changes EXCEPT ![new] = row]
  BY <1>0, <1>1, <1>2, <1>3 DEF CreateRecommendationChange
<1>6. /\ row # NoRow /\ changes'[new] = row
      /\ \A i \in Ids : i # new => changes'[i] = changes[i]
  BY <1>4, <1>5, IdsAssumption DEF IInv, TypeOK
<1>7. PICK a : a = AdjustmentOf(r.recommendations)
  OBVIOUS
<1>8. \A p \in Parameters : a[p] = Amount(r.recommendations, p)
  BY <1>7, ReportFacts, AdjustmentFacts
<1>9. a \in { AdjustmentOf(x.recommendations) : x \in UNION Range(Reports) }
  <2>1. r \in UNION Range(Reports)
    BY ReportsAssumption DEF Range
  <2> QED BY <1>7, <2>1
<1>10. Log[new] = NoRow
  BY <1>2 DEF Log, IsApply, Rows
<1>11. Log' = [Log EXCEPT ![new] = [miner |-> m, adjustment |-> a, undone |-> FALSE]]
  <2>1. IsApply(new)' /\ \A i \in Ids : i # new => (IsApply(i)' <=> IsApply(i))
    BY <1>4, <1>6 DEF IsApply, Rows
  <2>2. ASSUME NEW i \in Ids
        PROVE Log'[i] = IF i = new THEN [miner |-> m, adjustment |-> a, undone |-> FALSE]
                        ELSE Log[i]
    <3>1. CASE i = new
      <4>1. Log'[new] = [miner |-> changes'[new].miner,
                         adjustment |-> AdjustmentOf(changes'[new].recommendations),
                         undone |-> changes'[new].status = "rolled_back"]
        BY <2>1 DEF Log, AdjustmentOf, Amount
      <4>2. (changes'[new].status = "rolled_back") = FALSE
        BY <1>4, <1>6
      <4> QED BY <1>4, <1>6, <1>7, <3>1, <4>1, <4>2
    <3>2. CASE i # new
      <4>1. Log[i] = IF IsApply(i)
                     THEN [miner |-> changes[i].miner,
                           adjustment |-> AdjustmentOf(changes[i].recommendations),
                           undone |-> changes[i].status = "rolled_back"]
                     ELSE NoRow
        BY DEF Log
      <4>2. Log'[i] = IF IsApply(i)'
                      THEN [miner |-> changes'[i].miner,
                            adjustment |-> AdjustmentOf(changes'[i].recommendations),
                            undone |-> changes'[i].status = "rolled_back"]
                      ELSE NoRow
        BY DEF Log, AdjustmentOf, Amount
      <4> QED BY <1>6, <2>1, <3>2, <4>1, <4>2
    <3> QED BY <3>1, <3>2
  <2>3. DOMAIN Log = Ids /\ DOMAIN Log' = Ids /\ Log = [i \in Ids |-> Log[i]]
        /\ Log' = [i \in Ids |-> Log'[i]]
    BY DEF Log
  <2> HIDE DEF Log
  <2> QED BY <2>2, <2>3
<1>12. Setpoint' = [Setpoint EXCEPT ![m] = [p \in Parameters |-> @[p] + a[p]]]
  <2>1. Setpoint' = [Setpoint EXCEPT ![m] =
          [p \in Parameters |-> @[p] + Amount(changes'[new].recommendations, p)]]
    BY <1>2, <1>4, <1>6, SetpointMoves
  <2> QED BY <1>4, <1>6, <1>8, <2>1
<1>13. Ledger!Apply(new, m, a)
  BY <1>10, <1>11, <1>12 DEF Ledger!Apply, Log, Setpoint
<1> QED BY <1>9, <1>13 DEF Ledger!Next

\* Two entries with the same fields are the same entry.
LEMMA SameEntry ==
  ASSUME NEW e \in Entry, NEW f \in Entry,
         f.miner = e.miner, f.adjustment = e.adjustment, f.undone = e.undone
  PROVE  e = f
BY DEF Entry

\* The transaction that writes an inverse undoes its target in the log.
LEMMA CommitRefines ==
  ASSUME IInv, IInv', NEW w \in Workers, Commit(w)
  PROVE  Ledger!Next
<1>0. PICK id \in Rows, new \in Ids, target \in Row, inverse \in Row,
           marked \in Row : Committed(w, id, new, target, inverse, marked)
  BY CommitFacts
<1>1. /\ target = changes[id] /\ target.operation = "apply"
      /\ target.status = "applied" /\ Reported(target)
      /\ changes[new] = NoRow /\ new # id /\ id \in Ids
      /\ inverse = RollbackRow(target, id)
      /\ marked = [target EXCEPT !.status = "rolled_back", !.supersededBy = new]
      /\ changes'[new] = inverse /\ changes'[id] = marked
      /\ \A i \in Ids : i # new /\ i # id => changes'[i] = changes[i]
  BY <1>0 DEF Committed, Rows
<1>2. /\ inverse.operation = "rollback" /\ inverse.miner = target.miner
      /\ \A p \in Parameters :
           Amount(inverse.recommendations, p) = -Amount(target.recommendations, p)
  BY <1>1, RollbackRowFacts
<1>3. /\ marked.status = "rolled_back" /\ marked.operation = target.operation
      /\ marked.miner = target.miner
      /\ marked.recommendations = target.recommendations
  <2>1. marked = [target EXCEPT !.status = "rolled_back", !.supersededBy = new]
    BY <1>1
  <2> QED BY <2>1 DEF Row
<1>4. inverse # NoRow /\ marked # NoRow /\ target # NoRow
  BY IdsAssumption
<1>5. PICK m \in Miners : m = target.miner
  BY DEF Row
<1>6. PICK a : a = AdjustmentOf(target.recommendations)
  OBVIOUS
<1>7. /\ a \in [Parameters -> Int]
      /\ \A p \in Parameters : a[p] = Amount(target.recommendations, p)
  <2>1. target.recommendations \in Seq(Recommendation)
    BY DEF Row
  <2>2. Complete(target.recommendations)
    BY <1>1 DEF IInv, RowOK
  <2> QED BY <1>6, <2>1, <2>2, AdjustmentFacts
<1>8. PICK entry \in Entry :
        entry = [miner |-> m, adjustment |-> a, undone |-> FALSE]
  BY <1>7 DEF Entry
<1>9. Log[id] = entry
  <2>1. IsApply(id)
    BY <1>1 DEF IsApply
  <2>2. (changes[id].status = "rolled_back") = FALSE
    BY <1>1
  <2>3. Log[id] = [miner |-> changes[id].miner,
                   adjustment |-> AdjustmentOf(changes[id].recommendations),
                   undone |-> changes[id].status = "rolled_back"]
    BY <1>1, <2>1 DEF Log
  <2> QED BY <1>1, <1>5, <1>6, <1>8, <2>2, <2>3
<1>10. /\ entry # NoRow /\ ~ entry.undone
       /\ entry.miner = m /\ entry.adjustment = a
  BY <1>8, IdsAssumption
<1>11. Log' = [Log EXCEPT ![id].undone = TRUE]
  <2>1. /\ IsApply(id)' /\ ~ IsApply(new) /\ ~ IsApply(new)'
        /\ \A i \in Ids : i # new /\ i # id => (IsApply(i)' <=> IsApply(i))
    BY <1>1, <1>2, <1>3, <1>4 DEF IsApply, Rows
  <2>2. ASSUME NEW i \in Ids
        PROVE  /\ Log[i] = IF IsApply(i)
                           THEN [miner |-> changes[i].miner,
                                 adjustment |-> AdjustmentOf(changes[i].recommendations),
                                 undone |-> changes[i].status = "rolled_back"]
                           ELSE NoRow
               /\ Log'[i] = IF IsApply(i)'
                            THEN [miner |-> changes'[i].miner,
                                  adjustment |-> AdjustmentOf(changes'[i].recommendations),
                                  undone |-> changes'[i].status = "rolled_back"]
                            ELSE NoRow
    BY DEF Log, AdjustmentOf, Amount
  <2>3. ASSUME NEW i \in Ids, i # id PROVE Log'[i] = Log[i]
    <3>1. CASE i = new
      BY <2>1, <2>2, <3>1
    <3>2. CASE i # new
      <4>1. changes'[i] = changes[i] /\ (IsApply(i)' <=> IsApply(i))
        BY <1>1, <2>1, <2>3, <3>2
      <4>2. CASE IsApply(i)
        BY <2>2, <4>1, <4>2
      <4>3. CASE ~ IsApply(i)
        BY <2>2, <4>1, <4>3
      <4> QED BY <4>2, <4>3
    <3> QED BY <3>1, <3>2
  <2>4. Log'[id] = [entry EXCEPT !.undone = TRUE]
    <3>1. (changes'[id].status = "rolled_back") = TRUE
      BY <1>1, <1>3
    <3>2. Log'[id] = [miner |-> changes'[id].miner,
                      adjustment |-> AdjustmentOf(changes'[id].recommendations),
                      undone |-> changes'[id].status = "rolled_back"]
      BY <1>1, <2>1, <2>2
    <3>3. Log'[id] = [miner |-> m, adjustment |-> a, undone |-> TRUE]
      BY <1>1, <1>3, <1>5, <1>6, <3>1, <3>2
    <3>4. PICK undone \in Entry : undone = [entry EXCEPT !.undone = TRUE]
      BY DEF Entry
    <3>5. /\ undone.miner = entry.miner /\ undone.adjustment = entry.adjustment
          /\ undone.undone = TRUE
      BY <3>4 DEF Entry
    <3>6. PICK literal \in Entry :
            literal = [miner |-> m, adjustment |-> a, undone |-> TRUE]
      BY <1>7 DEF Entry
    <3>7. literal.miner = m /\ literal.adjustment = a /\ literal.undone = TRUE
      BY <3>6
    <3>8. undone = literal
      BY <1>10, <3>5, <3>7, SameEntry
    <3> QED BY <3>3, <3>4, <3>6, <3>8
  <2>5. DOMAIN Log = Ids /\ DOMAIN Log' = Ids /\ Log = [i \in Ids |-> Log[i]]
        /\ Log' = [i \in Ids |-> Log'[i]]
    BY DEF Log
  <2> HIDE DEF Log
  <2> QED BY <1>1, <1>9, <2>3, <2>4, <2>5
<1>12. Setpoint' = [Setpoint EXCEPT ![m] = [p \in Parameters |-> @[p] - a[p]]]
  <2>1. ASSUME NEW i \in Ids, i # new
        PROVE  /\ changes'[i] = NoRow <=> changes[i] = NoRow
               /\ changes[i] # NoRow =>
                    /\ changes'[i].miner = changes[i].miner
                    /\ changes'[i].recommendations = changes[i].recommendations
    <3>1. CASE i = id
      <4>1. changes'[i] = marked /\ changes[i] = target
        BY <1>1, <3>1
      <4> QED BY <1>3, <1>4, <4>1
    <3>2. CASE i # id
      <4>1. changes'[i] = changes[i]
        BY <1>1, <2>1, <3>2
      <4> QED BY <4>1
    <3> QED BY <3>1, <3>2
  <2>2. Setpoint' = [Setpoint EXCEPT ![m] =
          [p \in Parameters |-> @[p] + Amount(changes'[new].recommendations, p)]]
    BY <1>1, <1>2, <1>4, <1>5, <2>1, SetpointMoves
  <2>3. \A p \in Parameters :
          /\ SetpointOf(m)[p] \in Int
          /\ SetpointOf(m)[p] + Amount(changes'[new].recommendations, p) =
               SetpointOf(m)[p] - a[p]
    BY <1>1, <1>2, <1>7, MovedFacts
  <2>4. Setpoint[m] = SetpointOf(m)
    BY DEF Setpoint
  <2>5. [p \in Parameters |->
           Setpoint[m][p] + Amount(changes'[new].recommendations, p)] =
        [p \in Parameters |-> Setpoint[m][p] - a[p]]
    BY <2>3, <2>4
  <2> QED BY <2>2, <2>5
<1>13. Ledger!Undo(id)
  <2>1. /\ Log[id] # NoRow /\ ~ Log[id].undone
        /\ Log[id].miner = m /\ Log[id].adjustment = a
    BY <1>9, <1>10
  <2>2. /\ Log[id] # NoRow /\ ~ Log[id].undone
        /\ Log' = [Log EXCEPT ![id].undone = TRUE]
        /\ Setpoint' = [Setpoint EXCEPT ![Log[id].miner] =
                          [p \in Parameters |-> @[p] - Log[id].adjustment[p]]]
    BY <1>11, <1>12, <2>1
  <2> QED BY <2>2 DEF Ledger!Undo, Log, Setpoint
<1> QED BY <1>1, <1>13 DEF Ledger!Next

LEMMA OthersStutter ==
  ASSUME changes' = changes
  PROVE  Log' = Log /\ Setpoint' = Setpoint
<1>1. Rows' = Rows
  BY DEF Rows
<1> QED BY <1>1 DEF Log, Setpoint, IsApply, SetpointOf, AdjustmentOf, Amount

(* The log of changes implements its specification: applied rows stay, are *)
(* undone at most once, at the moment their inverse is recorded, and the   *)
(* rows of a miner always add up to the changes still in force, whatever   *)
(* transactions, lost answers and restarts interleave.                     *)
THEOREM ChangesImplementLedger == Spec => ImplementsLedger
<1>1. Init => Ledger!Init
  <2> SUFFICES ASSUME Init PROVE Ledger!Init
    OBVIOUS
  <2>1. IInv
    BY InitIInv
  <2>2. Rows = {}
    BY DEF Init, Rows
  <2>3. Log = [i \in Ids |-> NoRow]
    BY <2>2 DEF Log, IsApply
  <2>4. ASSUME NEW m \in Miners PROVE SetpointOf(m) = [p \in Parameters |-> 0]
    <3>1. ASSUME NEW p \in Parameters PROVE SetpointOf(m)[p] = 0
      <4>1. \A i \in Ids : Moved(m, p)[i] = 0
        BY <2>2 DEF Moved
      <4>2. SumFunctionOnSet(Moved(m, p), Ids) = 0
        BY <4>1, IdsAssumption, SumOfZeros
      <4> QED BY <2>1, <4>2, MovedFacts
    <3>2. SetpointOf(m) = [p \in Parameters |-> SetpointOf(m)[p]]
      BY DEF SetpointOf
    <3> QED BY <3>1, <3>2
  <2>5. Setpoint = [m \in Miners |-> [p \in Parameters |-> 0]]
    BY <2>4 DEF Setpoint
  <2> QED BY <2>3, <2>5 DEF Ledger!Init, Log, Setpoint
<1>2. IInv /\ IInv' /\ [Next]_vars => [Ledger!Next]_<< Log, Setpoint >>
  <2> SUFFICES ASSUME IInv, IInv', [Next]_vars
               PROVE  Ledger!Next \/ (Log' = Log /\ Setpoint' = Setpoint)
    OBVIOUS
  <2>1. ASSUME NEW w \in Workers, Step(w)
        PROVE  Ledger!Next \/ changes' = changes
    BY <2>1, CreateRefines, CommitRefines DEF Step, SelectForUpdate
  <2>2. ASSUME NEW w \in Workers, Fail(w) PROVE changes' = changes
    BY <2>2 DEF Fail, CreateFails, Abort
  <2>3. Ledger!Next \/ changes' = changes
    BY <2>1, <2>2 DEF Next, ApplyRecommendationChange,
       RollbackRecommendationChange, Crash, vars
  <2> QED BY <2>3, OthersStutter
<1>3. [][Ledger!Next]_<< Log, Setpoint >> => [][Ledger!Next]_<<
        [i \in Ids |->
           IF IsApply(i)
           THEN [miner |-> changes[i].miner,
                 adjustment |-> AdjustmentOf(changes[i].recommendations),
                 undone |-> changes[i].status = "rolled_back"]
           ELSE NoRow],
        [m \in Miners |-> SetpointOf(m)] >>
  BY DEF Log, Setpoint
<1> QED BY <1>1, <1>2, <1>3, IInvHolds, PTL DEF Spec, ImplementsLedger, Ledger!Spec
=============================================================================
