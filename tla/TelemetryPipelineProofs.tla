----------------------- MODULE TelemetryPipelineProofs -----------------------
(***************************************************************************)
(* Proofs about TelemetryPipeline, for every set of events and instances   *)
(* and every MaxDeliver.  The argument follows the deliveries: the numbers *)
(* of the deliveries that are out never pass NumDelivered, a handler that  *)
(* reached its ack has left a trace of its message, and the last delivery  *)
(* of a message is held by an instance until it has left such a trace or   *)
(* died with its instance.                                                 *)
(***************************************************************************)
EXTENDS TelemetryPipeline, TLAPS

(* NumDelivered against the state of a message: JetStream only offers a    *)
(* message again while it has deliveries left.                             *)
StreamInv(m) ==
  /\ status[m] = "unsent" => delivered[m] = 0
  /\ status[m] = "ready" => delivered[m] < MaxDeliver
  /\ status[m] = "exhausted" => delivered[m] = MaxDeliver

(* The trace a handler leaves before it acknowledges a message. *)
HandledOnce(m) ==
  \/ EventOf(m) \in persisted \cap evaluated
  \/ m \in dlq \cup unrecorded

(* What the handler of instance i knows of its delivery. *)
JobInv(i) ==
  /\ job[i] = None <=> pc[i] \in {"down", "idle"}
  /\ pc[i] = "alert" => EventOf(job[i].msg) \in persisted
  /\ pc[i] = "dlq" => \/ EventOf(job[i].msg) \in Undecodable
                      \/ job[i].num = MaxDeliver
  /\ pc[i] = "ack" => HandledOnce(job[i].msg)

(* The last delivery of m is still out. *)
LastIsOut(m) ==
  \E i \in Instance : \E d \in Held(i) : d.msg = m /\ d.num = MaxDeliver

LastTraced(m) ==
  \/ EventOf(m) \in persisted
  \/ m \in dlq \cup unrecorded \cup dropped

IInv ==
  /\ TypeOK
  /\ \A m \in Message : StreamInv(m)
  /\ \A i \in Instance : JobInv(i)
  /\ \A i \in Instance : \A d \in Held(i) : d.num <= delivered[d.msg]
  /\ \A m \in Message :
       delivered[m] = MaxDeliver => LastIsOut(m) \/ LastTraced(m)
  /\ AckedMeansHandled
  /\ DeadLetterIsTerminal
-----------------------------------------------------------------------------
LEMMA MessageFacts ==
  ASSUME NEW m \in Message
  PROVE  EventOf(m) \in Event
BY DEF Message, EventOf

LEMMA DeliveryFacts ==
  /\ \A d \in Delivery : d # None /\ d.msg \in Message /\ d.num \in 1..MaxDeliver
  /\ \A m \in Message, k \in 1..MaxDeliver : [msg |-> m, num |-> k] \in Delivery
BY NoneAssumption DEF Delivery

LEMMA HeldFacts ==
  ASSUME TypeOK, NEW i \in Instance
  PROVE  /\ Held(i) \subseteq Delivery
         /\ job[i] # None => job[i] \in Held(i) /\ job[i] \in Delivery
BY DEF TypeOK, Held

(* What giving a message back to the consumer does, whether its AckWait    *)
(* ran out or a handler asked for a retry.                                 *)
LEMMA RequeueOK ==
  ASSUME TypeOK, \A n \in Message : StreamInv(n),
         NEW m \in Message, status[m] = "outstanding", Requeue(m),
         delivered' = delivered
  PROVE  /\ status' \in [Message -> Status]
         /\ \A n \in Message : StreamInv(n)'
         /\ \A n \in Message : status'[n] = "acked" => status[n] = "acked"
<1>1. status' \in [Message -> Status]
  BY DEF TypeOK, Requeue, Status
<1>2. ASSUME NEW n \in Message
      PROVE  /\ StreamInv(n)'
             /\ status'[n] = "acked" => status[n] = "acked"
  <2>1. MaxDeliver \in Nat /\ delivered[n] \in 0..MaxDeliver
    BY PipelineAssumption DEF TypeOK
  <2>2. CASE n = m
    <3>1. status'[n] = IF delivered[n] < MaxDeliver THEN "ready" ELSE "exhausted"
      BY <2>2 DEF TypeOK, Requeue
    <3> QED BY <2>1, <3>1 DEF StreamInv
  <2>3. CASE n # m
    <3>1. status'[n] = status[n]
      BY <2>3 DEF TypeOK, Requeue
    <3> QED BY <3>1 DEF StreamInv
  <2> QED BY <2>2, <2>3
<1> QED BY <1>1, <1>2

LEMMA NakOK ==
  ASSUME TypeOK, \A n \in Message : StreamInv(n),
         NEW m \in Message, NakReaches(m), delivered' = delivered
  PROVE  /\ status' \in [Message -> Status]
         /\ \A n \in Message : StreamInv(n)'
         /\ \A n \in Message : status'[n] = "acked" => status[n] = "acked"
<1>1. CASE UNCHANGED status
  BY <1>1 DEF TypeOK, StreamInv
<1>2. CASE status[m] = "outstanding" /\ Requeue(m)
  BY <1>2, RequeueOK
<1> QED BY <1>1, <1>2 DEF NakReaches
-----------------------------------------------------------------------------
LEMMA InitIInv == Init => IInv
<1> SUFFICES ASSUME Init PROVE IInv
  OBVIOUS
<1>1. MaxDeliver \in Nat \ {0} /\ MaxStops \in Nat
  BY PipelineAssumption
<1>2. TypeOK
  <2>1. /\ status \in [Message -> Status]
        /\ delivered \in [Message -> 0..MaxDeliver]
        /\ pc \in [Instance -> Step]
    BY <1>1 DEF Init, Status, Step
  <2>2. inbox \in [Instance -> SUBSET Delivery]
    BY DEF Init
  <2>3. job \in [Instance -> Delivery \cup {None}]
    <3>1. \A i \in Instance : None \in Delivery \cup {None}
      OBVIOUS
    <3> HIDE DEF Delivery
    <3> QED BY <3>1 DEF Init
  <2>4. /\ durable \in BOOLEAN
        /\ creator \in Instance \cup {None}
        /\ bound \subseteq Instance
        /\ persisted \subseteq Event /\ evaluated \subseteq Event
        /\ dlq \subseteq Message /\ unrecorded \subseteq Message
        /\ dropped \subseteq Message
        /\ stops \in 0..MaxStops
    <3>1. durable \in BOOLEAN /\ creator \in Instance \cup {None}
      BY DEF Init
    <3>2. bound = {} /\ persisted = {} /\ evaluated = {} /\ dlq = {}
          /\ unrecorded = {} /\ dropped = {}
      BY DEF Init
    <3>3. stops \in 0..MaxStops
      BY <1>1 DEF Init
    <3> QED BY <3>1, <3>2, <3>3
  <2> QED BY <2>1, <2>2, <2>3, <2>4 DEF TypeOK
<1>3. \A i \in Instance : Held(i) = {}
  BY DEF Init, Held
<1>4. \A m \in Message : delivered[m] # MaxDeliver /\ StreamInv(m)
  BY <1>1 DEF Init, StreamInv
<1>5. \A i \in Instance : JobInv(i)
  BY DEF Init, JobInv
<1>6. AckedMeansHandled /\ DeadLetterIsTerminal
  BY DEF Init, AckedMeansHandled, DeadLetterIsTerminal
<1> QED BY <1>2, <1>3, <1>4, <1>5, <1>6 DEF IInv

(* A new message is "ready" or "skipped", with no delivery yet. *)
LEMMA PublishStep ==
  ASSUME IInv, NEW m \in Message, Publish(m)
  PROVE  IInv'
<1> USE DEF handler, tables, lifecycle
<1>1. /\ status' \in [Message -> Status]
      /\ \A n \in Message : StreamInv(n)'
      /\ \A n \in Message : status'[n] = "acked" => status[n] = "acked"
  <2>1. status' \in [Message -> Status]
    BY DEF IInv, TypeOK, Publish, Status
  <2>2. ASSUME NEW n \in Message
        PROVE  StreamInv(n)' /\ (status'[n] = "acked" => status[n] = "acked")
    <3>1. CASE n = m
      <4>1. status'[n] \in {"ready", "skipped"} /\ delivered'[n] = 0
        BY <3>1 DEF IInv, TypeOK, Publish, StreamInv
      <4> QED BY <4>1, PipelineAssumption DEF StreamInv
    <3>2. CASE n # m
      <4>1. status'[n] = status[n] /\ delivered' = delivered
        BY <3>2 DEF IInv, TypeOK, Publish
      <4> QED BY <4>1 DEF IInv, StreamInv
    <3> QED BY <3>1, <3>2
  <2> QED BY <2>1, <2>2
<1>2. TypeOK'
  BY <1>1 DEF IInv, TypeOK, Publish
<1>3. \A i \in Instance : JobInv(i)'
  BY DEF IInv, JobInv, HandledOnce, Publish
<1>4. \A i \in Instance : Held(i)' = Held(i)
  BY DEF Held, Publish
<1>5. \A n \in Message : LastIsOut(n)' = LastIsOut(n) /\ LastTraced(n)' = LastTraced(n)
  BY <1>4 DEF LastIsOut, LastTraced, Publish
<1>6. AckedMeansHandled'
  BY <1>1 DEF IInv, AckedMeansHandled, Publish
<1>7. DeadLetterIsTerminal'
  BY DEF IInv, DeadLetterIsTerminal, Publish
<1> QED BY <1>1, <1>2, <1>3, <1>4, <1>5, <1>6, <1>7 DEF IInv, Publish

(* Deliver puts delivery number NumDelivered of m in one inbox: if it is   *)
(* the last one, it is out now.                                            *)
LEMMA DeliverStep ==
  ASSUME IInv, NEW m \in Message, NEW i \in Instance, Deliver(m, i)
  PROVE  IInv'
<1> USE DEF tables, lifecycle
<1> DEFINE k == delivered[m] + 1
           new == [msg |-> m, num |-> k]
<1>1. /\ MaxDeliver \in Nat \ {0}
      /\ delivered \in [Message -> 0..MaxDeliver]
      /\ delivered[m] < MaxDeliver
      /\ k \in 1..MaxDeliver
      /\ new \in Delivery
  BY PipelineAssumption, DeliveryFacts DEF IInv, TypeOK, Deliver, StreamInv
<1>2. delivered' = [delivered EXCEPT ![m] = k]
  BY DEF Deliver
<1>3. delivered'[m] = k /\ \A n \in Message : n # m => delivered'[n] = delivered[n]
  BY <1>1, <1>2
<1>4. inbox' = [inbox EXCEPT ![i] = @ \cup {new}]
  BY <1>3 DEF Deliver
<1>5. /\ Held(i)' = Held(i) \cup {new}
      /\ \A j \in Instance : j # i => Held(j)' = Held(j)
  BY <1>4 DEF IInv, TypeOK, Held, Deliver
<1> HIDE DEF k, new
<1>6. TypeOK'
  <2>1. status' \in [Message -> Status]
    BY DEF IInv, TypeOK, Deliver, Status
  <2>2. delivered' \in [Message -> 0..MaxDeliver]
    BY <1>1, <1>2
  <2>3. inbox' \in [Instance -> SUBSET Delivery]
    BY <1>1, <1>4 DEF IInv, TypeOK
  <2> QED BY <2>1, <2>2, <2>3 DEF IInv, TypeOK, Deliver
<1>7. \A n \in Message : StreamInv(n)'
  <2> SUFFICES ASSUME NEW n \in Message PROVE StreamInv(n)'
    OBVIOUS
  <2>1. CASE n = m
    BY <2>1 DEF IInv, TypeOK, Deliver, StreamInv
  <2>2. CASE n # m
    BY <2>2, <1>3 DEF IInv, TypeOK, Deliver, StreamInv
  <2> QED BY <2>1, <2>2
<1>8. \A j \in Instance : JobInv(j)'
  BY DEF IInv, JobInv, HandledOnce, Deliver
<1>9. \A j \in Instance : \A d \in Held(j)' : d.num <= delivered'[d.msg]
  <2> SUFFICES ASSUME NEW j \in Instance, NEW d \in Held(j)'
               PROVE  d.num <= delivered'[d.msg]
    OBVIOUS
  <2>1. CASE d = new
    BY <2>1, <1>1, <1>3 DEF new
  <2>2. CASE d \in Held(j)
    <3>1. d.num <= delivered[d.msg] /\ d.msg \in Message /\ d.num \in 1..MaxDeliver
      BY <2>2, HeldFacts, DeliveryFacts DEF IInv
    <3>2. delivered[d.msg] \in 0..MaxDeliver /\ delivered[m] \in 0..MaxDeliver
      BY <1>1, <3>1
    <3>3. delivered'[d.msg] >= delivered[d.msg]
      BY <1>1, <1>3, <3>1, <3>2 DEF k
    <3> QED BY <1>1, <3>1, <3>2, <3>3, <1>3 DEF k
  <2> QED BY <1>5, <2>1, <2>2
<1>10. ASSUME NEW n \in Message, delivered'[n] = MaxDeliver
       PROVE  LastIsOut(n)' \/ LastTraced(n)'
  <2>1. CASE n = m
    <3>1. new \in Held(i)' /\ new.msg = n /\ new.num = MaxDeliver
      BY <1>3, <1>5, <1>10, <2>1 DEF new
    <3> QED BY <3>1 DEF LastIsOut
  <2>2. CASE n # m
    <3>1. LastIsOut(n) \/ LastTraced(n)
      BY <1>3, <1>10, <2>2 DEF IInv
    <3>2. LastTraced(n) => LastTraced(n)'
      BY DEF LastTraced, Deliver
    <3>3. LastIsOut(n) => LastIsOut(n)'
      BY <1>5 DEF LastIsOut
    <3> QED BY <3>1, <3>2, <3>3
  <2> QED BY <2>1, <2>2
<1>11. AckedMeansHandled'
  BY DEF IInv, TypeOK, AckedMeansHandled, Deliver
<1>12. DeadLetterIsTerminal'
  <2>1. \A n \in dlq : n \in Message /\ (n = m => delivered[n] # MaxDeliver)
    BY <1>1 DEF IInv, TypeOK
  <2> QED BY <1>3, <2>1 DEF IInv, DeadLetterIsTerminal, Deliver
<1> QED BY <1>6, <1>7, <1>8, <1>9, <1>10, <1>11, <1>12 DEF IInv

LEMMA AckWaitExpiresStep ==
  ASSUME IInv, NEW m \in Message, AckWaitExpires(m)
  PROVE  IInv'
<1> USE DEF handler, tables, lifecycle
<1>1. /\ status' \in [Message -> Status]
      /\ \A n \in Message : StreamInv(n)'
      /\ \A n \in Message : status'[n] = "acked" => status[n] = "acked"
  BY RequeueOK DEF IInv, AckWaitExpires
<1>2. TypeOK'
  BY <1>1 DEF IInv, TypeOK, AckWaitExpires
<1>3. \A i \in Instance : JobInv(i)'
  BY DEF IInv, JobInv, HandledOnce, AckWaitExpires
<1>4. \A i \in Instance : Held(i)' = Held(i)
  BY DEF Held, AckWaitExpires
<1>5. \A n \in Message : LastIsOut(n)' = LastIsOut(n) /\ LastTraced(n)' = LastTraced(n)
  BY <1>4 DEF LastIsOut, LastTraced, AckWaitExpires
<1>6. AckedMeansHandled'
  BY <1>1 DEF IInv, AckedMeansHandled, AckWaitExpires
<1>7. DeadLetterIsTerminal'
  BY DEF IInv, DeadLetterIsTerminal, AckWaitExpires
<1> QED BY <1>1, <1>2, <1>3, <1>4, <1>5, <1>6, <1>7 DEF IInv, AckWaitExpires
(* Handler steps only touch their own delivery: what the other instances   *)
(* know stays true as the tables only grow.                                *)
LEMMA OtherJobs ==
  ASSUME IInv, NEW i \in Instance,
         \A j \in Instance : j # i => pc'[j] = pc[j] /\ job'[j] = job[j],
         persisted \subseteq persisted', evaluated \subseteq evaluated',
         dlq \subseteq dlq', unrecorded \subseteq unrecorded'
  PROVE  \A j \in Instance : j # i => JobInv(j)'
BY DEF IInv, JobInv, HandledOnce

LEMMA ReceiveStep ==
  ASSUME IInv, NEW i \in Instance, Receive(i)
  PROVE  IInv'
<1> USE DEF consumer, tables, lifecycle
<1>1. PICK d \in inbox[i] :
        /\ inbox' = [inbox EXCEPT ![i] = @ \ {d}]
        /\ job' = [job EXCEPT ![i] = d]
        /\ pc' = [pc EXCEPT ![i] = IF EventOf(d.msg) \in Undecodable
                                   THEN "dlq" ELSE "persist"]
  BY DEF Receive
<1>2. d \in Delivery /\ d # None
  BY DeliveryFacts DEF IInv, TypeOK
<1>3. job[i] = None
  BY DEF IInv, JobInv, Receive
<1>4. \A j \in Instance : Held(j)' = Held(j)
  <2> SUFFICES ASSUME NEW j \in Instance PROVE Held(j)' = Held(j)
    OBVIOUS
  <2>1. CASE j = i
    <3>1. inbox'[j] = inbox[j] \ {d} /\ job'[j] = d
      BY <1>1, <2>1 DEF IInv, TypeOK
    <3> QED BY <3>1, <2>1, <1>2, <1>3 DEF Held
  <2>2. CASE j # i
    BY <1>1, <2>2 DEF IInv, TypeOK, Held
  <2> QED BY <2>1, <2>2
<1>5. TypeOK'
  <2>1. inbox' \in [Instance -> SUBSET Delivery]
    BY <1>1 DEF IInv, TypeOK
  <2>2. job' \in [Instance -> Delivery \cup {None}]
    BY <1>1, <1>2 DEF IInv, TypeOK
  <2>3. pc' \in [Instance -> Step]
    BY <1>1 DEF IInv, TypeOK, Step
  <2> QED BY <2>1, <2>2, <2>3 DEF IInv, TypeOK, Receive
<1>6. \A j \in Instance : JobInv(j)'
  <2>1. \A j \in Instance : j # i => pc'[j] = pc[j] /\ job'[j] = job[j]
    BY <1>1 DEF IInv, TypeOK
  <2>2. \A j \in Instance : j # i => JobInv(j)'
    BY <2>1, OtherJobs DEF Receive
  <2>3. JobInv(i)'
    <3>1. job'[i] = d /\ pc'[i] = IF EventOf(d.msg) \in Undecodable THEN "dlq" ELSE "persist"
      BY <1>1 DEF IInv, TypeOK
    <3> QED BY <3>1, <1>2 DEF JobInv
  <2> QED BY <2>2, <2>3
<1>7. \A n \in Message : StreamInv(n)' /\ LastIsOut(n)' = LastIsOut(n)
                         /\ LastTraced(n)' = LastTraced(n)
  BY <1>4 DEF IInv, StreamInv, LastIsOut, LastTraced, Receive
<1>8. AckedMeansHandled' /\ DeadLetterIsTerminal'
  BY DEF IInv, AckedMeansHandled, DeadLetterIsTerminal, Receive
<1> QED BY <1>4, <1>5, <1>6, <1>7, <1>8 DEF IInv, Receive

(* A step of the handler of i that keeps its delivery: what is out stays   *)
(* out, and no new delivery is made.                                       *)
LEMMA GotoOK ==
  ASSUME IInv, NEW i \in Instance, NEW step \in Step, Goto(i, step),
         status' = status, delivered' = delivered, dropped' = dropped,
         persisted \subseteq persisted', evaluated \subseteq evaluated',
         dlq \subseteq dlq', unrecorded \subseteq unrecorded'
  PROVE  /\ pc' \in [Instance -> Step] /\ inbox' = inbox /\ job' = job
         /\ pc'[i] = step
         /\ \A j \in Instance : j # i => JobInv(j)'
         /\ \A n \in Message : StreamInv(n)'
         /\ \A j \in Instance : \A d \in Held(j)' : d.num <= delivered'[d.msg]
         /\ \A n \in Message :
              delivered'[n] = MaxDeliver => LastIsOut(n)' \/ LastTraced(n)'
         /\ AckedMeansHandled'
<1>1. pc' \in [Instance -> Step] /\ inbox' = inbox /\ job' = job /\ pc'[i] = step
  BY DEF IInv, TypeOK, Goto
<1>2. \A j \in Instance : j # i => pc'[j] = pc[j]
  BY DEF IInv, TypeOK, Goto
<1>3. \A j \in Instance : j # i => JobInv(j)'
  BY <1>1, <1>2, OtherJobs
<1>4. \A j \in Instance : Held(j)' = Held(j)
  BY <1>1 DEF Held
<1>5. \A n \in Message : /\ StreamInv(n)'
                         /\ LastIsOut(n)' = LastIsOut(n)
                         /\ LastTraced(n) => LastTraced(n)'
  BY <1>4 DEF IInv, StreamInv, LastIsOut, LastTraced
<1>6. AckedMeansHandled'
  BY DEF IInv, AckedMeansHandled
<1> QED BY <1>1, <1>3, <1>4, <1>5, <1>6 DEF IInv

LEMMA PersistTelemetryStep ==
  ASSUME IInv, NEW i \in Instance, PersistTelemetry(i)
  PROVE  IInv'
<1> USE DEF consumer, lifecycle
<1> DEFINE e == EventOf(job[i].msg)
<1>1. job[i] \in Delivery /\ e \in Event /\ job[i] # None
  BY DeliveryFacts, MessageFacts DEF IInv, TypeOK, JobInv, PersistTelemetry
<1> HIDE DEF e
<1>2. persisted' = persisted \cup {e} /\ Goto(i, "alert") /\ "alert" \in Step
  BY DEF PersistTelemetry, Step, e
<1>3. UNCHANGED <<consumer, dlq, evaluated, unrecorded, lifecycle>>
  BY DEF PersistTelemetry
<1>4. /\ pc' \in [Instance -> Step] /\ inbox' = inbox /\ job' = job
      /\ pc'[i] = "alert"
      /\ \A j \in Instance : j # i => JobInv(j)'
      /\ \A n \in Message : StreamInv(n)'
      /\ \A j \in Instance : \A d \in Held(j)' : d.num <= delivered'[d.msg]
      /\ \A n \in Message :
           delivered'[n] = MaxDeliver => LastIsOut(n)' \/ LastTraced(n)'
      /\ AckedMeansHandled'
  BY <1>2, <1>3, GotoOK
<1>5. JobInv(i)'
  BY <1>1, <1>2, <1>4 DEF JobInv, e
<1>6. TypeOK'
  BY <1>1, <1>2, <1>3, <1>4 DEF IInv, TypeOK
<1>7. DeadLetterIsTerminal'
  BY <1>3 DEF IInv, DeadLetterIsTerminal
<1> QED BY <1>4, <1>5, <1>6, <1>7 DEF IInv

LEMMA ProcessEventStep ==
  ASSUME IInv, NEW i \in Instance, ProcessEvent(i)
  PROVE  IInv'
<1> USE DEF consumer, lifecycle
<1> DEFINE e == EventOf(job[i].msg)
<1>1. job[i] \in Delivery /\ e \in Event /\ job[i] # None /\ e \in persisted
  BY DeliveryFacts, MessageFacts DEF IInv, TypeOK, JobInv, ProcessEvent
<1> HIDE DEF e
<1>2. evaluated' = evaluated \cup {e} /\ Goto(i, "ack") /\ "ack" \in Step
  BY DEF ProcessEvent, Step, e
<1>3. UNCHANGED <<consumer, persisted, dlq, unrecorded, lifecycle>>
  BY DEF ProcessEvent
<1>4. /\ pc' \in [Instance -> Step] /\ inbox' = inbox /\ job' = job
      /\ pc'[i] = "ack"
      /\ \A j \in Instance : j # i => JobInv(j)'
      /\ \A n \in Message : StreamInv(n)'
      /\ \A j \in Instance : \A d \in Held(j)' : d.num <= delivered'[d.msg]
      /\ \A n \in Message :
           delivered'[n] = MaxDeliver => LastIsOut(n)' \/ LastTraced(n)'
      /\ AckedMeansHandled'
  BY <1>2, <1>3, GotoOK
<1>5. JobInv(i)'
  BY <1>1, <1>2, <1>3, <1>4 DEF JobInv, HandledOnce, e
<1>6. TypeOK'
  BY <1>1, <1>2, <1>3, <1>4 DEF IInv, TypeOK
<1>7. DeadLetterIsTerminal'
  BY <1>3 DEF IInv, DeadLetterIsTerminal
<1> QED BY <1>4, <1>5, <1>6, <1>7 DEF IInv

(* A dead letter of a decodable event comes from its last delivery, whose  *)
(* number MaxDeliver NumDelivered has reached.                             *)
LEMMA PublishDLQStep ==
  ASSUME IInv, NEW i \in Instance, PublishDLQ(i)
  PROVE  IInv'
<1> USE DEF consumer, lifecycle
<1> DEFINE m == job[i].msg
<1>1. /\ job[i] \in Delivery /\ m \in Message /\ job[i] # None
      /\ job[i] \in Held(i) /\ job[i].num \in 1..MaxDeliver
  BY DeliveryFacts, HeldFacts DEF IInv, TypeOK, JobInv, PublishDLQ
<1>2. EventOf(m) \in Undecodable \/ delivered[m] = MaxDeliver
  <2>1. EventOf(m) \in Undecodable \/ job[i].num = MaxDeliver
    BY DEF IInv, JobInv, PublishDLQ
  <2>2. job[i].num <= delivered[m] /\ delivered[m] \in 0..MaxDeliver
    BY <1>1 DEF IInv, TypeOK
  <2> QED BY <1>1, <2>1, <2>2, PipelineAssumption
<1> HIDE DEF m
<1>3. \/ dlq' = dlq \cup {m} /\ UNCHANGED unrecorded
      \/ unrecorded' = unrecorded \cup {m} /\ UNCHANGED dlq
  BY DEF PublishDLQ, m
<1>4. Goto(i, "ack") /\ "ack" \in Step
  BY DEF PublishDLQ, Step
<1>5. UNCHANGED <<consumer, persisted, evaluated, lifecycle>>
  BY DEF PublishDLQ
<1>6. /\ pc' \in [Instance -> Step] /\ inbox' = inbox /\ job' = job
      /\ pc'[i] = "ack"
      /\ \A j \in Instance : j # i => JobInv(j)'
      /\ \A n \in Message : StreamInv(n)'
      /\ \A j \in Instance : \A d \in Held(j)' : d.num <= delivered'[d.msg]
      /\ \A n \in Message :
           delivered'[n] = MaxDeliver => LastIsOut(n)' \/ LastTraced(n)'
      /\ AckedMeansHandled'
  BY <1>3, <1>4, <1>5, GotoOK
<1>7. JobInv(i)'
  BY <1>1, <1>3, <1>6 DEF JobInv, HandledOnce, m
<1>8. TypeOK'
  BY <1>1, <1>3, <1>5, <1>6 DEF IInv, TypeOK
<1>9. DeadLetterIsTerminal'
  BY <1>2, <1>3, <1>5 DEF IInv, DeadLetterIsTerminal
<1> QED BY <1>6, <1>7, <1>8, <1>9 DEF IInv

(* The handler of i ends: it forgets its delivery, which must not have     *)
(* been the last one unless it left its trace.                             *)
LEMMA FinishOK ==
  ASSUME IInv, NEW i \in Instance, NEW m \in Message,
         Finish(i), job[i] # None, job[i].msg = m,
         delivered' = delivered, dropped' = dropped,
         persisted \subseteq persisted', evaluated \subseteq evaluated',
         dlq \subseteq dlq', unrecorded \subseteq unrecorded',
         job[i].num = MaxDeliver => LastTraced(m)'
  PROVE  /\ pc' \in [Instance -> Step] /\ inbox' = inbox
         /\ job' \in [Instance -> Delivery \cup {None}]
         /\ \A j \in Instance : JobInv(j)'
         /\ \A j \in Instance : \A d \in Held(j)' : d.num <= delivered'[d.msg]
         /\ \A n \in Message :
              delivered'[n] = MaxDeliver => LastIsOut(n)' \/ LastTraced(n)'
<1>1. /\ pc' \in [Instance -> Step] /\ inbox' = inbox
      /\ job' \in [Instance -> Delivery \cup {None}]
      /\ pc'[i] = "idle" /\ job'[i] = None
      /\ \A j \in Instance : j # i => pc'[j] = pc[j] /\ job'[j] = job[j]
  BY DEF IInv, TypeOK, Finish, Step
<1>2. \A j \in Instance : JobInv(j)'
  BY <1>1, OtherJobs DEF JobInv
<1>3. /\ \A j \in Instance : j # i => Held(j)' = Held(j)
      /\ Held(i) \subseteq Held(i)' \cup {job[i]}
      /\ Held(i)' \subseteq Held(i)
  BY <1>1 DEF Held
<1>4. ASSUME NEW n \in Message, delivered'[n] = MaxDeliver
      PROVE  LastIsOut(n)' \/ LastTraced(n)'
  <2>1. LastTraced(n) => LastTraced(n)'
    BY DEF LastTraced
  <2>2. ASSUME LastIsOut(n) PROVE LastIsOut(n)' \/ LastTraced(n)'
    <3>1. PICK j \in Instance : \E d \in Held(j) : d.msg = n /\ d.num = MaxDeliver
      BY <2>2 DEF LastIsOut
    <3>2. PICK d \in Held(j) : d.msg = n /\ d.num = MaxDeliver
      BY <3>1
    <3>3. d \in Held(j)' \/ (j = i /\ d = job[i])
      BY <1>3, <3>2
    <3> QED BY <3>2, <3>3 DEF LastIsOut
  <2> QED BY <1>4, <2>1, <2>2 DEF IInv
<1> QED BY <1>1, <1>2, <1>3, <1>4 DEF IInv

(* PersistTelemetry failed: a retry, or the dead letter for the last one.  *)
LEMMA PersistFailsStep ==
  ASSUME IInv, NEW i \in Instance, PersistFails(i)
  PROVE  IInv'
<1> USE DEF consumer, lifecycle
<1>1. /\ job[i] \in Delivery /\ job[i].msg \in Message /\ job[i] # None
      /\ job[i].num \in 1..MaxDeliver /\ EventOf(job[i].msg) \in Event
  BY DeliveryFacts, MessageFacts DEF IInv, TypeOK, JobInv, PersistFails
<1>2. /\ persisted \subseteq persisted' /\ persisted' \subseteq Event
      /\ UNCHANGED <<delivered, durable, creator, bound, dlq, evaluated,
                     unrecorded, lifecycle>>
  BY <1>1 DEF IInv, TypeOK, PersistFails
<1>3. DeadLetterIsTerminal'
  BY <1>2 DEF IInv, DeadLetterIsTerminal
<1>4. CASE job[i].num >= MaxDeliver /\ Goto(i, "dlq") /\ UNCHANGED status
  <2>1. "dlq" \in Step /\ job[i].num = MaxDeliver
    BY <1>1, <1>4, PipelineAssumption DEF Step
  <2>2. /\ pc' \in [Instance -> Step] /\ inbox' = inbox /\ job' = job
        /\ pc'[i] = "dlq"
        /\ \A j \in Instance : j # i => JobInv(j)'
        /\ \A n \in Message : StreamInv(n)'
        /\ \A j \in Instance : \A d \in Held(j)' : d.num <= delivered'[d.msg]
        /\ \A n \in Message :
             delivered'[n] = MaxDeliver => LastIsOut(n)' \/ LastTraced(n)'
        /\ AckedMeansHandled'
    BY <1>2, <1>4, <2>1, GotoOK
  <2>3. JobInv(i)'
    BY <1>1, <2>1, <2>2 DEF JobInv
  <2>4. TypeOK'
    BY <1>2, <1>4, <2>2 DEF IInv, TypeOK
  <2> QED BY <1>3, <2>2, <2>3, <2>4 DEF IInv
<1>5. CASE job[i].num < MaxDeliver /\ Finish(i) /\ NakReaches(job[i].msg)
  <2>1. job[i].num # MaxDeliver
    BY <1>1, <1>5, PipelineAssumption
  <2>2. /\ status' \in [Message -> Status]
        /\ \A n \in Message : StreamInv(n)'
        /\ \A n \in Message : status'[n] = "acked" => status[n] = "acked"
    BY <1>1, <1>2, <1>5, NakOK DEF IInv
  <2>3. /\ pc' \in [Instance -> Step] /\ inbox' = inbox
        /\ job' \in [Instance -> Delivery \cup {None}]
        /\ \A j \in Instance : JobInv(j)'
        /\ \A j \in Instance : \A d \in Held(j)' : d.num <= delivered'[d.msg]
        /\ \A n \in Message :
             delivered'[n] = MaxDeliver => LastIsOut(n)' \/ LastTraced(n)'
    BY <1>1, <1>2, <1>5, <2>1, FinishOK
  <2>4. AckedMeansHandled'
    BY <1>2, <2>2 DEF IInv, AckedMeansHandled
  <2>5. TypeOK'
    BY <1>2, <2>2, <2>3 DEF IInv, TypeOK
  <2> QED BY <1>3, <2>2, <2>3, <2>4, <2>5 DEF IInv
<1> QED BY <1>4, <1>5 DEF PersistFails

(* The ack, whether it reaches JetStream or not: the handler left a trace. *)
LEMMA AckStep ==
  ASSUME IInv, NEW i \in Instance, Ack(i)
  PROVE  IInv'
<1> USE DEF tables, lifecycle
<1>1. PICK m \in Message : job[i].msg = m /\ job[i] # None /\ HandledOnce(m)
  BY DeliveryFacts DEF IInv, TypeOK, JobInv, Ack
<1>2. LastTraced(m)'
  BY <1>1 DEF HandledOnce, LastTraced, Ack
<1>3. /\ pc' \in [Instance -> Step] /\ inbox' = inbox
      /\ job' \in [Instance -> Delivery \cup {None}]
      /\ \A j \in Instance : JobInv(j)'
      /\ \A j \in Instance : \A d \in Held(j)' : d.num <= delivered'[d.msg]
      /\ \A n \in Message :
           delivered'[n] = MaxDeliver => LastIsOut(n)' \/ LastTraced(n)'
  BY <1>1, <1>2, FinishOK DEF Ack
<1>4. AckReaches(m)
  BY <1>1 DEF Ack
<1>5. /\ status' \in [Message -> Status]
      /\ \A n \in Message : n # m => status'[n] = status[n]
      /\ status'[m] \in {status[m], "acked"}
  BY <1>1, <1>4 DEF IInv, TypeOK, AckReaches, Status
<1>6. \A n \in Message : StreamInv(n)'
  <2>1. \A n \in Message : status'[n] \in {status[n], "acked"} /\ delivered' = delivered
    BY <1>5 DEF Ack
  <2> QED BY <2>1 DEF IInv, StreamInv
<1>7. TypeOK'
  BY <1>3, <1>5 DEF IInv, TypeOK, Ack
<1>8. AckedMeansHandled'
  BY <1>1, <1>5 DEF IInv, AckedMeansHandled, HandledOnce, Ack
<1>9. DeadLetterIsTerminal'
  BY DEF IInv, DeadLetterIsTerminal, Ack
<1> QED BY <1>3, <1>6, <1>7, <1>8, <1>9 DEF IInv
-----------------------------------------------------------------------------
LEMMA StartStep ==
  ASSUME IInv, NEW i \in Instance, Start(i)
  PROVE  IInv'
<1> USE DEF tables, lifecycle
<1>1. TypeOK'
  BY DEF IInv, TypeOK, Start, Step
<1>2. \A j \in Instance : JobInv(j)'
  <2>1. \A j \in Instance : j # i => pc'[j] = pc[j] /\ job'[j] = job[j]
    BY DEF IInv, TypeOK, Start
  <2>2. \A j \in Instance : j # i => JobInv(j)'
    BY <2>1, OtherJobs DEF Start
  <2>3. JobInv(i)'
    BY DEF IInv, TypeOK, JobInv, Start
  <2> QED BY <2>2, <2>3
<1>3. \A j \in Instance : Held(j)' = Held(j)
  BY DEF Held, Start
<1>4. \A n \in Message : StreamInv(n)' /\ LastIsOut(n)' = LastIsOut(n)
                         /\ LastTraced(n)' = LastTraced(n)
  BY <1>3 DEF IInv, StreamInv, LastIsOut, LastTraced, Start
<1>5. AckedMeansHandled' /\ DeadLetterIsTerminal'
  BY DEF IInv, AckedMeansHandled, DeadLetterIsTerminal, Start
<1> QED BY <1>1, <1>2, <1>3, <1>4, <1>5 DEF IInv, Start

(* A stopping instance takes its deliveries with it; the last ones among   *)
(* them are recorded in dropped.                                           *)
LEMMA HaltOK ==
  ASSUME IInv, NEW i \in Instance, Halt(i), UNCHANGED <<delivered, tables>>
  PROVE  /\ pc' \in [Instance -> Step]
         /\ inbox' \in [Instance -> SUBSET Delivery]
         /\ job' \in [Instance -> Delivery \cup {None}]
         /\ dropped' \subseteq Message
         /\ stops' \in 0..MaxStops
         /\ \A j \in Instance : JobInv(j)'
         /\ \A j \in Instance : \A d \in Held(j)' : d.num <= delivered'[d.msg]
         /\ \A n \in Message :
              delivered'[n] = MaxDeliver => LastIsOut(n)' \/ LastTraced(n)'
<1> USE DEF tables
<1>1. /\ pc' \in [Instance -> Step]
      /\ inbox' \in [Instance -> SUBSET Delivery]
      /\ job' \in [Instance -> Delivery \cup {None}]
      /\ pc'[i] = "down" /\ inbox'[i] = {} /\ job'[i] = None
      /\ \A j \in Instance : j # i => /\ pc'[j] = pc[j]
                                     /\ inbox'[j] = inbox[j]
                                     /\ job'[j] = job[j]
  BY DEF IInv, TypeOK, Halt, Step
<1>2. stops' \in 0..MaxStops
  BY PipelineAssumption DEF IInv, TypeOK, Halt
<1>3. /\ dropped' = dropped \cup {d.msg : d \in {x \in Held(i) : x.num = MaxDeliver}}
      /\ \A d \in Held(i) : d.msg \in Message
  BY HeldFacts, DeliveryFacts DEF IInv, Halt
<1>4. dropped' \subseteq Message
  BY <1>3 DEF IInv, TypeOK
<1>5. \A j \in Instance : JobInv(j)'
  BY <1>1, OtherJobs DEF JobInv
<1>6. Held(i)' = {} /\ \A j \in Instance : j # i => Held(j)' = Held(j)
  BY <1>1 DEF Held
<1>7. ASSUME NEW n \in Message, delivered'[n] = MaxDeliver
      PROVE  LastIsOut(n)' \/ LastTraced(n)'
  <2>1. LastTraced(n) => LastTraced(n)'
    BY <1>3 DEF LastTraced
  <2>2. ASSUME LastIsOut(n) PROVE LastIsOut(n)' \/ LastTraced(n)'
    <3>1. PICK j \in Instance : \E d \in Held(j) : d.msg = n /\ d.num = MaxDeliver
      BY <2>2 DEF LastIsOut
    <3>2. PICK d \in Held(j) : d.msg = n /\ d.num = MaxDeliver
      BY <3>1
    <3>3. CASE j = i
      BY <1>3, <3>2, <3>3 DEF LastTraced
    <3>4. CASE j # i
      BY <1>6, <3>2, <3>4 DEF LastIsOut
    <3> QED BY <3>3, <3>4
  <2> QED BY <1>7, <2>1, <2>2 DEF IInv
<1> QED BY <1>1, <1>2, <1>4, <1>5, <1>6, <1>7 DEF IInv

LEMMA CrashStep ==
  ASSUME IInv, NEW i \in Instance, Crash(i)
  PROVE  IInv'
<1>1. /\ pc' \in [Instance -> Step]
      /\ inbox' \in [Instance -> SUBSET Delivery]
      /\ job' \in [Instance -> Delivery \cup {None}]
      /\ dropped' \subseteq Message
      /\ stops' \in 0..MaxStops
      /\ \A j \in Instance : JobInv(j)'
      /\ \A j \in Instance : \A d \in Held(j)' : d.num <= delivered'[d.msg]
      /\ \A n \in Message :
           delivered'[n] = MaxDeliver => LastIsOut(n)' \/ LastTraced(n)'
  BY HaltOK DEF Crash
<1>2. TypeOK'
  BY <1>1 DEF IInv, TypeOK, Crash, tables
<1>3. \A n \in Message : StreamInv(n)'
  BY DEF IInv, StreamInv, Crash
<1>4. AckedMeansHandled' /\ DeadLetterIsTerminal'
  BY DEF IInv, AckedMeansHandled, DeadLetterIsTerminal, Crash, tables
<1> QED BY <1>1, <1>2, <1>3, <1>4 DEF IInv

LEMMA CloseStep ==
  ASSUME IInv, NEW i \in Instance, Close(i)
  PROVE  IInv'
<1>1. /\ pc' \in [Instance -> Step]
      /\ inbox' \in [Instance -> SUBSET Delivery]
      /\ job' \in [Instance -> Delivery \cup {None}]
      /\ dropped' \subseteq Message
      /\ stops' \in 0..MaxStops
      /\ \A j \in Instance : JobInv(j)'
      /\ \A j \in Instance : \A d \in Held(j)' : d.num <= delivered'[d.msg]
      /\ \A n \in Message :
           delivered'[n] = MaxDeliver => LastIsOut(n)' \/ LastTraced(n)'
  BY HaltOK DEF Close
<1>2. UNCHANGED <<delivered, tables>>
  BY DEF Close
<1>3. /\ status' \in [Message -> Status]
      /\ \A n \in Message : status'[n] \in {status[n], "skipped"}
                           /\ (status'[n] = "unsent" => status[n] = "unsent")
  BY DEF IInv, TypeOK, Close, Status
<1>4. durable' \in BOOLEAN /\ creator' \in Instance \cup {None} /\ bound' \subseteq Instance
  BY DEF IInv, TypeOK, Close
<1>5. TypeOK'
  BY <1>1, <1>2, <1>3, <1>4 DEF IInv, TypeOK, tables
<1>6. \A n \in Message : StreamInv(n)'
  BY <1>2, <1>3 DEF IInv, StreamInv
<1>7. AckedMeansHandled' /\ DeadLetterIsTerminal'
  BY <1>2, <1>3 DEF IInv, AckedMeansHandled, DeadLetterIsTerminal, tables
<1> QED BY <1>1, <1>5, <1>6, <1>7 DEF IInv
-----------------------------------------------------------------------------
LEMMA NextIInv == IInv /\ [Next]_vars => IInv'
<1> SUFFICES ASSUME IInv, [Next]_vars PROVE IInv'
  OBVIOUS
<1>1. CASE UNCHANGED vars
  <2> USE <1>1 DEF vars, consumer, handler, tables, lifecycle
  <2>1. TypeOK' /\ AckedMeansHandled' /\ DeadLetterIsTerminal'
    BY DEF IInv, TypeOK, AckedMeansHandled, DeadLetterIsTerminal
  <2>2. \A i \in Instance : JobInv(i)' /\ Held(i)' = Held(i)
    BY DEF IInv, JobInv, HandledOnce, Held
  <2>3. \A m \in Message : StreamInv(m)' /\ LastIsOut(m)' = LastIsOut(m)
                           /\ LastTraced(m)' = LastTraced(m)
    BY <2>2 DEF IInv, StreamInv, LastIsOut, LastTraced
  <2> QED BY <2>1, <2>2, <2>3 DEF IInv
<1>2. ASSUME NEW m \in Message, Publish(m) PROVE IInv'
  BY <1>2, PublishStep
<1>3. ASSUME NEW m \in Message, AckWaitExpires(m) PROVE IInv'
  BY <1>3, AckWaitExpiresStep
<1>4. ASSUME NEW m \in Message, NEW i \in Instance, Deliver(m, i) PROVE IInv'
  BY <1>4, DeliverStep
<1>5. ASSUME NEW i \in Instance, Handle(i) PROVE IInv'
  BY <1>5, ReceiveStep, PersistTelemetryStep, PersistFailsStep,
     ProcessEventStep, PublishDLQStep, AckStep DEF Handle
<1>6. ASSUME NEW i \in Instance, Start(i) \/ Crash(i) \/ Close(i) PROVE IInv'
  BY <1>6, StartStep, CrashStep, CloseStep
<1> QED BY <1>1, <1>2, <1>3, <1>4, <1>5, <1>6 DEF Next

LEMMA IInvHolds == Spec => []IInv
BY InitIInv, NextIInv, PTL DEF Spec

(* The stream, the consumer and the handlers always have their types: no   *)
(* message is delivered more than MaxDeliver times, retries, lost acks and *)
(* expired AckWaits included (consumer.go, nats.MaxDeliver).               *)
THEOREM TypeCorrect == Spec => []TypeOK
<1>1. IInv => TypeOK
  BY DEF IInv
<1> QED BY <1>1, IInvHolds, PTL

(* An acknowledged message was persisted and evaluated, or its dead letter *)
(* was at least tried, whichever copy of it was acknowledged and by which  *)
(* instance (handleMessage, which acks last).                              *)
THEOREM AckedIsHandled == Spec => []AckedMeansHandled
<1>1. IInv => AckedMeansHandled
  BY DEF IInv
<1> QED BY <1>1, IInvHolds, PTL

(* A message that JetStream gave up and no instance holds left a trace:    *)
(* its event is persisted, its dead letter was tried, or its last delivery *)
(* died with an instance.                                                  *)
THEOREM ExhaustedIsTraced == Spec => []ExhaustedMeansTraced
<1>1. IInv => ExhaustedMeansTraced
  BY DEF IInv, StreamInv, ExhaustedMeansTraced, Copies, LastIsOut, LastTraced
<1> QED BY <1>1, IInvHolds, PTL

(* A decodable event is dead-lettered only after MaxDeliver deliveries     *)
(* (handleTerminalFailure on meta.NumDelivered >= maxDeliver).             *)
THEOREM DeadLettersAreTerminal == Spec => []DeadLetterIsTerminal
<1>1. IInv => DeadLetterIsTerminal
  BY DEF IInv
<1> QED BY <1>1, IInvHolds, PTL
=============================================================================
