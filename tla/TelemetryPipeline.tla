-------------------------- MODULE TelemetryPipeline --------------------------
(***************************************************************************)
(* Telemetry on its way from the HTTP handler to the readings table: the   *)
(* publisher stores a message in the JetStream stream, the durable         *)
(* consumer delivers it to one of the processor instances (queue group     *)
(* "telemetry-processor"), and the instance persists the event, runs the   *)
(* alert rules and acknowledges, asks for a retry, or moves the message to *)
(* the dead-letter subject.                                                *)
(*                                                                         *)
(* JetStream and the NATS client are external: what is modelled of them is *)
(* what the options given in consumer.go select (explicit acks, AckWait,   *)
(* MaxDeliver, DeliverNew, a durable consumer that the client deletes when *)
(* the subscription that created it is unsubscribed).  Any call may fail   *)
(* before or after it took effect, and an instance may stop at any step.   *)
(***************************************************************************)
EXTENDS Integers, FiniteSets

CONSTANTS
  Event,         \* telemetry events, identified by (event_id, ts)
  Undecodable,   \* those whose payload decodeAndNormalizeEvent rejects
  Instance,      \* processes that run the HTTP server and the processor
  MaxDeliver,    \* PROCESSOR_MAX_DELIVER
  MaxPublish,    \* bound: publications of one event, retries included
  MaxStops,      \* bound: times an instance stops
  None           \* no delivery, no instance

ASSUME PipelineAssumption ==
  /\ Undecodable \subseteq Event
  /\ MaxDeliver \in Nat \ {0}
  /\ MaxPublish \in Nat \ {0}
  /\ MaxStops \in Nat

(* The stream: one message for each publication that reached it. *)
Message == Event \X (1..MaxPublish)
EventOf(m) == m[1]
Delivery == [msg : Message, num : 1..MaxDeliver]

ASSUME NoneAssumption == None \notin Delivery

VARIABLES
  status,     \* where each message stands in the durable consumer
  delivered,  \* NumDelivered of each message
  durable,    \* whether the durable consumer exists
  creator,    \* the running instance whose subscription created it
  bound,      \* the instances subscribed to the consumer
  inbox,      \* deliveries waiting in each instance's client
  job,        \* the delivery each instance handles
  pc,         \* the next step of that handler
  persisted,  \* events in telemetry_readings
  dlq,        \* messages whose dead letter is in the stream
  evaluated,  \* history: events alerts.ProcessEvent was called for
  unrecorded, \* history: messages one of whose dead letters was not stored
  dropped,    \* history: messages whose last delivery died with an instance
  stops       \* instance stops so far

consumer == <<status, delivered, durable, creator, bound>>
handler == <<inbox, job, pc>>
tables == <<persisted, dlq, evaluated, unrecorded>>
lifecycle == <<dropped, stops>>
vars == <<consumer, handler, tables, lifecycle>>

Status == {"unsent", "ready", "outstanding", "acked", "exhausted", "skipped"}
Step == {"down", "idle", "persist", "alert", "dlq", "ack"}

Stored == {m \in Message : status[m] # "unsent"}

(* The deliveries an instance would lose by stopping now. *)
Held(i) == inbox[i] \cup ({job[i]} \ {None})

(* Some instance has yet to finish a delivery of m. *)
Copies(m) == \E i \in Instance : \E d \in Held(i) : d.msg = m
-----------------------------------------------------------------------------
Init ==
  /\ status = [m \in Message |-> "unsent"]
  /\ delivered = [m \in Message |-> 0]
  /\ durable = FALSE
  /\ creator = None
  /\ bound = {}
  /\ inbox = [i \in Instance |-> {}]
  /\ job = [i \in Instance |-> None]
  /\ pc = [i \in Instance |-> "down"]
  /\ persisted = {} /\ dlq = {} /\ evaluated = {} /\ unrecorded = {}
  /\ dropped = {}
  /\ stops = 0

(* The HTTP handler publishes the event and the stream stores it.  An      *)
(* error of Publish (503) does not say whether it did, nor does a lost     *)
(* answer, so a client may send an event again: the messages of an event   *)
(* are its publications that were stored.  A consumer that does not exist  *)
(* at that moment will start after the message (DeliverNew).               *)
Publish(m) ==
  /\ status[m] = "unsent"
  /\ \A k \in 1..(m[2] - 1) : status[<<EventOf(m), k>>] # "unsent"
  /\ \E i \in Instance : pc[i] # "down"
  /\ status' = [status EXCEPT ![m] = IF durable THEN "ready" ELSE "skipped"]
  /\ UNCHANGED <<delivered, durable, creator, bound, handler, tables,
                 lifecycle>>
-----------------------------------------------------------------------------
(* JetStream delivers a message to one member of the queue group. *)
Deliver(m, i) ==
  /\ status[m] = "ready"
  /\ i \in bound
  /\ status' = [status EXCEPT ![m] = "outstanding"]
  /\ delivered' = [delivered EXCEPT ![m] = @ + 1]
  /\ inbox' = [inbox EXCEPT ![i] =
                 @ \cup {[msg |-> m, num |-> delivered'[m]]}]
  /\ UNCHANGED <<durable, creator, bound, job, pc, tables, lifecycle>>

(* Mutant of Requeue: the consumer is created without MaxDeliver. *)
RequeueForever(m) == status' = [status EXCEPT ![m] = "ready"]

(* The consumer is created with MaxDeliver: after so many deliveries       *)
(* JetStream gives a message up.                                           *)
Requeue(m) ==
  status' = [status EXCEPT ![m] =
               IF delivered[m] < MaxDeliver THEN "ready" ELSE "exhausted"]

(* AckWait runs out, whether or not a handler still works on the message.  *)
AckWaitExpires(m) ==
  /\ status[m] = "outstanding"
  /\ Requeue(m)
  /\ UNCHANGED <<delivered, durable, creator, bound, handler, tables,
                 lifecycle>>

(* An ack or a nak may be lost, and only counts while it is awaited. *)
AckReaches(m) ==
  \/ status[m] = "outstanding" /\ status' = [status EXCEPT ![m] = "acked"]
  \/ UNCHANGED status

NakReaches(m) ==
  \/ status[m] = "outstanding" /\ Requeue(m)
  \/ UNCHANGED status
-----------------------------------------------------------------------------
(* The handler of instance i goes on, or is done with its message. *)
Goto(i, step) == pc' = [pc EXCEPT ![i] = step] /\ UNCHANGED <<inbox, job>>

Finish(i) ==
  /\ pc' = [pc EXCEPT ![i] = "idle"]
  /\ job' = [job EXCEPT ![i] = None]
  /\ UNCHANGED inbox

(* handleMessage starts: it decodes the payload. *)
Receive(i) ==
  /\ pc[i] = "idle"
  /\ \E d \in inbox[i] :
       /\ inbox' = [inbox EXCEPT ![i] = @ \ {d}]
       /\ job' = [job EXCEPT ![i] = d]
       /\ pc' = [pc EXCEPT ![i] = IF EventOf(d.msg) \in Undecodable
                                  THEN "dlq" ELSE "persist"]
  /\ UNCHANGED <<consumer, tables, lifecycle>>

(* Mutant of PersistTelemetry: the message is acknowledged before alerts.  *)
PersistWithoutAlerts(i) ==
  /\ pc[i] = "persist"
  /\ persisted' = persisted \cup {EventOf(job[i].msg)}
  /\ Goto(i, "ack")
  /\ UNCHANGED <<consumer, dlq, evaluated, unrecorded, lifecycle>>

(* PersistTelemetry commits; ON CONFLICT (event_id, ts) DO NOTHING. *)
PersistTelemetry(i) ==
  /\ pc[i] = "persist"
  /\ persisted' = persisted \cup {EventOf(job[i].msg)}
  /\ Goto(i, "alert")
  /\ UNCHANGED <<consumer, dlq, evaluated, unrecorded, lifecycle>>

(* Mutant of PersistFails: one delivery too few. *)
PersistFailsEarly(i) ==
  /\ pc[i] = "persist"
  /\ IF job[i].num + 1 >= MaxDeliver
     THEN Goto(i, "dlq") /\ UNCHANGED status
     ELSE Finish(i) /\ NakReaches(job[i].msg)
  /\ UNCHANGED <<delivered, durable, creator, bound, tables, lifecycle>>

(* Mutant of PersistFails: the last delivery asks for a retry as well. *)
PersistFailsAlwaysNak(i) ==
  /\ pc[i] = "persist"
  /\ Finish(i)
  /\ NakReaches(job[i].msg)
  /\ UNCHANGED <<delivered, durable, creator, bound, tables, lifecycle>>

(* PersistTelemetry returns an error, though the commit may have gone      *)
(* through: retry with NakWithDelay, or give up on the last delivery.      *)
PersistFails(i) ==
  /\ pc[i] = "persist"
  /\ \/ UNCHANGED persisted
     \/ persisted' = persisted \cup {EventOf(job[i].msg)}
  /\ \/ /\ job[i].num >= MaxDeliver
        /\ Goto(i, "dlq")
        /\ UNCHANGED status
     \/ /\ job[i].num < MaxDeliver
        /\ Finish(i)
        /\ NakReaches(job[i].msg)
  /\ UNCHANGED <<delivered, durable, creator, bound, dlq, evaluated,
                 unrecorded, lifecycle>>

(* alerts.ProcessEvent; its errors are only logged. *)
ProcessEvent(i) ==
  /\ pc[i] = "alert"
  /\ evaluated' = evaluated \cup {EventOf(job[i].msg)}
  /\ Goto(i, "ack")
  /\ UNCHANGED <<consumer, persisted, dlq, unrecorded, lifecycle>>

(* handleTerminalFailure publishes the dead letter and goes on to the ack  *)
(* whether it was stored or not: the error of publishDLQ is only logged.   *)
PublishDLQ(i) ==
  /\ pc[i] = "dlq"
  /\ \/ dlq' = dlq \cup {job[i].msg} /\ UNCHANGED unrecorded
     \/ unrecorded' = unrecorded \cup {job[i].msg} /\ UNCHANGED dlq
  /\ Goto(i, "ack")
  /\ UNCHANGED <<consumer, persisted, evaluated, lifecycle>>

(* Mutant of Ack: it is repeated until JetStream has counted it. *)
AckUntilConfirmed(i) ==
  /\ pc[i] = "ack"
  /\ status[job[i].msg] = "outstanding"
  /\ status' = [status EXCEPT ![job[i].msg] = "acked"]
  /\ Finish(i)
  /\ UNCHANGED <<delivered, durable, creator, bound, tables, lifecycle>>

(* msg.Ack ends the handler, whether it reaches JetStream or not. *)
Ack(i) ==
  /\ pc[i] = "ack"
  /\ AckReaches(job[i].msg)
  /\ Finish(i)
  /\ UNCHANGED <<delivered, durable, creator, bound, tables, lifecycle>>
-----------------------------------------------------------------------------
(* Consumer.Start binds to the durable consumer, or creates it, to deliver *)
(* the messages stored from now on.                                        *)
Start(i) ==
  /\ pc[i] = "down"
  /\ pc' = [pc EXCEPT ![i] = "idle"]
  /\ bound' = bound \cup {i}
  /\ durable' = TRUE
  /\ creator' = IF durable THEN creator ELSE i
  /\ UNCHANGED <<status, delivered, inbox, job, tables, lifecycle>>

(* What a stopping instance takes with it. *)
Halt(i) ==
  /\ pc[i] # "down"
  /\ stops < MaxStops
  /\ stops' = stops + 1
  /\ pc' = [pc EXCEPT ![i] = "down"]
  /\ dropped' = dropped \cup {d.msg : d \in {x \in Held(i) :
                                               x.num = MaxDeliver}}
  /\ inbox' = [inbox EXCEPT ![i] = {}]
  /\ job' = [job EXCEPT ![i] = None]

(* The process dies: the consumer stays, its deliveries time out. *)
Crash(i) ==
  /\ Halt(i)
  /\ bound' = bound \ {i}
  /\ creator' = IF creator = i THEN None ELSE creator
  /\ UNCHANGED <<status, delivered, durable, tables>>

(* Consumer.Close on the way out of Run.  Unsubscribe deletes the consumer *)
(* if this subscription created it, with its backlog: the next one starts  *)
(* at the end of the stream, and the other instances get nothing more.     *)
Close(i) ==
  /\ Halt(i)
  /\ \/ /\ creator = i
        /\ creator' = None
        /\ durable' = FALSE
        /\ bound' = {}
        /\ status' = [m \in Message |->
                        IF status[m] \in {"ready", "outstanding"}
                        THEN "skipped" ELSE status[m]]
     \/ /\ creator # i
        /\ bound' = bound \ {i}
        /\ UNCHANGED <<durable, creator, status>>
  /\ UNCHANGED <<delivered, tables>>

Handle(i) == \/ Receive(i) \/ PersistTelemetry(i) \/ PersistFails(i)
             \/ ProcessEvent(i) \/ PublishDLQ(i) \/ Ack(i)

Next ==
  \/ \E m \in Message : \/ Publish(m)
                        \/ AckWaitExpires(m)
                        \/ \E i \in Instance : Deliver(m, i)
  \/ \E i \in Instance : Handle(i) \/ Start(i) \/ Crash(i) \/ Close(i)

Spec == Init /\ [][Next]_vars

(* A running handler goes on: every call it makes has a timeout.  JetStream*)
(* delivers what is ready and expires AckWait.  Nothing restarts an        *)
(* instance that stopped: the compose file gives ingest-api no policy.     *)
Fairness ==
  /\ \A m \in Message : /\ WF_vars(\E i \in Instance : Deliver(m, i))
                        /\ WF_vars(AckWaitExpires(m))
  /\ \A i \in Instance : WF_vars(Handle(i))

FairSpec == Spec /\ Fairness
-----------------------------------------------------------------------------
(* Types of the stream, of the consumer and of the handlers. *)
TypeOK ==
  /\ status \in [Message -> Status]
  /\ delivered \in [Message -> 0..MaxDeliver]
  /\ durable \in BOOLEAN
  /\ creator \in Instance \cup {None}
  /\ bound \subseteq Instance
  /\ inbox \in [Instance -> SUBSET Delivery]
  /\ job \in [Instance -> Delivery \cup {None}]
  /\ pc \in [Instance -> Step]
  /\ persisted \subseteq Event /\ evaluated \subseteq Event
  /\ dlq \subseteq Message /\ unrecorded \subseteq Message
  /\ dropped \subseteq Message
  /\ stops \in 0..MaxStops

(* An acknowledged message was handled to the end, whichever of its copies *)
(* was acknowledged: its event is persisted and the alert rules ran on it, *)
(* or its dead letter was at least tried (handleMessage acks last).        *)
AckedMeansHandled ==
  \A m \in Message : status[m] = "acked" =>
    \/ EventOf(m) \in persisted \cap evaluated
    \/ m \in dlq \cup unrecorded

(* Only two things can lose a message that JetStream has given up: the     *)
(* dead letter could not be published, or an instance stopped while it had *)
(* the last delivery.                                                      *)
ExhaustedMeansTraced ==
  \A m \in Message :
    status[m] = "exhausted" /\ ~Copies(m) =>
       \/ EventOf(m) \in persisted
       \/ m \in dlq \cup unrecorded \cup dropped

(* D36: the dead letter comes "cuando se alcanza PROCESSOR_MAX_DELIVER":   *)
(* a decodable event is never dead-lettered while it has deliveries left,  *)
(* whichever instances its copies went to.                                 *)
DeadLetterIsTerminal ==
  \A m \in dlq : EventOf(m) \in Undecodable \/ delivered[m] = MaxDeliver

(* As long as some instance stays subscribed, every stored message comes   *)
(* to rest: acknowledged, given up, or left behind by a deleted consumer,  *)
(* with no handler still working on a copy, however the other instances    *)
(* stop and whichever acks are lost.                                       *)
EveryMessageSettles ==
  <>[](bound # {}) =>
    \A m \in Message :
      m \in Stored ~>
        /\ status[m] \in {"acked", "exhausted", "skipped"}
        /\ ~Copies(m)

(* D36: "fallas persistentes quedan trazables en DLQ": a message that was  *)
(* acknowledged is either in the readings or in the dead letters.          *)
TerminalFailureTraced ==
  \A m \in Message : status[m] = "acked" =>
    EventOf(m) \in persisted \/ m \in dlq

(* D36: "suscripcion durable en JetStream (`Durable`, ...)": a message that *)
(* is stored stays with the consumer when processors stop and restart.     *)
BacklogSurvivesRestart ==
  \A m \in Message : status[m] # "skipped"
=============================================================================
