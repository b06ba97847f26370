---------------------------- MODULE AlertPipeline ----------------------------
(***************************************************************************)
(* Alerts of the ingest-api: alerts.Service.ProcessEvent upserts one row   *)
(* per rule that fires (PostgresRepository.UpsertAlert, which suppresses   *)
(* what repeats within a window) and hands what is to be notified to the   *)
(* Dispatcher, whose workers try every channel and record the results.     *)
(*                                                                         *)
(* Each instance of the process has one handler (the NATS subscription     *)
(* calls it for one message at a time), one bounded queue and its workers; *)
(* the instances share the database.  The rules are those of one miner: a  *)
(* rule stands for the fingerprint rule_id|miner_id.                       *)
(***************************************************************************)
EXTENDS Integers, Sequences, FiniteSets, FiniteSetsExt

CONSTANTS
  Instance,       \* processes that run the processor
  Rule,           \* rules of the engine, numbered in evaluation order
  Firing,         \* the sets of rules one event may fire
  Time,           \* values of ObservedAt
  Window,         \* ALERT_SUPPRESS_WINDOW
  WorkerCount,    \* workers of each dispatcher
  QueueSize,      \* capacity of each dispatcher's queue
  MaxRetries,     \* attempts on each channel
  MaxEvents,      \* bound: deliveries handled, redeliveries included
  None            \* no row, no lock, no job

ASSUME AlertAssumption ==
  /\ Rule \subseteq Nat
  /\ Firing \subseteq (SUBSET Rule) \ {{}}
  /\ Time \subseteq Nat
  /\ {Window, WorkerCount, QueueSize, MaxRetries} \subseteq Nat \ {0}
  /\ MaxEvents \in Nat

(* The notifiers, in the order app.Run configures them. *)
Channel == <<"webhook", "email">>

VARIABLES
  alerts,     \* the active row of each fingerprint
  lock,       \* the handler whose transaction holds the row (FOR UPDATE)
  audit,      \* table alert_notifications
  life,       \* life cycle of each process
  handler,    \* ProcessEvent in each process
  queue,      \* Dispatcher.jobs of each process
  worker,     \* the workers of each process
  received,   \* deliveries handled so far
  log,        \* history: the committed upserts of each fingerprint
  concluded,  \* history: <<job, channel>> whose last attempt has ended
  lost        \* history: jobs given up before every channel was tried

database == <<alerts, lock, audit>>
history == <<log, concluded, lost>>
vars == <<database, life, handler, queue, worker, received, history>>

(* A decision to notify: the k-th upsert of a fingerprint. *)
Job == Rule \X (1..MaxEvents)
Worker == 1..WorkerCount

(* The columns of table alerts that an upsert or a notification writes. *)
Row == [status : {"open", "suppressed"}, until : Nat, notifyCount : Nat]

ASSUME NoneAssumption == None \notin Instance \cup Job \cup Row

IdleHandler == [step |-> "idle", at |-> 0, todo |-> {}, seen |-> 0,
                job |-> None]
IdleWorker == [step |-> "idle", job |-> None, channel |-> 1, attempt |-> 1]
StoppedWorker == [IdleWorker EXCEPT !.step = "stopped"]

Init ==
  /\ alerts = [r \in Rule |-> None]
  /\ lock = [r \in Rule |-> None]
  /\ audit = {}
  /\ life = [i \in Instance |-> "running"]
  /\ handler = [i \in Instance |-> IdleHandler]
  /\ queue = [i \in Instance |-> <<>>]
  /\ worker = [i \in Instance |-> [w \in Worker |-> IdleWorker]]
  /\ received = 0
  /\ log = [r \in Rule |-> <<>>]
  /\ concluded = {}
  /\ lost = {}
-----------------------------------------------------------------------------
(* The rule whose alert the handler of i is at. *)
Current(i) == Min(handler[i].todo)

(* The handler goes to its next statement, or on to its next candidate. *)
Goto(i, step) == handler' = [handler EXCEPT ![i].step = step]

Continue(i) ==
  LET rest == handler[i].todo \ {Current(i)}
  IN handler' = [handler EXCEPT ![i] =
       IF rest = {} THEN IdleHandler
       ELSE [IdleHandler EXCEPT !.step = "query", !.at = handler[i].at,
                                !.todo = rest]]

Unlock(i) == lock' = [r \in Rule |-> IF lock[r] = i THEN None ELSE lock[r]]

(* A delivery arrives, in any order and possibly again; rules fire on it.  *)
Receive(i) ==
  /\ life[i] = "running"
  /\ handler[i].step = "idle"
  /\ received < MaxEvents
  /\ received' = received + 1
  /\ \E t \in Time, fired \in Firing :
       handler' = [handler EXCEPT ![i] =
         [IdleHandler EXCEPT !.step = "query", !.at = t, !.todo = fired]]
  /\ UNCHANGED <<database, life, queue, worker, history>>

(* Mutant of QueryActiveAlert: SELECT without FOR UPDATE. *)
QueryWithoutLock(i) ==
  LET r == Current(i)
  IN /\ handler[i].step = "query"
     /\ IF alerts[r] = None
        THEN Goto(i, "insert")
        ELSE handler' = [handler EXCEPT ![i].step = "update",
                                        ![i].seen = alerts[r].until]
     /\ UNCHANGED <<database, life, queue, worker, received, history>>

(* SELECT the active row of the fingerprint FOR UPDATE. *)
QueryActiveAlert(i) ==
  LET r == Current(i)
  IN /\ handler[i].step = "query"
     /\ \/ /\ alerts[r] = None
           /\ Goto(i, "insert")
           /\ UNCHANGED lock
        \/ /\ alerts[r] # None
           /\ lock[r] = None
           /\ lock' = [lock EXCEPT ![r] = i]
           /\ handler' = [handler EXCEPT ![i].step = "update",
                                         ![i].seen = alerts[r].until]
     /\ UNCHANGED <<alerts, audit, life, queue, worker, received, history>>

(* The rows an upsert leaves.  last_seen_at and suppression_until always   *)
(* follow the event at hand, be it older than the last one.                *)
NewAlert(at) == [status |-> "open", until |-> at + Window, notifyCount |-> 0]

SeenAgain(row, at, suppressed) ==
  [row EXCEPT !.status = IF suppressed THEN "suppressed" ELSE "open",
              !.until = at + Window]

Suppressed(i) ==
  handler[i].step = "update" /\ handler[i].at < handler[i].seen

(* The upsert of handler i commits. *)
CommitUpsert(i) ==
  LET r  == Current(i)
      at == handler[i].at
  IN /\ alerts' = [alerts EXCEPT ![r] =
                     IF handler[i].step = "insert" THEN NewAlert(at)
                     ELSE SeenAgain(@, at, Suppressed(i))]
     /\ log' = [log EXCEPT ![r] =
                  Append(@, [at |-> at, notify |-> ~Suppressed(i)])]

(* The job of the upsert that is about to commit. *)
NextJob(i) == <<Current(i), Len(log[Current(i)]) + 1>>

(* A partial unique index admits one active row of each fingerprint. *)
Writable(i) == \/ handler[i].step = "insert" /\ alerts[Current(i)] = None
               \/ handler[i].step = "update"

(* UpsertAlert returns: on to the Enqueue call, unless it was suppressed.  *)
UpsertAlert(i) ==
  /\ Writable(i)
  /\ CommitUpsert(i)
  /\ Unlock(i)
  /\ IF Suppressed(i) THEN Continue(i)
     ELSE handler' = [handler EXCEPT ![i].step = "check",
                                     ![i].job = NextJob(i)]
  /\ UNCHANGED <<audit, life, queue, worker, received, concluded, lost>>

(* UpsertAlert returns an error, which is logged: a statement failed, or   *)
(* another handler inserted the row first, or only the answer to the       *)
(* commit was lost; in that case nobody will notify.                       *)
UpsertFails(i) ==
  /\ handler[i].step \in {"query", "insert", "update"}
  /\ \/ UNCHANGED <<alerts, log, lost>>
     \/ /\ Writable(i)
        /\ CommitUpsert(i)
        /\ lost' = lost \cup (IF Suppressed(i) THEN {} ELSE {NextJob(i)})
  /\ Unlock(i)
  /\ Continue(i)
  /\ UNCHANGED <<audit, life, queue, worker, received, concluded>>

(* Dispatcher.Enqueue, first select: is the dispatcher closed? *)
EnqueueCheck(i) ==
  /\ handler[i].step = "check"
  /\ \/ life[i] = "running" /\ Goto(i, "send") /\ UNCHANGED lost
     \/ /\ life[i] = "closing"
        /\ lost' = lost \cup {handler[i].job}
        /\ Continue(i)
  /\ UNCHANGED <<database, life, queue, worker, received, log, concluded>>

(* Second select: the alert goes to the queue, unless the queue is full.   *)
EnqueueSend(i) ==
  /\ handler[i].step = "send"
  /\ life[i] = "running"
  /\ \/ /\ Len(queue[i]) < QueueSize
        /\ queue' = [queue EXCEPT ![i] = Append(@, handler[i].job)]
        /\ UNCHANGED lost
     \/ /\ Len(queue[i]) >= QueueSize
        /\ lost' = lost \cup {handler[i].job}
        /\ UNCHANGED queue
  /\ Continue(i)
  /\ UNCHANGED <<database, life, worker, received, log, concluded>>

Handle(i) == \/ QueryActiveAlert(i) \/ UpsertAlert(i) \/ UpsertFails(i)
             \/ EnqueueCheck(i) \/ EnqueueSend(i)
-----------------------------------------------------------------------------
SetWorker(i, w, state) == worker' = [worker EXCEPT ![i][w] = state]

(* An idle worker takes the next alert; once the dispatcher is closed the  *)
(* select picks at random between stopping and what is still queued.       *)
TakeJob(i, w) ==
  /\ worker[i][w].step = "idle"
  /\ queue[i] # <<>>
  /\ SetWorker(i, w, [IdleWorker EXCEPT !.step = "notify",
                                        !.job = Head(queue[i])])
  /\ queue' = [queue EXCEPT ![i] = Tail(@)]
  /\ UNCHANGED <<database, life, handler, received, history>>

(* Mutant of StopWorker: only a job makes the worker look at stopCh. *)
StopWorkerOnJob(i, w) ==
  /\ worker[i][w].step = "idle"
  /\ life[i] = "closing"
  /\ queue[i] # <<>>
  /\ SetWorker(i, w, StoppedWorker)
  /\ UNCHANGED <<database, life, handler, queue, received, history>>

StopWorker(i, w) ==
  /\ worker[i][w].step = "idle"
  /\ life[i] = "closing"
  /\ SetWorker(i, w, StoppedWorker)
  /\ UNCHANGED <<database, life, handler, queue, received, history>>

(* Mutant of Notify: one attempt too many (<= instead of <). *)
NotifyOnceMore(i, w) ==
  LET s == worker[i][w]
  IN /\ s.step = "notify"
     /\ \E step \in {"sent"} \cup (IF s.attempt <= MaxRetries THEN {"backoff"}
                                 ELSE {"failed"}) :
          SetWorker(i, w, [s EXCEPT !.step = step])
     /\ UNCHANGED <<database, life, handler, queue, received, history>>

(* One call of Notify.  A webhook that gets no response at all returns no  *)
(* destination; smtp.SendMail takes no context and may never return.       *)
Notify(i, w) ==
  LET s == worker[i][w]
      name == Channel[s.channel]
  IN /\ s.step = "notify"
     /\ \E step \in {"sent"} \cup
          (IF name = "email" THEN {"hung"} ELSE {}) \cup
          (IF s.attempt < MaxRetries THEN {"backoff"}
           ELSE IF name = "webhook" THEN {"failed", "unaddressed"}
           ELSE {"failed"}) :
          SetWorker(i, w, [s EXCEPT !.step = step])
     /\ UNCHANGED <<database, life, handler, queue, received, history>>

(* Mutant of Backoff: the attempts are not counted. *)
BackoffForever(i, w) ==
  LET s == worker[i][w]
  IN /\ s.step = "backoff"
     /\ IF life[i] = "closing"
        THEN SetWorker(i, w, IdleWorker) /\ lost' = lost \cup {s.job}
        ELSE SetWorker(i, w, [s EXCEPT !.step = "notify"]) /\ UNCHANGED lost
     /\ UNCHANGED <<database, life, handler, queue, received, log, concluded>>

(* The wait between two attempts; closing the dispatcher cuts it short and *)
(* gives up the alert, with the channels that are still to be tried.       *)
Backoff(i, w) ==
  LET s == worker[i][w]
  IN /\ s.step = "backoff"
     /\ \/ /\ SetWorker(i, w, [s EXCEPT !.step = "notify",
                                        !.attempt = @ + 1])
           /\ UNCHANGED lost
        \/ /\ life[i] = "closing"
           /\ SetWorker(i, w, IdleWorker)
           /\ lost' = lost \cup {s.job}
     /\ UNCHANGED <<database, life, handler, queue, received, log, concluded>>

(* RecordAlertNotification: one transaction inserts the result and, if it  *)
(* was sent, counts it on the alert.  Without a destination it refuses.    *)
RecordNotification(s) ==
  LET r == s.job[1]
  IN /\ s.step \in {"sent", "failed"}
     /\ lock[r] = None
     /\ audit' = audit \cup {[job |-> s.job, channel |-> Channel[s.channel],
                              status |-> s.step]}
     /\ alerts' = IF s.step = "sent"
                  THEN [alerts EXCEPT ![r].notifyCount = @ + 1] ELSE alerts

NextChannel(s) ==
  IF s.channel < Len(Channel)
  THEN [s EXCEPT !.step = "notify", !.channel = @ + 1, !.attempt = 1]
  ELSE IdleWorker

(* Mutant of NextState: a channel that failed ends the dispatch. *)
NextUnlessFailed(s) == IF s.step = "sent" THEN NextChannel(s) ELSE IdleWorker

(* Mutant of NextState: what was sent is sent again. *)
NextAttempt(s) ==
  IF s.attempt < MaxRetries
  THEN [s EXCEPT !.step = "notify", !.attempt = @ + 1] ELSE NextChannel(s)

(* What comes after a channel, whether it worked or not. *)
NextState(s) == NextChannel(s)

(* The result is recorded, or that fails and is only logged; then comes    *)
(* the next channel.  A wait for the row that ends is part of this step.   *)
Conclude(i, w) ==
  LET s == worker[i][w]
  IN /\ s.step \in {"sent", "failed", "unaddressed"}
     /\ RecordNotification(s) \/ UNCHANGED <<alerts, audit>>
     /\ concluded' = concluded \cup {<<s.job, Channel[s.channel]>>}
     /\ SetWorker(i, w, NextState(s))
     /\ UNCHANGED <<lock, life, handler, queue, received, log, lost>>

(* recordNotification passes on a context without a deadline: the call may *)
(* wait without end for a connection, for the row or for an answer, be it  *)
(* the answer to a commit.  Without a destination it returns before that.  *)
RecordHangs(i, w) ==
  LET s == worker[i][w]
  IN /\ s.step \in {"sent", "failed"}
     /\ RecordNotification(s) \/ UNCHANGED <<alerts, audit>>
     /\ concluded' = concluded \cup {<<s.job, Channel[s.channel]>>}
     /\ SetWorker(i, w, [s EXCEPT !.step = "hung"])
     /\ UNCHANGED <<lock, life, handler, queue, received, log, lost>>

Work(i, w) == \/ TakeJob(i, w) \/ StopWorker(i, w) \/ Notify(i, w)
              \/ Backoff(i, w) \/ Conclude(i, w) \/ RecordHangs(i, w)
-----------------------------------------------------------------------------
(* The jobs that process i holds, wherever they are. *)
Held(i) ==
  {job \in Job : \/ handler[i].job = job
                 \/ \E k \in DOMAIN queue[i] : queue[i][k] = job
                 \/ \E w \in Worker : worker[i][w].job = job}

(* The process ends: the server rolls its transaction back. *)
Halt(i, how) ==
  /\ life' = [life EXCEPT ![i] = how]
  /\ handler' = [handler EXCEPT ![i] = IdleHandler]
  /\ queue' = [queue EXCEPT ![i] = <<>>]
  /\ worker' = [worker EXCEPT ![i] = [w \in Worker |-> StoppedWorker]]
  /\ lost' = lost \cup Held(i)
  /\ Unlock(i)
  /\ UNCHANGED <<alerts, audit, received, log, concluded>>

(* Run returns on a signal; Dispatcher.Close closes stopCh and jobs.       *)
(* Consumer.Close, before it, does not wait for a handler under way.       *)
Close(i) ==
  /\ life[i] = "running"
  /\ life' = [life EXCEPT ![i] = "closing"]
  /\ UNCHANGED <<database, handler, queue, worker, received, history>>

(* A handler that found the dispatcher open sends on the closed channel.   *)
EnqueuePanics(i) ==
  /\ handler[i].step = "send"
  /\ life[i] = "closing"
  /\ Halt(i, "dead")

(* wg.Wait returns and the process exits. *)
Exit(i) ==
  /\ life[i] = "closing"
  /\ \A w \in Worker : worker[i][w].step = "stopped"
  /\ Halt(i, "dead")

Crash(i) == life[i] \in {"running", "closing"} /\ Halt(i, "dead")

Next == \E i \in Instance :
          \/ Receive(i) \/ Handle(i) \/ EnqueuePanics(i)
          \/ \E w \in Worker : Work(i, w)
          \/ Close(i) \/ Exit(i) \/ Crash(i)

Spec == Init /\ [][Next]_vars

(* Handlers, whose calls have a timeout, workers and the shutdown go on.   *)
(* Two calls of a worker have none and may never return, SendMail (Notify) *)
(* and the recording of a result (RecordHangs): a worker that hangs in one *)
(* has no further step, and no fairness makes it go on.                    *)
Fairness ==
  \A i \in Instance :
    /\ WF_vars(Handle(i) \/ EnqueuePanics(i))
    /\ \A w \in Worker : WF_vars(Work(i, w))
    /\ WF_vars(Exit(i))

FairSpec == Spec /\ Fairness
-----------------------------------------------------------------------------
HandlerStep == {"idle", "query", "insert", "update", "check", "send"}
WorkerStep == {"idle", "stopped", "notify", "backoff", "sent", "failed",
               "unaddressed", "hung"}

(* Types of the tables, of the handlers and of the dispatchers. *)
TypeOK ==
  /\ alerts \in [Rule -> Row \cup {None}]
  /\ lock \in [Rule -> Instance \cup {None}]
  /\ audit \subseteq [job : Job, channel : {"webhook", "email"},
                      status : {"sent", "failed"}]
  /\ life \in [Instance -> {"running", "closing", "dead"}]
  /\ handler \in [Instance -> [step : HandlerStep, at : Nat,
                               todo : SUBSET Rule, seen : Nat,
                               job : Job \cup {None}]]
  /\ \A i \in Instance : queue[i] \in Seq(Job) /\ Len(queue[i]) <= QueueSize
  /\ worker \in [Instance -> [Worker -> [step : WorkerStep,
                                         job : Job \cup {None},
                                         channel : 1..Len(Channel),
                                         attempt : 1..MaxRetries]]]
  /\ received \in 0..MaxEvents
  /\ lost \subseteq Job

(* D56: the first detection notifies, and a later one exactly when it lies *)
(* a window after the detection that was upserted just before it: handlers *)
(* that upsert the same fingerprint at once never both take the decision.  *)
SuppressionFollowsDetections ==
  \A r \in Rule : \A k \in DOMAIN log[r] :
    log[r][k].notify <=> \/ k = 1
                         \/ log[r][k].at >= log[r][k - 1].at + Window

(* The audit table and the counter on the alert agree although workers of  *)
(* different processes write them, and no decision gets two results on one *)
(* channel.                                                                *)
AuditAgrees ==
  /\ \A r \in Rule : alerts[r] # None =>
       alerts[r].notifyCount =
         Cardinality({a \in audit : a.job[1] = r /\ a.status = "sent"})
  /\ \A a, b \in audit : a.job = b.job /\ a.channel = b.channel => a = b

Done(job) == \A k \in DOMAIN Channel : <<job, Channel[k]>> \in concluded

(* A decision to notify cannot get lost on the way but for the reasons the *)
(* code knows (failed upsert, full or closed queue, shutdown, crash): it   *)
(* is in some process, or every channel has been tried, whether or not an  *)
(* earlier channel failed.                                                 *)
NoSilentLoss ==
  \A r \in Rule : \A k \in DOMAIN log[r] :
    log[r][k].notify =>
      LET job == <<r, k>>
      IN Done(job) \/ job \in lost \/ \E i \in Instance : job \in Held(i)

Hung(i) == \E w \in Worker : worker[i][w].step = "hung"

(* What the queue accepted is tried on every channel, or given up by the   *)
(* end of the process, unless a worker of the process hangs in SendMail or *)
(* in recording a result, calls to which the dispatcher sets no timeout.   *)
AcceptedJobsConclude ==
  \A i \in Instance, job \in Job :
    (\E k \in DOMAIN queue[i] : queue[i][k] = job)
      ~> (Done(job) \/ job \in lost \/ Hung(i))

(* Dispatcher.Close returns, whatever its workers are at, unless one of    *)
(* them hangs in SendMail or in recording a result.                        *)
ShutdownEnds ==
  \A i \in Instance : life[i] = "closing" ~> (life[i] = "dead" \/ Hung(i))

(* D58: "Detecciones repetidas dentro de ventana elevan `occurrences` sin  *)
(* ruido de re-notificacion": no detection is notified that lies within    *)
(* the window of one that was upserted before it.                          *)
NoRenotificationInsideWindow ==
  \A r \in Rule : \A j, k \in DOMAIN log[r] :
    j < k /\ log[r][k].notify =>
      ~(log[r][j].at <= log[r][k].at /\ log[r][k].at < log[r][j].at + Window)
=============================================================================
