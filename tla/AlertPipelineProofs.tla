------------------------- MODULE AlertPipelineProofs -------------------------
(***************************************************************************)
(* Proofs about AlertPipeline, for every set of instances and rules, every *)
(* window and every size of the queues and of the worker pools.  The       *)
(* argument has three threads.  The row of a fingerprint always carries    *)
(* the window of the detection that was committed last, and a handler that *)
(* is about to update it holds its lock, so the window it compares with is *)
(* that one.  A job is at one place only, a handler, a queue or a worker,  *)
(* and its worker has concluded exactly the channels before its own, so no *)
(* channel gets two results.  And every step that takes a job from its     *)
(* place puts it in the next one, or in lost, or has tried every channel.  *)
(***************************************************************************)
EXTENDS AlertPipeline, FiniteSetTheorems, WellFoundedInduction, TLAPS

HandlerState == [step : HandlerStep, at : Nat, todo : SUBSET Rule, seen : Nat,
                 job : Job \cup {None}]
WorkerState == [step : WorkerStep, job : Job \cup {None},
                channel : 1..Len(Channel), attempt : 1..MaxRetries]
Upsert == [at : Nat, notify : BOOLEAN]
ChannelName == {"webhook", "email"}

(* The results "sent" of a fingerprint, which its row counts. *)
Sent(r) == {a \in audit : a.job[1] = r /\ a.status = "sent"}

(* The row of a fingerprint follows its last committed upsert. *)
RowInv(r) ==
  /\ alerts[r] = None <=> log[r] = <<>>
  /\ alerts[r] # None =>
       /\ alerts[r].until = log[r][Len(log[r])].at + Window
       /\ alerts[r].notifyCount = Cardinality(Sent(r))

(* A job stands for an upsert that was committed. *)
Known(job) == job[2] <= Len(log[job[1]])

HandlerInv(i) ==
  LET h == handler[i]
  IN /\ h.step = "idle" <=> h.todo = {}
     /\ h.step \in {"check", "send"} <=> h.job # None
     /\ h.job # None => Known(h.job)
     /\ h.step = "update" => /\ lock[Current(i)] = i
                             /\ alerts[Current(i)] # None
                             /\ h.seen = alerts[Current(i)].until

WorkerInv(i, w) ==
  LET s == worker[i][w]
  IN /\ s.step \in {"idle", "stopped"} <=> s.job = None
     /\ s.step = "backoff" => s.attempt < MaxRetries
     /\ s.job # None =>
          /\ Known(s.job)
          /\ \A c \in 1..(s.channel - 1) : <<s.job, Channel[c]>> \in concluded

Queued(i, job) == \E k \in DOMAIN queue[i] : queue[i][k] = job

(* The jobs of a queue stand for committed upserts as well. *)
QueueInv(i) == \A k \in DOMAIN queue[i] : Known(queue[i][k])

(* A job is at one place: a handler, one position of a queue, or a worker. *)
OnePlace ==
  /\ \A i, j \in Instance :
       handler[i].job = handler[j].job /\ handler[i].job # None => i = j
  /\ \A i \in Instance, k, l \in Nat :
       k \in DOMAIN queue[i] /\ l \in DOMAIN queue[i]
         /\ queue[i][k] = queue[i][l] => k = l
  /\ \A i, j \in Instance, job \in Job :
       /\ Queued(i, job) /\ Queued(j, job) => i = j
       /\ Queued(i, job) => handler[j].job # job
       /\ \A w \in Worker : worker[i][w].job = job =>
            /\ handler[j].job # job
            /\ ~Queued(j, job)
            /\ \A v \in Worker : worker[j][v].job = job => i = j /\ w = v

(* The channels that a worker will not try again: those before its own,    *)
(* and its own if it hangs there, for a worker that hangs does not go on.  *)
Past(state, c) == c < state.channel \/ (c = state.channel /\ state.step = "hung")

(* What was concluded of a job: only a worker has it now, if anyone, and   *)
(* this worker is past that channel.                                       *)
ConcludedInv ==
  \A job \in Job, c \in DOMAIN Channel : <<job, Channel[c]>> \in concluded =>
    /\ Known(job)
    /\ \A i \in Instance :
         /\ handler[i].job # job
         /\ ~Queued(i, job)
         /\ \A w \in Worker : worker[i][w].job = job => Past(worker[i][w], c)

(* The handlers that have yet to commit an upsert of r for their delivery. *)
Pending(r) ==
  {i \in Instance : /\ r \in handler[i].todo
                    /\ handler[i].step \in {"check", "send"} => r # Current(i)}

(* Every delivery under way may still append one upsert of r. *)
CountInv(r) ==
  /\ IsFiniteSet(Pending(r))
  /\ Len(log[r]) + Cardinality(Pending(r)) <= received

TypeInv ==
  /\ TypeOK
  /\ queue \in [Instance -> Seq(Job)]
  /\ log \in [Rule -> Seq(Upsert)]
  /\ concluded \subseteq Job \X ChannelName
  /\ IsFiniteSet(audit)
  /\ \A a \in audit : <<a.job, a.channel>> \in concluded

IInv ==
  /\ TypeInv
  /\ \A r \in Rule : RowInv(r) /\ CountInv(r)
  /\ \A i \in Instance : HandlerInv(i) /\ QueueInv(i)
  /\ \A i \in Instance, w \in Worker : WorkerInv(i, w)
  /\ OnePlace
  /\ ConcludedInv
  /\ SuppressionFollowsDetections
  /\ AuditAgrees
  /\ NoSilentLoss
-----------------------------------------------------------------------------
LEMMA MinFacts ==
  ASSUME NEW S, S \subseteq Nat, S # {}
  PROVE  Min(S) \in S /\ \A x \in S : Min(S) <= x
<1> DEFINE R == {p \in Nat \X Nat : p[1] < p[2]}
<1>1. IsWellFoundedOn(R, Nat)
  BY NatLessThanWellFounded DEF OpToRel
<1>2. PICK x \in S : \A y \in S : <<y, x>> \notin R
  BY <1>1, WFMin
<1>3. ASSUME NEW y \in S PROVE x <= y
  <2>1. x \in Nat /\ y \in Nat /\ <<y, x>> \in Nat \X Nat
    OBVIOUS
  <2>2. ~(<<y, x>>[1] < <<y, x>>[2])
    BY <1>2, <2>1
  <2> QED BY <2>1, <2>2
<1> QED BY <1>3 DEF Min

LEMMA ChannelFacts ==
  /\ DOMAIN Channel = 1..2 /\ Len(Channel) = 2
  /\ \A c \in 1..2 : Channel[c] \in ChannelName
  /\ \A name \in ChannelName : \E c \in 1..2 : name = Channel[c]
  /\ \A c, d \in 1..2 : Channel[c] = Channel[d] => c = d
BY DEF Channel, ChannelName

LEMMA HandlerFacts ==
  ASSUME IInv, NEW i \in Instance
  PROVE  /\ handler[i] = [step |-> handler[i].step, at |-> handler[i].at,
                          todo |-> handler[i].todo, seen |-> handler[i].seen,
                          job |-> handler[i].job]
         /\ handler[i].step \in HandlerStep
         /\ handler[i].at \in Nat /\ handler[i].seen \in Nat
         /\ handler[i].todo \subseteq Rule
         /\ handler[i].job \in Job \cup {None}
         /\ handler[i].step # "idle" =>
              Current(i) \in handler[i].todo /\ Current(i) \in Rule
<1>1. /\ handler[i] = [step |-> handler[i].step, at |-> handler[i].at,
                       todo |-> handler[i].todo, seen |-> handler[i].seen,
                       job |-> handler[i].job]
      /\ handler[i].step \in HandlerStep
      /\ handler[i].at \in Nat /\ handler[i].seen \in Nat
      /\ handler[i].todo \subseteq Rule
      /\ handler[i].job \in Job \cup {None}
  BY DEF IInv, TypeInv, TypeOK
<1>2. ASSUME handler[i].step # "idle"
      PROVE  Current(i) \in handler[i].todo /\ Current(i) \in Rule
  <2>1. handler[i].todo # {} /\ handler[i].todo \subseteq Nat
    BY <1>1, <1>2, AlertAssumption DEF IInv, HandlerInv
  <2>2. Min(handler[i].todo) \in handler[i].todo
    BY <2>1, MinFacts
  <2> QED BY <1>1, <2>2 DEF Current
<1> QED BY <1>1, <1>2

LEMMA WorkerFacts ==
  ASSUME IInv, NEW i \in Instance, NEW w \in Worker
  PROVE  /\ worker[i][w] = [step |-> worker[i][w].step, job |-> worker[i][w].job,
                            channel |-> worker[i][w].channel,
                            attempt |-> worker[i][w].attempt]
         /\ worker[i][w].step \in WorkerStep
         /\ worker[i][w].job \in Job \cup {None}
         /\ worker[i][w].channel \in 1..2
         /\ worker[i][w].attempt \in 1..MaxRetries
         /\ MaxRetries \in Nat \ {0}
  BY ChannelFacts, AlertAssumption DEF IInv, TypeInv, TypeOK

LEMMA JobFacts ==
  /\ \A job \in Job : job # None /\ job[1] \in Rule /\ job[2] \in 1..MaxEvents
                     /\ job = <<job[1], job[2]>>
  /\ \A r \in Rule, k \in 1..MaxEvents : <<r, k>> \in Job
BY NoneAssumption DEF Job
-----------------------------------------------------------------------------
(* The log of committed upserts only grows: a known job stays known. *)
LogGrows == \A r \in Rule : Len(log'[r]) \in Nat /\ Len(log'[r]) >= Len(log[r])

LEMMA LogKept == IInv /\ log' = log => LogGrows
BY DEF IInv, TypeInv, LogGrows

LEMMA KnownKept ==
  ASSUME IInv, LogGrows
  PROVE  \A job \in Job : Known(job) => Known(job)'
<1> SUFFICES ASSUME NEW job \in Job, Known(job) PROVE Known(job)'
  OBVIOUS
<1>1. job[1] \in Rule /\ job[2] \in Nat
  BY JobFacts, AlertAssumption
<1>2. job[2] <= Len(log[job[1]]) /\ Len(log[job[1]]) \in Nat
  BY <1>1 DEF Known, IInv, TypeInv
<1>3. job[2] <= Len(log'[job[1]])
  BY <1>1, <1>2 DEF LogGrows
<1> QED BY <1>3 DEF Known

(* Steps that only move one handler: what they must show about it for the  *)
(* parts of the invariant that speak of all handlers.                      *)
LEMMA CountKept ==
  ASSUME IInv, NEW i \in Instance,
         \A j \in Instance : j # i => handler'[j] = handler[j],
         \A r \in Rule : i \in Pending(r)' => i \in Pending(r),
         log' = log, received' = received
  PROVE  \A r \in Rule : CountInv(r)'
<1> SUFFICES ASSUME NEW r \in Rule PROVE CountInv(r)'
  OBVIOUS
<1>1. Pending(r)' \subseteq Pending(r)
  BY DEF Pending, Current
<1>2. /\ IsFiniteSet(Pending(r)) /\ received \in Nat /\ Len(log[r]) \in Nat
      /\ Len(log[r]) + Cardinality(Pending(r)) <= received
  BY DEF IInv, CountInv, TypeInv, TypeOK
<1>3. /\ IsFiniteSet(Pending(r)')
      /\ Cardinality(Pending(r)') <= Cardinality(Pending(r))
      /\ Cardinality(Pending(r)') \in Nat /\ Cardinality(Pending(r)) \in Nat
  BY <1>1, <1>2, FS_Subset, FS_CardinalityType
<1> QED BY <1>2, <1>3 DEF CountInv

(* Nothing that a place has is ever copied: places only lose jobs here.    *)
LEMMA OnePlaceKept ==
  ASSUME IInv,
         \A i \in Instance : handler'[i].job \in {handler[i].job, None},
         \A i \in Instance : queue'[i] \in {queue[i], <<>>},
         \A i \in Instance, w \in Worker :
           worker'[i][w].job \in {worker[i][w].job, None}
  PROVE  OnePlace'
<1>1. /\ \A job \in Job : job # None
      /\ \A i \in Instance, job \in Job : Queued(i, job)' => Queued(i, job)
  BY JobFacts DEF Queued
<1>2. \A i \in Instance, job \in Job : handler'[i].job = job => handler[i].job = job
  BY <1>1
<1>3. \A i \in Instance, w \in Worker, job \in Job :
        worker'[i][w].job = job => worker[i][w].job = job
  BY <1>1
<1>4. \A i, j \in Instance :
        handler'[i].job = handler'[j].job /\ handler'[i].job # None => i = j
  BY DEF IInv, OnePlace
<1>5. \A i \in Instance, k, l \in Nat :
        k \in DOMAIN queue'[i] /\ l \in DOMAIN queue'[i]
          /\ queue'[i][k] = queue'[i][l] => k = l
  BY DEF IInv, OnePlace
<1>6. ASSUME NEW i \in Instance, NEW j \in Instance, NEW job \in Job
      PROVE  /\ Queued(i, job)' /\ Queued(j, job)' => i = j
             /\ Queued(i, job)' => handler'[j].job # job
             /\ \A w \in Worker : worker'[i][w].job = job =>
                  /\ handler'[j].job # job
                  /\ ~Queued(j, job)'
                  /\ \A v \in Worker : worker'[j][v].job = job => i = j /\ w = v
  BY <1>1, <1>2, <1>3 DEF IInv, OnePlace
<1> QED BY <1>4, <1>5, <1>6 DEF OnePlace

LEMMA PlacesKept ==
  ASSUME IInv,
         \A i \in Instance : handler'[i].job \in {handler[i].job, None},
         \A i \in Instance : queue'[i] \in {queue[i], <<>>},
         \A i \in Instance, w \in Worker :
           \/ worker'[i][w].job = None
           \/ /\ worker'[i][w].job = worker[i][w].job
              /\ worker'[i][w].channel = worker[i][w].channel
              /\ worker[i][w].step = "hung" => worker'[i][w].step = "hung",
         LogGrows, concluded' = concluded
  PROVE  OnePlace' /\ ConcludedInv'
<1>1. OnePlace'
  BY OnePlaceKept
<1>2. /\ \A job \in Job : job # None /\ (Known(job) => Known(job)')
      /\ \A i \in Instance, job \in Job : Queued(i, job)' => Queued(i, job)
  BY JobFacts, KnownKept DEF Queued
<1>3. \A i \in Instance, job \in Job : handler'[i].job = job => handler[i].job = job
  BY <1>2
<1>4. \A i \in Instance, w \in Worker, job \in Job :
        worker'[i][w].job = job =>
          worker[i][w].job = job /\ worker'[i][w].channel = worker[i][w].channel
            /\ (worker[i][w].step = "hung" => worker'[i][w].step = "hung")
  BY <1>2
<1>5. ConcludedInv'
  BY <1>2, <1>3, <1>4 DEF IInv, ConcludedInv, Past
<1> QED BY <1>1, <1>5

(* The tables are those of before. *)
LEMMA RowsKept ==
  ASSUME IInv, alerts' = alerts, log' = log, audit' = audit
  PROVE  /\ \A r \in Rule : RowInv(r)'
         /\ SuppressionFollowsDetections' /\ AuditAgrees'
BY DEF IInv, RowInv, Sent, SuppressionFollowsDetections, AuditAgrees

(* What a handler knows of the row it locked stays true while the others   *)
(* move, for none of them writes that row.                                 *)
LEMMA OtherHandlers ==
  ASSUME IInv, NEW i \in Instance,
         \A j \in Instance : j # i => handler'[j] = handler[j],
         LogGrows,
         \A r \in Rule, j \in Instance :
           j # i /\ lock[r] = j /\ alerts[r] # None =>
             lock'[r] = j /\ alerts'[r] # None /\ alerts'[r].until = alerts[r].until
  PROVE  \A j \in Instance : j # i => HandlerInv(j)'
<1> SUFFICES ASSUME NEW j \in Instance, j # i PROVE HandlerInv(j)'
  OBVIOUS
<1>1. handler'[j] = handler[j] /\ Current(j)' = Current(j)
  BY DEF Current
<1>2. handler[j].step = "update" => Current(j) \in Rule
  BY HandlerFacts
<1>3. handler[j].job # None => handler[j].job \in Job /\ Known(handler[j].job)'
  <2> SUFFICES ASSUME handler[j].job # None
               PROVE  handler[j].job \in Job /\ Known(handler[j].job)'
    OBVIOUS
  <2>1. handler[j].job \in Job
    BY HandlerFacts
  <2>2. Known(handler[j].job)
    BY DEF IInv, HandlerInv
  <2>3. Known(handler[j].job)'
    <3>1. \A job \in Job : Known(job) => Known(job)'
      BY KnownKept
    <3> DEFINE job == handler[j].job
    <3>2. job' = job
      BY <1>1
    <3>3. job[2] <= Len(log'[job[1]])
      BY <2>1, <2>2, <3>1 DEF Known
    <3> QED BY <3>2, <3>3 DEF Known
  <2> QED BY <2>1, <2>3
<1>4. HandlerInv(j)
  BY DEF IInv
<1> QED BY <1>1, <1>2, <1>3, <1>4 DEF HandlerInv

LEMMA WorkersKept ==
  ASSUME IInv, worker' = worker, concluded \subseteq concluded', LogGrows
  PROVE  \A i \in Instance, w \in Worker : WorkerInv(i, w)'
<1> SUFFICES ASSUME NEW i \in Instance, NEW w \in Worker PROVE WorkerInv(i, w)'
  OBVIOUS
<1> DEFINE job == worker[i][w].job
<1>1. WorkerInv(i, w) /\ job \in Job \cup {None}
  BY WorkerFacts DEF IInv
<1>2. job # None => Known(job)'
  <2> SUFFICES ASSUME job # None PROVE Known(job)'
    OBVIOUS
  <2>1. \A x \in Job : Known(x) => Known(x)'
    BY KnownKept
  <2>2. job \in Job /\ Known(job)
    BY <1>1 DEF WorkerInv
  <2>3. job[2] <= Len(log'[job[1]])
    BY <2>1, <2>2 DEF Known
  <2> QED BY <2>3 DEF Known
<1> QED BY <1>1, <1>2 DEF WorkerInv

(* Queues that only lose jobs. *)
LEMMA QueuesKept ==
  ASSUME IInv, LogGrows, \A i \in Instance : queue'[i] \in {queue[i], <<>>}
  PROVE  \A i \in Instance : QueueInv(i)'
<1> SUFFICES ASSUME NEW i \in Instance, NEW k \in DOMAIN queue'[i]
             PROVE  Known(queue[i][k])'
  BY DEF QueueInv
<1>1. queue'[i] = queue[i] /\ queue[i] \in Seq(Job)
  BY DEF IInv, TypeInv
<1> DEFINE job == queue[i][k]
<1>2. job \in Job /\ Known(job)
  BY <1>1 DEF IInv, QueueInv
<1>3. \A x \in Job : Known(x) => Known(x)'
  BY KnownKept
<1>4. job[2] <= Len(log'[job[1]])
  BY <1>2, <1>3 DEF Known
<1> QED BY <1>1, <1>4 DEF Known

(* No step loses a job silently that leaves it in some place, in lost or   *)
(* tried on every channel.                                                 *)
LEMMA NothingLost ==
  ASSUME IInv, concluded \subseteq concluded', lost \subseteq lost',
         \A r \in Rule, k \in Nat : k \in DOMAIN log'[r] /\ log'[r][k].notify =>
           \/ k \in DOMAIN log[r] /\ log[r][k].notify
           \/ <<r, k>> \in lost'
           \/ \E j \in Instance : <<r, k>> \in Held(j)',
         log' \in [Rule -> Seq(Upsert)],
         \A i \in Instance, job \in Job :
           job \in Held(i) =>
             Done(job)' \/ job \in lost' \/ \E j \in Instance : job \in Held(j)'
  PROVE  NoSilentLoss'
<1> SUFFICES ASSUME NEW r \in Rule, NEW k \in DOMAIN log'[r], log'[r][k].notify
             PROVE  \/ Done(<<r, k>>)' \/ <<r, k>> \in lost'
                    \/ \E j \in Instance : <<r, k>> \in Held(j)'
  BY DEF NoSilentLoss
<1>1. k \in Nat
  OBVIOUS
<1>2. CASE k \in DOMAIN log[r] /\ log[r][k].notify
  <2>1. Done(<<r, k>>) \/ <<r, k>> \in lost \/ \E j \in Instance : <<r, k>> \in Held(j)
    BY <1>2 DEF IInv, NoSilentLoss
  <2>2. \A i \in Instance : Held(i) \subseteq Job
    BY DEF Held
  <2> QED BY <2>1, <2>2 DEF Done
<1> QED BY <1>1, <1>2
-----------------------------------------------------------------------------
LEMMA ReceiveStep ==
  ASSUME IInv, NEW i \in Instance, Receive(i)
  PROVE  IInv'
<1> USE DEF database, history
<1>1. PICK t \in Time, fired \in Firing :
        handler' = [handler EXCEPT ![i] =
          [IdleHandler EXCEPT !.step = "query", !.at = t, !.todo = fired]]
  BY DEF Receive
<1> DEFINE h == [IdleHandler EXCEPT !.step = "query", !.at = t, !.todo = fired]
<1>2. t \in Nat /\ fired \subseteq Rule /\ fired # {}
  BY AlertAssumption
<1>3. /\ h \in HandlerState
      /\ h.step = "query" /\ h.todo = fired /\ h.job = None
  <2>1. IdleHandler \in HandlerState
    BY DEF IdleHandler, HandlerState, HandlerStep
  <2> QED BY <1>2, <2>1 DEF HandlerState, HandlerStep, IdleHandler
<1>4. /\ handler' \in [Instance -> HandlerState]
      /\ handler'[i] = h
      /\ \A j \in Instance : j # i => handler'[j] = handler[j]
  BY <1>1, <1>3 DEF IInv, TypeInv, TypeOK, HandlerState
<1> HIDE DEF h
<1>5. /\ alerts' = alerts /\ lock' = lock /\ audit' = audit /\ life' = life
      /\ queue' = queue /\ worker' = worker /\ log' = log
      /\ concluded' = concluded /\ lost' = lost /\ received' = received + 1
      /\ received < MaxEvents
  BY DEF Receive
<1>6. TypeInv'
  <2>2. received' \in 0..MaxEvents
    BY <1>5, AlertAssumption DEF IInv, TypeInv, TypeOK
  <2> QED BY <1>4, <1>5, <2>2 DEF IInv, TypeInv, TypeOK, HandlerState
<1>7. \A r \in Rule : CountInv(r)'
  <2> SUFFICES ASSUME NEW r \in Rule PROVE CountInv(r)'
    OBVIOUS
  <2>1. Pending(r)' \subseteq Pending(r) \cup {i}
    BY <1>4 DEF Pending, Current
  <2>2. /\ IsFiniteSet(Pending(r)) /\ received \in Nat /\ Len(log[r]) \in Nat
        /\ Len(log[r]) + Cardinality(Pending(r)) <= received
    BY DEF IInv, CountInv, TypeInv, TypeOK
  <2>3. /\ IsFiniteSet(Pending(r) \cup {i})
        /\ Cardinality(Pending(r)) \in Nat
        /\ Cardinality(Pending(r) \cup {i}) \in
             {Cardinality(Pending(r)), Cardinality(Pending(r)) + 1}
    <3>1. Cardinality(Pending(r)) \in Nat
      BY <2>2, FS_CardinalityType
    <3> QED BY <2>2, <3>1, FS_AddElement
  <2>4. /\ IsFiniteSet(Pending(r)')
        /\ Cardinality(Pending(r)') <= Cardinality(Pending(r) \cup {i})
        /\ Cardinality(Pending(r)') \in Nat
    BY <2>1, <2>3, FS_Subset, FS_CardinalityType
  <2>5. Len(log'[r]) + Cardinality(Pending(r)') <= received'
    BY <1>5, <2>2, <2>3, <2>4
  <2> QED BY <2>4, <2>5 DEF CountInv
<1>8. \A j \in Instance : HandlerInv(j)'
  <2>1. HandlerInv(i)'
    BY <1>2, <1>3, <1>4 DEF HandlerInv
  <2>2. \A j \in Instance : j # i => HandlerInv(j)'
    BY <1>4, <1>5, OtherHandlers, LogKept
  <2> QED BY <2>1, <2>2
<1>9. OnePlace' /\ ConcludedInv'
  <2>1. handler'[i].job = None
    BY <1>3, <1>4
  <2> QED BY <2>1, <1>4, <1>5, PlacesKept, LogKept
<1>10. NoSilentLoss'
  <2>0. handler[i].job = None
    BY DEF IInv, HandlerInv, Receive
  <2>1. \A job \in Job : handler[i].job # job
    BY <2>0, JobFacts
  <2>2. \A j \in Instance : Held(j) \subseteq Held(j)'
    BY <1>4, <1>5, <2>1 DEF Held
  <2> QED BY <1>5, <2>2, NothingLost DEF IInv, TypeInv
<1> QED BY <1>5, <1>6, <1>7, <1>8, <1>9, <1>10, RowsKept, WorkersKept, QueuesKept, LogKept DEF IInv, TypeInv

LEMMA GotoOK ==
  ASSUME IInv, NEW i \in Instance, NEW step \in HandlerStep, Goto(i, step)
  PROVE  /\ handler' \in [Instance -> HandlerState]
         /\ handler'[i].step = step /\ handler'[i].todo = handler[i].todo
         /\ handler'[i].job = handler[i].job
         /\ \A j \in Instance : j # i => handler'[j] = handler[j]
BY DEF IInv, TypeInv, TypeOK, HandlerState, Goto

(* On to the next candidate: the one at hand is no longer to do. *)
LEMMA ContinueOK ==
  ASSUME IInv, NEW i \in Instance, handler[i].step # "idle", Continue(i)
  PROVE  /\ handler' \in [Instance -> HandlerState]
         /\ handler'[i].job = None
         /\ \A j \in Instance : j # i => handler'[j] = handler[j]
         /\ HandlerInv(i)'
         /\ \A r \in Rule : i \in Pending(r)' => /\ r \in handler[i].todo
                                                /\ r # Current(i)
<1> DEFINE rest == handler[i].todo \ {Current(i)}
           next == [IdleHandler EXCEPT !.step = "query", !.at = handler[i].at,
                                       !.todo = rest]
           h == IF rest = {} THEN IdleHandler ELSE next
<1>1. handler[i].at \in Nat /\ rest \subseteq Rule
  BY HandlerFacts
<1> HIDE DEF rest
<1>2. /\ IdleHandler \in HandlerState
      /\ IdleHandler.step = "idle" /\ IdleHandler.todo = {} /\ IdleHandler.job = None
  BY DEF IdleHandler, HandlerState, HandlerStep
<1>3. /\ next \in HandlerState
      /\ next.step = "query" /\ next.todo = rest /\ next.job = None
  BY <1>1, <1>2 DEF HandlerState, HandlerStep, IdleHandler
<1> HIDE DEF next
<1>4. /\ h \in HandlerState /\ h.job = None /\ h.todo = rest
      /\ h.step = "idle" <=> rest = {}
      /\ h.step \in {"idle", "query"}
  BY <1>2, <1>3
<1>5. handler' = [handler EXCEPT ![i] = h]
  BY DEF Continue, rest, next
<1> HIDE DEF h
<1>6. /\ handler' \in [Instance -> HandlerState]
      /\ handler'[i] = h
      /\ \A j \in Instance : j # i => handler'[j] = handler[j]
  BY <1>4, <1>5 DEF IInv, TypeInv, TypeOK, HandlerState
<1>7. HandlerInv(i)'
  BY <1>4, <1>6 DEF HandlerInv
<1>8. \A r \in Rule : i \in Pending(r)' => r \in rest
  BY <1>4, <1>6 DEF Pending
<1> QED BY <1>4, <1>6, <1>7, <1>8 DEF rest

LEMMA UnlockOK ==
  ASSUME IInv, NEW i \in Instance, Unlock(i)
  PROVE  /\ lock' \in [Rule -> Instance \cup {None}]
         /\ \A r \in Rule, j \in Instance : j # i /\ lock[r] = j => lock'[r] = j
BY DEF IInv, TypeInv, TypeOK, Unlock

(* SELECT ... FOR UPDATE waits for the lock: the handlers that have a row  *)
(* to update are those that hold its lock.                                 *)
LEMMA QueryActiveAlertStep ==
  ASSUME IInv, NEW i \in Instance, QueryActiveAlert(i)
  PROVE  IInv'
<1> USE DEF history
<1> DEFINE r == Current(i)
<1>1. /\ handler[i].step = "query" /\ r \in Rule
      /\ handler[i].todo # {} /\ handler[i].job = None
  BY HandlerFacts DEF IInv, HandlerInv, QueryActiveAlert
<1>2. /\ alerts' = alerts /\ audit' = audit /\ life' = life
      /\ queue' = queue /\ worker' = worker /\ log' = log
      /\ concluded' = concluded /\ lost' = lost /\ received' = received
  BY DEF QueryActiveAlert
<1>3. /\ handler' \in [Instance -> HandlerState]
      /\ lock' \in [Rule -> Instance \cup {None}]
      /\ handler'[i].step \in {"insert", "update"}
      /\ handler'[i].todo = handler[i].todo /\ handler'[i].job = None
      /\ \A j \in Instance : j # i => handler'[j] = handler[j]
      /\ handler'[i].step = "update" =>
           lock'[r] = i /\ alerts[r] # None /\ handler'[i].seen = alerts[r].until
      /\ \A q \in Rule, j \in Instance : lock[q] = j => lock'[q] = j
  <2>1. CASE alerts[r] = None /\ Goto(i, "insert") /\ UNCHANGED lock
    <3>1. "insert" \in HandlerStep
      BY DEF HandlerStep
    <3> QED BY <1>1, <2>1, <3>1, GotoOK DEF IInv, TypeInv, TypeOK
  <2>2. CASE /\ alerts[r] # None
             /\ lock[r] = None
             /\ lock' = [lock EXCEPT ![r] = i]
             /\ handler' = [handler EXCEPT ![i].step = "update",
                                           ![i].seen = alerts[r].until]
    <3>1. alerts[r].until \in Nat
      BY <1>1, <2>2 DEF IInv, TypeInv, TypeOK, Row
    <3>2. /\ handler' \in [Instance -> HandlerState]
          /\ handler'[i].step = "update"
          /\ handler'[i].todo = handler[i].todo /\ handler'[i].job = handler[i].job
          /\ handler'[i].seen = alerts[r].until
          /\ \A j \in Instance : j # i => handler'[j] = handler[j]
      <4>1. handler \in [Instance -> HandlerState]
        BY DEF IInv, TypeInv, TypeOK, HandlerState
      <4>2. PICK q : q = [handler[i] EXCEPT !.step = "update",
                                            !.seen = alerts[r].until]
        OBVIOUS
      <4>3. /\ q \in HandlerState /\ q.step = "update"
            /\ q.todo = handler[i].todo /\ q.job = handler[i].job
            /\ q.seen = alerts[r].until
        <5>1. handler[i] \in HandlerState
          BY <4>1
        <5> QED BY <3>1, <4>2, <5>1 DEF HandlerState, HandlerStep
      <4>4. handler' = [handler EXCEPT ![i] = q]
        BY <2>2, <4>1, <4>2
      <4> QED BY <4>1, <4>3, <4>4
    <3>3. /\ lock' \in [Rule -> Instance \cup {None}]
          /\ lock'[r] = i
          /\ \A q \in Rule, j \in Instance : lock[q] = j => lock'[q] = j
      <4>1. lock[r] = None /\ lock' = [lock EXCEPT ![r] = i]
        BY <2>2
      <4>2. r \in Rule /\ lock \in [Rule -> Instance \cup {None}]
        BY <1>1 DEF IInv, TypeInv, TypeOK
      <4> QED BY <4>1, <4>2, NoneAssumption
    <3> QED BY <1>1, <2>2, <3>2, <3>3
  <2> QED BY <2>1, <2>2 DEF QueryActiveAlert
<1>4. Current(i)' = r
  BY <1>3 DEF Current
<1> HIDE DEF r
<1>5. TypeInv'
  BY <1>2, <1>3 DEF IInv, TypeInv, TypeOK, HandlerState
<1>6. \A q \in Rule : CountInv(q)'
  <2>1. \A q \in Rule : i \in Pending(q)' => i \in Pending(q)
    BY <1>1, <1>3 DEF Pending
  <2> QED BY <1>2, <1>3, <2>1, CountKept
<1>7. \A j \in Instance : HandlerInv(j)'
  <2>1. HandlerInv(i)'
    BY <1>1, <1>2, <1>3, <1>4 DEF HandlerInv
  <2>2. \A j \in Instance : j # i => HandlerInv(j)'
    BY <1>2, <1>3, OtherHandlers, LogKept
  <2> QED BY <2>1, <2>2
<1>8. OnePlace' /\ ConcludedInv'
  BY <1>2, <1>3, PlacesKept, LogKept
<1>9. NoSilentLoss'
  <2>1. \A j \in Instance : Held(j)' = Held(j)
    BY <1>1, <1>2, <1>3 DEF Held
  <2> QED BY <1>2, <2>1, NothingLost DEF IInv, TypeInv
<1> QED BY <1>2, <1>5, <1>6, <1>7, <1>8, <1>9, RowsKept, WorkersKept, QueuesKept, LogKept DEF IInv, TypeInv
-----------------------------------------------------------------------------
(* The upsert about to commit is one of those its delivery was counted     *)
(* for, and its job is new.                                                *)
LEMMA NextJobOK ==
  ASSUME IInv, NEW i \in Instance, NEW r \in Rule, r = Current(i), Writable(i)
  PROVE  /\ NextJob(i) = <<r, Len(log[r]) + 1>> /\ NextJob(i) \in Job
         /\ i \in Pending(r)
         /\ \A job \in Job : Known(job) => job # NextJob(i)
<1>1. handler[i].step \in {"insert", "update"} /\ r \in handler[i].todo
  BY HandlerFacts DEF Writable
<1>2. i \in Pending(r)
  BY <1>1 DEF Pending
<1>3. /\ IsFiniteSet(Pending(r)) /\ received \in Nat /\ Len(log[r]) \in Nat
      /\ Len(log[r]) + Cardinality(Pending(r)) <= received
      /\ received <= MaxEvents /\ MaxEvents \in Nat
  BY AlertAssumption DEF IInv, CountInv, TypeInv, TypeOK
<1>4. Cardinality(Pending(r)) \in Nat /\ Cardinality(Pending(r)) # 0
  BY <1>2, <1>3, FS_CardinalityType, FS_EmptySet
<1>5. Len(log[r]) + 1 \in 1..MaxEvents
  BY <1>3, <1>4
<1>6. NextJob(i) = <<r, Len(log[r]) + 1>> /\ NextJob(i) \in Job
  BY <1>5 DEF NextJob, Job
<1>7. ASSUME NEW job \in Job, Known(job) PROVE job # NextJob(i)
  BY <1>3, <1>6, <1>7 DEF Known
<1> QED BY <1>2, <1>6, <1>7

(* A commit adds one upsert to the log of its fingerprint.  The window it  *)
(* was compared with is that of the upsert before it: the row of an INSERT *)
(* did not exist, and the row of an UPDATE was locked since it was read.   *)
LEMMA CommitOK ==
  ASSUME IInv, NEW i \in Instance, NEW r \in Rule, r = Current(i),
         Writable(i), CommitUpsert(i), audit' = audit
  PROVE  /\ alerts' \in [Rule -> Row \cup {None}]
         /\ log' \in [Rule -> Seq(Upsert)]
         /\ Len(log'[r]) = Len(log[r]) + 1
         /\ \A k \in 1..Len(log[r]) : log'[r][k] = log[r][k]
         /\ log'[r][Len(log[r]) + 1].notify = ~Suppressed(i)
         /\ \A q \in Rule : q # r => log'[q] = log[q]
         /\ \A q \in Rule : RowInv(q)'
         /\ SuppressionFollowsDetections' /\ AuditAgrees'
         /\ \A q \in Rule, j \in Instance :
              j # i /\ lock[q] = j /\ alerts[q] # None =>
                alerts'[q] # None /\ alerts'[q].until = alerts[q].until
<1> DEFINE at == handler[i].at
           n == Len(log[r])
           u == [at |-> at, notify |-> ~Suppressed(i)]
           row == IF handler[i].step = "insert" THEN NewAlert(at)
                  ELSE SeenAgain(alerts[r], at, Suppressed(i))
<1>1. /\ log \in [Rule -> Seq(Upsert)] /\ alerts \in [Rule -> Row \cup {None}]
      /\ at \in Nat /\ Window \in Nat \ {0}
      /\ n \in Nat /\ (n = 0 <=> log[r] = <<>>)
  BY HandlerFacts, AlertAssumption DEF IInv, TypeInv, TypeOK
<1>2. /\ handler[i].step = "insert" => alerts[r] = None
      /\ handler[i].step # "insert" =>
           /\ handler[i].step = "update" /\ lock[r] = i /\ alerts[r] # None
           /\ alerts[r] \in Row
           /\ handler[i].seen = alerts[r].until
  BY <1>1 DEF Writable, IInv, HandlerInv
<1>3. Suppressed(i) \in BOOLEAN /\ u \in Upsert
  BY <1>1 DEF Suppressed, Upsert
<1>4. /\ row \in Row
      /\ row.until = at + Window
      /\ row.notifyCount = IF handler[i].step = "insert" THEN 0
                           ELSE alerts[r].notifyCount
  <2>1. at + Window \in Nat
    BY <1>1
  <2>2. CASE handler[i].step = "insert"
    BY <2>1, <2>2 DEF NewAlert, Row
  <2>3. CASE handler[i].step # "insert"
    BY <1>2, <2>1, <2>3 DEF SeenAgain, Row
  <2> QED BY <2>2, <2>3
<1>5. alerts' = [alerts EXCEPT ![r] = row] /\ log' = [log EXCEPT ![r] = Append(log[r], u)]
  BY <1>1 DEF CommitUpsert
<1> HIDE DEF row, u, n, at
<1>6. /\ alerts' \in [Rule -> Row \cup {None}]
      /\ alerts'[r] = row /\ row # None
      /\ \A q \in Rule : q # r => alerts'[q] = alerts[q]
  BY <1>1, <1>4, <1>5, NoneAssumption
<1>7. /\ log' \in [Rule -> Seq(Upsert)]
      /\ Len(log'[r]) = n + 1
      /\ \A k \in 1..n : log'[r][k] = log[r][k]
      /\ log'[r][n + 1] = u
      /\ \A q \in Rule : q # r => log'[q] = log[q]
  BY <1>1, <1>3, <1>5 DEF n
<1>8. u.at = at /\ u.notify = ~Suppressed(i)
  BY DEF u
<1>9. ASSUME NEW q \in Rule PROVE RowInv(q)'
  <2>1. CASE q # r
    BY <2>1, <1>6, <1>7 DEF IInv, RowInv, Sent
  <2>2. CASE q = r
    <3>1. Sent(r)' = Sent(r)
      BY DEF Sent
    <3>2. row.notifyCount = Cardinality(Sent(r))
      <4>1. CASE handler[i].step = "insert"
        <5>1. n = 0
          BY <1>1, <1>2, <4>1 DEF IInv, RowInv
        <5>2. Sent(r) = {}
          <6> SUFFICES ASSUME NEW a \in Sent(r) PROVE FALSE
            OBVIOUS
          <6>1. a \in audit /\ a.job[1] = r /\ a.job \in Job
                /\ a.channel \in ChannelName
            BY DEF Sent, IInv, TypeInv, TypeOK, ChannelName
          <6>2. PICK c \in 1..2 : a.channel = Channel[c]
            BY <6>1, ChannelFacts
          <6>3. Known(a.job)
            BY <6>1, <6>2, ChannelFacts DEF IInv, TypeInv, ConcludedInv
          <6> QED BY <5>1, <6>1, <6>3, JobFacts, AlertAssumption DEF Known, n
        <5> QED BY <1>4, <4>1, <5>2, FS_EmptySet
      <4>2. CASE handler[i].step # "insert"
        BY <1>2, <1>4, <4>2 DEF IInv, RowInv
      <4> QED BY <4>1, <4>2
    <3>3. log'[r] # <<>>
      BY <1>1, <1>7
    <3>4. row.until = log'[r][Len(log'[r])].at + Window
      BY <1>4, <1>7, <1>8
    <3> QED BY <2>2, <1>6, <3>1, <3>2, <3>3, <3>4 DEF RowInv
  <2> QED BY <2>1, <2>2
<1>10. SuppressionFollowsDetections'
  <2> SUFFICES ASSUME NEW q \in Rule, NEW k \in DOMAIN log'[q]
               PROVE  log'[q][k].notify <=>
                        \/ k = 1
                        \/ log'[q][k].at >= log'[q][k - 1].at + Window
    BY DEF SuppressionFollowsDetections
  <2>1. CASE q # r
    BY <2>1, <1>7 DEF IInv, SuppressionFollowsDetections
  <2>2. CASE q = r /\ k \in 1..n
    <3>1. log'[r][k] = log[r][k] /\ (k # 1 => log'[r][k - 1] = log[r][k - 1])
      BY <1>1, <1>7, <2>2
    <3>2. k \in DOMAIN log[r]
      BY <1>1, <2>2 DEF n
    <3> QED BY <2>2, <3>1, <3>2 DEF IInv, SuppressionFollowsDetections
  <2>3. CASE q = r /\ k = n + 1
    <3>1. CASE handler[i].step = "insert"
      <4>1. n = 0
        BY <1>1, <1>2, <3>1 DEF IInv, RowInv
      <4>2. u.notify = TRUE
        BY <1>8, <3>1 DEF Suppressed
      <4> QED BY <1>7, <2>3, <4>1, <4>2
    <3>2. CASE handler[i].step # "insert"
      <4>0. RowInv(r)
        BY DEF IInv
      <4>1. n # 0 /\ handler[i].seen = log[r][n].at + Window
        BY <1>1, <1>2, <3>2, <4>0 DEF RowInv, n
      <4>2. log'[r][n] = log[r][n] /\ log[r][n].at \in Nat
        <5>1. n \in 1..n /\ log[r] \in Seq(Upsert)
          BY <1>1, <4>1
        <5>2. log[r][n] \in Upsert
          BY <5>1 DEF n
        <5> QED BY <1>7, <5>1, <5>2 DEF Upsert
      <4>3. u.notify <=> at >= log[r][n].at + Window
        <5>1. Suppressed(i) <=> at < log[r][n].at + Window
          BY <1>2, <3>2, <4>1 DEF Suppressed, at
        <5>2. ~Suppressed(i) <=> at >= log[r][n].at + Window
          BY <1>1, <4>2, <5>1
        <5> QED BY <1>8, <5>2
      <4> QED BY <1>1, <1>7, <1>8, <2>3, <4>1, <4>2, <4>3
    <3> QED BY <3>1, <3>2
  <2>4. q = r => k \in 1..n \/ k = n + 1
    BY <1>1, <1>7
  <2> QED BY <2>1, <2>2, <2>3, <2>4
<1>11. AuditAgrees'
  <2>1. \A q \in Rule : alerts'[q] # None => alerts'[q].notifyCount = Cardinality(Sent(q)')
    BY <1>9 DEF RowInv
  <2> QED BY <2>1 DEF IInv, AuditAgrees, Sent
<1>12. ASSUME NEW q \in Rule, NEW j \in Instance, j # i, lock[q] = j, alerts[q] # None
       PROVE  alerts'[q] # None /\ alerts'[q].until = alerts[q].until
  BY <1>2, <1>6, <1>12
<1> QED BY <1>6, <1>7, <1>8, <1>9, <1>10, <1>11, <1>12 DEF n

(* After a commit the delivery of i has one upsert of r less to come.      *)
LEMMA CommittedCount ==
  ASSUME IInv, NEW i \in Instance, NEW r \in Rule,
         \A j \in Instance : j # i => handler'[j] = handler[j],
         i \in Pending(r), ~(i \in Pending(r)'),
         \A q \in Rule : i \in Pending(q)' => i \in Pending(q),
         Len(log'[r]) = Len(log[r]) + 1,
         \A q \in Rule : q # r => log'[q] = log[q],
         received' = received
  PROVE  \A q \in Rule : CountInv(q)'
<1> SUFFICES ASSUME NEW q \in Rule PROVE CountInv(q)'
  OBVIOUS
<1>1. /\ Pending(q)' \subseteq Pending(q)
      /\ q = r => Pending(q)' \subseteq Pending(q) \ {i}
  BY DEF Pending, Current
<1>2. /\ IsFiniteSet(Pending(q)) /\ received \in Nat /\ Len(log[q]) \in Nat
      /\ Len(log[q]) + Cardinality(Pending(q)) <= received
  BY DEF IInv, CountInv, TypeInv, TypeOK
<1>3. /\ IsFiniteSet(Pending(q)')
      /\ Cardinality(Pending(q)') <= Cardinality(Pending(q))
      /\ Cardinality(Pending(q)') \in Nat /\ Cardinality(Pending(q)) \in Nat
  BY <1>1, <1>2, FS_Subset, FS_CardinalityType
<1>4. CASE q # r
  BY <1>2, <1>3, <1>4 DEF CountInv
<1>5. CASE q = r
  <2>1. /\ IsFiniteSet(Pending(q) \ {i})
        /\ Cardinality(Pending(q) \ {i}) = Cardinality(Pending(q)) - 1
    BY <1>2, <1>5, FS_RemoveElement
  <2>2. Cardinality(Pending(q)') <= Cardinality(Pending(q) \ {i})
    BY <1>1, <1>5, <2>1, FS_Subset
  <2>3. Len(log'[q]) + Cardinality(Pending(q)') <= received'
    BY <1>2, <1>3, <1>5, <2>1, <2>2
  <2> QED BY <1>3, <2>3 DEF CountInv
<1> QED BY <1>4, <1>5

(* A handler with a new job: nobody else has it, and nothing of it was     *)
(* concluded, for they only have known jobs.                               *)
LEMMA JobAdded ==
  ASSUME IInv, LogGrows, NEW i \in Instance, NEW job \in Job,
         \A x \in Job : Known(x) => x # job,
         handler'[i].job = job,
         \A j \in Instance : j # i => handler'[j] = handler[j],
         queue' = queue, worker' = worker, concluded' = concluded
  PROVE  OnePlace' /\ ConcludedInv'
<1>1. \A x \in Job : x # None /\ (Known(x) => Known(x)')
  BY JobFacts, KnownKept
<1>2. /\ \A j \in Instance : handler[j].job # job
      /\ \A j \in Instance : ~Queued(j, job)
      /\ \A j \in Instance, w \in Worker : worker[j][w].job # job
      /\ \A c \in DOMAIN Channel : <<job, Channel[c]>> \notin concluded
  <2>1. \A j \in Instance : handler[j].job # job
    BY <1>1 DEF IInv, HandlerInv
  <2>2. \A j \in Instance : ~Queued(j, job)
    BY DEF IInv, QueueInv, Queued
  <2>3. \A j \in Instance, w \in Worker : worker[j][w].job # job
    BY <1>1 DEF IInv, WorkerInv
  <2>4. \A c \in DOMAIN Channel : <<job, Channel[c]>> \notin concluded
    BY DEF IInv, ConcludedInv
  <2> QED BY <2>1, <2>2, <2>3, <2>4
<1>3. \A j \in Instance, x \in Job : Queued(j, x)' <=> Queued(j, x)
  BY DEF Queued
<1>4. OnePlace'
  <2>1. \A j, k \in Instance :
          handler'[j].job = handler'[k].job /\ handler'[j].job # None => j = k
    BY <1>2 DEF IInv, OnePlace
  <2>2. \A j \in Instance, k, l \in Nat :
          k \in DOMAIN queue'[j] /\ l \in DOMAIN queue'[j]
            /\ queue'[j][k] = queue'[j][l] => k = l
    BY DEF IInv, OnePlace
  <2>3. ASSUME NEW k \in Instance, NEW j \in Instance, NEW x \in Job
        PROVE  /\ Queued(k, x)' /\ Queued(j, x)' => k = j
               /\ Queued(k, x)' => handler'[j].job # x
               /\ \A w \in Worker : worker'[k][w].job = x =>
                    /\ handler'[j].job # x
                    /\ ~Queued(j, x)'
                    /\ \A v \in Worker : worker'[j][v].job = x => k = j /\ w = v
    BY <1>2, <1>3 DEF IInv, OnePlace
  <2> QED BY <2>1, <2>2, <2>3 DEF OnePlace
<1>5. ConcludedInv'
  <2> SUFFICES ASSUME NEW x \in Job, NEW c \in DOMAIN Channel,
                      <<x, Channel[c]>> \in concluded
               PROVE  /\ Known(x)'
                      /\ \A j \in Instance :
                           /\ handler'[j].job # x
                           /\ ~Queued(j, x)'
                           /\ \A w \in Worker :
                                worker'[j][w].job = x => Past(worker'[j][w], c)
    BY DEF ConcludedInv
  <2>1. x # job
    BY <1>2
  <2> QED BY <1>1, <1>3, <2>1 DEF IInv, ConcludedInv
<1> QED BY <1>4, <1>5

(* What every commit has in common, whatever the handler does next. *)
LEMMA CommitTail ==
  ASSUME IInv, NEW i \in Instance, NEW r \in Rule, r = Current(i),
         Writable(i), CommitUpsert(i), Unlock(i),
         handler' \in [Instance -> HandlerState],
         \A j \in Instance : j # i => handler'[j] = handler[j],
         ~(i \in Pending(r)'), \A q \in Rule : i \in Pending(q)' => i \in Pending(q),
         audit' = audit, life' = life, queue' = queue, worker' = worker,
         received' = received, concluded' = concluded,
         lost \subseteq lost', lost' \subseteq Job,
         handler[i].job = None,
         ~Suppressed(i) => NextJob(i) \in lost' \/ handler'[i].job = NextJob(i)
  PROVE  /\ TypeInv' /\ LogGrows
         /\ \A q \in Rule : RowInv(q)' /\ CountInv(q)'
         /\ \A j \in Instance : j # i => HandlerInv(j)'
         /\ \A j \in Instance : QueueInv(j)'
         /\ \A j \in Instance, w \in Worker : WorkerInv(j, w)'
         /\ SuppressionFollowsDetections' /\ AuditAgrees' /\ NoSilentLoss'
<1>1. /\ alerts' \in [Rule -> Row \cup {None}]
      /\ log' \in [Rule -> Seq(Upsert)]
      /\ Len(log'[r]) = Len(log[r]) + 1
      /\ \A k \in 1..Len(log[r]) : log'[r][k] = log[r][k]
      /\ log'[r][Len(log[r]) + 1].notify = ~Suppressed(i)
      /\ \A q \in Rule : q # r => log'[q] = log[q]
      /\ \A q \in Rule : RowInv(q)'
      /\ SuppressionFollowsDetections' /\ AuditAgrees'
      /\ \A q \in Rule, j \in Instance :
           j # i /\ lock[q] = j /\ alerts[q] # None =>
             alerts'[q] # None /\ alerts'[q].until = alerts[q].until
  BY CommitOK
<1>2. /\ lock' \in [Rule -> Instance \cup {None}]
      /\ \A q \in Rule, j \in Instance : j # i /\ lock[q] = j => lock'[q] = j
  BY UnlockOK
<1>3. /\ NextJob(i) = <<r, Len(log[r]) + 1>> /\ NextJob(i) \in Job
      /\ i \in Pending(r)
  BY NextJobOK
<1>4. \A q \in Rule : Len(log[q]) \in Nat /\ DOMAIN log[q] = 1..Len(log[q])
                     /\ Len(log'[q]) \in Nat /\ DOMAIN log'[q] = 1..Len(log'[q])
  <2>1. \A q \in Rule : log[q] \in Seq(Upsert) /\ log'[q] \in Seq(Upsert)
    BY <1>1 DEF IInv, TypeInv
  <2> QED BY <2>1
<1>5. LogGrows
  <2>1. ASSUME NEW q \in Rule PROVE Len(log'[q]) >= Len(log[q])
    <3>1. q = r => Len(log'[q]) = Len(log[q]) + 1
      BY <1>1
    <3>2. q # r => Len(log'[q]) = Len(log[q])
      BY <1>1
    <3> QED BY <1>4, <3>1, <3>2
  <2> QED BY <1>4, <2>1 DEF LogGrows
<1>6. TypeInv'
  <2>1. TypeOK'
    BY <1>1, <1>2 DEF IInv, TypeInv, TypeOK, HandlerState
  <2> QED BY <1>1, <2>1 DEF IInv, TypeInv
<1>7. \A q \in Rule : CountInv(q)'
  BY <1>1, <1>3, CommittedCount
<1>8. \A j \in Instance : j # i => HandlerInv(j)'
  BY <1>1, <1>2, <1>5, OtherHandlers
<1>9. NoSilentLoss'
  <2>1. \A j \in Instance : Held(j) \subseteq Held(j)'
    BY JobFacts DEF Held
  <2>2. ASSUME handler'[i].job = NextJob(i) PROVE <<r, Len(log[r]) + 1>> \in Held(i)'
    BY <1>3, <2>2 DEF Held
  <2>3. ASSUME NEW q \in Rule, NEW k \in Nat, k \in DOMAIN log'[q], log'[q][k].notify
        PROVE  \/ k \in DOMAIN log[q] /\ log[q][k].notify
               \/ <<q, k>> \in lost'
               \/ \E j \in Instance : <<q, k>> \in Held(j)'
    <3>1. CASE q # r
      BY <1>1, <2>3, <3>1
    <3>2. CASE q = r /\ k \in 1..Len(log[r])
      BY <1>1, <1>4, <2>3, <3>2
    <3>3. CASE q = r /\ k = Len(log[r]) + 1
      <4>1. ~Suppressed(i)
        BY <1>1, <2>3, <3>3
      <4> QED BY <1>3, <2>2, <3>3, <4>1
    <3>4. q = r => k \in 1..Len(log[r]) \/ k = Len(log[r]) + 1
      BY <1>1, <1>4, <2>3
    <3> QED BY <3>1, <3>2, <3>3, <3>4
  <2> QED BY <1>1, <2>1, <2>3, NothingLost
<1> QED BY <1>1, <1>5, <1>6, <1>7, <1>8, <1>9, QueuesKept, WorkersKept

LEMMA UpsertAlertStep ==
  ASSUME IInv, NEW i \in Instance, UpsertAlert(i)
  PROVE  IInv'
<1>1. PICK r \in Rule : r = Current(i)
  BY HandlerFacts DEF UpsertAlert, Writable
<1>2. /\ handler[i].step \in {"insert", "update"} /\ handler[i].job = None
      /\ handler[i].todo # {} /\ r \in handler[i].todo
  BY <1>1, HandlerFacts DEF IInv, HandlerInv, UpsertAlert, Writable
<1>3. /\ Writable(i) /\ CommitUpsert(i) /\ Unlock(i)
      /\ audit' = audit /\ life' = life /\ queue' = queue /\ worker' = worker
      /\ received' = received /\ concluded' = concluded /\ lost' = lost
  BY DEF UpsertAlert
<1>4. /\ NextJob(i) = <<r, Len(log[r]) + 1>> /\ NextJob(i) \in Job
      /\ \A job \in Job : Known(job) => job # NextJob(i)
  BY <1>1, <1>3, NextJobOK
<1>5. lost \subseteq Job
  BY DEF IInv, TypeInv, TypeOK
<1>6. CASE Suppressed(i) /\ Continue(i)
  <2>1. /\ handler' \in [Instance -> HandlerState]
        /\ handler'[i].job = None
        /\ \A j \in Instance : j # i => handler'[j] = handler[j]
        /\ HandlerInv(i)'
        /\ \A q \in Rule : i \in Pending(q)' => /\ q \in handler[i].todo
                                               /\ q # Current(i)
    BY <1>2, <1>6, ContinueOK
  <2>2. \A q \in Rule : i \in Pending(q)' => i \in Pending(q)
    BY <1>2, <2>1 DEF Pending
  <2>3. /\ TypeInv' /\ LogGrows
        /\ \A q \in Rule : RowInv(q)' /\ CountInv(q)'
        /\ \A j \in Instance : j # i => HandlerInv(j)'
        /\ \A j \in Instance : QueueInv(j)'
        /\ \A j \in Instance, w \in Worker : WorkerInv(j, w)'
        /\ SuppressionFollowsDetections' /\ AuditAgrees' /\ NoSilentLoss'
    BY <1>1, <1>2, <1>3, <1>5, <1>6, <2>1, <2>2, CommitTail
  <2>4. OnePlace' /\ ConcludedInv'
    BY <1>3, <2>1, <2>3, PlacesKept
  <2> QED BY <2>1, <2>3, <2>4 DEF IInv
<1>7. CASE /\ ~Suppressed(i)
           /\ handler' = [handler EXCEPT ![i].step = "check", ![i].job = NextJob(i)]
  <2>1. /\ handler' \in [Instance -> HandlerState]
        /\ handler'[i].step = "check"
        /\ handler'[i].job = NextJob(i)
        /\ handler'[i].todo = handler[i].todo
        /\ \A j \in Instance : j # i => handler'[j] = handler[j]
    <3>1. handler \in [Instance -> HandlerState]
      BY DEF IInv, TypeInv, TypeOK, HandlerState
    <3> QED BY <1>4, <1>7, <3>1 DEF HandlerState, HandlerStep
  <2>2. Current(i)' = r
    BY <1>1, <2>1 DEF Current
  <2>3. \A q \in Rule : i \in Pending(q)' => i \in Pending(q) /\ q # r
    BY <1>2, <2>1, <2>2 DEF Pending
  <2>4. /\ TypeInv' /\ LogGrows
        /\ \A q \in Rule : RowInv(q)' /\ CountInv(q)'
        /\ \A j \in Instance : j # i => HandlerInv(j)'
        /\ \A j \in Instance : QueueInv(j)'
        /\ \A j \in Instance, w \in Worker : WorkerInv(j, w)'
        /\ SuppressionFollowsDetections' /\ AuditAgrees' /\ NoSilentLoss'
    BY <1>1, <1>2, <1>3, <1>5, <2>1, <2>3, CommitTail
  <2>5. OnePlace' /\ ConcludedInv'
    BY <1>3, <1>4, <2>1, <2>4, JobAdded
  <2>6. HandlerInv(i)'
    <3>1. Len(log'[r]) >= Len(log[r]) + 1
      <4>1. Len(log'[r]) = Len(log[r]) + 1
        BY <1>1, <1>3, CommitOK
      <4> QED BY <4>1, <2>4 DEF LogGrows
    <3>2. handler'[i].job = <<r, Len(log[r]) + 1>>
      BY <1>4, <2>1
    <3>3. handler'[i].job[2] <= Len(log'[handler'[i].job[1]])
      BY <3>1, <3>2, <2>4 DEF LogGrows, IInv, TypeInv
    <3>4. handler'[i].job # None
      BY <1>4, <2>1, JobFacts
    <3> QED BY <1>2, <2>1, <3>3, <3>4 DEF HandlerInv, Known
  <2> QED BY <2>4, <2>5, <2>6 DEF IInv
<1> QED BY <1>6, <1>7 DEF UpsertAlert

LEMMA UpsertFailsStep ==
  ASSUME IInv, NEW i \in Instance, UpsertFails(i)
  PROVE  IInv'
<1>1. PICK r \in Rule : r = Current(i)
  BY HandlerFacts DEF UpsertFails
<1>2. /\ handler[i].step \in {"query", "insert", "update"} /\ handler[i].job = None
      /\ handler[i].todo # {} /\ r \in handler[i].todo
  BY <1>1, HandlerFacts DEF IInv, HandlerInv, UpsertFails
<1>3. /\ Unlock(i) /\ Continue(i)
      /\ audit' = audit /\ life' = life /\ queue' = queue /\ worker' = worker
      /\ received' = received /\ concluded' = concluded
  BY DEF UpsertFails
<1>4. /\ handler' \in [Instance -> HandlerState]
      /\ handler'[i].job = None
      /\ \A j \in Instance : j # i => handler'[j] = handler[j]
      /\ HandlerInv(i)'
      /\ \A q \in Rule : i \in Pending(q)' => /\ q \in handler[i].todo
                                             /\ q # Current(i)
  BY <1>2, <1>3, ContinueOK
<1>5. \A q \in Rule : i \in Pending(q)' => i \in Pending(q)
  BY <1>2, <1>4 DEF Pending
<1>6. CASE alerts' = alerts /\ log' = log /\ lost' = lost
  <2>1. /\ lock' \in [Rule -> Instance \cup {None}]
        /\ \A q \in Rule, j \in Instance : j # i /\ lock[q] = j => lock'[q] = j
    BY <1>3, UnlockOK
  <2>2. TypeInv' /\ LogGrows
    BY <1>3, <1>4, <1>6, <2>1, LogKept DEF IInv, TypeInv, TypeOK, HandlerState
  <2>3. \A q \in Rule : CountInv(q)'
    BY <1>3, <1>4, <1>5, <1>6, CountKept
  <2>4. \A j \in Instance : HandlerInv(j)'
    BY <1>4, <1>6, <2>1, <2>2, OtherHandlers
  <2>5. OnePlace' /\ ConcludedInv'
    BY <1>3, <1>4, <2>2, PlacesKept
  <2>6. NoSilentLoss'
    <3>1. \A j \in Instance : Held(j) \subseteq Held(j)'
      BY <1>2, <1>3, <1>4, JobFacts DEF Held
    <3> QED BY <1>3, <1>6, <3>1, NothingLost DEF IInv, TypeInv
  <2> QED BY <1>3, <1>6, <2>2, <2>3, <2>4, <2>5, <2>6, RowsKept, WorkersKept, QueuesKept
       DEF IInv
<1>7. CASE /\ Writable(i)
           /\ CommitUpsert(i)
           /\ lost' = lost \cup (IF Suppressed(i) THEN {} ELSE {NextJob(i)})
  <2>1. NextJob(i) \in Job /\ lost \subseteq Job
    BY <1>1, <1>7, NextJobOK DEF IInv, TypeInv, TypeOK
  <2>2. /\ lost \subseteq lost' /\ lost' \subseteq Job
        /\ ~Suppressed(i) => NextJob(i) \in lost'
    BY <1>7, <2>1
  <2>3. /\ TypeInv' /\ LogGrows
        /\ \A q \in Rule : RowInv(q)' /\ CountInv(q)'
        /\ \A j \in Instance : j # i => HandlerInv(j)'
        /\ \A j \in Instance : QueueInv(j)'
        /\ \A j \in Instance, w \in Worker : WorkerInv(j, w)'
        /\ SuppressionFollowsDetections' /\ AuditAgrees' /\ NoSilentLoss'
    BY <1>1, <1>2, <1>3, <1>4, <1>5, <1>7, <2>2, CommitTail
  <2>4. OnePlace' /\ ConcludedInv'
    BY <1>3, <1>4, <2>3, PlacesKept
  <2> QED BY <1>4, <2>3, <2>4 DEF IInv
<1> QED BY <1>6, <1>7 DEF UpsertFails
-----------------------------------------------------------------------------
LEMMA EnqueueCheckStep ==
  ASSUME IInv, NEW i \in Instance, EnqueueCheck(i)
  PROVE  IInv'
<1>1. /\ alerts' = alerts /\ lock' = lock /\ audit' = audit /\ life' = life
      /\ queue' = queue /\ worker' = worker /\ received' = received
      /\ log' = log /\ concluded' = concluded
      /\ handler[i].step = "check"
  BY DEF EnqueueCheck, database
<1>2. /\ handler[i].job # None /\ handler[i].job \in Job /\ Known(handler[i].job)
      /\ handler[i].todo # {}
  BY <1>1, HandlerFacts DEF IInv, HandlerInv
<1>3. LogGrows
  BY <1>1, LogKept
<1>4. CASE Goto(i, "send") /\ UNCHANGED lost
  <2>1. /\ handler' \in [Instance -> HandlerState]
        /\ handler'[i].step = "send" /\ handler'[i].todo = handler[i].todo
        /\ handler'[i].job = handler[i].job
        /\ \A j \in Instance : j # i => handler'[j] = handler[j]
    <3>1. "send" \in HandlerStep
      BY DEF HandlerStep
    <3> QED BY <1>4, <3>1, GotoOK
  <2>2. TypeInv'
    BY <1>1, <1>4, <2>1 DEF IInv, TypeInv, TypeOK, HandlerState
  <2>3. \A q \in Rule : CountInv(q)'
    <3>1. \A q \in Rule : i \in Pending(q)' => i \in Pending(q)
      BY <1>1, <2>1 DEF Pending, Current
    <3> QED BY <1>1, <2>1, <3>1, CountKept
  <2>4. HandlerInv(i)'
    BY <1>1, <1>2, <2>1 DEF HandlerInv, Known
  <2>5. \A j \in Instance : HandlerInv(j)'
    BY <1>1, <1>3, <2>1, <2>4, OtherHandlers
  <2>6. OnePlace' /\ ConcludedInv'
    BY <1>1, <1>3, <2>1, PlacesKept
  <2>7. NoSilentLoss'
    <3>1. \A j \in Instance : Held(j) \subseteq Held(j)'
      BY <1>1, <2>1 DEF Held
    <3> QED BY <1>1, <1>4, <3>1, NothingLost DEF IInv, TypeInv
  <2> QED BY <1>1, <1>3, <2>2, <2>3, <2>5, <2>6, <2>7, RowsKept, WorkersKept,
       QueuesKept DEF IInv
<1>5. CASE lost' = lost \cup {handler[i].job} /\ Continue(i)
  <2>1. /\ handler' \in [Instance -> HandlerState]
        /\ handler'[i].job = None
        /\ \A j \in Instance : j # i => handler'[j] = handler[j]
        /\ HandlerInv(i)'
        /\ \A q \in Rule : i \in Pending(q)' => /\ q \in handler[i].todo
                                               /\ q # Current(i)
    BY <1>1, <1>5, ContinueOK
  <2>2. TypeInv'
    BY <1>1, <1>2, <1>5, <2>1 DEF IInv, TypeInv, TypeOK, HandlerState
  <2>3. \A q \in Rule : CountInv(q)'
    <3>1. \A q \in Rule : i \in Pending(q)' => i \in Pending(q)
      BY <2>1 DEF Pending
    <3> QED BY <1>1, <2>1, <3>1, CountKept
  <2>4. \A j \in Instance : HandlerInv(j)'
    BY <1>1, <1>3, <2>1, OtherHandlers
  <2>5. OnePlace' /\ ConcludedInv'
    BY <1>1, <1>3, <2>1, PlacesKept
  <2>6. NoSilentLoss'
    <3>1. \A j \in Instance, job \in Job :
            job \in Held(j) => job \in lost' \/ job \in Held(j)'
      BY <1>1, <1>5, <2>1 DEF Held
    <3> QED BY <1>1, <1>5, <3>1, NothingLost DEF IInv, TypeInv
  <2> QED BY <1>1, <1>3, <2>1, <2>2, <2>3, <2>4, <2>5, <2>6, RowsKept, WorkersKept,
       QueuesKept DEF IInv
<1> QED BY <1>4, <1>5 DEF EnqueueCheck

LEMMA AppendFacts ==
  ASSUME NEW s \in Seq(Job), NEW x \in Job
  PROVE  /\ Append(s, x) \in Seq(Job)
         /\ DOMAIN s = 1..Len(s) /\ Len(s) \in Nat
         /\ DOMAIN Append(s, x) = 1..(Len(s) + 1)
         /\ \A k \in 1..Len(s) : Append(s, x)[k] = s[k]
         /\ Append(s, x)[Len(s) + 1] = x
OBVIOUS

LEMMA TailFacts ==
  ASSUME NEW s \in Seq(Job), s # <<>>
  PROVE  /\ Tail(s) \in Seq(Job) /\ Head(s) \in Job /\ Head(s) = s[1]
         /\ Len(s) \in Nat /\ Len(s) # 0 /\ DOMAIN s = 1..Len(s)
         /\ DOMAIN Tail(s) = 1..(Len(s) - 1) /\ Len(Tail(s)) = Len(s) - 1
         /\ \A k \in 1..(Len(s) - 1) : Tail(s)[k] = s[k + 1]
OBVIOUS

(* The job of the handler goes to the end of the queue. *)
LEMMA JobQueued ==
  ASSUME IInv, NEW i \in Instance, NEW job \in Job, handler[i].job = job,
         handler'[i].job = None,
         \A j \in Instance : j # i => handler'[j] = handler[j],
         queue' = [queue EXCEPT ![i] = Append(@, job)],
         worker' = worker, log' = log, concluded' = concluded
  PROVE  /\ queue' \in [Instance -> Seq(Job)]
         /\ OnePlace' /\ ConcludedInv'
         /\ \A j \in Instance : QueueInv(j)'
         /\ \A j \in Instance : Held(j) \subseteq Held(j)'
<1>1. /\ queue \in [Instance -> Seq(Job)]
      /\ queue' \in [Instance -> Seq(Job)]
      /\ queue'[i] = Append(queue[i], job)
      /\ \A j \in Instance : j # i => queue'[j] = queue[j]
  BY DEF IInv, TypeInv
<1> DEFINE n == Len(queue[i])
<1>2. /\ n \in Nat /\ DOMAIN queue[i] = 1..n
      /\ DOMAIN queue'[i] = 1..(n + 1)
      /\ \A k \in 1..n : queue'[i][k] = queue[i][k]
      /\ queue'[i][n + 1] = job
  BY <1>1, AppendFacts
<1> HIDE DEF n
<1>3. \A j \in Instance, x \in Job :
        Queued(j, x)' <=> Queued(j, x) \/ (j = i /\ x = job)
  <2>1. \A x \in Job : Queued(i, x)' <=> Queued(i, x) \/ x = job
    <3>1. ASSUME NEW x \in Job, Queued(i, x)' PROVE Queued(i, x) \/ x = job
      <4>1. PICK k \in 1..(n + 1) : queue'[i][k] = x
        BY <1>2, <3>1 DEF Queued
      <4>2. k \in 1..n \/ k = n + 1
        BY <1>2
      <4> QED BY <1>2, <4>1, <4>2 DEF Queued
    <3>2. ASSUME NEW x \in Job, Queued(i, x) PROVE Queued(i, x)'
      <4>1. PICK k \in 1..n : queue[i][k] = x
        BY <1>2, <3>2 DEF Queued
      <4>2. k \in 1..(n + 1) /\ queue'[i][k] = x
        BY <1>2, <4>1
      <4> QED BY <1>2, <4>2 DEF Queued
    <3>3. Queued(i, job)'
      <4>1. n + 1 \in 1..(n + 1)
        BY <1>2
      <4> QED BY <1>2, <4>1 DEF Queued
    <3> QED BY <3>1, <3>2, <3>3
  <2>2. \A j \in Instance, x \in Job : j # i => (Queued(j, x)' <=> Queued(j, x))
    BY <1>1 DEF Queued
  <2> QED BY <2>1, <2>2
<1>4. /\ \A j \in Instance : ~Queued(j, job)
      /\ \A j \in Instance : j # i => handler[j].job # job
      /\ \A j \in Instance, w \in Worker : worker[j][w].job # job
      /\ \A c \in DOMAIN Channel : <<job, Channel[c]>> \notin concluded
      /\ Known(job) /\ job # None
  BY JobFacts DEF IInv, OnePlace, ConcludedInv, HandlerInv
<1>5. \A j \in Instance, x \in Job :
        handler'[j].job = x => handler[j].job = x /\ x # job
  BY <1>4, JobFacts
<1>6. OnePlace'
  <2>1. \A j, k \in Instance :
          handler'[j].job = handler'[k].job /\ handler'[j].job # None => j = k
    BY DEF IInv, OnePlace
  <2>2. ASSUME NEW j \in Instance, NEW k \in Nat, NEW l \in Nat,
               k \in DOMAIN queue'[j], l \in DOMAIN queue'[j],
               queue'[j][k] = queue'[j][l]
        PROVE  k = l
    <3>1. CASE j # i
      BY <1>1, <2>2, <3>1 DEF IInv, OnePlace
    <3>2. CASE j = i
      <4>1. \A x \in 1..n : queue[i][x] # job
        BY <1>2, <1>4 DEF Queued
      <4>2. k \in 1..n \/ k = n + 1
        BY <1>2, <2>2, <3>2
      <4>3. l \in 1..n \/ l = n + 1
        BY <1>2, <2>2, <3>2
      <4>4. k \in 1..n /\ l \in 1..n => k = l
        BY <1>2, <2>2, <3>2 DEF IInv, OnePlace
      <4> QED BY <1>2, <2>2, <3>2, <4>1, <4>2, <4>3, <4>4
    <3> QED BY <3>1, <3>2
  <2>3. ASSUME NEW k \in Instance, NEW j \in Instance, NEW x \in Job
        PROVE  /\ Queued(k, x)' /\ Queued(j, x)' => k = j
               /\ Queued(k, x)' => handler'[j].job # x
               /\ \A w \in Worker : worker'[k][w].job = x =>
                    /\ handler'[j].job # x
                    /\ ~Queued(j, x)'
                    /\ \A v \in Worker : worker'[j][v].job = x => k = j /\ w = v
    BY <1>3, <1>4, <1>5 DEF IInv, OnePlace
  <2> QED BY <2>1, <2>2, <2>3 DEF OnePlace
<1>7. ConcludedInv'
  <2> SUFFICES ASSUME NEW x \in Job, NEW c \in DOMAIN Channel,
                      <<x, Channel[c]>> \in concluded
               PROVE  /\ Known(x)'
                      /\ \A j \in Instance :
                           /\ handler'[j].job # x
                           /\ ~Queued(j, x)'
                           /\ \A w \in Worker :
                                worker'[j][w].job = x => Past(worker'[j][w], c)
    BY DEF ConcludedInv
  <2>1. x # job
    BY <1>4
  <2> QED BY <1>3, <1>5, <2>1 DEF IInv, ConcludedInv, Known
<1>8. \A j \in Instance : QueueInv(j)'
  <2> SUFFICES ASSUME NEW j \in Instance, NEW k \in DOMAIN queue'[j]
               PROVE  Known(queue[j][k])'
    BY DEF QueueInv
  <2>1. CASE j # i
    BY <1>1, <2>1 DEF IInv, QueueInv, Known
  <2>2. CASE j = i
    <3>1. k \in 1..n \/ k = n + 1
      BY <1>2, <2>2
    <3>2. k \in 1..n => Known(queue[i][k])
      BY <1>2 DEF IInv, QueueInv
    <3> QED BY <1>2, <1>4, <2>2, <3>1, <3>2 DEF Known
  <2> QED BY <2>1, <2>2
<1>9. ASSUME NEW j \in Instance PROVE Held(j) \subseteq Held(j)'
  <2> SUFFICES ASSUME NEW x \in Job, x \in Held(j) PROVE x \in Held(j)'
    BY DEF Held
  <2>1. CASE handler[j].job = x
    <3>1. Queued(j, x)' \/ handler'[j].job = x
      BY <1>3, <2>1
    <3> QED BY <3>1 DEF Held, Queued
  <2>2. CASE Queued(j, x)
    <3>1. Queued(j, x)'
      BY <1>3, <2>2
    <3> QED BY <3>1 DEF Held, Queued
  <2>3. CASE \E w \in Worker : worker[j][w].job = x
    BY <2>3 DEF Held
  <2> QED BY <2>1, <2>2, <2>3 DEF Held, Queued
<1> QED BY <1>1, <1>6, <1>7, <1>8, <1>9

LEMMA EnqueueSendStep ==
  ASSUME IInv, NEW i \in Instance, EnqueueSend(i)
  PROVE  IInv'
<1>1. /\ alerts' = alerts /\ lock' = lock /\ audit' = audit /\ life' = life
      /\ worker' = worker /\ received' = received
      /\ log' = log /\ concluded' = concluded
      /\ handler[i].step = "send" /\ Continue(i)
  BY DEF EnqueueSend, database
<1>2. PICK job \in Job : handler[i].job = job
  BY <1>1, HandlerFacts DEF IInv, HandlerInv
<1>3. LogGrows
  BY <1>1, LogKept
<1>4. /\ handler' \in [Instance -> HandlerState]
      /\ handler'[i].job = None
      /\ \A j \in Instance : j # i => handler'[j] = handler[j]
      /\ HandlerInv(i)'
      /\ \A q \in Rule : i \in Pending(q)' => /\ q \in handler[i].todo
                                             /\ q # Current(i)
  BY <1>1, ContinueOK
<1>5. \A q \in Rule : CountInv(q)'
  <2>1. \A q \in Rule : i \in Pending(q)' => i \in Pending(q)
    BY <1>4 DEF Pending
  <2> QED BY <1>1, <1>4, <2>1, CountKept
<1>6. \A j \in Instance : HandlerInv(j)'
  BY <1>1, <1>3, <1>4, OtherHandlers
<1>7. CASE /\ Len(queue[i]) < QueueSize
           /\ queue' = [queue EXCEPT ![i] = Append(@, handler[i].job)]
           /\ UNCHANGED lost
  <2>1. queue' = [queue EXCEPT ![i] = Append(@, job)]
    BY <1>2, <1>7
  <2>2. /\ queue' \in [Instance -> Seq(Job)]
        /\ OnePlace' /\ ConcludedInv'
        /\ \A j \in Instance : QueueInv(j)'
        /\ \A j \in Instance : Held(j) \subseteq Held(j)'
    BY <1>1, <1>2, <1>4, <2>1, JobQueued
  <2>3. \A j \in Instance : queue'[j] \in Seq(Job) /\ Len(queue'[j]) <= QueueSize
    <3> SUFFICES ASSUME NEW j \in Instance
                 PROVE  queue'[j] \in Seq(Job) /\ Len(queue'[j]) <= QueueSize
      OBVIOUS
    <3>1. queue[j] \in Seq(Job) /\ Len(queue[j]) <= QueueSize /\ QueueSize \in Nat
      BY AlertAssumption DEF IInv, TypeInv, TypeOK
    <3>2. CASE j # i
      BY <2>1, <3>1, <3>2 DEF IInv, TypeInv
    <3>3. CASE j = i
      <4>1. queue'[j] = Append(queue[j], job)
        BY <2>1, <3>3 DEF IInv, TypeInv
      <4> QED BY <1>7, <3>1, <3>3, <4>1
    <3> QED BY <3>2, <3>3
  <2>4. TypeInv'
    BY <1>1, <1>4, <1>7, <2>2, <2>3 DEF IInv, TypeInv, TypeOK, HandlerState
  <2>5. NoSilentLoss'
    BY <1>1, <1>7, <2>2, NothingLost DEF IInv, TypeInv
  <2> QED BY <1>1, <1>3, <1>5, <1>6, <2>2, <2>4, <2>5, RowsKept, WorkersKept DEF IInv
<1>8. CASE lost' = lost \cup {handler[i].job} /\ UNCHANGED queue
  <2>1. TypeInv'
    BY <1>1, <1>2, <1>4, <1>8 DEF IInv, TypeInv, TypeOK, HandlerState
  <2>2. OnePlace' /\ ConcludedInv'
    BY <1>1, <1>3, <1>4, <1>8, PlacesKept
  <2>3. NoSilentLoss'
    <3>1. \A j \in Instance, x \in Job :
            x \in Held(j) => x \in lost' \/ x \in Held(j)'
      BY <1>1, <1>4, <1>8 DEF Held
    <3> QED BY <1>1, <1>8, <3>1, NothingLost DEF IInv, TypeInv
  <2> QED BY <1>1, <1>3, <1>5, <1>6, <1>8, <2>1, <2>2, <2>3, RowsKept, WorkersKept,
       QueuesKept DEF IInv
<1> QED BY <1>7, <1>8 DEF EnqueueSend
-----------------------------------------------------------------------------
(* Steps of one worker. *)
LEMMA SetWorkerOK ==
  ASSUME IInv, NEW i \in Instance, NEW w \in Worker, NEW state \in WorkerState,
         SetWorker(i, w, state)
  PROVE  /\ worker' \in [Instance -> [Worker -> WorkerState]]
         /\ worker'[i][w] = state
         /\ \A j \in Instance, v \in Worker :
              ~(j = i /\ v = w) => worker'[j][v] = worker[j][v]
<1>1. worker \in [Instance -> [Worker -> WorkerState]]
  BY DEF IInv, TypeInv, TypeOK, WorkerState
<1> HIDE DEF WorkerState
<1> QED BY <1>1 DEF SetWorker

LEMMA IdleWorkerFacts ==
  /\ IdleWorker \in WorkerState /\ StoppedWorker \in WorkerState
  /\ IdleWorker.step = "idle" /\ IdleWorker.job = None
  /\ StoppedWorker.step = "stopped" /\ StoppedWorker.job = None
BY ChannelFacts, AlertAssumption
   DEF IdleWorker, StoppedWorker, WorkerState, WorkerStep

(* What the other workers know of their jobs. *)
LEMMA OtherWorkers ==
  ASSUME IInv, NEW i \in Instance, NEW w \in Worker,
         \A j \in Instance, v \in Worker :
           ~(j = i /\ v = w) => worker'[j][v] = worker[j][v],
         log' = log, concluded \subseteq concluded'
  PROVE  \A j \in Instance, v \in Worker :
           ~(j = i /\ v = w) => WorkerInv(j, v)'
<1> SUFFICES ASSUME NEW j \in Instance, NEW v \in Worker, ~(j = i /\ v = w)
             PROVE  WorkerInv(j, v)'
  OBVIOUS
<1>1. worker'[j][v] = worker[j][v] /\ WorkerInv(j, v)
  BY DEF IInv
<1> QED BY <1>1 DEF WorkerInv, Known

(* A worker changes its state and neither a table nor a handler moves. *)
LEMMA WorkerTail ==
  ASSUME IInv, NEW i \in Instance, NEW w \in Worker, NEW state \in WorkerState,
         SetWorker(i, w, state), worker[i][w].step # "hung",
         \/ state.job = None
         \/ state.job = worker[i][w].job /\ state.channel = worker[i][w].channel,
         state.step \in {"idle", "stopped"} <=> state.job = None,
         state.step = "backoff" => state.attempt < MaxRetries,
         alerts' = alerts, lock' = lock, audit' = audit, life' = life,
         handler' = handler, queue' = queue, received' = received, log' = log,
         concluded' = concluded, lost \subseteq lost', lost' \subseteq Job,
         state.job = None /\ worker[i][w].job # None => worker[i][w].job \in lost'
  PROVE  IInv'
<1>1. /\ worker' \in [Instance -> [Worker -> WorkerState]]
      /\ worker'[i][w] = state
      /\ \A j \in Instance, v \in Worker :
           ~(j = i /\ v = w) => worker'[j][v] = worker[j][v]
  BY SetWorkerOK
<1>2. LogGrows
  BY LogKept
<1>3. TypeInv'
  BY <1>1 DEF IInv, TypeInv, TypeOK, WorkerState
<1>4. \A r \in Rule : CountInv(r)'
  BY DEF IInv, CountInv, Pending, Current
<1>5. \A j \in Instance : HandlerInv(j)'
  BY DEF IInv, HandlerInv, Known, Current
<1>6. \A j \in Instance, v \in Worker : WorkerInv(j, v)'
  <2>1. \A j \in Instance, v \in Worker : ~(j = i /\ v = w) => WorkerInv(j, v)'
    BY <1>1, OtherWorkers
  <2>2. WorkerInv(i, w)'
    <3>1. WorkerInv(i, w)
      BY DEF IInv
    <3> QED BY <1>1, <3>1 DEF WorkerInv, Known
  <2> QED BY <2>1, <2>2
<1>7. OnePlace' /\ ConcludedInv'
  <2>1. \A j \in Instance, v \in Worker :
           \/ worker'[j][v].job = None
           \/ /\ worker'[j][v].job = worker[j][v].job
              /\ worker'[j][v].channel = worker[j][v].channel
              /\ worker[j][v].step = "hung" => worker'[j][v].step = "hung"
    BY <1>1
  <2> QED BY <1>2, <2>1, PlacesKept
<1>8. NoSilentLoss'
  <2>1. ASSUME NEW j \in Instance, NEW job \in Job, job \in Held(j)
        PROVE  job \in lost' \/ job \in Held(j)'
    <3>1. CASE \E v \in Worker : worker[j][v].job = job
      <4>1. PICK v \in Worker : worker[j][v].job = job
        BY <3>1
      <4>2. worker'[j][v].job = job \/ job \in lost'
        BY <1>1, <4>1, JobFacts
      <4> QED BY <4>2 DEF Held
    <3>2. CASE ~ \E v \in Worker : worker[j][v].job = job
      BY <2>1, <3>2 DEF Held
    <3> QED BY <3>1, <3>2
  <2> QED BY <2>1, NothingLost DEF IInv, TypeInv
<1> QED BY <1>2, <1>3, <1>4, <1>5, <1>6, <1>7, <1>8, RowsKept, QueuesKept DEF IInv

LEMMA StopWorkerStep ==
  ASSUME IInv, NEW i \in Instance, NEW w \in Worker, StopWorker(i, w)
  PROVE  IInv'
<1>1. /\ alerts' = alerts /\ lock' = lock /\ audit' = audit /\ life' = life
      /\ handler' = handler /\ queue' = queue /\ received' = received
      /\ log' = log /\ concluded' = concluded /\ lost' = lost
      /\ SetWorker(i, w, StoppedWorker) /\ worker[i][w].step = "idle"
  BY DEF StopWorker, database, history
<1>2. worker[i][w].job = None /\ lost \subseteq Job
  BY <1>1 DEF IInv, WorkerInv, TypeInv, TypeOK
<1> QED BY <1>1, <1>2, IdleWorkerFacts, WorkerTail

LEMMA NotifyStep ==
  ASSUME IInv, NEW i \in Instance, NEW w \in Worker, Notify(i, w)
  PROVE  IInv'
<1> DEFINE s == worker[i][w]
<1>1. /\ alerts' = alerts /\ lock' = lock /\ audit' = audit /\ life' = life
      /\ handler' = handler /\ queue' = queue /\ received' = received
      /\ log' = log /\ concluded' = concluded /\ lost' = lost
      /\ s.step = "notify"
  BY DEF Notify, database, history
<1>2. PICK step \in {"sent", "hung", "backoff", "failed", "unaddressed"} :
        /\ SetWorker(i, w, [s EXCEPT !.step = step])
        /\ step = "backoff" => s.attempt < MaxRetries
  <2> HIDE DEF s
  <2> QED BY DEF Notify, s
<1> DEFINE state == [s EXCEPT !.step = step]
<1>3. s.job # None /\ lost \subseteq Job
  BY <1>1 DEF IInv, WorkerInv, TypeInv, TypeOK
<1>4. /\ state \in WorkerState
      /\ state.step = step /\ state.job = s.job /\ state.channel = s.channel
      /\ state.attempt = s.attempt
  <2>1. s \in WorkerState
    BY DEF IInv, TypeInv, TypeOK, WorkerState
  <2> QED BY <2>1 DEF WorkerState, WorkerStep
<1>5. SetWorker(i, w, state)
  BY <1>2
<1> HIDE DEF state
<1> QED BY <1>1, <1>2, <1>3, <1>4, <1>5, WorkerTail

LEMMA BackoffStep ==
  ASSUME IInv, NEW i \in Instance, NEW w \in Worker, Backoff(i, w)
  PROVE  IInv'
<1> DEFINE s == worker[i][w]
<1>1. /\ alerts' = alerts /\ lock' = lock /\ audit' = audit /\ life' = life
      /\ handler' = handler /\ queue' = queue /\ received' = received
      /\ log' = log /\ concluded' = concluded
      /\ s.step = "backoff"
  BY DEF Backoff, database
<1>2. /\ s.job # None /\ s.job \in Job /\ s.attempt < MaxRetries
      /\ s.attempt \in 1..MaxRetries /\ MaxRetries \in Nat
      /\ lost \subseteq Job /\ s \in WorkerState
  <2>1. s.job # None /\ s.attempt < MaxRetries
    BY <1>1 DEF IInv, WorkerInv
  <2>2. s.job \in Job \cup {None} /\ s.attempt \in 1..MaxRetries /\ MaxRetries \in Nat
    BY WorkerFacts
  <2>3. lost \subseteq Job /\ s \in WorkerState
    BY DEF IInv, TypeInv, TypeOK, WorkerState
  <2> QED BY <2>1, <2>2, <2>3
<1>3. CASE SetWorker(i, w, [s EXCEPT !.step = "notify", !.attempt = @ + 1])
           /\ UNCHANGED lost
  <2> DEFINE state == [s EXCEPT !.step = "notify", !.attempt = @ + 1]
  <2>1. s.attempt + 1 \in 1..MaxRetries
    <3> HIDE DEF s
    <3> QED BY <1>2
  <2>2. /\ state \in WorkerState
        /\ state.step = "notify" /\ state.job = s.job /\ state.channel = s.channel
    BY <1>2, <2>1 DEF WorkerState, WorkerStep
  <2>3. SetWorker(i, w, state) /\ lost' = lost
    BY <1>3
  <2> HIDE DEF state
  <2> QED BY <1>1, <1>2, <2>2, <2>3, WorkerTail
<1>4. CASE SetWorker(i, w, IdleWorker) /\ lost' = lost \cup {s.job}
  <2>1. lost \subseteq lost' /\ lost' \subseteq Job /\ s.job \in lost'
    BY <1>2, <1>4
  <2> QED BY <1>1, <1>4, <2>1, IdleWorkerFacts, WorkerTail
<1> QED BY <1>3, <1>4 DEF Backoff

(* An idle worker takes the head of the queue: only that worker has it     *)
(* now, and nothing of it was concluded.                                   *)
LEMMA TakeJobStep ==
  ASSUME IInv, NEW i \in Instance, NEW w \in Worker, TakeJob(i, w)
  PROVE  IInv'
<1>1. /\ alerts' = alerts /\ lock' = lock /\ audit' = audit /\ life' = life
      /\ handler' = handler /\ received' = received
      /\ log' = log /\ concluded' = concluded /\ lost' = lost
      /\ worker[i][w].step = "idle" /\ queue[i] # <<>>
      /\ queue' = [queue EXCEPT ![i] = Tail(@)]
  BY DEF TakeJob, database, history
<1> DEFINE s == queue[i]
           n == Len(s)
           state == [IdleWorker EXCEPT !.step = "notify", !.job = Head(s)]
<1>2. /\ queue \in [Instance -> Seq(Job)] /\ s \in Seq(Job)
      /\ queue' = [queue EXCEPT ![i] = Tail(s)]
  BY <1>1 DEF IInv, TypeInv
<1>3. /\ Tail(s) \in Seq(Job) /\ Head(s) \in Job /\ Head(s) = s[1]
      /\ n \in Nat /\ n # 0 /\ DOMAIN s = 1..n
      /\ DOMAIN Tail(s) = 1..(n - 1) /\ Len(Tail(s)) = n - 1
      /\ \A k \in 1..(n - 1) : Tail(s)[k] = s[k + 1]
  BY <1>1, <1>2, TailFacts
<1>4. /\ queue' \in [Instance -> Seq(Job)]
      /\ queue'[i] = Tail(s)
      /\ \A j \in Instance : j # i => queue'[j] = queue[j]
  BY <1>2, <1>3
<1>5. PICK job \in Job : job = Head(s)
  BY <1>3
<1>6. /\ state \in WorkerState
      /\ state.step = "notify" /\ state.job = job /\ state.channel = 1
  <2>1. IdleWorker.channel = 1 /\ IdleWorker \in WorkerState
    BY IdleWorkerFacts DEF IdleWorker
  <2> QED BY <1>5, <2>1 DEF WorkerState, WorkerStep
<1>7. SetWorker(i, w, state)
  BY DEF TakeJob
<1> HIDE DEF state
<1>8. /\ worker' \in [Instance -> [Worker -> WorkerState]]
      /\ worker'[i][w] = state
      /\ \A j \in Instance, v \in Worker :
           ~(j = i /\ v = w) => worker'[j][v] = worker[j][v]
  BY <1>6, <1>7, SetWorkerOK
<1>9. s[1] = job /\ 1 \in DOMAIN s /\ Queued(i, job) /\ Known(job) /\ job # None
  <2>1. s[1] = job /\ 1 \in DOMAIN s
    BY <1>3, <1>5
  <2>2. Known(s[1])
    BY <2>1 DEF IInv, QueueInv
  <2> QED BY <2>1, <2>2, JobFacts DEF Queued
<1>10. /\ \A j \in Instance : handler[j].job # job
       /\ \A j \in Instance : j # i => ~Queued(j, job)
       /\ \A j \in Instance, v \in Worker : worker[j][v].job # job
       /\ \A c \in DOMAIN Channel : <<job, Channel[c]>> \notin concluded
  BY <1>9 DEF IInv, OnePlace, ConcludedInv
<1>11. /\ \A j \in Instance, x \in Job : Queued(j, x)' => Queued(j, x) /\ x # job
       /\ \A x \in Job : Queued(i, x) /\ x # job => Queued(i, x)'
  <2>1. ASSUME NEW x \in Job, Queued(i, x)' PROVE Queued(i, x) /\ x # job
    <3>1. PICK k \in 1..(n - 1) : Tail(s)[k] = x
      BY <1>3, <1>4, <2>1 DEF Queued
    <3>2. k + 1 \in DOMAIN s /\ s[k + 1] = x /\ k + 1 # 1 /\ k + 1 \in Nat
      BY <1>3, <3>1
    <3>3. s[k + 1] # s[1]
      BY <1>9, <3>2 DEF IInv, OnePlace
    <3> QED BY <1>9, <3>2, <3>3 DEF Queued
  <2>2. ASSUME NEW x \in Job, Queued(i, x), x # job PROVE Queued(i, x)'
    <3>1. PICK k \in 1..n : s[k] = x
      BY <1>3, <2>2 DEF Queued
    <3>2. k # 1
      BY <1>9, <2>2, <3>1
    <3>3. k - 1 \in 1..(n - 1) /\ Tail(s)[k - 1] = s[(k - 1) + 1] /\ (k - 1) + 1 = k
      BY <1>3, <3>1, <3>2
    <3> QED BY <1>3, <1>4, <3>1, <3>3 DEF Queued
  <2>3. ASSUME NEW j \in Instance, j # i, NEW x \in Job, Queued(j, x)'
        PROVE  Queued(j, x) /\ x # job
    BY <1>4, <1>10, <2>3 DEF Queued
  <2> QED BY <2>1, <2>2, <2>3
<1>12. \A j \in Instance, v \in Worker, x \in Job :
         worker'[j][v].job = x =>
           \/ x = job /\ j = i /\ v = w
           \/ x # job /\ worker[j][v].job = x /\ worker'[j][v] = worker[j][v]
  BY <1>6, <1>8, <1>10
<1>13. TypeInv'
  <2>1. \A j \in Instance : queue'[j] \in Seq(Job) /\ Len(queue'[j]) <= QueueSize
    <3> SUFFICES ASSUME NEW j \in Instance
                 PROVE  queue'[j] \in Seq(Job) /\ Len(queue'[j]) <= QueueSize
      OBVIOUS
    <3>1. Len(queue[j]) <= QueueSize /\ QueueSize \in Nat
      BY AlertAssumption DEF IInv, TypeInv, TypeOK
    <3>2. j # i => queue'[j] = queue[j] /\ queue[j] \in Seq(Job)
      BY <1>2, <1>4
    <3>3. j = i => Len(queue'[j]) = n - 1 /\ n <= QueueSize /\ queue'[j] \in Seq(Job)
      BY <1>3, <1>4, <3>1
    <3> QED BY <1>3, <3>1, <3>2, <3>3
  <2> QED BY <1>1, <1>4, <1>8, <2>1 DEF IInv, TypeInv, TypeOK, WorkerState
<1>14. \A r \in Rule : CountInv(r)'
  BY <1>1 DEF IInv, CountInv, Pending, Current
<1>15. \A j \in Instance : HandlerInv(j)'
  BY <1>1 DEF IInv, HandlerInv, Known, Current
<1>16. \A j \in Instance : QueueInv(j)'
  <2> SUFFICES ASSUME NEW j \in Instance, NEW k \in DOMAIN queue'[j]
               PROVE  Known(queue[j][k])'
    BY DEF QueueInv
  <2>1. CASE j # i
    BY <1>1, <1>4, <2>1 DEF IInv, QueueInv, Known
  <2>2. CASE j = i
    <3>1. k \in 1..(n - 1) /\ k + 1 \in DOMAIN s /\ queue'[i][k] = s[k + 1]
      BY <1>3, <1>4, <2>2
    <3>2. Known(s[k + 1])
      BY <3>1 DEF IInv, QueueInv
    <3> QED BY <1>1, <2>2, <3>1, <3>2 DEF Known
  <2> QED BY <2>1, <2>2
<1>17. \A j \in Instance, v \in Worker : WorkerInv(j, v)'
  <2>1. \A j \in Instance, v \in Worker : ~(j = i /\ v = w) => WorkerInv(j, v)'
    BY <1>1, <1>8, OtherWorkers
  <2>2. WorkerInv(i, w)'
    BY <1>1, <1>6, <1>8, <1>9 DEF WorkerInv, Known
  <2> QED BY <2>1, <2>2
<1>18. OnePlace'
  <2>1. \A j, k \in Instance :
          handler'[j].job = handler'[k].job /\ handler'[j].job # None => j = k
    BY <1>1 DEF IInv, OnePlace
  <2>2. ASSUME NEW j \in Instance, NEW k \in Nat, NEW l \in Nat,
               k \in DOMAIN queue'[j], l \in DOMAIN queue'[j],
               queue'[j][k] = queue'[j][l]
        PROVE  k = l
    <3>1. CASE j # i
      BY <1>4, <2>2, <3>1 DEF IInv, OnePlace
    <3>2. CASE j = i
      <4>1. k \in 1..(n - 1) /\ l \in 1..(n - 1) /\ Tail(s)[k] = Tail(s)[l]
        BY <1>3, <1>4, <2>2, <3>2
      <4>2. s[k + 1] = s[l + 1]
        BY <1>3, <4>1
      <4>3. k + 1 \in 1..n /\ l + 1 \in 1..n /\ k + 1 \in Nat /\ l + 1 \in Nat
        BY <1>3, <4>1
      <4>4. k + 1 = l + 1
        BY <1>3, <4>2, <4>3 DEF IInv, OnePlace
      <4> QED BY <4>1, <4>4
    <3> QED BY <3>1, <3>2
  <2>3. ASSUME NEW k \in Instance, NEW j \in Instance, NEW x \in Job
        PROVE  /\ Queued(k, x)' /\ Queued(j, x)' => k = j
               /\ Queued(k, x)' => handler'[j].job # x
    BY <1>1, <1>11 DEF IInv, OnePlace
  <2>4. ASSUME NEW k \in Instance, NEW j \in Instance, NEW x \in Job,
               NEW v \in Worker, worker'[k][v].job = x
        PROVE  /\ handler'[j].job # x
               /\ ~Queued(j, x)'
               /\ \A u \in Worker : worker'[j][u].job = x => k = j /\ v = u
    <3>1. CASE x = job
      BY <1>1, <1>10, <1>11, <1>12, <2>4, <3>1
    <3>2. CASE x # job
      <4>1. worker[k][v].job = x
        BY <1>12, <2>4, <3>2
      <4>2. \A u \in Worker : worker'[j][u].job = x => worker[j][u].job = x
        BY <1>12, <3>2
      <4> QED BY <1>1, <1>11, <4>1, <4>2 DEF IInv, OnePlace
    <3> QED BY <3>1, <3>2
  <2> QED BY <2>1, <2>2, <2>3, <2>4 DEF OnePlace
<1>19. ConcludedInv'
  <2> SUFFICES ASSUME NEW x \in Job, NEW c \in DOMAIN Channel,
                      <<x, Channel[c]>> \in concluded
               PROVE  /\ Known(x)'
                      /\ \A j \in Instance :
                           /\ handler'[j].job # x
                           /\ ~Queued(j, x)'
                           /\ \A v \in Worker :
                                worker'[j][v].job = x => Past(worker'[j][v], c)
    BY <1>1 DEF ConcludedInv
  <2>1. x # job
    BY <1>10
  <2> QED BY <1>1, <1>11, <1>12, <2>1 DEF IInv, ConcludedInv, Known
<1>20. NoSilentLoss'
  <2>1. ASSUME NEW j \in Instance, NEW x \in Job, x \in Held(j) PROVE x \in Held(j)'
    <3>1. CASE handler[j].job = x
      BY <1>1, <3>1 DEF Held
    <3>2. CASE Queued(j, x)
      <4>1. CASE x = job
        BY <1>6, <1>8, <1>10, <3>2, <4>1 DEF Held
      <4>2. CASE x # job
        <5>1. Queued(j, x)'
          BY <1>4, <1>11, <3>2, <4>2 DEF Queued
        <5> QED BY <5>1 DEF Held, Queued
      <4> QED BY <4>1, <4>2
    <3>3. CASE \E v \in Worker : worker[j][v].job = x
      <4>1. PICK v \in Worker : worker[j][v].job = x
        BY <3>3
      <4>2. ~(j = i /\ v = w)
        BY <1>1, <4>1, JobFacts DEF IInv, WorkerInv
      <4> QED BY <1>8, <4>1, <4>2 DEF Held
    <3> QED BY <2>1, <3>1, <3>2, <3>3 DEF Held, Queued
  <2> QED BY <1>1, <2>1, NothingLost DEF IInv, TypeInv
<1> QED BY <1>1, <1>13, <1>14, <1>15, <1>16, <1>17, <1>18, <1>19, <1>20, RowsKept DEF IInv

(* One result more in the audit table, of a channel that had none yet, and *)
(* one more on the counter of the row exactly when it was sent.            *)
LEMMA RecordOK ==
  ASSUME IInv, NEW i \in Instance, NEW w \in Worker, NEW job \in Job,
         worker[i][w].job = job, Known(job),
         <<job, Channel[worker[i][w].channel]>> \notin concluded,
         RecordNotification(worker[i][w]), log' = log
  PROVE  /\ alerts' \in [Rule -> Row \cup {None}]
         /\ \A r \in Rule : /\ alerts'[r] = None <=> alerts[r] = None
                            /\ alerts[r] # None => alerts'[r].until = alerts[r].until
         /\ audit' \subseteq [job : Job, channel : ChannelName,
                              status : {"sent", "failed"}]
         /\ IsFiniteSet(audit')
         /\ \A a \in audit' : \/ a \in audit
                              \/ /\ a.job = job
                                 /\ a.channel = Channel[worker[i][w].channel]
         /\ \A r \in Rule : RowInv(r)'
         /\ AuditAgrees'
<1> DEFINE s == worker[i][w]
           name == Channel[s.channel]
<1>1. PICK new : new = [job |-> s.job, channel |-> name, status |-> s.step]
  OBVIOUS
<1>2. /\ s.step \in {"sent", "failed"}
      /\ audit' = audit \cup {new}
      /\ alerts' = IF s.step = "sent"
                   THEN [alerts EXCEPT ![job[1]].notifyCount = @ + 1] ELSE alerts
  BY <1>1 DEF RecordNotification
<1>3. /\ new \in [job : Job, channel : ChannelName, status : {"sent", "failed"}]
      /\ new.job = job /\ new.channel = name /\ new.status = s.step
      /\ name \in ChannelName
  BY <1>1, <1>2, ChannelFacts, WorkerFacts
<1>4. new \notin audit /\ \A a \in audit : ~(a.job = job /\ a.channel = name)
  BY <1>3 DEF IInv, TypeInv
<1>5. job[1] \in Rule /\ alerts \in [Rule -> Row \cup {None}]
      /\ \A r \in Rule : log[r] \in Seq(Upsert)
  BY JobFacts DEF IInv, TypeInv, TypeOK
<1>6. alerts[job[1]] # None /\ alerts[job[1]] \in Row
  <2>1. job[2] <= Len(log[job[1]]) /\ job[2] \in 1..MaxEvents /\ log[job[1]] \in Seq(Upsert)
    BY <1>5, JobFacts DEF Known
  <2>2. log[job[1]] # <<>>
    BY <2>1, AlertAssumption
  <2> QED BY <1>5, <2>2 DEF IInv, RowInv
<1>7. PICK row : row = [alerts[job[1]] EXCEPT !.notifyCount = @ + 1]
  OBVIOUS
<1>8. /\ row \in Row /\ row # None
      /\ row.until = alerts[job[1]].until
      /\ row.notifyCount = alerts[job[1]].notifyCount + 1
  BY <1>6, <1>7, NoneAssumption DEF Row
<1>9. s.step = "sent" => /\ alerts' \in [Rule -> Row \cup {None}]
                         /\ alerts'[job[1]] = row
                         /\ \A r \in Rule : r # job[1] => alerts'[r] = alerts[r]
  <2>1. s.step = "sent" => alerts' = [alerts EXCEPT ![job[1]] = row]
    BY <1>2, <1>7
  <2> QED BY <1>5, <1>8, <2>1
<1>10. s.step # "sent" => alerts' = alerts
  BY <1>2
<1> HIDE DEF s, name
<1>11. IsFiniteSet(audit')
  BY <1>2, FS_AddElement DEF IInv, TypeInv
<1>12. \A r \in Rule :
         /\ IsFiniteSet(Sent(r)) /\ Cardinality(Sent(r)) \in Nat
         /\ ~(r = job[1] /\ s.step = "sent") => Sent(r)' = Sent(r)
         /\ r = job[1] /\ s.step = "sent" =>
              Cardinality(Sent(r)') = Cardinality(Sent(r)) + 1
  <2> SUFFICES ASSUME NEW r \in Rule
               PROVE  /\ IsFiniteSet(Sent(r)) /\ Cardinality(Sent(r)) \in Nat
                      /\ ~(r = job[1] /\ s.step = "sent") => Sent(r)' = Sent(r)
                      /\ r = job[1] /\ s.step = "sent" =>
                           Cardinality(Sent(r)') = Cardinality(Sent(r)) + 1
    OBVIOUS
  <2>1. IsFiniteSet(Sent(r)) /\ Cardinality(Sent(r)) \in Nat
    <3>1. Sent(r) \subseteq audit /\ IsFiniteSet(audit)
      BY DEF Sent, IInv, TypeInv
    <3> QED BY <3>1, FS_Subset, FS_CardinalityType
  <2>2. ASSUME ~(r = job[1] /\ s.step = "sent") PROVE Sent(r)' = Sent(r)
    BY <1>2, <1>3, <2>2 DEF Sent
  <2>3. ASSUME r = job[1], s.step = "sent"
        PROVE  Cardinality(Sent(r)') = Cardinality(Sent(r)) + 1
    <3>1. Sent(r)' = Sent(r) \cup {new} /\ new \notin Sent(r)
      BY <1>2, <1>3, <1>4, <2>3 DEF Sent
    <3> QED BY <2>1, <3>1, FS_AddElement
  <2> QED BY <2>1, <2>2, <2>3
<1>13. \A r \in Rule : /\ alerts'[r] = None <=> alerts[r] = None
                       /\ alerts[r] # None => alerts'[r].until = alerts[r].until
  BY <1>6, <1>8, <1>9, <1>10
<1>14. \A r \in Rule : RowInv(r)'
  <2> SUFFICES ASSUME NEW r \in Rule PROVE RowInv(r)'
    OBVIOUS
  <2>1. RowInv(r)
    BY DEF IInv
  <2>2. CASE r = job[1] /\ s.step = "sent"
    <3>1. alerts'[r].notifyCount = Cardinality(Sent(r)')
      BY <1>6, <1>8, <1>9, <1>12, <2>1, <2>2 DEF RowInv
    <3> QED BY <1>13, <2>1, <3>1 DEF RowInv
  <2>3. CASE ~(r = job[1] /\ s.step = "sent")
    <3>1. alerts'[r] = alerts[r] /\ Sent(r)' = Sent(r)
      BY <1>9, <1>10, <1>12, <2>3
    <3> QED BY <2>1, <3>1 DEF RowInv
  <2> QED BY <2>2, <2>3
<1>15. AuditAgrees'
  <2>1. \A a, b \in audit' : a.job = b.job /\ a.channel = b.channel => a = b
    BY <1>2, <1>3, <1>4 DEF IInv, AuditAgrees
  <2>2. \A r \in Rule : alerts'[r] # None =>
           alerts'[r].notifyCount = Cardinality(Sent(r)')
    BY <1>14 DEF RowInv
  <2> QED BY <2>1, <2>2 DEF AuditAgrees, Sent
<1>16. alerts' \in [Rule -> Row \cup {None}]
  BY <1>5, <1>9, <1>10
<1>17. audit' \subseteq [job : Job, channel : ChannelName, status : {"sent", "failed"}]
  BY <1>2, <1>3 DEF IInv, TypeInv, TypeOK, ChannelName
<1> QED BY <1>2, <1>3, <1>11, <1>13, <1>14, <1>15, <1>16, <1>17 DEF s, name

(* A worker is done with the result of a channel and goes on to the next   *)
(* channel, or hangs: what it has concluded stays exactly what it is past. *)
LEMMA ResultStep ==
  ASSUME IInv, NEW i \in Instance, NEW w \in Worker, NEW state \in WorkerState,
         worker[i][w].step \in {"sent", "failed", "unaddressed"},
         RecordNotification(worker[i][w]) \/ UNCHANGED <<alerts, audit>>,
         concluded' = concluded \cup
           {<<worker[i][w].job, Channel[worker[i][w].channel]>>},
         SetWorker(i, w, state),
         lock' = lock, life' = life, handler' = handler, queue' = queue,
         received' = received, log' = log, lost' = lost,
         \/ /\ worker[i][w].channel = 1 /\ state.step = "notify"
            /\ state.job = worker[i][w].job /\ state.channel = 2
         \/ worker[i][w].channel = 2 /\ state.step = "idle" /\ state.job = None
         \/ /\ state.step = "hung" /\ state.job = worker[i][w].job
            /\ state.channel = worker[i][w].channel
  PROVE  IInv'
<1> DEFINE s == worker[i][w]
           name == Channel[s.channel]
<1>1. /\ lock' = lock /\ life' = life /\ handler' = handler /\ queue' = queue
      /\ received' = received /\ log' = log /\ lost' = lost
      /\ s.step \in {"sent", "failed", "unaddressed"}
      /\ concluded' = concluded \cup {<<s.job, name>>}
      /\ SetWorker(i, w, state)
  OBVIOUS
<1>2. PICK job \in Job : job = s.job
  <2>1. s.job # None
    BY <1>1 DEF IInv, WorkerInv
  <2> QED BY <2>1, WorkerFacts
<1>3. /\ s.channel \in 1..2 /\ name \in ChannelName
      /\ DOMAIN Channel = 1..2
      /\ Known(job) /\ job # None
      /\ \A c \in 1..(s.channel - 1) : <<job, Channel[c]>> \in concluded
  BY <1>2, WorkerFacts, ChannelFacts, JobFacts DEF IInv, WorkerInv
<1>4. <<job, name>> \notin concluded
  <2> SUFFICES ASSUME <<job, name>> \in concluded PROVE FALSE
    OBVIOUS
  <2>1. Past(s, s.channel)
    BY <1>2, <1>3 DEF IInv, ConcludedInv
  <2> QED BY <1>1, <1>3, <2>1 DEF Past
<1>5. /\ state \in WorkerState
      /\ \/ /\ s.channel = 1
            /\ state.step = "notify" /\ state.job = job /\ state.channel = 2
         \/ s.channel = 2 /\ state.step = "idle" /\ state.job = None
         \/ state.step = "hung" /\ state.job = job /\ state.channel = s.channel
  BY <1>2
<1>6. /\ worker' \in [Instance -> [Worker -> WorkerState]]
      /\ worker'[i][w] = state
      /\ \A j \in Instance, v \in Worker :
           ~(j = i /\ v = w) => worker'[j][v] = worker[j][v]
  BY <1>1, <1>5, SetWorkerOK
<1>7. LogGrows
  BY <1>1, LogKept
<1>8. /\ alerts' \in [Rule -> Row \cup {None}]
      /\ \A r \in Rule : /\ alerts'[r] = None <=> alerts[r] = None
                         /\ alerts[r] # None => alerts'[r].until = alerts[r].until
      /\ audit' \subseteq [job : Job, channel : ChannelName,
                           status : {"sent", "failed"}]
      /\ IsFiniteSet(audit')
      /\ \A a \in audit' : a \in audit \/ (a.job = job /\ a.channel = name)
      /\ \A r \in Rule : RowInv(r)'
      /\ AuditAgrees'
  <2>1. CASE RecordNotification(s)
    BY <1>1, <1>2, <1>3, <1>4, <2>1, RecordOK
  <2>2. CASE UNCHANGED <<alerts, audit>>
    <3>1. alerts' = alerts /\ audit' = audit
      BY <2>2
    <3>2. (\A r \in Rule : RowInv(r)') /\ AuditAgrees'
      BY <1>1, <3>1, RowsKept
    <3> QED BY <3>1, <3>2 DEF IInv, TypeInv, TypeOK, ChannelName
  <2> QED BY <2>1, <2>2 DEF Conclude
<1> HIDE DEF s, name
<1>9. TypeInv'
  <2>1. concluded' \subseteq Job \X ChannelName
    BY <1>1, <1>2, <1>3 DEF IInv, TypeInv
  <2>2. \A a \in audit' : <<a.job, a.channel>> \in concluded'
    BY <1>1, <1>2, <1>8 DEF IInv, TypeInv
  <2>3. TypeOK'
    BY <1>1, <1>6, <1>8 DEF IInv, TypeInv, TypeOK, ChannelName, WorkerState
  <2> QED BY <1>1, <1>8, <2>1, <2>2, <2>3 DEF IInv, TypeInv
<1>10. \A r \in Rule : CountInv(r)'
  BY <1>1 DEF IInv, CountInv, Pending, Current
<1>11. \A j \in Instance : HandlerInv(j)' /\ QueueInv(j)'
  <2> SUFFICES ASSUME NEW j \in Instance PROVE HandlerInv(j)' /\ QueueInv(j)'
    OBVIOUS
  <2>1. QueueInv(j)'
    BY <1>1 DEF IInv, QueueInv, Known
  <2>2. HandlerInv(j)
    BY DEF IInv
  <2>3. handler[j].step = "update" => Current(j) \in Rule
    BY HandlerFacts
  <2>4. HandlerInv(j)'
    BY <1>1, <1>8, <2>2, <2>3 DEF HandlerInv, Known, Current
  <2> QED BY <2>1, <2>4
<1>12. \A j \in Instance, v \in Worker : WorkerInv(j, v)'
  <2>1. \A j \in Instance, v \in Worker : ~(j = i /\ v = w) => WorkerInv(j, v)'
    BY <1>1, <1>6, OtherWorkers
  <2>2. WorkerInv(i, w)'
    <3>1. CASE s.channel = 1 /\ state.step = "notify" /\ state.job = job
               /\ state.channel = 2
      <4>1. \A c \in 1..(2 - 1) : <<job, Channel[c]>> \in concluded'
        BY <1>1, <1>2, <3>1 DEF name
      <4> QED BY <1>1, <1>3, <1>6, <3>1, <4>1 DEF WorkerInv, Known
    <3>2. CASE state.step = "idle" /\ state.job = None
      BY <1>6, <3>2 DEF WorkerInv
    <3>3. CASE state.step = "hung" /\ state.job = job /\ state.channel = s.channel
      BY <1>1, <1>3, <1>6, <3>3 DEF WorkerInv, Known
    <3> QED BY <1>5, <3>1, <3>2, <3>3
  <2> QED BY <2>1, <2>2
<1>13. \A j \in Instance, v \in Worker : worker'[j][v].job \in {worker[j][v].job, None}
  BY <1>2, <1>5, <1>6 DEF s
<1>14. OnePlace'
  BY <1>1, <1>13, OnePlaceKept
<1>15. \A j \in Instance, v \in Worker :
         worker'[j][v].job = job =>
           /\ j = i /\ v = w
           /\ \/ worker'[j][v].channel = 2 /\ s.channel = 1
              \/ worker'[j][v].channel = s.channel /\ worker'[j][v].step = "hung"
  <2> SUFFICES ASSUME NEW j \in Instance, NEW v \in Worker, worker'[j][v].job = job
               PROVE  /\ j = i /\ v = w
                      /\ \/ worker'[j][v].channel = 2 /\ s.channel = 1
                         \/ /\ worker'[j][v].channel = s.channel
                            /\ worker'[j][v].step = "hung"
    OBVIOUS
  <2>1. j = i /\ v = w
    <3>1. worker[j][v].job = job
      BY <1>3, <1>13
    <3> QED BY <1>2, <3>1 DEF s, IInv, OnePlace
  <2> QED BY <1>3, <1>5, <1>6, <2>1
<1>16. ConcludedInv'
  <2> SUFFICES ASSUME NEW x \in Job, NEW c \in 1..2, <<x, Channel[c]>> \in concluded'
               PROVE  /\ Known(x)'
                      /\ \A j \in Instance :
                           /\ handler'[j].job # x
                           /\ ~Queued(j, x)'
                           /\ \A v \in Worker :
                                worker'[j][v].job = x => Past(worker'[j][v], c)
    BY <1>3 DEF ConcludedInv
  <2>1. CASE x # job
    <3>1. <<x, Channel[c]>> \in concluded
      BY <1>1, <1>2, <2>1
    <3>2. \A j \in Instance, v \in Worker :
            worker'[j][v].job = x => worker[j][v].job = x /\ worker'[j][v] = worker[j][v]
      BY <1>2, <1>5, <1>6, <2>1, JobFacts DEF s
    <3>3. /\ Known(x)
          /\ \A j \in Instance :
               /\ handler[j].job # x
               /\ ~Queued(j, x)
               /\ \A v \in Worker :
                    worker[j][v].job = x => Past(worker[j][v], c)
      BY <1>3, <3>1 DEF IInv, ConcludedInv
    <3> QED BY <1>1, <3>2, <3>3 DEF Known, Queued
  <2>2. CASE x = job
    <3>1. c = s.channel \/ c < s.channel
      <4>1. CASE <<x, Channel[c]>> \in concluded
        BY <1>1, <1>2, <1>3, <2>2, <4>1 DEF IInv, ConcludedInv, Past, s
      <4>2. CASE Channel[c] = name
        BY <1>3, <4>2, ChannelFacts DEF name
      <4> QED BY <1>1, <4>1, <4>2
    <3>2. \A j \in Instance : handler[j].job # job /\ ~Queued(j, job)
      BY <1>2 DEF s, IInv, OnePlace
    <3>3. \A j \in Instance, v \in Worker : worker'[j][v].job = x => Past(worker'[j][v], c)
      BY <1>3, <1>15, <2>2, <3>1 DEF Past
    <3> QED BY <1>1, <1>3, <2>2, <3>2, <3>3 DEF Known, Queued
  <2> QED BY <2>1, <2>2
<1>17. NoSilentLoss'
  <2>1. ASSUME NEW j \in Instance, NEW x \in Job, x \in Held(j)
        PROVE  Done(x)' \/ x \in Held(j)'
    <3>1. CASE handler[j].job = x \/ Queued(j, x)
      BY <1>1, <3>1 DEF Held, Queued
    <3>2. CASE \E v \in Worker : worker[j][v].job = x
      <4>1. PICK v \in Worker : worker[j][v].job = x
        BY <3>2
      <4>2. CASE j = i /\ v = w /\ s.channel = 2 /\ state.step # "hung"
        <5>1. x = job /\ <<job, Channel[1]>> \in concluded' /\ <<job, Channel[2]>> \in concluded'
          BY <1>1, <1>2, <1>3, <4>1, <4>2 DEF s, name
        <5> QED BY <1>3, <5>1 DEF Done
      <4>3. CASE ~(j = i /\ v = w /\ s.channel = 2 /\ state.step # "hung")
        <5>1. worker'[j][v].job = x
          BY <1>2, <1>3, <1>5, <1>6, <4>1, <4>3 DEF s
        <5> QED BY <5>1 DEF Held
      <4> QED BY <4>2, <4>3
    <3> QED BY <2>1, <3>1, <3>2 DEF Held, Queued
  <2> QED BY <1>1, <2>1, NothingLost DEF IInv, TypeInv
<1>18. SuppressionFollowsDetections'
  BY <1>1 DEF IInv, SuppressionFollowsDetections
<1> QED BY <1>8, <1>9, <1>10, <1>11, <1>12, <1>14, <1>16, <1>17, <1>18 DEF IInv
(* What it comes to for the two actions. *)
LEMMA ConcludeStep ==
  ASSUME IInv, NEW i \in Instance, NEW w \in Worker, Conclude(i, w)
  PROVE  IInv'
<1> DEFINE s == worker[i][w]
           job == s.job
<1>1. /\ lock' = lock /\ life' = life /\ handler' = handler /\ queue' = queue
      /\ received' = received /\ log' = log /\ lost' = lost
      /\ s.step \in {"sent", "failed", "unaddressed"}
      /\ RecordNotification(s) \/ UNCHANGED <<alerts, audit>>
      /\ concluded' = concluded \cup {<<s.job, Channel[s.channel]>>}
      /\ SetWorker(i, w, NextState(s))
  BY DEF Conclude
<1>2. s.channel \in 1..2
  BY WorkerFacts
<1>5. PICK state : state = NextState(s)
  OBVIOUS
<1>6. /\ state \in WorkerState
      /\ \/ /\ s.channel = 1
            /\ state.step = "notify" /\ state.job = job /\ state.channel = 2
         \/ s.channel = 2 /\ state.step = "idle" /\ state.job = None
  <2>1. s \in WorkerState /\ MaxRetries \in Nat \ {0}
    BY AlertAssumption DEF IInv, TypeInv, TypeOK, WorkerState
  <2>2. CASE s.channel = 1
    <3>1. state = [s EXCEPT !.step = "notify", !.channel = @ + 1, !.attempt = 1]
      BY <1>5, <2>2, ChannelFacts DEF NextState, NextChannel
    <3> HIDE DEF s
    <3>2. state.step = "notify" /\ state.job = job /\ state.channel = 2
      BY <2>1, <2>2, <3>1 DEF WorkerState
    <3>3. 2 \in 1..Len(Channel) /\ 1 \in 1..MaxRetries /\ s.channel + 1 = 2
      BY <2>1, <2>2, ChannelFacts
    <3>4. state \in WorkerState
      BY <2>1, <3>1, <3>3 DEF WorkerState, WorkerStep
    <3> QED BY <2>2, <3>2, <3>4
  <2>3. CASE s.channel = 2
    <3>1. state = IdleWorker
      BY <1>5, <2>3, ChannelFacts DEF NextState, NextChannel
    <3> QED BY <2>3, <3>1, IdleWorkerFacts
  <2> QED BY <1>2, <2>2, <2>3
<1> HIDE DEF s
<1> QED BY <1>1, <1>5, <1>6, ResultStep DEF s

LEMMA RecordHangsStep ==
  ASSUME IInv, NEW i \in Instance, NEW w \in Worker, RecordHangs(i, w)
  PROVE  IInv'
<1> DEFINE s == worker[i][w]
<1>1. /\ lock' = lock /\ life' = life /\ handler' = handler /\ queue' = queue
      /\ received' = received /\ log' = log /\ lost' = lost
      /\ s.step \in {"sent", "failed", "unaddressed"}
      /\ RecordNotification(s) \/ UNCHANGED <<alerts, audit>>
      /\ concluded' = concluded \cup {<<s.job, Channel[s.channel]>>}
      /\ SetWorker(i, w, [s EXCEPT !.step = "hung"])
  BY DEF RecordHangs
<1>2. s \in WorkerState
  BY DEF IInv, TypeInv, TypeOK, WorkerState
<1>3. PICK state : state = [s EXCEPT !.step = "hung"]
  OBVIOUS
<1>4. /\ state \in WorkerState
      /\ state.step = "hung" /\ state.job = s.job /\ state.channel = s.channel
  <2> HIDE DEF s
  <2> QED BY <1>2, <1>3 DEF WorkerState, WorkerStep
<1>5. SetWorker(i, w, state)
  BY <1>1, <1>3
<1> QED BY <1>1, <1>4, <1>5, ResultStep
-----------------------------------------------------------------------------
(* The process ends: what it held is in lost, its places are empty. *)
LEMMA HaltStep ==
  ASSUME IInv, NEW i \in Instance, Halt(i, "dead")
  PROVE  IInv'
<1>1. /\ alerts' = alerts /\ audit' = audit /\ received' = received
      /\ log' = log /\ concluded' = concluded
      /\ lost' = lost \cup Held(i) /\ Unlock(i)
      /\ life' = [life EXCEPT ![i] = "dead"]
  BY DEF Halt
<1>2. /\ IdleHandler \in HandlerState
      /\ IdleHandler.step = "idle" /\ IdleHandler.todo = {} /\ IdleHandler.job = None
  BY DEF IdleHandler, HandlerState, HandlerStep
<1>3. /\ handler' \in [Instance -> HandlerState]
      /\ handler'[i] = IdleHandler
      /\ \A j \in Instance : j # i => handler'[j] = handler[j]
  BY <1>2 DEF Halt, IInv, TypeInv, TypeOK, HandlerState
<1>4. /\ queue' \in [Instance -> Seq(Job)]
      /\ queue'[i] = <<>>
      /\ \A j \in Instance : j # i => queue'[j] = queue[j]
  BY DEF Halt, IInv, TypeInv
<1>5. /\ worker' \in [Instance -> [Worker -> WorkerState]]
      /\ \A v \in Worker : worker'[i][v] = StoppedWorker
      /\ \A j \in Instance : j # i => worker'[j] = worker[j]
  <2>1. worker \in [Instance -> [Worker -> WorkerState]]
    BY DEF IInv, TypeInv, TypeOK, WorkerState
  <2>2. [w \in Worker |-> StoppedWorker] \in [Worker -> WorkerState]
    BY IdleWorkerFacts
  <2> HIDE DEF WorkerState
  <2> QED BY <2>1, <2>2 DEF Halt
<1>6. /\ lock' \in [Rule -> Instance \cup {None}]
      /\ \A r \in Rule, j \in Instance : j # i /\ lock[r] = j => lock'[r] = j
  BY <1>1, UnlockOK
<1>7. LogGrows
  BY <1>1, LogKept
<1>8. TypeInv'
  <2>1. \A j \in Instance : queue'[j] \in Seq(Job) /\ Len(queue'[j]) <= QueueSize
    <3> SUFFICES ASSUME NEW j \in Instance
                 PROVE  queue'[j] \in Seq(Job) /\ Len(queue'[j]) <= QueueSize
      OBVIOUS
    <3>1. QueueSize \in Nat /\ Len(<<>>) = 0 /\ Len(queue[j]) <= QueueSize
      BY AlertAssumption DEF IInv, TypeInv, TypeOK
    <3> QED BY <1>4, <3>1
  <2>2. lost' \subseteq Job
    BY <1>1 DEF Held, IInv, TypeInv, TypeOK
  <2>3. life' \in [Instance -> {"running", "closing", "dead"}]
    BY <1>1 DEF IInv, TypeInv, TypeOK
  <2>4. TypeOK'
    BY <1>1, <1>3, <1>5, <1>6, <2>1, <2>2, <2>3
       DEF IInv, TypeInv, TypeOK, HandlerState, WorkerState
  <2> QED BY <1>1, <1>4, <2>4 DEF IInv, TypeInv
<1>9. \A r \in Rule : CountInv(r)'
  <2>1. \A r \in Rule : i \notin Pending(r)'
    BY <1>2, <1>3 DEF Pending
  <2> QED BY <1>1, <1>3, <2>1, CountKept
<1>10. \A j \in Instance : HandlerInv(j)'
  <2>1. HandlerInv(i)'
    BY <1>2, <1>3 DEF HandlerInv
  <2> QED BY <1>1, <1>3, <1>6, <1>7, <2>1, OtherHandlers
<1>11. \A j \in Instance : QueueInv(j)'
  BY <1>4, <1>7, QueuesKept
<1>12. \A j \in Instance, v \in Worker : WorkerInv(j, v)'
  <2> SUFFICES ASSUME NEW j \in Instance, NEW v \in Worker PROVE WorkerInv(j, v)'
    OBVIOUS
  <2>1. CASE j = i
    BY <1>5, <2>1, IdleWorkerFacts DEF WorkerInv
  <2>2. CASE j # i
    <3>1. worker'[j][v] = worker[j][v] /\ WorkerInv(j, v)
      BY <1>5, <2>2 DEF IInv
    <3> QED BY <1>1, <3>1 DEF WorkerInv, Known
  <2> QED BY <2>1, <2>2
<1>13. OnePlace' /\ ConcludedInv'
  <2>1. \A j \in Instance : handler'[j].job \in {handler[j].job, None}
    BY <1>2, <1>3
  <2>2. \A j \in Instance : queue'[j] \in {queue[j], <<>>}
    BY <1>4
  <2>3. \A j \in Instance, v \in Worker :
          \/ worker'[j][v].job = None
          \/ /\ worker'[j][v].job = worker[j][v].job
             /\ worker'[j][v].channel = worker[j][v].channel
             /\ worker[j][v].step = "hung" => worker'[j][v].step = "hung"
    BY <1>5, IdleWorkerFacts
  <2> QED BY <1>1, <1>7, <2>1, <2>2, <2>3, PlacesKept
<1>14. NoSilentLoss'
  <2>1. ASSUME NEW j \in Instance, NEW x \in Job, x \in Held(j)
        PROVE  x \in lost' \/ x \in Held(j)'
    <3>1. j # i => Held(j)' = Held(j)
      BY <1>3, <1>4, <1>5 DEF Held
    <3> QED BY <1>1, <2>1, <3>1
  <2> QED BY <1>1, <2>1, NothingLost DEF IInv, TypeInv
<1> QED BY <1>1, <1>8, <1>9, <1>10, <1>11, <1>12, <1>13, <1>14, RowsKept DEF IInv

(* Only the life cycle changes. *)
LEMMA LifeStep ==
  ASSUME IInv, life' \in [Instance -> {"running", "closing", "dead"}],
         alerts' = alerts, lock' = lock, audit' = audit, handler' = handler,
         queue' = queue, worker' = worker, received' = received, log' = log,
         concluded' = concluded, lost' = lost
  PROVE  IInv'
<1>1. TypeInv'
  BY DEF IInv, TypeInv, TypeOK
<1>2. \A r \in Rule : CountInv(r)'
  BY DEF IInv, CountInv, Pending, Current
<1>3. \A j \in Instance : HandlerInv(j)' /\ QueueInv(j)'
  BY DEF IInv, HandlerInv, QueueInv, Known, Current
<1>4. OnePlace' /\ ConcludedInv'
  <2>1. /\ \A j \in Instance : handler'[j].job \in {handler[j].job, None}
        /\ \A j \in Instance : queue'[j] \in {queue[j], <<>>}
    OBVIOUS
  <2>2. \A j \in Instance, v \in Worker :
          \/ worker'[j][v].job = None
          \/ /\ worker'[j][v].job = worker[j][v].job
             /\ worker'[j][v].channel = worker[j][v].channel
             /\ worker[j][v].step = "hung" => worker'[j][v].step = "hung"
    OBVIOUS
  <2> QED BY <2>1, <2>2, PlacesKept, LogKept
<1>5. NoSilentLoss'
  <2>1. \A j \in Instance : Held(j)' = Held(j)
    BY DEF Held
  <2> QED BY <2>1, NothingLost DEF IInv, TypeInv
<1> QED BY <1>1, <1>2, <1>3, <1>4, <1>5, RowsKept, WorkersKept, LogKept DEF IInv

LEMMA CloseStep ==
  ASSUME IInv, NEW i \in Instance, Close(i)
  PROVE  IInv'
<1>1. life' \in [Instance -> {"running", "closing", "dead"}]
  BY DEF Close, IInv, TypeInv, TypeOK
<1> QED BY <1>1, LifeStep DEF Close, database, history

LEMMA InitIInv == Init => IInv
<1> SUFFICES ASSUME Init PROVE IInv
  OBVIOUS
<1> USE DEF Init
<1>1. /\ alerts \in [Rule -> Row \cup {None}]
      /\ lock \in [Rule -> Instance \cup {None}]
      /\ audit = {} /\ IsFiniteSet(audit) /\ concluded = {} /\ lost = {}
      /\ life \in [Instance -> {"running", "closing", "dead"}]
      /\ received \in 0..MaxEvents
  BY AlertAssumption, FS_EmptySet
<1>2. IdleHandler \in HandlerState /\ IdleHandler.step = "idle"
      /\ IdleHandler.todo = {} /\ IdleHandler.job = None
  BY DEF IdleHandler, HandlerState, HandlerStep
<1>3. /\ handler \in [Instance -> HandlerState]
      /\ \A i \in Instance : handler[i] = IdleHandler
  BY <1>2
<1>4. /\ worker \in [Instance -> [Worker -> WorkerState]]
      /\ \A i \in Instance, w \in Worker : worker[i][w] = IdleWorker
  <2>1. [w \in Worker |-> IdleWorker] \in [Worker -> WorkerState]
    BY IdleWorkerFacts
  <2> HIDE DEF WorkerState
  <2> QED BY <2>1
<1>5. /\ queue \in [Instance -> Seq(Job)]
      /\ \A i \in Instance : queue[i] = <<>> /\ Len(queue[i]) = 0 /\ DOMAIN queue[i] = {}
      /\ log \in [Rule -> Seq(Upsert)]
      /\ \A r \in Rule : log[r] = <<>> /\ Len(log[r]) = 0 /\ DOMAIN log[r] = {}
  OBVIOUS
<1>6. TypeInv
  <2>1. \A i \in Instance : queue[i] \in Seq(Job) /\ Len(queue[i]) <= QueueSize
    BY <1>5, AlertAssumption
  <2>2. TypeOK
    BY <1>1, <1>3, <1>4, <2>1 DEF TypeOK, HandlerState, WorkerState
  <2> QED BY <1>1, <1>5, <2>2 DEF TypeInv
<1>7. \A r \in Rule : RowInv(r)
  BY <1>5 DEF RowInv
<1>8. \A r \in Rule : CountInv(r)
  <2> SUFFICES ASSUME NEW r \in Rule PROVE CountInv(r)
    OBVIOUS
  <2>1. Pending(r) = {}
    BY <1>2, <1>3 DEF Pending
  <2> QED BY <1>5, <2>1, FS_EmptySet DEF CountInv
<1>9. \A i \in Instance : HandlerInv(i) /\ QueueInv(i)
  BY <1>2, <1>3, <1>5 DEF HandlerInv, QueueInv
<1>10. \A i \in Instance, w \in Worker : WorkerInv(i, w)
  BY <1>4, IdleWorkerFacts DEF WorkerInv
<1>11. /\ \A i \in Instance : handler[i].job = None
       /\ \A i \in Instance, w \in Worker : worker[i][w].job = None
       /\ \A i \in Instance, job \in Job : ~Queued(i, job)
       /\ \A job \in Job : job # None
  BY <1>2, <1>3, <1>4, <1>5, IdleWorkerFacts, JobFacts DEF Queued
<1>12. OnePlace
  BY <1>5, <1>11 DEF OnePlace
<1>13. ConcludedInv /\ AuditAgrees
  BY <1>1 DEF ConcludedInv, AuditAgrees
<1>14. SuppressionFollowsDetections /\ NoSilentLoss
  BY <1>5 DEF SuppressionFollowsDetections, NoSilentLoss
<1> QED BY <1>6, <1>7, <1>8, <1>9, <1>10, <1>12, <1>13, <1>14 DEF IInv

LEMMA NextIInv == IInv /\ [Next]_vars => IInv'
<1> SUFFICES ASSUME IInv, [Next]_vars PROVE IInv'
  OBVIOUS
<1>1. ASSUME NEW i \in Instance, Handle(i) PROVE IInv'
  BY <1>1, QueryActiveAlertStep, UpsertAlertStep, UpsertFailsStep,
     EnqueueCheckStep, EnqueueSendStep DEF Handle
<1>2. ASSUME NEW i \in Instance, NEW w \in Worker, Work(i, w) PROVE IInv'
  BY <1>2, TakeJobStep, StopWorkerStep, NotifyStep, BackoffStep, ConcludeStep,
     RecordHangsStep DEF Work
<1>3. ASSUME NEW i \in Instance, EnqueuePanics(i) \/ Exit(i) \/ Crash(i) PROVE IInv'
  BY <1>3, HaltStep DEF EnqueuePanics, Exit, Crash
<1>4. ASSUME NEW i \in Instance, Receive(i) \/ Close(i) PROVE IInv'
  BY <1>4, ReceiveStep, CloseStep
<1>5. CASE Next
  BY <1>1, <1>2, <1>3, <1>4, <1>5 DEF Next
<1>6. CASE UNCHANGED vars
  <2>1. life' \in [Instance -> {"running", "closing", "dead"}]
    BY <1>6 DEF vars, IInv, TypeInv, TypeOK
  <2> QED BY <1>6, <2>1, LifeStep DEF vars, database, history
<1> QED BY <1>5, <1>6

(* IInv is inductive: it holds in every state the processes can reach. *)
LEMMA IInvHolds == Spec => []IInv
BY InitIInv, NextIInv, PTL DEF Spec
-----------------------------------------------------------------------------
(* Tables, handlers, queues and workers keep their types: no queue exceeds *)
(* its capacity, no worker its attempts, and no row counts below zero,     *)
(* however many processes share the database.                              *)
THEOREM TypeCorrect == Spec => []TypeOK
<1>1. IInv => TypeOK
  BY DEF IInv, TypeInv
<1> QED BY <1>1, IInvHolds, PTL

(* UpsertAlert: the first detection of a fingerprint notifies, and a later *)
(* one exactly when it lies a window or more after the one committed just  *)
(* before, whatever processes upsert it at once, fail or crash: the row    *)
(* lock is held from the SELECT to the commit.                             *)
THEOREM SuppressionIsExact == Spec => []SuppressionFollowsDetections
<1>1. IInv => SuppressionFollowsDetections
  BY DEF IInv
<1> QED BY <1>1, IInvHolds, PTL

(* RecordAlertNotification: notification_count is the number of results    *)
(* "sent" in the audit table, and no decision has two results on one       *)
(* channel, though the workers of all processes write both.                *)
THEOREM AuditIsExact == Spec => []AuditAgrees
<1>1. IInv => AuditAgrees
  BY DEF IInv
<1> QED BY <1>1, IInvHolds, PTL

(* Dispatcher: from its commit on, a decision to notify is in some process *)
(* until every channel was tried, unless it is among those given up at the *)
(* places the code knows.                                                  *)
THEOREM DecisionsAreKept == Spec => []NoSilentLoss
<1>1. IInv => NoSilentLoss
  BY DEF IInv
<1> QED BY <1>1, IInvHolds, PTL
=============================================================================
