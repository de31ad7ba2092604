------------------------------ MODULE Queueing ------------------------------
(***************************************************************************)
(* The queues offered to targets: Queue (queue.h) and the three queueing   *)
(* blocks QueueingLogic, QueueingLogicRL and QueueingLogicPriRL            *)
(* (queueing.h).  A block has logical queues, each read by the worker that *)
(* FMap gives it; the elements of all the queues of a worker are kept      *)
(* together.  RL and PriRL stamp an element with the earliest time at      *)
(* which it may leave.                                                     *)
(*                                                                         *)
(* A critical section is one action.  A thread that waits on a condition   *)
(* variable can be woken up by notify_one, by its timeout or for no        *)
(* reason, and then looks again.                                           *)
(***************************************************************************)
EXTENDS Integers, FiniteSets, FiniteSetsExt

CONSTANTS
    Kinds,       \* subset of {"queue", "plain", "rl", "pri"}: the class in use
    Queues,      \* logical queue ids
    Workers,
    FMap,        \* logical queue -> worker
    Priorities,  \* 0 .. nb_priorities - 1; only PriRL has more than one
    Writers,     \* threads that push
    Capacities,  \* capacities a client can set
    Delays,      \* pkt_delay_ticks of the rates a client can set
    MaxPushed,   \* bound: elements pushed
    MaxSettings, \* bound: changes of capacity and rate
    MaxTime,     \* bound: the clock passes it only to reach a send time
    MaxSteps     \* bound: times the clock is set back

ASSUME QueueingAssumption ==
    /\ Kinds \subseteq {"queue", "plain", "rl", "pri"}
    /\ FMap \in [Queues -> Workers]
    /\ 0 \in Priorities /\ Priorities \subseteq Nat
    /\ Capacities \subseteq Nat \ {0} /\ Capacities # {}
    /\ Delays \subseteq Nat /\ 0 \in Delays

VARIABLES
    kind,
    q_info,   \* <<queue, priority>> -> [size, capacity, delay, last_sent]
    elements, \* worker -> elements [seq, queue, priority, send] it can pop
    w_size,   \* WorkerInfo::size of PriRL
    writer,   \* thread -> [at, queue, priority]
    worker,   \* worker -> [at, deadline]
    now,
    pushed,   \* elements pushed so far, the next sequence number
    settings,
    steps

vars == <<kind, q_info, elements, w_size, writer, worker, now, pushed, settings,
          steps>>

Forever == -1  \* deadline of a wait without a timeout
Idle == [at |-> "idle"]
Running == [at |-> "run", deadline |-> Forever]

PrioritiesOf(k) == IF k = "pri" THEN Priorities ELSE {0}
Blocking == kind \in {"queue", "plain"}

\* The constructors.  The queues start with one capacity and without a rate.
Init ==
    /\ kind \in Kinds
    /\ \E c \in Capacities :
         q_info = [i \in Queues \X Priorities |->
                     [size |-> 0, capacity |-> c, delay |-> 0, last_sent |-> 0]]
    /\ elements = [w \in Workers |-> {}]
    /\ w_size = [w \in Workers |-> 0]
    /\ writer = [t \in Writers |-> Idle]
    /\ worker = [w \in Workers |-> Running]
    /\ now = 0 /\ pushed = 0 /\ settings = 0 /\ steps = 0

-----------------------------------------------------------------------------
\* Writers.

\* Mutant: an element leaves one delay after it came, whatever waits before it.
get_next_tp_now(info) == now + info.delay

\* The time at which the next element of a queue may leave.
get_next_tp(info) ==
    IF info.last_sent + info.delay > now THEN info.last_sent + info.delay ELSE now

\* A thread that holds no element of the queues starts to push one, or one that
\* was woken up tries again.
Pushing(t, q, p) ==
    \/ /\ writer[t].at = "idle"
       /\ pushed < MaxPushed
    \/ writer[t] = [at |-> "retry", queue |-> q, priority |-> p]

\* is_not_full and the tests of the size against the capacity.
Full(q, p) == q_info[<<q, p>>].size >= q_info[<<q, p>>].capacity

\* A queue's info with one more element, stamped last.
OneMore(info, send) == [info EXCEPT !.size = @ + 1, !.last_sent = send]

\* The element enters the queue, stamped with its send time.
Enqueue(q, p, send) ==
    /\ q_info' = [q_info EXCEPT ![<<q, p>>] = OneMore(@, send)]
    /\ elements' = [elements EXCEPT ![FMap[q]] = @ \cup
                      {[seq |-> pushed, queue |-> q, priority |-> p, send |-> send]}]
    /\ pushed' = pushed + 1

\* Mutant: the worker is only woken up when it had nothing to send.
WakeWorkerIfEmpty(q) ==
    worker' = IF worker[FMap[q]].at = "wait" /\ elements[FMap[q]] = {}
              THEN [worker EXCEPT ![FMap[q]] = Running] ELSE worker

\* q_not_empty.notify_one
WakeWorker(q) ==
    worker' = IF worker[FMap[q]].at = "wait" THEN [worker EXCEPT ![FMap[q]] = Running]
              ELSE worker

\* A full queue: the blocking classes wait for q_not_full.  RL and PriRL, and Queue
\* with WriteReturn, drop the element: nothing changes.
WaitForRoom(t, q, p) ==
    /\ writer' = [writer EXCEPT ![t] =
                    [at |-> "waiting", queue |-> q, priority |-> p]]
    /\ UNCHANGED <<kind, q_info, elements, w_size, worker, now, pushed, settings,
                   steps>>

\* Queue::push_front.  The mutex is released before the notification.
push_front_queue(t, q) ==
    /\ kind = "queue"
    /\ Pushing(t, q, 0)
    /\ IF Full(q, 0) THEN WaitForRoom(t, q, 0)
       ELSE /\ Enqueue(q, 0, 0)
            /\ writer' = [writer EXCEPT ![t] =
                            [at |-> "notify", queue |-> q, priority |-> 0]]
            /\ UNCHANGED <<kind, w_size, worker, now, settings, steps>>

\* q_not_empty.notify_one of Queue::push_front, after the unlock.
NotifyNotEmpty(t) ==
    /\ writer[t].at = "notify"
    /\ WakeWorker(writer[t].queue)
    /\ writer' = [writer EXCEPT ![t] = Idle]
    /\ UNCHANGED <<kind, q_info, elements, w_size, now, pushed, settings, steps>>

\* QueueingLogic::push_front
push_front(t, q) ==
    /\ kind = "plain"
    /\ Pushing(t, q, 0)
    /\ IF Full(q, 0) THEN WaitForRoom(t, q, 0)
       ELSE /\ Enqueue(q, 0, 0)
            /\ WakeWorker(q)
            /\ writer' = [writer EXCEPT ![t] = Idle]
            /\ UNCHANGED <<kind, w_size, now, settings, steps>>

\* QueueingLogicRL::push_front.  A full queue refuses the element.
push_front_RL(t, q) ==
    /\ kind = "rl"
    /\ Pushing(t, q, 0)
    /\ ~Full(q, 0)
    /\ Enqueue(q, 0, get_next_tp(q_info[<<q, 0>>]))
    /\ WakeWorker(q)
    /\ UNCHANGED <<kind, w_size, writer, now, settings, steps>>

\* QueueingLogicPriRL::push_front
push_front_PriRL(t, q, p) ==
    /\ kind = "pri"
    /\ Pushing(t, q, p)
    /\ ~Full(q, p)
    /\ Enqueue(q, p, get_next_tp(q_info[<<q, p>>]))
    /\ w_size' = [w_size EXCEPT ![FMap[q]] = @ + 1]
    /\ WakeWorker(q)
    /\ UNCHANGED <<kind, writer, now, settings, steps>>

-----------------------------------------------------------------------------
\* Workers.

\* Mutant: a pop wakes nobody up.
WakeWriterNot(q) == UNCHANGED writer

\* q_not_full.notify_one: one of the writers that wait for the queue.
WakeWriter(q) ==
    LET waiting == {t \in Writers : writer[t].at = "waiting" /\ writer[t].queue = q}
    IN IF waiting = {} THEN UNCHANGED writer
       ELSE \E t \in waiting : writer' = [writer EXCEPT ![t].at = "retry"]

Dequeue(w, e) ==
    /\ elements' = [elements EXCEPT ![w] = @ \ {e}]
    /\ q_info' = [q_info EXCEPT ![<<e.queue, e.priority>>].size = @ - 1]

Sleep(w, deadline) ==
    /\ worker' = [worker EXCEPT ![w] = [at |-> "wait", deadline |-> deadline]]
    /\ UNCHANGED <<kind, q_info, elements, w_size, writer, now, pushed, settings,
                   steps>>

Oldest(es) == {e \in es : \A f \in es : e.seq <= f.seq}
Earliest(es) == {e \in es : \A f \in es : e.send <= f.send}

\* Queue::pop_back.  Here too the notification comes after the unlock.
pop_back_queue(w) ==
    /\ kind = "queue"
    /\ worker[w].at = "run"
    /\ IF elements[w] = {} THEN Sleep(w, Forever)
       ELSE \E e \in Oldest(elements[w]) :
              /\ Dequeue(w, e)
              /\ worker' = [worker EXCEPT ![w] = [at |-> "notify", queue |-> e.queue]]
              /\ UNCHANGED <<kind, w_size, writer, now, pushed, settings, steps>>

\* q_not_full.notify_one of Queue::pop_back, after the unlock.
NotifyNotFull(w) ==
    /\ worker[w].at = "notify"
    /\ WakeWriter(worker[w].queue)
    /\ worker' = [worker EXCEPT ![w] = Running]
    /\ UNCHANGED <<kind, q_info, elements, w_size, now, pushed, settings, steps>>

\* QueueingLogic::pop_back
pop_back(w) ==
    /\ kind = "plain"
    /\ worker[w].at = "run"
    /\ IF elements[w] = {} THEN Sleep(w, Forever)
       ELSE \E e \in Oldest(elements[w]) :
              /\ Dequeue(w, e)
              /\ WakeWriter(e.queue)
              /\ UNCHANGED <<kind, w_size, worker, now, pushed, settings, steps>>

\* QueueingLogicRL::pop_back.  A priority queue leaves open which of the elements
\* with the earliest send time is on top.
pop_back_RL(w) ==
    /\ kind = "rl"
    /\ worker[w].at = "run"
    /\ IF elements[w] = {} THEN Sleep(w, Forever)
       ELSE \E top \in Earliest(elements[w]) :
              IF top.send > now THEN Sleep(w, top.send)
              ELSE /\ Dequeue(w, top)
                   /\ UNCHANGED <<kind, w_size, writer, worker, now, pushed,
                                  settings, steps>>

\* QueueingLogicPriRL::pop_back: the first priority whose top may leave.  The wait
\* without elements is a wait for time_point::max(), because w_size is never
\* lowered.
pop_back_PriRL(w) ==
    LET Queued(p) == {e \in elements[w] : e.priority = p}
        Ready == {p \in Priorities : \E e \in Queued(p) : e.send <= now}
        next == IF w_size[w] = 0 \/ elements[w] = {} THEN Forever
                ELSE Min({e.send : e \in elements[w]})
    IN /\ kind = "pri"
       /\ worker[w].at = "run"
       /\ IF Ready = {} THEN Sleep(w, next)
          ELSE \E top \in Earliest(Queued(Min(Ready))) :
                 /\ Dequeue(w, top)
                 /\ UNCHANGED <<kind, w_size, writer, worker, now, pushed,
                                settings, steps>>

-----------------------------------------------------------------------------
\* Clients.

SetInfo(is, field, value) ==
    /\ settings < MaxSettings
    /\ q_info' = [i \in DOMAIN q_info |-> IF i \in is THEN [q_info[i] EXCEPT ![field] = value]
                                          ELSE q_info[i]]
    /\ settings' = settings + 1
    /\ UNCHANGED <<kind, elements, w_size, writer, worker, now, pushed, steps>>

\* set_capacity of every class: no writer is woken up.
set_capacity(q, p, c) ==
    p \in PrioritiesOf(kind) /\ SetInfo({<<q, p>>}, "capacity", c)

\* QueueingLogicRL::set_rate and the set_rate of one priority of PriRL
set_rate(q, p, d) ==
    /\ ~Blocking
    /\ p \in PrioritiesOf(kind)
    /\ SetInfo({<<q, p>>}, "delay", d)

\* for_each_q: the calls of PriRL without a priority.
for_each_q(q, c, d) ==
    /\ kind = "pri"
    /\ \/ SetInfo({q} \X Priorities, "capacity", c)
       \/ SetInfo({q} \X Priorities, "delay", d)

-----------------------------------------------------------------------------
\* The environment.

\* wait and wait_until may return at any time.
SpuriousWakeup ==
    /\ \/ \E t \in Writers : /\ writer[t].at = "waiting"
                             /\ writer' = [writer EXCEPT ![t].at = "retry"]
                             /\ UNCHANGED worker
       \/ \E w \in Workers : /\ worker[w].at = "wait"
                             /\ worker' = [worker EXCEPT ![w] = Running]
                             /\ UNCHANGED writer
    /\ UNCHANGED <<kind, q_info, elements, w_size, now, pushed, settings, steps>>

\* wait_until returns at its deadline.
Timeout(w) ==
    /\ worker[w].at = "wait"
    /\ worker[w].deadline # Forever
    /\ worker[w].deadline <= now
    /\ worker' = [worker EXCEPT ![w] = Running]
    /\ UNCHANGED <<kind, q_info, elements, w_size, writer, now, pushed, settings,
                   steps>>

Tick ==
    /\ ~Blocking
    /\ now < MaxTime \/ \E w \in Workers : \E e \in elements[w] : e.send > now
    /\ now' = now + 1
    /\ UNCHANGED <<kind, q_info, elements, w_size, writer, worker, pushed, settings,
                   steps>>

\* high_resolution_clock is the system clock, which can be set back.
SetClockBack ==
    /\ ~Blocking
    /\ steps < MaxSteps
    /\ now > 0
    /\ now' = now - 1
    /\ steps' = steps + 1
    /\ UNCHANGED <<kind, q_info, elements, w_size, writer, worker, pushed, settings>>

WriterStep(t) ==
    \E q \in Queues :
        \/ push_front_queue(t, q)
        \/ push_front(t, q)
        \/ push_front_RL(t, q)
        \/ \E p \in Priorities : push_front_PriRL(t, q, p)
WorkerStep(w) ==
    pop_back_queue(w) \/ pop_back(w) \/ pop_back_RL(w) \/ pop_back_PriRL(w)

Next ==
    \/ \E t \in Writers : WriterStep(t) \/ NotifyNotEmpty(t)
    \/ \E w \in Workers : WorkerStep(w) \/ NotifyNotFull(w) \/ Timeout(w)
    \/ \E q \in Queues, p \in Priorities :
          \/ \E c \in Capacities : set_capacity(q, p, c)
          \/ \E d \in Delays : set_rate(q, p, d)
    \/ \E q \in Queues, c \in Capacities, d \in Delays : for_each_q(q, c, d)
    \/ SpuriousWakeup
    \/ Tick
    \/ SetClockBack

Spec == Init /\ [][Next]_vars

\* A thread that was woken up goes on, workers come back for the next element and
\* time passes; nobody has to push.
Fairness ==
    /\ \A t \in Writers : WF_vars(writer[t].at = "retry" /\ WriterStep(t))
    /\ \A t \in Writers : WF_vars(NotifyNotEmpty(t))
    /\ \A w \in Workers : WF_vars(WorkerStep(w) \/ NotifyNotFull(w)) /\ WF_vars(Timeout(w))
    /\ WF_vars(Tick)

FairSpec == Spec /\ Fairness

-----------------------------------------------------------------------------
\* Properties.

ElementsOf(q, p) == {e \in elements[FMap[q]] : e.queue = q /\ e.priority = p}

\* Sizes count the elements, which never exceed the largest capacity ever set.
TypeOK ==
    /\ kind \in Kinds
    /\ \A q \in Queues, p \in Priorities :
         /\ q_info[<<q, p>>].size = Cardinality(ElementsOf(q, p))
         /\ q_info[<<q, p>>].size <= Max(Capacities)
    /\ \A w \in Workers : Cardinality(elements[w]) <= w_size[w] \/ kind # "pri"

\* A worker never sleeps past the moment at which one of its elements may leave:
\* the deadline of its wait covers every element, the ones pushed since it fell
\* asleep included.  Only Queue, which notifies after it unlocks, leaves a gap, and
\* then the notification is still to come.
NoLostWakeup ==
    \A w \in Workers : worker[w].at = "wait" =>
        \/ elements[w] = {}
        \/ /\ worker[w].deadline # Forever
           /\ \A e \in elements[w] : worker[w].deadline <= e.send
        \/ \E t \in Writers : writer[t].at = "notify" /\ FMap[writer[t].queue] = w

\* Elements of one queue and priority leave in the order they came, even if rates
\* change and the clock is set back in between.  The one exception is what the
\* priority queue leaves open: elements with the same send time.
LeaveInOrder ==
    [][\A w \in Workers : \A e \in elements[w] \ elements'[w] : \A f \in elements'[w] :
          (f.queue = e.queue /\ f.priority = e.priority /\ f.seq < e.seq)
            => (~Blocking /\ f.send = e.send)]_vars

\* A writer that waits for room gets its element in, and what is in a queue leaves
\* it, as long as workers come back for more.
EverythingIsServed ==
    /\ \A t \in Writers : (writer[t].at = "waiting") ~> (writer[t].at # "waiting")
    /\ \A i \in 0 .. MaxPushed - 1 :
         (\E w \in Workers : \E e \in elements[w] : e.seq = i)
            ~> (\A w \in Workers : \A e \in elements[w] : e.seq # i)

=============================================================================
