------------------------------ MODULE LearnList ------------------------------
(***************************************************************************)
(* A learn list (learning.h, learning.cpp): packets leave samples in a     *)
(* buffer; when the buffer is full, or old enough, its samples are sent to *)
(* the controller in one notification.  A sample is filtered out from the  *)
(* time it is learned until the controller acknowledges it, so a sample    *)
(* that is in the filter and never notified would never be learned again.  *)
(*                                                                         *)
(* The callers are the threads of the pipeline (add_sample) and of the     *)
(* control interface (set_max_samples, ack, reset_state...).  Everything   *)
(* runs under the list's mutex, except the sending of a notification by    *)
(* the transmit thread; a caller that finds the previous buffer still      *)
(* being sent gives the mutex up and waits on b_can_swap.                  *)
(***************************************************************************)
EXTENDS Integers, Sequences, FiniteSets, SequencesExt

CONSTANTS
    Callers,       \* threads that call add_sample or set_max_samples
    Samples,       \* contents of a sample
    Writers,       \* transports the notifications can be sent to
    SampleLimits,  \* values of max_samples
    TimeoutModes,  \* values set_timeout gives with_timeout
    Careful,       \* the controller acknowledges a sample at most once, and
                   \* forgets the notifications from before a reset
    IdMod,         \* 2^64: buffer ids are uint64_t
    MaxLearned,    \* bound: samples learned
    MaxChanges,    \* bound: set_max_samples and set_timeout calls
    MaxResets      \* bound: reset_state calls

ASSUME LearnAssumption ==
    /\ SampleLimits \subseteq Nat /\ SampleLimits # {}
    /\ TimeoutModes \subseteq BOOLEAN /\ TimeoutModes # {}
    /\ Careful \in BOOLEAN
    /\ IdMod \in Nat \ {0} /\ MaxLearned \in Nat /\ MaxChanges \in Nat
    /\ MaxResets \in Nat

VARIABLES
    buffer, num_samples, buffer_id, max_samples,
    with_timeout,
    overdue,         \* now >= buffer_started + timeout
    filter,          \* nodes [id, pos, sample] of the set of learned samples
    old_buffers,     \* buffer id -> [unacked_count, buffer]
    buffer_tmp, num_samples_tmp,
    stop_transmit_thread, writer, writer_busy,
    caller,          \* caller -> "idle", "b_can_swap" (waiting) or "ready"
    transmitter,     \* where the transmit thread is
    flight,          \* locals of buffer_transmit: header, and reset meanwhile?
    inbox,           \* notifications the controller received
    fault,           \* undefined behaviour that was run into, or "none"
    learned, changes, resets, \* bounded counters
    notified,        \* history: nodes that were sent
    raced            \* history: a reset while a notification was in flight

filling == <<buffer, num_samples, buffer_id>>
sending == <<buffer_tmp, num_samples_tmp>>
filtering == <<filter, old_buffers>>
config == <<max_samples, with_timeout, stop_transmit_thread, writer>>
transmit == <<transmitter, flight, writer_busy>>
observed == <<inbox, notified, raced, fault>>
bounds == <<learned, changes, resets>>
vars == <<filling, sending, filtering, config, overdue, caller, transmit, observed,
          bounds>>

NoFlight == [count |-> 0, id |-> 0, stale |-> FALSE]

Init ==
    /\ buffer = << >> /\ num_samples = 0 /\ buffer_id = 0
    /\ max_samples \in SampleLimits
    /\ with_timeout \in TimeoutModes
    /\ overdue = TRUE
    /\ filter = {} /\ old_buffers = << >>
    /\ buffer_tmp = << >> /\ num_samples_tmp = 0
    /\ stop_transmit_thread = FALSE
    /\ writer \in Writers /\ writer_busy = FALSE
    /\ caller = [c \in Callers |-> "idle"]
    /\ transmitter = "ready"
    /\ flight = NoFlight
    /\ inbox = {} /\ notified = {} /\ raced = FALSE /\ fault = "none"
    /\ learned = 0 /\ changes = 0 /\ resets = 0

Running == ~stop_transmit_thread /\ fault = "none"
InFlight == transmitter \in {"header", "send", "sent"}

-----------------------------------------------------------------------------
\* Helpers.

\* Mutant: the transmit thread is not woken up.
NotifySendNot == UNCHANGED transmitter

\* notify_one on b_can_send, which only the transmit thread waits on.
NotifySend ==
    transmitter' = IF transmitter \in {"wait", "wait_until"} THEN "ready" ELSE transmitter

\* notify_one on b_can_swap: any one of the callers that wait, if there is one.
NotifySwap ==
    IF \E c \in Callers : caller[c] = "b_can_swap"
    THEN \E c \in Callers : /\ caller[c] = "b_can_swap"
                            /\ caller' = [caller EXCEPT ![c] = "ready"]
    ELSE UNCHANGED caller

\* swap_buffers, when the buffer holds b and its count is n.
swap_buffers(b, n) ==
    /\ buffer_tmp' = b
    /\ buffer' = buffer_tmp
    /\ num_samples_tmp' = n
    /\ num_samples' = 0
    /\ buffer_id' = (buffer_id + 1) % IdMod

\* Mutant: the caller does not wait for the previous buffer to be sent.
process_full_buffer_hasty(c, b, n) ==
    /\ swap_buffers(b, n)
    /\ NotifySend
    /\ caller' = [caller EXCEPT ![c] = "idle"]

\* The caller swaps the buffers, or waits if the previous one is being sent.
process_full_buffer(c, b, n) ==
    \/ /\ buffer_tmp # << >>
       /\ caller' = [caller EXCEPT ![c] = "b_can_swap"]
       /\ buffer' = b /\ num_samples' = n
       /\ UNCHANGED <<buffer_id, sending, transmitter>>
    \/ /\ buffer_tmp = << >>
       /\ swap_buffers(b, n)
       /\ NotifySend
       /\ caller' = [caller EXCEPT ![c] = "idle"]

\* old_buffers[id], which operator[] creates when it is missing.
FilterPtrs(id) ==
    IF id \in DOMAIN old_buffers THEN old_buffers[id]
    ELSE [unacked_count |-> 0, buffer |-> << >>]

Forget(id) == [i \in DOMAIN old_buffers \ {id} |-> old_buffers[i]]

-----------------------------------------------------------------------------
\* The callers.

\* A sample that is not in the filter yet (one that is in it is dropped).
add_sample(c, s) ==
    /\ Running /\ caller[c] = "idle" /\ learned < MaxLearned
    /\ \A node \in filter : node.sample # s
    /\ LET b == Append(buffer, s)
           n == num_samples + 1
           ptrs == FilterPtrs(buffer_id)
           node == [id |-> buffer_id, pos |-> Len(ptrs.buffer) + 1, sample |-> s]
       IN  /\ filter' = filter \cup {node}
           /\ old_buffers' =
                [i \in DOMAIN old_buffers \cup {buffer_id} |->
                    IF i # buffer_id THEN old_buffers[i]
                    ELSE [unacked_count |-> ptrs.unacked_count + 1,
                          buffer |-> Append(ptrs.buffer, node)]]
           /\ \/ /\ n = 1 /\ max_samples > 1
                 /\ buffer' = b /\ num_samples' = n
                 /\ overdue' = FALSE
                 /\ NotifySend
                 /\ UNCHANGED <<buffer_id, sending, caller>>
              \/ /\ ~(n = 1 /\ max_samples > 1) /\ n >= max_samples
                 /\ process_full_buffer(c, b, n)
                 /\ UNCHANGED overdue
              \/ /\ ~(n = 1 /\ max_samples > 1) /\ n < max_samples
                 /\ buffer' = b /\ num_samples' = n
                 /\ UNCHANGED <<buffer_id, sending, caller, transmitter, overdue>>
    /\ learned' = learned + 1
    /\ UNCHANGED <<config, flight, writer_busy, observed, changes, resets>>

\* A caller that waited on b_can_swap has the mutex again.
ResumeSwap(c) ==
    /\ caller[c] = "ready"
    /\ process_full_buffer(c, buffer, num_samples)
    /\ UNCHANGED <<filtering, config, overdue, flight, writer_busy, observed, bounds>>

set_max_samples(c, n) ==
    /\ Running /\ caller[c] = "idle" /\ changes < MaxChanges
    /\ n # max_samples
    /\ max_samples' = n
    /\ \/ /\ num_samples > 0 /\ num_samples >= n
          /\ process_full_buffer(c, buffer, num_samples)
       \/ /\ ~(num_samples > 0 /\ num_samples >= n)
          /\ UNCHANGED <<filling, sending, caller, transmitter>>
    /\ changes' = changes + 1
    /\ UNCHANGED <<filtering, with_timeout, stop_transmit_thread, writer, overdue,
                   flight, writer_busy, observed, learned, resets>>

\* The transmit thread is not told.
set_timeout(on, late) ==
    /\ Running /\ changes < MaxChanges
    /\ with_timeout' = on
    /\ overdue' = late
    /\ changes' = changes + 1
    /\ UNCHANGED <<filling, sending, filtering, max_samples, stop_transmit_thread,
                   writer, caller, transmit, observed, learned, resets>>

\* set_learn_writer and set_learn_cb wait until no notification is being sent.
set_learn_writer(w) ==
    /\ Running /\ ~writer_busy
    /\ w # writer
    /\ writer' = w
    /\ UNCHANGED <<filling, sending, filtering, max_samples, with_timeout, overdue,
                   stop_transmit_thread, caller, transmit, observed, bounds>>

reset_state ==
    /\ Running /\ resets < MaxResets
    /\ buffer' = << >> /\ buffer_id' = 0 /\ num_samples' = 0
    /\ buffer_tmp' = << >> /\ num_samples_tmp' = 0
    /\ filter' = {} /\ old_buffers' = << >>
    /\ flight' = [flight EXCEPT !.stale = InFlight]
    /\ raced' = (raced \/ InFlight)
    /\ inbox' = IF Careful THEN {} ELSE inbox
    /\ notified' = {}
    /\ resets' = resets + 1
    /\ UNCHANGED <<config, overdue, caller, transmitter, writer_busy, fault, learned,
                   changes>>

\* ~LearnList, once no caller is inside: the flag, then notify_all.
Destroy ==
    /\ Running
    /\ \A c \in Callers : caller[c] = "idle"
    /\ stop_transmit_thread' = TRUE
    /\ NotifySend
    /\ UNCHANGED <<filling, sending, filtering, max_samples, with_timeout, writer,
                   overdue, caller, flight, writer_busy, observed, bounds>>

-----------------------------------------------------------------------------
\* The controller.

Acknowledge(m, positions) ==
    inbox' = (inbox \ {m}) \cup {[m EXCEPT !.todo = @ \ positions]}

\* ack: the samples of a notification, one by one.  An iterator is used without
\* a check: the sample may be gone, or the position may not exist.
ack(m, positions) ==
    /\ Running
    /\ positions # {}
    /\ Careful => positions \subseteq m.todo
    /\ Acknowledge(m, positions)
    /\ \/ m.id \notin DOMAIN old_buffers /\ UNCHANGED <<filtering, fault>>
       \/ /\ m.id \in DOMAIN old_buffers
          /\ LET ptrs == old_buffers[m.id]
                 left == ptrs.unacked_count - Cardinality(positions)
                 sound == \A p \in positions :
                             p \in DOMAIN ptrs.buffer /\ ptrs.buffer[p] \in filter
             IN  \/ /\ ~sound
                    /\ fault' = "ack of a sample that is not there"
                    /\ UNCHANGED filtering
                 \/ /\ sound
                    /\ filter' = filter \ {ptrs.buffer[p] : p \in positions}
                    /\ old_buffers' =
                         IF left = 0 THEN Forget(m.id)
                         ELSE [old_buffers EXCEPT ![m.id].unacked_count = left]
                    /\ UNCHANGED fault
    /\ UNCHANGED <<filling, sending, config, overdue, caller, transmit, notified,
                   raced, bounds>>

\* Mutant: the filter is emptied whatever else is in it.
ErasedAlways(ptrs) == filter

\* What ack_buffer takes from the filter: everything, if the counts agree.
Erased(ptrs) ==
    IF ptrs.unacked_count = Cardinality(filter) THEN filter ELSE Range(ptrs.buffer)

ack_buffer(m) ==
    /\ Running
    /\ Careful => m.todo = 1 .. m.count
    /\ Acknowledge(m, m.todo)
    /\ \/ m.id \notin DOMAIN old_buffers /\ UNCHANGED <<filtering, fault>>
       \/ /\ m.id \in DOMAIN old_buffers
          /\ LET gone == Erased(old_buffers[m.id]) IN
             \/ /\ ~(gone \subseteq filter)
                /\ fault' = "ack of a sample that is not there"
                /\ UNCHANGED filtering
             \/ /\ gone \subseteq filter
                /\ filter' = filter \ gone
                /\ old_buffers' = Forget(m.id)
                /\ UNCHANGED fault
    /\ UNCHANGED <<filling, sending, config, overdue, caller, transmit, notified,
                   raced, bounds>>

-----------------------------------------------------------------------------
\* The transmit thread.

StartSending(n) ==
    /\ transmitter' = "header"
    /\ flight' = [count |-> n, id |-> 0, stale |-> FALSE]
    /\ writer_busy' = TRUE

DueNow == with_timeout /\ num_samples > 0 /\ overdue

\* The loop of buffer_transmit that waits for something to send, one iteration.
buffer_transmit ==
    /\ transmitter = "ready"
    /\ \/ /\ stop_transmit_thread
          /\ transmitter' = "exited"
          /\ UNCHANGED <<filling, sending, flight, writer_busy>>
       \/ /\ ~stop_transmit_thread /\ buffer_tmp # << >>
          /\ StartSending(num_samples_tmp)
          /\ UNCHANGED <<filling, sending>>
       \/ /\ ~stop_transmit_thread /\ buffer_tmp = << >> /\ DueNow
          /\ StartSending(num_samples)
          /\ swap_buffers(buffer, num_samples)
       \/ /\ ~stop_transmit_thread /\ buffer_tmp = << >> /\ ~DueNow
          /\ transmitter' = IF with_timeout /\ num_samples > 0
                            THEN "wait_until" ELSE "wait"
          /\ UNCHANGED <<filling, sending, flight, writer_busy>>
    /\ UNCHANGED <<filtering, config, overdue, caller, observed, bounds>>

\* The mutex is free: the header is filled in from the members as they are now.
FillHeader ==
    /\ transmitter = "header"
    /\ transmitter' = "send"
    /\ flight' = [flight EXCEPT !.id = (buffer_id + IdMod - 1) % IdMod]
    /\ UNCHANGED <<filling, sending, filtering, config, overdue, caller, writer_busy,
                   observed, bounds>>

\* The samples are read from buffer_tmp, also without the mutex.
send_msgs ==
    /\ transmitter = "send"
    /\ transmitter' = "sent"
    /\ LET m == [id |-> flight.id, count |-> flight.count, payload |-> buffer_tmp,
                 todo |-> 1 .. flight.count]
       IN  inbox' = IF Careful /\ flight.stale THEN inbox ELSE inbox \cup {m}
    /\ notified' = notified \cup
           {node \in filter : node.id = flight.id /\ node.sample \in Range(buffer_tmp)}
    /\ UNCHANGED <<filling, sending, filtering, config, overdue, caller, flight,
                   writer_busy, raced, fault, bounds>>

FinishSending ==
    /\ transmitter = "sent"
    /\ transmitter' = "ready"
    /\ writer_busy' = FALSE
    /\ flight' = NoFlight
    /\ buffer_tmp' = << >>
    /\ NotifySwap
    /\ UNCHANGED <<filling, num_samples_tmp, filtering, config, overdue, observed,
                   bounds>>

\* wait_until returns at its deadline.
WaitTimesOut ==
    /\ transmitter = "wait_until"
    /\ transmitter' = "ready"
    /\ UNCHANGED <<filling, sending, filtering, config, overdue, caller, flight,
                   writer_busy, observed, bounds>>

\* Time passes: the buffer's timeout is over.
TimeoutPasses ==
    /\ with_timeout /\ ~overdue
    /\ overdue' = TRUE
    /\ UNCHANGED <<filling, sending, filtering, config, caller, transmit, observed,
                   bounds>>

\* A condition variable may also return for no reason.
SpuriousWakeup ==
    /\ \/ \E c \in Callers : /\ caller[c] = "b_can_swap"
                             /\ caller' = [caller EXCEPT ![c] = "ready"]
                             /\ UNCHANGED transmitter
       \/ /\ transmitter = "wait"
          /\ transmitter' = "ready"
          /\ UNCHANGED caller
    /\ UNCHANGED <<filling, sending, filtering, config, overdue, flight, writer_busy,
                   observed, bounds>>

Next ==
    \/ \E c \in Callers, s \in Samples : add_sample(c, s)
    \/ \E c \in Callers, n \in SampleLimits : set_max_samples(c, n)
    \/ \E c \in Callers : ResumeSwap(c)
    \/ \E on \in TimeoutModes, late \in BOOLEAN : set_timeout(on, late)
    \/ \E w \in Writers : set_learn_writer(w)
    \/ reset_state \/ Destroy
    \/ \E m \in inbox : ack_buffer(m)
    \/ \E m \in inbox : \E ps \in SUBSET (1 .. m.count) : ack(m, ps)
    \/ buffer_transmit \/ FillHeader \/ send_msgs \/ FinishSending
    \/ WaitTimesOut \/ TimeoutPasses \/ SpuriousWakeup

\* The threads that can run do run, the transport returns from a send, a waiting
\* with a deadline ends and time passes.  Nothing obliges anybody to call.
Fairness ==
    /\ WF_vars(buffer_transmit) /\ WF_vars(FillHeader) /\ WF_vars(send_msgs)
    /\ WF_vars(FinishSending) /\ WF_vars(WaitTimesOut) /\ WF_vars(TimeoutPasses)
    /\ \A c \in Callers : WF_vars(ResumeSwap(c))

Spec == Init /\ [][Next]_vars /\ Fairness

-----------------------------------------------------------------------------
\* Properties.

Node == [id : 0 .. IdMod - 1, pos : Nat \ {0}, sample : Samples]

\* The variables have the types of the members; the counts are the numbers of
\* samples in the buffers they go with.
TypeOK ==
    /\ buffer \in Seq(Samples) /\ num_samples = Len(buffer)
    /\ buffer_tmp \in Seq(Samples)
    /\ buffer_tmp # << >> => num_samples_tmp = Len(buffer_tmp)
    /\ buffer_id \in 0 .. IdMod - 1
    /\ max_samples \in SampleLimits /\ with_timeout \in BOOLEAN
    /\ filter \subseteq Node
    /\ caller \in [Callers -> {"idle", "b_can_swap", "ready"}]
    /\ transmitter \in {"ready", "wait", "wait_until", "header", "send", "sent", "exited"}
    /\ writer_busy = InFlight

\* Where the samples of the filter come from: each is one of the samples of its
\* buffer's record, which counts exactly the ones not acknowledged yet.  It is
\* what makes it right for ack_buffer to empty the filter when the counts agree.
FilterAccounted ==
    /\ \A node \in filter :
          /\ node.id \in DOMAIN old_buffers
          /\ node \in Range(old_buffers[node.id].buffer)
    /\ \A i \in DOMAIN old_buffers :
          old_buffers[i].unacked_count =
              Cardinality({node \in filter : node.id = i})

\* A careful controller never makes ack or ack_buffer use a dead iterator, and
\* what it has not acknowledged yet of a notification is still in the filter,
\* under the id and at the position by which it will acknowledge it.
AckReachesItsSamples ==
    Careful /\ ~raced =>
        /\ fault = "none"
        /\ \A m \in inbox :
              /\ m.count = Len(m.payload)
              /\ \A p \in m.todo :
                    [id |-> m.id, pos |-> p, sample |-> m.payload[p]] \in filter

\* What acknowledging rests on: the records of the filter agree with the filter,
\* and with what the controller was told.
AcksAreSound == FilterAccounted /\ AckReachesItsSamples

\* Every sample that is filtered out was notified or is still in one of the two
\* buffers: none is swallowed.
FilteredIsNotified ==
    \A node \in filter :
        node \in notified \/ node.sample \in Range(buffer) \cup Range(buffer_tmp)

\* The same, as long as no reset met a notification that was being sent.
FilteredIsNotifiedUnlessRaced == raced \/ FilteredIsNotified

\* What the comment in ack and ack_buffer says of a repeated acknowledgement: it
\* "simply returns".
RepeatedAckReturns == fault = "none"

Pending(s) == s \in Range(buffer) \cup Range(buffer_tmp)

\* With a timeout set, a sample that was learned is sent (or reset away).
SampleIsSent ==
    \A s \in Samples :
        Pending(s) /\ with_timeout ~> ~Pending(s) \/ ~with_timeout \/ ~Running

\* add_sample and set_max_samples return.
CallsReturn == \A c \in Callers : caller[c] # "idle" ~> caller[c] = "idle"
=============================================================================
