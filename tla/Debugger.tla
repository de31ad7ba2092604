------------------------------ MODULE Debugger ------------------------------
(***************************************************************************)
(* The packet debugger DebuggerNN (debugger.cpp) with the life of the      *)
(* packets that call it (packet.cpp, built with BMDEBUG_ON): packets       *)
(* announce their creation, the fields they write, the control blocks they *)
(* enter and leave, and their destruction; a client stops them, looks at   *)
(* them and lets them continue, over a request/reply socket.               *)
(*                                                                         *)
(* One mutex guards everything, so that a stretch of code between two      *)
(* waits is one action.  A request without an answer of its own (continue, *)
(* next) is answered by the next event, or by a keep-alive that stops the  *)
(* packets again.  The socket serves any number of clients and the debugger *)
(* does not know who asks: only ATTACH and DETACH look at attached, so that *)
(* a client that was refused, or was detached by another, is served too.   *)
(***************************************************************************)
EXTENDS Integers, Sequences, FiniteSets

CONSTANTS
    Packets,      \* room for packets: one thread works on each
    Fields,       \* fields a packet writes
    FIELD_CTR,    \* the register of control blocks
    Filters,      \* [ids, all]: copies and packets a client filters
    W,            \* buckets of the copy id generator (4096)
    MaxPackets,   \* bound: packets and clones made
    MaxUpdates,   \* bound: updates of packets
    MaxRequests   \* bound: requests of the client

\* What the code's constants give; the instances assume it.
DebuggerAssumption == W \in Nat \ {0} /\ FIELD_CTR \notin Fields

VARIABLES
    arr,              \* CopyIdGenerator: bucket -> count
    thread,           \* packet -> what its thread does
    made, updated,    \* packets and clones made, and their updates
    registers,        \* packet_registers_map: id -> [field -> number of updates]
    ctr_stacks,       \* packet_ctr_stacks: id -> depth
    packet_ids_count, \* packet id -> copies
    stop_packet_in, can_continue, attached, break_packet_in, break_next,
    watchpoints, filter, filter_all,
    reply_ready, reply, \* the reply being prepared
    request,          \* [at, msg] of the request thread
    requests,         \* requests received
    astray,           \* history: with nobody attached, somebody asked to stop packets
    fault             \* assertion that failed

flags == <<stop_packet_in, can_continue, attached, break_packet_in, break_next>>
selection == <<watchpoints, filter, filter_all>>
packets == <<arr, thread, made, updated, registers, ctr_stacks, packet_ids_count>>
vars == <<packets, flags, selection, reply_ready, reply, request, requests, astray, fault>>

AllFields == Fields \cup {FIELD_CTR}
PacketIds == [packet_id : 0 .. MaxPackets - 1, copy_id : -MaxPackets .. MaxPackets]
NoThread == [at |-> "none"]
Empty == [x \in {} |-> x]
Set(f, x, v) == [y \in DOMAIN f \cup {x} |-> IF y = x THEN v ELSE f[y]]
Erase(f, x) == [y \in DOMAIN f \ {x} |-> f[y]]

\* init_debugger: the debugger runs before the first packet; nobody is attached.
Init ==
    /\ arr = [b \in 0 .. W - 1 |-> 0]
    /\ thread = [p \in Packets |-> NoThread]
    /\ made = 0 /\ updated = 0
    /\ registers = Empty /\ ctr_stacks = Empty /\ packet_ids_count = Empty
    /\ stop_packet_in = FALSE /\ can_continue = TRUE /\ attached = FALSE
    /\ break_packet_in = FALSE /\ break_next = FALSE
    /\ watchpoints = {} /\ filter = {} /\ filter_all = {}
    /\ reply_ready = FALSE /\ reply = "none"
    /\ request = [at |-> "recv"] /\ requests = 0
    /\ astray = FALSE
    /\ fault = "none"

-----------------------------------------------------------------------------
\* Packets outside the debugger.

Running(p) == thread[p].at = "run" /\ fault = "none"
Bucket(id) == id % W
\* Room is alike: a new packet takes the first.
Room(p) == thread[p].at = "none" /\ p = CHOOSE q \in Packets : thread[q].at = "none"
Debug == UNCHANGED <<registers, ctr_stacks, packet_ids_count, flags, selection,
                     reply_ready, reply, request, requests, astray, fault>>

\* Packet::Packet for a received packet: copy id 0, and the call of packet_in.
new_packet(p) ==
    /\ Room(p) /\ fault = "none" /\ made < MaxPackets
    /\ made' = made + 1
    /\ thread' = [thread EXCEPT ![p] =
         [at |-> "in", sleep |-> "no", parent |-> p,
          id |-> [packet_id |-> made, copy_id |-> 0]]]
    /\ UNCHANGED <<arr, updated>>
    /\ Debug

\* The clones: the copy id comes from the generator.  The thread goes on when the
\* constructor of the clone returns.
clone(p, c) ==
    LET b == Bucket(thread[p].id.packet_id) IN
    /\ Running(p) /\ Room(c) /\ made < MaxPackets
    /\ made' = made + 1
    /\ arr' = [arr EXCEPT ![b] = @ + 1]
    /\ thread' = [thread EXCEPT
         ![p].at = "clone",
         ![c] = [at |-> "in", sleep |-> "no", parent |-> p,
                 id |-> [packet_id |-> thread[p].id.packet_id, copy_id |-> arr'[b]]]]
    /\ UNCHANGED updated
    /\ Debug

\* Packet::~Packet: the generator counts down first, the debugger hears last.
destroy(p) ==
    /\ Running(p)
    /\ arr' = [arr EXCEPT ![Bucket(thread[p].id.packet_id)] = @ - 1]
    /\ thread' = [thread EXCEPT ![p].at = "out"]
    /\ UNCHANGED <<made, updated>>
    /\ Debug

\* A field is written, or a control block is entered or left.
Update(p, f) ==
    /\ Running(p)
    /\ updated < MaxUpdates
    /\ updated' = updated + 1
    /\ thread' = [thread EXCEPT ![p].at = f]
    /\ UNCHANGED <<arr, made>>
    /\ Debug

-----------------------------------------------------------------------------
\* Events.

in_filters(id) ==
    \/ filter = {} /\ filter_all = {}
    \/ id.packet_id \in filter_all
    \/ id \in filter

packet_ids_count_get(n) ==
    IF n \in DOMAIN packet_ids_count THEN packet_ids_count[n] ELSE 0

\* Each of the send_* functions asserts that there is no reply yet: the flag is
\* cleared when a request arrives and not when its reply leaves.
Reply(what) ==
    /\ reply' = what
    /\ reply_ready' = TRUE
    /\ fault' = IF reply_ready THEN "reply overwritten" ELSE fault

\* send_packet_in, send_field_value: an event is the reply to the request in
\* progress.
Event(what) ==
    /\ can_continue' = FALSE
    /\ break_next' = FALSE
    /\ Reply(what)

NoEvent == UNCHANGED <<can_continue, break_next, reply, reply_ready, fault>>

Sleep(p, cvar) ==
    /\ thread' = [thread EXCEPT ![p].sleep = cvar]
    /\ UNCHANGED <<registers, ctr_stacks, packet_ids_count>>
    /\ NoEvent

\* Mutant: only the flag of the outer loop is looked at.
MayEnterAtOnce(p) == can_continue

\* The loop of packet_in_: a copy of a packet that is already in may enter while new
\* packets are held up.
MayEnter(p) ==
    can_continue /\ ~(stop_packet_in /\ packet_ids_count_get(thread[p].id.packet_id) = 0)

packet_in_(p) ==
    LET id == thread[p].id
        q == thread[p].parent
    IN /\ thread[p].at = "in"
       /\ IF MayEnter(p)
          THEN IF id \in DOMAIN registers
               THEN /\ fault' = "packet in twice"
                    /\ UNCHANGED <<thread, registers, ctr_stacks, packet_ids_count,
                                   can_continue, break_next, reply, reply_ready>>
               ELSE /\ registers' = Set(registers, id, [f \in AllFields |-> 0])
                    /\ ctr_stacks' = Set(ctr_stacks, id, 0)
                    /\ packet_ids_count' =
                         Set(packet_ids_count, id.packet_id,
                             packet_ids_count_get(id.packet_id) + 1)
                    /\ thread' = [thread EXCEPT ![q].at = "run", ![p].at = "run"]
                    /\ IF in_filters(id) /\ (break_next \/ break_packet_in)
                       THEN Event("packet in") ELSE NoEvent
          ELSE Sleep(p, IF can_continue THEN "resume" ELSE "continue")

\* notify_update_generic
notify_update_generic(p, f) ==
    LET id == thread[p].id IN
    /\ registers' = [registers EXCEPT ![id][f] = @ + 1]
    /\ IF in_filters(id) /\ (break_next \/ f \in watchpoints)
       THEN Event("field value") ELSE NoEvent

notify_update_(p) ==
    /\ thread[p].at \in Fields
    /\ IF ~can_continue THEN Sleep(p, "continue")
       ELSE /\ thread' = [thread EXCEPT ![p].at = "run"]
            /\ notify_update_generic(p, thread[p].at)
            /\ UNCHANGED <<ctr_stacks, packet_ids_count>>

\* A block is entered when the stack is empty and left otherwise.
notify_ctr_(p) ==
    LET id == thread[p].id IN
    /\ thread[p].at = FIELD_CTR
    /\ IF ~can_continue THEN Sleep(p, "continue")
       ELSE /\ thread' = [thread EXCEPT ![p].at = "run"]
            /\ ctr_stacks' = [ctr_stacks EXCEPT ![id] = 1 - @]
            /\ notify_update_generic(p, FIELD_CTR)
            /\ UNCHANGED packet_ids_count

\* Mutant: a packet leaves although everything is stopped.
MayLeaveAlways == TRUE

MayLeave == can_continue

packet_ids_count_out(n) ==
    packet_ids_count' = IF packet_ids_count[n] = 1 THEN Erase(packet_ids_count, n)
                        ELSE [packet_ids_count EXCEPT ![n] = @ - 1]

packet_out_(p) ==
    LET id == thread[p].id IN
    /\ thread[p].at = "out"
    /\ IF ~MayLeave THEN Sleep(p, "continue")
       ELSE /\ registers' = Erase(registers, id)
            /\ ctr_stacks' = Erase(ctr_stacks, id)
            /\ packet_ids_count_out(id.packet_id)
            /\ thread' = [thread EXCEPT ![p] = NoThread]
            /\ NoEvent

\* The thread of a packet inside the debugger.  The inner loop of
\* wait_for_resume_packet_in looks at its own flag only.
PacketStep(p) ==
    /\ fault = "none"
    /\ thread[p].at \notin {"none", "run", "clone"}
    /\ thread[p].sleep = "no"
    /\ packet_in_(p) \/ notify_update_(p) \/ notify_ctr_(p) \/ packet_out_(p)
    /\ UNCHANGED <<arr, made, updated, stop_packet_in, attached, break_packet_in, selection,
                   request, requests, astray>>

\* Mutant: the other condition variable is notified.
WokenOther(cvars) ==
    [p \in Packets |-> IF /\ thread[p].at # "none"
                          /\ thread[p].sleep \in {"continue", "resume"} \ cvars
                       THEN [thread[p] EXCEPT !.sleep = "no"] ELSE thread[p]]

\* notify_all
Woken(cvars) ==
    [p \in Packets |-> IF thread[p].at # "none" /\ thread[p].sleep \in cvars
                       THEN [thread[p] EXCEPT !.sleep = "no"] ELSE thread[p]]

-----------------------------------------------------------------------------
\* Requests.  Each is answered at once unless it waits for an event.

\* send_rep_status
Status(s) == Reply(s)

Continue(next) ==
    /\ can_continue' = TRUE
    /\ break_next' = (next \/ break_next)
    /\ thread' = Woken({"continue"})
    /\ UNCHANGED <<stop_packet_in, attached, break_packet_in, selection, reply,
                   reply_ready, fault>>

req_continue(m) == m.type = "CONTINUE" /\ Continue(FALSE)
req_next(m) == m.type = "NEXT" /\ Continue(TRUE)

\* Nothing changes but the reply.
Query(s) == Status(s) /\ UNCHANGED <<thread, flags, selection>>

req_get_value(m) ==
    /\ m.type = "GET_VALUE"
    /\ Query(IF m.id \notin DOMAIN registers THEN "no such packet"
             ELSE IF registers[m.id][m.field] = 0 THEN "no value" ELSE "field value")

req_get_backtrace(m) ==
    /\ m.type = "GET_BACKTRACE"
    /\ Query(IF m.id \notin DOMAIN ctr_stacks THEN "no such packet" ELSE "backtrace")

req_break_packet_in(m) ==
    /\ m.type = "BREAK_PACKET_IN"
    /\ break_packet_in' = TRUE
    /\ Status("ok")
    /\ UNCHANGED <<thread, stop_packet_in, can_continue, attached, break_next, selection>>

req_remove_packet_in(m) ==
    /\ m.type = "REMOVE_PACKET_IN"
    /\ break_packet_in' = FALSE
    /\ Status(IF break_packet_in THEN "ok" ELSE "error")
    /\ UNCHANGED <<thread, stop_packet_in, can_continue, attached, break_next, selection>>

req_stop_packet_in(m) ==
    /\ m.type = "STOP_PACKET_IN"
    /\ stop_packet_in' = TRUE
    /\ Status("ok")
    /\ UNCHANGED <<thread, can_continue, attached, break_packet_in, break_next, selection>>

req_resume_packet_in(m) ==
    /\ m.type = "RESUME_PACKET_IN"
    /\ IF stop_packet_in
       THEN stop_packet_in' = FALSE /\ thread' = Woken({"resume"}) /\ Status("ok")
       ELSE UNCHANGED <<stop_packet_in, thread>> /\ Status("error")
    /\ UNCHANGED <<can_continue, attached, break_packet_in, break_next, selection>>

\* A copy id of 2^64 - 1 stands for every copy of the packet.
req_filter_notifications(m) ==
    /\ m.type = "FILTER_NOTIFICATIONS"
    /\ filter' = m.filters.ids
    /\ filter_all' = m.filters.all
    /\ Status("ok")
    /\ UNCHANGED <<thread, flags, watchpoints>>

req_set_watchpoint(m) ==
    /\ m.type = "SET_WATCHPOINT"
    /\ watchpoints' = watchpoints \cup {m.field}
    /\ Status("ok")
    /\ UNCHANGED <<thread, flags, filter, filter_all>>

req_unset_watchpoint(m) ==
    /\ m.type = "UNSET_WATCHPOINT"
    /\ watchpoints' = watchpoints \ {m.field}
    /\ Status(IF m.field \in watchpoints THEN "ok" ELSE "error")
    /\ UNCHANGED <<thread, flags, filter, filter_all>>

\* The caller wakes the packets up.
reset_state ==
    /\ watchpoints' = {} /\ filter' = {} /\ filter_all' = {}
    /\ break_packet_in' = FALSE
    /\ stop_packet_in' = FALSE

req_reset(m) ==
    /\ m.type = "RESET"
    /\ reset_state
    /\ thread' = Woken({"resume"})
    /\ Status("ok")
    /\ UNCHANGED <<can_continue, attached, break_next>>

req_attach(m) ==
    /\ m.type = "ATTACH"
    /\ IF attached THEN Query("error")
       ELSE /\ attached' = TRUE
            /\ can_continue' = FALSE
            /\ reset_state
            /\ thread' = Woken({"resume"})
            /\ Status("ok")
            /\ UNCHANGED break_next

req_detach(m) ==
    /\ m.type = "DETACH"
    /\ IF ~attached THEN Query("error")
       ELSE /\ attached' = FALSE
            /\ can_continue' = TRUE
            /\ reset_state
            /\ thread' = Woken({"resume", "continue"})
            /\ Status("ok")
            /\ UNCHANGED break_next

\* The default of the switch: assert(0).
req_unknown(m) ==
    /\ m.type = "UNKNOWN"
    /\ fault' = "unknown request"
    /\ UNCHANGED <<thread, flags, selection, reply, reply_ready>>

\* What clients ask, whether one is attached or not: tools/p4dbg.py prints the
\* status of its ATTACH and goes on whatever it is.
NoSuchPacket == [packet_id |-> MaxPackets, copy_id |-> 0]
Commands ==
    [type : {"ATTACH", "DETACH", "CONTINUE", "NEXT", "BREAK_PACKET_IN", "REMOVE_PACKET_IN",
             "STOP_PACKET_IN", "RESUME_PACKET_IN", "RESET", "UNKNOWN"}]
Watches == [type : {"SET_WATCHPOINT", "UNSET_WATCHPOINT"}, field : Fields]
Queries ==
    [type : {"GET_VALUE"}, id : DOMAIN registers \cup {NoSuchPacket}, field : Fields]
    \cup [type : {"GET_BACKTRACE"}, id : DOMAIN registers \cup {NoSuchPacket}]
    \cup [type : {"FILTER_NOTIFICATIONS"}, filters : Filters]
Messages == Commands \cup Watches \cup Queries

\* request_in: a request arrives and the old reply is forgotten.
recv(m) ==
    /\ request.at = "recv" /\ fault = "none" /\ requests < MaxRequests
    /\ request' = [at |-> "dispatch", msg |-> m]
    /\ requests' = requests + 1
    /\ reply_ready' = FALSE
    /\ UNCHANGED <<packets, flags, selection, reply, astray, fault>>

\* The requests that stop packets, at once or later: with nobody attached nobody is
\* there to let them go, until a client attaches.  ATTACH resets everything but
\* break_next, which an unattached NEXT can leave set.
Stopping == {"CONTINUE", "NEXT", "BREAK_PACKET_IN", "STOP_PACKET_IN", "SET_WATCHPOINT"}
Strays(m) ==
    astray' = IF m.type = "ATTACH" /\ ~attached /\ ~reply_ready /\ ~break_next THEN FALSE
              ELSE astray \/ (~attached /\ m.type \in Stopping)

\* Every request takes the mutex of its own accord.
request_dispatch ==
    /\ request.at = "dispatch" /\ fault = "none"
    /\ LET m == request.msg IN
         /\ \/ req_continue(m) \/ req_next(m)
            \/ req_get_value(m) \/ req_get_backtrace(m)
            \/ req_break_packet_in(m) \/ req_remove_packet_in(m)
            \/ req_stop_packet_in(m) \/ req_resume_packet_in(m)
            \/ req_filter_notifications(m)
            \/ req_set_watchpoint(m) \/ req_unset_watchpoint(m)
            \/ req_reset(m) \/ req_attach(m) \/ req_detach(m)
            \/ req_unknown(m)
         /\ Strays(m)
    /\ request' = [at |-> "wait"]
    /\ UNCHANGED <<arr, made, updated, registers, ctr_stacks, packet_ids_count, requests>>

\* Mutant: after a keep-alive the packets run on.
keep_alive_running == UNCHANGED <<can_continue, break_next>>

\* A keep-alive stops the packets: an event would have no request to answer.
keep_alive_flags == can_continue' = FALSE /\ break_next' = FALSE

\* Nothing happened for 90 ms.
send_keep_alive ==
    /\ request.at = "wait" /\ fault = "none" /\ ~reply_ready
    /\ keep_alive_flags
    /\ Reply("keep alive")
    /\ UNCHANGED <<packets, stop_packet_in, attached, break_packet_in, selection,
                   request, requests, astray>>

\* The reply leaves with its content; the flag stays set until the next request.
SendReply ==
    /\ request.at = "wait" /\ fault = "none" /\ reply_ready
    /\ request' = [at |-> "recv"]
    /\ reply' = "none"
    /\ UNCHANGED <<packets, flags, selection, reply_ready, requests, astray, fault>>

-----------------------------------------------------------------------------
PacketEnds(p) == PacketStep(p) \/ destroy(p)

Next ==
    \/ \E p \in Packets :
         \/ new_packet(p) \/ destroy(p) \/ PacketStep(p)
         \/ \E c \in Packets : clone(p, c)
         \/ \E f \in AllFields : Update(p, f)
    \/ \E m \in Messages : recv(m)
    \/ request_dispatch \/ send_keep_alive \/ SendReply

Spec == Init /\ [][Next]_vars

\* Threads run, packets end, and a wait of 100 ms ends; the client need not ask.
FairSpec ==
    /\ Spec
    /\ \A p \in Packets : WF_vars(PacketEnds(p))
    /\ WF_vars(request_dispatch) /\ WF_vars(send_keep_alive) /\ WF_vars(SendReply)

-----------------------------------------------------------------------------
\* Properties.

\* Registers, stacks and counts are those of the packets that entered.
TypeOK ==
    /\ DOMAIN registers = DOMAIN ctr_stacks
    /\ DOMAIN registers \subseteq PacketIds
    /\ \A n \in 0 .. MaxPackets - 1 :
         packet_ids_count_get(n) =
             Cardinality({id \in DOMAIN registers : id.packet_id = n})

\* No reply, event or keep-alive finds a reply already there (the assertions
\* assert(!reply_ready)), as long as the requests that stop packets come while a
\* client is attached: between the reply to one request and the next no packet can
\* then reach a break point.
NoReplyOverwritten == fault = "reply overwritten" => astray

\* When nobody is attached nobody is stopped, now or at a break point to come, unless
\* a client that is not attached asked for it.
DetachedRunsFreely ==
    ~attached /\ ~astray =>
        /\ can_continue /\ ~stop_packet_in /\ ~break_next /\ ~break_packet_in
        /\ watchpoints = {}

\* What the client relies on: one reply for each request, and a switch that runs on
\* when the client leaves.
ProtocolKept == NoReplyOverwritten /\ DetachedRunsFreely

\* While the client looks at a stopped switch no packet enters, leaves, or changes
\* what the client sees, and new packets stay out as long as they are held up.
StoppedMeansStopped ==
    [][/\ ~can_continue => UNCHANGED <<registers, ctr_stacks, packet_ids_count>>
       /\ stop_packet_in => DOMAIN packet_ids_count' \subseteq DOMAIN packet_ids_count]_vars

\* Every request of every client is answered, by a keep-alive if by nothing else, and
\* no packet waits for a client that has left, unless a client that is not attached
\* stopped it.
NobodyHangs ==
    /\ (request.at # "recv") ~> (request.at = "recv" \/ fault # "none")
    /\ \A p \in Packets :
         (thread[p].at \notin {"none", "run", "clone"} /\ ~attached /\ ~astray)
            ~> (\/ thread[p].at \in {"none", "run", "clone"}
                \/ attached \/ astray \/ fault # "none")

\* packet.h: the clones of a packet can be differentiated by their copy id.
CopiesDistinguished == fault # "packet in twice"

=============================================================================
