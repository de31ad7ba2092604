---------------------------- MODULE SwitchProofs ----------------------------
(***************************************************************************)
(* Proofs about the simple_switch target and about the services that       *)
(* answer clients beside it, the debugger and the runtime interface: for   *)
(* any number of ports, workers, packets, clients and configurations.      *)
(***************************************************************************)
EXTENDS SimpleSwitch, Services, FiniteSetTheorems, TLAPS

-----------------------------------------------------------------------------
\* The debugger.

\* What a request meets: it is dispatched with no reply ready, and with nobody attached
\* it has its reply before anyone waits for an event.
RequestState ==
    /\ request.at = "dispatch" => ~reply_ready
    /\ request.at = "wait" /\ ~attached /\ fault = "none" => reply_ready

\* Packets run under an attached client only while a request waits for an event, and
\* the next event is a break point only then.
RunsOnRequest ==
    /\ attached /\ can_continue => request.at = "wait" /\ ~reply_ready
    /\ break_next => attached /\ can_continue

\* Both, unless somebody who is not attached asked to stop packets.
DebuggerInv == D!ProtocolKept /\ (~astray => RequestState /\ RunsOnRequest)

LEMMA InitDebuggerInv == D!Init => DebuggerInv
BY DEF D!Init, DebuggerInv, D!ProtocolKept, D!NoReplyOverwritten, D!DetachedRunsFreely,
       RequestState, RunsOnRequest

\* The variables of the debugger that DebuggerInv speaks of.
LEMMA KeepsDebuggerInv ==
    ASSUME DebuggerInv, UNCHANGED <<D!flags, watchpoints, reply_ready, request, astray, fault>>
    PROVE  DebuggerInv'
BY DEF D!flags, DebuggerInv, D!ProtocolKept, D!NoReplyOverwritten, D!DetachedRunsFreely,
       RequestState, RunsOnRequest

\* Nothing is said of a debugger that was led astray.
LEMMA AstrayDebuggerInv ==
    ASSUME astray'
    PROVE  DebuggerInv'
BY DEF DebuggerInv, D!ProtocolKept, D!NoReplyOverwritten, D!DetachedRunsFreely

\* An event answers the request that waits for it.
LEMMA EventDebuggerInv ==
    ASSUME DebuggerInv, NEW what, D!Event(what), can_continue,
           break_next \/ break_packet_in \/ watchpoints # {},
           UNCHANGED <<stop_packet_in, attached, break_packet_in, watchpoints, request, astray>>
    PROVE  DebuggerInv'
<1>0. CASE astray
    BY <1>0, AstrayDebuggerInv
<1>1. CASE ~astray
    <2>1. attached
        BY <1>1 DEF DebuggerInv, D!ProtocolKept, D!DetachedRunsFreely
    <2>2. request.at = "wait" /\ ~reply_ready
        BY <1>1, <2>1 DEF DebuggerInv, RunsOnRequest
    <2>3. ~can_continue' /\ ~break_next' /\ reply_ready' /\ fault' = fault /\ attached'
        BY <2>1, <2>2 DEF D!Event, D!Reply
    <2> QED
        BY <1>1, <2>2, <2>3 DEF DebuggerInv, D!ProtocolKept, D!NoReplyOverwritten,
                                D!DetachedRunsFreely, RequestState, RunsOnRequest
<1> QED
    BY <1>0, <1>1

\* A packet calls the debugger.
LEMMA PacketDebuggerInv ==
    ASSUME DebuggerInv, NEW p \in Packets, D!PacketStep(p)
    PROVE  DebuggerInv'
<1>1. UNCHANGED <<stop_packet_in, attached, break_packet_in, watchpoints, request, astray>>
    BY DEF D!PacketStep, D!selection
<1>2. CASE D!NoEvent
    BY <1>1, <1>2, KeepsDebuggerInv DEF D!NoEvent, D!flags
<1>3. ASSUME NEW what, D!Event(what), can_continue,
             break_next \/ break_packet_in \/ watchpoints # {}
      PROVE  DebuggerInv'
    BY <1>1, <1>3, EventDebuggerInv
<1>4. CASE D!packet_in_(p)
    <2>1. CASE fault' = "packet in twice" /\ UNCHANGED <<can_continue, break_next, reply_ready>>
        BY <1>1, <2>1 DEF DebuggerInv, D!ProtocolKept, D!NoReplyOverwritten,
                          D!DetachedRunsFreely, RequestState, RunsOnRequest
    <2>2. CASE D!NoEvent \/ (/\ can_continue /\ D!Event("packet in")
                             /\ break_next \/ break_packet_in)
        BY <1>2, <1>3, <2>2
    <2> QED
        BY <1>4, <2>1, <2>2 DEF D!packet_in_, D!Sleep, D!MayEnter
<1>5. ASSUME NEW f, can_continue, D!notify_update_generic(p, f)
      PROVE  DebuggerInv'
    BY <1>2, <1>3, <1>5 DEF D!notify_update_generic
<1>6. CASE D!notify_update_(p) \/ D!notify_ctr_(p)
    BY <1>2, <1>5, <1>6 DEF D!notify_update_, D!notify_ctr_, D!Sleep
<1>7. CASE D!packet_out_(p)
    BY <1>2, <1>7 DEF D!packet_out_, D!Sleep
<1> QED
    BY <1>4, <1>6, <1>7 DEF D!PacketStep

\* A request is dispatched.
LEMMA DispatchDebuggerInv ==
    ASSUME DebuggerInv, D!request_dispatch
    PROVE  DebuggerInv'
<1> DEFINE m == request.msg
<1> SUFFICES ASSUME ~astray'
             PROVE  DebuggerInv'
    BY AstrayDebuggerInv
<1>1. /\ request.at = "dispatch" /\ fault = "none" /\ request' = [at |-> "wait"]
      /\ D!Strays(m)
    BY DEF D!request_dispatch
<1>2. \/ m.type = "ATTACH" /\ ~attached /\ ~reply_ready /\ ~break_next
      \/ ~astray /\ (attached \/ m.type \notin D!Stopping)
    BY <1>1 DEF D!Strays
<1>3. ~reply_ready /\ (attached => ~can_continue) /\ ~break_next
    <2>1. CASE ~astray
        BY <1>1, <2>1 DEF DebuggerInv, RequestState, RunsOnRequest
    <2> QED
        BY <1>2, <2>1
<1>4. ASSUME NEW s, D!Reply(s)
      PROVE  reply_ready' /\ fault' = "none"
    BY <1>1, <1>3, <1>4 DEF D!Reply
<1>5. ASSUME attached, attached', reply_ready', fault' = "none",
             UNCHANGED <<can_continue, break_next>>
      PROVE  DebuggerInv'
    BY <1>1, <1>3, <1>5 DEF DebuggerInv, D!ProtocolKept, D!NoReplyOverwritten,
                            D!DetachedRunsFreely, RequestState, RunsOnRequest
<1>6. ASSUME ~attached, ~attached', ~astray, reply_ready', fault' = "none",
             UNCHANGED <<can_continue, break_next>>,
             stop_packet_in' = stop_packet_in \/ ~stop_packet_in',
             break_packet_in' = break_packet_in \/ ~break_packet_in',
             watchpoints' \subseteq watchpoints
      PROVE  DebuggerInv'
    <2>1. can_continue /\ ~stop_packet_in /\ ~break_packet_in /\ watchpoints = {}
        BY <1>6 DEF DebuggerInv, D!ProtocolKept, D!DetachedRunsFreely
    <2>2. can_continue' /\ ~stop_packet_in' /\ ~break_packet_in' /\ watchpoints' = {}
        BY <1>6, <2>1
    <2> QED
        BY <1>1, <1>3, <1>6, <2>2 DEF DebuggerInv, D!ProtocolKept, D!NoReplyOverwritten,
             D!DetachedRunsFreely, RequestState, RunsOnRequest
<1>7. CASE D!req_continue(m) \/ D!req_next(m)
    <2>1. attached
        BY <1>2, <1>7 DEF D!req_continue, D!req_next, D!Stopping
    <2>2. attached' /\ can_continue' /\ reply_ready' = reply_ready /\ fault' = "none"
        BY <1>1, <1>7, <2>1 DEF D!req_continue, D!req_next, D!Continue
    <2> QED
        BY <1>1, <1>3, <2>2 DEF DebuggerInv, D!ProtocolKept, D!NoReplyOverwritten,
                                D!DetachedRunsFreely, RequestState, RunsOnRequest
<1>8. ASSUME NEW s, D!Query(s), ~attached => ~astray
      PROVE  DebuggerInv'
    BY <1>4, <1>5, <1>6, <1>8 DEF D!Query, D!Status, D!flags, D!selection
<1>9. CASE D!req_get_value(m) \/ D!req_get_backtrace(m)
    BY <1>2, <1>8, <1>9 DEF D!req_get_value, D!req_get_backtrace
<1>10. CASE D!req_break_packet_in(m) \/ D!req_stop_packet_in(m) \/ D!req_set_watchpoint(m)
    <2>1. attached
        BY <1>2, <1>10 DEF D!req_break_packet_in, D!req_stop_packet_in,
                           D!req_set_watchpoint, D!Stopping
    <2> QED
        BY <1>4, <1>5, <1>10, <2>1 DEF D!req_break_packet_in, D!req_stop_packet_in,
             D!req_set_watchpoint, D!Status, D!flags
<1>11. CASE D!req_remove_packet_in(m) \/ D!req_resume_packet_in(m)
    <2>1. /\ reply_ready' /\ fault' = "none"
          /\ UNCHANGED <<attached, can_continue, break_next, watchpoints>>
          /\ stop_packet_in' = stop_packet_in \/ ~stop_packet_in'
          /\ break_packet_in' = break_packet_in \/ ~break_packet_in'
        BY <1>4, <1>11 DEF D!req_remove_packet_in, D!req_resume_packet_in, D!Status,
                           D!selection
    <2>2. m.type # "ATTACH"
        BY <1>11 DEF D!req_remove_packet_in, D!req_resume_packet_in
    <2> QED
        BY <1>2, <1>5, <1>6, <2>1, <2>2
<1>12. CASE D!req_filter_notifications(m) \/ D!req_unset_watchpoint(m) \/ D!req_reset(m)
    <2>1. /\ reply_ready' /\ fault' = "none"
          /\ UNCHANGED <<attached, can_continue, break_next>>
          /\ stop_packet_in' = stop_packet_in \/ ~stop_packet_in'
          /\ break_packet_in' = break_packet_in \/ ~break_packet_in'
          /\ watchpoints' \subseteq watchpoints
        BY <1>4, <1>12 DEF D!req_filter_notifications, D!req_unset_watchpoint, D!req_reset,
                           D!reset_state, D!Status, D!flags
    <2>2. m.type # "ATTACH"
        BY <1>12 DEF D!req_filter_notifications, D!req_unset_watchpoint, D!req_reset
    <2> QED
        BY <1>2, <1>5, <1>6, <2>1, <2>2
<1>13. CASE D!req_attach(m)
    <2>1. CASE attached
        BY <1>8, <1>13, <2>1 DEF D!req_attach
    <2>2. CASE ~attached
        <3>1. attached' /\ ~can_continue' /\ break_next' = break_next /\ D!Status("ok")
            BY <1>13, <2>2 DEF D!req_attach
        <3>2. reply_ready' /\ fault' = "none"
            BY <1>4, <3>1 DEF D!Status
        <3> QED
            BY <1>1, <1>3, <3>1, <3>2 DEF DebuggerInv, D!ProtocolKept, D!NoReplyOverwritten,
                                    D!DetachedRunsFreely, RequestState, RunsOnRequest
    <2> QED
        BY <2>1, <2>2
<1>14. CASE D!req_detach(m)
    <2>1. CASE ~attached
        BY <1>2, <1>8, <1>14, <2>1 DEF D!req_detach
    <2>2. CASE attached
        <3>1. /\ ~attached' /\ can_continue' /\ break_next' = break_next
              /\ watchpoints' = {} /\ ~break_packet_in' /\ ~stop_packet_in' /\ D!Status("ok")
            BY <1>14, <2>2 DEF D!req_detach, D!reset_state
        <3>2. reply_ready' /\ fault' = "none"
            BY <1>4, <3>1 DEF D!Status
        <3> QED
            BY <1>1, <1>3, <3>1, <3>2 DEF DebuggerInv, D!ProtocolKept, D!NoReplyOverwritten,
                                D!DetachedRunsFreely, RequestState, RunsOnRequest
    <2> QED
        BY <2>1, <2>2
<1>15. CASE D!req_unknown(m)
    <2>1. /\ m.type = "UNKNOWN" /\ fault' = "unknown request"
          /\ UNCHANGED <<D!flags, watchpoints, reply_ready>>
        BY <1>15 DEF D!req_unknown, D!selection
    <2>2. ~astray
        BY <1>2, <2>1
    <2> QED
        BY <1>1, <1>3, <2>1, <2>2 DEF D!flags, DebuggerInv, D!ProtocolKept,
             D!NoReplyOverwritten, D!DetachedRunsFreely, RequestState, RunsOnRequest
<1> QED
    BY <1>7, <1>9, <1>10, <1>11, <1>12, <1>13, <1>14, <1>15 DEF D!request_dispatch

LEMMA NextDebuggerInv ==
    ASSUME DebuggerInv, D!Next
    PROVE  DebuggerInv'
<1>1. CASE D!Debug
    BY <1>1, KeepsDebuggerInv DEF D!Debug, D!selection
<1>2. ASSUME NEW p \in Packets,
             \/ D!new_packet(p) \/ D!destroy(p)
             \/ \E c \in Packets : D!clone(p, c)
             \/ \E f \in D!AllFields : D!Update(p, f)
      PROVE  DebuggerInv'
    BY <1>1, <1>2 DEF D!new_packet, D!destroy, D!clone, D!Update
<1>3. ASSUME NEW m \in D!Messages, D!recv(m)
      PROVE  DebuggerInv'
    <2>1. /\ request.at = "recv" /\ request' = [at |-> "dispatch", msg |-> m]
          /\ ~reply_ready' /\ UNCHANGED <<D!flags, watchpoints, astray, fault>>
        BY <1>3 DEF D!recv, D!selection
    <2> QED
        BY <2>1 DEF D!flags, DebuggerInv, D!ProtocolKept, D!NoReplyOverwritten,
                    D!DetachedRunsFreely, RequestState, RunsOnRequest
<1>4. CASE D!send_keep_alive
    <2>1. /\ request.at = "wait" /\ ~reply_ready /\ ~can_continue' /\ ~break_next'
          /\ fault = "none" /\ reply_ready' /\ UNCHANGED <<attached, request, astray, fault>>
        BY <1>4 DEF D!send_keep_alive, D!keep_alive_flags, D!Reply
    <2>2. CASE ~astray
        <3>1. attached
            BY <2>1, <2>2 DEF DebuggerInv, RequestState
        <3> QED
            BY <2>1, <2>2, <3>1 DEF DebuggerInv, D!ProtocolKept, D!NoReplyOverwritten,
                                    D!DetachedRunsFreely, RequestState, RunsOnRequest
    <2> QED
        BY <2>1, <2>2, AstrayDebuggerInv
<1>5. CASE D!SendReply
    <2>1. /\ request.at = "wait" /\ reply_ready /\ request' = [at |-> "recv"]
          /\ UNCHANGED <<D!flags, watchpoints, reply_ready, astray, fault>>
        BY <1>5 DEF D!SendReply, D!selection
    <2> QED
        BY <2>1 DEF D!flags, DebuggerInv, D!ProtocolKept, D!NoReplyOverwritten,
                    D!DetachedRunsFreely, RequestState, RunsOnRequest
<1> QED
    BY <1>2, <1>3, <1>4, <1>5, PacketDebuggerInv, DispatchDebuggerInv DEF D!Next

\* A step of the services is one of the debugger or leaves its state alone.
LEMMA DebuggerOrNot ==
    ASSUME [ServicesNext]_servicesVars
    PROVE  D!Next \/ UNCHANGED D!vars
BY DEF ServicesNext, DebuggerNext, RuntimeNext, PortsNext, servicesVars, debugger, D!vars,
       D!packets, D!flags, D!selection

(***************************************************************************)
(* DebuggerNN, with any number of packets and requests, from any client:   *)
(* no reply, event or keep-alive ever finds a reply that is not sent yet,  *)
(* which is what its assertions on reply_ready say, and when no client is  *)
(* attached no packet is held up and no break point is left behind, unless *)
(* a client that was not attached asked to stop packets and no ATTACH has  *)
(* undone it since.                                                        *)
(***************************************************************************)
THEOREM DebuggerKeepsProtocol == ServicesSpec => []ProtocolKept
<1>1. ServicesInit => DebuggerInv
    BY InitDebuggerInv DEF ServicesInit
<1>2. DebuggerInv /\ [ServicesNext]_servicesVars => DebuggerInv'
    BY DebuggerOrNot, NextDebuggerInv, KeepsDebuggerInv DEF D!vars, D!selection
<1>3. DebuggerInv => ProtocolKept
    BY DEF DebuggerInv, ProtocolKept
<1> QED
    BY <1>1, <1>2, <1>3, PTL DEF ServicesSpec

\* What a client of the debugger sees does not change while everything is stopped, and
\* no new packet comes in while new packets are held up.
StillStep ==
    /\ ~can_continue => UNCHANGED <<registers, ctr_stacks, packet_ids_count>>
    /\ stop_packet_in => DOMAIN packet_ids_count' \subseteq DOMAIN packet_ids_count

\* The step of a packet inside the debugger.
LEMMA PacketStillStep ==
    ASSUME NEW p \in Packets, D!PacketStep(p)
    PROVE  StillStep
<1> DEFINE id == thread[p].id
<1>1. CASE UNCHANGED <<registers, ctr_stacks, packet_ids_count>>
    BY <1>1 DEF StillStep
<1>2. CASE D!packet_in_(p) /\ D!MayEnter(p) /\ packet_ids_count' # packet_ids_count
    <2>1. can_continue /\ (stop_packet_in => D!packet_ids_count_get(id.packet_id) # 0)
        BY <1>2 DEF D!MayEnter
    <2>2. packet_ids_count' = D!Set(packet_ids_count, id.packet_id,
                                    D!packet_ids_count_get(id.packet_id) + 1)
        BY <1>2 DEF D!packet_in_
    <2>3. DOMAIN packet_ids_count' = DOMAIN packet_ids_count \cup {id.packet_id}
        BY <2>2 DEF D!Set
    <2>4. stop_packet_in => id.packet_id \in DOMAIN packet_ids_count
        BY <2>1 DEF D!packet_ids_count_get
    <2> QED
        BY <2>1, <2>3, <2>4 DEF StillStep
<1>3. CASE D!packet_in_(p) /\ D!MayEnter(p) /\ packet_ids_count' = packet_ids_count
    BY <1>3 DEF StillStep, D!MayEnter
<1>4. CASE D!packet_in_(p) /\ ~D!MayEnter(p)
    BY <1>1, <1>4 DEF D!packet_in_, D!Sleep
<1>5. CASE D!notify_update_(p) \/ D!notify_ctr_(p)
    <2>1. CASE ~can_continue
        BY <1>1, <1>5, <2>1 DEF D!notify_update_, D!notify_ctr_, D!Sleep
    <2>2. CASE can_continue
        BY <1>5, <2>2 DEF D!notify_update_, D!notify_ctr_, StillStep
    <2> QED
        BY <2>1, <2>2
<1>6. CASE D!packet_out_(p)
    <2>1. CASE ~can_continue
        BY <1>1, <1>6, <2>1 DEF D!packet_out_, D!MayLeave, D!Sleep
    <2>2. CASE can_continue
        <3>1. D!packet_ids_count_out(id.packet_id)
            BY <1>6, <2>2 DEF D!packet_out_, D!MayLeave
        <3>2. DOMAIN packet_ids_count' \subseteq DOMAIN packet_ids_count
            BY <3>1 DEF D!packet_ids_count_out, D!Erase
        <3> QED
            BY <2>2, <3>2 DEF StillStep
    <2> QED
        BY <2>1, <2>2
<1> QED
    BY <1>2, <1>3, <1>4, <1>5, <1>6 DEF D!PacketStep

LEMMA NextStillStep ==
    ASSUME D!Next
    PROVE  StillStep
<1>1. CASE UNCHANGED <<registers, ctr_stacks, packet_ids_count>>
    BY <1>1 DEF StillStep
<1>2. ASSUME NEW p \in Packets,
             \/ D!new_packet(p) \/ D!destroy(p)
             \/ \E c \in Packets : D!clone(p, c)
             \/ \E f \in D!AllFields : D!Update(p, f)
      PROVE  StillStep
    BY <1>1, <1>2 DEF D!new_packet, D!destroy, D!clone, D!Update, D!Debug
<1>3. ASSUME \/ \E m \in D!Messages : D!recv(m)
             \/ D!request_dispatch \/ D!send_keep_alive \/ D!SendReply
      PROVE  StillStep
    BY <1>1, <1>3 DEF D!recv, D!request_dispatch, D!send_keep_alive, D!SendReply, D!packets
<1> QED
    BY <1>2, <1>3, PacketStillStep DEF D!Next

(***************************************************************************)
(* A switch that DebuggerNN has stopped is still: as long as can_continue  *)
(* is off, no thread of a packet, asleep, waking up or arriving, changes   *)
(* the registers, the stacks or the set of packets that the client looks   *)
(* at, and while packets are held up only copies of known packets enter.   *)
(***************************************************************************)
THEOREM StoppedSwitchIsStill == ServicesSpec => StoppedMeansStopped
<1>1. [ServicesNext]_servicesVars => [StillStep]_(D!vars)
    BY DebuggerOrNot, NextStillStep
<1> QED
    BY <1>1, PTL DEF ServicesSpec, StoppedMeansStopped, D!StoppedMeansStopped, StillStep

-----------------------------------------------------------------------------
\* The runtime interface.

Objects == [config : Configs, updated : BOOLEAN]
CallNames == Names \cup {"engine"}

\* The configurations: there is a first one, which loaded.
ObjectsInv ==
    /\ objects \in Seq(Objects) /\ Len(objects) >= 1 /\ objects[1].config.engine
    /\ p4objects \in 1 .. Len(objects)

\* A client c whose call has reached r, with w as the holder of request_mutex and n
\* configurations made: it is in exclusive mode only as the holder, in shared mode only
\* when there is none, and what it found in shared mode is the newest.
CallOK(r, c, w, n) ==
    /\ r.at \in {"lock", "find"} =>
          r \in [at : {"lock", "find"}, call : R!RuntimeInterface, name : CallNames]
    /\ r.at = "lock" => r.call.lock
    /\ r.at = "run" => r \in [at : {"run"}, call : R!RuntimeInterface, object : 1 .. n]
    /\ r.at = "run" /\ r.call.lock => r.object = n
    /\ r.at \in {"exclusive", "body"} =>
          r \in [at : {"exclusive", "body"}, call : R!ConfigCalls]
    /\ r.at = "body" => w = c
    /\ r.at \in {"find", "run"} /\ r.call.lock => w = R!NoOne

ClientsInv ==
    /\ DOMAIN client = Clients
    /\ \A c \in Clients : CallOK(client[c], c, writer, Len(objects))

RuntimeInv == ObjectsInv /\ ClientsInv

\* The calls: the ones for the learn engine take no lock, and every code that a method
\* of a table answers has a Thrift code.
LEMMA CallFacts ==
    ASSUME NEW c \in R!RuntimeInterface
    PROVE  /\ c.needs = "engine" => ~c.lock
           /\ \A code \in c.codes : code \in {"index asserted", "bad index"} \/
                                      (R!Reply(c.needs, code) # "assert")
<1> DEFINE Good(d) ==
        /\ d.needs = "engine" => ~d.lock
        /\ \A code \in d.codes : code \in {"index asserted", "bad index"} \/
                                   (R!Reply(d.needs, code) # "assert")
<1>1. ASSUME NEW d, d.needs # "engine", d.codes \subseteq R!get_exception_code \cup {"SUCCESS"}
      PROVE  Good(d)
    <2>1. "assert" \notin R!get_exception_code \cup {"SUCCESS"}
        BY DEF R!get_exception_code
    <2> QED
        BY <1>1, <2>1 DEF R!Reply
<1>2. ASSUME NEW d, d.needs \in {"array", "engine"}, "assert" \notin d.codes,
             d.needs = "engine" => ~d.lock
      PROVE  Good(d)
    BY <1>2 DEF R!Reply
<1> HIDE DEF Good
<1>3. \A d \in R!EntryCalls \cup R!TtlCalls : Good(d)
    <2>1. \A d \in R!EntryCalls \cup R!TtlCalls :
              d.needs # "engine" /\ d.codes \subseteq R!get_exception_code \cup {"SUCCESS"}
        BY DEF R!EntryCalls, R!TtlCalls, R!Call, R!WithKey, R!InsertCodes, R!HandleCodes,
               R!get_exception_code
    <2> QED
        BY <1>1, <2>1
<1>4. \A d \in R!TableStatCalls : Good(d)
    <2>1. \A d \in R!TableStatCalls :
              d.needs # "engine" /\ d.codes \subseteq R!get_exception_code \cup {"SUCCESS"}
        BY DEF R!TableStatCalls, R!Call, R!get_exception_code
    <2> QED
        BY <1>1, <2>1
<1>5. \A d \in R!IndirectCalls : Good(d)
    <2>1. \A d \in R!IndirectCalls :
              d.needs # "engine" /\ d.codes \subseteq R!get_exception_code \cup {"SUCCESS"}
        BY DEF R!IndirectCalls, R!Call, R!WithKey, R!InsertCodes, R!HandleCodes,
               R!get_exception_code
    <2> QED
        BY <1>1, <2>1
<1>6. \A d \in R!GroupCalls : Good(d)
    <2> DEFINE WS(codes) == R!Call("ws", FALSE, TRUE, codes)
    <2>1. ASSUME NEW codes, codes \subseteq R!get_exception_code
          PROVE  Good(WS(codes))
        <3>1. WS(codes).needs # "engine"
            BY DEF R!Call
        <3>2. WS(codes).codes \subseteq R!get_exception_code \cup {"SUCCESS"}
            BY <2>1 DEF R!Call
        <3> HIDE DEF WS
        <3> QED
            BY <1>1, <3>1, <3>2
    <2>2. Good(WS({"ERROR"})) /\ Good(WS({"INVALID_GRP_HANDLE"}))
        BY <2>1 DEF R!get_exception_code
    <2>3. Good(WS({"INVALID_GRP_HANDLE", "GRP_STILL_USED"}))
        BY <2>1 DEF R!get_exception_code
    <2>4. Good(WS({"INVALID_MBR_HANDLE", "INVALID_GRP_HANDLE", "MBR_ALREADY_IN_GRP"}))
        BY <2>1 DEF R!get_exception_code
    <2>5. Good(WS({"INVALID_MBR_HANDLE", "INVALID_GRP_HANDLE", "MBR_NOT_IN_GRP"}))
        BY <2>1 DEF R!get_exception_code
    <2>6. Good(R!WithKey(WS(R!InsertCodes \cup {"INVALID_GRP_HANDLE", "EMPTY_GRP"})))
        <3> DEFINE codes == R!InsertCodes \cup {"INVALID_GRP_HANDLE", "EMPTY_GRP"}
        <3>1. R!WithKey(WS(codes)).needs # "engine"
            BY DEF R!Call, R!WithKey
        <3>2. R!WithKey(WS(codes)).codes = codes \cup {"SUCCESS"}
            BY DEF R!Call, R!WithKey
        <3>3. R!WithKey(WS(codes)).codes \subseteq R!get_exception_code \cup {"SUCCESS"}
            BY <3>2 DEF R!get_exception_code, R!InsertCodes
        <3> HIDE DEF WS, codes
        <3>4. Good(R!WithKey(WS(codes)))
            BY <1>1, <3>1, <3>3
        <3> QED
            BY <3>4 DEF codes
    <2>7. Good(WS(R!HandleCodes \cup {"INVALID_GRP_HANDLE", "EMPTY_GRP"}))
        BY <2>1 DEF R!get_exception_code, R!HandleCodes
    <2>8. ASSUME NEW d \in R!GroupCalls
          PROVE  \/ d = WS({"ERROR"})
                 \/ d = WS({"INVALID_GRP_HANDLE", "GRP_STILL_USED"})
                 \/ d = WS({"INVALID_MBR_HANDLE", "INVALID_GRP_HANDLE", "MBR_ALREADY_IN_GRP"})
                 \/ d = WS({"INVALID_MBR_HANDLE", "INVALID_GRP_HANDLE", "MBR_NOT_IN_GRP"})
                 \/ d = R!WithKey(WS(R!InsertCodes \cup {"INVALID_GRP_HANDLE", "EMPTY_GRP"}))
                 \/ d = WS(R!HandleCodes \cup {"INVALID_GRP_HANDLE", "EMPTY_GRP"})
                 \/ d = WS({"INVALID_GRP_HANDLE"})
        BY <2>8, Zenon DEF R!GroupCalls
    <2> HIDE DEF WS
    <2> QED
        BY <2>2, <2>3, <2>4, <2>5, <2>6, <2>7, <2>8, Zenon
<1>7. ASSUME NEW needs \in {"array", "engine"}, NEW lock \in BOOLEAN, NEW codes,
             needs = "engine" => ~lock, "assert" \notin codes
      PROVE  Good(R!Call(needs, FALSE, lock, codes))
    <2> DEFINE d == R!Call(needs, FALSE, lock, codes)
    <2>1. d.needs \in {"array", "engine"} /\ (d.needs = "engine" => ~d.lock)
        BY <1>7 DEF R!Call
    <2>2. "assert" \notin d.codes
        BY <1>7 DEF R!Call
    <2> HIDE DEF d
    <2>3. Good(d)
        BY <1>2, <2>1, <2>2
    <2> QED
        BY <2>3 DEF d
<1>8. \A d \in R!CounterCalls \cup R!RegisterCalls \cup R!LearningCalls \cup R!MeterCalls : Good(d)
    <2>1. /\ Good(R!Call("array", FALSE, TRUE, {}))
          /\ Good(R!Call("array", FALSE, TRUE, {"index asserted"}))
          /\ Good(R!Call("array", FALSE, TRUE, {"INVALID_INDEX"}))
          /\ Good(R!Call("engine", FALSE, FALSE, {"INVALID_LIST_ID"}))
        BY <1>7
    <2>2. /\ Good(R!Call("array", FALSE, TRUE, {"BAD_RATES_LIST", "INVALID_INFO_RATE_VALUE"}))
          /\ Good(R!Call("array", FALSE, TRUE,
                         {"BAD_RATES_LIST", "INVALID_INFO_RATE_VALUE", "bad index"}))
        BY <1>7
    <2> QED
        BY <2>1, <2>2, Zenon
           DEF R!CounterCalls, R!MeterCalls, R!RegisterCalls, R!LearningCalls, R!LearnCodes
<1>9. Good(c)
    BY <1>3, <1>4, <1>5, <1>6, <1>7, <1>8 DEF R!RuntimeInterface
<1> QED
    BY <1>9 DEF Good

LEMMA InitRuntimeInv == R!Init => RuntimeInv /\ R!FaultsHaveCause
<1> SUFFICES ASSUME R!Init PROVE RuntimeInv /\ R!FaultsHaveCause
    OBVIOUS
<1>1. PICK k \in Configs : k.engine /\ objects = <<[config |-> k, updated |-> FALSE]>>
    BY DEF R!Init
<1>2. ObjectsInv
    <2>1. [config |-> k, updated |-> FALSE] \in Objects
        BY DEF Objects
    <2>2. objects \in Seq(Objects) /\ Len(objects) = 1 /\ objects[1].config.engine
        BY <1>1, <2>1
    <2> QED
        BY <2>2 DEF R!Init, ObjectsInv
<1>3. DOMAIN client = Clients /\ \A c \in Clients : client[c] = [at |-> "idle"]
    BY DEF R!Init
<1>4. \A c \in Clients : CallOK(client[c], c, writer, Len(objects)) /\ client[c].at # "fault"
    BY <1>3 DEF CallOK
<1> QED
    BY <1>2, <1>3, <1>4 DEF RuntimeInv, ClientsInv, R!FaultsHaveCause

\* One client goes on; the others, the lock and the number of configurations stay.
LEMMA OwnCall ==
    ASSUME ClientsInv, NEW p \in Clients, NEW r, R!Goto(p, r), writer' = writer,
           Len(objects') = Len(objects), CallOK(r, p, writer, Len(objects))
    PROVE  ClientsInv'
<1>1. DOMAIN client' = Clients /\ client'[p] = r
    BY DEF ClientsInv, R!Goto
<1>2. \A q \in Clients : q # p => client'[q] = client[q]
    BY DEF ClientsInv, R!Goto
<1>3. \A q \in Clients : CallOK(client'[q], q, writer, Len(objects))
    BY <1>1, <1>2 DEF ClientsInv
<1> QED
    BY <1>1, <1>3 DEF ClientsInv

\* A method marks the object it worked on.
LEMMA MarkedObjects ==
    ASSUME ObjectsInv, NEW i \in 1 .. Len(objects), NEW b \in BOOLEAN,
           objects' = [objects EXCEPT ![i].updated = b], p4objects' = p4objects
    PROVE  ObjectsInv' /\ Len(objects') = Len(objects)
<1>1. objects \in [1 .. Len(objects) -> Objects] /\ Len(objects) \in Nat
    BY DEF ObjectsInv
<1>2. objects' \in [1 .. Len(objects) -> Objects]
    BY <1>1 DEF Objects
<1>3. objects' \in Seq(Objects) /\ Len(objects') = Len(objects)
    BY <1>1, <1>2
<1>4. objects'[1].config = objects[1].config
    BY <1>1 DEF ObjectsInv, Objects
<1> QED
    BY <1>3, <1>4 DEF ObjectsInv

\* What becomes of a call when it arrives.
LEMMA RequestMade ==
    ASSUME NEW p \in Clients, R!Request(p)
    PROVE  \/ \E call \in R!RuntimeInterface :
                call.key /\ R!Goto(p, [at |-> "fault", cause |-> "wrong type", call |-> call])
           \/ \E call \in R!RuntimeInterface, name \in CallNames :
                R!Goto(p, [at |-> IF call.lock THEN "lock" ELSE "find",
                           call |-> call, name |-> name])
           \/ R!Answer(p, "out_of_range")
           \/ \E c \in R!ConfigCalls : R!Goto(p, [at |-> "exclusive", call |-> c])
<1> DEFINE Made == \E call \in R!RuntimeInterface, name \in CallNames :
                      R!build_match_key(p, call) \/ R!InContext(p, call, name)
<1>1. Names \subseteq CallNames /\ "engine" \in CallNames
    BY DEF CallNames
<1>2. R!TableRequest(p) => Made
    BY <1>1, Zenon DEF R!TableRequest, R!RuntimeInterface
<1>3. R!GroupRequest(p) => Made
    BY <1>1, Zenon DEF R!GroupRequest, R!RuntimeInterface
<1>4. R!StatRequest(p) => Made
    BY <1>1, Zenon DEF R!StatRequest, R!RuntimeInterface
<1>5. R!LearnRequest(p) => Made
    BY <1>1, Zenon DEF R!LearnRequest, R!RuntimeInterface
<1>6. R!ConfigRequest(p) =>
        \E c \in R!ConfigCalls : R!Goto(p, [at |-> "exclusive", call |-> c])
    BY DEF R!ConfigRequest
<1>7. Made \/ R!ConfigRequest(p)
    BY <1>2, <1>3, <1>4, <1>5 DEF R!Request
<1> QED
    BY <1>6, <1>7, Zenon DEF R!build_match_key, R!InContext

\* A call arrives, takes the lock in shared mode, or finds its object.
LEMMA FindRuntimeInv ==
    ASSUME RuntimeInv, NEW p \in Clients,
           \/ R!Request(p) \/ R!LockShared(p) \/ R!FindTable(p) \/ R!FindArray(p)
           \/ R!FindEngine(p) \/ R!Return(p)
    PROVE  RuntimeInv'
<1> DEFINE n == Len(objects)
<1>0. CallOK(client[p], p, writer, n) /\ ObjectsInv /\ ClientsInv
    BY DEF RuntimeInv, ClientsInv
<1>1. UNCHANGED <<objects, p4objects, writer>>
    BY DEF R!Request, R!LockShared, R!FindTable, R!FindArray, R!FindEngine, R!Return
<1>2. n \in 1 .. n /\ p4objects \in 1 .. n
    BY <1>0 DEF ObjectsInv
<1>3. ASSUME NEW r, R!Goto(p, r), CallOK(r, p, writer, n)
      PROVE  RuntimeInv'
    <2>1. ClientsInv'
        BY <1>0, <1>1, <1>3, OwnCall
    <2>2. ObjectsInv'
        BY <1>0, <1>1 DEF ObjectsInv
    <2> QED
        BY <2>1, <2>2 DEF RuntimeInv
<1>4. ASSUME NEW code, R!Answer(p, code) \/ R!Goto(p, [at |-> "idle"])
      PROVE  RuntimeInv'
    <2>1. CallOK([at |-> "reply", code |-> code], p, writer, n)
        BY DEF CallOK
    <2>2. CallOK([at |-> "idle"], p, writer, n)
        BY DEF CallOK
    <2> QED
        BY <1>3, <1>4, <2>1, <2>2 DEF R!Answer
<1>5. CASE R!Request(p)
    <2>1. ASSUME NEW call \in R!RuntimeInterface, NEW name \in CallNames,
                 R!Goto(p, [at |-> IF call.lock THEN "lock" ELSE "find",
                            call |-> call, name |-> name])
          PROVE  RuntimeInv'
        <3>1. CASE call.lock
            <4>1. CallOK([at |-> "lock", call |-> call, name |-> name], p, writer, n)
                BY <3>1 DEF CallOK
            <4> QED
                BY <1>3, <2>1, <3>1, <4>1
        <3>2. CASE ~call.lock
            <4>1. CallOK([at |-> "find", call |-> call, name |-> name], p, writer, n)
                BY <3>2 DEF CallOK
            <4> QED
                BY <1>3, <2>1, <3>2, <4>1
        <3> QED
            BY <3>1, <3>2
    <2>2. ASSUME NEW c \in R!ConfigCalls, R!Goto(p, [at |-> "exclusive", call |-> c])
          PROVE  RuntimeInv'
        <3>1. CallOK([at |-> "exclusive", call |-> c], p, writer, n)
            BY DEF CallOK
        <3> QED
            BY <1>3, <2>2, <3>1
    <2>3. ASSUME NEW call, R!Goto(p, [at |-> "fault", cause |-> "wrong type", call |-> call])
          PROVE  RuntimeInv'
        <3>1. CallOK([at |-> "fault", cause |-> "wrong type", call |-> call], p, writer, n)
            BY DEF CallOK
        <3> QED
            BY <1>3, <2>3, <3>1
    <2> QED
        BY <1>4, <1>5, <2>1, <2>2, <2>3, RequestMade, Zenon
<1>6. CASE R!LockShared(p)
    <2>1. /\ client[p] \in [at : {"lock", "find"}, call : R!RuntimeInterface, name : CallNames]
          /\ writer = R!NoOne
        BY <1>0, <1>6 DEF R!LockShared, CallOK
    <2>2. CallOK([client[p] EXCEPT !.at = "find"], p, writer, n)
        BY <2>1 DEF CallOK
    <2> QED
        BY <1>3, <1>6, <2>2 DEF R!LockShared
<1>7. ASSUME NEW i \in 1 .. n, client[p].at = "find",
             client[p].call.lock => i = n,
             R!Goto(p, [at |-> "run", call |-> client[p].call, object |-> i])
      PROVE  RuntimeInv'
    <2>1. /\ client[p].call \in R!RuntimeInterface
          /\ client[p].call.lock => writer = R!NoOne
        BY <1>0, <1>7 DEF CallOK
    <2>2. CallOK([at |-> "run", call |-> client[p].call, object |-> i], p, writer, n)
        BY <1>7, <2>1 DEF CallOK
    <2> QED
        BY <1>3, <1>7, <2>2
<1>8. CASE R!FindTable(p) \/ R!FindArray(p)
    BY <1>2, <1>4, <1>7, <1>8 DEF R!FindTable, R!FindArray, R!p4objects_rt
<1>9. CASE R!FindEngine(p)
    <2>1. client[p].at = "find" /\ client[p].call.needs = "engine"
        BY <1>9 DEF R!FindEngine
    <2>2. ~client[p].call.lock
        BY <1>0, <2>1, CallFacts DEF CallOK
    <2> QED
        BY <1>2, <1>7, <1>9, <2>1, <2>2 DEF R!FindEngine
<1>10. CASE R!Return(p)
    BY <1>4, <1>10 DEF R!Return
<1> QED
    BY <1>5, <1>6, <1>8, <1>9, <1>10

\* The others, when a client lets the mutex go: none of them has it.
LEMMA OthersWhenReleased ==
    ASSUME RuntimeInv, NEW p \in Clients, client[p].at = "body", NEW n \in Nat,
           Len(objects) <= n, NEW q \in Clients, q # p
    PROVE  CallOK(client[q], q, R!NoOne, n)
<1>1. CallOK(client[p], p, writer, Len(objects)) /\ CallOK(client[q], q, writer, Len(objects))
    BY DEF RuntimeInv, ClientsInv
<1>2. writer = p /\ p # R!NoOne
    BY <1>1, ServicesAssumption DEF CallOK, R!ConfigsAssumption
<1>3. client[q].at # "body"
    BY <1>1, <1>2 DEF CallOK
<1>4. ~(client[q].at \in {"find", "run"} /\ client[q].call.lock)
    BY <1>1, <1>2 DEF CallOK
<1>5. Len(objects) \in Nat
    BY DEF RuntimeInv, ObjectsInv
<1>6. client[q].at = "run" =>
        client[q] \in [at : {"run"}, call : R!RuntimeInterface, object : 1 .. n]
    <2>1. 1 .. Len(objects) \subseteq 1 .. n
        BY <1>5
    <2> QED
        BY <1>1, <2>1 DEF CallOK
<1> QED
    BY <1>1, <1>3, <1>4, <1>6 DEF CallOK

\* A client that holds the mutex lets it go and goes on.
LEMMA ReleasedCall ==
    ASSUME RuntimeInv, NEW p \in Clients, client[p].at = "body", NEW code,
           R!UnlockAndAnswer(p, code), Len(objects') \in Nat, Len(objects) <= Len(objects')
    PROVE  ClientsInv'
<1>1. writer' = R!NoOne /\ R!Goto(p, [at |-> "reply", code |-> code])
    BY DEF R!UnlockAndAnswer, R!Release, R!Answer
<1>2. DOMAIN client = Clients
    BY DEF RuntimeInv, ClientsInv
<1>3. DOMAIN client' = Clients /\ client'[p] = [at |-> "reply", code |-> code]
    BY <1>1, <1>2 DEF R!Goto
<1>4. \A q \in Clients : q # p => client'[q] = client[q]
    BY <1>1, <1>2 DEF R!Goto
<1>5. CallOK(client'[p], p, writer', Len(objects'))
    BY <1>3 DEF CallOK
<1>6. \A q \in Clients : q # p => CallOK(client[q], q, R!NoOne, Len(objects'))
    BY OthersWhenReleased
<1>7. \A q \in Clients : CallOK(client'[q], q, writer', Len(objects'))
    BY <1>1, <1>4, <1>5, <1>6
<1> QED
    BY <1>3, <1>7 DEF ClientsInv

LEMMA RunRuntimeInv ==
    ASSUME RuntimeInv, NEW p \in Clients, R!Run(p)
    PROVE  RuntimeInv'
<1> DEFINE cl == client[p]
           n == Len(objects)
<1>1. ObjectsInv /\ ClientsInv /\ CallOK(cl, p, writer, n) /\ cl.at = "run"
    BY DEF RuntimeInv, ClientsInv, R!Run
<1>2. cl.object \in 1 .. n
    BY <1>1 DEF CallOK
<1>3. UNCHANGED <<p4objects, writer>>
    BY DEF R!Run
<1>4. PICK r : R!Goto(p, r) /\ r.at \in {"fault", "reply"}
    <2>1. ASSUME NEW cause PROVE [at |-> "fault", cause |-> cause, call |-> cl.call].at = "fault"
        OBVIOUS
    <2>2. ASSUME NEW code PROVE [at |-> "reply", code |-> code].at = "reply"
        OBVIOUS
    <2> QED
        BY <2>1, <2>2 DEF R!Run, R!Answer
<1>5. CallOK(r, p, writer, n)
    BY <1>4 DEF CallOK
<1>6. objects' = objects \/ objects' = [objects EXCEPT ![cl.object].updated = TRUE]
    BY DEF R!Run
<1>7. ObjectsInv' /\ Len(objects') = n
    <2>1. CASE objects' = objects
        BY <1>1, <1>3, <2>1 DEF ObjectsInv
    <2>2. CASE objects' = [objects EXCEPT ![cl.object].updated = TRUE]
        BY <1>1, <1>2, <1>3, <2>2, MarkedObjects
    <2> QED
        BY <1>6, <2>1, <2>2
<1>8. ClientsInv'
    BY <1>1, <1>3, <1>4, <1>5, <1>7, OwnCall
<1> QED
    BY <1>7, <1>8 DEF RuntimeInv

\* The exclusive mode is given when nobody is in any mode.
LEMMA LockExclusiveRuntimeInv ==
    ASSUME RuntimeInv, NEW p \in Clients, R!LockExclusive(p)
    PROVE  RuntimeInv'
<1> DEFINE n == Len(objects)
<1>1. /\ DOMAIN client = Clients /\ client[p].at = "exclusive"
      /\ \A q \in Clients : CallOK(client[q], q, writer, n)
    BY DEF RuntimeInv, ClientsInv, R!LockExclusive
<1>2. /\ writer = R!NoOne /\ writer' = p /\ UNCHANGED <<objects, p4objects>>
      /\ client' = [client EXCEPT ![p] = [client[p] EXCEPT !.at = "body"]]
      /\ \A q \in Clients : ~(client[q].at \in {"find", "run"} /\ client[q].call.lock)
    BY DEF R!LockExclusive, R!Goto, R!Readers
<1>3. client[p] \in [at : {"exclusive", "body"}, call : R!ConfigCalls]
    BY <1>1 DEF CallOK
<1>4. CallOK([client[p] EXCEPT !.at = "body"], p, p, n)
    BY <1>3 DEF CallOK
<1>5. ASSUME NEW q \in Clients, q # p
      PROVE  CallOK(client[q], q, p, n)
    <2>1. client[q].at # "body"
        BY <1>1, <1>2, ServicesAssumption DEF CallOK, R!ConfigsAssumption
    <2> QED
        BY <1>1, <1>2, <2>1 DEF CallOK
<1>6. DOMAIN client' = Clients /\ \A q \in Clients : CallOK(client'[q], q, writer', n)
    BY <1>1, <1>2, <1>4, <1>5
<1>7. ObjectsInv'
    BY <1>2 DEF RuntimeInv, ObjectsInv
<1> QED
    BY <1>2, <1>6, <1>7 DEF RuntimeInv, ClientsInv

\* The calls on the whole configuration.
LEMMA ConfigRuntimeInv ==
    ASSUME RuntimeInv, NEW p \in Clients,
           R!load_new_config(p) \/ R!swap_configs(p) \/ R!reset_state(p)
    PROVE  RuntimeInv'
<1> DEFINE n == Len(objects)
<1>1. ObjectsInv /\ ClientsInv /\ n \in Nat /\ n >= 1 /\ client[p].at = "body"
    BY DEF RuntimeInv, ObjectsInv, R!load_new_config, R!swap_configs, R!reset_state
<1>2. ASSUME NEW code, R!UnlockAndAnswer(p, code), UNCHANGED <<objects, p4objects>>
      PROVE  RuntimeInv'
    <2>1. ClientsInv'
        BY <1>1, <1>2, ReleasedCall
    <2>2. ObjectsInv'
        BY <1>1, <1>2 DEF ObjectsInv
    <2> QED
        BY <2>1, <2>2 DEF RuntimeInv
<1>3. CASE R!load_new_config(p)
    <2>1. CASE p4objects # R!p4objects_rt
        BY <1>2, <1>3, <2>1 DEF R!load_new_config
    <2>2. CASE p4objects = R!p4objects_rt
        <3>1. PICK k \in Configs : objects' = Append(objects, [config |-> k, updated |-> FALSE])
            BY <1>3, <2>2 DEF R!load_new_config
        <3>2. [config |-> k, updated |-> FALSE] \in Objects
            BY DEF Objects
        <3>3. /\ objects' \in Seq(Objects) /\ Len(objects') = n + 1
              /\ objects'[1] = objects[1]
            BY <1>1, <3>1, <3>2 DEF ObjectsInv
        <3>4. ObjectsInv'
            BY <1>1, <1>3, <3>3 DEF ObjectsInv, R!load_new_config
        <3>5. R!UnlockAndAnswer(p, "SUCCESS") /\ Len(objects') \in Nat /\ n <= Len(objects')
            BY <1>1, <1>3, <2>2, <3>3 DEF R!load_new_config
        <3>6. ClientsInv'
            BY <1>1, <3>5, ReleasedCall
        <3> QED
            BY <3>4, <3>6 DEF RuntimeInv
    <2> QED
        BY <2>1, <2>2
<1>4. CASE R!swap_configs(p)
    BY <1>2, <1>4 DEF R!swap_configs
<1>5. CASE R!reset_state(p)
    <2>1. CASE objects[n].config.engine
        <3>1. /\ R!UnlockAndAnswer(p, "SUCCESS") /\ p4objects' = p4objects
              /\ objects' = [objects EXCEPT ![n].updated = FALSE]
            BY <1>5, <2>1 DEF R!reset_state, R!p4objects_rt
        <3>2. ObjectsInv' /\ Len(objects') = n
            <4>1. n \in 1 .. n
                BY <1>1
            <4> HIDE DEF n
            <4> QED
                BY <1>1, <3>1, <4>1, MarkedObjects DEF n
        <3>3. ClientsInv'
            BY <1>1, <3>1, <3>2, ReleasedCall
        <3> QED
            BY <3>2, <3>3 DEF RuntimeInv
    <2>2. CASE ~objects[n].config.engine
        <3> DEFINE r == [at |-> "fault", cause |-> "null", call |-> "reset_state"]
        <3>1. R!Goto(p, r) /\ UNCHANGED <<objects, p4objects, writer>>
            BY <1>5, <2>2 DEF R!reset_state, R!p4objects_rt
        <3>2. CallOK(r, p, writer, n)
            BY DEF CallOK
        <3>3. ClientsInv'
            BY <1>1, <3>1, <3>2, OwnCall
        <3>4. ObjectsInv'
            BY <1>1, <3>1 DEF ObjectsInv
        <3> QED
            BY <3>3, <3>4 DEF RuntimeInv
    <2> QED
        BY <2>1, <2>2
<1> QED
    BY <1>3, <1>4, <1>5

LEMMA NextRuntimeInv ==
    ASSUME RuntimeInv, R!Next
    PROVE  RuntimeInv'
<1>1. ASSUME R!do_swap
      PROVE  RuntimeInv'
    <2>1. UNCHANGED <<objects, writer, client>> /\ p4objects' = Len(objects)
        BY <1>1 DEF R!do_swap, R!p4objects_rt
    <2>2. ObjectsInv'
        BY <2>1 DEF RuntimeInv, ObjectsInv
    <2>3. ClientsInv'
        BY <2>1 DEF RuntimeInv, ClientsInv
    <2> QED
        BY <2>2, <2>3 DEF RuntimeInv
<1> QED
    BY <1>1, FindRuntimeInv, RunRuntimeInv, LockExclusiveRuntimeInv, ConfigRuntimeInv
       DEF R!Next, R!Step

\* A step of the services is one of the runtime interface or leaves it alone.
LEMMA RuntimeOrNot ==
    ASSUME [ServicesNext]_servicesVars
    PROVE  R!Next \/ UNCHANGED R!vars
BY DEF ServicesNext, DebuggerNext, RuntimeNext, PortsNext, servicesVars, runtime, R!vars

LEMMA KeepsRuntimeInv ==
    ASSUME RuntimeInv, UNCHANGED R!vars
    PROVE  RuntimeInv'
BY DEF RuntimeInv, ObjectsInv, ClientsInv, R!vars

\* The cause of a fault of a call in state r.
Caused(r) ==
    /\ r.cause \in {"freed", "null", "wrong type", "index asserted", "bad index"}
    /\ r.cause = "freed" => ~r.call.lock
    /\ r.cause = "null" => \E i \in 2 .. Len(objects) : ~objects[i].config.engine
    /\ r.cause = "wrong type" => r.call.key

\* A method that loses the process.
LEMMA RunIsCaused ==
    ASSUME RuntimeInv, NEW p \in Clients, R!Run(p), client'[p].at = "fault"
    PROVE  Caused(client'[p]) /\ objects' = objects
<1> DEFINE cl == client[p]
           n == Len(objects)
<1>1. ObjectsInv /\ CallOK(cl, p, writer, n) /\ cl.at = "run" /\ DOMAIN client = Clients
    BY DEF RuntimeInv, ClientsInv, R!Run
<1>2. /\ cl.object \in 1 .. n /\ cl.call \in R!RuntimeInterface
      /\ cl.call.lock => cl.object = n
    BY <1>1 DEF CallOK
<1>3. ASSUME NEW r, R!Goto(p, r) PROVE client'[p] = r
    BY <1>1, <1>3 DEF R!Goto
<1>4. CASE ~R!Alive(cl.object)
    <2>1. /\ R!Goto(p, [at |-> "fault", cause |-> "freed", call |-> cl.call])
          /\ objects' = objects
        BY <1>4 DEF R!Run
    <2>2. client'[p].cause = "freed" /\ client'[p].call = cl.call
        BY <1>3, <2>1
    <2>3. ~cl.call.lock
        BY <1>2, <1>4 DEF R!Alive, R!p4objects_rt
    <2> QED
        BY <2>1, <2>2, <2>3 DEF Caused
<1>5. CASE R!Alive(cl.object) /\ cl.call.needs = "engine" /\ ~objects[cl.object].config.engine
    <2>1. /\ R!Goto(p, [at |-> "fault", cause |-> "null", call |-> cl.call])
          /\ objects' = objects
        BY <1>5 DEF R!Run
    <2>2. client'[p].cause = "null"
        BY <1>3, <2>1
    <2>3. cl.object \in 2 .. n
        BY <1>1, <1>2, <1>5 DEF ObjectsInv
    <2> QED
        BY <1>5, <2>1, <2>2, <2>3 DEF Caused
<1>6. CASE R!Alive(cl.object) /\ ~(cl.call.needs = "engine" /\ ~objects[cl.object].config.engine)
    <2>1. PICK code \in cl.call.codes :
            /\ IF code \in {"index asserted", "bad index"} \/ R!Reply(cl.call.needs, code) = "assert"
               THEN R!Goto(p, [at |-> "fault", cause |-> code, call |-> cl.call])
               ELSE R!Answer(p, R!Reply(cl.call.needs, code))
            /\ objects' = IF code # "SUCCESS" THEN objects
                          ELSE [objects EXCEPT ![cl.object].updated = TRUE]
        BY <1>6 DEF R!Run
    <2>2. ASSUME NEW c, R!Answer(p, c) PROVE FALSE
        BY <1>3, <2>2 DEF R!Answer
    <2>3. \/ code \in {"index asserted", "bad index"}
          \/ R!Reply(cl.call.needs, code) = "assert"
        BY <2>1, <2>2
    <2>4. code \in {"index asserted", "bad index"}
        BY <1>2, <2>3, CallFacts
    <2>5. client'[p].cause = code
        <3>1. R!Goto(p, [at |-> "fault", cause |-> code, call |-> cl.call])
            BY <2>1, <2>3
        <3> QED
            BY <1>3, <3>1
    <2>6. objects' = objects
        <3>1. code # "SUCCESS"
            BY <2>4
        <3> QED
            BY <2>1, <3>1
    <2>7. client'[p].cause \in {"index asserted", "bad index"}
        BY <2>4, <2>5
    <2> QED
        BY <2>6, <2>7 DEF Caused
<1> QED
    BY <1>4, <1>5, <1>6

\* A step that ends in a fault of p is one of these three.
LEMMA FaultySteps ==
    ASSUME RuntimeInv, R!Next, NEW p \in Clients, client'[p].at = "fault"
    PROVE  R!Request(p) \/ R!Run(p) \/ R!reset_state(p)
<1>0. DOMAIN client = Clients /\ \A q \in Clients : client[q].at # "fault"
    BY DEF RuntimeInv, ClientsInv, R!Next, R!Faulty
<1>1. ASSUME NEW q \in Clients, NEW r, R!Goto(q, r), q # p \/ r.at # "fault"
      PROVE  FALSE
    BY <1>0, <1>1 DEF R!Goto
<1>2. ASSUME NEW q \in Clients, NEW code, R!Answer(q, code)
      PROVE  FALSE
    <2>1. [at |-> "reply", code |-> code].at # "fault"
        OBVIOUS
    <2> QED
        BY <1>1, <1>2, <2>1 DEF R!Answer
<1>3. ~R!do_swap
    BY <1>0 DEF R!do_swap
<1>4. ASSUME NEW q \in Clients, R!Request(q), q # p
      PROVE  FALSE
    <2>1. \E r : R!Goto(q, r)
        BY <1>4, RequestMade, Zenon DEF R!Answer
    <2> QED
        BY <1>1, <1>4, <2>1
<1>5. ASSUME NEW q \in Clients, R!LockShared(q) \/ R!LockExclusive(q)
      PROVE  FALSE
    <2>1. CallOK(client[q], q, writer, Len(objects)) /\ client[q].at \in {"lock", "exclusive"}
        BY <1>5 DEF RuntimeInv, ClientsInv, R!LockShared, R!LockExclusive
    <2>2. \/ client[q] \in [at : {"lock", "find"}, call : R!RuntimeInterface, name : CallNames]
          \/ client[q] \in [at : {"exclusive", "body"}, call : R!ConfigCalls]
        BY <2>1 DEF CallOK
    <2>3. /\ [client[q] EXCEPT !.at = "find"].at = "find"
          /\ [client[q] EXCEPT !.at = "body"].at = "body"
        BY <2>2
    <2> QED
        BY <1>1, <1>5, <2>3 DEF R!LockShared, R!LockExclusive
<1>6. ASSUME NEW q \in Clients, R!FindTable(q) \/ R!FindArray(q) \/ R!FindEngine(q)
      PROVE  FALSE
    <2>1. ASSUME NEW c, NEW i, R!Goto(q, [at |-> "run", call |-> c, object |-> i])
          PROVE  FALSE
        BY <1>1, <2>1
    <2> QED
        BY <1>2, <1>6, <2>1 DEF R!FindTable, R!FindArray, R!FindEngine
<1>7. ASSUME NEW q \in Clients, R!load_new_config(q) \/ R!swap_configs(q) \/ R!Return(q)
      PROVE  FALSE
    <2>1. ~R!Goto(q, [at |-> "idle"])
        BY <1>1
    <2> QED
        BY <1>2, <1>7, <2>1 DEF R!load_new_config, R!swap_configs, R!Return, R!UnlockAndAnswer
<1>8. ASSUME NEW q \in Clients, q # p, R!Run(q) \/ R!reset_state(q)
      PROVE  FALSE
    <2>1. \E r : R!Goto(q, r)
        BY <1>8 DEF R!Run, R!reset_state, R!Answer, R!UnlockAndAnswer
    <2> QED
        BY <1>1, <1>8, <2>1
<1>9. PICK q \in Clients : R!Request(q) \/ R!Step(q)
    BY <1>3 DEF R!Next
<1> QED
    BY <1>4, <1>5, <1>6, <1>7, <1>8, <1>9 DEF R!Step

LEMMA NextFaultsHaveCause ==
    ASSUME RuntimeInv, R!Next
    PROVE  R!FaultsHaveCause'
<1> SUFFICES ASSUME NEW p \in Clients, client'[p].at = "fault"
             PROVE  Caused(client'[p]) /\ objects' = objects
    BY DEF R!FaultsHaveCause, Caused
<1>1. CASE R!Run(p)
    BY <1>1, RunIsCaused
<1>3. CASE R!Request(p)
    <2>0. DOMAIN client = Clients /\ objects' = objects
        BY <1>3 DEF RuntimeInv, ClientsInv, R!Request
    <2>1. ASSUME NEW r, R!Goto(p, r) PROVE client'[p] = r
        BY <2>0, <2>1 DEF R!Goto
    <2>2. ASSUME NEW r, R!Goto(p, r), r.at # "fault" PROVE FALSE
        BY <2>1, <2>2
    <2>3. ASSUME NEW call, NEW name,
                 R!Goto(p, [at |-> IF call.lock THEN "lock" ELSE "find",
                            call |-> call, name |-> name])
          PROVE  FALSE
        BY <2>2, <2>3
    <2>4. ASSUME NEW c, R!Goto(p, [at |-> "exclusive", call |-> c]) PROVE FALSE
        BY <2>2, <2>4
    <2>5. ~R!Answer(p, "out_of_range")
        BY <2>2 DEF R!Answer
    <2>6. PICK call \in R!RuntimeInterface :
            call.key /\ R!Goto(p, [at |-> "fault", cause |-> "wrong type", call |-> call])
        BY <1>3, <2>3, <2>4, <2>5, RequestMade, Zenon
    <2> DEFINE r == [at |-> "fault", cause |-> "wrong type", call |-> call]
    <2>7. client'[p] = r
        BY <2>1, <2>6
    <2>8. r.cause = "wrong type" /\ r.call = call
        OBVIOUS
    <2> HIDE DEF r
    <2> QED
        BY <2>0, <2>6, <2>7, <2>8 DEF Caused
<1>2. CASE R!reset_state(p)
    <2> DEFINE n == Len(objects)
               r == [at |-> "fault", cause |-> "null", call |-> "reset_state"]
    <2>0. ObjectsInv /\ DOMAIN client = Clients
        BY DEF RuntimeInv, ClientsInv
    <2>1. CASE objects[n].config.engine
        <3>1. R!Goto(p, [at |-> "reply", code |-> "SUCCESS"])
            BY <1>2, <2>1 DEF R!reset_state, R!UnlockAndAnswer, R!Answer, R!p4objects_rt
        <3> QED
            BY <2>0, <3>1 DEF R!Goto
    <2>2. CASE ~objects[n].config.engine
        <3>1. R!Goto(p, r) /\ objects' = objects
            BY <1>2, <2>2 DEF R!reset_state, R!p4objects_rt
        <3>2. client'[p].cause = "null"
            BY <2>0, <3>1 DEF R!Goto
        <3>3. n \in 2 .. n
            BY <2>0, <2>2 DEF ObjectsInv
        <3> QED
            BY <2>2, <3>1, <3>2, <3>3 DEF Caused
    <2> QED
        BY <2>1, <2>2
<1> QED
    BY <1>1, <1>2, <1>3, FaultySteps

(***************************************************************************)
(* The runtime interface, with any number of connections and any           *)
(* configurations: the process is only lost where the code leaves it open. *)
(* In particular a call that takes request_mutex never meets objects that  *)
(* a swap has freed, and every code of a table has its Thrift code.        *)
(***************************************************************************)
THEOREM FaultsAreCaused == ServicesSpec => []FaultsHaveCause
<1>1. ServicesInit => RuntimeInv /\ R!FaultsHaveCause
    BY InitRuntimeInv DEF ServicesInit
<1>2. RuntimeInv /\ R!FaultsHaveCause /\ [ServicesNext]_servicesVars
        => (RuntimeInv /\ R!FaultsHaveCause)'
    <2> SUFFICES ASSUME RuntimeInv, R!FaultsHaveCause, [ServicesNext]_servicesVars
                 PROVE  RuntimeInv' /\ R!FaultsHaveCause'
        OBVIOUS
    <2>1. CASE R!Next
        BY <2>1, NextRuntimeInv, NextFaultsHaveCause
    <2>2. CASE UNCHANGED R!vars
        <3>1. R!FaultsHaveCause'
            BY <2>2 DEF R!FaultsHaveCause, R!vars
        <3> QED
            BY <2>2, <3>1, KeepsRuntimeInv
    <2> QED
        BY <2>1, <2>2, RuntimeOrNot
<1> QED
    BY <1>1, <1>2, PTL DEF ServicesSpec, FaultsHaveCause

\* What a call in the middle of a locked method sees.
NewestStep ==
    \A p \in Clients :
        (client[p].at = "run" /\ client[p].call.lock) => R!p4objects_rt' = client[p].object

LEMMA NextNewestStep ==
    ASSUME RuntimeInv, R!Next
    PROVE  NewestStep
<1> SUFFICES ASSUME NEW p \in Clients, client[p].at = "run", client[p].call.lock
             PROVE  Len(objects') = client[p].object
    BY DEF NewestStep, R!p4objects_rt
<1>1. /\ CallOK(client[p], p, writer, Len(objects)) /\ ObjectsInv
      /\ \A q \in Clients : CallOK(client[q], q, writer, Len(objects))
    BY DEF RuntimeInv, ClientsInv
<1>2. client[p].object = Len(objects) /\ writer = R!NoOne
    BY <1>1 DEF CallOK
<1>3. \A q \in Clients : client[q].at # "body"
    BY <1>1, <1>2, ServicesAssumption DEF CallOK, R!ConfigsAssumption
<1>4. CASE R!do_swap
    BY <1>2, <1>4 DEF R!do_swap
<1>5. ASSUME NEW q \in Clients, R!Run(q)
      PROVE  Len(objects') = Len(objects)
    <2>1. client[q].object \in 1 .. Len(objects)
        BY <1>1, <1>5 DEF R!Run, CallOK
    <2>2. objects' = objects \/ objects' = [objects EXCEPT ![client[q].object].updated = TRUE]
        BY <1>5 DEF R!Run
    <2>3. p4objects' = p4objects
        BY <1>5 DEF R!Run
    <2> QED
        BY <1>1, <2>1, <2>2, <2>3, MarkedObjects
<1>6. ASSUME NEW q \in Clients,
             \/ R!Request(q) \/ R!LockShared(q) \/ R!FindTable(q) \/ R!FindArray(q)
             \/ R!FindEngine(q) \/ R!LockExclusive(q) \/ R!Return(q)
      PROVE  objects' = objects
    BY <1>6 DEF R!Request, R!LockShared, R!FindTable, R!FindArray, R!FindEngine,
                R!LockExclusive, R!Return
<1>7. ASSUME NEW q \in Clients, R!load_new_config(q) \/ R!swap_configs(q) \/ R!reset_state(q)
      PROVE  FALSE
    BY <1>3, <1>7 DEF R!load_new_config, R!swap_configs, R!reset_state
<1> QED
    BY <1>2, <1>4, <1>5, <1>6, <1>7 DEF R!Next, R!Step

(***************************************************************************)
(* A call that holds request_mutex in shared mode works on the newest      *)
(* configuration: between its lookup and its update no load gets in.       *)
(***************************************************************************)
THEOREM LockedCallsSeeTheNewest == ServicesSpec => UpdatesReachNewest
<1>1. ServicesInit => RuntimeInv
    BY InitRuntimeInv DEF ServicesInit
<1>2. RuntimeInv /\ [ServicesNext]_servicesVars => RuntimeInv'
    BY RuntimeOrNot, NextRuntimeInv, KeepsRuntimeInv
<1>3. RuntimeInv /\ [ServicesNext]_servicesVars => [NewestStep]_(R!vars)
    BY RuntimeOrNot, NextNewestStep
<1> QED
    BY <1>1, <1>2, <1>3, PTL DEF ServicesSpec, UpdatesReachNewest, R!UpdatesReachNewest, NewestStep

-----------------------------------------------------------------------------
\* The switch.

\* A packet whose request to clone, if it has one, is its own and is still to be
\* served, and an element of a physical queue.
Owner == [clone_spec : Requests, again : {FALSE}, hops : Nat]
Item == [port : Ports, pkt : Owner]

\* A physical queue, and what is in it for the logical queue of port p.
QueueOK(B) == DOMAIN B \subseteq Item /\ \A e \in DOMAIN B : B[e] \in Nat \ {0}
Elements(B, p) == UNION {{e} \X (1 .. B[e]) : e \in {f \in DOMAIN B : f.port = p}}

\* A thread in the middle of its pass.
PassOK(r) ==
    /\ {"pkt", "pending"} \subseteq DOMAIN r
    /\ r.pkt \in Owner /\ r.pending \in Seq(Item)

ThreadsInv ==
    /\ input_buffer \in Seq(Owner)
    /\ mirroring_map \in [Mirrors -> Ports \cup {-1}]
    /\ PassOK(ingress)
    /\ DOMAIN egress = Workers /\ \A w \in Workers : PassOK(egress[w])

QueuesInv ==
    /\ DOMAIN egress_buffers = Workers /\ size \in [Ports -> Nat]
    /\ \A w \in Workers : QueueOK(egress_buffers[w])
    /\ \A w \in Workers, p \in Ports :
          /\ IsFiniteSet(Elements(egress_buffers[w], p))
          /\ Cardinality(Elements(egress_buffers[w], p)) =
                IF w = map_to_worker(p) THEN size[p] ELSE 0

SwitchInv == ThreadsInv /\ QueuesInv

LEMMA WorkerOfPort == \A p \in Ports : map_to_worker(p) \in Workers
BY SwitchAssumption DEF Ports, Workers, map_to_worker

LEMMA ElementsIn ==
    ASSUME NEW B, NEW p, NEW z
    PROVE  z \in Elements(B, p) <=>
              \E e \in DOMAIN B : e.port = p /\ \E k \in 1 .. B[e] : z = <<e, k>>
BY DEF Elements

\* An element more.
LEMMA Added ==
    ASSUME NEW B, QueueOK(B), NEW x \in Item
    PROVE  /\ QueueOK(B (+) SetToBag({x}))
           /\ \A p : p # x.port => Elements(B (+) SetToBag({x}), p) = Elements(B, p)
           /\ \E z : z \notin Elements(B, x.port)
                  /\ Elements(B (+) SetToBag({x}), x.port) = Elements(B, x.port) \cup {z}
<1> DEFINE C == B (+) SetToBag({x})
           n == IF x \in DOMAIN B THEN B[x] ELSE 0
<1>1. /\ DOMAIN C = DOMAIN B \cup {x} /\ C[x] = n + 1
      /\ \A e \in DOMAIN B : e # x => C[e] = B[e]
    <2> DEFINE one == SetToBag({x})
    <2>1. DOMAIN one = {x} /\ one[x] = 1
        BY DEF SetToBag
    <2>2. \A e \in DOMAIN B : B[e] \in Nat
        BY DEF QueueOK
    <2> HIDE DEF one
    <2>3. C = [e \in (DOMAIN B) \cup (DOMAIN one) |->
                 (IF e \in DOMAIN B THEN B[e] ELSE 0)
                 + (IF e \in DOMAIN one THEN one[e] ELSE 0)]
        BY DEF (+), one
    <2> HIDE DEF C
    <2> QED
        BY <2>1, <2>2, <2>3
<1>2. n \in Nat /\ \A e \in DOMAIN B : B[e] \in Nat
    BY DEF QueueOK
<1> HIDE DEF C
<1>3. QueueOK(C)
    BY <1>1, <1>2 DEF QueueOK
<1>4. ASSUME NEW p, p # x.port
      PROVE  Elements(C, p) = Elements(B, p)
    <2>1. ASSUME NEW z PROVE z \in Elements(C, p) <=> z \in Elements(B, p)
        BY <1>1, <1>4, ElementsIn
    <2> QED
        BY <2>1
<1>5. <<x, n + 1>> \notin Elements(B, x.port)
    BY <1>2, ElementsIn
<1>6. Elements(C, x.port) = Elements(B, x.port) \cup {<<x, n + 1>>}
    <2> HIDE DEF n
    <2>0. x \in DOMAIN B => n = B[x]
        BY DEF n
    <2>1. ASSUME NEW z \in Elements(C, x.port)
          PROVE  z \in Elements(B, x.port) \cup {<<x, n + 1>>}
        <3>0. PICK e \in DOMAIN C : e.port = x.port /\ \E k \in 1 .. C[e] : z = <<e, k>>
            BY <2>1, ElementsIn
        <3>1. PICK k \in 1 .. C[e] : e.port = x.port /\ z = <<e, k>>
            BY <3>0
        <3>2. CASE e # x
            BY <1>1, <3>1, <3>2, ElementsIn
        <3>3. CASE e = x /\ k = n + 1
            BY <3>1, <3>3
        <3>4. CASE e = x /\ k # n + 1
            <4>1. k \in 1 .. n
                BY <1>1, <1>2, <3>4
            <4>2. x \in DOMAIN B
                BY <4>1 DEF n
            <4> QED
                BY <2>0, <3>1, <3>4, <4>1, <4>2, ElementsIn
        <3> QED
            BY <3>2, <3>3, <3>4
    <2>2. ASSUME NEW z \in Elements(B, x.port) PROVE z \in Elements(C, x.port)
        <3>0. PICK e \in DOMAIN B : e.port = x.port /\ \E k \in 1 .. B[e] : z = <<e, k>>
            BY <2>2, ElementsIn
        <3>1. PICK k \in 1 .. B[e] : e.port = x.port /\ z = <<e, k>>
            BY <3>0
        <3>2. k \in 1 .. C[e] /\ e \in DOMAIN C
            BY <1>1, <1>2, <2>0, <3>1
        <3> QED
            BY <3>1, <3>2, ElementsIn
    <2>3. <<x, n + 1>> \in Elements(C, x.port)
        BY <1>1, <1>2, ElementsIn
    <2> QED
        BY <2>1, <2>2, <2>3
<1> QED
    BY <1>3, <1>4, <1>5, <1>6 DEF C

\* An element less.
LEMMA Removed ==
    ASSUME NEW B, QueueOK(B), NEW x \in DOMAIN B
    PROVE  /\ QueueOK(B (-) SetToBag({x}))
           /\ \A p : p # x.port => Elements(B (-) SetToBag({x}), p) = Elements(B, p)
           /\ \E z \in Elements(B, x.port) :
                 Elements(B (-) SetToBag({x}), x.port) = Elements(B, x.port) \ {z}
<1> DEFINE C == B (-) SetToBag({x})
           n == B[x]
<1>1. n \in Nat \ {0} /\ \A e \in DOMAIN B : B[e] \in Nat \ {0} /\ e \in Item
    BY DEF QueueOK
<1>2. /\ DOMAIN C = IF n = 1 THEN DOMAIN B \ {x} ELSE DOMAIN B
      /\ n # 1 => C[x] = n - 1
      /\ \A e \in DOMAIN B : e # x => C[e] = B[e]
    <2> DEFINE one == SetToBag({x})
               D1 == [e \in DOMAIN B |-> IF e \in DOMAIN one THEN B[e] - one[e] ELSE B[e]]
    <2>1. DOMAIN one = {x} /\ one[x] = 1
        BY DEF SetToBag
    <2>2. C = [e \in {d \in DOMAIN D1 : D1[d] > 0} |-> D1[e]]
        BY DEF (-)
    <2> HIDE DEF one, C
    <2>3. /\ DOMAIN D1 = DOMAIN B /\ D1[x] = n - 1
          /\ \A e \in DOMAIN B : e # x => D1[e] = B[e]
        BY <2>1
    <2> HIDE DEF D1
    <2> QED
        BY <1>1, <2>2, <2>3
<1> HIDE DEF C, n
<1>3. QueueOK(C)
    BY <1>1, <1>2 DEF QueueOK
<1>4. ASSUME NEW p, p # x.port
      PROVE  Elements(C, p) = Elements(B, p)
    <2>1. ASSUME NEW z PROVE z \in Elements(C, p) <=> z \in Elements(B, p)
        BY <1>2, <1>4, ElementsIn
    <2> QED
        BY <2>1
<1>5. <<x, n>> \in Elements(B, x.port)
    BY <1>1, ElementsIn DEF n
<1>6. Elements(C, x.port) = Elements(B, x.port) \ {<<x, n>>}
    <2>1. ASSUME NEW z \in Elements(C, x.port)
          PROVE  z \in Elements(B, x.port) \ {<<x, n>>}
        <3>0. PICK e \in DOMAIN C : e.port = x.port /\ \E k \in 1 .. C[e] : z = <<e, k>>
            BY <2>1, ElementsIn
        <3>1. PICK k \in 1 .. C[e] : e.port = x.port /\ z = <<e, k>>
            BY <3>0
        <3>2. CASE e # x
            BY <1>2, <3>1, <3>2, ElementsIn
        <3>3. CASE e = x
            <4>1. n # 1 /\ k \in 1 .. n - 1
                BY <1>1, <1>2, <3>3
            <4>2. k \in 1 .. B[x] /\ k # n
                BY <1>1, <4>1 DEF n
            <4> QED
                BY <3>1, <3>3, <4>2, ElementsIn
        <3> QED
            BY <3>2, <3>3
    <2>2. ASSUME NEW z \in Elements(B, x.port) \ {<<x, n>>}
          PROVE  z \in Elements(C, x.port)
        <3>0. PICK e \in DOMAIN B : e.port = x.port /\ \E k \in 1 .. B[e] : z = <<e, k>>
            BY <2>2, ElementsIn
        <3>1. PICK k \in 1 .. B[e] : e.port = x.port /\ z = <<e, k>>
            BY <3>0
        <3>2. CASE e # x
            BY <1>2, <3>1, <3>2, ElementsIn
        <3>3. CASE e = x
            <4>1. k \in 1 .. n /\ k # n
                BY <2>2, <3>1, <3>3 DEF n
            <4>2. n # 1 /\ k \in 1 .. n - 1
                BY <1>1, <4>1
            <4> QED
                BY <1>2, <3>1, <3>3, <4>2, ElementsIn
        <3> QED
            BY <3>2, <3>3
    <2> QED
        BY <2>1, <2>2
<1> QED
    BY <1>3, <1>4, <1>5, <1>6 DEF C

\* push_front of the queueing logic, by either thread.
LEMMA EnqueueQueuesInv ==
    ASSUME QueuesInv, NEW x \in Item, enqueue(x)
    PROVE  QueuesInv'
<1>1. CASE UNCHANGED <<egress_buffers, size>>
    BY <1>1 DEF QueuesInv
<1>2. CASE /\ egress_buffers' =
                [egress_buffers EXCEPT ![map_to_worker(x.port)] = @ (+) SetToBag({x})]
           /\ size' = [size EXCEPT ![x.port] = @ + 1]
    <2> DEFINE v == map_to_worker(x.port)
               B == egress_buffers[v]
    <2>1. x.port \in Ports /\ v \in Workers
        BY WorkerOfPort DEF Item
    <2>2. /\ DOMAIN egress_buffers = Workers /\ size \in [Ports -> Nat]
          /\ QueueOK(B)
        BY <2>1 DEF QueuesInv
    <2>3. /\ DOMAIN egress_buffers' = Workers /\ egress_buffers'[v] = B (+) SetToBag({x})
          /\ \A w \in Workers : w # v => egress_buffers'[w] = egress_buffers[w]
        BY <1>2, <2>1, <2>2
    <2>4. /\ size' \in [Ports -> Nat] /\ size'[x.port] = size[x.port] + 1
          /\ \A p \in Ports : p # x.port => size'[p] = size[p]
        BY <1>2, <2>1, <2>2
    <2> HIDE DEF v, B
    <2>5. \A w \in Workers : QueueOK(egress_buffers'[w])
        BY <2>2, <2>3, Added DEF QueuesInv
    <2>6. ASSUME NEW w \in Workers, NEW p \in Ports
          PROVE  /\ IsFiniteSet(Elements(egress_buffers'[w], p))
                 /\ Cardinality(Elements(egress_buffers'[w], p)) =
                       IF w = map_to_worker(p) THEN size'[p] ELSE 0
        <3>1. /\ IsFiniteSet(Elements(egress_buffers[w], p))
              /\ Cardinality(Elements(egress_buffers[w], p)) =
                    IF w = map_to_worker(p) THEN size[p] ELSE 0
            BY DEF QueuesInv
        <3>2. CASE w # v
            <4>1. p # x.port \/ w # map_to_worker(p)
                BY <3>2 DEF v
            <4> QED
                BY <2>3, <2>4, <3>1, <3>2, <4>1
        <3>3. CASE w = v /\ p # x.port
            <4>1. Elements(egress_buffers'[w], p) = Elements(egress_buffers[w], p)
                BY <2>2, <2>3, <3>3, Added DEF B
            <4> QED
                BY <2>4, <3>1, <3>3, <4>1
        <3>4. CASE w = v /\ p = x.port
            <4>0. PICK z : /\ z \notin Elements(B, x.port)
                           /\ Elements(B (+) SetToBag({x}), x.port) =
                                 Elements(B, x.port) \cup {z}
                BY <2>2, Added
            <4>1. /\ z \notin Elements(B, p)
                  /\ Elements(B (+) SetToBag({x}), p) = Elements(B, p) \cup {z}
                BY <3>4, <4>0
            <4>2. /\ IsFiniteSet(Elements(B, p) \cup {z})
                  /\ Cardinality(Elements(B, p) \cup {z}) = Cardinality(Elements(B, p)) + 1
                <5> DEFINE S == Elements(B, p)
                <5>1. IsFiniteSet(S) /\ z \notin S
                    BY <3>1, <3>4, <4>1 DEF B
                <5> HIDE DEF S
                <5>2. IsFiniteSet(S \cup {z}) /\ Cardinality(S \cup {z}) = Cardinality(S) + 1
                    BY <5>1, FS_AddElement
                <5> QED
                    BY <5>2 DEF S
            <4>3. Cardinality(Elements(B, p)) = size[p] /\ w = map_to_worker(p)
                BY <3>1, <3>4 DEF B, v
            <4> QED
                BY <2>3, <2>4, <3>4, <4>1, <4>2, <4>3
        <3> QED
            BY <3>2, <3>3, <3>4
    <2> QED
        BY <2>3, <2>4, <2>5, <2>6 DEF QueuesInv
<1> QED
    BY <1>1, <1>2 DEF enqueue

\* pop_back: what is popped from the queue of a worker belongs to a port of that worker.
LEMMA PopQueuesInv ==
    ASSUME QueuesInv, NEW v \in Workers, NEW x \in BagToSet(egress_buffers[v]), PopFrom(v, x)
    PROVE  QueuesInv' /\ x \in Item
<1> DEFINE B == egress_buffers[v]
<1>1. x \in DOMAIN B
    BY DEF BagToSet
<1>2. DOMAIN egress_buffers = Workers /\ size \in [Ports -> Nat] /\ QueueOK(B)
    BY DEF QueuesInv
<1>3. x \in Item /\ x.port \in Ports
    BY <1>1, <1>2 DEF QueueOK, Item
<1>4. PICK z \in Elements(B, x.port) :
            Elements(B (-) SetToBag({x}), x.port) = Elements(B, x.port) \ {z}
    BY <1>1, <1>2, Removed
<1>5. /\ IsFiniteSet(Elements(B, x.port))
      /\ Cardinality(Elements(B, x.port)) = IF v = map_to_worker(x.port) THEN size[x.port] ELSE 0
    BY <1>3 DEF QueuesInv
<1>6. Cardinality(Elements(B, x.port)) # 0
    <2> DEFINE S == Elements(B, x.port)
    <2>1. IsFiniteSet(S) /\ S # {}
        BY <1>4, <1>5
    <2> HIDE DEF S
    <2>2. Cardinality(S) # 0
        BY <2>1, FS_EmptySet
    <2> QED
        BY <2>2 DEF S
<1>7. /\ v = map_to_worker(x.port) /\ size[x.port] \in Nat \ {0}
      /\ Cardinality(Elements(B, x.port)) = size[x.port]
    BY <1>2, <1>3, <1>5, <1>6
<1>8. /\ DOMAIN egress_buffers' = Workers /\ egress_buffers'[v] = B (-) SetToBag({x})
      /\ \A w \in Workers : w # v => egress_buffers'[w] = egress_buffers[w]
    BY <1>2 DEF PopFrom
<1>9. /\ size' \in [Ports -> Nat] /\ size'[x.port] = size[x.port] - 1
      /\ \A p \in Ports : p # x.port => size'[p] = size[p]
    BY <1>2, <1>3, <1>7 DEF PopFrom
<1> HIDE DEF B
<1>10. \A w \in Workers : QueueOK(egress_buffers'[w])
    BY <1>1, <1>2, <1>8, Removed DEF QueuesInv
<1>11. ASSUME NEW w \in Workers, NEW p \in Ports
       PROVE  /\ IsFiniteSet(Elements(egress_buffers'[w], p))
              /\ Cardinality(Elements(egress_buffers'[w], p)) =
                    IF w = map_to_worker(p) THEN size'[p] ELSE 0
    <2>1. /\ IsFiniteSet(Elements(egress_buffers[w], p))
          /\ Cardinality(Elements(egress_buffers[w], p)) =
                IF w = map_to_worker(p) THEN size[p] ELSE 0
        BY DEF QueuesInv
    <2>2. CASE w # v
        <3>1. p # x.port \/ w # map_to_worker(p)
            BY <1>7, <2>2
        <3> QED
            BY <1>8, <1>9, <2>1, <2>2, <3>1
    <2>3. CASE w = v /\ p # x.port
        <3>1. Elements(egress_buffers'[w], p) = Elements(egress_buffers[w], p)
            BY <1>1, <1>2, <1>8, <2>3, Removed DEF B
        <3> QED
            BY <1>9, <2>1, <2>3, <3>1
    <2>4. CASE w = v /\ p = x.port
        <3>1. /\ IsFiniteSet(Elements(B, p) \ {z})
              /\ Cardinality(Elements(B, p) \ {z}) = Cardinality(Elements(B, p)) - 1
            <4> DEFINE S == Elements(B, p)
            <4>1. IsFiniteSet(S) /\ z \in S
                BY <1>4, <1>5, <2>4
            <4> HIDE DEF S
            <4>2. IsFiniteSet(S \ {z}) /\ Cardinality(S \ {z}) = Cardinality(S) - 1
                BY <4>1, FS_RemoveElement
            <4> QED
                BY <4>2 DEF S
        <3> QED
            BY <1>4, <1>7, <1>8, <1>9, <2>4, <3>1
    <2> QED
        BY <2>2, <2>3, <2>4
<1> QED
    BY <1>3, <1>8, <1>9, <1>10, <1>11 DEF QueuesInv

LEMMA InitSwitchInv == Init => SwitchInv
<1> SUFFICES ASSUME Init PROVE SwitchInv
    OBVIOUS
<1>1. NewPacket \in Owner
    BY DEF NewPacket, Packet, Owner, Requests
<1>2. << >> \in Seq(Item)
    OBVIOUS
<1>3. PassOK(IngressIdle) /\ PassOK(EgressIdle)
    BY <1>1, <1>2 DEF PassOK, IngressIdle, EgressIdle
<1>4. ThreadsInv
    BY <1>3 DEF ThreadsInv, Init
<1>5. DOMAIN EmptyBag = {}
    BY DEF EmptyBag, SetToBag
<1>6. \A p : Elements(EmptyBag, p) = {}
    BY <1>5 DEF Elements
<1>7. \A w \in Workers : egress_buffers[w] = EmptyBag
    BY DEF Init
<1>8. \A w \in Workers : QueueOK(egress_buffers[w])
    BY <1>5, <1>7 DEF QueueOK
<1>9. DOMAIN egress_buffers = Workers /\ size \in [Ports -> Nat] /\ \A p \in Ports : size[p] = 0
    BY DEF Init
<1>10. \A w \in Workers, p \in Ports :
          /\ IsFiniteSet(Elements(egress_buffers[w], p))
          /\ Cardinality(Elements(egress_buffers[w], p)) =
                IF w = map_to_worker(p) THEN size[p] ELSE 0
    BY <1>6, <1>7, <1>9, FS_EmptySet
<1> QED
    BY <1>4, <1>8, <1>9, <1>10 DEF SwitchInv, QueuesInv

\* What becomes of the request of a packet.
LEMMA RequestsOwned ==
    ASSUME NEW pkt \in Owner
    PROVE  /\ \A id \in Requests : Asking(pkt, id) \in Owner
           /\ \A keep \in BOOLEAN : Copy(pkt, keep) \in Owner
           /\ Handled(Served(pkt)) \in Owner /\ Handled(Served(pkt)).clone_spec = NoMirror
           /\ Finished(pkt) \in Owner
           /\ \A copied : Kept(pkt, copied) \in Owner
<1>0. /\ NoMirror \in Requests /\ pkt.clone_spec \in Requests /\ pkt.again = FALSE
      /\ pkt.hops \in Nat /\ pkt = [clone_spec |-> pkt.clone_spec, again |-> FALSE, hops |-> pkt.hops]
    BY DEF Owner, Requests
<1>1. ASSUME NEW id \in Requests PROVE Asking(pkt, id) \in Owner
    BY <1>0 DEF Asking, Packet, Owner
<1>2. ASSUME NEW keep \in BOOLEAN PROVE Copy(pkt, keep) \in Owner
    <2>1. CASE keep
        <3>1. Copy(pkt, keep) = Packet(pkt.clone_spec, FALSE, pkt.hops + 1)
            BY <1>0, <2>1, Zenon DEF Copy
        <3>2. Packet(pkt.clone_spec, FALSE, pkt.hops + 1) \in Owner
            BY <1>0 DEF Packet, Owner
        <3> QED
            BY <3>1, <3>2
    <2>2. CASE ~keep
        BY <1>0, <2>2 DEF Copy, Owner, Packet
    <2> QED
        BY <2>1, <2>2
<1>3. Handled(Served(pkt)) = [clone_spec |-> NoMirror, again |-> FALSE, hops |-> pkt.hops]
    <2>1. [pkt EXCEPT !.again = TRUE].hops = pkt.hops
        BY <1>0
    <2>2. Served(pkt).hops = pkt.hops
        BY <2>1 DEF Served
    <2> QED
        BY <2>2 DEF Handled, Packet
<1>4. Handled(Served(pkt)) \in Owner /\ Handled(Served(pkt)).clone_spec = NoMirror
    BY <1>0, <1>3 DEF Owner
<1>5. Finished(pkt) \in Owner
    BY <1>4 DEF Finished
<1>6. NewPacket \in Owner
    BY <1>0 DEF NewPacket, Packet, Owner
<1> QED
    BY <1>1, <1>2, <1>4, <1>5, <1>6 DEF Kept

\* What the pipelines ask for: clones to the port of a mirror, and copies to ports.
LEMMA MirroredItems ==
    ASSUME ThreadsInv, NEW pkt \in Owner, NEW id \in Requests,
           NEW keep \in BOOLEAN, NEW parsed \in Requests
    PROVE  Mirrored(pkt, id, keep, parsed) \in Seq(Item)
<1> DEFINE clone == Asking(Copy(pkt, keep), parsed)
<1>1. clone \in Owner
    BY RequestsOwned
<1> HIDE DEF clone
<1>2. CASE ~Mapped(id)
    BY <1>2 DEF Mirrored
<1>3. CASE Mapped(id)
    <2>1. mirroring_map[id] \in Ports
        BY <1>3 DEF ThreadsInv, Mapped, Requests
    <2>2. [port |-> mirroring_map[id], pkt |-> clone] \in Item
        BY <1>1, <2>1 DEF Item
    <2>3. <<[port |-> mirroring_map[id], pkt |-> clone]>> \in Seq(Item)
        BY <2>2
    <2> QED
        BY <1>3, <2>3 DEF Mirrored, clone
<1> QED
    BY <1>2, <1>3

LEMMA OutgoingItems ==
    ASSUME NEW pkt \in Owner, pkt.clone_spec = NoMirror, NEW out \in IngressOutcomes
    PROVE  Outgoing(pkt, out) \in Seq(Item)
<1>1. out.ports \in Seq(Ports)
    <2>1. ASSUME NEW kind, NEW ports \in Seq(Ports), out = Outcome(kind, ports)
          PROVE  out.ports \in Seq(Ports)
        BY <2>1 DEF Outcome
    <2>2. \A p \in Ports : <<p>> \in Seq(Ports)
        OBVIOUS
    <2>3. << >> \in Seq(Ports) /\ Groups \subseteq Seq(Ports)
        BY SwitchAssumption DEF Ports
    <2> QED
        BY <2>1, <2>2, <2>3 DEF IngressOutcomes
<1>2. Replica(pkt) \in Owner
    <2>1. (pkt.again \/ pkt.clone_spec # NoMirror) = FALSE
        BY DEF Owner
    <2>2. Replica(pkt) = [clone_spec |-> NoMirror, again |-> FALSE, hops |-> pkt.hops + 1]
        BY <2>1 DEF Replica, Packet, Owner
    <2> QED
        BY <2>2 DEF Owner, Requests
<1>3. DOMAIN out.ports = 1 .. Len(out.ports) /\ Len(out.ports) \in Nat
    BY <1>1
<1>4. ASSUME NEW i \in DOMAIN out.ports
      PROVE  [port |-> out.ports[i],
              pkt |-> IF out.kind = "unicast" THEN pkt ELSE Replica(pkt)] \in Item
    BY <1>1, <1>2 DEF Item
<1>5. Outgoing(pkt, out) \in [1 .. Len(out.ports) -> Item]
    BY <1>3, <1>4 DEF Outgoing
<1> QED
    BY <1>3, <1>5

\* The receiving thread, the transmit thread and the control interface.
LEMMA OutsideSwitchInv ==
    ASSUME SwitchInv,
           \/ receive \/ PushInput \/ transmit_thread \/ swap_configs
           \/ \E defined \in Definitions : do_swap(defined)
           \/ \E id \in Mirrors, port \in Ports \cup {-1} : SetMirror(id, port)
           \/ \E port \in Ports, depth \in Depths : set_capacity(port, depth)
    PROVE  SwitchInv'
<1>1. UNCHANGED <<egress_buffers, size, ingress, egress>>
    BY DEF receive, PushInput, transmit_thread, swap_configs, do_swap, SetMirror, set_capacity,
           queues, threads
<1>2. QueuesInv'
    BY <1>1 DEF SwitchInv, QueuesInv
<1>3. input_buffer' \in Seq(Owner)
    <2>1. CASE PushInput
        <3>1. NewPacket \in Owner
            BY DEF NewPacket, Packet, Owner, Requests
        <3> QED
            BY <2>1, <3>1 DEF PushInput, SwitchInv, ThreadsInv
    <2>2. CASE input_buffer' = input_buffer
        BY <2>2 DEF SwitchInv, ThreadsInv
    <2> QED
        BY <2>1, <2>2 DEF receive, transmit_thread, swap_configs, do_swap, SetMirror,
                          set_capacity, queues
<1>4. mirroring_map' \in [Mirrors -> Ports \cup {-1}]
    <2>1. CASE mirroring_map' = mirroring_map
        BY <2>1 DEF SwitchInv, ThreadsInv
    <2>2. ASSUME NEW id \in Mirrors, NEW port \in Ports \cup {-1}, SetMirror(id, port)
          PROVE  mirroring_map' \in [Mirrors -> Ports \cup {-1}]
        BY <2>2 DEF SetMirror, SwitchInv, ThreadsInv
    <2> QED
        BY <2>1, <2>2 DEF receive, PushInput, transmit_thread, swap_configs, do_swap,
                          set_capacity, control
<1> QED
    BY <1>1, <1>2, <1>3, <1>4 DEF SwitchInv, ThreadsInv

\* The ingress thread.
LEMMA IngressSwitchInv ==
    ASSUME SwitchInv,
           \/ \E id \in Requests, out \in IngressOutcomes : ingress_thread(id, out)
           \/ IngressEnqueues \/ IngressResubmits \/ IngressReturns
    PROVE  SwitchInv'
<1>0. /\ ThreadsInv /\ QueuesInv /\ input_buffer \in Seq(Owner) /\ PassOK(ingress)
      /\ UNCHANGED <<egress, mirroring_map>>
    BY DEF SwitchInv, ThreadsInv, ingress_thread, IngressEnqueues, IngressResubmits,
           IngressReturns, control
<1>1. PassOK(IngressIdle)
    <2>1. NewPacket \in Owner /\ << >> \in Seq(Item)
        BY DEF NewPacket, Packet, Owner, Requests
    <2> QED
        BY <2>1 DEF PassOK, IngressIdle
<1>2. ASSUME input_buffer' \in Seq(Owner), PassOK(ingress'), QueuesInv'
      PROVE  SwitchInv'
    BY <1>0, <1>2 DEF SwitchInv, ThreadsInv
<1>3. ASSUME UNCHANGED <<egress_buffers, size>>
      PROVE  QueuesInv'
    BY <1>0, <1>3 DEF QueuesInv
<1>4. ASSUME NEW id \in Requests, NEW out \in IngressOutcomes, ingress_thread(id, out)
      PROVE  SwitchInv'
    <2> DEFINE pkt == Asking(Head(input_buffer), id)
               original == Handled(Served(pkt))
    <2>1. pkt \in Owner /\ input_buffer' \in Seq(Owner)
        <3>1. Head(input_buffer) \in Owner /\ input_buffer' \in Seq(Owner)
            BY <1>0, <1>4 DEF ingress_thread
        <3> QED
            BY <3>1, RequestsOwned
    <2>2. original \in Owner /\ original.clone_spec = NoMirror /\ pkt.clone_spec \in Requests
        BY <2>1, RequestsOwned DEF Owner
    <2>3. PICK keep \in BOOLEAN, parsed \in Requests :
            ingress' = [busy |-> TRUE, pkt |-> Kept(original, out.kind = "resubmit"),
                        resubmit |-> out.kind = "resubmit",
                        pending |-> Mirrored(original, pkt.clone_spec, keep, parsed)
                                        \o Outgoing(original, out)]
        BY <1>4 DEF ingress_thread, Requests
    <2> DEFINE pending == Mirrored(original, pkt.clone_spec, keep, parsed)
                              \o Outgoing(original, out)
    <2> HIDE DEF original, pkt
    <2>4. /\ Mirrored(original, pkt.clone_spec, keep, parsed) \in Seq(Item)
          /\ Outgoing(original, out) \in Seq(Item)
        BY <1>0, <2>2, MirroredItems, OutgoingItems
    <2>5. pending \in Seq(Item) /\ Kept(original, out.kind = "resubmit") \in Owner
        <3>1. pending \in Seq(Item)
            BY <2>4
        <3>2. \A copied : Kept(original, copied) \in Owner
            BY <2>2, RequestsOwned
        <3> QED
            BY <3>1, <3>2
    <2> HIDE DEF pending
    <2>6. PassOK(ingress')
        BY <2>3, <2>5 DEF PassOK, pending
    <2>7. UNCHANGED <<egress_buffers, size>>
        BY <1>4 DEF ingress_thread
    <2> QED
        BY <1>2, <1>3, <2>1, <2>6, <2>7
<1>5. CASE IngressEnqueues
    <2>1. Head(ingress.pending) \in Item /\ Tail(ingress.pending) \in Seq(Item)
        BY <1>0, <1>5 DEF IngressEnqueues, PassOK
    <2>2. QueuesInv'
        BY <1>0, <1>5, <2>1, EnqueueQueuesInv DEF IngressEnqueues
    <2>3. PassOK(ingress')
        BY <1>0, <1>5, <2>1 DEF IngressEnqueues, PassOK
    <2>4. input_buffer' \in Seq(Owner)
        BY <1>0, <1>5 DEF IngressEnqueues
    <2> QED
        BY <1>2, <2>2, <2>3, <2>4
<1>6. CASE IngressResubmits
    <2>1. \A keep \in BOOLEAN : Copy(ingress.pkt, keep) \in Owner
        BY <1>0, RequestsOwned DEF PassOK
    <2>2. input_buffer' \in Seq(Owner)
        BY <1>0, <1>6, <2>1 DEF IngressResubmits
    <2> QED
        BY <1>1, <1>2, <1>3, <1>6, <2>2 DEF IngressResubmits
<1>7. CASE IngressReturns
    BY <1>0, <1>1, <1>2, <1>3, <1>7 DEF IngressReturns, queues
<1> QED
    BY <1>4, <1>5, <1>6, <1>7

\* The egress workers.
LEMMA EgressSwitchInv ==
    ASSUME SwitchInv, NEW v \in Workers,
           \/ \E id \in Requests, next \in {"drop", "recirculate", "output"} :
                 \E item \in BagToSet(egress_buffers[v]) : egress_thread(v, item, id, next)
           \/ EgressEnqueues(v) \/ EgressFinishes(v)
    PROVE  SwitchInv'
<1>0. /\ ThreadsInv /\ QueuesInv /\ input_buffer \in Seq(Owner) /\ PassOK(egress[v])
      /\ DOMAIN egress = Workers
      /\ UNCHANGED <<ingress, mirroring_map>>
    BY DEF SwitchInv, ThreadsInv, egress_thread, EgressEnqueues, EgressFinishes, control
<1>1. PassOK(EgressIdle)
    <2>1. NewPacket \in Owner /\ << >> \in Seq(Item)
        BY DEF NewPacket, Packet, Owner, Requests
    <2> QED
        BY <2>1 DEF PassOK, EgressIdle
<1>2. ASSUME input_buffer' \in Seq(Owner), NEW r, PassOK(r),
             egress' = [egress EXCEPT ![v] = r], QueuesInv'
      PROVE  SwitchInv'
    <2>1. DOMAIN egress' = Workers /\ \A w \in Workers : PassOK(egress'[w])
        BY <1>0, <1>2 DEF ThreadsInv
    <2> QED
        BY <1>0, <1>2, <2>1 DEF SwitchInv, ThreadsInv
<1>3. ASSUME NEW id \in Requests, NEW next, NEW x \in BagToSet(egress_buffers[v]),
             egress_thread(v, x, id, next)
      PROVE  SwitchInv'
    <2>1. QueuesInv' /\ x \in Item
        BY <1>0, <1>3, PopQueuesInv DEF egress_thread
    <2> DEFINE pkt == Asking(x.pkt, id)
    <2>2. pkt \in Owner /\ pkt.clone_spec \in Requests /\ Finished(pkt) \in Owner
        <3>1. x.pkt \in Owner
            BY <2>1 DEF Item
        <3>2. pkt \in Owner
            BY <3>1, RequestsOwned
        <3> QED
            BY <3>2, RequestsOwned DEF Owner
    <2>3. PICK keep \in BOOLEAN : egress' = [egress EXCEPT ![v] =
              [busy |-> TRUE, pkt |-> Kept(Finished(pkt), next = "recirculate"), next |-> next,
               pending |-> Mirrored(Finished(pkt), pkt.clone_spec, keep, NoMirror)]]
        BY <1>3 DEF egress_thread
    <2> HIDE DEF pkt
    <2>4. /\ Mirrored(Finished(pkt), pkt.clone_spec, keep, NoMirror) \in Seq(Item)
          /\ Kept(Finished(pkt), next = "recirculate") \in Owner
        <3>1. NoMirror \in Requests
            BY DEF Requests
        <3> QED
            BY <1>0, <2>2, <3>1, MirroredItems, RequestsOwned
    <2> DEFINE r == [busy |-> TRUE, pkt |-> Kept(Finished(pkt), next = "recirculate"),
                     next |-> next,
                     pending |-> Mirrored(Finished(pkt), pkt.clone_spec, keep, NoMirror)]
    <2>5. PassOK(r)
        BY <2>4 DEF PassOK
    <2>6. egress' = [egress EXCEPT ![v] = r] /\ input_buffer' = input_buffer
        BY <1>3, <2>3 DEF egress_thread
    <2> HIDE DEF r
    <2> QED
        BY <1>0, <1>2, <2>1, <2>5, <2>6
<1>4. CASE EgressEnqueues(v)
    <2> DEFINE r == [egress[v] EXCEPT !.pending = Tail(@)]
    <2>1. Head(egress[v].pending) \in Item /\ Tail(egress[v].pending) \in Seq(Item)
        BY <1>0, <1>4 DEF EgressEnqueues, PassOK
    <2>2. QueuesInv'
        BY <1>0, <1>4, <2>1, EnqueueQueuesInv DEF EgressEnqueues
    <2>3. PassOK(r)
        BY <1>0, <2>1 DEF PassOK
    <2>4. egress' = [egress EXCEPT ![v] = r] /\ input_buffer' = input_buffer
        BY <1>0, <1>4 DEF EgressEnqueues
    <2> HIDE DEF r
    <2> QED
        BY <1>0, <1>2, <2>2, <2>3, <2>4
<1>5. CASE EgressFinishes(v)
    <2>1. \A keep \in BOOLEAN : Copy(egress[v].pkt, keep) \in Owner
        BY <1>0, RequestsOwned DEF PassOK
    <2>2. input_buffer' \in Seq(Owner)
        BY <1>0, <1>5, <2>1 DEF EgressFinishes
    <2>3. egress' = [egress EXCEPT ![v] = EgressIdle] /\ UNCHANGED <<egress_buffers, size>>
        BY <1>5 DEF EgressFinishes
    <2>4. QueuesInv'
        BY <1>0, <2>3 DEF QueuesInv
    <2> QED
        BY <1>1, <1>2, <2>2, <2>3, <2>4
<1> QED
    BY <1>3, <1>4, <1>5

LEMMA SwitchInduction == Spec => []SwitchInv
<1>1. SwitchInv /\ [Next]_vars => SwitchInv'
    <2> SUFFICES ASSUME SwitchInv, [Next]_vars PROVE SwitchInv'
        OBVIOUS
    <2>1. CASE Next
        BY <2>1, OutsideSwitchInv, IngressSwitchInv, EgressSwitchInv DEF Next
    <2>2. CASE UNCHANGED vars
        <3>1. UNCHANGED <<input_buffer, mirroring_map, ingress, egress, egress_buffers, size>>
            BY <2>2 DEF vars, queues, threads, control
        <3>2. ThreadsInv'
            BY <3>1 DEF SwitchInv, ThreadsInv
        <3>3. QueuesInv'
            BY <3>1 DEF SwitchInv, QueuesInv
        <3> QED
            BY <3>2, <3>3 DEF SwitchInv
    <2> QED
        BY <2>1, <2>2
<1> QED
    BY <1>1, InitSwitchInv, PTL DEF Spec

(***************************************************************************)
(* The books of QueueingLogicRL, for any number of ports and workers: the  *)
(* size of a logical queue, which is all that push_front looks at, is the  *)
(* number of its packets in the physical queue of its worker, and no other *)
(* physical queue has any.                                                 *)
(***************************************************************************)
THEOREM QueueSizesAccounted == Spec => []SizesAccounted
<1>1. SwitchInv => SizesAccounted
    <2>1. \A w, p : Waiting(w, p) = Elements(egress_buffers[w], p)
        BY DEF Waiting, Elements, BagToSet
    <2> QED
        BY <2>1 DEF SwitchInv, QueuesInv, SizesAccounted
<1> QED
    BY <1>1, SwitchInduction, PTL

(***************************************************************************)
(* A request to clone makes one clone, whatever the pipelines ask for and  *)
(* whatever field lists the copies are made with: a packet that waits for  *)
(* ingress or egress has no request that was served or that another packet *)
(* carries.  The invariant needs the order in the code, at both threads:   *)
(* the request is reset before the copies are made, so that a field list   *)
(* finds none, and at ingress also when its mirror is not mapped, so that  *)
(* the replicas of a multicast do not multiply it.                         *)
(***************************************************************************)
THEOREM RequestsServedOnce == Spec => []ClonedOnce
<1>1. SwitchInv => ClonedOnce
    <2> SUFFICES ASSUME SwitchInv PROVE ClonedOnce
        OBVIOUS
    <2>1. ASSUME NEW w \in Workers, NEW e \in BagToSet(egress_buffers[w])
          PROVE  ~e.pkt.again
        <3>1. e \in Item
            BY DEF SwitchInv, QueuesInv, QueueOK, BagToSet
        <3> QED
            BY <3>1 DEF Item, Owner
    <2>2. ASSUME NEW i \in DOMAIN input_buffer
          PROVE  ~input_buffer[i].again
        <3>1. input_buffer[i] \in Owner
            BY DEF SwitchInv, ThreadsInv
        <3> QED
            BY <3>1 DEF Owner
    <2> QED
        BY <2>1, <2>2 DEF ClonedOnce
<1> QED
    BY <1>1, SwitchInduction, PTL
=============================================================================
