------------------------------ MODULE Services ------------------------------
(* The services that answer other processes while packets run: the debugger, *)
(* the runtime interface, and the ports of the device.  One at a time, for    *)
(* they share no state; those that are not looked at stay in one initial      *)
(* state.                                                                     *)
EXTENDS Naturals

CONSTANTS
    Packets, Fields, FIELD_CTR, Filters, W,        \* of the debugger
    MaxPackets, MaxUpdates, MaxRequests,
    Clients, Configs, Names,               \* of the runtime interface
    MaxCalls, MaxLoads,
    PortNums, Managers, MaxPortCalls, MaxFlips  \* of the ports; their clients are RPC too

VARIABLES
    part,           \* the service that runs
    arr, thread, made, updated, registers, ctr_stacks, packet_ids_count, stop_packet_in,
    can_continue, attached, break_packet_in, break_next, watchpoints, filter, filter_all,
    reply_ready, reply, request, requests, astray, fault,
    objects, p4objects, swap_ordered, writer, client, calls,
    manager, started, curr_ports, port_info, bmi, link, caller, todo, heard, crossed,
    torn, port_calls

D == INSTANCE Debugger
R == INSTANCE Runtime
P == INSTANCE Ports

ASSUME ServicesAssumption == D!DebuggerAssumption /\ R!ConfigsAssumption

debugger == <<arr, thread, made, updated, registers, ctr_stacks, packet_ids_count, stop_packet_in,
              can_continue, attached, break_packet_in, break_next, watchpoints, filter,
              filter_all, reply_ready, reply, request, requests, astray, fault>>
runtime == <<objects, p4objects, swap_ordered, writer, client, calls>>
device == <<manager, started, curr_ports, port_info, bmi, link, caller, todo, heard,
            crossed, torn, port_calls>>
servicesVars == <<part, debugger, runtime, device>>

ServicesInit ==
    /\ part \in {"debugger", "runtime", "ports"}
    /\ D!Init /\ R!Init /\ P!Init
    /\ part # "runtime" =>
          objects[1].config = CHOOSE k \in Configs : k.engine
    /\ part # "ports" => manager = CHOOSE k \in Managers : TRUE

DebuggerNext == part = "debugger" /\ D!Next /\ UNCHANGED <<part, runtime, device>>
RuntimeNext == part = "runtime" /\ R!Next /\ UNCHANGED <<part, debugger, device>>
PortsNext == part = "ports" /\ P!Next /\ UNCHANGED <<part, debugger, runtime>>

ServicesNext == DebuggerNext \/ RuntimeNext \/ PortsNext

\* The fairness of the service that runs.
DebuggerFairness ==
    /\ \A p \in Packets : WF_debugger(part = "debugger" /\ D!PacketEnds(p))
    /\ WF_debugger(part = "debugger" /\ D!request_dispatch)
    /\ WF_debugger(part = "debugger" /\ D!send_keep_alive)
    /\ WF_debugger(part = "debugger" /\ D!SendReply)

RuntimeFairness == \A p \in Clients : WF_runtime(part = "runtime" /\ ~R!Faulty /\ R!Step(p))

ServicesSpec ==
    ServicesInit /\ [][ServicesNext]_servicesVars /\ DebuggerFairness /\ RuntimeFairness

-----------------------------------------------------------------------------
\* The debugger never overwrites a reply that it did not send yet, and with no
\* client attached it holds up no packet, unless a client that is not attached asked
\* to stop packets.
ProtocolKept == D!ProtocolKept
\* While the debugger has stopped the switch, nothing the client looks at changes.
StoppedMeansStopped == D!StoppedMeansStopped
\* The debugger answers every request and lets packets go when its client leaves, with
\* the same exception.
NobodyHangs == D!NobodyHangs

\* packet.h: the clones of a packet can be told apart by their copy id.
CopiesDistinguished == D!CopiesDistinguished

\* A call of the runtime interface crashes only where the code leaves it open.
FaultsHaveCause == R!FaultsHaveCause
\* A call that takes request_mutex updates the newest configuration.
UpdatesReachNewest == R!UpdatesReachNewest
\* Every call of the runtime interface returns.
CallsAreAnswered == R!CallsAreAnswered

\* The device manager, its monitor and the listeners agree on the ports, except where
\* an operation failed or events crossed.
PortsInStep == P!PortsInStep

=============================================================================
