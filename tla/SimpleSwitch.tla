----------------------------- MODULE SimpleSwitch -----------------------------
(***************************************************************************)
(* The simple_switch target (simple_switch.cpp, simple_switch.h) with its  *)
(* queues (queue.h, queueing.h): the thread that receives packets, the     *)
(* ingress thread, the egress workers, the transmit thread, and what the   *)
(* control interface changes under them.                                   *)
(*                                                                         *)
(* The P4 program is open: its ingress and egress pipelines may ask for    *)
(* anything the target knows (clone, resubmit, multicast, drop,            *)
(* recirculate).  A thread's pass over a packet is atomic up to the points *)
(* where it touches a queue, which may be full: input_buffer and           *)
(* output_buffer block the writer, an egress queue drops the packet.       *)
(***************************************************************************)
EXTENDS Integers, Sequences, FiniteSets, FiniteSetsExt, Bags

CONSTANTS
    NbPorts, NbWorkers,          \* max_port and nb_egress_threads
    InputCapacity, OutputCapacity,
    Depths,                      \* capacities an egress queue may be given
    Mirrors,                     \* mirror ids
    Groups,                      \* what the PRE can return: sequences of ports
    Resubmits,                   \* the P4 program resubmits packets
    ParserClones,                \* its parser sets clone_spec
    Swaps,                       \* clients order configuration swaps
    Definitions,                 \* whether configurations define queueing_metadata
    MaxHops                      \* bound: copies a packet descends from

ASSUME SwitchAssumption ==
    /\ NbPorts \in Nat \ {0} /\ NbWorkers \in Nat \ {0}
    /\ InputCapacity \in Nat \ {0} /\ OutputCapacity \in Nat \ {0}
    /\ Depths \subseteq Nat /\ Depths # {}
    /\ Resubmits \in BOOLEAN /\ ParserClones \in BOOLEAN /\ Swaps \in BOOLEAN /\ MaxHops \in Nat
    /\ Definitions \subseteq BOOLEAN /\ Definitions # {}
    /\ Groups \subseteq Seq(0 .. NbPorts - 1)

Ports == 0 .. NbPorts - 1
Workers == 0 .. NbWorkers - 1
NoMirror == "none"

VARIABLES
    input_buffer, output_buffer,
    egress_buffers,  \* worker -> bag of the elements [port, pkt] waiting for it
    size, capacity,  \* port -> q_info.size, q_info.capacity
    mirroring_map,   \* mirror id -> port or -1
    receiver,        \* "idle", "swap" (spinning in do_swap) or "push"
    ingress,         \* the ingress thread: [busy, pkt, pending, resubmit]
    egress,          \* worker -> [busy, pkt, pending, next]
    swap_requested,
    queueing_fields, \* the configuration in use defines queueing_metadata
    with_queueing_metadata

queues == <<input_buffer, output_buffer, egress_buffers, size>>
threads == <<receiver, ingress, egress>>
control == <<capacity, mirroring_map, swap_requested>>
fields == <<queueing_fields, with_queueing_metadata>>
vars == <<queues, threads, control, fields>>

\* clone_spec: the mirror of the clone the packet asks for.  again: history, the clone
\* it asks for was made already, or another packet carries the same request.
Packet(id, again, hops) == [clone_spec |-> id, again |-> again, hops |-> hops]
NewPacket == Packet(NoMirror, FALSE, 0)
IngressIdle == [busy |-> FALSE, pkt |-> NewPacket, pending |-> << >>, resubmit |-> FALSE]
EgressIdle == [busy |-> FALSE, pkt |-> NewPacket, pending |-> << >>, next |-> "drop"]

Init ==
    /\ input_buffer = << >> /\ output_buffer = << >>
    /\ egress_buffers = [w \in Workers |-> EmptyBag]
    /\ size = [p \in Ports |-> 0]
    /\ capacity \in [Ports -> Depths]
    /\ mirroring_map = [i \in Mirrors |-> -1]
    /\ receiver = "idle"
    /\ ingress = IngressIdle
    /\ egress = [w \in Workers |-> EgressIdle]
    /\ swap_requested = FALSE
    /\ queueing_fields \in Definitions
    /\ with_queueing_metadata = queueing_fields

\* enqueue writes the queueing metadata when the flag says that they are there, and
\* PHV::get_field throws for a field that does not exist: nobody catches that, and
\* the process ends when a thread has a packet to enqueue.
Terminated ==
    /\ with_queueing_metadata /\ ~queueing_fields
    /\ ingress.pending # << >> \/ \E w \in Workers : egress[w].pending # << >>
Running == ~Terminated

-----------------------------------------------------------------------------
\* Helpers.

map_to_worker(port) == port % NbWorkers

\* A copy with its metadata reset, but for the fields of a field list: the list that
\* the P4 program names holds clone_spec (keep) or not.  The instance type that the
\* copy gets tells nothing here.
Copy(pkt, keep) ==
    IF keep THEN Packet(pkt.clone_spec, pkt.again, pkt.hops + 1)
    ELSE Packet(NoMirror, FALSE, pkt.hops + 1)

\* A parser or a pipeline asks for a clone, or leaves what is asked for.
Asking(pkt, id) == IF id = NoMirror THEN pkt ELSE Packet(id, FALSE, pkt.hops)

\* get_mirroring_mapping finds a port.
Mapped(id) == IF id = NoMirror THEN FALSE ELSE mirroring_map[id] >= 0

\* History: the clone that the packet asks for is made.
Served(pkt) == IF Mapped(pkt.clone_spec) THEN [pkt EXCEPT !.again = TRUE] ELSE pkt

\* Mutant: the request to clone stays in the packet.
Handled_not(pkt) == pkt
\* f_clone_spec.set(0)
Handled(pkt) == Packet(NoMirror, FALSE, pkt.hops)

\* The clone of pkt for mirror id, if that is mapped to a port; the parser may have run
\* on it and asked for another.
Mirrored(pkt, id, keep, parsed) ==
    IF Mapped(id)
    THEN <<[port |-> mirroring_map[id], pkt |-> Asking(Copy(pkt, keep), parsed)]>>
    ELSE << >>

\* A thread needs the metadata of its packet to the end only if it copies them then.
Kept(pkt, copied) == IF copied THEN pkt ELSE NewPacket

\* QueueingLogicRL::push_front drops when the logical queue is full.
Accepts(port) == size[port] < capacity[port]

enqueue(item) ==
    \/ ~Accepts(item.port) /\ UNCHANGED <<egress_buffers, size>>
    \/ /\ Accepts(item.port)
       /\ egress_buffers' =
             [egress_buffers EXCEPT ![map_to_worker(item.port)] = @ (+) SetToBag({item})]
       /\ size' = [size EXCEPT ![item.port] = @ + 1]

\* Some packet instance exists, in a queue or in a thread.
PacketsInUse ==
    \/ input_buffer # << >> \/ output_buffer # << >>
    \/ ingress.busy
    \/ \E w \in Workers : egress_buffers[w] # EmptyBag \/ egress[w].busy

-----------------------------------------------------------------------------
\* The thread that receives packets.

receive ==
    /\ Running /\ receiver = "idle"
    /\ receiver' = IF swap_requested THEN "swap" ELSE "push"
    /\ UNCHANGED <<queues, ingress, egress, control, fields>>

\* Once set, with_queueing_metadata is never cleared.
check_queueing_metadata(defined) ==
    with_queueing_metadata' = (with_queueing_metadata \/ defined)

\* do_swap returns when no packet is left; the new configuration may define the
\* queueing metadata or not.
do_swap(defined) ==
    /\ Running /\ receiver = "swap" /\ ~PacketsInUse
    /\ receiver' = "push"
    /\ swap_requested' = FALSE
    /\ queueing_fields' = defined
    /\ check_queueing_metadata(defined)
    /\ UNCHANGED <<queues, ingress, egress, capacity, mirroring_map>>

PushInput ==
    /\ Running /\ receiver = "push"
    /\ Len(input_buffer) < InputCapacity
    /\ input_buffer' = Append(input_buffer, NewPacket)
    /\ receiver' = "idle"
    /\ UNCHANGED <<output_buffer, egress_buffers, size, ingress, egress, control, fields>>

-----------------------------------------------------------------------------
\* The ingress thread.

\* What the pipeline decides, and the ports it concerns.
Outcome(kind, ports) == [kind |-> kind, ports |-> ports]

\* A copy of the packet with its whole PHV: what it asks for, its copies ask for too.
Replica(pkt) ==
    Packet(pkt.clone_spec, pkt.again \/ pkt.clone_spec # NoMirror, pkt.hops + 1)

\* What goes to the egress queues: replicas for the ports of a group, the packet
\* itself for one port, nothing when it is dropped or resubmitted.
Outgoing(pkt, out) ==
    [i \in DOMAIN out.ports |->
        [port |-> out.ports[i],
         pkt |-> IF out.kind = "unicast" THEN pkt ELSE Replica(pkt)]]

\* A pass over a packet: parser and ingress pipeline, which ask for a clone (or leave
\* the request the packet came with) and for one of resubmit, multicast, drop, or one
\* port.  The request is reset before the clone is copied, mapped or not.
ingress_thread(id, out) ==
    /\ Running /\ ~ingress.busy /\ input_buffer # << >>
    /\ LET pkt == Asking(Head(input_buffer), id)
           original == Handled(Served(pkt))
       IN  /\ pkt.hops >= MaxHops => id = NoMirror /\ out.kind \in {"unicast", "drop"}
           /\ \E keep \in BOOLEAN, parsed \in Mirrors \cup {NoMirror} :
                /\ pkt.hops >= MaxHops \/ ~ParserClones => parsed = NoMirror
                /\ ingress' =
                     [busy |-> TRUE, pkt |-> Kept(original, out.kind = "resubmit"),
                      resubmit |-> out.kind = "resubmit",
                      pending |-> Mirrored(original, pkt.clone_spec, keep, parsed)
                                      \o Outgoing(original, out)]
    /\ input_buffer' = Tail(input_buffer)
    /\ UNCHANGED <<output_buffer, egress_buffers, size, receiver, egress, control,
                   fields>>

IngressEnqueues ==
    /\ Running /\ ingress.pending # << >>
    /\ enqueue(Head(ingress.pending))
    /\ ingress' = [ingress EXCEPT !.pending = Tail(@)]
    /\ UNCHANGED <<input_buffer, output_buffer, receiver, egress, control, fields>>

\* The push blocks while input_buffer is full.
IngressResubmits ==
    /\ Running /\ ingress.busy /\ ingress.pending = << >> /\ ingress.resubmit
    /\ Len(input_buffer) < InputCapacity
    /\ \E keep \in BOOLEAN : input_buffer' = Append(input_buffer, Copy(ingress.pkt, keep))
    /\ ingress' = IngressIdle
    /\ UNCHANGED <<output_buffer, egress_buffers, size, receiver, egress, control,
                   fields>>

IngressReturns ==
    /\ Running /\ ingress.busy /\ ingress.pending = << >> /\ ~ingress.resubmit
    /\ ingress' = IngressIdle
    /\ UNCHANGED <<queues, receiver, egress, control, fields>>

-----------------------------------------------------------------------------
\* The egress workers and the transmit thread.

\* Mutant: the size of the queue is not brought down.
PopFrom_uncounted(w, item) ==
    /\ egress_buffers' = [egress_buffers EXCEPT ![w] = @ (-) SetToBag({item})]
    /\ UNCHANGED size

\* pop_back of the queueing logic.  The element with the earliest send time is
\* popped; send times, and ties between them, are left open.
PopFrom(w, item) ==
    /\ egress_buffers' = [egress_buffers EXCEPT ![w] = @ (-) SetToBag({item})]
    /\ size' = [size EXCEPT ![item.port] = @ - 1]

\* The egress worker resets a request only if its mirror is mapped, before it copies.
Finished(pkt) == IF Mapped(pkt.clone_spec) THEN Handled(Served(pkt)) ELSE pkt

\* A pass over a packet: the egress pipeline asks for a clone or not, then the
\* packet is dropped, recirculated or sent out.
egress_thread(w, item, id, next) ==
    /\ Running /\ ~egress[w].busy
    /\ item \in BagToSet(egress_buffers[w])
    /\ LET pkt == Asking(item.pkt, id) IN
         /\ pkt.hops >= MaxHops => id = NoMirror /\ next # "recirculate"
         /\ \E keep \in BOOLEAN : egress' = [egress EXCEPT ![w] =
              [busy |-> TRUE, pkt |-> Kept(Finished(pkt), next = "recirculate"), next |-> next,
               pending |-> Mirrored(Finished(pkt), pkt.clone_spec, keep, NoMirror)]]
    /\ PopFrom(w, item)
    /\ UNCHANGED <<input_buffer, output_buffer, receiver, ingress, control, fields>>

EgressEnqueues(w) ==
    /\ Running /\ egress[w].pending # << >>
    /\ enqueue(Head(egress[w].pending))
    /\ egress' = [egress EXCEPT ![w].pending = Tail(@)]
    /\ UNCHANGED <<input_buffer, output_buffer, receiver, ingress, control, fields>>

\* What goes out is data: of the metadata nothing is left.
EgressFinishes(w) ==
    /\ Running /\ egress[w].busy /\ egress[w].pending = << >>
    /\ \/ egress[w].next = "drop" /\ UNCHANGED <<input_buffer, output_buffer>>
       \/ /\ egress[w].next = "recirculate"
          /\ Len(input_buffer) < InputCapacity
          /\ \E keep \in BOOLEAN :
                input_buffer' = Append(input_buffer, Copy(egress[w].pkt, keep))
          /\ UNCHANGED output_buffer
       \/ /\ egress[w].next = "output"
          /\ Len(output_buffer) < OutputCapacity
          /\ output_buffer' = Append(output_buffer, NewPacket)
          /\ UNCHANGED input_buffer
    /\ egress' = [egress EXCEPT ![w] = EgressIdle]
    /\ UNCHANGED <<egress_buffers, size, receiver, ingress, control, fields>>

\* Mutant: the transmit thread stops for want of a device.
transmit_thread_never ==
    /\ FALSE
    /\ UNCHANGED vars

transmit_thread ==
    /\ Running /\ output_buffer # << >>
    /\ output_buffer' = Tail(output_buffer)
    /\ UNCHANGED <<input_buffer, egress_buffers, size, threads, control, fields>>

-----------------------------------------------------------------------------
\* The control interface.

\* mirroring_mapping_add, mirroring_mapping_delete (-1).
SetMirror(id, port) ==
    /\ Running /\ mirroring_map[id] # port
    /\ mirroring_map' = [mirroring_map EXCEPT ![id] = port]
    /\ UNCHANGED <<queues, threads, capacity, swap_requested, fields>>

\* set_egress_queue_depth visits the queues one by one; nothing is discarded.
set_capacity(port, depth) ==
    /\ Running /\ capacity[port] # depth
    /\ capacity' = [capacity EXCEPT ![port] = depth]
    /\ UNCHANGED <<queues, threads, mirroring_map, swap_requested, fields>>

swap_configs ==
    /\ Running /\ Swaps /\ ~swap_requested
    /\ swap_requested' = TRUE
    /\ UNCHANGED <<queues, threads, capacity, mirroring_map, fields>>

-----------------------------------------------------------------------------
Requests == Mirrors \cup {NoMirror}
IngressOutcomes ==
    {Outcome("unicast", <<p>>) : p \in Ports}
    \cup {Outcome("multicast", g) : g \in Groups}
    \cup {Outcome("drop", << >>)}
    \cup {Outcome("resubmit", << >>) : r \in IF Resubmits THEN {TRUE} ELSE {}}

Next ==
    \/ receive \/ PushInput
    \/ \E defined \in Definitions : do_swap(defined)
    \/ \E id \in Requests, out \in IngressOutcomes : ingress_thread(id, out)
    \/ IngressEnqueues \/ IngressResubmits \/ IngressReturns
    \/ \E w \in Workers, id \in Requests, next \in {"drop", "recirculate", "output"} :
          \E item \in BagToSet(egress_buffers[w]) : egress_thread(w, item, id, next)
    \/ \E w \in Workers : EgressEnqueues(w)
    \/ \E w \in Workers : EgressFinishes(w)
    \/ transmit_thread
    \/ \E id \in Mirrors, port \in Ports \cup {-1} : SetMirror(id, port)
    \/ \E port \in Ports, depth \in Depths : set_capacity(port, depth)
    \/ swap_configs

EgressWorks(w) ==
    \/ EgressEnqueues(w) \/ EgressFinishes(w)
    \/ \E id \in Requests, next \in {"drop", "recirculate", "output"} :
          \E item \in BagToSet(egress_buffers[w]) : egress_thread(w, item, id, next)

\* The threads of the switch are detached and never stop; the transport returns.
\* Packets need not arrive, and clients need not call.
Fairness ==
    /\ WF_vars(PushInput) /\ WF_vars(\E defined \in Definitions : do_swap(defined))
    /\ WF_vars(\E id \in Requests, out \in IngressOutcomes : ingress_thread(id, out))
    /\ WF_vars(IngressEnqueues) /\ WF_vars(IngressResubmits) /\ WF_vars(IngressReturns)
    /\ \A w \in Workers : WF_vars(EgressWorks(w))
    /\ WF_vars(transmit_thread)

Spec == Init /\ [][Next]_vars /\ Fairness

-----------------------------------------------------------------------------
\* Properties.

PacketType == [clone_spec : Requests, again : BOOLEAN, hops : 0 .. MaxHops + 1]

\* The queues hold packets, and no queue holds more than it ever had room for.
TypeOK ==
    /\ input_buffer \in Seq(PacketType) /\ Len(input_buffer) <= InputCapacity
    /\ output_buffer \in Seq(PacketType) /\ Len(output_buffer) <= OutputCapacity
    /\ \A w \in Workers : 
          /\ IsABag(egress_buffers[w])
          /\ BagToSet(egress_buffers[w]) \subseteq [port : Ports, pkt : PacketType]
    /\ \A p \in Ports : size[p] \in 0 .. Max(Depths)
    /\ mirroring_map \in [Mirrors -> Ports \cup {-1}]
    /\ receiver \in {"idle", "swap", "push"}

\* The elements of the logical queue of port p in the physical queue of worker w, equal
\* ones numbered.
Waiting(w, p) ==
    UNION {{e} \X (1 .. egress_buffers[w][e]) :
              e \in {f \in BagToSet(egress_buffers[w]) : f.port = p}}

\* The books of the queueing logic: the size of a logical queue is the number of
\* its elements in the physical queue of its worker, the only one they may be in.
SizesAccounted ==
    \A p \in Ports, w \in Workers :
        Cardinality(Waiting(w, p)) = IF w = map_to_worker(p) THEN size[p] ELSE 0

\* A request to clone makes one clone: no packet waits for ingress or for egress with a
\* request that was served, or that another packet carries too, whatever field lists
\* the copies are made with and although an egress worker leaves a request for a mirror
\* that is not mapped in the packet, which may take it around again and have it served
\* at ingress.
ClonedOnce ==
    /\ \A w \in Workers : \A e \in BagToSet(egress_buffers[w]) : ~e.pkt.again
    /\ \A i \in DOMAIN input_buffer : ~input_buffer[i].again

\* When packets stop arriving the switch empties itself, although its threads push
\* into the bounded queues that they read: no thread waits for good for another.
SwitchDrains == <>[](receiver # "push") => <>[]~PacketsInUse

\* A swap that the receiving thread waits for takes place: the packets that are in
\* the switch leave it although that thread is blocked.
SwapCompletes == receiver = "swap" ~> receiver # "swap"

\* The switch stays live: it drains, and swaps complete.
SwitchStaysLive == SwitchDrains /\ SwapCompletes

\* A comment at the resubmission: the packet is "parsed again at the beginning of
\* ingress".
ResubmittedIsParsedAgain == ingress.busy /\ ingress.resubmit ~> ~ingress.busy

\* The switch only writes queueing metadata that the configuration defines.
QueueingFieldsExist == ~Terminated
=============================================================================
