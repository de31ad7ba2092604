------------------------------ MODULE ConfigSwap ------------------------------
(***************************************************************************)
(* Live replacement of the P4 configuration (switch.cpp, context.cpp,      *)
(* phv_source.cpp, packet.cpp, and the swap protocol of a target as in     *)
(* simple_router.cpp).                                                     *)
(*                                                                         *)
(* A client loads a new configuration into every context and then orders   *)
(* the swap; the calls visit the contexts one after another, each under    *)
(* that context's request mutex.  The thread that receives packets commits *)
(* the swap before it creates the next packet: it keeps new packets out,   *)
(* spins until no packet header vector (PHV) of the context is in use,     *)
(* replaces the objects and then the factory of the context's PHV pool.    *)
(* Meanwhile the pipeline thread works on packets, clones them, and moves  *)
(* them or clones of them to other contexts, without any of these locks.   *)
(***************************************************************************)
EXTENDS Integers, Sequences, FiniteSets, SequencesExt

CONSTANTS
    NbCxts,      \* number of contexts
    Configs,     \* configurations a client may load
    FirstConfig, \* the one the switch was started with
    Clients,     \* threads of the RPC server
    Packets,     \* packets that can exist at a time, clones included
    Moves,       \* packets change context: change_context, clone_choose_context
    MaxCopies,   \* bound: how often a packet's clones are cloned
    MaxLoads     \* bound: P4Objects created by load_new_config

ASSUME SwapAssumption ==
    /\ NbCxts \in Nat \ {0} /\ Moves \in BOOLEAN
    /\ IsFiniteSet(Packets) /\ "none" \notin Packets
    /\ MaxCopies \in Nat /\ MaxLoads \in Nat

Contexts == 1 .. NbCxts

\* A P4Objects instance: two loads of one configuration make two objects.
Serials == 0 .. MaxLoads * NbCxts
Object == [config : Configs \cup {FirstConfig}, serial : Serials]
FirstObject == [config |-> FirstConfig, serial |-> 0]

VARIABLES
    p4objects, p4objects_rt, \* per context: in use, and the one clients talk to
    swap_ordered,            \* per context
    current_config,
    factory, phvs,           \* per context: PHVPool::phv_factory and free PHVs
    packet,                  \* packet -> NoPacket or [cxt, phv, copies]
    input_buffer,            \* packets on their way to the pipeline thread
    working,                 \* the packet in the pipeline thread, or "none"
    cached,                  \* per context: objects the pipeline thread points to
    swap_happened,
    receiver,                \* [pc, cxt] of the thread that receives packets
    client,                  \* client -> [op, cxt, config]
    fault, serial,
    rival,                   \* history: clients some other load of which succeeded
    overlapped,              \* history: two overlapping loads both succeeded
    moved                    \* history: a packet came to a context do_swap was past

objects == <<p4objects, p4objects_rt, swap_ordered, current_config>>
pools == <<factory, phvs>>
traffic == <<packet, input_buffer, working, cached>>
history == <<rival, overlapped, moved>>
vars == <<objects, pools, traffic, swap_happened, receiver, client, fault, serial,
          history>>

NoPacket == [cxt |-> 0, phv |-> FirstObject, copies |-> 0]
Idle == [op |-> "none", cxt |-> 0, config |-> FirstConfig]
Live == {p \in Packets : packet[p] # NoPacket}
phvs_in_use(c) == Cardinality({p \in Live : packet[p].cxt = c})

Init ==
    /\ p4objects = [c \in Contexts |-> FirstObject]
    /\ p4objects_rt = p4objects
    /\ swap_ordered = [c \in Contexts |-> FALSE]
    /\ current_config = FirstConfig
    /\ factory = p4objects
    /\ phvs = [c \in Contexts |-> << >>]
    /\ packet = [p \in Packets |-> NoPacket]
    /\ input_buffer = << >>
    /\ working = "none"
    /\ cached = p4objects
    /\ swap_happened = FALSE
    /\ receiver = [pc |-> "idle", cxt |-> 0]
    /\ client = [t \in Clients |-> Idle]
    /\ fault = "none"
    /\ serial = 0
    /\ rival = {} /\ overlapped = FALSE /\ moved = FALSE

Running == fault = "none"

-----------------------------------------------------------------------------
\* The clients.  A call visits the contexts in order and stops at an error.

Call(t, op, config) ==
    /\ Running /\ client[t] = Idle
    /\ client' = [client EXCEPT ![t] = [op |-> op, cxt |-> 1, config |-> config]]
    /\ rival' = rival \ {t}
    /\ UNCHANGED <<objects, pools, traffic, swap_happened, receiver, fault, serial,
                   overlapped, moved>>

Return(t) == client' = [client EXCEPT ![t] = Idle]
NextContext(t) == client' = [client EXCEPT ![t].cxt = @ + 1]

\* Context::load_new_config: refused while a loaded configuration is not in use.
load_new_config(t) ==
    LET c == client[t].cxt IN
    /\ Running /\ client[t].op = "load" /\ c \in Contexts
    /\ \/ /\ p4objects[c] # p4objects_rt[c] \* ONGOING_SWAP
          /\ Return(t)
          /\ UNCHANGED <<p4objects_rt, serial>>
       \/ /\ p4objects[c] = p4objects_rt[c]
          /\ serial < MaxLoads * NbCxts
          /\ serial' = serial + 1
          /\ p4objects_rt' = [p4objects_rt EXCEPT ![c] =
                                  [config |-> client[t].config, serial |-> serial + 1]]
          /\ NextContext(t)
    /\ UNCHANGED <<p4objects, swap_ordered, current_config, pools, traffic,
                   swap_happened, receiver, fault, history>>

\* The end of SwitchWContexts::load_new_config.
RecordConfig(t) ==
    /\ Running /\ client[t].op = "load" /\ client[t].cxt > NbCxts
    /\ current_config' = client[t].config
    /\ Return(t)
    /\ overlapped' = (overlapped \/ t \in rival)
    /\ rival' = {u \in Clients \ {t} : client[u].op = "load"} \cup rival
    /\ UNCHANGED <<p4objects, p4objects_rt, swap_ordered, pools, traffic,
                   swap_happened, receiver, fault, serial, moved>>

\* Context::swap_configs, and the end of SwitchWContexts::swap_configs.
swap_configs(t) ==
    LET c == client[t].cxt IN
    /\ Running /\ client[t].op = "swap"
    /\ \/ c > NbCxts /\ Return(t) /\ UNCHANGED swap_ordered
       \/ /\ c \in Contexts /\ p4objects[c] = p4objects_rt[c] \* NO_ONGOING_SWAP
          /\ Return(t)
          /\ UNCHANGED swap_ordered
       \/ /\ c \in Contexts /\ p4objects[c] # p4objects_rt[c]
          /\ swap_ordered' = [swap_ordered EXCEPT ![c] = TRUE]
          /\ NextContext(t)
    /\ UNCHANGED <<p4objects, p4objects_rt, current_config, pools, traffic,
                   swap_happened, receiver, fault, serial, history>>

-----------------------------------------------------------------------------
\* The pools of PHVs.  get takes a free PHV, or has the factory make one.

PhvFor(c) == IF phvs[c] = << >> THEN factory[c] ELSE Last(phvs[c])
Taken(pool, c) == [pool EXCEPT ![c] = IF @ = << >> THEN @ ELSE Front(@)]
Given(pool, c, phv) == [pool EXCEPT ![c] = Append(@, phv)]

set_phv_factory(c) ==
    /\ factory' = [factory EXCEPT ![c] = p4objects[c]]
    /\ phvs' = [phvs EXCEPT ![c] = << >>]

-----------------------------------------------------------------------------
\* The thread that receives packets: SwitchWContexts::do_swap, then a new packet.

Go(pc, c) == receiver' = [pc |-> pc, cxt |-> c]

Receive ==
    /\ Running /\ receiver.pc = "idle"
    /\ IF \E c \in Contexts : swap_ordered[c] THEN Go("loop", 1) ELSE Go("create", 0)
    /\ UNCHANGED <<objects, pools, traffic, swap_happened, client, fault, serial,
                   history>>

\* Mutant: nobody waits for the packets to be gone.
SpinNot ==
    /\ Running /\ receiver.pc = "loop" /\ receiver.cxt \in Contexts
    /\ IF swap_ordered[receiver.cxt] THEN Go("spun", receiver.cxt)
       ELSE Go("loop", receiver.cxt + 1)
    /\ UNCHANGED <<objects, pools, traffic, swap_happened, client, fault, serial,
                   history>>

\* A context with nothing ordered is skipped; otherwise spin on phvs_in_use.
Spin ==
    /\ Running /\ receiver.pc = "loop" /\ receiver.cxt \in Contexts
    /\ \/ ~swap_ordered[receiver.cxt] /\ Go("loop", receiver.cxt + 1)
       \/ /\ swap_ordered[receiver.cxt] /\ phvs_in_use(receiver.cxt) = 0
          /\ Go("spun", receiver.cxt)
    /\ UNCHANGED <<objects, pools, traffic, swap_happened, client, fault, serial,
                   history>>

\* Context::do_swap.
do_swap ==
    LET c == receiver.cxt IN
    /\ Running /\ receiver.pc = "spun"
    /\ p4objects' = [p4objects EXCEPT ![c] = p4objects_rt[c]]
    /\ swap_ordered' = [swap_ordered EXCEPT ![c] = FALSE]
    /\ Go("swapped", c)
    /\ UNCHANGED <<p4objects_rt, current_config, pools, traffic, swap_happened,
                   client, fault, serial, history>>

\* PHVPool::set_phv_factory, with its assert(count == 0).
InstallFactory ==
    LET c == receiver.cxt IN
    /\ Running /\ receiver.pc = "swapped"
    /\ \/ /\ phvs_in_use(c) > 0
          /\ fault' = "set_phv_factory: count == 0"
          /\ UNCHANGED <<pools, receiver>>
       \/ /\ phvs_in_use(c) = 0
          /\ set_phv_factory(c)
          /\ Go("loop", c + 1)
          /\ UNCHANGED fault
    /\ UNCHANGED <<objects, traffic, swap_happened, client, serial, history>>

\* do_swap returns 0: it was entered because a swap was requested, and only this
\* thread takes requests down.  The target notes that a swap took place.
SwapDone ==
    /\ Running /\ receiver.pc = "loop" /\ receiver.cxt > NbCxts
    /\ swap_happened' = TRUE
    /\ Go("create", 0)
    /\ UNCHANGED <<objects, pools, traffic, client, fault, serial, history>>

new_packet(p, c) ==
    /\ Running /\ receiver.pc = "create" /\ p \notin Live
    /\ packet' = [packet EXCEPT ![p] = [cxt |-> c, phv |-> PhvFor(c), copies |-> 0]]
    /\ phvs' = Taken(phvs, c)
    /\ input_buffer' = Append(input_buffer, p)
    /\ Go("idle", 0)
    /\ UNCHANGED <<objects, factory, working, cached, swap_happened, client, fault,
                   serial, history>>

-----------------------------------------------------------------------------
\* The pipeline thread.

\* Mutant: the pointers are not refreshed.
Refreshed_not == cached

\* The pointers to parser and pipelines are refreshed after a swap.
Refreshed == IF swap_happened THEN p4objects ELSE cached

pipeline_thread ==
    /\ Running /\ working = "none" /\ input_buffer # << >>
    /\ working' = Head(input_buffer)
    /\ input_buffer' = Tail(input_buffer)
    /\ cached' = Refreshed
    /\ swap_happened' = FALSE
    /\ UNCHANGED <<objects, pools, packet, receiver, client, fault, serial, history>>

\* do_swap is at work, and past the spinning on this context.
SeenEmpty(c) ==
    \/ receiver.pc \in {"spun", "swapped"} /\ c <= receiver.cxt
    \/ receiver.pc = "loop" /\ c < receiver.cxt

\* clone_with_phv, clone_no_phv and clone_choose_context; the clone is processed later.
clone(q, c) ==
    LET p == working IN
    /\ Running /\ p \in Live /\ q \notin Live
    /\ packet[p].copies < MaxCopies
    /\ c # packet[p].cxt => Moves
    /\ packet' = [packet EXCEPT
                    ![q] = [cxt |-> c, phv |-> PhvFor(c), copies |-> packet[p].copies + 1],
                    ![p].copies = @ + 1]
    /\ phvs' = Taken(phvs, c)
    /\ input_buffer' = Append(input_buffer, q)
    /\ moved' = (moved \/ (c # packet[p].cxt /\ SeenEmpty(c)))
    /\ UNCHANGED <<objects, factory, working, cached, swap_happened, receiver, client,
                   fault, serial, rival, overlapped>>

change_context(c) ==
    LET p == working
        old == packet[p].cxt
    IN
    /\ Running /\ Moves /\ p \in Live /\ c # old
    /\ packet[p].copies < MaxCopies
    /\ phvs' = Taken(Given(phvs, old, packet[p].phv), c)
    /\ packet' = [packet EXCEPT ![p] = [cxt |-> c, phv |-> PhvFor(c),
                                        copies |-> @.copies + 1]]
    /\ moved' = (moved \/ SeenEmpty(c))
    /\ UNCHANGED <<objects, factory, input_buffer, working, cached, swap_happened,
                   receiver, client, fault, serial, rival, overlapped>>

\* ~Packet: the PHV goes back to the pool of the packet's context.
destroy ==
    LET p == working IN
    /\ Running /\ p \in Live
    /\ phvs' = Given(phvs, packet[p].cxt, packet[p].phv)
    /\ packet' = [packet EXCEPT ![p] = NoPacket]
    /\ working' = "none"
    /\ UNCHANGED <<objects, factory, input_buffer, cached, swap_happened, receiver,
                   client, fault, serial, history>>

Next ==
    \/ \E t \in Clients, config \in Configs : Call(t, "load", config)
    \/ \E t \in Clients : Call(t, "swap", FirstConfig)
    \/ \E t \in Clients : load_new_config(t)
    \/ \E t \in Clients : RecordConfig(t)
    \/ \E t \in Clients : swap_configs(t)
    \/ Receive \/ Spin \/ do_swap \/ InstallFactory \/ SwapDone
    \/ \E p \in Packets, c \in Contexts : new_packet(p, c)
    \/ pipeline_thread
    \/ \E q \in Packets, c \in Contexts : clone(q, c)
    \/ \E c \in Contexts : change_context(c)
    \/ destroy

\* Packets keep arriving, and both threads keep working.  Clients need not call.
Fairness ==
    /\ WF_vars(Receive) /\ WF_vars(Spin) /\ WF_vars(do_swap)
    /\ WF_vars(InstallFactory) /\ WF_vars(SwapDone)
    /\ WF_vars(\E p \in Packets, c \in Contexts : new_packet(p, c))
    /\ WF_vars(pipeline_thread) /\ WF_vars(destroy)

Spec == Init /\ [][Next]_vars /\ Fairness

-----------------------------------------------------------------------------
\* Properties.

\* The variables have the types of the members they stand for.
TypeOK ==
    /\ p4objects \in [Contexts -> Object] /\ p4objects_rt \in [Contexts -> Object]
    /\ swap_ordered \in [Contexts -> BOOLEAN]
    /\ factory \in [Contexts -> Object] /\ phvs \in [Contexts -> Seq(Object)]
    /\ packet \in [Packets -> [cxt : 0 .. NbCxts, phv : Object, copies : Nat]]
    /\ \A p \in Live : packet[p].cxt \in Contexts
    /\ input_buffer \in Seq(Packets)
    /\ working \in Packets \cup {"none"}
    /\ cached \in [Contexts -> Object]
    /\ receiver \in [pc : {"idle", "loop", "spun", "swapped", "create"},
                     cxt : 0 .. NbCxts + 1]
    /\ receiver.pc = "loop" => receiver.cxt > 0
    /\ receiver.pc \in {"spun", "swapped"} => receiver.cxt \in Contexts
    /\ client \in [Clients -> [op : {"none", "load", "swap"}, cxt : 0 .. NbCxts + 1,
                               config : Configs \cup {FirstConfig}]]
    /\ serial \in Serials
    /\ moved \in BOOLEAN /\ swap_happened \in BOOLEAN

\* The PHVs that the pool of context c has, or would make, are of the objects in use.
PoolFits(c) == factory[c] = p4objects[c] /\ Range(phvs[c]) \subseteq {p4objects[c]}

\* A packet never meets another configuration than the one its headers were laid
\* out for: its PHV was made by the objects its context uses, as long as no packet
\* came from another context to one that do_swap had seen empty.
\* Free PHVs, too, are of the configuration in use, but for the moment between the
\* replacement of the objects and of the factory.
PhvFitsConfig ==
    ~moved =>
        /\ \A p \in Live : packet[p].phv = p4objects[packet[p].cxt]
        /\ \A c \in Contexts :
              ~(receiver.pc = "swapped" /\ receiver.cxt = c) =>
                  PoolFits(c)

\* The pipeline thread never starts on a packet with pointers into objects of the
\* packet's context that were replaced.
CachedPointersFresh ==
    [][pipeline_thread /\ ~moved =>
         LET c == packet[working'].cxt IN cached'[c] = p4objects[c]]_vars

\* assert(count == 0) of PHVPool::set_phv_factory, and what do_swap says of itself:
\* no packet is created while it works.
PoolIsEmpty == fault # "set_phv_factory: count == 0"

\* A comment of load_new_config: the second of two overlapping loads is refused.
OverlappingLoadRefused == ~overlapped

\* A comment of load_new_config: a swap is done switch-wide.
SwapIsSwitchWide ==
    receiver.pc = "create" =>
        \A c, d \in Contexts : p4objects[c].config = p4objects[d].config
=============================================================================
