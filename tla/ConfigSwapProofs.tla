-------------------------- MODULE ConfigSwapProofs --------------------------
(***************************************************************************)
(* Proofs about ConfigSwap, for any number of contexts, configurations,    *)
(* clients and packets.                                                    *)
(***************************************************************************)
EXTENDS ConfigSwap, FiniteSetTheorems, TLAPS

\* What do_swap has waited for stays true until it is done with the context: no
\* packet is there, unless one came from another context.
SpunIsEmpty ==
    ~moved /\ receiver.pc \in {"spun", "swapped"} =>
        \A p \in Live : packet[p].cxt # receiver.cxt

\* The pipeline thread works on a packet that lives; the input buffer holds packets
\* that live, each once, and not that one.
BufferHoldsPackets ==
    /\ working \in Live \cup {"none"}
    /\ \A i \in 1 .. Len(input_buffer) :
          input_buffer[i] \in Live /\ input_buffer[i] # working
    /\ \A i, j \in 1 .. Len(input_buffer) :
          input_buffer[i] = input_buffer[j] => i = j

\* The pipeline thread's pointers into context c are good, or will be refreshed
\* before it starts on its next packet.
CacheGood(c) == swap_happened \/ cached[c] = p4objects[c]

\* They are good but for contexts do_swap is past, and these have no packets.
CacheAccounted ==
    /\ \A c \in Contexts : SeenEmpty(c) \/ CacheGood(c)
    /\ ~moved => \A p \in Live : CacheGood(packet[p].cxt)

SwapInv ==
    TypeOK /\ SpunIsEmpty /\ PhvFitsConfig /\ BufferHoldsPackets /\ CacheAccounted

-----------------------------------------------------------------------------
\* Objects and pools.

\* The switch starts with an object like any other.
LEMMA FirstIsObject == FirstObject \in Object /\ 0 \in Serials
<1>1. MaxLoads * NbCxts \in Nat
    BY SwapAssumption
<1> QED
    BY <1>1 DEF FirstObject, Object, Serials

\* PHVPool::get: the PHV comes from the factory or was free, and the PHVs that stay
\* free were free before.
LEMMA TakePhv ==
    ASSUME NEW pool \in [Contexts -> Seq(Object)], NEW c \in Contexts
    PROVE  /\ Taken(pool, c) \in [Contexts -> Seq(Object)]
           /\ \A d \in Contexts : Range(Taken(pool, c)[d]) \subseteq Range(pool[d])
           /\ pool[c] # << >> => /\ Last(pool[c]) \in Object
                                 /\ Last(pool[c]) \in Range(pool[c])
<1> DEFINE q == pool[c]
<1>1. q \in Seq(Object)
    OBVIOUS
<1>2. ASSUME q # << >>
      PROVE  /\ Front(q) \in Seq(Object)
             /\ Range(Front(q)) \subseteq Range(q)
             /\ Last(q) \in Object /\ Last(q) \in Range(q)
    <2> HIDE DEF q
    <2>1. Len(q) \in Nat \ {0} /\ DOMAIN q = 1 .. Len(q)
        BY <1>1, <1>2
    <2>2. Front(q) \in Seq(Object) /\ Range(Front(q)) \subseteq Range(q)
        BY <1>1, <2>1 DEF Front, Range
    <2>3. Last(q) = q[Len(q)] /\ Len(q) \in DOMAIN q
        BY <2>1 DEF Last
    <2>4. Last(q) \in Range(q) /\ Last(q) \in Object
        BY <1>1, <2>1, <2>3 DEF Range
    <2> QED
        BY <2>2, <2>4
<1>3. /\ Taken(pool, c)[c] = IF q = << >> THEN q ELSE Front(q)
      /\ \A d \in Contexts : d # c => Taken(pool, c)[d] = pool[d]
      /\ DOMAIN Taken(pool, c) = Contexts
      /\ Taken(pool, c) = [d \in Contexts |-> Taken(pool, c)[d]]
    BY DEF Taken
<1> HIDE DEF q
<1>4. \A d \in Contexts : /\ Taken(pool, c)[d] \in Seq(Object)
                          /\ Range(Taken(pool, c)[d]) \subseteq Range(pool[d])
    BY <1>1, <1>2, <1>3 DEF q
<1> QED
    BY <1>2, <1>3, <1>4 DEF q

\* PHVPool::release: the PHV is free from now on.
LEMMA GivePhv ==
    ASSUME NEW pool \in [Contexts -> Seq(Object)], NEW c \in Contexts,
           NEW phv \in Object
    PROVE  /\ Given(pool, c, phv) \in [Contexts -> Seq(Object)]
           /\ Range(Given(pool, c, phv)[c]) \subseteq Range(pool[c]) \cup {phv}
           /\ \A d \in Contexts \ {c} : Given(pool, c, phv)[d] = pool[d]
<1>1. /\ Given(pool, c, phv)[c] = Append(pool[c], phv)
      /\ \A d \in Contexts \ {c} : Given(pool, c, phv)[d] = pool[d]
      /\ Given(pool, c, phv) \in [Contexts -> Seq(Object)]
    BY DEF Given
<1>2. pool[c] \in Seq(Object)
    OBVIOUS
<1>3. Range(Append(pool[c], phv)) \subseteq Range(pool[c]) \cup {phv}
    BY <1>2 DEF Range
<1> QED
    BY <1>1, <1>3

\* phvs_in_use of a context is 0 exactly when no packet is there.
LEMMA NoneInUse ==
    ASSUME NEW c
    PROVE  /\ phvs_in_use(c) \in Nat
           /\ phvs_in_use(c) = 0 <=> \A p \in Live : packet[p].cxt # c
<1> DEFINE S == {p \in Live : packet[p].cxt = c}
<1>1. IsFiniteSet(S)
    <2>1. S \subseteq Packets
        BY DEF Live
    <2> QED
        BY <2>1, FS_Subset, SwapAssumption
<1>2. Cardinality(S) \in Nat /\ (Cardinality(S) = 0 <=> S = {})
    BY <1>1, FS_EmptySet, FS_CardinalityType
<1> QED
    BY <1>2 DEF phvs_in_use

-----------------------------------------------------------------------------
\* The inductive invariant.

\* The constructors leave one object in use everywhere, and no packet.
LEMMA InitSwapInv == Init => SwapInv
<1> SUFFICES ASSUME Init PROVE SwapInv
    OBVIOUS
<1>1. Live = {}
    BY DEF Init, Live
<1>2. TypeOK
    <2>1. /\ p4objects \in [Contexts -> Object] /\ p4objects_rt \in [Contexts -> Object]
          /\ factory \in [Contexts -> Object] /\ cached \in [Contexts -> Object]
          /\ swap_ordered \in [Contexts -> BOOLEAN]
          /\ phvs \in [Contexts -> Seq(Object)]
        BY FirstIsObject DEF Init
    <2>2. packet \in [Packets -> [cxt : 0 .. NbCxts, phv : Object, copies : Nat]]
        BY FirstIsObject, SwapAssumption DEF Init, NoPacket
    <2>3. client \in [Clients -> [op : {"none", "load", "swap"}, cxt : 0 .. NbCxts + 1,
                                 config : Configs \cup {FirstConfig}]]
        BY SwapAssumption DEF Init, Idle
    <2>4. /\ receiver \in [pc : {"idle", "loop", "spun", "swapped", "create"},
                           cxt : 0 .. NbCxts + 1]
          /\ receiver.pc = "idle"
        BY SwapAssumption DEF Init
    <2>5. serial \in Serials /\ input_buffer \in Seq(Packets)
        BY FirstIsObject DEF Init
    <2> QED
        BY <1>1, <2>1, <2>2, <2>3, <2>4, <2>5 DEF Init, TypeOK
<1>3. SpunIsEmpty /\ BufferHoldsPackets
    BY <1>1 DEF Init, SpunIsEmpty, BufferHoldsPackets
<1>4. PhvFitsConfig
    BY <1>1 DEF Init, PhvFitsConfig, PoolFits, Range
<1>5. CacheAccounted
    BY <1>1 DEF Init, CacheAccounted, CacheGood
<1> QED
    BY <1>2, <1>3, <1>4, <1>5 DEF SwapInv

\* What the threads of the RPC server do to a context (a new p4objects_rt, the order
\* to swap) is nothing to the packets.
LEMMA ClientSwapInv ==
    ASSUME SwapInv,
           UNCHANGED <<p4objects, pools, traffic, swap_happened, receiver, moved>>,
           p4objects_rt' \in [Contexts -> Object],
           swap_ordered' \in [Contexts -> BOOLEAN],
           client' \in [Clients -> [op : {"none", "load", "swap"}, cxt : 0 .. NbCxts + 1,
                                   config : Configs \cup {FirstConfig}]],
           serial' \in Serials
    PROVE  SwapInv'
<1>0. /\ UNCHANGED <<p4objects, factory, phvs, packet, input_buffer, working, cached>>
      /\ UNCHANGED <<swap_happened, receiver, moved>>
    BY DEF pools, traffic
<1>1. Live' = Live
    BY <1>0 DEF Live
<1>2. TypeOK'
    BY <1>0, <1>1 DEF SwapInv, TypeOK
<1>3. SpunIsEmpty' /\ BufferHoldsPackets'
    BY <1>0, <1>1 DEF SwapInv, SpunIsEmpty, BufferHoldsPackets
<1>4. PhvFitsConfig'
    <2>1. \A c : PoolFits(c)' <=> PoolFits(c)
        BY <1>0 DEF PoolFits
    <2> QED
        BY <1>0, <1>1, <2>1 DEF SwapInv, PhvFitsConfig
<1>5. CacheAccounted'
    <2>1. \A c : /\ CacheGood(c)' <=> CacheGood(c)
                 /\ SeenEmpty(c)' <=> SeenEmpty(c)
        BY <1>0 DEF CacheGood, SeenEmpty
    <2> QED
        BY <1>0, <1>1, <2>1 DEF SwapInv, CacheAccounted
<1> QED
    BY <1>2, <1>3, <1>4, <1>5 DEF SwapInv

\* The calls of the clients, one visit of a context at a time.
LEMMA CallSwapInv ==
    ASSUME SwapInv, NEW t \in Clients,
           \/ \E config \in Configs : Call(t, "load", config)
           \/ Call(t, "swap", FirstConfig)
           \/ load_new_config(t)
           \/ RecordConfig(t)
           \/ swap_configs(t)
    PROVE  SwapInv'
<1> DEFINE ClientType == [op : {"none", "load", "swap"}, cxt : 0 .. NbCxts + 1,
                          config : Configs \cup {FirstConfig}]
<1> USE SwapAssumption
<1>1. /\ p4objects_rt \in [Contexts -> Object]
      /\ swap_ordered \in [Contexts -> BOOLEAN]
      /\ client \in [Clients -> ClientType]
      /\ serial \in Serials
    BY DEF SwapInv, TypeOK
<1>2. ASSUME NEW config \in Configs \cup {FirstConfig}, NEW op \in {"load", "swap"},
             Call(t, op, config)
      PROVE  SwapInv'
    <2>1. client' \in [Clients -> ClientType]
        <3>1. [op |-> op, cxt |-> 1, config |-> config] \in ClientType
            BY <1>2
        <3> QED
            BY <1>1, <1>2, <3>1 DEF Call
    <2> QED
        BY <1>1, <1>2, <2>1, ClientSwapInv DEF Call, objects
<1>3. Return(t) => client' \in [Clients -> ClientType]
    BY <1>1 DEF Return, Idle
<1>4. NextContext(t) /\ client[t].cxt \in Contexts => client' \in [Clients -> ClientType]
    <2>1. client[t].cxt \in Contexts => client[t].cxt + 1 \in 0 .. NbCxts + 1
        BY DEF Contexts
    <2> QED
        BY <1>1, <2>1 DEF NextContext
<1>5. CASE load_new_config(t)
    <2>1. client' \in [Clients -> ClientType]
        BY <1>3, <1>4, <1>5 DEF load_new_config
    <2>2. serial' \in Serials /\ p4objects_rt' \in [Contexts -> Object]
        <3>1. CASE UNCHANGED <<p4objects_rt, serial>>
            BY <1>1, <3>1
        <3>2. CASE /\ serial < MaxLoads * NbCxts
                   /\ serial' = serial + 1
                   /\ p4objects_rt' = [p4objects_rt EXCEPT ![client[t].cxt] =
                          [config |-> client[t].config, serial |-> serial + 1]]
            <4>1. [config |-> client[t].config, serial |-> serial + 1] \in Object
                <5>1. client[t].config \in Configs \cup {FirstConfig}
                    BY <1>1
                <5>2. serial + 1 \in Serials
                    <6> DEFINE limit == MaxLoads * NbCxts
                    <6>1. serial \in 0 .. limit /\ serial < limit /\ limit \in Nat
                        BY <1>1, <3>2 DEF Serials
                    <6> HIDE DEF limit
                    <6>2. serial + 1 \in 0 .. limit
                        BY <6>1
                    <6> QED
                        BY <6>2 DEF Serials, limit
                <5> QED
                    BY <5>1, <5>2 DEF Object
            <4>2. serial + 1 \in Serials
                BY <4>1 DEF Object
            <4> QED
                BY <1>1, <3>2, <4>1, <4>2
        <3> QED
            BY <1>5, <3>1, <3>2 DEF load_new_config
    <2> QED
        BY <1>1, <1>5, <2>1, <2>2, ClientSwapInv DEF load_new_config, history
<1>6. CASE RecordConfig(t)
    BY <1>1, <1>3, <1>6, ClientSwapInv DEF RecordConfig
<1>7. CASE swap_configs(t)
    <2>1. client' \in [Clients -> ClientType]
        BY <1>3, <1>4, <1>7 DEF swap_configs
    <2>2. swap_ordered' \in [Contexts -> BOOLEAN]
        BY <1>1, <1>7 DEF swap_configs
    <2> QED
        BY <1>1, <1>7, <2>1, <2>2, ClientSwapInv DEF swap_configs, history
<1> QED
    BY <1>2, <1>5, <1>6, <1>7

\* The steps of do_swap and its surroundings.  A context is swapped when it has no
\* packets, so that only free PHVs are of the wrong kind, and these are dropped.
LEMMA ReceiverSwapInv ==
    ASSUME SwapInv,
           Receive \/ Spin \/ do_swap \/ InstallFactory \/ SwapDone
    PROVE  SwapInv'
<1> USE SwapAssumption
<1> DEFINE r == receiver.cxt
<1>1. /\ UNCHANGED <<packet, input_buffer, working, cached, moved, client, serial>>
      /\ UNCHANGED <<p4objects_rt>>
      /\ Live' = Live
    BY DEF Receive, Spin, do_swap, InstallFactory, SwapDone, objects, pools, traffic,
           history, Live
<1>2. BufferHoldsPackets'
    BY <1>1 DEF SwapInv, BufferHoldsPackets
<1>3. ASSUME NEW pc \in {"idle", "loop", "spun", "swapped", "create"},
             NEW c \in 0 .. NbCxts + 1, Go(pc, c)
      PROVE  /\ receiver' \in [pc : {"idle", "loop", "spun", "swapped", "create"},
                               cxt : 0 .. NbCxts + 1]
             /\ receiver'.pc = pc /\ receiver'.cxt = c
    BY <1>3 DEF Go
<1>4. CASE Receive
    <2>1. /\ UNCHANGED <<p4objects, swap_ordered, factory, phvs, swap_happened>>
          /\ receiver.pc = "idle"
          /\ Go("loop", 1) \/ Go("create", 0)
        BY <1>4 DEF Receive, objects, pools
    <2>2. TypeOK'
        BY <1>1, <1>3, <2>1 DEF SwapInv, TypeOK
    <2>3. SpunIsEmpty'
        BY <1>3, <2>1 DEF SpunIsEmpty
    <2>4. PhvFitsConfig'
        <3>1. \A c : PoolFits(c)' <=> PoolFits(c)
            BY <2>1 DEF PoolFits
        <3> QED
            BY <1>1, <2>1, <3>1 DEF SwapInv, PhvFitsConfig
    <2>5. CacheAccounted'
        <3>1. \A c : CacheGood(c)' <=> CacheGood(c)
            BY <1>1, <2>1 DEF CacheGood
        <3>2. \A c \in Contexts : ~SeenEmpty(c)
            BY <2>1 DEF SeenEmpty
        <3> QED
            BY <1>1, <3>1, <3>2 DEF SwapInv, CacheAccounted
    <2> QED
        BY <1>2, <2>2, <2>3, <2>4, <2>5 DEF SwapInv
<1>5. CASE Spin
    <2>1. /\ UNCHANGED <<p4objects, swap_ordered, factory, phvs, swap_happened>>
          /\ receiver.pc = "loop" /\ r \in Contexts
          /\ \/ Go("loop", r + 1)
             \/ phvs_in_use(r) = 0 /\ Go("spun", r)
        BY <1>5 DEF Spin, objects, pools
    <2>2. r \in 0 .. NbCxts + 1 /\ r + 1 \in 0 .. NbCxts + 1 /\ r > 0
        BY <2>1 DEF Contexts
    <2>3. TypeOK'
        BY <1>1, <1>3, <2>1, <2>2 DEF SwapInv, TypeOK
    <2>4. SpunIsEmpty'
        BY <1>1, <1>3, <2>1, <2>2, NoneInUse DEF SpunIsEmpty
    <2>5. PhvFitsConfig'
        <3>1. \A c : PoolFits(c)' <=> PoolFits(c)
            BY <2>1 DEF PoolFits
        <3> QED
            BY <1>1, <2>1, <3>1 DEF SwapInv, PhvFitsConfig
    <2>6. CacheAccounted'
        <3>1. \A c : CacheGood(c)' <=> CacheGood(c)
            BY <1>1, <2>1 DEF CacheGood
        <3>2. \A c \in Contexts : SeenEmpty(c) => SeenEmpty(c)'
            BY <1>3, <2>1, <2>2 DEF SeenEmpty, Contexts
        <3> QED
            BY <1>1, <3>1, <3>2 DEF SwapInv, CacheAccounted
    <2> QED
        BY <1>2, <2>3, <2>4, <2>5, <2>6 DEF SwapInv
<1>6. CASE do_swap
    <2>1. /\ UNCHANGED <<factory, phvs, swap_happened>>
          /\ receiver.pc = "spun" /\ r \in Contexts
          /\ Go("swapped", r)
          /\ p4objects' = [p4objects EXCEPT ![r] = p4objects_rt[r]]
          /\ swap_ordered' = [swap_ordered EXCEPT ![r] = FALSE]
        BY <1>6 DEF do_swap, pools, SwapInv, TypeOK
    <2>2. r \in 0 .. NbCxts + 1 /\ r > 0
        BY <2>1 DEF Contexts
    <2>3. receiver'.pc = "swapped" /\ receiver'.cxt = r
        BY <1>3, <2>1, <2>2
    <2>4. TypeOK'
        BY <1>1, <1>3, <2>1, <2>2 DEF SwapInv, TypeOK
    <2>5. ~moved => \A p \in Live : packet[p].cxt \in Contexts \ {r}
        BY <2>1 DEF SwapInv, SpunIsEmpty, TypeOK
    <2>6. \A c \in Contexts \ {r} : p4objects'[c] = p4objects[c]
        BY <2>1 DEF SwapInv, TypeOK
    <2>7. SpunIsEmpty'
        BY <1>1, <2>3, <2>5 DEF SpunIsEmpty
    <2>8. PhvFitsConfig'
        <3>1. \A c \in Contexts \ {r} : PoolFits(c)' <=> PoolFits(c)
            BY <2>1, <2>6 DEF PoolFits
        <3>2. ~moved => \A p \in Live : packet[p].phv = p4objects'[packet[p].cxt]
            BY <2>5, <2>6 DEF SwapInv, PhvFitsConfig
        <3> QED
            BY <1>1, <2>1, <2>3, <3>1, <3>2 DEF SwapInv, PhvFitsConfig
    <2>9. CacheAccounted'
        <3>1. \A c \in Contexts \ {r} : CacheGood(c)' <=> CacheGood(c)
            BY <1>1, <2>1, <2>6 DEF CacheGood
        <3>2. \A c \in Contexts : SeenEmpty(c)' <=> SeenEmpty(c)
            BY <2>1, <2>3 DEF SeenEmpty
        <3>3. SeenEmpty(r)
            BY <2>1, <2>2 DEF SeenEmpty
        <3> QED
            BY <1>1, <2>1, <2>5, <3>1, <3>2, <3>3 DEF SwapInv, CacheAccounted
    <2> QED
        BY <1>2, <2>4, <2>7, <2>8, <2>9 DEF SwapInv
<1>7. CASE InstallFactory
    <2>1. /\ UNCHANGED <<p4objects, swap_ordered, swap_happened>>
          /\ receiver.pc = "swapped" /\ r \in Contexts
          /\ \/ UNCHANGED <<factory, phvs, receiver>>
             \/ set_phv_factory(r) /\ Go("loop", r + 1)
        BY <1>7 DEF InstallFactory, objects, pools, SwapInv, TypeOK
    <2>2. r \in 0 .. NbCxts + 1 /\ r + 1 \in 0 .. NbCxts + 1 /\ r > 0
        BY <2>1 DEF Contexts
    <2>3. TypeOK'
        <3>1. factory' \in [Contexts -> Object] /\ phvs' \in [Contexts -> Seq(Object)]
            <4>1. factory \in [Contexts -> Object] /\ phvs \in [Contexts -> Seq(Object)]
                  /\ p4objects[r] \in Object /\ << >> \in Seq(Object)
                BY <2>1 DEF SwapInv, TypeOK
            <4>2. set_phv_factory(r) => /\ factory' \in [Contexts -> Object]
                                        /\ phvs' \in [Contexts -> Seq(Object)]
                BY <4>1 DEF set_phv_factory
            <4> QED
                BY <2>1, <4>1, <4>2
        <3>2. /\ receiver' \in [pc : {"idle", "loop", "spun", "swapped", "create"},
                                cxt : 0 .. NbCxts + 1]
              /\ receiver'.pc = "loop" => receiver'.cxt > 0
              /\ receiver'.pc \in {"spun", "swapped"} => receiver'.cxt \in Contexts
            BY <1>3, <2>1, <2>2 DEF SwapInv, TypeOK
        <3> QED
            BY <1>1, <2>1, <3>1, <3>2 DEF SwapInv, TypeOK
    <2>4. SpunIsEmpty'
        BY <1>1, <1>3, <2>1, <2>2 DEF SwapInv, SpunIsEmpty
    <2>5. PhvFitsConfig'
        <3>1. CASE UNCHANGED <<factory, phvs, receiver>>
            <4>1. \A c : PoolFits(c)' <=> PoolFits(c)
                BY <2>1, <3>1 DEF PoolFits
            <4> QED
                BY <1>1, <2>1, <3>1, <4>1 DEF SwapInv, PhvFitsConfig
        <3>2. CASE set_phv_factory(r) /\ Go("loop", r + 1)
            <4>1. factory'[r] = p4objects[r] /\ phvs'[r] = << >>
                BY <2>1, <3>2 DEF set_phv_factory, SwapInv, TypeOK
            <4>2. \A c \in Contexts \ {r} : factory'[c] = factory[c] /\ phvs'[c] = phvs[c]
                BY <2>1, <3>2 DEF set_phv_factory, SwapInv, TypeOK
            <4>3. \A c \in {r} : PoolFits(c)'
                BY <2>1, <4>1 DEF PoolFits, Range
            <4>4. \A c \in Contexts \ {r} : PoolFits(c)' <=> PoolFits(c)
                BY <2>1, <4>2 DEF PoolFits
            <4> QED
                BY <1>1, <2>1, <4>3, <4>4 DEF SwapInv, PhvFitsConfig
        <3> QED
            BY <2>1, <3>1, <3>2
    <2>6. CacheAccounted'
        <3>1. \A c : CacheGood(c)' <=> CacheGood(c)
            BY <1>1, <2>1 DEF CacheGood
        <3>2. \A c \in Contexts : SeenEmpty(c) => SeenEmpty(c)'
            BY <1>3, <2>1, <2>2 DEF SeenEmpty, Contexts
        <3> QED
            BY <1>1, <3>1, <3>2 DEF SwapInv, CacheAccounted
    <2> QED
        BY <1>2, <2>3, <2>4, <2>5, <2>6 DEF SwapInv
<1>8. CASE SwapDone
    <2>1. /\ UNCHANGED <<p4objects, swap_ordered, factory, phvs>>
          /\ receiver.pc = "loop"
          /\ swap_happened' = TRUE /\ Go("create", 0)
        BY <1>8 DEF SwapDone, objects, pools
    <2>2. TypeOK'
        BY <1>1, <1>3, <2>1 DEF SwapInv, TypeOK
    <2>3. SpunIsEmpty'
        BY <1>3, <2>1 DEF SpunIsEmpty
    <2>4. PhvFitsConfig'
        <3>1. \A c : PoolFits(c)' <=> PoolFits(c)
            BY <2>1 DEF PoolFits
        <3> QED
            BY <1>1, <2>1, <3>1 DEF SwapInv, PhvFitsConfig
    <2>5. CacheAccounted'
        BY <2>1 DEF CacheAccounted, CacheGood
    <2> QED
        BY <1>2, <2>2, <2>3, <2>4, <2>5 DEF SwapInv
<1> QED
    BY <1>4, <1>5, <1>6, <1>7, <1>8

\* PHVPool::get gives a PHV of the configuration in use, except while the objects of
\* the context are replaced already and the factory of its pool is not.
LEMMA FreshPhv ==
    ASSUME SwapInv, NEW c \in Contexts
    PROVE  /\ PhvFor(c) \in Object
           /\ ~moved /\ ~(receiver.pc = "swapped" /\ receiver.cxt = c) =>
                 PhvFor(c) = p4objects[c]
<1>1. phvs \in [Contexts -> Seq(Object)] /\ factory \in [Contexts -> Object]
    BY DEF SwapInv, TypeOK
<1>2. phvs[c] # << >> => Last(phvs[c]) \in Object /\ Last(phvs[c]) \in Range(phvs[c])
    BY <1>1, TakePhv
<1>3. ~moved /\ ~(receiver.pc = "swapped" /\ receiver.cxt = c) => PoolFits(c)
    BY DEF SwapInv, PhvFitsConfig
<1> QED
    BY <1>1, <1>2, <1>3 DEF PhvFor, PoolFits

\* A packet enters context c, as a new packet, as a clone or from another context; the
\* PHVs that are free in pool are the ones that were, and maybe its own old one.
PacketEnters(p, c) ==
    /\ packet' \in [Packets -> [cxt : 0 .. NbCxts, phv : Object, copies : Nat]]
    /\ packet'[p].cxt = c /\ packet'[p].phv = PhvFor(c)
    /\ \A y \in Packets \ {p} : /\ packet'[y].cxt = packet[y].cxt
                                /\ packet'[y].phv = packet[y].phv
                                /\ y \notin Live => packet'[y] = packet[y]
    /\ \/ p \in Live /\ input_buffer' = input_buffer
       \/ p \notin Live /\ input_buffer' = Append(input_buffer, p) /\ p # working
    /\ UNCHANGED <<objects, factory, working, cached, swap_happened, client, serial>>

PhvTaken(pool, c) ==
    /\ pool \in [Contexts -> Seq(Object)]
    /\ phvs' = Taken(pool, c)
    /\ \A d \in Contexts : \A x \in Range(pool[d]) :
          \/ x \in Range(phvs[d])
          \/ \E y \in Live : packet[y].cxt = d /\ packet[y].phv = x

EntryAccounted(c) ==
    /\ moved' \in BOOLEAN
    /\ ~moved' => ~moved /\ (~SeenEmpty(c) \/ \E y \in Live : packet[y].cxt = c)
    /\ \/ receiver' = receiver
       \/ receiver.pc = "create" /\ Go("idle", 0)

\* Nothing is wrong with a packet that enters context c as long as do_swap was not
\* past c, or a packet was there.
LEMMA EnterSwapInv ==
    ASSUME SwapInv, NEW p \in Packets, NEW c \in Contexts, NEW pool,
           PacketEnters(p, c), PhvTaken(pool, c), EntryAccounted(c)
    PROVE  SwapInv'
<1> USE SwapAssumption
<1>0. /\ UNCHANGED <<p4objects, p4objects_rt, swap_ordered, factory, working, cached>>
      /\ UNCHANGED <<swap_happened, client, serial>>
      /\ p4objects \in [Contexts -> Object]
      /\ packet \in [Packets -> [cxt : 0 .. NbCxts, phv : Object, copies : Nat]]
      /\ \A y \in Live : packet[y].cxt \in Contexts
      /\ c \in 0 .. NbCxts /\ c # 0
    BY DEF objects, SwapInv, TypeOK, Contexts, PacketEnters
<1>0a. /\ packet' \in [Packets -> [cxt : 0 .. NbCxts, phv : Object, copies : Nat]]
       /\ packet'[p].cxt = c /\ packet'[p].phv = PhvFor(c)
       /\ \A y \in Packets \ {p} : /\ packet'[y].cxt = packet[y].cxt
                                   /\ packet'[y].phv = packet[y].phv
                                   /\ y \notin Live => packet'[y] = packet[y]
    BY DEF PacketEnters
<1>1. Live' = Live \cup {p}
    <2>1. \A y \in Packets : packet'[y].cxt \in Contexts => packet'[y] # NoPacket
        BY <1>0a DEF NoPacket, Contexts
    <2>2. p \in Live'
        BY <1>0a, <2>1 DEF Live
    <2>3. \A y \in Packets \ {p} : y \in Live' <=> y \in Live
        BY <1>0, <1>0a, <2>1 DEF Live
    <2> QED
        BY <2>2, <2>3 DEF Live
<1>2. \A y \in Live' : packet'[y].cxt \in Contexts
    BY <1>0, <1>0a, <1>1 DEF Live
<1>3. /\ receiver' \in [pc : {"idle", "loop", "spun", "swapped", "create"},
                        cxt : 0 .. NbCxts + 1]
      /\ receiver' = receiver \/ receiver'.pc = "idle"
      /\ receiver'.pc = "loop" => receiver'.cxt > 0
      /\ receiver'.pc \in {"spun", "swapped"} => receiver'.cxt \in Contexts
    BY DEF SwapInv, TypeOK, Go, EntryAccounted
<1>4. TypeOK'
    <2>1. phvs' \in [Contexts -> Seq(Object)]
        BY TakePhv DEF PhvTaken
    <2>2. input_buffer' \in Seq(Packets)
        <3>1. input_buffer \in Seq(Packets)
            BY DEF SwapInv, TypeOK
        <3>2. input_buffer' = input_buffer \/ input_buffer' = Append(input_buffer, p)
            BY DEF PacketEnters
        <3> QED
            BY <3>1, <3>2
    <2>3. moved' \in BOOLEAN
        BY DEF EntryAccounted
    <2> QED
        BY <1>0, <1>0a, <1>2, <1>3, <2>1, <2>2, <2>3 DEF SwapInv, TypeOK
<1>5. ~moved' => ~(receiver.pc \in {"spun", "swapped"} /\ receiver.cxt = c)
    <2>1. receiver.pc \in {"spun", "swapped"} /\ receiver.cxt = c => SeenEmpty(c)
        BY DEF SeenEmpty, Contexts
    <2> QED
        BY <2>1 DEF SwapInv, SpunIsEmpty, EntryAccounted
<1>6. SpunIsEmpty'
    <2> SUFFICES ASSUME ~moved', receiver'.pc \in {"spun", "swapped"}, NEW y \in Live'
                 PROVE  packet'[y].cxt # receiver'.cxt
        BY DEF SpunIsEmpty
    <2>1. receiver' = receiver /\ ~moved
        BY <1>3 DEF EntryAccounted
    <2>2. CASE y = p
        BY <1>0a, <1>5, <2>1, <2>2
    <2>3. CASE y # p
        BY <1>0a, <1>1, <2>1, <2>3 DEF SwapInv, SpunIsEmpty, Live
    <2> QED
        BY <2>2, <2>3
<1>7. PhvFitsConfig'
    <2> SUFFICES ASSUME ~moved'
                 PROVE  /\ \A y \in Live' : packet'[y].phv = p4objects[packet'[y].cxt]
                        /\ \A d \in Contexts :
                              ~(receiver'.pc = "swapped" /\ receiver'.cxt = d) => PoolFits(d)'
        BY <1>0 DEF PhvFitsConfig
    <2>1. ~moved
        BY DEF EntryAccounted
    <2>2. packet'[p].phv = p4objects[packet'[p].cxt]
        BY <1>0a, <1>5, <2>1, FreshPhv
    <2>3. \A y \in Live : packet[y].phv = p4objects[packet[y].cxt]
        BY <2>1 DEF SwapInv, PhvFitsConfig
    <2>4. \A y \in Live' : packet'[y].phv = p4objects[packet'[y].cxt]
        BY <1>0a, <1>1, <2>2, <2>3 DEF Live
    <2>5. ASSUME NEW d \in Contexts, ~(receiver'.pc = "swapped" /\ receiver'.cxt = d)
          PROVE  PoolFits(d)'
        <3>1. PoolFits(d)
            <4>1. ~(receiver.pc = "swapped" /\ receiver.cxt = d)
                BY <2>5 DEF EntryAccounted, Go
            <4> QED
                BY <2>1, <4>1 DEF SwapInv, PhvFitsConfig
        <3>2. Range(pool[d]) \subseteq {p4objects[d]}
            BY <2>3, <3>1 DEF PoolFits, PhvTaken
        <3>3. Range(phvs'[d]) \subseteq Range(pool[d])
            BY TakePhv DEF PhvTaken
        <3> QED
            BY <1>0, <3>1, <3>2, <3>3 DEF PoolFits
    <2> QED
        BY <2>4, <2>5
<1>8. BufferHoldsPackets'
    <2>1. CASE p \in Live /\ input_buffer' = input_buffer
        BY <1>0, <1>1, <2>1 DEF SwapInv, BufferHoldsPackets
    <2>2. CASE p \notin Live /\ input_buffer' = Append(input_buffer, p) /\ p # working
        <3>1. /\ input_buffer \in Seq(Packets)
              /\ Len(input_buffer') = Len(input_buffer) + 1
              /\ \A i \in 1 .. Len(input_buffer) : input_buffer'[i] = input_buffer[i]
              /\ input_buffer'[Len(input_buffer) + 1] = p
              /\ Len(input_buffer) \in Nat
            BY <2>2 DEF SwapInv, TypeOK
        <3>2. /\ \A i \in 1 .. Len(input_buffer) :
                     input_buffer[i] \in Live /\ input_buffer[i] # working
              /\ \A i, j \in 1 .. Len(input_buffer) :
                     input_buffer[i] = input_buffer[j] => i = j
            BY DEF SwapInv, BufferHoldsPackets
        <3>3. \A i \in 1 .. Len(input_buffer') :
                  i \in 1 .. Len(input_buffer) \/ i = Len(input_buffer) + 1
            BY <3>1
        <3>4. /\ \A i \in 1 .. Len(input_buffer') :
                     input_buffer'[i] \in Live' /\ input_buffer'[i] # working'
              /\ \A i, j \in 1 .. Len(input_buffer') :
                     input_buffer'[i] = input_buffer'[j] => i = j
            BY <1>0, <1>1, <2>2, <3>1, <3>2, <3>3
        <3>5. working' \in Live' \cup {"none"}
            BY <1>0, <1>1 DEF SwapInv, BufferHoldsPackets
        <3> QED
            BY <3>4, <3>5 DEF BufferHoldsPackets
    <2> QED
        BY <2>1, <2>2 DEF PacketEnters
<1>9. CacheAccounted'
    <2>1. \A d : CacheGood(d)' <=> CacheGood(d)
        BY <1>0 DEF CacheGood
    <2>2. \A d \in Contexts : SeenEmpty(d)' \/ CacheGood(d)
        <3>1. CASE receiver' = receiver
            <4>1. \A d : SeenEmpty(d)' <=> SeenEmpty(d)
                BY <3>1 DEF SeenEmpty
            <4> QED
                BY <4>1 DEF SwapInv, CacheAccounted
        <3>2. CASE receiver.pc = "create"
            <4>1. \A d : ~SeenEmpty(d)
                BY <3>2 DEF SeenEmpty
            <4> QED
                BY <4>1 DEF SwapInv, CacheAccounted
        <3> QED
            BY <3>1, <3>2 DEF EntryAccounted
    <2>3. ASSUME ~moved', NEW y \in Live' PROVE CacheGood(packet'[y].cxt)
        <3>1. ~moved /\ (~SeenEmpty(c) \/ \E z \in Live : packet[z].cxt = c)
            BY <2>3 DEF EntryAccounted
        <3>2. CASE y = p
            BY <1>0a, <3>1, <3>2 DEF SwapInv, CacheAccounted
        <3>3. CASE y # p
            BY <1>0a, <1>1, <3>1, <3>3 DEF SwapInv, CacheAccounted, Live
        <3> QED
            BY <3>2, <3>3
    <2> QED
        BY <1>0, <2>1, <2>2, <2>3 DEF CacheAccounted, CacheGood
<1> QED
    BY <1>4, <1>6, <1>7, <1>8, <1>9 DEF SwapInv

\* new_packet, the clones and change_context, each as a packet that enters a context.
LEMMA PacketSwapInv ==
    ASSUME SwapInv, NEW p \in Packets, NEW c \in Contexts,
           new_packet(p, c) \/ clone(p, c) \/ change_context(c)
    PROVE  SwapInv'
<1> USE SwapAssumption
<1> DEFINE PacketType == [cxt : 0 .. NbCxts, phv : Object, copies : Nat]
<1>1. /\ packet \in [Packets -> PacketType]
      /\ phvs \in [Contexts -> Seq(Object)]
      /\ PhvFor(c) \in Object
      /\ c \in 0 .. NbCxts
      /\ moved \in BOOLEAN
      /\ working \in Packets \cup {"none"}
      /\ \A y \in Live : y \in Packets /\ packet[y].cxt \in Contexts
    <2>1. PhvFor(c) \in Object
        BY FreshPhv
    <2>2. TypeOK /\ c \in 0 .. NbCxts
        BY DEF SwapInv, Contexts
    <2>3. \A y \in Live : y \in Packets /\ packet[y].cxt \in Contexts
        BY <2>2 DEF TypeOK, Live
    <2> QED
        BY <2>1, <2>2, <2>3 DEF TypeOK
<1>2. PhvTaken(phvs, c) <=> phvs' = Taken(phvs, c)
    BY <1>1 DEF PhvTaken
<1>3. CASE new_packet(p, c)
    <2>1. PacketEnters(p, c)
        <3>1. packet' = [packet EXCEPT ![p] = [cxt |-> c, phv |-> PhvFor(c), copies |-> 0]]
            BY <1>3 DEF new_packet
        <3>2. packet' \in [Packets -> PacketType]
            BY <1>1, <3>1
        <3>3. /\ packet'[p].cxt = c /\ packet'[p].phv = PhvFor(c)
              /\ \A y \in Packets \ {p} : packet'[y] = packet[y]
            BY <1>1, <3>1
        <3>4. p # working
            BY <1>3 DEF new_packet, SwapInv, BufferHoldsPackets
        <3> QED
            BY <1>3, <3>2, <3>3, <3>4 DEF new_packet, PacketEnters
    <2>2. EntryAccounted(c)
        BY <1>1, <1>3 DEF new_packet, EntryAccounted, SeenEmpty, history
    <2>3. PhvTaken(phvs, c)
        BY <1>2, <1>3 DEF new_packet
    <2> QED
        BY <2>1, <2>2, <2>3, EnterSwapInv
<1>4. CASE clone(p, c)
    <2> DEFINE w == working
    <2>1. /\ w \in Live /\ w \in Packets /\ p \notin Live /\ w # p
          /\ packet[w] \in PacketType
          /\ packet' = [packet EXCEPT
                 ![p] = [cxt |-> c, phv |-> PhvFor(c), copies |-> packet[w].copies + 1],
                 ![w].copies = @ + 1]
          /\ moved' = (moved \/ (c # packet[w].cxt /\ SeenEmpty(c)))
        BY <1>1, <1>4 DEF clone
    <2>2. PacketEnters(p, c)
        <3>1. /\ [cxt |-> c, phv |-> PhvFor(c), copies |-> packet[w].copies + 1] \in PacketType
              /\ [packet[w] EXCEPT !.copies = @ + 1] \in PacketType
              /\ [packet[w] EXCEPT !.copies = @ + 1].cxt = packet[w].cxt
              /\ [packet[w] EXCEPT !.copies = @ + 1].phv = packet[w].phv
            <4>1. packet[w].copies + 1 \in Nat
                BY <2>1
            <4>2. \A r \in PacketType, n \in Nat :
                      /\ [r EXCEPT !.copies = n] \in PacketType
                      /\ [r EXCEPT !.copies = n].cxt = r.cxt
                      /\ [r EXCEPT !.copies = n].phv = r.phv
                OBVIOUS
            <4> QED
                BY <1>1, <2>1, <4>1, <4>2
        <3>2. /\ packet' \in [Packets -> PacketType]
              /\ packet'[p].cxt = c /\ packet'[p].phv = PhvFor(c)
              /\ packet'[w].cxt = packet[w].cxt /\ packet'[w].phv = packet[w].phv
              /\ \A y \in Packets \ {p, w} : packet'[y] = packet[y]
            <4> HIDE DEF PacketType
            <4> QED
                BY <1>1, <2>1, <3>1
        <3> QED
            BY <1>4, <2>1, <3>2 DEF clone, PacketEnters
    <2>3. EntryAccounted(c)
        BY <1>1, <1>4, <2>1 DEF clone, EntryAccounted
    <2>4. PhvTaken(phvs, c)
        BY <1>2, <1>4 DEF clone
    <2> QED
        BY <2>2, <2>3, <2>4, EnterSwapInv
<1>5. CASE change_context(c)
    <2> DEFINE w == working
               old == packet[w].cxt
               pool == Given(phvs, old, packet[w].phv)
    <2>1. /\ w \in Live /\ w \in Packets /\ c # old
          /\ packet[w] \in PacketType /\ old \in Contexts
          /\ packet' = [packet EXCEPT ![w] = [cxt |-> c, phv |-> PhvFor(c),
                                             copies |-> @.copies + 1]]
          /\ moved' = (moved \/ SeenEmpty(c))
        BY <1>1, <1>5 DEF change_context
    <2>2. PacketEnters(w, c)
        <3>1. /\ packet' \in [Packets -> PacketType]
              /\ packet'[w].cxt = c /\ packet'[w].phv = PhvFor(c)
              /\ \A y \in Packets \ {w} : packet'[y] = packet[y]
            BY <1>1, <2>1
        <3> QED
            BY <1>5, <2>1, <3>1 DEF change_context, PacketEnters
    <2>3. EntryAccounted(c)
        BY <1>1, <1>5, <2>1 DEF change_context, EntryAccounted
    <2>4. PhvTaken(pool, c)
        <3>1. packet[w].phv \in Object
            BY <2>1
        <3>2. /\ pool \in [Contexts -> Seq(Object)]
              /\ Range(pool[old]) \subseteq Range(phvs[old]) \cup {packet[w].phv}
              /\ \A d \in Contexts \ {old} : pool[d] = phvs[d]
            <4>1. PICK o, x : o = old /\ x = packet[w].phv
                OBVIOUS
            <4>2. phvs \in [Contexts -> Seq(Object)] /\ o \in Contexts /\ x \in Object
                <5>1. phvs \in [Contexts -> Seq(Object)]
                    BY <1>1
                <5>2. old \in Contexts
                    BY <2>1
                <5> QED
                    BY <3>1, <4>1, <5>1, <5>2
            <4>3. /\ Given(phvs, o, x) \in [Contexts -> Seq(Object)]
                  /\ Range(Given(phvs, o, x)[o]) \subseteq Range(phvs[o]) \cup {x}
                  /\ \A d \in Contexts \ {o} : Given(phvs, o, x)[d] = phvs[d]
                <5>1. \A e \in Contexts, y \in Object :
                          /\ Given(phvs, e, y) \in [Contexts -> Seq(Object)]
                          /\ Range(Given(phvs, e, y)[e]) \subseteq Range(phvs[e]) \cup {y}
                          /\ \A d \in Contexts \ {e} : Given(phvs, e, y)[d] = phvs[d]
                    BY <4>2, GivePhv
                <5> QED
                    BY <4>2, <5>1
            <4> QED
                BY <4>1, <4>3
        <3>3. phvs' = Taken(pool, c)
            BY <1>5 DEF change_context
        <3> HIDE DEF pool
        <3> QED
            BY <2>1, <3>2, <3>3 DEF PhvTaken
    <2> QED
        BY <2>1, <2>2, <2>3, <2>4, EnterSwapInv
<1> QED
    BY <1>3, <1>4, <1>5

\* The pipeline thread takes the first packet of the buffer and refreshes its pointers
\* if a swap took place since the packet before.
LEMMA PipelineSwapInv ==
    ASSUME SwapInv, pipeline_thread
    PROVE  /\ SwapInv'
           /\ working' \in Live
           /\ ~moved => cached'[packet[working'].cxt] = p4objects[packet[working'].cxt]
<1> DEFINE b == input_buffer
<1>1. /\ working = "none" /\ b # << >> /\ b \in Seq(Packets)
      /\ working' = Head(b) /\ input_buffer' = Tail(b)
      /\ cached' = Refreshed
      /\ swap_happened' = FALSE
      /\ UNCHANGED <<p4objects, p4objects_rt, swap_ordered, factory, phvs, packet>>
      /\ UNCHANGED <<receiver, client, serial, moved>>
      /\ Live' = Live
    BY DEF pipeline_thread, objects, pools, history, SwapInv, TypeOK, Live
<1>2. /\ Head(b) = b[1] /\ Len(b) \in Nat \ {0}
      /\ Tail(b) \in Seq(Packets)
      /\ Len(Tail(b)) = Len(b) - 1
      /\ \A i \in 1 .. Len(b) - 1 : Tail(b)[i] = b[i + 1]
    BY <1>1
<1>3. b[1] \in Live /\ b[1] \in Packets
    BY <1>2 DEF SwapInv, BufferHoldsPackets, Live
<1>4. TypeOK'
    <2>1. cached' \in [Contexts -> Object]
        BY <1>1 DEF SwapInv, TypeOK, Refreshed
    <2> QED
        BY <1>1, <1>2, <1>3, <2>1 DEF SwapInv, TypeOK
<1>5. SpunIsEmpty'
    BY <1>1 DEF SwapInv, SpunIsEmpty
<1>6. PhvFitsConfig'
    <2>1. \A c : PoolFits(c)' <=> PoolFits(c)
        BY <1>1 DEF PoolFits
    <2> QED
        BY <1>1, <2>1 DEF SwapInv, PhvFitsConfig
<1>7. BufferHoldsPackets'
    <2>1. \A i \in 1 .. Len(b) : b[i] \in Live
        BY DEF SwapInv, BufferHoldsPackets
    <2>2. \A i, j \in 1 .. Len(b) : b[i] = b[j] => i = j
        BY DEF SwapInv, BufferHoldsPackets
    <2> HIDE DEF b
    <2>3. \A i \in 1 .. Len(Tail(b)) : i + 1 \in 1 .. Len(b) /\ i + 1 # 1
        BY <1>2
    <2>4. \A i \in 1 .. Len(Tail(b)) : Tail(b)[i] \in Live /\ Tail(b)[i] # b[1]
        BY <1>2, <2>1, <2>2, <2>3
    <2>5. \A i, j \in 1 .. Len(Tail(b)) : Tail(b)[i] = Tail(b)[j] => i = j
        BY <1>2, <2>2, <2>3
    <2> QED
        BY <1>1, <1>2, <1>3, <2>4, <2>5 DEF BufferHoldsPackets
<1>8. \A c \in Contexts : CacheGood(c) => cached'[c] = p4objects[c]
    BY <1>1 DEF CacheGood, Refreshed
<1>9. CacheAccounted'
    <2>1. \A c \in Contexts : CacheGood(c) => CacheGood(c)'
        BY <1>1, <1>8 DEF CacheGood
    <2>2. \A c : SeenEmpty(c)' <=> SeenEmpty(c)
        BY <1>1 DEF SeenEmpty
    <2>3. \A p \in Live : packet[p].cxt \in Contexts
        BY DEF SwapInv, TypeOK
    <2> QED
        BY <1>1, <2>1, <2>2, <2>3 DEF SwapInv, CacheAccounted
<1>10. ~moved => cached'[packet[working'].cxt] = p4objects[packet[working'].cxt]
    <2>1. packet[b[1]].cxt \in Contexts /\ (~moved => CacheGood(packet[b[1]].cxt))
        BY <1>3 DEF SwapInv, TypeOK, CacheAccounted
    <2> QED
        BY <1>1, <1>2, <1>8, <2>1
<1> QED
    BY <1>1, <1>2, <1>3, <1>4, <1>5, <1>6, <1>7, <1>9, <1>10 DEF SwapInv

\* ~Packet gives back a PHV of the configuration in use.
LEMMA DestroySwapInv ==
    ASSUME SwapInv, destroy
    PROVE  SwapInv'
<1> USE SwapAssumption
<1> DEFINE w == working
           c == packet[w].cxt
<1>1. /\ w \in Live /\ w \in Packets /\ c \in Contexts /\ packet[w].phv \in Object
      /\ phvs' = Given(phvs, c, packet[w].phv)
      /\ packet' = [packet EXCEPT ![w] = NoPacket]
      /\ working' = "none"
      /\ UNCHANGED <<p4objects, p4objects_rt, swap_ordered, factory, input_buffer, cached>>
      /\ UNCHANGED <<swap_happened, receiver, client, serial, moved>>
    BY DEF destroy, objects, history, SwapInv, TypeOK, Live
<1>2. /\ packet' \in [Packets -> [cxt : 0 .. NbCxts, phv : Object, copies : Nat]]
      /\ Live' = Live \ {w}
      /\ \A y \in Live' : y \in Live /\ packet'[y] = packet[y]
    <2>1. NoPacket \in [cxt : 0 .. NbCxts, phv : Object, copies : Nat]
        BY FirstIsObject DEF NoPacket
    <2>2. packet'[w] = NoPacket /\ \A y \in Packets \ {w} : packet'[y] = packet[y]
        BY <1>1 DEF SwapInv, TypeOK
    <2>3. packet' \in [Packets -> [cxt : 0 .. NbCxts, phv : Object, copies : Nat]]
        BY <1>1, <2>1 DEF SwapInv, TypeOK
    <2>4. Live' = Live \ {w}
        BY <2>2 DEF Live
    <2> QED
        BY <2>2, <2>3, <2>4 DEF Live
<1>3. /\ phvs' \in [Contexts -> Seq(Object)]
      /\ Range(phvs'[c]) \subseteq Range(phvs[c]) \cup {packet[w].phv}
      /\ \A d \in Contexts \ {c} : phvs'[d] = phvs[d]
    <2>1. phvs \in [Contexts -> Seq(Object)]
        BY DEF SwapInv, TypeOK
    <2>2. \A o \in Contexts, x \in Object :
              /\ Given(phvs, o, x) \in [Contexts -> Seq(Object)]
              /\ Range(Given(phvs, o, x)[o]) \subseteq Range(phvs[o]) \cup {x}
              /\ \A d \in Contexts \ {o} : Given(phvs, o, x)[d] = phvs[d]
        BY <2>1, GivePhv
    <2>3. c \in Contexts /\ packet[w].phv \in Object
        BY <1>1
    <2> DEFINE pool == Given(phvs, c, packet[w].phv)
    <2>4. /\ pool \in [Contexts -> Seq(Object)]
          /\ Range(pool[c]) \subseteq Range(phvs[c]) \cup {packet[w].phv}
          /\ \A d \in Contexts \ {c} : pool[d] = phvs[d]
        BY <2>2, <2>3
    <2>5. phvs' = pool
        BY <1>1
    <2> HIDE DEF pool, c, w
    <2> QED
        BY <2>4, <2>5
<1>4. TypeOK'
    BY <1>1, <1>2, <1>3 DEF SwapInv, TypeOK
<1>5. SpunIsEmpty'
    BY <1>1, <1>2 DEF SwapInv, SpunIsEmpty
<1>6. PhvFitsConfig'
    <2> SUFFICES ASSUME ~moved
                 PROVE  /\ \A y \in Live' : packet'[y].phv = p4objects[packet'[y].cxt]
                        /\ \A d \in Contexts :
                              ~(receiver.pc = "swapped" /\ receiver.cxt = d) => PoolFits(d)'
        BY <1>1 DEF PhvFitsConfig
    <2>1. \A y \in Live : packet[y].phv = p4objects[packet[y].cxt]
        BY DEF SwapInv, PhvFitsConfig
    <2>2. \A d \in Contexts : ~(receiver.pc = "swapped" /\ receiver.cxt = d) => PoolFits(d)
        BY DEF SwapInv, PhvFitsConfig
    <2>3. \A d \in Contexts \ {c} : PoolFits(d)' <=> PoolFits(d)
        BY <1>1, <1>3 DEF PoolFits
    <2>4. ASSUME NEW d, d = c, PoolFits(d) PROVE PoolFits(d)'
        <3>1. packet[w].phv = p4objects[d]
            BY <1>1, <2>1, <2>4
        <3>2. Range(phvs'[d]) \subseteq Range(phvs[d]) \cup {p4objects[d]}
            BY <1>3, <2>4, <3>1
        <3> QED
            BY <1>1, <2>4, <3>2 DEF PoolFits
    <2> QED
        BY <1>2, <2>1, <2>2, <2>3, <2>4
<1>7. BufferHoldsPackets'
    BY <1>1, <1>2 DEF SwapInv, TypeOK, BufferHoldsPackets
<1>8. CacheAccounted'
    <2>1. \A d : /\ CacheGood(d)' <=> CacheGood(d)
                 /\ SeenEmpty(d)' <=> SeenEmpty(d)
        BY <1>1 DEF CacheGood, SeenEmpty
    <2>2. ~moved => \A y \in Live' : CacheGood(packet'[y].cxt)
        BY <1>2 DEF SwapInv, CacheAccounted
    <2> QED
        BY <1>1, <2>1, <2>2 DEF SwapInv, CacheAccounted, CacheGood
<1> QED
    BY <1>4, <1>5, <1>6, <1>7, <1>8 DEF SwapInv

\* Every step of a client, of the receiving thread and of the pipeline thread preserves
\* the inductive invariant.
LEMMA NextSwapInv == SwapInv /\ [Next]_vars => SwapInv'
<1> SUFFICES ASSUME SwapInv, [Next]_vars PROVE SwapInv'
    OBVIOUS
<1>1. ASSUME NEW p \in Packets, NEW c \in Contexts,
             new_packet(p, c) \/ clone(p, c)
      PROVE  SwapInv'
    BY <1>1, PacketSwapInv
<1>2. ASSUME NEW c \in Contexts, change_context(c)
      PROVE  SwapInv'
    <2>1. working \in Packets
        BY <1>2 DEF change_context, Live
    <2> QED
        BY <1>2, <2>1, PacketSwapInv
<1>3. CASE UNCHANGED vars
    BY <1>3, ClientSwapInv DEF vars, objects, history, SwapInv, TypeOK
<1> QED
    BY <1>1, <1>2, <1>3, CallSwapInv, ReceiverSwapInv, PipelineSwapInv, DestroySwapInv
    DEF Next

-----------------------------------------------------------------------------
\* The theorems.

(***************************************************************************)
(* Whatever clients, packets and swaps do, the inductive invariant holds.  *)
(***************************************************************************)
THEOREM SwapInvariant == Spec => []SwapInv
BY InitSwapInv, NextSwapInv, PTL DEF Spec

(***************************************************************************)
(* A packet's PHV is of the configuration its context uses, across any     *)
(* number of loads and swaps, although do_swap works context by context    *)
(* and without stopping the pipeline thread; unless a packet came from     *)
(* another context to one that do_swap had seen empty.                     *)
(***************************************************************************)
THEOREM PhvAlwaysFits == Spec => []PhvFitsConfig
<1>1. SwapInv => PhvFitsConfig
    BY DEF SwapInv
<1> QED
    BY <1>1, SwapInvariant, PTL

(***************************************************************************)
(* Under the same condition the pipeline thread never starts on a packet   *)
(* with pointers to the parser and pipelines of a replaced configuration:  *)
(* swap_happened, set after all contexts and cleared when the pointers are *)
(* refreshed, is enough.                                                   *)
(***************************************************************************)
THEOREM PointersAreFresh == Spec => CachedPointersFresh
<1>1. SwapInv /\ [Next]_vars =>
          [pipeline_thread /\ ~moved =>
              LET c == packet[working'].cxt IN cached'[c] = p4objects[c]]_vars
    BY PipelineSwapInv
<1> QED
    BY <1>1, SwapInvariant, PTL DEF Spec, CachedPointersFresh

(***************************************************************************)
(* The assertion of PHVPool::set_phv_factory can fail only through packets *)
(* that change context: on a target that never moves packets between       *)
(* contexts no PHV is in use when the factory is replaced.                 *)
(***************************************************************************)
THEOREM PoolEmptyWithoutMoves == ASSUME ~Moves PROVE Spec => []PoolIsEmpty
<1>1. Init => ~moved /\ PoolIsEmpty
    BY DEF Init, PoolIsEmpty
<1>2. SwapInv /\ ~moved /\ PoolIsEmpty /\ [Next]_vars => ~moved' /\ PoolIsEmpty'
    <2> SUFFICES ASSUME SwapInv, ~moved, PoolIsEmpty, [Next]_vars
                 PROVE  ~moved' /\ PoolIsEmpty'
        OBVIOUS
    <2>1. ASSUME NEW p \in Packets, NEW c \in Contexts, clone(p, c)
          PROVE  ~moved' /\ fault' = fault
        BY <2>1 DEF clone
    <2>2. CASE InstallFactory
        <3>1. phvs_in_use(receiver.cxt) = 0
            BY <2>2, NoneInUse DEF InstallFactory, SwapInv, SpunIsEmpty
        <3>2. fault' = fault /\ moved' = moved
            BY <2>2, <3>1 DEF InstallFactory, history
        <3> QED
            BY <3>2 DEF PoolIsEmpty
    <2>3. CASE Receive \/ Spin \/ do_swap \/ SwapDone \/ pipeline_thread \/ destroy
        <3>1. fault' = fault /\ moved' = moved
            BY <2>3 DEF Receive, Spin, do_swap, SwapDone, pipeline_thread, destroy, history
        <3> QED
            BY <3>1 DEF PoolIsEmpty
    <2>4. ASSUME NEW p \in Packets, NEW c \in Contexts, new_packet(p, c)
          PROVE  moved' = moved /\ fault' = fault
        BY <2>4 DEF new_packet, history
    <2>5. ASSUME NEW t \in Clients,
                 \/ \E config \in Configs : Call(t, "load", config)
                 \/ Call(t, "swap", FirstConfig)
                 \/ load_new_config(t) \/ RecordConfig(t) \/ swap_configs(t)
          PROVE  moved' = moved /\ fault' = fault
        BY <2>5 DEF Call, load_new_config, RecordConfig, swap_configs, history
    <2>6. ASSUME NEW c \in Contexts, change_context(c)
          PROVE  FALSE
        BY <2>6 DEF change_context
    <2>7. UNCHANGED vars => moved' = moved /\ fault' = fault
        BY DEF vars, history
    <2>8. moved' = moved => ~moved'
        <3>1. moved = FALSE
            BY DEF SwapInv, TypeOK
        <3> QED
            BY <3>1
    <2>9. fault' = fault => PoolIsEmpty'
        BY DEF PoolIsEmpty
    <2> QED
        BY <2>1, <2>2, <2>3, <2>4, <2>5, <2>6, <2>7, <2>8, <2>9 DEF Next
<1> QED
    BY <1>1, <1>2, SwapInvariant, PTL DEF Spec

=============================================================================
