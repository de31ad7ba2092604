------------------------------ MODULE Stateful ------------------------------
(***************************************************************************)
(* ActionFnEntry::operator(): a thread locks the register arrays its action*)
(* uses, runs the primitives of the action one after the other and unlocks *)
(* the arrays.  Registers, meters and counters are shared with the other   *)
(* threads (the ingress thread and the egress threads of simple_switch) and*)
(* with the calls of the controller.                                       *)
(*                                                                         *)
(* An ActionFn is one object for all threads, and with it its RegisterSync,*)
(* which holds a vector of std::unique_lock, one per array: whether a lock *)
(* is owned is a flag of that vector, not of the thread.  boost::lock takes*)
(* all of them or waits (external); lock() on an owned lock and unlock() on*)
(* one that is not owned throw, and nothing catches what they throw.       *)
(*                                                                         *)
(* The arguments of a primitive are references.  The value of an expression*)
(* argument is in data_temps, a thread_local vector that grows as needed:  *)
(* when it is moved, a reference taken before dangles.                     *)
(***************************************************************************)
EXTENDS Integers, Sequences, FiniteSets, SequencesExt, FiniteSetsExt

CONSTANTS
    Threads,    \* the threads that execute actions
    Code,       \* from actions to their primitives, [name |-> , args |-> ]
    Runs,       \* the actions each thread executes
    Arrays,     \* register arrays, of one register each
    Width,      \* a register has values below 2^Width
    NewRates,   \* arguments of set_rates: sequences of [rate |-> , burst |-> ]
    RateCount,  \* rates of the meter
    NoArray,    \* stands for the array of a parameter that has none
    MaxRuns,    \* bound on the executions of a thread
    MaxCalls,   \* bound on the calls of the controller
    MaxClock    \* bound on the clock

Primitives == {"packet", "add", "meter", "count"}
RegisterTags == {"REGISTER_REF", "REGISTER_GEN", "REGISTER_ARRAY"}
IndexTags == {"REGISTER_GEN", "EXPRESSION"}

\* A parameter has the fields that its tag calls for.
Parameter ==
    {p \in [tag : STRING, array : Arrays \cup {NoArray}, uses : SUBSET Arrays] :
        /\ p.tag \in RegisterTags <=> p.array # NoArray
        /\ p.uses # {} => p.tag \in IndexTags}

\* What the loader accepts; the add that is modelled writes to a register.
\* A thread can be told from a free mutex.
ASSUME StatefulAssumption ==
    /\ IsFiniteSet(Threads) /\ "free" \notin Threads
    /\ NoArray \notin Arrays /\ "none" \notin DOMAIN Code
    /\ \A a \in DOMAIN Code : Code[a] \in Seq([name : Primitives, args : Seq(Parameter)])
    /\ \A a \in DOMAIN Code : \A i \in DOMAIN Code[a] : Code[a][i].name = "add" =>
          Code[a][i].args # <<>> /\ Code[a][i].args[1].tag \in RegisterTags
    /\ RateCount \in Nat /\ NewRates \subseteq Seq([rate : Nat, burst : Nat])

VARIABLES
    pc,         \* what each thread does next
    act,        \* its action, or "none"
    prim,       \* position in the action's primitives
    pend,       \* arguments of the primitive not evaluated yet
    refs,       \* the allocations of data_temps that the arguments refer to
    temps,      \* data_temps of each thread: size, capacity, and allocation number
    seen,       \* the registers as a read-modify-write primitive read them
    now,        \* the clock as Meter::execute read it
    runs,       \* executions done
    mutex,      \* RegisterArray::m_mutex: the thread that holds it, or "free"
    owns,       \* the owned flags of each action's RegisterSync::locks
    reg,        \* the register of each array
    configured, \* Meter::configured
    rates,      \* Meter::rates
    bytes,      \* Counter::bytes; a packet has one byte
    packets,    \* Counter::packets
    clock,      \* Meter::clock
    call,       \* steps that the controller's call still has to do
    calls,      \* calls so far
    aborted,    \* why the process ended, or "no"
    zeroed,     \* history: arrays reset while a thread was in a read-modify-write
    shared,     \* history: actions that two threads executed at the same time
    raced,      \* history: the counter was written in the middle of a count
    rejected    \* history: set_rates failed since it last succeeded

threadvars == <<pc, act, prim, pend, refs, temps, seen, now, runs>>
regvars == <<mutex, owns, reg>>
metervars == <<configured, rates>>
countvars == <<bytes, packets>>
callvars == <<call, calls>>
history == <<zeroed, shared, raced, rejected>>
vars == <<threadvars, regvars, metervars, countvars, clock, callvars, aborted, history>>

-----------------------------------------------------------------------------
(* The parameters of an action, as the parameter_push_back methods made them. *)
\* Mutant: a register index computed by an expression is not seen.
ParamArraysShallow(p) ==
    IF p.tag \in RegisterTags THEN {p.array} ELSE {}
\* add_register_array and grab_register_accesses.
ParamArrays(p) ==
    (IF p.tag \in RegisterTags THEN {p.array} ELSE {}) \cup (IF p.tag \in IndexTags THEN p.uses ELSE {})

register_sync(a) ==
    UNION {UNION {ParamArrays(Code[a][i].args[j]) : j \in DOMAIN Code[a][i].args} :
              i \in DOMAIN Code[a]}

\* nb_expression_params: an expression's place in data_temps counts the
\* expressions of all the primitives before it; place 0 is for register indices.
Offset(a, i, j) ==
    Cardinality({x \in (1 .. i) \X (1 .. 4) :
                    LET args == Code[a][x[1]].args
                    IN  /\ x[2] \in DOMAIN args /\ args[x[2]].tag = "EXPRESSION"
                        /\ x[1] < i \/ x[2] <= j})

Primitive(t) == Code[act[t]][prim[t]]
Expressions(t) == {j \in DOMAIN Primitive(t).args : Primitive(t).args[j].tag = "EXPRESSION"}
Touched(t) == UNION {IF p.array = NoArray THEN p.uses ELSE p.uses \cup {p.array} :
                        p \in ToSet(Primitive(t).args)}

-----------------------------------------------------------------------------
Init ==
    /\ pc = [t \in Threads |-> "idle"] /\ act = [t \in Threads |-> "none"]
    /\ prim = [t \in Threads |-> 1] /\ pend = [t \in Threads |-> {}]
    /\ refs = [t \in Threads |-> {}]
    /\ temps = [t \in Threads |-> [size |-> 4, capacity |-> 4, alloc |-> 0]]
    /\ seen = [t \in Threads |-> [r \in Arrays |-> 0]]
    /\ now = [t \in Threads |-> 0] /\ runs = [t \in Threads |-> 0]
    /\ mutex = [r \in Arrays |-> "free"] /\ owns = [a \in DOMAIN Code |-> FALSE]
    /\ reg = [r \in Arrays |-> 0]
    /\ configured = FALSE
    /\ rates = [k \in 1 .. RateCount |->
                   [rate |-> 0, burst |-> 0, tokens |-> 0, last |-> 0, color |-> 0,
                    passed |-> 0, base |-> -1]]
    /\ bytes = 0 /\ packets = 0 /\ clock = 0
    /\ call = <<>> /\ calls = 0 /\ aborted = "no"
    /\ zeroed = [t \in Threads |-> {}] /\ shared = {} /\ raced = FALSE /\ rejected = FALSE

Alive == aborted = "no"
Goto(t, label) == pc' = [pc EXCEPT ![t] = label]

-----------------------------------------------------------------------------
(* ActionFnEntry::operator(), the locks.                                      *)
Execute(t, a) ==
    /\ Alive /\ pc[t] = "idle" /\ runs[t] < MaxRuns /\ a \in Runs[t]
    /\ Goto(t, "lock")
    /\ act' = [act EXCEPT ![t] = a] /\ runs' = [runs EXCEPT ![t] = @ + 1]
    /\ prim' = [prim EXCEPT ![t] = 1]
    /\ shared' = IF \E u \in Threads \ {t} : act[u] = a THEN shared \cup {a} ELSE shared
    /\ UNCHANGED <<pend, refs, temps, seen, now, regvars, metervars, countvars, clock, callvars,
                   aborted, zeroed, raced, rejected>>

\* lock_registers: unique_lock::lock() looks at its flag first.
lock_registers(t) ==
    /\ Alive /\ pc[t] = "lock"
    /\ IF owns[act[t]] /\ register_sync(act[t]) # {}
       THEN aborted' = "lock" /\ UNCHANGED pc
       ELSE Goto(t, "wait") /\ UNCHANGED aborted
    /\ UNCHANGED <<act, prim, pend, refs, temps, seen, now, runs, regvars, metervars, countvars,
                   clock, callvars, history>>

\* ... then waits for the mutexes ...
Acquire(t) ==
    /\ Alive /\ pc[t] = "wait"
    /\ \A r \in register_sync(act[t]) : mutex[r] = "free"
    /\ mutex' = [r \in Arrays |-> IF r \in register_sync(act[t]) THEN t ELSE mutex[r]]
    /\ Goto(t, "own")
    /\ UNCHANGED <<act, prim, pend, refs, temps, seen, now, runs, owns, reg, metervars, countvars,
                   clock, callvars, aborted, history>>

\* ... and sets the flag.
Begin(t, i) ==
    IF i > Len(Code[act[t]]) THEN Goto(t, "unlock") /\ UNCHANGED <<prim, pend, refs>>
    ELSE /\ Goto(t, "args")
         /\ prim' = [prim EXCEPT ![t] = i]
         /\ refs' = [refs EXCEPT ![t] = {}]
         /\ pend' = [pend EXCEPT ![t] =
                {j \in DOMAIN Code[act[t]][i].args : Code[act[t]][i].args[j].tag = "EXPRESSION"}]

Own(t) ==
    /\ Alive /\ pc[t] = "own"
    /\ owns' = [owns EXCEPT ![act[t]] = register_sync(act[t]) # {}]
    /\ Begin(t, 1)
    /\ UNCHANGED <<act, temps, seen, now, runs, mutex, reg, metervars, countvars, clock, callvars,
                   aborted, history>>

\* unlock_registers: unlock() throws on a lock that is not owned, releases the
\* mutex and then clears the flag.
Release(t) == [r \in Arrays |-> IF mutex[r] = t THEN "free" ELSE mutex[r]]
unlock_registers(t) ==
    /\ Alive /\ pc[t] = "unlock"
    /\ IF ~owns[act[t]] /\ register_sync(act[t]) # {}
       THEN aborted' = "unlock" /\ UNCHANGED <<pc, mutex>>
       ELSE /\ mutex' = Release(t)
            /\ Goto(t, "disown") /\ UNCHANGED aborted
    /\ UNCHANGED <<act, prim, pend, refs, temps, seen, now, runs, owns, reg, metervars, countvars,
                   clock, callvars, history>>

\* Mutant: the flag stays set.
ClearedNot(t) == owns
Cleared(t) == [owns EXCEPT ![act[t]] = FALSE]
Disown(t) ==
    /\ Alive /\ pc[t] = "disown"
    /\ owns' = Cleared(t)
    /\ Goto(t, "idle") /\ act' = [act EXCEPT ![t] = "none"]
    /\ UNCHANGED <<prim, pend, refs, temps, seen, now, runs, mutex, reg, metervars, countvars, clock,
                   callvars, aborted, history>>

-----------------------------------------------------------------------------
(* ActionParam::to: the arguments, in an order the language leaves open.      *)
\* emplace_back until there is room; a vector that outgrows its capacity moves.
Grown(v, offset) ==
    IF v.size > offset THEN v
    ELSE [size |-> offset + 1,
          capacity |-> IF offset + 1 > v.capacity THEN 2 * v.capacity ELSE v.capacity,
          alloc |-> IF offset + 1 > v.capacity THEN v.alloc + 1 ELSE v.alloc]

EvalArgument(t, j) ==
    /\ Alive /\ pc[t] = "args" /\ j \in pend[t]
    /\ temps' = [temps EXCEPT ![t] = Grown(@, Offset(act[t], prim[t], j))]
    /\ refs' = [refs EXCEPT ![t] = @ \cup {temps'[t].alloc}]
    /\ pend' = [pend EXCEPT ![t] = @ \ {j}]
    /\ UNCHANGED <<pc, act, prim, seen, now, runs, regvars, metervars, countvars, clock, callvars,
                   aborted, history>>

\* The primitive gets an element of an array by an index that comes from the packet,
\* from action data or from a register: at() throws for one out of range, [] asserts,
\* and a meter is got unchecked, which is undefined.
Indexed(t) == Touched(t) # {} \/ Primitive(t).name \in {"meter", "count"}

\* The primitive starts, unless an index is out of range.  Reading through a reference
\* that dangles is undefined: the model stops there.
Call(t) ==
    /\ Alive /\ pc[t] = "args" /\ pend[t] = {}
    /\ \/ Indexed(t) /\ aborted' = "index" /\ UNCHANGED pc
       \/ IF refs[t] \subseteq {temps[t].alloc}
          THEN Goto(t, Primitive(t).name) /\ UNCHANGED aborted
          ELSE aborted' = "dangling" /\ UNCHANGED pc
    /\ UNCHANGED <<act, prim, pend, refs, temps, seen, now, runs, regvars, metervars, countvars,
                   clock, callvars, history>>

NextPrimitive(t) == Begin(t, prim[t] + 1)

-----------------------------------------------------------------------------
(* Primitives.                                                                *)
\* A primitive that works on the packet only.
Packet(t) ==
    /\ Alive /\ pc[t] = "packet"
    /\ NextPrimitive(t)
    /\ UNCHANGED <<act, temps, seen, now, runs, regvars, metervars, countvars, clock, callvars,
                   aborted, history>>

\* add on a register: the operands are read, then Data::set masks what it writes.
Read(t) ==
    /\ Alive /\ pc[t] = "add"
    /\ seen' = [seen EXCEPT ![t] = reg]
    /\ zeroed' = [zeroed EXCEPT ![t] = {}]
    /\ Goto(t, "write")
    /\ UNCHANGED <<act, prim, pend, refs, temps, now, runs, regvars, metervars, countvars, clock,
                   callvars, aborted, shared, raced, rejected>>

Masked(value) == value % 2 ^ Width

Write(t) ==
    /\ Alive /\ pc[t] = "write"
    /\ LET r == Primitive(t).args[1].array
       IN  reg' = [reg EXCEPT ![r] = Masked(seen[t][r] + 1)]
    /\ NextPrimitive(t)
    /\ UNCHANGED <<act, temps, seen, now, runs, mutex, owns, metervars, countvars, clock, callvars,
                   aborted, history>>

\* Meter::execute: configured and the clock are read before the lock is taken.
ReadClock(t) ==
    /\ Alive /\ pc[t] = "meter"
    /\ IF configured
       THEN Goto(t, "tokens") /\ now' = [now EXCEPT ![t] = clock] /\ UNCHANGED <<prim, pend, refs>>
       ELSE NextPrimitive(t) /\ UNCHANGED now
    /\ UNCHANGED <<act, temps, seen, runs, regvars, metervars, countvars, clock, callvars, aborted,
                   history>>

\* One rate: refill, then take a token.
\* Mutant: the tokens are not limited to the burst size.
RefillUnlimited(k, time) ==
    [k EXCEPT !.tokens = @ + time * k.rate - k.last, !.last = time * k.rate,
              !.base = IF @ = -1 THEN time ELSE @]
Refill(k, time) ==
    [k EXCEPT !.tokens = Min({@ + time * k.rate - k.last, k.burst}), !.last = time * k.rate,
              !.base = IF @ = -1 THEN time ELSE @]
Taken(k) == IF k.tokens < 1 THEN k ELSE [k EXCEPT !.tokens = @ - 1, !.passed = @ + 1]

\* The loop over the rates ends with the first that has no token: it gives the colour.
Reached(k, time) == \A i \in 1 .. k - 1 : Refill(rates[i], time).tokens >= 1

Tokens(t) ==
    /\ Alive /\ pc[t] = "tokens"
    /\ IF \E k \in DOMAIN rates : Reached(k, now[t]) /\ now[t] * rates[k].rate < rates[k].last
       THEN aborted' = "clock" /\ UNCHANGED <<pc, prim, pend, refs, rates>>
       ELSE /\ rates' = [k \in DOMAIN rates |-> IF Reached(k, now[t])
                                                THEN Taken(Refill(rates[k], now[t])) ELSE rates[k]]
            /\ NextPrimitive(t) /\ UNCHANGED aborted
    /\ UNCHANGED <<act, temps, seen, now, runs, regvars, configured, countvars, clock, callvars,
                   history>>

\* Counter::increment_counter: two atomic variables.
CountBytes(t) ==
    /\ Alive /\ pc[t] = "count"
    /\ bytes' = bytes + 1
    /\ Goto(t, "packets")
    /\ raced' = (raced \/ call \in {<<"packets">>, <<"packets", "registers">>})
    /\ UNCHANGED <<act, prim, pend, refs, temps, seen, now, runs, regvars, metervars, packets, clock,
                   callvars, aborted, zeroed, shared, rejected>>

CountPackets(t) ==
    /\ Alive /\ pc[t] = "packets"
    /\ packets' = packets + 1
    /\ NextPrimitive(t)
    /\ UNCHANGED <<act, temps, seen, now, runs, regvars, metervars, bytes, clock, callvars, aborted,
                   history>>

-----------------------------------------------------------------------------
(* The controller.  A call is a sequence of steps.                            *)
Tick ==
    /\ Alive /\ clock < MaxClock /\ clock' = clock + 1
    /\ UNCHANGED <<threadvars, regvars, metervars, countvars, callvars, aborted, history>>

Called == calls < MaxCalls /\ call = <<>> /\ calls' = calls + 1

\* Context::register_write holds the array's mutex while it writes.
register_write(r) ==
    /\ Alive /\ Called /\ mutex[r] = "free"
    /\ reg' = [reg EXCEPT ![r] = Masked(2)]
    /\ UNCHANGED <<threadvars, mutex, owns, metervars, countvars, clock, call, aborted, history>>

\* Meter::set_rate, for the rates in turn up to the first that is refused.
set_rate(config, k) ==
    [rate |-> config[k].rate, burst |-> config[k].burst, tokens |-> config[k].burst,
     last |-> 0, color |-> k, passed |-> 0, base |-> -1]
Refused(config) == {k \in 2 .. Len(config) : config[k - 1].rate > config[k].rate}

set_rates(config) ==
    /\ Alive /\ Called
    /\ IF Len(config) # RateCount THEN UNCHANGED <<metervars, rejected>>
       ELSE IF Refused(config) = {}
            THEN /\ rates' = Reverse([k \in DOMAIN config |-> set_rate(config, k)])
                 /\ configured' = TRUE /\ rejected' = FALSE
            ELSE /\ rates' = [k \in DOMAIN rates |->
                                 IF k <= Min(Refused(config)) THEN set_rate(config, k) ELSE rates[k]]
                 /\ rejected' = TRUE /\ UNCHANGED configured
    /\ UNCHANGED <<threadvars, regvars, countvars, clock, call, aborted, zeroed, shared, raced>>

\* Counter::write_counter and reset_counter; P4Objects::reset_state resets the
\* meters, then the counters, then the registers.
StartCall(steps) ==
    /\ Alive /\ Called /\ call' = steps
    /\ UNCHANGED <<threadvars, regvars, metervars, countvars, clock, aborted, history>>

reset_rates ==
    /\ Alive /\ call # <<>> /\ Head(call) = "rates"
    /\ configured' = FALSE /\ call' = Tail(call)
    /\ UNCHANGED <<threadvars, regvars, rates, countvars, clock, calls, aborted, history>>

WriteCounter ==
    /\ Alive /\ call # <<>> /\ Head(call) \in {"bytes", "packets"}
    /\ IF Head(call) = "bytes" THEN bytes' = 0 /\ UNCHANGED packets
                               ELSE packets' = 0 /\ UNCHANGED bytes
    /\ raced' = (raced \/ \E t \in Threads : pc[t] = "packets")
    /\ call' = Tail(call)
    /\ UNCHANGED <<threadvars, regvars, metervars, clock, calls, aborted, zeroed, shared, rejected>>

\* RegisterArray::reset_state: UniqueLock() is a lock on no mutex.
reset_registers ==
    /\ Alive /\ call # <<>> /\ Head(call) = "registers"
    /\ reg' = [r \in Arrays |-> 0] /\ call' = Tail(call)
    /\ zeroed' = [t \in Threads |-> IF pc[t] = "write" THEN Arrays ELSE zeroed[t]]
    /\ UNCHANGED <<threadvars, mutex, owns, metervars, countvars, clock, calls, aborted, shared,
                   raced, rejected>>

reset_counter == <<"bytes", "packets">>
Steps == {reset_counter, <<"registers">>, <<"rates">> \o reset_counter \o <<"registers">>}

ThreadStep(t) ==
    \/ lock_registers(t) \/ Acquire(t) \/ Own(t) \/ unlock_registers(t) \/ Disown(t)
    \/ \E j \in pend[t] : EvalArgument(t, j)
    \/ Call(t) \/ Packet(t) \/ Read(t) \/ Write(t)
    \/ ReadClock(t) \/ Tokens(t) \/ CountBytes(t) \/ CountPackets(t)

CallStep == reset_rates \/ WriteCounter \/ reset_registers

Next ==
    \/ \E t \in Threads : (\E a \in DOMAIN Code : Execute(t, a)) \/ ThreadStep(t)
    \/ Tick \/ CallStep
    \/ \E r \in Arrays : register_write(r)
    \/ \E config \in NewRates : set_rates(config)
    \/ \E steps \in Steps : StartCall(steps)

Spec == Init /\ [][Next]_vars

-----------------------------------------------------------------------------
(* An action's read-modify-write of a register is not disturbed: when it      *)
(* writes, the registers it read have the values it read, whatever the other  *)
(* threads and register_write do, and also when an index is itself read from  *)
(* a register.  Only reset_state, which takes no lock, comes in between.      *)
RegisterUpdatesAtomic ==
    Alive => \A t \in Threads : pc[t] = "write" =>
        \A r \in Touched(t) : reg[r] = seen[t][r] \/ r \in zeroed[t]

(* What may end the process.  A lock error needs two threads that executed    *)
(* one action at the same time (the actions of the egress pipeline are); a    *)
(* dangling argument a primitive with two expressions of which one is the     *)
(* fourth of its action or a later one; the meter's assertion two threads     *)
(* that took the meter's lock in the other order than they read the clock; an *)
(* index out of range a primitive with an element of an array.                *)
AbortsHaveCause ==
    /\ aborted \in {"lock", "unlock"} => \E t \in Threads : act[t] \in shared
    /\ aborted = "dangling" =>
          \E t \in Threads :
              /\ act[t] # "none" /\ Cardinality(Expressions(t)) >= 2
              /\ \E j \in Expressions(t) : Offset(act[t], prim[t], j) >= 4
    /\ aborted = "clock" =>
          \E t \in Threads : pc[t] = "tokens" /\ \E k \in DOMAIN rates : rates[k].last > 0 /\ now[t] < clock
    /\ aborted = "index" => \E t \in Threads : pc[t] = "args" /\ Indexed(t)

(* A rate lets no more packets through than its burst and what it was refilled*)
(* with since the first packet it saw, however the threads interleave; and    *)
(* unless a set_rates was refused half way, the higher rate is tried first.   *)
MeterConforms ==
    /\ \A k \in DOMAIN rates : rates[k].base >= 0 =>
          rates[k].passed <= rates[k].burst + rates[k].rate * (clock - rates[k].base)
    /\ configured /\ ~rejected => \A k \in 2 .. RateCount :
          rates[k - 1].color > rates[k].color /\ rates[k - 1].rate >= rates[k].rate

(* The two halves of the counter agree when no count is under way, unless a   *)
(* write fell between the two halves of a count, or a count between the two   *)
(* halves of a write.                                                         *)
CountersAgreeUnlessRaced ==
    call = <<>> /\ ~raced =>
        bytes = packets + Cardinality({t \in Threads : pc[t] = "packets"})

(* What packets and controller see of the meter and of the counter.           *)
StatsConform == MeterConforms /\ CountersAgreeUnlessRaced

(* stateful.h promises an action exclusive access to the register arrays it   *)
(* reads or writes: nothing changes them while it runs.                       *)
ExclusiveAsDocumented ==
    [][\A t \in Threads : pc[t] = "write" /\ pc'[t] = "write" =>
          \A r \in Touched(t) : reg'[r] = reg[r]]_vars

=============================================================================
