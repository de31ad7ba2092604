------------------------------ MODULE Runtime ------------------------------
(***************************************************************************)
(* The runtime interface of a switch: the Thrift handlers of               *)
(* Standard_server.ipp, the calls of SwitchWContexts that pick a context,  *)
(* and the calls of Context that take request_mutex, find an object in     *)
(* p4objects_rt and run one method of it.  The server gives every          *)
(* connection a thread, so calls overlap each other, the load of a         *)
(* configuration and the swap that the target commits.                     *)
(*                                                                         *)
(* A call is described by what its control depends on (Call below).  What  *)
(* a table method does to the table is the business of MatchUnit and       *)
(* IndirectTable: here it answers one of its codes, and an update that     *)
(* succeeds marks the object; the assertions inside a table method are in  *)
(* those modules too.  One context: the interplay of several contexts      *)
(* with a swap is in ConfigSwap.                                           *)
(***************************************************************************)
EXTENDS Naturals, Sequences, FiniteSets

CONSTANTS
    Clients,     \* connections of the RPC server
    Configs,     \* what init_objects leaves of each JSON input (P4Objects): the types
                 \* of its tables, which have actions, its arrays, and whether it has
                 \* a learn engine
    Names,       \* the names clients use, for tables and for arrays
    MaxCalls,    \* bound: calls of all clients
    MaxLoads     \* bound: configurations loaded

NoOne == "no one"

\* What init_objects gives, and that no connection is taken for no one; the instances
\* assume it.
ConfigsAssumption ==
    /\ NoOne \notin Clients
    /\ \A k \in Configs :
          /\ DOMAIN k = {"tables", "actions", "arrays", "engine"}
          /\ DOMAIN k.tables \subseteq Names
          /\ k.actions \subseteq DOMAIN k.tables
          /\ k.arrays \subseteq Names
          /\ k.engine \in BOOLEAN

VARIABLES
    objects,       \* every P4Objects made so far; the last is p4objects_rt
    p4objects,     \* index of the P4Objects that packets use
    swap_ordered,
    writer,        \* the holder of request_mutex in exclusive mode, or NoOne
    client,        \* the call each connection is in
    calls          \* calls made so far

vars == <<objects, p4objects, swap_ordered, writer, client, calls>>

p4objects_rt == Len(objects)
\* shared_ptr: a P4Objects lives while the context points to it.
Alive(i) == i \in {p4objects, p4objects_rt}

-----------------------------------------------------------------------------
\* The calls.

\* needs: the type the table is cast to; action: the call names an action of the
\* table; lock: the call takes request_mutex; codes: what the method may answer; key:
\* the handler builds a match key first.
Call(needs, action, lock, codes) ==
    [needs |-> needs, action |-> action, lock |-> lock,
     codes |-> codes \cup {"SUCCESS"}, key |-> FALSE]
WithKey(call) == [call EXCEPT !.key = TRUE]

HandleCodes == {"INVALID_HANDLE", "EXPIRED_HANDLE"}
InsertCodes == {"TABLE_FULL", "ERROR", "BAD_MATCH_KEY", "DUPLICATE_ENTRY"}

\* bm_mt_add_entry, set_default_action, delete_entry, modify_entry.
EntryCalls ==
    {WithKey(Call("direct", TRUE, TRUE, InsertCodes)),
     Call("direct", TRUE, TRUE, {}),
     Call("direct", FALSE, TRUE, HandleCodes),
     Call("direct", TRUE, TRUE, HandleCodes)}

\* bm_mt_set_entry_ttl and bm_mt_indirect_set_entry_ttl take no lock.
TtlCalls == {Call("any", FALSE, FALSE, {"AGEING_DISABLED", "INVALID_HANDLE"})}

\* Members, entries and the default member of an indirect table.
IndirectCalls ==
    {Call("indirect", TRUE, TRUE, {"ERROR"}),
     Call("indirect", FALSE, TRUE, {"INVALID_MBR_HANDLE", "MBR_STILL_USED"}),
     Call("indirect", TRUE, TRUE, {"INVALID_MBR_HANDLE"}),
     WithKey(Call("indirect", FALSE, TRUE, InsertCodes \cup {"INVALID_MBR_HANDLE"})),
     Call("indirect", FALSE, TRUE, HandleCodes \cup {"INVALID_MBR_HANDLE"}),
     Call("indirect", FALSE, TRUE, HandleCodes),
     Call("indirect", FALSE, TRUE, {"INVALID_MBR_HANDLE"})}

\* Groups, their members, and the entries that point to a group.
GroupCalls ==
    {Call("ws", FALSE, TRUE, {"ERROR"}),
     Call("ws", FALSE, TRUE, {"INVALID_GRP_HANDLE", "GRP_STILL_USED"}),
     Call("ws", FALSE, TRUE, {"INVALID_MBR_HANDLE", "INVALID_GRP_HANDLE",
                              "MBR_ALREADY_IN_GRP"}),
     Call("ws", FALSE, TRUE, {"INVALID_MBR_HANDLE", "INVALID_GRP_HANDLE", "MBR_NOT_IN_GRP"}),
     WithKey(Call("ws", FALSE, TRUE, InsertCodes \cup {"INVALID_GRP_HANDLE", "EMPTY_GRP"})),
     Call("ws", FALSE, TRUE, HandleCodes \cup {"INVALID_GRP_HANDLE", "EMPTY_GRP"}),
     Call("ws", FALSE, TRUE, {"INVALID_GRP_HANDLE"})}

\* The counters and the meters of the entries of any table, and its dump.
TableStatCalls ==
    {Call("any", FALSE, TRUE, {"COUNTERS_DISABLED", "INVALID_HANDLE"}),
     Call("any", FALSE, TRUE, {"COUNTERS_DISABLED"}),
     Call("any", FALSE, TRUE, {"METERS_DISABLED", "INVALID_HANDLE", "ERROR"}),
     Call("any", FALSE, TRUE, {})}

\* bm_counter_read, reset_all and write: an index out of range is an assertion.
CounterCalls == {Call("array", FALSE, TRUE, {}), Call("array", FALSE, TRUE, {"index asserted"})}
\* bm_meter_array_set_rates and bm_meter_set_rates; get_meter checks no index.
MeterCalls ==
    {Call("array", FALSE, TRUE, {"BAD_RATES_LIST", "INVALID_INFO_RATE_VALUE"}),
     Call("array", FALSE, TRUE, {"BAD_RATES_LIST", "INVALID_INFO_RATE_VALUE", "bad index"})}
\* bm_register_read, write, write_range and reset.
RegisterCalls == {Call("array", FALSE, TRUE, {"INVALID_INDEX"}), Call("array", FALSE, TRUE, {})}

\* LearnEngine looks the list up and forwards.
LearnCodes == {"INVALID_LIST_ID"}
\* The learning calls go to the engine of the configuration in use, with no lock.
LearningCalls == {Call("engine", FALSE, FALSE, LearnCodes)}

\* The calls that take request_mutex in exclusive mode.
ConfigCalls == {"load_new_config", "swap_configs", "reset_state"}

RuntimeInterface ==
    UNION {EntryCalls, TtlCalls, IndirectCalls, GroupCalls, TableStatCalls,
           CounterCalls, MeterCalls, RegisterCalls, LearningCalls}

\* Mutant: the case of an expired handle is missing.
get_exception_code_short ==
    {"TABLE_FULL", "INVALID_HANDLE", "COUNTERS_DISABLED", "METERS_DISABLED",
     "AGEING_DISABLED", "INVALID_TABLE_NAME", "INVALID_ACTION_NAME", "WRONG_TABLE_TYPE",
     "INVALID_MBR_HANDLE", "MBR_STILL_USED", "MBR_ALREADY_IN_GRP", "MBR_NOT_IN_GRP",
     "INVALID_GRP_HANDLE", "GRP_STILL_USED", "EMPTY_GRP", "DUPLICATE_ENTRY",
     "BAD_MATCH_KEY", "INVALID_METER_OPERATION", "ERROR"}

\* The errors of a table that the switch statement gives a Thrift code.
get_exception_code ==
    {"TABLE_FULL", "INVALID_HANDLE", "EXPIRED_HANDLE", "COUNTERS_DISABLED",
     "METERS_DISABLED", "AGEING_DISABLED", "INVALID_TABLE_NAME", "INVALID_ACTION_NAME",
     "WRONG_TABLE_TYPE", "INVALID_MBR_HANDLE", "MBR_STILL_USED", "MBR_ALREADY_IN_GRP",
     "MBR_NOT_IN_GRP", "INVALID_GRP_HANDLE", "GRP_STILL_USED", "EMPTY_GRP",
     "DUPLICATE_ENTRY", "BAD_MATCH_KEY", "INVALID_METER_OPERATION", "ERROR"}

\* What the client receives: the codes of arrays and of the engine are cast (the
\* counters' to an enumeration with other numbers, but they only answer SUCCESS).
Reply(needs, code) ==
    IF needs \in {"array", "engine"} \/ code = "SUCCESS" THEN code
    ELSE IF code \in get_exception_code THEN code ELSE "assert"

-----------------------------------------------------------------------------
Init ==
    /\ \E k \in Configs : k.engine /\ objects = <<[config |-> k, updated |-> FALSE]>>
    /\ p4objects = 1
    /\ swap_ordered = FALSE
    /\ writer = NoOne
    /\ client = [p \in Clients |-> [at |-> "idle"]]
    /\ calls = 0

Readers == {p \in Clients : client[p].at \in {"find", "run"} /\ client[p].call.lock}

Goto(p, r) == client' = [client EXCEPT ![p] = r]
Answer(p, code) == Goto(p, [at |-> "reply", code |-> code])

Loading == {p \in Clients : client[p].at \in {"exclusive", "body"}
                                /\ client[p].call = "load_new_config"}

\* build_match_key: a parameter whose type is none of the four is an assertion, before
\* the context or the table is looked at.
build_match_key(p, call) ==
    call.key /\ Goto(p, [at |-> "fault", cause |-> "wrong type", call |-> call])

\* SwitchWContexts: contexts.at throws when the context does not exist, before
\* anything is locked.
InContext(p, call, name) ==
    \/ Goto(p, [at |-> IF call.lock THEN "lock" ELSE "find", call |-> call, name |-> name])
    \/ Answer(p, "out_of_range")

TableRequest(p) ==
    \E call \in EntryCalls \cup TtlCalls \cup IndirectCalls, name \in Names :
        build_match_key(p, call) \/ InContext(p, call, name)

GroupRequest(p) ==
    \E call \in GroupCalls, name \in Names :
        build_match_key(p, call) \/ InContext(p, call, name)

StatRequest(p) ==
    \E call \in UNION {TableStatCalls, CounterCalls, MeterCalls, RegisterCalls},
       name \in Names : InContext(p, call, name)

\* The engine has no name.
LearnRequest(p) ==
    \E call \in LearningCalls : InContext(p, call, "engine")

ConfigRequest(p) ==
    \E c \in ConfigCalls :
        /\ c = "load_new_config" => Len(objects) + Cardinality(Loading) <= MaxLoads
        /\ Goto(p, [at |-> "exclusive", call |-> c])

\* A connection sends a call.
Request(p) ==
    /\ client[p].at = "idle"
    /\ calls < MaxCalls
    /\ calls' = calls + 1
    /\ \/ TableRequest(p) \/ GroupRequest(p) \/ StatRequest(p)
       \/ LearnRequest(p) \/ ConfigRequest(p)
    /\ UNCHANGED <<objects, p4objects, swap_ordered, writer>>

\* boost::shared_lock<boost::shared_mutex> lock(request_mutex)
LockShared(p) ==
    /\ client[p].at = "lock"
    /\ writer = NoOne
    /\ Goto(p, [client[p] EXCEPT !.at = "find"])
    /\ UNCHANGED <<objects, p4objects, swap_ordered, writer, calls>>

\* dynamic_cast to the class the call needs.
Casts(type, needs) ==
    needs = "any" \/ type = needs \/ (type = "ws" /\ needs = "indirect")

\* The getters of P4Objects: at() throws for a name the map does not have.
Known(map, name) == name \in map

\* The object a call is for, looked up in the maps of p4objects_rt.
FindTable(p) ==
    LET cl == client[p]
        k == objects[p4objects_rt].config
    IN /\ cl.at = "find"
       /\ cl.call.needs \in {"direct", "indirect", "ws", "any"}
       /\ IF ~Known(DOMAIN k.tables, cl.name) THEN Answer(p, "out_of_range")
          ELSE IF ~Casts(k.tables[cl.name], cl.call.needs) THEN Answer(p, "WRONG_TABLE_TYPE")
          ELSE IF cl.call.action /\ ~Known(k.actions, cl.name) THEN Answer(p, "out_of_range")
          ELSE Goto(p, [at |-> "run", call |-> cl.call, object |-> p4objects_rt])
       /\ UNCHANGED <<objects, p4objects, swap_ordered, writer, calls>>

FindArray(p) ==
    LET cl == client[p] IN
    /\ cl.at = "find"
    /\ cl.call.needs = "array"
    /\ IF ~Known(objects[p4objects_rt].config.arrays, cl.name) THEN Answer(p, "out_of_range")
       ELSE Goto(p, [at |-> "run", call |-> cl.call, object |-> p4objects_rt])
    /\ UNCHANGED <<objects, p4objects, swap_ordered, writer, calls>>

\* get_learn_engine: a raw pointer out of p4objects.
FindEngine(p) ==
    /\ client[p].at = "find"
    /\ client[p].call.needs = "engine"
    /\ Goto(p, [at |-> "run", call |-> client[p].call, object |-> p4objects])
    /\ UNCHANGED <<objects, p4objects, swap_ordered, writer, calls>>

\* The method runs on the object that was found, and the lock is released.
Run(p) ==
    LET cl == client[p] IN
    /\ cl.at = "run"
    /\ IF ~Alive(cl.object)
       THEN Goto(p, [at |-> "fault", cause |-> "freed", call |-> cl.call]) /\ UNCHANGED objects
       ELSE IF cl.call.needs = "engine" /\ ~objects[cl.object].config.engine
       THEN /\ Goto(p, [at |-> "fault", cause |-> "null", call |-> cl.call])
            /\ UNCHANGED objects
       ELSE \E code \in cl.call.codes :
              /\ IF code \in {"index asserted", "bad index"} \/ Reply(cl.call.needs, code) = "assert"
                 THEN Goto(p, [at |-> "fault", cause |-> code, call |-> cl.call])
                 ELSE Answer(p, Reply(cl.call.needs, code))
              /\ objects' = IF code # "SUCCESS" THEN objects
                            ELSE [objects EXCEPT ![cl.object].updated = TRUE]
    /\ UNCHANGED <<p4objects, swap_ordered, writer, calls>>

-----------------------------------------------------------------------------
\* The calls on the whole configuration.

\* Mutant: the mutex is taken in shared mode.
LockExclusiveShared(p) ==
    /\ client[p].at = "exclusive"
    /\ writer = NoOne
    /\ writer' = p
    /\ Goto(p, [client[p] EXCEPT !.at = "body"])
    /\ UNCHANGED <<objects, p4objects, swap_ordered, calls>>

\* boost::unique_lock<boost::shared_mutex> lock(request_mutex)
LockExclusive(p) ==
    /\ client[p].at = "exclusive"
    /\ writer = NoOne
    /\ Readers = {}
    /\ writer' = p
    /\ Goto(p, [client[p] EXCEPT !.at = "body"])
    /\ UNCHANGED <<objects, p4objects, swap_ordered, calls>>

\* Mutant: an early return keeps the lock.
ReleaseUnlessPending(p) ==
    writer' = IF p4objects # p4objects_rt THEN writer ELSE NoOne
Release(p) == writer' = NoOne
UnlockAndAnswer(p, code) == Release(p) /\ Answer(p, code)

\* The status of init_objects is not looked at: a configuration that failed to load
\* is answered SUCCESS too, with what init_objects had made of it.
load_new_config(p) ==
    /\ client[p] = [at |-> "body", call |-> "load_new_config"]
    /\ IF p4objects # p4objects_rt
       THEN UnlockAndAnswer(p, "ONGOING_SWAP") /\ UNCHANGED objects
       ELSE /\ \E k \in Configs : objects' = Append(objects, [config |-> k, updated |-> FALSE])
            /\ UnlockAndAnswer(p, "SUCCESS")
    /\ UNCHANGED <<p4objects, swap_ordered, calls>>

swap_configs(p) ==
    /\ client[p] = [at |-> "body", call |-> "swap_configs"]
    /\ IF p4objects = p4objects_rt
       THEN UnlockAndAnswer(p, "NO_ONGOING_SWAP") /\ UNCHANGED swap_ordered
       ELSE UnlockAndAnswer(p, "SUCCESS") /\ swap_ordered' = TRUE
    /\ UNCHANGED <<objects, p4objects, calls>>

\* P4Objects::reset_state, of the configuration the control plane sees; it ends
\* with the engine and the monitor, which a failed load has not made.
reset_state(p) ==
    /\ client[p] = [at |-> "body", call |-> "reset_state"]
    /\ IF objects[p4objects_rt].config.engine
       THEN /\ UnlockAndAnswer(p, "SUCCESS")
            /\ objects' = [objects EXCEPT ![p4objects_rt].updated = FALSE]
       ELSE /\ Goto(p, [at |-> "fault", cause |-> "null", call |-> "reset_state"])
            /\ UNCHANGED <<objects, writer>>
    /\ UNCHANGED <<p4objects, swap_ordered, calls>>

\* Context::do_swap, called by the target when no packet is left.
do_swap ==
    /\ swap_ordered
    /\ writer = NoOne
    /\ Readers = {}
    /\ p4objects' = p4objects_rt
    /\ swap_ordered' = FALSE
    /\ UNCHANGED <<objects, writer, client, calls>>

Return(p) ==
    /\ client[p].at = "reply"
    /\ Goto(p, [at |-> "idle"])
    /\ UNCHANGED <<objects, p4objects, swap_ordered, writer, calls>>

\* A fault ends the process.
Faulty == \E p \in Clients : client[p].at = "fault"

Step(p) ==
    \/ LockShared(p) \/ FindTable(p) \/ FindArray(p) \/ FindEngine(p) \/ Run(p)
    \/ LockExclusive(p) \/ load_new_config(p) \/ swap_configs(p) \/ reset_state(p)
    \/ Return(p)

Next == ~Faulty /\ (do_swap \/ \E p \in Clients : Request(p) \/ Step(p))

\* Threads are scheduled.  Calls are finitely many, so a thread that waits for
\* request_mutex gets it when everyone else goes on.
Spec == Init /\ [][Next]_vars /\ \A p \in Clients : WF_vars(~Faulty /\ Step(p))

-----------------------------------------------------------------------------
\* The handlers and the calls of Context lose the process only in the ways the code
\* leaves open: a call that takes no lock used a configuration that a swap had freed,
\* a configuration that failed to load lacks the engine, the index of a counter or a
\* meter was not checked, or a match key has a parameter of no known type.  Every error
\* code has a Thrift code, and a call with the lock never meets freed objects.
FaultsHaveCause ==
    \A p \in Clients : client[p].at = "fault" =>
        /\ client[p].cause \in {"freed", "null", "wrong type", "index asserted", "bad index"}
        /\ client[p].cause = "freed" => ~client[p].call.lock
        /\ client[p].cause = "null" => \E i \in 2 .. Len(objects) : ~objects[i].config.engine
        /\ client[p].cause = "wrong type" => client[p].call.key

\* A call that takes request_mutex finds and updates the configuration that is the
\* newest when its update is made: no update goes to a configuration that another
\* client has replaced since the call found its table.
UpdatesReachNewest ==
    [][\A p \in Clients :
          (client[p].at = "run" /\ client[p].call.lock) => p4objects_rt' = client[p].object]_vars

\* No call waits for ever for request_mutex.
CallsAreAnswered ==
    \A p \in Clients : (client[p].at # "idle") ~> (client[p].at = "idle" \/ Faulty)

=============================================================================
