------------------------------ MODULE SimplePre ------------------------------
(***************************************************************************)
(* The packet replication engine McSimplePre (simple_pre.cpp), its LAG     *)
(* variant McSimplePreLAG (simple_pre_lag.cpp) and the RPC handlers in     *)
(* front of them.  A multicast group lists L1 nodes; an L1 node has a      *)
(* replication id and one L2 node, which has a set of ports and, in the    *)
(* LAG variant, of link aggregation groups.                                *)
(*                                                                         *)
(* The tables are guarded by three reader/writer locks, taken one by one:  *)
(* a call is its locks, its body and the unlocking.  replicate() walks     *)
(* through its group node by node, with the locks shared.  The LAG table   *)
(* has a lock of its own, which replicate() does not take: a membership is *)
(* written field by field under its eyes.                                  *)
(***************************************************************************)
EXTENDS Integers, Sequences, FiniteSets, SequencesExt

CONSTANTS
    Clients,         \* RPC threads
    Packets,         \* ingress threads, which replicate packets
    Mgids,           \* multicast group ids
    Rids,            \* replication ids
    NodeMaps,        \* [ports, lags] of the nodes that clients make
    LagMaps,         \* port maps of the LAGs that clients make
    LagIndices,      \* LAG indices clients use
    LAG_MAX_ENTRIES, \* 256
    MGID_TABLE_SIZE, L1_MAX_ENTRIES, L2_MAX_ENTRIES,
    MaxCalls         \* bound: calls made

ASSUME PreAssumption ==
    /\ Clients \cap Packets = {}
    /\ MGID_TABLE_SIZE \in Nat /\ L1_MAX_ENTRIES \in Nat /\ L2_MAX_ENTRIES \in Nat

VARIABLES
    lag,          \* is this the LAG variant?
    mgid_entries, \* group -> list of L1 handles
    l1_entries,   \* L1 handle -> [mgrp_hdl, rid, l2_hdl]
    l2_entries,   \* L2 handle -> [l1_hdl, ports, lags]
    l1_handles, l2_handles, \* handles in use
    lag_entries,  \* LAG -> [member_count, port_map]
    holders,      \* lock -> threads that hold it
    thread,       \* thread -> [at, call, ...]
    fault,        \* the exception or trap that ended the process
    destroyed_in_group, \* history: a node was destroyed that a group listed
    calls

tables == <<mgid_entries, l1_entries, l2_entries, l1_handles, l2_handles>>
vars == <<lag, tables, lag_entries, holders, thread, fault, destroyed_in_group, calls>>

Threads == Clients \cup Packets
Locks == {"mgid", "l1", "l2", "lag"}
Idle == [at |-> "idle"]
L1Handles == 0 .. L1_MAX_ENTRIES
Empty == [x \in {} |-> x]

\* A freshly constructed engine.
Init ==
    /\ lag \in BOOLEAN
    /\ mgid_entries = Empty /\ l1_entries = Empty /\ l2_entries = Empty
    /\ l1_handles = {} /\ l2_handles = {}
    /\ lag_entries = Empty
    /\ holders = [l \in Locks |-> {}]
    /\ thread = [t \in Threads |-> Idle]
    /\ fault = "none"
    /\ destroyed_in_group = FALSE
    /\ calls = 0

-----------------------------------------------------------------------------
\* Calls and their locks.

\* Mutant: the node is locked before the group.
LocksOfSwapped(op) ==
    CASE op \in {"mgrp_create", "mgrp_destroy"} -> <<"mgid">>
      [] op \in {"node_create", "node_destroy", "node_update"} -> <<"l1", "l2">>
      [] op \in {"associate", "dissociate"} -> <<"l1", "mgid">>
      [] op = "replicate" -> <<"mgid", "l1", "l2">>
      [] op = "set_lag" -> <<"lag">>

\* Mutant: replicate does not lock the L2 nodes.
LocksOfLess(op) ==
    CASE op \in {"mgrp_create", "mgrp_destroy"} -> <<"mgid">>
      [] op \in {"node_create", "node_destroy", "node_update"} -> <<"l1", "l2">>
      [] op \in {"associate", "dissociate"} -> <<"mgid", "l1">>
      [] op = "replicate" -> <<"mgid">>
      [] op = "set_lag" -> <<"lag">>

\* The locks of an operation, in the order in which it takes them.
LocksOf(op) ==
    CASE op \in {"mgrp_create", "mgrp_destroy"} -> <<"mgid">>
      [] op \in {"node_create", "node_destroy", "node_update"} -> <<"l1", "l2">>
      [] op \in {"associate", "dissociate"} -> <<"mgid", "l1">>
      [] op = "replicate" -> <<"mgid", "l1", "l2">>
      [] op = "set_lag" -> <<"lag">>

Request(t, call) ==
    /\ thread[t].at = "idle"
    /\ fault = "none"
    /\ calls < MaxCalls
    /\ calls' = calls + 1
    /\ thread' = [thread EXCEPT ![t] = [at |-> "lock", call |-> call, held |-> 0]]
    /\ UNCHANGED <<lag, tables, lag_entries, holders, fault, destroyed_in_group>>

\* The calls of SimplePreHandler, with any handle a client remembers.
PreCalls ==
    [op : {"mgrp_create", "mgrp_destroy"}, mgid : Mgids]
    \cup [op : {"associate", "dissociate"}, mgid : Mgids, l1 : L1Handles]
    \cup [op : {"node_create"}, rid : Rids, maps : NodeMaps]
    \cup [op : {"node_destroy"}, l1 : L1Handles]
    \cup [op : {"node_update"}, l1 : L1Handles, maps : NodeMaps]

NoLags(call) == IF "maps" \in DOMAIN call THEN call.maps.lags = {} ELSE TRUE

\* The handlers turn a code other than SUCCESS into an exception; that is all the
\* client sees of it.
SimplePreHandler(t) == ~lag /\ \E call \in PreCalls : NoLags(call) /\ Request(t, call)

SimplePreLAGHandler(t) ==
    /\ lag
    /\ \/ \E call \in PreCalls : Request(t, call)
       \/ \E i \in LagIndices, map \in LagMaps :
             Request(t, [op |-> "set_lag", lag_index |-> i, port_map |-> map])

\* An ingress thread multicasts a packet.
Multicast(t) == \E g \in Mgids : Request(t, [op |-> "replicate", mgid |-> g])

\* Readers share a lock with each other, writers with nobody.
Lock(t) ==
    LET ls == LocksOf(thread[t].call.op)
        l == ls[thread[t].held + 1]
    IN /\ thread[t].at = "lock"
       /\ fault = "none"
       /\ IF t \in Packets THEN holders[l] \subseteq Packets ELSE holders[l] = {}
       /\ holders' = [holders EXCEPT ![l] = @ \cup {t}]
       /\ thread' = [thread EXCEPT ![t].held = @ + 1,
                                   ![t].at = IF thread[t].held + 1 = Len(ls)
                                             THEN "body" ELSE "lock"]
       /\ UNCHANGED <<lag, tables, lag_entries, fault, destroyed_in_group, calls>>

\* A control call ends: its locks are released.
Return(t) ==
    /\ thread' = [thread EXCEPT ![t] = Idle]
    /\ holders' = [l \in Locks |-> holders[l] \ {t}]
    /\ UNCHANGED <<lag, fault, calls>>

Body(t, op) == thread[t].at = "body" /\ thread[t].call.op = op /\ fault = "none"

-----------------------------------------------------------------------------
\* Groups.

\* HandleMgr::get_handle: the first one that is free.
get_handle(used) ==
    CHOOSE h \in 0 .. Cardinality(used) :
        h \notin used /\ \A g \in 0 .. h - 1 : g \in used

Set(f, x, v) == [y \in DOMAIN f \cup {x} |-> IF y = x THEN v ELSE f[y]]
Erase(f, x) == [y \in DOMAIN f \ {x} |-> f[y]]

\* The insertion leaves a group that exists as it is and succeeds.
mc_mgrp_create(t) ==
    LET mgid == thread[t].call.mgid IN
    /\ Body(t, "mgrp_create")
    /\ mgid_entries' = IF \/ Cardinality(DOMAIN mgid_entries) >= MGID_TABLE_SIZE
                          \/ mgid \in DOMAIN mgid_entries
                       THEN mgid_entries ELSE Set(mgid_entries, mgid, <<>>)
    /\ UNCHANGED <<l1_entries, l2_entries, l1_handles, l2_handles, lag_entries,
                   destroyed_in_group>>
    /\ Return(t)

mc_mgrp_destroy(t) ==
    /\ Body(t, "mgrp_destroy")
    /\ mgid_entries' = Erase(mgid_entries, thread[t].call.mgid)
    /\ UNCHANGED <<l1_entries, l2_entries, l1_handles, l2_handles, lag_entries,
                   destroyed_in_group>>
    /\ Return(t)

\* operator[]: a group that does not exist is made.
ListOf(mgid) == IF mgid \in DOMAIN mgid_entries THEN mgid_entries[mgid] ELSE <<>>

mc_node_associate(t) ==
    LET c == thread[t].call IN
    /\ Body(t, "associate")
    /\ IF c.l1 \notin l1_handles THEN UNCHANGED <<mgid_entries, l1_entries>>
       ELSE /\ mgid_entries' = Set(mgid_entries, c.mgid, Append(ListOf(c.mgid), c.l1))
            /\ l1_entries' = [l1_entries EXCEPT ![c.l1].mgrp_hdl = c.mgid]
    /\ UNCHANGED <<l2_entries, l1_handles, l2_handles, lag_entries, destroyed_in_group>>
    /\ Return(t)

\* The list without the occurrences of node h; the others keep their order.
Without(list, h) ==
    LET kept == {i \in DOMAIN list : list[i] # h}
        At(n) == CHOOSE i \in kept : Cardinality({j \in kept : j <= i}) = n
    IN [n \in 1 .. Cardinality(kept) |-> list[At(n)]]

\* Every occurrence of the node leaves the list of the group.
mc_node_dissociate(t) ==
    LET c == thread[t].call IN
    /\ Body(t, "dissociate")
    /\ IF c.l1 \notin l1_handles THEN UNCHANGED <<mgid_entries, l1_entries>>
       ELSE /\ mgid_entries' = Set(mgid_entries, c.mgid, Without(ListOf(c.mgid), c.l1))
            /\ l1_entries' = [l1_entries EXCEPT ![c.l1].mgrp_hdl = 0]
    /\ UNCHANGED <<l2_entries, l1_handles, l2_handles, lag_entries, destroyed_in_group>>
    /\ Return(t)

-----------------------------------------------------------------------------
\* Nodes.

\* The L2 node of the LAG variant has a set of LAGs as well; the rest of its
\* mc_node_create and mc_node_update is that of the base class.
NewL2Node(l1, maps) == [l1_hdl |-> l1, ports |-> maps.ports, lags |-> maps.lags]
UpdatedL2Node(node, maps) == [node EXCEPT !.ports = maps.ports, !.lags = maps.lags]

\* A new L1 node with its L2 node, under the first free handles.
mc_node_create(t) ==
    LET c == thread[t].call
        l1 == get_handle(l1_handles)
        l2 == get_handle(l2_handles)
    IN /\ Body(t, "node_create")
       /\ IF \/ Cardinality(DOMAIN l1_entries) >= L1_MAX_ENTRIES
             \/ Cardinality(DOMAIN l2_entries) >= L2_MAX_ENTRIES
          THEN UNCHANGED <<l1_entries, l2_entries, l1_handles, l2_handles>>
          ELSE /\ l1_handles' = l1_handles \cup {l1}
               /\ l2_handles' = l2_handles \cup {l2}
               /\ l1_entries' = Set(l1_entries, l1,
                                    [mgrp_hdl |-> 0, rid |-> c.rid, l2_hdl |-> l2])
               /\ l2_entries' = Set(l2_entries, l2, NewL2Node(l1, c.maps))
       /\ UNCHANGED <<mgid_entries, lag_entries, destroyed_in_group>>
       /\ Return(t)

Listed(l1) ==
    \E g \in DOMAIN mgid_entries : \E i \in DOMAIN mgid_entries[g] :
        mgid_entries[g][i] = l1

\* Mutant: the L2 node is left behind.
erase_l2_not(l2) == UNCHANGED l2_entries /\ l2_handles' = l2_handles \ {l2}

erase_l2(l2) ==
    /\ l2_entries' = Erase(l2_entries, l2)
    /\ l2_handles' = l2_handles \ {l2}

\* The lists of the groups are left alone.
mc_node_destroy(t) ==
    LET l1 == thread[t].call.l1 IN
    /\ Body(t, "node_destroy")
    /\ IF l1 \notin l1_handles
       THEN UNCHANGED <<l1_entries, l2_entries, l1_handles, l2_handles,
                        destroyed_in_group>>
       ELSE /\ erase_l2(l1_entries[l1].l2_hdl)
            /\ l1_entries' = Erase(l1_entries, l1)
            /\ l1_handles' = l1_handles \ {l1}
            /\ destroyed_in_group' = (destroyed_in_group \/ Listed(l1))
    /\ UNCHANGED <<mgid_entries, lag_entries>>
    /\ Return(t)

mc_node_update(t) ==
    LET c == thread[t].call IN
    /\ Body(t, "node_update")
    /\ l2_entries' = IF c.l1 \notin l1_handles THEN l2_entries
                     ELSE [l2_entries EXCEPT ![l1_entries[c.l1].l2_hdl] =
                             UpdatedL2Node(@, c.maps)]
    /\ UNCHANGED <<mgid_entries, l1_entries, l1_handles, l2_handles, lag_entries,
                   destroyed_in_group>>
    /\ Return(t)

-----------------------------------------------------------------------------
\* Link aggregation groups.

\* The index is compared with > and not >=.  The count is written first.
mc_set_lag_membership(t) ==
    LET c == thread[t].call IN
    /\ Body(t, "set_lag")
    /\ IF c.lag_index > LAG_MAX_ENTRIES
       THEN UNCHANGED lag_entries /\ Return(t)
       ELSE /\ lag_entries' =
                 Set(lag_entries, c.lag_index,
                     [member_count |-> Cardinality(c.port_map),
                      port_map |-> IF c.lag_index \in DOMAIN lag_entries
                                   THEN lag_entries[c.lag_index].port_map ELSE {}])
            /\ thread' = [thread EXCEPT ![t].at = "map"]
            /\ UNCHANGED <<lag, holders, fault, calls>>
    /\ UNCHANGED <<tables, destroyed_in_group>>

\* ... and the port map second.
SetLagPortMap(t) ==
    LET c == thread[t].call IN
    /\ thread[t].at = "map"
    /\ fault = "none"
    /\ lag_entries' = [lag_entries EXCEPT ![c.lag_index].port_map = c.port_map]
    /\ UNCHANGED <<tables, destroyed_in_group>>
    /\ Return(t)

-----------------------------------------------------------------------------
\* Replication.

\* The port of a LAG that gets the copy: the hash is the constant 0xFF.  A count
\* that does not fit the map may select no port.
LagPorts(entry) ==
    LET n == (255 % entry.member_count) + 1
    IN {p \in entry.port_map : Cardinality({o \in entry.port_map : o <= p}) = n}

\* The copies for the ports of a node, in the order of the ports.
PortCopies(l1) ==
    LET n == l1_entries[l1]
        ports == l2_entries[n.l2_hdl].ports
    IN [i \in 1 .. Cardinality(ports) |->
          [rid |-> n.rid,
           egress_port |-> CHOOSE p \in ports : Cardinality({o \in ports : o <= p}) = i]]

\* at() on the group: the list is copied.
replicate_start(t) ==
    LET g == thread[t].call.mgid IN
    /\ Body(t, "replicate")
    /\ IF g \notin DOMAIN mgid_entries
       THEN fault' = "no group" /\ UNCHANGED thread
       ELSE /\ thread' = [thread EXCEPT ![t] =
                            [at |-> "copy", call |-> @.call, todo |-> mgid_entries[g],
                             out |-> <<>>, lag_out |-> {}]]
            /\ UNCHANGED fault
    /\ UNCHANGED <<lag, tables, lag_entries, holders, destroyed_in_group, calls>>

\* One L1 node: its ports, then its LAGs with whatever their entries hold by now.  The
\* vector of copies is kept in the pieces that the nodes contribute.
replicate_node(t) ==
    LET l1 == Head(thread[t].todo)
        node == l1_entries[l1]
        lags == l2_entries[node.l2_hdl].lags
        cause == IF l1 \notin DOMAIN l1_entries THEN "no l1 node"
                 ELSE IF node.l2_hdl \notin DOMAIN l2_entries THEN "no l2 node"
                 ELSE IF ~(lags \subseteq DOMAIN lag_entries) THEN "no lag"
                 ELSE IF \E i \in lags : lag_entries[i].member_count = 0
                      THEN "division by zero"
                 ELSE "none"
    IN /\ thread[t].at = "copy"
       /\ fault = "none"
       /\ thread[t].todo # <<>>
       /\ fault' = cause
       /\ IF cause # "none" THEN UNCHANGED thread
          ELSE thread' = [thread EXCEPT ![t].todo = Tail(@),
                                        ![t].out = Append(@, PortCopies(l1)),
                                        ![t].lag_out = @ \cup UNION
                                           {LagPorts(lag_entries[i]) : i \in lags}]
       /\ UNCHANGED <<lag, tables, lag_entries, holders, destroyed_in_group, calls>>

replicate_end(t) ==
    /\ thread[t].at = "copy"
    /\ fault = "none"
    /\ thread[t].todo = <<>>
    /\ Return(t)
    /\ UNCHANGED <<tables, lag_entries, destroyed_in_group>>

-----------------------------------------------------------------------------
Step(t) ==
    \/ Lock(t)
    \/ mc_mgrp_create(t) \/ mc_mgrp_destroy(t)
    \/ mc_node_associate(t) \/ mc_node_dissociate(t)
    \/ mc_node_create(t) \/ mc_node_destroy(t) \/ mc_node_update(t)
    \/ mc_set_lag_membership(t) \/ SetLagPortMap(t)
    \/ replicate_start(t) \/ replicate_node(t) \/ replicate_end(t)

Next ==
    \/ \E t \in Clients : SimplePreHandler(t) \/ SimplePreLAGHandler(t)
    \/ \E t \in Packets : Multicast(t)
    \/ \E t \in Threads : Step(t)

Spec == Init /\ [][Next]_vars

\* A thread in a call goes on.
FairSpec == Spec /\ \A t \in Threads : WF_vars(Step(t))

-----------------------------------------------------------------------------
\* Properties.

\* Handle managers, L1 and L2 tables agree: every handle that is in use has its
\* entry, and L1 and L2 nodes point at each other one to one.
HandlesMatchEntries ==
    /\ l1_handles = DOMAIN l1_entries
    /\ l2_handles = DOMAIN l2_entries
    /\ \A h \in l1_handles :
         /\ l1_entries[h].l2_hdl \in l2_handles
         /\ l2_entries[l1_entries[h].l2_hdl].l1_hdl = h
    /\ \A h \in l2_handles :
         /\ l2_entries[h].l1_hdl \in l1_handles
         /\ l1_entries[l2_entries[h].l1_hdl].l2_hdl = h

\* replicate returns the copies of its group as the tables have it when it ends,
\* although it visits the nodes one after the other while clients call: the locks
\* it shares keep the tables as they were.
ReplicationIsAtomic ==
    \A t \in Packets : (thread[t].at = "copy" /\ thread[t].todo = <<>>) =>
        LET list == mgid_entries[thread[t].call.mgid]
        IN /\ ToSet(list) \subseteq DOMAIN l1_entries
           /\ \A h \in ToSet(list) : l1_entries[h].l2_hdl \in DOMAIN l2_entries
           /\ thread[t].out = [i \in DOMAIN list |-> PortCopies(list[i])]

\* When a packet meets a node that is gone, some client had destroyed a node
\* before taking it out of its groups; an L2 node is never missing.
FaultsHaveCause ==
    /\ fault # "no l2 node"
    /\ fault = "no l1 node" => destroyed_in_group

\* What the packets rely on.
ReplicationIsSound == ReplicationIsAtomic /\ FaultsHaveCause

\* No two calls wait for each other's locks: every call returns.
CallsReturn ==
    \A t \in Threads : (thread[t].at # "idle") ~> (thread[t].at = "idle" \/ fault # "none")

=============================================================================
