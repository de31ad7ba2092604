--------------------------- MODULE SimplePreProofs ---------------------------
(***************************************************************************)
(* Proofs about SimplePre, for any number of clients, ingress threads,     *)
(* groups, nodes and LAGs.                                                 *)
(***************************************************************************)
EXTENDS SimplePre, FiniteSetTheorems, WellFoundedInduction, TLAPS

-----------------------------------------------------------------------------
\* Numbers.

(***************************************************************************)
(* A non-empty set of naturals has a least element.                        *)
(***************************************************************************)
LEMMA NatMin ==
    ASSUME NEW T, T \subseteq Nat, T # {}
    PROVE  \E x \in T : \A y \in T : x <= y
<1> DEFINE R == OpToRel(<, Nat)
<1>1. IsWellFoundedOn(R, Nat)
    BY NatLessThanWellFounded
<1> HIDE DEF R
<1>2. PICK x \in T : \A y \in T : ~(<<y, x>> \in R)
    BY <1>1, WFMin
<1>3. \A y \in T : ~(y < x)
    BY <1>2 DEF R, OpToRel
<1> QED
    BY <1>3

(***************************************************************************)
(* HandleMgr::get_handle finds a handle: of the first n + 1 naturals one   *)
(* is not in a set of n, and so there is a first one.                      *)
(***************************************************************************)
LEMMA FirstFreeExists ==
    ASSUME NEW used, IsFiniteSet(used), used \subseteq Nat
    PROVE  \E h \in 0 .. Cardinality(used) :
               h \notin used /\ \A g \in 0 .. h - 1 : g \in used
<1> DEFINE n == Cardinality(used)
<1>1. n \in Nat
    BY FS_CardinalityType
<1>2. ~((0 .. n) \subseteq used)
    <2> SUFFICES ASSUME (0 .. n) \subseteq used PROVE FALSE
        OBVIOUS
    <2>1. Cardinality(0 .. n) <= n
        BY FS_Subset
    <2>2. Cardinality(0 .. n) = n + 1
        BY <1>1, FS_Interval
    <2> QED
        BY <1>1, <2>1, <2>2
<1> DEFINE free == {h \in 0 .. n : h \notin used}
<1>3. PICK x \in free : \A y \in free : x <= y
    <2>1. free \subseteq Nat /\ free # {}
        BY <1>1, <1>2
    <2> HIDE DEF free
    <2> QED
        BY <2>1, NatMin
<1>4. x \in 0 .. n /\ x \notin used /\ \A g \in 0 .. x - 1 : g \in used
    BY <1>1, <1>3
<1> QED
    BY <1>4

(***************************************************************************)
(* The elements of a finite set of naturals can be numbered in their       *)
(* order: for each n up to its size one of them has n elements up to it.   *)
(***************************************************************************)
LEMMA RankExists ==
    ASSUME NEW m \in Nat, NEW K, K \subseteq 1 .. m, NEW n \in 1 .. Cardinality(K)
    PROVE  \E i \in K : Cardinality({j \in K : j <= i}) = n
<1> DEFINE Upto(i) == {j \in K : j <= i}
           f(i) == Cardinality(Upto(i))
<1>0. \A j \in K : j \in Nat /\ 1 <= j /\ j <= m
    OBVIOUS
<1>1. IsFiniteSet(K) /\ Cardinality(K) \in Nat
    <2>1. IsFiniteSet(1 .. m)
        BY FS_Interval
    <2> QED
        BY <2>1, FS_Subset, FS_CardinalityType
<1>2. \A i : IsFiniteSet(Upto(i)) /\ f(i) \in Nat
    <2>1. \A i : Upto(i) \subseteq K
        OBVIOUS
    <2> HIDE DEF Upto
    <2> QED
        BY <1>1, <2>1, FS_Subset, FS_CardinalityType
<1>3. f(m) = Cardinality(K)
    <2>1. Upto(m) = K
        BY <1>0
    <2> QED
        BY <2>1
<1>4. f(0) = 0
    <2>1. \A j \in K : ~(j <= 0)
        BY <1>0
    <2>2. Upto(0) = {}
        BY <2>1
    <2> QED
        BY <2>2, FS_EmptySet
<1>5. \A i \in 1 .. m : IF i \in K THEN f(i) = f(i - 1) + 1 ELSE f(i) = f(i - 1)
    <2> SUFFICES ASSUME NEW i \in 1 .. m
                 PROVE  IF i \in K THEN f(i) = f(i - 1) + 1 ELSE f(i) = f(i - 1)
        OBVIOUS
    <2>1. CASE i \in K
        <3>1. Upto(i) = Upto(i - 1) \cup {i} /\ i \notin Upto(i - 1)
            <4>1. \A j \in K : (j <= i <=> (j <= i - 1 \/ j = i))
                BY <1>0
            <4>2. ~(i <= i - 1)
                OBVIOUS
            <4> QED
                BY <2>1, <4>1, <4>2
        <3> HIDE DEF Upto
        <3>2. Cardinality(Upto(i - 1) \cup {i}) = Cardinality(Upto(i - 1)) + 1
            BY <1>2, <3>1, FS_AddElement
        <3> QED
            BY <2>1, <3>1, <3>2
    <2>2. CASE i \notin K
        <3>1. Upto(i) = Upto(i - 1)
            <4>1. \A j \in K : (j <= i <=> j <= i - 1)
                BY <1>0, <2>2
            <4> QED
                BY <4>1
        <3> QED
            BY <2>2, <3>1
    <2> QED
        BY <2>1, <2>2
<1> HIDE DEF f
<1> DEFINE S == {i \in 0 .. m : f(i) >= n}
<1>6. PICK i \in S : \A j \in S : i <= j
    <2>1. S \subseteq Nat
        OBVIOUS
    <2>2. m \in S
        BY <1>1, <1>3
    <2> HIDE DEF S
    <2> QED
        BY <2>1, <2>2, NatMin
<1>7. i \in 1 .. m /\ f(i) >= n
    BY <1>4, <1>6, <1>1
<1>8. i - 1 \in 0 .. m /\ f(i - 1) < n
    <2>1. i - 1 \in 0 .. m /\ i - 1 \notin S
        BY <1>6, <1>7
    <2>2. f(i - 1) \in Nat
        BY <1>2 DEF f
    <2> QED
        BY <2>1, <2>2, <1>1
<1>9. i \in K /\ f(i) = n
    <2>1. f(i) \in Nat /\ f(i - 1) \in Nat
        BY <1>2 DEF f
    <2> QED
        BY <1>5, <1>7, <1>8, <1>1, <2>1
<1> QED
    BY <1>9 DEF f


\* The calls a thread can be in: RPC threads make control calls, ingress threads
\* replicate.
ControlCalls ==
    PreCalls \cup [op : {"set_lag"}, lag_index : LagIndices, port_map : LagMaps]
ReplicateCalls == [op : {"replicate"}, mgid : Mgids]
CallsOf(t) == IF t \in Clients THEN ControlCalls ELSE ReplicateCalls

\* A thread is idle, takes the locks of a call or is in its body; or it is an ingress
\* thread on its way through a group.
ThreadOK(t) ==
    \/ thread[t] = Idle
    \/ thread[t] \in [at : {"lock", "body", "map"}, call : CallsOf(t), held : Nat]
    \/ /\ t \in Packets
       /\ thread[t].call \in ReplicateCalls
       /\ thread[t] = [at |-> "copy", call |-> thread[t].call, todo |-> thread[t].todo,
                       out |-> thread[t].out, lag_out |-> thread[t].lag_out]

\* A lock is shared by ingress threads or held by one RPC thread; a thread holds the
\* first locks of its call while it takes them, and all of them in its body.
LocksHeld ==
    /\ holders \in [Locks -> SUBSET Threads]
    /\ \A l \in Locks : holders[l] \subseteq Packets \/ \E t \in Clients : holders[l] = {t}
    /\ \A t \in Threads :
          LET ls == LocksOf(thread[t].call.op) IN
          /\ thread[t].at = "lock" =>
                thread[t].held < Len(ls) /\ \A i \in 1 .. thread[t].held : t \in holders[ls[i]]
          /\ thread[t].at \in {"body", "map", "copy"} =>
                \A i \in 1 .. Len(ls) : t \in holders[ls[i]]

ThreadInv ==
    /\ DOMAIN thread = Threads
    /\ thread = [t \in Threads |-> thread[t]]
    /\ \A t \in Threads : ThreadOK(t)
    /\ LocksHeld

\* The tables of the nodes: the handles in use lie in the range of the handle managers.
TableTypes ==
    /\ l1_handles \subseteq 0 .. L1_MAX_ENTRIES - 1
    /\ l2_handles \subseteq 0 .. L2_MAX_ENTRIES - 1
    /\ l1_entries \in [l1_handles -> [mgrp_hdl : Mgids \cup {0}, rid : Rids, l2_hdl : Nat]]
    /\ l2_entries \in [l2_handles -> [l1_hdl : Nat, ports : {m.ports : m \in NodeMaps},
                                      lags : {m.lags : m \in NodeMaps}]]

TableInv == TableTypes /\ HandlesMatchEntries

\* As long as nobody destroyed a node that a group listed, the groups list nodes that
\* exist, and so do the copies of the lists that ingress threads work through.
ListsMatchNodes ==
    /\ \A g \in DOMAIN mgid_entries : mgid_entries[g] \in Seq(Nat)
    /\ \A t \in Packets : thread[t].at = "copy" => thread[t].todo \in Seq(Nat)
    /\ ~destroyed_in_group =>
          /\ \A g \in DOMAIN mgid_entries :
                \A i \in 1 .. Len(mgid_entries[g]) : mgid_entries[g][i] \in l1_handles
          /\ \A t \in Packets : thread[t].at = "copy" =>
                \A i \in 1 .. Len(thread[t].todo) : thread[t].todo[i] \in l1_handles

PreInv == ThreadInv /\ TableInv /\ ListsMatchNodes /\ FaultsHaveCause

-----------------------------------------------------------------------------
\* Threads and locks.

\* The operations and their locks.
Operations == {"mgrp_create", "mgrp_destroy", "node_create", "node_destroy",
               "node_update", "associate", "dissociate", "replicate", "set_lag"}

LEMMA LocksOfType ==
    ASSUME NEW op \in Operations
    PROVE  LocksOf(op) \in Seq(Locks) /\ Len(LocksOf(op)) > 0
<1>1. LocksOf(op) \in {<<"mgid">>, <<"l1", "l2">>, <<"mgid", "l1">>, <<"mgid", "l1", "l2">>,
                       <<"lag">>}
    BY DEF Operations, LocksOf
<1>2. /\ <<"mgid">> \in Seq(Locks) /\ <<"lag">> \in Seq(Locks)
      /\ Len(<<"mgid">>) > 0 /\ Len(<<"lag">>) > 0
    BY DEF Locks
<1>3. /\ <<"l1", "l2">> \in Seq(Locks) /\ <<"mgid", "l1">> \in Seq(Locks)
      /\ Len(<<"l1", "l2">>) > 0 /\ Len(<<"mgid", "l1">>) > 0
    BY DEF Locks
<1>4. <<"mgid", "l1", "l2">> \in Seq(Locks) /\ Len(<<"mgid", "l1", "l2">>) > 0
    BY DEF Locks
<1> QED
    BY <1>1, <1>2, <1>3, <1>4

LEMMA CallOperation ==
    ASSUME NEW t \in Threads, NEW call \in CallsOf(t)
    PROVE  call.op \in Operations /\ (t \in Packets => call.op = "replicate")
<1>1. ControlCalls \cup ReplicateCalls # {} => \A c \in ControlCalls : c.op \in Operations
    BY DEF ControlCalls, PreCalls, Operations
<1>2. \A c \in ReplicateCalls : c.op = "replicate"
    BY DEF ReplicateCalls
<1>3. t \in Packets => t \notin Clients
    BY PreAssumption
<1> QED
    BY <1>1, <1>2, <1>3 DEF CallsOf, Operations, Threads

\* What LocksHeld says of one thread.
ThreadLocks(t) ==
    LET ls == LocksOf(thread[t].call.op) IN
    /\ thread[t].at = "lock" =>
          thread[t].held < Len(ls) /\ \A i \in 1 .. thread[t].held : t \in holders[ls[i]]
    /\ thread[t].at \in {"body", "map", "copy"} =>
          \A i \in 1 .. Len(ls) : t \in holders[ls[i]]

\* A step of thread t that leaves its locks alone.
LEMMA OwnStep ==
    ASSUME ThreadInv, NEW t \in Threads, NEW r, thread' = [thread EXCEPT ![t] = r],
           holders' = holders, ThreadOK(t)', ThreadLocks(t)'
    PROVE  ThreadInv'
<1>1. /\ DOMAIN thread' = Threads
      /\ thread' = [u \in Threads |-> thread'[u]]
      /\ \A u \in Threads \ {t} : thread'[u] = thread[u]
    BY DEF ThreadInv
<1>2. \A u \in Threads : ThreadOK(u)'
    BY <1>1 DEF ThreadInv, ThreadOK
<1>3. \A u \in Threads \ {t} : ThreadLocks(u)'
    BY <1>1 DEF ThreadInv, LocksHeld, ThreadLocks
<1>4. LocksHeld'
    BY <1>3 DEF ThreadInv, LocksHeld, ThreadLocks
<1> QED
    BY <1>1, <1>2, <1>4 DEF ThreadInv

\* A thread that does not step and that nobody takes a lock from keeps what it holds.
LEMMA KeepsLocks ==
    ASSUME ThreadInv, NEW u \in Threads, thread'[u] = thread[u],
           \A l \in Locks : u \in holders[l] => u \in holders'[l]
    PROVE  ThreadLocks(u)'
<1>1. ThreadLocks(u) /\ ThreadOK(u)
    BY DEF ThreadInv, LocksHeld, ThreadLocks
<1> DEFINE ls == LocksOf(thread[u].call.op)
<1>2. thread[u].at \in {"lock", "body", "map", "copy"} =>
          ls \in Seq(Locks) /\ (thread[u].at = "lock" => thread[u].held \in Nat)
    <2>1. thread[u].at \in {"lock", "body", "map", "copy"} => thread[u].call \in CallsOf(u)
        BY <1>1, PreAssumption DEF ThreadOK, Idle, CallsOf
    <2>2. thread[u].at = "lock" => thread[u].held \in Nat
        BY <1>1 DEF ThreadOK, Idle
    <2> QED
        BY <2>1, <2>2, CallOperation, LocksOfType
<1> HIDE DEF ls
<1>3. thread[u].at \in {"lock", "body", "map", "copy"} =>
          \A i \in 1 .. Len(ls) : u \in holders[ls[i]] => u \in holders'[ls[i]]
    BY <1>2
<1> QED
    BY <1>1, <1>2, <1>3 DEF ThreadLocks, ls

\* A call ends: its thread lets go of every lock.
LEMMA ReturnThreadInv ==
    ASSUME ThreadInv, NEW t \in Threads, Return(t)
    PROVE  ThreadInv'
<1>1. /\ DOMAIN thread' = Threads
      /\ thread' = [u \in Threads |-> thread'[u]]
      /\ thread'[t] = Idle
      /\ \A u \in Threads \ {t} : thread'[u] = thread[u]
      /\ holders' = [l \in Locks |-> holders[l] \ {t}]
    BY DEF ThreadInv, Return
<1>2. \A u \in Threads : ThreadOK(u)'
    BY <1>1 DEF ThreadInv, ThreadOK
<1>3. /\ holders' \in [Locks -> SUBSET Threads]
      /\ \A l \in Locks : \A u \in Threads \ {t} : u \in holders'[l] <=> u \in holders[l]
    BY <1>1 DEF ThreadInv, LocksHeld
<1>4. \A l \in Locks : holders'[l] \subseteq Packets \/ \E u \in Clients : holders'[l] = {u}
    <2> SUFFICES ASSUME NEW l \in Locks
                 PROVE  holders'[l] \subseteq Packets \/ \E u \in Clients : holders'[l] = {u}
        OBVIOUS
    <2>1. holders'[l] = holders[l] \ {t}
        BY <1>1
    <2>2. CASE holders[l] \subseteq Packets
        BY <2>1, <2>2
    <2>3. ASSUME NEW u \in Clients, holders[l] = {u}
          PROVE  holders'[l] = {} \/ holders'[l] = {u}
        BY <2>1, <2>3
    <2> QED
        BY <2>2, <2>3 DEF ThreadInv, LocksHeld
<1>5. ASSUME NEW u \in Threads PROVE ThreadLocks(u)'
    <2>1. CASE u = t
        BY <1>1, <2>1 DEF ThreadLocks, Idle
    <2>2. CASE u # t
        BY <1>1, <1>3, <2>2, KeepsLocks
    <2> QED
        BY <2>1, <2>2
<1>6. LocksHeld'
    BY <1>3, <1>4, <1>5 DEF LocksHeld, ThreadLocks
<1> QED
    BY <1>1, <1>2, <1>6 DEF ThreadInv

\* A thread calls.
LEMMA RequestThreadInv ==
    ASSUME ThreadInv, NEW t \in Threads, NEW call \in CallsOf(t), Request(t, call)
    PROVE  ThreadInv'
<1> DEFINE r == [at |-> "lock", call |-> call, held |-> 0]
<1>1. thread' = [thread EXCEPT ![t] = r] /\ holders' = holders
    BY DEF Request
<1>2. thread'[t] = r
    BY <1>1 DEF ThreadInv
<1>3. ThreadOK(t)'
    BY <1>2 DEF ThreadOK
<1>4. ThreadLocks(t)'
    BY <1>2, CallOperation, LocksOfType DEF ThreadLocks
<1> HIDE DEF r
<1> QED
    BY <1>1, <1>3, <1>4, OwnStep

\* The record of a thread that takes its locks or is in a control call.
LEMMA CallRecord ==
    ASSUME ThreadInv, NEW t \in Threads, thread[t].at \in {"lock", "body", "map"}
    PROVE  /\ thread[t] \in [at : {"lock", "body", "map"}, call : CallsOf(t), held : Nat]
           /\ LocksOf(thread[t].call.op) \in Seq(Locks)
           /\ thread[t].call.op \in Operations
           /\ t \in Packets => thread[t].call.op = "replicate"
<1>1. ThreadOK(t)
    BY DEF ThreadInv
<1>2. thread[t] \in [at : {"lock", "body", "map"}, call : CallsOf(t), held : Nat]
    BY <1>1 DEF ThreadOK, Idle
<1>3. thread[t].call \in CallsOf(t)
    BY <1>2
<1> QED
    BY <1>2, <1>3, CallOperation, LocksOfType

\* A thread takes the next lock of its call.
LEMMA LockThreadInv ==
    ASSUME ThreadInv, NEW t \in Threads, Lock(t)
    PROVE  ThreadInv'
<1> DEFINE ls == LocksOf(thread[t].call.op)
           l == ls[thread[t].held + 1]
           c == thread[t].call
           k == thread[t].held
<1>1. /\ thread[t] \in [at : {"lock", "body", "map"}, call : CallsOf(t), held : Nat]
      /\ ls \in Seq(Locks)
    BY CallRecord DEF Lock
<1>2. k \in Nat /\ k < Len(ls) /\ \A i \in 1 .. k : t \in holders[ls[i]]
    BY <1>1 DEF ThreadInv, LocksHeld, Lock
<1>3. l \in Locks /\ Len(ls) \in Nat
    BY <1>1, <1>2
<1>4. /\ holders' = [holders EXCEPT ![l] = @ \cup {t}]
      /\ IF t \in Packets THEN holders[l] \subseteq Packets ELSE holders[l] = {}
    BY DEF Lock
<1>5. /\ DOMAIN thread' = Threads
      /\ thread' = [u \in Threads |-> thread'[u]]
      /\ \A u \in Threads \ {t} : thread'[u] = thread[u]
    BY DEF ThreadInv, Lock
<1>6. thread'[t] = [at |-> IF k + 1 = Len(ls) THEN "body" ELSE "lock", call |-> c, held |-> k + 1]
    BY <1>1 DEF ThreadInv, Lock
<1> HIDE DEF l
<1>7. /\ holders' \in [Locks -> SUBSET Threads]
      /\ t \in holders'[l]
      /\ \A m \in Locks : holders[m] \subseteq holders'[m]
    BY <1>3, <1>4 DEF ThreadInv, LocksHeld
<1>8. ASSUME NEW m \in Locks
      PROVE  holders'[m] \subseteq Packets \/ \E u \in Clients : holders'[m] = {u}
    <2>1. CASE m # l
        BY <2>1, <1>3, <1>4 DEF ThreadInv, LocksHeld
    <2>2. CASE m = l /\ t \in Packets
        BY <2>2, <1>3, <1>4 DEF ThreadInv, LocksHeld
    <2>3. CASE m = l /\ t \notin Packets
        <3>1. holders'[m] = {t} /\ t \in Clients
            BY <2>3, <1>3, <1>4 DEF ThreadInv, LocksHeld, Threads
        <3> QED
            BY <3>1
    <2> QED
        BY <2>1, <2>2, <2>3
<1>9. \A u \in Threads : ThreadOK(u)'
    <2>1. ThreadOK(t)'
        BY <1>1, <1>2, <1>6 DEF ThreadOK
    <2> QED
        BY <2>1, <1>5 DEF ThreadInv, ThreadOK
<1>10. ASSUME NEW u \in Threads PROVE ThreadLocks(u)'
    <2>1. CASE u # t
        BY <2>1, <1>5, <1>7, KeepsLocks
    <2>2. CASE u = t
        <3>1. \A i \in 1 .. k + 1 : ls[i] \in Locks /\ t \in holders'[ls[i]]
            <4> SUFFICES ASSUME NEW i \in 1 .. k + 1
                         PROVE  ls[i] \in Locks /\ t \in holders'[ls[i]]
                OBVIOUS
            <4>1. ls[i] \in Locks
                BY <1>1, <1>2, <1>3
            <4>2. CASE i = k + 1
                BY <4>1, <4>2, <1>7 DEF l
            <4>3. CASE i \in 1 .. k
                BY <4>1, <4>3, <1>2, <1>7
            <4> QED
                BY <4>1, <4>2, <4>3, <1>2
        <3>2. thread'[t].call = c /\ thread'[t].held = k + 1
            BY <1>6
        <3>3. thread'[t].at = IF k + 1 = Len(ls) THEN "body" ELSE "lock"
            BY <1>6
        <3> HIDE DEF k
        <3> QED
            BY <2>2, <3>1, <3>2, <3>3, <1>2, <1>3 DEF ThreadLocks
    <2> QED
        BY <2>1, <2>2
<1>11. LocksHeld'
    BY <1>7, <1>8, <1>10 DEF LocksHeld, ThreadLocks
<1> QED
    BY <1>5, <1>9, <1>11 DEF ThreadInv

\* The body of set_lag_membership between its two writes.
LEMMA SetLagThreadInv ==
    ASSUME ThreadInv, NEW t \in Threads, mc_set_lag_membership(t)
    PROVE  ThreadInv'
<1>1. CASE Return(t)
    BY <1>1, ReturnThreadInv
<1>2. CASE thread' = [thread EXCEPT ![t].at = "map"] /\ holders' = holders
    <2> DEFINE r == [thread[t] EXCEPT !.at = "map"]
    <2>1. thread' = [thread EXCEPT ![t] = r] /\ thread'[t] = r
        BY <1>2 DEF ThreadInv
    <2>2. thread[t] \in [at : {"lock", "body", "map"}, call : CallsOf(t), held : Nat]
        BY CallRecord DEF mc_set_lag_membership, Body
    <2>3. r \in [at : {"lock", "body", "map"}, call : CallsOf(t), held : Nat]
        BY <2>2
    <2>4. r.at = "map" /\ r.call = thread[t].call
        BY <2>2
    <2>5. ThreadOK(t)'
        BY <2>1, <2>3 DEF ThreadOK
    <2>6. ThreadLocks(t)
        BY DEF ThreadInv, LocksHeld, ThreadLocks
    <2>7. ThreadLocks(t)'
        BY <1>2, <2>1, <2>4, <2>6 DEF ThreadLocks, mc_set_lag_membership, Body
    <2> HIDE DEF r
    <2> QED
        BY <1>2, <2>1, <2>5, <2>7, OwnStep
<1> QED
    BY <1>1, <1>2 DEF mc_set_lag_membership

\* Nothing about threads and locks changes.
LEMMA IdleThreadInv ==
    ASSUME ThreadInv, UNCHANGED <<thread, holders>>
    PROVE  ThreadInv'
BY DEF ThreadInv, LocksHeld, ThreadOK

\* What replicate makes of its thread when it has visited a node.
LEMMA ReplicateRecord ==
    ASSUME ThreadInv, NEW t \in Threads, replicate_node(t), thread' # thread
    PROVE  /\ t \in Packets /\ thread[t].call \in ReplicateCalls
           /\ \E r, y, z :
                 /\ y = Append(thread[t].out, PortCopies(Head(thread[t].todo)))
                 /\ r = [at |-> "copy", call |-> thread[t].call, todo |-> Tail(thread[t].todo),
                         out |-> y, lag_out |-> z]
                 /\ thread' = [thread EXCEPT ![t] = r] /\ thread'[t] = r
<1> DEFINE h == Head(thread[t].todo)
           lags == l2_entries[l1_entries[h].l2_hdl].lags
           x == Tail(thread[t].todo)
           y == Append(thread[t].out, PortCopies(h))
           z == thread[t].lag_out \cup UNION {LagPorts(lag_entries[i]) : i \in lags}
<1>1. thread' = [thread EXCEPT ![t].todo = Tail(@),
                               ![t].out = Append(@, PortCopies(h)),
                               ![t].lag_out = @ \cup UNION
                                   {LagPorts(lag_entries[i]) : i \in lags}]
    BY Zenon DEF replicate_node
<1>2. ThreadOK(t) /\ thread[t].at = "copy" /\ holders' = holders
    BY DEF ThreadInv, replicate_node
<1>3. /\ t \in Packets
      /\ thread[t].call \in ReplicateCalls
      /\ thread[t] = [at |-> "copy", call |-> thread[t].call, todo |-> thread[t].todo,
                      out |-> thread[t].out, lag_out |-> thread[t].lag_out]
    BY <1>2 DEF ThreadOK, Idle
<1> DEFINE r == [at |-> "copy", call |-> thread[t].call, todo |-> x, out |-> y, lag_out |-> z]
<1>4. thread' = [thread EXCEPT ![t] = r] /\ thread'[t] = r
    <2> HIDE DEF x, y, z
    <2>1. thread' = [thread EXCEPT ![t] = [[[thread[t] EXCEPT !.todo = x] EXCEPT !.out = y]
                                                      EXCEPT !.lag_out = z]]
        <3>1. \A i, o, l : thread[t] = [at |-> "copy", call |-> thread[t].call, todo |-> i,
                                       out |-> o, lag_out |-> l] =>
                  /\ [thread[t] EXCEPT !.todo = x].out = o
                  /\ [[thread[t] EXCEPT !.todo = x] EXCEPT !.out = y].lag_out = l
            OBVIOUS
        <3> QED
            BY <1>1, <1>3, <3>1 DEF x, y, z, ThreadInv
    <2>2. [[[thread[t] EXCEPT !.todo = x] EXCEPT !.out = y] EXCEPT !.lag_out = z] = r
        <3> DEFINE R(c, i, o, l) ==
                [at |-> "copy", call |-> c, todo |-> i, out |-> o, lag_out |-> l]
        <3>1. \A c, i, o, l, v : [R(c, i, o, l) EXCEPT !.todo = v] = R(c, v, o, l)
            OBVIOUS
        <3>2. \A c, i, o, l, v : [R(c, i, o, l) EXCEPT !.out = v] = R(c, i, v, l)
            OBVIOUS
        <3>3. \A c, i, o, l, v : [R(c, i, o, l) EXCEPT !.lag_out = v] = R(c, i, o, v)
            OBVIOUS
        <3>4. PICK c, i, o, l : thread[t] = R(c, i, o, l) /\ c = thread[t].call
            BY <1>3
        <3>5. r = R(c, x, y, z)
            BY <3>4
        <3> HIDE DEF R, r
        <3>6. [thread[t] EXCEPT !.todo = x] = R(c, x, o, l)
            BY <3>1, <3>4
        <3>7. [R(c, x, o, l) EXCEPT !.out = y] = R(c, x, y, l)
            BY <3>2
        <3>8. [R(c, x, y, l) EXCEPT !.lag_out = z] = R(c, x, y, z)
            BY <3>3
        <3> QED
            BY <3>5, <3>6, <3>7, <3>8
    <2> QED
        BY <2>1, <2>2 DEF ThreadInv
<1>5. y = Append(thread[t].out, PortCopies(Head(thread[t].todo)))
    OBVIOUS
<1> HIDE DEF y, z
<1> QED
    BY <1>3, <1>4, <1>5

\* replicate keeps its locks while it copies.
LEMMA ReplicateThreadInv ==
    ASSUME ThreadInv, NEW t \in Threads, replicate_start(t) \/ replicate_node(t)
    PROVE  ThreadInv'
<1>1. CASE thread' = thread
    BY <1>1, IdleThreadInv DEF replicate_start, replicate_node
<1>2. CASE replicate_start(t) /\ thread' # thread
    <2> DEFINE r == [at |-> "copy", call |-> thread[t].call,
                     todo |-> mgid_entries[thread[t].call.mgid], out |-> <<>>, lag_out |-> {}]
    <2>1. thread' = [thread EXCEPT ![t] = r] /\ holders' = holders
        BY <1>2 DEF replicate_start
    <2>2. thread'[t] = r
        BY <2>1 DEF ThreadInv
    <2>3. /\ thread[t] \in [at : {"lock", "body", "map"}, call : CallsOf(t), held : Nat]
          /\ thread[t].call.op = "replicate" /\ thread[t].at = "body"
        BY <1>2, CallRecord DEF replicate_start, Body
    <2>4. t \in Packets /\ thread[t].call \in ReplicateCalls
        <3>1. \A c \in ControlCalls : c.op # "replicate"
            BY DEF ControlCalls, PreCalls
        <3> QED
            BY <2>3, <3>1 DEF CallsOf, Threads
    <2>5. ThreadOK(t)'
        BY <2>2, <2>4 DEF ThreadOK
    <2>6. ThreadLocks(t)
        BY DEF ThreadInv, LocksHeld, ThreadLocks
    <2>7. ThreadLocks(t)'
        BY <2>1, <2>2, <2>3, <2>6 DEF ThreadLocks
    <2> HIDE DEF r
    <2> QED
        BY <2>1, <2>5, <2>7, OwnStep
<1>3. CASE replicate_node(t) /\ thread' # thread
    <2>1. t \in Packets /\ thread[t].call \in ReplicateCalls
        BY <1>3, ReplicateRecord
    <2>2. thread[t].at = "copy" /\ holders' = holders
        BY <1>3 DEF replicate_node
    <2>3. PICK r, y, z :
             /\ r = [at |-> "copy", call |-> thread[t].call, todo |-> Tail(thread[t].todo),
                     out |-> y, lag_out |-> z]
             /\ thread' = [thread EXCEPT ![t] = r] /\ thread'[t] = r
        BY <1>3, ReplicateRecord
    <2>4. thread'[t].at = "copy" /\ thread'[t].call = thread[t].call
        BY <2>3
    <2>5. ThreadOK(t)'
        <3>1. r = [at |-> "copy", call |-> r.call, todo |-> r.todo, out |-> r.out,
                   lag_out |-> r.lag_out]
            BY <2>3
        <3> QED
            BY <2>1, <2>3, <2>4, <3>1 DEF ThreadOK
    <2>6. ThreadLocks(t)
        BY DEF ThreadInv, LocksHeld, ThreadLocks
    <2>7. ThreadLocks(t)'
        BY <2>2, <2>4, <2>6 DEF ThreadLocks
    <2> QED
        BY <2>2, <2>3, <2>5, <2>7, OwnStep
<1> QED
    BY <1>1, <1>2, <1>3

\* The steps that are the end of a call.
LEMMA EndOfCall ==
    ASSUME NEW t,
           \/ mc_mgrp_create(t) \/ mc_mgrp_destroy(t)
           \/ mc_node_associate(t) \/ mc_node_dissociate(t)
           \/ mc_node_create(t) \/ mc_node_destroy(t) \/ mc_node_update(t)
           \/ SetLagPortMap(t) \/ replicate_end(t)
    PROVE  Return(t)
BY DEF mc_mgrp_create, mc_mgrp_destroy, mc_node_associate, mc_node_dissociate,
       mc_node_create, mc_node_destroy, mc_node_update, SetLagPortMap, replicate_end

\* The calls that threads make are those of their kind.
LEMMA RequestedCalls ==
    ASSUME \/ \E t \in Clients : SimplePreHandler(t) \/ SimplePreLAGHandler(t)
           \/ \E t \in Packets : Multicast(t)
    PROVE  \E t \in Threads : \E call \in CallsOf(t) : Request(t, call)
<1>1. \A t \in Clients : \A call \in PreCalls : call \in CallsOf(t)
    BY DEF CallsOf, ControlCalls
<1>2. \A t \in Clients : \A i \in LagIndices, map \in LagMaps :
          [op |-> "set_lag", lag_index |-> i, port_map |-> map] \in CallsOf(t)
    BY DEF CallsOf, ControlCalls
<1>3. \A t \in Packets : \A g \in Mgids : [op |-> "replicate", mgid |-> g] \in CallsOf(t)
    BY PreAssumption DEF CallsOf, ReplicateCalls
<1>4. ASSUME NEW t \in Clients, SimplePreHandler(t) \/ SimplePreLAGHandler(t)
      PROVE  \E call \in CallsOf(t) : Request(t, call)
    <2>1. CASE \E call \in PreCalls : Request(t, call)
        BY <1>1, <2>1
    <2>2. CASE \E i \in LagIndices, map \in LagMaps :
                  Request(t, [op |-> "set_lag", lag_index |-> i, port_map |-> map])
        BY <1>2, <2>2
    <2> QED
        BY <1>4, <2>1, <2>2 DEF SimplePreHandler, SimplePreLAGHandler
<1>5. ASSUME NEW t \in Packets, Multicast(t)
      PROVE  \E call \in CallsOf(t) : Request(t, call)
    BY <1>3, <1>5 DEF Multicast
<1> QED
    BY <1>4, <1>5 DEF Threads

LEMMA NextThreadInv ==
    ASSUME ThreadInv, [Next]_vars
    PROVE  ThreadInv'
<1>1. CASE \/ \E t \in Clients : SimplePreHandler(t) \/ SimplePreLAGHandler(t)
           \/ \E t \in Packets : Multicast(t)
    BY <1>1, RequestedCalls, RequestThreadInv
<1>2. ASSUME NEW t \in Threads, Step(t)
      PROVE  ThreadInv'
    BY <1>2, LockThreadInv, EndOfCall, ReturnThreadInv, SetLagThreadInv, ReplicateThreadInv
       DEF Step
<1>3. CASE UNCHANGED vars
    BY <1>3, IdleThreadInv DEF vars
<1> QED
    BY <1>1, <1>2, <1>3 DEF Next

-----------------------------------------------------------------------------
\* What the locks protect.

\* The control calls that write the groups and the nodes.
WriteCalls == Operations \ {"replicate", "set_lag"}

\* Such a call in its body excludes every packet that is being replicated.
LEMMA WriterIsAlone ==
    ASSUME ThreadInv, NEW t \in Threads, thread[t].at = "body",
           thread[t].call.op \in WriteCalls
    PROVE  /\ t \in Clients
           /\ thread[t].call \in ControlCalls
           /\ \A p \in Packets : thread[p].at # "copy"
<1> DEFINE op == thread[t].call.op
           l == LocksOf(op)[1]
<1>1. /\ thread[t] \in [at : {"lock", "body", "map"}, call : CallsOf(t), held : Nat]
      /\ LocksOf(op) \in Seq(Locks) /\ Len(LocksOf(op)) > 0
      /\ t \notin Packets
    BY CallRecord, LocksOfType DEF WriteCalls
<1>2. t \in Clients /\ thread[t].call \in ControlCalls
    BY <1>1 DEF Threads, CallsOf
<1>3. t \in holders[l] /\ l \in {"mgid", "l1"}
    <2>1. t \in holders[l]
        <3>1. ThreadLocks(t)
            BY DEF ThreadInv, LocksHeld, ThreadLocks
        <3>2. 1 \in 1 .. Len(LocksOf(op))
            BY <1>1
        <3> QED
            BY <3>1, <3>2 DEF ThreadLocks
    <2>2. l \in {"mgid", "l1"}
        BY DEF WriteCalls, Operations, LocksOf
    <2> QED
        BY <2>1, <2>2
<1>4. ASSUME NEW p \in Packets, thread[p].at = "copy"
      PROVE  FALSE
    <2>1. p \in Threads /\ ThreadOK(p)
        BY DEF ThreadInv, Threads
    <2>2. thread[p].call \in ReplicateCalls
        BY <1>4, <2>1 DEF ThreadOK, Idle
    <2>3. LocksOf(thread[p].call.op) = <<"mgid", "l1", "l2">>
        BY <2>2 DEF ReplicateCalls, LocksOf
    <2>4. p \in holders["mgid"] /\ p \in holders["l1"]
        <3>1. ThreadLocks(p)
            BY <2>1 DEF ThreadInv, LocksHeld, ThreadLocks
        <3>2. \A i \in 1 .. 3 : p \in holders[<<"mgid", "l1", "l2">>[i]]
            BY <1>4, <2>3, <3>1 DEF ThreadLocks
        <3> QED
            BY <3>2
    <2>5. \E u \in Clients : holders[l] = {u}
        BY <1>1, <1>3 DEF ThreadInv, LocksHeld, Locks
    <2> QED
        BY <1>3, <2>4, <2>5, PreAssumption
<1> QED
    BY <1>2, <1>4

\* The steps that change the tables are bodies of write calls.
LEMMA TableWriters ==
    ASSUME [Next]_vars, ~UNCHANGED tables
    PROVE  \E t \in Threads : /\ thread[t].at = "body" /\ thread[t].call.op \in WriteCalls
                             /\ Return(t)
<1>1. CASE \/ \E t \in Clients : SimplePreHandler(t) \/ SimplePreLAGHandler(t)
           \/ \E t \in Packets : Multicast(t)
    BY <1>1, RequestedCalls DEF Request
<1>2. ASSUME NEW t \in Threads, Step(t), ~UNCHANGED tables
      PROVE  thread[t].at = "body" /\ thread[t].call.op \in WriteCalls /\ Return(t)
    <2>1. ~(\/ Lock(t) \/ mc_set_lag_membership(t) \/ SetLagPortMap(t)
            \/ replicate_start(t) \/ replicate_node(t) \/ replicate_end(t))
        BY <1>2 DEF Lock, mc_set_lag_membership, SetLagPortMap, replicate_start,
                    replicate_node, replicate_end
    <2>2. \E op \in WriteCalls : Body(t, op)
        BY <1>2, <2>1 DEF Step, WriteCalls, Operations, mc_mgrp_create, mc_mgrp_destroy,
             mc_node_associate, mc_node_dissociate, mc_node_create, mc_node_destroy,
             mc_node_update
    <2> QED
        BY <1>2, <2>1, <2>2, EndOfCall DEF Step, Body
<1>3. CASE UNCHANGED vars
    BY <1>3 DEF vars, tables
<1> QED
    BY <1>1, <1>2, <1>3 DEF Next

\* A lock that an RPC thread holds is held by nobody else.
WritersExclude ==
    \A l \in Locks : \A t \in Clients :
        t \in holders[l] => holders[l] = {t}

\* While a packet is on its way through its group, no step changes a group or a node.
FrozenStep == (\E p \in Packets : thread[p].at = "copy") => UNCHANGED tables

LEMMA InitThreadInv == Init => ThreadInv
<1> SUFFICES ASSUME Init PROVE ThreadInv
    OBVIOUS
<1>1. /\ DOMAIN thread = Threads
      /\ thread = [t \in Threads |-> thread[t]]
      /\ \A t \in Threads : thread[t] = Idle
    BY DEF Init
<1>2. LocksHeld
    BY <1>1 DEF Init, LocksHeld, Idle
<1> QED
    BY <1>1, <1>2 DEF ThreadInv, ThreadOK

(***************************************************************************)
(* The reader/writer locks of simple_pre.cpp, taken one by one and         *)
(* released together, keep writers apart from readers and each other.      *)
(***************************************************************************)
THEOREM LocksExclude == Spec => []WritersExclude
<1>1. ThreadInv /\ [Next]_vars => ThreadInv'
    BY NextThreadInv
<1>2. ThreadInv => WritersExclude
    BY PreAssumption DEF ThreadInv, LocksHeld, WritersExclude
<1> QED
    BY InitThreadInv, <1>1, <1>2, PTL DEF Spec

(***************************************************************************)
(* What replicate() reads while it visits the nodes of its group one after *)
(* the other does not change under it: every mc_ call that writes a group  *)
(* or a node holds a lock that replicate() shares.                         *)
(***************************************************************************)
THEOREM TablesFrozen == Spec => [][FrozenStep]_vars
<1>1. ThreadInv /\ [Next]_vars => ThreadInv'
    BY NextThreadInv
<1>2. ThreadInv /\ [Next]_vars => [FrozenStep]_vars
    BY TableWriters, WriterIsAlone DEF FrozenStep
<1> QED
    BY InitThreadInv, <1>1, <1>2, PTL DEF Spec

-----------------------------------------------------------------------------
\* Handles, L1 nodes and L2 nodes.

\* The arguments of the calls that work on nodes.
LEMMA CallArguments ==
    ASSUME NEW c \in ControlCalls
    PROVE  /\ c.op \in {"mgrp_create", "mgrp_destroy", "associate", "dissociate"} => c.mgid \in Mgids
           /\ c.op = "node_create" => c.rid \in Rids
           /\ c.op \in {"node_create", "node_update"} => c.maps \in NodeMaps
BY DEF ControlCalls, PreCalls

LEMMA GetHandle ==
    ASSUME NEW used, IsFiniteSet(used), used \subseteq Nat
    PROVE  get_handle(used) \in 0 .. Cardinality(used) /\ get_handle(used) \notin used
BY FirstFreeExists DEF get_handle

LEMMA CreateTableInv ==
    ASSUME ThreadInv, TableInv, NEW t \in Threads, mc_node_create(t)
    PROVE  TableInv'
<1> DEFINE c == thread[t].call
           l1 == get_handle(l1_handles)
           l2 == get_handle(l2_handles)
           n1 == [mgrp_hdl |-> 0, rid |-> c.rid, l2_hdl |-> l2]
           n2 == NewL2Node(l1, c.maps)
<1>1. CASE UNCHANGED <<l1_entries, l2_entries, l1_handles, l2_handles>>
    BY <1>1 DEF TableInv, TableTypes, HandlesMatchEntries
<1>2. CASE /\ ~(Cardinality(DOMAIN l1_entries) >= L1_MAX_ENTRIES)
           /\ ~(Cardinality(DOMAIN l2_entries) >= L2_MAX_ENTRIES)
    <2>1. /\ l1_handles' = l1_handles \cup {l1}
          /\ l2_handles' = l2_handles \cup {l2}
          /\ l1_entries' = Set(l1_entries, l1, n1)
          /\ l2_entries' = Set(l2_entries, l2, n2)
        BY <1>2 DEF mc_node_create
    <2>2. /\ IsFiniteSet(l1_handles) /\ l1_handles \subseteq Nat
          /\ IsFiniteSet(l2_handles) /\ l2_handles \subseteq Nat
        <3>1. IsFiniteSet(0 .. L1_MAX_ENTRIES - 1) /\ IsFiniteSet(0 .. L2_MAX_ENTRIES - 1)
            BY PreAssumption, FS_Interval
        <3>2. /\ l1_handles \subseteq 0 .. L1_MAX_ENTRIES - 1
              /\ l2_handles \subseteq 0 .. L2_MAX_ENTRIES - 1
            BY DEF TableInv, TableTypes
        <3>3. IsFiniteSet(l1_handles) /\ IsFiniteSet(l2_handles)
            BY <3>1, <3>2, FS_Subset
        <3>4. l1_handles \subseteq Nat /\ l2_handles \subseteq Nat
            BY <3>2, PreAssumption
        <3> QED
            BY <3>3, <3>4
    <2>3. /\ l1 \in 0 .. L1_MAX_ENTRIES - 1 /\ l1 \notin l1_handles
          /\ l2 \in 0 .. L2_MAX_ENTRIES - 1 /\ l2 \notin l2_handles
        <3>1. /\ Cardinality(l1_handles) \in Nat /\ Cardinality(l1_handles) < L1_MAX_ENTRIES
              /\ Cardinality(l2_handles) \in Nat /\ Cardinality(l2_handles) < L2_MAX_ENTRIES
            BY <1>2, <2>2, FS_CardinalityType, PreAssumption DEF TableInv, TableTypes
        <3>2. /\ l1 \in 0 .. Cardinality(l1_handles) /\ l1 \notin l1_handles
              /\ l2 \in 0 .. Cardinality(l2_handles) /\ l2 \notin l2_handles
            BY <2>2, GetHandle
        <3> QED
            BY <3>1, <3>2, PreAssumption
    <2>4. c \in ControlCalls /\ c.op = "node_create"
        BY WriterIsAlone DEF mc_node_create, Body, WriteCalls, Operations
    <2>5. c.rid \in Rids /\ c.maps \in NodeMaps
        BY <2>4, CallArguments
    <2>6. /\ n1 \in [mgrp_hdl : Mgids \cup {0}, rid : Rids, l2_hdl : Nat]
          /\ n2 \in [l1_hdl : Nat, ports : {m.ports : m \in NodeMaps},
                     lags : {m.lags : m \in NodeMaps}]
          /\ n1.l2_hdl = l2 /\ n2.l1_hdl = l1
        BY <2>3, <2>5 DEF NewL2Node
    <2> HIDE DEF l1, l2, n1, n2
    <2>7. /\ DOMAIN l1_entries' = l1_handles' /\ l1_entries'[l1] = n1
          /\ \A h \in l1_handles : l1_entries'[h] = l1_entries[h]
          /\ DOMAIN l2_entries' = l2_handles' /\ l2_entries'[l2] = n2
          /\ \A h \in l2_handles : l2_entries'[h] = l2_entries[h]
        BY <2>1, <2>3 DEF TableInv, TableTypes, Set
    <2>8. TableTypes'
        <3>1. /\ l1_handles' \subseteq 0 .. L1_MAX_ENTRIES - 1
              /\ l2_handles' \subseteq 0 .. L2_MAX_ENTRIES - 1
            BY <2>1, <2>3 DEF TableInv, TableTypes
        <3>2. l1_entries' \in [l1_handles' -> [mgrp_hdl : Mgids \cup {0}, rid : Rids, l2_hdl : Nat]]
            BY <2>1, <2>6, <2>7 DEF TableInv, TableTypes, Set
        <3>3. l2_entries' \in [l2_handles' -> [l1_hdl : Nat, ports : {m.ports : m \in NodeMaps},
                                              lags : {m.lags : m \in NodeMaps}]]
            BY <2>1, <2>6, <2>7 DEF TableInv, TableTypes, Set
        <3> QED
            BY <3>1, <3>2, <3>3 DEF TableTypes
    <2>9. HandlesMatchEntries'
        BY <2>1, <2>3, <2>6, <2>7 DEF TableInv, HandlesMatchEntries
    <2> QED
        BY <2>8, <2>9 DEF TableInv
<1> QED
    BY <1>1, <1>2 DEF mc_node_create

LEMMA DestroyTableInv ==
    ASSUME TableInv, NEW t \in Threads, mc_node_destroy(t)
    PROVE  TableInv'
<1> DEFINE l1 == thread[t].call.l1
           l2 == l1_entries[l1].l2_hdl
<1>1. CASE l1 \notin l1_handles
    BY <1>1 DEF mc_node_destroy, TableInv, TableTypes, HandlesMatchEntries
<1>2. CASE l1 \in l1_handles
    <2>1. /\ l1_handles' = l1_handles \ {l1}
          /\ l2_handles' = l2_handles \ {l2}
          /\ l1_entries' = [y \in l1_handles' |-> l1_entries[y]]
          /\ l2_entries' = [y \in l2_handles' |-> l2_entries[y]]
        BY <1>2 DEF mc_node_destroy, erase_l2, Erase, TableInv, TableTypes
    <2> HIDE DEF l1
    <2>2. TableTypes'
        BY <2>1 DEF TableInv, TableTypes
    <2>3. HandlesMatchEntries'
        BY <1>2, <2>1 DEF TableInv, HandlesMatchEntries
    <2> QED
        BY <2>2, <2>3 DEF TableInv
<1> QED
    BY <1>1, <1>2

LEMMA UpdateTableInv ==
    ASSUME ThreadInv, TableInv, NEW t \in Threads, mc_node_update(t)
    PROVE  TableInv'
<1> DEFINE c == thread[t].call
           l2 == l1_entries[c.l1].l2_hdl
<1>1. CASE c.l1 \notin l1_handles
    BY <1>1 DEF mc_node_update, TableInv, TableTypes, HandlesMatchEntries
<1>2. CASE c.l1 \in l1_handles
    <2>1. /\ UNCHANGED <<l1_handles, l2_handles, l1_entries>>
          /\ l2_entries' = [l2_entries EXCEPT ![l2] = UpdatedL2Node(l2_entries[l2], c.maps)]
          /\ l2 \in l2_handles
        BY <1>2 DEF mc_node_update, TableInv, TableTypes, HandlesMatchEntries
    <2>2. c \in ControlCalls /\ c.op = "node_update"
        BY WriterIsAlone DEF mc_node_update, Body, WriteCalls, Operations
    <2>3. c.maps \in NodeMaps
        BY <2>2, CallArguments
    <2>4. /\ UpdatedL2Node(l2_entries[l2], c.maps) \in
                [l1_hdl : Nat, ports : {m.ports : m \in NodeMaps}, lags : {m.lags : m \in NodeMaps}]
          /\ UpdatedL2Node(l2_entries[l2], c.maps).l1_hdl = l2_entries[l2].l1_hdl
        BY <2>1, <2>3 DEF UpdatedL2Node, TableInv, TableTypes
    <2> HIDE DEF l2
    <2>5. TableTypes'
        BY <2>1, <2>4 DEF TableInv, TableTypes
    <2>6. \A h \in l2_handles : l2_entries'[h].l1_hdl = l2_entries[h].l1_hdl
        BY <2>1, <2>4 DEF TableInv, TableTypes
    <2>7. HandlesMatchEntries'
        BY <2>1, <2>5, <2>6 DEF TableInv, TableTypes, HandlesMatchEntries
    <2> QED
        BY <2>5, <2>7 DEF TableInv
<1> QED
    BY <1>1, <1>2

LEMMA AssociateTableInv ==
    ASSUME ThreadInv, TableInv, NEW t \in Threads,
           mc_node_associate(t) \/ mc_node_dissociate(t)
    PROVE  TableInv'
<1> DEFINE c == thread[t].call
<1>1. CASE c.l1 \notin l1_handles
    BY <1>1 DEF mc_node_associate, mc_node_dissociate, TableInv, TableTypes, HandlesMatchEntries
<1>2. CASE c.l1 \in l1_handles
    <2>1. c \in ControlCalls /\ c.op \in {"associate", "dissociate"}
        BY WriterIsAlone DEF mc_node_associate, mc_node_dissociate, Body, WriteCalls, Operations
    <2>2. c.mgid \in Mgids
        BY <2>1, CallArguments
    <2>3. PICK g \in Mgids \cup {0} :
              /\ UNCHANGED <<l1_handles, l2_handles, l2_entries>>
              /\ l1_entries' = [l1_entries EXCEPT ![c.l1].mgrp_hdl = g]
        BY <1>2, <2>2 DEF mc_node_associate, mc_node_dissociate
    <2> HIDE DEF c
    <2>4. TableTypes'
        BY <1>2, <2>3 DEF TableInv, TableTypes
    <2>5. \A h \in l1_handles : l1_entries'[h].l2_hdl = l1_entries[h].l2_hdl
        BY <1>2, <2>3 DEF TableInv, TableTypes
    <2>6. HandlesMatchEntries'
        BY <2>3, <2>4, <2>5 DEF TableInv, TableTypes, HandlesMatchEntries
    <2> QED
        BY <2>4, <2>6 DEF TableInv
<1> QED
    BY <1>1, <1>2

LEMMA NextTableInv ==
    ASSUME ThreadInv, TableInv, [Next]_vars
    PROVE  TableInv'
<1>1. CASE UNCHANGED <<l1_entries, l2_entries, l1_handles, l2_handles>>
    BY <1>1 DEF TableInv, TableTypes, HandlesMatchEntries
<1>2. CASE \/ \E t \in Clients : SimplePreHandler(t) \/ SimplePreLAGHandler(t)
           \/ \E t \in Packets : Multicast(t)
    BY <1>1, <1>2, RequestedCalls DEF Request, tables
<1>3. ASSUME NEW t \in Threads, Step(t),
             ~UNCHANGED <<l1_entries, l2_entries, l1_handles, l2_handles>>
      PROVE  TableInv'
    <2>1. \/ mc_node_associate(t) \/ mc_node_dissociate(t)
          \/ mc_node_create(t) \/ mc_node_destroy(t) \/ mc_node_update(t)
        BY <1>3 DEF Step, tables, Lock, mc_mgrp_create, mc_mgrp_destroy, mc_set_lag_membership,
                    SetLagPortMap, replicate_start, replicate_node, replicate_end
    <2> QED
        BY <2>1, AssociateTableInv, CreateTableInv, DestroyTableInv, UpdateTableInv
<1>4. CASE UNCHANGED vars
    BY <1>1, <1>4 DEF vars, tables
<1> QED
    BY <1>1, <1>2, <1>3, <1>4 DEF Next

LEMMA InitTableInv == Init => TableInv
BY PreAssumption DEF Init, TableInv, TableTypes, HandlesMatchEntries, Empty

(***************************************************************************)
(* The handle managers, the L1 table and the L2 table agree after every    *)
(* sequence of calls: mc_node_create and mc_node_destroy are the only ones *)
(* that enter and erase, in both tables at once, and get_handle never      *)
(* returns a handle that is in use.                                        *)
(***************************************************************************)
THEOREM HandlesAlwaysMatch == Spec => []HandlesMatchEntries
<1>1. ThreadInv /\ TableInv /\ [Next]_vars => (ThreadInv /\ TableInv)'
    BY NextThreadInv, NextTableInv
<1>2. TableInv => HandlesMatchEntries
    BY DEF TableInv
<1> QED
    BY InitThreadInv, InitTableInv, <1>1, <1>2, PTL DEF Spec

-----------------------------------------------------------------------------
\* The lists of the groups.

\* Taking a node out of a list leaves elements of the list, and not that one.
LEMMA WithoutList ==
    ASSUME NEW S, NEW list \in Seq(S), NEW h
    PROVE  /\ Without(list, h) \in Seq(S)
           /\ \A n \in 1 .. Len(Without(list, h)) :
                 \E i \in 1 .. Len(list) : Without(list, h)[n] = list[i] /\ list[i] # h
<1> DEFINE kept == {i \in DOMAIN list : list[i] # h}
           At(n) == CHOOSE i \in kept : Cardinality({j \in kept : j <= i}) = n
           m == Cardinality(kept)
<1>1. DOMAIN list = 1 .. Len(list) /\ Len(list) \in Nat /\ kept \subseteq 1 .. Len(list)
    OBVIOUS
<1>2. m \in Nat
    <2>1. IsFiniteSet(1 .. Len(list))
        BY <1>1, FS_Interval
    <2> HIDE DEF kept
    <2> QED
        BY <1>1, <2>1, FS_Subset, FS_CardinalityType
<1>3. \A n \in 1 .. m : At(n) \in kept
    <2> HIDE DEF kept, m
    <2> SUFFICES ASSUME NEW n \in 1 .. m PROVE At(n) \in kept
        OBVIOUS
    <2>1. \E i \in kept : Cardinality({j \in kept : j <= i}) = n
        BY <1>1, RankExists DEF m
    <2> QED
        BY <2>1, Zenon
<1>4. Without(list, h) = [n \in 1 .. m |-> list[At(n)]]
    BY DEF Without
<1>5. \A n \in 1 .. m : At(n) \in 1 .. Len(list) /\ list[At(n)] # h /\ list[At(n)] \in S
    <2> HIDE DEF At
    <2> QED
        BY <1>1, <1>3
<1> HIDE DEF At, m
<1>6. Without(list, h) \in Seq(S) /\ Len(Without(list, h)) = m
    BY <1>2, <1>4, <1>5
<1> QED
    BY <1>4, <1>5, <1>6

\* What ListsMatchNodes says of a list.
GoodList(list, destroyed, handles) ==
    /\ list \in Seq(Nat)
    /\ ~destroyed => \A i \in 1 .. Len(list) : list[i] \in handles

GroupLists ==
    \A g \in DOMAIN mgid_entries : GoodList(mgid_entries[g], destroyed_in_group, l1_handles)
PacketLists ==
    \A t \in Packets : thread[t].at = "copy" =>
        GoodList(thread[t].todo, destroyed_in_group, l1_handles)

LEMMA ListsSplit == ListsMatchNodes <=> GroupLists /\ PacketLists
BY DEF ListsMatchNodes, GroupLists, PacketLists, GoodList

\* The calls that change a group.
LEMMA GroupListsStep ==
    ASSUME TableInv, ListsMatchNodes, NEW t \in Threads,
           \/ mc_mgrp_create(t) \/ mc_mgrp_destroy(t)
           \/ mc_node_associate(t) \/ mc_node_dissociate(t)
    PROVE  GroupLists' /\ UNCHANGED <<destroyed_in_group, l1_handles>>
<1> DEFINE Good(list) == GoodList(list, destroyed_in_group, l1_handles)
           c == thread[t].call
<1>0. UNCHANGED <<destroyed_in_group, l1_handles>>
    BY DEF mc_mgrp_create, mc_mgrp_destroy, mc_node_associate, mc_node_dissociate
<1>1. \A g \in DOMAIN mgid_entries : Good(mgid_entries[g])
    BY ListsSplit DEF GroupLists
<1>2. Good(<<>>)
    BY DEF GoodList
<1>3. \A g : Good(ListOf(g))
    BY <1>1, <1>2 DEF ListOf
<1>4. \A h \in l1_handles : \A list : Good(list) => Good(Append(list, h))
    <2>1. l1_handles \subseteq Nat
        BY PreAssumption DEF TableInv, TableTypes
    <2> QED
        BY <2>1 DEF GoodList
<1>5. \A h, list : Good(list) => Good(Without(list, h))
    <2> SUFFICES ASSUME NEW h, NEW list, Good(list) PROVE Good(Without(list, h))
        OBVIOUS
    <2>1. list \in Seq(Nat)
        BY DEF GoodList
    <2>2. /\ Without(list, h) \in Seq(Nat)
          /\ \A n \in 1 .. Len(Without(list, h)) :
                \E i \in 1 .. Len(list) : Without(list, h)[n] = list[i]
        BY <2>1, WithoutList
    <2> QED
        BY <2>2 DEF GoodList
<1> HIDE DEF Good
<1>6. \/ \E g : mgid_entries' = Erase(mgid_entries, g)
      \/ \E g, list : mgid_entries' = Set(mgid_entries, g, list) /\ Good(list)
      \/ mgid_entries' = mgid_entries
    <2>1. CASE mc_mgrp_create(t)
        BY <2>1, <1>2 DEF mc_mgrp_create
    <2>2. CASE mc_mgrp_destroy(t)
        BY <2>2 DEF mc_mgrp_destroy
    <2>3. CASE mc_node_associate(t)
        <3>1. c.l1 \in l1_handles => Good(Append(ListOf(c.mgid), c.l1))
            BY <1>3, <1>4
        <3> QED
            BY <2>3, <3>1 DEF mc_node_associate
    <2>4. CASE mc_node_dissociate(t)
        <3>1. Good(Without(ListOf(c.mgid), c.l1))
            BY <1>3, <1>5
        <3> QED
            BY <2>4, <3>1 DEF mc_node_dissociate
    <2> QED
        BY <2>1, <2>2, <2>3, <2>4
<1>7. \A g \in DOMAIN mgid_entries' : Good(mgid_entries'[g])
    <2>1. CASE \E g : mgid_entries' = Erase(mgid_entries, g)
        BY <1>1, <2>1 DEF Erase
    <2>2. CASE \E g, list : mgid_entries' = Set(mgid_entries, g, list) /\ Good(list)
        <3>1. PICK g, list : mgid_entries' = Set(mgid_entries, g, list) /\ Good(list)
            BY <2>2
        <3>2. /\ DOMAIN mgid_entries' = DOMAIN mgid_entries \cup {g}
              /\ \A y \in DOMAIN mgid_entries' :
                    mgid_entries'[y] = IF y = g THEN list ELSE mgid_entries[y]
            BY <3>1 DEF Set
        <3> QED
            BY <1>1, <3>1, <3>2
    <2> QED
        BY <1>1, <1>6, <2>1, <2>2
<1> QED
    BY <1>0, <1>7 DEF Good, GroupLists

\* A thread leaves its call, and the packets keep their copies.
LEMMA ReturnPacketLists ==
    ASSUME ThreadInv, PacketLists, NEW t \in Threads, Return(t),
           UNCHANGED <<destroyed_in_group, l1_handles>>
    PROVE  PacketLists'
<1>1. \A p \in Packets : thread'[p] = thread[p] \/ thread'[p] = Idle
    BY DEF Return, ThreadInv, Threads
<1> QED
    BY <1>1 DEF PacketLists, Idle

\* A node is destroyed: unless some group lists it, no list loses an element; and no
\* packet has a copy of a list.
LEMMA DestroyLists ==
    ASSUME ThreadInv, TableInv, ListsMatchNodes, NEW t \in Threads, mc_node_destroy(t)
    PROVE  ListsMatchNodes'
<1> DEFINE l1 == thread[t].call.l1
<1>1. \A p \in Packets : thread[p].at # "copy"
    BY WriterIsAlone DEF mc_node_destroy, Body, WriteCalls, Operations
<1>2. \A p \in Packets : thread'[p].at # "copy"
    <2>1. \A p \in Packets : thread'[p] = thread[p] \/ thread'[p] = Idle
        BY DEF mc_node_destroy, Return, ThreadInv, Threads
    <2> QED
        BY <1>1, <2>1 DEF Idle
<1>3. PacketLists'
    BY <1>2 DEF PacketLists
<1>4. GroupLists'
    <2>1. GroupLists /\ mgid_entries' = mgid_entries
        BY ListsSplit DEF mc_node_destroy
    <2>2. CASE l1 \notin l1_handles
        BY <2>1, <2>2 DEF mc_node_destroy, GroupLists
    <2>3. CASE l1 \in l1_handles
        <3>1. /\ l1_handles' = l1_handles \ {l1}
              /\ destroyed_in_group' = (destroyed_in_group \/ Listed(l1))
            BY <2>3 DEF mc_node_destroy
        <3>2. ASSUME NEW g \in DOMAIN mgid_entries
              PROVE  GoodList(mgid_entries[g], destroyed_in_group', l1_handles')
            <4>1. /\ mgid_entries[g] \in Seq(Nat)
                  /\ ~destroyed_in_group => \A i \in 1 .. Len(mgid_entries[g]) :
                                               mgid_entries[g][i] \in l1_handles
                BY <2>1 DEF GroupLists, GoodList
            <4>2. ~Listed(l1) => \A i \in 1 .. Len(mgid_entries[g]) : mgid_entries[g][i] # l1
                BY <4>1 DEF Listed
            <4> QED
                BY <3>1, <4>1, <4>2 DEF GoodList
        <3> QED
            BY <2>1, <3>2 DEF GroupLists
    <2> QED
        BY <2>2, <2>3
<1> QED
    BY <1>3, <1>4, ListsSplit, PTL

\* replicate copies the list of its group and goes through it.
LEMMA ReplicateLists ==
    ASSUME ThreadInv, ListsMatchNodes, NEW t \in Threads, replicate_start(t) \/ replicate_node(t)
    PROVE  PacketLists'
<1>1. UNCHANGED <<destroyed_in_group, l1_handles, mgid_entries>> /\ PacketLists /\ GroupLists
    BY ListsSplit DEF replicate_start, replicate_node, tables
<1>2. \A p \in Packets : p # t => thread'[p] = thread[p]
    BY DEF replicate_start, replicate_node, ThreadInv, Threads
<1>3. CASE replicate_start(t) /\ thread' # thread
    <2>1. /\ thread'[t].todo = mgid_entries[thread[t].call.mgid]
          /\ thread[t].call.mgid \in DOMAIN mgid_entries
        <3>1. /\ thread[t].call.mgid \in DOMAIN mgid_entries
              /\ thread' = [thread EXCEPT ![t] =
                              [at |-> "copy", call |-> thread[t].call,
                               todo |-> mgid_entries[thread[t].call.mgid],
                               out |-> <<>>, lag_out |-> {}]]
            BY <1>3 DEF replicate_start
        <3> QED
            BY <3>1 DEF ThreadInv
    <2> QED
        BY <1>1, <1>2, <2>1 DEF PacketLists, GroupLists
<1>4. CASE replicate_node(t) /\ thread' # thread
    <2> DEFINE todo == thread[t].todo
    <2>1. thread[t].at = "copy" /\ todo # <<>>
        BY <1>4 DEF replicate_node
    <2>2. t \in Packets
        BY <2>1 DEF ThreadInv, ThreadOK, Idle
    <2>3. GoodList(todo, destroyed_in_group, l1_handles)
        BY <1>1, <2>1, <2>2 DEF PacketLists
    <2>4. GoodList(Tail(todo), destroyed_in_group, l1_handles)
        BY <2>1, <2>3 DEF GoodList
    <2>5. thread'[t].todo = Tail(todo)
        <3>1. \E y, z : thread'[t] = [at |-> "copy", call |-> thread[t].call,
                                     todo |-> Tail(todo), out |-> y, lag_out |-> z]
            BY <1>4, ReplicateRecord
        <3> QED
            BY <3>1
    <2> QED
        BY <1>1, <1>2, <2>4, <2>5 DEF PacketLists
<1>5. CASE thread' = thread
    BY <1>1, <1>5 DEF PacketLists
<1> QED
    BY <1>3, <1>4, <1>5

LEMMA NextListsMatchNodes ==
    ASSUME ThreadInv, TableInv, ListsMatchNodes, [Next]_vars
    PROVE  ListsMatchNodes'
<1>0. GroupLists /\ PacketLists
    BY ListsSplit
<1>1. UNCHANGED <<mgid_entries, destroyed_in_group, l1_handles>> => GroupLists'
    BY <1>0 DEF GroupLists
<1>2. CASE \/ \E t \in Clients : SimplePreHandler(t) \/ SimplePreLAGHandler(t)
           \/ \E t \in Packets : Multicast(t)
    <2>1. PICK t \in Threads : \E call \in CallsOf(t) : Request(t, call)
        BY <1>2, RequestedCalls
    <2>2. UNCHANGED <<mgid_entries, destroyed_in_group, l1_handles>>
        BY <2>1 DEF Request, tables
    <2>3. \A p \in Packets : thread'[p] = thread[p] \/ thread'[p].at = "lock"
        BY <2>1 DEF Request, ThreadInv, Threads
    <2>4. GroupLists' /\ PacketLists'
        BY <1>0, <1>1, <2>2, <2>3 DEF PacketLists
    <2> QED
        BY <2>4, ListsSplit, PTL
<1>3. ASSUME NEW t \in Threads, Lock(t)
      PROVE  ListsMatchNodes'
    <2>1. UNCHANGED <<mgid_entries, destroyed_in_group, l1_handles>>
        BY <1>3 DEF Lock, tables
    <2>2. \A p \in Packets : thread'[p] = thread[p] \/ thread'[p].at \in {"body", "lock"}
        BY <1>3, CallRecord DEF Lock, ThreadInv, Threads
    <2>3. GroupLists' /\ PacketLists'
        BY <1>0, <1>1, <2>1, <2>2 DEF PacketLists
    <2> QED
        BY <2>3, ListsSplit, PTL
<1>4. ASSUME NEW t \in Threads,
             \/ mc_mgrp_create(t) \/ mc_mgrp_destroy(t)
             \/ mc_node_associate(t) \/ mc_node_dissociate(t)
      PROVE  ListsMatchNodes'
    <2>1. Return(t)
        BY <1>4, EndOfCall
    <2> QED
        BY <1>0, <1>4, <2>1, GroupListsStep, ReturnPacketLists, ListsSplit, PTL
<1>5. ASSUME NEW t \in Threads, mc_node_create(t)
      PROVE  ListsMatchNodes'
    <2>1. Return(t) /\ UNCHANGED <<mgid_entries, destroyed_in_group>>
        BY <1>5 DEF mc_node_create
    <2>2. l1_handles \subseteq l1_handles'
        BY <1>5 DEF mc_node_create
    <2>3. \A p \in Packets : thread'[p] = thread[p] \/ thread'[p] = Idle
        BY <2>1 DEF Return, ThreadInv, Threads
    <2>4. GroupLists' /\ PacketLists'
        BY <1>0, <2>1, <2>2, <2>3 DEF GroupLists, PacketLists, GoodList, Idle
    <2> QED
        BY <2>4, ListsSplit, PTL
<1>6. ASSUME NEW t \in Threads, mc_node_update(t) \/ SetLagPortMap(t) \/ replicate_end(t)
      PROVE  ListsMatchNodes'
    <2>1. Return(t) /\ UNCHANGED <<mgid_entries, destroyed_in_group, l1_handles>>
        BY <1>6 DEF mc_node_update, SetLagPortMap, replicate_end, tables
    <2>3. GroupLists' /\ PacketLists'
        BY <1>0, <1>1, <2>1, ReturnPacketLists
    <2> QED
        BY <2>3, ListsSplit, PTL
<1>7. ASSUME NEW t \in Threads, mc_set_lag_membership(t)
      PROVE  ListsMatchNodes'
    <2>1. UNCHANGED <<mgid_entries, destroyed_in_group, l1_handles>>
        BY <1>7 DEF mc_set_lag_membership, tables
    <2>2. \A p \in Packets : thread'[p] = thread[p] \/ thread'[p].at # "copy"
        <3>1. \/ thread' = [thread EXCEPT ![t] = Idle]
              \/ thread' = [thread EXCEPT ![t].at = "map"]
            BY <1>7 DEF mc_set_lag_membership, Return
        <3>2. thread[t] \in [at : {"lock", "body", "map"}, call : CallsOf(t), held : Nat]
            BY <1>7, CallRecord DEF mc_set_lag_membership, Body
        <3> QED
            BY <3>1, <3>2 DEF ThreadInv, Threads, Idle
    <2>3. GroupLists' /\ PacketLists'
        BY <1>0, <1>1, <2>1, <2>2 DEF PacketLists
    <2> QED
        BY <2>3, ListsSplit, PTL
<1>8. ASSUME NEW t \in Threads, replicate_start(t) \/ replicate_node(t)
      PROVE  ListsMatchNodes'
    <2>1. UNCHANGED <<mgid_entries, destroyed_in_group, l1_handles>>
        BY <1>8 DEF replicate_start, replicate_node, tables
    <2> QED
        BY <1>1, <1>8, <2>1, ReplicateLists, ListsSplit, PTL
<1>9. CASE UNCHANGED vars
    <2>1. GroupLists' /\ PacketLists'
        BY <1>0, <1>1, <1>9 DEF vars, tables, PacketLists
    <2> QED
        BY <2>1, ListsSplit, PTL
<1> QED
    BY <1>2, <1>3, <1>4, <1>5, <1>6, <1>7, <1>8, <1>9, DestroyLists DEF Next, Step

\* The only step that ends the process over a node is replicate's.
LEMMA NextFaultsHaveCause ==
    ASSUME ThreadInv, TableInv, ListsMatchNodes, FaultsHaveCause, [Next]_vars
    PROVE  FaultsHaveCause'
<1>1. destroyed_in_group => destroyed_in_group'
    <2>1. CASE \/ \E t \in Clients : SimplePreHandler(t) \/ SimplePreLAGHandler(t)
               \/ \E t \in Packets : Multicast(t)
        BY <2>1, RequestedCalls DEF Request
    <2>2. ASSUME NEW t \in Threads, Step(t), ~mc_node_destroy(t)
          PROVE  UNCHANGED destroyed_in_group
        BY <2>2 DEF Step, Lock, mc_mgrp_create, mc_mgrp_destroy, mc_node_associate,
             mc_node_dissociate, mc_node_create, mc_node_update, mc_set_lag_membership,
             SetLagPortMap, replicate_start, replicate_node, replicate_end
    <2>3. ASSUME NEW t \in Threads, mc_node_destroy(t)
          PROVE  destroyed_in_group => destroyed_in_group'
        BY <2>3 DEF mc_node_destroy
    <2>4. CASE UNCHANGED vars
        BY <2>4 DEF vars
    <2> QED
        BY <2>1, <2>2, <2>3, <2>4 DEF Next
<1>2. CASE fault' = fault \/ fault' = "no group"
    BY <1>1, <1>2 DEF FaultsHaveCause
<1>3. CASE fault' # fault /\ fault' # "no group"
    <2>1. PICK t \in Threads : replicate_node(t)
        <3>1. CASE \/ \E t \in Clients : SimplePreHandler(t) \/ SimplePreLAGHandler(t)
                   \/ \E t \in Packets : Multicast(t)
            BY <1>3, <3>1, RequestedCalls DEF Request
        <3>2. ASSUME NEW t \in Threads, Step(t)
              PROVE  replicate_node(t)
            BY <1>3, <3>2, EndOfCall DEF Step, Return, Lock, mc_set_lag_membership, replicate_start
        <3>3. CASE UNCHANGED vars
            BY <1>3, <3>3 DEF vars
        <3> QED
            BY <3>1, <3>2, <3>3 DEF Next
    <2> DEFINE h == Head(thread[t].todo)
    <2>2. thread[t].at = "copy" /\ thread[t].todo # <<>> /\ t \in Packets
        <3>1. thread[t].at = "copy" /\ thread[t].todo # <<>>
            BY <2>1 DEF replicate_node
        <3> QED
            BY <3>1 DEF ThreadInv, ThreadOK, Idle
    <2>3. ~destroyed_in_group => h \in l1_handles
        <3>1. GoodList(thread[t].todo, destroyed_in_group, l1_handles)
            BY <2>2, ListsSplit DEF PacketLists
        <3> QED
            BY <2>2, <3>1 DEF GoodList
    <2>4. h \in l1_handles => h \in DOMAIN l1_entries /\ l1_entries[h].l2_hdl \in DOMAIN l2_entries
        BY DEF TableInv, HandlesMatchEntries
    <2>5. h \in DOMAIN l1_entries => h \in l1_handles
        BY DEF TableInv, HandlesMatchEntries
    <2>6. /\ fault' = "no l1 node" => h \notin DOMAIN l1_entries
          /\ fault' = "no l2 node" => /\ h \in DOMAIN l1_entries
                                     /\ l1_entries[h].l2_hdl \notin DOMAIN l2_entries
        BY <2>1 DEF replicate_node
    <2> QED
        BY <1>1, <2>3, <2>4, <2>5, <2>6 DEF FaultsHaveCause
<1> QED
    BY <1>2, <1>3

LEMMA InitLists == Init => ListsMatchNodes /\ FaultsHaveCause
BY DEF Init, ListsMatchNodes, FaultsHaveCause, Empty, Idle, Threads

(***************************************************************************)
(* Whatever the calls and the packets do, an L2 node is never missing, and *)
(* at() of replicate() throws over an L1 node only after some client       *)
(* destroyed a node that a group still listed.                             *)
(***************************************************************************)
THEOREM FaultsAlwaysHaveCause == Spec => []FaultsHaveCause
<1>1. Init => PreInv
    BY InitThreadInv, InitTableInv, InitLists DEF PreInv
<1>2. PreInv /\ [Next]_vars => PreInv'
    BY NextThreadInv, NextTableInv, NextListsMatchNodes, NextFaultsHaveCause DEF PreInv
<1>3. PreInv => FaultsHaveCause
    BY DEF PreInv
<1> QED
    BY <1>1, <1>2, <1>3, PTL DEF Spec

-----------------------------------------------------------------------------
\* Replications.

\* The node can be visited: at() finds it and its L2 node.
Present(l1) == l1 \in DOMAIN l1_entries /\ l1_entries[l1].l2_hdl \in DOMAIN l2_entries

\* A replication that has visited the first k nodes of the list, with the copies it made.
Prefix(list, k, todo, out) ==
    /\ \A i \in 1 .. k : Present(list[i])
    /\ todo = [i \in 1 .. Len(list) - k |-> list[k + i]]
    /\ out = [i \in 1 .. k |-> PortCopies(list[i])]

\* A packet on its way through its group has visited a prefix of the group's list, as
\* the list is now, and holds the copies that the nodes stand for now; the rest of the
\* list is still to do.
Visiting(t) ==
    /\ thread[t].call.mgid \in DOMAIN mgid_entries
    /\ \E k \in 0 .. Len(mgid_entries[thread[t].call.mgid]) :
          Prefix(mgid_entries[thread[t].call.mgid], k, thread[t].todo, thread[t].out)

VisitsInOrder == \A t \in Packets : thread[t].at = "copy" => Visiting(t)

LEMMA PrefixStarts ==
    ASSUME NEW list \in Seq(Nat)
    PROVE  Prefix(list, 0, list, <<>>)
<1>1. list = [i \in 1 .. Len(list) - 0 |-> list[0 + i]]
    OBVIOUS
<1>2. <<>> = [i \in 1 .. 0 |-> PortCopies(list[i])]
    OBVIOUS
<1> QED
    BY <1>1, <1>2 DEF Prefix

LEMMA PrefixGrows ==
    ASSUME NEW list \in Seq(Nat), NEW k \in 0 .. Len(list), NEW todo, NEW out,
           Prefix(list, k, todo, out), todo # <<>>, Present(Head(todo))
    PROVE  /\ k + 1 \in 0 .. Len(list)
           /\ Prefix(list, k + 1, Tail(todo), Append(out, PortCopies(Head(todo))))
<1> DEFINE n == Len(list)
<1>0. n \in Nat /\ k \in Nat /\ k <= n /\ \A i \in 1 .. n : list[i] \in Nat
    OBVIOUS
<1>1. todo = [i \in 1 .. n - k |-> list[k + i]]
    BY DEF Prefix
<1>2. todo \in Seq(Nat) /\ Len(todo) = n - k
    BY <1>0, <1>1
<1>3. k < n /\ Head(todo) = list[k + 1]
    <2>1. Len(todo) > 0
        BY <1>2
    <2>2. k < n
        BY <1>0, <1>2, <2>1
    <2>3. Head(todo) = todo[1]
        BY <1>2, <2>1
    <2> QED
        BY <1>0, <1>1, <2>2, <2>3
<1>4. Tail(todo) = [i \in 1 .. n - (k + 1) |-> list[(k + 1) + i]]
    <2>1. Tail(todo) = [i \in 1 .. (n - k) - 1 |-> todo[i + 1]]
        <3> HIDE DEF n
        <3>1. Tail(todo) \in Seq(Nat) /\ Len(Tail(todo)) = (n - k) - 1
            BY <1>2, <1>3, <1>0
        <3>2. \A i \in 1 .. (n - k) - 1 : Tail(todo)[i] = todo[i + 1]
            BY <1>2, <1>3, <1>0
        <3>3. \A s \in Seq(Nat) : s = [i \in 1 .. Len(s) |-> s[i]]
            OBVIOUS
        <3>4. Tail(todo) = [i \in 1 .. (n - k) - 1 |-> Tail(todo)[i]]
            <4>1. Tail(todo) = [i \in 1 .. Len(Tail(todo)) |-> Tail(todo)[i]]
                BY <3>1, <3>3
            <4> QED
                BY <3>1, <4>1
        <3> QED
            BY <3>2, <3>4
    <2>2. \A i \in 1 .. (n - k) - 1 : todo[i + 1] = list[(k + 1) + i]
        BY <1>0, <1>1
    <2>3. (n - k) - 1 = n - (k + 1)
        BY <1>0
    <2> QED
        BY <2>1, <2>2, <2>3
<1>5. Append(out, PortCopies(list[k + 1])) = [i \in 1 .. k + 1 |-> PortCopies(list[i])]
    <2> DEFINE C(i) == PortCopies(list[i])
               S == {C(i) : i \in 1 .. n}
    <2>1. out = [i \in 1 .. k |-> C(i)]
        BY DEF Prefix
    <2>2. \A i \in 1 .. n : C(i) \in S
        OBVIOUS
    <2> HIDE DEF C, S
    <2>3. out \in Seq(S) /\ Len(out) = k
        BY <1>0, <2>1, <2>2
    <2>4. Append(out, C(k + 1)) = [i \in 1 .. k + 1 |-> IF i = k + 1 THEN C(k + 1) ELSE out[i]]
        BY <1>0, <1>3, <2>2, <2>3
    <2>5. \A i \in 1 .. k + 1 : (IF i = k + 1 THEN C(k + 1) ELSE out[i]) = C(i)
        BY <1>0, <2>1
    <2>6. Append(out, C(k + 1)) = [i \in 1 .. k + 1 |-> C(i)]
        BY <2>4, <2>5
    <2> QED
        BY <2>6 DEF C
<1>6. \A i \in 1 .. k + 1 : Present(list[i])
    BY <1>0, <1>3 DEF Prefix
<1>7. k + 1 \in 0 .. n
    BY <1>0, <1>3
<1>8. Prefix(list, k + 1, Tail(todo), Append(out, PortCopies(list[k + 1])))
    BY <1>4, <1>5, <1>6 DEF Prefix
<1> QED
    BY <1>3, <1>7, <1>8

\* The tables stay as they are, and so do the copies that a prefix stands for.
LEMMA StillVisiting ==
    ASSUME NEW t, UNCHANGED tables, NEW g \in DOMAIN mgid_entries,
           NEW k \in 0 .. Len(mgid_entries[g]), NEW todo, NEW out,
           Prefix(mgid_entries[g], k, todo, out),
           thread'[t].call.mgid = g, thread'[t].todo = todo, thread'[t].out = out
    PROVE  Visiting(t)'
<1>1. \A h : PortCopies(h)' = PortCopies(h) /\ Present(h)' = Present(h)
    BY DEF PortCopies, Present, tables
<1>2. mgid_entries' = mgid_entries
    BY DEF tables
<1>3. /\ \A i \in 1 .. k : Present(mgid_entries[g][i])'
      /\ out = [i \in 1 .. k |-> PortCopies(mgid_entries[g][i])']
    BY <1>1, <1>2 DEF Prefix
<1>4. Prefix(mgid_entries[thread[t].call.mgid], k, thread[t].todo, thread[t].out)'
    BY <1>2, <1>3 DEF Prefix
<1> QED
    BY <1>2, <1>4 DEF Visiting

\* Neither the tables nor the packet's own record change.
LEMMA KeepsVisiting ==
    ASSUME NEW t \in Packets, Visiting(t), UNCHANGED tables, thread'[t] = thread[t]
    PROVE  Visiting(t)'
BY StillVisiting DEF Visiting

\* A step that is not one of replicate's leaves a packet that copies alone, and makes
\* none that copies.
LEMMA OtherSteps ==
    ASSUME ThreadInv, [Next]_vars,
           ~\E t \in Threads : replicate_start(t) \/ replicate_node(t)
    PROVE  \A p \in Packets : thread'[p].at = "copy" => thread'[p] = thread[p]
<1>1. CASE \/ \E t \in Clients : SimplePreHandler(t) \/ SimplePreLAGHandler(t)
           \/ \E t \in Packets : Multicast(t)
    <2>1. PICK t \in Threads : \E call \in CallsOf(t) : Request(t, call)
        BY <1>1, RequestedCalls
    <2> QED
        BY <2>1 DEF Request, ThreadInv, Threads
<1>2. ASSUME NEW t \in Threads, Lock(t)
      PROVE  \A p \in Packets : thread'[p].at = "copy" => thread'[p] = thread[p]
    BY <1>2, CallRecord DEF Lock, ThreadInv, Threads
<1>3. ASSUME NEW t \in Threads, Return(t)
      PROVE  \A p \in Packets : thread'[p].at = "copy" => thread'[p] = thread[p]
    BY <1>3 DEF Return, ThreadInv, Threads, Idle
<1>4. ASSUME NEW t \in Threads, mc_set_lag_membership(t)
      PROVE  \A p \in Packets : thread'[p].at = "copy" => thread'[p] = thread[p]
    <2>1. \/ thread' = [thread EXCEPT ![t] = Idle]
          \/ thread' = [thread EXCEPT ![t].at = "map"]
        BY <1>4 DEF mc_set_lag_membership, Return
    <2>2. thread[t] \in [at : {"lock", "body", "map"}, call : CallsOf(t), held : Nat]
        BY <1>4, CallRecord DEF mc_set_lag_membership, Body
    <2> QED
        BY <2>1, <2>2 DEF ThreadInv, Threads, Idle
<1>5. CASE UNCHANGED vars
    BY <1>5 DEF vars
<1> QED
    BY <1>1, <1>2, <1>3, <1>4, <1>5, EndOfCall DEF Next, Step

LEMMA NextVisitsInOrder ==
    ASSUME ThreadInv, TableInv, ListsMatchNodes, VisitsInOrder, [Next]_vars
    PROVE  VisitsInOrder'
<1>1. (\E p \in Packets : thread[p].at = "copy") => UNCHANGED tables
    BY TableWriters, WriterIsAlone
<1>2. ASSUME NEW p \in Packets, thread'[p].at = "copy", thread'[p] = thread[p]
      PROVE  Visiting(p)'
    BY <1>1, <1>2, KeepsVisiting DEF VisitsInOrder
<1>3. CASE ~\E t \in Threads : replicate_start(t) \/ replicate_node(t)
    BY <1>2, <1>3, OtherSteps DEF VisitsInOrder
<1>4. ASSUME NEW t \in Threads, replicate_start(t) \/ replicate_node(t)
      PROVE  VisitsInOrder'
    <2>1. \A p \in Packets : p # t => thread'[p] = thread[p]
        BY <1>4 DEF replicate_start, replicate_node, ThreadInv, Threads
    <2>2. UNCHANGED tables
        BY <1>4 DEF replicate_start, replicate_node
    <2>3. CASE thread' = thread
        BY <1>2, <2>3 DEF VisitsInOrder
    <2>4. CASE replicate_start(t) /\ thread' # thread
        <3> DEFINE g == thread[t].call.mgid
        <3>1. /\ g \in DOMAIN mgid_entries
              /\ thread'[t] = [at |-> "copy", call |-> thread[t].call,
                               todo |-> mgid_entries[g], out |-> <<>>, lag_out |-> {}]
            <4>1. /\ g \in DOMAIN mgid_entries
                  /\ thread' = [thread EXCEPT ![t] =
                                  [at |-> "copy", call |-> thread[t].call,
                                   todo |-> mgid_entries[g], out |-> <<>>, lag_out |-> {}]]
                BY <2>4 DEF replicate_start
            <4> QED
                BY <4>1 DEF ThreadInv
        <3>2. mgid_entries[g] \in Seq(Nat)
            BY <3>1 DEF ListsMatchNodes
        <3>3. Prefix(mgid_entries[g], 0, mgid_entries[g], <<>>)
            BY <3>2, PrefixStarts
        <3>4. 0 \in 0 .. Len(mgid_entries[g])
            BY <3>2
        <3>5. Visiting(t)'
            BY <2>2, <3>1, <3>3, <3>4, StillVisiting
        <3> QED
            BY <1>2, <2>1, <3>5 DEF VisitsInOrder
    <2>5. CASE replicate_node(t) /\ thread' # thread
        <3> DEFINE list == mgid_entries[thread[t].call.mgid]
                   todo == thread[t].todo
        <3>1. /\ t \in Packets
              /\ \E z : thread'[t] = [at |-> "copy", call |-> thread[t].call, todo |-> Tail(todo),
                                      out |-> Append(thread[t].out, PortCopies(Head(todo))),
                                      lag_out |-> z]
            BY <2>5, ReplicateRecord
        <3>2. thread[t].at = "copy" /\ todo # <<>> /\ Present(Head(todo))
            BY <2>5 DEF replicate_node, Present
        <3>3. thread[t].call.mgid \in DOMAIN mgid_entries /\ list \in Seq(Nat)
            BY <3>1, <3>2 DEF VisitsInOrder, Visiting, ListsMatchNodes
        <3>4. PICK k \in 0 .. Len(list) : Prefix(list, k, todo, thread[t].out)
            BY <3>1, <3>2 DEF VisitsInOrder, Visiting
        <3>5. /\ k + 1 \in 0 .. Len(list)
              /\ Prefix(list, k + 1, Tail(todo), Append(thread[t].out, PortCopies(Head(todo))))
            BY <3>2, <3>3, <3>4, PrefixGrows
        <3>6. Visiting(t)'
            <4> DEFINE out == Append(thread[t].out, PortCopies(Head(todo)))
            <4>1. /\ thread'[t].call.mgid = thread[t].call.mgid
                  /\ thread'[t].todo = Tail(todo) /\ thread'[t].out = out
                BY <3>1
            <4>2. Prefix(list, k + 1, Tail(todo), out)
                BY <3>5
            <4> HIDE DEF out
            <4> QED
                BY <2>2, <3>3, <3>5, <4>1, <4>2, StillVisiting
        <3> QED
            BY <1>2, <2>1, <3>6 DEF VisitsInOrder
    <2> QED
        BY <1>4, <2>3, <2>4, <2>5
<1> QED
    BY <1>3, <1>4

\* A replication that has nothing left to do has visited the whole list.
LEMMA VisitedAll ==
    ASSUME ListsMatchNodes, VisitsInOrder
    PROVE  ReplicationIsAtomic
<1> SUFFICES ASSUME NEW t \in Packets, thread[t].at = "copy", thread[t].todo = <<>>
             PROVE  LET list == mgid_entries[thread[t].call.mgid]
                    IN /\ ToSet(list) \subseteq DOMAIN l1_entries
                       /\ \A h \in ToSet(list) : l1_entries[h].l2_hdl \in DOMAIN l2_entries
                       /\ thread[t].out = [i \in DOMAIN list |-> PortCopies(list[i])]
    BY DEF ReplicationIsAtomic
<1> DEFINE list == mgid_entries[thread[t].call.mgid]
<1>1. list \in Seq(Nat)
    BY DEF VisitsInOrder, Visiting, ListsMatchNodes
<1>2. PICK k \in 0 .. Len(list) : Prefix(list, k, thread[t].todo, thread[t].out)
    BY DEF VisitsInOrder, Visiting
<1>3. k = Len(list)
    <2>1. thread[t].todo = [i \in 1 .. Len(list) - k |-> list[k + i]]
        BY <1>2 DEF Prefix
    <2>2. DOMAIN thread[t].todo = 1 .. Len(list) - k /\ DOMAIN thread[t].todo = {}
        BY <2>1
    <2>3. 1 \notin 1 .. Len(list) - k
        BY <2>2
    <2> QED
        BY <1>1, <2>3
<1>4. DOMAIN list = 1 .. k
    BY <1>1, <1>3
<1>5. \A h \in ToSet(list) : Present(h)
    BY <1>2, <1>4 DEF Prefix, ToSet
<1>6. thread[t].out = [i \in DOMAIN list |-> PortCopies(list[i])]
    BY <1>2, <1>4 DEF Prefix
<1> QED
    BY <1>5, <1>6 DEF Present

(***************************************************************************)
(* McSimplePre::replicate() visits the nodes of its group one by one, with *)
(* clients calling and other packets replicating in between: when it ends, *)
(* its copies are those of the group's whole list, in its order, with the  *)
(* ports that the nodes have now, and no missing node was passed over.     *)
(***************************************************************************)
THEOREM ReplicationsAreSound == Spec => []ReplicationIsSound
<1>1. Init => PreInv /\ VisitsInOrder
    <2>1. Init => VisitsInOrder
        BY DEF Init, VisitsInOrder, Idle, Threads
    <2> QED
        BY <2>1, InitThreadInv, InitTableInv, InitLists DEF PreInv
<1>2. PreInv /\ VisitsInOrder /\ [Next]_vars => (PreInv /\ VisitsInOrder)'
    BY NextThreadInv, NextTableInv, NextListsMatchNodes, NextFaultsHaveCause, NextVisitsInOrder
       DEF PreInv
<1>3. PreInv /\ VisitsInOrder => ReplicationIsSound
    BY VisitedAll DEF PreInv, ReplicationIsSound
<1> QED
    BY <1>1, <1>2, <1>3, PTL DEF Spec

=============================================================================
