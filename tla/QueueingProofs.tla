--------------------------- MODULE QueueingProofs ---------------------------
(***************************************************************************)
(* Proofs about Queueing, for any number of queues, workers, priorities    *)
(* and threads and any rates: sizes count the elements, elements leave in  *)
(* order, and no worker sleeps past an element it could send.              *)
(***************************************************************************)
EXTENDS Queueing, FiniteSetTheorems, WellFoundedInduction, TLAPS

-----------------------------------------------------------------------------
\* Numbers.

(***************************************************************************)
(* A non-empty set of naturals has a least element.                        *)
(***************************************************************************)
LEMMA NatMin ==
    ASSUME NEW T, T \subseteq Nat, T # {}
    PROVE  \E x \in T : \A y \in T : x <= y
<1> DEFINE R == OpToRel(<, Nat)
<1>1. IsWellFoundedOn(R, Nat)
    BY NatLessThanWellFounded
<1> HIDE DEF R
<1>2. PICK x \in T : \A y \in T : ~(<<y, x>> \in R)
    BY <1>1, WFMin
<1>3. \A y \in T : ~(y < x)
    BY <1>2 DEF R, OpToRel
<1> QED
    BY <1>3


\* There is a largest capacity.
LargestCapacity == \E b \in Capacities : \A c \in Capacities : c <= b

Ids == Queues \X Priorities
Info == [size : Nat, capacity : Capacities, delay : Nat, last_sent : Nat]
Element == [seq : Nat, queue : Queues, priority : Priorities, send : Nat]

DataTypes ==
    /\ kind \in Kinds /\ now \in Nat /\ pushed \in Nat
    /\ q_info \in [Ids -> Info]
    /\ elements \in [Workers -> SUBSET Element]
    /\ w_size \in [Workers -> Nat]
    /\ \A w \in Workers : IsFiniteSet(elements[w])

\* An element is with the worker of its queue, and older than what comes next: it was
\* numbered before, and leaves no later than what was stamped last.
Placed ==
    \A w \in Workers : \A e \in elements[w] :
        /\ FMap[e.queue] = w /\ e.seq < pushed
        /\ e.send <= q_info[<<e.queue, e.priority>>].last_sent

\* The elements of one queue and priority were stamped in the order they came.
Stamped ==
    \A w \in Workers : \A e, f \in elements[w] :
        e.queue = f.queue /\ e.priority = f.priority /\ f.seq < e.seq => f.send <= e.send

\* The blocking classes do not stamp.
Unstamped == Blocking => \A i \in Ids : q_info[i].last_sent = 0

Counted ==
    /\ \A q \in Queues, p \in Priorities :
          /\ q_info[<<q, p>>].size = Cardinality(ElementsOf(q, p))
          /\ \E c \in Capacities : q_info[<<q, p>>].size <= c
    /\ \A w \in Workers : kind = "pri" => Cardinality(elements[w]) <= w_size[w]

DataInv == DataTypes /\ Placed /\ Stamped /\ Unstamped /\ Counted

-----------------------------------------------------------------------------
\* The data of the queues.

LEMMA ElementsFinite ==
    ASSUME DataTypes, NEW q \in Queues, NEW p \in Priorities
    PROVE  IsFiniteSet(ElementsOf(q, p))
<1>1. ElementsOf(q, p) \subseteq elements[FMap[q]] /\ IsFiniteSet(elements[FMap[q]])
    BY QueueingAssumption DEF ElementsOf, DataTypes
<1> QED
    BY <1>1, FS_Subset

LEMMA InfoStamped ==
    ASSUME NEW info \in Info, NEW send \in Nat, NEW r, r = OneMore(info, send)
    PROVE  /\ r.size = info.size + 1 /\ r.last_sent = send
           /\ r.capacity = info.capacity /\ r \in Info
<1>1. info.size + 1 \in Nat
    BY DEF Info
<1>2. r \in Info
    BY <1>1 DEF Info, OneMore
<1>3. r.size = info.size + 1
    BY DEF Info, OneMore
<1>4. r.last_sent = send
    BY DEF Info, OneMore
<1>5. r.capacity = info.capacity
    BY DEF Info, OneMore
<1> QED
    BY <1>2, <1>3, <1>4, <1>5

\* An element enters a queue that is not full, stamped no earlier than the ones before.
LEMMA Enqueued ==
    ASSUME DataInv, NEW q \in Queues, NEW p \in Priorities, NEW send \in Nat,
           Enqueue(q, p, send), ~Full(q, p), send >= q_info[<<q, p>>].last_sent,
           Blocking => send = 0, UNCHANGED <<kind, now>>,
           w_size' = IF kind = "pri" THEN [w_size EXCEPT ![FMap[q]] = @ + 1] ELSE w_size
    PROVE  DataInv'
<1>1. PICK i : i = <<q, p>>
    OBVIOUS
<1>2. PICK v : v = FMap[q]
    OBVIOUS
<1>3. PICK e : e = [seq |-> pushed, queue |-> q, priority |-> p, send |-> send]
    OBVIOUS
<1>4. DataTypes /\ i \in Ids /\ v \in Workers /\ q_info[i] \in Info /\ q_info \in [Ids -> Info]
    BY <1>1, <1>2, QueueingAssumption DEF DataInv, DataTypes, Ids
<1>5. /\ e \in Element /\ e.seq = pushed /\ e.queue = q /\ e.priority = p /\ e.send = send
    BY <1>3, <1>4 DEF DataTypes, Element
<1>6. e \notin elements[v]
    BY <1>4, <1>5 DEF DataInv, Placed, DataTypes
<1>7. /\ elements' = [elements EXCEPT ![v] = @ \cup {e}]
      /\ q_info' = [q_info EXCEPT ![i] = OneMore(@, send)]
      /\ pushed' = pushed + 1
    BY <1>1, <1>2, <1>3 DEF Enqueue
<1>8. /\ elements'[v] = elements[v] \cup {e}
      /\ \A w \in Workers : w # v => elements'[w] = elements[w]
    BY <1>4, <1>7 DEF DataTypes
<1>9. /\ q_info'[i].size = q_info[i].size + 1 /\ q_info'[i].last_sent = send
      /\ q_info'[i].capacity = q_info[i].capacity /\ q_info'[i] \in Info
      /\ \A j \in Ids : j # i => q_info'[j] = q_info[j]
      /\ q_info' \in [Ids -> Info]
    <2>1. PICK r : r = OneMore(q_info[i], send)
        OBVIOUS
    <2>2. /\ r.size = q_info[i].size + 1 /\ r.last_sent = send
          /\ r.capacity = q_info[i].capacity /\ r \in Info
        <3>1. PICK info : info = q_info[i]
            OBVIOUS
        <3>2. info \in Info /\ r = OneMore(info, send)
            BY <1>4, <2>1, <3>1
        <3>3. /\ r.size = info.size + 1 /\ r.last_sent = send
              /\ r.capacity = info.capacity /\ r \in Info
            BY <3>2, InfoStamped
        <3> QED
            BY <3>1, <3>3
    <2>4. q_info' = [q_info EXCEPT ![i] = r]
        BY <1>7, <2>1
    <2>5. q_info'[i] = r /\ \A j \in Ids : j # i => q_info'[j] = q_info[j]
        BY <1>4, <2>4
    <2>7. q_info' \in [Ids -> Info]
        BY <1>4, <2>2, <2>4
    <2> QED
        BY <2>2, <2>5, <2>7
<1>10. DataTypes'
    <2>1. elements' \in [Workers -> SUBSET Element]
        <3>1. elements \in [Workers -> SUBSET Element]
            BY <1>4 DEF DataTypes
        <3>2. elements[v] \cup {e} \in SUBSET Element
            BY <1>4, <1>5, <3>1
        <3> QED
            BY <1>7, <3>1, <3>2
    <2>2. \A w \in Workers : IsFiniteSet(elements'[w])
        <3>1. IsFiniteSet(elements[v]) /\ \A w \in Workers : IsFiniteSet(elements[w])
            BY <1>4 DEF DataTypes
        <3>2. IsFiniteSet(elements[v] \cup {e})
            BY <3>1, FS_AddElement
        <3> QED
            BY <1>8, <3>1, <3>2
    <2>3. w_size' \in [Workers -> Nat]
        <3>1. w_size \in [Workers -> Nat] /\ FMap[q] \in Workers
            BY <1>2, <1>4 DEF DataTypes
        <3>2. CASE kind = "pri"
            BY <3>1, <3>2
        <3>3. CASE kind # "pri"
            BY <3>1, <3>3
        <3> QED
            BY <3>2, <3>3
    <2> QED
        <3>1. kind' \in Kinds /\ now' \in Nat /\ pushed' \in Nat
            BY <1>4, <1>7 DEF DataTypes
        <3> QED
            BY <1>9, <2>1, <2>2, <2>3, <3>1 DEF DataTypes
<1>11. \A w \in Workers : \A f \in elements[w] : <<f.queue, f.priority>> \in Ids
    BY <1>4 DEF DataTypes, Element, Ids
<1>12. \A j \in Ids : q_info[j].last_sent \in Nat /\ q_info[j].last_sent <= q_info'[j].last_sent
    <2> SUFFICES ASSUME NEW j \in Ids
                 PROVE  /\ q_info[j].last_sent \in Nat
                        /\ q_info[j].last_sent <= q_info'[j].last_sent
        OBVIOUS
    <2>1. q_info[j].last_sent \in Nat
        BY <1>4 DEF Info
    <2>2. CASE j = i
        BY <1>1, <1>9, <2>1, <2>2
    <2>3. CASE j # i
        BY <1>9, <2>1, <2>3
    <2> QED
        BY <2>1, <2>2, <2>3
<1>13. Placed'
    <2> SUFFICES ASSUME NEW w \in Workers, NEW f \in elements'[w]
                 PROVE  /\ FMap[f.queue] = w /\ f.seq < pushed'
                        /\ f.send <= q_info'[<<f.queue, f.priority>>].last_sent
        BY DEF Placed
    <2>1. CASE f \in elements[w]
        <3>1. /\ FMap[f.queue] = w /\ f.seq < pushed /\ f.seq \in Nat /\ f.send \in Nat
              /\ f.send <= q_info[<<f.queue, f.priority>>].last_sent
            BY <1>4, <2>1 DEF DataInv, Placed, DataTypes, Element
        <3> QED
            BY <1>4, <1>7, <1>11, <1>12, <2>1, <3>1, <1>9 DEF DataTypes, Info
    <2>2. CASE f = e /\ w = v
        BY <1>1, <1>2, <1>4, <1>5, <1>7, <1>9, <2>2 DEF DataTypes
    <2> QED
        BY <1>8, <2>1, <2>2
<1>14. Stamped'
    <2> SUFFICES ASSUME NEW w \in Workers, NEW x \in elements'[w], NEW f \in elements'[w],
                        x.queue = f.queue, x.priority = f.priority, f.seq < x.seq
                 PROVE  f.send <= x.send
        BY DEF Stamped
    <2>1. CASE x \in elements[w] /\ f \in elements[w]
        BY <2>1 DEF DataInv, Stamped
    <2>2. CASE x \in elements[w] /\ f = e
        BY <1>4, <1>5, <2>2 DEF DataInv, Placed, DataTypes, Element
    <2>3. CASE x = e /\ f \in elements[w]
        <3>1. f.send <= q_info[i].last_sent /\ f.send \in Nat /\ q_info[i].last_sent \in Nat
            BY <1>1, <1>4, <1>5, <2>3 DEF DataInv, Placed, DataTypes, Element, Info
        <3> QED
            BY <1>1, <1>5, <2>3, <3>1
    <2>4. CASE x = e /\ f = e
        BY <2>4, <1>5
    <2> QED
        BY <1>8, <2>1, <2>2, <2>3, <2>4
<1>15. Unstamped'
    BY <1>9 DEF DataInv, Unstamped, Blocking
<1>16. Counted'
    <2>1. ASSUME NEW a \in Queues, NEW b \in Priorities
          PROVE  /\ q_info'[<<a, b>>].size = Cardinality(ElementsOf(a, b)')
                 /\ \E c \in Capacities : q_info'[<<a, b>>].size <= c
        <3>0. /\ q_info[<<a, b>>].size = Cardinality(ElementsOf(a, b))
              /\ \E c \in Capacities : q_info[<<a, b>>].size <= c
              /\ FMap[a] \in Workers /\ <<a, b>> \in Ids
            BY QueueingAssumption DEF DataInv, Counted, Ids
        <3>1. CASE a = q /\ b = p
            <4>1. ElementsOf(a, b)' = ElementsOf(a, b) \cup {e} /\ e \notin ElementsOf(a, b)
                BY <1>2, <1>5, <1>6, <1>8, <3>1 DEF ElementsOf
            <4>2. Cardinality(ElementsOf(a, b) \cup {e}) = Cardinality(ElementsOf(a, b)) + 1
                BY <1>4, <4>1, ElementsFinite, FS_AddElement
            <4>3. /\ q_info[i].capacity \in Capacities
                  /\ q_info[i].size \in Nat /\ q_info[i].capacity \in Nat
                BY <1>4, QueueingAssumption DEF Info
            <4>4. q_info[i].size + 1 <= q_info[i].capacity
                BY <1>1, <4>3 DEF Full
            <4> QED
                BY <1>1, <1>9, <3>0, <3>1, <4>1, <4>2, <4>3, <4>4
        <3>2. CASE ~(a = q /\ b = p)
            <4>1. ElementsOf(a, b)' = ElementsOf(a, b)
                BY <1>5, <1>8, <3>0, <3>2 DEF ElementsOf
            <4>2. q_info'[<<a, b>>] = q_info[<<a, b>>]
                BY <1>1, <1>9, <3>0, <3>2
            <4> QED
                BY <3>0, <4>1, <4>2
        <3> QED
            BY <3>1, <3>2
    <2>2. ASSUME NEW w \in Workers, kind' = "pri"
          PROVE  Cardinality(elements'[w]) <= w_size'[w]
        <3>1. Cardinality(elements[w]) <= w_size[w] /\ Cardinality(elements[w]) \in Nat
            BY <1>4, <2>2, FS_CardinalityType DEF DataInv, Counted, DataTypes
        <3>2. CASE w = v
            <4>1. w_size'[w] = w_size[w] + 1 /\ w_size[w] \in Nat
                BY <1>2, <1>4, <2>2, <3>2 DEF DataTypes
            <4>2. Cardinality(elements[v] \cup {e}) = Cardinality(elements[v]) + 1
                BY <1>4, <1>6, FS_AddElement DEF DataTypes
            <4>3. Cardinality(elements'[w]) = Cardinality(elements[w]) + 1
                BY <1>8, <3>2, <4>2
            <4> QED
                BY <3>1, <4>1, <4>3
        <3>3. CASE w # v
            BY <1>2, <1>4, <1>8, <2>2, <3>1, <3>3 DEF DataTypes
        <3> QED
            BY <3>2, <3>3
    <2> QED
        BY <2>1, <2>2 DEF Counted
<1> QED
    BY <1>10, <1>13, <1>14, <1>15, <1>16 DEF DataInv

\* An element leaves.
LEMMA Dequeued ==
    ASSUME DataInv, NEW w \in Workers, NEW e \in elements[w], Dequeue(w, e),
           UNCHANGED <<kind, now, pushed, w_size>>
    PROVE  DataInv'
<1>1. PICK i : i = <<e.queue, e.priority>>
    OBVIOUS
<1>2. /\ DataTypes /\ e \in Element /\ i \in Ids /\ q_info[i] \in Info /\ q_info \in [Ids -> Info]
      /\ FMap[e.queue] = w
    BY <1>1 DEF DataInv, DataTypes, Element, Ids, Placed
<1>3. /\ elements'[w] = elements[w] \ {e}
      /\ \A u \in Workers : u # w => elements'[u] = elements[u]
      /\ elements' \in [Workers -> SUBSET Element]
    BY <1>2 DEF DataTypes, Dequeue
<1>4. \A u \in Workers : elements'[u] \subseteq elements[u]
    BY <1>3
<1>5. q_info' = [q_info EXCEPT ![i].size = @ - 1]
    BY <1>1 DEF Dequeue
<1>6. q_info[i].size \in Nat \ {0}
    <2>1. e \in ElementsOf(e.queue, e.priority)
        BY <1>2 DEF ElementsOf
    <2>2. /\ e.queue \in Queues /\ e.priority \in Priorities
          /\ q_info[i].size = Cardinality(ElementsOf(e.queue, e.priority))
        BY <1>1, <1>2 DEF Element, DataInv, Counted
    <2>3. /\ IsFiniteSet(ElementsOf(e.queue, e.priority))
          /\ Cardinality(ElementsOf(e.queue, e.priority)) # 0
        BY <1>2, <2>1, <2>2, ElementsFinite, FS_EmptySet
    <2> QED
        BY <2>2, <2>3, FS_CardinalityType
<1>7. /\ q_info'[i].size = q_info[i].size - 1 /\ q_info'[i] \in Info
      /\ q_info'[i].last_sent = q_info[i].last_sent
      /\ \A j \in Ids : j # i => q_info'[j] = q_info[j]
      /\ q_info' \in [Ids -> Info]
    BY <1>2, <1>5, <1>6 DEF Info
<1>8. \A j \in Ids : q_info'[j].last_sent = q_info[j].last_sent
    BY <1>7
<1>9. DataTypes'
    <2>1. \A u \in Workers : IsFiniteSet(elements'[u])
        BY <1>2, <1>4, FS_Subset DEF DataTypes
    <2> QED
        BY <1>2, <1>3, <1>7, <2>1 DEF DataTypes
<1>10. \A u \in Workers : \A f \in elements[u] : <<f.queue, f.priority>> \in Ids
    BY <1>2 DEF DataTypes, Element, Ids
<1>11. Placed' /\ Stamped' /\ Unstamped'
    BY <1>4, <1>8, <1>10 DEF DataInv, Placed, Stamped, Unstamped, Blocking
<1>12. Counted'
    <2>1. ASSUME NEW a \in Queues, NEW b \in Priorities
          PROVE  /\ q_info'[<<a, b>>].size = Cardinality(ElementsOf(a, b)')
                 /\ \E c \in Capacities : q_info'[<<a, b>>].size <= c
        <3>0. /\ q_info[<<a, b>>].size = Cardinality(ElementsOf(a, b))
              /\ FMap[a] \in Workers /\ <<a, b>> \in Ids
            BY QueueingAssumption DEF DataInv, Counted, Ids
        <3>1. PICK c \in Capacities : q_info[<<a, b>>].size <= c
            BY DEF DataInv, Counted
        <3>2. CASE a = e.queue /\ b = e.priority
            <4>1. ElementsOf(a, b)' = ElementsOf(a, b) \ {e} /\ e \in ElementsOf(a, b)
                BY <1>2, <1>3, <3>2 DEF ElementsOf
            <4>2. Cardinality(ElementsOf(a, b) \ {e}) = Cardinality(ElementsOf(a, b)) - 1
                BY <1>2, <4>1, ElementsFinite, FS_RemoveElement
            <4>3. c \in Nat /\ q_info'[<<a, b>>].size = q_info[<<a, b>>].size - 1
                BY <1>1, <1>7, <3>2, QueueingAssumption
            <4>4. q_info'[<<a, b>>].size <= c
                BY <1>1, <1>6, <3>1, <3>2, <4>3
            <4> QED
                BY <3>0, <3>1, <4>1, <4>2, <4>3, <4>4
        <3>3. CASE ~(a = e.queue /\ b = e.priority)
            <4>1. ElementsOf(a, b)' = ElementsOf(a, b)
                BY <1>3, <3>0, <3>3 DEF ElementsOf
            <4>2. q_info'[<<a, b>>] = q_info[<<a, b>>]
                BY <1>1, <1>7, <3>0, <3>3
            <4> QED
                BY <3>0, <3>1, <4>1, <4>2
        <3> QED
            BY <3>2, <3>3
    <2>2. ASSUME NEW u \in Workers, kind' = "pri"
          PROVE  Cardinality(elements'[u]) <= w_size'[u]
        <3>1. /\ Cardinality(elements[u]) <= w_size[u] /\ IsFiniteSet(elements[u])
              /\ w_size[u] \in Nat
            BY <1>2, <2>2 DEF DataInv, Counted, DataTypes
        <3>2. Cardinality(elements'[u]) <= Cardinality(elements[u])
            BY <1>4, <3>1, FS_Subset
        <3>3. Cardinality(elements'[u]) \in Nat /\ Cardinality(elements[u]) \in Nat
            BY <1>9, <3>1, FS_CardinalityType DEF DataTypes
        <3> QED
            BY <3>1, <3>2, <3>3
    <2> QED
        BY <2>1, <2>2 DEF Counted
<1> QED
    BY <1>9, <1>11, <1>12 DEF DataInv
\* Steps that neither push nor pop: capacities and rates may change, and the clock.
LEMMA QuietDataInv ==
    ASSUME DataInv, UNCHANGED <<kind, elements, w_size, pushed>>, now' \in Nat,
           q_info' \in [Ids -> Info],
           \A i \in Ids : /\ q_info'[i].size = q_info[i].size
                          /\ q_info'[i].last_sent = q_info[i].last_sent
    PROVE  DataInv'
<1>1. DataTypes'
    BY DEF DataInv, DataTypes
<1>2. \A w \in Workers : \A e \in elements[w] : <<e.queue, e.priority>> \in Ids
    BY DEF DataInv, DataTypes, Element, Ids
<1>3. Placed' /\ Stamped' /\ Unstamped'
    BY <1>2 DEF DataInv, Placed, Stamped, Unstamped, Blocking
<1>4. \A q \in Queues, p \in Priorities : <<q, p>> \in Ids /\ ElementsOf(q, p)' = ElementsOf(q, p)
    BY DEF Ids, ElementsOf
<1>5. Counted'
    BY <1>4 DEF DataInv, Counted
<1> QED
    BY <1>1, <1>3, <1>5 DEF DataInv

LEMMA SettingsDataInv ==
    ASSUME DataInv, NEW is,
           \/ \E c \in Capacities : SetInfo(is, "capacity", c)
           \/ \E d \in Delays : SetInfo(is, "delay", d)
    PROVE  DataInv'
<1>1. q_info \in [Ids -> Info] /\ now \in Nat
    BY DEF DataInv, DataTypes
<1>2. UNCHANGED <<kind, elements, w_size, pushed, now>>
    BY DEF SetInfo
<1>3. /\ q_info' \in [Ids -> Info]
      /\ \A i \in Ids : /\ q_info'[i].size = q_info[i].size
                        /\ q_info'[i].last_sent = q_info[i].last_sent
    <2>1. CASE \E c \in Capacities : SetInfo(is, "capacity", c)
        <3>1. PICK c \in Capacities : SetInfo(is, "capacity", c)
            BY <2>1
        <3>2. \A i \in Ids : q_info'[i] = IF i \in is THEN [q_info[i] EXCEPT !.capacity = c] ELSE q_info[i]
            BY <1>1, <3>1 DEF SetInfo
        <3>3. \A i \in Ids : /\ q_info'[i] \in Info /\ q_info'[i].size = q_info[i].size
                             /\ q_info'[i].last_sent = q_info[i].last_sent
            BY <1>1, <3>2 DEF Info
        <3>4. DOMAIN q_info' = Ids /\ q_info' = [i \in Ids |-> q_info'[i]]
            BY <1>1, <3>1 DEF SetInfo
        <3> QED
            BY <3>3, <3>4
    <2>2. CASE \E d \in Delays : SetInfo(is, "delay", d)
        <3>1. PICK d \in Delays : SetInfo(is, "delay", d)
            BY <2>2
        <3>2. \A i \in Ids : q_info'[i] = IF i \in is THEN [q_info[i] EXCEPT !.delay = d] ELSE q_info[i]
            BY <1>1, <3>1 DEF SetInfo
        <3>3. \A i \in Ids : /\ q_info'[i] \in Info /\ q_info'[i].size = q_info[i].size
                             /\ q_info'[i].last_sent = q_info[i].last_sent
            BY <1>1, <3>2, QueueingAssumption DEF Info
        <3>4. DOMAIN q_info' = Ids /\ q_info' = [i \in Ids |-> q_info'[i]]
            BY <1>1, <3>1 DEF SetInfo
        <3> QED
            BY <3>3, <3>4
    <2> QED
        BY <2>1, <2>2
<1> QED
    BY <1>1, <1>2, <1>3, QuietDataInv

\* What a writer's step does: it waits, or its element enters the queue.
LEMMA WriterMoves ==
    ASSUME DataInv, NEW t \in Writers, WriterStep(t)
    PROVE  \E q \in Queues, p \in Priorities :
              /\ \/ WaitForRoom(t, q, p)
                 \/ \E send \in Nat :
                       /\ Enqueue(q, p, send) /\ ~Full(q, p) /\ send >= q_info[<<q, p>>].last_sent
                       /\ Blocking => send = 0
                       /\ UNCHANGED <<kind, now>>
                       /\ w_size' = IF kind = "pri" THEN [w_size EXCEPT ![FMap[q]] = @ + 1] ELSE w_size
                       /\ \/ /\ worker' = worker
                             /\ writer' = [writer EXCEPT ![t] =
                                             [at |-> "notify", queue |-> q, priority |-> p]]
                          \/ WakeWorker(q) /\ writer' = [writer EXCEPT ![t] = Idle]
                          \/ WakeWorker(q) /\ writer' = writer
              /\ writer[t].at # "notify" /\ writer[t].at # "waiting"
<1>1. PICK q \in Queues : \/ push_front_queue(t, q) \/ push_front(t, q) \/ push_front_RL(t, q)
                          \/ \E p \in Priorities : push_front_PriRL(t, q, p)
    BY DEF WriterStep
<1>2. /\ 0 \in Priorities /\ now \in Nat
      /\ \A p \in Priorities : /\ q_info[<<q, p>>].last_sent \in Nat /\ q_info[<<q, p>>].delay \in Nat
                               /\ Blocking => q_info[<<q, p>>].last_sent = 0
    BY QueueingAssumption DEF DataInv, DataTypes, Ids, Info, Unstamped
<1>3. \A p : Pushing(t, q, p) => writer[t].at # "notify" /\ writer[t].at # "waiting"
    BY DEF Pushing
<1>4. ASSUME NEW p \in Priorities
      PROVE  /\ get_next_tp(q_info[<<q, p>>]) \in Nat
             /\ get_next_tp(q_info[<<q, p>>]) >= q_info[<<q, p>>].last_sent
    BY <1>2 DEF get_next_tp
<1>5. CASE push_front_queue(t, q)
    <2>1. kind = "queue" /\ Pushing(t, q, 0)
        BY <1>5 DEF push_front_queue
    <2>2. CASE Full(q, 0)
        BY <1>2, <1>3, <1>5, <2>1, <2>2 DEF push_front_queue
    <2>3. CASE ~Full(q, 0)
        <3>1. /\ Enqueue(q, 0, 0) /\ UNCHANGED <<kind, now, w_size, worker>>
              /\ writer' = [writer EXCEPT ![t] = [at |-> "notify", queue |-> q, priority |-> 0]]
            BY <1>5, <2>3 DEF push_front_queue
        <3>2. 0 \in Nat /\ 0 >= q_info[<<q, 0>>].last_sent
            BY <1>2, <2>1 DEF Blocking
        <3>3. w_size' = IF kind = "pri" THEN [w_size EXCEPT ![FMap[q]] = @ + 1] ELSE w_size
            BY <2>1, <3>1
        <3> QED
            BY <1>2, <1>3, <2>1, <2>3, <3>1, <3>2, <3>3
    <2> QED
        BY <2>2, <2>3
<1>6. CASE push_front(t, q)
    <2>1. kind = "plain" /\ Pushing(t, q, 0)
        BY <1>6 DEF push_front
    <2>2. CASE Full(q, 0)
        BY <1>2, <1>3, <1>6, <2>1, <2>2 DEF push_front
    <2>3. CASE ~Full(q, 0)
        <3>1. /\ Enqueue(q, 0, 0) /\ UNCHANGED <<kind, now, w_size>>
              /\ WakeWorker(q) /\ writer' = [writer EXCEPT ![t] = Idle]
            BY <1>6, <2>3 DEF push_front
        <3>2. 0 \in Nat /\ 0 >= q_info[<<q, 0>>].last_sent
            BY <1>2, <2>1 DEF Blocking
        <3>3. w_size' = IF kind = "pri" THEN [w_size EXCEPT ![FMap[q]] = @ + 1] ELSE w_size
            BY <2>1, <3>1
        <3> QED
            BY <1>2, <1>3, <2>1, <2>3, <3>1, <3>2, <3>3
    <2> QED
        BY <2>2, <2>3
<1>7. CASE push_front_RL(t, q)
    <2>1. /\ kind = "rl" /\ Pushing(t, q, 0) /\ ~Full(q, 0)
          /\ Enqueue(q, 0, get_next_tp(q_info[<<q, 0>>]))
          /\ WakeWorker(q) /\ UNCHANGED <<kind, w_size, writer, now>>
        BY <1>7 DEF push_front_RL
    <2>2. PICK send : send = get_next_tp(q_info[<<q, 0>>])
        OBVIOUS
    <2>3. w_size' = IF kind = "pri" THEN [w_size EXCEPT ![FMap[q]] = @ + 1] ELSE w_size
        BY <2>1
    <2>4. ~Blocking
        BY <2>1 DEF Blocking
    <2> QED
        BY <1>2, <1>3, <1>4, <2>1, <2>2, <2>3, <2>4
<1>8. CASE \E p \in Priorities : push_front_PriRL(t, q, p)
    <2>0. PICK p \in Priorities : push_front_PriRL(t, q, p)
        BY <1>8
    <2>1. /\ kind = "pri" /\ Pushing(t, q, p) /\ ~Full(q, p)
          /\ Enqueue(q, p, get_next_tp(q_info[<<q, p>>]))
          /\ WakeWorker(q) /\ UNCHANGED <<kind, writer, now>>
          /\ w_size' = [w_size EXCEPT ![FMap[q]] = @ + 1]
        BY <2>0 DEF push_front_PriRL
    <2>2. PICK send : send = get_next_tp(q_info[<<q, p>>])
        OBVIOUS
    <2>3. w_size' = IF kind = "pri" THEN [w_size EXCEPT ![FMap[q]] = @ + 1] ELSE w_size
        BY <2>1
    <2>4. ~Blocking
        BY <2>1 DEF Blocking
    <2> QED
        BY <1>3, <1>4, <2>1, <2>2, <2>3, <2>4
<1> QED
    BY <1>1, <1>5, <1>6, <1>7, <1>8
\* Of one queue and priority, only elements stamped with the same time can be overtaken.
LEMMA EarliestInOrder ==
    ASSUME DataInv, ~Blocking, NEW w \in Workers, NEW e \in elements[w], NEW f \in elements[w],
           f.queue = e.queue, f.priority = e.priority, f.seq < e.seq, e.send <= f.send
    PROVE  f.send = e.send
<1>1. e.send \in Nat /\ f.send \in Nat
    BY DEF DataInv, DataTypes, Element
<1>2. f.send <= e.send
    BY DEF DataInv, Stamped
<1> QED
    BY <1>1, <1>2

LEMMA OldestInOrder ==
    ASSUME DataInv, NEW w \in Workers, NEW e \in Oldest(elements[w])
    PROVE  e \in elements[w] /\ \A f \in elements[w] : ~(f.seq < e.seq)
<1>1. \A f \in elements[w] : f.seq \in Nat
    BY DEF DataInv, DataTypes, Element
<1> QED
    BY <1>1 DEF Oldest

\* Whether a wait of worker w until d covers what it has to send.
Covers(w, d) == elements[w] = {} \/ (d # Forever /\ \A e \in elements[w] : d <= e.send)

\* Whether e may leave before f.
InOrder(e, f) ==
    f.queue = e.queue /\ f.priority = e.priority /\ f.seq < e.seq => ~Blocking /\ f.send = e.send

\* What a worker's step does: it sleeps until the next send time, or an element leaves.
LEMMA WorkerMoves ==
    ASSUME DataInv, NEW w \in Workers, WorkerStep(w)
    PROVE  /\ worker[w].at = "run"
           /\ \/ \E d : Sleep(w, d) /\ Covers(w, d)
              \/ \E e \in elements[w] :
                    /\ Dequeue(w, e) /\ UNCHANGED <<kind, now, pushed, w_size>>
                    /\ \/ worker' = worker
                       \/ worker' = [worker EXCEPT ![w] = [at |-> "notify", queue |-> e.queue]]
                    /\ writer' = writer \/ WakeWriter(e.queue)
                    /\ \A f \in elements[w] : InOrder(e, f)
<1>0. \A e \in elements[w] : e.send \in Nat
    BY DEF DataInv, DataTypes, Element
<1>1. CASE pop_back_queue(w)
    <2>1. CASE elements[w] = {}
        BY <1>1, <2>1 DEF pop_back_queue, Covers
    <2>2. CASE elements[w] # {}
        <3>1. PICK e \in Oldest(elements[w]) :
                 /\ Dequeue(w, e)
                 /\ worker' = [worker EXCEPT ![w] = [at |-> "notify", queue |-> e.queue]]
                 /\ UNCHANGED <<kind, w_size, writer, now, pushed>>
            BY <1>1, <2>2 DEF pop_back_queue
        <3>2. e \in elements[w] /\ \A f \in elements[w] : InOrder(e, f)
            BY <3>1, OldestInOrder DEF InOrder
        <3> QED
            BY <1>1, <3>1, <3>2 DEF pop_back_queue
    <2> QED
        BY <2>1, <2>2
<1>2. CASE pop_back(w)
    <2>1. CASE elements[w] = {}
        BY <1>2, <2>1 DEF pop_back, Covers
    <2>2. CASE elements[w] # {}
        <3>1. PICK e \in Oldest(elements[w]) :
                 /\ Dequeue(w, e) /\ WakeWriter(e.queue)
                 /\ UNCHANGED <<kind, w_size, worker, now, pushed>>
            BY <1>2, <2>2 DEF pop_back
        <3>2. e \in elements[w] /\ \A f \in elements[w] : InOrder(e, f)
            BY <3>1, OldestInOrder DEF InOrder
        <3> QED
            BY <1>2, <3>1, <3>2 DEF pop_back
    <2> QED
        BY <2>1, <2>2
<1>3. CASE pop_back_RL(w)
    <2>1. CASE elements[w] = {}
        BY <1>3, <2>1 DEF pop_back_RL, Covers
    <2>2. CASE elements[w] # {}
        <3>1. PICK top \in Earliest(elements[w]) :
                 IF top.send > now THEN Sleep(w, top.send)
                 ELSE /\ Dequeue(w, top)
                      /\ UNCHANGED <<kind, w_size, writer, worker, now, pushed, settings, steps>>
            BY <1>3, <2>2 DEF pop_back_RL
        <3>2. top \in elements[w] /\ \A f \in elements[w] : top.send <= f.send
            BY <3>1 DEF Earliest
        <3>3. ~Blocking /\ worker[w].at = "run"
            BY <1>3 DEF pop_back_RL, Blocking
        <3>4. CASE top.send > now
            <4>1. top.send # Forever
                BY <1>0, <3>2 DEF Forever
            <4> QED
                BY <3>1, <3>2, <3>3, <3>4, <4>1 DEF Covers
        <3>5. CASE ~(top.send > now)
            <4>1. \A f \in elements[w] : InOrder(top, f)
                BY <3>2, <3>3, EarliestInOrder DEF InOrder
            <4> QED
                BY <3>1, <3>2, <3>3, <3>5, <4>1
        <3> QED
            BY <3>4, <3>5
    <2> QED
        BY <2>1, <2>2
<1>4. CASE pop_back_PriRL(w)
    <2> DEFINE Queued(p) == {e \in elements[w] : e.priority = p}
               Ready == {p \in Priorities : \E e \in Queued(p) : e.send <= now}
               Sends == {e.send : e \in elements[w]}
               next == IF w_size[w] = 0 \/ elements[w] = {} THEN Forever ELSE Min(Sends)
    <2>1. /\ kind = "pri" /\ worker[w].at = "run"
          /\ IF Ready = {} THEN Sleep(w, next)
             ELSE \E top \in Earliest(Queued(Min(Ready))) :
                    /\ Dequeue(w, top)
                    /\ UNCHANGED <<kind, w_size, writer, worker, now, pushed, settings, steps>>
        BY <1>4 DEF pop_back_PriRL
    <2>2. ~Blocking
        BY <2>1 DEF Blocking
    <2>3. Covers(w, next)
        <3>1. CASE elements[w] = {}
            BY <3>1 DEF Covers
        <3>2. CASE elements[w] # {}
            <4>1. w_size[w] # 0
                <5>1. /\ IsFiniteSet(elements[w]) /\ w_size[w] \in Nat
                      /\ Cardinality(elements[w]) <= w_size[w]
                    BY <2>1 DEF DataInv, DataTypes, Counted
                <5>2. Cardinality(elements[w]) \in Nat /\ Cardinality(elements[w]) # 0
                    BY <3>2, <5>1, FS_CardinalityType, FS_EmptySet
                <5> QED
                    BY <5>1, <5>2
            <4>2. next = Min(Sends)
                BY <3>2, <4>1
            <4>3. Sends \subseteq Nat /\ Sends # {}
                BY <1>0, <3>2
            <4>4. Min(Sends) \in Sends /\ \A y \in Sends : Min(Sends) <= y
                <5> HIDE DEF Sends
                <5>1. \E x \in Sends : \A y \in Sends : x <= y
                    BY <4>3, NatMin
                <5> QED
                    BY <5>1 DEF Min
            <4>5. \A e \in elements[w] : Min(Sends) <= e.send
                BY <4>4
            <4>6. Min(Sends) # Forever
                BY <4>3, <4>4 DEF Forever
            <4> QED
                BY <4>2, <4>5, <4>6 DEF Covers
        <3> QED
            BY <3>1, <3>2
    <2>4. CASE Ready = {}
        <3>1. Sleep(w, next)
            BY <2>1, <2>4
        <3> HIDE DEF next
        <3> QED
            BY <2>1, <2>3, <3>1
    <2>5. CASE Ready # {}
        <3>1. PICK top \in Earliest(Queued(Min(Ready))) :
                 /\ Dequeue(w, top)
                 /\ UNCHANGED <<kind, w_size, writer, worker, now, pushed, settings, steps>>
            BY <2>1, <2>5
        <3>2. /\ top \in elements[w]
              /\ \A f \in elements[w] : f.priority = top.priority => top.send <= f.send
            BY <3>1 DEF Earliest
        <3>3. \A f \in elements[w] : InOrder(top, f)
            BY <2>2, <3>2, EarliestInOrder DEF InOrder
        <3> QED
            BY <2>1, <3>1, <3>2, <3>3
    <2> QED
        BY <2>4, <2>5
<1> QED
    BY <1>1, <1>2, <1>3, <1>4 DEF WorkerStep

Quiet ==
    \/ \E t \in Writers : NotifyNotEmpty(t)
    \/ \E w \in Workers : NotifyNotFull(w) \/ Timeout(w)
    \/ SpuriousWakeup \/ Tick \/ SetClockBack \/ UNCHANGED vars

LEMMA QuietMoves ==
    ASSUME DataInv, Quiet
    PROVE  UNCHANGED <<kind, q_info, elements, w_size, pushed>> /\ now' \in Nat
<1>1. now \in Nat
    BY DEF DataInv, DataTypes
<1>2. CASE \/ \E t \in Writers : NotifyNotEmpty(t)
           \/ \E w \in Workers : NotifyNotFull(w) \/ Timeout(w)
           \/ SpuriousWakeup \/ UNCHANGED vars
    BY <1>1, <1>2 DEF NotifyNotEmpty, NotifyNotFull, Timeout, SpuriousWakeup, vars
<1>3. CASE Tick \/ SetClockBack
    BY <1>1, <1>3 DEF Tick, SetClockBack
<1> QED
    BY <1>2, <1>3 DEF Quiet

Settings ==
    \E is : \/ \E c \in Capacities : SetInfo(is, "capacity", c)
            \/ \E d \in Delays : SetInfo(is, "delay", d)

\* The kinds of steps the proofs tell apart.
LEMMA Steps ==
    ASSUME [Next]_vars
    PROVE  \/ \E t \in Writers : WriterStep(t)
           \/ \E w \in Workers : WorkerStep(w)
           \/ Settings \/ Quiet
<1>1. ASSUME NEW q \in Queues, NEW p \in Priorities,
             \/ \E c \in Capacities : set_capacity(q, p, c)
             \/ \E d \in Delays : set_rate(q, p, d)
      PROVE  Settings
    BY <1>1 DEF set_capacity, set_rate, Settings
<1>2. ASSUME NEW q \in Queues, NEW c \in Capacities, NEW d \in Delays, for_each_q(q, c, d)
      PROVE  Settings
    BY <1>2 DEF for_each_q, Settings
<1> QED
    BY <1>1, <1>2, Zenon DEF Next, Quiet

LEMMA DataInvStep == DataInv /\ [Next]_vars => DataInv'
<1> SUFFICES ASSUME DataInv, [Next]_vars PROVE DataInv'
    OBVIOUS
<1>1. ASSUME NEW t \in Writers, WriterStep(t) PROVE DataInv'
    <2>1. PICK q \in Queues, p \in Priorities :
             \/ WaitForRoom(t, q, p)
             \/ \E send \in Nat :
                   /\ Enqueue(q, p, send) /\ ~Full(q, p) /\ send >= q_info[<<q, p>>].last_sent
                   /\ Blocking => send = 0
                   /\ UNCHANGED <<kind, now>>
                   /\ w_size' = IF kind = "pri" THEN [w_size EXCEPT ![FMap[q]] = @ + 1] ELSE w_size
        BY <1>1, WriterMoves
    <2>2. CASE WaitForRoom(t, q, p)
        <3>1. UNCHANGED <<kind, q_info, elements, w_size, pushed, now>>
            BY <2>2 DEF WaitForRoom
        <3>2. q_info \in [Ids -> Info] /\ now \in Nat
            BY DEF DataInv, DataTypes
        <3> QED
            BY <3>1, <3>2, QuietDataInv
    <2>3. CASE ~WaitForRoom(t, q, p)
        BY <2>1, <2>3, Enqueued
    <2> QED
        BY <2>2, <2>3
<1>2. ASSUME NEW w \in Workers, WorkerStep(w) PROVE DataInv'
    <2>1. CASE \E d : Sleep(w, d)
        <3>1. UNCHANGED <<kind, q_info, elements, w_size, pushed, now>>
            BY <2>1 DEF Sleep
        <3>2. q_info \in [Ids -> Info] /\ now \in Nat
            BY DEF DataInv, DataTypes
        <3> QED
            BY <3>1, <3>2, QuietDataInv
    <2>2. CASE \E e \in elements[w] : Dequeue(w, e) /\ UNCHANGED <<kind, now, pushed, w_size>>
        BY <2>2, Dequeued
    <2> QED
        BY <1>2, <2>1, <2>2, WorkerMoves
<1>3. ASSUME Settings PROVE DataInv'
    BY <1>3, SettingsDataInv DEF Settings
<1>4. ASSUME Quiet PROVE DataInv'
    <2>1. q_info \in [Ids -> Info]
        BY DEF DataInv, DataTypes
    <2> QED
        BY <1>4, <2>1, QuietMoves, QuietDataInv
<1> QED
    BY <1>1, <1>2, <1>3, <1>4, Steps

LEMMA DataInvInit == Init => DataInv
<1> SUFFICES ASSUME Init PROVE DataInv
    OBVIOUS
<1>1. PICK c \in Capacities :
         q_info = [i \in Queues \X Priorities |->
                     [size |-> 0, capacity |-> c, delay |-> 0, last_sent |-> 0]]
    BY DEF Init
<1>2. \A i \in Ids : q_info[i].size = 0 /\ q_info[i].last_sent = 0
    BY <1>1 DEF Ids
<1>3. \A w \in Workers : elements[w] = {} /\ w_size[w] = 0
    BY DEF Init
<1>4. DataTypes
    <2>1. [size |-> 0, capacity |-> c, delay |-> 0, last_sent |-> 0] \in Info
        BY DEF Info
    <2>2. q_info \in [Ids -> Info]
        BY <1>1, <2>1 DEF Ids
    <2> QED
        BY <2>2, FS_EmptySet DEF Init, DataTypes
<1>5. Placed /\ Stamped /\ Unstamped
    BY <1>2, <1>3 DEF Placed, Stamped, Unstamped
<1>6. Counted
    <2>1. c \in Nat /\ 0 <= c
        BY QueueingAssumption
    <2>2. \A q \in Queues, p \in Priorities : <<q, p>> \in Ids /\ ElementsOf(q, p) = {}
        BY <1>3, QueueingAssumption DEF Ids, ElementsOf
    <2>3. Cardinality({}) = 0
        BY FS_EmptySet
    <2>4. \A q \in Queues, p \in Priorities :
             /\ q_info[<<q, p>>].size = Cardinality(ElementsOf(q, p))
             /\ \E d \in Capacities : q_info[<<q, p>>].size <= d
        BY <1>2, <2>1, <2>2, <2>3
    <2>5. \A w \in Workers : Cardinality(elements[w]) <= w_size[w]
        BY <1>3, <2>3
    <2> QED
        BY <2>4, <2>5 DEF Counted
<1> QED
    BY <1>4, <1>5, <1>6 DEF DataInv

\* The size of every queue is the number of its elements and never exceeds the largest
\* capacity that can be set, whatever pushes, pops and set_capacity calls do.
THEOREM SizesCountElements ==
    ASSUME LargestCapacity
    PROVE  Spec => []TypeOK
<1>1. DataInv => TypeOK
    <2> SUFFICES ASSUME DataInv PROVE TypeOK
        OBVIOUS
    <2>1. Max(Capacities) \in Nat /\ \A c \in Capacities : c \in Nat /\ c <= Max(Capacities)
        <3>1. \E b \in Capacities : \A c \in Capacities : b >= c
            BY QueueingAssumption DEF LargestCapacity
        <3>2. Max(Capacities) \in Capacities /\ \A c \in Capacities : Max(Capacities) >= c
            BY <3>1 DEF Max
        <3> QED
            BY <3>2, QueueingAssumption
    <2>2. \A q \in Queues, p \in Priorities :
             /\ q_info[<<q, p>>].size = Cardinality(ElementsOf(q, p))
             /\ q_info[<<q, p>>].size <= Max(Capacities)
        <3> SUFFICES ASSUME NEW q \in Queues, NEW p \in Priorities
                     PROVE  /\ q_info[<<q, p>>].size = Cardinality(ElementsOf(q, p))
                            /\ q_info[<<q, p>>].size <= Max(Capacities)
            OBVIOUS
        <3>1. q_info[<<q, p>>].size \in Nat
            BY DEF DataInv, DataTypes, Ids, Info
        <3>2. PICK c \in Capacities : q_info[<<q, p>>].size <= c
            BY DEF DataInv, Counted
        <3> QED
            BY <2>1, <3>1, <3>2 DEF DataInv, Counted
    <2>3. kind \in Kinds /\ \A w \in Workers : Cardinality(elements[w]) <= w_size[w] \/ kind # "pri"
        BY DEF DataInv, DataTypes, Counted
    <2> QED
        BY <2>2, <2>3, Zenon DEF TypeOK
<1> QED
    BY <1>1, DataInvInit, DataInvStep, PTL DEF Spec
\* What may change in the queues: an element leaves in order, or nothing does.
LEMMA LeavingStep ==
    ASSUME DataInv, [Next]_vars
    PROVE  \A w \in Workers : \A e \in elements[w] \ elements'[w] : \A f \in elements'[w] :
              (f.queue = e.queue /\ f.priority = e.priority /\ f.seq < e.seq)
                 => (~Blocking /\ f.send = e.send)
<1>0. elements \in [Workers -> SUBSET Element]
    BY DEF DataInv, DataTypes
<1>1. CASE \A w \in Workers : elements[w] \subseteq elements'[w]
    BY <1>1
<1>2. CASE \E w \in Workers : WorkerStep(w)
    <2>1. PICK v \in Workers : WorkerStep(v)
        BY <1>2
    <2>2. CASE \E d : Sleep(v, d)
        <3>1. elements' = elements
            BY <2>2 DEF Sleep
        <3> QED
            BY <1>1, <3>1
    <2>3. CASE \E x \in elements[v] : Dequeue(v, x) /\ \A f \in elements[v] : InOrder(x, f)
        <3>1. PICK x \in elements[v] : Dequeue(v, x) /\ \A f \in elements[v] : InOrder(x, f)
            BY <2>3
        <3>2. \A w \in Workers : elements'[w] = IF w = v THEN elements[w] \ {x} ELSE elements[w]
            <4>1. elements' = [elements EXCEPT ![v] = @ \ {x}]
                BY <3>1 DEF Dequeue
            <4> QED
                BY <1>0, <4>1
        <3>3. \A w \in Workers : \A e \in elements[w] \ elements'[w] : w = v /\ e = x
            BY <3>2
        <3>4. \A f \in elements'[v] : InOrder(x, f)
            BY <3>1, <3>2
        <3> QED
            BY <3>3, <3>4 DEF InOrder
    <2> QED
        BY <2>1, <2>2, <2>3, WorkerMoves
<1>3. CASE \E t \in Writers : WriterStep(t)
    <2>1. PICK t \in Writers : WriterStep(t)
        BY <1>3
    <2>2. PICK q \in Queues, p \in Priorities :
             WaitForRoom(t, q, p) \/ \E send \in Nat : Enqueue(q, p, send)
        BY <2>1, WriterMoves
    <2>3. FMap[q] \in Workers
        BY QueueingAssumption
    <2>4. \A w \in Workers : elements[w] \subseteq elements'[w]
        BY <1>0, <2>2, <2>3 DEF WaitForRoom, Enqueue
    <2> QED
        BY <1>1, <2>4
<1>4. CASE Settings \/ Quiet
    <2>1. elements' = elements
        BY <1>4, QuietMoves DEF Settings, SetInfo
    <2> QED
        BY <1>1, <2>1
<1> QED
    BY <1>2, <1>3, <1>4, Steps

\* Elements of one queue and priority leave in the order they came, for all four classes,
\* even if rates change and the clock is set back; only elements with the same send time
\* may overtake each other.
THEOREM ElementsLeaveInOrder == Spec => LeaveInOrder
<1>1. DataInv /\ [Next]_vars =>
         [\A w \in Workers : \A e \in elements[w] \ elements'[w] : \A f \in elements'[w] :
            (f.queue = e.queue /\ f.priority = e.priority /\ f.seq < e.seq)
              => (~Blocking /\ f.send = e.send)]_vars
    BY LeavingStep
<1> QED
    BY <1>1, DataInvInit, DataInvStep, PTL DEF Spec, LeaveInOrder

-----------------------------------------------------------------------------
\* Wakeups.

Notifying(w) == \E t \in Writers : writer[t].at = "notify" /\ FMap[writer[t].queue] = w

WakeInv ==
    /\ DOMAIN worker = Workers /\ DOMAIN writer = Writers
    /\ \A w \in Workers :
          worker[w].at = "wait" => Covers(w, worker[w].deadline) \/ Notifying(w)

LEMMA WorkerWoken ==
    ASSUME WakeInv, NEW q, WakeWorker(q)
    PROVE  /\ DOMAIN worker' = Workers
           /\ \A w \in Workers : /\ w = FMap[q] => worker'[w].at # "wait"
                                 /\ w # FMap[q] => worker'[w] = worker[w]
<1>1. PICK v : v = FMap[q]
    OBVIOUS
<1>2. Running.at # "wait" /\ DOMAIN worker = Workers
    BY DEF Running, WakeInv
<1>3. worker' = IF worker[v].at = "wait" THEN [worker EXCEPT ![v] = Running] ELSE worker
    BY <1>1 DEF WakeWorker
<1>4. CASE worker[v].at = "wait"
    BY <1>1, <1>2, <1>3, <1>4
<1>5. CASE worker[v].at # "wait"
    BY <1>1, <1>2, <1>3, <1>5
<1> QED
    BY <1>4, <1>5

\* A writer that is woken up was not about to notify.
LEMMA WriterWoken ==
    ASSUME WakeInv, NEW q, WakeWriter(q)
    PROVE  DOMAIN writer' = Writers /\ \A w \in Workers : Notifying(w) => Notifying(w)'
<1>1. CASE writer' = writer
    BY <1>1 DEF WakeInv, Notifying
<1>2. CASE \E t \in Writers : writer[t].at = "waiting" /\ writer' = [writer EXCEPT ![t].at = "retry"]
    <2>1. PICK t \in Writers : writer[t].at = "waiting" /\ writer' = [writer EXCEPT ![t].at = "retry"]
        BY <1>2
    <2>2. DOMAIN writer' = Writers /\ \A u \in Writers : u # t => writer'[u] = writer[u]
        BY <2>1 DEF WakeInv
    <2> QED
        BY <2>1, <2>2 DEF Notifying
<1> QED
    BY <1>1, <1>2 DEF WakeWriter

\* A worker is awake, newly covered, or nothing was added for it.
LEMMA StillCovered ==
    ASSUME WakeInv, DOMAIN worker' = Workers, DOMAIN writer' = Writers,
           \A w \in Workers : \/ worker'[w].at # "wait"
                              \/ (Covers(w, worker[w].deadline) \/ Notifying(w))'
                              \/ /\ worker'[w] = worker[w] /\ elements'[w] = elements[w]
                                 /\ Notifying(w) => Notifying(w)'
    PROVE  WakeInv'
<1> SUFFICES ASSUME NEW w \in Workers, worker'[w].at = "wait"
             PROVE  (Covers(w, worker[w].deadline) \/ Notifying(w))'
    BY DEF WakeInv
<1>1. CASE (Covers(w, worker[w].deadline) \/ Notifying(w))'
    BY <1>1
<1>2. CASE /\ worker'[w] = worker[w] /\ elements'[w] = elements[w]
           /\ Notifying(w) => Notifying(w)'
    <2>1. Covers(w, worker[w].deadline) \/ Notifying(w)
        BY <1>2 DEF WakeInv
    <2>2. Covers(w, worker[w].deadline) => Covers(w, worker[w].deadline)'
        BY <1>2 DEF Covers
    <2> QED
        BY <1>2, <2>1, <2>2
<1> QED
    BY <1>1, <1>2

\* A writer that is not about to notify does something else next.
LEMMA WriterChanged ==
    ASSUME WakeInv, NEW t \in Writers, NEW x, writer' = [writer EXCEPT ![t] = x]
    PROVE  /\ DOMAIN writer' = Writers
           /\ writer[t].at # "notify" => \A w \in Workers : Notifying(w) => Notifying(w)'
<1>1. /\ DOMAIN writer' = Writers /\ writer'[t] = x
      /\ \A u \in Writers : u # t => writer'[u] = writer[u]
    BY DEF WakeInv
<1> QED
    BY <1>1 DEF Notifying

LEMMA WriterWakeInv ==
    ASSUME DataInv, WakeInv, NEW t \in Writers, WriterStep(t)
    PROVE  WakeInv'
<1>1. PICK q \in Queues, p \in Priorities :
         /\ \/ WaitForRoom(t, q, p)
            \/ \E send \in Nat :
                  /\ Enqueue(q, p, send)
                  /\ \/ /\ worker' = worker
                        /\ writer' = [writer EXCEPT ![t] =
                                        [at |-> "notify", queue |-> q, priority |-> p]]
                     \/ WakeWorker(q) /\ writer' = [writer EXCEPT ![t] = Idle]
                     \/ WakeWorker(q) /\ writer' = writer
         /\ writer[t].at # "notify"
    BY WriterMoves
<1>2. /\ DOMAIN worker = Workers /\ DOMAIN writer = Writers /\ FMap[q] \in Workers
      /\ elements \in [Workers -> SUBSET Element]
    BY QueueingAssumption DEF WakeInv, DataInv, DataTypes
<1>3. CASE WaitForRoom(t, q, p)
    <2>1. UNCHANGED <<elements, worker>>
        BY <1>3 DEF WaitForRoom
    <2>2. DOMAIN writer' = Writers /\ \A w \in Workers : Notifying(w) => Notifying(w)'
        BY <1>1, <1>3, WriterChanged DEF WaitForRoom
    <2> QED
        BY <1>2, <2>1, <2>2, StillCovered
<1>4. CASE \E send \in Nat : Enqueue(q, p, send)
    <2>1. \A w \in Workers : w # FMap[q] => elements'[w] = elements[w]
        BY <1>2, <1>4 DEF Enqueue
    <2>2. CASE /\ worker' = worker
               /\ writer' = [writer EXCEPT ![t] = [at |-> "notify", queue |-> q, priority |-> p]]
        <3>1. DOMAIN writer' = Writers /\ \A w \in Workers : Notifying(w) => Notifying(w)'
            BY <1>1, <2>2, WriterChanged
        <3>2. writer'[t].at = "notify" /\ writer'[t].queue = q
            BY <1>2, <2>2
        <3>3. \A w \in Workers : w = FMap[q] => Notifying(w)'
            BY <3>2 DEF Notifying
        <3> QED
            BY <1>2, <2>1, <2>2, <3>1, <3>3, StillCovered
    <2>3. CASE WakeWorker(q) /\ (writer' = [writer EXCEPT ![t] = Idle] \/ writer' = writer)
        <3>1. DOMAIN writer' = Writers /\ \A w \in Workers : Notifying(w) => Notifying(w)'
            <4>1. CASE writer' = [writer EXCEPT ![t] = Idle]
                BY <1>1, <4>1, WriterChanged
            <4>2. CASE writer' = writer
                BY <1>2, <4>2 DEF Notifying
            <4> QED
                BY <2>3, <4>1, <4>2
        <3>2. /\ DOMAIN worker' = Workers
              /\ \A w \in Workers : /\ w = FMap[q] => worker'[w].at # "wait"
                                    /\ w # FMap[q] => worker'[w] = worker[w]
            BY <2>3, WorkerWoken
        <3> QED
            BY <2>1, <3>1, <3>2, StillCovered
    <2> QED
        BY <1>1, <1>3, <2>2, <2>3
<1> QED
    BY <1>1, <1>3, <1>4

LEMMA WorkerWakeInv ==
    ASSUME DataInv, WakeInv, NEW v \in Workers, WorkerStep(v)
    PROVE  WakeInv'
<1>1. /\ DOMAIN worker = Workers /\ DOMAIN writer = Writers /\ worker[v].at = "run"
      /\ elements \in [Workers -> SUBSET Element]
    BY WorkerMoves DEF WakeInv, DataInv, DataTypes
<1>2. CASE \E d : Sleep(v, d) /\ Covers(v, d)
    <2>1. PICK d : Sleep(v, d) /\ Covers(v, d)
        BY <1>2
    <2>2. UNCHANGED <<elements, writer>> /\ worker' = [worker EXCEPT ![v] = [at |-> "wait", deadline |-> d]]
        BY <2>1 DEF Sleep
    <2>3. /\ DOMAIN worker' = Workers /\ worker'[v].deadline = d
          /\ \A w \in Workers : w # v => worker'[w] = worker[w]
        BY <1>1, <2>2
    <2>4. Covers(v, worker[v].deadline)'
        BY <2>1, <2>2, <2>3 DEF Covers
    <2>5. \A w \in Workers : Notifying(w) => Notifying(w)'
        BY <2>2 DEF Notifying
    <2> QED
        BY <1>1, <2>2, <2>3, <2>4, <2>5, StillCovered
<1>3. CASE \E e \in elements[v] :
             /\ Dequeue(v, e)
             /\ \/ worker' = worker
                \/ worker' = [worker EXCEPT ![v] = [at |-> "notify", queue |-> e.queue]]
             /\ writer' = writer \/ WakeWriter(e.queue)
    <2>1. PICK e \in elements[v] :
             /\ Dequeue(v, e)
             /\ \/ worker' = worker
                \/ worker' = [worker EXCEPT ![v] = [at |-> "notify", queue |-> e.queue]]
             /\ writer' = writer \/ WakeWriter(e.queue)
        BY <1>3
    <2>2. \A w \in Workers : w # v => elements'[w] = elements[w]
        BY <1>1, <2>1 DEF Dequeue
    <2>3. /\ DOMAIN worker' = Workers /\ worker'[v].at # "wait"
          /\ \A w \in Workers : w # v => worker'[w] = worker[w]
        BY <1>1, <2>1
    <2>4. DOMAIN writer' = Writers /\ \A w \in Workers : Notifying(w) => Notifying(w)'
        <3>1. CASE writer' = writer
            BY <1>1, <3>1 DEF Notifying
        <3>2. CASE WakeWriter(e.queue)
            BY <3>2, WriterWoken
        <3> QED
            BY <2>1, <3>1, <3>2
    <2> QED
        BY <2>2, <2>3, <2>4, StillCovered
<1> QED
    BY <1>2, <1>3, WorkerMoves

LEMMA QuietWakeInv ==
    ASSUME DataInv, WakeInv, Settings \/ Quiet
    PROVE  WakeInv'
<1>0. DOMAIN worker = Workers /\ DOMAIN writer = Writers /\ Running.at # "wait"
    BY DEF WakeInv, Running
<1>1. elements' = elements
    BY QuietMoves DEF Settings, SetInfo
<1>2. ASSUME NEW t \in Writers, NotifyNotEmpty(t) PROVE WakeInv'
    <2>1. PICK q : q = writer[t].queue
        OBVIOUS
    <2>2. WakeWorker(q) /\ writer' = [writer EXCEPT ![t] = Idle]
        BY <1>2, <2>1 DEF NotifyNotEmpty
    <2>3. /\ DOMAIN worker' = Workers
          /\ \A w \in Workers : /\ w = FMap[q] => worker'[w].at # "wait"
                                /\ w # FMap[q] => worker'[w] = worker[w]
        BY <2>2, WorkerWoken
    <2>4. DOMAIN writer' = Writers /\ \A u \in Writers : u # t => writer'[u] = writer[u]
        BY <1>0, <2>2
    <2>5. \A w \in Workers : w # FMap[q] /\ Notifying(w) => Notifying(w)'
        BY <2>1, <2>4 DEF Notifying
    <2> QED
        BY <1>1, <2>3, <2>4, <2>5, StillCovered
<1>3. ASSUME NEW v \in Workers, worker' = [worker EXCEPT ![v] = Running],
             writer' = writer \/ \E q : WakeWriter(q)
      PROVE  WakeInv'
    <2>1. /\ DOMAIN worker' = Workers /\ worker'[v].at # "wait"
          /\ \A w \in Workers : w # v => worker'[w] = worker[w]
        BY <1>0, <1>3
    <2>2. DOMAIN writer' = Writers /\ \A w \in Workers : Notifying(w) => Notifying(w)'
        <3>1. CASE writer' = writer
            BY <1>0, <3>1 DEF Notifying
        <3>2. CASE \E q : WakeWriter(q)
            BY <3>2, WriterWoken
        <3> QED
            BY <1>3, <3>1, <3>2
    <2> QED
        BY <1>1, <2>1, <2>2, StillCovered
<1>4. ASSUME worker' = worker,
             \/ writer' = writer
             \/ \E t \in Writers : writer[t].at = "waiting" /\ writer' = [writer EXCEPT ![t].at = "retry"]
      PROVE  WakeInv'
    <2>1. DOMAIN writer' = Writers /\ \A w \in Workers : Notifying(w) => Notifying(w)'
        <3>1. CASE writer' = writer
            BY <1>0, <3>1 DEF Notifying
        <3>2. CASE \E t \in Writers : writer[t].at = "waiting" /\ writer' = [writer EXCEPT ![t].at = "retry"]
            <4>1. PICK t \in Writers : writer[t].at = "waiting" /\ writer' = [writer EXCEPT ![t].at = "retry"]
                BY <3>2
            <4>2. DOMAIN writer' = Writers /\ \A u \in Writers : u # t => writer'[u] = writer[u]
                BY <1>0, <4>1
            <4> QED
                BY <4>1, <4>2 DEF Notifying
        <3> QED
            BY <1>4, <3>1, <3>2
    <2> QED
        BY <1>0, <1>1, <1>4, <2>1, StillCovered
<1>5. ASSUME NEW v \in Workers, NotifyNotFull(v) PROVE WakeInv'
    BY <1>3, <1>5 DEF NotifyNotFull
<1>6. ASSUME NEW v \in Workers, Timeout(v) PROVE WakeInv'
    BY <1>3, <1>6 DEF Timeout
<1>7. ASSUME SpuriousWakeup PROVE WakeInv'
    BY <1>3, <1>4, <1>7 DEF SpuriousWakeup
<1>8. ASSUME Settings \/ Tick \/ SetClockBack \/ UNCHANGED vars PROVE WakeInv'
    <2>1. worker' = worker /\ writer' = writer
        BY <1>8 DEF Settings, SetInfo, Tick, SetClockBack, vars
    <2> QED
        BY <1>4, <2>1
<1> QED
    BY <1>2, <1>5, <1>6, <1>7, <1>8 DEF Quiet

\* No notification is lost: a worker never sleeps past the moment at which one of its
\* elements may leave, unless the writer that pushed it is still about to notify.
THEOREM NoWakeupIsLost == Spec => []NoLostWakeup
<1>1. Init => WakeInv
    BY DEF Init, WakeInv, Running
<1>2. DataInv /\ WakeInv /\ [Next]_vars => WakeInv'
    BY Steps, WriterWakeInv, WorkerWakeInv, QuietWakeInv
<1>3. WakeInv => NoLostWakeup
    BY DEF WakeInv, NoLostWakeup, Covers, Notifying
<1> QED
    BY <1>1, <1>2, <1>3, DataInvInit, DataInvStep, PTL DEF Spec
=============================================================================
