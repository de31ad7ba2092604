--------------------------- MODULE LearnListProofs ---------------------------
(***************************************************************************)
(* Proofs about LearnList, for any number of callers, samples and buffers: *)
(* the records of the filter agree with the filter, no learned sample is   *)
(* swallowed, and acknowledgements reach the samples they are meant for.   *)
(***************************************************************************)
EXTENDS LearnList, FiniteSetTheorems, TLAPS

-----------------------------------------------------------------------------
\* Numbers.

\* Unsigned counters: arithmetic modulo their width.

LEMMA MulGrows ==
    ASSUME NEW M \in Nat \ {0}, NEW q \in Int, q >= 1
    PROVE  M * q >= M
OBVIOUS

LEMMA DivMod ==
    ASSUME NEW a \in Int, NEW M \in Nat \ {0}
    PROVE  /\ a % M \in 0 .. M - 1
           /\ a \div M \in Int
           /\ a = M * (a \div M) + (a % M)
OBVIOUS

LEMMA RemainderUnique ==
    ASSUME NEW M \in Nat \ {0}, NEW p \in Int, NEW q \in Int,
           NEW r \in 0 .. M - 1, NEW s \in 0 .. M - 1, M * p + r = M * q + s
    PROVE  r = s
<1>1. M * (p - q) = s - r
    OBVIOUS
<1>2. ~(p - q >= 1)
    <2> SUFFICES ASSUME p - q >= 1 PROVE FALSE
        OBVIOUS
    <2>1. M * (p - q) >= M
        BY MulGrows
    <2> QED
        BY <1>1, <2>1
<1>3. ~(q - p >= 1)
    <2> SUFFICES ASSUME q - p >= 1 PROVE FALSE
        OBVIOUS
    <2>1. M * (q - p) >= M
        BY MulGrows
    <2>2. M * (q - p) = r - s
        OBVIOUS
    <2> QED
        BY <2>1, <2>2
<1>4. p = q
    BY <1>2, <1>3
<1> QED
    BY <1>4

LEMMA RemainderIs ==
    ASSUME NEW M \in Nat \ {0}, NEW a \in Int, NEW q \in Int, NEW r \in 0 .. M - 1,
           a = M * q + r
    PROVE  a % M = r
<1>1. M * (a \div M) + (a % M) = M * q + r /\ a % M \in 0 .. M - 1 /\ a \div M \in Int
    BY DivMod
<1> QED
    BY <1>1, RemainderUnique

(***************************************************************************)
(* A counter that wraps can be taken for one that does not and is reduced  *)
(* at the end; one that is in range is not changed by the reduction.       *)
(***************************************************************************)
LEMMA WrapAdd ==
    ASSUME NEW M \in Nat \ {0}, NEW a \in Int, NEW d \in Int
    PROVE  ((a % M) + d) % M = (a + d) % M
<1> DEFINE r == a % M
           q == a \div M
           b == r + d
           s == b % M
           t == b \div M
<1>1. r \in 0 .. M - 1 /\ q \in Int /\ a = M * q + r
    BY DivMod
<1>2. b \in Int
    BY <1>1
<1>3. s \in 0 .. M - 1 /\ t \in Int /\ b = M * t + s
    <2> HIDE DEF b
    <2> QED
        BY <1>2, DivMod
<1> HIDE DEF r, q, s, t
<1>4. a + d = M * (q + t) + s
    <2>1. a + d = M * q + (M * t + s)
        BY <1>1, <1>3
    <2>2. M * (q + t) = M * q + M * t
        BY <1>1, <1>3
    <2>3. M * q \in Int /\ M * t \in Int
        BY <1>1, <1>3
    <2> QED
        BY <2>1, <2>2, <2>3, <1>3
<1>5. (a + d) % M = s
    <2>1. a + d \in Int /\ q + t \in Int
        BY <1>1, <1>3
    <2>2. s \in 0 .. M - 1
        BY <1>3
    <2> QED
        BY <1>4, <2>1, <2>2, RemainderIs
<1> QED
    BY <1>5 DEF s, r

LEMMA WrapInRange ==
    ASSUME NEW M \in Nat \ {0}, NEW a \in 0 .. M - 1
    PROVE  a % M = a
<1>1. a = M * 0 + a
    OBVIOUS
<1> QED
    BY <1>1, RemainderIs


Ids == 0 .. IdMod - 1
Record == [unacked_count : Nat, buffer : Seq(Node)]
Message == [id : Ids, count : Nat, payload : Seq(Samples), todo : SUBSET Nat]

BufferTypes ==
    /\ buffer \in Seq(Samples) /\ num_samples = Len(buffer)
    /\ buffer_tmp \in Seq(Samples) /\ num_samples_tmp \in Nat
    /\ buffer_tmp # << >> => num_samples_tmp = Len(buffer_tmp)
    /\ buffer_id \in Ids

FilterTypes ==
    /\ filter \subseteq Node /\ IsFiniteSet(filter)
    /\ DOMAIN old_buffers \subseteq Ids
    /\ \A i \in DOMAIN old_buffers : old_buffers[i] \in Record

ThreadTypes ==
    /\ caller \in [Callers -> {"idle", "b_can_swap", "ready"}]
    /\ transmitter \in {"ready", "wait", "wait_until", "header", "send", "sent", "exited"}
    /\ writer_busy \in BOOLEAN /\ (writer_busy = TRUE <=> InFlight)
    /\ flight \in [count : Nat, id : Ids, stale : BOOLEAN]

TypeInv ==
    /\ BufferTypes /\ FilterTypes /\ ThreadTypes
    /\ max_samples \in SampleLimits /\ with_timeout \in BOOLEAN
    /\ inbox \subseteq Message /\ raced \in BOOLEAN

\* An iterator of a record is at the position it was stored at.
RecordsInPlace ==
    \A i \in DOMAIN old_buffers : \A p \in DOMAIN old_buffers[i].buffer :
        old_buffers[i].buffer[p].id = i /\ old_buffers[i].buffer[p].pos = p

-----------------------------------------------------------------------------
\* No sample is swallowed.

Prev(id) == (id + IdMod - 1) % IdMod

\* A sample that was not notified is in the buffer that is being filled, or in the one
\* before it until that one was sent.
Waiting ==
    \A node \in filter :
        \/ node \in notified
        \/ node.sample \in Range(buffer) /\ node.id = buffer_id
        \/ /\ transmitter # "sent"
           /\ node.sample \in Range(buffer_tmp) /\ node.id = Prev(buffer_id)

\* What is sent is buffer_tmp, under the id it was filled under.
FlightIsTmp ==
    InFlight => /\ buffer_tmp # << >>
                /\ flight.count = Len(buffer_tmp)
                /\ transmitter # "header" => flight.id = Prev(buffer_id)

NotifyInv == ~raced => Waiting /\ FlightIsTmp

-----------------------------------------------------------------------------
\* Acknowledgements.

\* Ids are not reused before the bounds on calls are reached.
IdsSuffice == 2 * MaxLearned + MaxChanges < IdMod

Busy == {c \in Callers : caller[c] # "idle"}

\* A swap takes a call, or a sample.
SwapsBounded ==
    /\ learned \in 0 .. MaxLearned /\ changes \in 0 .. MaxChanges
    /\ buffer_id + Cardinality(Busy) + Len(buffer) <= 2 * learned + changes

\* The record of an id has n samples; without a record there is none.
Recorded(id, n) == IF id \in DOMAIN old_buffers THEN Len(old_buffers[id].buffer) = n ELSE n = 0
Filtered(id, b) == \A p \in DOMAIN b : [id |-> id, pos |-> p, sample |-> b[p]] \in filter

\* The samples of the buffers are in the filter in the order in which they will be sent.
BuffersFiltered ==
    /\ \A i \in DOMAIN old_buffers : i <= buffer_id
    /\ Filtered(buffer_id, buffer)
    /\ Recorded(buffer_id, Len(buffer))
    /\ buffer_tmp # << >> /\ transmitter # "sent" =>
          /\ buffer_id > 0
          /\ Filtered(buffer_id - 1, buffer_tmp)
          /\ Recorded(buffer_id - 1, Len(buffer_tmp))

\* A notification has an id of its own, older than the buffers that are not sent yet, and
\* all of the samples recorded under that id.
MessagesOK ==
    /\ \A m \in inbox :
          /\ m.id < buffer_id
          /\ m.id = buffer_id - 1 /\ buffer_tmp # << >> => transmitter = "sent"
          /\ m.count = Len(m.payload) /\ m.count > 0
          /\ m.todo \subseteq 1 .. m.count
          /\ m.id \in DOMAIN old_buffers => Len(old_buffers[m.id].buffer) = m.count
          /\ \A p \in m.todo : [id |-> m.id, pos |-> p, sample |-> m.payload[p]] \in filter
    /\ \A m, n \in inbox : m.id = n.id => m = n

AckInv == Careful /\ ~raced => fault = "none" /\ BuffersFiltered /\ MessagesOK

-----------------------------------------------------------------------------
\* How steps move the buffers.

\* The buffer that is filled holds b now, or was swapped with b in it.
Keeps(b) ==
    /\ buffer' = b /\ num_samples' = Len(b)
    /\ UNCHANGED <<buffer_id, buffer_tmp, num_samples_tmp>>
SwapsOut(b) ==
    /\ buffer_tmp = << >> /\ buffer_tmp' = b /\ num_samples_tmp' = Len(b)
    /\ buffer' = << >> /\ num_samples' = 0
    /\ buffer_id' = (buffer_id + 1) % IdMod

\* The transmit thread goes on, woken up or not.
Woken ==
    \/ transmitter' = transmitter
    \/ transmitter \in {"wait", "wait_until"} /\ transmitter' = "ready"

LEMMA EmptySeq ==
    ASSUME NEW S
    PROVE  << >> \in Seq(S) /\ Len(<< >>) = 0
OBVIOUS

LEMMA Processed ==
    ASSUME TypeInv, NEW c \in Callers, NEW b, NEW n, n = Len(b), process_full_buffer(c, b, n)
    PROVE  /\ Woken
           /\ \/ Keeps(b) /\ caller' = [caller EXCEPT ![c] = "b_can_swap"]
              \/ SwapsOut(b) /\ caller' = [caller EXCEPT ![c] = "idle"]
<1>1. CASE /\ buffer_tmp # << >>
           /\ caller' = [caller EXCEPT ![c] = "b_can_swap"]
           /\ buffer' = b /\ num_samples' = n
           /\ UNCHANGED <<buffer_id, sending, transmitter>>
    BY <1>1 DEF Keeps, Woken, sending
<1>2. CASE /\ buffer_tmp = << >>
           /\ swap_buffers(b, n)
           /\ NotifySend
           /\ caller' = [caller EXCEPT ![c] = "idle"]
    BY <1>2 DEF SwapsOut, swap_buffers, NotifySend, Woken
<1> QED
    BY <1>1, <1>2 DEF process_full_buffer

LEMMA BuffersTyped ==
    ASSUME BufferTypes, NEW b \in Seq(Samples), Keeps(b) \/ SwapsOut(b)
    PROVE  BufferTypes'
<1>1. CASE Keeps(b)
    BY <1>1 DEF Keeps, BufferTypes
<1>2. CASE SwapsOut(b)
    <2>1. buffer_id' \in Ids
        BY <1>2, DivMod, LearnAssumption DEF SwapsOut, BufferTypes, Ids
    <2>2. Len(b) \in Nat
        OBVIOUS
    <2> QED
        BY <1>2, <2>1, <2>2, EmptySeq DEF SwapsOut, BufferTypes
<1> QED
    BY <1>1, <1>2

LEMMA WokenFacts ==
    ASSUME ThreadTypes, Woken
    PROVE  /\ transmitter' \in {"ready", "wait", "wait_until", "header", "send", "sent", "exited"}
           /\ InFlight' <=> InFlight
           /\ transmitter' = "sent" <=> transmitter = "sent"
           /\ transmitter' = "header" <=> transmitter = "header"
<1>1. CASE transmitter' = transmitter
    BY <1>1 DEF InFlight, ThreadTypes
<1>2. CASE transmitter \in {"wait", "wait_until"} /\ transmitter' = "ready"
    BY <1>2 DEF InFlight
<1> QED
    BY <1>1, <1>2 DEF Woken

LEMMA WokenTyped ==
    ASSUME ThreadTypes, Woken, UNCHANGED <<flight, writer_busy>>,
           caller' \in [Callers -> {"idle", "b_can_swap", "ready"}]
    PROVE  ThreadTypes'
<1>1. writer_busy' \in BOOLEAN /\ (writer_busy' = TRUE <=> InFlight')
    BY WokenFacts DEF ThreadTypes
<1> QED
    BY <1>1, WokenFacts DEF ThreadTypes

-----------------------------------------------------------------------------
\* The filter and its records.

NodesOf(i) == {node \in filter : node.id = i}

LearnInv == TypeInv /\ RecordsInPlace /\ FilterAccounted

LEMMA NodesFinite ==
    ASSUME FilterTypes, NEW i
    PROVE  IsFiniteSet(NodesOf(i)) /\ Cardinality(NodesOf(i)) \in Nat
<1>1. NodesOf(i) \subseteq filter /\ IsFiniteSet(filter)
    BY DEF NodesOf, FilterTypes
<1>2. IsFiniteSet(NodesOf(i))
    BY <1>1, FS_Subset
<1> QED
    BY <1>2, FS_CardinalityType

\* The record of an id, found or made up.
LEMMA PtrsFacts ==
    ASSUME LearnInv, NEW id
    PROVE  /\ FilterPtrs(id) \in Record
           /\ FilterPtrs(id).unacked_count = Cardinality(NodesOf(id))
           /\ \A p \in DOMAIN FilterPtrs(id).buffer :
                 FilterPtrs(id).buffer[p].id = id /\ FilterPtrs(id).buffer[p].pos = p
           /\ \A node \in NodesOf(id) : \E p \in DOMAIN FilterPtrs(id).buffer :
                 node = FilterPtrs(id).buffer[p]
<1>1. CASE id \in DOMAIN old_buffers
    <2>1. FilterPtrs(id) = old_buffers[id]
        BY <1>1 DEF FilterPtrs
    <2>2. old_buffers[id] \in Record
        BY <1>1 DEF LearnInv, TypeInv, FilterTypes
    <2>3. old_buffers[id].unacked_count = Cardinality(NodesOf(id))
        BY <1>1 DEF LearnInv, FilterAccounted, NodesOf
    <2>4. \A p \in DOMAIN old_buffers[id].buffer :
             old_buffers[id].buffer[p].id = id /\ old_buffers[id].buffer[p].pos = p
        BY <1>1 DEF LearnInv, RecordsInPlace
    <2>5. \A node \in NodesOf(id) : \E p \in DOMAIN old_buffers[id].buffer :
             node = old_buffers[id].buffer[p]
        BY DEF LearnInv, FilterAccounted, NodesOf, Range
    <2> QED
        BY <2>1, <2>2, <2>3, <2>4, <2>5
<1>2. CASE id \notin DOMAIN old_buffers
    <2>1. FilterPtrs(id) = [unacked_count |-> 0, buffer |-> << >>]
        BY <1>2 DEF FilterPtrs
    <2>2. NodesOf(id) = {}
        BY <1>2 DEF LearnInv, FilterAccounted, NodesOf
    <2>3. Cardinality({}) = 0
        BY FS_EmptySet
    <2>4. [unacked_count |-> 0, buffer |-> << >>] \in Record
        BY EmptySeq DEF Record
    <2> QED
        BY <2>1, <2>2, <2>3, <2>4
<1> QED
    BY <1>1, <1>2

\* add_sample adds a node to the filter and to the record of its buffer.
LEMMA SampleAdded ==
    ASSUME LearnInv, NEW s \in Samples, NEW node,
           \A n \in filter : n.sample # s,
           node = [id |-> buffer_id, pos |-> Len(FilterPtrs(buffer_id).buffer) + 1, sample |-> s],
           filter' = filter \cup {node},
           old_buffers' =
              [i \in DOMAIN old_buffers \cup {buffer_id} |->
                  IF i # buffer_id THEN old_buffers[i]
                  ELSE [unacked_count |-> FilterPtrs(buffer_id).unacked_count + 1,
                        buffer |-> Append(FilterPtrs(buffer_id).buffer, node)]]
    PROVE  FilterTypes' /\ RecordsInPlace' /\ FilterAccounted'
<1>0. PICK ptrs : ptrs = FilterPtrs(buffer_id)
    OBVIOUS
<1>1. /\ ptrs.unacked_count \in Nat /\ ptrs.buffer \in Seq(Node)
      /\ ptrs.unacked_count = Cardinality(NodesOf(buffer_id))
      /\ \A p \in DOMAIN ptrs.buffer : ptrs.buffer[p].id = buffer_id /\ ptrs.buffer[p].pos = p
      /\ \A x \in NodesOf(buffer_id) : \E p \in DOMAIN ptrs.buffer : x = ptrs.buffer[p]
    BY <1>0, PtrsFacts DEF Record
<1>2. buffer_id \in Ids /\ FilterTypes
    BY DEF LearnInv, TypeInv, BufferTypes
<1>3. PICK l : l = Len(ptrs.buffer)
    OBVIOUS
<1>4. l \in Nat /\ DOMAIN ptrs.buffer = 1 .. l
    BY <1>1, <1>3
<1>5. /\ node \in Node /\ node \notin filter
      /\ node.id = buffer_id /\ node.pos = l + 1 /\ node.sample = s
    BY <1>0, <1>2, <1>3, <1>4 DEF Node, Ids
<1>6. PICK b : b = Append(ptrs.buffer, node)
    OBVIOUS
<1>7. /\ b \in Seq(Node) /\ DOMAIN b = 1 .. l + 1
      /\ b[l + 1] = node /\ \A p \in 1 .. l : b[p] = ptrs.buffer[p]
    BY <1>1, <1>3, <1>4, <1>5, <1>6
<1>8. /\ DOMAIN old_buffers' = DOMAIN old_buffers \cup {buffer_id}
      /\ \A i \in DOMAIN old_buffers : i # buffer_id => old_buffers'[i] = old_buffers[i]
      /\ old_buffers'[buffer_id] = [unacked_count |-> ptrs.unacked_count + 1, buffer |-> b]
    BY <1>0, <1>6
<1>9. /\ old_buffers'[buffer_id].buffer = b
      /\ old_buffers'[buffer_id].unacked_count = ptrs.unacked_count + 1
    BY <1>8
<1>10. FilterTypes'
    <2>1. filter' \subseteq Node
        BY <1>2, <1>5 DEF FilterTypes
    <2>2. IsFiniteSet(filter')
        <3>1. IsFiniteSet(filter)
            BY <1>2 DEF FilterTypes
        <3>2. IsFiniteSet(filter \cup {node})
            BY <3>1, FS_AddElement
        <3> QED
            BY <3>2
    <2>3. old_buffers'[buffer_id] \in Record
        <3>1. ptrs.unacked_count + 1 \in Nat /\ b \in Seq(Node)
            BY <1>1, <1>7
        <3>2. [unacked_count |-> ptrs.unacked_count + 1, buffer |-> b] \in Record
            BY <3>1 DEF Record
        <3> QED
            BY <1>8, <3>2
    <2> QED
        BY <1>2, <1>8, <2>1, <2>2, <2>3 DEF FilterTypes
<1>11. RecordsInPlace'
    <2>1. \A p \in DOMAIN b : b[p].id = buffer_id /\ b[p].pos = p
        BY <1>1, <1>4, <1>5, <1>7
    <2> QED
        BY <1>8, <1>9, <2>1 DEF LearnInv, RecordsInPlace
<1>12. \A x \in filter' : /\ x.id \in DOMAIN old_buffers'
                          /\ x \in Range(old_buffers'[x.id].buffer)
    <2> SUFFICES ASSUME NEW x \in filter'
                 PROVE  /\ x.id \in DOMAIN old_buffers'
                        /\ x \in Range(old_buffers'[x.id].buffer)
        OBVIOUS
    <2>1. CASE x = node
        <3>1. l + 1 \in DOMAIN b
            BY <1>4, <1>7
        <3> QED
            BY <1>5, <1>7, <1>8, <1>9, <2>1, <3>1 DEF Range
    <2>2. CASE x \in filter /\ x.id # buffer_id
        BY <1>8, <2>2 DEF LearnInv, FilterAccounted
    <2>3. CASE x \in filter /\ x.id = buffer_id
        <3>1. PICK p \in 1 .. l : x = ptrs.buffer[p]
            BY <1>1, <1>4, <2>3 DEF NodesOf
        <3>2. p \in DOMAIN b /\ x = b[p]
            BY <1>4, <1>7, <3>1
        <3> QED
            BY <1>8, <1>9, <2>3, <3>2 DEF Range
    <2> QED
        BY <2>1, <2>2, <2>3
<1>13. \A i \in DOMAIN old_buffers' :
          old_buffers'[i].unacked_count = Cardinality({x \in filter' : x.id = i})
    <2> SUFFICES ASSUME NEW i \in DOMAIN old_buffers'
                 PROVE  old_buffers'[i].unacked_count = Cardinality({x \in filter' : x.id = i})
        OBVIOUS
    <2>1. CASE i # buffer_id
        <3>1. {x \in filter' : x.id = i} = {x \in filter : x.id = i}
            BY <1>5, <2>1
        <3> QED
            BY <1>8, <2>1, <3>1 DEF LearnInv, FilterAccounted
    <2>2. CASE i = buffer_id
        <3>1. {x \in filter' : x.id = i} = NodesOf(buffer_id) \cup {node}
            BY <1>5, <2>2 DEF NodesOf
        <3>2. node \notin NodesOf(buffer_id) /\ IsFiniteSet(NodesOf(buffer_id))
            BY <1>2, <1>5, NodesFinite DEF NodesOf
        <3>3. Cardinality(NodesOf(buffer_id) \cup {node}) = Cardinality(NodesOf(buffer_id)) + 1
            BY <3>2, FS_AddElement
        <3> QED
            BY <1>1, <1>9, <2>2, <3>1, <3>3
    <2> QED
        BY <2>1, <2>2
<1> QED
    BY <1>10, <1>11, <1>12, <1>13 DEF FilterAccounted

\* ack takes the nodes at some positions of a record from the filter.
LEMMA SamplesAcked ==
    ASSUME LearnInv, NEW id \in DOMAIN old_buffers, NEW positions, IsFiniteSet(positions),
           NEW left, left = old_buffers[id].unacked_count - Cardinality(positions),
           \A p \in positions : /\ p \in DOMAIN old_buffers[id].buffer
                                /\ old_buffers[id].buffer[p] \in filter,
           filter' = filter \ {old_buffers[id].buffer[p] : p \in positions},
           old_buffers' = IF left = 0 THEN Forget(id)
                          ELSE [old_buffers EXCEPT ![id].unacked_count = left]
    PROVE  FilterTypes' /\ RecordsInPlace' /\ FilterAccounted'
<1>0. PICK b : b = old_buffers[id].buffer
    OBVIOUS
<1> DEFINE G == {b[p] : p \in positions}
<1>1. /\ FilterTypes /\ old_buffers[id] \in Record
      /\ old_buffers[id].unacked_count = Cardinality(NodesOf(id))
      /\ \A p \in DOMAIN b : b[p].id = id /\ b[p].pos = p
    BY <1>0 DEF LearnInv, TypeInv, FilterTypes, FilterAccounted, NodesOf, RecordsInPlace
<1>2. /\ filter' = filter \ G /\ G \subseteq NodesOf(id)
      /\ \A p \in positions : p \in DOMAIN b /\ b[p] \in filter
    BY <1>0, <1>1 DEF NodesOf
<1>3. IsFiniteSet(G) /\ Cardinality(G) = Cardinality(positions)
    <2> DEFINE f == [p \in positions |-> b[p]]
    <2>1. f \in Bijection(positions, G)
        BY <1>1, <1>2 DEF Bijection, Injection, Surjection, IsInjective
    <2> QED
        BY <2>1, FS_Bijection DEF ExistsBijection
<1> HIDE DEF G
<1>4. IsFiniteSet(NodesOf(id)) /\ Cardinality(NodesOf(id)) \in Nat
    BY <1>1, NodesFinite
<1>5. /\ IsFiniteSet(NodesOf(id) \ G)
      /\ Cardinality(NodesOf(id) \ G) = Cardinality(NodesOf(id)) - Cardinality(NodesOf(id) \cap G)
    BY <1>4, FS_Difference
<1>6. NodesOf(id) \cap G = G
    BY <1>2
<1>7. left = Cardinality(NodesOf(id) \ G) /\ left \in Nat
    <2>1. Cardinality(NodesOf(id) \ G) \in Nat
        BY <1>5, FS_CardinalityType
    <2> QED
        BY <1>1, <1>3, <1>5, <1>6, <2>1
<1>8. /\ {x \in filter' : x.id = id} = NodesOf(id) \ G
      /\ \A i : i # id => {x \in filter' : x.id = i} = {x \in filter : x.id = i}
    BY <1>2 DEF NodesOf
<1>9. filter' \subseteq Node /\ IsFiniteSet(filter')
    <2>1. IsFiniteSet(filter) /\ filter' \subseteq filter
        BY <1>1, <1>2 DEF FilterTypes
    <2>2. IsFiniteSet(filter')
        BY <2>1, FS_Subset
    <2> QED
        BY <1>1, <2>1, <2>2 DEF FilterTypes
<1>10. CASE left = 0
    <2>1. /\ DOMAIN old_buffers' = DOMAIN old_buffers \ {id}
          /\ \A i \in DOMAIN old_buffers' : old_buffers'[i] = old_buffers[i]
        BY <1>10 DEF Forget
    <2>2. NodesOf(id) \ G = {}
        BY <1>5, <1>7, <1>10, FS_EmptySet
    <2>3. \A x \in filter' : x \in filter /\ x.id # id
        BY <1>2, <1>8, <2>2
    <2>4. FilterTypes'
        BY <1>1, <1>9, <2>1 DEF FilterTypes
    <2>5. RecordsInPlace'
        BY <2>1 DEF LearnInv, RecordsInPlace
    <2>6. FilterAccounted'
        BY <1>8, <2>1, <2>3 DEF LearnInv, FilterAccounted
    <2> QED
        BY <2>4, <2>5, <2>6
<1>11. CASE left # 0
    <2>1. /\ DOMAIN old_buffers' = DOMAIN old_buffers
          /\ \A i \in DOMAIN old_buffers : i # id => old_buffers'[i] = old_buffers[i]
          /\ old_buffers'[id] = [old_buffers[id] EXCEPT !.unacked_count = left]
        BY <1>11
    <2>2. old_buffers'[id] \in Record /\ old_buffers'[id].buffer = b
          /\ old_buffers'[id].unacked_count = left
        BY <1>0, <1>1, <1>7, <2>1 DEF Record
    <2>3. \A x \in filter' : x \in filter
        BY <1>2
    <2>4. FilterTypes'
        BY <1>1, <1>9, <2>1, <2>2 DEF FilterTypes
    <2>5. RecordsInPlace'
        BY <1>1, <2>1, <2>2 DEF LearnInv, RecordsInPlace
    <2>6. \A x \in filter' : x.id \in DOMAIN old_buffers' /\ x \in Range(old_buffers'[x.id].buffer)
        BY <1>0, <2>1, <2>2, <2>3 DEF LearnInv, FilterAccounted
    <2>7. \A i \in DOMAIN old_buffers' :
             old_buffers'[i].unacked_count = Cardinality({x \in filter' : x.id = i})
        <3>1. \A i \in DOMAIN old_buffers' : i # id =>
                 old_buffers'[i].unacked_count = Cardinality({x \in filter' : x.id = i})
            BY <1>8, <2>1 DEF LearnInv, FilterAccounted
        <3>2. old_buffers'[id].unacked_count = Cardinality({x \in filter' : x.id = id})
            BY <1>7, <1>8, <2>2
        <3> QED
            BY <3>1, <3>2
    <2> QED
        BY <2>4, <2>5, <2>6, <2>7 DEF FilterAccounted
<1> QED
    BY <1>10, <1>11

\* ack_buffer empties the filter only when all of it is the acknowledged buffer's.
LEMMA ErasedFacts ==
    ASSUME LearnInv, NEW id \in DOMAIN old_buffers
    PROVE  /\ NodesOf(id) \subseteq Erased(old_buffers[id])
           /\ \A x \in filter : x \in Erased(old_buffers[id]) => x.id = id
<1>1. /\ FilterTypes /\ old_buffers[id].unacked_count = Cardinality(NodesOf(id))
      /\ \A p \in DOMAIN old_buffers[id].buffer : old_buffers[id].buffer[p].id = id
    BY DEF LearnInv, TypeInv, FilterAccounted, NodesOf, RecordsInPlace
<1>2. CASE old_buffers[id].unacked_count = Cardinality(filter)
    <2>1. Erased(old_buffers[id]) = filter
        BY <1>2 DEF Erased
    <2>2. IsFiniteSet(filter) /\ NodesOf(id) \in SUBSET filter
        BY <1>1 DEF FilterTypes, NodesOf
    <2>3. filter = NodesOf(id)
        BY <1>1, <1>2, <2>2, FS_Subset
    <2> QED
        BY <2>1, <2>3 DEF NodesOf
<1>3. CASE old_buffers[id].unacked_count # Cardinality(filter)
    <2>1. Erased(old_buffers[id]) = Range(old_buffers[id].buffer)
        BY <1>3 DEF Erased
    <2>2. NodesOf(id) \subseteq Range(old_buffers[id].buffer)
        BY DEF NodesOf, LearnInv, FilterAccounted
    <2> QED
        BY <1>1, <2>1, <2>2 DEF Range
<1> QED
    BY <1>2, <1>3

LEMMA BufferAcked ==
    ASSUME LearnInv, NEW id \in DOMAIN old_buffers,
           filter' = filter \ Erased(old_buffers[id]), old_buffers' = Forget(id)
    PROVE  FilterTypes' /\ RecordsInPlace' /\ FilterAccounted'
<1>1. /\ DOMAIN old_buffers' = DOMAIN old_buffers \ {id}
      /\ \A i \in DOMAIN old_buffers' : old_buffers'[i] = old_buffers[i]
    BY DEF Forget
<1>2. \A x \in filter' : x \in filter /\ x.id # id
    BY ErasedFacts DEF NodesOf
<1>3. \A i : i # id => {x \in filter' : x.id = i} = {x \in filter : x.id = i}
    BY ErasedFacts
<1>4. FilterTypes'
    <2>1. IsFiniteSet(filter) /\ filter' \subseteq filter
        BY DEF LearnInv, TypeInv, FilterTypes
    <2>2. IsFiniteSet(filter')
        BY <2>1, FS_Subset
    <2> QED
        BY <1>1, <2>1, <2>2 DEF LearnInv, TypeInv, FilterTypes
<1>5. RecordsInPlace'
    BY <1>1 DEF LearnInv, RecordsInPlace
<1>6. FilterAccounted'
    BY <1>1, <1>2, <1>3 DEF LearnInv, FilterAccounted
<1> QED
    BY <1>4, <1>5, <1>6

LEMMA FilterUntouched ==
    ASSUME LearnInv, UNCHANGED filtering
    PROVE  FilterTypes' /\ RecordsInPlace' /\ FilterAccounted'
BY DEF LearnInv, TypeInv, FilterTypes, RecordsInPlace, FilterAccounted, filtering

-----------------------------------------------------------------------------
\* Types and records are preserved by every step.

LEMMA AcknowledgeTyped ==
    ASSUME TypeInv, NEW m \in inbox, NEW positions, Acknowledge(m, positions)
    PROVE  inbox' \subseteq Message
<1>1. m \in Message /\ inbox \subseteq Message
    BY DEF TypeInv
<1>2. [m EXCEPT !.todo = @ \ positions] \in Message
    BY <1>1 DEF Message
<1> QED
    BY <1>1, <1>2 DEF Acknowledge

LEMMA CallerTyped ==
    ASSUME ThreadTypes, NEW c \in Callers,
           UNCHANGED caller \/ \E x \in {"idle", "b_can_swap", "ready"} : caller' = [caller EXCEPT ![c] = x]
    PROVE  caller' \in [Callers -> {"idle", "b_can_swap", "ready"}]
BY DEF ThreadTypes

\* What add_sample does to the buffers, the threads and the filter.
LEMMA AddSampleMoves ==
    ASSUME TypeInv, NEW c \in Callers, NEW s \in Samples, add_sample(c, s)
    PROVE  /\ Running /\ caller[c] = "idle" /\ learned < MaxLearned
           /\ \A n \in filter : n.sample # s
           /\ filter' = filter \cup {[id |-> buffer_id, pos |-> Len(FilterPtrs(buffer_id).buffer) + 1,
                                      sample |-> s]}
           /\ old_buffers' =
                [i \in DOMAIN old_buffers \cup {buffer_id} |->
                  IF i # buffer_id THEN old_buffers[i]
                  ELSE [unacked_count |-> FilterPtrs(buffer_id).unacked_count + 1,
                        buffer |-> Append(FilterPtrs(buffer_id).buffer,
                                     [id |-> buffer_id, pos |-> Len(FilterPtrs(buffer_id).buffer) + 1,
                                      sample |-> s])]]
           /\ Append(buffer, s) \in Seq(Samples) /\ Len(Append(buffer, s)) = Len(buffer) + 1
           /\ Woken
           /\ \/ Keeps(Append(buffer, s)) /\ UNCHANGED caller
              \/ Keeps(Append(buffer, s)) /\ caller' = [caller EXCEPT ![c] = "b_can_swap"]
              \/ SwapsOut(Append(buffer, s)) /\ caller' = [caller EXCEPT ![c] = "idle"]
           /\ learned' = learned + 1
           /\ UNCHANGED <<config, flight, writer_busy, observed, changes, resets>>
<1>1. /\ Append(buffer, s) \in Seq(Samples) /\ num_samples + 1 = Len(Append(buffer, s))
      /\ Len(Append(buffer, s)) = Len(buffer) + 1
    BY DEF TypeInv, BufferTypes
<1> DEFINE b == Append(buffer, s)
           n == num_samples + 1
<1>2. \/ /\ n = 1 /\ max_samples > 1
         /\ buffer' = b /\ num_samples' = n
         /\ overdue' = FALSE
         /\ NotifySend
         /\ UNCHANGED <<buffer_id, sending, caller>>
      \/ /\ ~(n = 1 /\ max_samples > 1) /\ n >= max_samples
         /\ process_full_buffer(c, b, n)
         /\ UNCHANGED overdue
      \/ /\ ~(n = 1 /\ max_samples > 1) /\ n < max_samples
         /\ buffer' = b /\ num_samples' = n
         /\ UNCHANGED <<buffer_id, sending, caller, transmitter, overdue>>
    BY DEF add_sample
<1>3. /\ Running /\ caller[c] = "idle" /\ learned < MaxLearned
      /\ \A x \in filter : x.sample # s
      /\ learned' = learned + 1
      /\ UNCHANGED <<config, flight, writer_busy, observed, changes, resets>>
    BY DEF add_sample
<1>4. /\ filter' = filter \cup {[id |-> buffer_id, pos |-> Len(FilterPtrs(buffer_id).buffer) + 1,
                                 sample |-> s]}
      /\ old_buffers' =
            [i \in DOMAIN old_buffers \cup {buffer_id} |->
              IF i # buffer_id THEN old_buffers[i]
              ELSE [unacked_count |-> FilterPtrs(buffer_id).unacked_count + 1,
                    buffer |-> Append(FilterPtrs(buffer_id).buffer,
                                 [id |-> buffer_id, pos |-> Len(FilterPtrs(buffer_id).buffer) + 1,
                                  sample |-> s])]]
    BY DEF add_sample
<1>5. CASE process_full_buffer(c, b, n)
    <2>1. /\ Woken
          /\ \/ Keeps(b) /\ caller' = [caller EXCEPT ![c] = "b_can_swap"]
             \/ SwapsOut(b) /\ caller' = [caller EXCEPT ![c] = "idle"]
        BY <1>1, <1>5, Processed
    <2> QED
        BY <1>1, <1>3, <1>4, <2>1
<1>6. CASE /\ buffer' = b /\ num_samples' = n /\ UNCHANGED <<buffer_id, sending, caller>>
           /\ NotifySend \/ UNCHANGED transmitter
    <2>1. Keeps(b) /\ UNCHANGED caller
        BY <1>1, <1>6 DEF Keeps, sending
    <2>2. Woken
        BY <1>6 DEF Woken, NotifySend
    <2> QED
        BY <1>1, <1>3, <1>4, <2>1, <2>2
<1> QED
    BY <1>2, <1>5, <1>6

LEMMA AddSampleLearnInv ==
    ASSUME LearnInv, NEW c \in Callers, NEW s \in Samples, add_sample(c, s)
    PROVE  LearnInv'
<1>1. TypeInv
    BY DEF LearnInv
<1>2. FilterTypes' /\ RecordsInPlace' /\ FilterAccounted'
    <2> DEFINE node == [id |-> buffer_id, pos |-> Len(FilterPtrs(buffer_id).buffer) + 1,
                        sample |-> s]
    <2>1. node = [id |-> buffer_id, pos |-> Len(FilterPtrs(buffer_id).buffer) + 1, sample |-> s]
        OBVIOUS
    <2>2. /\ \A n \in filter : n.sample # s
          /\ filter' = filter \cup {node}
          /\ old_buffers' =
                [i \in DOMAIN old_buffers \cup {buffer_id} |->
                  IF i # buffer_id THEN old_buffers[i]
                  ELSE [unacked_count |-> FilterPtrs(buffer_id).unacked_count + 1,
                        buffer |-> Append(FilterPtrs(buffer_id).buffer, node)]]
        BY <1>1, AddSampleMoves
    <2> HIDE DEF node
    <2> QED
        BY <2>1, <2>2, SampleAdded
<1>3. BufferTypes'
    BY <1>1, AddSampleMoves, BuffersTyped DEF TypeInv
<1>4. caller' \in [Callers -> {"idle", "b_can_swap", "ready"}]
    BY <1>1, AddSampleMoves, CallerTyped DEF TypeInv
<1>5. ThreadTypes'
    BY <1>1, <1>4, AddSampleMoves, WokenTyped DEF TypeInv
<1>6. UNCHANGED <<max_samples, with_timeout, inbox, raced>>
    BY <1>1, AddSampleMoves DEF config, observed
<1> QED
    BY <1>1, <1>2, <1>3, <1>5, <1>6 DEF LearnInv, TypeInv

LEMMA SetMaxMoves ==
    ASSUME TypeInv, NEW c \in Callers, NEW n \in SampleLimits, set_max_samples(c, n)
    PROVE  /\ caller[c] = "idle" /\ changes < MaxChanges /\ changes' = changes + 1
           /\ max_samples' = n
           /\ Woken
           /\ \/ Keeps(buffer) /\ UNCHANGED caller
              \/ Keeps(buffer) /\ caller' = [caller EXCEPT ![c] = "b_can_swap"]
              \/ SwapsOut(buffer) /\ caller' = [caller EXCEPT ![c] = "idle"]
           /\ UNCHANGED <<filtering, with_timeout, flight, writer_busy, observed, learned>>
<1>1. num_samples = Len(buffer)
    BY DEF TypeInv, BufferTypes
<1>2. /\ caller[c] = "idle" /\ changes < MaxChanges /\ changes' = changes + 1
      /\ max_samples' = n
      /\ UNCHANGED <<filtering, with_timeout, flight, writer_busy, observed, learned>>
    BY DEF set_max_samples
<1>3. CASE process_full_buffer(c, buffer, num_samples)
    BY <1>1, <1>2, <1>3, Processed
<1>4. CASE UNCHANGED <<filling, sending, caller, transmitter>>
    <2>1. Keeps(buffer) /\ Woken /\ UNCHANGED caller
        BY <1>1, <1>4 DEF Keeps, Woken, filling, sending
    <2> QED
        BY <1>2, <2>1
<1> QED
    BY <1>3, <1>4 DEF set_max_samples

LEMMA ResumeMoves ==
    ASSUME TypeInv, NEW c \in Callers, ResumeSwap(c)
    PROVE  /\ caller[c] = "ready"
           /\ Woken
           /\ \/ Keeps(buffer) /\ caller' = [caller EXCEPT ![c] = "b_can_swap"]
              \/ SwapsOut(buffer) /\ caller' = [caller EXCEPT ![c] = "idle"]
           /\ UNCHANGED <<filtering, config, flight, writer_busy, observed, bounds>>
<1>1. num_samples = Len(buffer)
    BY DEF TypeInv, BufferTypes
<1> QED
    BY <1>1, Processed DEF ResumeSwap

LEMMA CallsLearnInv ==
    ASSUME LearnInv, NEW c \in Callers,
           (\E n \in SampleLimits : set_max_samples(c, n)) \/ ResumeSwap(c)
    PROVE  LearnInv'
<1>1. TypeInv /\ buffer \in Seq(Samples) /\ BufferTypes /\ ThreadTypes
    BY DEF LearnInv, TypeInv, BufferTypes
<1>2. /\ Woken
      /\ Keeps(buffer) \/ SwapsOut(buffer)
      /\ UNCHANGED caller \/ \E x \in {"idle", "b_can_swap", "ready"} : caller' = [caller EXCEPT ![c] = x]
      /\ UNCHANGED <<filtering, with_timeout, flight, writer_busy, observed>>
      /\ max_samples' \in SampleLimits
    <2>1. CASE \E n \in SampleLimits : set_max_samples(c, n)
        BY <1>1, <2>1, SetMaxMoves
    <2>2. CASE ResumeSwap(c)
        BY <1>1, <2>2, ResumeMoves DEF config, TypeInv
    <2> QED
        BY <2>1, <2>2
<1>3. BufferTypes'
    BY <1>1, <1>2, BuffersTyped
<1>4. caller' \in [Callers -> {"idle", "b_can_swap", "ready"}]
    BY <1>1, <1>2, CallerTyped
<1>5. ThreadTypes'
    BY <1>1, <1>2, <1>4, WokenTyped
<1>6. FilterTypes' /\ RecordsInPlace' /\ FilterAccounted'
    BY <1>2, FilterUntouched
<1> QED
    BY <1>1, <1>2, <1>3, <1>5, <1>6 DEF LearnInv, TypeInv, observed

LEMMA AckLearnInv ==
    ASSUME LearnInv, NEW m \in inbox, NEW ps \in SUBSET (1 .. m.count), ack(m, ps)
    PROVE  LearnInv'
<1>1. TypeInv /\ m \in Message
    BY DEF LearnInv, TypeInv
<1>2. inbox' \subseteq Message
    BY <1>1, AcknowledgeTyped DEF ack
<1>3. UNCHANGED <<filling, sending, config, caller, transmit, raced>>
    BY DEF ack
<1>4. FilterTypes' /\ RecordsInPlace' /\ FilterAccounted'
    <2>1. CASE UNCHANGED filtering
        BY <2>1, FilterUntouched
    <2>2. CASE ~UNCHANGED filtering
        <3>1. PICK left : left = old_buffers[m.id].unacked_count - Cardinality(ps)
            OBVIOUS
        <3>2. /\ m.id \in DOMAIN old_buffers
              /\ \A p \in ps : /\ p \in DOMAIN old_buffers[m.id].buffer
                               /\ old_buffers[m.id].buffer[p] \in filter
              /\ filter' = filter \ {old_buffers[m.id].buffer[p] : p \in ps}
              /\ old_buffers' = IF left = 0 THEN Forget(m.id)
                                ELSE [old_buffers EXCEPT ![m.id].unacked_count = left]
            BY <2>2, <3>1 DEF ack
        <3>3. IsFiniteSet(ps)
            <4>1. m.count \in Nat /\ IsFiniteSet(1 .. m.count)
                BY <1>1, FS_Interval DEF Message
            <4> QED
                BY <4>1, FS_Subset
        <3> QED
            BY <3>1, <3>2, <3>3, SamplesAcked
    <2> QED
        BY <2>1, <2>2
<1> QED
    BY <1>1, <1>2, <1>3, <1>4
    DEF LearnInv, TypeInv, BufferTypes, ThreadTypes, InFlight, filling, sending, config, transmit

LEMMA AckBufferLearnInv ==
    ASSUME LearnInv, NEW m \in inbox, ack_buffer(m)
    PROVE  LearnInv'
<1>1. TypeInv
    BY DEF LearnInv
<1>2. inbox' \subseteq Message
    BY <1>1, AcknowledgeTyped DEF ack_buffer
<1>3. UNCHANGED <<filling, sending, config, caller, transmit, raced>>
    BY DEF ack_buffer
<1>4. FilterTypes' /\ RecordsInPlace' /\ FilterAccounted'
    <2>1. CASE UNCHANGED filtering
        BY <2>1, FilterUntouched
    <2>2. CASE ~UNCHANGED filtering
        <3>1. /\ m.id \in DOMAIN old_buffers
              /\ filter' = filter \ Erased(old_buffers[m.id])
              /\ old_buffers' = Forget(m.id)
            BY <2>2 DEF ack_buffer
        <3> QED
            BY <3>1, BufferAcked
    <2> QED
        BY <2>1, <2>2
<1> QED
    BY <1>1, <1>2, <1>3, <1>4
    DEF LearnInv, TypeInv, BufferTypes, ThreadTypes, InFlight, filling, sending, config, transmit

LEMMA ResetLearnInv ==
    ASSUME LearnInv, reset_state
    PROVE  LearnInv'
<1>1. /\ buffer' = << >> /\ buffer_id' = 0 /\ num_samples' = 0
      /\ buffer_tmp' = << >> /\ num_samples_tmp' = 0
      /\ filter' = {} /\ old_buffers' = << >>
      /\ flight' = [flight EXCEPT !.stale = InFlight]
      /\ raced' = (raced \/ InFlight)
      /\ inbox' = {} \/ inbox' = inbox
      /\ UNCHANGED <<max_samples, with_timeout, caller, transmitter, writer_busy>>
    BY DEF reset_state, config
<1>2. BufferTypes'
    <2>1. 0 \in Ids
        BY LearnAssumption DEF Ids
    <2> QED
        BY <1>1, <2>1, EmptySeq DEF BufferTypes
<1>3. DOMAIN old_buffers' = {}
    BY <1>1
<1>4. FilterTypes'
    BY <1>1, <1>3, FS_EmptySet DEF FilterTypes
<1>5. RecordsInPlace' /\ FilterAccounted'
    BY <1>1, <1>3 DEF RecordsInPlace, FilterAccounted
<1>6. ThreadTypes'
    <2>1. InFlight \in BOOLEAN
        BY DEF InFlight
    <2>2. flight' \in [count : Nat, id : Ids, stale : BOOLEAN]
        BY <1>1, <2>1 DEF LearnInv, TypeInv, ThreadTypes
    <2> QED
        BY <1>1, <2>2 DEF LearnInv, TypeInv, ThreadTypes, InFlight
<1> QED
    BY <1>1, <1>2, <1>4, <1>5, <1>6 DEF LearnInv, TypeInv

\* Steps that change neither buffers nor filter.
LEMMA QuietLearnInv ==
    ASSUME LearnInv, ThreadTypes', UNCHANGED <<filling, sending, filtering>>,
           max_samples' \in SampleLimits, with_timeout' \in BOOLEAN,
           inbox' \subseteq Message, raced' \in BOOLEAN
    PROVE  LearnInv'
<1>1. BufferTypes'
    BY DEF LearnInv, TypeInv, BufferTypes, filling, sending
<1> QED
    BY <1>1, FilterUntouched DEF LearnInv, TypeInv

LEMMA TransmitMoves ==
    ASSUME TypeInv, buffer_transmit
    PROVE  /\ transmitter = "ready"
           /\ UNCHANGED <<filtering, config, caller, observed, bounds>>
           /\ \/ /\ transmitter' \in {"exited", "wait", "wait_until"}
                 /\ UNCHANGED <<filling, sending, flight, writer_busy>>
              \/ /\ buffer_tmp # << >> /\ UNCHANGED <<filling, sending>>
                 /\ transmitter' = "header" /\ writer_busy' = TRUE
                 /\ flight' = [count |-> Len(buffer_tmp), id |-> 0, stale |-> FALSE]
              \/ /\ SwapsOut(buffer) /\ Len(buffer) > 0
                 /\ transmitter' = "header" /\ writer_busy' = TRUE
                 /\ flight' = [count |-> Len(buffer), id |-> 0, stale |-> FALSE]
<1>1. /\ num_samples = Len(buffer)
      /\ buffer_tmp # << >> => num_samples_tmp = Len(buffer_tmp)
    BY DEF TypeInv, BufferTypes
<1>2. transmitter = "ready" /\ UNCHANGED <<filtering, config, caller, observed, bounds>>
    BY DEF buffer_transmit
<1>3. CASE /\ transmitter' = "exited" \/ transmitter' = IF with_timeout /\ num_samples > 0
                                                        THEN "wait_until" ELSE "wait"
           /\ UNCHANGED <<filling, sending, flight, writer_busy>>
    BY <1>2, <1>3
<1>4. CASE buffer_tmp # << >> /\ StartSending(num_samples_tmp) /\ UNCHANGED <<filling, sending>>
    BY <1>1, <1>2, <1>4 DEF StartSending
<1>5. CASE /\ buffer_tmp = << >> /\ DueNow
           /\ StartSending(num_samples) /\ swap_buffers(buffer, num_samples)
    <2>1. SwapsOut(buffer)
        BY <1>1, <1>5 DEF SwapsOut, swap_buffers
    <2>2. Len(buffer) > 0
        BY <1>1, <1>5 DEF DueNow
    <2> QED
        BY <1>1, <1>2, <1>5, <2>1, <2>2 DEF StartSending
<1> QED
    BY <1>3, <1>4, <1>5 DEF buffer_transmit

LEMMA TransmitLearnInv ==
    ASSUME LearnInv, buffer_transmit
    PROVE  LearnInv'
<1>1. TypeInv /\ BufferTypes /\ buffer \in Seq(Samples) /\ buffer_tmp \in Seq(Samples)
    BY DEF LearnInv, TypeInv, BufferTypes
<1>2. 0 \in Ids
    BY LearnAssumption DEF Ids
<1>3. ThreadTypes'
    <2>1. flight \in [count : Nat, id : Ids, stale : BOOLEAN]
          /\ caller \in [Callers -> {"idle", "b_can_swap", "ready"}]
          /\ transmitter = "ready" /\ writer_busy = FALSE
        BY <1>1, TransmitMoves DEF TypeInv, ThreadTypes, InFlight
    <2>2. CASE /\ transmitter' \in {"exited", "wait", "wait_until"}
               /\ UNCHANGED <<filling, sending, flight, writer_busy>>
        BY <1>1, <2>1, <2>2, TransmitMoves DEF ThreadTypes, InFlight
    <2>3. CASE /\ transmitter' = "header" /\ writer_busy' = TRUE
               /\ \E n \in Nat : flight' = [count |-> n, id |-> 0, stale |-> FALSE]
        BY <1>1, <1>2, <2>1, <2>3, TransmitMoves DEF ThreadTypes, InFlight
    <2>4. Len(buffer) \in Nat /\ Len(buffer_tmp) \in Nat
        BY <1>1
    <2> QED
        BY <1>1, <2>2, <2>3, <2>4, TransmitMoves
<1>4. BufferTypes'
    <2>1. CASE UNCHANGED <<filling, sending>>
        BY <1>1, <2>1 DEF BufferTypes, filling, sending
    <2>2. CASE SwapsOut(buffer)
        BY <1>1, <2>2, BuffersTyped
    <2> QED
        BY <1>1, <2>1, <2>2, TransmitMoves
<1>5. FilterTypes' /\ RecordsInPlace' /\ FilterAccounted'
    BY <1>1, TransmitMoves, FilterUntouched
<1> QED
    BY <1>1, <1>3, <1>4, <1>5, TransmitMoves DEF LearnInv, TypeInv, config, observed

LEMMA SendingLearnInv ==
    ASSUME LearnInv, FillHeader \/ send_msgs \/ FinishSending
    PROVE  LearnInv'
<1>1. /\ TypeInv /\ ThreadTypes /\ buffer_tmp \in Seq(Samples) /\ buffer_id \in Ids
      /\ flight \in [count : Nat, id : Ids, stale : BOOLEAN]
      /\ caller \in [Callers -> {"idle", "b_can_swap", "ready"}]
      /\ max_samples \in SampleLimits /\ with_timeout \in BOOLEAN
      /\ inbox \subseteq Message /\ raced \in BOOLEAN
    BY DEF LearnInv, TypeInv, BufferTypes, ThreadTypes
<1>2. CASE FillHeader
    <2>1. /\ transmitter = "header" /\ transmitter' = "send"
          /\ flight' = [flight EXCEPT !.id = (buffer_id + IdMod - 1) % IdMod]
          /\ UNCHANGED <<filling, sending, filtering, max_samples, with_timeout, caller,
                         writer_busy, inbox, raced>>
        BY <1>2 DEF FillHeader, config, observed
    <2>2. (buffer_id + IdMod - 1) % IdMod \in Ids
        BY <1>1, LearnAssumption, DivMod DEF Ids
    <2>3. ThreadTypes'
        BY <1>1, <2>1, <2>2 DEF ThreadTypes, InFlight
    <2> QED
        BY <1>1, <2>1, <2>3, QuietLearnInv
<1>3. CASE send_msgs
    <2>1. /\ transmitter = "send" /\ transmitter' = "sent"
          /\ \/ inbox' = inbox
             \/ inbox' = inbox \cup {[id |-> flight.id, count |-> flight.count,
                                      payload |-> buffer_tmp, todo |-> 1 .. flight.count]}
          /\ UNCHANGED <<filling, sending, filtering, max_samples, with_timeout, caller,
                         flight, writer_busy, raced>>
        BY <1>3 DEF send_msgs, config
    <2>2. [id |-> flight.id, count |-> flight.count, payload |-> buffer_tmp,
           todo |-> 1 .. flight.count] \in Message
        <3>1. flight.id \in Ids /\ flight.count \in Nat /\ 1 .. flight.count \in SUBSET Nat
            BY <1>1
        <3> QED
            BY <1>1, <3>1 DEF Message
    <2>3. ThreadTypes'
        BY <1>1, <2>1 DEF ThreadTypes, InFlight
    <2> QED
        BY <1>1, <2>1, <2>2, <2>3, QuietLearnInv
<1>4. CASE FinishSending
    <2>1. /\ transmitter = "sent" /\ transmitter' = "ready" /\ writer_busy' = FALSE
          /\ flight' = NoFlight /\ buffer_tmp' = << >> /\ NotifySwap
          /\ UNCHANGED <<buffer, num_samples, buffer_id, num_samples_tmp, filtering,
                         max_samples, with_timeout, inbox, raced>>
        BY <1>4 DEF FinishSending, filling, config, observed
    <2>2. caller' \in [Callers -> {"idle", "b_can_swap", "ready"}]
        BY <1>1, <2>1 DEF NotifySwap
    <2>3. NoFlight \in [count : Nat, id : Ids, stale : BOOLEAN]
        BY LearnAssumption DEF NoFlight, Ids
    <2>4. ThreadTypes'
        BY <2>1, <2>2, <2>3 DEF ThreadTypes, InFlight
    <2>5. BufferTypes'
        BY <1>1, <2>1, EmptySeq DEF TypeInv, BufferTypes
    <2> QED
        BY <1>1, <2>1, <2>4, <2>5, FilterUntouched DEF LearnInv, TypeInv
<1> QED
    BY <1>2, <1>3, <1>4

LEMMA OtherLearnInv ==
    ASSUME LearnInv,
           \/ \E on \in TimeoutModes, late \in BOOLEAN : set_timeout(on, late)
           \/ \E w \in Writers : set_learn_writer(w)
           \/ Destroy \/ WaitTimesOut \/ TimeoutPasses \/ SpuriousWakeup
           \/ UNCHANGED vars
    PROVE  LearnInv'
<1>1. /\ TypeInv /\ ThreadTypes
      /\ max_samples \in SampleLimits /\ with_timeout \in BOOLEAN
      /\ inbox \subseteq Message /\ raced \in BOOLEAN
      /\ caller \in [Callers -> {"idle", "b_can_swap", "ready"}]
    BY DEF LearnInv, TypeInv, ThreadTypes
<1>2. /\ UNCHANGED <<filling, sending, filtering, max_samples, flight, writer_busy, inbox, raced>>
      /\ with_timeout' \in BOOLEAN
      /\ Woken \/ (transmitter = "wait" /\ transmitter' = "ready")
      /\ caller' = caller \/ \E c \in Callers : caller' = [caller EXCEPT ![c] = "ready"]
    <2>1. CASE \E on \in TimeoutModes, late \in BOOLEAN : set_timeout(on, late)
        BY <1>1, <2>1, LearnAssumption DEF set_timeout, Woken, transmit, observed
    <2>2. CASE \E w \in Writers : set_learn_writer(w)
        BY <1>1, <2>2 DEF set_learn_writer, Woken, transmit, observed
    <2>3. CASE Destroy
        BY <1>1, <2>3 DEF Destroy, NotifySend, Woken, observed
    <2>4. CASE WaitTimesOut
        BY <1>1, <2>4 DEF WaitTimesOut, Woken, observed, config
    <2>5. CASE TimeoutPasses
        BY <1>1, <2>5 DEF TimeoutPasses, Woken, transmit, observed, config
    <2>6. CASE SpuriousWakeup
        BY <1>1, <2>6 DEF SpuriousWakeup, Woken, observed, config
    <2>7. CASE UNCHANGED vars
        BY <1>1, <2>7 DEF vars, Woken, transmit, observed, config
    <2> QED
        BY <2>1, <2>2, <2>3, <2>4, <2>5, <2>6, <2>7
<1>3. Woken
    BY <1>2 DEF Woken
<1>4. caller' \in [Callers -> {"idle", "b_can_swap", "ready"}]
    BY <1>1, <1>2
<1>5. ThreadTypes'
    BY <1>1, <1>2, <1>3, <1>4, WokenTyped
<1> QED
    BY <1>1, <1>2, <1>5, QuietLearnInv

LEMMA LearnInvInit == Init => LearnInv
<1> SUFFICES ASSUME Init PROVE LearnInv
    OBVIOUS
<1>1. BufferTypes
    BY LearnAssumption, EmptySeq DEF Init, BufferTypes, Ids
<1>2. DOMAIN old_buffers = {}
    BY DEF Init
<1>3. FilterTypes
    BY <1>2, FS_EmptySet DEF Init, FilterTypes
<1>4. RecordsInPlace /\ FilterAccounted
    BY <1>2 DEF Init, RecordsInPlace, FilterAccounted
<1>5. ThreadTypes
    <2>1. NoFlight \in [count : Nat, id : Ids, stale : BOOLEAN]
        BY LearnAssumption DEF NoFlight, Ids
    <2> QED
        BY <2>1 DEF Init, ThreadTypes, InFlight
<1> QED
    BY <1>1, <1>3, <1>4, <1>5, LearnAssumption DEF Init, LearnInv, TypeInv

LEMMA LearnInvStep == LearnInv /\ [Next]_vars => LearnInv'
<1> SUFFICES ASSUME LearnInv, [Next]_vars PROVE LearnInv'
    OBVIOUS
<1>1. ASSUME NEW c \in Callers, NEW s \in Samples, add_sample(c, s) PROVE LearnInv'
    BY <1>1, AddSampleLearnInv
<1>2. ASSUME NEW c \in Callers, NEW n \in SampleLimits, set_max_samples(c, n) PROVE LearnInv'
    BY <1>2, CallsLearnInv
<1>3. ASSUME NEW c \in Callers, ResumeSwap(c) PROVE LearnInv'
    BY <1>3, CallsLearnInv
<1>4. ASSUME reset_state PROVE LearnInv'
    BY <1>4, ResetLearnInv
<1>5. ASSUME NEW m \in inbox, ack_buffer(m) PROVE LearnInv'
    BY <1>5, AckBufferLearnInv
<1>6. ASSUME NEW m \in inbox, NEW ps \in SUBSET (1 .. m.count), ack(m, ps) PROVE LearnInv'
    BY <1>6, AckLearnInv
<1>7. ASSUME buffer_transmit PROVE LearnInv'
    BY <1>7, TransmitLearnInv
<1>8. ASSUME FillHeader \/ send_msgs \/ FinishSending PROVE LearnInv'
    BY <1>8, SendingLearnInv
<1>9. ASSUME \/ \E on \in TimeoutModes, late \in BOOLEAN : set_timeout(on, late)
             \/ \E w \in Writers : set_learn_writer(w)
             \/ Destroy \/ WaitTimesOut \/ TimeoutPasses \/ SpuriousWakeup
             \/ UNCHANGED vars
      PROVE  LearnInv'
    BY <1>9, OtherLearnInv
<1> QED
    BY <1>1, <1>2, <1>3, <1>4, <1>5, <1>6, <1>7, <1>8, <1>9, Zenon DEF Next

\* Whatever callers, controller and transmit thread do, and however often buffer ids wrap
\* around, the types hold, every filtered sample is in the record of its buffer, and the
\* record counts exactly the ones that are not acknowledged: what ack_buffer relies on when
\* it empties the whole filter.
THEOREM FilterAlwaysAccounted == Spec => [](TypeOK /\ FilterAccounted)
<1>1. LearnInv => TypeOK /\ FilterAccounted
    <2> SUFFICES ASSUME LearnInv PROVE TypeOK /\ FilterAccounted
        OBVIOUS
    <2>1. writer_busy \in BOOLEAN /\ (writer_busy = TRUE <=> InFlight)
        BY DEF LearnInv, TypeInv, ThreadTypes
    <2>2. InFlight \in BOOLEAN
        BY DEF InFlight
    <2>3. writer_busy = InFlight
        <3>1. CASE writer_busy = TRUE
            BY <2>1, <2>2, <3>1, Zenon
        <3>2. CASE writer_busy = FALSE
            BY <2>1, <2>2, <3>2, Zenon
        <3> QED
            BY <2>1, <3>1, <3>2, Zenon
    <2>4. /\ buffer \in Seq(Samples) /\ num_samples = Len(buffer)
          /\ buffer_tmp \in Seq(Samples)
          /\ buffer_tmp # << >> => num_samples_tmp = Len(buffer_tmp)
          /\ buffer_id \in 0 .. IdMod - 1
          /\ max_samples \in SampleLimits /\ with_timeout \in BOOLEAN
          /\ filter \subseteq Node
          /\ caller \in [Callers -> {"idle", "b_can_swap", "ready"}]
          /\ transmitter \in {"ready", "wait", "wait_until", "header", "send", "sent", "exited"}
          /\ FilterAccounted
        BY DEF LearnInv, TypeInv, BufferTypes, FilterTypes, ThreadTypes, Ids
    <2> QED
        BY <2>3, <2>4, Zenon DEF TypeOK
<1> QED
    BY <1>1, LearnInvInit, LearnInvStep, PTL DEF Spec
-----------------------------------------------------------------------------
\* No learned sample is swallowed.

LEMMA PrevFacts ==
    ASSUME NEW id \in Ids
    PROVE  Prev(id) \in Ids /\ Prev((id + 1) % IdMod) = id
<1>1. IdMod \in Nat \ {0} /\ id \in Int
    BY LearnAssumption DEF Ids
<1>2. Prev(id) \in Ids
    BY <1>1, DivMod DEF Prev, Ids
<1>3. PICK next : next = (id + 1) % IdMod
    OBVIOUS
<1>4. next \in Int
    BY <1>1, <1>3, DivMod
<1>5. (next + (IdMod - 1)) % IdMod = ((id + 1) + (IdMod - 1)) % IdMod
    <2>1. PICK a : a = id + 1
        OBVIOUS
    <2>2. PICK d : d = IdMod - 1
        OBVIOUS
    <2>3. a \in Int /\ d \in Int
        BY <1>1, <2>1, <2>2
    <2>4. ((a % IdMod) + d) % IdMod = (a + d) % IdMod
        BY <1>1, <2>3, WrapAdd
    <2> QED
        BY <1>3, <2>1, <2>2, <2>4
<1>6. next + (IdMod - 1) = next + IdMod - 1 /\ (id + 1) + (IdMod - 1) = IdMod * 1 + id
    BY <1>1, <1>4
<1>7. (IdMod * 1 + id) % IdMod = id
    <2>1. IdMod * 1 + id \in Int /\ id \in 0 .. IdMod - 1
        BY <1>1 DEF Ids
    <2> QED
        BY <1>1, <2>1, RemainderIs
<1> QED
    BY <1>2, <1>3, <1>5, <1>6, <1>7 DEF Prev

\* A sample moves with the buffer it is in.
LEMMA WaitingMoves ==
    ASSUME TypeInv, Waiting, transmitter = "sent" => buffer_tmp # << >>,
           transmitter' = "sent" => transmitter = "sent",
           NEW b, Range(buffer) \subseteq Range(b), Keeps(b) \/ SwapsOut(b), notified' = notified,
           \A x \in filter' : x \in filter \/ (x.id = buffer_id /\ x.sample \in Range(b))
    PROVE  Waiting'
<1> SUFFICES ASSUME NEW x \in filter'
             PROVE  \/ x \in notified'
                    \/ x.sample \in Range(buffer') /\ x.id = buffer_id'
                    \/ /\ transmitter' # "sent"
                       /\ x.sample \in Range(buffer_tmp') /\ x.id = Prev(buffer_id')
    BY DEF Waiting, Prev
<1>1. \/ x \in notified
      \/ x.sample \in Range(b) /\ x.id = buffer_id
      \/ /\ transmitter # "sent"
         /\ x.sample \in Range(buffer_tmp) /\ x.id = Prev(buffer_id)
    BY DEF Waiting
<1>2. CASE Keeps(b)
    BY <1>1, <1>2 DEF Keeps
<1>3. CASE SwapsOut(b)
    <2>1. Prev(buffer_id') = buffer_id
        BY <1>3, PrevFacts DEF SwapsOut, TypeInv, BufferTypes
    <2>2. x.sample \notin Range(buffer_tmp) /\ transmitter' # "sent"
        BY <1>3 DEF SwapsOut, Range
    <2> QED
        BY <1>1, <1>3, <2>1, <2>2 DEF SwapsOut
<1> QED
    BY <1>2, <1>3

\* What is in flight stays where it is.
LEMMA FlightStays ==
    ASSUME TypeInv, FlightIsTmp, Woken, NEW b, Keeps(b) \/ SwapsOut(b), flight' = flight
    PROVE  FlightIsTmp'
<1>1. ThreadTypes
    BY DEF TypeInv
<1>2. (InFlight' <=> InFlight) /\ (transmitter' = "header" <=> transmitter = "header")
    BY <1>1, WokenFacts
<1>3. InFlight => buffer_tmp' = buffer_tmp /\ buffer_id' = buffer_id
    BY DEF FlightIsTmp, Keeps, SwapsOut
<1> QED
    BY <1>2, <1>3 DEF FlightIsTmp, Prev

LEMMA CallsNotifyInv ==
    ASSUME TypeInv, NotifyInv, Woken, NEW b, Range(buffer) \subseteq Range(b),
           Keeps(b) \/ SwapsOut(b), UNCHANGED <<notified, raced, flight>>,
           \A x \in filter' : x \in filter \/ (x.id = buffer_id /\ x.sample \in Range(b))
    PROVE  NotifyInv'
<1> SUFFICES ASSUME ~raced' PROVE Waiting' /\ FlightIsTmp'
    BY DEF NotifyInv
<1>1. Waiting /\ FlightIsTmp
    BY DEF NotifyInv
<1>2. transmitter = "sent" => buffer_tmp # << >>
    BY <1>1 DEF FlightIsTmp, InFlight
<1>3. transmitter' = "sent" => transmitter = "sent"
    BY WokenFacts DEF TypeInv
<1>4. Waiting'
    BY <1>1, <1>2, <1>3, WaitingMoves
<1> QED
    BY <1>1, <1>4, FlightStays

\* Steps that leave the buffers alone, and may take samples from the filter.
LEMMA QuietNotifyInv ==
    ASSUME TypeInv, NotifyInv, Woken, UNCHANGED <<filling, sending, flight, notified, raced>>,
           filter' \subseteq filter
    PROVE  NotifyInv'
<1>1. Keeps(buffer)
    BY DEF Keeps, filling, sending, TypeInv, BufferTypes
<1> QED
    BY <1>1, CallsNotifyInv

LEMMA AddSampleNotifyInv ==
    ASSUME LearnInv, NotifyInv, NEW c \in Callers, NEW s \in Samples, add_sample(c, s)
    PROVE  NotifyInv'
<1>1. TypeInv
    BY DEF LearnInv
<1>2. PICK b : b = Append(buffer, s)
    OBVIOUS
<1>3. Range(buffer) \subseteq Range(b) /\ s \in Range(b)
    <2>1. buffer \in Seq(Samples)
        BY <1>1 DEF TypeInv, BufferTypes
    <2>2. /\ Len(buffer) \in Nat /\ DOMAIN buffer = 1 .. Len(buffer)
          /\ DOMAIN b = 1 .. Len(buffer) + 1
          /\ b[Len(buffer) + 1] = s /\ \A i \in 1 .. Len(buffer) : b[i] = buffer[i]
        BY <1>2, <2>1
    <2> QED
        BY <2>2 DEF Range
<1>4. /\ Woken
      /\ Keeps(b) \/ SwapsOut(b)
      /\ UNCHANGED <<flight, observed>>
      /\ filter' = filter \cup {[id |-> buffer_id, pos |-> Len(FilterPtrs(buffer_id).buffer) + 1,
                                 sample |-> s]}
    BY <1>1, <1>2, AddSampleMoves
<1>5. \A x \in filter' : x \in filter \/ (x.id = buffer_id /\ x.sample \in Range(b))
    BY <1>3, <1>4
<1> QED
    BY <1>1, <1>3, <1>4, <1>5, CallsNotifyInv DEF observed

LEMMA CallNotifyInv ==
    ASSUME LearnInv, NotifyInv, NEW c \in Callers,
           (\E n \in SampleLimits : set_max_samples(c, n)) \/ ResumeSwap(c)
    PROVE  NotifyInv'
<1>1. TypeInv
    BY DEF LearnInv
<1>2. Woken /\ (Keeps(buffer) \/ SwapsOut(buffer)) /\ UNCHANGED <<flight, observed, filtering>>
    BY <1>1, SetMaxMoves, ResumeMoves
<1> QED
    BY <1>1, <1>2, CallsNotifyInv DEF observed, filtering

LEMMA ResetNotifyInv ==
    ASSUME LearnInv, NotifyInv, reset_state
    PROVE  NotifyInv'
<1> SUFFICES ASSUME ~raced' PROVE Waiting' /\ FlightIsTmp'
    BY DEF NotifyInv
<1>1. ~InFlight
    BY Zenon DEF reset_state
<1>2. filter' = {} /\ transmitter' = transmitter
    BY DEF reset_state
<1> QED
    BY <1>1, <1>2 DEF Waiting, FlightIsTmp, InFlight

LEMMA TransmitNotifyInv ==
    ASSUME LearnInv, NotifyInv, buffer_transmit
    PROVE  NotifyInv'
<1>1. TypeInv /\ BufferTypes /\ buffer \in Seq(Samples)
    BY DEF LearnInv, TypeInv, BufferTypes
<1>2. transmitter = "ready" /\ UNCHANGED <<filtering, observed>>
    BY <1>1, TransmitMoves
<1> SUFFICES ASSUME ~raced' PROVE Waiting' /\ FlightIsTmp'
    BY DEF NotifyInv
<1>3. Waiting /\ FlightIsTmp
    BY <1>2 DEF NotifyInv, observed
<1>4. CASE /\ transmitter' \in {"exited", "wait", "wait_until"}
           /\ UNCHANGED <<filling, sending, flight, writer_busy>>
    BY <1>2, <1>3, <1>4 DEF Waiting, FlightIsTmp, InFlight, Prev, filling, sending, filtering, observed
<1>5. CASE /\ buffer_tmp # << >> /\ UNCHANGED <<filling, sending>>
           /\ transmitter' = "header" /\ writer_busy' = TRUE
           /\ flight' = [count |-> Len(buffer_tmp), id |-> 0, stale |-> FALSE]
    BY <1>2, <1>3, <1>5 DEF Waiting, FlightIsTmp, InFlight, Prev, filling, sending, filtering, observed
<1>6. CASE /\ SwapsOut(buffer) /\ Len(buffer) > 0
           /\ transmitter' = "header" /\ writer_busy' = TRUE
           /\ flight' = [count |-> Len(buffer), id |-> 0, stale |-> FALSE]
    <2>1. filter' = filter /\ notified' = notified
        BY <1>2 DEF filtering, observed
    <2>2. Waiting'
        BY <1>1, <1>2, <1>3, <1>6, <2>1, WaitingMoves
    <2>3. buffer' = << >> /\ buffer_tmp' = buffer /\ buffer_tmp' # << >>
        BY <1>1, <1>6, EmptySeq DEF SwapsOut
    <2> QED
        BY <1>6, <2>2, <2>3 DEF FlightIsTmp
<1> QED
    BY <1>1, <1>4, <1>5, <1>6, TransmitMoves

LEMMA SendingNotifyInv ==
    ASSUME LearnInv, NotifyInv, FillHeader \/ send_msgs \/ FinishSending
    PROVE  NotifyInv'
<1> SUFFICES ASSUME ~raced' PROVE Waiting' /\ FlightIsTmp'
    BY DEF NotifyInv
<1>1. raced' = raced
    BY DEF FillHeader, send_msgs, FinishSending, observed
<1>2. Waiting /\ FlightIsTmp /\ flight \in [count : Nat, id : Ids, stale : BOOLEAN]
    BY <1>1 DEF NotifyInv, LearnInv, TypeInv, ThreadTypes
<1>3. CASE FillHeader
    <2>1. /\ transmitter = "header" /\ transmitter' = "send"
          /\ flight' = [flight EXCEPT !.id = Prev(buffer_id)]
          /\ UNCHANGED <<buffer, buffer_id, buffer_tmp, filter, notified>>
        BY <1>3 DEF FillHeader, filling, sending, filtering, observed, Prev
    <2>2. flight'.count = flight.count /\ flight'.id = Prev(buffer_id)
        BY <1>2, <2>1
    <2> QED
        BY <1>2, <2>1, <2>2 DEF Waiting, FlightIsTmp, InFlight, Prev
<1>4. CASE send_msgs
    <2>1. /\ transmitter = "send" /\ transmitter' = "sent"
          /\ notified' = notified \cup
                {x \in filter : x.id = flight.id /\ x.sample \in Range(buffer_tmp)}
          /\ UNCHANGED <<buffer, buffer_id, buffer_tmp, filter, flight>>
        BY <1>4 DEF send_msgs, filling, sending, filtering
    <2>2. flight.id = Prev(buffer_id)
        BY <1>2, <2>1 DEF FlightIsTmp, InFlight
    <2>3. Waiting'
        BY <1>2, <2>1, <2>2 DEF Waiting, Prev
    <2> QED
        BY <1>2, <2>1, <2>3 DEF FlightIsTmp, InFlight, Prev
<1>5. CASE FinishSending
    <2>1. /\ transmitter = "sent" /\ transmitter' = "ready"
          /\ UNCHANGED <<buffer, buffer_id, filter, notified>>
        BY <1>5 DEF FinishSending, filling, filtering, observed
    <2> QED
        BY <1>2, <2>1 DEF Waiting, FlightIsTmp, InFlight, Prev
<1> QED
    BY <1>3, <1>4, <1>5

LEMMA NotifyInvStep == LearnInv /\ NotifyInv /\ [Next]_vars => NotifyInv'
<1> SUFFICES ASSUME LearnInv, NotifyInv, [Next]_vars PROVE NotifyInv'
    OBVIOUS
<1>0. TypeInv
    BY DEF LearnInv
<1>1. ASSUME NEW c \in Callers, NEW s \in Samples, add_sample(c, s) PROVE NotifyInv'
    BY <1>1, AddSampleNotifyInv
<1>2. ASSUME NEW c \in Callers, NEW n \in SampleLimits, set_max_samples(c, n) PROVE NotifyInv'
    BY <1>2, CallNotifyInv
<1>3. ASSUME NEW c \in Callers, ResumeSwap(c) PROVE NotifyInv'
    BY <1>3, CallNotifyInv
<1>4. ASSUME reset_state PROVE NotifyInv'
    BY <1>4, ResetNotifyInv
<1>5. ASSUME NEW m \in inbox, ack_buffer(m) PROVE NotifyInv'
    <2>1. filter' \subseteq filter /\ UNCHANGED <<filling, sending, flight, notified, raced, transmitter>>
        BY <1>5 DEF ack_buffer, filtering, transmit
    <2> QED
        BY <1>0, <2>1, QuietNotifyInv DEF Woken
<1>6. ASSUME NEW m \in inbox, NEW ps \in SUBSET (1 .. m.count), ack(m, ps) PROVE NotifyInv'
    <2>1. filter' \subseteq filter /\ UNCHANGED <<filling, sending, flight, notified, raced, transmitter>>
        BY <1>6 DEF ack, filtering, transmit
    <2> QED
        BY <1>0, <2>1, QuietNotifyInv DEF Woken
<1>7. ASSUME buffer_transmit PROVE NotifyInv'
    BY <1>7, TransmitNotifyInv
<1>8. ASSUME FillHeader \/ send_msgs \/ FinishSending PROVE NotifyInv'
    BY <1>8, SendingNotifyInv
<1>9. ASSUME \/ \E on \in TimeoutModes, late \in BOOLEAN : set_timeout(on, late)
             \/ \E w \in Writers : set_learn_writer(w)
             \/ Destroy \/ WaitTimesOut \/ TimeoutPasses \/ SpuriousWakeup
             \/ UNCHANGED vars
      PROVE  NotifyInv'
    <2>1. UNCHANGED <<filling, sending, filtering, flight, observed>>
        BY <1>9 DEF set_timeout, set_learn_writer, Destroy, WaitTimesOut, TimeoutPasses,
                    SpuriousWakeup, vars, transmit
    <2>2. Woken
        BY <1>9 DEF set_timeout, set_learn_writer, Destroy, WaitTimesOut, TimeoutPasses,
                    SpuriousWakeup, vars, transmit, NotifySend, Woken
    <2> QED
        BY <1>0, <2>1, <2>2, QuietNotifyInv DEF filtering, observed
<1> QED
    BY <1>1, <1>2, <1>3, <1>4, <1>5, <1>6, <1>7, <1>8, <1>9, Zenon DEF Next

\* However the callers, the timeouts and the transmit thread interleave, and however often
\* buffer ids wrap around: a sample that is filtered out was sent or is in one of the two
\* buffers, unless reset_state ran while a notification was being sent.
THEOREM NothingIsSwallowed == Spec => []FilteredIsNotifiedUnlessRaced
<1>1. Init => NotifyInv
    BY DEF Init, NotifyInv, Waiting, FlightIsTmp, InFlight
<1>2. LearnInv /\ NotifyInv => FilteredIsNotifiedUnlessRaced
    BY DEF NotifyInv, Waiting, FilteredIsNotifiedUnlessRaced, FilteredIsNotified
<1> QED
    BY <1>1, <1>2, LearnInvInit, LearnInvStep, NotifyInvStep, PTL DEF Spec
-----------------------------------------------------------------------------
\* Buffer ids do not wrap around within the bounds on calls.

LEMMA BusyFinite ==
    ASSUME IsFiniteSet(Callers)
    PROVE  IsFiniteSet(Busy) /\ Cardinality(Busy) \in Nat
<1>1. Busy \subseteq Callers
    BY DEF Busy
<1> QED
    BY <1>1, FS_Subset, FS_CardinalityType

\* How a call that starts, waits or ends changes the number of callers inside.
LEMMA BusyChanges ==
    ASSUME IsFiniteSet(Callers), ThreadTypes, NEW c \in Callers, NEW x,
           caller' = [caller EXCEPT ![c] = x]
    PROVE  /\ caller[c] = "idle" /\ x # "idle" => Cardinality(Busy') = Cardinality(Busy) + 1
           /\ caller[c] # "idle" /\ x = "idle" => Cardinality(Busy') = Cardinality(Busy) - 1
           /\ (caller[c] = "idle" <=> x = "idle") => Busy' = Busy
<1>1. \A d \in Callers : caller'[d] = IF d = c THEN x ELSE caller[d]
    BY DEF ThreadTypes
<1>2. IsFiniteSet(Busy)
    BY BusyFinite
<1>3. caller[c] = "idle" /\ x # "idle" => Busy' = Busy \cup {c} /\ c \notin Busy
    BY <1>1 DEF Busy
<1>4. caller[c] # "idle" /\ x = "idle" => Busy' = Busy \ {c} /\ c \in Busy
    BY <1>1 DEF Busy
<1>5. (caller[c] = "idle" <=> x = "idle") => Busy' = Busy
    BY <1>1 DEF Busy
<1>6. c \notin Busy => Cardinality(Busy \cup {c}) = Cardinality(Busy) + 1
    BY <1>2, FS_AddElement
<1>7. c \in Busy => Cardinality(Busy \ {c}) = Cardinality(Busy) - 1
    BY <1>2, FS_RemoveElement
<1> QED
    BY <1>3, <1>4, <1>5, <1>6, <1>7

LEMMA NextId ==
    ASSUME IdsSuffice, BufferTypes, buffer_id < 2 * MaxLearned + MaxChanges
    PROVE  (buffer_id + 1) % IdMod = buffer_id + 1
<1>1. IdMod \in Nat \ {0} /\ buffer_id + 1 \in 0 .. IdMod - 1
    BY LearnAssumption DEF IdsSuffice, BufferTypes, Ids
<1> QED
    BY <1>1, WrapInRange

LEMMA PrevIs ==
    ASSUME BufferTypes, buffer_id > 0
    PROVE  Prev(buffer_id) = buffer_id - 1
<1>1. IdMod \in Nat \ {0} /\ buffer_id \in 0 .. IdMod - 1 /\ buffer_id - 1 \in Ids
      /\ (buffer_id - 1) + 1 = buffer_id
    BY LearnAssumption DEF BufferTypes, Ids
<1>2. Prev(((buffer_id - 1) + 1) % IdMod) = buffer_id - 1
    BY <1>1, PrevFacts
<1>3. buffer_id % IdMod = buffer_id
    BY <1>1, WrapInRange
<1> QED
    BY <1>1, <1>2, <1>3

Swapped(b) == SwapsOut(b) /\ buffer_id' = buffer_id + 1

LEMMA AddSampleBounded ==
    ASSUME IsFiniteSet(Callers), IdsSuffice, TypeInv, SwapsBounded,
           NEW c \in Callers, NEW s \in Samples, add_sample(c, s)
    PROVE  SwapsBounded' /\ (Keeps(Append(buffer, s)) \/ Swapped(Append(buffer, s)))
<1>1. PICK b : b = Append(buffer, s)
    OBVIOUS
<1>2. /\ caller[c] = "idle" /\ learned < MaxLearned /\ learned' = learned + 1 /\ changes' = changes
      /\ Len(b) = Len(buffer) + 1
      /\ \/ Keeps(b) /\ UNCHANGED caller
         \/ Keeps(b) /\ caller' = [caller EXCEPT ![c] = "b_can_swap"]
         \/ SwapsOut(b) /\ caller' = [caller EXCEPT ![c] = "idle"]
    BY <1>1, AddSampleMoves
<1>3. /\ BufferTypes /\ ThreadTypes /\ Len(buffer) \in Nat /\ buffer_id \in Nat
      /\ Cardinality(Busy) \in Nat /\ MaxLearned \in Nat /\ MaxChanges \in Nat
      /\ learned \in Nat /\ learned <= MaxLearned /\ changes \in Nat /\ changes <= MaxChanges
      /\ buffer_id + Cardinality(Busy) + Len(buffer) <= 2 * learned + changes
    BY LearnAssumption, BusyFinite DEF TypeInv, BufferTypes, Ids, SwapsBounded
<1>4. learned' \in 0 .. MaxLearned /\ changes' \in 0 .. MaxChanges
    BY <1>2, <1>3
<1>5. CASE Keeps(b) /\ UNCHANGED caller
    <2>1. Busy' = Busy /\ buffer_id' = buffer_id /\ Len(buffer') = Len(buffer) + 1
        BY <1>2, <1>5 DEF Busy, Keeps
    <2> QED
        BY <1>1, <1>2, <1>3, <1>4, <1>5, <2>1 DEF SwapsBounded
<1>6. CASE Keeps(b) /\ caller' = [caller EXCEPT ![c] = "b_can_swap"]
    <2>1. Cardinality(Busy') = Cardinality(Busy) + 1
        BY <1>2, <1>3, <1>6, BusyChanges
    <2>2. buffer_id' = buffer_id /\ Len(buffer') = Len(buffer) + 1
        BY <1>2, <1>6 DEF Keeps
    <2> QED
        BY <1>1, <1>2, <1>3, <1>4, <1>6, <2>1, <2>2 DEF SwapsBounded
<1>7. CASE SwapsOut(b) /\ caller' = [caller EXCEPT ![c] = "idle"]
    <2>1. Busy' = Busy
        BY <1>2, <1>3, <1>7, BusyChanges
    <2>2. buffer_id' = buffer_id + 1 /\ Len(buffer') = 0
        BY <1>2, <1>3, <1>7, NextId, EmptySeq DEF SwapsOut
    <2> QED
        BY <1>1, <1>2, <1>3, <1>4, <1>7, <2>1, <2>2 DEF SwapsBounded, Swapped
<1> QED
    BY <1>2, <1>5, <1>6, <1>7

LEMMA CallsBounded ==
    ASSUME IsFiniteSet(Callers), IdsSuffice, TypeInv, SwapsBounded, NEW c \in Callers,
           (\E n \in SampleLimits : set_max_samples(c, n)) \/ ResumeSwap(c)
    PROVE  SwapsBounded' /\ (Keeps(buffer) \/ Swapped(buffer))
<1>1. /\ learned' = learned
      /\ \/ caller[c] = "idle" /\ changes < MaxChanges /\ changes' = changes + 1
         \/ caller[c] = "ready" /\ changes' = changes
      /\ \/ Keeps(buffer) /\ UNCHANGED caller
         \/ Keeps(buffer) /\ caller' = [caller EXCEPT ![c] = "b_can_swap"]
         \/ SwapsOut(buffer) /\ caller' = [caller EXCEPT ![c] = "idle"]
    <2>1. CASE \E n \in SampleLimits : set_max_samples(c, n)
        BY <2>1, SetMaxMoves
    <2>2. CASE ResumeSwap(c)
        BY <2>2, ResumeMoves DEF bounds
    <2> QED
        BY <2>1, <2>2
<1>2. /\ BufferTypes /\ ThreadTypes /\ Len(buffer) \in Nat /\ buffer_id \in Nat
      /\ Cardinality(Busy) \in Nat /\ MaxLearned \in Nat /\ MaxChanges \in Nat
      /\ learned \in Nat /\ learned <= MaxLearned /\ changes \in Nat /\ changes <= MaxChanges
      /\ buffer_id + Cardinality(Busy) + Len(buffer) <= 2 * learned + changes
    BY LearnAssumption, BusyFinite DEF TypeInv, BufferTypes, Ids, SwapsBounded
<1>3. learned' \in 0 .. MaxLearned /\ changes' \in 0 .. MaxChanges
    BY <1>1, <1>2
<1>4. CASE Keeps(buffer) /\ UNCHANGED caller
    <2>1. Busy' = Busy /\ buffer_id' = buffer_id /\ Len(buffer') = Len(buffer)
        BY <1>4 DEF Busy, Keeps
    <2> QED
        BY <1>1, <1>2, <1>3, <1>4, <2>1 DEF SwapsBounded
<1>5. CASE Keeps(buffer) /\ caller' = [caller EXCEPT ![c] = "b_can_swap"]
    <2>1. /\ caller[c] = "idle" => Cardinality(Busy') = Cardinality(Busy) + 1
          /\ caller[c] # "idle" => Cardinality(Busy') = Cardinality(Busy)
        <3>1. PICK x : x = "b_can_swap"
            OBVIOUS
        <3>2. x # "idle" /\ caller' = [caller EXCEPT ![c] = x]
            BY <1>5, <3>1
        <3>3. /\ caller[c] = "idle" /\ x # "idle" => Cardinality(Busy') = Cardinality(Busy) + 1
              /\ (caller[c] = "idle" <=> x = "idle") => Busy' = Busy
            BY <1>2, <3>2, BusyChanges
        <3> QED
            BY <3>2, <3>3
    <2>2. buffer_id' = buffer_id /\ Len(buffer') = Len(buffer)
        BY <1>5 DEF Keeps
    <2> QED
        BY <1>1, <1>2, <1>3, <1>5, <2>1, <2>2 DEF SwapsBounded
<1>6. CASE SwapsOut(buffer) /\ caller' = [caller EXCEPT ![c] = "idle"]
    <2>1. /\ caller[c] = "idle" => Cardinality(Busy') = Cardinality(Busy)
          /\ caller[c] # "idle" => Cardinality(Busy') = Cardinality(Busy) - 1
        BY <1>2, <1>6, BusyChanges
    <2>2. Cardinality(Busy') \in Nat
        <3>1. Busy' \subseteq Callers
            BY DEF Busy
        <3> QED
            BY <3>1, FS_Subset, FS_CardinalityType
    <2>3. buffer_id < 2 * MaxLearned + MaxChanges
        BY <1>1, <1>2, <2>1, <2>2
    <2>4. buffer_id' = buffer_id + 1 /\ Len(buffer') = 0
        BY <1>2, <1>6, <2>3, NextId, EmptySeq DEF SwapsOut
    <2> QED
        BY <1>1, <1>2, <1>3, <1>6, <2>1, <2>4 DEF SwapsBounded, Swapped
<1> QED
    BY <1>1, <1>4, <1>5, <1>6

LEMMA TransmitBounded ==
    ASSUME IsFiniteSet(Callers), IdsSuffice, TypeInv, SwapsBounded, buffer_transmit
    PROVE  SwapsBounded' /\ (Keeps(buffer) \/ Swapped(buffer))
<1>1. /\ UNCHANGED <<caller, bounds>>
      /\ UNCHANGED <<filling, sending>> \/ (SwapsOut(buffer) /\ Len(buffer) > 0)
    BY TransmitMoves
<1>2. /\ BufferTypes /\ Len(buffer) \in Nat /\ buffer_id \in Nat
      /\ Cardinality(Busy) \in Nat /\ MaxLearned \in Nat /\ MaxChanges \in Nat
      /\ learned \in Nat /\ learned <= MaxLearned /\ changes \in Nat /\ changes <= MaxChanges
      /\ buffer_id + Cardinality(Busy) + Len(buffer) <= 2 * learned + changes
    BY LearnAssumption, BusyFinite DEF TypeInv, BufferTypes, Ids, SwapsBounded
<1>3. Busy' = Busy /\ learned' = learned /\ changes' = changes
    BY <1>1 DEF Busy, bounds
<1>4. CASE UNCHANGED <<filling, sending>>
    BY <1>2, <1>3, <1>4 DEF SwapsBounded, Keeps, filling, sending, BufferTypes
<1>5. CASE SwapsOut(buffer) /\ Len(buffer) > 0
    <2>1. buffer_id < 2 * MaxLearned + MaxChanges
        BY <1>2, <1>5
    <2>2. buffer_id' = buffer_id + 1 /\ Len(buffer') = 0
        BY <1>2, <1>5, <2>1, NextId, EmptySeq DEF SwapsOut
    <2> QED
        BY <1>2, <1>3, <1>5, <2>2 DEF SwapsBounded, Swapped
<1> QED
    BY <1>1, <1>4, <1>5
-----------------------------------------------------------------------------
\* Acknowledgements.

\* The buffers move: what the record of the filled buffer gains is what it gains.
LEMMA AckMoves ==
    ASSUME TypeInv, BuffersFiltered, MessagesOK, NEW b, b \in Seq(Samples),
           Keeps(b) \/ Swapped(b), inbox' = inbox,
           transmitter' = "sent" <=> transmitter = "sent",
           filter \subseteq filter',
           \A i : i # buffer_id =>
              /\ i \in DOMAIN old_buffers' <=> i \in DOMAIN old_buffers
              /\ i \in DOMAIN old_buffers => old_buffers'[i] = old_buffers[i],
           \A p \in DOMAIN b : [id |-> buffer_id, pos |-> p, sample |-> b[p]] \in filter',
           IF buffer_id \in DOMAIN old_buffers'
           THEN Len(old_buffers'[buffer_id].buffer) = Len(b) ELSE Len(b) = 0
    PROVE  BuffersFiltered' /\ MessagesOK'
<1>1. /\ buffer_id \in Nat /\ \A i \in DOMAIN old_buffers : i \in Nat /\ i <= buffer_id
      /\ Recorded(buffer_id, Len(buffer))
    BY LearnAssumption DEF TypeInv, BufferTypes, FilterTypes, Ids, BuffersFiltered
<1>2. \A i \in DOMAIN old_buffers' : i \in Nat /\ i <= buffer_id
    BY <1>1
<1>3. \A m \in inbox : m \in Message /\ m.id \in Nat /\ m.id < buffer_id
    BY LearnAssumption DEF TypeInv, MessagesOK, Message, Ids
<1>4. \A m \in inbox' :
         /\ m.count = Len(m.payload) /\ m.count > 0 /\ m.todo \subseteq 1 .. m.count
         /\ m.id \in DOMAIN old_buffers' => Len(old_buffers'[m.id].buffer) = m.count
         /\ \A p \in m.todo : [id |-> m.id, pos |-> p, sample |-> m.payload[p]] \in filter'
    <2>1. \A m \in inbox : m.id # buffer_id
        BY <1>1, <1>3
    <2> QED
        BY <2>1 DEF MessagesOK
<1>5. \A m, n \in inbox' : m.id = n.id => m = n
    BY DEF MessagesOK
<1>6. CASE Keeps(b)
    <2>0. buffer_id' = buffer_id /\ buffer_tmp' = buffer_tmp /\ buffer' = b
        BY <1>6 DEF Keeps
    <2>1. Filtered(buffer_id, buffer)' /\ Recorded(buffer_id, Len(buffer))'
        BY <2>0 DEF Filtered, Recorded
    <2>2. ASSUME buffer_tmp' # << >>, transmitter' # "sent"
          PROVE  /\ buffer_id' > 0
                 /\ Filtered(buffer_id - 1, buffer_tmp)'
                 /\ Recorded(buffer_id - 1, Len(buffer_tmp))'
        <3>1. /\ buffer_id > 0 /\ Filtered(buffer_id - 1, buffer_tmp)
              /\ Recorded(buffer_id - 1, Len(buffer_tmp))
            BY <2>0, <2>2 DEF BuffersFiltered
        <3>2. buffer_id - 1 # buffer_id
            BY <1>1
        <3> QED
            BY <2>0, <3>1, <3>2 DEF Filtered, Recorded
    <2>3. BuffersFiltered'
        BY <1>2, <2>0, <2>1, <2>2 DEF BuffersFiltered
    <2>4. \A m \in inbox' : /\ m.id < buffer_id'
                            /\ m.id = buffer_id' - 1 /\ buffer_tmp' # << >> => transmitter' = "sent"
        BY <2>0 DEF MessagesOK
    <2> QED
        BY <1>4, <1>5, <2>3, <2>4 DEF MessagesOK
<1>7. CASE Swapped(b)
    <2>0. buffer_id' = buffer_id + 1 /\ buffer_tmp' = b /\ buffer' = << >>
        BY <1>7 DEF Swapped, SwapsOut
    <2>1. Filtered(buffer_id, buffer)' /\ Recorded(buffer_id, Len(buffer))'
        <3>1. buffer_id' \notin DOMAIN old_buffers'
            BY <1>1, <1>2, <2>0
        <3>2. Len(buffer') = 0
            BY <2>0, EmptySeq
        <3> QED
            BY <2>0, <3>1, <3>2 DEF Filtered, Recorded
    <2>2. buffer_id' - 1 = buffer_id /\ buffer_id' > 0
        BY <1>1, <2>0
    <2>3. Filtered(buffer_id - 1, buffer_tmp)' /\ Recorded(buffer_id - 1, Len(buffer_tmp))'
        BY <2>0, <2>2 DEF Filtered, Recorded
    <2>4. \A i \in DOMAIN old_buffers' : i <= buffer_id'
        BY <1>1, <1>2, <2>0
    <2>5. BuffersFiltered'
        BY <2>1, <2>2, <2>3, <2>4 DEF BuffersFiltered
    <2>6. \A m \in inbox' : m.id < buffer_id' /\ m.id # buffer_id' - 1
        BY <1>1, <1>3, <2>0, <2>2
    <2> QED
        BY <1>4, <1>5, <2>5, <2>6 DEF MessagesOK
<1> QED
    BY <1>6, <1>7

\* Steps that leave the filter alone.
LEMMA AckStays ==
    ASSUME TypeInv, AckInv, Keeps(buffer) \/ Swapped(buffer), UNCHANGED <<filtering, inbox, raced, fault>>,
           transmitter' = "sent" <=> transmitter = "sent"
    PROVE  AckInv'
<1> SUFFICES ASSUME Careful, ~raced' PROVE (fault = "none" /\ BuffersFiltered /\ MessagesOK)'
    BY DEF AckInv
<1>1. fault = "none" /\ BuffersFiltered /\ MessagesOK
    BY DEF AckInv
<1>2. buffer \in Seq(Samples) /\ filter' = filter /\ old_buffers' = old_buffers
    BY DEF TypeInv, BufferTypes, filtering
<1>3. /\ \A p \in DOMAIN buffer : [id |-> buffer_id, pos |-> p, sample |-> buffer[p]] \in filter'
      /\ IF buffer_id \in DOMAIN old_buffers'
         THEN Len(old_buffers'[buffer_id].buffer) = Len(buffer) ELSE Len(buffer) = 0
    BY <1>1, <1>2 DEF BuffersFiltered, Filtered, Recorded
<1>4. BuffersFiltered' /\ MessagesOK'
    BY <1>1, <1>2, <1>3, AckMoves
<1> QED
    BY <1>1, <1>4

LEMMA AddSampleAckInv ==
    ASSUME LearnInv, AckInv, NEW c \in Callers, NEW s \in Samples, add_sample(c, s),
           Keeps(Append(buffer, s)) \/ Swapped(Append(buffer, s))
    PROVE  AckInv'
<1> SUFFICES ASSUME Careful, ~raced' PROVE (fault = "none" /\ BuffersFiltered /\ MessagesOK)'
    BY DEF AckInv
<1>0. TypeInv /\ buffer \in Seq(Samples) /\ ThreadTypes
    BY DEF LearnInv, TypeInv, BufferTypes
<1>1. PICK b : b = Append(buffer, s)
    OBVIOUS
<1> DEFINE ptrs == FilterPtrs(buffer_id)
           node == [id |-> buffer_id, pos |-> Len(ptrs.buffer) + 1, sample |-> s]
<1>2. ptrs = FilterPtrs(buffer_id)
    OBVIOUS
<1>3. node = [id |-> buffer_id, pos |-> Len(ptrs.buffer) + 1, sample |-> s]
    OBVIOUS
<1>4. /\ UNCHANGED <<inbox, raced, fault>> /\ Woken
      /\ filter' = filter \cup {node}
      /\ old_buffers' =
            [i \in DOMAIN old_buffers \cup {buffer_id} |->
               IF i # buffer_id THEN old_buffers[i]
               ELSE [unacked_count |-> ptrs.unacked_count + 1, buffer |-> Append(ptrs.buffer, node)]]
    <2>1. UNCHANGED observed /\ Woken
        BY <1>0, AddSampleMoves
    <2>2. filter' = filter \cup {node}
        BY <1>0, AddSampleMoves
    <2>3. old_buffers' =
            [i \in DOMAIN old_buffers \cup {buffer_id} |->
               IF i # buffer_id THEN old_buffers[i]
               ELSE [unacked_count |-> ptrs.unacked_count + 1, buffer |-> Append(ptrs.buffer, node)]]
        BY <1>0, AddSampleMoves
    <2> HIDE DEF ptrs, node
    <2> QED
        BY <2>1, <2>2, <2>3 DEF observed
<1> HIDE DEF ptrs, node
<1>5. fault = "none" /\ BuffersFiltered /\ MessagesOK
    BY <1>4 DEF AckInv
<1>6. transmitter' = "sent" <=> transmitter = "sent"
    BY <1>0, <1>4, WokenFacts
<1>7. ptrs.buffer \in Seq(Node) /\ Len(ptrs.buffer) = Len(buffer)
    <2>1. ptrs.buffer \in Seq(Node)
        BY <1>2, PtrsFacts DEF Record
    <2>2. Recorded(buffer_id, Len(buffer))
        BY <1>5 DEF BuffersFiltered
    <2>3. CASE buffer_id \in DOMAIN old_buffers
        BY <1>2, <2>1, <2>2, <2>3 DEF Recorded, FilterPtrs
    <2>4. CASE buffer_id \notin DOMAIN old_buffers
        <3>1. ptrs.buffer = << >>
            BY <1>2, <2>4 DEF FilterPtrs
        <3> QED
            BY <2>1, <2>2, <2>4, <3>1, EmptySeq DEF Recorded
    <2> QED
        BY <2>3, <2>4
<1>8. /\ b \in Seq(Samples) /\ Len(b) = Len(buffer) + 1 /\ Len(buffer) \in Nat
      /\ DOMAIN b = 1 .. Len(buffer) + 1 /\ DOMAIN buffer = 1 .. Len(buffer)
      /\ b[Len(buffer) + 1] = s /\ \A p \in 1 .. Len(buffer) : b[p] = buffer[p]
    BY <1>0, <1>1
<1>9. \A p \in DOMAIN b : [id |-> buffer_id, pos |-> p, sample |-> b[p]] \in filter'
    <2> SUFFICES ASSUME NEW p \in DOMAIN b
                 PROVE  [id |-> buffer_id, pos |-> p, sample |-> b[p]] \in filter'
        OBVIOUS
    <2>1. CASE p = Len(buffer) + 1
        BY <1>3, <1>4, <1>7, <1>8, <2>1
    <2>2. CASE p \in 1 .. Len(buffer)
        BY <1>4, <1>5, <1>8, <2>2 DEF BuffersFiltered, Filtered
    <2> QED
        BY <1>8, <2>1, <2>2
<1>10. /\ DOMAIN old_buffers' = DOMAIN old_buffers \cup {buffer_id}
       /\ \A i \in DOMAIN old_buffers : i # buffer_id => old_buffers'[i] = old_buffers[i]
       /\ old_buffers'[buffer_id] =
             [unacked_count |-> ptrs.unacked_count + 1, buffer |-> Append(ptrs.buffer, node)]
    BY <1>4
<1>11. Len(old_buffers'[buffer_id].buffer) = Len(b)
    <2>1. PICK r : r = Append(ptrs.buffer, node)
        OBVIOUS
    <2>2. Len(r) = Len(ptrs.buffer) + 1
        BY <1>7, <2>1
    <2>3. old_buffers'[buffer_id].buffer = r
        BY <1>10, <2>1
    <2> QED
        BY <1>7, <1>8, <2>2, <2>3
<1>12. /\ \A i : i # buffer_id =>
              /\ i \in DOMAIN old_buffers' <=> i \in DOMAIN old_buffers
              /\ i \in DOMAIN old_buffers => old_buffers'[i] = old_buffers[i]
       /\ IF buffer_id \in DOMAIN old_buffers'
          THEN Len(old_buffers'[buffer_id].buffer) = Len(b) ELSE Len(b) = 0
    BY <1>10, <1>11
<1>13. Keeps(b) \/ Swapped(b)
    BY <1>1
<1>14. filter \subseteq filter' /\ inbox' = inbox
    BY <1>4
<1>15. BuffersFiltered' /\ MessagesOK'
    BY <1>0, <1>5, <1>6, <1>8, <1>9, <1>12, <1>13, <1>14, AckMoves
<1> QED
    BY <1>4, <1>5, <1>15
\* The samples that a notification says are not acknowledged yet are where it says.
LEMMA TodoInPlace ==
    ASSUME LearnInv, MessagesOK, NEW m \in inbox, NEW p \in m.todo
    PROVE  /\ m.id \in DOMAIN old_buffers
           /\ p \in DOMAIN old_buffers[m.id].buffer
           /\ old_buffers[m.id].buffer[p] = [id |-> m.id, pos |-> p, sample |-> m.payload[p]]
           /\ old_buffers[m.id].buffer[p] \in filter
<1>1. PICK node : node = [id |-> m.id, pos |-> p, sample |-> m.payload[p]]
    OBVIOUS
<1>2. node \in filter /\ node.id = m.id /\ node.pos = p
    BY <1>1 DEF MessagesOK
<1>3. m.id \in DOMAIN old_buffers /\ node \in Range(old_buffers[m.id].buffer)
    BY <1>2 DEF LearnInv, FilterAccounted
<1>4. PICK q \in DOMAIN old_buffers[m.id].buffer : node = old_buffers[m.id].buffer[q]
    BY <1>3 DEF Range
<1>5. q = p
    BY <1>2, <1>3, <1>4 DEF LearnInv, RecordsInPlace
<1> QED
    BY <1>1, <1>2, <1>3, <1>4, <1>5

\* Samples of one notification go, at the positions that are acknowledged.
LEMMA AckedOK ==
    ASSUME TypeInv, BuffersFiltered, MessagesOK, NEW m \in inbox, NEW ps, Acknowledge(m, ps),
           filter' \subseteq filter, \A x \in filter : x \notin filter' => x.id = m.id /\ x.pos \in ps,
           DOMAIN old_buffers' \subseteq DOMAIN old_buffers,
           \A i \in DOMAIN old_buffers : i # m.id => i \in DOMAIN old_buffers',
           \A i \in DOMAIN old_buffers' : old_buffers'[i].buffer = old_buffers[i].buffer,
           UNCHANGED <<filling, sending, transmit>>
    PROVE  BuffersFiltered' /\ MessagesOK'
<1>0. /\ buffer_id \in Nat /\ m \in Message /\ m.id \in Nat
      /\ UNCHANGED <<buffer, buffer_id, buffer_tmp, transmitter>>
    BY LearnAssumption DEF TypeInv, BufferTypes, Ids, Message, filling, sending, transmit
<1>1. /\ m.id < buffer_id
      /\ m.id = buffer_id - 1 /\ buffer_tmp # << >> => transmitter = "sent"
    BY DEF MessagesOK
<1>2. ASSUME NEW i, NEW b, i # m.id, Filtered(i, b)
      PROVE  \A p \in DOMAIN b : [id |-> i, pos |-> p, sample |-> b[p]] \in filter'
    BY <1>2 DEF Filtered
<1>3. ASSUME NEW i, NEW n, i # m.id, Recorded(i, n)
      PROVE  IF i \in DOMAIN old_buffers' THEN Len(old_buffers'[i].buffer) = n ELSE n = 0
    BY <1>3 DEF Recorded
<1>4. Filtered(buffer_id, buffer)' /\ Recorded(buffer_id, Len(buffer))'
    <2>1. buffer_id # m.id /\ Filtered(buffer_id, buffer) /\ Recorded(buffer_id, Len(buffer))
        BY <1>0, <1>1 DEF BuffersFiltered
    <2>2. \A p \in DOMAIN buffer : [id |-> buffer_id, pos |-> p, sample |-> buffer[p]] \in filter'
        BY <1>2, <2>1
    <2>3. IF buffer_id \in DOMAIN old_buffers' THEN Len(old_buffers'[buffer_id].buffer) = Len(buffer)
          ELSE Len(buffer) = 0
        BY <1>3, <2>1
    <2> QED
        BY <1>0, <2>2, <2>3 DEF Filtered, Recorded
<1>5. ASSUME buffer_tmp' # << >>, transmitter' # "sent"
      PROVE  /\ buffer_id' > 0
             /\ Filtered(buffer_id - 1, buffer_tmp)' /\ Recorded(buffer_id - 1, Len(buffer_tmp))'
    <2>1. /\ buffer_id > 0 /\ buffer_id - 1 # m.id
          /\ Filtered(buffer_id - 1, buffer_tmp) /\ Recorded(buffer_id - 1, Len(buffer_tmp))
        BY <1>0, <1>1, <1>5 DEF BuffersFiltered
    <2>2. \A p \in DOMAIN buffer_tmp :
             [id |-> buffer_id - 1, pos |-> p, sample |-> buffer_tmp[p]] \in filter'
        BY <1>2, <2>1
    <2>3. IF buffer_id - 1 \in DOMAIN old_buffers'
          THEN Len(old_buffers'[buffer_id - 1].buffer) = Len(buffer_tmp) ELSE Len(buffer_tmp) = 0
        BY <1>3, <2>1
    <2> QED
        BY <1>0, <2>1, <2>2, <2>3 DEF Filtered, Recorded
<1>6. BuffersFiltered'
    <2>1. \A i \in DOMAIN old_buffers' : i <= buffer_id'
        BY <1>0 DEF BuffersFiltered
    <2> QED
        BY <1>4, <1>5, <2>1 DEF BuffersFiltered
<1>7. PICK r : r = [m EXCEPT !.todo = @ \ ps]
    OBVIOUS
<1>8. /\ r.id = m.id /\ r.count = m.count /\ r.payload = m.payload /\ r.todo = m.todo \ ps
      /\ inbox' = (inbox \ {m}) \cup {r}
    BY <1>0, <1>7 DEF Message, Acknowledge
<1>9. ASSUME NEW n \in inbox'
      PROVE  /\ n.id < buffer_id'
             /\ n.id = buffer_id' - 1 /\ buffer_tmp' # << >> => transmitter' = "sent"
             /\ n.count = Len(n.payload) /\ n.count > 0
             /\ n.todo \subseteq 1 .. n.count
             /\ n.id \in DOMAIN old_buffers' => Len(old_buffers'[n.id].buffer) = n.count
             /\ \A p \in n.todo : [id |-> n.id, pos |-> p, sample |-> n.payload[p]] \in filter'
    <2>1. CASE n = r
        <3>1. /\ m.count = Len(m.payload) /\ m.count > 0 /\ m.todo \subseteq 1 .. m.count
              /\ m.id \in DOMAIN old_buffers => Len(old_buffers[m.id].buffer) = m.count
            BY DEF MessagesOK
        <3>2. ASSUME NEW p \in m.todo \ ps
              PROVE  [id |-> m.id, pos |-> p, sample |-> m.payload[p]] \in filter'
            <4>1. PICK node : node = [id |-> m.id, pos |-> p, sample |-> m.payload[p]]
                OBVIOUS
            <4>2. node \in filter /\ node.pos = p
                BY <4>1 DEF MessagesOK
            <4> QED
                BY <4>1, <4>2
        <3>3. m.id \in DOMAIN old_buffers' => Len(old_buffers'[m.id].buffer) = m.count
            BY <3>1
        <3> QED
            BY <1>0, <1>1, <1>8, <2>1, <3>1, <3>2, <3>3
    <2>2. CASE n \in inbox /\ n # m
        <3>1. n.id # m.id
            BY <2>2 DEF MessagesOK
        <3>2. /\ n.id < buffer_id
              /\ n.id = buffer_id - 1 /\ buffer_tmp # << >> => transmitter = "sent"
              /\ n.count = Len(n.payload) /\ n.count > 0
              /\ n.todo \subseteq 1 .. n.count
              /\ n.id \in DOMAIN old_buffers => Len(old_buffers[n.id].buffer) = n.count
            BY <2>2 DEF MessagesOK
        <3>3. ASSUME NEW p \in n.todo
              PROVE  [id |-> n.id, pos |-> p, sample |-> n.payload[p]] \in filter'
            <4>1. PICK node : node = [id |-> n.id, pos |-> p, sample |-> n.payload[p]]
                OBVIOUS
            <4>2. node \in filter /\ node.id = n.id
                BY <2>2, <4>1 DEF MessagesOK
            <4> QED
                BY <3>1, <4>1, <4>2
        <3> QED
            BY <1>0, <3>2, <3>3
    <2> QED
        BY <1>8, <2>1, <2>2
<1>10. \A x, y \in inbox' : x.id = y.id => x = y
    BY <1>8 DEF MessagesOK
<1> QED
    BY <1>6, <1>9, <1>10 DEF MessagesOK

LEMMA AckAckInv ==
    ASSUME LearnInv, AckInv, NEW m \in inbox, NEW ps \in SUBSET (1 .. m.count), ack(m, ps)
    PROVE  AckInv'
<1> SUFFICES ASSUME Careful, ~raced' PROVE (fault = "none" /\ BuffersFiltered /\ MessagesOK)'
    BY DEF AckInv
<1>1. /\ ps # {} /\ ps \subseteq m.todo /\ Acknowledge(m, ps) /\ raced' = raced
      /\ UNCHANGED <<filling, sending, transmit>>
    BY DEF ack
<1>2. TypeInv /\ fault = "none" /\ BuffersFiltered /\ MessagesOK
    BY <1>1 DEF AckInv, LearnInv
<1>3. /\ m.id \in DOMAIN old_buffers
      /\ \A p \in ps : /\ p \in DOMAIN old_buffers[m.id].buffer
                       /\ old_buffers[m.id].buffer[p] \in filter
                       /\ old_buffers[m.id].buffer[p].id = m.id
                       /\ old_buffers[m.id].buffer[p].pos = p
    <2>1. PICK p : p \in ps
        BY <1>1
    <2>2. m.id \in DOMAIN old_buffers
        BY <1>1, <1>2, <2>1, TodoInPlace
    <2>3. ASSUME NEW q \in ps
          PROVE  /\ q \in DOMAIN old_buffers[m.id].buffer
                 /\ old_buffers[m.id].buffer[q] \in filter
                 /\ old_buffers[m.id].buffer[q].id = m.id
                 /\ old_buffers[m.id].buffer[q].pos = q
        <3>1. /\ q \in DOMAIN old_buffers[m.id].buffer
              /\ old_buffers[m.id].buffer[q] \in filter
              /\ old_buffers[m.id].buffer[q] = [id |-> m.id, pos |-> q, sample |-> m.payload[q]]
            BY <1>1, <1>2, TodoInPlace
        <3> QED
            BY <3>1
    <2> QED
        BY <2>2, <2>3
<1>4. PICK left : left = old_buffers[m.id].unacked_count - Cardinality(ps)
    OBVIOUS
<1>5. /\ fault' = fault
      /\ filter' = filter \ {old_buffers[m.id].buffer[p] : p \in ps}
      /\ old_buffers' = IF left = 0 THEN Forget(m.id)
                        ELSE [old_buffers EXCEPT ![m.id].unacked_count = left]
    BY <1>3, <1>4 DEF ack
<1>6. /\ filter' \subseteq filter
      /\ \A x \in filter : x \notin filter' => x.id = m.id /\ x.pos \in ps
    BY <1>3, <1>5
<1>7. /\ DOMAIN old_buffers' \subseteq DOMAIN old_buffers
      /\ \A i \in DOMAIN old_buffers : i # m.id => i \in DOMAIN old_buffers'
      /\ \A i \in DOMAIN old_buffers' : old_buffers'[i].buffer = old_buffers[i].buffer
    <2>1. old_buffers[m.id] \in Record
        BY <1>2, <1>3 DEF TypeInv, FilterTypes
    <2>2. CASE left = 0
        BY <1>5, <2>2 DEF Forget
    <2>3. CASE left # 0
        <3>1. old_buffers' = [old_buffers EXCEPT ![m.id].unacked_count = left]
            BY <1>5, <2>3
        <3> QED
            BY <1>3, <2>1, <3>1 DEF Record
    <2> QED
        BY <2>2, <2>3
<1>8. BuffersFiltered' /\ MessagesOK'
    BY <1>1, <1>2, <1>6, <1>7, AckedOK
<1> QED
    BY <1>2, <1>5, <1>8

LEMMA AckBufferAckInv ==
    ASSUME LearnInv, AckInv, NEW m \in inbox, ack_buffer(m)
    PROVE  AckInv'
<1> SUFFICES ASSUME Careful, ~raced' PROVE (fault = "none" /\ BuffersFiltered /\ MessagesOK)'
    BY DEF AckInv
<1>1. /\ m.todo = 1 .. m.count /\ Acknowledge(m, m.todo) /\ raced' = raced
      /\ UNCHANGED <<filling, sending, transmit>>
    BY DEF ack_buffer
<1>2. TypeInv /\ fault = "none" /\ BuffersFiltered /\ MessagesOK /\ m.count \in Nat
    BY <1>1 DEF AckInv, LearnInv, TypeInv, Message
<1>3. 1 \in m.todo
    BY <1>1, <1>2 DEF MessagesOK
<1>4. m.id \in DOMAIN old_buffers
    BY <1>2, <1>3, TodoInPlace
<1>5. /\ old_buffers[m.id].buffer \in Seq(Node)
      /\ DOMAIN old_buffers[m.id].buffer = 1 .. m.count
    <2>1. old_buffers[m.id].buffer \in Seq(Node)
        BY <1>2, <1>4 DEF TypeInv, FilterTypes, Record
    <2>2. Len(old_buffers[m.id].buffer) = m.count
        BY <1>2, <1>4 DEF MessagesOK
    <2> QED
        BY <2>1, <2>2
<1>6. PICK gone : gone = Erased(old_buffers[m.id])
    OBVIOUS
<1>7. gone \subseteq filter
    <2>1. CASE gone = filter
        BY <2>1
    <2>2. CASE gone = Range(old_buffers[m.id].buffer)
        <3>1. \A p \in 1 .. m.count : old_buffers[m.id].buffer[p] \in filter
            BY <1>1, <1>2, TodoInPlace
        <3> QED
            BY <1>5, <2>2, <3>1 DEF Range
    <2> QED
        BY <1>6, <2>1, <2>2 DEF Erased
<1>8. fault' = fault /\ filter' = filter \ gone /\ old_buffers' = Forget(m.id)
    BY <1>4, <1>6, <1>7 DEF ack_buffer
<1>9. ASSUME NEW x \in filter, x \notin filter'
      PROVE  x.id = m.id /\ x.pos \in m.todo
    <2>1. x.id = m.id
        BY <1>4, <1>6, <1>8, <1>9, ErasedFacts
    <2>2. PICK p \in DOMAIN old_buffers[m.id].buffer : x = old_buffers[m.id].buffer[p]
        BY <2>1 DEF LearnInv, FilterAccounted, Range
    <2>3. x.pos = p
        BY <1>4, <2>2 DEF LearnInv, RecordsInPlace
    <2> QED
        BY <1>1, <1>5, <2>1, <2>2, <2>3
<1>10. /\ DOMAIN old_buffers' \subseteq DOMAIN old_buffers
       /\ \A i \in DOMAIN old_buffers : i # m.id => i \in DOMAIN old_buffers'
       /\ \A i \in DOMAIN old_buffers' : old_buffers'[i].buffer = old_buffers[i].buffer
    BY <1>8 DEF Forget
<1>11. filter' \subseteq filter
    BY <1>8
<1>12. BuffersFiltered' /\ MessagesOK'
    BY <1>1, <1>2, <1>9, <1>10, <1>11, AckedOK
<1> QED
    BY <1>2, <1>8, <1>12
LEMMA SendAckInv ==
    ASSUME LearnInv, NotifyInv, AckInv, send_msgs
    PROVE  AckInv'
<1> SUFFICES ASSUME Careful, ~raced' PROVE (fault = "none" /\ BuffersFiltered /\ MessagesOK)'
    BY DEF AckInv
<1>1. /\ transmitter = "send" /\ transmitter' = "sent"
      /\ UNCHANGED <<buffer, buffer_id, buffer_tmp, filter, old_buffers, raced, fault>>
      /\ \/ inbox' = inbox
         \/ inbox' = inbox \cup {[id |-> flight.id, count |-> flight.count, payload |-> buffer_tmp,
                                  todo |-> 1 .. flight.count]}
    BY DEF send_msgs, filling, sending, filtering
<1>2. /\ BufferTypes /\ buffer_tmp \in Seq(Samples) /\ buffer_id \in Nat
      /\ fault = "none" /\ BuffersFiltered /\ MessagesOK /\ FlightIsTmp
    BY <1>1, LearnAssumption DEF AckInv, NotifyInv, LearnInv, TypeInv, BufferTypes, Ids
<1>3. /\ buffer_tmp # << >> /\ flight.count = Len(buffer_tmp) /\ flight.id = Prev(buffer_id)
    BY <1>1, <1>2 DEF FlightIsTmp, InFlight
<1>4. /\ buffer_id > 0 /\ Filtered(buffer_id - 1, buffer_tmp)
      /\ Recorded(buffer_id - 1, Len(buffer_tmp))
    BY <1>1, <1>2, <1>3 DEF BuffersFiltered
<1>5. flight.id = buffer_id - 1
    BY <1>2, <1>3, <1>4, PrevIs
<1>6. BuffersFiltered'
    BY <1>1, <1>2 DEF BuffersFiltered, Filtered, Recorded
<1>7. PICK r : r = [id |-> flight.id, count |-> flight.count, payload |-> buffer_tmp,
                    todo |-> 1 .. flight.count]
    OBVIOUS
<1>8. /\ r.id = buffer_id - 1 /\ r.count = Len(buffer_tmp) /\ r.payload = buffer_tmp
      /\ r.todo = 1 .. Len(buffer_tmp) /\ DOMAIN buffer_tmp = 1 .. Len(buffer_tmp)
      /\ Len(buffer_tmp) \in Nat /\ Len(buffer_tmp) > 0
    <2>1. Len(buffer_tmp) \in Nat /\ DOMAIN buffer_tmp = 1 .. Len(buffer_tmp) /\ Len(buffer_tmp) > 0
        BY <1>2, <1>3
    <2> QED
        BY <1>3, <1>5, <1>7, <2>1
<1>9. /\ r.id < buffer_id
      /\ r.count = Len(r.payload) /\ r.count > 0
      /\ r.todo \subseteq 1 .. r.count
      /\ r.id \in DOMAIN old_buffers => Len(old_buffers[r.id].buffer) = r.count
      /\ \A p \in r.todo : [id |-> r.id, pos |-> p, sample |-> r.payload[p]] \in filter
    <2>1. r.id < buffer_id /\ r.count = Len(r.payload) /\ r.count > 0 /\ r.todo \subseteq 1 .. r.count
        BY <1>2, <1>8
    <2>2. r.id \in DOMAIN old_buffers => Len(old_buffers[r.id].buffer) = r.count
        BY <1>4, <1>8 DEF Recorded
    <2>3. \A p \in r.todo : [id |-> r.id, pos |-> p, sample |-> r.payload[p]] \in filter
        BY <1>4, <1>8 DEF Filtered
    <2> QED
        BY <2>1, <2>2, <2>3
<1>10. \A m \in inbox : m.id # r.id
    BY <1>1, <1>2, <1>3, <1>8 DEF MessagesOK
<1>11. MessagesOK'
    <2>1. inbox' = inbox \/ inbox' = inbox \cup {r}
        BY <1>1, <1>7
    <2>2. ASSUME NEW m \in inbox'
          PROVE  /\ m.id < buffer_id'
                 /\ m.id = buffer_id' - 1 /\ buffer_tmp' # << >> => transmitter' = "sent"
                 /\ m.count = Len(m.payload) /\ m.count > 0
                 /\ m.todo \subseteq 1 .. m.count
                 /\ m.id \in DOMAIN old_buffers' => Len(old_buffers'[m.id].buffer) = m.count
                 /\ \A p \in m.todo : [id |-> m.id, pos |-> p, sample |-> m.payload[p]] \in filter'
        <3>1. CASE m \in inbox
            BY <1>1, <1>2, <3>1 DEF MessagesOK
        <3>2. CASE m = r
            BY <1>1, <1>9, <3>2
        <3> QED
            BY <2>1, <3>1, <3>2
    <2>3. \A x, y \in inbox' : x.id = y.id => x = y
        BY <1>2, <1>10, <2>1 DEF MessagesOK
    <2> QED
        BY <2>2, <2>3 DEF MessagesOK
<1> QED
    BY <1>1, <1>2, <1>6, <1>11

LEMMA FinishAckInv ==
    ASSUME LearnInv, AckInv, FinishSending
    PROVE  AckInv'
<1> SUFFICES ASSUME Careful, ~raced' PROVE (fault = "none" /\ BuffersFiltered /\ MessagesOK)'
    BY DEF AckInv
<1>1. /\ buffer_tmp' = << >>
      /\ UNCHANGED <<buffer, buffer_id, filter, old_buffers, inbox, raced, fault>>
    BY DEF FinishSending, filling, filtering, observed
<1>2. fault = "none" /\ BuffersFiltered /\ MessagesOK
    BY <1>1 DEF AckInv
<1>3. BuffersFiltered'
    BY <1>1, <1>2 DEF BuffersFiltered, Filtered, Recorded
<1>4. MessagesOK'
    BY <1>1, <1>2 DEF MessagesOK
<1> QED
    BY <1>1, <1>2, <1>3, <1>4

LEMMA ResetAckInv ==
    ASSUME LearnInv, reset_state
    PROVE  AckInv'
<1> SUFFICES ASSUME Careful, ~raced' PROVE (fault = "none" /\ BuffersFiltered /\ MessagesOK)'
    BY DEF AckInv
<1>1. /\ fault' = "none" /\ inbox' = {} /\ filter' = {} /\ old_buffers' = << >>
      /\ buffer' = << >> /\ buffer_tmp' = << >> /\ buffer_id' = 0
    BY DEF reset_state, Running
<1>2. DOMAIN old_buffers' = {} /\ Len(buffer') = 0 /\ DOMAIN buffer' = {}
    BY <1>1, EmptySeq
<1> QED
    BY <1>1, <1>2 DEF BuffersFiltered, MessagesOK, Filtered, Recorded

SwapInv == LearnInv /\ NotifyInv /\ SwapsBounded /\ AckInv

\* Steps that leave the buffers, the filter and the number of callers inside alone.
LEMMA QuietAckInv ==
    ASSUME SwapInv, UNCHANGED <<filling, sending, filtering, inbox, raced, fault, learned>>,
           changes' = changes \/ (changes < MaxChanges /\ changes' = changes + 1), Busy' = Busy,
           transmitter' = "sent" <=> transmitter = "sent", IsFiniteSet(Callers)
    PROVE  SwapsBounded' /\ AckInv'
<1>1. TypeInv /\ AckInv /\ BufferTypes
    BY DEF SwapInv, LearnInv, TypeInv
<1>2. Keeps(buffer)
    BY <1>1 DEF Keeps, filling, sending, BufferTypes
<1>3. AckInv'
    BY <1>1, <1>2, AckStays
<1>4. /\ Cardinality(Busy) \in Nat /\ Len(buffer) \in Nat /\ buffer_id \in Nat
      /\ MaxLearned \in Nat /\ MaxChanges \in Nat
    BY <1>1, BusyFinite, LearnAssumption DEF BufferTypes, Ids
<1>5. /\ learned \in 0 .. MaxLearned /\ changes \in 0 .. MaxChanges
      /\ buffer_id + Cardinality(Busy) + Len(buffer) <= 2 * learned + changes
    BY DEF SwapInv, SwapsBounded
<1>6. UNCHANGED <<buffer, buffer_id, learned>>
    BY DEF filling
<1>7. SwapsBounded'
    BY <1>4, <1>5, <1>6 DEF SwapsBounded
<1> QED
    BY <1>3, <1>7

\* A caller that is woken up is still inside.
LEMMA BusyWoken ==
    ASSUME ThreadTypes,
           UNCHANGED caller \/ \E c \in Callers : /\ caller[c] = "b_can_swap"
                                                  /\ caller' = [caller EXCEPT ![c] = "ready"]
    PROVE  Busy' = Busy
BY DEF ThreadTypes, Busy

LEMMA SwapInvStep ==
    ASSUME IsFiniteSet(Callers), IdsSuffice, SwapInv, [Next]_vars
    PROVE  SwapInv'
<1>0. LearnInv /\ TypeInv /\ ThreadTypes /\ NotifyInv /\ SwapsBounded /\ AckInv
    BY DEF SwapInv, LearnInv, TypeInv
<1> SUFFICES SwapsBounded' /\ AckInv'
    BY <1>0, LearnInvStep, NotifyInvStep DEF SwapInv
<1>1. ASSUME NEW c \in Callers, NEW s \in Samples, add_sample(c, s) PROVE SwapsBounded' /\ AckInv'
    BY <1>0, <1>1, AddSampleBounded, AddSampleAckInv
<1>2. ASSUME NEW c \in Callers, (\E n \in SampleLimits : set_max_samples(c, n)) \/ ResumeSwap(c)
      PROVE  SwapsBounded' /\ AckInv'
    <2>1. SwapsBounded' /\ (Keeps(buffer) \/ Swapped(buffer))
        BY <1>0, <1>2, CallsBounded
    <2>2. Woken /\ UNCHANGED <<filtering, observed>>
        BY <1>0, <1>2, SetMaxMoves, ResumeMoves
    <2>3. transmitter' = "sent" <=> transmitter = "sent"
        BY <1>0, <2>2, WokenFacts
    <2> QED
        BY <1>0, <2>1, <2>2, <2>3, AckStays DEF observed
<1>3. ASSUME reset_state PROVE SwapsBounded' /\ AckInv'
    <2>1. AckInv'
        BY <1>0, <1>3, ResetAckInv
    <2>2. /\ buffer_id' = 0 /\ buffer' = << >> /\ caller' = caller
          /\ learned' = learned /\ changes' = changes
        BY <1>3 DEF reset_state
    <2>3. Busy' = Busy /\ Len(buffer') = 0 /\ Cardinality(Busy) \in Nat
        BY <2>2, EmptySeq, BusyFinite DEF Busy
    <2>4. buffer_id \in Nat /\ Len(buffer) \in Nat
        BY <1>0, LearnAssumption DEF TypeInv, BufferTypes, Ids
    <2>5. SwapsBounded'
        BY <1>0, <2>2, <2>3, <2>4, LearnAssumption DEF SwapsBounded
    <2> QED
        BY <2>1, <2>5
<1>4. ASSUME NEW m \in inbox, ack_buffer(m) \/ \E ps \in SUBSET (1 .. m.count) : ack(m, ps)
      PROVE  SwapsBounded' /\ AckInv'
    <2>1. AckInv'
        BY <1>0, <1>4, AckAckInv, AckBufferAckInv
    <2>2. UNCHANGED <<buffer, buffer_id, caller, learned, changes>>
        BY <1>4 DEF ack, ack_buffer, filling, bounds
    <2>3. Busy' = Busy
        BY <2>2 DEF Busy
    <2> QED
        BY <1>0, <2>1, <2>2, <2>3 DEF SwapsBounded
<1>5. ASSUME buffer_transmit PROVE SwapsBounded' /\ AckInv'
    <2>1. SwapsBounded' /\ (Keeps(buffer) \/ Swapped(buffer))
        BY <1>0, <1>5, TransmitBounded
    <2>2. /\ transmitter' = "sent" <=> transmitter = "sent"
          /\ UNCHANGED <<filtering, observed>>
        BY <1>0, <1>5, TransmitMoves
    <2> QED
        BY <1>0, <2>1, <2>2, AckStays DEF observed
<1>6. ASSUME send_msgs PROVE SwapsBounded' /\ AckInv'
    <2>1. AckInv'
        BY <1>0, <1>6, SendAckInv
    <2>2. UNCHANGED <<buffer, buffer_id, caller, learned, changes>>
        BY <1>6 DEF send_msgs, filling, bounds
    <2>3. Busy' = Busy
        BY <2>2 DEF Busy
    <2> QED
        BY <1>0, <2>1, <2>2, <2>3 DEF SwapsBounded
<1>7. ASSUME FinishSending PROVE SwapsBounded' /\ AckInv'
    <2>1. AckInv'
        BY <1>0, <1>7, FinishAckInv
    <2>2. UNCHANGED <<buffer, buffer_id, learned, changes>>
        BY <1>7 DEF FinishSending, filling, bounds
    <2>3. Busy' = Busy
        BY <1>0, <1>7, BusyWoken DEF FinishSending, NotifySwap
    <2> QED
        BY <1>0, <2>1, <2>2, <2>3 DEF SwapsBounded
<1>8. ASSUME \/ \E on \in TimeoutModes, late \in BOOLEAN : set_timeout(on, late)
             \/ \E w \in Writers : set_learn_writer(w)
             \/ Destroy \/ WaitTimesOut \/ TimeoutPasses \/ SpuriousWakeup
             \/ FillHeader \/ UNCHANGED vars
      PROVE  SwapsBounded' /\ AckInv'
    <2>1. UNCHANGED <<filling, sending, filtering, inbox, raced, fault, learned>>
        BY <1>8 DEF set_timeout, set_learn_writer, Destroy, WaitTimesOut, TimeoutPasses,
                    SpuriousWakeup, FillHeader, vars, observed, bounds
    <2>2. transmitter' = "sent" <=> transmitter = "sent"
        BY <1>8 DEF set_timeout, set_learn_writer, Destroy, WaitTimesOut, TimeoutPasses,
                    SpuriousWakeup, FillHeader, vars, transmit, NotifySend
    <2>3. changes' = changes \/ (changes < MaxChanges /\ changes' = changes + 1)
        BY <1>8 DEF set_timeout, set_learn_writer, Destroy, WaitTimesOut, TimeoutPasses,
                    SpuriousWakeup, FillHeader, vars, bounds
    <2>4. UNCHANGED caller \/ \E c \in Callers : /\ caller[c] = "b_can_swap"
                                                 /\ caller' = [caller EXCEPT ![c] = "ready"]
        BY <1>8 DEF set_timeout, set_learn_writer, Destroy, WaitTimesOut, TimeoutPasses,
                    SpuriousWakeup, FillHeader, vars
    <2>5. Busy' = Busy
        BY <1>0, <2>4, BusyWoken
    <2> QED
        BY <2>1, <2>2, <2>3, <2>5, QuietAckInv
<1> QED
    BY <1>1, <1>2, <1>3, <1>4, <1>5, <1>6, <1>7, <1>8, Zenon DEF Next

\* As long as buffer ids are not reused (2^64 of them: IdsSuffice) and no reset met a
\* notification in flight, a careful controller never makes ack or ack_buffer use a dead
\* iterator: each sample it has not acknowledged is in the filter under the id and position
\* of the notification, and the records count what is not acknowledged.
THEOREM AcknowledgementsAreSound ==
    ASSUME IsFiniteSet(Callers), IdsSuffice
    PROVE  Spec => []AcksAreSound
<1>1. Init => SwapInv
    <2> SUFFICES ASSUME Init PROVE SwapInv
        OBVIOUS
    <2>1. LearnInv
        BY LearnInvInit
    <2>2. NotifyInv
        BY DEF Init, NotifyInv, Waiting, FlightIsTmp, InFlight
    <2>3. DOMAIN old_buffers = {} /\ Len(buffer) = 0 /\ DOMAIN buffer = {}
        BY EmptySeq DEF Init
    <2>4. AckInv
        BY <2>3 DEF Init, AckInv, BuffersFiltered, MessagesOK, Filtered, Recorded
    <2>5. SwapsBounded
        <3>1. Busy = {}
            BY DEF Init, Busy
        <3>2. Cardinality(Busy) = 0
            BY <3>1, FS_EmptySet
        <3> QED
            BY <2>3, <3>2, LearnAssumption DEF Init, SwapsBounded
    <2> QED
        BY <2>1, <2>2, <2>4, <2>5 DEF SwapInv
<1>2. SwapInv /\ [Next]_vars => SwapInv'
    BY SwapInvStep
<1>3. SwapInv => AcksAreSound
    <2> SUFFICES ASSUME SwapInv PROVE AcksAreSound
        OBVIOUS
    <2>1. FilterAccounted /\ AckInv
        BY DEF SwapInv, LearnInv
    <2>2. AckReachesItsSamples
        BY <2>1 DEF AckInv, AckReachesItsSamples, MessagesOK
    <2> QED
        BY <2>1, <2>2 DEF AcksAreSound
<1> QED
    BY <1>1, <1>2, <1>3, PTL DEF Spec
=============================================================================
