----------------------------- MODULE PacketPath -----------------------------
(***************************************************************************)
(* A packet from its bytes to its bytes: Parser, PHV, Header, HeaderStack, *)
(* Field, the primitives that change headers, Checksum, Deparser, and the  *)
(* clones of a packet.  PHVs come from a pool and keep what the packets    *)
(* before left in them, except what Packet::~Packet resets.                *)
(*                                                                         *)
(* A byte is a number below Base.  A field is one byte, but for the last   *)
(* field of a variable-length header, whose length is the number in the    *)
(* first field.  A field keeps its bytes and, apart from them, a number,   *)
(* which extract brings up to date only when arithmetic is enabled for the *)
(* field.  vlen is the length (nbits) of the variable-length field.        *)
(*                                                                         *)
(* view is history: what the packet should hold if a stack is a sequence   *)
(* and a header a tuple of bytes; -1 is a byte no one may rely on.         *)
(***************************************************************************)
EXTENDS Integers, Sequences, FiniteSets, SequencesExt, FiniteSetsExt

CONSTANTS
    Base,       \* number of values of a byte
    Fields,     \* number of fields of each header
    VL,         \* the headers with a variable-length field
    Metadata,   \* the metadata header, of one field
    Stack,      \* the headers of the stack, in order
    Arith,      \* fields, <<header, field>>, with arithmetic enabled
    States,     \* the parse graph: [ops |-> , key |-> , cases |-> , default |-> ]
    Deparsed,   \* the headers in the deparser's order
    Checked,    \* the header whose second field is a checksum of its first
    Wires,      \* packets that arrive
    Ops,        \* what the nodes of the pipeline do
    Capacity,   \* capacity of a PacketBuffer
    MaxOps,     \* bound on the primitives applied to a packet
    MaxPackets  \* bound on the packets received

VARIABLES
    packets,    \* live packets: "orig" and its clone, "copy"
    pool,       \* PHVs that wait in the pool
    received,   \* number of packets so far
    aborted     \* the assertion that failed, or "no"

vars == <<packets, pool, received, aborted>>

Headers == DOMAIN Fields
None == [phase |-> "none"]

-----------------------------------------------------------------------------
(* Field.                                                                     *)
RECURSIVE Number(_)
Number(bytes) == IF bytes = <<>> THEN 0 ELSE Base * Number(Front(bytes)) + Last(bytes)
Bytes(value, n) == [i \in 1 .. n |-> (value \div Base ^ (n - i)) % Base]
HasArith(h, i) == <<h, i>> \in Arith \/ (h \in VL /\ i = 1)

\* Field::extract: sync_value only for an arithmetic field.
\* Mutant: the number is not brought up to date.
ExtractedUnsynced(h, i, field, bytes) == [field EXCEPT !.bytes = bytes]
Extracted(h, i, field, bytes) ==
    [bytes |-> bytes, value |-> IF HasArith(h, i) THEN Number(bytes) ELSE field.value]

\* Data::set, with Field::export_bytes.
Set(field, value) ==
    LET n == Len(field.bytes)
    IN  [bytes |-> Bytes(value, n), value |-> value % Base ^ n]

-----------------------------------------------------------------------------
(* PHV, Header and HeaderStack.                                               *)
Length(phv, h) == IF h \in VL THEN Fields[h] - 1 + phv.hdr[h].vlen ELSE Fields[h]

\* PHVFactory::create.
create ==
    [hdr |-> [h \in Headers |->
                 [valid |-> FALSE, vlen |-> 0,
                  f |-> [i \in 1 .. Fields[h] |->
                            [value |-> 0, bytes |-> IF h \in VL /\ i = Fields[h] THEN <<>>
                                                    ELSE <<0>>]]]],
     next |-> 0, mixed |-> FALSE]

mark(phv, h, valid) == [phv EXCEPT !.hdr[h].valid = valid]
reset_header(phv, h) ==
    [phv EXCEPT !.hdr[h].f = [i \in DOMAIN @ |-> Set(@[i], 0)]]
set_field(phv, h, i, value) == [phv EXCEPT !.hdr[h].f[i] = Set(@, value)]

\* Header::swap_values: validity, numbers and bytes, and nothing else.
\* Mutant: the bytes stay where they are.
swap_values_numbers(phv, g, h) ==
    LET With(f, from) == [i \in DOMAIN f |-> [f[i] EXCEPT !.value = from[i].value]]
    IN  [phv EXCEPT !.hdr[g].valid = phv.hdr[h].valid, !.hdr[h].valid = phv.hdr[g].valid,
                    !.hdr[g].f = With(@, phv.hdr[h].f), !.hdr[h].f = With(@, phv.hdr[g].f)]
swap_values(phv, g, h) ==
    [phv EXCEPT !.hdr[g].valid = phv.hdr[h].valid, !.hdr[g].f = phv.hdr[h].f,
                !.hdr[h].valid = phv.hdr[g].valid, !.hdr[h].f = phv.hdr[g].f]

\* i counts from 0 as in the code.
At(i) == Stack[i + 1]
Depth == Len(Stack)

pop_front(phv, num) ==
    LET popped == Min({phv.next, num})
        next == phv.next - popped
        Swap(p, i) == swap_values(p, At(i), At(i + num))
        moved == FoldLeft(Swap, phv, [k \in 1 .. next |-> k - 1])
    IN  IF num = 0 THEN phv
        ELSE [moved EXCEPT !.next = next,
                 !.hdr = [h \in Headers |->
                             IF \E i \in next .. next + popped - 1 : h = At(i)
                             THEN [moved.hdr[h] EXCEPT !.valid = FALSE] ELSE moved.hdr[h]]]

push_front(phv, num) ==
    LET next == Min({Depth, phv.next + num})
        Swap(p, i) == swap_values(p, At(i), At(i - num))
        moved == FoldLeft(Swap, phv, [k \in 1 .. Max({0, next - num}) |-> next - k])
    IN  IF num = 0 THEN phv
        ELSE [moved EXCEPT !.next = next,
                 !.hdr = [h \in Headers |->
                             IF \E i \in 0 .. Min({Depth, num}) - 1 : h = At(i)
                             THEN [moved.hdr[h] EXCEPT !.valid = TRUE] ELSE moved.hdr[h]]]

\* PHV::copy_headers: neither next nor the lengths.
copy_headers(phv, src) ==
    [phv EXCEPT !.mixed = @ \/ src.mixed, !.hdr = [h \in Headers |->
        IF src.hdr[h].valid \/ h = Metadata
        THEN [valid |-> src.hdr[h].valid, f |-> src.hdr[h].f, vlen |-> @[h].vlen]
        ELSE [@[h] EXCEPT !.valid = src.hdr[h].valid]]]

reset_metadata(phv) == reset_header(phv, Metadata)

\* Packet::~Packet: PHV::reset and reset_header_stacks.
Released(phv) ==
    [phv EXCEPT !.hdr = [h \in Headers |-> [@[h] EXCEPT !.valid = FALSE]], !.next = 0]

-----------------------------------------------------------------------------
Init ==
    /\ packets = [p \in {"orig", "copy"} |-> None]
    /\ pool = <<>> /\ received = 0 /\ aborted = "no"

Gone == \A p \in DOMAIN packets : packets[p].phase \in {"none", "sent"}
Alive == aborted = "no"
Abort(why) == aborted' = why /\ UNCHANGED <<packets, pool, received>>
Update(p, packet) ==
    packets' = [packets EXCEPT ![p] = packet] /\ UNCHANGED <<pool, received, aborted>>
FromPool == IF pool = <<>> THEN create ELSE Last(pool)
PoolLeft == IF pool = <<>> THEN <<>> ELSE Front(pool)

Absent == <<-2>>
EmptyView == [hdr |-> [h \in Headers |-> Absent], stack |-> <<>>]

\* The packet before is gone, and its PHV is in the pool.
Receive(wire) ==
    /\ Alive /\ Gone /\ received < MaxPackets
    /\ packets' = [p \in DOMAIN packets |->
           IF p = "orig"
           THEN [phase |-> "start", phv |-> reset_metadata(FromPool), data |-> wire, at |-> 0,
                 out |-> <<>>, ops |-> 0, view |-> EmptyView, wire |-> wire,
                 clone |-> FALSE, loose |-> FALSE]
           ELSE None]
    /\ pool' = PoolLeft
    /\ received' = received + 1 /\ UNCHANGED aborted

-----------------------------------------------------------------------------
(* Parser.  No operation looks at the end of the data before it reads: a byte *)
(* after it is whatever the memory holds, 0 here, and Packet::remove asserts. *)
Byte(k, i) == IF i < Len(k.data) THEN k.data[i + 1] ELSE 0
Take(k, i, n) == [j \in 1 .. n |-> Byte(k, i + j - 1)]

\* Header::extract and extract_VL, for the header h at k.at.
extract(k, h) ==
    LET fixed == IF h \in VL THEN Fields[h] - 1 ELSE Fields[h]
        old == k.phv.hdr[h]
        first == [i \in 1 .. fixed |-> Extracted(h, i, old.f[i], Take(k, k.at + i - 1, 1))]
        len == IF h \in VL THEN first[1].value ELSE 0
        rest == IF h \in VL
                THEN <<Extracted(h, Fields[h], old.f[Fields[h]], Take(k, k.at + fixed, len))>>
                ELSE <<>>
    IN  [k EXCEPT !.phv.hdr[h] = [valid |-> TRUE, f |-> first \o rest, vlen |-> len],
                  !.at = @ + fixed + len]

\* A lookahead as wide as the field is extracted into it; of one that is wider the
\* number is set.  An expression stands for all: the number of a field, plus one.
ParserOp(k, o) ==
    CASE o[1] = "extract" ->
            LET done == extract(k, o[2])
            IN  [done EXCEPT !.view.hdr[o[2]] = Take(k, k.at, done.at - k.at)]
      [] o[1] = "extract_stack" ->
            LET done == extract(k, At(k.phv.next))
            IN  [done EXCEPT !.phv.next = @ + 1,
                             !.view.stack = Append(@, Take(k, k.at, done.at - k.at))]
      [] o[1] = "set_lookahead" ->
            [k EXCEPT !.phv.hdr[Metadata].f[1] =
                IF o[2] = 1 THEN Extracted(Metadata, 1, @, Take(k, k.at, 1))
                ELSE Set(@, Number(Take(k, k.at, o[2])))]
      [] o[1] = "set_field" -> [k EXCEPT !.phv = set_field(@, Metadata, 1, @.hdr[o[2]].f[1].value)]
      [] o[1] = "set_expression" ->
            [k EXCEPT !.phv = set_field(@, Metadata, 1, @.hdr[o[2]].f[1].value + 1)]
      [] o[1] = "set_data" -> [k EXCEPT !.phv = set_field(@, Metadata, 1, o[2])]

\* get_next asserts that the stack has room.
StackFull(k, state) ==
    k.phv.next + Cardinality({i \in DOMAIN state.ops : state.ops[i][1] = "extract_stack"}) > Depth

\* get_last, for a key, asserts that the stack has a header.
StackEmpty(k, state) ==
    k.phv.next = 0 /\ \E i \in DOMAIN state.key : state.key[i][1] = "stack_field"

\* ParseSwitchKeyBuilder: the bytes of the entries, one after the other.
KeyEntry(k, e) ==
    CASE e[1] = "field" -> k.phv.hdr[e[2]].f[e[3]].bytes
      [] e[1] = "stack_field" -> k.phv.hdr[At(k.phv.next - 1)].f[e[2]].bytes
      [] e[1] = "lookahead" -> Take(k, k.at, 1)
Key(k, state) == FlattenSeq([i \in DOMAIN state.key |-> KeyEntry(k, state.key[i])])

\* ParseSwitchCase::match, in the order of the cases; a mask hides whole bytes.
match(c, key) ==
    /\ (\A i \in DOMAIN c.mask : c.mask[i]) => Len(c.key) = Len(key)
    /\ \A i \in DOMAIN c.key : c.mask[i] => c.key[i] = key[i]
find_next_state(k, state) ==
    LET hits == {i \in DOMAIN state.cases : match(state.cases[i], Key(k, state))}
    IN  IF state.key = <<>> \/ hits = {} THEN state.default ELSE state.cases[Min(hits)].next

ParseState(p) ==
    /\ Alive /\ packets[p].phase \in DOMAIN States
    /\ LET k == packets[p]
           state == States[k.phase]
       IN  IF StackFull(k, state) THEN Abort("stack full")
           ELSE LET done == FoldLeft(ParserOp, k, state.ops)
                IN  IF StackEmpty(done, state) THEN Abort("stack empty")
                    ELSE Update(p, [done EXCEPT !.phase = find_next_state(done, state)])

\* The end of Parser::parse.
ParseEnd(p) ==
    /\ Alive /\ packets[p].phase = "parsed"
    /\ LET k == packets[p]
       IN  IF k.at > Len(k.data) THEN Abort("too short")
           ELSE Update(p, [k EXCEPT !.phase = "pipeline", !.at = 0,
                                    !.data = SubSeq(@, k.at + 1, Len(@))])

-----------------------------------------------------------------------------
(* Primitives.  loose: the view no longer says what the packet holds, because *)
(* of a step the code does not account for; phv.mixed: in this PHV a stack     *)
(* once swapped the numbers of fields that do not both have arithmetic.       *)
Unlike == \E g, h \in ToSet(Stack) : \E i \in 1 .. Fields[g] : HasArith(g, i) # HasArith(h, i)
InStack(h) == h \in ToSet(Stack)
\* A variable-length header keeps the length and the bytes of an earlier packet:
\* nothing but extract_VL sets them.
UsedLength(phv, h) ==
    h \in VL /\ (phv.hdr[h].vlen # 0 \/ phv.hdr[h].f[Fields[h]].bytes # <<>>)
AnyBytes(n) == [i \in 1 .. n |-> -1]

\* A header was marked valid, or not, behind the back of its stack.
Unstacked(k, h, valid) == InStack(h) /\ k.phv.hdr[h].valid # valid

add_header(k, h) ==
    IF k.phv.hdr[h].valid THEN k
    ELSE [k EXCEPT !.phv = mark(reset_header(@, h), h, TRUE),
                   !.view.hdr[h] = [i \in 1 .. (IF h \in VL THEN Fields[h] - 1
                                                ELSE Fields[h]) |-> 0],
                   !.loose = @ \/ InStack(h) \/ UsedLength(k.phv, h)]

\* No reset: the fields hold what this packet, or one before it, left there.
add_header_fast(k, h) ==
    [k EXCEPT !.phv = mark(@, h, TRUE),
              !.view.hdr[h] = IF k.phv.hdr[h].valid THEN @ ELSE AnyBytes(Length(k.phv, h)),
              !.loose = @ \/ Unstacked(k, h, TRUE)
                          \/ (~k.phv.hdr[h].valid /\ UsedLength(k.phv, h))]

remove_header(k, h) ==
    [k EXCEPT !.phv = mark(@, h, FALSE), !.view.hdr[h] = Absent,
              !.loose = @ \/ Unstacked(k, h, FALSE)]

\* Nothing asks whether the headers are valid: the number of an invalid source is
\* one that nobody may rely on, and an invalid target takes it without showing it.
modify_field(k, h, src) ==
    [k EXCEPT !.phv = set_field(@, h, 1, @.hdr[src].f[1].value),
              !.view.hdr[h] = IF @ = Absent THEN @
                              ELSE [@ EXCEPT ![1] = IF k.phv.hdr[src].valid
                                                    THEN k.phv.hdr[src].f[1].bytes[1] ELSE -1],
              !.loose = @ \/ k.phv.mixed]

copy_header(k, h, src) ==
    IF k.phv.hdr[src].valid
    THEN [k EXCEPT !.phv.hdr[h] = [valid |-> TRUE, vlen |-> @.vlen,
                       f |-> [i \in DOMAIN @.f |-> Set(@.f[i], k.phv.hdr[src].f[i].value)]],
                   !.view.hdr[h] = k.view.hdr[src]]
    ELSE [k EXCEPT !.phv = mark(@, h, FALSE), !.view.hdr[h] = Absent]

push(k, num) ==
    [k EXCEPT !.phv = push_front(@, num),
              !.view.stack = LET s == [i \in 1 .. num |-> AnyBytes(1)] \o @
                             IN  SubSeq(s, 1, Min({Depth, Len(s)})),
              !.phv.mixed = @ \/ (Unlike /\ k.phv.next > 0),
              !.loose = @ \/ k.clone]

pop(k, num) ==
    [k EXCEPT !.phv = pop_front(@, num),
              !.view.stack = SubSeq(@, num + 1, Len(@)),
              !.phv.mixed = @ \/ (Unlike /\ k.phv.next > 0),
              !.loose = @ \/ k.clone]

Primitive(k, o) ==
    CASE o[1] = "add_header" -> add_header(k, o[2])
      [] o[1] = "add_header_fast" -> add_header_fast(k, o[2])
      [] o[1] = "remove_header" -> remove_header(k, o[2])
      [] o[1] = "modify_field" -> modify_field(k, o[2], o[3])
      [] o[1] = "copy_header" -> copy_header(k, o[2], o[3])
      [] o[1] = "push" -> push(k, o[2])
      [] o[1] = "pop" -> pop(k, o[2])

\* Pipeline::apply: one node after the other, until the packet is marked for exit.
apply(p, o) ==
    /\ Alive /\ packets[p].phase = "pipeline" /\ packets[p].ops < MaxOps
    /\ Update(p, [Primitive(packets[p], o) EXCEPT !.ops = @ + 1])

exit(p) ==
    /\ Alive /\ packets[p].phase = "pipeline"
    /\ Update(p, [packets[p] EXCEPT !.phase = "exited"])

\* The clones that simple_switch makes after its ingress pipeline: a multicast
\* copy and a mirror.
Clone(phv) ==
    /\ Alive /\ packets["copy"] = None /\ packets["orig"].phase = "exited"
    /\ LET k == packets["orig"]
       IN  packets' = [packets EXCEPT !["copy"] =
               [k EXCEPT !.phv = phv, !.phase = "pipeline", !.clone = TRUE, !.ops = 0,
                         !.loose = @ \/ \E h \in VL : k.phv.hdr[h].valid
                                           /\ phv.hdr[h].vlen # k.phv.hdr[h].vlen]]
    /\ pool' = PoolLeft
    /\ UNCHANGED <<received, aborted>>

clone_with_phv == Clone(copy_headers(FromPool, packets["orig"].phv))
clone_with_phv_reset_metadata ==
    Clone(reset_metadata(copy_headers(FromPool, packets["orig"].phv)))

-----------------------------------------------------------------------------
(* Deparser.                                                                  *)
Checksum(byte) == (byte + 1) % Base

\* Checksum::update, under the condition that the header is valid.
update_checksums(phv) ==
    IF phv.hdr[Checked].valid
    THEN set_field(phv, Checked, 2, Checksum(phv.hdr[Checked].f[1].bytes[1])) ELSE phv

get_headers_size(phv) ==
    FoldSeq(+, 0, [i \in DOMAIN Deparsed |->
        IF phv.hdr[Deparsed[i]].valid THEN Length(phv, Deparsed[i]) ELSE 0])

\* A header writes all the bytes of its fields from its place on, and the next
\* header starts after the length it claims.
Written(s, h) ==
    LET bytes == FlattenSeq([i \in DOMAIN s.phv.hdr[h].f |-> s.phv.hdr[h].f[i].bytes])
    IN  IF ~s.phv.hdr[h].valid THEN s
        ELSE [s EXCEPT !.out = [i \in DOMAIN @ |-> IF i \in s.at + 1 .. s.at + Len(bytes)
                                                   THEN bytes[i - s.at] ELSE @[i]],
                       !.at = @ + Length(s.phv, h)]

deparse(p) ==
    /\ Alive /\ packets[p].phase = "exited"
    /\ LET k == packets[p]
           phv == update_checksums(k.phv)
           size == get_headers_size(phv)
           blank == [i \in 1 .. size |-> 0] \o k.data
       IN  IF Len(blank) > Capacity THEN Abort("buffer")
           ELSE /\ packets' = [packets EXCEPT ![p] =
                       [k EXCEPT !.phase = "sent", !.phv = phv,
                                 !.out = FoldLeft(Written, [phv |-> phv, out |-> blank, at |-> 0],
                                                  Deparsed).out]]
                /\ pool' = Append(pool, Released(phv))      \* Packet::~Packet
                /\ UNCHANGED <<received, aborted>>

Next ==
    \/ \E wire \in Wires : Receive(wire)
    \/ clone_with_phv \/ clone_with_phv_reset_metadata
    \/ \E p \in DOMAIN packets :
          \/ ParseState(p) \/ ParseEnd(p) \/ exit(p) \/ deparse(p)
          \/ \E o \in Ops : apply(p, o)

Spec == Init /\ [][Next]_vars

-----------------------------------------------------------------------------
Live(p) == packets[p].phase # "none"

(* A field with arithmetic enabled holds the number its bytes spell: an       *)
(* expression that reads it sees what the deparser would emit.  It holds for  *)
(* packets, clones and reused PHVs, except after swap_values moved headers of *)
(* a stack that do not enable arithmetic for the same fields.                 *)
ArithInSync ==
    \A p \in DOMAIN packets : Live(p) /\ ~packets[p].phv.mixed =>
        \A h \in Headers : packets[p].phv.hdr[h].valid =>
            \A i \in 1 .. Fields[h] : HasArith(h, i) =>
                packets[p].phv.hdr[h].f[i].value = Number(packets[p].phv.hdr[h].f[i].bytes)

(* next counts the valid headers of the stack, and these come first, however  *)
(* it was parsed, pushed and popped and whoever used the PHV before.  Clones  *)
(* are the exception: copy_headers leaves next at 0.                          *)
StackCounts ==
    \A p \in DOMAIN packets : Live(p) /\ ~packets[p].loose /\ ~packets[p].clone =>
        \A i \in 0 .. Depth - 1 : packets[p].phv.hdr[At(i)].valid <=> i < packets[p].phv.next

(* What everything that works on a PHV relies on: its numbers and its stacks. *)
PhvConsistent == ArithInSync /\ StackCounts

Expected(k) ==
    FlattenSeq([i \in DOMAIN Deparsed |->
        LET h == Deparsed[i] IN
        IF InStack(h)
        THEN LET at == CHOOSE j \in 1 .. Depth : Stack[j] = h
             IN  IF at <= Len(k.view.stack) THEN k.view.stack[at] ELSE <<>>
        ELSE IF k.view.hdr[h] = Absent THEN <<>>
        ELSE IF h = Checked THEN [k.view.hdr[h] EXCEPT ![2] = IF k.view.hdr[h][1] = -1 THEN -1
                                                               ELSE Checksum(k.view.hdr[h][1])]
        ELSE k.view.hdr[h]])
    \o k.data

(* What is sent is what this packet holds, and nothing that an earlier packet *)
(* left in the PHV: the headers parsed, added, removed, copied and modified,  *)
(* the stack as the sequence that pushes and pops make of it, a fresh         *)
(* checksum, and the bytes that were not parsed.  Bytes of any value, but in  *)
(* their place, are those of headers that add_header_fast or a push makes     *)
(* valid unreset, and those modify_field takes from an invalid header.  No    *)
(* claim (loose) where a primitive makes a header of a stack valid or invalid *)
(* by itself, pushes to or pops from the stack of a clone, makes valid a      *)
(* variable-length header that was used before, or copies a number that a     *)
(* stack mixed up, nor for a clone with a variable-length header.             *)
EmitsWhatItHolds ==
    \A p \in DOMAIN packets : packets[p].phase = "sent" /\ ~packets[p].loose =>
        /\ Len(packets[p].out) = Len(Expected(packets[p]))
        /\ \A i \in DOMAIN packets[p].out :
              Expected(packets[p])[i] \in {-1, packets[p].out[i]}

(* header_stacks.h, of get_count: the current occupancy of the stack, for the *)
(* packets that only the stack's own operations touched.                      *)
StackCountsAsDocumented ==
    \A p \in DOMAIN packets : Live(p) /\ ~packets[p].loose =>
        packets[p].phv.next = Cardinality({h \in ToSet(Stack) : packets[p].phv.hdr[h].valid})

=============================================================================
