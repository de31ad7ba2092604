----------------------------- MODULE BitFields -----------------------------
(***************************************************************************)
(* The bytes of a packet and the values of a header's fields:              *)
(* generic_extract takes a field's bits out of the packet's bytes,         *)
(* Field::deparse puts them back, at any bit offset, with shifts of whole  *)
(* bytes, and cksum16 adds up a header eight bytes at a time.  A byte has  *)
(* W bits (8 in the code), so that every alignment fits a small instance.  *)
(*                                                                         *)
(* One header is received, one of its fields may be set, and it is sent    *)
(* from a buffer that holds anything; or the checksum of one is updated.   *)
(***************************************************************************)
EXTENDS Integers, Sequences, SequencesExt, FiniteSetsExt, Bitwise

CONSTANTS
    W,          \* bits of a byte
    Layouts,    \* headers: the widths of their fields, whole bytes in total
    ByteValues, \* the bytes that packets hold
    Sums        \* headers to be summed up, with their checksum's two bytes 0

VARIABLES
    phase,      \* "extract", "set", "deparse", "sent"; "update", "updated"
    nbits,      \* the widths of the header's fields
    data,       \* the header as received, a sequence of bytes
    k,          \* the field at hand
    fields,     \* the fields' bytes, most significant first
    touched,    \* the field that was set, 0 for none
    buf         \* the header as it is sent

vars == <<phase, nbits, data, k, fields, touched, buf>>

-----------------------------------------------------------------------------
(* Bytes.                                                                     *)
Full == 2 ^ W
Shl(x, n) == (x * 2 ^ n) % Full
Shr(x, n) == x \div 2 ^ n
\* x & (0xFF >> n), and x & ~(0xFF >> n)
Low(x, n) == x % 2 ^ (W - n)
High(x, n) == x - Low(x, n)

\* Big-endian numbers.
Number(bytes) == FoldLeft(LAMBDA n, b : n * Full + b, 0, bytes)
Bytes(n, len) == [i \in 1 .. len |-> (n \div Full ^ (len - i)) % Full]

NBytes(width) == (width + W - 1) \div W
\* Where field j begins: hdr_offset of the loop over a header's fields, and data.
Start(j) == FoldLeft(+, 0, SubSeq(nbits, 1, j - 1))
Offset(j) == Start(j) % W
First(j) == Start(j) \div W
Pad(j) == W * NBytes(nbits[j]) - nbits[j]
Total == FoldLeft(+, 0, nbits)

-----------------------------------------------------------------------------
(* generic_extract.  In the shift to the left the mask comes before the last  *)
(* byte is assigned, which is also the first one of a field of one byte.      *)
\* Mutant: the byte after the field's own count of bytes is never read.
generic_extract_short(d, bit_offset, bitwidth) ==
    LET n == NBytes(bitwidth)
        pad == W * n - bitwidth
        off == bit_offset - pad
    IN  [i \in 1 .. n |->
            LET b == IF off > 0
                     THEN Shl(d[i], off) + (IF i < n THEN Shr(d[i + 1], W - off) ELSE 0)
                     ELSE Shr(d[i], -off) + (IF i > 1 THEN Shl(d[i - 1], W + off) ELSE 0)
            IN  IF i = 1 THEN Low(b, pad) ELSE b]
generic_extract(d, bit_offset, bitwidth) ==
    LET n == NBytes(bitwidth)
        dst_offset == W * n - bitwidth
        offset == bit_offset - dst_offset
        Left(i) == IF i < n \/ bit_offset + bitwidth > W * n
                   THEN Shl(d[i], offset) | Shr(d[i + 1], W - offset) ELSE Shl(d[i], offset)
        Right(i) == IF i = 1 THEN Shr(d[1], -offset)
                    ELSE Shl(d[i - 1], W + offset) | Shr(d[i], -offset)
        Mask(i, b) == IF i = 1 THEN Low(b, dst_offset) ELSE b
    IN  [i \in 1 .. n |->
            CASE bit_offset = 0 /\ bitwidth % W = 0 -> d[i]
              [] offset = 0 -> Mask(i, d[i])
              [] offset > 0 -> IF i < n THEN Mask(i, Left(i)) ELSE Left(i)
              [] offset < 0 -> Mask(i, Right(i))]

\* Field::deparse: what the bytes d become, from the first byte's bits that are
\* kept.  In the shift to the left, bytes before the last one are assigned, the
\* first one too.
Deparsed(bytes, width, hdr_offset, first, d) ==
    LET n == NBytes(width)
        hdr_bytes == NBytes(hdr_offset + width)
        offset == W * n - width - hdr_offset
        tail_offset == W * hdr_bytes - (hdr_offset + width)
        Left(i) == IF i < hdr_bytes THEN Shl(bytes[i], offset) | Shr(bytes[i + 1], W - offset)
                   ELSE (IF i = 1 THEN first ELSE 0) | Shl(bytes[i], offset)
        Right(i) == CASE i = 1 -> first | Shr(bytes[1], -offset)
                      [] n = 1 /\ i = 2 -> Shl(bytes[1], W + offset)
                      [] i > 1 /\ i < hdr_bytes -> Shl(bytes[i - 1], W + offset) | Shr(bytes[i], -offset)
                      [] OTHER -> (d[i] % 2 ^ tail_offset) | Shl(bytes[i - 1], W + offset)
    IN  [i \in DOMAIN d |->
            CASE i > hdr_bytes -> d[i]
              [] hdr_offset = 0 /\ width % W = 0 -> bytes[i]
              [] offset = 0 -> IF i = 1 THEN first | bytes[1] ELSE bytes[i]
              [] offset > 0 -> Left(i)
              [] offset < 0 -> Right(i)]

\* Mutant: the first byte is not cleared where the field goes.
Field_deparse_over(bytes, width, hdr_offset, d) == Deparsed(bytes, width, hdr_offset, d[1], d)
Field_deparse(bytes, width, hdr_offset, d) ==
    Deparsed(bytes, width, hdr_offset, High(d[1], hdr_offset), d)

-----------------------------------------------------------------------------
(* cksum16.  Words are read in the order of a little-endian machine.          *)
Word(bytes) == Number(Reverse(bytes))
\* sum += s; if (sum < s) sum++, in n bytes.
\* Mutant: the carry out of the sum is lost.
AddLosing(n, sum, s) == (sum + s) % Full ^ n
AddCarry(n, sum, s) ==
    LET t == (sum + s) % Full ^ n IN IF t < s THEN (t + 1) % Full ^ n ELSE t

\* Eight bytes at a time, then four, two and one, as the bits of the length say.
Words(b) ==
    LET main == 8 * (Len(b) \div 8)
        At(from, n) == Word(SubSeq(b, from + 1, from + n))
        tail == Len(b) % 8
    IN  [i \in 1 .. main \div 8 |-> At(8 * (i - 1), 8)]
        \o (IF tail >= 4 THEN <<At(main, 4)>> ELSE <<>>)
        \o (IF tail % 4 >= 2 THEN <<At(main + 4 * (tail \div 4), 2)>> ELSE <<>>)
        \o (IF tail % 2 = 1 THEN <<At(Len(b) - 1, 1)>> ELSE <<>>)

cksum16(b) ==
    LET sum == FoldLeft(LAMBDA s, w : AddCarry(8, s, w), 0, Words(b))
        t1 == AddCarry(4, sum % Full ^ 4, sum \div Full ^ 4)
        t3 == AddCarry(2, t1 % Full ^ 2, t1 \div Full ^ 2)
    IN  Full ^ 2 - 1 - t3

-----------------------------------------------------------------------------
Init ==
    /\ k = 1 /\ touched = 0 /\ fields = <<>> /\ buf = <<>>
    /\ \/ /\ phase = "extract"
          /\ nbits \in Layouts
          /\ data \in [1 .. NBytes(Total) -> ByteValues]
       \/ phase = "update" /\ nbits = <<>> /\ data \in Sums

\* One turn of Header::extract's loop.
extract ==
    /\ phase = "extract"
    /\ LET from == SubSeq(data, First(k) + 1, Len(data))
       IN  fields' = Append(fields, generic_extract(from, Offset(k), nbits[k]))
    /\ IF k < Len(nbits) THEN k' = k + 1 /\ UNCHANGED phase ELSE k' = 1 /\ phase' = "set"
    /\ UNCHANGED <<nbits, data, touched, buf>>

\* An action may give one field a number; the header is then sent from a
\* buffer that holds only zeros, or only ones.
modify ==
    /\ phase = "set"
    /\ \/ touched' = 0 /\ UNCHANGED fields
       \/ \E j \in DOMAIN nbits, v \in {0, 1} :
            /\ touched' = j
            /\ fields' = [fields EXCEPT ![j] = Bytes(v * (2 ^ nbits[j] - 1), NBytes(nbits[j]))]
    /\ buf' \in {[i \in DOMAIN data |-> b] : b \in {0, Full - 1}}
    /\ phase' = "deparse"
    /\ UNCHANGED <<nbits, data, k>>

\* One turn of Header::deparse's loop.
deparse ==
    /\ phase = "deparse"
    /\ LET at == First(k)
       IN  buf' = SubSeq(buf, 1, at)
                  \o Field_deparse(fields[k], nbits[k], Offset(k), SubSeq(buf, at + 1, Len(buf)))
    /\ IF k < Len(nbits) THEN k' = k + 1 /\ UNCHANGED phase ELSE k' = 1 /\ phase' = "sent"
    /\ UNCHANGED <<nbits, data, fields, touched>>

\* IPv4Checksum::update_ copies the number's bytes as they are in memory, the
\* calculation returns ntohs of it and Field::set writes that most significant
\* byte first.  The checksum is the header's first two bytes here.
update ==
    /\ phase = "update"
    /\ LET c == cksum16(data)
           memory == <<c % Full, c \div Full>>
           ntohs == (c % Full) * Full + c \div Full
       IN  /\ buf' = memory \o SubSeq(data, 3, Len(data))
           /\ fields' = <<Bytes(ntohs, 2)>>
    /\ phase' = "updated"
    /\ UNCHANGED <<nbits, data, k, touched>>

Next == extract \/ modify \/ deparse \/ update

Spec == Init /\ [][Next]_vars

-----------------------------------------------------------------------------
\* The bits of field j in a header's bytes, as a number.
Slice(bytes, j) == (Number(bytes) \div 2 ^ (Total - Start(j) - nbits[j])) % 2 ^ nbits[j]

\* Less than a byte wide, and in two bytes: generic_extract leaves in such a
\* field's byte the bits of the packet that come before the field.
Straddles(j) == nbits[j] < W /\ Offset(j) + nbits[j] > W
\* Field::deparse assigns the first byte whole, and the fields before lose
\* their bits in it.
Clobbers(j) == Offset(j) > 0 /\ Offset(j) < Pad(j) /\ nbits[j] > W

(* What Field::extract left in a field is the number its bits of the packet   *)
(* spell, wherever it begins in a byte and however many bytes it touches:     *)
(* the shifts, the mask and the extra byte of the last turn agree.  A field   *)
(* that straddles two bytes and is narrower than one has it only in its low   *)
(* bits.                                                                      *)
FieldsAreSlices ==
    phase \in {"extract", "set"} =>
        \A j \in DOMAIN fields :
            IF Straddles(j) THEN Number(fields[j]) % 2 ^ nbits[j] = Slice(data, j)
            ELSE Number(fields[j]) = Slice(data, j)

(* The same without the exception, as the test of Field::extract asserts      *)
(* (tests/test_fields.cpp, which pads what comes before the field with 0).    *)
FieldsAsTested ==
    phase = "set" => \A j \in DOMAIN fields : Number(fields[j]) = Slice(data, j)

(* A header that is sent spells each field's value, whatever the buffer held  *)
(* before and in spite of the bytes the fields share, unless a later field    *)
(* damages it: one that clobbers the byte they share, or one that straddles,  *)
(* still holds the bits it was read with, and ors them over a new value.  In  *)
(* particular a header nobody changed leaves as it came, the stray bits of a  *)
(* field that straddles included.                                             *)
EmitsItsFields ==
    phase = "sent" =>
        \A j \in DOMAIN nbits :
            \/ Slice(buf, j) = Number(fields[j]) % 2 ^ nbits[j]
            \/ \E l \in DOMAIN nbits :
                /\ l > j /\ Start(j) + nbits[j] > W * First(l)
                /\ Clobbers(l) \/ (Straddles(l) /\ touched = j)

(* The checksum cksum16 gives makes the sum of the header's 16-bit words, in  *)
(* network order and with end-around carry, all ones, although it adds words  *)
(* of eight, four, two and one bytes in the machine's order and folds them;   *)
(* the bytes that IPv4Checksum copies and the number that a calculation       *)
(* returns put the same two bytes in the header.                              *)
ChecksumVerifies ==
    phase = "updated" =>
        LET Byte(i) == IF i <= Len(buf) THEN buf[i] ELSE 0
        IN  /\ FoldLeft(LAMBDA s, i : s + Byte(2 * i - 1) * Full + Byte(2 * i), 0,
                        [i \in 1 .. (Len(buf) + 1) \div 2 |-> i]) % (Full ^ 2 - 1) = 0
            /\ fields[1] = SubSeq(buf, 1, 2)

=============================================================================
