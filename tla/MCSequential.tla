----------------------------- MODULE MCSequential -----------------------------
(* The parts that run in one thread, or under one lock, one at a time and     *)
(* each alone: the indirect tables; the loader that links the objects; the    *)
(* expressions; the bits of fields and the checksum; the path of packets and  *)
(* clones through parser, primitives and deparser.  MCInputs has what they    *)
(* are run on.  The variables of the others are 0; the indirect table, which  *)
(* this module extends, is then as it was made.                               *)
EXTENDS IndirectTable, TLC

CONSTANTS
    Garbage,      \* what temporaries and buffers hold before they are written
    W,            \* bits of a byte, for the bits of fields
    ByteValues,   \* and bytes of its headers
    MaxLength,    \* bytes of the longest header summed up
    Base,         \* values of a byte, for the path of packets
    Capacity, MaxOps, MaxPackets,
    NbPipelines

MC == INSTANCE MCInputs

Inputs == MC!MCObjects
RequiredFields == MC!MCRequiredFields
ArithFields == MC!MCArithFields
Trees == MC!MCTrees
Numbers == MC!MCNumbers
Locals == MC!MCLocals
Validity == MC!MCValidity
Registers == MC!MCRegisters
Layouts == MC!MCLayouts
Sums == MC!MCSums
Fields == MC!MCFields
Stack == MC!MCStack
Arith == MC!MCArith
States == MC!MCStates
Deparsed == MC!MCDeparsed
Wires == MC!MCWires
Ops == MC!MCOps

VARIABLES
    part,   \* "indirect", "loading", "expressions", "bits" or "path"
    input, section, item, made, lheaders, arith, aliases, poisoned, status,
    tree, ops, consts, cnt, resolved, pc, temps, data, bools, headers, phase, result,
    bphase, nbits, bdata, k, fields, touched, buf,
    packets, pool, received, aborted

L == INSTANCE Loading WITH headers <- lheaders
E == INSTANCE Expressions WITH Fields <- Numbers
B == INSTANCE BitFields WITH phase <- bphase, data <- bdata
P == INSTANCE PacketPath WITH VL <- {"o"}, Metadata <- "m", Checked <- "h"

\* Keys of the indirect table are interchangeable.
KeySymmetry == Permutations(Keys)

loading == <<input, section, item, made, lheaders, arith, aliases, poisoned, status>>
expressions == <<tree, ops, consts, cnt, resolved, pc, temps, data, bools, headers,
                 phase, result>>
bits == <<bphase, nbits, bdata, k, fields, touched, buf>>
path == <<packets, pool, received, aborted>>
allVars == <<part, vars, loading, expressions, bits, path>>

NoLoad == input = 0 /\ section = 0 /\ item = 0 /\ made = 0 /\ lheaders = 0 /\
          arith = 0 /\ aliases = 0 /\ poisoned = 0 /\ status = 0
NoExpr == tree = 0 /\ ops = 0 /\ consts = 0 /\ cnt = 0 /\ resolved = 0 /\ pc = 0 /\
          temps = 0 /\ data = 0 /\ bools = 0 /\ headers = 0 /\ phase = 0 /\
          result = 0
NoBits == bphase = 0 /\ nbits = 0 /\ bdata = 0 /\ k = 0 /\ fields = 0 /\
          touched = 0 /\ buf = 0
NoPath == packets = 0 /\ pool = 0 /\ received = 0 /\ aborted = 0

SeqInit ==
    /\ Init
    /\ \/ part = "indirect" /\ NoLoad /\ NoExpr /\ NoBits /\ NoPath
       \/ part = "loading" /\ L!Init /\ NoExpr /\ NoBits /\ NoPath
       \/ part = "expressions" /\ E!Init /\ NoLoad /\ NoBits /\ NoPath
       \/ part = "bits" /\ B!Init /\ NoLoad /\ NoExpr /\ NoPath
       \/ part = "path" /\ P!Init /\ NoLoad /\ NoExpr /\ NoBits

SeqNext ==
    \/ part = "indirect" /\ Next /\ UNCHANGED <<part, loading, expressions, bits, path>>
    \/ part = "loading" /\ L!Next /\ UNCHANGED <<part, vars, expressions, bits, path>>
    \/ part = "expressions" /\ E!Next /\ UNCHANGED <<part, vars, loading, bits, path>>
    \/ part = "bits" /\ B!Next /\ UNCHANGED <<part, vars, loading, expressions, path>>
    \/ part = "path" /\ P!Next /\ UNCHANGED <<part, vars, loading, expressions, bits>>

SeqSpec == SeqInit /\ [][SeqNext]_allVars

-----------------------------------------------------------------------------
\* init_objects loads an input just when every name of it is known in time.
WellFormedLoads == part = "loading" => L!WellFormedLoads
\* Arithmetic is enabled wherever a parser, an action or an expression that exists
\* reads a number.
ArithWhereRead == part = "loading" => L!ArithWhereRead

\* Expression::eval_ computes what the tree of the JSON input means, in temporaries
\* nothing else overwrites.
EvalIsSound == part = "expressions" => E!EvalIsSound

\* generic_extract gives each field the number that its bits of the packet spell.
FieldsAreSlices == part = "bits" => B!FieldsAreSlices
\* Header::deparse spells every field's value, whatever the buffer held, but for
\* fields whose byte a later field clobbers, or straddles while the first was set.
EmitsItsFields == part = "bits" => B!EmitsItsFields
\* The checksum of cksum16 verifies, by either way it gets into the header.
ChecksumVerifies == part = "bits" => B!ChecksumVerifies
\* tests/test_fields.cpp: what is extracted is the field's value, in every layout.
FieldsAsTested == part = "bits" => B!FieldsAsTested

\* The number of a field that expressions read is the one its bytes spell, and a
\* header stack counts its valid headers, which come first.
PhvConsistent == part = "path" => P!PhvConsistent
\* header_stacks.h: get_count is the occupancy of the stack, in clones too.
StackCountsAsDocumented == part = "path" => P!StackCountsAsDocumented
\* What the deparser sends is what parser, primitives and clones left in this packet,
\* but for the headers and fields that PacketPath!EmitsWhatItHolds excepts.
EmitsWhatItHolds == part = "path" => P!EmitsWhatItHolds

=============================================================================
