---------------------------- MODULE Expressions ----------------------------
(***************************************************************************)
(* Expression: a JSON expression tree is flattened by build_expression into*)
(* a vector of operations, build() gives each operation that computes a    *)
(* number the temporary it writes, and eval_ runs the operations on three  *)
(* stacks.  The stack of numbers holds pointers (into the temporaries, the *)
(* constants, the packet's fields, the action's data or the registers) that*)
(* are followed only when an operation uses them.  The temporaries are     *)
(* thread_local and start with what earlier evaluations left.              *)
(*                                                                         *)
(* A tree is <<type, value>>, or <<"expression", op, left, right, cond>>.  *)
(* A computation that may abort or throw is the set of its results, empty  *)
(* when there is none.                                                     *)
(***************************************************************************)
EXTENDS Integers, Sequences, SequencesExt, FiniteSetsExt, Bitwise

CONSTANTS
    Trees,      \* the expressions of the input
    Fields,     \* the packet's fields, numbers by offset
    Validity,   \* the packet's headers: is each one valid
    Locals,     \* the action's data
    Registers,  \* the register arrays: a function from names to sequences
    Garbage     \* what a temporary holds before the evaluation writes it

VARIABLES
    tree,       \* the JSON expression
    ops,        \* Expression::ops; arg is the union of struct Op
    consts,     \* Expression::const_values
    cnt,        \* Expression::data_registers_cnt
    resolved,   \* VLHeaderExpression::resolve was called
    pc,         \* position in ops
    temps,      \* data_temps
    data,       \* data_temps_stack
    bools,      \* bool_temps_stack
    headers,    \* header_temps_stack
    phase,      \* "loading", "built", "eval", "done" or "aborted"
    result      \* what eval_ gives: a set with one element once it is done

vars == <<tree, ops, consts, cnt, resolved, pc, temps, data, bools, headers, phase, result>>

Arith2 == {"+", "-", "*", "<<", ">>", "&", "|", "^", "two_comp_mod"}
Compare2 == {"==", "!=", ">", "<", ">=", "<="}

-----------------------------------------------------------------------------
(* Data: numbers of any size.  A bit operation sees two's complement: the     *)
(* numbers of the model are within -2^Bits .. 2^Bits - 1.                     *)
Bits == 12
Unsigned(x) == x % 2 ^ (Bits + 1)
Signed(x) == IF x >= 2 ^ Bits THEN x - 2 ^ (Bits + 1) ELSE x

two_comp_mod(src, width) ==
    LET min == -(2 ^ (width - 1))
        max == 2 ^ (width - 1) - 1
        value == src % 2 ^ width
    IN  IF src >= min /\ src <= max THEN src
        ELSE IF value > max THEN value - 2 ^ width ELSE value

\* No result: the assertion on a negative shift.  For a width of 0 the unsigned
\* uwidth - 1 is the largest there is, every number is in range, and none changes.
Compute(op, l, r) ==
    CASE op = "+" -> {l + r}
      [] op = "-" -> {l - r}
      [] op = "*" -> {l * r}
      [] op = "<<" -> IF r >= 0 THEN {l * 2 ^ r} ELSE {}
      [] op = ">>" -> IF r >= 0 THEN {l \div 2 ^ r} ELSE {}
      [] op = "&" -> {Signed(Unsigned(l) & Unsigned(r))}
      [] op = "|" -> {Signed(Unsigned(l) | Unsigned(r))}
      [] op = "^" -> {Signed(Unsigned(l) ^^ Unsigned(r))}
      [] op = "two_comp_mod" -> IF r = 0 THEN {l} ELSE {two_comp_mod(l, r)}

Holds(op, l, r) ==
    CASE op = "==" -> l = r
      [] op = "!=" -> l # r
      [] op = ">" -> l > r
      [] op = "<" -> l < r
      [] op = ">=" -> l >= r
      [] op = "<=" -> l <= r

bit_neg(x) == -x - 1

\* RegisterArray::at, which throws when the index is out of range.
At(array, i) == IF i \in 0 .. Len(Registers[array]) - 1 THEN {i} ELSE {}

-----------------------------------------------------------------------------
(* The tree's meaning, what the compiled operations have to compute.          *)
RECURSIVE Denote(_)
Denote(t) ==
    CASE t[1] \in {"hexstr", "bool"} -> {t[2]}
      [] t[1] = "field" -> {Fields[t[2] + 1]}
      [] t[1] = "local" -> {(IF resolved THEN Fields ELSE Locals)[t[2] + 1]}
      [] t[1] = "header" -> {Validity[t[2]]}
      [] t[1] = "register" ->
            {Registers[t[2]][i + 1] : i \in UNION {At(t[2], i) : i \in Denote(t[3])}}
      [] OTHER ->
            LET op == t[2]
                Left == IF t[3][1] = "null" THEN {0} ELSE Denote(t[3])
                Right == Denote(t[4])
            IN  CASE op = "?" -> UNION {IF c THEN Left ELSE Right : c \in Denote(t[5])}
                  [] op \in Arith2 -> UNION {Compute(op, l, r) : l \in Left, r \in Right}
                  [] op \in Compare2 -> {Holds(op, l, r) : l \in Left, r \in Right}
                  [] op = "and" -> {l /\ r : l \in Left, r \in Right}
                  [] op = "or" -> {l \/ r : l \in Left, r \in Right}
                  [] op = "not" -> {~r : r \in Right}
                  [] op = "~" -> {bit_neg(r) : r \in Right}
                  [] op = "valid" -> Right
                  [] op = "d2b" -> {r # 0 : r \in Right}
                  [] op = "b2d" -> {IF r THEN 1 ELSE 0 : r \in Right}

\* eval_bool or eval_arith, chosen by the object that holds the expression.
RECURSIVE IsBool(_)
IsBool(t) ==
    \/ t[1] = "bool"
    \/ /\ t[1] = "expression"
       /\ \/ t[2] \in Compare2 \cup {"and", "or", "not", "valid", "d2b"}
          \/ t[2] = "?" /\ IsBool(t[3])

-----------------------------------------------------------------------------
(* Compilation.                                                               *)
Op(code, arg) == [code |-> code, arg |-> arg]
Push(e, code, arg) == [e EXCEPT !.ops = Append(@, Op(code, arg))]

push_back_load_const(e, value) ==
    Push([e EXCEPT !.consts = Append(@, value)], "load_const", Len(e.consts))

\* Mutant: the constants of the appended expression keep their offsets.
append_expression_unshifted(e, e1) ==
    [ops |-> e.ops \o e1.ops, consts |-> e.consts \o e1.consts]
append_expression(e, e1) ==
    [ops |-> e.ops \o [i \in DOMAIN e1.ops |->
                 IF e1.ops[i].code = "load_const"
                 THEN [e1.ops[i] EXCEPT !.arg = @ + Len(e.consts)] ELSE e1.ops[i]],
     consts |-> e.consts \o e1.consts]

push_back_ternary_op(e, e1, e2) ==
    LET left == append_expression(Push(Push(e, "?", 0), "skip", Len(e1.ops) + 1), e1)
    IN  append_expression(Push(left, "skip", Len(e2.ops)), e2)

Empty == [ops |-> <<>>, consts |-> <<>>]

RECURSIVE build_expression(_, _)
build_expression(t, e) ==
    CASE t[1] = "null" -> e
      [] t[1] = "hexstr" -> push_back_load_const(e, t[2])
      [] t[1] \in {"bool", "field", "local", "header"} -> Push(e, "load_" \o t[1], t[2])
      [] t[1] = "register" ->
            IF t[3][1] = "hexstr" THEN Push(e, "load_register_ref", <<t[2], t[3][2]>>)
            ELSE Push(build_expression(t[3], e), "load_register_gen", t[2])
      [] OTHER ->
            IF t[2] = "?"
            THEN push_back_ternary_op(build_expression(t[5], e),
                     build_expression(t[3], Empty), build_expression(t[4], Empty))
            ELSE LET left == IF t[2] \in {"+", "-"} /\ t[3][1] = "null"
                             THEN push_back_load_const(e, 0) ELSE build_expression(t[3], e)
                 IN  Push(build_expression(t[4], left), t[2], 0)

\* assign_dest_registers: how many entries of new_registers an operation pops,
\* and what it pushes: 1 for a temporary, 0 for a pointer to something else.
Pops(code) ==
    CASE code \in Arith2 \cup Compare2 -> 2
      [] code \in {"~", "d2b", "load_register_gen"} -> 1
      [] OTHER -> 0
Writes(code) == code \in Arith2 \cup {"~", "b2d"}
Pushes(code) ==
    IF Writes(code) THEN <<1>>
    ELSE IF code \in {"load_const", "load_local", "load_field", "load_register_ref",
                      "load_register_gen"} THEN <<0>> ELSE <<>>

Assign(s, op) ==
    LET kept == SubSeq(s.new, 1, Len(s.new) - Pops(op.code))
        curr == FoldSeq(+, 0, kept)
    IN  [new |-> kept \o Pushes(op.code),
         cnt |-> Max({s.cnt, curr + FoldSeq(+, 0, Pushes(op.code))}),
         ops |-> Append(s.ops, IF Writes(op.code) THEN [op EXCEPT !.arg = curr] ELSE op)]
assign_dest_registers(code) ==
    FoldLeft(Assign, [new |-> <<>>, cnt |-> 0, ops |-> <<>>], code)

-----------------------------------------------------------------------------
Init ==
    /\ tree \in Trees
    /\ ops = <<>> /\ consts = <<>> /\ cnt = 0
    /\ resolved = FALSE /\ pc = 1 /\ temps = <<>>
    /\ data = <<>> /\ bools = <<>> /\ headers = <<>>
    /\ phase = "loading" /\ result = {}

Build ==
    /\ phase = "loading"
    /\ LET e == build_expression(tree, Empty)
           built == assign_dest_registers(e.ops)
       IN  /\ ops' = built.ops /\ cnt' = built.cnt /\ consts' = e.consts
    /\ phase' = "built"
    /\ UNCHANGED <<tree, resolved, pc, temps, data, bools, headers, result>>

\* VLHeaderExpression::resolve: the expression for the length of a header is
\* copied with the locals turned into fields of that header.
resolve ==
    /\ phase = "built" /\ ~resolved
    /\ \E i \in DOMAIN ops : ops[i].code = "load_local"
    /\ ops' = [i \in DOMAIN ops |->
                  IF ops[i].code = "load_local" THEN [ops[i] EXCEPT !.code = "load_field"]
                  ELSE ops[i]]
    /\ resolved' = TRUE
    /\ UNCHANGED <<tree, consts, cnt, pc, temps, data, bools, headers, phase, result>>

\* eval_ begins: the stacks are cleared and the temporaries grown to cnt, 4 at least.
eval ==
    /\ phase = "built"
    /\ temps' = [i \in 0 .. Max({4, cnt}) - 1 |-> Garbage]
    /\ data' = <<>> /\ bools' = <<>> /\ headers' = <<>>
    /\ pc' = 1 /\ phase' = "eval"
    /\ UNCHANGED <<tree, ops, consts, cnt, resolved, result>>

\* The number a pointer of the stack points to.
Deref(p) ==
    CASE p[1] = "temp" -> temps[p[2]]
      [] p[1] = "load_const" -> consts[p[2] + 1]
      [] p[1] = "load_field" -> Fields[p[2] + 1]
      [] p[1] = "load_local" -> Locals[p[2] + 1]
      [] p[1] = "register" -> Registers[p[2]][p[3] + 1]

op == ops[pc]
Running == phase = "eval" /\ pc <= Len(ops)
Step(n) == pc' = pc + n /\ UNCHANGED <<tree, ops, consts, cnt, resolved, phase, result>>
Abort ==
    /\ phase' = "aborted"
    /\ UNCHANGED <<tree, ops, consts, cnt, resolved, pc, temps, data, bools, headers, result>>
rd == Deref(Last(data))
ld == Deref(Last(Front(data)))
Below(n) == SubSeq(data, 1, Len(data) - n)

LoadData ==
    /\ Running /\ op.code \in {"load_field", "load_const", "load_local"}
    /\ data' = Append(data, <<op.code, op.arg>>)
    /\ Step(1) /\ UNCHANGED <<temps, bools, headers>>

LoadRegisterRef ==
    /\ Running /\ op.code = "load_register_ref"
    /\ IF At(op.arg[1], op.arg[2]) = {} THEN Abort
       ELSE /\ data' = Append(data, <<"register">> \o op.arg)
            /\ Step(1) /\ UNCHANGED <<temps, bools, headers>>

LoadRegisterGen ==
    /\ Running /\ op.code = "load_register_gen"
    /\ IF At(op.arg, rd) = {} THEN Abort
       ELSE /\ data' = Append(Below(1), <<"register", op.arg, rd>>)
            /\ Step(1) /\ UNCHANGED <<temps, bools, headers>>

LoadOther ==
    /\ Running
    /\ \/ op.code = "load_header" /\ headers' = Append(headers, op.arg) /\ UNCHANGED bools
       \/ op.code = "load_bool" /\ bools' = Append(bools, op.arg) /\ UNCHANGED headers
    /\ Step(1) /\ UNCHANGED <<temps, data>>

\* The result goes to the operation's temporary, and a pointer to it on the stack.
Store(value, n) ==
    /\ temps' = [temps EXCEPT ![op.arg] = value]
    /\ data' = Append(Below(n), <<"temp", op.arg>>)

Arithmetic ==
    /\ Running /\ op.code \in Arith2
    /\ IF Compute(op.code, ld, rd) = {} THEN Abort
       ELSE /\ \E v \in Compute(op.code, ld, rd) : Store(v, 2)
            /\ Step(1) /\ UNCHANGED <<bools, headers>>

BitNeg ==
    /\ Running /\ op.code = "~"
    /\ Store(bit_neg(rd), 1)
    /\ Step(1) /\ UNCHANGED <<bools, headers>>

Comparison ==
    /\ Running /\ op.code \in Compare2
    /\ bools' = Append(bools, Holds(op.code, ld, rd))
    /\ data' = Below(2)
    /\ Step(1) /\ UNCHANGED <<temps, headers>>

Logic ==
    /\ Running
    /\ LET rb == Last(bools)
           lb == Last(Front(bools))
       IN  \/ op.code = "and" /\ bools' = Append(Front(Front(bools)), lb /\ rb)
           \/ op.code = "or" /\ bools' = Append(Front(Front(bools)), lb \/ rb)
           \/ op.code = "not" /\ bools' = Append(Front(bools), ~rb)
    /\ Step(1) /\ UNCHANGED <<temps, data, headers>>

ValidHeader ==
    /\ Running /\ op.code = "valid"
    /\ bools' = Append(bools, Validity[Last(headers)])
    /\ headers' = Front(headers)
    /\ Step(1) /\ UNCHANGED <<temps, data>>

Ternary ==
    /\ Running /\ op.code = "?"
    /\ bools' = Front(bools)
    /\ Step(IF Last(bools) THEN 2 ELSE 1) /\ UNCHANGED <<temps, data, headers>>

Skip ==
    /\ Running /\ op.code = "skip"
    /\ Step(op.arg + 1) /\ UNCHANGED <<temps, data, bools, headers>>

DataToBool ==
    /\ Running /\ op.code = "d2b"
    /\ bools' = Append(bools, rd # 0)
    /\ data' = Below(1)
    /\ Step(1) /\ UNCHANGED <<temps, headers>>

BoolToData ==
    /\ Running /\ op.code = "b2d"
    /\ Store(IF Last(bools) THEN 1 ELSE 0, 0)
    /\ bools' = Front(bools)
    /\ Step(1) /\ UNCHANGED headers

\* The end of eval_; a Conditional takes true_next or false_next by the result.
Finish ==
    /\ phase = "eval" /\ pc > Len(ops)
    /\ result' = {IF IsBool(tree) THEN Last(bools) ELSE Deref(Last(data))}
    /\ phase' = "done"
    /\ UNCHANGED <<tree, ops, consts, cnt, resolved, pc, temps, data, bools, headers>>

Next ==
    \/ Build \/ resolve \/ eval
    \/ LoadData \/ LoadRegisterRef \/ LoadRegisterGen \/ LoadOther
    \/ Arithmetic \/ BitNeg \/ Comparison \/ Logic \/ ValidHeader
    \/ Ternary \/ Skip \/ DataToBool \/ BoolToData \/ Finish

Spec == Init /\ [][Next]_vars

-----------------------------------------------------------------------------
(* What a reader of the input relies on: eval_ ends with the tree's value,    *)
(* the branch of a ternary operator that is not chosen leaves no trace (it    *)
(* may even be one that would abort), the constants of a branch are its own   *)
(* after append_expression moved them, and eval_ stops exactly where the      *)
(* tree's meaning is undefined.                                               *)
EvalIsDenotation ==
    /\ phase = "done" => result = Denote(tree)
    /\ phase = "aborted" => Denote(tree) = {}

(* assign_dest_registers reasons about the operations in the order they are   *)
(* laid out, both branches of a ternary one after the other, while eval_ runs *)
(* one of them: still every operation finds its operands on the stacks,       *)
(* writes a temporary that exists, and never one that a pointer lower in the  *)
(* stack of numbers waits to be read from.                                    *)
TempsSuffice ==
    Running =>
        /\ Len(data) >= Pops(op.code)
        /\ op.code \in {"and", "or"} => Len(bools) >= 2
        /\ op.code \in {"not", "b2d", "?"} => bools # <<>>
        /\ Writes(op.code) =>
              /\ op.arg < cnt
              /\ <<"temp", op.arg>> \notin ToSet(Below(Pops(op.code)))

(* The result is right, and it is not by luck: the temporaries that hold the  *)
(* intermediate results are where eval_ needs them at every operation.        *)
EvalIsSound == EvalIsDenotation /\ TempsSuffice

=============================================================================
