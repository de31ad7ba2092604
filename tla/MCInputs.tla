---------------------------- MODULE MCInputs ----------------------------
(* What the parts of MCSequential are run on.                                 *)
EXTENDS Integers, Sequences, SequencesExt, TLC

CONSTANTS W, MaxLength

\* Trees of depth 3: every operator at depth 1, and subtraction (which does
\* not commute), ternary operators and register accesses above them.

Arith2 == {"+", "-", "*", "<<", ">>", "&", "|", "^", "two_comp_mod"}
Compare2 == {"==", "!=", ">", "<", ">=", "<="}

Null == <<"null">>
X(o, l, r) == <<"expression", o, l, r, Null>>
If(c, l, r) == <<"expression", "?", l, r, c>>
C(n) == <<"hexstr", n>>
f == <<"field", 0>>
g == <<"field", 1>>
l0 == <<"local", 0>>
r == <<"register", "ra", C(1)>>
Yes == <<"bool", TRUE>>
No == <<"bool", FALSE>>
Valid(h) == X("valid", Null, <<"header", h>>)

D1 == {X(o, a, b) : o \in Arith2, a \in {C(3), f}, b \in {l0, C(2)}}
        \cup {X("<<", f, g), X("two_comp_mod", f, C(0)), X("-", Null, f), X("~", Null, f), r,
              <<"register", "ra", C(5)>>, <<"register", "rb", l0>>, <<"register", "rb", g>>}
B1 == {X(o, a, b) : o \in Compare2, a \in {f, l0}, b \in {C(2), l0}}
        \cup {X("and", Yes, No), X("or", No, Yes), X("not", Null, Valid("h")), Valid("i"), X("d2b", Null, f)}
Small == {C(3), f, l0, X("-", C(7), f), X("b2d", Null, Yes), X("-", X("~", Null, f), X("+", l0, C(1))),
          If(No, C(4), X("-", f, C(1))), If(Yes, X("-", l0, C(1)), C(9)), <<"register", "rb", X("-", l0, C(4))>>}
Conds == {Yes, X(">", X("-", f, C(3)), X("b2d", Null, No))}
Mid == {X("-", a, b) : a \in Small, b \in Small}
        \cup {If(c, a, b) : c \in Conds, a \in Small, b \in Small}
Picked == {C(3)} \cup {X("-", a, b) : a, b \in {X("-", C(7), f), If(No, C(4), X("-", f, C(1)))}}
        \cup {If(c, a, b) : c \in Conds, a \in {X("-", f, C(5))}, b \in {X("b2d", Null, Yes), f}}
        \cup {<<"register", "rb", X("-", If(Yes, l0, C(8)), C(4))>>}

MCTrees ==
    D1 \cup B1 \cup Mid
    \cup {X("b2d", Null, b) : b \in B1} \cup {If(b, C(1), d) : b \in B1, d \in D1}
    \cup {X(o, a, b) : o \in {"-", "<"}, a \in Picked, b \in Picked}
    \cup {If(c, a, b) : c \in Conds, a \in Picked, b \in Picked}
    \cup {If(Yes, X("<", a, C(2)), No) : a \in Picked}

MCNumbers == <<5, -2>>
MCLocals == <<5>>
MCValidity == [h \in {"h", "i"} |-> h = "h"]
MCRegisters == [a \in {"ra", "rb"} |-> IF a = "ra" THEN <<10, 20>> ELSE <<30, 40>>]
-----------------------------------------------------------------------------
\* Inputs with two headers, two pipelines and one item or two per section,
\* sound and with the defects a section can have.

Blank == [name |-> "x", at |-> {}, direct |-> {}, info |-> {}, expr |-> {}, bad |-> FALSE]
Named(n) == [Blank EXCEPT !.name = n]
Of(n, at) == [Named(n) EXCEPT !.at = at]

hf == <<"h", "f">>
mf == <<"m", "f">>
mg == <<"m", "g">>
alias == <<"a", "x">>
T == {<<"header_types", "T">>}
H(n) == <<"headers", n>>

Header(n) == Of(n, T) @@ [fields |-> {"e", "f", "g"}]
Parser(info, src, expr, at, init) ==
    [Of("p", at) EXCEPT !.info = info \cup {hf}, !.expr = expr]
        @@ [dest |-> {hf}, src |-> src, states |-> {"start"}, init_state |-> init]
ParserVariants ==
    {Parser({alias}, {alias}, {}, {H("h")}, "start"),
     Parser({mf}, {mf}, {mg}, {H("h"), <<"header_stacks", "st">>}, "start"),
     Parser({}, {}, {}, {<<"register_arrays", "r">>}, "start"),
     Parser({}, {}, {}, {}, "missing"),
     Parser({<<"n", "f">>}, {}, {}, {}, "start")}
CalcVariants ==
    {[Named("k") EXCEPT !.info = {mf}, !.bad = b] : b \in BOOLEAN}
Action(at, direct, expr, bad, whole) ==
    [Of("act", at) EXCEPT !.direct = direct, !.expr = expr, !.bad = bad] @@ [whole |-> whole]
Arrays == {<<"counter_arrays", "c">>, <<"meter_arrays", "d">>, <<"register_arrays", "r">>,
           <<"calculations", "k">>, <<"extern_instances", "e">>}
ActionVariants ==
    {Action(Arrays, {mg}, {hf}, FALSE, {}),
     Action({H("m")}, {}, {}, FALSE, {"m"}),
     Action({}, {mf}, {}, TRUE, {}),
     Action({}, {alias}, {}, FALSE, {}),
     Action({}, {<<"m", "z">>}, {}, FALSE, {})}
Table(n, bad, meter) == [Named(n) EXCEPT !.direct = {hf}, !.bad = bad] @@ [meter |-> meter]
TableVariants == {Table("t", FALSE, {}), Table("t", FALSE, {"d"}), Table("t", TRUE, {})}
NextVariants == {Of("t", {<<"actions", "act">>, <<"nodes", "cond">>}),
                 Of("t", {<<"nodes", "late">>})}

Input(p, k, act, t, n, isdirect, al, ext, nodec) ==
    LET S(name) == <<name, 0>> IN
    (S("header_types") :> <<Named("T")>>)
    @@ (S("headers") :> <<Header("h"), Header("m")>>)
    @@ (S("header_stacks") :> <<Of("st", T)>>)
    @@ (S("field_aliases") :> IF al THEN <<Blank @@ [from |-> alias, to |-> <<"m", "e">>]>> ELSE <<>>)
    @@ (S("extern_instances") :> <<[Named("e") EXCEPT !.bad = ext]>>)
    @@ (S("parsers") :> <<p>>)
    @@ (S("deparsers") :> <<Of("dp", {H("h")})>>)
    @@ (S("calculations") :> <<k>>)
    @@ (S("counter_arrays") :> <<Named("c") @@ [is_direct |-> nodec]>>)
    @@ (S("meter_arrays") :> <<[Named("d") EXCEPT !.direct = {mg}] @@ [is_direct |-> isdirect]>>)
    @@ (S("register_arrays") :> <<Named("r")>>)
    @@ (S("actions") :> <<act>>)
    @@ (<<"tables", 1>> :> <<t>>)
    @@ (<<"conditionals", 1>> :> <<[Named("cond") EXCEPT !.expr = {mf}]>>)
    @@ (<<"next_nodes", 1>> :> <<n>>)
    @@ (<<"pipelines", 1>> :> <<Of("ingress", {<<"nodes", "t">>})>>)
    @@ (<<"tables", 2>> :> <<Table("late", FALSE, {})>>)
    @@ (<<"next_nodes", 2>> :> <<Of("late", {<<"actions", "act">>, <<"nodes", "t">>})>>)
    @@ (<<"pipelines", 2>> :> <<Of("egress", {<<"nodes", "late">>})>>)
    @@ (S("checksums") :> <<[Of("cs", {<<"calculations", "k">>}) EXCEPT !.direct = {hf}, !.expr = {mg}]>>)
    @@ (S("learn_lists") :> <<[Named("l") EXCEPT !.direct = {hf}]>>)
    @@ (S("field_lists") :> <<[Named("fl") EXCEPT !.direct = {mf}]>>)
    @@ (S("required") :> <<Blank>>)
    @@ (S("force_arith") :> <<[Blank EXCEPT !.info = {mf}]>>)

SoundParser == Parser({mf}, {mf}, {mg}, {H("h"), <<"header_stacks", "st">>}, "start")
SoundCalc == [Named("k") EXCEPT !.info = {mf}]
SoundAction == Action(Arrays, {mg}, {hf}, FALSE, {})
SoundNext == Of("t", {<<"actions", "act">>, <<"nodes", "cond">>})

\* Parsers, actions, tables and aliases in every combination, and the defects of
\* the other sections in every combination.
MCObjects ==
    {Input(p, SoundCalc, act, t, SoundNext, TRUE, al, FALSE, FALSE) :
        p \in ParserVariants, act \in ActionVariants, t \in TableVariants, al \in BOOLEAN}
    \cup {Input(SoundParser, k, SoundAction, t, n, isdirect, TRUE, ext, nodec) :
        k \in CalcVariants, t \in TableVariants, n \in NextVariants,
        isdirect \in BOOLEAN, ext \in BOOLEAN, nodec \in BOOLEAN}

MCRequiredFields == {alias}
MCArithFields == {<<"h", "g">>, <<"q", "f">>}
-----------------------------------------------------------------------------
\* Headers of two and three bytes in at most three fields: every offset,
\* width and number of bytes of a field meets every other.  The sums are of
\* headers of up to MaxLength bytes, some of them all zeros and ones, which
\* is where carries happen.

Compositions(n) == {s \in UNION {[1 .. m -> 1 .. n] : m \in 1 .. 3} : FoldLeft(+, 0, s) = n}
MCLayouts == Compositions(2 * W) \cup Compositions(3 * W)
MCSums ==
    {<<0, 0>> \o s : s \in UNION {[1 .. n -> {0, 2 ^ W - 1}] : n \in {1, 2, 3, 6, 9} \cap 1 .. MaxLength - 2}}
    \cup {<<0, 0>> \o [i \in 1 .. n |-> (5 * i + n) % 2 ^ W] : n \in 1 .. MaxLength - 2}
-----------------------------------------------------------------------------
\* A header with a checksum, then a stack of up to three one-byte headers or
\* a header with options; arithmetic is enabled for the first header of the
\* stack only, as the loader does when an expression names it.

MCFields == [h \in {"h", "g", "o", "m", "s0", "s1", "s2"} |-> IF h \in {"h", "g", "o"} THEN 2 ELSE 1]
MCStack == <<"s0", "s1", "s2">>
MCArith == {<<"h", 1>>, <<"h", 2>>, <<"g", 1>>, <<"g", 2>>, <<"s0", 1>>, <<"m", 1>>}
Case(key, next) == [key |-> <<key>>, mask |-> <<TRUE>>, next |-> next]
MCStates ==
    [start |-> [ops |-> <<<<"extract", "h">>, <<"set_data", 1>>, <<"set_expression", "h">>>>,
                key |-> <<<<"field", "h", 1>>>>,
                cases |-> <<Case(1, "tags"), Case(2, "options")>>, default |-> "last"],
     tags |-> [ops |-> <<<<"extract_stack">>>>,
               key |-> <<<<"stack_field", 1>>, <<"lookahead">>>>,
               cases |-> <<[key |-> <<1, 0>>, mask |-> <<TRUE, FALSE>>, next |-> "tags"]>>,
               default |-> "parsed"],
     options |-> [ops |-> <<<<"set_field", "h">>, <<"set_lookahead", 2>>, <<"extract", "o">>,
                            <<"set_lookahead", 1>>>>,
                  key |-> <<>>, cases |-> <<>>, default |-> "parsed"],
     last |-> [ops |-> <<>>, key |-> <<<<"stack_field", 1>>>>, cases |-> <<>>,
               default |-> "parsed"]]
MCDeparsed == <<"h", "g", "o", "s0", "s1", "s2">>
MCWires == {<<1>>, <<0, 1>>, <<1, 0, 1, 2, 0>>, <<1, 0, 1, 1, 1, 0>>, <<2, 0, 2, 1>>}
MCOps == {<<"add_header", "o">>, <<"add_header", "g">>, <<"add_header_fast", "g">>,
          <<"remove_header", "s0">>, <<"remove_header", "g">>,
          <<"modify_field", "h", "s0">>, <<"modify_field", "g", "s0">>,
          <<"copy_header", "g", "h">>,
          <<"push", 2>>, <<"pop", 1>>}

=============================================================================
