----------------------------- MODULE MCStateful -----------------------------
(* Two threads; an action that updates a register at an index read from a     *)
(* second array and passes four expressions, and one that uses the second     *)
(* array, the meter and the counter.                                          *)
EXTENDS Stateful

Param(tag, array, uses) == [tag |-> tag, array |-> array, uses |-> uses]
Expr == Param("EXPRESSION", "none", {})
MCCode ==
    ("a" :> <<[name |-> "add", args |-> <<Param("REGISTER_GEN", "r1", {"r2"}), Expr>>],
              [name |-> "packet", args |-> <<Expr>>],
              [name |-> "packet", args |-> <<Expr, Expr>>]>>)
    @@ ("b" :> <<[name |-> "add", args |-> <<Param("REGISTER_ARRAY", "r2", {})>>],
                 [name |-> "meter", args |-> <<>>]>>)
    @@ ("c" :> <<[name |-> "meter", args |-> <<>>],
                 [name |-> "count", args |-> <<>>]>>)
MCRuns == [t \in {"t1", "t2"} |-> IF t = "t1" THEN {"a", "c"} ELSE {"a", "b", "c"}]
R(r, b) == [rate |-> r, burst |-> b]
MCNewRates == {<<R(1, 1), R(1, 2)>>, <<R(2, 1), R(1, 1)>>, <<R(1, 1)>>}

=============================================================================
