--------------------------- MODULE MCAgeingMonitor ---------------------------
(***************************************************************************)
(* A small instance of AgeingMonitor: two slots, two keys, one timeout.    *)
(***************************************************************************)
EXTENDS AgeingMonitor, TLC

CONSTANTS k1, k2, u1, u2, p1

MCCanonical == (u1 :> k1) @@ (u2 :> k2)
MCPrefers == (p1 :> <<k1>>)

\* ret is written by the calls and read by nothing in this module.
View == <<storage, history, monitor, observed>>
=============================================================================
