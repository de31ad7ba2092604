---------------------------- MODULE MCMatchUnit ----------------------------
(***************************************************************************)
(* Small instances of MatchUnit for TLC.  Four user keys, two of which     *)
(* are masked to the same stored key, and one that the sanity check        *)
(* refuses; one stored key more than there are slots; packets that match   *)
(* two stored keys each, best first, as in an LPM or ternary table.        *)
(***************************************************************************)
EXTENDS MatchUnit, TLC

CONSTANTS k1, k2, k3, u1, u2, u3, u4, bad, p1, p2

MCUserKeys == {u1, u2, u3, u4, bad}
MCCanonical == (u1 :> k1) @@ (u2 :> k2) @@ (u3 :> k2) @@ (u4 :> k3)
MCPrefers == (p1 :> <<k1, k2>>) @@ (p2 :> <<k2, k3>>)
=============================================================================
