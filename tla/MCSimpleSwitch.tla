---------------------------- MODULE MCSimpleSwitch ----------------------------
(***************************************************************************)
(* Instances of SimpleSwitch for TLC: two ports, one multicast group with  *)
(* both of them.                                                           *)
(***************************************************************************)
EXTENDS SimpleSwitch, TLC

MCGroups == {<<0, 1>>}
NoGroups == {}
=============================================================================
