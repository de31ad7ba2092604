----------------------------- MODULE MCLearning -----------------------------
(***************************************************************************)
(* One instance of LearnList for TLC.  In a calm behaviour one thread      *)
(* learns, as in simple_switch and l2_switch, a timeout is set and nobody  *)
(* resets the state: that is when the calls and the samples are promised   *)
(* to get through.  Anything goes in the others.                           *)
(***************************************************************************)
EXTENDS LearnList, TLC

CONSTANT Only       \* the caller that learns in a calm behaviour

VARIABLE calm

Calm == resets = 0 /\ with_timeout /\ \A c \in Callers \ {Only} : caller[c] = "idle"

MCInit == Init /\ calm \in BOOLEAN /\ (calm => Calm)
MCNext == Next /\ UNCHANGED calm /\ (calm => Calm')
MCSpec == MCInit /\ [][MCNext]_<<vars, calm>> /\ Fairness

\* In a calm behaviour every sample in the buffer is sent, and add_sample and
\* set_max_samples return.
CalmListServes == calm => SampleIsSent /\ CallsReturn
=============================================================================
