----------------------------- MODULE MCServices -----------------------------
(* Configurations for the runtime interface: a first one, one whose tables    *)
(* have other types, and one that failed to load after its arrays were made;  *)
(* the device managers; a filter for the debugger.                            *)
EXTENDS Services

First == [tables |-> [t |-> "direct"], actions |-> {"t"}, arrays |-> {"t"}, engine |-> TRUE]
Second == [tables |-> [t |-> "ws"], actions |-> {}, arrays |-> {}, engine |-> TRUE]
Failed == [tables |-> [n \in {} |-> "direct"], actions |-> {}, arrays |-> {"t"},
           engine |-> FALSE]
\* A client that filters follows one copy of the first packet and all of the second.
MCFilters == {[ids |-> {[packet_id |-> 0, copy_id |-> 0]}, all |-> {1}]}

MCConfigs == {First, Second, Failed}

MCManagers ==
    {[kind |-> "bmi", enforce |-> FALSE], [kind |-> "files", enforce |-> FALSE]}
    \cup [kind : {"packet in"}, enforce : BOOLEAN]

=============================================================================
