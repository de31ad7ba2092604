---------------------------- MODULE MCSimplePre ----------------------------
(* One group, two nodes, two ports and one LAG; two clients and a packet.  *)
EXTENDS SimplePre

MCNodeMaps == {[ports |-> {0, 1}, lags |-> {}], [ports |-> {1}, lags |-> {0}]}
MCLagMaps == {{}, {0, 1}}

=============================================================================
