---------------------------- MODULE MCLiveUpdates ----------------------------
(***************************************************************************)
(* LiveUpdates for a host worker and, where the configuration has one, a   *)
(* container that may publish a port.                                      *)
(***************************************************************************)
EXTENDS LiveUpdates

MCPrimaryPort == [s \in Service \ Container |-> NoPort]
MCHomeProject == [s \in Service \ Container |-> NoProject]
=============================================================================
