--------------------------- MODULE MCEventDeriver ---------------------------
(***************************************************************************)
(* EventDeriver with a clock that steps backwards, by a tick, and past the *)
(* debounce window, for a host worker and a container.                     *)
(***************************************************************************)
EXTENDS EventDeriver, TLC

MCClockSteps == {-1, 1, 3}
MCPrimaryPort == [s \in Service \ Container |-> NoPort]
MCHomeProject == [s \in Service \ Container |-> NoProject]
PidSymmetry == Permutations(Pid)
=============================================================================
