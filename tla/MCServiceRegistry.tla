------------------------- MODULE MCServiceRegistry -------------------------
(***************************************************************************)
(* ServiceRegistry on a small machine.  A .cfg cannot spell a negative     *)
(* number or a function: the clock of these runs also steps backwards, and *)
(* of the host services number 1 is a worker without a port and the others *)
(* are listeners.  PIDs are only ever compared for equality, so they are   *)
(* interchangeable.                                                        *)
(***************************************************************************)
EXTENDS ServiceRegistry, TLC

MCClockSteps == {-1, 1}
MCPrimaryPort == [s \in Service \ Container |-> IF s = 1 THEN NoPort ELSE 80]
MCHomeProject == [s \in Service \ Container |-> NoProject]
PidSymmetry == Permutations(Pid)
=============================================================================
