---------------------------- MODULE MCPersistence ----------------------------
(***************************************************************************)
(* Persistence for listeners, number s in project s, and containers in     *)
(* any, in two scenes, so that one run has both without their product: in  *)
(* "rows" services of both kinds come and go and no file changes, in       *)
(* "files" there is no container, and files change.                        *)
(***************************************************************************)
EXTENDS Persistence

VARIABLE scene

sceneVars == <<persistVars, scene>>

MCPrimaryPort == [s \in Service \ Container |-> 80]
MCHomeProject == [s \in Service \ Container |-> s]

HostBatches == {batch \in Batches : DOMAIN batch \cap Container = {}}

SceneInit == PersistInit /\ scene \in {"rows", "files"}

Ticks ==
  \E d \in ClockSteps, batch \in IF scene = "rows" THEN Batches ELSE HostBatches,
     changes \in IF scene = "rows" THEN {<<>>} ELSE Drains(Len(shown) + 1),
     seen \in SUBSET Project, answered, sampled \in BOOLEAN :
       now + d \in Time /\ PersistTick(batch, now + d, seen, answered, sampled, changes)

SceneNext == UNCHANGED scene /\ (Ticks \/ Writer \/ Crash)

\* The writer is a blocking thread that does nothing but wait for the next command.
SceneSpec == SceneInit /\ [][SceneNext]_sceneVars /\ WF_sceneVars(Writer /\ UNCHANGED scene)
=============================================================================
