----------------------------- MODULE MCComponents -----------------------------
(***************************************************************************)
(* The warnings of the daemon, and the parts of the dashboard that compute *)
(* a picture or a label from what they are given, checked in one run.      *)
(* They share no state, so a behaviour picks one of them and leaves the    *)
(* others where they start.                                                *)
(***************************************************************************)
EXTENDS GraphLayout, SeriesChart, ProjectCard, Labels, ContextPanel, WarningEngine

VARIABLE screen

MCService == 0..5

\* Any calls between services 0..3, and boards of up to six services without calls.
MCCalls == {c \in [source : 0..3, target : 0..3] : c.source # c.target}
GraphInit ==
  /\ \/ present \in SUBSET (0..3) /\ connections \in UNION {[1..m -> MCCalls] : m \in 0..MaxConnections}
     \/ present \in SUBSET Service \ SUBSET (0..3) /\ connections = <<>>
  /\ LayoutInit

MCFamilyOf == [s \in Member |-> IF s = 3 THEN 2 ELSE 1]
MCMemory == {0, 1, 2, 3}
MCWait == {1, 60, 3600}
\* Around every change of a unit and of the digits shown.
MCAmount == {0, 9, 10, 1023, 1024, 1075, 1076, 10188, 10189, 10239, 10240, 10751, 10752, 1048063,
             1048064, 1048575, 1048576, 1101004, 1101005, 10433331, 10485759, 10485760, 999999999}

\* A listener that comes and goes, and a worker with everything there is to warn of.
MCSighting ==
  LET Seen(state, restarted, listens, busy, bytes) ==
        [state |-> state, restarted |-> restarted, listens |-> listens, busy |-> busy, bytes |-> bytes]
  IN [s \in Subject |->
        IF s = "listener" THEN {Absent, Seen("running", FALSE, TRUE, FALSE, 2)}
        ELSE {Absent, Seen("stopped", FALSE, FALSE, FALSE, 0), Seen("running", FALSE, FALSE, FALSE, 2),
              Seen("running", TRUE, FALSE, FALSE, 2), Seen("degraded", TRUE, FALSE, FALSE, 2),
              Seen("running", FALSE, TRUE, TRUE, 3)}]

Init ==
  /\ screen \in {"graph", "chart", "cards", "ages", "amounts", "context", "warnings"}
  /\ IF screen = "graph" THEN GraphInit
     ELSE /\ present = {} /\ connections = <<>> /\ depth = <<>>
          /\ pass = 0 /\ next = 1 /\ moved = FALSE /\ pc = "placed"
  /\ screen # "chart" => wrapper = 0
  /\ screen # "amounts" => amount = 0
  /\ ChartInit /\ CardInit /\ LabelInit /\ PanelInit /\ WarnInit

ScreenNext ==
  \/ screen = "graph" /\ LayoutNext /\ UNCHANGED <<chartVars, load, labelVars, panelVars>>
  \/ screen = "chart" /\ ChartNext /\ UNCHANGED <<layoutVars, load, labelVars, panelVars>>
  \/ screen = "cards" /\ CardNext /\ UNCHANGED <<layoutVars, chartVars, labelVars, panelVars>>
  \/ /\ \/ screen = "ages" /\ \E d \in Wait : DrawAgain(d)
        \/ screen = "amounts" /\ \E v \in Amount : Measure(v)
     /\ UNCHANGED <<layoutVars, chartVars, load, panelVars>>
  \/ screen = "context" /\ PanelNext /\ UNCHANGED <<layoutVars, chartVars, load, labelVars>>

Next ==
  /\ UNCHANGED screen
  /\ \/ /\ screen = "warnings" /\ WarnNext
        /\ UNCHANGED <<layoutVars, chartVars, load, labelVars, panelVars>>
     \/ UNCHANGED warnVars /\ ScreenNext

Spec == Init /\ [][Next]_<<screen, layoutVars, chartVars, load, labelVars, panelVars, warnVars>>
=============================================================================
