---------------------------- MODULE TickHistory ----------------------------
(***************************************************************************)
(* What the event history in SQLite promises, without queue, writer or     *)
(* rows: "history is the part that may fall behind".  Every tick is either *)
(* accepted or lost whole; accepted ticks are recorded in the order they   *)
(* were made, each once; what is recorded stays; a crash loses what was    *)
(* accepted and not yet recorded, and nothing else.                        *)
(***************************************************************************)
EXTENDS Naturals

VARIABLES
  made,      \* number of ticks made so far
  accepted,  \* ticks on their way to the store
  recorded   \* ticks whose events are in the store

historyVars == <<made, accepted, recorded>>

HistoryInit == made = 0 /\ accepted = {} /\ recorded = {}

Make ==
  /\ made' = made + 1
  /\ accepted' \in {accepted, accepted \cup {made'}}
  /\ UNCHANGED recorded

Record ==
  \E n \in accepted :
    /\ \A m \in accepted : n <= m
    /\ \A m \in recorded : m < n
    /\ accepted' = accepted \ {n}
    /\ recorded' = recorded \cup {n}
    /\ UNCHANGED made

Lose == accepted' = {} /\ UNCHANGED <<made, recorded>>

HistoryNext == Make \/ Record \/ Lose

HistorySpec == HistoryInit /\ [][HistoryNext]_historyVars
=============================================================================
