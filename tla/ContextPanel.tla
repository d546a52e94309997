----------------------------- MODULE ContextPanel -----------------------------
(***************************************************************************)
(* The events of a timeline and the panel under one of them that says what *)
(* happened around it: apps/web/components/Timeline.tsx.                   *)
(*                                                                         *)
(* The list changes with every frame of the socket, the user opens and     *)
(* closes, and the context of an event is fetched.  A panel is an instance *)
(* of a component with a state of its own; React keeps or replaces it.     *)
(*                                                                         *)
(* Abstractions.  A context is the event it is about.  Instances are       *)
(* numbered.                                                               *)
(***************************************************************************)
EXTENDS Integers, Sequences, FiniteSets, SequencesExt

CONSTANTS
  Event,      \* ids of events
  NoEvent,    \* null
  MaxPanels   \* bound of the model: panels mounted

ASSUME EventAssumption == IsFiniteSet(Event) /\ NoEvent \notin Event /\ MaxPanels \in Nat

VARIABLES
  listed,   \* the events of the timeline
  openId,   \* the one whose panel is open; it stays open while it is not listed
  panel,    \* the panel on the screen: its instance, event, context and error
  fetches   \* contexts under way, by the instance and event that asked for them

panelVars == <<listed, openId, panel, fetches>>

NoPanel == [instance |-> 0, event |-> NoEvent, context |-> NoEvent, error |-> FALSE]

Mounted(p) == p.event # NoEvent

\* How many panels there have been; a panel that goes leaves its number behind.
LastInstance == panel.instance

\* Fault: the panel is drawn beside the list and without a key, so that an open one is used
\* again for another event.
RenderUnkeyed(events, open) ==
  IF open \notin events
  THEN /\ panel' = [NoPanel EXCEPT !.instance = LastInstance]
       /\ UNCHANGED fetches
  ELSE IF panel.event = open THEN UNCHANGED <<panel, fetches>>
  ELSE LET instance == LastInstance + (IF Mounted(panel) THEN 0 ELSE 1) IN
       /\ panel' = IF Mounted(panel) THEN [panel EXCEPT !.event = open]
                   ELSE [NoPanel EXCEPT !.instance = instance, !.event = open]
       /\ fetches' = fetches \cup {[instance |-> instance, event |-> open]}

\* What the list draws under its events: nothing, the panel it had, or a new one, which asks
\* for its context.  The call of one that goes is aborted, which may be too late.
Render(events, open) ==
  IF open \notin events
  THEN /\ panel' = [NoPanel EXCEPT !.instance = LastInstance]
       /\ UNCHANGED fetches
  ELSE IF panel.event = open THEN UNCHANGED <<panel, fetches>>
  ELSE LET instance == LastInstance + 1 IN
       /\ panel' = [NoPanel EXCEPT !.instance = instance, !.event = open]
       /\ fetches' = fetches \cup {[instance |-> instance, event |-> open]}

PanelInit == listed = {} /\ openId = NoEvent /\ panel = NoPanel /\ fetches = {}

\* A click on an event opens its panel or closes it.
Click(e) ==
  /\ e \in listed /\ LastInstance < MaxPanels
  /\ openId' = IF openId = e THEN NoEvent ELSE e
  /\ Render(listed, openId')
  /\ UNCHANGED listed

\* New events come, old ones fall off the end.
Relist(S) ==
  /\ S # listed /\ LastInstance < MaxPanels
  /\ listed' = S
  /\ Render(S, openId)
  /\ UNCHANGED openId

\* setContext and setError reach the instance that asked, if it is still there.  A call that
\* was aborted can have been answered already, but it never becomes an error.
Arrives(f, ok) ==
  /\ f \in fetches
  /\ ok \/ (panel.instance = f.instance /\ panel.event = f.event)
  /\ fetches' = fetches \ {f}
  /\ panel' = IF panel.instance # f.instance \/ ~Mounted(panel) THEN panel
              ELSE IF ok THEN [panel EXCEPT !.context = f.event] ELSE [panel EXCEPT !.error = TRUE]
  /\ UNCHANGED <<listed, openId>>

\* The abort comes in time.
Aborted(f) ==
  /\ f \in fetches /\ ~(panel.instance = f.instance /\ panel.event = f.event)
  /\ fetches' = fetches \ {f}
  /\ UNCHANGED <<listed, openId, panel>>

PanelNext ==
  \/ \E e \in Event : Click(e)
  \/ \E S \in SUBSET Event : Relist(S)
  \/ \E f \in fetches, ok \in BOOLEAN : Arrives(f, ok)
  \/ \E f \in fetches : Aborted(f)

PanelSpec == PanelInit /\ [][PanelNext]_panelVars

----------------------------------------------------------------------------
\* The panel on the screen is that of the open event, and says nothing of another: its context
\* is the event's own, "loading" means that a call for it is under way, and an error is a call
\* of this very panel that failed ("rather than showing the previous event's context while the
\* next one loads").
PanelIsOfItsEvent ==
  IF openId \notin listed THEN ~Mounted(panel)
  ELSE /\ panel.event = openId
       /\ panel.context \in {openId, NoEvent}
       /\ LET own == [instance |-> panel.instance, event |-> openId] IN
          (own \in fetches) <=> (panel.context = NoEvent /\ ~panel.error)
=============================================================================
