-------------------------- MODULE ContextPanelProofs --------------------------
(***************************************************************************)
(* The panel under an event is that event's, for any number of events and  *)
(* of panels.  What makes it so is that an instance asks once, for one     *)
(* event, and that its number is not used again.                           *)
(***************************************************************************)
EXTENDS ContextPanel, TLAPS

Own(p) == [instance |-> p.instance, event |-> p.event]

TypesOK ==
  /\ listed \subseteq Event /\ openId \in Event \cup {NoEvent}
  /\ panel \in [instance : Nat, event : Event \cup {NoEvent}, context : Event \cup {NoEvent},
                error : BOOLEAN]
  /\ fetches \subseteq [instance : Nat, event : Event]

\* A panel is on the screen exactly when the open event is listed.
OnScreen == panel.event = IF openId \in listed THEN openId ELSE NoEvent

\* Every call was made by this panel, for its event, or by one before it.
CallsAreOld ==
  \A f \in fetches : /\ f.instance <= panel.instance
                     /\ f.instance = panel.instance /\ Mounted(panel) => f.event = panel.event

\* A mounted panel waits for its call, has its answer, or its error.
Sound(p, F) ==
  Mounted(p) => /\ p.context \in {p.event, NoEvent}
                /\ (Own(p) \in F) <=> (p.context = NoEvent /\ ~p.error)

PanelInv == TypesOK /\ OnScreen /\ CallsAreOld /\ Sound(panel, fetches)

LEMMA Initially == PanelInit => PanelInv
BY EventAssumption DEF PanelInit, PanelInv, TypesOK, OnScreen, CallsAreOld, Sound, NoPanel, Mounted

\* Whatever the list draws, the panel drawn is the open event's, and sound.
LEMMA RenderIsSound ==
  ASSUME PanelInv, NEW events \in SUBSET Event, NEW open \in Event \cup {NoEvent},
         Render(events, open), listed' = events, openId' = open
  PROVE  PanelInv'
<1>1. TypesOK /\ CallsAreOld /\ Sound(panel, fetches) /\ NoEvent \notin Event
  BY EventAssumption DEF PanelInv
<1>2. panel.instance \in Nat /\ fetches \subseteq [instance : Nat, event : Event]
  BY <1>1 DEF TypesOK
<1>3. CASE open \notin events
  <2>1. /\ panel' = [instance |-> panel.instance, event |-> NoEvent, context |-> NoEvent, error |-> FALSE]
        /\ fetches' = fetches
    BY <1>3 DEF Render, NoPanel, LastInstance
  <2>2. ~Mounted(panel') /\ panel'.instance = panel.instance /\ panel'.event = NoEvent
    BY <2>1 DEF Mounted
  <2>3. TypesOK' /\ OnScreen'
    BY <1>1, <1>2, <1>3, <2>1, <2>2 DEF TypesOK, OnScreen
  <2>4. CallsAreOld' /\ Sound(panel', fetches')
    BY <1>1, <2>1, <2>2 DEF CallsAreOld, Sound
  <2> QED
    BY <2>3, <2>4 DEF PanelInv
<1>4. CASE open \in events /\ panel.event = open
  <2>1. UNCHANGED <<panel, fetches>>
    BY <1>4 DEF Render
  <2>2. TypesOK' /\ OnScreen'
    BY <1>1, <1>4, <2>1 DEF TypesOK, OnScreen
  <2>3. CallsAreOld' /\ Sound(panel', fetches')
    BY <1>1, <2>1 DEF CallsAreOld
  <2> QED
    BY <2>2, <2>3 DEF PanelInv
<1>5. CASE open \in events /\ panel.event # open
  <2> DEFINE call == [instance |-> panel.instance + 1, event |-> open]
  <2>1. /\ panel' = [instance |-> panel.instance + 1, event |-> open, context |-> NoEvent, error |-> FALSE]
        /\ fetches' = fetches \cup {call}
    BY <1>5 DEF Render, NoPanel, LastInstance
  <2>2. open \in Event /\ open # NoEvent
    BY <1>1, <1>5
  <2>3. TypesOK' /\ OnScreen'
    BY <1>1, <1>2, <1>5, <2>1, <2>2 DEF TypesOK, OnScreen
  <2>4. CallsAreOld'
    <3> SUFFICES ASSUME NEW f \in fetches'
                 PROVE  /\ f.instance <= panel.instance + 1
                        /\ f.instance = panel.instance + 1 => f.event = open
      BY <2>1 DEF CallsAreOld
    <3>1. CASE f = call
      BY <1>2, <3>1
    <3>2. CASE f \in fetches
      <4>1. f.instance <= panel.instance /\ f.instance \in Nat
        BY <1>1, <1>2, <3>2 DEF CallsAreOld
      <4> QED
        BY <1>2, <4>1
    <3> QED
      BY <2>1, <3>1, <3>2
  <2>5. Sound(panel', fetches')
    BY <2>1 DEF Sound, Own
  <2> QED
    BY <2>3, <2>4, <2>5 DEF PanelInv
<1> QED
  BY <1>3, <1>4, <1>5

\* A call that is over leaves the panel sound if it was not the panel's own.
LEMMA OtherCallsEnd ==
  ASSUME PanelInv, NEW f \in fetches, ~Mounted(panel) \/ f # Own(panel),
         fetches' = fetches \ {f}, UNCHANGED <<listed, openId, panel>>
  PROVE  PanelInv'
<1>1. TypesOK' /\ OnScreen'
  BY DEF PanelInv, TypesOK, OnScreen
<1>2. CallsAreOld'
  BY DEF PanelInv, CallsAreOld
<1>3. Sound(panel', fetches')
  BY DEF PanelInv, Sound
<1> QED
  BY <1>1, <1>2, <1>3 DEF PanelInv

LEMMA Inductive == PanelInv /\ [PanelNext]_panelVars => PanelInv'
<1> SUFFICES ASSUME PanelInv, [PanelNext]_panelVars PROVE PanelInv'
  OBVIOUS
<1>0. TypesOK /\ OnScreen /\ CallsAreOld /\ Sound(panel, fetches)
  BY DEF PanelInv
<1>1. ASSUME NEW e \in Event, Click(e) PROVE PanelInv'
  <2>1. Render(listed, openId') /\ listed' = listed /\ openId' \in Event \cup {NoEvent}
    BY <1>1 DEF Click
  <2> QED
    BY <1>0, <2>1, RenderIsSound DEF TypesOK
<1>2. ASSUME NEW S \in SUBSET Event, Relist(S) PROVE PanelInv'
  <2>1. Render(S, openId) /\ listed' = S /\ openId' = openId
    BY <1>2 DEF Relist
  <2> QED
    BY <1>0, <2>1, RenderIsSound DEF TypesOK
<1>3. ASSUME NEW f \in fetches, NEW ok \in BOOLEAN, Arrives(f, ok) PROVE PanelInv'
  <2>1. fetches' = fetches \ {f} /\ UNCHANGED <<listed, openId>>
    BY <1>3 DEF Arrives
  <2>2. CASE panel.instance # f.instance \/ ~Mounted(panel)
    <3>1. panel' = panel /\ (~Mounted(panel) \/ f # Own(panel))
      BY <1>3, <2>2 DEF Arrives, Own
    <3> QED
      BY <2>1, <3>1, OtherCallsEnd
  <2>3. CASE panel.instance = f.instance /\ Mounted(panel)
    <3>1. f.event = panel.event /\ f.event \in Event /\ f = [instance |-> f.instance, event |-> f.event]
      BY <1>0, <2>3 DEF CallsAreOld, TypesOK
    <3>2. panel' = IF ok THEN [panel EXCEPT !.context = f.event] ELSE [panel EXCEPT !.error = TRUE]
      BY <1>3, <2>3 DEF Arrives
    <3>3. /\ panel'.instance = panel.instance /\ panel'.event = panel.event
          /\ panel' \in [instance : Nat, event : Event \cup {NoEvent},
                         context : Event \cup {NoEvent}, error : BOOLEAN]
      BY <1>0, <3>1, <3>2 DEF TypesOK
    <3>4. Own(panel') = f
      BY <2>3, <3>1, <3>3 DEF Own
    <3>5. TypesOK' /\ OnScreen'
      BY <1>0, <2>1, <3>3 DEF TypesOK, OnScreen
    <3>6. CallsAreOld'
      BY <1>0, <2>1, <3>3 DEF CallsAreOld, Mounted
    <3>7. Sound(panel', fetches')
      <4>1. CASE ok
        <5>1. panel'.context = panel.event /\ panel.event # NoEvent
          BY <1>0, <2>3, <3>1, <3>2, <4>1 DEF TypesOK, Mounted
        <5> QED
          BY <2>1, <3>3, <3>4, <5>1 DEF Sound
      <4>2. CASE ~ok
        <5>1. panel'.context = panel.context /\ panel'.error
          BY <1>0, <3>2, <4>2 DEF TypesOK
        <5> QED
          BY <1>0, <2>1, <2>3, <3>3, <3>4, <5>1 DEF Sound
      <4> QED
        BY <4>1, <4>2
    <3> QED
      BY <3>5, <3>6, <3>7 DEF PanelInv
  <2> QED
    BY <2>2, <2>3
<1>4. ASSUME NEW f \in fetches, Aborted(f) PROVE PanelInv'
  <2>1. f # Own(panel) /\ fetches' = fetches \ {f} /\ UNCHANGED <<listed, openId, panel>>
    BY <1>4 DEF Aborted, Own
  <2> QED
    BY <2>1, OtherCallsEnd
<1>5. CASE UNCHANGED panelVars
  <2>1. UNCHANGED <<listed, openId, panel, fetches>>
    BY <1>5 DEF panelVars
  <2> QED
    BY <1>0, <2>1 DEF PanelInv, TypesOK, OnScreen, CallsAreOld
<1> QED
  BY <1>1, <1>2, <1>3, <1>4, <1>5 DEF PanelNext

\* No panel shows what another asked for, is on the screen without its event, or says it is
\* loading while nothing is under way.
THEOREM PanelsAreTheirEvents == PanelSpec => []PanelIsOfItsEvent
<1>1. PanelInv => PanelIsOfItsEvent
  <2> SUFFICES ASSUME PanelInv PROVE PanelIsOfItsEvent
    OBVIOUS
  <2>1. NoEvent \notin listed
    BY EventAssumption DEF PanelInv, TypesOK
  <2>2. CASE openId \notin listed
    BY <2>2 DEF PanelInv, OnScreen, PanelIsOfItsEvent, Mounted
  <2>3. CASE openId \in listed
    <3>1. panel.event = openId /\ Mounted(panel)
      BY <2>1, <2>3 DEF PanelInv, OnScreen, Mounted
    <3> QED
      BY <2>3, <3>1 DEF PanelInv, Sound, Own, PanelIsOfItsEvent
  <2> QED
    BY <2>2, <2>3
<1> QED
  BY <1>1, Initially, Inductive, PTL DEF PanelSpec
=============================================================================
