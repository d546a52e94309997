----------------------------- MODULE MCDashboard -----------------------------
(***************************************************************************)
(* The dashboard in five scenes, so that one run has every page without    *)
(* the product of all of them.  A scene says what happens around the page: *)
(*                                                                         *)
(*   feed       every tick, stop and break; nobody touches the page        *)
(*   inspector  pages of two services, which come, change and go           *)
(*   timeline   from one project to another, frames and calls interleaved  *)
(*   polls      the overview and a project, polled while connections fail  *)
(*   demo       the hosted demo                                            *)
(***************************************************************************)
EXTENDS Dashboard

VARIABLE scene

vars == <<dashVars, scene>>

\* A container that is grouped late, one that moves, and the demo.
MCHomeOf ==
  [s \in Service |-> CASE s = "a" -> <<NoProject, "p", "p">>
                       [] s = "b" -> <<"q", "q", "p">>
                       [] OTHER   -> [n \in 1..MaxTicks |-> DEMO_PROJECT]]

Live  == scene \in {"feed", "timeline", "polls"}
Paged == scene \in {"inspector", "timeline", "polls", "demo"}
Polls == scene \in {"inspector", "polls", "demo"}
Stops == scene \in {"feed", "inspector", "polls"}

Places ==
  CASE scene = "feed"      -> {Overview}
    [] scene = "inspector" -> {Overview, ServicePage("a"), ServicePage("b")}
    [] scene = "timeline"  -> {ProjectPage("p"), ProjectPage("q")}
    [] scene = "polls"     -> {Overview, ProjectPage("p")}
    [] scene = "demo"      -> Routes

\* The calls of a project that a scene has answered; the others stay under way.
Answered ==
  CASE scene = "timeline" -> {"events"}
    [] scene = "polls"    -> {"status", "project"}
    [] OTHER              -> {"status", "service", "project", "events"}

Init ==
  /\ scene \in {"feed", "inspector", "timeline", "polls", "demo"}
  /\ DashInit
  /\ Hosted <=> scene = "demo"
  /\ route \in Places
  /\ scene \in {"timeline", "polls"} => daemon.up
  /\ scene = "timeline" => route = ProjectPage("q")

\* Bounds of the scenes whose ticks, answers or visits are many.
ShortRun == 2
OneVisit == scene = "timeline" => visits = 0

\* In the timeline only events matter, in the inspector only what a service is.
Ticks ==
  CASE scene = "feed" -> tick < ShortRun /\
         \E s \in {"a", "b"}, gone, linked, warned \in BOOLEAN : Tick(s, gone, linked, warned)
    [] scene = "inspector" -> \E gone \in BOOLEAN : Tick("a", gone, FALSE, FALSE)
    [] scene = "timeline"  -> \E s \in {"a", "b"} :
                                Tick(s, FALSE, s = "b" /\ Caller \in Present, FALSE)
    [] scene = "polls"     -> tick < ShortRun /\ Tick("a", FALSE, FALSE, FALSE)
    [] scene = "demo"      -> FALSE

Wire == Accept \/ SendSnapshot \/ OnOpen \/ OnMessage \/ OnClose \/ Reconnect

Fetch ==
  \/ Polls /\ Poll
  \/ \E i \in DOMAIN calls : calls[i].what \in Answered /\ Serve(i)
  \/ \E i \in DOMAIN calls : calls[i].what \in Answered /\ Deliver(i)

Next ==
  /\ UNCHANGED scene
  /\ \/ LiveStep(Ticks)
     \/ Stops /\ LiveStep(StopDaemon \/ StartDaemon)
     \/ Live /\ LiveStep(Wire \/ BreakConnection)
     \/ scene = "feed" /\ LiveStep(Resnapshot)
     \/ Paged /\ (Fetch \/ (OneVisit /\ \E r \in Places : Visit(r)))

\* A daemon that is up accepts and sends, and a browser dials, reads, polls and calls back;
\* nothing makes the user move, a daemon start or a service change.
Spec ==
  /\ Init /\ [][Next]_vars
  /\ WF_vars(Live /\ UNCHANGED scene /\ LiveStep(Wire))
  /\ WF_vars(Paged /\ UNCHANGED scene /\ Fetch)

\* The liveness properties, in the scenes where the part they are about moves.
ViewCatchesUp == Live => LiveViewCatchesUp
PagesSettleToo == Polls => PagesSettle

\* What the overview promises, in the same scenes.
ProjectsCatchUp == Live => OverviewCatchesUp
=============================================================================
