------------------------------ MODULE Dashboard ------------------------------
(***************************************************************************)
(* The pages of the dashboard: DashboardApp and the views of               *)
(* apps/web/components/views, each over the live view of DaemonView and    *)
(* over what it fetches itself (apps/web/lib/api.ts).                      *)
(*                                                                         *)
(* A page lives on three streams nobody orders for it: where the user      *)
(* goes, the answers to its calls, which overtake each other and are about *)
(* the page it was, and the frames of the socket.                          *)
(*                                                                         *)
(* Abstractions.  A page is what it decides with: the id and revision of   *)
(* the service it shows, its error, the events it fetched, the tick its    *)
(* samples and its status are from.                                        *)
(***************************************************************************)
EXTENDS DaemonView, Demo

CONSTANTS
  TimelineLimit, \* events a timeline shows, and asks for
  MaxCalls,      \* bound of the model: calls a page has under way when it polls again
  MaxVisits      \* bound of the model: pages visited

ASSUME PageAssumption == TimelineLimit \in Nat /\ MaxCalls \in Nat \ {0} /\ MaxVisits \in Nat

VARIABLES
  site,    \* where the page was built and is served: the demo flag, and whether on loopback
  route,   \* parseRoute of the path
  page,    \* the state of the view on the screen
  calls,   \* its calls under way, in the order they were made
  visits   \* how often MaxVisits was drawn on

pageVars == <<site, route, page, calls, visits>>
dashVars == <<viewVars, pageVars>>

\* isDemoMode.
Hosted == site.flag \/ ~site.loopback

Overview == [view |-> "overview", id |-> "/"]
ProjectPage(p) == [view |-> "project", id |-> p]
ServicePage(s) == [view |-> "service", id |-> s]
Routes == {Overview} \cup {ProjectPage(p) : p \in Project} \cup {ServicePage(s) : s \in Service}

NoDetail == [id |-> "none", rev |-> 0]
EmptyPage == [detail |-> NoDetail, error |-> FALSE, history |-> <<>>, heard |-> 0,
              samples |-> NoStatus, polled |-> NoStatus]

----------------------------------------------------------------------------
(***************************************************************************)
(* Calls and their answers.                                                *)
(***************************************************************************)
Pending == [state |-> "pending", at |-> 0, rev |-> 0, events |-> <<>>]
Failed == [Pending EXCEPT !.state = "error"]
Fine == [Pending EXCEPT !.state = "ok"]

\* demoGet: the fixture of a path, at once.
DemoAnswer(what, id) ==
  CASE what = "status"  -> Fine
    [] what = "project" -> IF id = DEMO_PROJECT THEN Fine ELSE Failed
    [] what = "service" -> IF id \in DemoIds THEN [Fine EXCEPT !.rev = 1] ELSE Failed
    [] what = "events"  -> [Fine EXCEPT !.events = DEMO_PROJECT_DETAIL.events]

\* api: the calls there are, and what they are about.
Request(what, id) == [what |-> what, id |-> id, answer |-> Pending]

\* get, up to its await.
Ask(what, id) ==
  IF Hosted THEN [Request(what, id) EXCEPT !.answer = DemoAnswer(what, id)] ELSE Request(what, id)

\* The answer of the daemon as it is now.
Answer(c) ==
  LET now == [Fine EXCEPT !.at = tick] IN
  CASE c.what = "status"  -> now
    [] c.what = "project" -> IF c.id \in KnownProjects THEN now ELSE Failed
    [] c.what = "service" -> IF daemon.rev[c.id] = 0 THEN Failed
                             ELSE [now EXCEPT !.rev = daemon.rev[c.id]]
    [] c.what = "events"  ->
         [now EXCEPT !.at = minted, !.events = FirstOf(Recent(daemon.log, c.id), TimelineLimit)]

\* The status of the machine is asked for while connected, and never by a demo.
StatusCalls(connection) ==
  IF ~Hosted /\ connection = "connected" THEN <<Ask("status", "/")>> ELSE <<>>

\* What the effects of a page ask for when it comes up.
FirstCalls(r) ==
  CASE r.view = "overview" -> StatusCalls(view.connection)
    [] r.view = "project"  -> <<Ask("events", r.id), Ask("project", r.id)>>
    [] r.view = "service"  -> <<Ask("service", r.id)>>

\* What their interval asks for again.
PolledCalls ==
  CASE route.view = "overview" -> StatusCalls(view.connection)
    [] route.view = "project"  -> <<Ask("project", route.id)>>
    [] route.view = "service"  -> <<Ask("service", route.id)>>

Waits(what) == \E i \in DOMAIN calls : calls[i].what = what

----------------------------------------------------------------------------
(***************************************************************************)
(* The user.                                                               *)
(***************************************************************************)
\* The links of the overview: its cards.
OverviewLinks == {ProjectPage(p) : p \in view.projects}

\* Of a project: its list of services, and the nodes of its topology.
ProjectLinks == {ServicePage(s) : s \in ProjectServices(route.id)}

\* Of a service of the demo: its project, and the services at the other end of its edges.
ServiceLinks ==
  LET edges == DemoServiceDetail(page.detail.id) IN
  IF page.detail = NoDetail THEN {}
  ELSE {ProjectPage(DEMO_PROJECT)} \cup {ServicePage(s) : s \in edges.outbound \cup edges.inbound}

\* The links on the screen.  On a machine of one's own a path can also be typed, or come from
\* the history of the browser.
Links ==
  IF ~Hosted THEN Routes
  ELSE {Overview} \cup CASE route.view = "overview" -> OverviewLinks
                         [] route.view = "project"  -> ProjectLinks
                         [] route.view = "service"  -> ServiceLinks

\* Fault: the calls of the page left behind are not aborted.
VisitLeaving(r) ==
  /\ r # route /\ visits < MaxVisits
  /\ r \in Links
  /\ visits' = visits + 1 /\ route' = r
  /\ page' = IF r.view # route.view THEN EmptyPage ELSE page
  /\ calls' = (IF r.view # route.view THEN <<>> ELSE calls) \o FirstCalls(r)
  /\ UNCHANGED <<viewVars, site>>

\* navigate, and the effects it sets off.  Between two pages of one kind the view keeps its
\* state; its calls are aborted, which an events call takes for a failure.  (An answer that comes
\* between the click and the abort might as well have come before the click.)
Visit(r) ==
  /\ r # route /\ visits < MaxVisits
  /\ r \in Links
  /\ visits' = visits + 1 /\ route' = r
  /\ page' = IF r.view # route.view THEN EmptyPage
             ELSE IF Waits("events") THEN [page EXCEPT !.history = <<>>] ELSE page
  /\ calls' = FirstCalls(r)
  /\ UNCHANGED <<viewVars, site>>

Poll ==
  /\ Len(calls) < MaxCalls /\ PolledCalls # <<>>
  /\ calls' = calls \o PolledCalls
  /\ UNCHANGED <<viewVars, site, route, page, visits>>

----------------------------------------------------------------------------
(***************************************************************************)
(* The network.                                                            *)
(***************************************************************************)
Serve(i) ==
  /\ calls[i].answer = Pending
  /\ calls' = [calls EXCEPT ![i].answer = IF daemon.up THEN Answer(calls[i]) ELSE Failed]
  /\ UNCHANGED <<viewVars, site, route, page, visits>>

\* Fault: an answer clears no error.
ServiceAnsweredKeepingError(c) ==
  IF c.answer.state = "ok" THEN [page EXCEPT !.detail = [id |-> c.id, rev |-> c.answer.rev]]
  ELSE [page EXCEPT !.error = TRUE]

\* setDetail and setError of ServiceView.
ServiceAnswered(c) ==
  IF c.answer.state = "ok"
  THEN [page EXCEPT !.detail = [id |-> c.id, rev |-> c.answer.rev], !.error = FALSE]
  ELSE [page EXCEPT !.error = TRUE]

\* setHistory of ProjectView: a failure is an empty history.
EventsAnswered(c) == [page EXCEPT !.history = c.answer.events, !.heard = c.answer.at]

\* setSamples and setPolled keep what they have when a call fails.
OthersAnswered(c) ==
  IF c.answer.state # "ok" THEN page
  ELSE IF c.what = "project" THEN [page EXCEPT !.samples = c.answer.at]
  ELSE [page EXCEPT !.polled = c.answer.at]

\* The answers come in any order.
Deliver(i) ==
  LET c == calls[i] IN
  /\ c.answer # Pending
  /\ page' = CASE c.what = "service" -> ServiceAnswered(c)
               [] c.what = "events"  -> EventsAnswered(c)
               [] OTHER              -> OthersAnswered(c)
  /\ calls' = RemoveAt(calls, i)
  /\ UNCHANGED <<viewVars, site, route, visits>>

----------------------------------------------------------------------------
(***************************************************************************)
(* What is on the screen.                                                  *)
(***************************************************************************)
\* The strip of the machine: what was polled has precedence over the snapshot's, and nothing
\* is drawn of neither.
HostStatus == IF page.polled = NoStatus THEN view.status ELSE page.polled
HostStrip == IF HostStatus = NoStatus THEN {} ELSE {HostStatus}

\* Overview: DaemonDown, the words of an EmptyState, or the cards.
OverviewShows ==
  CASE view.connection = "disconnected" -> "not running"
    [] view.connection # "disconnected" /\ view.projects = {} -> view.connection
    [] view.connection # "disconnected" /\ view.projects # {} -> "cards"

\* ProjectView of a project the view may not know.
ProjectShows(p) ==
  CASE p \in view.projects -> "project"
    [] p \notin view.projects /\ view.connection \in {"connecting", "reconnecting"} -> "loading"
    [] p \notin view.projects /\ view.connection \in {"connected", "disconnected"} -> "not running"

\* ServiceView: an error shows only as long as there is no detail, whose ever it is.
ServiceShows ==
  CASE page.detail # NoDetail -> "detail"
    [] page.detail = NoDetail /\ page.error -> "error"
    [] page.detail = NoDetail /\ ~page.error -> "loading"

\* The events of a project page: the live ones that carry the project, then those of its
\* history not among them.
Timeline ==
  LET mine == Picked(view.events, {i \in DOMAIN view.events : view.events[i].project = route.id})
      old  == Picked(page.history, {i \in DOMAIN page.history : page.history[i].id \notin Ids(mine)})
  IN FirstOf(mine \o old, TimelineLimit)

----------------------------------------------------------------------------
\* The view steps; the status effect of the overview follows the connection.
LiveStep(step) ==
  /\ step
  /\ calls' = IF route.view # "overview" \/ view'.connection = view.connection THEN calls
              ELSE StatusCalls(view'.connection)
  /\ UNCHANGED <<site, route, page, visits>>

DemoView == [EmptyView EXCEPT !.connection = "connected", !.status = 0, !.projects = {DEMO_PROJECT},
                              !.services = DEMO_SERVICES, !.connections = <<DEMO_CONNECTION>>,
                              !.events = Reverse(DEMO_EVENTS)]

\* The effect of DaemonProvider connects, unless the page is a demo.
DashInit ==
  /\ site \in [flag : BOOLEAN, loopback : BOOLEAN]
  /\ IF Hosted THEN /\ socket = "none" /\ view = DemoView
                    /\ daemon = Blank(FALSE)
                    /\ tick = 0 /\ minted = 0 /\ link = "none" /\ channel = <<>> /\ since = 0
                    /\ attempt = 0 /\ faults = 0
               ELSE ViewInit
  /\ route \in IF Hosted THEN {Overview} ELSE Routes
  /\ page = EmptyPage /\ visits = 0
  /\ calls = FirstCalls(route)

Page ==
  \/ \E r \in Routes : Visit(r)
  \/ Poll
  \/ \E i \in DOMAIN calls : Serve(i)
  \/ \E i \in DOMAIN calls : Deliver(i)

DashNext == (~Hosted /\ LiveStep(Daemon \/ Provider)) \/ Page

DashSpec == DashInit /\ [][DashNext]_dashVars

----------------------------------------------------------------------------
(***************************************************************************)
(* Properties.                                                             *)
(***************************************************************************)
\* The frames a build of the dashboard understands, by the fields it reads of them.
IsFrame(f) ==
  LET Fields(S) == DOMAIN f = {"type"} \cup S IN
  CASE f.type = "snapshot"         -> Fields({"at", "projects", "services", "connections", "warnings"})
    [] f.type = "events"           -> Fields({"events"})
    [] f.type = "services_changed" -> Fields({"services", "removed"})
    [] OTHER                       -> /\ f.type \in {"topology_changed", "warnings_changed"}
                                      /\ Fields({"added", "removed"})

\* Type invariant: no call is left over from another page, so that there are never more than
\* the effects and the interval of this page have made, and no frame is one that is ignored.
DashTypeOK ==
  /\ site \in [flag : BOOLEAN, loopback : BOOLEAN]
  /\ route \in Routes /\ visits \in 0..MaxVisits
  /\ page.detail.id \in Service \cup {"none"} /\ page.error \in BOOLEAN
  /\ {page.samples, page.polled} \subseteq NoStatus..tick /\ page.heard \in 0..minted
  /\ Len(calls) <= MaxCalls + 1 /\ (Hosted => Pending \notin {calls[i].answer : i \in DOMAIN calls})
  /\ \A i \in DOMAIN channel : IsFrame(channel[i])

\* The inspector owes an explanation for what it shows: a page that says "Loading" has a call
\* under way, and one that shows another service than the one in its path has the right one
\* under way or knows that it failed.  No late answer of the page left behind undoes this.
InspectorIsExplained ==
  route.view = "service" /\ page.detail.id # route.id =>
    /\ Waits("service") \/ page.error
    /\ ServiceShows = "loading" => Waits("service")
    /\ \A i \in DOMAIN calls : calls[i].id = route.id

\* The history was heard on this connection, of this daemon, and the buffer has not overflowed
\* since, nor has it anything of an earlier connection; nothing is on its way.
UpToDate ==
  /\ link = "live" /\ channel = <<>> /\ page.heard >= since
  /\ ToSet(page.history) \subseteq ToSet(daemon.log) /\ minted - page.heard <= EVENT_BUFFER
  /\ \A i \in DOMAIN view.events : view.events[i].id > since

Own(q) == Picked(q, {i \in DOMAIN q : q[i].project = route.id})

\* The project, or a service that is or was in it.
Concerns(e, p) == e.project = p \/ \E s \in e.about, rev \in 1..MaxTicks : HomeOf[s][rev] = p

\* The timeline of a project whose history has been answered has no event of the page left
\* behind and none twice; and if it is up to date, the events that carry the project are in it
\* in order and without a hole, as many as there are or as there is room for.  What the history
\* would have as well if it were answered now, events about a service of the project that do
\* not carry it, is all that can be missing.
TimelineHasNoHole ==
  ~Hosted /\ route.view = "project" /\ ~Waits("events") =>
    /\ \A i \in DOMAIN Timeline : Concerns(Timeline[i], route.id)
    /\ Cardinality(Ids(Timeline)) = Len(Timeline)
    /\ UpToDate => LET all == Own(Reverse(daemon.log)) IN
         /\ Own(Timeline) = FirstOf(all, Len(Own(Timeline)))
         /\ Len(Timeline) < TimelineLimit => Own(Timeline) = all

\* The hosted demo answers itself: it opens no socket, waits for no daemon, has no page that
\* fails and no link a static host could not serve again, and the timeline of its project has
\* its events once each, although they come both live and as history.
DemoIsClosed ==
  Hosted =>
    /\ socket = "none" /\ view = DemoView /\ ~page.error
    /\ \A i \in DOMAIN calls : calls[i].answer.state = "ok"
    /\ (CASE route.view = "overview" -> <<>>
          [] route.view = "project"  -> <<"projects", route.id>>
          [] route.view = "service"  -> <<"services", route.id>>) \in StaticSlugs
    /\ route.view = "project" => ProjectShows(route.id) = "project"
    /\ route.view = "project" => Timeline = FirstOf(DEMO_PROJECT_DETAIL.events, TimelineLimit)

\* Once a daemon stays up, the dashboard gets back to it from any state, "disconnected"
\* included, without being loaded again, and then shows what the daemon knows, but for the
\* projects that came or went since its last snapshot.
LiveViewCatchesUp == <>[]daemon.up => <>[]Shows

\* What a page fetches itself catches up too, although answers overtake each other: the
\* inspector ends with its service as it is, or with the error that it is gone, and the charts
\* of a project and the strip of the machine with the last tick.
Settled ==
  CASE route.view = "overview" ->
         view.connection = "connected" => HostStrip = {tick} /\ OverviewShows \in {"connected", "cards"}
    [] route.view = "project"  -> route.id \in KnownProjects => page.samples = tick
    [] route.view = "service"  ->
         IF daemon.rev[route.id] = 0 THEN page.error
         ELSE ~page.error /\ page.detail = [id |-> route.id, rev |-> daemon.rev[route.id]]

PagesSettle == <>[]daemon.up => <>[]Settled

(***************************************************************************)
(* What a page promises and the code does not do.                          *)
(***************************************************************************)

\* "Start a dev server inside a git repository and it will appear here within a second": no
\* frame but a snapshot has projects, and nothing asks for another.
OverviewCatchesUp == <>[]daemon.up => <>[](view.projects = KnownProjects)
=============================================================================
