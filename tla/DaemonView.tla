------------------------------ MODULE DaemonView ------------------------------
(***************************************************************************)
(* What the dashboard holds of its daemon: DaemonProvider and `reduce` of  *)
(* apps/web/lib/daemon.tsx, over the five frames of state.rs.              *)
(*                                                                         *)
(* LiveUpdates shows that what is on its way to a dashboard has the last   *)
(* word on every service.  This module takes the channel as a sequence     *)
(* and asks what a dashboard makes of it: its lists of services,           *)
(* connections, warnings and events, and what its badge says meanwhile.    *)
(*                                                                         *)
(* Abstractions.  A service is an id and a revision, the tick of its last  *)
(* change; its project is that of the revision, so that a container moves  *)
(* or is grouped late.  There is one possible connection and one possible  *)
(* warning: two of a kind pass through a frame without touching.  A tick   *)
(* changes one service, and the connection or not.  The daemon keeps no    *)
(* database (--no-persistence): one that comes back knows nothing.         *)
(***************************************************************************)
EXTENDS Integers, Sequences, FiniteSets, SequencesExt

CONSTANTS
  Service,      \* ids of services
  Project,      \* ids of projects
  NoProject,    \* null, of a project id
  HomeOf,       \* the project of each service in each revision
  Caller,       \* the service at the source of the connection
  EVENT_BUFFER, \* events kept for the timeline
  BackoffSteps, \* the length of BACKOFF
  MaxTicks,     \* bound of the model
  MaxFaults     \* bound of the model: connections lost and daemons stopped

ASSUME ServiceAssumption == IsFiniteSet(Service) /\ Caller \in Service /\ NoProject \notin Project
ASSUME HomeAssumption == HomeOf \in [Service -> [1..MaxTicks -> Project \cup {NoProject}]]
ASSUME LimitAssumption ==
  EVENT_BUFFER \in Nat /\ BackoffSteps \in Nat \ {0} /\ MaxTicks \in Nat /\ MaxFaults \in Nat

VARIABLES
  daemon,   \* what the daemon knows, and whether it is up
  tick,     \* ticks so far
  minted,   \* events so far; also the id of the newest
  link,     \* the daemon's end: "none", "subscribed" (its snapshot not sent), "live" or "lost"
  channel,  \* frames on their way to the dashboard
  since,    \* the newest event when the connection was subscribed
  socket,   \* the dashboard's end: "none" (hosted demo), "opening", "open" or "waiting"
  attempt,  \* closes since the last open
  view,     \* DaemonView
  faults    \* how often MaxFaults was drawn on

worldVars == <<daemon, tick, minted>>
wireVars == <<link, channel, since, socket, attempt, faults>>
viewVars == <<worldVars, wireVars, view>>

\* The newest n of a sequence that has its newest first.
FirstOf(q, n) == SubSeq(q, 1, IF Len(q) < n THEN Len(q) ELSE n)

\* filter: the elements of q at the places of K, in their order.  (Said of places because proofs
\* need it: they cannot expand SelectSeq.)
Picked(q, K) == [n \in 1..Cardinality(K) |-> q[CHOOSE k \in K : Cardinality({j \in K : j <= k}) = n]]

----------------------------------------------------------------------------
(***************************************************************************)
(* The daemon.                                                             *)
(***************************************************************************)
Present == {s \in Service : daemon.rev[s] # 0}
Home(s) == HomeOf[s][daemon.rev[s]]
KnownProjects == {Home(s) : s \in Present} \ {NoProject}

Blank(up) == [up |-> up, rev |-> [s \in Service |-> 0], linked |-> FALSE, warned |-> FALSE, log |-> <<>>]

\* EventFilter::matches: an event is of its project, and of the one its service is in now.
Matches(e, p) == e.project = p \/ \E s \in e.about \cap Present : Home(s) = p

\* recent_events of a project, newest first.
Recent(log, p) == Reverse(Picked(log, {i \in DOMAIN log : Matches(log[i], p)}))

Listed(S) == SetToSeq(S)

Snapshot == [type |-> "snapshot", at |-> tick, projects |-> KnownProjects,
             services |-> [i \in DOMAIN Listed(Present) |->
                             [id |-> Listed(Present)[i], rev |-> daemon.rev[Listed(Present)[i]]]],
             connections |-> IF daemon.linked THEN <<"call">> ELSE <<>>,
             warnings |-> IF daemon.warned THEN <<"warning">> ELSE <<>>]

Changed(type, was, is, id) ==
  IF was = is THEN <<>>
  ELSE <<[type |-> type, added |-> IF is THEN <<id>> ELSE <<>>, removed |-> IF is THEN {} ELSE {id}]>>

\* The events of a tick in which s got a new revision or is gone: one about s, which has no
\* project when s is evicted, and the connection, which has none either.
TickEvents(s, gone, linked) ==
  <<[id |-> minted + 1, about |-> {s}, project |-> IF gone THEN NoProject ELSE HomeOf[s][tick + 1]]>>
  \o (IF linked = daemon.linked THEN <<>>
      ELSE <<[id |-> minted + 2, about |-> IF linked THEN {Caller} ELSE {}, project |-> NoProject]>>)

\* The frames of that tick, in the order of apply_tick.
TickFrames(s, gone, linked, warned) ==
  <<[type |-> "services_changed", removed |-> IF gone THEN {s} ELSE {},
     services |-> IF gone THEN <<>> ELSE <<[id |-> s, rev |-> tick + 1]>>]>>
  \o Changed("topology_changed", daemon.linked, linked, "call")
  \o <<[type |-> "events", events |-> TickEvents(s, gone, linked)]>>
  \o Changed("warnings_changed", daemon.warned, warned, "warning")

Tick(s, gone, linked, warned) ==
  /\ daemon.up /\ tick < MaxTicks
  /\ gone => daemon.rev[s] # 0
  /\ linked => IF s = Caller THEN ~gone ELSE Caller \in Present
  /\ tick' = tick + 1 /\ minted' = minted + Len(TickEvents(s, gone, linked))
  /\ daemon' = [daemon EXCEPT !.rev[s] = IF gone THEN 0 ELSE tick', !.linked = linked,
                              !.warned = warned,
                              !.log = @ \o TickEvents(s, gone, linked)]
  /\ channel' = IF link \in {"subscribed", "live"}
                THEN channel \o TickFrames(s, gone, linked, warned) ELSE channel
  /\ UNCHANGED <<link, since, socket, attempt, view, faults>>

\* ws::serve subscribes; the frames that come from then on queue up behind its snapshot.
Accept ==
  /\ daemon.up /\ socket = "opening" /\ link = "none"
  /\ link' = "subscribed" /\ since' = minted
  /\ UNCHANGED <<worldVars, channel, socket, attempt, view, faults>>

\* Frames older than the snapshot follow it.
SendSnapshot ==
  /\ link = "subscribed"
  /\ link' = "live" /\ channel' = <<Snapshot>> \o channel
  /\ UNCHANGED <<worldVars, since, socket, attempt, view, faults>>

LoseLink ==
  /\ channel' = <<>>
  /\ link' = IF link \in {"subscribed", "live"} THEN "lost" ELSE link

BreakConnection ==
  /\ faults < MaxFaults /\ link \in {"subscribed", "live"}
  /\ faults' = faults + 1
  /\ LoseLink
  /\ UNCHANGED <<worldVars, since, socket, attempt, view>>

StopDaemon ==
  /\ faults < MaxFaults /\ daemon.up
  /\ faults' = faults + 1
  /\ daemon' = Blank(FALSE)
  /\ LoseLink
  /\ UNCHANGED <<tick, minted, since, socket, attempt, view>>

StartDaemon ==
  /\ ~daemon.up
  /\ daemon' = [daemon EXCEPT !.up = TRUE]
  /\ UNCHANGED <<tick, minted, wireVars, view>>

----------------------------------------------------------------------------
(***************************************************************************)
(* reduce.                                                                 *)
(***************************************************************************)
Ids(q) == {q[i].id : i \in DOMAIN q}

\* Fault: a service that is not new is added as well as replaced.
ReduceServicesTwice(v, f) ==
  LET Kept(s) == s.id \notin f.removed
  IN [v EXCEPT !.services = SelectSeq(@, Kept) \o f.services]

\* services_changed: a changed service keeps its place, a new one comes last.
ReduceServices(v, f) ==
  LET kept     == Picked(v.services, {i \in DOMAIN v.services : v.services[i].id \notin f.removed})
      new      == Picked(f.services, {i \in DOMAIN f.services : f.services[i].id \notin Ids(v.services)})
      Newer(s) == IF s.id \in Ids(f.services)
                  THEN f.services[CHOOSE i \in DOMAIN f.services : f.services[i].id = s.id] ELSE s
  IN [v EXCEPT !.services = [i \in DOMAIN kept |-> Newer(kept[i])] \o new]

Without(q, f) == Picked(q, {i \in DOMAIN q : q[i] \notin f.removed \cup ToSet(f.added)})

\* Fault: events are appended as they come.
ReduceEventsLast(v, f) == [v EXCEPT !.events = FirstOf(@ \o f.events, EVENT_BUFFER)]

\* events: the buffer has the newest first.
ReduceEvents(v, f) == [v EXCEPT !.events = FirstOf(Reverse(f.events) \o @, EVENT_BUFFER)]

ReduceSnapshot(v, f) ==
  [v EXCEPT !.connection = "connected", !.status = f.at, !.projects = f.projects,
            !.services = f.services, !.connections = f.connections, !.warnings = f.warnings]

Reduce(v, f) ==
  CASE f.type = "snapshot"         -> ReduceSnapshot(v, f)
    [] f.type = "services_changed" -> ReduceServices(v, f)
    [] f.type = "topology_changed" -> [v EXCEPT !.connections = Without(@, f) \o f.added]
    [] f.type = "warnings_changed" -> [v EXCEPT !.warnings = f.added \o Without(@, f)]
    [] f.type = "events"           -> ReduceEvents(v, f)

----------------------------------------------------------------------------
(***************************************************************************)
(* DaemonProvider.                                                         *)
(***************************************************************************)
NoStatus == -1

EmptyView == [connection |-> "connecting", reconnects |-> 0, status |-> NoStatus, projects |-> {},
              services |-> <<>>, connections |-> <<>>, warnings |-> <<>>, events |-> <<>>]

\* Fault: the attempts are not forgotten when one succeeds.
OnOpenCountingOn ==
  /\ socket = "opening" /\ link \in {"subscribed", "live"}
  /\ socket' = "open"
  /\ view' = [view EXCEPT !.connection = "connected"]
  /\ UNCHANGED <<worldVars, link, channel, since, attempt, faults>>

OnOpen ==
  /\ socket = "opening" /\ link \in {"subscribed", "live"}
  /\ socket' = "open" /\ attempt' = 0
  /\ view' = [view EXCEPT !.connection = "connected"]
  /\ UNCHANGED <<worldVars, link, channel, since, faults>>

OnMessage ==
  /\ socket = "open" /\ link = "live" /\ channel # <<>>
  /\ view' = Reduce(view, Head(channel))
  /\ channel' = Tail(channel)
  /\ UNCHANGED <<worldVars, link, since, socket, attempt, faults>>

\* The socket is closed, or was never accepted because there is no daemon.
Closed == link = "lost" \/ (link = "none" /\ ~daemon.up)

\* attempt, counted no further than it is told apart.
NextAttempt == IF attempt <= BackoffSteps THEN attempt + 1 ELSE attempt

\* Fault: after the last step of the backoff no timer is set.
OnCloseForGood ==
  /\ socket \in {"opening", "open"} /\ Closed
  /\ link' = "none" /\ channel' = <<>>
  /\ attempt' = NextAttempt
  /\ socket' = IF attempt' > BackoffSteps THEN "none" ELSE "waiting"
  /\ view' = [view EXCEPT
       !.connection = IF attempt' > BackoffSteps THEN "disconnected" ELSE "reconnecting",
       !.reconnects = @ + (IF attempt' = 1 THEN 1 ELSE 0)]
  /\ UNCHANGED <<worldVars, since, faults>>

OnClose ==
  /\ socket \in {"opening", "open"} /\ Closed
  /\ socket' = "waiting" /\ link' = "none" /\ channel' = <<>>
  /\ attempt' = NextAttempt
  /\ view' = [view EXCEPT
       !.connection = IF attempt' > BackoffSteps THEN "disconnected" ELSE "reconnecting",
       !.reconnects = @ + (IF attempt' = 1 THEN 1 ELSE 0)]
  /\ UNCHANGED <<worldVars, since, faults>>

\* The timer of the backoff runs out.
Reconnect ==
  /\ socket = "waiting"
  /\ socket' = "opening"
  /\ UNCHANGED <<worldVars, link, channel, since, attempt, view, faults>>

\* ConnectionBadge: its text, with the reconnects from the second on, and whether it has a
\* button to refresh.
Badge == [text |-> view.connection, reconnects |-> IF view.reconnects > 1 THEN view.reconnects ELSE 0,
          refresh |-> view.connection = "connected"]

\* The button of the badge.  The daemon answers with a snapshot before, between or after the
\* frames it has not sent yet.
Resnapshot ==
  /\ socket = "open" /\ link = "live" /\ Badge.refresh
  /\ ~ \E i \in DOMAIN channel : channel[i].type = "snapshot"
  /\ \E i \in 1..(Len(channel) + 1) : channel' = InsertAt(channel, i, Snapshot)
  /\ UNCHANGED <<worldVars, link, since, socket, attempt, view, faults>>

ViewInit ==
  /\ \E up \in BOOLEAN : daemon = Blank(up)
  /\ tick = 0 /\ minted = 0 /\ link = "none" /\ channel = <<>> /\ since = 0 /\ attempt = 0 /\ faults = 0
  /\ socket = "opening" /\ view = EmptyView

Daemon ==
  \/ \E s \in Service, gone, linked, warned \in BOOLEAN : Tick(s, gone, linked, warned)
  \/ Accept \/ SendSnapshot \/ BreakConnection \/ StopDaemon \/ StartDaemon

Provider == OnOpen \/ OnMessage \/ OnClose \/ Reconnect \/ Resnapshot

ViewSpec == ViewInit /\ [][Daemon \/ Provider]_viewVars

\* useProjectServices, without its order.
ProjectServices(p) ==
  {s.id : s \in {s \in ToSet(view.services) : HomeOf[s.id][s.rev] = p}}

----------------------------------------------------------------------------
(***************************************************************************)
(* Properties.                                                             *)
(***************************************************************************)
\* The badge is honest.  It says connected exactly while the socket is open; it does not give
\* up on a daemon before it has said that it tries to get it back, whatever was lost before;
\* having given up it hopes again only when it is connected; and it counts what was lost, not
\* the attempts to get it back (a first attempt that fails is one of them).
BadgeIsHonest ==
  [][socket' # "none" =>
       /\ Badge'.text = "connected" <=> socket' = "open"
       /\ Badge'.text = "disconnected" => Badge.text \in {"reconnecting", "disconnected"}
       /\ Badge.text = "disconnected" => Badge'.text \in {"connected", "disconnected"}
       /\ Badge'.reconnects <= faults' + 1
    ]_viewVars

Tables(v) == [services |-> ToSet(v.services), connections |-> ToSet(v.connections),
              warnings |-> ToSet(v.warnings)]

NoneTwice(v) ==
  /\ Cardinality(Ids(v.services)) = Len(v.services)
  /\ Cardinality(ToSet(v.connections)) = Len(v.connections)
  /\ Cardinality(ToSet(v.warnings)) = Len(v.warnings)

\* The view after each frame of the channel.
ViewAfter[n \in 0..Len(channel)] == IF n = 0 THEN view ELSE Reduce(ViewAfter[n - 1], channel[n])

\* A dashboard that reads all of its channel has the daemon's services, connections and
\* warnings, with nothing listed twice at any time, whatever part of the frames its snapshot
\* already knew, and however often it asked for another.
TablesReplay ==
  /\ NoneTwice(view)
  /\ socket # "none" /\ link = "live" => Tables(ViewAfter[Len(channel)]) = Tables(Snapshot)

\* The buffer of events is newest first, each event once, and without a hole where the newest
\* connection has filled it: nothing between two events since it was subscribed is missing.
FeedInOrder ==
  socket # "none" =>
    /\ Len(view.events) <= EVENT_BUFFER
    /\ \A i \in 1..(Len(view.events) - 1) :
         /\ view.events[i].id > view.events[i + 1].id
         /\ view.events[i + 1].id > since => view.events[i].id = view.events[i + 1].id + 1

\* The dashboard is connected and shows the services, connections and warnings the daemon knows.
\* Its projects are those of the last snapshot, which no other frame corrects: it lacks a
\* project only if every service of it came there later, and has one too many only if there
\* was a tick since.
Shows ==
  /\ view.connection = "connected" /\ Tables(view) = Tables(Snapshot)
  /\ \A p \in Project : ProjectServices(p) = {s \in Present : Home(s) = p}
  /\ \A s \in Present : daemon.rev[s] <= view.status => Home(s) \in view.projects \cup {NoProject}
  /\ view.projects \subseteq KnownProjects \/ view.status < tick
=============================================================================
