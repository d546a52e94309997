# Runscape in TLA+

Runscape (`runscape serve`) watches the processes, sockets and containers of a
developer's machine once a second, turns them into logical services, and tells
a browser dashboard and an SQLite file what changed. It is one operating system
process with a handful of tokio tasks, a writer thread, and any number of
dashboards behind WebSockets. This directory models the part of it that
decides: what a tick does to the services, what is told to whom, what a
dashboard ends up believing, and what its pages make of it.

Paths below are relative to `src/`. `registry.rs` is
`crates/runscape-core/src/registry.rs`, `daemon.tsx` is
`apps/web/lib/daemon.tsx`, and so on.

## Inventory

| Component | State | Operations | Talks to | What is hard | What makes it correct |
|---|---|---|---|---|---|
| Service registry (`registry.rs`) | services by id, with restart timestamps | `apply` (fold, insert, update, stop, evict) | called by the snapshot loop, returns a `RegistryDelta` | long sequences of observe, stop, restart, evict; clocks that step back; caps | health, instances and ports agree; retention is bounded and keeps outages; the delta tells the whole change |
| Event deriver (`runscape-events/lib.rs`) | pending stops, announced projects, id sequence | `derive`, `announce_project`, `file_changed` | consumes the delta, feeds ring, store and frames | stop, start and window race; flush order; evicted services | the event log can be replayed; no stop withheld for long |
| Snapshot loop (`daemon.rs`, `snapshot.rs`) | project memory, idle count, persisted projects | one tick: collect, group, apply, derive, apply_tick, persist, publish | everything | two calls of `remember_projects` per tick; idle stretching; partial failure of collectors | a project is known while it has a service |
| Application state (`state.rs`) | `RuntimeView` behind a lock, broadcast channel, event ring | `apply_tick`, `restore`, `publish`, `subscribe`, `snapshot_frame` | socket tasks, HTTP handlers | the view changes before its frames are broadcast | a snapshot and the frames after it add up to the view |
| Socket task (`ws.rs`) | a broadcast receiver, a socket | `serve`: snapshot, forward, resnapshot, drop on lag | dashboard | subscribe before snapshot, lag, slow clients | bounded memory, no hole is shown as the truth |
| Dashboard data layer (`daemon.tsx`) | its copy of the view, backoff | `connect`, `reduce`, `resnapshot` | socket task | lost sockets, restarted daemon, five kinds of frames over a snapshot that may know them | converges to the daemon's view; nothing twice; an honest badge |
| Pages, routes, API client (`DashboardApp.tsx`, `views/*`, `api.ts`, `route.ts`) | route, detail, error, history, samples, status | `navigate`, first and polled calls, answers, aborts | data layer, HTTP API | answers that overtake each other or come for the page left behind | no page shows something it owes an explanation for; a timeline without holes |
| Timeline and context panel (`Timeline.tsx`) | the open event, a panel, its fetch | click, relist, answer | API | the list moves under an open panel | a panel is its event's |
| Topology picture (`ServiceGraph.tsx`) | none; a loop | `layout`, drawing | data layer | order of connections, cycles | columns are longest paths; boxes apart and on the canvas |
| Charts (`SeriesChart.tsx`, `sparkline.ts`) | width, pointer | resize, pointer, samples | pages | three clocks | the marked sample exists and is the one under the pointer |
| Project cards (`ProjectCard.tsx`, `Overview.tsx`, `attribution.rs`) | none | ranking, sums, bar | both sides of the wire | two sides filter and add up | the bar adds up; cards keep their places |
| Labels (`format.ts`) | none | `ago`, `bytes` | all pages | rounding at a change of unit | a later time never reads as an earlier one |
| Hosted demo (`demo.ts`) | fixtures | `demoGet`, exported paths | pages | four lists kept by hand | no page needs a daemon or fails |
| Warning engine (`warnings.rs`), event ring (`state.rs`) | active warnings | `evaluate` | view and frames | rules over a window cut out of a ring; restored warnings | a warning is active exactly while its rule holds |
| Persistence writer (`persistence.rs`) | bounded queue, drop counter | `write`, `retention`, `apply`, `restore` | store | full queue, failing row groups, crash | what is lost is one tick's history and nothing later depends on it |
| Store (`runscape-storage`) | SQLite tables with foreign keys | upserts, appends, retention, migrations | writer | order of parents and children, migration interrupted | bounded tables, repeatable writes |
| Topology builder (`topology.rs`) | current edges | `observe` | delta to events and frames | shared ports, containers, gone services | each edge added and removed once |
| Grouping and identity (`grouping.rs`, `identity.rs`, `service_filter.rs`) | none | `group`, fingerprints | registry ids | parent inheritance | stable ids |
| File watcher (`watcher.rs`, `correlation.rs`) | watched roots, channel | `sync_roots`, `drain` | loop | roots that come and go, bounded drain | no event of an unwatched project |
| Docker collector, host collectors | none worth a model | I/O | loop | errors | a failure costs its own data only |
| HTTP API | none | reads the view | pages | - | - |
| CLI | none | requests and prints | HTTP API | - | - |

Hazards are listed at their lines in `PROJECT.json`, each with the properties
that would catch it or with the reason why none does yet.

## Modules

    ServiceRegistry            apply and its delta
      EventDeriver             EXTENDS it: a tick is apply, then derive on the delta
        Persistence            EXTENDS EventDeriver: project memory, ring, queue, writer, file
      LiveUpdates              EXTENDS ServiceRegistry: tick, broadcast, socket task, dashboard
    TickHistory                what Persistence promises, and is shown to implement
    WarningEngine              the rules, their window and history, what is shown and kept
    DaemonView                 the five frames of a tick, the provider and reduce
    Demo                       the fixtures of the hosted demo
      Dashboard                EXTENDS both: routes, pages, calls and answers
    GraphLayout                the topology picture: the loop of layout, boxes and arrows
    SeriesChart                a chart: samples, width and pointer
    ProjectCard                summaries, ranking, cards
    Labels                     ago and bytes
    ContextPanel               the panel under an event
    ServiceRegistryProofs, EventDeriverProofs, LiveUpdatesProofs, PersistenceProofs,
    DashboardProofs, WarningEngineProofs, ContextPanelProofs
                               theorems of the module each is named after
    PictureProofs              theorems of GraphLayout, SeriesChart, ProjectCard and Labels
    MCServiceRegistry, MCEventDeriver, MCLiveUpdates, MCPersistence, MCDashboard,
    MCComponents               their instances for TLC

**ServiceRegistry.** `reg` is the map `services` (`NoEntry` where there is no
key), `delta` the `RegistryDelta` of the last call and `now` the time it was
given. `Apply(batch, at)` is the whole of `apply`: `Reconciled` is its observe
loop and its stop loop (`Insert`, `Update`, `Stop`), `EvictStopped` the two
passes of `evict_stopped`, and `Changes` what the call pushed into the delta. A
batch is any set of services with any folded observation: processes appear,
disappear, swap PIDs and ports between ticks as far as the identity of a service
lets them. The id is a hash of the fingerprint (`identity.rs`), so what is in
the fingerprint never changes under one id: whether it is a container
(`Container`), and for a host service its project (`HomeProject`) and primary
port (`PrimaryPort`, the lowest it listens on, `snapshot.rs:289`). A host worker
that starts to listen is therefore another service. A process counts for one
service, so the PIDs of two services are disjoint. A container has no PIDs and
may publish any ports. `Health::Unknown` is never assigned by the registry.

**EventDeriver.** `pending` is `pending_stop` and `emitted` the result of the
last `derive`. The events of one service keep their order (`life`), those of
different services are not related: no reader of the log relates them by
position. A tick is `Apply` followed by `Derive` because the loop calls the two
without an await in between and no other task reads the result before.

**LiveUpdates.** The view is `ViewOf(reg)`: `apply_tick` copies the services of
the registry into it under the write lock, so a reader never sees a part of a
tick. `outbox` is `AppliedTick::frames` between that lock and `publish`. One
client (`conn`, `queue`, `lagged`, `asked`, `wire`, `shown`) is enough because
sockets share only the channel, and the channel keeps a cursor for each
receiver. A frame is a function from the services it mentions to what it says
of them. A frame the socket task has taken and cannot send yet is the last of
`wire`, and `HasRoom` says there is none: the task is a sequential loop and
does nothing else while a send waits. `Publish` models tokio's broadcast ring:
on overrun the receiver's next `recv` is `Lagged`, and `serve` closes.
`RestartDaemon` is a kill at any point followed by `Daemon::bind`, which does
not restore services.

**Persistence.** `projects` is `SnapshotLoop::projects`; `introduced` stands
for two sets that always agree while there is a database, the announced
projects of the deriver and `persisted_projects` of the loop. `queue` is the
channel of `TickWrite`s, `writing` what the writer thread has still to store of
the one it took, `dropped` its counter, `stored` the tables `projects`,
`services` and `events`, and `ring` the events of the view. `PersistTick` is one
round of the loop from `snapshot.tick()` to `persistence.write`: the loop is
one sequential task, and the writer shares nothing with it but the channel. It
first remembers the projects grouping saw (`seen`: those of the host services,
and of processes that are no service), and if the container runtime answered,
those of the containers, both against the registry of the tick before; then
`Tick`, then the write. `TakeWrite`, `StoreProject`, `StoreService` and
`StoreEvents` are the writer thread, one row or one transaction a step, in the
order of `apply`; a row whose project has no row is refused by the foreign key
and given up. `Crash` is a kill between any two of these steps and the next
`Daemon::bind`: a statement that was committed stays, as SQLite promises for the
death of the process (the loss of power with `synchronous = NORMAL` is not
modelled). What a tick derives is one event: such events have the time of the
tick, go into the ring one after the other and into the table in one transaction.
The file changes the tick takes from the watcher (`changes`, `daemon.rs:315-324`) are
events of their own. They come last, and have the time of the watcher's callback,
which is before the tick and may be several ticks before it, because `drain` takes
at most `MAX_FILE_EVENTS_PER_TICK` from a channel of 256. So the ring has an order of
arrival and the file one of time and id (`Earlier`), and the two differ on every clock. Of
a change's time only its place among the ticks matters, so it is that of the last
tick begun before it; `shown` has the times a waiting change may have, `Drains` is what
a tick may take (the channel is first in, first out, and may drop a change on the
way), `LeftBehind` what may still wait. Nothing waits once no project is watched:
`drain` discards what is under no root. Ids are taken to be unique. Samples have no
key that could fail; whether a tick has any decides only whether an otherwise empty
tick is written (`sampled`).

**TickHistory** is the promise without the machinery: a tick is accepted or
lost, accepted ticks are recorded in order and once, a crash loses what was
accepted and not recorded. `ImplementsHistory` is the refinement: `made` is
`ticks`, `accepted` the ticks with events in queue or hand, `recorded` those in
the table. Every row stored before the events is a stutter.

**WarningEngine.** A tick is `ApplyTick`: samples recorded and forgotten, events
pushed into the bounded ring, the window cut from it (`Window` is the
`take_while` from the newest event on), the five rules, and `Evaluate`, whose
differences go to the dashboard and into the table. `ring` has the restarts at the
time of their tick and file events at the time of the watcher, which is drained
when the tick has been collected: they can be later than the tick, or have waited for it
up to `Backlog`. A full channel of 256 empties in 13 ticks, so that what waits is at most some
65 seconds old, five seconds being the longest tick, and the restart window fits
between that and the window of events (`WindowAssumption`). A machine that sleeps
with changes in the channel is outside this assumption: until they are taken the
window is cut at the first of them, and a restart loop is not seen. `StartAgain` restores the rows
as warnings of the view, while the engine begins with none; rows are never
deleted. `Truth` is what the rules say over all events the ring has.

**DaemonView** takes up what *LiveUpdates* leaves out. There one service's values are
followed through bounded channels; here the channel is a plain sequence, and the
dashboard has its lists, in their order, as `reduce` keeps them: services, connections,
warnings, and the buffer of events with the newest in front. `TickFrames` are the frames
of one tick in the order of `apply_tick`. `OnOpen`, `OnMessage`, `OnClose`, `Reconnect`
and `Resnapshot` are the callbacks of the provider, with `attempt` counted as far as the
backoff tells it apart. A service is an id and a revision, its project that of the
revision (`HomeOf`), so that a container is grouped late or moves. There is one possible
connection, from `Caller`, and one possible warning. A tick has an event about its
service, without a project if that is evicted, and one about the connection if that
comes or goes (`TickEvents`), which never has a project: the events of one frame arrive
oldest first and are reversed. `minted` numbers them. `Matches` is
`EventFilter::matches` of the history: an event is of the project it carries and of the
one its service is in now. `Picked(q, K)` is what `filter` leaves of a list, its
elements at the places K in their order. The daemon has no database here, so that one
that comes back knows nothing; a status is the tick it is from.

**Dashboard** adds the user and the network. `route` is the page, `page` what its
view keeps in React state, `calls` the calls under way. A call is made with the
effect or interval that makes it, answered by the daemon as it is then (`Serve`;
or it fails), and delivered in any order. `Visit` is `navigate` with the effects it
sets off: the page it leaves aborts its calls, but two pages of one kind share the
state of their view, which is why an inspector can still show another service. React runs
the aborts some time after the click; an answer that comes in between finds the view
as it was and the same state to write to, as if it had come before the click, which is one of
the interleavings.
`LiveStep` makes the frames and the status effect of the overview one step.
`site` says where the page is served: `Hosted` is `isDemoMode`, and then no socket
is opened and calls are answered by fixtures at once. **Demo** has the fixtures by
their ids and what they refer to.

**GraphLayout** is one call of `layout`. Its relaxation loop takes one connection
a step (`Relax`) and ends a pass when it has seen all (`EndPass`); columns, rows
and boxes are operators on the columns the loop ends with, in pixels. Services
are numbered in name order, the only thing the code reads of a name. What
`topology.rs` promises is used and no more: no service calls itself.

**SeriesChart** has the samples of a poll, the width the `ResizeObserver` saw last
and the pointer as a fraction of the plot, which changes at different times.
**ProjectCard** has the sums on the daemon's side and the bar on the dashboard's;
`InOrder(S, R)` is what `sort_by` and `sort` make of a set, and the fields of two
services with one name are taken to be in one order on both sides.
**Labels** gives a label as the quantity it names. **ContextPanel** numbers the
instances of the panel: React keeps one as long as its key and its place stay, and
what an answer may write to is decided by the instance that asked.

## Runs

| Run | Configuration | Shows |
|---|---|---|
| `registry` | a portless worker, a listener and a container, two PIDs, one port, clock steps -1 and +1, threshold 2, cap 1, retention and window 0 | `TypeOK`, `StoppedIsEmpty`, `RetentionBounded`, `DeltaReplays`, `OutagesAreKept` |
| `crash_loop` | one host service, threshold 3 as in the source | violated: a crash loop seen as stop and start is never degraded |
| `loop_clears` | the same with a short window | violated: the degraded signal does not clear |
| `events` | a host service and a container, window 2, clock steps -1, 1, 3 | `DeriverTypeOK`, `PendingIsShort`, `LogReplays`, `RestartsAreTold` |
| `live` | a host service and a container, two PIDs, one port, queue 1, wire 1, one fault, three ticks | `LiveTypeOK`, `LastWordIsRight`, `Converges` |
| `persistence` | two scenes, see below: a listener, a container, one project; queue 2, ring 3, three ticks, two file changes a tick, one crash, two PIDs | `PersistTypeOK`, `RowsAreCurrent`, `RestartKeepsTimeline`, `ProjectMemory`, `ImplementsHistory`, `WriterCatchesUp` |
| `drop_history` | two listeners, each in its own project, queue 1 | violated: a dropped tick costs more than its history |
| `docker_first_tick` | one listener, a container runtime that answers, no container | violated: the project of a service just observed is not known |
| `dashboard_stale` | one service, two PIDs | violated: a change without a delta entry never reaches a connected dashboard |
| `dashboard` | five scenes, see below; a buffer of two events, two backoff steps, one fault, at most three ticks | `DashTypeOK`, `TablesReplay`, `FeedInOrder`, `InspectorIsExplained`, `TimelineHasNoHole`, `DemoIsClosed`, `BadgeIsHonest`, `ViewCatchesUp`, `PagesSettleToo` |
| `new_project` | the same scenes, no fault, one visit | violated: a project that starts while the overview is connected never appears on it |
| `components` | one part at a time, see below | `LayoutTypeOK`, `LongestPath`, `ArrowsPointRight`, `PictureFits`, `BoxesAreApart`, `HoverIsASample`, `HoverFollowsPointer`, `CurveStaysInside`, `BarAddsUp`, `CardsKeepTheirPlaces`, `LabelsKeepOrder`, `PanelIsOfItsEvent`, `WarningsAreTrue` |

**Bounds.** Eviction has to tell three kinds apart: a portless worker, a listener and a
container, one of each in `registry`. With a cap of one it has to choose in every
behaviour that stops two. Two PIDs give overlap, replacement and a partial swap. The
clock of `registry` moves between two instants with window and retention zero: a restart
is inside the window or not, a worker is aged out or not, and with the step back an
entry can be newer than the batch. In `events` the clock runs past the debounce window
in one step and in several. The limits of the source (256 stopped services, a threshold
of 3, a broadcast ring of 256) are constants and the theorems hold for all of them. In
`live` both capacities are one: overrun and backpressure happen at once. In
`persistence` three ticks against a queue of two fill it, drain it and overrun it, and the
crash can come at any of the writer's steps with ticks left to make afterwards. One
project is enough there, because what a second adds is the interleaving `drop_history`
has. Its two scenes (`MCPersistence`) share the writer and the crashes. *rows* has the
listener and the container and no file change, *files* has file changes and no container,
as these have no row and no project of their own. Two changes a tick take all that wait or
leave some for the next, and a ring of three holds a tick and its two changes but not two
such ticks, so that the ring and the file cut the timeline at different places.
`MaxFaults`, `MaxCrashes` and `MaxTime` bound the model, not the program. `CHECK_DEADLOCK
FALSE` is set where the clock or another bound stops the model; `live` checks deadlock.

`dashboard` is five scenes over one specification, because the product of all that
can move is beyond any bound. A scene says what moves around the page, never what a
step does (`MCDashboard`): *feed* has every tick, stop and lost connection with
resnapshots, and nobody touches the page; *inspector* the pages of two services
which come, change and go, with polls and visits; *timeline* the pages of two
projects, from one to the other, with frames and calls interleaved, a container that
is grouped late and one that moves between the two; *polls* the overview and a project
polled while connections fail; *demo* the hosted demo with all its links. A buffer of
two events is filled, overrun and filled again from a second connection in three
ticks; two services are enough for an answer about the wrong one; `MaxCalls` of two
lets a poll overtake the one before it, and two visits lead back to the first
page with answers of its first life outstanding. `ShortRun` and `OneVisit` cut the
two scenes with the most interleavings by one tick and one visit. Two steps of the
backoff tell the first close from the later ones and from giving up.

`components` picks a part and leaves the others alone. *graph*: every list of up to
three calls between four services, duplicates and cycles among them, and every
board of up to six services, the size at which boards wrap. Three calls suffice
for a path through all four and for a cycle that pushes a third service along.
*chart*: values 0, 0.3 and 5, up to four samples, three widths of which one
is zero and one leaves no room between the axes. *cards*: every load of four services in
two projects, with stopped and unmeasured ones. *ages* and *amounts*: every second in
steps up to a day and a half, and amounts on both sides of every change of unit or
digit. *context*: three events, four panels. *warnings*: a listener and a worker over three ticks, a
threshold of two, a ring of three events, file events just before, at and just after
a tick, and one restart of the daemon; with a window of four, ticks of two and a file event
that has waited as long as a tick, an event too old for the window lies behind restarts that
are not.

**Fairness** (`LiveUpdates!Fairness`). The loop publishes the frames of a tick
it has applied; a socket task runs when it can; a browser reads its socket and
calls `onclose`. `connect` is retried with a bounded backoff for ever
(`daemon.tsx:171-183`), hence weak fairness of `Connect`. The branches of
`tokio::select!` compete for the wire and the macro polls them in random order,
so a branch that is ready again and again is taken: strong fairness of
`Forward`, `DropSlowClient` and `AnswerResnapshot`. `MCPersistence` has weak fairness
of `Writer` alone: a blocking thread with nothing to do but the next command. Ticks are not
fair: a machine on which nothing changes owes nobody a frame. `Converges` is about what
happens after the last change, which the bound on the clock provides.

`MCDashboard` has weak fairness of two things. One is the wire: a daemon that is up
accepts and sends, a browser calls `onopen`, `onmessage` and `onclose`, and the timer
of the backoff runs out, as `onclose` always sets it. The other is the page's fetches:
the interval of a page polls, a request is answered or fails, and its promise is
settled. Nothing makes a user move, a service change, a connection
break or a daemon start: `ViewCatchesUp` and `PagesSettle` have as their premise that the
daemon stays up from some time on, and the bound on ticks ends the changes. Each is
checked in the scenes where its part of the program moves.

## What the code does against its own words

Six runs end in a counterexample; each is listed as a finding in
`PROJECT.json` with the line that says otherwise.

- `CrashLoopIsDegraded`: `apply` clears the restart timestamps on every stop
  (`registry.rs:275`), so a loop of stops and starts is counted and never
  recognised, although the module comment is about exactly that loop.
- `LoopSignalClears`: `running_health` (`registry.rs:182-194`) compares two
  stored timestamps and never the clock, so a loop that is over stays degraded.
- `DashboardIsCurrent`: frames follow the delta (`state.rs:586`) and the delta
  has no entry for a service that swaps one of its workers and keeps another,
  nor for a container recreated in another project.
- `DropCostsOneTick`: a project counts as persisted before its write is
  accepted (`daemon.rs:354`). If the queue is full, the row is never written
  again, and the foreign key refuses every later row of its services.
- `ObservedProjectsAreKnown`: the second call of `remember_projects` in a tick
  with a container runtime (`snapshot.rs:351`) forgets the host projects the
  first one added, because the registry is not updated yet. `ProjectMemory`
  says what does hold: from a service's second tick on, and from its first
  without a container runtime.
- `ProjectsCatchUp`: of the five frames only the snapshot has projects
  (`daemon.tsx:216`), and nothing asks for another as long as the connection holds. The empty
  overview says of a new dev server that "it will appear here within a second"
  (`Overview.tsx:134`). The same holds the other way round for a project that is
  gone. `ViewCatchesUp` is about everything else, and says how far projects may differ.

Others have no run of their own; the properties are stated around them, and say exactly
how far the code is from its words.

- File changes join a tick last, with the earlier time of the watcher (`daemon.rs:315-324`,
  `watcher.rs:150`). The ring, the frames and every dashboard show the order of arrival,
  a restarted daemon that of time and id (`store.rs:66-67`), on every clock. `lib.rs:236-237` of
  `runscape-events` says that the deriver mints the event so that it "orders correctly
  against the events around it", and `ids.rs:92-93` that ids sort chronologically.
  `RestartKeepsTimeline`: file changes alone move, to before what was derived in between,
  and where the timeline is cut they alone give way.
- The history of a project has the events about a service that is in it now as well
  (`state.rs:222`), the page adds of the live ones those that carry the project only
  (`ProjectView.tsx:86`). Connections never carry one, nor do the events of a container
  from before it was grouped; they are on the page after a reload and not before,
  although its head (`ProjectView.tsx:7-9`) speaks of a history "then extended by the live
  stream". `TimelineHasNoHole`: the events that carry the project are there without a hole,
  so that the others are all that can be missing.
- The passes of `layout` push the services of a cycle one column further each, as many
  passes as there are services (`ServiceGraph.tsx:198-209`), and the width of the canvas is
  computed from the number of columns somebody is in (`:245`). Two services that call each other
  are drawn in the third and fourth column of a canvas two columns wide, although the comment
  at `:183-185` says that cycles are broken by keeping the first column a service lands in.
  `PictureFits` is about graphs without a cycle, `BoxesAreApart` about all.
- `reconnects` counts a first attempt that is refused (`daemon.tsx:174-180`), although it
  is said to be how many times the socket has come back (`:60`): `BadgeIsHonest` allows
  one more than the faults.
- A dashboard connected before the first tick of a restarted daemon keeps restored
  warnings that are over, because the engine never had them active and sends no removal
  (`state.rs:547`): `WarningsAreTrue` bounds what it shows.
- An event of the watcher later than the tick hides every older one from the rules for
  that tick (`state.rs:507`), and a true warning goes away and comes back: it is the
  premise of `WarningsAreTrue`.

`LastWordIsRight` and `Converges` are therefore about what a delta reports:
health, ports and restart count (`Told`), and `RowsAreCurrent` about a daemon
without a container runtime that has dropped nothing.

## Theorems

Every invariant and every action property of the passing runs is a theorem, and so is
the refinement; the liveness properties are not. All are proved by TLAPS for every value
of the constants that satisfies the named assumptions of the modules, which TLC evaluates
in the runs:

- registry and what extends it: `IdAssumption` (ids are numbers, finitely many),
  `IdentityAssumption` (a host service has one project and one primary port),
  `LimitAssumption` (limits are naturals, the threshold positive and not above the
  counter's maximum), `NoEntryAssumption`, `DebounceAssumption`, `CapacityAssumption`,
  `DtoAssumption`, `PersistenceAssumption`, `IdleAssumption`;
- warnings: `SightingAssumption`, `WindowAssumption` (limits are naturals, services finitely
  many, and the restart window is shorter than the window of events, 60 and 300 seconds in
  the source);
- dashboard: `ServiceAssumption` (finitely many, the caller among them), `HomeAssumption` (a
  project or none in every revision), `EventAssumption` (finitely many),
  `LimitAssumption` (the backoff has a step), `PageAssumption` (a page may have a call
  under way at all);
- pictures: `ServiceAssumption`, `ConnectionsAssumption`, `ValueAssumption`,
  `WidthAssumption`, `FamilyAssumption`, `MemoryAssumption`, `LabelAssumption` (finitely
  many services and projects, numbered; widths, values and amounts are naturals).

One theorem has a hypothesis besides: `RestartShowsTheTimeline` is about clocks that never
go back (`ClockNeverGoesBack`), as that of the runs of it. It says that file changes alone
move at a restart; on a clock that steps back, what two ticks derived moves too.

- `ServiceRegistryProofs`: `TypeCorrect`, `StoppedServicesAreEmpty`,
  `RetentionIsBounded` (invariants), `DeltasSuffice`, `OutagesSurvive` (action
  properties).
- `EventDeriverProofs`: `EventsAreWellFormed`, `PendingStaysShort` (invariants),
  `LogIsReplayable`, `CountAndLogAgree` (action properties).
- `LiveUpdatesProofs`: `ChannelIsBounded`, `LastWordStands`.
- `PersistenceProofs`: `MemoryIsBounded`, `RestartShowsTheTimeline`, `RowsCatchUp`
  (invariants), `ProjectsAreRemembered` (action property) and `HistoryIsKept`, that
  `Persistence` implements `TickHistory`. `OnlyDropsCost` and `OnlyTheSecondCallForgets`
  say that two of the counterexamples above have the cause named there and no other: without
  a container runtime `DropCostsOneTick` holds as long as nothing is dropped, and
  `ObservedProjectsAreKnown` holds altogether.
- `WarningEngineProofs`: `DashboardsShowTheTruth`.
- `DashboardProofs`: `TablesStayTrue`, `FeedStaysInOrder`, `TimelineStaysWhole`,
  `PagesStayTyped`, `InspectorStaysExplained`, `DemoStaysClosed` (invariants),
  `BadgeStaysHonest` (action property).
- `ContextPanelProofs`: `PanelsAreTheirEvents`.
- `PictureProofs`: `LoopIsBounded`, `ColumnsAreLongestPaths`, `ArrowsGoRight`,
  `BoxesStayApart`, `PictureStaysOnCanvas`, `HoverStaysOnASample`,
  `CurveStaysOnItsChart`, `BarsAlwaysAddUp` (invariants), `PointerShowsTheNearest`,
  `CardsStayInPlace`, `LabelsStayInOrder` (action properties).

**Arguments.** The registry's inductive invariant `IInv` is a statement about
each entry by itself, `EntryOK`: at most `RestartThreshold` timestamps, no more
of them than `restart_count`, health "stopped" exactly when `is_running` is
false, a stopped entry empty, and a degraded one restarted at least
`RestartThreshold` times. The bound of timestamps by the count is what makes
the last part inductive. Retention needs no invariant: `evict_stopped` runs
last, and whatever it is given at most `MaxStopped` stopped services come out.
That is a cardinality argument: among the candidates that are left, the first
in the order of the vector has fewer than `MaxStopped` others behind it. The
deriver's invariant says that a pending stop belongs to a service that does not
run and is not older than the window, which needs the registry's invariant to
know that a stopped service is not reported stopped again. For the live
channel, `LastWordIsRight` is not inductive: a frame that leaves the queue or a
snapshot that overtakes it must still be right. `LiveInv` adds that every value
in the outbox is the view's (`OutboxIsRight`) and that for a subscribed client
that is not lagging the last frame queued about a service is the view's, unless
the outbox mentions the service too and will follow it (`QueueIsRight`), even
before its snapshot is sent.

Project memory follows from the registry's invariant, which also holds across a
crash, and from what identity fixes: a host service held by the registry is in
the project of its fingerprint (`HomeKept`), so the project of a running one is
among those grouping saw this tick, and one with a service held survives both
calls of `remember_projects`. The refinement of `TickHistory` needs the whole
pipeline in order (`PipeInv`): every tick in the file is before the one in the
writer's hand, that one before every queued one, the queue increasing, and all
of them at most `ticks`; and a write has the events of one tick. Without this
order `Record` would not be allowed to take the tick in hand. The proof then
maps a tick to `Make`, the transaction of events to `Record` (or a stutter if
the tick had none), a crash to `Lose` and every row to a stutter.

That the restart count and the log agree is a property of two steps that never
meet: the registry counts, the deriver tells what the delta says. `CountAndLogAgree`
needs of the registry only what `apply` does to one entry and puts into the delta, of the deriver
only what it makes of a start and a restart in it.

*Rows and timeline.* Without a container runtime and without a drop a row is current, or
the write that will make it so is still with the writer: for a service that the registry
has changed since its row was stored, the last write in the queue or in hand that
mentions it has what the registry has now (`RowsInv`). The row of a project is stored or
on its way before any of its services' (`ParentsFirst`), so the foreign key refuses
nothing. The timeline (`TimelineInv`) is of the same kind: the ring is an end of what
the file has, what is in the writer's hand and what waits, taken together (`Told`). An
end in which order? Not that of time, since a file change comes after what was derived
later than it. `InOrder(e, f)` says that e may stand before f: it is earlier, or f is a
file change and e is not. With `TimesInv`, that a change still to come is neither before
one already told nor after now, whatever a tick adds is in order behind what is there
(`EndsWithMore`), and `EndsWith(ring, Told)` says that the ring is in order and that
what it has lost is in order before it. The file gives back as many, by time. That
nothing but a file change is cut from the file alone, and nothing but a derived event
from the ring alone, is a count (`TwoEnds`).

*Warnings.* What is active is the rules' truth over the window of the last tick, and what is
shown or kept differs from it only by warnings restored at a start. The window is the whole
truth for restarts unless the newest events of the ring are later than the tick, because what
follows a restart in the ring is older than it by the backlog at most (`RingInv`).

*Pictures.* The loop of `layout` is compared with an arbitrary layering `L` of the graph,
a function that puts every service one column behind the furthest of those that call it
(longest paths are the only one, and there is one exactly if there is no cycle).
`Tracks(L)` says that no service is beyond its column in `L` (`Below`),
that after n passes those in the first n+1 columns have arrived (`Arrived`), and that the
connections this pass has seen have told their targets (`Told`); the last is what makes the
second inductive within a pass. `Quiet`, that a pass which moved nothing found
nothing to move, covers the early exit. Boxes stay apart because the rank of a
service among those of its column is strictly monotone in the order of names; this needs no
acyclicity. On the canvas, no column of a
layering is empty up to the last one, by the least column that is; so as many columns
as somebody is in are wide enough for the furthest, and the fullest column for every row.

*Panels.* A mounted panel either waits for its own call or has its context or its error
(`Sound`), and every call under way was made by this instance for its event or by one before
it (`CallsAreOld`). An answer therefore finds the panel that asked, or nobody.

*Badge.* Three counters have to agree: `attempt` is zero exactly while the badge says
connecting or connected, beyond the backoff exactly when it says disconnected, and what
has been counted plus the loss not yet noticed (`link = "lost"`) is at most the faults
and one (`Dialled`). That a message says nothing of a loss needs every frame in the
channel to be one of the five.

*Inspector.* All calls of a service page ask for its service, because a visit forgets those of
the page it leaves, and one of them is under way as long as the page has neither the service nor an
error (`InspectorInv`).

*Tables.* The view of a dashboard is compared with the daemon item by item, a service, a
connection or a warning (`TablesInv`): of every item the last frame on its way that mentions
it tells what the daemon has now, and if none mentions it the view has that already. A
snapshot mentions every item. So `TablesInv` holds wherever a snapshot is put among
frames whose effect it already has, or has not. One lemma about `reduce` is enough
(`ReduceLearns`): a view takes in what a frame tells of an item, keeps the rest, and lists
nothing twice. `ViewAfter`, the view after n frames, then ends with every item right.

*Feed and timeline.* `Carries` says which events are on their way: frame after frame, up
to which event a reader has heard. The buffer follows what was heard since the
subscription (`Hears`), and a project's history is complete up to the newest event when
it was answered (`HistoryOK`). The events of the timeline that carry the project are
their union, newest first, and they are the daemon's because the newest n events of a
set are one sequence (`LatestIsOne`), whichever way they came. The others are of the
history alone; that they take room is why the theorem counts as many as there are or is
room for.

*Demo.* Every call of a hosted page is answered from the fixtures, which are finitely many;
what is under way and what is shown are always ids the fixtures have, because links lead
from what is shown to what the fixtures list.

*Charts.* The pointer and the chart use different widths for a while. The integer division
of `onPointerMove` is known by its bounds, and a case distinction on where the pointer is
shows that no sample drawn is nearer. A series is finite and so has a largest value.

*Cards.* The place of an element in an order is the number of elements before it; this is one to
one, so a finite set has a sequence in that order (`InOrderIs`), and two cards change places only
when their counts do. A sum of bytes is the number of pairs of a service and one of its bytes
(`BytesAreUnits`): leaving out those with none changes nothing, and the bar adds up to the
total.

*Labels.* `Rounded` is known by its bounds too; it keeps order within a unit, and at a change
of unit the smaller one shows at most 1024 of its own, the larger at least one.

**How recursion and libraries are dealt with.** The provers have no induction over data, so
where a proof needs one it takes the least counterexample (`LeastNatural`, from the well-order
of the naturals). They cannot expand `SelectSeq`, `SortSeq` and `FoldLeft`. Where a theorem
depends on what these compute the modules say it with sets: `Picked` for a filter,
`InOrder` for a sorting, and `ViewAfter`, a recursive function, for a fold. The library's sum
(`MapThenSumSet`) is a recursive function as well and is proved to be what it should.

**Only model-checked.** The liveness properties `Converges`, `WriterCatchesUp`,
`ViewCatchesUp` and `PagesSettleToo`, because liveness under fairness and ENABLED are
beyond the prover; and the counterexamples, which are about single runs. No module uses RECURSIVE.

## Not modelled

Collectors, the Docker client, the project resolver, redaction, the column codec, the
CLI, the page frame and the embedded files are I/O, formatting or stateless.
Measurements (CPU, memory) are copied and decide nothing in the modules of ticks and
frames; what is drawn of them is in *SeriesChart* and *ProjectCard*, what is warned of
in *WarningEngine*. Wording is left out everywhere, and so are the origin policy of
the HTTP API, percentages, clock times and tones. Of a warning only its id is modelled: one
that keeps firing with another message is not sent again, so what a dashboard says of it is
as old as its first tick. The order of `useProjectServices` and the cells of tables are not
modelled. Retention requests, which share the writer's queue, and the rows of warnings are
not in *Persistence*. The topology builder is known by what its readers rely on.
Of the file watcher its drain is modelled, and that nothing is watched without a running
project; coalescing, the cap on roots and the correlation of a change with a restart are not.
Grouping, idle ticks and event ids are in the plan.

## Plan

1. *Topology* (`observe`, the service index), *grouping* (parent inheritance) and
   *retention* as pure operators against reference definitions, with the lemmas that
   bound what retention leaves; connections then come about in *DaemonView* instead of
   being given.
2. *Watcher* and idle ticks: roots that follow the running projects one by one, coalescing, and
   five-second ticks against the deriver's window.
3. Event ids across restarts and clocks that step back; retention requests in the writer's
   queue.
4. Theorems: for the other counterexamples too, under which condition what the code says
   does hold (`DashboardIsCurrent` where every change has an entry in the delta); what the
   lemmas of retention and topology give once those are modelled.
