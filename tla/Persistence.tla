---------------------------- MODULE Persistence ----------------------------
(***************************************************************************)
(* What the daemon remembers: the projects the snapshot loop keeps between *)
(* ticks, the event ring of the view, and the SQLite file behind a writer  *)
(* thread that is fed over a bounded, lossy queue (snapshot.rs, daemon.rs, *)
(* persistence.rs and store.rs).  A crash takes everything but the file.   *)
(*                                                                         *)
(* Abstractions.  What one tick derives is one event: such events have one *)
(* time, are pushed together and are stored in one transaction.  The file  *)
(* changes the tick drains from the watcher are events of their own, after *)
(* it and with earlier times.  A service row has the facts Row keeps.      *)
(* Resource samples have no key to violate, so of them only the write they *)
(* cause is left; warnings are left out.                                   *)
(***************************************************************************)
EXTENDS EventDeriver, SequencesExt

CONSTANTS
  QueueDepth,    \* QUEUE_DEPTH
  RingCapacity,  \* EVENT_RING_CAPACITY
  WatchFiles,    \* watch_files, and a watcher that starts
  MaxFileEvents, \* MAX_FILE_EVENTS_PER_TICK
  Idle,          \* the writer has no command
  MaxCrashes     \* bound of the model

ASSUME PersistenceAssumption ==
  /\ QueueDepth \in Nat \ {0} /\ RingCapacity \in Nat \ {0} /\ MaxCrashes \in Nat
  /\ WatchFiles \in BOOLEAN /\ MaxFileEvents \in Nat \ {0}
  /\ \A s \in Service \ Container : HomeProject[s] \in Project
  /\ NoProject \notin Project

VARIABLES
  inspects,    \* a container collector is configured
  projects,    \* SnapshotLoop::projects
  introduced,  \* projects announced and handed to the writer since the daemon started
  queue,       \* TickWrites in the channel
  writing,     \* what is left of the TickWrite the writer has taken, or Idle
  dropped,     \* Persistence::dropped
  stored,      \* the tables of the SQLite file
  ring,        \* RuntimeView::events
  shown,       \* the times of the ticks since the oldest change the channel may hold
  ticks,       \* number of ticks ever made (names a tick's events)
  crashes      \* number of crashes (bound of the model)

persistVars == <<deriverVars, inspects, projects, introduced, queue, writing, dropped, stored,
                 ring, shown, ticks, crashes>>

Row(e) == [project |-> e.project, health |-> e.health, ports |-> e.ports,
           restartCount |-> e.restartCount]

Rows == [project : MaybeProject, health : Health, ports : SUBSET Port,
         restartCount : 0..MaxRestartCount]

\* Number n of tick number `tick`: 0 for what the tick derived, the others for the file changes.
Events == [tick : Nat, n : Nat, at : Time]

IsFileChange(e) == e.n > 0

Writes == [projects : SUBSET Project, services : UNION {[S -> Rows] : S \in SUBSET Service},
           events : SUBSET Events]

ASSUME IdleAssumption == Idle \notin Writes

----------------------------------------------------------------------------
(***************************************************************************)
(* Project memory.                                                         *)
(***************************************************************************)
LiveProjects == {reg[s].project : s \in Held(reg)} \ {NoProject}

\* Fault: a project is only kept if a service held already is in it.
RememberLive(seen, known) == (seen \cup known) \cap LiveProjects

\* remember_projects, which runs before apply: the registry is that of the last tick.
Remember(seen, known) == seen \cup (known \cap LiveProjects)

ProjectsOf(S, batch) == {batch[s].project : s \in S \cap DOMAIN batch} \ {NoProject}

(***************************************************************************)
(* What a tick has to persist.                                             *)
(***************************************************************************)
\* Fault: a service that stops is not written.
ChangedServicesButStopped(d) ==
  d.started \cup d.restarted \cup {c[1] : c \in d.portsOpened}

ChangedServices(d) ==
  d.started \cup d.stopped \cup d.restarted
    \cup {c[1] : c \in d.portsOpened \cup d.portsClosed \cup d.healthChanged}

HasEvents(e) ==
  (\E s \in Service : e.life[s] # <<>>) \/ e.opened \cup e.closed # {} \/ e.health # {}

TickWrite(known, r, d, events) ==
  [projects |-> known \ introduced,
   services |-> [s \in ChangedServices(d) \cap Held(r) |-> Row(r[s])],
   events   |-> events]

IsEmpty(write) == write.projects = {} /\ DOMAIN write.services = {} /\ write.events = {}

\* Fault: the queue grows without bound.
EnqueueUnbounded(write, sampled) ==
  IF IsEmpty(write) /\ ~sampled THEN UNCHANGED <<queue, dropped>>
  ELSE queue' = Append(queue, write) /\ UNCHANGED dropped

\* Persistence::write: never blocks.
Enqueue(write, sampled) ==
  IF IsEmpty(write) /\ ~sampled THEN UNCHANGED <<queue, dropped>>
  ELSE IF Len(queue) < QueueDepth THEN queue' = Append(queue, write) /\ UNCHANGED dropped
  ELSE dropped' = dropped + 1 /\ UNCHANGED queue

(***************************************************************************)
(* The ring, and the timeline a store gives back.                          *)
(***************************************************************************)
Newest(seq) == SubSeq(seq, IF Len(seq) > RingCapacity THEN Len(seq) - RingCapacity + 1 ELSE 1, Len(seq))

\* ORDER BY at, id: an id is the time followed by a number of the deriver's sequence, which
\* only a restart (longer than the millisecond it is preceded by) begins anew.
Earlier(e, f) ==
  \/ e.at < f.at
  \/ e.at = f.at /\ e.tick < f.tick
  \/ e.at = f.at /\ e.tick = f.tick /\ e.n < f.n

Timeline(events) ==
  [i \in 1..Cardinality(events) |->
     CHOOSE e \in events : Cardinality({f \in events : Earlier(f, e)}) = i - 1]

\* Fault: the rows are not reversed.
RestoredNewestFirst(events) ==
  LET rows == Newest(Timeline(events)) IN [i \in DOMAIN rows |-> rows[Len(rows) + 1 - i]]

\* restore: the newest rows, oldest first.
Restored(events) == Newest(Timeline(events))

----------------------------------------------------------------------------
PersistInit ==
  /\ DeriverInit
  /\ inspects \in BOOLEAN
  /\ projects = {} /\ introduced = {}
  /\ queue = <<>> /\ writing = Idle /\ dropped = 0
  /\ stored = [projects |-> {}, services |-> [s \in {} |-> NoEntry], events |-> {}]
  /\ ring = <<>> /\ shown = <<>>
  /\ ticks = 0 /\ crashes = 0

(***************************************************************************)
(* The watcher.  A change has the time of the callback that saw it; as     *)
(* only its order matters, it is given that of the last tick begun before  *)
(* it.  Its place among these times (`shown`) is what a step chooses.  The *)
(* channel is FIFO, and may drop any change; a tick takes the first ones.  *)
(***************************************************************************)
\* The places, among n times, of the changes a tick takes.
Drains(n) ==
  {c \in UNION {[1..k -> 1..n] : k \in 0..MaxFileEvents} :
     \A i, j \in DOMAIN c : i < j => c[i] <= c[j]}

FileChanges(tick, clock, changes) ==
  [i \in DOMAIN changes |-> [tick |-> tick, n |-> i, at |-> clock[changes[i]]]]

\* A tick that takes fewer than it may leaves the channel empty.
LeftBehind(clock, changes) ==
  IF Len(changes) < MaxFileEvents THEN <<clock[Len(clock)]>>
  ELSE SubSeq(clock, changes[Len(changes)], Len(clock))

(***************************************************************************)
(* One tick of the snapshot loop.  Grouping sees the projects of the host  *)
(* services and of processes that are no service; if the container runtime *)
(* answers, the containers are grouped after it.  Projects with a running  *)
(* service are watched; which of them a change is under is left open.      *)
(***************************************************************************)
PersistTick(batch, at, seen, answered, sampled, changes) ==
  LET known   == Remember(seen, projects)
      clock   == Append(shown, at)
      watched == WatchFiles /\ \E s \in Running(reg') : reg'[s].project \in projects'
      derived == IF HasEvents(emitted') \/ projects' \ introduced # {}
                 THEN <<[tick |-> ticks', n |-> 0, at |-> at]>> ELSE <<>>
      events  == derived \o FileChanges(ticks', clock, changes)
  IN  /\ ProjectsOf(Service \ Container, batch) \subseteq seen
      /\ answered => inspects
      /\ ~answered => DOMAIN batch \cap Container = {}
      /\ Tick(batch, at)
      /\ sampled => Held(reg') # {}
      /\ projects' = IF answered THEN Remember(ProjectsOf(Container, batch), known) ELSE known
      /\ introduced' = introduced \cup projects'
      /\ ticks' = ticks + 1
      /\ changes # <<>> => watched
      /\ shown' = IF watched THEN LeftBehind(clock, changes) ELSE <<>>
      /\ ring' = Newest(ring \o events)
      /\ Enqueue(TickWrite(projects', reg', delta', ToSet(events)), sampled)
      /\ UNCHANGED <<inspects, writing, stored, crashes>>

(***************************************************************************)
(* The writer thread: apply, row by row.                                   *)
(***************************************************************************)
\* Fault: last in, first out.
TakeNewestWrite ==
  /\ writing = Idle /\ queue # <<>>
  /\ writing' = queue[Len(queue)]
  /\ queue' = SubSeq(queue, 1, Len(queue) - 1)
  /\ UNCHANGED <<deriverVars, inspects, projects, introduced, dropped, stored, ring, shown, ticks,
                 crashes>>

TakeWrite ==
  /\ writing = Idle /\ queue # <<>>
  /\ writing' = Head(queue)
  /\ queue' = Tail(queue)
  /\ UNCHANGED <<deriverVars, inspects, projects, introduced, dropped, stored, ring, shown, ticks,
                 crashes>>

StoreProject ==
  /\ writing # Idle
  /\ \E p \in writing.projects :
       /\ stored' = [stored EXCEPT !.projects = @ \cup {p}]
       /\ writing' = [writing EXCEPT !.projects = @ \ {p}]
  /\ UNCHANGED <<deriverVars, inspects, projects, introduced, queue, dropped, ring, shown, ticks,
                 crashes>>

\* The foreign key: a row whose project has no row is refused, and the failure logged.
HasParent(row) == row.project \in stored.projects \cup {NoProject}

Upserted(s, row) == [t \in DOMAIN stored.services \cup {s} |->
                       IF t = s THEN row ELSE stored.services[t]]

\* Fault: a refused row is tried again until it is taken.
StoreServiceOrRetry ==
  /\ writing # Idle /\ writing.projects = {}
  /\ \E s \in DOMAIN writing.services :
       /\ HasParent(writing.services[s])
       /\ stored' = [stored EXCEPT !.services = Upserted(s, writing.services[s])]
       /\ writing' = [writing EXCEPT !.services =
                        [t \in DOMAIN writing.services \ {s} |-> writing.services[t]]]
  /\ UNCHANGED <<deriverVars, inspects, projects, introduced, queue, dropped, ring, shown, ticks,
                 crashes>>

StoreService ==
  /\ writing # Idle /\ writing.projects = {}
  /\ \E s \in DOMAIN writing.services :
       /\ stored' = IF HasParent(writing.services[s])
                    THEN [stored EXCEPT !.services = Upserted(s, writing.services[s])]
                    ELSE stored
       /\ writing' = [writing EXCEPT !.services =
                        [t \in DOMAIN writing.services \ {s} |-> writing.services[t]]]
  /\ UNCHANGED <<deriverVars, inspects, projects, introduced, queue, dropped, ring, shown, ticks,
                 crashes>>

StoreEvents ==
  /\ writing # Idle /\ writing.projects = {} /\ DOMAIN writing.services = {}
  /\ stored' = [stored EXCEPT !.events = @ \cup writing.events]
  /\ writing' = Idle
  /\ UNCHANGED <<deriverVars, inspects, projects, introduced, queue, dropped, ring, shown, ticks,
                 crashes>>

Writer == TakeWrite \/ StoreProject \/ StoreService \/ StoreEvents

(***************************************************************************)
(* The daemon is killed at any point and started again: Daemon::bind reads *)
(* the history back, everything else begins anew.                          *)
(***************************************************************************)
Crash ==
  /\ crashes < MaxCrashes
  /\ crashes' = crashes + 1
  /\ inspects' \in BOOLEAN
  /\ reg' = [s \in Service |-> NoEntry] /\ delta' = NoChanges
  /\ pending' = [s \in Service |-> NotPending] /\ emitted' = Nothing
  /\ projects' = {} /\ introduced' = {}
  /\ queue' = <<>> /\ writing' = Idle /\ dropped' = 0
  /\ ring' = Restored(stored.events) /\ shown' = <<>>
  /\ UNCHANGED <<now, stored, ticks>>

PersistNext ==
  \/ \E batch \in Batches, d \in ClockSteps, seen \in SUBSET Project,
        answered, sampled \in BOOLEAN, changes \in Drains(Len(shown) + 1) :
       now + d \in Time /\ PersistTick(batch, now + d, seen, answered, sampled, changes)
  \/ Writer
  \/ Crash

PersistSpec == PersistInit /\ [][PersistNext]_persistVars

----------------------------------------------------------------------------
(***************************************************************************)
(* Properties.                                                             *)
(***************************************************************************)

\* Type invariant, with the bounds of queue and ring: "a daemon that grows without limit is a
\* bug".
PersistTypeOK ==
  /\ inspects \in BOOLEAN
  /\ projects \subseteq introduced /\ introduced \subseteq Project
  /\ queue \in Seq(Writes) /\ Len(queue) <= QueueDepth
  /\ writing \in Writes \cup {Idle}
  /\ dropped \in 0..ticks
  /\ stored.projects \subseteq Project /\ DOMAIN stored.services \subseteq Service
  /\ \A s \in DOMAIN stored.services : stored.services[s] \in Rows
  /\ stored.events \subseteq Events
  /\ ring \in Seq(Events) /\ Len(ring) <= RingCapacity
  /\ shown \in Seq(Time) /\ Len(shown) <= ticks

Accepted ==
  {e.tick : e \in UNION ({queue[i].events : i \in DOMAIN queue}
                           \cup (IF writing = Idle THEN {} ELSE {writing.events}))}

History == INSTANCE TickHistory
  WITH made <- ticks, accepted <- Accepted, recorded <- {e.tick : e \in stored.events}

\* The queue, the writer and the crashes together are a history that loses whole ticks and
\* keeps the others once and in order.
ImplementsHistory == History!HistorySpec

Settled == queue = <<>> /\ writing = Idle /\ dropped = 0

\* The delta alone decides what is written, and rows go through queue, foreign key and
\* crashes: once the writer has caught up, and if nothing was dropped since the daemon
\* started, the row of every service held says what the registry says.  With a container
\* collector ProjectMemory fails for a service just observed, and its row with it.
RowsAreCurrent ==
  Settled /\ ~inspects => \A s \in Held(reg) :
    s \in DOMAIN stored.services /\ stored.services[s] = Row(reg[s])

\* "A restarted daemon shows this morning's timeline": once the writer has caught up, a
\* restart would show what the running daemon shows, but for the file changes, which the
\* running daemon shows when it took them and the file when they were made: the ring is not in
\* the order of times and ids the deriver promises of "every event in the timeline".  They alone may
\* move, and only to before what was derived in between; and as they move to the older end
\* the oldest of the timeline may be events of a tick in place of file changes.
RestartKeepsTimeline ==
  LET back == Restored(stored.events)
  IN  Settled =>
        /\ Len(back) = Len(ring)
        /\ \A e \in ToSet(ring) \ ToSet(back) : IsFileChange(e)
        /\ \A e \in ToSet(back) \ ToSet(ring) : ~IsFileChange(e)
        /\ \A i, j \in DOMAIN ring, k, l \in DOMAIN back :
             i < j /\ k < l /\ back[k] = ring[j] /\ back[l] = ring[i]
               => ~IsFileChange(ring[i]) /\ IsFileChange(ring[j])

\* remember_projects, called twice, and a registry one tick behind: a running service belongs
\* to a project the daemon knows, with a container collector from its second tick on.
ProjectMemory ==
  [][ ticks' # ticks =>
        \A s \in Running(reg') : s \in Held(reg) \/ ~inspects
          => reg'[s].project \in projects' \cup {NoProject} ]_persistVars

\* Whatever fails, what was accepted does not stay in the queue for ever.
WriterCatchesUp == <>[](queue = <<>> /\ writing = Idle)

\* "Projects observed on the most recent tick": the project of a service just observed is
\* one of them.
ObservedProjectsAreKnown ==
  \A s \in Running(reg) : reg[s].project \in projects \cup {NoProject}

\* "Dropping a tick's history": what a full queue drops costs the store that tick and no
\* more, so no service row the writer comes to is refused for want of its project.
DropCostsOneTick ==
  ~inspects /\ writing # Idle /\ writing.projects = {} =>
    \A s \in DOMAIN writing.services : HasParent(writing.services[s])
=============================================================================
