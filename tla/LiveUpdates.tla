---------------------------- MODULE LiveUpdates ----------------------------
(***************************************************************************)
(* The live channel, from the registry to one dashboard: AppState of       *)
(* crates/runscape-server/src/state.rs, the socket task of ws.rs and the   *)
(* frame reducer of apps/web/lib/daemon.tsx.                               *)
(*                                                                         *)
(* Three tasks run side by side.  The snapshot loop applies a tick to the  *)
(* view, releases its lock and only then broadcasts the frames.  The       *)
(* socket task subscribes, sends a snapshot of the view and forwards what  *)
(* its receiver yields.  The dashboard folds the frames into its copy and  *)
(* reconnects when the socket closes.                                      *)
(*                                                                         *)
(* Abstractions.  Sockets share nothing but the broadcast channel, so one  *)
(* client stands for each of them.  A frame is the services it speaks of,  *)
(* with what it says of them: `snapshot` speaks of all, `services_changed` *)
(* of those in its two lists.  The other frame types are left out.         *)
(***************************************************************************)
EXTENDS ServiceRegistry

CONSTANTS
  QueueCapacity,  \* BROADCAST_CAPACITY: frames a receiver may be behind
  WireCapacity,   \* frames the socket buffers hold, and the one whose send has to wait
  MaxFaults       \* bound of the model: connections lost and daemons killed

ASSUME CapacityAssumption ==
  QueueCapacity \in Nat \ {0} /\ WireCapacity \in Nat \ {0} /\ MaxFaults \in Nat

VARIABLES
  outbox,  \* AppliedTick::frames, built and not yet broadcast
  conn,    \* the socket task: "down", "subscribed" (no snapshot taken yet), "greeting"
           \* (sending it), "live" (in its select! loop), "closing"
  queue,   \* what the socket task's broadcast receiver has not yielded yet
  lagged,  \* whether that receiver was overrun: its next recv is RecvError::Lagged
  asked,   \* whether a resnapshot request is on its way to the socket task
  wire,    \* frames sent to the dashboard and not yet read by it
  shown,   \* DaemonView::services
  faults   \* how often MaxFaults was drawn on

clientVars == <<conn, queue, lagged, asked, wire, shown>>
liveVars == <<reg, delta, now, outbox, clientVars, faults>>

----------------------------------------------------------------------------
\* ServiceDto, and what is said of a service that is gone.
Dtos == [health : Health, ports : SUBSET Port, restartCount : 0..MaxRestartCount,
         pids : SUBSET Pid, project : MaybeProject]
MaybeDto == Dtos \cup {NoEntry}
ASSUME DtoAssumption == NoEntry \notin Dtos

Frames == UNION {[S -> MaybeDto] : S \in SUBSET Service}

\* ServiceDto::new, what the properties tell apart of it.
Dto(e) ==
  IF e = NoEntry THEN NoEntry
  ELSE [health |-> e.health, ports |-> e.ports, restartCount |-> e.restartCount,
        pids |-> e.pids, project |-> e.project]

\* RuntimeView::services: what every tick copies from the registry.
ViewOf(r) == [s \in Service |-> Dto(r[s])]
View == ViewOf(reg)

ChangedServices(d) ==
  d.started \cup d.stopped \cup d.restarted
    \cup {c[1] : c \in d.portsOpened \cup d.portsClosed \cup d.healthChanged}

\* The services_changed frame of a tick: the view of the changed services, and the evicted
\* ones, of which the view has nothing.  A frame about no service is not built.
TickFrame(d, view) == [s \in ChangedServices(d) \cup d.evicted |-> view[s]]

NoFrame == [s \in {} |-> NoEntry]

\* reduce: what the dashboard holds of a service after a frame.
Over(frame, s, v) == IF s \in DOMAIN frame THEN frame[s] ELSE v

\* Fault: the task subscribes after it has sent the snapshot.
AttachedOnceLive == conn = "live"

\* The task holds a broadcast receiver.
Attached == conn \in {"subscribed", "greeting", "live"}

\* The task waits in no send: what it last took, a frame or a snapshot of the view, has left
\* its hands.  Otherwise that is the last frame of the wire, as old as when it was taken.
HasRoom == Len(wire) < WireCapacity

----------------------------------------------------------------------------
LiveInit ==
  /\ Init
  /\ outbox = NoFrame
  /\ conn = "down" /\ queue = <<>> /\ lagged = FALSE /\ asked = FALSE /\ wire = <<>>
  /\ shown = [s \in Service |-> NoEntry]
  /\ faults = 0

(***************************************************************************)
(* The snapshot loop: the frames of one tick are broadcast before the next *)
(* tick is collected.                                                      *)
(***************************************************************************)
ApplyTick(batch, at) ==
  /\ outbox = NoFrame
  /\ Apply(batch, at)
  /\ outbox' = TickFrame(delta', ViewOf(reg'))
  /\ UNCHANGED <<clientVars, faults>>

\* Fault: an overrun receiver goes on with what is left in the ring.
PublishSkipping ==
  /\ outbox # NoFrame
  /\ outbox' = NoFrame
  /\ queue' = IF ~Attached THEN queue
              ELSE Append(IF Len(queue) = QueueCapacity THEN Tail(queue) ELSE queue, outbox)
  /\ UNCHANGED <<vars, conn, lagged, asked, wire, shown, faults>>

\* Fault: the channel has no capacity.
PublishUnbounded ==
  /\ outbox # NoFrame
  /\ outbox' = NoFrame
  /\ queue' = IF Attached THEN Append(queue, outbox) ELSE queue
  /\ UNCHANGED <<vars, conn, lagged, asked, wire, shown, faults>>

\* A full ring loses its oldest frame; the receiver learns that before it reads another one,
\* so what is left in its queue no longer matters.
Publish ==
  /\ outbox # NoFrame
  /\ outbox' = NoFrame
  /\ lagged' = (lagged \/ (Attached /\ Len(queue) = QueueCapacity))
  /\ queue' = IF ~Attached THEN queue ELSE IF lagged' THEN <<>> ELSE Append(queue, outbox)
  /\ UNCHANGED <<vars, conn, asked, wire, shown, faults>>

(***************************************************************************)
(* The socket task.  It subscribes before it takes the snapshot: frames    *)
(* queue up while the snapshot is taken and may be older than it.          *)
(***************************************************************************)
Connect ==
  /\ conn = "down"
  /\ conn' = "subscribed" /\ queue' = <<>> /\ lagged' = FALSE /\ asked' = FALSE /\ wire' = <<>>
  /\ UNCHANGED <<vars, outbox, shown, faults>>

SendSnapshot ==
  /\ conn = "subscribed" /\ HasRoom
  /\ conn' = "greeting"
  /\ wire' = Append(wire, View)
  /\ UNCHANGED <<vars, outbox, queue, lagged, asked, shown, faults>>

SnapshotSent ==
  /\ conn = "greeting" /\ HasRoom
  /\ conn' = "live"
  /\ UNCHANGED <<vars, outbox, queue, lagged, asked, wire, shown, faults>>

Forward ==
  /\ conn = "live" /\ HasRoom
  /\ ~lagged /\ queue # <<>>
  /\ wire' = Append(wire, Head(queue))
  /\ queue' = Tail(queue)
  /\ UNCHANGED <<vars, outbox, conn, lagged, asked, shown, faults>>

DropSlowClient ==
  /\ conn = "live" /\ lagged /\ HasRoom
  /\ conn' = "closing"
  /\ UNCHANGED <<vars, outbox, queue, lagged, asked, wire, shown, faults>>

AnswerResnapshot ==
  /\ conn = "live" /\ asked /\ HasRoom
  /\ asked' = FALSE
  /\ wire' = Append(wire, View)
  /\ UNCHANGED <<vars, outbox, conn, queue, lagged, shown, faults>>

(***************************************************************************)
(* The dashboard.  What was sent before the close frame is still read.     *)
(***************************************************************************)
Receive ==
  /\ wire # <<>>
  /\ shown' = [s \in Service |-> Over(Head(wire), s, shown[s])]
  /\ wire' = Tail(wire)
  /\ UNCHANGED <<vars, outbox, conn, queue, lagged, asked, faults>>

AskResnapshot ==
  /\ conn = "live" /\ ~asked
  /\ asked' = TRUE
  /\ UNCHANGED <<vars, outbox, conn, queue, lagged, wire, shown, faults>>

Closed ==
  /\ conn = "closing" /\ wire = <<>>
  /\ conn' = "down"
  /\ UNCHANGED <<vars, outbox, queue, lagged, asked, wire, shown, faults>>

(***************************************************************************)
(* Faults: the connection breaks, or the daemon is killed and comes back   *)
(* with an empty registry (services are not restored).                     *)
(***************************************************************************)
LoseConnection ==
  /\ conn # "down"
  /\ conn' = "down" /\ wire' = <<>>
  /\ UNCHANGED <<queue, lagged, asked, shown>>

BreakConnection ==
  /\ faults < MaxFaults /\ faults' = faults + 1
  /\ LoseConnection
  /\ UNCHANGED <<vars, outbox>>

RestartDaemon ==
  /\ faults < MaxFaults /\ faults' = faults + 1
  /\ reg' = [s \in Service |-> NoEntry] /\ delta' = NoChanges /\ now' = now
  /\ outbox' = NoFrame
  /\ LoseConnection \/ (conn = "down" /\ UNCHANGED clientVars)

Socket == Connect \/ SendSnapshot \/ SnapshotSent \/ Forward \/ DropSlowClient \/ AnswerResnapshot
Dashboard == Receive \/ AskResnapshot \/ Closed
Fault == BreakConnection \/ RestartDaemon

LiveNext ==
  \/ \E batch \in Batches, d \in ClockSteps : now + d \in Time /\ ApplyTick(batch, now + d)
  \/ Publish
  \/ Socket
  \/ Dashboard
  \/ Fault

LiveSpec == LiveInit /\ [][LiveNext]_liveVars

(***************************************************************************)
(* No task stops for good between two awaits, and the dashboard retries    *)
(* with a bounded backoff for ever.  The branches of select! compete for   *)
(* room on the wire; it picks at random among those that are ready, so a   *)
(* branch that is ready again and again is taken.  Ticks bring changes     *)
(* only when the machine changes, and nobody has to ask for a snapshot.    *)
(***************************************************************************)
Fairness ==
  /\ WF_liveVars(Publish)
  /\ WF_liveVars(Connect) /\ WF_liveVars(SendSnapshot) /\ WF_liveVars(SnapshotSent)
  /\ SF_liveVars(Forward) /\ SF_liveVars(AnswerResnapshot) /\ SF_liveVars(DropSlowClient)
  /\ WF_liveVars(Receive) /\ WF_liveVars(Closed)

FairLiveSpec == LiveSpec /\ Fairness

----------------------------------------------------------------------------
(***************************************************************************)
(* Properties.                                                             *)
(***************************************************************************)
\* Type invariant, with the two capacities: a slow client costs the daemon QueueCapacity
\* frames at most ("dropped rather than buffered without bound").
LiveTypeOK ==
  /\ outbox \in Frames
  /\ conn \in {"down", "subscribed", "greeting", "live", "closing"}
  /\ queue \in Seq(Frames) /\ Len(queue) <= QueueCapacity
  /\ wire \in Seq(Frames) /\ Len(wire) <= WireCapacity
  /\ lagged \in BOOLEAN /\ asked \in BOOLEAN
  /\ shown \in [Service -> MaybeDto]
  /\ faults \in 0..MaxFaults

\* What services_changed frames keep up to date: registry facts a delta reports.
Told(v) == IF v = NoEntry THEN NoEntry ELSE <<v.health, v.ports, v.restartCount>>

Mentions(q, s) == {i \in DOMAIN q : s \in DOMAIN q[i]}

\* What a service is taken to be by a reader who holds v and then reads the frames of q.
Last(q, s, v) ==
  IF Mentions(q, s) = {} THEN v
  ELSE q[CHOOSE i \in Mentions(q, s) : \A j \in Mentions(q, s) : j <= i][s]

\* A client that reads everything on its way ends up with the daemon's view, however
\* snapshots, ticks and broadcasts were interleaved: a frame older than the snapshot may show
\* an older state for a while, but never has the last word ("a service that starts while the
\* snapshot is being built must still reach this client").
LastWordIsRight ==
  conn \in {"greeting", "live"} /\ ~lagged =>
    \A s \in Service :
      Told(Over(outbox, s, Last(queue, s, Last(wire, s, shown[s])))) = Told(View[s])

\* The machine stops changing: every client ends up connected, and its dashboard shows every
\* service as the daemon knows it, whatever was lost, dropped for lagging or restarted.
Shows == conn = "live" /\ \A s \in Service : Told(shown[s]) = Told(View[s])
Converges == <>[]Shows

\* "Then it sends incremental frames as things change": a live dashboard that has read every
\* frame shows what the daemon would send it now.  It does not: a service can change its
\* processes (a container its project) in a tick whose delta does not mention it.
DashboardIsCurrent ==
  conn = "live" /\ ~lagged /\ outbox = NoFrame /\ queue = <<>> /\ wire = <<>> => shown = View
=============================================================================
