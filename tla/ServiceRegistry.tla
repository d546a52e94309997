-------------------------- MODULE ServiceRegistry --------------------------
(***************************************************************************)
(* The live service registry of crates/runscape-core/src/registry.rs: one  *)
(* call of ServiceRegistry::apply per tick of the daemon reconciles a      *)
(* complete batch of observations with the services already held and says  *)
(* in a RegistryDelta what changed.                                        *)
(*                                                                         *)
(* Abstractions.  A service is its id (a number: the registry iterates and *)
(* breaks ties in id order).  The id is a hash of the fingerprint, so what *)
(* the fingerprint holds is a constant of the service: whether it is a     *)
(* container and, for a host process, its project and primary port.  A     *)
(* process is its PID, an endpoint is its port.  Names, runtimes and       *)
(* measurements are left out: apply copies them and never looks at them.   *)
(***************************************************************************)
EXTENDS Integers, Sequences, FiniteSets

CONSTANTS
  Service,            \* ids of every service that can ever be observed
  Container,          \* those whose kind is ServiceKind::Container
  Pid, Port,          \* PIDs and listening ports the host can show
  Project,            \* project ids
  NoProject,          \* Option::None of a project id
  PrimaryPort,        \* the primary port in the fingerprint of each host service,
  NoPort,             \*   "-" if it has none
  HomeProject,        \* the project in that fingerprint
  NoEntry,            \* a service the registry does not hold
  MaxStopped,         \* MAX_STOPPED_SERVICES
  PortlessRetention,  \* STOPPED_PORTLESS_RETENTION
  RestartWindow,      \* RESTART_LOOP_WINDOW
  RestartThreshold,   \* RESTART_LOOP_THRESHOLD
  MaxRestartCount,    \* u32::MAX, where restart_count saturates
  ClockSteps,         \* what the wall clock can move by between two ticks
  MaxTime             \* bound of the model: the clock stays in 0..MaxTime

ASSUME IdAssumption == Service \subseteq Nat /\ IsFiniteSet(Service) /\ Container \subseteq Service

ASSUME LimitAssumption ==
  /\ MaxStopped \in Nat /\ MaxTime \in Nat
  /\ PortlessRetention \in Nat /\ RestartWindow \in Nat
  /\ RestartThreshold \in Nat \ {0}
  /\ MaxRestartCount \in Nat /\ MaxRestartCount >= RestartThreshold
  /\ ClockSteps \subseteq Int

Time == 0..MaxTime
MaybeProject == Project \cup {NoProject}
Health == {"healthy", "degraded", "stopped"}

ASSUME IdentityAssumption ==
  /\ Port \subseteq Nat
  /\ PrimaryPort \in [Service \ Container -> Port \cup {NoPort}]
  /\ HomeProject \in [Service \ Container -> MaybeProject]

(***************************************************************************)
(* What the registry holds of a service: Service plus Entered.             *)
(***************************************************************************)
Entry == [pids : SUBSET Pid, ports : SUBSET Port, project : MaybeProject,
          health : Health, lastSeen : Time, restartCount : 0..MaxRestartCount,
          restarts : Seq(Time), everListened : BOOLEAN]

ASSUME NoEntryAssumption == NoEntry \notin Entry

(***************************************************************************)
(* A service's observations after Merged::new, absorb and finish: the      *)
(* PIDs and ports of its processes together.  A host service has the ports *)
(* its fingerprint allows, the lowest of them being the primary one; a     *)
(* container has no PIDs, and any ports and project.                       *)
(***************************************************************************)
ListenedPorts(s) ==
  IF PrimaryPort[s] = NoPort THEN {{}}
  ELSE {ports \in SUBSET Port : /\ PrimaryPort[s] \in ports
                                /\ \A p \in ports : PrimaryPort[s] <= p}

Folded(s) ==
  IF s \in Container
  THEN [pids : {{}}, ports : SUBSET Port, project : MaybeProject]
  ELSE [pids : (SUBSET Pid) \ {{}}, ports : ListenedPorts(s), project : {HomeProject[s]}]

(***************************************************************************)
(* A batch: the complete set of services observed running, each folded.  A *)
(* process has one fingerprint and so counts for one service.              *)
(***************************************************************************)
Batches ==
  UNION { { batch \in [S -> UNION {Folded(s) : s \in S}] :
              /\ \A s \in S : batch[s] \in Folded(s)
              /\ \A s, t \in S : s # t => batch[s].pids \cap batch[t].pids = {} }
          : S \in SUBSET Service }

VARIABLES
  reg,    \* ServiceRegistry::services; NoEntry where the map has no such key
  delta,  \* the RegistryDelta of the last call of apply
  now     \* the SystemTime that call was given

vars == <<reg, delta, now>>

----------------------------------------------------------------------------
(***************************************************************************)
(* Reading an entry.                                                       *)
(***************************************************************************)

\* Service::is_running: a host process by its instances, a container by its health.
IsRunning(s, e) ==
  /\ e # NoEntry
  /\ IF s \in Container THEN e.health # "stopped" ELSE e.pids # {}

IsStopped(s, e) == e # NoEntry /\ ~IsRunning(s, e)

RetainWhenStopped(s, e) == e.everListened \/ s \in Container

RunningHealth(e) ==
  IF /\ Len(e.restarts) >= RestartThreshold
     /\ e.restarts[Len(e.restarts)] - e.restarts[1] \in 0..RestartWindow
  THEN "degraded" ELSE "healthy"

\* pid_evidence and no overlap: every process of a running service was replaced.
InPlaceRestart(s, e, o) ==
  /\ IsRunning(s, e)
  /\ e.pids \cap o.pids = {}
  /\ e.pids \cup o.pids # {}

(***************************************************************************)
(* Changing an entry.                                                      *)
(***************************************************************************)
\* Fault: the timestamps are never popped.
RecordRestartUncapped(e, at) ==
  [e EXCEPT !.restartCount = IF @ < MaxRestartCount THEN @ + 1 ELSE @,
            !.restarts = Append(@, at)]

RecordRestart(e, at) ==
  [e EXCEPT !.restartCount = IF @ < MaxRestartCount THEN @ + 1 ELSE @,
            !.restarts = Append(IF Len(@) = RestartThreshold THEN Tail(@) ELSE @, at)]

Insert(o, at) ==
  [pids |-> o.pids, ports |-> o.ports, project |-> o.project, health |-> "healthy",
   lastSeen |-> at, restartCount |-> 0, restarts |-> <<>>, everListened |-> o.ports # {}]

Update(s, e, o, at) ==
  LET counted == IF InPlaceRestart(s, e, o) \/ ~IsRunning(s, e) THEN RecordRestart(e, at) ELSE e
  IN  [counted EXCEPT !.pids = o.pids, !.ports = o.ports, !.project = o.project,
                      !.lastSeen = at, !.everListened = @ \/ o.ports # {},
                      !.health = RunningHealth(counted)]

\* Fault: the endpoints of the dead process stay.
StopKeepingPorts(e) == [e EXCEPT !.pids = {}, !.restarts = <<>>, !.health = "stopped"]

Stop(e) == [e EXCEPT !.pids = {}, !.ports = {}, !.restarts = <<>>, !.health = "stopped"]

(***************************************************************************)
(* The registry after both loops of apply, before eviction.                *)
(***************************************************************************)
Reconciled(batch, at) ==
  [s \in Service |->
     IF s \in DOMAIN batch
     THEN IF reg[s] = NoEntry THEN Insert(batch[s], at) ELSE Update(s, reg[s], batch[s], at)
     ELSE IF IsRunning(s, reg[s]) THEN Stop(reg[s]) ELSE reg[s]]

----------------------------------------------------------------------------
(***************************************************************************)
(* evict_stopped: portless host services age out, then the least recently  *)
(* seen stopped services go until MaxStopped are left.                     *)
(***************************************************************************)
StoppedIn(r) == {s \in Service : IsStopped(s, r[s])}

Expired(r, at) ==
  {s \in StoppedIn(r) : ~RetainWhenStopped(s, r[s]) /\ at - r[s].lastSeen > PortlessRetention}

\* Fault: candidates are taken in id order, as the map iterates.
SeenBeforeById(r, s, t) == s < t

\* The order of the candidates vector: (last_seen, id).
SeenBefore(r, s, t) ==
  r[s].lastSeen < r[t].lastSeen \/ (r[s].lastSeen = r[t].lastSeen /\ s < t)

\* Fault: off by one, MaxStopped + 1 are left.
LeastRecentlySeenLate(r, S) ==
  {s \in S : Cardinality({t \in S : SeenBefore(r, s, t)}) > MaxStopped}

\* The front of that vector: what still has MaxStopped candidates or more behind it.
LeastRecentlySeen(r, S) ==
  {s \in S : Cardinality({t \in S : SeenBefore(r, s, t)}) >= MaxStopped}

Evicted(r, at) ==
  LET expired == Expired(r, at) IN expired \cup LeastRecentlySeen(r, StoppedIn(r) \ expired)

EvictStopped(r, at) ==
  LET evicted == Evicted(r, at) IN [s \in Service |-> IF s \in evicted THEN NoEntry ELSE r[s]]

(***************************************************************************)
(* The delta: `old` and `new` are the registry before and after the batch. *)
(***************************************************************************)
Held(r)    == {s \in Service : r[s] # NoEntry}
Running(r) == {s \in Service : IsRunning(s, r[s])}
PortsIn(e) == IF e = NoEntry THEN {} ELSE e.ports

\* Fault: the stop branch of apply does not report the ports it closes.
PortsClosedByUpdates(old, batch) ==
  {c \in (DOMAIN batch) \X Port : c[2] \in PortsIn(old[c[1]]) \ batch[c[1]].ports}

\* diff_ports in update, and every port of a service that stops.
PortsClosed(old, batch) ==
  {c \in (DOMAIN batch \cup Running(old)) \X Port :
     c[2] \in PortsIn(old[c[1]]) \ (IF c[1] \in DOMAIN batch THEN batch[c[1]].ports ELSE {})}

Changes(old, batch, new) ==
  LET observed == DOMAIN batch
      stopped  == Running(old) \ observed
      health(s) == IF s \in observed THEN new[s].health ELSE "stopped"
  IN  [started      |-> observed \ Running(old),
       stopped      |-> stopped,
       restarted    |-> {s \in observed : InPlaceRestart(s, old[s], batch[s])},
       portsOpened  |-> {c \in observed \X Port : c[2] \in batch[c[1]].ports \ PortsIn(old[c[1]])},
       portsClosed  |-> PortsClosed(old, batch),
       healthChanged |-> {c \in (observed \cup stopped) \X Health \X Health :
                            /\ old[c[1]] # NoEntry /\ old[c[1]].health = c[2]
                            /\ health(c[1]) = c[3] /\ c[2] # c[3]},
       evicted      |-> Held(old) \ Held(new),
       projects     |-> [s \in Held(new) |-> new[s].project]]

NoChanges ==
  [started |-> {}, stopped |-> {}, restarted |-> {}, portsOpened |-> {}, portsClosed |-> {},
   healthChanged |-> {}, evicted |-> {}, projects |-> [s \in {} |-> NoProject]]

----------------------------------------------------------------------------
Init ==
  /\ reg = [s \in Service |-> NoEntry]
  /\ delta = NoChanges
  /\ now = 0

(***************************************************************************)
(* One call of apply.                                                      *)
(***************************************************************************)
Apply(batch, at) ==
  /\ reg' = EvictStopped(Reconciled(batch, at), at)
  /\ delta' = Changes(reg, batch, reg')
  /\ now' = at

Next == \E batch \in Batches, d \in ClockSteps : now + d \in Time /\ Apply(batch, now + d)

Spec == Init /\ [][Next]_vars

----------------------------------------------------------------------------
(***************************************************************************)
(* Properties.                                                             *)
(***************************************************************************)

Changed ==
  [started : SUBSET Service, stopped : SUBSET Service, restarted : SUBSET Service,
   portsOpened : SUBSET (Service \X Port), portsClosed : SUBSET (Service \X Port),
   healthChanged : SUBSET (Service \X Health \X Health), evicted : SUBSET Service,
   projects : UNION {[S -> MaybeProject] : S \in SUBSET Service}]

\* Type invariant, with the cap on the restart timestamps ("so this cannot grow").
TypeOK ==
  /\ reg \in [Service -> Entry \cup {NoEntry}]
  /\ \A s \in Service : reg[s] # NoEntry => Len(reg[s].restarts) <= RestartThreshold
  /\ delta \in Changed
  /\ now \in Time

\* The three records of liveness agree: a service is stopped by its instances (or a
\* container by its health) exactly when its health says so, nothing of the dead process is
\* left on it ("a dead service must not be rendered as listening"), and a degraded service
\* has restarted often enough to be called one.
StoppedIsEmpty ==
  \A s \in Service : reg[s] # NoEntry =>
    /\ reg[s].health = "stopped" <=> ~IsRunning(s, reg[s])
    /\ reg[s].health = "stopped" => reg[s].pids = {} /\ reg[s].ports = {} /\ reg[s].restarts = <<>>
    /\ reg[s].health = "degraded" => reg[s].restartCount >= RestartThreshold

\* "Retention is bounded": after every batch at most MaxStopped stopped services are held,
\* and none of them is a portless host process unseen for longer than its retention.
RetentionBounded ==
  /\ Cardinality(StoppedIn(reg)) <= MaxStopped
  /\ \A s \in StoppedIn(reg) :
       reg[s].everListened \/ s \in Container \/ now - reg[s].lastSeen <= PortlessRetention

OpenPorts(r) == {c \in Service \X Port : c[2] \in PortsIn(r[c[1]])}

\* Following the deltas alone gives the same picture as reading the registry: the services
\* held, those running, their open ports and health, and how often each restarted.  Event
\* derivation, the persistence writer and the dashboard frames follow nothing but deltas.
FollowsFromDelta ==
  /\ Held(reg') = (Held(reg) \cup delta'.started) \ delta'.evicted
  /\ Running(reg') = (Running(reg) \ delta'.stopped) \cup delta'.started
  /\ OpenPorts(reg') = (OpenPorts(reg) \ delta'.portsClosed) \cup delta'.portsOpened
  /\ DOMAIN delta'.projects = Held(reg')
  /\ \A s \in Held(reg) \cap Held(reg') :
       /\ reg'[s].health # reg[s].health
            => <<s, reg[s].health, reg'[s].health>> \in delta'.healthChanged
       /\ reg'[s].restartCount # reg[s].restartCount
            => s \in delta'.started \cup delta'.restarted
       /\ s \in delta'.started \cup delta'.restarted
            => reg'[s].restartCount \in {reg[s].restartCount + 1, MaxRestartCount}

DeltaReplays == [][FollowsFromDelta]_vars

\* A dead listener or container is "my API is down": it is only ever forgotten when MaxStopped
\* other stopped services were seen more recently, and a service just observed never is.
OutagesAreKept ==
  [][ \A s \in Held(reg) \ Held(reg') :
        /\ s \notin delta'.started \cup delta'.restarted
        /\ reg[s].everListened \/ s \in Container =>
             /\ Cardinality(StoppedIn(reg')) >= MaxStopped
             /\ \A t \in StoppedIn(reg') : reg'[t].lastSeen >= reg[s].lastSeen ]_vars

(***************************************************************************)
(* What the comments promise of the restart-loop signal and the code does  *)
(* not do.                                                                 *)
(***************************************************************************)

\* Module comment: a stop followed by a start "is what a crash loop actually looks like at a
\* 1 Hz sample rate, so it has to count".  While the clock has not yet run for a whole
\* window, every counted restart lies inside it, so RestartThreshold of them are a loop.
CrashLoopIsDegraded ==
  \A s \in Running(reg) :
    now <= RestartWindow /\ reg[s].restartCount >= RestartThreshold => reg[s].health = "degraded"

\* running_health: "Recomputed every batch so the signal clears once the loop stops".
LoopSignalClears ==
  \A s \in Running(reg) :
    reg[s].health = "degraded" => now - reg[s].restarts[Len(reg[s].restarts)] <= RestartWindow
=============================================================================
