---------------------------- MODULE EventDeriver ----------------------------
(***************************************************************************)
(* The event deriver of crates/runscape-events/src/lib.rs.  It consumes    *)
(* the registry's deltas, one per tick, so a step of this specification is *)
(* a tick: ServiceRegistry::apply and then EventDeriver::derive on the     *)
(* delta it returned, as the snapshot loop of the daemon calls them.       *)
(*                                                                         *)
(* A stop is not told at once.  It stays pending for DebounceWindow, and a *)
(* start that comes in time turns the two into one restart.                *)
(*                                                                         *)
(* Abstractions.  derive writes the events of one service in a fixed order *)
(* and its properties are about one service at a time, so the output keeps *)
(* a sequence of lifecycle events per service.  Ids, PIDs and timestamps   *)
(* of events are left out; connection events are in no property.           *)
(***************************************************************************)
EXTENDS ServiceRegistry

CONSTANTS
  DebounceWindow,  \* RESTART_DEBOUNCE_WINDOW
  NotPending       \* no entry in pending_stop

ASSUME DebounceAssumption == DebounceWindow \in Nat /\ NotPending \notin Time

VARIABLES
  pending,   \* pending_stop: when each service stopped whose stop is not told yet
  emitted    \* the events of the last call of derive

deriverVars == <<reg, delta, now, pending, emitted>>

----------------------------------------------------------------------------
\* at.duration_since(stopped.at).unwrap_or_default(): no time has passed on a clock that
\* went backwards.
Elapsed(since, at) == IF at >= since THEN at - since ELSE 0

Overdue(since, at) == Elapsed(since, at) > DebounceWindow

\* Fault: a start leaves the stop it resolves pending.
PendingAfterKeepsResolved(recorded, d, at) ==
  [s \in Service |->
     IF recorded[s] # NotPending /\ Overdue(recorded[s], at) THEN NotPending ELSE recorded[s]]

\* pending_stop after a call: starts take theirs out, the flush those that are overdue.
PendingAfter(recorded, d, at) ==
  [s \in Service |->
     IF s \in d.started \/ (recorded[s] # NotPending /\ Overdue(recorded[s], at))
     THEN NotPending ELSE recorded[s]]

\* The start loop: a start with a pending stop in time is a restart, one too late tells
\* the stop first.
Starts(s, stoppedAt, d, at) ==
  CASE s \notin d.started                              -> <<>>
    [] s \in d.started /\ stoppedAt = NotPending       -> <<"Started">>
    [] s \in d.started /\ stoppedAt # NotPending       ->
         IF Overdue(stoppedAt, at) THEN <<"Stopped", "Started">> ELSE <<"Restarted">>

\* Fault: in-place restarts are not told.
RestartsUntold(s, d) == <<>>

\* The restarts the registry collapsed into a change of PIDs.
Restarts(s, d) == IF s \in d.restarted THEN <<"Restarted">> ELSE <<>>

\* Fault: the flush drops a stop that is overdue without telling it.
FlushedSilently(s, stoppedAt, d, at) == <<>>

\* Fault: the flush does not see that a start has told the overdue stop already.
FlushedTwice(s, stoppedAt, d, at) ==
  IF stoppedAt # NotPending /\ Overdue(stoppedAt, at) THEN <<"Stopped">> ELSE <<>>

\* The flush tells the overdue stops that no start has taken out.
Flushed(s, stoppedAt, d, at) ==
  IF s \notin d.started /\ stoppedAt # NotPending /\ Overdue(stoppedAt, at)
  THEN <<"Stopped">> ELSE <<>>

\* The lifecycle events of one service, in the order derive pushes them.
Lifecycle(s, stoppedAt, d, at) ==
  Starts(s, stoppedAt, d, at) \o Restarts(s, d) \o Flushed(s, stoppedAt, d, at)

\* projects.get(service_id).and_then(..): an evicted service has no project any more.
ProjectOf(s, d) == IF s \in DOMAIN d.projects THEN d.projects[s] ELSE NoProject

(***************************************************************************)
(* One call of derive on the registry delta d.                             *)
(***************************************************************************)
Derive(d, at) ==
  LET recorded == [s \in Service |-> IF s \in d.stopped THEN at ELSE pending[s]]
  IN  /\ pending' = PendingAfter(recorded, d, at)
      /\ emitted' = [life    |-> [s \in Service |-> Lifecycle(s, recorded[s], d, at)],
                     opened  |-> d.portsOpened,
                     closed  |-> d.portsClosed,
                     health  |-> d.healthChanged,
                     project |-> [s \in Service |-> ProjectOf(s, d)]]

Nothing ==
  [life |-> [s \in Service |-> <<>>], opened |-> {}, closed |-> {}, health |-> {},
   project |-> [s \in Service |-> NoProject]]

DeriverInit ==
  /\ Init
  /\ pending = [s \in Service |-> NotPending]
  /\ emitted = Nothing

Tick(batch, at) == Apply(batch, at) /\ Derive(delta', at)

DeriverNext == \E batch \in Batches, d \in ClockSteps : now + d \in Time /\ Tick(batch, now + d)

DeriverSpec == DeriverInit /\ [][DeriverNext]_deriverVars

----------------------------------------------------------------------------
(***************************************************************************)
(* Properties.                                                             *)
(***************************************************************************)
Lives == {<<>>, <<"Started">>, <<"Stopped">>, <<"Restarted">>, <<"Stopped", "Started">>}

DeriverTypeOK ==
  /\ pending \in [Service -> Time \cup {NotPending}]
  /\ emitted.life \in [Service -> Lives]
  /\ emitted.project \in [Service -> MaybeProject]

\* What a reader of the event log takes a service to be: told to have started, and not told
\* to have stopped since.
ToldUp(r, p, s) == IsRunning(s, r[s]) \/ p[s] # NotPending

\* The log can be replayed: a start is only told of a service that was down, a stop or a
\* restart only of one that was up, a silent tick changes nothing, and the log agrees with
\* the registry except while a stop is being debounced.
LogReplays ==
  [][ \A s \in Service :
        LET life == emitted'.life[s]
        IN  /\ life = <<"Started">> => ~ToldUp(reg, pending, s) /\ ToldUp(reg', pending', s)
            /\ life = <<"Stopped">> => ToldUp(reg, pending, s) /\ ~ToldUp(reg', pending', s)
            /\ life \in {<<"Restarted">>, <<"Stopped", "Started">>}
                 => ToldUp(reg, pending, s) /\ IsRunning(s, reg'[s])
            /\ life = <<>> => ToldUp(reg', pending', s) = ToldUp(reg, pending, s)
    ]_deriverVars

\* No stop waits longer than the debounce window: after a tick every pending stop is within
\* it, and none is pending for a service that runs again (it would be told as a stop).
PendingIsShort ==
  \A s \in Service : pending[s] # NotPending =>
    /\ now - pending[s] <= DebounceWindow
    /\ ~IsRunning(s, reg[s])

\* The registry's restart_count and the log tell the same story of a service that stays
\* held: the count moves exactly when the log says it restarted or started again.
RestartsAreTold ==
  [][ \A s \in Held(reg) \cap Held(reg') :
        LET back == emitted'.life[s] \in {<<"Restarted">>, <<"Started">>, <<"Stopped", "Started">>}
        IN  /\ reg'[s].restartCount # reg[s].restartCount => back
            /\ back => reg'[s].restartCount \in {reg[s].restartCount + 1, MaxRestartCount}
    ]_deriverVars
=============================================================================
