---------------------------- MODULE WarningEngine ----------------------------
(***************************************************************************)
(* The warnings: WarningEngine of crates/runscape-events/src/warnings.rs,  *)
(* the part of apply_tick that feeds it, and what a dashboard and the      *)
(* database keep of its answers.                                           *)
(*                                                                         *)
(* The rules read services, their samples and a window cut from the ring   *)
(* of events; a dashboard hears of the differences only.  The ring also    *)
(* has the file events, which carry the watcher's time and not the tick's. *)
(*                                                                         *)
(* Abstractions.  A warning is its id, that is a rule and its subject; a   *)
(* service is what the rules look at, and claims one port or none.  The    *)
(* clock goes forward, and the ring comes back whole after a restart.      *)
(***************************************************************************)
EXTENDS Integers, Sequences, FiniteSets, SequencesExt

CONSTANTS
  Subject,          \* ids of services
  Sighting,         \* what a tick can see of each service
  restart_threshold, restart_window, cpu_samples, growth_samples, event_window,
                    \* WarningRules
  EVENT_RING_CAPACITY,
  TickLength,       \* time between two ticks
  Backlog,          \* how long a file event may have waited for its tick
  MaxClock,         \* bound of the model: time
  MaxStarts         \* bound of the model: starts of the daemon

ASSUME SightingAssumption ==
  \A s \in Subject :
    Sighting[s] \subseteq [state : {"absent", "stopped", "running", "degraded"},
                           restarted : BOOLEAN, listens : BOOLEAN, busy : BOOLEAN, bytes : Nat]

\* By default 60 and 300 seconds; and 256 waiting events, 20 a tick, are taken in 13 ticks of one
\* second, or of five when nobody looks.
ASSUME WindowAssumption ==
  /\ restart_window \in Nat /\ event_window \in Nat
  /\ Backlog \in Nat \ {0} /\ restart_window + Backlog <= event_window
  /\ restart_threshold \in Nat /\ EVENT_RING_CAPACITY \in Nat
  /\ TickLength \subseteq Nat
  /\ IsFiniteSet(Subject) /\ "file" \notin Subject

VARIABLES
  clock,    \* the time of the last tick
  seen,     \* view.services
  history,  \* view.resources
  ring,     \* view.events
  active,   \* of the engine
  warnings, \* view.warnings
  kept,     \* the rows of the table of warnings
  ticked,   \* whether this daemon has had a tick
  sync,     \* when the dashboard connected: "no", "early" (before the first tick) or "late"
  shown,    \* the warnings of the dashboard
  starts    \* how often MaxStarts was drawn on

warnVars == <<clock, seen, history, ring, active, warnings, kept, ticked, sync, shown, starts>>

Absent == [state |-> "absent", restarted |-> FALSE, listens |-> FALSE, busy |-> FALSE, bytes |-> 0]

Runs(o) == o.state \in {"running", "degraded"}

Newest(q, n) == SubSeq(q, IF Len(q) > n THEN Len(q) - n + 1 ELSE 1, Len(q))

----------------------------------------------------------------------------
(***************************************************************************)
(* The rules.  Their input has services, history and events.               *)
(***************************************************************************)
warning_id(rule, subject) == [rule |-> rule, subject |-> subject]
Of(rule, S) == {warning_id(rule, s) : s \in S}

events_within(input, at, window) == {e \in input.events : at - e.at \in 0..window}

restart_loops(input, at) ==
  LET Times(s) == {e \in events_within(input, at, restart_window) : e.about = s}
  IN Of("restart_loop", {s \in Subject : /\ input.services[s].state # "absent"
                                         /\ Cardinality(Times(s)) >= restart_threshold})

\* The last n samples of a running service, if there are as many.
Lately(input, s, n) ==
  IF Runs(input.services[s]) /\ Len(input.history[s]) >= n THEN Newest(input.history[s], n) ELSE <<>>

cpu_spikes(input) ==
  Of("cpu_spike", {s \in Subject :
    LET q == Lately(input, s, cpu_samples)
    IN  q # <<>> /\ \A i \in DOMAIN q : q[i].busy})

memory_growth(input) ==
  Of("memory_growth", {s \in Subject :
    LET q == Lately(input, s, growth_samples)
    IN  /\ q # <<>> /\ q[1].bytes # 0 /\ 2 * q[Len(q)].bytes >= 3 * q[1].bytes
        /\ \A i \in 2..Len(q) : q[i].bytes >= q[i - 1].bytes})

health_failures(input) ==
  Of("health_failure", {s \in Subject : input.services[s].state = "degraded"})

port_conflicts(input) ==
  LET Claimants == {s \in Subject : Runs(input.services[s]) /\ input.services[s].listens}
  IN IF Cardinality(Claimants) > 1 THEN Of("port_conflict", {"port"}) ELSE {}

Fired(input, at) ==
  UNION {restart_loops(input, at), cpu_spikes(input), memory_growth(input),
         health_failures(input), port_conflicts(input)}

----------------------------------------------------------------------------
(***************************************************************************)
(* A tick.                                                                 *)
(***************************************************************************)
\* The events of a tick: the restarts at its time, then what the watcher has had.
NewEvents(sight, at, files) ==
  SetToSeq({[about |-> s, at |-> at] : s \in {s \in Subject : sight[s].restarted}})
  \o SetToSeq({[about |-> "file", at |-> t] : t \in files})

\* Samples are taken of what runs, and forgotten with an evicted service.
Recorded(sight, s) ==
  CASE sight[s].state = "absent"  -> <<>>
    [] sight[s].state = "stopped" -> history[s]
    [] Runs(sight[s])             ->
         Newest(Append(history[s], [busy |-> sight[s].busy, bytes |-> sight[s].bytes]),
                IF cpu_samples > growth_samples THEN cpu_samples ELSE growth_samples)

\* Fault: the ring is read from its oldest event on.
WindowFromOldest(q, at) == {q[i] : i \in {i \in DOMAIN q : \A j \in 1..i : at - q[j].at \in 0..event_window}}

\* take_while from the newest event on.
Window(q, at) == {q[i] : i \in {i \in DOMAIN q : \A j \in i..Len(q) : at - q[j].at \in 0..event_window}}

\* evaluate, its frame, and the row of each warning that is active when some changed.
Evaluate(fired) ==
  LET added   == fired \ active
      removed == active \ fired
  IN  /\ active' = fired /\ warnings' = fired
      /\ shown' = IF sync = "no" THEN shown ELSE (shown \ removed) \cup added
      /\ kept' = IF added \cup removed = {} THEN kept ELSE kept \cup fired

\* apply_tick, on the services seen at a time and the file events drained since.
ApplyTick(sight, at, files) ==
  /\ clock' = at /\ seen' = sight /\ ticked' = TRUE
  /\ history' = [s \in Subject |-> Recorded(sight, s)]
  /\ ring' = Newest(ring \o NewEvents(sight, at, files), EVENT_RING_CAPACITY)
  /\ \E window \in {Window(ring', at)} :
       \E fired \in {Fired([services |-> sight, history |-> history', events |-> window], at)} :
         Evaluate(fired)
  /\ UNCHANGED <<sync, starts>>

\* A file has changed up to Backlog before the tick, or a moment after its time: the watcher is
\* drained when the tick has been collected.
WarnTick ==
  \E sight \in [Subject -> UNION Range(Sighting)], d \in TickLength :
    /\ \A s \in Subject : sight[s] \in Sighting[s]
    /\ clock + d <= MaxClock
    /\ \E files \in {{}} \cup {{clock + d + late} : late \in (-Backlog)..1} :
         ApplyTick(sight, clock + d, files)

\* The snapshot of a new connection.
Connect ==
  /\ sync = "no"
  /\ sync' = (IF ticked THEN "late" ELSE "early") /\ shown' = warnings
  /\ UNCHANGED <<clock, seen, history, ring, active, warnings, kept, ticked, starts>>

\* Services and samples are not restored; warnings are, whether they still hold or not.
StartAgain ==
  /\ starts < MaxStarts
  /\ starts' = starts + 1
  /\ seen' = [s \in Subject |-> Absent] /\ history' = [s \in Subject |-> <<>>]
  /\ active' = {} /\ warnings' = kept
  /\ ticked' = FALSE /\ sync' = "no" /\ shown' = {}
  /\ UNCHANGED <<clock, ring, kept>>

WarnInit ==
  /\ clock = 0 /\ ring = <<>> /\ starts = 0 /\ kept = {}
  /\ seen = [s \in Subject |-> Absent] /\ history = [s \in Subject |-> <<>>]
  /\ active = {} /\ warnings = {} /\ ticked = FALSE /\ sync = "no" /\ shown = {}

WarnNext == WarnTick \/ Connect \/ StartAgain

WarnSpec == WarnInit /\ [][WarnNext]_warnVars

----------------------------------------------------------------------------
(***************************************************************************)
(* Properties.                                                             *)
(***************************************************************************)
\* What the rules say of the last tick over all events the ring has.
Truth == Fired([services |-> seen, history |-> history, events |-> ToSet(ring)], clock)

\* A dashboard that connected after the first tick shows exactly what the rules say of the last
\* one, with whatever the daemon remembered of an earlier life; one that was there before has
\* all of these, and whatever of the restored ones was not true any more.  Nothing shown is
\* false otherwise; what is true is missing only while the ring has an event later than the
\* tick, which the window is cut at.
WarningsAreTrue ==
  ticked =>
    /\ LET true == Truth IN
       warnings \subseteq true /\ ((\A i \in DOMAIN ring : ring[i].at <= clock) => warnings = true)
    /\ sync = "late" => shown = warnings
    /\ sync = "early" => warnings \subseteq shown /\ shown \subseteq kept
=============================================================================
