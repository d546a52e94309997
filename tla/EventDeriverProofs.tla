------------------------- MODULE EventDeriverProofs -------------------------
(***************************************************************************)
(* Proofs about EventDeriver, for every value of its constants.  The only  *)
(* facts about the registry they need are which services a batch starts,   *)
(* stops and leaves running (DeltaMeaning, from StepShape).                *)
(***************************************************************************)
EXTENDS EventDeriver, ServiceRegistryProofs

LEMMA DeltaMeaning ==
  ASSUME IInv, NEW batch \in Batches, NEW at \in Time, Apply(batch, at), NEW s \in Service
  PROVE  /\ s \in delta'.stopped <=> IsRunning(s, reg[s]) /\ s \notin DOMAIN batch
         /\ s \in delta'.started <=> ~IsRunning(s, reg[s]) /\ s \in DOMAIN batch
         /\ s \in delta'.restarted => IsRunning(s, reg[s]) /\ s \in DOMAIN batch
         /\ IsRunning(s, reg'[s]) <=> s \in DOMAIN batch
<1>1. /\ delta'.started = DOMAIN batch \ Running(reg)
      /\ delta'.stopped = Running(reg) \ DOMAIN batch
      /\ delta'.restarted = {t \in DOMAIN batch : InPlaceRestart(t, reg[t], batch[t])}
  BY DEF Apply, Changes
<1>2. IsRunning(s, reg'[s]) <=> s \in DOMAIN batch
  BY StepShape DEF IInv
<1> QED
  BY <1>1, <1>2 DEF Running, InPlaceRestart

(***************************************************************************)
(* The deriver's own invariant: a pending stop is young, and its service   *)
(* is down.                                                                *)
(***************************************************************************)
DeriverInv ==
  /\ IInv
  /\ pending \in [Service -> Time \cup {NotPending}]
  /\ PendingIsShort

LEMMA OverdueMeans ==
  ASSUME NEW since \in Time, NEW at \in Time
  PROVE  ~Overdue(since, at) => at - since <= DebounceWindow
BY DebounceAssumption, LimitAssumption DEF Overdue, Elapsed, Time

LEMMA JustStopped ==
  ASSUME NEW at \in Time PROVE ~Overdue(at, at)
BY DebounceAssumption, LimitAssumption DEF Overdue, Elapsed, Time

LEMMA DeriverInitially == DeriverInit => DeriverInv
<1> SUFFICES ASSUME DeriverInit PROVE DeriverInv
  OBVIOUS
<1>1. IInv
  BY Initially DEF DeriverInit
<1> QED
  BY <1>1 DEF DeriverInit, DeriverInv, PendingIsShort

LEMMA DeriverInductive == DeriverInv /\ [DeriverNext]_deriverVars => DeriverInv'
<1> SUFFICES ASSUME DeriverInv, [DeriverNext]_deriverVars PROVE DeriverInv'
  OBVIOUS
<1>1. CASE UNCHANGED deriverVars
  <2>1. IInv'
    BY <1>1, Inductive DEF DeriverInv, deriverVars, vars
  <2> QED
    BY <1>1, <2>1 DEF DeriverInv, deriverVars, PendingIsShort, IsRunning
<1>2. ASSUME NEW batch \in Batches, NEW d \in ClockSteps, now + d \in Time, Tick(batch, now + d)
      PROVE  DeriverInv'
  <2> DEFINE at == now + d
             recorded == [s \in Service |-> IF s \in delta'.stopped THEN at ELSE pending[s]]
  <2>1. Apply(batch, at) /\ at \in Time /\ now' = at
    BY <1>2 DEF Tick, Apply
  <2>2. IInv'
    <3>1. Next
      BY <1>2, <2>1 DEF Next
    <3> QED
      BY <3>1, Inductive DEF DeriverInv
  <2>3. pending' = PendingAfter(recorded, delta', at)
    BY <1>2 DEF Tick, Derive
  <2>4. recorded \in [Service -> Time \cup {NotPending}]
    BY <2>1 DEF DeriverInv
  <2>5. pending' \in [Service -> Time \cup {NotPending}]
    BY <2>3, <2>4 DEF PendingAfter
  <2>6. ASSUME NEW s \in Service, pending'[s] # NotPending
        PROVE  now' - pending'[s] <= DebounceWindow /\ ~IsRunning(s, reg'[s])
    <3>1. /\ pending'[s] = recorded[s] /\ recorded[s] \in Time
          /\ s \notin delta'.started /\ ~Overdue(recorded[s], at)
      BY <2>3, <2>4, <2>6 DEF PendingAfter
    <3>2. now' - pending'[s] <= DebounceWindow
      BY <2>1, <3>1, OverdueMeans
    <3>3. s \in delta'.stopped \/ ~IsRunning(s, reg[s])
      BY <3>1, DebounceAssumption DEF DeriverInv, PendingIsShort
    <3>4. ~IsRunning(s, reg'[s])
      BY <2>1, <3>1, <3>3, DeltaMeaning DEF DeriverInv
    <3> QED
      BY <3>2, <3>4
  <2> QED
    BY <2>2, <2>5, <2>6 DEF DeriverInv, PendingIsShort
<1> QED
  BY <1>1, <1>2 DEF DeriverNext

LEMMA DeriverInvariance == DeriverSpec => []DeriverInv
BY DeriverInitially, DeriverInductive, PTL DEF DeriverSpec

\* No stop is debounced for longer than the window, and none of a service that runs again.
THEOREM PendingStaysShort == DeriverSpec => []PendingIsShort
<1>1. DeriverInv => PendingIsShort
  BY DEF DeriverInv
<1> QED
  BY <1>1, DeriverInvariance, PTL

\* What one tick tells of one service, by what the batch did to it.
LEMMA LifeMeaning ==
  ASSUME DeriverInv, NEW batch \in Batches, NEW at \in Time, Tick(batch, at), NEW s \in Service
  PROVE  LET up    == IsRunning(s, reg[s])
             obs   == s \in DOMAIN batch
             late  == Overdue(pending[s], at)
             life  == emitted'.life[s]
         IN  /\ IsRunning(s, reg'[s]) <=> obs
             /\ up => pending[s] = NotPending
             /\ up /\ obs => /\ life = IF s \in delta'.restarted THEN <<"Restarted">> ELSE <<>>
                             /\ pending'[s] = NotPending
             /\ up /\ ~obs => life = <<>> /\ pending'[s] # NotPending
             /\ ~up /\ obs => /\ pending'[s] = NotPending
                              /\ pending[s] = NotPending => life = <<"Started">>
                              /\ pending[s] # NotPending => 
                                   life = IF late THEN <<"Stopped", "Started">> ELSE <<"Restarted">>
             /\ ~up /\ ~obs /\ pending[s] = NotPending => life = <<>> /\ pending'[s] = NotPending
             /\ ~up /\ ~obs /\ pending[s] # NotPending =>
                  /\ late => life = <<"Stopped">> /\ pending'[s] = NotPending
                  /\ ~late => life = <<>> /\ pending'[s] # NotPending
<1> DEFINE r == IF s \in delta'.stopped THEN at ELSE pending[s]
<1>1. Apply(batch, at) /\ IInv
  BY DEF Tick, DeriverInv
<1>2. /\ s \in delta'.stopped <=> IsRunning(s, reg[s]) /\ s \notin DOMAIN batch
      /\ s \in delta'.started <=> ~IsRunning(s, reg[s]) /\ s \in DOMAIN batch
      /\ s \in delta'.restarted => IsRunning(s, reg[s]) /\ s \in DOMAIN batch
      /\ IsRunning(s, reg'[s]) <=> s \in DOMAIN batch
  BY <1>1, DeltaMeaning
<1>3. IsRunning(s, reg[s]) => pending[s] = NotPending
  BY DEF DeriverInv, PendingIsShort
<1>4. /\ emitted'.life[s] = Lifecycle(s, r, delta', at)
      /\ pending'[s] = IF s \in delta'.started \/ (r # NotPending /\ Overdue(r, at))
                       THEN NotPending ELSE r
  BY DEF Tick, Derive, PendingAfter
<1>5. at # NotPending /\ ~Overdue(at, at)
  BY JustStopped, DebounceAssumption
<1>6. /\ <<>> \o <<>> = <<>> /\ <<>> \o <<"Stopped">> = <<"Stopped">>
      /\ <<>> \o <<"Restarted">> = <<"Restarted">> /\ <<"Restarted">> \o <<>> = <<"Restarted">>
      /\ <<"Started">> \o <<>> = <<"Started">>
      /\ <<"Stopped", "Started">> \o <<>> = <<"Stopped", "Started">>
  OBVIOUS
<1> QED
  BY <1>2, <1>3, <1>4, <1>5, <1>6 DEF Lifecycle, Starts, Restarts, Flushed

\* The event log can be replayed into which services are up, debounced stops apart.
THEOREM LogIsReplayable == DeriverSpec => LogReplays
<1> DEFINE Told ==
      \A s \in Service :
        LET life == emitted'.life[s]
        IN  /\ life = <<"Started">> => ~ToldUp(reg, pending, s) /\ ToldUp(reg', pending', s)
            /\ life = <<"Stopped">> => ToldUp(reg, pending, s) /\ ~ToldUp(reg', pending', s)
            /\ life \in {<<"Restarted">>, <<"Stopped", "Started">>}
                 => ToldUp(reg, pending, s) /\ IsRunning(s, reg'[s])
            /\ life = <<>> => ToldUp(reg', pending', s) = ToldUp(reg, pending, s)
<1>1. ASSUME DeriverInv, NEW batch \in Batches, NEW at \in Time, Tick(batch, at)
      PROVE  Told
  <2>1. /\ <<"Started">> # <<"Stopped">> /\ <<"Started">> # <<"Restarted">>
        /\ <<"Stopped">> # <<"Restarted">> /\ <<>> # <<"Started">>
        /\ <<>> # <<"Stopped">> /\ <<>> # <<"Restarted">>
        /\ <<"Stopped", "Started">> # <<"Started">> /\ <<"Stopped", "Started">> # <<"Stopped">>
        /\ <<"Stopped", "Started">> # <<"Restarted">> /\ <<"Stopped", "Started">> # <<>>
    OBVIOUS
  <2> QED
    BY <1>1, <2>1, LifeMeaning DEF ToldUp
<1>2. DeriverInv /\ [DeriverNext]_deriverVars => [Told]_deriverVars
  BY <1>1 DEF DeriverNext
<1>3. LogReplays <=> [][Told]_deriverVars
  BY DEF LogReplays
<1> HIDE DEF Told
<1> QED
  BY <1>2, <1>3, DeriverInvariance, PTL DEF DeriverSpec

\* A tick tells only lifecycle events that can follow each other, of projects there are.
THEOREM EventsAreWellFormed == DeriverSpec => []DeriverTypeOK
<1> DEFINE Told == emitted.life \in [Service -> Lives] /\ emitted.project \in [Service -> MaybeProject]
<1>1. DeriverInit => Told
  BY DEF DeriverInit, Nothing, Lives, MaybeProject
<1>2. ASSUME DeriverInv, DeriverInv', NEW batch \in Batches, NEW at \in Time, Tick(batch, at)
      PROVE  Told'
  <2> DEFINE recorded == [s \in Service |-> IF s \in delta'.stopped THEN at ELSE pending[s]]
  <2>1. emitted' = [life    |-> [s \in Service |-> Lifecycle(s, recorded[s], delta', at)],
                    opened  |-> delta'.portsOpened,
                    closed  |-> delta'.portsClosed,
                    health  |-> delta'.healthChanged,
                    project |-> [s \in Service |-> ProjectOf(s, delta')]]
    BY <1>2 DEF Tick, Derive
  <2>2. \A s \in Service : emitted'.life[s] \in Lives
    BY <1>2, LifeMeaning DEF Lives
  <2>3. \A s \in Service : ProjectOf(s, delta') \in MaybeProject
    <3>1. delta'.projects \in UNION {[S -> MaybeProject] : S \in SUBSET Service}
      BY <1>2 DEF DeriverInv, IInv, Changed
    <3> QED
      BY <3>1 DEF ProjectOf, MaybeProject
  <2>4. emitted'.life = [s \in Service |-> emitted'.life[s]]
    BY <2>1
  <2>5. emitted'.life \in [Service -> Lives]
    BY <2>2, <2>4
  <2>6. emitted'.project \in [Service -> MaybeProject]
    BY <2>1, <2>3
  <2> QED
    BY <2>5, <2>6
<1>3. Told /\ DeriverInv /\ DeriverInv' /\ [DeriverNext]_deriverVars => Told'
  <2>1. CASE UNCHANGED deriverVars
    BY <2>1 DEF deriverVars
  <2>2. CASE DeriverNext
    BY <1>2, <2>2 DEF DeriverNext
  <2> QED
    BY <2>1, <2>2
<1>4. DeriverInv /\ Told => DeriverTypeOK
  BY DEF DeriverInv, DeriverTypeOK
<1> HIDE DEF Told
<1> QED
  BY <1>1, <1>3, <1>4, DeriverInvariance, PTL DEF DeriverSpec

\* restart_count and the event log tell the same story of a service that stays held.
THEOREM CountAndLogAgree == DeriverSpec => RestartsAreTold
<1> DEFINE Agree ==
      \A s \in Held(reg) \cap Held(reg') :
        LET back == emitted'.life[s] \in {<<"Restarted">>, <<"Started">>, <<"Stopped", "Started">>}
        IN  /\ reg'[s].restartCount # reg[s].restartCount => back
            /\ back => reg'[s].restartCount \in {reg[s].restartCount + 1, MaxRestartCount}
<1>1. ASSUME DeriverInv, NEW batch \in Batches, NEW at \in Time, Tick(batch, at)
      PROVE  Agree
  <2> SUFFICES ASSUME NEW s \in Held(reg) \cap Held(reg')
               PROVE  LET back == emitted'.life[s]
                                    \in {<<"Restarted">>, <<"Started">>, <<"Stopped", "Started">>}
                      IN  /\ reg'[s].restartCount # reg[s].restartCount => back
                          /\ back => reg'[s].restartCount \in {reg[s].restartCount + 1, MaxRestartCount}
    OBVIOUS
  <2>1. s \in Service /\ Apply(batch, at) /\ IInv
    BY <1>1 DEF Held, Tick, DeriverInv
  <2>2. /\ s \in delta'.started <=> ~IsRunning(s, reg[s]) /\ s \in DOMAIN batch
        /\ s \in delta'.restarted => IsRunning(s, reg[s]) /\ s \in DOMAIN batch
    BY <2>1, DeltaMeaning
  <2>3. /\ <<"Stopped">> # <<"Restarted">> /\ <<"Stopped">> # <<"Started">>
        /\ <<>> # <<"Started">> /\ <<>> # <<"Restarted">> /\ <<>> # <<"Stopped", "Started">>
        /\ <<"Stopped", "Started">> # <<"Stopped">>
    OBVIOUS
  <2>4. s \in delta'.started \cup delta'.restarted <=>
          emitted'.life[s] \in {<<"Restarted">>, <<"Started">>, <<"Stopped", "Started">>}
    BY <1>1, <2>1, <2>2, <2>3, LifeMeaning
  <2>5. /\ reg'[s].restartCount # reg[s].restartCount => s \in delta'.started \cup delta'.restarted
        /\ s \in delta'.started \cup delta'.restarted
             => reg'[s].restartCount \in {reg[s].restartCount + 1, MaxRestartCount}
    BY <2>1, DeltaStep DEF FollowsFromDelta
  <2> QED
    BY <2>4, <2>5
<1>2. DeriverInv /\ [DeriverNext]_deriverVars => [Agree]_deriverVars
  BY <1>1 DEF DeriverNext
<1>3. RestartsAreTold <=> [][Agree]_deriverVars
  BY DEF RestartsAreTold
<1> HIDE DEF Agree
<1> QED
  BY <1>2, <1>3, DeriverInvariance, PTL DEF DeriverSpec
=============================================================================
