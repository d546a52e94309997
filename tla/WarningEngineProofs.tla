------------------------ MODULE WarningEngineProofs ------------------------
(***************************************************************************)
(* Proofs about WarningEngine, for every value of its constants: what the  *)
(* dashboard is shown is what the rules say.                               *)
(***************************************************************************)
EXTENDS WarningEngine, FiniteSetTheorems, TLAPS

----------------------------------------------------------------------------
(***************************************************************************)
(* Sequences.                                                              *)
(***************************************************************************)
LEMMA ImageIsFinite ==
  ASSUME NEW S, IsFiniteSet(S), NEW f, DOMAIN f = S, f = [x \in S |-> f[x]]
  PROVE  IsFiniteSet({f[x] : x \in S})
<1> DEFINE T == {f[x] : x \in S}
<1>1. f \in Surjection(S, T)
  BY DEF Surjection
<1> HIDE DEF T
<1>2. IsFiniteSet(T)
  BY <1>1, FS_Surjection
<1> QED
  BY <1>2 DEF T

LEMMA SeqWider ==
  ASSUME NEW S, NEW T, S \subseteq T, NEW q \in Seq(S)
  PROVE  q \in Seq(T)
OBVIOUS

LEMMA SeqElements ==
  ASSUME NEW S, NEW q \in Seq(S)
  PROVE  /\ Len(q) \in Nat /\ DOMAIN q = 1..Len(q)
         /\ \A i \in DOMAIN q : q[i] \in S
         /\ q = [i \in 1..Len(q) |-> q[i]]
OBVIOUS

LEMMA SeqConcat ==
  ASSUME NEW S, NEW p \in Seq(S), NEW q \in Seq(S)
  PROVE  /\ p \o q \in Seq(S) /\ Len(p \o q) = Len(p) + Len(q)
         /\ \A i \in DOMAIN p : i \in DOMAIN (p \o q) /\ (p \o q)[i] = p[i]
         /\ \A i \in DOMAIN (p \o q) : i \notin DOMAIN p =>
              /\ i - Len(p) \in DOMAIN q /\ (p \o q)[i] = q[i - Len(p)]
              /\ \A j \in DOMAIN p : j < i
OBVIOUS

LEMMA ToSetIsFinite ==
  ASSUME NEW S, NEW q \in Seq(S)
  PROVE  IsFiniteSet(ToSet(q)) /\ ToSet(q) = {q[i] : i \in DOMAIN q}
<1>1. DOMAIN q = 1..Len(q) /\ Len(q) \in Nat /\ q = [i \in DOMAIN q |-> q[i]]
  OBVIOUS
<1>2. IsFiniteSet(DOMAIN q)
  <2>1. ASSUME NEW n \in Nat PROVE IsFiniteSet(1..n)
    BY FS_Interval
  <2> QED
    BY <1>1, <2>1
<1> QED
  BY <1>1, <1>2, ImageIsFinite DEF ToSet

LEMMA SetToSeqShape ==
  ASSUME NEW S, IsFiniteSet(S)
  PROVE  SetToSeq(S) \in Seq(S)
<1>1. PICK f : f \in Bijection(1..Cardinality(S), S)
  BY FS_CardinalityType DEF ExistsBijection
<1>2. f \in [1..Cardinality(S) -> S] /\ IsInjective(f)
  BY <1>1 DEF Bijection, Injection
<1>3. SetToSeq(S) \in [1..Cardinality(S) -> S]
  BY <1>2 DEF SetToSeq
<1>4. Cardinality(S) \in Nat
  BY FS_CardinalityType
<1> QED
  BY <1>3, <1>4

\* The newest elements are the end of the sequence.
LEMMA NewestShape ==
  ASSUME NEW S, NEW q \in Seq(S), NEW n \in Nat
  PROVE  /\ Newest(q, n) \in Seq(S)
         /\ \E k \in Nat : /\ k + Len(Newest(q, n)) = Len(q)
                           /\ \A i \in DOMAIN Newest(q, n) : Newest(q, n)[i] = q[k + i]
<1> DEFINE first == IF Len(q) > n THEN Len(q) - n + 1 ELSE 1
           k == first - 1
<1>1. first \in 1..(Len(q) + 1) /\ Len(q) \in Nat /\ k \in Nat /\ k + 1 = first
  OBVIOUS
<1>2. Newest(q, n) = SubSeq(q, first, Len(q))
  BY DEF Newest
<1> HIDE DEF first, k
<1>3. /\ SubSeq(q, first, Len(q)) \in Seq(S)
      /\ Len(SubSeq(q, first, Len(q))) = Len(q) - first + 1
      /\ \A i \in 1..(Len(q) - first + 1) : SubSeq(q, first, Len(q))[i] = q[first + i - 1]
  BY <1>1
<1>4. DOMAIN SubSeq(q, first, Len(q)) = 1..(Len(q) - first + 1)
  BY <1>3
<1>5. /\ k + Len(SubSeq(q, first, Len(q))) = Len(q)
      /\ \A i \in DOMAIN SubSeq(q, first, Len(q)) : SubSeq(q, first, Len(q))[i] = q[k + i]
  BY <1>1, <1>3, <1>4
<1> QED
  BY <1>1, <1>2, <1>3, <1>5

----------------------------------------------------------------------------
(***************************************************************************)
(* The rules.  Events matter to restart loops only, and more events never  *)
(* make one of them go away.                                               *)
(***************************************************************************)
RestartsSeen(input, at, s) == {e \in events_within(input, at, restart_window) : e.about = s}

LEMMA OtherRules ==
  ASSUME NEW a, NEW b, a.services = b.services, a.history = b.history
  PROVE  /\ cpu_spikes(a) = cpu_spikes(b)
         /\ memory_growth(a) = memory_growth(b)
         /\ health_failures(a) = health_failures(b)
         /\ port_conflicts(a) = port_conflicts(b)
BY DEF cpu_spikes, memory_growth, health_failures, port_conflicts, Lately

LEMMA LoopsGrow ==
  ASSUME NEW a, NEW b, NEW at, a.services = b.services, a.events \subseteq b.events,
         IsFiniteSet(b.events)
  PROVE  restart_loops(a, at) \subseteq restart_loops(b, at)
<1>1. ASSUME NEW s \in Subject
      PROVE  /\ Cardinality(RestartsSeen(a, at, s)) \in Nat /\ Cardinality(RestartsSeen(b, at, s)) \in Nat
             /\ Cardinality(RestartsSeen(a, at, s)) <= Cardinality(RestartsSeen(b, at, s))
  <2>1. RestartsSeen(a, at, s) \subseteq RestartsSeen(b, at, s) /\ RestartsSeen(b, at, s) \subseteq b.events
    BY DEF RestartsSeen, events_within
  <2>2. IsFiniteSet(RestartsSeen(b, at, s))
    BY <2>1, FS_Subset
  <2> QED
    BY <2>1, <2>2, FS_Subset, FS_CardinalityType
<1>2. ASSUME NEW s \in Subject, Cardinality(RestartsSeen(a, at, s)) >= restart_threshold
      PROVE  Cardinality(RestartsSeen(b, at, s)) >= restart_threshold
  BY <1>1, <1>2, WindowAssumption
<1> QED
  BY <1>2 DEF restart_loops, Of, RestartsSeen

LEMMA LoopsSame ==
  ASSUME NEW a, NEW b, NEW at, a.services = b.services,
         \A s \in Subject : RestartsSeen(a, at, s) = RestartsSeen(b, at, s)
  PROVE  restart_loops(a, at) = restart_loops(b, at)
BY DEF restart_loops, Of, RestartsSeen

----------------------------------------------------------------------------
(***************************************************************************)
(* The ring.  Restarts lie in it in the order of their times, and what     *)
(* comes after a restart is older by the backlog at most: a file event.    *)
(* So the window, which reads the ring from its end and stops at the first *)
(* event too old, has every restart of the restart window.                 *)
(***************************************************************************)
RingEvent == [about : Subject \cup {"file"}, at : Int]

RingInv ==
  /\ clock \in Nat
  /\ ring \in Seq(RingEvent)
  /\ \A i \in DOMAIN ring : ring[i].about \in Subject =>
       /\ ring[i].at <= clock
       /\ \A j \in DOMAIN ring : i < j => ring[j].at >= ring[i].at - Backlog

LEMMA RingEventShape ==
  /\ \A e \in RingEvent : e.at \in Int /\ e.about \in Subject \cup {"file"}
  /\ \A T \in SUBSET Int : /\ [about : Subject, at : T] \subseteq RingEvent
                           /\ [about : {"file"}, at : T] \subseteq RingEvent
BY DEF RingEvent

LEMMA NewEventsShape ==
  ASSUME NEW sight, NEW at \in Int, NEW files \in SUBSET Int, IsFiniteSet(files)
  PROVE  \E restarts \in Seq([about : Subject, at : {at}]),
            changes \in Seq([about : {"file"}, at : files]) :
              NewEvents(sight, at, files) = restarts \o changes
<1> DEFINE R == {[about |-> s, at |-> at] : s \in {s \in Subject : sight[s].restarted}}
           F == {[about |-> "file", at |-> t] : t \in files}
<1>1. R \subseteq [about : Subject, at : {at}] /\ F \subseteq [about : {"file"}, at : files]
  OBVIOUS
<1>2. IsFiniteSet(R)
  <2> DEFINE S == {s \in Subject : sight[s].restarted}
             f == [s \in S |-> [about |-> s, at |-> at]]
  <2>1. IsFiniteSet(S)
    BY FS_Subset, WindowAssumption
  <2>2. IsFiniteSet({f[s] : s \in S})
    BY <2>1, ImageIsFinite
  <2>3. {f[s] : s \in S} = R
    OBVIOUS
  <2> QED
    BY <2>2, <2>3
<1>3. IsFiniteSet(F)
  <2> DEFINE f == [t \in files |-> [about |-> "file", at |-> t]]
  <2>1. IsFiniteSet({f[t] : t \in files})
    BY ImageIsFinite
  <2>2. {f[t] : t \in files} = F
    OBVIOUS
  <2> QED
    BY <2>1, <2>2
<1>4. SetToSeq(R) \in Seq(R) /\ SetToSeq(F) \in Seq(F)
  BY <1>2, <1>3, SetToSeqShape
<1>5. NewEvents(sight, at, files) = SetToSeq(R) \o SetToSeq(F)
  BY DEF NewEvents
<1> HIDE DEF R, F
<1>6. SetToSeq(R) \in Seq([about : Subject, at : {at}]) /\ SetToSeq(F) \in Seq([about : {"file"}, at : files])
  BY <1>1, <1>4, SeqWider
<1> QED
  BY <1>5, <1>6

\* A sequence of events in which restarts are in order.
InOrder(q, at) ==
  \A i \in DOMAIN q : q[i].about \in Subject =>
    /\ q[i].at <= at
    /\ \A j \in DOMAIN q : i < j => q[j].at >= q[i].at - Backlog

LEMMA RingTick ==
  ASSUME RingInv, NEW sight, NEW d \in TickLength, NEW files \in SUBSET Int,
         IsFiniteSet(files), \A t \in files : t >= clock + d - Backlog,
         ApplyTick(sight, clock + d, files)
  PROVE  RingInv'
<1> DEFINE at == clock + d
           new == NewEvents(sight, at, files)
           all == ring \o new
<1>1. /\ clock \in Nat /\ d \in Nat /\ at \in Nat /\ at >= clock
      /\ clock' = at /\ ring' = Newest(all, EVENT_RING_CAPACITY)
      /\ \A t \in files : t >= at - Backlog
  <2>1. clock \in Nat /\ d \in Nat /\ at \in Nat /\ at >= clock
    BY WindowAssumption DEF RingInv
  <2>2. clock' = at /\ ring' = Newest(all, EVENT_RING_CAPACITY)
    BY DEF ApplyTick
  <2>3. \A t \in files : t >= at - Backlog
    <3> HIDE DEF new, all
    <3> QED
      BY <2>1, WindowAssumption DEF at
  <2> HIDE DEF at, new, all
  <2> QED
    BY <2>1, <2>2, <2>3
<1>2. PICK restarts \in Seq([about : Subject, at : {at}]),
           changes \in Seq([about : {"file"}, at : files]) :
             new = restarts \o changes
  <2>1. at \in Int
    BY <1>1
  <2> HIDE DEF at
  <2> QED
    BY <1>1, <2>1, NewEventsShape DEF new
<1> HIDE DEF at, new, all
<1>3. /\ new \in Seq(RingEvent)
      /\ \A i \in DOMAIN new : new[i].at >= at - Backlog /\ (new[i].about \in Subject => new[i].at = at)
  <2>1. /\ [about : Subject, at : {at}] \subseteq RingEvent
        /\ [about : {"file"}, at : files] \subseteq RingEvent
    <3>1. {at} \in SUBSET Int
      BY <1>1
    <3> QED
      BY <1>1, <3>1, RingEventShape
  <2>2. restarts \in Seq(RingEvent) /\ changes \in Seq(RingEvent)
    BY <2>1, SeqWider
  <2>3. /\ new \in Seq(RingEvent)
        /\ \A i \in DOMAIN restarts : i \in DOMAIN new /\ new[i] = restarts[i]
        /\ \A i \in DOMAIN new : i \notin DOMAIN restarts =>
             i - Len(restarts) \in DOMAIN changes /\ new[i] = changes[i - Len(restarts)]
    BY <1>2, <2>2, SeqConcat
  <2>4. /\ \A i \in DOMAIN restarts : restarts[i] \in [about : Subject, at : {at}]
        /\ \A i \in DOMAIN changes : changes[i] \in [about : {"file"}, at : files]
    BY SeqElements
  <2>5. \A i \in DOMAIN new : new[i].at = at \/ (new[i].about = "file" /\ new[i].at \in files)
    BY <2>3, <2>4
  <2>6. ASSUME NEW i \in DOMAIN new
        PROVE  new[i].at >= at - Backlog /\ (new[i].about \in Subject => new[i].at = at)
    <3>1. CASE new[i].at = at
      BY <1>1, <3>1, WindowAssumption
    <3>2. CASE new[i].about = "file" /\ new[i].at \in files
      BY <1>1, <3>2, WindowAssumption
    <3> QED
      BY <2>5, <3>1, <3>2
  <2> QED
    BY <2>3, <2>6
<1>4. ring \in Seq(RingEvent) /\ all \in Seq(RingEvent) /\ Len(all) = Len(ring) + Len(new)
  BY <1>3, SeqConcat DEF RingInv, all
<1>5. /\ \A i \in DOMAIN ring : i \in DOMAIN all /\ all[i] = ring[i]
      /\ \A i \in DOMAIN all : i \notin DOMAIN ring =>
           /\ i - Len(ring) \in DOMAIN new /\ all[i] = new[i - Len(ring)]
           /\ \A j \in DOMAIN ring : j < i
  BY <1>3, <1>4, SeqConcat DEF all
<1>6. InOrder(all, at)
  <2> SUFFICES ASSUME NEW i \in DOMAIN all, all[i].about \in Subject
               PROVE  /\ all[i].at <= at
                      /\ \A j \in DOMAIN all : i < j => all[j].at >= all[i].at - Backlog
    BY DEF InOrder
  <2>1. \A k \in DOMAIN all : all[k].at \in Int
    BY <1>4, SeqElements, RingEventShape
  <2>2. \A j \in DOMAIN all : j \notin DOMAIN ring => all[j].at >= at - Backlog
    BY <1>3, <1>5
  <2>3. CASE i \in DOMAIN ring
    <3>1. all[i].at <= clock /\ \A j \in DOMAIN ring : i < j => all[j].at >= all[i].at - Backlog
      BY <1>5, <2>3 DEF RingInv
    <3> QED
      BY <1>1, <2>1, <2>2, <3>1, WindowAssumption
  <2>4. CASE i \notin DOMAIN ring
    <3>1. all[i].at = at
      BY <1>3, <1>5, <2>4
    <3>2. \A j \in DOMAIN all : i < j => j \notin DOMAIN ring
      BY <1>4, <1>5, <2>4
    <3> QED
      BY <1>1, <2>2, <3>1, <3>2
  <2> QED
    BY <2>3, <2>4
<1>7. /\ Newest(all, EVENT_RING_CAPACITY) \in Seq(RingEvent)
      /\ \E k \in Nat :
           /\ k + Len(Newest(all, EVENT_RING_CAPACITY)) = Len(all)
           /\ \A i \in DOMAIN Newest(all, EVENT_RING_CAPACITY) :
                Newest(all, EVENT_RING_CAPACITY)[i] = all[k + i]
  BY <1>4, NewestShape, WindowAssumption
<1>8. ring' \in Seq(RingEvent)
  BY <1>1, <1>7
<1>9. PICK k \in Nat : /\ k + Len(ring') = Len(all)
                       /\ \A i \in DOMAIN ring' : ring'[i] = all[k + i]
  BY <1>1, <1>7
<1>10. \A i \in DOMAIN ring' : i \in Nat /\ k + i \in DOMAIN all /\ ring'[i] = all[k + i]
  BY <1>4, <1>8, <1>9, SeqElements
<1>11. InOrder(ring', at)
  BY <1>6, <1>10 DEF InOrder
<1> QED
  BY <1>1, <1>8, <1>11 DEF RingInv, InOrder

LEMMA WindowHasRestarts ==
  ASSUME RingInv
  PROVE  /\ Window(ring, clock) \subseteq ToSet(ring)
         /\ IsFiniteSet(ToSet(ring))
         /\ (\A i \in DOMAIN ring : ring[i].at <= clock) =>
              \A e \in ToSet(ring) :
                e.about \in Subject /\ clock - e.at \in 0..restart_window => e \in Window(ring, clock)
<1>1. ring \in Seq(RingEvent) /\ DOMAIN ring = 1..Len(ring) /\ Len(ring) \in Nat
  BY DEF RingInv
<1>2. IsFiniteSet(ToSet(ring)) /\ ToSet(ring) = {ring[i] : i \in DOMAIN ring}
  BY <1>1, ToSetIsFinite
<1>3. Window(ring, clock) \subseteq ToSet(ring)
  BY <1>2 DEF Window
<1>4. ASSUME \A i \in DOMAIN ring : ring[i].at <= clock, NEW e \in ToSet(ring),
             e.about \in Subject, clock - e.at \in 0..restart_window
      PROVE  e \in Window(ring, clock)
  <2>1. PICK i \in DOMAIN ring : ring[i] = e
    BY <1>2
  <2>2. \A j \in DOMAIN ring : ring[j].at \in Int
    BY <1>1, SeqElements, RingEventShape
  <2>3. ASSUME NEW j \in i..Len(ring) PROVE clock - ring[j].at \in 0..event_window
    <3>1. j \in DOMAIN ring /\ ring[j].at <= clock /\ ring[j].at \in Int
      BY <1>1, <1>4, <2>1, <2>2, <2>3
    <3>2. ring[j].at >= ring[i].at - Backlog /\ ring[i].at \in Int
      <4>1. CASE j = i
        BY <2>1, <2>2, <4>1, WindowAssumption
      <4>2. CASE j # i
        <5>1. i < j
          BY <1>1, <2>1, <2>3, <4>2
        <5> QED
          BY <1>4, <2>1, <2>2, <3>1, <5>1 DEF RingInv
      <4> QED
        BY <4>1, <4>2
    <3>3. clock \in Nat
      BY DEF RingInv
    <3>4. clock - ring[i].at <= restart_window
      BY <1>4, <2>1, <3>2, <3>3, WindowAssumption
    <3> QED
      BY <3>1, <3>2, <3>3, <3>4, WindowAssumption
  <2> QED
    BY <2>1, <2>3 DEF Window
<1> QED
  BY <1>2, <1>3, <1>4

----------------------------------------------------------------------------
(***************************************************************************)
(* What the daemon answers, what its dashboards show and what it remembers *)
(* of its warnings.                                                        *)
(***************************************************************************)
LastFired ==
  Fired([services |-> seen, history |-> history, events |-> Window(ring, clock)], clock)

ShownInv ==
  /\ ticked \in BOOLEAN /\ sync \in {"no", "early", "late"}
  /\ warnings \subseteq kept
  /\ IF ticked THEN warnings = LastFired /\ active = warnings ELSE warnings = kept /\ active = {}
  /\ sync = "late" => ticked /\ shown = warnings
  /\ sync = "early" => warnings \subseteq shown /\ shown \subseteq kept

WarnInv == RingInv /\ ShownInv

LEMMA WarnInitially == WarnInit => WarnInv
<1> SUFFICES ASSUME WarnInit PROVE WarnInv
  OBVIOUS
<1>1. ring \in Seq(RingEvent) /\ DOMAIN ring = {}
  BY DEF WarnInit
<1> QED
  BY <1>1 DEF WarnInit, WarnInv, RingInv, ShownInv

LEMMA WarnTickOK ==
  ASSUME WarnInv, WarnTick
  PROVE  WarnInv'
<1>1. PICK sight \in [Subject -> UNION Range(Sighting)], d \in TickLength :
        \E files \in {{}} \cup {{clock + d + late} : late \in (-Backlog)..1} :
          ApplyTick(sight, clock + d, files)
  BY DEF WarnTick
<1>2. PICK files \in {{}} \cup {{clock + d + late} : late \in (-Backlog)..1} :
        ApplyTick(sight, clock + d, files)
  BY <1>1
<1>3. files \in SUBSET Int /\ IsFiniteSet(files) /\ \A t \in files : t >= clock + d - Backlog
  <2>1. clock \in Nat /\ d \in Nat /\ Backlog \in Nat
    BY WindowAssumption DEF WarnInv, RingInv
  <2>2. CASE files = {}
    BY <2>2, FS_EmptySet
  <2>3. ASSUME NEW late \in (-Backlog)..1, files = {clock + d + late}
        PROVE  files \in SUBSET Int /\ IsFiniteSet(files) /\ \A t \in files : t >= clock + d - Backlog
    <3> DEFINE t == clock + d + late
    <3>1. t \in Int /\ t >= clock + d - Backlog /\ files = {t}
      BY <2>1, <2>3
    <3> HIDE DEF t
    <3> QED
      BY <3>1, FS_Singleton
  <2> QED
    BY <2>2, <2>3
<1>4. RingInv'
  BY <1>2, <1>3, RingTick DEF WarnInv
<1>5. Evaluate(LastFired') /\ ticked' = TRUE /\ sync' = sync
  BY <1>2 DEF ApplyTick, LastFired
<1>6. ShownInv'
  BY <1>5 DEF Evaluate, ShownInv, WarnInv
<1> QED
  BY <1>4, <1>6 DEF WarnInv

LEMMA WarnInductive == WarnInv /\ [WarnNext]_warnVars => WarnInv'
<1> SUFFICES ASSUME WarnInv, [WarnNext]_warnVars PROVE WarnInv'
  OBVIOUS
<1>1. CASE WarnTick
  BY <1>1, WarnTickOK
<1>2. CASE Connect
  BY <1>2 DEF Connect, WarnInv, RingInv, ShownInv, LastFired
<1>3. CASE StartAgain
  BY <1>3 DEF StartAgain, WarnInv, RingInv, ShownInv
<1>4. CASE UNCHANGED warnVars
  BY <1>4 DEF warnVars, WarnInv, RingInv, ShownInv, LastFired
<1> QED
  BY <1>1, <1>2, <1>3, <1>4 DEF WarnNext

\* A dashboard shows what the rules say of the last tick: exactly that, if it connected after
\* the first tick of this daemon, and at most the restored warnings besides, if before.  The
\* engine itself misses nothing unless a file event is later than the tick.
THEOREM DashboardsShowTheTruth == WarnSpec => []WarningsAreTrue
<1>1. WarnInv => WarningsAreTrue
  <2> SUFFICES ASSUME WarnInv, ticked
               PROVE  /\ warnings \subseteq Truth
                      /\ (\A i \in DOMAIN ring : ring[i].at <= clock) => warnings = Truth
                      /\ sync = "late" => shown = warnings
                      /\ sync = "early" => warnings \subseteq shown /\ shown \subseteq kept
    BY DEF WarningsAreTrue
  <2> DEFINE a == [services |-> seen, history |-> history, events |-> Window(ring, clock)]
             b == [services |-> seen, history |-> history, events |-> ToSet(ring)]
  <2>1. warnings = Fired(a, clock) /\ Truth = Fired(b, clock)
    BY DEF WarnInv, ShownInv, LastFired, Truth
  <2>2. /\ a.services = b.services /\ a.history = b.history
        /\ a.events = Window(ring, clock) /\ b.events = ToSet(ring)
    OBVIOUS
  <2> HIDE DEF a, b
  <2>3. restart_loops(a, clock) \subseteq restart_loops(b, clock)
    BY <2>2, WindowHasRestarts, LoopsGrow DEF WarnInv
  <2>4. ASSUME \A i \in DOMAIN ring : ring[i].at <= clock
        PROVE  restart_loops(a, clock) = restart_loops(b, clock)
    <3>1. ASSUME NEW s \in Subject PROVE RestartsSeen(a, clock, s) = RestartsSeen(b, clock, s)
      BY <2>2, <2>4, WindowHasRestarts DEF WarnInv, RestartsSeen, events_within
    <3> QED
      BY <2>2, <3>1, LoopsSame
  <2>5. /\ cpu_spikes(a) = cpu_spikes(b) /\ memory_growth(a) = memory_growth(b)
        /\ health_failures(a) = health_failures(b) /\ port_conflicts(a) = port_conflicts(b)
    BY <2>2, OtherRules
  <2>6. Fired(a, clock) \subseteq Fired(b, clock)
    BY <2>3, <2>5 DEF Fired
  <2>7. (\A i \in DOMAIN ring : ring[i].at <= clock) => Fired(a, clock) = Fired(b, clock)
    BY <2>4, <2>5 DEF Fired
  <2> QED
    BY <2>1, <2>6, <2>7 DEF WarnInv, ShownInv
<1> QED
  BY <1>1, WarnInitially, WarnInductive, PTL DEF WarnSpec
=============================================================================
