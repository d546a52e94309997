------------------------- MODULE PersistenceProofs -------------------------
(***************************************************************************)
(* Proofs about Persistence, for every value of its constants: project     *)
(* memory, the refinement of TickHistory, the bounds of what is kept, the  *)
(* timeline a restarted daemon shows, and the rows the writer has caught   *)
(* up with.                                                                *)
(***************************************************************************)
EXTENDS Persistence, ServiceRegistryProofs

----------------------------------------------------------------------------
(***************************************************************************)
(* The registry under ticks and crashes.  A host service keeps the project *)
(* of its fingerprint.                                                     *)
(***************************************************************************)
HomeKept == \A s \in Held(reg) : s \notin Container => reg[s].project = HomeProject[s]

RegInv == IInv /\ HomeKept

LEMMA StartOver ==
  ASSUME now \in Time
  PROVE  /\ RegOK([s \in Service |-> NoEntry])
         /\ NoChanges \in Changed
<1>1. [s \in {} |-> NoProject] \in UNION {[S -> MaybeProject] : S \in SUBSET Service}
  BY DEF MaybeProject
<1>2. NoChanges \in Changed
  BY <1>1 DEF NoChanges, Changed
<1> QED
  BY <1>2 DEF RegOK

\* Where the project of an entry comes from: this batch, or the entry before it.
LEMMA ProjectShape ==
  ASSUME RegInv, NEW batch \in Batches, NEW at \in Time, Apply(batch, at), NEW s \in Held(reg')
  PROVE  /\ s \in DOMAIN batch => /\ reg'[s].project = batch[s].project
                                  /\ batch[s] \in Folded(s)
         /\ s \notin DOMAIN batch => /\ s \in Held(reg) /\ s \notin Running(reg')
                                     /\ reg'[s].project = reg[s].project
<1>1. RegOK(reg) /\ s \in Service /\ reg'[s] # NoEntry
  BY DEF RegInv, IInv, Held
<1>2. CASE s \in DOMAIN batch
  <2>1. /\ batch[s] \in Folded(s)
        /\ reg'[s] = IF reg[s] = NoEntry THEN Insert(batch[s], at)
                     ELSE Update(s, reg[s], batch[s], at)
    BY <1>1, <1>2, StepShape
  <2>2. CASE reg[s] = NoEntry
    BY <1>2, <2>1, <2>2 DEF Insert
  <2>3. CASE reg[s] # NoEntry
    <3>1. EntryOK(s, reg[s])
      BY <1>1, <2>3 DEF RegOK
    <3> QED
      BY <1>1, <1>2, <2>1, <2>3, <3>1, UpdateOK
  <2> QED
    BY <2>2, <2>3
<1>3. CASE s \notin DOMAIN batch
  <2>1. /\ ~IsRunning(s, reg'[s])
        /\ reg'[s] \in {NoEntry, IF IsRunning(s, reg[s]) THEN Stop(reg[s]) ELSE reg[s]}
    BY <1>1, <1>3, StepShape
  <2>2. reg'[s] = IF IsRunning(s, reg[s]) THEN Stop(reg[s]) ELSE reg[s]
    BY <1>1, <2>1
  <2>3. reg[s] # NoEntry
    BY <1>1, <2>2 DEF IsRunning
  <2>4. EntryOK(s, reg[s])
    BY <1>1, <2>3 DEF RegOK
  <2>5. Stop(reg[s]).project = reg[s].project
    BY <2>4 DEF Stop, EntryOK, Entry
  <2> QED
    BY <1>1, <1>3, <2>1, <2>2, <2>3, <2>5 DEF Held, Running
<1> QED
  BY <1>2, <1>3

LEMMA TickKeepsRegInv ==
  ASSUME RegInv, NEW batch \in Batches, NEW at \in Time, Apply(batch, at)
  PROVE  RegInv'
<1>1. RegOK(reg')
  BY StepShape DEF RegInv, IInv
<1>2. delta' \in Changed
  BY <1>1, ChangesType DEF Apply
<1>3. IInv'
  BY <1>1, <1>2 DEF IInv, Apply
<1>4. ASSUME NEW s \in Held(reg'), s \notin Container
      PROVE  reg'[s].project = HomeProject[s]
  <2>1. CASE s \in DOMAIN batch
    BY <1>4, <2>1, ProjectShape DEF Folded
  <2>2. CASE s \notin DOMAIN batch
    BY <1>4, <2>2, ProjectShape DEF RegInv, HomeKept
  <2> QED
    BY <2>1, <2>2
<1> QED
  BY <1>3, <1>4 DEF RegInv, HomeKept

LEMMA CrashKeepsRegInv ==
  ASSUME RegInv, Crash
  PROVE  RegInv'
<1>1. IInv'
  BY StartOver DEF Crash, RegInv, IInv
<1>2. Held(reg') = {}
  BY DEF Crash, Held
<1> QED
  BY <1>1, <1>2 DEF RegInv, HomeKept

LEMMA RegInvInitially == PersistInit => RegInv
<1> SUFFICES ASSUME PersistInit PROVE RegInv
  OBVIOUS
<1>1. IInv
  BY Initially DEF PersistInit, DeriverInit
<1>2. Held(reg) = {}
  BY DEF PersistInit, DeriverInit, Init, Held
<1> QED
  BY <1>1, <1>2 DEF RegInv, HomeKept

LEMMA Unmoved ==
  ASSUME RegInv, UNCHANGED deriverVars
  PROVE  RegInv'
<1>1. IInv'
  BY Inductive DEF RegInv, deriverVars, vars
<1> QED
  BY <1>1 DEF RegInv, HomeKept, Held, deriverVars

LEMMA WriterUnmoved ==
  Writer => UNCHANGED <<deriverVars, inspects, projects, introduced, dropped, shown, ticks, crashes>>
BY DEF Writer, TakeWrite, StoreProject, StoreService, StoreEvents

LEMMA RegInvInductive == RegInv /\ [PersistNext]_persistVars => RegInv'
<1> SUFFICES ASSUME RegInv, [PersistNext]_persistVars PROVE RegInv'
  OBVIOUS
<1>1. CASE UNCHANGED persistVars
  BY <1>1, Unmoved DEF persistVars
<1>2. ASSUME NEW batch \in Batches, NEW d \in ClockSteps, NEW seen \in SUBSET Project,
             NEW answered \in BOOLEAN, NEW sampled \in BOOLEAN,
             NEW changes \in Drains(Len(shown) + 1), now + d \in Time,
             PersistTick(batch, now + d, seen, answered, sampled, changes)
      PROVE  RegInv'
  <2>1. Apply(batch, now + d)
    BY <1>2 DEF PersistTick, Tick
  <2> QED
    BY <1>2, <2>1, TickKeepsRegInv
<1>3. CASE Writer
  BY <1>3, WriterUnmoved, Unmoved
<1>4. CASE Crash
  BY <1>4, CrashKeepsRegInv
<1> QED
  BY <1>1, <1>2, <1>3, <1>4 DEF PersistNext

LEMMA RegInvariance == PersistSpec => []RegInv
BY RegInvInitially, RegInvInductive, PTL DEF PersistSpec

----------------------------------------------------------------------------
(***************************************************************************)
(* Project memory.                                                         *)
(***************************************************************************)
LEMMA MemoryStep ==
  ASSUME RegInv, NEW batch \in Batches, NEW at \in Time, NEW seen \in SUBSET Project,
         NEW answered \in BOOLEAN, NEW sampled \in BOOLEAN,
         NEW changes \in Drains(Len(shown) + 1),
         PersistTick(batch, at, seen, answered, sampled, changes),
         NEW s \in Running(reg'), s \in Held(reg) \/ ~inspects
  PROVE  reg'[s].project \in projects' \cup {NoProject}
<1> DEFINE known == Remember(seen, projects)
<1>1. /\ Apply(batch, at)
      /\ ProjectsOf(Service \ Container, batch) \subseteq seen
      /\ answered => inspects
      /\ ~answered => DOMAIN batch \cap Container = {}
      /\ projects' = IF answered THEN Remember(ProjectsOf(Container, batch), known) ELSE known
  BY DEF PersistTick, Tick
<1>2. s \in Held(reg') /\ s \in Service
  BY DEF Held, Running, IsRunning
<1>3. s \in DOMAIN batch /\ reg'[s].project = batch[s].project /\ batch[s] \in Folded(s)
  BY <1>1, <1>2, ProjectShape
<1>4. CASE s \in Container
  <2>1. answered
    BY <1>1, <1>3, <1>4
  <2>2. batch[s].project \in ProjectsOf(Container, batch) \cup {NoProject}
    BY <1>3, <1>4 DEF ProjectsOf
  <2> QED
    BY <1>1, <1>3, <2>1, <2>2 DEF Remember
<1>5. CASE s \notin Container
  <2>1. batch[s].project = HomeProject[s] /\ HomeProject[s] \in Project /\ HomeProject[s] # NoProject
    BY <1>2, <1>3, <1>5, PersistenceAssumption DEF Folded
  <2>2. batch[s].project \in known
    BY <1>1, <1>2, <1>3, <1>5, <2>1 DEF ProjectsOf, Remember
  <2>3. CASE ~answered
    BY <1>1, <1>3, <2>2, <2>3
  <2>4. CASE answered
    <3>1. s \in Held(reg)
      BY <1>1, <2>4
    <3>2. reg[s].project = HomeProject[s]
      BY <1>5, <3>1 DEF RegInv, HomeKept
    <3>3. HomeProject[s] \in LiveProjects
      BY <2>1, <3>1, <3>2 DEF LiveProjects
    <3> QED
      BY <1>1, <1>3, <2>1, <2>2, <2>4, <3>3 DEF Remember
  <2> QED
    BY <2>3, <2>4
<1> QED
  BY <1>4, <1>5

\* A running service belongs to a known project, with a container collector from its second
\* tick on.
THEOREM ProjectsAreRemembered == PersistSpec => ProjectMemory
<1> DEFINE Known ==
      ticks' # ticks =>
        \A s \in Running(reg') : s \in Held(reg) \/ ~inspects
          => reg'[s].project \in projects' \cup {NoProject}
<1>1. RegInv /\ [PersistNext]_persistVars => [Known]_persistVars
  <2> SUFFICES ASSUME RegInv, PersistNext, ticks' # ticks,
                      NEW s \in Running(reg'), s \in Held(reg) \/ ~inspects
               PROVE  reg'[s].project \in projects' \cup {NoProject}
    OBVIOUS
  <2>1. ~Writer /\ ~Crash
    BY WriterUnmoved DEF Crash
  <2>2. PICK batch \in Batches, d \in ClockSteps, seen \in SUBSET Project,
             answered \in BOOLEAN, sampled \in BOOLEAN,
             changes \in Drains(Len(shown) + 1) :
               now + d \in Time /\ PersistTick(batch, now + d, seen, answered, sampled, changes)
    BY <2>1 DEF PersistNext
  <2> QED
    BY <2>2, MemoryStep
<1>2. ProjectMemory <=> [][Known]_persistVars
  BY DEF ProjectMemory
<1> HIDE DEF Known
<1> QED
  BY <1>1, <1>2, RegInvariance, PTL DEF PersistSpec

----------------------------------------------------------------------------
(***************************************************************************)
(* The pipeline: the store, what the writer holds, the queue from its head *)
(* to its end, the next tick.  Ticks appear in it in this order, a write   *)
(* has the events of one tick.                                             *)
(***************************************************************************)
PipeTypeOK ==
  /\ ticks \in Nat /\ dropped \in Nat
  /\ queue \in Seq(Writes)
  /\ writing \in Writes \cup {Idle}
  /\ stored.events \subseteq Events
  /\ stored = [projects |-> stored.projects, services |-> stored.services,
               events |-> stored.events]

OneTick(write) == \A e, f \in write.events : e.tick = f.tick

Before(S, T) == \A e \in S, f \in T : e.tick < f.tick

PipeOrdered ==
  /\ \A i \in DOMAIN queue :
       /\ OneTick(queue[i])
       /\ \A e \in queue[i].events : e.tick <= ticks
       /\ Before(stored.events, queue[i].events)
       /\ \A j \in DOMAIN queue : i < j => Before(queue[i].events, queue[j].events)
  /\ writing # Idle =>
       /\ OneTick(writing)
       /\ \A e \in writing.events : e.tick <= ticks
       /\ Before(stored.events, writing.events)
       /\ \A i \in DOMAIN queue : Before(writing.events, queue[i].events)
  /\ \A e \in stored.events : e.tick <= ticks

ShownOK == shown \in Seq(Time) /\ Len(shown) <= ticks

PipeInv == RegInv /\ ShownOK /\ PipeTypeOK /\ PipeOrdered

LEMMA WriteShape ==
  ASSUME NEW w \in Writes
  PROVE  /\ w.projects \subseteq Project /\ w.events \subseteq Events
         /\ DOMAIN w.services \subseteq Service
         /\ w.services \in UNION {[S -> Rows] : S \in SUBSET Service}
         /\ \A s \in DOMAIN w.services : w.services[s] \in Rows
         /\ \A e \in w.events : e.tick \in Nat
         /\ w # Idle
<1>1. w.services \in UNION {[S -> Rows] : S \in SUBSET Service} /\ w.events \subseteq Events
      /\ w.projects \subseteq Project
  BY DEF Writes
<1>2. \A e \in w.events : e.tick \in Nat
  BY <1>1 DEF Events
<1> QED
  BY <1>1, <1>2, IdleAssumption

\* What a tick hands to the writer is a write of this tick.
LEMMA TickWriteOK ==
  ASSUME NEW r, RegOK(r), NEW known \in SUBSET Project, NEW events \in SUBSET Events, NEW d
  PROVE  TickWrite(known, r, d, events) \in Writes
<1> DEFINE S == ChangedServices(d) \cap Held(r)
<1>1. S \in SUBSET Service
  BY DEF Held
<1>2. ASSUME NEW s \in S PROVE Row(r[s]) \in Rows
  <2>1. EntryOK(s, r[s])
    BY <1>2 DEF RegOK, Held
  <2> QED
    BY <2>1 DEF EntryOK, Entry, Row, Rows
<1>3. [s \in S |-> Row(r[s])] \in [S -> Rows]
  BY <1>2
<1>4. [s \in S |-> Row(r[s])] \in UNION {[T -> Rows] : T \in SUBSET Service}
  BY <1>1, <1>3
<1> QED
  BY <1>4 DEF TickWrite, Writes

LEMMA PipeInitially == PersistInit => PipeInv
<1> SUFFICES ASSUME PersistInit PROVE PipeInv
  OBVIOUS
<1>1. RegInv
  BY RegInvInitially
<1>2. PipeTypeOK
  BY DEF PersistInit, PipeTypeOK
<1>3. PipeOrdered
  BY DEF PersistInit, PipeOrdered
<1>4. ShownOK
  BY DEF PersistInit, ShownOK
<1> QED
  BY <1>1, <1>2, <1>3, <1>4 DEF PipeInv

\* The elements of a sequence; of one without repetition there are as many as it is long.
LEMMA ListedSet ==
  ASSUME NEW S, NEW q \in Seq(S)
  PROVE  /\ \A e : e \in ToSet(q) <=> \E i \in 1..Len(q) : q[i] = e
         /\ ToSet(q) \subseteq S /\ IsFiniteSet(ToSet(q))
         /\ (\A i, j \in 1..Len(q) : i < j => q[i] # q[j]) => Cardinality(ToSet(q)) = Len(q)
<1> DEFINE n == Len(q)
           T == ToSet(q)
<1>1. n \in Nat /\ DOMAIN q = 1..n /\ \A i \in 1..n : q[i] \in S
  OBVIOUS
<1>2. \A e : e \in T <=> \E i \in 1..n : q[i] = e
  BY <1>1 DEF ToSet
<1>3. IsFiniteSet(1..n) /\ Cardinality(1..n) = n
  <2> HIDE DEF n
  <2> QED
    BY <1>1, FS_Interval
<1>4. q \in [1..n -> T] /\ q \in Surjection(1..n, T)
  <2>1. q = [i \in 1..n |-> q[i]]
    BY <1>1
  <2> HIDE DEF T, n
  <2>2. q \in [1..n -> T]
    BY <1>2, <2>1
  <2> QED
    BY <1>2, <2>2 DEF Surjection
<1> HIDE DEF T, n
<1>5. IsFiniteSet(T)
  BY <1>3, <1>4, FS_Surjection
<1>6. ASSUME \A i, j \in 1..n : i < j => q[i] # q[j] PROVE Cardinality(T) = n
  <2>1. \A i, j \in 1..n : i # j => q[i] # q[j]
    BY <1>1, <1>6
  <2>2. q \in Injection(1..n, T)
    BY <1>4, <2>1 DEF Injection, IsInjective
  <2>3. q \in Bijection(1..n, T)
    BY <1>4, <2>2 DEF Bijection
  <2>4. ExistsBijection(1..n, T)
    BY <2>3 DEF ExistsBijection
  <2> QED
    BY <1>3, <2>4, FS_Bijection
<1> QED
  BY <1>1, <1>2, <1>5, <1>6 DEF T, n

LEMMA ConcatShape ==
  ASSUME NEW S, NEW p \in Seq(S), NEW q \in Seq(S)
  PROVE  /\ p \o q \in Seq(S) /\ Len(p \o q) = Len(p) + Len(q)
         /\ \A i \in 1..Len(p) : (p \o q)[i] = p[i]
         /\ \A i \in 1..Len(q) : Len(p) + i \in 1..Len(p \o q) /\ (p \o q)[Len(p) + i] = q[i]
         /\ \A i \in 1..Len(p \o q) : i \in 1..Len(p) \/ i - Len(p) \in 1..Len(q)
<1>1. /\ p \o q \in Seq(S) /\ Len(p \o q) = Len(p) + Len(q)
      /\ Len(p) \in Nat /\ Len(q) \in Nat
  OBVIOUS
<1>2. ASSUME NEW i \in 1..Len(q)
      PROVE  Len(p) + i \in 1..Len(p \o q) /\ (p \o q)[Len(p) + i] = q[i]
  <2> DEFINE k == Len(p) + i
  <2>1. k \in 1..(Len(p) + Len(q)) /\ k > Len(p) /\ k - Len(p) = i
    BY <1>1, <1>2
  <2> HIDE DEF k
  <2>2. (p \o q)[k] = q[k - Len(p)]
    BY <1>1, <2>1
  <2> QED
    BY <1>1, <2>1, <2>2 DEF k
<1>3. \A i \in 1..Len(p) : (p \o q)[i] = p[i]
  BY <1>1
<1>4. \A i \in 1..Len(p \o q) : i \in 1..Len(p) \/ i - Len(p) \in 1..Len(q)
  BY <1>1
<1> QED
  BY <1>1, <1>2, <1>3, <1>4

\* What the watcher hands over has times shown, in their order, and leaves later ones.
LEMMA LeftBehindShape ==
  ASSUME NEW clock \in Seq(Time), clock # <<>>, NEW changes \in Drains(Len(clock))
  PROVE  LET rest == LeftBehind(clock, changes)
         IN  /\ rest \in Seq(Time) /\ Len(rest) \in 1..Len(clock)
             /\ \A i \in 1..Len(rest) : rest[i] = clock[Len(clock) - Len(rest) + i]
             /\ \A i \in 1..Len(changes) : changes[i] <= Len(clock) - Len(rest) + 1
<1> DEFINE rest == LeftBehind(clock, changes)
           n == Len(clock)
<1>1. n \in Nat /\ n > 0 /\ \A i \in 1..n : clock[i] \in Time
  OBVIOUS
<1>2. /\ changes \in Seq(1..n) /\ Len(changes) \in Nat /\ MaxFileEvents \in Nat \ {0}
      /\ \A i, j \in 1..Len(changes) : i < j => changes[i] <= changes[j]
  <2>1. PICK k \in 0..MaxFileEvents : changes \in [1..k -> 1..n]
    BY DEF Drains
  <2>2. k \in Nat /\ changes \in Seq(1..n) /\ Len(changes) = k /\ DOMAIN changes = 1..k
    BY <2>1, PersistenceAssumption
  <2> QED
    BY <2>2, PersistenceAssumption DEF Drains
<1>3. CASE Len(changes) < MaxFileEvents
  <2>1. rest = <<clock[n]>>
    BY <1>3 DEF LeftBehind
  <2>2. rest \in Seq(Time) /\ Len(rest) = 1 /\ rest[1] = clock[n]
    BY <1>1, <2>1
  <2>3. \A i \in 1..Len(changes) : changes[i] <= n
    BY <1>1, <1>2
  <2> HIDE DEF rest, n
  <2> QED
    BY <1>1, <2>2, <2>3 DEF rest, n
<1>4. CASE ~(Len(changes) < MaxFileEvents)
  <2> DEFINE k == Len(changes)
             first == changes[k]
  <2>1. k \in 1..k /\ first \in 1..n
    BY <1>2, <1>4
  <2>2. \A i \in 1..k : changes[i] <= first
    BY <1>2, <2>1
  <2>3. rest = SubSeq(clock, first, n)
    BY <1>4 DEF LeftBehind
  <2> HIDE DEF first, k
  <2>4. /\ rest \in Seq(Time) /\ Len(rest) = n - first + 1
        /\ \A i \in 1..(n - first + 1) : rest[i] = clock[first + i - 1]
    BY <1>1, <2>1, <2>3
  <2> HIDE DEF rest, n
  <2>5. \A i \in 1..Len(rest) : n - Len(rest) + i = first + i - 1 /\ rest[i] = clock[first + i - 1]
    BY <1>1, <2>1, <2>4
  <2>6. /\ Len(rest) \in 1..n /\ first = n - Len(rest) + 1
        /\ \A i \in 1..Len(rest) : rest[i] = clock[n - Len(rest) + i]
    BY <1>1, <2>1, <2>4, <2>5
  <2> QED
    BY <2>2, <2>4, <2>6 DEF rest, n, k
<1> QED
  BY <1>3, <1>4

LEMMA DerivedShape ==
  ASSUME NEW e \in Events, NEW derived, derived = <<>> \/ derived = <<e>>
  PROVE  /\ derived \in Seq(Events) /\ Len(derived) \in 0..1
         /\ \A i \in 1..Len(derived) : derived[i] = e
<1>1. CASE derived = <<>>
  BY <1>1
<1>2. CASE derived = <<e>>
  <2>1. derived \in Seq(Events) /\ Len(derived) = 1 /\ derived[1] = e
    BY <1>2
  <2>2. \A i \in 1..1 : i = 1
    OBVIOUS
  <2> QED
    BY <2>1, <2>2
<1> QED
  BY <1>1, <1>2

\* The events of a tick: what it derived, if anything, and the file changes after it.
LEMMA TickEventsShape ==
  ASSUME NEW t \in Nat, NEW clock \in Seq(Time), NEW changes \in Drains(Len(clock)),
         NEW derived \in Seq(Events)
  PROVE  LET events == derived \o FileChanges(t, clock, changes)
         IN  /\ events \in Seq(Events) /\ Len(events) = Len(derived) + Len(changes)
             /\ Len(changes) \in Nat /\ \A i \in 1..Len(derived) : events[i] = derived[i]
             /\ \A i \in 1..Len(events) : i \in 1..Len(derived) \/ i - Len(derived) \in 1..Len(changes)
             /\ \A i \in 1..Len(changes) :
                  /\ changes[i] \in 1..Len(clock)
                  /\ events[Len(derived) + i] = [tick |-> t, n |-> i, at |-> clock[changes[i]]]
             /\ \A i, j \in 1..Len(changes) : i < j => changes[i] <= changes[j]
<1> DEFINE files == FileChanges(t, clock, changes)
           n == Len(clock)
<1>1. /\ changes \in Seq(1..n) /\ Len(changes) \in Nat /\ DOMAIN changes = 1..Len(changes)
      /\ \A i \in 1..Len(changes) : changes[i] \in 1..n
      /\ \A i, j \in 1..Len(changes) : i < j => changes[i] <= changes[j]
  <2>1. PICK k \in 0..MaxFileEvents : changes \in [1..k -> 1..n]
    BY DEF Drains
  <2>2. k \in Nat /\ changes \in Seq(1..n) /\ Len(changes) = k /\ DOMAIN changes = 1..k
    BY <2>1, PersistenceAssumption
  <2> QED
    BY <2>1, <2>2 DEF Drains
<1>2. \A i \in 1..Len(changes) : clock[changes[i]] \in Time
  BY <1>1
<1>3. files = [i \in 1..Len(changes) |-> [tick |-> t, n |-> i, at |-> clock[changes[i]]]]
  BY <1>1 DEF FileChanges
<1>4. /\ files \in Seq(Events) /\ Len(files) = Len(changes)
      /\ \A i \in 1..Len(changes) : files[i] = [tick |-> t, n |-> i, at |-> clock[changes[i]]]
  <2>1. \A i \in 1..Len(changes) : [tick |-> t, n |-> i, at |-> clock[changes[i]]] \in Events
    BY <1>1, <1>2 DEF Events
  <2> HIDE DEF files
  <2> QED
    BY <1>1, <1>3, <2>1
<1> HIDE DEF files, n
<1>5. /\ derived \o files \in Seq(Events)
      /\ Len(derived \o files) = Len(derived) + Len(files)
      /\ \A i \in 1..Len(derived) : (derived \o files)[i] = derived[i]
      /\ \A i \in 1..Len(files) : (derived \o files)[Len(derived) + i] = files[i]
      /\ \A i \in 1..Len(derived \o files) : i \in 1..Len(derived) \/ i - Len(derived) \in 1..Len(files)
  <2>1. derived \in Seq(Events) /\ files \in Seq(Events)
    BY <1>4
  <2> QED
    BY <2>1, ConcatShape
<1> QED
  BY <1>1, <1>4, <1>5 DEF files, n

\* What a tick derived.
MayDerive(tick, at) == {<<>>, <<[tick |-> tick, n |-> 0, at |-> at]>>}

\* What a tick that makes the write w, and derived `derived`, does to the pipeline.
TickPart(w, derived, at, changes) ==
  /\ w.events = ToSet(derived \o FileChanges(ticks', Append(shown, at), changes))
  /\ IsFiniteSet(w.events) /\ \A e \in w.events : e.tick = ticks'
  /\ w = TickWrite(projects', reg', delta', w.events)
  /\ \/ queue' = queue /\ dropped' = dropped /\ IsEmpty(w)
     \/ queue' = Append(queue, w) /\ dropped' = dropped /\ Len(queue) < QueueDepth
     \/ queue' = queue /\ dropped' = dropped + 1
  /\ ring' = Newest(ring \o (derived \o FileChanges(ticks', Append(shown, at), changes)))
  /\ ticks' = ticks + 1 /\ ticks' \in Nat /\ writing' = writing /\ stored' = stored
  /\ projects' \subseteq Project /\ introduced' = introduced \cup projects'
  /\ inspects' = inspects /\ now' = at
  /\ \/ shown' = <<>> /\ changes = <<>>
     \/ shown' = LeftBehind(Append(shown, at), changes)
  /\ RegInv'

\* The part of a tick that concerns the pipeline.
LEMMA PipeTickShape ==
  ASSUME PipeInv, NEW batch \in Batches, NEW at \in Time, NEW seen \in SUBSET Project,
         NEW answered \in BOOLEAN, NEW sampled \in BOOLEAN,
         NEW changes \in Drains(Len(shown) + 1),
         PersistTick(batch, at, seen, answered, sampled, changes)
  PROVE  \E w \in Writes, derived \in MayDerive(ticks', at) :
           TickPart(w, derived, at, changes)
<1> DEFINE derived == IF HasEvents(emitted') \/ projects' \ introduced # {}
                      THEN <<[tick |-> ticks', n |-> 0, at |-> at]>> ELSE <<>>
           events == derived \o FileChanges(ticks', Append(shown, at), changes)
           w == TickWrite(projects', reg', delta', ToSet(events))
<1>1. /\ Apply(batch, at)
      /\ ticks' = ticks + 1 /\ ticks' \in Nat /\ writing' = writing /\ stored' = stored
      /\ Enqueue(w, sampled)
      /\ projects' = IF answered THEN Remember(ProjectsOf(Container, batch), Remember(seen, projects))
                     ELSE Remember(seen, projects)
  BY DEF PersistTick, Tick, PipeInv, PipeTypeOK
<1>2. RegInv'
  BY <1>1, TickKeepsRegInv DEF PipeInv
<1>3. LiveProjects \subseteq Project
  BY DEF LiveProjects, Held, PipeInv, RegInv, IInv, RegOK, EntryOK, Entry, MaybeProject
<1>4. ProjectsOf(Container, batch) \subseteq Project
  BY BatchShape, FoldedShape DEF ProjectsOf, MaybeProject
<1>5. projects' \subseteq Project
  BY <1>1, <1>3, <1>4 DEF Remember
<1>6. derived \in {<<>>, <<[tick |-> ticks', n |-> 0, at |-> at]>>}
  OBVIOUS
<1>7. /\ events \in Seq(Events) /\ \A i \in 1..Len(events) : events[i].tick = ticks'
  <2>1. Append(shown, at) \in Seq(Time) /\ Len(Append(shown, at)) = Len(shown) + 1
    BY DEF PipeInv, ShownOK
  <2> DEFINE clock == Append(shown, at)
             t == ticks'
             first == [tick |-> t, n |-> 0, at |-> at]
  <2>2. first \in Events /\ first.tick = t /\ derived \in {<<>>, <<first>>}
    BY <1>1, <1>6 DEF Events
  <2> HIDE DEF derived, clock, t, first
  <2>3. clock \in Seq(Time) /\ changes \in Drains(Len(clock)) /\ t \in Nat
    BY <1>1, <2>1 DEF clock, t
  <2>4. /\ derived \in Seq(Events) /\ Len(derived) \in 0..1
        /\ \A i \in 1..Len(derived) : derived[i] = first
    <3>1. derived = <<>> \/ derived = <<first>>
      BY <2>2
    <3>2. first \in Events
      BY <2>2
    <3> QED
      BY <3>1, <3>2, DerivedShape
  <2>5. events = derived \o FileChanges(t, clock, changes)
    BY DEF clock, t
  <2> HIDE DEF events
  <2>6. /\ events \in Seq(Events) /\ Len(events) = Len(derived) + Len(changes)
        /\ Len(changes) \in Nat /\ \A i \in 1..Len(derived) : events[i] = derived[i]
        /\ \A i \in 1..Len(events) : i \in 1..Len(derived) \/ i - Len(derived) \in 1..Len(changes)
        /\ \A i \in 1..Len(changes) : events[Len(derived) + i]
                                        = [tick |-> t, n |-> i, at |-> clock[changes[i]]]
    BY <2>3, <2>4, <2>5, TickEventsShape
  <2>7. ASSUME NEW i \in 1..Len(events) PROVE events[i].tick = t
    <3>1. CASE i \in 1..Len(derived)
      BY <2>2, <2>4, <2>6, <3>1
    <3>2. CASE i - Len(derived) \in 1..Len(changes)
      <4> DEFINE k == i - Len(derived)
      <4>1. k \in 1..Len(changes) /\ Len(derived) + k = i
        BY <2>4, <2>6, <3>2
      <4> HIDE DEF k
      <4>2. events[Len(derived) + k] = [tick |-> t, n |-> k, at |-> clock[changes[k]]]
        BY <2>6, <4>1
      <4> QED
        BY <4>1, <4>2
    <3> QED
      BY <2>6, <3>1, <3>2
  <2> QED
    BY <2>6, <2>7 DEF t
<1> HIDE DEF events, derived
<1>8. ToSet(events) \in SUBSET Events /\ IsFiniteSet(ToSet(events))
      /\ \A e \in ToSet(events) : e.tick = ticks'
  BY <1>7, ListedSet DEF ToSet
<1>9. w \in Writes
  BY <1>2, <1>5, <1>8, TickWriteOK DEF RegInv, IInv
<1>10. w.events = ToSet(events)
  BY DEF TickWrite
<1>11. \/ queue' = queue /\ dropped' = dropped /\ IsEmpty(w)
       \/ queue' = Append(queue, w) /\ dropped' = dropped /\ Len(queue) < QueueDepth
       \/ queue' = queue /\ dropped' = dropped + 1
  BY <1>1 DEF Enqueue
<1>12. w = TickWrite(projects', reg', delta', w.events)
  BY <1>10
<1>13. ring' = Newest(ring \o events)
  BY DEF PersistTick, events, derived
<1>14. \/ shown' = <<>> /\ changes = <<>>
       \/ shown' = LeftBehind(Append(shown, at), changes)
  BY DEF PersistTick
<1>15. introduced' = introduced \cup projects' /\ inspects' = inspects /\ now' = at
  BY DEF PersistTick, Tick, Apply
<1>16. /\ ticks' = ticks + 1 /\ ticks' \in Nat /\ writing' = writing /\ stored' = stored
       /\ events = derived \o FileChanges(ticks', Append(shown, at), changes)
       /\ IsFiniteSet(w.events) /\ \A e \in w.events : e.tick = ticks'
  BY <1>1, <1>8, <1>10 DEF events
<1> HIDE DEF w
<1>17. derived \in MayDerive(ticks', at)
  BY <1>6 DEF MayDerive
<1>18. TickPart(w, derived, at, changes)
  BY <1>2, <1>5, <1>10, <1>11, <1>12, <1>13, <1>14, <1>15, <1>16, Zenon DEF TickPart
<1> QED
  BY <1>9, <1>17, <1>18

LEMMA ShownTick ==
  ASSUME PipeInv, NEW batch \in Batches, NEW at \in Time, NEW seen \in SUBSET Project,
         NEW answered \in BOOLEAN, NEW sampled \in BOOLEAN,
         NEW changes \in Drains(Len(shown) + 1),
         PersistTick(batch, at, seen, answered, sampled, changes)
  PROVE  ShownOK'
<1> DEFINE clock == Append(shown, at)
<1>1. /\ clock \in Seq(Time) /\ Len(clock) = Len(shown) + 1 /\ clock # <<>>
      /\ Len(shown) \in Nat /\ Len(shown) <= ticks /\ ticks \in Nat
  BY DEF PipeInv, ShownOK, PipeTypeOK
<1>2. ticks' = ticks + 1 /\ (shown' = <<>> \/ shown' = LeftBehind(clock, changes))
  BY PipeTickShape DEF TickPart
<1> HIDE DEF clock
<1>3. LeftBehind(clock, changes) \in Seq(Time) /\ Len(LeftBehind(clock, changes)) \in 1..Len(clock)
  BY <1>1, LeftBehindShape
<1>4. CASE shown' = <<>>
  BY <1>1, <1>2, <1>4 DEF ShownOK
<1>5. CASE shown' = LeftBehind(clock, changes)
  <2>1. shown' \in Seq(Time) /\ Len(shown') \in 1..(Len(shown) + 1)
    BY <1>1, <1>3, <1>5
  <2> QED
    BY <1>1, <1>2, <2>1 DEF ShownOK
<1> QED
  BY <1>2, <1>4, <1>5

\* The events of a tick, one after the other, at the end of the ring and in the write.
TickPushes(events, w, at, changes) ==
  /\ ring' = Newest(ring \o events) /\ w.events = ToSet(events)
  /\ \/ queue' = queue /\ dropped' = dropped /\ IsEmpty(w)
     \/ queue' = Append(queue, w) /\ dropped' = dropped
     \/ queue' = queue /\ dropped' = dropped + 1
  /\ writing' = writing /\ stored' = stored
  /\ \A i \in 1..Len(events) :
       /\ events[i].tick = ticks + 1
       /\ IsFileChange(events[i]) =>
            \E k \in 1..Len(changes) :
              /\ changes[k] \in 1..(Len(shown) + 1)
              /\ events[i].at = Append(shown, at)[changes[k]]
       /\ ~IsFileChange(events[i]) => events[i].at = at /\ i = 1
  /\ \A i, j \in 1..Len(events) : i < j /\ IsFileChange(events[i]) =>
       \E k, l \in 1..Len(changes) :
         /\ changes[k] <= changes[l]
         /\ changes[k] \in 1..(Len(shown) + 1) /\ changes[l] \in 1..(Len(shown) + 1)
         /\ events[i].at = Append(shown, at)[changes[k]]
         /\ events[j].at = Append(shown, at)[changes[l]]
         /\ events[i].n < events[j].n

LEMMA TickEventsOf ==
  ASSUME PipeInv, NEW batch \in Batches, NEW at \in Time, NEW seen \in SUBSET Project,
         NEW answered \in BOOLEAN, NEW sampled \in BOOLEAN,
         NEW changes \in Drains(Len(shown) + 1),
         PersistTick(batch, at, seen, answered, sampled, changes)
  PROVE  \E events \in Seq(Events), w \in Writes : TickPushes(events, w, at, changes)
<1>1. PICK w \in Writes, derived \in MayDerive(ticks', at) : TickPart(w, derived, at, changes)
  BY PipeTickShape
<1>2. /\ w.events = ToSet(derived \o FileChanges(ticks', Append(shown, at), changes))
      /\ \/ queue' = queue /\ dropped' = dropped /\ IsEmpty(w)
         \/ queue' = Append(queue, w) /\ dropped' = dropped
         \/ queue' = queue /\ dropped' = dropped + 1
      /\ ring' = Newest(ring \o (derived \o FileChanges(ticks', Append(shown, at), changes)))
      /\ ticks' = ticks + 1 /\ ticks' \in Nat /\ writing' = writing /\ stored' = stored
  BY <1>1 DEF TickPart
<1> DEFINE clock == Append(shown, at)
           t == ticks'
           first == [tick |-> t, n |-> 0, at |-> at]
<1>3. clock \in Seq(Time) /\ Len(clock) = Len(shown) + 1 /\ t \in Nat /\ t = ticks + 1
  BY <1>2 DEF PipeInv, ShownOK
<1>4. /\ first \in Events /\ first.tick = t /\ first.n = 0 /\ first.at = at
      /\ derived = <<>> \/ derived = <<first>>
  BY <1>1, <1>2, <1>3 DEF Events, MayDerive
<1> DEFINE events == derived \o FileChanges(t, clock, changes)
<1> HIDE DEF first, clock, t
<1>5. /\ derived \in Seq(Events) /\ Len(derived) \in 0..1
      /\ \A i \in 1..Len(derived) : derived[i] = first
  BY <1>4, DerivedShape
<1>6. /\ events \in Seq(Events) /\ Len(events) = Len(derived) + Len(changes)
      /\ Len(changes) \in Nat /\ \A i \in 1..Len(derived) : events[i] = derived[i]
      /\ \A i \in 1..Len(events) : i \in 1..Len(derived) \/ i - Len(derived) \in 1..Len(changes)
      /\ \A i \in 1..Len(changes) :
           /\ changes[i] \in 1..Len(clock)
           /\ events[Len(derived) + i] = [tick |-> t, n |-> i, at |-> clock[changes[i]]]
      /\ \A i, j \in 1..Len(changes) : i < j => changes[i] <= changes[j]
  <2>1. clock \in Seq(Time) /\ t \in Nat /\ derived \in Seq(Events) /\ changes \in Drains(Len(clock))
    BY <1>3, <1>5
  <2>2. events = derived \o FileChanges(t, clock, changes)
    OBVIOUS
  <2> HIDE DEF events
  <2> QED
    BY <2>1, <2>2, TickEventsShape
<1> HIDE DEF events
<1>7. ASSUME NEW i \in 1..Len(events), i \notin 1..Len(derived)
      PROVE  /\ i - Len(derived) \in 1..Len(changes)
             /\ events[i].tick = t /\ events[i].n = i - Len(derived) /\ IsFileChange(events[i])
             /\ events[i].at = clock[changes[i - Len(derived)]]
             /\ changes[i - Len(derived)] \in 1..Len(clock)
  <2> DEFINE k == i - Len(derived)
  <2>1. k \in 1..Len(changes) /\ Len(derived) + k = i /\ k > 0
    BY <1>5, <1>6, <1>7
  <2> HIDE DEF k
  <2>2. events[i] = [tick |-> t, n |-> k, at |-> clock[changes[k]]] /\ changes[k] \in 1..Len(clock)
    BY <1>6, <2>1
  <2> QED
    BY <2>1, <2>2 DEF k, IsFileChange
<1>8. ASSUME NEW i \in 1..Len(events), i \in 1..Len(derived)
      PROVE  i = 1 /\ events[i] = first /\ ~IsFileChange(events[i])
  BY <1>4, <1>5, <1>6, <1>8 DEF IsFileChange
<1>9. ASSUME NEW i \in 1..Len(events)
      PROVE  /\ events[i].tick = ticks + 1
             /\ IsFileChange(events[i]) =>
                  \E k \in 1..Len(changes) :
                    changes[k] \in 1..Len(clock) /\ events[i].at = clock[changes[k]]
             /\ ~IsFileChange(events[i]) => events[i].at = at /\ i = 1
  <2>1. CASE i \in 1..Len(derived)
    <3>1. i = 1 /\ events[i] = first /\ ~IsFileChange(events[i])
      BY <1>8, <2>1
    <3> QED
      BY <1>3, <1>4, <3>1
  <2>2. CASE i \notin 1..Len(derived)
    <3> DEFINE k == i - Len(derived)
    <3>1. /\ k \in 1..Len(changes) /\ events[i].tick = t /\ IsFileChange(events[i])
          /\ events[i].at = clock[changes[k]] /\ changes[k] \in 1..Len(clock)
      BY <1>7, <2>2
    <3> HIDE DEF k
    <3> QED
      BY <1>3, <3>1
  <2> QED
    BY <2>1, <2>2
<1>10. ASSUME NEW i \in 1..Len(events), NEW j \in 1..Len(events), i < j, IsFileChange(events[i])
      PROVE  \E k, l \in 1..Len(changes) :
               /\ changes[k] <= changes[l]
               /\ changes[k] \in 1..Len(clock) /\ changes[l] \in 1..Len(clock)
               /\ events[i].at = clock[changes[k]] /\ events[j].at = clock[changes[l]]
               /\ events[i].n < events[j].n
  <2>1. i \notin 1..Len(derived) /\ j \notin 1..Len(derived)
    BY <1>5, <1>6, <1>8, <1>10
  <2> DEFINE k == i - Len(derived)
             l == j - Len(derived)
  <2>2. k < l
    BY <1>5, <1>6, <1>10
  <2>3. /\ k \in 1..Len(changes) /\ l \in 1..Len(changes)
        /\ changes[k] \in 1..Len(clock) /\ changes[l] \in 1..Len(clock)
        /\ events[i].at = clock[changes[k]] /\ events[j].at = clock[changes[l]]
        /\ events[i].n = k /\ events[j].n = l
    BY <1>7, <2>1
  <2> HIDE DEF k, l
  <2>4. changes[k] <= changes[l]
    BY <1>6, <2>2, <2>3
  <2> QED
    BY <2>2, <2>3, <2>4
<1>11. ring' = Newest(ring \o events) /\ w.events = ToSet(events)
  BY <1>2 DEF events, clock, t
<1>12. /\ \/ queue' = queue /\ dropped' = dropped /\ IsEmpty(w)
          \/ queue' = Append(queue, w) /\ dropped' = dropped
          \/ queue' = queue /\ dropped' = dropped + 1
       /\ writing' = writing /\ stored' = stored
  BY <1>2
<1>13. clock = Append(shown, at) /\ Len(clock) = Len(shown) + 1
  BY <1>3 DEF clock
<1>14. /\ \A i \in 1..Len(events) :
             /\ events[i].tick = ticks + 1
             /\ IsFileChange(events[i]) =>
                  \E k \in 1..Len(changes) :
                    /\ changes[k] \in 1..(Len(shown) + 1)
                    /\ events[i].at = Append(shown, at)[changes[k]]
             /\ ~IsFileChange(events[i]) => events[i].at = at /\ i = 1
       /\ \A i, j \in 1..Len(events) : i < j /\ IsFileChange(events[i]) =>
             \E k, l \in 1..Len(changes) :
               /\ changes[k] <= changes[l]
               /\ changes[k] \in 1..(Len(shown) + 1) /\ changes[l] \in 1..(Len(shown) + 1)
               /\ events[i].at = Append(shown, at)[changes[k]]
               /\ events[j].at = Append(shown, at)[changes[l]]
               /\ events[i].n < events[j].n
  BY <1>9, <1>10, <1>13, Zenon
<1>15. events \in Seq(Events) /\ w \in Writes
  BY <1>6
<1> QED
  BY <1>11, <1>12, <1>14, <1>15, Zenon DEF TickPushes

\* A write of a later tick may be appended.
LEMMA AppendOK ==
  ASSUME PipeTypeOK, PipeOrdered, NEW w \in Writes,
         \A e \in w.events : e.tick = ticks + 1,
         queue' \in {queue, Append(queue, w)},
         ticks' = ticks + 1, dropped' \in Nat, writing' = writing, stored' = stored
  PROVE  PipeTypeOK' /\ PipeOrdered'
<1>1. PipeTypeOK'
  BY DEF PipeTypeOK
<1>2. PipeOrdered'
  <2>1. \A e \in stored.events : e.tick \in Nat
    BY DEF PipeTypeOK, Events
  <2>2. writing # Idle => \A e \in writing.events : e.tick \in Nat
    BY WriteShape DEF PipeTypeOK
  <2>3. \A i \in DOMAIN queue : \A e \in queue[i].events : e.tick \in Nat
    BY WriteShape DEF PipeTypeOK
  <2>4. ticks \in Nat
    BY DEF PipeTypeOK
  <2>5. CASE queue' = queue
    BY <2>1, <2>2, <2>3, <2>4, <2>5 DEF PipeOrdered, OneTick, Before
  <2>6. CASE queue' = Append(queue, w)
    <3>1. /\ DOMAIN queue' = DOMAIN queue \cup {Len(queue) + 1}
          /\ \A i \in DOMAIN queue : queue'[i] = queue[i] /\ i \in Nat /\ i < Len(queue) + 1
          /\ queue'[Len(queue) + 1] = w
          /\ Len(queue) \in Nat
      BY <2>6 DEF PipeTypeOK
    <3> DEFINE last == Len(queue) + 1
    <3>2. OneTick(w) /\ \A e \in w.events : e.tick <= ticks + 1
      BY <2>4 DEF OneTick
    <3>3. Before(stored.events, w.events)
      BY <2>1, <2>4 DEF PipeOrdered, Before
    <3>4. \A i \in DOMAIN queue : Before(queue[i].events, w.events)
      BY <2>3, <2>4 DEF PipeOrdered, Before
    <3>5. writing # Idle => Before(writing.events, w.events)
      BY <2>2, <2>4 DEF PipeOrdered, Before
    <3>6. ASSUME NEW i \in DOMAIN queue'
          PROVE  /\ OneTick(queue'[i])
                 /\ \A e \in queue'[i].events : e.tick <= ticks'
                 /\ Before(stored'.events, queue'[i].events)
                 /\ writing # Idle => Before(writing.events, queue'[i].events)
      BY <2>3, <2>4, <3>1, <3>2, <3>3, <3>5 DEF PipeOrdered
    <3>7. ASSUME NEW i \in DOMAIN queue', NEW j \in DOMAIN queue', i < j
          PROVE  Before(queue'[i].events, queue'[j].events)
      <4>1. i \in DOMAIN queue
        BY <3>1, <3>7
      <4>2. CASE j \in DOMAIN queue
        BY <3>1, <3>7, <4>1, <4>2 DEF PipeOrdered
      <4>3. CASE j = last
        BY <3>1, <3>4, <4>1, <4>3
      <4> QED
        BY <3>1, <4>2, <4>3
    <3>8. writing # Idle => /\ OneTick(writing)
                            /\ \A e \in writing.events : e.tick <= ticks'
                            /\ Before(stored.events, writing.events)
      BY <2>2, <2>4 DEF PipeOrdered
    <3>9. \A e \in stored.events : e.tick <= ticks'
      BY <2>1, <2>4 DEF PipeOrdered
    <3> QED
      BY <3>6, <3>7, <3>8, <3>9 DEF PipeOrdered
  <2> QED
    BY <2>5, <2>6
<1> QED
  BY <1>1, <1>2

LEMMA HeadAndTail ==
  ASSUME NEW q \in Seq(Writes), q # <<>>
  PROVE  /\ Head(q) = q[1] /\ 1 \in DOMAIN q /\ Head(q) \in Writes
         /\ Tail(q) \in Seq(Writes) /\ Len(Tail(q)) = Len(q) - 1
         /\ \A i \in DOMAIN Tail(q) : i \in Nat /\ i >= 1 /\ i + 1 \in DOMAIN q /\ Tail(q)[i] = q[i + 1]
         /\ \A j \in DOMAIN q : j # 1 => j - 1 \in DOMAIN Tail(q) /\ Tail(q)[j - 1] = q[j]
OBVIOUS

LEMMA TakeWriteOK ==
  ASSUME PipeTypeOK, PipeOrdered, TakeWrite
  PROVE  PipeTypeOK' /\ PipeOrdered'
<1>1. /\ queue \in Seq(Writes) /\ queue # <<>> /\ writing = Idle
      /\ writing' = Head(queue) /\ queue' = Tail(queue)
      /\ UNCHANGED <<ticks, dropped, stored>>
  BY DEF TakeWrite, PipeTypeOK
<1>2. PipeTypeOK'
  BY <1>1, HeadAndTail DEF PipeTypeOK
<1>3. ASSUME NEW i \in DOMAIN queue'
      PROVE  /\ i \in Nat /\ i >= 1
             /\ i + 1 \in DOMAIN queue /\ queue'[i] = queue[i + 1]
             /\ 1 \in DOMAIN queue /\ writing' = queue[1] /\ 1 < i + 1
  BY <1>1, HeadAndTail
<1>4. ASSUME NEW i \in DOMAIN queue'
      PROVE  /\ OneTick(queue'[i])
             /\ \A e \in queue'[i].events : e.tick <= ticks'
             /\ Before(stored'.events, queue'[i].events)
             /\ Before(writing'.events, queue'[i].events)
  BY <1>1, <1>3 DEF PipeOrdered
<1>5. ASSUME NEW i \in DOMAIN queue', NEW j \in DOMAIN queue', i < j
      PROVE  Before(queue'[i].events, queue'[j].events)
  <2>1. i + 1 < j + 1
    BY <1>3, <1>5
  <2> QED
    BY <1>3, <2>1 DEF PipeOrdered
<1>6. /\ OneTick(writing')
      /\ \A e \in writing'.events : e.tick <= ticks'
      /\ Before(stored'.events, writing'.events)
  BY <1>1, HeadAndTail DEF PipeOrdered
<1>7. \A e \in stored'.events : e.tick <= ticks'
  BY <1>1 DEF PipeOrdered
<1> QED
  BY <1>2, <1>4, <1>5, <1>6, <1>7 DEF PipeOrdered

\* Storing projects and services leaves every event where it is.
LEMMA StoreRowsShape ==
  ASSUME PipeTypeOK, StoreProject \/ StoreService
  PROVE  /\ writing # Idle /\ writing' \in Writes /\ writing'.events = writing.events
         /\ stored'.events = stored.events
         /\ stored' = [projects |-> stored'.projects, services |-> stored'.services,
                       events |-> stored'.events]
         /\ UNCHANGED <<queue, ticks, dropped>>
<1>1. CASE StoreProject
  <2>1. PICK p \in writing.projects :
          /\ stored' = [stored EXCEPT !.projects = @ \cup {p}]
          /\ writing' = [writing EXCEPT !.projects = @ \ {p}]
    BY <1>1 DEF StoreProject
  <2>2. writing \in Writes
    BY <1>1 DEF StoreProject, PipeTypeOK
  <2>3. writing' \in Writes /\ writing'.events = writing.events
    BY <2>1, <2>2 DEF Writes
  <2> QED
    BY <1>1, <2>1, <2>3 DEF StoreProject, PipeTypeOK
<1>2. CASE StoreService
  <2>1. PICK s \in DOMAIN writing.services :
          /\ \/ stored' = [stored EXCEPT !.services = Upserted(s, writing.services[s])]
             \/ stored' = stored
          /\ writing' = [writing EXCEPT !.services =
                           [t \in DOMAIN writing.services \ {s} |-> writing.services[t]]]
    BY <1>2 DEF StoreService
  <2>2. writing \in Writes
    BY <1>2 DEF StoreService, PipeTypeOK
  <2> DEFINE rest == [t \in DOMAIN writing.services \ {s} |-> writing.services[t]]
             T == DOMAIN writing.services \ {s}
  <2>3. T \in SUBSET Service /\ rest \in [T -> Rows]
    BY <2>2, WriteShape
  <2>4. rest \in UNION {[S -> Rows] : S \in SUBSET Service}
    BY <2>3
  <2> HIDE DEF rest, T
  <2>5. writing' = [writing EXCEPT !.services = rest]
    BY <2>1 DEF rest
  <2>6. writing' \in Writes /\ writing'.events = writing.events
    BY <2>2, <2>4, <2>5 DEF Writes
  <2>7. stored'.events = stored.events
        /\ stored' = [projects |-> stored'.projects, services |-> stored'.services,
                      events |-> stored'.events]
    BY <2>1 DEF PipeTypeOK
  <2> QED
    BY <1>2, <2>6, <2>7 DEF StoreService
<1> QED
  BY <1>1, <1>2

LEMMA StoreRowsOK ==
  ASSUME PipeTypeOK, PipeOrdered, StoreProject \/ StoreService
  PROVE  PipeTypeOK' /\ PipeOrdered'
<1>1. /\ writing # Idle /\ writing' \in Writes /\ writing'.events = writing.events
      /\ stored'.events = stored.events
      /\ stored' = [projects |-> stored'.projects, services |-> stored'.services,
                    events |-> stored'.events]
      /\ queue' = queue /\ ticks' = ticks /\ dropped' = dropped
  BY StoreRowsShape
<1>2. PipeTypeOK'
  BY <1>1 DEF PipeTypeOK
<1>3. PipeOrdered'
  BY <1>1 DEF PipeOrdered, OneTick
<1> QED
  BY <1>2, <1>3

LEMMA StoreEventsOK ==
  ASSUME PipeTypeOK, PipeOrdered, StoreEvents
  PROVE  PipeTypeOK' /\ PipeOrdered'
<1>1. /\ writing \in Writes /\ writing # Idle /\ writing' = Idle
      /\ stored' = [stored EXCEPT !.events = @ \cup writing.events]
      /\ queue' = queue /\ ticks' = ticks /\ dropped' = dropped
  BY DEF StoreEvents, PipeTypeOK
<1>2. /\ stored'.events = stored.events \cup writing.events
      /\ stored' = [projects |-> stored'.projects, services |-> stored'.services,
                    events |-> stored'.events]
  BY <1>1 DEF PipeTypeOK
<1>3. PipeTypeOK'
  BY <1>1, <1>2, WriteShape DEF PipeTypeOK
<1>4. \A i \in DOMAIN queue : Before(stored'.events, queue[i].events)
  BY <1>1, <1>2 DEF PipeOrdered, Before
<1>5. \A e \in stored'.events : e.tick <= ticks
  BY <1>1, <1>2 DEF PipeOrdered
<1>6. PipeOrdered'
  BY <1>1, <1>4, <1>5 DEF PipeOrdered
<1> QED
  BY <1>3, <1>6

LEMMA CrashOK ==
  ASSUME PipeTypeOK, PipeOrdered, Crash
  PROVE  PipeTypeOK' /\ PipeOrdered'
<1>1. queue' = <<>> /\ writing' = Idle /\ dropped' = 0 /\ stored' = stored /\ ticks' = ticks
  BY DEF Crash
<1>2. PipeTypeOK'
  BY <1>1 DEF PipeTypeOK
<1>3. PipeOrdered'
  BY <1>1 DEF PipeOrdered
<1> QED
  BY <1>2, <1>3

LEMMA PipeTickOK ==
  ASSUME PipeInv, NEW batch \in Batches, NEW at \in Time, NEW seen \in SUBSET Project,
         NEW answered \in BOOLEAN, NEW sampled \in BOOLEAN,
         NEW changes \in Drains(Len(shown) + 1),
         PersistTick(batch, at, seen, answered, sampled, changes)
  PROVE  PipeTypeOK' /\ PipeOrdered'
<1>1. PICK w \in Writes :
        /\ IsFiniteSet(w.events) /\ \A e \in w.events : e.tick = ticks'
        /\ \/ queue' = queue /\ dropped' = dropped /\ IsEmpty(w)
           \/ queue' = Append(queue, w) /\ dropped' = dropped
           \/ queue' = queue /\ dropped' = dropped + 1
        /\ ticks' = ticks + 1 /\ writing' = writing /\ stored' = stored
  BY PipeTickShape DEF TickPart
<1>2. \A e \in w.events : e.tick = ticks + 1
  BY <1>1
<1>3. dropped' \in Nat
  BY <1>1 DEF PipeInv, PipeTypeOK
<1>4. queue' \in {queue, Append(queue, w)}
  BY <1>1
<1>5. PipeTypeOK /\ PipeOrdered
  BY DEF PipeInv
<1> QED
  BY <1>1, <1>2, <1>3, <1>4, <1>5, AppendOK

LEMMA PipeInductive == PipeInv /\ [PersistNext]_persistVars => PipeInv'
<1> SUFFICES ASSUME PipeInv, [PersistNext]_persistVars PROVE PipeInv'
  OBVIOUS
<1>1. RegInv'
  BY RegInvInductive DEF PipeInv
<1>2. ShownOK' /\ PipeTypeOK' /\ PipeOrdered'
  <2>1. CASE UNCHANGED persistVars
    BY <2>1 DEF persistVars, PipeInv, ShownOK, PipeTypeOK, PipeOrdered, OneTick
  <2>2. ASSUME NEW batch \in Batches, NEW d \in ClockSteps, NEW seen \in SUBSET Project,
               NEW answered \in BOOLEAN, NEW sampled \in BOOLEAN,
               NEW changes \in Drains(Len(shown) + 1), now + d \in Time,
               PersistTick(batch, now + d, seen, answered, sampled, changes)
        PROVE  ShownOK' /\ PipeTypeOK' /\ PipeOrdered'
    BY <2>2, PipeTickOK, ShownTick
  <2>3. CASE Writer
    <3>1. ShownOK'
      BY <2>3, WriterUnmoved DEF PipeInv, ShownOK
    <3> QED
      BY <2>3, <3>1, TakeWriteOK, StoreRowsOK, StoreEventsOK DEF PipeInv, Writer
  <2>4. CASE Crash
    <3>1. ShownOK'
      BY <2>4 DEF Crash, PipeInv, PipeTypeOK, ShownOK
    <3> QED
      BY <2>4, <3>1, CrashOK DEF PipeInv
  <2> QED
    BY <2>1, <2>2, <2>3, <2>4 DEF PersistNext
<1> QED
  BY <1>1, <1>2 DEF PipeInv

LEMMA PipeInvariance == PersistSpec => []PipeInv
BY PipeInitially, PipeInductive, PTL DEF PersistSpec

----------------------------------------------------------------------------
(***************************************************************************)
(* Persistence implements TickHistory.                                     *)
(***************************************************************************)
Recorded == {e.tick : e \in stored.events}
InHand   == IF writing = Idle THEN {} ELSE {e.tick : e \in writing.events}
Queued   == UNION {{e.tick : e \in queue[i].events} : i \in DOMAIN queue}

LEMMA AcceptedParts == Accepted = InHand \cup Queued
<1>1. ASSUME NEW n PROVE n \in Accepted <=> n \in InHand \/ n \in Queued
  <2>1. n \in Queued <=> \E i \in DOMAIN queue : \E e \in queue[i].events : n = e.tick
    BY DEF Queued
  <2>2. n \in InHand <=> writing # Idle /\ \E e \in writing.events : n = e.tick
    BY DEF InHand
  <2>3. n \in Accepted <=> \/ \E i \in DOMAIN queue : \E e \in queue[i].events : n = e.tick
                           \/ writing # Idle /\ \E e \in writing.events : n = e.tick
    BY DEF Accepted
  <2> QED
    BY <2>1, <2>2, <2>3
<1> QED
  BY <1>1

LEMMA AcceptedPartsNext == Accepted' = InHand' \cup Queued'
<1>1. ASSUME NEW n PROVE n \in Accepted' <=> n \in InHand' \/ n \in Queued'
  <2>1. n \in Queued' <=> \E i \in DOMAIN queue' : \E e \in queue'[i].events : n = e.tick
    BY DEF Queued
  <2>2. n \in InHand' <=> writing' # Idle /\ \E e \in writing'.events : n = e.tick
    BY DEF InHand
  <2>3. n \in Accepted' <=> \/ \E i \in DOMAIN queue' : \E e \in queue'[i].events : n = e.tick
                            \/ writing' # Idle /\ \E e \in writing'.events : n = e.tick
    BY DEF Accepted
  <2> QED
    BY <2>1, <2>2, <2>3
<1> QED
  BY <1>1

LEMMA TickMakes ==
  ASSUME PipeInv, NEW batch \in Batches, NEW at \in Time, NEW seen \in SUBSET Project,
         NEW answered \in BOOLEAN, NEW sampled \in BOOLEAN,
         NEW changes \in Drains(Len(shown) + 1),
         PersistTick(batch, at, seen, answered, sampled, changes)
  PROVE  History!Make
<1>1. PICK w \in Writes :
        /\ IsFiniteSet(w.events) /\ \A e \in w.events : e.tick = ticks'
        /\ \/ queue' = queue
           \/ queue' = Append(queue, w)
        /\ ticks' = ticks + 1 /\ writing' = writing /\ stored' = stored
  BY PipeTickShape DEF TickPart
<1>2. InHand' = InHand /\ Recorded' = Recorded
  BY <1>1 DEF InHand, Recorded
<1>3. Queued' \in {Queued, Queued \cup {ticks'}}
  <2>1. CASE queue' = queue
    BY <2>1 DEF Queued
  <2>2. CASE queue' = Append(queue, w)
    <3>1. queue \in Seq(Writes)
      BY DEF PipeInv, PipeTypeOK
    <3>2. /\ DOMAIN queue' = DOMAIN queue \cup {Len(queue) + 1}
          /\ \A i \in DOMAIN queue : queue'[i] = queue[i]
          /\ queue'[Len(queue) + 1] = w
      BY <2>2, <3>1
    <3>3. Queued' = Queued \cup {e.tick : e \in w.events}
      <4>1. ASSUME NEW n PROVE n \in Queued' <=> n \in Queued \/ n \in {e.tick : e \in w.events}
        <5>1. n \in Queued' <=> \E i \in DOMAIN queue' : \E e \in queue'[i].events : n = e.tick
          BY DEF Queued
        <5>2. n \in Queued <=> \E i \in DOMAIN queue : \E e \in queue[i].events : n = e.tick
          BY DEF Queued
        <5> QED
          BY <3>2, <5>1, <5>2
      <4> QED
        BY <4>1
    <3>4. {e.tick : e \in w.events} \in {{}, {ticks'}}
      BY <1>1
    <3> QED
      BY <3>3, <3>4
  <2> QED
    BY <1>1, <2>1, <2>2
<1>4. Accepted' \in {Accepted, Accepted \cup {ticks'}}
  BY <1>2, <1>3, AcceptedParts, AcceptedPartsNext
<1> QED
  BY <1>1, <1>2, <1>4 DEF History!Make, Recorded

LEMMA TakeStutters ==
  ASSUME PipeInv, TakeWrite
  PROVE  UNCHANGED <<ticks, Accepted, Recorded>>
<1>1. /\ queue \in Seq(Writes) /\ queue # <<>> /\ writing = Idle
      /\ writing' = Head(queue) /\ queue' = Tail(queue)
      /\ UNCHANGED <<ticks, stored>>
  BY DEF TakeWrite, PipeInv, PipeTypeOK
<1>2. /\ 1 \in DOMAIN queue /\ writing' = queue[1] /\ writing' # Idle
      /\ \A i \in DOMAIN queue' : i + 1 \in DOMAIN queue /\ queue'[i] = queue[i + 1]
      /\ \A j \in DOMAIN queue : j # 1 => j - 1 \in DOMAIN queue' /\ queue'[j - 1] = queue[j]
  BY <1>1, HeadAndTail, IdleAssumption
<1>3. ASSUME NEW n PROVE n \in InHand' \/ n \in Queued' <=> n \in Queued
  <2>1. n \in Queued' <=> \E i \in DOMAIN queue' : \E e \in queue'[i].events : n = e.tick
    BY DEF Queued
  <2>2. n \in Queued <=> \E i \in DOMAIN queue : \E e \in queue[i].events : n = e.tick
    BY DEF Queued
  <2>3. n \in InHand' <=> \E e \in queue[1].events : n = e.tick
    BY <1>2 DEF InHand
  <2> QED
    BY <1>2, <2>1, <2>2, <2>3
<1>4. InHand = {}
  BY <1>1 DEF InHand
<1>5. Accepted' = Accepted
  BY <1>3, <1>4, AcceptedParts, AcceptedPartsNext
<1> QED
  BY <1>1, <1>5 DEF Recorded

LEMMA RowsStutter ==
  ASSUME PipeInv, StoreProject \/ StoreService
  PROVE  UNCHANGED <<ticks, Accepted, Recorded>>
<1>1. /\ writing # Idle /\ writing' \in Writes /\ writing'.events = writing.events
      /\ stored'.events = stored.events /\ queue' = queue /\ ticks' = ticks
  BY StoreRowsShape DEF PipeInv
<1>2. InHand' = InHand /\ Queued' = Queued /\ Recorded' = Recorded
  BY <1>1, IdleAssumption DEF InHand, Queued, Recorded
<1> QED
  BY <1>1, <1>2, AcceptedParts, AcceptedPartsNext

LEMMA EventsRecord ==
  ASSUME PipeInv, StoreEvents
  PROVE  History!Record \/ UNCHANGED <<ticks, Accepted, Recorded>>
<1>1. /\ writing \in Writes /\ writing # Idle /\ writing' = Idle
      /\ stored'.events = stored.events \cup writing.events
      /\ queue' = queue /\ ticks' = ticks
  BY DEF StoreEvents, PipeInv, PipeTypeOK
<1>2. InHand = {e.tick : e \in writing.events} /\ InHand' = {} /\ Queued' = Queued
      /\ Recorded' = Recorded \cup InHand
  BY <1>1 DEF InHand, Queued, Recorded
<1>3. CASE writing.events = {}
  BY <1>1, <1>2, <1>3, AcceptedParts, AcceptedPartsNext
<1>4. CASE writing.events # {}
  <2>1. PICK e \in writing.events : TRUE
    BY <1>4
  <2>2. InHand = {e.tick} /\ e.tick \in Nat
    BY <1>1, <1>2, <2>1, WriteShape DEF PipeInv, PipeOrdered, OneTick
  <2>3. \A m \in Queued : e.tick < m /\ m \in Nat
    BY <1>1, <2>1, WriteShape DEF PipeInv, PipeTypeOK, PipeOrdered, Before, Queued
  <2>4. \A m \in Recorded : m < e.tick
    BY <1>1, <2>1 DEF PipeInv, PipeOrdered, Before, Recorded
  <2>5. Accepted = {e.tick} \cup Queued /\ Accepted' = Queued
    BY <1>2, <2>2, AcceptedParts, AcceptedPartsNext
  <2>6. e.tick \notin Queued
    BY <2>2, <2>3
  <2>7. /\ e.tick \in Accepted /\ Accepted' = Accepted \ {e.tick}
        /\ \A m \in Accepted : e.tick <= m
    BY <2>2, <2>3, <2>5, <2>6
  <2>8. Recorded' = Recorded \cup {e.tick}
    BY <1>2, <2>2
  <2>9. History!Record
    BY <1>1, <2>4, <2>7, <2>8 DEF History!Record, Recorded
  <2> QED
    BY <2>9
<1> QED
  BY <1>3, <1>4

LEMMA CrashLoses ==
  ASSUME PipeInv, Crash
  PROVE  History!Lose
<1>1. queue' = <<>> /\ writing' = Idle /\ stored' = stored /\ ticks' = ticks
  BY DEF Crash
<1>2. InHand' = {} /\ Queued' = {}
  BY <1>1 DEF InHand, Queued
<1>3. Accepted' = {}
  BY <1>2, AcceptedPartsNext
<1> QED
  BY <1>1, <1>3 DEF History!Lose

LEMMA HistoryStep == PipeInv /\ [PersistNext]_persistVars => [History!HistoryNext]_(History!historyVars)
<1> SUFFICES ASSUME PipeInv, [PersistNext]_persistVars
             PROVE  History!HistoryNext \/ UNCHANGED <<ticks, Accepted, Recorded>>
  BY DEF History!historyVars, Recorded
<1>1. CASE UNCHANGED persistVars
  BY <1>1 DEF persistVars, Accepted, Recorded
<1>2. ASSUME NEW batch \in Batches, NEW d \in ClockSteps, NEW seen \in SUBSET Project,
             NEW answered \in BOOLEAN, NEW sampled \in BOOLEAN,
             NEW changes \in Drains(Len(shown) + 1), now + d \in Time,
             PersistTick(batch, now + d, seen, answered, sampled, changes)
      PROVE  History!HistoryNext
  BY <1>2, TickMakes DEF History!HistoryNext
<1>3. CASE Writer
  BY <1>3, TakeStutters, RowsStutter, EventsRecord DEF Writer, History!HistoryNext
<1>4. CASE Crash
  BY <1>4, CrashLoses DEF History!HistoryNext
<1> QED
  BY <1>1, <1>2, <1>3, <1>4 DEF PersistNext

\* Queue, writer and crashes lose whole ticks only, and record the others once and in order.
THEOREM HistoryIsKept == PersistSpec => ImplementsHistory
<1>1. PersistInit => History!HistoryInit
  <2> SUFFICES ASSUME PersistInit PROVE History!HistoryInit
    OBVIOUS
  <2>1. ticks = 0 /\ queue = <<>> /\ writing = Idle /\ stored.events = {}
    BY DEF PersistInit
  <2>2. Accepted = {}
    BY <2>1, AcceptedParts DEF InHand, Queued
  <2> QED
    BY <2>1, <2>2 DEF History!HistoryInit
<1> QED
  BY <1>1, HistoryStep, PipeInvariance, PTL DEF PersistSpec, ImplementsHistory, History!HistorySpec
----------------------------------------------------------------------------
(***************************************************************************)
(* The order of the timeline.  Two events of different ticks are never at  *)
(* the same place in it, so that a finite set of events has one listing.   *)
(***************************************************************************)
Lists(seq, S) ==
  /\ seq \in [1..Cardinality(S) -> S]
  /\ \A i, j \in DOMAIN seq : i < j => Earlier(seq[i], seq[j])

LEMMA EarlierOrders ==
  ASSUME NEW e \in Events, NEW f \in Events
  PROVE  /\ ~Earlier(e, e)
         /\ e # f => Earlier(e, f) \/ Earlier(f, e)
         /\ ~(Earlier(e, f) /\ Earlier(f, e))
         /\ \A g \in Events : Earlier(e, f) /\ Earlier(f, g) => Earlier(e, g)
BY LimitAssumption DEF Earlier, Events, Time

\* A non-empty set of events has an earliest one.
LEMMA EarliestEvent ==
  ASSUME NEW S \in SUBSET Events, S # {}
  PROVE  \E e \in S : \A f \in S : f # e => Earlier(e, f)
<1> DEFINE times == {e.at : e \in S}
<1>1. times \in SUBSET Nat /\ times # {}
  BY LimitAssumption DEF Events, Time
<1>2. PICK at \in times : \A t \in times : at <= t
  BY <1>1, LeastNatural
<1> DEFINE then == {e \in S : e.at = at}
           ids == {e.tick : e \in then}
<1>3. ids \in SUBSET Nat /\ ids # {}
  BY DEF Events
<1>4. PICK id \in ids : \A n \in ids : id <= n
  BY <1>3, LeastNatural
<1> DEFINE numbers == {e.n : e \in {f \in then : f.tick = id}}
<1>5. numbers \in SUBSET Nat /\ numbers # {}
  BY DEF Events
<1>6. PICK n \in numbers : \A m \in numbers : n <= m
  BY <1>5, LeastNatural
<1>7. PICK e \in S : e.at = at /\ e.tick = id /\ e.n = n
  BY <1>6
<1>8. ASSUME NEW f \in S, f # e PROVE Earlier(e, f)
  <2>1. at <= f.at /\ f.at \in Nat /\ at \in Nat
    BY <1>1, <1>2
  <2>2. f.at = at => id <= f.tick /\ id \in Nat /\ f.tick \in Nat
    BY <1>3, <1>4
  <2>3. f.at = at /\ f.tick = id => n <= f.n /\ n \in Nat /\ f.n \in Nat
    BY <1>5, <1>6
  <2>4. ~(f.at = at /\ f.tick = id /\ f.n = n)
    BY <1>7, <1>8 DEF Events
  <2> HIDE DEF then, ids, numbers, times
  <2> QED
    BY <1>7, <2>1, <2>2, <2>3, <2>4 DEF Earlier
<1> QED
  BY <1>7, <1>8

\* A listing has every element of its set.
LEMMA ListsAll ==
  ASSUME NEW S \in SUBSET Events, IsFiniteSet(S), NEW seq, Lists(seq, S)
  PROVE  \A e \in S : \E i \in 1..Cardinality(S) : seq[i] = e
<1> DEFINE n == Cardinality(S)
<1>1. n \in Nat
  BY FS_CardinalityType
<1>2. IsFiniteSet(1..n) /\ Cardinality(1..n) = n
  BY <1>1, FS_Interval
<1> HIDE DEF n
<1>3. seq \in [1..n -> S] /\ DOMAIN seq = 1..n
  BY DEF Lists, n
<1>4. \A i, j \in 1..n : i # j => seq[i] # seq[j]
  <2>1. ASSUME NEW i \in 1..n, NEW j \in 1..n, i < j PROVE seq[i] # seq[j]
    <3>1. Earlier(seq[i], seq[j]) /\ seq[i] \in Events
      BY <1>3, <2>1 DEF Lists
    <3> QED
      BY <3>1, EarlierOrders
  <2> QED
    BY <1>1, <2>1
<1>5. seq \in Injection(1..n, S)
  BY <1>3, <1>4 DEF Injection, IsInjective
<1>6. seq \in Surjection(1..n, S)
  <2>1. Cardinality(S) = n
    BY DEF n
  <2>2. Cardinality(1..n) = Cardinality(S) => seq \in Surjection(1..n, S)
    BY <1>5, FS_Injection
  <2> QED
    BY <1>2, <2>1, <2>2
<1> QED
  BY <1>6 DEF Surjection, n

LEMMA ListsExist ==
  ASSUME NEW S \in SUBSET Events, IsFiniteSet(S)
  PROVE  \E seq : Lists(seq, S)
<1> DEFINE Unlisted(T) == T \in SUBSET Events /\ IsFiniteSet(T) /\ ~ \E seq : Lists(seq, T)
           sizes == {Cardinality(T) : T \in {U \in SUBSET Events : Unlisted(U)}}
<1> SUFFICES ASSUME sizes # {} PROVE FALSE
  OBVIOUS
<1>1. sizes \in SUBSET Nat
  BY FS_CardinalityType
<1>2. PICK n \in sizes : \A m \in sizes : n <= m
  BY <1>1, LeastNatural
<1>3. PICK T \in SUBSET Events : Unlisted(T) /\ Cardinality(T) = n
  BY <1>2
<1>4. CASE T = {}
  <2>1. Cardinality(T) = 0
    BY <1>4, FS_EmptySet
  <2>2. Lists(<<>>, T)
    BY <2>1 DEF Lists
  <2> QED
    BY <1>3, <2>2
<1>5. CASE T # {}
  <2>1. PICK e \in T : \A f \in T : f # e => Earlier(e, f)
    BY <1>5, EarliestEvent
  <2> DEFINE rest == T \ {e}
  <2>2. IsFiniteSet(rest) /\ Cardinality(rest) = n - 1 /\ n \in Nat /\ n > 0
    <3>1. IsFiniteSet(T) /\ Cardinality(T) = n /\ n \in Nat
      BY <1>1, <1>2, <1>3
    <3>2. n # 0
      BY <1>5, <3>1, FS_EmptySet
    <3>3. IsFiniteSet(rest) /\ Cardinality(rest) = Cardinality(T) - 1
      BY <3>1, FS_RemoveElement
    <3> HIDE DEF rest, sizes
    <3> QED
      BY <3>1, <3>2, <3>3
  <2>3. rest \in SUBSET Events /\ ~ Unlisted(rest)
    <3>1. rest \in SUBSET Events
      OBVIOUS
    <3>2. Unlisted(rest) => Cardinality(rest) \in sizes
      BY <3>1
    <3>3. n - 1 \notin sizes
      BY <1>2, <2>2
    <3> HIDE DEF rest, sizes, Unlisted
    <3> QED
      BY <2>2, <3>1, <3>2, <3>3
  <2>4. PICK seq : Lists(seq, rest)
    BY <2>2, <2>3
  <2> DEFINE all == [i \in 1..n |-> IF i = 1 THEN e ELSE seq[i - 1]]
  <2>5. seq \in [1..(n - 1) -> rest]
    BY <2>2, <2>4 DEF Lists
  <2>6. all \in [1..n -> T]
    BY <2>2, <2>5
  <2>7. ASSUME NEW i \in 1..n, NEW j \in 1..n, i < j PROVE Earlier(all[i], all[j])
    <3>1. j - 1 \in 1..(n - 1) /\ all[j] = seq[j - 1] /\ seq[j - 1] \in rest
      BY <2>2, <2>5, <2>7
    <3>2. CASE i = 1
      BY <2>1, <3>1, <3>2
    <3>3. CASE i # 1
      <4>1. i - 1 \in 1..(n - 1) /\ all[i] = seq[i - 1] /\ i - 1 < j - 1
        BY <2>2, <2>7, <3>3
      <4> QED
        BY <2>4, <2>5, <3>1, <4>1 DEF Lists
    <3> QED
      BY <3>2, <3>3
  <2>8. Lists(all, T)
    BY <1>3, <2>6, <2>7 DEF Lists
  <2> QED
    BY <1>3, <2>8
<1> QED
  BY <1>4, <1>5

\* The number of elements before another is its place in the listing.
LEMMA TimelineLists ==
  ASSUME NEW S \in SUBSET Events, IsFiniteSet(S)
  PROVE  Lists(Timeline(S), S)
<1> DEFINE n == Cardinality(S)
           before(e) == {f \in S : Earlier(f, e)}
<1>1. PICK seq : Lists(seq, S)
  BY ListsExist
<1>2. n \in Nat /\ \A e \in S : \E i \in 1..n : seq[i] = e
  BY <1>1, ListsAll, FS_CardinalityType
<1>3. /\ seq \in [1..n -> S] /\ DOMAIN seq = 1..n
      /\ \A i, j \in 1..n : i < j => Earlier(seq[i], seq[j])
  BY <1>1 DEF Lists
<1> HIDE DEF n
<1>4. ASSUME NEW i \in 1..n PROVE Cardinality(before(seq[i])) = i - 1
  <2> DEFINE front == 1..(i - 1)
             T == before(seq[i])
             g == [k \in front |-> seq[k]]
  <2>1. i \in Nat /\ i - 1 \in Nat /\ \A k \in front : k \in 1..n /\ k < i
    BY <1>2
  <2>2. IsFiniteSet(front) /\ Cardinality(front) = i - 1
    BY <2>1, FS_Interval
  <2>3. \A k \in front : seq[k] \in T
    BY <1>3, <2>1
  <2>4. ASSUME NEW f \in T PROVE \E k \in front : seq[k] = f
    <3>1. PICK k \in 1..n : seq[k] = f
      BY <1>2
    <3>2. f \in Events /\ seq[i] \in Events /\ Earlier(f, seq[i])
      BY <1>3
    <3>3. ~(i < k) /\ i # k
      BY <1>3, <3>1, <3>2, EarlierOrders
    <3> QED
      BY <1>2, <3>1, <3>3
  <2>5. ASSUME NEW k \in front, NEW l \in front, k < l PROVE seq[k] # seq[l]
    <3>1. Earlier(seq[k], seq[l]) /\ seq[k] \in Events
      BY <1>3, <2>1, <2>5
    <3> QED
      BY <3>1, EarlierOrders
  <2>6. \A k, l \in front : k # l => seq[k] # seq[l]
    BY <2>1, <2>5
  <2> HIDE DEF front, T
  <2>7. g \in Bijection(front, T)
    BY <2>3, <2>4, <2>6 DEF Bijection, Injection, IsInjective, Surjection
  <2>8. ExistsBijection(front, T)
    BY <2>7 DEF ExistsBijection
  <2>9. Cardinality(T) = Cardinality(front)
    BY <2>2, <2>8, FS_Bijection
  <2> QED
    BY <2>2, <2>9 DEF T
<1>5. ASSUME NEW i \in 1..n
      PROVE  seq[i] = CHOOSE e \in S : Cardinality(before(e)) = i - 1
  <2>1. seq[i] \in S /\ Cardinality(before(seq[i])) = i - 1
    BY <1>3, <1>4
  <2>2. ASSUME NEW e \in S, Cardinality(before(e)) = i - 1 PROVE e = seq[i]
    <3>1. PICK k \in 1..n : seq[k] = e
      BY <1>2
    <3>2. Cardinality(before(e)) = k - 1
      BY <1>4, <3>1
    <3>3. k = i
      BY <1>2, <2>2, <3>2
    <3> QED
      BY <3>1, <3>3
  <2> HIDE DEF before
  <2> QED
    BY <2>1, <2>2
<1>6. Timeline(S) = [i \in 1..n |-> CHOOSE e \in S : Cardinality(before(e)) = i - 1]
  BY DEF Timeline, n
<1> HIDE DEF before
<1>7. Timeline(S) = [i \in 1..n |-> seq[i]]
  BY <1>5, <1>6
<1>8. seq = [i \in 1..n |-> seq[i]]
  BY <1>3
<1> QED
  BY <1>1, <1>7, <1>8

----------------------------------------------------------------------------
(***************************************************************************)
(* The ring: the newest of a sequence.                                     *)
(***************************************************************************)
LEMMA NewestShape ==
  ASSUME NEW S, NEW q \in Seq(S)
  PROVE  /\ Newest(q) \in Seq(S) /\ Len(Newest(q)) <= RingCapacity
         /\ Len(Newest(q)) = IF Len(q) > RingCapacity THEN RingCapacity ELSE Len(q)
         /\ \A i \in 1..Len(Newest(q)) : Newest(q)[i] = q[Len(q) - Len(Newest(q)) + i]
<1> DEFINE first == IF Len(q) > RingCapacity THEN Len(q) - RingCapacity + 1 ELSE 1
<1>1. first \in 1..(Len(q) + 1) /\ Len(q) \in Nat /\ RingCapacity \in Nat \ {0}
  BY PersistenceAssumption
<1>2. Newest(q) = SubSeq(q, first, Len(q))
  BY DEF Newest
<1> HIDE DEF first
<1>3. /\ SubSeq(q, first, Len(q)) \in Seq(S)
      /\ Len(SubSeq(q, first, Len(q))) = Len(q) - first + 1
      /\ \A i \in 1..(Len(q) - first + 1) : SubSeq(q, first, Len(q))[i] = q[first + i - 1]
  BY <1>1
<1>4. Len(q) - first + 1 = IF Len(q) > RingCapacity THEN RingCapacity ELSE Len(q)
  BY <1>1 DEF first
<1> QED
  BY <1>1, <1>2, <1>3, <1>4

----------------------------------------------------------------------------
(***************************************************************************)
(* The events the daemon has not forgotten: in the file, in the writer's   *)
(* hand, or in the queue.  Only a tick adds one, and only a crash loses    *)
(* some.                                                                   *)
(***************************************************************************)
EventsInHand == IF writing = Idle THEN {} ELSE writing.events

Told == stored.events \cup EventsInHand \cup UNION {queue[i].events : i \in DOMAIN queue}

LEMMA ToldParts ==
  \A e : e \in Told <=> e \in stored.events \/ e \in EventsInHand
                          \/ \E i \in DOMAIN queue : e \in queue[i].events
BY DEF Told

LEMMA ToldPartsNext ==
  \A e : e \in Told' <=> e \in stored'.events \/ e \in EventsInHand'
                           \/ \E i \in DOMAIN queue' : e \in queue'[i].events
BY DEF Told

LEMMA ToldType ==
  ASSUME PipeInv
  PROVE  Told \subseteq Events /\ \A e \in Told : e.tick <= ticks /\ e.tick \in Nat
<1>1. writing # Idle => writing.events \subseteq Events /\ \A e \in writing.events : e.tick <= ticks
  BY WriteShape DEF PipeInv, PipeTypeOK, PipeOrdered
<1>2. \A i \in DOMAIN queue : queue[i].events \subseteq Events /\ \A e \in queue[i].events : e.tick <= ticks
  BY WriteShape DEF PipeInv, PipeTypeOK, PipeOrdered
<1>3. stored.events \subseteq Events /\ \A e \in stored.events : e.tick <= ticks
  BY DEF PipeInv, PipeTypeOK, PipeOrdered
<1>4. Told \subseteq Events /\ \A e \in Told : e.tick <= ticks
  BY <1>1, <1>2, <1>3 DEF Told, EventsInHand
<1> QED
  BY <1>4 DEF Events

LEMMA ToldWriter ==
  ASSUME PipeInv, Writer
  PROVE  Told' = Told
<1>1. CASE TakeWrite
  <2>1. /\ queue \in Seq(Writes) /\ queue # <<>> /\ writing = Idle
        /\ writing' = Head(queue) /\ queue' = Tail(queue) /\ stored' = stored
    BY <1>1 DEF TakeWrite, PipeInv, PipeTypeOK
  <2>2. /\ 1 \in DOMAIN queue /\ writing' = queue[1] /\ writing' # Idle
        /\ \A i \in DOMAIN queue' : i + 1 \in DOMAIN queue /\ queue'[i] = queue[i + 1]
        /\ \A j \in DOMAIN queue : j # 1 => j - 1 \in DOMAIN queue' /\ queue'[j - 1] = queue[j]
    BY <2>1, HeadAndTail, IdleAssumption
  <2>3. EventsInHand = {} /\ EventsInHand' = queue[1].events
    BY <2>1, <2>2 DEF EventsInHand
  <2>4. ASSUME NEW e PROVE e \in Told' <=> e \in Told
    <3>1. (\E i \in DOMAIN queue : e \in queue[i].events)
            <=> e \in queue[1].events \/ \E i \in DOMAIN queue' : e \in queue'[i].events
      BY <2>2
    <3> QED
      BY <2>1, <2>3, <3>1, ToldParts, ToldPartsNext
  <2> QED
    BY <2>4 DEF Told
<1>2. CASE StoreProject \/ StoreService
  <2>1. /\ writing # Idle /\ writing' # Idle /\ writing'.events = writing.events
        /\ stored'.events = stored.events /\ queue' = queue
    BY <1>2, StoreRowsShape, IdleAssumption DEF PipeInv
  <2> QED
    BY <2>1 DEF Told, EventsInHand
<1>3. CASE StoreEvents
  <2>1. /\ writing # Idle /\ writing' = Idle /\ queue' = queue
        /\ stored'.events = stored.events \cup writing.events
    BY <1>3 DEF StoreEvents, PipeInv, PipeTypeOK
  <2> QED
    BY <2>1 DEF Told, EventsInHand
<1> QED
  BY <1>1, <1>2, <1>3 DEF Writer

LEMMA ToldCrash ==
  ASSUME Crash
  PROVE  Told' = stored.events
BY DEF Crash, Told, EventsInHand

LEMMA ToldTick ==
  ASSUME PipeInv, NEW w \in Writes, writing' = writing, stored' = stored
  PROVE  /\ queue' = queue => Told' = Told
         /\ queue' = Append(queue, w) => Told' = Told \cup w.events
<1>1. EventsInHand' = EventsInHand
  BY DEF EventsInHand
<1>2. CASE queue' = queue
  BY <1>1, <1>2 DEF Told
<1>3. CASE queue' = Append(queue, w)
  <2>1. /\ DOMAIN queue' = DOMAIN queue \cup {Len(queue) + 1}
        /\ \A i \in DOMAIN queue : queue'[i] = queue[i]
        /\ queue'[Len(queue) + 1] = w
        /\ ~ queue' = queue
    BY <1>3 DEF PipeInv, PipeTypeOK
  <2>2. \A e : e \in Told' <=> e \in Told \/ e \in w.events
    BY <1>1, <2>1, ToldParts, ToldPartsNext
  <2> QED
    BY <2>1, <2>2 DEF Told
<1> QED
  BY <1>2, <1>3
----------------------------------------------------------------------------
(***************************************************************************)
(* Types and bounds.  What a crash leaves of the ring is a sequence        *)
(* because the file holds finitely many events.                            *)
(***************************************************************************)
RestInv ==
  /\ inspects \in BOOLEAN /\ projects \subseteq introduced /\ introduced \subseteq Project
  /\ Len(queue) <= QueueDepth /\ dropped <= ticks
  /\ stored.projects \subseteq Project
  /\ stored.services \in UNION {[S -> Rows] : S \in SUBSET Service}
  /\ ring \in Seq(Events) /\ Len(ring) <= RingCapacity
  /\ IsFiniteSet(Told)

\* What is restored: as many as fit, in order, and later than what does not fit.
LEMMA RestoredShape ==
  ASSUME NEW S \in SUBSET Events, IsFiniteSet(S)
  PROVE  LET back == Restored(S)
         IN  /\ back \in Seq(S) /\ back \in Seq(Events) /\ Len(back) <= RingCapacity
             /\ Len(back) = IF Cardinality(S) > RingCapacity THEN RingCapacity ELSE Cardinality(S)
             /\ \A i, j \in 1..Len(back) : i < j => Earlier(back[i], back[j])
             /\ \A g \in S \ ToSet(back), e \in ToSet(back) : Earlier(g, e)
<1> DEFINE n == Cardinality(S)
           all == Timeline(S)
           back == Newest(all)
<1>1. n \in Nat /\ RingCapacity \in Nat \ {0}
  BY FS_CardinalityType, PersistenceAssumption
<1>2. /\ all \in [1..n -> S] /\ DOMAIN all = 1..n
      /\ \A i, j \in 1..n : i < j => Earlier(all[i], all[j])
      /\ \A e \in S : \E i \in 1..n : all[i] = e
  BY TimelineLists, ListsAll DEF Lists
<1> HIDE DEF n, all
<1>3. all \in Seq(S) /\ Len(all) = n
  BY <1>1, <1>2
<1>4. /\ back \in Seq(S) /\ Len(back) = IF n > RingCapacity THEN RingCapacity ELSE n
      /\ \A i \in 1..Len(back) : back[i] = all[n - Len(back) + i]
  BY <1>3, NewestShape
<1> HIDE DEF back
<1>5. /\ Len(back) \in Nat /\ Len(back) <= n
      /\ \A i \in 1..Len(back) : n - Len(back) + i \in 1..n
  BY <1>1, <1>4
<1>6. ASSUME NEW i \in 1..Len(back), NEW j \in 1..Len(back), i < j PROVE Earlier(back[i], back[j])
  <2>1. n - Len(back) + i < n - Len(back) + j
    BY <1>1, <1>5, <1>6
  <2> QED
    BY <1>2, <1>4, <1>5, <2>1
<1>7. ASSUME NEW g \in S \ ToSet(back), NEW e \in ToSet(back) PROVE Earlier(g, e)
  <2>1. PICK k \in 1..n : all[k] = g
    BY <1>2
  <2>2. PICK i \in 1..Len(back) : back[i] = e
    BY <1>4, <1>7, ListedSet
  <2>3. ~(k > n - Len(back))
    <3> SUFFICES ASSUME k > n - Len(back) PROVE FALSE
      OBVIOUS
    <3> DEFINE l == k - (n - Len(back))
    <3>1. l \in 1..Len(back) /\ n - Len(back) + l = k
      BY <1>1, <1>5, <2>1
    <3> HIDE DEF l
    <3>2. back[l] = g
      BY <1>4, <2>1, <3>1
    <3> QED
      BY <1>4, <1>7, <3>1, <3>2, ListedSet
  <2>4. k < n - Len(back) + i
    BY <1>1, <1>5, <2>1, <2>3
  <2> QED
    BY <1>2, <1>4, <1>5, <2>1, <2>2, <2>4
<1>8. back \in Seq(Events)
  BY <1>4
<1> QED
  BY <1>1, <1>4, <1>6, <1>7, <1>8 DEF Restored, n, all, back

LEMMA RestInitially == PersistInit => RestInv
<1> SUFFICES ASSUME PersistInit PROVE RestInv
  OBVIOUS
<1>1. Told = {}
  BY DEF PersistInit, Told, EventsInHand
<1>2. IsFiniteSet(Told)
  BY <1>1, FS_EmptySet
<1>3. ring = <<>> /\ queue = <<>> /\ Len(ring) = 0 /\ Len(queue) = 0
  BY DEF PersistInit
<1>4. stored.services = [s \in {} |-> NoEntry]
  BY DEF PersistInit
<1>5. [s \in {} |-> NoEntry] \in [{} -> Rows]
  OBVIOUS
<1>6. stored.services \in UNION {[S -> Rows] : S \in SUBSET Service}
  BY <1>4, <1>5
<1> QED
  BY <1>2, <1>3, <1>6, PersistenceAssumption DEF PersistInit, RestInv

LEMMA RestTick ==
  ASSUME PipeInv, RestInv, NEW batch \in Batches, NEW at \in Time, NEW seen \in SUBSET Project,
         NEW answered \in BOOLEAN, NEW sampled \in BOOLEAN,
         NEW changes \in Drains(Len(shown) + 1),
         PersistTick(batch, at, seen, answered, sampled, changes)
  PROVE  RestInv'
<1>1. PICK w \in Writes :
        /\ IsFiniteSet(w.events)
        /\ \/ queue' = queue /\ dropped' = dropped
           \/ queue' = Append(queue, w) /\ dropped' = dropped /\ Len(queue) < QueueDepth
           \/ queue' = queue /\ dropped' = dropped + 1
        /\ ticks' = ticks + 1 /\ writing' = writing /\ stored' = stored
        /\ projects' \subseteq Project /\ introduced' = introduced \cup projects'
        /\ inspects' = inspects
  BY PipeTickShape DEF TickPart
<1>2. /\ ticks \in Nat /\ dropped \in Nat /\ dropped <= ticks /\ queue \in Seq(Writes)
      /\ Len(queue) <= QueueDepth
  BY DEF PipeInv, PipeTypeOK, RestInv
<1>3. Len(queue') <= QueueDepth /\ dropped' <= ticks'
  <2>1. QueueDepth \in Nat /\ Len(queue) \in Nat
    BY <1>2, PersistenceAssumption
  <2>2. Len(Append(queue, w)) = Len(queue) + 1
    BY <1>2
  <2> QED
    BY <1>1, <1>2, <2>1, <2>2
<1>4. ring' \in Seq(Events) /\ Len(ring') <= RingCapacity
  <2>1. PICK events \in Seq(Events) : ring' = Newest(ring \o events)
    BY TickEventsOf DEF TickPushes
  <2>2. ring \o events \in Seq(Events)
    BY ConcatShape DEF RestInv
  <2> QED
    BY <2>1, <2>2, NewestShape
<1>5. IsFiniteSet(Told')
  <2>1. Told' = Told \/ Told' = Told \cup w.events
    BY <1>1, ToldTick
  <2> QED
    BY <1>1, <2>1, FS_Union DEF RestInv
<1> QED
  BY <1>1, <1>3, <1>4, <1>5 DEF RestInv

LEMMA RestWriter ==
  ASSUME PipeInv, RestInv, Writer
  PROVE  RestInv'
<1>1. Told' = Told /\ UNCHANGED <<inspects, projects, introduced, dropped, ticks>>
  BY ToldWriter, WriterUnmoved
<1>2. ring' = ring /\ Len(queue') <= QueueDepth
  <2>1. CASE TakeWrite
    <3>1. queue \in Seq(Writes) /\ queue # <<>> /\ queue' = Tail(queue) /\ ring' = ring
      BY <2>1 DEF TakeWrite, PipeInv, PipeTypeOK
    <3>2. Len(queue') = Len(queue) - 1 /\ Len(queue) \in Nat
      BY <3>1, HeadAndTail
    <3> QED
      BY <3>1, <3>2, PersistenceAssumption DEF RestInv
  <2>2. CASE StoreProject \/ StoreService \/ StoreEvents
    BY <2>2 DEF StoreProject, StoreService, StoreEvents, RestInv
  <2> QED
    BY <2>1, <2>2 DEF Writer
<1>3. /\ stored'.projects \subseteq Project
      /\ stored'.services \in UNION {[S -> Rows] : S \in SUBSET Service}
  <2>1. /\ stored = [projects |-> stored.projects, services |-> stored.services,
                     events |-> stored.events]
        /\ stored.projects \subseteq Project
        /\ stored.services \in UNION {[S -> Rows] : S \in SUBSET Service}
    BY DEF PipeInv, PipeTypeOK, RestInv
  <2>2. CASE TakeWrite
    BY <2>1, <2>2 DEF TakeWrite
  <2>3. CASE StoreEvents
    BY <2>1, <2>3 DEF StoreEvents
  <2>4. CASE StoreProject
    <3>1. PICK p \in writing.projects : stored' = [stored EXCEPT !.projects = @ \cup {p}]
      BY <2>4 DEF StoreProject
    <3>2. writing \in Writes
      BY <2>4 DEF StoreProject, PipeInv, PipeTypeOK
    <3> QED
      BY <2>1, <3>1, <3>2, WriteShape
  <2>5. CASE StoreService
    <3>1. PICK s \in DOMAIN writing.services :
            \/ stored' = [stored EXCEPT !.services = Upserted(s, writing.services[s])]
            \/ stored' = stored
      BY <2>5 DEF StoreService
    <3>2. writing \in Writes
      BY <2>5 DEF StoreService, PipeInv, PipeTypeOK
    <3>3. s \in Service /\ writing.services[s] \in Rows
      BY <3>2, WriteShape
    <3> DEFINE T == DOMAIN stored.services \cup {s}
    <3>4. T \in SUBSET Service /\ Upserted(s, writing.services[s]) \in [T -> Rows]
      BY <2>1, <3>3 DEF Upserted
    <3>5. Upserted(s, writing.services[s]) \in UNION {[S -> Rows] : S \in SUBSET Service}
      BY <3>4
    <3> QED
      BY <2>1, <3>1, <3>5
  <2> QED
    BY <2>2, <2>3, <2>4, <2>5 DEF Writer
<1> QED
  BY <1>1, <1>2, <1>3 DEF RestInv

LEMMA RestCrash ==
  ASSUME PipeInv, RestInv, Crash
  PROVE  RestInv'
<1>1. /\ inspects' \in BOOLEAN /\ projects' = {} /\ introduced' = {} /\ queue' = <<>>
      /\ dropped' = 0 /\ ring' = Restored(stored.events) /\ stored' = stored /\ ticks' = ticks
      /\ Told' = stored.events
  BY ToldCrash DEF Crash
<1>2. IsFiniteSet(stored.events) /\ stored.events \subseteq Events
  BY FS_Subset DEF RestInv, Told, PipeInv, PipeTypeOK
<1>3. ring' \in Seq(Events) /\ Len(ring') <= RingCapacity
  BY <1>1, <1>2, RestoredShape
<1>4. Len(queue') <= QueueDepth /\ dropped' <= ticks'
  BY <1>1, PersistenceAssumption DEF PipeInv, PipeTypeOK
<1> QED
  BY <1>1, <1>2, <1>3, <1>4 DEF RestInv

LEMMA RestInductive == PipeInv /\ RestInv /\ [PersistNext]_persistVars => RestInv'
<1> SUFFICES ASSUME PipeInv, RestInv, [PersistNext]_persistVars PROVE RestInv'
  OBVIOUS
<1>1. CASE UNCHANGED persistVars
  BY <1>1 DEF persistVars, RestInv, Told, EventsInHand
<1>2. ASSUME NEW batch \in Batches, NEW d \in ClockSteps, NEW seen \in SUBSET Project,
             NEW answered \in BOOLEAN, NEW sampled \in BOOLEAN,
             NEW changes \in Drains(Len(shown) + 1), now + d \in Time,
             PersistTick(batch, now + d, seen, answered, sampled, changes)
      PROVE  RestInv'
  BY <1>2, RestTick
<1>3. CASE Writer
  BY <1>3, RestWriter
<1>4. CASE Crash
  BY <1>4, RestCrash
<1> QED
  BY <1>1, <1>2, <1>3, <1>4 DEF PersistNext

LEMMA RestInvariance == PersistSpec => [](PipeInv /\ RestInv)
BY RestInitially, RestInductive, PipeInvariance, PTL DEF PersistSpec

\* The daemon's memory keeps its types, its queue and its ring their bounds: "a daemon that
\* grows without limit is a bug".
THEOREM MemoryIsBounded == PersistSpec => []PersistTypeOK
<1>1. PipeInv /\ RestInv => PersistTypeOK
  BY DEF PipeInv, ShownOK, PipeTypeOK, RestInv, PersistTypeOK
<1> QED
  BY <1>1, RestInvariance, PTL

----------------------------------------------------------------------------
(***************************************************************************)
(* The timeline.  As long as nothing was dropped, the ring has the end of  *)
(* what the file will hold once the writer has caught up, and is in the    *)
(* order of the file but for file changes, which may come after events     *)
(* they precede there.  With a clock that goes back any two events may be  *)
(* in another order: the hypothesis.                                       *)
(***************************************************************************)
ClockNeverGoesBack == \A d \in ClockSteps : d >= 0

\* The ring has e before f.
InOrder(e, f) == (IsFileChange(f) => IsFileChange(e)) => Earlier(e, f)

Nondecreasing(seq) == \A i, j \in 1..Len(seq) : i < j => seq[i] <= seq[j]

\* A change still to come is not before one that has been told, nor after now.
TimesInv ==
  /\ \A e \in Told : e.at <= now
  /\ Nondecreasing(shown) /\ \A i \in 1..Len(shown) : shown[i] <= now
  /\ \A e \in Told, i \in 1..Len(shown) : IsFileChange(e) => e.at <= shown[i]

EndsWith(seq, S) ==
  /\ ToSet(seq) \subseteq S
  /\ \A i, j \in 1..Len(seq) : i < j => InOrder(seq[i], seq[j])
  /\ \A g \in S \ ToSet(seq), e \in ToSet(seq) : InOrder(g, e)
  /\ S = ToSet(seq) \/ Len(seq) = RingCapacity

TimelineInv == TimesInv /\ (dropped = 0 => EndsWith(ring, Told))

\* The order of the ring implies that it has no event twice.
LEMMA InOrderDiffers ==
  ASSUME NEW e \in Events, NEW f \in Events, InOrder(e, f)
  PROVE  e # f
BY EarlierOrders DEF InOrder

\* Later events pushed, older ones gone.
LEMMA EndsWithMore ==
  ASSUME NEW S \in SUBSET Events, NEW r \in Seq(Events), Len(r) <= RingCapacity, EndsWith(r, S),
         NEW more \in Seq(Events),
         \A e \in S, i \in 1..Len(more) : InOrder(e, more[i]),
         \A i, j \in 1..Len(more) : i < j => InOrder(more[i], more[j])
  PROVE  EndsWith(Newest(r \o more), S \cup ToSet(more))
<1> DEFINE q == r \o more
           p == Newest(q)
           T == S \cup ToSet(more)
<1>1. /\ q \in Seq(Events) /\ Len(q) = Len(r) + Len(more)
      /\ \A i \in 1..Len(r) : q[i] = r[i]
      /\ \A i \in 1..Len(more) : Len(r) + i \in 1..Len(q) /\ q[Len(r) + i] = more[i]
      /\ \A i \in 1..Len(q) : i \in 1..Len(r) \/ i - Len(r) \in 1..Len(more)
      /\ Len(r) \in Nat /\ Len(more) \in Nat /\ Len(q) \in Nat
  BY ConcatShape
<1> HIDE DEF q
<1>2. /\ p \in Seq(Events) /\ Len(p) <= RingCapacity /\ RingCapacity \in Nat \ {0}
      /\ Len(p) = IF Len(q) > RingCapacity THEN RingCapacity ELSE Len(q)
      /\ \A i \in 1..Len(p) : p[i] = q[Len(q) - Len(p) + i]
  BY <1>1, NewestShape, PersistenceAssumption
<1> HIDE DEF p
<1>3. /\ Len(p) \in Nat /\ Len(p) <= Len(q)
      /\ \A i \in 1..Len(p) : Len(q) - Len(p) + i \in 1..Len(q)
  BY <1>1, <1>2
<1>4. /\ \A e : e \in ToSet(r) <=> \E i \in 1..Len(r) : r[i] = e
      /\ \A e : e \in ToSet(more) <=> \E i \in 1..Len(more) : more[i] = e
      /\ \A e : e \in ToSet(p) <=> \E i \in 1..Len(p) : p[i] = e
  BY <1>2, ListedSet
<1>5. ASSUME NEW i \in 1..Len(q)
      PROVE  \/ i \in 1..Len(r) /\ q[i] = r[i] /\ q[i] \in ToSet(r) /\ q[i] \in S
             \/ \E k \in 1..Len(more) : i = Len(r) + k /\ q[i] = more[k] /\ q[i] \in ToSet(more)
  <2>1. CASE i \in 1..Len(r)
    BY <1>1, <1>4, <2>1 DEF EndsWith
  <2>2. CASE i - Len(r) \in 1..Len(more)
    <3> DEFINE k == i - Len(r)
    <3>1. k \in 1..Len(more) /\ i = Len(r) + k
      BY <1>1, <2>2
    <3> HIDE DEF k
    <3>2. q[i] = more[k]
      BY <1>1, <3>1
    <3> QED
      BY <1>4, <3>1, <3>2
  <2> QED
    BY <1>1, <2>1, <2>2
<1>6. ASSUME NEW i \in 1..Len(q), NEW j \in 1..Len(q), i < j PROVE InOrder(q[i], q[j])
  <2>1. CASE j \in 1..Len(r)
    <3>1. i \in 1..Len(r)
      BY <1>1, <1>6, <2>1
    <3> QED
      BY <1>1, <1>6, <2>1, <3>1 DEF EndsWith
  <2>2. CASE j \notin 1..Len(r)
    <3>1. PICK l \in 1..Len(more) : j = Len(r) + l /\ q[j] = more[l]
      BY <1>5, <2>2
    <3>2. CASE i \in 1..Len(r)
      <4>1. q[i] \in S
        BY <1>1, <1>5, <3>2
      <4> QED
        BY <3>1, <4>1
    <3>3. CASE i \notin 1..Len(r)
      <4>1. PICK k \in 1..Len(more) : i = Len(r) + k /\ q[i] = more[k]
        BY <1>5, <3>3
      <4>2. k < l
        BY <1>1, <1>6, <3>1, <4>1
      <4> QED
        BY <3>1, <4>1, <4>2
    <3> QED
      BY <3>2, <3>3
  <2> QED
    BY <2>1, <2>2
<1>7. ToSet(p) \subseteq T
  <2> SUFFICES ASSUME NEW e \in ToSet(p) PROVE e \in T
    OBVIOUS
  <2>1. PICK i \in 1..Len(p) : p[i] = e
    BY <1>4
  <2>2. Len(q) - Len(p) + i \in 1..Len(q) /\ e = q[Len(q) - Len(p) + i]
    BY <1>2, <1>3, <2>1
  <2> QED
    BY <1>5, <2>2
<1>8. ASSUME NEW i \in 1..Len(p), NEW j \in 1..Len(p), i < j PROVE InOrder(p[i], p[j])
  <2>1. Len(q) - Len(p) + i < Len(q) - Len(p) + j
    BY <1>1, <1>3, <1>8
  <2> QED
    BY <1>2, <1>3, <1>6, <2>1
<1>9. ASSUME NEW g \in T \ ToSet(p), NEW e \in ToSet(p) PROVE InOrder(g, e)
  <2>1. PICK j \in 1..Len(p) : p[j] = e
    BY <1>4
  <2>2. Len(q) - Len(p) + j \in 1..Len(q) /\ q[Len(q) - Len(p) + j] = e
    BY <1>2, <1>3, <2>1
  <2>3. ASSUME NEW i \in 1..Len(q), q[i] = g PROVE InOrder(g, e)
    <3>1. ~(i > Len(q) - Len(p))
      <4> SUFFICES ASSUME i > Len(q) - Len(p) PROVE FALSE
        OBVIOUS
      <4> DEFINE k == i - (Len(q) - Len(p))
      <4>1. k \in 1..Len(p) /\ Len(q) - Len(p) + k = i
        BY <1>1, <1>3
      <4> HIDE DEF k
      <4>2. p[k] = g
        BY <1>2, <2>3, <4>1
      <4> QED
        BY <1>4, <1>9, <4>1, <4>2
    <3>2. i < Len(q) - Len(p) + j
      BY <1>1, <1>3, <3>1
    <3> QED
      BY <1>6, <2>2, <2>3, <3>2
  <2>4. CASE g \in ToSet(r) \cup ToSet(more)
    <3>1. \E i \in 1..Len(q) : q[i] = g
      <4>1. CASE g \in ToSet(r)
        <5>1. PICK i \in 1..Len(r) : r[i] = g
          BY <1>4, <4>1
        <5>2. i \in 1..Len(q)
          BY <1>1
        <5> QED
          BY <1>1, <5>1, <5>2
      <4>2. CASE g \in ToSet(more)
        <5>1. PICK i \in 1..Len(more) : more[i] = g
          BY <1>4, <4>2
        <5> QED
          BY <1>1, <5>1
      <4> QED
        BY <2>4, <4>1, <4>2
    <3> QED
      BY <2>3, <3>1
  <2>5. CASE g \notin ToSet(r) \cup ToSet(more)
    <3>1. g \in S \ ToSet(r)
      BY <1>9, <2>5
    <3>2. e \in ToSet(r) => InOrder(g, e)
      BY <3>1 DEF EndsWith
    <3>3. e \in ToSet(more) => InOrder(g, e)
      BY <1>4, <3>1
    <3> QED
      BY <1>5, <2>2, <3>2, <3>3
  <2> QED
    BY <2>4, <2>5
<1>10. T = ToSet(p) \/ Len(p) = RingCapacity
  <2> SUFFICES ASSUME Len(p) # RingCapacity PROVE T = ToSet(p)
    OBVIOUS
  <2>1. Len(q) < RingCapacity /\ Len(p) = Len(q)
    BY <1>1, <1>2, <1>3
  <2>2. Len(r) # RingCapacity
    BY <1>1, <1>2, <2>1
  <2>3. S = ToSet(r)
    BY <2>2 DEF EndsWith
  <2>4. \A i \in 1..Len(q) : p[i] = q[i] /\ q[i] \in ToSet(p)
    <3> SUFFICES ASSUME NEW i \in 1..Len(q) PROVE p[i] = q[i] /\ q[i] \in ToSet(p)
      OBVIOUS
    <3>1. i \in 1..Len(p) /\ Len(q) - Len(p) + i = i
      BY <1>1, <2>1
    <3> QED
      BY <1>2, <1>4, <3>1
  <2>5. ToSet(r) \subseteq ToSet(p)
    <3> SUFFICES ASSUME NEW e \in ToSet(r) PROVE e \in ToSet(p)
      OBVIOUS
    <3>1. PICK i \in 1..Len(r) : r[i] = e
      BY <1>4
    <3>2. i \in 1..Len(q) /\ q[i] = e
      BY <1>1, <3>1
    <3> QED
      BY <2>4, <3>2
  <2>6. ToSet(more) \subseteq ToSet(p)
    <3> SUFFICES ASSUME NEW e \in ToSet(more) PROVE e \in ToSet(p)
      OBVIOUS
    <3>1. PICK i \in 1..Len(more) : more[i] = e
      BY <1>4
    <3>2. Len(r) + i \in 1..Len(q) /\ q[Len(r) + i] = e
      BY <1>1, <3>1
    <3> QED
      BY <2>4, <3>2
  <2> QED
    BY <1>7, <2>3, <2>5, <2>6
<1> HIDE DEF T
<1>11. EndsWith(p, T)
  BY <1>7, <1>8, <1>9, <1>10 DEF EndsWith
<1> QED
  BY <1>11 DEF p, q, T

\* The times of the watcher go on where they were.
TimesGoOn(at, changes) ==
  LET clock == Append(shown, at)
  IN  /\ clock \in Seq(Time) /\ Len(clock) = Len(shown) + 1 /\ Nondecreasing(clock)
      /\ now \in Nat /\ at \in Nat /\ now <= at /\ now' = at
      /\ \A i \in 1..Len(clock) : clock[i] \in Nat /\ clock[i] <= at
      /\ \A e \in Told : e.at \in Nat /\ e.tick \in Nat /\ e.tick <= ticks /\ e \in Events
      /\ \A e \in Told, i \in 1..Len(clock) : IsFileChange(e) => e.at <= clock[i]
      /\ Nondecreasing(shown') /\ \A i \in 1..Len(shown') : shown'[i] <= now'
      /\ \A i \in 1..Len(shown') : \E m \in 1..Len(clock) :
           /\ shown'[i] = clock[m]
           /\ \A k \in 1..Len(changes) : changes[k] <= m

LEMMA TimesTick ==
  ASSUME PipeInv, TimesInv,
         NEW batch \in Batches, NEW at \in Time, now <= at, NEW seen \in SUBSET Project,
         NEW answered \in BOOLEAN, NEW sampled \in BOOLEAN,
         NEW changes \in Drains(Len(shown) + 1),
         PersistTick(batch, at, seen, answered, sampled, changes)
  PROVE  TimesGoOn(at, changes)
<1> DEFINE clock == Append(shown, at)
           n == Len(clock)
<1>1. /\ now \in Nat /\ at \in Nat /\ now <= at
      /\ Time \subseteq Nat
  BY LimitAssumption DEF PipeInv, RegInv, IInv, Time
<1>2. /\ shown \in Seq(Time) /\ clock \in Seq(Time) /\ n = Len(shown) + 1 /\ Len(shown) \in Nat
      /\ \A i \in 1..Len(shown) : clock[i] = shown[i]
      /\ clock[n] = at /\ clock # <<>>
  BY DEF PipeInv, ShownOK
<1>3. /\ now' = at
      /\ shown' = <<>> \/ shown' = LeftBehind(clock, changes)
  BY PipeTickShape DEF TickPart
<1> HIDE DEF clock, n
<1>4. \A i \in 1..n : clock[i] \in Nat /\ clock[i] <= at
  <2> SUFFICES ASSUME NEW i \in 1..n PROVE clock[i] \in Nat /\ clock[i] <= at
    OBVIOUS
  <2>1. clock[i] \in Nat
    <3>1. clock[i] \in Time
      BY <1>2 DEF n
    <3> QED
      BY <1>1, <3>1
  <2>2. CASE i \in 1..Len(shown)
    BY <1>1, <1>2, <2>1, <2>2 DEF TimesInv
  <2>3. CASE i = n
    BY <1>1, <1>2, <2>3
  <2> QED
    BY <1>2, <2>1, <2>2, <2>3
<1>5. ASSUME NEW i \in 1..n, NEW j \in 1..n, i < j PROVE clock[i] <= clock[j]
  <2>1. i \in 1..Len(shown)
    BY <1>2, <1>5
  <2>2. CASE j = n
    BY <1>2, <1>4, <2>2
  <2>3. CASE j # n
    <3>1. j \in 1..Len(shown)
      BY <1>2, <2>3
    <3> QED
      BY <1>2, <1>5, <2>1, <3>1 DEF TimesInv, Nondecreasing
  <2> QED
    BY <2>2, <2>3
<1>6. \A e \in Told : e.at \in Nat /\ e.tick \in Nat /\ e.tick <= ticks /\ e \in Events
  BY <1>1, ToldType DEF Events
<1>7. ASSUME NEW e \in Told, NEW i \in 1..n, IsFileChange(e) PROVE e.at <= clock[i]
  <2>1. CASE i \in 1..Len(shown)
    BY <1>2, <1>7, <2>1 DEF TimesInv
  <2>2. CASE i = n
    BY <1>1, <1>2, <1>6, <2>2 DEF TimesInv
  <2> QED
    BY <1>2, <2>1, <2>2
<1>8. CASE shown' = <<>>
  <2>1. Len(shown') = 0
    BY <1>8
  <2>2. 1..Len(shown') = {}
    BY <2>1
  <2> QED
    BY <1>1, <1>2, <1>3, <1>4, <1>5, <1>6, <1>7, <2>2 DEF Nondecreasing, TimesGoOn, clock, n
<1>9. CASE shown' = LeftBehind(clock, changes)
  <2>1. /\ Len(shown') \in 1..n
        /\ \A i \in 1..Len(shown') : shown'[i] = clock[n - Len(shown') + i]
        /\ \A i \in 1..Len(changes) : changes[i] <= n - Len(shown') + 1
    <3>1. changes \in Drains(Len(clock))
      BY <1>2 DEF n
    <3> QED
      BY <1>2, <1>9, <3>1, LeftBehindShape DEF n
  <2> DEFINE place(i) == n - Len(shown') + i
  <2>2. ASSUME NEW i \in 1..Len(shown')
        PROVE  place(i) \in 1..n /\ shown'[i] = clock[place(i)] /\ n - Len(shown') + 1 <= place(i)
    BY <1>2, <2>1
  <2>3. ASSUME NEW i \in 1..Len(shown'), NEW j \in 1..Len(shown'), i < j PROVE shown'[i] <= shown'[j]
    <3>1. place(i) < place(j)
      BY <1>2, <2>1, <2>3
    <3> HIDE DEF place
    <3> QED
      BY <1>5, <2>2, <3>1
  <2>4. ASSUME NEW i \in 1..Len(shown'), NEW k \in 1..Len(changes) PROVE changes[k] <= place(i)
    <3>1. changes[k] \in 1..n
      <4>1. \A c \in Drains(Len(shown) + 1) : \A k2 \in 1..Len(c) : c[k2] \in 1..(Len(shown) + 1)
        <5> SUFFICES ASSUME NEW c \in Drains(Len(shown) + 1), NEW k2 \in 1..Len(c)
                     PROVE  c[k2] \in 1..(Len(shown) + 1)
          OBVIOUS
        <5>1. PICK m \in 0..MaxFileEvents : c \in [1..m -> 1..(Len(shown) + 1)]
          BY DEF Drains
        <5>2. m \in Nat /\ Len(c) = m
          BY <5>1, PersistenceAssumption
        <5> QED
          BY <5>1, <5>2
      <4> QED
        BY <1>2, <4>1
    <3> QED
      BY <1>2, <2>1, <2>2, <3>1
  <2> HIDE DEF place
  <2>5. \A i \in 1..Len(shown') : shown'[i] <= now'
    BY <1>3, <1>4, <2>2
  <2>6. \A i \in 1..Len(shown') : \E m \in 1..n :
          shown'[i] = clock[m] /\ \A k \in 1..Len(changes) : changes[k] <= m
    BY <2>2, <2>4
  <2> QED
    BY <1>1, <1>2, <1>3, <1>4, <1>5, <1>6, <1>7, <2>3, <2>5, <2>6 DEF Nondecreasing, TimesGoOn, clock, n
<1> QED
  BY <1>3, <1>8, <1>9

LEMMA TimelineTick ==
  ASSUME PipeInv, RestInv, TimelineInv,
         NEW batch \in Batches, NEW at \in Time, now <= at, NEW seen \in SUBSET Project,
         NEW answered \in BOOLEAN, NEW sampled \in BOOLEAN,
         NEW changes \in Drains(Len(shown) + 1),
         PersistTick(batch, at, seen, answered, sampled, changes)
  PROVE  TimelineInv'
<1> DEFINE clock == Append(shown, at)
           n == Len(clock)
<1>0. PICK events \in Seq(Events), w \in Writes : TickPushes(events, w, at, changes)
  BY TickEventsOf
<1>1. /\ ring' = Newest(ring \o events) /\ w.events = ToSet(events)
      /\ \/ queue' = queue /\ dropped' = dropped /\ IsEmpty(w)
         \/ queue' = Append(queue, w) /\ dropped' = dropped
         \/ queue' = queue /\ dropped' = dropped + 1
      /\ writing' = writing /\ stored' = stored
      /\ \A i \in 1..Len(events) :
           /\ events[i].tick = ticks + 1
           /\ IsFileChange(events[i]) =>
                \E k \in 1..Len(changes) :
                  changes[k] \in 1..(Len(shown) + 1) /\ events[i].at = clock[changes[k]]
           /\ ~IsFileChange(events[i]) => events[i].at = at /\ i = 1
      /\ \A i, j \in 1..Len(events) : i < j /\ IsFileChange(events[i]) =>
           \E k, l \in 1..Len(changes) :
             /\ changes[k] <= changes[l]
             /\ changes[k] \in 1..(Len(shown) + 1) /\ changes[l] \in 1..(Len(shown) + 1)
             /\ events[i].at = clock[changes[k]] /\ events[j].at = clock[changes[l]]
             /\ events[i].n < events[j].n
  BY <1>0 DEF TickPushes
<1>2. /\ n = Len(shown) + 1 /\ Nondecreasing(clock)
      /\ now \in Nat /\ at \in Nat /\ now <= at /\ now' = at
      /\ \A i \in 1..n : clock[i] \in Nat /\ clock[i] <= at
      /\ \A e \in Told : e.at \in Nat /\ e.tick \in Nat /\ e.tick <= ticks /\ e \in Events
      /\ \A e \in Told, i \in 1..n : IsFileChange(e) => e.at <= clock[i]
      /\ Nondecreasing(shown') /\ \A i \in 1..Len(shown') : shown'[i] <= now'
      /\ \A i \in 1..Len(shown') : \E m \in 1..n :
           shown'[i] = clock[m] /\ \A k \in 1..Len(changes) : changes[k] <= m
  <2>1. TimesGoOn(at, changes)
    BY TimesTick DEF TimelineInv
  <2> QED
    BY <2>1 DEF TimesGoOn
<1>3. ticks \in Nat /\ dropped \in Nat /\ Told \subseteq Events
      /\ ring \in Seq(Events) /\ Len(ring) <= RingCapacity
  BY ToldType DEF PipeInv, PipeTypeOK, RestInv
<1> HIDE DEF clock, n
<1>4. ASSUME NEW i \in 1..n, NEW j \in 1..n, i <= j PROVE clock[i] <= clock[j]
  <2>1. CASE i = j
    BY <1>2, <2>1
  <2>2. CASE i # j
    <3>1. i < j
      BY <1>2, <1>4, <2>2
    <3> QED
      BY <1>2, <3>1 DEF Nondecreasing, n
  <2> QED
    BY <2>1, <2>2
<1>5. /\ \A e : e \in ToSet(events) <=> \E i \in 1..Len(events) : events[i] = e
      /\ \A i \in 1..Len(events) : events[i] \in Events /\ events[i].at \in Nat /\ events[i].n \in Nat
  <2>1. \A i \in 1..Len(events) : events[i] \in Events
    OBVIOUS
  <2>2. \A e \in Events : e.at \in Nat /\ e.n \in Nat
    BY LimitAssumption DEF Events, Time
  <2> QED
    BY <2>1, <2>2, ListedSet
<1>6. ASSUME NEW e \in Told, NEW i \in 1..Len(events) PROVE InOrder(e, events[i])
  <2>1. events[i].tick = ticks + 1 /\ e.tick < events[i].tick
    BY <1>1, <1>2, <1>3
  <2>2. CASE ~IsFileChange(events[i])
    <3>1. e.at <= now /\ events[i].at = at
      BY <1>1, <2>2 DEF TimelineInv, TimesInv
    <3>2. e.at <= events[i].at
      BY <1>2, <3>1
    <3> QED
      BY <1>2, <1>5, <2>1, <3>2 DEF InOrder, Earlier
  <2>3. CASE IsFileChange(events[i]) /\ IsFileChange(e)
    <3>1. PICK k \in 1..Len(changes) : changes[k] \in 1..n /\ events[i].at = clock[changes[k]]
      BY <1>1, <1>2, <2>3
    <3>2. e.at <= events[i].at
      BY <1>2, <2>3, <3>1
    <3> QED
      BY <1>2, <1>5, <2>1, <3>2 DEF InOrder, Earlier
  <2> QED
    BY <2>2, <2>3 DEF InOrder
<1>7. ASSUME NEW i \in 1..Len(events), NEW j \in 1..Len(events), i < j
      PROVE  InOrder(events[i], events[j])
  <2>1. IsFileChange(events[j])
    BY <1>1, <1>7
  <2>2. CASE IsFileChange(events[i])
    <3>1. PICK k \in 1..Len(changes), l \in 1..Len(changes) :
            /\ changes[k] <= changes[l] /\ changes[k] \in 1..n /\ changes[l] \in 1..n
            /\ events[i].at = clock[changes[k]] /\ events[j].at = clock[changes[l]]
            /\ events[i].n < events[j].n
      BY <1>1, <1>2, <1>7, <2>2
    <3>2. events[i].at <= events[j].at
      BY <1>4, <3>1
    <3>3. events[i].tick = events[j].tick
      BY <1>1
    <3> QED
      BY <1>5, <3>1, <3>2, <3>3 DEF InOrder, Earlier
  <2> QED
    BY <2>1, <2>2 DEF InOrder
<1>8. /\ queue' = queue => Told' = Told
      /\ queue' = Append(queue, w) => Told' = Told \cup ToSet(events)
  BY <1>1, ToldTick
<1>9. Told' \subseteq Told \cup ToSet(events)
  BY <1>1, <1>8
<1>10. \A e \in Told' : e.at <= now'
  <2>1. ASSUME NEW e \in Told PROVE e.at <= now'
    <3>1. e.at <= now /\ e.at \in Nat
      BY <1>2 DEF TimelineInv, TimesInv
    <3> QED
      BY <1>2, <3>1
  <2>2. ASSUME NEW i \in 1..Len(events) PROVE events[i].at <= now'
    <3>1. CASE IsFileChange(events[i])
      BY <1>1, <1>2, <3>1
    <3>2. CASE ~IsFileChange(events[i])
      BY <1>1, <1>2, <3>2
    <3> QED
      BY <3>1, <3>2
  <2> QED
    BY <1>5, <1>9, <2>1, <2>2
<1>11. ASSUME NEW e \in Told', NEW i \in 1..Len(shown'), IsFileChange(e) PROVE e.at <= shown'[i]
  <2>1. PICK m \in 1..n : shown'[i] = clock[m] /\ \A k \in 1..Len(changes) : changes[k] <= m
    BY <1>2
  <2>2. CASE e \in Told
    BY <1>2, <1>11, <2>1, <2>2
  <2>3. CASE e \in ToSet(events)
    <3>1. PICK j \in 1..Len(events) : events[j] = e
      BY <1>5, <2>3
    <3>2. PICK k \in 1..Len(changes) : changes[k] \in 1..n /\ e.at = clock[changes[k]]
      BY <1>1, <1>2, <1>11, <3>1
    <3> QED
      BY <1>4, <2>1, <3>2
  <2> QED
    BY <1>9, <2>2, <2>3
<1>12. TimesInv'
  BY <1>2, <1>10, <1>11 DEF TimesInv
<1>13. ASSUME dropped' = 0 PROVE EndsWith(ring', Told')
  <2>1. dropped = 0 /\ ((queue' = queue /\ IsEmpty(w)) \/ queue' = Append(queue, w))
    BY <1>1, <1>3, <1>13
  <2>2. EndsWith(ring, Told)
    BY <2>1 DEF TimelineInv
  <2>3. Told' = Told \cup ToSet(events)
    BY <1>1, <1>8, <2>1 DEF IsEmpty
  <2>4. EndsWith(Newest(ring \o events), Told \cup ToSet(events))
    BY <1>3, <1>6, <1>7, <2>2, EndsWithMore
  <2> QED
    BY <1>1, <2>3, <2>4
<1> QED
  BY <1>12, <1>13 DEF TimelineInv, EndsWith

\* What is restored is the end of the file.
LEMMA RestoredEnds ==
  ASSUME NEW S \in SUBSET Events, IsFiniteSet(S)
  PROVE  EndsWith(Restored(S), S)
<1> DEFINE back == Restored(S)
<1>1. /\ back \in Seq(S) /\ Len(back) <= RingCapacity /\ Cardinality(S) \in Nat
      /\ Len(back) = IF Cardinality(S) > RingCapacity THEN RingCapacity ELSE Cardinality(S)
      /\ \A i, j \in 1..Len(back) : i < j => Earlier(back[i], back[j])
      /\ \A g \in S \ ToSet(back), e \in ToSet(back) : Earlier(g, e)
  BY RestoredShape, FS_CardinalityType
<1> HIDE DEF back
<1>2. ToSet(back) \subseteq S /\ IsFiniteSet(ToSet(back))
  BY <1>1, ListedSet
<1>3. S = ToSet(back) \/ Len(back) = RingCapacity
  <2> SUFFICES ASSUME Len(back) # RingCapacity PROVE S = ToSet(back)
    OBVIOUS
  <2>1. Len(back) = Cardinality(S)
    BY <1>1
  <2>2. \A i \in 1..Len(back) : back[i] \in Events
    BY <1>1
  <2>3. \A i, j \in 1..Len(back) : i < j => back[i] # back[j]
    BY <1>1, <2>2, EarlierOrders
  <2>4. Cardinality(ToSet(back)) = Len(back)
    BY <1>1, <2>3, ListedSet
  <2> QED
    BY <1>2, <2>1, <2>4, FS_Subset
<1> QED
  BY <1>1, <1>2, <1>3 DEF EndsWith, InOrder, back

LEMMA TimelineInductive ==
  ASSUME ClockNeverGoesBack
  PROVE  PipeInv /\ RestInv /\ TimelineInv /\ [PersistNext]_persistVars => TimelineInv'
<1> SUFFICES ASSUME PipeInv, RestInv, TimelineInv, [PersistNext]_persistVars PROVE TimelineInv'
  OBVIOUS
<1>1. ASSUME Told' = Told, UNCHANGED <<now, dropped, ring, shown>> PROVE TimelineInv'
  BY <1>1 DEF TimelineInv, TimesInv
<1>2. CASE UNCHANGED persistVars
  BY <1>1, <1>2 DEF persistVars, deriverVars, Told, EventsInHand
<1>3. ASSUME NEW batch \in Batches, NEW d \in ClockSteps, NEW seen \in SUBSET Project,
             NEW answered \in BOOLEAN, NEW sampled \in BOOLEAN,
             NEW changes \in Drains(Len(shown) + 1), now + d \in Time,
             PersistTick(batch, now + d, seen, answered, sampled, changes)
      PROVE  TimelineInv'
  <2> DEFINE at == now + d
  <2>1. now <= at
    BY LimitAssumption DEF ClockNeverGoesBack, PipeInv, RegInv, IInv, Time
  <2>2. at \in Time /\ PersistTick(batch, at, seen, answered, sampled, changes)
    BY <1>3
  <2> HIDE DEF at
  <2> QED
    BY <2>1, <2>2, TimelineTick
<1>4. CASE Writer
  <2>1. Told' = Told /\ UNCHANGED <<now, dropped, ring, shown>>
    BY <1>4, ToldWriter DEF Writer, TakeWrite, StoreProject, StoreService, StoreEvents, deriverVars
  <2> QED
    BY <1>1, <2>1
<1>5. CASE Crash
  <2>1. /\ Told' = stored.events /\ now' = now /\ shown' = <<>>
        /\ ring' = Restored(stored.events)
    BY <1>5, ToldCrash DEF Crash
  <2>2. stored.events \subseteq Told
    BY DEF Told
  <2>3. stored.events \in SUBSET Events /\ IsFiniteSet(stored.events)
    BY <2>2, FS_Subset, ToldType DEF RestInv
  <2>4. 1..Len(shown') = {}
    BY <2>1
  <2>5. TimesInv'
    BY <2>1, <2>2, <2>4 DEF TimelineInv, TimesInv, Nondecreasing
  <2>6. EndsWith(Restored(stored.events), stored.events)
    BY <2>3, RestoredEnds
  <2> QED
    BY <2>1, <2>5, <2>6 DEF TimelineInv, EndsWith
<1> QED
  BY <1>2, <1>3, <1>4, <1>5 DEF PersistNext

LEMMA TimelineInitially == PersistInit => TimelineInv
<1> SUFFICES ASSUME PersistInit PROVE TimelineInv
  OBVIOUS
<1>1. Told = {} /\ ring = <<>> /\ shown = <<>>
  BY DEF PersistInit, Told, EventsInHand
<1>2. ToSet(<<>>) = {} /\ 1..Len(<<>>) = {}
  BY DEF ToSet
<1> QED
  BY <1>1, <1>2 DEF TimelineInv, TimesInv, Nondecreasing, EndsWith

\* The end of what is told and the end of what is restored are the same length, and what one
\* has and the other has not is accounted for.
LEMMA TwoEnds ==
  ASSUME NEW S \in SUBSET Events, IsFiniteSet(S),
         NEW r \in Seq(Events), Len(r) <= RingCapacity, EndsWith(r, S)
  PROVE  LET back == Restored(S)
         IN  /\ Len(back) = Len(r)
             /\ \A e \in ToSet(r) \ ToSet(back) : IsFileChange(e)
             /\ \A e \in ToSet(back) \ ToSet(r) : ~IsFileChange(e)
             /\ \A i, j \in 1..Len(r), k, l \in 1..Len(back) :
                  i < j /\ k < l /\ back[k] = r[j] /\ back[l] = r[i]
                    => ~IsFileChange(r[i]) /\ IsFileChange(r[j])
<1> DEFINE back == Restored(S)
           R == ToSet(r)
           B == ToSet(back)
<1>1. /\ back \in Seq(S) /\ back \in Seq(Events) /\ Len(back) <= RingCapacity
      /\ Len(back) = IF Cardinality(S) > RingCapacity THEN RingCapacity ELSE Cardinality(S)
      /\ \A i, j \in 1..Len(back) : i < j => Earlier(back[i], back[j])
      /\ \A g \in S \ B, e \in B : Earlier(g, e)
  BY RestoredShape
<1>2. /\ R \subseteq S /\ (S = R \/ Len(r) = RingCapacity)
      /\ \A i, j \in 1..Len(r) : i < j => InOrder(r[i], r[j])
      /\ \A g \in S \ R, e \in R : InOrder(g, e)
  BY DEF EndsWith
<1> HIDE DEF back
<1>3. /\ \A e : e \in R <=> \E i \in 1..Len(r) : r[i] = e
      /\ \A e : e \in B <=> \E i \in 1..Len(back) : back[i] = e
      /\ R \subseteq Events /\ B \subseteq S /\ IsFiniteSet(R) /\ IsFiniteSet(B)
  BY <1>1, ListedSet
<1>4. Cardinality(R) = Len(r)
  <2>1. \A i \in 1..Len(r) : r[i] \in Events
    OBVIOUS
  <2>2. \A i, j \in 1..Len(r) : i < j => r[i] # r[j]
    BY <1>2, <2>1, InOrderDiffers
  <2> QED
    BY <2>2, ListedSet
<1>5. Cardinality(B) = Len(back)
  <2>1. \A i \in 1..Len(back) : back[i] \in Events
    BY <1>1
  <2>2. \A i, j \in 1..Len(back) : i < j => back[i] # back[j]
    BY <1>1, <2>1, EarlierOrders
  <2> QED
    BY <1>1, <2>2, ListedSet
<1>6. Cardinality(S) \in Nat /\ RingCapacity \in Nat /\ Len(r) \in Nat
  BY FS_CardinalityType, PersistenceAssumption
<1> HIDE DEF R, B
<1>7. Len(back) = Len(r)
  <2>1. Cardinality(R) <= Cardinality(S)
    BY <1>2, FS_Subset
  <2>2. CASE S = R
    BY <1>1, <1>4, <1>6, <2>2
  <2>3. CASE Len(r) = RingCapacity
    BY <1>1, <1>4, <1>6, <2>1, <2>3
  <2> QED
    BY <1>2, <2>2, <2>3
<1>8. ASSUME NEW A, NEW C, IsFiniteSet(A), IsFiniteSet(C), Cardinality(A) = Cardinality(C),
             NEW e, e \notin A, A \cup {e} \subseteq C
      PROVE  FALSE
  <2>1. A \in SUBSET C /\ A # C
    BY <1>8
  <2> QED
    BY <1>8, <2>1, FS_Subset
<1>9. ASSUME NEW e \in R \ B, ~IsFileChange(e) PROVE FALSE
  <2>1. ASSUME NEW g \in B, g \notin R PROVE FALSE
    <3>1. InOrder(g, e) /\ Earlier(e, g)
      BY <1>1, <1>2, <1>3, <1>9, <2>1
    <3>2. Earlier(g, e) /\ e \in Events /\ g \in Events
      BY <1>2, <1>3, <1>9, <2>1, <3>1 DEF InOrder
    <3> QED
      BY <3>1, <3>2, EarlierOrders
  <2>2. B \cup {e} \subseteq R /\ e \notin B
    BY <1>9, <2>1
  <2> QED
    BY <1>3, <1>4, <1>5, <1>7, <1>8, <2>2
<1>10. ASSUME NEW g \in B \ R, IsFileChange(g) PROVE FALSE
  <2>1. ASSUME NEW e \in R, e \notin B PROVE FALSE
    <3>1. InOrder(g, e) /\ Earlier(e, g)
      BY <1>1, <1>2, <1>3, <1>10, <2>1
    <3>2. Earlier(g, e) /\ e \in Events /\ g \in Events
      BY <1>2, <1>3, <1>10, <2>1, <3>1 DEF InOrder
    <3> QED
      BY <3>1, <3>2, EarlierOrders
  <2>2. R \cup {g} \subseteq B /\ g \notin R
    BY <1>10, <2>1
  <2> QED
    BY <1>3, <1>4, <1>5, <1>7, <1>8, <2>2
<1>11. ASSUME NEW i \in 1..Len(r), NEW j \in 1..Len(r),
              NEW k \in 1..Len(back), NEW l \in 1..Len(back),
              i < j, k < l, back[k] = r[j], back[l] = r[i]
       PROVE  ~IsFileChange(r[i]) /\ IsFileChange(r[j])
  <2>1. Earlier(r[j], r[i]) /\ InOrder(r[i], r[j]) /\ r[i] \in Events /\ r[j] \in Events
    BY <1>1, <1>2, <1>11
  <2>2. ~Earlier(r[i], r[j])
    BY <2>1, EarlierOrders
  <2> QED
    BY <2>1, <2>2 DEF InOrder
<1> QED
  BY <1>7, <1>9, <1>10, <1>11 DEF back, R, B

\* "A restarted daemon shows this morning's timeline": whenever the writer has caught up and
\* nothing was dropped, a restart would show the timeline that the running daemon shows, but
\* for file changes that move to before what was derived between them and their tick.  The
\* rows are ordered by time, hence the hypothesis that the clock never goes back.
THEOREM RestartShowsTheTimeline ==
  ASSUME ClockNeverGoesBack
  PROVE  PersistSpec => []RestartKeepsTimeline
<1>1. PipeInv /\ RestInv /\ TimelineInv => RestartKeepsTimeline
  <2> SUFFICES ASSUME PipeInv, RestInv, TimelineInv PROVE RestartKeepsTimeline
    OBVIOUS
  <2> DEFINE back == Restored(stored.events)
  <2>1. CASE Settled
    <3>1. Told = stored.events /\ dropped = 0
      BY <2>1 DEF Settled, Told, EventsInHand
    <3>2. /\ stored.events \in SUBSET Events /\ IsFiniteSet(stored.events)
          /\ EndsWith(ring, stored.events)
          /\ ring \in Seq(Events) /\ Len(ring) <= RingCapacity
      BY <3>1, ToldType DEF TimelineInv, RestInv
    <3>3. back \in Seq(Events)
      BY <3>2, RestoredShape
    <3>4. DOMAIN ring = 1..Len(ring) /\ DOMAIN back = 1..Len(back)
      BY <3>2, <3>3
    <3>5. /\ Len(back) = Len(ring)
          /\ \A e \in ToSet(ring) \ ToSet(back) : IsFileChange(e)
          /\ \A e \in ToSet(back) \ ToSet(ring) : ~IsFileChange(e)
          /\ \A i, j \in 1..Len(ring), k, l \in 1..Len(back) :
               i < j /\ k < l /\ back[k] = ring[j] /\ back[l] = ring[i]
                 => ~IsFileChange(ring[i]) /\ IsFileChange(ring[j])
      BY <3>2, TwoEnds
    <3> HIDE DEF back
    <3> QED
      BY <3>4, <3>5 DEF RestartKeepsTimeline, back
  <2>2. CASE ~Settled
    BY <2>2 DEF RestartKeepsTimeline
  <2> QED
    BY <2>1, <2>2
<1>2. PipeInv /\ RestInv /\ TimelineInv /\ [PersistNext]_persistVars => TimelineInv'
  BY TimelineInductive
<1> QED
  BY <1>1, <1>2, TimelineInitially, RestInvariance, PTL DEF PersistSpec
----------------------------------------------------------------------------
(***************************************************************************)
(* Rows.  With no container collector every service held is a listener, in *)
(* the project of its fingerprint.  Unless something was dropped, the      *)
(* newest row on the way from the delta to the file is the registry's,     *)
(* and every row travels behind its project.                               *)
(***************************************************************************)
InWriting(s) == writing # Idle /\ s \in DOMAIN writing.services

NotQueued(s) == \A i \in DOMAIN queue : s \notin DOMAIN queue[i].services

RowQueued(s, row) ==
  \E i \in DOMAIN queue :
    /\ s \in DOMAIN queue[i].services /\ queue[i].services[s] = row
    /\ \A j \in DOMAIN queue : i < j => s \notin DOMAIN queue[j].services

RowTaken(s, row) ==
  IF InWriting(s) THEN writing.services[s] = row
  ELSE s \in DOMAIN stored.services /\ stored.services[s] = row

RowKept(s, row) == RowQueued(s, row) \/ (NotQueued(s) /\ RowTaken(s, row))

ProjectsTaken == stored.projects \cup (IF writing = Idle THEN {} ELSE writing.projects)

ProjectsUpTo(n) == ProjectsTaken \cup UNION {queue[i].projects : i \in {j \in DOMAIN queue : j <= n}}

ParentsFirst ==
  /\ introduced \subseteq ProjectsUpTo(Len(queue))
  /\ writing # Idle =>
       \A s \in DOMAIN writing.services : writing.services[s].project \in ProjectsTaken
  /\ \A i \in DOMAIN queue : \A s \in DOMAIN queue[i].services :
       queue[i].services[s].project \in ProjectsUpTo(i)

OnlyListeners == \A s \in Held(reg) : s \notin Container /\ reg[s].project \in introduced

RowsInv ==
  ~inspects /\ dropped = 0 =>
    OnlyListeners /\ ParentsFirst /\ \A s \in Held(reg) : RowKept(s, Row(reg[s]))

\* A row the delta does not announce is the one it was.
LEMMA RowUnchanged ==
  ASSUME RegInv, NEW batch \in Batches, NEW at \in Time, Apply(batch, at), RegInv',
         NEW s \in Held(reg'), s \notin Container, s \notin ChangedServices(delta')
  PROVE  s \in Held(reg) /\ Row(reg'[s]) = Row(reg[s])
<1>1. FollowsFromDelta
  BY DeltaStep DEF RegInv
<1>2. /\ s \notin delta'.started /\ s \notin delta'.restarted
      /\ \A c \in delta'.portsOpened \cup delta'.portsClosed \cup delta'.healthChanged : c[1] # s
  BY DEF ChangedServices
<1>3. s \in Held(reg) /\ s \in Service /\ reg[s] # NoEntry /\ reg'[s] # NoEntry
  BY <1>1, <1>2 DEF FollowsFromDelta, Held
<1>4. reg'[s].health = reg[s].health
  <2>1. <<s, reg[s].health, reg'[s].health>>[1] = s
    OBVIOUS
  <2> QED
    BY <1>1, <1>2, <1>3, <2>1 DEF FollowsFromDelta
<1>5. reg'[s].restartCount = reg[s].restartCount
  BY <1>1, <1>2, <1>3 DEF FollowsFromDelta
<1>6. reg'[s].project = reg[s].project
  BY <1>3 DEF RegInv, HomeKept
<1>7. reg'[s].ports = reg[s].ports
  <2>1. reg[s].ports \subseteq Port /\ reg'[s].ports \subseteq Port
    BY <1>3 DEF RegInv, IInv, RegOK, EntryOK, Entry
  <2>2. OpenPorts(reg') = (OpenPorts(reg) \ delta'.portsClosed) \cup delta'.portsOpened
    BY <1>1 DEF FollowsFromDelta
  <2>3. ASSUME NEW p \in Port PROVE p \in reg'[s].ports <=> p \in reg[s].ports
    <3> DEFINE c == <<s, p>>
    <3>1. c \in Service \X Port /\ c[1] = s /\ c[2] = p
      BY <1>3
    <3>2. /\ c \in OpenPorts(reg') <=> p \in reg'[s].ports
          /\ c \in OpenPorts(reg) <=> p \in reg[s].ports
      BY <1>3, <3>1 DEF OpenPorts, PortsIn
    <3>3. c \notin delta'.portsClosed /\ c \notin delta'.portsOpened
      BY <1>2, <3>1
    <3> HIDE DEF c
    <3> QED
      BY <2>2, <3>2, <3>3
  <2> QED
    BY <2>1, <2>3
<1> QED
  BY <1>3, <1>4, <1>5, <1>6, <1>7 DEF Row

LEMMA ProjectsUpToParts ==
  \A n, p : p \in ProjectsUpTo(n)
              <=> p \in ProjectsTaken \/ \E j \in DOMAIN queue : j <= n /\ p \in queue[j].projects
BY DEF ProjectsUpTo

LEMMA ProjectsUpToPartsNext ==
  \A n, p : p \in (ProjectsUpTo(n))'
              <=> p \in ProjectsTaken' \/ \E j \in DOMAIN queue' : j <= n /\ p \in queue'[j].projects
BY DEF ProjectsUpTo

\* Without a container collector a service held is a listener in a project introduced.
LEMMA ListenersTick ==
  ASSUME RegInv, ~inspects, OnlyListeners,
         NEW batch \in Batches, NEW at \in Time, NEW seen \in SUBSET Project,
         NEW answered \in BOOLEAN, NEW sampled \in BOOLEAN,
         NEW changes \in Drains(Len(shown) + 1),
         PersistTick(batch, at, seen, answered, sampled, changes), RegInv'
  PROVE  OnlyListeners'
<1>1. Apply(batch, at) /\ DOMAIN batch \cap Container = {} /\ introduced' = introduced \cup projects'
  BY DEF PersistTick, Tick
<1>2. ASSUME NEW s \in Held(reg') PROVE s \notin Container /\ reg'[s].project \in introduced'
  <2>1. CASE s \in DOMAIN batch
    <3>1. s \in Running(reg')
      BY <1>1, <2>1, StepShape DEF RegInv, IInv, Running, Held
    <3>2. reg'[s].project \in projects' \cup {NoProject}
      BY <3>1, MemoryStep
    <3>3. s \in Service \ Container
      BY <1>1, <1>2, <2>1 DEF Held
    <3>4. reg'[s].project = HomeProject[s] /\ HomeProject[s] # NoProject
      BY <1>2, <3>3, PersistenceAssumption DEF RegInv, HomeKept
    <3> QED
      BY <1>1, <3>2, <3>3, <3>4
  <2>2. CASE s \notin DOMAIN batch
    <3>1. s \in Held(reg) /\ reg'[s].project = reg[s].project
      BY <1>1, <1>2, <2>2, ProjectShape
    <3> QED
      BY <1>1, <3>1 DEF OnlyListeners
  <2> QED
    BY <2>1, <2>2
<1> QED
  BY <1>2 DEF OnlyListeners

LEMMA RowsTick ==
  ASSUME PipeInv, RowsInv, NEW batch \in Batches, NEW at \in Time, NEW seen \in SUBSET Project,
         NEW answered \in BOOLEAN, NEW sampled \in BOOLEAN,
         NEW changes \in Drains(Len(shown) + 1),
         PersistTick(batch, at, seen, answered, sampled, changes)
  PROVE  RowsInv'
<1>1. PICK w \in Writes :
        /\ w = TickWrite(projects', reg', delta', w.events)
        /\ \/ queue' = queue /\ dropped' = dropped /\ IsEmpty(w)
           \/ queue' = Append(queue, w) /\ dropped' = dropped
           \/ queue' = queue /\ dropped' = dropped + 1
        /\ writing' = writing /\ stored' = stored
        /\ introduced' = introduced \cup projects' /\ inspects' = inspects
        /\ RegInv'
  BY PipeTickShape DEF TickPart
<1> SUFFICES ASSUME ~inspects', dropped' = 0
             PROVE  OnlyListeners' /\ ParentsFirst' /\ \A s \in Held(reg') : (RowKept(s, Row(reg[s])))'
  BY DEF RowsInv
<1>2. /\ ~inspects /\ dropped = 0
      /\ (queue' = queue /\ IsEmpty(w)) \/ queue' = Append(queue, w)
  BY <1>1 DEF PipeInv, PipeTypeOK
<1>3. OnlyListeners /\ ParentsFirst /\ \A s \in Held(reg) : RowKept(s, Row(reg[s]))
  BY <1>2 DEF RowsInv
<1>4. /\ w.projects = projects' \ introduced
      /\ DOMAIN w.services = ChangedServices(delta') \cap Held(reg')
      /\ \A s \in DOMAIN w.services : w.services[s] = Row(reg'[s])
  <2>1. /\ w.projects = projects' \ introduced
        /\ w.services = [s \in ChangedServices(delta') \cap Held(reg') |-> Row(reg'[s])]
    BY <1>1 DEF TickWrite
  <2> QED
    BY <2>1
<1>5. OnlyListeners'
  BY <1>1, <1>2, <1>3, ListenersTick DEF PipeInv
<1>6. \A s \in Held(reg') : s \notin DOMAIN w.services => s \in Held(reg) /\ Row(reg'[s]) = Row(reg[s])
  <2>1. Apply(batch, at)
    BY DEF PersistTick, Tick
  <2> QED
    BY <1>1, <1>4, <1>5, <2>1, RowUnchanged DEF PipeInv, OnlyListeners
<1>7. ProjectsTaken' = ProjectsTaken /\ \A s : InWriting(s)' <=> InWriting(s)
  BY <1>1 DEF ProjectsTaken, InWriting
<1>8. CASE queue' = queue /\ IsEmpty(w)
  <2>1. w.projects = {} /\ DOMAIN w.services = {}
    BY <1>8 DEF IsEmpty
  <2>2. introduced' = introduced
    BY <1>1, <1>4, <2>1
  <2>3. ParentsFirst'
    BY <1>1, <1>3, <1>7, <1>8, <2>2 DEF ParentsFirst, ProjectsUpTo
  <2>4. ASSUME NEW s \in Held(reg') PROVE (RowKept(s, Row(reg[s])))'
    <3>1. RowKept(s, Row(reg'[s]))
      BY <1>3, <1>6, <2>1
    <3> QED
      BY <1>1, <1>7, <1>8, <3>1 DEF RowKept, RowQueued, NotQueued, RowTaken
  <2> QED
    BY <1>5, <2>3, <2>4
<1>9. CASE queue' = Append(queue, w)
  <2> DEFINE last == Len(queue) + 1
  <2>1. /\ DOMAIN queue' = DOMAIN queue \cup {last} /\ Len(queue') = last
        /\ \A i \in DOMAIN queue : queue'[i] = queue[i] /\ i \in Nat /\ i <= Len(queue) /\ i < last
        /\ queue'[last] = w
    BY <1>9 DEF PipeInv, PipeTypeOK
  <2> HIDE DEF last
  <2>2. introduced' \subseteq (ProjectsUpTo(Len(queue)))'
    <3>1. ASSUME NEW p \in introduced
          PROVE  p \in ProjectsTaken \/ \E j \in DOMAIN queue : p \in queue[j].projects
      BY <1>3, ProjectsUpToParts DEF ParentsFirst
    <3>2. ASSUME NEW p \in introduced'
          PROVE  p \in ProjectsTaken' \/ \E j \in DOMAIN queue' : j <= last /\ p \in queue'[j].projects
      <4>1. CASE p \in introduced
        BY <1>7, <2>1, <3>1, <4>1
      <4>2. CASE p \notin introduced
        <5>1. p \in queue'[last].projects
          BY <1>1, <1>4, <2>1, <3>2, <4>2
        <5>2. last \in DOMAIN queue' /\ last <= last
          BY <2>1 DEF last, PipeInv, PipeTypeOK
        <5> QED
          BY <5>1, <5>2
      <4> QED
        BY <4>1, <4>2
    <3> QED
      BY <2>1, <3>2, ProjectsUpToPartsNext
  <2>3. ASSUME NEW i \in DOMAIN queue', NEW s \in DOMAIN queue'[i].services
        PROVE  queue'[i].services[s].project \in (ProjectsUpTo(i))'
    <3>1. CASE i \in DOMAIN queue
      <4>1. queue[i].services[s].project \in ProjectsUpTo(i)
        BY <1>3, <2>1, <2>3, <3>1 DEF ParentsFirst
      <4> QED
        BY <1>7, <2>1, <3>1, <4>1, ProjectsUpToParts, ProjectsUpToPartsNext
    <3>2. CASE i = last
      <4>1. s \in Held(reg') /\ queue'[i].services[s].project = reg'[s].project
        <5>1. queue'[i] = w /\ s \in DOMAIN w.services
          BY <2>1, <2>3, <3>2
        <5>2. s \in Held(reg') /\ w.services[s] = Row(reg'[s])
          BY <1>4, <5>1
        <5> QED
          BY <5>1, <5>2 DEF Row
      <4>2. reg'[s].project \in introduced'
        BY <1>5, <4>1 DEF OnlyListeners
      <4> QED
        BY <2>1, <2>2, <3>2, <4>1, <4>2
    <3> QED
      BY <2>1, <3>1, <3>2
  <2>4. ParentsFirst'
    BY <1>1, <1>3, <1>7, <2>2, <2>3 DEF ParentsFirst
  <2>5. ASSUME NEW s \in Held(reg') PROVE (RowKept(s, Row(reg[s])))'
    <3>1. CASE s \in DOMAIN w.services
      <4>1. last \in DOMAIN queue' /\ queue'[last].services[s] = Row(reg'[s])
            /\ s \in DOMAIN queue'[last].services
        BY <1>4, <2>1, <3>1
      <4>2. \A j \in DOMAIN queue' : ~(last < j)
        BY <2>1 DEF last, PipeInv, PipeTypeOK
      <4> QED
        BY <4>1, <4>2 DEF RowKept, RowQueued
    <3>2. CASE s \notin DOMAIN w.services
      <4>1. RowKept(s, Row(reg'[s]))
        BY <1>3, <1>6, <3>2
      <4>2. CASE RowQueued(s, Row(reg'[s]))
        <5>1. PICK i \in DOMAIN queue :
                /\ s \in DOMAIN queue[i].services /\ queue[i].services[s] = Row(reg'[s])
                /\ \A j \in DOMAIN queue : i < j => s \notin DOMAIN queue[j].services
          BY <4>2 DEF RowQueued
        <5>2. /\ i \in DOMAIN queue' /\ queue'[i] = queue[i]
              /\ \A j \in DOMAIN queue' : i < j => s \notin DOMAIN queue'[j].services
          BY <2>1, <3>2, <5>1
        <5> QED
          BY <5>1, <5>2 DEF RowKept, RowQueued
      <4>3. CASE NotQueued(s) /\ RowTaken(s, Row(reg'[s]))
        <5>1. NotQueued(s)'
          BY <2>1, <3>2, <4>3 DEF NotQueued
        <5>2. (RowTaken(s, Row(reg[s])))'
          BY <1>1, <1>7, <4>3 DEF RowTaken
        <5> QED
          BY <5>1, <5>2 DEF RowKept
      <4> QED
        BY <4>1, <4>2, <4>3 DEF RowKept
    <3> QED
      BY <3>1, <3>2
  <2> QED
    BY <1>5, <2>4, <2>5
<1> QED
  BY <1>2, <1>8, <1>9

LEMMA RowsTake ==
  ASSUME PipeInv, RowsInv, TakeWrite
  PROVE  RowsInv'
<1>1. /\ queue \in Seq(Writes) /\ queue # <<>> /\ writing = Idle
      /\ writing' = Head(queue) /\ queue' = Tail(queue)
      /\ UNCHANGED <<reg, inspects, introduced, dropped, stored>>
  BY DEF TakeWrite, PipeInv, PipeTypeOK, deriverVars
<1>2. /\ 1 \in DOMAIN queue /\ writing' = queue[1] /\ writing' # Idle
      /\ Len(queue') = Len(queue) - 1 /\ Len(queue) \in Nat
      /\ \A i \in DOMAIN queue : i \in Nat /\ i >= 1
      /\ \A i \in DOMAIN queue' : i \in Nat /\ i >= 1 /\ i + 1 \in DOMAIN queue /\ queue'[i] = queue[i + 1]
      /\ \A j \in DOMAIN queue : j # 1 => j - 1 \in DOMAIN queue' /\ queue'[j - 1] = queue[j]
  BY <1>1, HeadAndTail, IdleAssumption
<1> SUFFICES ASSUME ~inspects, dropped = 0, OnlyListeners, ParentsFirst,
                    \A s \in Held(reg) : RowKept(s, Row(reg[s]))
             PROVE  OnlyListeners' /\ ParentsFirst' /\ \A s \in Held(reg') : (RowKept(s, Row(reg[s])))'
  BY <1>1 DEF RowsInv
<1>3. ProjectsTaken = stored.projects /\ ProjectsTaken' = stored.projects \cup queue[1].projects
  BY <1>1, <1>2 DEF ProjectsTaken
<1>4. ASSUME NEW n \in Nat, NEW p \in ProjectsUpTo(n + 1) PROVE p \in (ProjectsUpTo(n))'
  <2>1. p \in ProjectsTaken \/ \E j \in DOMAIN queue : j <= n + 1 /\ p \in queue[j].projects
    BY <1>4, ProjectsUpToParts
  <2>2. CASE p \in ProjectsTaken
    BY <1>3, <2>2, ProjectsUpToPartsNext
  <2>3. ASSUME NEW j \in DOMAIN queue, j <= n + 1, p \in queue[j].projects
        PROVE  p \in (ProjectsUpTo(n))'
    <3>1. CASE j = 1
      BY <1>3, <2>3, <3>1, ProjectsUpToPartsNext
    <3>2. CASE j # 1
      <4>1. j - 1 \in DOMAIN queue' /\ j - 1 <= n /\ queue'[j - 1] = queue[j]
        BY <1>2, <1>4, <2>3, <3>2
      <4> QED
        BY <2>3, <4>1, ProjectsUpToPartsNext
    <3> QED
      BY <3>1, <3>2
  <2> QED
    BY <2>1, <2>2, <2>3
<1>5. ParentsFirst'
  <2>1. introduced' \subseteq (ProjectsUpTo(Len(queue)))'
    <3>1. Len(queue') \in Nat /\ Len(queue') + 1 = Len(queue)
      BY <1>1, <1>2
    <3>2. introduced' \subseteq ProjectsUpTo(Len(queue') + 1)
      BY <1>1, <3>1 DEF ParentsFirst
    <3> QED
      BY <1>4, <3>1, <3>2
  <2>2. ASSUME NEW s \in DOMAIN writing'.services
        PROVE  writing'.services[s].project \in ProjectsTaken'
    <3>1. queue[1].services[s].project \in ProjectsUpTo(1)
      BY <1>2, <2>2 DEF ParentsFirst
    <3>2. \A j \in DOMAIN queue : j <= 1 => j = 1
      BY <1>2
    <3> QED
      BY <1>2, <1>3, <3>1, <3>2, ProjectsUpToParts
  <2>3. ASSUME NEW i \in DOMAIN queue', NEW s \in DOMAIN queue'[i].services
        PROVE  queue'[i].services[s].project \in (ProjectsUpTo(i))'
    <3>1. i \in Nat /\ queue'[i].services[s].project \in ProjectsUpTo(i + 1)
      BY <1>2, <2>3 DEF ParentsFirst
    <3> QED
      BY <1>4, <3>1
  <2> QED
    BY <2>1, <2>2, <2>3 DEF ParentsFirst
<1>6. ASSUME NEW s \in Held(reg) PROVE (RowKept(s, Row(reg[s])))'
  <2>1. CASE RowQueued(s, Row(reg[s]))
    <3>1. PICK i \in DOMAIN queue :
            /\ s \in DOMAIN queue[i].services /\ queue[i].services[s] = Row(reg[s])
            /\ \A j \in DOMAIN queue : i < j => s \notin DOMAIN queue[j].services
      BY <2>1 DEF RowQueued
    <3>2. CASE i = 1
      <4>1. (RowTaken(s, Row(reg[s])))'
        BY <1>1, <1>2, <3>1, <3>2 DEF RowTaken, InWriting
      <4>2. NotQueued(s)'
        BY <1>2, <3>1, <3>2 DEF NotQueued
      <4> QED
        BY <4>1, <4>2 DEF RowKept
    <3>3. CASE i # 1
      <4>1. /\ i - 1 \in DOMAIN queue' /\ queue'[i - 1] = queue[i]
            /\ \A j \in DOMAIN queue' : i - 1 < j => s \notin DOMAIN queue'[j].services
        BY <1>2, <3>1, <3>3
      <4>2. (RowQueued(s, Row(reg[s])))'
        BY <1>1, <3>1, <4>1 DEF RowQueued
      <4> QED
        BY <4>2 DEF RowKept
    <3> QED
      BY <3>2, <3>3
  <2>2. CASE NotQueued(s) /\ RowTaken(s, Row(reg[s]))
    <3>1. NotQueued(s)' /\ ~InWriting(s)'
      BY <1>2, <2>2 DEF NotQueued, InWriting
    <3>2. (RowTaken(s, Row(reg[s])))'
      BY <1>1, <2>2, <3>1 DEF RowTaken, InWriting
    <3> QED
      BY <3>1, <3>2 DEF RowKept
  <2> QED
    BY <2>1, <2>2 DEF RowKept
<1> QED
  BY <1>1, <1>5, <1>6 DEF OnlyListeners

LEMMA RowsStoreProject ==
  ASSUME PipeInv, RowsInv, StoreProject
  PROVE  RowsInv'
<1>1. PICK p \in writing.projects :
        /\ stored' = [stored EXCEPT !.projects = @ \cup {p}]
        /\ writing' = [writing EXCEPT !.projects = @ \ {p}]
  BY DEF StoreProject
<1>2. /\ writing \in Writes /\ writing # Idle /\ writing' # Idle
      /\ UNCHANGED <<reg, inspects, introduced, dropped, queue>>
  BY StoreRowsShape, IdleAssumption DEF StoreProject, PipeInv, PipeTypeOK, deriverVars
<1>3. /\ stored'.projects = stored.projects \cup {p} /\ stored'.services = stored.services
      /\ writing'.projects = writing.projects \ {p} /\ writing'.services = writing.services
  BY <1>1, <1>2 DEF PipeInv, PipeTypeOK, Writes
<1>4. ProjectsTaken' = ProjectsTaken
  BY <1>2, <1>3 DEF ProjectsTaken
<1>5. ParentsFirst' <=> ParentsFirst
  BY <1>2, <1>3, <1>4 DEF ParentsFirst, ProjectsUpTo
<1>6. \A s, row : (RowKept(s, row))' <=> RowKept(s, row)
  BY <1>2, <1>3 DEF RowKept, RowQueued, NotQueued, RowTaken, InWriting
<1> QED
  BY <1>2, <1>5, <1>6 DEF RowsInv, OnlyListeners

LEMMA RowsStoreService ==
  ASSUME PipeInv, RowsInv, StoreService
  PROVE  RowsInv'
<1>1. PICK s \in DOMAIN writing.services :
        /\ stored' = IF HasParent(writing.services[s])
                     THEN [stored EXCEPT !.services = Upserted(s, writing.services[s])]
                     ELSE stored
        /\ writing' = [writing EXCEPT !.services =
                         [t \in DOMAIN writing.services \ {s} |-> writing.services[t]]]
  BY DEF StoreService
<1>2. /\ writing \in Writes /\ writing # Idle /\ writing' # Idle /\ writing.projects = {}
      /\ UNCHANGED <<reg, inspects, introduced, dropped, queue>>
  BY StoreRowsShape, IdleAssumption DEF StoreService, PipeInv, PipeTypeOK, deriverVars
<1> SUFFICES ASSUME ~inspects, dropped = 0, OnlyListeners, ParentsFirst,
                    \A t \in Held(reg) : RowKept(t, Row(reg[t]))
             PROVE  OnlyListeners' /\ ParentsFirst' /\ \A t \in Held(reg') : (RowKept(t, Row(reg[t])))'
  BY <1>2 DEF RowsInv
<1>3. HasParent(writing.services[s])
  BY <1>1, <1>2 DEF ParentsFirst, ProjectsTaken, HasParent
<1>4. /\ stored'.services = Upserted(s, writing.services[s]) /\ stored'.projects = stored.projects
      /\ DOMAIN writing'.services = DOMAIN writing.services \ {s}
      /\ \A t \in DOMAIN writing'.services : writing'.services[t] = writing.services[t]
      /\ writing'.projects = {}
  BY <1>1, <1>2, <1>3 DEF PipeInv, PipeTypeOK, Writes
<1>5. ProjectsTaken' = ProjectsTaken
  BY <1>2, <1>4 DEF ProjectsTaken
<1>6. ParentsFirst'
  BY <1>2, <1>4, <1>5 DEF ParentsFirst, ProjectsUpTo
<1>7. \A t, row : RowTaken(t, row) => (RowTaken(t, row))'
  <2> SUFFICES ASSUME NEW t, NEW row, RowTaken(t, row) PROVE (RowTaken(t, row))'
    OBVIOUS
  <2>1. CASE t = s
    BY <1>1, <1>2, <1>4, <2>1 DEF RowTaken, InWriting, Upserted
  <2>2. CASE t # s
    <3>1. InWriting(t)' <=> InWriting(t)
      BY <1>2, <1>4, <2>2 DEF InWriting
    <3>2. /\ t \in DOMAIN stored'.services <=> t \in DOMAIN stored.services
          /\ t \in DOMAIN stored.services => stored'.services[t] = stored.services[t]
      BY <1>4, <2>2 DEF Upserted
    <3> QED
      BY <1>4, <3>1, <3>2 DEF RowTaken, InWriting
  <2> QED
    BY <2>1, <2>2
<1>8. \A t, row : RowKept(t, row) => (RowKept(t, row))'
  BY <1>2, <1>7 DEF RowKept, RowQueued, NotQueued
<1> QED
  BY <1>2, <1>6, <1>8 DEF OnlyListeners

LEMMA RowsStoreEvents ==
  ASSUME PipeInv, RowsInv, StoreEvents
  PROVE  RowsInv'
<1>1. /\ writing # Idle /\ writing.projects = {} /\ DOMAIN writing.services = {} /\ writing' = Idle
      /\ stored'.projects = stored.projects /\ stored'.services = stored.services
      /\ UNCHANGED <<reg, inspects, introduced, dropped, queue>>
  BY DEF StoreEvents, PipeInv, PipeTypeOK, deriverVars
<1>2. ProjectsTaken' = ProjectsTaken /\ \A s : ~InWriting(s) /\ ~InWriting(s)'
  BY <1>1 DEF ProjectsTaken, InWriting
<1>3. ParentsFirst => ParentsFirst'
  BY <1>1, <1>2 DEF ParentsFirst, ProjectsUpTo
<1>4. \A s, row : (RowKept(s, row))' <=> RowKept(s, row)
  BY <1>1, <1>2 DEF RowKept, RowQueued, NotQueued, RowTaken
<1> QED
  BY <1>1, <1>3, <1>4 DEF RowsInv, OnlyListeners

LEMMA RowsBegin ==
  /\ PersistInit => RowsInv
  /\ Crash => RowsInv'
<1>1. ASSUME PersistInit PROVE RowsInv
  <2>1. Held(reg) = {} /\ introduced = {} /\ queue = <<>> /\ writing = Idle
    BY <1>1 DEF PersistInit, DeriverInit, Init, Held
  <2>2. DOMAIN queue = {}
    BY <2>1
  <2> QED
    BY <2>1, <2>2 DEF RowsInv, OnlyListeners, ParentsFirst
<1>2. ASSUME Crash PROVE RowsInv'
  <2>1. Held(reg') = {} /\ introduced' = {} /\ queue' = <<>> /\ writing' = Idle
    BY <1>2 DEF Crash, Held
  <2>2. DOMAIN queue' = {}
    BY <2>1
  <2> QED
    BY <2>1, <2>2 DEF RowsInv, OnlyListeners, ParentsFirst
<1> QED
  BY <1>1, <1>2

LEMMA RowsInductive == PipeInv /\ RowsInv /\ [PersistNext]_persistVars => RowsInv'
<1> SUFFICES ASSUME PipeInv, RowsInv, [PersistNext]_persistVars PROVE RowsInv'
  OBVIOUS
<1>1. CASE UNCHANGED persistVars
  BY <1>1 DEF persistVars, deriverVars, RowsInv, OnlyListeners, ParentsFirst, ProjectsUpTo,
              ProjectsTaken, RowKept, RowQueued, NotQueued, RowTaken, InWriting, Held
<1>2. ASSUME NEW batch \in Batches, NEW d \in ClockSteps, NEW seen \in SUBSET Project,
             NEW answered \in BOOLEAN, NEW sampled \in BOOLEAN,
             NEW changes \in Drains(Len(shown) + 1), now + d \in Time,
             PersistTick(batch, now + d, seen, answered, sampled, changes)
      PROVE  RowsInv'
  BY <1>2, RowsTick
<1>3. CASE Writer
  BY <1>3, RowsTake, RowsStoreProject, RowsStoreService, RowsStoreEvents DEF Writer
<1>4. CASE Crash
  BY <1>4, RowsBegin
<1> QED
  BY <1>1, <1>2, <1>3, <1>4 DEF PersistNext

\* The delta alone decides what is written, and a row goes through queue, foreign key and
\* crashes: once the writer has caught up, and if nothing was dropped since the daemon
\* started, the file says of every service held what the registry says.
THEOREM RowsCatchUp == PersistSpec => []RowsAreCurrent
<1>1. PipeInv /\ RowsInv => RowsAreCurrent
  <2> SUFFICES ASSUME RowsInv, Settled, ~inspects, NEW s \in Held(reg)
               PROVE  s \in DOMAIN stored.services /\ stored.services[s] = Row(reg[s])
    BY DEF RowsAreCurrent
  <2>1. RowKept(s, Row(reg[s])) /\ DOMAIN queue = {} /\ writing = Idle
    BY DEF RowsInv, Settled
  <2> QED
    BY <2>1 DEF RowKept, RowQueued, RowTaken, InWriting
<1> QED
  BY <1>1, RowsBegin, RowsInductive, PipeInvariance, PTL DEF PersistSpec

----------------------------------------------------------------------------
(***************************************************************************)
(* The two properties the code breaks hold where the cause is not there.   *)
(***************************************************************************)
\* As long as nothing was dropped, and without a container collector, the writer refuses no
\* row for want of its project: the drop alone is why one is ever refused (daemon.rs:354).
THEOREM OnlyDropsCost == PersistSpec => [](dropped = 0 => DropCostsOneTick)
<1>1. PipeInv /\ RowsInv => (dropped = 0 => DropCostsOneTick)
  <2> SUFFICES ASSUME RowsInv, dropped = 0, ~inspects, writing # Idle, writing.projects = {},
                      NEW s \in DOMAIN writing.services
               PROVE  HasParent(writing.services[s])
    BY DEF DropCostsOneTick
  <2>1. writing.services[s].project \in ProjectsTaken
    BY DEF RowsInv, ParentsFirst
  <2>2. writing.services[s].project \in stored.projects
    BY <2>1 DEF ProjectsTaken
  <2> QED
    BY <2>2 DEF HasParent
<1> QED
  BY <1>1, RowsBegin, RowsInductive, PipeInvariance, PTL DEF PersistSpec

\* Without a container collector the project of every running service is known, from its first
\* tick on: the second call of remember_projects alone is why one is ever forgotten
\* (snapshot.rs:351).
THEOREM OnlyTheSecondCallForgets == PersistSpec => [](~inspects => ObservedProjectsAreKnown)
<1> DEFINE Known == ~inspects => ObservedProjectsAreKnown
<1>1. PersistInit => Known
  <2> SUFFICES ASSUME PersistInit PROVE Running(reg) = {}
    BY DEF ObservedProjectsAreKnown
  <2> QED
    BY DEF PersistInit, DeriverInit, Init, Running, Held, IsRunning
<1>2. RegInv /\ Known /\ [PersistNext]_persistVars => Known'
  <2> SUFFICES ASSUME RegInv, Known, [PersistNext]_persistVars PROVE Known'
    OBVIOUS
  <2>1. CASE UNCHANGED <<reg, projects, inspects>>
    BY <2>1 DEF ObservedProjectsAreKnown, Running, IsRunning
  <2>2. CASE Crash
    <3>1. Running(reg') = {}
      BY <2>2 DEF Crash, Running, Held, IsRunning
    <3> QED
      BY <3>1 DEF ObservedProjectsAreKnown
  <2>3. ASSUME NEW batch \in Batches, NEW d \in ClockSteps, NEW seen \in SUBSET Project,
               NEW answered \in BOOLEAN, NEW sampled \in BOOLEAN,
               NEW changes \in Drains(Len(shown) + 1), now + d \in Time,
               PersistTick(batch, now + d, seen, answered, sampled, changes)
        PROVE  Known'
    <3>1. inspects' = inspects
      BY <2>3 DEF PersistTick
    <3>2. ASSUME ~inspects, NEW s \in Running(reg')
          PROVE  reg'[s].project \in projects' \cup {NoProject}
      BY <2>3, <3>2, MemoryStep
    <3> QED
      BY <3>1, <3>2 DEF ObservedProjectsAreKnown
  <2>4. CASE Writer
    <3>1. UNCHANGED <<reg, projects, inspects>>
      BY <2>4 DEF Writer, TakeWrite, StoreProject, StoreService, StoreEvents, deriverVars
    <3> QED
      BY <2>1, <3>1
  <2>5. CASE UNCHANGED persistVars
    BY <2>1, <2>5 DEF persistVars, deriverVars
  <2> QED
    BY <2>2, <2>3, <2>4, <2>5 DEF PersistNext
<1> HIDE DEF Known
<1>3. Known => (~inspects => ObservedProjectsAreKnown)
  BY DEF Known
<1> QED
  BY <1>1, <1>2, <1>3, RegInvariance, PTL DEF PersistSpec
=============================================================================
