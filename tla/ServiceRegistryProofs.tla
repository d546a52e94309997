----------------------- MODULE ServiceRegistryProofs -----------------------
(***************************************************************************)
(* Proofs about ServiceRegistry, for every value of its constants.         *)
(*                                                                         *)
(* The inductive invariant says of each entry held what the next batch     *)
(* relies on: EntryOK.  Bounds on the registry as a whole hold after every *)
(* batch whatever was held before it, because evict_stopped runs last.     *)
(***************************************************************************)
EXTENDS ServiceRegistry, FiniteSetTheorems, WellFoundedInduction, TLAPS

EntryOK(s, e) ==
  /\ e \in Entry
  /\ Len(e.restarts) <= RestartThreshold
  /\ Len(e.restarts) <= e.restartCount
  /\ e.health = "stopped" <=> ~IsRunning(s, e)
  /\ e.health = "stopped" => e.pids = {} /\ e.ports = {} /\ e.restarts = <<>>
  /\ e.health = "degraded" => e.restartCount >= RestartThreshold

RegOK(r) ==
  /\ r = [s \in Service |-> r[s]]
  /\ \A s \in Service : r[s] = NoEntry \/ EntryOK(s, r[s])

IInv == RegOK(reg) /\ delta \in Changed /\ now \in Time

----------------------------------------------------------------------------
(***************************************************************************)
(* What a batch holds.                                                     *)
(***************************************************************************)
LEMMA BatchShape ==
  ASSUME NEW batch \in Batches
  PROVE  DOMAIN batch \subseteq Service /\ \A s \in DOMAIN batch : batch[s] \in Folded(s)
BY DEF Batches

LEMMA FoldedShape ==
  ASSUME NEW s \in Service, NEW o \in Folded(s)
  PROVE  /\ o.pids \in SUBSET Pid /\ o.ports \in SUBSET Port /\ o.project \in MaybeProject
         /\ s \in Container => o.pids = {}
         /\ s \notin Container => o.pids # {}
<1>1. CASE s \in Container
  BY <1>1 DEF Folded
<1>2. CASE s \notin Container
  <2>1. o \in [pids : (SUBSET Pid) \ {{}}, ports : ListenedPorts(s), project : {HomeProject[s]}]
    BY <1>2 DEF Folded
  <2>2. ListenedPorts(s) \subseteq SUBSET Port /\ HomeProject[s] \in MaybeProject
    BY <1>2, IdentityAssumption DEF ListenedPorts
  <2> QED
    BY <1>2, <2>1, <2>2
<1> QED
  BY <1>1, <1>2

(***************************************************************************)
(* Each way an entry changes keeps it well formed.                         *)
(***************************************************************************)
LEMMA RecordRestartShape ==
  ASSUME NEW e \in Entry, NEW at \in Time, Len(e.restarts) <= RestartThreshold,
         Len(e.restarts) <= e.restartCount
  PROVE  /\ RecordRestart(e, at) \in Entry
         /\ Len(RecordRestart(e, at).restarts) <= RestartThreshold
         /\ Len(RecordRestart(e, at).restarts) <= RecordRestart(e, at).restartCount
         /\ RecordRestart(e, at).restartCount \in {e.restartCount + 1, MaxRestartCount}
<1> DEFINE kept == IF Len(e.restarts) = RestartThreshold THEN Tail(e.restarts) ELSE e.restarts
           count == IF e.restartCount < MaxRestartCount THEN e.restartCount + 1 ELSE e.restartCount
<1>1. e.restarts \in Seq(Time) /\ e.restartCount \in 0..MaxRestartCount
  BY DEF Entry
<1>2. kept \in Seq(Time) /\ Len(kept) < RestartThreshold /\ Len(kept) <= Len(e.restarts)
  BY <1>1, LimitAssumption
<1>3. Append(kept, at) \in Seq(Time) /\ Len(Append(kept, at)) = Len(kept) + 1
  BY <1>2
<1>4. count \in 0..MaxRestartCount /\ count \in {e.restartCount + 1, MaxRestartCount}
  BY <1>1, LimitAssumption
<1>5. Len(kept) + 1 <= count
  BY <1>1, <1>2, LimitAssumption
<1>6. RecordRestart(e, at) = [e EXCEPT !.restartCount = count, !.restarts = Append(kept, at)]
  BY DEF RecordRestart
<1>7. /\ RecordRestart(e, at) \in Entry
      /\ RecordRestart(e, at).restarts = Append(kept, at)
      /\ RecordRestart(e, at).restartCount = count
  BY <1>3, <1>4, <1>6 DEF Entry
<1>8. Len(kept) \in Nat /\ RestartThreshold \in Nat
  BY <1>2, LimitAssumption
<1> HIDE DEF kept, count
<1> QED
  BY <1>2, <1>3, <1>4, <1>5, <1>7, <1>8

LEMMA InsertOK ==
  ASSUME NEW s \in Service, NEW o \in Folded(s), NEW at \in Time
  PROVE  EntryOK(s, Insert(o, at))
<1>1. Insert(o, at) \in Entry
  BY FoldedShape, LimitAssumption DEF Insert, Entry, Health
<1> QED
  BY <1>1, FoldedShape, LimitAssumption, NoEntryAssumption DEF EntryOK, Insert, IsRunning

LEMMA UpdateOK ==
  ASSUME NEW s \in Service, NEW e, EntryOK(s, e), NEW o \in Folded(s), NEW at \in Time
  PROVE  /\ EntryOK(s, Update(s, e, o, at))
         /\ Update(s, e, o, at).pids = o.pids
         /\ Update(s, e, o, at).ports = o.ports
         /\ Update(s, e, o, at).project = o.project
         /\ Update(s, e, o, at).lastSeen = at
         /\ Update(s, e, o, at).health \in {"healthy", "degraded"}
         /\ IF InPlaceRestart(s, e, o) \/ ~IsRunning(s, e)
            THEN Update(s, e, o, at).restartCount \in {e.restartCount + 1, MaxRestartCount}
            ELSE Update(s, e, o, at).restartCount = e.restartCount
<1> DEFINE counts == InPlaceRestart(s, e, o) \/ ~IsRunning(s, e)
           counted == IF counts THEN RecordRestart(e, at) ELSE e
           health == RunningHealth(counted)
           u == Update(s, e, o, at)
<1>1. /\ counted \in Entry
      /\ Len(counted.restarts) <= RestartThreshold
      /\ Len(counted.restarts) <= counted.restartCount
      /\ IF counts THEN counted.restartCount \in {e.restartCount + 1, MaxRestartCount}
                   ELSE counted.restartCount = e.restartCount
  BY RecordRestartShape DEF EntryOK
<1>2. /\ health \in {"healthy", "degraded"}
      /\ health = "degraded" => Len(counted.restarts) >= RestartThreshold
  BY DEF RunningHealth
<1>3. u = [counted EXCEPT !.pids = o.pids, !.ports = o.ports, !.project = o.project,
                          !.lastSeen = at, !.everListened = @ \/ o.ports # {},
                          !.health = health]
  BY DEF Update
<1> HIDE DEF counts, counted, health, u
<1>4. /\ u \in Entry /\ u.pids = o.pids /\ u.ports = o.ports /\ u.project = o.project
      /\ u.lastSeen = at /\ u.health = health /\ u.restarts = counted.restarts
      /\ u.restartCount = counted.restartCount
  BY <1>1, <1>2, <1>3, FoldedShape DEF Entry, Health
<1>5. counted.restartCount \in Nat /\ Len(counted.restarts) \in Nat
  BY <1>1, LimitAssumption DEF Entry
<1>6. u.health = "degraded" => u.restartCount >= RestartThreshold
  BY <1>1, <1>2, <1>4, <1>5, LimitAssumption
<1>7. IsRunning(s, u)
  BY <1>2, <1>4, FoldedShape, NoEntryAssumption DEF IsRunning
<1>8. EntryOK(s, u)
  BY <1>1, <1>2, <1>4, <1>6, <1>7 DEF EntryOK
<1> QED
  BY <1>1, <1>2, <1>4, <1>8 DEF counts, u

LEMMA StopOK ==
  ASSUME NEW s \in Service, NEW e, EntryOK(s, e)
  PROVE  /\ EntryOK(s, Stop(e))
         /\ Stop(e).health = "stopped" /\ Stop(e).ports = {}
         /\ Stop(e).lastSeen = e.lastSeen /\ Stop(e).restartCount = e.restartCount
         /\ Stop(e).everListened = e.everListened
<1>1. /\ Stop(e) \in Entry /\ Stop(e).pids = {} /\ Stop(e).ports = {} /\ Stop(e).restarts = <<>>
      /\ Stop(e).health = "stopped" /\ Stop(e).lastSeen = e.lastSeen
      /\ Stop(e).restartCount = e.restartCount /\ Stop(e).everListened = e.everListened
  <2>1. <<>> \in Seq(Time) /\ e \in Entry
    BY DEF EntryOK
  <2> QED
    BY <2>1 DEF Stop, Entry, Health
<1>2. e.restartCount \in Nat
  BY LimitAssumption DEF EntryOK, Entry
<1> QED
  BY <1>1, <1>2, LimitAssumption DEF EntryOK, IsRunning

----------------------------------------------------------------------------
(***************************************************************************)
(* One batch keeps the inductive invariant.                                *)
(***************************************************************************)
LEMMA ReconciledOK ==
  ASSUME RegOK(reg), NEW batch \in Batches, NEW at \in Time
  PROVE  RegOK(Reconciled(batch, at))
<1>1. ASSUME NEW s \in Service
      PROVE  Reconciled(batch, at)[s] = NoEntry \/ EntryOK(s, Reconciled(batch, at)[s])
  <2>1. reg[s] = NoEntry \/ EntryOK(s, reg[s])
    BY DEF RegOK
  <2>2. CASE s \in DOMAIN batch
    <3>1. batch[s] \in Folded(s)
      BY <2>2, BatchShape
    <3>2. EntryOK(s, Insert(batch[s], at))
      BY <3>1, InsertOK
    <3>3. EntryOK(s, reg[s]) => EntryOK(s, Update(s, reg[s], batch[s], at))
      BY <3>1, UpdateOK
    <3> QED
      BY <2>1, <2>2, <3>2, <3>3 DEF Reconciled
  <2>3. CASE s \notin DOMAIN batch
    BY <2>1, <2>3, StopOK DEF Reconciled, IsRunning
  <2> QED
    BY <2>2, <2>3
<1> QED
  BY <1>1 DEF RegOK, Reconciled

LEMMA EvictStoppedOK ==
  ASSUME NEW r, RegOK(r), NEW at
  PROVE  /\ RegOK(EvictStopped(r, at))
         /\ \A s \in Service : EvictStopped(r, at)[s] =
              IF s \in Evicted(r, at) THEN NoEntry ELSE r[s]
BY DEF RegOK, EvictStopped

LEMMA ChangesType ==
  ASSUME NEW old, NEW new, RegOK(new), NEW batch \in Batches
  PROVE  Changes(old, batch, new) \in Changed
<1>1. DOMAIN batch \subseteq Service
  BY BatchShape
<1>2. Held(new) \subseteq Service /\ Held(old) \subseteq Service /\ Running(old) \subseteq Service
  BY DEF Held, Running
<1>3. \A s \in Held(new) : new[s].project \in MaybeProject
  BY DEF Held, RegOK, EntryOK, Entry
<1>4. [s \in Held(new) |-> new[s].project] \in UNION {[S -> MaybeProject] : S \in SUBSET Service}
  BY <1>2, <1>3
<1> QED
  BY <1>1, <1>2, <1>4 DEF Changes, Changed, PortsClosed

LEMMA Initially == Init => IInv
<1> SUFFICES ASSUME Init PROVE IInv
  OBVIOUS
<1>1. [s \in {} |-> NoProject] \in UNION {[S -> MaybeProject] : S \in SUBSET Service}
  BY DEF MaybeProject
<1>2. NoChanges \in Changed
  BY <1>1 DEF NoChanges, Changed
<1>3. 0 \in Time
  BY LimitAssumption DEF Time
<1> QED
  BY <1>2, <1>3 DEF Init, IInv, RegOK

LEMMA Inductive == IInv /\ [Next]_vars => IInv'
<1> SUFFICES ASSUME IInv, [Next]_vars PROVE IInv'
  OBVIOUS
<1>1. CASE UNCHANGED vars
  BY <1>1 DEF vars, IInv, RegOK, EntryOK, IsRunning
<1>2. ASSUME NEW batch \in Batches, NEW d \in ClockSteps, now + d \in Time, Apply(batch, now + d)
      PROVE  IInv'
  <2> DEFINE at == now + d
             new == EvictStopped(Reconciled(batch, at), at)
  <2>1. RegOK(new)
    BY <1>2, ReconciledOK, EvictStoppedOK DEF IInv
  <2>2. Changes(reg, batch, new) \in Changed
    BY <2>1, ChangesType
  <2>3. reg' = new /\ delta' = Changes(reg, batch, new) /\ now' = at
    BY <1>2 DEF Apply
  <2> HIDE DEF new
  <2> QED
    BY <1>2, <2>1, <2>2, <2>3 DEF IInv
<1> QED
  BY <1>1, <1>2 DEF Next

LEMMA IInvImplies == IInv => TypeOK /\ StoppedIsEmpty
<1> SUFFICES ASSUME IInv PROVE TypeOK /\ StoppedIsEmpty
  OBVIOUS
<1>1. reg \in [Service -> Entry \cup {NoEntry}]
  BY DEF IInv, RegOK, EntryOK
<1> QED
  BY <1>1 DEF IInv, RegOK, EntryOK, TypeOK, StoppedIsEmpty

LEMMA Invariance == Spec => []IInv
BY Initially, Inductive, PTL DEF Spec

\* Every entry is well formed and at most RestartThreshold timestamps of it are kept.
THEOREM TypeCorrect == Spec => []TypeOK
<1>1. IInv => TypeOK
  BY IInvImplies
<1> QED
  BY <1>1, Invariance, PTL

\* A service that is not observed is stopped by every record of it, and shows no port.
THEOREM StoppedServicesAreEmpty == Spec => []StoppedIsEmpty
<1>1. IInv => StoppedIsEmpty
  BY IInvImplies
<1> QED
  BY <1>1, Invariance, PTL

----------------------------------------------------------------------------
(***************************************************************************)
(* The order of eviction.  After(r, S, s) is what stands behind s in the   *)
(* sorted vector of candidates.                                            *)
(***************************************************************************)
After(r, S, s) == {t \in S : SeenBefore(r, s, t)}

Seen(r, S) == IsFiniteSet(S) /\ S \subseteq Nat /\ \A s \in S : r[s].lastSeen \in Nat

LEMMA LeastNatural ==
  ASSUME NEW T \in SUBSET Nat, T # {}
  PROVE  \E x \in T : \A y \in T : x <= y
<1> DEFINE R == OpToRel(<, Nat)
<1>1. PICK x \in T : \A y \in T : ~ (<<y, x>> \in R)
  <2>1. IsWellFoundedOn(R, Nat)
    BY NatLessThanWellFounded
  <2> HIDE DEF R
  <2> QED
    BY <2>1, WFMin
<1>2. \A y \in T : ~ (y < x)
  BY <1>1 DEF OpToRel
<1> QED
  BY <1>2

LEMMA AfterFinite ==
  ASSUME NEW r, NEW S, Seen(r, S), NEW s \in S
  PROVE  IsFiniteSet(After(r, S, s)) /\ Cardinality(After(r, S, s)) \in Nat
BY FS_Subset, FS_CardinalityType DEF After, Seen

\* Whoever comes earlier has strictly more behind it.
LEMMA AfterShrinks ==
  ASSUME NEW r, NEW S, Seen(r, S), NEW s \in S, NEW t \in S, SeenBefore(r, s, t)
  PROVE  Cardinality(After(r, S, t)) < Cardinality(After(r, S, s))
<1>1. \A u \in S : u \in Nat /\ r[u].lastSeen \in Nat
  BY DEF Seen
<1>2. t \in After(r, S, s) /\ t \notin After(r, S, t)
  BY <1>1 DEF After, SeenBefore
<1>3. ASSUME NEW u \in S, SeenBefore(r, t, u) PROVE SeenBefore(r, s, u)
  <2>1. /\ r[u].lastSeen \in Nat /\ r[s].lastSeen \in Nat /\ r[t].lastSeen \in Nat
        /\ u \in Nat /\ s \in Nat /\ t \in Nat
    BY <1>1
  <2> QED
    BY <1>3, <2>1 DEF SeenBefore
<1>4. After(r, S, t) \subseteq After(r, S, s)
  BY <1>3 DEF After
<1> QED
  BY <1>2, <1>4, AfterFinite, FS_Subset

LEMMA SeenBeforeTotal ==
  ASSUME NEW r, NEW S, Seen(r, S), NEW s \in S, NEW t \in S, s # t
  PROVE  SeenBefore(r, s, t) \/ SeenBefore(r, t, s)
BY DEF Seen, SeenBefore

\* At most MaxStopped candidates are left ...
LEMMA AtMostMaxStoppedLeft ==
  ASSUME NEW r, NEW S, Seen(r, S)
  PROVE  Cardinality(S \ LeastRecentlySeen(r, S)) <= MaxStopped
<1> DEFINE K == S \ LeastRecentlySeen(r, S)
           count(s) == Cardinality(After(r, S, s))
<1>1. \A s \in K : s \in S /\ count(s) \in Nat /\ count(s) < MaxStopped
  BY AfterFinite, LimitAssumption DEF LeastRecentlySeen, After
<1>2. IsFiniteSet(K) /\ Cardinality(K) \in Nat
  BY FS_Subset, FS_CardinalityType DEF Seen
<1>3. CASE K = {}
  BY <1>3, FS_EmptySet, LimitAssumption
<1>4. CASE K # {}
  <2> DEFINE T == {MaxStopped - count(s) : s \in K}
  <2>1. T \in SUBSET Nat /\ T # {}
    BY <1>1, <1>4, LimitAssumption
  <2>2. PICK x \in T : \A y \in T : x <= y
    BY <2>1, LeastNatural
  <2>3. PICK m \in K : x = MaxStopped - count(m)
    BY <2>2
  <2>4. \A t \in K : count(t) <= count(m)
    BY <1>1, <2>2, <2>3, LimitAssumption
  <2>5. K \ {m} \subseteq After(r, S, m)
    <3> SUFFICES ASSUME NEW t \in K \ {m} PROVE SeenBefore(r, m, t)
      BY <1>1 DEF After
    <3>1. ~SeenBefore(r, t, m)
      BY <1>1, <2>3, <2>4, AfterShrinks
    <3> QED
      BY <1>1, <2>3, <3>1, SeenBeforeTotal
  <2>6. Cardinality(K \ {m}) <= count(m) /\ Cardinality(K \ {m}) = Cardinality(K) - 1
    BY <1>1, <1>2, <2>3, <2>5, AfterFinite, FS_Subset, FS_RemoveElement
  <2> QED
    BY <1>1, <1>2, <2>3, <2>6, LimitAssumption
<1> QED
  BY <1>3, <1>4

\* ... and never fewer when one had to go, each of them seen no earlier than that one.
LEMMA NoFewerLeft ==
  ASSUME NEW r, NEW S, Seen(r, S), NEW s \in LeastRecentlySeen(r, S)
  PROVE  /\ Cardinality(S \ LeastRecentlySeen(r, S)) >= MaxStopped
         /\ \A t \in S \ LeastRecentlySeen(r, S) : r[t].lastSeen >= r[s].lastSeen
<1> DEFINE L == LeastRecentlySeen(r, S)
           K == S \ L
           count(t) == Cardinality(After(r, S, t))
<1>1. \A t \in S : count(t) \in Nat /\ (t \in L <=> count(t) >= MaxStopped)
  BY AfterFinite DEF LeastRecentlySeen, After
<1>2. L \subseteq S
  BY DEF LeastRecentlySeen
<1>3. \A t \in K : r[t].lastSeen >= r[s].lastSeen
  <2> SUFFICES ASSUME NEW t \in K, ~(r[t].lastSeen >= r[s].lastSeen) PROVE FALSE
    OBVIOUS
  <2>1. SeenBefore(r, t, s)
    <3>1. r[t].lastSeen \in Nat /\ r[s].lastSeen \in Nat
      BY <1>2 DEF Seen
    <3> QED
      BY <3>1 DEF SeenBefore
  <2>2. count(s) < count(t)
    BY <1>2, <2>1, AfterShrinks
  <2> QED
    BY <1>1, <1>2, <2>2, LimitAssumption
<1>4. Cardinality(K) >= MaxStopped
  <2> DEFINE T == {count(t) : t \in L}
  <2>1. T \in SUBSET Nat /\ T # {}
    BY <1>1, <1>2
  <2>2. PICK x \in T : \A y \in T : x <= y
    BY <2>1, LeastNatural
  <2>3. PICK m \in L : x = count(m)
    BY <2>2
  <2>4. After(r, S, m) \subseteq K
    <3> SUFFICES ASSUME NEW t \in After(r, S, m), t \in L PROVE FALSE
      BY <1>2 DEF After
    <3>1. count(t) < count(m)
      BY <1>2, <2>3, AfterShrinks DEF After
    <3>2. count(m) <= count(t)
      BY <2>2, <2>3
    <3> QED
      BY <1>1, <1>2, <2>3, <3>1, <3>2
  <2>5. IsFiniteSet(K) /\ Cardinality(K) \in Nat
    BY FS_Subset, FS_CardinalityType DEF Seen
  <2> QED
    BY <1>1, <1>2, <2>3, <2>4, <2>5, FS_Subset, LimitAssumption
<1> QED
  BY <1>3, <1>4

(***************************************************************************)
(* What a batch leaves of the registry it found.                           *)
(***************************************************************************)
LEMMA StoppedSeen ==
  ASSUME NEW r, RegOK(r), NEW S \in SUBSET StoppedIn(r)
  PROVE  Seen(r, S)
<1>1. S \subseteq Service /\ IsFiniteSet(S) /\ S \subseteq Nat
  BY IdAssumption, FS_Subset DEF StoppedIn
<1>2. \A s \in S : r[s].lastSeen \in Nat
  BY <1>1, LimitAssumption DEF StoppedIn, IsStopped, RegOK, EntryOK, Entry, Time
<1> QED
  BY <1>1, <1>2 DEF Seen

LEMMA BoundAfterEviction ==
  ASSUME NEW r, RegOK(r), NEW at \in Time
  PROVE  LET new == EvictStopped(r, at)
             S   == StoppedIn(r) \ Expired(r, at)
         IN  /\ StoppedIn(new) = S \ LeastRecentlySeen(r, S)
             /\ Cardinality(StoppedIn(new)) <= MaxStopped
             /\ \A s \in StoppedIn(new) :
                  \/ new[s].everListened \/ s \in Container
                  \/ at - new[s].lastSeen <= PortlessRetention
<1> DEFINE new == EvictStopped(r, at)
           S   == StoppedIn(r) \ Expired(r, at)
<1>1. StoppedIn(new) = S \ LeastRecentlySeen(r, S)
  BY EvictStoppedOK DEF StoppedIn, Evicted, IsStopped, Expired
<1>2. Cardinality(StoppedIn(new)) <= MaxStopped
  BY <1>1, StoppedSeen, AtMostMaxStoppedLeft
<1>3. ASSUME NEW s \in StoppedIn(new)
      PROVE  \/ new[s].everListened \/ s \in Container
             \/ at - new[s].lastSeen <= PortlessRetention
  <2>1. s \in Service /\ new[s] = r[s] /\ s \notin Expired(r, at) /\ s \in StoppedIn(r)
    BY <1>1, <1>3, EvictStoppedOK DEF StoppedIn, IsStopped
  <2>2. r[s].lastSeen \in Nat
    BY <2>1, StoppedSeen DEF Seen
  <2> QED
    BY <2>1, <2>2, LimitAssumption DEF Expired, RetainWhenStopped, Time
<1> QED
  BY <1>1, <1>2, <1>3

\* "Retention is bounded", whatever the batches and the clock do.
THEOREM RetentionIsBounded == Spec => []RetentionBounded
<1>1. Init => RetentionBounded
  <2> SUFFICES ASSUME Init PROVE RetentionBounded
    OBVIOUS
  <2>1. StoppedIn(reg) = {}
    BY DEF Init, StoppedIn, IsStopped
  <2> QED
    BY <2>1, FS_EmptySet, LimitAssumption DEF RetentionBounded
<1>2. IInv /\ RetentionBounded /\ [Next]_vars => RetentionBounded'
  <2> SUFFICES ASSUME IInv, RetentionBounded, [Next]_vars PROVE RetentionBounded'
    OBVIOUS
  <2>1. CASE UNCHANGED vars
    BY <2>1 DEF vars, RetentionBounded, StoppedIn, IsStopped, IsRunning
  <2>2. ASSUME NEW batch \in Batches, NEW d \in ClockSteps, now + d \in Time,
               Apply(batch, now + d)
        PROVE  RetentionBounded'
    <3>1. RegOK(Reconciled(batch, now + d))
      BY <2>2, ReconciledOK DEF IInv
    <3>2. reg' = EvictStopped(Reconciled(batch, now + d), now + d) /\ now' = now + d
      BY <2>2 DEF Apply
    <3> QED
      BY <2>2, <3>1, <3>2, BoundAfterEviction DEF RetentionBounded
  <2> QED
    BY <2>1, <2>2 DEF Next
<1> QED
  BY <1>1, <1>2, Invariance, PTL DEF Spec

----------------------------------------------------------------------------
(***************************************************************************)
(* The step of one service, and the action properties that follow from it. *)
(***************************************************************************)
LEMMA StepShape ==
  ASSUME RegOK(reg), NEW batch \in Batches, NEW at \in Time, Apply(batch, at)
  PROVE  /\ RegOK(reg')
         /\ \A s \in DOMAIN batch :
              /\ s \in Service /\ batch[s] \in Folded(s)
              /\ reg'[s] = IF reg[s] = NoEntry THEN Insert(batch[s], at)
                           ELSE Update(s, reg[s], batch[s], at)
              /\ EntryOK(s, reg'[s]) /\ IsRunning(s, reg'[s])
              /\ reg'[s].ports = batch[s].ports
         /\ \A s \in Service \ DOMAIN batch :
              /\ ~IsRunning(s, reg'[s])
              /\ reg'[s] \in {NoEntry, IF IsRunning(s, reg[s]) THEN Stop(reg[s]) ELSE reg[s]}
<1> DEFINE mid == Reconciled(batch, at)
<1>1. RegOK(mid) /\ reg' = EvictStopped(mid, at)
  BY ReconciledOK DEF Apply
<1>2. RegOK(reg')
  BY <1>1, EvictStoppedOK
<1>3. Evicted(mid, at) \subseteq StoppedIn(mid)
  BY DEF Evicted, Expired, LeastRecentlySeen
<1>4. ASSUME NEW s \in DOMAIN batch
      PROVE  /\ s \in Service /\ batch[s] \in Folded(s)
             /\ reg'[s] = IF reg[s] = NoEntry THEN Insert(batch[s], at)
                          ELSE Update(s, reg[s], batch[s], at)
             /\ EntryOK(s, reg'[s]) /\ IsRunning(s, reg'[s])
             /\ reg'[s].ports = batch[s].ports
  <2>1. s \in Service /\ batch[s] \in Folded(s)
    BY BatchShape
  <2>2. mid[s] = IF reg[s] = NoEntry THEN Insert(batch[s], at)
                 ELSE Update(s, reg[s], batch[s], at)
    BY <2>1 DEF Reconciled
  <2>3. /\ EntryOK(s, mid[s]) /\ mid[s].health # "stopped"
        /\ mid[s].ports = batch[s].ports
    <3>1. CASE reg[s] = NoEntry
      <4>1. EntryOK(s, Insert(batch[s], at))
        BY <2>1, InsertOK
      <4> QED
        BY <2>2, <3>1, <4>1 DEF Insert
    <3>2. CASE reg[s] # NoEntry
      <4>1. EntryOK(s, reg[s])
        BY <2>1, <3>2 DEF RegOK
      <4> QED
        BY <2>1, <2>2, <3>2, <4>1, UpdateOK
    <3> QED
      BY <3>1, <3>2
  <2>4. IsRunning(s, mid[s])
    BY <2>3 DEF EntryOK
  <2>5. reg'[s] = mid[s]
    BY <1>1, <1>3, <2>1, <2>4, EvictStoppedOK DEF StoppedIn, IsStopped
  <2> HIDE DEF mid
  <2> QED
    BY <2>1, <2>2, <2>3, <2>4, <2>5
<1>5. ASSUME NEW s \in Service \ DOMAIN batch
      PROVE  /\ ~IsRunning(s, reg'[s])
             /\ reg'[s] \in {NoEntry, IF IsRunning(s, reg[s]) THEN Stop(reg[s]) ELSE reg[s]}
  <2>1. reg'[s] \in {NoEntry, mid[s]}
    BY <1>1, EvictStoppedOK
  <2>2. mid[s] = IF IsRunning(s, reg[s]) THEN Stop(reg[s]) ELSE reg[s]
    BY DEF Reconciled
  <2>3. IsRunning(s, reg[s]) => ~IsRunning(s, Stop(reg[s]))
    BY StopOK DEF RegOK, EntryOK, IsRunning
  <2> QED
    BY <2>1, <2>2, <2>3 DEF IsRunning
<1> QED
  BY <1>2, <1>4, <1>5

\* One call of apply: what the delta says is what happened to the registry.
LEMMA DeltaStep ==
  ASSUME IInv, NEW batch \in Batches, NEW at \in Time, Apply(batch, at)
  PROVE  FollowsFromDelta
<1>1. RegOK(reg) /\ delta' = Changes(reg, batch, reg')
  BY DEF IInv, Apply
<1>2. /\ delta'.started = DOMAIN batch \ Running(reg)
      /\ delta'.stopped = Running(reg) \ DOMAIN batch
      /\ delta'.restarted = {s \in DOMAIN batch : InPlaceRestart(s, reg[s], batch[s])}
      /\ delta'.evicted = Held(reg) \ Held(reg')
      /\ DOMAIN delta'.projects = Held(reg')
  BY <1>1 DEF Changes
<1>3. /\ \A s \in DOMAIN batch : s \in Service /\ s \in Held(reg') /\ s \in Running(reg')
      /\ \A s \in Service \ DOMAIN batch : s \notin Running(reg')
      /\ \A s \in Held(reg') : s \in DOMAIN batch \/ s \in Held(reg)
      /\ \A s \in Running(reg) : s \in Held(reg)
  BY <1>1, StepShape DEF Held, Running, IsRunning
<1>4. Held(reg') = (Held(reg) \cup delta'.started) \ delta'.evicted
  BY <1>2, <1>3
<1>5. Running(reg') = (Running(reg) \ delta'.stopped) \cup delta'.started
  BY <1>2, <1>3 DEF Running
<1>6. OpenPorts(reg') = (OpenPorts(reg) \ delta'.portsClosed) \cup delta'.portsOpened
  <2>1. /\ delta'.portsOpened =
             {c \in (DOMAIN batch) \X Port : c[2] \in batch[c[1]].ports \ PortsIn(reg[c[1]])}
        /\ delta'.portsClosed =
             {c \in (DOMAIN batch \cup Running(reg)) \X Port :
                c[2] \in PortsIn(reg[c[1]]) \
                         (IF c[1] \in DOMAIN batch THEN batch[c[1]].ports ELSE {})}
        /\ delta'.stopped = Running(reg) \ DOMAIN batch
    BY <1>1 DEF Changes, PortsClosed
  <2>2. \A s \in DOMAIN batch : s \in Service /\ PortsIn(reg'[s]) = batch[s].ports
    BY <1>1, StepShape DEF PortsIn, IsRunning
  <2>3. \A s \in Service \ DOMAIN batch :
           PortsIn(reg'[s]) = {} /\ (s \notin delta'.stopped => PortsIn(reg[s]) = {})
    <3> SUFFICES ASSUME NEW s \in Service \ DOMAIN batch
                 PROVE  PortsIn(reg'[s]) = {} /\ (s \notin delta'.stopped => PortsIn(reg[s]) = {})
      OBVIOUS
    <3>1. ~IsRunning(s, reg'[s]) /\ RegOK(reg')
      BY <1>1, StepShape
    <3>2. s \notin delta'.stopped => ~IsRunning(s, reg[s])
      BY <1>2 DEF Running
    <3> QED
      BY <1>1, <3>1, <3>2 DEF RegOK, EntryOK, PortsIn
  <2>4. ASSUME NEW s \in Service, NEW p \in Port
        PROVE  p \in PortsIn(reg'[s]) <=>
                 \/ p \in PortsIn(reg[s]) /\ <<s, p>> \notin delta'.portsClosed
                 \/ <<s, p>> \in delta'.portsOpened
    <3>1. <<s, p>> \in delta'.portsOpened <=>
            s \in DOMAIN batch /\ p \in batch[s].ports /\ p \notin PortsIn(reg[s])
      BY <2>1
    <3>2. <<s, p>> \in delta'.portsClosed <=>
            /\ s \in DOMAIN batch \cup delta'.stopped
            /\ p \in PortsIn(reg[s])
            /\ s \in DOMAIN batch => p \notin batch[s].ports
      BY <2>1
    <3> QED
      BY <2>2, <2>3, <3>1, <3>2
  <2>5. delta'.portsOpened \subseteq Service \X Port
    <3>1. delta'.portsOpened \subseteq (DOMAIN batch) \X Port
      BY <2>1
    <3>2. DOMAIN batch \in SUBSET Service
      BY <2>2
    <3>3. (DOMAIN batch) \X Port \subseteq Service \X Port
      BY <3>2
    <3> QED
      BY <3>1, <3>3
  <2> QED
    BY <2>4, <2>5 DEF OpenPorts
<1>7. ASSUME NEW s \in Held(reg) \cap Held(reg')
      PROVE  /\ reg'[s].health # reg[s].health
                  => <<s, reg[s].health, reg'[s].health>> \in delta'.healthChanged
             /\ reg'[s].restartCount # reg[s].restartCount
                  => s \in delta'.started \cup delta'.restarted
             /\ s \in delta'.started \cup delta'.restarted
                  => reg'[s].restartCount \in {reg[s].restartCount + 1, MaxRestartCount}
  <2>1. s \in Service /\ reg[s] # NoEntry /\ reg'[s] # NoEntry
    BY <1>7 DEF Held
  <2>2. EntryOK(s, reg[s]) /\ EntryOK(s, reg'[s])
    BY <1>1, <2>1, StepShape DEF RegOK
  <2>3. delta'.healthChanged =
          {c \in (DOMAIN batch \cup delta'.stopped) \X Health \X Health :
             /\ reg[c[1]] # NoEntry /\ reg[c[1]].health = c[2]
             /\ (IF c[1] \in DOMAIN batch THEN reg'[c[1]].health ELSE "stopped") = c[3]
             /\ c[2] # c[3]}
    BY <1>1 DEF Changes
  <2>4. reg[s].health \in Health /\ reg'[s].health \in Health
    BY <2>2 DEF EntryOK, Entry
  <2>5. CASE s \in DOMAIN batch
    <3>1. reg'[s] = Update(s, reg[s], batch[s], at) /\ batch[s] \in Folded(s)
      BY <1>1, <2>1, <2>5, StepShape
    <3>2. IF InPlaceRestart(s, reg[s], batch[s]) \/ ~IsRunning(s, reg[s])
          THEN reg'[s].restartCount \in {reg[s].restartCount + 1, MaxRestartCount}
          ELSE reg'[s].restartCount = reg[s].restartCount
      BY <2>1, <2>2, <3>1, UpdateOK
    <3>3. s \in delta'.started \cup delta'.restarted
            <=> InPlaceRestart(s, reg[s], batch[s]) \/ ~IsRunning(s, reg[s])
      BY <1>2, <2>1, <2>5 DEF Running
    <3>4. reg'[s].health # reg[s].health
            => <<s, reg[s].health, reg'[s].health>> \in delta'.healthChanged
      BY <2>1, <2>3, <2>4, <2>5
    <3> QED
      BY <3>2, <3>3, <3>4
  <2>6. CASE s \notin DOMAIN batch
    <3>1. reg'[s] = IF IsRunning(s, reg[s]) THEN Stop(reg[s]) ELSE reg[s]
      BY <1>1, <2>1, <2>6, StepShape
    <3>2. reg'[s].restartCount = reg[s].restartCount
      BY <2>1, <2>2, <3>1, StopOK
    <3>3. s \notin delta'.started \cup delta'.restarted
      BY <1>2, <2>6
    <3>4. reg'[s].health # reg[s].health => s \in delta'.stopped /\ reg'[s].health = "stopped"
      BY <1>2, <2>1, <2>2, <2>6, <3>1, StopOK DEF Running
    <3>5. reg'[s].health # reg[s].health
            => <<s, reg[s].health, reg'[s].health>> \in delta'.healthChanged
      BY <2>1, <2>3, <2>4, <2>6, <3>4
    <3> QED
      BY <3>2, <3>3, <3>5
  <2> QED
    BY <2>5, <2>6
<1> QED
  BY <1>2, <1>4, <1>5, <1>6, <1>7 DEF FollowsFromDelta

\* A consumer that follows nothing but the deltas knows which services are held and running,
\* their ports and health, and every restart that was counted.
THEOREM DeltasSuffice == Spec => DeltaReplays
<1>1. IInv /\ [Next]_vars => [FollowsFromDelta]_vars
  BY DeltaStep DEF Next
<1> QED
  BY <1>1, Invariance, PTL DEF Spec, DeltaReplays

\* A dead listener or container is forgotten only for MaxStopped others seen no earlier.
THEOREM OutagesSurvive == Spec => OutagesAreKept
<1> DEFINE Kept ==
      \A s \in Held(reg) \ Held(reg') :
        /\ s \notin delta'.started \cup delta'.restarted
        /\ reg[s].everListened \/ s \in Container =>
             /\ Cardinality(StoppedIn(reg')) >= MaxStopped
             /\ \A t \in StoppedIn(reg') : reg'[t].lastSeen >= reg[s].lastSeen
<1>1. ASSUME IInv, NEW batch \in Batches, NEW at \in Time, Apply(batch, at),
             NEW s \in Held(reg) \ Held(reg')
      PROVE  /\ s \notin delta'.started \cup delta'.restarted
             /\ reg[s].everListened \/ s \in Container =>
                  /\ Cardinality(StoppedIn(reg')) >= MaxStopped
                  /\ \A t \in StoppedIn(reg') : reg'[t].lastSeen >= reg[s].lastSeen
  <2> DEFINE mid == Reconciled(batch, at)
             S   == StoppedIn(mid) \ Expired(mid, at)
  <2>1. RegOK(reg) /\ RegOK(mid) /\ reg' = EvictStopped(mid, at)
    BY <1>1, ReconciledOK DEF IInv, Apply
  <2>2. s \in Service /\ reg[s] # NoEntry /\ reg'[s] = NoEntry
    BY DEF Held
  <2>3. s \notin DOMAIN batch
    BY <1>1, <2>1, <2>2, StepShape DEF IsRunning
  <2>4. s \notin delta'.started \cup delta'.restarted
    BY <1>1, <2>3 DEF Apply, Changes
  <2>5. mid[s] = IF IsRunning(s, reg[s]) THEN Stop(reg[s]) ELSE reg[s]
    BY <2>2, <2>3 DEF Reconciled
  <2>6. mid[s] # NoEntry /\ mid[s].lastSeen = reg[s].lastSeen
        /\ mid[s].everListened = reg[s].everListened
    BY <2>1, <2>2, <2>5, StopOK, NoEntryAssumption DEF RegOK, EntryOK
  <2>7. s \in Evicted(mid, at)
    BY <2>1, <2>2, <2>6, EvictStoppedOK
  <2>8. ASSUME reg[s].everListened \/ s \in Container
        PROVE  /\ Cardinality(StoppedIn(reg')) >= MaxStopped
               /\ \A t \in StoppedIn(reg') : reg'[t].lastSeen >= reg[s].lastSeen
    <3>1. s \in LeastRecentlySeen(mid, S)
      BY <2>6, <2>7, <2>8 DEF Evicted, Expired, RetainWhenStopped
    <3>2. Seen(mid, S)
      BY <2>1, StoppedSeen
    <3>3. StoppedIn(reg') = S \ LeastRecentlySeen(mid, S)
      BY <1>1, <2>1, BoundAfterEviction
    <3>4. \A t \in StoppedIn(reg') : reg'[t] = mid[t]
      BY <2>1, EvictStoppedOK DEF StoppedIn, IsStopped
    <3> HIDE DEF mid, S
    <3> QED
      BY <2>6, <3>1, <3>2, <3>3, <3>4, NoFewerLeft
  <2> QED
    BY <2>4, <2>8
<1>2. IInv /\ [Next]_vars => [Kept]_vars
  BY <1>1 DEF Next
<1>3. OutagesAreKept <=> [][Kept]_vars
  BY DEF OutagesAreKept
<1> HIDE DEF Kept
<1> QED
  BY <1>2, <1>3, Invariance, PTL DEF Spec
=============================================================================
