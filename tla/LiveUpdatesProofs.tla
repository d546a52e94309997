------------------------- MODULE LiveUpdatesProofs -------------------------
(***************************************************************************)
(* Proofs about LiveUpdates, for every value of its constants.             *)
(*                                                                         *)
(* The argument: what is on its way to a client is split into the frame    *)
(* not yet broadcast, the receiver's queue and the wire.  The first two    *)
(* are always right about the services they mention (OutboxIsRight,        *)
(* QueueIsRight), so a snapshot may be put into the wire behind older      *)
(* frames and before newer ones without harm.                              *)
(***************************************************************************)
EXTENDS LiveUpdates, ServiceRegistryProofs

----------------------------------------------------------------------------
(***************************************************************************)
(* The last mention of a service in a sequence of frames.                  *)
(***************************************************************************)
LEMMA LastMention ==
  ASSUME NEW F, NEW q \in Seq(F), NEW s, Mentions(q, s) # {}
  PROVE  \E i \in Mentions(q, s) : \A j \in Mentions(q, s) : j <= i
<1> DEFINE T == {Len(q) - i : i \in Mentions(q, s)}
<1>1. Mentions(q, s) \subseteq 1..Len(q) /\ Len(q) \in Nat
  BY DEF Mentions
<1>2. T \in SUBSET Nat /\ T # {}
  BY <1>1
<1>3. PICK x \in T : \A y \in T : x <= y
  BY <1>2, LeastNatural
<1>4. PICK i \in Mentions(q, s) : x = Len(q) - i
  OBVIOUS
<1>5. ASSUME NEW j \in Mentions(q, s) PROVE j <= i
  <2>1. x <= Len(q) - j
    BY <1>3
  <2> QED
    BY <1>1, <1>4, <2>1
<1> QED
  BY <1>5

LEMMA LastIs ==
  ASSUME NEW F, NEW q \in Seq(F), NEW s, NEW v,
         NEW i \in Mentions(q, s), \A j \in Mentions(q, s) : j <= i
  PROVE  Last(q, s, v) = q[i][s]
<1> DEFINE k == CHOOSE k \in Mentions(q, s) : \A j \in Mentions(q, s) : j <= k
<1>1. k \in Mentions(q, s) /\ \A j \in Mentions(q, s) : j <= k
  OBVIOUS
<1>2. k <= i /\ i <= k /\ k \in Nat /\ i \in Nat
  BY <1>1 DEF Mentions
<1>3. k = i
  BY <1>2
<1> QED
  BY <1>3 DEF Last

LEMMA LastAppend ==
  ASSUME NEW F, NEW q \in Seq(F), NEW f \in F, NEW s, NEW v
  PROVE  Last(Append(q, f), s, v) = Over(f, s, Last(q, s, v))
<1> DEFINE r == Append(q, f)
<1>1. /\ r \in Seq(F) /\ Len(r) = Len(q) + 1 /\ r[Len(q) + 1] = f
      /\ \A i \in 1..Len(q) : r[i] = q[i]
      /\ DOMAIN r = 1..(Len(q) + 1) /\ DOMAIN q = 1..Len(q) /\ Len(q) \in Nat
  OBVIOUS
<1>2. CASE s \in DOMAIN f
  <2>1. Len(q) + 1 \in Mentions(r, s) /\ \A j \in Mentions(r, s) : j <= Len(q) + 1
    BY <1>1, <1>2 DEF Mentions
  <2> HIDE DEF r
  <2>2. Last(r, s, v) = r[Len(q) + 1][s]
    BY <1>1, <2>1, LastIs
  <2> QED
    BY <1>1, <1>2, <2>2 DEF Over, r
<1>3. CASE s \notin DOMAIN f
  <2>1. Mentions(r, s) = Mentions(q, s)
    BY <1>1, <1>3 DEF Mentions
  <2> HIDE DEF r
  <2>2. CASE Mentions(q, s) = {}
    BY <1>3, <2>1, <2>2 DEF Last, Over, r
  <2>3. CASE Mentions(q, s) # {}
    <3>1. PICK i \in Mentions(q, s) : \A j \in Mentions(q, s) : j <= i
      BY <2>3, LastMention
    <3>2. Last(q, s, v) = q[i][s]
      BY <3>1, LastIs
    <3>3. Last(r, s, v) = r[i][s]
      <4>1. r \in Seq(F)
        BY <1>1
      <4>2. i \in Mentions(r, s) /\ \A j \in Mentions(r, s) : j <= i
        BY <2>1, <3>1
      <4> QED
        BY <4>1, <4>2, LastIs
    <3>4. i \in 1..Len(q)
      BY <1>1 DEF Mentions
    <3> QED
      BY <1>1, <1>3, <3>2, <3>3, <3>4 DEF Over, r
  <2> QED
    BY <2>2, <2>3
<1> QED
  BY <1>2, <1>3

LEMMA LastTail ==
  ASSUME NEW F, NEW q \in Seq(F), q # <<>>, NEW s, NEW v
  PROVE  Last(q, s, v) = Last(Tail(q), s, Over(Head(q), s, v))
<1> DEFINE r == Tail(q)
<1>1. /\ r \in Seq(F) /\ Len(q) \in Nat /\ Len(r) = Len(q) - 1 /\ Len(q) >= 1
      /\ \A i \in 1..(Len(q) - 1) : r[i] = q[i + 1]
      /\ DOMAIN r = 1..(Len(q) - 1) /\ DOMAIN q = 1..Len(q) /\ Head(q) = q[1]
  OBVIOUS
<1> HIDE DEF r
<1>2. \A i \in Mentions(r, s) : i \in Nat /\ i + 1 \in Mentions(q, s)
  BY <1>1 DEF Mentions
<1>3. \A i \in Mentions(q, s) : i \in Nat /\ (i = 1 \/ i - 1 \in Mentions(r, s))
  BY <1>1 DEF Mentions
<1>4. CASE Mentions(r, s) = {} /\ s \in DOMAIN q[1]
  <2>1. 1 \in Mentions(q, s) /\ \A j \in Mentions(q, s) : j <= 1
    BY <1>1, <1>3, <1>4 DEF Mentions
  <2>2. Last(q, s, v) = q[1][s]
    BY <2>1, LastIs
  <2> QED
    BY <1>1, <1>4, <2>2 DEF Last, Over, r
<1>5. CASE Mentions(r, s) = {} /\ s \notin DOMAIN q[1]
  <2>1. Mentions(q, s) = {}
    BY <1>3, <1>5 DEF Mentions
  <2> QED
    BY <1>1, <1>5, <2>1 DEF Last, Over, r
<1>6. CASE Mentions(r, s) # {}
  <2>1. PICK i \in Mentions(r, s) : \A j \in Mentions(r, s) : j <= i
    BY <1>1, <1>6, LastMention
  <2>2. Last(r, s, Over(Head(q), s, v)) = r[i][s]
    <3> DEFINE w == Over(Head(q), s, v)
    <3> HIDE DEF w
    <3>1. r \in Seq(F)
      BY <1>1
    <3>2. Last(r, s, w) = r[i][s]
      BY <2>1, <3>1, LastIs
    <3> QED
      BY <3>2 DEF w
  <2>3. i + 1 \in Mentions(q, s) /\ \A j \in Mentions(q, s) : j <= i + 1
    BY <1>2, <1>3, <2>1
  <2>4. Last(q, s, v) = q[i + 1][s]
    BY <2>3, LastIs
  <2>5. r[i] = q[i + 1]
    BY <1>1, <2>1 DEF Mentions
  <2> QED
    BY <2>2, <2>4, <2>5 DEF r
<1> QED
  BY <1>4, <1>5, <1>6

LEMMA LastOfNone ==
  ASSUME NEW s, NEW v
  PROVE  Last(<<>>, s, v) = v /\ Mentions(<<>>, s) = {}
BY DEF Last, Mentions

\* A mention makes what was held before irrelevant.
LEMMA LastIfMentioned ==
  ASSUME NEW q, NEW s, NEW v, NEW w
  PROVE  /\ Mentions(q, s) # {} => Last(q, s, v) = Last(q, s, w)
         /\ Mentions(q, s) = {} => Last(q, s, v) = v
BY DEF Last

----------------------------------------------------------------------------
(***************************************************************************)
(* What a tick does to the view.                                           *)
(***************************************************************************)
LEMMA ViewType ==
  ASSUME NEW r, RegOK(r)
  PROVE  ViewOf(r) \in [Service -> MaybeDto] /\ ViewOf(r) \in Frames
<1>1. ASSUME NEW s \in Service PROVE Dto(r[s]) \in MaybeDto
  BY DEF RegOK, EntryOK, Entry, Dto, Dtos, MaybeDto
<1>2. ViewOf(r) \in [Service -> MaybeDto]
  BY <1>1 DEF ViewOf
<1> QED
  BY <1>2 DEF Frames

LEMMA TickFrameType ==
  ASSUME NEW d \in Changed, NEW r, RegOK(r)
  PROVE  /\ TickFrame(d, ViewOf(r)) \in Frames
         /\ DOMAIN TickFrame(d, ViewOf(r)) \subseteq Service
<1> DEFINE S == ChangedServices(d) \cup d.evicted
<1>1. S \in SUBSET Service
  BY DEF Changed, ChangedServices
<1>2. ViewOf(r) \in [Service -> MaybeDto]
  BY ViewType
<1>3. TickFrame(d, ViewOf(r)) \in [S -> MaybeDto]
  BY <1>1, <1>2 DEF TickFrame
<1> QED
  BY <1>1, <1>3 DEF Frames

\* A service no frame mentions after a tick is what it was before, as far as frames tell.
LEMMA QuietIsSame ==
  ASSUME IInv, NEW batch \in Batches, NEW at \in Time, Apply(batch, at), NEW s \in Service,
         s \notin ChangedServices(delta') \cup delta'.evicted
  PROVE  Told(ViewOf(reg')[s]) = Told(ViewOf(reg)[s])
<1>1. FollowsFromDelta
  BY DeltaStep
<1>2. RegOK(reg) /\ RegOK(reg')
  BY StepShape DEF IInv
<1>3. /\ s \notin delta'.started /\ s \notin delta'.restarted /\ s \notin delta'.evicted
      /\ \A c \in delta'.portsOpened \cup delta'.portsClosed \cup delta'.healthChanged : c[1] # s
  BY DEF ChangedServices
<1>4. reg[s] = NoEntry <=> reg'[s] = NoEntry
  BY <1>1, <1>3 DEF FollowsFromDelta, Held
<1>5. CASE reg[s] = NoEntry
  BY <1>4, <1>5 DEF ViewOf, Dto
<1>6. CASE reg[s] # NoEntry
  <2>1. reg'[s] # NoEntry /\ s \in Held(reg) \cap Held(reg')
    BY <1>4, <1>6 DEF Held
  <2>2. reg'[s].health = reg[s].health
    <3>1. <<s, reg[s].health, reg'[s].health>> \notin delta'.healthChanged
      BY <1>3
    <3> QED
      BY <1>1, <2>1, <3>1 DEF FollowsFromDelta
  <2>3. reg'[s].restartCount = reg[s].restartCount
    BY <1>1, <1>3, <2>1 DEF FollowsFromDelta
  <2>4. reg[s].ports \subseteq Port /\ reg'[s].ports \subseteq Port
    BY <1>2, <1>6, <2>1 DEF RegOK, EntryOK, Entry
  <2>5. ASSUME NEW p \in Port PROVE p \in reg'[s].ports <=> p \in reg[s].ports
    <3>1. <<s, p>> \notin delta'.portsOpened /\ <<s, p>> \notin delta'.portsClosed
      BY <1>3
    <3>2. <<s, p>> \in OpenPorts(reg') <=> <<s, p>> \in OpenPorts(reg)
      BY <1>1, <3>1 DEF FollowsFromDelta
    <3>3. /\ <<s, p>> \in OpenPorts(reg) <=> p \in reg[s].ports
          /\ <<s, p>> \in OpenPorts(reg') <=> p \in reg'[s].ports
      BY <1>6, <2>1 DEF OpenPorts, PortsIn
    <3> QED
      BY <3>2, <3>3
  <2>6. reg'[s].ports = reg[s].ports
    BY <2>4, <2>5
  <2>7. /\ ViewOf(reg)[s].health = reg[s].health /\ ViewOf(reg')[s].health = reg'[s].health
        /\ ViewOf(reg)[s].ports = reg[s].ports /\ ViewOf(reg')[s].ports = reg'[s].ports
        /\ ViewOf(reg)[s].restartCount = reg[s].restartCount
        /\ ViewOf(reg')[s].restartCount = reg'[s].restartCount
    BY <1>6, <2>1 DEF ViewOf, Dto
  <2>8. ViewOf(reg)[s] # NoEntry /\ ViewOf(reg')[s] # NoEntry
    <3>1. Dto(reg[s]) \in Dtos /\ Dto(reg'[s]) \in Dtos
      BY <1>2, <1>6, <2>1 DEF RegOK, EntryOK, Entry, Dto, Dtos
    <3> QED
      BY <3>1, DtoAssumption DEF ViewOf
  <2> QED
    BY <2>2, <2>3, <2>6, <2>7, <2>8 DEF Told
<1> QED
  BY <1>5, <1>6

----------------------------------------------------------------------------
(***************************************************************************)
(* The inductive invariant.                                                *)
(***************************************************************************)
\* The frame not yet broadcast is about the current view.
OutboxIsRight ==
  \A s \in DOMAIN outbox : s \in Service /\ Told(outbox[s]) = Told(View[s])

\* So is the last frame of the queue that mentions a service, unless the outbox does too.
QueueIsRight ==
  Attached /\ ~lagged =>
    \A s \in Service :
      Mentions(queue, s) # {} /\ s \notin DOMAIN outbox
        => Told(Last(queue, s, NoEntry)) = Told(View[s])

LiveInv == IInv /\ LiveTypeOK /\ OutboxIsRight /\ QueueIsRight /\ LastWordIsRight

\* A snapshot behind whatever the queue still holds is enough.
LEMMA SnapshotIsEnough ==
  ASSUME OutboxIsRight, QueueIsRight, Attached, ~lagged, NEW s \in Service
  PROVE  Told(Over(outbox, s, Last(queue, s, View[s]))) = Told(View[s])
<1>1. CASE s \in DOMAIN outbox
  BY <1>1 DEF OutboxIsRight, Over
<1>2. CASE s \notin DOMAIN outbox /\ Mentions(queue, s) # {}
  <2>1. Last(queue, s, View[s]) = Last(queue, s, NoEntry)
    BY <1>2, LastIfMentioned
  <2> QED
    BY <1>2, <2>1 DEF QueueIsRight, Over
<1>3. CASE s \notin DOMAIN outbox /\ Mentions(queue, s) = {}
  BY <1>3, LastIfMentioned DEF Over
<1> QED
  BY <1>1, <1>2, <1>3

LEMMA LiveInitially == LiveInit => LiveInv
<1> SUFFICES ASSUME LiveInit PROVE LiveInv
  OBVIOUS
<1>1. IInv
  BY Initially DEF LiveInit
<1>2. NoFrame \in Frames /\ DOMAIN NoFrame = {}
  BY DEF NoFrame, Frames
<1>3. LiveTypeOK
  <2>1. <<>> \in Seq(Frames) /\ Len(<<>>) = 0
    OBVIOUS
  <2>2. shown \in [Service -> MaybeDto]
    BY DEF LiveInit, MaybeDto
  <2>3. queue = <<>> /\ wire = <<>> /\ outbox = NoFrame /\ faults = 0 /\ conn = "down"
        /\ lagged = FALSE /\ asked = FALSE
    BY DEF LiveInit
  <2>4. 0 <= QueueCapacity /\ 0 <= WireCapacity /\ 0 \in 0..MaxFaults
    BY CapacityAssumption
  <2> QED
    BY <1>2, <2>1, <2>2, <2>3, <2>4 DEF LiveTypeOK
<1> QED
  BY <1>1, <1>2, <1>3 DEF LiveInit, LiveInv, OutboxIsRight, QueueIsRight, LastWordIsRight, Attached

LEMMA ApplyTickOK ==
  ASSUME LiveInv, NEW batch \in Batches, NEW at \in Time, ApplyTick(batch, at)
  PROVE  LiveInv'
<1> DEFINE frame == TickFrame(delta', ViewOf(reg'))
<1>1. Apply(batch, at) /\ outbox = NoFrame /\ outbox' = frame /\ UNCHANGED <<clientVars, faults>>
  BY DEF ApplyTick
<1>2. IInv' /\ RegOK(reg') /\ delta' \in Changed
  <2>1. RegOK(reg')
    BY <1>1, StepShape DEF LiveInv, IInv
  <2>2. delta' \in Changed
    BY <1>1, <2>1, ChangesType DEF Apply
  <2> QED
    BY <1>1, <2>1, <2>2 DEF Apply, IInv
<1>3. frame \in Frames /\ DOMAIN frame \subseteq Service
  BY <1>2, TickFrameType
<1>4. \A s \in DOMAIN frame : frame[s] = View'[s]
  BY DEF TickFrame, View
<1>5. ASSUME NEW s \in Service, s \notin DOMAIN frame PROVE Told(View'[s]) = Told(View[s])
  <2>1. s \notin ChangedServices(delta') \cup delta'.evicted
    BY <1>5 DEF TickFrame
  <2> QED
    BY <1>1, <2>1, QuietIsSame DEF LiveInv, View
<1> HIDE DEF frame
<1>6. LiveTypeOK'
  BY <1>1, <1>3 DEF LiveInv, LiveTypeOK, clientVars
<1>7. OutboxIsRight'
  BY <1>1, <1>3, <1>4 DEF OutboxIsRight
<1>8. DOMAIN outbox = {}
  BY <1>1 DEF NoFrame
<1>9. QueueIsRight'
  BY <1>1, <1>5, <1>8 DEF LiveInv, QueueIsRight, Attached, clientVars
<1>10. LastWordIsRight'
  <2> SUFFICES ASSUME conn \in {"greeting", "live"}, ~lagged, NEW s \in Service
               PROVE  LET held == Last(queue, s, Last(wire, s, shown[s]))
                      IN  Told(Over(outbox', s, held)) = Told(View'[s])
    BY <1>1 DEF LastWordIsRight, clientVars
  <2>1. Told(Last(queue, s, Last(wire, s, shown[s]))) = Told(View[s])
    BY <1>8 DEF LiveInv, LastWordIsRight, Over
  <2> QED
    BY <1>1, <1>4, <1>5, <2>1 DEF Over
<1> QED
  BY <1>2, <1>6, <1>7, <1>9, <1>10 DEF LiveInv

LEMMA PublishOK ==
  ASSUME LiveInv, Publish
  PROVE  LiveInv'
<1>1. /\ outbox' = NoFrame /\ UNCHANGED <<vars, conn, asked, wire, shown, faults>>
      /\ lagged' = (lagged \/ (Attached /\ Len(queue) = QueueCapacity))
      /\ queue' = IF ~Attached THEN queue ELSE IF lagged' THEN <<>> ELSE Append(queue, outbox)
  BY DEF Publish
<1>2. IInv' /\ View' = View /\ Attached' = Attached /\ DOMAIN outbox' = {}
  BY <1>1 DEF LiveInv, IInv, RegOK, EntryOK, IsRunning, vars, View, ViewOf, Dto, Attached, NoFrame
<1>3. outbox \in Frames /\ queue \in Seq(Frames)
  BY DEF LiveInv, LiveTypeOK
<1>4. LiveTypeOK'
  <2>1. queue' \in Seq(Frames) /\ Len(queue') <= QueueCapacity
    <3>1. CASE ~Attached
      BY <1>1, <3>1 DEF LiveInv, LiveTypeOK
    <3>2. CASE Attached /\ lagged'
      BY <1>1, <3>2, CapacityAssumption
    <3>3. CASE Attached /\ ~lagged'
      <4>1. queue' = Append(queue, outbox) /\ Len(queue) # QueueCapacity
        BY <1>1, <3>3
      <4> QED
        BY <1>3, <4>1, CapacityAssumption DEF LiveInv, LiveTypeOK
    <3> QED
      BY <3>1, <3>2, <3>3
  <2>2. NoFrame \in Frames
    BY DEF NoFrame, Frames
  <2> QED
    BY <1>1, <2>1, <2>2 DEF LiveInv, LiveTypeOK
<1>5. OutboxIsRight'
  BY <1>2 DEF OutboxIsRight
<1>6. ASSUME Attached, ~lagged', NEW s \in Service, NEW v
      PROVE  /\ ~lagged /\ queue' = Append(queue, outbox)
             /\ Last(queue', s, v) = Over(outbox, s, Last(queue, s, v))
  <2>1. ~lagged /\ queue' = Append(queue, outbox)
    BY <1>1, <1>6 DEF LiveInv, LiveTypeOK
  <2> QED
    BY <1>3, <2>1, LastAppend
<1>7. QueueIsRight'
  <2> SUFFICES ASSUME Attached, ~lagged', NEW s \in Service, Mentions(queue', s) # {}
               PROVE  Told(Last(queue', s, NoEntry)) = Told(View[s])
    BY <1>2 DEF QueueIsRight
  <2>1. Last(queue', s, NoEntry) = Last(queue', s, View[s])
    BY LastIfMentioned
  <2>2. Last(queue', s, View[s]) = Over(outbox, s, Last(queue, s, View[s])) /\ ~lagged
    BY <1>6
  <2>3. OutboxIsRight /\ QueueIsRight
    BY DEF LiveInv
  <2> QED
    BY <2>1, <2>2, <2>3, SnapshotIsEnough
<1>8. LastWordIsRight'
  <2> SUFFICES ASSUME conn \in {"greeting", "live"}, ~lagged', NEW s \in Service
               PROVE  Told(Last(queue', s, Last(wire, s, shown[s]))) = Told(View[s])
    BY <1>1, <1>2 DEF LastWordIsRight, Over
  <2>1. Attached
    BY DEF Attached
  <2> QED
    BY <1>6, <2>1 DEF LiveInv, LastWordIsRight
<1> QED
  BY <1>2, <1>4, <1>5, <1>7, <1>8 DEF LiveInv

\* Steps of the socket and the dashboard leave the registry, so the view, alone.
LEMMA ViewKept ==
  ASSUME LiveInv, UNCHANGED vars
  PROVE  IInv' /\ View' = View
BY DEF LiveInv, IInv, RegOK, EntryOK, IsRunning, vars, View, ViewOf, Dto

LEMMA SnapshotOK ==
  ASSUME LiveInv, SendSnapshot \/ AnswerResnapshot
  PROVE  LiveInv'
<1>1. /\ Attached /\ conn' \in {"greeting", "live"} /\ HasRoom /\ wire' = Append(wire, View)
      /\ UNCHANGED <<vars, outbox, queue, lagged, shown, faults>> /\ asked' \in {asked, FALSE}
  BY DEF SendSnapshot, AnswerResnapshot, Attached
<1>2. IInv' /\ View' = View
  BY <1>1, ViewKept
<1>3. View \in Frames /\ wire \in Seq(Frames)
  BY ViewType DEF LiveInv, IInv, LiveTypeOK, View
<1>4. LiveTypeOK'
  <2>1. wire' \in Seq(Frames) /\ Len(wire') <= WireCapacity
    BY <1>1, <1>3, CapacityAssumption DEF HasRoom
  <2> QED
    BY <1>1, <2>1 DEF LiveInv, LiveTypeOK
<1>5. OutboxIsRight' /\ QueueIsRight'
  BY <1>1, <1>2 DEF LiveInv, OutboxIsRight, QueueIsRight, Attached
<1>6. LastWordIsRight'
  <2> SUFFICES ASSUME ~lagged, NEW s \in Service
               PROVE  Told(Over(outbox, s, Last(queue, s, Last(wire', s, shown[s])))) = Told(View[s])
    BY <1>1, <1>2 DEF LastWordIsRight
  <2>1. Last(wire', s, shown[s]) = Over(View, s, Last(wire, s, shown[s]))
    BY <1>1, <1>3, LastAppend
  <2>2. Last(wire', s, shown[s]) = View[s]
    BY <2>1 DEF Over, View, ViewOf
  <2> QED
    BY <1>1, <2>2, SnapshotIsEnough DEF LiveInv
<1> QED
  BY <1>2, <1>4, <1>5, <1>6 DEF LiveInv

LEMMA ForwardOK ==
  ASSUME LiveInv, Forward
  PROVE  LiveInv'
<1>1. /\ conn = "live" /\ ~lagged /\ queue # <<>> /\ HasRoom
      /\ wire' = Append(wire, Head(queue)) /\ queue' = Tail(queue)
      /\ UNCHANGED <<vars, outbox, conn, lagged, asked, shown, faults>>
  BY DEF Forward
<1>2. IInv' /\ View' = View
  BY <1>1, ViewKept
<1>3. /\ queue \in Seq(Frames) /\ wire \in Seq(Frames) /\ Head(queue) \in Frames
      /\ queue' \in Seq(Frames) /\ Len(queue') <= QueueCapacity
      /\ wire' \in Seq(Frames) /\ Len(wire') <= WireCapacity
  BY <1>1, CapacityAssumption DEF LiveInv, LiveTypeOK, HasRoom
<1>4. LiveTypeOK'
  BY <1>1, <1>3 DEF LiveInv, LiveTypeOK
<1>5. OutboxIsRight'
  BY <1>1, <1>2 DEF LiveInv, OutboxIsRight
<1>6. ASSUME NEW s, NEW v
      PROVE  Last(queue, s, v) = Last(queue', s, Over(Head(queue), s, v))
  BY <1>1, <1>3, LastTail
<1>7. QueueIsRight'
  <2> SUFFICES ASSUME NEW s \in Service, Mentions(queue', s) # {}, s \notin DOMAIN outbox
               PROVE  Told(Last(queue', s, NoEntry)) = Told(View[s])
    BY <1>1, <1>2 DEF QueueIsRight
  <2>1. Last(queue', s, NoEntry) = Last(queue', s, Over(Head(queue), s, NoEntry))
    BY LastIfMentioned
  <2>2. Last(queue, s, NoEntry) = Last(queue', s, NoEntry)
    BY <1>6, <2>1
  <2>3. Mentions(queue, s) # {}
    <3>1. PICK i \in DOMAIN queue' : s \in DOMAIN queue'[i]
      BY DEF Mentions
    <3>2. i + 1 \in DOMAIN queue /\ queue'[i] = queue[i + 1]
      BY <1>1, <1>3, <3>1
    <3> QED
      BY <3>1, <3>2 DEF Mentions
  <2> QED
    BY <1>1, <2>2, <2>3 DEF LiveInv, QueueIsRight, Attached
<1>8. LastWordIsRight'
  <2> SUFFICES ASSUME NEW s \in Service
               PROVE  Told(Over(outbox, s, Last(queue', s, Last(wire', s, shown[s])))) = Told(View[s])
    BY <1>1, <1>2 DEF LastWordIsRight
  <2>1. Last(wire', s, shown[s]) = Over(Head(queue), s, Last(wire, s, shown[s]))
    BY <1>1, <1>3, LastAppend
  <2>2. Last(queue', s, Last(wire', s, shown[s])) = Last(queue, s, Last(wire, s, shown[s]))
    BY <1>6, <2>1
  <2> QED
    BY <1>1, <2>2 DEF LiveInv, LastWordIsRight
<1> QED
  BY <1>2, <1>4, <1>5, <1>7, <1>8 DEF LiveInv

LEMMA ReceiveOK ==
  ASSUME LiveInv, Receive
  PROVE  LiveInv'
<1>1. /\ wire # <<>> /\ wire' = Tail(wire)
      /\ shown' = [s \in Service |-> Over(Head(wire), s, shown[s])]
      /\ UNCHANGED <<vars, outbox, conn, queue, lagged, asked, faults>>
  BY DEF Receive
<1>2. IInv' /\ View' = View
  BY <1>1, ViewKept
<1>3. /\ wire \in Seq(Frames) /\ Head(wire) \in Frames
      /\ wire' \in Seq(Frames) /\ Len(wire') <= WireCapacity
  BY <1>1, CapacityAssumption DEF LiveInv, LiveTypeOK
<1>4. shown' \in [Service -> MaybeDto]
  <2>1. \A s \in DOMAIN Head(wire) : Head(wire)[s] \in MaybeDto
    BY <1>3 DEF Frames
  <2> QED
    BY <1>1, <2>1 DEF Over, LiveInv, LiveTypeOK
<1>5. LiveTypeOK'
  BY <1>1, <1>3, <1>4 DEF LiveInv, LiveTypeOK
<1>6. OutboxIsRight' /\ QueueIsRight'
  BY <1>1, <1>2 DEF LiveInv, OutboxIsRight, QueueIsRight, Attached
<1>7. ASSUME NEW s \in Service
      PROVE  Last(wire, s, shown[s]) = Last(wire', s, shown'[s])
  <2>1. Last(wire, s, shown[s]) = Last(wire', s, Over(Head(wire), s, shown[s]))
    BY <1>1, <1>3, LastTail
  <2> QED
    BY <1>1, <2>1
<1>8. LastWordIsRight'
  BY <1>1, <1>2, <1>7 DEF LiveInv, LastWordIsRight
<1> QED
  BY <1>2, <1>5, <1>6, <1>8 DEF LiveInv

LEMMA ConnectOK ==
  ASSUME LiveInv, Connect
  PROVE  LiveInv'
<1>1. /\ conn' = "subscribed" /\ queue' = <<>> /\ lagged' = FALSE /\ asked' = FALSE
      /\ wire' = <<>> /\ UNCHANGED <<vars, outbox, shown, faults>>
  BY DEF Connect
<1>2. IInv' /\ View' = View
  BY <1>1, ViewKept
<1>3. LiveTypeOK'
  <2>1. <<>> \in Seq(Frames) /\ Len(<<>>) <= QueueCapacity /\ Len(<<>>) <= WireCapacity
    BY CapacityAssumption
  <2> QED
    BY <1>1, <2>1 DEF LiveInv, LiveTypeOK
<1>4. QueueIsRight'
  BY <1>1, LastOfNone DEF QueueIsRight
<1> QED
  BY <1>1, <1>2, <1>3, <1>4 DEF LiveInv, OutboxIsRight, LastWordIsRight

LEMMA StateChangeOK ==
  ASSUME LiveInv, SnapshotSent \/ DropSlowClient \/ AskResnapshot \/ Closed
  PROVE  LiveInv'
<1>1. /\ UNCHANGED <<vars, outbox, queue, lagged, wire, shown, faults>>
      /\ conn' \in {conn, "closing", "down"} \/ (conn = "greeting" /\ conn' = "live")
      /\ asked' \in {asked, TRUE}
  BY DEF SnapshotSent, DropSlowClient, AskResnapshot, Closed
<1>2. IInv' /\ View' = View
  BY <1>1, ViewKept
<1>3. LiveTypeOK'
  BY <1>1 DEF LiveInv, LiveTypeOK
<1> QED
  BY <1>1, <1>2, <1>3
     DEF LiveInv, OutboxIsRight, QueueIsRight, LastWordIsRight, Attached

LEMMA BreakConnectionOK ==
  ASSUME LiveInv, BreakConnection
  PROVE  LiveInv'
<1>1. /\ conn' = "down" /\ wire' = <<>> /\ faults < MaxFaults /\ faults' = faults + 1
      /\ UNCHANGED <<vars, outbox, queue, lagged, asked, shown>>
  BY DEF BreakConnection, LoseConnection
<1>2. IInv' /\ View' = View
  BY <1>1, ViewKept
<1>3. LiveTypeOK'
  <2>1. <<>> \in Seq(Frames) /\ Len(<<>>) <= WireCapacity /\ faults' \in 0..MaxFaults
    BY <1>1, CapacityAssumption DEF LiveInv, LiveTypeOK
  <2> QED
    BY <1>1, <2>1 DEF LiveInv, LiveTypeOK
<1> QED
  BY <1>1, <1>2, <1>3
     DEF LiveInv, OutboxIsRight, QueueIsRight, LastWordIsRight, Attached

LEMMA RestartDaemonOK ==
  ASSUME LiveInv, RestartDaemon
  PROVE  LiveInv'
<1>1. /\ reg' = [s \in Service |-> NoEntry] /\ delta' = NoChanges /\ now' = now
      /\ outbox' = NoFrame /\ faults < MaxFaults /\ faults' = faults + 1
      /\ conn' = "down" /\ wire' \in {wire, <<>>}
      /\ UNCHANGED <<queue, lagged, asked, shown>>
  BY DEF RestartDaemon, LoseConnection, clientVars
<1>2. IInv'
  <2>1. NoChanges \in Changed
    <3>1. [s \in {} |-> NoProject] \in UNION {[S -> MaybeProject] : S \in SUBSET Service}
      BY DEF MaybeProject
    <3> QED
      BY <3>1 DEF NoChanges, Changed
  <2> QED
    BY <1>1, <2>1 DEF LiveInv, IInv, RegOK
<1>3. LiveTypeOK'
  <2>1. <<>> \in Seq(Frames) /\ Len(<<>>) <= WireCapacity /\ faults' \in 0..MaxFaults
    BY <1>1, CapacityAssumption DEF LiveInv, LiveTypeOK
  <2>2. NoFrame \in Frames
    BY DEF NoFrame, Frames
  <2> QED
    BY <1>1, <2>1, <2>2 DEF LiveInv, LiveTypeOK
<1>4. OutboxIsRight'
  BY <1>1 DEF OutboxIsRight, NoFrame
<1> QED
  BY <1>1, <1>2, <1>3, <1>4 DEF LiveInv, QueueIsRight, LastWordIsRight, Attached

LEMMA LiveInductive == LiveInv /\ [LiveNext]_liveVars => LiveInv'
<1> SUFFICES ASSUME LiveInv, [LiveNext]_liveVars PROVE LiveInv'
  OBVIOUS
<1>1. CASE UNCHANGED liveVars
  <2>1. UNCHANGED vars /\ UNCHANGED <<outbox, conn, queue, lagged, asked, wire, shown, faults>>
    BY <1>1 DEF liveVars, clientVars, vars
  <2>2. IInv' /\ View' = View
    BY <2>1, ViewKept
  <2>3. LiveTypeOK'
    BY <2>1 DEF LiveInv, LiveTypeOK
  <2> QED
    BY <2>1, <2>2, <2>3 DEF LiveInv, OutboxIsRight, QueueIsRight, LastWordIsRight, Attached
<1>2. ASSUME NEW batch \in Batches, NEW d \in ClockSteps, now + d \in Time,
             ApplyTick(batch, now + d)
      PROVE  LiveInv'
  BY <1>2, ApplyTickOK
<1>3. CASE Publish
  BY <1>3, PublishOK
<1>4. CASE Socket
  BY <1>4, ConnectOK, SnapshotOK, ForwardOK, StateChangeOK DEF Socket
<1>5. CASE Dashboard
  BY <1>5, ReceiveOK, StateChangeOK DEF Dashboard
<1>6. CASE Fault
  BY <1>6, BreakConnectionOK, RestartDaemonOK DEF Fault
<1> QED
  BY <1>1, <1>2, <1>3, <1>4, <1>5, <1>6 DEF LiveNext

LEMMA LiveInvariance == LiveSpec => []LiveInv
BY LiveInitially, LiveInductive, PTL DEF LiveSpec

\* The channel is bounded: no client makes the daemon hold more than QueueCapacity frames.
THEOREM ChannelIsBounded == LiveSpec => []LiveTypeOK
<1>1. LiveInv => LiveTypeOK
  BY DEF LiveInv
<1> QED
  BY <1>1, LiveInvariance, PTL

\* Whatever is still on its way to a live client, it ends up with the daemon's view.
THEOREM LastWordStands == LiveSpec => []LastWordIsRight
<1>1. LiveInv => LastWordIsRight
  BY DEF LiveInv
<1> QED
  BY <1>1, LiveInvariance, PTL
=============================================================================
