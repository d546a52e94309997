--------------------------- MODULE DashboardProofs --------------------------
(***************************************************************************)
(* The dashboard for any services, any number of frames, calls and visits, *)
(* and every order in which frames and answers come.  In this order: the   *)
(* badge is honest; an inspector without its service has it under way or   *)
(* knows that it failed; the buffer of events is in order; what a page     *)
(* holds is typed, and its timeline without a hole; the hosted demo is     *)
(* closed; the tables end up as the daemon's.                              *)
(*                                                                         *)
(* The tables need `TablesInv', that of every item the last frame on its   *)
(* way is right, or the view is; and `ReduceLearns', that a view takes in  *)
(* what a frame tells of an item and keeps the rest.                       *)
(*                                                                         *)
(* The timeline needs the most.  `Carries' says which events are still on  *)
(* their way, `Hears' how far the dashboard has heard of them, `HistoryOK' *)
(* up to when a history was complete, and `LatestIsOne' that the newest n  *)
(* events of a set are one sequence, so that two ways to get to them meet. *)
(***************************************************************************)
EXTENDS Dashboard, FiniteSetTheorems, NaturalsInduction, WellFoundedInduction, TLAPS

----------------------------------------------------------------------------
(***************************************************************************)
(* Sequences whose elements all have a property are those over a set of    *)
(* such elements.  A frame is one this build of the dashboard understands. *)
(***************************************************************************)
FrameTypes == {"snapshot", "services_changed", "topology_changed", "warnings_changed", "events"}

FrameOK(f) == f.type \in FrameTypes /\ IsFrame(f)

Frames(q) == \E F : q \in Seq(F) /\ \A f \in F : FrameOK(f)

LEMMA FramesOver ==
  ASSUME NEW F, NEW q \in Seq(F), \A f \in F : FrameOK(f)
  PROVE  Frames(q)
BY DEF Frames

LEMMA OneFrame ==
  ASSUME NEW f, FrameOK(f)
  PROVE  Frames(<<f>>)
<1> DEFINE F == {f}
<1>1. <<f>> \in Seq(F) /\ \A x \in F : FrameOK(x)
  OBVIOUS
<1> HIDE DEF F
<1> QED
  BY <1>1, FramesOver

LEMMA NoFrames == Frames(<<>>)
<1> DEFINE F == {}
<1>1. <<>> \in Seq(F) /\ \A f \in F : FrameOK(f)
  OBVIOUS
<1> HIDE DEF F
<1> QED
  BY <1>1, FramesOver

LEMMA MoreFrames ==
  ASSUME NEW p, NEW q, Frames(p), Frames(q)
  PROVE  Frames(p \o q)
<1>1. PICK F : p \in Seq(F) /\ \A f \in F : FrameOK(f)
  BY DEF Frames
<1>2. PICK G : q \in Seq(G) /\ \A f \in G : FrameOK(f)
  BY DEF Frames
<1>3. p \in Seq(F \cup G) /\ q \in Seq(F \cup G)
  BY <1>1, <1>2
<1>4. p \o q \in Seq(F \cup G)
  BY <1>3
<1>5. \A f \in F \cup G : FrameOK(f)
  BY <1>1, <1>2
<1> QED
  BY <1>4, <1>5 DEF Frames

LEMMA FewerFrames ==
  ASSUME NEW q, Frames(q), NEW m \in Int, NEW n \in Int, 1 <= m, n <= Len(q)
  PROVE  Frames(SubSeq(q, m, n))
<1>1. PICK F : q \in Seq(F) /\ \A f \in F : FrameOK(f)
  BY DEF Frames
<1>2. SubSeq(q, m, n) \in Seq(F)
  BY <1>1
<1> QED
  BY <1>1, <1>2 DEF Frames

LEMMA FirstFrame ==
  ASSUME NEW q, Frames(q), q # <<>>
  PROVE  FrameOK(Head(q)) /\ Frames(Tail(q))
<1>1. PICK F : q \in Seq(F) /\ \A f \in F : FrameOK(f)
  BY DEF Frames
<1>2. Head(q) \in F /\ Tail(q) \in Seq(F)
  BY <1>1
<1> QED
  BY <1>1, <1>2 DEF Frames

\* The frames of a tick are frames.
LEMMA TicksSendFrames ==
  ASSUME NEW s, NEW gone, NEW linked, NEW warned
  PROVE  Frames(TickFrames(s, gone, linked, warned))
<1> DEFINE services == [type |-> "services_changed", removed |-> IF gone THEN {s} ELSE {},
                        services |-> IF gone THEN <<>> ELSE <<[id |-> s, rev |-> tick + 1]>>]
           events   == [type |-> "events", events |-> TickEvents(s, gone, linked)]
           topology == Changed("topology_changed", daemon.linked, linked, "call")
           warnings == Changed("warnings_changed", daemon.warned, warned, "warning")
<1>1. Frames(<<services>>) /\ Frames(<<events>>)
  <2>1. FrameOK(services)
    BY DEF FrameOK, FrameTypes, IsFrame
  <2>2. FrameOK(events)
    BY DEF FrameOK, FrameTypes, IsFrame
  <2> HIDE DEF services, events
  <2> QED
    BY <2>1, <2>2, OneFrame
<1>2. ASSUME NEW type \in {"topology_changed", "warnings_changed"}, NEW was, NEW is, NEW id
      PROVE  Frames(Changed(type, was, is, id))
  <2> DEFINE f == [type |-> type, added |-> IF is THEN <<id>> ELSE <<>>, removed |-> IF is THEN {} ELSE {id}]
  <2>1. FrameOK(f)
    BY <1>2 DEF FrameOK, FrameTypes, IsFrame
  <2>2. Changed(type, was, is, id) = IF was = is THEN <<>> ELSE <<f>>
    BY DEF Changed
  <2> HIDE DEF f
  <2> QED
    BY <2>1, <2>2, OneFrame, NoFrames
<1>3. Frames(topology) /\ Frames(warnings)
  BY <1>2
<1>4. TickFrames(s, gone, linked, warned) = ((<<services>> \o topology) \o <<events>>) \o warnings
  BY DEF TickFrames
<1> HIDE DEF services, events, topology, warnings
<1>5. Frames(<<services>> \o topology)
  BY <1>1, <1>3, MoreFrames
<1>6. Frames((<<services>> \o topology) \o <<events>>)
  BY <1>1, <1>5, MoreFrames
<1> QED
  BY <1>3, <1>4, <1>6, MoreFrames

----------------------------------------------------------------------------
(***************************************************************************)
(* The badge.                                                              *)
(***************************************************************************)
Lost == IF link = "lost" THEN 1 ELSE 0

\* What attempt, link and the view have to do with each other while the page has a socket.
Dialled ==
  /\ tick \in Nat /\ attempt \in Nat /\ faults \in Nat /\ Frames(channel)
  /\ {"connection", "reconnects"} \subseteq DOMAIN view /\ view.reconnects \in Nat
  /\ socket \in {"opening", "open", "waiting"}
  /\ view.connection \in {"connecting", "connected", "reconnecting", "disconnected"}
  /\ socket = "open" <=> view.connection = "connected"
  /\ attempt = 0 <=> view.connection \in {"connecting", "connected"}
  /\ attempt > BackoffSteps <=> view.connection = "disconnected"
  /\ view.connection = "connecting" => view.reconnects = 0 /\ socket = "opening"
  /\ socket = "open" => link \in {"subscribed", "live", "lost"}
  /\ socket = "waiting" => link = "none"
  /\ view.reconnects + Lost <= faults + 1

\* A close counts a loss only if none was counted since the last open.
BadgeStep ==
  /\ Badge'.text = "connected" <=> socket' = "open"
  /\ Badge'.text = "disconnected" => Badge.text \in {"reconnecting", "disconnected"}
  /\ Badge.text = "disconnected" => Badge'.text \in {"connected", "disconnected"}
  /\ Badge'.reconnects <= faults' + 1

BadgeInv == IF Hosted THEN socket = "none" ELSE Dialled

LEMMA DialledInit == ViewInit => Dialled
<1> SUFFICES ASSUME ViewInit PROVE Dialled
  OBVIOUS
<1>1. Frames(channel)
  BY NoFrames DEF ViewInit
<1>2. view = EmptyView
  BY DEF ViewInit
<1>3. /\ view.connection = "connecting" /\ view.reconnects = 0
      /\ {"connection", "reconnects"} \subseteq DOMAIN view
  BY <1>2 DEF EmptyView
<1> QED
  BY <1>1, <1>3, LimitAssumption DEF ViewInit, Dialled, Lost

\* What the badge says of a state, and of the next one.
LEMMA BadgeOf ==
  ASSUME Dialled
  PROVE  Badge.text = view.connection
BY DEF Badge

LEMMA BadgeOfNext ==
  ASSUME Dialled'
  PROVE  /\ Badge'.text = view'.connection
         /\ Badge'.reconnects \in Nat /\ Badge'.reconnects <= view'.reconnects
BY DEF Badge, Dialled

LEMMA BadgeStays ==
  ASSUME Dialled, Dialled',
         view'.connection = "disconnected" => view.connection \in {"reconnecting", "disconnected"},
         view.connection = "disconnected" => view'.connection \in {"connected", "disconnected"}
  PROVE  BadgeStep
<1>1. view'.reconnects \in Nat /\ faults' \in Nat /\ view'.reconnects <= faults' + 1
  BY DEF Dialled, Lost
<1>2. Badge'.reconnects <= faults' + 1
  BY <1>1, BadgeOfNext
<1>3. view'.connection = "connected" <=> socket' = "open"
  BY DEF Dialled
<1> QED
  BY <1>2, <1>3, BadgeOf, BadgeOfNext DEF BadgeStep

\* The steps that leave the view and the dashboard's end alone.
LEMMA DaemonStep ==
  ASSUME Dialled, UNCHANGED <<socket, attempt, view>>, tick' \in Nat, faults' \in Nat, Frames(channel'),
         socket = "open" => link' \in {"subscribed", "live", "lost"},
         socket = "waiting" => link' = "none",
         view.reconnects + Lost' <= faults' + 1
  PROVE  Dialled'
BY DEF Dialled

LEMMA TickDials ==
  ASSUME Dialled, NEW s \in Service, NEW gone, NEW linked, NEW warned, Tick(s, gone, linked, warned)
  PROVE  Dialled'
<1>1. Frames(channel')
  BY TicksSendFrames, MoreFrames DEF Dialled, Tick
<1> QED
  BY <1>1, DaemonStep DEF Dialled, Tick, Lost

LEMMA SnapshotIsFrame == Snapshot.type = "snapshot" /\ Frames(<<Snapshot>>)
<1>1. Snapshot.type = "snapshot" /\ FrameOK(Snapshot)
  BY DEF Snapshot, FrameOK, FrameTypes, IsFrame
<1> QED
  BY <1>1, OneFrame

LEMMA DaemonDials ==
  ASSUME Dialled, Accept \/ SendSnapshot \/ BreakConnection \/ StopDaemon \/ StartDaemon
  PROVE  Dialled' /\ UNCHANGED view /\ socket' = socket /\ faults' >= faults
<1> USE DEF Dialled
<1>1. CASE Accept
  BY <1>1 DEF Accept, worldVars, Lost
<1>2. CASE SendSnapshot
  <2>1. Frames(channel')
    BY <1>2, SnapshotIsFrame, MoreFrames DEF SendSnapshot
  <2> QED
    BY <1>2, <2>1 DEF SendSnapshot, worldVars, Lost
<1>3. CASE BreakConnection
  BY <1>3, NoFrames DEF BreakConnection, LoseLink, worldVars, Lost
<1>4. CASE StopDaemon
  <2>1. UNCHANGED <<tick, socket, attempt, view>> /\ faults' = faults + 1 /\ LoseLink
    BY <1>4 DEF StopDaemon
  <2> QED
    BY <2>1, NoFrames DEF LoseLink, Lost
<1>5. CASE StartDaemon
  BY <1>5 DEF StartDaemon, wireVars, Lost
<1> QED
  BY <1>1, <1>2, <1>3, <1>4, <1>5

\* A frame is folded into the view of a socket that is open, and says nothing of a loss.
LEMMA ReduceConnects ==
  ASSUME NEW v, {"connection", "reconnects"} \subseteq DOMAIN v, v.connection = "connected",
         NEW f, f.type \in FrameTypes
  PROVE  /\ {"connection", "reconnects"} \subseteq DOMAIN Reduce(v, f)
         /\ Reduce(v, f).connection = "connected" /\ Reduce(v, f).reconnects = v.reconnects
<1>1. CASE f.type = "snapshot"
  BY <1>1 DEF Reduce, ReduceSnapshot
<1>2. CASE f.type = "services_changed"
  BY <1>2 DEF Reduce, ReduceServices
<1>3. CASE f.type = "topology_changed"
  BY <1>3 DEF Reduce
<1>4. CASE f.type = "warnings_changed"
  BY <1>4 DEF Reduce
<1>5. CASE f.type = "events"
  BY <1>5 DEF Reduce, ReduceEvents
<1> QED
  BY <1>1, <1>2, <1>3, <1>4, <1>5 DEF FrameTypes

LEMMA ProviderDials ==
  ASSUME Dialled, OnOpen \/ OnMessage \/ OnClose \/ Reconnect \/ Resnapshot
  PROVE  Dialled' /\ BadgeStep
<1> USE DEF Dialled
<1>1. CASE OnOpen
  <2>1. /\ {"connection", "reconnects"} \subseteq DOMAIN view'
        /\ view'.connection = "connected" /\ view'.reconnects = view.reconnects
    BY <1>1 DEF OnOpen
  <2>2. Dialled'
    BY <1>1, <2>1, LimitAssumption DEF OnOpen, worldVars, Lost
  <2> QED
    BY <2>1, <2>2, BadgeStays
<1>2. CASE OnMessage
  <2>1. Head(channel).type \in FrameTypes /\ Frames(channel')
    BY <1>2, FirstFrame DEF OnMessage, FrameOK
  <2>2. /\ {"connection", "reconnects"} \subseteq DOMAIN view'
        /\ view'.connection = "connected" /\ view'.reconnects = view.reconnects
    BY <1>2, <2>1, ReduceConnects DEF OnMessage
  <2>3. UNCHANGED <<tick, link, socket, attempt, faults>> /\ socket = "open"
    BY <1>2 DEF OnMessage, worldVars
  <2>4. Dialled'
    BY <2>1, <2>2, <2>3 DEF Lost
  <2> QED
    BY <2>2, <2>4, BadgeStays
<1>3. CASE OnClose
  <2>1. /\ socket' = "waiting" /\ link' = "none" /\ channel' = <<>> /\ faults' = faults
        /\ socket \in {"opening", "open"} /\ Closed /\ attempt' = NextAttempt /\ tick' = tick
    BY <1>3 DEF OnClose, worldVars
  <2>2. attempt' \in Nat /\ attempt' > 0 /\ (attempt' = 1 <=> attempt = 0)
    BY <2>1, LimitAssumption DEF NextAttempt
  <2>3. /\ {"connection", "reconnects"} \subseteq DOMAIN view'
        /\ view'.connection = IF attempt' > BackoffSteps THEN "disconnected" ELSE "reconnecting"
        /\ view'.reconnects = view.reconnects + (IF attempt = 0 THEN 1 ELSE 0)
    BY <1>3, <2>1, <2>2 DEF OnClose
  <2>4. attempt = 0 => view.reconnects + 1 <= faults + 1
    BY <2>1 DEF Closed, Lost
  <2>5. view'.reconnects \in Nat /\ view'.reconnects <= faults' + 1 /\ Lost' = 0
    BY <2>1, <2>3, <2>4 DEF Lost
  <2>6. Frames(channel')
    BY <2>1, NoFrames
  <2>7. view.connection = "disconnected" => view'.connection = "disconnected"
    BY <2>1, <2>3, LimitAssumption DEF NextAttempt
  <2>8. view'.connection = "disconnected" => view.connection \in {"reconnecting", "disconnected"}
    BY <2>1, <2>3, LimitAssumption DEF NextAttempt
  <2>9. Dialled'
    BY <2>1, <2>2, <2>3, <2>5, <2>6, LimitAssumption
  <2> QED
    BY <2>7, <2>8, <2>9, BadgeStays
<1>4. CASE Reconnect
  BY <1>4, BadgeStays DEF Reconnect, worldVars, Lost
<1>5. CASE Resnapshot
  <2>1. Frames(channel')
    <3>1. PICK i \in 1..(Len(channel) + 1) : channel' = InsertAt(channel, i, Snapshot)
      BY <1>5 DEF Resnapshot
    <3>2. Len(channel) \in Nat
      BY DEF Frames
    <3>3. Frames(SubSeq(channel, 1, i - 1)) /\ Frames(SubSeq(channel, i, Len(channel)))
      BY <3>2, FewerFrames
    <3> QED
      BY <3>1, <3>3, SnapshotIsFrame, MoreFrames DEF InsertAt
  <2> QED
    BY <1>5, <2>1, BadgeStays DEF Resnapshot, worldVars, Lost
<1> QED
  BY <1>1, <1>2, <1>3, <1>4, <1>5

LEMMA BadgeInitially == DashInit => BadgeInv
BY DialledInit DEF DashInit, BadgeInv

\* The pages leave the provider alone; a hosted demo has none.
LEMMA BadgeNext ==
  ASSUME BadgeInv, [DashNext]_dashVars
  PROVE  BadgeInv' /\ (UNCHANGED viewVars \/ (socket' # "none" => BadgeStep))
<1>1. CASE UNCHANGED dashVars
  <2>1. UNCHANGED <<tick, link, channel, socket, attempt, view, faults>> /\ Hosted' = Hosted /\ UNCHANGED viewVars
    BY <1>1 DEF dashVars, pageVars, viewVars, worldVars, wireVars, Hosted
  <2> QED
    BY <2>1 DEF BadgeInv, Dialled, Lost
<1>2. CASE Page
  <2>1. UNCHANGED <<viewVars, site>>
    BY <1>2 DEF Page, Visit, Poll, Serve, Deliver
  <2>2. UNCHANGED <<tick, link, channel, socket, attempt, view, faults>> /\ Hosted' = Hosted
    BY <2>1 DEF viewVars, worldVars, wireVars, Hosted
  <2> QED
    BY <2>1, <2>2 DEF BadgeInv, Dialled, Lost
<1>3. CASE ~Hosted /\ LiveStep(Daemon \/ Provider)
  <2>1. Dialled /\ Hosted' = Hosted /\ (Daemon \/ Provider)
    BY <1>3 DEF BadgeInv, LiveStep, Hosted
  <2>2. CASE Provider
    BY <1>3, <2>1, <2>2, ProviderDials DEF Provider, BadgeInv
  <2>3. CASE Daemon
    <3>1. CASE \E s \in Service, gone, linked, warned \in BOOLEAN : Tick(s, gone, linked, warned)
      <4>1. PICK s \in Service, gone, linked, warned \in BOOLEAN : Tick(s, gone, linked, warned)
        BY <3>1
      <4>2. Dialled'
        BY <2>1, <4>1, TickDials
      <4> QED
        BY <1>3, <2>1, <4>1, <4>2, BadgeStays DEF BadgeInv, Dialled, Tick
    <3>2. CASE Accept \/ SendSnapshot \/ BreakConnection \/ StopDaemon \/ StartDaemon
      <4>1. Dialled' /\ UNCHANGED view
        BY <2>1, <3>2, DaemonDials
      <4> QED
        BY <1>3, <2>1, <4>1, BadgeStays DEF BadgeInv, Dialled
    <3> QED
      BY <2>3, <3>1, <3>2 DEF Daemon
  <2> QED
    BY <2>1, <2>2, <2>3
<1> QED
  BY <1>1, <1>2, <1>3 DEF DashNext

\* The badge says connected exactly while the socket is open, gives up on a daemon only after
\* it has said that it tries to get it back, and counts no more than was lost: however many
\* steps the backoff has and in whatever order connections fail (daemon.tsx:157-185).
THEOREM BadgeStaysHonest == DashSpec => BadgeIsHonest
<1>1. BadgeInv /\ [DashNext]_dashVars => BadgeInv'
  BY BadgeNext
<1>2. BadgeInv /\ [DashNext]_dashVars => [socket' # "none" => BadgeStep]_viewVars
  BY BadgeNext
<1>3. (socket' # "none" => BadgeStep) =>
        (socket' # "none" =>
           /\ Badge'.text = "connected" <=> socket' = "open"
           /\ Badge'.text = "disconnected" => Badge.text \in {"reconnecting", "disconnected"}
           /\ Badge.text = "disconnected" => Badge'.text \in {"connected", "disconnected"}
           /\ Badge'.reconnects <= faults' + 1)
  BY DEF BadgeStep
<1> QED
  BY <1>1, <1>2, <1>3, BadgeInitially, PTL DEF DashSpec, BadgeIsHonest

----------------------------------------------------------------------------
(***************************************************************************)
(* The inspector.                                                          *)
(***************************************************************************)
IsSequence(q) == \E C : q \in Seq(C)

IsCall(c, what, id) == {"what", "id"} \subseteq DOMAIN c /\ c.what = what /\ c.id = id

\* All calls of a service page ask for its service, and one is under way as long as neither
\* its detail nor its error is there.
InspectorInv ==
  /\ IsSequence(calls) /\ {"detail", "error"} \subseteq DOMAIN page
  /\ route.view = "service" =>
       /\ \A i \in DOMAIN calls : IsCall(calls[i], "service", route.id)
       /\ page.detail.id # route.id => Waits("service") \/ page.error

LEMMA AskedFor ==
  ASSUME NEW what, NEW id
  PROVE  IsCall(Ask(what, id), what, id)
BY DEF Ask, Request, IsCall

LEMMA InspectorExplains == InspectorInv => InspectorIsExplained
<1> SUFFICES ASSUME InspectorInv, route.view = "service", page.detail.id # route.id
             PROVE  /\ Waits("service") \/ page.error
                    /\ ServiceShows = "loading" => Waits("service")
                    /\ \A i \in DOMAIN calls : calls[i].id = route.id
  BY DEF InspectorIsExplained
<1>1. Waits("service") \/ page.error
  BY DEF InspectorInv
<1>2. page.error => ServiceShows # "loading"
  BY DEF ServiceShows
<1>3. \A i \in DOMAIN calls : calls[i].id = route.id
  BY DEF InspectorInv, IsCall
<1> QED
  BY <1>1, <1>2, <1>3

LEMMA OneOf == ASSUME NEW x PROVE IsSequence(<<x>>)
<1> DEFINE C == {x}
<1>1. <<x>> \in Seq(C)
  OBVIOUS
<1> HIDE DEF C
<1> QED
  BY <1>1 DEF IsSequence

LEMMA TwoOf == ASSUME NEW x, NEW y PROVE IsSequence(<<x, y>>)
<1> DEFINE C == {x, y}
<1>1. <<x, y>> \in Seq(C)
  OBVIOUS
<1> HIDE DEF C
<1> QED
  BY <1>1 DEF IsSequence

LEMMA Joined ==
  ASSUME NEW p, NEW q, IsSequence(p), IsSequence(q)
  PROVE  /\ IsSequence(p \o q)
         /\ Len(p) \in Nat /\ Len(q) \in Nat /\ DOMAIN (p \o q) = 1..(Len(p) + Len(q))
         /\ \A i \in DOMAIN p : i \in DOMAIN (p \o q) /\ (p \o q)[i] = p[i]
         /\ \A i \in DOMAIN (p \o q) : i \notin DOMAIN p =>
              i - Len(p) \in DOMAIN q /\ (p \o q)[i] = q[i - Len(p)]
<1>1. PICK C : p \in Seq(C)
  BY DEF IsSequence
<1>2. PICK D : q \in Seq(D)
  BY DEF IsSequence
<1> DEFINE E == C \cup D
<1>3. p \in Seq(E) /\ q \in Seq(E)
  BY <1>1, <1>2
<1> HIDE DEF E
<1>4. p \o q \in Seq(E)
  BY <1>3
<1>5. IsSequence(p \o q)
  BY <1>4 DEF IsSequence
<1> QED
  BY <1>3, <1>5

\* What is left of a sequence without one of its elements.
LEMMA Removed ==
  ASSUME NEW q, IsSequence(q), NEW i \in DOMAIN q
  PROVE  /\ IsSequence(RemoveAt(q, i))
         /\ \A j \in DOMAIN RemoveAt(q, i) : \E k \in DOMAIN q : RemoveAt(q, i)[j] = q[k]
<1>1. PICK C : q \in Seq(C)
  BY DEF IsSequence
<1> DEFINE p == SubSeq(q, 1, i - 1)
           r == SubSeq(q, i + 1, Len(q))
<1>2. DOMAIN q = 1..Len(q) /\ Len(q) \in Nat /\ i \in 1..Len(q)
  BY <1>1
<1>3. p \in Seq(C) /\ r \in Seq(C)
  BY <1>1, <1>2
<1>4. \A j \in DOMAIN p : j \in DOMAIN q /\ p[j] = q[j]
  BY <1>1, <1>2
<1>5. \A j \in DOMAIN r : j + i \in DOMAIN q /\ r[j] = q[j + i]
  BY <1>1, <1>2
<1>6. RemoveAt(q, i) = p \o r
  BY DEF RemoveAt
<1> HIDE DEF p, r
<1>7. IsSequence(p) /\ IsSequence(r)
  BY <1>3 DEF IsSequence
<1>8. ASSUME NEW j \in DOMAIN (p \o r) PROVE \E k \in DOMAIN q : (p \o r)[j] = q[k]
  <2>1. CASE j \in DOMAIN p
    BY <1>4, <1>7, <2>1, Joined
  <2>2. CASE j \notin DOMAIN p
    <3>1. j - Len(p) \in DOMAIN r /\ (p \o r)[j] = r[j - Len(p)]
      BY <1>7, <2>2, Joined
    <3>2. r[j - Len(p)] = q[j - Len(p) + i] /\ j - Len(p) + i \in DOMAIN q
      BY <1>5, <3>1
    <3> QED
      BY <3>1, <3>2
  <2> QED
    BY <2>1, <2>2
<1> QED
  BY <1>6, <1>7, <1>8, Joined

LEMMA StatusCallsAreSequence ==
  ASSUME NEW connection
  PROVE  IsSequence(StatusCalls(connection))
<1>1. <<>> \in Seq(Nat)
  OBVIOUS
<1>2. IsSequence(<<>>)
  BY <1>1 DEF IsSequence
<1> QED
  BY <1>2, OneOf DEF StatusCalls

\* The page of a service that has just come up has asked for it.
LEMMA ServiceAskedFirst ==
  ASSUME NEW r \in Routes
  PROVE  /\ IsSequence(FirstCalls(r))
         /\ r.view = "service" => FirstCalls(r) = <<Ask("service", r.id)>>
<1>1. \A c : IsSequence(StatusCalls(c))
  BY StatusCallsAreSequence
<1>2. CASE r.view = "service"
  BY <1>2, OneOf DEF FirstCalls
<1>3. CASE r.view = "project"
  <2> DEFINE events  == Ask("events", r.id)
             project == Ask("project", r.id)
  <2>1. FirstCalls(r) = <<events, project>>
    BY <1>3 DEF FirstCalls
  <2> HIDE DEF events, project
  <2>2. IsSequence(FirstCalls(r))
    BY <2>1, TwoOf
  <2> QED
    BY <1>3, <2>2
<1>4. CASE r.view = "overview"
  BY <1>1, <1>4 DEF FirstCalls
<1>5. r.view \in {"overview", "project", "service"}
  BY DEF Routes, Overview, ProjectPage, ServicePage
<1> QED
  BY <1>2, <1>3, <1>4, <1>5

\* A call that is alone is the one that is waited for.
LEMMA AloneIsWaitedFor ==
  ASSUME NEW q, NEW c, NEW what, NEW id, q = <<c>>, IsCall(c, what, id)
  PROVE  /\ \A i \in DOMAIN q : IsCall(q[i], what, id)
         /\ \E i \in DOMAIN q : q[i].what = what
<1>1. DOMAIN q = {1} /\ q[1] = c
  OBVIOUS
<1> QED
  BY <1>1 DEF IsCall

LEMMA InspectorInitially == DashInit => InspectorInv
<1> SUFFICES ASSUME DashInit PROVE InspectorInv
  OBVIOUS
<1>1. route \in Routes /\ calls = FirstCalls(route) /\ page = EmptyPage
  BY DEF DashInit, Routes
<1>2. {"detail", "error"} \subseteq DOMAIN page
  BY <1>1 DEF EmptyPage
<1>3. ASSUME route.view = "service"
      PROVE  /\ \A i \in DOMAIN calls : IsCall(calls[i], "service", route.id)
             /\ Waits("service")
  <2>1. calls = <<Ask("service", route.id)>>
    BY <1>1, <1>3, ServiceAskedFirst
  <2> QED
    BY <2>1, AskedFor, AloneIsWaitedFor DEF Waits
<1>4. IsSequence(calls)
  BY <1>1, ServiceAskedFirst
<1> QED
  BY <1>2, <1>3, <1>4 DEF InspectorInv

LEMMA VisitIsExplained ==
  ASSUME InspectorInv, NEW r \in Routes, Visit(r)
  PROVE  InspectorInv'
<1>1. route' = r /\ calls' = FirstCalls(r) /\ site' = site
  BY DEF Visit
<1>2. {"detail", "error"} \subseteq DOMAIN page'
  BY DEF Visit, EmptyPage, InspectorInv
<1>3. ASSUME r.view = "service"
      PROVE  /\ \A i \in DOMAIN calls' : IsCall(calls'[i], "service", r.id)
             /\ Waits("service")'
  <2>1. calls' = <<Ask("service", r.id)>>
    BY <1>1, <1>3, ServiceAskedFirst
  <2> QED
    BY <2>1, AskedFor, AloneIsWaitedFor DEF Waits
<1>4. IsSequence(calls')
  BY <1>1, ServiceAskedFirst
<1> QED
  BY <1>1, <1>2, <1>3, <1>4 DEF InspectorInv

LEMMA PollIsExplained ==
  ASSUME InspectorInv, route \in Routes, Poll
  PROVE  InspectorInv'
<1>1. calls' = calls \o PolledCalls /\ UNCHANGED <<route, page>>
  BY DEF Poll
<1>2. IsSequence(PolledCalls)
  <2>1. CASE route.view = "service"
    BY <2>1, OneOf DEF PolledCalls
  <2>2. CASE route.view = "project"
    BY <2>2, OneOf DEF PolledCalls
  <2>3. CASE route.view = "overview"
    BY <2>3, ServiceAskedFirst DEF PolledCalls, FirstCalls, StatusCalls
  <2> QED
    BY <2>1, <2>2, <2>3 DEF Routes, Overview, ProjectPage, ServicePage
<1>3. IsSequence(calls) /\ IsSequence(calls')
  BY <1>1, <1>2, Joined DEF InspectorInv
<1>4. ASSUME route.view = "service"
      PROVE  /\ \A i \in DOMAIN calls' : IsCall(calls'[i], "service", route.id)
             /\ Waits("service") => Waits("service")'
  <2>1. PolledCalls = <<Ask("service", route.id)>>
    BY <1>4 DEF PolledCalls
  <2>2. \A i \in DOMAIN PolledCalls : IsCall(PolledCalls[i], "service", route.id)
    BY <2>1, AskedFor
  <2> QED
    BY <1>1, <1>2, <1>3, <1>4, <2>2, Joined DEF InspectorInv, Waits
<1> QED
  BY <1>1, <1>3, <1>4 DEF InspectorInv

LEMMA ServeIsExplained ==
  ASSUME InspectorInv, NEW i \in DOMAIN calls, Serve(i)
  PROVE  InspectorInv'
<1>1. PICK a : calls' = [calls EXCEPT ![i].answer = a]
  BY DEF Serve
<1>2. UNCHANGED <<route, page>>
  BY DEF Serve
<1>3. PICK C : calls \in Seq(C)
  BY DEF InspectorInv, IsSequence
<1> DEFINE c == [calls[i] EXCEPT !.answer = a]
           D == C \cup {c}
<1>4. calls' = [calls EXCEPT ![i] = c] /\ c \in D /\ calls \in Seq(D)
  BY <1>1, <1>3
<1> HIDE DEF D, c
<1>5. calls' \in Seq(D)
  BY <1>4
<1>6. IsSequence(calls')
  BY <1>5 DEF IsSequence
<1>7. DOMAIN calls' = DOMAIN calls
  BY <1>1
<1>8. ASSUME route.view = "service", NEW j \in DOMAIN calls
      PROVE  IsCall(calls'[j], "service", route.id)
  <2>1. IsCall(calls[j], "service", route.id)
    BY <1>8 DEF InspectorInv
  <2> QED
    BY <1>1, <2>1 DEF IsCall
<1> QED
  BY <1>2, <1>6, <1>7, <1>8 DEF InspectorInv, Waits, IsCall

LEMMA DeliverIsExplained ==
  ASSUME InspectorInv, NEW i \in DOMAIN calls, Deliver(i)
  PROVE  InspectorInv'
<1> DEFINE c == calls[i]
<1>1. calls' = RemoveAt(calls, i) /\ UNCHANGED route
  BY DEF Deliver
<1>2. /\ IsSequence(calls')
      /\ \A j \in DOMAIN calls' : \E k \in DOMAIN calls : calls'[j] = calls[k]
  BY <1>1, Removed DEF InspectorInv
<1>3. {"detail", "error"} \subseteq DOMAIN page'
  BY DEF Deliver, ServiceAnswered, EventsAnswered, OthersAnswered, InspectorInv
<1>4. ASSUME route.view = "service"
      PROVE  page'.detail.id # route.id => page'.error
  <2>1. c.what = "service" /\ c.id = route.id
    BY <1>4 DEF InspectorInv, IsCall
  <2>2. page' = ServiceAnswered(c)
    BY <2>1 DEF Deliver
  <2> QED
    BY <2>1, <2>2 DEF ServiceAnswered, InspectorInv
<1> QED
  BY <1>1, <1>2, <1>3, <1>4 DEF InspectorInv

\* A frame or a close makes only the overview ask.
LEMMA LiveStepIsExplained ==
  ASSUME InspectorInv, LiveStep(Daemon \/ Provider)
  PROVE  InspectorInv'
<1>1. UNCHANGED <<route, page>> /\ (route.view = "service" => calls' = calls)
  BY DEF LiveStep
<1>2. IsSequence(calls')
  <2>1. calls' = calls \/ calls' = StatusCalls(view'.connection)
    BY DEF LiveStep
  <2> QED
    BY <2>1, StatusCallsAreSequence DEF InspectorInv
<1> QED
  BY <1>1, <1>2 DEF InspectorInv, Waits

LEMMA InspectorStep ==
  ASSUME InspectorInv, route \in Routes, [DashNext]_dashVars
  PROVE  InspectorInv' /\ route' \in Routes
<1>1. CASE UNCHANGED dashVars
  BY <1>1 DEF dashVars, pageVars, InspectorInv, Waits
<1>2. ASSUME NEW r \in Routes, Visit(r) PROVE InspectorInv' /\ route' \in Routes
  BY <1>2, VisitIsExplained DEF Visit
<1>3. CASE Poll
  BY <1>3, PollIsExplained DEF Poll
<1>4. ASSUME NEW i \in DOMAIN calls, Serve(i) PROVE InspectorInv' /\ route' \in Routes
  BY <1>4, ServeIsExplained DEF Serve
<1>5. ASSUME NEW i \in DOMAIN calls, Deliver(i) PROVE InspectorInv' /\ route' \in Routes
  BY <1>5, DeliverIsExplained DEF Deliver
<1>6. CASE LiveStep(Daemon \/ Provider)
  BY <1>6, LiveStepIsExplained DEF LiveStep
<1> QED
  BY <1>1, <1>2, <1>3, <1>4, <1>5, <1>6 DEF DashNext, Page

\* A service page that does not show its service has asked for it or has been told that there
\* is none, whatever pages were visited before and however late their answers come: a visit
\* forgets the calls of the page it leaves (ServiceView.tsx:31-53).
THEOREM InspectorStaysExplained == DashSpec => []InspectorIsExplained
<1>1. DashInit => InspectorInv /\ route \in Routes
  BY InspectorInitially DEF DashInit, Routes
<1>2. (InspectorInv /\ route \in Routes) /\ [DashNext]_dashVars => (InspectorInv /\ route \in Routes)'
  BY InspectorStep
<1> QED
  BY <1>1, <1>2, InspectorExplains, PTL DEF DashSpec

----------------------------------------------------------------------------
(***************************************************************************)
(* Filters.  Picked counts the places it keeps: as many as there are, in   *)
(* their order.                                                            *)
(***************************************************************************)
LEMMA LeastNatural ==
  ASSUME NEW T \in SUBSET Nat, T # {}
  PROVE  \E x \in T : \A y \in T : x <= y
<1> DEFINE R == OpToRel(<, Nat)
<1>1. PICK x \in T : \A y \in T : ~ (<<y, x>> \in R)
  <2>1. IsWellFoundedOn(R, Nat)
    BY NatLessThanWellFounded
  <2> HIDE DEF R
  <2> QED
    BY <2>1, WFMin
<1>2. \A y \in T : ~ (y < x)
  BY <1>1 DEF OpToRel
<1> QED
  BY <1>2

Rank(K, k) == Cardinality({j \in K : j <= k})

LEMMA RanksCount ==
  ASSUME NEW n \in Nat, NEW K \in SUBSET (1..n)
  PROVE  /\ Cardinality(K) \in Nat /\ Cardinality(K) <= n
         /\ \A k \in K : Rank(K, k) \in 1..Cardinality(K)
         /\ \A j, k \in K : j < k => Rank(K, j) < Rank(K, k)
         /\ \A i \in 1..Cardinality(K) : \E k \in K : Rank(K, k) = i
<1> DEFINE below(k) == {j \in K : j <= k}
<1>1. IsFiniteSet(1..n) /\ Cardinality(1..n) = n
  <2>1. 1 \in Int /\ n \in Int
    OBVIOUS
  <2> QED
    BY <2>1, FS_Interval
<1>2. IsFiniteSet(K) /\ Cardinality(K) \in Nat /\ Cardinality(K) <= n
  <2> DEFINE N == 1..n
  <2>1. IsFiniteSet(N) /\ Cardinality(N) = n /\ K \in SUBSET N
    BY <1>1
  <2> HIDE DEF N
  <2>2. IsFiniteSet(K) /\ Cardinality(K) <= Cardinality(N)
    BY <2>1, FS_Subset
  <2> QED
    BY <2>1, <2>2, FS_CardinalityType
<1>3. ASSUME NEW k \in K
      PROVE  IsFiniteSet(below(k)) /\ Rank(K, k) \in 1..Cardinality(K)
  <2>1. below(k) \in SUBSET K /\ k \in below(k)
    OBVIOUS
  <2>2. Rank(K, k) = Cardinality(below(k))
    BY DEF Rank
  <2> HIDE DEF below
  <2>3. IsFiniteSet(below(k)) /\ Cardinality(below(k)) <= Cardinality(K)
    BY <1>2, <2>1, FS_Subset
  <2>4. Cardinality(below(k)) \in Nat /\ Cardinality(below(k)) # 0
    BY <2>1, <2>3, FS_CardinalityType, FS_EmptySet
  <2> QED
    BY <1>2, <2>2, <2>3, <2>4
<1>4. ASSUME NEW j \in K, NEW k \in K, j < k
      PROVE  Rank(K, j) < Rank(K, k)
  <2>1. j \in Nat /\ k \in Nat /\ \A i \in K : i \in Nat
    OBVIOUS
  <2>7. \A i \in K : i <= j => i <= k
    BY <1>4, <2>1
  <2>8. k <= k /\ ~ (k <= j)
    BY <1>4, <2>1
  <2>2. below(j) \in SUBSET below(k) /\ k \in below(k) /\ k \notin below(j)
    BY <2>7, <2>8
  <2>3. Rank(K, k) = Cardinality(below(k)) /\ Rank(K, j) = Cardinality(below(j))
    BY DEF Rank
  <2>4. IsFiniteSet(below(k)) /\ IsFiniteSet(below(j))
    BY <1>3
  <2> HIDE DEF below
  <2>5. Cardinality(below(j)) <= Cardinality(below(k)) /\ Cardinality(below(j)) # Cardinality(below(k))
    BY <2>2, <2>4, FS_Subset
  <2>6. Cardinality(below(j)) \in Nat /\ Cardinality(below(k)) \in Nat
    BY <2>4, FS_CardinalityType
  <2> QED
    BY <2>3, <2>5, <2>6
<1>6. ASSUME NEW k \in K PROVE Rank(K, k) \in Nat
  <2>1. Rank(K, k) \in 1..Cardinality(K)
    BY <1>3
  <2> HIDE DEF below
  <2> QED
    BY <1>2, <2>1
<1>5. \A i \in 1..Cardinality(K) : \E k \in K : Rank(K, k) = i
  <2> DEFINE m == Cardinality(K)
             M == 1..m
             rank == [k \in K |-> Rank(K, k)]
  <2>1. rank \in [K -> M]
    BY <1>3
  <2>2. \A j, k \in K : j # k => rank[j] # rank[k]
    <3> SUFFICES ASSUME NEW j \in K, NEW k \in K, j # k PROVE Rank(K, j) # Rank(K, k)
      OBVIOUS
    <3>1. j < k \/ k < j
      OBVIOUS
    <3>2. Rank(K, j) \in Nat /\ Rank(K, k) \in Nat
      BY <1>6
    <3> QED
      BY <1>4, <3>1, <3>2
  <2>3. IsFiniteSet(M) /\ Cardinality(M) = Cardinality(K)
    <3>1. 1 \in Int /\ m \in Int /\ m >= 0
      BY <1>2
    <3> HIDE DEF m
    <3>2. IsFiniteSet(M) /\ Cardinality(M) = m
      BY <3>1, FS_Interval
    <3> QED
      BY <3>2 DEF m
  <2>4. \A k \in K : rank[k] = Rank(K, k)
    OBVIOUS
  <2> HIDE DEF rank, M
  <2>5. rank \in Injection(K, M)
    BY <2>1, <2>2 DEF Injection, IsInjective
  <2>6. rank \in Surjection(K, M)
    BY <2>3, <2>5, FS_Injection
  <2>7. \A i \in M : \E k \in K : rank[k] = i
    BY <2>6 DEF Surjection
  <2> QED
    BY <2>4, <2>7 DEF M
<1> QED
  BY <1>2, <1>3, <1>4, <1>5

\* A filter of a sequence: place[n] is where the n-th that is kept stood.
ArePlaces(place, q, K) ==
  /\ place \in [1..Cardinality(K) -> K]
  /\ \A n \in 1..Cardinality(K) : Picked(q, K)[n] = q[place[n]]
  /\ \A m, n \in 1..Cardinality(K) : m < n => place[m] < place[n]
  /\ \A k \in K : \E n \in 1..Cardinality(K) : place[n] = k

LEMMA PickedPlaces ==
  ASSUME NEW S, NEW q \in Seq(S), NEW K \in SUBSET (1..Len(q))
  PROVE  /\ Picked(q, K) \in Seq(S) /\ Len(Picked(q, K)) = Cardinality(K) /\ Cardinality(K) \in 0..Len(q)
         /\ \E place : ArePlaces(place, q, K)
<1>1. Len(q) \in Nat
  OBVIOUS
<1> DEFINE c == Cardinality(K)
           at(n) == CHOOSE k \in K : Rank(K, k) = n
<1>2. /\ c \in Nat /\ c <= Len(q)
      /\ \A k \in K : Rank(K, k) \in 1..c
      /\ \A j, k \in K : j < k => Rank(K, j) < Rank(K, k)
      /\ \A i \in 1..c : \E k \in K : Rank(K, k) = i
  BY <1>1, RanksCount
<1>3. \A n \in 1..c : at(n) \in K /\ Rank(K, at(n)) = n
  BY <1>2
<1>4. Picked(q, K) = [n \in 1..c |-> q[at(n)]]
  BY DEF Picked, Rank
<1> DEFINE place == [n \in 1..c |-> at(n)]
<1>5. place \in [1..c -> K] /\ \A n \in 1..c : place[n] = at(n)
  BY <1>3
<1> HIDE DEF at, place
<1>6. \A k \in K : k \in Nat /\ q[k] \in S
  BY <1>1
<1>7. ASSUME NEW m \in 1..c, NEW n \in 1..c, m < n
      PROVE  place[m] < place[n]
  <2>1. place[m] \in K /\ place[n] \in K /\ Rank(K, place[m]) = m /\ Rank(K, place[n]) = n
    BY <1>3, <1>5
  <2>2. place[m] \in Nat /\ place[n] \in Nat
    BY <1>6, <2>1
  <2>5. m \in Nat /\ n \in Nat
    BY <1>2
  <2>3. place[n] < place[m] => n < m
    BY <1>2, <2>1
  <2>4. place[n] = place[m] => n = m
    BY <2>1
  <2> QED
    BY <1>7, <2>2, <2>3, <2>4, <2>5
<1>8. ASSUME NEW k \in K
      PROVE  \E n \in 1..c : place[n] = k
  <2> DEFINE n == Rank(K, k)
  <2>1. n \in 1..c /\ place[n] \in K /\ Rank(K, place[n]) = n /\ Rank(K, k) = n
    BY <1>2, <1>3, <1>5
  <2>2. k \in Nat /\ place[n] \in Nat
    BY <1>6, <2>1
  <2> HIDE DEF n
  <2>5. n \in Nat /\ ~ (n < n)
    BY <1>2, <2>1
  <2>3. ~ (k < place[n]) /\ ~ (place[n] < k)
    BY <1>2, <2>1, <2>5
  <2>4. place[n] = k
    BY <2>2, <2>3
  <2> QED
    BY <2>1, <2>4
<1>9. Picked(q, K) \in [1..c -> S]
  BY <1>3, <1>4, <1>6
<1>10. Picked(q, K) \in Seq(S) /\ Len(Picked(q, K)) = c
  BY <1>2, <1>9
<1>11. \A n \in 1..c : Picked(q, K)[n] = q[place[n]]
  BY <1>4, <1>5
<1>12. ArePlaces(place, q, K)
  BY <1>5, <1>7, <1>8, <1>11 DEF ArePlaces
<1>13. c \in 0..Len(q)
  BY <1>1, <1>2
<1> QED
  BY <1>10, <1>12, <1>13

----------------------------------------------------------------------------
(***************************************************************************)
(* The newest n events of a set, newest first, are one sequence.           *)
(***************************************************************************)
NewestFirst(q) == \A i, j \in 1..Len(q) : i < j => q[i].id > q[j].id

Has(q, e) == \E i \in 1..Len(q) : q[i] = e

Logged(S) == \A d, e \in S : d.id \in Nat /\ (d.id = e.id => d = e)

IsLatest(q, S, n) ==
  /\ q \in Seq(S) /\ NewestFirst(q) /\ Len(q) <= n
  /\ \A e \in S : Has(q, e) \/ (Len(q) = n /\ \A i \in 1..n : q[i].id > e.id)

\* Two sequences that agree up to i, of which one has more.
LEMMA LatestGoesOn ==
  ASSUME NEW S, Logged(S), NEW n \in Nat, NEW p, NEW q, IsLatest(p, S, n), IsLatest(q, S, n),
         NEW i \in Nat, i < Len(q), i <= Len(p),
         \A j \in 1..i : p[j] = q[j]
  PROVE  i < Len(p) /\ p[i + 1].id >= q[i + 1].id
<1> DEFINE e == q[i + 1]
<1>1. /\ Len(p) \in Nat /\ Len(q) \in Nat /\ Len(p) <= n /\ Len(q) <= n /\ i + 1 \in 1..Len(q) /\ e \in S
      /\ e.id \in Nat
  BY DEF IsLatest, Logged
<1>2. \A j \in 1..Len(p) : p[j] \in S /\ p[j].id \in Nat
  BY DEF IsLatest, Logged
<1>3. ASSUME NEW j \in 1..i PROVE p[j].id > e.id
  <2>1. j \in 1..Len(q) /\ j < i + 1 /\ p[j] = q[j]
    BY <1>1
  <2>2. q[j].id > q[i + 1].id
    BY <1>1, <2>1 DEF IsLatest, NewestFirst
  <2> QED
    BY <2>1, <2>2
<1>4. CASE Has(p, e)
  <2>1. PICK k \in 1..Len(p) : p[k] = e
    BY <1>4 DEF Has
  <2>2. k > i
    <3>1. CASE k \in 1..i
      BY <1>1, <1>3, <2>1, <3>1
    <3> QED
      BY <2>1, <3>1
  <2>3. i < Len(p) /\ i + 1 \in 1..Len(p)
    BY <1>1, <2>1, <2>2
  <2>4. CASE k = i + 1
    BY <1>1, <2>1, <2>3, <2>4
  <2>5. CASE k # i + 1
    <3>1. i + 1 < k
      BY <2>2, <2>5
    <3>2. p[i + 1].id > p[k].id
      BY <2>1, <2>3, <3>1 DEF IsLatest, NewestFirst
    <3> QED
      BY <1>1, <1>2, <2>1, <2>3, <3>2
  <2> QED
    BY <2>4, <2>5
<1>5. CASE ~ Has(p, e)
  <2>1. Len(p) = n /\ \A j \in 1..n : p[j].id > e.id
    BY <1>1, <1>5 DEF IsLatest
  <2>2. i < Len(p) /\ i + 1 \in 1..n
    BY <1>1, <2>1
  <2>3. p[i + 1].id > e.id /\ p[i + 1].id \in Nat
    BY <1>2, <2>1, <2>2
  <2> QED
    BY <1>1, <2>2, <2>3
<1> QED
  BY <1>4, <1>5

LEMMA LatestIsOne ==
  ASSUME NEW S, Logged(S), NEW n \in Nat, NEW p, NEW q, IsLatest(p, S, n), IsLatest(q, S, n)
  PROVE  p = q
<1>1. p \in Seq(S) /\ q \in Seq(S) /\ Len(p) \in Nat /\ Len(q) \in Nat
  BY DEF IsLatest
<1> DEFINE apart == {i \in Nat : i + 1 \in (1..Len(p)) \cup (1..Len(q))
                                /\ ~ (i + 1 \in 1..Len(p) /\ i + 1 \in 1..Len(q) /\ p[i + 1] = q[i + 1])}
<1>2. ASSUME apart # {} PROVE FALSE
  <2>1. PICK i \in apart : \A j \in apart : i <= j
    <3>1. apart \in SUBSET Nat
      OBVIOUS
    <3> HIDE DEF apart
    <3> QED
      BY <1>2, <3>1, LeastNatural
  <2>2. i \in Nat /\ (i + 1 \in 1..Len(p) \/ i + 1 \in 1..Len(q))
    BY <2>1
  <2>3. \A j \in 1..i : j \in 1..Len(p) /\ j \in 1..Len(q) /\ p[j] = q[j]
    <3> SUFFICES ASSUME NEW j \in 1..i PROVE j \in 1..Len(p) /\ j \in 1..Len(q) /\ p[j] = q[j]
      OBVIOUS
    <3>1. j - 1 \in Nat /\ (j - 1) + 1 = j /\ ~ (i <= j - 1)
      BY <2>2
    <3>2. j - 1 \notin apart
      BY <2>1, <3>1
    <3>3. j \in 1..Len(p) \/ j \in 1..Len(q)
      BY <1>1, <2>2
    <3> QED
      BY <3>1, <3>2, <3>3
  <2>4. i <= Len(p) /\ i <= Len(q)
    <3>1. i = 0 \/ i \in 1..i
      BY <2>2
    <3> QED
      BY <1>1, <2>2, <2>3, <3>1
  <2>5. i < Len(p) /\ i < Len(q) /\ p[i + 1].id >= q[i + 1].id /\ q[i + 1].id >= p[i + 1].id
    <3>1. i < Len(q) => i < Len(p) /\ p[i + 1].id >= q[i + 1].id
      BY <2>2, <2>3, <2>4, LatestGoesOn
    <3>2. i < Len(p) => i < Len(q) /\ q[i + 1].id >= p[i + 1].id
      BY <2>2, <2>3, <2>4, LatestGoesOn
    <3> QED
      BY <1>1, <2>2, <3>1, <3>2
  <2>6. i + 1 \in 1..Len(p) /\ i + 1 \in 1..Len(q)
    BY <1>1, <2>2, <2>5
  <2>7. p[i + 1] \in S /\ q[i + 1] \in S
    BY <1>1, <2>6
  <2>8. p[i + 1].id = q[i + 1].id
    BY <2>5, <2>7 DEF Logged
  <2>9. p[i + 1] = q[i + 1]
    BY <2>7, <2>8 DEF Logged
  <2> QED
    BY <2>1, <2>6, <2>9
<1>3. \A k \in 1..Len(p) : k \in 1..Len(q) /\ p[k] = q[k]
  <2> SUFFICES ASSUME NEW k \in 1..Len(p) PROVE k \in 1..Len(q) /\ p[k] = q[k]
    OBVIOUS
  <2>1. k - 1 \in Nat /\ (k - 1) + 1 = k
    BY <1>1
  <2> QED
    BY <1>2, <2>1
<1>4. \A k \in 1..Len(q) : k \in 1..Len(p)
  <2> SUFFICES ASSUME NEW k \in 1..Len(q) PROVE k \in 1..Len(p)
    OBVIOUS
  <2>1. k - 1 \in Nat /\ (k - 1) + 1 = k
    BY <1>1
  <2> QED
    BY <1>2, <2>1
<1>5. Len(p) = Len(q)
  <2>1. Len(p) = 0 \/ Len(p) \in 1..Len(p)
    BY <1>1
  <2>2. Len(q) = 0 \/ Len(q) \in 1..Len(q)
    BY <1>1
  <2> QED
    BY <1>1, <1>3, <1>4, <2>1, <2>2
<1>6. p = [k \in 1..Len(p) |-> p[k]] /\ q = [k \in 1..Len(q) |-> q[k]]
  BY <1>1
<1> QED
  BY <1>3, <1>5, <1>6

\* The newest of a sequence that has all events of a set, or enough of them.
LEMMA LatestOf ==
  ASSUME NEW S, NEW q \in Seq(S), NewestFirst(q), NEW n \in Nat, Logged(S),
         \A e \in S : Has(q, e) \/ (Len(q) >= n /\ \A i \in 1..n : q[i].id > e.id)
  PROVE  IsLatest(FirstOf(q, n), S, n)
<1> DEFINE m == IF Len(q) < n THEN Len(q) ELSE n
           p == SubSeq(q, 1, m)
<1>1. Len(q) \in Nat /\ m \in Nat /\ m <= Len(q) /\ m <= n
  OBVIOUS
<1>2. p = FirstOf(q, n)
  BY DEF FirstOf
<1>3. m = n \/ m = Len(q)
  BY <1>1
<1> HIDE DEF m
<1>4. p \in Seq(S) /\ Len(p) = m /\ \A i \in 1..m : p[i] = q[i]
  BY <1>1
<1> HIDE DEF p
<1>5. NewestFirst(p)
  BY <1>1, <1>4 DEF NewestFirst
<1>6. ASSUME NEW e \in S, ~ Has(p, e)
      PROVE  m = n /\ \A i \in 1..n : p[i].id > e.id
  <2>1. CASE Has(q, e)
    <3>1. PICK k \in 1..Len(q) : q[k] = e
      BY <2>1 DEF Has
    <3>2. k > m
      <4>1. ASSUME k \in 1..m PROVE FALSE
        BY <1>4, <1>6, <3>1, <4>1 DEF Has
      <4> QED
        BY <1>1, <4>1
    <3>3. m = n
      BY <1>1, <1>3, <3>2
    <3>4. ASSUME NEW i \in 1..n PROVE p[i].id > e.id
      <4>1. i \in 1..Len(q) /\ i < k /\ i \in 1..m
        BY <1>1, <3>2, <3>3
      <4> QED
        BY <1>4, <3>1, <4>1 DEF NewestFirst
    <3> QED
      BY <3>3, <3>4
  <2>2. CASE ~ Has(q, e)
    <3>1. Len(q) >= n /\ \A i \in 1..n : q[i].id > e.id
      BY <2>2
    <3>2. m = n
      BY <1>1, <1>3, <3>1
    <3> QED
      BY <1>4, <3>1, <3>2
  <2> QED
    BY <2>1, <2>2
<1> QED
  BY <1>1, <1>2, <1>4, <1>5, <1>6 DEF IsLatest
----------------------------------------------------------------------------
(***************************************************************************)
(* The feed.  What is on its way to a dashboard that has heard of the      *)
(* events up to a are those of S from a + 1 to c, in order: heard says     *)
(* after each frame how far the dashboard will have come.                  *)
(***************************************************************************)
IsNews(f) == f.type = "events"

Brings(f, from, to, S) ==
  IF ~IsNews(f) THEN to = from
  ELSE \/ to = from + 1 /\ \E e \in S : e.id = to /\ f.events = <<e>>
       \/ to = from + 2 /\ \E d, e \in S : d.id = from + 1 /\ e.id = to /\ f.events = <<d, e>>

HeardAlong(q, heard, S) == \A i \in 1..Len(q) : Brings(q[i], heard[i - 1], heard[i], S)

Carries(q, a, c, S) ==
  /\ Frames(q)
  /\ \E heard \in [0..Len(q) -> Nat] : heard[0] = a /\ heard[Len(q)] = c /\ HeardAlong(q, heard, S)

LEMMA FramesAreSequence ==
  ASSUME NEW q, Frames(q)
  PROVE  /\ Len(q) \in Nat /\ DOMAIN q = 1..Len(q)
         /\ (q = <<>> <=> Len(q) = 0)
BY DEF Frames

LEMMA NothingCarried ==
  ASSUME NEW S, NEW a \in Nat
  PROVE  Carries(<<>>, a, a, S)
<1> DEFINE heard == [i \in 0..0 |-> a]
<1>1. Len(<<>>) = 0
  OBVIOUS
<1>2. heard \in [0..Len(<<>>) -> Nat] /\ heard[0] = a /\ heard[Len(<<>>)] = a /\ HeardAlong(<<>>, heard, S)
  BY <1>1 DEF HeardAlong
<1> HIDE DEF heard
<1> QED
  BY <1>2, NoFrames DEF Carries

LEMMA FrameCarries ==
  ASSUME NEW S, NEW a \in Nat, NEW b \in Nat, NEW f, FrameOK(f), Brings(f, a, b, S)
  PROVE  Carries(<<f>>, a, b, S)
<1> DEFINE heard == [i \in 0..1 |-> IF i = 0 THEN a ELSE b]
<1>1. Len(<<f>>) = 1 /\ <<f>>[1] = f
  OBVIOUS
<1>2. heard \in [0..Len(<<f>>) -> Nat] /\ heard[0] = a /\ heard[1] = b
  BY <1>1
<1> HIDE DEF heard
<1>3. HeardAlong(<<f>>, heard, S)
  <2> SUFFICES ASSUME NEW i \in 1..1 PROVE Brings(<<f>>[i], heard[i - 1], heard[i], S)
    BY <1>1 DEF HeardAlong
  <2>1. i = 1 /\ i - 1 = 0
    OBVIOUS
  <2> QED
    BY <1>1, <1>2, <2>1
<1> QED
  BY <1>1, <1>2, <1>3, OneFrame DEF Carries

LEMMA OldFrame ==
  ASSUME NEW S, NEW a \in Nat, NEW f, FrameOK(f), ~IsNews(f)
  PROVE  Carries(<<f>>, a, a, S)
BY FrameCarries DEF Brings

LEMMA CarriedOn ==
  ASSUME NEW S, NEW p, NEW q, NEW a, NEW b, NEW c, Carries(p, a, b, S), Carries(q, b, c, S)
  PROVE  Carries(p \o q, a, c, S)
<1>1. PICK h \in [0..Len(p) -> Nat] : h[0] = a /\ h[Len(p)] = b /\ HeardAlong(p, h, S)
  BY DEF Carries
<1>2. PICK g \in [0..Len(q) -> Nat] : g[0] = b /\ g[Len(q)] = c /\ HeardAlong(q, g, S)
  BY DEF Carries
<1>3. Frames(p) /\ Frames(q) /\ Frames(p \o q)
  BY MoreFrames DEF Carries
<1>4. PICK F : p \in Seq(F)
  BY <1>3 DEF Frames
<1>5. PICK G : q \in Seq(G)
  BY <1>3 DEF Frames
<1>6. /\ Len(p) \in Nat /\ Len(q) \in Nat /\ Len(p \o q) = Len(p) + Len(q)
      /\ \A i \in 1..Len(p) : (p \o q)[i] = p[i]
      /\ \A i \in 1..(Len(p) + Len(q)) : i > Len(p) => (p \o q)[i] = q[i - Len(p)]
  <2>1. p \in Seq(F \cup G) /\ q \in Seq(F \cup G)
    BY <1>4, <1>5
  <2> QED
    BY <2>1
<1> DEFINE n == Len(p)
           m == Len(q)
           heard == [i \in 0..(n + m) |-> IF i <= n THEN h[i] ELSE g[i - n]]
<1>7. heard \in [0..(n + m) -> Nat]
  BY <1>1, <1>2, <1>6
<1>8. \A i \in 0..(n + m) : (i <= n => heard[i] = h[i]) /\ (i >= n => heard[i] = g[i - n])
  BY <1>1, <1>2, <1>6
<1> HIDE DEF heard
<1>9. ASSUME NEW i \in 1..(n + m)
      PROVE  Brings((p \o q)[i], heard[i - 1], heard[i], S)
  <2>1. CASE i <= n
    <3>1. i \in 1..n /\ (p \o q)[i] = p[i] /\ heard[i] = h[i] /\ heard[i - 1] = h[i - 1]
      BY <1>6, <1>8, <2>1
    <3> QED
      BY <1>1, <3>1 DEF HeardAlong
  <2>2. CASE i > n
    <3> DEFINE j == i - n
    <3>1. j \in 1..m /\ i \in 0..(n + m) /\ i - 1 \in 0..(n + m) /\ i - 1 >= n /\ (i - 1) - n = j - 1
      BY <1>6, <2>2
    <3>2. (p \o q)[i] = q[j]
      BY <1>6, <2>2
    <3>3. heard[i] = g[i - n] /\ heard[i - 1] = g[(i - 1) - n]
      BY <1>6, <1>8, <2>2, <3>1
    <3>4. heard[i] = g[j] /\ heard[i - 1] = g[j - 1]
      BY <3>1, <3>3
    <3> HIDE DEF j
    <3> QED
      BY <1>2, <3>1, <3>2, <3>4 DEF HeardAlong
  <2>3. i <= n \/ i > n
    BY <1>6
  <2> QED
    BY <2>1, <2>2, <2>3
<1>10. heard[0] = a /\ heard[n + m] = c
  BY <1>1, <1>2, <1>6, <1>8
<1> QED
  BY <1>3, <1>6, <1>7, <1>9, <1>10 DEF Carries, HeardAlong

\* The frames up to a place carry a part of the events, and those from there the rest.
LEMMA CarriedInParts ==
  ASSUME NEW S, NEW q, NEW a, NEW c, Carries(q, a, c, S), NEW k \in 0..Len(q)
  PROVE  \E b \in Nat : Carries(SubSeq(q, 1, k), a, b, S) /\ Carries(SubSeq(q, k + 1, Len(q)), b, c, S)
<1>1. PICK h \in [0..Len(q) -> Nat] : h[0] = a /\ h[Len(q)] = c /\ HeardAlong(q, h, S)
  BY DEF Carries
<1>2. PICK F : q \in Seq(F)
  BY DEF Carries, Frames
<1> DEFINE n == Len(q)
           p == SubSeq(q, 1, k)
           r == SubSeq(q, k + 1, n)
<1>3. /\ n \in Nat /\ Len(p) = k /\ Len(r) = n - k
      /\ \A i \in 1..k : p[i] = q[i]
      /\ \A i \in 1..(n - k) : r[i] = q[k + i]
  BY <1>2
<1>4. Frames(p) /\ Frames(r)
  BY <1>3, FewerFrames DEF Carries
<1> HIDE DEF p, r
<1> DEFINE first == [i \in 0..k |-> h[i]]
           rest  == [i \in 0..(n - k) |-> h[k + i]]
<1>5. first \in [0..k -> Nat] /\ rest \in [0..(n - k) -> Nat]
  BY <1>1, <1>3
<1>6. (\A i \in 0..k : first[i] = h[i]) /\ (\A i \in 0..(n - k) : rest[i] = h[k + i])
  BY <1>3
<1> HIDE DEF first, rest
<1>7. HeardAlong(p, first, S)
  <2> SUFFICES ASSUME NEW i \in 1..k
               PROVE  Brings(p[i], first[i - 1], first[i], S)
    BY <1>3 DEF HeardAlong
  <2>1. i \in 1..n /\ p[i] = q[i] /\ first[i] = h[i] /\ first[i - 1] = h[i - 1]
    BY <1>3, <1>6
  <2> QED
    BY <1>1, <2>1 DEF HeardAlong
<1>8. HeardAlong(r, rest, S)
  <2> SUFFICES ASSUME NEW i \in 1..(n - k)
               PROVE  Brings(r[i], rest[i - 1], rest[i], S)
    BY <1>3 DEF HeardAlong
  <2> DEFINE j == k + i
  <2>1. j \in 1..n /\ i \in 0..(n - k) /\ i - 1 \in 0..(n - k) /\ k + (i - 1) = j - 1
    BY <1>3
  <2>2. r[i] = q[j] /\ rest[i] = h[j] /\ rest[i - 1] = h[j - 1]
    BY <1>3, <1>6, <2>1
  <2> HIDE DEF j
  <2> QED
    BY <1>1, <2>1, <2>2 DEF HeardAlong
<1>9. h[k] \in Nat /\ first[0] = a /\ first[k] = h[k] /\ rest[0] = h[k] /\ rest[n - k] = c
  <2>1. /\ 0 \in 0..k /\ k \in 0..k /\ 0 \in 0..(n - k) /\ (n - k) \in 0..(n - k)
        /\ k + 0 = k /\ k + (n - k) = n
    BY <1>3
  <2>2. rest[0] = h[k + 0] /\ rest[n - k] = h[k + (n - k)]
    BY <1>6, <2>1
  <2> QED
    BY <1>1, <1>3, <1>6, <2>1, <2>2
<1>10. Carries(p, a, h[k], S) /\ Carries(r, h[k], c, S)
  BY <1>3, <1>4, <1>5, <1>7, <1>8, <1>9 DEF Carries
<1> QED
  BY <1>9, <1>10 DEF p, r

\* The first frame brings the next events, or none.
LEMMA NextHeard ==
  ASSUME NEW S, NEW q, NEW a, NEW c, Carries(q, a, c, S), q # <<>>
  PROVE  \E b \in Nat : Brings(Head(q), a, b, S) /\ Carries(Tail(q), b, c, S)
<1>1. PICK h \in [0..Len(q) -> Nat] : h[0] = a /\ h[Len(q)] = c /\ HeardAlong(q, h, S)
  BY DEF Carries
<1>2. PICK F : q \in Seq(F)
  BY DEF Carries, Frames
<1> DEFINE n == Len(q)
           r == Tail(q)
<1>3. /\ n \in Nat \ {0} /\ Head(q) = q[1] /\ Len(r) = n - 1
      /\ \A i \in 1..(n - 1) : r[i] = q[1 + i]
  BY <1>2
<1>4. Frames(r)
  BY FirstFrame DEF Carries
<1> HIDE DEF r
<1> DEFINE rest == [i \in 0..(n - 1) |-> h[1 + i]]
<1>5. rest \in [0..(n - 1) -> Nat]
  BY <1>1, <1>3
<1>6. \A i \in 0..(n - 1) : rest[i] = h[1 + i]
  BY <1>3
<1> HIDE DEF rest
<1>7. HeardAlong(r, rest, S)
  <2> SUFFICES ASSUME NEW i \in 1..(n - 1)
               PROVE  Brings(r[i], rest[i - 1], rest[i], S)
    BY <1>3 DEF HeardAlong
  <2> DEFINE j == 1 + i
  <2>1. j \in 1..n /\ r[i] = q[j] /\ rest[i] = h[j] /\ rest[i - 1] = h[j - 1]
    BY <1>3, <1>6
  <2> HIDE DEF j
  <2> QED
    BY <1>1, <2>1 DEF HeardAlong
<1>8. h[1] \in Nat /\ rest[0] = h[1] /\ rest[n - 1] = c
  BY <1>1, <1>3, <1>6
<1>9. Carries(r, h[1], c, S)
  BY <1>3, <1>4, <1>5, <1>7, <1>8 DEF Carries
<1>10. 1 \in 1..Len(q) /\ 1 - 1 = 0
  BY <1>3
<1>11. Brings(q[1], h[0], h[1], S)
  BY <1>1, <1>10 DEF HeardAlong
<1> QED
  BY <1>1, <1>3, <1>8, <1>9, <1>11 DEF r

\* Frames bring events and take none back.
LEMMA HeardGrows ==
  ASSUME NEW S, NEW q, NEW a, NEW c, Carries(q, a, c, S)
  PROVE  a \in Nat /\ c \in Nat /\ a <= c
<1>1. PICK h \in [0..Len(q) -> Nat] : h[0] = a /\ h[Len(q)] = c /\ HeardAlong(q, h, S)
  BY DEF Carries
<1>2. Len(q) \in Nat
  BY FramesAreSequence DEF Carries
<1>3. a \in Nat /\ c \in Nat
  BY <1>1, <1>2
<1> DEFINE less == {i \in 0..Len(q) : h[i] < a}
<1>4. ASSUME less # {} PROVE FALSE
  <2>1. PICK x \in less : \A y \in less : x <= y
    <3>1. less \in SUBSET Nat
      BY <1>2
    <3> HIDE DEF less
    <3> QED
      BY <1>4, <3>1, LeastNatural
  <2>2. x \in 1..Len(q) /\ x - 1 \in 0..Len(q) /\ h[x] < a /\ h[x] \in Nat /\ h[x - 1] \in Nat
    BY <1>1, <1>2, <1>3, <2>1
  <2>3. x - 1 \notin less
    BY <2>1, <2>2
  <2>4. h[x - 1] >= a
    BY <1>3, <2>2, <2>3
  <2>6. Brings(q[x], h[x - 1], h[x], S)
    BY <1>1, <2>2 DEF HeardAlong
  <2>5. h[x] \in {h[x - 1], h[x - 1] + 1, h[x - 1] + 2}
    BY <2>6 DEF Brings
  <2> QED
    BY <1>3, <2>2, <2>4, <2>5
<1>5. ~ (h[Len(q)] < a)
  BY <1>2, <1>4
<1> QED
  BY <1>1, <1>3, <1>5

\* What is carried of some events is carried of more.
LEMMA CarriedOfMore ==
  ASSUME NEW q, NEW a, NEW c, NEW S, NEW T, S \subseteq T, Carries(q, a, c, S)
  PROVE  Carries(q, a, c, T)
BY DEF Carries, HeardAlong, Brings
----------------------------------------------------------------------------
(***************************************************************************)
(* The log of the daemon, and what the buffer has of it.                   *)
(***************************************************************************)
LoggedEvent == [id : Nat \ {0}, about : SUBSET Service, project : Project \cup {NoProject}]

LogInv ==
  /\ tick \in 0..MaxTicks /\ minted \in Nat
  /\ {"up", "log", "rev"} \subseteq DOMAIN daemon /\ daemon.rev \in [Service -> 0..MaxTicks]
  /\ daemon.log \in Seq(LoggedEvent)
  /\ \A i \in 1..Len(daemon.log) : daemon.log[i].id <= minted
  /\ \A i, j \in 1..Len(daemon.log) : i < j => daemon.log[i].id < daemon.log[j].id
  /\ ~daemon.up => daemon.log = <<>>

\* A buffer that has heard of the events up to heard: newest first, and numbered without a
\* hole where it is of this connection.
Follows(q, from, heard) ==
  /\ NewestFirst(q)
  /\ \A i \in 1..Len(q) : q[i].id <= heard
  /\ \A i \in 1..Len(q) : q[i].id > from => q[i].id = heard + 1 - i

\* What it has of this connection is of the events S, and all of them that it has room for.
Knows(q, from, heard, S) ==
  /\ \A i \in 1..Len(q) : q[i].id > from => q[i] \in S
  /\ Len(q) < EVENT_BUFFER => heard - from <= Len(q)

\* What the dashboard has not heard of is on its way, if anything is.
Hears(heard) ==
  /\ Follows(view.events, since, heard)
  /\ link \in {"subscribed", "live"} =>
       /\ Carries(channel, heard, minted, ToSet(daemon.log))
       /\ Knows(view.events, since, heard, ToSet(daemon.log))
  /\ link \notin {"subscribed", "live"} => channel = <<>>

FeedInv ==
  /\ LogInv /\ since \in Nat
  /\ "events" \in DOMAIN view /\ view.events \in Seq(LoggedEvent) /\ Len(view.events) <= EVENT_BUFFER
  /\ \E heard \in since..minted : Hears(heard)

LEMMA EventsHaveIds ==
  ASSUME NEW q \in Seq(LoggedEvent)
  PROVE  /\ Len(q) \in Nat
         /\ \A i \in 1..Len(q) : q[i] \in LoggedEvent /\ q[i].id \in Nat \ {0}
<1>1. \A i \in 1..Len(q) : q[i] \in LoggedEvent
  OBVIOUS
<1> QED
  BY <1>1 DEF LoggedEvent

LEMMA LogIsLogged ==
  ASSUME LogInv
  PROVE  /\ ToSet(daemon.log) \subseteq LoggedEvent /\ Logged(ToSet(daemon.log))
         /\ \A e \in ToSet(daemon.log) : e.id \in Nat /\ e.id > 0 /\ e.id <= minted
<1> DEFINE log == daemon.log
<1>1. /\ Len(log) \in Nat /\ DOMAIN log = 1..Len(log)
      /\ \A i \in 1..Len(log) : log[i] \in LoggedEvent /\ log[i].id \in Nat \ {0}
  BY EventsHaveIds DEF LogInv
<1>2. ToSet(log) = {log[i] : i \in 1..Len(log)}
  BY <1>1 DEF ToSet
<1>3. ASSUME NEW i \in 1..Len(log), NEW j \in 1..Len(log), log[i].id = log[j].id
      PROVE  log[i] = log[j]
  <2>1. i \in Nat /\ j \in Nat /\ log[i].id \in Nat
    BY <1>1
  <2>2. ~ (i < j) /\ ~ (j < i)
    BY <1>3, <2>1 DEF LogInv
  <2>3. i = j
    BY <2>1, <2>2
  <2> QED
    BY <2>3
<1>4. Logged(ToSet(log))
  BY <1>1, <1>2, <1>3 DEF Logged
<1>5. \A i \in 1..Len(log) : log[i].id <= minted /\ log[i].id > 0
  BY <1>1 DEF LogInv
<1> HIDE DEF log
<1>6. ToSet(log) \subseteq LoggedEvent /\ \A e \in ToSet(log) : e.id \in Nat /\ e.id > 0 /\ e.id <= minted
  BY <1>1, <1>2, <1>5
<1> QED
  BY <1>4, <1>6 DEF log

LEMMA FeedIsInOrder == FeedInv => FeedInOrder
<1> SUFFICES ASSUME FeedInv PROVE FeedInOrder
  OBVIOUS
<1>1. PICK heard \in since..minted : Follows(view.events, since, heard)
  BY DEF FeedInv, Hears
<1> DEFINE q == view.events
<1>2. Len(q) \in Nat /\ (\A i \in 1..Len(q) : q[i].id \in Nat) /\ since \in Nat /\ Len(q) <= EVENT_BUFFER
  BY EventsHaveIds DEF FeedInv
<1>3. ASSUME NEW i \in 1..(Len(q) - 1)
      PROVE  q[i].id > q[i + 1].id /\ (q[i + 1].id > since => q[i].id = q[i + 1].id + 1)
  <2>1. i \in 1..Len(q) /\ i + 1 \in 1..Len(q) /\ i < i + 1
    BY <1>2
  <2>2. q[i].id > q[i + 1].id
    BY <1>1, <2>1 DEF Follows, NewestFirst
  <2>3. q[i].id \in Nat /\ q[i + 1].id \in Nat /\ heard \in Nat
    BY <1>2, <2>1 DEF FeedInv
  <2>4. q[i].id > since => q[i].id = heard + 1 - i
    BY <1>1, <2>1 DEF Follows
  <2>5. q[i + 1].id > since => q[i + 1].id = heard + 1 - (i + 1)
    BY <1>1, <2>1 DEF Follows
  <2> QED
    BY <1>2, <2>2, <2>3, <2>4, <2>5
<1> QED
  BY <1>2, <1>3 DEF FeedInOrder

\* A daemon that starts or stops has no log, and a dashboard that comes up has no events.
LEMMA EmptyLog ==
  ASSUME NEW up \in BOOLEAN
  PROVE  /\ {"up", "log", "rev"} \subseteq DOMAIN Blank(up) /\ Blank(up).log = <<>> /\ Blank(up).up = up
         /\ Blank(up).log \in Seq(LoggedEvent) /\ Len(Blank(up).log) = 0
         /\ Blank(up).rev \in [Service -> 0..MaxTicks]
BY LimitAssumption DEF Blank

LEMMA FeedInitially == ViewInit => FeedInv
<1> SUFFICES ASSUME ViewInit PROVE FeedInv
  OBVIOUS
<1>1. tick = 0 /\ minted = 0 /\ since = 0 /\ channel = <<>> /\ link = "none" /\ view = EmptyView
  BY DEF ViewInit
<1>2. "events" \in DOMAIN view /\ view.events = <<>>
  BY <1>1 DEF EmptyView
<1>3. <<>> \in Seq(LoggedEvent) /\ Len(<<>>) = 0
  OBVIOUS
<1>4. Hears(0)
  BY <1>1, <1>2, <1>3 DEF Follows, NewestFirst, Hears
<1>5. Len(view.events) <= EVENT_BUFFER
  BY <1>2, <1>3, LimitAssumption
<1>6. LogInv
  <2>1. PICK up \in BOOLEAN : daemon = Blank(up)
    BY DEF ViewInit
  <2> QED
    BY <1>1, <2>1, EmptyLog, LimitAssumption DEF LogInv
<1> QED
  BY <1>1, <1>2, <1>3, <1>4, <1>5, <1>6 DEF FeedInv

\* A buffer folds in an event that it has not heard of and forgets its oldest.
LEMMA FoldedIn ==
  ASSUME NEW q \in Seq(LoggedEvent), NEW heard \in Nat, NEW from \in Nat, from <= heard,
         Follows(q, from, heard), NEW S, Knows(q, from, heard, S), Len(q) <= EVENT_BUFFER,
         NEW e \in S, e \in LoggedEvent, e.id = heard + 1
  PROVE  LET new == FirstOf(Reverse(<<e>>) \o q, EVENT_BUFFER)
         IN  /\ new \in Seq(LoggedEvent) /\ Len(new) <= EVENT_BUFFER
             /\ Follows(new, from, heard + 1) /\ Knows(new, from, heard + 1, S)
<1> DEFINE longer == <<e>> \o q
           n == IF Len(longer) < EVENT_BUFFER THEN Len(longer) ELSE EVENT_BUFFER
           new == SubSeq(longer, 1, n)
<1>2. Reverse(<<e>>) = <<e>>
  <2>1. Len(<<e>>) = 1 /\ DOMAIN <<e>> = {1} /\ 1..1 = {1} /\ <<e>>[(1 - 1) + 1] = e
    OBVIOUS
  <2>2. Reverse(<<e>>) = [i \in 1..1 |-> <<e>>[(1 - i) + 1]]
    BY <2>1 DEF Reverse
  <2> QED
    BY <2>1, <2>2
<1>3. FirstOf(Reverse(<<e>>) \o q, EVENT_BUFFER) = new
  BY <1>2 DEF FirstOf
<1>4. /\ longer \in Seq(LoggedEvent) /\ Len(longer) = Len(q) + 1 /\ Len(q) \in Nat
      /\ longer[1] = e
      /\ \A i \in 1..Len(q) : longer[i + 1] = q[i]
  OBVIOUS
<1> HIDE DEF longer
<1>5. n \in Nat /\ n <= Len(longer) /\ n <= EVENT_BUFFER /\ (n < EVENT_BUFFER => n = Len(q) + 1)
  BY <1>4, LimitAssumption
<1> HIDE DEF n
<1>6. new \in Seq(LoggedEvent) /\ Len(new) = n /\ \A i \in 1..n : new[i] = longer[i]
  BY <1>4, <1>5
<1> HIDE DEF new
<1>7. /\ \A i \in 1..Len(q) : q[i].id \in Nat /\ q[i].id <= heard
      /\ \A i \in 1..Len(q) : q[i].id > from => q[i].id = heard + 1 - i /\ q[i] \in S
      /\ \A i, j \in 1..Len(q) : i < j => q[i].id > q[j].id
  BY EventsHaveIds DEF Follows, NewestFirst, Knows
\* The element at a place is the new one or stood one place before.
<1>8. ASSUME NEW i \in 1..n
      PROVE  IF i = 1 THEN new[i] = e ELSE i - 1 \in 1..Len(q) /\ new[i] = q[i - 1]
  <2>1. CASE i = 1
    BY <1>4, <1>6, <2>1
  <2>2. CASE i # 1
    <3>1. i - 1 \in 1..Len(q) /\ (i - 1) + 1 = i
      BY <1>4, <1>5, <2>2
    <3> QED
      BY <1>4, <1>6, <2>2, <3>1
  <2> QED
    BY <2>1, <2>2
<1>9. NewestFirst(new)
  <2> SUFFICES ASSUME NEW i \in 1..n, NEW j \in 1..n, i < j PROVE new[i].id > new[j].id
    BY <1>6 DEF NewestFirst
  <2>1. j # 1 /\ j - 1 \in 1..Len(q) /\ i \in Nat /\ j \in Nat
    BY <1>4, <1>5
  <2>2. new[j] = q[j - 1]
    BY <1>8, <2>1
  <2>3. CASE i = 1
    <3>1. new[i].id = heard + 1
      BY <1>8, <2>3
    <3> QED
      BY <1>7, <2>1, <2>2, <3>1
  <2>4. CASE i # 1
    <3>1. i - 1 \in 1..Len(q) /\ new[i] = q[i - 1] /\ i - 1 < j - 1
      BY <1>8, <2>1, <2>4
    <3> QED
      BY <1>7, <2>1, <2>2, <3>1
  <2> QED
    BY <2>3, <2>4
<1>10. ASSUME NEW i \in 1..n
       PROVE  /\ new[i].id <= heard + 1
              /\ new[i].id > from => new[i].id = (heard + 1) + 1 - i /\ new[i] \in S
  <2>1. CASE i = 1
    BY <1>8, <2>1
  <2>2. CASE i # 1
    <3>1. i - 1 \in 1..Len(q) /\ new[i] = q[i - 1] /\ i \in Nat
      BY <1>5, <1>8, <2>2
    <3>2. q[i - 1].id <= heard /\ q[i - 1].id \in Nat
      BY <1>7, <3>1
    <3>3. q[i - 1].id > from => q[i - 1].id = heard + 1 - (i - 1) /\ q[i - 1] \in S
      BY <1>7, <3>1
    <3>4. heard + 1 - (i - 1) = (heard + 1) + 1 - i
      BY <3>1
    <3> QED
      BY <3>1, <3>2, <3>3, <3>4
  <2> QED
    BY <2>1, <2>2
<1>11. n < EVENT_BUFFER => (heard + 1) - from <= n
  BY <1>4, <1>5, LimitAssumption DEF Knows
<1>12. Follows(new, from, heard + 1) /\ Knows(new, from, heard + 1, S)
  BY <1>6, <1>9, <1>10, <1>11 DEF Follows, Knows
<1> QED
  BY <1>3, <1>5, <1>6, <1>12

\* Two are folded in one after the other.
LEMMA TwoFoldedIn ==
  ASSUME NEW q \in Seq(LoggedEvent), NEW d \in LoggedEvent, NEW e \in LoggedEvent
  PROVE  FirstOf(Reverse(<<d, e>>) \o q, EVENT_BUFFER)
           = FirstOf(Reverse(<<e>>) \o FirstOf(Reverse(<<d>>) \o q, EVENT_BUFFER), EVENT_BUFFER)
<1> DEFINE N == EVENT_BUFFER
           all == <<e, d>> \o q
           one == <<d>> \o q
           m == IF Len(one) < N THEN Len(one) ELSE N
           some == SubSeq(one, 1, m)
           two == <<e>> \o some
           k == IF Len(all) < N THEN Len(all) ELSE N
           l == IF Len(two) < N THEN Len(two) ELSE N
<1>1. Reverse(<<d, e>>) = <<e, d>> /\ Reverse(<<d>>) = <<d>> /\ Reverse(<<e>>) = <<e>>
  <2>1. ASSUME NEW x PROVE Reverse(<<x>>) = <<x>>
    <3>1. Len(<<x>>) = 1 /\ DOMAIN <<x>> = {1} /\ 1..1 = {1} /\ <<x>>[(1 - 1) + 1] = x
      OBVIOUS
    <3>2. Reverse(<<x>>) = [i \in 1..1 |-> <<x>>[(1 - i) + 1]]
      BY <3>1 DEF Reverse
    <3> QED
      BY <3>1, <3>2
  <2>2. Reverse(<<d, e>>) = <<e, d>>
    <3>1. Len(<<d, e>>) = 2 /\ Reverse(<<d, e>>) = [i \in 1..2 |-> <<d, e>>[(2 - i) + 1]]
      BY DEF Reverse
    <3>2. <<d, e>>[(2 - 1) + 1] = e /\ <<d, e>>[(2 - 2) + 1] = d
      OBVIOUS
    <3> DEFINE f == [i \in 1..2 |-> <<d, e>>[(2 - i) + 1]]
    <3>3. f \in Seq(LoggedEvent) /\ Len(f) = 2 /\ f[1] = e /\ f[2] = d
      BY <3>2
    <3> HIDE DEF f
    <3>4. f = <<e, d>>
      BY <3>3
    <3> QED
      BY <3>1, <3>4 DEF f
  <2> QED
    BY <2>1, <2>2
<1>2. N \in Nat /\ Len(q) \in Nat
  BY LimitAssumption
<1>3. /\ all \in Seq(LoggedEvent) /\ Len(all) = Len(q) + 2 /\ all[1] = e /\ all[2] = d
      /\ \A i \in 1..Len(q) : all[i + 2] = q[i]
  OBVIOUS
<1>4. /\ one \in Seq(LoggedEvent) /\ Len(one) = Len(q) + 1 /\ one[1] = d
      /\ \A i \in 1..Len(q) : one[i + 1] = q[i]
  OBVIOUS
<1> HIDE DEF all, one
<1>5. m \in Nat /\ m <= Len(one) /\ m = IF Len(q) + 1 < N THEN Len(q) + 1 ELSE N
  BY <1>2, <1>4
<1> HIDE DEF m
<1>6. some \in Seq(LoggedEvent) /\ Len(some) = m /\ \A i \in 1..m : some[i] = one[i]
  BY <1>4, <1>5
<1> HIDE DEF some
<1>7. /\ two \in Seq(LoggedEvent) /\ Len(two) = m + 1 /\ two[1] = e
      /\ \A i \in 1..m : two[i + 1] = some[i]
  BY <1>5, <1>6
<1> HIDE DEF two
<1>8. k \in Nat /\ k = l /\ k <= Len(all) /\ k <= Len(two)
  BY <1>2, <1>3, <1>5, <1>7
<1>9. ASSUME NEW i \in 1..k PROVE all[i] = two[i]
  <2>0. i \in Nat /\ i >= 1 /\ i <= Len(q) + 2 /\ i <= m + 1
    BY <1>3, <1>7, <1>8
  <2>1. CASE i = 1
    BY <1>3, <1>7, <2>1
  <2>2. CASE i = 2
    <3>1. 1 \in 1..m
      BY <1>5, <2>0, <2>2
    <3>2. two[1 + 1] = some[1] /\ some[1] = one[1]
      BY <1>6, <1>7, <3>1
    <3> QED
      BY <1>3, <1>4, <2>2, <3>2
  <2>3. CASE i > 2
    <3>1. i - 1 \in 1..m /\ i - 2 \in 1..Len(q) /\ (i - 1) + 1 = i /\ (i - 2) + 2 = i /\ (i - 2) + 1 = i - 1
      BY <1>5, <2>0, <2>3
    <3>2. two[(i - 1) + 1] = some[i - 1] /\ some[i - 1] = one[i - 1]
      BY <1>6, <1>7, <3>1
    <3>3. all[(i - 2) + 2] = q[i - 2] /\ one[(i - 2) + 1] = q[i - 2]
      BY <1>3, <1>4, <3>1
    <3> QED
      BY <3>1, <3>2, <3>3
  <2> QED
    BY <2>0, <2>1, <2>2, <2>3
<1> HIDE DEF k, l
<1>10. SubSeq(all, 1, k) = SubSeq(two, 1, k)
  <2>1. /\ SubSeq(all, 1, k) \in Seq(LoggedEvent) /\ Len(SubSeq(all, 1, k)) = k
        /\ \A i \in 1..k : SubSeq(all, 1, k)[i] = all[i]
    BY <1>3, <1>8
  <2>2. /\ SubSeq(two, 1, k) \in Seq(LoggedEvent) /\ Len(SubSeq(two, 1, k)) = k
        /\ \A i \in 1..k : SubSeq(two, 1, k)[i] = two[i]
    BY <1>7, <1>8
  <2> DEFINE A == SubSeq(all, 1, k)
             B == SubSeq(two, 1, k)
  <2>3. A = [i \in 1..k |-> A[i]] /\ B = [i \in 1..k |-> B[i]]
    BY <2>1, <2>2
  <2>4. \A i \in 1..k : A[i] = B[i]
    BY <1>9, <2>1, <2>2
  <2> HIDE DEF A, B
  <2>5. A = B
    BY <2>3, <2>4
  <2> QED
    BY <2>5 DEF A, B
<1>11. /\ FirstOf(all, N) = SubSeq(all, 1, k) /\ FirstOf(one, N) = some /\ FirstOf(two, N) = SubSeq(two, 1, l)
  BY DEF FirstOf, k, l, m, some
<1>12. FirstOf(<<e, d>> \o q, N) = FirstOf(<<e>> \o FirstOf(<<d>> \o q, N), N)
  BY <1>8, <1>10, <1>11 DEF all, one, two
<1> QED
  BY <1>1, <1>12

\* The events of a tick: one or two, numbered on from the newest.
LEMMA EventsOfTick ==
  ASSUME LogInv, tick < MaxTicks, NEW s \in Service, NEW gone, NEW linked
  PROVE  LET events == TickEvents(s, gone, linked)
             newest == minted + Len(events)
         IN  /\ newest \in {minted + 1, minted + 2}
             /\ \/ \E e \in LoggedEvent : e.id = minted + 1 /\ events = <<e>> /\ newest = minted + 1
                \/ \E d, e \in LoggedEvent :
                     d.id = minted + 1 /\ e.id = minted + 2 /\ events = <<d, e>> /\ newest = minted + 2
<1> DEFINE d == [id |-> minted + 1, about |-> {s}, project |-> IF gone THEN NoProject ELSE HomeOf[s][tick + 1]]
           e == [id |-> minted + 2, about |-> IF linked THEN {Caller} ELSE {}, project |-> NoProject]
<1>1. minted \in Nat /\ tick + 1 \in 1..MaxTicks
  BY LimitAssumption DEF LogInv
<1>2. HomeOf[s][tick + 1] \in Project \cup {NoProject}
  BY <1>1, HomeAssumption
<1>3. d \in LoggedEvent /\ d.id = minted + 1
  BY <1>1, <1>2 DEF LoggedEvent
<1>4. e \in LoggedEvent /\ e.id = minted + 2
  BY <1>1, ServiceAssumption DEF LoggedEvent
<1>5. TickEvents(s, gone, linked) = <<d>> \o (IF linked = daemon.linked THEN <<>> ELSE <<e>>)
  BY DEF TickEvents
<1> HIDE DEF d, e
<1>6. <<d>> \o <<>> = <<d>> /\ <<d>> \o <<e>> = <<d, e>> /\ Len(<<d>>) = 1 /\ Len(<<d, e>>) = 2
  <2>1. \A x, y \in LoggedEvent : /\ <<x>> \o <<>> = <<x>> /\ <<x>> \o <<y>> = <<x, y>>
                                 /\ Len(<<x>>) = 1 /\ Len(<<x, y>>) = 2
    <3> SUFFICES ASSUME NEW x \in LoggedEvent, NEW y \in LoggedEvent
                 PROVE  /\ <<x>> \o <<>> = <<x>> /\ <<x>> \o <<y>> = <<x, y>>
                        /\ Len(<<x>>) = 1 /\ Len(<<x, y>>) = 2
      OBVIOUS
    <3>1. Len(<<x>>) = 1 /\ Len(<<x, y>>) = 2
      OBVIOUS
    <3>2. <<x>> \o <<>> = <<x>>
      OBVIOUS
    <3>3. <<x>> \o <<y>> = <<x, y>>
      <4> DEFINE q == <<x>> \o <<y>>
      <4>1. q \in Seq(LoggedEvent) /\ Len(q) = 2 /\ q[1] = x /\ q[2] = y
        OBVIOUS
      <4>2. q = [i \in 1..2 |-> q[i]] /\ 1..2 = {1, 2}
        BY <4>1
      <4> HIDE DEF q
      <4>3. q = <<x, y>>
        BY <4>1, <4>2
      <4> QED
        BY <4>3 DEF q
    <3> QED
      BY <3>1, <3>2, <3>3
  <2> QED
    BY <1>3, <1>4, <2>1
<1>7. CASE linked = daemon.linked
  BY <1>1, <1>3, <1>5, <1>6, <1>7
<1>8. CASE linked # daemon.linked
  BY <1>1, <1>3, <1>4, <1>5, <1>6, <1>8
<1> QED
  BY <1>7, <1>8

\* One more event in the log.
LEMMA LogsOneMore ==
  ASSUME NEW log \in Seq(LoggedEvent), NEW n \in Nat, NEW e \in LoggedEvent, e.id = n + 1,
         \A i \in 1..Len(log) : log[i].id <= n,
         \A i, j \in 1..Len(log) : i < j => log[i].id < log[j].id
  PROVE  LET longer == Append(log, e) IN
         /\ longer \in Seq(LoggedEvent) /\ \A i \in 1..Len(longer) : longer[i].id <= n + 1
         /\ \A i, j \in 1..Len(longer) : i < j => longer[i].id < longer[j].id
         /\ ToSet(longer) = ToSet(log) \cup {e}
<1> DEFINE longer == Append(log, e)
<1>4. Len(log) \in Nat /\ \A i \in 1..Len(log) : log[i].id \in Nat
  BY EventsHaveIds
<1>5. /\ longer \in Seq(LoggedEvent) /\ Len(longer) = Len(log) + 1 /\ DOMAIN longer = 1..(Len(log) + 1)
      /\ longer[Len(log) + 1] = e
      /\ \A i \in 1..Len(log) : longer[i] = log[i]
  BY <1>4
<1> HIDE DEF longer
<1>6. \A i \in 1..Len(longer) : longer[i].id <= n + 1
  BY <1>4, <1>5
<1>7. ASSUME NEW i \in 1..Len(longer), NEW j \in 1..Len(longer), i < j
      PROVE  longer[i].id < longer[j].id
  <2>1. i \in 1..Len(log) /\ longer[i] = log[i]
    BY <1>4, <1>5, <1>7
  <2>2. CASE j \in 1..Len(log)
    BY <1>4, <1>5, <1>7, <2>1, <2>2
  <2>3. CASE j = Len(log) + 1
    BY <1>4, <1>5, <2>1, <2>3
  <2> QED
    BY <1>4, <1>5, <2>2, <2>3
<1>9. ToSet(longer) = ToSet(log) \cup {e}
  <2>1. ToSet(longer) = {longer[i] : i \in 1..(Len(log) + 1)} /\ ToSet(log) = {log[i] : i \in 1..Len(log)}
    <3>1. DOMAIN log = 1..Len(log)
      BY <1>4
    <3> QED
      BY <1>5, <3>1 DEF ToSet
  <2>2. \A i \in 1..(Len(log) + 1) : i \in 1..Len(log) \/ i = Len(log) + 1
    BY <1>4
  <2>3. \A i \in 1..Len(log) : i \in 1..(Len(log) + 1)
    BY <1>4
  <2>4. Len(log) + 1 \in 1..(Len(log) + 1)
    BY <1>4
  <2>5. ToSet(longer) \subseteq ToSet(log) \cup {e}
    BY <1>5, <2>1, <2>2
  <2>6. ToSet(log) \subseteq ToSet(longer)
    BY <1>5, <2>1, <2>3
  <2>7. e \in ToSet(longer)
    BY <1>5, <2>1, <2>4
  <2> QED
    BY <2>5, <2>6, <2>7
<1> QED
  BY <1>5, <1>6, <1>7, <1>9 DEF longer

\* The log with the events of a tick: its frame of events brings them.
LEMMA TickIsLogged ==
  ASSUME LogInv, NEW s \in Service, NEW gone, NEW linked, NEW warned, Tick(s, gone, linked, warned)
  PROVE  /\ LogInv' /\ minted \in Nat /\ minted' \in Nat /\ minted <= minted'
         /\ ToSet(daemon.log) \subseteq ToSet(daemon'.log)
         /\ \A e \in ToSet(daemon'.log) \ ToSet(daemon.log) : e.id \in Nat /\ e.id > minted
         /\ \A f : IsNews(f) /\ f.events = TickEvents(s, gone, linked) =>
              Brings(f, minted, minted', ToSet(daemon'.log))
<1> DEFINE log == daemon.log
           events == TickEvents(s, gone, linked)
           longer == log \o events
<1>1. /\ tick' = tick + 1 /\ tick \in 0..MaxTicks /\ tick < MaxTicks /\ daemon.up /\ minted \in Nat
      /\ minted' = minted + Len(events)
  BY DEF Tick, LogInv
<1>2. /\ daemon'.log = longer /\ {"up", "log", "rev"} \subseteq DOMAIN daemon' /\ daemon'.up = daemon.up
      /\ daemon'.rev = [daemon.rev EXCEPT ![s] = IF gone THEN 0 ELSE tick']
  BY DEF Tick, LogInv
<1>3. tick' \in 0..MaxTicks /\ daemon'.rev \in [Service -> 0..MaxTicks]
  <2>1. tick' \in 0..MaxTicks /\ 0 \in 0..MaxTicks /\ daemon.rev \in [Service -> 0..MaxTicks]
    BY <1>1, LimitAssumption DEF LogInv
  <2> QED
    BY <1>2, <2>1
<1>4. /\ log \in Seq(LoggedEvent) /\ Len(log) \in Nat /\ \A i \in 1..Len(log) : log[i].id <= minted
      /\ \A i, j \in 1..Len(log) : i < j => log[i].id < log[j].id
  BY DEF LogInv
<1>5. \/ \E e \in LoggedEvent : e.id = minted + 1 /\ events = <<e>> /\ minted' = minted + 1
      \/ \E d, e \in LoggedEvent :
           d.id = minted + 1 /\ e.id = minted + 2 /\ events = <<d, e>> /\ minted' = minted + 2
  BY <1>1, EventsOfTick
<1> HIDE DEF events
<1> DEFINE Goal(q) ==
             /\ q \in Seq(LoggedEvent) /\ \A i \in 1..Len(q) : q[i].id <= minted'
             /\ \A i, j \in 1..Len(q) : i < j => q[i].id < q[j].id
             /\ ToSet(log) \subseteq ToSet(q) /\ \A e \in ToSet(q) \ ToSet(log) : e.id \in Nat /\ e.id > minted
             /\ \A f : IsNews(f) /\ f.events = events => Brings(f, minted, minted', ToSet(q))
<1>6. ASSUME \E e \in LoggedEvent : e.id = minted + 1 /\ events = <<e>> /\ minted' = minted + 1
      PROVE  Goal(longer)
  <2>1. PICK e \in LoggedEvent : e.id = minted + 1 /\ events = <<e>> /\ minted' = minted + 1
    BY <1>6
  <2> DEFINE q == Append(log, e)
  <2>2. /\ q \in Seq(LoggedEvent) /\ \A i \in 1..Len(q) : q[i].id <= minted + 1
        /\ \A i, j \in 1..Len(q) : i < j => q[i].id < q[j].id
        /\ ToSet(q) = ToSet(log) \cup {e}
    BY <1>1, <1>4, <2>1, LogsOneMore
  <2>3. longer = q
    BY <1>4, <2>1
  <2> HIDE DEF q, longer, log
  <2>4. Goal(q)
    BY <1>1, <2>1, <2>2 DEF Brings
  <2> HIDE DEF Goal
  <2> QED
    BY <2>3, <2>4
<1>7. ASSUME \E d, e \in LoggedEvent :
               d.id = minted + 1 /\ e.id = minted + 2 /\ events = <<d, e>> /\ minted' = minted + 2
      PROVE  Goal(longer)
  <2>1. PICK d \in LoggedEvent, e \in LoggedEvent :
          d.id = minted + 1 /\ e.id = minted + 2 /\ events = <<d, e>> /\ minted' = minted + 2
    BY <1>7
  <2> DEFINE p == Append(log, d)
             q == Append(p, e)
  <2>2. /\ p \in Seq(LoggedEvent) /\ \A i \in 1..Len(p) : p[i].id <= minted + 1
        /\ \A i, j \in 1..Len(p) : i < j => p[i].id < p[j].id
        /\ ToSet(p) = ToSet(log) \cup {d}
    BY <1>1, <1>4, <2>1, LogsOneMore
  <2>3. longer = q
    <3>1. log \o <<d, e>> = Append(Append(log, d), e)
      BY <1>4
    <3> QED
      BY <2>1, <3>1
  <2>4. minted + 1 \in Nat /\ e.id = (minted + 1) + 1 /\ (minted + 1) + 1 = minted + 2
    BY <1>1, <2>1
  <2> HIDE DEF p
  <2>5. /\ q \in Seq(LoggedEvent) /\ \A i \in 1..Len(q) : q[i].id <= (minted + 1) + 1
        /\ \A i, j \in 1..Len(q) : i < j => q[i].id < q[j].id
        /\ ToSet(q) = ToSet(p) \cup {e}
    BY <2>1, <2>2, <2>4, LogsOneMore
  <2> HIDE DEF q, longer, log
  <2>6. Goal(q)
    BY <1>1, <2>1, <2>2, <2>4, <2>5 DEF Brings
  <2> HIDE DEF Goal
  <2> QED
    BY <2>3, <2>6
<1> HIDE DEF longer
<1>8. Goal(longer)
  BY <1>5, <1>6, <1>7
<1>9. minted' \in Nat /\ minted <= minted'
  BY <1>1, <1>5
<1>10. LogInv'
  BY <1>1, <1>2, <1>3, <1>8, <1>9 DEF LogInv
<1> QED
  BY <1>1, <1>2, <1>8, <1>9, <1>10 DEF log, events

\* The frames of a tick carry its events.
LEMMA TicksCarry ==
  ASSUME LogInv, NEW s \in Service, NEW gone, NEW linked, NEW warned, Tick(s, gone, linked, warned)
  PROVE  Carries(TickFrames(s, gone, linked, warned), minted, minted', ToSet(daemon'.log))
<1> DEFINE services == [type |-> "services_changed", removed |-> IF gone THEN {s} ELSE {},
                        services |-> IF gone THEN <<>> ELSE <<[id |-> s, rev |-> tick + 1]>>]
           events   == [type |-> "events", events |-> TickEvents(s, gone, linked)]
           topology == Changed("topology_changed", daemon.linked, linked, "call")
           warnings == Changed("warnings_changed", daemon.warned, warned, "warning")
           S == ToSet(daemon'.log)
<1>0. minted \in Nat /\ minted' \in Nat
  BY TickIsLogged
<1>1. Carries(<<services>>, minted, minted, S)
  <2>1. FrameOK(services) /\ ~IsNews(services)
    BY DEF FrameOK, FrameTypes, IsFrame, IsNews
  <2> HIDE DEF services, S
  <2> QED
    BY <1>0, <2>1, OldFrame
<1>2. Carries(<<events>>, minted, minted', S)
  <2>1. FrameOK(events) /\ IsNews(events) /\ events.events = TickEvents(s, gone, linked)
    BY DEF FrameOK, FrameTypes, IsFrame, IsNews
  <2> HIDE DEF events
  <2>2. Brings(events, minted, minted', S)
    BY <2>1, TickIsLogged
  <2> HIDE DEF S
  <2> QED
    BY <1>0, <2>1, <2>2, FrameCarries
<1>3. ASSUME NEW type \in {"topology_changed", "warnings_changed"}, NEW was, NEW is, NEW id, NEW at \in Nat
      PROVE  Carries(Changed(type, was, is, id), at, at, S)
  <2> DEFINE f == [type |-> type, added |-> IF is THEN <<id>> ELSE <<>>, removed |-> IF is THEN {} ELSE {id}]
  <2>1. FrameOK(f) /\ ~IsNews(f)
    BY <1>3 DEF FrameOK, FrameTypes, IsFrame, IsNews
  <2>2. Changed(type, was, is, id) = IF was = is THEN <<>> ELSE <<f>>
    BY DEF Changed
  <2> HIDE DEF f, S
  <2> QED
    BY <2>1, <2>2, OldFrame, NothingCarried
<1>4. Carries(topology, minted, minted, S) /\ Carries(warnings, minted', minted', S)
  BY <1>0, <1>3
<1>5. TickFrames(s, gone, linked, warned) = ((<<services>> \o topology) \o <<events>>) \o warnings
  BY DEF TickFrames
<1> HIDE DEF services, events, topology, warnings, S
<1>6. Carries(<<services>> \o topology, minted, minted, S)
  BY <1>1, <1>4, CarriedOn
<1>7. Carries((<<services>> \o topology) \o <<events>>, minted, minted', S)
  BY <1>2, <1>6, CarriedOn
<1>8. Carries(((<<services>> \o topology) \o <<events>>) \o warnings, minted, minted', S)
  BY <1>4, <1>7, CarriedOn
<1> QED
  BY <1>5, <1>8 DEF S

LEMMA SnapshotCarries ==
  ASSUME NEW S, NEW a \in Nat
  PROVE  Carries(<<Snapshot>>, a, a, S)
<1>1. FrameOK(Snapshot) /\ ~IsNews(Snapshot)
  BY DEF Snapshot, FrameOK, FrameTypes, IsFrame, IsNews
<1> QED
  BY <1>1, OldFrame

\* A snapshot asked for comes between the events on their way, and carries none.
LEMMA SnapshotBetween ==
  ASSUME NEW S, NEW q, NEW a \in Nat, NEW c \in Nat, Carries(q, a, c, S), NEW i \in 1..(Len(q) + 1)
  PROVE  Carries(InsertAt(q, i, Snapshot), a, c, S)
<1>1. Len(q) \in Nat
  BY FramesAreSequence DEF Carries
<1>2. i - 1 \in 0..Len(q) /\ (i - 1) + 1 = i
  BY <1>1
<1>3. PICK b \in Nat : Carries(SubSeq(q, 1, i - 1), a, b, S) /\ Carries(SubSeq(q, i, Len(q)), b, c, S)
  BY <1>2, CarriedInParts
<1>4. Carries(SubSeq(q, 1, i - 1) \o <<Snapshot>>, a, b, S)
  BY <1>3, SnapshotCarries, CarriedOn
<1>5. InsertAt(q, i, Snapshot) = (SubSeq(q, 1, i - 1) \o <<Snapshot>>) \o SubSeq(q, i, Len(q))
  BY DEF InsertAt
<1> QED
  BY <1>3, <1>4, <1>5, CarriedOn

\* Only a frame of events changes the buffer.
LEMMA OnlyNewsIsLogged ==
  ASSUME NEW v, "events" \in DOMAIN v, NEW f, f.type \in FrameTypes
  PROVE  /\ "events" \in DOMAIN Reduce(v, f)
         /\ Reduce(v, f).events = IF IsNews(f) THEN FirstOf(Reverse(f.events) \o v.events, EVENT_BUFFER)
                                  ELSE v.events
<1>1. CASE f.type = "snapshot"
  BY <1>1 DEF Reduce, ReduceSnapshot, IsNews
<1>2. CASE f.type = "services_changed"
  BY <1>2 DEF Reduce, ReduceServices, IsNews
<1>3. CASE f.type = "topology_changed"
  BY <1>3 DEF Reduce, IsNews
<1>4. CASE f.type = "warnings_changed"
  BY <1>4 DEF Reduce, IsNews
<1>5. CASE f.type = "events"
  BY <1>5 DEF Reduce, ReduceEvents, IsNews
<1> QED
  BY <1>1, <1>2, <1>3, <1>4, <1>5 DEF FrameTypes

\* The steps at which buffer and log stay: the rest of what is not heard of is still to come.
LEMMA FeedStays ==
  ASSUME FeedInv, UNCHANGED <<tick, minted, daemon, since, view>>, NEW heard \in since..minted, Hears(heard),
         link' \in {"subscribed", "live"} =>
           link \in {"subscribed", "live"} /\ Carries(channel', heard, minted, ToSet(daemon.log)),
         link' \notin {"subscribed", "live"} => channel' = <<>>
  PROVE  FeedInv'
<1>1. Hears(heard)'
  BY DEF Hears
<1> QED
  BY <1>1 DEF FeedInv, LogInv

LEMMA TickFeeds ==
  ASSUME FeedInv, NEW s \in Service, NEW gone, NEW linked, NEW warned, Tick(s, gone, linked, warned)
  PROVE  FeedInv'
<1> DEFINE S == ToSet(daemon.log)
           T == ToSet(daemon'.log)
<1>1. PICK heard \in since..minted : Hears(heard)
  BY DEF FeedInv
<1>2. /\ LogInv' /\ minted \in Nat /\ minted' \in Nat /\ minted <= minted' /\ since \in Nat
      /\ UNCHANGED <<link, since, view>> /\ S \subseteq T
  BY TickIsLogged DEF Tick, FeedInv
<1>3. link \in {"subscribed", "live"} => Carries(channel', heard, minted', T)
  <2> SUFFICES ASSUME link \in {"subscribed", "live"} PROVE Carries(channel', heard, minted', T)
    OBVIOUS
  <2>1. channel' = channel \o TickFrames(s, gone, linked, warned)
    BY DEF Tick
  <2>2. Carries(channel, heard, minted, T)
    BY <1>1, <1>2, CarriedOfMore DEF Hears
  <2>3. Carries(TickFrames(s, gone, linked, warned), minted, minted', T)
    BY TicksCarry DEF FeedInv
  <2> QED
    BY <2>1, <2>2, <2>3, CarriedOn
<1>4. link \notin {"subscribed", "live"} => channel' = <<>>
  BY <1>1 DEF Tick, Hears
<1>5. Knows(view.events, since, heard, S) => Knows(view.events, since, heard, T)
  BY <1>2 DEF Knows
<1>6. Hears(heard)'
  BY <1>1, <1>2, <1>3, <1>4, <1>5 DEF Hears
<1>7. heard \in since'..minted'
  BY <1>2
<1> QED
  BY <1>2, <1>6, <1>7 DEF FeedInv

\* A connection that is subscribed has everything still to come.
LEMMA AcceptFeeds ==
  ASSUME FeedInv, Accept
  PROVE  FeedInv'
<1>1. /\ link = "none" /\ link' = "subscribed" /\ since' = minted
      /\ UNCHANGED <<tick, minted, daemon, channel, view>> /\ minted \in Nat
  BY DEF Accept, worldVars, FeedInv, LogInv
<1>2. PICK heard \in since..minted : Follows(view.events, since, heard) /\ channel = <<>>
  BY <1>1 DEF FeedInv, Hears
<1>3. Carries(channel', minted, minted, ToSet(daemon.log))
  BY <1>1, <1>2, NothingCarried
<1>4. /\ Len(view.events) \in Nat
      /\ \A i \in 1..Len(view.events) : view.events[i].id \in Nat /\ view.events[i].id <= minted
  <2>1. /\ Len(view.events) \in Nat
        /\ \A i \in 1..Len(view.events) : view.events[i].id \in Nat
    BY EventsHaveIds DEF FeedInv
  <2>2. \A i \in 1..Len(view.events) : view.events[i].id <= heard
    BY <1>2 DEF Follows
  <2>3. heard \in Nat /\ heard <= minted
    BY <1>1 DEF FeedInv
  <2> QED
    BY <1>1, <2>1, <2>2, <2>3
<1>5. \A i \in 1..Len(view.events) : ~(view.events[i].id > minted)
  BY <1>1, <1>4
<1>6. Follows(view.events, minted, minted)
  BY <1>2, <1>4, <1>5 DEF Follows
<1>7. Knows(view.events, minted, minted, ToSet(daemon.log))
  BY <1>1, <1>4, <1>5 DEF Knows
<1>8. Hears(minted)'
  BY <1>1, <1>3, <1>6, <1>7 DEF Hears
<1> QED
  BY <1>1, <1>8 DEF FeedInv, LogInv

\* What is lost with a connection is not heard of on the next one.
LEMMA LostFeeds ==
  ASSUME FeedInv, LogInv', UNCHANGED <<tick, minted, since, view>>, channel' = <<>>, link' \notin {"subscribed", "live"}
  PROVE  FeedInv'
<1>1. PICK heard \in since..minted : Hears(heard)
  BY DEF FeedInv
<1>2. Hears(heard)'
  BY <1>1 DEF Hears
<1> QED
  BY <1>1, <1>2 DEF FeedInv

\* A daemon that stops forgets its log, one that starts has none, and no other step changes it.
LEMMA LogStays ==
  ASSUME LogInv, UNCHANGED <<tick, minted>>, UNCHANGED daemon \/ StopDaemon \/ StartDaemon
  PROVE  LogInv'
<1>1. CASE UNCHANGED daemon
  BY <1>1 DEF LogInv
<1>2. CASE StopDaemon
  <2>1. daemon' = Blank(FALSE)
    BY <1>2 DEF StopDaemon
  <2>2. /\ {"up", "log", "rev"} \subseteq DOMAIN daemon' /\ daemon'.log = <<>>
        /\ daemon'.rev \in [Service -> 0..MaxTicks]
    BY <2>1, EmptyLog
  <2>3. <<>> \in Seq(LoggedEvent) /\ Len(<<>>) = 0
    OBVIOUS
  <2> QED
    BY <2>2, <2>3 DEF LogInv
<1>3. CASE StartDaemon
  BY <1>3 DEF LogInv, StartDaemon
<1> QED
  BY <1>1, <1>2, <1>3

LEMMA DaemonFeeds ==
  ASSUME FeedInv, SendSnapshot \/ BreakConnection \/ StopDaemon \/ StartDaemon \/ Reconnect \/ Resnapshot
  PROVE  FeedInv'
<1>1. PICK heard \in since..minted : Hears(heard)
  BY DEF FeedInv
<1>2. heard \in Nat /\ minted \in Nat /\ since \in Nat /\ LogInv
  <2>1. LogInv /\ since \in Nat
    BY DEF FeedInv
  <2>2. minted \in Nat
    BY <2>1 DEF LogInv
  <2> QED
    BY <2>1, <2>2
<1>3. CASE SendSnapshot
  <2>1. /\ link = "subscribed" /\ link' = "live" /\ channel' = <<Snapshot>> \o channel
        /\ UNCHANGED <<tick, minted, daemon, since, view>>
    BY <1>3 DEF SendSnapshot, worldVars
  <2>2. Carries(channel', heard, minted, ToSet(daemon.log))
    BY <1>1, <1>2, <2>1, SnapshotCarries, CarriedOn DEF Hears
  <2> QED
    BY <1>1, <2>1, <2>2, FeedStays
<1>4. CASE BreakConnection
  BY <1>2, <1>4, LogStays, LostFeeds DEF BreakConnection, LoseLink, worldVars
<1>5. CASE StopDaemon
  <2>1. /\ UNCHANGED <<tick, minted, since, view>> /\ channel' = <<>> /\ link' \notin {"subscribed", "live"}
    BY <1>5 DEF StopDaemon, LoseLink
  <2> QED
    BY <1>2, <1>5, <2>1, LogStays, LostFeeds
<1>6. CASE StartDaemon
  <2>1. UNCHANGED <<tick, minted, since, view, link, channel>>
    BY <1>6 DEF StartDaemon, wireVars
  <2>2. LogInv' /\ daemon'.log = daemon.log
    BY <1>2, <1>6, <2>1, LogStays DEF StartDaemon, LogInv
  <2>3. Hears(heard)'
    BY <1>1, <2>1, <2>2 DEF Hears
  <2> QED
    BY <2>1, <2>2, <2>3 DEF FeedInv
<1>7. CASE Reconnect
  BY <1>1, <1>7, FeedStays DEF Reconnect, worldVars, Hears
<1>8. CASE Resnapshot
  <2>1. /\ link = "live" /\ link' = "live" /\ UNCHANGED <<tick, minted, daemon, since, view>>
        /\ \E i \in 1..(Len(channel) + 1) : channel' = InsertAt(channel, i, Snapshot)
    BY <1>8 DEF Resnapshot, worldVars
  <2>2. PICK i \in 1..(Len(channel) + 1) : channel' = InsertAt(channel, i, Snapshot)
    BY <2>1
  <2>3. Carries(channel, heard, minted, ToSet(daemon.log))
    BY <1>1, <2>1 DEF Hears
  <2>4. Carries(channel', heard, minted, ToSet(daemon.log))
    BY <1>2, <2>2, <2>3, SnapshotBetween
  <2> QED
    BY <1>1, <2>1, <2>4, FeedStays
<1> QED
  BY <1>3, <1>4, <1>5, <1>6, <1>7, <1>8

LEMMA ViewFeeds ==
  ASSUME FeedInv, OnOpen \/ OnMessage \/ OnClose
  PROVE  FeedInv'
<1>1. PICK heard \in since..minted : Hears(heard)
  BY DEF FeedInv
<1>2. heard \in Nat /\ minted \in Nat /\ since \in Nat /\ since <= heard /\ heard <= minted /\ LogInv
  <2>1. since \in Nat /\ LogInv
    BY DEF FeedInv
  <2>2. minted \in Nat
    BY <2>1 DEF LogInv
  <2> QED
    BY <2>1, <2>2
<1>3. CASE OnOpen
  <2>1. /\ UNCHANGED <<tick, minted, daemon, since, link, channel>>
        /\ "events" \in DOMAIN view' /\ view'.events = view.events
    BY <1>3 DEF OnOpen, worldVars, FeedInv
  <2>2. Hears(heard)'
    BY <1>1, <2>1 DEF Hears
  <2> QED
    BY <2>1, <2>2 DEF FeedInv, LogInv
<1>4. CASE OnMessage
  <2> DEFINE f == Head(channel)
             S == ToSet(daemon.log)
  <2>1. /\ UNCHANGED <<tick, minted, daemon, since, link>> /\ link = "live" /\ channel # <<>>
        /\ view' = Reduce(view, f) /\ channel' = Tail(channel)
    BY <1>4 DEF OnMessage, worldVars
  <2>2. Carries(channel, heard, minted, S) /\ Knows(view.events, since, heard, S) /\ Follows(view.events, since, heard)
    BY <1>1, <2>1 DEF Hears
  <2>3. f.type \in FrameTypes
    BY <2>1, <2>2, FirstFrame DEF Carries, FrameOK
  <2>4. /\ "events" \in DOMAIN view'
        /\ view'.events = IF IsNews(f) THEN FirstOf(Reverse(f.events) \o view.events, EVENT_BUFFER)
                          ELSE view.events
    BY <2>1, <2>3, OnlyNewsIsLogged DEF FeedInv
  <2>5. PICK b \in Nat : Brings(f, heard, b, S) /\ Carries(channel', b, minted, S)
    BY <2>1, <2>2, NextHeard
  <2>8. b <= minted
    BY <2>5, HeardGrows
  <2> HIDE DEF f
  <2>6. CASE IsNews(f)
    <3> DEFINE new == view'.events
    <3>0. S \subseteq LoggedEvent
      BY <1>2, LogIsLogged
    <3>1. view.events \in Seq(LoggedEvent) /\ Len(view.events) <= EVENT_BUFFER
      BY DEF FeedInv
    <3> HIDE DEF S
    <3> DEFINE Folded == /\ new \in Seq(LoggedEvent) /\ Len(new) <= EVENT_BUFFER
                         /\ Follows(new, since, b) /\ Knows(new, since, b, S)
    <3>2. ASSUME \E e \in S : e.id = b /\ f.events = <<e>> /\ b = heard + 1
          PROVE  Folded
      <4>1. PICK e \in S : e.id = b /\ f.events = <<e>> /\ b = heard + 1
        BY <3>2
      <4> QED
        BY <1>2, <2>2, <2>4, <2>6, <3>0, <3>1, <4>1, FoldedIn
    <3>3. ASSUME \E d, e \in S : d.id = heard + 1 /\ e.id = b /\ f.events = <<d, e>> /\ b = heard + 2
          PROVE  Folded
      <4>1. PICK d \in S, e \in S : d.id = heard + 1 /\ e.id = b /\ f.events = <<d, e>> /\ b = heard + 2
        BY <3>3
      <4>2. d \in LoggedEvent /\ e \in LoggedEvent /\ heard + 1 \in Nat /\ b = (heard + 1) + 1 /\ since <= heard + 1
        BY <1>2, <3>0, <4>1
      <4> DEFINE mid == FirstOf(Reverse(<<d>>) \o view.events, EVENT_BUFFER)
      <4>3. /\ mid \in Seq(LoggedEvent) /\ Len(mid) <= EVENT_BUFFER
            /\ Follows(mid, since, heard + 1) /\ Knows(mid, since, heard + 1, S)
        BY <1>2, <2>2, <3>1, <4>1, <4>2, FoldedIn
      <4>4. new = FirstOf(Reverse(<<e>>) \o mid, EVENT_BUFFER)
        BY <2>4, <2>6, <3>1, <4>1, <4>2, TwoFoldedIn
      <4> HIDE DEF mid
      <4> QED
        BY <1>2, <4>1, <4>2, <4>3, <4>4, FoldedIn
    <3> HIDE DEF Folded
    <3>8. Folded
      BY <2>5, <2>6, <3>2, <3>3 DEF Brings
    <3>4. /\ new \in Seq(LoggedEvent) /\ Len(new) <= EVENT_BUFFER
          /\ Follows(new, since, b) /\ Knows(new, since, b, S)
      BY <3>8 DEF Folded
    <3>5. b >= heard
      BY <1>2, <2>5, <2>6 DEF Brings
    <3>6. Hears(b)'
      BY <2>1, <2>5, <3>4 DEF Hears, S
    <3>7. b \in since'..minted'
      BY <1>2, <2>1, <2>8, <3>5
    <3> QED
      BY <1>2, <2>1, <2>4, <3>4, <3>6, <3>7 DEF FeedInv, LogInv
  <2>7. CASE ~IsNews(f)
    <3>1. view'.events = view.events /\ Carries(channel', heard, minted, S)
      BY <2>4, <2>5, <2>7 DEF Brings
    <3>2. Hears(heard)'
      BY <1>1, <2>1, <2>2, <3>1 DEF Hears
    <3> QED
      BY <2>1, <2>4, <3>1, <3>2 DEF FeedInv, LogInv
  <2> QED
    BY <2>6, <2>7
<1>5. CASE OnClose
  <2>1. /\ UNCHANGED <<tick, minted, daemon, since>> /\ link' = "none" /\ channel' = <<>>
        /\ "events" \in DOMAIN view' /\ view'.events = view.events
    BY <1>5 DEF OnClose, worldVars, FeedInv
  <2>2. Hears(heard)'
    BY <1>1, <2>1 DEF Hears
  <2> QED
    BY <2>1, <2>2 DEF FeedInv, LogInv
<1> QED
  BY <1>3, <1>4, <1>5

LEMMA FeedNext ==
  ASSUME FeedInv, Daemon \/ Provider
  PROVE  FeedInv'
<1>1. CASE \E s \in Service, gone, linked, warned \in BOOLEAN : Tick(s, gone, linked, warned)
  BY <1>1, TickFeeds
<1>2. CASE Accept
  BY <1>2, AcceptFeeds
<1>3. CASE SendSnapshot \/ BreakConnection \/ StopDaemon \/ StartDaemon \/ Reconnect \/ Resnapshot
  BY <1>3, DaemonFeeds
<1>4. CASE OnOpen \/ OnMessage \/ OnClose
  BY <1>4, ViewFeeds
<1> QED
  BY <1>1, <1>2, <1>3, <1>4 DEF Daemon, Provider

\* The view of a dashboard of one's own, whatever its page does.
DashInv == BadgeInv /\ (~Hosted => FeedInv)

LEMMA DashInitially == DashInit => DashInv
BY BadgeInitially, FeedInitially DEF DashInit, DashInv

LEMMA DashSteps ==
  ASSUME DashInv, [DashNext]_dashVars
  PROVE  DashInv'
<1>1. BadgeInv'
  BY BadgeNext DEF DashInv
<1>2. CASE UNCHANGED dashVars
  <2>1. UNCHANGED <<tick, minted, daemon, since, link, channel, view>> /\ Hosted' = Hosted
    BY <1>2 DEF dashVars, viewVars, worldVars, wireVars, pageVars, Hosted
  <2> QED
    BY <1>1, <2>1 DEF DashInv, FeedInv, LogInv, Hears
<1>3. CASE Page
  <2>1. UNCHANGED <<viewVars, site>>
    BY <1>3 DEF Page, Visit, Poll, Serve, Deliver
  <2>2. UNCHANGED <<tick, minted, daemon, since, link, channel, view>> /\ Hosted' = Hosted
    BY <2>1 DEF viewVars, worldVars, wireVars, Hosted
  <2> QED
    BY <1>1, <2>2 DEF DashInv, FeedInv, LogInv, Hears
<1>4. CASE ~Hosted /\ LiveStep(Daemon \/ Provider)
  BY <1>1, <1>4, FeedNext DEF LiveStep, DashInv
<1> QED
  BY <1>2, <1>3, <1>4 DEF DashNext

\* The buffer of events of a dashboard is newest first, has each event once, and has all of
\* them since its connection was subscribed or since the oldest it has kept: in any order of
\* ticks, losses and snapshots asked for in between (daemon.tsx:98-101).
THEOREM FeedStaysInOrder == DashSpec => []FeedInOrder
<1>1. DashInv => FeedInOrder
  BY FeedIsInOrder DEF DashInv, BadgeInv, FeedInOrder
<1> QED
  BY <1>1, DashInitially, DashSteps, PTL DEF DashSpec
----------------------------------------------------------------------------
(***************************************************************************)
(* The timeline.  A filter keeps the order and what it is said to keep.    *)
(***************************************************************************)
LEMMA FilterKeeps ==
  ASSUME NEW S, NEW q \in Seq(S), NEW K \in SUBSET (1..Len(q))
  PROVE  /\ Picked(q, K) \in Seq(S) /\ Len(Picked(q, K)) \in Nat
         /\ NewestFirst(q) => NewestFirst(Picked(q, K))
         /\ \A n \in 1..Len(Picked(q, K)) : \E k \in K : Picked(q, K)[n] = q[k]
         /\ \A k \in K : Has(Picked(q, K), q[k])
<1> DEFINE r == Picked(q, K)
           c == Cardinality(K)
<1>8. PICK place : ArePlaces(place, q, K)
  BY PickedPlaces
<1>1. /\ place \in [1..c -> K]
      /\ \A n \in 1..c : r[n] = q[place[n]]
      /\ \A m, n \in 1..c : m < n => place[m] < place[n]
      /\ \A k \in K : \E n \in 1..c : place[n] = k
  BY <1>8 DEF ArePlaces
<1>2. r \in Seq(S) /\ Len(r) = c /\ c \in 0..Len(q)
  BY PickedPlaces
<1> HIDE DEF r, c
<1>3. c \in Nat
  BY <1>2
<1>4. ASSUME NewestFirst(q), NEW m \in 1..c, NEW n \in 1..c, m < n
      PROVE  r[m].id > r[n].id
  <2>1. place[m] \in 1..Len(q) /\ place[n] \in 1..Len(q) /\ place[m] < place[n]
    BY <1>1, <1>4
  <2> QED
    BY <1>1, <1>4, <2>1 DEF NewestFirst
<1>5. NewestFirst(q) => NewestFirst(r)
  BY <1>2, <1>4 DEF NewestFirst
<1>6. \A n \in 1..c : \E k \in K : r[n] = q[k]
  BY <1>1
<1>7. \A k \in K : Has(r, q[k])
  BY <1>1, <1>2 DEF Has
<1> QED
  BY <1>2, <1>3, <1>5, <1>6, <1>7 DEF r

\* A log in the order of its ids, the other way round.
LEMMA ReversedLog ==
  ASSUME NEW r \in Seq(LoggedEvent), \A i, j \in 1..Len(r) : i < j => r[i].id < r[j].id
  PROVE  /\ Reverse(r) \in Seq(LoggedEvent) /\ NewestFirst(Reverse(r))
         /\ \A i \in 1..Len(Reverse(r)) : Has(r, Reverse(r)[i])
         /\ \A i \in 1..Len(r) : Has(Reverse(r), r[i])
<1> DEFINE q == Reverse(r)
           c == Len(r)
<1>1. c \in Nat /\ \A i \in 1..c : r[i] \in LoggedEvent /\ r[i].id \in Nat
  BY EventsHaveIds
<1>2. q = [i \in 1..c |-> r[(c - i) + 1]]
  BY DEF Reverse
<1> HIDE DEF q, c
<1>3. \A i \in 1..c : (c - i) + 1 \in 1..c /\ q[i] = r[(c - i) + 1]
  BY <1>1, <1>2
<1>4. q \in [1..c -> LoggedEvent]
  BY <1>1, <1>2, <1>3
<1>5. q \in Seq(LoggedEvent) /\ Len(q) = c
  BY <1>1, <1>4
<1>6. NewestFirst(q)
  <2> SUFFICES ASSUME NEW i \in 1..c, NEW j \in 1..c, i < j PROVE q[i].id > q[j].id
    BY <1>5 DEF NewestFirst
  <2> DEFINE a == (c - i) + 1
             b == (c - j) + 1
  <2>1. a \in 1..c /\ b \in 1..c /\ b < a /\ q[i] = r[a] /\ q[j] = r[b]
    BY <1>1, <1>3
  <2> HIDE DEF a, b
  <2> QED
    BY <1>1, <2>1 DEF c
<1>7. \A i \in 1..c : Has(r, q[i])
  BY <1>3 DEF Has, c
<1>8. ASSUME NEW i \in 1..c PROVE Has(q, r[i])
  <2> DEFINE j == (c - i) + 1
  <2>1. j \in 1..c /\ (c - j) + 1 = i
    BY <1>1
  <2> HIDE DEF j
  <2> QED
    BY <1>3, <1>5, <2>1 DEF Has
<1> QED
  BY <1>5, <1>6, <1>7, <1>8 DEF q, c

\* All of a set, newest first, are the newest of it.
LEMMA AllAreLatest ==
  ASSUME NEW S, NEW q \in Seq(S), NewestFirst(q), \A e \in S : Has(q, e), NEW n \in Nat, Len(q) <= n
  PROVE  IsLatest(q, S, n)
BY DEF IsLatest

\* The answer of recent_events: the newest of those that match a project.
LEMMA RecentIsLatest ==
  ASSUME LogInv, NEW p, NEW n \in Nat
  PROVE  IsLatest(FirstOf(Recent(daemon.log, p), n), {e \in ToSet(daemon.log) : Matches(e, p)}, n)
<1> DEFINE log == daemon.log
           K == {i \in DOMAIN log : Matches(log[i], p)}
           S == {e \in ToSet(log) : Matches(e, p)}
           r == Picked(log, K)
           q == Reverse(r)
           c == Cardinality(K)
<1>1. log \in Seq(LoggedEvent) /\ Len(log) \in Nat /\ DOMAIN log = 1..Len(log) /\ K \in SUBSET (1..Len(log))
  BY DEF LogInv
<1>2. \A i, j \in 1..Len(log) : i < j => log[i].id < log[j].id
  BY DEF LogInv
<1>3. PICK place : ArePlaces(place, log, K)
  BY <1>1, PickedPlaces
<1>4. /\ place \in [1..c -> K]
      /\ \A i \in 1..c : r[i] = log[place[i]]
      /\ \A i, j \in 1..c : i < j => place[i] < place[j]
      /\ \A k \in K : \E i \in 1..c : place[i] = k
  BY <1>3 DEF ArePlaces
<1>5. r \in Seq(LoggedEvent) /\ Len(r) = c /\ c \in 0..Len(log)
  BY <1>1, PickedPlaces
<1>6. ToSet(log) = {log[i] : i \in 1..Len(log)}
  BY <1>1 DEF ToSet
<1>7. (\A k \in K : k \in 1..Len(log) /\ log[k] \in S) /\ \A k \in 1..Len(log) : log[k] \in S => k \in K
  BY <1>1, <1>6
<1>8. Recent(log, p) = q
  BY DEF Recent
<1>9. Logged(S)
  BY LogIsLogged DEF Logged
<1>10. S \subseteq ToSet(log)
  OBVIOUS
<1> HIDE DEF r, c, K, S, log
<1>11. \A i, j \in 1..Len(r) : i < j => r[i].id < r[j].id
  <2> SUFFICES ASSUME NEW i \in 1..c, NEW j \in 1..c, i < j PROVE r[i].id < r[j].id
    BY <1>5
  <2>1. place[i] \in 1..Len(log) /\ place[j] \in 1..Len(log) /\ place[i] < place[j]
    BY <1>4, <1>7
  <2> QED
    BY <1>2, <1>4, <2>1
<1>12. /\ q \in Seq(LoggedEvent) /\ NewestFirst(q)
       /\ \A i \in 1..Len(q) : Has(r, q[i])
       /\ \A i \in 1..Len(r) : Has(q, r[i])
  BY <1>5, <1>11, ReversedLog
<1>13. \A i \in 1..Len(r) : r[i] \in S
  BY <1>4, <1>5, <1>7
<1> HIDE DEF q
<1>14. q \in Seq(S)
  <2>1. q = [i \in 1..Len(q) |-> q[i]] /\ Len(q) \in Nat
    BY <1>12
  <2>2. \A i \in 1..Len(q) : q[i] \in S
    BY <1>12, <1>13 DEF Has
  <2>3. q \in [1..Len(q) -> S]
    BY <2>1, <2>2
  <2> QED
    BY <2>1, <2>3
<1>15. ASSUME NEW e \in S PROVE Has(q, e)
  <2>1. PICK k \in 1..Len(log) : log[k] = e
    BY <1>6, <1>10
  <2>2. k \in K
    BY <1>7, <2>1
  <2>3. PICK i \in 1..c : place[i] = k
    BY <1>4, <2>2
  <2>4. i \in 1..Len(r) /\ r[i] = e
    BY <1>4, <1>5, <2>1, <2>3
  <2> QED
    BY <1>12, <2>4
<1>16. IsLatest(FirstOf(q, n), S, n)
  BY <1>9, <1>12, <1>14, <1>15, LatestOf
<1> QED
  BY <1>8, <1>16 DEF S, log

\* Of a history all of whose events are in another sequence, that one has as many.
LEMMA AsMany ==
  ASSUME NEW S, NEW h \in Seq(S), NewestFirst(h), NEW T, NEW q \in Seq(T), Logged(S),
         \A i \in 1..Len(h) : Has(q, h[i])
  PROVE  Len(h) <= Len(q)
<1> DEFINE H == 1..Len(h)
           Q == 1..Len(q)
           f == [i \in H |-> CHOOSE j \in Q : q[j] = h[i]]
<1>1. Len(h) \in Nat /\ Len(q) \in Nat
  OBVIOUS
<1>2. \A i \in H : f[i] \in Q /\ q[f[i]] = h[i]
  BY DEF Has
<1>3. f \in [H -> Q]
  BY <1>2
<1>4. \A i \in 1..Len(h) : h[i].id \in Nat
  BY DEF Logged
<1>5. ASSUME NEW i \in H, NEW j \in H, i # j PROVE f[i] # f[j]
  <2>1. i \in Nat /\ j \in Nat
    BY <1>1
  <2>2. h[i] # h[j]
    <3>1. CASE i < j
      BY <1>4, <3>1 DEF NewestFirst
    <3>2. CASE j < i
      BY <1>4, <3>2 DEF NewestFirst
    <3> QED
      BY <1>5, <2>1, <3>1, <3>2
  <2> HIDE DEF f
  <2> QED
    BY <1>2, <2>2
<1> HIDE DEF f
<1>6. IsFiniteSet(Q) /\ Cardinality(Q) = Len(q) /\ Cardinality(H) = Len(h)
  <2>1. ASSUME NEW n \in Nat PROVE IsFiniteSet(1..n) /\ Cardinality(1..n) = n
    <3>1. 1 \in Int /\ n \in Int
      OBVIOUS
    <3> QED
      BY <3>1, FS_Interval
  <2> QED
    BY <1>1, <2>1
<1> HIDE DEF H, Q
<1>7. f \in Injection(H, Q)
  BY <1>3, <1>5 DEF Injection, IsInjective
<1> QED
  BY <1>6, <1>7, FS_Injection

\* Live events of a project, and those of its history that are not among them.
Mine(live, p) == Picked(live, {i \in DOMAIN live : live[i].project = p})
Old(history, mine) == Picked(history, {i \in DOMAIN history : history[i].id \notin Ids(mine)})

\* The events of a project are in order among the others.
OwnInOrder(q, p) ==
  \A i, j \in 1..Len(q) : i < j /\ q[i].project = p /\ q[j].project = p => q[i].id > q[j].id

LEMMA MineIs ==
  ASSUME NEW live \in Seq(LoggedEvent), NEW p
  PROVE  LET mine == Mine(live, p) IN
         /\ mine \in Seq(LoggedEvent) /\ (OwnInOrder(live, p) => NewestFirst(mine))
         /\ Len(mine) \in Nat /\ Len(mine) <= Len(live)
         /\ \A i \in 1..Len(mine) : mine[i].project = p /\ Has(live, mine[i])
         /\ \A e : Has(live, e) /\ e.project = p => Has(mine, e)
<1> DEFINE K == {i \in DOMAIN live : live[i].project = p}
           mine == Picked(live, K)
           c == Cardinality(K)
<1>1. DOMAIN live = 1..Len(live) /\ K \in SUBSET (1..Len(live)) /\ Len(live) \in Nat
  OBVIOUS
<1>2. \A k \in K : k \in 1..Len(live) /\ live[k].project = p
  BY <1>1
<1>3. \A k \in 1..Len(live) : live[k].project = p => k \in K
  BY <1>1
<1>4. mine = Mine(live, p)
  BY DEF Mine
<1>5. PICK place : ArePlaces(place, live, K)
  BY <1>1, PickedPlaces
<1>6. mine \in Seq(LoggedEvent) /\ Len(mine) = c /\ c \in 0..Len(live)
  BY <1>1, PickedPlaces
<1>7. /\ place \in [1..c -> K]
      /\ \A n \in 1..c : mine[n] = live[place[n]]
      /\ \A m, n \in 1..c : m < n => place[m] < place[n]
      /\ \A k \in K : \E n \in 1..c : place[n] = k
  BY <1>5 DEF ArePlaces
<1> HIDE DEF K, mine, c
<1>8. Len(mine) \in Nat /\ Len(mine) <= Len(live)
  BY <1>1, <1>6
<1>9. \A i \in 1..Len(mine) : mine[i].project = p /\ Has(live, mine[i])
  BY <1>2, <1>6, <1>7 DEF Has
<1>10. ASSUME NEW e, Has(live, e), e.project = p PROVE Has(mine, e)
  <2>1. PICK k \in 1..Len(live) : live[k] = e
    BY <1>10 DEF Has
  <2>2. PICK n \in 1..c : place[n] = k
    BY <1>3, <1>7, <1>10, <2>1
  <2> QED
    BY <1>6, <1>7, <2>1, <2>2 DEF Has
<1>11. ASSUME OwnInOrder(live, p), NEW m \in 1..c, NEW n \in 1..c, m < n
       PROVE  mine[m].id > mine[n].id
  <2>1. /\ place[m] \in 1..Len(live) /\ place[n] \in 1..Len(live) /\ place[m] < place[n]
        /\ live[place[m]].project = p /\ live[place[n]].project = p
    BY <1>2, <1>7, <1>11
  <2> QED
    BY <1>7, <1>11, <2>1 DEF OwnInOrder
<1>12. OwnInOrder(live, p) => NewestFirst(mine)
  BY <1>6, <1>11 DEF NewestFirst
<1> QED
  BY <1>4, <1>6, <1>8, <1>9, <1>10, <1>12

LEMMA NewestAreInOrder ==
  ASSUME NEW q, NewestFirst(q), NEW p
  PROVE  OwnInOrder(q, p)
BY DEF NewestFirst, OwnInOrder

LEMMA OldIs ==
  ASSUME NEW history \in Seq(LoggedEvent), NewestFirst(history), NEW mine \in Seq(LoggedEvent)
  PROVE  LET old == Old(history, mine) IN
         /\ old \in Seq(LoggedEvent) /\ NewestFirst(old)
         /\ \A i \in 1..Len(old) : Has(history, old[i]) /\ \A j \in 1..Len(mine) : mine[j].id # old[i].id
         /\ \A e : Has(history, e) => Has(old, e) \/ \E j \in 1..Len(mine) : mine[j].id = e.id
<1> DEFINE K == {i \in DOMAIN history : history[i].id \notin Ids(mine)}
           old == Picked(history, K)
<1>1. DOMAIN history = 1..Len(history) /\ K \in SUBSET (1..Len(history))
  OBVIOUS
<1>2. Ids(mine) = {mine[j].id : j \in 1..Len(mine)}
  BY DEF Ids
<1>3. \A k \in K : k \in 1..Len(history) /\ \A j \in 1..Len(mine) : mine[j].id # history[k].id
  BY <1>1, <1>2
<1>4. \A k \in 1..Len(history) : k \in K \/ \E j \in 1..Len(mine) : mine[j].id = history[k].id
  BY <1>1, <1>2
<1>5. old = Old(history, mine)
  BY DEF Old
<1> HIDE DEF K, old
<1>6. /\ old \in Seq(LoggedEvent) /\ NewestFirst(old)
      /\ \A n \in 1..Len(old) : \E k \in K : old[n] = history[k]
      /\ \A k \in K : Has(old, history[k])
  BY <1>1, FilterKeeps DEF old
<1>7. \A i \in 1..Len(old) : Has(history, old[i]) /\ \A j \in 1..Len(mine) : mine[j].id # old[i].id
  BY <1>3, <1>6 DEF Has
<1>8. ASSUME NEW e, Has(history, e) PROVE Has(old, e) \/ \E j \in 1..Len(mine) : mine[j].id = e.id
  <2>1. PICK k \in 1..Len(history) : history[k] = e
    BY <1>8 DEF Has
  <2> QED
    BY <1>4, <1>6, <2>1
<1> QED
  BY <1>5, <1>6, <1>7, <1>8

\* One sequence after another.
LEMMA After ==
  ASSUME NEW S, NEW p \in Seq(S), NEW q \in Seq(S)
  PROVE  /\ p \o q \in Seq(S) /\ Len(p \o q) = Len(p) + Len(q) /\ Len(p) \in Nat /\ Len(q) \in Nat
         /\ \A i \in 1..Len(p) : i \in 1..Len(p \o q) /\ (p \o q)[i] = p[i]
         /\ \A i \in 1..Len(q) : i + Len(p) \in 1..Len(p \o q) /\ (p \o q)[i + Len(p)] = q[i]
         /\ \A i \in 1..Len(p \o q) : i \in 1..Len(p) \/ (i - Len(p) \in 1..Len(q) /\ (p \o q)[i] = q[i - Len(p)])
         /\ \A e : Has(p, e) \/ Has(q, e) => Has(p \o q, e)
<1> DEFINE r == p \o q
<1>1. /\ r \in Seq(S) /\ Len(r) = Len(p) + Len(q) /\ Len(p) \in Nat /\ Len(q) \in Nat
      /\ \A i \in 1..Len(p) : r[i] = p[i]
      /\ \A i \in 1..Len(r) : i > Len(p) => r[i] = q[i - Len(p)]
  OBVIOUS
<1> HIDE DEF r
<1>2. \A i \in 1..Len(p) : i \in 1..Len(r)
  BY <1>1
<1>3. ASSUME NEW i \in 1..Len(q) PROVE i + Len(p) \in 1..Len(r) /\ r[i + Len(p)] = q[i]
  <2>1. i + Len(p) \in 1..Len(r) /\ i + Len(p) > Len(p) /\ (i + Len(p)) - Len(p) = i
    BY <1>1
  <2> QED
    BY <1>1, <2>1
<1>4. ASSUME NEW i \in 1..Len(r) PROVE i \in 1..Len(p) \/ (i - Len(p) \in 1..Len(q) /\ r[i] = q[i - Len(p)])
  BY <1>1
<1>5. \A e : Has(p, e) \/ Has(q, e) => Has(r, e)
  BY <1>1, <1>2, <1>3 DEF Has
<1> QED
  BY <1>1, <1>2, <1>3, <1>4, <1>5 DEF r

\* What a filter by ids leaves is not there twice.
LEMMA NoneTwiceInTimeline ==
  ASSUME NEW live \in Seq(LoggedEvent), NewestFirst(live), NEW history \in Seq(LoggedEvent), NewestFirst(history),
         NEW p, \A i \in 1..Len(history) : Concerns(history[i], p), NEW n \in Nat
  PROVE  LET t == FirstOf(Mine(live, p) \o Old(history, Mine(live, p)), n) IN
         /\ \A i \in DOMAIN t : Concerns(t[i], p)
         /\ Cardinality(Ids(t)) = Len(t)
<1> DEFINE mine == Mine(live, p)
           old == Old(history, mine)
           all == mine \o old
           m == IF Len(all) < n THEN Len(all) ELSE n
           t == SubSeq(all, 1, m)
<1>1. /\ mine \in Seq(LoggedEvent) /\ NewestFirst(mine) /\ \A i \in 1..Len(mine) : Concerns(mine[i], p)
  <2>1. /\ mine \in Seq(LoggedEvent) /\ NewestFirst(mine)
        /\ \A i \in 1..Len(mine) : mine[i].project = p
    BY MineIs, NewestAreInOrder
  <2> HIDE DEF mine
  <2> QED
    BY <2>1 DEF Concerns
<1>2. /\ old \in Seq(LoggedEvent) /\ NewestFirst(old)
      /\ \A i \in 1..Len(old) : Has(history, old[i]) /\ \A j \in 1..Len(mine) : mine[j].id # old[i].id
  <2> HIDE DEF mine
  <2> QED
    BY <1>1, OldIs
<1>3. FirstOf(all, n) = t
  BY DEF FirstOf
<1> HIDE DEF mine, old
<1>4. /\ all \in Seq(LoggedEvent) /\ Len(all) = Len(mine) + Len(old) /\ Len(mine) \in Nat /\ Len(old) \in Nat
      /\ \A i \in 1..Len(mine) : all[i] = mine[i]
      /\ \A i \in 1..Len(all) : i \in 1..Len(mine) \/ (i - Len(mine) \in 1..Len(old) /\ all[i] = old[i - Len(mine)])
  BY <1>1, <1>2, After
<1> HIDE DEF all
<1>5. \A i \in 1..Len(old) : Concerns(old[i], p)
  BY <1>2 DEF Has
<1>6. \A i \in 1..Len(all) : Concerns(all[i], p)
  BY <1>1, <1>4, <1>5
<1>7. /\ \A i \in 1..Len(mine) : mine[i].id \in Nat
      /\ \A i \in 1..Len(old) : old[i].id \in Nat
  BY <1>1, <1>2, EventsHaveIds
<1>8. ASSUME NEW i \in 1..Len(all), NEW j \in 1..Len(all), i < j PROVE all[i].id # all[j].id
  <2>1. i \in Nat /\ j \in Nat
    BY <1>4
  <2>2. CASE j \in 1..Len(mine)
    <3>1. i \in 1..Len(mine)
      BY <1>8, <2>1, <2>2
    <3>2. mine[i].id > mine[j].id
      BY <1>1, <1>8, <2>2, <3>1 DEF NewestFirst
    <3> QED
      BY <1>4, <1>7, <2>2, <3>1, <3>2
  <2>3. CASE j \notin 1..Len(mine) /\ i \in 1..Len(mine)
    <3>1. j - Len(mine) \in 1..Len(old) /\ all[j] = old[j - Len(mine)]
      BY <1>4, <2>3
    <3> QED
      BY <1>2, <1>4, <2>3, <3>1
  <2>4. CASE i \notin 1..Len(mine)
    <3>1. i - Len(mine) \in 1..Len(old) /\ all[i] = old[i - Len(mine)]
      BY <1>4, <2>4
    <3>2. j \notin 1..Len(mine)
      BY <1>4, <1>8, <2>1, <2>4
    <3>3. j - Len(mine) \in 1..Len(old) /\ all[j] = old[j - Len(mine)]
      BY <1>4, <3>2
    <3>4. i - Len(mine) < j - Len(mine)
      BY <1>4, <1>8, <2>1
    <3>5. old[i - Len(mine)].id > old[j - Len(mine)].id
      BY <1>2, <3>1, <3>3, <3>4 DEF NewestFirst
    <3> QED
      BY <1>7, <3>1, <3>3, <3>5
  <2> QED
    BY <2>2, <2>3, <2>4
<1>9. Len(all) \in Nat /\ m \in Nat /\ m <= Len(all)
  BY <1>4
<1> HIDE DEF m
<1>10. t \in Seq(LoggedEvent) /\ Len(t) = m /\ DOMAIN t = 1..m /\ \A i \in 1..m : i \in 1..Len(all) /\ t[i] = all[i]
  BY <1>4, <1>9
<1> HIDE DEF t
<1>11. \A i \in DOMAIN t : Concerns(t[i], p)
  BY <1>6, <1>10
<1>12. Cardinality(Ids(t)) = Len(t)
  <2> DEFINE D == 1..m
             C == Ids(t)
             f == [i \in D |-> t[i].id]
  <2>1. C = {f[i] : i \in D}
    BY <1>10 DEF Ids
  <2>2. ASSUME NEW i \in D, NEW j \in D, i # j PROVE f[i] # f[j]
    <3>1. i \in Nat /\ j \in Nat
      BY <1>9
    <3>2. i < j \/ j < i
      BY <2>2, <3>1
    <3>3. i \in 1..Len(all) /\ j \in 1..Len(all) /\ t[i] = all[i] /\ t[j] = all[j]
      BY <1>10
    <3> QED
      BY <1>8, <3>2, <3>3
  <2>3. IsFiniteSet(D) /\ Cardinality(D) = m
    <3>1. 1 \in Int /\ m \in Int /\ m >= 0
      BY <1>9
    <3> QED
      BY <3>1, FS_Interval
  <2>4. f = [i \in D |-> f[i]]
    OBVIOUS
  <2> HIDE DEF f, C, D
  <2>5. f \in Surjection(D, C) /\ f \in Injection(D, C)
    <3>1. f \in [D -> C]
      BY <2>1, <2>4
    <3>2. \A c \in C : \E i \in D : f[i] = c
      BY <2>1
    <3> QED
      BY <2>2, <3>1, <3>2 DEF Surjection, Injection, IsInjective
  <2>6. Cardinality(C) = Cardinality(D)
    BY <2>3, <2>5, FS_Surjection
  <2> QED
    BY <1>10, <2>3, <2>6 DEF C
<1> QED
  BY <1>3, <1>11, <1>12 DEF mine, old, all

\* A buffer that has every event after m, and a history that lacks no event of p up to heard, no
\* earlier than m, but for those older than all it has room for: together they have the newest
\* events of p, and all of them if there is room.
LEMMA NoHoleBetween ==
  ASSUME NEW S, Logged(S), S \subseteq LoggedEvent, NEW p, NEW n \in Nat,
         NEW live \in Seq(LoggedEvent), NewestFirst(live), NEW m \in Nat,
         \A i \in 1..Len(live) : live[i] \in S /\ live[i].id > m,
         \A e \in S : e.id > m => Has(live, e),
         NEW heard \in Nat, m <= heard,
         NEW history \in Seq(LoggedEvent), NewestFirst(history),
         \A i \in 1..Len(history) : history[i] \in S,
         \A e \in S : e.project = p /\ e.id <= heard =>
           Has(history, e) \/ (Len(history) = n /\ \A i \in 1..n : history[i].id > e.id)
  PROVE  LET t == FirstOf(Mine(live, p) \o Old(history, Mine(live, p)), n)
             T == {e \in S : e.project = p}
         IN  /\ t \in Seq(LoggedEvent)
             /\ IsLatest(Mine(t, p), T, Len(Mine(t, p)))
             /\ Len(t) < n => \A e \in T : Has(Mine(t, p), e)
<1> DEFINE mine == Mine(live, p)
           old == Old(history, mine)
           all == mine \o old
           k == IF Len(all) < n THEN Len(all) ELSE n
           t == SubSeq(all, 1, k)
           own == Mine(t, p)
           T == {e \in S : e.project = p}
<1>1. /\ mine \in Seq(LoggedEvent) /\ NewestFirst(mine)
      /\ \A i \in 1..Len(mine) : mine[i].project = p /\ Has(live, mine[i])
      /\ \A e : Has(live, e) /\ e.project = p => Has(mine, e)
  BY MineIs, NewestAreInOrder
<1>2. /\ old \in Seq(LoggedEvent) /\ NewestFirst(old)
      /\ \A i \in 1..Len(old) : Has(history, old[i]) /\ \A j \in 1..Len(mine) : mine[j].id # old[i].id
      /\ \A e : Has(history, e) => Has(old, e) \/ \E j \in 1..Len(mine) : mine[j].id = e.id
  <2> HIDE DEF mine
  <2> QED
    BY <1>1, OldIs
<1>3. FirstOf(all, n) = t
  BY DEF FirstOf
<1> HIDE DEF mine, old
<1>4. \A i \in 1..Len(mine) : mine[i] \in S /\ mine[i].id > m /\ mine[i].id \in Nat
  BY <1>1 DEF Has, Logged
\* What the history adds of the project is older than the buffer.
<1>5. ASSUME NEW i \in 1..Len(old)
      PROVE  old[i] \in S /\ old[i].id \in Nat /\ (old[i].project = p => old[i].id <= m)
  <2>1. PICK j \in 1..Len(history) : history[j] = old[i]
    BY <1>2 DEF Has
  <2>2. old[i] \in S /\ old[i].id \in Nat
    BY <2>1 DEF Logged
  <2>3. old[i].project = p /\ old[i].id > m => Has(mine, old[i])
    BY <1>1, <2>2
  <2>4. ~ Has(mine, old[i])
    BY <1>2 DEF Has
  <2> QED
    BY <2>2, <2>3, <2>4
<1>6. /\ all \in Seq(LoggedEvent) /\ Len(all) = Len(mine) + Len(old) /\ Len(mine) \in Nat /\ Len(old) \in Nat
      /\ \A i \in 1..Len(mine) : all[i] = mine[i]
      /\ \A i \in 1..Len(all) : i \in 1..Len(mine) \/ (i - Len(mine) \in 1..Len(old) /\ all[i] = old[i - Len(mine)])
      /\ \A e : Has(mine, e) \/ Has(old, e) => Has(all, e)
  BY <1>1, <1>2, After
<1> HIDE DEF all
<1>7. Len(all) \in Nat /\ k \in Nat /\ k <= Len(all) /\ k <= n /\ (k = n \/ (k = Len(all) /\ k < n))
  BY <1>6
<1> HIDE DEF k
<1>8. t \in Seq(LoggedEvent) /\ Len(t) = k /\ \A i \in 1..k : i \in 1..Len(all) /\ t[i] = all[i]
  BY <1>6, <1>7
<1> HIDE DEF t
<1>9. \A i \in 1..Len(all) : all[i] \in S
  BY <1>4, <1>5, <1>6
<1>10. OwnInOrder(all, p)
  <2> SUFFICES ASSUME NEW i \in 1..Len(all), NEW j \in 1..Len(all), i < j, all[i].project = p, all[j].project = p
               PROVE  all[i].id > all[j].id
    BY DEF OwnInOrder
  <2>1. i \in Nat /\ j \in Nat
    BY <1>6
  <2>2. CASE j \in 1..Len(mine)
    <3>1. i \in 1..Len(mine)
      BY <2>1, <2>2
    <3> QED
      BY <1>1, <1>6, <2>2, <3>1 DEF NewestFirst
  <2>3. CASE j \notin 1..Len(mine) /\ i \in 1..Len(mine)
    <3>1. j - Len(mine) \in 1..Len(old) /\ all[j] = old[j - Len(mine)]
      BY <1>6, <2>3
    <3>2. old[j - Len(mine)].id <= m /\ old[j - Len(mine)].id \in Nat /\ mine[i].id > m /\ mine[i].id \in Nat
      BY <1>4, <1>5, <2>3, <3>1
    <3> QED
      BY <1>6, <2>3, <3>1, <3>2
  <2>4. CASE i \notin 1..Len(mine)
    <3>1. j \notin 1..Len(mine)
      BY <1>6, <2>1, <2>4
    <3>2. i - Len(mine) \in 1..Len(old) /\ all[i] = old[i - Len(mine)]
      BY <1>6, <2>4
    <3>3. j - Len(mine) \in 1..Len(old) /\ all[j] = old[j - Len(mine)]
      BY <1>6, <3>1
    <3>4. i - Len(mine) < j - Len(mine)
      BY <1>6, <2>1
    <3> QED
      BY <1>2, <3>2, <3>3, <3>4 DEF NewestFirst
  <2> QED
    BY <2>2, <2>3, <2>4
<1>11. OwnInOrder(t, p)
  BY <1>7, <1>8, <1>10 DEF OwnInOrder
<1>12. /\ own \in Seq(LoggedEvent) /\ NewestFirst(own) /\ Len(own) \in Nat
       /\ \A i \in 1..Len(own) : own[i].project = p /\ Has(t, own[i])
       /\ \A e : Has(t, e) /\ e.project = p => Has(own, e)
  BY <1>8, <1>11, MineIs
<1> HIDE DEF own
<1>13. ASSUME NEW i \in 1..Len(own) PROVE \E j \in 1..k : all[j] = own[i]
  BY <1>8, <1>12 DEF Has
<1>14. own \in Seq(T)
  <2>1. own = [i \in 1..Len(own) |-> own[i]]
    BY <1>12
  <2>2. \A i \in 1..Len(own) : own[i] \in T
    BY <1>7, <1>9, <1>12, <1>13
  <2> HIDE DEF T
  <2>3. own \in [1..Len(own) -> T]
    BY <2>1, <2>2
  <2> QED
    BY <1>12, <2>3
\* Every event of the history is among them.
<1>15. ASSUME NEW e, Has(history, e) PROVE Has(all, e)
  <2>1. CASE Has(old, e)
    BY <1>6, <2>1
  <2>2. CASE \E j \in 1..Len(mine) : mine[j].id = e.id
    <3>1. PICK j \in 1..Len(mine) : mine[j].id = e.id
      BY <2>2
    <3>2. e \in S /\ mine[j] \in S
      BY <1>4, <1>15 DEF Has
    <3>3. mine[j] = e
      BY <3>1, <3>2 DEF Logged
    <3> QED
      BY <1>6, <3>3 DEF Has
  <2> QED
    BY <1>2, <1>15, <2>1, <2>2
<1>16. ASSUME NEW e \in T, ~ Has(all, e)
       PROVE  /\ Len(history) = n
              /\ \A j \in 1..Len(all) : all[j].id > e.id
  <2>1. e \in S /\ e.project = p /\ e.id \in Nat
    BY DEF Logged
  <2>2. e.id <= m
    <3>1. e.id > m => Has(mine, e)
      BY <1>1, <2>1
    <3> QED
      BY <1>6, <1>16, <2>1, <3>1
  <2>3. ~ Has(history, e)
    BY <1>15, <1>16
  <2>4. Len(history) = n /\ \A i \in 1..n : history[i].id > e.id
    BY <2>1, <2>2, <2>3
  <2>5. ASSUME NEW j \in 1..Len(all) PROVE all[j].id > e.id
    <3>1. CASE j \in 1..Len(mine)
      BY <1>4, <1>6, <2>1, <2>2, <3>1
    <3>2. CASE j \notin 1..Len(mine)
      <4>1. j - Len(mine) \in 1..Len(old) /\ all[j] = old[j - Len(mine)]
        BY <1>6, <3>2
      <4>2. Has(history, old[j - Len(mine)])
        BY <1>2, <4>1
      <4> QED
        BY <2>4, <4>1, <4>2 DEF Has
    <3> QED
      BY <3>1, <3>2
  <2> QED
    BY <2>4, <2>5
<1>17. ASSUME NEW e \in T, ~ Has(own, e)
       PROVE  \A i \in 1..Len(own) : own[i].id > e.id
  <2>1. e.project = p /\ ~ Has(t, e)
    BY <1>12, <1>17
  <2>2. CASE Has(all, e)
    <3>1. PICK j \in 1..Len(all) : all[j] = e
      BY <2>2 DEF Has
    <3>2. ~ (j \in 1..k)
      BY <1>8, <2>1, <3>1 DEF Has
    <3> SUFFICES ASSUME NEW i \in 1..Len(own) PROVE own[i].id > e.id
      OBVIOUS
    <3>3. PICK l \in 1..k : all[l] = own[i]
      BY <1>13
    <3>4. l \in 1..Len(all) /\ l < j
      BY <1>7, <3>1, <3>2
    <3> QED
      BY <1>10, <1>12, <2>1, <3>1, <3>3, <3>4 DEF OwnInOrder
  <2>3. CASE ~ Has(all, e)
    BY <1>7, <1>8, <1>13, <1>16, <2>3
  <2> QED
    BY <2>2, <2>3
<1>18. IsLatest(own, T, Len(own))
  BY <1>12, <1>14, <1>17 DEF IsLatest
<1>19. ASSUME Len(t) < n, NEW e \in T PROVE Has(own, e)
  <2>1. k = Len(all) /\ k < n
    BY <1>7, <1>8, <1>19
  <2>2. Len(history) <= Len(all)
    <3>1. history \in Seq(S)
      <4>1. history = [i \in 1..Len(history) |-> history[i]] /\ Len(history) \in Nat
        OBVIOUS
      <4>2. history \in [1..Len(history) -> S]
        BY <4>1
      <4> QED
        BY <4>1, <4>2
    <3>2. \A i \in 1..Len(history) : Has(all, history[i])
      <4>1. \A i \in 1..Len(history) : Has(history, history[i])
        BY DEF Has
      <4> QED
        BY <1>15, <4>1
    <3> QED
      BY <1>6, <3>1, <3>2, AsMany
  <2>3. Has(all, e)
    BY <1>7, <1>16, <2>1, <2>2
  <2>4. Has(t, e)
    BY <1>8, <2>1, <2>3 DEF Has
  <2> QED
    BY <1>12, <1>19, <2>4
<1>20. /\ t \in Seq(LoggedEvent)
       /\ IsLatest(own, T, Len(own))
       /\ Len(t) < n => \A e \in T : Has(own, e)
  BY <1>8, <1>18, <1>19
<1> QED
  BY <1>3, <1>20 DEF mine, old, all, own

\* A history of p that was complete at a time: of whatever daemon, and judged by the log of this
\* one only if it is of this one.
HistoryOK(h, at, p, now, S) ==
  /\ h \in Seq(LoggedEvent) /\ NewestFirst(h) /\ at \in 0..now
  /\ \A i \in 1..Len(h) : Concerns(h[i], p) /\ h[i].id <= at
  /\ ToSet(h) \subseteq S =>
       \A e \in S : e.project = p /\ e.id <= at =>
         Has(h, e) \/ (Len(h) = TimelineLimit /\ \A i \in 1..TimelineLimit : h[i].id > e.id)

LEMMA ElementsOf ==
  ASSUME NEW T, NEW q \in Seq(T), NEW S
  PROVE  ToSet(q) \subseteq S <=> \A i \in 1..Len(q) : q[i] \in S
<1>1. ToSet(q) = {q[i] : i \in 1..Len(q)}
  BY DEF ToSet
<1> QED
  BY <1>1

\* A call that failed says that there is nothing yet.
LEMMA NoHistory ==
  ASSUME NEW p, NEW now \in Nat, NEW S, \A e \in S : e.id \in Nat /\ e.id > 0
  PROVE  HistoryOK(<<>>, 0, p, now, S)
<1>1. <<>> \in Seq(LoggedEvent) /\ Len(<<>>) = 0
  OBVIOUS
<1>2. NewestFirst(<<>>)
  BY <1>1 DEF NewestFirst
<1>3. \A e \in S : ~ (e.id <= 0)
  OBVIOUS
<1> QED
  BY <1>1, <1>2, <1>3 DEF HistoryOK

\* What matches a project concerns it: its service was there at one of the ticks so far.
LEMMA MatchesConcern ==
  ASSUME LogInv, NEW e, NEW p, Matches(e, p)
  PROVE  Concerns(e, p)
<1>1. CASE e.project = p
  BY <1>1 DEF Concerns
<1>2. CASE e.project # p
  <2>1. PICK s \in e.about : s \in Present /\ Home(s) = p
    BY <1>2 DEF Matches
  <2>2. daemon.rev[s] \in 1..MaxTicks /\ HomeOf[s][daemon.rev[s]] = p
    BY <2>1, LimitAssumption DEF Present, Home, LogInv
  <2> QED
    BY <2>1, <2>2 DEF Concerns
<1> QED
  BY <1>1, <1>2

LEMMA AnsweredHistory ==
  ASSUME LogInv, NEW p
  PROVE  HistoryOK(FirstOf(Recent(daemon.log, p), TimelineLimit), minted, p, minted, ToSet(daemon.log))
<1> DEFINE S == ToSet(daemon.log)
           T == {e \in S : Matches(e, p)}
           h == FirstOf(Recent(daemon.log, p), TimelineLimit)
<1>1. S \subseteq LoggedEvent /\ \A e \in S : e.id <= minted
  BY LogIsLogged
<1>2. T \subseteq LoggedEvent /\ \A e \in T : Concerns(e, p) /\ e.id <= minted
  BY <1>1, MatchesConcern
<1>3. \A e \in S : e.project = p => e \in T
  BY DEF Matches
<1>4. IsLatest(h, T, TimelineLimit)
  BY RecentIsLatest, PageAssumption
<1> HIDE DEF h, T, S
<1>5. h \in Seq(T) /\ NewestFirst(h)
      /\ \A e \in T : Has(h, e) \/ (Len(h) = TimelineLimit /\ \A i \in 1..TimelineLimit : h[i].id > e.id)
  BY <1>4 DEF IsLatest
<1>6. h \in Seq(LoggedEvent)
  BY <1>2, <1>5
<1>7. \A i \in 1..Len(h) : Concerns(h[i], p) /\ h[i].id <= minted
  BY <1>2, <1>5
<1>8. minted \in 0..minted
  BY DEF LogInv
<1>9. HistoryOK(h, minted, p, minted, S)
  BY <1>3, <1>5, <1>6, <1>7, <1>8 DEF HistoryOK
<1> QED
  BY <1>9 DEF h, S

\* What the daemon knows stays, grows, or is forgotten.
Grows(S, T, now) ==
  \/ S = T
  \/ T = {}
  \/ S \subseteq T /\ \A e \in T \ S : e.id \in Nat /\ e.id > now

\* A history stays complete up to its time when the log grows, or is another.
LEMMA HistoryStays ==
  ASSUME NEW h, NEW at, NEW p, NEW now \in Nat, NEW later \in Nat, now <= later, NEW S, NEW T,
         HistoryOK(h, at, p, now, S), Grows(S, T, now)
  PROVE  HistoryOK(h, at, p, later, T)
<1>1. /\ h \in Seq(LoggedEvent) /\ NewestFirst(h) /\ at \in 0..now /\ at \in 0..later
      /\ \A i \in 1..Len(h) : Concerns(h[i], p) /\ h[i].id <= at
  BY DEF HistoryOK
<1>2. Len(h) \in Nat /\ \A i \in 1..Len(h) : h[i].id \in Nat
  BY <1>1, EventsHaveIds
<1>3. CASE S = T
  BY <1>1, <1>3 DEF HistoryOK
<1>4. CASE T = {}
  BY <1>1, <1>4 DEF HistoryOK
<1>5. CASE S \subseteq T /\ \A e \in T \ S : e.id \in Nat /\ e.id > now
  <2>1. \A e \in T : e.id <= at => e \in S
    BY <1>1, <1>5
  <2>2. ToSet(h) \subseteq T => ToSet(h) \subseteq S
    <3> SUFFICES ASSUME ToSet(h) \subseteq T PROVE \A i \in 1..Len(h) : h[i] \in S
      BY <1>1, ElementsOf
    <3>1. \A i \in 1..Len(h) : h[i] \in T
      BY <1>1, ElementsOf
    <3> QED
      BY <1>1, <2>1, <3>1
  <2> QED
    BY <1>1, <2>1, <2>2 DEF HistoryOK
<1> QED
  BY <1>3, <1>4, <1>5 DEF Grows

\* What a page shows of a project whose history is up to date.
LEMMA TimelineIsLatest ==
  ASSUME FeedInv, UpToDate, NEW p, HistoryOK(page.history, page.heard, p, minted, ToSet(daemon.log))
  PROVE  LET t == FirstOf(Mine(view.events, p) \o Old(page.history, Mine(view.events, p)), TimelineLimit)
             T == {e \in ToSet(daemon.log) : e.project = p}
         IN  /\ t \in Seq(LoggedEvent)
             /\ IsLatest(Mine(t, p), T, Len(Mine(t, p)))
             /\ Len(t) < TimelineLimit => \A e \in T : Has(Mine(t, p), e)
<1> DEFINE live == view.events
           S == ToSet(daemon.log)
           m == minted - Len(live)
           history == page.history
<1>1. PICK heard \in since..minted : Hears(heard)
  BY DEF FeedInv
<1>2. LogInv /\ minted \in Nat /\ since \in Nat /\ live \in Seq(LoggedEvent) /\ Len(live) \in Nat /\ Len(live) <= EVENT_BUFFER
      /\ DOMAIN live = 1..Len(live)
  BY DEF FeedInv, LogInv
<1>16. link = "live" /\ channel = <<>> /\ page.heard >= since /\ ToSet(history) \subseteq S
       /\ minted - page.heard <= EVENT_BUFFER /\ \A i \in DOMAIN live : live[i].id > since
  BY DEF UpToDate
<1>3. heard = minted
  <2>1. Carries(<<>>, heard, minted, S)
    BY <1>1, <1>16 DEF Hears
  <2>2. PICK g \in [0..Len(<<>>) -> Nat] : g[0] = heard /\ g[Len(<<>>)] = minted
    BY <2>1 DEF Carries
  <2> QED
    BY <2>2
<1>4. Follows(live, since, minted) /\ Knows(live, since, minted, S)
  BY <1>1, <1>3, <1>16 DEF Hears
<1>5. \A i \in 1..Len(live) : live[i].id > since /\ live[i].id = minted + 1 - i /\ live[i] \in S
  BY <1>2, <1>4, <1>16 DEF Follows, Knows
<1>6. S \subseteq LoggedEvent /\ Logged(S) /\ \A e \in S : e.id \in Nat /\ e.id <= minted
  BY <1>2, LogIsLogged
<1>7. m \in Nat
  <2>1. CASE Len(live) = 0
    BY <1>2, <2>1
  <2>2. CASE Len(live) # 0
    <3>1. Len(live) \in 1..Len(live)
      BY <1>2, <2>2
    <3>2. minted + 1 - Len(live) > since
      BY <1>5, <3>1
    <3>3. minted \in Nat /\ since \in Nat /\ Len(live) \in Nat
      BY <1>2
    <3>4. \A a, b, c \in Nat : a + 1 - b > c => a - b \in Nat
      OBVIOUS
    <3> QED
      BY <3>2, <3>3, <3>4
  <2> QED
    BY <2>1, <2>2
<1>8. m <= page.heard /\ page.heard \in Nat
  <2>1. page.heard \in 0..minted
    BY DEF HistoryOK
  <2>2. CASE Len(live) < EVENT_BUFFER
    <3>1. minted - since <= Len(live)
      BY <1>4, <2>2 DEF Knows
    <3> QED
      BY <1>2, <1>16, <2>1, <3>1
  <2>3. CASE Len(live) = EVENT_BUFFER
    BY <1>2, <1>16, <2>1, <2>3
  <2> QED
    BY <1>2, <2>1, <2>2, <2>3, LimitAssumption
<1>9. \A i \in 1..Len(live) : live[i].id > m
  BY <1>2, <1>5
<1>10. ASSUME NEW e \in S, e.id > m PROVE Has(live, e)
  <2> DEFINE i == minted + 1 - e.id
  <2>1. i \in 1..Len(live) /\ minted + 1 - i = e.id
    BY <1>2, <1>6, <1>10
  <2> HIDE DEF i
  <2>2. live[i] \in S /\ live[i].id = e.id
    BY <1>5, <2>1
  <2>3. live[i] = e
    BY <1>6, <2>2 DEF Logged
  <2> QED
    BY <2>1, <2>3 DEF Has
<1>11. NewestFirst(live)
  BY <1>4 DEF Follows
<1>12. /\ history \in Seq(LoggedEvent) /\ NewestFirst(history)
       /\ \A e \in S : e.project = p /\ e.id <= page.heard =>
            Has(history, e) \/ (Len(history) = TimelineLimit /\ \A i \in 1..TimelineLimit : history[i].id > e.id)
  BY <1>16 DEF HistoryOK
<1>17. \A i \in 1..Len(history) : history[i] \in S
  BY <1>12, <1>16, ElementsOf
<1>13. \A i \in 1..Len(live) : live[i] \in S /\ live[i].id > m
  BY <1>5, <1>9
<1>14. \A e \in S : e.id > m => Has(live, e)
  BY <1>10
<1>15. /\ Logged(S) /\ S \subseteq LoggedEvent /\ live \in Seq(LoggedEvent) /\ TimelineLimit \in Nat
       /\ m <= page.heard /\ page.heard \in Nat
  BY <1>2, <1>6, <1>8, PageAssumption
<1> HIDE DEF S, m, live, history
<1> DEFINE t == FirstOf(Mine(live, p) \o Old(history, Mine(live, p)), TimelineLimit)
           T == {e \in S : e.project = p}
<1>18. /\ t \in Seq(LoggedEvent)
       /\ IsLatest(Mine(t, p), T, Len(Mine(t, p)))
       /\ Len(t) < TimelineLimit => \A e \in T : Has(Mine(t, p), e)
  BY <1>7, <1>11, <1>12, <1>13, <1>14, <1>15, <1>17, NoHoleBetween
<1> HIDE DEF t, T
<1> QED
  BY <1>18 DEF S, live, history, t, T
----------------------------------------------------------------------------
(***************************************************************************)
(* What a page fetches.                                                    *)
(***************************************************************************)
CallKinds == {"status", "project", "service", "events"}

\* A call of the page r is about it, and what it has for an answer was so once: the history of a
\* project complete up to the newest event of the answer.
CallOK(c, r, hosted, now, last, S) ==
  /\ {"what", "id", "answer"} \subseteq DOMAIN c /\ c.what \in CallKinds
  /\ c.what = "service" => c.id \in Service
  /\ c.what = "events" => r.view = "project" /\ c.id = r.id
  /\ {"state", "at", "rev", "events"} \subseteq DOMAIN c.answer
  /\ c.answer.at \in 0..(IF c.what = "events" THEN last ELSE now)
  /\ hosted => c.answer = DemoAnswer(c.what, c.id)
  /\ ~hosted /\ c.what = "events" /\ c.answer # Pending =>
       HistoryOK(c.answer.events, c.answer.at, c.id, last, S)

PageInv ==
  /\ tick \in Nat /\ minted \in Nat /\ route \in Routes /\ visits \in 0..MaxVisits
  /\ site \in [flag : BOOLEAN, loopback : BOOLEAN]
  /\ Hosted => channel = <<>>
  /\ Len(calls) <= MaxCalls + 1
  /\ \A i \in DOMAIN calls : CallOK(calls[i], route, Hosted, tick, minted, ToSet(daemon.log))
  /\ {"detail", "error", "history", "heard", "samples", "polled"} \subseteq DOMAIN page
  /\ page.detail.id \in Service \cup {"none"} /\ page.error \in BOOLEAN
  /\ page.samples \in NoStatus..tick /\ page.polled \in NoStatus..tick /\ page.heard \in 0..minted
  /\ ~Hosted /\ route.view = "project" /\ ~Waits("events") =>
       HistoryOK(page.history, page.heard, route.id, minted, ToSet(daemon.log))

LEMMA RoutesAre ==
  ASSUME NEW r \in Routes
  PROVE  /\ r.view \in {"overview", "project", "service"}
         /\ r.view = "service" => r.id \in Service
BY DEF Routes, Overview, ProjectPage, ServicePage

LEMMA AnswersHaveFields ==
  /\ {"state", "at", "rev", "events"} \subseteq DOMAIN Pending /\ Pending.state = "pending" /\ Pending.at = 0
  /\ {"state", "at", "rev", "events"} \subseteq DOMAIN Failed /\ Failed.state = "error" /\ Failed.at = 0
     /\ Failed.events = <<>>
  /\ {"state", "at", "rev", "events"} \subseteq DOMAIN Fine /\ Fine.state = "ok" /\ Fine.at = 0
BY DEF Pending, Failed, Fine

\* A demo has its answers at once.
LEMMA DemoAnswers ==
  ASSUME NEW what \in CallKinds, NEW id
  PROVE  /\ {"state", "at", "rev", "events"} \subseteq DOMAIN DemoAnswer(what, id)
         /\ DemoAnswer(what, id).at = 0 /\ DemoAnswer(what, id).state \in {"ok", "error"}
<1>1. CASE what = "status"
  BY <1>1, AnswersHaveFields DEF DemoAnswer
<1>2. CASE what = "project"
  BY <1>2, AnswersHaveFields DEF DemoAnswer
<1>3. CASE what = "service"
  BY <1>3, AnswersHaveFields DEF DemoAnswer
<1>4. CASE what = "events"
  BY <1>4, AnswersHaveFields DEF DemoAnswer
<1> QED
  BY <1>1, <1>2, <1>3, <1>4 DEF CallKinds

LEMMA AskedOK ==
  ASSUME NEW what \in CallKinds, NEW id, NEW r, NEW now \in Nat, NEW last \in Nat, NEW S,
         what = "service" => id \in Service,
         what = "events" => r.view = "project" /\ id = r.id
  PROVE  CallOK(Ask(what, id), r, Hosted, now, last, S)
<1> DEFINE c == Ask(what, id)
<1>1. {"what", "id", "answer"} \subseteq DOMAIN c /\ c.what = what /\ c.id = id
  BY DEF Ask, Request
<1>2. c.answer = IF Hosted THEN DemoAnswer(what, id) ELSE Pending
  BY DEF Ask, Request
<1> HIDE DEF c
<1>3. {"state", "at", "rev", "events"} \subseteq DOMAIN c.answer /\ c.answer.at = 0
  BY <1>2, AnswersHaveFields, DemoAnswers
<1>4. c.answer.at \in 0..now /\ c.answer.at \in 0..last
  BY <1>3
<1> QED
  BY <1>1, <1>2, <1>3, <1>4 DEF CallOK, c

\* A call stays so when the log grows, or is another.
LEMMA CallStays ==
  ASSUME NEW c, NEW r, NEW hosted, NEW now \in Nat, NEW then \in Nat, now <= then,
         NEW last \in Nat, NEW later \in Nat, last <= later, NEW S, NEW T,
         CallOK(c, r, hosted, now, last, S), Grows(S, T, last)
  PROVE  CallOK(c, r, hosted, then, later, T)
<1>1. c.answer.at \in 0..(IF c.what = "events" THEN later ELSE then)
  BY DEF CallOK
<1>2. ~hosted /\ c.what = "events" /\ c.answer # Pending => HistoryOK(c.answer.events, c.answer.at, c.id, later, T)
  BY HistoryStays DEF CallOK
<1> QED
  BY <1>1, <1>2 DEF CallOK

LEMMA StatusCallsOK ==
  ASSUME NEW connection, NEW r, NEW now \in Nat, NEW last \in Nat, NEW S
  PROVE  LET q == StatusCalls(connection) IN
         /\ Len(q) <= 1 /\ Len(q) \in Nat
         /\ \A i \in DOMAIN q : CallOK(q[i], r, Hosted, now, last, S) /\ q[i].what # "events"
<1> DEFINE c == Ask("status", "/")
           q == StatusCalls(connection)
<1>1. CallOK(c, r, Hosted, now, last, S)
  BY AskedOK DEF CallKinds
<1>2. c.what = "status"
  BY AskedFor DEF IsCall
<1>3. q = <<c>> \/ q = <<>>
  BY DEF StatusCalls
<1> HIDE DEF c, q
<1>4. CASE q = <<c>>
  <2>1. DOMAIN q = {1} /\ q[1] = c /\ Len(q) = 1
    BY <1>4
  <2> QED
    BY <1>1, <1>2, <2>1 DEF q
<1>5. CASE q = <<>>
  <2>1. DOMAIN q = {} /\ Len(q) = 0
    BY <1>5
  <2> QED
    BY <2>1 DEF q
<1> QED
  BY <1>3, <1>4, <1>5

LEMMA FirstCallsOK ==
  ASSUME NEW r \in Routes, NEW now \in Nat, NEW last \in Nat, NEW S
  PROVE  LET q == FirstCalls(r) IN
         /\ Len(q) <= MaxCalls + 1
         /\ \A i \in DOMAIN q : CallOK(q[i], r, Hosted, now, last, S)
         /\ r.view = "project" => \E i \in DOMAIN q : q[i].what = "events"
<1> DEFINE q == FirstCalls(r)
<1>1. CASE r.view = "overview"
  <2>1. q = StatusCalls(view.connection)
    BY <1>1 DEF FirstCalls
  <2> HIDE DEF q
  <2>2. Len(q) <= MaxCalls + 1 /\ \A i \in DOMAIN q : CallOK(q[i], r, Hosted, now, last, S)
    BY <2>1, StatusCallsOK, PageAssumption
  <2> QED
    BY <1>1, <2>2 DEF q
<1>2. CASE r.view = "project"
  <2> DEFINE a == Ask("events", r.id)
             b == Ask("project", r.id)
  <2>1. q = <<a, b>>
    BY <1>2 DEF FirstCalls
  <2>2. CallOK(a, r, Hosted, now, last, S) /\ CallOK(b, r, Hosted, now, last, S) /\ a.what = "events"
    BY <1>2, AskedOK, AskedFor DEF CallKinds, IsCall
  <2> HIDE DEF a, b, q
  <2>3. DOMAIN q = {1, 2} /\ q[1] = a /\ q[2] = b /\ Len(q) = 2
    BY <2>1
  <2> QED
    BY <2>2, <2>3, PageAssumption DEF q
<1>3. CASE r.view = "service"
  <2> DEFINE c == Ask("service", r.id)
  <2>1. q = <<c>>
    BY <1>3 DEF FirstCalls
  <2>2. CallOK(c, r, Hosted, now, last, S)
    BY <1>3, AskedOK, RoutesAre DEF CallKinds
  <2> HIDE DEF c, q
  <2>3. DOMAIN q = {1} /\ q[1] = c /\ Len(q) = 1
    BY <2>1
  <2> QED
    BY <1>3, <2>2, <2>3, PageAssumption DEF q
<1> QED
  BY <1>1, <1>2, <1>3, RoutesAre

LEMMA PolledCallsOK ==
  ASSUME route \in Routes, NEW now \in Nat, NEW last \in Nat, NEW S
  PROVE  /\ IsSequence(PolledCalls) /\ Len(PolledCalls) <= 1
         /\ \A i \in DOMAIN PolledCalls : CallOK(PolledCalls[i], route, Hosted, now, last, S)
<1> DEFINE q == PolledCalls
<1>1. CASE route.view = "overview"
  <2>1. q = StatusCalls(view.connection)
    BY <1>1 DEF PolledCalls
  <2> HIDE DEF q
  <2>2. IsSequence(q) /\ Len(q) <= 1 /\ \A i \in DOMAIN q : CallOK(q[i], route, Hosted, now, last, S)
    BY <2>1, StatusCallsOK, StatusCallsAreSequence
  <2> QED
    BY <2>2 DEF q
<1>2. CASE route.view \in {"project", "service"}
  <2> DEFINE what == route.view
             c == Ask(what, route.id)
  <2>1. q = <<c>>
    BY <1>2 DEF PolledCalls
  <2>2. CallOK(c, route, Hosted, now, last, S)
    BY <1>2, AskedOK, RoutesAre DEF CallKinds
  <2> HIDE DEF c, q
  <2>3. DOMAIN q = {1} /\ q[1] = c /\ Len(q) = 1 /\ IsSequence(q)
    BY <2>1, OneOf
  <2> QED
    BY <2>2, <2>3 DEF q
<1> QED
  BY <1>1, <1>2, RoutesAre

LEMMA PageInitially == DashInit => PageInv
<1> SUFFICES ASSUME DashInit PROVE PageInv
  OBVIOUS
<1>1. route \in Routes /\ calls = FirstCalls(route) /\ page = EmptyPage /\ visits = 0
      /\ site \in [flag : BOOLEAN, loopback : BOOLEAN]
  BY DEF DashInit, Routes
<1>2. tick = 0 /\ minted = 0 /\ channel = <<>>
  BY DEF DashInit, ViewInit
<1>3. /\ {"detail", "error", "history", "heard", "samples", "polled"} \subseteq DOMAIN page
      /\ page.detail.id = "none" /\ page.error = FALSE
      /\ page.samples = NoStatus /\ page.polled = NoStatus /\ page.heard = 0
  BY <1>1 DEF EmptyPage, NoDetail
<1>4. /\ Len(calls) <= MaxCalls + 1
      /\ \A i \in DOMAIN calls : CallOK(calls[i], route, Hosted, 0, 0, ToSet(daemon.log))
      /\ route.view = "project" => Waits("events")
  BY <1>1, FirstCallsOK DEF Waits
<1>5. \A i \in DOMAIN calls : CallOK(calls[i], route, Hosted, tick, minted, ToSet(daemon.log))
  BY <1>2, <1>4
<1>6. tick \in Nat /\ minted \in Nat /\ NoStatus \in NoStatus..tick /\ 0 \in 0..minted /\ 0 \in 0..MaxVisits
  BY <1>2, PageAssumption DEF NoStatus
<1> QED
  BY <1>1, <1>2, <1>3, <1>4, <1>5, <1>6 DEF PageInv

LEMMA VisitKeepsPage ==
  ASSUME PageInv, NEW r \in Routes, Visit(r)
  PROVE  PageInv'
<1>1. /\ route' = r /\ calls' = FirstCalls(r) /\ visits' = visits + 1 /\ visits < MaxVisits
      /\ UNCHANGED <<tick, minted, daemon, channel, site>>
  BY DEF Visit, viewVars, worldVars, wireVars
<1>2. Hosted' = Hosted
  BY <1>1 DEF Hosted
<1>3. /\ Len(calls') <= MaxCalls + 1
      /\ \A i \in DOMAIN calls' : CallOK(calls'[i], r, Hosted, tick, minted, ToSet(daemon.log))
      /\ r.view = "project" => \E i \in DOMAIN calls' : calls'[i].what = "events"
  BY <1>1, FirstCallsOK DEF PageInv
<1>4. r.view = "project" => Waits("events")'
  BY <1>3 DEF Waits
<1>5. /\ {"detail", "error", "history", "heard", "samples", "polled"} \subseteq DOMAIN page'
      /\ page'.detail.id \in Service \cup {"none"} /\ page'.error \in BOOLEAN
      /\ page'.samples \in NoStatus..tick /\ page'.polled \in NoStatus..tick /\ page'.heard \in 0..minted
  <2>1. CASE page' = EmptyPage
    BY <2>1 DEF EmptyPage, NoDetail, PageInv, NoStatus
  <2>2. CASE page' = page \/ page' = [page EXCEPT !.history = <<>>]
    BY <2>2 DEF PageInv
  <2> QED
    BY <2>1, <2>2 DEF Visit
<1>6. visits' \in 0..MaxVisits
  BY <1>1, PageAssumption DEF PageInv
<1> QED
  BY <1>1, <1>2, <1>3, <1>4, <1>5, <1>6 DEF PageInv

LEMMA PollKeepsPage ==
  ASSUME PageInv, IsSequence(calls), Poll
  PROVE  PageInv'
<1>1. /\ calls' = calls \o PolledCalls /\ Len(calls) < MaxCalls
      /\ UNCHANGED <<tick, minted, daemon, channel, site, route, page, visits>>
  BY DEF Poll, viewVars, worldVars, wireVars
<1>2. Hosted' = Hosted
  BY <1>1 DEF Hosted
<1>3. /\ IsSequence(PolledCalls) /\ Len(PolledCalls) <= 1
      /\ \A i \in DOMAIN PolledCalls : CallOK(PolledCalls[i], route, Hosted, tick, minted, ToSet(daemon.log))
  BY PolledCallsOK DEF PageInv
<1> HIDE DEF PolledCalls
<1>4. /\ Len(calls) \in Nat /\ Len(PolledCalls) \in Nat /\ Len(calls') = Len(calls) + Len(PolledCalls)
      /\ \A i \in DOMAIN calls : i \in DOMAIN calls' /\ calls'[i] = calls[i]
      /\ \A i \in DOMAIN calls' : i \notin DOMAIN calls =>
           i - Len(calls) \in DOMAIN PolledCalls /\ calls'[i] = PolledCalls[i - Len(calls)]
  <2>1. /\ Len(calls) \in Nat /\ Len(PolledCalls) \in Nat /\ DOMAIN calls' = 1..(Len(calls) + Len(PolledCalls))
        /\ IsSequence(calls')
    BY <1>1, <1>3, Joined
  <2>2. Len(calls') \in Nat /\ DOMAIN calls' = 1..Len(calls')
    BY <2>1 DEF IsSequence
  <2>3. Len(calls') = Len(calls) + Len(PolledCalls)
    <3>1. \A m, n \in Nat : 1..m = 1..n => m = n
      <4> SUFFICES ASSUME NEW m \in Nat, NEW n \in Nat, 1..m = 1..n PROVE m = n
        OBVIOUS
      <4>1. (m \in 1..m \/ m = 0) /\ (n \in 1..n \/ n = 0)
        OBVIOUS
      <4>2. \A k : k \in 1..m <=> k \in 1..n
        OBVIOUS
      <4>3. (m \in 1..n \/ m = 0) /\ (n \in 1..m \/ n = 0)
        BY <4>1, <4>2
      <4> QED
        BY <4>3
    <3> QED
      BY <2>1, <2>2, <3>1
  <2> QED
    BY <1>1, <1>3, <2>1, <2>3, Joined
<1>5. Len(calls') <= MaxCalls + 1
  BY <1>1, <1>3, <1>4, PageAssumption
<1>6. \A i \in DOMAIN calls' : CallOK(calls'[i], route, Hosted, tick, minted, ToSet(daemon.log))
  BY <1>3, <1>4 DEF PageInv
<1>7. Waits("events") => Waits("events")'
  BY <1>4 DEF Waits
<1> QED
  BY <1>1, <1>2, <1>5, <1>6, <1>7 DEF PageInv

\* The daemon answers of what it has now.
LEMMA AnswerOK ==
  ASSUME LogInv, NEW c, c.what \in CallKinds, ~ Hosted, NEW a, a = Failed \/ a = Answer(c)
  PROVE  /\ {"state", "at", "rev", "events"} \subseteq DOMAIN a
         /\ a.at \in 0..(IF c.what = "events" THEN minted ELSE tick)
         /\ c.what = "events" => HistoryOK(a.events, a.at, c.id, minted, ToSet(daemon.log))
<1>1. /\ tick \in Nat /\ 0 \in 0..tick /\ tick \in 0..tick
      /\ minted \in Nat /\ 0 \in 0..minted /\ minted \in 0..minted
  BY DEF LogInv
<1>2. HistoryOK(<<>>, 0, c.id, minted, ToSet(daemon.log))
  BY <1>1, LogIsLogged, NoHistory
<1>3. CASE a = Failed
  BY <1>1, <1>2, <1>3, AnswersHaveFields
<1>4. CASE a = Answer(c) /\ c.what = "events"
  <2> DEFINE h == FirstOf(Recent(daemon.log, c.id), TimelineLimit)
             n == [Fine EXCEPT !.at = tick]
  <2>1. a = [n EXCEPT !.at = minted, !.events = h]
    BY <1>4 DEF Answer
  <2>2. {"state", "at", "rev", "events"} \subseteq DOMAIN n /\ n.at = tick
    BY AnswersHaveFields
  <2>3. HistoryOK(h, minted, c.id, minted, ToSet(daemon.log))
    BY AnsweredHistory
  <2> HIDE DEF h, n
  <2>4. {"state", "at", "rev", "events"} \subseteq DOMAIN a /\ a.at = minted /\ a.events = h
    BY <2>1, <2>2
  <2> QED
    BY <1>1, <1>4, <2>3, <2>4
<1>5. CASE a = Answer(c) /\ c.what # "events"
  <2> DEFINE n == [Fine EXCEPT !.at = tick]
  <2>1. a \in {n, Failed, [n EXCEPT !.rev = daemon.rev[c.id]]}
    BY <1>5 DEF Answer, CallKinds
  <2>2. {"state", "at", "rev", "events"} \subseteq DOMAIN n /\ n.at = tick
    BY AnswersHaveFields
  <2> HIDE DEF n
  <2> QED
    BY <1>1, <1>5, <2>1, <2>2, AnswersHaveFields
<1> QED
  BY <1>3, <1>4, <1>5

LEMMA ServeKeepsPage ==
  ASSUME PageInv, ~Hosted => LogInv, IsSequence(calls), NEW i \in DOMAIN calls, Serve(i)
  PROVE  PageInv'
<1>1. PICK a : calls' = [calls EXCEPT ![i].answer = a] /\ (a = Failed \/ a = Answer(calls[i]))
  BY DEF Serve
<1>2. UNCHANGED <<tick, minted, daemon, channel, site, route, page, visits>> /\ calls[i].answer = Pending
  BY DEF Serve, viewVars, worldVars, wireVars
<1>3. Hosted' = Hosted
  BY <1>2 DEF Hosted
<1>4. CallOK(calls[i], route, Hosted, tick, minted, ToSet(daemon.log))
  BY DEF PageInv
<1>5. ~ Hosted
  BY <1>2, <1>4, DemoAnswers, AnswersHaveFields DEF CallOK
<1>6. /\ {"state", "at", "rev", "events"} \subseteq DOMAIN a
      /\ a.at \in 0..(IF calls[i].what = "events" THEN minted ELSE tick)
      /\ calls[i].what = "events" => HistoryOK(a.events, a.at, calls[i].id, minted, ToSet(daemon.log))
  BY <1>1, <1>4, <1>5, AnswerOK DEF CallOK
<1> DEFINE c == [calls[i] EXCEPT !.answer = a]
<1>7. {"what", "id", "answer"} \subseteq DOMAIN c /\ c.what = calls[i].what /\ c.id = calls[i].id /\ c.answer = a
  BY <1>4 DEF CallOK
<1>8. calls' = [calls EXCEPT ![i] = c]
  BY <1>1
<1> HIDE DEF c
<1>9. CallOK(c, route, Hosted, tick, minted, ToSet(daemon.log))
  BY <1>4, <1>5, <1>6, <1>7 DEF CallOK
<1>10. DOMAIN calls' = DOMAIN calls /\ Len(calls') = Len(calls)
       /\ \A j \in DOMAIN calls : calls'[j] = IF j = i THEN c ELSE calls[j]
  BY <1>8 DEF IsSequence
<1>11. \A j \in DOMAIN calls' : CallOK(calls'[j], route, Hosted, tick, minted, ToSet(daemon.log))
  BY <1>9, <1>10 DEF PageInv
<1>12. Waits("events") => Waits("events")'
  BY <1>7, <1>10 DEF Waits
<1> QED
  BY <1>2, <1>3, <1>10, <1>11, <1>12 DEF PageInv

\* Without one of its elements a sequence is shorter, and has all the others.
LEMMA OthersStay ==
  ASSUME NEW q, IsSequence(q), NEW i \in DOMAIN q
  PROVE  /\ Len(RemoveAt(q, i)) <= Len(q) /\ Len(q) \in Nat /\ Len(RemoveAt(q, i)) \in Nat
         /\ \A k \in DOMAIN q : k # i => \E j \in DOMAIN RemoveAt(q, i) : RemoveAt(q, i)[j] = q[k]
<1>1. PICK C : q \in Seq(C)
  BY DEF IsSequence
<1> DEFINE p == SubSeq(q, 1, i - 1)
           r == SubSeq(q, i + 1, Len(q))
<1>2. DOMAIN q = 1..Len(q) /\ Len(q) \in Nat /\ i \in 1..Len(q)
  BY <1>1
<1>3. p \in Seq(C) /\ r \in Seq(C) /\ Len(p) = i - 1 /\ Len(r) = Len(q) - i
  BY <1>1, <1>2
<1>4. \A k \in 1..(i - 1) : p[k] = q[k]
  BY <1>1, <1>2
<1>5. \A k \in 1..(Len(q) - i) : r[k] = q[k + i]
  BY <1>1, <1>2
<1>6. RemoveAt(q, i) = p \o r
  BY DEF RemoveAt
<1> HIDE DEF p, r
<1>7. /\ Len(p \o r) = Len(q) - 1 /\ DOMAIN (p \o r) = 1..(Len(q) - 1)
      /\ \A k \in 1..Len(p) : (p \o r)[k] = p[k]
      /\ \A k \in 1..Len(r) : k + Len(p) \in DOMAIN (p \o r) /\ (p \o r)[k + Len(p)] = r[k]
  <2>1. p \o r \in Seq(C) /\ Len(p \o r) = Len(p) + Len(r)
    BY <1>3
  <2> DEFINE all == p \o r
  <2>2. Len(p) + Len(r) = Len(q) - 1
    BY <1>2, <1>3
  <2>3. DOMAIN all = 1..Len(all) /\ Len(all) = Len(q) - 1
    BY <2>1, <2>2
  <2>4. \A k \in 1..Len(r) : k + Len(p) \in 1..Len(all) /\ all[k + Len(p)] = r[k]
    <3> SUFFICES ASSUME NEW k \in 1..Len(r) PROVE k + Len(p) \in 1..Len(all) /\ all[k + Len(p)] = r[k]
      OBVIOUS
    <3>1. p \in Seq(C) /\ r \in Seq(C)
      BY <1>3
    <3> QED
      BY <3>1, After
  <2>5. \A k \in 1..Len(p) : all[k] = p[k]
    BY <1>3, After
  <2> HIDE DEF all
  <2>6. DOMAIN all = 1..(Len(q) - 1)
    BY <2>3
  <2> QED
    BY <2>3, <2>4, <2>5, <2>6 DEF all
<1>8. ASSUME NEW k \in DOMAIN q, k # i PROVE \E j \in DOMAIN (p \o r) : (p \o r)[j] = q[k]
  <2>1. CASE k < i
    <3>1. k \in 1..(i - 1) /\ k \in 1..(Len(q) - 1)
      BY <1>2, <2>1
    <3> QED
      BY <1>3, <1>4, <1>7, <3>1
  <2>2. CASE k > i
    <3>1. k - i \in 1..(Len(q) - i) /\ (k - i) + i = k
      BY <1>2, <2>2
    <3>2. (k - i) + Len(p) \in DOMAIN (p \o r) /\ (p \o r)[(k - i) + Len(p)] = r[k - i]
      BY <1>3, <1>7, <3>1
    <3> QED
      BY <1>5, <3>1, <3>2
  <2> QED
    BY <1>2, <1>8, <2>1, <2>2
<1>9. Len(p \o r) <= Len(q) /\ Len(q) \in Nat /\ Len(p \o r) \in Nat
  <2>1. Len(q) - 1 \in Nat /\ Len(q) \in Nat
    BY <1>2
  <2> QED
    BY <1>7, <2>1
<1> QED
  BY <1>6, <1>8, <1>9

LEMMA DeliverKeepsPage ==
  ASSUME PageInv, IsSequence(calls), NEW i \in DOMAIN calls, Deliver(i)
  PROVE  PageInv'
<1> DEFINE c == calls[i]
<1>1. /\ calls' = RemoveAt(calls, i) /\ c.answer # Pending
      /\ UNCHANGED <<tick, minted, daemon, channel, site, route, visits>>
  BY DEF Deliver, viewVars, worldVars, wireVars
<1>2. Hosted' = Hosted
  BY <1>1 DEF Hosted
<1>3. CallOK(c, route, Hosted, tick, minted, ToSet(daemon.log))
  BY DEF PageInv
<1>4. \A j \in DOMAIN calls' : CallOK(calls'[j], route, Hosted, tick, minted, ToSet(daemon.log))
  BY <1>1, Removed DEF PageInv
<1>5. Len(calls') <= MaxCalls + 1
  BY <1>1, OthersStay, PageAssumption DEF PageInv
<1>6. /\ c.what # "events" => c.answer.at \in NoStatus..tick
      /\ c.what = "events" => c.answer.at \in 0..minted
  BY <1>3 DEF CallOK, PageInv, NoStatus
<1>7. CASE c.what = "service"
  <2>1. page' = ServiceAnswered(c) /\ c.id \in Service
    BY <1>3, <1>7 DEF Deliver, CallOK
  <2>2. \/ page' = [page EXCEPT !.detail = [id |-> c.id, rev |-> c.answer.rev], !.error = FALSE]
        \/ page' = [page EXCEPT !.error = TRUE]
    BY <2>1 DEF ServiceAnswered
  <2>3. /\ {"detail", "error", "history", "heard", "samples", "polled"} \subseteq DOMAIN page'
        /\ page'.detail.id \in Service \cup {"none"} /\ page'.error \in BOOLEAN
        /\ page'.samples = page.samples /\ page'.polled = page.polled /\ page'.heard = page.heard
        /\ page'.history = page.history
    <3> DEFINE detail == [id |-> c.id, rev |-> c.answer.rev]
    <3>1. detail.id \in Service
      BY <2>1
    <3> HIDE DEF detail
    <3>2. CASE page' = [page EXCEPT !.detail = detail, !.error = FALSE]
      BY <3>1, <3>2 DEF PageInv
    <3>3. CASE page' = [page EXCEPT !.error = TRUE]
      BY <3>3 DEF PageInv
    <3> QED
      BY <2>2, <3>2, <3>3 DEF detail
  <2>4. Waits("events") => Waits("events")'
    BY <1>1, <1>7, OthersStay DEF Waits
  <2> QED
    BY <1>1, <1>2, <1>4, <1>5, <2>3, <2>4 DEF PageInv
<1>8. CASE c.what = "events"
  <2>1. page' = [page EXCEPT !.history = c.answer.events, !.heard = c.answer.at]
    BY <1>8 DEF Deliver, EventsAnswered
  <2>2. /\ {"detail", "error", "history", "heard", "samples", "polled"} \subseteq DOMAIN page'
        /\ page'.detail = page.detail /\ page'.error = page.error
        /\ page'.samples = page.samples /\ page'.polled = page.polled /\ page'.heard = c.answer.at
        /\ page'.history = c.answer.events
    BY <2>1 DEF PageInv
  <2>3. ~Hosted => HistoryOK(c.answer.events, c.answer.at, route.id, minted, ToSet(daemon.log))
    BY <1>1, <1>3, <1>8 DEF CallOK
  <2>4. c.answer.at \in 0..minted
    BY <1>6, <1>8
  <2> QED
    BY <1>1, <1>2, <1>4, <1>5, <2>2, <2>3, <2>4 DEF PageInv
<1>9. CASE c.what \notin {"service", "events"}
  <2>1. page' = OthersAnswered(c)
    BY <1>9 DEF Deliver
  <2>2. page' \in {page, [page EXCEPT !.samples = c.answer.at], [page EXCEPT !.polled = c.answer.at]}
    BY <2>1 DEF OthersAnswered
  <2>3. /\ {"detail", "error", "history", "heard", "samples", "polled"} \subseteq DOMAIN page'
        /\ page'.detail = page.detail /\ page'.error = page.error
        /\ page'.samples \in {page.samples, c.answer.at} /\ page'.polled \in {page.polled, c.answer.at}
        /\ page'.heard = page.heard /\ page'.history = page.history
    BY <2>2 DEF PageInv
  <2>4. Waits("events") => Waits("events")'
    BY <1>1, <1>9, OthersStay DEF Waits
  <2>5. c.answer.at \in NoStatus..tick
    BY <1>6, <1>9
  <2> QED
    BY <1>1, <1>2, <1>4, <1>5, <2>3, <2>4, <2>5 DEF PageInv
<1> QED
  BY <1>7, <1>8, <1>9

\* What the daemon knows grows by the events of a tick, or is forgotten.
LEMMA LogGrows ==
  ASSUME LogInv, Daemon \/ Provider
  PROVE  /\ tick' \in Nat /\ tick <= tick' /\ minted' \in Nat /\ minted <= minted'
         /\ Grows(ToSet(daemon.log), ToSet(daemon'.log), minted)
<1>1. tick \in Nat /\ minted \in Nat
  BY DEF LogInv
<1>2. ASSUME NEW s \in Service, NEW gone, NEW linked, NEW warned, Tick(s, gone, linked, warned)
      PROVE  /\ tick' \in Nat /\ tick <= tick' /\ minted' \in Nat /\ minted <= minted'
             /\ Grows(ToSet(daemon.log), ToSet(daemon'.log), minted)
  <2>1. tick' = tick + 1
    BY <1>2 DEF Tick
  <2>2. /\ minted' \in Nat /\ minted <= minted' /\ ToSet(daemon.log) \subseteq ToSet(daemon'.log)
        /\ \A e \in ToSet(daemon'.log) \ ToSet(daemon.log) : e.id \in Nat /\ e.id > minted
    BY <1>2, TickIsLogged
  <2> QED
    BY <1>1, <2>1, <2>2 DEF Grows
<1>3. CASE StopDaemon
  <2>1. tick' = tick /\ minted' = minted /\ daemon'.log = <<>>
    BY <1>3, EmptyLog DEF StopDaemon
  <2>2. ToSet(daemon'.log) = {}
    BY <2>1 DEF ToSet
  <2> QED
    BY <1>1, <2>1, <2>2 DEF Grows
<1>4. CASE StartDaemon
  <2>1. tick' = tick /\ minted' = minted /\ daemon'.log = daemon.log
    BY <1>4 DEF StartDaemon, LogInv
  <2> QED
    BY <1>1, <2>1 DEF Grows
<1>5. CASE Accept \/ SendSnapshot \/ BreakConnection \/ Provider
  <2>1. UNCHANGED <<tick, minted, daemon>>
    BY <1>5 DEF Accept, SendSnapshot, BreakConnection, Provider, OnOpen, OnMessage, OnClose, Reconnect,
                Resnapshot, worldVars
  <2> QED
    BY <1>1, <2>1 DEF Grows
<1> QED
  BY <1>2, <1>3, <1>4, <1>5 DEF Daemon

LEMMA LiveStepKeepsPage ==
  ASSUME PageInv, ~Hosted, LogInv, LiveStep(Daemon \/ Provider)
  PROVE  PageInv'
<1> DEFINE S == ToSet(daemon.log)
           T == ToSet(daemon'.log)
<1>1. /\ UNCHANGED <<site, route, page, visits>>
      /\ \/ calls' = calls
         \/ route.view = "overview" /\ calls' = StatusCalls(view'.connection)
  BY DEF LiveStep
<1>2. ~ Hosted' /\ Hosted' = Hosted
  BY <1>1 DEF Hosted
<1>3. /\ tick \in Nat /\ tick' \in Nat /\ tick <= tick' /\ minted \in Nat /\ minted' \in Nat /\ minted <= minted'
      /\ Grows(S, T, minted)
  BY LogGrows DEF LiveStep, LogInv
<1> HIDE DEF S, T
<1>4. \A i \in DOMAIN calls : CallOK(calls[i], route, Hosted, tick', minted', T)
  BY <1>3, CallStays DEF PageInv, S
<1>5. Len(calls') <= MaxCalls + 1 /\ \A i \in DOMAIN calls' : CallOK(calls'[i], route, Hosted, tick', minted', T)
  <2>1. CASE calls' = calls
    BY <1>4, <2>1 DEF PageInv
  <2>2. CASE calls' = StatusCalls(view'.connection)
    BY <1>3, <2>2, StatusCallsOK, PageAssumption
  <2> QED
    BY <1>1, <2>1, <2>2
<1>6. ASSUME route.view = "project", ~ Waits("events")'
      PROVE  HistoryOK(page.history, page.heard, route.id, minted', T)
  <2>1. ~ Waits("events")
    BY <1>1, <1>6 DEF Waits
  <2>2. HistoryOK(page.history, page.heard, route.id, minted, S)
    BY <1>6, <2>1 DEF PageInv, S
  <2> QED
    BY <1>3, <2>2, HistoryStays
<1>7. \A t : (t \in NoStatus..tick => t \in NoStatus..tick') /\ (t \in 0..minted => t \in 0..minted')
  BY <1>3 DEF NoStatus
<1> QED
  BY <1>1, <1>2, <1>3, <1>5, <1>6, <1>7 DEF PageInv, T

\* Everything the pages need: what the provider, the inspector and the calls keep.
ScreenInv == DashInv /\ InspectorInv /\ PageInv

LEMMA ScreenInitially == DashInit => ScreenInv
BY DashInitially, InspectorInitially, PageInitially DEF ScreenInv

LEMMA ScreenSteps ==
  ASSUME ScreenInv, [DashNext]_dashVars
  PROVE  ScreenInv'
<1>1. DashInv' /\ InspectorInv'
  BY DashSteps, InspectorStep DEF ScreenInv, PageInv
<1>2. PageInv /\ IsSequence(calls) /\ (~Hosted => LogInv)
  BY DEF ScreenInv, InspectorInv, DashInv, FeedInv
<1>3. CASE UNCHANGED dashVars
  <2>1. UNCHANGED <<tick, minted, daemon, channel, site, route, page, calls, visits>>
    BY <1>3 DEF dashVars, viewVars, worldVars, wireVars, pageVars
  <2>2. Hosted' = Hosted /\ Waits("events")' = Waits("events")
    BY <2>1 DEF Hosted, Waits
  <2>3. PageInv'
    BY <1>2, <2>1, <2>2 DEF PageInv
  <2> QED
    BY <1>1, <2>3 DEF ScreenInv
<1>4. CASE ~Hosted /\ LiveStep(Daemon \/ Provider)
  BY <1>1, <1>2, <1>4, LiveStepKeepsPage DEF ScreenInv
<1>5. CASE Page
  <2>1. CASE \E r \in Routes : Visit(r)
    BY <1>1, <1>2, <2>1, VisitKeepsPage DEF ScreenInv
  <2>2. CASE Poll
    BY <1>1, <1>2, <2>2, PollKeepsPage DEF ScreenInv
  <2>3. CASE \E i \in DOMAIN calls : Serve(i)
    BY <1>1, <1>2, <2>3, ServeKeepsPage DEF ScreenInv
  <2>4. CASE \E i \in DOMAIN calls : Deliver(i)
    BY <1>1, <1>2, <2>4, DeliverKeepsPage DEF ScreenInv
  <2> QED
    BY <1>5, <2>1, <2>2, <2>3, <2>4 DEF Page
<1> QED
  BY <1>3, <1>4, <1>5 DEF DashNext

LEMMA PagesAreTyped == ScreenInv => DashTypeOK
<1> SUFFICES ASSUME ScreenInv PROVE DashTypeOK
  OBVIOUS
<1>1. PageInv /\ BadgeInv
  BY DEF ScreenInv, DashInv
<1>2. ASSUME Hosted, NEW i \in DOMAIN calls PROVE calls[i].answer # Pending
  <2>1. CallOK(calls[i], route, Hosted, tick, minted, ToSet(daemon.log))
    BY <1>1 DEF PageInv
  <2> QED
    BY <1>2, <2>1, DemoAnswers, AnswersHaveFields DEF CallOK
<1>3. \A i \in DOMAIN channel : IsFrame(channel[i])
  <2>1. Frames(channel)
    BY <1>1, NoFrames DEF PageInv, BadgeInv, Dialled
  <2>2. PICK F : channel \in Seq(F) /\ \A f \in F : FrameOK(f)
    BY <2>1 DEF Frames
  <2>3. \A i \in DOMAIN channel : channel[i] \in F
    BY <2>2
  <2> QED
    BY <2>2, <2>3 DEF FrameOK
<1>4. {page.samples, page.polled} \subseteq NoStatus..tick /\ page.heard \in 0..minted
  BY <1>1 DEF PageInv
<1> QED
  BY <1>1, <1>2, <1>3, <1>4 DEF DashTypeOK, PageInv

LEMMA TimelineIsWhole == ScreenInv => TimelineHasNoHole
<1> SUFFICES ASSUME ScreenInv, ~Hosted, route.view = "project", ~Waits("events")
             PROVE  /\ \A i \in DOMAIN Timeline : Concerns(Timeline[i], route.id)
                    /\ Cardinality(Ids(Timeline)) = Len(Timeline)
                    /\ UpToDate => LET all == Own(Reverse(daemon.log)) IN
                         /\ Own(Timeline) = FirstOf(all, Len(Own(Timeline)))
                         /\ Len(Timeline) < TimelineLimit => Own(Timeline) = all
  BY DEF TimelineHasNoHole
<1> DEFINE S == ToSet(daemon.log)
           p == route.id
           T == {e \in S : e.project = p}
           live == view.events
           history == page.history
           t == FirstOf(Mine(live, p) \o Old(history, Mine(live, p)), TimelineLimit)
<1>1. FeedInv /\ LogInv /\ HistoryOK(history, page.heard, p, minted, S)
  BY DEF ScreenInv, DashInv, PageInv, FeedInv
<1>2. live \in Seq(LoggedEvent) /\ NewestFirst(live)
  BY <1>1 DEF FeedInv, Hears, Follows
<1>3. /\ history \in Seq(LoggedEvent) /\ NewestFirst(history)
      /\ \A i \in 1..Len(history) : Concerns(history[i], p)
  BY <1>1 DEF HistoryOK
<1>4. Timeline = t
  BY DEF Timeline, Mine, Old
<1>5. /\ \A i \in DOMAIN t : Concerns(t[i], p)
      /\ Cardinality(Ids(t)) = Len(t)
  <2> HIDE DEF live, history, p
  <2> QED
    BY <1>2, <1>3, PageAssumption, NoneTwiceInTimeline
<1>6. ASSUME UpToDate
      PROVE  LET all == Mine(Reverse(daemon.log), p)
             IN  /\ Mine(t, p) = FirstOf(all, Len(Mine(t, p)))
                 /\ Len(t) < TimelineLimit => Mine(t, p) = all
  <2> DEFINE rev == Reverse(daemon.log)
             all == Mine(rev, p)
             own == Mine(t, p)
  <2>1. /\ t \in Seq(LoggedEvent) /\ IsLatest(own, T, Len(own))
        /\ Len(t) < TimelineLimit => \A e \in T : Has(own, e)
    BY <1>1, <1>6, TimelineIsLatest
  <2>2. Logged(T)
    BY <1>1, LogIsLogged DEF Logged
  <2>3. /\ daemon.log \in Seq(LoggedEvent) /\ DOMAIN daemon.log = 1..Len(daemon.log)
        /\ \A i, j \in 1..Len(daemon.log) : i < j => daemon.log[i].id < daemon.log[j].id
    BY <1>1 DEF LogInv
  <2>4. /\ rev \in Seq(LoggedEvent) /\ NewestFirst(rev)
        /\ \A i \in 1..Len(rev) : Has(daemon.log, rev[i])
        /\ \A i \in 1..Len(daemon.log) : Has(rev, daemon.log[i])
    BY <2>3, ReversedLog
  <2>5. S = {daemon.log[i] : i \in 1..Len(daemon.log)}
    BY <2>3 DEF ToSet
  <2> HIDE DEF rev, S, t
  <2>6. /\ all \in Seq(LoggedEvent) /\ NewestFirst(all) /\ Len(all) \in Nat
        /\ \A i \in 1..Len(all) : all[i].project = p /\ Has(rev, all[i])
        /\ \A e : Has(rev, e) /\ e.project = p => Has(all, e)
    BY <2>4, NewestAreInOrder, MineIs
  <2>7. Len(own) \in Nat
    BY <2>1, MineIs
  <2> HIDE DEF all, own
  <2>8. all \in Seq(T)
    <3>1. all = [i \in 1..Len(all) |-> all[i]]
      BY <2>6
    <3>2. ASSUME NEW i \in 1..Len(all) PROVE all[i] \in T
      <4>1. PICK j \in 1..Len(rev) : rev[j] = all[i]
        BY <2>6 DEF Has
      <4>2. PICK k \in 1..Len(daemon.log) : daemon.log[k] = all[i]
        BY <2>4, <4>1 DEF Has
      <4>3. all[i] \in S /\ all[i].project = p
        BY <2>5, <2>6, <4>2
      <4> QED
        BY <4>3
    <3> HIDE DEF T
    <3>3. all \in [1..Len(all) -> T]
      BY <3>1, <3>2
    <3> QED
      BY <2>6, <3>3
  <2>9. ASSUME NEW e \in T PROVE Has(all, e)
    <3>1. PICK i \in 1..Len(daemon.log) : daemon.log[i] = e
      BY <2>5
    <3> QED
      BY <2>4, <2>6, <3>1
  <2> HIDE DEF T
  <2>10. IsLatest(FirstOf(all, Len(own)), T, Len(own))
    BY <2>2, <2>6, <2>7, <2>8, <2>9, LatestOf
  <2>11. own = FirstOf(all, Len(own))
    BY <2>1, <2>2, <2>7, <2>10, LatestIsOne
  <2>12. ASSUME Len(t) < TimelineLimit PROVE own = all
    <3> DEFINE n == Len(own) + Len(all)
    <3>1. n \in Nat /\ Len(own) <= n /\ Len(all) <= n
      BY <2>6, <2>7
    <3> HIDE DEF n
    <3>2. IsLatest(all, T, n)
      BY <2>6, <2>8, <2>9, <3>1, AllAreLatest
    <3>3. own \in Seq(T) /\ NewestFirst(own)
      BY <2>1 DEF IsLatest
    <3>4. IsLatest(own, T, n)
      BY <2>1, <2>12, <3>1, <3>3, AllAreLatest
    <3> QED
      BY <2>2, <3>1, <3>2, <3>4, LatestIsOne
  <2> QED
    BY <2>11, <2>12 DEF all, own, rev
<1>7. \A q : Own(q) = Mine(q, route.id)
  BY DEF Own, Mine
<1> HIDE DEF t
<1> QED
  BY <1>4, <1>5, <1>6, <1>7 DEF p

\* Whatever is visited, polled, answered late or lost, no page has more calls under way than it
\* has made itself, no demo waits, what a page holds is of a tick that has been, and every frame
\* on its way is one that `reduce` knows (daemon.tsx:53-105, api.ts:11-42).
THEOREM PagesStayTyped == DashSpec => []DashTypeOK
<1> QED
  BY ScreenInitially, ScreenSteps, PagesAreTyped, PTL DEF DashSpec

\* The timeline of a project never has an event twice, or one that neither carries the project
\* nor is about a service that is or was in it; and where its history was heard on this connection
\* and the buffer has not overflowed since, the events that carry the project are the newest of
\* the daemon, and all of them while there is room, whatever else the history has: in any order of
\* ticks, frames, visits and answers (state.rs:211-230, ProjectView.tsx:61-91).
THEOREM TimelineStaysWhole == DashSpec => []TimelineHasNoHole
<1> QED
  BY ScreenInitially, ScreenSteps, TimelineIsWhole, PTL DEF DashSpec
----------------------------------------------------------------------------
(***************************************************************************)
(* The hosted demo.                                                        *)
(***************************************************************************)
DemoPages == {Overview, ProjectPage(DEMO_PROJECT)} \cup {ServicePage(s) : s \in DemoIds}

\* A call of a demo asks for what it has a fixture of, and has its answer.
DemoCall(c) ==
  /\ {"what", "id", "answer"} \subseteq DOMAIN c /\ c.what \in {"project", "service", "events"}
  /\ c.what = "project" => c.id = DEMO_PROJECT
  /\ c.what = "service" => c.id \in DemoIds
  /\ c.answer = DemoAnswer(c.what, c.id)

DemoInv ==
  /\ socket = "none" /\ view = DemoView /\ route \in DemoPages
  /\ IsSequence(calls) /\ \A i \in DOMAIN calls : DemoCall(calls[i])
  /\ {"detail", "error", "history", "heard", "samples", "polled"} \subseteq DOMAIN page
  /\ page.error = FALSE
  /\ page.detail = NoDetail \/ page.detail.id \in DemoIds
  /\ page.history \in {<<>>, DEMO_PROJECT_DETAIL.events}

LEMMA DemoAnswersFine ==
  ASSUME NEW c, DemoCall(c)
  PROVE  /\ c.answer.state = "ok" /\ c.answer # Pending
         /\ c.what = "events" => c.answer.events = DEMO_PROJECT_DETAIL.events
<1>1. CASE c.what = "project"
  <2>1. c.answer = Fine
    BY <1>1 DEF DemoCall, DemoAnswer
  <2> QED
    BY <1>1, <2>1, AnswersHaveFields
<1>2. CASE c.what = "service"
  <2>1. c.answer = [Fine EXCEPT !.rev = 1]
    BY <1>2 DEF DemoCall, DemoAnswer
  <2>2. c.answer.state = "ok"
    BY <2>1, AnswersHaveFields
  <2> QED
    BY <1>2, <2>2, AnswersHaveFields
<1>3. CASE c.what = "events"
  <2> DEFINE events == DEMO_PROJECT_DETAIL.events
  <2>1. c.answer = [Fine EXCEPT !.events = events]
    BY <1>3 DEF DemoCall, DemoAnswer
  <2> HIDE DEF events
  <2>2. c.answer.state = "ok" /\ c.answer.events = events
    BY <2>1, AnswersHaveFields
  <2> QED
    BY <2>2, AnswersHaveFields DEF events
<1> QED
  BY <1>1, <1>2, <1>3 DEF DemoCall

LEMMA DemoAsks ==
  ASSUME Hosted, NEW what \in {"project", "service", "events"}, NEW id,
         what = "project" => id = DEMO_PROJECT, what = "service" => id \in DemoIds
  PROVE  DemoCall(Ask(what, id))
BY DEF Ask, Request, DemoCall

\* What the pages of a demo ask for.
LEMMA DemoFirstCalls ==
  ASSUME Hosted, NEW r \in DemoPages
  PROVE  /\ IsSequence(FirstCalls(r))
         /\ \A i \in DOMAIN FirstCalls(r) : DemoCall(FirstCalls(r)[i])
<1> DEFINE q == FirstCalls(r)
<1>1. CASE r = Overview
  <2>1. q = <<>>
    BY <1>1 DEF Overview, FirstCalls, StatusCalls
  <2> HIDE DEF q
  <2>2. <<>> \in Seq(Nat) /\ DOMAIN <<>> = {}
    OBVIOUS
  <2> QED
    BY <2>1, <2>2 DEF IsSequence, q
<1>2. CASE r = ProjectPage(DEMO_PROJECT)
  <2> DEFINE a == Ask("events", DEMO_PROJECT)
             b == Ask("project", DEMO_PROJECT)
  <2>1. q = <<a, b>>
    BY <1>2 DEF FirstCalls, ProjectPage
  <2>2. DemoCall(a) /\ DemoCall(b)
    BY DemoAsks
  <2> HIDE DEF q, a, b
  <2>3. IsSequence(q) /\ DOMAIN q = {1, 2} /\ q[1] = a /\ q[2] = b
    BY <2>1, TwoOf
  <2> QED
    BY <2>2, <2>3 DEF q
<1>3. CASE \E s \in DemoIds : r = ServicePage(s)
  <2>1. PICK s \in DemoIds : r = ServicePage(s)
    BY <1>3
  <2> DEFINE a == Ask("service", s)
  <2>2. q = <<a>>
    BY <2>1 DEF FirstCalls, ServicePage
  <2>3. DemoCall(a)
    BY DemoAsks
  <2> HIDE DEF q, a
  <2>4. IsSequence(q) /\ DOMAIN q = {1} /\ q[1] = a
    BY <2>2, OneOf
  <2> QED
    BY <2>3, <2>4 DEF q
<1> QED
  BY <1>1, <1>2, <1>3 DEF DemoPages

LEMMA DemoPolledCalls ==
  ASSUME Hosted, route \in DemoPages
  PROVE  /\ IsSequence(PolledCalls)
         /\ \A i \in DOMAIN PolledCalls : DemoCall(PolledCalls[i])
<1> DEFINE q == PolledCalls
<1>1. CASE route = Overview
  <2>1. q = <<>>
    BY <1>1 DEF Overview, PolledCalls, StatusCalls
  <2> HIDE DEF q
  <2>2. <<>> \in Seq(Nat) /\ DOMAIN <<>> = {}
    OBVIOUS
  <2> QED
    BY <2>1, <2>2 DEF IsSequence, q
<1>2. ASSUME NEW what \in {"project", "service"}, NEW id, q = <<Ask(what, id)>>, DemoCall(Ask(what, id))
      PROVE  IsSequence(q) /\ \A i \in DOMAIN q : DemoCall(q[i])
  <2> DEFINE a == Ask(what, id)
  <2> HIDE DEF q, a
  <2>1. q = <<a>> /\ DemoCall(a)
    BY <1>2 DEF a
  <2>2. IsSequence(q) /\ DOMAIN q = {1} /\ q[1] = a
    BY <2>1, OneOf
  <2> QED
    BY <2>1, <2>2
<1>3. CASE route = ProjectPage(DEMO_PROJECT)
  <2>1. q = <<Ask("project", DEMO_PROJECT)>>
    BY <1>3 DEF PolledCalls, ProjectPage
  <2>2. DemoCall(Ask("project", DEMO_PROJECT))
    BY DemoAsks
  <2> HIDE DEF q
  <2> QED
    BY <1>2, <2>1, <2>2 DEF q
<1>4. CASE \E s \in DemoIds : route = ServicePage(s)
  <2>1. PICK s \in DemoIds : route = ServicePage(s)
    BY <1>4
  <2>2. q = <<Ask("service", s)>>
    BY <2>1 DEF PolledCalls, ServicePage
  <2>3. DemoCall(Ask("service", s))
    BY DemoAsks
  <2> HIDE DEF q
  <2> QED
    BY <1>2, <2>2, <2>3 DEF q
<1> QED
  BY <1>1, <1>3, <1>4 DEF DemoPages

\* Every link of a page of a demo is to another of its pages.
LEMMA DemoLinks ==
  ASSUME Hosted, DemoInv
  PROVE  Links \subseteq DemoPages
<1>1. view.projects = {DEMO_PROJECT} /\ view.services = DEMO_SERVICES
  BY DEF DemoInv, DemoView, EmptyView
<1>2. OverviewLinks \subseteq DemoPages
  BY <1>1 DEF OverviewLinks, DemoPages
<1>3. ProjectLinks \subseteq DemoPages
  <2>1. Ids(view.services) = DemoIds
    BY <1>1 DEF Ids, DemoIds
  <2>2. \A s \in ToSet(view.services) : s.id \in Ids(view.services)
    BY DEF ToSet, Ids
  <2>3. ProjectServices(route.id) \subseteq DemoIds
    BY <2>1, <2>2 DEF ProjectServices
  <2> QED
    BY <2>3 DEF ProjectLinks, DemoPages
<1>4. ServiceLinks \subseteq DemoPages
  <2>1. {DEMO_CONNECTION.source, DEMO_CONNECTION.target} \subseteq DemoIds
    BY DEF DEMO_CONNECTION, DemoIds, DEMO_SERVICES
  <2>2. \A id : DemoServiceDetail(id).outbound \cup DemoServiceDetail(id).inbound \subseteq DemoIds
    BY <2>1 DEF DemoServiceDetail
  <2> QED
    BY <2>2 DEF ServiceLinks, DemoPages
<1>5. route.view \in {"overview", "project", "service"}
  BY DEF DemoInv, DemoPages, Overview, ProjectPage, ServicePage
<1>6. Links = {Overview} \cup CASE route.view = "overview" -> OverviewLinks
                               [] route.view = "project"  -> ProjectLinks
                               [] route.view = "service"  -> ServiceLinks
  BY DEF Links
<1>7. Overview \in DemoPages
  BY DEF DemoPages
<1> HIDE DEF OverviewLinks, ProjectLinks, ServiceLinks, DemoPages
<1> QED
  BY <1>2, <1>3, <1>4, <1>5, <1>6, <1>7

LEMMA DemoInitially == DashInit /\ Hosted => DemoInv
<1> SUFFICES ASSUME DashInit, Hosted PROVE DemoInv
  OBVIOUS
<1>1. socket = "none" /\ view = DemoView /\ route = Overview /\ calls = FirstCalls(route) /\ page = EmptyPage
  BY DEF DashInit
<1>2. route \in DemoPages
  BY <1>1 DEF DemoPages
<1>3. IsSequence(calls) /\ \A i \in DOMAIN calls : DemoCall(calls[i])
  BY <1>1, <1>2, DemoFirstCalls
<1>4. /\ {"detail", "error", "history", "heard", "samples", "polled"} \subseteq DOMAIN page
      /\ page.error = FALSE /\ page.detail = NoDetail /\ page.history = <<>>
  BY <1>1 DEF EmptyPage
<1> QED
  BY <1>1, <1>2, <1>3, <1>4 DEF DemoInv

LEMMA DemoVisit ==
  ASSUME Hosted, DemoInv, NEW r \in Routes, Visit(r)
  PROVE  DemoInv'
<1>1. route' = r /\ calls' = FirstCalls(r) /\ r \in Links /\ UNCHANGED <<socket, view, site>>
  BY DEF Visit, viewVars, wireVars
<1>2. r \in DemoPages
  BY <1>1, DemoLinks
<1>3. IsSequence(calls') /\ \A i \in DOMAIN calls' : DemoCall(calls'[i])
  BY <1>1, <1>2, DemoFirstCalls
<1>4. page' \in {EmptyPage, page, [page EXCEPT !.history = <<>>]}
  BY DEF Visit
<1>5. /\ {"detail", "error", "history", "heard", "samples", "polled"} \subseteq DOMAIN page'
      /\ page'.error = FALSE
      /\ page'.detail = NoDetail \/ page'.detail.id \in DemoIds
      /\ page'.history \in {<<>>, DEMO_PROJECT_DETAIL.events}
  <2> DEFINE events == DEMO_PROJECT_DETAIL.events
  <2> HIDE DEF events
  <2>1. CASE page' = EmptyPage
    BY <2>1 DEF EmptyPage
  <2>2. CASE page' \in {page, [page EXCEPT !.history = <<>>]}
    BY <2>2 DEF DemoInv, events
  <2> QED
    BY <1>4, <2>1, <2>2
<1> QED
  BY <1>1, <1>2, <1>3, <1>5 DEF DemoInv

LEMMA DemoPoll ==
  ASSUME Hosted, DemoInv, Poll
  PROVE  DemoInv'
<1>1. calls' = calls \o PolledCalls /\ UNCHANGED <<socket, view, route, page>>
  BY DEF Poll, viewVars, wireVars
<1>2. IsSequence(PolledCalls) /\ \A i \in DOMAIN PolledCalls : DemoCall(PolledCalls[i])
  BY DemoPolledCalls DEF DemoInv
<1> HIDE DEF PolledCalls
<1>3. /\ IsSequence(calls')
      /\ \A i \in DOMAIN calls' : (i \in DOMAIN calls /\ calls'[i] = calls[i])
           \/ (i - Len(calls) \in DOMAIN PolledCalls /\ calls'[i] = PolledCalls[i - Len(calls)])
  BY <1>1, <1>2, Joined DEF DemoInv
<1>4. \A i \in DOMAIN calls' : DemoCall(calls'[i])
  BY <1>2, <1>3 DEF DemoInv
<1> QED
  BY <1>1, <1>3, <1>4 DEF DemoInv

LEMMA DemoServesNothing ==
  ASSUME DemoInv, NEW i \in DOMAIN calls
  PROVE  ~ Serve(i)
BY DemoAnswersFine DEF Serve, DemoInv

LEMMA DemoDeliver ==
  ASSUME Hosted, DemoInv, NEW i \in DOMAIN calls, Deliver(i)
  PROVE  DemoInv'
<1> DEFINE c == calls[i]
           events == DEMO_PROJECT_DETAIL.events
<1>1. calls' = RemoveAt(calls, i) /\ UNCHANGED <<socket, view, route>>
  BY DEF Deliver, viewVars, wireVars
<1>2. IsSequence(calls') /\ \A j \in DOMAIN calls' : DemoCall(calls'[j])
  BY <1>1, Removed DEF DemoInv
<1>3. DemoCall(c)
  BY DEF DemoInv
<1> HIDE DEF events
<1>4. /\ c.answer.state = "ok" /\ c.what \in {"project", "service", "events"}
      /\ c.what = "events" => c.answer.events = events
  BY <1>3, DemoAnswersFine DEF DemoCall, events
<1>5. /\ {"detail", "error", "history", "heard", "samples", "polled"} \subseteq DOMAIN page
      /\ page.error = FALSE /\ page.history \in {<<>>, events}
      /\ page.detail = NoDetail \/ page.detail.id \in DemoIds
  BY DEF DemoInv, events
<1>6. /\ {"detail", "error", "history", "heard", "samples", "polled"} \subseteq DOMAIN page'
      /\ page'.error = FALSE /\ page'.history \in {<<>>, events}
      /\ page'.detail = NoDetail \/ page'.detail.id \in DemoIds
  <2>1. CASE c.what = "service"
    <3> DEFINE detail == [id |-> c.id, rev |-> c.answer.rev]
    <3>1. page' = [page EXCEPT !.detail = detail, !.error = FALSE]
      BY <1>4, <2>1 DEF Deliver, ServiceAnswered
    <3>2. detail.id \in DemoIds
      BY <1>3, <2>1 DEF DemoCall
    <3> HIDE DEF detail
    <3> QED
      BY <1>5, <3>1, <3>2
  <2>2. CASE c.what = "events"
    <3>1. page' = [page EXCEPT !.history = events, !.heard = c.answer.at]
      BY <1>4, <2>2 DEF Deliver, EventsAnswered
    <3> QED
      BY <1>5, <3>1
  <2>3. CASE c.what = "project"
    <3>1. page' = [page EXCEPT !.samples = c.answer.at]
      BY <1>4, <2>3 DEF Deliver, OthersAnswered
    <3> QED
      BY <1>5, <3>1
  <2> QED
    BY <1>4, <2>1, <2>2, <2>3
<1> QED
  BY <1>1, <1>2, <1>6 DEF DemoInv, events

\* All of a sequence is the sequence, and of nothing nothing is left.
LEMMA AllPicked ==
  ASSUME NEW S, NEW q \in Seq(S)
  PROVE  Picked(q, 1..Len(q)) = q /\ Picked(q, {}) = <<>>
<1> DEFINE K == 1..Len(q)
<1>1. Len(q) \in Nat /\ q = [n \in 1..Len(q) |-> q[n]]
  OBVIOUS
<1>2. ASSUME NEW k \in Nat PROVE IsFiniteSet(1..k) /\ Cardinality(1..k) = k
  <2>1. 1 \in Int /\ k \in Int /\ k >= 0
    OBVIOUS
  <2> QED
    BY <2>1, FS_Interval
<1>3. ASSUME NEW k \in K PROVE Cardinality({j \in K : j <= k}) = k
  <2>1. {j \in K : j <= k} = 1..k /\ k \in Nat
    BY <1>1
  <2> QED
    BY <1>2, <2>1
<1>4. Cardinality(K) = Len(q)
  BY <1>1, <1>2
<1> HIDE DEF K
<1>5. \A n \in 1..Len(q) : (CHOOSE k \in K : Cardinality({j \in K : j <= k}) = n) = n
  <2> SUFFICES ASSUME NEW n \in 1..Len(q)
               PROVE  (CHOOSE k \in K : Cardinality({j \in K : j <= k}) = n) = n
    OBVIOUS
  <2>1. n \in K /\ Cardinality({j \in K : j <= n}) = n
    BY <1>3 DEF K
  <2>2. \A k \in K : Cardinality({j \in K : j <= k}) = n => k = n
    BY <1>3
  <2> QED
    BY <2>1, <2>2
<1>6. Picked(q, K) = [n \in 1..Len(q) |-> q[CHOOSE k \in K : Cardinality({j \in K : j <= k}) = n]]
  BY <1>4 DEF Picked
<1>7. Picked(q, K) = [n \in 1..Len(q) |-> q[n]]
  BY <1>5, <1>6
<1>8. Picked(q, {}) = <<>>
  <2>1. Cardinality({}) = 0
    BY FS_EmptySet
  <2>2. Picked(q, {}) = [n \in 1..0 |-> q[CHOOSE k \in {} : Cardinality({j \in {} : j <= k}) = n]]
    BY <2>1 DEF Picked
  <2>3. \A f : f = [n \in 1..0 |-> f[n]] => f = <<>>
    OBVIOUS
  <2> QED
    BY <2>2, <2>3
<1> QED
  BY <1>1, <1>7, <1>8 DEF K

LEMMA DemoEvents ==
  \E E : /\ DEMO_PROJECT_DETAIL.events \in Seq(E) /\ <<>> \in Seq(E)
         /\ DemoView.events = DEMO_PROJECT_DETAIL.events
         /\ \A i \in DOMAIN DEMO_PROJECT_DETAIL.events : DEMO_PROJECT_DETAIL.events[i].project = DEMO_PROJECT
<1> DEFINE E == {DEMO_EVENTS[i] : i \in 1..4}
           D == Reverse(DEMO_EVENTS)
<1>1. Len(DEMO_EVENTS) = 4 /\ \A i \in 1..4 : DEMO_EVENTS[i].project = DEMO_PROJECT
  BY DEF DEMO_EVENTS
<1>2. D = [i \in 1..4 |-> DEMO_EVENTS[(4 - i) + 1]]
  BY <1>1 DEF Reverse
<1>3. \A i \in 1..4 : (4 - i) + 1 \in 1..4
  OBVIOUS
<1>4. \A i \in 1..4 : D[i] \in E /\ D[i].project = DEMO_PROJECT
  BY <1>1, <1>2, <1>3
<1>5. D \in [1..4 -> E] /\ DOMAIN D = 1..4
  BY <1>2, <1>4
<1>6. DEMO_PROJECT_DETAIL.events = D /\ DemoView.events = D
  BY DEF DEMO_PROJECT_DETAIL, DemoView, EmptyView
<1> HIDE DEF D, E
<1>7. D \in Seq(E) /\ <<>> \in Seq(E)
  <2>1. \A n \in Nat : [1..n -> E] \subseteq Seq(E)
    OBVIOUS
  <2>2. 4 \in Nat /\ D \in [1..4 -> E]
    BY <1>5
  <2>3. D \in Seq(E)
    BY <2>1, <2>2
  <2> QED
    BY <2>3
<1> QED
  BY <1>4, <1>5, <1>6, <1>7

LEMMA DemoTimeline ==
  ASSUME DemoInv, route.view = "project"
  PROVE  Timeline = FirstOf(DEMO_PROJECT_DETAIL.events, TimelineLimit)
<1> DEFINE D == DEMO_PROJECT_DETAIL.events
           h == page.history
           K == {i \in DOMAIN D : D[i].project = route.id}
           O == {i \in DOMAIN h : h[i].id \notin Ids(D)}
<1>1. route.id = DEMO_PROJECT
  BY DEF DemoInv, DemoPages, Overview, ProjectPage, ServicePage
<1>2. PICK E : /\ D \in Seq(E) /\ <<>> \in Seq(E) /\ DemoView.events = D
               /\ \A i \in DOMAIN D : D[i].project = DEMO_PROJECT
  BY DemoEvents
<1>3. view.events = D /\ h \in {<<>>, D}
  BY <1>2 DEF DemoInv
<1>4. Timeline = FirstOf(Picked(D, K) \o Picked(h, {i \in DOMAIN h : h[i].id \notin Ids(Picked(D, K))}), TimelineLimit)
  BY <1>3 DEF Timeline
<1> HIDE DEF D, h
<1>5. DOMAIN D = 1..Len(D) /\ K = 1..Len(D)
  BY <1>1, <1>2
<1>6. Picked(D, K) = D
  BY <1>2, <1>5, AllPicked
<1>7. O = {}
  BY <1>3 DEF Ids
<1>8. h \in Seq(E)
  BY <1>2, <1>3
<1>9. Picked(h, O) = <<>>
  BY <1>7, <1>8, AllPicked
<1>10. D \o <<>> = D
  BY <1>2
<1>11. Timeline = FirstOf(D \o Picked(h, O), TimelineLimit)
  BY <1>4, <1>6
<1> QED
  BY <1>9, <1>10, <1>11 DEF D

LEMMA DemoIsShut ==
  ASSUME Hosted => DemoInv
  PROVE  DemoIsClosed
<1> SUFFICES ASSUME Hosted
             PROVE  /\ socket = "none" /\ view = DemoView /\ ~page.error
                    /\ \A i \in DOMAIN calls : calls[i].answer.state = "ok"
                    /\ (CASE route.view = "overview" -> <<>>
                          [] route.view = "project"  -> <<"projects", route.id>>
                          [] route.view = "service"  -> <<"services", route.id>>) \in StaticSlugs
                    /\ route.view = "project" => ProjectShows(route.id) = "project"
                    /\ route.view = "project" => Timeline = FirstOf(DEMO_PROJECT_DETAIL.events, TimelineLimit)
  BY DEF DemoIsClosed
<1>1. DemoInv
  OBVIOUS
<1>2. socket = "none" /\ view = DemoView /\ ~page.error
  BY <1>1 DEF DemoInv
<1>3. \A i \in DOMAIN calls : calls[i].answer.state = "ok"
  BY <1>1, DemoAnswersFine DEF DemoInv
<1>4. (CASE route.view = "overview" -> <<>>
         [] route.view = "project"  -> <<"projects", route.id>>
         [] route.view = "service"  -> <<"services", route.id>>) \in StaticSlugs
  <2>1. route \in DemoPages
    BY <1>1 DEF DemoInv
  <2>2. CASE route = Overview
    BY <2>2 DEF Overview, StaticSlugs
  <2>3. CASE route = ProjectPage(DEMO_PROJECT)
    BY <2>3 DEF ProjectPage, StaticSlugs
  <2>4. CASE \E s \in DemoIds : route = ServicePage(s)
    BY <2>4 DEF ServicePage, StaticSlugs
  <2> QED
    BY <2>1, <2>2, <2>3, <2>4 DEF DemoPages
<1>5. route.view = "project" => ProjectShows(route.id) = "project"
  <2>1. view.projects = {DEMO_PROJECT}
    BY <1>2 DEF DemoView, EmptyView
  <2>2. route.view = "project" => route.id = DEMO_PROJECT
    BY <1>1 DEF DemoInv, DemoPages, Overview, ProjectPage, ServicePage
  <2> QED
    BY <2>1, <2>2 DEF ProjectShows
<1>6. route.view = "project" => Timeline = FirstOf(DEMO_PROJECT_DETAIL.events, TimelineLimit)
  BY <1>1, DemoTimeline
<1> QED
  BY <1>2, <1>3, <1>4, <1>5, <1>6

LEMMA DemoSteps ==
  ASSUME Hosted => DemoInv, [DashNext]_dashVars
  PROVE  (Hosted => DemoInv)'
<1>1. Hosted' = Hosted
  BY DEF DashNext, Page, Visit, Poll, Serve, Deliver, LiveStep, dashVars, pageVars, Hosted
<1> SUFFICES ASSUME Hosted, DemoInv PROVE DemoInv'
  BY <1>1
<1>2. CASE UNCHANGED dashVars
  BY <1>2 DEF dashVars, pageVars, viewVars, wireVars, DemoInv
<1>3. CASE \E r \in Routes : Visit(r)
  BY <1>3, DemoVisit
<1>4. CASE Poll
  BY <1>4, DemoPoll
<1>5. CASE \E i \in DOMAIN calls : Serve(i)
  BY <1>5, DemoServesNothing
<1>6. CASE \E i \in DOMAIN calls : Deliver(i)
  BY <1>6, DemoDeliver
<1> QED
  BY <1>2, <1>3, <1>4, <1>5, <1>6 DEF DashNext, Page

\* The hosted demo is closed under everything a visitor can do: no socket, no page that fails or
\* that a static host could not serve, and no event twice, in any order of visits, polls and
\* answers (api.ts:15-24, demo.ts:255-303).
THEOREM DemoStaysClosed == DashSpec => []DemoIsClosed
<1>1. DashInit => (Hosted => DemoInv)
  BY DemoInitially
<1> QED
  BY <1>1, DemoSteps, DemoIsShut, PTL DEF DashSpec
----------------------------------------------------------------------------
(***************************************************************************)
(* The tables.  An item is a service, the call or the warning; its value   *)
(* is the revision of the service, or one, and zero while it is not there. *)
(***************************************************************************)
Item == ({"service"} \X Service) \cup {<<"call", "call">>, <<"warning", "warning">>}

Now(x) ==
  CASE x[1] = "service" -> daemon.rev[x[2]]
    [] x[1] = "call"    -> IF daemon.linked THEN 1 ELSE 0
    [] x[1] = "warning" -> IF daemon.warned THEN 1 ELSE 0

\* The tables of a view or a snapshot have the item with this value.
Lists(v, x, n) ==
  CASE x[1] = "service" -> IF n = 0 THEN x[2] \notin Ids(v.services)
                                    ELSE [id |-> x[2], rev |-> n] \in ToSet(v.services)
    [] x[1] = "call"    -> v.connections = IF n = 0 THEN <<>> ELSE <<"call">>
    [] x[1] = "warning" -> v.warnings = IF n = 0 THEN <<>> ELSE <<"warning">>

\* A frame speaks of an item, and says that it has this value.
Mentions(f, x) ==
  \/ f.type = "snapshot"
  \/ f.type = "services_changed" /\ x[1] = "service" /\ x[2] \in f.removed \cup Ids(f.services)
  \/ f.type = "topology_changed" /\ x[1] = "call"
  \/ f.type = "warnings_changed" /\ x[1] = "warning"

Tells(f, x, n) ==
  CASE f.type = "snapshot"         -> Lists(f, x, n)
    [] f.type = "services_changed" -> IF n = 0 THEN x[2] \in f.removed
                                      ELSE [id |-> x[2], rev |-> n] \in ToSet(f.services)
    [] f.type = "topology_changed" -> f.added = IF n = 0 THEN <<>> ELSE <<"call">>
    [] f.type = "warnings_changed" -> f.added = IF n = 0 THEN <<>> ELSE <<"warning">>
    [] OTHER                       -> FALSE

Revised == [id : Service, rev : Nat \ {0}]

Listing(q) == q \in Seq(Revised) /\ \A i, j \in 1..Len(q) : q[i].id = q[j].id => i = j

TablesOK(v) ==
  /\ {"services", "connections", "warnings"} \subseteq DOMAIN v
  /\ Listing(v.services)
  /\ v.connections \in {<<>>, <<"call">>} /\ v.warnings \in {<<>>, <<"warning">>}

Switches(f, id) == (f.added = <<id>> /\ f.removed = {}) \/ (f.added = <<>> /\ f.removed = {id})

\* What the daemon tells a dashboard: its tables, or one change of one of them.
Telling(f) ==
  /\ f.type \in FrameTypes
  /\ f.type = "snapshot" => TablesOK(f)
  /\ f.type = "services_changed" =>
       \/ \E s \in Service : f.removed = {s} /\ f.services = <<>>
       \/ \E e \in Revised : f.removed = {} /\ f.services = <<e>>
  /\ f.type = "topology_changed" => Switches(f, "call")
  /\ f.type = "warnings_changed" => Switches(f, "warning")

\* What reduce makes of what it has been told.
Learns(v, f, w) ==
  /\ TablesOK(w)
  /\ \A x \in Item, n \in Nat :
       /\ Mentions(f, x) /\ Tells(f, x, n) => Lists(w, x, n)
       /\ ~Mentions(f, x) /\ Lists(v, x, n) => Lists(w, x, n)

LEMMA ItemsAre ==
  ASSUME NEW x \in Item
  PROVE  \/ x[1] = "service" /\ x[2] \in Service
         \/ x[1] = "call"
         \/ x[1] = "warning"
BY DEF Item

LEMMA ListingHas ==
  ASSUME NEW q, Listing(q)
  PROVE  /\ Len(q) \in Nat /\ DOMAIN q = 1..Len(q)
         /\ Ids(q) = {q[i].id : i \in 1..Len(q)} /\ ToSet(q) = {q[i] : i \in 1..Len(q)}
         /\ \A i \in 1..Len(q) : q[i] \in Revised /\ q[i] = [id |-> q[i].id, rev |-> q[i].rev]
                                 /\ q[i].id \in Service /\ q[i].rev \in Nat \ {0}
<1>1. q \in Seq(Revised)
  BY DEF Listing
<1>2. Len(q) \in Nat /\ DOMAIN q = 1..Len(q) /\ \A i \in 1..Len(q) : q[i] \in Revised
  BY <1>1
<1>3. \A e \in Revised : e = [id |-> e.id, rev |-> e.rev] /\ e.id \in Service /\ e.rev \in Nat \ {0}
  BY DEF Revised
<1> QED
  BY <1>2, <1>3 DEF Ids, ToSet

\* Two records of a listing are of different services.
LEMMA ListedOnce ==
  ASSUME NEW q, Listing(q), NEW d \in ToSet(q), NEW e \in ToSet(q), d.id = e.id
  PROVE  d = e
BY ListingHas DEF Listing

LEMMA SwitchLearned ==
  ASSUME NEW id, NEW q \in {<<>>, <<id>>}, NEW f, Switches(f, id)
  PROVE  Without(q, f) = <<>>
<1>1. q \in Seq({id}) /\ (q = <<>> \/ (Len(q) = 1 /\ DOMAIN q = {1} /\ q[1] = id))
  <2>1. <<>> \in Seq({id}) /\ <<id>> \in Seq({id})
    OBVIOUS
  <2>2. Len(<<id>>) = 1 /\ DOMAIN <<id>> = {1} /\ <<id>>[1] = id
    OBVIOUS
  <2> QED
    BY <2>1, <2>2
<1>2. id \in f.removed \cup ToSet(f.added)
  <2>1. 1 \in DOMAIN <<id>> /\ <<id>>[1] = id
    OBVIOUS
  <2>2. id \in ToSet(<<id>>)
    BY <2>1 DEF ToSet
  <2> QED
    BY <2>2 DEF Switches
<1>3. {i \in DOMAIN q : q[i] \notin f.removed \cup ToSet(f.added)} = {}
  BY <1>1, <1>2
<1>4. Picked(q, {}) = <<>>
  BY <1>1, AllPicked
<1> QED
  BY <1>3, <1>4 DEF Without

LEMMA SnapshotLearned ==
  ASSUME NEW v, TablesOK(v), NEW f, Telling(f), f.type = "snapshot"
  PROVE  Learns(v, f, Reduce(v, f))
<1> DEFINE w == ReduceSnapshot(v, f)
<1>1. Reduce(v, f) = w
  BY DEF Reduce
<1>2. /\ {"services", "connections", "warnings"} \subseteq DOMAIN w
      /\ w.services = f.services /\ w.connections = f.connections /\ w.warnings = f.warnings
  BY DEF ReduceSnapshot, TablesOK
<1>3. TablesOK(f)
  BY DEF Telling
<1> HIDE DEF w
<1>4. TablesOK(w)
  BY <1>2, <1>3 DEF TablesOK
<1>5. ASSUME NEW x \in Item, NEW n \in Nat PROVE Tells(f, x, n) => Lists(w, x, n)
  BY <1>2 DEF Tells, Lists
<1> QED
  BY <1>1, <1>4, <1>5 DEF Learns, Mentions

LEMMA EventsLearned ==
  ASSUME NEW v, TablesOK(v), NEW f, Telling(f), f.type = "events"
  PROVE  Learns(v, f, Reduce(v, f))
<1> DEFINE w == ReduceEvents(v, f)
<1>1. Reduce(v, f) = w
  BY DEF Reduce
<1>2. /\ {"services", "connections", "warnings"} \subseteq DOMAIN w
      /\ w.services = v.services /\ w.connections = v.connections /\ w.warnings = v.warnings
  BY DEF ReduceEvents, TablesOK
<1> HIDE DEF w
<1>4. TablesOK(w)
  BY <1>2 DEF TablesOK
<1>5. ASSUME NEW x \in Item, NEW n \in Nat PROVE Lists(v, x, n) => Lists(w, x, n)
  BY <1>2 DEF Lists
<1> QED
  BY <1>1, <1>4, <1>5 DEF Learns, Mentions

LEMMA TopologyLearned ==
  ASSUME NEW v, TablesOK(v), NEW f, Telling(f), f.type = "topology_changed"
  PROVE  Learns(v, f, Reduce(v, f))
<1> DEFINE w == [v EXCEPT !.connections = Without(@, f) \o f.added]
<1>1. Reduce(v, f) = w
  BY DEF Reduce
<1>2. /\ {"services", "connections", "warnings"} \subseteq DOMAIN w
      /\ w.services = v.services /\ w.connections = Without(v.connections, f) \o f.added
      /\ w.warnings = v.warnings
  BY DEF TablesOK
<1>3. Switches(f, "call") /\ f.added \in {<<>>, <<"call">>}
  BY DEF Telling, Switches
<1>4. w.connections = f.added
  <2>1. Without(v.connections, f) = <<>>
    BY <1>3, SwitchLearned DEF TablesOK
  <2>2. <<>> \o <<>> = <<>> /\ <<>> \o <<"call">> = <<"call">>
    OBVIOUS
  <2> QED
    BY <1>2, <1>3, <2>1, <2>2
<1> HIDE DEF w
<1>5. TablesOK(w)
  BY <1>2, <1>3, <1>4 DEF TablesOK
<1>6. ASSUME NEW x \in Item, NEW n \in Nat
      PROVE  /\ Mentions(f, x) /\ Tells(f, x, n) => Lists(w, x, n)
             /\ ~Mentions(f, x) /\ Lists(v, x, n) => Lists(w, x, n)
  <2>1. Mentions(f, x) <=> x[1] = "call"
    BY DEF Mentions
  <2>2. x[1] = "call" /\ Tells(f, x, n) => Lists(w, x, n)
    BY <1>4 DEF Tells, Lists
  <2>3. x[1] # "call" /\ Lists(v, x, n) => Lists(w, x, n)
    BY <1>2, ItemsAre DEF Lists
  <2> QED
    BY <2>1, <2>2, <2>3
<1> QED
  BY <1>1, <1>5, <1>6 DEF Learns

LEMMA WarningsLearned ==
  ASSUME NEW v, TablesOK(v), NEW f, Telling(f), f.type = "warnings_changed"
  PROVE  Learns(v, f, Reduce(v, f))
<1> DEFINE w == [v EXCEPT !.warnings = f.added \o Without(@, f)]
<1>1. Reduce(v, f) = w
  BY DEF Reduce
<1>2. /\ {"services", "connections", "warnings"} \subseteq DOMAIN w
      /\ w.services = v.services /\ w.warnings = f.added \o Without(v.warnings, f)
      /\ w.connections = v.connections
  BY DEF TablesOK
<1>3. Switches(f, "warning") /\ f.added \in {<<>>, <<"warning">>}
  BY DEF Telling, Switches
<1>4. w.warnings = f.added
  <2>1. Without(v.warnings, f) = <<>>
    BY <1>3, SwitchLearned DEF TablesOK
  <2>2. <<>> \o <<>> = <<>> /\ <<"warning">> \o <<>> = <<"warning">>
    OBVIOUS
  <2> QED
    BY <1>2, <1>3, <2>1, <2>2
<1> HIDE DEF w
<1>5. TablesOK(w)
  BY <1>2, <1>3, <1>4 DEF TablesOK
<1>6. ASSUME NEW x \in Item, NEW n \in Nat
      PROVE  /\ Mentions(f, x) /\ Tells(f, x, n) => Lists(w, x, n)
             /\ ~Mentions(f, x) /\ Lists(v, x, n) => Lists(w, x, n)
  <2>1. Mentions(f, x) <=> x[1] = "warning"
    BY DEF Mentions
  <2>2. x[1] = "warning" /\ Tells(f, x, n) => Lists(w, x, n)
    BY <1>4 DEF Tells, Lists
  <2>3. x[1] # "warning" /\ Lists(v, x, n) => Lists(w, x, n)
    BY <1>2, ItemsAre DEF Lists
  <2> QED
    BY <2>1, <2>2, <2>3
<1> QED
  BY <1>1, <1>5, <1>6 DEF Learns

\* A service that is gone leaves the list, and the others stay.
LEMMA GoneUnlisted ==
  ASSUME NEW q, Listing(q), NEW s,
         NEW K \in SUBSET (1..Len(q)), \A k \in 1..Len(q) : k \in K <=> q[k].id # s
  PROVE  LET kept == Picked(q, K)
         IN  Listing(kept) /\ \A d : d \in ToSet(kept) <=> d \in ToSet(q) /\ d.id # s
<1> DEFINE kept == Picked(q, K)
<1>1. q \in Seq(Revised) /\ Len(q) \in Nat /\ DOMAIN q = 1..Len(q) /\ ToSet(q) = {q[i] : i \in 1..Len(q)}
  BY ListingHas DEF Listing
<1>2. K \in SUBSET (1..Len(q))
  OBVIOUS
<1>3. kept \in Seq(Revised) /\ Len(kept) = Cardinality(K) /\ \E place : ArePlaces(place, q, K)
  BY <1>1, <1>2, PickedPlaces
<1>4. PICK place : ArePlaces(place, q, K)
  BY <1>3
<1>5. \A i \in 1..Cardinality(K) : place[i] \in K /\ kept[i] = q[place[i]]
  BY <1>4 DEF ArePlaces
<1>6. /\ \A i, j \in 1..Cardinality(K) : i < j => place[i] < place[j]
      /\ \A k \in K : \E i \in 1..Cardinality(K) : place[i] = k
  BY <1>4 DEF ArePlaces
<1>7. \A k \in 1..Len(q) : k \in K <=> q[k].id # s
  OBVIOUS
<1> SUFFICES Listing(kept) /\ \A d : d \in ToSet(kept) <=> d \in ToSet(q) /\ d.id # s
  OBVIOUS
<1> HIDE DEF kept
<1>8. Len(kept) \in Nat /\ DOMAIN kept = 1..Len(kept)
  BY <1>3
<1>9. \A i \in 1..Len(kept) : place[i] \in 1..Len(q) /\ kept[i] = q[place[i]] /\ kept[i].id # s
  BY <1>2, <1>3, <1>5, <1>7
<1>10. Listing(kept)
  <2> SUFFICES ASSUME NEW i \in 1..Len(kept), NEW j \in 1..Len(kept), kept[i].id = kept[j].id
               PROVE  i = j
    BY <1>3 DEF Listing
  <2>4. place[i] \in 1..Len(q) /\ place[j] \in 1..Len(q) /\ q[place[i]].id = q[place[j]].id
    BY <1>9
  <2>1. place[i] = place[j]
    BY <2>4 DEF Listing
  <2>2. i \in Nat /\ j \in Nat /\ place[i] \in Nat /\ place[j] \in Nat
    BY <1>1, <1>8, <1>9
  <2>3. ~(i < j) /\ ~(j < i)
    BY <1>3, <1>6, <2>1, <2>2
  <2> QED
    BY <2>2, <2>3
<1>11. \A d : d \in ToSet(kept) <=> d \in ToSet(q) /\ d.id # s
  <2>1. ToSet(kept) = {kept[i] : i \in 1..Len(kept)}
    BY <1>8 DEF ToSet
  <2>2. \A i \in 1..Len(kept) : kept[i] \in ToSet(q) /\ kept[i].id # s
    BY <1>1, <1>9
  <2>3. ASSUME NEW d \in ToSet(q), d.id # s PROVE d \in ToSet(kept)
    <3>1. PICK k \in 1..Len(q) : d = q[k]
      BY <1>1
    <3>2. k \in K
      BY <1>7, <2>3, <3>1
    <3>3. PICK i \in 1..Len(kept) : place[i] = k
      BY <1>3, <1>6, <3>2
    <3> QED
      BY <1>9, <2>1, <3>1, <3>3
  <2> QED
    BY <2>1, <2>2, <2>3
<1> QED
  BY <1>10, <1>11

\* A changed service keeps its place, a new one comes last.
LEMMA ChangeListed ==
  ASSUME NEW q, Listing(q), NEW e \in Revised, NEW f, f.removed = {}, f.services = <<e>>
  PROVE  LET kept == Picked(q, {i \in DOMAIN q : q[i].id \notin f.removed})
             new  == Picked(f.services, {i \in DOMAIN f.services : f.services[i].id \notin Ids(q)})
             Newer(d) == IF d.id \in Ids(f.services)
                         THEN f.services[CHOOSE i \in DOMAIN f.services : f.services[i].id = d.id] ELSE d
             r == [i \in DOMAIN kept |-> Newer(kept[i])] \o new
         IN  Listing(r) /\ ToSet(r) = {d \in ToSet(q) : d.id # e.id} \cup {e}
<1> DEFINE changed == [i \in 1..Len(q) |-> IF q[i].id = e.id THEN e ELSE q[i]]
           new == Picked(f.services, {i \in DOMAIN f.services : f.services[i].id \notin Ids(q)})
           r == changed \o new
<1>1. /\ q \in Seq(Revised) /\ Len(q) \in Nat /\ DOMAIN q = 1..Len(q) /\ ToSet(q) = {q[i] : i \in 1..Len(q)}
      /\ Ids(q) = {q[i].id : i \in 1..Len(q)}
  BY ListingHas DEF Listing
<1>2. Picked(q, {i \in DOMAIN q : q[i].id \notin f.removed}) = q
  <2>1. {i \in DOMAIN q : q[i].id \notin f.removed} = 1..Len(q)
    BY <1>1
  <2> QED
    BY <1>1, <2>1, AllPicked
<1>3. DOMAIN f.services = {1} /\ f.services[1] = e /\ f.services \in Seq(Revised) /\ Len(f.services) = 1
  <2>1. DOMAIN <<e>> = {1} /\ <<e>>[1] = e /\ <<e>> \in Seq(Revised) /\ Len(<<e>>) = 1
    OBVIOUS
  <2> QED
    BY <2>1
<1>4. Ids(f.services) = {e.id}
  BY <1>3 DEF Ids
<1>5. (CHOOSE i \in DOMAIN f.services : f.services[i].id = e.id) = 1
  BY <1>3
<1>6. \A i \in 1..Len(q) :
        (IF q[i].id \in Ids(f.services)
         THEN f.services[CHOOSE j \in DOMAIN f.services : f.services[j].id = q[i].id] ELSE q[i])
        = IF q[i].id = e.id THEN e ELSE q[i]
  BY <1>3, <1>4, <1>5
<1>7. new = IF e.id \in Ids(q) THEN <<>> ELSE <<e>>
  <2>1. CASE e.id \in Ids(q)
    <3>1. {i \in DOMAIN f.services : f.services[i].id \notin Ids(q)} = {}
      BY <1>3, <2>1
    <3> QED
      BY <1>3, <2>1, <3>1, AllPicked
  <2>2. CASE e.id \notin Ids(q)
    <3>1. {i \in DOMAIN f.services : f.services[i].id \notin Ids(q)} = 1..Len(f.services)
      BY <1>3, <2>2
    <3> QED
      BY <1>3, <2>2, <3>1, AllPicked
  <2> QED
    BY <2>1, <2>2
<1> HIDE DEF new
<1>8. /\ changed \in Seq(Revised) /\ Len(changed) = Len(q)
      /\ \A i \in 1..Len(q) : changed[i] = IF q[i].id = e.id THEN e ELSE q[i]
  <2>1. changed \in [1..Len(q) -> Revised]
    BY <1>1
  <2> QED
    BY <1>1, <2>1
<1>9. \A i \in 1..Len(q) : changed[i].id = q[i].id
  BY <1>8
<1> HIDE DEF changed
<1>10. ASSUME e.id \in Ids(q)
       PROVE  Listing(r) /\ ToSet(r) = {d \in ToSet(q) : d.id # e.id} \cup {e}
  <2>1. r = changed
    BY <1>7, <1>8, <1>10
  <2>2. Listing(r)
    BY <1>8, <1>9, <2>1 DEF Listing
  <2>3. ToSet(r) = {changed[i] : i \in 1..Len(q)}
    BY <1>1, <1>8, <2>1 DEF ToSet
  <2>4. PICK k \in 1..Len(q) : q[k].id = e.id
    BY <1>1, <1>10
  <2>5. e \in ToSet(r)
    BY <1>8, <2>3, <2>4
  <2>6. \A d \in ToSet(q) : d.id # e.id => d \in ToSet(r)
    BY <1>1, <1>8, <2>3
  <2>7. \A d \in ToSet(r) : d = e \/ (d \in ToSet(q) /\ d.id # e.id)
    BY <1>1, <1>8, <2>3
  <2> HIDE DEF r
  <2> QED
    BY <2>2, <2>5, <2>6, <2>7
<1>11. ASSUME e.id \notin Ids(q)
       PROVE  Listing(r) /\ ToSet(r) = {d \in ToSet(q) : d.id # e.id} \cup {e}
  <2>1. r = changed \o <<e>>
    BY <1>7, <1>11
  <2>2. /\ r \in Seq(Revised) /\ Len(r) = Len(q) + 1 /\ r[Len(q) + 1] = e
        /\ \A i \in 1..Len(q) : r[i] = changed[i]
    BY <1>1, <1>8, <2>1
  <2>3. \A i \in 1..Len(q) : q[i].id # e.id
    BY <1>1, <1>11
  <2>4. \A i \in 1..Len(q) : r[i] = q[i]
    BY <1>8, <2>2, <2>3
  <2> HIDE DEF r
  <2>5. \A i \in 1..Len(r) : i \in 1..Len(q) \/ i = Len(q) + 1
    BY <1>1, <2>2
  <2>6. Listing(r)
    <3> SUFFICES ASSUME NEW i \in 1..Len(r), NEW j \in 1..Len(r), r[i].id = r[j].id PROVE i = j
      BY <2>2 DEF Listing
    <3> QED
      BY <2>2, <2>3, <2>4, <2>5 DEF Listing
  <2>7. ToSet(r) = {r[i] : i \in 1..Len(r)}
    BY <2>2 DEF ToSet
  <2>8. \A i \in 1..Len(q) : i \in 1..Len(r)
    BY <1>1, <2>2
  <2>9. Len(q) + 1 \in 1..Len(r)
    BY <1>1, <2>2
  <2>10. e \in ToSet(r) /\ \A d \in ToSet(q) : d \in ToSet(r) /\ d.id # e.id
    BY <1>1, <2>2, <2>3, <2>4, <2>7, <2>8, <2>9
  <2>11. \A d \in ToSet(r) : d = e \/ d \in ToSet(q)
    BY <1>1, <2>2, <2>4, <2>5, <2>7
  <2> QED
    BY <2>6, <2>10, <2>11
<1> DEFINE kept == Picked(q, {i \in DOMAIN q : q[i].id \notin f.removed})
           Newer(d) == IF d.id \in Ids(f.services)
                       THEN f.services[CHOOSE i \in DOMAIN f.services : f.services[i].id = d.id] ELSE d
<1>12. [i \in DOMAIN kept |-> Newer(kept[i])] \o new = r
  <2>1. \A i \in 1..Len(q) : Newer(q[i]) = changed[i]
    BY <1>6, <1>8
  <2>2. changed = [i \in 1..Len(q) |-> changed[i]]
    BY <1>1, <1>8
  <2> HIDE DEF Newer
  <2>3. [i \in 1..Len(q) |-> Newer(q[i])] = changed
    BY <2>1, <2>2
  <2> QED
    BY <1>1, <1>2, <2>3
<1> HIDE DEF r
<1>13. Listing(r) /\ ToSet(r) = {d \in ToSet(q) : d.id # e.id} \cup {e}
  BY <1>10, <1>11
<1> QED
  BY <1>12, <1>13 DEF new

LEMMA ServicesLearned ==
  ASSUME NEW v, TablesOK(v), NEW f, Telling(f), f.type = "services_changed"
  PROVE  Learns(v, f, Reduce(v, f))
<1> DEFINE w == ReduceServices(v, f)
           q == v.services
<1>1. Reduce(v, f) = w
  BY DEF Reduce
<1>2. /\ {"services", "connections", "warnings"} \subseteq DOMAIN w
      /\ w.connections = v.connections /\ w.warnings = v.warnings
  BY DEF ReduceServices, TablesOK
<1>3. Listing(q)
  BY DEF TablesOK
<1>4. \/ \E s \in Service : f.removed = {s} /\ f.services = <<>>
      \/ \E e \in Revised : f.removed = {} /\ f.services = <<e>>
  BY DEF Telling
<1> DEFINE Touched == f.removed \cup Ids(f.services)
<1>5. /\ Listing(w.services)
      /\ ToSet(w.services) = {d \in ToSet(q) : d.id \notin Touched} \cup ToSet(f.services)
      /\ f.removed = {} \/ f.services = <<>>
      /\ \A e \in ToSet(f.services) : e.id \in Touched
      /\ \A s \in Ids(f.services) : \E e \in ToSet(f.services) : e.id = s
  <2>1. CASE \E s \in Service : f.removed = {s} /\ f.services = <<>>
    <3>1. PICK s \in Service : f.removed = {s} /\ f.services = <<>>
      BY <2>1
    <3>2. Ids(f.services) = {} /\ ToSet(f.services) = {}
      BY <3>1 DEF Ids, ToSet
    <3> DEFINE K == {i \in DOMAIN q : q[i].id \notin f.removed}
               N == {i \in DOMAIN f.services : f.services[i].id \notin Ids(q)}
               kept == Picked(q, K)
               new  == Picked(f.services, N)
    <3>8. K \in SUBSET (1..Len(q)) /\ (\A k \in 1..Len(q) : k \in K <=> q[k].id # s) /\ N = {}
      BY <1>3, <3>1, ListingHas
    <3>9. new = <<>>
      <4>1. <<>> \in Seq({})
        OBVIOUS
      <4>2. Picked(<<>>, {}) = <<>>
        BY <4>1, AllPicked
      <4> HIDE DEF N
      <4> QED
        BY <3>1, <3>8, <4>2
    <3>3. Listing(kept) /\ \A d : d \in ToSet(kept) <=> d \in ToSet(q) /\ d.id # s
      <4> HIDE DEF K, q
      <4> QED
        BY <1>3, <3>8, GoneUnlisted
    <3> DEFINE Newer(d) == IF d.id \in Ids(f.services)
                           THEN f.services[CHOOSE i \in DOMAIN f.services : f.services[i].id = d.id] ELSE d
    <3>4. w.services = [i \in DOMAIN kept |-> Newer(kept[i])] \o new
      BY DEF ReduceServices, TablesOK
    <3>5. [i \in DOMAIN kept |-> Newer(kept[i])] = kept
      <4> HIDE DEF kept
      <4>1. kept = [i \in DOMAIN kept |-> kept[i]]
        BY <3>3 DEF Listing
      <4> QED
        BY <3>2, <4>1
    <3> HIDE DEF kept, new, w
    <3>6. w.services = kept
      <4>1. \A p : p \in Seq(Revised) => p \o <<>> = p
        OBVIOUS
      <4> QED
        BY <3>3, <3>4, <3>5, <3>9, <4>1 DEF Listing
    <3>7. Touched = {s}
      BY <3>1, <3>2
    <3> HIDE DEF Touched
    <3> QED
      BY <3>1, <3>2, <3>3, <3>6, <3>7
  <2>2. CASE \E e \in Revised : f.removed = {} /\ f.services = <<e>>
    <3>1. PICK e \in Revised : f.removed = {} /\ f.services = <<e>>
      BY <2>2
    <3>2. Ids(f.services) = {e.id} /\ ToSet(f.services) = {e}
      <4>1. DOMAIN <<e>> = {1} /\ <<e>>[1] = e
        OBVIOUS
      <4> QED
        BY <3>1, <4>1 DEF Ids, ToSet
    <3> DEFINE kept == Picked(q, {i \in DOMAIN q : q[i].id \notin f.removed})
               new  == Picked(f.services, {i \in DOMAIN f.services : f.services[i].id \notin Ids(q)})
               Newer(d) == IF d.id \in Ids(f.services)
                           THEN f.services[CHOOSE i \in DOMAIN f.services : f.services[i].id = d.id] ELSE d
               r == [i \in DOMAIN kept |-> Newer(kept[i])] \o new
    <3>3. Listing(r) /\ ToSet(r) = {d \in ToSet(q) : d.id # e.id} \cup {e}
      BY <1>3, <3>1, ChangeListed
    <3>4. w.services = r
      BY DEF ReduceServices, TablesOK
    <3> HIDE DEF r, w
    <3>7. Touched = {e.id}
      BY <3>1, <3>2
    <3> HIDE DEF Touched
    <3> QED
      BY <3>1, <3>2, <3>3, <3>4, <3>7
  <2> QED
    BY <1>4, <2>1, <2>2
<1> HIDE DEF w
<1>6. TablesOK(w)
  BY <1>2, <1>5 DEF TablesOK
<1>7. ASSUME NEW x \in Item, NEW n \in Nat
      PROVE  /\ Mentions(f, x) /\ Tells(f, x, n) => Lists(w, x, n)
             /\ ~Mentions(f, x) /\ Lists(v, x, n) => Lists(w, x, n)
  <2>1. CASE x[1] = "service"
    <3> DEFINE e == [id |-> x[2], rev |-> n]
    <3>1. Mentions(f, x) <=> x[2] \in Touched
      BY <2>1 DEF Mentions
    <3>2. Tells(f, x, n) <=> IF n = 0 THEN x[2] \in f.removed ELSE e \in ToSet(f.services)
      BY DEF Tells
    <3>3. /\ Lists(w, x, n) <=> IF n = 0 THEN \A d \in ToSet(w.services) : d.id # x[2] ELSE e \in ToSet(w.services)
          /\ Lists(v, x, n) <=> IF n = 0 THEN \A d \in ToSet(q) : d.id # x[2] ELSE e \in ToSet(q)
      BY <2>1 DEF Lists, Ids, ToSet
    <3>4. e.id = x[2]
      OBVIOUS
    <3>5. x[2] \in f.removed => x[2] \in Touched /\ ToSet(f.services) = {}
      <4>1. ToSet(<<>>) = {}
        BY DEF ToSet
      <4> QED
        BY <1>5, <4>1
    <3> HIDE DEF e, Touched, q
    <3> QED
      BY <1>5, <3>1, <3>2, <3>3, <3>4, <3>5
  <2>2. CASE x[1] # "service"
    <3>1. ~Mentions(f, x)
      BY <2>2 DEF Mentions
    <3>2. Lists(v, x, n) => Lists(w, x, n)
      BY <1>2, <2>2, ItemsAre DEF Lists
    <3> QED
      BY <3>1, <3>2
  <2> QED
    BY <2>1, <2>2
<1> QED
  BY <1>1, <1>6, <1>7 DEF Learns

\* Whatever a dashboard is told, it takes into its tables, and nothing else of them changes.
LEMMA ReduceLearns ==
  ASSUME NEW v, TablesOK(v), NEW f, Telling(f)
  PROVE  Learns(v, f, Reduce(v, f))
BY SnapshotLearned, EventsLearned, TopologyLearned, WarningsLearned, ServicesLearned DEF Telling, FrameTypes

\* A set as a sequence: each element once.
LEMMA SetInSequence ==
  ASSUME NEW S, IsFiniteSet(S)
  PROVE  LET q == SetToSeq(S)
         IN  /\ Cardinality(S) \in Nat /\ q \in [1..Cardinality(S) -> S]
             /\ \A i, j \in 1..Cardinality(S) : q[i] = q[j] => i = j
             /\ \A s \in S : \E i \in 1..Cardinality(S) : q[i] = s
<1> DEFINE n == Cardinality(S)
           q == SetToSeq(S)
<1>1. n \in Nat /\ ExistsBijection(1..n, S)
  BY FS_CardinalityType
<1>2. PICK f : f \in Bijection(1..n, S)
  BY <1>1 DEF ExistsBijection
<1>3. f \in [1..n -> S] /\ IsInjective(f)
  BY <1>2 DEF Bijection, Injection
<1>4. q \in [1..n -> S] /\ IsInjective(q)
  BY <1>3 DEF SetToSeq
<1> HIDE DEF q
<1>5. q \in Injection(1..n, S)
  BY <1>4 DEF Injection
<1>6. Cardinality(1..n) = n
  <2> HIDE DEF n
  <2>1. 1 \in Int /\ n \in Int /\ n >= 0
    BY <1>1
  <2> QED
    BY <1>1, <2>1, FS_Interval
<1>7. q \in Surjection(1..n, S)
  BY <1>5, <1>6, FS_Injection
<1>8. \A i, j \in 1..n : q[i] = q[j] => i = j
  BY <1>4 DEF IsInjective
<1>9. \A s \in S : \E i \in 1..n : q[i] = s
  BY <1>7 DEF Surjection
<1> QED
  BY <1>1, <1>4, <1>8, <1>9 DEF q

WorldOK ==
  /\ tick \in Nat /\ {"rev", "linked", "warned"} \subseteq DOMAIN daemon
  /\ daemon.rev \in [Service -> Nat] /\ daemon.linked \in BOOLEAN /\ daemon.warned \in BOOLEAN

\* A snapshot has what the daemon knows.
LEMMA SnapshotTold ==
  ASSUME WorldOK
  PROVE  Telling(Snapshot) /\ \A x \in Item : Tells(Snapshot, x, Now(x))
<1> DEFINE n == Cardinality(Present)
           L == SetToSeq(Present)
           q == [i \in 1..n |-> [id |-> L[i], rev |-> daemon.rev[L[i]]]]
           v == Snapshot
<1>1. IsFiniteSet(Present) /\ Present \in SUBSET Service
  <2>1. Present \in SUBSET Service
    BY DEF Present
  <2> QED
    BY <2>1, FS_Subset, ServiceAssumption
<1>2. /\ n \in Nat /\ L \in [1..n -> Present]
      /\ \A i, j \in 1..n : L[i] = L[j] => i = j
      /\ \A s \in Present : \E i \in 1..n : L[i] = s
  BY <1>1, SetInSequence
<1> HIDE DEF n, L
<1>3. /\ v.type = "snapshot" /\ {"services", "connections", "warnings"} \subseteq DOMAIN v
      /\ v.connections = (IF daemon.linked THEN <<"call">> ELSE <<>>)
      /\ v.warnings = (IF daemon.warned THEN <<"warning">> ELSE <<>>)
      /\ v.services = [i \in DOMAIN Listed(Present) |->
                         [id |-> Listed(Present)[i], rev |-> daemon.rev[Listed(Present)[i]]]]
  BY DEF Snapshot
<1>4. v.services = q
  <2>1. Listed(Present) = L /\ DOMAIN L = 1..n
    BY <1>2 DEF Listed, L
  <2> QED
    BY <1>3, <2>1
<1> HIDE DEF v
<1>5. \A i \in 1..n : /\ L[i] \in Service /\ daemon.rev[L[i]] \in Nat \ {0}
                      /\ q[i] = [id |-> L[i], rev |-> daemon.rev[L[i]]]
  <2>1. \A s \in Present : s \in Service /\ daemon.rev[s] \in Nat \ {0}
    BY DEF Present, WorldOK
  <2> QED
    BY <1>2, <2>1
<1>6. q \in Seq(Revised) /\ Len(q) = n /\ DOMAIN q = 1..n
  <2>1. \A i \in 1..n : q[i] \in Revised
    BY <1>5 DEF Revised
  <2>2. q \in [1..n -> Revised]
    BY <2>1
  <2> HIDE DEF q
  <2> QED
    BY <1>2, <2>2
<1>7. \A i \in 1..n : q[i].id = L[i] /\ q[i].rev = daemon.rev[L[i]]
  BY <1>5
<1> HIDE DEF q
<1>8. Listing(q)
  BY <1>2, <1>6, <1>7 DEF Listing
<1>9. TablesOK(v)
  BY <1>3, <1>4, <1>8 DEF TablesOK
<1>10. Telling(v)
  BY <1>3, <1>9 DEF Telling, FrameTypes
<1>11. ASSUME NEW x \in Item PROVE Lists(v, x, Now(x))
  <2>1. CASE x[1] = "service"
    <3>1. x[2] \in Service /\ Now(x) = daemon.rev[x[2]]
      BY <2>1, ItemsAre DEF Now
    <3>2. CASE Now(x) = 0
      <4>1. x[2] \notin Present
        BY <3>1, <3>2 DEF Present
      <4>2. x[2] \notin Ids(q)
        BY <1>2, <1>6, <1>7, <4>1 DEF Ids
      <4> QED
        BY <1>4, <2>1, <3>2, <4>2 DEF Lists
    <3>3. CASE Now(x) # 0
      <4>1. x[2] \in Present
        BY <3>1, <3>3 DEF Present
      <4>2. PICK i \in 1..n : L[i] = x[2]
        BY <1>2, <4>1
      <4>3. q[i] = [id |-> x[2], rev |-> Now(x)]
        BY <1>5, <3>1, <4>2
      <4>4. [id |-> x[2], rev |-> Now(x)] \in ToSet(q)
        BY <1>6, <4>3 DEF ToSet
      <4> QED
        BY <1>4, <2>1, <3>3, <4>4 DEF Lists
    <3> QED
      BY <3>2, <3>3
  <2>2. CASE x[1] = "call"
    BY <1>3, <2>2 DEF Lists, Now
  <2>3. CASE x[1] = "warning"
    BY <1>3, <2>3 DEF Lists, Now
  <2> QED
    BY <2>1, <2>2, <2>3, ItemsAre
<1> QED
  BY <1>3, <1>10, <1>11 DEF Tells, v

\* What is on its way: frames that tell something, none of which mentions an item, or the last
\* of which that does says that it has this value.
Tellings(q) == IsSequence(q) /\ \A i \in 1..Len(q) : Telling(q[i])

Silent(q, x) == \A i \in 1..Len(q) : ~Mentions(q[i], x)

LastWord(q, x, n) ==
  \A i \in 1..Len(q) :
    Mentions(q[i], x) /\ (\A j \in 1..Len(q) : i < j => ~Mentions(q[j], x)) => Tells(q[i], x, n)

LEMMA JoinedAre ==
  ASSUME NEW p, NEW q, IsSequence(p), IsSequence(q)
  PROVE  /\ IsSequence(p \o q) /\ Len(p) \in Nat /\ Len(q) \in Nat /\ Len(p \o q) = Len(p) + Len(q)
         /\ \A i \in 1..Len(p) : (p \o q)[i] = p[i]
         /\ \A i \in 1..Len(q) : (p \o q)[Len(p) + i] = q[i]
<1>1. PICK C : p \in Seq(C)
  BY DEF IsSequence
<1>2. PICK D : q \in Seq(D)
  BY DEF IsSequence
<1>3. p \in Seq(C \cup D) /\ q \in Seq(C \cup D)
  BY <1>1, <1>2
<1>4. p \o q \in Seq(C \cup D)
  BY <1>3
<1> QED
  BY <1>3, <1>4 DEF IsSequence

LEMMA WordsJoined ==
  ASSUME NEW p, NEW q, IsSequence(p), IsSequence(q), NEW x, NEW n
  PROVE  /\ Silent(p \o q, x) <=> Silent(p, x) /\ Silent(q, x)
         /\ LastWord(q, x, n) /\ (Silent(q, x) => LastWord(p, x, n)) => LastWord(p \o q, x, n)
         /\ LastWord(p \o q, x, n) => LastWord(q, x, n)
         /\ Tellings(p \o q) <=> Tellings(p) /\ Tellings(q)
<1> DEFINE r == p \o q
<1>1. /\ IsSequence(r) /\ Len(p) \in Nat /\ Len(q) \in Nat /\ Len(r) = Len(p) + Len(q)
      /\ \A i \in 1..Len(p) : r[i] = p[i]
      /\ \A i \in 1..Len(q) : r[Len(p) + i] = q[i]
  BY JoinedAre
<1> HIDE DEF r
<1>2. \A i \in 1..Len(p) : i \in 1..Len(r)
  BY <1>1
<1>3. \A i \in 1..Len(q) : Len(p) + i \in 1..Len(r)
  BY <1>1
<1>4. ASSUME NEW i \in 1..Len(r)
      PROVE  i \in 1..Len(p) \/ \E j \in 1..Len(q) : i = Len(p) + j
  <2>1. CASE i <= Len(p)
    BY <1>1, <2>1
  <2>2. CASE Len(p) < i
    <3>1. i - Len(p) \in 1..Len(q) /\ i = Len(p) + (i - Len(p))
      BY <1>1, <2>2
    <3> QED
      BY <3>1
  <2> QED
    BY <1>1, <2>1, <2>2
<1>5. Silent(r, x) => Silent(p, x)
  BY <1>1, <1>2 DEF Silent
<1>6. Silent(r, x) => Silent(q, x)
  BY <1>1, <1>3 DEF Silent
<1>7. Silent(p, x) /\ Silent(q, x) => Silent(r, x)
  BY <1>1, <1>4 DEF Silent
<1>8. ASSUME LastWord(q, x, n), Silent(q, x) => LastWord(p, x, n)
      PROVE  LastWord(r, x, n)
  <2> SUFFICES ASSUME NEW i \in 1..Len(r), Mentions(r[i], x),
                      \A j \in 1..Len(r) : i < j => ~Mentions(r[j], x)
               PROVE  Tells(r[i], x, n)
    BY DEF LastWord
  <2>1. CASE i \in 1..Len(p)
    <3>1. \A j \in 1..Len(q) : i < Len(p) + j
      BY <1>1, <2>1
    <3>2. \A j \in 1..Len(q) : ~Mentions(r[Len(p) + j], x)
      BY <1>3, <3>1
    <3>3. Silent(q, x)
      BY <1>1, <3>2 DEF Silent
    <3>4. \A j \in 1..Len(p) : i < j => ~Mentions(p[j], x)
      BY <1>1, <1>2
    <3>5. r[i] = p[i] /\ Mentions(p[i], x)
      BY <1>1, <2>1
    <3> QED
      BY <1>8, <2>1, <3>3, <3>4, <3>5 DEF LastWord
  <2>2. CASE \E j \in 1..Len(q) : i = Len(p) + j
    <3>1. PICK k \in 1..Len(q) : i = Len(p) + k
      BY <2>2
    <3>2. r[i] = q[k] /\ Mentions(q[k], x)
      BY <1>1, <3>1
    <3>3. \A j \in 1..Len(q) : k < j => i < Len(p) + j
      BY <1>1, <3>1
    <3>4. \A j \in 1..Len(q) : k < j => ~Mentions(r[Len(p) + j], x)
      BY <1>3, <3>3
    <3>5. \A j \in 1..Len(q) : k < j => ~Mentions(q[j], x)
      BY <1>1, <3>4
    <3> QED
      BY <1>8, <3>2, <3>5 DEF LastWord
  <2> QED
    BY <1>4, <2>1, <2>2
<1>9. ASSUME LastWord(r, x, n) PROVE LastWord(q, x, n)
  <2> SUFFICES ASSUME NEW k \in 1..Len(q), Mentions(q[k], x),
                      \A j \in 1..Len(q) : k < j => ~Mentions(q[j], x)
               PROVE  Tells(q[k], x, n)
    BY DEF LastWord
  <2> DEFINE i == Len(p) + k
  <2>1. i \in 1..Len(r) /\ r[i] = q[k]
    BY <1>1, <1>3
  <2>2. ASSUME NEW j \in 1..Len(r), i < j PROVE ~Mentions(r[j], x)
    <3>1. j \notin 1..Len(p)
      BY <1>1, <2>2
    <3>2. PICK l \in 1..Len(q) : j = Len(p) + l
      BY <1>4, <3>1
    <3>3. k < l
      BY <1>1, <2>2, <3>2
    <3> QED
      BY <1>1, <3>2, <3>3
  <2> HIDE DEF i
  <2> QED
    BY <1>9, <2>1, <2>2 DEF LastWord
<1>10. Tellings(r) => Tellings(p)
  BY <1>1, <1>2 DEF Tellings
<1>11. Tellings(r) => Tellings(q)
  BY <1>1, <1>3 DEF Tellings
<1>12. Tellings(p) /\ Tellings(q) => Tellings(r)
  BY <1>1, <1>4 DEF Tellings
<1> QED
  BY <1>5, <1>6, <1>7, <1>8, <1>9, <1>10, <1>11, <1>12 DEF r

\* No frame and one frame.
LEMMA NoWord ==
  ASSUME NEW x, NEW n
  PROVE  Tellings(<<>>) /\ Silent(<<>>, x) /\ LastWord(<<>>, x, n)
<1>1. Len(<<>>) = 0 /\ <<>> \in Seq({})
  OBVIOUS
<1> QED
  BY <1>1 DEF Tellings, Silent, LastWord, IsSequence

LEMMA OneWord ==
  ASSUME NEW f, NEW x, NEW n
  PROVE  /\ Telling(f) => Tellings(<<f>>)
         /\ Silent(<<f>>, x) <=> ~Mentions(f, x)
         /\ (Mentions(f, x) => Tells(f, x, n)) => LastWord(<<f>>, x, n)
<1>1. Len(<<f>>) = 1 /\ <<f>>[1] = f /\ IsSequence(<<f>>)
  BY OneOf
<1>2. \A i \in 1..Len(<<f>>) : <<f>>[i] = f
  BY <1>1
<1>3. 1 \in 1..Len(<<f>>)
  BY <1>1
<1> DEFINE q == <<f>>
<1> HIDE DEF q
<1>4. (\A i \in 1..Len(q) : q[i] = f) /\ 1 \in 1..Len(q) /\ IsSequence(q)
  BY <1>1, <1>2, <1>3 DEF q
<1>5. Telling(f) => Tellings(q)
  BY <1>4 DEF Tellings
<1>6. Silent(q, x) <=> ~Mentions(f, x)
  BY <1>4 DEF Silent
<1>7. (Mentions(f, x) => Tells(f, x, n)) => LastWord(q, x, n)
  BY <1>4 DEF LastWord
<1> QED
  BY <1>5, <1>6, <1>7 DEF q

\* The first frame is read.
LEMMA FirstWord ==
  ASSUME NEW q, IsSequence(q), q # <<>>, NEW x, NEW n, LastWord(q, x, n)
  PROVE  /\ IsSequence(Tail(q)) /\ LastWord(Tail(q), x, n)
         /\ Tellings(q) => Telling(Head(q)) /\ Tellings(Tail(q))
         /\ Silent(Tail(q), x) => IF Mentions(Head(q), x) THEN Tells(Head(q), x, n) ELSE Silent(q, x)
<1>1. PICK C : q \in Seq(C)
  BY DEF IsSequence
<1>2. /\ Len(q) \in Nat \ {0} /\ IsSequence(Tail(q)) /\ Len(Tail(q)) = Len(q) - 1 /\ Head(q) = q[1]
      /\ \A i \in 1..Len(Tail(q)) : Tail(q)[i] = q[i + 1]
  <2>1. Len(q) \in Nat \ {0} /\ Tail(q) \in Seq(C) /\ Len(Tail(q)) = Len(q) - 1 /\ Head(q) = q[1]
        /\ \A i \in 1..Len(Tail(q)) : Tail(q)[i] = q[i + 1]
    BY <1>1
  <2> QED
    BY <2>1 DEF IsSequence
<1> DEFINE p == <<Head(q)>>
           t == Tail(q)
<1>3. q = p \o t
  BY <1>1, <1>2
<1>4. IsSequence(p)
  BY OneOf
<1> HIDE DEF p, t
<1>5. IsSequence(t) /\ LastWord(t, x, n)
  BY <1>2, <1>3, <1>4, WordsJoined DEF t
<1>6. Tellings(q) => Telling(Head(q)) /\ Tellings(t)
  <2>1. Tellings(q) => Tellings(t)
    BY <1>3, <1>4, <1>5, WordsJoined
  <2>2. Tellings(q) => Telling(q[1])
    BY <1>2 DEF Tellings
  <2> QED
    BY <1>2, <2>1, <2>2
<1>7. ASSUME Silent(t, x), Mentions(Head(q), x) PROVE Tells(Head(q), x, n)
  <2>1. 1 \in 1..Len(q) /\ Mentions(q[1], x)
    BY <1>2, <1>7
  <2>2. ASSUME NEW j \in 1..Len(q), 1 < j PROVE ~Mentions(q[j], x)
    <3>1. j - 1 \in 1..Len(t) /\ q[(j - 1) + 1] = q[j]
      BY <1>2, <2>2 DEF t
    <3>2. t[j - 1] = q[j]
      BY <1>2, <3>1 DEF t
    <3> QED
      BY <1>7, <3>1, <3>2 DEF Silent
  <2>3. Tells(q[1], x, n)
    BY <2>1, <2>2 DEF LastWord
  <2> QED
    BY <1>2, <2>3
<1>8. ASSUME Silent(t, x), ~Mentions(Head(q), x) PROVE Silent(q, x)
  <2>1. Silent(p, x)
    BY <1>8, OneWord DEF p
  <2> QED
    BY <1>3, <1>4, <1>5, <1>8, <2>1, WordsJoined
<1> QED
  BY <1>5, <1>6, <1>7, <1>8 DEF t

LEMMA TickIsKnown ==
  ASSUME WorldOK, NEW s \in Service, NEW gone \in BOOLEAN, NEW linked \in BOOLEAN, NEW warned \in BOOLEAN,
         Tick(s, gone, linked, warned)
  PROVE  /\ WorldOK' /\ daemon'.linked = linked /\ daemon'.warned = warned
         /\ daemon'.rev[s] = IF gone THEN 0 ELSE tick + 1
         /\ \A t \in Service : t # s => daemon'.rev[t] = daemon.rev[t]
<1>1. tick \in Nat /\ tick' = tick + 1 /\ tick' \in Nat
  BY DEF Tick, WorldOK
<1>2. daemon' = [daemon EXCEPT !.rev[s] = IF gone THEN 0 ELSE tick', !.linked = linked, !.warned = warned,
                               !.log = @ \o TickEvents(s, gone, linked)]
  BY DEF Tick
<1>3. /\ {"rev", "linked", "warned"} \subseteq DOMAIN daemon' /\ daemon'.linked = linked
      /\ daemon'.warned = warned /\ daemon'.rev = [daemon.rev EXCEPT ![s] = IF gone THEN 0 ELSE tick']
  BY <1>2 DEF WorldOK
<1>4. daemon'.rev \in [Service -> Nat]
  BY <1>1, <1>3 DEF WorldOK
<1> QED
  BY <1>1, <1>3, <1>4 DEF WorldOK

\* The one frame, or none, of a connection or warning that comes or goes.
LEMMA ChangeTold ==
  ASSUME NEW was \in BOOLEAN, NEW is \in BOOLEAN, NEW x \in Item,
         NEW type \in {"topology_changed", "warnings_changed"},
         NEW id, id = IF type = "topology_changed" THEN "call" ELSE "warning"
  PROVE  LET F == Changed(type, was, is, id)
         IN  /\ Tellings(F)
             /\ x[1] = id => LastWord(F, x, IF is THEN 1 ELSE 0) /\ (Silent(F, x) => was = is)
             /\ x[1] # id => Silent(F, x)
<1> DEFINE f == [type |-> type, added |-> IF is THEN <<id>> ELSE <<>>, removed |-> IF is THEN {} ELSE {id}]
           n == IF is THEN 1 ELSE 0
<1>1. Changed(type, was, is, id) = IF was = is THEN <<>> ELSE <<f>>
  BY DEF Changed
<1>2. f.type = type /\ f.added = (IF is THEN <<id>> ELSE <<>>) /\ f.removed = (IF is THEN {} ELSE {id})
  OBVIOUS
<1> HIDE DEF f
<1>3. Switches(f, id)
  BY <1>2 DEF Switches
<1>4. Telling(f)
  <2>1. CASE type = "topology_changed"
    BY <1>2, <1>3, <2>1 DEF Telling, FrameTypes
  <2>2. CASE type = "warnings_changed"
    BY <1>2, <1>3, <2>2 DEF Telling, FrameTypes
  <2> QED
    BY <2>1, <2>2
<1>5. Mentions(f, x) <=> x[1] = id
  <2>1. CASE type = "topology_changed"
    BY <1>2, <2>1 DEF Mentions
  <2>2. CASE type = "warnings_changed"
    BY <1>2, <2>2 DEF Mentions
  <2> QED
    BY <2>1, <2>2
<1>6. Tells(f, x, n)
  <2>1. CASE type = "topology_changed"
    BY <1>2, <2>1 DEF Tells
  <2>2. CASE type = "warnings_changed"
    BY <1>2, <2>2 DEF Tells
  <2> QED
    BY <2>1, <2>2
<1> HIDE DEF n
<1>7. CASE was = is
  BY <1>1, <1>7, NoWord
<1>8. CASE was # is
  <2>1. Tellings(<<f>>) /\ (Silent(<<f>>, x) <=> x[1] # id) /\ LastWord(<<f>>, x, n)
    BY <1>4, <1>5, <1>6, OneWord
  <2> QED
    BY <1>1, <1>8, <2>1 DEF n
<1> QED
  BY <1>7, <1>8

LEMMA TicksTell ==
  ASSUME WorldOK, NEW s \in Service, NEW gone \in BOOLEAN, NEW linked \in BOOLEAN, NEW warned \in BOOLEAN,
         Tick(s, gone, linked, warned), NEW x \in Item
  PROVE  LET F == TickFrames(s, gone, linked, warned)
         IN  /\ Tellings(F) /\ LastWord(F, x, Now(x)')
             /\ Silent(F, x) => Now(x)' = Now(x)
<1> DEFINE f == [type |-> "services_changed", removed |-> IF gone THEN {s} ELSE {},
                 services |-> IF gone THEN <<>> ELSE <<[id |-> s, rev |-> tick + 1]>>]
           g == [type |-> "events", events |-> TickEvents(s, gone, linked)]
           topology == Changed("topology_changed", daemon.linked, linked, "call")
           warnings == Changed("warnings_changed", daemon.warned, warned, "warning")
           n == Now(x)'
<1>1. /\ tick \in Nat /\ daemon.linked \in BOOLEAN /\ daemon.warned \in BOOLEAN
      /\ daemon'.linked = linked /\ daemon'.warned = warned
      /\ daemon'.rev[s] = IF gone THEN 0 ELSE tick + 1
      /\ \A t \in Service : t # s => daemon'.rev[t] = daemon.rev[t]
  BY TickIsKnown DEF WorldOK
<1>2. /\ x[1] = "service" => n = daemon'.rev[x[2]] /\ Now(x) = daemon.rev[x[2]] /\ x[2] \in Service
      /\ x[1] = "call" => n = (IF linked THEN 1 ELSE 0) /\ Now(x) = IF daemon.linked THEN 1 ELSE 0
      /\ x[1] = "warning" => n = (IF warned THEN 1 ELSE 0) /\ Now(x) = IF daemon.warned THEN 1 ELSE 0
  BY <1>1, ItemsAre DEF Now
<1> HIDE DEF n
<1>3. TickFrames(s, gone, linked, warned) = ((<<f>> \o topology) \o <<g>>) \o warnings
  BY DEF TickFrames
<1>4. /\ Telling(f) /\ (Mentions(f, x) <=> x[1] = "service" /\ x[2] = s)
      /\ Mentions(f, x) => Tells(f, x, n)
  <2>1. f.type = "services_changed"
    OBVIOUS
  <2>2. CASE gone
    <3>1. f.removed = {s} /\ f.services = <<>>
      BY <2>2
    <3>2. Ids(f.services) = {}
      BY <3>1 DEF Ids
    <3> HIDE DEF f
    <3>3. Telling(f)
      BY <2>1, <3>1 DEF Telling, FrameTypes
    <3>4. Mentions(f, x) <=> x[1] = "service" /\ x[2] = s
      BY <2>1, <3>1, <3>2 DEF Mentions
    <3>5. Mentions(f, x) => Tells(f, x, n)
      BY <1>1, <1>2, <2>1, <2>2, <3>1, <3>4 DEF Tells
    <3> QED
      BY <3>3, <3>4, <3>5
  <2>3. CASE ~gone
    <3> DEFINE e == [id |-> s, rev |-> tick + 1]
    <3>1. f.removed = {} /\ f.services = <<e>>
      BY <2>3
    <3>2. e \in Revised /\ e.id = s
      BY <1>1 DEF Revised
    <3> HIDE DEF f, e
    <3>3. Ids(f.services) = {s} /\ ToSet(f.services) = {e}
      <4>1. DOMAIN <<e>> = {1} /\ <<e>>[1] = e
        OBVIOUS
      <4> QED
        BY <3>1, <3>2, <4>1 DEF Ids, ToSet
    <3>4. Telling(f)
      BY <2>1, <3>1, <3>2 DEF Telling, FrameTypes
    <3>5. Mentions(f, x) <=> x[1] = "service" /\ x[2] = s
      BY <2>1, <3>1, <3>3 DEF Mentions
    <3>6. ASSUME Mentions(f, x) PROVE Tells(f, x, n)
      <4>1. n = tick + 1 /\ n # 0 /\ x[2] = s
        BY <1>1, <1>2, <2>3, <3>5, <3>6
      <4>2. [id |-> x[2], rev |-> n] = e
        BY <4>1 DEF e
      <4> QED
        BY <2>1, <3>3, <4>1, <4>2 DEF Tells
    <3> QED
      BY <3>4, <3>5, <3>6
  <2> QED
    BY <2>2, <2>3
<1>5. Telling(g) /\ ~Mentions(g, x)
  BY DEF Telling, Mentions, FrameTypes
<1>6. /\ Tellings(topology)
      /\ x[1] = "call" => LastWord(topology, x, n) /\ (Silent(topology, x) => n = Now(x))
      /\ x[1] # "call" => Silent(topology, x)
  <2>1. "call" = IF "topology_changed" = "topology_changed" THEN "call" ELSE "warning"
    OBVIOUS
  <2> QED
    BY <1>1, <1>2, <2>1, ChangeTold
<1>7. /\ Tellings(warnings)
      /\ x[1] = "warning" => LastWord(warnings, x, n) /\ (Silent(warnings, x) => n = Now(x))
      /\ x[1] # "warning" => Silent(warnings, x)
  <2>1. "warning" = IF "warnings_changed" = "topology_changed" THEN "call" ELSE "warning"
    OBVIOUS
  <2> QED
    BY <1>1, <1>2, <2>1, ChangeTold
<1>8. /\ Tellings(<<f>>) /\ (Silent(<<f>>, x) <=> ~Mentions(f, x)) /\ LastWord(<<f>>, x, n)
      /\ Tellings(<<g>>) /\ Silent(<<g>>, x) /\ LastWord(<<g>>, x, n)
  BY <1>4, <1>5, OneWord
<1>9. \A q : Silent(q, x) => LastWord(q, x, n)
  BY DEF Silent, LastWord
<1>10. LastWord(topology, x, n) /\ LastWord(warnings, x, n)
  BY <1>6, <1>7, <1>9
<1> HIDE DEF f, g, topology, warnings
<1> DEFINE p == <<f>> \o topology
           r == p \o <<g>>
           q == r \o warnings
<1>11. \A k : Tellings(k) => IsSequence(k)
  BY DEF Tellings
<1>12. /\ Tellings(p) /\ LastWord(p, x, n) /\ (Silent(p, x) <=> Silent(<<f>>, x) /\ Silent(topology, x))
  BY <1>6, <1>8, <1>10, <1>11, WordsJoined
<1> HIDE DEF p
<1>13. /\ Tellings(r) /\ LastWord(r, x, n) /\ (Silent(r, x) <=> Silent(p, x))
  BY <1>8, <1>11, <1>12, WordsJoined
<1> HIDE DEF r
<1>14. /\ Tellings(q) /\ LastWord(q, x, n) /\ (Silent(q, x) <=> Silent(r, x) /\ Silent(warnings, x))
  BY <1>7, <1>10, <1>11, <1>13, WordsJoined
<1>15. ASSUME Silent(q, x) PROVE n = Now(x)
  <2>1. ~Mentions(f, x) /\ Silent(topology, x) /\ Silent(warnings, x)
    BY <1>8, <1>12, <1>13, <1>14, <1>15
  <2>2. x[1] = "service" => n = Now(x)
    BY <1>1, <1>2, <1>4, <2>1
  <2> QED
    BY <1>6, <1>7, <2>1, <2>2, ItemsAre
<1> HIDE DEF q
<1>16. TickFrames(s, gone, linked, warned) = q
  BY <1>3 DEF q, r, p
<1> QED
  BY <1>14, <1>15, <1>16 DEF n

\* Once its snapshot is sent, a dashboard has of each item what the daemon knows, or a frame on
\* its way mentions the item; and the last that does is right.
TablesInv ==
  /\ WorldOK /\ TablesOK(view)
  /\ link \in {"subscribed", "live"} =>
       Tellings(channel) /\ \A x \in Item : LastWord(channel, x, Now(x))
  /\ link \notin {"subscribed", "live"} => channel = <<>>
  /\ link = "live" => \A x \in Item : Silent(channel, x) => Lists(view, x, Now(x))

LEMMA TablesInitially == ViewInit => TablesInv
<1> SUFFICES ASSUME ViewInit PROVE TablesInv
  OBVIOUS
<1>1. tick = 0 /\ link = "none" /\ channel = <<>> /\ view = EmptyView /\ \E up \in BOOLEAN : daemon = Blank(up)
  BY DEF ViewInit
<1>2. WorldOK
  <2>1. PICK up \in BOOLEAN : daemon = Blank(up)
    BY <1>1
  <2> QED
    BY <1>1, <2>1 DEF Blank, WorldOK
<1>3. TablesOK(view)
  <2>1. view.services = <<>> /\ view.connections = <<>> /\ view.warnings = <<>>
        /\ {"services", "connections", "warnings"} \subseteq DOMAIN view
    BY <1>1 DEF EmptyView
  <2>2. <<>> \in Seq(Revised) /\ Len(<<>>) = 0
    OBVIOUS
  <2> QED
    BY <2>1, <2>2 DEF TablesOK, Listing
<1> QED
  BY <1>1, <1>2, <1>3 DEF TablesInv

\* The steps at which the daemon's knowledge stays, and the tables of the view.
LEMMA TablesStayWith ==
  ASSUME TablesInv, WorldOK', \A x \in Item : Now(x)' = Now(x),
         TablesOK(view'), \A x \in Item, n \in Nat : Lists(view, x, n) => Lists(view', x, n),
         link' \in {"subscribed", "live"} =>
           Tellings(channel') /\ \A x \in Item : LastWord(channel', x, Now(x)),
         link' \notin {"subscribed", "live"} => channel' = <<>>,
         link' = "live" => \A x \in Item : Silent(channel', x) => link = "live" /\ Silent(channel, x)
  PROVE  TablesInv'
<1>1. \A x \in Item : Now(x) \in Nat
  BY ItemsAre DEF Now, TablesInv, WorldOK
<1>2. link' = "live" => \A x \in Item : Silent(channel', x) => Lists(view', x, Now(x))
  BY <1>1 DEF TablesInv
<1>3. /\ link' \in {"subscribed", "live"} => \A x \in Item : LastWord(channel', x, Now(x)')
      /\ link' = "live" => \A x \in Item : Silent(channel', x) => Lists(view', x, Now(x)')
  BY <1>2
<1> QED
  BY <1>3 DEF TablesInv

LEMMA SameWorld ==
  ASSUME WorldOK, UNCHANGED tick,
         {"rev", "linked", "warned"} \subseteq DOMAIN daemon',
         daemon'.rev = daemon.rev /\ daemon'.linked = daemon.linked /\ daemon'.warned = daemon.warned
  PROVE  WorldOK' /\ \A x \in Item : Now(x)' = Now(x)
BY DEF WorldOK, Now

\* The tables of a view do not depend on the rest of it.
LEMMA SameLists ==
  ASSUME NEW v, TablesOK(v), NEW w, {"services", "connections", "warnings"} \subseteq DOMAIN w,
         w.services = v.services /\ w.connections = v.connections /\ w.warnings = v.warnings
  PROVE  TablesOK(w) /\ \A x \in Item, n \in Nat : Lists(v, x, n) => Lists(w, x, n)
BY DEF TablesOK, Lists

LEMMA TickTables ==
  ASSUME TablesInv, NEW s \in Service, NEW gone \in BOOLEAN, NEW linked \in BOOLEAN, NEW warned \in BOOLEAN,
         Tick(s, gone, linked, warned)
  PROVE  TablesInv'
<1> DEFINE F == TickFrames(s, gone, linked, warned)
<1>1. WorldOK /\ TablesOK(view) /\ UNCHANGED <<view, link>> /\ WorldOK'
  BY TickIsKnown DEF TablesInv, Tick
<1>2. \A x \in Item : /\ Tellings(F) /\ LastWord(F, x, Now(x)')
                      /\ Silent(F, x) => Now(x)' = Now(x)
  BY <1>1, TicksTell
<1>3. channel' = IF link \in {"subscribed", "live"} THEN channel \o F ELSE channel
  BY DEF Tick
<1> HIDE DEF F
<1>4. ASSUME link \in {"subscribed", "live"}
      PROVE  /\ Tellings(channel') /\ \A x \in Item : LastWord(channel', x, Now(x)')
             /\ link = "live" => \A x \in Item : Silent(channel', x) => Lists(view, x, Now(x)')
  <2>1. Tellings(channel) /\ \A x \in Item : LastWord(channel, x, Now(x))
    BY <1>4 DEF TablesInv
  <2>2. <<"call", "call">> \in Item
    BY DEF Item
  <2>3. Tellings(F)
    BY <1>2, <2>2
  <2>4. IsSequence(channel) /\ IsSequence(F) /\ channel' = channel \o F
    BY <1>3, <1>4, <2>1, <2>3 DEF Tellings
  <2>5. Tellings(channel')
    BY <2>1, <2>3, <2>4, WordsJoined
  <2>6. ASSUME NEW x \in Item PROVE LastWord(channel', x, Now(x)')
    <3>1. LastWord(F, x, Now(x)') /\ (Silent(F, x) => LastWord(channel, x, Now(x)'))
      <4>1. LastWord(F, x, Now(x)') /\ (Silent(F, x) => Now(x)' = Now(x)) /\ LastWord(channel, x, Now(x))
        BY <1>2, <2>1
      <4> QED
        BY <4>1
    <3> DEFINE n == Now(x)'
    <3> HIDE DEF n
    <3>2. LastWord(F, x, n) /\ (Silent(F, x) => LastWord(channel, x, n))
      BY <3>1 DEF n
    <3>3. LastWord(channel \o F, x, n)
      BY <2>4, <3>2, WordsJoined
    <3> QED
      BY <2>4, <3>3 DEF n
  <2>7. ASSUME link = "live", NEW x \in Item, Silent(channel', x) PROVE Lists(view, x, Now(x)')
    <3>1. Silent(channel, x) /\ Silent(F, x)
      BY <2>4, <2>7, WordsJoined
    <3>2. Now(x)' = Now(x)
      BY <1>2, <3>1
    <3>3. Lists(view, x, Now(x))
      BY <2>7, <3>1 DEF TablesInv
    <3> QED
      BY <3>2, <3>3
  <2> QED
    BY <2>5, <2>6, <2>7
<1>5. link \notin {"subscribed", "live"} => channel' = <<>>
  BY <1>3 DEF TablesInv
<1> QED
  BY <1>1, <1>4, <1>5 DEF TablesInv

LEMMA DaemonTables ==
  ASSUME TablesInv, Accept \/ SendSnapshot \/ BreakConnection \/ StopDaemon \/ StartDaemon
  PROVE  TablesInv'
<1>1. /\ WorldOK /\ TablesOK(view) /\ UNCHANGED <<view, tick>>
  BY DEF TablesInv, Accept, SendSnapshot, BreakConnection, StopDaemon, StartDaemon, worldVars, wireVars
<1>2. UNCHANGED daemon => WorldOK' /\ \A x \in Item : Now(x)' = Now(x)
  <2> SUFFICES ASSUME UNCHANGED daemon PROVE WorldOK' /\ \A x \in Item : Now(x)' = Now(x)
    OBVIOUS
  <2> QED
    BY <1>1 DEF WorldOK, Now
<1>3. CASE Accept
  <2>1. UNCHANGED <<daemon, channel>> /\ link = "none" /\ link' = "subscribed"
    BY <1>3 DEF Accept, worldVars
  <2>2. channel' = <<>>
    BY <2>1 DEF TablesInv
  <2>3. Tellings(channel') /\ \A x \in Item : LastWord(channel', x, Now(x))
    <3>1. \A x, n : Tellings(<<>>) /\ LastWord(<<>>, x, n)
      BY NoWord
    <3> QED
      BY <2>2, <3>1
  <2> QED
    BY <1>1, <1>2, <2>1, <2>3, TablesStayWith
<1>4. CASE SendSnapshot
  <2>1. UNCHANGED daemon /\ link = "subscribed" /\ link' = "live" /\ channel' = <<Snapshot>> \o channel
    BY <1>4 DEF SendSnapshot, worldVars
  <2>2. Tellings(channel) /\ \A x \in Item : LastWord(channel, x, Now(x))
    BY <2>1 DEF TablesInv
  <2>3. Telling(Snapshot) /\ \A x \in Item : Tells(Snapshot, x, Now(x)) /\ Mentions(Snapshot, x)
    BY <1>1, SnapshotTold, SnapshotIsFrame DEF Mentions
  <2> DEFINE p == <<Snapshot>>
  <2>4. Tellings(p) /\ \A x \in Item : ~Silent(p, x) /\ LastWord(p, x, Now(x))
    BY <2>3, OneWord
  <2> HIDE DEF p
  <2>5. Tellings(channel') /\ \A x \in Item : ~Silent(channel', x) /\ LastWord(channel', x, Now(x))
    <3>1. channel' = p \o channel /\ IsSequence(p) /\ IsSequence(channel)
      BY <2>1, <2>2, <2>4 DEF p, Tellings
    <3> QED
      BY <2>2, <2>4, <3>1, WordsJoined
  <2> QED
    BY <1>1, <1>2, <2>1, <2>5, TablesStayWith
<1>5. CASE BreakConnection
  <2>1. UNCHANGED daemon /\ channel' = <<>> /\ link' = "lost"
    BY <1>5 DEF BreakConnection, LoseLink, worldVars
  <2> QED
    BY <1>1, <1>2, <2>1, TablesStayWith
<1>6. CASE StopDaemon
  <2>1. daemon' = Blank(FALSE) /\ channel' = <<>> /\ link' \notin {"subscribed", "live"}
    BY <1>6 DEF StopDaemon, LoseLink
  <2>2. WorldOK'
    BY <1>1, <2>1 DEF Blank, WorldOK
  <2> QED
    BY <1>1, <2>1, <2>2 DEF TablesInv
<1>7. CASE StartDaemon
  <2>1. daemon' = [daemon EXCEPT !.up = TRUE] /\ UNCHANGED <<link, channel>>
    BY <1>7 DEF StartDaemon, wireVars
  <2>2. WorldOK' /\ \A x \in Item : Now(x)' = Now(x)
    <3>1. /\ {"rev", "linked", "warned"} \subseteq DOMAIN daemon'
          /\ daemon'.rev = daemon.rev /\ daemon'.linked = daemon.linked /\ daemon'.warned = daemon.warned
      BY <1>1, <2>1 DEF WorldOK
    <3> QED
      BY <1>1, <3>1, SameWorld
  <2>3. /\ link \in {"subscribed", "live"} => Tellings(channel) /\ \A x \in Item : LastWord(channel, x, Now(x))
        /\ link \notin {"subscribed", "live"} => channel = <<>>
    BY DEF TablesInv
  <2> QED
    BY <1>1, <2>1, <2>2, <2>3, TablesStayWith
<1> QED
  BY <1>3, <1>4, <1>5, <1>6, <1>7

\* A sequence cut in two.
LEMMA Parted ==
  ASSUME NEW C, NEW q \in Seq(C), NEW i \in Nat, 1 <= i, i - 1 <= Len(q)
  PROVE  q = SubSeq(q, 1, i - 1) \o SubSeq(q, i, Len(q))
<1> DEFINE n == Len(q)
           a == SubSeq(q, 1, i - 1)
           b == SubSeq(q, i, n)
           r == a \o b
<1>1. n \in Nat /\ q \in [1..n -> C]
  OBVIOUS
<1>2. /\ a \in Seq(C) /\ Len(a) = i - 1 /\ \A k \in 1..(i - 1) : a[k] = q[k]
      /\ b \in Seq(C) /\ Len(b) = n - i + 1 /\ \A k \in 1..(n - i + 1) : b[k] = q[i + k - 1]
  BY <1>1
<1> HIDE DEF a, b
<1>3. /\ r \in Seq(C) /\ Len(r) = n
      /\ \A k \in 1..(i - 1) : r[k] = a[k]
      /\ \A k \in 1..(n - i + 1) : r[(i - 1) + k] = b[k]
  <2>1. IsSequence(a) /\ IsSequence(b)
    BY <1>2 DEF IsSequence
  <2>2. /\ Len(r) = Len(a) + Len(b)
        /\ \A k \in 1..Len(a) : r[k] = a[k]
        /\ \A k \in 1..Len(b) : r[Len(a) + k] = b[k]
    BY <2>1, JoinedAre
  <2>3. r \in Seq(C)
    BY <1>2
  <2> HIDE DEF r
  <2> QED
    BY <1>1, <1>2, <2>2, <2>3
<1> HIDE DEF r
<1>4. ASSUME NEW k \in 1..n PROVE r[k] = q[k]
  <2>1. CASE k <= i - 1
    BY <1>2, <1>3, <2>1
  <2>2. CASE ~(k <= i - 1)
    <3> DEFINE m == k - (i - 1)
    <3>1. m \in 1..(n - i + 1) /\ i + m - 1 = k /\ (i - 1) + m = k
      BY <1>1, <2>2
    <3> HIDE DEF m
    <3>2. b[m] = q[i + m - 1] /\ r[(i - 1) + m] = b[m]
      BY <1>2, <1>3, <3>1
    <3> QED
      BY <3>1, <3>2
  <2> QED
    BY <2>1, <2>2
<1>5. r \in [1..n -> C]
  BY <1>3
<1>6. r = q
  BY <1>1, <1>4, <1>5
<1> QED
  BY <1>6 DEF r, a, b

LEMMA ProviderTables ==
  ASSUME TablesInv, OnOpen \/ OnMessage \/ OnClose \/ Reconnect \/ Resnapshot
  PROVE  TablesInv'
<1>1. WorldOK /\ TablesOK(view) /\ UNCHANGED <<daemon, tick>>
  BY DEF TablesInv, OnOpen, OnMessage, OnClose, Reconnect, Resnapshot, worldVars
<1>2. WorldOK' /\ \A x \in Item : Now(x)' = Now(x)
  BY <1>1 DEF WorldOK, Now
<1>3. /\ link \in {"subscribed", "live"} => Tellings(channel) /\ \A x \in Item : LastWord(channel, x, Now(x))
      /\ link \notin {"subscribed", "live"} => channel = <<>>
  BY DEF TablesInv
<1>4. CASE OnOpen
  <2>1. UNCHANGED <<link, channel>> /\ view' = [view EXCEPT !.connection = "connected"]
    BY <1>4 DEF OnOpen
  <2>2. /\ {"services", "connections", "warnings"} \subseteq DOMAIN view'
        /\ view'.services = view.services /\ view'.connections = view.connections /\ view'.warnings = view.warnings
    BY <1>1, <2>1 DEF TablesOK
  <2>3. TablesOK(view') /\ \A x \in Item, n \in Nat : Lists(view, x, n) => Lists(view', x, n)
    BY <1>1, <2>2, SameLists
  <2> QED
    BY <1>2, <1>3, <2>1, <2>3, TablesStayWith
<1>5. CASE OnClose
  <2>1. /\ link' = "none" /\ channel' = <<>>
        /\ view' = [view EXCEPT
             !.connection = IF attempt' > BackoffSteps THEN "disconnected" ELSE "reconnecting",
             !.reconnects = @ + (IF attempt' = 1 THEN 1 ELSE 0)]
    BY <1>5 DEF OnClose
  <2>2. /\ {"services", "connections", "warnings"} \subseteq DOMAIN view'
        /\ view'.services = view.services /\ view'.connections = view.connections /\ view'.warnings = view.warnings
    BY <1>1, <2>1 DEF TablesOK
  <2>3. TablesOK(view') /\ \A x \in Item, n \in Nat : Lists(view, x, n) => Lists(view', x, n)
    BY <1>1, <2>2, SameLists
  <2> QED
    BY <1>2, <2>1, <2>3, TablesStayWith
<1>6. CASE Reconnect
  <2>1. UNCHANGED <<link, channel, view>>
    BY <1>6 DEF Reconnect
  <2> QED
    BY <1>1, <1>2, <1>3, <2>1, TablesStayWith
<1>7. CASE Resnapshot
  <2>1. /\ link = "live" /\ UNCHANGED <<link, view>>
        /\ \E i \in 1..(Len(channel) + 1) : channel' = InsertAt(channel, i, Snapshot)
    BY <1>7 DEF Resnapshot
  <2>2. PICK i \in 1..(Len(channel) + 1) : channel' = InsertAt(channel, i, Snapshot)
    BY <2>1
  <2>3. Tellings(channel) /\ \A x \in Item : LastWord(channel, x, Now(x))
    BY <1>3, <2>1
  <2>4. Telling(Snapshot) /\ \A x \in Item : Tells(Snapshot, x, Now(x)) /\ Mentions(Snapshot, x)
    BY <1>1, SnapshotTold, SnapshotIsFrame DEF Mentions
  <2> DEFINE a == SubSeq(channel, 1, i - 1)
             b == SubSeq(channel, i, Len(channel))
             p == <<Snapshot>>
             c == a \o p
  <2>5. channel' = c \o b
    BY <2>2 DEF InsertAt
  <2>6. channel = a \o b /\ IsSequence(a) /\ IsSequence(b)
    <3>1. PICK C : channel \in Seq(C)
      BY <2>3 DEF Tellings, IsSequence
    <3>2. Len(channel) \in Nat /\ i \in Nat /\ 1 <= i /\ i - 1 <= Len(channel)
      BY <2>2, <3>1
    <3>3. a \in Seq(C) /\ b \in Seq(C)
      BY <3>1, <3>2
    <3>4. channel = a \o b
      BY <3>1, <3>2, Parted
    <3> QED
      BY <3>3, <3>4 DEF IsSequence
  <2>7. Tellings(p) /\ \A x \in Item : ~Silent(p, x) /\ LastWord(p, x, Now(x))
    BY <2>4, OneWord
  <2> HIDE DEF a, b, p
  <2>8. Tellings(a) /\ Tellings(b) /\ \A x \in Item : LastWord(b, x, Now(x))
    BY <2>3, <2>6, WordsJoined
  <2>9. Tellings(c) /\ \A x \in Item : ~Silent(c, x) /\ LastWord(c, x, Now(x))
    <3>1. IsSequence(p)
      BY <2>7 DEF Tellings
    <3> QED
      BY <2>6, <2>7, <2>8, <3>1, WordsJoined
  <2> HIDE DEF c
  <2>10. Tellings(channel') /\ \A x \in Item : ~Silent(channel', x) /\ LastWord(channel', x, Now(x))
    <3>1. IsSequence(c)
      BY <2>9 DEF Tellings
    <3> QED
      BY <2>5, <2>6, <2>8, <2>9, <3>1, WordsJoined
  <2> QED
    BY <1>1, <1>2, <2>1, <2>10, TablesStayWith
<1>8. CASE OnMessage
  <2> DEFINE f == Head(channel)
  <2>1. /\ link = "live" /\ link' = "live" /\ channel # <<>>
        /\ view' = Reduce(view, f) /\ channel' = Tail(channel)
    BY <1>8 DEF OnMessage
  <2>2. Tellings(channel) /\ IsSequence(channel) /\ \A x \in Item : LastWord(channel, x, Now(x))
    BY <1>3, <2>1 DEF Tellings
  <2>3. /\ <<"call", "call">> \in Item
        /\ \A x \in Item :
             /\ IsSequence(channel') /\ LastWord(channel', x, Now(x)) /\ Telling(f) /\ Tellings(channel')
             /\ Silent(channel', x) => IF Mentions(f, x) THEN Tells(f, x, Now(x)) ELSE Silent(channel, x)
    BY <2>1, <2>2, FirstWord DEF Item
  <2> HIDE DEF f
  <2>4. Learns(view, f, view')
    BY <1>1, <2>1, <2>3, ReduceLearns
  <2>5. \A x \in Item : Now(x) \in Nat
    BY ItemsAre, <1>1 DEF Now, WorldOK
  <2>6. ASSUME NEW x \in Item, Silent(channel', x) PROVE Lists(view', x, Now(x))
    <3>1. CASE Mentions(f, x)
      BY <2>3, <2>4, <2>5, <2>6, <3>1 DEF Learns
    <3>2. CASE ~Mentions(f, x)
      <4>1. Lists(view, x, Now(x))
        BY <2>1, <2>3, <2>6, <3>2 DEF TablesInv
      <4> QED
        BY <2>4, <2>5, <3>2, <4>1 DEF Learns
    <3> QED
      BY <3>1, <3>2
  <2>7. TablesOK(view')
    BY <2>4 DEF Learns
  <2>8. /\ \A x \in Item : LastWord(channel', x, Now(x)')
        /\ \A x \in Item : Silent(channel', x) => Lists(view', x, Now(x)')
    BY <1>2, <2>3, <2>6
  <2> QED
    BY <1>2, <2>1, <2>3, <2>7, <2>8 DEF TablesInv
<1> QED
  BY <1>4, <1>5, <1>6, <1>7, <1>8

LEMMA TablesNext ==
  ASSUME TablesInv, Daemon \/ Provider
  PROVE  TablesInv'
<1>1. CASE \E s \in Service, gone, linked, warned \in BOOLEAN : Tick(s, gone, linked, warned)
  BY <1>1, TickTables
<1>2. CASE Accept \/ SendSnapshot \/ BreakConnection \/ StopDaemon \/ StartDaemon
  BY <1>2, DaemonTables
<1>3. CASE Provider
  BY <1>3, ProviderTables DEF Provider
<1> QED
  BY <1>1, <1>2, <1>3 DEF Daemon

\* ViewAfter exists: a recursive function is a CHOOSE until one is shown to satisfy its equation.
LEMMA ViewAfterIs ==
  ASSUME Len(channel) \in Nat
  PROVE  /\ ViewAfter[0] = view
         /\ \A n \in 1..Len(channel) : ViewAfter[n] = Reduce(ViewAfter[n - 1], channel[n])
<1> DEFINE L == Len(channel)
           IsAfter(f, k) == \A n \in 0..k : f[n] = IF n = 0 THEN view ELSE Reduce(f[n - 1], channel[n])
           None == {k \in Nat : ~ \E f : IsAfter(f, k)}
<1>1. None = {}
  <2> SUFFICES ASSUME None # {} PROVE FALSE
    OBVIOUS
  <2>1. None \in SUBSET Nat
    OBVIOUS
  <2> HIDE DEF None
  <2>2. PICK k \in None : \A m \in None : k <= m
    BY <2>1, LeastNatural
  <2>3. k \in Nat /\ ~ \E f : IsAfter(f, k)
    BY <2>2 DEF None
  <2>4. k # 0
    <3> DEFINE f == [n \in {0} |-> view]
    <3>1. IsAfter(f, 0)
      OBVIOUS
    <3> HIDE DEF f
    <3> QED
      BY <2>3, <3>1
  <2>5. k - 1 \in Nat /\ k - 1 \notin None
    BY <2>2, <2>3, <2>4
  <2>6. PICK g : IsAfter(g, k - 1)
    BY <2>5 DEF None
  <2> DEFINE f == [n \in 0..k |-> IF n = k THEN Reduce(g[k - 1], channel[k]) ELSE g[n]]
  <2>7. \A n \in 0..k : f[n] = IF n = k THEN Reduce(g[k - 1], channel[k]) ELSE g[n]
    OBVIOUS
  <2> HIDE DEF f
  <2>8. ASSUME NEW n \in 0..k PROVE f[n] = IF n = 0 THEN view ELSE Reduce(f[n - 1], channel[n])
    <3>1. CASE n = k
      <4>1. k - 1 \in 0..k /\ k - 1 # k /\ f[k - 1] = g[k - 1]
        BY <2>3, <2>5, <2>7
      <4> QED
        BY <2>4, <2>7, <3>1, <4>1
    <3>2. CASE n # k
      <4>1. n \in 0..(k - 1) /\ f[n] = g[n]
        BY <2>3, <2>7, <3>2
      <4>2. g[n] = IF n = 0 THEN view ELSE Reduce(g[n - 1], channel[n])
        BY <2>6, <4>1
      <4>3. n # 0 => n - 1 \in 0..k /\ n - 1 # k /\ f[n - 1] = g[n - 1]
        BY <2>3, <2>7, <3>2, <4>1
      <4> QED
        BY <4>1, <4>2, <4>3
    <3> QED
      BY <3>1, <3>2
  <2> QED
    BY <2>3, <2>8
<1>2. PICK g : IsAfter(g, L)
  BY <1>1
<1> DEFINE Step(f) == [n \in 0..L |-> IF n = 0 THEN view ELSE Reduce(f[n - 1], channel[n])]
           f == [n \in 0..L |-> g[n]]
<1>3. f = Step(f)
  <2>1. \A n \in 0..L : g[n] = IF n = 0 THEN view ELSE Reduce(f[n - 1], channel[n])
    <3> SUFFICES ASSUME NEW n \in 0..L PROVE g[n] = IF n = 0 THEN view ELSE Reduce(f[n - 1], channel[n])
      OBVIOUS
    <3>1. g[n] = IF n = 0 THEN view ELSE Reduce(g[n - 1], channel[n])
      BY <1>2
    <3>2. n # 0 => f[n - 1] = g[n - 1]
      OBVIOUS
    <3> QED
      BY <3>1, <3>2
  <2> QED
    BY <2>1
<1>4. ViewAfter = Step(ViewAfter)
  <2>1. ViewAfter = CHOOSE h : h = [n \in 0..Len(channel) |-> IF n = 0 THEN view ELSE Reduce(h[n - 1], channel[n])]
    BY DEF ViewAfter
  <2> HIDE DEF f
  <2> QED
    BY <1>3, <2>1
<1>5. \A n \in 0..L : ViewAfter[n] = IF n = 0 THEN view ELSE Reduce(ViewAfter[n - 1], channel[n])
  BY <1>4
<1>6. 0 \in 0..L /\ \A n \in 1..L : n \in 0..L /\ n # 0
  OBVIOUS
<1> QED
  BY <1>5, <1>6

\* Frame by frame a dashboard learns what it does not have yet.
LEMMA AllIsRead ==
  ASSUME TablesInv, link = "live"
  PROVE  LET w == ViewAfter[Len(channel)]
         IN  TablesOK(w) /\ \A x \in Item : Lists(w, x, Now(x))
<1> DEFINE L == Len(channel)
           V(n) == ViewAfter[n]
           Quiet(n, x) == \A j \in 1..L : n < j => ~Mentions(channel[j], x)
           Good(n) == TablesOK(V(n)) /\ \A x \in Item : Quiet(n, x) => Lists(V(n), x, Now(x))
           Bad == {n \in Nat : n <= L /\ ~Good(n)}
<1>1. Tellings(channel) /\ \A x \in Item : LastWord(channel, x, Now(x))
  BY DEF TablesInv
<1>2. L \in Nat
  BY <1>1 DEF Tellings, IsSequence
<1>3. V(0) = view /\ \A n \in 1..L : V(n) = Reduce(V(n - 1), channel[n])
  BY <1>2, ViewAfterIs
<1> HIDE DEF V
<1>4. \A x \in Item : Now(x) \in Nat
  BY ItemsAre DEF Now, TablesInv, WorldOK
<1>5. Good(0)
  <2>1. \A x \in Item : Quiet(0, x) => Silent(channel, x)
    BY <1>2 DEF Silent
  <2> QED
    BY <1>3, <2>1 DEF TablesInv
<1>6. ASSUME NEW n \in 1..L, Good(n - 1) PROVE Good(n)
  <2> DEFINE f == channel[n]
  <2>1. Telling(f)
    BY <1>1 DEF Tellings
  <2>2. V(n) = Reduce(V(n - 1), f) /\ TablesOK(V(n - 1))
    BY <1>3, <1>6
  <2>3. Learns(V(n - 1), f, V(n))
    BY <2>1, <2>2, ReduceLearns
  <2>4. ASSUME NEW x \in Item, Quiet(n, x) PROVE Lists(V(n), x, Now(x))
    <3>1. CASE Mentions(f, x)
      <4>1. Tells(f, x, Now(x))
        BY <1>1, <2>4, <3>1 DEF LastWord
      <4> HIDE DEF f
      <4> QED
        BY <1>4, <2>3, <3>1, <4>1 DEF Learns
    <3>2. CASE ~Mentions(f, x)
      <4>1. Quiet(n - 1, x)
        <5> SUFFICES ASSUME NEW j \in 1..L, n - 1 < j PROVE ~Mentions(channel[j], x)
          OBVIOUS
        <5>1. j = n \/ n < j
          BY <1>2
        <5> QED
          BY <2>4, <3>2, <5>1
      <4>2. Lists(V(n - 1), x, Now(x))
        BY <1>6, <4>1
      <4> HIDE DEF f
      <4> QED
        BY <1>4, <2>3, <3>2, <4>2 DEF Learns
    <3> QED
      BY <3>1, <3>2
  <2> QED
    BY <2>3, <2>4 DEF Learns
<1> HIDE DEF Good
<1>7. Bad = {}
  <2> SUFFICES ASSUME Bad # {} PROVE FALSE
    OBVIOUS
  <2>1. Bad \in SUBSET Nat
    OBVIOUS
  <2> HIDE DEF Bad
  <2>2. PICK k \in Bad : \A m \in Bad : k <= m
    BY <2>1, LeastNatural
  <2>3. k \in Nat /\ k <= L /\ ~Good(k)
    BY <2>2 DEF Bad
  <2>4. k # 0
    BY <1>5, <2>3
  <2>5. k \in 1..L /\ k - 1 \in Nat /\ k - 1 <= L /\ ~(k <= k - 1)
    BY <1>2, <2>3, <2>4
  <2>6. Good(k - 1)
    BY <2>2, <2>5 DEF Bad
  <2> QED
    BY <1>6, <2>3, <2>5, <2>6
<1>8. Good(L)
  BY <1>2, <1>7
<1>9. \A x \in Item : Quiet(L, x)
  BY <1>2
<1> QED
  BY <1>8, <1>9 DEF Good, V

\* What is listed of each item is all there is in the tables.
LEMMA SameRecords ==
  ASSUME WorldOK, NEW v, TablesOK(v), NEW w, TablesOK(w),
         \A x \in Item : Lists(v, x, Now(x)) /\ Lists(w, x, Now(x))
  PROVE  ToSet(v.services) \subseteq ToSet(w.services)
<1> SUFFICES ASSUME NEW d \in ToSet(v.services) PROVE d \in ToSet(w.services)
  OBVIOUS
<1>1. Listing(v.services)
  BY DEF TablesOK
<1>2. d \in Revised /\ d = [id |-> d.id, rev |-> d.rev] /\ d.id \in Service /\ d.id \in Ids(v.services)
  <2> DEFINE q == v.services
  <2> HIDE DEF q
  <2>1. Listing(q) /\ d \in ToSet(q)
    BY <1>1 DEF q
  <2>2. PICK i \in 1..Len(q) : d = q[i]
    BY <2>1, ListingHas
  <2>3. d \in Revised /\ d = [id |-> d.id, rev |-> d.rev] /\ d.id \in Service
    BY <2>1, <2>2, ListingHas
  <2>4. d.id \in Ids(q)
    BY <2>1, <2>2, ListingHas
  <2> QED
    BY <2>3, <2>4 DEF q
<1> DEFINE x == <<"service", d.id>>
           n == daemon.rev[d.id]
           e == [id |-> d.id, rev |-> n]
<1>3. x \in Item /\ x[1] = "service" /\ x[2] = d.id
  BY <1>2 DEF Item
<1>4. Now(x) = n
  BY <1>3 DEF Now
<1> HIDE DEF x
<1>5. Lists(v, x, n) /\ Lists(w, x, n)
  BY <1>3, <1>4
<1> HIDE DEF n
<1>6. n # 0 /\ e \in ToSet(v.services) /\ e \in ToSet(w.services)
  BY <1>2, <1>3, <1>5 DEF Lists
<1>7. e.id = d.id
  OBVIOUS
<1> HIDE DEF e
<1>8. e = d
  BY <1>1, <1>6, <1>7, ListedOnce
<1> QED
  BY <1>6, <1>8

LEMMA SameTables ==
  ASSUME WorldOK, NEW v, TablesOK(v), NEW w, TablesOK(w),
         \A x \in Item : Lists(v, x, Now(x)) /\ Lists(w, x, Now(x))
  PROVE  Tables(v) = Tables(w)
<1>1. ToSet(v.services) = ToSet(w.services)
  <2>1. ToSet(v.services) \subseteq ToSet(w.services)
    BY SameRecords
  <2>2. ToSet(w.services) \subseteq ToSet(v.services)
    BY SameRecords
  <2> QED
    BY <2>1, <2>2
<1>2. v.connections = w.connections
  <2> DEFINE x == <<"call", "call">>
  <2>1. x \in Item /\ x[1] = "call"
    BY DEF Item
  <2> HIDE DEF x
  <2> QED
    BY <2>1 DEF Lists
<1>3. v.warnings = w.warnings
  <2> DEFINE x == <<"warning", "warning">>
  <2>1. x \in Item /\ x[1] = "warning"
    BY DEF Item
  <2> HIDE DEF x
  <2> QED
    BY <2>1 DEF Lists
<1> QED
  BY <1>1, <1>2, <1>3 DEF Tables

LEMMA OneOrNone ==
  ASSUME NEW e, NEW q \in {<<>>, <<e>>}
  PROVE  Cardinality(ToSet(q)) = Len(q)
<1>1. ToSet(<<>>) = {} /\ Len(<<>>) = 0
  BY DEF ToSet
<1>2. ToSet(<<e>>) = {e} /\ Len(<<e>>) = 1
  <2>1. DOMAIN <<e>> = {1} /\ <<e>>[1] = e /\ Len(<<e>>) = 1
    OBVIOUS
  <2> QED
    BY <2>1 DEF ToSet
<1>3. Cardinality({}) = 0 /\ Cardinality({e}) = 1
  BY FS_EmptySet, FS_Singleton
<1> QED
  BY <1>1, <1>2, <1>3

\* As many ids as places.
LEMMA AsManyIds ==
  ASSUME NEW q, Len(q) \in Nat, DOMAIN q = 1..Len(q),
         \A i, j \in 1..Len(q) : q[i].id = q[j].id => i = j
  PROVE  Cardinality(Ids(q)) = Len(q)
<1> DEFINE n == Len(q)
           S == Ids(q)
           f == [i \in 1..n |-> q[i].id]
<1>1. \A i \in 1..n : f[i] = q[i].id
  OBVIOUS
<1>2. f \in [1..n -> S] /\ \A s \in S : \E i \in 1..n : f[i] = s
  BY DEF Ids
<1>3. DOMAIN f = 1..n
  OBVIOUS
<1> HIDE DEF f
<1>4. \A i, j \in 1..n : f[i] = f[j] => i = j
  BY <1>1
<1>5. f \in Bijection(1..n, S)
  BY <1>2, <1>3, <1>4 DEF Bijection, Injection, Surjection, IsInjective
<1>6. ExistsBijection(1..n, S)
  BY <1>5 DEF ExistsBijection
<1>7. IsFiniteSet(1..n) /\ Cardinality(1..n) = n
  <2> HIDE DEF n
  <2>1. 1 \in Int /\ n \in Int /\ n >= 0
    BY DEF n
  <2> QED
    BY <2>1, FS_Interval
<1> HIDE DEF n, S
<1>8. Cardinality(S) = n
  BY <1>6, <1>7, FS_Bijection
<1> QED
  BY <1>8 DEF n, S

LEMMA NothingTwice ==
  ASSUME NEW v, TablesOK(v)
  PROVE  NoneTwice(v)
<1>1. Cardinality(Ids(v.services)) = Len(v.services)
  BY ListingHas, AsManyIds DEF TablesOK, Listing
<1>2. Cardinality(ToSet(v.connections)) = Len(v.connections)
  BY OneOrNone DEF TablesOK
<1>3. Cardinality(ToSet(v.warnings)) = Len(v.warnings)
  BY OneOrNone DEF TablesOK
<1> QED
  BY <1>1, <1>2, <1>3 DEF NoneTwice

LEMMA TablesAreTrue == TablesInv => TablesReplay
<1> SUFFICES ASSUME TablesInv PROVE TablesReplay
  OBVIOUS
<1>1. NoneTwice(view)
  BY NothingTwice DEF TablesInv
<1>2. ASSUME link = "live" PROVE Tables(ViewAfter[Len(channel)]) = Tables(Snapshot)
  <2> DEFINE w == ViewAfter[Len(channel)]
             v == Snapshot
  <2>1. TablesOK(w) /\ \A x \in Item : Lists(w, x, Now(x))
    BY <1>2, AllIsRead
  <2>2. WorldOK /\ v.type = "snapshot" /\ Telling(v) /\ \A x \in Item : Tells(v, x, Now(x))
    BY SnapshotTold, SnapshotIsFrame DEF TablesInv
  <2> HIDE DEF v, w
  <2>3. TablesOK(v) /\ \A x \in Item : Lists(v, x, Now(x))
    BY <2>2 DEF Telling, Tells
  <2>4. Tables(w) = Tables(v)
    BY <2>1, <2>2, <2>3, SameTables
  <2> QED
    BY <2>4 DEF v, w
<1> QED
  BY <1>1, <1>2 DEF TablesReplay

\* The tables of the hosted demo are fixtures.
LEMMA DemoTables == NoneTwice(DemoView)
<1>1. /\ DemoView.services = DEMO_SERVICES /\ DemoView.connections = <<DEMO_CONNECTION>>
      /\ DemoView.warnings = <<>>
  BY DEF DemoView, EmptyView
<1>2. Cardinality(Ids(DEMO_SERVICES)) = Len(DEMO_SERVICES)
  <2>1. Len(DEMO_SERVICES) = 2 /\ DOMAIN DEMO_SERVICES = 1..2
        /\ DEMO_SERVICES[1].id = "svc_demo_web" /\ DEMO_SERVICES[2].id = "svc_demo_api"
    BY DEF DEMO_SERVICES
  <2>2. \A i \in 1..2 : i = 1 \/ i = 2
    OBVIOUS
  <2>3. \A i, j \in 1..2 : DEMO_SERVICES[i].id = DEMO_SERVICES[j].id => i = j
    BY <2>1, <2>2
  <2> DEFINE q == DEMO_SERVICES
  <2>4. Len(q) \in Nat /\ DOMAIN q = 1..Len(q) /\ \A i, j \in 1..Len(q) : q[i].id = q[j].id => i = j
    BY <2>1, <2>3
  <2> HIDE DEF q
  <2> QED
    BY <2>4, AsManyIds DEF q
<1>3. Cardinality(ToSet(<<DEMO_CONNECTION>>)) = Len(<<DEMO_CONNECTION>>)
  BY OneOrNone
<1>4. Cardinality(ToSet(<<>>)) = Len(<<>>)
  BY OneOrNone
<1> QED
  BY <1>1, <1>2, <1>3, <1>4 DEF NoneTwice

TruthInv == IF Hosted THEN DemoInv ELSE TablesInv

LEMMA TruthInitially == DashInit => TruthInv
BY DemoInitially, TablesInitially DEF DashInit, TruthInv

LEMMA TruthSteps ==
  ASSUME TruthInv, [DashNext]_dashVars
  PROVE  TruthInv'
<1>1. Hosted' = Hosted
  BY DEF DashNext, Page, Visit, Poll, Serve, Deliver, LiveStep, dashVars, pageVars, Hosted
<1>2. CASE Hosted
  BY <1>1, <1>2, DemoSteps DEF TruthInv
<1>3. CASE ~Hosted
  <2>1. TablesInv
    BY <1>3 DEF TruthInv
  <2>2. CASE LiveStep(Daemon \/ Provider)
    BY <1>1, <1>3, <2>1, <2>2, TablesNext DEF LiveStep, TruthInv
  <2>3. CASE UNCHANGED dashVars \/ Page
    <3>1. UNCHANGED <<tick, daemon, link, channel, view>>
      BY <2>3 DEF dashVars, Page, Visit, Poll, Serve, Deliver, viewVars, worldVars, wireVars
    <3>2. TablesInv'
      BY <2>1, <3>1 DEF TablesInv, WorldOK, Now
    <3> QED
      BY <1>1, <1>3, <3>2 DEF TruthInv
  <2> QED
    BY <1>3, <2>2, <2>3 DEF DashNext
<1> QED
  BY <1>2, <1>3

LEMMA TruthIsShown == TruthInv => TablesReplay
<1>1. CASE Hosted
  BY <1>1, DemoTables DEF TruthInv, DemoInv, TablesReplay
<1>2. CASE ~Hosted
  BY <1>2, TablesAreTrue DEF TruthInv
<1> QED
  BY <1>1, <1>2

\* A dashboard that has read its channel has the daemon's services, connections and warnings,
\* and never one of them twice: whatever part of the frames its snapshot already knew, however
\* often it asked for another, after any losses and restarts (daemon.tsx:82-126, ws.rs).
THEOREM TablesStayTrue == DashSpec => []TablesReplay
<1> QED
  BY TruthInitially, TruthSteps, TruthIsShown, PTL DEF DashSpec
=============================================================================
