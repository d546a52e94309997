----------------------------- MODULE GraphLayout -----------------------------
(***************************************************************************)
(* The topology picture of a project: `layout` and the drawing of          *)
(* apps/web/components/ServiceGraph.tsx.                                   *)
(*                                                                         *)
(* A behaviour is one call of `layout` on some services and connections.   *)
(* Its relaxation loop takes one connection a step; the columns it ends    *)
(* with are turned into boxes, arrows and the size of the canvas.          *)
(*                                                                         *)
(* Abstractions.  Services are numbered in the order of their names, the   *)
(* only thing `layout` reads of a name.  A connection is its two ends, as  *)
(* evidence changes the stroke of an arrow and never where it goes.        *)
(***************************************************************************)
EXTENDS Integers, Sequences, FiniteSets

CONSTANTS
  Service,        \* the services there are, numbered in name order
  MaxConnections  \* bound of the model: connections of one picture

ASSUME ServiceAssumption == Service \subseteq Nat /\ IsFiniteSet(Service)
ASSUME ConnectionsAssumption == MaxConnections \in Nat

VARIABLES
  present,      \* the services of the project: the nodes
  connections,  \* what the view knows of calls from and to them, in the order it holds them
  depth,        \* the column of each node
  pass,         \* passes over the connections so far
  next,         \* the connection this pass looks at next
  moved,        \* whether this pass has moved a node
  pc            \* "layering" while the loop runs, then "placed"

layoutVars == <<present, connections, depth, pass, next, moved, pc>>

NODE_WIDTH == 176
NODE_HEIGHT == 62
COLUMN_GAP == 96
ROW_GAP == 24
PADDING == 16
WRAP_COLUMNS == 4

Size == Cardinality(present)

\* The connections both ends of which are nodes; the others are not drawn and move nothing.
Edges == {i \in DOMAIN connections :
            connections[i].source \in present /\ connections[i].target \in present}

\* topology.rs never reports a service that calls itself.
Call == [source : Service, target : Service]
Calls == {c \in Call : c.source # c.target}

Pictures == UNION {[1..m -> Calls] : m \in 0..MaxConnections}

----------------------------------------------------------------------------
LayoutInit ==
  /\ present \in SUBSET Service
  /\ connections \in Pictures
  /\ depth = [s \in present |-> 0]
  /\ pass = 0 /\ next = 1 /\ moved = FALSE
  /\ pc = IF present = {} THEN "placed" ELSE "layering"

\* Fault: a target in the column of its source is left there.
RelaxLoosely(i) ==
  LET c == connections[i] IN
  IF i \in Edges /\ depth[c.target] < depth[c.source]
  THEN depth' = [depth EXCEPT ![c.target] = depth[c.source] + 1] /\ moved' = TRUE
  ELSE UNCHANGED <<depth, moved>>

\* A node that is called goes to the right of its caller.
Relax(i) ==
  LET c == connections[i] IN
  IF i \in Edges /\ depth[c.target] < depth[c.source] + 1
  THEN depth' = [depth EXCEPT ![c.target] = depth[c.source] + 1] /\ moved' = TRUE
  ELSE UNCHANGED <<depth, moved>>

LookAtConnection ==
  /\ pc = "layering" /\ next <= Len(connections)
  /\ Relax(next)
  /\ next' = next + 1
  /\ UNCHANGED <<present, connections, pass, pc>>

\* Fault: one pass is enough when connections come in the order of the calls.
LastPassFirst == TRUE

\* Fault: the loop runs until nothing moves.
LastPassStable == ~moved

\* As many passes as there are nodes are enough for a graph without cycles.
LastPass == ~moved \/ pass + 1 = Size

EndPass ==
  /\ pc = "layering" /\ next > Len(connections)
  /\ pass' = pass + 1 /\ next' = 1 /\ moved' = FALSE
  /\ pc' = IF LastPass THEN "placed" ELSE "layering"
  /\ UNCHANGED <<present, connections, depth>>

LayoutNext == LookAtConnection \/ EndPass

LayoutSpec == LayoutInit /\ [][LayoutNext]_layoutVars

----------------------------------------------------------------------------
(***************************************************************************)
(* From columns to a picture.                                              *)
(***************************************************************************)
\* Isolated services all land in the first column: they are dealt into a board instead.
Wrapped == Edges = {}

Least(a, b) == IF a < b THEN a ELSE b

Before(s, S) == Cardinality({t \in S : t < s})

Column(s) == IF Wrapped THEN Before(s, present) % Least(WRAP_COLUMNS, Size) ELSE depth[s]

Columns == {Column(s) : s \in present}

Bucket(c) == {s \in present : Column(s) = c}

\* Fault: rows are counted over the whole board.
RowOnBoard(s) == Before(s, present) \div Least(WRAP_COLUMNS, Size)

Row(s) == Before(s, Bucket(Column(s)))

X(s) == PADDING + Column(s) * (NODE_WIDTH + COLUMN_GAP)
Y(s) == PADDING + Row(s) * (NODE_HEIGHT + ROW_GAP)

\* The box of a node, from its upper left to its lower right corner.
Box(s) == [x1 |-> X(s), y1 |-> Y(s), x2 |-> X(s) + NODE_WIDTH, y2 |-> Y(s) + NODE_HEIGHT]

\* The arrow of a connection: where it leaves its source and where it enters its target.
Arrow(c) == [x1 |-> X(c.source) + NODE_WIDTH, y1 |-> Y(c.source) + NODE_HEIGHT \div 2,
             x2 |-> X(c.target), y2 |-> Y(c.target) + NODE_HEIGHT \div 2]

\* Fault: room for the columns, none for the gaps between them.
CanvasWidthTight == PADDING * 2 + Cardinality(Columns) * NODE_WIDTH

CanvasWidth ==
  LET columnCount == IF Columns = {} THEN 1 ELSE Cardinality(Columns) IN
  PADDING * 2 + (columnCount - 1) * (NODE_WIDTH + COLUMN_GAP) + NODE_WIDTH

CanvasHeight ==
  LET tallest == CHOOSE n \in 1..(Size + 1) :
        /\ \A c \in Columns : Cardinality(Bucket(c)) <= n
        /\ n = 1 \/ \E c \in Columns : Cardinality(Bucket(c)) = n
  IN PADDING * 2 + tallest * NODE_HEIGHT + (tallest - 1) * ROW_GAP

\* The svg, and its view box; the line of text drawn instead of no services has no size.
Canvas == IF present = {} THEN [width |-> 0, height |-> 0]
          ELSE [width |-> CanvasWidth, height |-> CanvasHeight]

----------------------------------------------------------------------------
(***************************************************************************)
(* Properties.                                                             *)
(***************************************************************************)
\* Type invariant, with the bound of the loop: not even a cycle makes it spin, and no node
\* goes further right than the connections looked at can push it.
LayoutTypeOK ==
  /\ present \in SUBSET Service /\ connections \in Seq(Call)
  /\ pass \in 0..Size /\ next \in 1..(Len(connections) + 1)
  /\ depth \in [present -> 0..(Size * Len(connections))]
  /\ moved \in BOOLEAN /\ pc \in {"layering", "placed"}

\* The reference: L gives each node the length of the longest path of calls that leads to it.
\* There is such an L exactly when no service calls itself through others.
IsLayering(L) ==
  /\ \A i \in Edges : L[connections[i].target] >= L[connections[i].source] + 1
  /\ \A s \in present : L[s] = 0 \/ \E i \in Edges :
       connections[i].target = s /\ L[s] = L[connections[i].source] + 1

Layerings == {L \in [present -> 0..(Size - 1)] : IsLayering(L)}

\* Where no calls form a cycle, the column of a service is the longest path of calls to it,
\* whatever the order the connections are held in: a resnapshot or a reconnect that reorders
\* them moves no node ("callers depend on nodes not moving between ticks").
LongestPath == pc = "placed" => \A L \in Layerings : depth = L

\* Where no calls form a cycle, every arrow runs from left to right, with the whole gap
\* between two columns for its curve ("everything it calls goes to its right").
ArrowsPointRight ==
  pc = "placed" /\ Layerings # {} =>
    \A i \in Edges : LET a == Arrow(connections[i]) IN a.x1 + COLUMN_GAP <= a.x2

OnCanvas(s) == Box(s).x2 + PADDING <= Canvas.width /\ Box(s).y2 + PADDING <= Canvas.height

\* Where no calls form a cycle, no column is empty, so that the width computed from their
\* number has room for the last of them, and the height for the tallest.  (The passes push the
\* services of a cycle along, past columns nobody is in.)
PictureFits == pc = "placed" /\ Layerings # {} => \A s \in present : OnCanvas(s)

\* No two boxes overlap, cycles or not.
BoxesAreApart ==
  pc = "placed" => \A s, t \in present : s # t =>
    \/ Box(s).x2 < Box(t).x1 \/ Box(t).x2 < Box(s).x1
    \/ Box(s).y2 < Box(t).y1 \/ Box(t).y2 < Box(s).y1
=============================================================================
