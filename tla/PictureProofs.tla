---------------------------- MODULE PictureProofs -----------------------------
(***************************************************************************)
(* Theorems of what the pages draw: GraphLayout, for any number of         *)
(* services and connections; SeriesChart, for any samples and widths;      *)
(* ProjectCard, for any loads; and Labels.                                 *)
(*                                                                         *)
(* Topology: the invariant compares the columns with a layering L, if      *)
(* there is one: no column is beyond L, and after so many passes every     *)
(* service that L puts in one of as many first columns has arrived.  The   *)
(* canvas is then wide and high enough because no column of L is empty.    *)
(*                                                                         *)
(* Charts: a pointer is only there over a plot, and its unit is not zero.  *)
(* The rest is arithmetic: the integer division picks the sample whose     *)
(* place is nearest, also after the fraction is reduced to the pixels of   *)
(* the wrapper, and a finite series has a largest value.                   *)
(*                                                                         *)
(* Cards: a place in an order is the number of those before it, and a sum  *)
(* of bytes the number of pairs of a service and one of its bytes; neither *)
(* needs an induction.  Labels: rounding is known by its bounds.           *)
(***************************************************************************)
EXTENDS GraphLayout, SeriesChart, ProjectCard, Labels, FiniteSetTheorems, NaturalsInduction, WellFoundedInduction, TLAPS

Source(i) == connections[i].source
Target(i) == connections[i].target

LoopOK ==
  /\ present \in SUBSET Service /\ connections \in Seq(Call)
  /\ pass \in Nat /\ next \in 1..(Len(connections) + 1)
  /\ depth \in [present -> Nat] /\ moved \in BOOLEAN
  /\ \/ pc = "layering" /\ pass < Size
     \/ pc = "placed" /\ pass <= Size /\ next = 1

\* A step of the loop pushes a node one column further than any node was.
Pushed == \A s \in present : depth[s] <= pass * Len(connections) + next - 1

\* A pass that has moved nothing leaves the connections it has looked at satisfied.
Quiet == ~moved => \A i \in Edges : i < next => depth[Target(i)] >= depth[Source(i)] + 1

\* No node is beyond its column in L; the first ones have arrived; and the connections of this
\* pass have pushed their targets.
Below(L) == \A s \in present : depth[s] <= L[s]
Arrived(L) == \A s \in present : L[s] <= pass => depth[s] = L[s]
Told(L) ==
  \A i \in Edges : i < next /\ L[Source(i)] <= pass => depth[Target(i)] >= L[Source(i)] + 1

Tracks(L) == Below(L) /\ Arrived(L) /\ Told(L) /\ (pc = "placed" => depth = L)

IInv == LoopOK /\ Pushed /\ Quiet /\ \A L \in Layerings : Tracks(L)

----------------------------------------------------------------------------
\* Of some naturals one is the least.
LEMMA LeastNatural ==
  ASSUME NEW T \in SUBSET Nat, T # {}
  PROVE  \E x \in T : \A y \in T : x <= y
<1> DEFINE R == OpToRel(<, Nat)
<1>1. PICK x \in T : \A y \in T : ~ (<<y, x>> \in R)
  <2>1. IsWellFoundedOn(R, Nat)
    BY NatLessThanWellFounded
  <2> HIDE DEF R
  <2> QED
    BY <2>1, WFMin
<1>2. \A y \in T : ~ (y < x)
  BY <1>1 DEF OpToRel
<1> QED
  BY <1>2

LEMMA FewerPasses ==
  ASSUME NEW a \in Nat, NEW b \in Nat, NEW n \in Nat, a <= b
  PROVE  a * n <= b * n /\ (a + 1) * n = a * n + n /\ a * n \in Nat /\ b * n \in Nat
<1>1. (b - a) \in Nat
  OBVIOUS
<1>2. (b - a) * n \in Nat
  BY <1>1
<1>3. (b - a) * n = b * n - a * n
  OBVIOUS
<1> QED
  BY <1>2, <1>3

LEMMA PresentFinite ==
  ASSUME present \in SUBSET Service
  PROVE  IsFiniteSet(present) /\ Size \in Nat /\ (Size = 0 <=> present = {})
BY ServiceAssumption, FS_Subset, FS_CardinalityType, FS_EmptySet DEF Size

LEMMA EdgeEnds ==
  ASSUME LoopOK, NEW i \in Edges
  PROVE  Source(i) \in present /\ Target(i) \in present /\ i \in 1..Len(connections)
BY DEF LoopOK, Edges, Source, Target

LEMMA LayeringFacts ==
  ASSUME NEW L \in Layerings, LoopOK
  PROVE  /\ L \in [present -> Nat]
         /\ \A s \in present : L[s] <= Size - 1
         /\ \A i \in Edges : L[Target(i)] >= L[Source(i)] + 1
         /\ \A s \in present : L[s] = 0 \/ \E i \in Edges : Target(i) = s /\ L[s] = L[Source(i)] + 1
<1>1. Size \in Nat
  BY PresentFinite DEF LoopOK
<1>2. L \in [present -> 0..(Size - 1)] /\ IsLayering(L)
  BY DEF Layerings
<1>3. L \in [present -> Nat] /\ \A s \in present : L[s] <= Size - 1
  BY <1>1, <1>2
<1> QED
  BY <1>2, <1>3 DEF IsLayering, Source, Target

----------------------------------------------------------------------------
LEMMA Initially == LayoutInit => IInv
<1> SUFFICES ASSUME LayoutInit PROVE IInv
  OBVIOUS
<1>1. present \in SUBSET Service /\ depth = [s \in present |-> 0] /\ pass = 0 /\ next = 1
  BY DEF LayoutInit
<1>2. connections \in Seq(Call)
  BY ConnectionsAssumption DEF LayoutInit, Pictures, Calls
<1>3. LoopOK
  <2>1. Size \in Nat /\ (Size = 0 <=> present = {}) /\ Len(connections) \in Nat
      BY <1>1, <1>2, PresentFinite
  <2>2. (pc = "layering" /\ 0 < Size) \/ (pc = "placed" /\ 0 <= Size)
    <3>1. (present = {} /\ pc = "placed") \/ (present # {} /\ pc = "layering")
      BY DEF LayoutInit
    <3> QED
      BY <2>1, <3>1
  <2>3. depth \in [present -> Nat]
    BY <1>1
  <2>4. moved \in BOOLEAN
    BY DEF LayoutInit
  <2>5. next \in 1..(Len(connections) + 1)
    BY <1>1, <2>1
  <2> QED
    BY <1>1, <1>2, <2>2, <2>3, <2>4, <2>5 DEF LoopOK
<1>4. Pushed
  BY <1>1, <1>3 DEF Pushed, LoopOK
<1>5. ASSUME NEW i \in Edges PROVE ~(i < next)
  BY <1>1, <1>3, EdgeEnds
<1>6. Quiet
  BY <1>5 DEF Quiet
<1>7. ASSUME NEW L \in Layerings PROVE Tracks(L)
  <2>1. L \in [present -> Nat]
    BY <1>3, LayeringFacts
  <2>2. Below(L) /\ Arrived(L)
    BY <1>1, <2>1 DEF Below, Arrived
  <2>3. Told(L)
    BY <1>5 DEF Told
  <2>4. ASSUME pc = "placed" PROVE depth = L
    <3>1. present = {}
      BY <2>4 DEF LayoutInit
    <3> QED
      BY <1>1, <2>1, <3>1
  <2> QED
    BY <2>2, <2>3, <2>4 DEF Tracks
<1> QED
  BY <1>3, <1>4, <1>6, <1>7 DEF IInv

----------------------------------------------------------------------------
\* What one look at a connection does to the columns.
Grown(i) ==
  /\ depth' \in [present -> Nat]
  /\ \A s \in present : depth'[s] >= depth[s]
  /\ \A s \in present : depth'[s] = depth[s] \/ (i \in Edges /\ s = Target(i) /\ moved'
                                                 /\ depth'[s] = depth[Source(i)] + 1
                                                 /\ depth[s] < depth[Source(i)] + 1)
  /\ i \in Edges => depth'[Target(i)] >= depth[Source(i)] + 1
  /\ moved' \in BOOLEAN /\ (moved => moved')
  /\ ~moved' => depth' = depth

LEMMA RelaxGrows ==
  ASSUME LoopOK, NEW i \in 1..Len(connections), Relax(i)
  PROVE  Grown(i)
<1>1. depth \in [present -> Nat] /\ moved \in BOOLEAN
  BY DEF LoopOK
<1>2. CASE i \in Edges /\ depth[Target(i)] < depth[Source(i)] + 1
  <2>1. depth' = [depth EXCEPT ![Target(i)] = depth[Source(i)] + 1] /\ moved' = TRUE
    BY <1>2 DEF Relax, Source, Target
  <2>2. Source(i) \in present /\ Target(i) \in present
    BY <1>2, EdgeEnds
  <2>3. depth[Source(i)] \in Nat /\ depth[Target(i)] \in Nat
    BY <1>1, <2>2
  <2> QED
    BY <1>1, <1>2, <2>1, <2>2, <2>3 DEF Grown
<1>3. CASE ~(i \in Edges /\ depth[Target(i)] < depth[Source(i)] + 1)
  <2>1. depth' = depth /\ moved' = moved
    BY <1>3 DEF Relax, Source, Target
  <2>2. ASSUME i \in Edges PROVE depth[Target(i)] >= depth[Source(i)] + 1
    <3>1. depth[Source(i)] \in Nat /\ depth[Target(i)] \in Nat
      BY <1>1, <2>2, EdgeEnds
    <3> QED
      BY <1>3, <2>2, <3>1
  <2> QED
    BY <1>1, <2>1, <2>2 DEF Grown
<1> QED
  BY <1>2, <1>3

LEMMA LookKeepsIInv ==
  ASSUME IInv, LookAtConnection
  PROVE  IInv'
<1>1. LoopOK /\ Pushed /\ Quiet
  BY DEF IInv
<1>2. /\ pc = "layering" /\ next \in 1..Len(connections) /\ next' = next + 1 /\ Relax(next)
      /\ UNCHANGED <<present, connections, pass, pc>>
  BY <1>1 DEF LookAtConnection, LoopOK
<1>3. Grown(next)
  BY <1>1, <1>2, RelaxGrows
<1>4. Edges' = Edges /\ Size' = Size /\ Layerings' = Layerings
  BY <1>2 DEF Edges, Size, Layerings, IsLayering
<1>5. \A i \in Edges : Source(i)' = Source(i) /\ Target(i)' = Target(i)
  BY <1>2 DEF Source, Target
<1>6. \A i \in Edges : Source(i) \in present /\ Target(i) \in present /\ i \in Nat
  BY <1>1, EdgeEnds
<1>7. depth \in [present -> Nat] /\ depth' \in [present -> Nat] /\ pass \in Nat
  BY <1>1, <1>3 DEF LoopOK, Grown
<1>8. LoopOK'
  BY <1>1, <1>2, <1>3, <1>4 DEF LoopOK, Grown
<1>9. Pushed'
  <2> DEFINE far == pass * Len(connections)
  <2>1. far \in Nat
    BY <1>1, FewerPasses DEF LoopOK
  <2>2. \A s \in present : depth[s] <= far + next - 1
    BY <1>1 DEF Pushed
  <2> HIDE DEF far
  <2>3. \A s \in present : depth'[s] <= far + next
    <3> TAKE s \in present
    <3>1. CASE depth'[s] = depth[s]
      BY <1>2, <1>7, <2>1, <2>2, <3>1
    <3>2. CASE next \in Edges /\ depth'[s] = depth[Source(next)] + 1
      <4>1. depth[Source(next)] <= far + next - 1 /\ depth[Source(next)] \in Nat
        BY <1>6, <1>7, <2>2, <3>2
      <4> QED
        BY <1>2, <2>1, <3>2, <4>1
    <3> QED
      BY <1>3, <3>1, <3>2 DEF Grown
  <2>4. \A s \in present : depth'[s] <= far + (next + 1) - 1
    BY <1>2, <1>7, <2>1, <2>3
  <2> QED
    BY <1>2, <2>4 DEF Pushed, far
<1>10. Quiet'
  <2> SUFFICES ASSUME ~moved', NEW i \in Edges, i < next + 1
               PROVE  depth'[Target(i)] >= depth'[Source(i)] + 1
    BY <1>2, <1>4, <1>5 DEF Quiet
  <2>1. ~moved /\ depth' = depth
    BY <1>3 DEF Grown
  <2>2. CASE i < next
    BY <1>1, <2>1, <2>2 DEF Quiet
  <2>3. CASE i = next
    BY <1>3, <2>1, <2>3 DEF Grown
  <2> QED
    BY <1>2, <1>6, <2>2, <2>3
<1>11. ASSUME NEW L \in Layerings PROVE Tracks(L)'
  <2>1. /\ L \in [present -> Nat]
        /\ \A i \in Edges : L[Target(i)] >= L[Source(i)] + 1
    BY <1>1, LayeringFacts
  <2>2. Below(L) /\ Arrived(L) /\ Told(L)
    BY <1>11 DEF IInv, Tracks
  <2>3. Below(L)'
    <3> SUFFICES ASSUME NEW s \in present PROVE depth'[s] <= L[s]
      BY <1>2 DEF Below
    <3>1. CASE depth'[s] = depth[s]
      BY <2>2, <3>1 DEF Below
    <3>2. CASE next \in Edges /\ s = Target(next) /\ depth'[s] = depth[Source(next)] + 1
      <4>1. depth[Source(next)] <= L[Source(next)] /\ Source(next) \in present
        BY <1>6, <2>2, <3>2 DEF Below
      <4>2. depth[Source(next)] \in Nat /\ L[Source(next)] \in Nat /\ L[s] \in Nat
        BY <1>7, <2>1, <4>1
      <4>3. L[s] >= L[Source(next)] + 1
        BY <2>1, <3>2
      <4> QED
        BY <3>2, <4>1, <4>2, <4>3
    <3> QED
      BY <1>3, <3>1, <3>2 DEF Grown
  <2>4. Arrived(L)'
    <3> SUFFICES ASSUME NEW s \in present, L[s] <= pass PROVE depth'[s] = L[s]
      BY <1>2 DEF Arrived
    <3>1. depth[s] = L[s]
      BY <2>2 DEF Arrived
    <3>2. depth'[s] >= depth[s] /\ depth'[s] <= L[s]
      BY <1>2, <1>3, <2>3 DEF Grown, Below
    <3> QED
      BY <1>7, <2>1, <3>1, <3>2
  <2>5. Told(L)'
    <3> SUFFICES ASSUME NEW i \in Edges, i < next + 1, L[Source(i)] <= pass
                 PROVE  depth'[Target(i)] >= L[Source(i)] + 1
      BY <1>2, <1>4, <1>5 DEF Told
    <3>1. /\ depth'[Target(i)] >= depth[Target(i)] /\ L[Source(i)] \in Nat
          /\ depth'[Target(i)] \in Nat /\ depth[Target(i)] \in Nat
      BY <1>3, <1>6, <1>7, <2>1 DEF Grown
    <3>2. CASE i < next
      <4>1. depth[Target(i)] >= L[Source(i)] + 1
        BY <2>2, <3>2 DEF Told
      <4> QED
        BY <3>1, <4>1
    <3>3. CASE i = next
      <4>1. depth[Source(i)] = L[Source(i)]
        BY <1>6, <2>2 DEF Arrived
      <4> QED
        BY <1>3, <3>3, <4>1 DEF Grown
    <3> QED
      BY <1>2, <1>6, <3>2, <3>3
  <2>6. ~(pc' = "placed")
    BY <1>2
  <2> QED
    BY <2>3, <2>4, <2>5, <2>6 DEF Tracks
<1> QED
  BY <1>4, <1>8, <1>9, <1>10, <1>11 DEF IInv

----------------------------------------------------------------------------
\* Columns that satisfy every connection are not short of a layering.
LEMMA SatisfiedReaches ==
  ASSUME LoopOK, NEW L \in Layerings, Below(L),
         \A i \in Edges : depth[Target(i)] >= depth[Source(i)] + 1
  PROVE  depth = L
<1>1. /\ L \in [present -> Nat] /\ depth \in [present -> Nat]
      /\ \A s \in present : L[s] = 0 \/ \E i \in Edges : Target(i) = s /\ L[s] = L[Source(i)] + 1
  BY LayeringFacts DEF LoopOK
<1> DEFINE short == {s \in present : depth[s] < L[s]}
<1>2. ASSUME short # {} PROVE FALSE
  <2> DEFINE T == {L[s] : s \in short}
  <2>1. PICK x \in T : \A y \in T : x <= y
    <3>1. T \in SUBSET Nat /\ T # {}
      BY <1>1, <1>2
    <3> QED
      BY <3>1, LeastNatural
  <2>2. PICK s \in short : x = L[s]
    BY <2>1
  <2>3. s \in present /\ L[s] # 0 /\ L[s] \in Nat /\ depth[s] \in Nat /\ depth[s] < L[s]
    BY <1>1, <2>2
  <2>4. PICK i \in Edges : Target(i) = s /\ L[s] = L[Source(i)] + 1
    BY <1>1, <2>3
  <2>5. Source(i) \in present
    BY EdgeEnds, <2>4
  <2>6. L[Source(i)] \in Nat /\ depth[Source(i)] \in Nat /\ depth[Source(i)] <= L[Source(i)]
    BY <1>1, <2>5 DEF Below
  <2>7. Source(i) \notin short
    <3>1. SUFFICES ASSUME Source(i) \in short PROVE FALSE
      OBVIOUS
    <3>2. L[Source(i)] \in T
      BY <3>1
    <3> QED
      BY <2>1, <2>2, <2>3, <2>4, <2>6, <3>2
  <2>8. depth[Source(i)] = L[Source(i)]
    BY <2>5, <2>6, <2>7
  <2>9. depth[s] >= depth[Source(i)] + 1
    BY <2>4
  <2> QED
    BY <2>3, <2>4, <2>6, <2>8, <2>9
<1>3. \A s \in present : depth[s] = L[s]
  BY <1>1, <1>2 DEF Below
<1> QED
  BY <1>1, <1>3

LEMMA EndPassKeepsIInv ==
  ASSUME IInv, EndPass
  PROVE  IInv'
<1>1. LoopOK /\ Pushed /\ Quiet
  BY DEF IInv
<1>2. /\ pc = "layering" /\ next = Len(connections) + 1 /\ pass' = pass + 1 /\ next' = 1
      /\ moved' = FALSE /\ pc' = IF LastPass THEN "placed" ELSE "layering"
      /\ UNCHANGED <<present, connections, depth>>
  BY <1>1 DEF EndPass, LoopOK
<1>3. Edges' = Edges /\ Size' = Size /\ Layerings' = Layerings
  BY <1>2 DEF Edges, Size, Layerings, IsLayering
<1>4. \A i \in Edges : Source(i)' = Source(i) /\ Target(i)' = Target(i)
  BY <1>2 DEF Source, Target
<1>5. /\ \A i \in Edges : /\ Source(i) \in present /\ Target(i) \in present
                          /\ i \in Nat /\ i >= 1 /\ i < next
      /\ pass \in Nat /\ pass < Size /\ Size \in Nat /\ depth \in [present -> Nat]
      /\ Len(connections) \in Nat
  BY <1>1, <1>2, EdgeEnds, PresentFinite DEF LoopOK
<1>6. LoopOK'
  <2>1. pc' = "placed" \/ (pc' = "layering" /\ pass' < Size)
    BY <1>2, <1>5 DEF LastPass
  <2>2. pass' \in Nat /\ pass' <= Size /\ next' \in 1..(Len(connections) + 1)
    BY <1>2, <1>5
  <2>3. depth' \in [present -> Nat] /\ moved' \in BOOLEAN /\ connections \in Seq(Call)
    BY <1>1, <1>2, <1>5 DEF LoopOK
  <2> QED
    BY <1>1, <1>2, <1>3, <2>1, <2>2, <2>3 DEF LoopOK
<1>7. Pushed'
  <2>1. (pass + 1) * Len(connections) = pass * Len(connections) + Len(connections)
    BY <1>5, FewerPasses
  <2>2. \A s \in present : depth[s] <= pass * Len(connections) + Len(connections)
    BY <1>1, <1>2, <1>5, FewerPasses DEF Pushed
  <2>3. \A s \in present : depth[s] <= (pass + 1) * Len(connections)
    BY <2>1, <2>2
  <2>4. (pass + 1) * Len(connections) \in Nat
    BY <1>5
  <2> QED
    BY <1>2, <1>5, <2>3, <2>4 DEF Pushed
<1>8. \A i \in Edges : ~(i < next')
  BY <1>2, <1>5
<1>9. Quiet'
  BY <1>3, <1>8 DEF Quiet
<1>10. ASSUME NEW L \in Layerings PROVE Tracks(L)'
  <2>1. /\ L \in [present -> Nat] /\ \A s \in present : L[s] <= Size - 1
        /\ \A s \in present : L[s] = 0 \/ \E i \in Edges : Target(i) = s /\ L[s] = L[Source(i)] + 1
    BY <1>1, LayeringFacts
  <2>2. Below(L) /\ Arrived(L) /\ Told(L)
    BY <1>10 DEF IInv, Tracks
  <2>3. Below(L)'
    BY <1>2, <2>2 DEF Below
  <2>4. \A s \in present : L[s] <= pass + 1 => depth[s] = L[s]
    <3> SUFFICES ASSUME NEW s \in present, L[s] <= pass + 1 PROVE depth[s] = L[s]
      OBVIOUS
    <3>1. depth[s] <= L[s] /\ depth[s] \in Nat /\ L[s] \in Nat
      BY <1>5, <2>1, <2>2 DEF Below
    <3>2. CASE L[s] = 0
      BY <3>1, <3>2
    <3>3. CASE \E i \in Edges : Target(i) = s /\ L[s] = L[Source(i)] + 1
      <4>1. PICK i \in Edges : Target(i) = s /\ L[s] = L[Source(i)] + 1
        BY <3>3
      <4>2. L[Source(i)] \in Nat /\ i < next
        BY <1>5, <2>1
      <4>3. depth[s] >= L[Source(i)] + 1
        BY <1>5, <2>2, <4>1, <4>2 DEF Told
      <4> QED
        BY <3>1, <4>1, <4>2, <4>3
    <3> QED
      BY <2>1, <3>2, <3>3
  <2>5. Arrived(L)'
    BY <1>2, <2>4 DEF Arrived
  <2>6. Told(L)'
    BY <1>3, <1>8 DEF Told
  <2>7. ASSUME LastPass PROVE depth = L
    <3>1. CASE ~moved
      <4>1. \A i \in Edges : depth[Target(i)] >= depth[Source(i)] + 1
        BY <1>1, <1>5, <3>1 DEF Quiet
      <4> QED
        BY <1>1, <2>2, <4>1, SatisfiedReaches
    <3>2. CASE pass + 1 = Size
      <4>1. \A s \in present : L[s] <= pass + 1
        BY <1>5, <2>1, <3>2
      <4> QED
        BY <1>5, <2>1, <2>4, <4>1
    <3> QED
      BY <2>7, <3>1, <3>2 DEF LastPass
  <2>8. pc' = "placed" => depth' = L
    BY <1>2, <2>7
  <2> QED
    BY <2>3, <2>5, <2>6, <2>8 DEF Tracks
<1> QED
  BY <1>3, <1>6, <1>7, <1>9, <1>10 DEF IInv

LEMMA Inductive == IInv /\ [LayoutNext]_layoutVars => IInv'
<1> SUFFICES ASSUME IInv, [LayoutNext]_layoutVars PROVE IInv'
  OBVIOUS
<1>1. CASE LookAtConnection
  BY <1>1, LookKeepsIInv
<1>2. CASE EndPass
  BY <1>2, EndPassKeepsIInv
<1>3. CASE UNCHANGED layoutVars
  <2>1. UNCHANGED <<present, connections, depth, pass, next, moved, pc>>
    BY <1>3 DEF layoutVars
  <2>2. Edges' = Edges /\ Size' = Size /\ Layerings' = Layerings
    BY <2>1 DEF Edges, Size, Layerings, IsLayering
  <2>3. \A i : Source(i)' = Source(i) /\ Target(i)' = Target(i)
    BY <2>1 DEF Source, Target
  <2>4. LoopOK' /\ Pushed' /\ Quiet'
    BY <2>1, <2>2, <2>3 DEF IInv, LoopOK, Pushed, Quiet
  <2>5. \A L \in Layerings : Tracks(L)'
    BY <2>1, <2>2, <2>3 DEF IInv, Tracks, Below, Arrived, Told
  <2> QED
    BY <2>2, <2>4, <2>5 DEF IInv
<1> QED
  BY <1>1, <1>2, <1>3 DEF LayoutNext

LEMMA Invariance == LayoutSpec => []IInv
BY Initially, Inductive, PTL DEF LayoutSpec

----------------------------------------------------------------------------
\* The loop ends after at most as many passes as there are services, and pushes no service
\* further right than that many passes over the connections can, cycles or not.
THEOREM LoopIsBounded == LayoutSpec => []LayoutTypeOK
<1>1. ASSUME IInv PROVE LayoutTypeOK
  <2>1. /\ pass \in Nat /\ pass <= Size /\ Size \in Nat /\ Len(connections) \in Nat
        /\ depth \in [present -> Nat] /\ next \in 1..(Len(connections) + 1)
    BY <1>1, PresentFinite DEF IInv, LoopOK
  <2>2. \A s \in present : depth[s] <= Size * Len(connections)
    <3>1. CASE pass < Size
      <4>1. (pass + 1) * Len(connections) <= Size * Len(connections)
        BY <2>1, <3>1, FewerPasses
      <4>2. (pass + 1) * Len(connections) = pass * Len(connections) + Len(connections)
        BY <2>1, FewerPasses
      <4>3. pass * Len(connections) \in Nat /\ Size * Len(connections) \in Nat
        BY <2>1
      <4>4. \A s \in present : depth[s] <= pass * Len(connections) + next - 1
        BY <1>1 DEF IInv, Pushed
      <4> DEFINE a == pass * Len(connections)
                 b == Size * Len(connections)
      <4>5. a + Len(connections) <= b /\ a \in Nat /\ b \in Nat
        BY <4>1, <4>2, <4>3
      <4>6. \A s \in present : depth[s] <= a + next - 1
        BY <4>4
      <4> HIDE DEF a, b
      <4>7. \A s \in present : depth[s] <= b
        BY <2>1, <4>5, <4>6
      <4> QED
        BY <4>7 DEF b
    <3>2. CASE pass = Size /\ next = 1
      <4>1. pass * Len(connections) \in Nat
        BY <2>1
      <4> QED
        BY <1>1, <2>1, <3>2, <4>1 DEF IInv, Pushed
    <3> QED
      BY <1>1, <2>1, <3>1, <3>2 DEF IInv, LoopOK
  <2>3. Size * Len(connections) \in Nat
    BY <2>1
  <2>4. depth \in [present -> 0..(Size * Len(connections))]
    BY <2>1, <2>2, <2>3
  <2> QED
    BY <1>1, <2>1, <2>4 DEF IInv, LoopOK, LayoutTypeOK
<1> QED
  BY <1>1, Invariance, PTL

\* Without a cycle a service ends in the column of the longest path of calls to it.
THEOREM ColumnsAreLongestPaths == LayoutSpec => []LongestPath
<1>1. IInv => LongestPath
  BY DEF IInv, Tracks, LongestPath
<1> QED
  BY <1>1, Invariance, PTL

\* Without a cycle every arrow points to the right, across a whole gap.
THEOREM ArrowsGoRight == LayoutSpec => []ArrowsPointRight
<1>1. ASSUME IInv, pc = "placed", Layerings # {}, NEW i \in Edges
      PROVE  Arrow(connections[i]).x1 + COLUMN_GAP <= Arrow(connections[i]).x2
  <2>1. PICK L \in Layerings : TRUE
    BY <1>1
  <2>2. depth = L /\ LoopOK
    BY <1>1, <2>1 DEF IInv, Tracks
  <2>3. /\ depth \in [present -> Nat] /\ depth[Target(i)] >= depth[Source(i)] + 1
        /\ Source(i) \in present /\ Target(i) \in present
    BY <2>1, <2>2, LayeringFacts, EdgeEnds
  <2>4. Column(Source(i)) = depth[Source(i)] /\ Column(Target(i)) = depth[Target(i)]
    BY DEF Column, Wrapped
  <2> QED
    BY <2>3, <2>4 DEF Arrow, X, Source, Target, NODE_WIDTH, COLUMN_GAP, PADDING
<1>2. IInv => ArrowsPointRight
  BY <1>1 DEF ArrowsPointRight
<1> QED
  BY <1>2, Invariance, PTL

----------------------------------------------------------------------------
LEMMA BeforeGrows ==
  ASSUME NEW B, IsFiniteSet(B), B \subseteq Nat, NEW s \in B, NEW t \in B, s < t
  PROVE  Before(s, B) \in Nat /\ Before(t, B) \in Nat /\ Before(s, B) < Before(t, B)
<1> DEFINE S == {u \in B : u < s}
           T == {u \in B : u < t}
<1>1. IsFiniteSet(S) /\ IsFiniteSet(T) /\ Cardinality(S) \in Nat /\ Cardinality(T) \in Nat
  BY FS_Subset, FS_CardinalityType
<1>2. S \cup {s} \subseteq T /\ s \notin S
  <2>1. \A u \in B : u < s => u < t
    OBVIOUS
  <2>2. ~(s < s)
    OBVIOUS
  <2> QED
    BY <2>1, <2>2
<1>3. Cardinality(S \cup {s}) = Cardinality(S) + 1
  BY <1>1, <1>2, FS_AddElement
<1>4. Cardinality(S \cup {s}) <= Cardinality(T)
  BY <1>1, <1>2, FS_Subset
<1> QED
  BY <1>1, <1>3, <1>4 DEF Before

LEMMA ColumnType ==
  ASSUME LoopOK, NEW s \in present
  PROVE  Column(s) \in Nat
<1>1. IsFiniteSet(present) /\ Size \in Nat /\ Size # 0
  BY PresentFinite DEF LoopOK
<1>2. Before(s, present) \in Nat
  BY <1>1, FS_Subset, FS_CardinalityType DEF Before
<1>3. Least(WRAP_COLUMNS, Size) \in Nat /\ Least(WRAP_COLUMNS, Size) > 0
  BY <1>1 DEF Least, WRAP_COLUMNS
<1>4. Before(s, present) % Least(WRAP_COLUMNS, Size) \in Nat
  BY <1>2, <1>3
<1> QED
  BY <1>4 DEF Column, LoopOK

LEMMA TwoBoxesApart ==
  ASSUME LoopOK, NEW s \in present, NEW t \in present, s < t
  PROVE  \/ Box(s).x2 < Box(t).x1 \/ Box(t).x2 < Box(s).x1
         \/ Box(s).y2 < Box(t).y1 \/ Box(t).y2 < Box(s).y1
<1>1. Column(s) \in Nat /\ Column(t) \in Nat
  BY ColumnType
<1>2. CASE Column(s) # Column(t)
  BY <1>1, <1>2 DEF Box, X, NODE_WIDTH, COLUMN_GAP, PADDING
<1>3. CASE Column(s) = Column(t)
  <2> DEFINE B == Bucket(Column(s))
  <2>1. IsFiniteSet(B) /\ B \subseteq Nat /\ s \in B /\ t \in B
    <3>1. IsFiniteSet(present) /\ present \subseteq Nat
      BY PresentFinite, ServiceAssumption DEF LoopOK
    <3> QED
      BY <1>3, <3>1, FS_Subset DEF Bucket
  <2> HIDE DEF B
  <2>2. Before(s, B) \in Nat /\ Before(t, B) \in Nat /\ Before(s, B) < Before(t, B)
    BY <2>1, BeforeGrows
  <2>3. Row(s) \in Nat /\ Row(t) \in Nat /\ Row(s) < Row(t)
    BY <1>3, <2>2 DEF Row, B
  <2> QED
    BY <2>3 DEF Box, Y, NODE_HEIGHT, ROW_GAP, PADDING
<1> QED
  BY <1>2, <1>3

\* No two boxes of a picture overlap, cycles or not.
THEOREM BoxesStayApart == LayoutSpec => []BoxesAreApart
<1>1. ASSUME LoopOK, NEW s \in present, NEW t \in present, s # t
      PROVE  \/ Box(s).x2 < Box(t).x1 \/ Box(t).x2 < Box(s).x1
             \/ Box(s).y2 < Box(t).y1 \/ Box(t).y2 < Box(s).y1
  <2>1. s < t \/ t < s
    BY <1>1, ServiceAssumption DEF LoopOK
  <2> QED
    BY <1>1, <2>1, TwoBoxesApart
<1>2. IInv => BoxesAreApart
  BY <1>1 DEF IInv, BoxesAreApart
<1> QED
  BY <1>2, Invariance, PTL
----------------------------------------------------------------------------
(***************************************************************************)
(* The canvas.  No column before that of a node is empty: on the board     *)
(* because it is dealt, in a layering because the longest path of calls to *)
(* a service passes through all columns before.                            *)
(***************************************************************************)
LEMMA UpTo ==
  ASSUME NEW n \in Nat
  PROVE  IsFiniteSet(0..n) /\ Cardinality(0..n) = n + 1
<1>1. 0 \in Int /\ n \in Int /\ ~ (0 > n)
  OBVIOUS
<1> QED
  BY <1>1, FS_Interval

\* A node is counted before as many others as there are.
LEMMA BeforeIsPlace ==
  ASSUME NEW B, IsFiniteSet(B), B \subseteq Nat, NEW s \in B
  PROVE  Before(s, B) \in Nat /\ Before(s, B) < Cardinality(B) /\ Cardinality(B) \in Nat
<1> DEFINE S == {u \in B : u < s}
<1>1. IsFiniteSet(S) /\ Cardinality(S) \in Nat /\ Cardinality(B) \in Nat
  BY FS_Subset, FS_CardinalityType
<1>2. S \in SUBSET B /\ s \notin S
  BY DEF S
<1>3. Cardinality(S) <= Cardinality(B) /\ (Cardinality(B) = Cardinality(S) => B = S)
  BY <1>2, FS_Subset
<1> QED
  BY <1>1, <1>2, <1>3 DEF Before

LEMMA BeforeIsEveryPlace ==
  ASSUME NEW B, IsFiniteSet(B), B \subseteq Nat, NEW c \in Nat, c < Cardinality(B)
  PROVE  \E s \in B : Before(s, B) = c
<1> DEFINE n == Cardinality(B)
           P == 0..(n - 1)
           f == [s \in B |-> Before(s, B)]
<1>1. n \in Nat /\ n - 1 \in Nat
  BY FS_CardinalityType
<1>2. IsFiniteSet(P) /\ Cardinality(P) = n
  BY <1>1, UpTo
<1>3. f \in [B -> P]
  <2>1. \A s \in B : Before(s, B) \in Nat /\ Before(s, B) < n
    BY BeforeIsPlace
  <2> HIDE DEF n
  <2>2. \A s \in B : Before(s, B) \in P
    BY <1>1, <2>1
  <2> QED
    BY <2>2
<1>4. ASSUME NEW s \in B, NEW t \in B, s # t PROVE f[s] # f[t]
  <2>1. CASE s < t
    <3>1. Before(s, B) \in Nat /\ Before(t, B) \in Nat /\ Before(s, B) < Before(t, B)
      BY <2>1, BeforeGrows
    <3> QED
      BY <3>1
  <2>2. CASE t < s
    <3>1. Before(s, B) \in Nat /\ Before(t, B) \in Nat /\ Before(t, B) < Before(s, B)
      BY <2>2, BeforeGrows
    <3> QED
      BY <3>1
  <2> QED
    BY <1>4, <2>1, <2>2
<1> HIDE DEF f, P
<1>5. f \in Injection(B, P)
  BY <1>3, <1>4 DEF Injection, IsInjective
<1>6. f \in Surjection(B, P)
  BY <1>2, <1>5, FS_Injection
<1>7. c \in P
  BY <1>1 DEF P
<1> QED
  BY <1>6, <1>7 DEF Surjection, f

LEMMA BoardIsFull ==
  ASSUME LoopOK, Wrapped, NEW s \in present, NEW c \in 0..Column(s)
  PROVE  c \in Columns
<1> DEFINE k == Least(WRAP_COLUMNS, Size)
<1>1. IsFiniteSet(present) /\ present \subseteq Nat /\ Size \in Nat /\ Size # 0
  BY PresentFinite, ServiceAssumption DEF LoopOK
<1>2. k \in 1..4 /\ k <= Size
  BY <1>1 DEF Least, WRAP_COLUMNS
<1>3. \A t \in present : Column(t) = Before(t, present) % k /\ Before(t, present) \in Nat
  BY <1>1, BeforeIsPlace DEF Column
<1> HIDE DEF k
<1>4. \A n \in Nat : n % k \in 0..(k - 1)
  BY <1>2
<1>5. c \in Nat /\ c < k
  BY <1>2, <1>3, <1>4
<1>6. PICK t \in present : Before(t, present) = c
  <2>1. Cardinality(present) = Size
    BY DEF Size
  <2>2. c < Cardinality(present)
    BY <1>1, <1>2, <1>5, <2>1
  <2> QED
    BY <1>1, <1>5, <2>2, BeforeIsEveryPlace
<1>7. c % k = c
  BY <1>2, <1>5
<1> QED
  BY <1>3, <1>6, <1>7 DEF Columns

LEMMA LayersAreFull ==
  ASSUME LoopOK, NEW L \in Layerings, depth = L, ~ Wrapped,
         NEW s \in present, NEW c \in 0..Column(s)
  PROVE  c \in Columns
<1>1. /\ L \in [present -> Nat]
      /\ \A t \in present : L[t] = 0 \/ \E i \in Edges : Target(i) = t /\ L[t] = L[Source(i)] + 1
  BY LayeringFacts
<1>2. \A t \in present : Column(t) = L[t] /\ L[t] \in Columns
  BY DEF Column, Columns
<1> DEFINE bad == {t \in present : \E b \in 0..L[t] : b \notin Columns}
           T == {L[t] : t \in bad}
<1>3. ASSUME bad # {} PROVE FALSE
  <2>1. PICK x \in T : \A y \in T : x <= y
    <3>1. T \in SUBSET Nat /\ T # {}
      BY <1>1, <1>3
    <3> HIDE DEF T
    <3> QED
      BY <3>1, LeastNatural
  <2>2. PICK t \in bad : x = L[t]
    BY <2>1
  <2>3. PICK b \in 0..L[t] : b \notin Columns
    BY <2>2
  <2>4. t \in present /\ L[t] \in Nat /\ b # L[t]
    BY <1>1, <1>2, <2>2, <2>3
  <2>5. PICK i \in Edges : Target(i) = t /\ L[t] = L[Source(i)] + 1
    BY <1>1, <2>3, <2>4
  <2>6. Source(i) \in present /\ L[Source(i)] \in Nat
    BY <1>1, EdgeEnds
  <2>7. b \in 0..L[Source(i)]
    BY <2>3, <2>4, <2>5, <2>6
  <2>8. L[Source(i)] \in T
    BY <2>3, <2>6, <2>7
  <2> QED
    BY <2>1, <2>2, <2>5, <2>6, <2>8
<1> QED
  BY <1>2, <1>3

\* So there are as many columns as the canvas needs.
LEMMA ColumnsAreEnough ==
  ASSUME LoopOK, NEW L \in Layerings, depth = L, NEW s \in present
  PROVE  Column(s) \in Nat /\ Cardinality(Columns) \in Nat /\ Column(s) < Cardinality(Columns)
<1>1. Column(s) \in Nat
  BY ColumnType
<1>2. \A c \in 0..Column(s) : c \in Columns
  BY BoardIsFull, LayersAreFull
<1> DEFINE f == [t \in present |-> Column(t)]
           C == Columns
<1>3. C = {f[t] : t \in present}
  BY DEF Columns
<1>4. f = [t \in present |-> f[t]]
  OBVIOUS
<1> HIDE DEF f, C
<1>5. f \in Surjection(present, C)
  BY <1>3, <1>4 DEF Surjection
<1>6. IsFiniteSet(C)
  BY <1>5, PresentFinite, FS_Surjection DEF LoopOK
<1>7. IsFiniteSet(0..Column(s)) /\ Cardinality(0..Column(s)) = Column(s) + 1
  BY <1>1, UpTo
<1>8. 0..Column(s) \in SUBSET C
  BY <1>2 DEF C
<1>9. Cardinality(0..Column(s)) <= Cardinality(C) /\ Cardinality(C) \in Nat
  BY <1>6, <1>8, FS_Subset, FS_CardinalityType
<1> QED
  BY <1>1, <1>7, <1>9 DEF C

\* There is a tallest column.
Tallest(n) ==
  /\ n \in 1..(Size + 1)
  /\ \A c \in Columns : Cardinality(Bucket(c)) <= n
  /\ n = 1 \/ \E c \in Columns : Cardinality(Bucket(c)) = n

LEMMA BucketSizes ==
  ASSUME LoopOK, NEW c
  PROVE  IsFiniteSet(Bucket(c)) /\ Cardinality(Bucket(c)) \in Nat /\ Cardinality(Bucket(c)) <= Size
BY PresentFinite, FS_Subset, FS_CardinalityType DEF LoopOK, Bucket, Size

LEMMA SomeTallest ==
  ASSUME LoopOK
  PROVE  \E n : Tallest(n)
<1> DEFINE T == {n \in Nat : n >= 1 /\ \A c \in Columns : Cardinality(Bucket(c)) <= n}
<1>1. Size \in Nat
  BY PresentFinite DEF LoopOK
<1>2. \A c \in Columns : Cardinality(Bucket(c)) \in Nat /\ Cardinality(Bucket(c)) <= Size
  BY BucketSizes
<1>3. Size + 1 \in T
  BY <1>1, <1>2
<1>4. PICK n \in T : \A m \in T : n <= m
  <2>1. T \in SUBSET Nat /\ T # {}
    BY <1>3
  <2> HIDE DEF T
  <2> QED
    BY <2>1, LeastNatural
<1>5. n \in Nat /\ n >= 1 /\ n <= Size + 1 /\ \A c \in Columns : Cardinality(Bucket(c)) <= n
  BY <1>3, <1>4
<1>6. ASSUME n # 1 PROVE \E c \in Columns : Cardinality(Bucket(c)) = n
  <2>1. n - 1 \in Nat /\ n - 1 >= 1 /\ ~ (n <= n - 1)
    BY <1>5, <1>6
  <2>2. n - 1 \notin T
    BY <1>4, <2>1
  <2>3. PICK c \in Columns : ~ (Cardinality(Bucket(c)) <= n - 1)
    BY <2>1, <2>2
  <2> QED
    BY <1>2, <1>5, <2>1, <2>3
<1> QED
  BY <1>1, <1>5, <1>6 DEF Tallest

LEMMA NodeIsOnCanvas ==
  ASSUME LoopOK, NEW L \in Layerings, depth = L, NEW s \in present
  PROVE  OnCanvas(s)
<1> DEFINE tallest == CHOOSE n \in 1..(Size + 1) :
             /\ \A c \in Columns : Cardinality(Bucket(c)) <= n
             /\ n = 1 \/ \E c \in Columns : Cardinality(Bucket(c)) = n
           breadth == Cardinality(Columns)
           B == Bucket(Column(s))
<1>1. Column(s) \in Nat /\ breadth \in Nat /\ Column(s) < breadth
  BY ColumnsAreEnough
<1>2. Column(s) \in Columns /\ s \in B
  BY DEF Columns, Bucket
<1>3. Tallest(tallest)
  <2>1. \E n \in 1..(Size + 1) :
          /\ \A c \in Columns : Cardinality(Bucket(c)) <= n
          /\ n = 1 \/ \E c \in Columns : Cardinality(Bucket(c)) = n
    BY SomeTallest DEF Tallest
  <2> QED
    BY <2>1 DEF Tallest
<1> HIDE DEF tallest
<1>4. tallest \in Nat /\ Cardinality(B) <= tallest
  <2>1. Size \in Nat
    BY PresentFinite DEF LoopOK
  <2> QED
    BY <1>2, <1>3, <2>1 DEF Tallest
<1>5. Row(s) \in Nat /\ Row(s) < Cardinality(B) /\ Cardinality(B) \in Nat
  <2>1. IsFiniteSet(B) /\ B \subseteq Nat
    BY BucketSizes, ServiceAssumption DEF LoopOK, Bucket
  <2> HIDE DEF B
  <2>2. Before(s, B) \in Nat /\ Before(s, B) < Cardinality(B) /\ Cardinality(B) \in Nat
    BY <1>2, <2>1, BeforeIsPlace
  <2> QED
    BY <2>2 DEF Row, B
<1>6. Canvas = [width |-> CanvasWidth, height |-> CanvasHeight]
  BY DEF Canvas
<1>7. CanvasWidth = 32 + (breadth - 1) * 272 + 176
  BY <1>2 DEF CanvasWidth, PADDING, NODE_WIDTH, COLUMN_GAP
<1>8. CanvasHeight = 32 + tallest * 62 + (tallest - 1) * 24
  BY DEF CanvasHeight, tallest, PADDING, NODE_HEIGHT, ROW_GAP
<1>9. /\ Box(s).x2 = 16 + Column(s) * 272 + 176
      /\ Box(s).y2 = 16 + Row(s) * 86 + 62
  BY <1>1, <1>5 DEF Box, X, Y, PADDING, NODE_WIDTH, COLUMN_GAP, NODE_HEIGHT, ROW_GAP
<1>10. 16 + Column(s) * 272 + 176 + 16 <= 32 + (breadth - 1) * 272 + 176
  BY <1>1
<1>11. Row(s) <= tallest - 1
  BY <1>4, <1>5
<1>12. 16 + Row(s) * 86 + 62 + 16 <= 32 + tallest * 62 + (tallest - 1) * 24
  BY <1>4, <1>5, <1>11
<1> HIDE DEF breadth
<1> QED
  BY <1>6, <1>7, <1>8, <1>9, <1>10, <1>12 DEF OnCanvas, PADDING

\* Without a cycle every node is on the canvas, with its margin, for any services and in
\* whatever order their connections are held (ServiceGraph.tsx:245-249).
THEOREM PictureStaysOnCanvas == LayoutSpec => []PictureFits
<1>1. ASSUME IInv, pc = "placed", Layerings # {}, NEW s \in present
      PROVE  OnCanvas(s)
  <2>1. PICK L \in Layerings : TRUE
    BY <1>1
  <2>2. depth = L /\ LoopOK
    BY <1>1, <2>1 DEF IInv, Tracks
  <2> QED
    BY <2>1, <2>2, NodeIsOnCanvas
<1>2. IInv => PictureFits
  BY <1>1 DEF PictureFits
<1> QED
  BY <1>2, Invariance, PTL

----------------------------------------------------------------------------
(***************************************************************************)
(* The chart.                                                              *)
(***************************************************************************)
\* What moves with three clocks fits together: a pointer is over a plot, in units that are there.
ChartOK ==
  /\ points \in Seq(Value) /\ wrapper \in Nat /\ width \in Nat
  /\ Hovering => Plotted(points) /\ pointer.x \in Int /\ pointer.of \in Nat \ {0}

LEMMA FloorOf ==
  ASSUME NEW a \in Nat, NEW d \in Nat \ {0}
  PROVE  /\ a \div d \in Nat
         /\ d * (a \div d) <= a /\ a < d * (a \div d) + d
OBVIOUS

LEMMA PlotWidthIsPositive ==
  ASSUME ChartOK
  PROVE  PlotWidth \in Nat \ {0}
BY DEF ChartOK, PlotWidth, Larger

\* The larger of two factors makes the larger product, and only that one does.
LEMMA FactorsKeepOrder ==
  ASSUME NEW a \in Int, NEW b \in Int, NEW n \in Nat \ {0}
  PROVE  a * n \in Int /\ b * n \in Int /\ (a <= b <=> a * n <= b * n) /\ (a < b <=> a * n < b * n)
<1>1. ASSUME NEW c \in Int, NEW d \in Int, c < d PROVE c * n < d * n
  <2>1. d - c \in Nat \ {0}
    BY <1>1
  <2>2. (d - c) * n \in Nat \ {0}
    BY <2>1
  <2>3. (d - c) * n = d * n - c * n /\ c * n \in Int /\ d * n \in Int
    OBVIOUS
  <2> QED
    BY <2>2, <2>3
<1>2. a * n \in Int /\ b * n \in Int
  OBVIOUS
<1>3. a < b \/ a = b \/ b < a
  OBVIOUS
<1> QED
  BY <1>1, <1>2, <1>3

LEMMA ChartInitially == ChartInit => ChartOK
BY WidthAssumption DEF ChartInit, ChartOK, Hovering

LEMMA ChartStep ==
  ASSUME ChartOK, [ChartNext]_chartVars
  PROVE  ChartOK'
<1>1. CASE UNCHANGED chartVars
  BY <1>1 DEF ChartOK, chartVars, Hovering
<1>2. ASSUME NEW ps \in Series, NewPoints(ps) PROVE ChartOK'
  <2>1. ps \in Seq(Value)
    BY WidthAssumption DEF Series
  <2>2. /\ points' = ps /\ wrapper' = wrapper /\ width' \in Nat
        /\ pointer' = IF Plotted(ps) THEN pointer ELSE NoPointer
    BY <1>2 DEF NewPoints, ChartOK
  <2> QED
    BY <2>1, <2>2 DEF ChartOK, Hovering
<1>3. ASSUME NEW w \in WrapperWidth, Relayout(w) PROVE ChartOK'
  BY <1>3, WidthAssumption DEF ChartOK, Hovering, Relayout
<1>4. ASSUME ResizeObserved PROVE ChartOK'
  BY <1>4 DEF ChartOK, Hovering, ResizeObserved
<1>5. ASSUME NEW px \in Pixels, Move(px) PROVE ChartOK'
  <2>1. px \in Int /\ PlotWidth \in Nat
    BY PlotWidthIsPositive DEF Pixels, ChartOK
  <2>2. px * PlotWidth \in Int
    BY <2>1
  <2>3. /\ UNCHANGED <<points, wrapper, width>> /\ Plotted(points) /\ wrapper > 0
        /\ pointer' = [x |-> px * PlotWidth, of |-> wrapper]
    BY <1>5 DEF Move
  <2>4. pointer'.x \in Int /\ pointer'.of \in Nat \ {0}
    BY <2>2, <2>3 DEF ChartOK
  <2> QED
    BY <2>3, <2>4 DEF ChartOK, Plotted
<1>6. ASSUME Leave PROVE ChartOK'
  BY <1>6 DEF ChartOK, Hovering, Leave
<1> QED
  BY <1>1, <1>2, <1>3, <1>4, <1>5, <1>6 DEF ChartNext

----------------------------------------------------------------------------
\* Of n + 1 samples drawn over a chart of that whole, the one a pointer on the chart is shown.
LEMMA NearestOnTheChart ==
  ASSUME NEW n \in Nat, NEW whole \in Nat \ {0}, NEW a \in 0..whole,
         NEW h, h = (2 * a * n + whole) \div (2 * whole)
  PROVE  /\ h \in 0..n
         /\ 2 * (h * whole) <= 2 * (a * n) + whole
         /\ 2 * (a * n) + whole < 2 * (h * whole) + 2 * whole
<1>1. 2 * a * n + whole \in Nat /\ 2 * whole \in Nat \ {0}
  OBVIOUS
<1>2. /\ h \in Nat /\ (2 * whole) * h <= 2 * a * n + whole
      /\ 2 * a * n + whole < (2 * whole) * h + 2 * whole
  BY <1>1, FloorOf
<1>3. /\ (2 * whole) * h = 2 * (h * whole) /\ 2 * a * n = 2 * (a * n)
      /\ h * whole \in Nat /\ a * n \in Nat
  BY <1>2
<1>4. a * n <= n * whole /\ n * whole \in Nat
  <2>1. a \in Nat /\ whole \in Nat /\ a <= whole
    OBVIOUS
  <2>2. a * n <= whole * n
    BY <2>1, FewerPasses
  <2>3. whole * n = n * whole /\ n * whole \in Nat
    OBVIOUS
  <2> QED
    BY <2>2, <2>3
<1>5. ASSUME n + 1 <= h PROVE FALSE
  <2>1. (n + 1) * whole <= h * whole
    BY <1>2, <1>5, FewerPasses
  <2>2. (n + 1) * whole = n * whole + whole
    OBVIOUS
  <2> QED
    BY <1>2, <1>3, <1>4, <2>1, <2>2
<1> QED
  BY <1>2, <1>3, <1>5

Pinned(p, whole) == IF p.x < 0 THEN 0 ELSE IF p.x > whole THEN whole ELSE p.x

LEMMA SampleAtIsASample ==
  ASSUME ChartOK, Hovering
  PROVE  Hover \in 0..(Len(points) - 1) /\ Len(points) - 1 \in Nat
<1> DEFINE whole == pointer.of * PlotWidth
           n == Len(points) - 1
<1>1. whole \in Nat \ {0} /\ n \in Nat /\ pointer.x \in Int
  <2>1. pointer.of \in Nat \ {0} /\ PlotWidth \in Nat \ {0}
    BY PlotWidthIsPositive DEF ChartOK
  <2> QED
    BY <2>1 DEF ChartOK, Plotted
<1>2. Hover = (2 * Pinned(pointer, whole) * n + whole) \div (2 * whole)
  BY DEF Hover, SampleAt, Pinned
<1> HIDE DEF whole, n
<1>3. Pinned(pointer, whole) \in 0..whole
  BY <1>1 DEF Pinned
<1>4. Hover \in 0..n
  BY <1>1, <1>2, <1>3, NearestOnTheChart
<1> QED
  BY <1>1, <1>4 DEF n

LEMMA ChartOKMeansHover == ChartOK => HoverIsASample
<1> SUFFICES ASSUME ChartOK, Hovering PROVE HoverIsASample
  BY DEF HoverIsASample
<1>1. Hover \in 0..(Len(points) - 1) /\ Len(points) - 1 \in Nat /\ PlotWidth \in Nat \ {0}
  BY SampleAtIsASample, PlotWidthIsPositive
<1>2. Plotted(points)
  BY DEF ChartOK
<1>3. ASSUME NEW h \in Nat, NEW n \in Nat, NEW W \in Nat \ {0}
      PROVE  2 * (h * W) > W * n <=> 2 * h > n
  <2>1. (n < 2 * h) <=> (n * W < (2 * h) * W)
    BY FactorsKeepOrder
  <2>2. (2 * h) * W = 2 * (h * W) /\ n * W = W * n /\ h * W \in Nat /\ W * n \in Nat
    OBVIOUS
  <2> QED
    BY <2>1, <2>2
<1>4. 2 * SampleX(Hover) > PlotWidth * (Len(points) - 1) <=> TooltipHangsLeft
  BY <1>1, <1>3 DEF SampleX, TooltipHangsLeft
<1>5. 2 * SampleX(Hover) \in Int /\ PlotWidth * (Len(points) - 1) \in Int
  BY <1>1 DEF SampleX
<1> QED
  BY <1>1, <1>2, <1>4, <1>5 DEF HoverIsASample

----------------------------------------------------------------------------
\* A series of any length has a largest value: the peak the chart is scaled to.
LEMMA SeriesHasAPeak ==
  ASSUME ChartOK
  PROVE  /\ Peak(points) \in Nat /\ Peak(points) >= One
         /\ \A i \in DOMAIN points : points[i] \in Nat /\ points[i] <= Peak(points)
<1> DEFINE Upto(n) == \E m \in {points[i] : i \in 1..n} \cup {One} :
                         m >= One /\ \A i \in 1..n : points[i] <= m
           last == Len(points)
           Failing == {n \in 0..last : ~Upto(n)}
<1>1. last \in Nat /\ DOMAIN points = 1..last /\ \A i \in 1..last : points[i] \in Nat
  <2>1. points \in Seq(Value)
    BY DEF ChartOK
  <2>2. last \in Nat /\ DOMAIN points = 1..last
    BY <2>1
  <2>3. \A i \in 1..last : points[i] \in Value
    BY <2>1
  <2> QED
    BY <2>2, <2>3, ValueAssumption
<1> HIDE DEF last
<1>2. Upto(0)
  <2>1. One \in {points[i] : i \in 1..0} \cup {One} /\ One >= One
    BY DEF One
  <2>2. \A i \in 1..0 : points[i] <= One
    OBVIOUS
  <2> QED
    BY <2>1, <2>2
<1>3. ASSUME NEW n \in Nat, n + 1 <= last, Upto(n) PROVE Upto(n + 1)
  <2>1. PICK m \in {points[i] : i \in 1..n} \cup {One} : m >= One /\ \A i \in 1..n : points[i] <= m
    BY <1>3
  <2>2. points[n + 1] \in Nat /\ m \in Nat /\ \A i \in 1..n : points[i] \in Nat
    BY <1>1, <1>3, <2>1 DEF One
  <2>3. 1..(n + 1) = (1..n) \cup {n + 1}
    OBVIOUS
  <2>4. CASE points[n + 1] <= m
    <3>1. m \in {points[i] : i \in 1..(n + 1)} \cup {One}
      BY <2>1, <2>3
    <3>2. \A i \in 1..(n + 1) : points[i] <= m
      BY <2>1, <2>3, <2>4
    <3> QED
      BY <2>1, <3>1, <3>2
  <2>5. CASE m < points[n + 1]
    <3>1. points[n + 1] \in {points[i] : i \in 1..(n + 1)} \cup {One}
      BY <2>3
    <3>2. \A i \in 1..(n + 1) : points[i] <= points[n + 1]
      BY <2>1, <2>2, <2>3, <2>5
    <3>3. points[n + 1] >= One
      BY <2>1, <2>2, <2>5 DEF One
    <3> QED
      BY <3>1, <3>2, <3>3
  <2> QED
    BY <2>2, <2>4, <2>5
<1>4. Failing \in SUBSET Nat /\ \A n \in Failing : n <= last /\ ~Upto(n)
  OBVIOUS
<1>5. \A n \in 0..last : n \notin Failing => Upto(n)
  OBVIOUS
<1> HIDE DEF Upto, Failing
<1>6. Failing = {}
  <2> SUFFICES ASSUME Failing # {} PROVE FALSE
    OBVIOUS
  <2>1. PICK k \in Failing : \A n \in Failing : k <= n
    BY <1>4, LeastNatural
  <2>2. k \in Nat /\ k # 0 /\ k <= last /\ ~Upto(k)
    BY <1>2, <1>4, <2>1
  <2>3. k - 1 \in Nat /\ k - 1 \in 0..last /\ k - 1 \notin Failing /\ (k - 1) + 1 = k
    BY <1>1, <2>1, <2>2
  <2>4. Upto(k - 1)
    BY <1>5, <2>3
  <2> QED
    BY <1>3, <2>2, <2>3, <2>4
<1>7. Upto(last)
  BY <1>1, <1>5, <1>6
<1>8. \E m \in {points[i] : i \in DOMAIN points} \cup {One} :
        m >= One /\ \A i \in DOMAIN points : points[i] <= m
  BY <1>1, <1>7 DEF Upto
<1>9. /\ Peak(points) \in {points[i] : i \in DOMAIN points} \cup {One}
      /\ Peak(points) >= One /\ \A i \in DOMAIN points : points[i] <= Peak(points)
  BY <1>8 DEF Peak
<1> QED
  BY <1>1, <1>9 DEF One

LEMMA ChartOKMeansInside == ChartOK => CurveStaysInside
<1> SUFFICES ASSUME ChartOK, NEW i \in DOMAIN points
             PROVE  /\ 4 * Peak(points) <= SampleY(points[i])
                    /\ SampleY(points[i]) <= (CHART_HEIGHT - 4) * Peak(points)
  BY DEF CurveStaysInside
<1>1. Peak(points) \in Nat /\ points[i] \in Nat /\ points[i] <= Peak(points)
  BY SeriesHasAPeak
<1>2. SampleY(points[i]) = 136 * Peak(points) - points[i] * 132
  BY DEF SampleY, CHART_HEIGHT, Larger
<1> QED
  BY <1>1, <1>2 DEF CHART_HEIGHT

----------------------------------------------------------------------------
\* No sample drawn is nearer to the pointer than the one it is shown, wherever the pointer is.
LEMMA NoneIsNearer ==
  ASSUME NEW n \in Nat, NEW w \in Nat \ {0}, NEW px \in Int, NEW h \in 0..n, NEW j \in 0..n,
         NEW c \in 0..w, c = (IF px < 0 THEN 0 ELSE IF px > w THEN w ELSE px),
         2 * (h * w) <= 2 * (c * n) + w, 2 * (c * n) + w < 2 * (h * w) + 2 * w
  PROVE  Distance(px * n, h * w) <= Distance(px * n, j * w)
<1>1. h * w \in Nat /\ j * w \in Nat /\ px * n \in Int /\ c * n \in Nat /\ n * w \in Nat
  OBVIOUS
<1>2. \A a, b \in Nat : a < b => a * w + w <= b * w
  <2> TAKE a, b \in Nat
  <2> HAVE a < b
  <2>1. (a + 1) * w <= b * w /\ (a + 1) * w = a * w + w
    BY FewerPasses
  <2> QED
    BY <2>1
<1>3. /\ (j < h => j * w + w <= h * w) /\ (h < j => h * w + w <= j * w)
      /\ (h < n => h * w + w <= n * w) /\ (j < n => j * w + w <= n * w)
  <2>1. h \in Nat /\ j \in Nat
    OBVIOUS
  <2> QED
    BY <1>2, <2>1
<1>4. CASE px < 0
  <2>1. c * n = 0
    BY <1>4
  <2>2. px * n <= 0
    <3>1. (-px) \in Nat
      BY <1>4
    <3>2. (-px) * n \in Nat /\ (-px) * n = -(px * n)
      BY <3>1
    <3> QED
      BY <1>1, <3>2
  <2>3. h = 0
    <3>1. ~(0 < h)
      <4> SUFFICES ASSUME 0 < h PROVE FALSE
        OBVIOUS
      <4>1. 0 * w + w <= h * w /\ 0 * w = 0
        BY <1>2
      <4> QED
        BY <1>1, <2>1, <4>1
    <3> QED
      BY <3>1
  <2>4. h * w = 0
    BY <2>3
  <2> QED
    BY <1>1, <2>2, <2>4 DEF Distance
<1>5. CASE px > w
  <2>1. c * n = n * w
    <3>1. c = w
      BY <1>5
    <3> QED
      BY <3>1
  <2>2. n * w <= px * n
    <3>1. w * n <= px * n
      BY <1>5, FewerPasses
    <3>2. w * n = n * w
      OBVIOUS
    <3> QED
      BY <1>1, <3>1, <3>2
  <2>3. h = n
    <3>1. ~(h < n)
      BY <1>1, <1>3, <2>1
    <3> QED
      BY <3>1
  <2>4. j * w <= h * w
    BY <1>1, <1>3, <2>3
  <2> QED
    BY <1>1, <2>2, <2>3, <2>4 DEF Distance
<1>6. CASE 0 <= px /\ px <= w
  <2>1. px * n = c * n
    BY <1>6
  <2>2. CASE j = h
    BY <1>1, <2>2 DEF Distance
  <2>3. CASE j < h
    BY <1>1, <1>3, <2>1, <2>3 DEF Distance
  <2>4. CASE h < j
    BY <1>1, <1>3, <2>1, <2>4 DEF Distance
  <2> QED
    BY <2>2, <2>3, <2>4
<1> QED
  BY <1>4, <1>5, <1>6

\* A move of the pointer in pixels of the wrapper, whatever width the chart is drawn in.
LEMMA MoveShowsTheNearest ==
  ASSUME ChartOK, NEW px \in Pixels, Move(px), NEW j \in 0..(Len(points) - 1)
  PROVE  Distance(px * (Len(points) - 1), Hover' * wrapper)
           <= Distance(px * (Len(points) - 1), j * wrapper)
<1> DEFINE n == Len(points) - 1
           W == PlotWidth
           c == IF px < 0 THEN 0 ELSE IF px > wrapper THEN wrapper ELSE px
           h == Hover'
<1>1. n \in Nat /\ W \in Nat \ {0} /\ wrapper \in Nat \ {0} /\ px \in Int /\ c \in 0..wrapper
  BY PlotWidthIsPositive DEF ChartOK, Move, Plotted, Pixels
<1>2. /\ UNCHANGED <<points, wrapper, width>> /\ PlotWidth' = PlotWidth
      /\ pointer' = [x |-> px * W, of |-> wrapper]
  BY DEF Move, PlotWidth
<1>3. pointer'.x = px * W /\ pointer'.of = wrapper
  BY <1>2
<1>4. /\ Pinned(pointer', wrapper * W) = c * W /\ c * W \in 0..(wrapper * W)
      /\ wrapper * W \in Nat \ {0}
  <2> HIDE DEF W
  <2>1. px * W \in Int /\ wrapper * W \in Nat \ {0} /\ 0 * W = 0
    BY <1>1
  <2>2. (px < 0 <=> px * W < 0) /\ (px > wrapper <=> px * W > wrapper * W)
    <3>1. (px < 0 <=> px * W < 0 * W) /\ (wrapper < px <=> wrapper * W < px * W)
      BY <1>1, FactorsKeepOrder
    <3> QED
      BY <1>1, <2>1, <3>1
  <2>3. Pinned(pointer', wrapper * W) =
          IF px * W < 0 THEN 0 ELSE IF px * W > wrapper * W THEN wrapper * W ELSE px * W
    BY <1>3 DEF Pinned
  <2> QED
    BY <1>1, <2>1, <2>2, <2>3
<1>5. h = (2 * (c * W) * n + wrapper * W) \div (2 * (wrapper * W))
  <2>1. Hover' = SampleAt(pointer', PlotWidth, Len(points))
    BY <1>2 DEF Hover
  <2>2. SampleAt(pointer', PlotWidth, Len(points)) =
          (2 * Pinned(pointer', wrapper * W) * n + wrapper * W) \div (2 * (wrapper * W))
    BY <1>3 DEF SampleAt, Pinned
  <2> QED
    BY <1>4, <2>1, <2>2
<1> HIDE DEF n, W, c, h
<1>6. /\ h \in 0..n
      /\ 2 * (h * (wrapper * W)) <= 2 * ((c * W) * n) + wrapper * W
      /\ 2 * ((c * W) * n) + wrapper * W < 2 * (h * (wrapper * W)) + 2 * (wrapper * W)
  BY <1>1, <1>4, <1>5, NearestOnTheChart
<1>7. /\ 2 * (h * (wrapper * W)) = (2 * (h * wrapper)) * W
      /\ 2 * ((c * W) * n) + wrapper * W = (2 * (c * n) + wrapper) * W
      /\ 2 * (h * (wrapper * W)) + 2 * (wrapper * W) = (2 * (h * wrapper) + 2 * wrapper) * W
      /\ 2 * (h * wrapper) \in Int /\ 2 * (c * n) + wrapper \in Int
      /\ 2 * (h * wrapper) + 2 * wrapper \in Int
  BY <1>1, <1>6
<1>8. /\ 2 * (h * wrapper) <= 2 * (c * n) + wrapper
      /\ 2 * (c * n) + wrapper < 2 * (h * wrapper) + 2 * wrapper
  BY <1>1, <1>6, <1>7, FactorsKeepOrder
<1>9. Distance(px * n, h * wrapper) <= Distance(px * n, j * wrapper)
  <2>1. j \in 0..n /\ c = (IF px < 0 THEN 0 ELSE IF px > wrapper THEN wrapper ELSE px)
    BY DEF c, n
  <2> QED
    BY <1>1, <1>6, <1>8, <2>1, NoneIsNearer
<1> QED
  BY <1>9 DEF n, h

----------------------------------------------------------------------------
\* Whatever the samples, the widths and the pointer do, what is marked on a chart is one of its
\* samples, with its tooltip on the roomy side (sparkline.ts:4-8, SeriesChart.tsx).
THEOREM HoverStaysOnASample == ChartSpec => []HoverIsASample
<1>1. ChartInit => ChartOK
  BY ChartInitially
<1>2. ChartOK /\ [ChartNext]_chartVars => ChartOK'
  BY ChartStep
<1>3. ChartOK => HoverIsASample
  BY ChartOKMeansHover
<1> QED
  BY <1>1, <1>2, <1>3, PTL DEF ChartSpec

\* A curve does not leave its chart, for any samples (sparkline.ts:15-18).
THEOREM CurveStaysOnItsChart == ChartSpec => []CurveStaysInside
<1>1. ChartInit => ChartOK
  BY ChartInitially
<1>2. ChartOK /\ [ChartNext]_chartVars => ChartOK'
  BY ChartStep
<1>3. ChartOK => CurveStaysInside
  BY ChartOKMeansInside
<1> QED
  BY <1>1, <1>2, <1>3, PTL DEF ChartSpec

\* A pointer that moves marks the sample drawn nearest to it, for any width of the wrapper and
\* any width the chart still believes in (SeriesChart.tsx, onPointerMove).
THEOREM PointerShowsTheNearest == ChartSpec => HoverFollowsPointer
<1>1. ChartInit => ChartOK
  BY ChartInitially
<1>2. ChartOK /\ [ChartNext]_chartVars => ChartOK'
  BY ChartStep
<1>3. ChartOK =>
        [\A px \in Pixels : pointer' # pointer /\ Move(px) =>
           \A j \in 0..(Len(points) - 1) :
             Distance(px * (Len(points) - 1), Hover' * wrapper)
               <= Distance(px * (Len(points) - 1), j * wrapper)]_chartVars
  BY MoveShowsTheNearest
<1> QED
  BY <1>1, <1>2, <1>3, PTL DEF ChartSpec, HoverFollowsPointer
----------------------------------------------------------------------------
(***************************************************************************)
(* Labels.  Rounding is known by its bounds, for any unit; within a unit   *)
(* order is kept, and at a change of unit the smaller one shows no more    *)
(* than 1024 of its own and the larger one no less than one.               *)
(***************************************************************************)
LEMMA RoundedIs ==
  ASSUME NEW n \in Nat, NEW unit \in Nat \ {0}
  PROVE  /\ Rounded(n, unit) \in Nat
         /\ 2 * (Rounded(n, unit) * unit) <= 2 * n + unit
         /\ 2 * n + unit < 2 * (Rounded(n, unit) * unit) + 2 * unit
<1> DEFINE a == 2 * n + unit
           d == 2 * unit
           q == a \div d
<1>1. a \in Nat /\ d \in Nat \ {0}
  OBVIOUS
<1>2. q \in Nat /\ d * q <= a /\ a < d * q + d
  <2> HIDE DEF a, d
  <2> QED
    BY <1>1, FloorOf
<1>3. Rounded(n, unit) = q
  BY DEF Rounded
<1> HIDE DEF q
<1>4. d * q = 2 * (q * unit)
  BY <1>2
<1> QED
  BY <1>2, <1>3, <1>4

LEMMA RoundedKeepsOrder ==
  ASSUME NEW n \in Nat, NEW k \in Nat, n <= k, NEW unit \in Nat \ {0}
  PROVE  Rounded(n, unit) <= Rounded(k, unit)
<1> DEFINE r == Rounded(n, unit)
           s == Rounded(k, unit)
<1>1. /\ r \in Nat /\ 2 * (r * unit) <= 2 * n + unit
      /\ s \in Nat /\ 2 * k + unit < 2 * (s * unit) + 2 * unit
  BY RoundedIs
<1> HIDE DEF r, s
<1>2. (s + 1) * unit = s * unit + unit /\ s * unit \in Nat /\ r * unit \in Nat
  BY <1>1
<1>3. r * unit < (s + 1) * unit
  BY <1>1, <1>2
<1>4. r < s + 1
  BY <1>1, <1>3, FactorsKeepOrder
<1>5. r <= s
  BY <1>1, <1>4
<1> QED
  BY <1>5 DEF r, s

\* How an age is rounded from unit to unit.
LEMMA AgoIs ==
  ASSUME NEW a \in Int
  PROVE  LET s == IF a < 0 THEN 0 ELSE a
             m == Rounded(s, 60)
             h == Rounded(m, 60)
             d == Rounded(h, 24)
         IN  /\ s \in Nat /\ m \in Nat /\ h \in Nat /\ d \in Nat
             /\ 120 * m <= 2 * s + 60 /\ 2 * s + 60 < 120 * m + 120
             /\ 120 * h <= 2 * m + 60 /\ 2 * m + 60 < 120 * h + 120
             /\ 48 * d <= 2 * h + 24 /\ 2 * h + 24 < 48 * d + 48
             /\ Ago(a) = IF s < 60 THEN s ELSE IF m < 60 THEN 60 * m
                         ELSE IF h < 24 THEN 3600 * h ELSE 86400 * d
<1> DEFINE s == IF a < 0 THEN 0 ELSE a
           m == Rounded(s, 60)
           h == Rounded(m, 60)
           d == Rounded(h, 24)
<1>1. s \in Nat
  OBVIOUS
<1>2. Ago(a) = IF s < 60 THEN s ELSE IF m < 60 THEN m * MINUTE ELSE IF h < 24 THEN h * HOUR ELSE d * DAY
  BY DEF Ago
<1> HIDE DEF s
<1>3. m \in Nat /\ 120 * m <= 2 * s + 60 /\ 2 * s + 60 < 120 * m + 120
  BY <1>1, RoundedIs
<1> HIDE DEF m
<1>4. h \in Nat /\ 120 * h <= 2 * m + 60 /\ 2 * m + 60 < 120 * h + 120
  <2>1. m \in Nat /\ 60 \in Nat \ {0}
    BY <1>3
  <2>2. h \in Nat /\ 2 * (h * 60) <= 2 * m + 60 /\ 2 * m + 60 < 2 * (h * 60) + 2 * 60
    BY <2>1, RoundedIs
  <2> QED
    BY <2>2
<1> HIDE DEF h
<1>5. d \in Nat /\ 48 * d <= 2 * h + 24 /\ 2 * h + 24 < 48 * d + 48
  <2>1. h \in Nat /\ 24 \in Nat \ {0}
    BY <1>4
  <2>2. d \in Nat /\ 2 * (d * 24) <= 2 * h + 24 /\ 2 * h + 24 < 2 * (d * 24) + 2 * 24
    BY <2>1, RoundedIs
  <2> QED
    BY <2>2
<1> HIDE DEF d
<1>6. MINUTE = 60 /\ HOUR = 3600 /\ DAY = 86400
  BY DEF MINUTE, HOUR, DAY
<1>7. Ago(a) = IF s < 60 THEN s ELSE IF m < 60 THEN 60 * m ELSE IF h < 24 THEN 3600 * h ELSE 86400 * d
  BY <1>1, <1>2, <1>3, <1>4, <1>5, <1>6
<1> QED
  BY <1>1, <1>3, <1>4, <1>5, <1>7 DEF d, h, m, s

\* How far an age is off.
LEMMA AgoIsNear ==
  ASSUME NEW a \in Int
  PROVE  /\ Ago(a) \in Nat
         /\ 2 * (Ago(a) - a) <= (IF a < 60 THEN 2 ELSE IF a < HOUR THEN MINUTE
                                 ELSE IF a < DAY THEN HOUR + MINUTE ELSE DAY + HOUR + MINUTE)
                \/ a < -1
         /\ 2 * (a - Ago(a)) <= (IF a < 60 THEN 0 ELSE IF a < HOUR THEN MINUTE
                                 ELSE IF a < DAY THEN HOUR + MINUTE ELSE DAY + HOUR + MINUTE)
<1> DEFINE s == IF a < 0 THEN 0 ELSE a
           m == Rounded(s, 60)
           h == Rounded(m, 60)
           d == Rounded(h, 24)
           A == Ago(a)
<1>1. /\ s \in Nat /\ m \in Nat /\ h \in Nat /\ d \in Nat
      /\ 120 * m <= 2 * s + 60 /\ 2 * s + 60 < 120 * m + 120
      /\ 120 * h <= 2 * m + 60 /\ 2 * m + 60 < 120 * h + 120
      /\ 48 * d <= 2 * h + 24 /\ 2 * h + 24 < 48 * d + 48
      /\ A = IF s < 60 THEN s ELSE IF m < 60 THEN 60 * m ELSE IF h < 24 THEN 3600 * h ELSE 86400 * d
  BY AgoIs
<1> HIDE DEF m, h, d, A
<1>2. /\ A \in Nat
      /\ 2 * (A - a) <= (IF a < 60 THEN 2 ELSE IF a < 3600 THEN 60 ELSE IF a < 86400 THEN 3660 ELSE 90060)
             \/ a < -1
      /\ 2 * (a - A) <= (IF a < 60 THEN 0 ELSE IF a < 3600 THEN 60 ELSE IF a < 86400 THEN 3660 ELSE 90060)
  BY <1>1
<1>3. MINUTE = 60 /\ HOUR = 3600 /\ DAY = 86400
  BY DEF MINUTE, HOUR, DAY
<1> QED
  BY <1>2, <1>3 DEF A

\* Nothing grows younger.
LEMMA AgoKeepsOrder ==
  ASSUME NEW a \in Int, NEW b \in Int, a <= b
  PROVE  Ago(a) <= Ago(b)
<1> DEFINE s == IF a < 0 THEN 0 ELSE a
           m == Rounded(s, 60)
           h == Rounded(m, 60)
           d == Rounded(h, 24)
           t == IF b < 0 THEN 0 ELSE b
           n == Rounded(t, 60)
           i == Rounded(n, 60)
           e == Rounded(i, 24)
           A == Ago(a)
           B == Ago(b)
<1>1. /\ s \in Nat /\ m \in Nat /\ h \in Nat /\ d \in Nat
      /\ 120 * m <= 2 * s + 60 /\ 2 * s + 60 < 120 * m + 120
      /\ 120 * h <= 2 * m + 60 /\ 2 * m + 60 < 120 * h + 120
      /\ 48 * d <= 2 * h + 24 /\ 2 * h + 24 < 48 * d + 48
      /\ A = IF s < 60 THEN s ELSE IF m < 60 THEN 60 * m ELSE IF h < 24 THEN 3600 * h ELSE 86400 * d
  BY AgoIs
<1>2. /\ t \in Nat /\ n \in Nat /\ i \in Nat /\ e \in Nat
      /\ 120 * n <= 2 * t + 60 /\ 2 * t + 60 < 120 * n + 120
      /\ 120 * i <= 2 * n + 60 /\ 2 * n + 60 < 120 * i + 120
      /\ 48 * e <= 2 * i + 24 /\ 2 * i + 24 < 48 * e + 48
      /\ B = IF t < 60 THEN t ELSE IF n < 60 THEN 60 * n ELSE IF i < 24 THEN 3600 * i ELSE 86400 * e
  BY AgoIs
<1>3. s <= t
  OBVIOUS
<1> HIDE DEF s, t
<1>4. m <= n
  BY <1>1, <1>2, <1>3, RoundedKeepsOrder
<1> HIDE DEF m, n
<1>5. h <= i
  BY <1>1, <1>2, <1>4, RoundedKeepsOrder
<1> HIDE DEF h, i
<1>6. d <= e
  BY <1>1, <1>2, <1>5, RoundedKeepsOrder
<1> HIDE DEF d, e, A, B
<1>7. A <= B
  BY <1>1, <1>2, <1>3, <1>4, <1>5, <1>6
<1> QED
  BY <1>7 DEF A, B

\* The number a label of memory shows, in tenths: rounded once, to tenths below ten.
LEMMA ScaledIs ==
  ASSUME NEW v \in Nat, NEW unit \in Nat \ {0}
  PROVE  Scaled(v, unit) = IF v >= 10 * unit THEN 10 * Rounded(v, unit) ELSE Rounded(10 * v, unit)
<1> DEFINE q == v \div unit
           x == v % unit
           r == Rounded(10 * x, unit)
           s == Rounded(10 * v, unit)
           t == 10 * q + r
<1>1. q \in Nat /\ x \in Nat /\ v = unit * q + x
  OBVIOUS
<1>2. Scaled(v, unit) = IF v >= 10 * unit THEN 10 * Rounded(v, unit) ELSE t
  BY DEF Scaled
<1> HIDE DEF q, x
<1>3. /\ r \in Nat /\ 2 * (r * unit) <= 20 * x + unit
      /\ 20 * x + unit < 2 * (r * unit) + 2 * unit
  BY <1>1, RoundedIs
<1>4. /\ s \in Nat /\ 2 * (s * unit) <= 20 * v + unit
      /\ 20 * v + unit < 2 * (s * unit) + 2 * unit
  BY RoundedIs
<1> HIDE DEF r, s
<1>5. /\ t \in Nat /\ t * unit = 10 * (unit * q) + r * unit
      /\ (t + 1) * unit = t * unit + unit /\ (s + 1) * unit = s * unit + unit
      /\ unit * q \in Nat /\ r * unit \in Nat /\ s * unit \in Nat
  BY <1>1, <1>3, <1>4
<1> HIDE DEF t
<1>6. s * unit < (t + 1) * unit /\ t * unit < (s + 1) * unit
  BY <1>1, <1>3, <1>4, <1>5
<1>7. s < t + 1 /\ t < s + 1
  BY <1>4, <1>5, <1>6, FactorsKeepOrder
<1>8. s = t
  BY <1>4, <1>5, <1>7
<1> QED
  BY <1>2, <1>8 DEF s

\* From one unit on a label shows at least one of it, and below 1024 units no more than 1024.
LEMMA ScaledIsBetween ==
  ASSUME NEW v \in Nat, NEW unit \in Nat \ {0}
  PROVE  /\ Scaled(v, unit) \in Nat
         /\ v >= unit => Scaled(v, unit) >= 10
         /\ v < 10 * unit => Scaled(v, unit) <= 100
         /\ v >= 10 * unit => Scaled(v, unit) >= 100
         /\ v < KB * unit => Scaled(v, unit) <= 10 * KB
<1> DEFINE r == Rounded(v, unit)
           s == Rounded(10 * v, unit)
           z == Scaled(v, unit)
<1>1. /\ r \in Nat /\ 2 * (r * unit) <= 2 * v + unit
      /\ 2 * v + unit < 2 * (r * unit) + 2 * unit
  BY RoundedIs
<1>2. /\ s \in Nat /\ 2 * (s * unit) <= 20 * v + unit
      /\ 20 * v + unit < 2 * (s * unit) + 2 * unit
  BY RoundedIs
<1>3. z = IF v >= 10 * unit THEN 10 * r ELSE s
  BY ScaledIs
<1> HIDE DEF r, s, z
<1>4. r * unit \in Nat /\ s * unit \in Nat
  BY <1>1, <1>2
<1>5. v >= unit => s >= 10
  <2>1. v >= unit => 9 * unit < s * unit
    BY <1>2, <1>4
  <2> QED
    BY <1>2, <2>1, FactorsKeepOrder
<1>6. v < 10 * unit => s <= 100
  <2>1. v < 10 * unit => s * unit < 101 * unit
    BY <1>2, <1>4
  <2> QED
    BY <1>2, <2>1, FactorsKeepOrder
<1>7. v >= 10 * unit => r >= 10
  <2>1. v >= 10 * unit => 9 * unit < r * unit
    BY <1>1, <1>4
  <2> QED
    BY <1>1, <2>1, FactorsKeepOrder
<1>8. v < KB * unit => r <= KB
  <2>1. KB = 1024
    BY DEF KB
  <2>2. v < 1024 * unit => r * unit < 1025 * unit
    BY <1>1, <1>4
  <2>3. v < 1024 * unit => r < 1025
    BY <1>1, <2>2, FactorsKeepOrder
  <2> QED
    BY <1>1, <2>1, <2>3
<1>9. KB = 1024
  BY DEF KB
<1>10. /\ z \in Nat
       /\ v >= unit => z >= 10
       /\ v < 10 * unit => z <= 100
       /\ v >= 10 * unit => z >= 100
       /\ v < KB * unit => z <= 10 * KB
  BY <1>1, <1>2, <1>3, <1>5, <1>6, <1>7, <1>8, <1>9
<1> QED
  BY <1>10 DEF z

\* Within a unit a larger amount does not show less.
LEMMA ScaledKeepsOrder ==
  ASSUME NEW v \in Nat, NEW w \in Nat, v <= w, NEW unit \in Nat \ {0}
  PROVE  Scaled(v, unit) <= Scaled(w, unit)
<1>1. CASE w < 10 * unit
  <2>1. Rounded(10 * v, unit) <= Rounded(10 * w, unit)
    BY RoundedKeepsOrder
  <2> QED
    BY <1>1, <2>1, ScaledIs
<1>2. CASE v >= 10 * unit
  <2>1. Rounded(v, unit) <= Rounded(w, unit) /\ Rounded(v, unit) \in Nat /\ Rounded(w, unit) \in Nat
    BY RoundedKeepsOrder, RoundedIs
  <2>2. Scaled(v, unit) = 10 * Rounded(v, unit) /\ Scaled(w, unit) = 10 * Rounded(w, unit)
    BY <1>2, ScaledIs
  <2> QED
    BY <2>1, <2>2
<1>3. CASE v < 10 * unit /\ w >= 10 * unit
  <2>1. Scaled(v, unit) \in Nat /\ Scaled(v, unit) <= 100 /\ Scaled(w, unit) \in Nat /\ 100 <= Scaled(w, unit)
    BY <1>3, ScaledIsBetween
  <2> QED
    BY <2>1
<1> QED
  BY <1>1, <1>2, <1>3

\* The unit a label of memory shows.
UnitOf(v) == IF v >= GB THEN GB ELSE IF v >= MB THEN MB ELSE IF v >= KB THEN KB ELSE 1

LEMMA UnitIs ==
  ASSUME NEW v \in Nat
  PROVE  /\ UnitOf(v) \in Nat \ {0}
         /\ UnitOf(v) = 1 \/ UnitOf(v) <= v
         /\ UnitOf(v) = GB \/ v < KB * UnitOf(v)
         /\ UnitOf(v) <= GB
<1>1. /\ KB \in Nat \ {0} /\ MB \in Nat \ {0} /\ GB \in Nat \ {0}
      /\ MB = KB * KB /\ GB = KB * MB /\ 1 < KB /\ KB < MB /\ MB < GB /\ KB * 1 = KB
  BY SMT DEF KB, MB, GB
<1> QED
  BY <1>1, SMT DEF UnitOf

LEMMA UnitsKeepOrder ==
  ASSUME NEW v \in Nat, NEW w \in Nat, v <= w
  PROVE  UnitOf(v) <= UnitOf(w)
<1>1. KB \in Nat \ {0} /\ MB \in Nat \ {0} /\ GB \in Nat \ {0} /\ 1 < KB /\ KB < MB /\ MB < GB
  BY SMT DEF KB, MB, GB
<1> QED
  BY <1>1, SMT DEF UnitOf

LEMMA LabelIs ==
  ASSUME NEW v \in Nat
  PROVE  /\ BytesLabel(v).unit = UnitOf(v)
         /\ BytesLabel(v).tenths = IF UnitOf(v) = 1 THEN 10 * v ELSE Scaled(v, UnitOf(v))
BY Zenon DEF BytesLabel, UnitOf

\* Nothing grows smaller, whatever its unit.
LEMMA BytesKeepOrder ==
  ASSUME NEW v \in Nat, NEW w \in Nat, v <= w
  PROVE  AtLeast(BytesLabel(w), BytesLabel(v))
<1> DEFINE u == UnitOf(v)
           x == UnitOf(w)
           k == BytesLabel(w)
           l == BytesLabel(v)
<1>1. /\ u \in Nat \ {0} /\ x \in Nat \ {0} /\ u <= x /\ x <= GB
      /\ u = 1 \/ u <= v
      /\ u = GB \/ v < KB * u
      /\ x = 1 \/ x <= w
  BY UnitIs, UnitsKeepOrder
<1>2. /\ k.unit = x /\ k.tenths = IF x = 1 THEN 10 * w ELSE Scaled(w, x)
      /\ l.unit = u /\ l.tenths = IF u = 1 THEN 10 * v ELSE Scaled(v, u)
  BY LabelIs
<1>3. KB \in Nat /\ GB \in Nat /\ 1 <= KB
  BY SMT DEF KB, MB, GB
<1> HIDE DEF u, x, k, l
<1>4. ASSUME u = x PROVE AtLeast(k, l)
  <2>1. u # 1 => Scaled(v, u) <= Scaled(w, u)
    BY <1>1, ScaledKeepsOrder
  <2>2. k.tenths >= l.tenths
    BY <1>1, <1>2, <1>4, <2>1, ScaledIsBetween, SMT
  <2> QED
    BY <1>2, <1>4, <2>2 DEF AtLeast
<1>5. ASSUME u # x PROVE AtLeast(k, l)
  <2>1. u < x /\ x # 1 /\ x <= w /\ v < KB * u
    BY <1>1, <1>3, <1>5, SMT
  <2>2. Scaled(w, x) \in Nat /\ Scaled(w, x) >= 10
    BY <1>1, <2>1, ScaledIsBetween
  <2>3. Scaled(v, u) \in Nat /\ Scaled(v, u) <= 10 * KB
    BY <1>1, <2>1, ScaledIsBetween
  <2>4. l.tenths <= 10 * KB /\ l.tenths \in Nat
    BY <1>2, <1>3, <2>1, <2>3, SMT
  <2>5. k.tenths = Scaled(w, x)
    BY <1>2, <2>1
  <2>6. k.tenths * KB >= 10 * KB
    BY <1>3, <2>2, <2>5, FactorsKeepOrder
  <2>7. k.tenths * KB >= l.tenths
    BY <1>3, <2>2, <2>4, <2>5, <2>6, SMT
  <2> QED
    BY <1>1, <1>2, <1>5, <2>1, <2>7, SMT DEF AtLeast
<1> QED
  BY <1>4, <1>5 DEF k, l

----------------------------------------------------------------------------
\* What is drawn was seen a second from now at the latest.
LabelOK == age \in Int /\ age >= -1 /\ amount \in Nat

\* Labels move with what they name, over any time between two drawings and any amounts
\* (format.ts, ago and bytes).
THEOREM LabelsStayInOrder == LabelSpec => LabelsKeepOrder
<1> DEFINE Order ==
      /\ Ago(age') >= Ago(age)
      /\ 2 * (Ago(age') - age') <= (IF age' < 60 THEN 2 ELSE IF age' < HOUR THEN MINUTE
                                    ELSE IF age' < DAY THEN HOUR + MINUTE ELSE DAY + HOUR + MINUTE)
      /\ 2 * (age' - Ago(age')) <= (IF age' < 60 THEN 0 ELSE IF age' < HOUR THEN MINUTE
                                    ELSE IF age' < DAY THEN HOUR + MINUTE ELSE DAY + HOUR + MINUTE)
      /\ amount' >= amount => AtLeast(BytesLabel(amount'), BytesLabel(amount))
<1>1. LabelInit => LabelOK
  BY LabelAssumption DEF LabelInit, LabelOK
<1>2. LabelOK /\ [LabelNext]_labelVars => LabelOK' /\ (LabelNext => age <= age')
  BY LabelAssumption DEF LabelOK, LabelNext, DrawAgain, Measure, labelVars
<1>3. LabelOK /\ LabelOK' /\ age <= age' => Order
  <2> SUFFICES ASSUME LabelOK, LabelOK', age <= age' PROVE Order
    OBVIOUS
  <2>1. age \in Int /\ age' \in Int /\ age' >= -1 /\ amount \in Nat /\ amount' \in Nat
    BY DEF LabelOK
  <2>2. Ago(age) <= Ago(age') /\ Ago(age) \in Nat /\ Ago(age') \in Nat
    BY <2>1, AgoKeepsOrder, AgoIsNear
  <2>3. ~ (age' < -1)
    BY <2>1
  <2>4. /\ 2 * (Ago(age') - age') <= (IF age' < 60 THEN 2 ELSE IF age' < HOUR THEN MINUTE
                                    ELSE IF age' < DAY THEN HOUR + MINUTE ELSE DAY + HOUR + MINUTE)
        /\ 2 * (age' - Ago(age')) <= (IF age' < 60 THEN 0 ELSE IF age' < HOUR THEN MINUTE
                                    ELSE IF age' < DAY THEN HOUR + MINUTE ELSE DAY + HOUR + MINUTE)
    BY <2>1, <2>3, AgoIsNear
  <2>5. amount' >= amount => AtLeast(BytesLabel(amount'), BytesLabel(amount))
    BY <2>1, BytesKeepOrder
  <2> QED
    BY <2>2, <2>4, <2>5
<1>4. LabelOK /\ [LabelNext]_labelVars => [Order]_labelVars
  BY <1>2, <1>3
<1> QED
  BY <1>1, <1>2, <1>4, PTL DEF LabelSpec, LabelsKeepOrder
----------------------------------------------------------------------------
(***************************************************************************)
(* Cards.  A finite set has one sequence in a given order: the place of an *)
(* element is the number of those before it.  A sum is a cardinality: of   *)
(* the pairs of a service and one of its bytes.                            *)
(***************************************************************************)
LEMMA InOrderIs ==
  ASSUME NEW S, IsFiniteSet(S), NEW R,
         \A s, t \in S : s # t => <<s, t>> \in R \/ <<t, s>> \in R,
         \A s, t \in S : <<s, t>> \in R => <<t, s>> \notin R,
         \A s, t, u \in S : <<s, t>> \in R /\ <<t, u>> \in R => <<s, u>> \in R
  PROVE  /\ InOrder(S, R) \in [1..Cardinality(S) -> S]
         /\ \A i, j \in 1..Cardinality(S) : i < j <=> <<InOrder(S, R)[i], InOrder(S, R)[j]>> \in R
         /\ \A s \in S : \E i \in 1..Cardinality(S) : InOrder(S, R)[i] = s
<1> DEFINE n == Cardinality(S)
           Earlier(s) == {t \in S : <<t, s>> \in R}
           place == [s \in S |-> Cardinality(Earlier(s)) + 1]
           Good(p) == \A i, j \in DOMAIN p : i < j => <<p[i], p[j]>> \in R
           q == InOrder(S, R)
<1>1. n \in Nat /\ IsFiniteSet(1..n) /\ Cardinality(1..n) = n
  BY FS_CardinalityType, FS_Interval
<1>2. ASSUME NEW s \in S
      PROVE  IsFiniteSet(Earlier(s)) /\ Cardinality(Earlier(s)) \in Nat /\ Cardinality(Earlier(s)) < n
  <2>1. s \notin Earlier(s)
    OBVIOUS
  <2>2. IsFiniteSet(Earlier(s))
    BY FS_Subset
  <2>3. Cardinality(Earlier(s) \cup {s}) = Cardinality(Earlier(s)) + 1
    BY <2>1, <2>2, FS_AddElement
  <2>4. Cardinality(Earlier(s) \cup {s}) <= n
    <3>1. Earlier(s) \cup {s} \in SUBSET S
      OBVIOUS
    <3> QED
      BY <3>1, FS_Subset
  <2>5. Cardinality(Earlier(s)) \in Nat
    BY <2>2, FS_CardinalityType
  <2> QED
    BY <1>1, <2>2, <2>3, <2>4, <2>5
<1>3. ASSUME NEW s \in S, NEW t \in S, <<s, t>> \in R
      PROVE  Cardinality(Earlier(s)) < Cardinality(Earlier(t))
  <2>1. s \notin Earlier(s)
    OBVIOUS
  <2>2. Cardinality(Earlier(s) \cup {s}) = Cardinality(Earlier(s)) + 1
    BY <1>2, <2>1, FS_AddElement
  <2>3. Cardinality(Earlier(s) \cup {s}) <= Cardinality(Earlier(t))
    <3>1. Earlier(s) \cup {s} \in SUBSET Earlier(t)
      BY <1>3
    <3> QED
      BY <1>2, <3>1, FS_Subset
  <2>4. Cardinality(Earlier(s)) \in Nat /\ Cardinality(Earlier(t)) \in Nat
    BY <1>2
  <2> HIDE DEF Earlier
  <2> QED
    BY <2>2, <2>3, <2>4
<1>4. /\ place \in [S -> 1..n]
      /\ \A s, t \in S : <<s, t>> \in R => place[s] < place[t]
  <2>1. \A s \in S : Cardinality(Earlier(s)) \in Nat /\ Cardinality(Earlier(s)) < n
    BY <1>2
  <2>2. \A s, t \in S : <<s, t>> \in R => Cardinality(Earlier(s)) < Cardinality(Earlier(t))
    BY <1>3
  <2> HIDE DEF Earlier, n
  <2> QED
    BY <1>1, <2>1, <2>2
<1> HIDE DEF place
<1>5. place \in Surjection(S, 1..n)
  <2>1. \A s, t \in S : place[s] = place[t] => s = t
    <3>1. \A s \in S : place[s] \in Nat
      BY <1>1, <1>4
    <3>2. \A s, t \in S : s # t => place[s] < place[t] \/ place[t] < place[s]
      BY <1>4
    <3> QED
      BY <3>1, <3>2
  <2>2. place \in Injection(S, 1..n)
    BY <1>4, <2>1 DEF Injection, IsInjective
  <2> QED
    BY <1>1, <2>2, FS_Injection
<1>6. \E p \in [1..n -> S] : Good(p)
  <2> DEFINE p == [i \in 1..n |-> CHOOSE s \in S : place[s] = i]
  <2>1. \A i \in 1..n : \E s \in S : place[s] = i
    BY <1>5 DEF Surjection
  <2>2. p \in [1..n -> S] /\ \A i \in 1..n : place[p[i]] = i
    BY <2>1
  <2> HIDE DEF p
  <2>3. ASSUME NEW i \in 1..n, NEW j \in 1..n, i < j PROVE <<p[i], p[j]>> \in R
    <3>1. p[i] \in S /\ p[j] \in S /\ place[p[i]] = i /\ place[p[j]] = j
      BY <2>2
    <3>2. i \in Int /\ j \in Int
      BY <1>1
    <3>3. ~ (<<p[j], p[i]>> \in R)
      BY <1>4, <2>3, <3>1, <3>2
    <3>4. p[i] # p[j]
      BY <2>3, <3>1, <3>2
    <3> QED
      BY <3>1, <3>3, <3>4
  <2> QED
    BY <2>2, <2>3
<1>7. q \in [1..n -> S] /\ Good(q)
  <2>1. q = CHOOSE p \in [1..n -> S] : Good(p)
    BY DEF InOrder
  <2> HIDE DEF Good, q, n
  <2> QED
    BY <1>6, <2>1
<1> HIDE DEF q, n
<1>8. \A i, j \in 1..n : i < j <=> <<q[i], q[j]>> \in R
  <2> SUFFICES ASSUME NEW i \in 1..n, NEW j \in 1..n PROVE i < j <=> <<q[i], q[j]>> \in R
    OBVIOUS
  <2>1. i \in Int /\ j \in Int /\ q[i] \in S /\ q[j] \in S /\ DOMAIN q = 1..n
    BY <1>1, <1>7
  <2>2. i < j => <<q[i], q[j]>> \in R
    BY <1>7, <2>1
  <2>3. j < i => <<q[j], q[i]>> \in R
    BY <1>7, <2>1
  <2>4. i = j => <<q[i], q[j]>> \notin R
    BY <2>1
  <2> QED
    BY <2>1, <2>2, <2>3, <2>4
<1>9. \A s \in S : \E i \in 1..n : q[i] = s
  <2>1. \A i, j \in 1..n : q[i] = q[j] => i = j
    <3> SUFFICES ASSUME NEW i \in 1..n, NEW j \in 1..n, q[i] = q[j] PROVE i = j
      OBVIOUS
    <3>1. i \in Int /\ j \in Int /\ q[i] \in S
      BY <1>1, <1>7
    <3>2. <<q[i], q[i]>> \notin R
      BY <3>1
    <3>3. ~ (i < j) /\ ~ (j < i)
      BY <1>8, <3>2
    <3> QED
      BY <3>1, <3>3
  <2>2. q \in Injection(1..n, S)
    BY <1>7, <2>1 DEF Injection, IsInjective
  <2>3. q \in Surjection(1..n, S)
    BY <1>1, <2>2, FS_Injection DEF n
  <2> QED
    BY <2>3 DEF Surjection
<1> QED
  BY <1>7, <1>8, <1>9 DEF q, n

\* Every service has so many bytes, and the services so many together.
Units(S) == UNION {{s} \X (1..Bytes(s)) : s \in S}

LEMMA BytesAreNatural == \A s : Bytes(s) \in Nat
BY DEF Bytes

LEMMA UnitsAddUp ==
  ASSUME NEW S, IsFiniteSet(S)
  PROVE  /\ IsFiniteSet(Units(S)) /\ Cardinality(Units(S)) \in Nat
         /\ \A x \in S : Cardinality(Units(S)) = Bytes(x) + Cardinality(Units(S \ {x}))
<1> DEFINE Bar(s) == {s} \X (1..Bytes(s))
<1>1. ASSUME NEW s PROVE IsFiniteSet(Bar(s)) /\ Cardinality(Bar(s)) = Bytes(s) /\ Bytes(s) \in Nat
  <2>1. Bytes(s) \in Nat
    BY BytesAreNatural
  <2>2. IsFiniteSet(1..Bytes(s)) /\ Cardinality(1..Bytes(s)) = Bytes(s)
    BY <2>1, FS_Interval
  <2>3. IsFiniteSet({s}) /\ Cardinality({s}) = 1
    BY FS_Singleton
  <2>4. IsFiniteSet(Bar(s)) /\ Cardinality(Bar(s)) = 1 * Bytes(s)
    BY <2>2, <2>3, FS_Product
  <2> QED
    BY <2>1, <2>4
<1>2. ASSUME NEW T, IsFiniteSet(T) PROVE IsFiniteSet(Units(T)) /\ Cardinality(Units(T)) \in Nat
  <2> DEFINE B == {Bar(s) : s \in T}
             f == [s \in T |-> Bar(s)]
  <2>1. f \in Surjection(T, B)
    BY DEF Surjection
  <2>2. IsFiniteSet(B)
    <3> HIDE DEF f, B
    <3> QED
      BY <1>2, <2>1, FS_Surjection
  <2>3. \A b \in B : IsFiniteSet(b)
    BY <1>1
  <2>4. Units(T) = UNION B
    BY DEF Units
  <2>5. IsFiniteSet(UNION B)
    <3> HIDE DEF B
    <3> QED
      BY <2>2, <2>3, FS_UNION
  <2> QED
    BY <2>4, <2>5, FS_CardinalityType
<1>3. ASSUME NEW x \in S PROVE Cardinality(Units(S)) = Bytes(x) + Cardinality(Units(S \ {x}))
  <2> DEFINE U == Units(S \ {x})
             b == Bar(x)
  <2>1. Units(S) = b \cup U
    BY DEF Units
  <2>2. b \cap U = {}
    BY DEF Units
  <2>3. IsFiniteSet(U) /\ Cardinality(U) \in Nat
    BY <1>2, FS_RemoveElement
  <2>4. IsFiniteSet(b) /\ Cardinality(b) = Bytes(x) /\ Bytes(x) \in Nat
    BY <1>1
  <2> HIDE DEF U, b
  <2>5. Cardinality(b \cup U) = Cardinality(b) + Cardinality(U) - Cardinality({})
    BY <2>2, <2>3, <2>4, FS_Union
  <2>6. Cardinality({}) = 0
    BY FS_EmptySet
  <2>7. Cardinality(Units(S)) = Bytes(x) + Cardinality(U)
    BY <2>1, <2>3, <2>4, <2>5, <2>6
  <2> QED
    BY <2>7 DEF U
<1> QED
  BY <1>2, <1>3

LEMMA BytesAreUnits ==
  ASSUME NEW S, IsFiniteSet(S)
  PROVE  BytesOf(S) = Cardinality(Units(S)) /\ BytesOf(S) \in Nat
<1> DEFINE Some(T) == CHOOSE x \in T : TRUE
           Sums(f) == f = [T \in SUBSET S |-> IF T = {} THEN 0 ELSE Bytes(Some(T)) + f[T \ {Some(T)}]]
           units == [T \in SUBSET S |-> Cardinality(Units(T))]
           sum == CHOOSE f : Sums(f)
           Failing == {n \in Nat : \E T \in SUBSET S : Cardinality(T) = n /\ sum[T] # Cardinality(Units(T))}
<1>1. BytesOf(S) = sum[S]
  BY DEF BytesOf, MapThenSumSet, MapThenFoldSet
<1>2. Cardinality(Units({})) = 0
  <2>1. Units({}) = {}
    BY DEF Units
  <2> QED
    BY <2>1, FS_EmptySet
<1>3. \A T \in SUBSET S : T # {} => Cardinality(Units(T)) = Bytes(Some(T)) + Cardinality(Units(T \ {Some(T)}))
  <2> SUFFICES ASSUME NEW T \in SUBSET S, T # {}
               PROVE  Cardinality(Units(T)) = Bytes(Some(T)) + Cardinality(Units(T \ {Some(T)}))
    OBVIOUS
  <2>1. IsFiniteSet(T)
    BY FS_Subset
  <2>2. Some(T) \in T
    OBVIOUS
  <2> HIDE DEF Some
  <2> QED
    BY <2>1, <2>2, UnitsAddUp
<1>4. Sums(units)
  <2>1. \A T \in SUBSET S : T \ {Some(T)} \in SUBSET S
    OBVIOUS
  <2> HIDE DEF Some
  <2>2. \A T \in SUBSET S :
          Cardinality(Units(T)) = IF T = {} THEN 0 ELSE Bytes(Some(T)) + units[T \ {Some(T)}]
    BY <1>2, <1>3, <2>1
  <2> QED
    BY <2>2
<1>5. Sums(sum)
  <2> HIDE DEF Sums
  <2> QED
    BY <1>4
<1>6. \A T \in SUBSET S : sum[T] = IF T = {} THEN 0 ELSE Bytes(Some(T)) + sum[T \ {Some(T)}]
  <2> HIDE DEF sum, Some
  <2> QED
    BY <1>5
<1> HIDE DEF sum
<1>7. Failing = {}
  <2> SUFFICES ASSUME Failing # {} PROVE FALSE
    OBVIOUS
  <2>1. PICK n \in Failing : \A m \in Failing : n <= m
    BY LeastNatural
  <2>2. PICK T \in SUBSET S : Cardinality(T) = n /\ sum[T] # Cardinality(Units(T))
    OBVIOUS
  <2>3. T # {}
    BY <1>2, <1>6, <2>2
  <2>4. Some(T) \in T
    BY <2>3
  <2>5. IsFiniteSet(T) /\ Cardinality(T \ {Some(T)}) = n - 1 /\ n \in Nat
    <3> HIDE DEF Some
    <3> QED
      BY <2>2, <2>4, FS_Subset, FS_RemoveElement
  <2>6. n - 1 \in Nat
    <3>1. Cardinality(T \ {Some(T)}) \in Nat
      BY <2>5, FS_RemoveElement, FS_CardinalityType
    <3> QED
      BY <2>5, <3>1
  <2>7. n - 1 \notin Failing
    BY <2>1, <2>5, <2>6
  <2>8. T \ {Some(T)} \in SUBSET S
    OBVIOUS
  <2>9. sum[T \ {Some(T)}] = Cardinality(Units(T \ {Some(T)}))
    <3> HIDE DEF Some
    <3> QED
      BY <2>5, <2>6, <2>7, <2>8
  <2> HIDE DEF Some, Failing
  <2> QED
    BY <1>3, <1>6, <2>2, <2>3, <2>9
<1>8. sum[S] = Cardinality(Units(S))
  <2>1. Cardinality(S) \in Nat /\ S \in SUBSET S
    BY FS_CardinalityType
  <2> QED
    BY <1>7, <2>1
<1> QED
  BY <1>1, <1>8, UnitsAddUp

\* What is not measured, or uses nothing, does not count.
LEMMA OnlyThoseCount ==
  ASSUME NEW S, IsFiniteSet(S), NEW T \in SUBSET S, \A s \in S \ T : Bytes(s) = 0
  PROVE  IsFiniteSet(T) /\ BytesOf(T) = BytesOf(S)
<1>1. Units(T) = Units(S)
  <2>1. \A s \in S \ T : {s} \X (1..Bytes(s)) = {}
    OBVIOUS
  <2> QED
    BY <2>1 DEF Units
<1>2. IsFiniteSet(T)
  BY FS_Subset
<1> QED
  BY <1>1, <1>2, BytesAreUnits

LEMMA SomethingCounts ==
  ASSUME NEW S, IsFiniteSet(S), NEW s \in S, Bytes(s) > 0
  PROVE  BytesOf(S) > 0
<1>1. BytesOf(S) = Bytes(s) + Cardinality(Units(S \ {s})) /\ Bytes(s) \in Nat
  BY BytesAreUnits, UnitsAddUp, BytesAreNatural
<1>2. Cardinality(Units(S \ {s})) \in Nat
  BY FS_RemoveElement, UnitsAddUp
<1> QED
  BY <1>1, <1>2

----------------------------------------------------------------------------
(***************************************************************************)
(* The order of the cards, and of a ranking.                               *)
(***************************************************************************)
LEMMA ServicesAreFinite ==
  ASSUME NEW p
  PROVE  /\ IsFiniteSet(ServicesOf(p)) /\ ServicesOf(p) \subseteq Member
         /\ IsFiniteSet(Up(ServicesOf(p))) /\ Up(ServicesOf(p)) \subseteq ServicesOf(p)
         /\ RunningOf(p) \in Nat
<1>1. ServicesOf(p) \in SUBSET Member
  BY DEF ServicesOf
<1>2. Up(ServicesOf(p)) \in SUBSET ServicesOf(p)
  BY DEF Up
<1>3. IsFiniteSet(ServicesOf(p))
  BY <1>1, FamilyAssumption, FS_Subset
<1>4. IsFiniteSet(Up(ServicesOf(p)))
  BY <1>2, <1>3, FS_Subset
<1> QED
  BY <1>1, <1>2, <1>3, <1>4, FS_CardinalityType DEF RunningOf

\* A card is before another exactly if it has more services running, or as many and the name.
CardsInOrder ==
  \A p, q \in Family : Place(p, Cards) < Place(q, Cards) <=> CardBefore(p, q)

LEMMA CardsAreInOrder == CardsInOrder
<1> DEFINE R == {pq \in Family \X Family : CardBefore(pq[1], pq[2])}
           n == Cardinality(Family)
<1>1. \A p \in Family : RunningOf(p) \in Nat /\ p \in Nat
  BY ServicesAreFinite, FamilyAssumption
<1>2. \A p, q \in Family :
        CardBefore(p, q) <=> RunningOf(p) > RunningOf(q) \/ (RunningOf(p) = RunningOf(q) /\ p < q)
  BY DEF CardBefore
<1>3. \A p, q \in Family : <<p, q>> \in R <=> CardBefore(p, q)
  OBVIOUS
<1> HIDE DEF R
<1>4. /\ \A s, t \in Family : s # t => <<s, t>> \in R \/ <<t, s>> \in R
      /\ \A s, t \in Family : <<s, t>> \in R => <<t, s>> \notin R
      /\ \A s, t, u \in Family : <<s, t>> \in R /\ <<t, u>> \in R => <<s, u>> \in R
  BY <1>1, <1>2, <1>3
<1>5. Cards = InOrder(Family, R)
  BY DEF Cards, R
<1>6. /\ Cards \in [1..n -> Family]
      /\ \A i, j \in 1..n : i < j <=> <<Cards[i], Cards[j]>> \in R
      /\ \A p \in Family : \E i \in 1..n : Cards[i] = p
  <2>1. IsFiniteSet(Family)
    BY FamilyAssumption
  <2>2. /\ InOrder(Family, R) \in [1..Cardinality(Family) -> Family]
        /\ \A i, j \in 1..Cardinality(Family) :
             i < j <=> <<InOrder(Family, R)[i], InOrder(Family, R)[j]>> \in R
        /\ \A p \in Family : \E i \in 1..Cardinality(Family) : InOrder(Family, R)[i] = p
    BY <1>4, <2>1, InOrderIs
  <2> QED
    BY <1>5, <2>2
<1>7. n \in Nat
  BY FamilyAssumption, FS_CardinalityType
<1> HIDE DEF n
<1>8. \A p \in Family : Place(p, Cards) \in 1..n /\ Cards[Place(p, Cards)] = p
  BY <1>6 DEF Place
<1>9. ASSUME NEW p \in Family, NEW q \in Family
      PROVE  Place(p, Cards) < Place(q, Cards) <=> CardBefore(p, q)
  <2> DEFINE i == Place(p, Cards)
             j == Place(q, Cards)
  <2>1. i \in 1..n /\ Cards[i] = p /\ j \in 1..n /\ Cards[j] = q
    BY <1>8
  <2> HIDE DEF i, j
  <2>2. i < j <=> <<p, q>> \in R
    BY <1>6, <2>1
  <2> QED
    BY <1>3, <2>2 DEF i, j
<1> QED
  BY <1>9 DEF CardsInOrder

\* Cards change places only when services start or stop, whatever memory does
\* (Overview.tsx:62-64).
THEOREM CardsStayInPlace == CardSpec => CardsKeepTheirPlaces
<1> DEFINE Counts == \A r \in Family : RunningOf(r) \in Nat /\ r \in Nat
<1> DEFINE Still ==
      load' # load =>
        LET before == Cards  after == Cards' IN
        \A p, q \in Family :
          /\ Place(p, before) < Place(q, before) /\ Place(p, after) > Place(q, after)
               => \E s \in ServicesOf(p) \cup ServicesOf(q) : (load[s] = Down) # (load'[s] = Down)
          /\ IsProjectIdle(p)' /\ ~IsProjectIdle(q)' => Place(q, after) < Place(p, after)
<1>1. CardsInOrder
  BY CardsAreInOrder
<1>2. Counts
  BY ServicesAreFinite, FamilyAssumption
<1>3. ASSUME CardsInOrder, CardsInOrder', Counts, Counts', NEW p \in Family, NEW q \in Family
      PROVE  /\ Place(p, Cards) < Place(q, Cards) /\ Place(p, Cards') > Place(q, Cards')
                  => \E s \in ServicesOf(p) \cup ServicesOf(q) : (load[s] = Down) # (load'[s] = Down)
             /\ IsProjectIdle(p)' /\ ~IsProjectIdle(q)' => Place(q, Cards') < Place(p, Cards')
  <2>1. /\ Place(p, Cards) < Place(q, Cards) <=> CardBefore(p, q)
        /\ Place(p, Cards') < Place(q, Cards') <=> CardBefore(p, q)'
        /\ Place(q, Cards') < Place(p, Cards') <=> CardBefore(q, p)'
    BY <1>3 DEF CardsInOrder, Place
  <2>2. /\ CardBefore(p, q) <=> RunningOf(p) > RunningOf(q) \/ (RunningOf(p) = RunningOf(q) /\ p < q)
        /\ CardBefore(q, p)' <=> RunningOf(q)' > RunningOf(p)' \/ (RunningOf(q)' = RunningOf(p)' /\ q < p)
    BY DEF CardBefore
  <2>3. ASSUME NEW r, \A s \in ServicesOf(r) : (load[s] = Down) = (load'[s] = Down)
        PROVE  RunningOf(r)' = RunningOf(r)
    <3>1. Up(ServicesOf(r))' = Up(ServicesOf(r))
      BY <2>3 DEF Up, ServicesOf
    <3> QED
      BY <3>1 DEF RunningOf
  <2>4. ASSUME Place(p, Cards) < Place(q, Cards), Place(p, Cards') > Place(q, Cards'),
               \A s \in ServicesOf(p) \cup ServicesOf(q) : (load[s] = Down) = (load'[s] = Down)
        PROVE  FALSE
    <3>1. RunningOf(p)' = RunningOf(p) /\ RunningOf(q)' = RunningOf(q)
      BY <2>3, <2>4
    <3>2. Place(q, Cards') < Place(p, Cards')
      BY <2>4
    <3> QED
      BY <1>3, <2>1, <2>2, <2>4, <3>1, <3>2
  <2>5. IsProjectIdle(p)' /\ ~IsProjectIdle(q)' => RunningOf(q)' > RunningOf(p)'
    BY <1>3 DEF IsProjectIdle
  <2> QED
    BY <2>1, <2>2, <2>4, <2>5
<1>4. CardsInOrder /\ CardsInOrder' /\ Counts /\ Counts' => [Still]_load
  BY <1>3
<1> HIDE DEF Counts
<1> QED
  BY <1>1, <1>2, <1>4, PTL DEF CardSpec, CardsKeepTheirPlaces

----------------------------------------------------------------------------
(***************************************************************************)
(* The bar of a card.                                                      *)
(***************************************************************************)
UsersOf(p) == {s \in ServicesOf(p) : Bytes(s) > 0}

\* Who uses memory is measured and runs.
LEMMA UsersRun ==
  ASSUME NEW p
  PROVE  /\ IsFiniteSet(UsersOf(p)) /\ UsersOf(p) \subseteq Measured(ServicesOf(p))
         /\ UsersOf(p) \subseteq Up(ServicesOf(p))
         /\ Measured(ServicesOf(p)) \subseteq ServicesOf(p)
         /\ \A s \in ServicesOf(p) \ UsersOf(p) : Bytes(s) = 0
         /\ BytesOf(UsersOf(p)) = BytesOf(ServicesOf(p))
         /\ BytesOf(Measured(ServicesOf(p))) = BytesOf(ServicesOf(p))
         /\ BytesOf(ServicesOf(p)) \in Nat
         /\ (BytesOf(ServicesOf(p)) # 0 <=> UsersOf(p) # {})
<1> DEFINE S == ServicesOf(p)
           M == Measured(S)
           D == UsersOf(p)
<1>1. IsFiniteSet(S)
  BY ServicesAreFinite
<1>2. \A s \in S : load[s] \in Nat => load[s] # Down
  BY MemoryAssumption
<1>3. \A s : (Bytes(s) > 0 => load[s] \in Nat) /\ (load[s] \notin Nat => Bytes(s) = 0) /\ Bytes(s) \in Nat
  BY DEF Bytes
<1>4. D \in SUBSET S /\ M \in SUBSET S /\ D \subseteq M /\ D \subseteq Up(S)
  BY <1>2, <1>3 DEF UsersOf, Measured, Up
<1>5. \A s \in S \ D : Bytes(s) = 0
  <2>1. \A s \in S : Bytes(s) \in Nat /\ (s \notin D => ~ (Bytes(s) > 0))
    BY <1>3 DEF UsersOf
  <2> QED
    BY <2>1
<1>6. \A s \in S \ M : Bytes(s) = 0
  BY <1>3 DEF Measured
<1> HIDE DEF S, M, D
<1>7. IsFiniteSet(D) /\ BytesOf(D) = BytesOf(S) /\ BytesOf(M) = BytesOf(S) /\ BytesOf(S) \in Nat
  BY <1>1, <1>4, <1>5, <1>6, OnlyThoseCount, BytesAreUnits
<1>8. BytesOf(S) # 0 <=> D # {}
  <2>1. ASSUME NEW s \in D PROVE BytesOf(S) > 0
    <3>1. Bytes(s) > 0 /\ s \in S
      BY <1>4 DEF D, UsersOf
    <3> QED
      BY <1>1, <3>1, SomethingCounts
  <2>2. D = {} => BytesOf(S) = 0
    <3>1. Units({}) = {}
      BY DEF Units
    <3>2. BytesOf({}) = 0
      BY <3>1, FS_EmptySet, BytesAreUnits
    <3> QED
      BY <1>7, <3>2
  <2> QED
    BY <1>7, <2>1, <2>2
<1> QED
  BY <1>4, <1>5, <1>7, <1>8 DEF S, M, D

\* Everything that runs is ranked once, the largest first.
LEMMA RankingIs ==
  ASSUME NEW p
  PROVE  /\ RankedByMemory(p) \in [1..RunningOf(p) -> Up(ServicesOf(p))]
         /\ \A i, j \in 1..RunningOf(p) :
              i < j <=> Comes(RankedByMemory(p)[i], RankedByMemory(p)[j])
         /\ \A s \in Up(ServicesOf(p)) : \E i \in 1..RunningOf(p) : RankedByMemory(p)[i] = s
<1> DEFINE U == Up(ServicesOf(p))
           R == {st \in U \X U : Comes(st[1], st[2])}
<1>1. \A s \in U : s \in Nat /\ Bytes(s) \in Nat
  BY ServicesAreFinite, FamilyAssumption, BytesAreNatural
<1>2. \A s, t \in U : <<s, t>> \in R <=> Comes(s, t)
  OBVIOUS
<1>3. \A s, t \in U : Comes(s, t) <=> Bytes(s) > Bytes(t) \/ (Bytes(s) = Bytes(t) /\ s < t)
  BY DEF Comes
<1>4. RankedByMemory(p) = InOrder(U, R) /\ RunningOf(p) = Cardinality(U) /\ IsFiniteSet(U)
  BY ServicesAreFinite DEF RankedByMemory, RunningOf
<1> HIDE DEF R, U
<1>5. /\ \A s, t \in U : s # t => <<s, t>> \in R \/ <<t, s>> \in R
      /\ \A s, t \in U : <<s, t>> \in R => <<t, s>> \notin R
      /\ \A s, t, u \in U : <<s, t>> \in R /\ <<t, u>> \in R => <<s, u>> \in R
  BY <1>1, <1>2, <1>3
<1>6. /\ InOrder(U, R) \in [1..Cardinality(U) -> U]
      /\ \A i, j \in 1..Cardinality(U) : i < j <=> <<InOrder(U, R)[i], InOrder(U, R)[j]>> \in R
      /\ \A s \in U : \E i \in 1..Cardinality(U) : InOrder(U, R)[i] = s
  BY <1>4, <1>5, InOrderIs
<1> DEFINE q == RankedByMemory(p)
           n == RunningOf(p)
<1>7. /\ q \in [1..n -> U]
      /\ \A i, j \in 1..n : i < j <=> <<q[i], q[j]>> \in R
      /\ \A s \in U : \E i \in 1..n : q[i] = s
  BY <1>4, <1>6
<1> HIDE DEF q, n
<1>8. \A i, j \in 1..n : i < j <=> Comes(q[i], q[j])
  BY <1>2, <1>7
<1> QED
  BY <1>7, <1>8 DEF q, n, U

\* The segments are those of the ranking that use memory.
LEMMA SegmentsAre ==
  ASSUME NEW p
  PROVE  \E m \in Nat :
           /\ Segments(p) \in [1..m -> UsersOf(p)]
           /\ \A i, j \in 1..m : i < j => Comes(Segments(p)[i], Segments(p)[j])
           /\ \A s \in UsersOf(p) : \E i \in 1..m : Segments(p)[i] = s
           /\ \A i \in 1..m : Segments(p)[i] = RankedByMemory(p)[1] => i = 1
<1> DEFINE q == RankedByMemory(p)
           n == RunningOf(p)
           K == {i \in DOMAIN q : load[q[i]] \in Nat /\ Bytes(q[i]) > 0}
           R == {ij \in K \X K : ij[1] < ij[2]}
           places == InOrder(K, R)
           m == Cardinality(K)
           g == Segments(p)
<1>1. /\ n \in Nat /\ q \in [1..n -> Up(ServicesOf(p))] /\ Up(ServicesOf(p)) \subseteq ServicesOf(p)
      /\ \A i, j \in 1..n : i < j <=> Comes(q[i], q[j])
      /\ \A s \in Up(ServicesOf(p)) : \E i \in 1..n : q[i] = s
  BY RankingIs, ServicesAreFinite
<1>2. g = [k \in DOMAIN places |-> q[places[k]]]
  BY DEF Segments, Summary
<1> HIDE DEF q, n, g
<1>3. K \in SUBSET (1..n) /\ IsFiniteSet(K) /\ m \in Nat
  <2>1. K \in SUBSET (1..n)
    BY <1>1
  <2>2. IsFiniteSet(1..n)
    BY <1>1, FS_Interval
  <2> HIDE DEF K
  <2> QED
    BY <2>1, <2>2, FS_Subset, FS_CardinalityType
<1>4. \A i \in 1..n : i \in K <=> q[i] \in UsersOf(p)
  <2>1. \A s : Bytes(s) > 0 => load[s] \in Nat
    BY DEF Bytes
  <2> QED
    BY <1>1, <2>1 DEF UsersOf
<1>5. \A i, j \in K : <<i, j>> \in R <=> i < j
  OBVIOUS
<1> HIDE DEF K, R, m
<1>6. /\ \A i, j \in K : i # j => <<i, j>> \in R \/ <<j, i>> \in R
      /\ \A i, j \in K : <<i, j>> \in R => <<j, i>> \notin R
      /\ \A i, j, k \in K : <<i, j>> \in R /\ <<j, k>> \in R => <<i, k>> \in R
  <2>1. \A i \in K : i \in Int
    BY <1>1, <1>3
  <2> QED
    BY <1>5, <2>1
<1>7. /\ places \in [1..m -> K]
      /\ \A i, j \in 1..m : i < j <=> <<places[i], places[j]>> \in R
      /\ \A k \in K : \E i \in 1..m : places[i] = k
  BY <1>3, <1>6, InOrderIs DEF m
<1> HIDE DEF places
<1>8. DOMAIN places = 1..m /\ \A i \in 1..m : places[i] \in K /\ places[i] \in 1..n /\ places[i] \in Int
  <2>1. \A k \in K : k \in 1..n /\ k \in Int
    BY <1>1, <1>3
  <2>2. DOMAIN places = 1..m /\ \A i \in 1..m : places[i] \in K
    BY <1>7
  <2> QED
    BY <2>1, <2>2
<1>9. g \in [1..m -> UsersOf(p)] /\ \A i \in 1..m : g[i] = q[places[i]]
  BY <1>2, <1>4, <1>8
<1>10. \A i, j \in 1..m : i < j => Comes(g[i], g[j])
  <2> SUFFICES ASSUME NEW i \in 1..m, NEW j \in 1..m, i < j PROVE Comes(g[i], g[j])
    OBVIOUS
  <2>1. places[i] < places[j]
    BY <1>5, <1>7, <1>8
  <2>2. Comes(q[places[i]], q[places[j]])
    BY <1>1, <1>8, <2>1
  <2> QED
    BY <1>9, <2>2
<1>11. \A s \in UsersOf(p) : \E i \in 1..m : g[i] = s
  <2> SUFFICES ASSUME NEW s \in UsersOf(p) PROVE \E i \in 1..m : g[i] = s
    OBVIOUS
  <2>1. s \in Up(ServicesOf(p))
    BY UsersRun
  <2>2. PICK k \in 1..n : q[k] = s
    BY <1>1, <2>1
  <2>3. k \in K
    BY <1>4, <2>2
  <2>4. PICK i \in 1..m : places[i] = k
    BY <1>7, <2>3
  <2> QED
    BY <1>9, <2>2, <2>4
<1>12. \A i \in 1..m : g[i] = q[1] => i = 1
  <2> SUFFICES ASSUME NEW i \in 1..m, g[i] = q[1], i # 1 PROVE FALSE
    OBVIOUS
  <2>1. 1 \in 1..m /\ 1 < i
    BY <1>3
  <2>2. places[1] < places[i]
    BY <1>5, <1>7, <1>8, <2>1
  <2>3. places[1] \in 1..n /\ places[i] \in 1..n /\ 1 \in 1..n /\ 1 < places[i]
    BY <1>1, <1>8, <2>1, <2>2
  <2>4. Comes(q[1], q[places[i]]) /\ q[places[i]] = q[1]
    BY <1>1, <1>9, <2>3
  <2>5. Comes(q[1], q[1])
    BY <2>4
  <2> QED
    BY <1>1, <2>3, <2>5
<1> QED
  BY <1>3, <1>9, <1>10, <1>11, <1>12 DEF g, q

\* What is ordered has nothing twice.
LEMMA NoneIsTwice ==
  ASSUME NEW m \in Nat, NEW S, NEW g \in [1..m -> S], S \subseteq Nat,
         \A i, j \in 1..m : i < j => Comes(g[i], g[j])
  PROVE  Cardinality(ToSet(g)) = m /\ g \in Seq(S) /\ Len(g) = m
<1>1. \A i, j \in 1..m : g[i] = g[j] => i = j
  <2> SUFFICES ASSUME NEW i \in 1..m, NEW j \in 1..m, g[i] = g[j], i < j PROVE FALSE
    OBVIOUS
  <2>1. g[i] \in Nat /\ Bytes(g[i]) \in Nat
    BY BytesAreNatural
  <2>2. Comes(g[i], g[i])
    OBVIOUS
  <2> QED
    BY <2>1, <2>2 DEF Comes
<1>2. g \in Surjection(1..m, ToSet(g))
  BY DEF ToSet, Surjection
<1>3. g \in Injection(1..m, ToSet(g))
  BY <1>1, <1>2 DEF Injection, Surjection, IsInjective
<1>4. IsFiniteSet(1..m) /\ Cardinality(1..m) = m
  BY FS_Interval
<1>5. Cardinality(ToSet(g)) = m
  BY <1>2, <1>3, <1>4, FS_Surjection
<1> QED
  BY <1>5

\* The chips are the first of the ranking.
LEMMA ChipsAre ==
  ASSUME NEW p
  PROVE  /\ ToSet(Chips(p)) \subseteq Up(ServicesOf(p))
         /\ Cardinality(ToSet(Chips(p))) = IF RunningOf(p) < CHIP_LIMIT THEN RunningOf(p) ELSE CHIP_LIMIT
<1> DEFINE q == RankedByMemory(p)
           n == RunningOf(p)
           U == Up(ServicesOf(p))
           k == IF n < CHIP_LIMIT THEN n ELSE CHIP_LIMIT
           c == Chips(p)
<1>1. n \in Nat /\ q \in [1..n -> U] /\ \A i, j \in 1..n : i < j => Comes(q[i], q[j])
  BY RankingIs, ServicesAreFinite
<1>2. U \subseteq Nat
  BY ServicesAreFinite, FamilyAssumption
<1>3. c = SubSeq(q, 1, IF Len(q) < CHIP_LIMIT THEN Len(q) ELSE CHIP_LIMIT)
  BY DEF Chips, Summary
<1> HIDE DEF q, n, U, c
<1>4. q \in Seq(U) /\ Len(q) = n
  BY <1>1
<1>5. k \in Nat /\ k <= n
  BY <1>1 DEF CHIP_LIMIT
<1>6. c = SubSeq(q, 1, k)
  BY <1>3, <1>4
<1> HIDE DEF k
<1>7. c \in [1..k -> U] /\ \A i \in 1..k : c[i] = q[i]
  <2>1. n \in Nat /\ q \in Seq(U) /\ Len(q) = n /\ k \in Nat /\ k <= n
    BY <1>1, <1>4, <1>5
  <2>2. Len(c) = k
    BY <1>6, <2>1
  <2>3. \A i \in 1..k : c[i] = q[i]
    BY <1>6, <2>1
  <2>4. DOMAIN c = 1..k /\ c = [i \in 1..k |-> c[i]]
    BY <1>6, <2>1
  <2>5. \A i \in 1..k : c[i] \in U
    BY <1>1, <1>5, <2>3
  <2> HIDE DEF k
  <2> QED
    BY <2>3, <2>4, <2>5
<1>8. \A i, j \in 1..k : i < j => Comes(c[i], c[j])
  <2>1. \A i \in 1..k : i \in 1..n
    BY <1>1, <1>5
  <2> QED
    BY <1>1, <1>7, <2>1
<1>9. Cardinality(ToSet(c)) = k
  BY <1>2, <1>5, <1>7, <1>8, NoneIsTwice
<1>10. ToSet(c) \subseteq U
  BY <1>7 DEF ToSet
<1> QED
  BY <1>9, <1>10 DEF c, k, n, U

\* An amber segment is the largest service's, and half of the bar.
LEMMA AmberIsHalf ==
  ASSUME NEW p, NEW i, Tone(p, i) = "amber"
  PROVE  /\ Segments(p)[i] = RankedByMemory(p)[1]
         /\ 2 * Bytes(Segments(p)[i]) >= BytesOf(ServicesOf(p))
<1>1. Segments(p)[i] \in Dominant(p)
  BY DEF Tone, Summary
<1>2. BytesOf(Measured(ServicesOf(p))) = BytesOf(ServicesOf(p))
  BY UsersRun
<1> QED
  BY <1>1, <1>2 DEF Dominant

LEMMA BarsAddUp == BarAddsUp
<1> SUFFICES ASSUME NEW p \in Family
             PROVE  LET card     == CardBody(p)
                        segments == card.bar
                        drawn    == ToSet(segments)
                    IN /\ segments # <<>> <=> \E s \in ServicesOf(p) : Bytes(s) > 0
                       /\ Len(segments) = Cardinality(drawn) /\ drawn \subseteq Measured(ServicesOf(p))
                       /\ BytesOf(drawn) = card.memory
                       /\ ToSet(card.chips) \subseteq Up(ServicesOf(p))
                       /\ Cardinality(ToSet(card.chips)) = (IF card.running < CHIP_LIMIT THEN card.running
                                                             ELSE CHIP_LIMIT)
                       /\ \A i, j \in DOMAIN segments : i < j => Bytes(segments[i]) >= Bytes(segments[j])
                       /\ \A i \in DOMAIN segments : Bytes(segments[i]) > 0
                       /\ \A i \in DOMAIN segments : Tone(p, i) = "amber" =>
                            i = 1 /\ 2 * Bytes(segments[i]) >= BytesOf(drawn)
  BY DEF BarAddsUp
<1> DEFINE S == ServicesOf(p)
           D == UsersOf(p)
           g == Segments(p)
           card == CardBody(p)
           bar == card.bar
<1>1. PICK m \in Nat : /\ g \in [1..m -> D]
                       /\ \A i, j \in 1..m : i < j => Comes(g[i], g[j])
                       /\ \A s \in D : \E i \in 1..m : g[i] = s
                       /\ \A i \in 1..m : g[i] = RankedByMemory(p)[1] => i = 1
  BY SegmentsAre
<1>2. /\ D \subseteq Measured(S) /\ D \subseteq Up(S)
      /\ BytesOf(D) = BytesOf(S) /\ BytesOf(S) \in Nat /\ (BytesOf(S) # 0 <=> D # {})
  BY UsersRun
<1>3. D \subseteq Nat /\ (D # {} <=> \E s \in S : Bytes(s) > 0) /\ \A s \in D : Bytes(s) > 0
  <2>1. S \subseteq Nat
    BY ServicesAreFinite, FamilyAssumption
  <2> QED
    BY <2>1 DEF UsersOf
<1>4. Cardinality(ToSet(g)) = m /\ g \in Seq(D) /\ Len(g) = m
  <2> HIDE DEF g, D
  <2> QED
    BY <1>1, <1>3, NoneIsTwice
<1>5. ToSet(g) = D
  BY <1>1 DEF ToSet
<1>6. g # <<>> <=> D # {}
  <2>1. g # <<>> <=> m # 0
    BY <1>4
  <2>2. m = 0 => D = {}
    BY <1>1
  <2>3. m # 0 => D # {}
    <3>1. m # 0 => 1 \in 1..m
      BY <1>1
    <3> QED
      BY <1>1, <3>1
  <2> QED
    BY <2>1, <2>2, <2>3
<1>7. bar = g /\ card.memory = BytesOf(S) /\ card.running = RunningOf(p)
  <2>1. CASE IsProjectIdle(p)
    <3>1. bar = <<>> /\ card.memory = 0 /\ card.running = 0 /\ RunningOf(p) = 0
      BY <2>1 DEF CardBody, IdleBody, IsProjectIdle
    <3>2. Up(S) = {}
      BY <3>1, ServicesAreFinite, FS_EmptySet DEF RunningOf
    <3>3. D = {}
      BY <1>2, <3>2
    <3> HIDE DEF bar, card, g, D, S
    <3> QED
      BY <1>2, <1>6, <3>1, <3>3
  <2>2. CASE ~IsProjectIdle(p)
    <3>1. /\ bar = (IF HasBar(p) THEN g ELSE <<>>)
          /\ card.memory = BytesOf(S) /\ card.running = RunningOf(p)
      BY <2>2 DEF CardBody, RunningBody, Summary
    <3>2. HasBar(p) <=> g # <<>> /\ BytesOf(S) # 0
      BY <2>2 DEF HasBar, Summary
    <3> HIDE DEF bar, card, g, D, S
    <3> QED
      BY <1>2, <1>6, <3>1, <3>2
  <2> QED
    BY <2>1, <2>2
<1>8. /\ ToSet(card.chips) \subseteq Up(S)
      /\ Cardinality(ToSet(card.chips)) = IF RunningOf(p) < CHIP_LIMIT THEN RunningOf(p) ELSE CHIP_LIMIT
  <2>1. CASE IsProjectIdle(p)
    <3>1. card.chips = <<>> /\ RunningOf(p) = 0
      BY <2>1 DEF CardBody, IdleBody, IsProjectIdle
    <3>2. ToSet(card.chips) = {}
      BY <3>1 DEF ToSet
    <3> QED
      BY <3>1, <3>2, FS_EmptySet DEF CHIP_LIMIT
  <2>2. CASE ~IsProjectIdle(p)
    <3>1. card.chips = Chips(p)
      BY <2>2 DEF CardBody, RunningBody
    <3> QED
      BY <3>1, ChipsAre
  <2> QED
    BY <2>1, <2>2
<1>9. DOMAIN g = 1..m /\ \A i \in 1..m : g[i] \in D
  BY <1>1
<1>10. \A i, j \in 1..m : i < j => Bytes(g[i]) >= Bytes(g[j])
  <2>1. \A s : Bytes(s) \in Nat
    BY BytesAreNatural
  <2>2. \A i, j \in 1..m : i < j => Bytes(g[i]) > Bytes(g[j]) \/ Bytes(g[i]) = Bytes(g[j])
    BY <1>1 DEF Comes
  <2> HIDE DEF g
  <2> QED
    BY <2>1, <2>2
<1>11. \A i \in 1..m : Tone(p, i) = "amber" => i = 1 /\ 2 * Bytes(g[i]) >= BytesOf(S)
  BY <1>1, AmberIsHalf
<1> HIDE DEF S, D, g, card, bar
<1>12. LET drawn == ToSet(bar)
       IN /\ bar # <<>> <=> \E s \in S : Bytes(s) > 0
          /\ Len(bar) = Cardinality(drawn) /\ drawn \subseteq Measured(S)
          /\ BytesOf(drawn) = card.memory
          /\ \A i, j \in DOMAIN bar : i < j => Bytes(bar[i]) >= Bytes(bar[j])
          /\ \A i \in DOMAIN bar : Bytes(bar[i]) > 0
          /\ \A i \in DOMAIN bar : Tone(p, i) = "amber" => i = 1 /\ 2 * Bytes(bar[i]) >= BytesOf(drawn)
  BY <1>2, <1>3, <1>4, <1>5, <1>6, <1>7, <1>9, <1>10, <1>11
<1> QED
  BY <1>7, <1>8, <1>12 DEF S, bar, card

\* The bar of a card adds up for whatever a tick has observed of any services
\* (ProjectCard.tsx:112-143, attribution.rs:77-108).
THEOREM BarsAlwaysAddUp == CardSpec => []BarAddsUp
<1>1. BarAddsUp
  BY BarsAddUp
<1> QED
  BY <1>1, PTL
=============================================================================
