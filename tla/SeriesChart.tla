----------------------------- MODULE SeriesChart -----------------------------
(***************************************************************************)
(* One measured series on the screen: SeriesChart and SeriesChartPlot of   *)
(* apps/web/components/SeriesChart.tsx and the geometry of                 *)
(* apps/web/lib/sparkline.ts.                                              *)
(*                                                                         *)
(* The samples come from a poll, the width of the wrapper from the layout  *)
(* of the page, the pointer from the user: three clocks, and the chart is  *)
(* drawn from what it remembers of each.                                   *)
(*                                                                         *)
(* Abstractions.  The time of a sample is left out.  A value is counted in *)
(* tenths of its unit, so that values below one are among them.  Fractions *)
(* are compared by their numerators over a common denominator.             *)
(***************************************************************************)
EXTENDS Integers, Sequences

CONSTANTS
  Value,         \* the values of samples, in tenths
  MaxSamples,    \* samples the daemon retains
  WrapperWidth,  \* the widths the layout may give the wrapper, in pixels; 0 while it is hidden
  NoPointer      \* pointerX: null

ASSUME ValueAssumption == Value \subseteq Nat
ASSUME WidthAssumption == WrapperWidth \subseteq Nat /\ MaxSamples \in Nat

VARIABLES
  points,   \* the values of the series
  wrapper,  \* the width of the wrapper element on the page
  width,    \* the width the chart knows
  pointer   \* pointerX, as the fraction x / of in the units of the chart

chartVars == <<points, wrapper, width, pointer>>

CHART_HEIGHT == 140
One == 10

Larger(a, b) == IF a > b THEN a ELSE b

Series == UNION {[1..n -> Value] : n \in 0..MaxSamples}

\* Fewer than two samples are a line of text, and the plot with its state is unmounted.
Plotted(ps) == Len(ps) >= 2

PlotWidth == Larger(width, 1)

\* Fault: the scale is that of the newest value.
PeakOfLast(ps) == Larger(ps[Len(ps)], One)

\* max: the largest value, and never less than one.
Peak(ps) == CHOOSE m \in {ps[i] : i \in DOMAIN ps} \cup {One} :
              m >= One /\ \A i \in DOMAIN ps : ps[i] <= m

----------------------------------------------------------------------------
\* Fault: the pointer is taken to be over the chart.
SampleAtUnpinned(p, plotWidth, count) ==
  LET whole == p.of * plotWidth IN (2 * p.x * (count - 1) + whole) \div (2 * whole)

\* sparklineIndexAt: the sample nearest to the pointer, which is pinned to the chart.
SampleAt(p, plotWidth, count) ==
  LET whole  == p.of * plotWidth
      pinned == IF p.x < 0 THEN 0 ELSE IF p.x > whole THEN whole ELSE p.x
  IN (2 * pinned * (count - 1) + whole) \div (2 * whole)

Hovering == pointer # NoPointer
Hover == SampleAt(pointer, PlotWidth, Len(points))

\* sparklineX and sparklineY, times Len(points) - 1 and times Peak(points).
SampleX(i) == i * PlotWidth
SampleY(v) == (CHART_HEIGHT - 4) * Peak(points) - v * Larger(1, CHART_HEIGHT - 8)

TooltipHangsLeft == 2 * Hover > Len(points) - 1

----------------------------------------------------------------------------
ChartInit == points = <<>> /\ wrapper \in WrapperWidth /\ width = 0 /\ pointer = NoPointer

\* A poll brings a series.  A plot that appears measures its wrapper, one that goes forgets.
NewPoints(ps) ==
  /\ points' = ps
  /\ width' = IF ~Plotted(ps) THEN 0 ELSE IF Plotted(points) THEN width ELSE wrapper
  /\ pointer' = IF Plotted(ps) THEN pointer ELSE NoPointer
  /\ UNCHANGED wrapper

\* The page is laid out anew.  What is drawn is stretched at once (the view box has no fixed
\* size), the observer is called later.
Relayout(w) == wrapper' = w /\ UNCHANGED <<points, width, pointer>>

\* A hidden wrapper has no width and leaves the chart its last one.
ResizeObserved ==
  /\ Plotted(points) /\ wrapper > 0
  /\ width' = wrapper
  /\ UNCHANGED <<points, wrapper, pointer>>

\* Fault: the pixel under the pointer is taken for a unit of the chart.
MoveInPixels(px) ==
  /\ Plotted(points) /\ width > 0 /\ wrapper > 0
  /\ pointer' = [x |-> px, of |-> 1]
  /\ UNCHANGED <<points, wrapper, width>>

Move(px) ==
  /\ Plotted(points) /\ width > 0 /\ wrapper > 0
  /\ pointer' = [x |-> px * PlotWidth, of |-> wrapper]
  /\ UNCHANGED <<points, wrapper, width>>

Leave == pointer' = NoPointer /\ UNCHANGED <<points, wrapper, width>>

\* Rounding can put the pointer a pixel beside the chart it is over.
Pixels == -1..(wrapper + 1)

ChartNext ==
  \/ \E ps \in Series : NewPoints(ps)
  \/ \E w \in WrapperWidth : Relayout(w)
  \/ ResizeObserved
  \/ \E px \in Pixels : Move(px)
  \/ Leave

ChartSpec == ChartInit /\ [][ChartNext]_chartVars

----------------------------------------------------------------------------
(***************************************************************************)
(* Properties.                                                             *)
(***************************************************************************)
\* What is shown under the pointer is one of the samples, even if the chart has shrunk or the
\* series has become shorter since the pointer moved, and its tooltip hangs to the side that
\* has more room.
HoverIsASample ==
  Hovering =>
    /\ Plotted(points) /\ Hover \in 0..(Len(points) - 1)
    /\ IF TooltipHangsLeft THEN 2 * SampleX(Hover) > PlotWidth * (Len(points) - 1)
                           ELSE 2 * SampleX(Hover) <= PlotWidth * (Len(points) - 1)

Distance(a, b) == IF a < b THEN b - a ELSE a - b

\* A pointer that moves is over the sample shown, no other is drawn nearer to it, also while
\* the wrapper has a new width the chart has not heard of.
HoverFollowsPointer ==
  [][\A px \in Pixels : pointer' # pointer /\ Move(px) =>
       \A j \in 0..(Len(points) - 1) :
         Distance(px * (Len(points) - 1), Hover' * wrapper)
           <= Distance(px * (Len(points) - 1), j * wrapper)]_chartVars

\* The curve keeps the margin of four above and below, and nothing it shows is off the chart,
\* whatever the samples are: all zero, all below one, or one far above the others.
CurveStaysInside ==
  \A i \in DOMAIN points :
    /\ 4 * Peak(points) <= SampleY(points[i])
    /\ SampleY(points[i]) <= (CHART_HEIGHT - 4) * Peak(points)
=============================================================================
