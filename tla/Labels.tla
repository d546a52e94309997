-------------------------------- MODULE Labels --------------------------------
(***************************************************************************)
(* The two labels of apps/web/lib/format.ts that change their unit: the    *)
(* age of something seen (`ago`) and an amount of memory (`bytes`).        *)
(*                                                                         *)
(* A label is modelled by the quantity it names, in seconds and in bytes,  *)
(* so that two labels can be compared as their reader does.                *)
(***************************************************************************)
EXTENDS Integers

CONSTANTS
  Wait,     \* after how many seconds the page may be drawn again
  MaxAge,   \* bound of the model: seconds
  Amount    \* amounts of memory

ASSUME LabelAssumption ==
  Wait \subseteq Nat /\ MaxAge \in Int /\ Amount \subseteq Nat

VARIABLES
  age,    \* how many seconds ago it was seen; negative if the daemon's clock is ahead
  amount  \* bytes

labelVars == <<age, amount>>

MINUTE == 60
HOUR == 60 * MINUTE
DAY == 24 * HOUR
KB == 1024
MB == 1024 * KB
GB == 1024 * MB

\* Math.round and toFixed for what is not negative: half goes up.
Rounded(n, unit) == (2 * n + unit) \div (2 * unit)

\* Fault: each unit is cut off, the smallest is rounded.
AgoCutOff(a) ==
  LET minutes == a \div 60 hours == Rounded(minutes, 60) IN
  IF a < 60 THEN a ELSE IF minutes < 60 THEN Rounded(a, 60) * MINUTE
  ELSE IF hours < 24 THEN (minutes \div 60) * HOUR ELSE (hours \div 24) * DAY

\* ago: rounded from unit to unit, to the largest unit of which there is one.
Ago(a) ==
  LET seconds == IF a < 0 THEN 0 ELSE a
      minutes == Rounded(seconds, 60)
      hours   == Rounded(minutes, 60)
  IN IF seconds < 60 THEN seconds
     ELSE IF minutes < 60 THEN minutes * MINUTE
     ELSE IF hours < 24 THEN hours * HOUR
     ELSE Rounded(hours, 24) * DAY

\* scaled.toFixed(0) from ten on, scaled.toFixed(1) below, in tenths of the unit.
Scaled(v, unit) ==
  IF v >= 10 * unit THEN 10 * Rounded(v, unit)
  ELSE 10 * (v \div unit) + Rounded(10 * (v % unit), unit)

\* bytes: the unit shown and the number before it, in tenths.
BytesLabel(v) ==
  LET unit == IF v >= GB THEN GB ELSE IF v >= MB THEN MB ELSE IF v >= KB THEN KB ELSE 1
  IN [unit |-> unit, tenths |-> IF unit = 1 THEN 10 * v ELSE Scaled(v, unit)]

\* Whether label k names no less than label l; units differ by a factor of KB at least.
AtLeast(k, l) ==
  IF k.unit = l.unit THEN k.tenths >= l.tenths
  ELSE k.unit > l.unit /\ k.tenths * KB >= l.tenths

----------------------------------------------------------------------------
LabelInit == age = -1 /\ amount \in Amount

DrawAgain(d) == age + d <= MaxAge /\ age' = age + d /\ UNCHANGED amount

Measure(v) == amount' = v /\ UNCHANGED age

LabelNext == (\E d \in Wait : DrawAgain(d)) \/ (\E v \in Amount : Measure(v))

LabelSpec == LabelInit /\ [][LabelNext]_labelVars

----------------------------------------------------------------------------
\* Labels move with what they name, across every change of unit: nothing on the page grows
\* younger while time passes or smaller while it grows; and the age is never off by more than
\* half of the unit shown and half of the next smaller one.
LabelsKeepOrder ==
  [][/\ Ago(age') >= Ago(age)
     /\ 2 * (Ago(age') - age') <= (IF age' < 60 THEN 2 ELSE IF age' < HOUR THEN MINUTE
                                   ELSE IF age' < DAY THEN HOUR + MINUTE ELSE DAY + HOUR + MINUTE)
     /\ 2 * (age' - Ago(age')) <= (IF age' < 60 THEN 0 ELSE IF age' < HOUR THEN MINUTE
                                   ELSE IF age' < DAY THEN HOUR + MINUTE ELSE DAY + HOUR + MINUTE)
     /\ amount' >= amount => AtLeast(BytesLabel(amount'), BytesLabel(amount))]_labelVars
=============================================================================
