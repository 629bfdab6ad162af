------------------------------- MODULE Tones -------------------------------
(***************************************************************************)
(* What the tone generator and the tone analyser have in common: the phase *)
(* as a fraction of a turn, the quarter of a period that a table holds,    *)
(* and the container of the samples between them.                          *)
(***************************************************************************)
EXTENDS Integers, Sequences

CONSTANTS
  Turn,        \* units of phase in a turn, 2^32 in the code
  PointSize,   \* units of phase from one point of a table to the next, 2^22
  Channels,    \* samples of a sample set
  InputShift,  \* 2^16: the sample is the upper half of its container
  WindowLimit  \* the longest window, in sample sets

ASSUME TonesAssumption ==
  /\ Turn \in Nat \ {0} /\ PointSize \in Nat \ {0} /\ Turn % (4 * PointSize) = 0
  /\ Channels \in Nat \ {0} /\ InputShift \in Nat \ {0} /\ WindowLimit \in Nat \ {0}

\* Points of a table, which has the first of the next quarter as well.
QuarterPoints == Turn \div (4 * PointSize)

\* The other three quarters mirror the index, the sign, or both.
Mirrored(table, point) ==
  LET index == point % QuarterPoints
  IN CASE (point \div QuarterPoints) % 4 = 0 -> table[index]
       [] (point \div QuarterPoints) % 4 = 1 -> table[QuarterPoints - index]
       [] (point \div QuarterPoints) % 4 = 2 -> -table[index]
       [] OTHER -> -table[QuarterPoints - index]

\* The phase a tone advances by each sample, rounded to the nearest.
PhaseStep(freq, rate) == (freq * Turn + rate \div 2) \div rate
=============================================================================
