----------------------------- MODULE MCToneLink -----------------------------
(* Tones of periods 4 and 6 on a window of 12 sample sets, where every       *)
(* number is exact, a third one of period 3, and a run of 14 sample sets.  A *)
(* shorter run, over before a window is full, has a tone whose phases fall   *)
(* between the points of the table.                                          *)
EXTENDS ToneLink

MCTable == [i \in 0..3 |-> <<0, 1, 2, 2>>[i + 1]]
MCExpected == <<6, 4>>

Gen(freq, amplitude, duration) == [freq |-> freq, amplitude |-> amplitude, duration |-> duration]
Run == Gen(<<6, 4>>, 1, 28)
MCSetups ==
  [generator : {Run}, wiring : {"straight", "swapped", "cut", "clicks", "click"}]
    \union [generator : {Gen(<<6, 4>>, 1, 0), Gen(<<6, 8>>, 1, 28), Gen(<<6, 4>>, 0, 28),
                         Gen(<<6, 3>>, 1, 20), Gen(<<6>>, 1, 0), Gen(<<6, 12>>, 1, 28),
                         Gen(<<6, 4>>, 1, 27)},
            wiring : {"straight"}]
MCDefinitions == {s.generator : s \in MCSetups}
MCPeriods ==
  [f \in {3, 4, 6, 8} |-> CASE f = 4 -> <<0, 2, 2, 0, -2, -2>> [] f = 6 -> <<0, 2, 0, -2>>
                         [] f = 8 -> <<0, 2, -2>> [] f = 3 -> <<0, 1, 2, 2, 0, -1, -2, -2>>]

MCFormats == {[rate |-> r, channels |-> c] : r \in {0, 24, 100}, c \in {1, 2}}
MCClicks == [w \in {"clicks", "click"} |-> IF w = "click" THEN 12 ELSE 6]
MCRootBits == <<256, 64, 16, 4, 1>>

\* The hypotheses of the theorems on the stream and on the verdicts hold here.
ASSUME ExactAssumption == TableIsExact
ASSUME ToldAssumption == SignalsAreTold
=============================================================================
