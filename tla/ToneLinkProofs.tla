--------------------------- MODULE ToneLinkProofs ---------------------------
(***************************************************************************)
(* Both ends of the link.                                                  *)
(*                                                                         *)
(* The analyser's sums stay inside their type, whatever the samples, the   *)
(* frames and the ways in which windows end.  That they do is an argument  *)
(* about how many samples a sum has seen since it was last reset, so the   *)
(* invariant relates every sum to the place in the window.  The generator  *)
(* keeps the phase that its samples are due at, however they are cut into  *)
(* frames and however long it runs.  A link between the two gives the      *)
(* analyser nothing that it could not meet behind any other node.          *)
(*                                                                         *)
(* Last, a verdict is right.  It is on one window of one stream, which the *)
(* invariant follows from the sample set that the window began with; and   *)
(* it is the right one for every such window, if the thresholds tell the   *)
(* signals apart at each of the offsets within a turn.                     *)
(***************************************************************************)
EXTENDS ToneLink, WellFoundedInduction, TLAPS

-----------------------------------------------------------------------------
(* The analyser behind any upstream. *)

Square == InputMax * InputMax

\* Samples of the channel that the window has.
Held(c) == IF c < channelPos THEN filled + 1 ELSE filled

\* The window in progress is not full, unless it is about to be published.
PlaceInWindow ==
  /\ channelPos \in Chans /\ filled \in Nat
  /\ filled < Window \/ (filled = Window /\ channelPos = 1 /\ anaPc \in {"publish", "published"})

\* Every sum is at most what full scale samples would have made of it.
Bounded(a, n) ==
  /\ a.prev1 \in (-InputMax)..InputMax /\ a.prev2 \in (-InputMax)..InputMax
  /\ a.energy \in Int /\ a.xx \in Int /\ a.yy \in Int /\ a.xy \in Int
  /\ a.energy <= n * Square /\ a.xx <= n * Square /\ a.yy <= 4 * (n * Square)
  /\ a.xy <= 2 * (n * Square) /\ -(2 * (n * Square)) <= a.xy

SumsInv ==
  /\ PlaceInWindow
  /\ sums = [c \in Chans |-> sums[c]]
  /\ \A c \in Chans : Bounded(sums[c], Held(c))
  /\ anaFrame \in Seq(Containers) /\ (anaPc = "samples" => anaFrame # <<>>)

-----------------------------------------------------------------------------

\* Products of bounded numbers are bounded.
LEMMA ProductBound ==
  ASSUME NEW a \in Int, NEW b \in Int, NEW A \in Nat, NEW B \in Nat,
         -A <= a, a <= A, -B <= b, b <= B
  PROVE  -(A * B) <= a * b /\ a * b <= A * B
<1>1. ASSUME NEW x \in Nat, NEW y \in Nat, x <= A, y <= B
      PROVE  x * y <= A * B
  <2>1. x * y <= A * y  BY <1>1
  <2>2. A * y <= A * B  BY <1>1
  <2> QED  BY <2>1, <2>2
<1>2. \A x, y \in Nat : x * y \in Nat  OBVIOUS
<1>3. CASE a >= 0 /\ b >= 0  BY <1>1, <1>2, <1>3
<1>4. CASE a >= 0 /\ b < 0
  <2>1. a * (-b) <= A * B /\ a * (-b) \in Nat  BY <1>1, <1>2, <1>4
  <2> QED  BY <2>1, <1>4
<1>5. CASE a < 0 /\ b >= 0
  <2>1. (-a) * b <= A * B /\ (-a) * b \in Nat  BY <1>1, <1>2, <1>5
  <2> QED  BY <2>1, <1>5
<1>6. CASE a < 0 /\ b < 0
  <2>1. (-a) * (-b) <= A * B /\ (-a) * (-b) \in Nat  BY <1>1, <1>2, <1>6
  <2>2. (-a) * (-b) = a * b  OBVIOUS
  <2> QED  BY <2>1, <2>2, <1>6
<1> QED  BY <1>3, <1>4, <1>5, <1>6

\* A sample is the upper half of its container.
LEMMA NarrowedBound ==
  ASSUME NEW d \in Containers
  PROVE  Narrowed(d) \in (-InputMax)..InputMax
<1> DEFINE q == d \div InputShift
<1>1. d \in Int /\ InputShift \in Nat /\ InputShift > 0 /\ InputMax \in Nat
  BY TonesAssumption, AnalyzerAssumption DEF Containers
<1>2. q \in Int /\ InputShift * q <= d /\ d < InputShift * (q + 1)
  BY <1>1
<1>3. -(InputMax * InputShift) <= d /\ d < InputMax * InputShift
  BY <1>1 DEF Containers
<1>4. -InputMax <= q
  <2> SUFFICES ASSUME q + 1 <= -InputMax PROVE FALSE
    BY <1>1, <1>2
  <2>1. InputShift * (q + 1) <= InputShift * (-InputMax)
    BY <1>1, <1>2
  <2> QED  BY <2>1, <1>1, <1>2, <1>3
<1>5. q <= InputMax
  <2> SUFFICES ASSUME q >= InputMax PROVE q <= InputMax
    BY <1>1, <1>2
  <2>1. InputShift * InputMax <= InputShift * q
    BY <1>1, <1>2
  <2> QED  BY <2>1, <1>1, <1>2, <1>3
<1> QED  BY <1>1, <1>2, <1>4, <1>5 DEF Narrowed

\* One more sample of full scale is what a sum may grow by.
LEMMA FoldedBound ==
  ASSUME NEW coef, NEW a, NEW x \in (-InputMax)..InputMax, NEW n \in Nat, Bounded(a, n)
  PROVE  Bounded(Folded(coef, a, x), n + 1)
<1> DEFINE y == a.prev2 + x
<1>0. InputMax \in Nat  BY AnalyzerAssumption
<1>1. a.prev1 \in Int /\ a.prev2 \in Int /\ x \in Int /\ y \in Int  BY <1>0 DEF Bounded
<1>2. x * x \in Int /\ x * x <= Square  BY <1>0, <1>1, ProductBound DEF Square
<1>3. a.prev1 * a.prev1 \in Int /\ a.prev1 * a.prev1 <= Square
  BY <1>0, <1>1, ProductBound DEF Square, Bounded
<1>4. -(2 * InputMax) <= y /\ y <= 2 * InputMax /\ 2 * InputMax \in Nat  BY <1>0, <1>1 DEF Bounded
<1>5. y * y \in Int /\ y * y <= (2 * InputMax) * (2 * InputMax)
  BY <1>1, <1>4, ProductBound
<1>6. a.prev1 * y \in Int /\ a.prev1 * y <= InputMax * (2 * InputMax)
        /\ -(InputMax * (2 * InputMax)) <= a.prev1 * y
  <2>1. -InputMax <= a.prev1 /\ a.prev1 <= InputMax  BY <1>0 DEF Bounded
  <2> QED  BY <1>0, <1>1, <1>4, <2>1, ProductBound
<1>7. /\ (2 * InputMax) * (2 * InputMax) = 4 * Square
      /\ InputMax * (2 * InputMax) = 2 * Square
      /\ Square \in Nat
  BY <1>0 DEF Square
<1>8. (n + 1) * Square = n * Square + Square /\ n * Square \in Nat  BY <1>7
<1> HIDE DEF y
<1>9. /\ Folded(coef, a, x).prev1 = x /\ Folded(coef, a, x).prev2 = a.prev1
      /\ Folded(coef, a, x).energy = a.energy + x * x
      /\ Folded(coef, a, x).xx \in {a.xx, a.xx + a.prev1 * a.prev1}
      /\ Folded(coef, a, x).yy \in {a.yy, a.yy + y * y}
      /\ Folded(coef, a, x).xy \in {a.xy, a.xy + a.prev1 * y}
  BY DEF Folded, y
<1> HIDE DEF Square
<1> DEFINE f == Folded(coef, a, x)  m == n * Square  px == a.prev1 * a.prev1  py == a.prev1 * y
           yy == y * y  x2 == x * x
<1>10. /\ f.prev1 = x /\ f.prev2 = a.prev1 /\ f.energy = a.energy + x2
       /\ f.xx \in {a.xx, a.xx + px} /\ f.yy \in {a.yy, a.yy + yy} /\ f.xy \in {a.xy, a.xy + py}
  BY <1>9
<1>11. /\ x2 \in Int /\ px \in Int /\ yy \in Int /\ py \in Int
       /\ x2 <= Square /\ px <= Square /\ yy <= 4 * Square
       /\ py <= 2 * Square /\ -(2 * Square) <= py
  BY <1>2, <1>3, <1>5, <1>6, <1>7
<1>12. /\ a.energy \in Int /\ a.xx \in Int /\ a.yy \in Int /\ a.xy \in Int
       /\ a.energy <= m /\ a.xx <= m /\ a.yy <= 4 * m /\ a.xy <= 2 * m /\ -(2 * m) <= a.xy
       /\ a.prev1 \in (-InputMax)..InputMax
  BY DEF Bounded
<1>13. m \in Nat /\ Square \in Nat  BY <1>7, <1>8
<1> HIDE DEF f, m, px, py, yy, x2
<1>14. /\ f.energy \in Int /\ f.xx \in Int /\ f.yy \in Int /\ f.xy \in Int
       /\ f.energy <= m + Square /\ f.xx <= m + Square /\ f.yy <= 4 * (m + Square)
       /\ f.xy <= 2 * (m + Square) /\ -(2 * (m + Square)) <= f.xy
  BY <1>10, <1>11, <1>12, <1>13
<1>15. (n + 1) * Square = m + Square  BY <1>8 DEF m
<1> QED  BY <1>10, <1>12, <1>14, <1>15 DEF Bounded, f

-----------------------------------------------------------------------------

LEMMA ConstantFacts ==
  /\ Channels \in Nat \ {0} /\ Window \in Nat \ {0} /\ InputMax \in Nat /\ Square \in Nat
  /\ SumMax \in Nat /\ WindowLimit \in Nat /\ Window <= WindowLimit
  /\ 4 * (WindowLimit * Square) <= SumMax
  BY TonesAssumption, AnalyzerAssumption DEF Square

\* A window that starts over holds nothing.
LEMMA ResetIsBounded ==
  ASSUME ResetWindow
  PROVE  /\ channelPos' \in Chans /\ filled' = 0
         /\ sums' = [c \in Chans |-> sums'[c]]
         /\ \A c \in Chans : Held(c)' \in Nat /\ Bounded(sums'[c], Held(c)')
<1>1. channelPos' = 1 /\ filled' = 0 /\ sums' = [c \in Chans |-> Empty]  BY DEF ResetWindow
<1>2. ASSUME NEW c \in Chans PROVE Held(c)' = 0 /\ sums'[c] = Empty
  BY <1>1 DEF Held, Chans
<1>3. 0 * Square = 0  BY ConstantFacts
<1>4. Bounded(Empty, 0)  BY <1>3, ConstantFacts DEF Bounded, Empty
<1>5. 1 \in Chans  BY ConstantFacts DEF Chans
<1>6. sums' = [c \in Chans |-> sums'[c]]  BY <1>1
<1> QED  BY <1>1, <1>2, <1>4, <1>5, <1>6

LEMMA InitEstablishes == AnaInit => SumsInv
<1> SUFFICES ASSUME AnaInit PROVE SumsInv  OBVIOUS
<1>1. channelPos = 1 /\ filled = 0 /\ sums = [c \in Chans |-> Empty] /\ anaPc = "idle"
      /\ anaFrame = <<>>
  BY DEF AnaInit
<1>2. \A c \in Chans : Held(c) = 0 /\ sums[c] = Empty  BY <1>1 DEF Held, Chans
<1>3. 0 * Square = 0  BY ConstantFacts
<1>4. Bounded(Empty, 0)  BY <1>3, ConstantFacts DEF Bounded, Empty
<1>5. PlaceInWindow  BY <1>1, ConstantFacts DEF PlaceInWindow, Chans
<1> QED  BY <1>1, <1>2, <1>4, <1>5 DEF SumsInv

\* What leaves the window and the frame alone, and is not in the middle of either.
LEMMA ElsewherePreserves ==
  ASSUME SumsInv, UNCHANGED <<sums, filled, channelPos, anaFrame>>,
         anaPc' = "samples" => anaPc = "samples",
         anaPc \in {"publish", "published"} => anaPc' \in {"publish", "published"}
  PROVE  SumsInv'
<1>1. \A c \in Chans : Held(c)' = Held(c)  BY DEF Held
<1> QED  BY <1>1 DEF SumsInv, PlaceInWindow

LEMMA ResetPreserves ==
  ASSUME SumsInv, ResetWindow, UNCHANGED anaFrame, anaPc' = "samples" => anaFrame # <<>>
  PROVE  SumsInv'
<1>1. PlaceInWindow'  BY ResetIsBounded, ConstantFacts DEF PlaceInWindow
<1> QED  BY <1>1, ResetIsBounded DEF SumsInv

LEMMA MeasurePreserves ==
  ASSUME SumsInv, MeasureSample
  PROVE  SumsInv'
<1> DEFINE x == Narrowed(Head(anaFrame))
<1>1. anaFrame \in Seq(Containers) /\ anaFrame # <<>>  BY DEF SumsInv, MeasureSample
<1>2. Head(anaFrame) \in Containers /\ Tail(anaFrame) \in Seq(Containers)  BY <1>1
<1>3. x \in (-InputMax)..InputMax  BY <1>2, NarrowedBound
<1> HIDE DEF x
<1>4. /\ channelPos \in Chans /\ filled \in Nat /\ filled < Window /\ anaPc = "samples"
      /\ sums' = [sums EXCEPT ![channelPos] = Folded(coefficient, @, x)]
      /\ channelPos' = NextChannel(channelPos)
      /\ filled' = IF channelPos = Channels THEN filled + 1 ELSE filled
      /\ anaFrame' = Tail(anaFrame)
      /\ anaPc' = IF channelPos = Channels /\ filled + 1 >= Window THEN "publish"
                                                                  ELSE Continue(anaFrame')
  BY DEF SumsInv, PlaceInWindow, MeasureSample, x
<1>5. channelPos' = IF channelPos = Channels THEN 1 ELSE channelPos + 1
  <2>1. channelPos \in 1..Channels /\ Channels \in Nat \ {0}  BY <1>4, ConstantFacts DEF Chans
  <2>2. CASE channelPos = Channels
    <3>1. Channels % Channels = 0  BY <2>1
    <3> QED  BY <1>4, <2>2, <3>1 DEF NextChannel
  <2>3. CASE channelPos < Channels
    <3>1. channelPos % Channels = channelPos  BY <2>1, <2>3
    <3> QED  BY <1>4, <2>1, <2>3, <3>1 DEF NextChannel
  <2> QED  BY <2>1, <2>2, <2>3
<1>6. PlaceInWindow'
  BY <1>4, <1>5, ConstantFacts DEF PlaceInWindow, Chans
<1>7. sums' = [c \in Chans |-> sums'[c]]
  BY <1>4 DEF SumsInv
<1>8. ASSUME NEW c \in Chans PROVE Bounded(sums'[c], Held(c)')
  <2>1. CASE c = channelPos
    <3>1. Held(c)' = filled + 1 /\ Held(c) = filled
      BY <1>4, <1>5, <2>1, ConstantFacts DEF Held, Chans
    <3>2. sums'[c] = Folded(coefficient, sums[c], x)  BY <1>4, <2>1 DEF SumsInv
    <3>3. Bounded(sums[c], filled)  BY <3>1 DEF SumsInv
    <3> QED  BY <1>3, <1>4, <3>1, <3>2, <3>3, FoldedBound
  <2>2. CASE c # channelPos
    <3>1. Held(c)' = Held(c)
      BY <1>4, <1>5, <2>2, ConstantFacts DEF Held, Chans
    <3>2. sums'[c] = sums[c]  BY <1>4, <2>2 DEF SumsInv
    <3> QED  BY <3>1, <3>2 DEF SumsInv
  <2> QED  BY <2>1, <2>2
<1>9. anaPc' = "samples" => anaFrame' # <<>>  BY <1>4 DEF Continue
<1> QED  BY <1>2, <1>4, <1>6, <1>7, <1>8, <1>9 DEF SumsInv

LEMMA NextPreserves == SumsInv /\ [AnaNext]_anaVars => SumsInv'
<1> SUFFICES ASSUME SumsInv, [AnaNext]_anaVars PROVE SumsInv'  OBVIOUS
<1>1. CASE OpenStarts  BY <1>1, ResetPreserves DEF OpenStarts
<1>2. CASE CloseAnalyzer  BY <1>2, ElsewherePreserves DEF CloseAnalyzer
<1>3. CASE ClearHead  BY <1>3, ElsewherePreserves DEF ClearHead
<1>4. CASE ClearChannels  BY <1>4, ElsewherePreserves DEF ClearChannels
<1>5. ASSUME NEW f \in Formats, OpenAccepts(f) PROVE SumsInv'
  BY <1>5, ElsewherePreserves DEF OpenAccepts
<1>6. ASSUME NEW f \in Formats, OpenRefuses(f) PROVE SumsInv'
  BY <1>6, ElsewherePreserves DEF OpenRefuses
<1>7. CASE MeasureSample  BY <1>7, MeasurePreserves
<1>8. CASE PublishHead  BY <1>8, ElsewherePreserves DEF PublishHead
<1>9. CASE PublishChannels
  BY <1>9, ResetPreserves DEF PublishChannels, Continue
<1>10. CASE TakeEnd  BY <1>10, ResetPreserves DEF TakeEnd, Pulling
<1>11. CASE TakeError  BY <1>11, ElsewherePreserves DEF TakeError
<1>12. CASE GetHead  BY <1>12, ElsewherePreserves DEF GetHead
<1>13. CASE GetChannels  BY <1>13, ElsewherePreserves DEF GetChannels
<1>14. ASSUME NEW data \in Seq(Containers), TakeFrame(data) PROVE SumsInv'
  <2>1. \A c \in Chans : Held(c)' = Held(c)  BY <1>14 DEF TakeFrame, Held
  <2>2. data # <<>>  BY <1>14 DEF TakeFrame
  <2> QED  BY <1>14, <2>1, <2>2 DEF SumsInv, PlaceInWindow, TakeFrame, Pulling
<1>15. CASE UNCHANGED anaVars  BY <1>15, ElsewherePreserves DEF anaVars
<1> QED
  BY <1>1, <1>2, <1>3, <1>4, <1>5, <1>6, <1>7, <1>8, <1>9, <1>10, <1>11, <1>12, <1>13, <1>14,
     <1>15 DEF AnaNext, Operate

\* A window never holds more samples than the build assertion allows for.
LEMMA InvariantSuffices == SumsInv => SumsFit
<1> SUFFICES ASSUME SumsInv, NEW c \in Chans
             PROVE  /\ sums[c].energy <= SumMax /\ sums[c].xx <= SumMax
                    /\ sums[c].yy <= SumMax /\ Magnitude(sums[c].xy) <= SumMax
  BY DEF SumsFit
<1>1. Held(c) \in Nat /\ Held(c) <= WindowLimit
  BY ConstantFacts DEF SumsInv, PlaceInWindow, Held, Chans
<1>2. Held(c) * Square <= WindowLimit * Square /\ Held(c) * Square \in Nat
  BY <1>1, ConstantFacts
<1>3. WindowLimit * Square \in Nat  BY ConstantFacts
<1> DEFINE h == Held(c) * Square  w == WindowLimit * Square
<1>4. Bounded(sums[c], Held(c))  BY DEF SumsInv
<1>5. h \in Nat /\ w \in Nat /\ h <= w /\ 4 * w <= SumMax /\ SumMax \in Nat
  BY <1>2, <1>3, ConstantFacts
<1>6. /\ sums[c].energy \in Int /\ sums[c].xx \in Int /\ sums[c].yy \in Int /\ sums[c].xy \in Int
      /\ sums[c].energy <= h /\ sums[c].xx <= h /\ sums[c].yy <= 4 * h
      /\ sums[c].xy <= 2 * h /\ -(2 * h) <= sums[c].xy
  BY <1>4 DEF Bounded
<1> HIDE DEF h, w
<1> QED  BY <1>5, <1>6 DEF Magnitude

\* For every window that the limits allow, every upstream and every frame size,
\* the sums of squares and products of a window stay inside their type.
THEOREM SumsNeverOverflow == AnaSpec => []SumsFit
<1>1. AnaInit => SumsInv  BY InitEstablishes
<1>2. SumsInv /\ [AnaNext]_anaVars => SumsInv'  BY NextPreserves
<1>3. SumsInv => SumsFit  BY InvariantSuffices
<1> QED  BY <1>1, <1>2, <1>3, PTL DEF AnaSpec

-----------------------------------------------------------------------------
(* What a reader of the result gets. *)

\* The head and the channels belong together.
Whole(head, channel) ==
  IF head.verdict = "none" THEN channel = NoResult.channel ELSE head.verdict = Decide(channel)

HeadShape(head) == head = [verdict |-> head.verdict, windows |-> head.windows, window |-> head.window]

\* The lock is with the one who is in the middle of a copy.  Unless that is the
\* node, the result is whole; if it is, the head tells what is to follow.
ResultInv ==
  /\ result = [head |-> result.head, channel |-> result.channel] /\ HeadShape(result.head)
  /\ getPc \in {"idle", "half"}
  /\ lock = "node" <=> anaPc \in {"cleared", "published"}
  /\ lock = "getter" <=> getPc = "half"
  /\ lock # "node" => Whole(result.head, result.channel)
  /\ anaPc = "cleared" => result.head.verdict = "none"
  /\ anaPc = "published" => result.head.verdict = Decide(WindowResult.channel)
  /\ getPc = "half" => copied = result.head

LEMMA DecideIsNotNone == \A ch : Decide(ch) # "none"
  BY DEF Decide

LEMMA ResultInit == AnaInit => ResultInv
  BY DEF AnaInit, ResultInv, NoResult, Whole, HeadShape

\* A step that is none of the lock's holder, nor takes the lock.
LEMMA AsidePreserves ==
  ASSUME ResultInv, UNCHANGED <<result, lock, getPc, copied>>,
         anaPc \notin {"cleared", "published"}, anaPc' \notin {"cleared", "published"}
  PROVE  ResultInv'
  BY DEF ResultInv, Whole, HeadShape

LEMMA ResultPreserved == ResultInv /\ [AnaNext]_anaVars => ResultInv'
<1> SUFFICES ASSUME ResultInv, [AnaNext]_anaVars PROVE ResultInv'  OBVIOUS
<1>1. CASE OpenStarts  BY <1>1, AsidePreserves DEF OpenStarts
<1>2. CASE CloseAnalyzer  BY <1>2, AsidePreserves DEF CloseAnalyzer
<1>3. CASE ClearHead
  BY <1>3 DEF ClearHead, StoreHead, ResultInv, NoResult, HeadShape
<1>4. CASE ClearChannels
  BY <1>4 DEF ClearChannels, StoreChannels, ResultInv, NoResult, HeadShape, Whole
<1>5. ASSUME NEW f \in Formats, OpenAccepts(f) PROVE ResultInv'
  <2>1. /\ anaPc = "check" /\ lock = "free" /\ anaPc' = "idle" /\ UNCHANGED <<lock, getPc, copied>>
        /\ result' = [result EXCEPT !.head = [@ EXCEPT !.window = Window]]
    BY <1>5 DEF OpenAccepts
  <2>2. /\ result' = [head |-> [result.head EXCEPT !.window = Window], channel |-> result.channel]
        /\ HeadShape(result.head) /\ Whole(result.head, result.channel) /\ getPc = "idle"
    BY <2>1 DEF ResultInv
  <2>3. [result.head EXCEPT !.window = Window] =
           [verdict |-> result.head.verdict, windows |-> result.head.windows, window |-> Window]
    BY <2>2 DEF HeadShape
  <2>4. /\ result'.head.verdict = result.head.verdict /\ result'.channel = result.channel
        /\ result' = [head |-> result'.head, channel |-> result'.channel]
        /\ HeadShape(result'.head)
    BY <2>2, <2>3 DEF HeadShape
  <2> QED  BY <2>1, <2>2, <2>4 DEF ResultInv, Whole
<1>6. ASSUME NEW f \in Formats, OpenRefuses(f) PROVE ResultInv'
  BY <1>6, AsidePreserves DEF OpenRefuses
<1>7. CASE MeasureSample
  <2>1. anaPc' \in {"publish", "idle", "samples"}  BY <1>7 DEF MeasureSample, Continue
  <2> QED  BY <1>7, <2>1, AsidePreserves DEF MeasureSample
<1>8. CASE PublishHead
  <2>1. /\ anaPc = "publish" /\ anaPc' = "published" /\ lock = "free" /\ lock' = "node"
        /\ result' = [result EXCEPT !.head = WindowResult.head]
        /\ UNCHANGED <<sums, coefficient, getPc, copied>>
    BY <1>8 DEF PublishHead, StoreHead
  <2>2. WindowResult.channel' = WindowResult.channel
    BY <2>1 DEF WindowResult, Measured
  <2>3. HeadShape(WindowResult.head) /\ WindowResult.head.verdict = Decide(WindowResult.channel)
    BY DEF WindowResult, HeadShape
  <2> QED  BY <2>1, <2>2, <2>3 DEF ResultInv, HeadShape
<1>9. CASE PublishChannels
  <2>1. /\ anaPc = "published" /\ lock' = "free" /\ anaPc' \in {"idle", "samples"}
        /\ result' = [result EXCEPT !.channel = WindowResult.channel]
        /\ UNCHANGED <<getPc, copied>>
    BY <1>9 DEF PublishChannels, StoreChannels, Continue
  <2> QED  BY <2>1, DecideIsNotNone DEF ResultInv, HeadShape, Whole
<1>10. CASE TakeEnd  BY <1>10, AsidePreserves DEF TakeEnd, Pulling
<1>11. CASE TakeError  BY <1>11, AsidePreserves DEF TakeError, Pulling
<1>12. CASE GetHead
  BY <1>12 DEF GetHead, ResultInv, HeadShape, Whole, WindowResult, Measured
<1>13. CASE GetChannels
  BY <1>13 DEF GetChannels, ResultInv, HeadShape, Whole, WindowResult, Measured
<1>14. ASSUME NEW data \in Seq(Containers), TakeFrame(data) PROVE ResultInv'
  BY <1>14, AsidePreserves DEF TakeFrame, Pulling
<1>15. CASE UNCHANGED anaVars
  <2>1. WindowResult.channel' = WindowResult.channel  BY <1>15 DEF anaVars, WindowResult, Measured
  <2> QED  BY <1>15, <2>1 DEF anaVars, ResultInv, HeadShape, Whole
<1> QED
  BY <1>1, <1>2, <1>3, <1>4, <1>5, <1>6, <1>7, <1>8, <1>9, <1>10, <1>11, <1>12, <1>13, <1>14,
     <1>15 DEF AnaNext, Operate

\* For every number of channels, every window and every upstream, a reader never
\* gets half of one result and half of another.
THEOREM ReadersGetWholeResults == AnaSpec => ResultIsWhole
<1>1. AnaInit => ResultInv  BY ResultInit
<1>2. ResultInv /\ [AnaNext]_anaVars => ResultInv'  BY ResultPreserved
<1>3. ResultInv /\ [AnaNext]_anaVars =>
        [GetChannels => /\ copied = result.head /\ anaPc \notin {"cleared", "published"}
                        /\ IF copied.verdict = "none" THEN result.channel = NoResult.channel
                           ELSE copied.verdict = Decide(result.channel)]_anaVars
  BY DEF ResultInv, GetChannels, Whole
<1> QED  BY <1>1, <1>2, <1>3, PTL DEF AnaSpec, ResultIsWhole

-----------------------------------------------------------------------------
(* Arithmetic modulo a turn. *)

\* What division leaves is unique.
LEMMA Residue ==
  ASSUME NEW T \in Nat \ {0}, NEW q \in Int, NEW r \in 0..(T - 1)
  PROVE  (T * q + r) % T = r /\ (T * q + r) \div T = q
<1> DEFINE a == T * q + r  d == a \div T  e == a % T
<1>1. a \in Int /\ T * q \in Int
  OBVIOUS
<1>2. d \in Int /\ e \in 0..(T - 1) /\ a = T * d + e
  <2> HIDE DEF a
  <2> QED
    BY <1>1
<1>3. T * (q - d) = e - r
  <2>1. T * (q - d) = T * q - T * d
    BY <1>2
  <2>2. T * d \in Int
    BY <1>2
  <2> HIDE DEF d, e
  <2> QED
    BY <1>1, <1>2, <2>1, <2>2
<1>4. q - d = 0
  <2> HIDE DEF d, e
  <2>1. CASE q - d >= 1
    <3>1. T * (q - d) >= T
      BY <1>2, <2>1
    <3> QED
      BY <1>2, <1>3, <3>1
  <2>2. CASE q - d <= -1
    <3>1. T * (d - q) >= T
      BY <1>2, <2>2
    <3>2. T * (d - q) = -(T * (q - d))
      BY <1>2
    <3> QED
      BY <1>2, <1>3, <3>1, <3>2
  <2> QED
    BY <1>2, <2>1, <2>2
<1>5. e = r
  <2> HIDE DEF d, e
  <2>1. q - d \in Int /\ T * 0 = 0
    BY <1>2
  <2> QED
    BY <1>2, <1>3, <1>4, <2>1
<1> QED
  BY <1>2, <1>4, <1>5

\* Whole turns do not show.
LEMMA WholeTurns ==
  ASSUME NEW T \in Nat \ {0}, NEW a \in Int, NEW k \in Int
  PROVE  /\ (a + T * k) % T = a % T
         /\ a % T \in 0..(T - 1) /\ a \div T \in Int /\ a = T * (a \div T) + (a % T)
<1>1. a % T \in 0..(T - 1) /\ a \div T \in Int /\ a = T * (a \div T) + (a % T)
  OBVIOUS
<1>2. PICK d \in Int, e \in 0..(T - 1) : d = a \div T /\ e = a % T
  BY <1>1
<1>3. a + T * k = T * (d + k) + e
  <2>1. T * (d + k) = T * d + T * k /\ T * d \in Int /\ T * k \in Int
    OBVIOUS
  <2>2. a = T * d + e
    BY <1>1, <1>2
  <2> QED
    BY <2>1, <2>2
<1>4. (T * (d + k) + e) % T = e
  BY Residue
<1> QED
  BY <1>1, <1>2, <1>3, <1>4

\* A number that leaves nothing is a multiple, and not negative if the other is not.
LEMMA Multiples ==
  ASSUME NEW T \in Nat \ {0}
  PROVE  /\ \A n \in Int : n % T = 0 => n \div T \in Int /\ n = T * (n \div T)
         /\ \A n \in Nat : n % T = 0 => n \div T \in Nat
         /\ \A q \in Int : (T * q) % T = 0 /\ (T * q) \div T = q
<1>1. ASSUME NEW n \in Int, n % T = 0 PROVE n \div T \in Int /\ n = T * (n \div T)
  <2>1. PICK d \in Int, e \in 0..(T - 1) : d = n \div T /\ e = n % T /\ n = T * d + e
    BY WholeTurns
  <2>2. T * d \in Int /\ e = 0
    BY <1>1, <2>1
  <2> QED
    BY <2>1, <2>2
<1>2. \A n \in Nat : n \div T \in Nat
  OBVIOUS
<1>3. ASSUME NEW q \in Int PROVE (T * q) % T = 0 /\ (T * q) \div T = q
  <2>1. (T * q + 0) % T = 0 /\ (T * q + 0) \div T = q
    BY Residue
  <2>2. T * q + 0 = T * q
    OBVIOUS
  <2> QED
    BY <2>1, <2>2
<1> QED
  BY <1>1, <1>2, <1>3

\* ... nor in a multiple,
LEMMA TurnsOfSteps ==
  ASSUME NEW T \in Nat \ {0}, NEW a \in Int, NEW k \in Int, NEW step \in Int
  PROVE  ((a + T * k) * step) % T = (a * step) % T
<1>1. (a + T * k) * step = a * step + T * (k * step)
  <2>1. (a + T * k) * step = a * step + (T * k) * step
    OBVIOUS
  <2>2. (T * k) * step = T * (k * step)
    OBVIOUS
  <2> QED
    BY <2>1, <2>2
<1>2. a * step \in Int /\ k * step \in Int
  OBVIOUS
<1>3. \A x, y \in Int : (x + T * y) % T = x % T
  BY WholeTurns
<1>4. (a * step + T * (k * step)) % T = (a * step) % T
  BY <1>2, <1>3
<1> QED
  BY <1>1, <1>4

\* nor in a sum.
LEMMA SumOfSteps ==
  ASSUME NEW T \in Nat \ {0}, NEW a \in Int, NEW b \in Int, NEW step \in Int
  PROVE  (((a * step) % T) + b * step) % T = ((a + b) * step) % T
<1>1. a * step \in Int /\ b * step \in Int
  OBVIOUS
<1>2. PICK d \in Int, e \in 0..(T - 1) :
        d = (a * step) \div T /\ e = (a * step) % T /\ a * step = T * d + e
  BY <1>1, WholeTurns
<1>3. (a + b) * step = (e + b * step) + T * d
  <2>1. (a + b) * step = a * step + b * step /\ T * d \in Int
    OBVIOUS
  <2> QED
    BY <1>1, <1>2, <2>1
<1>4. e + b * step \in Int
  BY <1>1
<1>5. ((e + b * step) + T * d) % T = (e + b * step) % T
  BY <1>4, WholeTurns
<1> QED
  BY <1>2, <1>3, <1>5

-----------------------------------------------------------------------------
(* The square root of the mean energy. *)

\* What is not empty has a smallest number.
LEMMA Smallest ==
  ASSUME NEW T \in SUBSET Nat, T # {}
  PROVE  \E x \in T : \A y \in T : x <= y
<1> DEFINE R == OpToRel(<, Nat)
<1>1. \E x \in T : \A y \in T : ~ (<<y, x>> \in R)
  BY NatLessThanWellFounded, WFMin
<1>2. \A x, y \in Nat : <<y, x>> \in R <=> y < x
  BY DEF OpToRel
<1> HIDE DEF R
<1>3. PICK x \in T : \A y \in T : ~ (<<y, x>> \in R)
  BY <1>1
<1>4. \A y \in T : x <= y
  <2> SUFFICES ASSUME NEW y \in T PROVE x <= y
    OBVIOUS
  <2>1. x \in Nat /\ y \in Nat
    OBVIOUS
  <2>2. ~ (y < x)
    BY <1>2, <1>3, <2>1
  <2> QED
    BY <2>1, <2>2
<1> QED
  BY <1>4

\* What has 0 and with each number the next one has all of them.
LEMMA Induction ==
  ASSUME NEW T \in SUBSET Nat, 0 \in T, \A n \in T : n + 1 \in T
  PROVE  T = Nat
<1> SUFFICES ASSUME Nat \ T # {} PROVE FALSE
  OBVIOUS
<1>1. PICK x \in Nat \ T : \A y \in Nat \ T : x <= y
  BY Smallest
<1>2. x # 0 /\ x - 1 \in Nat /\ x - 1 \notin T
  BY <1>1
<1> QED
  BY <1>1, <1>2

\* Each round takes one bit, with what the round before it left.
LEMMA RootRoundByRound ==
  ASSUME NEW value \in Nat
  PROVE  /\ RootRounds(value)[0] = [rem |-> value, root |-> 0]
         /\ \A k \in 1..Len(RootBits) :
              RootRounds(value)[k] = RootRound(RootRounds(value)[k - 1], RootBits[k])
<1> DEFINE N == Len(RootBits)
           Def(f, k) == IF k = 0 THEN [rem |-> value, root |-> 0]
                        ELSE RootRound(f[k - 1], RootBits[k])
           P(n) == \E f : f = [k \in 0..n |-> Def(f, k)]
           T == {n \in Nat : P(n)}
<1>0. N \in Nat
  BY RootAssumption
<1>1. P(0)
  <2> DEFINE f == [k \in 0..0 |-> [rem |-> value, root |-> 0]]
  <2>1. f = [k \in 0..0 |-> Def(f, k)]
    OBVIOUS
  <2> HIDE DEF f
  <2> QED
    BY <2>1
<1>2. ASSUME NEW n \in Nat, P(n) PROVE P(n + 1)
  <2>1. PICK f : f = [k \in 0..n |-> Def(f, k)]
    BY <1>2
  <2> DEFINE g == [k \in 0..(n + 1) |-> IF k = n + 1 THEN Def(f, n + 1) ELSE f[k]]
  <2>2. \A k \in 0..(n + 1) : g[k] = Def(g, k)
    <3> SUFFICES ASSUME NEW k \in 0..(n + 1) PROVE g[k] = Def(g, k)
      OBVIOUS
    <3>1. CASE k = 0
      BY <2>1, <3>1
    <3>2. CASE k # 0
      <4>1. k - 1 \in 0..n /\ k - 1 \in 0..(n + 1) /\ k - 1 # n + 1
        BY <3>2
      <4>2. g[k - 1] = f[k - 1]
        BY <4>1
      <4>3. CASE k = n + 1
        BY <3>2, <4>2, <4>3
      <4>4. CASE k # n + 1
        BY <2>1, <3>2, <4>2, <4>4
      <4> QED
        BY <4>3, <4>4
    <3> QED
      BY <3>1, <3>2
  <2>3. g = [k \in 0..(n + 1) |-> Def(g, k)]
    BY <2>2
  <2> HIDE DEF g
  <2> QED
    BY <2>3
<1>3. P(N)
  <2> HIDE DEF P
  <2>1. T \in SUBSET Nat /\ 0 \in T
    BY <1>1
  <2>2. \A n \in T : n + 1 \in T
    <3> SUFFICES ASSUME NEW n \in T PROVE n + 1 \in T
      OBVIOUS
    <3>1. n \in Nat /\ n + 1 \in Nat /\ P(n)
      OBVIOUS
    <3> QED
      BY <1>2, <3>1
  <2>3. T = Nat
    <3> HIDE DEF T
    <3> QED
      BY <2>1, <2>2, Induction
  <2> QED
    BY <1>0, <2>3
<1> DEFINE Q(f) == f = [k \in 0..N |-> Def(f, k)]
<1>4. RootRounds(value) = CHOOSE f : Q(f)
  BY DEF RootRounds
<1>5. Q(RootRounds(value))
  <2>1. \E f : Q(f)
    BY <1>3
  <2> HIDE DEF Q
  <2> QED
    BY <1>4, <2>1, Zenon
<1>6. \A k \in 0..N : RootRounds(value)[k] = Def(RootRounds(value), k)
  <2> HIDE DEF Def
  <2> QED
    BY <1>5, Zenon
<1> HIDE DEF Q, P, T
<1>7. 0 \in 0..N /\ \A k \in 1..N : k \in 0..N /\ k # 0
  BY <1>0
<1> QED
  BY <1>6, <1>7

\* After the rounds down to a bit, t has the root's digits so far.
RootHolds(value, bit, r, t) ==
  /\ r.rem \in Nat /\ r.root = bit * t
  /\ value = r.rem + bit * (t * t) /\ r.rem < bit * (2 * t + 1)

\* A round finds one more digit.
LEMMA RootDigit ==
  ASSUME NEW value \in Nat, NEW bit \in Nat \ {0}, NEW r, NEW t \in Nat,
         RootHolds(value, 4 * bit, r, t)
  PROVE  \E u \in Nat : RootHolds(value, bit, RootRound(r, bit), u)
<1>1. PICK rem \in Nat, p \in Nat, q \in Nat :
        /\ rem = r.rem /\ p = bit * t /\ q = bit * (t * t)
  <2>1. bit * t \in Nat /\ bit * (t * t) \in Nat
    <3>1. \A x, y \in Nat : x * y \in Nat
      OBVIOUS
    <3> QED
      BY <3>1
  <2> QED
    BY <2>1 DEF RootHolds
<1>2. (4 * bit) * t = 4 * p /\ (4 * bit) * (t * t) = 4 * q
      /\ (4 * bit) * (2 * t + 1) = 8 * p + 4 * bit
  BY <1>1
<1>3. r.root = 4 * p /\ value = rem + 4 * q /\ rem < 8 * p + 4 * bit
  BY <1>1, <1>2 DEF RootHolds
<1>4. (4 * p) \div 2 = 2 * p
  OBVIOUS
<1>5. CASE rem >= 4 * p + bit
  <2>1. RootRound(r, bit) = [rem |-> rem - (4 * p + bit), root |-> 2 * p + bit]
    BY <1>1, <1>3, <1>4, <1>5 DEF RootRound
  <2>2. 2 * t + 1 \in Nat
    OBVIOUS
  <2>3. bit * (2 * t + 1) = 2 * p + bit
    BY <1>1
  <2>4. bit * ((2 * t + 1) * (2 * t + 1)) = 4 * q + 4 * p + bit
    BY <1>1
  <2>5. bit * (2 * (2 * t + 1) + 1) = 4 * p + 3 * bit
    BY <1>1
  <2>6. /\ rem - (4 * p + bit) \in Nat
        /\ value = (rem - (4 * p + bit)) + (4 * q + 4 * p + bit)
        /\ rem - (4 * p + bit) < 4 * p + 3 * bit
    BY <1>3, <1>5
  <2>7. RootHolds(value, bit, RootRound(r, bit), 2 * t + 1)
    BY <2>1, <2>3, <2>4, <2>5, <2>6 DEF RootHolds
  <2> QED
    BY <2>2, <2>7
<1>6. CASE rem < 4 * p + bit
  <2>1. RootRound(r, bit) = [rem |-> rem, root |-> 2 * p]
    BY <1>1, <1>3, <1>4, <1>6 DEF RootRound
  <2>2. 2 * t \in Nat
    OBVIOUS
  <2>3. bit * (2 * t) = 2 * p
    BY <1>1
  <2>4. bit * ((2 * t) * (2 * t)) = 4 * q
    BY <1>1
  <2>5. bit * (2 * (2 * t) + 1) = 4 * p + bit
    BY <1>1
  <2>6. RootHolds(value, bit, RootRound(r, bit), 2 * t)
    BY <1>3, <1>6, <2>1, <2>3, <2>4, <2>5 DEF RootHolds
  <2> QED
    BY <2>2, <2>6
<1> QED
  BY <1>5, <1>6

\* The square root is the integer part of the real one, for every value that the
\* bits reach: every one of 64 bits in the code.
THEOREM RootIsFloor ==
  ASSUME NEW value \in Nat, value < 4 * RootBits[1]
  PROVE  /\ Root(value) \in Nat /\ Root(value) * Root(value) <= value
         /\ value < (Root(value) + 1) * (Root(value) + 1)
<1> DEFINE N == Len(RootBits)
           Bit(k) == IF k = 0 THEN 4 * RootBits[1] ELSE RootBits[k]
           Good(k) == \E t \in Nat : RootHolds(value, Bit(k), RootRounds(value)[k], t)
           T == {k \in Nat : k <= N => Good(k)}
<1>1. N \in Nat \ {0} /\ \A k \in 1..N : RootBits[k] \in Nat \ {0}
  BY RootAssumption
<1>2. \A k \in 1..N : Bit(k - 1) = 4 * RootBits[k]
  <2> SUFFICES ASSUME NEW k \in 1..N PROVE Bit(k - 1) = 4 * RootBits[k]
    OBVIOUS
  <2>1. CASE k = 1
    BY <2>1
  <2>2. CASE k # 1
    <3>1. k - 1 \in 1..(N - 1) /\ k - 1 + 1 = k /\ k - 1 # 0
      BY <1>1, <2>2
    <3> QED
      BY <3>1, RootAssumption
  <2> QED
    BY <2>1, <2>2
<1>3. Good(0)
  <2>1. RootRounds(value)[0] = [rem |-> value, root |-> 0]
    BY RootRoundByRound
  <2>2. 4 * RootBits[1] \in Nat
    BY <1>1
  <2>3. \A x \in Nat : x * 0 = 0 /\ x * (0 * 0) = 0 /\ x * (2 * 0 + 1) = x
    OBVIOUS
  <2>4. RootHolds(value, 4 * RootBits[1], RootRounds(value)[0], 0)
    BY <2>1, <2>2, <2>3 DEF RootHolds
  <2> QED
    BY <2>4
<1>4. ASSUME NEW k \in Nat, k + 1 <= N, Good(k) PROVE Good(k + 1)
  <2>1. k + 1 \in 1..N /\ k + 1 - 1 = k /\ k + 1 # 0
    BY <1>1, <1>4
  <2>2. RootRounds(value)[k + 1] = RootRound(RootRounds(value)[k], RootBits[k + 1])
    <3>1. \A j \in 1..N :
            RootRounds(value)[j] = RootRound(RootRounds(value)[j - 1], RootBits[j])
      BY RootRoundByRound
    <3>2. ASSUME NEW j \in 1..N, j = k + 1
          PROVE  RootRounds(value)[j] = RootRound(RootRounds(value)[k], RootBits[j])
      <4>1. j - 1 = k
        BY <3>2
      <4> QED
        BY <3>1, <4>1
    <3> QED
      BY <2>1, <3>2
  <2>3. Bit(k) = 4 * RootBits[k + 1] /\ RootBits[k + 1] \in Nat \ {0}
    <3> HIDE DEF Bit
    <3> QED
      BY <1>1, <1>2, <2>1
  <2>4. PICK t \in Nat : RootHolds(value, 4 * RootBits[k + 1], RootRounds(value)[k], t)
    <3> HIDE DEF Bit
    <3> QED
      BY <1>4, <2>3
  <2>5. \E u \in Nat : RootHolds(value, RootBits[k + 1], RootRounds(value)[k + 1], u)
    BY <2>2, <2>3, <2>4, RootDigit
  <2> QED
    BY <2>1, <2>5
<1>5. T = Nat
  <2> HIDE DEF Good
  <2>1. T \in SUBSET Nat /\ 0 \in T
    BY <1>3
  <2>2. \A k \in T : k + 1 \in T
    BY <1>1, <1>4
  <2> HIDE DEF T
  <2> QED
    BY <2>1, <2>2, Induction
<1>6. PICK t \in Nat : RootHolds(value, 1, RootRounds(value)[N], t)
  <2>1. N \in T /\ N <= N /\ N # 0
    BY <1>1, <1>5
  <2>2. Good(N)
    <3> HIDE DEF Good
    <3> QED
      BY <2>1
  <2> QED
    BY <2>1, <2>2, RootAssumption
<1>7. Root(value) = t
  <2>1. RootRounds(value)[N].root = 1 * t
    BY <1>6 DEF RootHolds
  <2> QED
    BY <2>1 DEF Root
<1>8. \E rem \in Nat : value = rem + t * t /\ rem < 2 * t + 1
  <2>1. 1 * (t * t) = t * t /\ 1 * (2 * t + 1) = 2 * t + 1
    OBVIOUS
  <2> QED
    BY <1>6, <2>1 DEF RootHolds
<1>9. (t + 1) * (t + 1) = t * t + 2 * t + 1 /\ t * t \in Nat
  OBVIOUS
<1>10. t * t <= value /\ value < (t + 1) * (t + 1)
  <2> DEFINE s == t * t
  <2> HIDE DEF s
  <2>1. s \in Nat /\ (t + 1) * (t + 1) = s + 2 * t + 1
    BY <1>9 DEF s
  <2>2. PICK rem \in Nat : value = rem + s /\ rem < 2 * t + 1
    BY <1>8 DEF s
  <2>3. s <= value /\ value < s + 2 * t + 1
    BY <2>1, <2>2
  <2> QED
    BY <2>1, <2>3 DEF s
<1> QED
  BY <1>7, <1>10

\* The truncated root does not blur the threshold: a channel is silent exactly when
\* the mean of its squares is below the threshold's square, for all that a window
\* can hold.
THEOREM SilenceIsExact ==
  ASSUME NEW coef, NEW a, a.energy \in 0..(Window * (InputMax * InputMax))
  PROVE  Measured(coef, a).silent <=> a.energy \div Window < SilenceRms * SilenceRms
<1> DEFINE mean == a.energy \div Window
<1>1. Window \in Nat \ {0} /\ InputMax * InputMax \in Nat /\ SilenceRms \in Nat
  BY AnalyzerAssumption, RootAssumption
<1>2. mean \in Nat /\ mean <= InputMax * InputMax
  <2>1. PICK E \in Nat, M \in Nat : E = a.energy /\ M = InputMax * InputMax /\ E <= Window * M
    BY <1>1
  <2>2. PICK d \in Int, e \in 0..(Window - 1) : d = E \div Window /\ E = Window * d + e
    <3>1. \A x \in Int : /\ x % Window \in 0..(Window - 1) /\ x \div Window \in Int
                         /\ x = Window * (x \div Window) + (x % Window)
      BY <1>1, WholeTurns
    <3>2. /\ E % Window \in 0..(Window - 1) /\ E \div Window \in Int
          /\ E = Window * (E \div Window) + (E % Window)
      BY <3>1
    <3> QED
      BY <3>2
  <2>3. d <= M
    <3>1. CASE d >= M + 1
      <4>1. Window * d >= Window * (M + 1) /\ Window * (M + 1) = Window * M + Window
        BY <1>1, <3>1
      <4>2. PICK x \in Int, y \in Int : x = Window * d /\ y = Window * M
        BY <1>1
      <4> QED
        BY <1>1, <2>1, <2>2, <4>1, <4>2
    <3> QED
      BY <3>1
  <2>4. d \in Nat
    <3>1. \A x \in Nat : x \div Window \in Nat
      BY <1>1
    <3> QED
      BY <2>2, <3>1
  <2> QED
    BY <2>1, <2>2, <2>3, <2>4
<1> HIDE DEF mean
<1>3. mean < 4 * RootBits[1]
  <2>1. 4 * RootBits[1] \in Nat
    BY RootAssumption
  <2> QED
    BY <1>1, <1>2, <2>1, RootAssumption
<1>4. PICK r \in Nat : r = Root(mean) /\ r * r <= mean /\ mean < (r + 1) * (r + 1)
  BY <1>2, <1>3, RootIsFloor
<1>5. PICK S \in Nat : S = SilenceRms
  BY <1>1
<1>6. r < S <=> mean < S * S
  <2>1. ASSUME r < S PROVE mean < S * S
    <3>1. (r + 1) * (r + 1) <= S * S
      <4>1. \A x, y \in Nat : x <= y => x * x <= y * y
        OBVIOUS
      <4>2. r + 1 \in Nat /\ r + 1 <= S
        BY <2>1
      <4> QED
        BY <4>1, <4>2
    <3>2. (r + 1) * (r + 1) \in Nat /\ S * S \in Nat
      OBVIOUS
    <3> QED
      BY <1>2, <1>4, <3>1, <3>2
  <2>2. ASSUME ~ (r < S) PROVE ~ (mean < S * S)
    <3>1. S * S <= r * r
      BY <2>2
    <3>2. r * r \in Nat /\ S * S \in Nat
      OBVIOUS
    <3> QED
      BY <1>2, <1>4, <3>1, <3>2
  <2> QED
    BY <2>1, <2>2
<1>7. Measured(coef, a).silent <=> Root(mean) < SilenceRms
  BY DEF Measured, mean
<1> QED
  BY <1>4, <1>5, <1>6, <1>7 DEF mean

-----------------------------------------------------------------------------
(* The generator. *)

\* Every sample of the frame is the one that its tone has at its time, when the
\* frame ends s samples into the stream.
OnTime(def, frame, s) ==
  \A i \in DOMAIN frame :
    LET n == (s + Turn * Channels - Len(frame)) + i - 1
    IN frame[i] = ToneSample(def, ((n \div Channels) * StepOf(def, (n % Channels) + 1)) % Turn)

GenInv ==
  /\ generator \in Definitions /\ genOpen \in {0, 1}
  /\ sent \in Nat /\ sent % Channels = 0
  /\ genFrame \in Seq(Containers) /\ Len(genFrame) % Channels = 0
  /\ OnTime(generator, genFrame, sent)
  /\ genOpen = 1 =>
       /\ ~ Unusable(generator)
       /\ genPhase = [t \in 1..Channels |-> ((sent \div Channels) * StepOf(generator, t)) % Turn]
       /\ generator.duration # 0 => produced = sent /\ sent <= generator.duration
  /\ genOpen = 0 => genFrame = <<>>
  /\ genOutcome = "eof" => sent = generator.duration

\* What the assumptions say of the constants.
LEMMA GenConstants ==
  /\ Turn \in Nat \ {0} /\ Channels \in Nat \ {0} /\ PointSize \in Nat \ {0}
  /\ InputShift \in Nat \ {0} /\ QuarterPoints \in Nat \ {0}
  /\ Rate \in Nat \ {0} /\ FullScale \in Nat \ {0} /\ ProducedWrap \in Nat \ {0}
  /\ BufferSizes \subseteq Nat
<1>1. Turn \in Nat \ {0} /\ PointSize \in Nat \ {0} /\ Turn % (4 * PointSize) = 0
  BY TonesAssumption
<1>2. QuarterPoints \in Nat \ {0}
  <2> DEFINE Four == 4 * PointSize
  <2>1. Four \in Nat \ {0}
    BY <1>1
  <2>2. Turn \div Four \in Int /\ Turn = Four * (Turn \div Four) + (Turn % Four)
    <3> HIDE DEF Four
    <3> QED
      BY <1>1, <2>1, WholeTurns
  <2>3. Turn = Four * (Turn \div Four)
    <3> HIDE DEF Four
    <3>1. Turn % Four = 0
      BY <1>1 DEF Four
    <3>2. Four * (Turn \div Four) \in Int
      BY <2>1, <2>2
    <3> QED
      BY <2>2, <3>1, <3>2
  <2>4. Turn \div Four > 0
    <3> HIDE DEF Four
    <3>1. CASE Turn \div Four <= 0
      <4>1. Four * (Turn \div Four) <= 0
        BY <2>1, <2>2, <3>1
      <4> QED
        BY <1>1, <2>3, <4>1
    <3> QED
      BY <2>2, <3>1
  <2> QED
    BY <2>2, <2>4 DEF QuarterPoints
<1> QED
  BY <1>1, <1>2, TonesAssumption, GeneratorAssumption

\* What open() accepts has a step for every channel.
LEMMA StepIsNat ==
  ASSUME NEW def \in Definitions, ~ Unusable(def), NEW t \in 1..Channels
  PROVE  StepOf(def, t) \in Nat
<1>1. def.freq \in Seq(Nat) /\ Len(def.freq) = Channels
  BY GeneratorAssumption DEF Unusable
<1>2. def.freq[t] \in Nat
  BY <1>1
<1>3. def.freq[t] * Turn + Rate \div 2 \in Nat
  <2>1. def.freq[t] * Turn \in Nat /\ Rate \div 2 \in Nat
    BY <1>2, GenConstants
  <2> QED
    BY <2>1
<1> QED
  BY <1>3, GenConstants DEF StepOf, PhaseStep

\* What the table has at a point, mirrored.
LEMMA MirroredIsEntry ==
  ASSUME NEW point \in Nat
  PROVE  \E i \in 0..QuarterPoints :
           Mirrored(SineTable, point) = SineTable[i] \/ Mirrored(SineTable, point) = -SineTable[i]
<1>1. point % QuarterPoints \in 0..(QuarterPoints - 1)
  BY GenConstants
<1>2. /\ point % QuarterPoints \in 0..QuarterPoints
      /\ QuarterPoints - (point % QuarterPoints) \in 0..QuarterPoints
  BY <1>1, GenConstants
<1> DEFINE i == point % QuarterPoints
           quadrant == (point \div QuarterPoints) % 4
<1>3. Mirrored(SineTable, point) \in
        {SineTable[i], SineTable[QuarterPoints - i], -SineTable[i], -SineTable[QuarterPoints - i]}
  <2> HIDE DEF i, quadrant
  <2>1. Mirrored(SineTable, point) =
          CASE quadrant = 0 -> SineTable[i]
            [] quadrant = 1 -> SineTable[QuarterPoints - i]
            [] quadrant = 2 -> -SineTable[i]
            [] OTHER -> -SineTable[QuarterPoints - i]
    BY DEF Mirrored, i, quadrant
  <2>2. quadrant = 0 \/ quadrant = 1 \/ quadrant = 2 \/ ~ (quadrant = 0 \/ quadrant = 1 \/ quadrant = 2)
    OBVIOUS
  <2> QED
    BY <2>1, <2>2
<1> QED
  BY <1>2, <1>3

\* A sample fits its container.
LEMMA SampleFits ==
  ASSUME NEW def \in Definitions, ~ Unusable(def), NEW phase \in Nat
  PROVE  ToneSample(def, phase) \in Containers
<1>1. phase \div PointSize \in Nat
  BY GenConstants
<1>2. PICK i \in 0..QuarterPoints :
        \/ Mirrored(SineTable, phase \div PointSize) = SineTable[i]
        \/ Mirrored(SineTable, phase \div PointSize) = -SineTable[i]
  BY <1>1, MirroredIsEntry
<1>3. def.amplitude \in 0..FullScale /\ i \in DOMAIN SineTable
  BY GeneratorAssumption DEF Unusable
<1> DEFINE x == Mirrored(SineTable, phase \div PointSize)
           v == (x * def.amplitude) \div FullScale
<1>4. x \in {SineTable[i], -SineTable[i]}
  BY <1>2
<1>5. v \in (-InputMax)..(InputMax - 1)
  <2> HIDE DEF x
  <2> QED
    BY <1>3, <1>4, LinkAssumption
<1>6. v * InputShift \in Containers
  <2> HIDE DEF v
  <2>1. v \in Int /\ -InputMax <= v /\ v <= InputMax - 1 /\ InputMax \in Nat /\ InputShift \in Nat
        /\ InputShift >= 1
    BY <1>5, AnalyzerAssumption, GenConstants
  <2>2. /\ v * InputShift \in Int /\ InputMax * InputShift \in Nat
        /\ (v + InputMax) * InputShift = v * InputShift + InputMax * InputShift
        /\ (InputMax - 1 - v) * InputShift = InputMax * InputShift - InputShift - v * InputShift
    BY <2>1
  <2>3. (v + InputMax) * InputShift >= 0 /\ (InputMax - 1 - v) * InputShift >= 0
    BY <2>1
  <2> QED
    BY <2>1, <2>2, <2>3 DEF Containers
<1> QED
  BY <1>6 DEF ToneSample

\* process() makes whole sample sets, and no more than the duration has left.
LEMMA FrameIsWhole ==
  ASSUME GenInv, genOpen = 1, NEW size \in BufferSizes
  PROVE  /\ FrameSamples(size) \in Int /\ FrameSamples(size) % Channels = 0
         /\ FrameSamples(size) >= 0
         /\ generator.duration # 0 => sent + FrameSamples(size) <= generator.duration
         /\ size >= Channels /\ FrameSamples(size) = 0 => sent = generator.duration
<1>1. size \in Nat /\ Channels \in Nat \ {0}
  BY GenConstants
<1> DEFINE whole == size - (size % Channels)
           left == generator.duration - produced
<1>2. whole \in Nat /\ whole % Channels = 0 /\ (size >= Channels => whole > 0)
  <2>1. /\ size % Channels \in 0..(Channels - 1) /\ size \div Channels \in Int
        /\ size = Channels * (size \div Channels) + (size % Channels)
    BY <1>1, WholeTurns
  <2>2. PICK q \in Int, r \in 0..(Channels - 1) :
          q = size \div Channels /\ r = size % Channels /\ size = Channels * q + r
    BY <2>1
  <2>3. Channels * q \in Int /\ whole = Channels * q
    BY <1>1, <2>2
  <2>4. whole >= 0
    <3>1. CASE q < 0
      <4>1. Channels * q <= -Channels
        BY <1>1, <3>1
      <4> QED
        BY <1>1, <2>2, <4>1
    <3>2. CASE q >= 0
      BY <1>1, <2>3, <3>2
    <3> QED
      BY <3>1, <3>2
  <2>5. (Channels * q + 0) % Channels = 0
    BY <1>1, Residue
  <2>6. size >= Channels => whole > 0
    BY <1>1, <2>2, <2>3
  <2> HIDE DEF whole
  <2> QED
    BY <2>3, <2>4, <2>5, <2>6
<1>3. FrameSamples(size) = IF generator.duration # 0 /\ left < whole THEN left ELSE whole
  BY DEF FrameSamples
<1>4. CASE generator.duration = 0
  <2> HIDE DEF whole
  <2> QED
    BY <1>1, <1>2, <1>3, <1>4
<1>5. CASE generator.duration # 0
  <2>1. /\ produced = sent /\ sent <= generator.duration /\ sent \in Nat /\ sent % Channels = 0
        /\ generator.duration \in Nat /\ generator.duration % Channels = 0
    BY <1>5, GeneratorAssumption DEF GenInv, Unusable
  <2>2. left \in Nat /\ left % Channels = 0 /\ sent + left = generator.duration
    <3>1. PICK D \in Nat : D = generator.duration /\ D % Channels = 0
      BY <2>1
    <3>2. D \div Channels \in Int /\ D = Channels * (D \div Channels)
      BY <1>1, <3>1, Multiples
    <3>3. PICK a \in Int, b \in Int : sent = Channels * a /\ generator.duration = Channels * b
      <4>1. sent \div Channels \in Int /\ sent = Channels * (sent \div Channels)
        BY <1>1, <2>1, Multiples
      <4> QED
        BY <3>1, <3>2, <4>1
    <3>4. left = Channels * (b - a) + 0
      BY <1>1, <2>1, <3>3
    <3>5. (Channels * (b - a) + 0) % Channels = 0
      BY <1>1, Residue
    <3> QED
      BY <2>1, <3>4, <3>5
  <2> HIDE DEF whole, left
  <2> QED
    BY <1>1, <1>2, <1>3, <2>1, <2>2
<1> QED
  BY <1>4, <1>5

\* A frame begins where the one before it ended.
LEMMA GenerateHolds ==
  ASSUME GenInv, NEW size \in BufferSizes, Generate(size)
  PROVE  GenInv'
<1> DEFINE samples == FrameSamples(size)
           Steps(t) == StepOf(generator, t)
<1>1. /\ genOpen = 1 /\ samples > 0 /\ size >= Channels
      /\ UNCHANGED <<generator, genOpen>> /\ genOutcome' = "frame"
      /\ genFrame' = Frame(samples)
      /\ genPhase' = [t \in 1..Channels |->
                        (genPhase[t] + ((samples + Channels - 1) \div Channels) * Steps(t)) % Turn]
      /\ produced' = (produced + samples) % ProducedWrap
      /\ sent' = IF generator.duration = 0 THEN (sent + samples) % (Turn * Channels)
                                           ELSE sent + samples
  BY DEF Generate, Producing
<1>2. /\ samples \in Nat /\ samples % Channels = 0
      /\ generator.duration # 0 => sent + samples <= generator.duration
  BY <1>1, FrameIsWhole
<1>3. /\ generator \in Definitions /\ ~ Unusable(generator)
      /\ sent \in Nat /\ sent % Channels = 0
      /\ genPhase = [t \in 1..Channels |-> ((sent \div Channels) * Steps(t)) % Turn]
      /\ generator.duration # 0 => produced = sent
  BY <1>1 DEF GenInv
<1>4. Turn \in Nat \ {0} /\ Channels \in Nat \ {0} /\ \A t \in 1..Channels : Steps(t) \in Nat
  BY <1>3, GenConstants, StepIsNat
<1> HIDE DEF samples, Steps
<1>5. PICK q \in Nat : sent = Channels * q /\ sent \div Channels = q
  <2>1. sent \in Nat /\ sent % Channels = 0 /\ Channels \in Nat \ {0}
    BY <1>3, <1>4
  <2> QED
    BY <2>1, Multiples
<1>6. PICK m \in Nat : samples = Channels * m /\ samples \div Channels = m
  BY <1>2, <1>4, Multiples
<1>7. PICK k \in Int : sent' = Channels * (q + m + Turn * k) /\ sent' \in Nat
  <2>1. sent + samples = Channels * (q + m)
    BY <1>4, <1>5, <1>6
  <2>2. CASE generator.duration = 0
    <3>1. PICK d \in Int, e \in 0..(Turn - 1) : q + m = Turn * d + e
      <4>1. q + m \in Int
        OBVIOUS
      <4> QED
        <5>1. \A x \in Int : /\ x % Turn \in 0..(Turn - 1) /\ x \div Turn \in Int
                             /\ x = Turn * (x \div Turn) + (x % Turn)
          BY <1>4, WholeTurns
        <5>2. /\ (q + m) % Turn \in 0..(Turn - 1) /\ (q + m) \div Turn \in Int
              /\ q + m = Turn * ((q + m) \div Turn) + ((q + m) % Turn)
          BY <4>1, <5>1
        <5> QED
          BY <5>2
    <3>2. Turn * Channels \in Nat \ {0}
      BY <1>4
    <3>3. Channels * e \in 0..(Turn * Channels - 1)
      <4>1. Channels * e \in Nat
        BY <1>4
      <4>2. Channels * (Turn - 1 - e) >= 0
        BY <1>4
      <4>3. Channels * (Turn - 1 - e) = Turn * Channels - Channels - Channels * e
        BY <1>4
      <4> QED
        BY <1>4, <3>2, <4>1, <4>2, <4>3
    <3>4. sent + samples = (Turn * Channels) * d + Channels * e
      <4>1. Channels * (Turn * d + e) = Channels * (Turn * d) + Channels * e
        BY <1>4
      <4>2. Channels * (Turn * d) = (Turn * Channels) * d
        BY <1>4
      <4> QED
        BY <2>1, <3>1, <4>1, <4>2
    <3>5. sent' = Channels * e
      <4>1. \A T \in Nat \ {0}, x \in Int : \A r \in 0..(T - 1) : (T * x + r) % T = r
        BY Residue
      <4>2. ((Turn * Channels) * d + Channels * e) % (Turn * Channels) = Channels * e
        BY <3>2, <3>3, <4>1
      <4> QED
        BY <1>1, <2>2, <3>4, <4>2
    <3>6. e = q + m + Turn * (-d)
      <4>1. Turn * (-d) = -(Turn * d) /\ Turn * d \in Int
        BY <1>4
      <4> QED
        BY <3>1, <4>1
    <3>7. sent' \in Nat /\ -d \in Int
      BY <3>3, <3>5
    <3> QED
      BY <3>5, <3>6, <3>7
  <2>3. CASE generator.duration # 0
    <3>1. q + m = q + m + Turn * 0
      BY <1>4
    <3>2. sent' = Channels * (q + m + Turn * 0) /\ sent' \in Nat
      BY <1>1, <1>2, <1>3, <2>1, <2>3, <3>1
    <3> QED
      BY <3>2
  <2> QED
    BY <2>2, <2>3
<1>8. q + m + Turn * k \in Int /\ sent' % Channels = 0 /\ sent' \div Channels = q + m + Turn * k
  <2>1. q + m + Turn * k \in Int
    BY <1>4
  <2> QED
    BY <1>4, <1>7, <2>1, Multiples
<1>9. \A t \in 1..Channels : Steps(t)' = Steps(t)
  BY <1>1 DEF Steps, StepOf
<1>10. \A t \in 1..Channels, a \in Int, b \in Int :
          /\ ((a + Turn * b) * Steps(t)) % Turn = (a * Steps(t)) % Turn
          /\ \A c \in Int :
               (((a * Steps(t)) % Turn) + c * Steps(t)) % Turn = ((a + c) * Steps(t)) % Turn
  <2> SUFFICES ASSUME NEW t \in 1..Channels, NEW a \in Int, NEW b \in Int
               PROVE  /\ ((a + Turn * b) * Steps(t)) % Turn = (a * Steps(t)) % Turn
                      /\ \A c \in Int :
                           (((a * Steps(t)) % Turn) + c * Steps(t)) % Turn = ((a + c) * Steps(t)) % Turn
    OBVIOUS
  <2>1. PICK step \in Int : step = Steps(t)
    BY <1>4
  <2>2. /\ ((a + Turn * b) * step) % Turn = (a * step) % Turn
        /\ \A c \in Int : (((a * step) % Turn) + c * step) % Turn = ((a + c) * step) % Turn
    <3>1. Turn \in Nat \ {0}
      BY <1>4
    <3>2. ((a + Turn * b) * step) % Turn = (a * step) % Turn
      BY <3>1, TurnsOfSteps
    <3>3. ASSUME NEW c \in Int
          PROVE  (((a * step) % Turn) + c * step) % Turn = ((a + c) * step) % Turn
      <4>1. \A x, y, z \in Int : (((x * z) % Turn) + y * z) % Turn = ((x + y) * z) % Turn
        BY <3>1, SumOfSteps
      <4> QED
        BY <4>1, ZenonT(30)
    <3> QED
      BY <3>2, <3>3
  <2> QED
    BY <2>1, <2>2
<1>11. genPhase' = [t \in 1..Channels |-> ((sent' \div Channels) * Steps(t)) % Turn]
  <2>1. (samples + Channels - 1) \div Channels = m
    <3>1. Channels - 1 \in 0..(Channels - 1)
      BY <1>4
    <3>2. (Channels * m + (Channels - 1)) \div Channels = m
      BY <1>4, <3>1, Residue
    <3>3. samples + Channels - 1 = Channels * m + (Channels - 1)
      BY <1>2, <1>4, <1>6
    <3> QED
      BY <3>2, <3>3
  <2>2. ASSUME NEW t \in 1..Channels
        PROVE  (genPhase[t] + m * Steps(t)) % Turn = ((sent' \div Channels) * Steps(t)) % Turn
    <3>1. genPhase[t] = (q * Steps(t)) % Turn
      BY <1>3, <1>5
    <3>2. (((q * Steps(t)) % Turn) + m * Steps(t)) % Turn = ((q + m) * Steps(t)) % Turn
      BY <1>10
    <3>3. (((q + m) + Turn * k) * Steps(t)) % Turn = ((q + m) * Steps(t)) % Turn
      BY <1>10
    <3> QED
      BY <1>8, <3>1, <3>2, <3>3
  <2> QED
    BY <1>1, <2>1, <2>2
<1>12. /\ DOMAIN genFrame' = 1..samples /\ Len(genFrame') = samples
       /\ genFrame' \in Seq(Containers)
       /\ OnTime(generator, genFrame', sent')
  <2> DEFINE J(i) == (i - 1) \div Channels
             R(i) == (i - 1) % Channels
  <2>1. genFrame' = [i \in 1..samples |->
                       ToneSample(generator, (genPhase[R(i) + 1] + J(i) * Steps(R(i) + 1)) % Turn)]
    BY <1>1 DEF Frame, Steps
  <2>2. ASSUME NEW i \in 1..samples
        PROVE  /\ J(i) \in Int /\ R(i) \in 0..(Channels - 1) /\ i - 1 = Channels * J(i) + R(i)
               /\ R(i) + 1 \in 1..Channels
    <3>1. i - 1 \in Int
      BY <1>2
    <3>2. J(i) \in Int /\ R(i) \in 0..(Channels - 1) /\ i - 1 = Channels * J(i) + R(i)
      BY <1>4, <3>1, WholeTurns
    <3> HIDE DEF R, J
    <3> QED
      BY <1>4, <3>2
  <2> HIDE DEF J, R
  <2>3. ASSUME NEW i \in 1..samples
        PROVE  genFrame'[i] =
                 ToneSample(generator, ((q + J(i)) * Steps(R(i) + 1)) % Turn)
    <3>1. genPhase[R(i) + 1] = (q * Steps(R(i) + 1)) % Turn
      BY <1>3, <1>5, <2>2
    <3>2. (((q * Steps(R(i) + 1)) % Turn) + J(i) * Steps(R(i) + 1)) % Turn
            = ((q + J(i)) * Steps(R(i) + 1)) % Turn
      BY <1>10, <2>2
    <3> QED
      BY <2>1, <3>1, <3>2
  <2>4. ASSUME NEW i \in 1..samples PROVE genFrame'[i] \in Containers
    <3>1. ((q + J(i)) * Steps(R(i) + 1)) % Turn \in Nat
      <4>1. q + J(i) \in Int /\ Steps(R(i) + 1) \in Int
        BY <1>4, <2>2
      <4>2. (q + J(i)) * Steps(R(i) + 1) \in Int
        BY <4>1
      <4> HIDE DEF J, R
      <4> QED
        BY <1>4, <4>2
    <3> QED
      BY <1>3, <2>3, <3>1, SampleFits
  <2>5. DOMAIN genFrame' = 1..samples /\ genFrame' \in Seq(Containers) /\ Len(genFrame') = samples
    <3>1. genFrame' = [i \in 1..samples |-> genFrame'[i]]
      BY <2>1
    <3>2. genFrame' \in [1..samples -> Containers]
      BY <2>4, <3>1
    <3> QED
      BY <1>2, <3>2
  <2>6. ASSUME NEW i \in 1..samples
        PROVE  LET n == (sent' + Turn * Channels - samples) + i - 1
               IN /\ n \div Channels = (q + J(i)) + Turn * (k + 1)
                  /\ n % Channels = R(i)
    <3> DEFINE set == (q + J(i)) + Turn * (k + 1)
    <3>1. set \in Int
      BY <1>4, <2>2
    <3>2. (sent' + Turn * Channels - samples) + i - 1 = Channels * set + R(i)
      <4>1. Channels * (q + m + Turn * k) = Channels * q + Channels * m + Channels * (Turn * k)
        BY <1>4
      <4>2. Channels * set = Channels * q + Channels * J(i) + Channels * (Turn * (k + 1))
        BY <1>4, <2>2
      <4>3. Channels * (Turn * (k + 1)) = Channels * (Turn * k) + Turn * Channels
        BY <1>4
      <4>4. /\ Channels * q \in Int /\ Channels * m \in Int /\ Channels * (Turn * k) \in Int
            /\ Channels * J(i) \in Int /\ Turn * Channels \in Int
        BY <1>4, <2>2
      <4>5. i - 1 = Channels * J(i) + R(i) /\ R(i) \in Int /\ i \in Int
        BY <2>2
      <4> HIDE DEF set
      <4> QED
        BY <1>6, <1>7, <4>1, <4>2, <4>3, <4>4, <4>5
    <3>3. (Channels * set + R(i)) % Channels = R(i) /\ (Channels * set + R(i)) \div Channels = set
      <4> HIDE DEF set
      <4> QED
        BY <1>4, <2>2, <3>1, Residue
    <3> QED
      BY <3>2, <3>3
  <2>7. OnTime(generator, genFrame', sent')
    <3> SUFFICES ASSUME NEW i \in 1..samples
                 PROVE  LET n == (sent' + Turn * Channels - samples) + i - 1
                        IN genFrame'[i] = ToneSample(generator,
                             ((n \div Channels) * StepOf(generator, (n % Channels) + 1)) % Turn)
      BY <2>5 DEF OnTime
    <3>1. (((q + J(i)) + Turn * (k + 1)) * Steps(R(i) + 1)) % Turn
            = ((q + J(i)) * Steps(R(i) + 1)) % Turn
      <4>1. q + J(i) \in Int /\ k + 1 \in Int /\ R(i) + 1 \in 1..Channels
        BY <2>2
      <4> QED
        BY <1>10, <4>1
    <3> QED
      BY <2>3, <2>6, <3>1 DEF Steps
  <2> QED
    BY <2>5, <2>7
<1>13. generator.duration # 0 => produced' = sent' /\ sent' <= generator.duration
  <2> SUFFICES ASSUME generator.duration # 0
               PROVE  produced' = sent' /\ sent' <= generator.duration
    OBVIOUS
  <2>1. generator.duration \in Nat /\ generator.duration < ProducedWrap /\ ProducedWrap \in Nat
    BY <1>3, GeneratorAssumption
  <2>2. sent' = sent + samples /\ produced + samples = sent + samples
        /\ sent + samples <= generator.duration /\ sent + samples \in Nat
    BY <1>1, <1>2, <1>3
  <2>3. (sent + samples) % ProducedWrap = sent + samples
    BY <2>1, <2>2
  <2> QED
    BY <1>1, <2>2, <2>3
<1> QED
  BY <1>1, <1>2, <1>3, <1>7, <1>8, <1>9, <1>11, <1>12, <1>13 DEF GenInv, Steps

\* Opening starts the stream over; nothing else moves the phase while it is open.
LEMMA GenStepHolds ==
  ASSUME GenInv,
         \/ OpenGenerator \/ CloseGenerator \/ Replace
         \/ \E size \in BufferSizes : Generate(size) \/ GenerateNothing(size)
         \/ UNCHANGED genVars
  PROVE  GenInv'
<1>0. /\ <<>> \in Seq(Containers) /\ Len(<<>>) = 0 /\ 0 % Channels = 0 /\ 0 \div Channels = 0
      /\ \A def, s : OnTime(def, <<>>, s)
  BY GenConstants DEF OnTime
<1>1. ASSUME OpenGenerator \/ Replace PROVE GenInv'
  <2>1. generator' \in Definitions
    BY <1>1, LinkAssumption DEF OpenGenerator, Replace, GenInv
  <2>2. /\ sent' = 0 /\ produced' = 0 /\ genFrame' = <<>> /\ genOutcome' # "eof"
        /\ genPhase' = [t \in 1..Channels |-> 0]
    BY <1>1 DEF OpenGenerator, Replace, Chans
  <2>3. genOpen' \in {0, 1} /\ (genOpen' = 1 => ~ Unusable(generator'))
    BY <1>1 DEF OpenGenerator, Replace, GenInv
  <2>4. ASSUME genOpen' = 1
        PROVE  genPhase' = [t \in 1..Channels |->
                              ((sent' \div Channels) * StepOf(generator', t)) % Turn]
    <3>1. \A t \in 1..Channels : StepOf(generator', t) \in Nat
      BY <2>1, <2>3, <2>4, StepIsNat
    <3>2. \A t \in 1..Channels : (0 * StepOf(generator', t)) % Turn = 0
      BY <3>1, GenConstants
    <3> QED
      BY <1>0, <2>2, <3>2
  <2>5. generator'.duration \in Nat
    BY <2>1, GeneratorAssumption
  <2> QED
    BY <1>0, <2>1, <2>2, <2>3, <2>4, <2>5 DEF GenInv
<1>2. CASE CloseGenerator
  BY <1>0, <1>2 DEF CloseGenerator, GenInv
<1>3. ASSUME NEW size \in BufferSizes, GenerateNothing(size) PROVE GenInv'
  <2>1. genOpen = 1 /\ genFrame' = <<>> /\ UNCHANGED <<generator, genOpen, genPhase, produced, sent>>
        /\ (genOutcome' = "eof" => size >= Channels /\ FrameSamples(size) = 0)
    BY <1>3, GenConstants DEF GenerateNothing, Producing
  <2>2. genOutcome' = "eof" => sent = generator.duration
    BY <2>1, FrameIsWhole
  <2> QED
    BY <1>0, <2>1, <2>2 DEF GenInv
<1>4. CASE UNCHANGED genVars
  BY <1>4 DEF genVars, GenInv
<1> QED
  BY <1>1, <1>2, <1>3, <1>4, GenerateHolds

\* No step of the loopback disturbs the generator but its own.
LEMMA LinkKeepsTime == LinkSpec => []GenInv
<1>1. LinkInit => GenInv
  <2> SUFFICES ASSUME LinkInit PROVE GenInv
    OBVIOUS
  <2>1. /\ <<>> \in Seq(Containers) /\ Len(<<>>) = 0 /\ 0 % Channels = 0
        /\ \A def, s : OnTime(def, <<>>, s)
    BY GenConstants DEF OnTime
  <2> QED
    BY <2>1 DEF LinkInit, GenInit, GenInv
<1>2. GenInv /\ [LinkNext]_allVars => GenInv'
  <2> SUFFICES ASSUME GenInv, [LinkNext]_allVars PROVE GenInv'
    OBVIOUS
  <2>1. CASE Replace \/ StartGenerator \/ StopGenerator
    BY <2>1, GenStepHolds DEF StartGenerator, StopGenerator
  <2>2. CASE GeneratorRuns
    BY <2>2, GenStepHolds DEF GeneratorRuns, Transmit, TransmitEnds
  <2>3. CASE StartAnalyzer \/ StopAnalyzer \/ AnalyzerRuns \/ ReceiveFails \/ Ask \/ Answer
             \/ UNCHANGED allVars
    BY <2>3, GenStepHolds
       DEF StartAnalyzer, StopAnalyzer, AnalyzerRuns, Work, ReceiveEnds, Receive, ReceiveFails,
           Ask, Answer, allVars
  <2> QED
    BY <2>1, <2>2, <2>3 DEF LinkNext
<1> QED
  BY <1>1, <1>2, PTL DEF LinkSpec

\* Every sample of every frame is the one that the table has for its channel at
\* its time, for any table, any rate and every size of frame buffers, however long
\* the stream is; and a stream that is limited ends when the duration was sent.
THEOREM PhaseNeverDrifts ==
  LinkSpec => [](/\ OnTime(generator, genFrame, sent)
                 /\ genOutcome = "eof" => sent = generator.duration)
<1>1. GenInv => /\ OnTime(generator, genFrame, sent)
                /\ genOutcome = "eof" => sent = generator.duration
  BY DEF GenInv
<1> QED
  BY <1>1, LinkKeepsTime, PTL

\* A table that is exact has the ideal sample at every time, however many periods
\* have gone by.
LEMMA PeriodsRepeat ==
  ASSUME TableIsExact, NEW def \in Definitions, ~ Unusable(def), NEW n \in Int
  PROVE  LET period == Periods[def.freq[(n % Channels) + 1]]
         IN ToneSample(def, ((n \div Channels) * StepOf(def, (n % Channels) + 1)) % Turn) * FullScale
              = period[((n \div Channels) % Len(period)) + 1] * def.amplitude * InputShift
<1> DEFINE tone == (n % Channels) + 1
           set == n \div Channels
           period == Periods[def.freq[tone]]
           Level(s) == (Mirrored(SineTable, ((s * StepOf(def, tone)) % Turn) \div PointSize)
                          * def.amplitude) \div FullScale
<1>1. tone \in 1..Channels /\ set \in Int
  BY GenConstants, WholeTurns
<1>2. /\ period \in Seq(Int) /\ Len(period) > 0 /\ (Len(period) * StepOf(def, tone)) % Turn = 0
      /\ \A s \in 0..(Len(period) - 1) : Level(s) * FullScale = period[s + 1] * def.amplitude
  BY <1>1 DEF TableIsExact
<1>3. PICK step \in Nat, L \in Nat \ {0} : step = StepOf(def, tone) /\ L = Len(period)
  BY <1>1, <1>2, StepIsNat
<1> HIDE DEF tone, set, period
<1>4. PICK d \in Int, s \in 0..(L - 1) : d = set \div L /\ s = set % L /\ set = L * d + s
  <2>1. \A x \in Int : x % L \in 0..(L - 1) /\ x \div L \in Int /\ x = L * (x \div L) + (x % L)
    BY WholeTurns
  <2>2. set % L \in 0..(L - 1) /\ set \div L \in Int /\ set = L * (set \div L) + (set % L)
    BY <1>1, <2>1
  <2> QED
    BY <2>2
<1>5. PICK w \in Int : L * step = Turn * w
  <2>1. L * step \in Int /\ (L * step) % Turn = 0
    BY <1>2, <1>3
  <2>2. \A x \in Int : x % Turn = 0 => x \div Turn \in Int /\ x = Turn * (x \div Turn)
    BY GenConstants, Multiples
  <2>3. (L * step) \div Turn \in Int /\ L * step = Turn * ((L * step) \div Turn)
    BY <2>1, <2>2
  <2> QED
    BY <2>3
<1>6. (set * step) % Turn = (s * step) % Turn
  <2>1. set * step = s * step + Turn * (w * d)
    <3>1. (L * d + s) * step = s * step + (L * d) * step
      OBVIOUS
    <3>2. (L * d) * step = (L * step) * d
      OBVIOUS
    <3>3. (Turn * w) * d = Turn * (w * d)
      BY GenConstants
    <3> QED
      BY <1>4, <1>5, <3>1, <3>2, <3>3
  <2>2. s * step \in Int /\ w * d \in Int
    OBVIOUS
  <2>3. \A x, y \in Int : (x + Turn * y) % Turn = x % Turn
    BY GenConstants, WholeTurns
  <2>4. (s * step + Turn * (w * d)) % Turn = (s * step) % Turn
    BY <2>2, <2>3
  <2> QED
    BY <2>1, <2>4
<1>7. Level(set) = Level(s)
  BY <1>3, <1>6
<1>8. Level(s) * FullScale = period[s + 1] * def.amplitude
  BY <1>2, <1>3
<1>9. Level(s) \in Int /\ period[s + 1] \in Int /\ def.amplitude \in Int
  <2>1. (s * step) % Turn \in Nat
    <3>1. s * step \in Int
      OBVIOUS
    <3> QED
      BY <3>1, GenConstants
  <2>2. ((s * step) % Turn) \div PointSize \in Nat
    BY <2>1, GenConstants
  <2>3. Mirrored(SineTable, ((s * step) % Turn) \div PointSize) \in Int
    <3>1. \A i \in 0..QuarterPoints : SineTable[i] \in Int
      BY GeneratorAssumption
    <3> QED
      BY <2>2, <3>1, MirroredIsEntry
  <2>4. def.amplitude \in Int
    BY GeneratorAssumption
  <2>5. Level(s) \in Int
    <3> DEFINE x == Mirrored(SineTable, ((s * step) % Turn) \div PointSize)
    <3>1. \A y, z \in Int : (y * z) \div FullScale \in Int
      BY GenConstants
    <3>2. (x * def.amplitude) \div FullScale \in Int
      <4> HIDE DEF x
      <4>1. x \in Int
        BY <2>3 DEF x
      <4> QED
        BY <2>4, <3>1, <4>1
    <3>3. Level(s) = (x * def.amplitude) \div FullScale
      BY <1>3
    <3> QED
      BY <3>2, <3>3
  <2>6. period[s + 1] \in Int
    BY <1>2, <1>3
  <2> QED
    BY <2>4, <2>5, <2>6
<1>10. ToneSample(def, (set * StepOf(def, tone)) % Turn) = Level(set) * InputShift
  BY DEF ToneSample
<1> HIDE DEF Level
<1>11. (Level(s) * InputShift) * FullScale = (period[s + 1] * def.amplitude) * InputShift
  <2>1. (Level(s) * InputShift) * FullScale = (Level(s) * FullScale) * InputShift
    BY <1>9, GenConstants
  <2> QED
    BY <1>8, <2>1
<1>12. ToneSample(def, (set * StepOf(def, tone)) % Turn) * FullScale
         = period[(set % Len(period)) + 1] * def.amplitude * InputShift
  BY <1>3, <1>4, <1>7, <1>10, <1>11
<1> QED
  BY <1>12 DEF tone, set, period

\* The stream has the ideal samples, at every time, on every channel, in frames of
\* any size, wherever the numbers are exact: the rounding of the phase step and of
\* the table is what is left between the code and the ideal.
THEOREM StreamIsOnTime == TableIsExact => (LinkSpec => []StreamKeepsTime)
<1> SUFFICES ASSUME TableIsExact PROVE LinkSpec => []StreamKeepsTime
  OBVIOUS
<1>1. GenInv => StreamKeepsTime
  <2> SUFFICES ASSUME GenInv, NEW i \in DOMAIN genFrame
               PROVE  genFrame[i] * FullScale
                        = Ideal((sent + Turn * Channels - Len(genFrame)) + i - 1)
    BY DEF GenInv, StreamKeepsTime
  <2> DEFINE n == (sent + Turn * Channels - Len(genFrame)) + i - 1
  <2>1. generator \in Definitions /\ ~ Unusable(generator)
    BY DEF GenInv
  <2>2. n \in Int
    <3>1. sent \in Int /\ Turn * Channels \in Int /\ Len(genFrame) \in Int /\ i \in Int
      BY GenConstants DEF GenInv
    <3> QED
      BY <3>1
  <2>3. genFrame[i] = ToneSample(generator,
          ((n \div Channels) * StepOf(generator, (n % Channels) + 1)) % Turn)
    BY DEF GenInv, OnTime
  <2> HIDE DEF n
  <2>4. genFrame[i] * FullScale = Ideal(n)
    BY <2>1, <2>2, <2>3, PeriodsRepeat DEF Ideal
  <2> QED
    BY <2>4 DEF n
<1> QED
  BY <1>1, LinkKeepsTime, PTL
-----------------------------------------------------------------------------
(* The link is an upstream like any other. *)

WireInv == wire \in Seq(Containers)

\* The other samples of a sample's set are in the frame as well.
LEMMA SameSet ==
  ASSUME NEW size \in Nat, size % Channels = 0, NEW i \in 1..size, NEW d \in Chans
  PROVE  /\ i - (((i - 1) % Channels) + 1) + d \in 1..size
         /\ \E j \in Int, r \in 0..(Channels - 1) :
              /\ r = (i - 1) % Channels /\ i - 1 = Channels * j + r
              /\ i - (r + 1) + d = Channels * j + d
<1>1. Channels \in Nat \ {0} /\ d \in 1..Channels /\ i - 1 \in Int
  BY GenConstants DEF Chans
<1>2. \A x \in Int : x % Channels \in 0..(Channels - 1) /\ x \div Channels \in Int
                     /\ x = Channels * (x \div Channels) + (x % Channels)
  BY <1>1, WholeTurns
<1>3. PICK j \in Int, r \in 0..(Channels - 1) : r = (i - 1) % Channels /\ i - 1 = Channels * j + r
  BY <1>1, <1>2
<1>4. PICK m \in Int : size = Channels * m
  <2>1. \A x \in Int : x % Channels = 0 => x \div Channels \in Int /\ x = Channels * (x \div Channels)
    BY <1>1, Multiples
  <2>2. size \div Channels \in Int /\ size = Channels * (size \div Channels)
    BY <2>1
  <2> QED
    BY <2>2
<1>5. Channels * j \in Int /\ Channels * m \in Int
  BY <1>1
<1>6. 0 <= Channels * j /\ Channels * j <= Channels * m - Channels
  <2>1. j >= 0
    <3>1. CASE j <= -1
      <4>1. Channels * j <= -Channels
        BY <1>1, <3>1
      <4> QED
        BY <1>1, <1>3, <1>5, <4>1
    <3> QED
      BY <3>1
  <2>2. j <= m - 1
    <3>1. CASE j >= m
      <4>1. Channels * j >= Channels * m
        BY <1>1, <3>1
      <4> QED
        BY <1>3, <1>4, <1>5, <4>1
    <3> QED
      BY <3>1
  <2>3. PICK a \in Int, b \in Int : a = Channels * j /\ b = Channels * m
    BY <1>5
  <2>4. Channels * (m - 1 - j) >= 0 /\ a >= 0
    BY <1>1, <2>1, <2>2, <2>3
  <2>5. Channels * (m - 1 - j) = b - Channels - a
    BY <1>1, <2>3
  <2> QED
    BY <1>1, <2>3, <2>4, <2>5
<1>7. i - (r + 1) + d = Channels * j + d
  BY <1>1, <1>3, <1>5
<1>8. Channels * j + d \in 1..size
  BY <1>1, <1>4, <1>5, <1>6
<1> QED
  BY <1>3, <1>7, <1>8

\* What arrives of a frame of whole sample sets are samples again: a channel's
\* neighbour is in the same set.
LEMMA ReceivedAreSamples ==
  ASSUME NEW frame \in Seq(Containers), Len(frame) % Channels = 0
  PROVE  Received(frame) \in Seq(Containers)
<1>1. Channels \in Nat \ {0} /\ InputMax \in Nat \ {0} /\ InputShift \in Nat \ {0}
  BY GenConstants, AnalyzerAssumption
<1>2. 0 \in Containers /\ -(InputMax * InputShift) \in Containers
  <2>1. InputMax * InputShift \in Nat \ {0}
    BY <1>1
  <2> QED
    BY <2>1 DEF Containers
<1>3. ASSUME NEW i \in 1..Len(frame)
      PROVE  i - (((i - 1) % Channels) + 1) + NextChannel(((i - 1) % Channels) + 1) \in 1..Len(frame)
  <2>1. \A x \in Int : x % Channels \in 0..(Channels - 1) /\ NextChannel(x) \in Chans
    BY <1>1 DEF NextChannel, Chans
  <2>2. ((i - 1) % Channels) + 1 \in Int
    BY <2>1
  <2>3. NextChannel(((i - 1) % Channels) + 1) \in Chans
    BY <2>1, <2>2
  <2> QED
    BY <2>3, SameSet
<1>4. ASSUME NEW i \in 1..Len(frame) PROVE Received(frame)[i] \in Containers
  <2>1. \A j \in 1..Len(frame) : frame[j] \in Containers
    OBVIOUS
  <2> DEFINE c == ((i - 1) % Channels) + 1
             own == [d \in Chans |-> frame[i - c + d]]
  <2>2. c \in Chans /\ NextChannel(c) \in Chans
    <3>1. \A x \in Int : x % Channels \in 0..(Channels - 1)
      BY <1>1
    <3>2. (i - 1) % Channels \in 0..(Channels - 1) /\ c \in Int
      <4>1. i - 1 \in Int
        OBVIOUS
      <4>2. (i - 1) % Channels \in 0..(Channels - 1)
        BY <3>1, <4>1, Zenon
      <4> QED
        BY <1>1, <4>2
    <3>3. c % Channels \in 0..(Channels - 1)
      <4> HIDE DEF c
      <4> QED
        BY <3>1, <3>2
    <3> HIDE DEF c
    <3>4. NextChannel(c) \in Chans
      BY <1>1, <3>3 DEF NextChannel, Chans
    <3> QED
      BY <1>1, <3>2, <3>4 DEF Chans, c
  <2>3. Received(frame)[i] = Delivered(wiring, (sent + i - 1) \div Channels, own)[c]
    BY DEF Received
  <2>4. own[NextChannel(c)] = frame[i - c + NextChannel(c)] /\ own[c] = frame[i]
    <3>1. own[c] = frame[i - c + c] /\ i - c + c = i
      <4>1. \A x \in Int : i - x + x = i
        OBVIOUS
      <4>2. c \in Int
        BY <1>1, <2>2 DEF Chans
      <4> HIDE DEF c
      <4> QED
        BY <2>2, <4>1, <4>2
    <3> HIDE DEF c
    <3> QED
      BY <2>2, <3>1
  <2>5. Received(frame)[i] \in
          {own[NextChannel(c)], own[c], -(InputMax * InputShift), 0}
    <3> HIDE DEF c, own
    <3> QED
      BY <2>2, <2>3 DEF Delivered
  <2> QED
    BY <1>2, <1>3, <2>1, <2>4, <2>5
<1>5. Received(frame) = [i \in 1..Len(frame) |-> Received(frame)[i]]
  BY DEF Received
<1>6. Received(frame) \in [1..Len(frame) -> Containers]
  BY <1>4, <1>5
<1> QED
  BY <1>6

\* Only samples are ever on the wire.
LEMMA LinkCarriesSamples == LinkSpec => []WireInv
<1>1. LinkInit => WireInv
  BY DEF LinkInit, WireInv
<1>2. WireInv /\ GenInv' /\ [LinkNext]_allVars => WireInv'
  <2> SUFFICES ASSUME WireInv, GenInv', [LinkNext]_allVars PROVE WireInv'
    OBVIOUS
  <2>1. CASE \E size \in BufferSizes : Transmit(size)
    <3>1. Received(genFrame') \in Seq(Containers)
      BY ReceivedAreSamples DEF GenInv
    <3>2. <<>> \in Seq(Containers)
      OBVIOUS
    <3> QED
      BY <2>1, <3>1, <3>2 DEF Transmit, WireInv
  <2>2. CASE \E size \in Cuts : Receive(size)
    <3>1. PICK size \in Cuts : Receive(size)
      BY <2>2
    <3>2. Least(size, Len(wire)) \in Nat
      BY LinkAssumption DEF Least, WireInv
    <3> DEFINE n == Least(size, Len(wire))
    <3>3. SubSeq(wire, n + 1, Len(wire)) \in Seq(Containers)
      <4> HIDE DEF n
      <4>1. n \in Nat
        BY <3>2 DEF n
      <4> QED
        BY <4>1 DEF WireInv
    <3> QED
      BY <3>1, <3>3 DEF Receive, WireInv
  <2>3. CASE StopAnalyzer
    BY <2>3 DEF StopAnalyzer, WireInv
  <2>4. CASE \/ Replace \/ StartGenerator \/ StopGenerator \/ TransmitEnds \/ StartAnalyzer
             \/ Work \/ ReceiveEnds \/ ReceiveFails \/ Ask \/ Answer \/ UNCHANGED allVars
    BY <2>4 DEF Replace, StartGenerator, StopGenerator, TransmitEnds, StartAnalyzer, Work,
                ReceiveEnds, ReceiveFails, Ask, Answer, link, allVars, WireInv
  <2> QED
    BY <2>1, <2>2, <2>3, <2>4 DEF LinkNext, GeneratorRuns, AnalyzerRuns
<1> QED
  BY <1>1, <1>2, LinkKeepsTime, PTL DEF LinkSpec

\* The loopback implements the analyser behind any upstream: each step of the link
\* is one of the analyser with samples of its containers, or leaves it alone.
THEOREM LinkImplementsAnalyzer == LinkSpec => AnaSpec
<1>1. LinkInit => AnaInit
  BY DEF LinkInit
<1>2. WireInv /\ [LinkNext]_allVars => [AnaNext]_anaVars
  <2> SUFFICES ASSUME WireInv, [LinkNext]_allVars PROVE [AnaNext]_anaVars
    OBVIOUS
  <2>1. CASE \E size \in Cuts : Receive(size)
    <3>1. PICK size \in Cuts : Receive(size)
      BY <2>1
    <3> DEFINE n == Least(size, Len(wire))
    <3>2. n \in 0..Len(wire)
      BY LinkAssumption DEF Least, WireInv
    <3>3. SubSeq(wire, 1, n) \in Seq(Containers)
      <4> HIDE DEF n
      <4> QED
        BY <3>2 DEF WireInv
    <3> QED
      BY <3>1, <3>3 DEF Receive, AnaNext
  <2>2. CASE \/ Replace \/ StartGenerator \/ StopGenerator \/ TransmitEnds
             \/ \E size \in BufferSizes : Transmit(size)
             \/ UNCHANGED allVars
    BY <2>2 DEF Replace, StartGenerator, StopGenerator, TransmitEnds, Transmit, allVars
  <2>3. CASE StartAnalyzer \/ StopAnalyzer \/ Work \/ ReceiveEnds \/ ReceiveFails \/ Ask \/ Answer
    BY <2>3 DEF StartAnalyzer, StopAnalyzer, Work, ReceiveEnds, ReceiveFails, Ask, Answer, AnaNext
  <2> QED
    BY <2>1, <2>2, <2>3 DEF LinkNext, GeneratorRuns, AnalyzerRuns
<1> QED
  BY <1>1, <1>2, LinkCarriesSamples, PTL DEF LinkSpec, AnaSpec

\* ... so what holds of the analyser holds in the loopback.
COROLLARY LinkNeverOverflows == LinkSpec => []SumsFit
BY LinkImplementsAnalyzer, SumsNeverOverflow, PTL

COROLLARY LinkReadersGetWholeResults == LinkSpec => ResultIsWhole
BY LinkImplementsAnalyzer, ReadersGetWholeResults, PTL

-----------------------------------------------------------------------------
(* What a verdict is on. *)

\* Sample number n of what arrives of a stream.
Stream(def, wired, n) == Heard(def, wired, n \div Channels)[(n % Channels) + 1]

\* Samples that have arrived and are not measured, the number of the first, and of
\* the one that follows them, when the window began with sample set number first.
Pending == anaFrame \o wire
Here(first) == (first + filled) * Channels + (channelPos - 1)
Ahead(first) == Here(first) + Len(Pending)

\* The sums are those of the sample sets from number first on, what is pending are
\* the samples that follow, and the generator goes on where they end.
InWindow(first) ==
  /\ \A c \in Chans :
       sums[c] = WindowSums(coefficient, generator, wiring, first)[Held(c)][c]
  /\ \A i \in DOMAIN Pending : Pending[i] = Stream(generator, wiring, Here(first) + i - 1)
  /\ generator.duration # 0 => Ahead(first) <= generator.duration
  /\ genOpen = 1 => \E m \in Int : /\ Ahead(first) = sent + (Turn * Channels) * m
                                   /\ generator.duration # 0 => m = 0

Opening == {"clear", "cleared", "check"}

TrackInv ==
  /\ \E s \in Setups : s.generator = generator /\ s.wiring = wiring
  /\ anaOpen \in {0, 1}
  /\ anaPc \in Opening =>
       /\ anaOpen = 0 /\ sums = [c \in Chans |-> Empty] /\ filled = 0 /\ channelPos = 1
  /\ anaPc \in Opening \union {"idle"} => anaFrame = <<>>
  /\ anaPc \in {"publish", "published"} => filled = Window
  /\ anaOpen = 0 => wire = <<>> /\ anaPc \in Opening \union {"idle"}
  /\ anaOpen = 1 =>
       /\ \E f \in Formats : Accepts(f) /\ coefficient = Coefficients(f.rate)
       /\ \E first \in Nat : InWindow(first)
       /\ Pending # <<>> \/ filled # 0 \/ channelPos # 1 => ~Unusable(generator)

\* The sums of a window, set by set.
LEMMA SumsSetBySet ==
  ASSUME NEW coef, NEW def, NEW wired, NEW first
  PROVE  /\ WindowSums(coef, def, wired, first)[0] = [c \in Chans |-> Empty]
         /\ \A k \in 1..Window :
              WindowSums(coef, def, wired, first)[k] =
                [c \in Chans |-> Folded(coef, WindowSums(coef, def, wired, first)[k - 1][c],
                                        Narrowed(Heard(def, wired, first + k - 1)[c]))]
<1> DEFINE Step(before, k) ==
             [c \in Chans |-> Folded(coef, before[c], Narrowed(Heard(def, wired, first + k - 1)[c]))]
           Def(f, k) == IF k = 0 THEN [c \in Chans |-> Empty] ELSE Step(f[k - 1], k)
           P(n) == \E f : f = [k \in 0..n |-> Def(f, k)]
           T == {n \in Nat : P(n)}
           Q(f) == f = [k \in 0..Window |-> Def(f, k)]
<1>0. Window \in Nat
  BY ConstantFacts
<1>4. WindowSums(coef, def, wired, first) = CHOOSE f : Q(f)
  BY DEF WindowSums
<1> HIDE DEF Step
<1>1. P(0)
  <2> DEFINE f == [k \in 0..0 |-> [c \in Chans |-> Empty]]
  <2>1. f = [k \in 0..0 |-> Def(f, k)]
    OBVIOUS
  <2> HIDE DEF f
  <2> QED
    BY <2>1
<1>2. ASSUME NEW n \in Nat, P(n) PROVE P(n + 1)
  <2>1. PICK f : f = [k \in 0..n |-> Def(f, k)]
    BY <1>2
  <2> DEFINE g == [k \in 0..(n + 1) |-> IF k = n + 1 THEN Def(f, n + 1) ELSE f[k]]
  <2>2. \A k \in 0..(n + 1) : g[k] = Def(g, k)
    <3> SUFFICES ASSUME NEW k \in 0..(n + 1) PROVE g[k] = Def(g, k)
      OBVIOUS
    <3>1. CASE k = 0
      BY <2>1, <3>1
    <3>2. CASE k # 0
      <4>1. k - 1 \in 0..n /\ k - 1 \in 0..(n + 1) /\ k - 1 # n + 1
        BY <3>2
      <4>2. g[k - 1] = f[k - 1]
        BY <4>1
      <4>3. CASE k = n + 1
        BY <3>2, <4>2, <4>3
      <4>4. CASE k # n + 1
        BY <2>1, <3>2, <4>2, <4>4
      <4> QED
        BY <4>3, <4>4
    <3> QED
      BY <3>1, <3>2
  <2>3. g = [k \in 0..(n + 1) |-> Def(g, k)]
    BY <2>2
  <2> HIDE DEF g
  <2> QED
    BY <2>3
<1>3. P(Window)
  <2> HIDE DEF P
  <2>1. T \in SUBSET Nat /\ 0 \in T
    BY <1>1
  <2>2. \A n \in T : n + 1 \in T
    <3> SUFFICES ASSUME NEW n \in T PROVE n + 1 \in T
      OBVIOUS
    <3>1. n \in Nat /\ n + 1 \in Nat /\ P(n)
      OBVIOUS
    <3> QED
      BY <1>2, <3>1
  <2>3. T = Nat
    <3> HIDE DEF T
    <3> QED
      BY <2>1, <2>2, Induction
  <2> QED
    BY <1>0, <2>3
<1> DEFINE W == WindowSums(coef, def, wired, first)
<1> HIDE DEF W
<1>5. Q(W)
  <2>1. \E f : Q(f)
    BY <1>3
  <2> HIDE DEF Q
  <2> QED
    BY <1>4, <2>1, Zenon DEF W
<1>6. \A k \in 0..Window : W[k] = Def(W, k)
  <2> HIDE DEF Def
  <2> QED
    BY <1>5, Zenon
<1> HIDE DEF Q, P, T
<1>7. 0 \in 0..Window /\ \A k \in 1..Window : k \in 0..Window /\ k # 0
  BY <1>0
<1>8. /\ W[0] = [c \in Chans |-> Empty]
      /\ \A k \in 1..Window : W[k] = Step(W[k - 1], k)
  BY <1>6, <1>7
<1> QED
  BY <1>8 DEF Step, W

\* What arrives repeats with a turn of sample sets.
LEMMA HeardRepeats ==
  ASSUME NEW def \in Definitions, ~Unusable(def), NEW wired, NEW set \in Int, NEW k \in Int
  PROVE  Heard(def, wired, set + Turn * k) = Heard(def, wired, set)
<1>1. Turn \in Nat \ {0} /\ Channels \in Nat \ {0}
  BY GenConstants
<1>2. ASSUME NEW d \in Chans
      PROVE  ((set + Turn * k) * StepOf(def, d)) % Turn = (set * StepOf(def, d)) % Turn
  <2>1. PICK step \in Int : step = StepOf(def, d)
    BY StepIsNat DEF Chans
  <2>2. ((set + Turn * k) * step) % Turn = (set * step) % Turn
    BY <1>1, TurnsOfSteps
  <2> QED
    BY <2>1, <2>2
<1>3. ASSUME NEW w \in Clicking
      PROVE  (set + Turn * k) % ClickPeriod[w] = set % ClickPeriod[w]
  <2>1. PICK p \in Nat \ {0} : p = ClickPeriod[w] /\ Turn % p = 0
    BY <1>3, LinkAssumption DEF Clicking
  <2>2. PICK q \in Int : Turn = p * q
    <3>1. \A n \in Int : n % p = 0 => n \div p \in Int /\ n = p * (n \div p)
      BY <2>1, Multiples
    <3>2. Turn \div p \in Int /\ Turn = p * (Turn \div p)
      BY <1>1, <2>1, <3>1
    <3> QED
      BY <3>2
  <2>3. Turn * k = p * (q * k)
    BY <2>2
  <2>4. (set + p * (q * k)) % p = set % p
    <3>1. \A y \in Int : (set + p * y) % p = set % p
      BY WholeTurns
    <3>2. q * k \in Int
      OBVIOUS
    <3> QED
      BY <3>1, <3>2
  <2> QED
    BY <2>1, <2>3, <2>4
<1> DEFINE Own(n) == [d \in Chans |-> ToneSample(def, (n * StepOf(def, d)) % Turn)]
<1>4. Own(set + Turn * k) = Own(set)
  BY <1>2
<1> HIDE DEF Own
<1>5. Delivered(wired, set + Turn * k, Own(set + Turn * k)) = Delivered(wired, set, Own(set))
  BY <1>3, <1>4 DEF Delivered
<1> QED
  BY <1>5 DEF Heard, Own

\* The stream repeats with a turn of them.
LEMMA StreamRepeats ==
  ASSUME NEW def \in Definitions, ~Unusable(def), NEW wired, NEW n \in Int, NEW k \in Int
  PROVE  Stream(def, wired, n + (Turn * Channels) * k) = Stream(def, wired, n)
<1>1. Turn \in Nat \ {0} /\ Channels \in Nat \ {0}
  BY GenConstants
<1>2. PICK q \in Int, r \in 0..(Channels - 1) :
        q = n \div Channels /\ r = n % Channels /\ n = Channels * q + r
  BY <1>1, WholeTurns
<1>3. n + (Turn * Channels) * k = Channels * (q + Turn * k) + r
  <2>1. (Turn * Channels) * k = Channels * (Turn * k) /\ Turn * k \in Int
    BY <1>1
  <2>2. Channels * (q + Turn * k) = Channels * q + Channels * (Turn * k)
    BY <1>1, <2>1
  <2>3. Channels * q \in Int /\ Channels * (Turn * k) \in Int
    BY <1>1, <2>1
  <2> QED
    BY <1>2, <2>1, <2>2, <2>3
<1>4. q + Turn * k \in Int
  BY <1>1
<1>5. /\ (Channels * (q + Turn * k) + r) % Channels = r
      /\ (Channels * (q + Turn * k) + r) \div Channels = q + Turn * k
  BY <1>1, <1>4, Residue
<1>6. Heard(def, wired, q + Turn * k) = Heard(def, wired, q)
  BY HeardRepeats
<1> QED
  BY <1>2, <1>3, <1>5, <1>6 DEF Stream

\* The place of a sample: the number of its set and its channel.
LEMMA PlaceOf ==
  ASSUME NEW q \in Int, NEW c \in Chans
  PROVE  /\ (Channels * q + (c - 1)) \div Channels = q
         /\ ((Channels * q + (c - 1)) % Channels) + 1 = c
<1>1. Channels \in Nat \ {0} /\ c - 1 \in 0..(Channels - 1) /\ c \in Int
  BY GenConstants DEF Chans
<1>2. /\ (Channels * q + (c - 1)) \div Channels = q
      /\ (Channels * q + (c - 1)) % Channels = c - 1
  BY <1>1, Residue
<1> QED
  BY <1>1, <1>2

\* A straight link brings what was sent.
LEMMA StraightIsSent ==
  ASSUME NEW def, NEW n \in Int
  PROVE  Stream(def, "straight", n) =
           ToneSample(def, ((n \div Channels) * StepOf(def, (n % Channels) + 1)) % Turn)
<1>1. (n % Channels) + 1 \in Chans
  BY GenConstants DEF Chans
<1> DEFINE c == (n % Channels) + 1
           own == [d \in Chans |-> ToneSample(def, ((n \div Channels) * StepOf(def, d)) % Turn)]
<1>2. Stream(def, "straight", n) = Delivered("straight", n \div Channels, own)[c]
  BY DEF Stream, Heard
<1>3. own[c] = ToneSample(def, ((n \div Channels) * StepOf(def, c)) % Turn)
  BY <1>1
<1>4. Delivered("straight", n \div Channels, own)[c] = own[c]
  <2> HIDE DEF own, c
  <2> QED
    BY <1>1 DEF Delivered, c
<1> QED
  BY <1>2, <1>3, <1>4

\* A frame is the next part of the stream.
LEMMA FrameIsNext ==
  ASSUME GenInv, NEW size \in BufferSizes, Generate(size)
  PROVE  /\ ~Unusable(generator) /\ generator' = generator
         /\ genFrame' \in Seq(Containers) /\ Len(genFrame') % Channels = 0
         /\ \A i \in 1..Len(genFrame') : genFrame'[i] = Stream(generator, "straight", sent + i - 1)
         /\ generator.duration # 0 => sent' <= generator.duration
         /\ \E m \in Int : /\ sent + Len(genFrame') = sent' + (Turn * Channels) * m
                           /\ generator.duration # 0 => m = 0
<1>0. GenInv'
  BY GenerateHolds
<1>1. /\ ~Unusable(generator) /\ generator \in Definitions
      /\ genOpen' = 1 /\ generator' = generator /\ sent \in Nat
  BY DEF Generate, Producing, GenInv
<1>2. /\ genFrame' \in Seq(Containers) /\ Len(genFrame') % Channels = 0
      /\ OnTime(generator, genFrame', sent')
      /\ sent' \in Nat /\ (generator.duration # 0 => sent' <= generator.duration)
  BY <1>0, <1>1 DEF GenInv
<1>3. PICK L \in Nat : L = Len(genFrame')
  BY <1>2
<1>4. PICK T \in Nat \ {0} : T = Turn * Channels
  <2>1. \A x, y \in Nat \ {0} : x * y \in Nat \ {0}
    OBVIOUS
  <2> QED
    BY <2>1, GenConstants
<1>5. PICK m \in Int : sent + L = sent' + T * m /\ (generator.duration # 0 => m = 0)
  <2>1. FrameSamples(size) = L
    <3>1. FrameSamples(size) \in Nat
      BY FrameIsWhole, <1>1 DEF Generate, Producing
    <3> QED
      BY <1>3, <3>1 DEF Generate, Frame
  <2>2. sent' = IF generator.duration = 0 THEN (sent + L) % T ELSE sent + L
    BY <1>4, <2>1 DEF Generate
  <2>3. /\ (sent + L) \div T \in Int
        /\ sent + L = T * ((sent + L) \div T) + ((sent + L) % T)
    <3>1. \A x \in Int : x \div T \in Int /\ x = T * (x \div T) + (x % T)
      BY <1>4, WholeTurns
    <3> QED
      BY <1>1, <3>1
  <2>4. CASE generator.duration = 0
    <3>1. PICK d \in Int : sent + L = T * d + sent'
      BY <2>2, <2>3, <2>4
    <3>2. T * d \in Int /\ sent + L = sent' + T * d
      BY <1>2, <3>1
    <3> QED
      BY <2>4, <3>2
  <2>5. CASE generator.duration # 0
    <3>1. T * 0 = 0
      OBVIOUS
    <3> QED
      BY <1>1, <2>2, <2>5, <3>1
  <2> QED
    BY <2>4, <2>5
<1>6. ASSUME NEW i \in 1..L
      PROVE  genFrame'[i] = Stream(generator, "straight", sent + i - 1)
  <2> DEFINE n == (sent' + Turn * Channels - Len(genFrame')) + i - 1
  <2>1. genFrame'[i] =
          ToneSample(generator, ((n \div Channels) * StepOf(generator, (n % Channels) + 1)) % Turn)
    <3>1. i \in DOMAIN genFrame'
      BY <1>2, <1>3
    <3> QED
      BY <1>2, <3>1, Zenon DEF OnTime
  <2>2. n \in Int /\ sent + i - 1 \in Int /\ n = sent' + T - L + i - 1
    BY <1>1, <1>2, <1>3, <1>4
  <2>3. genFrame'[i] = Stream(generator, "straight", n)
    <3> HIDE DEF n
    <3> QED
      BY <2>1, <2>2, StraightIsSent
  <2>4. n = (sent + i - 1) + T * (1 - m)
    <3>1. PICK p \in Int, now \in Int : p = T * m /\ T * (1 - m) = T - p /\ now = sent'
      BY <1>2, <1>4
    <3>2. sent + L = now + p
      BY <1>5, <3>1
    <3>3. now + T - L + i - 1 = (sent + i - 1) + (T - p)
      <4>1. sent \in Int /\ L \in Int /\ T \in Int /\ i \in Int /\ now \in Int /\ p \in Int
        BY <1>1, <1>3, <1>4
      <4> HIDE DEF n
      <4> QED
        BY <3>2, <4>1
    <3> HIDE DEF n
    <3> QED
      BY <2>2, <3>1, <3>3
  <2>5. Stream(generator, "straight", (sent + i - 1) + T * (1 - m))
          = Stream(generator, "straight", sent + i - 1)
    <3>1. \A x, k \in Int : Stream(generator, "straight", x + T * k) = Stream(generator, "straight", x)
      BY <1>1, <1>4, StreamRepeats
    <3>2. 1 - m \in Int
      OBVIOUS
    <3> QED
      BY <2>2, <3>1, <3>2
  <2> QED
    BY <2>3, <2>4, <2>5
<1> QED
  BY <1>1, <1>2, <1>3, <1>4, <1>5, <1>6

\* ... and what arrives of it the next part of what arrives.
LEMMA ReceivedIsNext ==
  ASSUME NEW frame \in Seq(Containers), Len(frame) % Channels = 0, sent \in Nat, sent % Channels = 0,
         \A i \in 1..Len(frame) : frame[i] = Stream(generator, "straight", sent + i - 1),
         NEW i \in 1..Len(frame)
  PROVE  Received(frame)[i] = Stream(generator, wiring, sent + i - 1)
<1>1. Channels \in Nat \ {0} /\ Len(frame) \in Nat
  BY GenConstants
<1>2. PICK q \in Nat : sent = Channels * q
  <2>1. /\ \A n \in Nat : n % Channels = 0 => n \div Channels \in Nat
        /\ \A n \in Int : n % Channels = 0 => n = Channels * (n \div Channels)
    BY <1>1, Multiples
  <2>2. sent \div Channels \in Nat /\ sent = Channels * (sent \div Channels)
    <3>1. sent \in Int
      OBVIOUS
    <3> QED
      BY <2>1, <3>1, Zenon
  <2> QED
    BY <2>2
<1>3. \A d \in Chans : i - (((i - 1) % Channels) + 1) + d \in 1..Len(frame)
  BY <1>1, SameSet
<1>4. PICK j \in Int, r \in 0..(Channels - 1) : r = (i - 1) % Channels /\ i - 1 = Channels * j + r
  <2>1. \A x \in Int : /\ x % Channels \in 0..(Channels - 1) /\ x \div Channels \in Int
                       /\ x = Channels * (x \div Channels) + (x % Channels)
    BY <1>1, WholeTurns
  <2>2. /\ (i - 1) % Channels \in 0..(Channels - 1) /\ (i - 1) \div Channels \in Int
        /\ i - 1 = Channels * ((i - 1) \div Channels) + ((i - 1) % Channels)
    <3>1. i - 1 \in Int
      BY <1>1
    <3> QED
      BY <2>1, <3>1, Zenon
  <2> QED
    BY <2>2
<1> DEFINE c == r + 1
           own == [d \in Chans |-> frame[i - c + d]]
           sentSet == [d \in Chans |-> ToneSample(generator, ((q + j) * StepOf(generator, d)) % Turn)]
<1>5. c \in Chans /\ c - 1 = r /\ q + j \in Int
  BY <1>1, <1>4 DEF Chans
<1>6. \A d \in Chans : sent + (Channels * j + d) - 1 = Channels * (q + j) + (d - 1)
  <2>1. PICK x \in Int, y \in Int : x = Channels * q /\ y = Channels * j /\ Channels * (q + j) = x + y
    BY <1>1
  <2>2. \A d \in Chans : d \in Int
    BY <1>1 DEF Chans
  <2>3. sent = x
    BY <1>2, <2>1
  <2>4. \A d \in Chans : sent + (y + d) - 1 = (x + y) + (d - 1)
    BY <2>2, <2>3
  <2> QED
    BY <2>1, <2>4
<1>7. sent + i - 1 = Channels * (q + j) + (c - 1)
  <2>1. i = Channels * j + c /\ Channels * j \in Int
    BY <1>1, <1>4
  <2> QED
    BY <1>5, <1>6, <2>1
<1>8. own = sentSet
  <2> SUFFICES ASSUME NEW d \in Chans PROVE own[d] = sentSet[d]
    OBVIOUS
  <2>1. i - c + d = Channels * j + d /\ i - c + d \in 1..Len(frame)
    <3>1. PICK p \in Int : p = Channels * j
      BY <1>1
    <3>2. i - (r + 1) + d = p + d
      <4>1. i - 1 = p + r /\ r \in Int /\ d \in Int /\ i \in Int
        BY <1>1, <1>4, <3>1 DEF Chans
      <4> QED
        BY <4>1
    <3> QED
      BY <1>3, <1>4, <3>1, <3>2
  <2>2. own[d] = Stream(generator, "straight", Channels * (q + j) + (d - 1))
    <3>1. own[d] = frame[i - c + d]
      OBVIOUS
    <3>2. frame[i - c + d] = Stream(generator, "straight", sent + (i - c + d) - 1)
      <4> HIDE DEF c
      <4> QED
        BY <2>1
    <3> HIDE DEF own, c
    <3> QED
      BY <1>6, <2>1, <3>1, <3>2
  <2>3. Channels * (q + j) + (d - 1) \in Int /\ q + j \in Int
    BY <1>1 DEF Chans
  <2>4. /\ (Channels * (q + j) + (d - 1)) \div Channels = q + j
        /\ ((Channels * (q + j) + (d - 1)) % Channels) + 1 = d
    BY <2>3, PlaceOf
  <2>5. Stream(generator, "straight", Channels * (q + j) + (d - 1))
          = ToneSample(generator, ((q + j) * StepOf(generator, d)) % Turn)
    BY <2>3, <2>4, StraightIsSent
  <2> QED
    BY <2>2, <2>5
<1>9. Received(frame)[i] = Delivered(wiring, q + j, own)[c]
  <2>1. (sent + i - 1) \div Channels = q + j
    <3> HIDE DEF c
    <3> QED
      BY <1>5, <1>7, PlaceOf
  <2> QED
    BY <1>4, <2>1 DEF Received
<1>10. Stream(generator, wiring, sent + i - 1) = Delivered(wiring, q + j, sentSet)[c]
  <2>1. /\ (Channels * (q + j) + (c - 1)) \div Channels = q + j
        /\ ((Channels * (q + j) + (c - 1)) % Channels) + 1 = c
    <3> HIDE DEF c
    <3> QED
      BY <1>5, PlaceOf
  <2> HIDE DEF c
  <2> QED
    BY <1>7, <2>1 DEF Stream, Heard
<1> QED
  BY <1>8, <1>9, <1>10

\* What leaves the window and what is pending alone, and the generator at its place.
LEMMA WindowKept ==
  ASSUME NEW first, InWindow(first), Pending' = Pending,
         UNCHANGED <<sums, filled, channelPos, coefficient, generator, wiring>>,
         genOpen' = 1 => genOpen = 1 /\ sent' = sent
  PROVE  InWindow(first)'
<1>1. \A c \in Chans : Held(c)' = Held(c)
  BY DEF Held
<1>2. Here(first)' = Here(first) /\ Ahead(first)' = Ahead(first)
  BY DEF Here, Ahead
<1> QED
  BY <1>1, <1>2 DEF InWindow, Stream

\* A sample that is taken off what is pending.
LEMMA TakingOne ==
  ASSUME NEW S, NEW s \in Seq(S), s # <<>>, NEW t \in Seq(S)
  PROVE  /\ (s \o t)[1] = Head(s) /\ Len(s \o t) \in Nat \ {0} /\ 1 \in DOMAIN (s \o t)
         /\ Len(Tail(s) \o t) = Len(s \o t) - 1
         /\ \A i \in DOMAIN (Tail(s) \o t) :
              i + 1 \in DOMAIN (s \o t) /\ (Tail(s) \o t)[i] = (s \o t)[i + 1]
<1>1. Len(s) \in Nat \ {0} /\ Len(t) \in Nat
  OBVIOUS
<1>2. Tail(s) \in Seq(S) /\ Len(Tail(s)) = Len(s) - 1 /\ \A i \in 1..(Len(s) - 1) : Tail(s)[i] = s[i + 1]
  OBVIOUS
<1>3. /\ s \o t \in Seq(S) /\ Len(s \o t) = Len(s) + Len(t)
      /\ \A i \in 1..(Len(s) + Len(t)) :
           (s \o t)[i] = IF i <= Len(s) THEN s[i] ELSE t[i - Len(s)]
  OBVIOUS
<1>4. /\ Tail(s) \o t \in Seq(S) /\ Len(Tail(s) \o t) = Len(Tail(s)) + Len(t)
      /\ \A i \in 1..(Len(Tail(s)) + Len(t)) :
           (Tail(s) \o t)[i] = IF i <= Len(Tail(s)) THEN Tail(s)[i] ELSE t[i - Len(Tail(s))]
  BY <1>2
<1>5. ASSUME NEW i \in 1..(Len(s) + Len(t) - 1)
      PROVE  i + 1 \in 1..(Len(s) + Len(t)) /\ (Tail(s) \o t)[i] = (s \o t)[i + 1]
  <2>1. i + 1 \in 1..(Len(s) + Len(t)) /\ i \in 1..(Len(Tail(s)) + Len(t))
    BY <1>1, <1>2
  <2>2. CASE i <= Len(s) - 1
    <3>1. (s \o t)[i + 1] = s[i + 1]
      BY <1>1, <1>3, <2>1, <2>2
    <3>2. (Tail(s) \o t)[i] = s[i + 1]
      BY <1>1, <1>2, <1>4, <2>1, <2>2
    <3> QED
      BY <2>1, <3>1, <3>2
  <2>3. CASE i > Len(s) - 1
    <3>1. (s \o t)[i + 1] = t[i + 1 - Len(s)]
      BY <1>1, <1>3, <2>1, <2>3
    <3>2. (Tail(s) \o t)[i] = t[i - (Len(s) - 1)]
      BY <1>1, <1>2, <1>4, <2>1, <2>3
    <3>3. i + 1 - Len(s) = i - (Len(s) - 1)
      BY <1>1
    <3> QED
      BY <2>1, <3>1, <3>2, <3>3
  <2> QED
    BY <1>1, <2>2, <2>3
<1>6. Head(s) = s[1]
  OBVIOUS
<1> QED
  BY <1>1, <1>2, <1>3, <1>4, <1>5, <1>6

\* A sequence in two parts.
LEMMA TwoParts ==
  ASSUME NEW S, NEW s \in Seq(S), NEW n \in 0..Len(s)
  PROVE  SubSeq(s, 1, n) \o SubSeq(s, n + 1, Len(s)) = s
<1> DEFINE a == SubSeq(s, 1, n)
           b == SubSeq(s, n + 1, Len(s))
<1>0. n \in Int /\ Len(s) \in Nat
  OBVIOUS
<1>1. a \in Seq(S) /\ Len(a) = n /\ \A i \in 1..n : a[i] = s[i]
  OBVIOUS
<1>2. b \in Seq(S) /\ Len(b) = Len(s) - n /\ \A i \in 1..(Len(s) - n) : b[i] = s[n + i]
  OBVIOUS
<1> HIDE DEF a, b
<1>3. a \o b \in Seq(S) /\ Len(a \o b) = Len(s)
  BY <1>1, <1>2
<1>4. ASSUME NEW i \in 1..Len(s) PROVE (a \o b)[i] = s[i]
  <2>1. CASE i <= n
    BY <1>1, <1>2, <2>1
  <2>2. CASE i > n
    <3>1. i - n \in 1..(Len(s) - n) /\ n + (i - n) = i
      BY <2>2
    <3>2. (a \o b)[i] = b[i - n]
      BY <1>1, <1>2, <2>2
    <3> QED
      BY <1>2, <3>1, <3>2
  <2>3. i <= n \/ i > n
    BY <1>0
  <2> QED
    BY <2>1, <2>2, <2>3
<1>5. a \o b = s
  <2> DEFINE u == a \o b
  <2>1. u \in Seq(S) /\ Len(u) = Len(s) /\ \A i \in 1..Len(s) : u[i] = s[i]
    BY <1>3, <1>4
  <2> HIDE DEF u
  <2>2. u = [i \in 1..Len(s) |-> u[i]] /\ s = [i \in 1..Len(s) |-> s[i]]
    BY <2>1
  <2>3. u = s
    BY <2>1, <2>2
  <2> QED
    BY <2>3 DEF u
<1> QED
  BY <1>5 DEF a, b

LEMMA TrackInit == LinkInit => TrackInv
<1> SUFFICES ASSUME LinkInit PROVE TrackInv
  OBVIOUS
<1>1. \E s \in Setups : s.generator = generator /\ s.wiring = wiring
  BY DEF LinkInit
<1>2. anaOpen = 0 /\ anaPc = "idle" /\ anaFrame = <<>> /\ wire = <<>>
  BY DEF LinkInit, AnaInit
<1> QED
  BY <1>1, <1>2 DEF TrackInv, Opening

\* While the analyser is closed there is nothing to keep track of but that.
LEMMA ApartTracks ==
  ASSUME TrackInv, anaOpen = 0, anaOpen' = 0, wire' = <<>>, anaPc \in Opening \union {"idle"},
         \E s \in Setups : s.generator = generator' /\ s.wiring = wiring',
         UNCHANGED <<anaFrame, anaPc, sums, filled, channelPos>>
  PROVE  TrackInv'
  BY DEF TrackInv, Opening

\* What leaves the window alone while the analyser is open.
LEMMA OpenTracks ==
  ASSUME TrackInv, anaOpen = 1, anaOpen' = 1, Pending' = Pending,
         UNCHANGED <<sums, filled, channelPos, coefficient, generator, wiring>>,
         genOpen' = 1 => genOpen = 1 /\ sent' = sent,
         anaPc' \notin Opening, anaPc' = "idle" => anaFrame' = <<>>,
         anaPc' \in {"publish", "published"} => filled = Window
  PROVE  TrackInv'
<1>1. PICK first \in Nat : InWindow(first)
  BY DEF TrackInv
<1>2. InWindow(first)'
  BY <1>1, WindowKept
<1>3. \E n \in Nat : InWindow(n)'
  BY <1>2
<1>4. Unusable(generator)' <=> Unusable(generator)
  BY DEF Unusable
<1>5. \A f \in Formats : /\ Accepts(f)' <=> Accepts(f)
                         /\ Coefficients(f.rate)' = Coefficients(f.rate)
  BY DEF Accepts, Coefficients, CoefficientOf
<1> QED
  BY <1>3, <1>4, <1>5 DEF TrackInv

\* A sample is measured as what it is in the stream.
LEMMA MeasureTracks ==
  ASSUME TrackInv, SumsInv, WireInv, MeasureSample, UNCHANGED <<genVars, link>>
  PROVE  TrackInv'
<1> DEFINE W(first) == WindowSums(coefficient, generator, wiring, first)
<1>1. /\ anaPc = "samples" /\ anaOpen = 1 /\ anaFrame # <<>> /\ anaFrame \in Seq(Containers)
      /\ wire \in Seq(Containers) /\ channelPos \in 1..Channels /\ channelPos \in Chans
      /\ filled \in Nat /\ filled < Window /\ Channels \in Nat \ {0} /\ Window \in Nat
      /\ sums = [c \in Chans |-> sums[c]]
  BY ConstantFacts
     DEF MeasureSample, TrackInv, Opening, SumsInv, PlaceInWindow, WireInv, Chans
<1>2. /\ sums' = [sums EXCEPT ![channelPos] = Folded(coefficient, @, Narrowed(Head(anaFrame)))]
      /\ channelPos' = NextChannel(channelPos)
      /\ filled' = IF channelPos = Channels THEN filled + 1 ELSE filled
      /\ anaFrame' = Tail(anaFrame)
      /\ anaPc' = IF channelPos = Channels /\ filled + 1 >= Window THEN "publish"
                                                                  ELSE Continue(anaFrame')
      /\ UNCHANGED <<anaOpen, coefficient, generator, wiring, wire, genOpen, sent>>
  BY DEF MeasureSample, genVars, link
<1>3. channelPos' = IF channelPos = Channels THEN 1 ELSE channelPos + 1
  <2>1. CASE channelPos = Channels
    <3>1. Channels % Channels = 0
      BY <1>1
    <3> QED
      BY <1>2, <2>1, <3>1 DEF NextChannel
  <2>2. CASE channelPos < Channels
    <3>1. channelPos % Channels = channelPos
      <4>1. \A q \in Int, r \in 0..(Channels - 1) : (Channels * q + r) % Channels = r
        BY <1>1, Residue
      <4>2. channelPos \in 0..(Channels - 1) /\ Channels * 0 + channelPos = channelPos /\ 0 \in Int
        BY <1>1, <2>2
      <4> QED
        BY <4>1, <4>2
    <3> QED
      BY <1>1, <1>2, <2>2, <3>1 DEF NextChannel
  <2> QED
    BY <1>1, <2>1, <2>2
<1>4. PICK first \in Nat : InWindow(first)
  BY <1>1 DEF TrackInv
<1>5. /\ Pending[1] = Head(anaFrame) /\ Len(Pending) \in Nat \ {0} /\ 1 \in DOMAIN Pending
      /\ Len(Pending') = Len(Pending) - 1
      /\ \A i \in DOMAIN Pending' : i + 1 \in DOMAIN Pending /\ Pending'[i] = Pending[i + 1]
  <2>1. Pending' = Tail(anaFrame) \o wire
    BY <1>2 DEF Pending
  <2>a. /\ anaFrame \in Seq(Containers) /\ anaFrame # <<>> /\ wire \in Seq(Containers)
    BY <1>1
  <2>2. /\ (anaFrame \o wire)[1] = Head(anaFrame) /\ Len(anaFrame \o wire) \in Nat \ {0}
        /\ 1 \in DOMAIN (anaFrame \o wire)
        /\ Len(Tail(anaFrame) \o wire) = Len(anaFrame \o wire) - 1
        /\ \A i \in DOMAIN (Tail(anaFrame) \o wire) :
             /\ i + 1 \in DOMAIN (anaFrame \o wire)
             /\ (Tail(anaFrame) \o wire)[i] = (anaFrame \o wire)[i + 1]
    BY <2>a, TakingOne
  <2>3. Pending = anaFrame \o wire
    BY DEF Pending
  <2> HIDE DEF Pending
  <2> QED
    BY <2>1, <2>2, <2>3
<1>6. /\ Here(first) \in Int /\ Here(first)' = Here(first) + 1
      /\ Here(first) = Channels * (first + filled) + (channelPos - 1)
  <2>1. PICK p \in Int : p = (first + filled) * Channels
    BY <1>1
  <2>2. p = Channels * (first + filled) /\ (first + (filled + 1)) * Channels = p + Channels
    BY <1>1, <2>1
  <2>3. Here(first) = p + (channelPos - 1)
    BY <2>1 DEF Here
  <2>4. CASE channelPos = Channels
    <3>1. Here(first)' = (first + (filled + 1)) * Channels + (1 - 1)
      BY <1>2, <1>3, <2>4 DEF Here
    <3>2. PICK q \in Int : q = (first + (filled + 1)) * Channels /\ q = p + Channels
      BY <1>1, <2>2
    <3>3. Here(first)' = q /\ Here(first) = p + (Channels - 1) /\ Channels \in Int
      BY <1>1, <2>3, <2>4, <3>1, <3>2
    <3>4. Here(first)' = Here(first) + 1 /\ Here(first) \in Int
      BY <3>2, <3>3
    <3> QED
      BY <2>2, <2>3, <3>4
  <2>5. CASE channelPos < Channels
    <3>1. UNCHANGED filled /\ channelPos' = channelPos + 1
      BY <1>1, <1>2, <1>3, <2>5
    <3>2. PICK pos \in Int : pos = channelPos' /\ pos = channelPos + 1
      BY <1>1, <3>1
    <3>3. Here(first)' = (first + filled) * Channels + (pos - 1)
      BY <3>1, <3>2 DEF Here
    <3>4. channelPos \in Int
      BY <1>1
    <3>5. Here(first)' = p + (channelPos - 1) + 1 /\ p + (channelPos - 1) \in Int
      BY <2>1, <3>2, <3>3, <3>4
    <3> QED
      BY <2>2, <2>3, <3>5
  <2> QED
    BY <1>1, <2>4, <2>5
<1>7. Head(anaFrame) = Heard(generator, wiring, first + filled)[channelPos]
  <2>1. Head(anaFrame) = Stream(generator, wiring, Here(first) + 1 - 1)
    BY <1>4, <1>5, Zenon DEF InWindow
  <2>2. Here(first) + 1 - 1 = Channels * (first + filled) + (channelPos - 1)
    BY <1>1, <1>6
  <2>3. first + filled \in Int
    BY <1>1
  <2>4. /\ (Channels * (first + filled) + (channelPos - 1)) \div Channels = first + filled
        /\ ((Channels * (first + filled) + (channelPos - 1)) % Channels) + 1 = channelPos
    BY <1>1, <2>3, PlaceOf
  <2> QED
    BY <2>1, <2>2, <2>4 DEF Stream
<1>8. ASSUME NEW c \in Chans PROVE sums'[c] = W(first)[Held(c)'][c]
  <2>1. sums[c] = W(first)[Held(c)][c]
    BY <1>4 DEF InWindow
  <2>2. CASE c = channelPos
    <3>1. Held(c) = filled /\ Held(c)' = filled + 1
      BY <1>1, <1>2, <1>3, <2>2 DEF Held
    <3>2. sums'[c] = Folded(coefficient, W(first)[filled][c],
                            Narrowed(Heard(generator, wiring, first + filled)[c]))
      BY <1>1, <1>2, <1>7, <2>1, <2>2, <3>1
    <3>3. W(first)[filled + 1][c] = Folded(coefficient, W(first)[filled][c],
                                           Narrowed(Heard(generator, wiring, first + filled)[c]))
      <4>1. PICK k \in 1..Window : k = filled + 1 /\ k - 1 = filled /\ first + k - 1 = first + filled
        BY <1>1
      <4>2. W(first)[k] =
              [d \in Chans |-> Folded(coefficient, W(first)[k - 1][d],
                                      Narrowed(Heard(generator, wiring, first + k - 1)[d]))]
        BY SumsSetBySet
      <4> HIDE DEF W
      <4> QED
        BY <4>1, <4>2
    <3> HIDE DEF W
    <3> QED
      BY <3>1, <3>2, <3>3
  <2>3. CASE c # channelPos
    <3>1. Held(c)' = Held(c)
      BY <1>1, <1>2, <1>3, <2>3 DEF Held, Chans
    <3>2. sums'[c] = sums[c]
      BY <1>1, <1>2, <2>3
    <3> QED
      BY <2>1, <3>1, <3>2
  <2> QED
    BY <2>2, <2>3
<1>9. ASSUME NEW i \in DOMAIN Pending'
      PROVE  Pending'[i] = Stream(generator, wiring, Here(first)' + i - 1)
  <2>1. Pending'[i] = Stream(generator, wiring, Here(first) + (i + 1) - 1)
    BY <1>4, <1>5, Zenon DEF InWindow
  <2>2. i \in Int
    <3>1. Pending' \in Seq(Containers)
      BY <1>1, <1>2 DEF Pending
    <3> QED
      BY <3>1
  <2>3. Here(first) + (i + 1) - 1 = Here(first)' + i - 1
    BY <1>6, <2>2
  <2> QED
    BY <2>1, <2>3
<1>10. Ahead(first)' = Ahead(first)
  BY <1>5, <1>6 DEF Ahead
<1>11. InWindow(first)'
  <2>1. \A c \in Chans : sums'[c] = WindowSums(coefficient', generator', wiring', first)[Held(c)'][c]
    BY <1>2, <1>8
  <2>2. \A i \in DOMAIN Pending' : Pending'[i] = Stream(generator', wiring', Here(first)' + i - 1)
    BY <1>2, <1>9
  <2> HIDE DEF W
  <2> QED
    BY <1>2, <1>4, <1>10, <2>1, <2>2 DEF InWindow
<1>12. anaPc' = "publish" => filled' = Window
  BY <1>1, <1>2 DEF Continue
<1>13. anaPc' \in {"publish", "idle", "samples"} /\ (anaPc' = "idle" => anaFrame' = <<>>)
  BY <1>2 DEF Continue
<1>14. ~Unusable(generator)
  <2>1. Pending # <<>>
    BY <1>5
  <2> QED
    BY <1>1, <2>1 DEF TrackInv
<1>15. \E f \in Formats : Accepts(f) /\ coefficient = Coefficients(f.rate)
  BY <1>1 DEF TrackInv
<1>16. \E s \in Setups : s.generator = generator /\ s.wiring = wiring
  BY DEF TrackInv
<1>17. \E n \in Nat : InWindow(n)'
  BY <1>11
<1>18. Unusable(generator') <=> Unusable(generator)
  BY <1>2 DEF Unusable
<1> QED
  BY <1>1, <1>2, <1>12, <1>13, <1>14, <1>15, <1>16, <1>17 DEF TrackInv, Opening

\* A frame arrives behind what is pending, where the stream goes on.
LEMMA TransmitTracks ==
  ASSUME TrackInv, GenInv, SumsInv, NEW size \in BufferSizes, Transmit(size)
  PROVE  TrackInv'
<1>1. /\ wire = <<>> /\ Generate(size) /\ UNCHANGED <<anaVars, wiring>>
      /\ wire' = IF anaOpen = 1 THEN Received(genFrame') ELSE <<>>
  BY DEF Transmit
<1>2. /\ ~Unusable(generator) /\ generator' = generator /\ genOpen = 1 /\ genOpen' = 1
      /\ sent \in Nat /\ sent % Channels = 0 /\ generator \in Definitions
  BY <1>1, FrameIsNext DEF Generate, Producing, GenInv
<1>3. PICK frame, now :
        /\ frame = genFrame' /\ now = sent'
        /\ frame \in Seq(Containers) /\ Len(frame) % Channels = 0
        /\ \A i \in 1..Len(frame) : frame[i] = Stream(generator, "straight", sent + i - 1)
        /\ generator.duration # 0 => now <= generator.duration
        /\ \E m \in Int : /\ sent + Len(frame) = now + (Turn * Channels) * m
                          /\ generator.duration # 0 => m = 0
  BY <1>1, FrameIsNext
<1>4. /\ UNCHANGED <<anaFrame, anaPc, anaOpen, sums, filled, channelPos, coefficient>>
      /\ \E s \in Setups : s.generator = generator' /\ s.wiring = wiring'
  BY <1>1, <1>2 DEF anaVars, TrackInv
<1>5. CASE anaOpen = 0
  <2>1. wire' = <<>> /\ anaPc \in Opening \union {"idle"}
    BY <1>1, <1>5 DEF TrackInv
  <2> QED
    BY <1>4, <1>5, <2>1, ApartTracks
<1>6. CASE anaOpen = 1
  <2>1. PICK first \in Nat : InWindow(first)
    BY <1>6 DEF TrackInv
  <2> DEFINE R == Received(frame)
             A == Len(anaFrame)
             L == Len(frame)
  <2>2. /\ R \in Seq(Containers) /\ Len(R) = L /\ L \in Nat
        /\ anaFrame \in Seq(Containers) /\ A \in Nat
        /\ \A i \in 1..L : R[i] = Stream(generator, wiring, sent + i - 1)
    <3>1. DOMAIN R = DOMAIN frame
      BY DEF Received
    <3>2. R \in Seq(Containers)
      BY <1>3, ReceivedAreSamples
    <3>3. \A i \in 1..L : R[i] = Stream(generator, wiring, sent + i - 1)
      BY <1>2, <1>3, ReceivedIsNext
    <3> HIDE DEF R
    <3>4. Len(R) = L
      BY <1>3, <3>1, <3>2
    <3> QED
      BY <1>3, <3>2, <3>3, <3>4 DEF SumsInv
  <2>3. Pending = anaFrame /\ Pending' = anaFrame \o R
    <3>1. anaFrame \o <<>> = anaFrame
      BY <2>2
    <3> HIDE DEF R
    <3>2. wire' = R
      BY <1>1, <1>3, <1>6 DEF R
    <3> QED
      BY <1>1, <1>4, <3>1, <3>2 DEF Pending
  <2>4. PICK H \in Int : H = Here(first) /\ H = Here(first)'
    <3>1. Here(first) \in Int
      <4>1. filled \in Nat /\ channelPos \in Int /\ Channels \in Nat
        BY GenConstants DEF SumsInv, PlaceInWindow, Chans
      <4>2. PICK p \in Int : p = (first + filled) * Channels
        BY <4>1
      <4> QED
        BY <4>1, <4>2 DEF Here
    <3>2. Here(first)' = Here(first)
      BY <1>4 DEF Here
    <3> QED
      BY <3>1, <3>2
  <2>5. PICK T \in Int : T = Turn * Channels
    BY GenConstants
  <2>6. PICK m \in Int : H + A = sent + T * m /\ (generator.duration # 0 => m = 0)
    BY <1>2, <2>1, <2>3, <2>4, <2>5 DEF InWindow, Ahead
  <2>7. PICK n \in Int : sent + L = now + T * n /\ (generator.duration # 0 => n = 0)
    BY <1>3, <2>5
  <2> HIDE DEF R, A, L
  <2>8. /\ Len(anaFrame \o R) = A + L /\ DOMAIN (anaFrame \o R) = 1..(A + L)
        /\ \A i \in 1..(A + L) : (anaFrame \o R)[i] = IF i <= A THEN anaFrame[i] ELSE R[i - A]
    <3>1. \A s, t \in Seq(Containers) :
            /\ Len(s \o t) = Len(s) + Len(t) /\ DOMAIN (s \o t) = 1..(Len(s) + Len(t))
            /\ \A i \in 1..(Len(s) + Len(t)) :
                 (s \o t)[i] = IF i <= Len(s) THEN s[i] ELSE t[i - Len(s)]
      OBVIOUS
    <3> QED
      BY <2>2, <3>1, Zenon DEF A
  <2>9. ASSUME NEW i \in 1..(A + L)
        PROVE  (anaFrame \o R)[i] = Stream(generator, wiring, H + i - 1)
    <3>1. CASE i <= A
      <4>1. i \in DOMAIN Pending /\ Pending[i] = anaFrame[i]
        BY <2>2, <2>3, <3>1 DEF A
      <4> QED
        BY <2>1, <2>4, <2>8, <3>1, <4>1 DEF InWindow
    <3>2. CASE i > A
      <4>1. i - A \in 1..L /\ i \in Int
        BY <2>2, <3>2
      <4>2. (anaFrame \o R)[i] = Stream(generator, wiring, sent + (i - A) - 1)
        BY <2>2, <2>8, <3>2, <4>1
      <4>3. \A x, k \in Int : Stream(generator, wiring, x + T * k) = Stream(generator, wiring, x)
        BY <1>2, <2>5, StreamRepeats
      <4>4. sent + (i - A) - 1 \in Int
        BY <1>2, <2>2, <4>1
      <4>5. sent + (i - A) - 1 + T * m = H + i - 1
        <5>1. PICK p \in Int : p = T * m
          BY <2>5, <2>6
        <5>2. H + A = sent + p
          BY <2>6, <5>1
        <5>3. sent \in Int /\ A \in Int /\ i \in Int
          BY <1>2, <2>2, <4>1
        <5>4. sent + (i - A) - 1 + p = H + i - 1
          BY <5>2, <5>3
        <5> QED
          BY <5>1, <5>4
      <4>6. Stream(generator, wiring, sent + (i - A) - 1 + T * m)
              = Stream(generator, wiring, sent + (i - A) - 1)
        BY <4>3, <4>4, <2>6
      <4> QED
        BY <4>2, <4>5, <4>6
    <3>3. i <= A \/ i > A
      BY <2>2
    <3> QED
      BY <3>1, <3>2, <3>3
  <2>10. PICK ahead \in Int : /\ ahead = Ahead(first)' /\ ahead = now + T * (m + n)
                              /\ generator.duration # 0 => ahead = now /\ m + n = 0
    <3>1. Ahead(first)' = H + (A + L)
      BY <2>3, <2>4, <2>8 DEF Ahead
    <3>2. PICK p \in Int, q \in Int : p = T * m /\ q = T * n /\ T * (m + n) = p + q
      BY <2>5, <2>6, <2>7
    <3>3. H + A = sent + p /\ sent + L = now + q
      BY <2>6, <2>7, <3>2
    <3>4. now \in Int
      BY <1>2, <1>1, <1>3, GenerateHolds DEF GenInv
    <3>5. H + (A + L) = now + (p + q)
      BY <1>2, <2>2, <2>4, <3>2, <3>3, <3>4
    <3>6. generator.duration # 0 => m = 0 /\ n = 0 /\ p = 0 /\ q = 0
      BY <2>5, <2>6, <2>7, <3>2
    <3> QED
      BY <3>1, <3>2, <3>4, <3>5, <3>6
  <2>11. InWindow(first)'
    <3>1. \A c \in Chans : Held(c)' = Held(c)
      BY <1>4 DEF Held
    <3>2. \A c \in Chans : sums'[c] = WindowSums(coefficient', generator', wiring', first)[Held(c)'][c]
      BY <1>1, <1>2, <1>4, <2>1, <3>1 DEF InWindow
    <3>3. \A i \in DOMAIN Pending' : Pending'[i] = Stream(generator', wiring', Here(first)' + i - 1)
      BY <1>1, <1>2, <2>3, <2>4, <2>8, <2>9
    <3>4. generator'.duration # 0 => Ahead(first)' <= generator'.duration
      BY <1>2, <1>3, <2>10
    <3>5. \E k \in Int : /\ Ahead(first)' = sent' + (Turn * Channels) * k
                         /\ generator'.duration # 0 => k = 0
      <4>1. m + n \in Int
        OBVIOUS
      <4> QED
        BY <1>2, <1>3, <2>5, <2>10, <4>1
    <3> QED
      BY <3>2, <3>3, <3>4, <3>5 DEF InWindow
  <2>12. \E k \in Nat : InWindow(k)'
    BY <2>11
  <2>13. \A f \in Formats : /\ Accepts(f)' <=> Accepts(f)
                            /\ Coefficients(f.rate)' = Coefficients(f.rate)
    BY DEF Accepts, Coefficients, CoefficientOf
  <2>14. ~Unusable(generator')
    BY <1>2
  <2> QED
    BY <1>1, <1>4, <1>6, <2>12, <2>13, <2>14 DEF TrackInv, anaVars
<1>7. anaOpen = 0 \/ anaOpen = 1
  BY DEF TrackInv
<1> QED
  BY <1>5, <1>6, <1>7

\* A window starts with nothing in it.
LEMMA WindowStarts ==
  ASSUME NEW first \in Nat, ResetWindow
  PROVE  /\ \A c \in Chans :
              sums'[c] = WindowSums(coefficient', generator', wiring', first)[Held(c)'][c]
         /\ Here(first)' = first * Channels
<1>1. sums' = [c \in Chans |-> Empty] /\ filled' = 0 /\ channelPos' = 1
  BY DEF ResetWindow
<1>2. \A c \in Chans : Held(c)' = 0
  BY <1>1 DEF Held, Chans
<1>3. WindowSums(coefficient', generator', wiring', first)[0] = [c \in Chans |-> Empty]
  BY SumsSetBySet
<1>4. Here(first)' = first * Channels
  <2>1. first * Channels \in Int /\ first + 0 = first
    BY GenConstants
  <2>2. Here(first)' = (first + 0) * Channels + (1 - 1)
    BY <1>1 DEF Here
  <2> QED
    BY <2>1, <2>2
<1> QED
  BY <1>1, <1>2, <1>3, <1>4

\* An attempt to open starts with an empty window.
LEMMA StartTracks == ASSUME TrackInv, StartAnalyzer PROVE TrackInv'
<1>1. /\ anaOpen = 0 /\ anaPc = "idle" /\ anaPc' = "clear"
      /\ UNCHANGED <<anaOpen, anaFrame, wire, generator, wiring>>
      /\ sums' = [c \in Chans |-> Empty] /\ filled' = 0 /\ channelPos' = 1
  BY DEF StartAnalyzer, OpenStarts, genVars, ResetWindow
<1>2. wire' = <<>> /\ anaFrame' = <<>>
  BY <1>1 DEF TrackInv
<1> QED
  BY <1>1, <1>2 DEF TrackInv, Opening

\* The first window begins with the sample set that is sent next.
LEMMA OpenAcceptsTracks ==
  ASSUME TrackInv, GenInv, NEW f \in Formats, OpenAccepts(f), UNCHANGED <<genVars, link>>
  PROVE  TrackInv'
<1>1. /\ anaPc = "check" /\ Accepts(f) /\ coefficient' = Coefficients(f.rate)
      /\ anaOpen' = 1 /\ anaPc' = "idle"
      /\ UNCHANGED <<sums, filled, channelPos, anaFrame, wire, generator, wiring, genOpen, sent>>
  BY DEF OpenAccepts, genVars, link
<1>2. /\ anaOpen = 0 /\ sums = [c \in Chans |-> Empty] /\ filled = 0 /\ channelPos = 1
      /\ anaFrame = <<>> /\ wire = <<>>
  BY <1>1 DEF TrackInv, Opening
<1>3. /\ generator \in Definitions /\ sent \in Nat /\ sent % Channels = 0
      /\ genOpen = 1 /\ generator.duration # 0 => sent <= generator.duration
  BY DEF GenInv
<1>4. generator.duration \in Nat
  BY <1>3, GeneratorAssumption
<1>5. PICK first \in Nat : first * Channels = IF genOpen = 1 THEN sent ELSE 0
  <2>1. CASE genOpen = 1
    <3>1. /\ \A n \in Nat : n % Channels = 0 => n \div Channels \in Nat
          /\ \A n \in Int : n % Channels = 0 => n = Channels * (n \div Channels)
      BY GenConstants, Multiples
    <3>2. sent \div Channels \in Nat /\ sent = Channels * (sent \div Channels)
      <4>1. sent \in Int
        BY <1>3
      <4> QED
        BY <1>3, <3>1, <4>1, Zenon
    <3>3. Channels * (sent \div Channels) = (sent \div Channels) * Channels
      BY <3>2, GenConstants
    <3> QED
      BY <2>1, <3>2, <3>3
  <2>2. CASE genOpen # 1
    <3>1. 0 * Channels = 0
      BY GenConstants
    <3> QED
      BY <2>2, <3>1
  <2> QED
    BY <2>1, <2>2
<1>6. ResetWindow
  BY <1>1, <1>2 DEF ResetWindow
<1>7. /\ \A c \in Chans : sums'[c] = WindowSums(coefficient', generator', wiring', first)[Held(c)'][c]
      /\ Here(first)' = first * Channels
  BY <1>6, WindowStarts
<1>8. Pending' = <<>> /\ Len(Pending') = 0 /\ DOMAIN Pending' = {}
  BY <1>1, <1>2 DEF Pending
<1>9. PICK ahead \in Nat : ahead = Ahead(first)' /\ ahead = IF genOpen = 1 THEN sent ELSE 0
  BY <1>3, <1>5, <1>7, <1>8 DEF Ahead
<1>10. generator'.duration # 0 => Ahead(first)' <= generator'.duration
  BY <1>1, <1>3, <1>4, <1>9
<1>11. genOpen' = 1 => \E m \in Int : /\ Ahead(first)' = sent' + (Turn * Channels) * m
                                      /\ generator'.duration # 0 => m = 0
  <2>1. (Turn * Channels) * 0 = 0
    BY GenConstants
  <2>2. genOpen' = 1 => Ahead(first)' = sent' + 0
    BY <1>1, <1>3, <1>9
  <2> QED
    BY <2>1, <2>2
<1>12. InWindow(first)'
  BY <1>7, <1>8, <1>10, <1>11 DEF InWindow
<1>13. \E n \in Nat : InWindow(n)'
  BY <1>12
<1>14. Accepts(f)' /\ coefficient' = Coefficients(f.rate)'
  BY <1>1 DEF Accepts, Coefficients, CoefficientOf
<1> QED
  BY <1>1, <1>2, <1>8, <1>13, <1>14 DEF TrackInv, Opening

\* The samples of a frame are taken off the wire.
LEMMA ReceiveTracks ==
  ASSUME TrackInv, WireInv, NEW size \in Cuts, Receive(size)
  PROVE  TrackInv'
<1> DEFINE n == Least(size, Len(wire))
<1>1. /\ anaOpen = 1 /\ anaPc = "idle" /\ anaPc' = "samples"
      /\ anaFrame' = SubSeq(wire, 1, n) /\ wire' = SubSeq(wire, n + 1, Len(wire))
      /\ UNCHANGED <<anaOpen, sums, filled, channelPos, coefficient, generator, wiring, genOpen, sent>>
  BY DEF Receive, TakeFrame, Pulling, genVars
<1>2. anaFrame = <<>> /\ wire \in Seq(Containers)
  BY <1>1 DEF TrackInv, WireInv
<1>3. n \in 0..Len(wire)
  BY <1>2, LinkAssumption DEF Least
<1> HIDE DEF n
<1>4. SubSeq(wire, 1, n) \o SubSeq(wire, n + 1, Len(wire)) = wire
  BY <1>2, <1>3, TwoParts
<1>5. <<>> \o wire = wire
  BY <1>2
<1>6. Pending' = Pending
  BY <1>1, <1>2, <1>4, <1>5 DEF Pending
<1>7. anaPc' \notin Opening
  BY <1>1 DEF Opening
<1> QED
  BY <1>1, <1>6, <1>7, OpenTracks

\* The next window begins where the last one ends.
LEMMA PublishChannelsTracks ==
  ASSUME TrackInv, SumsInv, PublishChannels, UNCHANGED <<genVars, link>>
  PROVE  TrackInv'
<1>1. /\ anaPc = "published" /\ ResetWindow /\ anaPc' = Continue(anaFrame)
      /\ UNCHANGED <<anaOpen, coefficient, anaFrame, wire, generator, wiring, genOpen, sent>>
  BY DEF PublishChannels, genVars, link
<1>2. anaOpen = 1 /\ filled = Window /\ channelPos = 1 /\ Window \in Nat \ {0}
  BY <1>1, AnalyzerAssumption DEF TrackInv, Opening, SumsInv, PlaceInWindow
<1>3. PICK first \in Nat : InWindow(first)
  BY <1>2 DEF TrackInv
<1>4. PICK next \in Nat : next = first + Window
  BY <1>2
<1>5. /\ \A c \in Chans : sums'[c] = WindowSums(coefficient', generator', wiring', next)[Held(c)'][c]
      /\ Here(next)' = next * Channels
  BY <1>1, WindowStarts
<1>6. Here(next)' = Here(first)
  <2>1. PICK p \in Int : p = next * Channels
    BY GenConstants
  <2>2. Here(first) = p + (1 - 1)
    BY <1>2, <1>4, <2>1 DEF Here
  <2> QED
    BY <1>5, <2>1, <2>2
<1>7. Pending' = Pending /\ Ahead(next)' = Ahead(first)
  BY <1>1, <1>6 DEF Pending, Ahead
<1>8. InWindow(next)'
  <2>1. \A i \in DOMAIN Pending' : Pending'[i] = Stream(generator', wiring', Here(next)' + i - 1)
    BY <1>1, <1>3, <1>6, <1>7 DEF InWindow
  <2> QED
    BY <1>1, <1>3, <1>5, <1>7, <2>1 DEF InWindow
<1>9. \E n \in Nat : InWindow(n)'
  BY <1>8
<1>10. ~Unusable(generator')
  BY <1>1, <1>2 DEF TrackInv
<1>11. \A f \in Formats : /\ Accepts(f)' <=> Accepts(f)
                          /\ Coefficients(f.rate)' = Coefficients(f.rate)
  BY DEF Accepts, Coefficients, CoefficientOf
<1>12. anaPc' \in {"idle", "samples"} /\ (anaPc' = "idle" => anaFrame' = <<>>)
  BY <1>1 DEF Continue
<1> QED
  BY <1>1, <1>2, <1>9, <1>10, <1>11, <1>12 DEF TrackInv, Opening

\* Nothing is left of a stream that has ended.
LEMMA EndTracks ==
  ASSUME TrackInv, GenInv, ReceiveEnds
  PROVE  TrackInv'
<1>1. /\ wire = <<>> /\ genOpen = 0 /\ anaOpen = 1 /\ anaPc = "idle" /\ ResetWindow
      /\ UNCHANGED <<anaOpen, coefficient, anaPc, anaFrame, wire, generator, wiring, genOpen, sent>>
  BY DEF ReceiveEnds, TakeEnd, Pulling, genVars, link
<1>2. anaFrame = <<>> /\ generator.duration \in Nat
  BY <1>1, GeneratorAssumption DEF TrackInv, GenInv
<1>3. /\ \A c \in Chans : sums'[c] = WindowSums(coefficient', generator', wiring', 0)[Held(c)'][c]
      /\ Here(0)' = 0
  <2>1. 0 * Channels = 0
    BY GenConstants
  <2> QED
    BY <1>1, <2>1, WindowStarts
<1>4. Pending' = <<>> /\ Len(Pending') = 0 /\ DOMAIN Pending' = {}
  BY <1>1, <1>2 DEF Pending
<1>5. Ahead(0)' = 0
  BY <1>3, <1>4 DEF Ahead
<1>6. InWindow(0)'
  BY <1>1, <1>2, <1>3, <1>4, <1>5 DEF InWindow
<1>7. \E n \in Nat : InWindow(n)'
  BY <1>6
<1>8. \A f \in Formats : /\ Accepts(f)' <=> Accepts(f)
                         /\ Coefficients(f.rate)' = Coefficients(f.rate)
  BY DEF Accepts, Coefficients, CoefficientOf
<1>9. filled' = 0 /\ channelPos' = 1
  BY <1>1 DEF ResetWindow
<1> QED
  BY <1>1, <1>2, <1>4, <1>7, <1>8, <1>9 DEF TrackInv, Opening

\* What moves none of it but the generator's end of the stream.
LEMMA AsideTracks ==
  ASSUME TrackInv, genOpen' = 1 => genOpen = 1 /\ sent' = sent,
         UNCHANGED <<anaOpen, anaPc, anaFrame, sums, filled, channelPos, coefficient, generator,
                     wiring, wire>>
  PROVE  TrackInv'
<1>1. Pending' = Pending
  BY DEF Pending
<1>2. CASE anaOpen = 0
  BY <1>2, ApartTracks DEF TrackInv
<1>3. CASE anaOpen = 1
  <2>1. /\ anaPc' \notin Opening /\ (anaPc' = "idle" => anaFrame' = <<>>)
        /\ anaPc' \in {"publish", "published"} => filled = Window
    BY <1>3 DEF TrackInv
  <2> QED
    BY <1>1, <1>3, <2>1, OpenTracks
<1> QED
  BY <1>2, <1>3 DEF TrackInv

LEMMA WorkTracks ==
  ASSUME TrackInv, GenInv, SumsInv, WireInv, Work PROVE TrackInv'
<1>0. UNCHANGED <<generator, wiring, wire, genOpen, sent>>
  BY DEF Work, genVars, link
<1>1. CASE ClearHead \/ ClearChannels \/ \E f \in Formats : OpenRefuses(f)
  <2>1. /\ anaPc \in Opening /\ anaPc' \in Opening \union {"idle"}
        /\ UNCHANGED <<anaOpen, sums, filled, channelPos, anaFrame>>
    BY <1>1 DEF ClearHead, ClearChannels, OpenRefuses, Opening
  <2> QED
    BY <1>0, <2>1 DEF TrackInv, Opening
<1>2. CASE PublishHead
  <2>1. /\ anaPc = "publish" /\ anaPc' = "published"
        /\ UNCHANGED <<anaOpen, coefficient, sums, filled, channelPos, anaFrame>>
    BY <1>2 DEF PublishHead
  <2>2. anaOpen = 1 /\ filled = Window /\ Pending' = Pending /\ anaPc' \notin Opening
    BY <1>0, <2>1 DEF TrackInv, Opening, Pending
  <2> QED
    BY <1>0, <2>1, <2>2, OpenTracks
<1>3. CASE \E f \in Formats : OpenAccepts(f)
  BY <1>3, OpenAcceptsTracks DEF Work
<1>4. CASE MeasureSample
  BY <1>4, MeasureTracks DEF Work
<1>5. CASE PublishChannels
  BY <1>5, PublishChannelsTracks DEF Work
<1> QED
  BY <1>1, <1>2, <1>3, <1>4, <1>5 DEF Work, Operate

\* At every moment, the sums are those of the sample sets from one number on.
LEMMA LinkTracks == LinkSpec => []TrackInv
<1>1. TrackInv /\ GenInv /\ SumsInv /\ WireInv /\ [LinkNext]_allVars => TrackInv'
  <2> SUFFICES ASSUME TrackInv, GenInv, SumsInv, WireInv, [LinkNext]_allVars PROVE TrackInv'
    OBVIOUS
  <2>1. CASE Replace \/ StartGenerator \/ StopGenerator
    <3>1. /\ anaOpen = 0 /\ anaPc = "idle" /\ wire' = wire
          /\ UNCHANGED <<anaOpen, anaFrame, anaPc, sums, filled, channelPos>>
      BY <2>1 DEF Replace, StartGenerator, StopGenerator, Apart, anaVars, link
    <3>2. \E s \in Setups : s.generator = generator' /\ s.wiring = wiring'
      BY <2>1 DEF Replace, StartGenerator, StopGenerator, OpenGenerator, CloseGenerator, link, TrackInv
    <3>3. wire' = <<>>
      BY <3>1 DEF TrackInv
    <3> QED
      BY <3>1, <3>2, <3>3, ApartTracks
  <2>2. CASE TransmitEnds
    <3>1. /\ UNCHANGED <<anaVars, link, generator, sent>>
          /\ genOpen' = 1 => genOpen = 1
      BY <2>2 DEF TransmitEnds, GenerateNothing, CloseGenerator
    <3> QED
      BY <3>1, AsideTracks DEF anaVars, link
  <2>3. CASE \E size \in BufferSizes : Transmit(size)
    BY <2>3, TransmitTracks
  <2>4. CASE StartAnalyzer
    BY <2>4, StartTracks
  <2>5. CASE StopAnalyzer
    <3>1. /\ anaOpen = 1 /\ anaPc = "idle" /\ anaOpen' = 0 /\ wire' = <<>>
          /\ UNCHANGED <<anaPc, anaFrame, generator, wiring>>
      BY <2>5 DEF StopAnalyzer, CloseAnalyzer, genVars
    <3> QED
      BY <3>1 DEF TrackInv, Opening
  <2>6. CASE Work
    BY <2>6, WorkTracks
  <2>7. CASE ReceiveEnds
    BY <2>7, EndTracks
  <2>8. CASE \E size \in Cuts : Receive(size)
    BY <2>8, ReceiveTracks
  <2>9. CASE ReceiveFails \/ Ask \/ Answer \/ UNCHANGED allVars
    <3>1. UNCHANGED <<anaOpen, anaPc, anaFrame, sums, filled, channelPos, coefficient, generator,
                      wiring, wire, genOpen, sent>>
      BY <2>9 DEF ReceiveFails, TakeError, Ask, GetHead, Answer, GetChannels, allVars, genVars,
                  anaVars, link
    <3> QED
      BY <3>1, AsideTracks
  <2> QED
    BY <2>1, <2>2, <2>3, <2>4, <2>5, <2>6, <2>7, <2>8, <2>9 DEF LinkNext, GeneratorRuns, AnalyzerRuns
<1>2. AnaSpec => []SumsInv
  BY InitEstablishes, NextPreserves, PTL DEF AnaSpec
<1> QED
  BY <1>1, <1>2, TrackInit, LinkKeepsTime, LinkCarriesSamples, LinkImplementsAnalyzer, PTL DEF LinkSpec

-----------------------------------------------------------------------------

\* A verdict is that of one window of what is, or was, at the far end.
OnOneWindow(verdict, right) ==
  \E s \in Setups, f \in Formats, first \in Nat :
     /\ ~Unusable(s.generator) /\ Accepts(f) /\ HasWindow(s.generator, first)
     /\ verdict = VerdictOn(f.rate, s.generator, s.wiring, first)
     /\ right = Right(s.generator, s.wiring)

ToldInv ==
  /\ ~Apart => truth = Right(generator, wiring)
  /\ \/ result.head.verdict = "none" \/ anaPc = "clear"
     \/ OnOneWindow(result.head.verdict, truth)

\* What is published is on the window that is full.
LEMMA PublishedOnOneWindow ==
  ASSUME TrackInv, SumsInv, WireInv, anaPc = "publish"
  PROVE  OnOneWindow(WindowResult.head.verdict, Right(generator, wiring))
<1>1. /\ anaOpen = 1 /\ filled = Window /\ channelPos = 1 /\ Window \in Nat \ {0}
  BY AnalyzerAssumption DEF TrackInv, Opening, SumsInv, PlaceInWindow
<1>2. PICK first \in Nat : InWindow(first)
  BY <1>1 DEF TrackInv
<1>3. PICK f \in Formats : Accepts(f) /\ coefficient = Coefficients(f.rate)
  BY <1>1 DEF TrackInv
<1>4. PICK s \in Setups : s.generator = generator /\ s.wiring = wiring
  BY DEF TrackInv
<1>5. ~Unusable(generator)
  BY <1>1 DEF TrackInv
<1> DEFINE full == WindowSums(coefficient, generator, wiring, first)[Window]
<1>6. \A c \in Chans : sums[c] = full[c]
  <2>1. \A c \in Chans : Held(c) = Window
    BY <1>1 DEF Held, Chans
  <2> QED
    BY <1>2, <2>1 DEF InWindow
<1>7. WindowResult.head.verdict = VerdictOn(f.rate, generator, wiring, first)
  <2> HIDE DEF full
  <2>1. [c \in Chans |-> Measured(coefficient, sums[c])] = [c \in Chans |-> Measured(coefficient, full[c])]
    BY <1>6
  <2>2. WindowResult.head.verdict = Decide([c \in Chans |-> Measured(coefficient, sums[c])])
    BY DEF WindowResult
  <2>3. VerdictOn(f.rate, generator, wiring, first) =
          Decide([c \in Chans |-> Measured(coefficient, full[c])])
    BY <1>3 DEF VerdictOn, full
  <2> QED
    BY <2>1, <2>2, <2>3
<1>8. HasWindow(generator, first)
  <2>1. Here(first) = (first + Window) * Channels
    <3>1. (first + Window) * Channels \in Int
      BY <1>1, GenConstants
    <3>2. Here(first) = (first + Window) * Channels + (1 - 1)
      BY <1>1 DEF Here
    <3> QED
      BY <3>1, <3>2
  <2>2. PICK here \in Int : here = (first + Window) * Channels
    BY <1>1, GenConstants
  <2>3. Len(Pending) \in Nat
    <3>1. anaFrame \o wire \in Seq(Containers)
      BY DEF SumsInv, WireInv
    <3> QED
      BY <3>1 DEF Pending
  <2>4. generator.duration # 0 => here + Len(Pending) <= generator.duration
    BY <1>2, <2>1, <2>2 DEF InWindow, Ahead
  <2>5. PICK d \in Nat : d = generator.duration
    BY <1>4, LinkAssumption, GeneratorAssumption
  <2>6. d # 0 => here <= d
    BY <2>2, <2>3, <2>4, <2>5
  <2> QED
    BY <2>2, <2>5, <2>6 DEF HasWindow
<1> QED
  BY <1>3, <1>4, <1>5, <1>7, <1>8 DEF OnOneWindow

\* What leaves the verdict, and what it was to be, alone.
LEMMA ToldAside ==
  ASSUME ToldInv, truth' = truth, result'.head.verdict = result.head.verdict,
         anaPc = "clear" => anaPc' = "clear",
         ~Apart' => ~Apart /\ UNCHANGED <<generator, wiring>>
  PROVE  ToldInv'
<1>1. ~Apart' => truth' = Right(generator', wiring')
  BY DEF ToldInv
<1>2. \/ result'.head.verdict = "none" \/ anaPc' = "clear"
      \/ OnOneWindow(result'.head.verdict, truth')
  BY DEF ToldInv
<1> QED
  BY <1>1, <1>2 DEF ToldInv

LEMMA WorkTold ==
  ASSUME ToldInv, TrackInv, SumsInv, WireInv, ResultInv, Work PROVE ToldInv'
<1>1. /\ anaPc # "idle" /\ ~Apart /\ UNCHANGED <<truth, generator, wiring>>
      /\ result = [head |-> result.head, channel |-> result.channel]
  BY DEF Work, Operate, ClearHead, ClearChannels, OpenAccepts, OpenRefuses, MeasureSample,
         PublishHead, PublishChannels, Apart, genVars, link, ResultInv
<1>2. CASE ClearHead
  <2>1. result' = [result EXCEPT !.head = NoResult.head]
    BY <1>2 DEF ClearHead, StoreHead
  <2>2. result'.head.verdict = "none"
    BY <1>1, <2>1 DEF NoResult
  <2> QED
    BY <1>1, <2>2 DEF ToldInv
<1>3. CASE PublishHead
  <2>1. anaPc = "publish" /\ result' = [result EXCEPT !.head = WindowResult.head]
    BY <1>3 DEF PublishHead, StoreHead
  <2>2. result'.head.verdict = WindowResult.head.verdict
    BY <1>1, <2>1
  <2>3. OnOneWindow(result'.head.verdict, truth')
    BY <1>1, <2>1, <2>2, PublishedOnOneWindow DEF ToldInv
  <2> QED
    BY <1>1, <2>3 DEF ToldInv
<1>4. CASE \E f \in Formats : OpenAccepts(f)
  <2>1. anaPc = "check" /\ result' = [result EXCEPT !.head = [@ EXCEPT !.window = Window]]
    BY <1>4 DEF OpenAccepts
  <2>2. result'.head.verdict = result.head.verdict
    BY <1>1, <2>1 DEF ResultInv, HeadShape
  <2> QED
    BY <1>1, <2>1, <2>2, ToldAside
<1>5. CASE ClearChannels \/ PublishChannels
  <2>1. /\ anaPc # "clear"
        /\ \/ result' = [result EXCEPT !.channel = NoResult.channel]
           \/ result' = [result EXCEPT !.channel = WindowResult.channel]
    BY <1>5 DEF ClearChannels, PublishChannels, StoreChannels
  <2>2. result'.head = result.head
    BY <1>1, <2>1
  <2> QED
    BY <1>1, <2>1, <2>2, ToldAside
<1>6. CASE MeasureSample \/ \E f \in Formats : OpenRefuses(f)
  <2>1. anaPc # "clear" /\ result' = result
    BY <1>6 DEF MeasureSample, OpenRefuses
  <2> QED
    BY <1>1, <2>1, ToldAside
<1> QED
  BY <1>2, <1>3, <1>4, <1>5, <1>6 DEF Work, Operate

LEMMA LinkTells == LinkSpec => []ToldInv
<1>1. LinkInit => ToldInv
  BY DEF LinkInit, AnaInit, NoResult, Apart, ToldInv
<1>2. ToldInv /\ TrackInv /\ SumsInv /\ WireInv /\ ResultInv /\ [LinkNext]_allVars => ToldInv'
  <2> SUFFICES ASSUME ToldInv, TrackInv, SumsInv, WireInv, ResultInv, [LinkNext]_allVars
               PROVE  ToldInv'
    OBVIOUS
  <2>1. CASE Replace \/ StartGenerator \/ StopGenerator
    <3>1. Apart /\ Apart' /\ UNCHANGED <<truth, result, anaPc>>
      BY <2>1 DEF Replace, StartGenerator, StopGenerator, Apart, anaVars, link
    <3> QED
      BY <3>1, ToldAside
  <2>2. CASE GeneratorRuns
    <3>1. UNCHANGED <<anaVars, generator, wiring, truth>>
      BY <2>2 DEF GeneratorRuns, Transmit, TransmitEnds, Generate, GenerateNothing, CloseGenerator, link
    <3>2. Apart' <=> Apart
      BY <3>1 DEF Apart, anaVars
    <3> QED
      BY <3>1, <3>2, ToldAside DEF anaVars
  <2>3. CASE StartAnalyzer
    <3>1. anaPc' = "clear" /\ truth' = Right(generator, wiring) /\ UNCHANGED <<generator, wiring>>
      BY <2>3 DEF StartAnalyzer, OpenStarts, genVars
    <3> QED
      BY <3>1 DEF ToldInv
  <2>4. CASE Work
    BY <2>4, WorkTold
  <2>5. CASE StopAnalyzer \/ ReceiveEnds \/ ReceiveFails \/ \E size \in Cuts : Receive(size)
    <3>1. /\ anaOpen = 1 /\ anaPc = "idle" /\ UNCHANGED <<result, truth, generator, wiring>>
      BY <2>5 DEF StopAnalyzer, CloseAnalyzer, ReceiveEnds, TakeEnd, ReceiveFails, TakeError,
                  Receive, TakeFrame, Pulling, genVars, link
    <3>2. ~Apart
      BY <3>1 DEF Apart
    <3> QED
      BY <3>1, <3>2, ToldAside
  <2>6. CASE Ask \/ Answer \/ UNCHANGED allVars
    <3>1. UNCHANGED <<anaOpen, anaPc, result, truth, generator, wiring>>
      BY <2>6 DEF Ask, GetHead, Answer, GetChannels, allVars, genVars, anaVars, link
    <3>2. Apart' <=> Apart
      BY <3>1 DEF Apart
    <3> QED
      BY <3>1, <3>2, ToldAside
  <2> QED
    BY <2>1, <2>2, <2>3, <2>4, <2>5, <2>6 DEF LinkNext, AnalyzerRuns
<1>3. AnaSpec => []SumsInv
  BY InitEstablishes, NextPreserves, PTL DEF AnaSpec
<1>4. AnaSpec => []ResultInv
  BY ResultInit, ResultPreserved, PTL DEF AnaSpec
<1> QED
  BY <1>1, <1>2, <1>3, <1>4, LinkTracks, LinkCarriesSamples, LinkImplementsAnalyzer, PTL DEF LinkSpec

\* Whatever a reader finds as a verdict is the one on a single window of whole sample
\* sets, one after the other, of a single stream: never on samples of two channels,
\* of two runs or with one left out or taken twice, however the stream was cut.
THEOREM VerdictIsOnOneWindow ==
  LinkSpec => [](result.head.verdict = "none" \/ anaPc = "clear"
                   \/ OnOneWindow(result.head.verdict, truth))
<1>1. ToldInv => result.head.verdict = "none" \/ anaPc = "clear"
                   \/ OnOneWindow(result.head.verdict, truth)
  BY DEF ToldInv
<1> QED
  BY <1>1, LinkTells, PTL

\* A window a turn later gives the same verdict.
LEMMA VerdictRepeats ==
  ASSUME NEW def \in Definitions, ~Unusable(def), NEW wired, NEW rate, NEW set \in Nat
  PROVE  VerdictOn(rate, def, wired, set) = VerdictOn(rate, def, wired, set % Turn)
<1>1. PICK first \in Nat, k \in Int : first = set % Turn /\ set = first + Turn * k
  <2>1. \A x \in Int : /\ x % Turn \in 0..(Turn - 1) /\ x \div Turn \in Int
                       /\ x = Turn * (x \div Turn) + (x % Turn)
    BY GenConstants, WholeTurns
  <2>2. set % Turn \in 0..(Turn - 1) /\ set \div Turn \in Int /\ set = Turn * (set \div Turn) + (set % Turn)
    BY <2>1
  <2>3. set % Turn \in Nat /\ set = (set % Turn) + Turn * (set \div Turn)
    <3>1. PICK p \in Int, r \in 0..(Turn - 1) : p = Turn * (set \div Turn) /\ r = set % Turn
      BY <2>2, GenConstants
    <3>2. set = r + p
      BY <2>2, <3>1
    <3> QED
      BY <3>1, <3>2, GenConstants
  <2> QED
    BY <2>2, <2>3, Zenon
<1>2. \A j \in 1..Window : Heard(def, wired, set + j - 1) = Heard(def, wired, first + j - 1)
  <2> SUFFICES ASSUME NEW j \in 1..Window
               PROVE  Heard(def, wired, set + j - 1) = Heard(def, wired, first + j - 1)
    OBVIOUS
  <2>1. \A x, y \in Int : Heard(def, wired, x + Turn * y) = Heard(def, wired, x)
    BY HeardRepeats
  <2>2. PICK p \in Int : p = Turn * k
    BY GenConstants
  <2>3. first + j - 1 \in Int /\ set + j - 1 = (first + j - 1) + p
    BY <1>1, <2>2, ConstantFacts
  <2> QED
    BY <1>1, <2>1, <2>2, <2>3
<1>3. \A coef : WindowSums(coef, def, wired, set) = WindowSums(coef, def, wired, first)
  <2> SUFFICES ASSUME NEW coef
               PROVE  WindowSums(coef, def, wired, set) = WindowSums(coef, def, wired, first)
    OBVIOUS
  <2> DEFINE Def(n, after, j) ==
               IF j = 0 THEN [c \in Chans |-> Empty]
               ELSE [c \in Chans |-> Folded(coef, after[j - 1][c], Narrowed(Heard(def, wired, n + j - 1)[c]))]
  <2>1. \A after, j : j \in 0..Window => Def(set, after, j) = Def(first, after, j)
    <3> SUFFICES ASSUME NEW after, NEW j \in 0..Window PROVE Def(set, after, j) = Def(first, after, j)
      OBVIOUS
    <3>1. CASE j = 0
      BY <3>1
    <3>2. CASE j # 0
      <4>1. j \in 1..Window
        BY <3>2, ConstantFacts
      <4>2. Heard(def, wired, set + j - 1) = Heard(def, wired, first + j - 1)
        BY <1>2, <4>1
      <4> QED
        BY <4>2
    <3> QED
      BY <3>1, <3>2
  <2> DEFINE Q(n, after) == after = [j \in 0..Window |-> Def(n, after, j)]
  <2>2. /\ WindowSums(coef, def, wired, set) = CHOOSE after : Q(set, after)
        /\ WindowSums(coef, def, wired, first) = CHOOSE after : Q(first, after)
    BY DEF WindowSums
  <2> HIDE DEF Def
  <2>3. \A after : Q(set, after) <=> Q(first, after)
    <3> SUFFICES ASSUME NEW after PROVE Q(set, after) <=> Q(first, after)
      OBVIOUS
    <3>1. [j \in 0..Window |-> Def(set, after, j)] = [j \in 0..Window |-> Def(first, after, j)]
      BY <2>1
    <3> QED
      BY <3>1
  <2> HIDE DEF Q
  <2>4. (CHOOSE after : Q(set, after)) = (CHOOSE after : Q(first, after))
    BY <2>3
  <2> QED
    BY <2>2, <2>4
<1> QED
  BY <1>1, <1>3 DEF VerdictOn

\* What is said of every offset within a turn holds of every window there is.
LEMMA OneWindowIsRight ==
  ASSUME SignalsAreTold, NEW verdict, NEW right, OnOneWindow(verdict, right)
  PROVE  verdict \in right
<1>1. PICK s \in Setups, f \in Formats, set \in Nat :
        /\ ~Unusable(s.generator) /\ Accepts(f) /\ HasWindow(s.generator, set)
        /\ verdict = VerdictOn(f.rate, s.generator, s.wiring, set)
        /\ right = Right(s.generator, s.wiring)
  BY DEF OnOneWindow
<1>2. PICK d \in Nat : s.generator \in Definitions /\ d = s.generator.duration
  BY LinkAssumption, GeneratorAssumption
<1>3. set % Turn \in 0..(Turn - 1) /\ set % Turn <= set
  BY GenConstants
<1>4. HasWindow(s.generator, set % Turn)
  <2>1. CASE d = 0
    BY <1>2, <2>1 DEF HasWindow
  <2>2. CASE d # 0
    <3>1. (set + Window) * Channels <= d
      BY <1>1, <1>2, <2>2 DEF HasWindow
    <3>2. \A x, y, n \in Nat : x <= y => x * n <= y * n
      OBVIOUS
    <3>3. (set % Turn) + Window \in Nat /\ set + Window \in Nat /\ (set % Turn) + Window <= set + Window
      BY <1>3, ConstantFacts, GenConstants
    <3>4. ((set % Turn) + Window) * Channels <= (set + Window) * Channels
      BY <3>2, <3>3, GenConstants
    <3>5. ((set % Turn) + Window) * Channels <= d
      <4>1. PICK x \in Int, y \in Int :
              x = ((set % Turn) + Window) * Channels /\ y = (set + Window) * Channels
        BY <3>3, GenConstants
      <4> QED
        BY <3>1, <3>4, <4>1
    <3> QED
      BY <1>2, <3>5 DEF HasWindow
  <2> QED
    BY <2>1, <2>2
<1>5. VerdictOn(f.rate, s.generator, s.wiring, set % Turn) \in Right(s.generator, s.wiring)
  BY <1>1, <1>3, <1>4 DEF SignalsAreTold
<1>6. VerdictOn(f.rate, s.generator, s.wiring, set) = VerdictOn(f.rate, s.generator, s.wiring, set % Turn)
  BY <1>1, <1>2, VerdictRepeats
<1> QED
  BY <1>1, <1>5, <1>6

\* Where the thresholds tell the signals apart at every offset within a turn, a
\* verdict is right in every run: wherever the windows fall in the stream, however
\* long it goes on, whatever frames it comes in, and after any runs before.
THEOREM VerdictIsRight == SignalsAreTold => (LinkSpec => []VerdictTellsLink)
<1> SUFFICES ASSUME SignalsAreTold PROVE LinkSpec => []VerdictTellsLink
  OBVIOUS
<1>1. ToldInv => VerdictTellsLink
  BY OneWindowIsRight DEF ToldInv, VerdictTellsLink
<1> QED
  BY <1>1, LinkTells, PTL
=============================================================================
