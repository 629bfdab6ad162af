---------------------------- MODULE ToneAnalyzer ----------------------------
(***************************************************************************)
(* The tone analyser: one resonator for each expected tone on each         *)
(* channel, a verdict for each whole window, and a result which another    *)
(* thread reads under a spinlock.  A copy made under the lock takes two    *)
(* steps, its head and its channels, so that whatever does not hold the    *)
(* lock may come in between.                                               *)
(*                                                                         *)
(* Numbers are small and exact: coefficients carry no fraction bits, and   *)
(* the shifts that normalise large operands do not occur.  One operation   *)
(* of the node runs at a time, as the pipeline sees to.                    *)
(***************************************************************************)
EXTENDS Tones

CONSTANTS
  Expected,     \* the frequency that each channel should carry
  Window,       \* sample sets of a window
  MinWindow,    \* the shortest that open() accepts; WindowLimit is the longest
  Formats,      \* that the pipeline may be bound to: rate and channels
  TwiceSine,    \* the first quarter turn of 2 * sin
  Unity,        \* a fraction of one in the fixed point of the ratios
  PassLimit,    \* of its energy that a channel must have in its tone
  TonalLimit,   \* of its energy that one sinusoid may leave over
  SilenceRms,   \* below it a channel is silent
  InputMax,     \* magnitude of a sample
  SumMax,       \* largest value of a sum's type
  RootBits,     \* powers of 4, from 2^62 down to 1, for the square root
  WindowsWrap   \* 2^32: the count of windows has 32 bits

\* The last conjunct is the build assertion on the sums of squares.
ASSUME AnalyzerAssumption ==
  /\ Window \in Nat \ {0} /\ Window <= WindowLimit
  /\ InputMax \in Nat \ {0} /\ SumMax \in Nat
  /\ 4 * (WindowLimit * (InputMax * InputMax)) <= SumMax

\* The square of a sample has no bit above them.
ASSUME RootAssumption ==
  /\ RootBits \in Seq(Nat \ {0}) /\ RootBits # <<>> /\ RootBits[Len(RootBits)] = 1
  /\ \A k \in 1..(Len(RootBits) - 1) : RootBits[k] = 4 * RootBits[k + 1]
  /\ InputMax * InputMax < 4 * RootBits[1] /\ SilenceRms \in Nat

VARIABLES
  anaOpen,     \* 1 while the node is open
  coefficient, \* 2 * cos of each expected tone's step
  sums,        \* the accumulators of each channel
  filled,      \* sample sets in the window
  channelPos,  \* channel of the next sample
  result,      \* what was published: its head and its channels
  lock,        \* who holds the spinlock: "free", "node" or "getter"
  anaPc,       \* where the node is in its operation, "idle" between two
  anaFrame,    \* samples of the frame that are not measured yet
  anaOutcome,  \* of the last process(): "none", "frame", "eof" or "error"
  getPc,       \* where audio_tone_analyzer_get_result() is
  copied       \* the head, while it has copied that and not the channels

anaVars == <<anaOpen, coefficient, sums, filled, channelPos, result, lock, anaPc, anaFrame,
             anaOutcome, getPc, copied>>

Chans == 1..Channels
Tone == 1..Len(Expected)

-----------------------------------------------------------------------------
(* The arithmetic. *)

Magnitude(x) == IF x < 0 THEN -x ELSE x
Least(a, b) == IF a < b THEN a ELSE b

\* Integer square root, bit by bit: what remains and the root, after each bit.
RootRound(r, bit) ==
  IF r.rem >= r.root + bit
  THEN [rem |-> r.rem - (r.root + bit), root |-> r.root \div 2 + bit]
  ELSE [rem |-> r.rem, root |-> r.root \div 2]

RootRounds(value) ==
  LET round[k \in 0..Len(RootBits)] ==
        IF k = 0 THEN [rem |-> value, root |-> 0] ELSE RootRound(round[k - 1], RootBits[k])
  IN round

Root(value) == RootRounds(value)[Len(RootBits)].root

\* 2 * cos of the step, which is the sine a quarter turn along.  The expected
\* steps lie on points of the table, where there is nothing to interpolate.
CoefficientOf(tone, rate) ==
  Mirrored(TwiceSine, PhaseStep(Expected[tone], rate) \div PointSize + QuarterPoints)

Coefficients(rate) == [t \in Tone |-> CoefficientOf(t, rate)]

\* The magnitude's square that a resonator has come to.
Power(s1, s2, twiceCos) ==
  LET power == s1 * s1 + s2 * s2 - (twiceCos * s1) * s2
  IN IF power < 0 THEN 0 ELSE power

\* The fraction of the energy that it stands for.
Ratio(power, energy) ==
  IF energy <= 0 THEN 0
  ELSE Least((((2 * power) \div Window) * Unity) \div energy, Unity)

\* The fraction of the energy that the best fit of one sinusoid leaves.
Residual(xx, yy, xy) ==
  IF xx <= 0 THEN 0
  ELSE LET left == yy - (xy * xy) \div xx
       IN IF left < 0 THEN 0 ELSE (left * Unity) \div xx

-----------------------------------------------------------------------------
(* A window. *)

Empty == [s1 |-> [t \in Tone |-> 0], s2 |-> [t \in Tone |-> 0], energy |-> 0,
          xx |-> 0, yy |-> 0, xy |-> 0, prev1 |-> 0, prev2 |-> 0, history |-> 0]

ResetWindow ==
  /\ sums' = [c \in Chans |-> Empty] /\ filled' = 0 /\ channelPos' = 1

\* The upper half of the container, its sign included.
Narrowed(data) == data \div InputShift

\* The accumulators of a channel with one more sample, for the coefficients coef.
\* The fit runs one sample behind, since it needs both neighbours.
Folded(coef, a, x) ==
  LET y   == a.prev2 + x
      fit == a.history >= 2
  IN [s1 |-> [t \in Tone |-> x + coef[t] * a.s1[t] - a.s2[t]],
      s2 |-> a.s1,
      energy |-> a.energy + x * x,
      xx |-> IF fit THEN a.xx + a.prev1 * a.prev1 ELSE a.xx,
      yy |-> IF fit THEN a.yy + y * y ELSE a.yy,
      xy |-> IF fit THEN a.xy + a.prev1 * y ELSE a.xy,
      prev1 |-> x, prev2 |-> a.prev1,
      history |-> IF fit THEN a.history ELSE a.history + 1]

\* Of the expected tones that are there at all, the first with most energy.
Strongest(inBand) ==
  LET there == {t \in Tone : inBand[t] > 0}
      most  == {t \in there : \A u \in there : inBand[u] <= inBand[t]}
  IN IF there = {} THEN -1 ELSE CHOOSE t \in most : \A u \in most : t <= u

\* What is reported of a channel.
Measured(coef, a) ==
  LET rms      == Root(a.energy \div Window)
      residual == Residual(a.xx, a.yy, a.xy)
      inBand   == [t \in Tone |-> Ratio(Power(a.s1[t], a.s2[t], coef[t]), a.energy)]
  IN [rms |-> rms, silent |-> rms < SilenceRms, residual |-> residual,
      tonal |-> residual <= TonalLimit, inBand |-> inBand, strongest |-> Strongest(inBand)]

NextChannel(c) == (c % Channels) + 1

\* The order of the tests is the contract.
Decide(ch) ==
  IF \A c \in Chans : ch[c].inBand[c] >= PassLimit THEN "pass"
  ELSE IF \E c \in Chans : ch[c].silent THEN "silent"
  ELSE IF Channels > 1 /\ \A c \in Chans : ch[c].inBand[NextChannel(c)] >= PassLimit THEN "swapped"
  ELSE IF \E c \in Chans : ~ch[c].tonal THEN "noise"
  ELSE "wrong"

-----------------------------------------------------------------------------
(* The result.  Whoever holds the lock takes two steps over it. *)

Nothing == [inBand |-> [t \in Tone |-> 0], rms |-> 0, residual |-> 0, strongest |-> 0,
            tonal |-> FALSE, silent |-> FALSE]
NoResult == [head |-> [verdict |-> "none", windows |-> 0, window |-> 0],
             channel |-> [c \in Chans |-> Nothing]]

WindowResult ==
  LET ch == [c \in Chans |-> Measured(coefficient, sums[c])]
  IN [head |-> [verdict |-> Decide(ch), window |-> Window,
                windows |-> (result.head.windows + 1) % WindowsWrap],
      channel |-> ch]

StoreHead(new) == lock = "free" /\ lock' = "node" /\ result' = [result EXCEPT !.head = new.head]
StoreChannels(new) == lock' = "free" /\ result' = [result EXCEPT !.channel = new.channel]

AnaInit ==
  /\ anaOpen = 0 /\ coefficient = [t \in Tone |-> 0]
  /\ sums = [c \in Chans |-> Empty] /\ filled = 0 /\ channelPos = 1
  /\ result = NoResult /\ lock = "free" /\ anaPc = "idle" /\ anaFrame = <<>>
  /\ anaOutcome = "none" /\ getPc = "idle" /\ copied = NoResult.head

-----------------------------------------------------------------------------
(* open(), close(). *)

\* No window in progress, no coefficient and, two steps later, no verdict of the
\* last run is left by the time that anything can fail.
OpenStarts ==
  /\ anaOpen = 0 /\ anaPc = "idle"
  /\ anaPc' = "clear" /\ coefficient' = [t \in Tone |-> 0] /\ ResetWindow
  /\ anaOutcome' = "none"
  /\ UNCHANGED <<anaOpen, result, lock, anaFrame, getPc, copied>>

ClearHead ==
  /\ anaPc = "clear" /\ StoreHead(NoResult) /\ anaPc' = "cleared"
  /\ UNCHANGED <<anaOpen, coefficient, sums, filled, channelPos, anaFrame, anaOutcome, getPc, copied>>

ClearChannels ==
  /\ anaPc = "cleared" /\ StoreChannels(NoResult) /\ anaPc' = "check"
  /\ UNCHANGED <<anaOpen, coefficient, sums, filled, channelPos, anaFrame, anaOutcome, getPc, copied>>

\* Every expected tone is at least a bin away from DC and from Nyquist.
Accepts(format) ==
  /\ format.rate > 0 /\ Window \in MinWindow..WindowLimit
  /\ Len(Expected) = format.channels
  /\ \A t \in Tone :
       /\ Expected[t] * Window >= format.rate
       /\ 2 * Expected[t] * Window + 2 * format.rate <= format.rate * Window

OpenAccepts(format) ==
  /\ anaPc = "check" /\ lock = "free" /\ Accepts(format)
  /\ coefficient' = Coefficients(format.rate)
  /\ result' = [result EXCEPT !.head.window = Window]
  /\ anaOpen' = 1 /\ anaPc' = "idle"
  /\ UNCHANGED <<sums, filled, channelPos, lock, anaFrame, anaOutcome, getPc, copied>>

OpenRefuses(format) ==
  /\ anaPc = "check" /\ ~Accepts(format) /\ anaPc' = "idle"
  /\ UNCHANGED <<anaOpen, coefficient, sums, filled, channelPos, result, lock, anaFrame,
                 anaOutcome, getPc, copied>>

\* The verdict stays.
CloseAnalyzer ==
  /\ anaOpen = 1 /\ anaPc = "idle" /\ anaOpen' = 0 /\ anaOutcome' = "none"
  /\ UNCHANGED <<coefficient, sums, filled, channelPos, result, lock, anaPc, anaFrame, getPc, copied>>

-----------------------------------------------------------------------------
(* process(). *)

\* The end of the stream closes nothing: play() pulls again from an open node.
Pulling == anaOpen = 1 /\ anaPc = "idle" /\ anaOutcome # "error"

\* Mutant of TakeFrame: every frame is taken to begin with a sample set.
MutTakeFrame(data) ==
  /\ Pulling /\ Len(data) > 0 /\ anaFrame' = data /\ anaPc' = "samples" /\ anaOutcome' = "frame"
  /\ channelPos' = 1
  /\ UNCHANGED <<anaOpen, coefficient, sums, filled, result, lock, getPc, copied>>

\* Mutant of TakeFrame: every frame starts a window.
MutTakeFrameAfresh(data) ==
  /\ Pulling /\ Len(data) > 0 /\ anaFrame' = data /\ anaPc' = "samples" /\ anaOutcome' = "frame"
  /\ ResetWindow
  /\ UNCHANGED <<anaOpen, coefficient, result, lock, getPc, copied>>

\* The upstream node returned samples.
TakeFrame(data) ==
  /\ Pulling /\ Len(data) > 0 /\ anaFrame' = data /\ anaPc' = "samples" /\ anaOutcome' = "frame"
  /\ UNCHANGED <<anaOpen, coefficient, sums, filled, channelPos, result, lock, getPc, copied>>

\* It returned none: a window that never filled is not measured.
TakeEnd ==
  /\ Pulling /\ ResetWindow /\ anaOutcome' = "eof"
  /\ UNCHANGED <<anaOpen, coefficient, result, lock, anaPc, anaFrame, getPc, copied>>

TakeError ==
  /\ Pulling /\ anaOutcome' = "error"
  /\ UNCHANGED <<anaOpen, coefficient, sums, filled, channelPos, result, lock, anaPc, anaFrame,
                 getPc, copied>>

\* Where the node goes on after a sample, or after a window.
Continue(left) == IF left = <<>> THEN "idle" ELSE "samples"

\* Mutant of MeasureSample: the whole container is measured.
MutMeasureSample ==
  LET isLast == channelPos = Channels
  IN /\ anaPc = "samples"
     /\ sums' = [sums EXCEPT ![channelPos] = Folded(coefficient, @, Head(anaFrame))]
     /\ channelPos' = NextChannel(channelPos)
     /\ filled' = IF isLast THEN filled + 1 ELSE filled
     /\ anaFrame' = Tail(anaFrame)
     /\ anaPc' = IF isLast /\ filled + 1 >= Window THEN "publish" ELSE Continue(anaFrame')
     /\ UNCHANGED <<anaOpen, coefficient, result, lock, anaOutcome, getPc, copied>>

\* The next sample of the frame goes to the channel whose turn it is.
MeasureSample ==
  LET isLast == channelPos = Channels
  IN /\ anaPc = "samples"
     /\ sums' = [sums EXCEPT ![channelPos] = Folded(coefficient, @, Narrowed(Head(anaFrame)))]
     /\ channelPos' = NextChannel(channelPos)
     /\ filled' = IF isLast THEN filled + 1 ELSE filled
     /\ anaFrame' = Tail(anaFrame)
     /\ anaPc' = IF isLast /\ filled + 1 >= Window THEN "publish" ELSE Continue(anaFrame')
     /\ UNCHANGED <<anaOpen, coefficient, result, lock, anaOutcome, getPc, copied>>

\* Mutant of PublishHead: without the lock.
MutPublishHead ==
  /\ anaPc = "publish" /\ result' = [result EXCEPT !.head = WindowResult.head]
  /\ anaPc' = "published"
  /\ UNCHANGED <<lock, anaOpen, coefficient, sums, filled, channelPos, anaFrame, anaOutcome, getPc, copied>>

\* The window is full: its result is published whole, and the next one starts.
PublishHead ==
  /\ anaPc = "publish" /\ StoreHead(WindowResult) /\ anaPc' = "published"
  /\ UNCHANGED <<anaOpen, coefficient, sums, filled, channelPos, anaFrame, anaOutcome, getPc, copied>>

PublishChannels ==
  /\ anaPc = "published" /\ StoreChannels(WindowResult) /\ ResetWindow
  /\ anaPc' = Continue(anaFrame)
  /\ UNCHANGED <<anaOpen, coefficient, anaFrame, anaOutcome, getPc, copied>>

-----------------------------------------------------------------------------
(* audio_tone_analyzer_get_result(), in any other thread at any time. *)

GetHead ==
  /\ getPc = "idle" /\ lock = "free" /\ lock' = "getter"
  /\ copied' = result.head /\ getPc' = "half"
  /\ UNCHANGED <<anaOpen, coefficient, sums, filled, channelPos, result, anaPc, anaFrame, anaOutcome>>

\* With this the caller has <<copied, result.channel>>.
GetChannels ==
  /\ getPc = "half" /\ lock' = "free"
  /\ copied' = NoResult.head /\ getPc' = "idle"
  /\ UNCHANGED <<anaOpen, coefficient, sums, filled, channelPos, result, anaPc, anaFrame, anaOutcome>>

Operate ==
  \/ ClearHead \/ ClearChannels \/ \E f \in Formats : OpenAccepts(f) \/ OpenRefuses(f)
  \/ MeasureSample \/ PublishHead \/ PublishChannels

-----------------------------------------------------------------------------
(* The analyser on its own, behind any upstream. *)

\* What 32 bits hold whose upper half is the sample.
Containers == (-(InputMax * InputShift))..(InputMax * InputShift - 1)

AnaNext ==
  \/ OpenStarts \/ CloseAnalyzer \/ Operate \/ TakeEnd \/ TakeError \/ GetHead \/ GetChannels
  \/ \E data \in Seq(Containers) : TakeFrame(data)

AnaSpec == AnaInit /\ [][AnaNext]_anaVars

-----------------------------------------------------------------------------
(* Properties. *)

\* What a reader gets is the verdict and the channels of one and the same
\* window, or nothing of any, never half of one result and half of another: the
\* half it copied first is still that of the result when it copies the second,
\* and nobody is halfway through replacing it.
ResultIsWhole ==
  [][GetChannels =>
       /\ copied = result.head /\ anaPc \notin {"cleared", "published"}
       /\ IF copied.verdict = "none" THEN result.channel = NoResult.channel
          ELSE copied.verdict = Decide(result.channel)]_anaVars

\* The sums of squares and products stay inside their type over every window,
\* at full scale, and whatever way the last window ended.
SumsFit ==
  \A c \in Chans : /\ sums[c].energy <= SumMax /\ sums[c].xx <= SumMax
                   /\ sums[c].yy <= SumMax /\ Magnitude(sums[c].xy) <= SumMax
=============================================================================
