------------------------------ MODULE ToneLink ------------------------------
(***************************************************************************)
(* A loopback: a tone generator at one end of a link, the analyser at the  *)
(* other.  The link is external.  It delivers whole sample sets in order,  *)
(* with nothing lost from when the analyser opens until it closes, and in  *)
(* frames of any size; the analyser may open at any moment of a stream.    *)
(* What is wrong with the link, and which generator is at its far end,     *)
(* changes between two runs only, and the generator does not start within  *)
(* one.                                                                    *)
(***************************************************************************)
EXTENDS ToneGen, ToneAnalyzer

CONSTANTS
  Setups,      \* generators, each with what may be wrong with the link to it
  ClickPeriod, \* sample sets from one click to the next, of each clicking link
  Cuts         \* sizes of the frames in which the samples arrive

\* No generator overdrives the range of the samples.  Clicks repeat with a turn of
\* sample sets, modulo which a stream without an end is counted.
ASSUME LinkAssumption ==
  /\ \A s \in Setups : s.generator \in Definitions
  /\ Cuts \subseteq Nat \ {0}
  /\ \A w \in DOMAIN ClickPeriod : ClickPeriod[w] \in Nat \ {0} /\ Turn % ClickPeriod[w] = 0
  /\ \A g \in Definitions, i \in DOMAIN SineTable :
       g.amplitude \in 0..FullScale =>
         \A x \in {SineTable[i], -SineTable[i]} :
           (x * g.amplitude) \div FullScale \in (-InputMax)..(InputMax - 1)

VARIABLES
  wiring,  \* the link
  wire,    \* samples that have arrived and are not taken
  truth    \* history: the verdicts that are right for what was there when the
           \* analyser was last opened

link == <<wiring, wire, truth>>
allVars == <<genVars, anaVars, link>>

Clicking == DOMAIN ClickPeriod

\* What the link makes of sample set number set: each channel of the far end gets
\* its own sample, its neighbour's, or, on the last channel, nothing or a click now
\* and then.
Delivered(wired, set, samples) ==
  [c \in Chans |->
     IF wired = "swapped" THEN samples[NextChannel(c)]
     ELSE IF wired = "straight" \/ c < Channels THEN samples[c]
     ELSE IF wired \in Clicking /\ set % ClickPeriod[wired] = 0 THEN -(InputMax * InputShift)
     ELSE 0]

\* The link takes a frame set by set.
Received(frame) ==
  [i \in DOMAIN frame |->
     LET c == ((i - 1) % Channels) + 1
     IN Delivered(wiring, (sent + i - 1) \div Channels, [d \in Chans |-> frame[i - c + d]])[c]]

\* The frequency on each channel, 0 for silence and -1 for clicks.
Content(def, wired, c) ==
  IF wired \notin {"straight", "swapped"} /\ c = Channels
  THEN IF wired = "cut" THEN 0 ELSE -1
  ELSE IF def.amplitude = 0 THEN 0
  ELSE def.freq[IF wired = "swapped" THEN NextChannel(c) ELSE c]

\* The verdicts that fit.  Of clicks a window apart a window may hold the only
\* one at its edge, where the fit of a sinusoid, which needs both neighbours,
\* does not see it: this is the one case that depends on the window's offset.
Right(def, wired) ==
  IF Len(def.freq) # Channels THEN {}
  ELSE IF \A c \in Chans : Content(def, wired, c) = Expected[c] THEN {"pass"}
  ELSE IF \E c \in Chans : Content(def, wired, c) = 0 THEN {"silent"}
  ELSE IF \A c \in Chans : Content(def, wired, c) = Expected[NextChannel(c)] THEN {"swapped"}
  ELSE IF \E c \in Chans : Content(def, wired, c) = -1
       THEN IF ClickPeriod[wired] < Window THEN {"noise"} ELSE {"noise", "wrong"}
  ELSE {"wrong"}

LinkInit ==
  /\ GenInit /\ AnaInit
  /\ wiring \in {s.wiring : s \in {t \in Setups : t.generator = generator}}
  /\ wire = <<>> /\ truth = {}

-----------------------------------------------------------------------------

\* Nothing is measured, and nothing is about to be.
Apart == anaOpen = 0 /\ anaPc = "idle"

\* Another generator node is at the far end, or another link.
Replace ==
  /\ Apart /\ genOpen = 0
  /\ \E s \in Setups : generator' = s.generator /\ wiring' = s.wiring
  /\ genPhase' = [t \in Chans |-> 0] /\ produced' = 0 /\ sent' = 0
  /\ genFrame' = <<>> /\ genOutcome' = "none"
  /\ UNCHANGED <<genOpen, anaVars, wire, truth>>

StartGenerator == Apart /\ OpenGenerator /\ UNCHANGED <<anaVars, link>>

\* Samples that nobody waits for are gone.
Transmit(size) ==
  /\ wire = <<>> /\ Generate(size)
  /\ wire' = IF anaOpen = 1 THEN Received(genFrame') ELSE <<>>
  /\ UNCHANGED <<anaVars, wiring, truth>>

TransmitEnds ==
  /\ \/ \E size \in BufferSizes : GenerateNothing(size)
     \/ genOutcome \in {"eof", "error"} /\ CloseGenerator
  /\ UNCHANGED <<anaVars, link>>

StopGenerator == Apart /\ CloseGenerator /\ UNCHANGED <<anaVars, link>>

StartAnalyzer ==
  /\ OpenStarts /\ truth' = Right(generator, wiring)
  /\ UNCHANGED <<genVars, wiring, wire>>

Receive(size) ==
  LET n == Least(size, Len(wire))
  IN /\ TakeFrame(SubSeq(wire, 1, n)) /\ wire' = SubSeq(wire, n + 1, Len(wire))
     /\ UNCHANGED <<genVars, wiring, truth>>

\* The stream is over, or the upstream node fails.
ReceiveEnds == wire = <<>> /\ genOpen = 0 /\ TakeEnd /\ UNCHANGED <<genVars, link>>
ReceiveFails == TakeError /\ UNCHANGED <<genVars, link>>

StopAnalyzer ==
  /\ CloseAnalyzer /\ wire' = <<>>
  /\ UNCHANGED <<genVars, wiring, truth>>

Work == Operate /\ UNCHANGED <<genVars, link>>

Ask == GetHead /\ UNCHANGED <<genVars, link>>
Answer == GetChannels /\ UNCHANGED <<genVars, link>>

GeneratorRuns == TransmitEnds \/ \E size \in BufferSizes : Transmit(size)

AnalyzerRuns == Work \/ ReceiveEnds \/ \E size \in Cuts : Receive(size)

LinkNext ==
  \/ Replace \/ StartGenerator \/ StopGenerator \/ GeneratorRuns
  \/ StartAnalyzer \/ StopAnalyzer \/ AnalyzerRuns \/ ReceiveFails \/ Ask \/ Answer

\* The threads of both ends run, and a thread that is copying the result goes
\* on.  The lock is free again and again, and then whoever spins on it gets it.
LinkSpec ==
  /\ LinkInit /\ [][LinkNext]_allVars
  /\ WF_allVars(GeneratorRuns) /\ SF_allVars(AnalyzerRuns) /\ WF_allVars(Answer)

-----------------------------------------------------------------------------
(* Properties. *)

\* Whatever the offset of the windows, the frames that the samples come in and
\* the point at which a frame or the stream ends, a verdict is one that is right
\* for the link and the generator of this run.  A verdict of a run before it is
\* gone with the attempt to open, refused or not.
VerdictTellsLink ==
  result.head.verdict = "none" \/ result.head.verdict \in truth \/ anaPc = "clear"

\* What arrives of sample set number set of a stream.
Heard(def, wired, set) ==
  Delivered(wired, set, [d \in Chans |-> ToneSample(def, (set * StepOf(def, d)) % Turn)])

\* The accumulators of the channels after 0, 1, ... sample sets from number first on.
WindowSums(coef, def, wired, first) ==
  LET after[k \in 0..Window] ==
        IF k = 0 THEN [c \in Chans |-> Empty]
        ELSE LET before == after[k - 1]
                 set    == Heard(def, wired, first + k - 1)
             IN [c \in Chans |-> Folded(coef, before[c], Narrowed(set[c]))]
  IN after

\* The verdict on the window that begins with sample set number first.
VerdictOn(rate, def, wired, first) ==
  LET full == WindowSums(Coefficients(rate), def, wired, first)[Window]
  IN Decide([c \in Chans |-> Measured(Coefficients(rate), full[c])])

\* The stream lasts to the end of that window.
HasWindow(def, first) == def.duration = 0 \/ (first + Window) * Channels <= def.duration

\* The thresholds tell the signals of the setups apart, at any offset.
SignalsAreTold ==
  \A s \in Setups, f \in Formats, first \in 0..(Turn - 1) :
    (~Unusable(s.generator) /\ Accepts(f) /\ HasWindow(s.generator, first)) =>
      VerdictOn(f.rate, s.generator, s.wiring, first) \in Right(s.generator, s.wiring)

\* As long as the analyser is open and its upstream neither ends nor fails, a
\* verdict comes, however often the result is asked for.
VerdictComes ==
  anaOpen = 1 ~> (result.head.verdict # "none" \/ anaOpen = 0 \/ anaOutcome \in {"eof", "error"})
=============================================================================
