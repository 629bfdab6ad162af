------------------------------ MODULE ToneGen ------------------------------
(***************************************************************************)
(* The tone generator: open() starts the stream over, process() walks one  *)
(* phase accumulator per channel through the table and ends the stream at  *)
(* the configured duration, close() leaves the phase where it stopped.     *)
(***************************************************************************)
EXTENDS Tones

CONSTANTS
  Definitions,   \* generator nodes: their tones, amplitude and duration
  Rate,          \* of the bound format
  SineTable,     \* sine of the first quarter turn
  FullScale,     \* the amplitude that stands for one
  ProducedWrap,  \* 2^32: the duration and the count of produced samples have 32 bits
  BufferSizes,   \* samples that the frame buffers hold which process() is given
  Periods        \* reference: one period of every frequency, as a sequence

ASSUME GeneratorAssumption ==
  /\ Rate \in Nat \ {0} /\ FullScale \in Nat \ {0} /\ ProducedWrap \in Nat \ {0}
  /\ BufferSizes \subseteq Nat
  /\ SineTable \in [0..QuarterPoints -> Int]
  /\ \A g \in Definitions :
       g.freq \in Seq(Nat) /\ g.amplitude \in Int /\ g.duration \in 0..(ProducedWrap - 1)

VARIABLES
  generator,  \* its definition
  genOpen,    \* 1 while it is open
  genPhase,   \* phase of each tone
  produced,   \* samples since open()
  genFrame,   \* the frame last produced
  genOutcome, \* of the last call: "none", "frame", "eof" or "error"
  sent        \* history: like produced, exact; modulo a turn of sample sets
              \* where the duration is unlimited

genVars == <<generator, genOpen, genPhase, produced, genFrame, genOutcome, sent>>

GenInit ==
  /\ generator \in Definitions /\ genOpen = 0
  /\ genPhase = [t \in 1..Channels |-> 0] /\ produced = 0
  /\ genFrame = <<>> /\ genOutcome = "none" /\ sent = 0

StepOf(def, tone) == PhaseStep(def.freq[tone], Rate)

\* One sample, scaled and aligned to the top of its container.  What the phase
\* has below a point of the table is discarded, and stays in the phase.
ToneSample(def, phase) ==
  ((Mirrored(SineTable, phase \div PointSize) * def.amplitude) \div FullScale) * InputShift

Unusable(def) ==
  \/ def.amplitude \notin 0..FullScale
  \/ Len(def.freq) # Channels
  \/ \E t \in DOMAIN def.freq : def.freq[t] = 0 \/ def.freq[t] * 2 >= Rate
  \/ def.duration % Channels # 0

\* Nothing of an earlier run is left, and a refused definition leaves it closed.
OpenGenerator ==
  /\ genOpen = 0
  /\ genPhase' = [t \in 1..Channels |-> 0] /\ produced' = 0 /\ sent' = 0
  /\ genOpen' = IF Unusable(generator) THEN 0 ELSE 1
  /\ genFrame' = <<>> /\ genOutcome' = IF Unusable(generator) THEN "error" ELSE "none"
  /\ UNCHANGED generator

\* A finished stream stays open, and is asked again by the next play().
Producing == genOpen = 1 /\ genOutcome # "error"

\* Mutant of FrameSamples: as much as the buffer holds.
MutFrameSamples(size) == size

\* Whole sample sets, and no more than are left of the duration.
FrameSamples(size) ==
  LET whole == size - (size % Channels)
      left  == generator.duration - produced
  IN IF generator.duration # 0 /\ left < whole THEN left ELSE whole

\* The sample sets of a frame, channel by channel.
Frame(samples) ==
  [i \in 1..samples |->
     LET tone == ((i - 1) % Channels) + 1
     IN ToneSample(generator, (genPhase[tone] + ((i - 1) \div Channels) * StepOf(generator, tone)) % Turn)]

Generate(size) ==
  LET samples == FrameSamples(size)
  IN /\ Producing /\ size >= Channels /\ samples > 0
     /\ genFrame' = Frame(samples) /\ genOutcome' = "frame"
     /\ genPhase' = [t \in 1..Channels |->
                       (genPhase[t] + ((samples + Channels - 1) \div Channels)
                                        * StepOf(generator, t)) % Turn]
     /\ produced' = (produced + samples) % ProducedWrap
     /\ sent' = IF generator.duration = 0 THEN (sent + samples) % (Turn * Channels)
                                          ELSE sent + samples
     /\ UNCHANGED <<generator, genOpen>>

\* The duration is over, or the buffer does not hold one sample set.
GenerateNothing(size) ==
  /\ Producing
  /\ size < Channels \/ FrameSamples(size) = 0
  /\ genOutcome' = IF size < Channels THEN "error" ELSE "eof"
  /\ genFrame' = <<>>
  /\ UNCHANGED <<generator, genOpen, genPhase, produced, sent>>

CloseGenerator ==
  /\ genOpen = 1
  /\ genOpen' = 0 /\ genFrame' = <<>> /\ genOutcome' = "none"
  /\ UNCHANGED <<generator, genPhase, produced, sent>>

-----------------------------------------------------------------------------
(* Properties. *)

\* Sample number n since open(), in interleaved order, of the ideal stream.
Ideal(n) ==
  LET period == Periods[generator.freq[(n % Channels) + 1]]
  IN period[((n \div Channels) % Len(period)) + 1] * generator.amplitude * InputShift

\* The table has the ideal samples: phase steps and table entries are not rounded.
TableIsExact ==
  \A g \in Definitions, t \in 1..Channels :
    Unusable(g) \/
      LET period == Periods[g.freq[t]]
          Phase(s) == (s * StepOf(g, t)) % Turn
      IN /\ period \in Seq(Int) /\ Len(period) > 0 /\ Phase(Len(period)) = 0
         /\ \A s \in 0..(Len(period) - 1) :
              ((Mirrored(SineTable, Phase(s) \div PointSize) * g.amplitude) \div FullScale) * FullScale
                = period[s + 1] * g.amplitude

\* Across frames of any size every sample is the one its tone has at that time,
\* for its own channel, a reopened generator starts over, and the stream ends
\* when exactly the configured duration was sent.
StreamKeepsTime ==
  /\ \A i \in DOMAIN genFrame :
       genFrame[i] * FullScale = Ideal((sent + Turn * Channels - Len(genFrame)) + i - 1)
  /\ genOutcome = "eof" => sent = generator.duration
=============================================================================
