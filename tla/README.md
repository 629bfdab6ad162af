# Verification of the Zephyr audio toolkit

TLA+ models of the audio pipeline subsystem (`src/subsys/audio/pipeline`,
`src/include/zephyr/audio`), the TLC configurations that check them, and proofs
about them for TLAPS. The code is the reference: every definition is translated
from the C source, and `PROJECT.json` ("map") names the lines it stands for.

Run a check with `tlc -config AudioPipelineCore.cfg MCAudioPipeline`, a proof
with `tlapm AudioPipelineProofs.tla`; `PROJECT.json` lists all runs.

## 1. The system

An application builds a chain of nodes (sink - filters - source), binds it and a
configuration to a *pipeline instance*, and drives it with `init`, `set_format`,
`start`, `play`, `stop`, `join`. A worker thread per instance pulls frames
through the chain: the sink's `process()` calls its upstream's, down to the source.

| Component (source) | State it keeps | Operations | Interacts with |
| --- | --- | --- | --- |
| Pipeline core (`audio_pipeline_core.c`, `audio_internal.h`) | atomic lifecycle state, exit request, wake semaphore, format, frame capacity, thread | the six calls above, `process_frame`, worker loop | nodes (`open`, `process`, `close`), events, built-ins |
| Built-in resources (same file) | one stack, one frame buffer, one set of event slots; the owner of each; an epoch | claim in `init()` and `start()`, release in `join()` | every instance without storage of its own |
| Event queue (`audio_pipeline_events.c`) | a `k_msgq` per instance over slots that are its own or the built-in ones | publish (callback, then queue), `get_event` | worker and control thread publish, any thread reads |
| Node chain (`audio_pipeline_core.c`, `audio_node_core.c`) | links from each node to its upstream | opening walk, closing walk, pull of a frame | all nodes |
| File writer (`nodes/file_writer_node.c`) | handle, confirmed payload, "header stale" | `open`, `process`, `close`, finalise | filesystem |
| I2S output (`nodes/i2s_out_node.c`) | configured, started; blocks in flight | `open`, `process`, `close`, recovery | I2S driver, slab |
| I2S input (`nodes/i2s_in_node.c`) | configured, started, a block being drained | the same | I2S driver, slab |
| File reader (`nodes/file_reader_node.c`) and WAV header (`audio_wav.c`) | handle, remaining payload; none | parse, read, rewind at `open` | filesystem |
| I2S wire format (`audio_i2s_wire.c`) | none | sample conversion, slot layout | both I2S nodes |
| Tone generator, tone analyser (`nodes/tone_*.c`) | phase, remaining length; window sums, decision, published result | `open`, `process`, `get_result` | the analyser's reader is another thread |
| Gain filter, null sink (`nodes/gain_filter_node.c`, `nodes/null_sink_node.c`) | a gain; none | `process` | chain |
| Configuration check (`audio_pipeline_config.c`) | none | range tests | `init()` |

**What is hard here**, and the hazards in `PROJECT.json` say at which line:

* Two threads move one lifecycle word by compare-and-swap while a *chain* of nodes
  is opened and closed one node at a time around those moves. Who closes, and
  what a late end of stream or error finds, depends on the interleaving.
* The idle worker waits on a binary semaphore that `play()` and `join()` give.
* Built-ins are shared by address, survive the instance that claimed them, and
  are described by several control blocks at once.
* Drivers run beside the node: an I2S queue underruns or overruns between any
  two calls the node makes. Blocks must neither leak nor be freed twice.
* Filesystem calls fail halfway, and the power may fail between any two of them; what
  is left of a recording is what the reader will be given.
* Any node may answer a pull with any error, one of which is the pipeline's own word
  for the end of the stream.
* Frames, sample sets, windows and durations do not divide each other: phases,
  remainders and partial windows are carried across frames and must not be carried
  across runs.
* The analyser's verdict is read by a thread that knows nothing of its windows.

**What makes each component correct**: the state and the chain agree, each node is
closed exactly once per open, nothing is left waiting, every end of a frame is
told (core); a running instance holds all it runs on, a readable queue holds its
own events (built-ins, events); a failed walk leaves no node open, the end of the stream is
told when there was one and no error (chain); the header never declares what is not
there, and a success means it is exact (file writer); exactly the declared payload is
played (reader), the parser finds what the chunk list says (WAV header), and what was
reported complete plays back (the two together); blocks are conserved and an xrun is
invisible to the pipeline (I2S); each sample is the one its tone has at that time
(generator); a verdict names what is on the link in this run, whole and in time
(analyser).

## 2. Modules

| Module | Models | Composes |
| --- | --- | --- |
| `PipelineStates` | the states and the transition table of the core | - |
| `AudioPipeline` | one instance: control thread, worker thread, chain, semaphore, events | `PipelineStates` |
| `PipelineContract` | the abstract specification: the lifecycle of the API reference as single steps | `PipelineStates` |
| `AudioPipelineInductive` | the inductive invariant `IInv` of `AudioPipeline` | `AudioPipeline` |
| `AudioPipelineProofs` | the theorems (section 4), the refinement among them | `AudioPipelineInductive`, `PipelineContract` |
| `BuiltinResources` | several instances and what they contend for, the queues and their readers | - |
| `NodeChain` | the walks, and the pull of a frame, over links of every shape, cycles included | - |
| `FileWriter` | the node and the file (external) | - |
| `WavHeader` | the header codec: parser and writer as operators, and what the parser is to find | - |
| `FileReader` | the node and the file (external) | `WavHeader` |
| `WavFile` | one path on a volume: recordings, losses of power, files from elsewhere, playing | `FileWriter`, `FileReader` |
| `I2sOut`, `I2sIn` | the node, the driver (external), the slab, the wire | - |
| `Tones` | the phase and the container that generator and analyser share | - |
| `ToneGen` | the generator | `Tones` |
| `ToneAnalyzer` | the analyser, and the thread that asks it for its result | `Tones` |
| `ToneLink` | a generator, a link (external) and an analyser | `ToneGen`, `ToneAnalyzer` |
| `BuiltinResourcesProofs`, `NodeChainProofs`, `I2sOutProofs`, `I2sInProofs` | their inductive invariants and theorems (section 4) | the module of that name |
| `WavHeaderProofs` | the parser finds what the list of chunks says, for every list | `WavHeader` |
| `WavFileProofs` | the theorems on the writer, on the reader, and on both on one file | `WavFile`, `WavHeaderProofs` |
| `ToneLinkProofs` | the theorems on the analyser, on the generator, and on the loopback up to the verdict | `ToneLink` |
| `MC*` | the instances TLC checks | the module of that name |

How they correspond to the code:

* **`AudioPipeline`.** A step is one access to what the threads share. Each API call
  is `Call...`, which does the checks on entry, followed by steps at the places
  `cpc` names: `"open"` and `"close"` are the iterations of `pipeline_open_nodes()`
  and `pipeline_close_chain()`; `"read"` and `"swap"` are `pipeline_transition()`
  (load, then compare-and-swap, back to `"read"` when lost); `"arm"`, `"spawn"` are
  `start()` around `k_thread_create()`; `"quit"`, `"wake"`, `"wait"` are `join()`
  up to `k_thread_join()`; `"callback"`, `"put"` are
  `audio_pipeline_publish_event()`. The worker loop is `wpc` in the same way.
  A call that the code refuses without a change is not a step. A frame is one
  step that ends in data, end of stream or error; `FrameEnds` chooses. Each call's
  return also resets the model's copies of its locals, which are dead by then.
* **`BuiltinResources`.** `Claim` is the critical section of
  `pipeline_claim_defaults()` together with the stores of the default pointers
  behind it, `Release` is `pipeline_release_defaults()`. `msgq` is the `k_msgq`
  control block (read index, write index, count), `slots` is the ring it points
  into, shared by the instances on the built-in ring; a slot remembers whose event
  it holds. What happens between `start()` and `join()` is reduced to `Publish`.
* **`NodeChain`.** `Init` chooses every wiring of the nodes; `depth` is the counter
  against `AUDIO_PIPELINE_MAX_CHAIN_DEPTH`; `acyclic` is a history variable that
  the properties use. A pull is the C call stack: `pullers` holds the nodes whose
  `audio_node_pull()` has not returned. A node may fail before it pulls, or turn a
  frame or the end of the stream into an error of its own, as the file writer and the
  I2S output do; `audio_eof_safe_errno()` is applied where the code applies it.
* **`FileWriter`.** Each filesystem call is a step with a failing twin; a write
  may also store a part. The unit of payload is what one `fs_write()` of
  `process()` carries; the narrowing of samples is left out. `data_bytes` counts in the
  width of the header's size fields.
* **`WavHeader`.** A file is the list of chunks that a walk by the declared sizes meets,
  and its length. Sizes are numbers, so that padding, the scan limit, truncation at any
  byte and sizes at the end of their type are what they are in the code; ids and the
  fields of a "fmt " body are kinds. `Walk` is the loop, round by round, as a recursive
  function; `Expected` states the result without a walk, as a choice among sets of chunks.
* **`FileReader`.** One call is one step: the node's single-threaded calls
  meet nobody in between. `ReadFrame` is `process()` for the buffer capacity it is
  given.
* **`WavFile`.** Writer and reader take turns on one file, as two pipelines of an
  application would. `Recorded` says which file the reader finds: the header as the
  writer's last write left it, the payload as stored, and the bytes that were stored in
  part. `PowerFails` loses the writer's state and keeps the file.
* **`I2sOut`, `I2sIn`.** The steps are the driver and slab calls. `Transfer` and
  `Receive` are the wire. The driver is external: its states are those of the
  Zephyr I2S API as the nodes' comments and the suite's `fake_i2s.c` describe them.
  `faulty`, chosen in `Init` and never changed, says whether the driver may also
  fail for other reasons than an xrun, and `depth` how many blocks it queues. A DROP may
  fail too: `Drop` and `Release` then leave the driver as it is, running if it was, and
  clear `configured` all the same, as the code does; `i2s_in_release()` frees the node's
  own block either way. `stranded` is a history variable for that: it is 1 until a DROP, a
  PREPARE or an `open()` has emptied the driver again.
* **`ToneGen`, `ToneAnalyzer`.** Phases are integers modulo `Turn` (2^32 in the code);
  the table of a quarter turn, its mirroring, the phase step and its rounding, the
  duration in interleaved samples and the windows are the code's. `PointSize` units of
  phase (2^22) make a point of the table: the generator discards the rest of a phase for
  the sample and keeps it in the accumulator; the analyser interpolates by it, once per
  open, which does not arise for the tones that are expected here, whose steps lie on
  points. Coefficients are integers, and the shifts that normalise
  large operands before a product never shift. `process()` is one step per sample;
  publishing takes the spinlock and then two steps, so that a reader without it could
  come in between. `AnaNext` is the analyser behind an arbitrary upstream.
* **`ToneLink`.** The link carries whole sample sets, right, with the channels swapped,
  with one cut, or with clicks in place of one; `Cuts` breaks them into frames that end
  inside a sample set. The link works set by set (`Delivered`), and its clicks repeat with
  a turn of sets (`LinkAssumption`), modulo which an endless stream is counted. `truth` is a
  history variable that records, when the analyser opens, the verdicts that are right for
  what is there. `Heard`, `WindowSums` and `VerdictOn` say what a verdict ought to be, from
  the stream alone: no frame, no place and no run occurs in them.

## 3. What the runs check

| Run | Question and result | Bounds |
| --- | --- | --- |
| `AudioPipelineCore` | Do state, chain, worker and semaphore stay in step in every interleaving; is the atomic lifecycle implemented; do `join()`, `play()` and the events get there? Yes. | 3 nodes, 2 formats, 2 event slots |
| `AudioPipelineEagerStart` | Is a node never closed twice if the application restarts as soon as it *sees* `CLOSED`? **No** (finding 1). | 3 nodes, 1 format |
| `BuiltinQueue` | Does a current queue hold its own events only, and is a binding lost to another's claim only? Yes. | 2 instances on one ring, 2 slots, 4 handovers |
| `BuiltinOwnership` | With one control thread per instance: are claims whole, does a running instance hold everything? Yes. | 3 instances needing {stack, frame, slots}, {slots}, {stack, frame}; 2 handovers |
| `BuiltinReadRace` | The same reads, overlapping claims: does `get_event()` read its own events only? **No** (finding 2). | 2 instances, 1 slot |
| `BuiltinJoined` | Does a joined instance own nothing until its next successful `start()`? **No** (finding 3). | 3 instances |
| `ChainWalks` | Over every wiring of 4 nodes and every failing node: does success mean all open, failure all closed; does a frame meet open nodes only, each once; is the end of the stream told exactly when there was one; does every walk and every frame end? Yes. | 4 nodes, depth 3 |
| `ChainCyclic` | Is the rollback complete over a cycle too? **No** (finding 4). | the same |
| `WavFiles` | Can any sequence of failing calls and losses of power make a header overstate, a success lie or payload be overwritten; does the reader play exactly the payload of every file; does a recording that was reported complete play back; does the parser find what the chunk list says? No; yes; yes; yes. | 5 chunks fit the size field, frames of up to 3; foreign files of up to 3 of 17 kinds of chunk, 7 lengths |
| `I2sOutCore` | Are blocks conserved, underruns absorbed, waits bounded by the wire? Yes, up to what a failed DROP leaves with the driver. | 4 blocks, driver queues of 3 and of 5, frames of up to 8 blocks |
| `I2sInCore` | Are blocks conserved, overruns absorbed, does every call return? Yes, with the same exception for the blocks. | 5 blocks, driver queue 5, 5 sets per block in frames of 2 |
| `ToneLink` | Is every sample the one its tone has at that time; does a verdict name what is on the link in this run; do the sums fit; is a result read whole; does one come? Yes. | 2 channels, turns of 24 phases and 12 table points, windows of 12 sample sets, 12 set-ups of generator and link |

**Why the bounds are enough.** A chain of three has a sink, a source and a node that
is neither, so a walk can be met before, in and behind its middle; two formats tell
"the bound one" from "another"; two event slots reach empty, partly full and full.
`NodeChain` takes a depth below the number of nodes, so that chains one below, at
and above the limit, and cycles entered from a tail, all occur. The epoch bound
(`MaxEpoch`) allows an instance to lose the slots and get them back twice. The
built-in instances realise each pairing: disjoint, overlapping, equal needs.
`FileWriter`'s size field of five chunks is crossed by a frame of three from
below; the foreign files have missing, odd, repeated and oversized chunks in every
order, are cut off inside every part of a header and behind it, and are longer and
shorter than the scan limit. Frame buffers are too small for a sample set, an odd
number of samples, and larger than what is left.
`I2sOut`'s frames are longer than the slab, so that a frame must wait for its own blocks: with the driver that queues 3 blocks it waits in `i2s_write()`, with the one
that queues 5 the slab's 4 are all queued and it waits in `k_mem_slab_alloc()`.
`I2sIn`'s blocks do not divide into frames, so that a remainder occurs; its driver runs
out of room in the queue or, while the node drains a block, out of blocks in the slab.
`ToneLink`'s tones have periods of 4 and 6 samples, which divide the window, so that
small numbers are exact; one more tone has phases between the points of the table, in a
run that is over before the analyser judges it; the frames of both ends divide neither the window nor each
other nor, at 3 and 5 samples, a sample set; one generator's duration ends inside a
window, one is not a whole number of sample sets and is refused.
`Nodes` and `Pipelines` carry no symmetry set: the state spaces are small.

**Deadlock** is checked except in the `Builtin*` runs, which stop when `MaxEpoch` is
used up with every instance waiting to claim, and in `I2sOutCore`, where the system may
really stop: after DROPs that failed every block may sit in a direction that is not
running, and the node waits for one for ever (section 5). `ProcessReturns` says that this
is the only case.

**Fairness.** `AudioPipeline`: weak fairness of the control thread inside a call and
of the worker. Both are threads the kernel schedules, a node returns, and neither
step is taken away but by `AwaitExit` and `WorkerTake`, whose conditions stay true
once they are. Nothing obliges the application to call, or a reader to read. The
swap loops are lock free, not wait free, so `FrameEndIsTold` is stated for
applications whose calls come to an end; `JoinReturns` needs no such condition,
because no call runs beside `join()`. `NodeChain`: nodes return. `I2sOut`, `I2sIn`:
the worker is scheduled and the master clocks the wire; without a clock the
nodes wait for ever, which the code documents as the price of having no timeout. A write
or read that waits (`Waits`) is not forced to go on: a `faulty` driver *may* end it with
an error, but no fairness makes it, so that a wait ends by the wire or not at all.
`ToneLink`: both workers run and a thread in the middle of a copy goes on; the
analyser is given strong fairness, because it spins on a lock that others take and
give back for ever. `WavFiles` has no liveness property.

**Environment.** Assumed of the application, in the words of the repository's docs:

* One thread makes an instance's calls (`wiki/03`, section 7): there is one `cpc`.
* `RestartsAfterError = TRUE`: after a node error the application waits for the
  ERROR event before `set_format()` or `start()` (the recovery recipe of
  `wiki/05`). `FALSE` drops the discipline, and finding 1 is what is left.
* `OneControlThread`, `ReadsOverlapClaims` in `BuiltinResources`: whether
  calls of *different* instances overlap, and whether reads overlap claims.
* In `ToneLink`: the link and the far end change between two runs of the analyser, not
  within one. A window that straddles such a change may come to any verdict.
* In the node modules: after a failed `process()` the next call is `close()`,
  which is what the core does. After the end of a stream the nodes stay open and are
  pulled again by the next `play()`; every source here that ends goes on answering with
  the end until it is reopened, so in `ToneLink` the analyser then meets the end again.
  `AnaNext`, which the theorems are about, lets the upstream go on with samples.
* In the file modules storage keeps what a write returned as written: a loss of power
  loses what the node remembers and no data. What a filesystem does with writes it has
  not synced is not modelled, so the crash properties say something for write-through
  storage only.
* An I2S driver whose DROP failed keeps its state and its blocks. `i2s_configure()` may
  then refuse, or accept and leave the direction ready, with its queue kept or emptied:
  the API asks for the states it may be called in, and the suite's `fake_i2s.c` takes a
  configuration in any.

### Findings

1. `start()` accepts `CLOSED` while the worker is still closing nodes; the comment
   that the winner of the swap is the only one to close
   (`audio_pipeline_core.c:422-424`) does not hold then. Waiting for the event is safe.
2. `get_event()` asks "is the queue current" and reads after the lock is
   dropped; a claim in between redirects the read (`audio_pipeline_events.h:74-78`).
3. `start()` that fails in a node's `open()` keeps the built-ins (`wiki/05:140-141`).
4. Over a cycle the rollback stops where it meets the node that the opening walk had
   reached, and leaves nodes open (`audio_pipeline_core.c:439`, `wiki/09:18`).

## 4. What is proved

**The core**, for every chain length, depth bound, set of formats and number of
event slots, from the named assumptions of `AudioPipeline` only (`ChainAssumption`: the chain is not
longer than the bound; `FormatAssumption`; `QueueAssumption`; `RestartAssumption`):

| Theorem | States |
| --- | --- |
| `TypeCorrect` | `Spec => []TypeOK` |
| `NoEventIsOverwritten` | `Spec => OldestEventsStay`: a queued event leaves at the head, when it is read, or with an `init()` that runs alone |
| `WorkerSafety` | `Spec => []WorkerMatchesState` |
| `WakeSafety` | `Spec => []NoLostWakeup` |
| `ChainFollowsState`, `CallsAlternate`, `FormatStays`, `ErrorIsToldLast` | under `RestartsAfterError`: `[]ChainMatchesState`, `[]NodeCallsBalanced`, `[]OneFormat`, `[]ErrorMeansQuiesced` |
| `Refinement` | under `RestartsAfterError`: `Spec` implements `PipelineContract` |

**The argument.** No property is inductive alone. `NoLostWakeup` depends on which
thread may set `quit`, that on where `join()` is, that on the state it was entered
with. `IInv` therefore records, for each place of each thread, what the other one
cannot do there:

* `ThreadInv` needs nothing of the application. `Starting`: while `start()` is under
  way the state stays what it read, since no worker is left or the worker of a
  `CLOSED` instance moves no state. `Joining`: `join()` has a worker to wait for, and
  from its return on has the instance alone. `WorkerPhase`: the worker reacts to a
  frame under an open chain only. `WakePhase`: an idle worker has a count in the
  semaphore, or nothing to do, or a giver on its way.
* `ChainInv` needs `RestartsAfterError`. `Walks` says which nodes are open at each
  point of each walk (a prefix for the opening, the rest for the closing ones);
  `TearDown` keeps `start()` away from the worker's walk; `OneFormat`.

`ThreadStep` and `ChainStep` have one step per action. `Refinement` takes `IInv` in
both states of a step and maps it to one action of the contract, or to a stutter;
the mapping reads the phase of the chain off the nodes and the walker's place.

**The nodes**, for every value of their constants and with every failure of the
filesystem or driver that the models allow:

| Theorem | States |
| --- | --- |
| `NodeChainProofs`: `SuccessIsComplete`, `FailureLeavesNothing`, `CallsAlternate`, `EndIsToldApart`, `PullsAreSafe` | `SuccessOpensChain`, `FailedOpenLeavesNothing`, `NoNodeMisused`, `EofIsNoError`, `PullMeetsOpenNodes` always hold, for any number of nodes, any wiring and any bound |
| `WavFileProofs`: `CrashSafe`, `SuccessIsExact`, `OnlyAppends`, `NoHandleStranded` | `HeaderNeverOverstates`, `ReportedFileIsExact`, `PayloadIsAppended`, `HandleReleased` always hold |
| `WavFileProofs`: `RecordingsSurvivePower`, `TracksPlayToTheEnd` | the first three of these hold under `VolumeSpec`, losses of power included; `PlaysWholeTrack` always holds |
| `WavHeaderProofs`: `ParserIsRight`, `HeaderReadsBack` | `ReadHeader(file) = Expected(file)` for every list of chunks and length; what `HeaderChunks` makes is read back, for every size up to `MaxDataSize` |
| `WavFileProofs`: `ForeignFilesParsed`, `ReportedIsHeard` | `ParserFindsHeader`, `RecordingPlaysBack` always hold |
| `I2sOutProofs`: `NoBlockLost`, `WaitsEnd`, `UnderrunsAreRepaired` | `BlocksConserved`, `WaitsForTheWire`, `UnderrunIsAbsorbed` always hold, with a driver that may fail any call, DROP included |
| `I2sInProofs`: `NoBlockLost`, `NoFalseEnd`, `OverrunsAreRepaired` | `BlocksConserved`, `NeverEmptyFrame`, `OverrunIsAbsorbed` always hold |
| `ToneLinkProofs`: `SumsNeverOverflow`, `ReadersGetWholeResults` | under `AnaSpec`, the analyser behind any upstream: `SumsFit` always holds, for any samples; `ResultIsWhole` is never violated |
| `ToneLinkProofs`: `LinkImplementsAnalyzer` | `LinkSpec` implements `AnaSpec`, so both hold in the loopback |
| `ToneLinkProofs`: `PhaseNeverDrifts`, `StreamIsOnTime` | every sample of every frame is the one the table has for its channel at its time; where `TableIsExact`, `StreamKeepsTime` always holds |
| `ToneLinkProofs`: `VerdictIsOnOneWindow` | under `LinkSpec`, a verdict is `VerdictOn` a window of consecutive sample sets of one stream, and `truth` belongs to that stream |
| `ToneLinkProofs`: `VerdictIsRight` | where `SignalsAreTold`, `VerdictTellsLink` always holds |
| `ToneLinkProofs`: `RootIsFloor`, `SilenceIsExact` | `Root(value)` is the integer part of the square root, for every value the bits reach; a channel is silent exactly when its mean square is below the square of the threshold |

**The built-ins**, for any set of instances, any of the resources that each brings
itself, any number of slots and handovers, and frames of any size:

| Theorem (`BuiltinResourcesProofs`) | States |
| --- | --- |
| `RunnersHoldAll`, `NoPartialClaim`, `BindingEndsByClaim` | `[]RunningHoldsAll`, `[]ClaimsAreWhole`, `BindingLostToClaim`, each instance with a thread of its own |
| `QueuesKeepApart` | under `OneControlThread`: `[]QueueIsOwn` |
| `ReadersKeepApart` | under `OneControlThread` and without `ReadsOverlapClaims`: `[]ReadsOwnEvents` |
| `FramesFit` | `[]CapacityFits`: however often `init()` clamps, the capacity is within the buffer |
| `CapacityOnlyShrinks` | no step gives an initialised instance more capacity than it has |

`OwnershipInv` says who holds what at each place of a call (`OwnerInv`) and ties the
epoch to the owner of the slots (`EpochInv`): two instances can both have been given
them in the current epoch only if it is the first. `QueueInv` then follows each
control block through the ring it shares: one that is current and was bound in this
epoch has read index, write index and count in step (`Ring`) and its own events in
between (`OwnEvents`); one that is not current will be re-initialised before it is
used. The lemmas on the ring (`RingPut`, `RingGet`) are about any ring and any length.

In the node modules each module has one inductive invariant in named parts. The file writer's ties the node's
count to the file (`CountsMatchFile`), the header to the count or to the stale mark
(`HeaderMatchesFile`), and the position to the end between finalises
(`PositionedAtEnd`). The I2S nodes' say at which places the node holds a block
(`BlockInHand`) and how the node's `started` relates to the driver's direction
(`StartedMatchesDriver`): a count of blocks alone would not tell whether the driver
takes the next one. The last part (`OnlyUnderruns`, `OnlyOverruns`) follows a
recovery: the queue is empty and the slab has room when the second try comes. What a
failed DROP leaves weakens the invariant where `stranded` says so: the driver of a closed
node may still hold blocks and run, and a direction that was not started may have a queue.
The count of blocks needs no exception, and the node itself never holds one when closed.

The reader's (`ReaderInv`) says that before the end of the data what was read was handed
out in whole sample sets, and from then on that nothing playable is left; `FrameHolds`
does the arithmetic once. `ReportedIsHeard` needs two more: `HistoryInv` relates what was
last reported to the header on the volume, whether or not the power failed since, and
`PlayInv` says that a recording is played by a header whose payload is there.

**The walks.** A walk knows the node it is at and a count. The invariant of
`NodeChainProofs` gives the nodes behind it their positions on a `Line`: each links to
the next, none is met twice. As long as a walk meets a new node it is on a line of as
many nodes as it counted; once it met one again it is in a `Trap`, a set of nodes whose
links never leave it, and cannot come to the end of the links, which is why only the
bound ends it. In a wiring without a cycle a rank that falls along the links keeps it
out of a trap. `LineCovers` shows that a line to the end is the whole `Chain`, and
`LineLength` that it has no more nodes than the count. A frame's pulls are the first
positions of the line that is open, which is why none can meet a closed node or itself.

**The parser.** `RoundHolds` relates the walk after m rounds to the first m chunks of the
list: which heads it has met, the latest "fmt " and "data" among them, whether one of them
ended it. `Expected` does not walk, and meets the walk at its end (`ReadToHere`). The
induction over the list is by the smallest counterexample (`Smallest`, `Induction`), a
statement about a set of numbers; the library's induction theorems have an operator as a
parameter, which no backend can instantiate.

**The generator and the analyser.** `GenInv` says that each phase is the number of
sample sets so far times the step, modulo a turn, so that a frame goes on where the last
one ended, whatever their sizes (`GenerateHolds`, from the lemmas `Residue`, `WholeTurns`,
`Multiples`, `TurnsOfSteps`, `SumOfSteps` on division). `PhaseNeverDrifts` follows for any table. The ideal
stream of `StreamKeepsTime` adds that nothing is rounded: `TableIsExact` says so of the
constants, and TLC evaluates it for the run's. It is a hypothesis of `StreamIsOnTime`
because the code's table and steps are rounded, by design. The analyser's (`SumsInv`)
bounds each sum by the number of
samples the window holds for that channel, and the place in the window by its length,
so that the build assertion closes the argument; `ResultInv` says that head and
channels belong together whenever the lock is not the node's, and that what a reader
has copied of the head is still the head. `LinkImplementsAnalyzer`
takes the loopback's steps one by one to a step of the analyser or a stutter; what it has
to show of the link is that a frame arrives as samples of whole sets in each of its
wirings (`ReceivedAreSamples`).

**The verdict.** `VerdictTellsLink` has a part about control and a part about signals. The
first is that the sums a verdict is made of are those of one window: as many consecutive
sample sets as it has, each sample in its own channel's sum, once, none of another run. It
is hard because the frames of the generator, the frames that arrive and the windows all
end in different places. `TrackInv` follows it by one number, `first`, the sample set that
the window began with (`InWindow`): every channel's sums are `WindowSums` after as many
sets as that channel holds; the samples that are taken or on the wire and not measured
are the stream's from `Here(first)` on; and the generator goes on where those end, at
`Ahead(first)`, up to whole turns. A sample that is measured moves `Here` on by one, a frame
that arrives moves `Ahead`, a cut moves neither, and a published window moves `first` on by
a window. While an attempt to open is under way there is nothing in the sums; when it
succeeds, `first` is what the generator sends next. `ToldInv` adds that the verdict found
under the lock is on such a window, of what was there when the analyser was last opened,
unless it is still to be cleared.

The second part is a fact about the signals of the constants: that at every offset
the thresholds tell tones, silence and clicks apart. For other constants it is false, and a
general condition for it is analysis that the provers have no theory for. It is
the hypothesis `SignalsAreTold`, with no state in it, and TLC evaluates it for the run's
constants (`ToldAssumption`). It speaks of the offsets within one turn only; `HeardRepeats` and
`VerdictRepeats` carry it to every window of a stream without an end.

Each round of the square root finds one binary digit: after the rounds down to `bit`
there is a `t` with `value = rem + bit * t^2` and `rem < bit * (2 * t + 1)` (`RootHolds`,
`RootDigit`, by `Induction` over the rounds). `SilenceIsExact` is why the code may compare the
truncated root with the threshold. `RootAssumption` asks that the bits fall by
factors of 4 to 1 and reach the square of a sample; the code's do, from 2^62 down.

**What the proofs changed in the models.** `ReadChunk` was a CASE with guards that overlap,
of which TLA+ takes any; it is the code's chain of tests now. The clicking link
delivered a sample that its container does not hold. One set-up's
duration did not fit its 32 bit field. Phases finer than the table's points did not occur
in the run, so that what `tone_gen_sine_q15()` discards was never there to keep; one of
the generators has them now. Nothing tied the distance of clicks to the turn that
the sample sets of an endless stream are counted by; `LinkAssumption` does.

**Only model-checked**: liveness (`JoinReturns`, `PlayReachesFrame`, `FrameEndIsTold`,
`WalksEnd`, both `ProcessReturns`, `VerdictComes`), which is out of the prover's
reach. Every invariant and every action property of the passing runs has a theorem.

## 5. What is not modelled

* `audio_pipeline_process_frame()` driven by the application instead of `play()`
  (`wiki/05`, "Drive frames yourself"): one thread then does everything, and the
  documentation forbids it beside a playing worker. The frame itself is `NodeChain`'s.
* API calls from inside the event callback: on the worker's thread they would break
  the confinement to one control thread that `wiki/03` asks for.
* A reader that *waits* in `get_event()`. Re-initialising a `k_msgq` drops its
  waiters; the model's reader takes what is there or nothing.
* `join()` behind a node that waits for a clock that has stopped: fairness assumes
  the node returns.
* The wrap of the 32 bit epoch; `MaxEpoch` is far below it.
* Conversion of sample values: the widening and narrowing in the file nodes, the gain's
  multiplication, the I2S wire format (`audio_i2s_wire.c`). They are loops without state,
  branches or failures, which the unit tests compare bit by bit.
* The analyser's fixed point: fraction bits of the coefficients, interpolation of the
  sine, and the shifts before large products. The bound on its resonator states rests
  on an inequality about the sine, which is in a comment of the code.
* `audio_pipeline_config.c`: a stateless range test, whose results are `FrameSizes`.
* Wording of logs, kernel objects' own errors, the checks for null arguments.
* What DROP failing leads to is modelled, and the comment at the place
  (`i2s_out_node.c:84-87`, `i2s_in_node.c:122-125`) promises more than the model shows: "a
  failing DROP must not strand the node half open, or close() could never recover and the
  next open() would inherit it". The node is not left half open, but since `configured` is
  false no later release drops again, so the next `open()` does inherit the driver's queue,
  and its blocks are missing from the slab. Once failed DROPs have left the whole slab in a
  direction that is not running, `process()` waits for a block that nobody gives back.
* That a worker finds no spare count in its wake semaphore, which would make it look at the
  state once more than needed, is no property: the loop tolerates it.
* One case is modelled and left as it is: a window whose only energy is in its first or
  last sample is judged "wrong" instead of "noise", because the fit of a sinusoid needs
  both neighbours of a sample. `VerdictTellsLink` allows both.
* `init()` takes the minimum of the configured frame and its own *earlier result*, so the
  capacity of an instance only shrinks, where `wiki/05:70` has "`MIN(allocated,
  config->frame_samples)`". `FramesFit` proves the safe half of the sentence,
  `CapacityOnlyShrinks` what the code does instead; no run shows the difference.

## 6. Plan

What is left, in this order:

1. **A waiting reader** in `get_event()` beside a re-initialisation of its queue, as a
   part of `BuiltinResources`.
2. **Wider numbers in the analyser**: fraction bits in the coefficients, so that the
   normalising shifts occur.
3. **`WireFormat`**: conversion and its inverse for each width, as pure operators.

Composition: `AudioPipeline` stays the only module that has the threads; the node
modules are checked against the calls it makes (`open`, then `process` until one
fails, then `close`). Where two runs can share an instance without losing a case
they are merged before another is added.
