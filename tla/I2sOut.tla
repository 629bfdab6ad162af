------------------------------- MODULE I2sOut -------------------------------
(***************************************************************************)
(* The I2S output sink, the transmit direction of the driver it feeds, and *)
(* the slab both take transfer blocks from.  The node runs on the worker   *)
(* thread, the wire beside it: a block can finish, and the queue run dry,  *)
(* between any two calls the node makes.                                   *)
(*                                                                         *)
(* The driver is external; it is what the node's comments say of the       *)
(* Zephyr I2S API and what the node relies on.  The pipeline's protocol is *)
(* assumed: after a failed process() the next call is close().             *)
(***************************************************************************)
EXTENDS Integers

CONSTANTS
  NumBlocks,    \* transfer blocks in the slab
  QueueSizes,   \* numbers of blocks a driver may queue before i2s_write() waits
  MaxChunks     \* bound: blocks that one frame is sent in

ASSUME BlockAssumption ==
  /\ NumBlocks \in Nat \ {0} /\ MaxChunks \in Nat \ {0}
  /\ QueueSizes \subseteq Nat \ {0}

VARIABLES
  configured,  \* node: 1 from open() to close()
  started,     \* node: 1 once it has triggered START
  pc,          \* where process() is, "idle" outside
  left,        \* chunks of the frame still to be sent
  held,        \* 1 while the node holds a block
  result,      \* of the last process(): "ok", "pull" or "error"
  dir,         \* driver: state of the transmit direction
  queued,      \* driver: blocks it owns
  free,        \* slab: blocks nobody holds
  stranded,    \* history: 1 while the driver may have kept blocks that a
               \*   failed DROP left with it
  faulty,      \* 1 if the driver may fail for other reasons than an underrun
  depth        \* how many blocks this driver queues

node   == <<configured, started, pc, left, held, result>>
driver == <<dir, queued, free, stranded>>
make   == <<faulty, depth>>
vars   == <<node, driver, make>>

Init ==
  /\ configured = 0 /\ started = 0 /\ pc = "idle" /\ left = 0 /\ held = 0
  /\ result = "ok"
  /\ dir = "NOT_READY" /\ queued = 0 /\ free = NumBlocks /\ stranded = 0
  /\ faulty \in {0, 1} /\ depth \in QueueSizes

-----------------------------------------------------------------------------
(* open() and close(). *)

\* The driver gives back all it has queued.
Emptied == queued' = 0 /\ free' = free + queued /\ stranded' = 0

\* A driver whose DROP failed, now or at an earlier release.
KeepsBlocks == IF configured = 1 THEN faulty = 1 ELSE stranded = 1

\* Mutant of Drop: a direction that was never started is not dropped.
MutDrop ==
  IF configured = 1 /\ started = 1
    THEN dir' = "READY" /\ Emptied
    ELSE UNCHANGED driver

\* i2s_out_release(): DROP stops a configured direction and frees its queue.
\* If it fails the driver stays as it is, with its blocks, and as the node is
\* no longer configured no later release tries again.
Drop ==
  \/ configured = 1 /\ dir' = "READY" /\ Emptied
  \/ configured = 1 /\ faulty = 1 /\ stranded' = 1 /\ UNCHANGED <<dir, queued, free>>
  \/ configured = 0 /\ UNCHANGED driver

\* open() refuses the format or the driver the configuration: a stream left
\* by an open() without close() is released all the same.
OpenRefused ==
  /\ pc = "idle" /\ Drop
  /\ configured' = 0 /\ started' = 0 /\ result' = "ok"
  /\ UNCHANGED <<pc, left, held>>

\* The result of the release is ignored: a driver that kept blocks and takes
\* the configuration may keep them queued.
Open ==
  /\ pc = "idle" /\ dir' = "READY"
  /\ \/ Emptied
     \/ KeepsBlocks /\ stranded' = 1 /\ UNCHANGED <<queued, free>>
  /\ configured' = 1 /\ started' = 0 /\ result' = "ok"
  /\ UNCHANGED <<pc, left, held>>

Close ==
  /\ pc = "idle" /\ configured = 1 /\ Drop
  /\ configured' = 0 /\ started' = 0
  /\ UNCHANGED <<pc, left, held, result>>

-----------------------------------------------------------------------------
(* process(). *)

\* The frame is pulled and does not fill whole sample sets, or upstream failed.
PullFails ==
  /\ pc = "idle" /\ configured = 1 /\ result = "ok" /\ result' = "pull"
  /\ UNCHANGED <<configured, started, pc, left, held, driver>>

\* A frame to send; an empty one ends the stream and changes nothing.
PullFrame ==
  /\ pc = "idle" /\ configured = 1 /\ result = "ok"
  /\ left' \in 1..MaxChunks
  /\ pc' = "alloc"
  /\ UNCHANGED <<configured, started, held, result, driver>>

\* k_mem_slab_alloc() waits as long as it takes.
Alloc ==
  /\ pc = "alloc" /\ free > 0
  /\ free' = free - 1 /\ held' = 1 /\ pc' = "write"
  /\ UNCHANGED <<configured, started, left, result, dir, queued, stranded>>

Refuses == dir \notin {"READY", "RUNNING"} \/ faulty = 1

\* The block is the driver's from here on; a full queue makes the node wait.
Write ==
  /\ pc \in {"write", "rewrite"}
  /\ dir \in {"READY", "RUNNING"} /\ queued < depth
  /\ queued' = queued + 1 /\ held' = 0 /\ pc' = "start"
  /\ UNCHANGED <<configured, started, left, result, dir, free, stranded>>

\* Mutant of WriteFails: no second try.
MutWriteFails ==
  /\ pc = "write" /\ Refuses
  /\ pc' = "idle" /\ left' = 0 /\ result' = "error"
  /\ held' = 0 /\ free' = free + 1
  /\ UNCHANGED <<configured, started, dir, queued, stranded>>

\* A failed write may be an underrun.
WriteFails ==
  /\ pc = "write" /\ Refuses /\ pc' = "recover"
  /\ UNCHANGED <<configured, started, left, held, result, driver>>

\* Mutant of Recover: the direction is taken for running.
MutRecover ==
  /\ pc = "recover" /\ dir = "ERROR"
  /\ dir' = "READY" /\ Emptied
  /\ pc' = "rewrite"
  /\ UNCHANGED <<configured, started, left, held, result>>

\* PREPARE, legal in ERROR only, empties the queue and leaves it stopped.
Recover ==
  /\ pc = "recover" /\ dir = "ERROR"
  /\ dir' = "READY" /\ Emptied
  /\ started' = 0 /\ pc' = "rewrite"
  /\ UNCHANGED <<configured, left, held, result>>

Fail == pc' = "idle" /\ left' = 0 /\ result' = "error"

\* Mutant of GiveUp: the block is taken for the driver's.
MutGiveUp ==
  /\ \/ pc = "recover" /\ (dir # "ERROR" \/ faulty = 1)
     \/ pc = "rewrite" /\ Refuses
  /\ Fail /\ held' = 0
  /\ UNCHANGED <<configured, started, driver>>

\* It was none, or the second write fails too: the block goes back.
GiveUp ==
  /\ \/ pc = "recover" /\ (dir # "ERROR" \/ faulty = 1)
     \/ pc = "rewrite" /\ Refuses
  /\ Fail /\ held' = 0 /\ free' = free + 1
  /\ UNCHANGED <<configured, started, dir, queued, stranded>>

NextChunk ==
  /\ left' = left - 1
  /\ pc' = IF left = 1 THEN "idle" ELSE "alloc"
  /\ UNCHANGED result

Started ==
  /\ pc = "start" /\ started = 1 /\ NextChunk
  /\ UNCHANGED <<configured, started, held, driver>>

\* START, with the first block of the stream or of a recovered one in hand.
TriggerStart ==
  /\ pc = "start" /\ started = 0 /\ dir = "READY" /\ queued > 0
  /\ dir' = "RUNNING" /\ started' = 1 /\ NextChunk
  /\ UNCHANGED <<configured, held, queued, free, stranded>>

StartFails ==
  /\ pc = "start" /\ started = 0
  /\ dir # "READY" \/ queued = 0 \/ faulty = 1
  /\ Fail
  /\ UNCHANGED <<configured, started, held, driver>>

-----------------------------------------------------------------------------
\* The wire has played a block; without another one it has underrun.
Transfer ==
  /\ dir = "RUNNING" /\ queued > 0
  /\ queued' = queued - 1 /\ free' = free + 1
  /\ dir' = IF queued = 1 THEN "ERROR" ELSE "RUNNING"
  /\ UNCHANGED <<node, stranded>>

InProcess ==
  \/ Alloc \/ Write \/ WriteFails \/ Recover \/ GiveUp
  \/ Started \/ TriggerStart \/ StartFails

Next ==
  /\ \/ Open \/ OpenRefused \/ Close \/ PullFails \/ PullFrame
     \/ InProcess \/ Transfer
  /\ UNCHANGED make

Spec == Init /\ [][Next]_vars

\* i2s_write() waits: the direction takes blocks, but its queue is full.
Waits ==
  pc \in {"write", "rewrite"} /\ dir \in {"READY", "RUNNING"} /\ queued = depth

\* The worker is scheduled, though no write that waits is bound to fail, and
\* the master clocks the wire.
FairSpec == Spec /\ WF_vars(InProcess /\ ~Waits /\ UNCHANGED make)
                 /\ WF_vars(Transfer /\ UNCHANGED make)

-----------------------------------------------------------------------------
(* Properties. *)

\* Every variable has its type.
TypeOK ==
  /\ configured \in {0, 1} /\ started \in {0, 1} /\ held \in {0, 1}
  /\ pc \in {"idle", "alloc", "write", "recover", "rewrite", "start"}
  /\ left \in 0..MaxChunks /\ result \in {"ok", "pull", "error"}
  /\ dir \in {"NOT_READY", "READY", "RUNNING", "ERROR"}
  /\ queued \in 0..NumBlocks /\ free \in 0..NumBlocks
  /\ stranded \in {0, 1} /\ faulty \in {0, 1} /\ depth \in QueueSizes

\* No block is lost or freed twice, on any path through a failing write, a
\* recovery, a failing START or DROP, or an open() on top of one.  A closed sink
\* holds none, and all are back in the slab unless a DROP failed: then those the
\* driver kept are missing, until a later DROP, PREPARE or open() empties it.
BlocksConserved ==
  /\ free + queued + held = NumBlocks
  /\ configured = 0 => held = 0 /\ (stranded = 0 => free = NumBlocks)

\* Unless a failed DROP has left blocks behind, the node waits without a limit
\* only while the wire runs and will give a block back: for a free block, and
\* for room in the driver's queue.
WaitsForTheWire ==
  stranded = 0 =>
    /\ pc = "alloc" /\ free = 0 => dir = "RUNNING" /\ queued > 0
    /\ Waits => dir = "RUNNING"

\* A driver that does nothing but underrun never makes process() fail: the
\* frame that meets the underrun is sent by the second write.
UnderrunIsAbsorbed == faulty = 0 => result # "error"

\* process() comes back, however the wire and the node interleave, unless a
\* failed DROP has left blocks behind.
ProcessReturns == pc # "idle" ~> pc = "idle" \/ stranded = 1
=============================================================================
