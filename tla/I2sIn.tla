------------------------------- MODULE I2sIn --------------------------------
(***************************************************************************)
(* The I2S input source, the receive direction of the driver, and the slab *)
(* the driver fills blocks from.  The wire delivers whether or not the     *)
(* node reads, so a node that is late, stopped, or still draining a block  *)
(* finds the direction overrun.                                            *)
(*                                                                         *)
(* The driver is external; it is what the node's comments say of the       *)
(* Zephyr I2S API and what the suite's fake_i2s.c does.  After a failed    *)
(* process() the next call is close(), as in the pipeline.                 *)
(***************************************************************************)
EXTENDS Integers

CONSTANTS
  NumBlocks,    \* blocks in the slab
  QueueSize,    \* filled blocks the driver keeps before it overruns
  BlockSets,    \* sample sets one block carries
  FrameSets     \* sample sets one frame of the pipeline carries

ASSUME BlockAssumption ==
  NumBlocks \in Nat \ {0} /\ QueueSize \in Nat \ {0}
ASSUME SetAssumption ==
  BlockSets \in Nat \ {0} /\ FrameSets \in Nat \ {0}

VARIABLES
  configured,  \* node: 1 from open() to close()
  started,     \* node: 1 once it has triggered START
  pc,          \* where process() is, "idle" outside
  block,       \* 1 while the node owns a block
  avail,       \* sample sets of it not yet handed on
  out,         \* sample sets the last process() reported
  result,      \* of the last process(): "ok" or "error"
  dir,         \* driver: state of the receive direction
  filled,      \* driver: blocks waiting to be read
  free,        \* slab: blocks nobody holds
  stranded,    \* history: 1 while the driver may have kept blocks, or go on
               \*   filling them, because a DROP failed
  faulty       \* 1 if the driver may fail otherwise, and deliver short blocks

node   == <<configured, started, pc, block, avail, out, result>>
driver == <<dir, filled, free, stranded>>
vars   == <<node, driver, faulty>>

Init ==
  /\ configured = 0 /\ started = 0 /\ pc = "idle" /\ block = 0 /\ avail = 0
  /\ out = 0 /\ result = "ok"
  /\ dir = "NOT_READY" /\ filled = 0 /\ free = NumBlocks /\ stranded = 0
  /\ faulty \in {0, 1}

-----------------------------------------------------------------------------
(* open() and close(). *)

\* The driver gives back all it has filled.
Emptied == filled' = 0 /\ free' = free + filled + block /\ stranded' = 0

\* A driver whose DROP failed, now or at an earlier release.
KeepsBlocks == IF configured = 1 THEN faulty = 1 ELSE stranded = 1

\* The driver keeps what it has filled; the node's own block is freed.
Kept == filled' = filled /\ free' = free + block

\* Mutant of Release: the block it read counts as the driver's.
MutRelease ==
  /\ \/ configured = 1 /\ dir' = "READY" /\ filled' = 0 /\ free' = free + filled /\ stranded' = 0
     \/ configured = 1 /\ faulty = 1 /\ stranded' = 1 /\ UNCHANGED <<dir, filled, free>>
     \/ configured = 0 /\ UNCHANGED driver
  /\ block' = 0 /\ avail' = 0 /\ started' = 0

\* i2s_in_release(): DROP stops a configured direction and frees the driver's
\* blocks; if it fails the driver stays as it is, running if it was, and as the
\* node is no longer configured no later release tries again.  The node frees
\* its own block either way.
Release ==
  /\ \/ configured = 1 /\ dir' = "READY" /\ Emptied
     \/ configured = 1 /\ faulty = 1 /\ Kept /\ stranded' = 1 /\ UNCHANGED dir
     \/ configured = 0 /\ Kept /\ UNCHANGED <<dir, stranded>>
  /\ block' = 0 /\ avail' = 0 /\ started' = 0

OpenRefused ==
  /\ pc = "idle" /\ Release
  /\ configured' = 0 /\ result' = "ok"
  /\ UNCHANGED <<pc, out>>

\* The result of the release is ignored: a driver that kept blocks and takes
\* the configuration may hand them over to the new stream.
Open ==
  /\ pc = "idle" /\ dir' = "READY"
  /\ Emptied \/ (KeepsBlocks /\ Kept /\ stranded' = 1)
  /\ block' = 0 /\ avail' = 0 /\ started' = 0
  /\ configured' = 1 /\ result' = "ok"
  /\ UNCHANGED <<pc, out>>

Close ==
  /\ pc = "idle" /\ configured = 1 /\ Release
  /\ configured' = 0
  /\ UNCHANGED <<pc, out, result>>

-----------------------------------------------------------------------------
(* process(). *)

\* A block that still carries audio is drained before another one is read.
Process ==
  /\ pc = "idle" /\ configured = 1 /\ result = "ok"
  /\ pc' = IF block = 1 THEN "drain" ELSE IF started = 1 THEN "read" ELSE "start"
  /\ out' = 0
  /\ UNCHANGED <<configured, started, block, avail, result, driver>>

Fail == pc' = "idle" /\ result' = "error" /\ UNCHANGED out

\* START, on the first frame or after a recovery.
TriggerStart ==
  /\ pc \in {"start", "restart"} /\ dir = "READY"
  /\ dir' = "RUNNING" /\ started' = 1
  /\ pc' = IF pc = "start" THEN "read" ELSE "reread"
  /\ UNCHANGED <<configured, block, avail, out, result, filled, free, stranded>>

StartFails ==
  /\ pc \in {"start", "restart"} /\ (dir # "READY" \/ faulty = 1) /\ Fail
  /\ UNCHANGED <<configured, started, block, avail, driver>>

\* i2s_read() waits for a block while the direction runs, and after an overrun
\* hands over the ones that are still valid.  A full block carries BlockSets.
Read ==
  /\ pc \in {"read", "reread"} /\ filled > 0 /\ dir \in {"RUNNING", "ERROR"}
  /\ filled' = filled - 1 /\ block' = 1
  /\ avail' \in IF faulty = 1 THEN 0..BlockSets ELSE {BlockSets}
  /\ pc' = "drain"
  /\ UNCHANGED <<configured, started, out, result, dir, free, stranded>>

Refuses == (dir # "RUNNING" /\ filled = 0) \/ faulty = 1

\* Mutant of ReadFails: no second try.
MutReadFails ==
  /\ pc = "read" /\ Refuses /\ Fail
  /\ UNCHANGED <<configured, started, block, avail, driver>>

ReadFails ==
  /\ pc = "read" /\ Refuses /\ pc' = "recover"
  /\ UNCHANGED <<configured, started, block, avail, out, result, driver>>

\* PREPARE, legal in ERROR only; it discards the queue.
Recover ==
  /\ pc = "recover" /\ dir = "ERROR"
  /\ dir' = "READY" /\ filled' = 0 /\ free' = free + filled /\ stranded' = 0
  /\ started' = 0 /\ pc' = "restart"
  /\ UNCHANGED <<configured, block, avail, out, result>>

\* Mutant of GiveUp: recovers as often as it takes.
MutGiveUp ==
  /\ \/ /\ pc = "recover" /\ (dir # "ERROR" \/ faulty = 1)
        /\ Fail
     \/ /\ pc \in {"read", "reread"} /\ Refuses
        /\ pc' = "recover" /\ UNCHANGED <<result, out>>
  /\ UNCHANGED <<configured, started, block, avail, driver>>

\* It was no overrun, or the second read fails too, or claims a success and
\* hands over no block.
GiveUp ==
  /\ \/ pc = "recover" /\ (dir # "ERROR" \/ faulty = 1)
     \/ pc = "reread" /\ Refuses
     \/ pc = "read" /\ faulty = 1
  /\ Fail
  /\ UNCHANGED <<configured, started, block, avail, driver>>

Least(m, n) == IF m < n THEN m ELSE n

\* A frame's worth of the block, which goes back with its last sample set.
Drain ==
  LET n == Least(FrameSets, avail) IN
  /\ pc = "drain" /\ avail > 0
  /\ out' = n /\ pc' = "idle"
  /\ avail' = avail - n
  /\ block' = IF avail = n THEN 0 ELSE 1
  /\ free' = IF avail = n THEN free + 1 ELSE free
  /\ UNCHANGED <<configured, started, result, dir, filled, stranded>>

\* A block without a whole sample set goes back at once, as an error.
DrainNothing ==
  /\ pc = "drain" /\ avail = 0 /\ Fail
  /\ block' = 0 /\ free' = free + 1
  /\ UNCHANGED <<configured, started, avail, dir, filled, stranded>>

-----------------------------------------------------------------------------
\* The wire has filled a block, or finds no room for it and has overrun.
Receive ==
  /\ dir = "RUNNING"
  /\ IF free > 0 /\ filled < QueueSize
       THEN filled' = filled + 1 /\ free' = free - 1 /\ UNCHANGED dir
       ELSE dir' = "ERROR" /\ UNCHANGED <<filled, free>>
  /\ UNCHANGED <<node, stranded>>

InProcess ==
  \/ TriggerStart \/ StartFails \/ Read \/ ReadFails \/ Recover \/ GiveUp
  \/ Drain \/ DrainNothing

Next ==
  /\ \/ Open \/ OpenRefused \/ Close \/ Process \/ InProcess \/ Receive
  /\ UNCHANGED faulty

Spec == Init /\ [][Next]_vars

\* i2s_read() waits: the direction runs and has filled no block yet.
Waits == pc \in {"read", "reread"} /\ dir = "RUNNING" /\ filled = 0

\* The worker is scheduled, though no read that waits is bound to fail, and the
\* master clocks the wire.
FairSpec == Spec /\ WF_vars(InProcess /\ ~Waits /\ UNCHANGED faulty)
                 /\ WF_vars(Receive /\ UNCHANGED faulty)

-----------------------------------------------------------------------------
(* Properties. *)

\* Every variable has its type.
TypeOK ==
  /\ configured \in {0, 1} /\ started \in {0, 1} /\ block \in {0, 1}
  /\ pc \in {"idle", "start", "read", "recover", "restart", "reread", "drain"}
  /\ avail \in 0..BlockSets /\ out \in 0..FrameSets /\ result \in {"ok", "error"}
  /\ dir \in {"NOT_READY", "READY", "RUNNING", "ERROR"}
  /\ filled \in 0..NumBlocks /\ free \in 0..NumBlocks
  /\ stranded \in {0, 1} /\ faulty \in {0, 1}

\* No block is lost or given back twice: not by an overrun, nor by a read that
\* failed, a short block, a failing DROP, or a close in the middle of a block.
\* A closed source holds none, not even one it had read and not drained, and all
\* are back in the slab unless a DROP failed: then those the driver kept are
\* missing, until a later DROP, PREPARE or open() empties it.
BlocksConserved ==
  /\ free + filled + block = NumBlocks
  /\ configured = 0 => block = 0 /\ (stranded = 0 => free = NumBlocks)

\* A capture never looks finished: a call that succeeds reports samples, since
\* the node keeps a block only while there is audio in it.
NeverEmptyFrame ==
  /\ pc = "idle" /\ block = 1 => avail > 0
  /\ pc = "drain" => block = 1 /\ (faulty = 1 \/ avail > 0)

\* A driver that does nothing but overrun, while the pipeline is stopped or
\* late, never makes process() fail.
OverrunIsAbsorbed == faulty = 0 => result # "error"

\* process() comes back, however the wire and the node interleave.
ProcessReturns == pc # "idle" ~> pc = "idle"
=============================================================================
