---------------------------- MODULE I2sOutProofs ----------------------------
(***************************************************************************)
(* Safety of the I2S output sink, for a slab, a driver queue and frames of *)
(* any size, and for a driver that fails any call at will, DROP included.  *)
(***************************************************************************)
EXTENDS I2sOut, TLAPS

\* The node holds a block exactly between the allocation and the write.
BlockInHand == held = 1 <=> pc \in {"write", "recover", "rewrite"}

\* A frame is under way in an open stream that has not failed; a closed one has
\* left the driver nothing, unless a DROP failed.
FrameUnderWay ==
  /\ configured = 0 => pc = "idle"
  /\ configured = 0 /\ stranded = 0 => queued = 0 /\ dir \in {"NOT_READY", "READY"}
  /\ pc # "idle" => left > 0 /\ result = "ok"

\* The node has triggered START if the driver's queue is moving or has run dry;
\* before that it has queued nothing, but the block that START is due for and
\* what a failed DROP left.
StartedMatchesDriver ==
  /\ configured = 1 /\ started = 1 => dir \in {"RUNNING", "ERROR"}
  /\ configured = 1 /\ started = 0 => dir = "READY"
  /\ dir = "ERROR" => queued = 0
  /\ started = 0 /\ stranded = 0 /\ pc # "start" /\ result # "error" => queued = 0

\* A driver that only underruns drops what it is told to, refuses a write only
\* after an underrun, and never a second one, nor a START.
OnlyUnderruns ==
  faulty = 0 =>
    /\ stranded = 0 /\ result # "error"
    /\ pc = "recover" => dir = "ERROR"
    /\ pc = "rewrite" => dir = "READY"
    /\ pc = "start" /\ started = 0 => queued > 0

IInv == /\ TypeOK /\ BlocksConserved /\ BlockInHand
        /\ FrameUnderWay /\ StartedMatchesDriver /\ OnlyUnderruns

\* The slab starts full and the direction unconfigured.
LEMMA InitHolds == Init => IInv
  BY BlockAssumption
  DEF Init, IInv, TypeOK, BlocksConserved, BlockInHand, FrameUnderWay,
      StartedMatchesDriver, OnlyUnderruns

\* Each step of the node, and each of the wire, keeps the invariant.
LEMMA StepHolds == IInv /\ [Next]_vars => IInv'
<1> SUFFICES ASSUME IInv, [Next]_vars PROVE IInv'
  OBVIOUS
<1> USE BlockAssumption
    DEF IInv, TypeOK, BlocksConserved, BlockInHand, FrameUnderWay,
        StartedMatchesDriver, OnlyUnderruns, make
<1>1. CASE UNCHANGED vars
  BY <1>1 DEF vars, node, driver
<1>2. ASSUME Open, UNCHANGED make PROVE IInv'
  BY <1>2 DEF Open, Emptied, KeepsBlocks
<1>3. ASSUME OpenRefused, UNCHANGED make PROVE IInv'
  BY <1>3 DEF OpenRefused, Drop, Emptied, driver
<1>4. ASSUME Close, UNCHANGED make PROVE IInv'
  BY <1>4 DEF Close, Drop, Emptied, driver
<1>5. ASSUME PullFails, UNCHANGED make PROVE IInv'
  BY <1>5 DEF PullFails, driver
<1>6. ASSUME PullFrame, UNCHANGED make PROVE IInv'
  BY <1>6 DEF PullFrame, driver
<1>7. ASSUME Alloc, UNCHANGED make PROVE IInv'
  BY <1>7 DEF Alloc
<1>8. ASSUME Write, UNCHANGED make PROVE IInv'
  BY <1>8 DEF Write
<1>9. ASSUME WriteFails, UNCHANGED make PROVE IInv'
  BY <1>9 DEF WriteFails, Refuses, driver
<1>10. ASSUME Recover, UNCHANGED make PROVE IInv'
  BY <1>10 DEF Recover, Emptied
<1>11. ASSUME GiveUp, UNCHANGED make PROVE IInv'
  BY <1>11 DEF GiveUp, Refuses, Fail
<1>12. ASSUME Started, UNCHANGED make PROVE IInv'
  BY <1>12 DEF Started, NextChunk, driver
<1>13. ASSUME TriggerStart, UNCHANGED make PROVE IInv'
  BY <1>13 DEF TriggerStart, NextChunk
<1>14. ASSUME StartFails, UNCHANGED make PROVE IInv'
  BY <1>14 DEF StartFails, Fail, driver
<1>15. ASSUME Transfer, UNCHANGED make PROVE IInv'
  BY <1>15 DEF Transfer, node
<1> QED
  BY <1>1, <1>2, <1>3, <1>4, <1>5, <1>6, <1>7, <1>8, <1>9, <1>10, <1>11,
     <1>12, <1>13, <1>14, <1>15 DEF Next, InProcess

LEMMA Inductive == Spec => []IInv
  BY InitHolds, StepHolds, PTL DEF Spec

\* Every block is in the slab, the driver's queue or the node's hand, in one of
\* them only, through failing writes, recoveries, and STARTs and DROPs that
\* fail; a closed sink holds none, and those not in the slab are the ones that a
\* failed DROP left with the driver.
THEOREM NoBlockLost == Spec => []BlocksConserved
<1>1. IInv => BlocksConserved
  BY DEF IInv
<1> QED
  BY <1>1, Inductive, PTL

\* Where the node waits without a limit the wire runs and owes it a block, or a
\* DROP has failed.
THEOREM WaitsEnd == Spec => []WaitsForTheWire
<1>1. IInv => WaitsForTheWire
  BY BlockAssumption
  DEF IInv, TypeOK, BlocksConserved, BlockInHand, FrameUnderWay,
      StartedMatchesDriver, Waits, WaitsForTheWire
<1> QED
  BY <1>1, Inductive, PTL

\* Underruns alone, however they fall between the node's calls, never reach the
\* pipeline as an error.
THEOREM UnderrunsAreRepaired == Spec => []UnderrunIsAbsorbed
<1>1. IInv => UnderrunIsAbsorbed
  BY DEF IInv, OnlyUnderruns, UnderrunIsAbsorbed
<1> QED
  BY <1>1, Inductive, PTL
=============================================================================
