----------------------------- MODULE I2sInProofs -----------------------------
(***************************************************************************)
(* Safety of the I2S input source, for a slab, a driver queue, blocks and  *)
(* frames of any size, and for a driver that fails any call at will, DROP  *)
(* included, and delivers short blocks.                                    *)
(***************************************************************************)
EXTENDS I2sIn, TLAPS

\* The node owns a block exactly while it drains one, over several calls.
BlockInHand ==
  /\ pc \in {"start", "read", "recover", "restart", "reread"} => block = 0
  /\ pc = "drain" => block = 1
  /\ block = 0 => avail = 0
  /\ pc = "idle" /\ block = 1 => avail > 0

\* A closed source has nothing in hand and nothing in the driver, unless a DROP
\* failed.
StreamOpen ==
  /\ configured = 0 => pc = "idle" /\ block = 0
  /\ configured = 0 /\ stranded = 0 => filled = 0 /\ dir \in {"NOT_READY", "READY"}
  /\ pc # "idle" => result = "ok"

\* The direction fills blocks, or has overrun, exactly once START was given.
StartedMatchesDriver ==
  /\ configured = 1 /\ started = 1 => dir \in {"RUNNING", "ERROR"}
  /\ configured = 1 /\ started = 0 => dir = "READY" /\ (stranded = 0 => filled = 0)
  /\ pc \in {"start", "restart"} => started = 0
  /\ pc \in {"read", "recover", "reread"} => started = 1

\* A driver that only overruns refuses a read after an overrun only; the second
\* read finds an empty queue and a slab with room, so an overrun that comes first
\* leaves it a block to read.
OnlyOverruns ==
  faulty = 0 =>
    /\ stranded = 0 /\ result # "error"
    /\ pc = "recover" => dir = "ERROR"
    /\ pc = "reread" /\ dir = "ERROR" => filled > 0
    /\ pc = "drain" => avail > 0

IInv == /\ TypeOK /\ BlocksConserved /\ BlockInHand
        /\ StreamOpen /\ StartedMatchesDriver /\ OnlyOverruns

\* The slab starts full and the direction unconfigured.
LEMMA InitHolds == Init => IInv
  BY BlockAssumption, SetAssumption
  DEF Init, IInv, TypeOK, BlocksConserved, BlockInHand, StreamOpen,
      StartedMatchesDriver, OnlyOverruns

\* A frame's worth of a block is at least one sample set and at most the block.
LEMMA FrameOfBlock ==
  ASSUME avail \in 1..BlockSets
  PROVE  Least(FrameSets, avail) \in 1..avail /\ Least(FrameSets, avail) <= FrameSets
  BY SetAssumption DEF Least

\* Each step of the node, and each of the wire, keeps the invariant.
LEMMA StepHolds == IInv /\ [Next]_vars => IInv'
<1> SUFFICES ASSUME IInv, [Next]_vars PROVE IInv'
  OBVIOUS
<1> USE BlockAssumption, SetAssumption
    DEF IInv, TypeOK, BlocksConserved, BlockInHand, StreamOpen,
        StartedMatchesDriver, OnlyOverruns
<1>1. CASE UNCHANGED vars
  BY <1>1 DEF vars, node, driver
<1>2. ASSUME Open, UNCHANGED faulty PROVE IInv'
  BY <1>2 DEF Open, Emptied, Kept, KeepsBlocks
<1>3. ASSUME OpenRefused, UNCHANGED faulty PROVE IInv'
  BY <1>3 DEF OpenRefused, Release, Emptied, Kept
<1>4. ASSUME Close, UNCHANGED faulty PROVE IInv'
  BY <1>4 DEF Close, Release, Emptied, Kept
<1>5. ASSUME Process, UNCHANGED faulty PROVE IInv'
  BY <1>5 DEF Process, driver
<1>6. ASSUME TriggerStart, UNCHANGED faulty PROVE IInv'
  BY <1>6 DEF TriggerStart
<1>7. ASSUME StartFails, UNCHANGED faulty PROVE IInv'
  BY <1>7 DEF StartFails, Fail, driver
<1>8. ASSUME Read, UNCHANGED faulty PROVE IInv'
  BY <1>8 DEF Read
<1>9. ASSUME ReadFails, UNCHANGED faulty PROVE IInv'
  BY <1>9 DEF ReadFails, Refuses, driver
<1>10. ASSUME Recover, UNCHANGED faulty PROVE IInv'
  BY <1>10 DEF Recover
<1>11. ASSUME GiveUp, UNCHANGED faulty PROVE IInv'
  BY <1>11 DEF GiveUp, Refuses, Fail, driver
<1>12. ASSUME Drain, UNCHANGED faulty PROVE IInv'
  BY <1>12, FrameOfBlock DEF Drain
<1>13. ASSUME DrainNothing, UNCHANGED faulty PROVE IInv'
  BY <1>13 DEF DrainNothing, Fail
<1>14. ASSUME Receive, UNCHANGED faulty PROVE IInv'
  BY <1>14 DEF Receive, node
<1> QED
  BY <1>1, <1>2, <1>3, <1>4, <1>5, <1>6, <1>7, <1>8, <1>9, <1>10, <1>11,
     <1>12, <1>13, <1>14 DEF Next, InProcess

LEMMA Inductive == Spec => []IInv
  BY InitHolds, StepHolds, PTL DEF Spec

\* Every block is in the slab, the driver's queue or the node's hand, in one of
\* them only, through overruns, failing reads, short blocks and DROPs that fail;
\* a closed source holds none, and those not in the slab are the ones that a
\* failed DROP left with the driver.
THEOREM NoBlockLost == Spec => []BlocksConserved
<1>1. IInv => BlocksConserved
  BY DEF IInv
<1> QED
  BY <1>1, Inductive, PTL

\* A block is kept across calls only while there is audio in it, so that no
\* successful process() reports an empty frame, the mark of a finished capture.
THEOREM NoFalseEnd == Spec => []NeverEmptyFrame
<1>1. IInv => NeverEmptyFrame
  BY DEF IInv, TypeOK, BlockInHand, OnlyOverruns, NeverEmptyFrame
<1> QED
  BY <1>1, Inductive, PTL

\* Overruns alone, however they fall between the node's calls, never reach the
\* pipeline as an error.
THEOREM OverrunsAreRepaired == Spec => []OverrunIsAbsorbed
<1>1. IInv => OverrunIsAbsorbed
  BY DEF IInv, OnlyOverruns, OverrunIsAbsorbed
<1> QED
  BY <1>1, Inductive, PTL
=============================================================================
