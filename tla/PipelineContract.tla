-------------------------- MODULE PipelineContract --------------------------
(***************************************************************************)
(* What an instance promises its application: the lifecycle of the API     *)
(* reference as single steps, with no thread, no semaphore and no          *)
(* compare-and-swap behind them.  The chain is open exactly in OPEN and    *)
(* PLAYING, it is opened before start() moves the state and closed after   *)
(* the move that gives it up, and the worker's ERROR is told over a chain  *)
(* that is closed.                                                         *)
(***************************************************************************)
EXTENDS PipelineStates

VARIABLES
  mode,   \* the lifecycle state
  chain,  \* "closed", "opening", "open" or "closing"
  told    \* the event the worker's callback is being run for, or "none"

contractVars == <<mode, chain, told>>

Init == mode = "UNINIT" /\ chain = "closed" /\ told = "none"

\* init(): only an instance without a worker and with a closed chain is bound.
Bind ==
  /\ mode \in {"UNINIT", "INIT"} /\ chain = "closed"
  /\ mode' = "INIT" /\ UNCHANGED <<chain, told>>

\* start() opens the chain: all of it, and the mode moves, or none of it.
BeginOpen ==
  /\ mode \in {"INIT", "CLOSED"} /\ chain = "closed"
  /\ chain' = "opening" /\ UNCHANGED <<mode, told>>

OpenFails ==
  /\ chain = "opening" /\ chain' = "closed" /\ UNCHANGED <<mode, told>>

Opened ==
  /\ mode \in {"INIT", "CLOSED"} /\ chain = "opening"
  /\ mode' = "OPEN" /\ chain' = "open" /\ UNCHANGED told

Play ==
  /\ HasOpenChain(mode) /\ mode' = "PLAYING" /\ UNCHANGED <<chain, told>>

Pause ==
  /\ HasOpenChain(mode) /\ mode' = "OPEN" /\ UNCHANGED <<chain, told>>

\* The worker ends a stream: the chain stays open, and the event follows.
EndOfStream ==
  /\ HasOpenChain(mode) /\ told = "none"
  /\ mode' = "OPEN" /\ told' = "EOF" /\ UNCHANGED chain

\* A node fails: first the mode, then the chain, then the event.
Fail ==
  /\ HasOpenChain(mode) /\ told = "none"
  /\ mode' = "CLOSED" /\ chain' = "closing" /\ UNCHANGED told

TornDown ==
  /\ mode = "CLOSED" /\ chain = "closing"
  /\ chain' = "closed" /\ told' = "ERROR" /\ UNCHANGED mode

\* The worker has queued the event and goes on.
Told == told # "none" /\ told' = "none" /\ UNCHANGED <<mode, chain>>

\* join() moves the mode with no event in delivery, and then closes the chain
\* unless the worker's error has closed it already.
Join ==
  /\ HasWorker(mode) /\ told = "none" /\ chain \in {"open", "closed"}
  /\ mode' = "INIT" /\ UNCHANGED told
  /\ chain' = IF chain = "open" THEN "closing" ELSE "closed"

Joined ==
  /\ mode = "INIT" /\ chain = "closing"
  /\ chain' = "closed" /\ UNCHANGED <<mode, told>>

Next ==
  \/ Bind \/ BeginOpen \/ OpenFails \/ Opened \/ Play \/ Pause
  \/ EndOfStream \/ Fail \/ TornDown \/ Told \/ Join \/ Joined

Spec == Init /\ [][Next]_contractVars
=============================================================================
