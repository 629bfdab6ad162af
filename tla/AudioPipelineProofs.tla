------------------------ MODULE AudioPipelineProofs -------------------------
(* The safety properties of AudioPipeline for every chain, format set and  *)
(* queue depth, by the inductive invariant of AudioPipelineInductive.      *)
EXTENDS AudioPipelineInductive, TLAPS

\* Every action gives every variable a value of its type.
LEMMA TypeStep == TypeInv /\ [Next]_vars => TypeInv'
<1> SUFFICES ASSUME TypeInv, [Next]_vars PROVE TypeInv'
  OBVIOUS
<1> USE ChainAssumption, FormatAssumption, QueueAssumption
        DEF TypeInv, TypeOK, Nodes, ControlPlaces, WorkerPlaces, States, Triggers, Events,
            shared, cvars, wvars
<1>1. ASSUME CallInit PROVE TypeInv'
  BY <1>1 DEF CallInit
<1>2. ASSUME NEW f \in Formats, CallSetFormat(f) PROVE TypeInv'
  BY <1>2 DEF CallSetFormat
<1>3. CASE CallStart \/ CallPlay \/ CallStop \/ CallJoin
  <2>1. CASE CallStart
    BY <2>1 DEF CallStart, Enter
  <2>2. CASE CallPlay
    BY <2>2 DEF CallPlay, Enter
  <2>3. CASE CallStop
    BY <2>3 DEF CallStop, Enter
  <2>4. CASE CallJoin
    BY <2>4 DEF CallJoin, Enter
  <2> QED
    BY <1>3, <2>1, <2>2, <2>3, <2>4
<1>4. CASE OpenNode
  BY <1>4 DEF OpenNode
<1>5. CASE OpenNodeFails
  BY <1>5 DEF OpenNodeFails
<1>6. CASE CloseNode
  BY <1>6 DEF CloseNode
<1>7. CASE CloseDone \/ Callback \/ Arm \/ RequestQuit \/ GiveWake \/ AwaitExit
  <2>1. CASE CloseDone
    BY <2>1 DEF CloseDone, Goto, Return
  <2>2. CASE Callback
    BY <2>2 DEF Callback, Goto
  <2>3. CASE Arm
    BY <2>3 DEF Arm, Goto
  <2>4. CASE RequestQuit
    BY <2>4 DEF RequestQuit, Goto
  <2>5. CASE GiveWake
    BY <2>5 DEF GiveWake, Goto, Return
  <2>6. CASE AwaitExit
    BY <2>6 DEF AwaitExit, Goto
  <2> QED
    BY <1>7, <2>1, <2>2, <2>3, <2>4, <2>5, <2>6
<1>8. CASE Put
  BY <1>8 DEF Put, Enqueue, Return
<1>9. CASE ReadState \/ SwapLost \/ Spawn
  BY <1>9 DEF ReadState, SwapLost, Spawn, Goto, Return
<1>10. CASE Swap
  BY <1>10 DEF Swap, AfterMove, Goto, Return
<1>11. CASE WorkerLoop \/ WorkerCheck \/ WorkerTake \/ FrameDone
  <2>1. CASE WorkerLoop
    BY <2>1 DEF WorkerLoop, WGoto
  <2>2. CASE WorkerCheck
    BY <2>2 DEF WorkerCheck, WGoto
  <2>3. CASE WorkerTake
    BY <2>3 DEF WorkerTake, WGoto
  <2>4. CASE FrameDone
    BY <2>4 DEF FrameDone, WGoto
  <2> QED
    BY <1>11, <2>1, <2>2, <2>3, <2>4
<1>12. ASSUME NEW ev \in Events, FrameEnds(ev) PROVE TypeInv'
  BY <1>12 DEF FrameEnds
<1>13. CASE WorkerReadState \/ WorkerSwapLost
  <2>1. CASE WorkerReadState
    BY <2>1 DEF WorkerReadState
  <2>2. CASE WorkerSwapLost
    BY <2>2 DEF WorkerSwapLost, WGoto
  <2> QED
    BY <1>13, <2>1, <2>2
<1>14. CASE WorkerSwap
  BY <1>14 DEF WorkerSwap, WGoto
<1>15. CASE WorkerCloseNode
  BY <1>15 DEF WorkerCloseNode
<1>16. CASE WorkerCallback
  BY <1>16 DEF WorkerCallback, WGoto
<1>17. CASE WorkerPut
  BY <1>17 DEF WorkerPut, Enqueue
<1>18. CASE GetEvent
  BY <1>18 DEF GetEvent
<1>19. CASE UNCHANGED vars
  BY <1>19 DEF vars
<1> QED
  BY <1>1, <1>2, <1>3, <1>4, <1>5, <1>6, <1>7, <1>8, <1>9, <1>10, <1>11,
     <1>12, <1>13, <1>14, <1>15, <1>16, <1>17, <1>18, <1>19
     DEF Next, Calls, InCall, Worker

\* The variables have their types in every reachable state.
THEOREM TypeCorrect == Spec => []TypeOK
<1>1. Init => TypeInv
  BY ChainAssumption, FormatAssumption, QueueAssumption
     DEF Init, TypeInv, TypeOK, Nodes, ControlPlaces, WorkerPlaces, States, Triggers, Events
<1>2. TypeInv => TypeOK
  BY DEF TypeInv
<1> QED
  BY <1>1, <1>2, TypeStep, PTL DEF Spec

\* A step keeps what the two threads guarantee each other.
LEMMA ThreadStep == ThreadInv /\ [Next]_vars => ThreadInv'
<1> SUFFICES ASSUME ThreadInv, [Next]_vars PROVE ThreadInv'
  OBVIOUS
<1>0. TypeInv'
  BY TypeStep DEF ThreadInv
<1> USE <1>0 DEF ThreadInv, CallPlaces, StartPending, Starting, Joining, WorkerPhase,
        WorkerMatchesState, WakePhase, WorkerAlive, States, Transitions, Move,
        HasWorker, HasOpenChain, TypeInv, TypeOK, shared, cvars, wvars
<1>1. CASE CallInit
  BY <1>1 DEF CallInit
<1>2. CASE CallStart
  BY <1>2 DEF CallStart, Enter
<1>3. CASE CallPlay
  BY <1>3 DEF CallPlay, Enter
<1>4. CASE CallStop
  BY <1>4 DEF CallStop, Enter
<1>5. CASE CallJoin
  BY <1>5 DEF CallJoin, Enter
<1>6. ASSUME NEW f \in Formats, CallSetFormat(f) PROVE ThreadInv'
  BY <1>6 DEF CallSetFormat
<1>7. CASE OpenNode
  BY <1>7 DEF OpenNode
<1>8. CASE OpenNodeFails
  BY <1>8 DEF OpenNodeFails
<1>9. CASE CloseNode
  BY <1>9 DEF CloseNode
<1>10. CASE CloseDone
  BY <1>10 DEF CloseDone, Goto, Return
<1>11. CASE Callback
  BY <1>11 DEF Callback, Goto
<1>12. CASE Put
  BY <1>12 DEF Put, Return
<1>13. CASE Arm
  BY <1>13 DEF Arm, Goto
<1>14. CASE RequestQuit
  BY <1>14 DEF RequestQuit, Goto
<1>15. CASE GiveWake
  BY <1>15 DEF GiveWake, Goto, Return
<1>16. CASE AwaitExit
  BY <1>16 DEF AwaitExit, Goto
<1>17. CASE ReadState
  BY <1>17 DEF ReadState, Return, Legal
<1>18. CASE SwapLost
  BY <1>18 DEF SwapLost, Goto
<1>19. CASE Swap
  BY <1>19 DEF Swap, AfterMove, StartSpawns, PlayWakes,
                JoinCloses, Goto, Return
<1>20. CASE Spawn
  BY <1>20 DEF Spawn, Return
<1>21. CASE WorkerLoop
  BY <1>21 DEF WorkerLoop, WGoto
<1>22. CASE WorkerCheck
  BY <1>22 DEF WorkerCheck, WGoto
<1>23. CASE WorkerTake
  BY <1>23 DEF WorkerTake, WGoto
<1>24. CASE FrameDone
  BY <1>24 DEF FrameDone, WGoto
<1>25. ASSUME NEW ev \in Events, FrameEnds(ev) PROVE ThreadInv'
  BY <1>25 DEF FrameEnds
<1>26. CASE WorkerReadState
  BY <1>26 DEF WorkerReadState, WorkerTrigger, Legal
<1>27. CASE WorkerSwapLost
  BY <1>27 DEF WorkerSwapLost, WGoto
<1>28. CASE WorkerSwap
  BY <1>28 DEF WorkerSwap, WGoto, WorkerTrigger
<1>29. CASE WorkerCloseNode
  BY <1>29 DEF WorkerCloseNode
<1>30. CASE WorkerCallback
  BY <1>30 DEF WorkerCallback, WGoto
<1>31. CASE WorkerPut
  BY <1>31 DEF WorkerPut
<1>32. CASE GetEvent
  BY <1>32 DEF GetEvent
<1>33. CASE UNCHANGED vars
  BY <1>33 DEF vars
<1> QED
  BY <1>1, <1>2, <1>3, <1>4, <1>5, <1>6, <1>7, <1>8, <1>9, <1>10, <1>11,
     <1>12, <1>13, <1>14, <1>15, <1>16, <1>17, <1>18, <1>19, <1>20, <1>21,
     <1>22, <1>23, <1>24, <1>25, <1>26, <1>27, <1>28, <1>29, <1>30, <1>31,
     <1>32, <1>33
     DEF Next, Calls, InCall, Worker

\* A step keeps the invariant of the chain, if the application waits for the
\* error to be told.
LEMMA ChainStep ==
  RestartsAfterError /\ ThreadInv /\ ChainInv /\ [Next]_vars => ChainInv'
<1> SUFFICES ASSUME RestartsAfterError, ThreadInv, ChainInv, [Next]_vars
             PROVE  ChainInv'
  OBVIOUS
<1>0. TypeInv'
  BY TypeStep DEF ThreadInv
<1> USE <1>0, ChainAssumption, FormatAssumption
        DEF ThreadInv, CallPlaces, StartPending, Starting, Joining, WorkerPhase,
        WorkerMatchesState, WorkerAlive, States, Transitions, Move,
        HasWorker, HasOpenChain, TypeInv, TypeOK, Nodes, shared, cvars, wvars,
        ChainInv, TearDown, Walks, OneFormat, AllOpen, NoneOpen, IsOpen,
        WorkerQuiesced, MayRestart
<1>1. CASE CallInit
  BY <1>1 DEF CallInit
<1>2. CASE CallStart
  BY <1>2 DEF CallStart, Enter
<1>3. CASE CallPlay
  BY <1>3 DEF CallPlay, Enter
<1>4. CASE CallStop
  BY <1>4 DEF CallStop, Enter
<1>5. CASE CallJoin
  BY <1>5 DEF CallJoin, Enter
<1>6. ASSUME NEW f \in Formats, CallSetFormat(f) PROVE ChainInv'
  BY <1>6 DEF CallSetFormat
<1>7. CASE OpenNode
  BY <1>7 DEF OpenNode
<1>8. CASE OpenNodeFails
  BY <1>8 DEF OpenNodeFails
<1>9. CASE CloseNode
  BY <1>9 DEF CloseNode
<1>10. CASE CloseDone
  BY <1>10 DEF CloseDone, Goto, Return
<1>11. CASE Callback
  BY <1>11 DEF Callback, Goto
<1>12. CASE Put
  BY <1>12 DEF Put, Return
<1>13. CASE Arm
  BY <1>13 DEF Arm, Goto
<1>14. CASE RequestQuit
  BY <1>14 DEF RequestQuit, Goto
<1>15. CASE GiveWake
  BY <1>15 DEF GiveWake, Goto, Return
<1>16. CASE AwaitExit
  BY <1>16 DEF AwaitExit, Goto
<1>17. CASE ReadState
  BY <1>17 DEF ReadState, Return, Legal
<1>18. CASE SwapLost
  BY <1>18 DEF SwapLost, Goto
<1>19. CASE Swap
  BY <1>19 DEF Swap, AfterMove, StartSpawns, PlayWakes,
                JoinCloses, Goto, Return
<1>20. CASE Spawn
  BY <1>20 DEF Spawn, Return
<1>21. CASE WorkerLoop
  BY <1>21 DEF WorkerLoop, WGoto
<1>22. CASE WorkerCheck
  BY <1>22 DEF WorkerCheck, WGoto
<1>23. CASE WorkerTake
  BY <1>23 DEF WorkerTake, WGoto
<1>24. CASE FrameDone
  BY <1>24 DEF FrameDone, WGoto
<1>25. ASSUME NEW ev \in Events, FrameEnds(ev) PROVE ChainInv'
  BY <1>25 DEF FrameEnds
<1>26. CASE WorkerReadState
  BY <1>26 DEF WorkerReadState, WorkerTrigger, Legal
<1>27. CASE WorkerSwapLost
  BY <1>27 DEF WorkerSwapLost, WGoto
<1>28. CASE WorkerSwap
  <2>1. /\ wpc = "swap" /\ HasOpenChain(state) /\ AllOpen /\ ~StartPending
        /\ UNCHANGED <<opened, format, cpc, cop, cnode, cend, centry, wev, wnode>>
    BY <1>28 DEF WorkerSwap, WGoto
  <2>2. cpc \notin {"open", "close"}
    BY <2>1
  <2>3. CASE wev = "EOF"
    <3>1. state' = "OPEN" /\ wpc' = "callback"
      BY <1>28, <2>3 DEF WorkerSwap, WGoto, WorkerTrigger
    <3> QED
      BY <2>1, <2>2, <2>3, <3>1
  <2>4. CASE wev = "ERROR"
    <3>1. state' = "CLOSED" /\ wpc' = "close"
      BY <1>28, <2>4 DEF WorkerSwap, WGoto, WorkerTrigger
    <3> QED
      BY <2>1, <2>2, <2>4, <3>1
  <2> QED
    BY <2>3, <2>4 DEF Events
<1>29. CASE WorkerCloseNode
  BY <1>29 DEF WorkerCloseNode
<1>30. CASE WorkerCallback
  BY <1>30 DEF WorkerCallback, WGoto
<1>31. CASE WorkerPut
  BY <1>31 DEF WorkerPut
<1>32. CASE GetEvent
  BY <1>32 DEF GetEvent
<1>33. CASE UNCHANGED vars
  BY <1>33 DEF vars
<1> QED
  BY <1>1, <1>2, <1>3, <1>4, <1>5, <1>6, <1>7, <1>8, <1>9, <1>10, <1>11,
     <1>12, <1>13, <1>14, <1>15, <1>16, <1>17, <1>18, <1>19, <1>20, <1>21,
     <1>22, <1>23, <1>24, <1>25, <1>26, <1>27, <1>28, <1>29, <1>30, <1>31,
     <1>32, <1>33
     DEF Next, Calls, InCall, Worker

\* The inductive invariant holds in every reachable state.
LEMMA Inductive == Spec => []IInv
<1>1. Init => IInv
  BY ChainAssumption, FormatAssumption, QueueAssumption
     DEF Init, IInv, ThreadInv, TypeInv, TypeOK, CallPlaces, StartPending,
         Starting, Joining, WorkerPhase, WorkerMatchesState, WakePhase, WorkerAlive,
         ChainInv, TearDown, Walks, OneFormat, AllOpen, NoneOpen, IsOpen,
         WorkerQuiesced, HasWorker, HasOpenChain,
         Nodes, ControlPlaces, WorkerPlaces, States, Triggers, Events
<1>2. IInv /\ [Next]_vars => IInv'
  BY ThreadStep, ChainStep DEF IInv
<1> QED
  BY <1>1, <1>2, PTL DEF Spec

\* A thread exists exactly in the states that say so, for every application.
THEOREM WorkerSafety == Spec => []WorkerMatchesState
<1>1. IInv => WorkerMatchesState
  BY DEF IInv, ThreadInv, WorkerPhase
<1> QED
  BY <1>1, Inductive, PTL

\* The wake semaphore never loses a play() or a join(), for every application.
THEOREM WakeSafety == Spec => []NoLostWakeup
<1>1. IInv => NoLostWakeup
  BY DEF IInv, ThreadInv, WakePhase, NoLostWakeup
<1> QED
  BY <1>1, Inductive, PTL

\* One publication leaves what is queued where it is.
LEMMA QueueGrowsBehind ==
  ASSUME TypeOK, NEW ev \in Events, Enqueue(ev)
  PROVE  /\ Len(queue) <= Len(queue') /\ Len(queue') <= QueueDepth
         /\ \A i \in DOMAIN queue : queue'[i] = queue[i]
  BY QueueAssumption DEF TypeOK, Enqueue

\* Queued events stay in their order until they are read, for every queue depth,
\* and only an init() that runs alone drops them all.
THEOREM NoEventIsOverwritten == Spec => OldestEventsStay
<1> DEFINE Kept == \/ /\ Len(queue) <= Len(queue') /\ Len(queue') <= QueueDepth
                      /\ \A i \in DOMAIN queue : queue'[i] = queue[i]
                   \/ queue # << >> /\ queue' = Tail(queue)
                   \/ queue' = << >> /\ cpc = "idle" /\ ~WorkerAlive
<1>1. IInv /\ [Next]_vars => [Kept]_vars
  <2> SUFFICES ASSUME IInv, [Next]_vars PROVE Kept \/ UNCHANGED vars
    OBVIOUS
  <2>1. TypeOK
    BY DEF IInv, ThreadInv, TypeInv
  <2>2. CASE CallInit
    BY <2>2 DEF CallInit, Move, Transitions, IInv, ThreadInv, WorkerPhase,
                WorkerMatchesState, HasWorker
  <2>3. CASE Put
    BY <2>1, <2>3, QueueGrowsBehind DEF Put, Events
  <2>4. CASE WorkerPut
    BY <2>1, <2>4, QueueGrowsBehind DEF WorkerPut, TypeOK
  <2>5. CASE GetEvent
    BY <2>5 DEF GetEvent
  <2>6. ASSUME UNCHANGED queue PROVE Kept
    BY <2>1, <2>6, QueueAssumption DEF TypeOK
  <2>7. CASE CallStart \/ CallPlay \/ CallStop \/ CallJoin \/ \E f \in Formats : CallSetFormat(f)
    BY <2>6, <2>7 DEF CallStart, CallPlay, CallStop, CallJoin, CallSetFormat, shared
  <2>8. CASE OpenNode \/ OpenNodeFails \/ CloseNode \/ CloseDone \/ Callback \/ Arm
             \/ RequestQuit \/ GiveWake \/ AwaitExit
    BY <2>6, <2>8 DEF OpenNode, OpenNodeFails, CloseNode, CloseDone, Callback, Arm,
                      RequestQuit, GiveWake, AwaitExit, shared
  <2>9. CASE ReadState \/ SwapLost \/ Swap \/ Spawn
    BY <2>6, <2>9 DEF ReadState, SwapLost, Swap, Spawn, shared
  <2>10. CASE WorkerLoop \/ WorkerCheck \/ WorkerTake \/ FrameDone
              \/ \E ev \in Events : FrameEnds(ev)
    BY <2>6, <2>10 DEF WorkerLoop, WorkerCheck, WorkerTake, FrameDone, FrameEnds, shared
  <2>11. CASE WorkerReadState \/ WorkerSwapLost \/ WorkerSwap \/ WorkerCloseNode
              \/ WorkerCallback
    BY <2>6, <2>11 DEF WorkerReadState, WorkerSwapLost, WorkerSwap, WorkerCloseNode,
                       WorkerCallback, shared
  <2> HIDE DEF Kept
  <2> QED
    BY <2>2, <2>3, <2>4, <2>5, <2>7, <2>8, <2>9, <2>10, <2>11 DEF Next, Calls, InCall, Worker
<1> QED
  BY <1>1, Inductive, PTL DEF Spec, OldestEventsStay

\* What the inductive invariant says of the chain, once the application plays
\* by the rule.
LEMMA ChainIsSafe ==
  ASSUME RestartsAfterError, IInv
  PROVE  ChainMatchesState /\ NodeCallsBalanced /\ OneFormat /\ ErrorMeansQuiesced
<1> USE DEF IInv, ThreadInv, ChainInv, Walks, TearDown, TypeInv, TypeOK, Nodes
<1>1. ChainMatchesState
  BY DEF ChainMatchesState
<1>2. NodeCallsBalanced
  BY ChainAssumption DEF NodeCallsBalanced, WorkerPhase
<1>3. ErrorMeansQuiesced
  BY DEF ErrorMeansQuiesced, Joining, CallPlaces, StartPending, WorkerQuiesced,
         WorkerAlive, HasOpenChain
<1> QED
  BY <1>1, <1>2, <1>3

\* The chain agrees with the state word, for a chain of any length, if the
\* application restarts a failed chain only when it was told.
THEOREM ChainFollowsState == ASSUME RestartsAfterError PROVE Spec => []ChainMatchesState
<1>1. IInv => ChainMatchesState
  BY ChainIsSafe
<1> QED
  BY <1>1, Inductive, PTL

\* Under the same rule every node is opened and closed in turn, and pulled
\* only while it is open.
THEOREM CallsAlternate == ASSUME RestartsAfterError PROVE Spec => []NodeCallsBalanced
<1>1. IInv => NodeCallsBalanced
  BY ChainIsSafe
<1> QED
  BY <1>1, Inductive, PTL

\* Under the same rule no format is swapped underneath an open node.
THEOREM FormatStays == ASSUME RestartsAfterError PROVE Spec => []OneFormat
<1>1. IInv => OneFormat
  BY ChainIsSafe
<1> QED
  BY <1>1, Inductive, PTL

\* Under the same rule the error is told over a chain that is down already.
THEOREM ErrorIsToldLast == ASSUME RestartsAfterError PROVE Spec => []ErrorMeansQuiesced
<1>1. IInv => ErrorMeansQuiesced
  BY ChainIsSafe
<1> QED
  BY <1>1, Inductive, PTL

-----------------------------------------------------------------------------
(* AudioPipeline implements PipelineContract. *)

\* Every step of the two threads is a step of the contract, or none.
LEMMA ContractStep ==
  RestartsAfterError /\ IInv /\ IInv' /\ [Next]_vars
    => [Contract!Next]_(Contract!contractVars)
<1> SUFFICES ASSUME RestartsAfterError, ThreadInv, ChainInv, ThreadInv', ChainInv',
                    [Next]_vars
             PROVE  [Contract!Next]_(Contract!contractVars)
  BY DEF IInv
<1> USE ChainAssumption
        DEF ThreadInv, CallPlaces, StartPending, Starting, Joining, WorkerPhase,
        WorkerMatchesState, WorkerAlive, States, Transitions, Move,
        HasWorker, HasOpenChain, TypeInv, TypeOK, Nodes, shared, cvars, wvars,
        ChainInv, TearDown, Walks, AllOpen, NoneOpen, IsOpen,
        WorkerQuiesced, MayRestart, ChainPhase,
        Contract!Next, Contract!contractVars, Contract!Bind, Contract!BeginOpen,
        Contract!OpenFails, Contract!Opened, Contract!Play, Contract!Pause,
        Contract!EndOfStream, Contract!Fail, Contract!TornDown, Contract!Told,
        Contract!Join, Contract!Joined, Contract!HasOpenChain, Contract!HasWorker
<1>1. CASE CallInit
  BY <1>1 DEF CallInit
<1>2. CASE CallStart
  BY <1>2 DEF CallStart, Enter
<1>3. CASE CallPlay
  BY <1>3 DEF CallPlay, Enter
<1>4. CASE CallStop
  BY <1>4 DEF CallStop, Enter
<1>5. CASE CallJoin
  BY <1>5 DEF CallJoin, Enter
<1>6. ASSUME NEW f \in Formats, CallSetFormat(f) PROVE [Contract!Next]_(Contract!contractVars)
  BY <1>6 DEF CallSetFormat
<1>7. CASE OpenNode
  BY <1>7 DEF OpenNode
<1>8. CASE OpenNodeFails
  BY <1>8 DEF OpenNodeFails
<1>9. CASE CloseNode
  BY <1>9 DEF CloseNode
<1>10. CASE CloseDone
  BY <1>10 DEF CloseDone, Goto, Return
<1>11. CASE Callback
  BY <1>11 DEF Callback, Goto
<1>12. CASE Put
  BY <1>12 DEF Put, Return
<1>13. CASE Arm
  BY <1>13 DEF Arm, Goto
<1>14. CASE RequestQuit
  BY <1>14 DEF RequestQuit, Goto
<1>15. CASE GiveWake
  BY <1>15 DEF GiveWake, Goto, Return
<1>16. CASE AwaitExit
  BY <1>16 DEF AwaitExit, Goto
<1>17. CASE ReadState
  BY <1>17 DEF ReadState, Return, Legal
<1>18. CASE SwapLost
  BY <1>18 DEF SwapLost, Goto
<1>19. CASE Swap
  BY <1>19 DEF Swap, AfterMove, StartSpawns, PlayWakes,
                JoinCloses, Goto, Return
<1>20. CASE Spawn
  BY <1>20 DEF Spawn, Return
<1>21. CASE WorkerLoop
  BY <1>21 DEF WorkerLoop, WGoto
<1>22. CASE WorkerCheck
  BY <1>22 DEF WorkerCheck, WGoto
<1>23. CASE WorkerTake
  BY <1>23 DEF WorkerTake, WGoto
<1>24. CASE FrameDone
  BY <1>24 DEF FrameDone, WGoto
<1>25. ASSUME NEW ev \in Events, FrameEnds(ev) PROVE [Contract!Next]_(Contract!contractVars)
  BY <1>25 DEF FrameEnds
<1>26. CASE WorkerReadState
  BY <1>26 DEF WorkerReadState, WorkerTrigger, Legal
<1>27. CASE WorkerSwapLost
  BY <1>27 DEF WorkerSwapLost, WGoto
<1>28. CASE WorkerSwap
  BY <1>28 DEF WorkerSwap, WGoto, WorkerTrigger
<1>29. CASE WorkerCloseNode
  BY <1>29 DEF WorkerCloseNode
<1>30. CASE WorkerCallback
  BY <1>30 DEF WorkerCallback, WGoto
<1>31. CASE WorkerPut
  BY <1>31 DEF WorkerPut
<1>32. CASE GetEvent
  BY <1>32 DEF GetEvent
<1>33. CASE UNCHANGED vars
  BY <1>33 DEF vars
<1> QED
  BY <1>1, <1>2, <1>3, <1>4, <1>5, <1>6, <1>7, <1>8, <1>9, <1>10, <1>11,
     <1>12, <1>13, <1>14, <1>15, <1>16, <1>17, <1>18, <1>19, <1>20, <1>21,
     <1>22, <1>23, <1>24, <1>25, <1>26, <1>27, <1>28, <1>29, <1>30, <1>31,
     <1>32, <1>33
     DEF Next, Calls, InCall, Worker

\* The detailed lifecycle implements the atomic one.
THEOREM Refinement == ASSUME RestartsAfterError PROVE Spec => ImplementsContract
<1>1. Init => Contract!Init
  BY ChainAssumption DEF Init, Contract!Init, ChainPhase, HasOpenChain, NoneOpen, IsOpen
<1>2. IInv /\ IInv' /\ [Next]_vars => [Contract!Next]_(Contract!contractVars)
  BY ContractStep
<1> QED
  BY <1>1, <1>2, Inductive, PTL DEF Spec, ImplementsContract, Contract!Spec
=============================================================================
