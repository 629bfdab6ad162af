--------------------------- MODULE AudioPipeline ----------------------------
(***************************************************************************)
(* One pipeline instance with storage of its own: the control thread that  *)
(* calls the API, the worker thread it creates, and any thread that drains *)
(* the event queue.  A step is one access to what the threads share: a     *)
(* read or a compare-and-swap of the lifecycle state, the exit request,    *)
(* the wake semaphore, one node's open() or close(), one event.            *)
(*                                                                         *)
(* The chain is a list of nodes, 1 being the sink and ChainLength the      *)
(* source; module NodeChain looks at chains of any other shape.            *)
(***************************************************************************)
EXTENDS Integers, Sequences, PipelineStates

CONSTANTS
  ChainLength,        \* nodes from the sink to the source
  MaxChainDepth,      \* the bound of every walk over the chain
  Formats,            \* the formats an application may bind
  NoFormat,           \* "no format": unbound pipeline, closed node
  QueueDepth,         \* event slots
  RestartsAfterError  \* TRUE: after a node error the application calls
                      \* set_format(), start() only once it was told ERROR

ASSUME ChainAssumption == /\ ChainLength \in Nat \ {0}
                          /\ MaxChainDepth \in Nat
                          /\ ChainLength <= MaxChainDepth
ASSUME FormatAssumption == NoFormat \notin Formats
ASSUME QueueAssumption == QueueDepth \in Nat \ {0}
ASSUME RestartAssumption == RestartsAfterError \in BOOLEAN

Nodes == 1..ChainLength

Events == {"EOF", "ERROR"}

VARIABLES
  state,    \* the lifecycle state, moved by compare-and-swap
  quit,     \* the exit request of join(): 0 or 1
  wake,     \* the binary semaphore the idle worker waits on: 0 or 1
  format,   \* the bound format, or NoFormat
  opened,   \* the format each node was opened with, NoFormat when closed
  queue,    \* the event queue
  cpc,      \* control thread: where it is in a call, "idle" between calls
  cop,      \* ... the trigger of that call
  centry,   \* ... the state the call read on entry
  cseen,    \* ... the state its compare-and-swap loop read last
  cnode,    \* ... the node its walk over the chain has reached
  cend,     \* ... the node its closing walk stops short of
  cerr,     \* ... 1 once a node of that walk reported an error
  wpc,      \* worker thread: "none" before it is created
  wev,      \* ... the event its last frame ended in
  wseen,    \* ... the state its compare-and-swap loop read last
  wnode     \* ... the node its closing walk has reached

shared == <<state, quit, wake, format, opened, queue>>
cvars  == <<cpc, cop, centry, cseen, cnode, cend, cerr>>
wvars  == <<wpc, wev, wseen, wnode>>
vars   == <<shared, cvars, wvars>>

WorkerAlive == wpc \notin {"none", "exited"}

Init ==
  /\ state = "UNINIT" /\ quit = 0 /\ wake = 0 /\ format = NoFormat
  /\ opened = [n \in Nodes |-> NoFormat] /\ queue = << >>
  /\ cpc = "idle" /\ cop = "INIT" /\ centry = "UNINIT" /\ cseen = "UNINIT"
  /\ cnode = 1 /\ cend = 1 /\ cerr = 0
  /\ wpc = "none" /\ wev = "EOF" /\ wseen = "UNINIT" /\ wnode = 1

-----------------------------------------------------------------------------
(* What both threads are built from. *)

\* Mutant of Enqueue: a full queue drops the oldest event.
MutEnqueue(ev) ==
  queue' = Append(IF Len(queue) < QueueDepth THEN queue ELSE Tail(queue), ev)

\* k_msgq_put() without waiting: a full queue drops the newest event.
Enqueue(ev) ==
  queue' = IF Len(queue) < QueueDepth THEN Append(queue, ev) ELSE queue

\* The worker has closed every node and run the callback, if it failed.
WorkerQuiesced == wpc \notin {"close", "callback"}

\* The application touches the chain again after an error only once it was
\* told of the error, or, when RestartsAfterError is FALSE, at any time.
MayRestart == RestartsAfterError => WorkerQuiesced

\* The control thread returns from a call; its locals die.
Return ==
  /\ cpc' = "idle" /\ cop' = "INIT" /\ centry' = "UNINIT" /\ cseen' = "UNINIT"
  /\ cnode' = 1 /\ cend' = 1 /\ cerr' = 0

Goto(pc) ==
  cpc' = pc /\ UNCHANGED <<cop, centry, cseen, cnode, cend, cerr>>

Enter(op, pc) ==
  /\ cpc = "idle" /\ cpc' = pc /\ cop' = op /\ centry' = state
  /\ UNCHANGED <<cseen, cnode, cend, cerr>>

-----------------------------------------------------------------------------
(* The control thread.  A call that is refused changes nothing and is left *)
(* out.                                                                    *)

\* audio_pipeline_init(): no worker exists, so nothing runs beside it.
CallInit ==
  /\ cpc = "idle" /\ Move("INIT", state, "INIT")
  /\ state' = "INIT" /\ quit' = 0 /\ wake' = 0
  /\ format' = NoFormat /\ queue' = << >>
  /\ UNCHANGED <<opened, cvars, wvars>>

\* Mutant of CallSetFormat: "not playing" instead of "no open chain".
MutCallSetFormat(f) ==
  /\ cpc = "idle" /\ state \notin {"UNINIT", "PLAYING"} /\ MayRestart
  /\ format' = f
  /\ UNCHANGED <<state, quit, wake, opened, queue, cvars, wvars>>

\* audio_pipeline_set_format(): only while the state claims no open chain.
CallSetFormat(f) ==
  /\ cpc = "idle" /\ state # "UNINIT" /\ ~HasOpenChain(state) /\ MayRestart
  /\ format' = f
  /\ UNCHANGED <<state, quit, wake, opened, queue, cvars, wvars>>

\* audio_pipeline_start(): a chain already open is left as it is.
CallStart ==
  /\ state # "UNINIT" /\ format # NoFormat /\ ~HasOpenChain(state)
  /\ MayRestart
  /\ Enter("START", "open")
  /\ UNCHANGED <<shared, wvars>>

\* The walk opens the next node, which takes the pipeline's format ...
OpenNode ==
  /\ cpc = "open"
  /\ opened' = [opened EXCEPT ![cnode] = format]
  /\ IF cnode = ChainLength
       THEN cpc' = "arm" /\ cnode' = 1
       ELSE cpc' = "open" /\ cnode' = cnode + 1
  /\ UNCHANGED <<state, quit, wake, format, queue,
                 cop, centry, cseen, cend, cerr, wvars>>

\* Mutant of OpenNodeFails: the chain already opened is left as it is.
MutOpenNodeFails ==
  /\ cpc = "open" /\ cpc' = "callback"
  /\ UNCHANGED <<shared, cop, centry, cseen, cnode, cend, cerr, wvars>>

\* ... or that node refuses, and the nodes before it are to be closed again.
OpenNodeFails ==
  /\ cpc = "open"
  /\ cpc' = "close" /\ cnode' = 1 /\ cend' = cnode
  /\ UNCHANGED <<shared, cop, centry, cseen, cerr, wvars>>

\* One step of pipeline_close_chain(): a failing close() is remembered and
\* does not keep the walk from the nodes behind it.
CloseNode ==
  /\ cpc = "close" /\ cnode < cend
  /\ opened' = [opened EXCEPT ![cnode] = NoFormat]
  /\ cnode' = cnode + 1
  /\ \E err \in {0, 1} : cerr' = IF cerr = 1 THEN 1 ELSE err
  /\ UNCHANGED <<state, quit, wake, format, queue,
                 cpc, cop, centry, cseen, cend, wvars>>

\* A failed open() is always reported, a closing walk only if it failed.
CloseDone ==
  /\ cpc = "close" /\ cnode = cend
  /\ IF cop = "START" \/ cerr = 1 THEN Goto("callback") ELSE Return
  /\ UNCHANGED <<shared, wvars>>

\* audio_pipeline_publish_event(): the callback first, the queue second.
Callback ==
  /\ cpc = "callback" /\ Goto("put") /\ UNCHANGED <<shared, wvars>>

Put ==
  /\ cpc = "put" /\ Enqueue("ERROR") /\ Return
  /\ UNCHANGED <<state, quit, wake, format, opened, wvars>>

\* Mutant of Arm: keeps the exit request of the last join().
MutArm ==
  /\ cpc = "arm" /\ Goto("read")
  /\ wake' = IF HasWorker(centry) THEN wake ELSE 0
  /\ UNCHANGED <<state, quit, format, opened, queue, wvars>>

\* start() before a new thread: no stale exit request, a fresh semaphore.
Arm ==
  /\ cpc = "arm" /\ Goto("read")
  /\ IF HasWorker(centry) THEN UNCHANGED <<quit, wake>>
                          ELSE quit' = 0 /\ wake' = 0
  /\ UNCHANGED <<state, format, opened, queue, wvars>>

CallPlay == /\ state # "UNINIT" /\ Enter("PLAY", "read")
            /\ UNCHANGED <<shared, wvars>>

CallStop == /\ state # "UNINIT" /\ Enter("STOP", "read")
            /\ UNCHANGED <<shared, wvars>>

CallJoin ==
  /\ state # "UNINIT"
  /\ Enter("JOIN", IF HasWorker(state) THEN "quit" ELSE "read")
  /\ UNCHANGED <<shared, wvars>>

RequestQuit ==
  /\ cpc = "quit" /\ quit' = 1 /\ Goto("wake")
  /\ UNCHANGED <<state, wake, format, opened, queue, wvars>>

\* Mutant of GiveWake: join() relies on the worker not being idle.
MutGiveWake ==
  /\ cpc = "wake" /\ wake' = IF cop = "JOIN" THEN wake ELSE 1
  /\ IF cop = "JOIN" THEN Goto("wait") ELSE Return
  /\ UNCHANGED <<state, quit, format, opened, queue, wvars>>

\* k_sem_give() by play() and by join().
GiveWake ==
  /\ cpc = "wake" /\ wake' = 1
  /\ IF cop = "JOIN" THEN Goto("wait") ELSE Return
  /\ UNCHANGED <<state, quit, format, opened, queue, wvars>>

\* k_thread_join() returns.
AwaitExit ==
  /\ cpc = "wait" /\ wpc = "exited" /\ Goto("read")
  /\ UNCHANGED <<shared, wvars>>

\* pipeline_transition(): read the state, give up if the table has no row ...
ReadState ==
  /\ cpc = "read"
  /\ IF Legal(cop, state)
       THEN /\ cpc' = "swap" /\ cseen' = state
            /\ UNCHANGED <<cop, centry, cnode, cend, cerr>>
       ELSE Return
  /\ UNCHANGED <<shared, wvars>>

\* ... else swap, and start over if the worker moved it in between.
SwapLost ==
  /\ cpc = "swap" /\ state # cseen /\ Goto("read")
  /\ UNCHANGED <<shared, wvars>>

\* Mutant of PlayWakes: gives the semaphore in the wrong case.
MutPlayWakes == cop = "PLAY" /\ cseen = "PLAYING"

\* play() releases a worker that idles; one already playing gets no spare.
PlayWakes == cop = "PLAY" /\ cseen = "OPEN"

\* Mutant of JoinCloses: decides on the state join() read on entry.
MutJoinCloses == cop = "JOIN" /\ HasOpenChain(centry)

\* join() closes the chain its own move found open.
JoinCloses == cop = "JOIN" /\ HasOpenChain(cseen)

StartSpawns == cop = "START" /\ ~HasWorker(centry)

\* What each call does with the move it made.
AfterMove ==
  IF StartSpawns THEN Goto("spawn")
  ELSE IF PlayWakes THEN Goto("wake")
  ELSE IF JoinCloses
    THEN /\ cpc' = "close" /\ cnode' = 1 /\ cend' = ChainLength + 1
         /\ UNCHANGED <<cop, centry, cseen, cerr>>
  ELSE Return

\* Mutant of Swap: a plain store, whatever the worker did since the read.
MutSwap ==
  /\ cpc = "swap"
  /\ state' \in States /\ Move(cop, cseen, state')
  /\ AfterMove
  /\ UNCHANGED <<quit, wake, format, opened, queue, wvars>>

Swap ==
  /\ cpc = "swap" /\ state = cseen
  /\ state' \in States /\ Move(cop, cseen, state')
  /\ AfterMove
  /\ UNCHANGED <<quit, wake, format, opened, queue, wvars>>

\* k_thread_create().
Spawn ==
  /\ cpc = "spawn" /\ Return
  /\ wpc' = "loop"
  /\ UNCHANGED <<shared, wev, wseen, wnode>>

-----------------------------------------------------------------------------
(* The worker thread. *)

WGoto(pc) == wpc' = pc /\ UNCHANGED <<wev, wseen, wnode>>

\* The loop condition.
WorkerLoop ==
  /\ wpc = "loop" /\ WGoto(IF quit = 1 THEN "exited" ELSE "check")
  /\ UNCHANGED <<shared, cvars>>

WorkerCheck ==
  /\ wpc = "check" /\ WGoto(IF state = "PLAYING" THEN "frame" ELSE "take")
  /\ UNCHANGED <<shared, cvars>>

WorkerTake ==
  /\ wpc = "take" /\ wake = 1
  /\ wake' = 0 /\ WGoto("loop")
  /\ UNCHANGED <<state, quit, format, opened, queue, cvars>>

\* audio_pipeline_process_frame() delivers a frame ...
FrameDone ==
  /\ wpc = "frame" /\ WGoto("loop") /\ UNCHANGED <<shared, cvars>>

\* ... finds the end of the stream, or fails.
FrameEnds(ev) ==
  /\ wpc = "frame" /\ wpc' = "read" /\ wev' = ev
  /\ UNCHANGED <<shared, cvars, wseen, wnode>>

WorkerTrigger == IF wev = "EOF" THEN "EOF" ELSE "CLOSE"

\* Mutant of WorkerReadState: a refused move ends the reaction.
MutWorkerReadState ==
  /\ wpc = "read"
  /\ wseen' = state
  /\ wpc' = IF Legal(WorkerTrigger, state) THEN "swap" ELSE "loop"
  /\ UNCHANGED <<shared, cvars, wev, wnode>>

\* pipeline_transition() of the worker; a refused move is passed over.
WorkerReadState ==
  /\ wpc = "read"
  /\ wseen' = state
  /\ wpc' = IF Legal(WorkerTrigger, state) THEN "swap" ELSE "callback"
  /\ UNCHANGED <<shared, cvars, wev, wnode>>

WorkerSwapLost ==
  /\ wpc = "swap" /\ state # wseen /\ WGoto("read")
  /\ UNCHANGED <<shared, cvars>>

WorkerSwap ==
  /\ wpc = "swap" /\ state = wseen
  /\ state' \in States /\ Move(WorkerTrigger, wseen, state')
  /\ WGoto(IF wev = "EOF" THEN "callback" ELSE "close")
  /\ UNCHANGED <<quit, wake, format, opened, queue, cvars>>

\* Mutant of WorkerCloseNode: the walk ends one node early.
MutWorkerCloseNode ==
  /\ wpc = "close"
  /\ opened' = [opened EXCEPT ![wnode] = NoFormat]
  /\ IF wnode >= ChainLength - 1
       THEN wpc' = "callback" /\ wnode' = 1
       ELSE wpc' = "close" /\ wnode' = wnode + 1
  /\ UNCHANGED <<state, quit, wake, format, queue, cvars, wev, wseen>>

\* pipeline_close_chain() from the sink to the source; its error is dropped.
WorkerCloseNode ==
  /\ wpc = "close"
  /\ opened' = [opened EXCEPT ![wnode] = NoFormat]
  /\ IF wnode = ChainLength
       THEN wpc' = "callback" /\ wnode' = 1
       ELSE wpc' = "close" /\ wnode' = wnode + 1
  /\ UNCHANGED <<state, quit, wake, format, queue, cvars, wev, wseen>>

WorkerCallback ==
  /\ wpc = "callback" /\ WGoto("put") /\ UNCHANGED <<shared, cvars>>

\* The event is queued; the locals of the loop's body die.
WorkerPut ==
  /\ wpc = "put" /\ Enqueue(wev)
  /\ wpc' = "loop" /\ wev' = "EOF" /\ wseen' = "UNINIT" /\ wnode' = 1
  /\ UNCHANGED <<state, quit, wake, format, opened, cvars>>

-----------------------------------------------------------------------------
\* audio_pipeline_get_event(), by any thread.
GetEvent ==
  /\ state # "UNINIT" /\ queue # << >>
  /\ queue' = Tail(queue)
  /\ UNCHANGED <<state, quit, wake, format, opened, cvars, wvars>>

Calls ==
  \/ CallInit \/ CallStart \/ CallPlay \/ CallStop \/ CallJoin
  \/ \E f \in Formats : CallSetFormat(f)

InCall ==
  \/ OpenNode \/ OpenNodeFails \/ CloseNode \/ CloseDone \/ Callback \/ Put
  \/ Arm \/ RequestQuit \/ GiveWake \/ AwaitExit
  \/ ReadState \/ SwapLost \/ Swap \/ Spawn

Worker ==
  \/ WorkerLoop \/ WorkerCheck \/ WorkerTake \/ FrameDone
  \/ \E ev \in Events : FrameEnds(ev)
  \/ WorkerReadState \/ WorkerSwapLost \/ WorkerSwap
  \/ WorkerCloseNode \/ WorkerCallback \/ WorkerPut

Next == Calls \/ InCall \/ Worker \/ GetEvent

Spec == Init /\ [][Next]_vars

\* Both threads are scheduled, and no node blocks for ever; the application
\* need not call anything.
FairSpec == Spec /\ WF_vars(InCall) /\ WF_vars(Worker)

-----------------------------------------------------------------------------
(* Properties. *)

ControlPlaces == {"idle", "open", "close", "callback", "put", "arm", "read",
                  "swap", "spawn", "quit", "wake", "wait"}
WorkerPlaces  == {"none", "loop", "check", "take", "frame", "read", "swap",
                  "close", "callback", "put", "exited"}

\* Every variable has its type, and the event queue never exceeds its slots.
TypeOK ==
  /\ state \in States /\ quit \in {0, 1} /\ wake \in {0, 1}
  /\ format \in Formats \union {NoFormat}
  /\ opened \in [Nodes -> Formats \union {NoFormat}]
  /\ queue \in Seq(Events) /\ Len(queue) <= QueueDepth
  /\ cpc \in ControlPlaces /\ cop \in Triggers
  /\ centry \in States /\ cseen \in States
  /\ cnode \in 1..(ChainLength + 1) /\ cend \in 1..(ChainLength + 1)
  /\ cerr \in {0, 1}
  /\ wpc \in WorkerPlaces /\ wev \in Events /\ wseen \in States
  /\ wnode \in Nodes

\* An event once queued stays until a reader takes it from the head, through
\* errors, join() and restart, whichever thread publishes next and however full
\* the queue is, so that the first error is the one that is read.  Only an
\* init() empties the queue, beside no worker and no other call.
OldestEventsStay ==
  [][ \/ /\ Len(queue) <= Len(queue') /\ Len(queue') <= QueueDepth
         /\ \A i \in DOMAIN queue : queue'[i] = queue[i]
      \/ queue # << >> /\ queue' = Tail(queue)
      \/ queue' = << >> /\ cpc = "idle" /\ ~WorkerAlive ]_vars

IsOpen(n) == opened[n] # NoFormat

AllOpen == \A n \in Nodes : IsOpen(n)
NoneOpen == \A n \in Nodes : ~IsOpen(n)

\* A state that claims an open chain is only ever seen over a chain whose
\* every node is open; any other state, once nobody walks the chain, over one
\* whose every node is closed.  The state is one word moved by two threads,
\* the chain is opened and closed node by node around those moves.
ChainMatchesState ==
  /\ HasOpenChain(state) => AllOpen
  /\ ~HasOpenChain(state) /\ wpc # "close" /\ cpc \notin {"open", "close", "arm"}
     /\ ~(cop = "START" /\ cpc \in {"read", "swap"}) => NoneOpen

\* No node is opened twice, closed twice, or asked for a frame while closed,
\* whatever calls race the worker's reaction to an error.
NodeCallsBalanced ==
  /\ cpc = "open" => ~IsOpen(cnode)
  /\ cpc = "close" /\ cnode < cend => IsOpen(cnode)
  /\ wpc = "close" => IsOpen(wnode)
  /\ wpc = "frame" => AllOpen

\* What pipeline_close_nodes() claims for its compare-and-swap: no node is
\* closed twice, because one thread only gets to close the chain.  (A node is
\* closed twice if close() finds it closed.)
ClosedOnce ==
  /\ cpc = "close" /\ cnode < cend => IsOpen(cnode)
  /\ wpc = "close" => IsOpen(wnode)

\* The nodes of an open chain all run on the format that is bound now: it is
\* never swapped underneath them.
OneFormat == \A n \in Nodes : IsOpen(n) => opened[n] = format

\* When the application is told of a node error, by the callback already, the
\* chain is down and the state says so.
ErrorMeansQuiesced ==
  wpc = "callback" /\ wev = "ERROR" => state = "CLOSED" /\ NoneOpen

\* A state that has a worker is held by a live one, but while start() is about
\* to create it or join() has just seen it leave; a worker never runs under a
\* state that has none, and never leaves unless join() asked.
WorkerMatchesState ==
  /\ WorkerAlive => HasWorker(state)
  /\ HasWorker(state) /\ ~WorkerAlive =>
       \/ cpc = "spawn"
       \/ cop = "JOIN" /\ cpc \in {"wake", "wait", "read", "swap"}

\* The worker never waits with an empty semaphore for work it should be doing,
\* except in the moment between a play() or join() and its k_sem_give().
NoLostWakeup ==
  wpc = "take" /\ wake = 0 /\ (state = "PLAYING" \/ quit = 1) => cpc = "wake"

\* join() returns from wherever the worker is when it is called.
JoinReturns == (cop = "JOIN" /\ cpc # "idle") ~> cpc = "idle"

\* A pipeline put to PLAYING gets its worker to a frame, or is stopped.
PlayReachesFrame ==
  state = "PLAYING" ~> (wpc = "frame" \/ state # "PLAYING" \/ quit = 1)

\* The end of a stream and a node error are told to the application even when
\* stop() takes the state away from the worker.  The compare-and-swap loop is
\* lock free, not wait free: a stop() and play() alternating for ever could
\* keep the worker in it, so the calls must come to an end.
FrameEndIsTold ==
  <>[](cpc = "idle") =>
    \A ev \in Events :
      (wpc = "read" /\ wev = ev) ~> (wpc = "callback" /\ wev = ev)

-----------------------------------------------------------------------------
(* Refinement.  The chain is in the hands of whoever walks it. *)

ChainPhase ==
  IF HasOpenChain(state) THEN "open"
  ELSE IF NoneOpen THEN "closed"
  ELSE IF wpc = "close" \/ cop = "JOIN" THEN "closing"
  ELSE "opening"

Contract == INSTANCE PipelineContract WITH
  mode <- state, chain <- ChainPhase,
  told <- IF wpc = "callback" THEN wev ELSE "none"

\* The two threads, their compare-and-swap loops and the node by node walks
\* together behave like the atomic lifecycle of the API reference.
ImplementsContract == Contract!Spec
=============================================================================
