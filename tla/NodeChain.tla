----------------------------- MODULE NodeChain ------------------------------
(***************************************************************************)
(* What the pipeline does to a chain of nodes of any shape: the walks of   *)
(* start() and join(), and the pull of a frame.                            *)
(*                                                                         *)
(* The application wires each node to the one upstream of it; the pipeline *)
(* knows the sink and follows the links, opening or closing on its way,    *)
(* and gives up after MaxDepth nodes.  One node's open() or close() is a   *)
(* step.  A frame is pulled by calling the sink's process(): a node either *)
(* answers by itself or pulls from its upstream first, and then passes on  *)
(* what it got or adds an error of its own.  One call or one return is a   *)
(* step.  AudioPipeline has the races around all this.                     *)
(***************************************************************************)
EXTENDS Integers, FiniteSets, Sequences

CONSTANTS
  Nodes,        \* the nodes the application wires up
  Nil,          \* no upstream: the source's link
  MaxDepth      \* AUDIO_PIPELINE_MAX_CHAIN_DEPTH

ASSUME NodeAssumption == Nodes # {} /\ Nil \notin Nodes
ASSUME DepthAssumption == MaxDepth \in Nat

VARIABLES
  upstream,   \* the links, fixed once wired
  sink,       \* where every walk begins
  acyclic,    \* history: 1 if the links have no cycle
  isOpen,     \* the nodes that are open
  misused,    \* nodes opened while open or closed while closed
  pc,         \* "idle", "open", "close", "call" or "return"
  node,       \* the node the walk has reached, or Nil behind the last
  depth,      \* how many nodes it has visited
  end,        \* the node a closing walk stops short of, or Nil
  result,     \* of the last start(): "none", "ok", "failed" or "ELOOP"
  pullers,    \* the nodes that wait for an answer from upstream, sink first
  answer,     \* what the last call returned
  happened,   \* history: what the nodes came upon during this frame
  told        \* what the worker made of the last frame

wiring == <<upstream, sink, acyclic>>
walk   == <<pc, node, depth, end>>
pull   == <<pullers, answer, happened>>
vars   == <<wiring, isOpen, misused, walk, result, pull, told>>

\* The errors a node's process() may return, one of them the code the
\* pipeline keeps for the end of the stream.
Errors  == {"EIO", "EPIPE", "ENOTSUP"}
Answers == {"frame", "empty"} \union Errors

\* Links without a cycle: a rank falls along every one of them.
Acyclic(up) ==
  \E rank \in [Nodes -> 1..Cardinality(Nodes)] :
    \A n \in Nodes : up[n] # Nil => rank[up[n]] < rank[n]

Init ==
  /\ upstream \in [Nodes -> Nodes \union {Nil}]
  /\ sink \in Nodes /\ acyclic = IF Acyclic(upstream) THEN 1 ELSE 0
  /\ isOpen = {} /\ misused = {}
  /\ pc = "idle" /\ node = Nil /\ depth = 0 /\ end = Nil /\ result = "none"
  /\ pullers = <<>> /\ answer = "frame" /\ happened = {} /\ told = "none"

Walk(what, until) == pc' = what /\ node' = sink /\ depth' = 0 /\ end' = until

WalkOver == pc' = "idle" /\ node' = Nil /\ depth' = 0 /\ end' = Nil

\* The walk goes on with the next node upstream.
Advance == node' = upstream[node] /\ depth' = depth + 1 /\ UNCHANGED <<pc, end>>

-----------------------------------------------------------------------------
(* start(). *)

\* A closed chain is opened from the sink.
Start ==
  /\ pc = "idle" /\ result # "ok"
  /\ Walk("open", Nil)
  /\ UNCHANGED <<wiring, isOpen, misused, result, pull, told>>

\* Mutant of OpenNext: the walk does not count.
MutOpenNext ==
  /\ pc = "open" /\ node # Nil /\ depth < MaxDepth
  /\ isOpen' = isOpen \union {node}
  /\ misused' = misused \union (isOpen \intersect {node})
  /\ node' = upstream[node] /\ UNCHANGED <<pc, depth, end>>
  /\ UNCHANGED <<wiring, result, pull, told>>

OpenNext ==
  /\ pc = "open" /\ node # Nil /\ depth < MaxDepth
  /\ isOpen' = isOpen \union {node}
  /\ misused' = misused \union (isOpen \intersect {node})
  /\ Advance
  /\ UNCHANGED <<wiring, result, pull, told>>

\* Mutant of OpenFails: the node that failed is closed along with the rest.
MutOpenFails ==
  /\ pc = "open" /\ node # Nil /\ depth < MaxDepth
  /\ result' = "failed"
  /\ Walk("close", upstream[node])
  /\ UNCHANGED <<wiring, isOpen, misused, pull, told>>

\* A node refuses: close what is open so far, from the sink up to that node.
OpenFails ==
  /\ pc = "open" /\ node # Nil /\ depth < MaxDepth
  /\ result' = "failed"
  /\ Walk("close", node)
  /\ UNCHANGED <<wiring, isOpen, misused, pull, told>>

\* Mutant of TooDeep: nothing was wrong with the nodes, so none is closed.
MutTooDeep ==
  /\ pc = "open" /\ node # Nil /\ depth = MaxDepth
  /\ result' = "ELOOP"
  /\ WalkOver
  /\ UNCHANGED <<wiring, isOpen, misused, pull, told>>

\* Mutant of TooDeep: the bound ends the walk like the source does.
MutTooDeepSucceeds ==
  /\ pc = "open" /\ node # Nil /\ depth = MaxDepth
  /\ result' = "ok"
  /\ WalkOver
  /\ UNCHANGED <<wiring, isOpen, misused, pull, told>>

\* The chain goes on behind the deepest node a walk may visit.
TooDeep ==
  /\ pc = "open" /\ node # Nil /\ depth = MaxDepth
  /\ result' = "ELOOP"
  /\ Walk("close", node)
  /\ UNCHANGED <<wiring, isOpen, misused, pull, told>>

\* The source was the last one.
OpenDone ==
  /\ pc = "open" /\ node = Nil
  /\ result' = "ok"
  /\ WalkOver
  /\ UNCHANGED <<wiring, isOpen, misused, pull, told>>

-----------------------------------------------------------------------------
(* pipeline_close_chain(), for a failed start() and for join(). *)

\* join(), or the worker after a node error, closes the whole open chain.
Close ==
  /\ pc = "idle" /\ result = "ok"
  /\ result' = "none"
  /\ Walk("close", Nil)
  /\ UNCHANGED <<wiring, isOpen, misused, pull, told>>

\* close() runs whatever it returns, and the walk goes on; it gives up after
\* MaxDepth nodes as well.
CloseNext ==
  /\ pc = "close" /\ node \notin {Nil, end}
  /\ IF depth = MaxDepth
       THEN WalkOver /\ UNCHANGED <<isOpen, misused>>
       ELSE /\ isOpen' = isOpen \ {node}
            /\ misused' = misused \union ({node} \ isOpen)
            /\ Advance
  /\ UNCHANGED <<wiring, result, pull, told>>

CloseDone ==
  /\ pc = "close" /\ node \in {Nil, end}
  /\ WalkOver
  /\ UNCHANGED <<wiring, isOpen, misused, result, pull, told>>

-----------------------------------------------------------------------------
(* audio_pipeline_process_frame(), audio_node_pull() and the worker. *)

\* Mutant of EofSafe: the reserved code is handed on.
MutEofSafe(e) == e

\* -EPIPE is the pipeline's own word for the end of the stream.
EofSafe(e) == IF e = "EPIPE" THEN "EIO" ELSE e

Returns(a) ==
  /\ pc' = "return" /\ answer' = a
  /\ happened' = happened \union {IF a \in Errors THEN "error" ELSE a}

\* The worker of an open chain asks the sink for a frame.
ProcessFrame ==
  /\ pc = "idle" /\ result = "ok"
  /\ pc' = "call" /\ node' = sink /\ happened' = {}
  /\ UNCHANGED <<wiring, isOpen, misused, depth, end, result, pullers, answer, told>>

\* A filter or a sink pulls from its upstream.
PullsUpstream ==
  /\ pc = "call" /\ upstream[node] # Nil
  /\ pullers' = Append(pullers, node) /\ node' = upstream[node]
  /\ UNCHANGED <<wiring, isOpen, misused, pc, depth, end, result, answer, happened, told>>

\* A filter or a sink that was wired up first has nothing to pull from.
PullsNothing ==
  /\ pc = "call" /\ upstream[node] = Nil
  /\ Returns("ENOTSUP")
  /\ UNCHANGED <<wiring, isOpen, misused, node, depth, end, result, pullers, told>>

\* A source, or a node that fails before it pulls, answers by itself.
AnswersItself ==
  /\ pc = "call"
  /\ \E a \in (IF upstream[node] = Nil THEN Answers ELSE Errors) : Returns(a)
  /\ UNCHANGED <<wiring, isOpen, misused, node, depth, end, result, pullers, told>>

\* The pull returns to the node that waits for it, which hands an error or
\* the end of the stream on, or meets an error of its own: a write that
\* fails, a file that cannot be finalised.
HandsOn ==
  /\ pc = "return" /\ pullers # <<>>
  /\ node' = pullers[Len(pullers)]
  /\ pullers' = SubSeq(pullers, 1, Len(pullers) - 1)
  /\ \/ Returns(EofSafe(answer))
     \/ answer \notin Errors /\ \E a \in Errors : Returns(a)
  /\ UNCHANGED <<wiring, isOpen, misused, depth, end, result, told>>

\* What audio_pipeline_process_frame() makes of the sink's answer.
FrameResult == IF answer = "empty" THEN "EPIPE" ELSE EofSafe(answer)

\* The worker goes on with the next frame, ends the stream with the chain
\* open, or closes the chain before it tells the application of the error.
FrameOver ==
  /\ pc = "return" /\ pullers = <<>>
  /\ told' = CASE FrameResult = "frame" -> "none"
               [] FrameResult = "EPIPE" -> "EOF"
               [] OTHER -> FrameResult
  /\ IF told' \in Errors THEN result' = "none" /\ Walk("close", Nil)
                         ELSE WalkOver /\ UNCHANGED result
  /\ UNCHANGED <<wiring, isOpen, misused, pull>>

Steps == \/ OpenNext \/ OpenFails \/ TooDeep \/ OpenDone
         \/ CloseNext \/ CloseDone
         \/ PullsUpstream \/ PullsNothing \/ AnswersItself \/ HandsOn \/ FrameOver

Next == Start \/ Close \/ ProcessFrame \/ Steps

Spec == Init /\ [][Next]_vars

\* No node blocks for ever in open(), close() or process().
FairSpec == Spec /\ WF_vars(Steps)

-----------------------------------------------------------------------------
(* Properties. *)

\* The nodes that the links lead to from the sink.
Chain ==
  {n \in Nodes :
     \A S \in SUBSET Nodes :
       sink \in S /\ (\A m \in S : upstream[m] \in S \union {Nil}) => n \in S}

\* A start() that reports success has opened the chain, all of it, and the
\* chain is no longer than the bound.
SuccessOpensChain ==
  pc = "idle" /\ result = "ok" => isOpen = Chain /\ Cardinality(Chain) <= MaxDepth

\* "On failure everything opened so far is closed again", whatever the wiring.
RollbackIsComplete == pc = "idle" /\ result # "ok" => isOpen = {}

\* A start() that fails, at any node or at the bound, leaves no node open, if
\* the wiring has no cycle.
FailedOpenLeavesNothing == acyclic = 1 => RollbackIsComplete

\* Without a cycle no node is opened while open, or closed while closed.
NoNodeMisused == acyclic = 1 => misused = {}

\* The application hears of the end of the stream only when a source came to
\* its end and no node met an error, and it hears of every error: whatever
\* code the nodes chose, wherever in the chain, and never as an empty track.
EofIsNoError ==
  pc = "return" /\ pullers = <<>> =>
    /\ FrameResult = "EPIPE" <=> happened = {"empty"}
    /\ FrameResult = "frame" <=> happened = {"frame"}

\* Frames are pulled through open nodes only, each of them once.
PullMeetsOpenNodes ==
  pc \in {"call", "return"} =>
    /\ node \in isOpen
    /\ \A i \in DOMAIN pullers : pullers[i] \in isOpen \ {node}

\* Every walk and every frame comes to its end, over links of any shape.
WalksEnd == pc # "idle" ~> pc = "idle"
=============================================================================
