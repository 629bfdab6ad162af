-------------------------- MODULE NodeChainProofs ---------------------------
(***************************************************************************)
(* The walks and the pull are safe for any number of nodes, wired up in    *)
(* any way, and any bound on the depth.                                    *)
(*                                                                         *)
(* A walk knows nothing of the wiring but the node it is at.  The invariant *)
(* gives the nodes behind it their positions: a walk is on a line as long  *)
(* as it meets a new node with every step, and in a trap once it met one   *)
(* again, from where it never reaches the end of the links.                *)
(***************************************************************************)
EXTENDS NodeChain, FiniteSetTheorems, TLAPS

TypeOK ==
  /\ upstream \in [Nodes -> Nodes \union {Nil}] /\ sink \in Nodes
  /\ acyclic \in {0, 1}
  /\ isOpen \in SUBSET Nodes /\ misused \in SUBSET Nodes
  /\ pc \in {"idle", "open", "close", "call", "return"}
  /\ node \in Nodes \union {Nil} /\ end \in Nodes \union {Nil} /\ depth \in 0..MaxDepth
  /\ result \in {"none", "ok", "failed", "ELOOP"}
  /\ pullers \in Seq(Nodes) /\ answer \in Answers
  /\ happened \in SUBSET {"frame", "empty", "error"}
  /\ told \in {"none", "EOF"} \union Errors

\* A chain is open at every place from the end of start() to the next close.
ResultMatchesPlace ==
  /\ pc \in {"call", "return"} => result = "ok" /\ node \in Nodes
  /\ pc \in {"open", "close"} => result # "ok"
  /\ pc = "open" => end = Nil

\* In a wiring, the nodes of S, one behind the other from one node on, are n
\* and lead to the node last, which is none of them.
Line(links, from, S, pos, n, last) ==
  /\ pos \in [S -> 0..(n - 1)]
  /\ \A m, k \in S : pos[m] = pos[k] => m = k
  /\ \A m \in S : IF pos[m] = n - 1 THEN links[m] = last
                  ELSE links[m] \in S /\ pos[links[m]] = pos[m] + 1
  /\ IF n = 0 THEN last = from ELSE from \in S /\ pos[from] = 0
  /\ last \notin S

\* The links lead from the nodes of S to nodes of S only.
Trap(links, S) == \A m \in S : links[m] \in S

\* The rank that a wiring without a cycle has.
Falls(links, rank) == \A n \in Nodes : links[n] # Nil => rank[links[n]] < rank[n]

-----------------------------------------------------------------------------
(* The inductive invariant. *)

\* Nothing is ever open that the links do not lead to from the sink.
OnlyChainOpens == isOpen \subseteq Chain /\ (pc = "open" => node \in Chain \union {Nil})

\* The opening walk is on a line of nodes that it opened, or in a trap.  The
\* rank of a wiring without a cycle keeps it out of one, and there the nodes
\* it opened are all that are open.
OpenWalk ==
  pc = "open" =>
    /\ \/ \E S \in SUBSET isOpen : \E pos \in [S -> 0..(depth - 1)] :
            Line(upstream, sink, S, pos, depth, node) /\ (acyclic = 1 => S = isOpen)
       \/ acyclic = 0 /\ \E S \in SUBSET Nodes : node \in S /\ Trap(upstream, S)
    /\ acyclic = 1 => \E rank \in [Nodes -> Int] :
                        Falls(upstream, rank) /\ \A m \in isOpen : node # Nil => rank[node] < rank[m]

\* Without a cycle the closing walk is on the line that was open when it
\* began, and what is open is the rest of it.
CloseWalk ==
  pc = "close" /\ acyclic = 1 =>
    \E S \in SUBSET Nodes, n \in depth..MaxDepth : \E pos \in [S -> 0..(n - 1)] :
      /\ Line(upstream, sink, S, pos, n, end)
      /\ isOpen = {m \in S : pos[m] >= depth}
      /\ IF depth < n THEN node \in S /\ pos[node] = depth ELSE node = end

\* What a start() opened is a line to the end of the links, all of the chain
\* and no longer than the bound, whatever else is wired up.  The nodes that
\* wait for an answer are the ones in front of the node that was asked.
OpenChain ==
  result = "ok" =>
    \E n \in 1..MaxDepth : \E pos \in [isOpen -> 0..(n - 1)] :
      /\ Line(upstream, sink, isOpen, pos, n, Nil)
      /\ pc \in {"call", "return"} =>
           /\ node \in isOpen /\ pos[node] = Len(pullers)
           /\ \A i \in DOMAIN pullers : pullers[i] \in isOpen /\ pos[pullers[i]] = i - 1

\* A rank exists if the history variable says that there is no cycle, and then
\* a failed start() has left nothing behind and no node was misused.
CleanWithoutCycle ==
  acyclic = 1 =>
    /\ \E rank \in [Nodes -> Int] : Falls(upstream, rank)
    /\ pc = "idle" /\ result # "ok" => isOpen = {}
    /\ misused = {}

\* The answer tells what came before it: an error as long as there was one.
AnswerMatchesFrame ==
  /\ pc = "call" => happened = {}
  /\ pc = "return" => IF answer \in Errors THEN "error" \in happened
                                           ELSE happened = {answer}
  /\ pc \notin {"call", "return"} => pullers = <<>>

IInv ==
  /\ TypeOK /\ ResultMatchesPlace /\ OnlyChainOpens /\ OpenWalk /\ CloseWalk
  /\ OpenChain /\ CleanWithoutCycle /\ AnswerMatchesFrame

-----------------------------------------------------------------------------
(* Lines and traps. *)

\* The links lead from the chain to the chain.
LEMMA ChainClosed ==
  ASSUME TypeOK
  PROVE  /\ Chain \subseteq Nodes /\ sink \in Chain
         /\ \A n \in Chain : upstream[n] \in Chain \union {Nil}
BY DEF TypeOK, Chain

\* A set of nodes that the sink is in and the links do not lead out of holds
\* the whole chain.
LEMMA ChainLeast ==
  ASSUME NEW S \in SUBSET Nodes, sink \in S, \A m \in S : upstream[m] \in S \union {Nil}
  PROVE  Chain \subseteq S
BY DEF Chain

\* A line to the end of the links is the chain, or more than it.
LEMMA LineCovers ==
  ASSUME TypeOK, NEW S \in SUBSET Nodes, NEW n \in Nat, NEW pos, Line(upstream, sink, S, pos, n, Nil)
  PROVE  Chain \subseteq S
<1>1. sink \in S
  BY NodeAssumption DEF TypeOK, Line
<1>2. \A m \in S : upstream[m] \in S \union {Nil}
  BY DEF Line
<1> QED
  BY <1>1, <1>2, ChainLeast

\* A line is as long as its positions say.
LEMMA LineLength ==
  ASSUME NEW S, NEW n \in Nat, NEW pos, NEW last, Line(upstream, sink, S, pos, n, last)
  PROVE  IsFiniteSet(S) /\ Cardinality(S) <= n
<1>1. IsFiniteSet(0..(n - 1)) /\ Cardinality(0..(n - 1)) = n
  <2>1. Cardinality(0..(n - 1)) = IF 0 > n - 1 THEN 0 ELSE (n - 1) - 0 + 1
    BY FS_Interval
  <2> QED
    BY <2>1, FS_Interval
<1>2. pos \in Injection(S, 0..(n - 1))
  BY DEF Line, Injection, IsInjective
<1> QED
  BY <1>1, <1>2, FS_Injection

\* A walk that meets a new node is on a line that is longer by one.
LEMMA LineGrows ==
  ASSUME NEW S \in SUBSET Nodes, NEW n \in Nat, NEW pos, NEW last \in Nodes,
         Line(upstream, sink, S, pos, n, last), upstream[last] \notin S \union {last}
  PROVE  \E q \in [S \union {last} -> 0..n] :
           Line(upstream, sink, S \union {last}, q, n + 1, upstream[last])
<1> DEFINE T == S \union {last}
           q == [m \in T |-> IF m = last THEN n ELSE pos[m]]
<1>1. q \in [T -> 0..n]
  BY DEF Line
<1>2. \A m, k \in T : q[m] = q[k] => m = k
  BY DEF Line
<1>3. \A m \in T : IF q[m] = n THEN upstream[m] = upstream[last]
                   ELSE upstream[m] \in T /\ q[upstream[m]] = q[m] + 1
  <2>1. ASSUME NEW m \in S, pos[m] = n - 1
        PROVE  q[m] # n /\ upstream[m] \in T /\ q[upstream[m]] = q[m] + 1
    BY <2>1 DEF Line
  <2>2. ASSUME NEW m \in S, pos[m] # n - 1
        PROVE  q[m] # n /\ upstream[m] \in T /\ q[upstream[m]] = q[m] + 1
    BY <2>2 DEF Line
  <2> QED
    BY <2>1, <2>2
<1>4. sink \in T /\ q[sink] = 0
  <2>1. CASE n = 0
    BY <2>1 DEF Line
  <2>2. CASE n # 0
    <3>1. sink \in S /\ pos[sink] = 0 /\ sink # last
      BY <2>2 DEF Line
    <3> QED
      BY <3>1
  <2> QED
    BY <2>1, <2>2
<1>5. Line(upstream, sink, T, q, n + 1, upstream[last])
  <2>1. (n + 1) - 1 = n /\ n + 1 # 0
    OBVIOUS
  <2> HIDE DEF T, q
  <2>2. upstream[last] \notin T
    BY DEF T
  <2> QED
    BY <1>1, <1>2, <1>3, <1>4, <2>1, <2>2 DEF Line
<1> QED
  BY <1>1, <1>5

\* A walk that comes back to its line is in a trap.
LEMMA LineCloses ==
  ASSUME NEW S \in SUBSET Nodes, NEW n \in Nat, NEW pos, NEW last \in Nodes,
         Line(upstream, sink, S, pos, n, last), upstream[last] \in S \union {last}
  PROVE  Trap(upstream, S \union {last})
BY DEF Line, Trap
-----------------------------------------------------------------------------
(* Every step keeps the invariant. *)

\* Every action gives every variable a value of its type.
LEMMA TypeStep == TypeOK /\ ResultMatchesPlace /\ [Next]_vars => TypeOK'
<1> SUFFICES ASSUME TypeOK, ResultMatchesPlace, [Next]_vars PROVE TypeOK'
  OBVIOUS
<1> USE NodeAssumption, DepthAssumption
        DEF TypeOK, Errors, Answers, wiring, walk, pull, Walk, WalkOver, Advance
<1>1. CASE Start
  BY <1>1 DEF Start
<1>2. CASE OpenNext
  BY <1>2 DEF OpenNext
<1>3. CASE OpenFails
  BY <1>3 DEF OpenFails
<1>4. CASE TooDeep
  BY <1>4 DEF TooDeep
<1>5. CASE OpenDone
  BY <1>5 DEF OpenDone
<1>6. CASE Close
  BY <1>6 DEF Close
<1>7. CASE CloseNext
  BY <1>7 DEF CloseNext
<1>8. CASE CloseDone
  BY <1>8 DEF CloseDone
<1>9. CASE ProcessFrame
  BY <1>9 DEF ProcessFrame
<1>10. CASE PullsUpstream
  <2>1. Append(pullers, node) \in Seq(Nodes)
    BY <1>10 DEF PullsUpstream, ResultMatchesPlace
  <2> QED
    BY <1>10, <2>1 DEF PullsUpstream, ResultMatchesPlace
<1>11. CASE PullsNothing
  BY <1>11 DEF PullsNothing, Returns
<1>12. CASE AnswersItself
  BY <1>12 DEF AnswersItself, Returns
<1>13. CASE HandsOn
  <2>1. /\ pullers[Len(pullers)] \in Nodes
        /\ SubSeq(pullers, 1, Len(pullers) - 1) \in Seq(Nodes)
    BY <1>13 DEF HandsOn
  <2> QED
    BY <1>13, <2>1 DEF HandsOn, Returns, EofSafe
<1>14. CASE FrameOver
  BY <1>14 DEF FrameOver, FrameResult, EofSafe
<1>15. CASE UNCHANGED vars
  BY <1>15 DEF vars
<1> QED
  BY <1>1, <1>2, <1>3, <1>4, <1>5, <1>6, <1>7, <1>8, <1>9, <1>10, <1>11,
     <1>12, <1>13, <1>14, <1>15 DEF Next, Steps
\* The places of the calls, and what the answer tells of the frame.
LEMMA PlaceStep ==
  IInv /\ [Next]_vars => ResultMatchesPlace' /\ AnswerMatchesFrame'
<1> SUFFICES ASSUME TypeOK, ResultMatchesPlace, AnswerMatchesFrame, [Next]_vars
             PROVE  ResultMatchesPlace' /\ AnswerMatchesFrame'
  BY DEF IInv
<1> USE NodeAssumption
        DEF TypeOK, ResultMatchesPlace, AnswerMatchesFrame, Errors, Answers,
        wiring, walk, pull, Walk, WalkOver, Advance
<1>1. CASE Start \/ Close \/ ProcessFrame
  BY <1>1 DEF Start, Close, ProcessFrame
<1>2. CASE OpenNext \/ OpenFails \/ TooDeep \/ OpenDone
  BY <1>2 DEF OpenNext, OpenFails, TooDeep, OpenDone
<1>3. CASE CloseNext \/ CloseDone
  BY <1>3 DEF CloseNext, CloseDone
<1>4. CASE PullsUpstream
  BY <1>4 DEF PullsUpstream
<1>5. CASE PullsNothing
  BY <1>5 DEF PullsNothing, Returns
<1>6. CASE AnswersItself
  <2>1. PICK a \in Answers : Returns(a)
    BY <1>6 DEF AnswersItself
  <2> QED
    BY <1>6, <2>1 DEF AnswersItself, Returns
<1>7. CASE HandsOn
  <2>1. pullers[Len(pullers)] \in Nodes
    BY <1>7 DEF HandsOn
  <2>2. PICK a \in Answers : /\ Returns(a)
                             /\ answer \in Errors => a \in Errors
                             /\ a \notin Errors => a = answer
    BY <1>7 DEF HandsOn, EofSafe
  <2>3. IF a \in Errors THEN "error" \in happened' ELSE happened' = {a}
    BY <1>7, <2>2 DEF HandsOn, Returns
  <2> QED
    BY <1>7, <2>1, <2>2, <2>3 DEF HandsOn, Returns
<1>8. CASE FrameOver
  BY <1>8 DEF FrameOver, FrameResult, EofSafe
<1>9. CASE UNCHANGED vars
  BY <1>9 DEF vars
<1> QED
  BY <1>1, <1>2, <1>3, <1>4, <1>5, <1>6, <1>7, <1>8, <1>9 DEF Next, Steps

\* The wiring stays, and with it the chain.
LEMMA WiringStays ==
  [Next]_vars => /\ upstream' = upstream /\ sink' = sink /\ acyclic' = acyclic
                 /\ Chain' = Chain
<1>1. [Next]_vars => UNCHANGED wiring
  BY DEF Next, Steps, vars, wiring, Start, OpenNext, OpenFails, TooDeep, OpenDone, Close,
         CloseNext, CloseDone, ProcessFrame, PullsUpstream, PullsNothing, AnswersItself,
         HandsOn, FrameOver
<1>2. UNCHANGED wiring => Chain' = Chain
  BY DEF wiring, Chain
<1> QED
  BY <1>1, <1>2 DEF wiring

\* Only the opening walk opens, and it follows the links from the sink.
LEMMA ReachStep == IInv /\ [Next]_vars => OnlyChainOpens'
<1> SUFFICES ASSUME TypeOK, OnlyChainOpens, [Next]_vars PROVE OnlyChainOpens'
  BY DEF IInv
<1> USE NodeAssumption DEF OnlyChainOpens
<1>0. /\ Chain' = Chain /\ sink' = sink /\ upstream' = upstream
      /\ sink \in Chain /\ \A n \in Chain : upstream[n] \in Chain \union {Nil}
  BY WiringStays, ChainClosed
<1>1. CASE Start
  BY <1>0, <1>1 DEF Start, Walk
<1>2. CASE OpenNext
  BY <1>0, <1>2 DEF OpenNext, Advance
<1>3. CASE OpenFails \/ TooDeep \/ OpenDone \/ Close \/ CloseNext \/ CloseDone
  BY <1>0, <1>3 DEF OpenFails, TooDeep, OpenDone, Close, CloseNext, CloseDone,
                    Walk, WalkOver, Advance
<1>4. CASE ProcessFrame \/ PullsUpstream \/ PullsNothing \/ AnswersItself \/ HandsOn
  BY <1>0, <1>4 DEF ProcessFrame, PullsUpstream, PullsNothing, AnswersItself, HandsOn, Returns
<1>5. CASE FrameOver
  BY <1>0, <1>5 DEF FrameOver, Walk, WalkOver
<1>6. CASE UNCHANGED vars
  BY <1>0, <1>6 DEF vars, walk
<1> QED
  BY <1>1, <1>2, <1>3, <1>4, <1>5, <1>6 DEF Next, Steps
\* Where the next place of a walk or a pull can come from.
LEMMA PlacesFrom ==
  ASSUME ResultMatchesPlace, [Next]_vars
  PROVE  /\ pc' = "open" => Start \/ OpenNext \/ UNCHANGED vars
         /\ pc' = "close" => OpenFails \/ TooDeep \/ Close \/ FrameOver \/ CloseNext
                             \/ UNCHANGED vars
         /\ result' = "ok" => \/ OpenDone \/ ProcessFrame \/ PullsUpstream
                              \/ PullsNothing \/ AnswersItself \/ HandsOn
                              \/ FrameOver /\ result = "ok" /\ pc' = "idle"
                              \/ UNCHANGED vars
         /\ pc' = "idle" /\ result' # "ok" => CloseNext \/ CloseDone \/ UNCHANGED vars
<1> USE DEF ResultMatchesPlace, Walk, WalkOver, Advance
<1>1. ASSUME Start \/ Close PROVE pc' \in {"open", "close"} /\ result' # "ok"
                                  /\ (Close => pc' = "close") /\ (Start => pc' = "open")
  BY <1>1 DEF Start, Close
<1>2. ASSUME OpenNext PROVE pc' = "open" /\ result' # "ok"
  BY <1>2 DEF OpenNext
<1>3. ASSUME OpenFails \/ TooDeep PROVE pc' = "close" /\ result' # "ok"
  BY <1>3 DEF OpenFails, TooDeep
<1>4. ASSUME OpenDone PROVE pc' = "idle" /\ result' = "ok"
  BY <1>4 DEF OpenDone
<1>5. ASSUME CloseNext \/ CloseDone PROVE pc' \in {"close", "idle"} /\ result' # "ok"
                                          /\ (CloseDone => pc' = "idle")
  BY <1>5 DEF CloseNext, CloseDone
<1>6. ASSUME ProcessFrame \/ PullsUpstream \/ PullsNothing \/ AnswersItself \/ HandsOn
      PROVE  pc' \in {"call", "return"} /\ result' = "ok"
  BY <1>6 DEF ProcessFrame, PullsUpstream, PullsNothing, AnswersItself, HandsOn, Returns
<1>7. ASSUME FrameOver
      PROVE  result = "ok" /\ \/ pc' = "close" /\ result' # "ok"
                              \/ pc' = "idle" /\ result' = "ok"
  BY <1>7 DEF FrameOver
<1> QED
  BY <1>1, <1>2, <1>3, <1>4, <1>5, <1>6, <1>7 DEF Next, Steps

\* The opening walk stays on its line, or runs into a trap; in a wiring with a
\* rank there is none, because the rank falls with every step.
LEMMA OpenStep == IInv /\ [Next]_vars => OpenWalk'
<1> SUFFICES ASSUME IInv, [Next]_vars, pc' = "open" PROVE OpenWalk'
  BY DEF OpenWalk
<1> USE NodeAssumption, DepthAssumption
<1>0. TypeOK /\ sink' = sink /\ upstream' = upstream /\ acyclic' = acyclic
  BY WiringStays DEF IInv
<1>1. CASE Start
  <2>1. /\ node' = sink /\ depth' = 0 /\ isOpen' = isOpen
        /\ acyclic = 1 => isOpen = {} /\ \E rank \in [Nodes -> Int] : Falls(upstream, rank)
    BY <1>1 DEF Start, Walk, IInv, CleanWithoutCycle
  <2>2. \E pos \in [{} -> 0..(depth' - 1)] : Line(upstream, sink, {}, pos, depth', node')
    <3> DEFINE p == [m \in {} |-> 0]
    <3>1. p \in [{} -> 0..(depth' - 1)] /\ p \in [{} -> 0..(0 - 1)]
      OBVIOUS
    <3> QED
      BY <1>0, <2>1, <3>1 DEF Line
  <2>3. acyclic = 1 => \E rank \in [Nodes -> Int] :
                         Falls(upstream, rank) /\ \A m \in isOpen' : node' # Nil => rank[node'] < rank[m]
    BY <2>1
  <2> QED
    BY <1>0, <2>1, <2>2, <2>3 DEF OpenWalk
<1>2. CASE OpenNext
  <2>1. /\ pc = "open" /\ node \in Nodes /\ depth \in Nat
        /\ isOpen' = isOpen \union {node} /\ node' = upstream[node] /\ depth' = depth + 1
    BY <1>0, <1>2 DEF OpenNext, Advance, TypeOK
  <2>2. acyclic = 1 => \E rank \in [Nodes -> Int] :
                         Falls(upstream, rank) /\ \A m \in isOpen' : node' # Nil => rank[node'] < rank[m]
    <3> SUFFICES ASSUME acyclic = 1
                 PROVE  \E rank \in [Nodes -> Int] :
                          Falls(upstream, rank) /\ \A m \in isOpen' : node' # Nil => rank[node'] < rank[m]
      OBVIOUS
    <3>1. PICK rank \in [Nodes -> Int] :
                 Falls(upstream, rank) /\ \A m \in isOpen : node # Nil => rank[node] < rank[m]
      BY <2>1 DEF IInv, OpenWalk
    <3>2. ASSUME NEW m \in isOpen', node' # Nil PROVE rank[node'] < rank[m]
      <4>1. node' \in Nodes /\ rank[node'] < rank[node]
        BY <1>0, <2>1, <3>1, <3>2 DEF Falls, TypeOK
      <4>2. m \in Nodes /\ (m = node \/ rank[node] < rank[m])
        BY <1>0, <2>1, <3>1 DEF TypeOK
      <4> QED
        BY <2>1, <4>1, <4>2
    <3> QED
      BY <3>1, <3>2
  <2>3. CASE \E S \in SUBSET Nodes : node \in S /\ Trap(upstream, S) /\ acyclic = 0
    <3>1. PICK S \in SUBSET Nodes : node \in S /\ Trap(upstream, S)
      BY <2>3
    <3>2. node' \in S
      BY <2>1, <3>1 DEF Trap
    <3> QED
      BY <1>0, <2>2, <2>3, <3>1, <3>2 DEF OpenWalk
  <2>4. CASE \E S \in SUBSET isOpen : \E pos \in [S -> 0..(depth - 1)] :
               Line(upstream, sink, S, pos, depth, node) /\ (acyclic = 1 => S = isOpen)
    <3>0. PICK S \in SUBSET isOpen : \E pos \in [S -> 0..(depth - 1)] :
                 Line(upstream, sink, S, pos, depth, node) /\ (acyclic = 1 => S = isOpen)
      BY <2>4
    <3>1. PICK pos \in [S -> 0..(depth - 1)] :
                 Line(upstream, sink, S, pos, depth, node) /\ (acyclic = 1 => S = isOpen)
      BY <3>0
    <3>2. S \in SUBSET Nodes
      BY <1>0 DEF TypeOK
    <3>3. CASE upstream[node] \notin S \union {node}
      <4>1. PICK q \in [S \union {node} -> 0..depth] :
                   Line(upstream, sink, S \union {node}, q, depth + 1, upstream[node])
        BY <2>1, <3>1, <3>2, <3>3, LineGrows
      <4>2. Line(upstream, sink, S \union {node}, q, depth', node')
        BY <2>1, <4>1
      <4>3. q \in [S \union {node} -> 0..(depth' - 1)]
        BY <2>1, <4>1
      <4> QED
        BY <1>0, <2>1, <2>2, <3>1, <4>2, <4>3 DEF OpenWalk
    <3>4. CASE upstream[node] \in S \union {node}
      <4>1. acyclic = 0
        <5>1. CASE acyclic = 1
          <6>1. PICK rank \in [Nodes -> Int] :
                       Falls(upstream, rank) /\ \A m \in isOpen : node # Nil => rank[node] < rank[m]
            BY <2>1, <5>1 DEF IInv, OpenWalk
          <6>2. upstream[node] \in Nodes /\ rank[upstream[node]] < rank[node]
            BY <2>1, <3>2, <3>4, <6>1 DEF Falls
          <6>3. ~ (rank[node] < rank[upstream[node]]) /\ upstream[node] # node
            BY <2>1, <6>1, <6>2
          <6> QED
            BY <2>1, <3>4, <6>1, <6>3
        <5> QED
          BY <1>0, <5>1 DEF TypeOK
      <4>2. Trap(upstream, S \union {node})
        BY <2>1, <3>1, <3>2, <3>4, LineCloses
      <4>3. node' \in S \union {node} /\ S \union {node} \in SUBSET Nodes
        BY <2>1, <3>2, <3>4
      <4> QED
        BY <1>0, <2>2, <4>1, <4>2, <4>3 DEF OpenWalk
    <3> QED
      BY <3>3, <3>4
  <2> QED
    BY <2>1, <2>3, <2>4 DEF IInv, OpenWalk
<1>3. CASE UNCHANGED vars
  BY <1>0, <1>3 DEF IInv, OpenWalk, vars, walk
<1> QED
  BY <1>1, <1>2, <1>3, PlacesFrom DEF IInv
\* A closing walk begins at the sink with the line that is open.
LEMMA CloseBegins ==
  ASSUME TypeOK, UNCHANGED <<upstream, sink, isOpen>>, Walk("close", end'),
         NEW n \in 0..MaxDepth, NEW pos \in [isOpen -> 0..(n - 1)],
         Line(upstream, sink, isOpen, pos, n, end')
  PROVE  CloseWalk'
<1>1. isOpen = {m \in isOpen : pos[m] >= 0}
  OBVIOUS
<1>2. IF 0 < n THEN sink \in isOpen /\ pos[sink] = 0 ELSE sink = end'
  BY DEF Line
<1> QED
  BY <1>1, <1>2 DEF CloseWalk, Walk, TypeOK

\* The closing walk takes the nodes of its line in their order.
LEMMA CloseStep == IInv /\ [Next]_vars => CloseWalk'
<1> SUFFICES ASSUME IInv, [Next]_vars, pc' = "close", acyclic' = 1 PROVE CloseWalk'
  BY DEF CloseWalk
<1> USE NodeAssumption, DepthAssumption
<1>0. TypeOK /\ sink' = sink /\ upstream' = upstream /\ acyclic = 1
  BY WiringStays DEF IInv
<1>1. CASE OpenFails \/ TooDeep
  <2>1. /\ pc = "open" /\ depth \in 0..MaxDepth /\ Walk("close", end') /\ end' = node
        /\ isOpen' = isOpen
    BY <1>0, <1>1 DEF OpenFails, TooDeep, Walk, TypeOK
  <2>2. PICK pos \in [isOpen -> 0..(depth - 1)] :
               Line(upstream, sink, isOpen, pos, depth, node)
    BY <1>0, <2>1 DEF IInv, OpenWalk
  <2> QED
    BY <1>0, <2>1, <2>2, CloseBegins
<1>2. CASE Close \/ FrameOver
  <2>1. result = "ok" /\ Walk("close", end') /\ end' = Nil /\ isOpen' = isOpen
    BY <1>2 DEF Close, FrameOver, Walk, WalkOver, IInv, ResultMatchesPlace
  <2>2. PICK n \in 1..MaxDepth : \E pos \in [isOpen -> 0..(n - 1)] :
               Line(upstream, sink, isOpen, pos, n, Nil)
    BY <2>1 DEF IInv, OpenChain
  <2> QED
    BY <1>0, <2>1, <2>2, CloseBegins
<1>3. CASE CloseNext
  <2>1. /\ pc = "close" /\ node \notin {Nil, end} /\ isOpen' = isOpen \ {node}
        /\ node' = upstream[node] /\ depth' = depth + 1 /\ end' = end /\ depth \in Nat
    BY <1>0, <1>3 DEF CloseNext, WalkOver, Advance, TypeOK
  <2>2. PICK S \in SUBSET Nodes, n \in depth..MaxDepth : \E pos \in [S -> 0..(n - 1)] :
          /\ Line(upstream, sink, S, pos, n, end)
          /\ isOpen = {m \in S : pos[m] >= depth}
          /\ IF depth < n THEN node \in S /\ pos[node] = depth ELSE node = end
    BY <1>0, <2>1 DEF IInv, CloseWalk
  <2>3. PICK pos \in [S -> 0..(n - 1)] :
          /\ Line(upstream, sink, S, pos, n, end)
          /\ isOpen = {m \in S : pos[m] >= depth}
          /\ IF depth < n THEN node \in S /\ pos[node] = depth ELSE node = end
    BY <2>2
  <2>4. depth < n /\ node \in S /\ pos[node] = depth /\ n \in depth'..MaxDepth
    BY <2>1, <2>3
  <2>5. isOpen' = {m \in S : pos[m] >= depth'}
    <3>1. \A m \in S : m # node => pos[m] # depth
      BY <2>3, <2>4 DEF Line
    <3> QED
      BY <2>1, <2>3, <2>4, <3>1
  <2>6. IF depth' < n THEN node' \in S /\ pos[node'] = depth' ELSE node' = end'
    BY <2>1, <2>3, <2>4 DEF Line
  <2> QED
    BY <1>0, <2>1, <2>3, <2>4, <2>5, <2>6 DEF CloseWalk
<1>4. CASE UNCHANGED vars
  BY <1>0, <1>4 DEF IInv, CloseWalk, vars, walk
<1> QED
  BY <1>1, <1>2, <1>3, <1>4, PlacesFrom DEF IInv

\* Where the walks are on a line they open what is closed and close what is
\* open, and the closing one reaches the end of its line within the bound.
LEMMA CleanStep == IInv /\ [Next]_vars => CleanWithoutCycle'
<1> SUFFICES ASSUME IInv, [Next]_vars, acyclic' = 1 PROVE CleanWithoutCycle'
  BY DEF CleanWithoutCycle
<1> USE NodeAssumption, DepthAssumption
<1>0. TypeOK /\ sink' = sink /\ upstream' = upstream /\ acyclic = 1
  BY WiringStays DEF IInv
<1>1. misused = {} /\ \E rank \in [Nodes -> Int] : Falls(upstream, rank)
  BY <1>0 DEF IInv, CleanWithoutCycle
<1>2. ASSUME pc = "close"
      PROVE  /\ depth = MaxDepth \/ node \in {Nil, end} => isOpen = {} /\ node = end
             /\ node # end => node \in isOpen
  <2>1. PICK S \in SUBSET Nodes, n \in depth..MaxDepth : \E pos \in [S -> 0..(n - 1)] :
          /\ Line(upstream, sink, S, pos, n, end)
          /\ isOpen = {m \in S : pos[m] >= depth}
          /\ IF depth < n THEN node \in S /\ pos[node] = depth ELSE node = end
    BY <1>0, <1>2 DEF IInv, CloseWalk
  <2>2. PICK pos \in [S -> 0..(n - 1)] :
          /\ Line(upstream, sink, S, pos, n, end)
          /\ isOpen = {m \in S : pos[m] >= depth}
          /\ IF depth < n THEN node \in S /\ pos[node] = depth ELSE node = end
    BY <2>1
  <2>3. depth \in Nat /\ n \in Nat /\ depth <= n /\ n <= MaxDepth
    BY <1>0 DEF TypeOK
  <2>4. CASE depth < n
    BY <2>2, <2>3, <2>4 DEF Line
  <2>5. CASE depth = n
    BY <2>2, <2>3, <2>5
  <2> QED
    BY <2>3, <2>4, <2>5
<1>3. pc' = "idle" /\ result' # "ok" => isOpen' = {}
  <2>1. CASE CloseNext
    BY <1>2, <2>1 DEF CloseNext, Advance
  <2>2. CASE CloseDone
    BY <1>2, <2>2 DEF CloseDone
  <2>3. CASE UNCHANGED vars
    BY <1>0, <2>3 DEF vars, walk, IInv, CleanWithoutCycle
  <2> QED
    BY <2>1, <2>2, <2>3, PlacesFrom DEF IInv
<1>4. misused' = {}
  <2>1. CASE OpenNext
    <3>1. pc = "open" /\ misused' = misused \union (isOpen \intersect {node})
      BY <2>1 DEF OpenNext
    <3>2. node \notin isOpen
      BY <1>0, <3>1 DEF IInv, OpenWalk, Line
    <3> QED
      BY <1>1, <3>1, <3>2
  <2>2. CASE CloseNext
    <3>1. /\ pc = "close" /\ node # end
          /\ misused' \in {misused, misused \union ({node} \ isOpen)}
      BY <2>2 DEF CloseNext
    <3> QED
      BY <1>1, <1>2, <3>1
  <2>3. CASE ~ OpenNext /\ ~ CloseNext
    BY <1>1, <2>3
       DEF Next, Steps, vars, Start, OpenFails, TooDeep, OpenDone, Close, CloseDone,
           ProcessFrame, PullsUpstream, PullsNothing, AnswersItself, HandsOn, FrameOver
  <2> QED
    BY <2>1, <2>2, <2>3
<1> QED
  BY <1>0, <1>1, <1>3, <1>4 DEF CleanWithoutCycle
\* An opening walk that came to the end of the links has the chain behind it,
\* and a pull goes up and down along it.
LEMMA PullStep == IInv /\ [Next]_vars => OpenChain'
<1> SUFFICES ASSUME IInv, [Next]_vars, result' = "ok" PROVE OpenChain'
  BY DEF OpenChain
<1> USE NodeAssumption, DepthAssumption
<1>0. TypeOK /\ sink' = sink /\ upstream' = upstream
  BY WiringStays DEF IInv
<1>1. CASE OpenDone
  <2>1. pc = "open" /\ node = Nil /\ isOpen' = isOpen /\ pc' = "idle" /\ depth \in 0..MaxDepth
    BY <1>0, <1>1 DEF OpenDone, WalkOver, TypeOK
  <2>2. PICK S \in SUBSET isOpen : \E pos \in [S -> 0..(depth - 1)] :
               Line(upstream, sink, S, pos, depth, Nil)
    BY <1>0, <2>1 DEF IInv, OpenWalk
  <2>3. PICK pos \in [S -> 0..(depth - 1)] : Line(upstream, sink, S, pos, depth, Nil)
    BY <2>2
  <2>4. Chain \subseteq S
    BY <1>0, <2>1, <2>3, LineCovers DEF TypeOK
  <2>5. S = isOpen
    BY <2>4 DEF IInv, OnlyChainOpens
  <2>6. depth # 0
    BY <1>0, <2>3 DEF Line, TypeOK
  <2> QED
    BY <1>0, <2>1, <2>3, <2>5, <2>6 DEF OpenChain
<1>2. ASSUME result = "ok", isOpen' = isOpen,
             NEW n \in 1..MaxDepth, NEW pos \in [isOpen -> 0..(n - 1)],
             Line(upstream, sink, isOpen, pos, n, Nil),
             pc \in {"call", "return"} =>
               /\ node \in isOpen /\ pos[node] = Len(pullers)
               /\ \A i \in DOMAIN pullers : pullers[i] \in isOpen /\ pos[pullers[i]] = i - 1,
             ProcessFrame \/ PullsUpstream \/ PullsNothing \/ AnswersItself \/ HandsOn
      PROVE  /\ node' \in isOpen /\ pos[node'] = Len(pullers')
             /\ \A i \in DOMAIN pullers' : pullers'[i] \in isOpen /\ pos[pullers'[i]] = i - 1
  <2> USE <1>2
  <2>0. pullers \in Seq(Nodes) /\ Len(pullers) \in Nat /\ DOMAIN pullers = 1..Len(pullers)
    BY <1>0 DEF TypeOK
  <2>1. CASE ProcessFrame
    <3>1. node' = sink /\ pullers' = pullers /\ pullers = <<>>
      BY <2>1 DEF ProcessFrame, IInv, AnswerMatchesFrame
    <3>2. sink \in isOpen /\ pos[sink] = 0
      BY DEF Line
    <3> QED
      BY <3>1, <3>2
  <2>2. CASE PullsUpstream
    <3>1. /\ pc = "call" /\ node \in Nodes /\ node' = upstream[node] /\ node' # Nil
          /\ pullers' = Append(pullers, node)
      BY <2>2 DEF PullsUpstream, IInv, ResultMatchesPlace
    <3>2. node' \in isOpen /\ pos[node'] = pos[node] + 1
      BY <3>1 DEF Line
    <3>3. Len(pullers') = Len(pullers) + 1 /\ DOMAIN pullers' = 1..(Len(pullers) + 1)
          /\ \A i \in 1..(Len(pullers) + 1) :
               pullers'[i] = IF i = Len(pullers) + 1 THEN node ELSE pullers[i]
      BY <2>0, <3>1
    <3> QED
      BY <2>0, <3>1, <3>2, <3>3
  <2>3. CASE PullsNothing \/ AnswersItself
    BY <2>3 DEF PullsNothing, AnswersItself
  <2>4. CASE HandsOn
    <3>1. /\ pc = "return" /\ pullers # <<>> /\ node' = pullers[Len(pullers)]
          /\ pullers' = SubSeq(pullers, 1, Len(pullers) - 1)
      BY <2>4 DEF HandsOn
    <3>2. /\ Len(pullers') = Len(pullers) - 1 /\ DOMAIN pullers' = 1..(Len(pullers) - 1)
          /\ Len(pullers) \in DOMAIN pullers
          /\ \A i \in 1..(Len(pullers) - 1) : pullers'[i] = pullers[i]
      BY <2>0, <3>1
    <3> QED
      BY <2>0, <3>1, <3>2
  <2> QED
    BY <2>1, <2>2, <2>3, <2>4
<1>3. ASSUME result = "ok", isOpen' = isOpen,
             \/ ProcessFrame \/ PullsUpstream \/ PullsNothing \/ AnswersItself \/ HandsOn
             \/ pc' = "idle"
             \/ UNCHANGED <<pc, node, pullers>>
      PROVE  OpenChain'
  <2>1. PICK n \in 1..MaxDepth : \E pos \in [isOpen -> 0..(n - 1)] :
          /\ Line(upstream, sink, isOpen, pos, n, Nil)
          /\ pc \in {"call", "return"} =>
               /\ node \in isOpen /\ pos[node] = Len(pullers)
               /\ \A i \in DOMAIN pullers : pullers[i] \in isOpen /\ pos[pullers[i]] = i - 1
    BY <1>3 DEF IInv, OpenChain
  <2>2. PICK pos \in [isOpen -> 0..(n - 1)] :
          /\ Line(upstream, sink, isOpen, pos, n, Nil)
          /\ pc \in {"call", "return"} =>
               /\ node \in isOpen /\ pos[node] = Len(pullers)
               /\ \A i \in DOMAIN pullers : pullers[i] \in isOpen /\ pos[pullers[i]] = i - 1
    BY <2>1
  <2>3. pc' \in {"call", "return"} =>
          /\ node' \in isOpen /\ pos[node'] = Len(pullers')
          /\ \A i \in DOMAIN pullers' : pullers'[i] \in isOpen /\ pos[pullers'[i]] = i - 1
    <3>1. CASE UNCHANGED <<pc, node, pullers>>
      BY <2>2, <3>1
    <3> QED
      BY <1>2, <1>3, <2>2, <3>1
  <2> QED
    BY <1>0, <1>3, <2>2, <2>3 DEF OpenChain
<1>4. ASSUME ProcessFrame \/ PullsUpstream \/ PullsNothing \/ AnswersItself \/ HandsOn
      PROVE  result = "ok" /\ isOpen' = isOpen
  BY <1>4 DEF ProcessFrame, PullsUpstream, PullsNothing, AnswersItself, HandsOn
<1>5. ASSUME FrameOver PROVE isOpen' = isOpen
  BY <1>5 DEF FrameOver
<1>6. ASSUME UNCHANGED vars
      PROVE  UNCHANGED <<pc, node, pullers>> /\ isOpen' = isOpen /\ result' = result
  BY <1>6 DEF vars, walk, pull
<1> QED
  BY <1>1, <1>3, <1>4, <1>5, <1>6, PlacesFrom DEF IInv

-----------------------------------------------------------------------------
(* The theorems. *)

\* The invariant holds in every state of every behaviour.
THEOREM Inductive == Spec => []IInv
<1>1. Init => IInv
  <2> SUFFICES ASSUME Init PROVE IInv
    OBVIOUS
  <2>1. acyclic = 1 => \E rank \in [Nodes -> Int] : Falls(upstream, rank)
    BY DEF Init, Acyclic, Falls
  <2> QED
    BY <2>1, NodeAssumption, DepthAssumption
       DEF Init, IInv, TypeOK, ResultMatchesPlace, OnlyChainOpens, OpenWalk, CloseWalk,
           OpenChain, CleanWithoutCycle, AnswerMatchesFrame, Answers
<1>2. IInv /\ [Next]_vars => IInv'
  <2> SUFFICES ASSUME IInv, [Next]_vars PROVE IInv'
    OBVIOUS
  <2>1. TypeOK /\ ResultMatchesPlace
    BY DEF IInv
  <2> QED
    BY <2>1, TypeStep, PlaceStep, ReachStep, OpenStep, CloseStep, CleanStep, PullStep DEF IInv
<1> QED
  BY <1>1, <1>2, PTL DEF Spec

\* Every variable keeps its type; no walk counts beyond its bound.
THEOREM TypeCorrect == Spec => []TypeOK
<1>1. IInv => TypeOK
  BY DEF IInv
<1> QED
  BY <1>1, Inductive, PTL

\* Over any wiring, cycles included, a start() that reports success has opened
\* exactly the nodes that the sink leads to, and they are within the bound.
THEOREM SuccessIsComplete == Spec => []SuccessOpensChain
<1>1. IInv => SuccessOpensChain
  <2> SUFFICES ASSUME IInv, result = "ok" PROVE isOpen = Chain /\ Cardinality(Chain) <= MaxDepth
    BY DEF SuccessOpensChain
  <2>0. TypeOK /\ isOpen \in SUBSET Nodes
    BY DEF IInv, TypeOK
  <2>1. PICK n \in 1..MaxDepth : \E pos \in [isOpen -> 0..(n - 1)] :
               Line(upstream, sink, isOpen, pos, n, Nil)
    BY DEF IInv, OpenChain
  <2>2. PICK pos \in [isOpen -> 0..(n - 1)] : Line(upstream, sink, isOpen, pos, n, Nil)
    BY <2>1
  <2>3. n \in Nat /\ n <= MaxDepth
    BY DepthAssumption
  <2>4. isOpen = Chain
    BY <2>0, <2>2, <2>3, LineCovers DEF IInv, OnlyChainOpens
  <2>5. IsFiniteSet(isOpen) /\ Cardinality(isOpen) <= n
    BY <2>2, <2>3, LineLength
  <2>6. Cardinality(isOpen) \in Nat
    BY <2>5, FS_CardinalityType
  <2> QED
    BY <2>3, <2>4, <2>5, <2>6, DepthAssumption
<1> QED
  BY <1>1, Inductive, PTL

\* In a wiring without a cycle a start() that fails, wherever, closes what it
\* opened, and the next one finds everything closed.
THEOREM FailureLeavesNothing == Spec => []FailedOpenLeavesNothing
<1>1. IInv => FailedOpenLeavesNothing
  BY DEF IInv, CleanWithoutCycle, FailedOpenLeavesNothing, RollbackIsComplete
<1> QED
  BY <1>1, Inductive, PTL

\* In a wiring without a cycle open() and close() alternate on every node.
THEOREM CallsAlternate == Spec => []NoNodeMisused
<1>1. IInv => NoNodeMisused
  BY DEF IInv, CleanWithoutCycle, NoNodeMisused
<1> QED
  BY <1>1, Inductive, PTL

\* Along a chain of any length no error is taken for the end of the stream, no
\* end of the stream for an error, and neither is lost.
THEOREM EndIsToldApart == Spec => []EofIsNoError
<1>1. IInv => EofIsNoError
  BY DEF IInv, TypeOK, AnswerMatchesFrame, EofIsNoError, FrameResult, EofSafe, Answers, Errors
<1> QED
  BY <1>1, Inductive, PTL

\* A pull never meets a closed node, and none twice.
THEOREM PullsAreSafe == Spec => []PullMeetsOpenNodes
<1>1. IInv => PullMeetsOpenNodes
  <2> SUFFICES ASSUME IInv, pc \in {"call", "return"}
               PROVE  /\ node \in isOpen
                      /\ \A i \in DOMAIN pullers : pullers[i] \in isOpen \ {node}
    BY DEF PullMeetsOpenNodes
  <2>1. pullers \in Seq(Nodes) /\ DOMAIN pullers = 1..Len(pullers) /\ Len(pullers) \in Nat
    BY DEF IInv, TypeOK
  <2>2. \E n \in 1..MaxDepth : \E pos \in [isOpen -> 0..(n - 1)] :
           /\ node \in isOpen /\ pos[node] = Len(pullers)
           /\ \A i \in DOMAIN pullers : pullers[i] \in isOpen /\ pos[pullers[i]] = i - 1
    BY DEF IInv, OpenChain, ResultMatchesPlace
  <2> QED
    BY <2>1, <2>2
<1> QED
  BY <1>1, Inductive, PTL
=============================================================================
