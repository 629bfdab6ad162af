----------------------- MODULE AudioPipelineInductive -----------------------
(***************************************************************************)
(* The inductive invariant behind the safety properties of AudioPipeline.  *)
(* ThreadInv is what the two threads guarantee each other whatever the     *)
(* application does; ChainInv speaks of the nodes, and holds for an        *)
(* application that touches a failed chain again only once it was told.    *)
(* A run checks both, AudioPipelineProofs proves them.                     *)
(***************************************************************************)
EXTENDS AudioPipeline

\* The types, with the range of the opening walk.
TypeInv ==
  /\ TypeOK
  /\ cpc = "idle" => cnode = 1
  /\ cpc = "open" => cnode \in Nodes

\* Which call each place of the control thread belongs to.
CallPlaces ==
  /\ cpc \in {"open", "arm", "spawn"} => cop = "START"
  /\ cpc \in {"quit", "wait"} => cop = "JOIN"
  /\ cpc = "wake" => cop \in {"PLAY", "JOIN"}
  /\ cpc \in {"close", "callback", "put"} => cop \in {"START", "JOIN"}
  /\ cpc \in {"read", "swap"} => cop \in {"START", "PLAY", "STOP", "JOIN"}
  /\ cpc # "idle" => state # "UNINIT"

\* start() is between its reading of the state and its move.
StartPending == cop = "START" /\ cpc \notin {"idle", "spawn"}

\* Nobody takes away the state start() read, and no old exit request is left
\* for a new worker.
Starting ==
  StartPending =>
    /\ state = centry /\ centry \in {"INIT", "CLOSED"} /\ format # NoFormat
    /\ cpc \in {"read", "swap"} /\ centry = "INIT" => quit = 0

\* join() waits for the worker, and then has the instance to itself.
Joining ==
  cop = "JOIN" =>
    /\ cpc \in {"quit", "wake", "wait"} => HasWorker(state)
    /\ cpc = "quit" => WorkerAlive
    /\ cpc \in {"wake", "wait"} => quit = 1
    /\ cpc \in {"read", "swap", "close", "callback", "put"} => ~WorkerAlive
    /\ cpc \in {"close", "callback", "put"} => state = "INIT"

\* The worker lives in the states that have one, it reacts to a frame only
\* under an open chain, and the exit request reaches it from join() only.
WorkerPhase ==
  /\ WorkerMatchesState
  /\ cpc = "spawn" => state = "OPEN" /\ ~WorkerAlive /\ quit = 0
  /\ quit = 1 /\ WorkerAlive => cop = "JOIN" /\ cpc \in {"wake", "wait"}
  /\ wpc \in {"frame", "read", "swap"} => HasOpenChain(state)
  /\ wpc # "close" => wnode = 1

\* An idle worker has something in the semaphore, or nothing to do.
WakePhase ==
  /\ wpc = "take" /\ wake = 0 /\ state = "PLAYING" => cpc = "wake"
  /\ wpc \in {"check", "take"} /\ wake = 0 /\ quit = 1 => cpc = "wake"

\* The part of the inductive invariant that needs nothing of the application.
ThreadInv ==
  TypeInv /\ CallPlaces /\ Starting /\ Joining /\ WorkerPhase /\ WakePhase

-----------------------------------------------------------------------------

\* The worker takes a chain down under CLOSED only, and start() stays away.
TearDown ==
  /\ wpc = "close" => state = "CLOSED" /\ wev = "ERROR"
  /\ wpc = "callback" /\ wev = "ERROR" => state = "CLOSED"
  /\ StartPending => WorkerQuiesced

\* Where the walks over the chain stand.
Walks ==
  /\ HasOpenChain(state) => AllOpen
  /\ wpc = "close" => \A n \in Nodes : IsOpen(n) <=> n >= wnode
  /\ cpc = "open" => \A n \in Nodes : IsOpen(n) <=> n < cnode
  /\ cpc = "close" => /\ cnode <= cend
                      /\ \A n \in Nodes : IsOpen(n) <=> cnode <= n /\ n < cend
  /\ cop = "START" /\ cpc \in {"arm", "read", "swap"} => AllOpen
  /\ ~HasOpenChain(state) /\ wpc # "close" /\ cpc \notin {"open", "close", "arm"}
     /\ ~(cop = "START" /\ cpc \in {"read", "swap"}) => NoneOpen

\* The part that speaks of the nodes.
ChainInv == TearDown /\ Walks /\ OneFormat

\* The inductive invariant: the threads' part, and under the application's
\* discipline the chain's part.
IInv == ThreadInv /\ (RestartsAfterError => ChainInv)
=============================================================================
