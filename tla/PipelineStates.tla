--------------------------- MODULE PipelineStates ---------------------------
(***************************************************************************)
(* The lifecycle states of an audio pipeline and the transition table that *)
(* holds every legal move between them.  Constant level: the modules that  *)
(* move the state extend this one.                                         *)
(***************************************************************************)

\* Zero-initialised memory is "UNINIT".
States == {"UNINIT", "INIT", "OPEN", "PLAYING", "CLOSED"}

\* What may move the state: five API calls, and two reactions of the worker.
Triggers == {"INIT", "START", "PLAY", "STOP", "EOF", "CLOSE", "JOIN"}

\* The rows of the table, as <<trigger, from, to>>.
Transitions ==
  {<<"INIT", "UNINIT", "INIT">>,    <<"INIT", "INIT", "INIT">>,
   <<"START", "INIT", "OPEN">>,     <<"START", "CLOSED", "OPEN">>,
   <<"PLAY", "OPEN", "PLAYING">>,   <<"PLAY", "PLAYING", "PLAYING">>,
   <<"STOP", "PLAYING", "OPEN">>,   <<"STOP", "OPEN", "OPEN">>,
   <<"STOP", "INIT", "INIT">>,      <<"STOP", "CLOSED", "CLOSED">>,
   <<"EOF", "PLAYING", "OPEN">>,
   <<"CLOSE", "PLAYING", "CLOSED">>, <<"CLOSE", "OPEN", "CLOSED">>,
   <<"JOIN", "PLAYING", "INIT">>,   <<"JOIN", "OPEN", "INIT">>,
   <<"JOIN", "CLOSED", "INIT">>,    <<"JOIN", "INIT", "INIT">>}

Move(trigger, from, to) == <<trigger, from, to>> \in Transitions

Legal(trigger, from) == \E to \in States : Move(trigger, from, to)

\* The states in which a worker thread exists.
HasWorker(s) == s \in {"OPEN", "PLAYING", "CLOSED"}

\* The states that claim an open node chain.
HasOpenChain(s) == s \in {"OPEN", "PLAYING"}
=============================================================================
