------------------------- MODULE MCBuiltinResources -------------------------
(* Three instances that share every pairing of the built-in resources.     *)
EXTENDS BuiltinResources, TLC

CONSTANTS a, b, c

\* a is hand-rolled and needs all three built-ins; b brings its stack and its
\* frame buffer, c its event slots: a excludes the other two, b and c coexist.
MCPipelines == {a, b, c}

\* The two of them that contend for the event slots.
MCSlotUsers == {a, b}

MCOwnOf == (a :> {}) @@ (b :> {"stack", "frame"}) @@ (c :> {"slots"})
MCAllocOf == (a :> 3) @@ (b :> 2) @@ (c :> 3)
MCOwn == [p \in Pipelines |-> MCOwnOf[p]]
MCAlloc == [p \in Pipelines |-> MCAllocOf[p]]
=============================================================================
