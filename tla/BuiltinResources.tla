-------------------------- MODULE BuiltinResources --------------------------
(***************************************************************************)
(* Several pipeline instances and the one built-in stack, frame buffer and *)
(* set of event slots they contend for.  An instance claims what it has no *)
(* storage for in init() and again in start(), and join() gives it back;   *)
(* an epoch tells an instance whether its event queue still describes the  *)
(* slots it points at.  A queue is a control block of its own over slots   *)
(* that another instance's control block may describe as well.             *)
(*                                                                         *)
(* What an instance does between start() and join() is AudioPipeline's     *)
(* business; here it publishes events.                                     *)
(***************************************************************************)
EXTENDS Integers, FiniteSets

CONSTANTS
  Pipelines,          \* the instances
  NoOwner,            \* a built-in nobody holds
  Own,                \* for each instance, the resources it brings itself
  Alloc,              \* for each instance, the size of its frame buffer
  FrameSizes,         \* the frame sizes a configuration may ask for
  QueueDepth,         \* event slots
  MaxEpoch,           \* bound: how often the built-in slots change hands
  OneControlThread,   \* TRUE: one thread makes all the API calls
  ReadsOverlapClaims  \* TRUE: events are read while init() or start() runs

Resources == {"stack", "frame", "slots"}
BuiltinSlots == "builtin"
NoEvent == "none"

ASSUME InstanceAssumption ==
  /\ NoOwner \notin Pipelines /\ BuiltinSlots \notin Pipelines
  /\ Own \in [Pipelines -> SUBSET Resources]
ASSUME SizeAssumption ==
  /\ FrameSizes \subseteq Nat \ {0}
  /\ Alloc \in [Pipelines -> Nat \ {0}]
  /\ QueueDepth \in Nat \ {0} /\ MaxEpoch \in Nat
ASSUME ModeAssumption ==
  OneControlThread \in BOOLEAN /\ ReadsOverlapClaims \in BOOLEAN

VARIABLES
  phase,      \* "UNINIT", "INIT", or "RUN": a worker exists
  installed,  \* the built-ins an instance's fields point at
  size,       \* the frame size of the configuration it is bound to
  capacity,   \* the frame capacity it runs with
  owner,      \* who holds each built-in
  epoch,      \* how often the built-in slots changed hands
  bound,      \* the epoch each instance was given with them, 0 for none
  slots,      \* what is stored: whose event each slot holds
  msgq,       \* each instance's control block over the slots it points at
  cpc,        \* where each instance's call is
  current,    \* start(): 1 if the queue was current when it began
  rpc,        \* each instance's reader: in get_event(), or not
  joined      \* since join() the instance has not been bound or started

claimVars == <<owner, epoch, bound, installed>>
callVars  == <<cpc, current, rpc, joined>>
vars == <<phase, size, capacity, slots, msgq, claimVars, callVars>>

Needs(p) == Resources \ Own[p]

\* An instance of AUDIO_PIPELINE_DEFINE() has its buffer, any other is zeroed.
ZeroCapacity(p) == IF "frame" \in Own[p] THEN Alloc[p] ELSE 0

EmptyQueue == [rd |-> 0, wr |-> 0, used |-> 0]

Init ==
  /\ phase = [p \in Pipelines |-> "UNINIT"]
  /\ installed = [p \in Pipelines |-> {}]
  /\ size = [p \in Pipelines |-> 0]
  /\ capacity = [p \in Pipelines |-> ZeroCapacity(p)]
  /\ owner = [r \in Resources |-> NoOwner]
  /\ epoch = 0 /\ bound = [p \in Pipelines |-> 0]
  /\ slots = [s \in Pipelines \union {BuiltinSlots} |->
                [i \in 0..(QueueDepth - 1) |-> NoEvent]]
  /\ msgq = [p \in Pipelines |-> EmptyQueue]
  /\ cpc = [p \in Pipelines |-> "idle"] /\ current = [p \in Pipelines |-> 0]
  /\ rpc = [p \in Pipelines |-> "idle"]
  /\ joined = [p \in Pipelines |-> FALSE]

-----------------------------------------------------------------------------
(* Ownership. *)

\* Every built-in the instance needs is free or its own already.
Claimable(p) == \A r \in Needs(p) : owner[r] \in {NoOwner, p}

\* The built-in slots go to an instance that did not hold them.
HandsOver(p) == "slots" \in Needs(p) /\ owner["slots"] # p

\* Mutant of Claim: takes what is free, one resource at a time.
MutClaim(p) ==
  LET next == IF HandsOver(p) THEN epoch + 1 ELSE epoch IN
  /\ next <= MaxEpoch
  /\ owner' = [r \in Resources |->
       IF r \in Needs(p) /\ owner[r] = NoOwner THEN p ELSE owner[r]]
  /\ epoch' = next
  /\ bound' = IF "slots" \in Needs(p) THEN [bound EXCEPT ![p] = next] ELSE bound
  /\ installed' = [installed EXCEPT ![p] = Needs(p)]

\* pipeline_claim_defaults(), under the lock: all that is needed or nothing.
\* Fields that are still empty are pointed at the built-ins afterwards.
Claim(p) ==
  LET next == IF HandsOver(p) THEN epoch + 1 ELSE epoch IN
  /\ Claimable(p)
  /\ next <= MaxEpoch
  /\ owner' = [r \in Resources |-> IF r \in Needs(p) THEN p ELSE owner[r]]
  /\ epoch' = next
  /\ bound' = IF "slots" \in Needs(p) THEN [bound EXCEPT ![p] = next] ELSE bound
  /\ installed' = [installed EXCEPT ![p] = Needs(p)]

\* Mutant of Release: also invalidates the binding.
MutRelease(p) ==
  /\ owner' = [r \in Resources |-> IF owner[r] = p THEN NoOwner ELSE owner[r]]
  /\ epoch' = IF owner["slots"] = p THEN epoch + 1 ELSE epoch
  /\ UNCHANGED <<bound, installed>>

\* pipeline_release_defaults(): the pointers stay, and so does the epoch.
Release(p) ==
  /\ owner' = [r \in Resources |-> IF owner[r] = p THEN NoOwner ELSE owner[r]]
  /\ UNCHANGED <<epoch, bound, installed>>

\* audio_pipeline_event_queue_is_current().
IsCurrent(p) == "slots" \in installed[p] => bound[p] = epoch

-----------------------------------------------------------------------------
(* The event queue. *)

SlotsOf(p) == IF "slots" \in installed[p] THEN BuiltinSlots ELSE p

\* k_msgq_put() without waiting.
Enqueue(p) ==
  IF msgq[p].used < QueueDepth
    THEN /\ slots' = [slots EXCEPT ![SlotsOf(p)][msgq[p].wr] = p]
         /\ msgq' = [msgq EXCEPT ![p].wr = (@ + 1) % QueueDepth,
                                 ![p].used = @ + 1]
    ELSE UNCHANGED <<slots, msgq>>

\* audio_pipeline_event_queue_init().
ResetQueue(p) == msgq' = [msgq EXCEPT ![p] = EmptyQueue] /\ UNCHANGED slots

-----------------------------------------------------------------------------
(* The calls; one that is refused changes nothing and is left out. *)

Goto(p, pc) == cpc' = [cpc EXCEPT ![p] = pc]

MayCall(p) ==
  /\ cpc[p] = "idle"
  /\ OneControlThread => \A q \in Pipelines : cpc[q] = "idle"

NoReads == ReadsOverlapClaims \/ \A q \in Pipelines : rpc[q] = "idle"

\* MIN(frame_capacity, frame_samples).
Clamped(cap, n) == IF n < cap THEN n ELSE cap

\* audio_pipeline_init(): claim, bind, clamp the capacity ...
InitClaim(p, n) ==
  /\ MayCall(p) /\ phase[p] # "RUN" /\ NoReads
  /\ Claim(p)
  /\ size' = [size EXCEPT ![p] = n]
  /\ capacity' = [capacity EXCEPT ![p] =
       Clamped(IF "frame" \in Needs(p) /\ "frame" \notin installed[p]
                 THEN Alloc[p] ELSE @, n)]
  /\ Goto(p, "bind")
  /\ UNCHANGED <<phase, slots, msgq, current, rpc, joined>>

\* ... start an empty queue, and count as initialised.
InitBind(p) ==
  /\ cpc[p] = "bind" /\ Goto(p, "idle")
  /\ ResetQueue(p)
  /\ phase' = [phase EXCEPT ![p] = "INIT"]
  /\ joined' = [joined EXCEPT ![p] = FALSE]
  /\ UNCHANGED <<size, capacity, claimVars, current, rpc>>

\* audio_pipeline_start(): ask for the queue first, the claim changes the answer ...
StartRead(p) ==
  /\ MayCall(p) /\ phase[p] = "INIT" /\ NoReads
  /\ current' = [current EXCEPT ![p] = IF IsCurrent(p) THEN 1 ELSE 0]
  /\ Goto(p, "claim")
  /\ UNCHANGED <<phase, size, capacity, slots, msgq, claimVars, rpc, joined>>

StartClaim(p) ==
  /\ cpc[p] = "claim"
  /\ Claim(p)
  /\ Goto(p, IF current[p] = 1 THEN "open" ELSE "rebind")
  /\ UNCHANGED <<phase, size, capacity, slots, msgq, current, rpc, joined>>

\* ... give up without a trace if another instance holds a built-in ...
StartRefused(p) ==
  /\ cpc[p] = "claim" /\ ~Claimable(p) /\ Goto(p, "idle")
  /\ UNCHANGED <<phase, size, capacity, slots, msgq, claimVars,
                 current, rpc, joined>>

\* Mutant of StartRebind: trusts the old binding.
MutStartRebind(p) ==
  /\ cpc[p] = "rebind" /\ Goto(p, "open")
  /\ UNCHANGED <<phase, size, capacity, slots, msgq, claimVars,
                 current, rpc, joined>>

\* ... and purge a queue that another instance has used in between.
StartRebind(p) ==
  /\ cpc[p] = "rebind" /\ Goto(p, "open")
  /\ ResetQueue(p)
  /\ UNCHANGED <<phase, size, capacity, claimVars, current, rpc, joined>>

\* The nodes open and a worker exists, or ERROR is published and none does.
StartOpen(p) ==
  /\ cpc[p] = "open" /\ Goto(p, "idle")
  /\ \/ /\ phase' = [phase EXCEPT ![p] = "RUN"]
        /\ joined' = [joined EXCEPT ![p] = FALSE]
        /\ UNCHANGED <<slots, msgq>>
     \/ Enqueue(p) /\ UNCHANGED <<phase, joined>>
  /\ UNCHANGED <<size, capacity, claimVars, current, rpc>>

\* The worker publishes.
Publish(p) ==
  /\ phase[p] = "RUN" /\ Enqueue(p)
  /\ UNCHANGED <<phase, size, capacity, claimVars, callVars>>

\* Mutant of JoinWorker: gives the built-ins back first.
MutJoinWorker(p) ==
  /\ MayCall(p) /\ phase[p] # "UNINIT"
  /\ Release(p)
  /\ Goto(p, "release")
  /\ UNCHANGED <<phase, size, capacity, slots, msgq, current, rpc, joined>>

\* audio_pipeline_join(): the worker is gone, a failing close() is published ...
JoinWorker(p) ==
  /\ MayCall(p) /\ phase[p] # "UNINIT"
  /\ phase' = [phase EXCEPT ![p] = "INIT"]
  /\ \/ phase[p] = "RUN" /\ Enqueue(p)
     \/ UNCHANGED <<slots, msgq>>
  /\ Goto(p, "release")
  /\ UNCHANGED <<size, capacity, claimVars, current, rpc, joined>>

\* ... and only then the built-ins are free again.
JoinRelease(p) ==
  /\ cpc[p] = "release" /\ Goto(p, "idle")
  /\ Release(p)
  /\ joined' = [joined EXCEPT ![p] = TRUE]
  /\ UNCHANGED <<phase, size, capacity, slots, msgq, current, rpc>>

\* A hand-rolled instance is abandoned without a join(), and another object
\* takes its place in memory: zeroed, but an owner of what the old one held.
Discard(p) ==
  /\ MayCall(p) /\ phase[p] = "INIT" /\ Own[p] = {} /\ rpc[p] = "idle"
  /\ phase' = [phase EXCEPT ![p] = "UNINIT"]
  /\ installed' = [installed EXCEPT ![p] = {}]
  /\ size' = [size EXCEPT ![p] = 0] /\ capacity' = [capacity EXCEPT ![p] = 0]
  /\ bound' = [bound EXCEPT ![p] = 0] /\ msgq' = [msgq EXCEPT ![p] = EmptyQueue]
  /\ joined' = [joined EXCEPT ![p] = FALSE]
  /\ UNCHANGED <<slots, owner, epoch, cpc, current, rpc>>

-----------------------------------------------------------------------------
(* audio_pipeline_get_event(), by a thread of the application: the question *)
(* whether the queue is current, and then, the lock dropped, the read.     *)

\* Mutant of ReadCheck: an initialised instance may read.
MutReadCheck(p) ==
  /\ rpc[p] = "idle" /\ phase[p] # "UNINIT"
  /\ ReadsOverlapClaims
     \/ \A q \in Pipelines : cpc[q] \notin {"claim", "bind", "rebind"}
  /\ rpc' = [rpc EXCEPT ![p] = "get"]
  /\ UNCHANGED <<phase, size, capacity, slots, msgq, claimVars,
                 cpc, current, joined>>

ReadCheck(p) ==
  /\ rpc[p] = "idle" /\ phase[p] # "UNINIT" /\ IsCurrent(p)
  /\ ReadsOverlapClaims
     \/ \A q \in Pipelines : cpc[q] \notin {"claim", "bind", "rebind"}
  /\ rpc' = [rpc EXCEPT ![p] = "get"]
  /\ UNCHANGED <<phase, size, capacity, slots, msgq, claimVars,
                 cpc, current, joined>>

\* k_msgq_get() finds nothing, or takes the oldest event.
ReadGet(p) ==
  /\ rpc[p] = "get"
  /\ rpc' = [rpc EXCEPT ![p] = "idle"]
  /\ IF msgq[p].used = 0
       THEN UNCHANGED msgq
       ELSE msgq' = [msgq EXCEPT ![p].rd = (@ + 1) % QueueDepth,
                                 ![p].used = @ - 1]
  /\ UNCHANGED <<phase, size, capacity, slots, claimVars, cpc, current, joined>>

Next ==
  \E p \in Pipelines :
    \/ \E n \in FrameSizes : InitClaim(p, n)
    \/ InitBind(p) \/ StartRead(p) \/ StartClaim(p) \/ StartRefused(p)
    \/ StartRebind(p) \/ StartOpen(p) \/ Publish(p)
    \/ JoinWorker(p) \/ JoinRelease(p) \/ Discard(p)
    \/ ReadCheck(p) \/ ReadGet(p)

Spec == Init /\ [][Next]_vars

-----------------------------------------------------------------------------
(* Properties. *)

ControlBlocks ==
  [rd : 0..(QueueDepth - 1), wr : 0..(QueueDepth - 1), used : 0..QueueDepth]

Holds(p) == {r \in Resources : owner[r] = p}

\* A running instance, and one that is about to open its nodes, holds every
\* built-in it runs on: no other instance can be on its stack, its frame
\* buffer or its event slots.
RunningHoldsAll ==
  \A p \in Pipelines :
    phase[p] = "RUN" \/ cpc[p] \in {"bind", "rebind", "open"} => Holds(p) = Needs(p)

\* Built-ins are held together or not at all: a refused claim leaves no part
\* of itself behind, on which two instances could wait for each other.
ClaimsAreWhole == \A p \in Pipelines : Holds(p) \in {{}, Needs(p)}

\* Whatever a queue that counts as current holds was published by its own
\* instance, through any sequence of claims, restarts, and abandoned
\* instances in the same storage.
QueueIsOwn ==
  \A p \in Pipelines :
    phase[p] # "UNINIT" /\ IsCurrent(p) /\ cpc[p] \notin {"bind", "rebind"} =>
      \A i \in 0..(msgq[p].used - 1) :
        slots[SlotsOf(p)][(msgq[p].rd + i) % QueueDepth] = p

\* No reader takes an event of another instance.
ReadsOwnEvents ==
  \A p \in Pipelines :
    rpc[p] = "get" /\ msgq[p].used > 0 => slots[SlotsOf(p)][msgq[p].rd] = p

\* A joined instance can drain its queue until another one claims the slots:
\* nothing else, its own join() least of all, ends the binding.
BindingLostToClaim ==
  [][\A p \in Pipelines :
       IsCurrent(p) /\ ~IsCurrent(p)' /\ phase[p]' # "UNINIT" =>
         \E q \in Pipelines \ {p} : owner["slots"]' = q]_vars

\* No frame is larger than the buffer, nor than the configuration asks for.
CapacityFits ==
  \A p \in Pipelines :
    phase[p] # "UNINIT" => capacity[p] <= Alloc[p] /\ capacity[p] <= size[p]

\* Between join() and the next successful start() an instance owns nothing.
JoinedHoldsNothing ==
  \A p \in Pipelines : joined[p] /\ cpc[p] = "idle" => Holds(p) = {}
=============================================================================
