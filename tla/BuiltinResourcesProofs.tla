----------------------- MODULE BuiltinResourcesProofs -----------------------
(***************************************************************************)
(* The built-in resources, for any number of instances that bring any part *)
(* of what they need: claims are whole, who runs holds what it runs on, a  *)
(* queue that counts as current holds events of its own instance only.     *)
(* The invariant ties the epoch to the owner of the slots: at most one     *)
(* instance was given them in the epoch that is current.                   *)
(***************************************************************************)
EXTENDS BuiltinResources, TLAPS

TypeInv ==
  /\ phase \in [Pipelines -> {"UNINIT", "INIT", "RUN"}]
  /\ installed \in [Pipelines -> SUBSET Resources]
  /\ owner \in [Resources -> Pipelines \union {NoOwner}]
  /\ epoch \in Nat /\ bound \in [Pipelines -> Nat]
  /\ slots \in [Pipelines \union {BuiltinSlots} ->
                  [0..(QueueDepth - 1) -> Pipelines \union {NoEvent}]]
  /\ msgq \in [Pipelines -> ControlBlocks]
  /\ cpc \in [Pipelines -> {"idle", "bind", "claim", "rebind", "open", "release"}]
  /\ current \in [Pipelines -> {0, 1}]
  /\ rpc \in [Pipelines -> {"idle", "get"}]

\* Where a call is tells the state that it found or made.
CallInv ==
  \A p \in Pipelines :
    /\ cpc[p] \in {"claim", "rebind", "open", "release"} => phase[p] = "INIT"
    /\ cpc[p] = "bind" => phase[p] # "RUN"

\* An instance that runs on built-ins holds them, and none holds what it does not
\* need, or a part of what it does.
OwnerInv ==
  \A p \in Pipelines : \A r \in Resources :
    /\ owner[r] = p => r \in Needs(p) /\ \A s \in Needs(p) : owner[s] = p
    /\ (phase[p] = "RUN" \/ cpc[p] \in {"bind", "rebind", "open"}) /\ r \in Needs(p) => owner[r] = p

\* The slots' owner was given them in this epoch, nobody else was.
EpochInv ==
  /\ \A p \in Pipelines :
       /\ bound[p] <= epoch
       /\ phase[p] # "UNINIT" \/ cpc[p] = "bind" => installed[p] = Needs(p)
       /\ "slots" \in installed[p] => bound[p] >= 1
       /\ owner["slots"] = p => epoch >= 1
       /\ owner["slots"] = p /\ "slots" \in installed[p] => bound[p] = epoch
  /\ \A p, q \in Pipelines :
       p # q => /\ owner["slots"] = p => bound[q] < epoch
                /\ bound[p] = epoch /\ bound[q] = epoch => epoch = 0

-----------------------------------------------------------------------------

\* The event that a queue gives out after i others.
Event(p, i) == slots[SlotsOf(p)][(msgq[p].rd + i) % QueueDepth]

OwnEvents(p) == \A i \in 0..(msgq[p].used - 1) : Event(p, i) = p

\* A control block's three fields agree.
Ring(p) == msgq[p].wr = (msgq[p].rd + msgq[p].used) % QueueDepth

\* A queue that needs no reset holds events of its own.
QueueInv ==
  \A p \in Pipelines :
    /\ Ring(p)
    /\ phase[p] # "UNINIT" /\ IsCurrent(p) /\ cpc[p] \notin {"bind", "rebind"}
         => OwnEvents(p)

\* One call at a time, so that what start() read is still so when it claims.
OneCall ==
  /\ \A p, q \in Pipelines : p # q => cpc[p] = "idle" \/ cpc[q] = "idle"
  /\ \A p \in Pipelines : cpc[p] = "claim" /\ current[p] = 1 => IsCurrent(p)

\* While a read is on its way, no claim is.
ReadInv ==
  \A p \in Pipelines :
    rpc[p] = "get" => /\ IsCurrent(p) /\ phase[p] # "UNINIT"
                      /\ \A q \in Pipelines : cpc[q] \notin {"claim", "bind", "rebind"}

OwnershipInv == TypeInv /\ CallInv /\ OwnerInv /\ EpochInv

-----------------------------------------------------------------------------
(* Ownership. *)

\* What a claim does, instance by instance and resource by resource.
LEMMA ClaimFacts ==
  ASSUME TypeInv, NEW p \in Pipelines, Claim(p)
  PROVE  /\ \A r \in Resources :
              /\ owner'[r] = IF r \in Needs(p) THEN p ELSE owner[r]
              /\ r \in Needs(p) => owner[r] \in {NoOwner, p}
         /\ epoch' = IF HandsOver(p) THEN epoch + 1 ELSE epoch
         /\ \A q \in Pipelines :
              /\ bound'[q] = IF q = p /\ "slots" \in Needs(p) THEN epoch' ELSE bound[q]
              /\ installed'[q] = IF q = p THEN Needs(p) ELSE installed[q]
         /\ owner' \in [Resources -> Pipelines \union {NoOwner}] /\ epoch' \in Nat
         /\ bound' \in [Pipelines -> Nat] /\ installed' \in [Pipelines -> SUBSET Resources]
<1>1. Needs(p) \in SUBSET Resources  BY DEF Needs
<1>2. epoch' = IF HandsOver(p) THEN epoch + 1 ELSE epoch  BY DEF Claim
<1>3. epoch' \in Nat  BY <1>2 DEF TypeInv
<1>4. owner' = [r \in Resources |-> IF r \in Needs(p) THEN p ELSE owner[r]]  BY DEF Claim
<1>5. bound' = IF "slots" \in Needs(p) THEN [bound EXCEPT ![p] = epoch'] ELSE bound
  BY <1>2 DEF Claim
<1>6. installed' = [installed EXCEPT ![p] = Needs(p)]  BY DEF Claim
<1>7. bound' \in [Pipelines -> Nat]  BY <1>3, <1>5 DEF TypeInv
<1>8. owner' \in [Resources -> Pipelines \union {NoOwner}]  BY <1>4 DEF TypeInv
<1>9. installed' \in [Pipelines -> SUBSET Resources]  BY <1>1, <1>6 DEF TypeInv
<1>10. \A q \in Pipelines :
         /\ bound'[q] = IF q = p /\ "slots" \in Needs(p) THEN epoch' ELSE bound[q]
         /\ installed'[q] = IF q = p THEN Needs(p) ELSE installed[q]
  BY <1>5, <1>6 DEF TypeInv
<1>11. \A r \in Resources :
         /\ owner'[r] = IF r \in Needs(p) THEN p ELSE owner[r]
         /\ r \in Needs(p) => owner[r] \in {NoOwner, p}
  BY <1>4 DEF Claim, Claimable
<1> QED  BY <1>2, <1>3, <1>7, <1>8, <1>9, <1>10, <1>11

\* A claim takes nothing from anybody, and opens an epoch if it has to.
LEMMA ClaimHolds ==
  ASSUME OwnershipInv, NEW p \in Pipelines, Claim(p),
         NEW place \in {"bind", "rebind", "open"}, cpc' = [cpc EXCEPT ![p] = place],
         UNCHANGED phase, phase[p] # "RUN"
  PROVE  OwnerInv' /\ EpochInv'
<1> USE ClaimFacts DEF OwnershipInv
<1>0. NoOwner \notin Pipelines /\ "slots" \in Resources  BY InstanceAssumption DEF Resources
<1>1. \A q \in Pipelines : cpc'[q] = IF q = p THEN place ELSE cpc[q]  BY DEF TypeInv
<1>2. OwnerInv'
  <2> SUFFICES ASSUME NEW q \in Pipelines, NEW r \in Resources
               PROVE  /\ owner'[r] = q => r \in Needs(q) /\ \A s \in Needs(q) : owner'[s] = q
                      /\ (phase'[q] = "RUN" \/ cpc'[q] \in {"bind", "rebind", "open"})
                           /\ r \in Needs(q) => owner'[r] = q
    BY DEF OwnerInv, Needs
  <2>1. CASE q = p
    <3>1. \A s \in Needs(p) : s \in Resources /\ owner'[s] = p  BY DEF Needs
    <3>2. owner'[r] = p => r \in Needs(p)  BY DEF OwnerInv
    <3> QED  BY <2>1, <3>1, <3>2
  <2>2. CASE q # p
    <3>1. \A s \in Resources : owner[s] = q <=> owner'[s] = q  BY <1>0, <2>2
    <3>2. \A s \in Needs(q) : s \in Resources  BY DEF Needs
    <3> QED  BY <1>1, <2>2, <3>1, <3>2 DEF OwnerInv
  <2> QED  BY <2>1, <2>2
<1>3. EpochInv'
  <2>1. CASE "slots" \notin Needs(p)
    <3>1. epoch' = epoch /\ \A q \in Pipelines : bound'[q] = bound[q]
      BY <2>1 DEF HandsOver
    <3>2. owner'["slots"] = owner["slots"]  BY <1>0, <2>1
    <3> QED  BY <1>1, <2>1, <3>1, <3>2 DEF EpochInv
  <2>2. CASE "slots" \in Needs(p) /\ owner["slots"] = p
    <3>1. epoch' = epoch /\ bound'[p] = epoch /\ owner'["slots"] = p
      BY <1>0, <2>2 DEF HandsOver
    <3>2. \A q \in Pipelines \ {p} : bound'[q] = bound[q] /\ bound[q] < epoch
      BY <2>2 DEF EpochInv
    <3>3. epoch \in Nat /\ \A q \in Pipelines : bound[q] \in Nat /\ bound'[q] \in Nat
      BY DEF TypeInv
    <3>4. epoch >= 1
      BY <2>2, <3>3 DEF EpochInv
    <3> QED  BY <1>0, <1>1, <2>2, <3>1, <3>2, <3>3, <3>4 DEF EpochInv
  <2>3. CASE "slots" \in Needs(p) /\ owner["slots"] # p
    <3>1. epoch' = epoch + 1 /\ bound'[p] = epoch + 1 /\ owner'["slots"] = p
      BY <1>0, <2>3 DEF HandsOver
    <3>2. epoch \in Nat /\ \A q \in Pipelines \ {p} : bound'[q] = bound[q] /\ bound[q] <= epoch
      BY DEF TypeInv, EpochInv
    <3>3. \A q \in Pipelines : bound[q] \in Nat  BY DEF TypeInv
    <3> QED  BY <1>0, <1>1, <2>3, <3>1, <3>2, <3>3 DEF EpochInv
  <2> QED  BY <2>1, <2>2, <2>3
<1> QED  BY <1>2, <1>3

LEMMA OwnershipInit == Init => OwnershipInv
<1> SUFFICES ASSUME Init PROVE OwnershipInv  OBVIOUS
<1>1. 0 \in 0..(QueueDepth - 1) /\ 0 \in 0..QueueDepth  BY SizeAssumption
<1>2. EmptyQueue \in ControlBlocks  BY <1>1 DEF EmptyQueue, ControlBlocks
<1>3. TypeInv  BY <1>2 DEF Init, TypeInv
<1>4. CallInv  BY DEF Init, CallInv
<1>5. OwnerInv /\ EpochInv
  BY InstanceAssumption DEF Init, OwnerInv, EpochInv, Needs, Resources
<1> QED  BY <1>3, <1>4, <1>5 DEF OwnershipInv

\* The control block stays one, whatever is put in it or taken out.
LEMMA QueueTypes ==
  ASSUME TypeInv, NEW p \in Pipelines
  PROVE  /\ EmptyQueue \in ControlBlocks
         /\ Enqueue(p) => /\ msgq' \in [Pipelines -> ControlBlocks]
                          /\ slots' \in [Pipelines \union {BuiltinSlots} ->
                               [0..(QueueDepth - 1) -> Pipelines \union {NoEvent}]]
         /\ ResetQueue(p) => msgq' \in [Pipelines -> ControlBlocks] /\ slots' = slots
<1>1. EmptyQueue \in ControlBlocks
  BY SizeAssumption DEF EmptyQueue, ControlBlocks
<1>2. ASSUME Enqueue(p)
      PROVE  /\ msgq' \in [Pipelines -> ControlBlocks]
             /\ slots' \in [Pipelines \union {BuiltinSlots} ->
                   [0..(QueueDepth - 1) -> Pipelines \union {NoEvent}]]
  <2>1. CASE msgq[p].used < QueueDepth
    <3>1. msgq[p] \in ControlBlocks  BY DEF TypeInv
    <3>2. (msgq[p].wr + 1) % QueueDepth \in 0..(QueueDepth - 1)
      BY <3>1, SizeAssumption DEF ControlBlocks
    <3>3. msgq[p].used + 1 \in 0..QueueDepth
      BY <2>1, <3>1, SizeAssumption DEF ControlBlocks
    <3>4. msgq' \in [Pipelines -> ControlBlocks]
      BY <1>2, <2>1, <3>1, <3>2, <3>3 DEF Enqueue, TypeInv, ControlBlocks
    <3>5. slots' = [slots EXCEPT ![SlotsOf(p)][msgq[p].wr] = p]
      BY <1>2, <2>1 DEF Enqueue
    <3>6. msgq[p].wr \in 0..(QueueDepth - 1)  BY <3>1 DEF ControlBlocks
    <3>7. SlotsOf(p) \in Pipelines \union {BuiltinSlots}  BY DEF SlotsOf
    <3> QED  BY <3>4, <3>5, <3>6, <3>7 DEF TypeInv
  <2>2. CASE ~(msgq[p].used < QueueDepth)
    BY <1>2, <2>2 DEF Enqueue, TypeInv
  <2> QED  BY <2>1, <2>2
<1>3. ResetQueue(p) => msgq' \in [Pipelines -> ControlBlocks] /\ slots' = slots
  BY <1>1 DEF ResetQueue, TypeInv
<1> QED  BY <1>1, <1>2, <1>3

LEMMA OwnershipStep == OwnershipInv /\ [Next]_vars => OwnershipInv'
<1> SUFFICES ASSUME OwnershipInv, [Next]_vars PROVE OwnershipInv'  OBVIOUS
<1> USE DEF OwnershipInv
<1>0. NoOwner \notin Pipelines /\ "slots" \in Resources  BY InstanceAssumption DEF Resources
<1>1. ASSUME NEW p \in Pipelines, NEW n \in FrameSizes, InitClaim(p, n) PROVE OwnershipInv'
  <2>1. Claim(p) /\ cpc' = [cpc EXCEPT ![p] = "bind"] /\ phase' = phase /\ phase[p] # "RUN"
    BY <1>1 DEF InitClaim, Goto
  <2>2. OwnerInv' /\ EpochInv'  BY <2>1, ClaimHolds
  <2>3. TypeInv'  BY <1>1, <2>1, ClaimFacts DEF InitClaim, TypeInv
  <2>4. CallInv'  BY <2>1 DEF TypeInv, CallInv
  <2> QED  BY <2>2, <2>3, <2>4
<1>2. ASSUME NEW p \in Pipelines, InitBind(p) PROVE OwnershipInv'
  <2>1. TypeInv'  BY <1>2, QueueTypes DEF InitBind, Goto, claimVars, TypeInv
  <2>2. CallInv' /\ OwnerInv' /\ EpochInv'
    BY <1>2 DEF InitBind, Goto, claimVars, TypeInv, CallInv, OwnerInv, EpochInv, Needs
  <2> QED  BY <2>1, <2>2
<1>3. ASSUME NEW p \in Pipelines, StartRead(p) PROVE OwnershipInv'
  BY <1>3 DEF StartRead, Goto, claimVars, TypeInv, CallInv, OwnerInv, EpochInv, Needs
<1>4. ASSUME NEW p \in Pipelines, StartClaim(p) PROVE OwnershipInv'
  <2>1. PICK place \in {"bind", "rebind", "open"} : cpc' = [cpc EXCEPT ![p] = place]
                                               /\ place # "bind"
    BY <1>4 DEF StartClaim, Goto
  <2>2. Claim(p) /\ phase' = phase /\ phase[p] = "INIT"
    BY <1>4 DEF StartClaim, CallInv
  <2>3. OwnerInv' /\ EpochInv'  BY <2>1, <2>2, ClaimHolds
  <2>4. TypeInv'  BY <1>4, <2>1, <2>2, ClaimFacts DEF StartClaim, TypeInv
  <2>5. CallInv'  BY <2>1, <2>2 DEF TypeInv, CallInv
  <2> QED  BY <2>3, <2>4, <2>5
<1>5. ASSUME NEW p \in Pipelines, StartRefused(p) PROVE OwnershipInv'
  BY <1>5 DEF StartRefused, Goto, claimVars, TypeInv, CallInv, OwnerInv, EpochInv, Needs
<1>6. ASSUME NEW p \in Pipelines, StartRebind(p) PROVE OwnershipInv'
  <2>1. TypeInv'  BY <1>6, QueueTypes DEF StartRebind, Goto, claimVars, TypeInv
  <2>2. CallInv' /\ OwnerInv' /\ EpochInv'
    BY <1>6 DEF StartRebind, Goto, claimVars, TypeInv, CallInv, OwnerInv, EpochInv, Needs
  <2> QED  BY <2>1, <2>2
<1>7. ASSUME NEW p \in Pipelines, StartOpen(p) PROVE OwnershipInv'
  <2>1. TypeInv'  BY <1>7, QueueTypes DEF StartOpen, Goto, claimVars, TypeInv
  <2>2. CallInv' /\ OwnerInv' /\ EpochInv'
    BY <1>7 DEF StartOpen, Goto, claimVars, TypeInv, CallInv, OwnerInv, EpochInv, Needs
  <2> QED  BY <2>1, <2>2
<1>8. ASSUME NEW p \in Pipelines, Publish(p) PROVE OwnershipInv'
  <2>1. TypeInv'  BY <1>8, QueueTypes DEF Publish, claimVars, callVars, TypeInv
  <2>2. CallInv' /\ OwnerInv' /\ EpochInv'
    BY <1>8 DEF Publish, claimVars, callVars, TypeInv, CallInv, OwnerInv, EpochInv, Needs
  <2> QED  BY <2>1, <2>2
<1>9. ASSUME NEW p \in Pipelines, JoinWorker(p) PROVE OwnershipInv'
  <2>1. TypeInv'  BY <1>9, QueueTypes DEF JoinWorker, Goto, claimVars, TypeInv
  <2>2. CallInv' /\ OwnerInv' /\ EpochInv'
    BY <1>9 DEF JoinWorker, MayCall, Goto, claimVars, TypeInv, CallInv, OwnerInv, EpochInv, Needs
  <2> QED  BY <2>1, <2>2
<1>10. ASSUME NEW p \in Pipelines, JoinRelease(p) PROVE OwnershipInv'
  <2>1. /\ phase' = phase /\ epoch' = epoch /\ bound' = bound /\ installed' = installed
        /\ cpc' = [cpc EXCEPT ![p] = "idle"] /\ phase[p] = "INIT"
    BY <1>10 DEF JoinRelease, Release, Goto, CallInv
  <2>2. owner' = [r \in Resources |-> IF owner[r] = p THEN NoOwner ELSE owner[r]]
    BY <1>10 DEF JoinRelease, Release
  <2>3. TypeInv'  BY <1>10, <2>1, <2>2 DEF JoinRelease, TypeInv
  <2>4. CallInv'  BY <2>1 DEF TypeInv, CallInv
  <2>5. \A r \in Resources, q \in Pipelines :
          /\ owner'[r] = q => owner[r] = q /\ q # p
          /\ owner[r] = q /\ q # p => owner'[r] = q
    BY <1>0, <2>2 DEF TypeInv
  <2>6. OwnerInv'
    BY <2>1, <2>5 DEF OwnerInv, Needs, TypeInv
  <2>7. EpochInv'
    BY <1>0, <2>1, <2>5 DEF EpochInv, TypeInv, Needs
  <2> QED  BY <2>3, <2>4, <2>6, <2>7
<1>11. ASSUME NEW p \in Pipelines, Discard(p) PROVE OwnershipInv'
  <2>1. TypeInv'  BY <1>11, QueueTypes DEF Discard, TypeInv
  <2>2. CallInv' /\ OwnerInv'
    BY <1>11 DEF Discard, MayCall, TypeInv, CallInv, OwnerInv, Needs
  <2>3. EpochInv'
    BY <1>11 DEF Discard, MayCall, TypeInv, EpochInv, Needs
  <2> QED  BY <2>1, <2>2, <2>3
<1>12. ASSUME NEW p \in Pipelines, ReadCheck(p) PROVE OwnershipInv'
  BY <1>12 DEF ReadCheck, claimVars, TypeInv, CallInv, OwnerInv, EpochInv, Needs
<1>13. ASSUME NEW p \in Pipelines, ReadGet(p) PROVE OwnershipInv'
  <2>1. msgq' \in [Pipelines -> ControlBlocks]
    <3>1. msgq[p] \in ControlBlocks  BY DEF TypeInv
    <3>2. (msgq[p].rd + 1) % QueueDepth \in 0..(QueueDepth - 1)
      BY <3>1, SizeAssumption DEF ControlBlocks
    <3>3. msgq[p].used # 0 => msgq[p].used - 1 \in 0..QueueDepth
      BY <3>1, SizeAssumption DEF ControlBlocks
    <3> QED  BY <1>13, <3>1, <3>2, <3>3 DEF ReadGet, TypeInv, ControlBlocks
  <2>2. TypeInv'  BY <1>13, <2>1 DEF ReadGet, claimVars, TypeInv
  <2>3. CallInv' /\ OwnerInv' /\ EpochInv'
    BY <1>13 DEF ReadGet, claimVars, TypeInv, CallInv, OwnerInv, EpochInv, Needs
  <2> QED  BY <2>2, <2>3
<1>14. CASE UNCHANGED vars
  BY <1>14 DEF vars, claimVars, callVars, TypeInv, CallInv, OwnerInv, EpochInv, Needs
<1> QED
  BY <1>1, <1>2, <1>3, <1>4, <1>5, <1>6, <1>7, <1>8, <1>9, <1>10, <1>11, <1>12, <1>13,
     <1>14 DEF Next

LEMMA OwnershipHolds == Spec => []OwnershipInv
BY OwnershipInit, OwnershipStep, PTL DEF Spec

\* Every running instance, and every one about to open its nodes, holds all
\* the built-ins that it runs on: with them to itself, as each has one owner.
THEOREM RunnersHoldAll == Spec => []RunningHoldsAll
<1>1. OwnershipInv => RunningHoldsAll
  BY DEF OwnershipInv, OwnerInv, TypeInv, RunningHoldsAll, Holds, Needs
<1> QED  BY <1>1, OwnershipHolds, PTL

\* No claim, however it interleaves with others, leaves a part of itself.
THEOREM NoPartialClaim == Spec => []ClaimsAreWhole
<1>1. OwnershipInv => ClaimsAreWhole
  BY DEF OwnershipInv, OwnerInv, TypeInv, ClaimsAreWhole, Holds, Needs
<1> QED  BY <1>1, OwnershipHolds, PTL

\* A binding ends by a claim of another instance only: releasing the slots,
\* refusing a start() and opening, running and closing nodes leave it alone.
THEOREM BindingEndsByClaim == Spec => BindingLostToClaim
<1> DEFINE Lost(p) == IsCurrent(p) /\ ~IsCurrent(p)' /\ phase[p]' # "UNINIT"
           Taken(p) == \E q \in Pipelines \ {p} : owner["slots"]' = q
<1>1. ASSUME OwnershipInv, NEW q \in Pipelines, Claim(q), NEW p \in Pipelines, Lost(p)
      PROVE  Taken(p)
  <2>1. "slots" \in Resources /\ TypeInv  BY <1>1 DEF Resources, OwnershipInv
  <2>2. CASE p = q
    <3>1. "slots" \in Needs(p) => bound'[p] = epoch'  BY <1>1, <2>1, <2>2, ClaimFacts
    <3>2. installed'[p] = Needs(p)  BY <1>1, <2>1, <2>2, ClaimFacts
    <3> QED  BY <1>1, <3>1, <3>2 DEF IsCurrent
  <2>3. CASE p # q
    <3>1. bound'[p] = bound[p] /\ installed'[p] = installed[p]
      BY <1>1, <2>1, <2>3, ClaimFacts
    <3>2. epoch' # epoch  BY <1>1, <3>1 DEF IsCurrent
    <3>3. HandsOver(q)  BY <1>1, <2>1, <3>2, ClaimFacts
    <3>4. owner'["slots"] = q  BY <1>1, <2>1, <3>3, ClaimFacts DEF HandsOver
    <3> QED  BY <2>3, <3>4
  <2> QED  BY <2>2, <2>3
<1>2. ASSUME OwnershipInv, [Next]_vars, NEW p \in Pipelines, Lost(p)
      PROVE  Taken(p)
  <2>1. CASE UNCHANGED <<epoch, bound, installed>>
    BY <1>2, <2>1 DEF IsCurrent
  <2>2. CASE \E q \in Pipelines : Claim(q)
    BY <1>1, <1>2, <2>2
  <2>3. CASE \E q \in Pipelines : Discard(q)
    <3>1. PICK q \in Pipelines : Discard(q)  BY <2>3
    <3>2. p # q  BY <1>2, <3>1 DEF Discard, OwnershipInv, TypeInv
    <3>3. epoch' = epoch /\ bound'[p] = bound[p] /\ installed'[p] = installed[p]
      BY <3>1, <3>2 DEF Discard, OwnershipInv, TypeInv
    <3> QED  BY <1>2, <3>3 DEF IsCurrent
  <2> QED
    BY <1>2, <2>1, <2>2, <2>3
    DEF Next, InitClaim, InitBind, StartRead, StartClaim, StartRefused, StartRebind,
        StartOpen, Publish, JoinWorker, JoinRelease, Release, ReadCheck, ReadGet, vars, claimVars
<1>3. OwnershipInv /\ [Next]_vars =>
        [\A p \in Pipelines : Lost(p) => Taken(p)]_vars
  BY <1>2
<1> QED  BY <1>3, OwnershipHolds, PTL DEF Spec, BindingLostToClaim

-----------------------------------------------------------------------------
(* The queue. *)

LEMMA ModSmall ==
  ASSUME NEW d \in Nat \ {0}, NEW x \in Nat, x < d + d
  PROVE  x % d = IF x < d THEN x ELSE x - d
<1>1. CASE x < d  BY <1>1
<1>2. CASE ~(x < d)  BY <1>2
<1> QED  BY <1>1, <1>2

\* The slot that a put fills is none of those in use; it is the next to be
\* given out after them, and the write index stays that far ahead.
LEMMA RingPut ==
  ASSUME NEW r \in 0..(QueueDepth - 1), NEW u \in 0..(QueueDepth - 1)
  PROVE  /\ \A i \in 0..(u - 1) : (r + i) % QueueDepth # (r + u) % QueueDepth
         /\ (((r + u) % QueueDepth) + 1) % QueueDepth = (r + (u + 1)) % QueueDepth
<1>1. QueueDepth \in Nat \ {0}  BY SizeAssumption
<1>2. \A x \in Nat : x < QueueDepth + QueueDepth =>
        x % QueueDepth = IF x < QueueDepth THEN x ELSE x - QueueDepth
  BY <1>1, ModSmall
<1>3. ASSUME NEW i \in 0..(u - 1)
      PROVE  (r + i) % QueueDepth # (r + u) % QueueDepth
  <2>1. r + i \in Nat /\ r + u \in Nat /\ r + i < r + u /\ r + u < (r + i) + QueueDepth
        /\ r + u < QueueDepth + QueueDepth
    BY <1>1
  <2>2. (r + i) % QueueDepth = IF r + i < QueueDepth THEN r + i ELSE (r + i) - QueueDepth
    BY <1>1, <1>2, <2>1
  <2>3. (r + u) % QueueDepth = IF r + u < QueueDepth THEN r + u ELSE (r + u) - QueueDepth
    BY <1>1, <1>2, <2>1
  <2> QED  BY <1>1, <2>1, <2>2, <2>3
<1>4. (((r + u) % QueueDepth) + 1) % QueueDepth = (r + (u + 1)) % QueueDepth
  <2> DEFINE w == (r + u) % QueueDepth
  <2>1. w = IF r + u < QueueDepth THEN r + u ELSE (r + u) - QueueDepth
    BY <1>1, <1>2
  <2>2. w \in 0..(QueueDepth - 1)  BY <1>1, <2>1
  <2> HIDE DEF w
  <2>3. (w + 1) % QueueDepth = IF w + 1 < QueueDepth THEN w + 1 ELSE (w + 1) - QueueDepth
    BY <1>1, <1>2, <2>2
  <2>4. (r + (u + 1)) % QueueDepth =
          IF r + (u + 1) < QueueDepth THEN r + (u + 1) ELSE (r + (u + 1)) - QueueDepth
    BY <1>1, <1>2
  <2>5. (w + 1) % QueueDepth = (r + (u + 1)) % QueueDepth
    BY <1>1, <2>1, <2>2, <2>3, <2>4
  <2> QED  BY <2>5 DEF w
<1> QED  BY <1>3, <1>4

\* A get leaves the rest in place.
LEMMA RingGet ==
  ASSUME NEW r \in 0..(QueueDepth - 1), NEW i \in 0..(QueueDepth - 1)
  PROVE  (((r + 1) % QueueDepth) + i) % QueueDepth = (r + (i + 1)) % QueueDepth
<1> DEFINE n == (r + 1) % QueueDepth
<1>1. QueueDepth \in Nat \ {0}  BY SizeAssumption
<1>2. \A x \in Nat : x < QueueDepth + QueueDepth =>
        x % QueueDepth = IF x < QueueDepth THEN x ELSE x - QueueDepth
  BY <1>1, ModSmall
<1>3. n = IF r + 1 < QueueDepth THEN r + 1 ELSE (r + 1) - QueueDepth
  BY <1>1, <1>2
<1>4. n \in 0..(QueueDepth - 1)  BY <1>1, <1>3
<1> HIDE DEF n
<1>5. (n + i) % QueueDepth = IF n + i < QueueDepth THEN n + i ELSE (n + i) - QueueDepth
  BY <1>1, <1>2, <1>4
<1>6. (r + (i + 1)) % QueueDepth =
        IF r + (i + 1) < QueueDepth THEN r + (i + 1) ELSE (r + (i + 1)) - QueueDepth
  BY <1>1, <1>2
<1>7. (n + i) % QueueDepth = (r + (i + 1)) % QueueDepth
  BY <1>1, <1>3, <1>4, <1>5, <1>6
<1> QED  BY <1>7 DEF n

\* One who publishes writes on the slots of no other current queue.
LEMMA OthersElsewhere ==
  ASSUME OwnershipInv, NEW p \in Pipelines, NEW q \in Pipelines, p # q,
         phase[p] # "UNINIT", IsCurrent(p),
         "slots" \in installed[q] => owner["slots"] = q
  PROVE  SlotsOf(p) # SlotsOf(q)
<1>1. CASE "slots" \in installed[p] /\ "slots" \in installed[q]
  <2>1. bound[p] = epoch /\ owner["slots"] = q  BY <1>1 DEF IsCurrent
  <2>2. bound[p] < epoch  BY <2>1 DEF OwnershipInv, EpochInv
  <2>3. epoch \in Nat  BY DEF OwnershipInv, TypeInv
  <2> QED  BY <2>1, <2>2, <2>3
<1>2. CASE ~("slots" \in installed[p] /\ "slots" \in installed[q])
  BY <1>2, InstanceAssumption DEF SlotsOf
<1> QED  BY <1>1, <1>2

\* A put by an instance that holds its slots spoils nobody's queue.
LEMMA PutKeepsQueues ==
  ASSUME OwnershipInv, \A p \in Pipelines : Ring(p), NEW q \in Pipelines, Enqueue(q),
         "slots" \in installed[q] => owner["slots"] = q, UNCHANGED installed
  PROVE  \A p \in Pipelines :
           /\ Ring(p)'
           /\ phase[p] # "UNINIT" /\ IsCurrent(p) /\ OwnEvents(p) => OwnEvents(p)'
<1>1. CASE ~(msgq[q].used < QueueDepth)
  <2>1. slots' = slots /\ msgq' = msgq  BY <1>1 DEF Enqueue
  <2> QED  BY <2>1 DEF Ring, OwnEvents, Event, SlotsOf
<1>2. CASE msgq[q].used < QueueDepth
  <2> DEFINE S == SlotsOf(q)  w == msgq[q].wr  r == msgq[q].rd  u == msgq[q].used
  <2>1. S \in Pipelines \union {BuiltinSlots} /\ msgq[q] \in ControlBlocks
        /\ QueueDepth \in Nat \ {0}
    BY SizeAssumption DEF SlotsOf, OwnershipInv, TypeInv
  <2>2. r \in 0..(QueueDepth - 1) /\ u \in 0..(QueueDepth - 1) /\ w \in 0..(QueueDepth - 1)
    BY <1>2, <2>1 DEF ControlBlocks
  <2>3. w = (r + u) % QueueDepth  BY DEF Ring
  <2>4. msgq' = [msgq EXCEPT ![q].wr = (@ + 1) % QueueDepth, ![q].used = @ + 1]
    BY <1>2 DEF Enqueue
  <2>5. msgq'[q].rd = r /\ msgq'[q].used = u + 1 /\ msgq'[q].wr = (w + 1) % QueueDepth
    BY <2>1, <2>4 DEF OwnershipInv, TypeInv, ControlBlocks
  <2>6. \A p \in Pipelines \ {q} : msgq'[p] = msgq[p]
    BY <2>4 DEF OwnershipInv, TypeInv
  <2>7. slots' = [slots EXCEPT ![S][w] = q]  BY <1>2 DEF Enqueue
  <2>8. slots'[S] = [slots[S] EXCEPT ![w] = q]
        /\ \A s \in Pipelines \union {BuiltinSlots} : s # S => slots'[s] = slots[s]
    BY <2>1, <2>7 DEF OwnershipInv, TypeInv
  <2>9. DOMAIN slots[S] = 0..(QueueDepth - 1)  BY <2>1 DEF OwnershipInv, TypeInv
  <2>10. slots'[S][w] = q /\ \A i \in 0..(QueueDepth - 1) : i # w => slots'[S][i] = slots[S][i]
    BY <2>2, <2>8, <2>9
  <2>11. ASSUME NEW p \in Pipelines  PROVE Ring(p)'
    <3>1. CASE p = q
      <4>1. (w + 1) % QueueDepth = (r + (u + 1)) % QueueDepth  BY <2>2, <2>3, RingPut
      <4> QED  BY <2>5, <3>1, <4>1 DEF Ring
    <3>2. CASE p # q  BY <2>6, <3>2 DEF Ring
    <3> QED  BY <3>1, <3>2
  <2>12. ASSUME NEW p \in Pipelines, phase[p] # "UNINIT", IsCurrent(p), OwnEvents(p)
         PROVE  OwnEvents(p)'
    <3>1. CASE p = q
      <4> SUFFICES ASSUME NEW i \in 0..u
                   PROVE  slots'[S][(r + i) % QueueDepth] = q
        BY <2>2, <2>5, <3>1 DEF OwnEvents, Event, SlotsOf
      <4>1. CASE i = u  BY <2>3, <2>10, <4>1
      <4>2. CASE i # u
        <5>1. i \in 0..(u - 1)  BY <2>2, <4>2
        <5>2. (r + i) % QueueDepth # w  BY <2>2, <2>3, <5>1, RingPut
        <5>3. r + i \in Int  BY <2>2, <5>1
        <5>4. (r + i) % QueueDepth \in 0..(QueueDepth - 1)  BY <2>1, <5>3
        <5>5. slots[S][(r + i) % QueueDepth] = q
          BY <2>12, <3>1, <5>1 DEF OwnEvents, Event
        <5> QED  BY <2>10, <5>2, <5>4, <5>5
      <4> QED  BY <4>1, <4>2
    <3>2. CASE p # q
      <4>1. SlotsOf(p) # S  BY <2>12, <3>2, OthersElsewhere
      <4>2. SlotsOf(p) \in Pipelines \union {BuiltinSlots} /\ SlotsOf(p)' = SlotsOf(p)
        BY DEF SlotsOf
      <4>3. slots'[SlotsOf(p)] = slots[SlotsOf(p)] /\ msgq'[p] = msgq[p]
        BY <2>6, <2>8, <3>2, <4>1, <4>2
      <4> QED  BY <2>12, <4>2, <4>3 DEF OwnEvents, Event
    <3> QED  BY <3>1, <3>2
  <2> QED  BY <2>11, <2>12
<1> QED  BY <1>1, <1>2

\* An emptied queue holds nobody's events, and the others are as they were.
LEMMA ResetKeepsQueues ==
  ASSUME OwnershipInv, \A p \in Pipelines : Ring(p), NEW q \in Pipelines,
         msgq' = [msgq EXCEPT ![q] = EmptyQueue], UNCHANGED slots,
         \A p \in Pipelines \ {q} : SlotsOf(p)' = SlotsOf(p)
  PROVE  /\ \A p \in Pipelines : Ring(p)'
         /\ \A p \in Pipelines \ {q} : OwnEvents(p) => OwnEvents(p)'
         /\ OwnEvents(q)'
<1>1. msgq'[q] = EmptyQueue /\ \A p \in Pipelines \ {q} : msgq'[p] = msgq[p]
  BY DEF OwnershipInv, TypeInv
<1>2. (0 + 0) % QueueDepth = 0  BY SizeAssumption
<1>3. Ring(q)' /\ OwnEvents(q)'
  BY <1>1, <1>2 DEF Ring, OwnEvents, EmptyQueue
<1>4. \A p \in Pipelines \ {q} : Ring(p)' /\ (OwnEvents(p) => OwnEvents(p)')
  BY <1>1 DEF Ring, OwnEvents, Event
<1> QED  BY <1>3, <1>4

\* With one thread that makes the calls, they do not overlap, and what start()
\* read of its queue is still so when it has made its claim.
LEMMA OneCallStep ==
  ASSUME OneControlThread, OwnershipInv, OneCall, [Next]_vars
  PROVE  OneCall'
<1> USE DEF OneCall
<1>0. TypeInv /\ CallInv  BY DEF OwnershipInv
<1>1. ASSUME NEW p \in Pipelines, NEW n \in FrameSizes, InitClaim(p, n) PROVE OneCall'
  <2>1. \A q \in Pipelines : cpc[q] = "idle"  BY <1>1 DEF InitClaim, MayCall
  <2>2. cpc' = [cpc EXCEPT ![p] = "bind"]  BY <1>1 DEF InitClaim, Goto
  <2> QED  BY <1>0, <2>1, <2>2 DEF TypeInv
<1>2. ASSUME NEW p \in Pipelines, InitBind(p) PROVE OneCall'
  BY <1>0, <1>2 DEF InitBind, Goto, claimVars, TypeInv, IsCurrent
<1>3. ASSUME NEW p \in Pipelines, StartRead(p) PROVE OneCall'
  <2>1. \A q \in Pipelines : cpc[q] = "idle"  BY <1>3 DEF StartRead, MayCall
  <2> QED  BY <1>0, <1>3, <2>1 DEF StartRead, Goto, claimVars, TypeInv, IsCurrent
<1>4. ASSUME NEW p \in Pipelines, StartClaim(p) PROVE OneCall'
  <2>1. \A q \in Pipelines : q # p => cpc[q] = "idle"
    BY <1>4 DEF StartClaim
  <2>2. PICK place \in {"rebind", "open"} : cpc' = [cpc EXCEPT ![p] = place]
    BY <1>4 DEF StartClaim, Goto
  <2> QED  BY <1>0, <2>1, <2>2 DEF TypeInv
<1>5. ASSUME NEW p \in Pipelines, StartRefused(p) PROVE OneCall'
  BY <1>0, <1>5 DEF StartRefused, Goto, claimVars, TypeInv, IsCurrent
<1>6. ASSUME NEW p \in Pipelines, StartRebind(p) PROVE OneCall'
  BY <1>0, <1>6 DEF StartRebind, Goto, claimVars, TypeInv, IsCurrent
<1>7. ASSUME NEW p \in Pipelines, StartOpen(p) PROVE OneCall'
  BY <1>0, <1>7 DEF StartOpen, Goto, claimVars, TypeInv, IsCurrent
<1>8. ASSUME NEW p \in Pipelines, Publish(p) PROVE OneCall'
  BY <1>0, <1>8 DEF Publish, claimVars, callVars, TypeInv, IsCurrent
<1>9. ASSUME NEW p \in Pipelines, JoinWorker(p) PROVE OneCall'
  <2>1. \A q \in Pipelines : cpc[q] = "idle"  BY <1>9 DEF JoinWorker, MayCall
  <2> QED  BY <1>0, <1>9, <2>1 DEF JoinWorker, Goto, claimVars, TypeInv, IsCurrent
<1>10. ASSUME NEW p \in Pipelines, JoinRelease(p) PROVE OneCall'
  BY <1>0, <1>10 DEF JoinRelease, Release, Goto, TypeInv, IsCurrent
<1>11. ASSUME NEW p \in Pipelines, Discard(p) PROVE OneCall'
  <2>1. \A q \in Pipelines : cpc[q] = "idle"  BY <1>11 DEF Discard, MayCall
  <2> QED  BY <1>11, <2>1 DEF Discard
<1>12. ASSUME NEW p \in Pipelines, ReadCheck(p) \/ ReadGet(p) PROVE OneCall'
  BY <1>12 DEF ReadCheck, ReadGet, claimVars, IsCurrent
<1>13. CASE UNCHANGED vars
  BY <1>13 DEF vars, claimVars, callVars, IsCurrent
<1> QED
  BY <1>1, <1>2, <1>3, <1>4, <1>5, <1>6, <1>7, <1>8, <1>9, <1>10, <1>11, <1>12, <1>13
  DEF Next

\* A claim leaves every control block alone. A queue that is current after
\* it is the claiming instance's own, or was current before.
LEMMA ClaimKeepsQueues ==
  ASSUME OwnershipInv, QueueInv, NEW p \in Pipelines, Claim(p), NEW q \in Pipelines \ {p},
         UNCHANGED <<phase, msgq, slots>>, cpc'[q] = cpc[q],
         phase[q] # "UNINIT", IsCurrent(q)', cpc[q] \notin {"bind", "rebind"}
  PROVE  OwnEvents(q)'
<1>1. installed'[q] = installed[q] /\ bound'[q] = bound[q]  BY ClaimFacts DEF OwnershipInv
<1>2. epoch' = epoch \/ epoch' = epoch + 1  BY ClaimFacts DEF OwnershipInv
<1>3. bound[q] <= epoch /\ bound[q] \in Nat /\ epoch \in Nat
  BY DEF OwnershipInv, EpochInv, TypeInv
<1>4. IsCurrent(q)  BY <1>1, <1>2, <1>3 DEF IsCurrent
<1>5. OwnEvents(q)  BY <1>4 DEF QueueInv
<1> QED  BY <1>1, <1>5 DEF OwnEvents, Event, SlotsOf

LEMMA QueueStep ==
  ASSUME OneControlThread, OwnershipInv, OneCall, QueueInv, [Next]_vars
  PROVE  QueueInv'
<1>0. TypeInv /\ CallInv /\ OwnerInv /\ EpochInv  BY DEF OwnershipInv
<1>r. \A p \in Pipelines : Ring(p)  BY DEF QueueInv
<1>1. ASSUME NEW p \in Pipelines, NEW n \in FrameSizes, InitClaim(p, n) PROVE QueueInv'
  <2>1. Claim(p) /\ cpc' = [cpc EXCEPT ![p] = "bind"] /\ UNCHANGED <<phase, msgq, slots>>
    BY <1>1 DEF InitClaim, Goto
  <2>2. cpc'[p] = "bind" /\ \A q \in Pipelines \ {p} : cpc'[q] = cpc[q]
    BY <1>0, <2>1 DEF TypeInv
  <2>3. \A q \in Pipelines : Ring(q)'  BY <1>r, <2>1 DEF Ring
  <2> QED  BY <2>1, <2>2, <2>3, ClaimKeepsQueues DEF QueueInv
<1>2. ASSUME NEW p \in Pipelines, InitBind(p) PROVE QueueInv'
  <2>1. /\ msgq' = [msgq EXCEPT ![p] = EmptyQueue] /\ UNCHANGED <<slots, claimVars>>
        /\ cpc' = [cpc EXCEPT ![p] = "idle"] /\ phase' = [phase EXCEPT ![p] = "INIT"]
    BY <1>2 DEF InitBind, ResetQueue, Goto
  <2>2. \A q \in Pipelines : SlotsOf(q)' = SlotsOf(q) /\ IsCurrent(q)' = IsCurrent(q)
    BY <2>1 DEF SlotsOf, IsCurrent, claimVars
  <2>3. \A q \in Pipelines \ {p} : cpc'[q] = cpc[q] /\ phase'[q] = phase[q]
    BY <1>0, <2>1 DEF TypeInv
  <2> QED  BY <1>r, <2>1, <2>2, <2>3, ResetKeepsQueues DEF QueueInv
<1>3. ASSUME NEW p \in Pipelines, StartRead(p) PROVE QueueInv'
  <2>1. /\ UNCHANGED <<phase, slots, msgq, claimVars>>
        /\ cpc[p] = "idle" /\ cpc' = [cpc EXCEPT ![p] = "claim"]
    BY <1>3 DEF StartRead, MayCall, Goto
  <2>2. \A q \in Pipelines : cpc'[q] = cpc[q] \/ cpc[q] = "idle"
    BY <1>0, <2>1 DEF TypeInv
  <2> QED
    BY <2>1, <2>2 DEF claimVars, IsCurrent, QueueInv, Ring, OwnEvents, Event, SlotsOf
<1>4. ASSUME NEW p \in Pipelines, StartClaim(p) PROVE QueueInv'
  <2>1. Claim(p) /\ UNCHANGED <<phase, msgq, slots>> /\ phase[p] = "INIT" /\ cpc[p] = "claim"
    BY <1>0, <1>4 DEF StartClaim, CallInv
  <2>2. cpc' = [cpc EXCEPT ![p] = IF current[p] = 1 THEN "open" ELSE "rebind"]
    BY <1>4 DEF StartClaim, Goto
  <2>3. \A q \in Pipelines \ {p} : cpc'[q] = cpc[q]  BY <1>0, <2>2 DEF TypeInv
  <2>4. \A q \in Pipelines : Ring(q)'  BY <1>r, <2>1 DEF Ring
  <2>5. CASE current[p] = 1
    <3>1. OwnEvents(p)  BY <2>1, <2>5 DEF OneCall, QueueInv
    <3>2. installed'[p] = installed[p]  BY <1>0, <2>1, ClaimFacts DEF EpochInv
    <3>3. OwnEvents(p)'  BY <2>1, <3>1, <3>2 DEF OwnEvents, Event, SlotsOf
    <3> QED  BY <2>1, <2>3, <2>4, <3>3, ClaimKeepsQueues DEF QueueInv
  <2>6. CASE current[p] # 1
    <3>1. cpc'[p] = "rebind"  BY <1>0, <2>2, <2>6 DEF TypeInv
    <3> QED  BY <2>1, <2>3, <2>4, <3>1, ClaimKeepsQueues DEF QueueInv
  <2> QED  BY <2>5, <2>6
<1>5. ASSUME NEW p \in Pipelines, StartRefused(p) PROVE QueueInv'
  BY <1>0, <1>5 DEF StartRefused, Goto, claimVars, TypeInv, IsCurrent, QueueInv, Ring,
                     OwnEvents, Event, SlotsOf
<1>6. ASSUME NEW p \in Pipelines, StartRebind(p) PROVE QueueInv'
  <2>1. /\ msgq' = [msgq EXCEPT ![p] = EmptyQueue] /\ UNCHANGED <<slots, claimVars, phase>>
        /\ cpc' = [cpc EXCEPT ![p] = "open"]
    BY <1>6 DEF StartRebind, ResetQueue, Goto
  <2>2. \A q \in Pipelines : SlotsOf(q)' = SlotsOf(q) /\ IsCurrent(q)' = IsCurrent(q)
    BY <2>1 DEF SlotsOf, IsCurrent, claimVars
  <2>3. \A q \in Pipelines \ {p} : cpc'[q] = cpc[q]  BY <1>0, <2>1 DEF TypeInv
  <2> QED  BY <1>r, <2>1, <2>2, <2>3, ResetKeepsQueues DEF QueueInv
<1>7. ASSUME NEW p \in Pipelines, StartOpen(p) PROVE QueueInv'
  <2>1. /\ cpc[p] = "open" /\ phase[p] = "INIT" /\ cpc' = [cpc EXCEPT ![p] = "idle"]
        /\ UNCHANGED claimVars
        /\ \/ phase' = [phase EXCEPT ![p] = "RUN"] /\ UNCHANGED <<slots, msgq>>
           \/ phase' = phase /\ Enqueue(p)
    BY <1>0, <1>7 DEF StartOpen, Goto, CallInv
  <2>2. ASSUME NEW q \in Pipelines, phase'[q] # "UNINIT", IsCurrent(q)',
               cpc'[q] \notin {"bind", "rebind"}
        PROVE  phase[q] # "UNINIT" /\ IsCurrent(q) /\ OwnEvents(q)
    <3>1. phase[q] # "UNINIT" /\ cpc[q] \notin {"bind", "rebind"}
      BY <1>0, <2>1, <2>2 DEF TypeInv
    <3>2. IsCurrent(q)  BY <2>1, <2>2 DEF IsCurrent, claimVars
    <3> QED  BY <3>1, <3>2 DEF QueueInv
  <2>r. \A q \in Pipelines : SlotsOf(q)' = SlotsOf(q)  BY <2>1 DEF SlotsOf, claimVars
  <2>3. "slots" \in installed[p] => owner["slots"] = p
    BY <1>0, <2>1 DEF EpochInv, OwnerInv, Resources
  <2>4. CASE Enqueue(p)
    <3>1. installed' = installed  BY <2>1 DEF claimVars
    <3> QED  BY <1>r, <2>2, <2>3, <2>4, <3>1, PutKeepsQueues DEF QueueInv
  <2>5. CASE UNCHANGED <<slots, msgq>>
    BY <1>r, <2>2, <2>r, <2>5 DEF QueueInv, Ring, OwnEvents, Event
  <2> QED  BY <2>1, <2>4, <2>5
<1>8. ASSUME NEW p \in Pipelines, Publish(p) PROVE QueueInv'
  <2>1. phase[p] = "RUN" /\ Enqueue(p) /\ UNCHANGED <<phase, claimVars, callVars>>
    BY <1>8 DEF Publish
  <2>2. "slots" \in installed[p] => owner["slots"] = p
    BY <1>0, <2>1 DEF EpochInv, OwnerInv, Resources
  <2>3. installed' = installed /\ cpc' = cpc /\ \A q \in Pipelines : IsCurrent(q)' = IsCurrent(q)
    BY <2>1 DEF claimVars, callVars, IsCurrent
  <2> QED  BY <1>r, <2>1, <2>2, <2>3, PutKeepsQueues DEF QueueInv
<1>9. ASSUME NEW p \in Pipelines, JoinWorker(p) PROVE QueueInv'
  <2>1. /\ cpc[p] = "idle" /\ cpc' = [cpc EXCEPT ![p] = "release"] /\ UNCHANGED claimVars
        /\ phase[p] # "UNINIT" /\ phase' = [phase EXCEPT ![p] = "INIT"]
        /\ \/ phase[p] = "RUN" /\ Enqueue(p)
           \/ UNCHANGED <<slots, msgq>>
    BY <1>9 DEF JoinWorker, MayCall, Goto
  <2>2. ASSUME NEW q \in Pipelines, phase'[q] # "UNINIT", IsCurrent(q)',
               cpc'[q] \notin {"bind", "rebind"}
        PROVE  phase[q] # "UNINIT" /\ IsCurrent(q) /\ OwnEvents(q)
    <3>1. phase[q] # "UNINIT" /\ cpc[q] \notin {"bind", "rebind"}
      BY <1>0, <2>1, <2>2 DEF TypeInv
    <3>2. IsCurrent(q)  BY <2>1, <2>2 DEF IsCurrent, claimVars
    <3> QED  BY <3>1, <3>2 DEF QueueInv
  <2>r. \A q \in Pipelines : SlotsOf(q)' = SlotsOf(q)  BY <2>1 DEF SlotsOf, claimVars
  <2>3. CASE phase[p] = "RUN" /\ Enqueue(p)
    <3>1. installed' = installed  BY <2>1 DEF claimVars
    <3>2. "slots" \in installed[p] => owner["slots"] = p
      BY <1>0, <2>3 DEF EpochInv, OwnerInv, Resources
    <3> QED  BY <1>r, <2>2, <2>3, <3>1, <3>2, PutKeepsQueues DEF QueueInv
  <2>4. CASE UNCHANGED <<slots, msgq>>
    BY <1>r, <2>2, <2>r, <2>4 DEF QueueInv, Ring, OwnEvents, Event
  <2> QED  BY <2>1, <2>3, <2>4
<1>10. ASSUME NEW p \in Pipelines, JoinRelease(p) PROVE QueueInv'
  BY <1>0, <1>10 DEF JoinRelease, Release, Goto, TypeInv, IsCurrent, QueueInv, Ring,
                      OwnEvents, Event, SlotsOf
<1>11. ASSUME NEW p \in Pipelines, Discard(p) PROVE QueueInv'
  <2>1. /\ msgq' = [msgq EXCEPT ![p] = EmptyQueue] /\ UNCHANGED <<slots, cpc, epoch>>
        /\ phase'[p] = "UNINIT"
    BY <1>0, <1>11 DEF Discard, TypeInv
  <2>2. \A q \in Pipelines \ {p} : /\ SlotsOf(q)' = SlotsOf(q) /\ IsCurrent(q)' = IsCurrent(q)
                                 /\ phase'[q] = phase[q]
    BY <1>0, <1>11 DEF Discard, SlotsOf, IsCurrent, TypeInv
  <2> QED  BY <1>r, <2>1, <2>2, ResetKeepsQueues DEF QueueInv
<1>12. ASSUME NEW p \in Pipelines, ReadCheck(p) PROVE QueueInv'
  BY <1>12 DEF ReadCheck, claimVars, IsCurrent, QueueInv, Ring, OwnEvents, Event, SlotsOf
<1>13. ASSUME NEW p \in Pipelines, ReadGet(p) PROVE QueueInv'
  <2>1. UNCHANGED <<phase, slots, claimVars, cpc>>  BY <1>13 DEF ReadGet
  <2>2. \A q \in Pipelines : SlotsOf(q)' = SlotsOf(q) /\ IsCurrent(q)' = IsCurrent(q)
    BY <2>1 DEF SlotsOf, IsCurrent, claimVars
  <2>3. CASE msgq' = msgq
    BY <2>1, <2>2, <2>3 DEF QueueInv, Ring, OwnEvents, Event
  <2>4. CASE msgq' # msgq
    <3> DEFINE r == msgq[p].rd  u == msgq[p].used  n == (r + 1) % QueueDepth
    <3>1. msgq[p] \in ControlBlocks /\ QueueDepth \in Nat \ {0}
      BY <1>0, SizeAssumption DEF TypeInv
    <3>2. u # 0 /\ msgq' = [msgq EXCEPT ![p].rd = (@ + 1) % QueueDepth, ![p].used = @ - 1]
      BY <1>13, <2>4 DEF ReadGet
    <3>3. msgq'[p].rd = n /\ msgq'[p].used = u - 1 /\ msgq'[p].wr = msgq[p].wr
      BY <1>0, <3>1, <3>2 DEF TypeInv, ControlBlocks
    <3>4. \A q \in Pipelines \ {p} : msgq'[q] = msgq[q]  BY <1>0, <3>2 DEF TypeInv
    <3>5. r \in 0..(QueueDepth - 1) /\ u \in 1..QueueDepth  BY <3>1, <3>2 DEF ControlBlocks
    <3>6. \A i \in 0..(QueueDepth - 1) : (n + i) % QueueDepth = (r + (i + 1)) % QueueDepth
      BY <3>5, RingGet
    <3>7. Ring(p)'
      <4>1. u - 1 \in 0..(QueueDepth - 1) /\ (u - 1) + 1 = u  BY <3>1, <3>5
      <4>2. (n + (u - 1)) % QueueDepth = (r + u) % QueueDepth  BY <3>6, <4>1
      <4> QED  BY <1>r, <3>3, <4>2 DEF Ring
    <3>8. OwnEvents(p) => OwnEvents(p)'
      <4> SUFFICES ASSUME OwnEvents(p), NEW i \in 0..((u - 1) - 1)
                   PROVE  slots[SlotsOf(p)][(n + i) % QueueDepth] = p
        BY <2>1, <2>2, <3>3, <3>5 DEF OwnEvents, Event
      <4>1. i \in 0..(QueueDepth - 1) /\ i + 1 \in 0..(u - 1)  BY <3>1, <3>5
      <4> QED  BY <3>6, <4>1 DEF OwnEvents, Event
    <3>9. \A q \in Pipelines \ {p} : Ring(q)' /\ (OwnEvents(q) => OwnEvents(q)')
      BY <1>r, <2>1, <2>2, <3>4 DEF Ring, OwnEvents, Event
    <3> QED  BY <2>1, <2>2, <3>7, <3>8, <3>9 DEF QueueInv
  <2> QED  BY <2>3, <2>4
<1>14. CASE UNCHANGED vars
  BY <1>14 DEF vars, claimVars, callVars, IsCurrent, QueueInv, Ring, OwnEvents, Event, SlotsOf
<1> QED
  BY <1>1, <1>2, <1>3, <1>4, <1>5, <1>6, <1>7, <1>8, <1>9, <1>10, <1>11, <1>12, <1>13,
     <1>14 DEF Next

LEMMA QueueInit == Init => OneCall /\ QueueInv /\ ReadInv
<1> SUFFICES ASSUME Init PROVE OneCall /\ QueueInv /\ ReadInv  OBVIOUS
<1>1. OneCall /\ ReadInv  BY DEF Init, OneCall, ReadInv
<1>2. (0 + 0) % QueueDepth = 0  BY SizeAssumption
<1>3. QueueInv  BY <1>2 DEF Init, QueueInv, Ring, EmptyQueue
<1> QED  BY <1>1, <1>3

\* Whatever a queue that counts as current holds, its own instance published.
THEOREM QueuesKeepApart ==
  ASSUME OneControlThread
  PROVE  Spec => []QueueIsOwn
<1>1. OwnershipInv /\ OneCall /\ QueueInv /\ [Next]_vars => (OneCall /\ QueueInv)'
  BY OneCallStep, QueueStep
<1>2. OwnershipInv /\ QueueInv => QueueIsOwn
  BY DEF QueueInv, OwnEvents, Event, QueueIsOwn
<1> QED  BY <1>1, <1>2, QueueInit, OwnershipHolds, PTL DEF Spec

\* A read that found its queue current takes from it before any claim is made.
LEMMA ReadStep ==
  ASSUME ~ReadsOverlapClaims, OwnershipInv, ReadInv, [Next]_vars
  PROVE  ReadInv'
<1> USE DEF ReadInv
<1>0. TypeInv  BY DEF OwnershipInv
<1>1. ASSUME NEW p \in Pipelines, NEW n \in FrameSizes, InitClaim(p, n) PROVE ReadInv'
  BY <1>1 DEF InitClaim, NoReads
<1>2. ASSUME NEW p \in Pipelines, InitBind(p) PROVE ReadInv'
  BY <1>0, <1>2 DEF InitBind
<1>3. ASSUME NEW p \in Pipelines, StartRead(p) PROVE ReadInv'
  BY <1>3 DEF StartRead, NoReads
<1>4. ASSUME NEW p \in Pipelines, StartClaim(p) PROVE ReadInv'
  BY <1>4 DEF StartClaim
<1>5. ASSUME NEW p \in Pipelines, StartRefused(p) PROVE ReadInv'
  BY <1>5 DEF StartRefused
<1>6. ASSUME NEW p \in Pipelines, StartRebind(p) PROVE ReadInv'
  BY <1>6 DEF StartRebind
<1>7. ASSUME NEW p \in Pipelines, StartOpen(p) PROVE ReadInv'
  BY <1>0, <1>7 DEF StartOpen, Goto, claimVars, IsCurrent, TypeInv
<1>8. ASSUME NEW p \in Pipelines, Publish(p) PROVE ReadInv'
  BY <1>8 DEF Publish, claimVars, callVars, IsCurrent
<1>9. ASSUME NEW p \in Pipelines, JoinWorker(p) PROVE ReadInv'
  BY <1>0, <1>9 DEF JoinWorker, Goto, claimVars, IsCurrent, TypeInv
<1>10. ASSUME NEW p \in Pipelines, JoinRelease(p) PROVE ReadInv'
  BY <1>0, <1>10 DEF JoinRelease, Release, Goto, IsCurrent, TypeInv
<1>11. ASSUME NEW p \in Pipelines, Discard(p) PROVE ReadInv'
  BY <1>0, <1>11 DEF Discard, IsCurrent, TypeInv
<1>12. ASSUME NEW p \in Pipelines, ReadCheck(p) PROVE ReadInv'
  BY <1>0, <1>12 DEF ReadCheck, claimVars, IsCurrent, TypeInv
<1>13. ASSUME NEW p \in Pipelines, ReadGet(p) PROVE ReadInv'
  BY <1>0, <1>13 DEF ReadGet, claimVars, IsCurrent, TypeInv
<1>14. CASE UNCHANGED vars
  BY <1>14 DEF vars, claimVars, callVars, IsCurrent
<1> QED
  BY <1>1, <1>2, <1>3, <1>4, <1>5, <1>6, <1>7, <1>8, <1>9, <1>10, <1>11, <1>12, <1>13,
     <1>14 DEF Next

\* No reader takes an event of another instance, as long as the application
\* does not read while it initialises or starts an instance.
THEOREM ReadersKeepApart ==
  ASSUME OneControlThread, ~ReadsOverlapClaims
  PROVE  Spec => []ReadsOwnEvents
<1>1. OwnershipInv /\ OneCall /\ QueueInv /\ [Next]_vars => (OneCall /\ QueueInv)'
  BY OneCallStep, QueueStep
<1>2. OwnershipInv /\ ReadInv /\ [Next]_vars => ReadInv'
  BY ReadStep
<1>3. OwnershipInv /\ QueueInv /\ ReadInv => ReadsOwnEvents
  <2> SUFFICES ASSUME OwnershipInv, QueueInv, ReadInv, NEW p \in Pipelines,
                      rpc[p] = "get", msgq[p].used > 0
               PROVE  slots[SlotsOf(p)][msgq[p].rd] = p
    BY DEF ReadsOwnEvents
  <2>1. msgq[p] \in ControlBlocks /\ QueueDepth \in Nat \ {0}
    BY SizeAssumption DEF OwnershipInv, TypeInv
  <2>2. 0 \in 0..(msgq[p].used - 1) /\ msgq[p].rd \in 0..(QueueDepth - 1)
    BY <2>1 DEF ControlBlocks
  <2>3. (msgq[p].rd + 0) % QueueDepth = msgq[p].rd
    BY <2>1, <2>2
  <2>4. OwnEvents(p)  BY DEF ReadInv, QueueInv
  <2> QED  BY <2>2, <2>3, <2>4 DEF OwnEvents, Event
<1> QED  BY <1>1, <1>2, <1>3, QueueInit, OwnershipHolds, PTL DEF Spec

-----------------------------------------------------------------------------
(* The frame capacity. *)

\* The capacity is clamped by every init(), and never grows beyond the buffer.
CapacityInv ==
  \A p \in Pipelines :
    /\ capacity[p] \in Nat /\ capacity[p] <= Alloc[p]
    /\ phase[p] # "UNINIT" \/ cpc[p] = "bind" => capacity[p] <= size[p]

LEMMA CapacityStep ==
  ASSUME OwnershipInv, DOMAIN capacity = Pipelines, DOMAIN size = Pipelines, CapacityInv,
         [Next]_vars
  PROVE  /\ DOMAIN capacity' = Pipelines /\ DOMAIN size' = Pipelines
         /\ CapacityInv'
<1> USE SizeAssumption DEF CapacityInv
<1>0. TypeInv /\ CallInv  BY DEF OwnershipInv
<1>1. ASSUME NEW p \in Pipelines, NEW n \in FrameSizes, InitClaim(p, n)
      PROVE  CapacityInv' /\ DOMAIN capacity' = Pipelines /\ DOMAIN size' = Pipelines
  <2> DEFINE c == IF "frame" \in Needs(p) /\ "frame" \notin installed[p]
                    THEN Alloc[p] ELSE capacity[p]
  <2>1. c \in Nat /\ c <= Alloc[p] /\ n \in Nat  OBVIOUS
  <2>2. capacity' = [capacity EXCEPT ![p] = Clamped(c, n)] /\ size' = [size EXCEPT ![p] = n]
        /\ cpc' = [cpc EXCEPT ![p] = "bind"] /\ phase' = phase
    BY <1>1 DEF InitClaim, Goto
  <2>3. Clamped(c, n) \in Nat /\ Clamped(c, n) <= Alloc[p] /\ Clamped(c, n) <= n
    BY <2>1 DEF Clamped
  <2> HIDE DEF c
  <2> QED  BY <1>0, <2>2, <2>3 DEF TypeInv
<1>2. ASSUME NEW p \in Pipelines, Discard(p)
      PROVE  CapacityInv' /\ DOMAIN capacity' = Pipelines /\ DOMAIN size' = Pipelines
  BY <1>0, <1>2 DEF Discard, MayCall, TypeInv
<1>3. ASSUME UNCHANGED <<capacity, size>>,
             \A p \in Pipelines : phase'[p] # "UNINIT" \/ cpc'[p] = "bind"
                                    => phase[p] # "UNINIT" \/ cpc[p] = "bind"
      PROVE  CapacityInv' /\ DOMAIN capacity' = Pipelines /\ DOMAIN size' = Pipelines
  BY <1>3
<1>4. ASSUME NEW p \in Pipelines,
             \/ InitBind(p) \/ StartRead(p) \/ StartClaim(p) \/ StartRefused(p)
             \/ StartRebind(p) \/ StartOpen(p) \/ JoinWorker(p) \/ JoinRelease(p)
      PROVE  /\ UNCHANGED <<capacity, size>>
             /\ \A q \in Pipelines : phase'[q] # "UNINIT" \/ cpc'[q] = "bind"
                                    => phase[q] # "UNINIT" \/ cpc[q] = "bind"
  BY <1>0, <1>4 DEF InitBind, StartRead, StartClaim, StartRefused, StartRebind, StartOpen,
                    JoinWorker, JoinRelease, MayCall, Goto, TypeInv, CallInv
<1>5. ASSUME NEW p \in Pipelines, Publish(p) \/ ReadCheck(p) \/ ReadGet(p)
      PROVE  UNCHANGED <<capacity, size, phase, cpc>>
  BY <1>5 DEF Publish, ReadCheck, ReadGet, callVars
<1>6. CASE UNCHANGED vars  BY <1>3, <1>6 DEF vars, callVars
<1> QED  BY <1>1, <1>2, <1>3, <1>4, <1>5, <1>6 DEF Next

\* No frame is larger than the buffer, nor than the configuration asks for, in
\* whatever order an instance is configured, abandoned and configured again.
THEOREM FramesFit == Spec => []CapacityFits
<1> DEFINE Inv == DOMAIN capacity = Pipelines /\ DOMAIN size = Pipelines /\ CapacityInv
<1>1. Init => Inv
  BY SizeAssumption DEF Init, CapacityInv, ZeroCapacity
<1>2. OwnershipInv /\ Inv /\ [Next]_vars => Inv'
  BY CapacityStep
<1>3. Inv => CapacityFits
  BY DEF CapacityInv, CapacityFits
<1> QED  BY <1>1, <1>2, <1>3, OwnershipHolds, PTL DEF Spec

\* An instance once initialised never gets back what a smaller configuration took
\* of its frame capacity, for as long as the object lives: audio_pipeline_init()
\* takes the minimum with its own earlier result, not with the buffer.
THEOREM CapacityOnlyShrinks ==
  Spec => [][\A p \in Pipelines : phase[p] # "UNINIT" => capacity'[p] <= capacity[p]]_vars
<1> DEFINE Inv == DOMAIN capacity = Pipelines /\ DOMAIN size = Pipelines /\ CapacityInv
<1>1. Init => Inv
  BY SizeAssumption DEF Init, CapacityInv, ZeroCapacity
<1>2. OwnershipInv /\ Inv /\ [Next]_vars => Inv'
  BY CapacityStep
<1>3. ASSUME OwnershipInv, Inv, Next, NEW q \in Pipelines, phase[q] # "UNINIT"
      PROVE  capacity'[q] <= capacity[q]
  <2>1. capacity[q] \in Nat
    BY <1>3 DEF CapacityInv
  <2>2. ASSUME NEW p \in Pipelines, NEW n \in FrameSizes, InitClaim(p, n)
        PROVE  capacity'[q] <= capacity[q]
    <3>1. installed[q] = Needs(q)
      BY <1>3 DEF OwnershipInv, EpochInv
    <3>2. capacity' = [capacity EXCEPT ![p] = Clamped(IF "frame" \in Needs(p) /\ "frame" \notin installed[p]
                                                        THEN Alloc[p] ELSE capacity[p], n)]
      BY <2>2 DEF InitClaim
    <3>3. CASE p = q
      <4>1. capacity'[q] = Clamped(capacity[q], n)
        BY <1>3, <3>1, <3>2, <3>3
      <4> QED
        BY <2>1, <4>1, SizeAssumption DEF Clamped
    <3>4. CASE p # q
      BY <1>3, <2>1, <3>2, <3>4
    <3> QED
      BY <3>3, <3>4
  <2>3. ASSUME NEW p \in Pipelines, Discard(p)
        PROVE  capacity'[q] <= capacity[q]
    BY <1>3, <2>1, <2>3 DEF Discard
  <2>4. ASSUME NEW p \in Pipelines,
               \/ InitBind(p) \/ StartRead(p) \/ StartClaim(p) \/ StartRefused(p)
               \/ StartRebind(p) \/ StartOpen(p) \/ JoinWorker(p) \/ JoinRelease(p)
               \/ Publish(p) \/ ReadCheck(p) \/ ReadGet(p)
        PROVE  capacity' = capacity
    BY <2>4 DEF InitBind, StartRead, StartClaim, StartRefused, StartRebind, StartOpen,
                JoinWorker, JoinRelease, Publish, ReadCheck, ReadGet
  <2> QED
    BY <1>3, <2>1, <2>2, <2>3, <2>4 DEF Next
<1>4. OwnershipInv /\ Inv /\ [Next]_vars =>
        [\A p \in Pipelines : phase[p] # "UNINIT" => capacity'[p] <= capacity[p]]_vars
  BY <1>3
<1> QED
  BY <1>1, <1>2, <1>4, OwnershipHolds, PTL DEF Spec
=============================================================================
