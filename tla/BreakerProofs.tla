---------------------------- MODULE BreakerProofs ---------------------------
(***************************************************************************)
(* Proofs about Breaker for any number of callers and any thresholds.  The *)
(* inductive invariant adds to ProbeSlot where a probe can be (ProbeInv)   *)
(* and what a caller whose load is fresh knows of the current snapshot     *)
(* (FreshInv).                                                             *)
(***************************************************************************)
EXTENDS Breaker, TLAPS

ProbeInv ==
  /\ \A g \in isProbe : pc[g] \in Recording \cup {"call", "release"}
  /\ \A g \in Callers : pc[g] = "release" => g \in isProbe

FreshInv ==
  \A g \in fresh :
    /\ pc[g] = "timeout" => snap.state = "open"
    /\ pc[g] \in {"claim open", "enter"} => snap.state = "open" /\ cooled
    /\ pc[g] = "cas success" =>
         \/ snap.state = "half-open"
         \/ snap.state = "closed" /\ snap.failures > 0
    /\ pc[g] = "cas failure" => snap.state # "open"

IInv == TypeOK /\ ProbeSlot /\ ProbeInv /\ FreshInv

LEMMA NewSnapshots ==
  Consistent(Snapshot("closed", 0, 0)) /\ Consistent(Snapshot("half-open", 0, 0))
  BY BreakerAssumption DEF Consistent, Snapshot

LEMMA CountedSnapshots ==
  ASSUME Consistent(snap), snap.state # "open"
  PROVE  Consistent(AfterSuccess) /\ Consistent(AfterFailure)
  BY BreakerAssumption DEF Consistent, Snapshot, AfterSuccess, AfterFailure

LEMMA InitIInv == Init => IInv
  BY NewSnapshots DEF Init, IInv, TypeOK, ProbeSlot, ProbeInv, HasSlot, FreshInv,
     Outside, Recording

(* What a step does to the slot: nothing, take it while it is free, give it *)
(* back.  These are the only ways to change probing.                        *)
LEMMA SlotKept ==
  ASSUME ProbeSlot, probing' = probing,
         \A h \in Callers : HasSlot(h)' <=> HasSlot(h)
  PROVE  ProbeSlot'
  BY DEF ProbeSlot

LEMMA SlotTaken ==
  ASSUME ProbeSlot, ~probing, probing', NEW g \in Callers,
         \A h \in Callers : HasSlot(h)' <=> HasSlot(h) \/ h = g
  PROVE  ProbeSlot'
  BY DEF ProbeSlot

LEMMA SlotReleased ==
  ASSUME ProbeSlot, ~probing', NEW g \in Callers, HasSlot(g),
         \A h \in Callers : HasSlot(h)' <=> HasSlot(h) /\ h # g
  PROVE  ProbeSlot'
  BY DEF ProbeSlot

(* Every step of the callers keeps the inductive invariant. *)
LEMMA StepIInv == IInv /\ [Next]_vars => IInv'
<1> SUFFICES ASSUME IInv, [Next]_vars PROVE IInv'
  OBVIOUS
<1> USE BreakerAssumption DEF IInv
<1>1. ASSUME NEW g \in Callers, Execute(g) PROVE IInv'
  <2>1. TypeOK'
    BY <1>1 DEF TypeOK, Outside, Recording, Execute, Goto
  <2>2. ProbeSlot'
    <3>1. \A h \in Callers : HasSlot(h)' <=> HasSlot(h)
      BY <1>1 DEF TypeOK, ProbeInv, HasSlot, Recording, Execute, Goto
    <3> QED
      BY <1>1, <3>1, SlotKept DEF Execute
  <2>3. ProbeInv'
    BY <1>1 DEF TypeOK, ProbeInv, Recording, Execute, Goto
  <2>4. FreshInv'
    BY <1>1 DEF TypeOK, FreshInv, Execute, Goto
  <2> QED
    BY <2>1, <2>2, <2>3, <2>4
<1>2. ASSUME NEW g \in Callers, CallReset(g) PROVE IInv'
  <2>1. TypeOK'
    BY <1>2 DEF TypeOK, Outside, Recording, CallReset, Goto
  <2>2. ProbeSlot'
    <3>1. \A h \in Callers : HasSlot(h)' <=> HasSlot(h)
      BY <1>2 DEF TypeOK, ProbeInv, HasSlot, Recording, CallReset, Goto
    <3> QED
      BY <1>2, <3>1, SlotKept DEF CallReset
  <2>3. ProbeInv'
    BY <1>2 DEF TypeOK, ProbeInv, Recording, CallReset, Goto
  <2>4. FreshInv'
    BY <1>2 DEF TypeOK, FreshInv, CallReset, Goto
  <2> QED
    BY <2>1, <2>2, <2>3, <2>4
<1>3. ASSUME NEW g \in Callers, Allow(g) PROVE IInv'
  <2>1. TypeOK'
    BY <1>3 DEF TypeOK, Outside, Recording, Allow, Goto, Load, Consistent
  <2>2. ProbeSlot'
    <3>1. \A h \in Callers : HasSlot(h)' <=> HasSlot(h)
      BY <1>3 DEF TypeOK, ProbeInv, HasSlot, Recording, Allow, Goto, Load, Consistent
    <3> QED
      BY <1>3, <3>1, SlotKept DEF Allow
  <2>3. ProbeInv'
    BY <1>3 DEF TypeOK, ProbeInv, Recording, Allow, Goto, Load, Consistent
  <2>4. FreshInv'
    BY <1>3 DEF TypeOK, FreshInv, Allow, Goto, Load, Consistent
  <2> QED
    BY <2>1, <2>2, <2>3, <2>4
<1>4. ASSUME NEW g \in Callers, CheckTimeout(g) PROVE IInv'
  <2>1. TypeOK'
    BY <1>4 DEF TypeOK, Outside, Recording, CheckTimeout, Goto
  <2>2. ProbeSlot'
    <3>1. \A h \in Callers : HasSlot(h)' <=> HasSlot(h)
      BY <1>4 DEF TypeOK, ProbeInv, HasSlot, Recording, CheckTimeout, Goto
    <3> QED
      BY <1>4, <3>1, SlotKept DEF CheckTimeout
  <2>3. ProbeInv'
    BY <1>4 DEF TypeOK, ProbeInv, Recording, CheckTimeout, Goto
  <2>4. FreshInv'
    BY <1>4 DEF TypeOK, FreshInv, CheckTimeout, Goto
  <2> QED
    BY <2>1, <2>2, <2>3, <2>4
<1>5. ASSUME NEW g \in Callers, Claim(g) PROVE IInv'
  <2>1. TypeOK'
    BY <1>5 DEF TypeOK, Outside, Recording, Claim, Goto
  <2>2. ProbeSlot'
    <3>1. CASE probing
      <4>1. \A h \in Callers : HasSlot(h)' <=> HasSlot(h)
        BY <1>5, <3>1 DEF TypeOK, HasSlot, Claim, Goto
      <4> QED
        BY <1>5, <3>1, <4>1, SlotKept DEF Claim
    <3>2. CASE ~probing
      <4>1. \A h \in Callers : HasSlot(h)' <=> HasSlot(h) \/ h = g
        BY <1>5, <3>2 DEF TypeOK, HasSlot, Claim, Goto
      <4> QED
        BY <1>5, <3>2, <4>1, SlotTaken DEF Claim
    <3> QED
      BY <3>1, <3>2
  <2>3. ProbeInv'
    BY <1>5 DEF TypeOK, ProbeInv, Recording, Claim, Goto
  <2>4. FreshInv'
    BY <1>5 DEF TypeOK, FreshInv, Claim, Goto
  <2> QED
    BY <2>1, <2>2, <2>3, <2>4
<1>6. ASSUME NEW g \in Callers, EnterHalfOpen(g) PROVE IInv'
  <2>1. TypeOK'
    <3>1. Consistent(snap')
      <4>1. CASE g \in fresh
        BY <1>6, <4>1, NewSnapshots DEF EnterHalfOpen, CompareAndSwap, Swap
      <4>2. CASE g \notin fresh
        BY <1>6, <4>2 DEF EnterHalfOpen, CompareAndSwap, TypeOK
      <4> QED
        BY <4>1, <4>2
    <3> QED
      BY <1>6, <3>1 DEF TypeOK, Outside, Recording, EnterHalfOpen, Goto, CompareAndSwap, Swap
  <2>2. ProbeSlot'
    <3>1. \A h \in Callers : HasSlot(h)' <=> HasSlot(h)
      BY <1>6 DEF TypeOK, ProbeInv, HasSlot, Recording, EnterHalfOpen, Goto,
        CompareAndSwap, Swap, Snapshot
    <3> QED
      BY <1>6, <3>1, SlotKept DEF EnterHalfOpen
  <2>3. ProbeInv'
    BY <1>6 DEF TypeOK, ProbeInv, Recording, EnterHalfOpen, Goto, CompareAndSwap, Swap, Snapshot
  <2>4. FreshInv'
    BY <1>6 DEF TypeOK, FreshInv, EnterHalfOpen, Goto, CompareAndSwap, Swap, Snapshot
  <2> QED
    BY <2>1, <2>2, <2>3, <2>4
<1>7. ASSUME NEW g \in Callers, Recheck(g) PROVE IInv'
  <2>1. TypeOK'
    BY <1>7 DEF TypeOK, Outside, Recording, Recheck, Goto
  <2>2. ProbeSlot'
    <3>1. \A h \in Callers : HasSlot(h)' <=> HasSlot(h)
      BY <1>7 DEF TypeOK, ProbeInv, HasSlot, Recording, Recheck, Goto
    <3> QED
      BY <1>7, <3>1, SlotKept DEF Recheck
  <2>3. ProbeInv'
    BY <1>7 DEF TypeOK, ProbeInv, Recording, Recheck, Goto
  <2>4. FreshInv'
    BY <1>7 DEF TypeOK, FreshInv, Recheck, Goto
  <2> QED
    BY <2>1, <2>2, <2>3, <2>4
<1>8. ASSUME NEW g \in Callers, Drop(g) PROVE IInv'
  <2>1. TypeOK'
    BY <1>8 DEF TypeOK, Outside, Recording, Drop, Goto
  <2>2. ProbeSlot'
    <3>1. HasSlot(g) /\ ~probing'
      BY <1>8 DEF HasSlot, Drop
    <3>2. \A h \in Callers : HasSlot(h)' <=> HasSlot(h) /\ h # g
      BY <1>8 DEF TypeOK, ProbeInv, HasSlot, Recording, Drop, Goto
    <3> QED
      BY <3>1, <3>2, SlotReleased
  <2>3. ProbeInv'
    BY <1>8 DEF TypeOK, ProbeInv, Recording, Drop, Goto
  <2>4. FreshInv'
    BY <1>8 DEF TypeOK, FreshInv, Drop, Goto
  <2> QED
    BY <2>1, <2>2, <2>3, <2>4
<1>9. ASSUME NEW g \in Callers, Return(g) PROVE IInv'
  <2>1. TypeOK'
    BY <1>9 DEF TypeOK, Outside, Recording, Return, Goto, Finish
  <2>2. ProbeSlot'
    <3>1. \A h \in Callers : HasSlot(h)' <=> HasSlot(h)
      BY <1>9 DEF TypeOK, ProbeInv, HasSlot, Recording, Return, Goto, Finish
    <3> QED
      BY <1>9, <3>1, SlotKept DEF Return
  <2>3. ProbeInv'
    BY <1>9 DEF TypeOK, ProbeInv, Recording, Return, Goto, Finish
  <2>4. FreshInv'
    BY <1>9 DEF TypeOK, FreshInv, Return, Goto, Finish
  <2> QED
    BY <2>1, <2>2, <2>3, <2>4
<1>10. ASSUME NEW g \in Callers, Release(g) PROVE IInv'
  <2>1. TypeOK'
    BY <1>10 DEF TypeOK, Outside, Recording, Release, Goto
  <2>2. ProbeSlot'
    <3>1. HasSlot(g) /\ ~probing'
      BY <1>10 DEF HasSlot, Release
    <3>2. \A h \in Callers : HasSlot(h)' <=> HasSlot(h) /\ h # g
      BY <1>10 DEF TypeOK, ProbeInv, HasSlot, Recording, Release, Goto
    <3> QED
      BY <3>1, <3>2, SlotReleased
  <2>3. ProbeInv'
    BY <1>10 DEF TypeOK, ProbeInv, Recording, Release, Goto
  <2>4. FreshInv'
    BY <1>10 DEF TypeOK, FreshInv, Release, Goto
  <2> QED
    BY <2>1, <2>2, <2>3, <2>4
<1>11. ASSUME NEW g \in Callers, LoadSuccess(g) PROVE IInv'
  <2>1. TypeOK'
    BY <1>11 DEF TypeOK, Outside, Recording, LoadSuccess, Goto, Load, Finish
  <2>2. ProbeSlot'
    <3>1. \A h \in Callers : HasSlot(h)' <=> HasSlot(h)
      BY <1>11 DEF TypeOK, ProbeInv, HasSlot, Recording, LoadSuccess, Goto, Load, Finish
    <3> QED
      BY <1>11, <3>1, SlotKept DEF LoadSuccess
  <2>3. ProbeInv'
    BY <1>11 DEF TypeOK, ProbeInv, Recording, LoadSuccess, Goto, Load, Finish
  <2>4. FreshInv'
    <3>1. CASE snap.state = "half-open" \/ (snap.state = "closed" /\ snap.failures > 0)
      <4>1. ~(snap.state = "open" \/ (snap.state = "closed" /\ snap.failures = 0))
        BY <3>1
      <4>2. /\ pc' = [pc EXCEPT ![g] = "cas success"]
            /\ UNCHANGED <<snap, cooled>>
            /\ fresh' = fresh \cup {g}
        BY <1>11, <4>1 DEF LoadSuccess, Load, Goto
      <4> QED
        BY <3>1, <4>2 DEF TypeOK, FreshInv
    <3>2. CASE snap.state = "open" \/ (snap.state = "closed" /\ snap.failures = 0)
      BY <1>11, <3>2 DEF TypeOK, FreshInv, LoadSuccess, Goto, Load, Finish
    <3>3. snap.state \in {"closed", "open", "half-open"} /\ snap.failures \in Nat
      BY DEF TypeOK, Consistent
    <3> QED
      BY <3>1, <3>2, <3>3
  <2> QED
    BY <2>1, <2>2, <2>3, <2>4
<1>12. ASSUME NEW g \in Callers, RecordSuccess(g) PROVE IInv'
  <2>1. TypeOK'
    <3>1. Consistent(snap')
      <4>1. CASE g \in fresh
        <5>1. Consistent(AfterSuccess)
          BY <1>12, <4>1, CountedSnapshots DEF RecordSuccess, TypeOK, FreshInv, Consistent
        <5> QED
          BY <1>12, <4>1, <5>1 DEF RecordSuccess, CompareAndSwap, Swap
      <4>2. CASE g \notin fresh
        BY <1>12, <4>2 DEF RecordSuccess, CompareAndSwap, TypeOK
      <4> QED
        BY <4>1, <4>2
    <3> QED
      BY <1>12, <3>1 DEF TypeOK, Outside, Recording, RecordSuccess, Goto, CompareAndSwap, Swap
  <2>2. ProbeSlot'
    <3>1. \A h \in Callers : HasSlot(h)' <=> HasSlot(h)
      BY <1>12 DEF TypeOK, ProbeInv, HasSlot, Recording, RecordSuccess, Goto,
        CompareAndSwap, Swap, Snapshot, AfterSuccess
    <3> QED
      BY <1>12, <3>1, SlotKept DEF RecordSuccess
  <2>3. ProbeInv'
    BY <1>12 DEF TypeOK, ProbeInv, Recording, RecordSuccess, Goto, CompareAndSwap, Swap,
      Snapshot, AfterSuccess
  <2>4. FreshInv'
    BY <1>12 DEF TypeOK, FreshInv, RecordSuccess, Goto, CompareAndSwap, Swap, Snapshot,
      AfterSuccess
  <2> QED
    BY <2>1, <2>2, <2>3, <2>4
<1>13. ASSUME NEW g \in Callers, LoadFailure(g) PROVE IInv'
  <2>1. TypeOK'
    BY <1>13 DEF TypeOK, Outside, Recording, LoadFailure, Goto, Load, Finish
  <2>2. ProbeSlot'
    <3>1. \A h \in Callers : HasSlot(h)' <=> HasSlot(h)
      BY <1>13 DEF TypeOK, ProbeInv, HasSlot, Recording, LoadFailure, Goto, Load, Finish
    <3> QED
      BY <1>13, <3>1, SlotKept DEF LoadFailure
  <2>3. ProbeInv'
    BY <1>13 DEF TypeOK, ProbeInv, Recording, LoadFailure, Goto, Load, Finish
  <2>4. FreshInv'
    BY <1>13 DEF TypeOK, FreshInv, LoadFailure, Goto, Load, Finish
  <2> QED
    BY <2>1, <2>2, <2>3, <2>4
<1>14. ASSUME NEW g \in Callers, RecordFailure(g) PROVE IInv'
  <2>1. TypeOK'
    <3>1. Consistent(snap')
      <4>1. CASE g \in fresh
        <5>1. Consistent(AfterFailure)
          BY <1>14, <4>1, CountedSnapshots DEF RecordFailure, TypeOK, FreshInv, Consistent
        <5> QED
          BY <1>14, <4>1, <5>1 DEF RecordFailure, CompareAndSwap, Swap
      <4>2. CASE g \notin fresh
        BY <1>14, <4>2 DEF RecordFailure, CompareAndSwap, TypeOK
      <4> QED
        BY <4>1, <4>2
    <3> QED
      BY <1>14, <3>1 DEF TypeOK, Outside, Recording, RecordFailure, Goto, CompareAndSwap, Swap
  <2>2. ProbeSlot'
    <3>1. \A h \in Callers : HasSlot(h)' <=> HasSlot(h)
      BY <1>14 DEF TypeOK, ProbeInv, HasSlot, Recording, RecordFailure, Goto,
        CompareAndSwap, Swap, Snapshot, AfterFailure
    <3> QED
      BY <1>14, <3>1, SlotKept DEF RecordFailure
  <2>3. ProbeInv'
    BY <1>14 DEF TypeOK, ProbeInv, Recording, RecordFailure, Goto, CompareAndSwap, Swap,
      Snapshot, AfterFailure
  <2>4. FreshInv'
    BY <1>14 DEF TypeOK, FreshInv, RecordFailure, Goto, CompareAndSwap, Swap, Snapshot,
      AfterFailure
  <2> QED
    BY <2>1, <2>2, <2>3, <2>4
<1>15. ASSUME NEW g \in Callers, LoadReset(g) PROVE IInv'
  <2>1. TypeOK'
    BY <1>15 DEF TypeOK, Outside, Recording, LoadReset, Goto, Load
  <2>2. ProbeSlot'
    <3>1. \A h \in Callers : HasSlot(h)' <=> HasSlot(h)
      BY <1>15 DEF TypeOK, ProbeInv, HasSlot, Recording, LoadReset, Goto, Load
    <3> QED
      BY <1>15, <3>1, SlotKept DEF LoadReset
  <2>3. ProbeInv'
    BY <1>15 DEF TypeOK, ProbeInv, Recording, LoadReset, Goto, Load
  <2>4. FreshInv'
    BY <1>15 DEF TypeOK, FreshInv, LoadReset, Goto, Load
  <2> QED
    BY <2>1, <2>2, <2>3, <2>4
<1>16. ASSUME NEW g \in Callers, Reset(g) PROVE IInv'
  <2>1. TypeOK'
    <3>1. Consistent(snap')
      <4>1. CASE g \in fresh
        BY <1>16, <4>1, NewSnapshots DEF Reset, CompareAndSwap, Swap
      <4>2. CASE g \notin fresh
        BY <1>16, <4>2 DEF Reset, CompareAndSwap, TypeOK
      <4> QED
        BY <4>1, <4>2
    <3> QED
      BY <1>16, <3>1 DEF TypeOK, Outside, Recording, Reset, Goto, CompareAndSwap, Swap
  <2>2. ProbeSlot'
    <3>1. \A h \in Callers : HasSlot(h)' <=> HasSlot(h)
      BY <1>16 DEF TypeOK, ProbeInv, HasSlot, Recording, Reset, Goto, CompareAndSwap, Swap,
        Snapshot
    <3> QED
      BY <1>16, <3>1, SlotKept DEF Reset
  <2>3. ProbeInv'
    BY <1>16 DEF TypeOK, ProbeInv, Recording, Reset, Goto, CompareAndSwap, Swap, Snapshot
  <2>4. FreshInv'
    BY <1>16 DEF TypeOK, FreshInv, Reset, Goto, CompareAndSwap, Swap, Snapshot
  <2> QED
    BY <2>1, <2>2, <2>3, <2>4
<1>17. ASSUME Cool PROVE IInv'
  BY <1>17 DEF Cool, TypeOK, ProbeSlot, ProbeInv, HasSlot, FreshInv
<1>18. ASSUME UNCHANGED vars PROVE IInv'
  BY <1>18 DEF vars, TypeOK, ProbeSlot, ProbeInv, HasSlot, FreshInv
<1> QED
  BY <1>1, <1>2, <1>3, <1>4, <1>5, <1>6, <1>7, <1>8, <1>9, <1>10, <1>11, <1>12, <1>13,
    <1>14, <1>15, <1>16, <1>17, <1>18 DEF Next, Step

LEMMA AlwaysIInv == Spec => []IInv
  BY InitIInv, StepIInv, PTL DEF Spec

-----------------------------------------------------------------------------
(* The counters stay below their thresholds while the breaker is closed or  *)
(* half-open, whatever the callers do.                                      *)
THEOREM TypeCorrect == Spec => []TypeOK
<1>1. IInv => TypeOK
  BY DEF IInv
<1> QED
  BY <1>1, AlwaysIInv, PTL

(* For any number of callers the probe slot is held by at most one, and is  *)
(* marked as taken exactly while one holds it.                              *)
THEOREM ProbeSlotExclusive == Spec => []ProbeSlot
<1>1. IInv => ProbeSlot
  BY DEF IInv
<1> QED
  BY <1>1, AlwaysIInv, PTL

-----------------------------------------------------------------------------
(* What a step of g changes of the calls that the atomic breaker sees. *)
CallMoves(g, c) == \A h \in Callers : CallOf(h)' = IF h = g THEN c ELSE CallOf(h)
CallsStay == \A h \in Callers : CallOf(h)' = CallOf(h)

LEMMA Hidden ==
  ASSUME CallsStay, Probes' = Probes, UNCHANGED <<snap, cooled>>
  PROVE  UNCHANGED Atomic!vars
  BY DEF CallsStay, Atomic!vars, Atomic!circuit

LEMMA AllowRefines ==
  ASSUME IInv, NEW g \in Callers, Allow(g)
  PROVE  [Atomic!Next]_(Atomic!vars)
<1>1. Probes' = Probes /\ UNCHANGED <<snap, cooled>>
  BY DEF IInv, TypeOK, ProbeInv, Recording, Probes, Allow, Goto
<1>2. CASE snap.state = "closed"
  <2>1. CallOf(g) = "out" /\ CallMoves(g, "running")
    BY <1>2 DEF IInv, TypeOK, CallOf, CallMoves, Allow, Goto
  <2>2. Atomic!Admit(g)
    BY <1>1, <1>2, <2>1 DEF CallMoves, Atomic!Admit, Atomic!circuit
  <2> QED
    BY <2>2 DEF Atomic!Next
<1>3. CASE snap.state # "closed"
  <2>1. CallsStay
    BY <1>3 DEF IInv, TypeOK, Consistent, CallOf, CallsStay, Allow, Goto
  <2> QED
    BY <1>1, <2>1, Hidden
<1> QED
  BY <1>2, <1>3

(* A caller that takes the probe slot finds no other probe. *)
LEMMA ProbeRefines ==
  ASSUME IInv, NEW g \in Callers, EnterHalfOpen(g) \/ Recheck(g)
  PROVE  [Atomic!Next]_(Atomic!vars)
<1>1. Probes = {} /\ CallOf(g) = "out"
  <2>1. pc[g] \in {"enter", "recheck"}
    BY DEF EnterHalfOpen, Recheck
  <2>2. HasSlot(g) /\ g \notin isProbe /\ CallOf(g) = "out"
    BY <2>1 DEF IInv, ProbeInv, Recording, HasSlot, CallOf
  <2>3. \A h \in isProbe : h = g
    BY <2>2 DEF IInv, TypeOK, ProbeSlot, HasSlot
  <2> QED
    BY <2>2, <2>3 DEF Probes
<1>2. CASE pc'[g] = "call"
  <2>1. CallMoves(g, "running") /\ Probes' = {g}
    BY <1>1, <1>2 DEF IInv, TypeOK, ProbeInv, Recording, Probes, CallOf, CallMoves,
       EnterHalfOpen, Recheck, CompareAndSwap, Goto
  <2>2. \/ snap.state = "half-open" /\ UNCHANGED <<snap, cooled>>
        \/ /\ snap.state = "open" /\ cooled
           /\ snap' = Snapshot("half-open", 0, 0) /\ cooled' = FALSE
    BY <1>2 DEF IInv, TypeOK, FreshInv, EnterHalfOpen, Recheck, CompareAndSwap, Swap, Goto
  <2>3. Atomic!Probe(g)
    <3>1. \/ snap.state = "half-open" /\ UNCHANGED <<Atomic!circuit, cooled>>
          \/ snap.state = "open" /\ cooled /\ Atomic!Become("half-open", 0, 0)
      BY <2>2 DEF Snapshot, Atomic!Become, Atomic!circuit
    <3> QED
      BY <1>1, <2>1, <3>1 DEF CallMoves, Atomic!Probe
  <2> QED
    BY <2>3 DEF Atomic!Next
<1>3. CASE pc'[g] # "call"
  <2>1. CallsStay /\ Probes' = Probes /\ UNCHANGED <<snap, cooled>>
    BY <1>1, <1>3 DEF IInv, TypeOK, ProbeInv, Recording, Probes, CallOf, CallsStay,
       EnterHalfOpen, Recheck, CompareAndSwap, Goto
  <2> QED
    BY <2>1, Hidden
<1> QED
  BY <1>2, <1>3

LEMMA ReturnRefines ==
  ASSUME IInv, NEW g \in Callers, Return(g)
  PROVE  [Atomic!Next]_(Atomic!vars)
<1>1. CallOf(g) = "running" /\ UNCHANGED <<snap, cooled>>
  BY DEF CallOf, Return
<1>2. \/ CallMoves(g, "out") /\ Probes' = Probes \ {g}
      \/ CallMoves(g, "success") /\ Probes' = Probes
      \/ CallMoves(g, "failure") /\ Probes' = Probes
  BY DEF IInv, TypeOK, CallOf, CallMoves, Probes, Return, Goto, Finish
<1>3. Atomic!Return(g)
  BY <1>1, <1>2 DEF CallMoves, Atomic!Return, Atomic!circuit
<1> QED
  BY <1>3 DEF Atomic!Next

(* Loading a snapshot that makes recordSuccess or recordFailure return, and *)
(* a CAS that succeeds, are the moments at which an outcome is counted.     *)
LEMMA SuccessRefines ==
  ASSUME IInv, NEW g \in Callers, LoadSuccess(g) \/ RecordSuccess(g)
  PROVE  [Atomic!Next]_(Atomic!vars)
<1>1. CallOf(g) = "success"
  BY DEF CallOf, LoadSuccess, RecordSuccess
<1>2. CASE pc'[g] \in {"out", "release"}
  <2>1. CallMoves(g, "out") /\ Probes' = Probes \ {g}
    BY <1>2 DEF IInv, TypeOK, CallOf, CallMoves, Probes, LoadSuccess, RecordSuccess,
       CompareAndSwap, Goto, Finish
  <2>2. Atomic!CountSuccess
    <3>1. CASE LoadSuccess(g)
      BY <1>2, <3>1 DEF IInv, TypeOK, Consistent, LoadSuccess, Goto, Finish,
         Atomic!CountSuccess, Atomic!circuit
    <3>2. CASE RecordSuccess(g)
      <4>1. g \in fresh /\ snap' = AfterSuccess /\ cooled' = FALSE
        BY <1>2, <3>2 DEF IInv, TypeOK, RecordSuccess, CompareAndSwap, Swap, Goto
      <4>2. snap.state = "half-open" \/ (snap.state = "closed" /\ snap.failures > 0)
        BY <3>2, <4>1 DEF IInv, FreshInv, RecordSuccess
      <4> QED
        BY <4>1, <4>2 DEF AfterSuccess, Snapshot, Atomic!CountSuccess, Atomic!Become
    <3> QED
      BY <3>1, <3>2
  <2>3. Atomic!Count(g)
    BY <1>1, <2>1, <2>2 DEF CallMoves, Atomic!Count
  <2> QED
    BY <2>3 DEF Atomic!Next
<1>3. CASE pc'[g] \notin {"out", "release"}
  <2>1. CallsStay /\ Probes' = Probes /\ UNCHANGED <<snap, cooled>>
    BY <1>3 DEF IInv, TypeOK, ProbeInv, CallOf, CallsStay, Probes, LoadSuccess,
       RecordSuccess, CompareAndSwap, Goto, Finish
  <2> QED
    BY <2>1, Hidden
<1> QED
  BY <1>2, <1>3

LEMMA FailureRefines ==
  ASSUME IInv, NEW g \in Callers, LoadFailure(g) \/ RecordFailure(g)
  PROVE  [Atomic!Next]_(Atomic!vars)
<1>1. CallOf(g) = "failure"
  BY DEF CallOf, LoadFailure, RecordFailure
<1>2. CASE pc'[g] \in {"out", "release"}
  <2>1. CallMoves(g, "out") /\ Probes' = Probes \ {g}
    BY <1>2 DEF IInv, TypeOK, CallOf, CallMoves, Probes, LoadFailure, RecordFailure,
       CompareAndSwap, Goto, Finish
  <2>2. Atomic!CountFailure
    <3>1. CASE LoadFailure(g)
      BY <1>2, <3>1 DEF IInv, TypeOK, LoadFailure, Goto, Finish,
         Atomic!CountFailure, Atomic!circuit
    <3>2. CASE RecordFailure(g)
      <4>1. g \in fresh /\ snap' = AfterFailure /\ cooled' = FALSE
        BY <1>2, <3>2 DEF IInv, TypeOK, RecordFailure, CompareAndSwap, Swap, Goto
      <4>2. snap.state \in {"half-open", "closed"} /\ snap.failures \in Nat
        BY <3>2, <4>1 DEF IInv, TypeOK, Consistent, FreshInv, RecordFailure
      <4> QED
        BY <4>1, <4>2, BreakerAssumption
        DEF AfterFailure, Snapshot, Atomic!CountFailure, Atomic!Become
    <3> QED
      BY <3>1, <3>2
  <2>3. Atomic!Count(g)
    BY <1>1, <2>1, <2>2 DEF CallMoves, Atomic!Count
  <2> QED
    BY <2>3 DEF Atomic!Next
<1>3. CASE pc'[g] \notin {"out", "release"}
  <2>1. CallsStay /\ Probes' = Probes /\ UNCHANGED <<snap, cooled>>
    BY <1>3 DEF IInv, TypeOK, ProbeInv, CallOf, CallsStay, Probes, LoadFailure,
       RecordFailure, CompareAndSwap, Goto, Finish
  <2> QED
    BY <2>1, Hidden
<1> QED
  BY <1>2, <1>3

LEMMA ResetRefines ==
  ASSUME IInv, NEW g \in Callers, Reset(g)
  PROVE  [Atomic!Next]_(Atomic!vars)
<1>1. CallsStay /\ Probes' = Probes
  BY DEF IInv, TypeOK, ProbeInv, Recording, CallOf, CallsStay, Probes, Reset,
     CompareAndSwap, Goto
<1>2. CASE g \in fresh
  <2>1. Atomic!Reset
    <3>1. snap' = Snapshot("closed", 0, 0) /\ cooled' = FALSE
      BY <1>2 DEF Reset, CompareAndSwap, Swap
    <3> QED
      BY <1>1, <3>1 DEF CallsStay, Snapshot, Atomic!Reset, Atomic!Become
  <2> QED
    BY <2>1 DEF Atomic!Next
<1>3. CASE g \notin fresh
  BY <1>1, <1>3, Hidden DEF Reset, CompareAndSwap
<1> QED
  BY <1>2, <1>3

LEMMA SilentRefines ==
  ASSUME IInv, NEW g \in Callers,
         \/ Execute(g) \/ CheckTimeout(g) \/ Claim(g) \/ Drop(g) \/ Release(g)
         \/ CallReset(g) \/ LoadReset(g)
  PROVE  UNCHANGED Atomic!vars
<1>1. CallsStay
  BY DEF IInv, TypeOK, CallOf, CallsStay, Execute, CheckTimeout, Claim, Drop,
     Release, CallReset, LoadReset, Goto
<1>2. Probes' = Probes
  BY DEF IInv, TypeOK, ProbeInv, Recording, Probes, Execute, CheckTimeout, Claim, Drop,
     Release, CallReset, LoadReset, Goto
<1>3. UNCHANGED <<snap, cooled>>
  BY DEF Execute, CheckTimeout, Claim, Drop, Release, CallReset, LoadReset
<1> QED
  BY <1>1, <1>2, <1>3, Hidden

LEMMA StepRefines == IInv /\ [Next]_vars => [Atomic!Next]_(Atomic!vars)
<1> SUFFICES ASSUME IInv, [Next]_vars PROVE [Atomic!Next]_(Atomic!vars)
  OBVIOUS
<1>1. ASSUME NEW g \in Callers, Execute(g) \/ CallReset(g) \/ Step(g)
      PROVE  [Atomic!Next]_(Atomic!vars)
  BY <1>1, AllowRefines, ProbeRefines, ReturnRefines, SuccessRefines, FailureRefines,
     ResetRefines, SilentRefines DEF Step
<1>2. CASE Cool
  BY <1>2 DEF Cool, CallOf, Probes, Atomic!Next, Atomic!Cool, Atomic!circuit
<1>3. CASE UNCHANGED vars
  BY <1>3 DEF vars, CallOf, Probes, Atomic!vars, Atomic!circuit
<1> QED
  BY <1>1, <1>2, <1>3 DEF Next

(* For any number of callers and any thresholds the CAS loops implement the *)
(* atomic breaker: no outcome is lost or counted twice, no call is admitted *)
(* that the atomic breaker would refuse.                                    *)
THEOREM BreakerLinearizable == Spec => Linearizable
<1>1. Init => Atomic!Init
  BY DEF Init, Snapshot, CallOf, Probes, Atomic!Init
<1> QED
  BY <1>1, StepRefines, AlwaysIInv, PTL DEF Spec, Linearizable, Atomic!Spec
=============================================================================
