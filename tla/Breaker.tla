------------------------------ MODULE Breaker -------------------------------
(***************************************************************************)
(* The lock-free circuit breaker, one action per atomic memory operation.  *)
(*                                                                         *)
(* A snapshot is immutable and every swap installs a new one, so a         *)
(* CompareAndSwap succeeds exactly when no swap has succeeded since the    *)
(* caller loaded the pointer.  That is all fresh records: while it has g,   *)
(* what g loaded is the current snapshot, and otherwise its swap fails     *)
(* whatever it loaded.  generation is left out: nothing reads it.          *)
(***************************************************************************)
EXTENDS Integers, FiniteSets

CONSTANTS
  Callers,            (* goroutines calling Execute and Reset               *)
  MaxFailures,        (* cfg.MaxFailures                                    *)
  HalfOpenSuccesses   (* cfg.HalfOpenSuccesses                              *)

(* New replaces values that are not positive. *)
ASSUME BreakerAssumption ==
  /\ MaxFailures \in Nat \ {0}
  /\ HalfOpenSuccesses \in Nat \ {0}

VARIABLES
  snap,     (* the current snapshot                                         *)
  cooled,   (* ResetTimeout has passed since its lastFailedAt               *)
  probing,  (* the single probe slot                                        *)
  pc,       (* where each caller is                                         *)
  fresh,    (* callers since whose last load no swap has succeeded          *)
  isProbe   (* callers whose isProbe is true                                *)

vars == <<snap, cooled, probing, pc, fresh, isProbe>>

Outside == {"out", "allow", "timeout", "claim open", "claim half", "enter", "recheck", "drop"}
Recording == {"success", "cas success", "failure", "cas failure"}

(* A count at its threshold is never seen: reaching it changes the state. *)
Consistent(s) ==
  /\ s \in [state : {"closed", "open", "half-open"}, failures : Nat, successes : Nat]
  /\ s.state = "closed" => s.failures < MaxFailures /\ s.successes = 0
  /\ s.state = "half-open" => s.failures = 0 /\ s.successes < HalfOpenSuccesses

TypeOK ==
  /\ Consistent(snap)
  /\ cooled \in BOOLEAN
  /\ probing \in BOOLEAN
  /\ pc \in [Callers -> Outside \cup Recording
                        \cup {"call", "release", "reset", "cas reset"}]
  /\ fresh \subseteq Callers
  /\ isProbe \subseteq Callers

Snapshot(st, f, s) == [state |-> st, failures |-> f, successes |-> s]

Init ==
  /\ snap = Snapshot("closed", 0, 0)
  /\ cooled = FALSE
  /\ probing = FALSE
  /\ pc = [g \in Callers |-> "out"]
  /\ fresh = {}
  /\ isProbe = {}

Goto(g, l) == pc' = [pc EXCEPT ![g] = l]

Load(g) == fresh' = fresh \cup {g}

(* A CompareAndSwap that succeeds makes every loaded pointer stale. *)
Swap(next) ==
  /\ snap' = next
  /\ cooled' = FALSE
  /\ fresh' = {}

(* Variant: Store in place of CompareAndSwap. *)
BlindSwap(g, next, yes, no) == Swap(next) /\ Goto(g, yes)

(* g's CompareAndSwap installs next and goes to yes, or g goes to no. *)
CompareAndSwap(g, next, yes, no) ==
  \/ g \in fresh /\ Swap(next) /\ Goto(g, yes)
  \/ g \notin fresh /\ Goto(g, no) /\ UNCHANGED <<snap, cooled, fresh>>

Cool ==
  /\ snap.state = "open" /\ ~cooled
  /\ cooled' = TRUE
  /\ UNCHANGED <<snap, probing, pc, fresh, isProbe>>

-----------------------------------------------------------------------------
(* allow                                                                    *)

Execute(g) ==
  /\ pc[g] = "out"
  /\ Goto(g, "allow")
  /\ UNCHANGED <<snap, cooled, probing, fresh, isProbe>>

Allow(g) ==
  /\ pc[g] = "allow"
  /\ Load(g)
  /\ Goto(g, CASE snap.state = "closed"    -> "call"
               [] snap.state = "open"      -> "timeout"
               [] snap.state = "half-open" -> "claim half")
  /\ UNCHANGED <<snap, cooled, probing, isProbe>>

(* The snapshot g loaded may no longer be the one that cooled is about. *)
CheckTimeout(g) ==
  /\ pc[g] = "timeout"
  /\ \/ (g \notin fresh \/ ~cooled) /\ Goto(g, "out")
     \/ (g \notin fresh \/ cooled) /\ Goto(g, "claim open")
  /\ UNCHANGED <<snap, cooled, probing, fresh, isProbe>>

(* probing.CompareAndSwap(false, true); ErrOpen if the slot is taken. *)
Claim(g) ==
  /\ pc[g] \in {"claim open", "claim half"}
  /\ probing' = TRUE
  /\ Goto(g, IF probing THEN "out"
             ELSE IF pc[g] = "claim open" THEN "enter" ELSE "recheck")
  /\ UNCHANGED <<snap, cooled, fresh, isProbe>>

EnterHalfOpen(g) ==
  /\ pc[g] = "enter"
  /\ CompareAndSwap(g, Snapshot("half-open", 0, 0), "call", "drop")
  /\ isProbe' = IF g \in fresh THEN isProbe \cup {g} ELSE isProbe
  /\ UNCHANGED probing

Recheck(g) ==
  /\ pc[g] = "recheck"
  /\ Goto(g, IF snap.state = "half-open" THEN "call" ELSE "drop")
  /\ isProbe' = IF snap.state = "half-open" THEN isProbe \cup {g} ELSE isProbe
  /\ UNCHANGED <<snap, cooled, probing, fresh>>

(* Variant: the slot is not given back when the swap was lost. *)
DropKeepingSlot(g) ==
  /\ pc[g] = "drop"
  /\ Goto(g, "allow")
  /\ UNCHANGED <<snap, cooled, probing, fresh, isProbe>>

Drop(g) ==
  /\ pc[g] = "drop"
  /\ probing' = FALSE
  /\ Goto(g, "allow")
  /\ UNCHANGED <<snap, cooled, fresh, isProbe>>

-----------------------------------------------------------------------------
(* The call, and the deferred functions that follow it.                     *)

Finish(g) == Goto(g, IF g \in isProbe THEN "release" ELSE "out")

(* Variant: a cancelled call leaves Execute before the slot is given back. *)
ReturnKeepingSlot(g) ==
  /\ pc[g] = "call"
  /\ \E l \in {"out", "success", "failure"} : Goto(g, l)
  /\ UNCHANGED <<snap, cooled, probing, fresh, isProbe>>

(* A panic is a failure, a call its caller cancelled is neither, however    *)
(* long it took, and any other call that was slow is a failure.             *)
Return(g) ==
  /\ pc[g] = "call"
  /\ \E e \in {"none", "ignored", "error", "panic", "cancelled"}, slow \in BOOLEAN :
       IF e = "cancelled" THEN Finish(g)
       ELSE Goto(g, IF slow \/ e \in {"error", "panic"} THEN "failure" ELSE "success")
  /\ UNCHANGED <<snap, cooled, probing, fresh, isProbe>>

Release(g) ==
  /\ pc[g] = "release"
  /\ probing' = FALSE
  /\ isProbe' = isProbe \ {g}
  /\ Goto(g, "out")
  /\ UNCHANGED <<snap, cooled, fresh>>

-----------------------------------------------------------------------------
(* recordSuccess, recordFailure and Reset: load, then swap or start again.  *)

LoadSuccess(g) ==
  /\ pc[g] = "success"
  /\ Load(g)
  /\ IF snap.state = "open" \/ (snap.state = "closed" /\ snap.failures = 0)
     THEN Finish(g)
     ELSE Goto(g, "cas success")
  /\ UNCHANGED <<snap, cooled, probing, isProbe>>

AfterSuccess ==
  IF snap.state = "half-open" /\ snap.successes + 1 < HalfOpenSuccesses
  THEN Snapshot("half-open", 0, snap.successes + 1)
  ELSE Snapshot("closed", 0, 0)

RecordSuccess(g) ==
  /\ pc[g] = "cas success"
  /\ CompareAndSwap(g, AfterSuccess, IF g \in isProbe THEN "release" ELSE "out", "success")
  /\ UNCHANGED <<probing, isProbe>>

LoadFailure(g) ==
  /\ pc[g] = "failure"
  /\ Load(g)
  /\ IF snap.state = "open" THEN Finish(g) ELSE Goto(g, "cas failure")
  /\ UNCHANGED <<snap, cooled, probing, isProbe>>

(* Variant: failures > MaxFailures. *)
AfterFailureOnceMore ==
  IF snap.state = "half-open" THEN Snapshot("open", 1, 0)
  ELSE Snapshot(IF snap.failures + 1 > MaxFailures THEN "open" ELSE "closed",
                snap.failures + 1, 0)

AfterFailure ==
  IF snap.state = "half-open" THEN Snapshot("open", 1, 0)
  ELSE Snapshot(IF snap.failures + 1 >= MaxFailures THEN "open" ELSE "closed",
                snap.failures + 1, 0)

RecordFailure(g) ==
  /\ pc[g] = "cas failure"
  /\ CompareAndSwap(g, AfterFailure, IF g \in isProbe THEN "release" ELSE "out", "failure")
  /\ UNCHANGED <<probing, isProbe>>

CallReset(g) ==
  /\ pc[g] = "out"
  /\ Goto(g, "reset")
  /\ UNCHANGED <<snap, cooled, probing, fresh, isProbe>>

LoadReset(g) ==
  /\ pc[g] = "reset"
  /\ Load(g)
  /\ Goto(g, "cas reset")
  /\ UNCHANGED <<snap, cooled, probing, isProbe>>

Reset(g) ==
  /\ pc[g] = "cas reset"
  /\ CompareAndSwap(g, Snapshot("closed", 0, 0), "out", "reset")
  /\ UNCHANGED <<probing, isProbe>>

-----------------------------------------------------------------------------
Step(g) ==
  \/ Allow(g) \/ CheckTimeout(g) \/ Claim(g)
  \/ EnterHalfOpen(g) \/ Recheck(g) \/ Drop(g)
  \/ Return(g) \/ Release(g)
  \/ LoadSuccess(g) \/ RecordSuccess(g)
  \/ LoadFailure(g) \/ RecordFailure(g)
  \/ LoadReset(g) \/ Reset(g)

Next ==
  \/ \E g \in Callers : Execute(g) \/ CallReset(g) \/ Step(g)
  \/ Cool

Spec == Init /\ [][Next]_vars

(* Goroutines keep running and calls return: the HTTP clients have timeouts. *)
Fairness == \A g \in Callers : WF_vars(Step(g))

FairSpec == Spec /\ Fairness

(* Calls keep coming, and time passes. *)
BusySpec == FairSpec /\ WF_vars(Cool) /\ \A g \in Callers : WF_vars(Execute(g))

-----------------------------------------------------------------------------
HasSlot(g) == pc[g] \in {"enter", "recheck", "drop", "release"} \/ g \in isProbe

(* The probe slot is a lock: probing is set exactly while some caller has   *)
(* it, and no two callers do, whatever order their CASes and the deferred   *)
(* Store(false) take.                                                       *)
ProbeSlot ==
  /\ probing <=> \E g \in Callers : HasSlot(g)
  /\ \A g, h \in Callers : HasSlot(g) /\ HasSlot(h) => g = h

(* What the atomic breaker sees of a caller, and its probes. *)
CallOf(g) ==
  CASE pc[g] = "call" -> "running"
    [] pc[g] \in {"success", "cas success"} -> "success"
    [] pc[g] \in {"failure", "cas failure"} -> "failure"
    [] OTHER -> "out"

Probes == {g \in isProbe : pc[g] # "release"}

Atomic == INSTANCE AtomicBreaker WITH
  state <- snap.state, failures <- snap.failures, successes <- snap.successes,
  call <- [g \in Callers |-> CallOf(g)], probes <- Probes

(* The lock-free breaker is linearizable: its CAS loops lose no outcome and *)
(* count none twice, and admit calls exactly as the atomic breaker does.    *)
Linearizable == Atomic!Spec

(* After its timeout an open breaker lets a probe through as long as calls  *)
(* keep coming: no caller keeps the slot from the others for good.          *)
Recovers == snap.state = "open" ~> snap.state # "open"

(* README.md:49, HalfOpen -> Closed on successful probes.                   *)
ClosedByProbe ==
  [][snap.state = "half-open" /\ snap'.state = "closed" =>
       \E g \in Callers : (g \in isProbe \/ pc[g] = "cas reset") /\ pc'[g] # pc[g]]_vars
=============================================================================
