--------------------------- MODULE AtomicBreaker ----------------------------
(***************************************************************************)
(* A circuit breaker whose every operation is one indivisible step: what a *)
(* mutex around the counters would give.  A call is admitted, runs, and    *)
(* has its outcome counted once, against the state of that moment.         *)
(***************************************************************************)
EXTENDS Integers

CONSTANTS Callers, MaxFailures, HalfOpenSuccesses

VARIABLES
  state, failures, successes,  (* the circuit                               *)
  cooled,                      (* the reset timeout has passed              *)
  call,                        (* out, running, or the outcome to count     *)
  probes                       (* callers whose running call is a probe     *)

circuit == <<state, failures, successes>>
vars == <<circuit, cooled, call, probes>>

Init ==
  /\ state = "closed" /\ failures = 0 /\ successes = 0
  /\ cooled = FALSE
  /\ call = [c \in Callers |-> "out"]
  /\ probes = {}

Become(st, f, s) ==
  /\ state' = st /\ failures' = f /\ successes' = s
  /\ cooled' = FALSE

Cool ==
  /\ state = "open" /\ ~cooled
  /\ cooled' = TRUE
  /\ UNCHANGED <<circuit, call, probes>>

Admit(c) ==
  /\ state = "closed"
  /\ call[c] = "out"
  /\ call' = [call EXCEPT ![c] = "running"]
  /\ UNCHANGED <<circuit, cooled, probes>>

(* One probe at a time, and none before the timeout. *)
Probe(c) ==
  /\ call[c] = "out"
  /\ probes = {}
  /\ \/ state = "half-open" /\ UNCHANGED <<circuit, cooled>>
     \/ state = "open" /\ cooled /\ Become("half-open", 0, 0)
  /\ call' = [call EXCEPT ![c] = "running"]
  /\ probes' = {c}

(* A call the caller gave up leaves nothing to count. *)
Return(c) ==
  /\ call[c] = "running"
  /\ \/ /\ call' = [call EXCEPT ![c] = "out"]
        /\ probes' = probes \ {c}
     \/ /\ \E o \in {"success", "failure"} : call' = [call EXCEPT ![c] = o]
        /\ UNCHANGED probes
  /\ UNCHANGED <<circuit, cooled>>

CountSuccess ==
  \/ state = "closed" /\ failures > 0 /\ Become("closed", 0, 0)
  \/ state = "closed" /\ failures = 0 /\ UNCHANGED <<circuit, cooled>>
  \/ /\ state = "half-open"
     /\ IF successes + 1 < HalfOpenSuccesses
        THEN Become("half-open", 0, successes + 1)
        ELSE Become("closed", 0, 0)
  \/ state = "open" /\ UNCHANGED <<circuit, cooled>>

CountFailure ==
  \/ /\ state = "closed"
     /\ IF failures + 1 < MaxFailures
        THEN Become("closed", failures + 1, 0)
        ELSE Become("open", failures + 1, 0)
  \/ state = "half-open" /\ Become("open", 1, 0)
  \/ state = "open" /\ UNCHANGED <<circuit, cooled>>

Count(c) ==
  /\ \/ call[c] = "success" /\ CountSuccess
     \/ call[c] = "failure" /\ CountFailure
  /\ call' = [call EXCEPT ![c] = "out"]
  /\ probes' = probes \ {c}

Reset == Become("closed", 0, 0) /\ UNCHANGED <<call, probes>>

Next ==
  \/ \E c \in Callers : Admit(c) \/ Probe(c) \/ Return(c) \/ Count(c)
  \/ Reset
  \/ Cool

Spec == Init /\ [][Next]_vars
=============================================================================
