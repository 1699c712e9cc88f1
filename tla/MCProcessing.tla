---------------------------- MODULE MCProcessing ----------------------------
(* Model-checking instance of Processing: instances may be exchanged, and   *)
(* the partition is kept short.  A constraint only cuts behaviours off: it  *)
(* takes no step away from a fair action, so it refutes no liveness.        *)
EXTENDS Processing, TLC

WorkerSymmetry == Permutations(Workers)

ShortLog == Len(log) <= 3

(* Once a fault has happened, a record and its retry are all there is. *)
ShortAfterFault == faults > 0 => Len(log) <= 2
=============================================================================
