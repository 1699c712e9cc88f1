----------------------------- MODULE CommitLog ------------------------------
(***************************************************************************)
(* What the consumer group promises for each partition: records are        *)
(* handled in the order of the partition (one may be handled again, none   *)
(* is skipped), and the offset that is committed never runs ahead of what  *)
(* has been handled.  No worker, channel or rebalance is in sight.         *)
(***************************************************************************)
EXTENDS Naturals

CONSTANTS Partitions, MaxOffset

VARIABLES
  handled,    (* the offsets of each partition some handler has finished    *)
  committed   (* the offset from which each partition would be read again   *)

(* Everything below offset n has been handled. *)
HandledBelow(p, n) == \A i \in 0..MaxOffset : i < n => i \in handled[p]

Init ==
  /\ handled = [p \in Partitions |-> {}]
  /\ committed = [p \in Partitions |-> 0]

Handle(p, i) ==
  /\ HandledBelow(p, i)
  /\ handled' = [handled EXCEPT ![p] = @ \cup {i}]
  /\ UNCHANGED committed

(* One request commits the offsets of several partitions. *)
Commit ==
  /\ committed' \in [Partitions -> 0..MaxOffset]
  /\ \A p \in Partitions :
       committed'[p] = committed[p] \/ HandledBelow(p, committed'[p])
  /\ UNCHANGED handled

Next ==
  \/ \E p \in Partitions, i \in 0..(MaxOffset - 1) : Handle(p, i)
  \/ Commit

Spec == Init /\ [][Next]_<<handled, committed>>
=============================================================================
