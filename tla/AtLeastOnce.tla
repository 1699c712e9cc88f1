----------------------------- MODULE AtLeastOnce ----------------------------
(***************************************************************************)
(* What the outbox promises the rest of the system, with no relay, batch,  *)
(* lock or retry in sight: an accepted message may be sent any number of   *)
(* times while it is pending, it is settled only once the broker holds a   *)
(* copy, and a settled message is never sent again.                        *)
(***************************************************************************)
EXTENDS Naturals

CONSTANT Msgs

VARIABLES
  stage,   (* absent, pending or published                                  *)
  copies   (* how many times the broker has stored the message              *)

Init ==
  /\ stage = [m \in Msgs |-> "absent"]
  /\ copies = [m \in Msgs |-> 0]

Accept(m) ==
  /\ stage[m] = "absent"
  /\ stage' = [stage EXCEPT ![m] = "pending"]
  /\ UNCHANGED copies

Send(m) ==
  /\ stage[m] = "pending"
  /\ copies' = [copies EXCEPT ![m] = @ + 1]
  /\ UNCHANGED stage

(* Messages settle in groups: one commit covers a batch. *)
Settle(S) ==
  /\ \A m \in S : stage[m] = "pending" /\ copies[m] > 0
  /\ stage' = [m \in Msgs |-> IF m \in S THEN "published" ELSE stage[m]]
  /\ UNCHANGED copies

Next ==
  \/ \E m \in Msgs : Accept(m) \/ Send(m)
  \/ \E S \in SUBSET Msgs : Settle(S)

Spec == Init /\ [][Next]_<<stage, copies>>
=============================================================================
