------------------------------ MODULE MCOutbox ------------------------------
(* Model-checking instance of Outbox: the batches of one relay are too small *)
(* for the rows, so that a row that fails keeps the others waiting.          *)
EXTENDS Outbox

CONSTANT Small  (* the relay whose batches have room for one row             *)

MCBatchSize == [r \in Relays |-> IF r = Small THEN 1 ELSE 2]
=============================================================================
