------------------------------- MODULE Outbox -------------------------------
(***************************************************************************)
(* The transactional outbox: rows committed together with an order change  *)
(* (SaveTx, UpdateStatusTx), and the relays that poll them, publish them   *)
(* to Kafka and record the outcome, all inside one database transaction.   *)
(*                                                                         *)
(* Several relays may poll one database, which is what the query's         *)
(* FOR UPDATE SKIP LOCKED is for.  A relay's open transaction is the three *)
(* sets todo, marked and bumped: their union is what it holds row locks    *)
(* on, and marked and bumped are its updates not yet committed.            *)
(***************************************************************************)
EXTENDS Integers, FiniteSets

CONSTANTS
  Msgs,         (* outbox rows, numbered in created_at order                *)
  Relays,       (* running instances of outbox.Relay                        *)
  BatchSize,    (* cfg.Outbox.BatchSize of each instance                    *)
  MaxAttempts,  (* the literal 5 in the query's retry_count < 5             *)
  FaultKinds,   (* the kinds of fault that may happen                       *)
  MaxFaults     (* bound: how many faults other than failed publishes       *)

AllFaults == {"nack", "lostack", "dberror", "lostcommit", "crash", "cancel"}

ASSUME OutboxAssumption ==
  /\ Msgs \subseteq Nat
  /\ IsFiniteSet(Msgs)
  /\ BatchSize \in [Relays -> Nat \ {0}]
  /\ MaxAttempts \in Nat \ {0}
  /\ FaultKinds \subseteq AllFaults
  /\ MaxFaults \in Nat

VARIABLES
  row,        (* committed state of each row: absent, pending, published    *)
  retries,    (* committed retry_count of each row                          *)
  copies,     (* publishes of each message that reach the broker            *)
  pc,         (* where each relay is                                        *)
  todo,       (* rows of the relay's batch not yet dealt with               *)
  marked,     (* rows MarkPublished has updated in the open transaction     *)
  bumped,     (* rows UpdateRetryCount has updated in the open transaction  *)
  cancelled,  (* the context of the relay's Run has been cancelled          *)
  faults      (* faults spent so far                                        *)

table == <<row, retries>>
tx == <<todo, marked, bumped>>
vars == <<row, retries, copies, pc, todo, marked, bumped, cancelled, faults>>

InTx == {"publishing", "marking", "bumping"}

TypeOK ==
  /\ row \in [Msgs -> {"absent", "pending", "published"}]
  /\ retries \in [Msgs -> 0..MaxAttempts]
  /\ copies \in [Msgs -> Nat]
  /\ pc \in [Relays -> {"waiting", "draining", "stopped"} \cup InTx]
  /\ todo \in [Relays -> SUBSET Msgs]
  /\ marked \in [Relays -> SUBSET Msgs]
  /\ bumped \in [Relays -> SUBSET Msgs]
  /\ cancelled \in [Relays -> BOOLEAN]
  /\ faults \in Nat

Init ==
  /\ row = [m \in Msgs |-> "absent"]
  /\ retries = [m \in Msgs |-> 0]
  /\ copies = [m \in Msgs |-> 0]
  /\ pc = [r \in Relays |-> "waiting"]
  /\ todo = [r \in Relays |-> {}]
  /\ marked = [r \in Relays |-> {}]
  /\ bumped = [r \in Relays |-> {}]
  /\ cancelled = [r \in Relays |-> FALSE]
  /\ faults = 0

Goto(r, l) == pc' = [pc EXCEPT ![r] = l]

(* A fault of kind k happens, within the bound. *)
Fault(k) ==
  /\ k \in FaultKinds
  /\ faults < MaxFaults
  /\ faults' = faults + 1

-----------------------------------------------------------------------------
(* The writers: SaveTx and UpdateStatusTx commit a row with its order.      *)

Save(m) ==
  /\ row[m] = "absent"
  /\ row' = [row EXCEPT ![m] = "pending"]
  /\ UNCHANGED <<retries, copies, pc, tx, cancelled, faults>>

-----------------------------------------------------------------------------
(* Relay.Run and Relay.drain: the ticker and the loop over batches.         *)

Tick(r) ==
  /\ pc[r] = "waiting"
  /\ Goto(r, "draining")
  /\ UNCHANGED <<table, copies, tx, cancelled, faults>>

(* drain checks the context before every batch. *)
DrainStop(r) ==
  /\ pc[r] = "draining"
  /\ cancelled[r]
  /\ Goto(r, "waiting")
  /\ UNCHANGED <<table, copies, tx, cancelled, faults>>

Stop(r) ==
  /\ pc[r] = "waiting"
  /\ cancelled[r]
  /\ Goto(r, "stopped")
  /\ UNCHANGED <<table, copies, tx, cancelled, faults>>

-----------------------------------------------------------------------------
(* Relay.processBatch.                                                      *)

Locked(r) == todo[r] \cup marked[r] \cup bumped[r]

(* Variants of Eligible: retry_count <= 5, and no SKIP LOCKED. *)
EligibleOnceMore(r) ==
  {m \in Msgs : /\ row[m] = "pending"
                /\ retries[m] <= MaxAttempts
                /\ \A s \in Relays \ {r} : m \notin Locked(s)}

EligibleUnlocked(r) ==
  {m \in Msgs : row[m] = "pending" /\ retries[m] < MaxAttempts}

(* Rows that the GetBatch query of relay r may return. *)
Eligible(r) ==
  {m \in Msgs : /\ row[m] = "pending"
                /\ retries[m] < MaxAttempts
                /\ \A s \in Relays \ {r} : m \notin Locked(s)}

(* ORDER BY created_at LIMIT batchSize *)
FirstRows(r, B, S) ==
  /\ B \subseteq S
  /\ \A m \in B, n \in S \ B : m < n
  /\ IF Cardinality(S) <= BatchSize[r] THEN B = S ELSE Cardinality(B) = BatchSize[r]

GetBatch(r) ==
  /\ pc[r] = "draining"
  /\ ~cancelled[r]
  /\ \E B \in SUBSET Eligible(r) :
       /\ FirstRows(r, B, Eligible(r))
       /\ todo' = [todo EXCEPT ![r] = B]
  /\ Goto(r, "publishing")
  /\ UNCHANGED <<table, copies, marked, bumped, cancelled, faults>>

(* The row the loop of processBatch is at. *)
Current(r, m) == m \in todo[r] /\ \A n \in todo[r] : m <= n

(* Publish hands the message to the producer and waits for the report.  An  *)
(* error may hide a delivery (a lost acknowledgement, or a context that is  *)
(* cancelled after the enqueue).  A copy is counted when it is handed over: *)
(* without a report it may reach the broker later than that.                *)
PublishAcked(r, m) ==
  /\ pc[r] = "publishing"
  /\ Current(r, m)
  /\ copies' = [copies EXCEPT ![m] = @ + 1]
  /\ Goto(r, "marking")
  /\ UNCHANGED <<table, tx, cancelled, faults>>

(* Variant: the error branch forgets its continue. *)
PublishFailedThenMark(r, m) ==
  /\ pc[r] = "publishing"
  /\ Current(r, m)
  /\ "nack" \in FaultKinds
  /\ Goto(r, "marking")
  /\ UNCHANGED <<table, copies, tx, cancelled, faults>>

PublishFailed(r, m) ==
  /\ pc[r] = "publishing"
  /\ Current(r, m)
  /\ \/ "nack" \in FaultKinds /\ UNCHANGED copies
     \/ /\ "lostack" \in FaultKinds \/ cancelled[r]
        /\ copies' = [copies EXCEPT ![m] = @ + 1]
  /\ Goto(r, "bumping")
  /\ UNCHANGED <<table, tx, cancelled, faults>>

MarkPublished(r, m) ==
  /\ pc[r] = "marking"
  /\ ~cancelled[r]
  /\ Current(r, m)
  /\ todo' = [todo EXCEPT ![r] = @ \ {m}]
  /\ marked' = [marked EXCEPT ![r] = @ \cup {m}]
  /\ Goto(r, "publishing")
  /\ UNCHANGED <<table, copies, bumped, cancelled, faults>>

UpdateRetryCount(r, m) ==
  /\ pc[r] = "bumping"
  /\ ~cancelled[r]
  /\ Current(r, m)
  /\ todo' = [todo EXCEPT ![r] = @ \ {m}]
  /\ bumped' = [bumped EXCEPT ![r] = @ \cup {m}]
  /\ Goto(r, "publishing")
  /\ UNCHANGED <<table, copies, marked, cancelled, faults>>

EndTx(r) ==
  /\ todo' = [todo EXCEPT ![r] = {}]
  /\ marked' = [marked EXCEPT ![r] = {}]
  /\ bumped' = [bumped EXCEPT ![r] = {}]

(* Variant: the failed attempt is not counted. *)
ApplyUncounted(r) ==
  /\ row' = [m \in Msgs |-> IF m \in marked[r] THEN "published" ELSE row[m]]
  /\ UNCHANGED retries

(* What the commit makes visible. *)
Apply(r) ==
  /\ row' = [m \in Msgs |-> IF m \in marked[r] THEN "published" ELSE row[m]]
  /\ retries' = [m \in Msgs |-> IF m \in bumped[r] THEN retries[m] + 1 ELSE retries[m]]

(* A full batch is followed by the next one without waiting for the ticker. *)
Commit(r) ==
  /\ pc[r] = "publishing"
  /\ todo[r] = {}
  /\ ~cancelled[r]
  /\ Apply(r)
  /\ EndTx(r)
  /\ Goto(r, IF Cardinality(Locked(r)) < BatchSize[r] THEN "waiting" ELSE "draining")
  /\ UNCHANGED <<copies, cancelled, faults>>

-----------------------------------------------------------------------------
(* Faults.                                                                  *)

(* The server commits but the relay is told of an error. *)
LostCommit(r) ==
  /\ pc[r] = "publishing"
  /\ todo[r] = {}
  /\ \/ cancelled[r] /\ UNCHANGED faults
     \/ Fault("lostcommit")
  /\ Apply(r)
  /\ EndTx(r)
  /\ Goto(r, "waiting")
  /\ UNCHANGED <<copies, cancelled>>

(* Begin, a statement or the commit fails, as every one of them does once   *)
(* the context is cancelled: RunInTx rolls back and drain gives up.         *)
Abort(r) ==
  /\ pc[r] \in InTx \cup {"draining"}
  /\ \/ cancelled[r] /\ UNCHANGED faults
     \/ Fault("dberror")
  /\ EndTx(r)
  /\ Goto(r, "waiting")
  /\ UNCHANGED <<table, copies, cancelled>>

Cancel(r) ==
  /\ pc[r] # "stopped"
  /\ ~cancelled[r]
  /\ Fault("cancel")
  /\ cancelled' = [cancelled EXCEPT ![r] = TRUE]
  /\ UNCHANGED <<table, copies, pc, tx>>

Crash(r) ==
  /\ pc[r] # "stopped"
  /\ Fault("crash")
  /\ EndTx(r)
  /\ Goto(r, "stopped")
  /\ UNCHANGED <<table, copies, cancelled>>

Restart(r) ==
  /\ pc[r] = "stopped"
  /\ Goto(r, "waiting")
  /\ cancelled' = [cancelled EXCEPT ![r] = FALSE]
  /\ UNCHANGED <<table, copies, tx, faults>>

-----------------------------------------------------------------------------
RelayStep(r) ==
  \/ Tick(r) \/ DrainStop(r) \/ Stop(r)
  \/ GetBatch(r)
  \/ \E m \in Msgs : \/ PublishAcked(r, m) \/ PublishFailed(r, m)
                     \/ MarkPublished(r, m) \/ UpdateRetryCount(r, m)
  \/ Commit(r)

FaultStep(r) == LostCommit(r) \/ Abort(r) \/ Cancel(r) \/ Crash(r)

Next ==
  \/ \E m \in Msgs : Save(m)
  \/ \E r \in Relays : RelayStep(r) \/ FaultStep(r) \/ Restart(r)

Spec == Init /\ [][Next]_vars

(* A relay's goroutine keeps running, a cancelled statement does return,    *)
(* select does not take the ticker for ever when ctx.Done is ready too, and *)
(* a stopped process is started again.                                      *)
Fairness ==
  \A r \in Relays : /\ WF_vars(RelayStep(r))
                    /\ SF_vars(Stop(r))
                    /\ WF_vars(cancelled[r] /\ Abort(r))
                    /\ WF_vars(Restart(r))

FairSpec == Spec /\ Fairness

(* The broker is never unavailable for good either. *)
HealthyBrokerSpec ==
  /\ FairSpec
  /\ \A r \in Relays, m \in Msgs : SF_vars(PublishAcked(r, m))

-----------------------------------------------------------------------------
Delivery == INSTANCE AtLeastOnce WITH stage <- row

(* The relays implement at-least-once delivery: processBatch marks a row    *)
(* published only after Publish has stored it, whatever rolls back, and no  *)
(* relay ever publishes a row that is marked, its own or another's.         *)
AtLeastOnceDelivery == Delivery!Spec

(* Every duplicate has a cause: SKIP LOCKED keeps two relays off one row,   *)
(* so beyond the first copy the broker holds at most one for each counted   *)
(* failure of that message and one for each fault that undid a batch.       *)
DuplicatesExplained ==
  \A m \in Msgs : copies[m] <= 1 + retries[m] + faults

Settled(m) ==
  row[m] = "published" \/ (row[m] = "pending" /\ retries[m] = MaxAttempts)

(* No row is forgotten: drain keeps coming back to a committed row until it *)
(* is published or has used up its attempts, across rollbacks and restarts, *)
(* also when rows that fail fill the batches and keep it out of them.       *)
EventuallySettled ==
  \A m \in Msgs : row[m] = "pending" ~> Settled(m)

(* README.md:42, "at-least-once delivery with zero message loss": every     *)
(* committed row reaches the broker as long as the broker keeps recovering. *)
EventuallyStored ==
  \A m \in Msgs : row[m] = "pending" ~> copies[m] > 0
=============================================================================
