----------------------------- MODULE Processing -----------------------------
(***************************************************************************)
(* One partition of the order-commands topic and the consumer instances    *)
(* that own it in turn.  An instance's partition worker runs every record  *)
(* through the handler chain: withPoisonPill around withIdempotency around *)
(* KafkaHandler.Handle, which runs the create-order saga.                  *)
(*                                                                         *)
(* All commands of a user share a key and so a partition, and partitions   *)
(* share nothing but the circuit breakers, which appear here as calls that *)
(* may be refused at any time.  An instance that lost the partition works  *)
(* on through the records already in its channel while the next owner,     *)
(* perhaps itself, starts from the committed offset: two workers may be at *)
(* one record, and a worker may come to one twice.                         *)
(***************************************************************************)
EXTENDS Integers, Sequences, FiniteSets

CONSTANTS
  Orders,        (* orders whose command reaches the partition              *)
  Malformed,     (* those whose record Handle cannot decode                 *)
  Foreign,       (* those whose record may come from another program, with  *)
                 (* an x-retry-count that is not a number                   *)
  Workers,       (* consumer instances                                      *)
  Nobody,        (* the owner of the partition while it is unassigned       *)
  MaxRetries,    (* cfg.Kafka.MaxRetries                                    *)
  MaxCopies,     (* bound: copies of one command the relay may publish      *)
  FaultKinds,    (* the kinds of fault that may happen                      *)
  MaxFaults,     (* bound: how many of them                                 *)
  MaxEvictions   (* bound: how often the group takes the partition away     *)

AllFaults ==
  {"dberror", "lostcommit", "lostreply", "blankid", "publish", "crash", "cancel"}

ASSUME ProcessingAssumption ==
  /\ Malformed \subseteq Orders
  /\ Foreign \subseteq Orders
  /\ IsFiniteSet(Workers)
  /\ Nobody \notin Workers
  /\ MaxRetries \in Nat
  /\ MaxCopies \in Nat
  /\ FaultKinds \subseteq AllFaults
  /\ MaxFaults \in Nat
  /\ MaxEvictions \in Nat

VARIABLES
  log,        (* the partition: order and x-retry-count of every record,    *)
              (* and whether that count can be read                         *)
  committed,  (* the group's committed offset: records 1..committed         *)
  owner,      (* the instance the group has assigned the partition to       *)
  processed,  (* records whose key is committed in processed_events         *)
  retried,    (* records that were re-published with the next retry count   *)
  dead,       (* records that were copied to the DLQ                        *)
  dropped,    (* records whose handler returned an error, which is logged   *)
  status,     (* committed status of each order                             *)
  confirmed,  (* OrderConfirmed rows committed to the outbox, per order     *)
  held,       (* live reservations of each order at each service            *)
  suspect,    (* orders for which a reply or a compensation of the service  *)
              (* went wrong                                                 *)
  pc,         (* where each worker is                                       *)
  at,         (* the record each worker has in hand, 0 if none              *)
  chan,       (* records in the channel of a worker that gets no more of    *)
              (* them: what was polled before the partition was lost        *)
  next,       (* records the owner has taken are 1..next, 0 for the others  *)
  pending,    (* offset a worker has reported for commit, 0 if none         *)
  got,        (* services whose reservation ID the running saga has         *)
  err,        (* why the handler failed                                     *)
  cancelled,  (* the context of the instance has been cancelled             *)
  faults,     (* faults spent so far                                        *)
  evictions   (* evictions so far                                           *)

Services == {"payment", "warehouse"}

group == <<committed, owner>>
outcome == <<processed, retried, dead, dropped>>
order == <<status, confirmed>>
remote == <<held, suspect>>
saga == <<got, err>>
input == <<at, chan, next>>
spent == <<faults, evictions>>
vars == <<log, group, outcome, order, remote, pc, input, pending, saga, cancelled,
          spent>>

InTx == {"payment", "warehouse", "confirm", "undo warehouse", "undo payment", "commit"}

Record == [order : Orders, retries : 0..MaxRetries, readable : BOOLEAN]

TypeOK ==
  /\ log \in Seq(Record)
  /\ committed \in 0..Len(log)
  /\ owner \in Workers \cup {Nobody}
  /\ processed \subseteq 1..Len(log)
  /\ retried \subseteq 1..Len(log)
  /\ dead \subseteq 1..Len(log)
  /\ dropped \subseteq 1..Len(log)
  /\ status \in [Orders -> {"PENDING", "CONFIRMED"}]
  /\ confirmed \in [Orders -> Nat]
  /\ held \in [Services -> [Orders -> Nat]]
  /\ suspect \in [Services -> SUBSET Orders]
  /\ pc \in [Workers -> InTx \cup {"idle", "handover"}]
  /\ at \in [Workers -> 0..Len(log)]
  /\ \A w \in Workers : pc[w] # "idle" => at[w] > 0
  /\ chan \in [Workers -> Seq(1..Len(log))]
  /\ next \in [Workers -> 0..Len(log)]
  /\ pending \in [Workers -> 0..Len(log)]
  /\ got \in [Workers -> SUBSET Services]
  /\ err \in [Workers -> {"none", "open", "other", "malformed"}]
  /\ cancelled \in [Workers -> BOOLEAN]
  /\ faults \in 0..MaxFaults
  /\ evictions \in 0..MaxEvictions

Init ==
  /\ log = <<>>
  /\ committed = 0
  /\ owner = Nobody
  /\ processed = {} /\ retried = {} /\ dead = {} /\ dropped = {}
  /\ status = [o \in Orders |-> "PENDING"]
  /\ confirmed = [o \in Orders |-> 0]
  /\ held = [s \in Services |-> [o \in Orders |-> 0]]
  /\ suspect = [s \in Services |-> {}]
  /\ pc = [w \in Workers |-> "idle"]
  /\ at = [w \in Workers |-> 0]
  /\ chan = [w \in Workers |-> <<>>]
  /\ next = [w \in Workers |-> 0]
  /\ pending = [w \in Workers |-> 0]
  /\ got = [w \in Workers |-> {}]
  /\ err = [w \in Workers |-> "none"]
  /\ cancelled = [w \in Workers |-> FALSE]
  /\ faults = 0 /\ evictions = 0

Goto(w, l) == pc' = [pc EXCEPT ![w] = l]

Fault(k) ==
  /\ k \in FaultKinds
  /\ faults < MaxFaults
  /\ faults' = faults + 1
  /\ UNCHANGED evictions

(* What a cancelled context does by itself takes a fault of kind k else. *)
FaultOrCancelled(w, k) ==
  \/ cancelled[w] /\ UNCHANGED spent
  \/ Fault(k)

(* The order of the record in hand. *)
OrderOf(w) == log[at[w]].order

-----------------------------------------------------------------------------
(* The relay, which may publish a command more than once.                   *)

Copies(o) == Cardinality({i \in 1..Len(log) : log[i].order = o /\ log[i].retries = 0})

(* A record of another program may have any header. *)
Deliver(o) ==
  /\ Copies(o) < MaxCopies
  /\ \E readable \in BOOLEAN :
       /\ o \in Foreign \/ readable
       /\ log' = Append(log, [order |-> o, retries |-> 0, readable |-> readable])
  /\ UNCHANGED <<group, outcome, order, remote, pc, input, pending, saga, cancelled,
                 spent>>

-----------------------------------------------------------------------------
(* withIdempotency: RunInTx and TryInsertProcessedEvent.                    *)

(* The poll loop of w goes on putting records into its channel. *)
Polls(w) == owner = w /\ ~cancelled[w]

(* The record the worker receives next: one of those left in its channel,   *)
(* or else the next of the partition.                                       *)
Waiting(w) == IF chan[w] # <<>> THEN Head(chan[w]) ELSE next[w] + 1

Receive(w) ==
  /\ at' = [at EXCEPT ![w] = Waiting(w)]
  /\ \/ /\ chan[w] # <<>>
        /\ chan' = [chan EXCEPT ![w] = Tail(@)]
        /\ UNCHANGED next
     \/ /\ chan[w] = <<>> /\ Polls(w) /\ next[w] < Len(log)
        /\ next' = [next EXCEPT ![w] = @ + 1]
        /\ UNCHANGED chan

(* Variant: a SELECT on processed_events sees only committed keys. *)
KeyNeverLocked(w) == FALSE

(* An insert of the key waits for another transaction that inserted it. *)
KeyLocked(w) == \E v \in Workers \ {w} : pc[v] \in InTx /\ at[v] = Waiting(w)

Begin(w) ==
  /\ pc[w] = "idle"
  /\ Receive(w)
  /\ \/ /\ ~cancelled[w]
        /\ IF Waiting(w) \in processed
           THEN Goto(w, "commit") /\ err' = [err EXCEPT ![w] = "none"]
           ELSE /\ ~KeyLocked(w)
                /\ IF log[Waiting(w)].order \in Malformed
                   THEN Goto(w, "handover") /\ err' = [err EXCEPT ![w] = "malformed"]
                   ELSE Goto(w, "payment") /\ err' = [err EXCEPT ![w] = "none"]
        /\ UNCHANGED spent
     \/ /\ FaultOrCancelled(w, "dberror")
        /\ Goto(w, "handover")
        /\ err' = [err EXCEPT ![w] = "other"]
  /\ UNCHANGED <<log, group, outcome, order, remote, pending, got, cancelled>>

-----------------------------------------------------------------------------
(* ProcessCommand: the saga.                                                *)

(* Handle retries a command only if the breaker refused the failing call. *)
Verdict(e) == IF e = "open" THEN "handover" ELSE "commit"

(* Variant: a failed confirm-order compensates the payment alone. *)
FailAtSkipping(w, step, e) ==
  /\ err' = [err EXCEPT ![w] = e]
  /\ Goto(w, IF step = "payment" THEN Verdict(e) ELSE "undo payment")

(* Compensation starts at the last completed step. *)
FailAt(w, step, e) ==
  /\ err' = [err EXCEPT ![w] = e]
  /\ Goto(w, CASE step = "payment"   -> Verdict(e)
               [] step = "warehouse" -> "undo payment"
               [] step = "confirm"   -> "undo warehouse")

UndoOf(s) == IF s = "payment" THEN "undo payment" ELSE "undo warehouse"
NextStep(s) == IF s = "payment" THEN "warehouse" ELSE "confirm"

Reserved(w, s) == held' = [held EXCEPT ![s][OrderOf(w)] = @ + 1]

(* What the services of S hold for the order is in doubt. *)
Doubt(w, S) ==
  suspect' = [s \in Services |-> IF s \in S THEN suspect[s] \cup {OrderOf(w)}
                                 ELSE suspect[s]]

Reserve(w, s) ==
  /\ pc[w] = s
  /\ \/ (* the reservation is made and its ID returned *)
        /\ ~cancelled[w]
        /\ Reserved(w, s)
        /\ got' = [got EXCEPT ![w] = @ \cup {s}]
        /\ Goto(w, NextStep(s))
        /\ UNCHANGED <<err, suspect, spent>>
     \/ (* it is made, but the response has no ID *)
        /\ ~cancelled[w]
        /\ Fault("blankid")
        /\ Reserved(w, s)
        /\ Doubt(w, {s})
        /\ Goto(w, NextStep(s))
        /\ UNCHANGED <<got, err>>
     \/ (* the breaker refuses the call, or the call fails *)
        /\ \E e \in {"open", "other"} :
             /\ cancelled[w] => e = "other"
             /\ FailAt(w, s, e)
        /\ UNCHANGED <<got, held, suspect, spent>>
     \/ (* it is made, but the reply is lost *)
        /\ FaultOrCancelled(w, "lostreply")
        /\ Reserved(w, s)
        /\ Doubt(w, {s})
        /\ FailAt(w, s, "other")
        /\ UNCHANGED got
  /\ UNCHANGED <<log, group, outcome, order, input, pending, cancelled>>

(* UpdateStatusTx commits on a connection of its own. *)
Confirmed(w) ==
  /\ status' = [status EXCEPT ![OrderOf(w)] = "CONFIRMED"]
  /\ confirmed' = [confirmed EXCEPT ![OrderOf(w)] = @ + 1]

Confirm(w) ==
  /\ pc[w] = "confirm"
  /\ \/ /\ ~cancelled[w]
        /\ Confirmed(w)
        /\ got' = [got EXCEPT ![w] = {}]
        /\ Goto(w, "commit")
        /\ UNCHANGED <<err, suspect, spent>>
     \/ /\ FaultOrCancelled(w, "dberror")
        /\ FailAt(w, "confirm", "other")
        /\ UNCHANGED <<order, got, suspect>>
     \/ /\ FaultOrCancelled(w, "lostcommit")
        /\ Confirmed(w)
        /\ Doubt(w, Services)
        /\ FailAt(w, "confirm", "other")
        /\ UNCHANGED got
  /\ UNCHANGED <<log, group, outcome, held, input, pending, cancelled>>

(* Variant: the first compensation that fails is the last.                  *)
AfterUndoOrStop(w, s, failed) ==
  Goto(w, IF s = "warehouse" /\ ~failed THEN "undo payment" ELSE Verdict(err[w]))

(* compensate goes on whether or not a compensation failed. *)
AfterUndo(w, s, failed) ==
  Goto(w, IF s = "warehouse" THEN "undo payment" ELSE Verdict(err[w]))

(* The Compensate of a reservation step: nothing to do without an ID, and a *)
(* failure (or a 4xx, which the client takes for success) leaves the        *)
(* reservation in place.                                                    *)
Undo(w, s) ==
  /\ pc[w] = UndoOf(s)
  /\ \/ /\ s \notin got[w]
        /\ AfterUndo(w, s, FALSE)
        /\ UNCHANGED remote
     \/ /\ s \in got[w]
        /\ held' = [held EXCEPT ![s][OrderOf(w)] = @ - 1]
        /\ AfterUndo(w, s, FALSE)
        /\ UNCHANGED suspect
     \/ /\ s \in got[w]
        /\ Doubt(w, {s})
        /\ AfterUndo(w, s, TRUE)
        /\ UNCHANGED held
  /\ got' = [got EXCEPT ![w] = @ \ {s}]
  /\ UNCHANGED <<log, group, outcome, order, input, pending, err, cancelled, spent>>

-----------------------------------------------------------------------------
(* The end of RunInTx, then withPoisonPill.                                 *)

(* The worker sends the offset to the poll goroutine, whose drainCommits     *)
(* keeps the largest.                                                       *)
Done(w) ==
  /\ pending' = [pending EXCEPT ![w] = IF at[w] > @ THEN at[w] ELSE @]
  /\ at' = [at EXCEPT ![w] = 0]
  /\ err' = [err EXCEPT ![w] = "none"]
  /\ Goto(w, "idle")

Commit(w) ==
  /\ pc[w] = "commit"
  /\ \/ /\ ~cancelled[w]
        /\ processed' = processed \cup {at[w]}
        /\ Done(w)
        /\ UNCHANGED spent
     \/ /\ \/ FaultOrCancelled(w, "dberror") /\ UNCHANGED processed
           \/ FaultOrCancelled(w, "lostcommit") /\ processed' = processed \cup {at[w]}
        /\ Goto(w, "handover")
        /\ err' = [err EXCEPT ![w] = "other"]
        /\ UNCHANGED <<at, pending>>
  /\ UNCHANGED <<log, group, retried, dead, dropped, order, remote, chan, next, got,
                 cancelled>>

(* Variant: retries > maxRetries. *)
GivenUpLater(w) == err[w] = "malformed" \/ log[at[w]].retries > MaxRetries

(* A NonRetriableError, or the retries are exhausted. *)
GivenUp(w) == err[w] = "malformed" \/ log[at[w]].retries >= MaxRetries

(* Variant: rePublish returns before the message is in the send queue. *)
RePublishUnsent(w) == retried' = retried \cup {at[w]} /\ UNCHANGED log

RePublish(w) ==
  /\ log' = Append(log, [log[at[w]] EXCEPT !.retries = @ + 1])
  /\ retried' = retried \cup {at[w]}

(* The record is stored in the DLQ or in the partition again. *)
Stored(w) ==
  \/ GivenUp(w) /\ dead' = dead \cup {at[w]} /\ UNCHANGED <<log, retried>>
  \/ ~GivenUp(w) /\ RePublish(w) /\ UNCHANGED dead

Dropped(w) == dropped' = dropped \cup {at[w]}

(* withPoisonPill.  Without a retry count it returns at once.  A publish     *)
(* that fails, or is not waited for because the context is cancelled, may   *)
(* be stored all the same.  The worker logs the error and goes on.          *)
Handover(w) ==
  /\ pc[w] = "handover"
  /\ LET readable == log[at[w]].readable IN
       \/ /\ ~readable
          /\ Dropped(w)
          /\ UNCHANGED <<log, retried, dead, spent>>
       \/ /\ readable
          /\ Stored(w)
          /\ UNCHANGED <<dropped, spent>>
       \/ /\ readable
          /\ FaultOrCancelled(w, "publish")
          /\ Dropped(w)
          /\ Stored(w) \/ UNCHANGED <<log, retried, dead>>
  /\ Done(w)
  /\ UNCHANGED <<group, processed, order, remote, chan, next, got, cancelled>>

-----------------------------------------------------------------------------
(* The consumer group.                                                      *)

(* The coordinator gives the partition to an instance, which may have old   *)
(* records of it in its channel still; the library reads on from the        *)
(* committed offset.                                                        *)
Assign(w) ==
  /\ owner = Nobody /\ ~cancelled[w]
  /\ owner' = w
  /\ next' = [next EXCEPT ![w] = committed]
  /\ UNCHANGED <<log, committed, outcome, order, remote, pc, at, chan, pending, saga,
                 cancelled, spent>>

(* Variant: the offset of the record in hand. *)
TakenInHand(w) ==
  committed' = IF pc[w] = "idle" THEN pending[w] ELSE at[w]

(* CommitOffsets: the coordinator takes the offset of any member, also of   *)
(* one that has lost the partition.  A commit that fails is only logged.    *)
Taken(w) == committed' = pending[w] \/ UNCHANGED committed

(* drainCommits: the offset is forgotten, whatever became of it. *)
CommitOffsets(w) ==
  /\ pending[w] > 0
  /\ Taken(w)
  /\ pending' = [pending EXCEPT ![w] = 0]
  /\ UNCHANGED <<log, owner, outcome, order, remote, pc, input, saga, cancelled, spent>>

(* The worker gets no more records than those already polled. *)
CutOff(w) ==
  /\ \E n \in next[w]..Len(log) :
       /\ n = next[w] \/ Polls(w)
       /\ chan' = [chan EXCEPT ![w] = @ \o [i \in 1..(n - next[w]) |-> next[w] + i]]
  /\ next' = [next EXCEPT ![w] = 0]

(* A session timeout, a missed poll or a rebalance: the worker knows        *)
(* nothing of it (consumer.go:57).                                          *)
Evict(w) ==
  /\ owner = w
  /\ evictions < MaxEvictions
  /\ evictions' = evictions + 1
  /\ owner' = Nobody
  /\ CutOff(w)
  /\ UNCHANGED <<log, committed, outcome, order, remote, pc, at, pending, saga, cancelled,
                 faults>>

(* SIGTERM: the poll loop stops; what is in the channel is still handled. *)
Cancel(w) ==
  /\ ~cancelled[w]
  /\ Fault("cancel")
  /\ cancelled' = [cancelled EXCEPT ![w] = TRUE]
  /\ CutOff(w)
  /\ UNCHANGED <<log, committed, owner, outcome, order, remote, pc, at, pending, saga>>

(* The process ends, and its channels with it. *)
Forget(w) ==
  /\ at' = [at EXCEPT ![w] = 0]
  /\ chan' = [chan EXCEPT ![w] = <<>>]
  /\ next' = [next EXCEPT ![w] = 0]
  /\ pending' = [pending EXCEPT ![w] = 0]

(* Consumer.shutdown commits what the workers finished and leaves the       *)
(* group; the instance is later started again.                              *)
Shutdown(w) ==
  /\ cancelled[w]
  /\ pc[w] = "idle" /\ chan[w] = <<>>
  /\ IF pending[w] > 0 THEN Taken(w) ELSE UNCHANGED committed
  /\ owner' = IF owner = w THEN Nobody ELSE owner
  /\ cancelled' = [cancelled EXCEPT ![w] = FALSE]
  /\ Forget(w)
  /\ UNCHANGED <<log, outcome, order, remote, pc, saga, spent>>

(* The open transaction rolls back; reservations made so far stay. *)
Crash(w) ==
  /\ Fault("crash")
  /\ Goto(w, "idle")
  /\ got' = [got EXCEPT ![w] = {}]
  /\ IF got[w] # {} THEN Doubt(w, got[w]) ELSE UNCHANGED suspect
  /\ err' = [err EXCEPT ![w] = "none"]
  /\ Forget(w)
  /\ owner' = IF owner = w THEN Nobody ELSE owner
  /\ cancelled' = [cancelled EXCEPT ![w] = FALSE]
  /\ UNCHANGED <<log, committed, outcome, order, held>>

-----------------------------------------------------------------------------
WorkerStep(w) ==
  \/ Begin(w) \/ Confirm(w) \/ Commit(w) \/ Handover(w)
  \/ \E s \in Services : Reserve(w, s) \/ Undo(w, s)

GroupStep(w) == Assign(w) \/ CommitOffsets(w) \/ Shutdown(w)

Next ==
  \/ \E o \in Orders : Deliver(o)
  \/ \E w \in Workers : \/ WorkerStep(w) \/ GroupStep(w)
                        \/ Evict(w) \/ Cancel(w) \/ Crash(w)

Spec == Init /\ [][Next]_vars

(* Workers are goroutines that keep running, the poll loop keeps committing *)
(* what they finish, and the group gives the partition to some instance.    *)
Fairness ==
  /\ \A w \in Workers : /\ WF_vars(WorkerStep(w))
                        /\ WF_vars(CommitOffsets(w))
                        /\ WF_vars(Shutdown(w))
  /\ WF_vars(\E w \in Workers : Assign(w))

FairSpec == Spec /\ Fairness

-----------------------------------------------------------------------------
RecordsOf(o) == {i \in 1..Len(log) : log[i].order = o}

(* A committed offset is never handed out again, so a record below it must  *)
(* have been dealt with: processed, re-published or put into the DLQ.       *)
(* withPoisonPill does none of it where it cannot read the retry count      *)
(* (builder.go:74-77), which the relay's own records never come to.         *)
CommittedAccounted ==
  \A i \in 1..committed : log[i].readable => i \in processed \cup retried \cup dead

(* Whatever fails and however the partition changes hands, also back to a   *)
(* worker that has old records of it: no offset is committed over a record  *)
(* no handler has finished.                                                 *)
NoneSkipped ==
  \A i \in 1..committed : i \in processed \cup retried \cup dead \cup dropped

(* A command is re-published as another record, over and over if need be,   *)
(* but the chain never breaks: an order that reached the partition has a    *)
(* record that was processed or put into the DLQ, or is still to be read,   *)
(* unless its retry count cannot be read.                                   *)
NoOrderForgotten ==
  \A o \in Orders : RecordsOf(o) # {} =>
     \E i \in RecordsOf(o) :
       i \in processed \cup dead \/ i > committed \/ ~log[i].readable

(* README.md:75, a record is handled in one transaction with its key and    *)
(* duplicates are skipped: no record confirms its order twice.              *)
OncePerRecord == \A o \in Orders : confirmed[o] <= Cardinality(RecordsOf(o))

(* The idempotency guard: however the partition changes hands, an order is  *)
(* confirmed once for each of its records, and once more only for a fault   *)
(* that came between the saga's commit and the commit of the key.           *)
RepeatsExplained ==
  \A o \in Orders : confirmed[o] <= Cardinality(RecordsOf(o)) + faults

Busy(o) == \E w \in Workers : pc[w] # "idle" /\ OrderOf(w) = o

(* When no saga is running for an order, what a service holds for it are    *)
(* the reservations of its confirmations, unless a call to that service was *)
(* lost or failed to compensate, an instance crashed or the confirmation's  *)
(* commit was lost.  A compensation that fails at one service does not      *)
(* spare the other.                                                         *)
ReservationsBalanced ==
  \A s \in Services : \A o \in Orders \ suspect[s] :
     ~Busy(o) => held[s][o] = confirmed[o]

(* Retries are bounded, a record that is handled again is not re-published  *)
(* for ever and nothing blocks a worker for good: every order comes to an   *)
(* end, be it that the handler's error is logged.                           *)
EveryOrderSettled ==
  \A o \in Orders :
    RecordsOf(o) # {} ~>
      \E i \in RecordsOf(o) : i \in processed \cup dead \cup dropped
=============================================================================
