---------------------------- MODULE OutboxProofs ----------------------------
(***************************************************************************)
(* Proofs about Outbox for any number of rows, relays, attempts and        *)
(* faults.  The inductive invariant has three parts: who holds which row   *)
(* locks (LockInv), what is known of a row about to be marked (StoredInv), *)
(* and an account that charges every copy at the broker to a cause         *)
(* (CopyInv).                                                              *)
(***************************************************************************)
EXTENDS Outbox, TLAPS

(* Open transactions hold disjoint sets of rows, all still worth sending.   *)
LockInv ==
  /\ \A r \in Relays : pc[r] \notin InTx => Locked(r) = {}
  /\ \A r, s \in Relays : r # s => Locked(r) \cap Locked(s) = {}
  /\ \A r \in Relays : \A m \in Locked(r) :
       row[m] = "pending" /\ retries[m] < MaxAttempts
  /\ \A r \in Relays : todo[r] \cap (marked[r] \cup bumped[r]) = {}

(* A row that is marked, or about to be, is at the broker. *)
StoredInv ==
  /\ \A m \in Msgs : row[m] = "published" => copies[m] > 0
  /\ \A r \in Relays : \A m \in marked[r] : copies[m] > 0
  /\ \A r \in Relays, m \in Msgs :
       pc[r] = "marking" /\ Current(r, m) => copies[m] > 0

(* Relay r has tried to publish m in its open transaction. *)
Attempted(r, m) ==
  \/ m \in marked[r] \cup bumped[r]
  \/ pc[r] \in {"marking", "bumping"} /\ Current(r, m)

(* The fault that will undo r's transaction is already counted. *)
Paid(r) == IF cancelled[r] THEN 1 ELSE 0

CopyInv ==
  /\ \A r \in Relays : \A m \in Locked(r) :
       copies[m] + Paid(r) <=
         retries[m] + faults + (IF Attempted(r, m) THEN 1 ELSE 0)
  /\ \A m \in Msgs : (\A r \in Relays : m \notin Locked(r)) =>
       copies[m] <= retries[m] + faults + (IF row[m] = "published" THEN 1 ELSE 0)

IInv == TypeOK /\ LockInv /\ StoredInv /\ CopyInv

LEMMA InitIInv == Init => IInv
  BY OutboxAssumption DEF Init, IInv, TypeOK, LockInv, StoredInv, CopyInv, InTx, Locked

(* A publish is paid for by the attempt at it, whatever it returns. *)
LEMMA PublishCopies ==
  ASSUME TypeOK, LockInv, CopyInv, Msgs \subseteq Nat, NEW r \in Relays, NEW m \in Msgs,
         PublishAcked(r, m) \/ PublishFailed(r, m)
  PROVE  CopyInv'
<1>1. /\ m \in todo[r] /\ pc[r] = "publishing" /\ Current(r, m)
      /\ UNCHANGED <<row, retries, todo, marked, bumped, cancelled, faults>>
      /\ \E l \in {"marking", "bumping"} : pc' = [pc EXCEPT ![r] = l]
      /\ copies' = copies \/ copies' = [copies EXCEPT ![m] = @ + 1]
  BY DEF PublishAcked, PublishFailed, Current, Goto, table, tx
<1>2. \A s \in Relays : Locked(s)' = Locked(s) /\ Paid(s)' = Paid(s) /\ Paid(s) \in Nat
  BY <1>1 DEF Locked, Paid
<1>3. \A n \in Msgs : /\ copies[n] \in Nat /\ retries[n] \in Nat /\ faults \in Nat
                      /\ copies'[n] = copies[n] \/ (n = m /\ copies'[n] = copies[n] + 1)
  BY <1>1, OutboxAssumption DEF TypeOK
<1>4. /\ m \in Locked(r) /\ ~Attempted(r, m) /\ Attempted(r, m)'
      /\ \A s \in Relays \ {r} : m \notin Locked(s)
  BY <1>1 DEF TypeOK, LockInv, Locked, Attempted, Current
<1>5. ASSUME NEW s \in Relays, NEW n \in Msgs, s # r \/ n # m
      PROVE  Attempted(s, n)' <=> Attempted(s, n)
  <2>1. CASE s # r
    BY <1>1, <2>1 DEF TypeOK, Attempted, Current
  <2>2. CASE n # m
    <3>1. ~(Current(r, n))'
      <4>1. n \in todo[r] => m <= n
        BY <1>1 DEF Current
      <4>2. (Current(r, n))' => n \in todo[r] /\ n <= m
        BY <1>1 DEF Current
      <4>3. n \in Nat /\ m \in Nat
        OBVIOUS
      <4> QED
        BY <2>2, <4>1, <4>2, <4>3
    <3> QED
      BY <1>1, <2>1, <2>2, <3>1 DEF TypeOK, Attempted
  <2> QED
    BY <1>5, <2>1, <2>2
<1>6. ASSUME NEW s \in Relays, NEW n \in Locked(s)'
      PROVE  (copies[n] + Paid(s) <=
                retries[n] + faults + (IF Attempted(s, n) THEN 1 ELSE 0))'
  <2>1. /\ n \in Locked(s) /\ n \in Msgs
        /\ copies[n] + Paid(s) <= retries[n] + faults + (IF Attempted(s, n) THEN 1 ELSE 0)
    BY <1>2 DEF TypeOK, CopyInv, Locked
  <2>2. CASE n = m
    <3>1. s = r
      BY <1>4, <2>1, <2>2
    <3>2. copies[m] + Paid(r) <= retries[m] + faults
      BY <1>2, <1>3, <1>4, <2>1, <2>2, <3>1
    <3>3. /\ copies'[m] \in Nat /\ copies'[m] <= copies[m] + 1
          /\ retries'[m] = retries[m] /\ faults' = faults /\ Paid(r)' = Paid(r)
          /\ copies[m] \in Nat /\ retries[m] \in Nat /\ faults \in Nat /\ Paid(r) \in Nat
      BY <1>1, <1>2, <1>3
    <3>4. copies'[m] + Paid(r)' <= retries'[m] + faults' + 1
      BY <3>2, <3>3
    <3> QED
      BY <1>4, <2>2, <3>1, <3>4
  <2>3. CASE n # m
    <3>1. copies'[n] = copies[n] /\ (Attempted(s, n)' <=> Attempted(s, n))
      BY <1>3, <1>5, <2>1, <2>3
    <3> QED
      BY <1>1, <1>2, <2>1, <3>1
  <2> QED
    BY <2>2, <2>3
<1>7. ASSUME NEW n \in Msgs, (\A s \in Relays : n \notin Locked(s))'
      PROVE  (copies[n] <= retries[n] + faults +
                (IF row[n] = "published" THEN 1 ELSE 0))'
  <2>1. \A s \in Relays : n \notin Locked(s)
    BY <1>2, <1>7
  <2>2. copies'[n] = copies[n]
    BY <1>3, <1>4, <2>1
  <2> QED
    BY <1>1, <2>1, <2>2 DEF CopyInv
<1> QED
  BY <1>6, <1>7 DEF CopyInv

(* Every step of the relays and writers keeps the inductive invariant. *)
LEMMA StepIInv == IInv /\ [Next]_vars => IInv'
<1> SUFFICES ASSUME IInv, [Next]_vars PROVE IInv'
  OBVIOUS
<1> Msgs \subseteq Nat /\ MaxAttempts \in Nat \ {0} /\ MaxFaults \in Nat
  BY OutboxAssumption
<1> USE DEF IInv
<1>1. ASSUME NEW m \in Msgs, Save(m) PROVE IInv'
  <2>1. TypeOK'
    BY <1>1 DEF TypeOK, InTx, Save, table, tx
  <2>2. LockInv'
    BY <1>1 DEF TypeOK, LockInv, Locked, InTx, Save, table, tx
  <2>3. StoredInv'
    BY <1>1 DEF TypeOK, StoredInv, Current, Save, table, tx
  <2>4. CopyInv'
    BY <1>1 DEF TypeOK, LockInv, CopyInv, Locked, Attempted, Current, Paid, Save, table, tx
  <2> QED
    BY <2>1, <2>2, <2>3, <2>4
<1>2. ASSUME NEW r \in Relays, Tick(r) PROVE IInv'
  <2>1. TypeOK'
    BY <1>2 DEF TypeOK, InTx, Tick, Goto, table, tx
  <2>2. LockInv'
    BY <1>2 DEF TypeOK, LockInv, Locked, InTx, Tick, Goto, table, tx
  <2>3. StoredInv'
    BY <1>2 DEF TypeOK, StoredInv, Current, Tick, Goto, table, tx
  <2>4. CopyInv'
    BY <1>2 DEF TypeOK, LockInv, CopyInv, Locked, Attempted, Current, Paid, Tick, Goto,
      table, tx
  <2> QED
    BY <2>1, <2>2, <2>3, <2>4
<1>3. ASSUME NEW r \in Relays, DrainStop(r) PROVE IInv'
  <2>1. TypeOK'
    BY <1>3 DEF TypeOK, InTx, DrainStop, Goto, table, tx
  <2>2. LockInv'
    BY <1>3 DEF TypeOK, LockInv, Locked, InTx, DrainStop, Goto, table, tx
  <2>3. StoredInv'
    BY <1>3 DEF TypeOK, StoredInv, Current, DrainStop, Goto, table, tx
  <2>4. CopyInv'
    BY <1>3 DEF TypeOK, LockInv, CopyInv, Locked, Attempted, Current, Paid, DrainStop,
      Goto, table, tx
  <2> QED
    BY <2>1, <2>2, <2>3, <2>4
<1>4. ASSUME NEW r \in Relays, Stop(r) PROVE IInv'
  <2>1. TypeOK'
    BY <1>4 DEF TypeOK, InTx, Stop, Goto, table, tx
  <2>2. LockInv'
    BY <1>4 DEF TypeOK, LockInv, Locked, InTx, Stop, Goto, table, tx
  <2>3. StoredInv'
    BY <1>4 DEF TypeOK, StoredInv, Current, Stop, Goto, table, tx
  <2>4. CopyInv'
    BY <1>4, SMTT(30) DEF TypeOK, LockInv, CopyInv, Locked, Attempted, Current, Paid, Stop,
      Goto, table, tx
  <2> QED
    BY <2>1, <2>2, <2>3, <2>4
<1>5. ASSUME NEW r \in Relays, GetBatch(r) PROVE IInv'
  <2>1. PICK B \in SUBSET Eligible(r) : todo' = [todo EXCEPT ![r] = B]
    BY <1>5 DEF GetBatch
  <2>2. B \in SUBSET Msgs
    BY DEF Eligible
  <2>3. /\ pc[r] = "draining" /\ ~cancelled[r]
        /\ Locked(r) = {}
        /\ pc' = [pc EXCEPT ![r] = "publishing"]
        /\ UNCHANGED <<row, retries, copies, marked, bumped, cancelled, faults>>
    BY <1>5 DEF GetBatch, Goto, LockInv, InTx, TypeOK, table
  <2>4. Locked(r)' = B /\ \A s \in Relays \ {r} : Locked(s)' = Locked(s)
    BY <2>1, <2>2, <2>3 DEF Locked, TypeOK
  <2>5. TypeOK'
    BY <2>1, <2>2, <2>3 DEF TypeOK, InTx
  <2>6. LockInv'
    <3>1. (\A s \in Relays : pc[s] \notin InTx => Locked(s) = {})'
      BY <2>3, <2>4 DEF LockInv, InTx, TypeOK
    <3>2. (\A s, t \in Relays : s # t => Locked(s) \cap Locked(t) = {})'
      <4> SUFFICES ASSUME NEW s \in Relays, NEW t \in Relays, s # t
                   PROVE  Locked(s)' \cap Locked(t)' = {}
        OBVIOUS
      <4>1. \A u \in Relays \ {r} : B \cap Locked(u) = {}
        BY DEF Eligible
      <4>2. Locked(s) \cap Locked(t) = {}
        BY DEF LockInv
      <4> QED
        BY <2>4, <4>1, <4>2
    <3>3. (\A s \in Relays : \A m \in Locked(s) :
             row[m] = "pending" /\ retries[m] < MaxAttempts)'
      BY <2>3, <2>4 DEF LockInv, Eligible
    <3>4. (\A s \in Relays : todo[s] \cap (marked[s] \cup bumped[s]) = {})'
      BY <2>1, <2>3 DEF LockInv, Locked, TypeOK
    <3> QED
      BY <3>1, <3>2, <3>3, <3>4 DEF LockInv
  <2>7. StoredInv'
    BY <2>1, <2>2, <2>3 DEF StoredInv, Current, TypeOK
  <2>8. CopyInv'
    BY <2>1, <2>2, <2>3, <2>4 DEF TypeOK, LockInv, CopyInv, Locked, Eligible, Attempted,
      Current, Paid
  <2> QED
    BY <2>5, <2>6, <2>7, <2>8
<1>6. ASSUME NEW r \in Relays, NEW m \in Msgs, PublishAcked(r, m) PROVE IInv'
  <2>1. TypeOK'
    BY <1>6 DEF TypeOK, InTx, PublishAcked, Goto, table, tx
  <2>2. LockInv'
    BY <1>6 DEF TypeOK, LockInv, Locked, InTx, PublishAcked, Goto, table, tx
  <2>3. StoredInv'
    BY <1>6 DEF TypeOK, StoredInv, Current, PublishAcked, Goto, table, tx
  <2>4. CopyInv'
    BY <1>6, PublishCopies
  <2> QED
    BY <2>1, <2>2, <2>3, <2>4
<1>7. ASSUME NEW r \in Relays, NEW m \in Msgs, PublishFailed(r, m) PROVE IInv'
  <2>1. TypeOK'
    BY <1>7 DEF TypeOK, InTx, PublishFailed, Goto, table, tx
  <2>2. LockInv'
    BY <1>7 DEF TypeOK, LockInv, Locked, InTx, PublishFailed, Goto, table, tx
  <2>3. StoredInv'
    BY <1>7 DEF TypeOK, StoredInv, Current, PublishFailed, Goto, table, tx
  <2>4. CopyInv'
    BY <1>7, PublishCopies
  <2> QED
    BY <2>1, <2>2, <2>3, <2>4
<1>8. ASSUME NEW r \in Relays, NEW m \in Msgs, MarkPublished(r, m) PROVE IInv'
  <2>1. TypeOK'
    BY <1>8 DEF TypeOK, InTx, MarkPublished, Goto, table, tx
  <2>2. LockInv'
    BY <1>8 DEF TypeOK, LockInv, Locked, Current, InTx, MarkPublished, Goto, table, tx
  <2>3. StoredInv'
    BY <1>8 DEF TypeOK, StoredInv, Current, MarkPublished, Goto, table, tx
  <2>4. CopyInv'
    BY <1>8 DEF TypeOK, LockInv, CopyInv, Locked, Attempted, Current, Paid, MarkPublished,
      Goto, table, tx
  <2> QED
    BY <2>1, <2>2, <2>3, <2>4
<1>9. ASSUME NEW r \in Relays, NEW m \in Msgs, UpdateRetryCount(r, m) PROVE IInv'
  <2>1. TypeOK'
    BY <1>9 DEF TypeOK, InTx, UpdateRetryCount, Goto, table, tx
  <2>2. LockInv'
    BY <1>9 DEF TypeOK, LockInv, Locked, Current, InTx, UpdateRetryCount, Goto, table, tx
  <2>3. StoredInv'
    BY <1>9 DEF TypeOK, StoredInv, Current, UpdateRetryCount, Goto, table, tx
  <2>4. CopyInv'
    BY <1>9 DEF TypeOK, LockInv, CopyInv, Locked, Attempted, Current, Paid,
      UpdateRetryCount, Goto, table, tx
  <2> QED
    BY <2>1, <2>2, <2>3, <2>4
<1>10. ASSUME NEW r \in Relays, Commit(r) PROVE IInv'
  <2>1. TypeOK'
    BY <1>10 DEF TypeOK, LockInv, Locked, InTx, Commit, Goto, Apply, EndTx, table, tx
  <2>2. LockInv'
    BY <1>10 DEF TypeOK, LockInv, Locked, InTx, Commit, Goto, Apply, EndTx, table, tx
  <2>3. StoredInv'
    BY <1>10 DEF TypeOK, StoredInv, Current, Commit, Goto, Apply, EndTx, table, tx
  <2>4. CopyInv'
    BY <1>10 DEF TypeOK, LockInv, CopyInv, Locked, Attempted, Current, Paid, Commit, Goto,
      Apply, EndTx, table, tx
  <2> QED
    BY <2>1, <2>2, <2>3, <2>4
<1>11. ASSUME NEW r \in Relays, LostCommit(r) PROVE IInv'
  <2>1. TypeOK'
    BY <1>11 DEF TypeOK, LockInv, Locked, InTx, LostCommit, Goto, Apply, EndTx, Fault, table, tx
  <2>2. LockInv'
    BY <1>11 DEF TypeOK, LockInv, Locked, InTx, LostCommit, Goto, Apply, EndTx, table, tx
  <2>3. StoredInv'
    BY <1>11 DEF TypeOK, StoredInv, Current, LostCommit, Goto, Apply, EndTx, table, tx
  <2>4. CopyInv'
    BY <1>11 DEF TypeOK, LockInv, CopyInv, Locked, Attempted, Current, Paid, LostCommit,
      Goto, Apply, EndTx, Fault, table, tx
  <2> QED
    BY <2>1, <2>2, <2>3, <2>4
<1>12. ASSUME NEW r \in Relays, Abort(r) PROVE IInv'
  <2>1. TypeOK'
    BY <1>12 DEF TypeOK, InTx, Abort, Goto, EndTx, Fault, table, tx
  <2>2. LockInv'
    BY <1>12 DEF TypeOK, LockInv, Locked, InTx, Abort, Goto, EndTx, table, tx
  <2>3. StoredInv'
    BY <1>12 DEF TypeOK, StoredInv, Current, Abort, Goto, EndTx, table, tx
  <2>4. CopyInv'
    BY <1>12 DEF TypeOK, LockInv, CopyInv, Locked, Attempted, Current, Paid, Abort, Goto,
      EndTx, Fault, table, tx
  <2> QED
    BY <2>1, <2>2, <2>3, <2>4
<1>13. ASSUME NEW r \in Relays, Cancel(r) PROVE IInv'
  <2>1. TypeOK'
    BY <1>13 DEF TypeOK, InTx, Cancel, Fault, table, tx
  <2>2. LockInv'
    BY <1>13 DEF TypeOK, LockInv, Locked, InTx, Cancel, table, tx
  <2>3. StoredInv'
    BY <1>13 DEF TypeOK, StoredInv, Current, Cancel, table, tx
  <2>4. CopyInv'
    BY <1>13 DEF TypeOK, LockInv, CopyInv, Locked, Attempted, Current, Paid, Cancel, Fault,
      table, tx
  <2> QED
    BY <2>1, <2>2, <2>3, <2>4
<1>14. ASSUME NEW r \in Relays, Crash(r) PROVE IInv'
  <2>1. TypeOK'
    BY <1>14 DEF TypeOK, InTx, Crash, Goto, EndTx, Fault, table, tx
  <2>2. LockInv'
    BY <1>14 DEF TypeOK, LockInv, Locked, InTx, Crash, Goto, EndTx, table, tx
  <2>3. StoredInv'
    BY <1>14 DEF TypeOK, StoredInv, Current, Crash, Goto, EndTx, table, tx
  <2>4. CopyInv'
    BY <1>14 DEF TypeOK, LockInv, CopyInv, Locked, Attempted, Current, Paid, Crash, Goto,
      EndTx, Fault, table, tx
  <2> QED
    BY <2>1, <2>2, <2>3, <2>4
<1>15. ASSUME NEW r \in Relays, Restart(r) PROVE IInv'
  <2>1. TypeOK'
    BY <1>15 DEF TypeOK, InTx, Restart, Goto, table, tx
  <2>2. LockInv'
    BY <1>15 DEF TypeOK, LockInv, Locked, InTx, Restart, Goto, table, tx
  <2>3. StoredInv'
    BY <1>15 DEF TypeOK, StoredInv, Current, Restart, Goto, table, tx
  <2>4. CopyInv'
    BY <1>15 DEF TypeOK, LockInv, CopyInv, Locked, Attempted, Current, Paid, Restart, Goto,
      table, tx
  <2> QED
    BY <2>1, <2>2, <2>3, <2>4
<1>16. ASSUME UNCHANGED vars PROVE IInv'
  BY <1>16 DEF vars, TypeOK, LockInv, StoredInv, CopyInv, Locked, Attempted, Current, Paid, InTx
<1> QED
  BY <1>1, <1>2, <1>3, <1>4, <1>5, <1>6, <1>7, <1>8, <1>9, <1>10, <1>11, <1>12, <1>13,
    <1>14, <1>15, <1>16 DEF Next, RelayStep, FaultStep

LEMMA AlwaysIInv == Spec => []IInv
  BY InitIInv, StepIInv, PTL DEF Spec

-----------------------------------------------------------------------------
(* Whatever rolls back or crashes, retry_count never exceeds the literal of *)
(* the query, and every other variable of the relays keeps its type.        *)
THEOREM TypeCorrect == Spec => []TypeOK
<1>1. IInv => TypeOK
  BY DEF IInv
<1> QED
  BY <1>1, AlwaysIInv, PTL

(* For any number of relays polling one database, each copy of a message    *)
(* beyond the first is accounted for by a counted failure or by a fault.    *)
THEOREM DuplicatesAccounted == Spec => []DuplicatesExplained
<1>1. IInv => DuplicatesExplained
  <2> SUFFICES ASSUME IInv, NEW m \in Msgs
               PROVE  copies[m] <= 1 + retries[m] + faults
    BY DEF DuplicatesExplained
  <2>1. CASE \E r \in Relays : m \in Locked(r)
    BY <2>1 DEF IInv, CopyInv, TypeOK, Paid
  <2>2. CASE \A r \in Relays : m \notin Locked(r)
    BY <2>2 DEF IInv, CopyInv, TypeOK
  <2> QED
    BY <2>1, <2>2
<1> QED
  BY <1>1, AlwaysIInv, PTL

(* A step of the relays is a step of the abstract delivery, or changes      *)
(* nothing that the rest of the system can see of the outbox.               *)
LEMMA StepRefines == IInv /\ [Next]_vars => [Delivery!Next]_<<row, copies>>
<1> SUFFICES ASSUME IInv, [Next]_vars PROVE [Delivery!Next]_<<row, copies>>
  OBVIOUS
<1> USE DEF Delivery!Next
<1>1. ASSUME NEW m \in Msgs, Save(m) PROVE Delivery!Accept(m)
  BY <1>1 DEF Save, Delivery!Accept
<1>2. ASSUME NEW r \in Relays, NEW m \in Msgs,
             PublishAcked(r, m) \/ PublishFailed(r, m)
      PROVE  Delivery!Send(m) \/ UNCHANGED <<row, copies>>
  <2>1. row[m] = "pending"
    BY <1>2 DEF IInv, LockInv, Locked, Current, PublishAcked, PublishFailed
  <2> QED
    BY <1>2, <2>1 DEF PublishAcked, PublishFailed, Delivery!Send, table
<1>3. ASSUME NEW r \in Relays, Commit(r) \/ LostCommit(r)
      PROVE  Delivery!Settle(marked[r])
  <2>1. \A m \in marked[r] : row[m] = "pending" /\ copies[m] > 0
    BY DEF IInv, LockInv, StoredInv, Locked
  <2> QED
    BY <1>3, <2>1 DEF Commit, LostCommit, Apply, Delivery!Settle
<1>4. ASSUME NEW r \in Relays, Commit(r) \/ LostCommit(r)
      PROVE  Delivery!Next
  BY <1>3, <1>4 DEF IInv, TypeOK
<1>5. ASSUME NEW r \in Relays,
             \/ Tick(r) \/ DrainStop(r) \/ Stop(r) \/ GetBatch(r)
             \/ Abort(r) \/ Cancel(r) \/ Crash(r) \/ Restart(r)
             \/ \E m \in Msgs : MarkPublished(r, m) \/ UpdateRetryCount(r, m)
      PROVE  UNCHANGED <<row, copies>>
  BY <1>5 DEF Tick, DrainStop, Stop, GetBatch, Abort, Cancel, Crash, Restart,
              MarkPublished, UpdateRetryCount, table
<1> QED
  BY <1>1, <1>2, <1>4, <1>5 DEF Next, RelayStep, FaultStep, vars

(* The relays implement at-least-once delivery: a row is recorded as        *)
(* published only when the broker has a copy and is never sent afterwards.  *)
THEOREM ImplementsDelivery == Spec => AtLeastOnceDelivery
<1>1. Init => Delivery!Init
  BY DEF Init, Delivery!Init
<1> QED
  BY <1>1, StepRefines, AlwaysIInv, PTL DEF Spec, AtLeastOnceDelivery, Delivery!Spec
=============================================================================
