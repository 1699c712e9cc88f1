---------------------------- MODULE RepeatProofs ----------------------------
(***************************************************************************)
(* Proof that the idempotency key bounds the confirmations of an order,    *)
(* for any number of instances, orders, retries, faults and evictions.     *)
(*                                                                         *)
(* KeyInv is the mutual exclusion the unique key gives: two transactions   *)
(* on one record are open at once only if the record is processed already. *)
(* RepeatInv is an account: every confirmation, and every one a stopped    *)
(* instance may still make, is charged to a record of the order that is or *)
(* is about to be processed, or to a fault.                                *)
(***************************************************************************)
EXTENDS ProcessingProofs

Saga == {"payment", "warehouse", "confirm"}
Undoing == {"undo warehouse", "undo payment"}

ErrOf(w) ==
  /\ pc[w] \in Saga => err[w] = "none"
  /\ pc[w] \in Undoing => err[w] # "none"

KeyInv ==
  /\ \A w \in Workers : ErrOf(w)
  /\ \A w \in Workers : pc[w] \in Saga \cup Undoing => at[w] \notin processed
  /\ \A v, w \in Workers :
       v # w /\ pc[v] \in InTx /\ pc[w] \in InTx /\ at[v] = at[w] => at[w] \in processed

(* The saga is done and nothing is left but to commit the key. *)
Open(w) == pc[w] = "commit" /\ err[w] = "none" /\ ~cancelled[w]

(* Records that may be charged with a confirmation.                         *)
Spoken(o) ==
  {i \in RecordsOf(o) : i \in processed \/ \E w \in Workers : Open(w) /\ at[w] = i}

(* A stopped instance in its saga: it may confirm and yet not commit the    *)
(* key, and the fault that stopped it pays for that.                        *)
Doomed(w) == pc[w] \in Saga /\ cancelled[w]
Stopped(o) == {w \in Workers : Doomed(w) /\ OrderOf(w) = o}

RepeatOf(o) ==
  confirmed[o] + Cardinality(Stopped(o)) <= Cardinality(Spoken(o)) + faults

RepeatInv == \A o \in Orders : RepeatOf(o)

-----------------------------------------------------------------------------
(* The key.                                                                 *)

(* What keeps KeyInv: every worker leaves its transaction, or goes on in it *)
(* and does not return to the saga.                                         *)
LEMMA KeyKept ==
  ASSUME KeyInv, processed' = processed,
         \A v \in Workers :
           pc'[v] \in InTx =>
             /\ pc[v] \in InTx /\ at'[v] = at[v] /\ ErrOf(v)'
             /\ pc'[v] \in Saga \cup Undoing => pc[v] \in Saga \cup Undoing
  PROVE  KeyInv'
<1>1. ASSUME NEW v \in Workers PROVE ErrOf(v)'
  BY <1>1 DEF ErrOf, Saga, Undoing, InTx
<1>2. ASSUME NEW v \in Workers, pc'[v] \in Saga \cup Undoing PROVE at'[v] \notin processed'
  <2>1. pc'[v] \in InTx
    BY <1>2 DEF Saga, Undoing, InTx
  <2> QED
    BY <1>2, <2>1 DEF KeyInv
<1>3. ASSUME NEW v \in Workers, NEW w \in Workers, v # w,
             pc'[v] \in InTx, pc'[w] \in InTx, at'[v] = at'[w]
      PROVE  at'[w] \in processed'
  BY <1>3 DEF KeyInv
<1> QED
  BY <1>1, <1>2, <1>3 DEF KeyInv

LEMMA BeginKey ==
  ASSUME IInv, KeyInv, NEW w \in Workers, Begin(w)
  PROVE  KeyInv'
<1>1. /\ processed' = processed /\ pc[w] = "idle" /\ at'[w] = Waiting(w)
      /\ \A v \in Workers : v # w => at'[v] = at[v]
  BY ReceiveTakes DEF IInv, Begin, outcome
<1>2. ASSUME NEW v \in Workers, v # w PROVE pc'[v] = pc[v] /\ err'[v] = err[v]
  BY <1>2 DEF IInv, TypeOK, Begin, Goto
<1>3. \/ pc'[w] = "handover"
      \/ pc'[w] = "commit" /\ Waiting(w) \in processed
      \/ /\ pc'[w] = "payment" /\ err'[w] = "none" /\ Waiting(w) \notin processed
         /\ ~KeyLocked(w)
  <2>1. pc \in [Workers -> InTx \cup {"idle", "handover"}] /\ w \in DOMAIN err
    BY DEF IInv, TypeOK
  <2> QED
    BY <2>1 DEF Begin, Goto
<1>4. ASSUME NEW v \in Workers PROVE ErrOf(v)'
  BY <1>2, <1>3 DEF KeyInv, ErrOf, Saga, Undoing
<1>5. ASSUME NEW v \in Workers, pc'[v] \in Saga \cup Undoing PROVE at'[v] \notin processed'
  <2>1. CASE v = w
    BY <1>1, <1>3, <1>5, <2>1 DEF Saga, Undoing
  <2>2. CASE v # w
    BY <1>1, <1>2, <1>5, <2>2 DEF KeyInv
  <2> QED
    BY <2>1, <2>2
<1>6. ASSUME NEW v \in Workers, NEW u \in Workers, v # u,
             pc'[v] \in InTx, pc'[u] \in InTx, at'[v] = at'[u]
      PROVE  at'[u] \in processed'
  <2>1. CASE v # w /\ u # w
    BY <1>1, <1>2, <1>6, <2>1 DEF KeyInv
  <2>2. CASE v = w \/ u = w
    <3>1. PICK x \in Workers \ {w} : pc[x] \in InTx /\ at[x] = Waiting(w)
      BY <1>1, <1>2, <1>6, <2>2
    <3>2. KeyLocked(w)
      BY <3>1 DEF KeyLocked
    <3>3. Waiting(w) \in processed
      BY <1>3, <1>6, <2>2, <3>2 DEF InTx
    <3> QED
      BY <1>1, <1>6, <2>2, <3>3
  <2> QED
    BY <2>1, <2>2
<1> QED
  BY <1>1, <1>4, <1>5, <1>6 DEF KeyInv

LEMMA CommitKey ==
  ASSUME IInv, KeyInv, NEW w \in Workers, Commit(w)
  PROVE  KeyInv'
<1>1. /\ pc[w] = "commit" /\ pc'[w] \in {"idle", "handover"}
      /\ \A v \in Workers : v # w => /\ pc'[v] = pc[v] /\ err'[v] = err[v]
                                     /\ at'[v] = at[v]
      /\ processed \subseteq processed' /\ processed' \subseteq processed \cup {at[w]}
  BY DEF IInv, TypeOK, Commit, Done, Goto
<1>2. ASSUME NEW v \in Workers PROVE ErrOf(v)'
  BY <1>1 DEF KeyInv, ErrOf, Saga, Undoing
<1>3. ASSUME NEW v \in Workers, pc'[v] \in Saga \cup Undoing PROVE at'[v] \notin processed'
  <2>1. v # w /\ pc[v] \in Saga \cup Undoing /\ at'[v] = at[v]
    BY <1>1, <1>3 DEF Saga, Undoing
  <2>2. at[v] \notin processed
    BY <2>1 DEF KeyInv
  <2>3. at[v] # at[w]
    BY <1>1, <2>1, <2>2 DEF KeyInv, InTx, Saga, Undoing
  <2>4. at[v] # at[w]
    BY <2>3 DEF IInv, TypeOK
  <2> QED
    BY <1>1, <2>1, <2>2, <2>4
<1>4. ASSUME NEW v \in Workers, NEW u \in Workers, v # u,
             pc'[v] \in InTx, pc'[u] \in InTx, at'[v] = at'[u]
      PROVE  at'[u] \in processed'
  BY <1>1, <1>4 DEF KeyInv, InTx
<1> QED
  BY <1>2, <1>3, <1>4 DEF KeyInv

LEMMA ReserveKey ==
  ASSUME IInv, KeyInv, NEW w \in Workers, NEW s \in Services, Reserve(w, s)
  PROVE  KeyInv'
<1>1. UNCHANGED <<at, processed>> /\ pc[w] \in {"payment", "warehouse"} /\ err[w] = "none"
  BY DEF Reserve, outcome, input, Services, KeyInv, ErrOf, Saga
<1>2. ASSUME NEW v \in Workers, v # w PROVE pc'[v] = pc[v] /\ err'[v] = err[v]
  BY <1>2 DEF IInv, TypeOK, Reserve, FailAt, Goto
<1>3. \/ pc'[w] \in {"warehouse", "confirm"} /\ err'[w] = "none"
      \/ pc'[w] \in {"commit", "handover", "undo payment"} /\ err'[w] \in {"open", "other"}
  <2>1. CASE Goto(w, NextStep(s)) /\ err' = err
    BY <1>1, <2>1 DEF IInv, TypeOK, Goto, NextStep
  <2>2. CASE \E e \in {"open", "other"} : FailAt(w, s, e)
    BY <2>2 DEF IInv, TypeOK, FailAt, Goto, Verdict, Services
  <2> QED
    BY <2>1, <2>2 DEF Reserve
<1>4. ErrOf(w)'
  BY <1>3 DEF ErrOf, Saga, Undoing
<1>5. ASSUME NEW v \in Workers, v # w PROVE ErrOf(v)'
  BY <1>2, <1>5 DEF KeyInv, ErrOf
<1> QED
  BY <1>1, <1>2, <1>4, <1>5, KeyKept DEF InTx, Saga

LEMMA ConfirmKey ==
  ASSUME IInv, KeyInv, NEW w \in Workers, Confirm(w)
  PROVE  KeyInv'
<1>1. UNCHANGED <<at, processed>> /\ pc[w] = "confirm" /\ err[w] = "none"
  BY DEF Confirm, outcome, input, KeyInv, ErrOf, Saga
<1>2. ASSUME NEW v \in Workers, v # w PROVE pc'[v] = pc[v] /\ err'[v] = err[v]
  BY <1>2 DEF IInv, TypeOK, Confirm, FailAt, Goto
<1>3. \/ pc'[w] = "commit"
      \/ pc'[w] = "undo warehouse" /\ err'[w] = "other"
  BY DEF IInv, TypeOK, Confirm, FailAt, Goto
<1>4. ErrOf(w)'
  BY <1>3 DEF ErrOf, Saga, Undoing
<1>5. ASSUME NEW v \in Workers, v # w PROVE ErrOf(v)'
  BY <1>2, <1>5 DEF KeyInv, ErrOf
<1> QED
  BY <1>1, <1>2, <1>4, <1>5, KeyKept DEF InTx, Saga

LEMMA UndoKey ==
  ASSUME IInv, KeyInv, NEW w \in Workers, NEW s \in Services, Undo(w, s)
  PROVE  KeyInv'
<1>1. UNCHANGED <<at, processed, err>> /\ pc[w] \in Undoing /\ err[w] # "none"
  BY DEF Undo, UndoOf, outcome, input, KeyInv, ErrOf, Undoing
<1>2. ASSUME NEW v \in Workers, v # w PROVE pc'[v] = pc[v]
  BY <1>2 DEF IInv, TypeOK, Undo, AfterUndo, Goto
<1>3. pc'[w] \in {"undo payment", "commit", "handover"}
  BY DEF IInv, TypeOK, Undo, AfterUndo, Goto, Verdict
<1>4. ErrOf(w)'
  BY <1>1, <1>3 DEF ErrOf, Saga, Undoing
<1>5. ASSUME NEW v \in Workers, v # w PROVE ErrOf(v)'
  BY <1>1, <1>2, <1>5 DEF KeyInv, ErrOf
<1> QED
  BY <1>1, <1>2, <1>4, <1>5, KeyKept DEF InTx, Undoing

(* A worker outside its transaction, or one that leaves it. *)
LEMMA OthersKey ==
  ASSUME KeyInv, processed' = processed,
         \A v \in Workers : \/ pc'[v] \notin InTx
                            \/ pc'[v] = pc[v] /\ at'[v] = at[v] /\ err'[v] = err[v]
  PROVE  KeyInv'
<1>1. ASSUME NEW v \in Workers, pc'[v] \in InTx PROVE ErrOf(v)'
  BY <1>1 DEF KeyInv, ErrOf
<1> QED
  BY <1>1, KeyKept

LEMMA StepKey == IInv /\ KeyInv /\ [Next]_vars => KeyInv'
<1> SUFFICES ASSUME IInv, KeyInv, [Next]_vars PROVE KeyInv'
  OBVIOUS
<1>1. ASSUME NEW o \in Orders, Deliver(o) PROVE KeyInv'
  BY <1>1, OthersKey DEF Deliver, outcome, input, saga
<1>2. ASSUME NEW w \in Workers, Handover(w) PROVE KeyInv'
  <2>1. /\ processed' = processed /\ pc'[w] = "idle"
        /\ \A v \in Workers : v # w => /\ pc'[v] = pc[v] /\ err'[v] = err[v]
                                       /\ at'[v] = at[v]
    BY <1>2 DEF IInv, TypeOK, Handover, Done, Goto
  <2> QED
    BY <2>1, OthersKey DEF InTx
<1>3. ASSUME NEW w \in Workers, Shutdown(w) PROVE KeyInv'
  <2>1. /\ UNCHANGED <<processed, pc, err>> /\ pc[w] = "idle"
        /\ \A v \in Workers : v # w => at'[v] = at[v]
    BY <1>3 DEF IInv, TypeOK, Shutdown, Forget, outcome, saga
  <2> QED
    BY <2>1, OthersKey DEF InTx
<1>4. ASSUME NEW w \in Workers, Assign(w) \/ CommitOffsets(w) \/ Evict(w) \/ Cancel(w)
      PROVE  KeyInv'
  <2>1. UNCHANGED <<processed, pc, at, err>>
    BY <1>4 DEF Assign, CommitOffsets, Evict, Cancel, outcome, input, saga
  <2> QED
    BY <2>1, OthersKey
<1>5. ASSUME NEW w \in Workers, Crash(w) PROVE KeyInv'
  <2>1. /\ processed' = processed /\ pc'[w] = "idle"
        /\ \A v \in Workers : v # w => /\ pc'[v] = pc[v] /\ err'[v] = err[v]
                                       /\ at'[v] = at[v]
    BY <1>5 DEF IInv, TypeOK, Crash, Forget, Goto, outcome
  <2> QED
    BY <2>1, OthersKey DEF InTx
<1>6. CASE UNCHANGED vars
  BY <1>6, OthersKey DEF vars, outcome, input, saga
<1> QED
  BY <1>1, <1>2, <1>3, <1>4, <1>5, <1>6, BeginKey, CommitKey, ReserveKey, ConfirmKey, UndoKey
  DEF Next, WorkerStep, GroupStep

-----------------------------------------------------------------------------
(* The account.                                                             *)

(* Records keep their place and never change. *)
LogGrows == \A i \in 1..Len(log) : i \in 1..Len(log') /\ log'[i] = log[i]

LEMMA StepLogGrows ==
  ASSUME IInv, [Next]_vars
  PROVE  LogGrows
<1>1. log \in Seq(Record)
  BY DEF IInv, TypeOK
<1>2. log' = log \/ \E r \in Record : log' = Append(log, r)
  <2>1. ASSUME NEW o \in Orders, Deliver(o) PROVE \E r \in Record : log' = Append(log, r)
    BY <2>1, DeliverAppends
  <2>2. ASSUME NEW w \in Workers, Handover(w)
        PROVE  log' = log \/ \E r \in Record : log' = Append(log, r)
    BY <2>2, StoredGrows DEF IInv, Handover
  <2>3. ASSUME NEW w \in Workers, Begin(w) \/ Confirm(w) \/ Commit(w) PROVE log' = log
    BY <2>3 DEF Begin, Confirm, Commit
  <2>4. ASSUME NEW w \in Workers, NEW s \in Services, Reserve(w, s) \/ Undo(w, s)
        PROVE  log' = log
    BY <2>4 DEF Reserve, Undo
  <2>5. ASSUME NEW w \in Workers, GroupStep(w) \/ Evict(w) \/ Cancel(w) \/ Crash(w)
        PROVE  log' = log
    BY <2>5 DEF GroupStep, Assign, CommitOffsets, Shutdown, Evict, Cancel, Crash
  <2>6. CASE UNCHANGED vars
    BY <2>6 DEF vars
  <2> QED
    BY <2>1, <2>2, <2>3, <2>4, <2>5, <2>6 DEF Next, WorkerStep
<1> QED
  BY <1>1, <1>2 DEF LogGrows

LEMMA AccountFinite ==
  ASSUME TypeOK, TypeOK', NEW o
  PROVE  /\ IsFiniteSet(Spoken(o)) /\ Cardinality(Spoken(o)) \in Nat
         /\ IsFiniteSet(Spoken(o)') /\ Cardinality(Spoken(o)') \in Nat
         /\ IsFiniteSet(Stopped(o)) /\ Cardinality(Stopped(o)) \in Nat
         /\ IsFiniteSet(Stopped(o)') /\ Cardinality(Stopped(o)') \in Nat
<1>1. Len(log) \in Nat /\ Len(log') \in Nat
  <2>1. log \in Seq(Record) /\ log' \in Seq(Record)
    BY DEF TypeOK, Record
  <2> QED
    BY <2>1
<1>2. IsFiniteSet(1..Len(log)) /\ IsFiniteSet(1..Len(log')) /\ IsFiniteSet(Workers)
  BY <1>1, FS_Interval, ProcessingAssumption DEF ProcessingAssumption
<1>3. /\ Spoken(o) \subseteq 1..Len(log) /\ Spoken(o)' \subseteq 1..Len(log')
      /\ Stopped(o) \subseteq Workers /\ Stopped(o)' \subseteq Workers
  BY DEF Spoken, RecordsOf, Stopped
<1>4. /\ IsFiniteSet(Spoken(o)) /\ IsFiniteSet(Spoken(o)')
      /\ IsFiniteSet(Stopped(o)) /\ IsFiniteSet(Stopped(o)')
  BY <1>2, <1>3, FS_Subset
<1> QED
  BY <1>4, FS_CardinalityType

(* What a step that confirms nothing and hurts nobody's commit does to the  *)
(* two sides of the account.                                                *)
LEMMA SpokenGrows ==
  ASSUME LogGrows, NEW o, NEW X, processed \subseteq processed',
         \A w \in Workers : Open(w) /\ at[w] \notin X =>
            at[w] \in processed' \/ (Open(w)' /\ at'[w] = at[w])
  PROVE  Spoken(o) \ X \subseteq Spoken(o)'
<1>1. \A i \in RecordsOf(o) : i \in RecordsOf(o)'
  BY DEF RecordsOf, LogGrows
<1> QED
  BY <1>1 DEF Spoken

LEMMA StoppedShrinks ==
  ASSUME TypeOK, LogGrows, NEW o, NEW X,
         \A w \in Workers : w \notin X /\ Doomed(w)' => Doomed(w) /\ at'[w] = at[w]
  PROVE  Stopped(o)' \subseteq Stopped(o) \cup X
<1>1. ASSUME NEW w \in Workers, w \notin X, Doomed(w)' PROVE OrderOf(w)' = OrderOf(w)
  <2>1. Doomed(w) /\ at'[w] = at[w]
    BY <1>1
  <2>2. at[w] \in 1..Len(log)
    BY <2>1, InLog DEF Doomed, Saga
  <2> QED
    BY <2>1, <2>2 DEF LogGrows, OrderOf
<1> QED
  BY <1>1 DEF Stopped

(* A step at which nobody is charged. *)
LEMMA RepeatStays ==
  ASSUME TypeOK, TypeOK', NEW o \in Orders, RepeatOf(o),
         Spoken(o) \subseteq Spoken(o)', Stopped(o)' \subseteq Stopped(o),
         confirmed'[o] = confirmed[o], faults' >= faults
  PROVE  RepeatOf(o)'
<1>1. /\ Cardinality(Spoken(o)) \in Nat /\ Cardinality(Spoken(o)') \in Nat
      /\ Cardinality(Spoken(o)) <= Cardinality(Spoken(o)')
  BY AccountFinite, FS_Subset
<1>2. /\ Cardinality(Stopped(o)) \in Nat /\ Cardinality(Stopped(o)') \in Nat
      /\ Cardinality(Stopped(o)') <= Cardinality(Stopped(o))
  BY AccountFinite, FS_Subset
<1>3. confirmed[o] \in Nat /\ faults \in Nat /\ faults' \in Nat
  BY DEF TypeOK
<1> QED
  BY <1>1, <1>2, <1>3 DEF RepeatOf

LEMMA OneMore ==
  ASSUME NEW A, NEW x, IsFiniteSet(A)
  PROVE  /\ IsFiniteSet(A \cup {x})
         /\ Cardinality(A \cup {x}) \in Nat /\ Cardinality(A \cup {x}) <= Cardinality(A) + 1
<1>1. /\ IsFiniteSet(A \cup {x})
      /\ Cardinality(A \cup {x}) = IF x \in A THEN Cardinality(A) ELSE Cardinality(A) + 1
  BY FS_AddElement
<1>2. Cardinality(A) \in Nat /\ Cardinality(A \cup {x}) \in Nat
  BY <1>1, FS_CardinalityType
<1> QED
  BY <1>1, <1>2

(* A fault pays for one confirmation, for one record that is no longer      *)
(* spoken for, or for one instance that is stopped in its saga.             *)
LEMMA RepeatPaid ==
  ASSUME TypeOK, TypeOK', NEW o \in Orders, RepeatOf(o), faults' = faults + 1,
         NEW i, NEW w,
         \/ /\ Spoken(o) \subseteq Spoken(o)' /\ Stopped(o)' \subseteq Stopped(o)
            /\ confirmed'[o] <= confirmed[o] + 1
         \/ /\ Spoken(o) \ {i} \subseteq Spoken(o)' /\ Stopped(o)' \subseteq Stopped(o)
            /\ confirmed'[o] = confirmed[o]
         \/ /\ Spoken(o) \subseteq Spoken(o)' /\ Stopped(o)' \subseteq Stopped(o) \cup {w}
            /\ confirmed'[o] = confirmed[o]
  PROVE  RepeatOf(o)'
<1> DEFINE A == Spoken(o)
           B == Spoken(o)'
           C == Stopped(o)
           D == Stopped(o)'
<1>1. IsFiniteSet(A) /\ IsFiniteSet(B) /\ IsFiniteSet(C) /\ IsFiniteSet(D)
  BY AccountFinite
<1>2. /\ Cardinality(A) \in Nat /\ Cardinality(B) \in Nat
      /\ Cardinality(C) \in Nat /\ Cardinality(D) \in Nat
  BY <1>1, FS_CardinalityType
<1>3. A \subseteq B => Cardinality(A) <= Cardinality(B)
  BY <1>1, FS_Subset
<1>4. D \subseteq C => Cardinality(D) <= Cardinality(C)
  BY <1>1, FS_Subset
<1>5. A \ {i} \subseteq B => Cardinality(A) <= Cardinality(B) + 1
  <2> SUFFICES ASSUME A \ {i} \subseteq B PROVE Cardinality(A) <= Cardinality(B) + 1
    OBVIOUS
  <2>1. IsFiniteSet(B \cup {i}) /\ Cardinality(B \cup {i}) \in Nat
        /\ Cardinality(B \cup {i}) <= Cardinality(B) + 1
    BY <1>1, OneMore
  <2>2. A \subseteq B \cup {i}
    OBVIOUS
  <2>3. Cardinality(A) <= Cardinality(B \cup {i})
    BY <2>1, <2>2, FS_Subset
  <2> QED
    BY <1>2, <2>1, <2>3
<1>6. D \subseteq C \cup {w} => Cardinality(D) <= Cardinality(C) + 1
  <2> SUFFICES ASSUME D \subseteq C \cup {w} PROVE Cardinality(D) <= Cardinality(C) + 1
    OBVIOUS
  <2>1. IsFiniteSet(C \cup {w}) /\ Cardinality(C \cup {w}) \in Nat
        /\ Cardinality(C \cup {w}) <= Cardinality(C) + 1
    BY <1>1, OneMore
  <2>2. Cardinality(D) <= Cardinality(C \cup {w})
    BY <2>1, FS_Subset
  <2> QED
    BY <1>2, <2>1, <2>2
<1>7. confirmed[o] \in Nat /\ confirmed'[o] \in Nat /\ faults \in Nat
  BY DEF TypeOK
<1>8. /\ confirmed[o] + Cardinality(C) <= Cardinality(A) + faults
      /\ RepeatOf(o)' <=> confirmed'[o] + Cardinality(D) <= Cardinality(B) + faults'
  BY DEF RepeatOf
<1> QED
  <2> HIDE DEF A, B, C, D
  <2>1. \/ /\ Cardinality(A) <= Cardinality(B) /\ Cardinality(D) <= Cardinality(C)
           /\ confirmed'[o] <= confirmed[o] + 1
        \/ /\ Cardinality(A) <= Cardinality(B) + 1 /\ Cardinality(D) <= Cardinality(C)
           /\ confirmed'[o] = confirmed[o]
        \/ /\ Cardinality(A) <= Cardinality(B) /\ Cardinality(D) <= Cardinality(C) + 1
           /\ confirmed'[o] = confirmed[o]
    BY <1>3, <1>4, <1>5, <1>6 DEF A, B, C, D
  <2> QED
    BY <1>2, <1>7, <1>8, <2>1

(* The saga is done: a record nobody had spoken for is charged. *)
LEMMA RepeatSpeaks ==
  ASSUME TypeOK, TypeOK', NEW o \in Orders, RepeatOf(o), faults' >= faults,
         NEW i, i \notin Spoken(o), Spoken(o) \cup {i} \subseteq Spoken(o)',
         Stopped(o)' \subseteq Stopped(o), confirmed'[o] = confirmed[o] + 1
  PROVE  RepeatOf(o)'
<1>1. /\ Cardinality(Spoken(o)) \in Nat /\ Cardinality(Spoken(o)') \in Nat
      /\ Cardinality(Spoken(o)) + 1 <= Cardinality(Spoken(o)')
  <2>1. IsFiniteSet(Spoken(o)) /\ IsFiniteSet(Spoken(o)')
    BY AccountFinite
  <2>2. Cardinality(Spoken(o) \cup {i}) = Cardinality(Spoken(o)) + 1
    BY <2>1, FS_AddElement
  <2>3. Cardinality(Spoken(o) \cup {i}) <= Cardinality(Spoken(o)')
    BY <2>1, FS_Subset
  <2> QED
    BY <2>1, <2>2, <2>3, AccountFinite
<1>2. /\ Cardinality(Stopped(o)) \in Nat /\ Cardinality(Stopped(o)') \in Nat
      /\ Cardinality(Stopped(o)') <= Cardinality(Stopped(o))
  BY AccountFinite, FS_Subset
<1>3. confirmed[o] \in Nat /\ faults \in Nat /\ faults' \in Nat
  BY DEF TypeOK
<1> QED
  BY <1>1, <1>2, <1>3 DEF RepeatOf

(* A stopped instance confirms: it was charged when it was stopped. *)
LEMMA RepeatLast ==
  ASSUME TypeOK, TypeOK', NEW o \in Orders, RepeatOf(o), faults' >= faults,
         Spoken(o) \subseteq Spoken(o)',
         NEW w \in Stopped(o), Stopped(o)' \subseteq Stopped(o) \ {w},
         confirmed'[o] = confirmed[o] + 1
  PROVE  RepeatOf(o)'
<1>1. /\ Cardinality(Spoken(o)) \in Nat /\ Cardinality(Spoken(o)') \in Nat
      /\ Cardinality(Spoken(o)) <= Cardinality(Spoken(o)')
  BY AccountFinite, FS_Subset
<1>2. /\ Cardinality(Stopped(o)) \in Nat /\ Cardinality(Stopped(o)') \in Nat
      /\ Cardinality(Stopped(o)') + 1 <= Cardinality(Stopped(o))
  <2>1. IsFiniteSet(Stopped(o)) /\ IsFiniteSet(Stopped(o) \ {w})
    BY AccountFinite, FS_Subset
  <2>2. Cardinality(Stopped(o) \ {w}) = Cardinality(Stopped(o)) - 1
    BY <2>1, FS_RemoveElement
  <2>3. Cardinality(Stopped(o)') <= Cardinality(Stopped(o) \ {w})
    BY <2>1, FS_Subset
  <2>4. Cardinality(Stopped(o)) \in Nat /\ Cardinality(Stopped(o)') \in Nat
    BY AccountFinite
  <2> QED
    BY <2>2, <2>3, <2>4
<1>3. confirmed[o] \in Nat /\ faults \in Nat /\ faults' \in Nat
  BY DEF TypeOK
<1> QED
  BY <1>1, <1>2, <1>3 DEF RepeatOf

LEMMA RepeatQuiet ==
  ASSUME TypeOK, TypeOK', LogGrows, NEW o \in Orders, RepeatOf(o),
         processed \subseteq processed', confirmed'[o] = confirmed[o], faults' >= faults,
         \A w \in Workers : Open(w) => at[w] \in processed' \/ (Open(w)' /\ at'[w] = at[w]),
         \A w \in Workers : Doomed(w)' => Doomed(w) /\ at'[w] = at[w]
  PROVE  RepeatOf(o)'
<1>1. Spoken(o) \ {} \subseteq Spoken(o)'
  BY SpokenGrows
<1>2. Stopped(o)' \subseteq Stopped(o) \cup {}
  BY StoppedShrinks
<1> QED
  BY <1>1, <1>2, RepeatStays

LEMMA ConfirmRepeat ==
  ASSUME IInv, IInv', KeyInv, RepeatInv, LogGrows, NEW w \in Workers, Confirm(w)
  PROVE  RepeatInv'
<1> SUFFICES ASSUME NEW o \in Orders PROVE RepeatOf(o)'
  BY DEF RepeatInv
<1>1. TypeOK /\ TypeOK' /\ RepeatOf(o)
  BY DEF IInv, RepeatInv
<1>2. /\ UNCHANGED <<log, processed, at, cancelled>>
      /\ pc[w] = "confirm" /\ pc'[w] \in {"commit", "undo warehouse"}
      /\ \A v \in Workers : v # w => pc'[v] = pc[v] /\ err'[v] = err[v]
  <2>1. UNCHANGED <<log, processed, at, cancelled>> /\ pc[w] = "confirm"
    BY DEF Confirm, outcome, input
  <2>2. \E l, e : /\ l \in {"commit", "undo warehouse"} /\ pc' = [pc EXCEPT ![w] = l]
                  /\ err' = [err EXCEPT ![w] = e] \/ err' = err
    BY DEF Confirm, FailAt, Goto
  <2> QED
    BY <1>1, <2>1, <2>2 DEF TypeOK
<1>3. /\ \A v \in Workers : Open(v) => Open(v)' /\ at'[v] = at[v]
      /\ \A v \in Workers : Doomed(v)' => v # w /\ Doomed(v) /\ at'[v] = at[v]
  BY <1>2 DEF Open, Doomed, Saga
<1>4. Spoken(o) \ {} \subseteq Spoken(o)'
  BY <1>2, <1>3, SpokenGrows
<1>5. Stopped(o)' \subseteq Stopped(o) \cup {} /\ w \notin Stopped(o)'
  BY <1>1, <1>3, StoppedShrinks DEF Stopped
<1>6. faults \in Nat /\ faults' >= faults
  BY <1>1 DEF TypeOK, Confirm, FaultOrCancelled, Fault, spent
<1>7. CASE confirmed'[o] = confirmed[o]
  BY <1>1, <1>4, <1>5, <1>6, <1>7, RepeatStays
<1>8. CASE Confirmed(w) /\ OrderOf(w) = o
  <2>1. confirmed'[o] = confirmed[o] + 1 /\ confirmed[o] \in Nat
    BY <1>1, <1>8 DEF TypeOK, Confirmed
  <2>2. CASE ~cancelled[w] /\ err' = err /\ Goto(w, "commit")
    <3>1. at[w] \notin processed
      BY <1>2 DEF KeyInv, Saga
    <3>2. ASSUME NEW v \in Workers, Open(v) PROVE at[v] # at[w]
      <4>1. v # w /\ pc[v] \in InTx /\ pc[w] \in InTx
        BY <1>2, <3>2 DEF Open, InTx
      <4>2. at[v] # at[w]
        BY <3>1, <4>1 DEF KeyInv
      <4>3. at[v] \in Nat /\ at[w] \in Nat
        BY <1>1 DEF TypeOK
      <4> QED
        BY <4>2, <4>3
    <3>3. at[w] \notin Spoken(o)
      BY <3>1, <3>2 DEF Spoken
    <3>4. Open(w)' /\ at'[w] = at[w]
      BY <1>1, <1>2, <2>2 DEF TypeOK, KeyInv, ErrOf, Saga, Open, Goto
    <3>5. at[w] \in RecordsOf(o)'
      BY <1>1, <1>2, <1>8, InLog DEF LogGrows, RecordsOf, OrderOf
    <3>6. Spoken(o) \cup {at[w]} \subseteq Spoken(o)'
      BY <1>4, <3>4, <3>5 DEF Spoken
    <3> QED
      BY <1>1, <1>5, <1>6, <2>1, <3>3, <3>6, RepeatSpeaks
  <2>3. CASE cancelled[w]
    <3>1. w \in Stopped(o)
      BY <1>2, <1>8, <2>3 DEF Stopped, Doomed, Saga
    <3> QED
      BY <1>1, <1>4, <1>5, <1>6, <2>1, <3>1, RepeatLast
  <2>4. CASE faults' = faults + 1
    BY <1>1, <1>4, <1>5, <2>1, <2>4, RepeatPaid
  <2>5. \/ ~cancelled[w] /\ err' = err /\ Goto(w, "commit")
        \/ cancelled[w]
        \/ faults' = faults + 1
    BY DEF Confirm, FaultOrCancelled, Fault
  <2> QED
    BY <2>2, <2>3, <2>4, <2>5
<1>9. confirmed' = confirmed \/ Confirmed(w)
  BY DEF Confirm, order
<1>10. CASE Confirmed(w) /\ OrderOf(w) # o
  BY <1>1, <1>7, <1>10 DEF TypeOK, Confirmed
<1> QED
  BY <1>7, <1>8, <1>9, <1>10

LEMMA CommitRepeat ==
  ASSUME IInv, IInv', RepeatInv, LogGrows, NEW w \in Workers, Commit(w)
  PROVE  RepeatInv'
<1> SUFFICES ASSUME NEW o \in Orders PROVE RepeatOf(o)'
  BY DEF RepeatInv
<1>1. TypeOK /\ TypeOK' /\ RepeatOf(o)
  BY DEF IInv, RepeatInv
<1>2. /\ UNCHANGED <<log, confirmed, cancelled>>
      /\ pc[w] = "commit" /\ pc'[w] \in {"idle", "handover"}
      /\ processed \subseteq processed'
  BY <1>1 DEF TypeOK, Commit, Done, Goto, order
<1>3. \A v \in Workers : v # w => pc'[v] = pc[v] /\ err'[v] = err[v] /\ at'[v] = at[v]
  BY <1>1, ZenonT(60) DEF TypeOK, Commit, Done, Goto
<1>4. \A v \in Workers : v # w /\ Open(v) => Open(v)' /\ at'[v] = at[v]
  BY <1>2, <1>3 DEF Open
<1>5. \A v \in Workers : Doomed(v)' => Doomed(v) /\ at'[v] = at[v]
  BY <1>2, <1>3 DEF Doomed, Saga
<1>6. CASE UNCHANGED faults /\ (cancelled[w] \/ at[w] \in processed')
  <2>1. Open(w) => at[w] \in processed'
    BY <1>6 DEF Open
  <2>2. \A v \in Workers : Open(v) => at[v] \in processed' \/ (Open(v)' /\ at'[v] = at[v])
    <3> SUFFICES ASSUME NEW v \in Workers, Open(v)
                 PROVE  at[v] \in processed' \/ (Open(v)' /\ at'[v] = at[v])
      OBVIOUS
    <3>1. CASE v = w
      BY <2>1, <3>1
    <3>2. CASE v # w
      BY <1>4, <3>2
    <3> QED
      BY <3>1, <3>2
  <2>3. faults' >= faults /\ confirmed'[o] = confirmed[o]
    BY <1>1, <1>2, <1>6 DEF TypeOK
  <2> QED
    BY <1>1, <1>2, <1>5, <2>2, <2>3, RepeatQuiet
<1>7. CASE faults' = faults + 1
  <2>1. \A v \in Workers : Open(v) /\ at[v] \notin {at[w]} =>
           at[v] \in processed' \/ (Open(v)' /\ at'[v] = at[v])
    BY <1>4
  <2>2. Spoken(o) \ {at[w]} \subseteq Spoken(o)'
    BY <1>2, <2>1, SpokenGrows
  <2>3. Stopped(o)' \subseteq Stopped(o) \cup {}
    BY <1>1, <1>5, StoppedShrinks
  <2> QED
    BY <1>1, <1>2, <1>7, <2>2, <2>3, RepeatPaid
<1>8. \/ UNCHANGED faults /\ (cancelled[w] \/ at[w] \in processed')
      \/ faults' = faults + 1
  BY DEF Commit, FaultOrCancelled, Fault, spent
<1> QED
  BY <1>6, <1>7, <1>8

(* The two faults that strike a worker where it is. *)
LEMMA StrikeRepeat ==
  ASSUME IInv, IInv', RepeatInv, LogGrows, NEW w \in Workers, Cancel(w) \/ Crash(w)
  PROVE  RepeatInv'
<1> SUFFICES ASSUME NEW o \in Orders PROVE RepeatOf(o)'
  BY DEF RepeatInv
<1>1. TypeOK /\ TypeOK' /\ RepeatOf(o)
  BY DEF IInv, RepeatInv
<1>2. faults' = faults + 1 /\ UNCHANGED <<log, processed, confirmed>>
  BY DEF Cancel, Crash, Fault, outcome, order
<1>3. \A v \in Workers : v # w => /\ pc'[v] = pc[v] /\ err'[v] = err[v]
                                  /\ at'[v] = at[v] /\ cancelled'[v] = cancelled[v]
  <2> SUFFICES ASSUME NEW v \in Workers, v # w
               PROVE  /\ pc'[v] = pc[v] /\ err'[v] = err[v]
                      /\ at'[v] = at[v] /\ cancelled'[v] = cancelled[v]
    OBVIOUS
  <2>1. CASE Cancel(w)
    <3>1. cancelled' = [cancelled EXCEPT ![w] = TRUE] /\ UNCHANGED <<pc, err, at>>
      BY <2>1 DEF Cancel, saga
    <3> QED
      BY <1>1, <3>1 DEF TypeOK
  <2>2. CASE Crash(w)
    <3>1. /\ pc' = [pc EXCEPT ![w] = "idle"]
          /\ err' = [err EXCEPT ![w] = "none"]
          /\ cancelled' = [cancelled EXCEPT ![w] = FALSE]
      BY <2>2 DEF Crash, Goto
    <3>2. at' = [at EXCEPT ![w] = 0]
      BY <2>2 DEF Crash, Forget
    <3> QED
      BY <1>1, <3>1, <3>2 DEF TypeOK
  <2> QED
    BY <2>1, <2>2
<1>4. CASE pc[w] = "commit" \/ Crash(w)
  <2>1. ~Doomed(w)'
    BY <1>1, <1>4 DEF TypeOK, Cancel, Crash, Goto, Doomed, Saga
  <2>2. \A v \in Workers : Doomed(v)' => Doomed(v) /\ at'[v] = at[v]
    BY <1>3, <2>1 DEF Doomed
  <2>3. \A v \in Workers : Open(v) /\ at[v] \notin {at[w]} =>
           at[v] \in processed' \/ (Open(v)' /\ at'[v] = at[v])
    BY <1>3 DEF Open
  <2>4. Spoken(o) \ {at[w]} \subseteq Spoken(o)'
    BY <1>2, <2>3, SpokenGrows
  <2>5. Stopped(o)' \subseteq Stopped(o) \cup {}
    BY <1>1, <2>2, StoppedShrinks
  <2> QED
    BY <1>1, <1>2, <2>4, <2>5, RepeatPaid
<1>5. CASE pc[w] # "commit" /\ Cancel(w)
  <2>1. \A v \in Workers : Open(v) => Open(v)' /\ at'[v] = at[v]
    BY <1>3, <1>5 DEF Open
  <2>2. Spoken(o) \ {} \subseteq Spoken(o)'
    BY <1>2, <2>1, SpokenGrows
  <2>3. \A v \in Workers : v \notin {w} /\ Doomed(v)' => Doomed(v) /\ at'[v] = at[v]
    BY <1>3 DEF Doomed
  <2>4. Stopped(o)' \subseteq Stopped(o) \cup {w}
    BY <1>1, <2>3, StoppedShrinks
  <2> QED
    BY <1>1, <1>2, <2>2, <2>4, RepeatPaid
<1> QED
  BY <1>4, <1>5

(* Every other step is quiet. *)
LEMMA QuietRepeat ==
  ASSUME IInv, IInv', RepeatInv, LogGrows, UNCHANGED confirmed,
         processed' = processed, faults' >= faults,
         \A w \in Workers :
           /\ Open(w) => Open(w)' /\ at'[w] = at[w]
           /\ Doomed(w)' => Doomed(w) /\ at'[w] = at[w]
  PROVE  RepeatInv'
<1> SUFFICES ASSUME NEW o \in Orders PROVE RepeatOf(o)'
  BY DEF RepeatInv
<1>1. TypeOK /\ TypeOK' /\ RepeatOf(o) /\ confirmed'[o] = confirmed[o]
  BY DEF IInv, RepeatInv
<1> QED
  BY <1>1, RepeatQuiet

LEMMA StepRepeat == IInv /\ IInv' /\ KeyInv /\ RepeatInv /\ [Next]_vars => RepeatInv'
<1> SUFFICES ASSUME IInv, IInv', KeyInv, RepeatInv, [Next]_vars PROVE RepeatInv'
  OBVIOUS
<1>1. LogGrows
  BY StepLogGrows
<1>2. faults \in Nat
  BY DEF IInv, TypeOK
<1>3. ASSUME NEW o \in Orders, Deliver(o) PROVE RepeatInv'
  BY <1>1, <1>2, <1>3, QuietRepeat
  DEF Deliver, Open, Doomed, outcome, order, input, saga, spent
<1>4. ASSUME NEW w \in Workers, Begin(w) \/ Handover(w) PROVE RepeatInv'
  <2>1. /\ UNCHANGED <<confirmed, processed, cancelled>> /\ faults' >= faults
        /\ pc[w] \in {"idle", "handover"}
    BY <1>2, <1>4 DEF Begin, Handover, FaultOrCancelled, Fault, spent, outcome, order
  <2>2. \A v \in Workers : v # w => pc'[v] = pc[v] /\ err'[v] = err[v] /\ at'[v] = at[v]
    <3>1. CASE Begin(w)
      <4>1. \A v \in Workers : v # w => at'[v] = at[v]
        BY <3>1, ReceiveTakes DEF IInv, Begin
      <4> QED
        BY <3>1, <4>1 DEF IInv, TypeOK, Begin, Goto
    <3>2. CASE Handover(w)
      BY <3>2 DEF IInv, TypeOK, Handover, Done, Goto
    <3> QED
      BY <1>4, <3>1, <3>2
  <2>3. ~Doomed(w)' /\ ~Open(w)
    BY <1>4, <2>1 DEF IInv, TypeOK, Begin, Handover, Done, Goto, Doomed, Saga, Open
  <2>4. \A v \in Workers : /\ Open(v) => Open(v)' /\ at'[v] = at[v]
                           /\ Doomed(v)' => Doomed(v) /\ at'[v] = at[v]
    BY <2>1, <2>2, <2>3 DEF Open, Doomed
  <2> QED
    BY <1>1, <2>1, <2>4, QuietRepeat
<1>5. ASSUME NEW w \in Workers, NEW s \in Services, Reserve(w, s) \/ Undo(w, s)
      PROVE  RepeatInv'
  <2>1. /\ UNCHANGED <<confirmed, processed, cancelled, at>> /\ faults' >= faults
        /\ pc[w] # "commit"
    <3>1. CASE Reserve(w, s)
      BY <1>2, <3>1 DEF Reserve, FaultOrCancelled, Fault, spent, outcome, order, input, Services
    <3>2. CASE Undo(w, s)
      <4>1. UNCHANGED <<confirmed, processed, cancelled, at>> /\ faults' = faults
        BY <3>2 DEF Undo, spent, outcome, order, input
      <4>2. pc[w] # "commit"
        BY <3>2 DEF Undo, UndoOf
      <4>3. faults' >= faults
        BY <1>2, <4>1
      <4> QED
        BY <4>1, <4>2, <4>3
    <3> QED
      BY <1>5, <3>1, <3>2
  <2>2. \A v \in Workers : v # w => pc'[v] = pc[v] /\ err'[v] = err[v]
    <3>1. CASE Reserve(w, s)
      BY <3>1 DEF IInv, TypeOK, Reserve, FailAt, Goto
    <3>2. CASE Undo(w, s)
      BY <3>2 DEF IInv, TypeOK, Undo, AfterUndo, Goto
    <3> QED
      BY <1>5, <3>1, <3>2
  <2>3. pc[w] \in Saga \/ pc'[w] \notin Saga
    <3>1. CASE Reserve(w, s)
      BY <3>1 DEF Reserve, Saga, Services
    <3>2. CASE Undo(w, s)
      BY <3>2 DEF IInv, TypeOK, Undo, AfterUndo, Goto, Verdict, Saga
    <3> QED
      BY <1>5, <3>1, <3>2
  <2>4. \A v \in Workers : /\ Open(v) => Open(v)' /\ at'[v] = at[v]
                           /\ Doomed(v)' => Doomed(v) /\ at'[v] = at[v]
    BY <2>1, <2>2, <2>3 DEF Open, Doomed
  <2> QED
    BY <1>1, <2>1, <2>4, QuietRepeat
<1>6. ASSUME NEW w \in Workers, GroupStep(w) \/ Evict(w) PROVE RepeatInv'
  <2>1. UNCHANGED <<confirmed, processed, pc, err, faults>>
    BY <1>6 DEF GroupStep, Assign, CommitOffsets, Shutdown, Evict, outcome, order, saga, spent
  <2>2. \/ UNCHANGED <<cancelled, at>>
        \/ /\ pc[w] = "idle"
           /\ \A v \in Workers : v # w => at'[v] = at[v] /\ cancelled'[v] = cancelled[v]
    <3>1. CASE Assign(w) \/ CommitOffsets(w) \/ Evict(w)
      BY <3>1 DEF Assign, CommitOffsets, Evict, input
    <3>2. CASE Shutdown(w)
      BY <3>2 DEF IInv, TypeOK, Shutdown, Forget
    <3> QED
      BY <1>6, <3>1, <3>2 DEF GroupStep
  <2>3. \A v \in Workers : /\ Open(v) => Open(v)' /\ at'[v] = at[v]
                           /\ Doomed(v)' => Doomed(v) /\ at'[v] = at[v]
    BY <2>1, <2>2 DEF Open, Doomed, Saga
  <2> QED
    BY <1>1, <1>2, <2>1, <2>3, QuietRepeat
<1>7. CASE UNCHANGED vars
  BY <1>1, <1>2, <1>7, QuietRepeat DEF vars, Open, Doomed, outcome, order, input, saga, spent
<1> QED
  BY <1>1, <1>3, <1>4, <1>5, <1>6, <1>7, ConfirmRepeat, CommitRepeat, StrikeRepeat
  DEF Next, WorkerStep

LEMMA InitRepeat == Init => KeyInv /\ RepeatInv
<1> SUFFICES ASSUME Init PROVE KeyInv /\ RepeatInv
  OBVIOUS
<1>1. KeyInv
  BY DEF Init, KeyInv, ErrOf, Saga, Undoing, InTx
<1>2. ASSUME NEW o \in Orders PROVE RepeatOf(o)
  <2>1. Spoken(o) = {} /\ Stopped(o) = {}
    BY DEF Init, Spoken, RecordsOf, Stopped, Doomed
  <2> QED
    BY <2>1, FS_EmptySet DEF Init, RepeatOf
<1> QED
  BY <1>1, <1>2 DEF RepeatInv

LEMMA AlwaysRepeatInv == Spec => [](TypeOK /\ KeyInv /\ RepeatInv)
<1>1. IInv => TypeOK
  BY DEF IInv
<1> QED
  BY <1>1, InitRepeat, StepKey, StepRepeat, AlwaysIInv, PTL DEF Spec

-----------------------------------------------------------------------------
(* withIdempotency: however the partition changes hands, an order is        *)
(* confirmed at most once for each of its records, and once more only for a *)
(* fault that struck between the saga's commit and that of the key.         *)
THEOREM RepeatsAccounted == Spec => []RepeatsExplained
<1>1. TypeOK /\ RepeatInv => RepeatsExplained
  <2> SUFFICES ASSUME TypeOK, RepeatInv, NEW o \in Orders
               PROVE  confirmed[o] <= Cardinality(RecordsOf(o)) + faults
    BY DEF RepeatsExplained
  <2>1. confirmed[o] + Cardinality(Stopped(o)) <= Cardinality(Spoken(o)) + faults
    BY DEF RepeatInv, RepeatOf
  <2>2. IsFiniteSet(RecordsOf(o))
    <3>1. Len(log) \in Nat
      BY DEF TypeOK
    <3>2. RecordsOf(o) \subseteq 1..Len(log)
      BY DEF RecordsOf
    <3>3. IsFiniteSet(1..Len(log))
      BY <3>1, FS_Interval
    <3> QED
      BY <3>2, <3>3, FS_Subset
  <2>3. /\ Cardinality(Spoken(o)) <= Cardinality(RecordsOf(o))
        /\ Cardinality(RecordsOf(o)) \in Nat /\ Cardinality(Spoken(o)) \in Nat
    <3>1. Spoken(o) \subseteq RecordsOf(o)
      BY DEF Spoken
    <3> QED
      BY <2>2, <3>1, FS_Subset, FS_CardinalityType
  <2>4. Cardinality(Stopped(o)) \in Nat
    <3>1. Stopped(o) \subseteq Workers
      BY DEF Stopped
    <3> QED
      BY <3>1, FS_Subset, FS_CardinalityType, ProcessingAssumption DEF ProcessingAssumption
  <2>5. confirmed[o] \in Nat /\ faults \in Nat
    BY DEF TypeOK
  <2> QED
    BY <2>1, <2>3, <2>4, <2>5
<1> QED
  BY <1>1, AlwaysRepeatInv, PTL

=============================================================================
