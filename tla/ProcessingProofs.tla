-------------------------- MODULE ProcessingProofs --------------------------
(***************************************************************************)
(* Proofs about Processing for any number of orders, instances, retries,   *)
(* faults and evictions.  The inductive invariant adds to type correctness *)
(* which reservations a worker has in which step (GotInv) and an account   *)
(* that charges every reservation to a confirmation or to the worker that  *)
(* has its ID (HoldInv).  That no record is skipped rests on the order in  *)
(* which records come to a worker (DoneInv).                               *)
(***************************************************************************)
EXTENDS Processing, FiniteSetTheorems, SequenceTheorems, TLAPS

(* A worker has at every step of its saga what the steps before it have     *)
(* reserved, but for the reservations whose reply was lost.                 *)
GotOf(w) ==
  /\ pc[w] \in {"idle", "payment", "commit", "handover"} => got[w] = {}
  /\ pc[w] \in {"warehouse", "undo payment"} => got[w] \subseteq {"payment"}
  /\ pc[w] = "warehouse" /\ OrderOf(w) \notin suspect["payment"] => "payment" \in got[w]
  /\ pc[w] = "confirm" =>
       \A s \in Services : OrderOf(w) \notin suspect[s] => s \in got[w]

GotInv == \A w \in Workers : GotOf(w)

(* The workers that can still undo a reservation of o at s. *)
Holders(s, o) == {w \in Workers : s \in got[w] /\ OrderOf(w) = o}

HoldOf(s, o) ==
  /\ held[s][o] >= Cardinality(Holders(s, o))
  /\ o \notin suspect[s] => held[s][o] = Cardinality(Holders(s, o)) + confirmed[o]

HoldInv == \A s \in Services, o \in Orders : HoldOf(s, o)

IInv == TypeOK /\ GotInv /\ HoldInv

-----------------------------------------------------------------------------
(* Sets of workers can be counted, and change by one worker at a time.      *)
LEMMA HoldersFinite ==
  ASSUME NEW s, NEW o
  PROVE  IsFiniteSet(Holders(s, o)) /\ Cardinality(Holders(s, o)) \in Nat
<1>1. Holders(s, o) \subseteq Workers
  BY DEF Holders
<1>2. IsFiniteSet(Holders(s, o))
  BY <1>1, FS_Subset, ProcessingAssumption DEF ProcessingAssumption
<1> QED
  BY <1>2, FS_CardinalityType

LEMMA HolderJoins ==
  ASSUME NEW s, NEW o, NEW w \in Workers, w \notin Holders(s, o),
         Holders(s, o)' = Holders(s, o) \cup {w}
  PROVE  Cardinality(Holders(s, o))' = Cardinality(Holders(s, o)) + 1
<1>1. Cardinality(Holders(s, o) \cup {w}) = Cardinality(Holders(s, o)) + 1
  BY HoldersFinite, FS_AddElement
<1> QED
  BY <1>1

LEMMA HolderLeaves ==
  ASSUME NEW s, NEW o, NEW w \in Holders(s, o),
         Holders(s, o)' = Holders(s, o) \ {w}
  PROVE  Cardinality(Holders(s, o))' = Cardinality(Holders(s, o)) - 1
<1>1. Cardinality(Holders(s, o) \ {w}) = Cardinality(Holders(s, o)) - 1
  BY HoldersFinite, FS_RemoveElement
<1> QED
  BY <1>1


(* A worker that is not idle is at a record of the log. *)
LEMMA InLog ==
  ASSUME TypeOK, NEW w \in Workers, pc[w] # "idle"
  PROVE  at[w] \in 1..Len(log) /\ log[at[w]] \in Record /\ OrderOf(w) \in Orders
<1>1. at[w] \in 1..Len(log) /\ log[at[w]] \in Record
  BY DEF TypeOK
<1> QED
  BY <1>1 DEF OrderOf, Record

(* Records never change and the log only grows at its end.                  *)
LEMMA SameOrder ==
  ASSUME TypeOK, NEW w \in Workers, pc[w] # "idle", at'[w] = at[w],
         log' = log \/ \E r \in Record : log' = Append(log, r)
  PROVE  OrderOf(w)' = OrderOf(w)
<1>1. at[w] \in 1..Len(log)
  BY InLog
<1>2. log'[at[w]] = log[at[w]]
  BY <1>1 DEF TypeOK
<1> QED
  BY <1>2 DEF OrderOf

(* No doubt is ever dispelled. *)
DoubtGrows == \A s \in Services : suspect[s] \subseteq suspect'[s]

(* What a step leaves alone of the workers that hold reservations.          *)
HoldersStay ==
  \A v \in Workers : got'[v] = got[v] /\ (got[v] # {} => OrderOf(v)' = OrderOf(v))

LEMMA HoldStays ==
  ASSUME NEW s \in Services, NEW o, HoldOf(s, o), DoubtGrows,
         Holders(s, o)' = Holders(s, o),
         held'[s][o] = held[s][o], confirmed'[o] = confirmed[o]
  PROVE  HoldOf(s, o)'
  BY DEF HoldOf, DoubtGrows

(* A reservation nobody can undo any more, of an order that is suspect. *)
LEMMA HoldSpare ==
  ASSUME NEW s, NEW o, HoldOf(s, o), o \in suspect'[s],
         Holders(s, o)' \subseteq Holders(s, o),
         held[s][o] \in Nat, held'[s][o] \in Nat, held'[s][o] >= held[s][o]
  PROVE  HoldOf(s, o)'
<1>1. IsFiniteSet(Holders(s, o)) /\ Cardinality(Holders(s, o)) \in Nat
  BY HoldersFinite
<1>2. /\ IsFiniteSet(Holders(s, o)')
      /\ Cardinality(Holders(s, o)') <= Cardinality(Holders(s, o))
  BY <1>1, FS_Subset
<1>3. Cardinality(Holders(s, o)') \in Nat
  BY <1>2, FS_CardinalityType
<1>4. held[s][o] >= Cardinality(Holders(s, o))
  BY DEF HoldOf
<1> QED
  BY <1>1, <1>2, <1>3, <1>4 DEF HoldOf

LEMMA Unheld ==
  ASSUME IInv, HoldersStay, UNCHANGED <<held, confirmed>>, DoubtGrows
  PROVE  HoldInv'
<1> SUFFICES ASSUME NEW s \in Services, NEW o \in Orders PROVE HoldOf(s, o)'
  BY DEF HoldInv
<1>1. Holders(s, o)' = Holders(s, o)
  BY DEF Holders, HoldersStay
<1> QED
  BY <1>1, HoldStays DEF IInv, HoldInv

LEMMA GotKept ==
  ASSUME NEW w \in Workers, GotOf(w), DoubtGrows,
         pc'[w] = pc[w], got'[w] = got[w],
         pc[w] # "idle" => OrderOf(w)' = OrderOf(w)
  PROVE  GotOf(w)'
  BY DEF GotOf, DoubtGrows, Services

(* Faults touch only the two counters and, where they are in doubt, suspect. *)
LEMMA DoubtIsMore ==
  ASSUME TypeOK, NEW w, NEW S, \/ UNCHANGED suspect
                               \/ Doubt(w, S) /\ OrderOf(w) \in Orders
  PROVE  DoubtGrows /\ suspect' \in [Services -> SUBSET Orders]
<1>1. CASE UNCHANGED suspect
  BY <1>1 DEF DoubtGrows, TypeOK
<1>2. CASE Doubt(w, S) /\ OrderOf(w) \in Orders
  <2>1. \A s \in Services : suspect'[s] \in {suspect[s], suspect[s] \cup {OrderOf(w)}}
    BY <1>2 DEF Doubt
  <2>2. \A s \in Services : suspect[s] \in SUBSET Orders
    BY DEF TypeOK
  <2>3. \A s \in Services : suspect'[s] \in SUBSET Orders /\ suspect[s] \subseteq suspect'[s]
    BY <1>2, <2>1, <2>2
  <2>4. suspect' = [s \in Services |-> suspect'[s]]
    BY <1>2 DEF Doubt
  <2> QED
    BY <2>3, <2>4 DEF DoubtGrows
<1> QED
  BY <1>1, <1>2

USE ProcessingAssumption DEF ProcessingAssumption

(* Records never change, and the log only grows. *)
LEMMA RecordsStay ==
  ASSUME TypeOK, log' = log \/ \E r \in Record : log' = Append(log, r)
  PROVE  /\ log' \in Seq(Record) /\ Len(log) \in Nat
         /\ Len(log') \in {Len(log), Len(log) + 1}
         /\ \A i \in 1..Len(log) : log'[i] = log[i] /\ i \in 1..Len(log')
<1>1. log \in Seq(Record) /\ Len(log) \in Nat
  BY DEF TypeOK
<1>2. CASE \E r \in Record : log' = Append(log, r)
  BY <1>1, <1>2, AppendProperties
<1> QED
  BY <1>1, <1>2

LEMMA DeliverAppends ==
  ASSUME NEW o \in Orders, Deliver(o)
  PROVE  \E r \in Record : log' = Append(log, r)
<1>1. PICK b \in BOOLEAN : log' = Append(log, [order |-> o, retries |-> 0, readable |-> b])
  BY DEF Deliver
<1>2. [order |-> o, retries |-> 0, readable |-> b] \in Record
  BY DEF Record
<1> QED
  BY <1>1, <1>2

LEMMA FaultCounted ==
  ASSUME TypeOK, UNCHANGED spent \/ \E k \in FaultKinds : Fault(k)
  PROVE  faults' \in 0..MaxFaults /\ evictions' \in 0..MaxEvictions
  BY DEF TypeOK, Fault, spent

LEMMA InitIInv == Init => IInv
<1> SUFFICES ASSUME Init PROVE IInv
  OBVIOUS
<1>1. TypeOK
  BY DEF Init, TypeOK, InTx, Services, Record
<1>2. GotInv
  BY DEF Init, GotInv, GotOf
<1>3. HoldInv
  <2> SUFFICES ASSUME NEW s \in Services, NEW o \in Orders PROVE HoldOf(s, o)
    BY DEF HoldInv
  <2>1. Holders(s, o) = {}
    BY DEF Init, Holders
  <2>2. Cardinality(Holders(s, o)) = 0
    BY <2>1, FS_EmptySet
  <2>3. held[s][o] = 0 /\ confirmed[o] = 0
    BY DEF Init
  <2> QED
    BY <2>2, <2>3 DEF HoldOf
<1> QED
  BY <1>1, <1>2, <1>3 DEF IInv

LEMMA DeliverKeeps ==
  ASSUME IInv, NEW o \in Orders, Deliver(o)
  PROVE  IInv'
<1>1. PICK r \in Record : log' = Append(log, r)
  BY DeliverAppends
<1>2. TypeOK'
  <2>1. /\ log' \in Seq(Record) /\ Len(log') = Len(log) + 1 /\ Len(log) \in Nat
        /\ 1..Len(log) \subseteq 1..Len(log') /\ 0..Len(log) \subseteq 0..Len(log')
    BY <1>1 DEF IInv, TypeOK
  <2>2. chan' \in [Workers -> Seq(1..Len(log'))]
    BY <2>1 DEF IInv, TypeOK, Deliver, input
  <2> QED
    BY <2>1, <2>2 DEF IInv, TypeOK, Deliver, group, outcome, order, remote, input, saga, spent
<1>3. \A v \in Workers : pc[v] # "idle" => OrderOf(v)' = OrderOf(v)
  BY <1>1, SameOrder DEF IInv, Deliver, input
<1>4. DoubtGrows
  BY DEF Deliver, remote, DoubtGrows
<1>5. GotInv'
  BY <1>3, <1>4, GotKept DEF IInv, GotInv, Deliver, saga
<1>6. HoldersStay
  BY <1>3 DEF IInv, GotInv, GotOf, HoldersStay, Deliver, saga
<1>7. HoldInv'
  BY <1>4, <1>6, Unheld DEF Deliver, order, remote
<1> QED
  BY <1>2, <1>5, <1>7 DEF IInv

(* The record a worker takes is one of the log, and it takes it for itself. *)
LEMMA ReceiveTakes ==
  ASSUME TypeOK, NEW w \in Workers, Receive(w), UNCHANGED log
  PROVE  /\ Waiting(w) \in 1..Len(log)
         /\ at' \in [Workers -> 0..Len(log)] /\ at'[w] = Waiting(w)
         /\ chan' \in [Workers -> Seq(1..Len(log))] /\ next' \in [Workers -> 0..Len(log)]
         /\ \A v \in Workers : v # w => /\ at'[v] = at[v] /\ chan'[v] = chan[v]
                                        /\ next'[v] = next[v]
<1>1. /\ chan[w] \in Seq(1..Len(log)) /\ next[w] \in 0..Len(log) /\ Len(log) \in Nat
      /\ at' = [at EXCEPT ![w] = Waiting(w)]
  BY DEF TypeOK, Receive
<1>2. /\ Waiting(w) \in 1..Len(log)
      /\ chan' \in [Workers -> Seq(1..Len(log))] /\ next' \in [Workers -> 0..Len(log)]
      /\ \A v \in Workers : v # w => chan'[v] = chan[v] /\ next'[v] = next[v]
  <2>1. CASE chan[w] # <<>>
    <3>1. Head(chan[w]) \in 1..Len(log) /\ Tail(chan[w]) \in Seq(1..Len(log))
      BY <1>1, <2>1, HeadTailProperties
    <3>2. chan' = [chan EXCEPT ![w] = Tail(chan[w])] /\ next' = next
      BY <2>1 DEF Receive
    <3>3. Waiting(w) = Head(chan[w])
      BY <2>1 DEF Waiting
    <3> QED
      BY <3>1, <3>2, <3>3 DEF TypeOK
  <2>2. CASE chan[w] = <<>>
    <3>1. /\ next[w] < Len(log) /\ next' = [next EXCEPT ![w] = next[w] + 1]
          /\ chan' = chan
      BY <2>2 DEF Receive
    <3>2. Waiting(w) = next[w] + 1
      BY <2>2 DEF Waiting
    <3> QED
      BY <1>1, <3>1, <3>2 DEF TypeOK
  <2> QED
    BY <2>1, <2>2
<1>3. at'[w] = Waiting(w) /\ \A v \in Workers : v # w => at'[v] = at[v]
  BY <1>1 DEF TypeOK
<1>4. at' \in [Workers -> 0..Len(log)]
  <2>1. Waiting(w) \in 0..Len(log)
    BY <1>1, <1>2
  <2> QED
    BY <1>1, <2>1 DEF TypeOK
<1> QED
  BY <1>2, <1>3, <1>4

LEMMA BeginKeeps ==
  ASSUME IInv, NEW w \in Workers, Begin(w)
  PROVE  IInv'
<1>1. /\ UNCHANGED <<log, pending, got, held, suspect, confirmed, owner, committed>>
      /\ pc[w] = "idle"
  BY DEF Begin, group, order, remote
<1>2. /\ Waiting(w) \in 1..Len(log)
      /\ at' \in [Workers -> 0..Len(log)] /\ at'[w] = Waiting(w)
      /\ chan' \in [Workers -> Seq(1..Len(log))] /\ next' \in [Workers -> 0..Len(log)]
      /\ \A v \in Workers : v # w => at'[v] = at[v]
  BY <1>1, ReceiveTakes DEF IInv, Begin
<1>3. \E l \in {"payment", "commit", "handover"} : pc' = [pc EXCEPT ![w] = l]
  BY DEF Begin, Goto
<1>4. TypeOK'
  <2>1. \E e \in {"none", "other", "malformed"} : err' = [err EXCEPT ![w] = e]
    BY DEF Begin
  <2>2. faults' \in 0..MaxFaults /\ evictions' \in 0..MaxEvictions
    <3>1. UNCHANGED spent \/ \E k \in FaultKinds : Fault(k)
      BY DEF Begin, FaultOrCancelled, Fault
    <3> QED
      BY <3>1, FaultCounted DEF IInv
  <2>3. \A v \in Workers : pc'[v] # "idle" => at'[v] > 0
    BY <1>2, <1>3 DEF IInv, TypeOK
  <2>4. err' \in [Workers -> {"none", "open", "other", "malformed"}]
    BY <2>1 DEF IInv, TypeOK
  <2>5. pc' \in [Workers -> InTx \cup {"idle", "handover"}]
    BY <1>3 DEF IInv, TypeOK, InTx
  <2>6. UNCHANGED <<processed, retried, dead, dropped, status, confirmed, cancelled>>
    BY DEF Begin, group, outcome, order
  <2> QED
    BY <1>1, <1>2, <2>2, <2>3, <2>4, <2>5, <2>6 DEF IInv, TypeOK
<1>5. \A v \in Workers : v # w => OrderOf(v)' = OrderOf(v)
  BY <1>1, <1>2 DEF OrderOf
<1>6. got[w] = {} /\ DoubtGrows
  BY <1>1 DEF IInv, GotInv, GotOf, DoubtGrows
<1>7. GotInv'
  <2>1. GotOf(w)'
    BY <1>1, <1>3, <1>6 DEF IInv, TypeOK, GotOf
  <2>2. ASSUME NEW v \in Workers, v # w PROVE GotOf(v)'
    BY <1>1, <1>3, <1>5, <1>6, <2>2, GotKept DEF IInv, TypeOK, GotInv
  <2> QED
    BY <2>1, <2>2 DEF GotInv
<1>8. HoldersStay
  BY <1>1, <1>5, <1>6 DEF HoldersStay
<1> QED
  BY <1>1, <1>4, <1>6, <1>7, <1>8, Unheld DEF IInv


LEMMA ReserveKeeps ==
  ASSUME IInv, NEW w \in Workers, NEW s \in Services, Reserve(w, s)
  PROVE  IInv'
<1>0. OrderOf(w) \in Orders
  BY InLog DEF IInv, Reserve, Services
<1> PICK o \in Orders : o = OrderOf(w)
  BY <1>0
<1>1. /\ UNCHANGED <<log, committed, owner, processed, retried, dead, dropped,
                      status, confirmed, at, chan, next, pending, cancelled>>
      /\ pc[w] = s
  BY DEF Reserve, group, outcome, order, input
<1>2. \A v \in Workers : OrderOf(v)' = OrderOf(v)
  BY <1>1 DEF OrderOf
<1>3. s \notin got[w]
  BY <1>1 DEF IInv, GotInv, GotOf, Services
<1>4. DoubtGrows /\ suspect' \in [Services -> SUBSET Orders]
  <2>1. UNCHANGED suspect \/ Doubt(w, {s})
    BY DEF Reserve
  <2> QED
    BY <1>0, <2>1, DoubtIsMore DEF IInv
<1>5. TypeOK'
  <2>1. /\ pc' \in [Workers -> InTx \cup {"idle", "handover"}]
        /\ \A v \in Workers : pc'[v] # "idle" => at'[v] > 0
    <3>1. \E l \in InTx \cup {"handover"} : pc' = [pc EXCEPT ![w] = l]
      BY DEF Reserve, FailAt, Goto, NextStep, Verdict, InTx, Services
    <3> QED
      BY <1>1, <3>1 DEF IInv, TypeOK, Services
  <2>2. err' \in [Workers -> {"none", "open", "other", "malformed"}]
    <3>1. \E e \in {err[w], "open", "other"} : err' = [err EXCEPT ![w] = e]
      BY DEF IInv, TypeOK, Reserve, FailAt
    <3> QED
      BY <3>1 DEF IInv, TypeOK
  <2>3. faults' \in 0..MaxFaults /\ evictions' \in 0..MaxEvictions
    <3>1. UNCHANGED spent \/ \E k \in FaultKinds : Fault(k)
      BY DEF Reserve, FaultOrCancelled, Fault
    <3> QED
      BY <3>1, FaultCounted DEF IInv
  <2>4. held' \in [Services -> [Orders -> Nat]]
    <3>1. held' = held \/ held' = [held EXCEPT ![s][OrderOf(w)] = @ + 1]
      BY DEF Reserve, Reserved
    <3>2. held \in [Services -> [Orders -> Nat]]
      BY DEF IInv, TypeOK
    <3> QED
      BY <1>0, <3>1, <3>2
  <2>5. got' \in [Workers -> SUBSET Services]
    <3>1. got' = got \/ got' = [got EXCEPT ![w] = got[w] \cup {s}]
      BY DEF Reserve
    <3>2. got \in [Workers -> SUBSET Services] /\ got[w] \cup {s} \in SUBSET Services
      BY DEF IInv, TypeOK
    <3> QED
      BY <3>1, <3>2
  <2> QED
    BY <1>1, <1>4, <2>1, <2>2, <2>3, <2>4, <2>5 DEF IInv, TypeOK
<1>6. GotInv'
  <2>1. GotOf(w)'
    <3>1. CASE got' = [got EXCEPT ![w] = @ \cup {s}] /\ Goto(w, NextStep(s))
      <4>1. got'[w] = got[w] \cup {s} /\ pc'[w] = NextStep(s)
        BY <3>1 DEF IInv, TypeOK, Goto
      <4>2. CASE s = "payment"
        BY <1>1, <4>1, <4>2 DEF IInv, GotInv, GotOf, NextStep
      <4>3. CASE s = "warehouse"
        <5>1. OrderOf(w) \notin suspect["payment"] => "payment" \in got[w]
          BY <1>1, <4>3 DEF IInv, GotInv, GotOf
        <5>2. OrderOf(w)' \notin suspect'["payment"] => OrderOf(w) \notin suspect["payment"]
          BY <1>2, <1>4 DEF DoubtGrows, Services
        <5> QED
          BY <4>1, <4>3, <5>1, <5>2 DEF GotOf, NextStep, Services
      <4> QED
        BY <4>2, <4>3 DEF Services
    <3>2. CASE got' = got /\ o \in suspect'[s] /\ Goto(w, NextStep(s))
      <4>1. got'[w] = got[w] /\ pc'[w] = NextStep(s) /\ OrderOf(w)' \in suspect'[s]
        BY <1>2, <3>2 DEF IInv, TypeOK, Goto
      <4>2. CASE s = "payment"
        BY <1>1, <4>1, <4>2 DEF IInv, GotInv, GotOf, NextStep
      <4>3. CASE s = "warehouse"
        <5>1. OrderOf(w) \notin suspect["payment"] => "payment" \in got[w]
          BY <1>1, <4>3 DEF IInv, GotInv, GotOf
        <5>2. OrderOf(w)' \notin suspect'["payment"] => OrderOf(w) \notin suspect["payment"]
          BY <1>2, <1>4 DEF DoubtGrows, Services
        <5> QED
          BY <4>1, <4>3, <5>1, <5>2 DEF GotOf, NextStep, Services
      <4> QED
        BY <4>2, <4>3 DEF Services
    <3>3. CASE got' = got /\ \E e \in {"open", "other"} : FailAt(w, s, e)
      BY <1>1, <1>2, <3>3, ZenonT(60) DEF IInv, TypeOK, GotInv, GotOf, FailAt, Goto, Verdict, Services
    <3>4. Doubt(w, {s}) => o \in suspect'[s]
      BY DEF Doubt
    <3> QED
      BY <1>2, <3>1, <3>2, <3>3, <3>4 DEF Reserve
  <2>2. ASSUME NEW v \in Workers, v # w PROVE GotOf(v)'
    BY <1>2, <1>4, <2>2, GotKept DEF IInv, TypeOK, GotInv, Reserve, FailAt, Goto
  <2> QED
    BY <2>1, <2>2 DEF GotInv
<1>7. HoldInv'
  <2> SUFFICES ASSUME NEW t \in Services, NEW p \in Orders PROVE HoldOf(t, p)'
    BY DEF HoldInv
  <2> HoldOf(t, p)
    BY DEF IInv, HoldInv
  <2>1. CASE got' = [got EXCEPT ![w] = @ \cup {s}] /\ Reserved(w, s)
    <3>1. CASE t = s /\ p = o
      <4>1. w \notin Holders(s, o) /\ Holders(s, o)' = Holders(s, o) \cup {w}
        BY <1>2, <1>3, <2>1 DEF IInv, TypeOK, Holders
      <4>2. Cardinality(Holders(s, o))' = Cardinality(Holders(s, o)) + 1
        BY <4>1, HolderJoins
      <4>3. Cardinality(Holders(s, o)) \in Nat
        BY HoldersFinite
      <4>4. /\ held[s][o] \in Nat /\ held'[s][o] = held[s][o] + 1
            /\ confirmed[o] \in Nat
        BY <1>2, <2>1 DEF IInv, TypeOK, Reserved
      <4> QED
        BY <1>1, <1>4, <3>1, <4>2, <4>3, <4>4 DEF HoldOf, DoubtGrows
    <3>2. CASE ~(t = s /\ p = o)
      <4>1. Holders(t, p)' = Holders(t, p)
        BY <1>2, <2>1, <3>2 DEF IInv, TypeOK, Holders
      <4>2. held'[t][p] = held[t][p]
        BY <1>2, <2>1, <3>2 DEF IInv, TypeOK, Reserved
      <4> QED
        BY <1>1, <1>4, <4>1, <4>2, HoldStays
    <3> QED
      BY <3>1, <3>2
  <2>2. CASE got' = got /\ Reserved(w, s) /\ o \in suspect'[s]
    <3>1. Holders(t, p)' = Holders(t, p)
      BY <1>2, <2>2 DEF Holders
    <3>2. /\ held[t][p] \in Nat /\ held'[t][p] \in Nat /\ held'[t][p] >= held[t][p]
          /\ ~(t = s /\ p = o) => held'[t][p] = held[t][p]
      BY <1>2, <2>2 DEF IInv, TypeOK, Reserved
    <3>3. CASE t = s /\ p = o
      BY <2>2, <3>1, <3>2, <3>3, HoldSpare
    <3>4. CASE ~(t = s /\ p = o)
      BY <1>1, <1>4, <3>1, <3>2, <3>4, HoldStays
    <3> QED
      BY <3>3, <3>4
  <2>3. CASE got' = got /\ held' = held
    <3>1. Holders(t, p)' = Holders(t, p)
      BY <1>2, <2>3 DEF Holders
    <3> QED
      BY <1>1, <1>4, <2>3, <3>1, HoldStays
  <2>4. Doubt(w, {s}) => o \in suspect'[s]
    BY DEF Doubt
  <2> QED
    BY <2>1, <2>2, <2>3, <2>4, <1>2 DEF Reserve
<1> QED
  BY <1>1, <1>5, <1>6, <1>7 DEF IInv


LEMMA ConfirmKeeps ==
  ASSUME IInv, NEW w \in Workers, Confirm(w)
  PROVE  IInv'
<1>0. OrderOf(w) \in Orders
  BY InLog DEF IInv, Confirm
<1> PICK o \in Orders : o = OrderOf(w)
  BY <1>0
<1>1. /\ UNCHANGED <<log, committed, owner, processed, retried, dead, dropped,
                      held, at, chan, next, pending, cancelled>>
      /\ pc[w] = "confirm"
  BY DEF Confirm, group, outcome, input
<1>2. \A v \in Workers : OrderOf(v)' = OrderOf(v)
  BY <1>1 DEF OrderOf
<1>3. DoubtGrows /\ suspect' \in [Services -> SUBSET Orders]
  <2>1. UNCHANGED suspect \/ Doubt(w, Services)
    BY DEF Confirm
  <2> QED
    BY <1>0, <2>1, DoubtIsMore DEF IInv
<1>4. /\ confirmed' \in [Orders -> Nat] /\ status' \in [Orders -> {"PENDING", "CONFIRMED"}]
      /\ \A p \in Orders : p # o => confirmed'[p] = confirmed[p]
  <2>1. CASE Confirmed(w)
    BY <2>1 DEF IInv, TypeOK, Confirmed
  <2>2. CASE UNCHANGED order
    BY <2>2 DEF IInv, TypeOK, order
  <2> QED
    BY <2>1, <2>2 DEF Confirm
<1>5. got'[w] \in {{}, got[w]} /\ \A v \in Workers : v # w => got'[v] = got[v]
  BY DEF IInv, TypeOK, Confirm
<1>6. TypeOK'
  <2>1. /\ pc' \in [Workers -> InTx \cup {"idle", "handover"}]
        /\ \A v \in Workers : pc'[v] # "idle" => at'[v] > 0
    <3>1. \E l \in InTx : pc' = [pc EXCEPT ![w] = l]
      BY DEF Confirm, FailAt, Goto, InTx
    <3> QED
      BY <1>1, <3>1 DEF IInv, TypeOK
  <2>2. err' \in [Workers -> {"none", "open", "other", "malformed"}]
    BY DEF IInv, TypeOK, Confirm, FailAt
  <2>3. faults' \in 0..MaxFaults /\ evictions' \in 0..MaxEvictions
    <3>1. UNCHANGED spent \/ \E k \in FaultKinds : Fault(k)
      BY DEF Confirm, FaultOrCancelled, Fault
    <3> QED
      BY <3>1, FaultCounted DEF IInv
  <2>4. got' \in [Workers -> SUBSET Services]
    BY DEF IInv, TypeOK, Confirm
  <2> QED
    BY <1>1, <1>3, <1>4, <2>1, <2>2, <2>3, <2>4 DEF IInv, TypeOK
<1>7. GotInv'
  <2>1. GotOf(w)'
    <3>1. CASE got' = [got EXCEPT ![w] = {}] /\ Goto(w, "commit")
      BY <3>1 DEF IInv, TypeOK, GotOf, Goto
    <3>2. CASE FailAt(w, "confirm", "other")
      BY <3>2 DEF IInv, TypeOK, GotOf, FailAt, Goto
    <3> QED
      BY <3>1, <3>2 DEF Confirm
  <2>2. ASSUME NEW v \in Workers, v # w PROVE GotOf(v)'
    BY <1>2, <1>3, <1>5, <2>2, GotKept DEF IInv, TypeOK, GotInv, Confirm, FailAt, Goto
  <2> QED
    BY <2>1, <2>2 DEF GotInv
<1>8. HoldInv'
  <2> SUFFICES ASSUME NEW t \in Services, NEW p \in Orders PROVE HoldOf(t, p)'
    BY DEF HoldInv
  <2> HoldOf(t, p)
    BY DEF IInv, HoldInv
  <2>1. CASE p # o
    <3>1. Holders(t, p)' = Holders(t, p)
      BY <1>2, <1>5, <2>1 DEF Holders
    <3> QED
      BY <1>1, <1>3, <1>4, <2>1, <3>1, HoldStays
  <2>2. CASE p = o /\ o \in suspect'[t]
    <3>1. Holders(t, p)' \subseteq Holders(t, p)
      BY <1>2, <1>5 DEF Holders
    <3>2. held[t][p] \in Nat /\ held'[t][p] = held[t][p]
      BY <1>1 DEF IInv, TypeOK
    <3> QED
      BY <2>2, <3>1, <3>2, HoldSpare
  <2>3. CASE p = o /\ o \notin suspect'[t] /\ got' = [got EXCEPT ![w] = {}] /\ Confirmed(w)
    <3>1. t \in got[w] /\ o \notin suspect[t]
      BY <1>1, <1>3, <2>3 DEF IInv, GotInv, GotOf, DoubtGrows
    <3>2. w \in Holders(t, o) /\ Holders(t, o)' = Holders(t, o) \ {w}
      BY <1>2, <2>3, <3>1 DEF IInv, TypeOK, Holders
    <3>3. Cardinality(Holders(t, o))' = Cardinality(Holders(t, o)) - 1
      BY <3>2, HolderLeaves
    <3>4. Cardinality(Holders(t, o)) \in Nat
      BY HoldersFinite
    <3>5. confirmed[o] \in Nat /\ confirmed'[o] = confirmed[o] + 1
      BY <2>3 DEF IInv, TypeOK, Confirmed
    <3> QED
      BY <1>1, <2>3, <3>1, <3>3, <3>4, <3>5 DEF HoldOf
  <2>4. CASE got' = got /\ UNCHANGED <<order, suspect>>
    <3>1. Holders(t, p)' = Holders(t, p)
      BY <1>2, <2>4 DEF Holders
    <3>2. held'[t][p] = held[t][p] /\ confirmed'[p] = confirmed[p] /\ DoubtGrows
      BY <1>1, <1>3, <2>4 DEF order
    <3> QED
      BY <3>1, <3>2, HoldStays
  <2>5. Doubt(w, Services) => o \in suspect'[t]
    BY DEF Doubt
  <2> QED
    BY <1>2, <2>1, <2>2, <2>3, <2>4, <2>5 DEF Confirm
<1> QED
  BY <1>1, <1>6, <1>7, <1>8 DEF IInv

LEMMA UndoKeeps ==
  ASSUME IInv, NEW w \in Workers, NEW s \in Services, Undo(w, s)
  PROVE  IInv'
<1>0. OrderOf(w) \in Orders
  BY InLog DEF IInv, Undo, UndoOf
<1> PICK o \in Orders : o = OrderOf(w)
  BY <1>0
<1>1. /\ UNCHANGED <<log, committed, owner, processed, retried, dead, dropped, status,
                      confirmed, at, chan, next, pending, err, cancelled, faults, evictions>>
      /\ pc[w] = UndoOf(s) /\ pc[w] # "idle"
  BY DEF Undo, UndoOf, group, outcome, order, input, spent
<1>2. \A v \in Workers : OrderOf(v)' = OrderOf(v)
  BY <1>1 DEF OrderOf
<1>3. DoubtGrows /\ suspect' \in [Services -> SUBSET Orders]
  <2>1. UNCHANGED suspect \/ Doubt(w, {s})
    BY DEF Undo, remote
  <2> QED
    BY <1>0, <2>1, DoubtIsMore DEF IInv
<1>4. /\ got' = [got EXCEPT ![w] = @ \ {s}]
      /\ pc' = [pc EXCEPT ![w] = IF s = "warehouse" THEN "undo payment" ELSE Verdict(err[w])]
  BY DEF Undo, AfterUndo, Goto
<1>5. s \in got[w] => w \in Holders(s, o) /\ held[s][o] > 0
  <2> SUFFICES ASSUME s \in got[w] PROVE w \in Holders(s, o) /\ held[s][o] > 0
    OBVIOUS
  <2>1. w \in Holders(s, o)
    BY DEF Holders
  <2>2. Cardinality(Holders(s, o)) > 0
    BY <2>1, HoldersFinite, FS_EmptySet
  <2>3. held[s][o] \in Nat /\ held[s][o] >= Cardinality(Holders(s, o))
    BY DEF IInv, TypeOK, HoldInv, HoldOf
  <2>4. Cardinality(Holders(s, o)) \in Nat
    BY HoldersFinite
  <2> QED
    BY <2>1, <2>2, <2>3, <2>4
<1>6. \/ held' = held
      \/ s \in got[w] /\ held' = [held EXCEPT ![s][o] = @ - 1]
  BY DEF Undo, remote
<1>7. TypeOK'
  <2>1. /\ pc' \in [Workers -> InTx \cup {"idle", "handover"}]
        /\ \A v \in Workers : pc'[v] # "idle" => at'[v] > 0
    BY <1>1, <1>4 DEF IInv, TypeOK, InTx, Verdict
  <2>2. held' \in [Services -> [Orders -> Nat]]
    <3>1. CASE s \in got[w] /\ held' = [held EXCEPT ![s][o] = @ - 1]
      <4>1. held[s][o] - 1 \in Nat
        BY <1>5, <3>1 DEF IInv, TypeOK
      <4> QED
        BY <3>1, <4>1 DEF IInv, TypeOK
    <3> QED
      BY <1>6, <3>1 DEF IInv, TypeOK
  <2>3. got' \in [Workers -> SUBSET Services]
    BY <1>4 DEF IInv, TypeOK
  <2> QED
    BY <1>1, <1>3, <2>1, <2>2, <2>3 DEF IInv, TypeOK
<1>8. GotInv'
  <2>1. GotOf(w)'
    <3>1. got'[w] = got[w] \ {s} /\ got[w] \subseteq Services
      BY <1>4 DEF IInv, TypeOK
    <3>2. CASE s = "warehouse"
      BY <1>4, <3>1, <3>2 DEF IInv, TypeOK, GotOf, Services
    <3>3. CASE s = "payment"
      <4>1. got[w] \subseteq {"payment"} /\ pc'[w] \in {"commit", "handover"}
        BY <1>1, <1>4, <3>3 DEF IInv, TypeOK, GotInv, GotOf, UndoOf, Verdict
      <4> QED
        BY <3>1, <3>3, <4>1 DEF GotOf
    <3> QED
      BY <3>2, <3>3 DEF Services
  <2>2. ASSUME NEW v \in Workers, v # w PROVE GotOf(v)'
    BY <1>2, <1>3, <1>4, <2>2, GotKept DEF IInv, TypeOK, GotInv
  <2> QED
    BY <2>1, <2>2 DEF GotInv
<1>9. HoldInv'
  <2> SUFFICES ASSUME NEW t \in Services, NEW p \in Orders PROVE HoldOf(t, p)'
    BY DEF HoldInv
  <2> HoldOf(t, p)
    BY DEF IInv, HoldInv
  <2>1. CASE t # s \/ p # o \/ s \notin got[w]
    <3>1. Holders(t, p)' = Holders(t, p)
      BY <1>2, <1>4, <2>1 DEF IInv, TypeOK, Holders
    <3>2. held'[t][p] = held[t][p]
      BY <1>6, <2>1 DEF IInv, TypeOK
    <3> QED
      BY <1>1, <1>3, <3>1, <3>2, HoldStays
  <2>2. CASE t = s /\ p = o /\ s \in got[w]
    <3>1. w \in Holders(s, o) /\ Holders(s, o)' = Holders(s, o) \ {w}
      <4>1. got'[w] = got[w] \ {s} /\ \A v \in Workers : v # w => got'[v] = got[v]
        BY <1>4 DEF IInv, TypeOK
      <4> QED
        BY <1>2, <1>5, <2>2, <4>1 DEF Holders
    <3>2. CASE held' = held /\ o \in suspect'[s]
      <4>1. held[s][o] \in Nat /\ held'[s][o] = held[s][o]
        BY <3>2 DEF IInv, TypeOK
      <4> QED
        BY <2>2, <3>1, <3>2, <4>1, HoldSpare
    <3>3. CASE held' = [held EXCEPT ![s][o] = @ - 1]
      <4>1. Cardinality(Holders(s, o))' = Cardinality(Holders(s, o)) - 1
        BY <3>1, HolderLeaves
      <4>2. Cardinality(Holders(s, o)) \in Nat
        BY HoldersFinite
      <4>3. /\ held[s][o] \in Nat /\ held'[s][o] = held[s][o] - 1
            /\ confirmed[o] \in Nat
        BY <3>3 DEF IInv, TypeOK
      <4> QED
        BY <1>1, <1>3, <2>2, <4>1, <4>2, <4>3 DEF HoldOf, DoubtGrows
    <3>4. Doubt(w, {s}) => o \in suspect'[s]
      BY DEF Doubt
    <3> QED
      BY <1>2, <2>2, <3>2, <3>3, <3>4 DEF Undo
  <2> QED
    BY <2>1, <2>2
<1> QED
  BY <1>1, <1>7, <1>8, <1>9 DEF IInv


(* A worker that is done with a record reports it. *)
LEMMA DoneReports ==
  ASSUME TypeOK, NEW w \in Workers, pc[w] # "idle", Done(w)
  PROVE  /\ at' \in [Workers -> 0..Len(log)] /\ pending' \in [Workers -> 0..Len(log)]
         /\ \A v \in Workers : v # w => at'[v] = at[v] /\ pending'[v] = pending[v]
         /\ at'[w] = 0 /\ pending'[w] \in {at[w], pending[w]}
         /\ pc' = [pc EXCEPT ![w] = "idle"] /\ err' = [err EXCEPT ![w] = "none"]
<1>1. at[w] \in 0..Len(log) /\ pending[w] \in 0..Len(log) /\ Len(log) \in Nat
  BY DEF TypeOK
<1> QED
  BY <1>1 DEF TypeOK, Done, Goto

(* A worker that is done with a record has nothing reserved. *)
LEMMA CommitKeeps ==
  ASSUME IInv, NEW w \in Workers, Commit(w)
  PROVE  IInv'
<1>1. /\ UNCHANGED <<log, committed, owner, retried, dead, dropped, status,
                      confirmed, held, suspect, got, chan, next, cancelled>>
      /\ pc[w] = "commit"
  BY DEF Commit, group, order, remote
<1>2. at[w] \in 1..Len(log)
  BY <1>1, InLog DEF IInv
<1>3. /\ at' \in [Workers -> 0..Len(log)] /\ pending' \in [Workers -> 0..Len(log)]
      /\ \A v \in Workers : v # w => at'[v] = at[v] /\ pc'[v] = pc[v]
      /\ pc' \in [Workers -> InTx \cup {"idle", "handover"}]
      /\ \/ pc'[w] = "idle"
         \/ pc'[w] = "handover" /\ at'[w] = at[w]
      /\ err' \in [Workers -> {"none", "open", "other", "malformed"}]
  <2>1. CASE Done(w)
    <3>1. /\ at' \in [Workers -> 0..Len(log)] /\ pending' \in [Workers -> 0..Len(log)]
          /\ \A v \in Workers : v # w => at'[v] = at[v]
          /\ pc' = [pc EXCEPT ![w] = "idle"] /\ err' = [err EXCEPT ![w] = "none"]
      BY <1>1, <2>1, DoneReports DEF IInv
    <3> QED
      BY <3>1 DEF IInv, TypeOK
  <2>2. CASE /\ UNCHANGED <<at, pending>>
             /\ Goto(w, "handover") /\ err' = [err EXCEPT ![w] = "other"]
    BY <2>2 DEF IInv, TypeOK, Goto
  <2> QED
    BY <2>1, <2>2 DEF Commit
<1>4. TypeOK'
  <2>1. faults' \in 0..MaxFaults /\ evictions' \in 0..MaxEvictions
    <3>1. UNCHANGED spent \/ \E k \in FaultKinds : Fault(k)
      BY DEF Commit, FaultOrCancelled, Fault
    <3> QED
      BY <3>1, FaultCounted DEF IInv
  <2>2. processed' \subseteq 1..Len(log)
    BY <1>2 DEF IInv, TypeOK, Commit
  <2>3. \A v \in Workers : pc'[v] # "idle" => at'[v] > 0
    <3>1. pc'[w] # "idle" => at'[w] > 0
      BY <1>2, <1>3
    <3> QED
      BY <1>3, <3>1 DEF IInv, TypeOK
  <2> QED
    BY <1>1, <1>3, <2>1, <2>2, <2>3 DEF IInv, TypeOK
<1>5. \A v \in Workers : v # w => OrderOf(v)' = OrderOf(v)
  BY <1>1, <1>3 DEF OrderOf
<1>6. got[w] = {} /\ DoubtGrows
  BY <1>1 DEF IInv, GotInv, GotOf, DoubtGrows
<1>7. GotInv'
  <2>1. GotOf(w)'
    BY <1>1, <1>3, <1>6 DEF GotOf
  <2>2. ASSUME NEW v \in Workers, v # w PROVE GotOf(v)'
    BY <1>1, <1>3, <1>5, <1>6, <2>2, GotKept DEF IInv, GotInv
  <2> QED
    BY <2>1, <2>2 DEF GotInv
<1>8. HoldInv'
  BY <1>1, <1>5, <1>6, Unheld DEF HoldersStay
<1> QED
  BY <1>4, <1>7, <1>8 DEF IInv

(* What withPoisonPill stores in the partition is a record of the order. *)
LEMMA StoredGrows ==
  ASSUME TypeOK, NEW w \in Workers, pc[w] # "idle",
         Stored(w) \/ UNCHANGED <<log, retried, dead>>
  PROVE  /\ log' = log \/ \E r \in Record : log' = Append(log, r)
         /\ retried' \subseteq retried \cup {at[w]} /\ dead' \subseteq dead \cup {at[w]}
<1>1. log[at[w]] \in Record
  BY InLog
<1>2. CASE ~GivenUp(w) /\ RePublish(w) /\ UNCHANGED dead
  <2>1. [log[at[w]] EXCEPT !.retries = @ + 1] \in Record
    BY <1>1, <1>2 DEF Record, GivenUp
  <2> QED
    BY <1>2, <2>1 DEF RePublish
<1>3. CASE log' = log /\ (Stored(w) \/ UNCHANGED <<log, retried, dead>>)
  BY <1>3 DEF Stored, RePublish
<1> QED
  BY <1>2, <1>3 DEF Stored

LEMMA HandoverKeeps ==
  ASSUME IInv, NEW w \in Workers, Handover(w)
  PROVE  IInv'
<1>1. /\ UNCHANGED <<committed, owner, processed, status,
                      confirmed, held, suspect, got, chan, next, cancelled>>
      /\ pc[w] = "handover"
      /\ Stored(w) \/ UNCHANGED <<log, retried, dead>>
      /\ dropped' \subseteq dropped \cup {at[w]}
  BY DEF Handover, Dropped, group, order, remote
<1>2. at[w] \in 1..Len(log)
  BY <1>1, InLog DEF IInv
<1>3. /\ log' = log \/ \E r \in Record : log' = Append(log, r)
      /\ retried' \subseteq retried \cup {at[w]} /\ dead' \subseteq dead \cup {at[w]}
  BY <1>1, StoredGrows DEF IInv
<1>4. /\ log' \in Seq(Record) /\ Len(log) \in Nat /\ Len(log') \in Nat
      /\ Len(log') >= Len(log)
  <2>1. log \in Seq(Record) /\ Len(log) \in Nat
    BY DEF IInv, TypeOK
  <2> QED
    BY <1>3, <2>1
<1>5. /\ at' \in [Workers -> 0..Len(log)] /\ pending' \in [Workers -> 0..Len(log)]
      /\ \A v \in Workers : v # w => at'[v] = at[v]
      /\ pc' = [pc EXCEPT ![w] = "idle"] /\ err' = [err EXCEPT ![w] = "none"]
  BY <1>1, DoneReports DEF IInv, Handover
<1>6. TypeOK'
  <2>1. 1..Len(log) \subseteq 1..Len(log') /\ 0..Len(log) \subseteq 0..Len(log')
    BY <1>4
  <2>2. /\ at' \in [Workers -> 0..Len(log')] /\ pending' \in [Workers -> 0..Len(log')]
        /\ next' \in [Workers -> 0..Len(log')]
    BY <1>1, <1>5, <2>1 DEF IInv, TypeOK
  <2>3. chan' \in [Workers -> Seq(1..Len(log'))]
    <3>1. chan \in [Workers -> Seq(1..Len(log))]
      BY DEF IInv, TypeOK
    <3>2. ASSUME NEW v \in Workers PROVE chan[v] \in Seq(1..Len(log'))
      <4>1. chan[v] \in Seq(1..Len(log))
        BY <3>1
      <4> QED
        BY <2>1, <4>1, SeqMonotonic
    <3> QED
      BY <1>1, <3>1, <3>2
  <2>4. /\ pc' \in [Workers -> InTx \cup {"idle", "handover"}]
        /\ \A v \in Workers : pc'[v] # "idle" => at'[v] > 0
    BY <1>5 DEF IInv, TypeOK
  <2>5. err' \in [Workers -> {"none", "open", "other", "malformed"}]
    BY <1>5 DEF IInv, TypeOK
  <2>6. faults' \in 0..MaxFaults /\ evictions' \in 0..MaxEvictions
    <3>1. UNCHANGED spent \/ \E k \in FaultKinds : Fault(k)
      BY DEF Handover, FaultOrCancelled, Fault
    <3> QED
      BY <3>1, FaultCounted DEF IInv
  <2>7. /\ retried' \subseteq 1..Len(log') /\ dead' \subseteq 1..Len(log')
        /\ processed' \subseteq 1..Len(log') /\ dropped' \subseteq 1..Len(log')
        /\ committed' \in 0..Len(log')
    BY <1>1, <1>2, <1>3, <2>1 DEF IInv, TypeOK
  <2> QED
    BY <1>1, <1>4, <2>2, <2>3, <2>4, <2>5, <2>6, <2>7 DEF IInv, TypeOK
<1>7. \A v \in Workers : v # w /\ pc[v] # "idle" => OrderOf(v)' = OrderOf(v)
  BY <1>3, <1>5, SameOrder DEF IInv, TypeOK
<1>8. got[w] = {} /\ DoubtGrows
  BY <1>1 DEF IInv, GotInv, GotOf, DoubtGrows
<1>9. \A v \in Workers : v # w => pc'[v] = pc[v]
  BY <1>5 DEF IInv, TypeOK
<1>10. GotInv'
  <2>1. GotOf(w)'
    BY <1>1, <1>5, <1>8 DEF IInv, TypeOK, GotOf
  <2>2. ASSUME NEW v \in Workers, v # w PROVE GotOf(v)'
    BY <1>1, <1>7, <1>8, <1>9, <2>2, GotKept DEF IInv, GotInv
  <2> QED
    BY <2>1, <2>2 DEF GotInv
<1>11. HoldersStay
  BY <1>1, <1>7, <1>8 DEF IInv, GotInv, GotOf, HoldersStay
<1>12. HoldInv'
  BY <1>1, <1>8, <1>11, Unheld
<1> QED
  BY <1>6, <1>10, <1>12 DEF IInv


(* What the group does changes no saga: only idle workers are moved. *)
LEMMA GroupKeeps ==
  ASSUME IInv, TypeOK', UNCHANGED <<log, held, suspect, confirmed, pc, got>>,
         \A v \in Workers : pc[v] # "idle" => at'[v] = at[v]
  PROVE  IInv'
<1>1. \A v \in Workers : pc[v] # "idle" => OrderOf(v)' = OrderOf(v)
  BY DEF OrderOf
<1>2. DoubtGrows
  BY DEF DoubtGrows
<1>3. GotInv'
  BY <1>1, <1>2, GotKept DEF IInv, GotInv
<1>4. HoldersStay
  BY <1>1 DEF IInv, GotInv, GotOf, HoldersStay
<1>5. HoldInv'
  BY <1>2, <1>4, Unheld
<1> QED
  BY <1>3, <1>5 DEF IInv

LEMMA AssignKeeps ==
  ASSUME IInv, NEW w \in Workers, Assign(w)
  PROVE  IInv'
<1>1. TypeOK'
  BY DEF IInv, TypeOK, Assign, outcome, order, remote, saga, spent
<1>2. UNCHANGED <<log, held, suspect, confirmed, pc, got, at>>
  BY DEF Assign, order, remote, saga
<1> QED
  BY <1>1, <1>2, GroupKeeps

LEMMA CommitOffsetsKeeps ==
  ASSUME IInv, NEW w \in Workers, CommitOffsets(w)
  PROVE  IInv'
<1>1. committed' \in 0..Len(log)
  BY DEF IInv, TypeOK, CommitOffsets, Taken
<1>2. pending' \in [Workers -> 0..Len(log)]
  <2>1. pending \in [Workers -> 0..Len(log)] /\ Len(log) \in Nat
    BY DEF IInv, TypeOK
  <2> QED
    BY <2>1 DEF CommitOffsets
<1>3. TypeOK'
  BY <1>1, <1>2 DEF IInv, TypeOK, CommitOffsets, outcome, order, remote, input, saga, spent
<1>4. UNCHANGED <<log, held, suspect, confirmed, pc, got, at>>
  BY DEF CommitOffsets, order, remote, input, saga
<1> QED
  BY <1>3, <1>4, GroupKeeps

(* What was polled and not taken yet stays in the channel. *)
LEMMA CutOffTypeOK ==
  ASSUME TypeOK, NEW w \in Workers, CutOff(w)
  PROVE  chan' \in [Workers -> Seq(1..Len(log))] /\ next' \in [Workers -> 0..Len(log)]
<1>1. PICK n \in next[w]..Len(log) :
        chan' = [chan EXCEPT ![w] = @ \o [i \in 1..(n - next[w]) |-> next[w] + i]]
  BY DEF CutOff
<1> DEFINE rest == [i \in 1..(n - next[w]) |-> next[w] + i]
<1>2. next[w] \in Nat /\ n \in Nat /\ n - next[w] \in Nat /\ n <= Len(log) /\ Len(log) \in Nat
  BY DEF TypeOK
<1>3. rest \in Seq(1..Len(log))
  <2>1. \A i \in 1..(n - next[w]) : next[w] + i \in 1..Len(log)
    BY <1>2
  <2> QED
    BY <1>2, <2>1
<1>4. chan[w] \o rest \in Seq(1..Len(log))
  BY <1>3, ConcatProperties DEF TypeOK
<1>5. chan' = [chan EXCEPT ![w] = chan[w] \o rest]
  BY <1>1
<1> HIDE DEF rest
<1>6. chan' \in [Workers -> Seq(1..Len(log))]
  BY <1>4, <1>5 DEF TypeOK
<1>7. next' \in [Workers -> 0..Len(log)]
  <2>1. 0 \in 0..Len(log)
    BY <1>2
  <2> QED
    BY <2>1 DEF TypeOK, CutOff
<1> QED
  BY <1>6, <1>7

LEMMA EvictKeeps ==
  ASSUME IInv, NEW w \in Workers, Evict(w)
  PROVE  IInv'
<1>1. chan' \in [Workers -> Seq(1..Len(log))] /\ next' \in [Workers -> 0..Len(log)]
  BY CutOffTypeOK DEF IInv, Evict
<1>2. TypeOK'
  BY <1>1 DEF IInv, TypeOK, Evict, outcome, order, remote, saga
<1>3. UNCHANGED <<log, held, suspect, confirmed, pc, got, at>>
  BY DEF Evict, order, remote, saga
<1> QED
  BY <1>2, <1>3, GroupKeeps

LEMMA CancelKeeps ==
  ASSUME IInv, NEW w \in Workers, Cancel(w)
  PROVE  IInv'
<1>1. chan' \in [Workers -> Seq(1..Len(log))] /\ next' \in [Workers -> 0..Len(log)]
  BY CutOffTypeOK DEF IInv, Cancel
<1>2. faults' \in 0..MaxFaults /\ evictions' = evictions
  BY DEF IInv, TypeOK, Cancel, Fault
<1>3. TypeOK'
  BY <1>1, <1>2 DEF IInv, TypeOK, Cancel, outcome, order, remote, saga
<1>4. UNCHANGED <<log, held, suspect, confirmed, pc, got, at>>
  BY DEF Cancel, order, remote, saga
<1> QED
  BY <1>3, <1>4, GroupKeeps

LEMMA ForgetTypeOK ==
  ASSUME TypeOK, NEW w \in Workers, Forget(w)
  PROVE  /\ at' \in [Workers -> 0..Len(log)] /\ next' \in [Workers -> 0..Len(log)]
         /\ pending' \in [Workers -> 0..Len(log)]
         /\ chan' \in [Workers -> Seq(1..Len(log))]
         /\ at'[w] = 0 /\ next'[w] = 0 /\ pending'[w] = 0 /\ chan'[w] = <<>>
         /\ \A v \in Workers : v # w => /\ at'[v] = at[v] /\ pending'[v] = pending[v]
                                        /\ chan'[v] = chan[v] /\ next'[v] = next[v]
<1>1. Len(log) \in Nat /\ <<>> \in Seq(1..Len(log))
  BY DEF TypeOK
<1> QED
  BY <1>1 DEF TypeOK, Forget

LEMMA ShutdownKeeps ==
  ASSUME IInv, NEW w \in Workers, Shutdown(w)
  PROVE  IInv'
<1>1. committed' \in 0..Len(log) /\ owner' \in Workers \cup {Nobody}
  BY DEF IInv, TypeOK, Shutdown, Taken
<1>2. /\ at' \in [Workers -> 0..Len(log)] /\ next' \in [Workers -> 0..Len(log)]
      /\ pending' \in [Workers -> 0..Len(log)] /\ chan' \in [Workers -> Seq(1..Len(log))]
      /\ \A v \in Workers : v # w => at'[v] = at[v]
  BY ForgetTypeOK DEF IInv, Shutdown
<1>3. UNCHANGED <<log, held, suspect, confirmed, pc, got>> /\ pc[w] = "idle"
  BY DEF Shutdown, order, remote, saga
<1>4. TypeOK'
  BY <1>1, <1>2, <1>3 DEF IInv, TypeOK, Shutdown, outcome, order, remote, saga, spent
<1> QED
  BY <1>2, <1>3, <1>4, GroupKeeps

LEMMA CrashKeeps ==
  ASSUME IInv, NEW w \in Workers, Crash(w)
  PROVE  IInv'
<1>1. /\ UNCHANGED <<log, committed, processed, retried, dead, dropped, status, confirmed, held>>
      /\ pc' = [pc EXCEPT ![w] = "idle"] /\ got' = [got EXCEPT ![w] = {}]
  BY DEF Crash, Goto, outcome, order
<1>2. /\ at' \in [Workers -> 0..Len(log)] /\ next' \in [Workers -> 0..Len(log)]
      /\ pending' \in [Workers -> 0..Len(log)] /\ chan' \in [Workers -> Seq(1..Len(log))]
      /\ \A v \in Workers : v # w => at'[v] = at[v]
  BY ForgetTypeOK DEF IInv, Crash
<1>3. \A v \in Workers : v # w => /\ pc'[v] = pc[v] /\ got'[v] = got[v]
                                  /\ OrderOf(v)' = OrderOf(v)
  BY <1>1, <1>2 DEF IInv, TypeOK, OrderOf
<1>4. pc'[w] = "idle" /\ got'[w] = {}
  BY <1>1 DEF IInv, TypeOK
<1>5. /\ DoubtGrows /\ suspect' \in [Services -> SUBSET Orders]
      /\ \A s \in got[w] : OrderOf(w) \in suspect'[s]
  <2>1. got[w] # {} => OrderOf(w) \in Orders
    BY InLog DEF IInv, GotInv, GotOf
  <2>2. DoubtGrows /\ suspect' \in [Services -> SUBSET Orders]
    BY <2>1, DoubtIsMore DEF IInv, Crash
  <2>3. got[w] \subseteq Services
    BY DEF IInv, TypeOK
  <2> QED
    BY <2>2, <2>3 DEF Crash, Doubt
<1>6. TypeOK'
  <2>1. /\ err' \in [Workers -> {"none", "open", "other", "malformed"}]
        /\ cancelled' \in [Workers -> BOOLEAN]
        /\ got' \in [Workers -> SUBSET Services]
        /\ pc' \in [Workers -> InTx \cup {"idle", "handover"}]
        /\ owner' \in Workers \cup {Nobody}
    BY DEF IInv, TypeOK, Crash, Goto
  <2>2. faults' \in 0..MaxFaults /\ evictions' = evictions
    BY DEF IInv, TypeOK, Crash, Fault
  <2>3. \A v \in Workers : pc'[v] # "idle" => at'[v] > 0
    BY <1>2, <1>3, <1>4 DEF IInv, TypeOK
  <2> QED
    BY <1>1, <1>2, <1>5, <2>1, <2>2, <2>3 DEF IInv, TypeOK
<1>7. GotInv'
  <2>1. GotOf(w)'
    BY <1>4 DEF GotOf
  <2>2. ASSUME NEW v \in Workers, v # w PROVE GotOf(v)'
    BY <1>3, <1>5, <2>2, GotKept DEF IInv, GotInv
  <2> QED
    BY <2>1, <2>2 DEF GotInv
<1>8. HoldInv'
  <2> SUFFICES ASSUME NEW t \in Services, NEW p \in Orders PROVE HoldOf(t, p)'
    BY DEF HoldInv
  <2> HoldOf(t, p)
    BY DEF IInv, HoldInv
  <2>1. Holders(t, p)' \subseteq Holders(t, p)
    BY <1>3, <1>4 DEF Holders
  <2>2. held[t][p] \in Nat /\ held'[t][p] = held[t][p] /\ confirmed'[p] = confirmed[p]
    BY <1>1 DEF IInv, TypeOK
  <2>3. CASE p \in suspect'[t]
    BY <2>1, <2>2, <2>3, HoldSpare
  <2>4. CASE p \notin suspect'[t]
    <3>1. Holders(t, p)' = Holders(t, p)
      BY <1>3, <1>4, <1>5, <2>4 DEF Holders
    <3> QED
      BY <1>5, <2>2, <3>1, HoldStays
  <2> QED
    BY <2>3, <2>4
<1> QED
  BY <1>6, <1>7, <1>8 DEF IInv


LEMMA StepIInv == IInv /\ [Next]_vars => IInv'
<1> SUFFICES ASSUME IInv, [Next]_vars PROVE IInv'
  OBVIOUS
<1>1. ASSUME NEW o \in Orders, Deliver(o) PROVE IInv'
  BY <1>1, DeliverKeeps
<1>2. ASSUME NEW w \in Workers, WorkerStep(w) PROVE IInv'
  BY <1>2, BeginKeeps, ConfirmKeeps, CommitKeeps, HandoverKeeps, ReserveKeeps, UndoKeeps
  DEF WorkerStep
<1>3. ASSUME NEW w \in Workers, GroupStep(w) PROVE IInv'
  BY <1>3, AssignKeeps, CommitOffsetsKeeps, ShutdownKeeps DEF GroupStep
<1>4. ASSUME NEW w \in Workers, Evict(w) \/ Cancel(w) \/ Crash(w) PROVE IInv'
  BY <1>4, EvictKeeps, CancelKeeps, CrashKeeps
<1>5. CASE UNCHANGED vars
  <2>1. TypeOK'
    BY <1>5 DEF IInv, TypeOK, vars, group, outcome, order, remote, input, saga, spent
  <2>2. UNCHANGED <<log, held, suspect, confirmed, pc, got, at>>
    BY <1>5 DEF vars, order, remote, input, saga
  <2> QED
    BY <2>1, <2>2, GroupKeeps
<1> QED
  BY <1>1, <1>2, <1>3, <1>4, <1>5 DEF Next

LEMMA AlwaysIInv == Spec => []IInv
  BY InitIInv, StepIInv, PTL DEF Spec

-----------------------------------------------------------------------------
(* Retry counts stay within the limit, compensation never cancels a         *)
(* reservation that is not there, and every offset is one of the log.       *)
THEOREM TypeCorrect == Spec => []TypeOK
<1>1. IInv => TypeOK
  BY DEF IInv
<1> QED
  BY <1>1, AlwaysIInv, PTL

(* The services hold exactly the reservations of the confirmations, for     *)
(* every order that no saga is running for and every service where nothing  *)
(* of it is in doubt.                                                       *)
THEOREM ReservationsMatch == Spec => []ReservationsBalanced
<1>1. IInv => ReservationsBalanced
  <2> SUFFICES ASSUME IInv, NEW s \in Services, NEW o \in Orders \ suspect[s], ~Busy(o)
               PROVE  held[s][o] = confirmed[o]
    BY DEF ReservationsBalanced
  <2>1. Holders(s, o) = {}
    BY DEF IInv, GotInv, GotOf, Busy, Holders
  <2>2. held[s][o] = Cardinality(Holders(s, o)) + confirmed[o] /\ confirmed[o] \in Nat
    BY DEF IInv, TypeOK, HoldInv, HoldOf
  <2> QED
    BY <2>1, <2>2, FS_EmptySet
<1> QED
  BY <1>1, AlwaysIInv, PTL

-----------------------------------------------------------------------------
(* Records come to a worker in such an order that all below the one it      *)
(* takes are finished: those it read after an older position too, since it  *)
(* read them behind the others and its library starts at the committed      *)
(* offset.                                                                  *)
Finished == processed \cup retried \cup dead \cup dropped

Through(n) == \A i \in 1..n : i \in Finished

(* The worker will have come past j before it takes place k of its channel. *)
Before(w, j, k) ==
  j \in Finished \/ j = at[w] \/ \E l \in 1..(k - 1) : chan[w][l] = j

InputOf(w) ==
  /\ pc[w] = "idle" => at[w] = 0
  /\ at[w] > 0 => Through(at[w] - 1)
  /\ \A k \in 1..Len(chan[w]) : \A j \in 1..(chan[w][k] - 1) : Before(w, j, k)
  /\ \A j \in 1..next[w] : Before(w, j, Len(chan[w]) + 1)

DoneInv ==
  /\ Through(committed)
  /\ \A w \in Workers : Through(pending[w]) /\ InputOf(w)

(* A worker that does not move does not mind what becomes of records.       *)
LEMMA InputKept ==
  ASSUME NEW w \in Workers, InputOf(w), Finished \subseteq Finished',
         at'[w] = at[w], chan'[w] = chan[w], next'[w] = next[w],
         pc'[w] = "idle" => pc[w] = "idle"
  PROVE  InputOf(w)'
BY DEF InputOf, Through, Before

(* A step that moves nobody but puts records into the account. *)
LEMMA DoneKept ==
  ASSUME DoneInv, UNCHANGED <<committed, at, chan, next, pending>>,
         Finished \subseteq Finished',
         \A w \in Workers : pc'[w] = "idle" => pc[w] = "idle"
  PROVE  DoneInv'
<1>1. \A w \in Workers : InputOf(w)'
  BY InputKept DEF DoneInv
<1> QED
  BY <1>1 DEF DoneInv, Through

(* The worker takes its next record, all before it being finished.          *)
LEMMA ReceiveInput ==
  ASSUME IInv, DoneInv, NEW w \in Workers, pc[w] = "idle", Receive(w), pc'[w] # "idle",
         UNCHANGED log, Finished' = Finished
  PROVE  InputOf(w)'
<1>1. /\ at[w] = 0 /\ at'[w] = Waiting(w) /\ at'[w] \in Nat /\ next[w] \in Nat
      /\ chan[w] \in Seq(Nat)
  <2>2. /\ at[w] = 0 /\ at'[w] = Waiting(w) /\ at \in [Workers -> 0..Len(log)]
        /\ next[w] \in 0..Len(log) /\ Len(log) \in Nat /\ chan[w] \in Seq(1..Len(log))
    BY DEF IInv, TypeOK, DoneInv, InputOf, Receive
  <2>3. Waiting(w) \in 1..Len(log)
    BY ReceiveTakes DEF IInv
  <2>4. chan[w] \in Seq(Nat)
    BY <2>2, SeqMonotonic
  <2> QED
    BY <2>2, <2>3, <2>4
<1>2. CASE chan[w] # <<>>
  <2>1. /\ at'[w] = chan[w][1] /\ chan'[w] = Tail(chan[w]) /\ next'[w] = next[w]
        /\ Len(chan[w]) \in Nat \ {0} /\ Len(chan'[w]) = Len(chan[w]) - 1
        /\ \A k \in 1..Len(chan'[w]) : chan'[w][k] = chan[w][k + 1]
    <3>1. /\ at'[w] = Head(chan[w]) /\ chan' = [chan EXCEPT ![w] = Tail(chan[w])]
          /\ next' = next
      BY <1>1, <1>2 DEF Receive, Waiting
    <3>2. chan'[w] = Tail(chan[w])
      BY <3>1 DEF IInv, TypeOK
    <3>3. Len(chan[w]) \in Nat \ {0} /\ Head(chan[w]) = chan[w][1]
      BY <1>1, <1>2, EmptySeq
    <3>4. /\ Len(Tail(chan[w])) = Len(chan[w]) - 1
          /\ \A k \in 1..Len(Tail(chan[w])) : Tail(chan[w])[k] = chan[w][k + 1]
      BY <1>1, <1>2, HeadTailProperties
    <3> QED
      BY <3>1, <3>2, <3>3, <3>4
  <2>2. Through(at[w] - 1)'
    <3>1. \A j \in 1..(chan[w][1] - 1) : Before(w, j, 1)
      BY <2>1 DEF DoneInv, InputOf
    <3>2. \A j \in 1..(chan[w][1] - 1) : j \in Finished
      BY <1>1, <3>1 DEF Before
    <3>3. \A j \in 1..(at'[w] - 1) : j \in Finished'
      BY <2>1, <3>2
    <3> QED
      BY <3>3 DEF Through
  <2>3. ASSUME NEW k \in 1..Len(chan[w]), NEW j \in Nat \ {0}, Before(w, j, k + 1)
        PROVE  Before(w, j, k)'
    <3>1. CASE j \in Finished \/ j = at[w]
      BY <1>1, <3>1 DEF Before
    <3>2. CASE \E l \in 1..k : chan[w][l] = j
      <4>1. PICK l \in 1..k : chan[w][l] = j
        BY <3>2
      <4>2. CASE l = 1
        BY <2>1, <4>1, <4>2 DEF Before
      <4>3. CASE l # 1
        <5>1. l - 1 \in 1..(k - 1) /\ l - 1 \in 1..Len(chan'[w]) /\ (l - 1) + 1 = l
          BY <2>1, <4>1, <4>3
        <5>2. chan'[w][l - 1] = j
          BY <2>1, <4>1, <5>1
        <5> QED
          BY <5>1, <5>2 DEF Before
      <4> QED
        BY <4>2, <4>3
    <3> QED
      BY <2>3, <3>1, <3>2 DEF Before
  <2>4. \A k \in 1..Len(chan'[w]) : \A j \in 1..(chan'[w][k] - 1) : Before(w, j, k)'
    <3> SUFFICES ASSUME NEW k \in 1..Len(chan'[w]), NEW j \in 1..(chan'[w][k] - 1)
                 PROVE  Before(w, j, k)'
      OBVIOUS
    <3>1. k \in 1..Len(chan[w]) /\ k + 1 \in 1..Len(chan[w]) /\ j \in Nat \ {0}
      BY <2>1
    <3>2. j \in 1..(chan[w][k + 1] - 1)
      BY <2>1
    <3>3. Before(w, j, k + 1)
      BY <3>1, <3>2 DEF DoneInv, InputOf
    <3> QED
      BY <2>3, <3>1, <3>3
  <2>5. (\A j \in 1..next[w] : Before(w, j, Len(chan[w]) + 1))'
    <3> SUFFICES ASSUME NEW j \in 1..next'[w] PROVE Before(w, j, Len(chan[w]) + 1)'
      OBVIOUS
    <3> PICK k \in 1..Len(chan[w]) : k = Len(chan[w])
      BY <2>1
    <3>1. j \in Nat \ {0} /\ Len(chan'[w]) + 1 = k
      BY <1>1, <2>1
    <3>2. Before(w, j, k + 1)
      BY <2>1 DEF DoneInv, InputOf
    <3>3. j \in Finished' \/ j = at'[w] \/ \E l \in 1..(k - 1) : chan'[w][l] = j
      BY <2>3, <3>1, <3>2 DEF Before
    <3> QED
      BY <3>1, <3>3 DEF Before
  <2> QED
    BY <2>2, <2>4, <2>5 DEF InputOf
<1>3. CASE chan[w] = <<>>
  <2>1. /\ at'[w] = next[w] + 1 /\ chan'[w] = <<>> /\ next'[w] = next[w] + 1
        /\ Len(chan[w]) = 0
    BY <1>1, <1>3 DEF Receive, Waiting, IInv, TypeOK
  <2>2. Through(next[w])
    BY <1>1, <2>1 DEF DoneInv, InputOf, Before, Through
  <2> QED
    BY <1>1, <2>1, <2>2 DEF InputOf, Before, Through
<1> QED
  BY <1>2, <1>3

LEMMA BeginDone ==
  ASSUME IInv, DoneInv, NEW w \in Workers, Begin(w)
  PROVE  DoneInv'
<1>1. /\ UNCHANGED <<log, committed, pending>> /\ Finished' = Finished
      /\ pc[w] = "idle" /\ Receive(w)
  BY DEF Begin, group, outcome, Finished
<1>2. pc'[w] # "idle" /\ \A v \in Workers : v # w => pc'[v] = pc[v]
  BY DEF Begin, Goto, IInv, TypeOK
<1>3. InputOf(w)'
  BY <1>1, <1>2, ReceiveInput
<1>4. ASSUME NEW v \in Workers, v # w PROVE InputOf(v)'
  <2>1. at'[v] = at[v] /\ chan'[v] = chan[v] /\ next'[v] = next[v]
    BY <1>1, <1>4 DEF Receive, IInv, TypeOK
  <2>2. InputOf(v)
    BY DEF DoneInv
  <2> QED
    BY <1>1, <1>2, <1>4, <2>1, <2>2, InputKept
<1> QED
  BY <1>1, <1>3, <1>4 DEF DoneInv, Through

(* The worker has put its record into the account, and reports it.          *)
LEMMA DoneDone ==
  ASSUME IInv, DoneInv, NEW w \in Workers, Done(w), UNCHANGED <<committed, chan, next>>,
         at[w] > 0, Finished \subseteq Finished', at[w] \in Finished'
  PROVE  DoneInv'
<1>1. /\ at'[w] = 0 /\ pending'[w] \in {at[w], pending[w]} /\ pc'[w] = "idle"
      /\ \A v \in Workers : v # w => /\ at'[v] = at[v] /\ pending'[v] = pending[v]
                                      /\ pc'[v] = pc[v]
      /\ at[w] \in Nat
  BY DEF Done, Goto, IInv, TypeOK
<1>2. \A i \in 1..at[w] : i \in Finished'
  <2>1. Through(at[w] - 1)
    BY DEF DoneInv, InputOf
  <2> QED
    BY <1>1, <2>1 DEF Through
<1>3. ASSUME NEW v \in Workers PROVE Through(pending[v])'
  <2>1. pending'[v] = pending[v] \/ pending'[v] = at[w]
    BY <1>1
  <2> QED
    BY <1>2, <2>1 DEF DoneInv, Through
<1>4. InputOf(w)'
  <2>1. InputOf(w)
    BY DEF DoneInv
  <2> QED
    BY <1>1, <2>1 DEF InputOf, Before
<1>5. ASSUME NEW v \in Workers, v # w PROVE InputOf(v)'
  <2>1. InputOf(v)
    BY DEF DoneInv
  <2> QED
    BY <1>1, <1>5, <2>1, InputKept
<1> QED
  BY <1>3, <1>4, <1>5 DEF DoneInv, Through

LEMMA CommitDone ==
  ASSUME IInv, DoneInv, NEW w \in Workers, Commit(w)
  PROVE  DoneInv'
<1>1. /\ UNCHANGED <<committed, chan, next, retried, dead, dropped>>
      /\ processed \subseteq processed' /\ at[w] > 0
  BY DEF Commit, group, IInv, TypeOK
<1>2. Finished \subseteq Finished'
  BY <1>1 DEF Finished
<1>3. CASE Done(w) /\ processed' = processed \cup {at[w]}
  <2>1. at[w] \in Finished'
    BY <1>3 DEF Finished
  <2> QED
    BY <1>1, <1>2, <1>3, <2>1, DoneDone
<1>4. CASE Goto(w, "handover") /\ UNCHANGED <<at, pending>>
  <2>1. \A v \in Workers : pc'[v] = "idle" => pc[v] = "idle"
    BY <1>4 DEF Goto, IInv, TypeOK
  <2> QED
    BY <1>1, <1>2, <1>4, <2>1, DoneKept
<1> QED
  BY <1>3, <1>4 DEF Commit

LEMMA HandoverDone ==
  ASSUME IInv, DoneInv, NEW w \in Workers, Handover(w)
  PROVE  DoneInv'
<1>1. UNCHANGED <<committed, chan, next, processed>> /\ Done(w) /\ at[w] > 0
  BY DEF Handover, group, IInv, TypeOK
<1>2. Finished \subseteq Finished' /\ at[w] \in Finished'
  <2>1. CASE Stored(w)
    <3>1. retried \subseteq retried' /\ dead \subseteq dead' /\ at[w] \in retried' \cup dead'
      BY <2>1 DEF Stored, RePublish
    <3>2. dropped \subseteq dropped'
      BY DEF Handover, Dropped
    <3> QED
      BY <1>1, <3>1, <3>2 DEF Finished
  <2>2. CASE UNCHANGED <<retried, dead>> /\ Dropped(w)
    BY <1>1, <2>2 DEF Finished, Dropped
  <2> QED
    BY <2>1, <2>2 DEF Handover
<1> QED
  BY <1>1, <1>2, DoneDone

(* The worker that is cut off keeps in its channel all that it had taken.   *)
LEMMA CutOffInput ==
  ASSUME IInv, DoneInv, NEW w \in Workers, CutOff(w), UNCHANGED <<at, pc>>,
         Finished' = Finished
  PROVE  \A v \in Workers : InputOf(v)'
<1>1. PICK n \in next[w]..Len(log) :
        chan' = [chan EXCEPT ![w] = @ \o [i \in 1..(n - next[w]) |-> next[w] + i]]
  BY DEF CutOff
<1> DEFINE rest == [i \in 1..(n - next[w]) |-> next[w] + i]
<1>0. PICK len \in Nat : len = Len(chan[w])
  BY DEF IInv, TypeOK
<1>2. /\ next[w] \in Nat /\ n \in Nat /\ n - next[w] \in Nat
      /\ chan[w] \in Seq(Nat) /\ at[w] \in Nat
  BY DEF IInv, TypeOK
<1>3. /\ rest \in Seq(Nat) /\ Len(rest) = n - next[w]
      /\ \A i \in 1..(n - next[w]) : rest[i] = next[w] + i
  <2>1. \A i \in 1..(n - next[w]) : next[w] + i \in Nat
    BY <1>2
  <2>2. rest \in [1..(n - next[w]) -> Nat]
    BY <2>1
  <2>3. rest \in Seq(Nat)
    BY <1>2, <2>1
  <2>4. Len(rest) = n - next[w]
    BY <1>2, <2>2, <2>3, LenProperties
  <2> QED
    BY <2>3, <2>4
<1> HIDE DEF rest
<1>4. /\ Len(chan'[w]) = len + (n - next[w])
      /\ \A l \in 1..len : chan'[w][l] = chan[w][l]
      /\ \A l \in (len + 1)..Len(chan'[w]) : chan'[w][l] = next[w] + (l - len)
  <2>1. chan'[w] = chan[w] \o rest
    BY <1>1 DEF IInv, TypeOK, rest
  <2>2. /\ Len(chan'[w]) = len + (n - next[w])
        /\ \A l \in 1..(len + (n - next[w])) :
             chan'[w][l] = IF l <= len THEN chan[w][l] ELSE rest[l - len]
    <3>1. /\ Len(chan[w] \o rest) = Len(chan[w]) + Len(rest)
          /\ \A l \in 1..(Len(chan[w]) + Len(rest)) :
               (chan[w] \o rest)[l] =
                 IF l <= Len(chan[w]) THEN chan[w][l] ELSE rest[l - Len(chan[w])]
      BY <1>2, <1>3, ConcatProperties
    <3>2. Len(rest) = n - next[w] /\ Len(chan[w]) = len
      BY <1>0, <1>3
    <3> QED
      BY <2>1, <3>1, <3>2
  <2>3. \A l \in 1..len : l \in 1..(len + (n - next[w])) /\ l <= len
    BY <1>2
  <2>4. \A l \in (len + 1)..Len(chan'[w]) :
          /\ l - len \in 1..(n - next[w]) /\ l \in 1..(len + (n - next[w])) /\ ~(l <= len)
    BY <1>2, <2>2
  <2>5. \A l \in 1..len : chan'[w][l] = chan[w][l]
    BY <2>2, <2>3
  <2>6. \A l \in (len + 1)..Len(chan'[w]) : chan'[w][l] = next[w] + (l - len)
    BY <1>3, <2>2, <2>4
  <2> QED
    BY <2>2, <2>5, <2>6
<1>5. next'[w] = 0
  BY DEF CutOff, IInv, TypeOK
<1>6. ASSUME NEW k \in 1..Len(chan'[w]), NEW j \in 1..(chan'[w][k] - 1)
      PROVE  Before(w, j, k)'
  <2>0. j \in Nat /\ k \in Nat \ {0} /\ Len(chan'[w]) \in Nat /\ len = Len(chan[w])
    <3>1. j \in Nat /\ k \in Nat \ {0}
      OBVIOUS
    <3>2. Len(chan'[w]) \in Nat
      BY <1>2, <1>4
    <3> QED
      BY <1>0, <3>1, <3>2
  <2>1. ASSUME NEW m \in Nat, m <= len + 1, m <= k, Before(w, j, m) PROVE Before(w, j, k)'
    <3>1. CASE j \in Finished \/ j = at[w]
      BY <3>1 DEF Before
    <3>2. CASE \E l \in 1..(m - 1) : chan[w][l] = j
      <4>1. PICK l \in 1..(m - 1) : chan[w][l] = j
        BY <3>2
      <4>2. l \in 1..len /\ l \in 1..(k - 1)
        BY <1>2, <2>0, <2>1, <4>1
      <4>3. chan'[w][l] = j
        BY <1>4, <4>1, <4>2
      <4> QED
        BY <4>2, <4>3 DEF Before
    <3> QED
      BY <2>1, <3>1, <3>2 DEF Before
  <2>2. CASE k <= len
    <3>1. k \in 1..len
      BY <1>2, <2>0, <2>2
    <3>2. chan'[w][k] = chan[w][k]
      BY <1>4, <3>1
    <3>3. k \in 1..Len(chan[w]) /\ j \in 1..(chan[w][k] - 1)
      BY <2>0, <3>1, <3>2
    <3>4. Before(w, j, k)
      BY <3>3 DEF DoneInv, InputOf
    <3> QED
      BY <1>2, <2>0, <2>1, <2>2, <3>4
  <2>3. CASE k > len
    <3>1. k \in (len + 1)..Len(chan'[w])
      BY <1>2, <1>4, <2>0, <2>3
    <3>2. chan'[w][k] = next[w] + (k - len)
      BY <1>4, <3>1
    <3>3. CASE j <= next[w]
      <4>1. j \in 1..next[w]
        BY <1>2, <2>0, <3>3
      <4>2. Before(w, j, len + 1)
        BY <2>0, <4>1 DEF DoneInv, InputOf
      <4> QED
        BY <1>2, <2>0, <2>1, <2>3, <4>2
    <3>4. CASE j > next[w]
      <4>1. j <= chan'[w][k] - 1 /\ k <= Len(chan'[w])
        OBVIOUS
      <4>2. PICK l \in 1..(k - 1) :
              l \in (len + 1)..Len(chan'[w]) /\ next[w] + (l - len) = j
        <5>1. PICK first \in Nat : first = next[w]
          BY <1>2
        <5>2. PICK m \in Nat : m = Len(chan'[w])
          BY <2>0
        <5>3. j > first /\ j <= (first + (k - len)) - 1 /\ k <= m
          BY <3>2, <3>4, <4>1, <5>1, <5>2
        <5>4. j \in Nat /\ k \in Nat
          BY <2>0
        <5>5. len + (j - first) \in 1..(k - 1) /\ len + (j - first) \in (len + 1)..m
          BY <5>3, <5>4
        <5>6. first + ((len + (j - first)) - len) = j
          BY <5>4
        <5> QED
          BY <5>1, <5>2, <5>5, <5>6
      <4>3. chan'[w][l] = j
        BY <1>4, <4>2
      <4> QED
        BY <4>2, <4>3 DEF Before
    <3> QED
      BY <1>2, <2>0, <3>3, <3>4
  <2> QED
    BY <1>2, <2>0, <2>2, <2>3
<1>7. InputOf(w)'
  <2>1. InputOf(w)
    BY DEF DoneInv
  <2> QED
    BY <1>5, <1>6, <2>1 DEF InputOf, Through
<1>8. ASSUME NEW v \in Workers, v # w PROVE InputOf(v)'
  <2>1. chan'[v] = chan[v] /\ next'[v] = next[v]
    BY <1>1, <1>8 DEF CutOff, IInv, TypeOK
  <2>2. InputOf(v)
    BY DEF DoneInv
  <2> QED
    BY <2>1, <2>2, InputKept
<1> QED
  BY <1>7, <1>8

LEMMA ForgetInput ==
  ASSUME IInv, DoneInv, NEW w \in Workers, Forget(w), Finished' = Finished,
         \A v \in Workers : v # w => pc'[v] = pc[v]
  PROVE  \A v \in Workers : InputOf(v)' /\ Through(pending[v])'
<1>1. /\ at'[w] = 0 /\ next'[w] = 0 /\ pending'[w] = 0 /\ chan'[w] = <<>>
      /\ \A v \in Workers : v # w => /\ at'[v] = at[v] /\ pending'[v] = pending[v]
                                      /\ chan'[v] = chan[v] /\ next'[v] = next[v]
  BY ForgetTypeOK DEF IInv
<1>2. InputOf(w)' /\ Through(pending[w])'
  BY <1>1 DEF InputOf, Through
<1>3. ASSUME NEW v \in Workers, v # w PROVE InputOf(v)' /\ Through(pending[v])'
  <2>1. InputOf(v) /\ Through(pending[v])
    BY DEF DoneInv
  <2> QED
    BY <1>1, <1>3, <2>1, InputKept DEF Through
<1> QED
  BY <1>2, <1>3

LEMMA StepDoneInv == IInv /\ DoneInv /\ [Next]_vars => DoneInv'
<1> SUFFICES ASSUME IInv, DoneInv, [Next]_vars PROVE DoneInv'
  OBVIOUS
<1>1. ASSUME NEW o \in Orders, Deliver(o) PROVE DoneInv'
  <2>1. UNCHANGED <<committed, at, chan, next, pending, pc>> /\ Finished' = Finished
    BY <1>1 DEF Deliver, group, input, outcome, Finished
  <2> QED
    BY <2>1, DoneKept
<1>2. ASSUME NEW w \in Workers, Begin(w) PROVE DoneInv'
  BY <1>2, BeginDone
<1>3. ASSUME NEW w \in Workers, Commit(w) PROVE DoneInv'
  BY <1>3, CommitDone
<1>4. ASSUME NEW w \in Workers, Handover(w) PROVE DoneInv'
  BY <1>4, HandoverDone
<1>5. ASSUME NEW w \in Workers, NEW s \in Services,
             Confirm(w) \/ Reserve(w, s) \/ Undo(w, s)
      PROVE  DoneInv'
  <2>1. UNCHANGED <<committed, at, chan, next, pending>> /\ Finished' = Finished
    BY <1>5 DEF Confirm, Reserve, Undo, group, input, outcome, Finished
  <2>2. \A v \in Workers : pc'[v] = "idle" => pc[v] = "idle"
    <3>1. \E l : Goto(w, l) /\ l # "idle"
      <4>1. CASE Confirm(w)
        BY <4>1 DEF Confirm, FailAt, Verdict, Goto
      <4>2. CASE Reserve(w, s)
        BY <4>2 DEF Reserve, FailAt, Verdict, Goto, NextStep, Services
      <4>3. CASE Undo(w, s)
        BY <4>3 DEF Undo, AfterUndo, Verdict, Goto
      <4> QED
        BY <1>5, <4>1, <4>2, <4>3
    <3> QED
      BY <3>1 DEF Goto, IInv, TypeOK
  <2> QED
    BY <2>1, <2>2, DoneKept
<1>6. ASSUME NEW w \in Workers, Assign(w) PROVE DoneInv'
  <2>1. /\ UNCHANGED <<committed, at, chan, pending, pc>> /\ Finished' = Finished
        /\ next'[w] = committed /\ \A v \in Workers : v # w => next'[v] = next[v]
    BY <1>6 DEF Assign, outcome, Finished, IInv, TypeOK
  <2>2. \A v \in Workers : InputOf(v)'
    BY <2>1 DEF DoneInv, InputOf, Through, Before
  <2> QED
    BY <2>1, <2>2 DEF DoneInv, Through
<1>7. ASSUME NEW w \in Workers, CommitOffsets(w) PROVE DoneInv'
  <2>1. /\ UNCHANGED <<at, chan, next, pc>> /\ Finished' = Finished
        /\ committed' \in {committed, pending[w]}
        /\ pending'[w] = 0 /\ \A v \in Workers : v # w => pending'[v] = pending[v]
    BY <1>7 DEF CommitOffsets, Taken, input, outcome, Finished, IInv, TypeOK
  <2>2. \A v \in Workers : InputOf(v)'
    BY <2>1, InputKept DEF DoneInv
  <2> QED
    BY <2>1, <2>2 DEF DoneInv, Through
<1>8. ASSUME NEW w \in Workers, Shutdown(w) PROVE DoneInv'
  <2>1. /\ UNCHANGED pc /\ Finished' = Finished /\ Forget(w)
        /\ committed' \in {committed, pending[w]}
    BY <1>8 DEF Shutdown, Taken, outcome, Finished
  <2>2. \A v \in Workers : InputOf(v)' /\ Through(pending[v])'
    BY <2>1, ForgetInput
  <2> QED
    BY <2>1, <2>2 DEF DoneInv, Through
<1>9. ASSUME NEW w \in Workers, Evict(w) \/ Cancel(w) PROVE DoneInv'
  <2>1. /\ UNCHANGED <<committed, at, pending, pc>> /\ Finished' = Finished /\ CutOff(w)
    BY <1>9 DEF Evict, Cancel, outcome, Finished
  <2>2. \A v \in Workers : InputOf(v)'
    BY <2>1, CutOffInput
  <2> QED
    BY <2>1, <2>2 DEF DoneInv, Through
<1>10. ASSUME NEW w \in Workers, Crash(w) PROVE DoneInv'
  <2>1. /\ UNCHANGED committed /\ Finished' = Finished /\ Forget(w)
        /\ \A v \in Workers : v # w => pc'[v] = pc[v]
    BY <1>10 DEF Crash, Goto, outcome, Finished, IInv, TypeOK
  <2>2. \A v \in Workers : InputOf(v)' /\ Through(pending[v])'
    BY <2>1, ForgetInput
  <2> QED
    BY <2>1, <2>2 DEF DoneInv, Through
<1>11. CASE UNCHANGED vars
  <2>1. UNCHANGED <<committed, at, chan, next, pending, pc>> /\ Finished' = Finished
    BY <1>11 DEF vars, group, input, outcome, Finished
  <2> QED
    BY <2>1, DoneKept
<1>12. Services # {}
  BY DEF Services
<1> QED
  BY <1>1, <1>2, <1>3, <1>4, <1>5, <1>6, <1>7, <1>8, <1>9, <1>10, <1>11, <1>12
  DEF Next, WorkerStep, GroupStep

LEMMA AlwaysDoneInv == Spec => [](IInv /\ DoneInv)
<1>1. Init => DoneInv
  BY DEF Init, DoneInv, InputOf, Through
<1> QED
  BY <1>1, InitIInv, StepIInv, StepDoneInv, PTL DEF Spec

(* No offset is committed over a record that no handler has finished,       *)
(* however often and to whom the partition goes, and whatever fails.        *)
THEOREM NothingSkipped == Spec => []NoneSkipped
<1>1. DoneInv => NoneSkipped
  BY DEF DoneInv, Through, Finished, NoneSkipped
<1> QED
  BY <1>1, AlwaysDoneInv, PTL

-----------------------------------------------------------------------------
(* What no publish and no stop can cause: the handler's error is dropped    *)
(* only for a record with an unreadable retry count.                        *)
DropInv ==
  /\ \A w \in Workers : ~cancelled[w]
  /\ \A i \in dropped : ~log[i].readable

LEMMA StepDropInv ==
  ASSUME FaultKinds \cap {"publish", "cancel"} = {}
  PROVE  IInv /\ DropInv /\ [Next]_vars => DropInv'
<1> SUFFICES ASSUME IInv, DropInv, [Next]_vars PROVE DropInv'
  OBVIOUS
<1>1. ASSUME cancelled' = cancelled \/ \E w \in Workers : cancelled' = [cancelled EXCEPT ![w] = FALSE],
             dropped' = dropped,
             log' = log \/ \E r \in Record : log' = Append(log, r)
      PROVE  DropInv'
  <2>1. \A w \in Workers : ~cancelled'[w]
    BY <1>1 DEF DropInv, IInv, TypeOK
  <2>2. \A i \in dropped : log'[i] = log[i]
    BY <1>1 DEF IInv, TypeOK
  <2> QED
    BY <1>1, <2>1, <2>2 DEF DropInv
<1>2. ASSUME NEW o \in Orders, Deliver(o) PROVE DropInv'
  <2>1. \E r \in Record : log' = Append(log, r)
    BY <1>2, DeliverAppends
  <2> QED
    BY <1>1, <1>2, <2>1 DEF Deliver, outcome
<1>3. ASSUME NEW w \in Workers, Handover(w) PROVE DropInv'
  <2>1. ~FaultOrCancelled(w, "publish")
    BY DEF FaultOrCancelled, Fault, DropInv
  <2>2. CASE ~log[at[w]].readable /\ Dropped(w) /\ UNCHANGED <<log, retried, dead>>
    BY <1>3, <2>2 DEF Handover, Dropped, DropInv
  <2>3. CASE Stored(w) /\ UNCHANGED dropped
    BY <1>1, <1>3, <2>3, StoredGrows DEF Handover, IInv
  <2> QED
    BY <1>3, <2>1, <2>2, <2>3 DEF Handover
<1>4. ASSUME NEW w \in Workers, Begin(w) \/ Confirm(w) \/ Commit(w) PROVE DropInv'
  <2>1. UNCHANGED <<cancelled, dropped, log>>
    BY <1>4 DEF Begin, Confirm, Commit, outcome
  <2> QED
    BY <1>1, <2>1
<1>5. ASSUME NEW w \in Workers, NEW s \in Services, Reserve(w, s) \/ Undo(w, s) PROVE DropInv'
  <2>1. UNCHANGED <<cancelled, dropped, log>>
    BY <1>5 DEF Reserve, Undo, outcome
  <2> QED
    BY <1>1, <2>1
<1>6. ASSUME NEW w \in Workers, GroupStep(w) \/ Evict(w) \/ Crash(w) PROVE DropInv'
  <2>1. /\ UNCHANGED <<dropped, log>>
        /\ cancelled' = cancelled \/ cancelled' = [cancelled EXCEPT ![w] = FALSE]
    BY <1>6 DEF GroupStep, Assign, CommitOffsets, Shutdown, Evict, Crash, outcome
  <2> QED
    BY <1>1, <2>1
<1>7. ASSUME NEW w \in Workers, Cancel(w) PROVE FALSE
  BY <1>7 DEF Cancel, Fault
<1>8. CASE UNCHANGED vars
  BY <1>1, <1>8 DEF vars, outcome
<1> QED
  BY <1>2, <1>3, <1>4, <1>5, <1>6, <1>7, <1>8 DEF Next, WorkerStep

LEMMA AlwaysDropInv ==
  ASSUME FaultKinds \cap {"publish", "cancel"} = {}
  PROVE  Spec => [](IInv /\ DoneInv /\ DropInv)
<1>1. Init => DropInv
  BY DEF Init, DropInv
<1> QED
  BY <1>1, StepDropInv, AlwaysDoneInv, PTL DEF Spec

(* As long as no publish fails and no instance is stopped, a record below   *)
(* the committed offset was processed, re-published or put into the DLQ,    *)
(* unless its retry count could not be read: the saga, the compensation and *)
(* the transaction may fail at any point.                                   *)
THEOREM NoneDropped ==
  ASSUME FaultKinds \cap {"publish", "cancel"} = {}
  PROVE  Spec => []CommittedAccounted
<1>1. DoneInv /\ DropInv => CommittedAccounted
  BY DEF DoneInv, DropInv, Through, Finished, CommittedAccounted
<1> QED
  BY <1>1, AlwaysDropInv, PTL

-----------------------------------------------------------------------------
(* Every order of the partition has a record that was not re-published: a   *)
(* record is given up for another of the same order, appended after it.     *)
LastInv ==
  \A o \in Orders : RecordsOf(o) # {} => \E i \in RecordsOf(o) : i \notin retried

(* A step that re-publishes nothing.                                        *)
LEMMA LastKept ==
  ASSUME TypeOK, LastInv, UNCHANGED retried,
         log' = log \/ \E r \in Record : log' = Append(log, r)
  PROVE  LastInv'
<1>1. /\ Len(log) \in Nat /\ retried \subseteq 1..Len(log)
      /\ \A i \in 1..Len(log) : log'[i] = log[i] /\ i \in 1..Len(log')
      /\ \A i \in 1..Len(log') : i \in 1..Len(log) \/ i \notin retried
  BY RecordsStay DEF TypeOK
<1> SUFFICES ASSUME NEW o \in Orders, NEW i \in RecordsOf(o)'
             PROVE  \E j \in RecordsOf(o)' : j \notin retried'
  BY DEF LastInv
<1>2. CASE i \in 1..Len(log)
  <2>1. i \in RecordsOf(o)
    BY <1>1, <1>2 DEF RecordsOf
  <2>2. PICK j \in RecordsOf(o) : j \notin retried
    BY <2>1 DEF LastInv
  <2>3. j \in RecordsOf(o)'
    BY <1>1 DEF RecordsOf
  <2> QED
    BY <2>2, <2>3
<1>3. CASE i \notin 1..Len(log)
  BY <1>1, <1>3 DEF RecordsOf
<1> QED
  BY <1>2, <1>3

LEMMA HandoverLast ==
  ASSUME TypeOK, LastInv, NEW w \in Workers, Handover(w)
  PROVE  LastInv'
<1>1. CASE UNCHANGED <<log, retried>>
  BY <1>1, LastKept
<1>2. CASE RePublish(w)
  <2>1. at[w] \in 1..Len(log) /\ log[at[w]] \in Record
    BY InLog DEF Handover
  <2> DEFINE n == Len(log) + 1
  <2>2. /\ n \in 1..Len(log') /\ n \notin retried'
        /\ log'[n].order = OrderOf(w)
        /\ \A i \in 1..Len(log) : log'[i] = log[i] /\ i \in 1..Len(log')
        /\ \A i \in 1..Len(log') : i = n \/ i \in 1..Len(log)
    <3>1. Len(log) \in Nat /\ log \in Seq(Record) /\ retried \subseteq 1..Len(log)
      BY DEF TypeOK
    <3>2. [log[at[w]] EXCEPT !.retries = @ + 1].order = OrderOf(w)
      BY <2>1 DEF OrderOf, Record
    <3> QED
      BY <1>2, <2>1, <3>1, <3>2 DEF RePublish
  <2> SUFFICES ASSUME NEW o \in Orders, NEW i \in RecordsOf(o)'
               PROVE  \E j \in RecordsOf(o)' : j \notin retried'
    BY DEF LastInv
  <2>3. CASE o = OrderOf(w)
    BY <2>2, <2>3 DEF RecordsOf
  <2>4. CASE o # OrderOf(w)
    <3>1. i \in RecordsOf(o)
      BY <2>2, <2>4 DEF RecordsOf
    <3>2. PICK j \in RecordsOf(o) : j \notin retried
      BY <3>1 DEF LastInv
    <3>3. j # at[w] /\ j \in RecordsOf(o)'
      BY <2>2, <2>4 DEF RecordsOf, OrderOf
    <3> QED
      BY <1>2, <3>2, <3>3 DEF RePublish
  <2> QED
    BY <2>3, <2>4
<1> QED
  BY <1>1, <1>2 DEF Handover, Stored

LEMMA StepLastInv == IInv /\ LastInv /\ [Next]_vars => LastInv'
<1> SUFFICES ASSUME IInv, LastInv, [Next]_vars PROVE LastInv'
  OBVIOUS
<1>0. TypeOK
  BY DEF IInv
<1>1. ASSUME NEW o \in Orders, Deliver(o) PROVE LastInv'
  <2>1. \E r \in Record : log' = Append(log, r)
    BY <1>1, DeliverAppends
  <2> QED
    BY <1>0, <1>1, <2>1, LastKept DEF Deliver, outcome
<1>2. ASSUME NEW w \in Workers, Handover(w) PROVE LastInv'
  BY <1>0, <1>2, HandoverLast
<1>3. ASSUME NEW w \in Workers, \/ Begin(w) \/ Confirm(w) \/ Commit(w)
                                \/ GroupStep(w) \/ Evict(w) \/ Cancel(w) \/ Crash(w)
      PROVE  LastInv'
  <2>1. UNCHANGED <<log, retried>>
    BY <1>3, ZenonT(60) DEF Begin, Confirm, Commit, GroupStep, Assign, CommitOffsets, Shutdown,
      Evict, Cancel, Crash, outcome
  <2> QED
    BY <1>0, <2>1, LastKept
<1>4. ASSUME NEW w \in Workers, NEW s \in Services, Reserve(w, s) \/ Undo(w, s) PROVE LastInv'
  <2>1. UNCHANGED <<log, retried>>
    BY <1>4 DEF Reserve, Undo, outcome
  <2> QED
    BY <1>0, <2>1, LastKept
<1>5. CASE UNCHANGED vars
  BY <1>0, <1>5, LastKept DEF vars, outcome
<1> QED
  BY <1>1, <1>2, <1>3, <1>4, <1>5 DEF Next, WorkerStep

(* The chain of records a command is re-published as never breaks: as long  *)
(* as no publish fails and no instance is stopped, an order that reached    *)
(* the partition was processed, is in the DLQ, or has a record to be read   *)
(* or one whose retry count cannot be read.                                 *)
THEOREM NoneForgotten ==
  ASSUME FaultKinds \cap {"publish", "cancel"} = {}
  PROVE  Spec => []NoOrderForgotten
<1>1. Init => LastInv
  BY DEF Init, LastInv, RecordsOf
<1>2. IInv /\ DoneInv /\ DropInv /\ LastInv => NoOrderForgotten
  <2> SUFFICES ASSUME IInv, DoneInv, DropInv, LastInv,
                      NEW o \in Orders, RecordsOf(o) # {}
               PROVE  \E i \in RecordsOf(o) :
                        i \in processed \cup dead \/ i > committed \/ ~log[i].readable
    BY DEF NoOrderForgotten
  <2>1. PICK i \in RecordsOf(o) : i \notin retried
    BY DEF LastInv
  <2>2. i \in 1..committed \/ i > committed
    BY DEF IInv, TypeOK, RecordsOf
  <2> QED
    BY <2>1, <2>2 DEF DoneInv, Through, Finished, DropInv
<1> QED
  BY <1>1, <1>2, StepLastInv, AlwaysDropInv, PTL DEF Spec

=============================================================================
