--------------------------- MODULE ConsumerProofs ---------------------------
(***************************************************************************)
(* Proofs about Consumer: its state stays well-formed, the poll goroutine  *)
(* never deadlocks with the workers, and the consumer implements           *)
(* CommitLog, all for any number of partitions, records and rebalances and *)
(* any capacity of the channels.                                           *)
(***************************************************************************)
EXTENDS Consumer, FiniteSetTheorems, TLAPS

(* What a worker has to report is a record's offset. *)
SendInv == \A p \in Partitions : worker[p] = "sending" => at[p] \in Offsets

(* The event in hand belongs to the place of the poll goroutine. *)
EventInv ==
  /\ pc \in {"poll", "closed"} => event = "none"
  /\ pc \in {"stopping", "closing"} => event # "message"
  /\ pc = "dispatch" => event = "message"
  /\ event = "message" => offset \in Offsets /\ \A p, q \in about : p = q

InHand(p) == IF worker[p] = "sending" THEN 1 ELSE 0

(* Since the drain that precedes dispatch nothing was dispatched: a worker *)
(* can have reported no more than its channel and its hands held then.     *)
FillInv ==
  pc = "dispatch" =>
    \A p \in Partitions : Len(sent[p]) + InHand(p) + Len(chan[p]) <= BufSize + 1

IInv == TypeOK /\ SendInv /\ EventInv /\ FillInv

-----------------------------------------------------------------------------
LEMMA InitIInv == Init => IInv
<1> SUFFICES ASSUME Init PROVE IInv
  OBVIOUS
<1>1. 0 \in 0..MaxOffset /\ 0 \in 0..MaxMoves /\ BufSize \in Nat /\ announced \in BOOLEAN
  BY ConsumerAssumption DEF ConsumerAssumption, Init
<1>2. /\ sent \in [Partitions -> Seq(1..MaxOffset)]
      /\ chan \in [Partitions -> Seq(Offsets)]
      /\ \A p \in Partitions : Len(chan[p]) <= BufSize
  BY <1>1 DEF Init
<1>3. TypeOK
  BY <1>1, <1>2 DEF Init, TypeOK, NoEntries
<1> QED
  BY <1>3 DEF Init, IInv, SendInv, EventInv, FillInv

(* Steps of the poll goroutine that leave the channels alone. *)
LEMMA PollIInv ==
  ASSUME IInv, PollNothing \/ PollUnannounced \/ PollRevoked \/ PollFatal \/ Shutdown
  PROVE  IInv'
<1>1. TypeOK'
  <2>1. CASE PollNothing \/ PollRevoked \/ PollFatal
    BY <2>1 DEF IInv, TypeOK, PollNothing, PollRevoked, PollFatal, group, log, workers
  <2>2. CASE PollUnannounced
    <3>1. 0 \in 0..MaxOffset
      BY ConsumerAssumption DEF ConsumerAssumption
    <3>2. next' \in [Partitions -> 0..MaxOffset]
      BY <2>2, <3>1 DEF IInv, TypeOK, PollUnannounced, GiveUp, Lose
    <3> QED
      BY <2>2, <3>2 DEF IInv, TypeOK, PollUnannounced, GiveUp, Lose, log, poller, workers
  <2>3. CASE Shutdown
    <3>1. open' \in [Partitions -> BOOLEAN]
      BY <2>3 DEF IInv, TypeOK, Shutdown, CloseChannels
    <3> QED
      BY <2>3, <3>1 DEF IInv, TypeOK, Shutdown, group, log
  <2> QED
    BY <2>1, <2>2, <2>3
<1>2. SendInv' /\ EventInv' /\ FillInv'
  BY DEF IInv, SendInv, EventInv, FillInv, InHand, PollNothing, PollUnannounced,
    PollRevoked, PollFatal, Shutdown, GiveUp, CloseChannels, log, poller, workers
<1> QED
  BY <1>1, <1>2 DEF IInv

LEMMA MessageIInv == ASSUME IInv, NEW p \in Partitions, PollMessage(p) PROVE IInv'
<1>1. next[p] \in Offsets /\ next[p] + 1 \in 0..MaxOffset
  BY ConsumerAssumption DEF ConsumerAssumption, IInv, TypeOK, PollMessage, Offsets
<1>2. TypeOK'
  BY <1>1 DEF IInv, TypeOK, PollMessage, log, workers
<1>3. SendInv' /\ EventInv' /\ FillInv'
  BY <1>1 DEF IInv, SendInv, EventInv, FillInv, PollMessage, workers
<1> QED
  BY <1>2, <1>3 DEF IInv

LEMMA HeadTail ==
  ASSUME NEW S, NEW s \in Seq(S), s # <<>>
  PROVE  Head(s) \in S /\ Tail(s) \in Seq(S)
OBVIOUS

LEMMA ReceiveIInv == ASSUME IInv, NEW p \in Partitions, Receive(p) PROVE IInv'
<1>1. /\ Head(sent[p]) \in 1..MaxOffset /\ Tail(sent[p]) \in Seq(1..MaxOffset)
      /\ Head(sent[p]) \in 0..MaxOffset
  <2>1. sent[p] \in Seq(1..MaxOffset) /\ sent[p] # <<>>
    BY DEF IInv, TypeOK, Receive
  <2>2. Head(sent[p]) \in 1..MaxOffset /\ Tail(sent[p]) \in Seq(1..MaxOffset)
    BY <2>1, HeadTail
  <2> QED
    BY <2>2
<1>2. TypeOK'
  BY <1>1 DEF IInv, TypeOK, Receive, group, log, poller, workers
<1>3. SendInv' /\ EventInv' /\ FillInv'
  BY DEF IInv, SendInv, EventInv, FillInv, Receive, poller, workers
<1> QED
  BY <1>2, <1>3 DEF IInv

(* What commitOffsets leaves behind. *)
LEMMA CommitTypes ==
  ASSUME TypeOK, CommitOffsets
  PROVE  /\ committed' \in [Partitions -> 0..MaxOffset]
         /\ pending' \in [Partitions -> 0..MaxOffset]
         /\ failed' \in BOOLEAN /\ UNCHANGED handled
<1>1. 0 \in 0..MaxOffset
  BY ConsumerAssumption DEF ConsumerAssumption
<1> QED
  BY <1>1 DEF TypeOK, CommitOffsets, NoEntries

LEMMA EndDrainIInv == ASSUME IInv, EndDrain PROVE IInv'
<1>1. 0 \in 0..MaxOffset
  BY ConsumerAssumption DEF ConsumerAssumption
<1>2. /\ owned' \subseteq Partitions /\ asked' \subseteq Partitions
      /\ about' \subseteq Partitions /\ offset' \in 0..MaxOffset
      /\ next' \in [Partitions -> 0..MaxOffset]
      /\ member' \in BOOLEAN /\ announced' \in BOOLEAN /\ moves' \in 0..MaxMoves
      /\ open' \in [Partitions -> BOOLEAN] /\ lent' \subseteq Partitions
  BY <1>1 DEF IInv, TypeOK, EndDrain, NextRound, GiveUp, Lose, CloseChannels, group
<1>3. /\ pc' \in {"poll", "dispatch", "stopping", "closing"}
      /\ event' \in {"none", "message", "revoked", "fatal"}
  BY DEF IInv, TypeOK, EndDrain, NextRound
<1>4. TypeOK'
  BY <1>2, <1>3, CommitTypes DEF IInv, TypeOK, EndDrain
<1>5. SendInv' /\ EventInv'
  BY DEF IInv, SendInv, EventInv, EndDrain, NextRound
<1>6. FillInv'
  <2> SUFFICES ASSUME NEW p \in Partitions
               PROVE  Len(sent'[p]) + InHand(p)' + Len(chan'[p]) <= BufSize + 1
    BY DEF FillInv
  <2>1. sent[p] = <<>> /\ UNCHANGED <<sent, worker, chan>>
    BY DEF EndDrain, Drained
  <2>2. Len(chan[p]) <= BufSize /\ Len(chan[p]) \in Nat /\ BufSize \in Nat
    BY ConsumerAssumption DEF ConsumerAssumption, IInv, TypeOK
  <2>3. Len(sent'[p]) = 0 /\ InHand(p)' \in {0, 1} /\ Len(chan'[p]) = Len(chan[p])
    BY <2>1 DEF InHand
  <2> QED
    BY <2>2, <2>3
<1> QED
  BY <1>4, <1>5, <1>6 DEF IInv

LEMMA DispatchIInv == ASSUME IInv, NEW p \in Partitions, Dispatch(p) PROVE IInv'
<1>1. offset \in Offsets /\ 0 \in 0..MaxOffset
  BY ConsumerAssumption DEF ConsumerAssumption, IInv, EventInv, Dispatch
<1>2. chan' \in [Partitions -> Seq(Offsets)]
  BY <1>1 DEF IInv, TypeOK, Dispatch
<1>3. ASSUME NEW q \in Partitions PROVE Len(chan'[q]) <= BufSize
  <2>1. CASE q = p
    <3>1. Len(chan'[q]) = Len(chan[p]) + 1
      BY <1>1, <2>1 DEF IInv, TypeOK, Dispatch
    <3>2. Len(chan[p]) \in Nat /\ BufSize \in Nat
      BY ConsumerAssumption DEF ConsumerAssumption, IInv, TypeOK
    <3> QED
      BY <3>1, <3>2 DEF Dispatch, Room
  <2>2. CASE q # p
    BY <2>2 DEF IInv, TypeOK, Dispatch
  <2> QED
    BY <2>1, <2>2
<1>4. /\ worker' \in [Partitions -> {"none", "idle", "sending"}]
      /\ open' \in [Partitions -> BOOLEAN]
  BY DEF IInv, TypeOK, Dispatch
<1>5. TypeOK'
  BY <1>1, <1>2, <1>3, <1>4 DEF IInv, TypeOK, Dispatch, NextRound, group, log
<1>6. SendInv' /\ EventInv' /\ FillInv'
  BY DEF IInv, TypeOK, SendInv, EventInv, FillInv, Dispatch, NextRound
<1> QED
  BY <1>5, <1>6 DEF IInv

LEMMA StoppedIInv == ASSUME IInv, Stopped \/ Close PROVE IInv'
<1>1. 0 \in 0..MaxOffset
  BY ConsumerAssumption DEF ConsumerAssumption
<1>2. /\ owned' \subseteq Partitions /\ asked' \subseteq Partitions
      /\ about' = {} /\ offset' = 0 /\ event' = "none" /\ pc' \in {"poll", "closed"}
      /\ next' \in [Partitions -> 0..MaxOffset]
      /\ member' \in BOOLEAN /\ announced' \in BOOLEAN /\ moves' \in 0..MaxMoves
      /\ lent' \subseteq Partitions
  BY <1>1 DEF IInv, TypeOK, Stopped, Close, NextRound, GiveUp, Lose
<1>3. CommitOffsets /\ UNCHANGED <<sent, worker, chan, open, at, cancelled>>
  BY DEF Stopped, Close, workers
<1>4. TypeOK'
  BY <1>1, <1>2, <1>3, CommitTypes DEF IInv, TypeOK
<1>5. SendInv' /\ EventInv' /\ FillInv'
  BY <1>2, <1>3 DEF IInv, SendInv, EventInv, FillInv
<1> QED
  BY <1>4, <1>5 DEF IInv

LEMMA HandleIInv == ASSUME IInv, NEW p \in Partitions, Handle(p) PROVE IInv'
<1>1. /\ Head(chan[p]) \in Offsets /\ Tail(chan[p]) \in Seq(Offsets)
      /\ Len(Tail(chan[p])) = Len(chan[p]) - 1 /\ Len(chan[p]) \in Nat
  BY DEF IInv, TypeOK, Handle
<1>2. Offsets \subseteq 0..MaxOffset
  BY ConsumerAssumption DEF ConsumerAssumption, Offsets
<1>3. BufSize \in Nat
  BY ConsumerAssumption DEF ConsumerAssumption
<1>4. ASSUME NEW q \in Partitions PROVE Len(chan'[q]) <= BufSize
  BY <1>1, <1>3 DEF IInv, TypeOK, Handle
<1>5. TypeOK'
  BY <1>1, <1>2, <1>4 DEF IInv, TypeOK, Handle, group, poller
<1>6. SendInv' /\ EventInv'
  BY <1>1 DEF IInv, TypeOK, SendInv, EventInv, Handle, poller
<1>7. FillInv'
  <2> SUFFICES ASSUME pc = "dispatch", NEW q \in Partitions
               PROVE  Len(sent'[q]) + InHand(q)' + Len(chan'[q]) <= BufSize + 1
    BY DEF FillInv, Handle, poller
  <2>1. Len(sent[q]) + InHand(q) + Len(chan[q]) <= BufSize + 1 /\ sent' = sent
    BY DEF IInv, FillInv, Handle
  <2>2. CASE q = p
    <3>1. /\ Len(chan'[q]) = Len(chan[q]) - 1 /\ Len(sent'[q]) = Len(sent[q])
          /\ InHand(q)' = 1 /\ InHand(q) = 0
      BY <1>1, <2>2 DEF IInv, TypeOK, Handle, InHand
    <3>2. /\ sent \in [Partitions -> Seq(1..MaxOffset)]
          /\ chan \in [Partitions -> Seq(Offsets)]
          /\ Len(sent[q]) \in Nat /\ Len(chan[q]) \in Nat
      BY DEF IInv, TypeOK
    <3>3. chan' \in [Partitions -> Seq(Offsets)]
      BY <1>5 DEF TypeOK
    <3> QED
      BY <1>3, <2>1, <3>1, <3>2, <3>3
  <2>3. CASE q # p
    BY <2>1, <2>3 DEF IInv, TypeOK, Handle, InHand
  <2> QED
    BY <2>2, <2>3
<1> QED
  BY <1>5, <1>6, <1>7 DEF IInv

LEMMA SendIInv == ASSUME IInv, NEW p \in Partitions, Send(p) PROVE IInv'
<1>1. at[p] + 1 \in 1..MaxOffset /\ 0 \in 0..MaxOffset
  BY ConsumerAssumption DEF ConsumerAssumption, IInv, SendInv, Send, Offsets
<1>2. /\ sent' \in [Partitions -> Seq(1..MaxOffset)]
      /\ sent'[p] = Append(sent[p], at[p] + 1)
      /\ \A q \in Partitions : q # p => sent'[q] = sent[q]
  BY <1>1 DEF IInv, TypeOK, Send
<1>3. TypeOK'
  BY <1>1, <1>2 DEF IInv, TypeOK, Send, group, log, poller
<1>4. SendInv' /\ EventInv'
  BY DEF IInv, TypeOK, SendInv, EventInv, Send, poller
<1>5. FillInv'
  <2> SUFFICES ASSUME pc = "dispatch", NEW q \in Partitions
               PROVE  Len(sent'[q]) + InHand(q)' + Len(chan'[q]) <= BufSize + 1
    BY DEF FillInv, Send, poller
  <2>1. Len(sent[q]) + InHand(q) + Len(chan[q]) <= BufSize + 1 /\ chan' = chan
    BY DEF IInv, FillInv, Send
  <2>2. CASE q = p
    <3>1. Len(sent'[q]) = Len(sent[q]) + 1 /\ InHand(q)' = 0 /\ InHand(q) = 1
      BY <1>1, <1>2, <2>2 DEF IInv, TypeOK, Send, InHand
    <3>2. /\ sent \in [Partitions -> Seq(1..MaxOffset)]
          /\ chan \in [Partitions -> Seq(Offsets)]
      BY DEF IInv, TypeOK
    <3>4. sent' \in [Partitions -> Seq(1..MaxOffset)]
      BY <1>3 DEF TypeOK
    <3>5. Len(sent[q]) \in Nat /\ Len(chan[q]) \in Nat
      BY <3>2
    <3>3. BufSize \in Nat
      BY ConsumerAssumption DEF ConsumerAssumption
    <3> QED
      BY <2>1, <3>1, <3>2, <3>3, <3>4, <3>5
  <2>3. CASE q # p
    BY <1>2, <2>1, <2>3 DEF IInv, TypeOK, Send, InHand
  <2> QED
    BY <2>2, <2>3
<1> QED
  BY <1>3, <1>4, <1>5 DEF IInv

LEMMA ExitIInv == ASSUME IInv, NEW p \in Partitions, Exit(p) PROVE IInv'
<1>1. TypeOK'
  BY DEF IInv, TypeOK, Exit, group, log, poller
<1>2. SendInv' /\ EventInv'
  BY DEF IInv, TypeOK, SendInv, EventInv, Exit, poller
<1>3. \A q \in Partitions : InHand(q)' = InHand(q)
  BY DEF IInv, TypeOK, Exit, InHand
<1>4. FillInv'
  BY <1>3 DEF IInv, FillInv, Exit, poller
<1> QED
  BY <1>1, <1>2, <1>4 DEF IInv

(* The group changes neither the channels nor the poll goroutine. *)
LEMMA GroupIInv == ASSUME IInv, GroupStep PROVE IInv'
<1>1. UNCHANGED local
  BY DEF GroupStep, Evict, Rejoin, Cancel, Assign, Revoke, RivalHandles, RivalCommits
<1>2. SendInv' /\ EventInv' /\ FillInv'
  BY <1>1 DEF IInv, SendInv, EventInv, FillInv, InHand, local, poller, workers
<1>3. 0 \in 0..MaxOffset
  BY ConsumerAssumption DEF ConsumerAssumption
<1>4. /\ owned' \subseteq Partitions /\ asked' \subseteq Partitions
      /\ member' \in BOOLEAN /\ announced' = announced /\ cancelled' \in BOOLEAN
      /\ lent' \subseteq Partitions
  BY DEF IInv, TypeOK, GroupStep, Evict, Rejoin, Cancel, Assign, Revoke, RivalHandles,
    RivalCommits, Lose, group
<1>5. next' \in [Partitions -> 0..MaxOffset]
  BY <1>3 DEF IInv, TypeOK, GroupStep, Evict, Rejoin, Cancel, Assign, Revoke,
    RivalHandles, RivalCommits, Lose, group
<1>6. /\ handled' \in [Partitions -> SUBSET Offsets]
      /\ committed' \in [Partitions -> 0..MaxOffset]
  <2>1. CASE UNCHANGED log
    BY <2>1 DEF IInv, TypeOK, log
  <2>2. ASSUME NEW p \in Partitions, RivalHandles(p)
        PROVE  handled' \in [Partitions -> SUBSET Offsets] /\ committed' = committed
    BY <2>2 DEF IInv, TypeOK, RivalHandles
  <2>3. ASSUME NEW p \in Partitions, RivalCommits(p)
        PROVE  committed' \in [Partitions -> 0..MaxOffset] /\ handled' = handled
    <3>1. PICK n \in 1..MaxOffset : committed' = [committed EXCEPT ![p] = n]
      BY <2>3 DEF RivalCommits
    <3>2. n \in 0..MaxOffset
      BY ConsumerAssumption DEF ConsumerAssumption
    <3> QED
      BY <2>3, <3>1, <3>2 DEF IInv, TypeOK, RivalCommits
  <2>4. \/ UNCHANGED log
        \/ \E p \in Partitions : RivalHandles(p) \/ RivalCommits(p)
    BY DEF GroupStep, Evict, Rejoin, Cancel, Assign, Revoke, log
  <2> QED
    BY <2>1, <2>2, <2>3, <2>4 DEF IInv, TypeOK
<1>8. moves' \in 0..MaxMoves
  BY ConsumerAssumption DEF ConsumerAssumption, IInv, TypeOK, GroupStep, Evict, Rejoin,
    Cancel, Assign, Revoke, RivalHandles, RivalCommits, group
<1>9. TypeOK'
  BY <1>1, <1>4, <1>5, <1>6, <1>8 DEF IInv, TypeOK, local, poller, workers
<1> QED
  BY <1>2, <1>9 DEF IInv

LEMMA NextIInv == IInv /\ [Next]_vars => IInv'
<1> SUFFICES ASSUME IInv, [Next]_vars PROVE IInv'
  OBVIOUS
<1>1. CASE PollStep
  BY <1>1, PollIInv, MessageIInv, ReceiveIInv, EndDrainIInv, DispatchIInv, StoppedIInv
     DEF PollStep
<1>2. ASSUME NEW p \in Partitions, WorkerStep(p) PROVE IInv'
  BY <1>2, HandleIInv, SendIInv, ExitIInv DEF WorkerStep
<1>3. CASE GroupStep
  BY <1>3, GroupIInv
<1>4. CASE UNCHANGED vars
  BY <1>4 DEF vars, IInv, TypeOK, SendInv, EventInv, FillInv, InHand
<1> QED
  BY <1>1, <1>2, <1>3, <1>4 DEF Next

LEMMA AlwaysIInv == Spec => []IInv
BY InitIInv, NextIInv, PTL DEF Spec

(* The channels keep within their capacities and every offset within the   *)
(* partition, whatever the group does (NewConsumer, dispatch, worker).     *)
THEOREM TypeCorrect == Spec => []TypeOK
BY AlwaysIInv, PTL DEF IInv

-----------------------------------------------------------------------------
(* With a worker that waits behind a full channel, only the other workers' *)
(* entries are in commitCh, and no more of them than their channels and    *)
(* hands held at the last drain.                                           *)
LEMMA OthersFit ==
  ASSUME IInv, Roomy, pc = "dispatch", NEW p \in Partitions, ~Room(p), worker[p] = "sending"
  PROVE  ~Full
<1> DEFINE Others == Partitions \ {p}
           Most == 1..(BufSize + 1)
<1>1. /\ sent \in [Partitions -> Seq(1..MaxOffset)]
      /\ chan \in [Partitions -> Seq(Offsets)]
      /\ BufSize \in Nat /\ IsFiniteSet(Partitions)
  BY ConsumerAssumption DEF ConsumerAssumption, IInv, TypeOK
<1>2. \A q \in Partitions :
        /\ Len(sent[q]) \in Nat /\ InHand(q) \in Nat /\ Len(chan[q]) \in Nat
        /\ Len(sent[q]) + InHand(q) + Len(chan[q]) <= BufSize + 1
  BY <1>1 DEF IInv, FillInv, InHand
<1>3. Len(sent[p]) = 0
  BY <1>1, <1>2 DEF Room, InHand
<1>4. \A q \in Partitions : Len(sent[q]) <= BufSize + 1
  BY <1>1, <1>2
<1>5. InFlight \subseteq Others \X Most
  <2> SUFFICES ASSUME NEW q \in Partitions, NEW k \in 1..CommitCap, k <= Len(sent[q])
               PROVE  q \in Others /\ k \in Most
    BY DEF InFlight
  <2>1. k \in Nat /\ k >= 1
    BY ConsumerAssumption DEF ConsumerAssumption
  <2>2. Len(sent[q]) \in Nat /\ Len(sent[q]) <= BufSize + 1
    BY <1>2, <1>4
  <2> QED
    BY <1>1, <1>3, <2>1, <2>2
<1>6. IsFiniteSet(Others) /\ Cardinality(Others) = Cardinality(Partitions) - 1
  BY <1>1, FS_RemoveElement
<1>7. IsFiniteSet(Most) /\ Cardinality(Most) = BufSize + 1
  BY <1>1, FS_Interval
<1>8. /\ IsFiniteSet(Others \X Most)
      /\ Cardinality(Others \X Most) = (Cardinality(Partitions) - 1) * (BufSize + 1)
  BY <1>6, <1>7, FS_Product
<1>9. Cardinality(InFlight) <= (Cardinality(Partitions) - 1) * (BufSize + 1)
  BY <1>5, <1>8, FS_Subset
<1>10. /\ IsFiniteSet(InFlight) /\ Cardinality(InFlight) \in Nat
       /\ Cardinality(Others \X Most) \in Nat /\ CommitCap \in Nat
  BY <1>5, <1>8, FS_Subset, FS_CardinalityType, ConsumerAssumption DEF ConsumerAssumption
<1> QED
  BY <1>8, <1>9, <1>10 DEF Roomy, Full

(* The poll goroutine and the workers never wait for each other in a       *)
(* circle, as long as the capacity of commitCh exceeds what the channels   *)
(* of all partitions but one can hold (dispatch, worker, drainCommits).    *)
THEOREM NoDeadlock == ASSUME Roomy PROVE Spec => []NeverStuck
<1>1. IInv => NeverStuck
  BY OthersFit DEF NeverStuck, IInv, TypeOK
<1> QED
  BY <1>1, AlwaysIInv, PTL

-----------------------------------------------------------------------------
(* The records of p in its worker's channel, and the one Poll returned.    *)
Queued(p) == {chan[p][k] : k \in DOMAIN chan[p]}

Offer(p) == IF event = "message" /\ p \in about THEN {offset} ELSE {}

(* Records are queued in order, without gaps from what is handled up to    *)
(* the position of the consumer, and what is reported, received or         *)
(* committed lies below all that is not handled.                           *)
ReportInv(p) ==
  /\ HandledBelow(p, committed[p]) /\ HandledBelow(p, pending[p])
  /\ \A k \in DOMAIN sent[p] : HandledBelow(p, sent[p][k])
  /\ worker[p] = "sending" => HandledBelow(p, at[p] + 1)

ChanInv(p) ==
  \A k \in DOMAIN chan[p] : \A i \in Offsets :
    i < chan[p][k] => i \in handled[p] \/ \E j \in DOMAIN chan[p] : j < k /\ chan[p][j] = i

ReadInv(p) ==
  /\ \A i \in Offsets : i < next[p] => i \in handled[p] \cup Queued(p) \cup Offer(p)
  /\ \A n \in Offer(p) : \A i \in Offsets : i < n => i \in handled[p] \cup Queued(p)

OrderInv == \A p \in Partitions : ReportInv(p) /\ ChanInv(p) /\ ReadInv(p)

LEMMA InitOrder == Init => OrderInv
<1> SUFFICES ASSUME Init, NEW p \in Partitions PROVE ReportInv(p) /\ ChanInv(p) /\ ReadInv(p)
  BY DEF OrderInv
<1>1. \A i \in Offsets : ~(i < 0)
  BY DEF Offsets
<1>2. ReportInv(p)
  BY <1>1 DEF Init, ReportInv, HandledBelow, NoEntries
<1> QED
  BY <1>1, <1>2 DEF Init, ChanInv, ReadInv, Offer

(* A step that leaves the channel and the record in hand of p as they are, *)
(* and commits or reads on only from where all below is handled.           *)
LEMMA OrderKept ==
  ASSUME TypeOK, NEW p \in Partitions, ReportInv(p), ChanInv(p), ReadInv(p),
         handled[p] \subseteq handled'[p], chan'[p] = chan[p], Offer(p)' = Offer(p),
         HandledBelow(p, committed[p])', HandledBelow(p, pending[p])',
         (\A k \in DOMAIN sent[p] : HandledBelow(p, sent[p][k]))',
         (worker[p] = "sending" => HandledBelow(p, at[p] + 1))',
         next'[p] = next[p] \/ HandledBelow(p, next[p])'
  PROVE  ReportInv(p)' /\ ChanInv(p)' /\ ReadInv(p)'
<1>1. ReportInv(p)'
  BY DEF ReportInv
<1>2. ChanInv(p)'
  BY DEF ChanInv
<1>3. Queued(p)' = Queued(p)
  BY DEF Queued
<1>4. ReadInv(p)'
  BY <1>3 DEF ReadInv, HandledBelow
<1> QED
  BY <1>1, <1>2, <1>4

(* What was below all that is not handled stays so. *)
LEMMA BelowKept ==
  ASSUME NEW p, NEW n, handled[p] \subseteq handled'[p], HandledBelow(p, n)
  PROVE  \A i \in Offsets : i < n => i \in handled'[p]
BY DEF HandledBelow

LEMMA BelowZero == \A p \in Partitions : HandledBelow(p, 0) /\ HandledBelow(p, 0)'
BY DEF HandledBelow, Offsets

-----------------------------------------------------------------------------
LEMMA QuietOrder ==
  ASSUME IInv, OrderInv, UNCHANGED <<log, pending, sent, chan>>,
         \A p \in Partitions :
           /\ worker'[p] = "sending" => worker[p] = "sending" /\ at'[p] = at[p]
           /\ Offer(p)' = Offer(p)
           /\ next'[p] \in {next[p], 0, committed[p]}
  PROVE  OrderInv'
<1> SUFFICES ASSUME NEW p \in Partitions PROVE ReportInv(p)' /\ ChanInv(p)' /\ ReadInv(p)'
  BY DEF OrderInv
<1>1. TypeOK /\ ReportInv(p) /\ ChanInv(p) /\ ReadInv(p)
  BY DEF IInv, OrderInv
<1>2. handled' = handled /\ committed' = committed /\ UNCHANGED <<pending, sent, chan>>
  BY DEF log
<1>3. /\ HandledBelow(p, committed[p])' /\ HandledBelow(p, pending[p])'
      /\ (\A k \in DOMAIN sent[p] : HandledBelow(p, sent[p][k]))'
      /\ (worker[p] = "sending" => HandledBelow(p, at[p] + 1))'
  BY <1>1, <1>2 DEF ReportInv, HandledBelow
<1>4. next'[p] = next[p] \/ HandledBelow(p, next[p])'
  BY <1>2, <1>3, BelowZero
<1> QED
  BY <1>1, <1>2, <1>3, <1>4, OrderKept

(* commitOffsets commits what was received. *)
LEMMA CommitOrder ==
  ASSUME IInv, OrderInv, CommitOffsets, UNCHANGED <<sent, worker, chan, at>>,
         \A p \in Partitions : Offer(p)' = Offer(p) /\ next'[p] \in {next[p], 0}
  PROVE  OrderInv'
<1> SUFFICES ASSUME NEW p \in Partitions PROVE ReportInv(p)' /\ ChanInv(p)' /\ ReadInv(p)'
  BY DEF OrderInv
<1>1. TypeOK /\ ReportInv(p) /\ ChanInv(p) /\ ReadInv(p)
  BY DEF IInv, OrderInv
<1>2. handled' = handled /\ pending'[p] = 0 /\ committed'[p] \in {committed[p], pending[p]}
  BY <1>1 DEF TypeOK, CommitOffsets, NoEntries
<1>3. HandledBelow(p, committed[p])'
  BY <1>1, <1>2 DEF ReportInv, HandledBelow
<1>4. HandledBelow(p, pending[p])'
  BY <1>2, BelowZero
<1>5. /\ (\A k \in DOMAIN sent[p] : HandledBelow(p, sent[p][k]))'
      /\ (worker[p] = "sending" => HandledBelow(p, at[p] + 1))'
  BY <1>1, <1>2 DEF ReportInv, HandledBelow
<1>6. next'[p] = next[p] \/ HandledBelow(p, next[p])'
  BY BelowZero
<1> QED
  BY <1>1, <1>2, <1>3, <1>4, <1>5, <1>6, OrderKept

LEMMA PollOrder ==
  ASSUME IInv, OrderInv,
         PollNothing \/ PollUnannounced \/ PollRevoked \/ PollFatal \/ Shutdown
  PROVE  OrderInv'
<1>1. UNCHANGED <<log, pending, sent, chan, worker, at>>
  BY DEF PollNothing, PollUnannounced, PollRevoked, PollFatal, Shutdown, workers
<1>2. event = "none" /\ event' # "message"
  BY DEF IInv, EventInv, PollNothing, PollUnannounced, PollRevoked, PollFatal, Shutdown,
    poller
<1>3. \A p \in Partitions : next'[p] \in {next[p], 0}
  BY DEF PollNothing, PollUnannounced, PollRevoked, PollFatal, Shutdown, group, GiveUp, Lose
<1> QED
  BY <1>1, <1>2, <1>3, QuietOrder DEF Offer

LEMMA EndOrder == ASSUME IInv, OrderInv, EndDrain \/ Stopped \/ Close PROVE OrderInv'
<1>1. CommitOffsets /\ UNCHANGED <<sent, worker, chan, at>>
  BY DEF EndDrain, Stopped, Close, workers
<1>2. \A p \in Partitions : next'[p] \in {next[p], 0}
  BY DEF EndDrain, Stopped, Close, GiveUp, Lose, group
<1>3. \A p \in Partitions : Offer(p)' = Offer(p)
  BY DEF IInv, EventInv, EndDrain, Stopped, Close, NextRound, Offer
<1> QED
  BY <1>1, <1>2, <1>3, CommitOrder

LEMMA MessageOrder ==
  ASSUME IInv, OrderInv, NEW p \in Partitions, PollMessage(p) PROVE OrderInv'
<1> SUFFICES ASSUME NEW q \in Partitions PROVE ReportInv(q)' /\ ChanInv(q)' /\ ReadInv(q)'
  BY DEF OrderInv
<1>1. TypeOK /\ ReportInv(q) /\ ChanInv(q) /\ ReadInv(q)
  BY DEF IInv, OrderInv
<1>2. UNCHANGED <<log, pending, sent, chan, worker, at>> /\ handled' = handled
  BY DEF PollMessage, workers, log
<1>3. ReportInv(q)' /\ ChanInv(q)' /\ Queued(q)' = Queued(q)
  BY <1>1, <1>2 DEF ReportInv, ChanInv, HandledBelow, Queued, log
<1>4. Offer(q) = {} /\ Offer(q)' = IF q = p THEN {next[p]} ELSE {}
  BY DEF IInv, EventInv, PollMessage, Offer
<1>5. next'[q] = IF q = p THEN next[p] + 1 ELSE next[q]
  BY <1>1 DEF TypeOK, PollMessage
<1>6. next[q] \in Nat
  BY <1>1, ConsumerAssumption DEF TypeOK, ConsumerAssumption
<1>7. ReadInv(q)'
  <2>1. \A i \in Offsets : i < next[q] => i \in handled[q] \cup Queued(q)
    BY <1>1, <1>4 DEF ReadInv
  <2>2. ASSUME NEW i \in Offsets, i < next'[q]
        PROVE  i \in handled'[q] \cup Queued(q)' \cup Offer(q)'
    <3>1. i < next[q] \/ (q = p /\ i = next[p])
      BY <1>5, <1>6, <2>2 DEF Offsets
    <3> QED
      BY <1>2, <1>3, <1>4, <2>1, <3>1
  <2>3. \A n \in Offer(q)' : \A i \in Offsets : i < n => i \in handled'[q] \cup Queued(q)'
    BY <1>2, <1>3, <1>4, <2>1
  <2> QED
    BY <2>2, <2>3 DEF ReadInv
<1> QED
  BY <1>3, <1>7

LEMMA ReceiveOrder ==
  ASSUME IInv, OrderInv, NEW p \in Partitions, Receive(p) PROVE OrderInv'
<1> SUFFICES ASSUME NEW q \in Partitions PROVE ReportInv(q)' /\ ChanInv(q)' /\ ReadInv(q)'
  BY DEF OrderInv
<1>1. TypeOK /\ ReportInv(q) /\ ChanInv(q) /\ ReadInv(q)
  BY DEF IInv, OrderInv
<1>2. /\ UNCHANGED <<committed, handled, chan, worker, at, next>>
      /\ Offer(q)' = Offer(q)
  BY DEF Receive, log, workers, group, poller, Offer
<1>3. HandledBelow(q, pending[q])' /\ (\A k \in DOMAIN sent[q] : HandledBelow(q, sent[q][k]))'
  <2>1. CASE q # p
    <3>1. pending'[q] = pending[q] /\ sent'[q] = sent[q]
      BY <1>1, <2>1 DEF TypeOK, Receive
    <3> QED
      BY <1>1, <1>2, <3>1 DEF ReportInv, HandledBelow
  <2>2. CASE q = p
    <3>1. sent[q] \in Seq(1..MaxOffset) /\ sent[q] # <<>>
      BY <1>1, <2>2 DEF TypeOK, Receive
    <3>2. pending'[q] \in {pending[q], Head(sent[q])} /\ sent'[q] = Tail(sent[q])
      BY <1>1, <2>2 DEF TypeOK, Receive
    <3>3. /\ 1 \in DOMAIN sent[q] /\ Head(sent[q]) = sent[q][1]
          /\ \A k \in DOMAIN Tail(sent[q]) :
               k + 1 \in DOMAIN sent[q] /\ Tail(sent[q])[k] = sent[q][k + 1]
      BY <3>1
    <3> QED
      BY <1>1, <1>2, <3>2, <3>3 DEF ReportInv, HandledBelow
  <2> QED
    BY <2>1, <2>2
<1>4. HandledBelow(q, committed[q])' /\ (worker[q] = "sending" => HandledBelow(q, at[q] + 1))'
  BY <1>1, <1>2 DEF ReportInv, HandledBelow
<1> QED
  BY <1>1, <1>2, <1>3, <1>4, OrderKept

(* The record in hand goes to the end of its channel. *)
LEMMA DispatchOrder ==
  ASSUME IInv, OrderInv, NEW p \in Partitions, Dispatch(p) PROVE OrderInv'
<1> SUFFICES ASSUME NEW q \in Partitions PROVE ReportInv(q)' /\ ChanInv(q)' /\ ReadInv(q)'
  BY DEF OrderInv
<1>1. TypeOK /\ ReportInv(q) /\ ChanInv(q) /\ ReadInv(q)
  BY DEF IInv, OrderInv
<1>2. /\ UNCHANGED <<committed, handled, pending, sent, at, next>>
      /\ worker'[q] = "sending" => worker[q] = "sending"
      /\ Offer(q)' = {}
  BY <1>1 DEF TypeOK, Dispatch, NextRound, log, group, Offer
<1>3. ReportInv(q)'
  BY <1>1, <1>2 DEF ReportInv, HandledBelow
<1>4. CASE q # p
  <2>1. chan'[q] = chan[q] /\ Queued(q)' = Queued(q)
    BY <1>1, <1>4 DEF TypeOK, Dispatch, Queued
  <2>2. Offer(q) = {}
    BY <1>4 DEF IInv, EventInv, Dispatch, Offer
  <2>3. ChanInv(q)' /\ ReadInv(q)'
    BY <1>1, <1>2, <2>1, <2>2 DEF ChanInv, ReadInv
  <2> QED
    BY <1>3, <2>3
<1>5. CASE q = p
  <2>1. Offer(q) = {offset} /\ offset \in Offsets
    BY <1>5 DEF IInv, EventInv, Dispatch, Offer
  <2>2. chan[q] \in Seq(Offsets) /\ chan'[q] = Append(chan[q], offset)
    BY <1>1, <1>5 DEF TypeOK, Dispatch
  <2>3. /\ DOMAIN chan'[q] = 1..(Len(chan[q]) + 1) /\ DOMAIN chan[q] = 1..Len(chan[q])
        /\ Len(chan[q]) \in Nat
        /\ \A k \in 1..Len(chan[q]) : chan'[q][k] = chan[q][k]
        /\ chan'[q][Len(chan[q]) + 1] = offset
    BY <2>1, <2>2
  <2>4. Queued(q)' = Queued(q) \cup {offset}
    <3>1. \A k \in DOMAIN chan'[q] : k \in DOMAIN chan[q] \/ k = Len(chan[q]) + 1
      BY <2>3
    <3> QED
      BY <2>3, <3>1 DEF Queued
  <2>5. ChanInv(q)'
    <3> SUFFICES ASSUME NEW k \in DOMAIN chan'[q], NEW i \in Offsets, i < chan'[q][k]
                 PROVE  \/ i \in handled'[q]
                        \/ \E j \in DOMAIN chan'[q] : j < k /\ chan'[q][j] = i
      BY DEF ChanInv
    <3>1. CASE k \in DOMAIN chan[q]
      <4>1. i \in handled[q] \/ \E j \in DOMAIN chan[q] : j < k /\ chan[q][j] = i
        BY <1>1, <2>3, <3>1 DEF ChanInv
      <4> QED
        BY <1>2, <2>3, <4>1
    <3>2. CASE k = Len(chan[q]) + 1
      <4>1. i \in handled[q] \/ \E j \in DOMAIN chan[q] : chan[q][j] = i
        BY <1>1, <2>1, <2>3, <3>2 DEF ReadInv, Queued
      <4> QED
        BY <1>2, <2>3, <3>2, <4>1
    <3> QED
      BY <2>3, <3>1, <3>2
  <2>6. ReadInv(q)'
    BY <1>1, <1>2, <2>1, <2>4 DEF ReadInv
  <2> QED
    BY <1>3, <2>5, <2>6
<1> QED
  BY <1>4, <1>5

(* The positions of a sequence and of its tail. *)
LEMMA TailIndex ==
  ASSUME NEW S, NEW s \in Seq(S), s # <<>>
  PROVE  /\ 1 \in DOMAIN s /\ Head(s) = s[1] /\ Head(s) \in S
         /\ \A k \in DOMAIN Tail(s) :
              k \in Nat /\ k + 1 \in DOMAIN s /\ Tail(s)[k] = s[k + 1]
         /\ \A j \in DOMAIN s :
              /\ j \in Nat /\ ~(j < 1)
              /\ \/ j = 1
                 \/ j - 1 \in DOMAIN Tail(s) /\ Tail(s)[j - 1] = s[j]
<1>1. DOMAIN s = 1..Len(s) /\ Len(s) \in Nat /\ Len(s) # 0
  OBVIOUS
<1>2. Tail(s) \in Seq(S) /\ Len(Tail(s)) = Len(s) - 1
  BY <1>1
<1>3. DOMAIN Tail(s) = 1..(Len(s) - 1)
  BY <1>2
<1>4. \A k \in 1..(Len(s) - 1) : Tail(s)[k] = s[k + 1]
  BY <1>1
<1>5. 1 \in DOMAIN s /\ Head(s) = s[1] /\ Head(s) \in S
  BY <1>1
<1>6. \A k \in 1..(Len(s) - 1) : k \in Nat /\ k + 1 \in DOMAIN s
  BY <1>1
<1>7. ASSUME NEW j \in DOMAIN s, j # 1
      PROVE  j - 1 \in 1..(Len(s) - 1) /\ (j - 1) + 1 = j
  BY <1>1, <1>7
<1>8. \A j \in DOMAIN s : j \in Nat /\ ~(j < 1)
  BY <1>1
<1> QED
  BY <1>3, <1>4, <1>5, <1>6, <1>7, <1>8

(* The record at the head of the channel is handled: all below it has been. *)
LEMMA HandleOrder ==
  ASSUME IInv, OrderInv, NEW p \in Partitions, Handle(p)
  PROVE  OrderInv' /\ HandledBelow(p, Head(chan[p])) /\ Head(chan[p]) \in Offsets
<1>1. /\ chan[p] \in Seq(Offsets) /\ chan[p] # <<>> /\ chan'[p] = Tail(chan[p])
      /\ at'[p] = Head(chan[p]) /\ handled'[p] = handled[p] \cup {Head(chan[p])}
  BY DEF IInv, TypeOK, Handle
<1>2. /\ 1 \in DOMAIN chan[p] /\ Head(chan[p]) = chan[p][1] /\ Head(chan[p]) \in Offsets
      /\ \A k \in DOMAIN Tail(chan[p]) :
           k \in Nat /\ k + 1 \in DOMAIN chan[p] /\ Tail(chan[p])[k] = chan[p][k + 1]
      /\ \A j \in DOMAIN chan[p] :
           /\ j \in Nat /\ ~(j < 1)
           /\ \/ j = 1
              \/ j - 1 \in DOMAIN Tail(chan[p]) /\ Tail(chan[p])[j - 1] = chan[p][j]
  BY <1>1, TailIndex
<1>3. HandledBelow(p, Head(chan[p]))
  BY <1>2 DEF OrderInv, ChanInv, HandledBelow
<1>4. ASSUME NEW q \in Partitions PROVE ReportInv(q)' /\ ChanInv(q)' /\ ReadInv(q)'
  <2>1. TypeOK /\ ReportInv(q) /\ ChanInv(q) /\ ReadInv(q)
    BY DEF IInv, OrderInv
  <2>2. UNCHANGED <<committed, pending, sent, next>> /\ Offer(q)' = Offer(q)
    BY DEF Handle, group, poller, Offer
  <2>3. CASE q # p
    <3>1. /\ chan'[q] = chan[q] /\ at'[q] = at[q] /\ handled'[q] = handled[q]
          /\ worker'[q] = worker[q] /\ Queued(q)' = Queued(q)
      BY <2>1, <2>3 DEF TypeOK, Handle, Queued
    <3> QED
      BY <2>1, <2>2, <3>1 DEF ReportInv, ChanInv, ReadInv, HandledBelow
  <2>4. CASE q = p
    <3>1. ReportInv(q)'
      <4>1. \A i \in Offsets : i < Head(chan[p]) + 1 => i < Head(chan[p]) \/ i = Head(chan[p])
        BY <1>2, ConsumerAssumption DEF ConsumerAssumption, Offsets
      <4>2. HandledBelow(p, at[p] + 1)'
        BY <1>1, <1>3, <4>1 DEF HandledBelow
      <4> QED
        BY <1>1, <2>1, <2>2, <2>4, <4>2 DEF ReportInv, HandledBelow
    <3>2. ChanInv(q)'
      <4> SUFFICES ASSUME NEW k \in DOMAIN chan'[q], NEW i \in Offsets, i < chan'[q][k]
                   PROVE  \/ i \in handled'[q]
                          \/ \E j \in DOMAIN chan'[q] : j < k /\ chan'[q][j] = i
        BY DEF ChanInv
      <4>0. /\ chan'[q] = Tail(chan[p]) /\ k \in DOMAIN Tail(chan[p])
            /\ i < chan[p][k + 1]
        BY <1>1, <1>2, <2>4
      <4>1. i \in handled[p] \/ \E j \in DOMAIN chan[p] : j < k + 1 /\ chan[p][j] = i
        <5>1. ChanInv(p) /\ k + 1 \in DOMAIN chan[p]
          BY <1>2, <2>1, <2>4, <4>0
        <5> QED
          BY <4>0, <5>1 DEF ChanInv
      <4>2. ASSUME NEW j \in DOMAIN chan[p], j < k + 1, chan[p][j] = i, j # 1
            PROVE  \E l \in DOMAIN Tail(chan[p]) : l < k /\ Tail(chan[p])[l] = i
        <5>1. /\ j - 1 \in DOMAIN Tail(chan[p]) /\ Tail(chan[p])[j - 1] = i
              /\ j \in Nat /\ k \in Nat
          BY <1>2, <4>0, <4>2
        <5>2. j - 1 < k
          BY <4>2, <5>1
        <5> QED
          BY <5>1, <5>2
      <4> QED
        BY <1>1, <1>2, <2>4, <4>0, <4>1, <4>2
    <3>3. ReadInv(q)'
      <4>1. Queued(q) \subseteq Queued(q)' \cup {Head(chan[p])}
        <5> SUFFICES ASSUME NEW j \in DOMAIN chan[p]
                     PROVE  chan[p][j] \in Queued(q)' \cup {Head(chan[p])}
          BY <2>4 DEF Queued
        <5>1. CASE j = 1
          BY <1>2, <5>1
        <5>2. CASE j # 1
          <6>1. j - 1 \in DOMAIN Tail(chan[p]) /\ Tail(chan[p])[j - 1] = chan[p][j]
            BY <1>2, <5>2
          <6> QED
            BY <1>1, <2>4, <6>1 DEF Queued
        <5> QED
          BY <5>1, <5>2
      <4>2. handled[q] \cup Queued(q) \subseteq handled'[q] \cup Queued(q)'
        BY <1>1, <2>4, <4>1
      <4> QED
        BY <2>1, <2>2, <4>2 DEF ReadInv
    <3> QED
      BY <3>1, <3>2, <3>3
  <2> QED
    BY <2>3, <2>4
<1> QED
  BY <1>2, <1>3, <1>4 DEF OrderInv

LEMMA SendOrder ==
  ASSUME IInv, OrderInv, NEW p \in Partitions, Send(p) PROVE OrderInv'
<1> SUFFICES ASSUME NEW q \in Partitions PROVE ReportInv(q)' /\ ChanInv(q)' /\ ReadInv(q)'
  BY DEF OrderInv
<1>1. TypeOK /\ ReportInv(q) /\ ChanInv(q) /\ ReadInv(q)
  BY DEF IInv, OrderInv
<1>2. /\ UNCHANGED <<committed, handled, pending, chan, next>> /\ Offer(q)' = Offer(q)
      /\ worker'[q] = "sending" => worker[q] = "sending" /\ at'[q] = at[q]
  BY <1>1 DEF TypeOK, Send, log, group, poller, Offer
<1>3. (\A k \in DOMAIN sent[q] : HandledBelow(q, sent[q][k]))'
  <2>1. CASE q # p
    <3>1. sent'[q] = sent[q]
      BY <1>1, <2>1 DEF TypeOK, Send
    <3> QED
      BY <1>1, <1>2, <3>1 DEF ReportInv, HandledBelow
  <2>2. CASE q = p
    <3>1. sent[q] \in Seq(1..MaxOffset) /\ sent'[q] = Append(sent[q], at[q] + 1)
      BY <1>1, <2>2 DEF TypeOK, Send
    <3>2. \A k \in DOMAIN sent'[q] :
            \/ k \in DOMAIN sent[q] /\ sent'[q][k] = sent[q][k]
            \/ sent'[q][k] = at[q] + 1
      BY <3>1
    <3>3. HandledBelow(q, at[q] + 1)
      BY <1>1, <2>2 DEF ReportInv, Send
    <3> QED
      BY <1>1, <1>2, <3>2, <3>3 DEF ReportInv, HandledBelow
  <2> QED
    BY <2>1, <2>2
<1>4. /\ HandledBelow(q, committed[q])' /\ HandledBelow(q, pending[q])'
      /\ (worker[q] = "sending" => HandledBelow(q, at[q] + 1))'
  BY <1>1, <1>2 DEF ReportInv, HandledBelow
<1> QED
  BY <1>1, <1>2, <1>3, <1>4, OrderKept

(* The group moves partitions, and other members handle and commit them.   *)
LEMMA MoveOrder ==
  ASSUME IInv, OrderInv,
         \/ Evict \/ Rejoin \/ Cancel
         \/ \E p \in Partitions : Assign(p) \/ Revoke(p) \/ Exit(p)
  PROVE  OrderInv'
<1>1. UNCHANGED <<log, pending, sent, chan, at, poller>>
  BY DEF Evict, Rejoin, Cancel, Assign, Revoke, Exit, local, workers
<1>2. \A p \in Partitions : next'[p] \in {next[p], 0, committed[p]}
  BY DEF IInv, TypeOK, Evict, Rejoin, Cancel, Assign, Revoke, Exit, Lose, group
<1>3. \A p \in Partitions : worker'[p] = "sending" => worker[p] = "sending"
  BY DEF IInv, TypeOK, Evict, Rejoin, Cancel, Assign, Revoke, Exit, local, workers
<1> QED
  BY <1>1, <1>2, <1>3, QuietOrder DEF Offer, poller

LEMMA RivalOrder ==
  ASSUME IInv, OrderInv, NEW p \in Partitions, RivalHandles(p) \/ RivalCommits(p)
  PROVE  OrderInv'
<1> SUFFICES ASSUME NEW q \in Partitions PROVE ReportInv(q)' /\ ChanInv(q)' /\ ReadInv(q)'
  BY DEF OrderInv
<1>1. TypeOK /\ ReportInv(q) /\ ChanInv(q) /\ ReadInv(q)
  BY DEF IInv, OrderInv
<1>2. UNCHANGED <<pending, sent, chan, worker, at, next>> /\ Offer(q)' = Offer(q)
  BY DEF RivalHandles, RivalCommits, local, workers, group, poller, Offer
<1>3. handled[q] \subseteq handled'[q]
  BY <1>1 DEF TypeOK, RivalHandles, RivalCommits
<1>4. committed'[q] = committed[q] \/ HandledBelow(q, committed'[q])
  BY <1>1 DEF TypeOK, RivalHandles, RivalCommits
<1>5. /\ HandledBelow(q, committed[q])' /\ HandledBelow(q, pending[q])'
      /\ (\A k \in DOMAIN sent[q] : HandledBelow(q, sent[q][k]))'
      /\ (worker[q] = "sending" => HandledBelow(q, at[q] + 1))'
  BY <1>1, <1>2, <1>3, <1>4 DEF ReportInv, HandledBelow
<1> QED
  BY <1>1, <1>2, <1>3, <1>5, OrderKept

LEMMA NextOrder == IInv /\ OrderInv /\ [Next]_vars => OrderInv'
<1> SUFFICES ASSUME IInv, OrderInv, [Next]_vars PROVE OrderInv'
  OBVIOUS
<1>1. CASE PollStep
  BY <1>1, PollOrder, MessageOrder, ReceiveOrder, EndOrder, DispatchOrder DEF PollStep
<1>2. ASSUME NEW p \in Partitions, WorkerStep(p) PROVE OrderInv'
  BY <1>2, HandleOrder, SendOrder, MoveOrder DEF WorkerStep
<1>3. CASE GroupStep
  BY <1>3, MoveOrder, RivalOrder DEF GroupStep
<1>4. CASE UNCHANGED vars
  BY <1>4, QuietOrder DEF vars, log, Offer
<1> QED
  BY <1>1, <1>2, <1>3, <1>4 DEF Next

-----------------------------------------------------------------------------
(* Offsets of the module and of CommitLog are the same below MaxOffset.    *)
LEMMA SameBelow ==
  ASSUME NEW p \in Partitions, NEW n \in 0..MaxOffset, HandledBelow(p, n)
  PROVE  Log!HandledBelow(p, n)
<1>1. \A i \in 0..MaxOffset : i < n => i \in Offsets
  BY ConsumerAssumption DEF ConsumerAssumption, Offsets
<1> QED
  BY <1>1 DEF HandledBelow, Log!HandledBelow

LEMMA CommitRefines ==
  ASSUME IInv, OrderInv, CommitOffsets
  PROVE  Log!Commit \/ UNCHANGED log
<1>1. CASE UNCHANGED committed
  BY <1>1 DEF CommitOffsets, log
<1>2. ASSUME NEW taken \in SUBSET Partitions,
             committed' = [p \in Partitions |->
                             IF p \in taken THEN pending[p] ELSE committed[p]]
      PROVE  Log!Commit
  <2>1. committed' \in [Partitions -> 0..MaxOffset] /\ handled' = handled
    BY <1>2 DEF IInv, TypeOK, CommitOffsets
  <2>2. ASSUME NEW p \in Partitions
        PROVE  committed'[p] = committed[p] \/ Log!HandledBelow(p, committed'[p])
    <3>1. committed'[p] = committed[p] \/ committed'[p] = pending[p]
      BY <1>2
    <3>2. pending[p] \in 0..MaxOffset /\ HandledBelow(p, pending[p])
      BY DEF IInv, TypeOK, OrderInv, ReportInv
    <3> QED
      BY <3>1, <3>2, SameBelow
  <2> QED
    BY <2>1, <2>2 DEF Log!Commit
<1>3. \/ UNCHANGED committed
      \/ \E taken \in SUBSET Partitions :
           committed' = [p \in Partitions |->
                           IF p \in taken THEN pending[p] ELSE committed[p]]
  BY DEF CommitOffsets
<1> QED
  BY <1>1, <1>2, <1>3

LEMMA HandlesRefine ==
  ASSUME IInv, OrderInv, NEW p \in Partitions, Handle(p) \/ RivalHandles(p)
  PROVE  \E i \in 0..(MaxOffset - 1) : Log!Handle(p, i)
<1>1. \E i \in Offsets : HandledBelow(p, i) /\ handled' = [handled EXCEPT ![p] = @ \cup {i}]
  <2>1. CASE Handle(p)
    BY <2>1, HandleOrder DEF Handle
  <2>2. CASE RivalHandles(p)
    BY <2>2 DEF RivalHandles
  <2> QED
    BY <2>1, <2>2
<1>2. PICK i \in Offsets :
         HandledBelow(p, i) /\ handled' = [handled EXCEPT ![p] = @ \cup {i}]
  BY <1>1
<1>3. i \in 0..(MaxOffset - 1) /\ i \in 0..MaxOffset
  BY ConsumerAssumption DEF ConsumerAssumption, Offsets
<1>4. committed' = committed
  BY DEF Handle, RivalHandles
<1> QED
  BY <1>2, <1>3, <1>4, SameBelow DEF Log!Handle

LEMMA RivalCommitRefines ==
  ASSUME IInv, NEW p \in Partitions, RivalCommits(p) PROVE Log!Commit
<1>1. PICK n \in 1..MaxOffset :
         HandledBelow(p, n) /\ committed' = [committed EXCEPT ![p] = n]
  BY DEF RivalCommits
<1>2. n \in 0..MaxOffset
  BY ConsumerAssumption DEF ConsumerAssumption
<1>3. Log!HandledBelow(p, n)
  BY <1>1, <1>2, SameBelow
<1> QED
  BY <1>1, <1>2, <1>3 DEF IInv, TypeOK, RivalCommits, Log!Commit

(* Whatever the instance and the group do to the log is a step of it.      *)
LEMMA StepRefines == IInv /\ OrderInv /\ [Next]_vars => [Log!Next]_<<handled, committed>>
<1> SUFFICES ASSUME IInv, OrderInv, [Next]_vars
             PROVE  Log!Next \/ UNCHANGED <<handled, committed>>
  OBVIOUS
<1>1. CASE EndDrain \/ Stopped \/ Close
  BY <1>1, CommitRefines DEF EndDrain, Stopped, Close, Log!Next, log
<1>2. ASSUME NEW p \in Partitions, Handle(p) \/ RivalHandles(p)
      PROVE  Log!Next
  BY <1>2, HandlesRefine DEF Log!Next
<1>3. ASSUME NEW p \in Partitions, RivalCommits(p)
      PROVE  Log!Next
  BY <1>3, RivalCommitRefines DEF Log!Next
<1>4. CASE \/ PollNothing \/ PollUnannounced \/ PollRevoked \/ PollFatal \/ Shutdown
           \/ Evict \/ Rejoin \/ Cancel
  BY <1>4 DEF PollNothing, PollUnannounced, PollRevoked, PollFatal, Shutdown, Evict,
    Rejoin, Cancel, log
<1>5. ASSUME NEW p \in Partitions,
             \/ PollMessage(p) \/ Receive(p) \/ Dispatch(p) \/ Send(p) \/ Exit(p)
             \/ Assign(p) \/ Revoke(p)
      PROVE  UNCHANGED <<handled, committed>>
  BY <1>5 DEF PollMessage, Receive, Dispatch, Send, Exit, Assign, Revoke, log
<1>6. CASE UNCHANGED vars
  BY <1>6 DEF vars
<1> QED
  BY <1>1, <1>2, <1>3, <1>4, <1>5, <1>6 DEF Next, PollStep, WorkerStep, GroupStep

(* For any number of partitions, records and capacities: no record is      *)
(* skipped, and what any commit says has been handled, across workers,     *)
(* lost membership, rebalances and shutdown (commitOffsets, drainCommits,  *)
(* worker, dispatch).                                                      *)
THEOREM ImplementsCommitLog == Spec => CommitsWhatIsHandled
<1>1. Init => Log!Init
  BY DEF Init, Log!Init
<1>2. Spec => [](IInv /\ OrderInv)
  BY InitIInv, InitOrder, NextIInv, NextOrder, PTL DEF Spec
<1> QED
  BY <1>1, <1>2, StepRefines, PTL DEF Spec, CommitsWhatIsHandled, Log!Spec
=============================================================================
