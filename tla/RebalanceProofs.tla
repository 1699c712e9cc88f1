--------------------------- MODULE RebalanceProofs ---------------------------
(***************************************************************************)
(* Proofs about Consumer when revocations are announced: no commit lowers  *)
(* an offset, and a partition is handed over with everything that was      *)
(* polled from it handled and committed.  They rest on an account of the   *)
(* records of a partition between Poll and the commit.  Announced or not,  *)
(* no record is sent to a closed channel or left in one without a worker.  *)
(* All this holds for any number of partitions, records, rebalances and    *)
(* evictions and any capacities.                                           *)
(***************************************************************************)
EXTENDS ConsumerProofs

(* The poll goroutine holds a record of p.  *)
InEvent(p) == IF event = "message" /\ p \in about THEN 1 ELSE 0

(* Records of p that were polled and are not reported; and those and the   *)
(* reports of p that were not received.                                    *)
Ahead(p) == InHand(p) + Len(chan[p]) + InEvent(p)
Behind(p) == Len(sent[p]) + Ahead(p)

(* No goroutine and no channel knows of p. *)
Clean(p) ==
  /\ sent[p] = <<>> /\ worker[p] = "none" /\ pending[p] = 0
  /\ InEvent(p) = 0

(* A worker ends with its channel empty. *)
RestInv == \A p \in Partitions : worker[p] = "none" => chan[p] = <<>>

(* A member has every partition it is asked for, and what it neither has   *)
(* nor has yet to give up it has forgotten.                                *)
RoleInv ==
  /\ member => asked \subseteq owned
  /\ \A p \in Partitions : p \notin owned \cup asked => Clean(p)

(* Between the committed offset and the position of the consumer every     *)
(* record of p is at exactly one place, in order; only a failed commit     *)
(* makes a gap.                                                            *)
Accounted(p) ==
  /\ InEvent(p) = 1 => offset + 1 = next[p]
  /\ \A k \in DOMAIN chan[p] :
       chan[p][k] + Len(chan[p]) + InEvent(p) + 1 = next[p] + k
  /\ worker[p] = "sending" => at[p] + Ahead(p) = next[p]
  /\ \A k \in DOMAIN sent[p] : sent[p][k] + Behind(p) = next[p] + k
  /\ pending[p] > 0 => pending[p] + Behind(p) = next[p]
  /\ committed[p] + Behind(p) <= next[p]
  /\ ~failed /\ pending[p] = 0 => committed[p] + Behind(p) = next[p]

TenureInv == \A p \in owned : Accounted(p)

HandoverInv == RestInv /\ (announced => RoleInv /\ TenureInv)

-----------------------------------------------------------------------------
LEMMA Counts ==
  ASSUME TypeOK, NEW p \in Partitions
  PROVE  /\ InHand(p) \in Nat /\ InEvent(p) \in Nat
         /\ Len(chan[p]) \in Nat /\ Len(sent[p]) \in Nat
         /\ Ahead(p) \in Nat /\ Behind(p) \in Nat
         /\ next[p] \in Nat /\ committed[p] \in Nat /\ pending[p] \in Nat
         /\ at[p] \in Nat /\ offset \in Nat
<1>1. MaxOffset \in Nat
  BY ConsumerAssumption DEF ConsumerAssumption
<1>2. chan[p] \in Seq(Offsets) /\ sent[p] \in Seq(1..MaxOffset)
  BY DEF TypeOK
<1>3. /\ next[p] \in Nat /\ committed[p] \in Nat /\ pending[p] \in Nat
      /\ at[p] \in Nat /\ offset \in Nat
  BY <1>1 DEF TypeOK
<1>4. InHand(p) \in Nat /\ InEvent(p) \in Nat
  BY DEF InHand, InEvent
<1>5. Len(chan[p]) \in Nat /\ Len(sent[p]) \in Nat
  BY <1>2
<1>6. Ahead(p) \in Nat
  BY <1>4, <1>5 DEF Ahead
<1>7. Behind(p) \in Nat
  BY <1>5, <1>6 DEF Behind
<1> QED
  BY <1>3, <1>4, <1>5, <1>6, <1>7, Zenon

LEMMA Shift ==
  \A a, b, n \in Nat :
    /\ a + b = n => a + (b + 1) = n + 1
    /\ \A k \in Nat : a + b = n + k => a + (b + 1) = n + 1 + k
OBVIOUS

LEMMA Sums ==
  \A a, n, l \in Nat : a + 1 = n => a + (l + 1) + 0 + 1 = n + (l + 1)
OBVIOUS

LEMMA Elements == ASSUME NEW S, NEW s \in Seq(S) PROVE \A k \in DOMAIN s : s[k] \in S
OBVIOUS

LEMMA Entries ==
  ASSUME TypeOK, NEW p \in Partitions
  PROVE  /\ DOMAIN chan[p] = 1..Len(chan[p]) /\ DOMAIN sent[p] = 1..Len(sent[p])
         /\ \A k \in DOMAIN chan[p] : chan[p][k] \in Nat
         /\ \A k \in DOMAIN sent[p] : sent[p][k] \in Nat
<1>1. Offsets \subseteq Nat /\ 1..MaxOffset \subseteq Nat
  BY ConsumerAssumption DEF ConsumerAssumption, Offsets
<1>2. chan[p] \in Seq(Offsets) /\ sent[p] \in Seq(1..MaxOffset)
  BY DEF TypeOK
<1>3. DOMAIN chan[p] = 1..Len(chan[p]) /\ DOMAIN sent[p] = 1..Len(sent[p])
  BY <1>2
<1>4. \A k \in DOMAIN chan[p] : chan[p][k] \in Offsets
  BY <1>2, Elements
<1>5. \A k \in DOMAIN sent[p] : sent[p][k] \in 1..MaxOffset
  BY <1>2, Elements
<1> QED
  BY <1>1, <1>3, <1>4, <1>5, Zenon

LEMMA InitHandover == Init => HandoverInv
<1> SUFFICES ASSUME Init PROVE HandoverInv
  OBVIOUS
<1>1. \A p \in Partitions : Behind(p) = 0 /\ Ahead(p) = 0 /\ InEvent(p) = 0
  BY DEF Init, Behind, Ahead, InHand, InEvent
<1>2. \A p \in Partitions : Accounted(p)
  BY <1>1 DEF Init, Accounted, NoEntries
<1> QED
  BY <1>2 DEF Init, HandoverInv, RestInv, RoleInv, TenureInv

(* A step that moves nothing of p. *)
LEMMA AccountKept ==
  ASSUME NEW p \in Partitions, Accounted(p),
         chan'[p] = chan[p], sent'[p] = sent[p],
         worker'[p] = "sending" <=> worker[p] = "sending",
         at'[p] = at[p], pending'[p] = pending[p], committed'[p] = committed[p],
         next'[p] = next[p], InEvent(p)' = InEvent(p), offset' = offset \/ InEvent(p) = 0,
         failed => failed'
  PROVE  Accounted(p)'
<1>1. Ahead(p)' = Ahead(p) /\ Behind(p)' = Behind(p)
  BY DEF Ahead, Behind, InHand
<1>2. InEvent(p)' = 1 => (offset + 1 = next[p])'
  BY DEF Accounted
<1> QED
  BY <1>1, <1>2 DEF Accounted

LEMMA CleanKept ==
  ASSUME NEW p \in Partitions, Clean(p),
         sent'[p] = sent[p], worker'[p] = worker[p], pending'[p] = pending[p],
         InEvent(p)' = InEvent(p)
  PROVE  Clean(p)'
BY DEF Clean

-----------------------------------------------------------------------------
(* Steps of the poll goroutine that leave reports and channels alone.      *)
LEMMA PollHandover ==
  ASSUME IInv, HandoverInv,
         PollNothing \/ PollUnannounced \/ PollRevoked \/ PollFatal \/ Shutdown
  PROVE  HandoverInv'
<1>1. /\ UNCHANGED <<announced, committed, pending, sent, worker, chan, at, member>>
      /\ failed' = failed
  BY DEF PollNothing, PollUnannounced, PollRevoked, PollFatal, Shutdown, GiveUp, group,
    log, workers
<1>2. RestInv'
  BY <1>1 DEF HandoverInv, RestInv
<1>3. ASSUME announced
      PROVE  RoleInv' /\ TenureInv'
  <2>1. RoleInv /\ TenureInv
    BY <1>3 DEF HandoverInv
  <2>2. UNCHANGED <<owned, asked, next>>
    BY <1>3 DEF PollNothing, PollUnannounced, PollRevoked, PollFatal, Shutdown, group
  <2>3. event = "none" /\ event' # "message"
    BY <1>3 DEF IInv, EventInv, PollNothing, PollUnannounced, PollRevoked, PollFatal,
      Shutdown
  <2>4. \A p \in Partitions : InEvent(p) = 0 /\ InEvent(p)' = 0
    BY <2>3 DEF InEvent
  <2>5. ASSUME NEW p \in Partitions, Accounted(p) PROVE Accounted(p)'
    BY <1>1, <2>2, <2>4, <2>5, AccountKept
  <2>6. ASSUME NEW p \in Partitions, Clean(p) PROVE Clean(p)'
    BY <1>1, <2>4, <2>6, CleanKept
  <2>7. owned \subseteq Partitions
    BY DEF IInv, TypeOK
  <2> QED
    BY <1>1, <2>1, <2>2, <2>5, <2>6, <2>7 DEF RoleInv, TenureInv
<1> QED
  BY <1>1, <1>2, <1>3 DEF HandoverInv

(* The record Poll returns is the one at the position. *)
LEMMA MessageHandover ==
  ASSUME IInv, HandoverInv, NEW p \in Partitions, PollMessage(p) PROVE HandoverInv'
<1>1. /\ UNCHANGED <<announced, owned, asked, member>>
      /\ UNCHANGED <<committed, pending, sent, worker, chan, at, failed>>
  BY DEF PollMessage, log, workers
<1>2. RestInv'
  BY <1>1 DEF HandoverInv, RestInv
<1>3. event = "none" /\ event' = "message" /\ about' = {p} /\ offset' = next[p] /\ p \in owned
  BY DEF IInv, EventInv, PollMessage
<1>4. \A q \in Partitions : InEvent(q) = 0 /\ InEvent(q)' = IF q = p THEN 1 ELSE 0
  BY <1>3 DEF InEvent
<1>5. \A q \in Partitions : next'[q] = IF q = p THEN next[p] + 1 ELSE next[q]
  BY DEF IInv, TypeOK, PollMessage
<1>6. ASSUME NEW q \in Partitions, Accounted(q) PROVE Accounted(q)'
  <2>1. CASE q # p
    BY <1>1, <1>4, <1>5, <1>6, <2>1, AccountKept
  <2>2. CASE q = p
    <3>1. Ahead(p)' = Ahead(p) + 1 /\ Behind(p)' = Behind(p) + 1
      <4>1. Ahead(p)' = InHand(p) + Len(chan[p]) + 1
        BY <1>1, <1>4 DEF Ahead, InHand
      <4>2. Behind(p)' = Len(sent[p]) + Ahead(p)'
        BY <1>1 DEF Behind
      <4> QED
        BY <1>4, <4>1, <4>2, Counts DEF IInv, Ahead, Behind
    <3>2. /\ InEvent(p) = 0 /\ InEvent(p)' = 1 /\ next'[p] = next[p] + 1
          /\ offset' = next[p]
      BY <1>3, <1>4, <1>5
    <3>3. /\ Ahead(p) \in Nat /\ Behind(p) \in Nat /\ next[p] \in Nat
          /\ committed[p] \in Nat /\ pending[p] \in Nat /\ at[p] \in Nat
      BY Counts DEF IInv
    <3>4. /\ Accounted(p) /\ chan' = chan /\ sent' = sent /\ worker' = worker /\ at' = at
          /\ pending' = pending /\ committed' = committed /\ failed' = failed
      BY <1>1, <1>6, <2>2
    <3>5. ASSUME NEW k \in DOMAIN chan[p]
          PROVE  chan[p][k] + Len(chan[p]) + 1 + 1 = next[p] + 1 + k
      <4>1. /\ k \in Nat /\ chan[p][k] \in Nat /\ Len(chan[p]) \in Nat
            /\ chan[p][k] + Len(chan[p]) + 0 + 1 = next[p] + k
        BY <3>2, <3>4, Entries DEF IInv, Accounted
      <4> QED
        BY <3>3, <4>1
    <3>6. ASSUME NEW k \in DOMAIN sent[p]
          PROVE  sent[p][k] + (Behind(p) + 1) = next[p] + 1 + k
      <4>1. k \in Nat /\ sent[p][k] \in Nat
        BY Entries DEF IInv
      <4>2. sent[p][k] + Behind(p) = next[p] + k
        BY <3>4 DEF Accounted
      <4> QED
        BY <3>3, <4>1, <4>2, Shift
    <3>7. /\ worker[p] = "sending" => at[p] + (Ahead(p) + 1) = next[p] + 1
          /\ pending[p] > 0 => pending[p] + (Behind(p) + 1) = next[p] + 1
          /\ committed[p] + (Behind(p) + 1) <= next[p] + 1
          /\ ~failed /\ pending[p] = 0 => committed[p] + (Behind(p) + 1) = next[p] + 1
      <4>1. /\ worker[p] = "sending" => at[p] + Ahead(p) = next[p]
            /\ pending[p] > 0 => pending[p] + Behind(p) = next[p]
            /\ committed[p] + Behind(p) <= next[p]
            /\ ~failed /\ pending[p] = 0 => committed[p] + Behind(p) = next[p]
        BY <3>4 DEF Accounted
      <4>2. committed[p] + (Behind(p) + 1) <= next[p] + 1
        BY <3>3, <4>1, Z3
      <4> QED
        BY <3>3, <4>1, <4>2, Shift
    <3> QED
      BY <2>2, <3>1, <3>2, <3>4, <3>5, <3>6, <3>7 DEF Accounted
  <2> QED
    BY <2>1, <2>2
<1>7. ASSUME NEW q \in Partitions, q # p, Clean(q) PROVE Clean(q)'
  BY <1>1, <1>4, <1>7, CleanKept
<1>8. owned \subseteq Partitions
  BY DEF IInv, TypeOK
<1> QED
  BY <1>1, <1>2, <1>3, <1>6, <1>7, <1>8 DEF HandoverInv, RoleInv, TenureInv

(* A report moves from commitCh to the map of drainCommits. *)
LEMMA ReceiveHandover ==
  ASSUME IInv, HandoverInv, NEW p \in Partitions, Receive(p) PROVE HandoverInv'
<1>1. /\ UNCHANGED <<announced, owned, asked, member>>
      /\ UNCHANGED <<committed, worker, chan, at, next, event, about, offset, failed>>
  BY DEF Receive, log, workers, group, poller
<1>2. RestInv'
  BY <1>1 DEF HandoverInv, RestInv
<1>3. \A q \in Partitions : InEvent(q)' = InEvent(q) /\ Ahead(q)' = Ahead(q)
  BY <1>1 DEF InEvent, Ahead, InHand
<1>4. \A q \in Partitions : q # p => sent'[q] = sent[q] /\ pending'[q] = pending[q]
  BY DEF IInv, TypeOK, Receive
<1>5. /\ sent[p] \in Seq(1..MaxOffset) /\ sent[p] # <<>> /\ sent'[p] = Tail(sent[p])
      /\ pending'[p] = IF Head(sent[p]) > pending[p] THEN Head(sent[p]) ELSE pending[p]
  BY DEF IInv, TypeOK, Receive
<1>6. ASSUME NEW q \in Partitions, Accounted(q) PROVE Accounted(q)'
  <2>1. CASE q # p
    BY <1>1, <1>3, <1>4, <1>6, <2>1, AccountKept
  <2>2. CASE q = p
    <3>1. /\ Len(sent'[p]) + 1 = Len(sent[p]) /\ Len(sent'[p]) \in Nat
          /\ Head(sent[p]) = sent[p][1] /\ 1 \in DOMAIN sent[p]
          /\ DOMAIN sent'[p] = 1..Len(sent'[p])
          /\ \A k \in DOMAIN sent'[p] :
               k \in Nat /\ k + 1 \in DOMAIN sent[p] /\ sent'[p][k] = sent[p][k + 1]
      BY <1>5
    <3>0. /\ Ahead(p) \in Nat /\ Behind(p) \in Nat /\ next[p] \in Nat
          /\ committed[p] \in Nat /\ pending[p] \in Nat
      BY Counts DEF IInv
    <3>2. Behind(p)' + 1 = Behind(p) /\ Behind(p)' \in Nat
      <4>1. Behind(p)' = Len(sent'[p]) + Ahead(p) /\ Behind(p) = Len(sent[p]) + Ahead(p)
        BY <1>3 DEF Behind
      <4>2. /\ Len(sent'[p]) + 1 = Len(sent[p]) /\ Len(sent'[p]) \in Nat
            /\ Len(sent[p]) \in Nat
        BY <3>1
      <4> DEFINE l == Len(sent[p])
                 m == Len(sent'[p])
                 a == Ahead(p)
                 b == Behind(p)
                 c == Behind(p)'
      <4>3. /\ l \in Nat /\ m \in Nat /\ a \in Nat /\ m + 1 = l
            /\ c = m + a /\ b = l + a
        BY <3>0, <4>1, <4>2
      <4> HIDE DEF l, m, a, b, c
      <4>4. c + 1 = b /\ c \in Nat
        BY <4>3
      <4> QED
        BY <4>4 DEF b, c
    <3>3. sent[p][1] + Behind(p) = next[p] + 1
      BY <1>6, <2>2, <3>1 DEF Accounted
    <3>4. pending'[p] = sent[p][1] /\ pending'[p] + Behind(p)' = next[p]
      <4>1. pending[p] > 0 => pending[p] + Behind(p) = next[p]
        BY <1>6, <2>2 DEF Accounted
      <4>2. committed[p] + Behind(p) <= next[p]
        BY <1>6, <2>2 DEF Accounted
      <4>3. sent[p][1] \in Nat
        BY <3>1, Entries DEF IInv
      <4>4. sent[p][1] + Behind(p)' = next[p]
        BY <3>0, <3>2, <3>3, <4>3, Z3
      <4>6. pending[p] = 0 \/ pending[p] + Behind(p)' + 1 = next[p]
        BY <3>0, <3>2, <4>1, Z3
      <4>7. committed[p] + Behind(p)' + 1 <= next[p]
        BY <3>0, <3>2, <4>2, Z3
      <4>8. sent[p][1] > pending[p]
        <5>1. CASE pending[p] = 0
          BY <3>0, <3>2, <4>3, <4>4, <4>7, <5>1, Z3
        <5>2. CASE pending[p] + Behind(p)' + 1 = next[p]
          BY <3>0, <3>2, <4>3, <4>4, <5>2, Z3
        <5> QED
          BY <4>6, <5>1, <5>2
      <4>5. pending'[p] = IF sent[p][1] > pending[p] THEN sent[p][1] ELSE pending[p]
        BY <1>5, <3>1
      <4> QED
        BY <4>4, <4>5, <4>8
    <3>5. \A k \in DOMAIN sent'[p] : sent'[p][k] + Behind(p)' = next[p] + k
      <4> SUFFICES ASSUME NEW k \in DOMAIN sent'[p]
                   PROVE  sent'[p][k] + Behind(p)' = next[p] + k
        OBVIOUS
      <4>1. k \in Nat /\ k + 1 \in DOMAIN sent[p] /\ sent'[p][k] = sent[p][k + 1]
        BY <3>1
      <4>2. sent[p][k + 1] + Behind(p) = next[p] + (k + 1) /\ sent[p][k + 1] \in Nat
        BY <1>6, <2>2, <4>1, Entries DEF IInv, Accounted
      <4>3. k \in Nat /\ sent'[p][k] = sent[p][k + 1]
        BY <4>1
      <4> QED
        BY <3>0, <3>2, <4>2, <4>3, Z3
    <3>6. committed[p] + Behind(p)' <= next[p] /\ pending'[p] # 0
      <4>1. committed[p] + Behind(p) <= next[p]
        BY <1>6, <2>2 DEF Accounted
      <4>2. sent[p][1] \in 1..MaxOffset
        BY <1>5, <3>1, HeadTail
      <4>3. pending'[p] # 0
        BY <3>4, <4>2, ConsumerAssumption DEF ConsumerAssumption
      <4> QED
        BY <3>0, <3>2, <4>1, <4>3
    <3> QED
      BY <1>1, <1>3, <1>6, <2>2, <3>4, <3>5, <3>6 DEF Accounted
  <2> QED
    BY <2>1, <2>2
<1>7. ASSUME NEW q \in Partitions, Clean(q) PROVE Clean(q)'
  BY <1>1, <1>3, <1>4, <1>5, <1>7, CleanKept DEF Clean
<1>8. owned \subseteq Partitions
  BY DEF IInv, TypeOK
<1> QED
  BY <1>1, <1>2, <1>6, <1>7, <1>8 DEF HandoverInv, RoleInv, TenureInv

-----------------------------------------------------------------------------
(* What commitOffsets does to one partition. *)
LEMMA CommitOf ==
  ASSUME CommitOffsets, TypeOK, NEW p \in Partitions
  PROVE  /\ failed => failed'
         /\ \/ committed'[p] = committed[p] /\ pending[p] = 0
            \/ committed'[p] = pending[p] /\ pending[p] > 0 /\ member
            \/ committed'[p] = committed[p] /\ failed'
<1>1. pending[p] \in Nat
  BY ConsumerAssumption DEF ConsumerAssumption, TypeOK
<1>2. CASE pending = NoEntries
  BY <1>2 DEF CommitOffsets, NoEntries
<1>3. CASE pending # NoEntries
  <2>1. PICK taken \in SUBSET {q \in Partitions : pending[q] > 0} :
          /\ member \/ taken = {}
          /\ committed' = [q \in Partitions |->
                             IF q \in taken THEN pending[q] ELSE committed[q]]
          /\ failed' = (failed \/ \E q \in Partitions \ taken : pending[q] > 0)
    BY <1>3 DEF CommitOffsets
  <2>2. CASE p \in taken
    BY <2>1, <2>2
  <2>3. CASE p \notin taken
    <3>1. committed'[p] = committed[p] /\ (failed => failed')
      BY <2>1, <2>3
    <3>2. CASE pending[p] = 0
      BY <3>1, <3>2
    <3>3. CASE pending[p] # 0
      <4>1. p \in Partitions \ taken /\ pending[p] > 0
        BY <1>1, <2>3, <3>3
      <4>2. failed'
        BY <2>1, <4>1, Zenon
      <4> QED
        BY <3>1, <4>2
    <3> QED
      BY <3>2, <3>3
  <2> QED
    BY <2>2, <2>3
<1> QED
  BY <1>2, <1>3

(* commitOffsets leaves no gap unless it fails. *)
LEMMA CommitAccount ==
  ASSUME CommitOffsets, TypeOK, NEW p \in Partitions, Accounted(p),
         chan'[p] = chan[p], sent'[p] = sent[p], worker'[p] = worker[p], at'[p] = at[p],
         next'[p] = next[p], InEvent(p)' = InEvent(p), offset' = offset \/ InEvent(p) = 0
  PROVE  Accounted(p)'
<1>1. Ahead(p)' = Ahead(p) /\ Behind(p)' = Behind(p)
  BY DEF Ahead, Behind, InHand
<1>2. Behind(p) \in Nat /\ next[p] \in Nat /\ committed[p] \in Nat /\ pending[p] \in Nat
  BY Counts
<1>3. pending'[p] = 0
  BY DEF CommitOffsets, NoEntries
<1>4. /\ failed => failed'
      /\ \/ committed'[p] = committed[p] /\ pending[p] = 0
         \/ committed'[p] = pending[p] /\ pending[p] > 0
         \/ committed'[p] = committed[p] /\ failed'
  BY CommitOf
<1>5. /\ committed'[p] + Behind(p) <= next[p]
      /\ ~failed' => committed'[p] + Behind(p) = next[p]
  <2>1. /\ committed[p] + Behind(p) <= next[p]
        /\ ~failed /\ pending[p] = 0 => committed[p] + Behind(p) = next[p]
        /\ pending[p] > 0 => pending[p] + Behind(p) = next[p]
    BY DEF Accounted
  <2> QED
    BY <1>2, <1>4, <2>1
<1>6. /\ InEvent(p)' = 1 => (offset + 1 = next[p])'
      /\ \A k \in DOMAIN chan'[p] :
           chan'[p][k] + Len(chan'[p]) + InEvent(p)' + 1 = next'[p] + k
      /\ worker'[p] = "sending" => at'[p] + Ahead(p)' = next'[p]
      /\ \A k \in DOMAIN sent'[p] : sent'[p][k] + Behind(p)' = next'[p] + k
  BY <1>1 DEF Accounted
<1> QED
  BY <1>1, <1>3, <1>5, <1>6 DEF Accounted

(* What is given up is clean: its worker has ended and commitCh is empty.  *)
LEMMA GiveUpHandover ==
  ASSUME IInv, HandoverInv, CommitOffsets, NEW S \in SUBSET Partitions, Ended(S), Drained,
         UNCHANGED <<announced, sent, worker, chan, at>>,
         event # "message", event' # "message",
         owned' = owned \ S, asked' = asked \ S,
         \A p \in Partitions \ S : next'[p] = next[p],
         member' => member
  PROVE  HandoverInv'
<1>1. \A p \in Partitions : InEvent(p) = 0 /\ InEvent(p)' = 0
  BY DEF InEvent
<1>2. RestInv'
  BY DEF HandoverInv, RestInv
<1>3. ASSUME announced
      PROVE  RoleInv' /\ TenureInv'
  <2>1. RoleInv /\ TenureInv /\ TypeOK
    BY <1>3 DEF HandoverInv, IInv
  <2>2. ASSUME NEW p \in owned \ S PROVE Accounted(p)'
    <3>1. p \in Partitions /\ Accounted(p) /\ next'[p] = next[p]
      BY <2>1, <2>2 DEF TypeOK, TenureInv
    <3> QED
      BY <1>1, <2>1, <3>1, CommitAccount
  <2>3. \A p \in Partitions : pending'[p] = 0
    BY DEF CommitOffsets, NoEntries
  <2>4. ASSUME NEW p \in Partitions, p \in S \/ Clean(p) PROVE Clean(p)'
    BY <1>1, <2>3, <2>4 DEF Clean, Ended, Drained
  <2> QED
    BY <2>1, <2>2, <2>4 DEF RoleInv, TenureInv
<1> QED
  BY <1>2, <1>3 DEF HandoverInv

LEMMA EndHandover == ASSUME IInv, HandoverInv, EndDrain PROVE HandoverInv'
<1>1. /\ CommitOffsets /\ Drained /\ UNCHANGED <<announced, sent, worker, chan, at>>
      /\ about \subseteq Partitions
  BY DEF IInv, TypeOK, EndDrain, GiveUp, group
<1>2. CASE event = "revoked" /\ Ended(about) /\ GiveUp(about) /\ NextRound
  <2>1. \A p \in Partitions \ about : next'[p] = next[p]
    BY <1>2 DEF GiveUp, Lose
  <2> QED
    BY <1>1, <1>2, <2>1, GiveUpHandover DEF GiveUp, Lose, NextRound
<1>3. CASE UNCHANGED <<group, event, about, offset>> \/ (event = "none" /\ NextRound /\ UNCHANGED group)
  <2>1. RestInv'
    BY <1>1 DEF HandoverInv, RestInv
  <2>2. UNCHANGED <<owned, asked, member, next>>
    BY <1>3 DEF group
  <2>3. \A p \in Partitions : InEvent(p)' = InEvent(p) /\ (offset' = offset \/ InEvent(p) = 0)
    BY <1>3 DEF InEvent, NextRound
  <2>4. ASSUME NEW p \in Partitions, Accounted(p) PROVE Accounted(p)'
    BY <1>1, <2>2, <2>3, <2>4, CommitAccount DEF IInv
  <2>5. ASSUME NEW p \in Partitions, Clean(p) PROVE Clean(p)'
    <3>1. pending'[p] = 0
      BY <1>1 DEF CommitOffsets, NoEntries
    <3> QED
      BY <1>1, <2>3, <2>5, <3>1 DEF Clean
  <2>6. owned \subseteq Partitions
    BY DEF IInv, TypeOK
  <2> QED
    BY <1>1, <2>1, <2>2, <2>4, <2>5, <2>6 DEF HandoverInv, RoleInv, TenureInv
<1> QED
  BY <1>2, <1>3 DEF EndDrain

LEMMA StopHandover == ASSUME IInv, HandoverInv, Stopped \/ Close PROVE HandoverInv'
<1>1. event # "message" /\ event' # "message"
  BY DEF IInv, EventInv, Stopped, Close, NextRound
<1>2. CommitOffsets /\ Drained /\ UNCHANGED <<announced, sent, worker, chan, at>>
  BY DEF Stopped, Close, GiveUp, workers
<1>3. CASE Stopped
  <2>1. /\ about \in SUBSET Partitions /\ Ended(about)
        /\ owned' = owned \ about /\ asked' = asked \ about /\ member' = member
        /\ \A p \in Partitions \ about : next'[p] = next[p]
    BY <1>3 DEF IInv, TypeOK, Stopped, GiveUp, Lose
  <2> QED
    BY <1>1, <1>2, <2>1, GiveUpHandover
<1>4. CASE Close
  <2>1. /\ Partitions \in SUBSET Partitions /\ Ended(Partitions)
        /\ owned' = owned \ Partitions /\ asked' = asked \ Partitions /\ member' = FALSE
        /\ \A p \in Partitions \ Partitions : next'[p] = next[p]
    BY <1>4 DEF IInv, TypeOK, Close, Lose
  <2> QED
    BY <1>1, <1>2, <2>1, GiveUpHandover
<1> QED
  BY <1>3, <1>4

-----------------------------------------------------------------------------
LEMMA AppendEntries ==
  ASSUME NEW S, NEW s \in Seq(S), NEW x \in S
  PROVE  /\ Len(Append(s, x)) = Len(s) + 1 /\ Len(s) \in Nat
         /\ \A k \in DOMAIN Append(s, x) :
              \/ k \in DOMAIN s /\ Append(s, x)[k] = s[k] /\ k \in Nat
              \/ k = Len(s) + 1 /\ Append(s, x)[k] = x
OBVIOUS

(* The record in hand goes to the end of its channel. *)
LEMMA DispatchHandover ==
  ASSUME IInv, HandoverInv, NEW p \in Partitions, Dispatch(p) PROVE HandoverInv'
<1>1. /\ UNCHANGED <<announced, owned, asked, member, next>>
      /\ UNCHANGED <<committed, pending, sent, at, failed>>
  BY DEF Dispatch, group, log
<1>2. /\ event = "message" /\ event' = "none" /\ p \in about /\ offset \in Offsets
      /\ \A q \in about : q = p
  BY DEF IInv, EventInv, Dispatch, NextRound
<1>3. \A q \in Partitions : InEvent(q)' = 0 /\ InEvent(q) = IF q = p THEN 1 ELSE 0
  BY <1>2 DEF InEvent
<1>4. /\ chan[p] \in Seq(Offsets) /\ chan'[p] = Append(chan[p], offset)
      /\ worker'[p] = IF worker[p] = "none" THEN "idle" ELSE worker[p]
      /\ \A q \in Partitions : q # p => chan'[q] = chan[q] /\ worker'[q] = worker[q]
  BY DEF IInv, TypeOK, Dispatch
<1>5. RestInv'
  BY <1>4 DEF HandoverInv, RestInv
<1>6. ASSUME NEW q \in Partitions, Accounted(q) PROVE Accounted(q)'
  <2>1. CASE q # p
    BY <1>1, <1>3, <1>4, <1>6, <2>1, AccountKept
  <2>2. CASE q = p
    <3>1. /\ Len(chan'[p]) = Len(chan[p]) + 1 /\ Len(chan[p]) \in Nat
          /\ \A k \in DOMAIN chan'[p] :
               \/ k \in DOMAIN chan[p] /\ chan'[p][k] = chan[p][k] /\ k \in Nat
               \/ k = Len(chan[p]) + 1 /\ chan'[p][k] = offset
      BY <1>2, <1>4, AppendEntries
    <3>2. InHand(p)' = InHand(p) /\ InHand(p) \in Nat
      BY <1>4 DEF InHand
    <3>3. Ahead(p)' = Ahead(p)
      <4>1. /\ Ahead(p)' = InHand(p) + Len(chan'[p]) + 0
            /\ Ahead(p) = InHand(p) + Len(chan[p]) + 1
        BY <1>3, <3>2 DEF Ahead
      <4> QED
        BY <3>1, <3>2, <4>1
    <3>4. Behind(p)' = Behind(p)
      BY <1>1, <3>3 DEF Behind
    <3>5. offset + 1 = next[p] /\ offset \in Nat /\ next[p] \in Nat
      BY <1>3, <1>6, <2>2, Counts DEF IInv, Accounted
    <3>6. ASSUME NEW k \in DOMAIN chan'[p]
          PROVE  chan'[p][k] + Len(chan'[p]) + 0 + 1 = next[p] + k
      <4>1. CASE k = Len(chan[p]) + 1 /\ chan'[p][k] = offset
        <5>1. Len(chan'[p]) = Len(chan[p]) + 1 /\ Len(chan[p]) \in Nat
          BY <3>1
        <5>2. offset + (Len(chan[p]) + 1) + 0 + 1 = next[p] + (Len(chan[p]) + 1)
          BY <3>5, <5>1, Sums
        <5> QED
          BY <4>1, <5>1, <5>2
      <4>2. CASE k \in DOMAIN chan[p] /\ chan'[p][k] = chan[p][k] /\ k \in Nat
        <5>1. chan[p][k] + Len(chan[p]) + 1 + 1 = next[p] + k /\ chan[p][k] \in Nat
          BY <1>3, <1>6, <2>2, <4>2, Entries DEF IInv, Accounted
        <5>2. Len(chan'[p]) = Len(chan[p]) + 1 /\ Len(chan[p]) \in Nat
          BY <3>1
        <5> QED
          BY <3>5, <4>2, <5>1, <5>2
      <4> QED
        BY <3>1, <4>1, <4>2
    <3>7. worker'[p] = "sending" <=> worker[p] = "sending"
      BY <1>4
    <3> QED
      BY <1>1, <1>3, <1>6, <2>2, <3>3, <3>4, <3>6, <3>7 DEF Accounted
  <2> QED
    BY <2>1, <2>2
<1>7. ASSUME NEW q \in Partitions, Clean(q) PROVE Clean(q)'
  <2>1. q # p
    BY <1>3, <1>7 DEF Clean
  <2> QED
    BY <1>1, <1>3, <1>4, <1>7, <2>1, CleanKept
<1>8. owned \subseteq Partitions
  BY DEF IInv, TypeOK
<1> QED
  BY <1>1, <1>5, <1>6, <1>7, <1>8 DEF HandoverInv, RoleInv, TenureInv

(* The worker takes the next record. *)
LEMMA HandleHandover ==
  ASSUME IInv, HandoverInv, NEW p \in Partitions, Handle(p) PROVE HandoverInv'
<1>1. /\ UNCHANGED <<announced, owned, asked, member, next>>
      /\ UNCHANGED <<committed, pending, sent, failed, event, about, offset>>
  BY DEF Handle, group, poller
<1>2. /\ chan[p] \in Seq(Offsets) /\ chan[p] # <<>> /\ chan'[p] = Tail(chan[p])
      /\ at'[p] = Head(chan[p]) /\ worker[p] = "idle" /\ worker'[p] = "sending"
      /\ \A q \in Partitions :
           q # p => chan'[q] = chan[q] /\ worker'[q] = worker[q] /\ at'[q] = at[q]
  BY DEF IInv, TypeOK, Handle
<1>3. \A q \in Partitions : InEvent(q)' = InEvent(q)
  BY <1>1 DEF InEvent
<1>4. RestInv'
  BY <1>2 DEF HandoverInv, RestInv
<1>5. ASSUME NEW q \in Partitions, Accounted(q) PROVE Accounted(q)'
  <2>1. CASE q # p
    BY <1>1, <1>2, <1>3, <1>5, <2>1, AccountKept
  <2>2. CASE q = p
    <3>1. /\ Len(chan'[p]) + 1 = Len(chan[p]) /\ Len(chan'[p]) \in Nat
          /\ at'[p] = chan[p][1] /\ 1 \in DOMAIN chan[p]
          /\ \A k \in DOMAIN chan'[p] :
               k \in Nat /\ k + 1 \in DOMAIN chan[p] /\ chan'[p][k] = chan[p][k + 1]
      BY <1>2
    <3>2. Len(chan'[p]) + 1 = Len(chan[p]) /\ Len(chan'[p]) \in Nat
      BY <3>1
    <3>3. InHand(p)' = 1 /\ InHand(p) = 0
      BY <1>2 DEF InHand
    <3>4. InEvent(p) \in Nat /\ next[p] \in Nat
      BY Counts DEF IInv
    <3>5. Ahead(p)' = Ahead(p) /\ Ahead(p) = Len(chan[p]) + InEvent(p)
      <4>1. /\ Ahead(p)' = 1 + Len(chan'[p]) + InEvent(p)
            /\ Ahead(p) = 0 + Len(chan[p]) + InEvent(p)
        BY <1>3, <3>3 DEF Ahead
      <4> QED
        BY <3>2, <3>4, <4>1
    <3>6. Behind(p)' = Behind(p)
      BY <1>1, <3>5 DEF Behind
    <3>7. at'[p] + Ahead(p)' = next[p]
      <4>1. /\ chan[p][1] + Len(chan[p]) + InEvent(p) + 1 = next[p] + 1
            /\ chan[p][1] \in Nat
        BY <1>5, <2>2, <3>1, Entries DEF IInv, Accounted
      <4>2. at'[p] = chan[p][1] /\ Len(chan[p]) \in Nat
        BY <3>1
      <4>3. at'[p] + Ahead(p)' = chan[p][1] + (Len(chan[p]) + InEvent(p))
        BY <3>5, <4>2
      <4> DEFINE l == Len(chan[p])
                 c == chan[p][1]
                 e == InEvent(p)
                 n == next[p]
      <4>4. /\ l \in Nat /\ c \in Nat /\ e \in Nat /\ n \in Nat
            /\ c + l + e + 1 = n + 1
        BY <3>4, <4>1, <4>2
      <4> HIDE DEF l, c, e, n
      <4>5. c + (l + e) = n
        BY <4>4
      <4> QED
        BY <4>3, <4>5 DEF l, c, e, n
    <3>8. ASSUME NEW k \in DOMAIN chan'[p]
          PROVE  chan'[p][k] + Len(chan'[p]) + InEvent(p) + 1 = next[p] + k
      <4>1. k \in Nat /\ k + 1 \in DOMAIN chan[p] /\ chan'[p][k] = chan[p][k + 1]
        BY <3>1
      <4>2. /\ chan[p][k + 1] + Len(chan[p]) + InEvent(p) + 1 = next[p] + (k + 1)
            /\ chan[p][k + 1] \in Nat
        BY <1>5, <2>2, <4>1, Entries DEF IInv, Accounted
      <4>3. k \in Nat /\ chan'[p][k] = chan[p][k + 1]
        BY <4>1
      <4>4. chan[p][k + 1] + (Len(chan'[p]) + 1) + InEvent(p) + 1 = next[p] + (k + 1)
        BY <3>2, <4>2
      <4>5. chan[p][k + 1] + Len(chan'[p]) + InEvent(p) + 1 = next[p] + k
        <5> DEFINE l == Len(chan'[p])
                   c == chan[p][k + 1]
                   e == InEvent(p)
                   n == next[p]
        <5>1. /\ c \in Nat /\ e \in Nat /\ n \in Nat /\ l \in Nat /\ k \in Nat
              /\ c + (l + 1) + e + 1 = n + (k + 1)
          BY <3>2, <3>4, <4>2, <4>3, <4>4
        <5> HIDE DEF l, c, e, n
        <5>2. c + l + e + 1 = n + k
          BY <5>1
        <5> QED
          BY <5>2 DEF l, c, e, n
      <4> QED
        BY <4>3, <4>5
    <3> QED
      BY <1>1, <1>3, <1>5, <2>2, <3>5, <3>6, <3>7, <3>8 DEF Accounted
  <2> QED
    BY <2>1, <2>2
<1>6. ASSUME NEW q \in Partitions, Clean(q) PROVE Clean(q)'
  <2>1. q # p
    BY <1>2, <1>6 DEF Clean
  <2> QED
    BY <1>1, <1>2, <1>3, <1>6, <2>1, CleanKept
<1>7. owned \subseteq Partitions
  BY DEF IInv, TypeOK
<1> QED
  BY <1>1, <1>4, <1>5, <1>6, <1>7 DEF HandoverInv, RoleInv, TenureInv

(* The worker reports its record behind the earlier ones. *)
LEMMA SendHandover ==
  ASSUME IInv, HandoverInv, NEW p \in Partitions, Send(p) PROVE HandoverInv'
<1>1. /\ UNCHANGED <<announced, owned, asked, member, next>>
      /\ UNCHANGED <<committed, pending, chan, failed, event, about, offset>>
  BY DEF Send, group, log, poller
<1>2. /\ sent[p] \in Seq(1..MaxOffset) /\ sent'[p] = Append(sent[p], at[p] + 1)
      /\ worker[p] = "sending" /\ worker'[p] = "idle"
      /\ \A q \in Partitions :
           q # p => sent'[q] = sent[q] /\ worker'[q] = worker[q] /\ at'[q] = at[q]
  BY DEF IInv, TypeOK, Send
<1>3. \A q \in Partitions : InEvent(q)' = InEvent(q)
  BY <1>1 DEF InEvent
<1>4. RestInv'
  BY <1>1, <1>2 DEF HandoverInv, RestInv
<1>5. ASSUME NEW q \in Partitions, Accounted(q) PROVE Accounted(q)'
  <2>1. CASE q # p
    BY <1>1, <1>2, <1>3, <1>5, <2>1, AccountKept
  <2>2. CASE q = p
    <3>1. at[p] + 1 \in 1..MaxOffset /\ at[p] \in Nat
      BY <1>2, ConsumerAssumption DEF ConsumerAssumption, IInv, SendInv, Offsets
    <3>2. /\ Len(sent'[p]) = Len(sent[p]) + 1 /\ Len(sent[p]) \in Nat
          /\ \A k \in DOMAIN sent'[p] :
               \/ k \in DOMAIN sent[p] /\ sent'[p][k] = sent[p][k] /\ k \in Nat
               \/ k = Len(sent[p]) + 1 /\ sent'[p][k] = at[p] + 1
      BY <1>2, <3>1, AppendEntries
    <3>3. InHand(p)' = 0 /\ InHand(p) = 1
      BY <1>2 DEF InHand
    <3>4. Ahead(p)' + 1 = Ahead(p) /\ Ahead(p)' \in Nat
      <4>1. /\ Ahead(p)' = 0 + Len(chan[p]) + InEvent(p)
            /\ Ahead(p) = 1 + Len(chan[p]) + InEvent(p)
        BY <1>1, <1>3, <3>3 DEF Ahead
      <4>2. Len(chan[p]) \in Nat /\ InEvent(p) \in Nat
        BY Counts DEF IInv
      <4> QED
        BY <4>1, <4>2
    <3>5. Behind(p)' = Behind(p) /\ Behind(p) = Len(sent[p]) + Ahead(p)
      <4>1. Behind(p)' = Len(sent'[p]) + Ahead(p)' /\ Behind(p) = Len(sent[p]) + Ahead(p)
        BY DEF Behind
      <4>2. Len(sent'[p]) = Len(sent[p]) + 1 /\ Len(sent[p]) \in Nat
        BY <3>2
      <4> QED
        BY <3>4, <4>1, <4>2
    <3>6. ASSUME NEW k \in DOMAIN sent'[p]
          PROVE  sent'[p][k] + Behind(p) = next[p] + k
      <4>1. CASE k \in DOMAIN sent[p] /\ sent'[p][k] = sent[p][k]
        BY <1>5, <2>2, <4>1 DEF Accounted
      <4>2. CASE k = Len(sent[p]) + 1 /\ sent'[p][k] = at[p] + 1
        <5>1. at[p] + Ahead(p) = next[p] /\ Ahead(p) \in Nat /\ next[p] \in Nat
          BY <1>2, <1>5, <2>2, Counts DEF IInv, Accounted
        <5>2. Len(sent[p]) \in Nat
          BY <3>2
        <5> DEFINE l == Len(sent[p])
                   a == at[p]
                   h == Ahead(p)
                   n == next[p]
        <5>3. a \in Nat /\ h \in Nat /\ n \in Nat /\ l \in Nat /\ a + h = n
          BY <3>1, <5>1, <5>2
        <5> HIDE DEF l, a, h, n
        <5>4. (a + 1) + (l + h) = n + (l + 1)
          BY <5>3
        <5>5. (at[p] + 1) + (Len(sent[p]) + Ahead(p)) = next[p] + (Len(sent[p]) + 1)
          BY <5>4 DEF l, a, h, n
        <5> QED
          BY <3>5, <4>2, <5>5
      <4> QED
        BY <3>2, <4>1, <4>2
    <3> QED
      BY <1>1, <1>2, <1>3, <1>5, <2>2, <3>5, <3>6 DEF Accounted
  <2> QED
    BY <2>1, <2>2
<1>6. ASSUME NEW q \in Partitions, Clean(q) PROVE Clean(q)'
  <2>1. q # p
    BY <1>2, <1>6 DEF Clean
  <2> QED
    BY <1>1, <1>2, <1>3, <1>6, <2>1, CleanKept
<1>7. owned \subseteq Partitions
  BY DEF IInv, TypeOK
<1> QED
  BY <1>1, <1>4, <1>5, <1>6, <1>7 DEF HandoverInv, RoleInv, TenureInv

LEMMA ExitHandover ==
  ASSUME IInv, HandoverInv, NEW p \in Partitions, Exit(p) PROVE HandoverInv'
<1>1. /\ UNCHANGED <<announced, owned, asked, member, next>>
      /\ UNCHANGED <<committed, pending, sent, chan, at, failed, event, about, offset>>
  BY DEF Exit, group, log, poller
<1>2. /\ chan[p] = <<>> /\ worker[p] = "idle" /\ worker'[p] = "none"
      /\ \A q \in Partitions : q # p => worker'[q] = worker[q]
  BY DEF IInv, TypeOK, Exit
<1>3. \A q \in Partitions : InEvent(q)' = InEvent(q)
  BY <1>1 DEF InEvent
<1>4. RestInv'
  BY <1>1, <1>2 DEF HandoverInv, RestInv
<1>5. ASSUME NEW q \in Partitions, Accounted(q) PROVE Accounted(q)'
  <2>1. worker'[q] = "sending" <=> worker[q] = "sending"
    BY <1>2
  <2> QED
    BY <1>1, <1>3, <1>5, <2>1, AccountKept
<1>6. ASSUME NEW q \in Partitions, Clean(q) PROVE Clean(q)'
  <2>1. q # p
    BY <1>2, <1>6 DEF Clean
  <2> QED
    BY <1>1, <1>2, <1>3, <1>6, <2>1, CleanKept
<1>7. owned \subseteq Partitions
  BY DEF IInv, TypeOK
<1> QED
  BY <1>1, <1>4, <1>5, <1>6, <1>7 DEF HandoverInv, RoleInv, TenureInv

-----------------------------------------------------------------------------
(* A partition comes back at the committed offset, and clean. *)
LEMMA AssignHandover ==
  ASSUME IInv, HandoverInv, NEW p \in Partitions, Assign(p) PROVE HandoverInv'
<1>1. /\ owned' = owned \cup {p} /\ p \notin owned \cup asked /\ member
      /\ UNCHANGED <<announced, asked, member, committed, pending, sent, worker, chan, at>>
      /\ UNCHANGED <<event, about, offset, failed>>
  BY DEF Assign, log, local, poller, workers
<1>2. \A q \in Partitions : next'[q] = IF q = p THEN committed[p] ELSE next[q]
  BY DEF IInv, TypeOK, Assign
<1>3. \A q \in Partitions : InEvent(q)' = InEvent(q)
  BY <1>1 DEF InEvent
<1>4. RestInv'
  BY <1>1 DEF HandoverInv, RestInv
<1>5. ASSUME announced
      PROVE  RoleInv' /\ TenureInv'
  <2>1. RoleInv /\ TenureInv /\ RestInv
    BY <1>5 DEF HandoverInv
  <2>2. ASSUME NEW q \in owned, q # p PROVE Accounted(q)'
    <3>1. q \in Partitions /\ Accounted(q)
      BY <2>1, <2>2 DEF IInv, TypeOK, TenureInv
    <3> QED
      BY <1>1, <1>2, <1>3, <2>2, <3>1, AccountKept
  <2>3. Accounted(p)'
    <3>1. /\ sent[p] = <<>> /\ worker[p] = "none" /\ chan[p] = <<>> /\ pending[p] = 0
          /\ InEvent(p) = 0
      BY <1>1, <2>1 DEF RoleInv, RestInv, Clean
    <3>2. Ahead(p)' = 0 /\ Behind(p)' = 0
      BY <1>1, <1>3, <3>1 DEF Ahead, Behind, InHand
    <3>3. committed[p] \in Nat /\ next'[p] = committed[p]
      BY <1>2, Counts DEF IInv
    <3> QED
      BY <1>1, <1>3, <3>1, <3>2, <3>3 DEF Accounted
  <2>4. ASSUME NEW q \in Partitions, Clean(q) PROVE Clean(q)'
    BY <1>1, <1>3, <2>4, CleanKept
  <2> QED
    BY <1>1, <2>1, <2>2, <2>3, <2>4 DEF RoleInv, TenureInv
<1> QED
  BY <1>1, <1>4, <1>5 DEF HandoverInv

(* The other steps of the group. *)
LEMMA GroupHandover ==
  ASSUME IInv, HandoverInv,
         \/ Evict \/ Rejoin \/ Cancel
         \/ \E p \in Partitions : Revoke(p) \/ RivalHandles(p) \/ RivalCommits(p)
  PROVE  HandoverInv'
<1>1. /\ UNCHANGED <<announced, pending, sent, worker, chan, at, failed>>
      /\ UNCHANGED <<event, about, offset>>
  BY DEF Evict, Rejoin, Cancel, Revoke, RivalHandles, RivalCommits, local, group, poller,
    workers
<1>2. \A q \in Partitions : InEvent(q)' = InEvent(q)
  BY <1>1 DEF InEvent
<1>3. RestInv'
  BY <1>1 DEF HandoverInv, RestInv
<1>4. owned' \subseteq owned /\ owned \cup asked \subseteq owned' \cup asked'
  BY DEF IInv, TypeOK, Evict, Rejoin, Cancel, Revoke, RivalHandles, RivalCommits, Lose,
    group
<1>5. announced => \A q \in owned' : next'[q] = next[q] /\ committed'[q] = committed[q]
  BY DEF IInv, TypeOK, Evict, Rejoin, Cancel, Revoke, RivalHandles, RivalCommits, Rival,
    Lose, group, log
<1>6. (member => asked \subseteq owned) => (member' => asked' \subseteq owned')
  BY DEF Evict, Rejoin, Cancel, Revoke, RivalHandles, RivalCommits, group
<1>7. ASSUME announced
      PROVE  RoleInv' /\ TenureInv'
  <2>1. RoleInv /\ TenureInv
    BY <1>7 DEF HandoverInv
  <2>2. ASSUME NEW q \in owned' PROVE Accounted(q)'
    <3>1. q \in Partitions /\ Accounted(q)
      BY <1>4, <2>1, <2>2 DEF IInv, TypeOK, TenureInv
    <3> QED
      BY <1>1, <1>2, <1>5, <1>7, <2>2, <3>1, AccountKept
  <2>3. ASSUME NEW q \in Partitions, Clean(q) PROVE Clean(q)'
    BY <1>1, <1>2, <2>3, CleanKept
  <2> QED
    BY <1>4, <1>6, <2>1, <2>2, <2>3 DEF RoleInv, TenureInv
<1> QED
  BY <1>1, <1>3, <1>7 DEF HandoverInv

LEMMA NextHandover == IInv /\ HandoverInv /\ [Next]_vars => HandoverInv'
<1> SUFFICES ASSUME IInv, HandoverInv, [Next]_vars PROVE HandoverInv'
  OBVIOUS
<1>1. CASE PollStep
  BY <1>1, PollHandover, MessageHandover, ReceiveHandover, EndHandover, DispatchHandover,
    StopHandover DEF PollStep
<1>2. ASSUME NEW p \in Partitions, WorkerStep(p) PROVE HandoverInv'
  BY <1>2, HandleHandover, SendHandover, ExitHandover DEF WorkerStep
<1>3. CASE GroupStep
  BY <1>3, AssignHandover, GroupHandover DEF GroupStep
<1>4. CASE UNCHANGED vars
  <2>1. UNCHANGED <<announced, owned, asked, member, committed, next, event, about, offset,
                    pending, sent, worker, chan, at, failed>>
    BY <1>4 DEF vars
  <2>2. \A p \in Partitions : InEvent(p)' = InEvent(p)
    BY <2>1 DEF InEvent
  <2>3. ASSUME NEW p \in Partitions
        PROVE  (Accounted(p) => Accounted(p)') /\ (Clean(p) => Clean(p)')
    BY <2>1, <2>2, AccountKept, CleanKept
  <2>4. owned \subseteq Partitions
    BY DEF IInv, TypeOK
  <2> QED
    BY <2>1, <2>3, <2>4 DEF HandoverInv, RestInv, RoleInv, TenureInv
<1> QED
  BY <1>1, <1>2, <1>3, <1>4 DEF Next

LEMMA AlwaysHandover == Spec => [](IInv /\ HandoverInv)
BY InitIInv, InitHandover, NextIInv, NextHandover, PTL DEF Spec

-----------------------------------------------------------------------------
(* A commit is for partitions this instance has, at or above the committed *)
(* offset.                                                                 *)
LEMMA CommitForward ==
  ASSUME IInv, HandoverInv, announced, CommitOffsets, NEW p \in Partitions
  PROVE  committed'[p] >= committed[p]
<1>1. RoleInv /\ TenureInv /\ TypeOK
  BY DEF HandoverInv, IInv
<1>2. /\ committed[p] \in Nat /\ pending[p] \in Nat /\ next[p] \in Nat
      /\ Behind(p) \in Nat
  BY <1>1, Counts
<1>3. CASE committed'[p] = committed[p]
  BY <1>2, <1>3
<1>4. CASE member /\ pending[p] > 0 /\ committed'[p] = pending[p]
  <2>1. p \in owned
    BY <1>1, <1>2, <1>4 DEF RoleInv, Clean
  <2>2. pending[p] + Behind(p) = next[p] /\ committed[p] + Behind(p) <= next[p]
    BY <1>1, <1>4, <2>1 DEF TenureInv, Accounted
  <2> QED
    BY <1>2, <1>4, <2>2
<1> QED
  BY <1>1, <1>3, <1>4, CommitOf

(* When revocations are announced no commit lowers the committed offset of *)
(* a partition, whoever made it (commitOffsets, stopWorkers, shutdown).    *)
THEOREM NoRewind == Spec => NeverRewinds
<1>1. IInv /\ HandoverInv /\ [Next]_vars =>
        [announced => \A p \in Partitions : committed'[p] >= committed[p]]_vars
  <2> SUFFICES ASSUME IInv, HandoverInv, Next, announced, NEW p \in Partitions
               PROVE  committed'[p] >= committed[p]
    BY DEF vars
  <2>1. CASE EndDrain \/ Stopped \/ Close
    BY <2>1, CommitForward DEF EndDrain, Stopped, Close
  <2>2. ASSUME NEW q \in Partitions, RivalCommits(q)
        PROVE  committed'[p] >= committed[p]
    <3>1. PICK n \in 1..MaxOffset :
             n > committed[q] /\ committed' = [committed EXCEPT ![q] = n]
      BY <2>2 DEF RivalCommits
    <3>2. committed[q] \in Nat /\ committed[p] \in Nat
      BY Counts DEF IInv
    <3>3. committed'[p] = IF p = q THEN n ELSE committed[p]
      BY <3>1 DEF IInv, TypeOK
    <3> QED
      BY <3>1, <3>2, <3>3, ConsumerAssumption DEF ConsumerAssumption
  <2>3. CASE committed' = committed
    <3>1. committed[p] \in Nat
      BY Counts DEF IInv
    <3> QED
      BY <2>3, <3>1
  <2>4. \/ EndDrain \/ Stopped \/ Close \/ committed' = committed
        \/ \E q \in Partitions : RivalCommits(q)
    BY DEF Next, PollStep, WorkerStep, GroupStep, PollNothing, PollUnannounced,
      PollRevoked, PollFatal, Shutdown, PollMessage, Receive, Dispatch, Handle, Send, Exit,
      Evict, Rejoin, Cancel, Assign, Revoke, RivalHandles, log
  <2> QED
    BY <2>1, <2>2, <2>3, <2>4
<1> QED
  BY <1>1, AlwaysHandover, PTL DEF Spec, NeverRewinds

(* At the moment a partition is given up. *)
LEMMA GivenUpDrained ==
  ASSUME IInv, HandoverInv, announced, member, CommitOffsets, ~failed', Drained,
         NEW p \in owned, worker[p] = "none", event # "message"
  PROVE  committed'[p] = next[p]
<1>1. p \in Partitions /\ Accounted(p) /\ chan[p] = <<>>
  BY DEF IInv, TypeOK, HandoverInv, RestInv, TenureInv
<1>2. sent[p] = <<>> /\ Behind(p) = 0
  BY <1>1 DEF Drained, Behind, Ahead, InHand, InEvent
<1>3. committed[p] \in Nat /\ pending[p] \in Nat /\ next[p] \in Nat
  BY <1>1, Counts DEF IInv
<1>4. \/ committed'[p] = committed[p] /\ ~failed /\ pending[p] = 0
      \/ committed'[p] = pending[p] /\ pending[p] > 0
  BY <1>1, CommitOf DEF IInv
<1> QED
  BY <1>1, <1>2, <1>3, <1>4 DEF Accounted

(* Whatever was polled from a partition is handled and committed when it   *)
(* is given up, and no goroutine is left that could report for it, unless  *)
(* a commit failed or the membership was lost (stopWorkers, awaitWorkers). *)
THEOREM HandoverDrained == Spec => HandsOverDrained
<1>1. IInv /\ HandoverInv /\ [Next]_vars =>
        [\A p \in owned \ owned' :
           announced /\ member /\ ~failed' /\ pc # pc' =>
             committed'[p] = next[p] /\ worker'[p] = "none"]_vars
  <2> SUFFICES ASSUME IInv, HandoverInv, Next, NEW p \in owned \ owned',
                      announced, member, ~failed', pc # pc'
               PROVE  committed'[p] = next[p] /\ worker'[p] = "none"
    BY DEF vars
  <2>1. \/ EndDrain /\ event = "revoked" /\ Ended(about) /\ GiveUp(about)
        \/ Stopped
        \/ Close
    BY DEF Next, PollStep, WorkerStep, GroupStep, PollNothing, PollUnannounced,
      PollRevoked, PollFatal, Shutdown, PollMessage, Receive, Dispatch, Handle, Send, Exit,
      Evict, Rejoin, Cancel, Assign, Revoke, RivalHandles, RivalCommits, EndDrain, group,
      local, poller
  <2>2. p \in Partitions
    BY DEF IInv, TypeOK
  <2>3. event # "message"
    BY <2>1 DEF IInv, EventInv, Stopped, Close
  <2>4. worker[p] = "none" /\ worker'[p] = worker[p]
    BY <2>1, <2>2 DEF EndDrain, Stopped, Close, GiveUp, Lose, Ended, workers
  <2>5. CommitOffsets /\ Drained
    BY <2>1 DEF EndDrain, Stopped, Close
  <2> QED
    BY <2>3, <2>4, <2>5, GivenUpDrained
<1> QED
  BY <1>1, AlwaysHandover, PTL DEF Spec, HandsOverDrained

-----------------------------------------------------------------------------
(* Only a worker that is waited for has a closed channel. *)
OpenInv ==
  /\ pc \in {"poll", "drain", "dispatch"} =>
       \A p \in Partitions : open[p] \/ worker[p] = "none"
  /\ pc = "stopping" => \A p \in Partitions \ about : open[p] \/ worker[p] = "none"

LEMMA NextOpen == IInv /\ OpenInv /\ [Next]_vars => OpenInv'
<1> SUFFICES ASSUME IInv, OpenInv, [Next]_vars PROVE OpenInv'
  OBVIOUS
<1>1. CASE EndDrain
  BY <1>1 DEF OpenInv, EndDrain, NextRound, CloseChannels
<1>2. CASE Stopped
  BY <1>2 DEF OpenInv, Stopped, NextRound, Ended, workers
<1>3. CASE Shutdown \/ Close
  BY <1>3 DEF OpenInv, Shutdown, Close
<1>4. ASSUME NEW p \in Partitions, Dispatch(p) PROVE OpenInv'
  BY <1>4 DEF IInv, TypeOK, OpenInv, Dispatch, NextRound
<1>5. ASSUME NEW p \in Partitions, WorkerStep(p) PROVE OpenInv'
  BY <1>5 DEF IInv, TypeOK, OpenInv, WorkerStep, Handle, Send, Exit, poller
<1>6. CASE PollNothing \/ PollUnannounced \/ PollRevoked \/ PollFatal
  BY <1>6 DEF OpenInv, PollNothing, PollUnannounced, PollRevoked, PollFatal, poller,
    workers
<1>7. ASSUME NEW p \in Partitions, PollMessage(p) \/ Receive(p) PROVE OpenInv'
  BY <1>7 DEF OpenInv, PollMessage, Receive, poller, workers
<1>8. CASE GroupStep
  BY <1>8 DEF OpenInv, GroupStep, Evict, Rejoin, Cancel, Assign, Revoke, RivalHandles,
    RivalCommits, local, poller, workers
<1>9. CASE UNCHANGED vars
  BY <1>9 DEF OpenInv, vars
<1> QED
  BY <1>1, <1>2, <1>3, <1>4, <1>5, <1>6, <1>7, <1>8, <1>9 DEF Next, PollStep

(* dispatch never sends on a closed channel or starts a second worker      *)
(* beside a running one, and a worker ends only with its channel empty,    *)
(* whatever is announced (dispatch, worker, stopWorkers, shutdown).        *)
THEOREM NoneStranded == Spec => []NothingStranded
<1>1. Init => OpenInv
  BY DEF Init, OpenInv
<1>2. HandoverInv /\ OpenInv => NothingStranded
  BY DEF HandoverInv, RestInv, OpenInv, NothingStranded
<1> QED
  BY <1>1, <1>2, NextOpen, InitIInv, NextIInv, AlwaysHandover, PTL DEF Spec
=============================================================================
