------------------------------ MODULE Consumer ------------------------------
(***************************************************************************)
(* One instance of kafka.Consumer: the poll goroutine of Run, a worker     *)
(* goroutine with a bounded channel for each partition, and the bounded    *)
(* channel commitCh on which the workers report finished offsets back to   *)
(* the poll goroutine.  The broker and the other members of the group      *)
(* appear only as what they may do to a partition: take it, return it,     *)
(* handle records of it and commit them while this instance is without it, *)
(* or later still when its loss was not announced to them.                 *)
(***************************************************************************)
EXTENDS Naturals, Sequences, FiniteSets

CONSTANTS
  Partitions,   (* the partitions of the command topic                      *)
  MaxOffset,    (* bound: records in a partition, offsets 0..MaxOffset-1    *)
  BufSize,      (* ChannelBufferSize, the capacity of a worker's channel    *)
  CommitCap,    (* capacity of commitCh, bufSize*16 in NewConsumer          *)
  MaxMoves,     (* bound: partitions taken away and evictions               *)
  Modes         (* the values announced may have                            *)

ASSUME ConsumerAssumption ==
  /\ IsFiniteSet(Partitions)
  /\ MaxOffset \in Nat
  /\ BufSize \in Nat \ {0}
  /\ CommitCap \in Nat \ {0}
  /\ MaxMoves \in Nat
  /\ Modes \subseteq BOOLEAN

(* For this many partitions dispatch cannot deadlock. *)
Roomy == (Cardinality(Partitions) - 1) * (BufSize + 1) < CommitCap

VARIABLES
  announced,  (* Poll returns RevokedPartitions events, and the partitions  *)
              (* are given up when they have been handled; otherwise the    *)
              (* client library gives them up inside Poll                   *)
  owned,      (* partitions assigned to this instance                       *)
  member,     (* the group coordinator knows this instance                  *)
  asked,      (* partitions whose revocation waits to be served             *)
  committed,  (* the group's committed offset of each partition             *)
  handled,    (* offsets some handler has finished, here or elsewhere       *)
  next,       (* offset the next Poll returns for an owned partition        *)
  pc,         (* where the poll goroutine is                                *)
  event,      (* kind of the event Poll returned                            *)
  about,      (* partitions that event is about, until it is dealt with     *)
  offset,     (* offset of the message Poll returned                        *)
  pending,    (* drainCommits' map: offset to commit, 0 if no entry         *)
  sent,       (* entries of commitCh, by partition                          *)
  worker,     (* state of each partition's worker goroutine                 *)
  chan,       (* offsets in each worker's channel                           *)
  open,       (* the channel has not been closed                            *)
  at,         (* offset each worker has to report                           *)
  cancelled,  (* the context of Run is done                                 *)
  failed,     (* some CommitOffsets has failed                              *)
  lent,       (* partitions it has lost without being told                  *)
  moves       (* rebalances spent so far                                    *)

group == <<announced, owned, member, asked, next, lent, moves>>
log == <<committed, handled>>
poller == <<pc, event, about, offset>>
workers == <<worker, chan, open, at>>
vars == <<announced, owned, member, asked, committed, handled, next, pc, event,
          about, offset, pending, sent, worker, chan, open, at, cancelled,
          failed, lent, moves>>

Offsets == 0..(MaxOffset - 1)
(* Every record of partition p below offset n has been handled. *)
HandledBelow(p, n) == \A i \in Offsets : i < n => i \in handled[p]

NoEntries == [p \in Partitions |-> 0]

TypeOK ==
  /\ announced \in BOOLEAN /\ member \in BOOLEAN
  /\ cancelled \in BOOLEAN /\ failed \in BOOLEAN
  /\ owned \subseteq Partitions /\ asked \subseteq Partitions
  /\ about \subseteq Partitions /\ lent \subseteq Partitions
  /\ committed \in [Partitions -> 0..MaxOffset]
  /\ handled \in [Partitions -> SUBSET Offsets]
  /\ next \in [Partitions -> 0..MaxOffset]
  /\ pc \in {"poll", "drain", "dispatch", "stopping", "closing", "closed"}
  /\ event \in {"none", "message", "revoked", "fatal"}
  /\ offset \in 0..MaxOffset
  /\ pending \in [Partitions -> 0..MaxOffset]
  /\ sent \in [Partitions -> Seq(1..MaxOffset)]
  /\ worker \in [Partitions -> {"none", "idle", "sending"}]
  /\ chan \in [Partitions -> Seq(Offsets)]
  /\ \A p \in Partitions : Len(chan[p]) <= BufSize
  /\ open \in [Partitions -> BOOLEAN]
  /\ at \in [Partitions -> 0..MaxOffset]
  /\ moves \in 0..MaxMoves

Init ==
  /\ announced \in Modes
  /\ owned = Partitions /\ member = TRUE /\ asked = {}
  /\ committed = [p \in Partitions |-> 0]
  /\ handled = [p \in Partitions |-> {}]
  /\ next = [p \in Partitions |-> 0]
  /\ pc = "poll" /\ event = "none" /\ about = {} /\ offset = 0
  /\ pending = NoEntries
  /\ sent = [p \in Partitions |-> <<>>]
  /\ worker = [p \in Partitions |-> "none"]
  /\ chan = [p \in Partitions |-> <<>>]
  /\ open = [p \in Partitions |-> FALSE]
  /\ at = [p \in Partitions |-> 0]
  /\ cancelled = FALSE /\ failed = FALSE
  /\ lent = {} /\ moves = 0

-----------------------------------------------------------------------------
(* The poll goroutine.                                                     *)

(* The event in hand is dealt with. *)
NextRound == pc' = "poll" /\ event' = "none" /\ about' = {} /\ offset' = 0

(* The library gives the partitions of S back. *)
Lose(S) ==
  /\ owned' = owned \ S
  /\ next' = [p \in Partitions |-> IF p \in S THEN 0 ELSE next[p]]
  /\ lent' = IF announced THEN lent ELSE lent \cup S

GiveUp(S) ==
  /\ Lose(S)
  /\ asked' = asked \ S
  /\ UNCHANGED <<announced, member, moves>>

(* One round of Run's loop: ctx.Done is checked, Poll returns an event or  *)
(* nothing, and drainCommits begins.                                       *)
PollNothing ==
  /\ pc = "poll" /\ ~cancelled
  /\ pc' = "drain" /\ event' = "none" /\ about' = {}
  /\ UNCHANGED <<group, log, offset, pending, sent, workers, cancelled, failed>>

PollMessage(p) ==
  /\ pc = "poll" /\ ~cancelled
  /\ p \in owned /\ next[p] < MaxOffset
  /\ pc' = "drain" /\ event' = "message" /\ about' = {p} /\ offset' = next[p]
  /\ next' = [next EXCEPT ![p] = @ + 1]
  /\ UNCHANGED <<announced, owned, member, asked, lent, moves, log, pending, sent,
                 workers, cancelled, failed>>

(* The rebalance event stays inside the client library. *)
PollUnannounced ==
  /\ pc = "poll" /\ ~cancelled
  /\ ~announced /\ asked # {}
  /\ GiveUp(asked)
  /\ UNCHANGED <<log, poller, pending, sent, workers, cancelled, failed>>

PollRevoked ==
  /\ pc = "poll" /\ ~cancelled
  /\ announced /\ asked # {}
  /\ pc' = "drain" /\ event' = "revoked" /\ about' = asked
  /\ UNCHANGED <<group, log, offset, pending, sent, workers, cancelled, failed>>

PollFatal ==
  /\ pc = "poll" /\ ~cancelled
  /\ pc' = "drain" /\ event' = "fatal" /\ about' = {}
  /\ UNCHANGED <<group, log, offset, pending, sent, workers, cancelled, failed>>

(* drainCommits and awaitWorkers take one entry off commitCh. *)
Receive(p) ==
  /\ pc \in {"drain", "stopping", "closing"}
  /\ sent[p] # <<>>
  /\ sent' = [sent EXCEPT ![p] = Tail(@)]
  /\ pending' = [pending EXCEPT ![p] = IF Head(sent[p]) > @ THEN Head(sent[p]) ELSE @]
  /\ UNCHANGED <<group, log, poller, workers, cancelled, failed>>

(* Variant: the position of the consumer is committed instead of what the  *)
(* workers reported.                                                       *)
CommitOffsetsVariant ==
  /\ pending' = NoEntries
  /\ committed' = [p \in Partitions |-> IF member /\ p \in owned THEN next[p]
                                        ELSE committed[p]]
  /\ UNCHANGED <<handled, failed>>

(* commitOffsets: the coordinator checks that the sender is a member, not  *)
(* that it owns the partitions, and answers for each partition by itself;  *)
(* an error is logged and the offsets are forgotten.                       *)
CommitOffsets ==
  /\ pending' = NoEntries
  /\ IF pending = NoEntries
     THEN UNCHANGED <<committed, failed>>
     ELSE \E taken \in SUBSET {p \in Partitions : pending[p] > 0} :
            /\ member \/ taken = {}
            /\ committed' = [p \in Partitions |->
                               IF p \in taken THEN pending[p] ELSE committed[p]]
            /\ failed' = (failed \/ \E p \in Partitions \ taken : pending[p] > 0)
  /\ UNCHANGED handled

(* Variant: the channels are left open. *)
CloseChannelsVariant(S) == UNCHANGED open

(* close(pw.ch) for the workers of S, which leave the map. *)
CloseChannels(S) == open' = [p \in Partitions |-> open[p] /\ p \notin S]

(* Variant: drainCommits may return before commitCh is empty. *)
DrainedVariant == TRUE

Drained == \A p \in Partitions : sent[p] = <<>>

(* Variant: nobody waits for the workers. *)
EndedVariant(S) == TRUE

(* The done channels of the workers of S are closed. *)
Ended(S) == \A p \in S : worker[p] = "none"

(* The poll goroutine has found commitCh empty: it commits and turns to    *)
(* the event in hand.                                                      *)
EndDrain ==
  /\ pc = "drain" /\ Drained
  /\ CommitOffsets
  /\ \/ /\ event = "none"
        /\ NextRound
        /\ UNCHANGED <<group, open>>
     \/ /\ event = "message"
        /\ pc' = "dispatch"
        /\ UNCHANGED <<group, event, about, offset, open>>
     \/ /\ event = "revoked" /\ Ended(about)
        /\ GiveUp(about) /\ NextRound
        /\ UNCHANGED open
     \/ /\ event = "revoked" /\ ~Ended(about)
        /\ pc' = "stopping"
        /\ CloseChannels(about)
        /\ UNCHANGED <<group, event, about, offset>>
     \/ /\ event = "fatal"
        /\ pc' = "closing"
        /\ CloseChannels(Partitions)
        /\ UNCHANGED <<group, event, about, offset>>
  /\ UNCHANGED <<sent, worker, chan, at, cancelled>>

(* Variant: one record too many. *)
RoomVariant(p) == Len(chan[p]) <= BufSize

Room(p) == Len(chan[p]) < BufSize

(* dispatch: the partition's worker is started if there is none; the send  *)
(* waits for room in its channel.                                          *)
Dispatch(p) ==
  /\ pc = "dispatch" /\ p \in about
  /\ Room(p)
  /\ chan' = [chan EXCEPT ![p] = Append(@, offset)]
  /\ worker' = [worker EXCEPT ![p] = IF @ = "none" THEN "idle" ELSE @]
  /\ open' = [open EXCEPT ![p] = TRUE]
  /\ NextRound
  /\ UNCHANGED <<group, log, pending, sent, at, cancelled, failed>>

(* Variant: stopWorkers does not wait for the workers. *)
StoppedVariant ==
  /\ pc = "stopping" /\ Drained
  /\ CommitOffsets
  /\ GiveUp(about) /\ NextRound
  /\ UNCHANGED <<sent, workers, cancelled>>

(* stopWorkers returns: the workers it waited for are gone and commitCh is *)
(* empty.  The partitions are given up.                                    *)
Stopped ==
  /\ pc = "stopping" /\ Ended(about) /\ Drained
  /\ CommitOffsets
  /\ GiveUp(about) /\ NextRound
  /\ UNCHANGED <<sent, workers, cancelled>>

(* ctx.Done: shutdown closes every channel. *)
Shutdown ==
  /\ pc = "poll" /\ cancelled
  /\ pc' = "closing"
  /\ CloseChannels(Partitions)
  /\ UNCHANGED <<group, log, event, about, offset, pending, sent, worker, chan, at,
                 cancelled, failed>>

(* shutdown's awaitWorkers is over: the rest is committed and Close leaves *)
(* the group.                                                              *)
Close ==
  /\ pc = "closing" /\ Ended(Partitions) /\ Drained
  /\ CommitOffsets
  /\ pc' = "closed"
  /\ Lose(Partitions) /\ member' = FALSE /\ asked' = {}
  /\ event' = "none" /\ about' = {} /\ offset' = 0
  /\ UNCHANGED <<announced, moves, sent, workers, cancelled>>

-----------------------------------------------------------------------------
(* The worker of partition p.                                              *)

(* The worker receives the next record and its handler returns, with or    *)
(* without an error.                                                       *)
Handle(p) ==
  /\ worker[p] = "idle" /\ chan[p] # <<>>
  /\ chan' = [chan EXCEPT ![p] = Tail(@)]
  /\ at' = [at EXCEPT ![p] = Head(chan[p])]
  /\ handled' = [handled EXCEPT ![p] = @ \cup {Head(chan[p])}]
  /\ worker' = [worker EXCEPT ![p] = "sending"]
  /\ UNCHANGED <<group, committed, poller, pending, sent, open, cancelled, failed>>

(* The entries of commitCh.  *)
InFlight == {e \in Partitions \X (1..CommitCap) : e[2] <= Len(sent[e[1]])}

Full == Cardinality(InFlight) >= CommitCap

Send(p) ==
  /\ worker[p] = "sending" /\ ~Full
  /\ sent' = [sent EXCEPT ![p] = Append(@, at[p] + 1)]
  /\ worker' = [worker EXCEPT ![p] = "idle"]
  /\ at' = [at EXCEPT ![p] = 0]
  /\ UNCHANGED <<group, log, poller, pending, chan, open, cancelled, failed>>

(* Variant: the worker ends once its channel is closed. *)
ExitVariant(p) ==
  /\ worker[p] = "idle" /\ ~open[p]
  /\ worker' = [worker EXCEPT ![p] = "none"]
  /\ UNCHANGED <<group, log, poller, pending, sent, chan, open, at, cancelled, failed>>

(* The channel is closed and empty: range ends. *)
Exit(p) ==
  /\ worker[p] = "idle" /\ chan[p] = <<>> /\ ~open[p]
  /\ worker' = [worker EXCEPT ![p] = "none"]
  /\ UNCHANGED <<group, log, poller, pending, sent, chan, open, at, cancelled, failed>>

-----------------------------------------------------------------------------
(* The group and the rest of the world.                                    *)

local == <<poller, pending, sent, workers, failed>>

(* A partition that no other member has comes to this instance, inside     *)
(* Poll; it is read on from the committed offset.                          *)
Assign(p) ==
  /\ pc = "poll" /\ ~cancelled
  /\ member /\ p \notin owned \cup asked
  /\ owned' = owned \cup {p}
  /\ next' = [next EXCEPT ![p] = committed[p]]
  /\ UNCHANGED <<announced, member, asked, lent, moves, log, local, cancelled>>

(* A rebalance asks for partition p. *)
Revoke(p) ==
  /\ member /\ p \in owned \ asked
  /\ moves < MaxMoves /\ moves' = moves + 1
  /\ asked' = asked \cup {p}
  /\ UNCHANGED <<announced, owned, next, member, lent, log, local, cancelled>>

(* The session or max.poll.interval runs out: the coordinator drops the    *)
(* member, and every partition it had may be assigned elsewhere.           *)
Evict ==
  /\ member /\ pc # "closed"
  /\ moves < MaxMoves /\ moves' = moves + 1
  /\ member' = FALSE /\ Lose(Partitions)
  /\ asked' = asked \cup owned
  /\ UNCHANGED <<announced, log, local, cancelled>>

(* The library joins again once the loss has been served. *)
Rejoin ==
  /\ ~member /\ asked = {} /\ pc # "closed"
  /\ member' = TRUE
  /\ UNCHANGED <<announced, owned, asked, next, lent, moves, log, local, cancelled>>

(* Another member has records of p: it owns p, or it once did and was not  *)
(* told of the loss.                                                       *)
Rival(p) == p \notin owned \/ (~announced /\ p \in lent)

(* It handles one behind all that are handled already ...                  *)
RivalHandles(p) ==
  /\ Rival(p)
  /\ \E i \in Offsets :
       /\ i \notin handled[p] /\ HandledBelow(p, i)
       /\ handled' = [handled EXCEPT ![p] = @ \cup {i}]
  /\ UNCHANGED <<group, committed, local, cancelled>>

(* ... and commits what it has handled, which may be less than what is     *)
(* committed when its own loss of p was not announced.                     *)
RivalCommits(p) ==
  /\ Rival(p)
  /\ \E n \in 1..MaxOffset :
       /\ n > committed[p] \/ ~announced
       /\ HandledBelow(p, n)
       /\ committed' = [committed EXCEPT ![p] = n]
  /\ UNCHANGED <<group, handled, local, cancelled>>

Cancel ==
  /\ ~cancelled /\ pc # "closed"
  /\ cancelled' = TRUE
  /\ UNCHANGED <<group, log, local>>

-----------------------------------------------------------------------------
PollStep ==
  \/ PollNothing \/ PollUnannounced \/ PollRevoked \/ PollFatal
  \/ EndDrain \/ Stopped \/ Shutdown \/ Close
  \/ \E p \in Partitions : PollMessage(p) \/ Receive(p) \/ Dispatch(p)

WorkerStep(p) == Handle(p) \/ Send(p) \/ Exit(p)

GroupStep ==
  \/ Evict \/ Rejoin \/ Cancel
  \/ \E p \in Partitions : Assign(p) \/ Revoke(p) \/ RivalHandles(p) \/ RivalCommits(p)

Next ==
  \/ PollStep
  \/ \E p \in Partitions : WorkerStep(p)
  \/ GroupStep

(* Goroutines are scheduled, Poll returns within its 100 ms, and handlers  *)
(* return (Processing).                                                    *)
Spec ==
  /\ Init /\ [][Next]_vars
  /\ WF_vars(PollStep)
  /\ \A p \in Partitions : WF_vars(WorkerStep(p))

-----------------------------------------------------------------------------
(* Blocked in dispatch on a full channel, the poll goroutine does not read *)
(* commitCh; the worker that should make room is then never the one that   *)
(* waits for room in commitCh (consumer.go:161 against consumer.go:184).   *)
NeverStuck ==
  \A p \in about :
    pc = "dispatch" /\ ~Room(p) => ~(worker[p] = "sending" /\ Full)

(* Workers, channels and rebalances together keep what CommitLog promises. *)
Log == INSTANCE CommitLog
CommitsWhatIsHandled == Log!Spec

(* When revocations are announced no commit of this instance lowers the    *)
(* offset another member has committed, or its own.                        *)
NeverRewinds ==
  [][announced => \A p \in Partitions : committed'[p] >= committed[p]]_vars

(* README, "Rebalance-safe - revoked partitions trigger targeted worker    *)
(* shutdown with offset drain": whatever moves, no commit of this instance *)
(* (the poll goroutine goes on with every one) makes the group read again  *)
(* from a lower offset.                                                    *)
RebalanceSafe ==
  [][pc' # pc => \A p \in Partitions : committed'[p] >= committed[p]]_vars

(* A partition is handed over with everything that was polled from it      *)
(* handled and committed, unless a commit failed or the membership was     *)
(* lost (stopWorkers, shutdown).                                           *)
HandsOverDrained ==
  [][\A p \in owned \ owned' :
       announced /\ member /\ ~failed' /\ pc # pc' =>
         committed'[p] = next[p] /\ worker'[p] = "none"]_vars

(* README, "Deadlock-free shutdown": once the context is done Run returns. *)
ShutdownEnds == cancelled ~> pc = "closed"

(* dispatch neither sends on a closed channel, which panics, nor starts a  *)
(* second worker beside one that still runs (stopWorkers has deleted it    *)
(* from the map), and no record is left in a channel without a worker.     *)
NothingStranded ==
  \A p \in Partitions :
    /\ pc = "dispatch" /\ p \in about => open[p] \/ worker[p] = "none"
    /\ chan[p] # <<>> => worker[p] # "none"

(* So every record that was dispatched is taken by its worker, which does  *)
(* nothing with it but handle it.                                          *)
Dispatched(p, i) == \E k \in DOMAIN chan[p] : chan[p][k] = i

DispatchedIsHandled ==
  \A p \in Partitions : \A i \in Offsets : Dispatched(p, i) ~> ~Dispatched(p, i)
=============================================================================
