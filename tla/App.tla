-------------------------------- MODULE App ---------------------------------
(***************************************************************************)
(* The process as a whole: the four goroutines of App.Run's errgroup (the  *)
(* HTTP server, the consumer with its partition workers, the outbox relay  *)
(* and the one that waits for the end), the HTTP handlers, which belong to *)
(* no group, and the two things they share: the connection pool and the    *)
(* Kafka producer.  What a worker or a relay does to an order is in        *)
(* Processing and Outbox; here is what it holds and what it waits for.     *)
(***************************************************************************)
EXTENDS Naturals, FiniteSets

CONSTANTS
  Workers,   (* partition workers, one for each partition assigned          *)
  Requests,  (* HTTP requests that can be in flight at a time               *)
  Relay,     (* the outbox relay                                            *)
  MaxConns,  (* Postgres.MaxConns                                           *)
  Buffer     (* bound: records that wait in a worker's channel              *)

Users == Workers \cup Requests \cup {Relay}

ASSUME AppAssumption ==
  /\ IsFiniteSet(Workers) /\ IsFiniteSet(Requests)
  /\ Relay \notin Workers \cup Requests
  /\ Workers \cap Requests = {}
  /\ MaxConns \in Nat \ {0}
  /\ Buffer \in Nat \ {0}

(* With a connection more than workers, the pool cannot deadlock. *)
Ample == Cardinality(Workers) < MaxConns

VARIABLES
  main,       (* App.Run: waits for the group, then closes what is shared   *)
  cancelled,  (* gCtx is done                                               *)
  server,     (* ListenAndServe                                             *)
  stopper,    (* the goroutine that waits for gCtx and calls shutdown       *)
  consumer,   (* Consumer.Run                                               *)
  worker,     (* where each worker is in its handler                        *)
  buffered,   (* records in each worker's channel                           *)
  relay,      (* where the relay is                                         *)
  request,    (* where each HTTP handler is                                 *)
  outlived,   (* requests that were running when Shutdown gave up           *)
  outer,      (* who holds a connection for a transaction or a query        *)
  inner       (* workers that hold a second one, of UpdateStatusTx          *)

conns == <<outer, inner>>
work == <<worker, buffered>>
http == <<server, request, outlived>>
vars == <<main, cancelled, server, stopper, consumer, worker, buffered, relay,
          request, outlived, outer, inner>>

Busy == {"begin", "saga", "nested", "inner", "last", "publish"}

Held == Cardinality(outer) + Cardinality(inner)

Running == {r \in Requests : request[r] # "none"}

TypeOK ==
  /\ main \in {"waiting", "flushing", "closing", "exited"}
  /\ cancelled \in BOOLEAN
  /\ server \in {"serving", "failed", "closed"}
  /\ stopper \in {"waiting", "draining", "done"}
  /\ consumer \in {"running", "stopping", "failing", "ended"}
  /\ worker \in [Workers -> {"gone", "idle"} \cup Busy]
  /\ buffered \in [Workers -> 0..Buffer]
  /\ relay \in {"waiting", "begin", "batch", "ended"}
  /\ request \in [Requests -> {"none", "begin", "query"}]
  /\ outlived \subseteq Requests
  /\ outer \subseteq Users /\ inner \subseteq Workers
  /\ Held <= MaxConns

Init ==
  /\ main = "waiting" /\ cancelled = FALSE
  /\ server = "serving" /\ stopper = "waiting" /\ consumer = "running"
  /\ worker = [w \in Workers |-> "gone"]
  /\ buffered = [w \in Workers |-> 0]
  /\ relay = "waiting"
  /\ request = [r \in Requests |-> "none"]
  /\ outlived = {}
  /\ outer = {} /\ inner = {}

-----------------------------------------------------------------------------
(* The pool.  Begin waits for a free connection without a timeout; it      *)
(* fails when the caller's context is done or the pool is closed.          *)

PoolOpen == main \in {"waiting", "flushing"}

(* Variant: one connection too many. *)
FreeVariant == PoolOpen /\ Held <= MaxConns

Free == PoolOpen /\ Held < MaxConns

(* A first connection, for the user u. *)
Take(u) == Free /\ outer' = outer \cup {u} /\ UNCHANGED inner

(* Variant: a transaction that fails is not rolled back. *)
GiveBackVariant(u) == UNCHANGED conns

GiveBack(u) == outer' = outer \ {u} /\ UNCHANGED inner

-----------------------------------------------------------------------------
(* A partition worker.                                                     *)

At(w, s) == worker[w] = s
Goto(w, S) == \E s \in S : worker' = [worker EXCEPT ![w] = s]

elsewhere == <<main, cancelled, stopper, consumer, relay, http>>

(* The next record; its handler opens the transaction of the idempotency   *)
(* key.                                                                    *)
NextRecord(w) ==
  /\ At(w, "idle") /\ buffered[w] > 0
  /\ buffered' = [buffered EXCEPT ![w] = @ - 1]
  /\ Goto(w, {"begin"})
  /\ UNCHANGED <<elsewhere, conns>>

Begin(w) ==
  /\ At(w, "begin")
  /\ ~cancelled /\ Take(w)
  /\ Goto(w, {"saga"})
  /\ UNCHANGED <<elsewhere, buffered>>

(* Begin fails: the record is published again or to the DLQ, unless its    *)
(* retry count cannot be read.                                             *)
BeginFails(w) ==
  /\ At(w, "begin")
  /\ cancelled \/ Free
  /\ Goto(w, {"publish", "idle"})
  /\ UNCHANGED <<elsewhere, buffered, conns>>

(* The saga gets to its last step, or is over: a duplicate, a failure.     *)
Saga(w) ==
  /\ At(w, "saga")
  /\ Goto(w, {"nested", "last"})
  /\ UNCHANGED <<elsewhere, buffered, conns>>

(* UpdateStatusTx takes a connection of its own ... *)
BeginNested(w) ==
  /\ At(w, "nested")
  /\ ~cancelled /\ Free
  /\ inner' = inner \cup {w} /\ UNCHANGED outer
  /\ Goto(w, {"inner"})
  /\ UNCHANGED <<elsewhere, buffered>>

(* ... or fails, and the saga is compensated. *)
NestedFails(w) ==
  /\ At(w, "nested")
  /\ cancelled \/ Free
  /\ Goto(w, {"last"})
  /\ UNCHANGED <<elsewhere, buffered, conns>>

(* Variant: no Rollback is deferred. *)
EndNestedVariant(w) ==
  /\ At(w, "inner")
  /\ UNCHANGED conns
  /\ Goto(w, {"last"})
  /\ UNCHANGED <<elsewhere, buffered>>

EndNested(w) ==
  /\ At(w, "inner")
  /\ inner' = inner \ {w} /\ UNCHANGED outer
  /\ Goto(w, {"last"})
  /\ UNCHANGED <<elsewhere, buffered>>

(* The outer transaction commits or is rolled back. *)
EndOuter(w) ==
  /\ At(w, "last")
  /\ GiveBack(w)
  /\ Goto(w, {"publish", "idle"})
  /\ UNCHANGED <<elsewhere, buffered>>

(* Publish returns: delivered, failed, or the context is done. *)
Published(w) ==
  /\ At(w, "publish")
  /\ Goto(w, {"idle"})
  /\ UNCHANGED <<elsewhere, buffered, conns>>

(* The channel is closed and empty. *)
WorkerEnds(w) ==
  /\ At(w, "idle") /\ buffered[w] = 0 /\ consumer \in {"stopping", "failing"}
  /\ Goto(w, {"gone"})
  /\ UNCHANGED <<elsewhere, buffered, conns>>

-----------------------------------------------------------------------------
(* The consumer.                                                           *)

Dispatch(w) ==
  /\ consumer = "running" /\ buffered[w] < Buffer
  /\ buffered' = [buffered EXCEPT ![w] = @ + 1]
  /\ worker' = [worker EXCEPT ![w] = IF @ = "gone" THEN "idle" ELSE @]
  /\ UNCHANGED <<main, cancelled, stopper, consumer, relay, http, conns>>

(* Run sees gCtx, or Poll returns a fatal error; either way the channels   *)
(* are closed.                                                             *)
ConsumerStops ==
  /\ consumer = "running" /\ cancelled
  /\ consumer' = "stopping"
  /\ UNCHANGED <<main, cancelled, stopper, relay, http, work, conns>>

ConsumerFails ==
  /\ consumer = "running"
  /\ consumer' = "failing"
  /\ UNCHANGED <<main, cancelled, stopper, relay, http, work, conns>>

(* Variant: Run does not wait for the workers. *)
AllGoneVariant == TRUE

AllGone == \A w \in Workers : worker[w] = "gone"

(* Variant: Run returns nil after a fatal error. *)
ConsumerEndsVariant ==
  /\ consumer \in {"stopping", "failing"} /\ AllGone
  /\ consumer' = "ended"
  /\ UNCHANGED <<main, cancelled, stopper, relay, http, work, conns>>

(* Run returns; an error ends the group. *)
ConsumerEnds ==
  /\ consumer \in {"stopping", "failing"} /\ AllGone
  /\ cancelled' = (cancelled \/ consumer = "failing")
  /\ consumer' = "ended"
  /\ UNCHANGED <<main, stopper, relay, http, work, conns>>

-----------------------------------------------------------------------------
(* The relay.                                                              *)

others == <<main, cancelled, stopper, consumer, http, work>>

(* drain looks at the context before each batch. *)
Tick ==
  /\ relay = "waiting" /\ ~cancelled
  /\ relay' = "begin"
  /\ UNCHANGED <<others, conns>>

RelayBegins ==
  /\ relay = "begin"
  /\ ~cancelled /\ Take(Relay)
  /\ relay' = "batch"
  /\ UNCHANGED others

RelayFails ==
  /\ relay = "begin"
  /\ cancelled \/ Free
  /\ relay' = "waiting"
  /\ UNCHANGED <<others, conns>>

(* The batch ends; after a full one drain looks for the next at once.      *)
BatchEnds ==
  /\ relay = "batch"
  /\ GiveBack(Relay)
  /\ \/ relay' = "waiting"
     \/ ~cancelled /\ relay' = "begin"
  /\ UNCHANGED others

RelayEnds ==
  /\ relay = "waiting" /\ cancelled
  /\ relay' = "ended"
  /\ UNCHANGED <<others, conns>>

-----------------------------------------------------------------------------
(* The HTTP server.                                                        *)

core == <<main, cancelled, stopper, consumer, relay, work>>

(* A request comes, on a new connection or on one that was open when the    *)
(* listener failed, and its handler calls the service: SaveTx or FindByID. *)
Accept(r) ==
  /\ server # "closed" /\ request[r] = "none"
  /\ request' = [request EXCEPT ![r] = "begin"]
  /\ UNCHANGED <<core, server, outlived, conns>>

Query(r) ==
  /\ request[r] = "begin" /\ main # "exited"
  /\ Take(r)
  /\ request' = [request EXCEPT ![r] = "query"]
  /\ UNCHANGED <<core, server, outlived>>

(* The client is gone, or the pool has been closed. *)
QueryFails(r) ==
  /\ request[r] = "begin" /\ main # "exited"
  /\ request' = [request EXCEPT ![r] = "none"]
  /\ UNCHANGED <<core, server, outlived, conns>>

Respond(r) ==
  /\ request[r] = "query" /\ main # "exited"
  /\ GiveBack(r)
  /\ request' = [request EXCEPT ![r] = "none"]
  /\ UNCHANGED <<core, server, outlived>>

(* The listener cannot be opened or fails: ListenAndServe returns.  It      *)
(* leaves the open connections to Shutdown.                                *)
ListenFails ==
  /\ server = "serving"
  /\ server' = "failed" /\ cancelled' = TRUE
  /\ UNCHANGED <<main, stopper, consumer, relay, work, request, outlived, conns>>

-----------------------------------------------------------------------------
(* The end.                                                                *)

Signal ==
  /\ ~cancelled
  /\ cancelled' = TRUE
  /\ UNCHANGED <<main, stopper, consumer, relay, http, work, conns>>

(* Shutdown closes the listener, so that ListenAndServe returns.           *)
Shutdown ==
  /\ stopper = "waiting" /\ cancelled
  /\ stopper' = "draining" /\ server' = "closed"
  /\ UNCHANGED <<main, cancelled, consumer, relay, work, request, outlived, conns>>

(* Every handler has returned, or some have not and thirty seconds are     *)
(* over.                                                                   *)
ShutdownReturns ==
  /\ stopper = "draining"
  /\ stopper' = "done" /\ outlived' = Running
  /\ UNCHANGED <<main, cancelled, consumer, server, relay, work, request, conns>>

GroupDone ==
  /\ server = "closed" /\ consumer = "ended" /\ relay = "ended"
  /\ stopper = "done"

inside == <<cancelled, stopper, consumer, relay, http, work, conns>>

(* g.Wait returns and the producer is closed, ... *)
CloseProducer ==
  /\ main = "waiting" /\ GroupDone
  /\ main' = "flushing"
  /\ UNCHANGED inside

(* ... then the pool refuses Begin ... *)
ClosePool == main = "flushing" /\ main' = "closing" /\ UNCHANGED inside

AllBack == outer = {} /\ inner = {}

(* ... and waits for every connection to come back. *)
Exit == main = "closing" /\ AllBack /\ main' = "exited" /\ UNCHANGED inside

-----------------------------------------------------------------------------
WorkerStep(w) ==
  \/ NextRecord(w) \/ Begin(w) \/ BeginFails(w) \/ Saga(w) \/ BeginNested(w)
  \/ NestedFails(w) \/ EndNested(w) \/ EndOuter(w) \/ Published(w) \/ WorkerEnds(w)

ConsumerStep == ConsumerStops \/ ConsumerEnds

RelayStep == Tick \/ RelayBegins \/ RelayFails \/ BatchEnds \/ RelayEnds

HandlerStep(r) == Accept(r) \/ Query(r) \/ QueryFails(r) \/ Respond(r)

StopStep == Shutdown \/ ShutdownReturns

MainStep == CloseProducer \/ ClosePool \/ Exit

Next ==
  \/ \E w \in Workers : WorkerStep(w) \/ Dispatch(w)
  \/ \E r \in Requests : HandlerStep(r)
  \/ ConsumerStep \/ ConsumerFails \/ RelayStep \/ ListenFails \/ Signal
  \/ StopStep \/ MainStep

(* Goroutines are scheduled, statements and publishes return, and the pool *)
(* serves those who wait in turn (strong fairness).  Nothing says that a   *)
(* client calls, a record comes or a signal is sent.                       *)
Spec ==
  /\ Init /\ [][Next]_vars
  /\ \A w \in Workers : SF_vars(WorkerStep(w))
  /\ SF_vars(RelayStep)
  /\ \A r \in Requests : SF_vars(Query(r)) /\ WF_vars(Respond(r))
  /\ WF_vars(ConsumerStep) /\ WF_vars(StopStep) /\ WF_vars(MainStep)

-----------------------------------------------------------------------------
(* A transaction inside a transaction: when no connection is left, at      *)
(* least one is held by somebody who does not wait for another             *)
(* (UpdateStatusTx within withIdempotency, storage.go:66).                 *)
PoolNeverStuck ==
  Held >= MaxConns => \E u \in outer : u \in Workers => ~At(u, "nested")

(* README, "Resources are released after all goroutines finish": when the  *)
(* producer is closed no worker and no relay is left, and of the HTTP      *)
(* handlers only those that Shutdown gave up (app.go:115).                 *)
ReleasedLast ==
  main # "waiting" =>
    /\ \A w \in Workers : worker[w] = "gone" /\ buffered[w] = 0
    /\ relay = "ended"
    /\ outer \cup Running \subseteq outlived

(* A worker that waits for its second connection gets it, or learns that   *)
(* it cannot, whatever relay and handlers take in between.                 *)
NestedServed ==
  \A w \in Workers : At(w, "nested") ~> ~At(w, "nested")

(* A signal, a listener that fails and a fatal error of the consumer all   *)
(* end the process, and no open transaction or query keeps it.             *)
Stops == cancelled \/ consumer = "failing" ~> main = "exited"
=============================================================================
