------------------------------ MODULE AppProofs ------------------------------
(***************************************************************************)
(* Proofs about App, for any number of workers, requests and connections:  *)
(* types, that the pool has a way on when it is larger than the number of  *)
(* workers, and that nothing is closed while it is in use.                 *)
(***************************************************************************)
EXTENDS App, FiniteSetTheorems, TLAPS

(* Who holds a connection follows from where everybody is. *)
HoldInv ==
  /\ \A w \in Workers :
       /\ w \in outer => worker[w] \in {"saga", "nested", "inner", "last"}
       /\ w \in inner => worker[w] = "inner" /\ w \in outer
       /\ worker[w] \in {"saga", "nested", "inner", "last"} => w \in outer
  /\ Relay \in outer => relay = "batch"
  /\ \A r \in Requests : r \in outer => request[r] = "query"

(* What has ended stays so, and main waits for all of it. *)
EndInv ==
  /\ \A w \in Workers : worker[w] = "gone" => buffered[w] = 0
  /\ consumer = "ended" => AllGone
  /\ stopper # "waiting" => server = "closed"
  /\ stopper = "done" => Running \subseteq outlived
  /\ main # "waiting" => GroupDone

IInv == TypeOK /\ HoldInv /\ EndInv

-----------------------------------------------------------------------------
LEMMA UsersFinite == IsFiniteSet(Users)
<1>1. IsFiniteSet(Workers \cup Requests)
  BY AppAssumption, FS_Union DEF AppAssumption
<1>2. IsFiniteSet({Relay})
  BY FS_Singleton
<1> QED
  BY <1>1, <1>2, FS_Union DEF Users

(* Both sets of connections are finite, and a step that takes none leaves  *)
(* no more of them out than before.                                        *)
LEMMA HeldFinite ==
  ASSUME TypeOK
  PROVE  /\ IsFiniteSet(outer) /\ IsFiniteSet(inner)
         /\ Cardinality(outer) \in Nat /\ Cardinality(inner) \in Nat
<1>1. IsFiniteSet(outer) /\ IsFiniteSet(inner)
  BY UsersFinite, FS_Subset, AppAssumption DEF AppAssumption, TypeOK
<1> QED
  BY <1>1, FS_CardinalityType

LEMMA HeldShrinks ==
  ASSUME TypeOK, outer' \subseteq outer, inner' \subseteq inner
  PROVE  Held' <= MaxConns
<1>1. /\ IsFiniteSet(outer) /\ IsFiniteSet(inner)
      /\ Cardinality(outer) \in Nat /\ Cardinality(inner) \in Nat
  BY HeldFinite
<1>2. /\ Cardinality(outer') <= Cardinality(outer) /\ Cardinality(inner') <= Cardinality(inner)
      /\ IsFiniteSet(outer') /\ IsFiniteSet(inner')
  BY <1>1, FS_Subset
<1>3. Cardinality(outer') \in Nat /\ Cardinality(inner') \in Nat
  BY <1>2, FS_CardinalityType
<1>4. Cardinality(outer) + Cardinality(inner) <= MaxConns /\ MaxConns \in Nat
  BY AppAssumption DEF AppAssumption, TypeOK, Held
<1> QED
  BY <1>1, <1>2, <1>3, <1>4 DEF Held

LEMMA HeldGrows ==
  ASSUME TypeOK, Free, NEW u,
         \/ outer' = outer \cup {u} /\ inner' = inner
         \/ inner' = inner \cup {u} /\ outer' = outer
  PROVE  Held' <= MaxConns
<1>1. /\ IsFiniteSet(outer) /\ IsFiniteSet(inner)
      /\ Cardinality(outer) \in Nat /\ Cardinality(inner) \in Nat
  BY HeldFinite
<1>2. ASSUME NEW S, IsFiniteSet(S), Cardinality(S) \in Nat
      PROVE  Cardinality(S \cup {u}) \in {Cardinality(S), Cardinality(S) + 1}
  BY <1>2, FS_AddElement
<1>3. \/ /\ Cardinality(outer') \in {Cardinality(outer), Cardinality(outer) + 1}
         /\ Cardinality(inner') = Cardinality(inner)
      \/ /\ Cardinality(inner') \in {Cardinality(inner), Cardinality(inner) + 1}
         /\ Cardinality(outer') = Cardinality(outer)
  BY <1>1, <1>2
<1>4. Cardinality(outer) + Cardinality(inner) < MaxConns /\ MaxConns \in Nat
  BY AppAssumption DEF AppAssumption, Free, Held
<1> QED
  BY <1>1, <1>3, <1>4 DEF Held

LEMMA InitIInv == Init => IInv
<1> SUFFICES ASSUME Init PROVE IInv
  OBVIOUS
<1>1. Cardinality({}) = 0 /\ MaxConns \in Nat /\ Buffer \in Nat
  BY FS_EmptySet, AppAssumption DEF AppAssumption
<1>2. Held <= MaxConns
  BY <1>1 DEF Init, Held
<1>3. TypeOK
  <2>1. 0 \in 0..Buffer
    BY <1>1
  <2>2. buffered \in [Workers -> 0..Buffer]
    BY <2>1 DEF Init
  <2>3. /\ worker \in [Workers -> {"gone", "idle"} \cup Busy]
        /\ request \in [Requests -> {"none", "begin", "query"}]
    BY DEF Init
  <2> QED
    BY <1>2, <2>2, <2>3 DEF Init, TypeOK
<1>4. HoldInv /\ EndInv
  BY DEF Init, HoldInv, EndInv
<1> QED
  BY <1>3, <1>4 DEF IInv

-----------------------------------------------------------------------------
(* A worker's step changes its place and perhaps its connections.          *)
LEMMA WorkerIInv == ASSUME IInv, NEW w \in Workers, WorkerStep(w) PROVE IInv'
<1> USE DEF elsewhere, http, At, Goto
<1>1. PICK s \in {"gone", "idle"} \cup Busy : worker' = [worker EXCEPT ![w] = s]
  BY DEF WorkerStep, NextRecord, Begin, BeginFails, Saga, BeginNested, NestedFails,
    EndNested, EndOuter, Published, WorkerEnds, Busy
<1>2. /\ UNCHANGED elsewhere
      /\ buffered' \in [Workers -> 0..Buffer]
      /\ \A v \in Workers : v # w => buffered'[v] = buffered[v]
  <2>1. CASE NextRecord(w)
    <3>1. buffered[w] - 1 \in 0..Buffer
      BY <2>1, AppAssumption DEF NextRecord, IInv, TypeOK, AppAssumption
    <3> QED
      BY <2>1, <3>1 DEF NextRecord, IInv, TypeOK
  <2>2. CASE ~NextRecord(w)
    BY <2>2 DEF IInv, TypeOK, WorkerStep, Begin, BeginFails, Saga, BeginNested,
      NestedFails, EndNested, EndOuter, Published, WorkerEnds
  <2> QED
    BY <2>1, <2>2
<1>3. /\ outer' \subseteq Users /\ inner' \subseteq Workers /\ Held' <= MaxConns
      /\ \A u : u # w => (u \in outer' <=> u \in outer) /\ (u \in inner' <=> u \in inner)
  <2>1. w \in Users
    BY DEF Users
  <2>2. CASE Begin(w)
    BY <2>1, <2>2, HeldGrows DEF Begin, Take, IInv, TypeOK
  <2>3. CASE BeginNested(w)
    BY <2>3, HeldGrows DEF BeginNested, IInv, TypeOK
  <2>4. CASE EndNested(w)
    BY <2>4, HeldShrinks DEF EndNested, IInv, TypeOK
  <2>5. CASE EndOuter(w)
    BY <2>5, HeldShrinks DEF EndOuter, GiveBack, IInv, TypeOK
  <2>6. CASE UNCHANGED conns
    BY <2>6, HeldShrinks DEF conns, IInv, TypeOK
  <2> QED
    BY <2>2, <2>3, <2>4, <2>5, <2>6 DEF WorkerStep, NextRecord, BeginFails, Saga,
      NestedFails, Published, WorkerEnds
<1>4. TypeOK'
  BY <1>1, <1>2, <1>3 DEF IInv, TypeOK
<1>5. /\ w \in outer' => s \in {"saga", "nested", "inner", "last"}
      /\ w \in inner' => s = "inner" /\ w \in outer'
      /\ s \in {"saga", "nested", "inner", "last"} => w \in outer'
  <2>0. worker'[w] = s
    BY <1>1 DEF IInv, TypeOK
  <2>1. CASE NextRecord(w) \/ Begin(w) \/ BeginFails(w) \/ Saga(w) \/ NestedFails(w)
    BY <2>0, <2>1 DEF IInv, TypeOK, HoldInv, NextRecord, Begin, BeginFails, Saga,
      NestedFails, Take, conns
  <2>2. CASE BeginNested(w) \/ EndNested(w) \/ EndOuter(w) \/ Published(w) \/ WorkerEnds(w)
    BY <2>0, <2>2 DEF IInv, TypeOK, HoldInv, BeginNested, EndNested, EndOuter, Published,
      WorkerEnds, GiveBack, conns
  <2> QED
    BY <2>1, <2>2 DEF WorkerStep
<1>6. HoldInv'
  <2>1. w # Relay /\ w \notin Requests
    BY AppAssumption DEF AppAssumption
  <2>2. worker'[w] = s /\ \A v \in Workers : v # w => worker'[v] = worker[v]
    BY <1>1 DEF IInv, TypeOK
  <2>3. relay' = relay /\ request' = request
    BY <1>2
  <2> QED
    BY <1>3, <1>5, <2>1, <2>2, <2>3 DEF IInv, HoldInv
<1>7. EndInv'
  <2>1. consumer # "ended" /\ (s = "gone" => buffered'[w] = 0)
    <3>1. worker[w] # "gone"
      BY DEF WorkerStep, NextRecord, Begin, BeginFails, Saga, BeginNested, NestedFails,
        EndNested, EndOuter, Published, WorkerEnds
    <3>2. worker'[w] = s
      BY <1>1 DEF IInv, TypeOK
    <3>3. s = "gone" => WorkerEnds(w)
      BY <3>2 DEF IInv, TypeOK, WorkerStep, NextRecord, Begin, BeginFails, Saga, BeginNested,
        NestedFails, EndNested, EndOuter, Published
    <3> QED
      BY <3>1, <3>3 DEF IInv, EndInv, AllGone, WorkerEnds
  <2>2. worker'[w] = s /\ \A v \in Workers : v # w => worker'[v] = worker[v]
    BY <1>1 DEF IInv, TypeOK
  <2> QED
    BY <1>2, <2>1, <2>2 DEF IInv, EndInv, AllGone, Running, GroupDone
<1> QED
  BY <1>4, <1>6, <1>7 DEF IInv

LEMMA DispatchIInv == ASSUME IInv, NEW w \in Workers, Dispatch(w) PROVE IInv'
<1>1. buffered[w] + 1 \in 0..Buffer
  BY AppAssumption DEF AppAssumption, IInv, TypeOK, Dispatch
<1>2. outer' = outer /\ inner' = inner /\ Held' <= MaxConns
  BY HeldShrinks DEF IInv, Dispatch, conns
<1>3. TypeOK'
  BY <1>1, <1>2 DEF IInv, TypeOK, Dispatch, http
<1>4. /\ worker'[w] = IF worker[w] = "gone" THEN "idle" ELSE worker[w]
      /\ \A v \in Workers : v # w => worker'[v] = worker[v] /\ buffered'[v] = buffered[v]
  BY DEF IInv, TypeOK, Dispatch
<1>5. HoldInv'
  BY <1>2, <1>4 DEF IInv, HoldInv, Dispatch, http
<1>6. EndInv'
  BY <1>4 DEF IInv, EndInv, Dispatch, http, Running, GroupDone
<1> QED
  BY <1>3, <1>5, <1>6 DEF IInv

LEMMA RelayIInv == ASSUME IInv, RelayStep PROVE IInv'
<1>1. /\ UNCHANGED others
      /\ relay' \in {"waiting", "begin", "batch", "ended"} /\ relay # "ended"
      /\ inner' = inner /\ \A u : u # Relay => (u \in outer' <=> u \in outer)
      /\ Relay \in outer' => relay' = "batch"
  BY DEF IInv, HoldInv, RelayStep, Tick, RelayBegins, RelayFails, BatchEnds, RelayEnds,
    Take, GiveBack, conns
<1>2. outer' \subseteq Users
  BY <1>1 DEF IInv, TypeOK, Users
<1>3. Held' <= MaxConns
  <2>1. CASE RelayBegins
    BY <2>1, HeldGrows DEF RelayBegins, Take, IInv
  <2>2. CASE Tick \/ RelayFails \/ BatchEnds \/ RelayEnds
    BY <2>2, HeldShrinks DEF IInv, Tick, RelayFails, BatchEnds, RelayEnds, GiveBack, conns
  <2> QED
    BY <2>1, <2>2 DEF RelayStep
<1>4. TypeOK'
  BY <1>1, <1>2, <1>3 DEF IInv, TypeOK, others, http, work
<1>5. HoldInv'
  BY <1>1, AppAssumption DEF AppAssumption, IInv, HoldInv, others, http, work
<1>6. EndInv'
  BY <1>1 DEF IInv, EndInv, others, http, work, AllGone, Running, GroupDone
<1> QED
  BY <1>4, <1>5, <1>6 DEF IInv

LEMMA HandlerIInv == ASSUME IInv, NEW r \in Requests, HandlerStep(r) PROVE IInv'
<1>1. PICK s \in {"none", "begin", "query"} : request' = [request EXCEPT ![r] = s]
  BY DEF HandlerStep, Accept, Query, QueryFails, Respond
<1>2. request'[r] = s /\ \A q \in Requests : q # r => request'[q] = request[q]
  BY <1>1 DEF IInv, TypeOK
<1>3. /\ UNCHANGED <<core, server, outlived>>
      /\ inner' = inner /\ \A u : u # r => (u \in outer' <=> u \in outer)
      /\ request[r] # "none" \/ server # "closed"
  BY DEF HandlerStep, Accept, Query, QueryFails, Respond, Take, GiveBack, conns
<1>0. r \in outer' => s = "query"
  BY <1>2 DEF IInv, TypeOK, HoldInv, HandlerStep, Accept, Query, QueryFails, Respond, Take,
    GiveBack, conns
<1>4. outer' \subseteq Users
  BY <1>3 DEF IInv, TypeOK, Users
<1>5. Held' <= MaxConns
  <2>1. CASE Query(r)
    BY <2>1, HeldGrows DEF Query, Take, IInv
  <2>2. CASE Accept(r) \/ QueryFails(r) \/ Respond(r)
    BY <2>2, HeldShrinks DEF IInv, Accept, QueryFails, Respond, GiveBack, conns
  <2> QED
    BY <2>1, <2>2 DEF HandlerStep
<1>6. TypeOK'
  BY <1>1, <1>3, <1>4, <1>5 DEF IInv, TypeOK, core, work
<1>7. HoldInv'
  BY <1>0, <1>2, <1>3, AppAssumption DEF AppAssumption, IInv, HoldInv, core, work
<1>8. stopper' = "done" => Running' \subseteq outlived'
  BY <1>2, <1>3 DEF IInv, EndInv, Running, core
<1>9. EndInv'
  BY <1>3, <1>8 DEF IInv, EndInv, core, work, AllGone, GroupDone
<1> QED
  BY <1>6, <1>7, <1>9 DEF IInv

(* The steps that start and end things touch no connection.                *)
LEMMA EndIInv ==
  ASSUME IInv, ConsumerStep \/ ConsumerFails \/ ListenFails \/ Signal \/ StopStep \/ MainStep
  PROVE  IInv'
<1>1. UNCHANGED <<outer, inner, worker, buffered, relay, request>>
  BY DEF ConsumerStep, ConsumerStops, ConsumerEnds, ConsumerFails, ListenFails, Signal,
    StopStep, Shutdown, ShutdownReturns, MainStep, CloseProducer, ClosePool, Exit, inside,
    conns, work, http
<1>2. Held' <= MaxConns
  BY <1>1, HeldShrinks DEF IInv
<1>3. TypeOK'
  <2>1. /\ main' \in {"waiting", "flushing", "closing", "exited"}
        /\ cancelled' \in BOOLEAN /\ server' \in {"serving", "failed", "closed"}
        /\ stopper' \in {"waiting", "draining", "done"}
        /\ consumer' \in {"running", "stopping", "failing", "ended"}
        /\ outlived' \subseteq Requests
    <3>1. CASE ConsumerStep \/ ConsumerFails
      BY <3>1 DEF IInv, TypeOK, ConsumerStep, ConsumerStops, ConsumerEnds, ConsumerFails, http
    <3>2. CASE ListenFails \/ Signal \/ StopStep
      BY <3>2 DEF IInv, TypeOK, ListenFails, Signal, StopStep, Shutdown, ShutdownReturns,
        http, Running
    <3>3. CASE MainStep
      BY <3>3 DEF IInv, TypeOK, MainStep, CloseProducer, ClosePool, Exit, inside, http
    <3> QED
      BY <3>1, <3>2, <3>3
  <2> QED
    BY <1>1, <1>2, <2>1 DEF IInv, TypeOK
<1>4. HoldInv'
  BY <1>1 DEF IInv, HoldInv
<1>5. EndInv'
  <2>1. CASE ConsumerStep \/ ConsumerFails \/ ListenFails \/ Signal
    BY <1>1, <2>1 DEF IInv, EndInv, ConsumerStep, ConsumerStops, ConsumerEnds, ConsumerFails,
      ListenFails, Signal, http, AllGone, Running, GroupDone
  <2>2. CASE StopStep
    BY <1>1, <2>2 DEF IInv, EndInv, StopStep, Shutdown, ShutdownReturns, AllGone, Running,
      GroupDone
  <2>3. CASE MainStep
    BY <1>1, <2>3 DEF IInv, EndInv, MainStep, CloseProducer, ClosePool, Exit, inside, http,
      AllGone, Running, GroupDone
  <2> QED
    BY <2>1, <2>2, <2>3
<1> QED
  BY <1>3, <1>4, <1>5 DEF IInv

LEMMA NextIInv == IInv /\ [Next]_vars => IInv'
<1> SUFFICES ASSUME IInv, [Next]_vars PROVE IInv'
  OBVIOUS
<1>1. CASE UNCHANGED vars
  <2>1. Held' <= MaxConns
    BY <1>1, HeldShrinks DEF IInv, vars
  <2> QED
    BY <1>1, <2>1 DEF vars, IInv, TypeOK, HoldInv, EndInv, AllGone, Running, GroupDone
<1> QED
  BY <1>1, WorkerIInv, DispatchIInv, RelayIInv, HandlerIInv, EndIInv DEF Next

LEMMA AlwaysIInv == Spec => []IInv
BY InitIInv, NextIInv, PTL DEF Spec

-----------------------------------------------------------------------------
(* The pool never hands out more than MaxConns connections, whoever asks   *)
(* (RunInTx, GetByID), and every goroutine is where it can be.             *)
THEOREM TypeCorrect == Spec => []TypeOK
BY AlwaysIInv, PTL DEF IInv

(* With more connections than workers the pool cannot be exhausted by      *)
(* transactions that wait for a transaction of their own (RunInTx in       *)
(* UpdateStatusTx in RunInTx).                                             *)
THEOREM NoPoolDeadlock == ASSUME Ample PROVE Spec => []PoolNeverStuck
<1>1. IInv => PoolNeverStuck
  <2> SUFFICES ASSUME IInv, Held >= MaxConns,
                      \A u \in outer : u \in Workers /\ At(u, "nested")
               PROVE  FALSE
    BY DEF PoolNeverStuck
  <2>1. inner = {}
    BY DEF IInv, TypeOK, HoldInv, At
  <2>2. outer \subseteq Workers
    OBVIOUS
  <2>3. Cardinality(outer) <= Cardinality(Workers) /\ Cardinality(Workers) \in Nat
    BY <2>2, AppAssumption, FS_Subset, FS_CardinalityType DEF AppAssumption
  <2>4. Cardinality(inner) = 0 /\ Cardinality(outer) \in Nat /\ MaxConns \in Nat
    BY <2>1, HeldFinite, FS_EmptySet, AppAssumption DEF AppAssumption, IInv
  <2> QED
    BY <2>3, <2>4 DEF Ample, Held
<1> QED
  BY <1>1, AlwaysIInv, PTL

(* Whatever fails and whenever the signal comes, the producer and the pool *)
(* are closed after the last worker and the relay, and no handler can      *)
(* still use them but those Shutdown gave up (App.Run, App.shutdown).      *)
THEOREM ClosedLast == Spec => []ReleasedLast
<1>1. IInv => ReleasedLast
  <2> SUFFICES ASSUME IInv, main # "waiting"
               PROVE  /\ \A w \in Workers : worker[w] = "gone" /\ buffered[w] = 0
                      /\ relay = "ended"
                      /\ outer \cup Running \subseteq outlived
    BY DEF ReleasedLast
  <2>1. /\ \A w \in Workers : worker[w] = "gone" /\ buffered[w] = 0
        /\ relay = "ended" /\ Running \subseteq outlived
    BY DEF IInv, EndInv, GroupDone, AllGone
  <2>2. ASSUME NEW u \in outer PROVE u \in Running
    <3>1. u \notin Workers /\ u # Relay
      BY <2>1 DEF IInv, HoldInv
    <3>2. u \in Requests
      BY <3>1 DEF IInv, TypeOK, Users
    <3> QED
      BY <3>2 DEF IInv, HoldInv, Running
  <2> QED
    BY <2>1, <2>2
<1> QED
  BY <1>1, AlwaysIInv, PTL
=============================================================================
