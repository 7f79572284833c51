--------------------------- MODULE BarrierRestart ---------------------------
(***************************************************************************)
(* The barrier of src/controller/controller.py when workers die in it.      *)
(* gRPC does not tell a handler that its caller is gone: the thread goes on *)
(* waiting, and the arrival stays counted.  A worker that is started again  *)
(* calls Barrier from a new process, and the controller cannot tell.        *)
(*                                                                          *)
(* A handler is known by its worker and the number of that worker's call.   *)
(***************************************************************************)
EXTENDS ControllerWorkers, Functions

CONSTANTS
  MaxCalls,     \* bound on the calls of every worker
  MaxCrashes    \* bound on the crashes of every worker

ASSUME RestartAssumption == MaxCalls \in Nat /\ MaxCrashes \in Nat

VARIABLES
  barrier_op_id,
  barrier_ctrs,
  barrier_events,   \* op ids of the Events that are set
  handlers,         \* threads in a handler, with where they are and their op id
  calling,          \* workers that wait for the answer to their last call
  arrivals,         \* calls of every worker
  departures,       \* answers every worker has got
  crashed           \* history: the calls, <<worker, number>>, that workers died in

vars == <<barrier_op_id, barrier_ctrs, barrier_events, handlers, calling,
          arrivals, departures, crashed>>

Init ==
  /\ barrier_op_id = 0
  /\ barrier_ctrs = [id \in {0} |-> 0]
  /\ barrier_events = {}
  /\ handlers = <<>>
  /\ calling = {}
  /\ arrivals = [w \in Workers |-> 0]
  /\ departures = [w \in Workers |-> 0]
  /\ crashed = {}

\* A dictionary with key k set to v, and without key k.
With(d, k, v) == [i \in DOMAIN d \union {k} |-> IF i = k THEN v ELSE d[i]]
Without(d, k) == Restrict(d, DOMAIN d \ {k})

\* Mutant: the barrier opens one arrival early.
OpensEarly(n) == n + 1 >= NumWorkers

\* Mutant: or one too late.
OpensLate(n) == n > NumWorkers

IsLastArrival(n) == n >= NumWorkers

\* Mutant: the event is forgotten.
NoneSet(id) == barrier_events

\* event.set()
EventSet(id) == barrier_events \union {id}

\* A worker that is in no call makes one: the locked section of the handler.
Arrive(w) ==
  /\ w \notin calling
  /\ arrivals[w] < MaxCalls
  /\ LET id   == barrier_op_id
         n    == barrier_ctrs[id] + 1
         ctrs == With(barrier_ctrs, id, n)
     IN  /\ IF IsLastArrival(n)
            THEN /\ barrier_events' = EventSet(id)
                 /\ barrier_op_id' = id + 1
                 /\ barrier_ctrs' = With(ctrs, id + 1, 0)
            ELSE /\ barrier_ctrs' = ctrs
                 /\ UNCHANGED <<barrier_events, barrier_op_id>>
         /\ handlers' = With(handlers, <<w, arrivals[w] + 1>>, [pc |-> "recheck", id |-> id])
  /\ arrivals' = [arrivals EXCEPT ![w] = @ + 1]
  /\ calling' = calling \union {w}
  /\ UNCHANGED <<departures, crashed>>

\* The handler returns; its answer reaches a worker that still waits for it.
Return(h) ==
  /\ handlers' = Without(handlers, h)
  /\ IF h[1] \in calling /\ h[2] = arrivals[h[1]]
     THEN /\ calling' = calling \ {h[1]}
          /\ departures' = [departures EXCEPT ![h[1]] = @ + 1]
     ELSE UNCHANGED <<calling, departures>>

\* The unlocked second look at the counter.
Recheck(h) ==
  /\ handlers[h].pc = "recheck"
  /\ IF barrier_ctrs[handlers[h].id] < NumWorkers
     THEN /\ handlers' = [handlers EXCEPT ![h].pc = "waiting"]
          /\ UNCHANGED <<calling, departures>>
     ELSE Return(h)
  /\ UNCHANGED <<barrier_op_id, barrier_ctrs, barrier_events, arrivals, crashed>>

\* Mutant: the operation is deleted by the first to leave it.
DeletedAt(n) == TRUE

LastToLeave(n) == n = 1

Leave(h) ==
  /\ handlers[h].pc = "waiting"
  /\ handlers[h].id \in barrier_events
  /\ LET id == handlers[h].id
         n  == barrier_ctrs[id]
     IN  barrier_ctrs' = IF LastToLeave(n) THEN Without(barrier_ctrs, id)
                                           ELSE With(barrier_ctrs, id, n - 1)
  /\ Return(h)
  /\ UNCHANGED <<barrier_op_id, barrier_events, arrivals, crashed>>

\* The process of a worker dies in the call and is started again.
Crash(w) ==
  /\ w \in calling
  /\ Cardinality({c \in crashed : c[1] = w}) < MaxCrashes
  /\ crashed' = crashed \union {<<w, arrivals[w]>>}
  /\ calling' = calling \ {w}
  /\ UNCHANGED <<barrier_op_id, barrier_ctrs, barrier_events, handlers,
                 arrivals, departures>>

HandlerStep == \E h \in DOMAIN handlers : Recheck(h) \/ Leave(h)

Next == HandlerStep \/ \E w \in Workers : Arrive(w) \/ Crash(w)

\* Handlers that can go on do.
Spec == Init /\ [][Next]_vars /\ WF_vars(HandlerStep)

----------------------------------------------------------------------------
(* Properties.                                                             *)

\* After crashes the barrier no longer keeps workers together, but every
\* crash shifts it by one call at most: a worker has left at most as many
\* barriers as another one has entered, plus the crashes of the others.
SlipBounded ==
  \A v, w \in Workers :
    departures[w] <= arrivals[v] + Cardinality({c \in crashed : c[1] # v})

\* No handler, of a dead worker's call or not, looks up a counter that has
\* been deleted.
NoKeyErrorAfterCrash ==
  /\ barrier_op_id \in DOMAIN barrier_ctrs
  /\ \A h \in DOMAIN handlers : handlers[h].id \in DOMAIN barrier_ctrs

\* The handlers of an operation; those of the current one are its counter.
HandlersOf(id) == {h \in DOMAIN handlers : handlers[h].id = id}

\* v, or a worker that then died, has entered the current operation.
Covered(v) == \E h \in HandlersOf(barrier_op_id) : h[1] = v \/ h \in crashed

RestartTypeOK ==
  /\ barrier_op_id \in Nat
  /\ barrier_op_id \in DOMAIN barrier_ctrs
  /\ DOMAIN barrier_ctrs \subseteq 0 .. barrier_op_id
  /\ \A id \in DOMAIN barrier_ctrs : barrier_ctrs[id] \in Nat
  /\ barrier_events = {id \in 0 .. barrier_op_id : id < barrier_op_id}
  /\ DOMAIN handlers \subseteq Workers \X Nat /\ IsFiniteSet(DOMAIN handlers)
  /\ \A h \in DOMAIN handlers :
       handlers[h] \in [pc : {"recheck", "waiting"}, id : DOMAIN barrier_ctrs]
  /\ calling \subseteq Workers
  /\ arrivals \in [Workers -> Nat]
  /\ departures \in [Workers -> Nat]
  /\ crashed \subseteq Workers \X Nat /\ IsFiniteSet(crashed)

\* A counter counts all handlers of its operation, and those that returned
\* at the second look; the current one has none of these.
HandlersCounted ==
  /\ \A id \in DOMAIN barrier_ctrs : Cardinality(HandlersOf(id)) <= barrier_ctrs[id]
  /\ barrier_ctrs[barrier_op_id] = Cardinality(HandlersOf(barrier_op_id))
  /\ barrier_ctrs[barrier_op_id] < NumWorkers

\* Whose call a handler runs, and what its worker has behind it.
CallersInv ==
  /\ \A h \in DOMAIN handlers :
       /\ h[2] <= arrivals[h[1]]
       /\ h \in crashed \/ (h[1] \in calling /\ h[2] = arrivals[h[1]])
  /\ \A c \in crashed : c[2] <= arrivals[c[1]]
  /\ \A w \in calling : /\ <<w, arrivals[w]>> \in DOMAIN handlers \ crashed
                        /\ departures[w] <= handlers[<<w, arrivals[w]>>].id
  /\ \A w \in Workers : departures[w] <= barrier_op_id

\* The slip, with the current operation where it counts already.
SlipInv ==
  \A v \in Workers : barrier_op_id + (IF Covered(v) THEN 1 ELSE 0)
                     <= arrivals[v] + Cardinality({c \in crashed : c[1] # v})

\* The inductive invariant.
RestartInv == RestartTypeOK /\ HandlersCounted /\ CallersInv /\ SlipInv

\* However many workers have died in it, the handlers that have to wait for the
\* next arrival are fewer than the workers: orphans count as arrivals.  So an
\* executor with a thread per worker always has one left for the arrival that
\* opens the barrier.
WaitersBounded ==
  Cardinality({h \in DOMAIN handlers : handlers[h].id \notin barrier_events}) < NumWorkers

\* The threads that dead workers have left in the executor get out when the
\* barrier opens the next time: they do not pile up from crash to crash.
OrphansLeave ==
  \A w \in Workers, k \in 1 .. MaxCalls :
    LET h == <<w, k>> IN
    (h \in DOMAIN handlers /\ handlers[h].id < barrier_op_id) ~> h \notin DOMAIN handlers
=============================================================================
