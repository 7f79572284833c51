------------------------- MODULE ControllerBarrier -------------------------
(***************************************************************************)
(* The barrier of src/controller/controller.py: the state behind the        *)
(* Barrier handler, which the RdmaSession handler shares.  Every call runs  *)
(* in a handler thread of its own; what it does under self.lock is one      *)
(* action, and its unlocked second look at the counter is another.          *)
(*                                                                          *)
(* All workers pass the same num_workers, the number of workers, as         *)
(* grpc_test.cc does.                                                       *)
(***************************************************************************)
EXTENDS ControllerWorkers

CONSTANT
  MaxBarriers   \* barrier operations the model looks at; bounds op ids

ASSUME BarrierAssumption == MaxBarriers \in Nat

OpIds == 0 .. MaxBarriers

VARIABLES
  barrier_op_id,
  barrier_ctrs,     \* the dictionary: a function on the op ids it holds
  barrier_events,   \* op ids of the Events that are set
  \* the handler thread of each worker's call
  bpc,
  current_op_id,
  \* history variables
  counted,          \* per op id: the workers its counter still counts
  arrivals,         \* calls each worker has made
  departures        \* calls each worker has seen return

barrierVars == <<barrier_op_id, barrier_ctrs, barrier_events, bpc,
                 current_op_id, counted, arrivals, departures>>

BarrierInit ==
  /\ barrier_op_id = 0
  /\ barrier_ctrs = [id \in {0} |-> 0]
  /\ barrier_events = {}
  /\ bpc = [w \in Workers |-> "out"]
  /\ current_op_id = [w \in Workers |-> 0]
  /\ counted = [id \in OpIds |-> {}]
  /\ arrivals = [w \in Workers |-> 0]
  /\ departures = [w \in Workers |-> 0]

\* The dictionary with key id set to n, and without key id.
With(ctrs, id, n) == [i \in DOMAIN ctrs \union {id} |-> IF i = id THEN n ELSE ctrs[i]]
Without(ctrs, id) == [i \in DOMAIN ctrs \ {id} |-> ctrs[i]]

\* Mutant: one arrival too few opens the barrier.
OpensEarly(n) == n + 1 >= NumWorkers

\* The arrival that makes the counter n is the last one.
IsLastArrival(n) == n >= NumWorkers

\* event.set()
EventSet(id) == barrier_events \union {id}

\* The locked section of the call: count the arrival; the last one sets the
\* event and opens the next operation.
Arrive(w) ==
  /\ bpc[w] = "out"
  /\ barrier_op_id < MaxBarriers
  /\ LET id   == barrier_op_id
         n    == barrier_ctrs[id] + 1
         ctrs == With(barrier_ctrs, id, n)
     IN  /\ current_op_id' = [current_op_id EXCEPT ![w] = id]
         /\ counted' = [counted EXCEPT ![id] = @ \union {w}]
         /\ IF IsLastArrival(n)
            THEN /\ barrier_events' = EventSet(id)
                 /\ barrier_op_id' = id + 1
                 /\ barrier_ctrs' = With(ctrs, id + 1, 0)
            ELSE /\ barrier_ctrs' = ctrs
                 /\ UNCHANGED <<barrier_events, barrier_op_id>>
  /\ bpc' = [bpc EXCEPT ![w] = "recheck"]
  /\ arrivals' = [arrivals EXCEPT ![w] = @ + 1]
  /\ UNCHANGED departures

Depart(w) ==
  /\ bpc' = [bpc EXCEPT ![w] = "out"]
  /\ departures' = [departures EXCEPT ![w] = @ + 1]

\* The unlocked look at the counter: a call that finds it full returns and
\* leaves the counter as it is.
RecheckWaits(w) ==
  /\ bpc[w] = "recheck"
  /\ barrier_ctrs[current_op_id[w]] < NumWorkers
  /\ bpc' = [bpc EXCEPT ![w] = "waiting"]
  /\ UNCHANGED <<barrier_op_id, barrier_ctrs, barrier_events, current_op_id,
                 counted, arrivals, departures>>

RecheckReturns(w) ==
  /\ bpc[w] = "recheck"
  /\ barrier_ctrs[current_op_id[w]] >= NumWorkers
  /\ Depart(w)
  /\ UNCHANGED <<barrier_op_id, barrier_ctrs, barrier_events, current_op_id,
                 counted, arrivals>>

\* Mutant: the operation is deleted by the first to leave it.
DeletedAt(n) == TRUE

\* The counter was n: the call that takes it to zero deletes the operation.
LastToLeave(n) == n = 1

\* The call wakes up: it takes itself off the counter and deletes the
\* operation when nothing is left of it.
Leave(w) ==
  /\ bpc[w] = "waiting"
  /\ current_op_id[w] \in barrier_events
  /\ LET id == current_op_id[w]
         n  == barrier_ctrs[id]
     IN  /\ barrier_ctrs' = IF LastToLeave(n) THEN Without(barrier_ctrs, id)
                                              ELSE With(barrier_ctrs, id, n - 1)
         /\ counted' = [counted EXCEPT ![id] = @ \ {w}]
  /\ Depart(w)
  /\ UNCHANGED <<barrier_op_id, barrier_events, current_op_id, arrivals>>

HandlerStep(w) == RecheckWaits(w) \/ RecheckReturns(w) \/ Leave(w)

BarrierNext == \E w \in Workers : Arrive(w) \/ HandlerStep(w)

BarrierSpec == BarrierInit /\ [][BarrierNext]_barrierVars

----------------------------------------------------------------------------
(* Properties.                                                             *)

\* Every variable stays in its type, and no counter exceeds the workers.
BarrierTypeOK ==
  /\ barrier_op_id \in OpIds
  /\ DOMAIN barrier_ctrs \subseteq OpIds
  /\ \A id \in DOMAIN barrier_ctrs : barrier_ctrs[id] \in 0 .. NumWorkers
  /\ barrier_events \subseteq OpIds
  /\ bpc \in [Workers -> {"out", "recheck", "waiting"}]
  /\ current_op_id \in [Workers -> OpIds]
  /\ counted \in [OpIds -> SUBSET Workers]
  /\ arrivals \in [Workers -> OpIds]
  /\ departures \in [Workers -> OpIds]

\* No call leaves the barrier before every worker has entered it: a worker
\* whose k-th call has returned knows that all have made their k-th call.
BarrierHolds == \A v, w \in Workers : departures[w] <= arrivals[v]

\* No dictionary access raises KeyError: the counter a handler is about to
\* look up, without the lock or with it, has not been deleted.
NoKeyError ==
  /\ barrier_op_id \in DOMAIN barrier_ctrs
  /\ \A w \in Workers : bpc[w] # "out" => current_op_id[w] \in DOMAIN barrier_ctrs

\* What a counter counts; the operations before barrier_op_id are complete.
CounterInv ==
  /\ \A id \in OpIds : IF id \in DOMAIN barrier_ctrs
                       THEN barrier_ctrs[id] = Cardinality(counted[id])
                       ELSE counted[id] = {}
  /\ barrier_op_id \in DOMAIN barrier_ctrs
  /\ \A id \in DOMAIN barrier_ctrs : id <= barrier_op_id
  /\ barrier_events = {id \in OpIds : id < barrier_op_id}
  /\ barrier_op_id < MaxBarriers => counted[barrier_op_id] # Workers
  /\ \A w \in Workers :
       /\ arrivals[w] = barrier_op_id + (IF w \in counted[barrier_op_id] THEN 1 ELSE 0)
       /\ departures[w] = IF bpc[w] = "out" THEN arrivals[w] ELSE arrivals[w] - 1
       /\ bpc[w] # "out" => /\ w \in counted[current_op_id[w]]
                            /\ arrivals[w] = current_op_id[w] + 1
       /\ bpc[w] = "out" => departures[w] <= barrier_op_id

\* The inductive invariant.
BarrierInv == BarrierTypeOK /\ CounterInv
=============================================================================
