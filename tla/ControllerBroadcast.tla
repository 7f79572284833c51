------------------------ MODULE ControllerBroadcast ------------------------
(***************************************************************************)
(* The Broadcast handler of src/controller/controller.py.  The three lists  *)
(* _bcast_values, _bcast_bitmap and _bcast_events always change together    *)
(* and are one sequence of operations here.  A handler keeps its position   *)
(* in the lists while it waits for the root, and reads the value it returns *)
(* after it has released the lock.                                          *)
(*                                                                          *)
(* Every worker's i-th call belongs to the i-th broadcast, whose root sends *)
(* the value i: what a worker should receive is the number of its call.     *)
(***************************************************************************)
EXTENDS ControllerWorkers, Sequences

CONSTANTS
  Roots,           \* workers that may be root; one per broadcast
  MaxBroadcasts,   \* broadcasts the model looks at
  None             \* Python's None

ASSUME BroadcastAssumption ==
  /\ Roots \subseteq Workers /\ Roots # {}
  /\ MaxBroadcasts \in Nat
  /\ None \notin Nat \union Workers

VARIABLES
  bcast_ops,      \* sequence of [value, bitmap, event]; bitmap: ranks set in it
  set_events,     \* Events that are set
  created,        \* Events created so far, their identities
  \* the handler thread of each worker's call
  cpc,
  idx,
  current_event,
  \* the workers
  roots,          \* root of each broadcast
  calls,          \* broadcasts each worker has called
  result          \* value its last call returned

broadcastVars == <<bcast_ops, set_events, created, cpc, idx, current_event,
                   roots, calls, result>>

BroadcastInit ==
  /\ bcast_ops = <<>>
  /\ set_events = {}
  /\ created = 0
  /\ cpc = [w \in Workers |-> "out"]
  /\ idx = [w \in Workers |-> 0]
  /\ current_event = [w \in Workers |-> 0]
  /\ roots \in [1 .. MaxBroadcasts -> Roots]
  /\ calls = [w \in Workers |-> 0]
  /\ result = [w \in Workers |-> 0]

\* The operations at the positions `kept', in their order.
Picked(ops, kept) ==
  [n \in 1 .. Cardinality(kept) |->
     ops[CHOOSE k \in kept : Cardinality({j \in kept : j <= k}) = n]]

\* Mutant: an operation counts as complete as soon as its value is there.
CleanedEarly(ops) == Picked(ops, {k \in DOMAIN ops : ops[k].value = None})

\* Operations every rank has been marked in are deleted.
Cleaned(ops) == Picked(ops, {k \in DOMAIN ops : ops[k].bitmap # Workers})

\* The first operation w has no mark in, or the position after the last.
FirstOpen(ops, w) ==
  CHOOSE i \in 1 .. Len(ops) + 1 :
    /\ i = Len(ops) + 1 \/ w \notin ops[i].bitmap
    /\ \A j \in 1 .. i - 1 : w \in ops[j].bitmap

\* Mutant: nobody waits for the root.
NeverWaits(isRoot, value) == FALSE

\* A worker that is not the root waits until there is a value.
MustWait(isRoot, value) == ~isRoot /\ value = None

\* The locked section of the call: clean up, find or create the operation,
\* and then publish the value (the root), take it, or wait for it.
EnterBroadcast(w) ==
  /\ cpc[w] = "out"
  /\ calls[w] < MaxBroadcasts
  /\ LET cleaned == Cleaned(bcast_ops)
         i       == FirstOpen(cleaned, w)
         isNew   == i > Len(cleaned)
         ops     == IF isNew
                    THEN Append(cleaned, [value |-> None, bitmap |-> {},
                                          event |-> created + 1])
                    ELSE cleaned
         call    == calls[w] + 1
         isRoot  == roots[call] = w
         waits   == MustWait(isRoot, ops[i].value)
     IN  /\ created' = IF isNew THEN created + 1 ELSE created
         /\ set_events' = IF isRoot THEN set_events \union {ops[i].event}
                                    ELSE set_events
         /\ bcast_ops' =
              IF waits THEN ops
              ELSE [ops EXCEPT ![i].value = IF isRoot THEN call ELSE @,
                               ![i].bitmap = @ \union {w}]
         /\ cpc' = [cpc EXCEPT ![w] = IF waits THEN "waiting" ELSE "returning"]
         /\ idx' = [idx EXCEPT ![w] = i]
         /\ current_event' = [current_event EXCEPT ![w] = ops[i].event]
         /\ calls' = [calls EXCEPT ![w] = call]
  /\ UNCHANGED <<roots, result>>

\* A list access past the end fails the call.
Fail(w) == cpc' = [cpc EXCEPT ![w] = "IndexError"]

\* The Event is set: the handler takes the lock again and marks its rank in
\* the operation that is now at its position.
WakeBroadcast(w) ==
  /\ cpc[w] = "waiting"
  /\ current_event[w] \in set_events
  /\ IF idx[w] > Len(bcast_ops)
     THEN /\ Fail(w)
          /\ UNCHANGED bcast_ops
     ELSE /\ bcast_ops' = [bcast_ops EXCEPT ![idx[w]].bitmap = @ \union {w}]
          /\ cpc' = [cpc EXCEPT ![w] = "returning"]
  /\ UNCHANGED <<set_events, created, idx, current_event, roots, calls, result>>

\* The unlocked read of the value; None becomes the message's default, 0.
ReturnBroadcast(w) ==
  /\ cpc[w] = "returning"
  /\ IF idx[w] > Len(bcast_ops)
     THEN /\ Fail(w)
          /\ UNCHANGED result
     ELSE /\ result' = [result EXCEPT ![w] =
                          IF bcast_ops[idx[w]].value = None
                          THEN 0 ELSE bcast_ops[idx[w]].value]
          /\ cpc' = [cpc EXCEPT ![w] = "out"]
  /\ UNCHANGED <<bcast_ops, set_events, created, idx, current_event, roots, calls>>

BroadcastStep(w) == WakeBroadcast(w) \/ ReturnBroadcast(w)

\* Workers that broadcast again as soon as a broadcast has returned.
BroadcastNext == \E w \in Workers : EnterBroadcast(w) \/ BroadcastStep(w)

BroadcastSpec == BroadcastInit /\ [][BroadcastNext]_broadcastVars

----------------------------------------------------------------------------
(* Properties.                                                             *)

\* Only completed operations are cleaned up: an operation a handler is still
\* busy with stays in the lists, at the position the handler remembers.
OnlyCompletedAreCleaned ==
  \A w \in Workers : cpc[w] \in {"waiting", "returning"} =>
    /\ idx[w] <= Len(bcast_ops)
    /\ bcast_ops[idx[w]].event = current_event[w]

\* What a call returns is what the root of its broadcast sent.
BroadcastDelivers ==
  \A w \in Workers : cpc[w] = "out" => result[w] = calls[w]
=============================================================================
