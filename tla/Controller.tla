----------------------------- MODULE Controller -----------------------------
(***************************************************************************)
(* The controller of src/controller/controller.py as a whole, used the way  *)
(* src/examples/grpc_test.cc uses it: every worker calls Barrier, Broadcast *)
(* and RdmaSession in this order, over and over (the controller outlives    *)
(* the processes of a run and serves the next one with the same state).     *)
(* RdmaSession counts its arrivals on the barrier of Barrier, and all calls *)
(* share the threads of the server's executor: a call that waits for other  *)
(* workers keeps its thread.                                                *)
(*                                                                          *)
(* What a handler does under self.lock is one action, but for RdmaSession:  *)
(* it counts its arrival before it stores its request, and the second look  *)
(* of another handler, without the lock, can fall in between.               *)
(***************************************************************************)
EXTENDS ControllerBarrier, ControllerBroadcast

CONSTANTS
  SessionRoot,   \* the worker that passes root = 1 to RdmaSession
  MaxWorkers,    \* threads of the executor, max_workers (10 in the code)
  Rounds         \* bound on the rounds of every worker

ASSUME ControllerAssumption ==
  /\ SessionRoot \in Workers /\ Workers # {SessionRoot}
  /\ MaxWorkers \in Nat /\ NumWorkers <= MaxWorkers
  /\ Rounds \in Nat
  /\ MaxBroadcasts = Rounds /\ MaxBarriers = 2 * Rounds
  /\ None \notin [rank : Workers, round : Nat]

VARIABLES
  session,     \* self._sessions[1]: "root" and "workers", and the first key of the latter
  rpc,         \* a worker's call: "none" if no handler runs, "running"; in
               \* RdmaSession also "storing" and "reading" the session, and
               \* "aborted" once the worker's process is gone
  nextCall,    \* the call a worker makes next, or is making
  round,       \* rounds a worker has completed
  peer         \* remote QP info of its last RdmaSession, None if it failed

sessionVars == <<session, rpc, nextCall, round, peer>>
vars == <<barrierVars, broadcastVars, sessionVars>>

Init ==
  /\ BarrierInit
  /\ BroadcastInit
  /\ session = [root |-> None, workers |-> [w \in Workers |-> None], first |-> None]
  /\ rpc = [w \in Workers |-> "none"]
  /\ nextCall = [w \in Workers |-> "Barrier"]
  /\ round = [w \in Workers |-> 0]
  /\ peer = [w \in Workers |-> None]

\* Mutant: one thread of the executor is never used.
OneThreadIdle(busy) == busy + 1 < MaxWorkers

\* The executor has a thread left.
ThreadFree(busy) == busy < MaxWorkers

\* The calls that have a thread.
Busy == {v \in Workers : rpc[v] \in {"running", "storing", "reading"}}

\* Nobody is inside the locked section of RdmaSession.
LockFree == \A v \in Workers : rpc[v] # "storing"

\* The worker calls the stub of `name', which blocks until the response
\* arrives, and the executor starts the handler, which begins by taking the
\* lock.  A call that waits for a thread has done nothing yet: whether the
\* worker has made it already is not told apart.
StartHandler(w, name, state) ==
  /\ rpc[w] = "none"
  /\ round[w] < Rounds
  /\ nextCall[w] = name
  /\ ThreadFree(Cardinality(Busy))
  /\ LockFree
  /\ rpc' = [rpc EXCEPT ![w] = state]
  /\ UNCHANGED <<nextCall, round, peer>>

\* The program of grpc_test.cc.
Successor == [Barrier |-> "Broadcast", Broadcast |-> "RdmaSession",
              RdmaSession |-> "Barrier"]

\* The response arrives and the worker goes on.
Respond(w) ==
  /\ rpc' = [rpc EXCEPT ![w] = "none"]
  /\ nextCall' = [nextCall EXCEPT ![w] = Successor[@]]
  /\ round' = [round EXCEPT ![w] = @ + IF nextCall[w] = "RdmaSession" THEN 1 ELSE 0]

BarrierStart(w) ==
  /\ StartHandler(w, "Barrier", "running")
  /\ Arrive(w)
  /\ UNCHANGED <<broadcastVars, session>>

\* The steps of Barrier after its locked section; RdmaSession has the same
\* ones, and then looks up its peer.  The second look is without the lock.
BarrierStep(w) ==
  /\ rpc[w] = "running"
  /\ bpc[w] = "waiting" => LockFree
  /\ HandlerStep(w)
  /\ \/ /\ bpc'[w] # "out"
        /\ UNCHANGED <<rpc, nextCall, round>>
     \/ /\ bpc'[w] = "out" /\ nextCall[w] = "Barrier"
        /\ Respond(w)
     \/ /\ bpc'[w] = "out" /\ nextCall[w] = "RdmaSession"
        /\ rpc' = [rpc EXCEPT ![w] = "reading"]
        /\ UNCHANGED <<nextCall, round>>
  /\ UNCHANGED <<broadcastVars, session, peer>>

BroadcastStart(w) ==
  /\ StartHandler(w, "Broadcast", "running")
  /\ EnterBroadcast(w)
  /\ UNCHANGED <<barrierVars, session>>

BroadcastWake(w) ==
  /\ LockFree
  /\ WakeBroadcast(w)
  /\ UNCHANGED <<barrierVars, sessionVars>>

BroadcastReturn(w) ==
  /\ ReturnBroadcast(w)
  /\ Respond(w)
  /\ UNCHANGED <<barrierVars, session, peer>>

\* QP info of a worker; every round brings a new queue pair.
QpInfo(w) == [rank |-> w, round |-> round[w] + 1]

\* Mutant: an entry that exists is kept.
StoredOnce(w) ==
  IF w = SessionRoot
  THEN [session EXCEPT !.root = IF @ = None THEN QpInfo(w) ELSE @]
  ELSE [session EXCEPT !.workers[w] = IF @ = None THEN QpInfo(w) ELSE @,
                       !.first = IF @ = None THEN w ELSE @]

\* The request is stored under "root", or under the worker's rank; a
\* dictionary keeps its keys in the order of their first insertion.
Stored(w) ==
  IF w = SessionRoot
  THEN [session EXCEPT !.root = QpInfo(w)]
  ELSE [session EXCEPT !.workers[w] = QpInfo(w),
                       !.first = IF @ = None THEN w ELSE @]

\* The arrival is counted.  If it is the last one the barrier opens: that is
\* the end of the locked section, but nobody sees it before, since the event
\* and the operation id only matter to those who have the lock.
SessionStart(w) ==
  /\ StartHandler(w, "RdmaSession", "storing")
  /\ Arrive(w)
  /\ UNCHANGED <<broadcastVars, session>>

\* Then the request is stored, and the lock released.
SessionStore(w) ==
  /\ rpc[w] = "storing"
  /\ session' = Stored(w)
  /\ rpc' = [rpc EXCEPT ![w] = "running"]
  /\ UNCHANGED <<barrierVars, broadcastVars, nextCall, round, peer>>

\* The unlocked lookup: the root gets the first worker, the others the root.
\* What is not there is None.
Found(w) ==
  IF w # SessionRoot THEN session.root
  ELSE IF session.first = None THEN None ELSE session.workers[session.first]

SessionReturn(w) ==
  /\ rpc[w] = "reading"
  /\ Found(w) # None
  /\ peer' = [peer EXCEPT ![w] = Found(w)]
  /\ Respond(w)
  /\ UNCHANGED <<barrierVars, broadcastVars, session>>

\* The lookup raises IndexError or AttributeError, the call fails, and the
\* CHECK of the client aborts the process.  Its run is over.
SessionFails(w) ==
  /\ rpc[w] = "reading"
  /\ Found(w) = None
  /\ peer' = [peer EXCEPT ![w] = None]
  /\ rpc' = [rpc EXCEPT ![w] = "aborted"]
  /\ nextCall' = [nextCall EXCEPT ![w] = "Barrier"]
  /\ round' = [round EXCEPT ![w] = @ + 1]
  /\ UNCHANGED <<barrierVars, broadcastVars, session>>

\* Somebody starts the process of an aborted worker again.
Restart(w) ==
  /\ rpc[w] = "aborted"
  /\ rpc' = [rpc EXCEPT ![w] = "none"]
  /\ UNCHANGED <<barrierVars, broadcastVars, session, nextCall, round, peer>>

WorkerStep(w) ==
  \/ BarrierStart(w) \/ BarrierStep(w)
  \/ BroadcastStart(w) \/ BroadcastWake(w) \/ BroadcastReturn(w)
  \/ SessionStart(w) \/ SessionStore(w) \/ SessionReturn(w) \/ SessionFails(w)

Next == \E w \in Workers : WorkerStep(w) \/ Restart(w)

\* Somebody goes on as long as somebody can: every step takes a worker
\* further in its program, so no more fairness is needed.  Nobody has to start
\* an aborted process again.
Spec == Init /\ [][Next]_vars /\ WF_vars(\E w \in Workers : WorkerStep(w))

----------------------------------------------------------------------------
(* Properties, besides those of the parts.                                 *)

\* The last RdmaSession of w has given it what its peer has submitted in the
\* same round.
Fresh(w) == peer[w] # None /\ peer[w].round = round[w]

\* A worker leaves RdmaSession with the QP info its peer has submitted in
\* the same round: a worker with the root's, the root with a worker's.
SessionExchange ==
  \A w \in Workers : round[w] > 0 =>
    Fresh(w) /\ (peer[w].rank = SessionRoot) = (w # SessionRoot)

\* What the second look can spoil at most.  A worker that looks up the session
\* before the last arrival has stored its request gets what the same peer has
\* submitted one round earlier, or fails in the first round, when there is no
\* such thing.  And only one side is hit: the root or the others.
SessionLag ==
  /\ \A w \in Workers : round[w] > 0 =>
       \/ peer[w] = None /\ round[w] = 1
       \/ /\ peer[w] # None
          /\ peer[w].round = round[w] \/ peer[w].round = round[w] - 1
          /\ (peer[w].rank = SessionRoot) = (w # SessionRoot)
  /\ \A w \in Workers \ {SessionRoot} :
       round[w] = round[SessionRoot] /\ round[w] > 0 => Fresh(w) \/ Fresh(SessionRoot)

RpcStates == {"none", "running", "storing", "reading", "aborted"}

\* Where a worker is in its program, by what the parts have counted.
ProgramInv ==
  /\ rpc \in [Workers -> RpcStates]
  /\ nextCall \in [Workers -> {"Barrier", "Broadcast", "RdmaSession"}]
  /\ round \in [Workers -> Nat]
  /\ calls \in [Workers -> Nat]
  /\ \A w \in Workers :
       /\ bpc[w] # "out" <=> rpc[w] \in {"running", "storing"} /\ nextCall[w] # "Broadcast"
       /\ cpc[w] # "out" <=> rpc[w] = "running" /\ nextCall[w] = "Broadcast"
       /\ rpc[w] \in {"storing", "reading"} => nextCall[w] = "RdmaSession"
       /\ rpc[w] = "aborted" => nextCall[w] = "Barrier"
       /\ \A v \in Workers : rpc[v] = "storing" /\ rpc[w] = "storing" => v = w
       /\ departures[w] = 2 * round[w] + (IF nextCall[w] = "Barrier" THEN 0
                                          ELSE IF rpc[w] = "reading" THEN 2 ELSE 1)
       /\ calls[w] = round[w] + (IF nextCall[w] = "RdmaSession" \/ cpc[w] # "out"
                                 THEN 1 ELSE 0)

\* Broadcasts that barriers keep apart: the list holds the operation of the
\* latest one only, which is the one numbered `created'.
BroadcastInv ==
  /\ cpc \in [Workers -> {"out", "waiting", "returning"}]
  /\ idx \in [Workers -> Nat]
  /\ current_event \in [Workers -> Nat]
  /\ result \in [Workers -> Nat]
  /\ roots \in [1 .. MaxBroadcasts -> Roots]
  /\ created \in 0 .. MaxBroadcasts
  /\ set_events \subseteq 1 .. created
  /\ created = 0 => bcast_ops = <<>>
  /\ created > 0 =>
       \E value \in {None, created} :
         /\ bcast_ops = <<[value |-> value, event |-> created,
                           bitmap |-> {w \in Workers : calls[w] = created
                                                       /\ cpc[w] # "waiting"}]>>
         /\ value = created <=> calls[roots[created]] = created
         /\ value = created <=> created \in set_events
         /\ \A w \in Workers : cpc[w] = "returning" => value = created
  /\ \A w \in Workers :
       /\ calls[w] <= created /\ created <= calls[w] + 1
       /\ cpc[w] # "out" => idx[w] = 1 /\ current_event[w] = created
                            /\ calls[w] = created
       /\ cpc[w] = "waiting" => w # roots[created]
       /\ cpc[w] = "out" => result[w] = calls[w]

\* Calls of RdmaSession whose request has been stored.
Submitted(w) ==
  round[w] + (IF nextCall[w] = "RdmaSession" /\ rpc[w] \in {"running", "reading"}
              THEN 1 ELSE 0)

\* What the session holds of worker w.
Entry(w) ==
  IF Submitted(w) = 0 THEN None ELSE [rank |-> w, round |-> Submitted(w)]

SessionInv ==
  /\ session = [root |-> Entry(SessionRoot),
                workers |-> [w \in Workers |-> IF w = SessionRoot THEN None
                                                                  ELSE Entry(w)],
                first |-> session.first]
  /\ session.first = None => \A w \in Workers \ {SessionRoot} : Submitted(w) = 0
  /\ session.first # None => session.first \in Workers \ {SessionRoot}
  /\ peer \in [Workers -> {None} \union [rank : Workers, round : Nat]]
  /\ SessionLag
  /\ \A v, w \in Workers \ {SessionRoot} :
       round[w] > 0 /\ ~Fresh(w) => Submitted(v) >= round[w]

\* The inductive invariant.
ControllerInv == BarrierInv /\ ProgramInv /\ BroadcastInv /\ SessionInv

\* The calls under way, or a worker itself, can take a step: the guards of the
\* steps.
CanGoOn(w) ==
  \/ /\ rpc[w] = "none" /\ round[w] < Rounds
     /\ ThreadFree(Cardinality(Busy)) /\ LockFree
     /\ IF nextCall[w] = "Broadcast" THEN calls[w] < MaxBroadcasts
                                     ELSE barrier_op_id < MaxBarriers
  \/ rpc[w] = "running" /\ bpc[w] = "recheck"
  \/ bpc[w] = "waiting" /\ current_op_id[w] \in barrier_events /\ LockFree
  \/ cpc[w] = "waiting" /\ current_event[w] \in set_events /\ LockFree
  \/ cpc[w] = "returning" \/ rpc[w] \in {"storing", "reading"}

\* A process that aborted in an earlier round and was not started again.
Missing(w) == rpc[w] = "aborted" /\ round[w] < Rounds

\* The workers never all wait for each other: until everybody has finished,
\* there is a call that does not wait for a thread, for the lock, for a
\* barrier to open or for the root of a broadcast; or a process is missing.
NeverAllWaiting ==
  (\E w \in Workers : round[w] < Rounds) => \E w \in Workers : CanGoOn(w) \/ Missing(w)

\* All workers get through all rounds: no call waits forever, and the
\* executor does not run out of threads.  A process that aborts ends its own
\* round only, unless it is not started again: then the others wait for it.
AllFinish ==
  <>(\A w \in Workers : round[w] = Rounds) \/ <>[](\E w \in Workers : Missing(w))
=============================================================================
