--------------------------- MODULE ProxySendRecv ---------------------------
(***************************************************************************)
(* The program src/examples/proxy_send_recv.cc: the benchmark of the RDMA   *)
(* tests, run by the proxy threads of both processes.  Main connects the    *)
(* queue pairs, appends one operation and waits until the thread has taken  *)
(* it off its list; the thread calls the operation's progress function,     *)
(* send_benchmark or recv_benchmark, over and over.  Of the proxy there is  *)
(* what module ProxyQueue says of it.                                       *)
(***************************************************************************)
EXTENDS RdmaPeers

VARIABLES
  op,                 \* the operation: "none", "appended", "removed"
  started,            \* peers that have called ProxyStart
  state, iterations,  \* members of ProxyArgs
  count, first_completion,
  coalesced           \* history: a poll found more than one completion

argsVars == <<op, started, state, iterations, count, first_completion, coalesced>>

SendRecvInit ==
  /\ op = [p \in Peers |-> "none"]
  /\ started = {}
  /\ state = [p \in Peers |-> "Ready"]
  /\ iterations = [p \in Peers |-> 0]
  /\ count = 0
  /\ first_completion = FALSE
  /\ coalesced = FALSE

----------------------------------------------------------------------------
(* The main threads.                                                       *)

\* A step of main on the operation.
OnArgs(p, step) == At(p, step) /\ GoOn(p) /\ UNCHANGED peerVars

ArgsAppend(p) ==
  /\ OnArgs(p, "append")
  /\ op' = [op EXCEPT ![p] = "appended"]
  /\ UNCHANGED <<started, state, iterations, count, first_completion, coalesced>>

LeaveBlock(p) ==
  /\ At(p, "close")
  /\ CloseSocket(p)
  /\ GoOn(p)
  /\ UNCHANGED <<qpVars, hcaVars, available_wqes, argsVars>>

Start(p) ==
  /\ OnArgs(p, "start")
  /\ started' = started \union {p}
  /\ UNCHANGED <<op, state, iterations, count, first_completion, coalesced>>

WaitAllOpFinished(p) ==
  /\ OnArgs(p, "wait")
  /\ op[p] = "removed"
  /\ UNCHANGED argsVars

MainStep(p) ==
  /\ program = "proxy_send_recv"
  /\ \/ CommonStep(p) /\ UNCHANGED argsVars
     \/ ArgsAppend(p) \/ LeaveBlock(p) \/ Start(p) \/ WaitAllOpFinished(p)

----------------------------------------------------------------------------
(* The proxy threads: calls of the progress functions.                      *)

Running(p) == op[p] = "appended" /\ state[p] # "None"

\* The call makes `n' the number of iterations; the last one ends the operation.
Progress(p, n) ==
  /\ iterations' = [iterations EXCEPT ![p] = n]
  /\ state' = [state EXCEPT ![p] = IF n = length THEN "None" ELSE "Progress"]

\* A call that posts a write.
SendProgressPost ==
  /\ Running("client") /\ iterations["client"] < length
  /\ PostBenchmarkSend
  /\ Progress("client", iterations["client"] + 1)
  /\ UNCHANGED <<pc, op, started, count, first_completion, coalesced>>

\* A call that finds the send queue full polls, which is an iteration too, and
\* returns before it looks whether it was the last one.
SendProgressPoll ==
  /\ Running("client") /\ iterations["client"] < length
  /\ PollSends
  /\ iterations' = [iterations EXCEPT !["client"] = @ + 1]
  /\ state' = [state EXCEPT !["client"] = "Progress"]
  /\ UNCHANGED <<pc, op, started, count, first_completion, coalesced>>

SendProgressEnd ==
  /\ Running("client") /\ iterations["client"] = length
  /\ Progress("client", length)
  /\ UNCHANGED <<peerVars, pc, op, started, count, first_completion, coalesced>>

\* Mutant: an empty poll counts.
CountsEveryPoll(n) == 1

\* What a poll of n completions adds to the iterations.
Counted(n) == IF n > 0 THEN 1 ELSE 0

RecvProgress ==
  /\ Running("server")
  /\ PollRecvs
  /\ LET n       == Polled("server")
         isFirst == state["server"] = "Ready" \/ first_completion
         counted == n + IF state["server"] = "Ready" THEN 0 ELSE count
     IN  /\ Progress("server", iterations["server"] + Counted(n))
         /\ coalesced' = (coalesced \/ n > 1)
         /\ first_completion' = (isFirst /\ counted = 0)
         /\ count' = IF isFirst THEN 0 ELSE counted
  /\ UNCHANGED <<pc, op, started>>

\* The thread takes a finished operation off its list.
Remove(p) ==
  /\ op[p] = "appended" /\ state[p] = "None"
  /\ op' = [op EXCEPT ![p] = "removed"]
  /\ UNCHANGED <<peerVars, pc, started, state, iterations, count,
                 first_completion, coalesced>>

ThreadStep(p) ==
  \/ p = "client" /\ (SendProgressPost \/ SendProgressPoll \/ SendProgressEnd)
  \/ p = "server" /\ RecvProgress
  \/ Remove(p)

----------------------------------------------------------------------------
(* Properties.                                                             *)

\* The client's second syncReady has no partner.  It ends when the server
\* closes its socket, and by then the server has handed its receiving
\* operation to the proxy: the client never appends first.
ReceiverQueuedFirst ==
  op["client"] # "none" => op["server"] # "none" /\ stream["client"] = <<>>

\* A receiver that finishes has seen every write, each in a poll of its own,
\* and the rate it logs counts the ones after the tick it starts from.
ReceiverSawThemAll ==
  state["server"] = "None" =>
    /\ sends = 0 /\ wire = 0 /\ cq["server"] = 0
    /\ ~first_completion
    /\ count = length - 1

\* The client returns from main whatever becomes of its writes and however
\* full its send queue is, unless it found no server.
SenderReturns ==
  <>(program # "proxy_send_recv" \/ pc["client"] \in {"done", "threw"})

\* Both processes return from main, unless the client found no server, a
\* write was lost, or a poll found two completions: recv_benchmark counts
\* polls, and a batch leaves it waiting for writes that nobody sends.  (A
\* sender with a benchmark longer than its queue spends iterations on polls.)
BothReturn ==
  <>(\/ program # "proxy_send_recv" \/ length > SendQueueDepth
     \/ \A p \in Peers : pc[p] = "done"
     \/ pc["client"] = "threw"
     \/ dropped \/ coalesced)
=============================================================================
