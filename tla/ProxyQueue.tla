---------------------------- MODULE ProxyQueue -----------------------------
(***************************************************************************)
(* What the proxy promises its clients: every channel is a FIFO queue, only *)
(* the oldest element of a channel runs, it runs until it has finished, and *)
(* it leaves the queue only then.  Channels are independent.                *)
(***************************************************************************)
EXTENDS Naturals, Sequences

CONSTANTS Args, Channels

VARIABLES
  queue,     \* per channel, the appended elements, oldest first
  finished   \* queued elements whose task is done

vars == <<queue, finished>>

Elements(q) == {q[i] : i \in 1 .. Len(q)}

QueuedArgs == UNION {Elements(queue[ch]) : ch \in Channels}

Init ==
  /\ queue = [ch \in Channels |-> <<>>]
  /\ finished = {}

Submit(ch, a) ==
  /\ queue' = [queue EXCEPT ![ch] = Append(@, a)]
  /\ UNCHANGED finished

\* The oldest element of a channel completes.
Finish(ch) ==
  /\ queue[ch] # <<>>
  /\ Head(queue[ch]) \notin finished
  /\ finished' = finished \union {Head(queue[ch])}
  /\ UNCHANGED queue

\* A finished element leaves its channel.
Reclaim(ch) ==
  /\ queue[ch] # <<>>
  /\ Head(queue[ch]) \in finished
  /\ queue' = [queue EXCEPT ![ch] = Tail(@)]
  /\ finished' = finished \ {Head(queue[ch])}

Next ==
  \E ch \in Channels :
    \/ \E a \in Args \ QueuedArgs : Submit(ch, a)
    \/ Finish(ch)
    \/ Reclaim(ch)

Spec == Init /\ [][Next]_vars
============================================================================
