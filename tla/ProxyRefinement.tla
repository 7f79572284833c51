-------------------------- MODULE ProxyRefinement --------------------------
(***************************************************************************)
(* Proxy implements ProxyQueue: the queue of a channel is its ring element  *)
(* followed by the chain of nextPeer pointers.                              *)
(***************************************************************************)
EXTENDS Proxy, Sequences, FiniteSets

\* The queued elements of channel ch.
Of(ch) == {a \in Args : proxyTail[a] = ch /\ place[a] \in {"ring", "peer"}}

\* s lists the elements of S, from the one in the ring along nextPeer.
Lists(s, S) ==
  /\ \A k \in 1 .. Len(s) :
       /\ nextPeer[s[k]] = IF k = Len(s) THEN NULL ELSE s[k + 1]
       /\ place[s[k]] = "ring" <=> k = 1
  /\ \A a \in S : \E k \in 1 .. Len(s) : s[k] = a
  /\ \A k, m \in 1 .. Len(s) : s[k] = s[m] => k = m

Arrays(S) == [1 .. Cardinality(S) -> S]

ListOf(S) == CHOOSE s \in Arrays(S) : Lists(s, S)

\* The queue of channel ch.
ChannelQueue(ch) == ListOf(Of(ch))

\* Queued elements whose task is done.
Finished == {a \in Args : state[a] = "ProxyOpNone" /\ place[a] \in {"ring", "peer"}}

Abstract == INSTANCE ProxyQueue WITH
  queue    <- [ch \in Channels |-> ChannelQueue(ch)],
  finished <- Finished

\* The proxy's lists behave as one FIFO queue per channel: elements run and
\* leave in the order in which they were appended, whatever the thread and the
\* clients do meanwhile.
ImplementsQueues == Abstract!Spec
=============================================================================
