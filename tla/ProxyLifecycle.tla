-------------------------- MODULE ProxyLifecycle --------------------------
(***************************************************************************)
(* More than one life of a ProxyHandler.  Proxy follows a handler from      *)
(* ProxyCreate to ProxyDestroy; here a client may call ProxyCreate again    *)
(* after ProxyDestroy.                                                      *)
(***************************************************************************)
EXTENDS Proxy

\* ProxyCreate on a handler that ProxyDestroy has finished with.
Recreate(c) ==
  /\ cpc[c] = "over"
  /\ CreateThread
  /\ cpc' = [d \in Clients |-> "ready"]

RecreateSpec == Init /\ [][Next \/ \E c \in Clients : Recreate(c)]_vars

----------------------------------------------------------------------------
(* Properties.                                                             *)

\* ProxyCreate "initialises the ProxyHandler and creates a new thread that
\* executes persistentThread": while clients may use the handler, the thread
\* is there, unless it was aborted.
ReadyMeansRunning ==
  \A c \in Clients :
    cpc[c] = "ready" /\ ~abortFlag => tpc \notin {"none", "exited"}
=============================================================================
