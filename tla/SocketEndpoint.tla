-------------------------- MODULE SocketEndpoint ---------------------------
(***************************************************************************)
(* The TCP connection of src/csrc/socket_endpoint.cc between a server (the  *)
(* daemon) and a client.  The operators are the socket's part of a peer's   *)
(* step; the programs that use them say when they run.                      *)
(*                                                                          *)
(* A message is at most one QpInfo (48 bytes) and is sent by one send call; *)
(* it arrives as a whole.                                                   *)
(***************************************************************************)
EXTENDS Naturals, Sequences

CONSTANT Retries   \* reconnection attempts of the client (5 in the code)

ASSUME RetriesAssumption == Retries \in Nat

Peers == {"server", "client"}
Other(p) == IF p = "server" THEN "client" ELSE "server"

VARIABLES
  listener,   \* the server's listening socket: "none", "listening", "closed"
  connected,  \* the client's connect has succeeded
  retry,
  stream,     \* messages on their way to each peer
  half,       \* which of the two calls of syncData a peer makes next
  closed      \* peers whose SocketEndpoint has been destroyed

socketVars == <<listener, connected, retry, stream, half, closed>>

SocketInit ==
  /\ listener = "none"
  /\ connected = FALSE
  /\ retry = 0
  /\ stream = [p \in Peers |-> <<>>]
  /\ half = [p \in Peers |-> 1]
  /\ closed = {}

StartListening ==
  /\ listener' = "listening"
  /\ UNCHANGED <<connected, retry, stream, half, closed>>

\* accept returns with the connection and the listening socket is closed.
Accept ==
  /\ connected
  /\ listener' = "closed"
  /\ UNCHANGED <<connected, retry, stream, half, closed>>

\* connect succeeds as soon as the server listens, accepted or not.
Connect ==
  /\ listener = "listening"
  /\ connected' = TRUE
  /\ UNCHANGED <<listener, retry, stream, half, closed>>

\* Nobody listens: wait a second and try again, or give up with an exception.
ConnectFails == listener # "listening"

RetryConnect ==
  /\ ConnectFails
  /\ retry < Retries
  /\ retry' = retry + 1
  /\ UNCHANGED <<listener, connected, stream, half, closed>>

GiveUp ==
  /\ ConnectFails
  /\ retry = Retries
  /\ UNCHANGED socketVars

\* Mutant: both sides start with recv.
NobodySendsFirst(p) == half[p] = 2

\* The daemon sends first, its peer receives first.
Sends(p) == (p = "server") = (half[p] = 1)

NextHalf(p) == half' = [half EXCEPT ![p] = IF @ = 1 THEN 2 ELSE 1]

SyncSend(p, message) ==
  /\ Sends(p)
  /\ stream' = [stream EXCEPT ![Other(p)] = Append(@, message)]
  /\ NextHalf(p)
  /\ UNCHANGED <<listener, connected, retry, closed>>

\* recv blocks until there is something; Head(stream[p]) is what it yields.
SyncRecv(p) ==
  /\ ~Sends(p)
  /\ stream[p] # <<>>
  /\ stream' = [stream EXCEPT ![p] = Tail(@)]
  /\ NextHalf(p)
  /\ UNCHANGED <<listener, connected, retry, closed>>

\* The other end is closed and everything it sent has been read: recv returns
\* 0 and syncData returns at once, without the call that would follow.
SyncEof(p) ==
  /\ ~Sends(p)
  /\ stream[p] = <<>>
  /\ Other(p) \in closed
  /\ half' = [half EXCEPT ![p] = 1]
  /\ UNCHANGED <<listener, connected, retry, stream, closed>>

\* The destructor.
CloseSocket(p) ==
  /\ closed' = closed \union {p}
  /\ UNCHANGED <<listener, connected, retry, stream, half>>
=============================================================================
