----------------------------- MODULE RdmaPeers -----------------------------
(***************************************************************************)
(* What the RDMA programs of src/examples have in common: a server and a    *)
(* client exchange QP info over a socket, connect their queue pairs with    *)
(* rdma_utils.cc, and the client writes to the server's memory.  A write    *)
(* carries immediate data and so uses up a receive the server has posted.   *)
(* The programs are rdma_write_rc_test, rdma_write_uc_test, which differs   *)
(* from it in the type of its queue pairs only, and proxy_send_recv.        *)
(*                                                                          *)
(* The NICs and the wire are external.  Work requests and completions are   *)
(* counted; which one is which makes no difference to the programs.         *)
(***************************************************************************)
EXTENDS SocketEndpoint

CONSTANTS
  MayLose,            \* whether the network loses packets
  SendQueueDepth,     \* kSendQueueDepth (256)
  ReceiveQueueDepth,  \* kReceiveQueueDepth (512)
  Lengths,            \* iterations of the benchmark (10)
  PollMax             \* completions one ibv_poll_cq returns at most (32)

ASSUME RdmaAssumption ==
  /\ MayLose \in BOOLEAN
  /\ SendQueueDepth \in Nat \ {0}
  /\ ReceiveQueueDepth \in Nat \ {0} /\ SendQueueDepth <= ReceiveQueueDepth
  /\ Lengths \subseteq Nat \ {0}
  /\ PollMax \in Nat \ {0}

VARIABLES
  program,    \* the program both peers run
  length,     \* iterations of its benchmark
  pc,         \* the step of main each peer is at
  qp,         \* state of the queue pair
  neighbor,   \* neighbor_qp_info
  dest,       \* QP info and expected PSN the queue pair was connected with
  recvs,      \* receives posted at the server and not used up
  sends,      \* sends posted at the client that its NIC has not processed
  wire,       \* writes on their way to the server
  acks,       \* acknowledgements on their way back (RC)
  cq,         \* completions in each peer's completion queue
  available_wqes,
  dropped     \* history: a write was lost

qpVars == <<qp, neighbor, dest>>
hcaVars == <<recvs, sends, wire, acks, cq, dropped>>
peerVars == <<socketVars, qpVars, hcaVars, available_wqes>>

\* A neighbor or destination that is not known yet.
None == [unknown |-> TRUE]

\* What a peer tells the other; the programs start with PSN 0.
QpInfo(p) == [qp_num |-> p, psn |-> 0]

\* The type of the queue pairs: RC or UC.
Reliable == program = "rdma_write_rc_test"

PeersInit ==
  /\ program \in {"rdma_write_rc_test", "rdma_write_uc_test", "proxy_send_recv"}
  /\ length \in Lengths
  /\ pc = [p \in Peers |-> "setup"]
  /\ SocketInit
  /\ qp = [p \in Peers |-> "RESET"]
  /\ neighbor = [p \in Peers |-> None]
  /\ dest = [p \in Peers |-> None]
  /\ recvs = 0
  /\ sends = 0
  /\ wire = 0
  /\ acks = 0
  /\ cq = [p \in Peers |-> 0]
  /\ available_wqes = SendQueueDepth
  /\ dropped = FALSE

\* The byte of syncReady.
Ready == [ready |-> "a"]

----------------------------------------------------------------------------
(* main, one word per step.                                                *)

\* Mutant: the server reports ready before it has posted its receive.
WriteTestReadyEarly ==
  <<"setup", "listen", "accept", "exchange", "rtr", "rts", "ready", "post",
    "poll", "fill", "ready_again", "bench", "destroy", "done">>

WriteTestServer ==
  <<"setup", "listen", "accept", "exchange", "rtr", "rts", "post", "ready",
    "poll", "fill", "ready_again", "bench", "destroy", "done">>
WriteTestClient ==
  <<"setup", "connect", "exchange", "rtr", "rts", "ready", "post", "poll",
    "ready_again", "bench", "destroy", "done">>

\* Mutant: the socket is closed before the operation is appended.
SendRecvClosesEarly ==
  <<"setup", "listen", "accept", "exchange", "rtr", "rts", "fill", "ready",
    "close", "append", "start", "wait", "destroy", "done">>

\* The socket is destroyed at the end of its block.  Only the client calls
\* syncReady twice.
SendRecvServer ==
  <<"setup", "listen", "accept", "exchange", "rtr", "rts", "fill", "ready",
    "append", "close", "start", "wait", "destroy", "done">>
SendRecvClient ==
  <<"setup", "connect", "exchange", "rtr", "rts", "ready", "ready_again",
    "append", "close", "start", "wait", "destroy", "done">>

Program(p) ==
  IF program = "proxy_send_recv"
  THEN IF p = "server" THEN SendRecvServer ELSE SendRecvClient
  ELSE IF p = "server" THEN WriteTestServer ELSE WriteTestClient

At(p, step) == pc[p] = step

GoOn(p) ==
  pc' = [pc EXCEPT ![p] =
           LET k == CHOOSE n \in 1 .. Len(Program(p)) : Program(p)[n] = @
           IN  Program(p)[k + 1]]

----------------------------------------------------------------------------
(* Operations of the peers.                                                *)

\* Open the device, create the queue pair, modify_qp_to_init.
OpenQp(p) ==
  /\ qp' = [qp EXCEPT ![p] = "INIT"]
  /\ UNCHANGED <<socketVars, neighbor, dest, hcaVars, available_wqes>>

\* syncData(&qp_info, &neighbor_qp_info).
ExchangeInfo(p) ==
  /\ \/ /\ SyncSend(p, QpInfo(p))
        /\ UNCHANGED neighbor
     \/ /\ SyncRecv(p)
        /\ neighbor' = [neighbor EXCEPT ![p] = Head(stream[p])]
  /\ UNCHANGED <<qp, dest, hcaVars, available_wqes>>

\* Mutant: the queue pair is connected to itself.
OwnInfo(p) == QpInfo(p)

\* The attributes of modify_qp_to_rts come from the neighbor's info.
DestInfo(p) == neighbor[p]

\* The RTR half of modify_qp_to_rts: RC expects PSN 0, UC the neighbor's.
ModifyToRtr(p) ==
  /\ qp' = [qp EXCEPT ![p] = "RTR"]
  /\ dest' = [dest EXCEPT ![p] =
                [info |-> DestInfo(p),
                 rq_psn |-> IF Reliable THEN 0 ELSE DestInfo(p).psn]]
  /\ UNCHANGED <<socketVars, neighbor, hcaVars, available_wqes>>

\* The RTS half: both types start sending with PSN 0.
ModifyToRts(p) ==
  /\ qp' = [qp EXCEPT ![p] = "RTS"]
  /\ UNCHANGED <<socketVars, neighbor, dest, hcaVars, available_wqes>>

\* The server posts n receives, the client a send.
PostRecvs(n) ==
  /\ recvs' = recvs + n
  /\ UNCHANGED <<socketVars, qpVars, sends, wire, acks, cq, dropped,
                 available_wqes>>

PostSend ==
  /\ sends' = sends + 1
  /\ UNCHANGED <<socketVars, qpVars, recvs, wire, acks, cq, dropped>>

\* What ibv_poll_cq returns.
Polled(p) == IF cq[p] < PollMax THEN cq[p] ELSE PollMax

\* Mutant: one receive is posted for a whole batch of completions.
RepostOne(n) == recvs + 1

\* Every completion of the batch is followed by a new receive.
Reposted(n) == recvs + n

\* recv_benchmark polls and posts.
PollRecvs ==
  /\ cq' = [cq EXCEPT !["server"] = @ - Polled("server")]
  /\ recvs' = Reposted(Polled("server"))
  /\ UNCHANGED <<socketVars, qpVars, sends, wire, acks, dropped, available_wqes>>

\* send_benchmark posts while there is room in the send queue.
PostBenchmarkSend ==
  /\ available_wqes > 0
  /\ PostSend
  /\ available_wqes' = available_wqes - 1

\* Mutant: a poll is taken to return a full batch.
CreditedBatch(n) == available_wqes + PollMax

\* The send queue entries of the completions polled are free again.
Credited(n) == available_wqes + n

\* It polls when there is none.
PollSends ==
  /\ available_wqes = 0
  /\ cq' = [cq EXCEPT !["client"] = @ - Polled("client")]
  /\ available_wqes' = Credited(Polled("client"))
  /\ UNCHANGED <<socketVars, qpVars, recvs, sends, wire, acks, dropped>>

\* ibv_destroy_qp: what the NIC has not processed is gone.
DestroyQueuePair(p) ==
  /\ qp' = [qp EXCEPT ![p] = "destroyed"]
  /\ sends' = IF p = "client" THEN 0 ELSE sends
  /\ dropped' = (dropped \/ (p = "client" /\ sends > 0))
  /\ UNCHANGED <<socketVars, neighbor, dest, recvs, wire, acks, cq,
                 available_wqes>>

----------------------------------------------------------------------------
(* The steps that all programs have.                                       *)

Setup(p) == At(p, "setup") /\ OpenQp(p) /\ GoOn(p)

\* The two constructors of SocketEndpoint.
OpenSocket(p) ==
  /\ \/ At(p, "listen") /\ StartListening /\ GoOn(p)
     \/ At(p, "accept") /\ Accept /\ GoOn(p)
     \/ At(p, "connect") /\ Connect /\ GoOn(p)
     \/ At(p, "connect") /\ RetryConnect /\ UNCHANGED pc
     \/ At(p, "connect") /\ GiveUp /\ pc' = [pc EXCEPT ![p] = "threw"]
  /\ UNCHANGED <<qpVars, hcaVars, available_wqes>>

Exchange(p) ==
  /\ At(p, "exchange")
  /\ ExchangeInfo(p)
  /\ IF half[p] = 2 THEN GoOn(p) ELSE UNCHANGED pc

ConnectQp(p) ==
  \/ At(p, "rtr") /\ ModifyToRtr(p) /\ GoOn(p)
  \/ At(p, "rts") /\ ModifyToRts(p) /\ GoOn(p)

\* The server posts kSendQueueDepth receives for the benchmark.
FillReceiveQueue(p) ==
  At(p, "fill") /\ PostRecvs(SendQueueDepth) /\ GoOn(p)

\* syncReady, syncData with one byte; its result is not looked at.
SyncReady(p) ==
  /\ At(p, "ready") \/ At(p, "ready_again")
  /\ \/ /\ SyncSend(p, Ready) \/ SyncRecv(p)
        /\ IF half[p] = 2 THEN GoOn(p) ELSE UNCHANGED pc
     \/ SyncEof(p) /\ GoOn(p)
  /\ UNCHANGED <<qpVars, hcaVars, available_wqes>>

DestroyQp(p) == At(p, "destroy") /\ DestroyQueuePair(p) /\ GoOn(p)

CommonStep(p) ==
  \/ Setup(p) \/ OpenSocket(p) \/ Exchange(p) \/ ConnectQp(p)
  \/ FillReceiveQueue(p) \/ SyncReady(p) \/ DestroyQp(p)

----------------------------------------------------------------------------
(* The NICs and the wire.                                                  *)

\* The client's NIC takes a work request; for UC that completes it.
Transmit ==
  /\ sends > 0
  /\ sends' = sends - 1
  /\ wire' = wire + 1
  /\ cq' = IF Reliable THEN cq ELSE [cq EXCEPT !["client"] = @ + 1]
  /\ UNCHANGED <<recvs, acks, dropped>>

ServerReady == qp["server"] \in {"RTR", "RTS"} /\ recvs > 0

\* The write reaches a receive.  RC acknowledges it, and keeps trying while
\* the receiver is not ready (rnr_retry = 7 means forever).
Deliver ==
  /\ wire > 0
  /\ ServerReady
  /\ wire' = wire - 1
  /\ recvs' = recvs - 1
  /\ cq' = [cq EXCEPT !["server"] = @ + 1]
  /\ acks' = IF Reliable THEN acks + 1 ELSE acks
  /\ UNCHANGED <<sends, dropped>>

Acknowledge ==
  /\ acks > 0
  /\ acks' = acks - 1
  /\ cq' = [cq EXCEPT !["client"] = @ + 1]
  /\ UNCHANGED <<recvs, sends, wire, dropped>>

\* UC loses what the network loses and what finds no receive.  RC sends
\* again as long as the client's queue pair is there: an assumption, since
\* retry_cnt is 7, that no packet is lost so often in a row.
Lose ==
  /\ wire > 0
  /\ IF Reliable THEN MayLose /\ qp["client"] = "destroyed"
                 ELSE MayLose \/ ~ServerReady
  /\ wire' = wire - 1
  /\ dropped' = TRUE
  /\ UNCHANGED <<recvs, sends, acks, cq>>

HcaStep ==
  /\ Transmit \/ Deliver \/ Acknowledge
  /\ UNCHANGED <<pc, socketVars, qpVars, available_wqes>>

Loss ==
  /\ Lose
  /\ UNCHANGED <<pc, socketVars, qpVars, available_wqes>>

----------------------------------------------------------------------------
(* Properties.                                                             *)

\* A queue pair that may send is connected to the other peer's, and expects
\* the packet sequence number the other one starts with.
ConnectedToPeer ==
  \A p \in Peers : qp[p] = "RTS" =>
    /\ dest[p].info = QpInfo(Other(p))
    /\ dest[p].rq_psn = 0

\* The handshake with syncReady keeps the client from writing too early: as
\* long as the benchmark is no longer than the server's supply of receives,
\* every write on the wire finds a connected queue pair and a receive.
NoReceiverNotReady ==
  wire > 0 /\ length <= SendQueueDepth =>
    qp["server"] \in {"RTR", "RTS"} /\ recvs >= wire

\* ibv_post_send and ibv_post_recv, whose results the benchmarks ignore, never
\* find their queue full: an entry is free again once its completion is polled.
QueuesFit ==
  /\ sends + cq["client"] + (IF Reliable THEN wire + acks ELSE 0) <= SendQueueDepth
  /\ recvs + cq["server"] <= ReceiveQueueDepth
=============================================================================
