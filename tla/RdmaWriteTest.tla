--------------------------- MODULE RdmaWriteTest ---------------------------
(***************************************************************************)
(* The programs rdma_write_rc_test.cc and rdma_write_uc_test.cc of          *)
(* src/examples: the client writes once and then `length' times.            *)
(***************************************************************************)
EXTENDS RdmaPeers

VARIABLE i    \* iterations each benchmark has done

WriteTestInit == i = [p \in Peers |-> 0]

----------------------------------------------------------------------------
(* The first write, and the receives for the benchmark.                     *)

PostFirstRecv ==
  At("server", "post") /\ PostRecvs(1) /\ GoOn("server") /\ UNCHANGED i

PostFirstSend ==
  At("client", "post") /\ PostSend /\ GoOn("client") /\ UNCHANGED <<available_wqes, i>>

\* The busy loop on ibv_poll_cq for one completion.
PollFirst(p) ==
  /\ At(p, "poll")
  /\ cq[p] > 0
  /\ cq' = [cq EXCEPT ![p] = @ - 1]
  /\ GoOn(p)
  /\ UNCHANGED <<socketVars, qpVars, recvs, sends, wire, acks, dropped,
                 available_wqes, i>>

----------------------------------------------------------------------------
(* The benchmarks.                                                         *)

Benchmarking(p) == At(p, "bench") /\ i[p] < length /\ UNCHANGED pc

RecvBenchmark ==
  /\ Benchmarking("server")
  /\ cq["server"] > 0
  /\ PollRecvs
  /\ i' = [i EXCEPT !["server"] = @ + Polled("server")]

SendBenchmarkPost ==
  /\ Benchmarking("client")
  /\ PostBenchmarkSend
  /\ i' = [i EXCEPT !["client"] = @ + 1]

SendBenchmarkPoll ==
  /\ Benchmarking("client")
  /\ cq["client"] > 0
  /\ PollSends
  /\ UNCHANGED i

\* The loop ends and the socket goes out of scope.
LeaveBenchmark(p) ==
  /\ At(p, "bench")
  /\ i[p] >= length
  /\ CloseSocket(p)
  /\ GoOn(p)
  /\ UNCHANGED <<qpVars, hcaVars, available_wqes, i>>

WriteTestStep(p) ==
  /\ program # "proxy_send_recv"
  /\ \/ CommonStep(p) /\ UNCHANGED i
     \/ PollFirst(p) \/ LeaveBenchmark(p)
     \/ p = "server" /\ (PostFirstRecv \/ RecvBenchmark)
     \/ p = "client" /\ (PostFirstSend \/ SendBenchmarkPost \/ SendBenchmarkPoll)

----------------------------------------------------------------------------
(* Properties.                                                             *)

\* recv_benchmark keeps up its supply: a receive is posted for every write
\* that has completed, none is used up for good.
SupplyKept ==
  pc["server"] = "bench" => recvs + cq["server"] = SendQueueDepth

\* Both programs come to their end, unless the client found no server in
\* time or a write was lost: on the network (UC), or because the client
\* destroyed its queue pair before its NIC was through.
BothFinish ==
  <>(\/ program = "proxy_send_recv"
     \/ \A p \in Peers : pc[p] = "done"
     \/ pc["client"] = "threw"
     \/ dropped)
=============================================================================
