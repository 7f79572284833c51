----------------------------- MODULE RdmaProofs -----------------------------
(***************************************************************************)
(* Proofs about the RDMA programs, for every length of the benchmark and    *)
(* every depth of the queues.                                               *)
(***************************************************************************)
EXTENDS RdmaPrograms, TLAPS

----------------------------------------------------------------------------
(* The order of the steps of main.                                         *)

\* No step occurs twice in a program.
LEMMA StepsDiffer ==
  \A p \in Peers : \A m, n \in 1 .. Len(Program(p)) :
    Program(p)[m] = Program(p)[n] => m = n
<1>1. \A m, n \in 1 .. Len(WriteTestServer) :
        WriteTestServer[m] = WriteTestServer[n] => m = n
  BY SMTT(60) DEF WriteTestServer
<1>2. \A m, n \in 1 .. Len(WriteTestClient) :
        WriteTestClient[m] = WriteTestClient[n] => m = n
  BY SMTT(60) DEF WriteTestClient
<1>3. \A m, n \in 1 .. Len(SendRecvServer) :
        SendRecvServer[m] = SendRecvServer[n] => m = n
  BY SMTT(60) DEF SendRecvServer
<1>4. \A m, n \in 1 .. Len(SendRecvClient) :
        SendRecvClient[m] = SendRecvClient[n] => m = n
  BY SMTT(60) DEF SendRecvClient
<1>5. QED
  BY <1>1, <1>2, <1>3, <1>4 DEF Program, Peers

\* GoOn leads to the step that follows.
LEMMA Follows ==
  ASSUME NEW p \in Peers, NEW n \in 1 .. Len(Program(p)),
         pc = [q \in Peers |-> pc[q]], pc[p] = Program(p)[n], GoOn(p)
  PROVE  pc' = [pc EXCEPT ![p] = Program(p)[n + 1]]
<1>1. (CHOOSE m \in 1 .. Len(Program(p)) : Program(p)[m] = pc[p]) = n
  BY StepsDiffer
<1>2. QED
  BY <1>1 DEF GoOn

\* The four programs, step by step.
LEMMA WriteTestServerOrder ==
  ASSUME ~IsProxyProgram, pc = [q \in Peers |-> pc[q]], GoOn("server")
  PROVE  /\ pc["server"] = "setup" => pc'["server"] = "listen"
         /\ pc["server"] = "listen" => pc'["server"] = "accept"
         /\ pc["server"] = "accept" => pc'["server"] = "exchange"
         /\ pc["server"] = "exchange" => pc'["server"] = "rtr"
         /\ pc["server"] = "rtr" => pc'["server"] = "rts"
         /\ pc["server"] = "rts" => pc'["server"] = "post"
         /\ pc["server"] = "post" => pc'["server"] = "ready"
         /\ pc["server"] = "ready" => pc'["server"] = "poll"
         /\ pc["server"] = "poll" => pc'["server"] = "fill"
         /\ pc["server"] = "fill" => pc'["server"] = "ready_again"
         /\ pc["server"] = "ready_again" => pc'["server"] = "bench"
         /\ pc["server"] = "bench" => pc'["server"] = "destroy"
         /\ pc["server"] = "destroy" => pc'["server"] = "done"
<1>1. Program("server") = WriteTestServer
  BY DEF Program, IsProxyProgram
<1>2. 1 .. Len(Program("server")) = 1 .. 14
  BY <1>1 DEF WriteTestServer
<1>3. ASSUME NEW n \in 1 .. 13, pc["server"] = WriteTestServer[n]
      PROVE  pc'["server"] = WriteTestServer[n + 1]
  <2>1. n \in 1 .. Len(Program("server"))
    BY <1>2, <1>3
  <2>2. pc["server"] = Program("server")[n]
    BY <1>1, <1>3
  <2>3. pc'["server"] = Program("server")[n + 1]
    BY <2>1, <2>2, Follows DEF Peers
  <2>4. QED
    BY <1>1, <2>3
<1>4. QED
  BY <1>3 DEF WriteTestServer

LEMMA WriteTestClientOrder ==
  ASSUME ~IsProxyProgram, pc = [q \in Peers |-> pc[q]], GoOn("client")
  PROVE  /\ pc["client"] = "setup" => pc'["client"] = "connect"
         /\ pc["client"] = "connect" => pc'["client"] = "exchange"
         /\ pc["client"] = "exchange" => pc'["client"] = "rtr"
         /\ pc["client"] = "rtr" => pc'["client"] = "rts"
         /\ pc["client"] = "rts" => pc'["client"] = "ready"
         /\ pc["client"] = "ready" => pc'["client"] = "post"
         /\ pc["client"] = "post" => pc'["client"] = "poll"
         /\ pc["client"] = "poll" => pc'["client"] = "ready_again"
         /\ pc["client"] = "ready_again" => pc'["client"] = "bench"
         /\ pc["client"] = "bench" => pc'["client"] = "destroy"
         /\ pc["client"] = "destroy" => pc'["client"] = "done"
<1>1. Program("client") = WriteTestClient
  BY DEF Program, IsProxyProgram
<1>2. 1 .. Len(Program("client")) = 1 .. 12
  BY <1>1 DEF WriteTestClient
<1>3. ASSUME NEW n \in 1 .. 11, pc["client"] = WriteTestClient[n]
      PROVE  pc'["client"] = WriteTestClient[n + 1]
  <2>1. n \in 1 .. Len(Program("client"))
    BY <1>2, <1>3
  <2>2. pc["client"] = Program("client")[n]
    BY <1>1, <1>3
  <2>3. pc'["client"] = Program("client")[n + 1]
    BY <2>1, <2>2, Follows DEF Peers
  <2>4. QED
    BY <1>1, <2>3
<1>4. QED
  BY <1>3 DEF WriteTestClient

LEMMA SendRecvServerOrder ==
  ASSUME IsProxyProgram, pc = [q \in Peers |-> pc[q]], GoOn("server")
  PROVE  /\ pc["server"] = "setup" => pc'["server"] = "listen"
         /\ pc["server"] = "listen" => pc'["server"] = "accept"
         /\ pc["server"] = "accept" => pc'["server"] = "exchange"
         /\ pc["server"] = "exchange" => pc'["server"] = "rtr"
         /\ pc["server"] = "rtr" => pc'["server"] = "rts"
         /\ pc["server"] = "rts" => pc'["server"] = "fill"
         /\ pc["server"] = "fill" => pc'["server"] = "ready"
         /\ pc["server"] = "ready" => pc'["server"] = "append"
         /\ pc["server"] = "append" => pc'["server"] = "close"
         /\ pc["server"] = "close" => pc'["server"] = "start"
         /\ pc["server"] = "start" => pc'["server"] = "wait"
         /\ pc["server"] = "wait" => pc'["server"] = "destroy"
         /\ pc["server"] = "destroy" => pc'["server"] = "done"
<1>1. Program("server") = SendRecvServer
  BY DEF Program, IsProxyProgram
<1>2. 1 .. Len(Program("server")) = 1 .. 14
  BY <1>1 DEF SendRecvServer
<1>3. ASSUME NEW n \in 1 .. 13, pc["server"] = SendRecvServer[n]
      PROVE  pc'["server"] = SendRecvServer[n + 1]
  <2>1. n \in 1 .. Len(Program("server"))
    BY <1>2, <1>3
  <2>2. pc["server"] = Program("server")[n]
    BY <1>1, <1>3
  <2>3. pc'["server"] = Program("server")[n + 1]
    BY <2>1, <2>2, Follows DEF Peers
  <2>4. QED
    BY <1>1, <2>3
<1>4. QED
  BY <1>3 DEF SendRecvServer

LEMMA SendRecvClientOrder ==
  ASSUME IsProxyProgram, pc = [q \in Peers |-> pc[q]], GoOn("client")
  PROVE  /\ pc["client"] = "setup" => pc'["client"] = "connect"
         /\ pc["client"] = "connect" => pc'["client"] = "exchange"
         /\ pc["client"] = "exchange" => pc'["client"] = "rtr"
         /\ pc["client"] = "rtr" => pc'["client"] = "rts"
         /\ pc["client"] = "rts" => pc'["client"] = "ready"
         /\ pc["client"] = "ready" => pc'["client"] = "ready_again"
         /\ pc["client"] = "ready_again" => pc'["client"] = "append"
         /\ pc["client"] = "append" => pc'["client"] = "close"
         /\ pc["client"] = "close" => pc'["client"] = "start"
         /\ pc["client"] = "start" => pc'["client"] = "wait"
         /\ pc["client"] = "wait" => pc'["client"] = "destroy"
         /\ pc["client"] = "destroy" => pc'["client"] = "done"
<1>1. Program("client") = SendRecvClient
  BY DEF Program, IsProxyProgram
<1>2. 1 .. Len(Program("client")) = 1 .. 13
  BY <1>1 DEF SendRecvClient
<1>3. ASSUME NEW n \in 1 .. 12, pc["client"] = SendRecvClient[n]
      PROVE  pc'["client"] = SendRecvClient[n + 1]
  <2>1. n \in 1 .. Len(Program("client"))
    BY <1>2, <1>3
  <2>2. pc["client"] = Program("client")[n]
    BY <1>1, <1>3
  <2>3. pc'["client"] = Program("client")[n + 1]
    BY <2>1, <2>2, Follows DEF Peers
  <2>4. QED
    BY <1>1, <2>3
<1>4. QED
  BY <1>3 DEF SendRecvClient

\* The steps of the programs.
LEMMA Places ==
  /\ Steps("server") =
       IF IsProxyProgram
       THEN {"setup", "listen", "accept", "exchange", "rtr", "rts",
             "fill", "ready", "append", "close", "start", "wait",
             "destroy", "done"}
       ELSE {"setup", "listen", "accept", "exchange", "rtr", "rts",
             "post", "ready", "poll", "fill", "ready_again", "bench",
             "destroy", "done"}
  /\ Steps("client") =
       IF IsProxyProgram
       THEN {"setup", "connect", "exchange", "rtr", "rts", "ready",
             "ready_again", "append", "close", "start", "wait",
             "destroy", "done", "threw"}
       ELSE {"setup", "connect", "exchange", "rtr", "rts", "ready",
             "post", "poll", "ready_again", "bench", "destroy", "done",
             "threw"}
<1>1. CASE IsProxyProgram
  <2>1. Steps("server") =
          {"setup", "listen", "accept", "exchange", "rtr", "rts",
           "fill", "ready", "append", "close", "start", "wait",
           "destroy", "done"}
    BY <1>1 DEF Steps, Program, SendRecvServer, IsProxyProgram
  <2>2. Steps("client") =
          {"setup", "connect", "exchange", "rtr", "rts", "ready",
           "ready_again", "append", "close", "start", "wait",
           "destroy", "done", "threw"}
    BY <1>1 DEF Steps, Program, SendRecvClient, IsProxyProgram
  <2>3. QED
    BY <1>1, <2>1, <2>2
<1>2. CASE ~IsProxyProgram
  <2>1. Steps("server") =
          {"setup", "listen", "accept", "exchange", "rtr", "rts",
           "post", "ready", "poll", "fill", "ready_again", "bench",
           "destroy", "done"}
    BY <1>2 DEF Steps, Program, WriteTestServer, IsProxyProgram
  <2>2. Steps("client") =
          {"setup", "connect", "exchange", "rtr", "rts", "ready",
           "post", "poll", "ready_again", "bench", "destroy", "done",
           "threw"}
    BY <1>2 DEF Steps, Program, WriteTestClient, IsProxyProgram
  <2>3. QED
    BY <1>2, <2>1, <2>2
<1>3. QED
  BY <1>1, <1>2

\* What a step of main leads to, for both peers of all programs.
LEMMA Moves ==
  ASSUME ProgramsTypeOK, NEW p \in Peers, GoOn(p)
  PROVE  /\ pc' = [q \in Peers |-> pc'[q]] /\ pc'[Other(p)] = pc[Other(p)]
         /\ At(p, "setup") => pc'[p] = IF p = "server" THEN "listen" ELSE "connect"
         /\ At(p, "listen") => pc'[p] = "accept" /\ p = "server"
         /\ At(p, "accept") => pc'[p] = "exchange" /\ p = "server"
         /\ At(p, "connect") => pc'[p] = "exchange" /\ p = "client"
         /\ At(p, "exchange") => pc'[p] = "rtr"
         /\ At(p, "rtr") => pc'[p] = "rts"
         /\ At(p, "rts") => pc'[p] = IF p = "client" THEN "ready"
                                     ELSE IF IsProxyProgram THEN "fill" ELSE "post"
         /\ At(p, "fill") => /\ pc'[p] = IF IsProxyProgram THEN "ready" ELSE "ready_again"
                             /\ p = "server"
         /\ At(p, "ready") => pc'[p] = IF IsProxyProgram
                                       THEN IF p = "server" THEN "append" ELSE "ready_again"
                                       ELSE IF p = "server" THEN "poll" ELSE "post"
         /\ At(p, "ready_again") => /\ pc'[p] = IF IsProxyProgram THEN "append" ELSE "bench"
                                    /\ IsProxyProgram => p = "client"
         /\ At(p, "post") => /\ pc'[p] = IF p = "server" THEN "ready" ELSE "poll"
                             /\ ~IsProxyProgram
         /\ At(p, "poll") => /\ pc'[p] = IF p = "server" THEN "fill" ELSE "ready_again"
                             /\ ~IsProxyProgram
         /\ At(p, "bench") => pc'[p] = "destroy" /\ ~IsProxyProgram
         /\ At(p, "append") => pc'[p] = "close" /\ IsProxyProgram
         /\ At(p, "close") => pc'[p] = "start" /\ IsProxyProgram
         /\ At(p, "start") => pc'[p] = "wait" /\ IsProxyProgram
         /\ At(p, "wait") => pc'[p] = "destroy" /\ IsProxyProgram
         /\ At(p, "destroy") => pc'[p] = "done"
<1>1. pc = [q \in Peers |-> pc[q]] /\ pc[p] \in Steps(p)
  BY DEF ProgramsTypeOK
<1>2. pc' = [q \in Peers |-> pc'[q]] /\ pc'[Other(p)] = pc[Other(p)]
  <2>1. PICK next : pc' = [pc EXCEPT ![p] = next]
    BY DEF GoOn
  <2>2. QED
    BY <1>1, <2>1 DEF Other, Peers
<1>3. CASE p = "server" /\ IsProxyProgram
  BY <1>1, <1>2, <1>3, Places, SendRecvServerOrder DEF At
<1>4. CASE p = "client" /\ IsProxyProgram
  BY <1>1, <1>2, <1>4, Places, SendRecvClientOrder DEF At
<1>5. CASE p = "server" /\ ~IsProxyProgram
  BY <1>1, <1>2, <1>5, Places, WriteTestServerOrder DEF At
<1>6. CASE p = "client" /\ ~IsProxyProgram
  BY <1>1, <1>2, <1>6, Places, WriteTestClientOrder DEF At
<1>7. QED
  BY <1>3, <1>4, <1>5, <1>6 DEF Peers

\* The place a step leads to is one of the program.
LEMMA StaysInProgram ==
  ASSUME ProgramsTypeOK, NEW p \in Peers, GoOn(p), UNCHANGED program,
         pc[p] \notin {"done", "threw"}
  PROVE  \A q \in Peers : pc'[q] \in Steps(q)'
<1>1. \A q \in Peers : Steps(q)' = Steps(q) /\ pc[q] \in Steps(q)
  BY DEF Steps, Program, ProgramsTypeOK
<1>2. pc'[p] \in Steps(p)
  BY <1>1, Moves, Places DEF At, Peers
<1>3. QED
  BY <1>1, <1>2, Moves DEF Other, Peers

\* Only a step with a call of syncData counts as one.
LEMMA SyncsKept ==
  ASSUME ProgramsTypeOK, NEW p \in Peers, GoOn(p), UNCHANGED program,
         pc[p] \notin {"exchange", "ready", "ready_again", "done", "threw"}
  PROVE  \A q \in Peers : Syncs(q)' = Syncs(q)
<1>1. Syncs(p)' = Syncs(p)
  <2>1. pc[p] \in Steps(p) /\ IsProxyProgram' = IsProxyProgram
    BY DEF ProgramsTypeOK, IsProxyProgram
  <2>2. CASE p = "server"
    BY <2>1, <2>2, Moves, Places DEF At, Syncs, Unconnected
  <2>3. CASE p = "client"
    BY <2>1, <2>3, Moves, Places DEF At, Syncs, Unconnected
  <2>4. QED
    BY <2>2, <2>3 DEF Peers
<1>2. Syncs(Other(p))' = Syncs(Other(p))
  BY Moves DEF Syncs, IsProxyProgram
<1>3. QED
  BY <1>1, <1>2 DEF Other, Peers

\* The steps without a call of syncData leave the handshake alone.
LEMMA HandshakeKept ==
  ASSUME ProgramsTypeOK, HandshakeInv, NEW p \in Peers, GoOn(p),
         UNCHANGED <<program, half, stream, closed>>,
         pc[p] \notin {"exchange", "ready", "ready_again", "done", "threw"}
  PROVE  HandshakeInv'
<1>1. \A q \in Peers : Syncs(q)' = Syncs(q)
  BY SyncsKept
<1>2. \A q \in Peers : half'[q] = 2 => pc'[q] \in {"exchange", "ready", "ready_again"}
  BY Moves DEF HandshakeInv, Other, Peers
<1>3. \A q \in closed : IF IsProxyProgram THEN pc'[q] \in {"start", "wait", "destroy", "done"}
                                          ELSE pc'[q] \in {"destroy", "done"}
  <2> SUFFICES ASSUME NEW q \in closed
               PROVE  IF IsProxyProgram THEN pc'[q] \in {"start", "wait", "destroy", "done"}
                                        ELSE pc'[q] \in {"destroy", "done"}
    OBVIOUS
  <2>1. IF IsProxyProgram THEN pc[q] \in {"start", "wait", "destroy", "done"}
                          ELSE pc[q] \in {"destroy", "done"}
    BY DEF HandshakeInv
  <2>2. q = p \/ q = Other(p)
    BY DEF ProgramsTypeOK, Other, Peers
  <2>3. CASE q = p
    BY <2>1, <2>3, Moves DEF At
  <2>4. CASE q = Other(p)
    BY <2>1, <2>4, Moves
  <2>5. QED
    BY <2>2, <2>3, <2>4
<1>4. QED
  BY <1>1, <1>2, <1>3 DEF HandshakeInv, Peers, IsProxyProgram, Message, QpInfo, Ready

\* The steps that neither connect nor destroy the queue pair leave what is
\* known of the connection alone.
LEMMA ConnectionStays ==
  ASSUME ProgramsTypeOK, ConnectionInv, NEW p \in Peers, GoOn(p),
         UNCHANGED <<program, half, qp, neighbor, dest>>,
         pc[p] \notin {"exchange", "rtr", "ready", "ready_again", "destroy", "done", "threw"}
  PROVE  ConnectionInv'
<1>1. \A q \in Peers : Syncs(q)' = Syncs(q)
  BY SyncsKept
<1>2. \A q \in Peers : pc'[q] \in Unconnected <=> pc[q] \in Unconnected
  <2>1. pc[p] \in Steps(p)
    BY DEF ProgramsTypeOK
  <2>2. pc'[p] \in Unconnected <=> pc[p] \in Unconnected
    BY <2>1, Moves, Places DEF At, Unconnected, Peers
  <2>3. QED
    BY <2>2, Moves DEF Other, Peers
<1>3. \A q \in Peers : pc[q] = "done" => pc'[q] = "done"
  BY Moves DEF Other, Peers
<1>4. QED
  BY <1>1, <1>2, <1>3 DEF ConnectionInv, QpInfo

\* The steps of main that post, poll, or concern the operation.
Counting == {"fill", "post", "poll", "append", "wait", "bench"}

\* The other steps leave all counts alone.
LEMMA CountsStay ==
  ASSUME ProgramsInv, NEW p \in Peers, GoOn(p),
         UNCHANGED <<program, length, recvs, sends, wire, acks, cq, available_wqes, i, argsVars>>,
         pc[p] \notin Counting \union {"done", "threw"}
  PROVE  SupplyInv' /\ CreditInv' /\ FlowInv' /\ ArgsInv'
<1>1. /\ ProgramsTypeOK /\ SupplyInv /\ CreditInv /\ FlowInv /\ ArgsInv
      /\ IsProxyProgram' = IsProxyProgram /\ Reliable' = Reliable
  BY DEF ProgramsInv, IsProxyProgram, Reliable
<1>2. /\ pc[p] \in Steps(p)
      /\ pc'[Other(p)] = pc[Other(p)]
      /\ pc["server"] \in Steps("server") /\ pc["client"] \in Steps("client")
  BY <1>1, Moves DEF ProgramsTypeOK, Peers
<1>3. SupplyInv'
  <2>1. CASE p = "server"
    BY <1>1, <1>2, <2>1, Moves, Places DEF At, SupplyInv, Syncs, Unconnected, Counting
  <2>2. CASE p = "client"
    BY <1>1, <1>2, <2>2 DEF SupplyInv, Syncs, Other
  <2>3. QED
    BY <2>1, <2>2 DEF Peers
<1>4. CreditInv'
  <2>1. CASE p = "client"
    BY <1>1, <1>2, <2>1, Moves, Places DEF At, CreditInv, InFlight, Counting
  <2>2. CASE p = "server"
    BY <1>1, <1>2, <2>2 DEF CreditInv, InFlight, Other
  <2>3. QED
    BY <2>1, <2>2 DEF Peers
<1>5. FlowInv'
  <2>1. Seen' = Seen /\ Posted' = Posted
    <3>1. CASE p = "client"
      BY <1>1, <1>2, <3>1, Moves, Places DEF At, Seen, Posted, Counting, Other, argsVars
    <3>2. CASE p = "server"
      BY <1>1, <1>2, <3>2, Moves, Places DEF At, Seen, Posted, Counting, Other, argsVars
    <3>3. QED
      BY <3>1, <3>2 DEF Peers
  <2>2. \A q \in Peers : pc'[q] \notin {"bench", "destroy", "done"} => i'[q] = 0
    <3>1. pc'[p] \notin {"bench", "destroy", "done"} => pc[p] \notin {"bench", "destroy", "done"}
      BY <1>1, <1>2, Moves, Places DEF At, Counting
    <3>2. QED
      BY <1>1, <1>2, <3>1 DEF FlowInv, Peers, Other
  <2>3. ~IsProxyProgram /\ pc'["server"] \in {"destroy", "done"} => i'["server"] >= length'
    <3>1. ~IsProxyProgram /\ pc'["server"] \in {"destroy", "done"} =>
            pc["server"] \in {"destroy", "done"}
      <4>1. CASE p = "server"
        BY <1>1, <1>2, <4>1, Moves, Places DEF At, Counting
      <4>2. CASE p = "client"
        BY <1>2, <4>2 DEF Other
      <4>3. QED
        BY <4>1, <4>2 DEF Peers
    <3>2. QED
      BY <1>1, <3>1 DEF FlowInv
  <2>4. QED
    BY <1>1, <2>1, <2>2, <2>3 DEF FlowInv, argsVars
<1>6. ArgsInv'
  <2>1. IsProxyProgram => /\ pc'[p] \notin {"close", "start", "wait", "destroy", "done"} <=>
                               pc[p] \notin {"close", "start", "wait", "destroy", "done"}
                          /\ pc'[p] \in {"destroy", "done"} <=> pc[p] \in {"destroy", "done"}
    BY <1>1, <1>2, Moves, Places DEF At, Counting, Peers
  <2>2. Seen' = Seen \/ ~IsProxyProgram
    BY <1>1 DEF Seen, argsVars
  <2>3. QED
    BY <1>1, <1>2, <2>1, <2>2 DEF ArgsInv, argsVars, Peers, Other
<1>7. QED
  BY <1>3, <1>4, <1>5, <1>6

\* A step that moves no program counter leaves what is said of it alone.
LEMMA Unmoved ==
  ASSUME UNCHANGED <<pc, program>>
  PROVE  /\ IsProxyProgram' = IsProxyProgram /\ Reliable' = Reliable
         /\ \A q : Syncs(q)' = Syncs(q) /\ Steps(q)' = Steps(q)
  BY DEF IsProxyProgram, Reliable, Syncs, Steps, Program

\* The same without a step of main.
LEMMA CountsUnmoved ==
  ASSUME ProgramsInv,
         UNCHANGED <<pc, program, length, recvs, sends, wire, acks, cq, available_wqes, i,
                     argsVars>>
  PROVE  SupplyInv' /\ CreditInv' /\ FlowInv' /\ ArgsInv'
  BY Unmoved
  DEF ProgramsInv, SupplyInv, CreditInv, FlowInv, ArgsInv, InFlight, Seen, Posted, argsVars

\* A step that neither moves a program counter nor touches the socket or a
\* queue pair.
LEMMA ConnectionUnmoved ==
  ASSUME HandshakeInv, ConnectionInv,
         UNCHANGED <<pc, program, stream, half, closed, qp, neighbor, dest>>
  PROVE  HandshakeInv' /\ ConnectionInv'
<1>1. HandshakeInv'
  BY Unmoved DEF HandshakeInv, Message, QpInfo, Ready
<1>2. ConnectionInv'
  BY Unmoved DEF ConnectionInv
<1>3. QED
  BY <1>1, <1>2

\* The counters are numbers, and so is what a poll returns.
LEMMA Numbers ==
  ASSUME ProgramsTypeOK
  PROVE  /\ recvs \in Nat /\ sends \in Nat /\ wire \in Nat /\ acks \in Nat
         /\ cq["server"] \in Nat /\ cq["client"] \in Nat /\ available_wqes \in Nat
         /\ i["server"] \in Nat /\ i["client"] \in Nat
         /\ iterations["server"] \in Nat /\ iterations["client"] \in Nat
         /\ count \in Nat /\ length \in Nat \ {0} /\ SendQueueDepth \in Nat \ {0}
         /\ Seen \in Nat /\ Posted \in Nat /\ InFlight \in Nat
         /\ \A p \in Peers : Polled(p) \in 0 .. cq[p] /\ (cq[p] > 0 => Polled(p) > 0)
<1>1. /\ recvs \in Nat /\ sends \in Nat /\ wire \in Nat /\ acks \in Nat
      /\ cq["server"] \in Nat /\ cq["client"] \in Nat /\ available_wqes \in Nat
      /\ i["server"] \in Nat /\ i["client"] \in Nat
      /\ iterations["server"] \in Nat /\ iterations["client"] \in Nat
      /\ count \in Nat /\ length \in Nat \ {0} /\ SendQueueDepth \in Nat \ {0}
      /\ \A p \in Peers : cq[p] \in Nat
  BY RdmaAssumption DEF RdmaAssumption, ProgramsTypeOK, Peers
<1>2. \A p \in Peers : Polled(p) \in 0 .. cq[p] /\ (cq[p] > 0 => Polled(p) > 0)
  BY <1>1, RdmaAssumption DEF RdmaAssumption, Polled
<1>3. Seen \in Nat /\ Posted \in Nat /\ InFlight \in Nat
  BY <1>1 DEF Seen, Posted, InFlight
<1>4. QED
  BY <1>1, <1>2, <1>3

----------------------------------------------------------------------------
(* The steps that all programs have.                                       *)

\* What the steps of main that all programs have leave alone.
Frame == UNCHANGED <<program, length, i, argsVars>>

LEMMA SetupInv ==
  ASSUME ProgramsInv, NEW p \in Peers, Setup(p), Frame
  PROVE  ProgramsInv'
<1>1. /\ ProgramsTypeOK /\ HandshakeInv /\ ConnectionInv
      /\ GoOn(p) /\ pc[p] = "setup"
      /\ UNCHANGED <<socketVars, neighbor, dest, hcaVars, available_wqes>>
      /\ UNCHANGED <<program, length, i, argsVars>>
      /\ qp' = [qp EXCEPT ![p] = "INIT"]
  BY DEF ProgramsInv, Setup, OpenQp, At, Frame
<1>2. ProgramsTypeOK'
  BY <1>1, Moves, StaysInProgram
  DEF ProgramsTypeOK, socketVars, hcaVars, argsVars
<1>3. HandshakeInv'
  BY <1>1, HandshakeKept DEF socketVars
<1>4. ConnectionInv'
  <2>1. \A q \in Peers : Syncs(q)' = Syncs(q)
    BY <1>1, SyncsKept
  <2>2. pc'[p] \in Unconnected /\ pc'[Other(p)] = pc[Other(p)]
    BY <1>1, Moves DEF At, Unconnected
  <2>3. QED
    BY <1>1, <2>1, <2>2 DEF ConnectionInv, ProgramsTypeOK, socketVars, Other, Peers, QpInfo
<1>5. SupplyInv' /\ CreditInv' /\ FlowInv' /\ ArgsInv'
  BY <1>1, CountsStay DEF hcaVars, Counting
<1>6. QED
  BY <1>2, <1>3, <1>4, <1>5 DEF ProgramsInv

LEMMA OpenSocketInv ==
  ASSUME ProgramsInv, NEW p \in Peers, OpenSocket(p), Frame
  PROVE  ProgramsInv'
<1>1. /\ ProgramsTypeOK /\ HandshakeInv /\ ConnectionInv
      /\ SupplyInv /\ CreditInv /\ FlowInv /\ ArgsInv
      /\ UNCHANGED <<stream, half, closed, qpVars, hcaVars, available_wqes>>
      /\ UNCHANGED <<program, length, i, argsVars>>
  BY DEF ProgramsInv, OpenSocket, Frame, StartListening, Accept, Connect, RetryConnect,
         GiveUp, socketVars
<1>2. CASE pc[p] \in {"listen", "accept", "connect"} /\ GoOn(p)
  <2>1. ProgramsTypeOK'
    BY <1>1, <1>2, Moves, StaysInProgram
    DEF ProgramsTypeOK, qpVars, hcaVars, argsVars
  <2>2. HandshakeInv'
    BY <1>1, <1>2, HandshakeKept
  <2>3. ConnectionInv'
    BY <1>1, <1>2, ConnectionStays DEF qpVars
  <2>4. SupplyInv' /\ CreditInv' /\ FlowInv' /\ ArgsInv'
    BY <1>1, <1>2, CountsStay DEF hcaVars, Counting
  <2>5. QED
    BY <2>1, <2>2, <2>3, <2>4 DEF ProgramsInv
<1>3. CASE UNCHANGED pc
  <2>1. /\ IsProxyProgram' = IsProxyProgram
        /\ \A q : Syncs(q)' = Syncs(q) /\ Steps(q)' = Steps(q)
    BY <1>1, <1>3, Unmoved
  <2>2. ProgramsTypeOK'
    BY <1>1, <1>3, <2>1 DEF ProgramsTypeOK, qpVars, hcaVars, argsVars
  <2>3. HandshakeInv'
    BY <1>1, <1>3, <2>1 DEF HandshakeInv, Message, QpInfo, Ready
  <2>4. ConnectionInv'
    BY <1>1, <1>3, <2>1 DEF ConnectionInv, qpVars
  <2>5. SupplyInv' /\ CreditInv' /\ FlowInv' /\ ArgsInv'
    BY <1>1, <1>3, CountsUnmoved DEF hcaVars
  <2>6. QED
    BY <2>2, <2>3, <2>4, <2>5 DEF ProgramsInv
<1>4. CASE pc[p] = "connect" /\ pc' = [pc EXCEPT ![p] = "threw"]
  <2>1. /\ IsProxyProgram' = IsProxyProgram /\ Reliable' = Reliable
        /\ \A q : Steps(q)' = Steps(q)
        /\ \A q \in Peers : pc[q] \in Steps(q)
    BY <1>1 DEF IsProxyProgram, Reliable, Steps, Program, ProgramsTypeOK
  <2>2. p = "client"
    BY <1>4, <2>1, Places DEF Peers
  <2>3. pc'["client"] = "threw" /\ pc'["server"] = pc["server"] /\ pc["client"] = "connect"
    BY <1>1, <1>4, <2>2 DEF ProgramsTypeOK, Peers
  <2>4. \A q \in Peers : Syncs(q)' = Syncs(q)
    BY <2>1, <2>3 DEF Syncs, Peers, Unconnected
  <2>5. ProgramsTypeOK'
    BY <1>1, <1>4, <2>1, <2>3, Places DEF ProgramsTypeOK, qpVars, hcaVars, argsVars, Peers
  <2>6. HandshakeInv'
    BY <1>1, <2>1, <2>3, <2>4 DEF HandshakeInv, Message, QpInfo, Ready, Peers, ProgramsTypeOK
  <2>7. ConnectionInv'
    BY <1>1, <2>1, <2>3, <2>4 DEF ConnectionInv, qpVars, Unconnected, Peers
  <2>8. SupplyInv' /\ CreditInv'
    BY <1>1, <2>1, <2>3, <2>4
    DEF SupplyInv, CreditInv, InFlight, hcaVars, Peers
  <2>9. FlowInv' /\ ArgsInv'
    BY <1>1, <2>1, <2>3
    DEF FlowInv, ArgsInv, Seen, Posted, hcaVars, argsVars, Peers
  <2>10. QED
    BY <2>5, <2>6, <2>7, <2>8, <2>9 DEF ProgramsInv
<1>5. QED
  BY <1>2, <1>3, <1>4 DEF OpenSocket, At

\* A queue of one message.
LEMMA OneMessage ==
  ASSUME NEW m
  PROVE  /\ Append(<<>>, m) = <<m>>
         /\ Head(<<m>>) = m /\ Tail(<<m>>) = <<>> /\ <<m>> # <<>>
  OBVIOUS

\* A call of syncData that is through counts as one.
LEMMA SyncCounts ==
  ASSUME ProgramsTypeOK, NEW p \in Peers, GoOn(p), UNCHANGED program,
         pc[p] \in {"exchange", "ready", "ready_again"}
  PROVE  Syncs(p)' = Syncs(p) + 1 /\ Syncs(Other(p))' = Syncs(Other(p))
<1>1. pc[p] \in Steps(p) /\ IsProxyProgram' = IsProxyProgram
  BY DEF ProgramsTypeOK, IsProxyProgram
<1>2. Syncs(p)' = Syncs(p) + 1
  <2>1. CASE p = "server"
    BY <1>1, <2>1, Moves, Places DEF At, Syncs, Unconnected
  <2>2. CASE p = "client"
    BY <1>1, <2>2, Moves, Places DEF At, Syncs, Unconnected
  <2>3. QED
    BY <2>1, <2>2 DEF Peers
<1>3. QED
  BY <1>1, <1>2, Moves DEF Syncs

\* A peer that is about to call send or recv.
LEMMA InCall ==
  ASSUME ProgramsTypeOK, HandshakeInv, NEW p \in Peers,
         pc[p] \in {"exchange", "ready", "ready_again"}
  PROVE  /\ p \notin closed
         /\ Syncs(p) \in 0 .. 2
         /\ Syncs(p) = 0 <=> pc[p] = "exchange"
         /\ Syncs(Other(p)) \in 0 .. 3
         /\ p = "server" /\ half[p] = 1 =>
              /\ Syncs("client") = Syncs("server") /\ half["client"] = 1
              /\ stream["server"] = <<>> /\ stream["client"] = <<>>
         /\ p = "server" /\ half[p] = 2 /\ stream[p] # <<>> =>
              /\ Syncs("client") = Syncs("server") + 1 /\ half["client"] = 1
              /\ stream["client"] = <<>>
              /\ stream["server"] = <<Message("client", Syncs("server"))>>
         /\ p = "client" /\ half[p] = 1 /\ stream[p] # <<>> =>
              /\ Syncs("client") = Syncs("server") /\ half["server"] = 2
              /\ stream["server"] = <<>>
              /\ stream["client"] = <<Message("server", Syncs("client"))>>
         /\ p = "client" /\ half[p] = 2 =>
              /\ Syncs("client") = Syncs("server") /\ half["server"] = 2
              /\ stream["server"] = <<>> /\ stream["client"] = <<>>
<1>1. p \notin closed
  BY DEF HandshakeInv
<1>2. Syncs(p) \in 0 .. 2 /\ (Syncs(p) = 0 <=> pc[p] = "exchange")
  BY DEF Syncs, Unconnected
<1>3. Syncs(Other(p)) \in 0 .. 3
  BY DEF Syncs
<1>4. QED
  BY <1>1, <1>2, <1>3 DEF HandshakeInv, ProgramsTypeOK, Peers

\* The calls of syncData keep the handshake.
LEMMA HandshakeGoesOn ==
  ASSUME ProgramsTypeOK, HandshakeInv, NEW p \in Peers, UNCHANGED program,
         pc[p] \in {"exchange", "ready", "ready_again"},
         SyncSend(p, Message(p, Syncs(p))) \/ SyncRecv(p),
         IF half[p] = 2 THEN GoOn(p) ELSE UNCHANGED pc
  PROVE  /\ HandshakeInv'
         /\ UNCHANGED closed /\ stream' = [q \in Peers |-> stream'[q]]
         /\ half' = [half EXCEPT ![p] = IF @ = 1 THEN 2 ELSE 1]
<1>1. /\ UNCHANGED closed /\ half' = [half EXCEPT ![p] = IF @ = 1 THEN 2 ELSE 1]
      /\ IsProxyProgram' = IsProxyProgram
      /\ half \in [Peers -> {1, 2}] /\ closed \subseteq Peers
  BY DEF SyncSend, SyncRecv, NextHalf, IsProxyProgram, ProgramsTypeOK
<1>2. stream' = [q \in Peers |-> stream'[q]]
  BY DEF SyncSend, SyncRecv, ProgramsTypeOK
<1>3. /\ half[p] = 1 => /\ \A q \in Peers : pc'[q] = pc[q] /\ Syncs(q)' = Syncs(q)
      /\ half[p] = 2 => /\ pc'[Other(p)] = pc[Other(p)]
                        /\ Syncs(p)' = Syncs(p) + 1 /\ Syncs(Other(p))' = Syncs(Other(p))
  BY <1>1, Moves, SyncCounts DEF Syncs
<1>4. \A q \in Peers : half'[q] = 2 => pc'[q] \in {"exchange", "ready", "ready_again"}
  BY <1>1, <1>3 DEF HandshakeInv, Peers, Other
<1>5. \A q \in closed' : IF IsProxyProgram' THEN pc'[q] \in {"start", "wait", "destroy", "done"}
                                            ELSE pc'[q] \in {"destroy", "done"}
  BY <1>1, <1>3, InCall DEF HandshakeInv, Peers, Other
<1>6. CASE p = "server" /\ half[p] = 1
  <2>1. SyncSend(p, Message(p, Syncs(p)))
    BY <1>6 DEF SyncRecv, Sends
  <2>2. /\ stream'["client"] = <<Message("server", Syncs("server"))>>
        /\ stream'["server"] = <<>>
    BY <1>6, <2>1, InCall, OneMessage DEF SyncSend, Other, Peers, ProgramsTypeOK
  <2>3. half'["server"] = 2 /\ half'["client"] = 1
    BY <1>1, <1>6, InCall DEF Peers
  <2>4. /\ Syncs("client")' = Syncs("server")'
        /\ stream'["client"] = <<Message("server", Syncs("server"))'>>
    BY <1>3, <1>6, <2>2, InCall DEF Peers, Message, QpInfo, Ready
  <2>5. stream'["client"] = IF half'["server"] = 1 THEN <<>>
                            ELSE <<Message("server", Syncs("server"))'>>
    BY <2>3, <2>4
  <2>6. QED
    BY <1>1, <1>2, <1>4, <1>5, <2>2, <2>3, <2>4, <2>5 DEF HandshakeInv
<1>7. CASE p = "server" /\ half[p] = 2
  <2>1. SyncRecv(p)
    BY <1>7 DEF SyncSend, Sends
  <2>2. stream'["client"] = <<>> /\ stream'["server"] = <<>>
    <3>1. /\ stream["client"] = <<>>
          /\ stream["server"] = <<Message("client", Syncs("server"))>>
      BY <1>7, <2>1, InCall DEF SyncRecv
    <3>2. stream' = [stream EXCEPT !["server"] = Tail(@)]
      BY <1>7, <2>1 DEF SyncRecv
    <3>3. QED
      BY <3>1, <3>2, OneMessage DEF Peers, ProgramsTypeOK
  <2>3. half'["server"] = 1 /\ half'["client"] = 1
    BY <1>1, <1>7, <2>1, InCall DEF Peers, SyncRecv
  <2>4. Syncs("client")' = Syncs("server")'
    BY <1>3, <1>7, <2>1, InCall DEF Other, SyncRecv
  <2>5. QED
    BY <1>1, <1>2, <1>4, <1>5, <2>2, <2>3, <2>4 DEF HandshakeInv
<1>8. CASE p = "client" /\ half[p] = 1
  <2>1. SyncRecv(p)
    BY <1>8 DEF SyncSend, Sends
  <2>2. stream'["client"] = <<>> /\ stream'["server"] = <<>>
    BY <1>8, <2>1, InCall, OneMessage DEF SyncRecv, Other, Peers, ProgramsTypeOK
  <2>3. half'["server"] = 2 /\ half'["client"] = 2
    BY <1>1, <1>8, <2>1, InCall DEF Peers, SyncRecv
  <2>4. Syncs("client")' = Syncs("server")'
    BY <1>3, <1>8, <2>1, InCall DEF Peers, SyncRecv
  <2>5. QED
    BY <1>1, <1>2, <1>4, <1>5, <2>2, <2>3, <2>4 DEF HandshakeInv
<1>9. CASE p = "client" /\ half[p] = 2
  <2>1. SyncSend(p, Message(p, Syncs(p)))
    BY <1>9 DEF SyncRecv, Sends
  <2>2. /\ stream'["server"] = <<Message("client", Syncs("client"))>>
        /\ stream'["client"] = <<>>
    BY <1>9, <2>1, InCall, OneMessage DEF SyncSend, Other, Peers, ProgramsTypeOK
  <2>3. half'["server"] = 2 /\ half'["client"] = 1
    BY <1>1, <1>9, InCall DEF Peers
  <2>4. /\ Syncs("client")' = Syncs("server")' + 1
        /\ stream'["server"] = <<Message("client", Syncs("server"))'>>
    BY <1>3, <1>9, <2>2, InCall DEF Other, Message, QpInfo, Ready
  <2>5. QED
    BY <1>1, <1>2, <1>4, <1>5, <2>2, <2>3, <2>4 DEF HandshakeInv
<1>10. QED
  BY <1>1, <1>2, <1>6, <1>7, <1>8, <1>9 DEF Peers

LEMMA ExchangeInv ==
  ASSUME ProgramsInv, NEW p \in Peers, Exchange(p), Frame
  PROVE  ProgramsInv'
<1>1. /\ ProgramsTypeOK /\ HandshakeInv /\ ConnectionInv
      /\ pc[p] = "exchange"
      /\ IF half[p] = 2 THEN GoOn(p) ELSE UNCHANGED pc
      /\ \/ SyncSend(p, QpInfo(p)) /\ UNCHANGED neighbor
         \/ SyncRecv(p) /\ neighbor' = [neighbor EXCEPT ![p] = Head(stream[p])]
      /\ UNCHANGED <<qp, dest, hcaVars, available_wqes>>
      /\ UNCHANGED <<program, length, i, argsVars>>
  BY DEF ProgramsInv, Exchange, ExchangeInfo, At, Frame
<1>2. Syncs(p) = 0 /\ QpInfo(p) = Message(p, Syncs(p))
  BY <1>1, InCall DEF Message
<1>3. /\ HandshakeInv'
      /\ UNCHANGED closed /\ stream' = [q \in Peers |-> stream'[q]]
      /\ half' = [half EXCEPT ![p] = IF @ = 1 THEN 2 ELSE 1]
  BY <1>1, <1>2, HandshakeGoesOn
<1>4. /\ pc' = [q \in Peers |-> pc'[q]] /\ \A q \in Peers : pc'[q] \in Steps(q)'
      /\ pc'[Other(p)] = pc[Other(p)] /\ Syncs(Other(p))' = Syncs(Other(p))
      /\ pc'[p] \in {"exchange", "rtr"} /\ (half[p] = 1 => pc'[p] = "exchange")
  <2>1. CASE half[p] = 2
    BY <1>1, <2>1, Moves, StaysInProgram, SyncCounts DEF At
  <2>2. CASE half[p] # 2
    BY <1>1, <2>2, Unmoved DEF ProgramsTypeOK
  <2>3. QED
    BY <1>1, <2>1, <2>2 DEF ProgramsTypeOK
<1>5. ProgramsTypeOK'
  BY <1>1, <1>3, <1>4 DEF ProgramsTypeOK, hcaVars, argsVars
<1>6. ConnectionInv'
  <2>1. SyncRecv(p) => neighbor'[p] = QpInfo(Other(p))
    <3>1. ASSUME SyncRecv(p) PROVE stream[p] = <<QpInfo(Other(p))>>
      BY <1>1, <1>2, <3>1, InCall DEF SyncRecv, Sends, Message, Other, Peers, ProgramsTypeOK
    <3>2. QED
      BY <1>1, <3>1, OneMessage DEF ProgramsTypeOK, SyncSend, SyncRecv
  <2>2. (Syncs(p)' > 0 \/ (p = "client" /\ half'[p] = 2)) => neighbor'[p] = QpInfo(Other(p))
    <3>1. CASE p = "server"
      BY <1>1, <1>4, <2>1, <3>1 DEF SyncSend, Sends, Syncs, Unconnected, ProgramsTypeOK
    <3>2. CASE p = "client"
      BY <1>1, <1>4, <2>1, <3>2
      DEF SyncSend, Sends, ProgramsTypeOK, ConnectionInv
    <3>3. QED
      BY <3>1, <3>2 DEF Peers
  <2>3. neighbor'[Other(p)] = neighbor[Other(p)] /\ half'[Other(p)] = half[Other(p)]
    BY <1>1, <1>3 DEF ProgramsTypeOK, Other, Peers
  <2>4. pc[p] \in Unconnected /\ pc'[p] \in Unconnected
    BY <1>1, <1>4 DEF Unconnected
  <2>5. \A q \in Peers : q = p \/ q = Other(p)
    BY DEF Other, Peers
  <2>6. QED
    BY <1>1, <1>4, <2>2, <2>3, <2>4, <2>5 DEF ConnectionInv, Peers
<1>7. SupplyInv' /\ CreditInv' /\ FlowInv' /\ ArgsInv'
  BY <1>1, CountsStay, CountsUnmoved DEF hcaVars, Counting
<1>8. QED
  BY <1>3, <1>5, <1>6, <1>7 DEF ProgramsInv

LEMMA SyncReadyInv ==
  ASSUME ProgramsInv, NEW p \in Peers, SyncReady(p), Frame
  PROVE  ProgramsInv'
<1>1. /\ ProgramsTypeOK /\ HandshakeInv /\ ConnectionInv
      /\ pc[p] \in {"ready", "ready_again"}
      /\ \/ /\ SyncSend(p, Ready) \/ SyncRecv(p)
            /\ IF half[p] = 2 THEN GoOn(p) ELSE UNCHANGED pc
         \/ SyncEof(p) /\ GoOn(p)
      /\ UNCHANGED <<qp, neighbor, dest, hcaVars, available_wqes>>
      /\ UNCHANGED <<program, length, i, argsVars>>
  BY DEF ProgramsInv, SyncReady, At, Frame, qpVars
<1>2. Syncs(p) > 0 /\ Ready = Message(p, Syncs(p))
  BY <1>1, InCall DEF Message
<1>3. /\ HandshakeInv'
      /\ UNCHANGED closed /\ stream' = [q \in Peers |-> stream'[q]]
      /\ half' \in [Peers -> {1, 2}] /\ half'[Other(p)] = half[Other(p)]
  <2>1. CASE ~SyncEof(p)
    BY <1>1, <1>2, <2>1, HandshakeGoesOn DEF ProgramsTypeOK, Other, Peers
  <2>2. CASE SyncEof(p)
    <3>1. /\ Other(p) \in closed /\ stream[p] = <<>> /\ ~Sends(p) /\ GoOn(p)
          /\ UNCHANGED <<stream, closed>> /\ half' = [half EXCEPT ![p] = 1]
          /\ half \in [Peers -> {1, 2}]
          /\ Syncs(p) \in 1 .. 2 /\ p \notin closed
      BY <1>1, <1>2, <2>2, InCall
      DEF SyncEof, ProgramsTypeOK, SyncSend, SyncRecv
    <3>2. CASE p = "server"
      <4>1. Syncs("client") = 3
        BY <1>1, <3>1, <3>2 DEF HandshakeInv, Syncs, Unconnected, Other
      <4>2. half["server"] = 2
        BY <3>1, <3>2 DEF Sends, Peers
      <4>3. <<Message("client", Syncs("server"))>> # <<>>
        BY OneMessage
      <4>4. QED
        <5>1. Syncs("client") # Syncs("server") /\ half["server"] # 1
          BY <3>1, <3>2, <4>1, <4>2
        <5>2. stream["server"] # <<Message("client", Syncs("server"))>>
          BY <3>1, <3>2, <4>3, Zenon
        <5>3. FALSE
          BY <1>1, <5>1, <5>2, Zenon DEF HandshakeInv
        <5>4. QED
          BY <5>3
    <3>3. CASE p = "client"
      <4>1. half["client"] = 1 /\ half["server"] = 1
        BY <1>1, <3>1, <3>3 DEF Sends, Peers, HandshakeInv, Other
      <4>2. IsProxyProgram
        <5>1. ~IsProxyProgram => Syncs("server") = 3
          BY <1>1, <3>1, <3>3 DEF HandshakeInv, Syncs, Unconnected, Other
        <5>2. QED
          BY <1>1, <3>1, <3>3, <4>1, <5>1 DEF HandshakeInv
      <4>3. /\ Syncs("client") = 2 /\ stream["server"] = <<>> /\ stream["client"] = <<>>
        <5>1. Syncs("server") = 2
          BY <1>1, <3>1, <3>3, <4>2 DEF HandshakeInv, Syncs, Unconnected, Other
        <5>2. QED
          BY <1>1, <3>1, <3>3, <4>1, <5>1 DEF HandshakeInv
      <4>4. /\ Syncs("client")' = 3 /\ IsProxyProgram'
            /\ pc'["server"] = pc["server"]
        BY <1>1, <3>1, <3>3, <4>2, <4>3, SyncCounts, Moves DEF IsProxyProgram, Other
      <4>5. half'["client"] = 1 /\ half'["server"] = 1
        BY <3>1, <3>3, <4>1 DEF Peers
      <4>6. HandshakeInv'
        <5>1. \A q \in Peers : half'[q] = 1
          BY <4>5 DEF Peers
        <5>2. \A q \in closed : q = "server"
          BY <1>1, <3>1, <3>3 DEF ProgramsTypeOK, Peers
        <5>3. QED
          BY <1>1, <3>1, <3>3, <4>2, <4>3, <4>4, <4>5, <5>1, <5>2 DEF HandshakeInv, Other
      <4>7. QED
        BY <1>1, <3>1, <4>6 DEF ProgramsTypeOK, Other, Peers
    <3>4. QED
      BY <3>2, <3>3 DEF Peers
  <2>3. QED
    BY <2>1, <2>2
<1>4. /\ pc' = [q \in Peers |-> pc'[q]] /\ \A q \in Peers : pc'[q] \in Steps(q)'
      /\ pc'[Other(p)] = pc[Other(p)] /\ Syncs(Other(p))' = Syncs(Other(p))
      /\ pc'[p] \notin Unconnected \union {"done"}
  <2>1. CASE GoOn(p)
    BY <1>1, <2>1, Moves, StaysInProgram, SyncCounts DEF At, Unconnected
  <2>2. CASE UNCHANGED pc
    BY <1>1, <2>2, Unmoved DEF ProgramsTypeOK, Unconnected
  <2>3. QED
    BY <1>1, <2>1, <2>2
<1>5. ProgramsTypeOK'
  BY <1>1, <1>3, <1>4 DEF ProgramsTypeOK, hcaVars, argsVars
<1>6. ConnectionInv'
  <2>1. \A q \in Peers : q = p \/ q = Other(p)
    BY DEF Other, Peers
  <2>2. pc[p] \notin Unconnected \union {"done"}
    BY <1>1 DEF Unconnected
  <2>3. QED
    BY <1>1, <1>2, <1>3, <1>4, <2>1, <2>2 DEF ConnectionInv
<1>7. SupplyInv' /\ CreditInv' /\ FlowInv' /\ ArgsInv'
  BY <1>1, CountsStay, CountsUnmoved DEF hcaVars, Counting
<1>8. QED
  BY <1>3, <1>5, <1>6, <1>7 DEF ProgramsInv

LEMMA ConnectQpInv ==
  ASSUME ProgramsInv, NEW p \in Peers, ConnectQp(p), Frame
  PROVE  ProgramsInv'
<1>1. /\ ProgramsTypeOK /\ HandshakeInv /\ ConnectionInv
      /\ GoOn(p) /\ pc[p] \in {"rtr", "rts"}
      /\ UNCHANGED <<socketVars, neighbor, hcaVars, available_wqes>>
      /\ UNCHANGED <<program, length, i, argsVars>>
      /\ \/ pc[p] = "rtr" /\ ModifyToRtr(p)
         \/ pc[p] = "rts" /\ ModifyToRts(p)
  BY DEF ProgramsInv, ConnectQp, At, Frame, ModifyToRtr, ModifyToRts
<1>2. ProgramsTypeOK'
  <2>1. pc' = [q \in Peers |-> pc'[q]] /\ \A q \in Peers : pc'[q] \in Steps(q)'
    BY <1>1, Moves, StaysInProgram
  <2>2. qp' = [q \in Peers |-> qp'[q]] /\ dest' = [q \in Peers |-> dest'[q]]
    BY <1>1 DEF ProgramsTypeOK, ModifyToRtr, ModifyToRts
  <2>3. QED
    BY <1>1, <2>1, <2>2 DEF ProgramsTypeOK, socketVars, hcaVars, argsVars
<1>3. HandshakeInv'
  BY <1>1, HandshakeKept DEF socketVars
<1>4. ConnectionInv'
  <2>1. \A q \in Peers : Syncs(q)' = Syncs(q)
    BY <1>1, SyncsKept
  <2>2. pc'[p] \notin Unconnected /\ pc'[Other(p)] = pc[Other(p)]
    BY <1>1, Moves DEF At, Unconnected
  <2>3. \A q \in Peers : q = p \/ q = Other(p)
    BY DEF Other, Peers
  <2>4. /\ qp'[p] \in {"RTR", "RTS"} /\ qp'[Other(p)] = qp[Other(p)]
        /\ dest'[Other(p)] = dest[Other(p)]
    BY <1>1 DEF ModifyToRtr, ModifyToRts, ProgramsTypeOK, Other, Peers
  <2>5. neighbor[p] = QpInfo(Other(p))
    <3>1. Syncs(p) > 0
      BY <1>1 DEF Syncs, Unconnected
    <3>2. QED
      BY <1>1, <3>1 DEF ConnectionInv
  <2>6. dest'[p] = [info |-> QpInfo(Other(p)), rq_psn |-> 0]
    <3>1. CASE pc[p] = "rtr"
      BY <1>1, <2>5, <3>1 DEF ModifyToRtr, DestInfo, ProgramsTypeOK, QpInfo
    <3>2. CASE pc[p] = "rts"
      BY <1>1, <3>2 DEF ModifyToRts, ConnectionInv, Unconnected
    <3>3. QED
      BY <1>1, <3>1, <3>2
  <2>7. QED
    BY <1>1, <2>1, <2>2, <2>3, <2>4, <2>5, <2>6 DEF ConnectionInv, socketVars
<1>5. SupplyInv' /\ CreditInv' /\ FlowInv' /\ ArgsInv'
  BY <1>1, CountsStay DEF hcaVars, Counting
<1>6. QED
  BY <1>2, <1>3, <1>4, <1>5 DEF ProgramsInv

LEMMA FillReceiveQueueInv ==
  ASSUME ProgramsInv, NEW p \in Peers, FillReceiveQueue(p), Frame
  PROVE  ProgramsInv'
<1>1. /\ ProgramsTypeOK /\ HandshakeInv /\ ConnectionInv
      /\ SupplyInv /\ CreditInv /\ FlowInv /\ ArgsInv
      /\ GoOn(p) /\ pc[p] = "fill"
      /\ recvs' = recvs + SendQueueDepth
      /\ UNCHANGED <<socketVars, qpVars, sends, wire, acks, cq, dropped, available_wqes>>
      /\ UNCHANGED <<program, length, i, argsVars>>
      /\ IsProxyProgram' = IsProxyProgram /\ Reliable' = Reliable
      /\ SendQueueDepth \in Nat
  BY RdmaAssumption
  DEF ProgramsInv, FillReceiveQueue, At, Frame, PostRecvs, IsProxyProgram, Reliable,
      RdmaAssumption
<1>2. /\ p = "server" /\ pc'["client"] = pc["client"]
      /\ pc'["server"] = IF IsProxyProgram THEN "ready" ELSE "ready_again"
  BY <1>1, Moves DEF At, Other
<1>3. ProgramsTypeOK'
  <2>1. pc' = [q \in Peers |-> pc'[q]] /\ \A q \in Peers : pc'[q] \in Steps(q)'
    BY <1>1, Moves, StaysInProgram
  <2>2. QED
    BY <1>1, <2>1 DEF ProgramsTypeOK, socketVars, qpVars, argsVars
<1>4. HandshakeInv'
  BY <1>1, HandshakeKept DEF socketVars
<1>5. ConnectionInv'
  BY <1>1, ConnectionStays DEF socketVars, qpVars
<1>6. SupplyInv'
  BY <1>1, <1>2 DEF SupplyInv, Syncs, Unconnected, ProgramsTypeOK, Peers
<1>7. CreditInv'
  BY <1>1, <1>2 DEF CreditInv, InFlight
<1>8. FlowInv'
  BY <1>1, <1>2 DEF FlowInv, Seen, Posted, argsVars, Peers
<1>9. ArgsInv'
  BY <1>1, <1>2 DEF ArgsInv, Seen, argsVars, Peers
<1>10. QED
  BY <1>3, <1>4, <1>5, <1>6, <1>7, <1>8, <1>9 DEF ProgramsInv

LEMMA DestroyQpInv ==
  ASSUME ProgramsInv, NEW p \in Peers, DestroyQp(p), Frame
  PROVE  ProgramsInv'
<1>1. /\ ProgramsTypeOK /\ HandshakeInv /\ ConnectionInv
      /\ SupplyInv /\ CreditInv /\ FlowInv /\ ArgsInv
      /\ GoOn(p) /\ pc[p] = "destroy"
      /\ qp' = [qp EXCEPT ![p] = "destroyed"]
      /\ sends' = IF p = "client" THEN 0 ELSE sends
      /\ UNCHANGED <<socketVars, neighbor, dest, recvs, wire, acks, cq, available_wqes>>
      /\ UNCHANGED <<program, length, i, argsVars>>
      /\ IsProxyProgram' = IsProxyProgram /\ Reliable' = Reliable
  BY DEF ProgramsInv, DestroyQp, At, Frame, DestroyQueuePair, IsProxyProgram, Reliable
<1>2. pc'[p] = "done" /\ pc'[Other(p)] = pc[Other(p)]
  BY <1>1, Moves DEF At
<1>3. \A q \in Peers : q = p \/ q = Other(p)
  BY DEF Other, Peers
<1>4. ProgramsTypeOK'
  BY <1>1, Moves, StaysInProgram
  DEF ProgramsTypeOK, socketVars, argsVars
<1>5. HandshakeInv'
  BY <1>1, HandshakeKept DEF socketVars
<1>6. ConnectionInv'
  <2>1. \A q \in Peers : Syncs(q)' = Syncs(q)
    BY <1>1, SyncsKept
  <2>2. /\ pc[p] \notin Unconnected /\ pc'[p] \notin Unconnected
        /\ qp'[Other(p)] = qp[Other(p)]
    BY <1>1, <1>2 DEF Unconnected, ProgramsTypeOK, Other, Peers
  <2>3. QED
    BY <1>1, <1>2, <1>3, <2>1, <2>2 DEF ConnectionInv, socketVars
<1>7. SupplyInv'
  BY <1>1, <1>2 DEF SupplyInv, Syncs, Unconnected, Peers, Other
<1>8. CreditInv'
  <2>1. CASE p = "client"
    <3>1. /\ cq["client"] \in Nat /\ sends \in Nat /\ wire \in Nat /\ acks \in Nat
          /\ available_wqes \in Nat /\ SendQueueDepth \in Nat
      BY <1>1, RdmaAssumption DEF RdmaAssumption, ProgramsTypeOK, Peers
    <3>2. QED
      BY <1>1, <1>2, <2>1, <3>1 DEF CreditInv, InFlight
  <2>2. CASE p = "server"
    BY <1>1, <1>2, <2>2 DEF CreditInv, InFlight, Other
  <2>3. QED
    BY <2>1, <2>2 DEF Peers
<1>9. FlowInv'
  <2>1. Seen' = Seen /\ Posted' = Posted
    BY <1>1, <1>2 DEF Seen, Posted, argsVars, Peers, Other
  <2>2. Seen \in Nat /\ Posted \in Nat
    BY <1>1 DEF Seen, Posted, ProgramsTypeOK, Peers
  <2>3. sends' + wire + cq["server"] + Seen <= Posted
    BY <1>1, <2>2 DEF FlowInv, ProgramsTypeOK, Peers
  <2>4. QED
    BY <1>1, <1>2, <1>3, <2>1, <2>3 DEF FlowInv, argsVars, Peers, Other
<1>10. ArgsInv'
  BY <1>1, <1>2, <1>3 DEF ArgsInv, Seen, argsVars
<1>11. QED
  BY <1>4, <1>5, <1>6, <1>7, <1>8, <1>9, <1>10 DEF ProgramsInv

LEMMA CommonStepInv ==
  ASSUME ProgramsInv, NEW p \in Peers, CommonStep(p), Frame
  PROVE  ProgramsInv'
  BY SetupInv, OpenSocketInv, ExchangeInv, ConnectQpInv, FillReceiveQueueInv, SyncReadyInv,
     DestroyQpInv
  DEF CommonStep

----------------------------------------------------------------------------
(* The steps of the write tests.                                           *)

LEMMA PostFirstRecvInv ==
  ASSUME ProgramsInv, PostFirstRecv, ~IsProxyProgram, UNCHANGED <<program, length, argsVars>>
  PROVE  ProgramsInv'
<1>1. /\ ProgramsTypeOK /\ HandshakeInv /\ ConnectionInv
      /\ SupplyInv /\ CreditInv /\ FlowInv /\ ArgsInv
      /\ "server" \in Peers /\ GoOn("server") /\ pc["server"] = "post"
      /\ recvs' = recvs + 1
      /\ UNCHANGED <<socketVars, qpVars, sends, wire, acks, cq, available_wqes>>
      /\ UNCHANGED <<program, length, i, argsVars>>
      /\ ~IsProxyProgram' /\ Reliable' = Reliable
  BY DEF ProgramsInv, PostFirstRecv, At, PostRecvs, IsProxyProgram, Reliable, Peers
<1>2. pc'["client"] = pc["client"] /\ pc'["server"] = "ready"
  BY <1>1, Moves DEF At, Other
<1>3. ProgramsTypeOK'
  <2>1. pc' = [q \in Peers |-> pc'[q]] /\ \A q \in Peers : pc'[q] \in Steps(q)'
    BY <1>1, Moves, StaysInProgram
  <2>2. QED
    BY <1>1, <2>1 DEF ProgramsTypeOK, socketVars, qpVars, argsVars
<1>4. HandshakeInv'
  BY <1>1, HandshakeKept DEF socketVars
<1>5. ConnectionInv'
  BY <1>1, ConnectionStays DEF socketVars, qpVars
<1>6. SupplyInv'
  BY <1>1, <1>2, Numbers DEF SupplyInv
<1>7. CreditInv'
  BY <1>1, <1>2 DEF CreditInv, InFlight
<1>8. FlowInv'
  BY <1>1, <1>2 DEF FlowInv, Seen, Posted, argsVars, Peers
<1>9. ArgsInv'
  BY <1>1, <1>2 DEF ArgsInv, argsVars
<1>10. QED
  BY <1>3, <1>4, <1>5, <1>6, <1>7, <1>8, <1>9 DEF ProgramsInv

LEMMA PostFirstSendInv ==
  ASSUME ProgramsInv, PostFirstSend, ~IsProxyProgram, UNCHANGED <<program, length, argsVars>>
  PROVE  ProgramsInv'
<1>1. /\ ProgramsTypeOK /\ HandshakeInv /\ ConnectionInv
      /\ SupplyInv /\ CreditInv /\ FlowInv /\ ArgsInv
      /\ "client" \in Peers /\ GoOn("client") /\ pc["client"] = "post"
      /\ sends' = sends + 1
      /\ UNCHANGED <<socketVars, qpVars, recvs, wire, acks, cq, available_wqes>>
      /\ UNCHANGED <<program, length, i, argsVars>>
      /\ ~IsProxyProgram' /\ Reliable' = Reliable
  BY DEF ProgramsInv, PostFirstSend, At, PostSend, IsProxyProgram, Reliable, Peers
<1>2. pc'["server"] = pc["server"] /\ pc'["client"] = "poll"
  BY <1>1, Moves DEF At, Other
<1>3. ProgramsTypeOK'
  <2>1. pc' = [q \in Peers |-> pc'[q]] /\ \A q \in Peers : pc'[q] \in Steps(q)'
    BY <1>1, Moves, StaysInProgram
  <2>2. QED
    BY <1>1, <2>1 DEF ProgramsTypeOK, socketVars, qpVars, argsVars
<1>4. HandshakeInv'
  BY <1>1, HandshakeKept DEF socketVars
<1>5. ConnectionInv'
  BY <1>1, ConnectionStays DEF socketVars, qpVars
<1>6. SupplyInv'
  BY <1>1, <1>2 DEF SupplyInv
<1>7. CreditInv'
  BY <1>1, <1>2, Numbers DEF CreditInv, InFlight
<1>8. FlowInv'
  <2>1. Seen' = Seen /\ Posted' = Posted + 1
    BY <1>1, <1>2, Numbers DEF Seen, Posted
  <2>2. QED
    BY <1>1, <1>2, <2>1, Numbers DEF FlowInv, argsVars, Peers
<1>9. ArgsInv'
  BY <1>1, <1>2 DEF ArgsInv, argsVars
<1>10. QED
  BY <1>3, <1>4, <1>5, <1>6, <1>7, <1>8, <1>9 DEF ProgramsInv

LEMMA PollFirstInv ==
  ASSUME ProgramsInv, NEW p \in Peers, PollFirst(p), ~IsProxyProgram,
         UNCHANGED <<program, length, argsVars>>
  PROVE  ProgramsInv'
<1>1. /\ ProgramsTypeOK /\ HandshakeInv /\ ConnectionInv
      /\ SupplyInv /\ CreditInv /\ FlowInv /\ ArgsInv
      /\ GoOn(p) /\ pc[p] = "poll" /\ cq[p] > 0
      /\ cq' = [cq EXCEPT ![p] = @ - 1]
      /\ UNCHANGED <<socketVars, qpVars, recvs, sends, wire, acks, available_wqes>>
      /\ UNCHANGED <<program, length, i, argsVars>>
      /\ ~IsProxyProgram' /\ Reliable' = Reliable
  BY DEF ProgramsInv, PollFirst, At, IsProxyProgram, Reliable
<1>2. /\ pc'[Other(p)] = pc[Other(p)]
      /\ pc'[p] = IF p = "server" THEN "fill" ELSE "ready_again"
  BY <1>1, Moves DEF At
<1>3. cq' \in [Peers -> Nat] /\ cq'[p] = cq[p] - 1 /\ cq'[Other(p)] = cq[Other(p)]
  BY <1>1 DEF ProgramsTypeOK, Other, Peers
<1>4. ProgramsTypeOK'
  <2>1. pc' = [q \in Peers |-> pc'[q]] /\ \A q \in Peers : pc'[q] \in Steps(q)'
    BY <1>1, Moves, StaysInProgram
  <2>2. QED
    BY <1>1, <1>3, <2>1 DEF ProgramsTypeOK, socketVars, qpVars, argsVars
<1>5. HandshakeInv'
  BY <1>1, HandshakeKept DEF socketVars
<1>6. ConnectionInv'
  BY <1>1, ConnectionStays DEF socketVars, qpVars
<1>7. CASE p = "server"
  <2>1. /\ pc'["client"] = pc["client"] /\ pc'["server"] = "fill"
        /\ cq'["server"] = cq["server"] - 1 /\ cq'["client"] = cq["client"]
    BY <1>2, <1>3, <1>7 DEF Other
  <2>2. SupplyInv'
    BY <1>1, <1>7, <2>1, Numbers DEF SupplyInv
  <2>3. CreditInv'
    BY <1>1, <2>1 DEF CreditInv, InFlight
  <2>4. Seen' = Seen + 1 /\ Posted' = Posted
    BY <1>1, <1>7, <2>1, Numbers DEF Seen, Posted
  <2>5. FlowInv'
    BY <1>1, <1>7, <2>1, <2>4, Numbers DEF FlowInv, argsVars, Peers
  <2>6. ArgsInv'
    BY <1>1, <2>1 DEF ArgsInv, argsVars
  <2>7. QED
    BY <1>4, <1>5, <1>6, <2>2, <2>3, <2>5, <2>6 DEF ProgramsInv
<1>8. CASE p = "client"
  <2>1. /\ pc'["server"] = pc["server"] /\ pc'["client"] = "ready_again"
        /\ cq'["client"] = cq["client"] - 1 /\ cq'["server"] = cq["server"]
    BY <1>2, <1>3, <1>8 DEF Other
  <2>2. SupplyInv'
    BY <1>1, <2>1 DEF SupplyInv
  <2>3. CreditInv'
    BY <1>1, <1>8, <2>1, Numbers DEF CreditInv, InFlight
  <2>4. Seen' = Seen /\ Posted' = Posted
    BY <1>1, <1>8, <2>1 DEF Seen, Posted
  <2>5. FlowInv'
    BY <1>1, <1>8, <2>1, <2>4 DEF FlowInv, argsVars, Peers
  <2>6. ArgsInv'
    BY <1>1, <2>1 DEF ArgsInv, argsVars
  <2>7. QED
    BY <1>4, <1>5, <1>6, <2>2, <2>3, <2>5, <2>6 DEF ProgramsInv
<1>9. QED
  BY <1>7, <1>8 DEF Peers

LEMMA RecvBenchmarkInv ==
  ASSUME ProgramsInv, RecvBenchmark, ~IsProxyProgram, UNCHANGED <<program, length, argsVars>>
  PROVE  ProgramsInv'
<1> DEFINE n == Polled("server")
<1>1. /\ ProgramsTypeOK /\ HandshakeInv /\ ConnectionInv
      /\ SupplyInv /\ CreditInv /\ FlowInv /\ ArgsInv
      /\ pc["server"] = "bench" /\ UNCHANGED pc
      /\ cq' = [cq EXCEPT !["server"] = @ - n] /\ recvs' = recvs + n
      /\ i' = [i EXCEPT !["server"] = @ + n]
      /\ UNCHANGED <<socketVars, qpVars, sends, wire, acks, available_wqes>>
      /\ UNCHANGED <<program, length, argsVars>>
      /\ ~IsProxyProgram' /\ Reliable' = Reliable
  BY DEF ProgramsInv, RecvBenchmark, Benchmarking, At, PollRecvs, Reposted, IsProxyProgram,
         Reliable
<1>2. n \in 0 .. cq["server"]
  BY <1>1, Numbers DEF Peers
<1> HIDE DEF n
<1>3. /\ cq' \in [Peers -> Nat]
      /\ cq'["server"] = cq["server"] - n /\ cq'["client"] = cq["client"]
      /\ i' \in [Peers -> Nat]
      /\ i'["server"] = i["server"] + n /\ i'["client"] = i["client"]
  BY <1>1, <1>2 DEF ProgramsTypeOK, Peers
<1>4. ProgramsTypeOK'
  BY <1>1, <1>2, <1>3, Unmoved DEF ProgramsTypeOK, socketVars, qpVars, argsVars
<1>5. HandshakeInv' /\ ConnectionInv'
  BY <1>1, ConnectionUnmoved DEF socketVars, qpVars
<1>6. SupplyInv'
  BY <1>1, <1>2, <1>3, Numbers DEF SupplyInv
<1>7. CreditInv'
  BY <1>1, <1>3 DEF CreditInv, InFlight
<1>8. FlowInv'
  <2>1. Seen' = Seen + n /\ Posted' = Posted
    BY <1>1, <1>2, <1>3, Numbers DEF Seen, Posted
  <2>2. QED
    BY <1>1, <1>2, <1>3, <2>1, Numbers DEF FlowInv, argsVars, Peers
<1>9. ArgsInv'
  BY <1>1 DEF ArgsInv, argsVars
<1>10. QED
  BY <1>4, <1>5, <1>6, <1>7, <1>8, <1>9 DEF ProgramsInv

LEMMA SendBenchmarkPostInv ==
  ASSUME ProgramsInv, SendBenchmarkPost, ~IsProxyProgram,
         UNCHANGED <<program, length, argsVars>>
  PROVE  ProgramsInv'
<1>1. /\ ProgramsTypeOK /\ HandshakeInv /\ ConnectionInv
      /\ SupplyInv /\ CreditInv /\ FlowInv /\ ArgsInv
      /\ pc["client"] = "bench" /\ i["client"] < length /\ UNCHANGED pc
      /\ available_wqes > 0 /\ available_wqes' = available_wqes - 1
      /\ sends' = sends + 1
      /\ i' = [i EXCEPT !["client"] = @ + 1]
      /\ UNCHANGED <<socketVars, qpVars, recvs, wire, acks, cq>>
      /\ UNCHANGED <<program, length, argsVars>>
      /\ ~IsProxyProgram' /\ Reliable' = Reliable
  BY DEF ProgramsInv, SendBenchmarkPost, Benchmarking, At, PostBenchmarkSend, PostSend,
         IsProxyProgram, Reliable
<1>2. /\ i' \in [Peers -> Nat]
      /\ i'["client"] = i["client"] + 1 /\ i'["server"] = i["server"]
  BY <1>1 DEF ProgramsTypeOK, Peers
<1>3. ProgramsTypeOK'
  BY <1>1, <1>2, Unmoved DEF ProgramsTypeOK, socketVars, qpVars, argsVars
<1>4. HandshakeInv' /\ ConnectionInv'
  BY <1>1, ConnectionUnmoved DEF socketVars, qpVars
<1>5. SupplyInv'
  BY <1>1 DEF SupplyInv
<1>6. CreditInv'
  BY <1>1, Numbers DEF CreditInv, InFlight
<1>7. FlowInv'
  <2>1. Seen' = Seen /\ Posted' = Posted + 1
    BY <1>1, <1>2, Numbers DEF Seen, Posted
  <2>2. QED
    BY <1>1, <1>2, <2>1, Numbers DEF FlowInv, argsVars, Peers
<1>8. ArgsInv'
  BY <1>1 DEF ArgsInv, argsVars
<1>9. QED
  BY <1>3, <1>4, <1>5, <1>6, <1>7, <1>8 DEF ProgramsInv

\* send_benchmark's poll, of the write tests and of proxy_send_recv.
LEMMA PollSendsCredit ==
  ASSUME ProgramsInv, PollSends, UNCHANGED <<pc, program>>,
         ~IsProxyProgram => pc["client"] = "bench"
  PROVE  /\ CreditInv' /\ SupplyInv'
         /\ cq' \in [Peers -> Nat] /\ cq'["server"] = cq["server"]
         /\ available_wqes' \in Nat
<1> DEFINE n == Polled("client")
<1>1. /\ ProgramsTypeOK /\ CreditInv /\ SupplyInv
      /\ cq' = [cq EXCEPT !["client"] = @ - n]
      /\ available_wqes' = available_wqes + n
      /\ UNCHANGED <<recvs, sends, wire, acks>>
  BY DEF ProgramsInv, PollSends, Credited
<1>2. n \in 0 .. cq["client"]
  BY <1>1, Numbers DEF Peers
<1> HIDE DEF n
<1>3. /\ cq' \in [Peers -> Nat]
      /\ cq'["client"] = cq["client"] - n /\ cq'["server"] = cq["server"]
  BY <1>1, <1>2 DEF ProgramsTypeOK, Peers
<1>4. SupplyInv'
  BY <1>1, <1>3, Unmoved DEF SupplyInv
<1>5. CreditInv'
  <2>1. IsProxyProgram' = IsProxyProgram /\ Reliable' = Reliable
    BY Unmoved
  <2>2. InFlight' = InFlight - n
    BY <1>1, <1>2, <1>3, <2>1, Numbers DEF InFlight
  <2>3. InFlight' + available_wqes' = InFlight + available_wqes
    BY <1>1, <1>2, <2>2, Numbers
  <2>4. QED
    BY <1>1, <2>1, <2>3 DEF CreditInv
<1>6. available_wqes' \in Nat
  BY <1>1, <1>2, Numbers
<1>7. QED
  BY <1>3, <1>4, <1>5, <1>6

LEMMA SendBenchmarkPollInv ==
  ASSUME ProgramsInv, SendBenchmarkPoll, ~IsProxyProgram,
         UNCHANGED <<program, length, argsVars>>
  PROVE  ProgramsInv'
<1>1. /\ ProgramsTypeOK /\ HandshakeInv /\ ConnectionInv /\ FlowInv /\ ArgsInv
      /\ PollSends /\ UNCHANGED pc /\ pc["client"] = "bench"
      /\ UNCHANGED <<socketVars, qpVars, recvs, sends, wire, acks>>
      /\ UNCHANGED <<program, length, i, argsVars>>
      /\ ~IsProxyProgram'
  BY DEF ProgramsInv, SendBenchmarkPoll, Benchmarking, At, PollSends, IsProxyProgram
<1>2. /\ CreditInv' /\ SupplyInv'
      /\ cq' \in [Peers -> Nat] /\ cq'["server"] = cq["server"] /\ available_wqes' \in Nat
  BY <1>1, PollSendsCredit
<1>3. ProgramsTypeOK'
  BY <1>1, <1>2, Unmoved DEF ProgramsTypeOK, socketVars, qpVars, argsVars
<1>4. HandshakeInv' /\ ConnectionInv'
  BY <1>1, ConnectionUnmoved DEF socketVars, qpVars
<1>5. FlowInv'
  BY <1>1, <1>2 DEF FlowInv, Seen, Posted, argsVars
<1>6. ArgsInv'
  BY <1>1 DEF ArgsInv, argsVars
<1>7. QED
  BY <1>2, <1>3, <1>4, <1>5, <1>6 DEF ProgramsInv

LEMMA LeaveBenchmarkInv ==
  ASSUME ProgramsInv, NEW p \in Peers, LeaveBenchmark(p), ~IsProxyProgram,
         UNCHANGED <<program, length, argsVars>>
  PROVE  ProgramsInv'
<1>1. /\ ProgramsTypeOK /\ HandshakeInv /\ ConnectionInv
      /\ SupplyInv /\ CreditInv /\ FlowInv /\ ArgsInv
      /\ GoOn(p) /\ pc[p] = "bench" /\ i[p] >= length
      /\ closed' = closed \union {p}
      /\ UNCHANGED <<stream, half, qpVars, hcaVars, available_wqes>>
      /\ UNCHANGED <<program, length, i, argsVars>>
      /\ ~IsProxyProgram' /\ Reliable' = Reliable
  BY DEF ProgramsInv, LeaveBenchmark, At, CloseSocket, IsProxyProgram, Reliable
<1>2. pc'[p] = "destroy" /\ pc'[Other(p)] = pc[Other(p)]
  BY <1>1, Moves DEF At
<1>3. \A q \in Peers : q = p \/ q = Other(p)
  BY DEF Other, Peers
<1>4. ProgramsTypeOK'
  <2>1. pc' = [q \in Peers |-> pc'[q]] /\ \A q \in Peers : pc'[q] \in Steps(q)'
    BY <1>1, Moves, StaysInProgram
  <2>2. QED
    BY <1>1, <2>1 DEF ProgramsTypeOK, qpVars, hcaVars, argsVars
<1>5. HandshakeInv'
  <2>1. \A q \in Peers : Syncs(q)' = Syncs(q)
    BY <1>1, SyncsKept
  <2>2. \A q \in Peers : half'[q] = 2 => pc'[q] \in {"exchange", "ready", "ready_again"}
    BY <1>1, <1>2, <1>3 DEF HandshakeInv
  <2>3. \A q \in closed' : pc'[q] \in {"destroy", "done"}
    BY <1>1, <1>2, <1>3 DEF HandshakeInv, ProgramsTypeOK
  <2>4. QED
    BY <1>1, <2>1, <2>2, <2>3 DEF HandshakeInv, Peers, Message, QpInfo, Ready
<1>6. ConnectionInv'
  BY <1>1, ConnectionStays DEF qpVars
<1>7. SupplyInv' /\ CreditInv'
  <2>1. CASE p = "server"
    BY <1>1, <1>2, <2>1 DEF SupplyInv, CreditInv, InFlight, hcaVars, Other
  <2>2. CASE p = "client"
    BY <1>1, <1>2, <2>2 DEF SupplyInv, CreditInv, InFlight, hcaVars, Other
  <2>3. QED
    BY <2>1, <2>2 DEF Peers
<1>8. FlowInv'
  <2>1. CASE p = "server"
    BY <1>1, <1>2, <2>1 DEF FlowInv, Seen, Posted, hcaVars, argsVars, Other, Peers
  <2>2. CASE p = "client"
    BY <1>1, <1>2, <2>2 DEF FlowInv, Seen, Posted, hcaVars, argsVars, Other, Peers
  <2>3. QED
    BY <2>1, <2>2 DEF Peers
<1>9. ArgsInv'
  BY <1>1 DEF ArgsInv, argsVars
<1>10. QED
  BY <1>4, <1>5, <1>6, <1>7, <1>8, <1>9 DEF ProgramsInv

LEMMA WriteTestStepInv ==
  ASSUME ProgramsInv, NEW p \in Peers, WriteTestStep(p), UNCHANGED <<program, length, argsVars>>
  PROVE  ProgramsInv'
<1>1. ~IsProxyProgram
  BY DEF WriteTestStep, IsProxyProgram
<1>2. CASE CommonStep(p) /\ UNCHANGED i
  BY <1>2, CommonStepInv DEF Frame
<1>3. QED
  BY <1>1, <1>2, PostFirstRecvInv, PostFirstSendInv, PollFirstInv, RecvBenchmarkInv,
     SendBenchmarkPostInv, SendBenchmarkPollInv, LeaveBenchmarkInv
  DEF WriteTestStep

----------------------------------------------------------------------------
(* The steps of proxy_send_recv.                                           *)

LEMMA ArgsAppendInv ==
  ASSUME ProgramsInv, NEW p \in Peers, ArgsAppend(p), UNCHANGED <<program, length, i>>
  PROVE  ProgramsInv'
<1>1. /\ ProgramsTypeOK /\ HandshakeInv /\ ConnectionInv
      /\ SupplyInv /\ CreditInv /\ FlowInv /\ ArgsInv
      /\ GoOn(p) /\ pc[p] = "append"
      /\ op' = [op EXCEPT ![p] = "appended"]
      /\ UNCHANGED <<state, iterations, count, first_completion>>
      /\ UNCHANGED <<socketVars, qpVars, hcaVars, available_wqes>>
      /\ UNCHANGED <<program, length, i>>
  BY DEF ProgramsInv, ArgsAppend, OnArgs, At, peerVars
<1>2. /\ pc'[p] = "close" /\ pc'[Other(p)] = pc[Other(p)]
      /\ IsProxyProgram /\ IsProxyProgram' /\ Reliable' = Reliable
  BY <1>1, Moves DEF At, IsProxyProgram, Reliable
<1>3. \A q \in Peers : q = p \/ q = Other(p)
  BY DEF Other, Peers
<1>4. ProgramsTypeOK'
  <2>1. pc' = [q \in Peers |-> pc'[q]] /\ \A q \in Peers : pc'[q] \in Steps(q)'
    BY <1>1, Moves, StaysInProgram
  <2>2. QED
    BY <1>1, <2>1 DEF ProgramsTypeOK, socketVars, qpVars, hcaVars
<1>5. HandshakeInv'
  BY <1>1, HandshakeKept DEF socketVars
<1>6. ConnectionInv'
  BY <1>1, ConnectionStays DEF socketVars, qpVars
<1>7. SupplyInv' /\ CreditInv'
  <2>1. pc["server"] \in {"rtr", "rts", "fill"} <=> pc'["server"] \in {"rtr", "rts", "fill"}
    BY <1>1, <1>2 DEF Other, Peers
  <2>2. \A q \in Peers : Syncs(q)' = Syncs(q)
    BY <1>1, SyncsKept
  <2>3. QED
    BY <1>1, <1>2, <2>1, <2>2 DEF SupplyInv, CreditInv, InFlight, hcaVars, Peers
<1>8. FlowInv'
  BY <1>1, <1>2, <1>3 DEF FlowInv, Seen, Posted, hcaVars
<1>9. ArgsInv'
  <2>1. op'[p] = "appended" /\ op'[Other(p)] = op[Other(p)] /\ Seen' = Seen
    BY <1>1, <1>2 DEF ProgramsTypeOK, Seen, Other, Peers
  <2>2. QED
    BY <1>1, <1>2, <1>3, <2>1 DEF ArgsInv
<1>10. QED
  BY <1>4, <1>5, <1>6, <1>7, <1>8, <1>9 DEF ProgramsInv

LEMMA LeaveBlockInv ==
  ASSUME ProgramsInv, NEW p \in Peers, LeaveBlock(p), UNCHANGED <<program, length, i>>
  PROVE  ProgramsInv'
<1>1. /\ ProgramsTypeOK /\ HandshakeInv /\ ConnectionInv
      /\ GoOn(p) /\ pc[p] = "close"
      /\ closed' = closed \union {p}
      /\ UNCHANGED <<stream, half, qpVars, hcaVars, available_wqes>>
      /\ UNCHANGED <<program, length, i, argsVars>>
  BY DEF ProgramsInv, LeaveBlock, At, CloseSocket
<1>2. /\ pc'[p] = "start" /\ pc'[Other(p)] = pc[Other(p)]
      /\ IsProxyProgram /\ IsProxyProgram'
  BY <1>1, Moves DEF At, IsProxyProgram
<1>3. \A q \in Peers : q = p \/ q = Other(p)
  BY DEF Other, Peers
<1>4. ProgramsTypeOK'
  <2>1. pc' = [q \in Peers |-> pc'[q]] /\ \A q \in Peers : pc'[q] \in Steps(q)'
    BY <1>1, Moves, StaysInProgram
  <2>2. QED
    BY <1>1, <2>1 DEF ProgramsTypeOK, qpVars, hcaVars, argsVars
<1>5. HandshakeInv'
  <2>1. \A q \in Peers : Syncs(q)' = Syncs(q)
    BY <1>1, SyncsKept
  <2>2. \A q \in Peers : half'[q] = 2 => pc'[q] \in {"exchange", "ready", "ready_again"}
    BY <1>1, <1>2, <1>3 DEF HandshakeInv
  <2>3. \A q \in closed' : pc'[q] \in {"start", "wait", "destroy", "done"}
    BY <1>1, <1>2, <1>3 DEF HandshakeInv, ProgramsTypeOK
  <2>4. QED
    BY <1>1, <1>2, <2>1, <2>2, <2>3 DEF HandshakeInv, Peers, Message, QpInfo, Ready
<1>6. ConnectionInv'
  BY <1>1, ConnectionStays DEF qpVars
<1>7. SupplyInv' /\ CreditInv' /\ FlowInv' /\ ArgsInv'
  BY <1>1, CountsStay DEF hcaVars, Counting
<1>8. QED
  BY <1>4, <1>5, <1>6, <1>7 DEF ProgramsInv

LEMMA StartInv ==
  ASSUME ProgramsInv, NEW p \in Peers, Start(p), UNCHANGED <<program, length, i>>
  PROVE  ProgramsInv'
<1>1. /\ ProgramsTypeOK /\ HandshakeInv /\ ConnectionInv
      /\ SupplyInv /\ CreditInv /\ FlowInv /\ ArgsInv
      /\ GoOn(p) /\ pc[p] = "start"
      /\ UNCHANGED <<op, state, iterations, count, first_completion>>
      /\ UNCHANGED <<socketVars, qpVars, hcaVars, available_wqes>>
      /\ UNCHANGED <<program, length, i>>
  BY DEF ProgramsInv, Start, OnArgs, At, peerVars
<1>2. /\ pc'[p] = "wait" /\ pc'[Other(p)] = pc[Other(p)]
      /\ IsProxyProgram /\ IsProxyProgram' /\ Reliable' = Reliable
  BY <1>1, Moves DEF At, IsProxyProgram, Reliable
<1>3. \A q \in Peers : q = p \/ q = Other(p)
  BY DEF Other, Peers
<1>4. ProgramsTypeOK'
  <2>1. pc' = [q \in Peers |-> pc'[q]] /\ \A q \in Peers : pc'[q] \in Steps(q)'
    BY <1>1, Moves, StaysInProgram
  <2>2. QED
    BY <1>1, <2>1 DEF ProgramsTypeOK, socketVars, qpVars, hcaVars
<1>5. HandshakeInv'
  BY <1>1, HandshakeKept DEF socketVars
<1>6. ConnectionInv'
  BY <1>1, ConnectionStays DEF socketVars, qpVars
<1>7. SupplyInv' /\ CreditInv'
  <2>1. pc["server"] \in {"rtr", "rts", "fill"} <=> pc'["server"] \in {"rtr", "rts", "fill"}
    BY <1>1, <1>2 DEF Other, Peers
  <2>2. \A q \in Peers : Syncs(q)' = Syncs(q)
    BY <1>1, SyncsKept
  <2>3. QED
    BY <1>1, <1>2, <2>1, <2>2 DEF SupplyInv, CreditInv, InFlight, hcaVars, Peers
<1>8. FlowInv' /\ ArgsInv'
  BY <1>1, <1>2, <1>3 DEF FlowInv, ArgsInv, Seen, Posted, hcaVars
<1>9. QED
  BY <1>4, <1>5, <1>6, <1>7, <1>8 DEF ProgramsInv

LEMMA WaitAllOpFinishedInv ==
  ASSUME ProgramsInv, NEW p \in Peers, WaitAllOpFinished(p), UNCHANGED <<program, length, i>>
  PROVE  ProgramsInv'
<1>1. /\ ProgramsTypeOK /\ HandshakeInv /\ ConnectionInv
      /\ SupplyInv /\ CreditInv /\ FlowInv /\ ArgsInv
      /\ GoOn(p) /\ pc[p] = "wait" /\ op[p] = "removed"
      /\ UNCHANGED argsVars
      /\ UNCHANGED <<socketVars, qpVars, hcaVars, available_wqes>>
      /\ UNCHANGED <<program, length, i>>
  BY DEF ProgramsInv, WaitAllOpFinished, OnArgs, At, peerVars
<1>2. /\ pc'[p] = "destroy" /\ pc'[Other(p)] = pc[Other(p)]
      /\ IsProxyProgram /\ IsProxyProgram' /\ Reliable' = Reliable
  BY <1>1, Moves DEF At, IsProxyProgram, Reliable
<1>3. \A q \in Peers : q = p \/ q = Other(p)
  BY DEF Other, Peers
<1>4. ProgramsTypeOK'
  <2>1. pc' = [q \in Peers |-> pc'[q]] /\ \A q \in Peers : pc'[q] \in Steps(q)'
    BY <1>1, Moves, StaysInProgram
  <2>2. QED
    BY <1>1, <2>1 DEF ProgramsTypeOK, socketVars, qpVars, hcaVars, argsVars
<1>5. HandshakeInv'
  BY <1>1, HandshakeKept DEF socketVars
<1>6. ConnectionInv'
  BY <1>1, ConnectionStays DEF socketVars, qpVars
<1>7. SupplyInv' /\ CreditInv'
  <2>1. pc["server"] \in {"rtr", "rts", "fill"} <=> pc'["server"] \in {"rtr", "rts", "fill"}
    BY <1>1, <1>2 DEF Other, Peers
  <2>2. \A q \in Peers : Syncs(q)' = Syncs(q)
    BY <1>1, SyncsKept
  <2>3. QED
    BY <1>1, <1>2, <2>1, <2>2 DEF SupplyInv, CreditInv, InFlight, hcaVars, Peers
<1>8. FlowInv' /\ ArgsInv'
  BY <1>1, <1>2, <1>3 DEF FlowInv, ArgsInv, Seen, Posted, hcaVars, argsVars
<1>9. QED
  BY <1>4, <1>5, <1>6, <1>7, <1>8 DEF ProgramsInv

LEMMA MainStepInv ==
  ASSUME ProgramsInv, NEW p \in Peers, MainStep(p), UNCHANGED <<program, length, i>>
  PROVE  ProgramsInv'
<1>1. CASE CommonStep(p) /\ UNCHANGED argsVars
  BY <1>1, CommonStepInv DEF Frame
<1>2. QED
  BY <1>1, ArgsAppendInv, LeaveBlockInv, StartInv, WaitAllOpFinishedInv DEF MainStep

\* Only proxy_send_recv has operations.
LEMMA OnlyProxyRuns ==
  ASSUME ArgsInv, NEW p \in Peers, op[p] = "appended"
  PROVE  IsProxyProgram
  BY DEF ArgsInv

LEMMA SendProgressPostInv ==
  ASSUME ProgramsInv, SendProgressPost, UNCHANGED <<program, length, i>>
  PROVE  ProgramsInv'
<1>1. /\ ProgramsTypeOK /\ HandshakeInv /\ ConnectionInv
      /\ SupplyInv /\ CreditInv /\ FlowInv /\ ArgsInv
      /\ op["client"] = "appended" /\ iterations["client"] < length
      /\ available_wqes > 0 /\ available_wqes' = available_wqes - 1
      /\ sends' = sends + 1
      /\ iterations' = [iterations EXCEPT !["client"] = iterations["client"] + 1]
      /\ \E s \in {"Progress", "None"} : state' = [state EXCEPT !["client"] = s]
      /\ UNCHANGED <<pc, op, count, first_completion>>
      /\ UNCHANGED <<socketVars, qpVars, recvs, wire, acks, cq>>
      /\ UNCHANGED <<program, length, i>>
  BY DEF ProgramsInv, SendProgressPost, Running, PostBenchmarkSend, PostSend, Progress
<1>2. IsProxyProgram /\ IsProxyProgram' /\ Reliable' = Reliable
  BY <1>1, OnlyProxyRuns DEF IsProxyProgram, Reliable, Peers
<1>3. /\ iterations' \in [Peers -> Nat] /\ state' \in [Peers -> {"Ready", "Progress", "None"}]
      /\ iterations'["client"] = iterations["client"] + 1
      /\ iterations'["server"] = iterations["server"]
      /\ state'["client"] # "Ready" /\ state'["server"] = state["server"]
  BY <1>1 DEF ProgramsTypeOK, Peers
<1>4. ProgramsTypeOK'
  BY <1>1, <1>3, Unmoved DEF ProgramsTypeOK, socketVars, qpVars
<1>5. HandshakeInv' /\ ConnectionInv'
  BY <1>1, ConnectionUnmoved DEF socketVars, qpVars
<1>6. SupplyInv'
  BY <1>1, Unmoved DEF SupplyInv
<1>7. CreditInv'
  BY <1>1, <1>2, Numbers DEF CreditInv, InFlight
<1>8. Seen' = Seen /\ Posted' = Posted + 1
  BY <1>1, <1>2, <1>3 DEF Seen, Posted
<1>9. FlowInv'
  BY <1>1, <1>2, <1>3, <1>8, Numbers DEF FlowInv
<1>10. ArgsInv'
  BY <1>1, <1>2, <1>3, <1>8 DEF ArgsInv, Peers
<1>11. QED
  BY <1>4, <1>5, <1>6, <1>7, <1>9, <1>10 DEF ProgramsInv

LEMMA SendProgressPollInv ==
  ASSUME ProgramsInv, SendProgressPoll, UNCHANGED <<program, length, i>>
  PROVE  ProgramsInv'
<1>1. /\ ProgramsTypeOK /\ HandshakeInv /\ ConnectionInv /\ FlowInv /\ ArgsInv
      /\ op["client"] = "appended" /\ iterations["client"] < length
      /\ PollSends
      /\ iterations' = [iterations EXCEPT !["client"] = @ + 1]
      /\ state' = [state EXCEPT !["client"] = "Progress"]
      /\ UNCHANGED <<pc, op, count, first_completion>>
      /\ UNCHANGED <<socketVars, qpVars, recvs, sends, wire, acks>>
      /\ UNCHANGED <<program, length, i>>
  BY DEF ProgramsInv, SendProgressPoll, Running, PollSends
<1>2. IsProxyProgram /\ IsProxyProgram'
  BY <1>1, OnlyProxyRuns DEF IsProxyProgram, Peers
<1>3. /\ iterations' \in [Peers -> Nat] /\ state' \in [Peers -> {"Ready", "Progress", "None"}]
      /\ iterations'["client"] = iterations["client"] + 1
      /\ iterations'["server"] = iterations["server"]
      /\ state'["client"] # "Ready" /\ state'["server"] = state["server"]
  BY <1>1 DEF ProgramsTypeOK, Peers
<1>4. /\ CreditInv' /\ SupplyInv'
      /\ cq' \in [Peers -> Nat] /\ cq'["server"] = cq["server"] /\ available_wqes' \in Nat
  BY <1>1, <1>2, PollSendsCredit
<1>5. ProgramsTypeOK'
  BY <1>1, <1>3, <1>4, Unmoved DEF ProgramsTypeOK, socketVars, qpVars
<1>6. HandshakeInv' /\ ConnectionInv'
  BY <1>1, ConnectionUnmoved DEF socketVars, qpVars
<1>7. Seen' = Seen /\ Posted' = Posted + 1
  BY <1>1, <1>2, <1>3 DEF Seen, Posted
<1>8. FlowInv'
  BY <1>1, <1>2, <1>3, <1>4, <1>7, Numbers DEF FlowInv
<1>9. ArgsInv'
  BY <1>1, <1>2, <1>3, <1>7 DEF ArgsInv, Peers
<1>10. QED
  BY <1>4, <1>5, <1>6, <1>8, <1>9 DEF ProgramsInv

LEMMA SendProgressEndInv ==
  ASSUME ProgramsInv, SendProgressEnd, UNCHANGED <<program, length, i>>
  PROVE  ProgramsInv'
<1>1. /\ ProgramsTypeOK /\ HandshakeInv /\ ConnectionInv
      /\ SupplyInv /\ CreditInv /\ FlowInv /\ ArgsInv
      /\ op["client"] = "appended" /\ iterations["client"] = length
      /\ iterations' = [iterations EXCEPT !["client"] = length]
      /\ state' = [state EXCEPT !["client"] = "None"]
      /\ UNCHANGED <<pc, op, count, first_completion>>
      /\ UNCHANGED <<socketVars, qpVars, hcaVars, available_wqes>>
      /\ UNCHANGED <<program, length, i>>
  BY DEF ProgramsInv, SendProgressEnd, Running, Progress, peerVars
<1>2. IsProxyProgram /\ IsProxyProgram' /\ Reliable' = Reliable
  BY <1>1, OnlyProxyRuns DEF IsProxyProgram, Reliable, Peers
<1>3. /\ iterations' = iterations
      /\ state' \in [Peers -> {"Ready", "Progress", "None"}]
      /\ state'["client"] # "Ready" /\ state'["server"] = state["server"]
  BY <1>1 DEF ProgramsTypeOK, Peers
<1>4. ProgramsTypeOK'
  BY <1>1, <1>3, Unmoved DEF ProgramsTypeOK, socketVars, qpVars, hcaVars
<1>5. HandshakeInv' /\ ConnectionInv'
  BY <1>1, ConnectionUnmoved DEF socketVars, qpVars
<1>6. SupplyInv' /\ CreditInv'
  BY <1>1, <1>2, Unmoved DEF SupplyInv, CreditInv, InFlight, hcaVars
<1>7. FlowInv' /\ ArgsInv'
  BY <1>1, <1>2, <1>3 DEF FlowInv, ArgsInv, Seen, Posted, hcaVars, Peers
<1>8. QED
  BY <1>4, <1>5, <1>6, <1>7 DEF ProgramsInv

LEMMA RemoveInv ==
  ASSUME ProgramsInv, NEW p \in Peers, Remove(p), UNCHANGED <<program, length, i>>
  PROVE  ProgramsInv'
<1>1. /\ ProgramsTypeOK /\ HandshakeInv /\ ConnectionInv
      /\ SupplyInv /\ CreditInv /\ FlowInv /\ ArgsInv
      /\ op[p] = "appended" /\ state[p] = "None"
      /\ op' = [op EXCEPT ![p] = "removed"]
      /\ UNCHANGED <<pc, state, iterations, count, first_completion>>
      /\ UNCHANGED <<socketVars, qpVars, hcaVars, available_wqes>>
      /\ UNCHANGED <<program, length, i>>
  BY DEF ProgramsInv, Remove, peerVars
<1>2. IsProxyProgram /\ IsProxyProgram' /\ Reliable' = Reliable
  BY <1>1, OnlyProxyRuns DEF IsProxyProgram, Reliable
<1>3. op'[p] = "removed" /\ \A q \in Peers : q # p => op'[q] = op[q]
  BY <1>1 DEF ProgramsTypeOK
<1>4. ProgramsTypeOK'
  BY <1>1, Unmoved DEF ProgramsTypeOK, socketVars, qpVars, hcaVars
<1>5. HandshakeInv' /\ ConnectionInv'
  BY <1>1, ConnectionUnmoved DEF socketVars, qpVars
<1>6. SupplyInv' /\ CreditInv'
  BY <1>1, <1>2, Unmoved DEF SupplyInv, CreditInv, InFlight, hcaVars
<1>7. FlowInv'
  BY <1>1, <1>2 DEF FlowInv, Seen, Posted, hcaVars
<1>8. ArgsInv'
  BY <1>1, <1>2, <1>3 DEF ArgsInv, Seen
<1>9. QED
  BY <1>4, <1>5, <1>6, <1>7, <1>8 DEF ProgramsInv

LEMMA RecvProgressInv ==
  ASSUME ProgramsInv, RecvProgress, UNCHANGED <<program, length, i>>
  PROVE  ProgramsInv'
<1> DEFINE n       == Polled("server")
           isFirst == state["server"] = "Ready" \/ first_completion
           counted == n + IF state["server"] = "Ready" THEN 0 ELSE count
           done    == iterations["server"] + Counted(n)
<1>1. /\ ProgramsTypeOK /\ HandshakeInv /\ ConnectionInv
      /\ SupplyInv /\ CreditInv /\ FlowInv /\ ArgsInv
      /\ op["server"] = "appended" /\ state["server"] # "None"
      /\ cq' = [cq EXCEPT !["server"] = @ - n] /\ recvs' = recvs + n
      /\ iterations' = [iterations EXCEPT !["server"] = done]
      /\ state' = [state EXCEPT !["server"] = IF done = length THEN "None" ELSE "Progress"]
      /\ first_completion' = (isFirst /\ counted = 0)
      /\ count' = IF isFirst THEN 0 ELSE counted
      /\ UNCHANGED <<pc, op>>
      /\ UNCHANGED <<socketVars, qpVars, sends, wire, acks, available_wqes>>
      /\ UNCHANGED <<program, length, i>>
  BY DEF ProgramsInv, RecvProgress, Running, PollRecvs, Reposted, Progress
<1>2. n \in 0 .. cq["server"] /\ Counted(n) = IF n > 0 THEN 1 ELSE 0
  BY <1>1, Numbers DEF Peers, Counted
<1> HIDE DEF n
<1>3. IsProxyProgram /\ IsProxyProgram' /\ Reliable' = Reliable
  BY <1>1, OnlyProxyRuns DEF IsProxyProgram, Reliable, Peers
<1>4. done \in Nat /\ counted \in Nat
  BY <1>1, <1>2, Numbers
<1>5. /\ cq' \in [Peers -> Nat]
      /\ cq'["server"] = cq["server"] - n /\ cq'["client"] = cq["client"]
      /\ iterations' \in [Peers -> Nat]
      /\ iterations'["server"] = done /\ iterations'["client"] = iterations["client"]
      /\ state' \in [Peers -> {"Ready", "Progress", "None"}]
      /\ state'["server"] = IF done = length THEN "None" ELSE "Progress"
      /\ state'["client"] = state["client"]
  BY <1>1, <1>2, <1>4 DEF ProgramsTypeOK, Peers
<1>6. ProgramsTypeOK'
  BY <1>1, <1>2, <1>4, <1>5, Unmoved DEF ProgramsTypeOK, socketVars, qpVars
<1>7. HandshakeInv' /\ ConnectionInv'
  BY <1>1, ConnectionUnmoved DEF socketVars, qpVars
<1>8. SupplyInv'
  <2>1. recvs' + cq'["server"] = recvs + cq["server"]
    BY <1>1, <1>2, <1>5, Numbers
  <2>2. QED
    BY <1>1, <2>1, Unmoved DEF SupplyInv
<1>9. CreditInv'
  BY <1>1, <1>3, <1>5 DEF CreditInv, InFlight
<1>10. /\ Seen' <= Seen + n /\ done <= Seen' /\ Posted' = Posted
       /\ first_completion' => count' = 0
  <2>1. Posted' = Posted
    BY <1>1, <1>3, <1>5 DEF Posted
  <2>2. iterations["server"] <= Seen /\ (isFirst => count = 0)
    BY <1>1, <1>3 DEF ArgsInv
  <2>3. CASE isFirst
    <3>1. Seen = 0 /\ counted = n /\ count' = 0 /\ iterations["server"] = 0
      <4>1. Seen = 0
        BY <1>3, <2>3 DEF Seen
      <4>2. counted = n /\ count' = 0
        BY <1>1, <1>2, <2>2, <2>3
      <4>3. iterations["server"] = 0
        BY <1>1, <2>2, <4>1, Numbers
      <4>4. QED
        BY <4>1, <4>2, <4>3
    <3>2. state'["server"] # "Ready"
      BY <1>5
    <3>3. CASE n = 0
      <4>1. first_completion'
        BY <1>1, <2>3, <3>1, <3>3
      <4>2. Seen' = 0
        BY <1>3, <4>1 DEF Seen
      <4>3. QED
        BY <1>2, <2>1, <3>1, <3>3, <4>2
    <3>4. CASE n # 0
      <4>1. ~first_completion'
        BY <1>1, <3>1, <3>4
      <4>2. Seen' = 1
        BY <1>3, <3>1, <3>2, <4>1 DEF Seen
      <4>3. QED
        BY <1>2, <2>1, <3>1, <3>4, <4>1, <4>2
    <3>5. QED
      BY <3>3, <3>4
  <2>4. CASE ~isFirst
    <3>1. ~first_completion' /\ count' = n + count /\ state'["server"] # "Ready"
      <4>1. ~first_completion'
        BY <1>1, <2>4, Zenon
      <4>2. count' = n + count
        BY <1>1, <2>4
      <4>3. QED
        BY <1>5, <4>1, <4>2
    <3>2. Seen = count + 1
      BY <1>3, <2>4 DEF Seen
    <3>3. Seen' = count' + 1
      BY <1>3, <3>1 DEF Seen
    <3>4. QED
      BY <1>1, <1>2, <2>1, <2>2, <3>1, <3>2, <3>3, Numbers
  <2>5. QED
    BY <2>3, <2>4
<1>11. FlowInv'
  <2>1. Seen' \in Nat
    BY <1>6 DEF ProgramsTypeOK, Seen, Peers
  <2>2. sends' + wire' + cq'["server"] + Seen' <= Posted'
    BY <1>1, <1>2, <1>5, <1>10, <2>1, Numbers DEF FlowInv
  <2>3. QED
    BY <1>1, <1>3, <1>5, <2>2 DEF FlowInv
<1>12. ArgsInv'
  BY <1>1, <1>3, <1>5, <1>10 DEF ArgsInv, Peers
<1>13. QED
  BY <1>6, <1>7, <1>8, <1>9, <1>11, <1>12 DEF ProgramsInv

LEMMA ThreadStepInv ==
  ASSUME ProgramsInv, NEW p \in Peers, ThreadStep(p), UNCHANGED <<program, length, i>>
  PROVE  ProgramsInv'
  BY SendProgressPostInv, SendProgressPollInv, SendProgressEndInv, RecvProgressInv, RemoveInv
  DEF ThreadStep

----------------------------------------------------------------------------
(* The NICs and the wire.                                                  *)

\* What the steps of the NICs leave alone.
Programs == <<program, length, pc, socketVars, qpVars, available_wqes, i, argsVars>>

\* Such a step moves work requests and completions: it is enough to look at
\* the counts.
LEMMA RequestsMove ==
  ASSUME ProgramsInv, UNCHANGED Programs,
         recvs' \in Nat, sends' \in Nat, wire' \in Nat, acks' \in Nat, cq' \in [Peers -> Nat],
         recvs' + cq'["server"] = recvs + cq["server"],
         ~Reliable => acks' = 0,
         InFlight' = InFlight \/ (InFlight' < InFlight /\ pc["client"] # "poll"),
         sends' + wire' + cq'["server"] <= sends + wire + cq["server"]
  PROVE  ProgramsInv'
<1>1. /\ ProgramsTypeOK /\ HandshakeInv /\ ConnectionInv
      /\ SupplyInv /\ CreditInv /\ FlowInv /\ ArgsInv
      /\ UNCHANGED <<program, length, pc, socketVars, qpVars, available_wqes, i, argsVars>>
  BY DEF ProgramsInv, Programs
<1>2. IsProxyProgram' = IsProxyProgram /\ Reliable' = Reliable
  BY <1>1, Unmoved
<1>3. ProgramsTypeOK'
  BY <1>1, Unmoved DEF ProgramsTypeOK, socketVars, qpVars, argsVars
<1>4. HandshakeInv' /\ ConnectionInv'
  BY <1>1, ConnectionUnmoved DEF socketVars, qpVars
<1>5. SupplyInv'
  BY <1>1, Unmoved DEF SupplyInv
<1>6. InFlight' \in Nat
  BY <1>3 DEF InFlight, ProgramsTypeOK, Peers
<1>7. CreditInv'
  BY <1>1, <1>2, <1>6, Numbers DEF CreditInv
<1>8. Seen' = Seen /\ Posted' = Posted
  BY <1>1, <1>2 DEF Seen, Posted, argsVars
<1>9. FlowInv'
  <2>1. cq'["server"] \in Nat
    BY DEF Peers
  <2>2. sends' + wire' + cq'["server"] + Seen' <= Posted'
    BY <1>1, <1>8, <2>1, Numbers DEF FlowInv
  <2>3. QED
    BY <1>1, <1>2, <2>2 DEF FlowInv, argsVars
<1>10. ArgsInv'
  BY <1>1, <1>2, <1>8 DEF ArgsInv, argsVars
<1>11. QED
  BY <1>3, <1>4, <1>5, <1>7, <1>9, <1>10 DEF ProgramsInv

LEMMA TransmitInv ==
  ASSUME ProgramsInv, Transmit, UNCHANGED Programs
  PROVE  ProgramsInv'
<1>1. /\ ProgramsTypeOK /\ CreditInv /\ Reliable' = Reliable
      /\ sends > 0 /\ sends' = sends - 1 /\ wire' = wire + 1
      /\ cq' = IF Reliable THEN cq ELSE [cq EXCEPT !["client"] = @ + 1]
      /\ UNCHANGED <<recvs, acks>>
  BY DEF ProgramsInv, Transmit, Programs, Reliable
<1>2. /\ cq' \in [Peers -> Nat] /\ cq'["server"] = cq["server"]
      /\ cq'["client"] = cq["client"] + IF Reliable THEN 0 ELSE 1
  BY <1>1 DEF ProgramsTypeOK, Peers
<1>3. InFlight' = InFlight
  BY <1>1, <1>2, Numbers DEF InFlight
<1>4. sends' \in Nat /\ wire' \in Nat /\ sends' + wire' = sends + wire
  BY <1>1, Numbers
<1>5. ~Reliable => acks' = 0
  BY <1>1 DEF CreditInv
<1>6. QED
  BY <1>1, <1>2, <1>3, <1>4, <1>5, RequestsMove, Numbers

LEMMA DeliverInv ==
  ASSUME ProgramsInv, Deliver, UNCHANGED Programs
  PROVE  ProgramsInv'
<1>1. /\ ProgramsTypeOK /\ CreditInv /\ Reliable' = Reliable
      /\ wire > 0 /\ recvs > 0
      /\ wire' = wire - 1 /\ recvs' = recvs - 1
      /\ cq' = [cq EXCEPT !["server"] = @ + 1]
      /\ acks' = IF Reliable THEN acks + 1 ELSE acks
      /\ UNCHANGED sends
  BY DEF ProgramsInv, Deliver, ServerReady, Programs, Reliable
<1>2. /\ cq' \in [Peers -> Nat] /\ cq'["client"] = cq["client"]
      /\ cq'["server"] = cq["server"] + 1
  BY <1>1 DEF ProgramsTypeOK, Peers
<1>3. InFlight' = InFlight
  BY <1>1, <1>2, Numbers DEF InFlight
<1>4. /\ wire' \in Nat /\ recvs' \in Nat /\ acks' \in Nat
      /\ recvs' + cq'["server"] = recvs + cq["server"]
      /\ sends' + wire' + cq'["server"] = sends + wire + cq["server"]
  BY <1>1, <1>2, Numbers
<1>5. ~Reliable => acks' = 0
  BY <1>1 DEF CreditInv
<1>6. QED
  BY <1>1, <1>2, <1>3, <1>4, <1>5, RequestsMove, Numbers

LEMMA AcknowledgeInv ==
  ASSUME ProgramsInv, Acknowledge, UNCHANGED Programs
  PROVE  ProgramsInv'
<1>1. /\ ProgramsTypeOK /\ CreditInv /\ Reliable' = Reliable
      /\ acks > 0 /\ acks' = acks - 1
      /\ cq' = [cq EXCEPT !["client"] = @ + 1]
      /\ UNCHANGED <<recvs, sends, wire>>
  BY DEF ProgramsInv, Acknowledge, Programs, Reliable
<1>2. /\ cq' \in [Peers -> Nat] /\ cq'["server"] = cq["server"]
      /\ cq'["client"] = cq["client"] + 1
  BY <1>1 DEF ProgramsTypeOK, Peers
<1>3. Reliable
  BY <1>1, Numbers DEF CreditInv
<1>4. InFlight' = InFlight
  BY <1>1, <1>2, <1>3, Numbers DEF InFlight
<1>5. acks' \in Nat
  BY <1>1, Numbers
<1>6. QED
  BY <1>1, <1>2, <1>3, <1>4, <1>5, RequestsMove, Numbers

LEMMA LoseInv ==
  ASSUME ProgramsInv, Lose, UNCHANGED Programs
  PROVE  ProgramsInv'
<1>1. /\ ProgramsTypeOK /\ CreditInv /\ ConnectionInv /\ Reliable' = Reliable
      /\ wire > 0 /\ wire' = wire - 1
      /\ Reliable => qp["client"] = "destroyed"
      /\ UNCHANGED <<recvs, sends, acks, cq>>
  BY DEF ProgramsInv, Lose, Programs, Reliable
<1>2. pc["client"] = "poll" => ~Reliable
  BY <1>1 DEF ConnectionInv, Unconnected, Peers
<1>3. InFlight' = InFlight \/ (InFlight' < InFlight /\ pc["client"] # "poll")
  BY <1>1, <1>2, Numbers DEF InFlight
<1>4. wire' \in Nat /\ cq' \in [Peers -> Nat]
  BY <1>1, Numbers DEF ProgramsTypeOK
<1>5. /\ ~Reliable => acks' = 0
      /\ sends' + wire' + cq'["server"] <= sends + wire + cq["server"]
  BY <1>1, Numbers DEF CreditInv
<1>6. QED
  BY <1>1, <1>3, <1>4, <1>5, RequestsMove, Numbers

----------------------------------------------------------------------------
(* The theorems.                                                           *)

LEMMA ProgramsInitInv ==
  Init => ProgramsInv
<1> SUFFICES ASSUME Init PROVE ProgramsInv
  OBVIOUS
<1> USE DEF Init, PeersInit, SocketInit, WriteTestInit, SendRecvInit
<1>1. \A p \in Peers : pc[p] = "setup" /\ Syncs(p) = 0
  BY DEF Syncs, Unconnected
<1>2. ProgramsTypeOK
  <2>1. \A p \in Peers : pc[p] \in Steps(p)
    BY <1>1, Places DEF Peers
  <2>2. SendQueueDepth \in Nat
    BY RdmaAssumption DEF RdmaAssumption
  <2>3. QED
    BY <2>1, <2>2 DEF ProgramsTypeOK
<1>3. HandshakeInv
  BY <1>1 DEF HandshakeInv, Peers
<1>4. ConnectionInv
  BY <1>1 DEF ConnectionInv, Unconnected, Peers
<1>5. SupplyInv /\ CreditInv
  BY <1>1, RdmaAssumption DEF RdmaAssumption, SupplyInv, CreditInv, InFlight, Peers
<1>6. FlowInv /\ ArgsInv
  BY <1>1, RdmaAssumption
  DEF RdmaAssumption, FlowInv, ArgsInv, Seen, Posted, IsProxyProgram, Peers
<1>7. QED
  BY <1>2, <1>3, <1>4, <1>5, <1>6 DEF ProgramsInv

LEMMA ProgramsNextInv ==
  ASSUME ProgramsInv, [Next]_vars
  PROVE  ProgramsInv'
<1>1. ASSUME NEW p \in Peers, MainThread(p) PROVE ProgramsInv'
  BY <1>1, WriteTestStepInv, MainStepInv DEF MainThread
<1>2. ASSUME NEW p \in Peers, ProxyThread(p) PROVE ProgramsInv'
  BY <1>2, ThreadStepInv DEF ProxyThread
<1>3. CASE Nics
  BY <1>3, TransmitInv, DeliverInv, AcknowledgeInv
  DEF Nics, HcaStep, Programs
<1>4. CASE Network
  BY <1>4, LoseInv DEF Network, Loss, Programs
<1>5. CASE UNCHANGED vars
  <2>1. /\ UNCHANGED <<program, length, pc, socketVars, qpVars, available_wqes, i, argsVars>>
        /\ UNCHANGED hcaVars
    BY <1>5 DEF vars, peerVars
  <2>2. /\ ProgramsTypeOK /\ HandshakeInv /\ ConnectionInv
    BY DEF ProgramsInv
  <2>3. ProgramsTypeOK'
    BY <2>1, <2>2, Unmoved DEF ProgramsTypeOK, socketVars, qpVars, hcaVars, argsVars
  <2>4. HandshakeInv' /\ ConnectionInv'
    BY <2>1, <2>2, ConnectionUnmoved DEF socketVars, qpVars
  <2>5. SupplyInv' /\ CreditInv' /\ FlowInv' /\ ArgsInv'
    BY <2>1, CountsUnmoved DEF hcaVars
  <2>6. QED
    BY <2>3, <2>4, <2>5 DEF ProgramsInv
<1>6. QED
  BY <1>1, <1>2, <1>3, <1>4, <1>5 DEF Next

\* The invariant of the RDMA programs holds in every state they reach.
THEOREM ProgramsInvariance ==
  Spec => []ProgramsInv
<1>1. Init => ProgramsInv
  BY ProgramsInitInv
<1>2. ProgramsInv /\ [Next]_vars => ProgramsInv'
  BY ProgramsNextInv
<1>3. QED
  BY <1>1, <1>2, PTL DEF Spec

\* modify_qp_to_rts connects each queue pair to the other peer's, with the
\* packet sequence number that one starts with.
THEOREM QueuePairsMatch ==
  Spec => []ConnectedToPeer
<1>1. ProgramsInv => ConnectedToPeer
  <2> SUFFICES ASSUME ProgramsInv, NEW p \in Peers, qp[p] = "RTS"
               PROVE  dest[p].info = QpInfo(Other(p)) /\ dest[p].rq_psn = 0
    BY DEF ConnectedToPeer
  <2>1. dest[p] = [info |-> QpInfo(Other(p)), rq_psn |-> 0]
    BY DEF ProgramsInv, ConnectionInv
  <2>2. QED
    BY <2>1
<1>2. QED
  BY <1>1, ProgramsInvariance, PTL

\* The benchmarks of all programs, reliable or not, never overrun the send
\* queue or the receive queue, whatever their length.
THEOREM QueuesNeverOverrun ==
  Spec => []QueuesFit
<1>1. ProgramsInv => QueuesFit
  <2> SUFFICES ASSUME ProgramsInv PROVE QueuesFit
    OBVIOUS
  <2>1. ProgramsTypeOK /\ CreditInv /\ SupplyInv
    BY DEF ProgramsInv
  <2>2. InFlight <= SendQueueDepth
    BY <2>1, Numbers DEF CreditInv
  <2>3. recvs + cq["server"] <= ReceiveQueueDepth
    BY <2>1, Numbers, RdmaAssumption DEF SupplyInv, RdmaAssumption
  <2>4. QED
    BY <2>2, <2>3 DEF QueuesFit, InFlight
<1>2. QED
  BY <1>1, ProgramsInvariance, PTL

\* recv_benchmark posts a receive for every completion it polls.
THEOREM ReceivesAreReplaced ==
  Spec => []SupplyKept
<1>1. ProgramsInv => SupplyKept
  <2> SUFFICES ASSUME ProgramsInv, pc["server"] = "bench"
               PROVE  recvs + cq["server"] = SendQueueDepth
    BY DEF SupplyKept
  <2>1. ~IsProxyProgram
    BY Places DEF ProgramsInv, ProgramsTypeOK, Peers
  <2>2. QED
    BY <2>1 DEF ProgramsInv, SupplyInv
<1>2. QED
  BY <1>1, ProgramsInvariance, PTL

\* The client's operation comes after the server's: the client's last call of
\* syncData has ended with the server's socket.
LEMMA OperationsOrdered ==
  ASSUME ProgramsInv, op["client"] # "none"
  PROVE  op["server"] # "none" /\ stream["client"] = <<>>
<1>1. ProgramsTypeOK /\ HandshakeInv /\ ArgsInv
  BY DEF ProgramsInv
<1>2. IsProxyProgram /\ pc["client"] \in {"close", "start", "wait", "destroy", "done"}
  BY <1>1 DEF ArgsInv, Peers
<1>3. Syncs("client") = 3
  BY <1>2 DEF Syncs, Unconnected
<1>4. Syncs("server") \in 0 .. 2 /\ (half["server"] = 2 => Syncs("server") # 2)
  <2>1. pc["server"] \in Steps("server")
    BY <1>1 DEF ProgramsTypeOK, Peers
  <2>2. half["server"] = 2 => pc["server"] \in {"exchange", "ready"}
    BY <1>1, <1>2, <2>1, Places DEF HandshakeInv, Peers
  <2>3. QED
    BY <1>2, <2>2 DEF Syncs, Unconnected
<1>5. "server" \in closed /\ stream["client"] = <<>>
  BY <1>1, <1>3, <1>4 DEF HandshakeInv
<1>6. pc["server"] \in {"start", "wait", "destroy", "done"}
  BY <1>1, <1>2, <1>5 DEF HandshakeInv
<1>7. QED
  BY <1>1, <1>2, <1>5, <1>6 DEF ArgsInv, Peers

\* The client of proxy_send_recv appends its operation after the server.
THEOREM ReceiverIsFirst ==
  Spec => []ReceiverQueuedFirst
<1>1. ProgramsInv => ReceiverQueuedFirst
  BY OperationsOrdered DEF ReceiverQueuedFirst
<1>2. QED
  BY <1>1, ProgramsInvariance, PTL

\* A receiver of proxy_send_recv that ends has seen all writes, one by one.
THEOREM ReceiverEndsComplete ==
  Spec => []ReceiverSawThemAll
<1>1. ProgramsInv => ReceiverSawThemAll
  <2> SUFFICES ASSUME ProgramsInv, state["server"] = "None"
               PROVE  /\ sends = 0 /\ wire = 0 /\ cq["server"] = 0
                      /\ ~first_completion /\ count = length - 1
    BY DEF ReceiverSawThemAll
  <2>1. ProgramsTypeOK /\ FlowInv /\ ArgsInv
    BY DEF ProgramsInv
  <2>2. IsProxyProgram
    BY <2>1 DEF ArgsInv, Peers
  <2>3. Posted <= length /\ length <= Seen
    BY <2>1, <2>2, Numbers DEF FlowInv, ArgsInv, Posted
  <2>4. sends = 0 /\ wire = 0 /\ cq["server"] = 0 /\ Seen = length
    <3>1. sends + wire + cq["server"] + Seen <= Posted
      BY <2>1 DEF FlowInv
    <3>2. QED
      BY <2>1, <2>3, <3>1, Numbers
  <2>5. Seen > 0
    BY <2>1, <2>4, Numbers
  <2>6. ~first_completion
    BY <2>2, <2>5 DEF Seen
  <2>7. Seen = count + 1
    BY <2>2, <2>6 DEF Seen
  <2>8. QED
    BY <2>1, <2>4, <2>6, <2>7, Numbers
<1>2. QED
  BY <1>1, ProgramsInvariance, PTL

\* A write finds a connected queue pair and a receive: the server has posted
\* before the syncReady that lets the client write, and keeps its queue pair
\* until it has seen all writes.
THEOREM WritesFindReceives ==
  Spec => []NoReceiverNotReady
<1>1. ProgramsInv => NoReceiverNotReady
  <2> SUFFICES ASSUME ProgramsInv, wire > 0, length <= SendQueueDepth
               PROVE  qp["server"] \in {"RTR", "RTS"} /\ recvs >= wire
    BY DEF NoReceiverNotReady
  <2>1. /\ ProgramsTypeOK /\ HandshakeInv /\ ConnectionInv /\ SupplyInv /\ FlowInv /\ ArgsInv
        /\ pc["server"] \in Steps("server") /\ pc["client"] \in Steps("client")
        /\ "server" \in Peers /\ "client" \in Peers
    BY DEF ProgramsInv, ProgramsTypeOK, Peers
  <2>2. wire + cq["server"] + Seen <= Posted
    <3>1. sends + wire + cq["server"] + Seen <= Posted
      BY <2>1 DEF FlowInv
    <3>2. QED
      BY <2>1, <3>1, Numbers
  <2>3. SUFFICES /\ pc["server"] \notin Unconnected \union {"done"}
                 /\ recvs >= wire
    BY <2>1 DEF ConnectionInv
  <2>4. CASE IsProxyProgram
    <3>1. Posted = iterations["client"] /\ Posted <= length
      BY <2>1, <2>4 DEF Posted, FlowInv
    <3>2. op["client"] # "none"
      BY <2>1, <2>2, <3>1, Numbers DEF ArgsInv
    <3>3. op["server"] # "none"
      BY <2>1, <3>2, OperationsOrdered
    <3>4. pc["server"] \in {"close", "start", "wait", "destroy", "done"}
      BY <2>1, <2>4, <3>3 DEF ArgsInv
    <3>5. pc["server"] # "done"
      <4>1. pc["server"] = "done" => iterations["server"] = length
        BY <2>1, <2>4 DEF ArgsInv
      <4>2. iterations["server"] <= Seen
        BY <2>1, <2>4 DEF ArgsInv
      <4>3. QED
        BY <2>1, <2>2, <3>1, <4>1, <4>2, Numbers
    <3>6. recvs + cq["server"] = SendQueueDepth
      BY <2>1, <2>4, <3>4 DEF SupplyInv, Syncs, Unconnected
    <3>7. recvs >= wire
      BY <2>1, <2>2, <3>1, <3>6, Numbers
    <3>8. QED
      BY <3>4, <3>5, <3>7 DEF Unconnected
  <2>5. CASE ~IsProxyProgram
    <3>1. CASE i["client"] = 0
      <4>1. /\ Posted = 1 /\ Seen = 0 /\ wire = 1 /\ cq["server"] = 0
            /\ pc["client"] \in {"poll", "ready_again", "bench", "destroy", "done"}
        <5>1. Posted = IF pc["client"] \in {"poll", "ready_again", "bench", "destroy", "done"}
                       THEN 1 ELSE 0
          BY <2>5, <3>1 DEF Posted
        <5>2. QED
          BY <2>1, <2>2, <5>1, Numbers
      <4>2. /\ pc["server"] \notin {"fill", "ready_again", "bench", "destroy", "done"}
        BY <2>1, <2>5, <4>1, Numbers DEF Seen
      <4>3. Syncs("client") \in 2 .. 3 /\ Syncs("server") \in 0 .. 2
        BY <2>1, <2>5, <4>1, <4>2, Places DEF Syncs, Unconnected
      <4>4. Syncs("server") = 2 \/ (Syncs("server") = 1 /\ half["server"] = 2)
        BY <2>1, <2>5, <4>3 DEF HandshakeInv
      <4>5. pc["server"] \in {"ready", "poll"}
        <5>1. half["server"] = 2 => pc["server"] \in {"exchange", "ready", "ready_again"}
          BY <2>1 DEF HandshakeInv
        <5>2. QED
          BY <2>1, <2>5, <4>2, <4>4, <5>1, Places DEF Syncs, Unconnected
      <4>6. recvs + cq["server"] = 1
        BY <2>1, <2>5, <4>5 DEF SupplyInv
      <4>7. QED
        BY <2>1, <4>1, <4>5, <4>6, Numbers DEF Unconnected
    <3>2. CASE i["client"] # 0
      <4>1. /\ pc["client"] \in {"bench", "destroy", "done"} /\ Posted = i["client"] + 1
            /\ i["client"] <= length
        BY <2>1, <2>5, <3>2 DEF FlowInv, Posted
      <4>2. Syncs("client") = 3
        BY <4>1, <2>5 DEF Syncs, Unconnected
      <4>3. Syncs("server") = 3 \/ (Syncs("server") = 2 /\ half["server"] = 2)
        <5>1. Syncs("server") \in 0 .. 3
          BY DEF Syncs
        <5>2. QED
          BY <2>1, <2>5, <4>2, <5>1 DEF HandshakeInv
      <4>4. pc["server"] \in {"ready_again", "bench", "destroy", "done"}
        <5>1. half["server"] = 2 => pc["server"] \in {"exchange", "ready", "ready_again"}
          BY <2>1 DEF HandshakeInv
        <5>2. QED
          BY <2>1, <2>5, <4>3, <5>1, Places DEF Syncs, Unconnected
      <4>5. Seen = i["server"] + 1 /\ recvs + cq["server"] = SendQueueDepth
        BY <2>1, <2>5, <4>4 DEF Seen, SupplyInv
      <4>6. pc["server"] # "done"
        <5>1. pc["server"] = "done" => i["server"] >= length
          BY <2>1, <2>5 DEF FlowInv
        <5>2. QED
          BY <2>1, <2>2, <4>1, <4>5, <5>1, Numbers
      <4>7. recvs >= wire
        BY <2>1, <2>2, <4>1, <4>5, Numbers
      <4>8. QED
        BY <4>4, <4>6, <4>7 DEF Unconnected
    <3>3. QED
      BY <3>1, <3>2
  <2>6. QED
    BY <2>4, <2>5
<1>2. QED
  BY <1>1, ProgramsInvariance, PTL
=============================================================================
