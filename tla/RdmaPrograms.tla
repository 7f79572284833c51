---------------------------- MODULE RdmaPrograms ----------------------------
(***************************************************************************)
(* The RDMA programs of src/examples: each of them with the NICs.           *)
(***************************************************************************)
EXTENDS RdmaWriteTest, ProxySendRecv

vars == <<program, length, pc, peerVars, i, argsVars>>

Init == PeersInit /\ WriteTestInit /\ SendRecvInit

\* Main and, in proxy_send_recv, the proxy thread of a peer.
MainThread(p) ==
  \/ WriteTestStep(p) /\ UNCHANGED <<program, length, argsVars>>
  \/ MainStep(p) /\ UNCHANGED <<program, length, i>>
ProxyThread(p) == ThreadStep(p) /\ UNCHANGED <<program, length, i>>

Nics == HcaStep /\ UNCHANGED <<program, length, i, argsVars>>
Network == Loss /\ UNCHANGED <<program, length, i, argsVars>>

Next ==
  \/ \E p \in Peers : MainThread(p) \/ ProxyThread(p)
  \/ Nics \/ Network

\* Processes run, and so do the NICs; nothing has to be lost.  A proxy thread
\* may find the operation as soon as it is appended, and does when it has been
\* started.
Spec ==
  /\ Init /\ [][Next]_vars
  /\ \A p \in Peers : /\ WF_vars(MainThread(p))
                      /\ WF_vars(p \in started /\ ProxyThread(p))
  /\ WF_vars(Nics)

----------------------------------------------------------------------------
(* The inductive invariant, from which the properties of the three modules  *)
(* follow.                                                                  *)

IsProxyProgram == program = "proxy_send_recv"

\* The steps of a peer's main; the client may throw.
Steps(p) ==
  {Program(p)[n] : n \in 1 .. Len(Program(p))}
    \union (IF p = "client" THEN {"threw"} ELSE {})

ProgramsTypeOK ==
  /\ program \in {"rdma_write_rc_test", "rdma_write_uc_test", "proxy_send_recv"}
  /\ length \in Lengths
  /\ pc = [p \in Peers |-> pc[p]] /\ \A p \in Peers : pc[p] \in Steps(p)
  /\ half \in [Peers -> {1, 2}]
  /\ closed \subseteq Peers
  /\ stream = [p \in Peers |-> stream[p]]
  /\ qp = [p \in Peers |-> qp[p]]
  /\ neighbor = [p \in Peers |-> neighbor[p]]
  /\ dest = [p \in Peers |-> dest[p]]
  /\ recvs \in Nat /\ sends \in Nat /\ wire \in Nat /\ acks \in Nat
  /\ cq \in [Peers -> Nat]
  /\ available_wqes \in Nat
  /\ i \in [Peers -> Nat]
  /\ op \in [Peers -> {"none", "appended", "removed"}]
  /\ state \in [Peers -> {"Ready", "Progress", "None"}]
  /\ iterations \in [Peers -> Nat]
  /\ count \in Nat
  /\ first_completion \in BOOLEAN

\* The steps before modify_qp_to_rts.
Unconnected == {"setup", "listen", "accept", "connect", "threw", "exchange", "rtr"}

\* The calls of syncData a peer has behind it.
Syncs(p) ==
  IF pc[p] \in Unconnected \ {"rtr"} THEN 0
  ELSE IF \/ pc[p] \in {"rtr", "rts", "ready"}
          \/ p = "server" /\ pc[p] = (IF IsProxyProgram THEN "fill" ELSE "post") THEN 1
  ELSE IF \/ pc[p] \in {"post", "poll", "fill", "ready_again"}
          \/ p = "server" /\ IsProxyProgram THEN 2
  ELSE 3

\* What a peer sends in its n-th call, counted from 0.
Message(p, n) == IF n = 0 THEN QpInfo(p) ELSE Ready

\* The server's message of a call is on its way, the client has it and owes
\* its own, or that one is on its way; otherwise both are between two calls.
\* In proxy_send_recv the client's last call ends with the server's socket.
HandshakeInv ==
  /\ \A p \in Peers : half[p] = 2 => pc[p] \in {"exchange", "ready", "ready_again"}
  /\ \A p \in closed :
       IF IsProxyProgram THEN pc[p] \in {"start", "wait", "destroy", "done"}
                         ELSE pc[p] \in {"destroy", "done"}
  /\ \/ /\ Syncs("client") = Syncs("server")
        /\ half["client"] = 1
        /\ stream["server"] = <<>>
        /\ stream["client"] = IF half["server"] = 1 THEN <<>>
                              ELSE <<Message("server", Syncs("server"))>>
     \/ /\ Syncs("client") = Syncs("server")
        /\ half["client"] = 2 /\ half["server"] = 2
        /\ stream["server"] = <<>> /\ stream["client"] = <<>>
     \/ /\ Syncs("client") = Syncs("server") + 1
        /\ half["client"] = 1 /\ half["server"] = 2
        /\ stream["client"] = <<>>
        /\ stream["server"] = <<Message("client", Syncs("server"))>>
     \/ /\ IsProxyProgram /\ "server" \in closed
        /\ Syncs("client") = 3
        /\ half["client"] = 1 /\ half["server"] = 1
        /\ stream["server"] = <<>> /\ stream["client"] = <<>>

\* What a peer knows of the other one, and the state of its queue pair.
ConnectionInv ==
  \A p \in Peers :
    /\ (Syncs(p) > 0 \/ (p = "client" /\ half[p] = 2)) => neighbor[p] = QpInfo(Other(p))
    /\ pc[p] \in Unconnected => qp[p] \notin {"RTR", "RTS"}
    /\ pc[p] \notin Unconnected =>
         /\ dest[p] = [info |-> QpInfo(Other(p)), rq_psn |-> 0]
         /\ pc[p] # "done" => qp[p] \in {"RTR", "RTS"}

\* Where a receive that the server has posted is.
SupplyInv ==
  recvs + cq["server"] =
    IF IsProxyProgram
    THEN IF Syncs("server") = 0 \/ pc["server"] \in {"rtr", "rts", "fill"}
         THEN 0 ELSE SendQueueDepth
    ELSE IF pc["server"] \in {"ready", "poll"} THEN 1
         ELSE IF pc["server"] \in {"ready_again", "bench", "destroy", "done"}
              THEN SendQueueDepth ELSE 0

\* Entries of the send queue that are in use.
InFlight == sends + cq["client"] + (IF Reliable THEN wire + acks ELSE 0)

\* An entry of the send queue is in use or free; the first write of the write
\* tests is not counted by available_wqes.
CreditInv ==
  /\ ~Reliable => acks = 0
  /\ ~IsProxyProgram /\ pc["client"] \notin {"bench", "destroy", "done"} =>
       available_wqes = SendQueueDepth
  /\ IF ~IsProxyProgram /\ pc["client"] = "poll" THEN InFlight = 1
     ELSE InFlight + available_wqes <= SendQueueDepth

\* Writes the client has posted at most, and writes the server has seen at
\* least.
Posted ==
  IF IsProxyProgram THEN iterations["client"]
  ELSE i["client"] +
       (IF pc["client"] \in {"poll", "ready_again", "bench", "destroy", "done"} THEN 1 ELSE 0)
Seen ==
  IF IsProxyProgram
  THEN IF state["server"] = "Ready" \/ first_completion THEN 0 ELSE count + 1
  ELSE i["server"] +
       (IF pc["server"] \in {"fill", "ready_again", "bench", "destroy", "done"} THEN 1 ELSE 0)

\* A write that has been posted is lost, under way, or seen.
FlowInv ==
  /\ sends + wire + cq["server"] + Seen <= Posted
  /\ \A p \in Peers : pc[p] \notin {"bench", "destroy", "done"} => i[p] = 0
  /\ i["client"] <= length /\ iterations["client"] <= length
  /\ ~IsProxyProgram /\ pc["server"] \in {"destroy", "done"} => i["server"] >= length

\* The operation of proxy_send_recv and the members of its ProxyArgs.
ArgsInv ==
  /\ \A p \in Peers :
       /\ ~IsProxyProgram => op[p] = "none"
       /\ IsProxyProgram =>
            /\ op[p] = "none" <=> pc[p] \notin {"close", "start", "wait", "destroy", "done"}
            /\ pc[p] \in {"destroy", "done"} => op[p] = "removed"
       /\ op[p] = "none" => state[p] = "Ready"
       /\ op[p] = "removed" => state[p] = "None"
       /\ state[p] = "Ready" => iterations[p] = 0
  /\ IsProxyProgram => iterations["server"] <= Seen
  /\ state["server"] = "Ready" \/ first_completion => count = 0
  /\ state["server"] = "None" => iterations["server"] = length

ProgramsInv ==
  /\ ProgramsTypeOK
  /\ HandshakeInv
  /\ ConnectionInv
  /\ SupplyInv
  /\ CreditInv
  /\ FlowInv
  /\ ArgsInv
=============================================================================
