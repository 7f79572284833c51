-------------------------- MODULE GrpcClientProofs --------------------------
(***************************************************************************)
(* Proofs about GrpcClient, for all arguments of grpc_test.cc and all       *)
(* widths of the integers: what a process gets back from Broadcast and      *)
(* RdmaSession is exactly what the other one has passed to it.              *)
(***************************************************************************)
EXTENDS GrpcClient, WireProofs

----------------------------------------------------------------------------
(* The messages.                                                           *)

BarrierMessage == Fill(BarrierRequest_SharedCtor, [num_workers |-> NumWorkers])
BroadcastMessage(p) == Fill(BroadcastRequest_SharedCtor, BroadcastArgs(p))
SessionMessage(p) == Fill(RdmaSessionRequest_SharedCtor, RdmaSessionArgs(p))

ValueMessage(v) == BroadcastResponse_set(BroadcastResponse_SharedCtor, "value", v)

\* What the controller makes of the request of a peer with this QpInfo.
InfoMessage(i) ==
  Fill(RdmaSessionResponse_SharedCtor,
       [rkey |-> i.rkey, raddr |-> i.raddr, qpn |-> i.qp_num, psn |-> i.psn,
        gid_subnet |-> i.subnet_prefix, gid_iface |-> i.interface_id, lid |-> i.lid])

----------------------------------------------------------------------------
(* The inductive invariant.                                                *)

ClientTypeOK ==
  /\ pc \in [Procs -> {"Barrier", "Broadcast", "RdmaSession", "done", "aborted"}]
  /\ rank \in [Procs -> 0 .. 2] /\ rank[0] = 0 /\ rank[1] # 0
  /\ value \in [Procs -> Values]
  /\ info \in [Procs -> Infos]
  /\ DOMAIN call = Procs /\ DOMAIN answer = Procs /\ DOMAIN seen = Paths
  /\ DOMAIN broadcasted_value = Procs /\ DOMAIN remote_qp_infos = Procs

\* A process waits for the call it is at, which it has made with its own
\* arguments; Broadcast has been made with a rank it accepts.
CallInv(p) ==
  \/ call[p] = <<>>
  \/ /\ pc[p] = "Barrier"
     /\ call[p] = <<[path |-> "Sync/Barrier",
                     wire |-> BarrierRequest_InternalSerialize(BarrierMessage)]>>
  \/ /\ pc[p] = "Broadcast" /\ rank[p] < NumWorkers
     /\ call[p] = <<[path |-> "Sync/Broadcast",
                     wire |-> BroadcastRequest_InternalSerialize(BroadcastMessage(p))]>>
  \/ /\ pc[p] = "RdmaSession"
     /\ call[p] = <<[path |-> "Session/RdmaSession",
                     wire |-> RdmaSessionRequest_InternalSerialize(SessionMessage(p))]>>

\* The controller has understood the requests, and none comes to RdmaSession
\* from a process whose rank Broadcast has refused.
SeenInv ==
  /\ seen["Sync/Barrier"] \in Seq({<<p, BarrierMessage.fields>> : p \in Procs})
  /\ seen["Sync/Broadcast"] \in Seq({<<p, BroadcastMessage(p).fields>> : p \in Procs})
  /\ seen["Session/RdmaSession"] \in
       Seq({<<p, SessionMessage(p).fields>> : p \in {q \in Procs : rank[q] < NumWorkers}})

\* The answer under way to a process has the value of the root, or the QpInfo
\* of the other process.
AnswerInv(p) ==
  answer[p] # <<>> =>
    /\ pc[p] = "Broadcast" =>
         /\ answer[p] = <<BroadcastResponse_InternalSerialize(ValueMessage(value[Root]))>>
         /\ rank[p] < NumWorkers
    /\ pc[p] = "RdmaSession" =>
         answer[p] = <<RdmaSessionResponse_InternalSerialize(InfoMessage(info[1 - p]))>>

\* What a process has been given by the calls that it has behind it.
ReturnInv(p) ==
  /\ pc[p] \in {"RdmaSession", "done"} =>
       broadcasted_value[p] = value[Root] /\ rank[p] < NumWorkers
  /\ pc[p] \in {"Barrier", "Broadcast", "RdmaSession"} => remote_qp_infos[p] = <<>>
  /\ pc[p] = "done" => remote_qp_infos[p] = <<info[1 - p]>>

ClientInv ==
  /\ ClientTypeOK /\ SeenInv
  /\ \A p \in Procs : CallInv(p) /\ AnswerInv(p) /\ ReturnInv(p)

----------------------------------------------------------------------------
(* The messages that are sent are messages of their classes.               *)

\* The setters set all fields of a new message.
LEMMA FillAll ==
  ASSUME NEW names, NEW args, DOMAIN args = names, NEW table,
         \A name \in names : args[name] \in Nat /\ args[name] < Limit(name)
  PROVE  /\ IsMessage(Fill(ZeroMessage(names), args), table, names)
         /\ \A name \in names : Fill(ZeroMessage(names), args).fields[name] = args[name]
<1> DEFINE F == [name \in names |-> args[name]]
<1>1. Fill(ZeroMessage(names), args) = Message(F, <<>>)
  BY DEF Fill, ZeroMessage, Message
<1>2. F \in [names -> Nat] /\ \A name \in names : F[name] = args[name] OBVIOUS
<1> HIDE DEF F
<1>3. Message(F, <<>>).fields = F /\ Message(F, <<>>).unknown = <<>> BY DEF Message
<1>4. Message(F, <<>>) \in [fields : [names -> Nat], unknown : Seq((Nat \ {0}) \X Nat)]
  BY <1>2 DEF Message
<1>5. IsMessage(Message(F, <<>>), table, names)
  BY <1>2, <1>3, <1>4 DEF IsMessage
<1> QED BY <1>1, <1>2, <1>3, <1>5

LEMMA Widths ==
  /\ Limit("value") = Uint64 /\ Limit("mac") = Uint64 /\ Limit("raddr") = Uint64
  /\ Limit("gid_subnet") = Uint64 /\ Limit("gid_iface") = Uint64
  /\ Limit("session_id") = Uint32 /\ Limit("rank") = Uint32
  /\ Limit("num_workers") = Uint32 /\ Limit("root") = Uint32
  /\ Limit("ipv4") = Uint32 /\ Limit("rkey") = Uint32 /\ Limit("qpn") = Uint32
  /\ Limit("psn") = Uint32 /\ Limit("lid") = Uint32
BY DEF Limit, Wide

LEMMA BarrierMessageRead ==
  /\ MergeFromWire(BarrierRequest_table, BarrierRequest_SharedCtor,
                   BarrierRequest_InternalSerialize(BarrierMessage)) = BarrierMessage
<1> DEFINE args == [num_workers |-> NumWorkers]
<1>1. DOMAIN args = BarrierRequestNames BY DEF BarrierRequestNames
<1>2. \A name \in BarrierRequestNames : args[name] \in Nat /\ args[name] < Limit(name)
  BY Widths, ArgumentsAssumption DEF ArgumentsAssumption, BarrierRequestNames, NumWorkers
<1> HIDE DEF args
<1>3. BarrierMessage = Fill(ZeroMessage(BarrierRequestNames), args)
  BY BarrierRequestCtor, Zenon DEF BarrierMessage, args
<1>4. IsMessage(BarrierMessage, BarrierRequest_table, BarrierRequestNames)
  BY <1>1, <1>2, <1>3, FillAll
<1> QED BY <1>4, GeneratedRoundTrip

LEMMA BroadcastMessageRead ==
  ASSUME ClientTypeOK, NEW p \in Procs
  PROVE  /\ MergeFromWire(BroadcastRequest_table, BroadcastRequest_SharedCtor,
                          BroadcastRequest_InternalSerialize(BroadcastMessage(p)))
               = BroadcastMessage(p)
         /\ BroadcastMessage(p).fields["rank"] = rank[p]
         /\ BroadcastMessage(p).fields["root"] = Root
         /\ BroadcastMessage(p).fields["value"] = value[p]
<1> DEFINE args == BroadcastArgs(p)
<1>1. DOMAIN args = BroadcastRequestNames BY DEF BroadcastRequestNames, BroadcastArgs
<1>2. /\ args["rank"] = rank[p] /\ args["root"] = Root /\ args["value"] = value[p]
      /\ args["num_workers"] = NumWorkers
  BY DEF BroadcastArgs
<1>3. rank[p] \in 0 .. 2 /\ value[p] \in 0 .. Uint64 - 1
  BY ArgumentsAssumption DEF ArgumentsAssumption, ClientTypeOK
<1> HIDE DEF args
<1>4. \A name \in BroadcastRequestNames : args[name] \in Nat /\ args[name] < Limit(name)
  BY <1>2, <1>3, Widths, ArgumentsAssumption, WireAssumption
  DEF ArgumentsAssumption, WireAssumption, BroadcastRequestNames, NumWorkers, Root
<1>5. BroadcastMessage(p) = Fill(ZeroMessage(BroadcastRequestNames), args)
  BY BroadcastRequestCtor, Zenon DEF BroadcastMessage, args
<1>6. /\ IsMessage(BroadcastMessage(p), BroadcastRequest_table, BroadcastRequestNames)
      /\ \A name \in BroadcastRequestNames : BroadcastMessage(p).fields[name] = args[name]
  BY <1>1, <1>4, <1>5, FillAll
<1>7. {"rank", "root", "value"} \subseteq BroadcastRequestNames BY DEF BroadcastRequestNames
<1> QED BY <1>2, <1>6, <1>7, GeneratedRoundTrip

LEMMA ValueMessageRead ==
  ASSUME NEW v \in Values
  PROVE  MergeFromWire(BroadcastResponse_table, BroadcastResponse_SharedCtor,
                       BroadcastResponse_InternalSerialize(ValueMessage(v))).fields["value"] = v
<1>1. v \in 0 .. Uint64 - 1 BY ArgumentsAssumption DEF ArgumentsAssumption
<1> DEFINE args == [value |-> v]
<1>2. DOMAIN args = BroadcastResponseNames /\ args["value"] = v BY DEF BroadcastResponseNames
<1>3. ValueMessage(v) = Fill(ZeroMessage(BroadcastResponseNames), args)
  BY BroadcastResponseCtor
  DEF ValueMessage, BroadcastResponse_set, Fill, ZeroMessage, Message, BroadcastResponseNames
<1> HIDE DEF args
<1>4. \A name \in BroadcastResponseNames : args[name] \in Nat /\ args[name] < Limit(name)
  BY <1>1, <1>2, Widths, WireAssumption DEF WireAssumption, BroadcastResponseNames
<1>5. /\ IsMessage(ValueMessage(v), BroadcastResponse_table, BroadcastResponseNames)
      /\ \A name \in BroadcastResponseNames : ValueMessage(v).fields[name] = args[name]
  BY <1>2, <1>3, <1>4, FillAll
<1>6. "value" \in BroadcastResponseNames BY DEF BroadcastResponseNames
<1> QED BY <1>2, <1>5, <1>6, GeneratedRoundTrip

\* The members of a QpInfo.
LEMMA InfoMembers ==
  ASSUME NEW i \in Infos
  PROVE  /\ i.rkey \in 0 .. Uint32 - 1 /\ i.raddr \in 0 .. Uint64 - 1
         /\ i.qp_num \in 0 .. Uint32 - 1 /\ i.psn \in 0 .. Uint32 - 1
         /\ i.subnet_prefix \in 0 .. Uint64 - 1 /\ i.interface_id \in 0 .. Uint64 - 1
         /\ i.lid \in 0 .. Uint16 - 1
         /\ i = [rkey |-> i.rkey, raddr |-> i.raddr, qp_num |-> i.qp_num, psn |-> i.psn,
                 subnet_prefix |-> i.subnet_prefix, interface_id |-> i.interface_id,
                 lid |-> i.lid]
BY ArgumentsAssumption DEF ArgumentsAssumption

LEMMA SessionMessageRead ==
  ASSUME ClientTypeOK, NEW p \in Procs
  PROVE  /\ MergeFromWire(RdmaSessionRequest_table, RdmaSessionRequest_SharedCtor,
                          RdmaSessionRequest_InternalSerialize(SessionMessage(p)))
               = SessionMessage(p)
         /\ \A name \in RdmaSessionRequestNames :
              SessionMessage(p).fields[name] = RdmaSessionArgs(p)[name]
<1> DEFINE args == RdmaSessionArgs(p)
<1>1. DOMAIN args = RdmaSessionRequestNames BY DEF RdmaSessionRequestNames, RdmaSessionArgs
<1>2. /\ args["session_id"] = 1 /\ args["rank"] = rank[p] /\ args["num_workers"] = NumWorkers
      /\ args["root"] = rank[p] /\ args["mac"] = 0 /\ args["ipv4"] = 0
      /\ args["rkey"] = info[p].rkey /\ args["raddr"] = info[p].raddr
      /\ args["qpn"] = info[p].qp_num /\ args["psn"] = info[p].psn
      /\ args["gid_subnet"] = info[p].subnet_prefix
      /\ args["gid_iface"] = info[p].interface_id /\ args["lid"] = info[p].lid
  BY DEF RdmaSessionArgs
<1>3. rank[p] \in 0 .. 2 /\ info[p] \in Infos BY DEF ClientTypeOK
<1> HIDE DEF args
<1>4. \A name \in RdmaSessionRequestNames : args[name] \in Nat /\ args[name] < Limit(name)
  <2>1. PICK i \in Infos : i = info[p] BY <1>3
  <2> QED BY <1>2, <1>3, <2>1, InfoMembers, Widths, ArgumentsAssumption, WireAssumption
          DEF ArgumentsAssumption, WireAssumption, RdmaSessionRequestNames, NumWorkers
<1>5. SessionMessage(p) = Fill(ZeroMessage(RdmaSessionRequestNames), args)
  BY RdmaSessionRequestCtor, Zenon DEF SessionMessage, args
<1>6. /\ IsMessage(SessionMessage(p), RdmaSessionRequest_table, RdmaSessionRequestNames)
      /\ \A name \in RdmaSessionRequestNames : SessionMessage(p).fields[name] = args[name]
  BY <1>1, <1>4, <1>5, FillAll
<1>7. MergeFromWire(RdmaSessionRequest_table, RdmaSessionRequest_SharedCtor,
                    RdmaSessionRequest_InternalSerialize(SessionMessage(p))) = SessionMessage(p)
  BY <1>6, GeneratedRoundTrip
<1> QED BY <1>6, <1>7 DEF args

LEMMA InfoMessageRead ==
  ASSUME NEW i \in Infos
  PROVE  RemoteInfo(MergeFromWire(RdmaSessionResponse_table, RdmaSessionResponse_SharedCtor,
                                  RdmaSessionResponse_InternalSerialize(InfoMessage(i))).fields) = i
<1> DEFINE args == [rkey |-> i.rkey, raddr |-> i.raddr, qpn |-> i.qp_num, psn |-> i.psn,
                    gid_subnet |-> i.subnet_prefix, gid_iface |-> i.interface_id, lid |-> i.lid]
<1>1. DOMAIN args = RdmaSessionResponseNames BY DEF RdmaSessionResponseNames
<1>2. /\ args["rkey"] = i.rkey /\ args["raddr"] = i.raddr /\ args["qpn"] = i.qp_num
      /\ args["psn"] = i.psn /\ args["gid_subnet"] = i.subnet_prefix
      /\ args["gid_iface"] = i.interface_id /\ args["lid"] = i.lid
  OBVIOUS
<1>3. InfoMessage(i) = Fill(ZeroMessage(RdmaSessionResponseNames), args)
  BY RdmaSessionResponseCtor, Zenon DEF InfoMessage
<1> HIDE DEF args
<1>4. \A name \in RdmaSessionResponseNames : args[name] \in Nat /\ args[name] < Limit(name)
  BY <1>2, InfoMembers, Widths, WireAssumption DEF WireAssumption, RdmaSessionResponseNames
<1>5. /\ IsMessage(InfoMessage(i), RdmaSessionResponse_table, RdmaSessionResponseNames)
      /\ \A name \in RdmaSessionResponseNames : InfoMessage(i).fields[name] = args[name]
  BY <1>1, <1>3, <1>4, FillAll
<1>6. PICK r : r = InfoMessage(i).fields OBVIOUS
<1>7. /\ r["rkey"] = i.rkey /\ r["raddr"] = i.raddr /\ r["qpn"] = i.qp_num
      /\ r["psn"] = i.psn /\ r["gid_subnet"] = i.subnet_prefix
      /\ r["gid_iface"] = i.interface_id /\ r["lid"] = i.lid
  BY <1>2, <1>5, <1>6 DEF RdmaSessionResponseNames
<1>8. i.lid % Uint16 = i.lid BY InfoMembers, WireAssumption DEF WireAssumption
<1>9. RemoteInfo(r) = i BY <1>7, <1>8, InfoMembers DEF RemoteInfo
<1>10. MergeFromWire(RdmaSessionResponse_table, RdmaSessionResponse_SharedCtor,
                     RdmaSessionResponse_InternalSerialize(InfoMessage(i))) = InfoMessage(i)
  BY <1>5, GeneratedRoundTrip
<1> QED BY <1>6, <1>9, <1>10, Zenon

----------------------------------------------------------------------------
(* The invariant.                                                          *)

LEMMA ClientInit == Init => ClientInv
<1> SUFFICES ASSUME Init PROVE ClientInv OBVIOUS
<1>1. ClientTypeOK BY DEF Init, ClientTypeOK, Procs
<1>2. SeenInv
  <2>1. seen = [path \in Paths |-> <<>>] BY DEF Init
  <2>2. /\ seen["Sync/Barrier"] = <<>> /\ seen["Sync/Broadcast"] = <<>>
        /\ seen["Session/RdmaSession"] = <<>>
    BY <2>1 DEF Paths
  <2> QED BY <2>2 DEF SeenInv
<1>3. ASSUME NEW p \in Procs PROVE CallInv(p) /\ AnswerInv(p) /\ ReturnInv(p)
  BY <1>3 DEF Init, CallInv, AnswerInv, ReturnInv
<1> QED BY <1>1, <1>2, <1>3 DEF ClientInv

\* The messages are functions of the arguments, which no step changes.
LEMMA MessagesSame ==
  ASSUME UNCHANGED <<rank, value, info>>
  PROVE  /\ BarrierMessage' = BarrierMessage
         /\ \A p : BroadcastMessage(p)' = BroadcastMessage(p)
         /\ \A p : SessionMessage(p)' = SessionMessage(p)
<1>1. BarrierMessage' = BarrierMessage BY DEF BarrierMessage
<1>2. ASSUME NEW p PROVE BroadcastMessage(p)' = BroadcastMessage(p)
  <2>1. BroadcastArgs(p)' = BroadcastArgs(p) BY DEF BroadcastArgs
  <2> QED BY <2>1 DEF BroadcastMessage
<1>3. ASSUME NEW p PROVE SessionMessage(p)' = SessionMessage(p)
  <2>1. RdmaSessionArgs(p)' = RdmaSessionArgs(p) BY DEF RdmaSessionArgs
  <2> QED BY <2>1 DEF SessionMessage
<1> QED BY <1>1, <1>2, <1>3

\* What a step does not touch stays as it is.
LEMMA SeenSame ==
  ASSUME SeenInv, UNCHANGED <<rank, value, info, seen>>
  PROVE  SeenInv'
BY MessagesSame DEF SeenInv

LEMMA CallSame ==
  ASSUME NEW p \in Procs, CallInv(p), UNCHANGED <<rank, value, info>>,
         pc'[p] = pc[p], call'[p] = call[p]
  PROVE  CallInv(p)'
BY MessagesSame DEF CallInv

LEMMA AnswerSame ==
  ASSUME NEW p \in Procs, AnswerInv(p), UNCHANGED <<rank, value, info>>,
         pc'[p] = pc[p], answer'[p] = answer[p]
  PROVE  AnswerInv(p)'
BY DEF AnswerInv

LEMMA ReturnSame ==
  ASSUME NEW p \in Procs, ReturnInv(p), UNCHANGED <<rank, value, info>>,
         pc'[p] = pc[p], broadcasted_value'[p] = broadcasted_value[p],
         remote_qp_infos'[p] = remote_qp_infos[p]
  PROVE  ReturnInv(p)'
BY DEF ReturnInv

\* A process sends the request of the call it is at.
LEMMA SendKeepsInv ==
  ASSUME ClientInv, NEW p \in Procs,
         \/ Barrier(p)
         \/ Broadcast(p) /\ ArgumentsOk(rank[p])
         \/ RdmaSession(p)
  PROVE  ClientInv'
<1>1. /\ UNCHANGED <<pc, rank, value, info, seen, answer, broadcasted_value, remote_qp_infos>>
      /\ \E c : call' = [call EXCEPT ![p] = c]
  BY DEF Barrier, Broadcast, RdmaSession, Send
<1>2. ClientTypeOK' BY <1>1 DEF ClientInv, ClientTypeOK
<1>3. SeenInv' BY <1>1, SeenSame DEF ClientInv
<1>4. CallInv(p)'
  <2>1. DOMAIN call = Procs BY DEF ClientInv, ClientTypeOK
  <2>2. CASE Barrier(p)
    <3>1. /\ pc[p] = "Barrier"
          /\ call'[p] = <<[path |-> "Sync/Barrier",
                           wire |-> BarrierRequest_InternalSerialize(BarrierMessage)]>>
      BY <2>1, <2>2 DEF Barrier, Send, BarrierMessage, Stub_Barrier, Sync_method_names
    <3> QED BY <1>1, <3>1, MessagesSame DEF CallInv
  <2>3. CASE Broadcast(p) /\ ArgumentsOk(rank[p])
    <3>1. /\ pc[p] = "Broadcast" /\ rank[p] < NumWorkers
          /\ call'[p] = <<[path |-> "Sync/Broadcast",
                           wire |-> BroadcastRequest_InternalSerialize(BroadcastMessage(p))]>>
      BY <2>1, <2>3 DEF Broadcast, Send, BroadcastMessage, Stub_Broadcast, Sync_method_names, ArgumentsOk
    <3> QED BY <1>1, <3>1, MessagesSame DEF CallInv
  <2>4. CASE RdmaSession(p)
    <3>1. /\ pc[p] = "RdmaSession"
          /\ call'[p] = <<[path |-> "Session/RdmaSession",
                           wire |-> RdmaSessionRequest_InternalSerialize(SessionMessage(p))]>>
      BY <2>1, <2>4 DEF RdmaSession, Send, SessionMessage, Stub_RdmaSession, Session_method_names
    <3> QED BY <1>1, <3>1, MessagesSame DEF CallInv
  <2> QED BY <2>2, <2>3, <2>4
<1>5. ASSUME NEW q \in Procs PROVE CallInv(q)' /\ AnswerInv(q)' /\ ReturnInv(q)'
  <2>1. CallInv(q) /\ AnswerInv(q) /\ ReturnInv(q) BY DEF ClientInv
  <2>2. AnswerInv(q)' /\ ReturnInv(q)' BY <1>1, <2>1, AnswerSame, ReturnSame
  <2>3. q # p => call'[q] = call[q] BY <1>1 DEF ClientInv, ClientTypeOK
  <2> QED BY <1>1, <1>4, <2>1, <2>2, <2>3, CallSame
<1> QED BY <1>2, <1>3, <1>5 DEF ClientInv

\* A process ends: Broadcast refuses its rank, or a call has failed.
LEMMA AbortKeepsInv ==
  ASSUME ClientInv, NEW p \in Procs, Abort(p)
  PROVE  ClientInv'
<1>1. /\ UNCHANGED <<rank, value, info, seen, answer, broadcasted_value, remote_qp_infos>>
      /\ pc' = [pc EXCEPT ![p] = "aborted"] /\ call' = [call EXCEPT ![p] = <<>>]
  BY DEF Abort
<1>2. ClientTypeOK' BY <1>1 DEF ClientInv, ClientTypeOK
<1>3. SeenInv' BY <1>1, SeenSame DEF ClientInv
<1>4. pc'[p] = "aborted" /\ call'[p] = <<>> BY <1>1 DEF ClientInv, ClientTypeOK
<1>5. ASSUME NEW q \in Procs PROVE CallInv(q)' /\ AnswerInv(q)' /\ ReturnInv(q)'
  <2>1. CallInv(q) /\ AnswerInv(q) /\ ReturnInv(q) BY DEF ClientInv
  <2>2. CASE q = p BY <1>4, <2>2 DEF CallInv, AnswerInv, ReturnInv
  <2>3. CASE q # p
    <3>1. pc'[q] = pc[q] /\ call'[q] = call[q] BY <1>1, <2>3 DEF ClientInv, ClientTypeOK
    <3> QED BY <1>1, <2>1, <3>1, CallSame, AnswerSame, ReturnSame
  <2> QED BY <2>2, <2>3
<1> QED BY <1>2, <1>3, <1>5 DEF ClientInv

\* What the controller understands is what the process has passed.
LEMMA ParsedIsSent ==
  ASSUME ClientInv, NEW p \in Procs, call[p] # <<>>
  PROVE  \/ /\ call[p][1].path = "Sync/Barrier"
            /\ ParsedRequest(call[p][1].path, call[p][1].wire) = BarrierMessage.fields
         \/ /\ call[p][1].path = "Sync/Broadcast"
            /\ ParsedRequest(call[p][1].path, call[p][1].wire) = BroadcastMessage(p).fields
         \/ /\ call[p][1].path = "Session/RdmaSession" /\ rank[p] < NumWorkers
            /\ ParsedRequest(call[p][1].path, call[p][1].wire) = SessionMessage(p).fields
<1>1. CallInv(p) /\ ReturnInv(p) /\ ClientTypeOK BY DEF ClientInv
<1> DEFINE Wire1 == BarrierRequest_InternalSerialize(BarrierMessage)
           Wire2 == BroadcastRequest_InternalSerialize(BroadcastMessage(p))
           Wire3 == RdmaSessionRequest_InternalSerialize(SessionMessage(p))
<1>2. /\ ParsedRequest("Sync/Barrier", Wire1) = BarrierMessage.fields
      /\ ParsedRequest("Sync/Broadcast", Wire2) = BroadcastMessage(p).fields
      /\ ParsedRequest("Session/RdmaSession", Wire3) = SessionMessage(p).fields
  BY <1>1, BarrierMessageRead, BroadcastMessageRead, SessionMessageRead DEF ParsedRequest
<1> HIDE DEF Wire1, Wire2, Wire3
<1>3. \/ call[p] = <<[path |-> "Sync/Barrier", wire |-> Wire1]>>
      \/ call[p] = <<[path |-> "Sync/Broadcast", wire |-> Wire2]>>
      \/ call[p] = <<[path |-> "Session/RdmaSession", wire |-> Wire3]>> /\ rank[p] < NumWorkers
  BY <1>1 DEF CallInv, ReturnInv, Wire1, Wire2, Wire3
<1>4. \/ call[p][1].path = "Sync/Barrier" /\ call[p][1].wire = Wire1
      \/ call[p][1].path = "Sync/Broadcast" /\ call[p][1].wire = Wire2
      \/ /\ call[p][1].path = "Session/RdmaSession" /\ call[p][1].wire = Wire3
         /\ rank[p] < NumWorkers
  BY <1>3
<1> QED BY <1>2, <1>4, Zenon

\* The controller parses a request.
LEMMA HandleKeepsInv ==
  ASSUME ClientInv, NEW p \in Procs, Handle(p)
  PROVE  ClientInv'
<1>1. PICK path : path = call[p][1].path OBVIOUS
<1>2. PICK r : r = ParsedRequest(call[p][1].path, call[p][1].wire) OBVIOUS
<1>3. /\ UNCHANGED <<pc, rank, value, info, call, answer, broadcasted_value, remote_qp_infos>>
      /\ call[p] # <<>>
      /\ seen' = [seen EXCEPT ![path] = Append(@, <<p, r>>)]
  BY <1>1, <1>2 DEF Handle
<1>4. \/ path = "Sync/Barrier" /\ r = BarrierMessage.fields
      \/ path = "Sync/Broadcast" /\ r = BroadcastMessage(p).fields
      \/ path = "Session/RdmaSession" /\ r = SessionMessage(p).fields /\ rank[p] < NumWorkers
  BY <1>1, <1>2, <1>3, ParsedIsSent
<1>5. DOMAIN seen = Paths BY DEF ClientInv, ClientTypeOK
<1>6. ClientTypeOK' BY <1>3 DEF ClientInv, ClientTypeOK
<1>7. SeenInv'
  <2> DEFINE S1 == {<<q, BarrierMessage.fields>> : q \in Procs}
             S2 == {<<q, BroadcastMessage(q).fields>> : q \in Procs}
             S3 == {<<q, SessionMessage(q).fields>> : q \in {v \in Procs : rank[v] < NumWorkers}}
  <2>1. /\ seen["Sync/Barrier"] \in Seq(S1) /\ seen["Sync/Broadcast"] \in Seq(S2)
        /\ seen["Session/RdmaSession"] \in Seq(S3)
    BY DEF ClientInv, SeenInv
  <2>2. S1' = S1 /\ S2' = S2 /\ S3' = S3 BY <1>3, MessagesSame
  <2>3. /\ path = "Sync/Barrier" => <<p, r>> \in S1
        /\ path = "Sync/Broadcast" => <<p, r>> \in S2
        /\ path = "Session/RdmaSession" => <<p, r>> \in S3
    BY <1>4
  <2>4. /\ seen'["Sync/Barrier"] \in Seq(S1)' /\ seen'["Sync/Broadcast"] \in Seq(S2)'
        /\ seen'["Session/RdmaSession"] \in Seq(S3)'
    <3> HIDE DEF S1, S2, S3
    <3>1. PICK e : e = <<p, r>> OBVIOUS
    <3>2. /\ seen'["Sync/Barrier"] = IF path = "Sync/Barrier" THEN Append(seen["Sync/Barrier"], e)
                                                              ELSE seen["Sync/Barrier"]
          /\ seen'["Sync/Broadcast"] = IF path = "Sync/Broadcast" THEN Append(seen["Sync/Broadcast"], e)
                                                                  ELSE seen["Sync/Broadcast"]
          /\ seen'["Session/RdmaSession"] =
               IF path = "Session/RdmaSession" THEN Append(seen["Session/RdmaSession"], e)
                                               ELSE seen["Session/RdmaSession"]
      BY <1>3, <1>5, <3>1 DEF Paths
    <3> QED BY <2>1, <2>2, <2>3, <3>1, <3>2, AppendProperties
  <2> QED BY <2>4 DEF SeenInv
<1>8. ASSUME NEW q \in Procs PROVE CallInv(q)' /\ AnswerInv(q)' /\ ReturnInv(q)'
  <2>1. CallInv(q) /\ AnswerInv(q) /\ ReturnInv(q) BY DEF ClientInv
  <2> QED BY <1>3, <2>1, CallSame, AnswerSame, ReturnSame
<1> QED BY <1>6, <1>7, <1>8 DEF ClientInv

\* The requests on each path, and which of them a process is answered with.
LEMMA ElementOfRange ==
  ASSUME NEW S, NEW s \in Seq(S), NEW e \in Range(s)
  PROVE  e \in S
<1>1. \E k \in DOMAIN s : e = s[k] BY DEF Range
<1>2. DOMAIN s = 1 .. Len(s) /\ \A k \in 1 .. Len(s) : s[k] \in S
  BY ElementOfSeq, LenProperties
<1> QED BY <1>1, <1>2

LEMMA RootValue ==
  ASSUME ClientInv, NEW r \in Requests("Sync/Broadcast"), r.rank = r.root
  PROVE  r.value = value[Root]
<1> DEFINE S2 == {<<q, BroadcastMessage(q).fields>> : q \in Procs}
<1>1. seen["Sync/Broadcast"] \in Seq(S2) BY DEF ClientInv, SeenInv
<1>2. PICK e \in Range(seen["Sync/Broadcast"]) : r = e[2] BY DEF Requests
<1> HIDE DEF S2
<1>3. e \in S2 BY <1>1, <1>2, ElementOfRange
<1>4. PICK q \in Procs : r = BroadcastMessage(q).fields BY <1>2, <1>3 DEF S2
<1>5. r["rank"] = rank[q] /\ r["root"] = Root /\ r["value"] = value[q]
  BY <1>4, BroadcastMessageRead DEF ClientInv
<1>6. q = Root BY <1>5 DEF ClientInv, ClientTypeOK, Procs, Root
<1> QED BY <1>5, <1>6

\* The fields of what a process has passed to RdmaSession.
LEMMA SessionFields ==
  ASSUME ClientTypeOK, NEW q \in Procs, NEW r, r = SessionMessage(q).fields
  PROVE  /\ r.root = rank[q]
         /\ r.rkey = info[q].rkey /\ r.raddr = info[q].raddr /\ r.qpn = info[q].qp_num
         /\ r.psn = info[q].psn /\ r.gid_subnet = info[q].subnet_prefix
         /\ r.gid_iface = info[q].interface_id /\ r.lid = info[q].lid
<1>1. \A name \in RdmaSessionRequestNames : r[name] = RdmaSessionArgs(q)[name]
  BY SessionMessageRead
<1> QED BY <1>1 DEF RdmaSessionRequestNames, RdmaSessionArgs

LEMMA PeerRequest ==
  ASSUME ClientInv, NEW p \in Procs, Handling(p, "Session/RdmaSession"),
         NEW r \in Requests("Session/RdmaSession"),
         (r.root = 1) = (Request(p, "Session/RdmaSession").root # 1)
  PROVE  r = SessionMessage(1 - p).fields
<1> DEFINE S3 == {<<q, SessionMessage(q).fields>> : q \in {v \in Procs : rank[v] < NumWorkers}}
           R == Range(seen["Session/RdmaSession"])
<1>1. seen["Session/RdmaSession"] \in Seq(S3) BY DEF ClientInv, SeenInv
<1>2. PICK e \in R : r = e[2] BY DEF Requests
<1> HIDE DEF S3
<1>3. R \subseteq S3 BY <1>1, ElementOfRange
<1>4. PICK mine \in R : mine[1] = p /\ Request(p, "Session/RdmaSession") = mine[2]
  BY DEF Handling, Request
<1> HIDE DEF R
<1>5. PICK q \in Procs : r = SessionMessage(q).fields /\ rank[q] < NumWorkers
  BY <1>2, <1>3 DEF S3
<1>6. Request(p, "Session/RdmaSession") = SessionMessage(p).fields /\ rank[p] < NumWorkers
  BY <1>3, <1>4 DEF S3
<1>7. r.root = rank[q] /\ Request(p, "Session/RdmaSession").root = rank[p]
  BY <1>5, <1>6, SessionFields DEF ClientInv
<1>8. q = 1 - p
  <2>1. rank \in [Procs -> 0 .. 2] /\ rank[0] = 0 /\ rank[1] # 0 BY DEF ClientInv, ClientTypeOK
  <2>2. (rank[q] = 1) = (rank[p] # 1) BY <1>7
  <2>3. p \in {0, 1} /\ q \in {0, 1} /\ rank[p] < 2 /\ rank[q] < 2
    BY <1>5, <1>6 DEF Procs, NumWorkers
  <2> QED BY <2>1, <2>2, <2>3 DEF Procs
<1> QED BY <1>5, <1>8

\* The controller answers a request.
LEMMA ReplyKeepsInv ==
  ASSUME ClientInv, NEW p \in Procs,
         BarrierReply(p) \/ BroadcastReply(p) \/ SessionReply(p)
  PROVE  ClientInv'
<1>1. /\ UNCHANGED <<pc, rank, value, info, call, seen, broadcasted_value, remote_qp_infos>>
      /\ \E w : answer' = [answer EXCEPT ![p] = w]
  BY DEF BarrierReply, BroadcastReply, SessionReply, Reply
<1>2. ClientTypeOK /\ CallInv(p) /\ DOMAIN answer = Procs BY DEF ClientInv, ClientTypeOK
<1>3. ClientTypeOK' BY <1>1, <1>2 DEF ClientTypeOK
<1>4. SeenInv' BY <1>1, SeenSame DEF ClientInv
<1>5. ASSUME NEW path, Handling(p, path)
      PROVE  /\ path = "Sync/Barrier" => pc[p] = "Barrier"
             /\ path = "Sync/Broadcast" => pc[p] = "Broadcast" /\ rank[p] < NumWorkers
             /\ path = "Session/RdmaSession" => pc[p] = "RdmaSession"
  BY <1>2, <1>5 DEF Handling, CallInv
<1>6. AnswerInv(p)'
  <2>1. CASE BarrierReply(p)
    <3>1. pc'[p] = "Barrier" BY <1>1, <1>5, <2>1 DEF BarrierReply
    <3> QED BY <3>1 DEF AnswerInv
  <2>2. CASE BroadcastReply(p)
    <3>1. Handling(p, "Sync/Broadcast") BY <2>2 DEF BroadcastReply
    <3>2. pc'[p] = "Broadcast" /\ rank'[p] < NumWorkers BY <1>1, <1>5, <3>1
    <3>3. PICK r \in Requests("Sync/Broadcast") :
            /\ r.rank = r.root
            /\ answer' = [answer EXCEPT ![p] =
                 <<BroadcastResponse_InternalSerialize(ValueMessage(r.value))>>]
      BY <2>2 DEF BroadcastReply, Reply, ValueMessage
    <3>4. r.value = value[Root] BY <3>3, RootValue
    <3>5. answer'[p] = <<BroadcastResponse_InternalSerialize(ValueMessage(value'[Root]))>>
      BY <1>1, <1>2, <3>3, <3>4
    <3> QED BY <3>2, <3>5 DEF AnswerInv
  <2>3. CASE SessionReply(p)
    <3>1. Handling(p, "Session/RdmaSession") BY <2>3 DEF SessionReply
    <3>2. pc'[p] = "RdmaSession" BY <1>1, <1>5, <3>1
    <3>3. PICK r \in Requests("Session/RdmaSession") :
            /\ (r.root = 1) = (Request(p, "Session/RdmaSession").root # 1)
            /\ answer' = [answer EXCEPT ![p] =
                 <<RdmaSessionResponse_InternalSerialize(
                     Fill(RdmaSessionResponse_SharedCtor,
                          [rkey |-> r.rkey, raddr |-> r.raddr, qpn |-> r.qpn,
                           psn |-> r.psn, gid_subnet |-> r.gid_subnet,
                           gid_iface |-> r.gid_iface, lid |-> r.lid]))>>]
      BY <2>3 DEF SessionReply, Reply
    <3>4. 1 - p \in Procs BY DEF Procs
    <3>5. r = SessionMessage(1 - p).fields BY <3>1, <3>3, PeerRequest
    <3>6. /\ r.rkey = info[1 - p].rkey /\ r.raddr = info[1 - p].raddr
          /\ r.qpn = info[1 - p].qp_num /\ r.psn = info[1 - p].psn
          /\ r.gid_subnet = info[1 - p].subnet_prefix
          /\ r.gid_iface = info[1 - p].interface_id /\ r.lid = info[1 - p].lid
      BY <1>2, <3>4, <3>5, SessionFields
    <3>7. Fill(RdmaSessionResponse_SharedCtor,
               [rkey |-> r.rkey, raddr |-> r.raddr, qpn |-> r.qpn,
                psn |-> r.psn, gid_subnet |-> r.gid_subnet,
                gid_iface |-> r.gid_iface, lid |-> r.lid]) = InfoMessage(info[1 - p])
      BY <3>6, Zenon DEF InfoMessage
    <3>8. answer'[p] = <<RdmaSessionResponse_InternalSerialize(InfoMessage(info[1 - p]))>>
      BY <1>2, <3>3, <3>7
    <3>9. info' = info BY <1>1
    <3>10. answer'[p] = <<RdmaSessionResponse_InternalSerialize(InfoMessage(info'[1 - p]))>>
      BY <3>8, <3>9
    <3> QED BY <3>2, <3>10 DEF AnswerInv
  <2> QED BY <2>1, <2>2, <2>3
<1>7. ASSUME NEW q \in Procs PROVE CallInv(q)' /\ AnswerInv(q)' /\ ReturnInv(q)'
  <2>1. CallInv(q) /\ AnswerInv(q) /\ ReturnInv(q) BY DEF ClientInv
  <2>2. CallInv(q)' /\ ReturnInv(q)' BY <1>1, <2>1, CallSame, ReturnSame
  <2>3. q # p => answer'[q] = answer[q] BY <1>1, <1>2
  <2> QED BY <1>1, <1>6, <2>1, <2>2, <2>3, AnswerSame
<1> QED BY <1>3, <1>4, <1>7 DEF ClientInv

\* A process gets its answer.
LEMMA ReturnKeepsInv ==
  ASSUME ClientInv, NEW p \in Procs,
         BarrierReturn(p) \/ BroadcastReturn(p) \/ SessionReturn(p)
  PROVE  ClientInv'
<1>1. /\ UNCHANGED <<rank, value, info, seen>>
      /\ call' = [call EXCEPT ![p] = <<>>] /\ answer' = [answer EXCEPT ![p] = <<>>]
      /\ \E next \in {"Broadcast", "RdmaSession", "done"} : pc' = [pc EXCEPT ![p] = next]
      /\ DOMAIN broadcasted_value' = DOMAIN broadcasted_value
      /\ \A q \in DOMAIN broadcasted_value \ {p} : broadcasted_value'[q] = broadcasted_value[q]
      /\ DOMAIN remote_qp_infos' = DOMAIN remote_qp_infos
      /\ \A q \in DOMAIN remote_qp_infos \ {p} : remote_qp_infos'[q] = remote_qp_infos[q]
  BY DEF BarrierReturn, BroadcastReturn, SessionReturn, Receive
<1>2. ClientTypeOK BY DEF ClientInv
<1>3. ClientTypeOK' BY <1>1, <1>2 DEF ClientTypeOK
<1>4. SeenInv' BY <1>1, SeenSame DEF ClientInv
<1>5. call'[p] = <<>> /\ answer'[p] = <<>> BY <1>1, <1>2 DEF ClientTypeOK
<1>6. ReturnInv(p)'
  <2>0. AnswerInv(p) /\ ReturnInv(p) BY DEF ClientInv
  <2>1. CASE BarrierReturn(p)
    <3>1. pc'[p] = "Broadcast" /\ remote_qp_infos'[p] = <<>>
      BY <1>2, <2>0, <2>1 DEF BarrierReturn, Receive, ClientTypeOK, ReturnInv
    <3> QED BY <3>1 DEF ReturnInv
  <2>2. CASE BroadcastReturn(p)
    <3>1. /\ pc'[p] = "RdmaSession" /\ remote_qp_infos'[p] = <<>>
          /\ pc[p] = "Broadcast" /\ answer[p] # <<>>
      BY <1>2, <2>0, <2>2 DEF BroadcastReturn, Receive, ClientTypeOK, ReturnInv
    <3>2. /\ answer[p] = <<BroadcastResponse_InternalSerialize(ValueMessage(value[Root]))>>
          /\ rank[p] < NumWorkers
      BY <2>0, <3>1 DEF AnswerInv
    <3>3. broadcasted_value'[p] =
            MergeFromWire(BroadcastResponse_table, BroadcastResponse_SharedCtor,
                          answer[p][1]).fields["value"]
      BY <1>2, <2>2 DEF BroadcastReturn, ClientTypeOK
    <3>4. value[Root] \in Values BY <1>2 DEF ClientTypeOK, Procs, Root
    <3>5. answer[p][1] = BroadcastResponse_InternalSerialize(ValueMessage(value[Root])) BY <3>2
    <3>6. broadcasted_value'[p] = value[Root] BY <3>3, <3>4, <3>5, ValueMessageRead
    <3> QED BY <1>1, <3>1, <3>2, <3>6 DEF ReturnInv
  <2>3. CASE SessionReturn(p)
    <3>1. /\ pc'[p] = "done" /\ pc[p] = "RdmaSession" /\ answer[p] # <<>>
          /\ broadcasted_value' = broadcasted_value
      BY <1>2, <2>3 DEF SessionReturn, Receive, ClientTypeOK
    <3>2. /\ remote_qp_infos[p] = <<>> /\ broadcasted_value[p] = value[Root]
          /\ rank[p] < NumWorkers
          /\ answer[p] = <<RdmaSessionResponse_InternalSerialize(InfoMessage(info[1 - p]))>>
      BY <2>0, <3>1 DEF ReturnInv, AnswerInv
    <3>3. answer[p][1] = RdmaSessionResponse_InternalSerialize(InfoMessage(info[1 - p])) BY <3>2
    <3>4. info[1 - p] \in Infos
      <4>1. 1 - p \in Procs BY DEF Procs
      <4> QED BY <1>2, <4>1 DEF ClientTypeOK
    <3>5. remote_qp_infos'[p] = Append(remote_qp_infos[p],
            RemoteInfo(MergeFromWire(RdmaSessionResponse_table, RdmaSessionResponse_SharedCtor,
                                     answer[p][1]).fields))
      BY <1>2, <2>3 DEF SessionReturn, ClientTypeOK
    <3>6. RemoteInfo(MergeFromWire(RdmaSessionResponse_table, RdmaSessionResponse_SharedCtor,
                                   answer[p][1]).fields) = info[1 - p]
      BY <3>3, <3>4, InfoMessageRead
    <3>7. remote_qp_infos'[p] = <<info[1 - p]>>
      <4>1. PICK i : i = info[1 - p] OBVIOUS
      <4>2. Append(<<>>, i) = <<i>> OBVIOUS
      <4> QED BY <3>2, <3>5, <3>6, <4>1, <4>2, Zenon
    <3> QED BY <1>1, <3>1, <3>2, <3>7 DEF ReturnInv
  <2> QED BY <2>1, <2>2, <2>3
<1>7. ASSUME NEW q \in Procs PROVE CallInv(q)' /\ AnswerInv(q)' /\ ReturnInv(q)'
  <2>1. CallInv(q) /\ AnswerInv(q) /\ ReturnInv(q) BY DEF ClientInv
  <2>2. CASE q = p BY <1>5, <1>6, <2>2 DEF CallInv, AnswerInv
  <2>3. CASE q # p
    <3>1. /\ pc'[q] = pc[q] /\ call'[q] = call[q] /\ answer'[q] = answer[q]
          /\ broadcasted_value'[q] = broadcasted_value[q]
          /\ remote_qp_infos'[q] = remote_qp_infos[q]
      BY <1>1, <1>2, <2>3 DEF ClientTypeOK
    <3> QED BY <1>1, <2>1, <3>1, CallSame, AnswerSame, ReturnSame
  <2> QED BY <2>2, <2>3
<1> QED BY <1>3, <1>4, <1>7 DEF ClientInv

LEMMA ClientStep == ClientInv /\ [Next]_vars => ClientInv'
<1> SUFFICES ASSUME ClientInv, [Next]_vars PROVE ClientInv' OBVIOUS
<1>1. CASE UNCHANGED vars
  <2>1. UNCHANGED <<pc, rank, value, info, call, seen, answer, broadcasted_value, remote_qp_infos>>
    BY <1>1 DEF vars
  <2>2. ClientTypeOK' /\ SeenInv' BY <2>1, SeenSame DEF ClientInv, ClientTypeOK
  <2>3. ASSUME NEW q \in Procs PROVE CallInv(q)' /\ AnswerInv(q)' /\ ReturnInv(q)'
    BY <2>1, CallSame, AnswerSame, ReturnSame DEF ClientInv
  <2> QED BY <2>2, <2>3 DEF ClientInv
<1>2. ASSUME NEW p \in Procs, ProcStep(p) PROVE ClientInv'
  <2>1. CASE Barrier(p) \/ RdmaSession(p) BY <2>1, SendKeepsInv
  <2>2. CASE Broadcast(p)
    <3>1. CASE ArgumentsOk(rank[p]) BY <2>2, <3>1, SendKeepsInv
    <3>2. CASE ~ArgumentsOk(rank[p]) BY <2>2, <3>2, AbortKeepsInv DEF Broadcast
    <3> QED BY <3>1, <3>2
  <2>3. CASE Handle(p) BY <2>3, HandleKeepsInv
  <2>4. CASE BarrierReply(p) \/ BroadcastReply(p) \/ SessionReply(p) BY <2>4, ReplyKeepsInv
  <2>5. CASE BarrierReturn(p) \/ BroadcastReturn(p) \/ SessionReturn(p) BY <2>5, ReturnKeepsInv
  <2> QED BY <1>2, <2>1, <2>2, <2>3, <2>4, <2>5 DEF ProcStep
<1>3. ASSUME NEW p \in Procs, CallFails(p) PROVE ClientInv'
  BY <1>3, AbortKeepsInv DEF CallFails
<1> QED BY <1>1, <1>2, <1>3 DEF Next

\* The inductive invariant: what is on its way between a process and the
\* controller, and what the controller has understood, are functions of the
\* arguments of the two processes.
THEOREM ClientInvariant == Spec => []ClientInv
<1>1. QED BY ClientInit, ClientStep, PTL DEF Spec

\* Once RdmaSession has returned, remote_qp_infos of grpc_test.cc holds the
\* QpInfo of the other process in every field, for all QpInfos and all widths
\* of the integers, whichever calls fail.
THEOREM PeerInfoAlwaysExact == Spec => []PeerInfoExact
<1>1. ClientInv => PeerInfoExact BY DEF ClientInv, ReturnInv, PeerInfoExact
<1>2. QED BY <1>1, ClientInvariant, PTL

\* Once Broadcast has returned, each process has the argument of the root, for
\* all values, zero (which is not on the wire) included.
THEOREM BroadcastValueAlwaysExact == Spec => []BroadcastValueExact
<1>1. ClientInv => BroadcastValueExact BY DEF ClientInv, ReturnInv, BroadcastValueExact
<1>2. QED BY <1>1, ClientInvariant, PTL
=============================================================================
