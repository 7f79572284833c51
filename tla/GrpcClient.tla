----------------------------- MODULE GrpcClient -----------------------------
(***************************************************************************)
(* gRPCClient of src/csrc/grpc_client.cc, used by the two processes of      *)
(* grpc_test.cc: what they pass to Barrier, Broadcast and RdmaSession is    *)
(* put in generated messages, goes over the wire under the names of the     *)
(* generated stubs, and comes out of the response of the controller.        *)
(*                                                                          *)
(* How the handlers of the controller wait for each other is the subject of *)
(* module Controller.  Here they answer as they do there in the first round *)
(* of a new controller: a session that is looked up too early is a call     *)
(* that fails.                                                              *)
(***************************************************************************)
EXTENDS FlashreduceMessages

CONSTANTS
  Infos,    \* QpInfo of a queue pair
  Values    \* values to broadcast

Procs == {0, 1}
NumWorkers == 2   \* in grpc_test.cc
Root == 0

\* The members of QpInfo and the arguments have their types in the code, whose
\* integers hold the ranks and the number of workers.
ASSUME ArgumentsAssumption ==
  /\ NumWorkers < Uint32
  /\ Values \subseteq 0 .. Uint64 - 1
  /\ Infos \subseteq [rkey : 0 .. Uint32 - 1, raddr : 0 .. Uint64 - 1,
                      qp_num : 0 .. Uint32 - 1, psn : 0 .. Uint32 - 1,
                      subnet_prefix : 0 .. Uint64 - 1,
                      interface_id : 0 .. Uint64 - 1, lid : 0 .. Uint16 - 1]

VARIABLES
  pc,         \* the call a process makes next; "done", "aborted"
  rank,       \* the argument of each process
  value, info,
  call,       \* the request a process waits for an answer to
  seen,       \* requests of each process the controller has parsed, by path
  answer,     \* the response on its way to each process
  broadcasted_value,
  remote_qp_infos

vars == <<pc, rank, value, info, call, seen, answer, broadcasted_value,
          remote_qp_infos>>

----------------------------------------------------------------------------
(* The stubs.                                                              *)

Sync_method_names == <<"Sync/Barrier", "Sync/Broadcast">>
Session_method_names == <<"Session/RdmaSession">>

Stub_Barrier == Sync_method_names[1]
Stub_Broadcast == Sync_method_names[2]
Stub_RdmaSession == Session_method_names[1]

\* The names the controller has registered its handlers under.
Paths == {"Sync/Barrier", "Sync/Broadcast", "Session/RdmaSession"}

Init ==
  /\ pc = [p \in Procs |-> "Barrier"]
  /\ rank \in {[p \in Procs |-> p], [p \in Procs |-> 2 * p]}
  /\ value \in [Procs -> Values]
  /\ info \in [Procs -> Infos]
  /\ call = [p \in Procs |-> <<>>]
  /\ seen = [path \in Paths |-> <<>>]
  /\ answer = [p \in Procs |-> <<>>]
  /\ broadcasted_value = [p \in Procs |-> 0]
  /\ remote_qp_infos = [p \in Procs |-> <<>>]

----------------------------------------------------------------------------
(* The calls.                                                              *)

\* A message after the setters have been called, each with its member of args.
Fill(m, args) ==
  [m EXCEPT !.fields = [name \in DOMAIN @ |-> IF name \in DOMAIN args THEN args[name] ELSE @[name]]]

\* BlockingUnaryCall: the request is serialized and sent.
Send(p, name, path, wire) ==
  /\ pc[p] = name
  /\ call[p] = <<>>
  /\ call' = [call EXCEPT ![p] = <<[path |-> path, wire |-> wire]>>]
  /\ UNCHANGED <<pc, rank, value, info, seen, answer, broadcasted_value,
                 remote_qp_infos>>

Barrier(p) ==
  Send(p, "Barrier", Stub_Barrier,
       BarrierRequest_InternalSerialize(
         Fill(BarrierRequest_SharedCtor,
              [num_workers |-> NumWorkers])))

\* CHECK_GT and the two CHECK_LT.
ArgumentsOk(r) == NumWorkers > 0 /\ r < NumWorkers /\ Root < NumWorkers

Abort(p) ==
  /\ pc' = [pc EXCEPT ![p] = "aborted"]
  /\ call' = [call EXCEPT ![p] = <<>>]
  /\ UNCHANGED <<rank, value, info, seen, answer, broadcasted_value,
                 remote_qp_infos>>

\* Mutant: the value is left at its default.
ValueNotSet(p) ==
  [rank |-> rank[p], num_workers |-> NumWorkers, root |-> Root]

BroadcastArgs(p) ==
  [value |-> value[p], rank |-> rank[p], num_workers |-> NumWorkers,
   root |-> Root]

Broadcast(p) ==
  \/ /\ ArgumentsOk(rank[p])
     /\ Send(p, "Broadcast", Stub_Broadcast,
             BroadcastRequest_InternalSerialize(
               Fill(BroadcastRequest_SharedCtor,
                    BroadcastArgs(p))))
  \/ /\ pc[p] = "Broadcast" /\ call[p] = <<>>
     /\ ~ArgumentsOk(rank[p])
     /\ Abort(p)

\* Mutant: the rank of the root is passed for the root flag.
RootForFlag(p) ==
  [session_id |-> 1, rank |-> rank[p], num_workers |-> NumWorkers,
   root |-> Root, rkey |-> info[p].rkey, raddr |-> info[p].raddr]

\* grpc_test.cc passes session 1, no MAC and IP address, and its rank as the
\* root flag.
RdmaSessionArgs(p) ==
  [session_id |-> 1, rank |-> rank[p], num_workers |-> NumWorkers,
   root |-> rank[p], mac |-> 0, ipv4 |-> 0, rkey |-> info[p].rkey,
   raddr |-> info[p].raddr, qpn |-> info[p].qp_num, psn |-> info[p].psn,
   gid_subnet |-> info[p].subnet_prefix, gid_iface |-> info[p].interface_id,
   lid |-> info[p].lid]

RdmaSession(p) ==
  Send(p, "RdmaSession", Stub_RdmaSession,
       RdmaSessionRequest_InternalSerialize(
         Fill(RdmaSessionRequest_SharedCtor,
              RdmaSessionArgs(p))))

----------------------------------------------------------------------------
(* The controller.                                                         *)

ParsedRequest(path, wire) ==
  IF path = "Sync/Barrier"
  THEN MergeFromWire(BarrierRequest_table, BarrierRequest_SharedCtor, wire).fields
  ELSE IF path = "Sync/Broadcast"
  THEN MergeFromWire(BroadcastRequest_table, BroadcastRequest_SharedCtor, wire).fields
  ELSE MergeFromWire(RdmaSessionRequest_table, RdmaSessionRequest_SharedCtor, wire).fields

\* The requests the controller has seen on a path.
Requests(path) == {s[2] : s \in Range(seen[path])}

Handle(p) ==
  /\ call[p] # <<>>
  /\ LET c == call[p][1] IN
     /\ \A s \in Range(seen[c.path]) : s[1] # p
     /\ seen' = [seen EXCEPT ![c.path] =
                   Append(@, <<p, ParsedRequest(c.path, c.wire)>>)]
  /\ UNCHANGED <<pc, rank, value, info, call, answer, broadcasted_value,
                 remote_qp_infos>>

Reply(p, wire) ==
  /\ answer' = [answer EXCEPT ![p] = <<wire>>]
  /\ UNCHANGED <<pc, rank, value, info, call, seen, broadcasted_value,
                 remote_qp_infos>>

\* The request of p that is being handled on this path.
Handling(p, path) ==
  /\ call[p] # <<>> /\ answer[p] = <<>>
  /\ call[p][1].path = path
  /\ \E s \in Range(seen[path]) : s[1] = p

Request(p, path) == (CHOOSE s \in Range(seen[path]) : s[1] = p)[2]

BarrierReply(p) ==
  /\ Handling(p, "Sync/Barrier")
  /\ Len(seen["Sync/Barrier"]) >= Request(p, "Sync/Barrier").num_workers
  /\ Reply(p, <<>>)

\* The value of the root, once it is there.
BroadcastReply(p) ==
  /\ Handling(p, "Sync/Broadcast")
  /\ \E r \in Requests("Sync/Broadcast") :
       /\ r.rank = r.root
       /\ Reply(p, BroadcastResponse_InternalSerialize(
                     BroadcastResponse_set(BroadcastResponse_SharedCtor,
                                           "value", r.value)))

\* The request of the peer, once all have arrived.
SessionReply(p) ==
  /\ Handling(p, "Session/RdmaSession")
  /\ Len(seen["Session/RdmaSession"])
       >= Request(p, "Session/RdmaSession").num_workers
  /\ \E r \in Requests("Session/RdmaSession") :
       /\ (r.root = 1) = (Request(p, "Session/RdmaSession").root # 1)
       /\ Reply(p, RdmaSessionResponse_InternalSerialize(
            Fill(RdmaSessionResponse_SharedCtor,
                 [rkey |-> r.rkey, raddr |-> r.raddr, qpn |-> r.qpn,
                  psn |-> r.psn, gid_subnet |-> r.gid_subnet,
                  gid_iface |-> r.gid_iface, lid |-> r.lid])))

----------------------------------------------------------------------------
(* The responses.                                                          *)

Receive(p, name, next) ==
  /\ pc[p] = name
  /\ answer[p] # <<>>
  /\ pc' = [pc EXCEPT ![p] = next]
  /\ call' = [call EXCEPT ![p] = <<>>]
  /\ answer' = [answer EXCEPT ![p] = <<>>]
  /\ UNCHANGED <<rank, value, info, seen>>

BarrierReturn(p) ==
  /\ Receive(p, "Barrier", "Broadcast")
  /\ UNCHANGED <<broadcasted_value, remote_qp_infos>>

BroadcastReturn(p) ==
  /\ Receive(p, "Broadcast", "RdmaSession")
  /\ broadcasted_value' = [broadcasted_value EXCEPT ![p] =
       MergeFromWire(BroadcastResponse_table, BroadcastResponse_SharedCtor,
                     answer[p][1]).fields["value"]]
  /\ UNCHANGED remote_qp_infos

\* Mutant: the halves of the GID change places.
GidReversed(r) ==
  [rkey |-> r.rkey, raddr |-> r.raddr, qp_num |-> r.qpn, psn |-> r.psn,
   subnet_prefix |-> r.gid_iface, interface_id |-> r.gid_subnet,
   lid |-> r.lid % Uint16]

\* The response as a QpInfo; the LID is cast to its 16 bits.
RemoteInfo(r) ==
  [rkey |-> r.rkey, raddr |-> r.raddr, qp_num |-> r.qpn, psn |-> r.psn,
   subnet_prefix |-> r.gid_subnet, interface_id |-> r.gid_iface,
   lid |-> r.lid % Uint16]

SessionReturn(p) ==
  /\ Receive(p, "RdmaSession", "done")
  /\ \E response \in {MergeFromWire(RdmaSessionResponse_table,
                                   RdmaSessionResponse_SharedCtor, answer[p][1])} :
       remote_qp_infos' = [remote_qp_infos EXCEPT ![p] =
                             Append(@, RemoteInfo(response.fields))]
  /\ UNCHANGED broadcasted_value

\* The status is not ok, the connection being lost for one: the CHECK after
\* the call ends the process.  Its request may have reached the controller.
CallFails(p) ==
  /\ call[p] # <<>>
  /\ Abort(p)

ProcStep(p) ==
  \/ Barrier(p) \/ Broadcast(p) \/ RdmaSession(p)
  \/ Handle(p) \/ BarrierReply(p) \/ BroadcastReply(p) \/ SessionReply(p)
  \/ BarrierReturn(p) \/ BroadcastReturn(p) \/ SessionReturn(p)

Next == \E p \in Procs : ProcStep(p) \/ CallFails(p)

\* Processes, network and controller go on; no call has to fail.
Spec == Init /\ [][Next]_vars /\ \A p \in Procs : WF_vars(ProcStep(p))

----------------------------------------------------------------------------
(* Properties.                                                             *)

\* RdmaSession leaves the QpInfo that the other process passed to it, every
\* field of it whatever its width, although the request, the response and
\* QpInfo number and order their fields differently.
PeerInfoExact ==
  \A p \in Procs : pc[p] = "done" => remote_qp_infos[p] = <<info[1 - p]>>

\* Broadcast returns the argument of the root, zero (which is not put on the
\* wire) and the largest value included.
BroadcastValueExact ==
  \A p \in Procs : pc[p] \in {"RdmaSession", "done"} =>
    broadcasted_value[p] = value[Root]

\* Both processes get through their calls, unless one of them has aborted.
CallsComplete ==
  <>(\/ \A p \in Procs : pc[p] = "done"
     \/ \E p \in Procs : pc[p] = "aborted")
=============================================================================
