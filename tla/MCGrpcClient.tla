---------------------------- MODULE MCGrpcClient ----------------------------
(* Instances of GrpcClient for TLC. *)
EXTENDS GrpcClient

QpInfoOf(rkey, raddr, qp_num, psn, subnet_prefix, interface_id, lid) ==
  [rkey |-> rkey, raddr |-> raddr, qp_num |-> qp_num, psn |-> psn,
   subnet_prefix |-> subnet_prefix, interface_id |-> interface_id, lid |-> lid]

\* All different, all zero, and all at their limits.
MCInfos ==
  {QpInfoOf(1, 2, 3, 5, 6, 7, 4),
   QpInfoOf(0, 0, 0, 0, 0, 0, 0),
   QpInfoOf(Uint32 - 1, Uint64 - 1, Uint32 - 1, Uint32 - 1, Uint64 - 1,
            Uint64 - 1, Uint16 - 1)}

\* Zero is left out on the wire.
MCValues == {0, Uint64 - 1}
=============================================================================
