------------------------ MODULE FlashreduceMessages -------------------------
(***************************************************************************)
(* The message classes protoc has generated in src/csrc/flashreduce.pb.h    *)
(* and flashreduce.pb.cc.  Of each class: the order of its members in       *)
(* memory (_Impl), the constructor, the setters, the table of the parser,   *)
(* and the operations, which go by that order (memset and memswap from one  *)
(* member to another), by the members, or by the field numbers.             *)
(***************************************************************************)
EXTENDS ProtoWire

\* SharedCtor does not rely on what the memory of a message held before.
CONSTANT Garbage

----------------------------------------------------------------------------
(* RdmaSessionRequest                                                      *)

RdmaSessionRequest_Impl ==
  <<"session_id", "rank", "num_workers", "root", "mac", "ipv4", "rkey",
    "raddr", "qpn", "psn", "gid_subnet", "gid_iface", "lid">>

RdmaSessionRequest_SharedCtor ==
  Zeroed(Raw(RdmaSessionRequest_Impl, Garbage),
         Between(RdmaSessionRequest_Impl, "session_id", "lid"))

RdmaSessionRequest_set(m, name, v) == [m EXCEPT !.fields[name] = v]

RdmaSessionRequest_table ==
  [fast |-> <<MiniParse, <<1, "session_id">>, <<2, "rank">>,
              <<3, "num_workers">>, <<4, "root">>, <<5, "mac">>, <<6, "ipv4">>,
              <<7, "rkey">>, <<8, "raddr">>, <<9, "qpn">>, <<10, "psn">>,
              <<11, "gid_subnet">>, <<12, "gid_iface">>, <<13, "lid">>,
              MiniParse, MiniParse>>,
   skipmap |-> 14 .. 32,
   entries |-> <<"session_id", "rank", "num_workers", "root", "mac", "ipv4",
                 "rkey", "raddr", "qpn", "psn", "gid_subnet", "gid_iface", "lid">>]

RdmaSessionRequest_Clear(m) ==
  NoUnknown(Zeroed(m, Between(RdmaSessionRequest_Impl, "session_id", "lid")))

RdmaSessionRequest_InternalSerialize(m) ==
  Written(m, <<<<1, "session_id">>, <<2, "rank">>, <<3, "num_workers">>,
               <<4, "root">>, <<5, "mac">>, <<6, "ipv4">>, <<7, "rkey">>,
               <<8, "raddr">>, <<9, "qpn">>, <<10, "psn">>,
               <<11, "gid_subnet">>, <<12, "gid_iface">>, <<13, "lid">>>>)

RdmaSessionRequest_ByteSizeLong(m) == Sized(m, RdmaSessionRequest_Impl)

RdmaSessionRequest_MergeImpl(to, from) ==
  Merged(to, from, Range(RdmaSessionRequest_Impl))

RdmaSessionRequest_CopyFrom(m, from) ==
  RdmaSessionRequest_MergeImpl(RdmaSessionRequest_Clear(m), from)

RdmaSessionRequest_InternalSwap(m, other) ==
  Swapped(m, other, Between(RdmaSessionRequest_Impl, "session_id", "lid"))

----------------------------------------------------------------------------
(* RdmaSessionResponse.  Its field 13 has no place in the fast table, where *)
(* 5 has taken it, and its members are not in the order of the numbers.     *)

RdmaSessionResponse_Impl ==
  <<"raddr", "rkey", "qpn", "psn", "lid", "gid_subnet", "gid_iface">>

RdmaSessionResponse_SharedCtor ==
  Zeroed(Raw(RdmaSessionResponse_Impl, Garbage),
         Between(RdmaSessionResponse_Impl, "raddr", "gid_iface"))

RdmaSessionResponse_set(m, name, v) == [m EXCEPT !.fields[name] = v]

\* Mutant: the entries are in the order of the members.
EntriesInMemoryOrder ==
  [fast |-> <<MiniParse, MiniParse, <<2, "rkey">>, <<3, "raddr">>,
              <<4, "qpn">>, <<5, "psn">>, <<14, "gid_iface">>, <<15, "lid">>>>,
   skipmap |-> {1} \cup (6 .. 12) \cup (16 .. 32),
   entries |-> RdmaSessionResponse_Impl]

RdmaSessionResponse_table ==
  [fast |-> <<MiniParse, MiniParse, <<2, "rkey">>, <<3, "raddr">>,
              <<4, "qpn">>, <<5, "psn">>, <<14, "gid_iface">>, <<15, "lid">>>>,
   skipmap |-> {1} \cup (6 .. 12) \cup (16 .. 32),
   entries |-> <<"rkey", "raddr", "qpn", "psn", "gid_subnet", "gid_iface", "lid">>]

RdmaSessionResponse_Clear(m) ==
  NoUnknown(Zeroed(m, Between(RdmaSessionResponse_Impl, "raddr", "gid_iface")))

RdmaSessionResponse_InternalSerialize(m) ==
  Written(m, <<<<2, "rkey">>, <<3, "raddr">>, <<4, "qpn">>, <<5, "psn">>,
               <<13, "gid_subnet">>, <<14, "gid_iface">>, <<15, "lid">>>>)

\* Mutant: the field that was added last is forgotten.
SizedWithoutLid(m) ==
  Sized(m, SelectSeq(RdmaSessionResponse_Impl, LAMBDA name : name # "lid"))

RdmaSessionResponse_ByteSizeLong(m) == Sized(m, RdmaSessionResponse_Impl)

RdmaSessionResponse_MergeImpl(to, from) ==
  Merged(to, from, Range(RdmaSessionResponse_Impl))

RdmaSessionResponse_CopyFrom(m, from) ==
  RdmaSessionResponse_MergeImpl(RdmaSessionResponse_Clear(m), from)

RdmaSessionResponse_InternalSwap(m, other) ==
  Swapped(m, other, Between(RdmaSessionResponse_Impl, "raddr", "gid_iface"))

----------------------------------------------------------------------------
(* BarrierRequest, and BarrierResponse, which has no fields.                *)

BarrierRequest_Impl == <<"num_workers">>

BarrierRequest_SharedCtor ==
  Zeroed(Raw(BarrierRequest_Impl, Garbage), {"num_workers"})

BarrierRequest_set(m, name, v) == [m EXCEPT !.fields[name] = v]

BarrierRequest_table ==
  [fast |-> <<<<1, "num_workers">>>>, skipmap |-> 2 .. 32,
   entries |-> <<"num_workers">>]

BarrierRequest_Clear(m) == NoUnknown(Zeroed(m, {"num_workers"}))

BarrierRequest_InternalSerialize(m) == Written(m, <<<<1, "num_workers">>>>)

BarrierRequest_ByteSizeLong(m) == Sized(m, BarrierRequest_Impl)

BarrierRequest_MergeImpl(to, from) == Merged(to, from, {"num_workers"})

BarrierRequest_CopyFrom(m, from) ==
  BarrierRequest_MergeImpl(BarrierRequest_Clear(m), from)

BarrierRequest_InternalSwap(m, other) == Swapped(m, other, {"num_workers"})

BarrierResponse_table ==
  [fast |-> <<MiniParse>>, skipmap |-> 1 .. 32, entries |-> <<>>]

----------------------------------------------------------------------------
(* BroadcastRequest                                                        *)

BroadcastRequest_Impl == <<"value", "rank", "num_workers", "root">>

BroadcastRequest_SharedCtor ==
  Zeroed(Raw(BroadcastRequest_Impl, Garbage),
         Between(BroadcastRequest_Impl, "value", "root"))

BroadcastRequest_set(m, name, v) == [m EXCEPT !.fields[name] = v]

BroadcastRequest_table ==
  [fast |-> <<<<4, "root">>, <<1, "value">>, <<2, "rank">>, <<3, "num_workers">>>>,
   skipmap |-> 5 .. 32,
   entries |-> <<"value", "rank", "num_workers", "root">>]

BroadcastRequest_Clear(m) ==
  NoUnknown(Zeroed(m, Between(BroadcastRequest_Impl, "value", "root")))

BroadcastRequest_InternalSerialize(m) ==
  Written(m, <<<<1, "value">>, <<2, "rank">>, <<3, "num_workers">>, <<4, "root">>>>)

BroadcastRequest_ByteSizeLong(m) == Sized(m, BroadcastRequest_Impl)

BroadcastRequest_MergeImpl(to, from) ==
  Merged(to, from, Range(BroadcastRequest_Impl))

BroadcastRequest_CopyFrom(m, from) ==
  BroadcastRequest_MergeImpl(BroadcastRequest_Clear(m), from)

BroadcastRequest_InternalSwap(m, other) ==
  Swapped(m, other, Between(BroadcastRequest_Impl, "value", "root"))

----------------------------------------------------------------------------
(* BroadcastResponse                                                       *)

BroadcastResponse_Impl == <<"value">>

BroadcastResponse_SharedCtor ==
  Zeroed(Raw(BroadcastResponse_Impl, Garbage), {"value"})

BroadcastResponse_set(m, name, v) == [m EXCEPT !.fields[name] = v]

BroadcastResponse_table ==
  [fast |-> <<<<1, "value">>>>, skipmap |-> 2 .. 32, entries |-> <<"value">>]

BroadcastResponse_Clear(m) == NoUnknown(Zeroed(m, {"value"}))

BroadcastResponse_InternalSerialize(m) == Written(m, <<<<1, "value">>>>)

BroadcastResponse_ByteSizeLong(m) == Sized(m, BroadcastResponse_Impl)

BroadcastResponse_MergeImpl(to, from) == Merged(to, from, {"value"})

BroadcastResponse_CopyFrom(m, from) ==
  BroadcastResponse_MergeImpl(BroadcastResponse_Clear(m), from)

BroadcastResponse_InternalSwap(m, other) == Swapped(m, other, {"value"})
=============================================================================
