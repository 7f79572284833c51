------------------------- MODULE GeneratedMessages --------------------------
(***************************************************************************)
(* Every generated class with fields, used as MessageObjects says.          *)
(***************************************************************************)
EXTENDS FlashreduceMessages

CONSTANTS Objects, MaxEdits

VARIABLES class, obj, wire, size, posted, edits

vars == <<class, obj, wire, size, posted, edits>>

SessionRequests == INSTANCE MessageObjects WITH
  Ctor <- RdmaSessionRequest_SharedCtor, Table <- RdmaSessionRequest_table,
  Set <- RdmaSessionRequest_set, Clear <- RdmaSessionRequest_Clear,
  InternalSerialize <- RdmaSessionRequest_InternalSerialize,
  ByteSizeLong <- RdmaSessionRequest_ByteSizeLong,
  MergeImpl <- RdmaSessionRequest_MergeImpl,
  CopyFrom <- RdmaSessionRequest_CopyFrom,
  InternalSwap <- RdmaSessionRequest_InternalSwap

SessionResponses == INSTANCE MessageObjects WITH
  Ctor <- RdmaSessionResponse_SharedCtor, Table <- RdmaSessionResponse_table,
  Set <- RdmaSessionResponse_set, Clear <- RdmaSessionResponse_Clear,
  InternalSerialize <- RdmaSessionResponse_InternalSerialize,
  ByteSizeLong <- RdmaSessionResponse_ByteSizeLong,
  MergeImpl <- RdmaSessionResponse_MergeImpl,
  CopyFrom <- RdmaSessionResponse_CopyFrom,
  InternalSwap <- RdmaSessionResponse_InternalSwap

BarrierRequests == INSTANCE MessageObjects WITH
  Ctor <- BarrierRequest_SharedCtor, Table <- BarrierRequest_table,
  Set <- BarrierRequest_set, Clear <- BarrierRequest_Clear,
  InternalSerialize <- BarrierRequest_InternalSerialize,
  ByteSizeLong <- BarrierRequest_ByteSizeLong,
  MergeImpl <- BarrierRequest_MergeImpl, CopyFrom <- BarrierRequest_CopyFrom,
  InternalSwap <- BarrierRequest_InternalSwap

BroadcastRequests == INSTANCE MessageObjects WITH
  Ctor <- BroadcastRequest_SharedCtor, Table <- BroadcastRequest_table,
  Set <- BroadcastRequest_set, Clear <- BroadcastRequest_Clear,
  InternalSerialize <- BroadcastRequest_InternalSerialize,
  ByteSizeLong <- BroadcastRequest_ByteSizeLong,
  MergeImpl <- BroadcastRequest_MergeImpl,
  CopyFrom <- BroadcastRequest_CopyFrom,
  InternalSwap <- BroadcastRequest_InternalSwap

BroadcastResponses == INSTANCE MessageObjects WITH
  Ctor <- BroadcastResponse_SharedCtor, Table <- BroadcastResponse_table,
  Set <- BroadcastResponse_set, Clear <- BroadcastResponse_Clear,
  InternalSerialize <- BroadcastResponse_InternalSerialize,
  ByteSizeLong <- BroadcastResponse_ByteSizeLong,
  MergeImpl <- BroadcastResponse_MergeImpl,
  CopyFrom <- BroadcastResponse_CopyFrom,
  InternalSwap <- BroadcastResponse_InternalSwap

Init ==
  \/ class = "RdmaSessionRequest" /\ SessionRequests!Init
  \/ class = "RdmaSessionResponse" /\ SessionResponses!Init
  \/ class = "BarrierRequest" /\ BarrierRequests!Init
  \/ class = "BroadcastRequest" /\ BroadcastRequests!Init
  \/ class = "BroadcastResponse" /\ BroadcastResponses!Init

Next ==
  /\ \/ class = "RdmaSessionRequest" /\ SessionRequests!Next
     \/ class = "RdmaSessionResponse" /\ SessionResponses!Next
     \/ class = "BarrierRequest" /\ BarrierRequests!Next
     \/ class = "BroadcastRequest" /\ BroadcastRequests!Next
     \/ class = "BroadcastResponse" /\ BroadcastResponses!Next
  /\ UNCHANGED class

Spec == Init /\ [][Next]_vars

----------------------------------------------------------------------------
(* Properties.                                                             *)

\* The serializer fills the buffer exactly: ByteSizeLong and
\* _InternalSerialize, which are generated apart, agree on every message,
\* the records the class does not know included.
SizeAnnounced == size = Len(wire)

Values == INSTANCE MessageValues WITH value <- obj

\* The classes keep the promise of MessageValues: a message comes out of its
\* bytes as it was, whichever of the parser's two ways a field takes, and
\* Clear, CopyFrom and Swap miss no member although they go by addresses.
ImplementsValues == Values!Spec
=============================================================================
