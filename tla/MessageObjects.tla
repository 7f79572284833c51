-------------------------- MODULE MessageObjects ---------------------------
(***************************************************************************)
(* Two objects of one generated message class, and bytes on the wire.  The  *)
(* class is given by its operations; they are called in any order.          *)
(***************************************************************************)
EXTENDS ProtoWire

CONSTANTS
  Objects,
  MaxEdits,   \* bound on the calls that make a value grow
  Ctor, Table,
  Set(_, _, _), Clear(_), InternalSerialize(_), ByteSizeLong(_),
  MergeImpl(_, _), CopyFrom(_, _), InternalSwap(_, _)

VARIABLES
  obj,      \* the objects
  wire,     \* the serialized message
  size,     \* the size of the buffer it was written to
  posted,   \* history: the value that was serialized
  edits     \* history: calls that made a value grow

objectVars == <<obj, wire, size, posted, edits>>

Init ==
  /\ obj = [o \in Objects |-> Ctor]
  /\ wire = <<>> /\ size = 0 /\ posted = <<>> /\ edits = 0

Edit == edits < MaxEdits /\ edits' = edits + 1

\* set_<field>; clear_<field> sets it to zero.
SetField(o) ==
  /\ Edit
  /\ \E name \in DOMAIN obj[o].fields : \E v \in {0, 1, Base, Limit(name) - 1} :
       obj' = [obj EXCEPT ![o] = Set(@, name, v)]
  /\ UNCHANGED <<wire, size, posted>>

ClearObject(o) ==
  /\ obj' = [obj EXCEPT ![o] = Clear(@)]
  /\ UNCHANGED <<wire, size, posted, edits>>

\* Assignment; one to itself returns at once.
Copy(o, p) ==
  /\ o # p
  /\ obj' = [obj EXCEPT ![o] = CopyFrom(@, obj[p])]
  /\ UNCHANGED <<wire, size, posted, edits>>

Merge(o, p) ==
  /\ o # p
  /\ Edit
  /\ obj' = [obj EXCEPT ![o] = MergeImpl(@, obj[p])]
  /\ UNCHANGED <<wire, size, posted>>

\* Swap, and assignment from a temporary, of objects on the same heap.
Swap(o, p) ==
  /\ o # p
  /\ obj' = [obj EXCEPT ![o] = InternalSwap(@, obj[p]),
                        ![p] = InternalSwap(@, obj[o])]
  /\ UNCHANGED <<wire, size, posted, edits>>

\* The buffer is made as large as ByteSizeLong says, and then written.
Serialize(o) ==
  /\ size' = ByteSizeLong(obj[o])
  /\ wire' = InternalSerialize(obj[o])
  /\ posted' = <<obj[o]>>
  /\ UNCHANGED <<obj, edits>>

\* A peer with a newer version of the protocol appends a field this one
\* does not have.
NewerPeer ==
  /\ posted # <<>>
  /\ Edit
  /\ LET number == Min(Table.skipmap) IN
     /\ wire' = wire \o WriteUInt(number, Base)
     /\ posted' = <<[posted[1] EXCEPT !.unknown = Append(@, <<number, Base>>)]>>
  /\ size' = Len(wire')
  /\ UNCHANGED obj

\* ParseFromArray: Clear, and merge what is on the wire.
Parse(o) ==
  /\ posted # <<>>
  /\ obj' = [obj EXCEPT ![o] = MergeFromWire(Table, Clear(@), wire)]
  /\ UNCHANGED <<wire, size, posted, edits>>

Next ==
  \/ \E o \in Objects : SetField(o) \/ ClearObject(o) \/ Serialize(o) \/ Parse(o)
  \/ \E o, p \in Objects : Copy(o, p) \/ Merge(o, p) \/ Swap(o, p)
  \/ NewerPeer
=============================================================================
