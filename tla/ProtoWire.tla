----------------------------- MODULE ProtoWire -----------------------------
(***************************************************************************)
(* What the generated classes of src/csrc/flashreduce.pb.cc rely on: the    *)
(* varints of the protobuf wire format, the table-driven parser, and the    *)
(* ways in which generated code treats the members of a message.  The       *)
(* protobuf library is external; this is what the generated code and its    *)
(* tables assume of it.                                                     *)
(*                                                                          *)
(* A message is a function from its fields to numbers, and the records the  *)
(* parser found no field for.  All fields of this protocol are varints with *)
(* a number below 16, whose tag is one byte.                                *)
(***************************************************************************)
EXTENDS Naturals, FiniteSets, Sequences, SequencesExt, FiniteSetsExt

CONSTANTS
  Base,      \* 2^7: values of the payload of a byte of a varint
  Uint16, Uint32, Uint64   \* the number of values of each type

ASSUME WireAssumption ==
  /\ Base \in Nat \ {0, 1}
  /\ Uint16 \in Nat \ {0} /\ Uint32 \in Nat /\ Uint64 \in Nat
  /\ Uint16 < Uint32 /\ Uint32 < Uint64 /\ Base < Uint32

\* Fields of one name have the same type in all messages.
Wide == {"mac", "raddr", "gid_subnet", "gid_iface", "value"}
Limit(name) == IF name \in Wide THEN Uint64 ELSE Uint32

----------------------------------------------------------------------------
(* The wire format.                                                        *)

\* Seven bits at a time, least significant first; all bytes but the last
\* have the continuation bit.
Varint[v \in Nat] ==
  IF v < Base THEN <<[more |-> FALSE, bits |-> v]>>
  ELSE <<[more |-> TRUE, bits |-> v % Base]>> \o Varint[v \div Base]

\* WireFormatLite::WriteUInt32ToArray and WriteUInt64ToArray: the tag, of which
\* the field number is kept here, and the value.
WriteUInt(number, v) == <<[more |-> FALSE, bits |-> number]>> \o Varint[v]

\* Powers of Base; ten bytes hold 64 bits.
Power[k \in 0 .. 10] == IF k = 0 THEN 1 ELSE Base * Power[k - 1]

ASSUME TenBytesAssumption == Uint64 <= Power[10]

\* WireFormatLite::UInt32SizePlusOne: the tag, and the length of the varint
\* computed from the magnitude of the value.
UIntSizePlusOne(v) == 1 + Max({1} \cup {k \in 1 .. 10 : Power[k - 1] <= v})

----------------------------------------------------------------------------
(* The parser.                                                             *)

\* What is looked up under the number of no field.
NoField == "none"

\* An empty slot of a fast table: MiniParse.
MiniParse == <<0, NoField>>

\* TcParser looks at the slot of the fast table that the low bits of the
\* field number select.  If that one is for another field, the skip map
\* says whether there is such a field and the rank of its entry.
FieldOf(table, number) ==
  LET fast == table.fast[(number % Len(table.fast)) + 1]
      present == (1 .. 32) \ table.skipmap
  IN  IF fast[1] = number THEN fast[2]
      ELSE IF number \in present
      THEN table.entries[Cardinality({n \in present : n <= number})]
      ELSE NoField

\* A value is stored in its field, cut to the field's width; a record without
\* a field is kept.
Stored(table, m, number, v) ==
  LET name == FieldOf(table, number)
  IN  IF name = NoField THEN [m EXCEPT !.unknown = Append(@, <<number, v>>)]
      ELSE [m EXCEPT !.fields = [@ EXCEPT ![name] = v % Limit(name)]]

\* The parser between two records of a message.
AtTag(m) == [msg |-> m, number |-> 0, value |-> 0, weight |-> 1]

\* The varints on the wire are tags and values in turn.
ReadByte(table, parser, byte) ==
  LET v == parser.value + byte.bits * parser.weight
  IN  IF parser.number = 0 THEN [parser EXCEPT !.number = byte.bits]
      ELSE IF byte.more THEN [parser EXCEPT !.value = v, !.weight = @ * Base]
      ELSE AtTag(Stored(table, parser.msg, parser.number, v))

\* One byte after the other.  The singletons make TLC evaluate each state of
\* the parser once.
ReadBytes(table, parser, wire) ==
  LET read[k \in 0 .. Len(wire)] ==
        IF k = 0 THEN parser
        ELSE CHOOSE after \in {ReadByte(table, before, wire[k]) : before \in {read[k - 1]}} : TRUE
  IN  read[Len(wire)]

MergeFromWire(table, m, wire) == ReadBytes(table, AtTag(m), wire).msg

----------------------------------------------------------------------------
(* The members of a message.                                               *)

\* The members that lie in memory from `first' to `last'.
Between(layout, first, last) ==
  LET At(name) == CHOOSE k \in 1 .. Len(layout) : layout[k] = name
  IN  {layout[k] : k \in At(first) .. At(last)}

\* A message before its members are initialized.
Raw(layout, garbage) ==
  [fields |-> [name \in Range(layout) |-> garbage], unknown |-> <<>>]

Zeroed(m, names) ==
  [m EXCEPT !.fields = [name \in DOMAIN @ |-> IF name \in names THEN 0 ELSE @[name]]]

NoUnknown(m) == [m EXCEPT !.unknown = <<>>]

\* Fields that are zero are not written; unknown records follow.
Written(m, numbers) ==
  LET Record(f) == IF m.fields[f[2]] = 0 THEN <<>> ELSE WriteUInt(f[1], m.fields[f[2]])
      Unknown(r) == WriteUInt(r[1], r[2])
  IN  FlattenSeq([k \in DOMAIN numbers |-> Record(numbers[k])])
        \o FlattenSeq([k \in DOMAIN m.unknown |-> Unknown(m.unknown[k])])

TotalSize(sizes) ==
  LET total[k \in 0 .. Len(sizes)] == IF k = 0 THEN 0 ELSE total[k - 1] + sizes[k]
  IN  total[Len(sizes)]

\* The sizes of the members, in this order, and of the unknown records.
Sized(m, members) ==
  LET Size(name) == IF m.fields[name] = 0 THEN 0 ELSE UIntSizePlusOne(m.fields[name])
  IN  TotalSize([k \in DOMAIN members |-> Size(members[k])])
        + TotalSize([k \in DOMAIN m.unknown |-> UIntSizePlusOne(m.unknown[k][2])])

\* A zero does not replace anything.
Merged(to, from, names) ==
  [fields |-> [name \in DOMAIN to.fields |->
                 IF name \in names /\ from.fields[name] # 0
                 THEN from.fields[name] ELSE to.fields[name]],
   unknown |-> to.unknown \o from.unknown]

\* A message whose members `names' have been swapped for those of `other'.
Swapped(m, other, names) ==
  [fields |-> [name \in DOMAIN m.fields |->
                 IF name \in names THEN other.fields[name] ELSE m.fields[name]],
   unknown |-> other.unknown]
=============================================================================
