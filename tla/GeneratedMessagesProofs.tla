---------------------- MODULE GeneratedMessagesProofs ----------------------
(***************************************************************************)
(* The generated classes implement MessageValues, for every number of       *)
(* objects and of edits and all widths of the integers.  A class differs    *)
(* from another in its members, its field numbers and its table; the steps  *)
(* of all of them are reduced to steps that know no more than that.         *)
(***************************************************************************)
EXTENDS GeneratedMessages, WireProofs

----------------------------------------------------------------------------
(* The operations on the members, of a class with these names.             *)

LEMMA ClearedMessage ==
  ASSUME NEW table, NEW names, NEW m, IsMessage(m, table, names)
  PROVE  NoUnknown(Zeroed(m, names)) = ZeroMessage(names)
<1>1. m \in [fields : [names -> Nat], unknown : Seq((Nat \ {0}) \X Nat)] BY DEF IsMessage
<1>2. Zeroed(m, names) = Message([name \in names |-> 0], m.unknown) BY <1>1 DEF Zeroed, Message
<1>3. \A F, U : NoUnknown(Message(F, U)) = Message(F, <<>>) BY DEF NoUnknown, Message
<1> QED BY <1>2, <1>3 DEF ZeroMessage

LEMMA CopiedMessage ==
  ASSUME NEW table, NEW names, NEW m, IsMessage(m, table, names)
  PROVE  Merged(ZeroMessage(names), m, names) = m
<1>1. m \in [fields : [names -> Nat], unknown : Seq((Nat \ {0}) \X Nat)] BY DEF IsMessage
<1>2. <<>> \o m.unknown = m.unknown BY <1>1
<1>3. [name \in names |-> IF m.fields[name] # 0 THEN m.fields[name] ELSE 0] = m.fields BY <1>1
<1> QED BY <1>1, <1>2, <1>3 DEF Merged, ZeroMessage, Message

LEMMA SwappedMessage ==
  ASSUME NEW table, NEW names, NEW m, IsMessage(m, table, names),
         NEW other, IsMessage(other, table, names)
  PROVE  Swapped(m, other, names) = other
<1>1. /\ m \in [fields : [names -> Nat], unknown : Seq((Nat \ {0}) \X Nat)]
      /\ other \in [fields : [names -> Nat], unknown : Seq((Nat \ {0}) \X Nat)]
  BY DEF IsMessage
<1> QED BY <1>1 DEF Swapped

\* Messages stay messages of their class.
LEMMA ZeroIsMessage ==
  ASSUME NEW table, NEW names
  PROVE  IsMessage(ZeroMessage(names), table, names)
<1>1. /\ ZeroMessage(names).fields = [name \in names |-> 0]
      /\ ZeroMessage(names).unknown = <<>>
      /\ ZeroMessage(names) \in [fields : [names -> Nat], unknown : Seq((Nat \ {0}) \X Nat)]
  BY DEF ZeroMessage, Message
<1> QED BY <1>1, LimitPositive DEF IsMessage

LEMMA SetIsMessage ==
  ASSUME NEW table, NEW names, NEW m, IsMessage(m, table, names),
         NEW name \in names, NEW v \in 0 .. Limit(name) - 1
  PROVE  IsMessage(Message(With(m.fields, name, v), m.unknown), table, names)
<1> DEFINE F == With(m.fields, name, v)
<1>1. /\ m.fields \in [names -> Nat] /\ m.unknown \in Seq((Nat \ {0}) \X Nat)
      /\ \A a \in names : m.fields[a] < Limit(a)
      /\ \A k \in 1 .. Len(m.unknown) : Free(table, m.unknown[k])
  BY DEF IsMessage
<1>2. v \in Nat /\ v < Limit(name) BY LimitPositive
<1>3. F \in [names -> Nat] /\ \A a \in names : F[a] = IF a = name THEN v ELSE m.fields[a]
  BY <1>1, <1>2 DEF With
<1> HIDE DEF F
<1>4. \A a \in names : F[a] < Limit(a) BY <1>1, <1>2, <1>3
<1>5. /\ Message(F, m.unknown).fields = F /\ Message(F, m.unknown).unknown = m.unknown
      /\ Message(F, m.unknown) \in [fields : [names -> Nat], unknown : Seq((Nat \ {0}) \X Nat)]
  BY <1>1, <1>3 DEF Message
<1>6. IsMessage(Message(F, m.unknown), table, names) BY <1>1, <1>4, <1>5 DEF IsMessage
<1> QED BY <1>6 DEF F

LEMMA ConcatUnknown ==
  ASSUME NEW table, NEW u \in Seq((Nat \ {0}) \X Nat), NEW w \in Seq((Nat \ {0}) \X Nat),
         \A k \in 1 .. Len(u) : Free(table, u[k]),
         \A k \in 1 .. Len(w) : Free(table, w[k])
  PROVE  /\ u \o w \in Seq((Nat \ {0}) \X Nat)
         /\ \A k \in 1 .. Len(u \o w) : Free(table, (u \o w)[k])
<1>1. /\ u \o w \in Seq((Nat \ {0}) \X Nat) /\ Len(u \o w) = Len(u) + Len(w)
      /\ \A k \in 1 .. Len(u) + Len(w) : (u \o w)[k] = IF k <= Len(u) THEN u[k] ELSE w[k - Len(u)]
  BY ConcatProperties
<1>2. Len(u) \in Nat /\ Len(w) \in Nat OBVIOUS
<1>3. ASSUME NEW k \in 1 .. Len(u) + Len(w) PROVE Free(table, (u \o w)[k])
  <2>1. CASE k <= Len(u)
    <3>1. k \in 1 .. Len(u) BY <1>2, <2>1
    <3>2. (u \o w)[k] = u[k] BY <1>1, <2>1
    <3> QED BY <3>1, <3>2
  <2>2. CASE ~(k <= Len(u))
    <3>1. k - Len(u) \in 1 .. Len(w) BY <1>2, <2>2
    <3>2. (u \o w)[k] = w[k - Len(u)] BY <1>1, <2>2
    <3> QED BY <3>1, <3>2, Zenon
  <2> QED BY <2>1, <2>2
<1> QED BY <1>1, <1>3, Zenon

LEMMA MergedIsMessage ==
  ASSUME NEW table, NEW names, NEW m, IsMessage(m, table, names),
         NEW other, IsMessage(other, table, names)
  PROVE  IsMessage(Merged(m, other, names), table, names)
<1> DEFINE F == [name \in names |-> IF other.fields[name] # 0 THEN other.fields[name]
                                                             ELSE m.fields[name]]
           U == m.unknown \o other.unknown
<1>1. /\ m.fields \in [names -> Nat] /\ m.unknown \in Seq((Nat \ {0}) \X Nat)
      /\ \A a \in names : m.fields[a] < Limit(a)
      /\ \A k \in 1 .. Len(m.unknown) : Free(table, m.unknown[k])
  BY DEF IsMessage
<1>2. /\ other.fields \in [names -> Nat] /\ other.unknown \in Seq((Nat \ {0}) \X Nat)
      /\ \A a \in names : other.fields[a] < Limit(a)
      /\ \A k \in 1 .. Len(other.unknown) : Free(table, other.unknown[k])
  BY DEF IsMessage
<1>3. Merged(m, other, names) = Message(F, U)
  <2>1. DOMAIN m.fields = names BY <1>1
  <2> QED BY <2>1 DEF Merged, Message
<1>4. F \in [names -> Nat] /\ \A a \in names : F[a] < Limit(a) BY <1>1, <1>2
<1>5. U \in Seq((Nat \ {0}) \X Nat) /\ \A k \in 1 .. Len(U) : Free(table, U[k])
  <2>1. PICK u, w : u = m.unknown /\ w = other.unknown OBVIOUS
  <2>2. /\ u \o w \in Seq((Nat \ {0}) \X Nat)
        /\ \A k \in 1 .. Len(u \o w) : Free(table, (u \o w)[k])
    <3>1. /\ u \in Seq((Nat \ {0}) \X Nat) /\ w \in Seq((Nat \ {0}) \X Nat)
          /\ \A k \in 1 .. Len(u) : Free(table, u[k])
          /\ \A k \in 1 .. Len(w) : Free(table, w[k])
      BY <1>1, <1>2, <2>1, Zenon
    <3> QED BY <3>1, ConcatUnknown
  <2> QED BY <2>1, <2>2, Zenon
<1> HIDE DEF F, U
<1>6. /\ Message(F, U).fields = F /\ Message(F, U).unknown = U
      /\ Message(F, U) \in [fields : [names -> Nat], unknown : Seq((Nat \ {0}) \X Nat)]
  BY <1>4, <1>5 DEF Message
<1> QED BY <1>3, <1>4, <1>5, <1>6 DEF IsMessage

LEMMA NewerIsMessage ==
  ASSUME NEW table, NEW names, NEW m, IsMessage(m, table, names),
         NEW number \in Nat \ {0}, NEW v \in Nat, Free(table, <<number, v>>)
  PROVE  IsMessage(Message(m.fields, Append(m.unknown, <<number, v>>)), table, names)
<1> DEFINE U == Append(m.unknown, <<number, v>>)
<1>1. /\ m.fields \in [names -> Nat] /\ m.unknown \in Seq((Nat \ {0}) \X Nat)
      /\ \A a \in names : m.fields[a] < Limit(a)
      /\ \A k \in 1 .. Len(m.unknown) : Free(table, m.unknown[k])
  BY DEF IsMessage
<1>2. PICK n \in Nat : n = Len(m.unknown) BY <1>1
<1>3. /\ U \in Seq((Nat \ {0}) \X Nat) /\ Len(U) = n + 1
      /\ \A k \in 1 .. n : U[k] = m.unknown[k]
      /\ U[n + 1] = <<number, v>>
  BY <1>1, <1>2
<1> HIDE DEF U
<1>4. ASSUME NEW k \in 1 .. n + 1 PROVE Free(table, U[k])
  <2>1. CASE k = n + 1
    <3>1. U[k] = <<number, v>> BY <1>3, <2>1
    <3> QED BY <3>1, Zenon
  <2>2. CASE k # n + 1
    <3>1. k \in 1 .. n BY <2>2
    <3>2. U[k] = m.unknown[k] BY <1>3, <3>1
    <3>3. k \in 1 .. Len(m.unknown) BY <1>2, <3>1
    <3>4. Free(table, m.unknown[k]) BY <1>1, <3>3, Zenon
    <3> QED BY <3>2, <3>4, Zenon
  <2> QED BY <2>1, <2>2
<1>5. \A k \in 1 .. Len(U) : Free(table, U[k]) BY <1>3, <1>4, Zenon
<1>6. /\ Message(m.fields, U).fields = m.fields /\ Message(m.fields, U).unknown = U
      /\ Message(m.fields, U) \in [fields : [names -> Nat], unknown : Seq((Nat \ {0}) \X Nat)]
  BY <1>1, <1>3 DEF Message
<1>7. IsMessage(Message(m.fields, U), table, names) BY <1>1, <1>5, <1>6 DEF IsMessage
<1> QED BY <1>7 DEF U

----------------------------------------------------------------------------
(* The objects of a class that has this table, these numbers and names.    *)

\* The objects are messages of the class, and the bytes on the wire are those
\* of the message that was posted.
MessageInv(table, names) ==
  /\ DOMAIN obj = Objects
  /\ \A o \in Objects : IsMessage(obj[o], table, names)
  /\ posted # <<>> =>
       /\ posted = <<posted[1]>> /\ IsMessage(posted[1], table, names)
       /\ wire \in Seq(Byte)
       /\ ReadBytes(table, AtTag(ZeroMessage(names)), wire) = AtTag(posted[1])

\* What the calls do to the objects, whatever the class.
ObjectStep(table, names) ==
  \/ \E o \in Objects, name \in names : \E v \in 0 .. Limit(name) - 1 :
       obj' = [obj EXCEPT ![o] = Message(With(obj[o].fields, name, v), obj[o].unknown)]
  \/ \E o \in Objects : obj' = [obj EXCEPT ![o] = ZeroMessage(names)]
  \/ \E o, p \in Objects : obj' = [obj EXCEPT ![o] = obj[p]]
  \/ \E o, p \in Objects : obj' = [obj EXCEPT ![o] = Merged(obj[o], obj[p], names)]
  \/ \E o, p \in Objects : o # p /\ obj' = [obj EXCEPT ![o] = obj[p], ![p] = obj[o]]
  \/ \E o \in Objects :
       posted # <<>> /\ obj' = [obj EXCEPT ![o] = MergeFromWire(table, ZeroMessage(names), wire)]

\* What they do to the wire.
WireStep(table, numbers) ==
  \/ \E o \in Objects : wire' = Written(obj[o], numbers) /\ posted' = <<obj[o]>>
  \/ /\ posted # <<>>
     /\ \E number \in Nat \ {0} :
          /\ FieldOf(table, number) = NoField
          /\ wire' = wire \o WriteUInt(number, Base)
          /\ posted' = <<[posted[1] EXCEPT !.unknown = Append(@, <<number, Base>>)]>>

MessageStep(table, numbers, names) ==
  \/ ObjectStep(table, names) /\ UNCHANGED <<wire, posted>>
  \/ WireStep(table, numbers) /\ UNCHANGED obj

\* The class of a behaviour.
ClassInv ==
  \/ class = "RdmaSessionRequest" /\ MessageInv(RdmaSessionRequest_table, RdmaSessionRequestNames)
  \/ class = "RdmaSessionResponse" /\ MessageInv(RdmaSessionResponse_table, RdmaSessionResponseNames)
  \/ class = "BarrierRequest" /\ MessageInv(BarrierRequest_table, BarrierRequestNames)
  \/ class = "BroadcastRequest" /\ MessageInv(BroadcastRequest_table, BroadcastRequestNames)
  \/ class = "BroadcastResponse" /\ MessageInv(BroadcastResponse_table, BroadcastResponseNames)

\* A message is its fields and its unknown records.
LEMMA MessageParts ==
  ASSUME NEW table, NEW names, NEW m, IsMessage(m, table, names)
  PROVE  /\ m = Message(m.fields, m.unknown) /\ m = [fields |-> m.fields, unknown |-> m.unknown]
         /\ m.fields \in [names -> Nat] /\ m.unknown \in Seq((Nat \ {0}) \X Nat)
BY DEF IsMessage, Message

\* Each call changes the objects as the value of one changes or two of them are
\* copied, merged or exchanged.
LEMMA ObjectStepRefines ==
  ASSUME NEW table, NEW names, MessageInv(table, names), ObjectStep(table, names),
         UNCHANGED <<wire, posted>>
  PROVE  MessageInv(table, names)' /\ Values!Next
<1>1. /\ DOMAIN obj = Objects /\ \A o \in Objects : IsMessage(obj[o], table, names)
      /\ posted # <<>> =>
           /\ posted = <<posted[1]>> /\ IsMessage(posted[1], table, names)
           /\ wire \in Seq(Byte)
           /\ ReadBytes(table, AtTag(ZeroMessage(names)), wire) = AtTag(posted[1])
  BY DEF MessageInv
<1>2. ASSUME NEW o \in Objects, NEW m, IsMessage(m, table, names), obj' = [obj EXCEPT ![o] = m]
      PROVE  MessageInv(table, names)'
  <2>1. DOMAIN obj' = Objects /\ \A q \in Objects : obj'[q] = IF q = o THEN m ELSE obj[q]
    BY <1>1, <1>2
  <2>2. \A q \in Objects : IsMessage(obj'[q], table, names) BY <1>1, <1>2, <2>1
  <2> QED BY <1>1, <2>1, <2>2 DEF MessageInv
<1>3. ASSUME NEW o \in Objects, NEW p \in Objects,
             \/ Values!Assign(o) \/ Values!Reset(o) \/ Values!Copy(o, p)
             \/ Values!Merge(o, p) \/ Values!Exchange(o, p) \/ Values!Take(o)
      PROVE  Values!Next
  BY <1>3 DEF Values!Next
<1>4. CASE \E o \in Objects, name \in names : \E v \in 0 .. Limit(name) - 1 :
             obj' = [obj EXCEPT ![o] = Message(With(obj[o].fields, name, v), obj[o].unknown)]
  <2>0. PICK o \in Objects, name \in names : \E v \in 0 .. Limit(name) - 1 :
           obj' = [obj EXCEPT ![o] = Message(With(obj[o].fields, name, v), obj[o].unknown)]
    BY <1>4
  <2>1. PICK v \in 0 .. Limit(name) - 1 :
           obj' = [obj EXCEPT ![o] = Message(With(obj[o].fields, name, v), obj[o].unknown)]
    BY <2>0
  <2>2. PICK m : m = obj[o] /\ IsMessage(m, table, names) BY <1>1
  <2>3. IsMessage(Message(With(m.fields, name, v), m.unknown), table, names)
    BY <2>2, SetIsMessage
  <2>4. MessageInv(table, names)' BY <1>2, <2>1, <2>2, <2>3
  <2>5. Values!Assign(o)
    <3>1. name \in DOMAIN m.fields BY <2>2, MessageParts
    <3>2. obj'[o].fields[name] = v
      <4>1. obj'[o] = Message(With(m.fields, name, v), m.unknown) BY <1>1, <2>1, <2>2
      <4>2. obj'[o].fields = With(m.fields, name, v) BY <4>1 DEF Message
      <4> QED BY <3>1, <4>2 DEF With
    <3>3. [m EXCEPT !.fields[name] = v] = Message(With(m.fields, name, v), m.unknown)
      <4>0. m = [fields |-> m.fields, unknown |-> m.unknown] BY <2>2, MessageParts
      <4>1. PICK F, U : m = [fields |-> F, unknown |-> U] BY <4>0, Zenon
      <4> QED BY <4>1 DEF With, Message
    <3>4. obj' = [obj EXCEPT ![o] = [m EXCEPT !.fields[name] = v]] BY <2>1, <2>2, <3>3, Zenon
    <3>5. obj' = [obj EXCEPT ![o].fields[name] = obj'[o].fields[name]]
      BY <2>2, <3>2, <3>4, Zenon
    <3> QED BY <2>2, <3>1, <3>5 DEF Values!Assign
  <2> QED BY <1>3, <2>4, <2>5
<1>5. CASE \E o \in Objects : obj' = [obj EXCEPT ![o] = ZeroMessage(names)]
  <2>1. PICK o \in Objects : obj' = [obj EXCEPT ![o] = ZeroMessage(names)] BY <1>5
  <2>2. MessageInv(table, names)' BY <1>2, <2>1, ZeroIsMessage
  <2>3. Values!Empty(obj[o]) = ZeroMessage(names)
    <3>1. DOMAIN obj[o].fields = names BY <1>1, MessageParts
    <3> QED BY <3>1 DEF Values!Empty, ZeroMessage, Message
  <2>4. Values!Reset(o) BY <2>1, <2>3, Zenon DEF Values!Reset
  <2> QED BY <1>3, <2>2, <2>4
<1>6. CASE \E o, p \in Objects : obj' = [obj EXCEPT ![o] = obj[p]]
  <2>1. PICK o \in Objects, p \in Objects : obj' = [obj EXCEPT ![o] = obj[p]] BY <1>6
  <2>2. PICK m : m = obj[p] /\ IsMessage(m, table, names) BY <1>1
  <2>3. MessageInv(table, names)' BY <1>2, <2>1, <2>2
  <2>4. Values!Copy(o, p) BY <2>1 DEF Values!Copy
  <2> QED BY <1>3, <2>3, <2>4
<1>7. CASE \E o, p \in Objects : obj' = [obj EXCEPT ![o] = Merged(obj[o], obj[p], names)]
  <2>1. PICK o \in Objects, p \in Objects : obj' = [obj EXCEPT ![o] = Merged(obj[o], obj[p], names)]
    BY <1>7
  <2>2. PICK m, n : /\ m = obj[o] /\ IsMessage(m, table, names)
                    /\ n = obj[p] /\ IsMessage(n, table, names)
    BY <1>1
  <2>3. MessageInv(table, names)' BY <1>2, <2>1, <2>2, MergedIsMessage
  <2>4. Merged(m, n, names) =
          [fields |-> [f \in DOMAIN m.fields |-> IF n.fields[f] # 0 THEN n.fields[f] ELSE m.fields[f]],
           unknown |-> m.unknown \o n.unknown]
    <3>1. DOMAIN m.fields = names BY <2>2, MessageParts
    <3> QED BY <3>1 DEF Merged
  <2>5. Values!Merge(o, p) BY <2>1, <2>2, <2>4, Zenon DEF Values!Merge
  <2> QED BY <1>3, <2>3, <2>5
<1>8. CASE \E o, p \in Objects : o # p /\ obj' = [obj EXCEPT ![o] = obj[p], ![p] = obj[o]]
  <2>1. PICK o \in Objects, p \in Objects : o # p /\ obj' = [obj EXCEPT ![o] = obj[p], ![p] = obj[o]]
    BY <1>8
  <2>2. DOMAIN obj' = Objects
        /\ \A q \in Objects : obj'[q] = IF q = p THEN obj[o] ELSE IF q = o THEN obj[p] ELSE obj[q]
    BY <1>1, <2>1
  <2>3. \A q \in Objects : IsMessage(obj'[q], table, names) BY <1>1, <2>2
  <2>4. MessageInv(table, names)' BY <1>1, <2>2, <2>3 DEF MessageInv
  <2>5. Values!Exchange(o, p) BY <2>1 DEF Values!Exchange
  <2> QED BY <1>3, <2>4, <2>5
<1>9. CASE \E o \in Objects :
             posted # <<>> /\ obj' = [obj EXCEPT ![o] = MergeFromWire(table, ZeroMessage(names), wire)]
  <2>1. PICK o \in Objects :
          posted # <<>> /\ obj' = [obj EXCEPT ![o] = MergeFromWire(table, ZeroMessage(names), wire)]
    BY <1>9
  <2>2. PICK m : m = posted[1] /\ IsMessage(m, table, names)
                 /\ ReadBytes(table, AtTag(ZeroMessage(names)), wire) = AtTag(m)
    BY <1>1, <2>1
  <2>3. MergeFromWire(table, ZeroMessage(names), wire) = m
    <3>1. AtTag(m).msg = m BY DEF AtTag
    <3> QED BY <2>2, <3>1 DEF MergeFromWire
  <2>4. MessageInv(table, names)' BY <1>2, <2>1, <2>2, <2>3
  <2>5. Values!Take(o) BY <2>1, <2>2, <2>3, Zenon DEF Values!Take
  <2> QED BY <1>3, <2>4, <2>5
<1> QED BY <1>4, <1>5, <1>6, <1>7, <1>8, <1>9 DEF ObjectStep

\* What is on the wire is what was posted, after a newer peer's field too.
LEMMA WireStepRefines ==
  ASSUME NEW table, NEW numbers, NEW names, Complete(table, numbers, names),
         MessageInv(table, names), WireStep(table, numbers), UNCHANGED obj
  PROVE  MessageInv(table, names)' /\ Values!Next
<1> DEFINE q == AtTag(ZeroMessage(names))
<1>1. /\ DOMAIN obj = Objects /\ \A o \in Objects : IsMessage(obj[o], table, names)
      /\ posted # <<>> =>
           /\ posted = <<posted[1]>> /\ IsMessage(posted[1], table, names)
           /\ wire \in Seq(Byte) /\ ReadBytes(table, q, wire) = AtTag(posted[1])
  BY DEF MessageInv
<1>2. CASE \E o \in Objects : wire' = Written(obj[o], numbers) /\ posted' = <<obj[o]>>
  <2>1. PICK o \in Objects : wire' = Written(obj[o], numbers) /\ posted' = <<obj[o]>> BY <1>2
  <2>2. PICK m : m = obj[o] /\ IsMessage(m, table, names) BY <1>1
  <2>3. wire' \in Seq(Byte) /\ ReadBytes(table, q, wire') = AtTag(m)
    <3>1. Written(m, numbers) \in Seq(Byte) /\ ReadBytes(table, q, Written(m, numbers)) = AtTag(m)
      BY <2>2, WrittenRead
    <3> QED BY <2>1, <2>2, <3>1, Zenon
  <2>4. posted' # <<>> /\ posted'[1] = m /\ posted' = <<m>> BY <2>1, <2>2
  <2>5. MessageInv(table, names)' BY <1>1, <2>2, <2>3, <2>4 DEF MessageInv
  <2>6. Values!Post BY <2>1 DEF Values!Post
  <2> QED BY <2>5, <2>6 DEF Values!Next
<1>3. CASE /\ posted # <<>>
           /\ \E number \in Nat \ {0} :
                /\ FieldOf(table, number) = NoField
                /\ wire' = wire \o WriteUInt(number, Base)
                /\ posted' = <<[posted[1] EXCEPT !.unknown = Append(@, <<number, Base>>)]>>
  <2>1. PICK number \in Nat \ {0} :
           /\ FieldOf(table, number) = NoField
           /\ wire' = wire \o WriteUInt(number, Base)
           /\ posted' = <<[posted[1] EXCEPT !.unknown = Append(@, <<number, Base>>)]>>
    BY <1>3
  <2>2. PICK m : /\ m = posted[1] /\ IsMessage(m, table, names)
                 /\ wire \in Seq(Byte) /\ ReadBytes(table, q, wire) = AtTag(m)
    BY <1>1, <1>3
  <2> DEFINE U == Append(m.unknown, <<number, Base>>)
             new == Message(m.fields, U)
  <2>3. Base \in Nat /\ Free(table, <<number, Base>>)
    BY <2>1, WireAssumption DEF WireAssumption, Free
  <2>4. IsMessage(new, table, names) BY <2>1, <2>2, <2>3, NewerIsMessage
  <2>5. [m EXCEPT !.unknown = Append(@, <<number, Base>>)] = new
    <3>1. m = [fields |-> m.fields, unknown |-> m.unknown] BY <2>2, MessageParts
    <3>2. PICK F, W : m = [fields |-> F, unknown |-> W] BY <3>1, Zenon
    <3>3. ASSUME NEW V PROVE [m EXCEPT !.unknown = V] = Message(m.fields, V) BY <3>2 DEF Message
    <3> HIDE DEF U
    <3>4. [m EXCEPT !.unknown = U] = Message(m.fields, U) BY <3>3
    <3> QED BY <3>4, Zenon DEF U
  <2>6. posted' = <<new>> BY <2>1, <2>2, <2>5, Zenon
  <2>7. wire' \in Seq(Byte) /\ ReadBytes(table, q, wire') = AtTag(new)
    <3>1. /\ WriteUInt(number, Base) \in Seq(Byte)
          /\ ReadBytes(table, AtTag(m), WriteUInt(number, Base)) = AtTag(Stored(table, m, number, Base))
      BY <2>3, ReadWritten
    <3>2. Stored(table, m, number, Base) = new
      <4>1. Stored(table, Message(m.fields, m.unknown), number, Base) = new
        BY <2>1, StoredUnknown
      <4>2. m = Message(m.fields, m.unknown) BY <2>2, MessageParts
      <4> QED BY <4>1, <4>2, Zenon
    <3>3. PICK tail \in Seq(Byte) : tail = WriteUInt(number, Base) BY <3>1
    <3> HIDE DEF q, new
    <3>4. ReadBytes(table, q, wire \o tail) = ReadBytes(table, ReadBytes(table, q, wire), tail)
      BY <2>2, ReadConcat
    <3>5. wire \o tail \in Seq(Byte) BY <2>2
    <3> QED BY <2>1, <2>2, <3>1, <3>2, <3>3, <3>4, <3>5, Zenon
  <2>8. posted' # <<>> /\ posted'[1] = new BY <2>6
  <2>9. MessageInv(table, names)'
    <3> HIDE DEF new
    <3> QED BY <1>1, <2>4, <2>6, <2>7, <2>8 DEF MessageInv
  <2>10. Values!PostNewer
    <3>1. m.unknown \in Seq((Nat \ {0}) \X Nat) BY <2>2, MessageParts
    <3>2. <<number, Base>> \in Range(U)
      <4>1. PICK n \in Nat : n = Len(m.unknown) BY <3>1
      <4>2. n + 1 \in DOMAIN U /\ U[n + 1] = <<number, Base>> BY <2>3, <3>1, <4>1
      <4> HIDE DEF U
      <4> QED BY <4>2 DEF Range
    <3>3. posted'[1].unknown = U BY <2>8 DEF Message
    <3>4. <<number, Base>> \in Values!Range(posted'[1].unknown)
      <4> HIDE DEF U
      <4> QED BY <3>2, <3>3 DEF Range, Values!Range
    <3> QED BY <1>3, <2>1, <3>4 DEF Values!PostNewer
  <2> QED BY <2>9, <2>10 DEF Values!Next
<1> QED BY <1>2, <1>3 DEF WireStep

LEMMA MessageStepRefines ==
  ASSUME NEW table, NEW numbers, NEW names, Complete(table, numbers, names),
         MessageInv(table, names), MessageStep(table, numbers, names)
  PROVE  MessageInv(table, names)' /\ Values!Next
BY ObjectStepRefines, WireStepRefines DEF MessageStep

----------------------------------------------------------------------------
(* The classes.                                                            *)

\* A setter, without its name.
LEMMA SetMessage ==
  ASSUME NEW table, NEW names, NEW m, IsMessage(m, table, names), NEW name, NEW v
  PROVE  [m EXCEPT !.fields[name] = v] = Message(With(m.fields, name, v), m.unknown)
<1>1. m = [fields |-> m.fields, unknown |-> m.unknown] BY MessageParts
<1>2. PICK F, U : m = [fields |-> F, unknown |-> U] BY <1>1, Zenon
<1> QED BY <1>2 DEF With, Message

LEMMA RdmaSessionRequestOperations ==
  ASSUME NEW m, IsMessage(m, RdmaSessionRequest_table, RdmaSessionRequestNames),
         NEW n, IsMessage(n, RdmaSessionRequest_table, RdmaSessionRequestNames)
  PROVE  /\ \A name, v : RdmaSessionRequest_set(m, name, v)
                           = Message(With(m.fields, name, v), m.unknown)
         /\ RdmaSessionRequest_Clear(m) = ZeroMessage(RdmaSessionRequestNames)
         /\ RdmaSessionRequest_MergeImpl(m, n) = Merged(m, n, RdmaSessionRequestNames)
         /\ RdmaSessionRequest_CopyFrom(m, n) = n
         /\ RdmaSessionRequest_InternalSwap(m, n) = n
         /\ RdmaSessionRequest_InternalSerialize(m) = Written(m, RdmaSessionRequestNumbers)
<1>1. Range(RdmaSessionRequest_Impl) = RdmaSessionRequestNames BY RdmaSessionRequestMembers
<1>2. ASSUME NEW name, NEW v
      PROVE  RdmaSessionRequest_set(m, name, v) = Message(With(m.fields, name, v), m.unknown)
  BY SetMessage, Zenon DEF RdmaSessionRequest_set
<1>3. RdmaSessionRequest_Clear(m) = ZeroMessage(RdmaSessionRequestNames)
  BY <1>1, RdmaSessionRequestMembers, ClearedMessage, Zenon DEF RdmaSessionRequest_Clear
<1>4. \A a, b : RdmaSessionRequest_MergeImpl(a, b) = Merged(a, b, RdmaSessionRequestNames)
  BY <1>1, Zenon DEF RdmaSessionRequest_MergeImpl
<1>5. RdmaSessionRequest_CopyFrom(m, n) = n
  BY <1>3, <1>4, CopiedMessage, Zenon DEF RdmaSessionRequest_CopyFrom
<1>6. RdmaSessionRequest_InternalSwap(m, n) = n
  BY <1>1, RdmaSessionRequestMembers, SwappedMessage, Zenon DEF RdmaSessionRequest_InternalSwap
<1>7. RdmaSessionRequest_InternalSerialize(m) = Written(m, RdmaSessionRequestNumbers)
  BY Zenon DEF RdmaSessionRequest_InternalSerialize, RdmaSessionRequestNumbers
<1> QED BY <1>2, <1>3, <1>4, <1>5, <1>6, <1>7

\* The number that a newer peer uses is free.
LEMMA RdmaSessionRequestNewer ==
  /\ SessionRequests!Min(RdmaSessionRequest_table.skipmap) \in Nat \ {0}
  /\ FieldOf(RdmaSessionRequest_table, SessionRequests!Min(RdmaSessionRequest_table.skipmap)) = NoField
<1> DEFINE S == RdmaSessionRequest_table.skipmap
<1>1. 14 \in S /\ \A y \in S : y \in Int /\ 14 <= y BY DEF RdmaSessionRequest_table
<1>2. SessionRequests!Min(S) = 14
  <2> HIDE DEF S
  <2> QED BY <1>1 DEF SessionRequests!Min
<1>3. Len(RdmaSessionRequest_table.fast) = 16 BY DEF RdmaSessionRequest_table
<1>4. RdmaSessionRequest_table.fast[15][1] # 14 BY DEF RdmaSessionRequest_table, MiniParse
<1>5. FieldOf(RdmaSessionRequest_table, 14) = NoField
  <2>1. 14 \notin (1 .. 32) \ RdmaSessionRequest_table.skipmap BY <1>1
  <2>2. (14 % 16) + 1 = 15 OBVIOUS
  <2> QED BY <1>3, <1>4, <2>1, <2>2 DEF FieldOf
<1>6. 14 \in Nat \ {0} OBVIOUS
<1> QED BY <1>2, <1>5, <1>6, Zenon

LEMMA RdmaSessionRequestStep ==
  ASSUME MessageInv(RdmaSessionRequest_table, RdmaSessionRequestNames), SessionRequests!Next
  PROVE  MessageStep(RdmaSessionRequest_table, RdmaSessionRequestNumbers, RdmaSessionRequestNames)
<1> DEFINE table == RdmaSessionRequest_table
           names == RdmaSessionRequestNames
<1>1. \A o \in Objects : IsMessage(obj[o], table, names) /\ DOMAIN obj[o].fields = names
  BY MessageParts DEF MessageInv
<1>2. \A name : SessionRequests!Limit(name) = Limit(name)
  BY DEF SessionRequests!Limit, Limit, SessionRequests!Wide, Wide
<1>3. ASSUME NEW o \in Objects, SessionRequests!SetField(o) PROVE ObjectStep(table, names)
  <2>1. PICK name \in names : \E v \in {0, 1, Base, Limit(name) - 1} :
           obj' = [obj EXCEPT ![o] = RdmaSessionRequest_set(obj[o], name, v)]
    BY <1>1, <1>2, <1>3 DEF SessionRequests!SetField
  <2>2. PICK v \in {0, 1, Base, Limit(name) - 1} :
           obj' = [obj EXCEPT ![o] = RdmaSessionRequest_set(obj[o], name, v)]
    BY <2>1
  <2>3. v \in 0 .. Limit(name) - 1 BY WireAssumption DEF WireAssumption, Limit
  <2>4. RdmaSessionRequest_set(obj[o], name, v) = Message(With(obj[o].fields, name, v), obj[o].unknown)
    BY <1>1, RdmaSessionRequestOperations
  <2> HIDE DEF table, names
  <2> QED BY <2>2, <2>3, <2>4 DEF ObjectStep
<1>4. ASSUME NEW o \in Objects, SessionRequests!ClearObject(o) PROVE ObjectStep(table, names)
  <2>1. RdmaSessionRequest_Clear(obj[o]) = ZeroMessage(names) BY <1>1, RdmaSessionRequestOperations
  <2>2. obj' = [obj EXCEPT ![o] = ZeroMessage(names)]
    BY <1>4, <2>1, Zenon DEF SessionRequests!ClearObject
  <2> HIDE DEF table, names
  <2> QED BY <2>2 DEF ObjectStep
<1>5. ASSUME NEW o \in Objects, NEW p \in Objects, SessionRequests!Copy(o, p) PROVE ObjectStep(table, names)
  <2>1. RdmaSessionRequest_CopyFrom(obj[o], obj[p]) = obj[p] BY <1>1, RdmaSessionRequestOperations
  <2>2. obj' = [obj EXCEPT ![o] = obj[p]] BY <1>5, <2>1, Zenon DEF SessionRequests!Copy
  <2> HIDE DEF table, names
  <2> QED BY <2>2 DEF ObjectStep
<1>6. ASSUME NEW o \in Objects, NEW p \in Objects, SessionRequests!Merge(o, p) PROVE ObjectStep(table, names)
  <2>1. RdmaSessionRequest_MergeImpl(obj[o], obj[p]) = Merged(obj[o], obj[p], names)
    BY <1>1, RdmaSessionRequestOperations
  <2>2. obj' = [obj EXCEPT ![o] = Merged(obj[o], obj[p], names)]
    BY <1>6, <2>1, Zenon DEF SessionRequests!Merge
  <2> HIDE DEF table, names
  <2> QED BY <2>2 DEF ObjectStep
<1>7. ASSUME NEW o \in Objects, NEW p \in Objects, SessionRequests!Swap(o, p) PROVE ObjectStep(table, names)
  <2>1. /\ RdmaSessionRequest_InternalSwap(obj[o], obj[p]) = obj[p]
        /\ RdmaSessionRequest_InternalSwap(obj[p], obj[o]) = obj[o]
    BY <1>1, RdmaSessionRequestOperations
  <2>2. DOMAIN obj = Objects BY DEF MessageInv
  <2>3. o # p /\ obj' = [obj EXCEPT ![o] = obj[p], ![p] = obj[o]]
    BY <1>7, <2>1, <2>2 DEF SessionRequests!Swap
  <2> HIDE DEF table, names
  <2> QED BY <2>3 DEF ObjectStep
<1>8. ASSUME NEW o \in Objects, SessionRequests!Parse(o) PROVE ObjectStep(table, names)
  <2>1. RdmaSessionRequest_Clear(obj[o]) = ZeroMessage(names) BY <1>1, RdmaSessionRequestOperations
  <2>2. ASSUME NEW a, NEW b, NEW w
        PROVE  SessionRequests!MergeFromWire(a, b, w) = MergeFromWire(a, b, w)
    BY Zenon DEF SessionRequests!MergeFromWire, MergeFromWire, SessionRequests!ReadBytes, ReadBytes,
                 SessionRequests!ReadByte, ReadByte, SessionRequests!AtTag, AtTag,
                 SessionRequests!Stored, Stored, SessionRequests!FieldOf, FieldOf,
                 SessionRequests!NoField, NoField, SessionRequests!Limit, Limit,
                 SessionRequests!Wide, Wide, SessionRequests!Cardinality, Cardinality
  <2>3. posted # <<>> /\ obj' = [obj EXCEPT ![o] = MergeFromWire(table, ZeroMessage(names), wire)]
    BY <1>8, <2>1, <2>2, Zenon DEF SessionRequests!Parse
  <2> HIDE DEF table, names
  <2> QED BY <2>3 DEF ObjectStep
<1>9. ASSUME NEW o \in Objects, SessionRequests!Serialize(o) PROVE WireStep(table, RdmaSessionRequestNumbers)
  <2>1. RdmaSessionRequest_InternalSerialize(obj[o]) = Written(obj[o], RdmaSessionRequestNumbers)
    BY <1>1, RdmaSessionRequestOperations
  <2> QED BY <1>9, <2>1 DEF SessionRequests!Serialize, WireStep
<1>10. ASSUME SessionRequests!NewerPeer PROVE WireStep(table, RdmaSessionRequestNumbers)
  <2>1. \A n, v : SessionRequests!WriteUInt(n, v) = WriteUInt(n, v)
    BY DEF SessionRequests!WriteUInt, WriteUInt, SessionRequests!Varint, Varint
  <2>2. PICK n : n = SessionRequests!Min(RdmaSessionRequest_table.skipmap) OBVIOUS
  <2>3. /\ posted # <<>> /\ wire' = wire \o WriteUInt(n, Base)
        /\ posted' = <<[posted[1] EXCEPT !.unknown = Append(@, <<n, Base>>)]>>
    BY <1>10, <2>1, <2>2, Zenon DEF SessionRequests!NewerPeer
  <2>4. n \in Nat \ {0} /\ FieldOf(table, n) = NoField BY <2>2, RdmaSessionRequestNewer, Zenon
  <2> HIDE DEF table
  <2> QED BY <2>3, <2>4, Zenon DEF WireStep
<1> HIDE DEF table, names
<1>11. CASE \/ \E o \in Objects : SessionRequests!SetField(o) \/ SessionRequests!ClearObject(o) \/ SessionRequests!Parse(o)
            \/ \E o, p \in Objects : SessionRequests!Copy(o, p) \/ SessionRequests!Merge(o, p) \/ SessionRequests!Swap(o, p)
  <2>1. ObjectStep(table, names) BY <1>3, <1>4, <1>5, <1>6, <1>7, <1>8, <1>11
  <2>2. UNCHANGED <<wire, posted>>
    BY <1>11 DEF SessionRequests!SetField, SessionRequests!ClearObject, SessionRequests!Parse, SessionRequests!Copy, SessionRequests!Merge, SessionRequests!Swap
  <2> QED BY <2>1, <2>2 DEF MessageStep, table, names
<1>12. CASE SessionRequests!NewerPeer \/ \E o \in Objects : SessionRequests!Serialize(o)
  <2>1. WireStep(table, RdmaSessionRequestNumbers) BY <1>9, <1>10, <1>12
  <2>2. UNCHANGED obj BY <1>12 DEF SessionRequests!NewerPeer, SessionRequests!Serialize
  <2> QED BY <2>1, <2>2 DEF MessageStep, table, names
<1> QED BY <1>11, <1>12 DEF SessionRequests!Next

LEMMA RdmaSessionResponseOperations ==
  ASSUME NEW m, IsMessage(m, RdmaSessionResponse_table, RdmaSessionResponseNames),
         NEW n, IsMessage(n, RdmaSessionResponse_table, RdmaSessionResponseNames)
  PROVE  /\ \A name, v : RdmaSessionResponse_set(m, name, v)
                           = Message(With(m.fields, name, v), m.unknown)
         /\ RdmaSessionResponse_Clear(m) = ZeroMessage(RdmaSessionResponseNames)
         /\ RdmaSessionResponse_MergeImpl(m, n) = Merged(m, n, RdmaSessionResponseNames)
         /\ RdmaSessionResponse_CopyFrom(m, n) = n
         /\ RdmaSessionResponse_InternalSwap(m, n) = n
         /\ RdmaSessionResponse_InternalSerialize(m) = Written(m, RdmaSessionResponseNumbers)
<1>1. Range(RdmaSessionResponse_Impl) = RdmaSessionResponseNames BY RdmaSessionResponseMembers
<1>2. ASSUME NEW name, NEW v
      PROVE  RdmaSessionResponse_set(m, name, v) = Message(With(m.fields, name, v), m.unknown)
  BY SetMessage, Zenon DEF RdmaSessionResponse_set
<1>3. RdmaSessionResponse_Clear(m) = ZeroMessage(RdmaSessionResponseNames)
  BY <1>1, RdmaSessionResponseMembers, ClearedMessage, Zenon DEF RdmaSessionResponse_Clear
<1>4. \A a, b : RdmaSessionResponse_MergeImpl(a, b) = Merged(a, b, RdmaSessionResponseNames)
  BY <1>1, Zenon DEF RdmaSessionResponse_MergeImpl
<1>5. RdmaSessionResponse_CopyFrom(m, n) = n
  BY <1>3, <1>4, CopiedMessage, Zenon DEF RdmaSessionResponse_CopyFrom
<1>6. RdmaSessionResponse_InternalSwap(m, n) = n
  BY <1>1, RdmaSessionResponseMembers, SwappedMessage, Zenon DEF RdmaSessionResponse_InternalSwap
<1>7. RdmaSessionResponse_InternalSerialize(m) = Written(m, RdmaSessionResponseNumbers)
  BY Zenon DEF RdmaSessionResponse_InternalSerialize, RdmaSessionResponseNumbers
<1> QED BY <1>2, <1>3, <1>4, <1>5, <1>6, <1>7

\* The number that a newer peer uses is free.
LEMMA RdmaSessionResponseNewer ==
  /\ SessionResponses!Min(RdmaSessionResponse_table.skipmap) \in Nat \ {0}
  /\ FieldOf(RdmaSessionResponse_table, SessionResponses!Min(RdmaSessionResponse_table.skipmap)) = NoField
<1> DEFINE S == RdmaSessionResponse_table.skipmap
<1>1. 1 \in S /\ \A y \in S : y \in Int /\ 1 <= y BY DEF RdmaSessionResponse_table
<1>2. SessionResponses!Min(S) = 1
  <2> HIDE DEF S
  <2> QED BY <1>1 DEF SessionResponses!Min
<1>3. Len(RdmaSessionResponse_table.fast) = 8 BY DEF RdmaSessionResponse_table
<1>4. RdmaSessionResponse_table.fast[2][1] # 1 BY DEF RdmaSessionResponse_table, MiniParse
<1>5. FieldOf(RdmaSessionResponse_table, 1) = NoField
  <2>1. 1 \notin (1 .. 32) \ RdmaSessionResponse_table.skipmap BY <1>1
  <2>2. (1 % 8) + 1 = 2 OBVIOUS
  <2> QED BY <1>3, <1>4, <2>1, <2>2 DEF FieldOf
<1>6. 1 \in Nat \ {0} OBVIOUS
<1> QED BY <1>2, <1>5, <1>6, Zenon

LEMMA RdmaSessionResponseStep ==
  ASSUME MessageInv(RdmaSessionResponse_table, RdmaSessionResponseNames), SessionResponses!Next
  PROVE  MessageStep(RdmaSessionResponse_table, RdmaSessionResponseNumbers, RdmaSessionResponseNames)
<1> DEFINE table == RdmaSessionResponse_table
           names == RdmaSessionResponseNames
<1>1. \A o \in Objects : IsMessage(obj[o], table, names) /\ DOMAIN obj[o].fields = names
  BY MessageParts DEF MessageInv
<1>2. \A name : SessionResponses!Limit(name) = Limit(name)
  BY DEF SessionResponses!Limit, Limit, SessionResponses!Wide, Wide
<1>3. ASSUME NEW o \in Objects, SessionResponses!SetField(o) PROVE ObjectStep(table, names)
  <2>1. PICK name \in names : \E v \in {0, 1, Base, Limit(name) - 1} :
           obj' = [obj EXCEPT ![o] = RdmaSessionResponse_set(obj[o], name, v)]
    BY <1>1, <1>2, <1>3 DEF SessionResponses!SetField
  <2>2. PICK v \in {0, 1, Base, Limit(name) - 1} :
           obj' = [obj EXCEPT ![o] = RdmaSessionResponse_set(obj[o], name, v)]
    BY <2>1
  <2>3. v \in 0 .. Limit(name) - 1 BY WireAssumption DEF WireAssumption, Limit
  <2>4. RdmaSessionResponse_set(obj[o], name, v) = Message(With(obj[o].fields, name, v), obj[o].unknown)
    BY <1>1, RdmaSessionResponseOperations
  <2> HIDE DEF table, names
  <2> QED BY <2>2, <2>3, <2>4 DEF ObjectStep
<1>4. ASSUME NEW o \in Objects, SessionResponses!ClearObject(o) PROVE ObjectStep(table, names)
  <2>1. RdmaSessionResponse_Clear(obj[o]) = ZeroMessage(names) BY <1>1, RdmaSessionResponseOperations
  <2>2. obj' = [obj EXCEPT ![o] = ZeroMessage(names)]
    BY <1>4, <2>1, Zenon DEF SessionResponses!ClearObject
  <2> HIDE DEF table, names
  <2> QED BY <2>2 DEF ObjectStep
<1>5. ASSUME NEW o \in Objects, NEW p \in Objects, SessionResponses!Copy(o, p) PROVE ObjectStep(table, names)
  <2>1. RdmaSessionResponse_CopyFrom(obj[o], obj[p]) = obj[p] BY <1>1, RdmaSessionResponseOperations
  <2>2. obj' = [obj EXCEPT ![o] = obj[p]] BY <1>5, <2>1, Zenon DEF SessionResponses!Copy
  <2> HIDE DEF table, names
  <2> QED BY <2>2 DEF ObjectStep
<1>6. ASSUME NEW o \in Objects, NEW p \in Objects, SessionResponses!Merge(o, p) PROVE ObjectStep(table, names)
  <2>1. RdmaSessionResponse_MergeImpl(obj[o], obj[p]) = Merged(obj[o], obj[p], names)
    BY <1>1, RdmaSessionResponseOperations
  <2>2. obj' = [obj EXCEPT ![o] = Merged(obj[o], obj[p], names)]
    BY <1>6, <2>1, Zenon DEF SessionResponses!Merge
  <2> HIDE DEF table, names
  <2> QED BY <2>2 DEF ObjectStep
<1>7. ASSUME NEW o \in Objects, NEW p \in Objects, SessionResponses!Swap(o, p) PROVE ObjectStep(table, names)
  <2>1. /\ RdmaSessionResponse_InternalSwap(obj[o], obj[p]) = obj[p]
        /\ RdmaSessionResponse_InternalSwap(obj[p], obj[o]) = obj[o]
    BY <1>1, RdmaSessionResponseOperations
  <2>2. DOMAIN obj = Objects BY DEF MessageInv
  <2>3. o # p /\ obj' = [obj EXCEPT ![o] = obj[p], ![p] = obj[o]]
    BY <1>7, <2>1, <2>2 DEF SessionResponses!Swap
  <2> HIDE DEF table, names
  <2> QED BY <2>3 DEF ObjectStep
<1>8. ASSUME NEW o \in Objects, SessionResponses!Parse(o) PROVE ObjectStep(table, names)
  <2>1. RdmaSessionResponse_Clear(obj[o]) = ZeroMessage(names) BY <1>1, RdmaSessionResponseOperations
  <2>2. ASSUME NEW a, NEW b, NEW w
        PROVE  SessionResponses!MergeFromWire(a, b, w) = MergeFromWire(a, b, w)
    BY Zenon DEF SessionResponses!MergeFromWire, MergeFromWire, SessionResponses!ReadBytes, ReadBytes,
                 SessionResponses!ReadByte, ReadByte, SessionResponses!AtTag, AtTag,
                 SessionResponses!Stored, Stored, SessionResponses!FieldOf, FieldOf,
                 SessionResponses!NoField, NoField, SessionResponses!Limit, Limit,
                 SessionResponses!Wide, Wide, SessionResponses!Cardinality, Cardinality
  <2>3. posted # <<>> /\ obj' = [obj EXCEPT ![o] = MergeFromWire(table, ZeroMessage(names), wire)]
    BY <1>8, <2>1, <2>2, Zenon DEF SessionResponses!Parse
  <2> HIDE DEF table, names
  <2> QED BY <2>3 DEF ObjectStep
<1>9. ASSUME NEW o \in Objects, SessionResponses!Serialize(o) PROVE WireStep(table, RdmaSessionResponseNumbers)
  <2>1. RdmaSessionResponse_InternalSerialize(obj[o]) = Written(obj[o], RdmaSessionResponseNumbers)
    BY <1>1, RdmaSessionResponseOperations
  <2> QED BY <1>9, <2>1 DEF SessionResponses!Serialize, WireStep
<1>10. ASSUME SessionResponses!NewerPeer PROVE WireStep(table, RdmaSessionResponseNumbers)
  <2>1. \A n, v : SessionResponses!WriteUInt(n, v) = WriteUInt(n, v)
    BY DEF SessionResponses!WriteUInt, WriteUInt, SessionResponses!Varint, Varint
  <2>2. PICK n : n = SessionResponses!Min(RdmaSessionResponse_table.skipmap) OBVIOUS
  <2>3. /\ posted # <<>> /\ wire' = wire \o WriteUInt(n, Base)
        /\ posted' = <<[posted[1] EXCEPT !.unknown = Append(@, <<n, Base>>)]>>
    BY <1>10, <2>1, <2>2, Zenon DEF SessionResponses!NewerPeer
  <2>4. n \in Nat \ {0} /\ FieldOf(table, n) = NoField BY <2>2, RdmaSessionResponseNewer, Zenon
  <2> HIDE DEF table
  <2> QED BY <2>3, <2>4, Zenon DEF WireStep
<1> HIDE DEF table, names
<1>11. CASE \/ \E o \in Objects : SessionResponses!SetField(o) \/ SessionResponses!ClearObject(o) \/ SessionResponses!Parse(o)
            \/ \E o, p \in Objects : SessionResponses!Copy(o, p) \/ SessionResponses!Merge(o, p) \/ SessionResponses!Swap(o, p)
  <2>1. ObjectStep(table, names) BY <1>3, <1>4, <1>5, <1>6, <1>7, <1>8, <1>11
  <2>2. UNCHANGED <<wire, posted>>
    BY <1>11 DEF SessionResponses!SetField, SessionResponses!ClearObject, SessionResponses!Parse, SessionResponses!Copy, SessionResponses!Merge, SessionResponses!Swap
  <2> QED BY <2>1, <2>2 DEF MessageStep, table, names
<1>12. CASE SessionResponses!NewerPeer \/ \E o \in Objects : SessionResponses!Serialize(o)
  <2>1. WireStep(table, RdmaSessionResponseNumbers) BY <1>9, <1>10, <1>12
  <2>2. UNCHANGED obj BY <1>12 DEF SessionResponses!NewerPeer, SessionResponses!Serialize
  <2> QED BY <2>1, <2>2 DEF MessageStep, table, names
<1> QED BY <1>11, <1>12 DEF SessionResponses!Next

LEMMA BarrierRequestOperations ==
  ASSUME NEW m, IsMessage(m, BarrierRequest_table, BarrierRequestNames),
         NEW n, IsMessage(n, BarrierRequest_table, BarrierRequestNames)
  PROVE  /\ \A name, v : BarrierRequest_set(m, name, v)
                           = Message(With(m.fields, name, v), m.unknown)
         /\ BarrierRequest_Clear(m) = ZeroMessage(BarrierRequestNames)
         /\ BarrierRequest_MergeImpl(m, n) = Merged(m, n, BarrierRequestNames)
         /\ BarrierRequest_CopyFrom(m, n) = n
         /\ BarrierRequest_InternalSwap(m, n) = n
         /\ BarrierRequest_InternalSerialize(m) = Written(m, BarrierRequestNumbers)
<1>1. {"num_workers"} = BarrierRequestNames BY DEF BarrierRequestNames
<1>2. ASSUME NEW name, NEW v
      PROVE  BarrierRequest_set(m, name, v) = Message(With(m.fields, name, v), m.unknown)
  BY SetMessage, Zenon DEF BarrierRequest_set
<1>3. BarrierRequest_Clear(m) = ZeroMessage(BarrierRequestNames)
  BY <1>1, BarrierRequestMembers, ClearedMessage, Zenon DEF BarrierRequest_Clear
<1>4. \A a, b : BarrierRequest_MergeImpl(a, b) = Merged(a, b, BarrierRequestNames)
  BY <1>1, Zenon DEF BarrierRequest_MergeImpl
<1>5. BarrierRequest_CopyFrom(m, n) = n
  BY <1>3, <1>4, CopiedMessage, Zenon DEF BarrierRequest_CopyFrom
<1>6. BarrierRequest_InternalSwap(m, n) = n
  BY <1>1, BarrierRequestMembers, SwappedMessage, Zenon DEF BarrierRequest_InternalSwap
<1>7. BarrierRequest_InternalSerialize(m) = Written(m, BarrierRequestNumbers)
  BY Zenon DEF BarrierRequest_InternalSerialize, BarrierRequestNumbers
<1> QED BY <1>2, <1>3, <1>4, <1>5, <1>6, <1>7

\* The number that a newer peer uses is free.
LEMMA BarrierRequestNewer ==
  /\ BarrierRequests!Min(BarrierRequest_table.skipmap) \in Nat \ {0}
  /\ FieldOf(BarrierRequest_table, BarrierRequests!Min(BarrierRequest_table.skipmap)) = NoField
<1> DEFINE S == BarrierRequest_table.skipmap
<1>1. 2 \in S /\ \A y \in S : y \in Int /\ 2 <= y BY DEF BarrierRequest_table
<1>2. BarrierRequests!Min(S) = 2
  <2> HIDE DEF S
  <2> QED BY <1>1 DEF BarrierRequests!Min
<1>3. Len(BarrierRequest_table.fast) = 1 BY DEF BarrierRequest_table
<1>4. BarrierRequest_table.fast[1][1] # 2 BY DEF BarrierRequest_table, MiniParse
<1>5. FieldOf(BarrierRequest_table, 2) = NoField
  <2>1. 2 \notin (1 .. 32) \ BarrierRequest_table.skipmap BY <1>1
  <2>2. (2 % 1) + 1 = 1 OBVIOUS
  <2> QED BY <1>3, <1>4, <2>1, <2>2 DEF FieldOf
<1>6. 2 \in Nat \ {0} OBVIOUS
<1> QED BY <1>2, <1>5, <1>6, Zenon

LEMMA BarrierRequestStep ==
  ASSUME MessageInv(BarrierRequest_table, BarrierRequestNames), BarrierRequests!Next
  PROVE  MessageStep(BarrierRequest_table, BarrierRequestNumbers, BarrierRequestNames)
<1> DEFINE table == BarrierRequest_table
           names == BarrierRequestNames
<1>1. \A o \in Objects : IsMessage(obj[o], table, names) /\ DOMAIN obj[o].fields = names
  BY MessageParts DEF MessageInv
<1>2. \A name : BarrierRequests!Limit(name) = Limit(name)
  BY DEF BarrierRequests!Limit, Limit, BarrierRequests!Wide, Wide
<1>3. ASSUME NEW o \in Objects, BarrierRequests!SetField(o) PROVE ObjectStep(table, names)
  <2>1. PICK name \in names : \E v \in {0, 1, Base, Limit(name) - 1} :
           obj' = [obj EXCEPT ![o] = BarrierRequest_set(obj[o], name, v)]
    BY <1>1, <1>2, <1>3 DEF BarrierRequests!SetField
  <2>2. PICK v \in {0, 1, Base, Limit(name) - 1} :
           obj' = [obj EXCEPT ![o] = BarrierRequest_set(obj[o], name, v)]
    BY <2>1
  <2>3. v \in 0 .. Limit(name) - 1 BY WireAssumption DEF WireAssumption, Limit
  <2>4. BarrierRequest_set(obj[o], name, v) = Message(With(obj[o].fields, name, v), obj[o].unknown)
    BY <1>1, BarrierRequestOperations
  <2> HIDE DEF table, names
  <2> QED BY <2>2, <2>3, <2>4 DEF ObjectStep
<1>4. ASSUME NEW o \in Objects, BarrierRequests!ClearObject(o) PROVE ObjectStep(table, names)
  <2>1. BarrierRequest_Clear(obj[o]) = ZeroMessage(names) BY <1>1, BarrierRequestOperations
  <2>2. obj' = [obj EXCEPT ![o] = ZeroMessage(names)]
    BY <1>4, <2>1, Zenon DEF BarrierRequests!ClearObject
  <2> HIDE DEF table, names
  <2> QED BY <2>2 DEF ObjectStep
<1>5. ASSUME NEW o \in Objects, NEW p \in Objects, BarrierRequests!Copy(o, p) PROVE ObjectStep(table, names)
  <2>1. BarrierRequest_CopyFrom(obj[o], obj[p]) = obj[p] BY <1>1, BarrierRequestOperations
  <2>2. obj' = [obj EXCEPT ![o] = obj[p]] BY <1>5, <2>1, Zenon DEF BarrierRequests!Copy
  <2> HIDE DEF table, names
  <2> QED BY <2>2 DEF ObjectStep
<1>6. ASSUME NEW o \in Objects, NEW p \in Objects, BarrierRequests!Merge(o, p) PROVE ObjectStep(table, names)
  <2>1. BarrierRequest_MergeImpl(obj[o], obj[p]) = Merged(obj[o], obj[p], names)
    BY <1>1, BarrierRequestOperations
  <2>2. obj' = [obj EXCEPT ![o] = Merged(obj[o], obj[p], names)]
    BY <1>6, <2>1, Zenon DEF BarrierRequests!Merge
  <2> HIDE DEF table, names
  <2> QED BY <2>2 DEF ObjectStep
<1>7. ASSUME NEW o \in Objects, NEW p \in Objects, BarrierRequests!Swap(o, p) PROVE ObjectStep(table, names)
  <2>1. /\ BarrierRequest_InternalSwap(obj[o], obj[p]) = obj[p]
        /\ BarrierRequest_InternalSwap(obj[p], obj[o]) = obj[o]
    BY <1>1, BarrierRequestOperations
  <2>2. DOMAIN obj = Objects BY DEF MessageInv
  <2>3. o # p /\ obj' = [obj EXCEPT ![o] = obj[p], ![p] = obj[o]]
    BY <1>7, <2>1, <2>2 DEF BarrierRequests!Swap
  <2> HIDE DEF table, names
  <2> QED BY <2>3 DEF ObjectStep
<1>8. ASSUME NEW o \in Objects, BarrierRequests!Parse(o) PROVE ObjectStep(table, names)
  <2>1. BarrierRequest_Clear(obj[o]) = ZeroMessage(names) BY <1>1, BarrierRequestOperations
  <2>2. ASSUME NEW a, NEW b, NEW w
        PROVE  BarrierRequests!MergeFromWire(a, b, w) = MergeFromWire(a, b, w)
    BY Zenon DEF BarrierRequests!MergeFromWire, MergeFromWire, BarrierRequests!ReadBytes, ReadBytes,
                 BarrierRequests!ReadByte, ReadByte, BarrierRequests!AtTag, AtTag,
                 BarrierRequests!Stored, Stored, BarrierRequests!FieldOf, FieldOf,
                 BarrierRequests!NoField, NoField, BarrierRequests!Limit, Limit,
                 BarrierRequests!Wide, Wide, BarrierRequests!Cardinality, Cardinality
  <2>3. posted # <<>> /\ obj' = [obj EXCEPT ![o] = MergeFromWire(table, ZeroMessage(names), wire)]
    BY <1>8, <2>1, <2>2, Zenon DEF BarrierRequests!Parse
  <2> HIDE DEF table, names
  <2> QED BY <2>3 DEF ObjectStep
<1>9. ASSUME NEW o \in Objects, BarrierRequests!Serialize(o) PROVE WireStep(table, BarrierRequestNumbers)
  <2>1. BarrierRequest_InternalSerialize(obj[o]) = Written(obj[o], BarrierRequestNumbers)
    BY <1>1, BarrierRequestOperations
  <2> QED BY <1>9, <2>1 DEF BarrierRequests!Serialize, WireStep
<1>10. ASSUME BarrierRequests!NewerPeer PROVE WireStep(table, BarrierRequestNumbers)
  <2>1. \A n, v : BarrierRequests!WriteUInt(n, v) = WriteUInt(n, v)
    BY DEF BarrierRequests!WriteUInt, WriteUInt, BarrierRequests!Varint, Varint
  <2>2. PICK n : n = BarrierRequests!Min(BarrierRequest_table.skipmap) OBVIOUS
  <2>3. /\ posted # <<>> /\ wire' = wire \o WriteUInt(n, Base)
        /\ posted' = <<[posted[1] EXCEPT !.unknown = Append(@, <<n, Base>>)]>>
    BY <1>10, <2>1, <2>2, Zenon DEF BarrierRequests!NewerPeer
  <2>4. n \in Nat \ {0} /\ FieldOf(table, n) = NoField BY <2>2, BarrierRequestNewer, Zenon
  <2> HIDE DEF table
  <2> QED BY <2>3, <2>4, Zenon DEF WireStep
<1> HIDE DEF table, names
<1>11. CASE \/ \E o \in Objects : BarrierRequests!SetField(o) \/ BarrierRequests!ClearObject(o) \/ BarrierRequests!Parse(o)
            \/ \E o, p \in Objects : BarrierRequests!Copy(o, p) \/ BarrierRequests!Merge(o, p) \/ BarrierRequests!Swap(o, p)
  <2>1. ObjectStep(table, names) BY <1>3, <1>4, <1>5, <1>6, <1>7, <1>8, <1>11
  <2>2. UNCHANGED <<wire, posted>>
    BY <1>11 DEF BarrierRequests!SetField, BarrierRequests!ClearObject, BarrierRequests!Parse, BarrierRequests!Copy, BarrierRequests!Merge, BarrierRequests!Swap
  <2> QED BY <2>1, <2>2 DEF MessageStep, table, names
<1>12. CASE BarrierRequests!NewerPeer \/ \E o \in Objects : BarrierRequests!Serialize(o)
  <2>1. WireStep(table, BarrierRequestNumbers) BY <1>9, <1>10, <1>12
  <2>2. UNCHANGED obj BY <1>12 DEF BarrierRequests!NewerPeer, BarrierRequests!Serialize
  <2> QED BY <2>1, <2>2 DEF MessageStep, table, names
<1> QED BY <1>11, <1>12 DEF BarrierRequests!Next

LEMMA BroadcastRequestOperations ==
  ASSUME NEW m, IsMessage(m, BroadcastRequest_table, BroadcastRequestNames),
         NEW n, IsMessage(n, BroadcastRequest_table, BroadcastRequestNames)
  PROVE  /\ \A name, v : BroadcastRequest_set(m, name, v)
                           = Message(With(m.fields, name, v), m.unknown)
         /\ BroadcastRequest_Clear(m) = ZeroMessage(BroadcastRequestNames)
         /\ BroadcastRequest_MergeImpl(m, n) = Merged(m, n, BroadcastRequestNames)
         /\ BroadcastRequest_CopyFrom(m, n) = n
         /\ BroadcastRequest_InternalSwap(m, n) = n
         /\ BroadcastRequest_InternalSerialize(m) = Written(m, BroadcastRequestNumbers)
<1>1. Range(BroadcastRequest_Impl) = BroadcastRequestNames BY BroadcastRequestMembers
<1>2. ASSUME NEW name, NEW v
      PROVE  BroadcastRequest_set(m, name, v) = Message(With(m.fields, name, v), m.unknown)
  BY SetMessage, Zenon DEF BroadcastRequest_set
<1>3. BroadcastRequest_Clear(m) = ZeroMessage(BroadcastRequestNames)
  BY <1>1, BroadcastRequestMembers, ClearedMessage, Zenon DEF BroadcastRequest_Clear
<1>4. \A a, b : BroadcastRequest_MergeImpl(a, b) = Merged(a, b, BroadcastRequestNames)
  BY <1>1, Zenon DEF BroadcastRequest_MergeImpl
<1>5. BroadcastRequest_CopyFrom(m, n) = n
  BY <1>3, <1>4, CopiedMessage, Zenon DEF BroadcastRequest_CopyFrom
<1>6. BroadcastRequest_InternalSwap(m, n) = n
  BY <1>1, BroadcastRequestMembers, SwappedMessage, Zenon DEF BroadcastRequest_InternalSwap
<1>7. BroadcastRequest_InternalSerialize(m) = Written(m, BroadcastRequestNumbers)
  BY Zenon DEF BroadcastRequest_InternalSerialize, BroadcastRequestNumbers
<1> QED BY <1>2, <1>3, <1>4, <1>5, <1>6, <1>7

\* The number that a newer peer uses is free.
LEMMA BroadcastRequestNewer ==
  /\ BroadcastRequests!Min(BroadcastRequest_table.skipmap) \in Nat \ {0}
  /\ FieldOf(BroadcastRequest_table, BroadcastRequests!Min(BroadcastRequest_table.skipmap)) = NoField
<1> DEFINE S == BroadcastRequest_table.skipmap
<1>1. 5 \in S /\ \A y \in S : y \in Int /\ 5 <= y BY DEF BroadcastRequest_table
<1>2. BroadcastRequests!Min(S) = 5
  <2> HIDE DEF S
  <2> QED BY <1>1 DEF BroadcastRequests!Min
<1>3. Len(BroadcastRequest_table.fast) = 4 BY DEF BroadcastRequest_table
<1>4. BroadcastRequest_table.fast[2][1] # 5 BY DEF BroadcastRequest_table, MiniParse
<1>5. FieldOf(BroadcastRequest_table, 5) = NoField
  <2>1. 5 \notin (1 .. 32) \ BroadcastRequest_table.skipmap BY <1>1
  <2>2. (5 % 4) + 1 = 2 OBVIOUS
  <2> QED BY <1>3, <1>4, <2>1, <2>2 DEF FieldOf
<1>6. 5 \in Nat \ {0} OBVIOUS
<1> QED BY <1>2, <1>5, <1>6, Zenon

LEMMA BroadcastRequestStep ==
  ASSUME MessageInv(BroadcastRequest_table, BroadcastRequestNames), BroadcastRequests!Next
  PROVE  MessageStep(BroadcastRequest_table, BroadcastRequestNumbers, BroadcastRequestNames)
<1> DEFINE table == BroadcastRequest_table
           names == BroadcastRequestNames
<1>1. \A o \in Objects : IsMessage(obj[o], table, names) /\ DOMAIN obj[o].fields = names
  BY MessageParts DEF MessageInv
<1>2. \A name : BroadcastRequests!Limit(name) = Limit(name)
  BY DEF BroadcastRequests!Limit, Limit, BroadcastRequests!Wide, Wide
<1>3. ASSUME NEW o \in Objects, BroadcastRequests!SetField(o) PROVE ObjectStep(table, names)
  <2>1. PICK name \in names : \E v \in {0, 1, Base, Limit(name) - 1} :
           obj' = [obj EXCEPT ![o] = BroadcastRequest_set(obj[o], name, v)]
    BY <1>1, <1>2, <1>3 DEF BroadcastRequests!SetField
  <2>2. PICK v \in {0, 1, Base, Limit(name) - 1} :
           obj' = [obj EXCEPT ![o] = BroadcastRequest_set(obj[o], name, v)]
    BY <2>1
  <2>3. v \in 0 .. Limit(name) - 1 BY WireAssumption DEF WireAssumption, Limit
  <2>4. BroadcastRequest_set(obj[o], name, v) = Message(With(obj[o].fields, name, v), obj[o].unknown)
    BY <1>1, BroadcastRequestOperations
  <2> HIDE DEF table, names
  <2> QED BY <2>2, <2>3, <2>4 DEF ObjectStep
<1>4. ASSUME NEW o \in Objects, BroadcastRequests!ClearObject(o) PROVE ObjectStep(table, names)
  <2>1. BroadcastRequest_Clear(obj[o]) = ZeroMessage(names) BY <1>1, BroadcastRequestOperations
  <2>2. obj' = [obj EXCEPT ![o] = ZeroMessage(names)]
    BY <1>4, <2>1, Zenon DEF BroadcastRequests!ClearObject
  <2> HIDE DEF table, names
  <2> QED BY <2>2 DEF ObjectStep
<1>5. ASSUME NEW o \in Objects, NEW p \in Objects, BroadcastRequests!Copy(o, p) PROVE ObjectStep(table, names)
  <2>1. BroadcastRequest_CopyFrom(obj[o], obj[p]) = obj[p] BY <1>1, BroadcastRequestOperations
  <2>2. obj' = [obj EXCEPT ![o] = obj[p]] BY <1>5, <2>1, Zenon DEF BroadcastRequests!Copy
  <2> HIDE DEF table, names
  <2> QED BY <2>2 DEF ObjectStep
<1>6. ASSUME NEW o \in Objects, NEW p \in Objects, BroadcastRequests!Merge(o, p) PROVE ObjectStep(table, names)
  <2>1. BroadcastRequest_MergeImpl(obj[o], obj[p]) = Merged(obj[o], obj[p], names)
    BY <1>1, BroadcastRequestOperations
  <2>2. obj' = [obj EXCEPT ![o] = Merged(obj[o], obj[p], names)]
    BY <1>6, <2>1, Zenon DEF BroadcastRequests!Merge
  <2> HIDE DEF table, names
  <2> QED BY <2>2 DEF ObjectStep
<1>7. ASSUME NEW o \in Objects, NEW p \in Objects, BroadcastRequests!Swap(o, p) PROVE ObjectStep(table, names)
  <2>1. /\ BroadcastRequest_InternalSwap(obj[o], obj[p]) = obj[p]
        /\ BroadcastRequest_InternalSwap(obj[p], obj[o]) = obj[o]
    BY <1>1, BroadcastRequestOperations
  <2>2. DOMAIN obj = Objects BY DEF MessageInv
  <2>3. o # p /\ obj' = [obj EXCEPT ![o] = obj[p], ![p] = obj[o]]
    BY <1>7, <2>1, <2>2 DEF BroadcastRequests!Swap
  <2> HIDE DEF table, names
  <2> QED BY <2>3 DEF ObjectStep
<1>8. ASSUME NEW o \in Objects, BroadcastRequests!Parse(o) PROVE ObjectStep(table, names)
  <2>1. BroadcastRequest_Clear(obj[o]) = ZeroMessage(names) BY <1>1, BroadcastRequestOperations
  <2>2. ASSUME NEW a, NEW b, NEW w
        PROVE  BroadcastRequests!MergeFromWire(a, b, w) = MergeFromWire(a, b, w)
    BY Zenon DEF BroadcastRequests!MergeFromWire, MergeFromWire, BroadcastRequests!ReadBytes, ReadBytes,
                 BroadcastRequests!ReadByte, ReadByte, BroadcastRequests!AtTag, AtTag,
                 BroadcastRequests!Stored, Stored, BroadcastRequests!FieldOf, FieldOf,
                 BroadcastRequests!NoField, NoField, BroadcastRequests!Limit, Limit,
                 BroadcastRequests!Wide, Wide, BroadcastRequests!Cardinality, Cardinality
  <2>3. posted # <<>> /\ obj' = [obj EXCEPT ![o] = MergeFromWire(table, ZeroMessage(names), wire)]
    BY <1>8, <2>1, <2>2, Zenon DEF BroadcastRequests!Parse
  <2> HIDE DEF table, names
  <2> QED BY <2>3 DEF ObjectStep
<1>9. ASSUME NEW o \in Objects, BroadcastRequests!Serialize(o) PROVE WireStep(table, BroadcastRequestNumbers)
  <2>1. BroadcastRequest_InternalSerialize(obj[o]) = Written(obj[o], BroadcastRequestNumbers)
    BY <1>1, BroadcastRequestOperations
  <2> QED BY <1>9, <2>1 DEF BroadcastRequests!Serialize, WireStep
<1>10. ASSUME BroadcastRequests!NewerPeer PROVE WireStep(table, BroadcastRequestNumbers)
  <2>1. \A n, v : BroadcastRequests!WriteUInt(n, v) = WriteUInt(n, v)
    BY DEF BroadcastRequests!WriteUInt, WriteUInt, BroadcastRequests!Varint, Varint
  <2>2. PICK n : n = BroadcastRequests!Min(BroadcastRequest_table.skipmap) OBVIOUS
  <2>3. /\ posted # <<>> /\ wire' = wire \o WriteUInt(n, Base)
        /\ posted' = <<[posted[1] EXCEPT !.unknown = Append(@, <<n, Base>>)]>>
    BY <1>10, <2>1, <2>2, Zenon DEF BroadcastRequests!NewerPeer
  <2>4. n \in Nat \ {0} /\ FieldOf(table, n) = NoField BY <2>2, BroadcastRequestNewer, Zenon
  <2> HIDE DEF table
  <2> QED BY <2>3, <2>4, Zenon DEF WireStep
<1> HIDE DEF table, names
<1>11. CASE \/ \E o \in Objects : BroadcastRequests!SetField(o) \/ BroadcastRequests!ClearObject(o) \/ BroadcastRequests!Parse(o)
            \/ \E o, p \in Objects : BroadcastRequests!Copy(o, p) \/ BroadcastRequests!Merge(o, p) \/ BroadcastRequests!Swap(o, p)
  <2>1. ObjectStep(table, names) BY <1>3, <1>4, <1>5, <1>6, <1>7, <1>8, <1>11
  <2>2. UNCHANGED <<wire, posted>>
    BY <1>11 DEF BroadcastRequests!SetField, BroadcastRequests!ClearObject, BroadcastRequests!Parse, BroadcastRequests!Copy, BroadcastRequests!Merge, BroadcastRequests!Swap
  <2> QED BY <2>1, <2>2 DEF MessageStep, table, names
<1>12. CASE BroadcastRequests!NewerPeer \/ \E o \in Objects : BroadcastRequests!Serialize(o)
  <2>1. WireStep(table, BroadcastRequestNumbers) BY <1>9, <1>10, <1>12
  <2>2. UNCHANGED obj BY <1>12 DEF BroadcastRequests!NewerPeer, BroadcastRequests!Serialize
  <2> QED BY <2>1, <2>2 DEF MessageStep, table, names
<1> QED BY <1>11, <1>12 DEF BroadcastRequests!Next

LEMMA BroadcastResponseOperations ==
  ASSUME NEW m, IsMessage(m, BroadcastResponse_table, BroadcastResponseNames),
         NEW n, IsMessage(n, BroadcastResponse_table, BroadcastResponseNames)
  PROVE  /\ \A name, v : BroadcastResponse_set(m, name, v)
                           = Message(With(m.fields, name, v), m.unknown)
         /\ BroadcastResponse_Clear(m) = ZeroMessage(BroadcastResponseNames)
         /\ BroadcastResponse_MergeImpl(m, n) = Merged(m, n, BroadcastResponseNames)
         /\ BroadcastResponse_CopyFrom(m, n) = n
         /\ BroadcastResponse_InternalSwap(m, n) = n
         /\ BroadcastResponse_InternalSerialize(m) = Written(m, BroadcastResponseNumbers)
<1>1. {"value"} = BroadcastResponseNames BY DEF BroadcastResponseNames
<1>2. ASSUME NEW name, NEW v
      PROVE  BroadcastResponse_set(m, name, v) = Message(With(m.fields, name, v), m.unknown)
  BY SetMessage, Zenon DEF BroadcastResponse_set
<1>3. BroadcastResponse_Clear(m) = ZeroMessage(BroadcastResponseNames)
  BY <1>1, BroadcastResponseMembers, ClearedMessage, Zenon DEF BroadcastResponse_Clear
<1>4. \A a, b : BroadcastResponse_MergeImpl(a, b) = Merged(a, b, BroadcastResponseNames)
  BY <1>1, Zenon DEF BroadcastResponse_MergeImpl
<1>5. BroadcastResponse_CopyFrom(m, n) = n
  BY <1>3, <1>4, CopiedMessage, Zenon DEF BroadcastResponse_CopyFrom
<1>6. BroadcastResponse_InternalSwap(m, n) = n
  BY <1>1, BroadcastResponseMembers, SwappedMessage, Zenon DEF BroadcastResponse_InternalSwap
<1>7. BroadcastResponse_InternalSerialize(m) = Written(m, BroadcastResponseNumbers)
  BY Zenon DEF BroadcastResponse_InternalSerialize, BroadcastResponseNumbers
<1> QED BY <1>2, <1>3, <1>4, <1>5, <1>6, <1>7

\* The number that a newer peer uses is free.
LEMMA BroadcastResponseNewer ==
  /\ BroadcastResponses!Min(BroadcastResponse_table.skipmap) \in Nat \ {0}
  /\ FieldOf(BroadcastResponse_table, BroadcastResponses!Min(BroadcastResponse_table.skipmap)) = NoField
<1> DEFINE S == BroadcastResponse_table.skipmap
<1>1. 2 \in S /\ \A y \in S : y \in Int /\ 2 <= y BY DEF BroadcastResponse_table
<1>2. BroadcastResponses!Min(S) = 2
  <2> HIDE DEF S
  <2> QED BY <1>1 DEF BroadcastResponses!Min
<1>3. Len(BroadcastResponse_table.fast) = 1 BY DEF BroadcastResponse_table
<1>4. BroadcastResponse_table.fast[1][1] # 2 BY DEF BroadcastResponse_table, MiniParse
<1>5. FieldOf(BroadcastResponse_table, 2) = NoField
  <2>1. 2 \notin (1 .. 32) \ BroadcastResponse_table.skipmap BY <1>1
  <2>2. (2 % 1) + 1 = 1 OBVIOUS
  <2> QED BY <1>3, <1>4, <2>1, <2>2 DEF FieldOf
<1>6. 2 \in Nat \ {0} OBVIOUS
<1> QED BY <1>2, <1>5, <1>6, Zenon

LEMMA BroadcastResponseStep ==
  ASSUME MessageInv(BroadcastResponse_table, BroadcastResponseNames), BroadcastResponses!Next
  PROVE  MessageStep(BroadcastResponse_table, BroadcastResponseNumbers, BroadcastResponseNames)
<1> DEFINE table == BroadcastResponse_table
           names == BroadcastResponseNames
<1>1. \A o \in Objects : IsMessage(obj[o], table, names) /\ DOMAIN obj[o].fields = names
  BY MessageParts DEF MessageInv
<1>2. \A name : BroadcastResponses!Limit(name) = Limit(name)
  BY DEF BroadcastResponses!Limit, Limit, BroadcastResponses!Wide, Wide
<1>3. ASSUME NEW o \in Objects, BroadcastResponses!SetField(o) PROVE ObjectStep(table, names)
  <2>1. PICK name \in names : \E v \in {0, 1, Base, Limit(name) - 1} :
           obj' = [obj EXCEPT ![o] = BroadcastResponse_set(obj[o], name, v)]
    BY <1>1, <1>2, <1>3 DEF BroadcastResponses!SetField
  <2>2. PICK v \in {0, 1, Base, Limit(name) - 1} :
           obj' = [obj EXCEPT ![o] = BroadcastResponse_set(obj[o], name, v)]
    BY <2>1
  <2>3. v \in 0 .. Limit(name) - 1 BY WireAssumption DEF WireAssumption, Limit
  <2>4. BroadcastResponse_set(obj[o], name, v) = Message(With(obj[o].fields, name, v), obj[o].unknown)
    BY <1>1, BroadcastResponseOperations
  <2> HIDE DEF table, names
  <2> QED BY <2>2, <2>3, <2>4 DEF ObjectStep
<1>4. ASSUME NEW o \in Objects, BroadcastResponses!ClearObject(o) PROVE ObjectStep(table, names)
  <2>1. BroadcastResponse_Clear(obj[o]) = ZeroMessage(names) BY <1>1, BroadcastResponseOperations
  <2>2. obj' = [obj EXCEPT ![o] = ZeroMessage(names)]
    BY <1>4, <2>1, Zenon DEF BroadcastResponses!ClearObject
  <2> HIDE DEF table, names
  <2> QED BY <2>2 DEF ObjectStep
<1>5. ASSUME NEW o \in Objects, NEW p \in Objects, BroadcastResponses!Copy(o, p) PROVE ObjectStep(table, names)
  <2>1. BroadcastResponse_CopyFrom(obj[o], obj[p]) = obj[p] BY <1>1, BroadcastResponseOperations
  <2>2. obj' = [obj EXCEPT ![o] = obj[p]] BY <1>5, <2>1, Zenon DEF BroadcastResponses!Copy
  <2> HIDE DEF table, names
  <2> QED BY <2>2 DEF ObjectStep
<1>6. ASSUME NEW o \in Objects, NEW p \in Objects, BroadcastResponses!Merge(o, p) PROVE ObjectStep(table, names)
  <2>1. BroadcastResponse_MergeImpl(obj[o], obj[p]) = Merged(obj[o], obj[p], names)
    BY <1>1, BroadcastResponseOperations
  <2>2. obj' = [obj EXCEPT ![o] = Merged(obj[o], obj[p], names)]
    BY <1>6, <2>1, Zenon DEF BroadcastResponses!Merge
  <2> HIDE DEF table, names
  <2> QED BY <2>2 DEF ObjectStep
<1>7. ASSUME NEW o \in Objects, NEW p \in Objects, BroadcastResponses!Swap(o, p) PROVE ObjectStep(table, names)
  <2>1. /\ BroadcastResponse_InternalSwap(obj[o], obj[p]) = obj[p]
        /\ BroadcastResponse_InternalSwap(obj[p], obj[o]) = obj[o]
    BY <1>1, BroadcastResponseOperations
  <2>2. DOMAIN obj = Objects BY DEF MessageInv
  <2>3. o # p /\ obj' = [obj EXCEPT ![o] = obj[p], ![p] = obj[o]]
    BY <1>7, <2>1, <2>2 DEF BroadcastResponses!Swap
  <2> HIDE DEF table, names
  <2> QED BY <2>3 DEF ObjectStep
<1>8. ASSUME NEW o \in Objects, BroadcastResponses!Parse(o) PROVE ObjectStep(table, names)
  <2>1. BroadcastResponse_Clear(obj[o]) = ZeroMessage(names) BY <1>1, BroadcastResponseOperations
  <2>2. ASSUME NEW a, NEW b, NEW w
        PROVE  BroadcastResponses!MergeFromWire(a, b, w) = MergeFromWire(a, b, w)
    BY Zenon DEF BroadcastResponses!MergeFromWire, MergeFromWire, BroadcastResponses!ReadBytes, ReadBytes,
                 BroadcastResponses!ReadByte, ReadByte, BroadcastResponses!AtTag, AtTag,
                 BroadcastResponses!Stored, Stored, BroadcastResponses!FieldOf, FieldOf,
                 BroadcastResponses!NoField, NoField, BroadcastResponses!Limit, Limit,
                 BroadcastResponses!Wide, Wide, BroadcastResponses!Cardinality, Cardinality
  <2>3. posted # <<>> /\ obj' = [obj EXCEPT ![o] = MergeFromWire(table, ZeroMessage(names), wire)]
    BY <1>8, <2>1, <2>2, Zenon DEF BroadcastResponses!Parse
  <2> HIDE DEF table, names
  <2> QED BY <2>3 DEF ObjectStep
<1>9. ASSUME NEW o \in Objects, BroadcastResponses!Serialize(o) PROVE WireStep(table, BroadcastResponseNumbers)
  <2>1. BroadcastResponse_InternalSerialize(obj[o]) = Written(obj[o], BroadcastResponseNumbers)
    BY <1>1, BroadcastResponseOperations
  <2> QED BY <1>9, <2>1 DEF BroadcastResponses!Serialize, WireStep
<1>10. ASSUME BroadcastResponses!NewerPeer PROVE WireStep(table, BroadcastResponseNumbers)
  <2>1. \A n, v : BroadcastResponses!WriteUInt(n, v) = WriteUInt(n, v)
    BY DEF BroadcastResponses!WriteUInt, WriteUInt, BroadcastResponses!Varint, Varint
  <2>2. PICK n : n = BroadcastResponses!Min(BroadcastResponse_table.skipmap) OBVIOUS
  <2>3. /\ posted # <<>> /\ wire' = wire \o WriteUInt(n, Base)
        /\ posted' = <<[posted[1] EXCEPT !.unknown = Append(@, <<n, Base>>)]>>
    BY <1>10, <2>1, <2>2, Zenon DEF BroadcastResponses!NewerPeer
  <2>4. n \in Nat \ {0} /\ FieldOf(table, n) = NoField BY <2>2, BroadcastResponseNewer, Zenon
  <2> HIDE DEF table
  <2> QED BY <2>3, <2>4, Zenon DEF WireStep
<1> HIDE DEF table, names
<1>11. CASE \/ \E o \in Objects : BroadcastResponses!SetField(o) \/ BroadcastResponses!ClearObject(o) \/ BroadcastResponses!Parse(o)
            \/ \E o, p \in Objects : BroadcastResponses!Copy(o, p) \/ BroadcastResponses!Merge(o, p) \/ BroadcastResponses!Swap(o, p)
  <2>1. ObjectStep(table, names) BY <1>3, <1>4, <1>5, <1>6, <1>7, <1>8, <1>11
  <2>2. UNCHANGED <<wire, posted>>
    BY <1>11 DEF BroadcastResponses!SetField, BroadcastResponses!ClearObject, BroadcastResponses!Parse, BroadcastResponses!Copy, BroadcastResponses!Merge, BroadcastResponses!Swap
  <2> QED BY <2>1, <2>2 DEF MessageStep, table, names
<1>12. CASE BroadcastResponses!NewerPeer \/ \E o \in Objects : BroadcastResponses!Serialize(o)
  <2>1. WireStep(table, BroadcastResponseNumbers) BY <1>9, <1>10, <1>12
  <2>2. UNCHANGED obj BY <1>12 DEF BroadcastResponses!NewerPeer, BroadcastResponses!Serialize
  <2> QED BY <2>1, <2>2 DEF MessageStep, table, names
<1> QED BY <1>11, <1>12 DEF BroadcastResponses!Next

----------------------------------------------------------------------------
(* The refinement.                                                         *)

\* New objects have no value yet.
LEMMA ObjectsStart ==
  ASSUME NEW table, NEW names, posted = <<>>, obj = [o \in Objects |-> ZeroMessage(names)]
  PROVE  MessageInv(table, names) /\ Values!Init
<1>1. DOMAIN obj = Objects /\ \A o \in Objects : obj[o] = ZeroMessage(names) OBVIOUS
<1>2. MessageInv(table, names) BY <1>1, ZeroIsMessage DEF MessageInv
<1>3. Values!Empty(ZeroMessage(names)) = ZeroMessage(names)
  BY DEF Values!Empty, ZeroMessage, Message
<1> QED BY <1>1, <1>2, <1>3 DEF Values!Init

LEMMA ClassInit == Init => ClassInv /\ Values!Init
<1>1. class = "RdmaSessionRequest" /\ SessionRequests!Init => ClassInv /\ Values!Init
  BY RdmaSessionRequestCtor, ObjectsStart DEF SessionRequests!Init, ClassInv
<1>2. class = "RdmaSessionResponse" /\ SessionResponses!Init => ClassInv /\ Values!Init
  BY RdmaSessionResponseCtor, ObjectsStart DEF SessionResponses!Init, ClassInv
<1>3. class = "BarrierRequest" /\ BarrierRequests!Init => ClassInv /\ Values!Init
  BY BarrierRequestCtor, ObjectsStart DEF BarrierRequests!Init, ClassInv
<1>4. class = "BroadcastRequest" /\ BroadcastRequests!Init => ClassInv /\ Values!Init
  BY BroadcastRequestCtor, ObjectsStart DEF BroadcastRequests!Init, ClassInv
<1>5. class = "BroadcastResponse" /\ BroadcastResponses!Init => ClassInv /\ Values!Init
  BY BroadcastResponseCtor, ObjectsStart DEF BroadcastResponses!Init, ClassInv
<1> QED BY <1>1, <1>2, <1>3, <1>4, <1>5 DEF Init

\* No step changes the class, and the steps of each are steps of MessageValues.
LEMMA ClassStep == ClassInv /\ [Next]_vars => ClassInv' /\ [Values!Next]_<<obj, posted>>
<1> SUFFICES ASSUME ClassInv, [Next]_vars PROVE ClassInv' /\ [Values!Next]_<<obj, posted>>
  OBVIOUS
<1>1. CASE UNCHANGED vars
  <2>1. UNCHANGED <<class, obj, wire, posted>> BY <1>1 DEF vars
  <2>2. \A table, names : MessageInv(table, names) => MessageInv(table, names)'
    BY <2>1 DEF MessageInv
  <2> QED BY <2>1, <2>2 DEF ClassInv
<1>2. CASE Next
  <2>1. class' = class BY <1>2 DEF Next
  <2>2. CASE class = "RdmaSessionRequest"
    <3>1. MessageInv(RdmaSessionRequest_table, RdmaSessionRequestNames) /\ SessionRequests!Next BY <1>2, <2>2 DEF ClassInv, Next
    <3>2. MessageInv(RdmaSessionRequest_table, RdmaSessionRequestNames)' /\ Values!Next
      BY <3>1, RdmaSessionRequestStep, RdmaSessionRequestComplete, MessageStepRefines
    <3> QED BY <2>1, <2>2, <3>2 DEF ClassInv
  <2>3. CASE class = "RdmaSessionResponse"
    <3>1. MessageInv(RdmaSessionResponse_table, RdmaSessionResponseNames) /\ SessionResponses!Next BY <1>2, <2>3 DEF ClassInv, Next
    <3>2. MessageInv(RdmaSessionResponse_table, RdmaSessionResponseNames)' /\ Values!Next
      BY <3>1, RdmaSessionResponseStep, RdmaSessionResponseComplete, MessageStepRefines
    <3> QED BY <2>1, <2>3, <3>2 DEF ClassInv
  <2>4. CASE class = "BarrierRequest"
    <3>1. MessageInv(BarrierRequest_table, BarrierRequestNames) /\ BarrierRequests!Next BY <1>2, <2>4 DEF ClassInv, Next
    <3>2. MessageInv(BarrierRequest_table, BarrierRequestNames)' /\ Values!Next
      BY <3>1, BarrierRequestStep, BarrierRequestComplete, MessageStepRefines
    <3> QED BY <2>1, <2>4, <3>2 DEF ClassInv
  <2>5. CASE class = "BroadcastRequest"
    <3>1. MessageInv(BroadcastRequest_table, BroadcastRequestNames) /\ BroadcastRequests!Next BY <1>2, <2>5 DEF ClassInv, Next
    <3>2. MessageInv(BroadcastRequest_table, BroadcastRequestNames)' /\ Values!Next
      BY <3>1, BroadcastRequestStep, BroadcastRequestComplete, MessageStepRefines
    <3> QED BY <2>1, <2>5, <3>2 DEF ClassInv
  <2>6. CASE class = "BroadcastResponse"
    <3>1. MessageInv(BroadcastResponse_table, BroadcastResponseNames) /\ BroadcastResponses!Next BY <1>2, <2>6 DEF ClassInv, Next
    <3>2. MessageInv(BroadcastResponse_table, BroadcastResponseNames)' /\ Values!Next
      BY <3>1, BroadcastResponseStep, BroadcastResponseComplete, MessageStepRefines
    <3> QED BY <2>1, <2>6, <3>2 DEF ClassInv
  <2> QED BY <2>2, <2>3, <2>4, <2>5, <2>6 DEF ClassInv
<1> QED BY <1>1, <1>2

\* The objects are messages of their class and the bytes on the wire are those
\* of the message posted last, after any calls in any order.
THEOREM ClassInvariant == Spec => []ClassInv
<1>1. Init => ClassInv BY ClassInit
<1>2. ClassInv /\ [Next]_vars => ClassInv' BY ClassStep
<1> QED BY <1>1, <1>2, PTL DEF Spec

\* Each generated class, used by any number of objects in any order of calls,
\* behaves as if its objects held values: parsing takes the value that was
\* serialized, and Clear, CopyFrom, MergeFrom and Swap, which go by the places
\* of the members in memory, miss none.
THEOREM MessagesImplementValues == Spec => ImplementsValues
<1>1. Init => Values!Init BY ClassInit
<1>2. ClassInv /\ [Next]_vars => [Values!Next]_<<obj, posted>> BY ClassStep
<1> QED BY <1>1, <1>2, ClassInvariant, PTL DEF Spec, ImplementsValues, Values!Spec

----------------------------------------------------------------------------
(* The size of the buffer.                                                 *)

LEMMA SizeInit == Init => SizeAnnounced
<1>1. SessionRequests!Init => SizeAnnounced BY DEF SessionRequests!Init, SizeAnnounced
<1>2. SessionResponses!Init => SizeAnnounced BY DEF SessionResponses!Init, SizeAnnounced
<1>3. BarrierRequests!Init => SizeAnnounced BY DEF BarrierRequests!Init, SizeAnnounced
<1>4. BroadcastRequests!Init => SizeAnnounced BY DEF BroadcastRequests!Init, SizeAnnounced
<1>5. BroadcastResponses!Init => SizeAnnounced BY DEF BroadcastResponses!Init, SizeAnnounced
<1> QED BY <1>1, <1>2, <1>3, <1>4, <1>5 DEF Init

LEMMA RdmaSessionRequestSize ==
  ASSUME MessageInv(RdmaSessionRequest_table, RdmaSessionRequestNames), SessionRequests!Next, SizeAnnounced
  PROVE  SizeAnnounced'
<1>1. ASSUME NEW o \in Objects, SessionRequests!Serialize(o) PROVE SizeAnnounced'
  <2>1. IsMessage(obj[o], RdmaSessionRequest_table, RdmaSessionRequestNames) BY DEF MessageInv
  <2>2. RdmaSessionRequest_ByteSizeLong(obj[o]) = Len(RdmaSessionRequest_InternalSerialize(obj[o]))
    BY <2>1, GeneratedSizes
  <2> QED BY <1>1, <2>2, Zenon DEF SessionRequests!Serialize, SizeAnnounced
<1>2. ASSUME SessionRequests!NewerPeer PROVE SizeAnnounced'
  BY <1>2, Zenon DEF SessionRequests!NewerPeer, SizeAnnounced
<1>3. ASSUME UNCHANGED <<wire, size>> PROVE SizeAnnounced'
  BY <1>3 DEF SizeAnnounced
<1>4. CASE \/ \E o \in Objects : SessionRequests!SetField(o) \/ SessionRequests!ClearObject(o) \/ SessionRequests!Parse(o)
           \/ \E o, p \in Objects : SessionRequests!Copy(o, p) \/ SessionRequests!Merge(o, p) \/ SessionRequests!Swap(o, p)
  <2>1. UNCHANGED <<wire, size>>
    BY <1>4 DEF SessionRequests!SetField, SessionRequests!ClearObject, SessionRequests!Parse,
                SessionRequests!Copy, SessionRequests!Merge, SessionRequests!Swap
  <2> QED BY <1>3, <2>1
<1> QED BY <1>1, <1>2, <1>4 DEF SessionRequests!Next

LEMMA RdmaSessionResponseSize ==
  ASSUME MessageInv(RdmaSessionResponse_table, RdmaSessionResponseNames), SessionResponses!Next, SizeAnnounced
  PROVE  SizeAnnounced'
<1>1. ASSUME NEW o \in Objects, SessionResponses!Serialize(o) PROVE SizeAnnounced'
  <2>1. IsMessage(obj[o], RdmaSessionResponse_table, RdmaSessionResponseNames) BY DEF MessageInv
  <2>2. RdmaSessionResponse_ByteSizeLong(obj[o]) = Len(RdmaSessionResponse_InternalSerialize(obj[o]))
    BY <2>1, GeneratedSizes
  <2> QED BY <1>1, <2>2, Zenon DEF SessionResponses!Serialize, SizeAnnounced
<1>2. ASSUME SessionResponses!NewerPeer PROVE SizeAnnounced'
  BY <1>2, Zenon DEF SessionResponses!NewerPeer, SizeAnnounced
<1>3. ASSUME UNCHANGED <<wire, size>> PROVE SizeAnnounced'
  BY <1>3 DEF SizeAnnounced
<1>4. CASE \/ \E o \in Objects : SessionResponses!SetField(o) \/ SessionResponses!ClearObject(o) \/ SessionResponses!Parse(o)
           \/ \E o, p \in Objects : SessionResponses!Copy(o, p) \/ SessionResponses!Merge(o, p) \/ SessionResponses!Swap(o, p)
  <2>1. UNCHANGED <<wire, size>>
    BY <1>4 DEF SessionResponses!SetField, SessionResponses!ClearObject, SessionResponses!Parse,
                SessionResponses!Copy, SessionResponses!Merge, SessionResponses!Swap
  <2> QED BY <1>3, <2>1
<1> QED BY <1>1, <1>2, <1>4 DEF SessionResponses!Next

LEMMA BarrierRequestSize ==
  ASSUME MessageInv(BarrierRequest_table, BarrierRequestNames), BarrierRequests!Next, SizeAnnounced
  PROVE  SizeAnnounced'
<1>1. ASSUME NEW o \in Objects, BarrierRequests!Serialize(o) PROVE SizeAnnounced'
  <2>1. IsMessage(obj[o], BarrierRequest_table, BarrierRequestNames) BY DEF MessageInv
  <2>2. BarrierRequest_ByteSizeLong(obj[o]) = Len(BarrierRequest_InternalSerialize(obj[o]))
    BY <2>1, GeneratedSizes
  <2> QED BY <1>1, <2>2, Zenon DEF BarrierRequests!Serialize, SizeAnnounced
<1>2. ASSUME BarrierRequests!NewerPeer PROVE SizeAnnounced'
  BY <1>2, Zenon DEF BarrierRequests!NewerPeer, SizeAnnounced
<1>3. ASSUME UNCHANGED <<wire, size>> PROVE SizeAnnounced'
  BY <1>3 DEF SizeAnnounced
<1>4. CASE \/ \E o \in Objects : BarrierRequests!SetField(o) \/ BarrierRequests!ClearObject(o) \/ BarrierRequests!Parse(o)
           \/ \E o, p \in Objects : BarrierRequests!Copy(o, p) \/ BarrierRequests!Merge(o, p) \/ BarrierRequests!Swap(o, p)
  <2>1. UNCHANGED <<wire, size>>
    BY <1>4 DEF BarrierRequests!SetField, BarrierRequests!ClearObject, BarrierRequests!Parse,
                BarrierRequests!Copy, BarrierRequests!Merge, BarrierRequests!Swap
  <2> QED BY <1>3, <2>1
<1> QED BY <1>1, <1>2, <1>4 DEF BarrierRequests!Next

LEMMA BroadcastRequestSize ==
  ASSUME MessageInv(BroadcastRequest_table, BroadcastRequestNames), BroadcastRequests!Next, SizeAnnounced
  PROVE  SizeAnnounced'
<1>1. ASSUME NEW o \in Objects, BroadcastRequests!Serialize(o) PROVE SizeAnnounced'
  <2>1. IsMessage(obj[o], BroadcastRequest_table, BroadcastRequestNames) BY DEF MessageInv
  <2>2. BroadcastRequest_ByteSizeLong(obj[o]) = Len(BroadcastRequest_InternalSerialize(obj[o]))
    BY <2>1, GeneratedSizes
  <2> QED BY <1>1, <2>2, Zenon DEF BroadcastRequests!Serialize, SizeAnnounced
<1>2. ASSUME BroadcastRequests!NewerPeer PROVE SizeAnnounced'
  BY <1>2, Zenon DEF BroadcastRequests!NewerPeer, SizeAnnounced
<1>3. ASSUME UNCHANGED <<wire, size>> PROVE SizeAnnounced'
  BY <1>3 DEF SizeAnnounced
<1>4. CASE \/ \E o \in Objects : BroadcastRequests!SetField(o) \/ BroadcastRequests!ClearObject(o) \/ BroadcastRequests!Parse(o)
           \/ \E o, p \in Objects : BroadcastRequests!Copy(o, p) \/ BroadcastRequests!Merge(o, p) \/ BroadcastRequests!Swap(o, p)
  <2>1. UNCHANGED <<wire, size>>
    BY <1>4 DEF BroadcastRequests!SetField, BroadcastRequests!ClearObject, BroadcastRequests!Parse,
                BroadcastRequests!Copy, BroadcastRequests!Merge, BroadcastRequests!Swap
  <2> QED BY <1>3, <2>1
<1> QED BY <1>1, <1>2, <1>4 DEF BroadcastRequests!Next

LEMMA BroadcastResponseSize ==
  ASSUME MessageInv(BroadcastResponse_table, BroadcastResponseNames), BroadcastResponses!Next, SizeAnnounced
  PROVE  SizeAnnounced'
<1>1. ASSUME NEW o \in Objects, BroadcastResponses!Serialize(o) PROVE SizeAnnounced'
  <2>1. IsMessage(obj[o], BroadcastResponse_table, BroadcastResponseNames) BY DEF MessageInv
  <2>2. BroadcastResponse_ByteSizeLong(obj[o]) = Len(BroadcastResponse_InternalSerialize(obj[o]))
    BY <2>1, GeneratedSizes
  <2> QED BY <1>1, <2>2, Zenon DEF BroadcastResponses!Serialize, SizeAnnounced
<1>2. ASSUME BroadcastResponses!NewerPeer PROVE SizeAnnounced'
  BY <1>2, Zenon DEF BroadcastResponses!NewerPeer, SizeAnnounced
<1>3. ASSUME UNCHANGED <<wire, size>> PROVE SizeAnnounced'
  BY <1>3 DEF SizeAnnounced
<1>4. CASE \/ \E o \in Objects : BroadcastResponses!SetField(o) \/ BroadcastResponses!ClearObject(o) \/ BroadcastResponses!Parse(o)
           \/ \E o, p \in Objects : BroadcastResponses!Copy(o, p) \/ BroadcastResponses!Merge(o, p) \/ BroadcastResponses!Swap(o, p)
  <2>1. UNCHANGED <<wire, size>>
    BY <1>4 DEF BroadcastResponses!SetField, BroadcastResponses!ClearObject, BroadcastResponses!Parse,
                BroadcastResponses!Copy, BroadcastResponses!Merge, BroadcastResponses!Swap
  <2> QED BY <1>3, <2>1
<1> QED BY <1>1, <1>2, <1>4 DEF BroadcastResponses!Next

\* Whatever was done to an object before it was serialized, the buffer it was
\* written to had exactly the size of the bytes, also when the object holds
\* records of a newer peer.
THEOREM SizeAlwaysAnnounced == Spec => []SizeAnnounced
<1>1. Init => SizeAnnounced BY SizeInit
<1>2. ClassInv /\ SizeAnnounced /\ [Next]_vars => SizeAnnounced'
  <2> SUFFICES ASSUME ClassInv, SizeAnnounced, [Next]_vars PROVE SizeAnnounced'
    OBVIOUS
  <2>1. CASE UNCHANGED vars BY <2>1 DEF vars, SizeAnnounced
  <2>2. CASE Next
    <3>1. CASE class = "RdmaSessionRequest"
      BY <2>2, <3>1, RdmaSessionRequestSize DEF ClassInv, Next
    <3>2. CASE class = "RdmaSessionResponse"
      BY <2>2, <3>2, RdmaSessionResponseSize DEF ClassInv, Next
    <3>3. CASE class = "BarrierRequest"
      BY <2>2, <3>3, BarrierRequestSize DEF ClassInv, Next
    <3>4. CASE class = "BroadcastRequest"
      BY <2>2, <3>4, BroadcastRequestSize DEF ClassInv, Next
    <3>5. CASE class = "BroadcastResponse"
      BY <2>2, <3>5, BroadcastResponseSize DEF ClassInv, Next
    <3> QED BY <3>1, <3>2, <3>3, <3>4, <3>5 DEF ClassInv
  <2> QED BY <2>1, <2>2
<1> QED BY <1>1, <1>2, ClassInvariant, PTL DEF Spec
=============================================================================
