----------------------------- MODULE WireProofs -----------------------------
(***************************************************************************)
(* Proofs about ProtoWire and FlashreduceMessages: a message comes out of   *)
(* its bytes as it was.  Varints and the parser are recursive functions, so *)
(* that they exist, and what they compute, is proved by induction, stated   *)
(* for sets of natural numbers.                                             *)
(***************************************************************************)
EXTENDS FlashreduceMessages, Integers, FiniteSetTheorems, SequenceTheorems,
        NaturalsInduction, WellFoundedInduction, TLAPS

----------------------------------------------------------------------------
(* Induction over the natural numbers.                                     *)

LEMMA LeastElement ==
  ASSUME NEW T \in SUBSET Nat, T # {}
  PROVE  \E m \in T : \A k \in T : m <= k
<1> DEFINE R == {ss \in Nat \X Nat : ss[1] < ss[2]}
<1>1. IsWellFoundedOn(R, Nat)
  BY NatLessThanWellFounded DEF OpToRel
<1> HIDE DEF R
<1>2. PICK m \in T : \A k \in T : ~ (<<k, m>> \in R)
  BY <1>1, WFMin
<1>3. ASSUME NEW k \in T PROVE m <= k
  <2>1. ~ (<<k, m>> \in R) BY <1>2
  <2>2. k \in Nat /\ m \in Nat OBVIOUS
  <2>3. ~ (k < m) BY <2>1, <2>2 DEF R
  <2> QED BY <2>2, <2>3
<1> QED BY <1>3

LEMMA StrongInduction ==
  ASSUME NEW T, \A n \in Nat : (\A m \in 0 .. n - 1 : m \in T) => n \in T
  PROVE  Nat \subseteq T
<1> DEFINE C == {n \in Nat : n \notin T}
<1> SUFFICES ASSUME C # {} PROVE FALSE
  OBVIOUS
<1>1. C \in SUBSET Nat OBVIOUS
<1>2. PICK m \in C : \A k \in C : m <= k
  <2> HIDE DEF C
  <2> QED BY <1>1, LeastElement
<1>3. \A k \in 0 .. m - 1 : k \in T BY <1>2
<1> QED BY <1>3

LEMMA InductionTo ==
  ASSUME NEW N \in Nat, NEW T, 0 \in T, \A n \in 0 .. N - 1 : n \in T => n + 1 \in T
  PROVE  0 .. N \subseteq T
<1> DEFINE C == {n \in 0 .. N : n \notin T}
<1> SUFFICES ASSUME C # {} PROVE FALSE
  OBVIOUS
<1>1. C \in SUBSET Nat OBVIOUS
<1>2. PICK m \in C : \A k \in C : m <= k
  <2> HIDE DEF C
  <2> QED BY <1>1, LeastElement
<1>3. m # 0 /\ m \in 0 .. N /\ m \notin T OBVIOUS
<1>4. m - 1 \in 0 .. N - 1 /\ m - 1 \in T BY <1>2, <1>3
<1>5. m - 1 + 1 \in T BY <1>4
<1> QED BY <1>3, <1>5

----------------------------------------------------------------------------
(* Varints.                                                                *)

Byte == [more : BOOLEAN, bits : Nat]

LEMMA BasePositive == Base \in Nat /\ Base > 1 BY WireAssumption

LEMMA Digits ==
  ASSUME NEW v \in Nat
  PROVE  /\ v \div Base \in Nat /\ v % Base \in 0 .. Base - 1
         /\ v = Base * (v \div Base) + (v % Base)
         /\ v >= Base => v \div Base < v
BY BasePositive

\* The varint of v, given those of smaller numbers.
VarintFrom(f, v) ==
  IF v < Base THEN <<[more |-> FALSE, bits |-> v]>>
  ELSE <<[more |-> TRUE, bits |-> v % Base]>> \o f[v \div Base]

\* g has the varints up to that of m.
VarintsTo(g, m) == DOMAIN g = 0 .. m /\ \A v \in 0 .. m : g[v] = VarintFrom(g, v)

LEMMA VarintsToExist == \A m \in Nat : \E g : VarintsTo(g, m)
<1> DEFINE T == {m \in Nat : \E g : VarintsTo(g, m)}
<1>1. ASSUME NEW n \in Nat, \A m \in 0 .. n - 1 : m \in T PROVE n \in T
  <2>1. CASE n = 0
    <3> DEFINE g == [v \in 0 .. 0 |-> <<[more |-> FALSE, bits |-> v]>>]
    <3>1. DOMAIN g = 0 .. 0 /\ \A v \in 0 .. 0 : g[v] = <<[more |-> FALSE, bits |-> v]>> OBVIOUS
    <3> HIDE DEF g
    <3>2. \A v \in 0 .. 0 : v < Base BY BasePositive
    <3>3. VarintsTo(g, 0) BY <3>1, <3>2 DEF VarintsTo, VarintFrom
    <3> QED BY <2>1, <3>3
  <2>2. CASE n # 0
    <3>1. n - 1 \in 0 .. n - 1 /\ n - 1 \in Nat BY <2>2
    <3>2. PICK g : VarintsTo(g, n - 1) BY <1>1, <3>1
    <3> DEFINE h == [v \in 0 .. n |-> IF v = n THEN VarintFrom(g, n) ELSE g[v]]
    <3>3. ASSUME NEW v \in 0 .. n PROVE h[v] = VarintFrom(h, v)
      <4>1. h[v] = VarintFrom(g, v) BY <3>2 DEF VarintsTo
      <4>2. CASE v < Base BY <4>1, <4>2 DEF VarintFrom
      <4>3. CASE ~ (v < Base)
        <5>1. v \div Base \in 0 .. n - 1 BY <4>3, Digits, BasePositive
        <5>2. h[v \div Base] = g[v \div Base] BY <5>1
        <5> QED BY <4>1, <5>2 DEF VarintFrom
      <4> QED BY <4>2, <4>3
    <3>4. DOMAIN h = 0 .. n OBVIOUS
    <3> HIDE DEF h
    <3>5. VarintsTo(h, n) BY <3>3, <3>4 DEF VarintsTo
    <3> QED BY <3>5
  <2> QED BY <2>1, <2>2
<1> HIDE DEF T
<1>2. Nat \subseteq T BY <1>1, StrongInduction
<1> QED BY <1>2 DEF T

LEMMA VarintsToAgree ==
  ASSUME NEW m \in Nat, NEW n \in Nat, NEW g, NEW h, VarintsTo(g, m), VarintsTo(h, n)
  PROVE  \A v \in Nat : v <= m /\ v <= n => g[v] = h[v]
<1> DEFINE T == {v \in Nat : v <= m /\ v <= n => g[v] = h[v]}
<1>1. ASSUME NEW v \in Nat, \A u \in 0 .. v - 1 : u \in T PROVE v \in T
  <2> SUFFICES ASSUME v <= m, v <= n PROVE g[v] = h[v] OBVIOUS
  <2>1. g[v] = VarintFrom(g, v) /\ h[v] = VarintFrom(h, v) BY DEF VarintsTo
  <2>2. CASE v < Base BY <2>1, <2>2 DEF VarintFrom
  <2>3. CASE ~ (v < Base)
    <3>1. PICK u \in Nat : u = v \div Base /\ u < v BY <2>3, Digits, BasePositive
    <3>2. u \in 0 .. v - 1 /\ u <= m /\ u <= n BY <3>1
    <3>3. g[u] = h[u] BY <1>1, <3>2
    <3> QED BY <2>1, <3>1, <3>3 DEF VarintFrom
  <2> QED BY <2>2, <2>3
<1> HIDE DEF T
<1>2. Nat \subseteq T BY <1>1, StrongInduction
<1> QED BY <1>2 DEF T

LEMMA VarintExists == \E f : f = [v \in Nat |-> VarintFrom(f, v)]
<1> DEFINE G(m) == CHOOSE g : VarintsTo(g, m)
           f == [v \in Nat |-> G(v)[v]]
<1>1. \A m \in Nat : VarintsTo(G(m), m) BY VarintsToExist
<1>2. ASSUME NEW v \in Nat PROVE f[v] = VarintFrom(f, v)
  <2>1. VarintsTo(G(v), v) BY <1>1
  <2> HIDE DEF G
  <2>2. f[v] = VarintFrom(G(v), v) BY <2>1 DEF VarintsTo
  <2>3. CASE v < Base BY <2>2, <2>3 DEF VarintFrom
  <2>4. CASE ~ (v < Base)
    <3>1. PICK u \in Nat : u = v \div Base /\ u < v BY <2>4, Digits, BasePositive
    <3>2. VarintsTo(G(u), u) BY <1>1
    <3>3. u <= u /\ u <= v BY <3>1
    <3>4. G(u)[u] = G(v)[u] BY <2>1, <3>2, <3>3, VarintsToAgree
    <3>5. f[u] = G(u)[u] OBVIOUS
    <3> QED BY <2>2, <3>1, <3>4, <3>5 DEF VarintFrom
  <2> QED BY <2>3, <2>4
<1>3. DOMAIN f = Nat OBVIOUS
<1>4. f = [v \in Nat |-> f[v]] OBVIOUS
<1> HIDE DEF f
<1>5. f = [v \in Nat |-> VarintFrom(f, v)]  BY <1>2, <1>3, <1>4
<1> QED BY <1>5

LEMMA VarintStep ==
  ASSUME NEW v \in Nat
  PROVE  Varint[v] = VarintFrom(Varint, v)
<1> DEFINE F == CHOOSE f : f = [u \in Nat |-> VarintFrom(f, u)]
<1>1. F = [u \in Nat |-> VarintFrom(F, u)] BY VarintExists
<1>2. Varint = F BY DEF Varint, VarintFrom
<1> HIDE DEF F
<1>3. F[v] = VarintFrom(F, v) BY <1>1
<1> QED BY <1>2, <1>3

LEMMA VarintType == \A v \in Nat : Varint[v] \in Seq(Byte)
<1> DEFINE T == {v \in Nat : Varint[v] \in Seq(Byte)}
<1>1. ASSUME NEW v \in Nat, \A u \in 0 .. v - 1 : u \in T PROVE v \in T
  <2>1. Varint[v] = VarintFrom(Varint, v) BY VarintStep
  <2>2. CASE v < Base
    <3>1. [more |-> FALSE, bits |-> v] \in Byte BY DEF Byte
    <3>2. Varint[v] = <<[more |-> FALSE, bits |-> v]>> BY <2>1, <2>2 DEF VarintFrom
    <3>3. Varint[v] \in Seq(Byte) BY <3>1, <3>2
    <3> QED BY <3>3
  <2>3. CASE ~ (v < Base)
    <3>1. PICK u \in Nat : u = v \div Base /\ u < v BY <2>3, Digits, BasePositive
    <3>2. Varint[u] \in Seq(Byte) BY <1>1, <3>1
    <3>3. [more |-> TRUE, bits |-> v % Base] \in Byte BY Digits, BasePositive DEF Byte
    <3>4. <<[more |-> TRUE, bits |-> v % Base]>> \in Seq(Byte) BY <3>3
    <3>5. Varint[v] = <<[more |-> TRUE, bits |-> v % Base]>> \o Varint[u]
      BY <2>1, <2>3, <3>1 DEF VarintFrom
    <3>6. Varint[v] \in Seq(Byte) BY <3>2, <3>4, <3>5
    <3> QED BY <3>6
  <2> QED BY <2>2, <2>3
<1> HIDE DEF T
<1>2. Nat \subseteq T BY <1>1, StrongInduction
<1> QED BY <1>2 DEF T

----------------------------------------------------------------------------
(* The parser.                                                             *)

\* The states the parser is in between the bytes of w.
IsRun(r, table, q, w) ==
  /\ DOMAIN r = 0 .. Len(w)
  /\ r[0] = q
  /\ \A k \in 0 .. Len(w) - 1 : r[k + 1] = ReadByte(table, r[k], w[k + 1])

LEMMA RunExists ==
  ASSUME NEW w, Len(w) \in Nat, NEW table, NEW q
  PROVE  \E r : IsRun(r, table, q, w)
<1> DEFINE Prefix(r, m) == /\ DOMAIN r = 0 .. m /\ r[0] = q
                           /\ \A k \in 0 .. m - 1 : r[k + 1] = ReadByte(table, r[k], w[k + 1])
           T == {m \in 0 .. Len(w) : \E r : Prefix(r, m)}
<1>1. 0 \in T
  <2> DEFINE r == [k \in 0 .. 0 |-> q]
  <2>1. Prefix(r, 0) OBVIOUS
  <2>2. 0 \in 0 .. Len(w) OBVIOUS
  <2> HIDE DEF r
  <2> QED BY <2>1, <2>2
<1>2. ASSUME NEW n \in 0 .. Len(w) - 1, n \in T PROVE n + 1 \in T
  <2>1. PICK r : Prefix(r, n) BY <1>2
  <2> DEFINE h == [k \in 0 .. n + 1 |-> IF k = n + 1 THEN ReadByte(table, r[n], w[n + 1]) ELSE r[k]]
  <2>2. n \in Nat /\ n + 1 \in 0 .. Len(w) OBVIOUS
  <2>3. DOMAIN h = 0 .. n + 1 /\ h[0] = q BY <2>1, <2>2
  <2>4. ASSUME NEW k \in 0 .. n + 1 - 1 PROVE h[k + 1] = ReadByte(table, h[k], w[k + 1])
    <3>1. CASE k = n BY <2>2, <3>1
    <3>2. CASE k # n
      <4>1. k \in 0 .. n - 1 BY <2>2, <3>2
      <4>2. h[k + 1] = r[k + 1] /\ h[k] = r[k] BY <2>2, <4>1
      <4>3. r[k + 1] = ReadByte(table, r[k], w[k + 1]) BY <2>1, <4>1
      <4> QED BY <4>2, <4>3
    <3> QED BY <3>1, <3>2
  <2> HIDE DEF h
  <2>5. Prefix(h, n + 1) BY <2>3, <2>4
  <2> QED BY <2>2, <2>5
<1> HIDE DEF T
<1>3. 0 .. Len(w) \subseteq T BY <1>1, <1>2, InductionTo
<1>4. Len(w) \in T BY <1>3
<1> QED BY <1>4 DEF T, IsRun

LEMMA RunUnique ==
  ASSUME NEW w, Len(w) \in Nat, NEW table, NEW q, NEW r, NEW s,
         IsRun(r, table, q, w), IsRun(s, table, q, w)
  PROVE  r[Len(w)] = s[Len(w)]
<1> DEFINE T == {k \in 0 .. Len(w) : r[k] = s[k]}
<1>1. 0 \in T BY DEF IsRun
<1>2. ASSUME NEW n \in 0 .. Len(w) - 1, n \in T PROVE n + 1 \in T
  <2>1. r[n + 1] = ReadByte(table, r[n], w[n + 1]) BY DEF IsRun
  <2>2. s[n + 1] = ReadByte(table, s[n], w[n + 1]) BY DEF IsRun
  <2>3. r[n] = s[n] /\ n + 1 \in 0 .. Len(w) BY <1>2
  <2> QED BY <2>1, <2>2, <2>3
<1> HIDE DEF T
<1>3. 0 .. Len(w) \subseteq T BY <1>1, <1>2, InductionTo
<1> QED BY <1>3 DEF T

\* ReadBytes returns the last state of the run.
LEMMA ReadBytesRun ==
  ASSUME NEW w, Len(w) \in Nat, NEW table, NEW q, NEW r, IsRun(r, table, q, w)
  PROVE  ReadBytes(table, q, w) = r[Len(w)]
<1> DEFINE Body(f, k) == IF k = 0 THEN q
                         ELSE CHOOSE after \in {ReadByte(table, before, w[k]) : before \in {f[k - 1]}} : TRUE
           F == CHOOSE f : f = [k \in 0 .. Len(w) |-> Body(f, k)]
<1>1. \A f, k : Body(f, k) = IF k = 0 THEN q ELSE ReadByte(table, f[k - 1], w[k])
  OBVIOUS
<1>2. ReadBytes(table, q, w) = F[Len(w)] BY DEF ReadBytes
<1> HIDE DEF Body
<1>3. r = [k \in 0 .. Len(w) |-> Body(r, k)]
  <2>1. DOMAIN r = 0 .. Len(w) BY DEF IsRun
  <2>2. ASSUME NEW k \in 0 .. Len(w) PROVE r[k] = Body(r, k)
    <3>1. CASE k = 0 BY <1>1, <3>1 DEF IsRun
    <3>2. CASE k # 0
      <4>1. k - 1 \in 0 .. Len(w) - 1 /\ k - 1 + 1 = k BY <3>2
      <4>2. r[k] = ReadByte(table, r[k - 1], w[k]) BY <4>1 DEF IsRun
      <4> QED BY <1>1, <3>2, <4>2
    <3> QED BY <3>1, <3>2
  <2>3. r = [k \in 0 .. Len(w) |-> r[k]] BY <2>1 DEF IsRun
  <2> QED BY <2>2, <2>3
<1>4. F = [k \in 0 .. Len(w) |-> Body(F, k)] BY <1>3
<1> HIDE DEF F
<1>5. IsRun(F, table, q, w)
  <2>1. DOMAIN F = 0 .. Len(w) BY <1>4
  <2>2. \A k \in 0 .. Len(w) : F[k] = IF k = 0 THEN q ELSE ReadByte(table, F[k - 1], w[k])
    BY <1>1, <1>4
  <2>3. F[0] = q BY <2>2
  <2>4. ASSUME NEW k \in 0 .. Len(w) - 1 PROVE F[k + 1] = ReadByte(table, F[k], w[k + 1])
    <3>1. k + 1 \in 0 .. Len(w) /\ k + 1 # 0 /\ k + 1 - 1 = k OBVIOUS
    <3> QED BY <2>2, <3>1
  <2> QED BY <2>1, <2>3, <2>4 DEF IsRun
<1> QED BY <1>2, <1>5, RunUnique

LEMMA ReadEmpty ==
  ASSUME NEW table, NEW q
  PROVE  ReadBytes(table, q, <<>>) = q
<1>1. Len(<<>>) = 0 OBVIOUS
<1>2. PICK r : IsRun(r, table, q, <<>>) BY <1>1, RunExists
<1>3. r[0] = q BY <1>2 DEF IsRun
<1> QED BY <1>1, <1>2, <1>3, ReadBytesRun

LEMMA ReadOne ==
  ASSUME NEW table, NEW q, NEW b
  PROVE  ReadBytes(table, q, <<b>>) = ReadByte(table, q, b)
<1>1. Len(<<b>>) = 1 /\ <<b>>[1] = b OBVIOUS
<1>2. PICK r : IsRun(r, table, q, <<b>>) BY <1>1, RunExists
<1>3. r[0] = q BY <1>2 DEF IsRun
<1>4. 0 \in 0 .. 1 - 1 /\ 0 + 1 = 1 OBVIOUS
<1>5. r[1] = ReadByte(table, q, b) BY <1>1, <1>2, <1>3, <1>4 DEF IsRun
<1> QED BY <1>1, <1>2, <1>5, ReadBytesRun

\* The parser goes on where it was.
LEMMA ReadConcat ==
  ASSUME NEW s \in Seq(Byte), NEW t \in Seq(Byte), NEW table, NEW q
  PROVE  ReadBytes(table, q, s \o t) = ReadBytes(table, ReadBytes(table, q, s), t)
<1>1. PICK m \in Nat : m = Len(s) OBVIOUS
<1>2. PICK n \in Nat : n = Len(t) OBVIOUS
<1>3. /\ Len(s \o t) = m + n
      /\ \A k \in 1 .. m : (s \o t)[k] = s[k]
      /\ \A k \in 1 .. n : (s \o t)[m + k] = t[k]
  BY <1>1, <1>2
<1>4. PICK r : IsRun(r, table, q, s) BY <1>1, RunExists
<1>5. ReadBytes(table, q, s) = r[m] BY <1>1, <1>4, ReadBytesRun
<1>6. PICK p : IsRun(p, table, r[m], t) BY <1>2, RunExists
<1>7. ReadBytes(table, r[m], t) = p[n] BY <1>2, <1>6, ReadBytesRun
<1> DEFINE h == [k \in 0 .. m + n |-> IF k <= m THEN r[k] ELSE p[k - m]]
           w == s \o t
<1>8. DOMAIN h = 0 .. m + n /\ \A k \in 0 .. m + n : h[k] = IF k <= m THEN r[k] ELSE p[k - m]
  OBVIOUS
<1> HIDE DEF h, w
<1>9. IsRun(h, table, q, w)
  <2>1. h[0] = q BY <1>4, <1>8 DEF IsRun
  <2>2. ASSUME NEW k \in 0 .. m + n - 1 PROVE h[k + 1] = ReadByte(table, h[k], w[k + 1])
    <3>1. CASE k < m
      <4>1. k \in 0 .. m - 1 /\ k + 1 \in 1 .. m /\ k \in 0 .. m + n /\ k + 1 \in 0 .. m + n
        BY <3>1
      <4>2. h[k] = r[k] /\ h[k + 1] = r[k + 1] BY <1>8, <4>1
      <4>3. w[k + 1] = s[k + 1] BY <1>3, <4>1 DEF w
      <4>4. r[k + 1] = ReadByte(table, r[k], s[k + 1]) BY <1>1, <1>4, <4>1 DEF IsRun
      <4> QED BY <4>2, <4>3, <4>4
    <3>2. CASE ~ (k < m)
      <4>1. PICK i \in 0 .. n - 1 : k = m + i /\ i + 1 \in 1 .. n
        <5>1. k - m \in 0 .. n - 1 /\ k = m + (k - m) /\ k - m + 1 \in 1 .. n BY <3>2
        <5> QED BY <5>1
      <4>2. h[k] = p[i]
        <5>1. CASE i = 0
          <6>1. k = m /\ k \in 0 .. m + n BY <4>1, <5>1
          <6>2. h[k] = r[m] BY <1>8, <6>1
          <6>3. p[0] = r[m] BY <1>6 DEF IsRun
          <6> QED BY <5>1, <6>2, <6>3
        <5>2. CASE i # 0
          <6>1. k \in 0 .. m + n /\ ~ (k <= m) /\ k - m = i BY <4>1, <5>2
          <6> QED BY <1>8, <6>1
        <5> QED BY <5>1, <5>2
      <4>3. h[k + 1] = p[i + 1]
        <5>1. k + 1 \in 0 .. m + n /\ ~ (k + 1 <= m) /\ k + 1 - m = i + 1 BY <4>1
        <5> QED BY <1>8, <5>1
      <4>4. w[k + 1] = t[i + 1]
        <5>1. k + 1 = m + (i + 1) BY <4>1
        <5> QED BY <1>3, <4>1, <5>1 DEF w
      <4>5. p[i + 1] = ReadByte(table, p[i], t[i + 1]) BY <1>2, <1>6 DEF IsRun
      <4> QED BY <4>2, <4>3, <4>4, <4>5
    <3> QED BY <3>1, <3>2
  <2>3. Len(w) = m + n BY <1>3 DEF w
  <2> QED BY <1>8, <2>1, <2>2, <2>3 DEF IsRun
<1>10. Len(w) = m + n /\ Len(w) \in Nat BY <1>3 DEF w
<1>11. ReadBytes(table, q, w) = h[m + n] BY <1>9, <1>10, ReadBytesRun
<1>12. h[m + n] = p[n]
  <2>1. CASE n = 0
    <3>1. m + n = m /\ m \in 0 .. m + n BY <2>1
    <3>2. h[m] = r[m] BY <1>8, <3>1
    <3>3. p[0] = r[m] BY <1>6 DEF IsRun
    <3> QED BY <2>1, <3>1, <3>2, <3>3
  <2>2. CASE n # 0
    <3>1. m + n \in 0 .. m + n /\ ~ (m + n <= m) /\ m + n - m = n BY <2>2
    <3> QED BY <1>8, <3>1
  <2> QED BY <2>1, <2>2
<1> QED BY <1>5, <1>7, <1>11, <1>12 DEF w

\* The parser within the value of a record.
InValue(m, n, a, c) == [msg |-> m, number |-> n, value |-> a, weight |-> c]

\* The bytes of a varint are read as the number they were written for.
LEMMA ReadVarint ==
  ASSUME NEW table, NEW m, NEW n \in Nat \ {0}
  PROVE  \A v \in Nat : \A a, c \in Nat :
            ReadBytes(table, InValue(m, n, a, c), Varint[v]) = AtTag(Stored(table, m, n, a + v * c))
<1> DEFINE P(v) == \A a, c \in Nat : ReadBytes(table, InValue(m, n, a, c), Varint[v])
                                        = AtTag(Stored(table, m, n, a + v * c))
           T == {v \in Nat : P(v)}
<1>1. ASSUME NEW v \in Nat, \A u \in 0 .. v - 1 : u \in T PROVE v \in T
  <2> SUFFICES ASSUME NEW a \in Nat, NEW c \in Nat
               PROVE  ReadBytes(table, InValue(m, n, a, c), Varint[v])
                        = AtTag(Stored(table, m, n, a + v * c))
    OBVIOUS
  <2>1. Varint[v] = VarintFrom(Varint, v) BY VarintStep
  <2>2. CASE v < Base
    <3>1. Varint[v] = <<[more |-> FALSE, bits |-> v]>> BY <2>1, <2>2 DEF VarintFrom
    <3>2. ReadByte(table, InValue(m, n, a, c), [more |-> FALSE, bits |-> v])
            = AtTag(Stored(table, m, n, a + v * c))
      BY DEF ReadByte, InValue
    <3>3. ReadBytes(table, InValue(m, n, a, c), <<[more |-> FALSE, bits |-> v]>>)
            = ReadByte(table, InValue(m, n, a, c), [more |-> FALSE, bits |-> v])
      BY ReadOne, Zenon
    <3> QED BY <3>1, <3>2, <3>3, Zenon
  <2>3. CASE ~ (v < Base)
    <3>1. PICK u \in Nat, d \in Nat : u = v \div Base /\ d = v % Base /\ u < v /\ v = Base * u + d
      <4>1. v \div Base \in Nat /\ v % Base \in Nat BY Digits, BasePositive
      <4>2. v \div Base < v /\ v = Base * (v \div Base) + (v % Base) BY <2>3, Digits, BasePositive
      <4> QED BY <4>1, <4>2
    <3> DEFINE b == [more |-> TRUE, bits |-> d]
    <3>2. Varint[v] = <<b>> \o Varint[u] BY <2>1, <2>3, <3>1 DEF VarintFrom
    <3>3. b \in Byte BY DEF Byte
    <3>4. <<b>> \in Seq(Byte) /\ Varint[u] \in Seq(Byte) BY <3>3, VarintType
    <3>5. ReadBytes(table, InValue(m, n, a, c), <<b>>) = InValue(m, n, a + d * c, c * Base)
      <4>1. ReadByte(table, InValue(m, n, a, c), b) = InValue(m, n, a + d * c, c * Base)
        BY DEF ReadByte, InValue
      <4>2. ReadBytes(table, InValue(m, n, a, c), <<b>>) = ReadByte(table, InValue(m, n, a, c), b)
        BY ReadOne, Zenon
      <4> QED BY <4>1, <4>2, Zenon
    <3> HIDE DEF b
    <3>6. ReadBytes(table, InValue(m, n, a, c), <<b>> \o Varint[u])
            = ReadBytes(table, ReadBytes(table, InValue(m, n, a, c), <<b>>), Varint[u])
      BY <3>4, ReadConcat, Zenon
    <3>7. P(u)
      <4>1. u \in 0 .. v - 1 BY <3>1
      <4>2. u \in T BY <1>1, <4>1
      <4> QED BY <4>2
    <3>8. PICK i \in Nat, j \in Nat : i = a + d * c /\ j = c * Base
      <4>1. a + d * c \in Nat /\ c * Base \in Nat BY BasePositive
      <4> QED BY <4>1
    <3>9. i + u * j = a + v * c
      <4>1. PICK B \in Nat : B = Base BY BasePositive
      <4>2. (a + d * c) + u * (c * B) = a + (B * u + d) * c OBVIOUS
      <4>3. v = B * u + d BY <3>1, <4>1
      <4> QED BY <3>8, <4>1, <4>2, <4>3, Zenon
    <3>10. ReadBytes(table, InValue(m, n, i, j), Varint[u]) = AtTag(Stored(table, m, n, i + u * j))
      BY <3>7
    <3> QED BY <3>2, <3>5, <3>6, <3>8, <3>9, <3>10, Zenon
  <2> QED BY <2>2, <2>3
<1> HIDE DEF T
<1>2. Nat \subseteq T BY <1>1, StrongInduction
<1> QED BY <1>2 DEF T

\* What WriteUInt has written goes to its field.
LEMMA ReadWritten ==
  ASSUME NEW table, NEW m, NEW n \in Nat \ {0}, NEW v \in Nat
  PROVE  /\ WriteUInt(n, v) \in Seq(Byte)
         /\ ReadBytes(table, AtTag(m), WriteUInt(n, v)) = AtTag(Stored(table, m, n, v))
<1> DEFINE b == [more |-> FALSE, bits |-> n]
<1>1. b \in Byte BY DEF Byte
<1>2. <<b>> \in Seq(Byte) /\ Varint[v] \in Seq(Byte) BY <1>1, VarintType
<1>3. WriteUInt(n, v) = <<b>> \o Varint[v] BY DEF WriteUInt
<1>4. ReadByte(table, AtTag(m), b) = InValue(m, n, 0, 1) BY DEF ReadByte, AtTag, InValue
<1>5. ReadBytes(table, AtTag(m), <<b>>) = InValue(m, n, 0, 1) BY <1>4, ReadOne
<1>6. 0 + v * 1 = v /\ 0 \in Nat /\ 1 \in Nat OBVIOUS
<1>7. ReadBytes(table, InValue(m, n, 0, 1), Varint[v]) = AtTag(Stored(table, m, n, 0 + v * 1))
  <2>1. \A u \in Nat : \A a, c \in Nat :
            ReadBytes(table, InValue(m, n, a, c), Varint[u]) = AtTag(Stored(table, m, n, a + u * c))
    BY ReadVarint
  <2> QED BY <1>6, <2>1, Zenon
<1> HIDE DEF b
<1>8. ReadBytes(table, AtTag(m), <<b>> \o Varint[v])
        = ReadBytes(table, ReadBytes(table, AtTag(m), <<b>>), Varint[v])
  BY <1>2, ReadConcat, Zenon
<1>9. <<b>> \o Varint[v] \in Seq(Byte) BY <1>2
<1> QED BY <1>3, <1>5, <1>6, <1>7, <1>8, <1>9, Zenon

----------------------------------------------------------------------------
(* Sequences of records.                                                   *)

\* FlattenSeq puts the sequences together one after the other.
LEMMA FlattenSteps ==
  ASSUME NEW S, NEW seqs \in Seq(Seq(S))
  PROVE  \E f : /\ f \in [0 .. Len(seqs) -> Seq(S)]
                /\ f[0] = <<>>
                /\ \A k \in 0 .. Len(seqs) - 1 : f[k + 1] = f[k] \o seqs[k + 1]
                /\ FlattenSeq(seqs) = f[Len(seqs)]
<1>1. PICK n \in Nat : n = Len(seqs) OBVIOUS
<1>2. <<>> \in Seq(S) OBVIOUS
<1>3. CASE n = 0
  <2>1. seqs = <<>> BY <1>1, <1>3, EmptySeq
  <2>2. FlattenSeq(seqs) = <<>> BY <1>1, <1>3, <2>1 DEF FlattenSeq
  <2> DEFINE f == [k \in 0 .. 0 |-> <<>>]
  <2>3. f \in [0 .. 0 -> Seq(S)] /\ f[0] = <<>> BY <1>2
  <2> HIDE DEF f
  <2> QED BY <1>1, <1>3, <2>2, <2>3
<1>4. CASE n # 0
  <2> DEFINE Body(f, i) == IF i = 1 THEN seqs[i] ELSE f[i - 1] \o seqs[i]
             Prefix(f, m) == DOMAIN f = 1 .. m /\ \A i \in 1 .. m : f[i] = Body(f, i)
             T == {m \in 0 .. n : \E f : Prefix(f, m)}
             F == CHOOSE f : f = [i \in 1 .. Len(seqs) |-> Body(f, i)]
  <2>1. \A f, g, i : (i # 1 => f[i - 1] = g[i - 1]) => Body(f, i) = Body(g, i) OBVIOUS
  <2>2. \A f : Body(f, 1) = seqs[1] OBVIOUS
  <2>3. ASSUME NEW f, NEW i \in Nat, i # 0 PROVE Body(f, i + 1) = f[i] \o seqs[i + 1]
    <3>1. PICK j \in Nat : j = i + 1 /\ j # 1 /\ j - 1 = i BY <2>3
    <3>2. Body(f, j) = f[j - 1] \o seqs[j] BY <3>1, Zenon
    <3> HIDE DEF Body
    <3> QED BY <3>1, <3>2, Zenon
  <2>4. FlattenSeq(seqs) = F[n] BY <1>1, <1>4 DEF FlattenSeq
  <2> HIDE DEF Body
  <2>5. 0 \in T
    <3> DEFINE f == [i \in 1 .. 0 |-> <<>>]
    <3>1. Prefix(f, 0) OBVIOUS
    <3> HIDE DEF f
    <3>2. 0 \in 0 .. n OBVIOUS
    <3> QED BY <3>1, <3>2
  <2>6. ASSUME NEW m \in 0 .. n - 1, m \in T PROVE m + 1 \in T
    <3>1. PICK f : Prefix(f, m) BY <2>6
    <3> DEFINE h == [i \in 1 .. m + 1 |-> IF i # m + 1 THEN f[i] ELSE Body(f, i)]
    <3>2. /\ DOMAIN h = 1 .. m + 1
          /\ \A i \in 1 .. m + 1 : h[i] = IF i # m + 1 THEN f[i] ELSE Body(f, i)
      OBVIOUS
    <3> HIDE DEF h
    <3>3. ASSUME NEW i \in 1 .. m + 1 PROVE h[i] = Body(h, i)
      <4>1. h[i] = Body(f, i)
        <5>1. i # m + 1 => i \in 1 .. m OBVIOUS
        <5> QED BY <3>1, <3>2, <5>1
      <4>2. i # 1 => h[i - 1] = f[i - 1]
        <5>1. i # 1 => i - 1 \in 1 .. m + 1 /\ i - 1 # m + 1 OBVIOUS
        <5> QED BY <3>2, <5>1
      <4> QED BY <2>1, <4>1, <4>2
    <3>4. Prefix(h, m + 1) BY <3>2, <3>3
    <3>5. m + 1 \in 0 .. n OBVIOUS
    <3> QED BY <3>4, <3>5
  <2> HIDE DEF T
  <2>7. 0 .. n \subseteq T BY <2>5, <2>6, InductionTo
  <2>8. n \in T BY <2>7
  <2>9. PICK g : Prefix(g, n) BY <2>8 DEF T
  <2>10. \E f : f = [i \in 1 .. Len(seqs) |-> Body(f, i)]
    <3>1. DOMAIN g = 1 .. Len(seqs) /\ \A i \in 1 .. Len(seqs) : g[i] = Body(g, i)
      BY <1>1, <2>9
    <3> DEFINE h == [i \in 1 .. Len(seqs) |-> Body(g, i)]
    <3>2. DOMAIN h = 1 .. Len(seqs) /\ \A i \in 1 .. Len(seqs) : h[i] = g[i] BY <3>1
    <3>3. ASSUME NEW i \in 1 .. Len(seqs) PROVE Body(h, i) = Body(g, i)
      <4>1. i # 1 => i - 1 \in 1 .. Len(seqs) BY <1>1
      <4>2. i # 1 => h[i - 1] = g[i - 1] BY <3>2, <4>1
      <4> HIDE DEF h
      <4> QED BY <2>1, <4>2
    <3>4. h = [i \in 1 .. Len(seqs) |-> Body(h, i)] BY <3>3
    <3> QED BY <3>4
  <2>11. F = [i \in 1 .. Len(seqs) |-> Body(F, i)] BY <2>10
  <2> HIDE DEF F
  <2>12. \A i \in 1 .. n : F[i] = Body(F, i) BY <1>1, <2>11
  <2> DEFINE f == [k \in 0 .. n |-> IF k = 0 THEN <<>> ELSE F[k]]
             U == {k \in 0 .. n : f[k] \in Seq(S)}
  <2>13. /\ f[0] = <<>> /\ f[n] = F[n] /\ DOMAIN f = 0 .. n /\ f = [k \in 0 .. n |-> f[k]]
         /\ \A k \in 1 .. n : f[k] = F[k]
    BY <1>4
  <2> HIDE DEF f
  <2>14. \A k \in 0 .. n - 1 : f[k] \in Seq(S) =>
            f[k + 1] = f[k] \o seqs[k + 1] /\ f[k + 1] \in Seq(S)
    <3> SUFFICES ASSUME NEW k \in 0 .. n - 1, f[k] \in Seq(S)
                 PROVE  f[k + 1] = f[k] \o seqs[k + 1] /\ f[k + 1] \in Seq(S)
      OBVIOUS
    <3>1. k \in Nat /\ k + 1 \in 1 .. n OBVIOUS
    <3>2. seqs[k + 1] \in Seq(S) BY <1>1, <3>1
    <3>3. f[k + 1] = Body(F, k + 1) BY <2>12, <2>13, <3>1
    <3>4. f[k + 1] = f[k] \o seqs[k + 1]
      <4>1. CASE k = 0
        <5>1. f[k + 1] = seqs[k + 1] BY <2>2, <3>3, <4>1
        <5>2. <<>> \o seqs[k + 1] = seqs[k + 1] BY <3>2
        <5> QED BY <2>13, <4>1, <5>1, <5>2
      <4>2. CASE k # 0
        <5>1. k \in 1 .. n BY <4>2
        <5>2. f[k] = F[k] BY <2>13, <5>1
        <5>3. Body(F, k + 1) = F[k] \o seqs[k + 1] BY <2>3, <3>1, <4>2
        <5> QED BY <3>3, <5>2, <5>3, Zenon
      <4> QED BY <4>1, <4>2
    <3>5. f[k] \o seqs[k + 1] \in Seq(S) BY <3>2
    <3> QED BY <3>4, <3>5, Zenon
  <2>15. 0 \in U
    <3>1. f[0] \in Seq(S) BY <1>2, <2>13, Zenon
    <3>2. 0 \in 0 .. n OBVIOUS
    <3> QED BY <3>1, <3>2
  <2>16. ASSUME NEW k \in 0 .. n - 1, k \in U PROVE k + 1 \in U
    <3>1. f[k + 1] \in Seq(S) BY <2>14, <2>16
    <3>2. k + 1 \in 0 .. n OBVIOUS
    <3> QED BY <3>1, <3>2
  <2> HIDE DEF U
  <2>17. 0 .. n \subseteq U BY <2>15, <2>16, InductionTo
  <2>18. \A k \in 0 .. n : f[k] \in Seq(S) BY <2>17 DEF U
  <2>19. f \in [0 .. n -> Seq(S)] BY <2>13, <2>18
  <2>20. ASSUME NEW k \in 0 .. n - 1 PROVE f[k + 1] = f[k] \o seqs[k + 1]
    <3>1. k \in 0 .. n OBVIOUS
    <3> QED BY <2>14, <2>18, <3>1, Zenon
  <2> QED BY <1>1, <2>4, <2>13, <2>19, <2>20, Zenon
<1> QED BY <1>3, <1>4

----------------------------------------------------------------------------
(* Messages.                                                               *)

\* The parser finds each field under the number it is written with, and all
\* fields are written.
Complete(table, numbers, names) ==
  /\ numbers \in Seq((Nat \ {0}) \X names)
  /\ \A k \in 1 .. Len(numbers) : FieldOf(table, numbers[k][1]) = numbers[k][2]
  /\ \A name \in names : name # NoField /\ \E k \in 1 .. Len(numbers) : numbers[k][2] = name

\* A record under a number that is no field's.
Free(table, record) == FieldOf(table, record[1]) = NoField /\ record[2] < Uint64

\* Fields within their widths, and records that are no field's.
IsMessage(m, table, names) ==
  /\ m \in [fields : [names -> Nat], unknown : Seq((Nat \ {0}) \X Nat)]
  /\ \A name \in names : m.fields[name] < Limit(name)
  /\ \A k \in 1 .. Len(m.unknown) : Free(table, m.unknown[k])

Message(fields, unknown) == [fields |-> fields, unknown |-> unknown]

LEMMA LimitPositive == \A name : Limit(name) \in Nat /\ Limit(name) > 0
BY WireAssumption DEF Limit

With(F, name, v) == [F EXCEPT ![name] = v]

LEMMA StoredField ==
  ASSUME NEW table, NEW F, NEW U, NEW n, NEW name, NEW v \in Nat,
         FieldOf(table, n) = name, name # NoField, v < Limit(name)
  PROVE  Stored(table, Message(F, U), n, v) = Message(With(F, name, v), U)
<1>1. v % Limit(name) = v BY LimitPositive
<1> QED BY <1>1 DEF Stored, Message, With

LEMMA StoredUnknown ==
  ASSUME NEW table, NEW F, NEW U, NEW n, NEW v, FieldOf(table, n) = NoField
  PROVE  Stored(table, Message(F, U), n, v) = Message(F, Append(U, <<n, v>>))
BY DEF Stored, Message

\* The bytes of a field.
FieldBytes(m, f) == IF m.fields[f[2]] = 0 THEN <<>> ELSE WriteUInt(f[1], m.fields[f[2]])

LEMMA ReadFields ==
  ASSUME NEW table, NEW names, NEW numbers, Complete(table, numbers, names),
         NEW m, IsMessage(m, table, names), NEW U
  PROVE  LET wire == FlattenSeq([k \in DOMAIN numbers |-> FieldBytes(m, numbers[k])])
         IN  /\ wire \in Seq(Byte)
             /\ ReadBytes(table, AtTag(Message([name \in names |-> 0], U)), wire)
                   = AtTag(Message(m.fields, U))
<1> DEFINE parts == [k \in DOMAIN numbers |-> FieldBytes(m, numbers[k])]
           Part(k) == [name \in names |-> IF \E i \in 1 .. k : numbers[i][2] = name
                                          THEN m.fields[name] ELSE 0]
           q == AtTag(Message([name \in names |-> 0], U))
<1>1. PICK n \in Nat : n = Len(numbers) /\ DOMAIN numbers = 1 .. n BY DEF Complete
<1>2. ASSUME NEW k \in 1 .. n
      PROVE  /\ numbers[k][1] \in Nat \ {0} /\ numbers[k][2] \in names
             /\ FieldOf(table, numbers[k][1]) = numbers[k][2] /\ numbers[k][2] # NoField
  BY <1>1 DEF Complete
<1>3. m.fields \in [names -> Nat] /\ \A name \in names : m.fields[name] < Limit(name)
  BY DEF IsMessage
<1>4. <<>> \in Seq(Byte) OBVIOUS
<1>5. ASSUME NEW k \in 1 .. n PROVE parts[k] = FieldBytes(m, numbers[k]) /\ parts[k] \in Seq(Byte)
  <2>1. parts[k] = FieldBytes(m, numbers[k]) BY <1>1
  <2>2. numbers[k][1] \in Nat \ {0} /\ m.fields[numbers[k][2]] \in Nat BY <1>2, <1>3
  <2>3. WriteUInt(numbers[k][1], m.fields[numbers[k][2]]) \in Seq(Byte) BY <2>2, ReadWritten
  <2> QED BY <1>4, <2>1, <2>3 DEF FieldBytes
<1>6. parts \in Seq(Seq(Byte)) /\ Len(parts) = n
  <2>1. parts = [k \in 1 .. n |-> parts[k]] /\ DOMAIN parts = 1 .. n BY <1>1
  <2> HIDE DEF parts
  <2>2. parts \in [1 .. n -> Seq(Byte)] BY <1>5, <2>1
  <2> QED BY <2>1, <2>2
<1> HIDE DEF parts
<1>7. PICK f : /\ f \in [0 .. n -> Seq(Byte)]
               /\ f[0] = <<>>
               /\ \A k \in 0 .. n - 1 : f[k + 1] = f[k] \o parts[k + 1]
               /\ FlattenSeq(parts) = f[n]
  BY <1>6, FlattenSteps
<1> DEFINE T == {k \in 0 .. n : ReadBytes(table, q, f[k]) = AtTag(Message(Part(k), U))}
<1>8. 0 \in T
  <2>1. Part(0) = [name \in names |-> 0] OBVIOUS
  <2>2. ReadBytes(table, q, f[0]) = q BY <1>7, ReadEmpty, Zenon
  <2> QED BY <2>1, <2>2
<1>9. ASSUME NEW k \in 0 .. n - 1, k \in T PROVE k + 1 \in T
  <2>1. k + 1 \in 1 .. n /\ k \in 0 .. n /\ k + 1 \in 0 .. n OBVIOUS
  <2>2. ReadBytes(table, q, f[k]) = AtTag(Message(Part(k), U)) BY <1>9
  <2>3. f[k] \in Seq(Byte) BY <1>7, <2>1
  <2>4. parts[k + 1] \in Seq(Byte) /\ parts[k + 1] = FieldBytes(m, numbers[k + 1]) BY <1>5, <2>1
  <2>5. f[k + 1] = f[k] \o parts[k + 1] BY <1>7
  <2>6. PICK num \in Nat \ {0}, name \in names :
            num = numbers[k + 1][1] /\ name = numbers[k + 1][2] /\ FieldOf(table, num) = name /\ name # NoField
    BY <1>2, <2>1
  <2>7. PICK v \in Nat : v = m.fields[name] /\ v < Limit(name) BY <1>3
  <2>8. Part(k + 1) = [Part(k) EXCEPT ![name] = v]
    <3>1. ASSUME NEW a \in names PROVE Part(k + 1)[a] = [Part(k) EXCEPT ![name] = v][a]
      <4>1. (\E i \in 1 .. k + 1 : numbers[i][2] = a) <=> (name = a \/ \E i \in 1 .. k : numbers[i][2] = a)
        <5>1. 1 .. k + 1 = (1 .. k) \union {k + 1} BY <2>1
        <5> QED BY <2>6, <5>1
      <4> QED BY <2>7, <4>1
    <3> QED BY <3>1
  <2> HIDE DEF Part
  <2>9. Part(k) \in [names -> Nat] BY <1>3 DEF Part
  <2>10. ReadBytes(table, AtTag(Message(Part(k), U)), parts[k + 1]) = AtTag(Message(Part(k + 1), U))
    <3>1. CASE v = 0
      <4>1. parts[k + 1] = <<>> BY <2>4, <2>6, <2>7, <3>1 DEF FieldBytes
      <4>2. Part(k + 1) = Part(k)
        <5>1. Part(k)[name] = 0 BY <2>7, <3>1 DEF Part
        <5> QED BY <2>8, <2>9, <3>1, <5>1
      <4> QED BY <4>1, <4>2, ReadEmpty, Zenon
    <3>2. CASE v # 0
      <4>1. parts[k + 1] = WriteUInt(num, v) BY <2>4, <2>6, <2>7, <3>2 DEF FieldBytes
      <4>2. ReadBytes(table, AtTag(Message(Part(k), U)), WriteUInt(num, v))
              = AtTag(Stored(table, Message(Part(k), U), num, v))
        BY ReadWritten
      <4>3. Stored(table, Message(Part(k), U), num, v) = Message(Part(k + 1), U)
        <5>1. Stored(table, Message(Part(k), U), num, v) = Message(With(Part(k), name, v), U)
          <6>1. PICK G \in [names -> Nat] : G = Part(k) BY <2>9
          <6>2. Stored(table, Message(G, U), num, v) = Message(With(G, name, v), U)
            BY <2>6, <2>7, StoredField
          <6> QED BY <6>1, <6>2, Zenon
        <5> QED BY <2>8, <5>1, Zenon DEF With
      <4> QED BY <4>1, <4>2, <4>3, Zenon
    <3> QED BY <3>1, <3>2
  <2>11. ReadBytes(table, q, f[k] \o parts[k + 1]) = ReadBytes(table, ReadBytes(table, q, f[k]), parts[k + 1])
    <3> HIDE DEF q
    <3> QED BY <2>3, <2>4, ReadConcat
  <2>12. ReadBytes(table, q, f[k + 1]) = AtTag(Message(Part(k + 1), U))
    BY <2>2, <2>5, <2>10, <2>11, Zenon
  <2> QED BY <2>1, <2>12
<1> HIDE DEF T
<1>10. 0 .. n \subseteq T BY <1>8, <1>9, InductionTo
<1>11. ReadBytes(table, q, f[n]) = AtTag(Message(Part(n), U)) BY <1>10 DEF T
<1>12. Part(n) = m.fields
  <2>1. \A name \in names : \E i \in 1 .. n : numbers[i][2] = name BY <1>1 DEF Complete
  <2> QED BY <1>3, <2>1
<1>13. f[n] \in Seq(Byte) BY <1>7
<1> QED BY <1>7, <1>11, <1>12, <1>13 DEF parts

LEMMA ReadUnknown ==
  ASSUME NEW table, NEW names, NEW m, IsMessage(m, table, names), NEW F
  PROVE  LET wire == FlattenSeq([k \in DOMAIN m.unknown |-> WriteUInt(m.unknown[k][1], m.unknown[k][2])])
         IN  /\ wire \in Seq(Byte)
             /\ ReadBytes(table, AtTag(Message(F, <<>>)), wire) = AtTag(Message(F, m.unknown))
<1> DEFINE u == m.unknown
           parts == [k \in DOMAIN u |-> WriteUInt(u[k][1], u[k][2])]
           Part(k) == [i \in 1 .. k |-> u[i]]
           q == AtTag(Message(F, <<>>))
<1>1. u \in Seq((Nat \ {0}) \X Nat) BY DEF IsMessage
<1>2. \A k \in 1 .. Len(u) : FieldOf(table, u[k][1]) = NoField BY DEF IsMessage, Free
<1> HIDE DEF u
<1>3. PICK n \in Nat : n = Len(u) /\ DOMAIN u = 1 .. n BY <1>1
<1>4. ASSUME NEW k \in 1 .. n
      PROVE  u[k][1] \in Nat \ {0} /\ u[k][2] \in Nat /\ u[k] = <<u[k][1], u[k][2]>>
  BY <1>1, <1>3
<1>5. ASSUME NEW k \in 1 .. n
      PROVE  parts[k] = WriteUInt(u[k][1], u[k][2]) /\ parts[k] \in Seq(Byte)
  BY <1>3, <1>4, ReadWritten
<1>6. parts \in Seq(Seq(Byte)) /\ Len(parts) = n
  <2>1. parts = [k \in 1 .. n |-> parts[k]] /\ DOMAIN parts = 1 .. n BY <1>3
  <2> HIDE DEF parts
  <2>2. parts \in [1 .. n -> Seq(Byte)] BY <1>5, <2>1
  <2> QED BY <2>1, <2>2
<1> HIDE DEF parts
<1>7. PICK f : /\ f \in [0 .. n -> Seq(Byte)]
               /\ f[0] = <<>>
               /\ \A k \in 0 .. n - 1 : f[k + 1] = f[k] \o parts[k + 1]
               /\ FlattenSeq(parts) = f[n]
  BY <1>6, FlattenSteps
<1> DEFINE T == {k \in 0 .. n : ReadBytes(table, q, f[k]) = AtTag(Message(F, Part(k)))}
<1>8. 0 \in T
  <2>1. Part(0) = <<>> OBVIOUS
  <2>2. ReadBytes(table, q, f[0]) = q BY <1>7, ReadEmpty, Zenon
  <2> QED BY <2>1, <2>2
<1>9. ASSUME NEW k \in 0 .. n - 1, k \in T PROVE k + 1 \in T
  <2>1. k + 1 \in 1 .. n /\ k \in 0 .. n /\ k + 1 \in 0 .. n OBVIOUS
  <2>2. ReadBytes(table, q, f[k]) = AtTag(Message(F, Part(k))) BY <1>9
  <2>3. f[k] \in Seq(Byte) BY <1>7, <2>1
  <2>4. parts[k + 1] \in Seq(Byte) /\ parts[k + 1] = WriteUInt(u[k + 1][1], u[k + 1][2]) BY <1>5, <2>1
  <2>5. f[k + 1] = f[k] \o parts[k + 1] BY <1>7
  <2>6. PICK num \in Nat \ {0}, v \in Nat :
            num = u[k + 1][1] /\ v = u[k + 1][2] /\ FieldOf(table, num) = NoField /\ u[k + 1] = <<num, v>>
    BY <1>2, <1>3, <1>4, <2>1
  <2>7. Part(k + 1) = Append(Part(k), <<num, v>>)
    <3> DEFINE S == {u[i] : i \in 1 .. n}
    <3>1. \A i \in 1 .. n : u[i] \in S OBVIOUS
    <3>2. <<num, v>> \in S BY <2>1, <2>6, <3>1
    <3> HIDE DEF S
    <3>a. ASSUME NEW j \in 0 .. n
          PROVE  Part(j) \in Seq(S) /\ Len(Part(j)) = j /\ \A i \in 1 .. j : Part(j)[i] = u[i]
      <4>1. j \in Nat /\ Part(j) \in [1 .. j -> S] BY <3>1
      <4>2. DOMAIN Part(j) = 1 .. j /\ \A i \in 1 .. j : Part(j)[i] = u[i] OBVIOUS
      <4> HIDE DEF Part
      <4> QED BY <4>1, <4>2
    <3> HIDE DEF Part
    <3>3. PICK W \in Seq(S) : W = Part(k) /\ Len(W) = k /\ \A i \in 1 .. k : W[i] = u[i]
      BY <2>1, <3>a
    <3>4. PICK X \in Seq(S) : X = Part(k + 1) /\ Len(X) = k + 1 /\ \A i \in 1 .. k + 1 : X[i] = u[i]
      BY <2>1, <3>a
    <3>5. PICK e \in S : e = <<num, v>> BY <3>2
    <3>6. X = Append(W, e)
      <4>1. X[k + 1] = e
        <5>1. k + 1 \in 1 .. k + 1 BY <2>1
        <5> QED BY <2>6, <3>4, <3>5, <5>1, Zenon
      <4>2. \A i \in 1 .. k : X[i] = W[i]
        <5>1. \A i \in 1 .. k : i \in 1 .. k + 1 BY <2>1
        <5> QED BY <3>3, <3>4, <5>1, Zenon
      <4> QED BY <3>3, <3>4, <4>1, <4>2
    <3> QED BY <3>3, <3>4, <3>5, <3>6, Zenon
  <2> HIDE DEF Part
  <2>8. ReadBytes(table, AtTag(Message(F, Part(k))), WriteUInt(num, v))
          = AtTag(Stored(table, Message(F, Part(k)), num, v))
    BY ReadWritten
  <2>9. Stored(table, Message(F, Part(k)), num, v) = Message(F, Part(k + 1))
    <3>1. Stored(table, Message(F, Part(k)), num, v) = Message(F, Append(Part(k), <<num, v>>))
      <4> DEFINE W == Part(k)
      <4> HIDE DEF W
      <4>1. Stored(table, Message(F, W), num, v) = Message(F, Append(W, <<num, v>>))
        BY <2>6, StoredUnknown
      <4> QED BY <4>1 DEF W
    <3> QED BY <2>7, <3>1, Zenon
  <2>10. ReadBytes(table, q, f[k] \o parts[k + 1]) = ReadBytes(table, ReadBytes(table, q, f[k]), parts[k + 1])
    <3> HIDE DEF q
    <3> QED BY <2>3, <2>4, ReadConcat
  <2>11. ReadBytes(table, q, f[k + 1]) = AtTag(Message(F, Part(k + 1)))
    BY <2>2, <2>4, <2>5, <2>6, <2>8, <2>9, <2>10, Zenon
  <2> QED BY <2>1, <2>11
<1> HIDE DEF T
<1>10. 0 .. n \subseteq T BY <1>8, <1>9, InductionTo
<1>11. ReadBytes(table, q, f[n]) = AtTag(Message(F, Part(n))) BY <1>10 DEF T
<1>12. Part(n) = u BY <1>1, <1>3
<1>13. f[n] \in Seq(Byte) BY <1>7
<1> QED BY <1>7, <1>11, <1>12, <1>13 DEF parts, u

ZeroMessage(names) == Message([name \in names |-> 0], <<>>)

LEMMA WrittenRead ==
  ASSUME NEW table, NEW names, NEW numbers, Complete(table, numbers, names),
         NEW m, IsMessage(m, table, names)
  PROVE  /\ Written(m, numbers) \in Seq(Byte)
         /\ ReadBytes(table, AtTag(ZeroMessage(names)), Written(m, numbers)) = AtTag(m)
<1> DEFINE fields == FlattenSeq([k \in DOMAIN numbers |-> FieldBytes(m, numbers[k])])
           unknown == FlattenSeq([k \in DOMAIN m.unknown |-> WriteUInt(m.unknown[k][1], m.unknown[k][2])])
           q == AtTag(ZeroMessage(names))
<1>1. Written(m, numbers) = fields \o unknown BY DEF Written, FieldBytes
<1>2. fields \in Seq(Byte) /\ ReadBytes(table, q, fields) = AtTag(Message(m.fields, <<>>))
  BY ReadFields DEF ZeroMessage
<1>3. unknown \in Seq(Byte)
      /\ ReadBytes(table, AtTag(Message(m.fields, <<>>)), unknown) = AtTag(Message(m.fields, m.unknown))
  BY ReadUnknown
<1> HIDE DEF fields, unknown, q
<1>4. ReadBytes(table, q, fields \o unknown) = ReadBytes(table, ReadBytes(table, q, fields), unknown)
  BY <1>2, <1>3, ReadConcat
<1>5. ReadBytes(table, q, Written(m, numbers)) = AtTag(Message(m.fields, m.unknown))
  BY <1>1, <1>2, <1>3, <1>4, Zenon
<1>6. Message(m.fields, m.unknown) = m BY DEF Message, IsMessage
<1>7. fields \o unknown \in Seq(Byte) BY <1>2, <1>3
<1> QED BY <1>1, <1>5, <1>6, <1>7, Zenon DEF q

\* What InternalSerialize writes of a message, whatever its fields and its
\* unknown records, the parser reads back: with the numbers it is given by the
\* code and a table that has a place for each of them, none of the fields is
\* lost, cut or mistaken for another, zeros (which are not written) included,
\* and the unknown records are kept in their order.
THEOREM RoundTrip ==
  ASSUME NEW table, NEW names, NEW numbers, Complete(table, numbers, names),
         NEW m, IsMessage(m, table, names)
  PROVE  MergeFromWire(table, ZeroMessage(names), Written(m, numbers)) = m
<1>1. AtTag(m).msg = m BY DEF AtTag
<1> QED BY <1>1, WrittenRead DEF MergeFromWire

----------------------------------------------------------------------------
(* Sizes.                                                                  *)

\* The first powers of Base, up to the m-th.
IsPower(g, m) == g = [k \in 0 .. m |-> IF k = 0 THEN 1 ELSE Base * g[k - 1]]

LEMMA PowerSteps ==
  /\ Power[0] = 1
  /\ \A k \in 0 .. 9 : Power[k] \in Nat /\ Power[k + 1] \in Nat /\ Power[k + 1] = Base * Power[k]
<1> DEFINE T == {m \in 0 .. 10 : \E g : IsPower(g, m)}
           F == CHOOSE g : IsPower(g, 10)
<1>1. 0 \in T
  <2> DEFINE g == [k \in 0 .. 0 |-> 1]
  <2>1. IsPower(g, 0) BY DEF IsPower
  <2> HIDE DEF g
  <2> QED BY <2>1
<1>2. ASSUME NEW n \in 0 .. 10 - 1, n \in T PROVE n + 1 \in T
  <2>1. PICK g : IsPower(g, n) BY <1>2
  <2> DEFINE h == [k \in 0 .. n + 1 |-> IF k = n + 1 THEN Base * g[n] ELSE g[k]]
  <2>2. ASSUME NEW k \in 0 .. n + 1 PROVE h[k] = IF k = 0 THEN 1 ELSE Base * h[k - 1]
    <3>1. CASE k = n + 1 BY <3>1
    <3>2. CASE k # n + 1
      <4>1. k \in 0 .. n BY <3>2
      <4>2. g[k] = IF k = 0 THEN 1 ELSE Base * g[k - 1] BY <2>1, <4>1 DEF IsPower
      <4> QED BY <4>1, <4>2
    <3> QED BY <3>1, <3>2
  <2>3. h = [k \in 0 .. n + 1 |-> h[k]] OBVIOUS
  <2> HIDE DEF h
  <2>4. IsPower(h, n + 1) BY <2>2, <2>3 DEF IsPower
  <2>5. n + 1 \in 0 .. 10 OBVIOUS
  <2> QED BY <2>4, <2>5
<1> HIDE DEF T
<1>3. 0 .. 10 \subseteq T BY <1>1, <1>2, InductionTo
<1>4. 10 \in T BY <1>3
<1>5. IsPower(F, 10) BY <1>4 DEF T
<1>6. Power = F BY Zenon DEF Power, IsPower
<1> HIDE DEF F
<1>7. \A k \in 0 .. 10 : Power[k] = IF k = 0 THEN 1 ELSE Base * Power[k - 1]
  BY <1>5, <1>6 DEF IsPower
<1>8. Power[0] = 1 BY <1>7
<1>9. ASSUME NEW k \in 0 .. 9 PROVE Power[k + 1] = Base * Power[k]
  <2>1. k + 1 \in 0 .. 10 /\ k + 1 # 0 /\ k + 1 - 1 = k OBVIOUS
  <2> QED BY <1>7, <2>1
<1> DEFINE U == {k \in 0 .. 10 : Power[k] \in Nat}
<1>10. 0 \in U BY <1>8
<1>11. ASSUME NEW k \in 0 .. 10 - 1, k \in U PROVE k + 1 \in U
  <2>1. Power[k + 1] = Base * Power[k] BY <1>9
  <2>2. Base * Power[k] \in Nat BY <1>11, BasePositive
  <2> QED BY <2>1, <2>2
<1> HIDE DEF U
<1>12. 0 .. 10 \subseteq U BY <1>10, <1>11, InductionTo
<1>13. \A k \in 0 .. 10 : Power[k] \in Nat BY <1>12 DEF U
<1> QED BY <1>8, <1>9, <1>13

LEMMA PowerPositive == \A k \in 0 .. 10 : Power[k] \in Nat /\ Power[k] >= 1
<1> DEFINE U == {k \in 0 .. 10 : Power[k] \in Nat /\ Power[k] >= 1}
<1>1. 0 \in U BY PowerSteps
<1>2. ASSUME NEW k \in 0 .. 10 - 1, k \in U PROVE k + 1 \in U
  <2>1. PICK p \in Nat : p = Power[k] /\ p >= 1 BY <1>2
  <2>2. Power[k + 1] = Base * p BY <2>1, PowerSteps
  <2>3. Base * p \in Nat /\ Base * p >= 1 BY <2>1, BasePositive
  <2> QED BY <2>2, <2>3
<1> HIDE DEF U
<1>3. 0 .. 10 \subseteq U BY <1>1, <1>2, InductionTo
<1> QED BY <1>3 DEF U

\* Dividing by Base takes one from the power below.
LEMMA PowerBelow ==
  ASSUME NEW b \in Nat, b > 1, NEW p \in Nat, NEW u \in Nat, NEW r \in 0 .. b - 1
  PROVE  b * p <= b * u + r <=> p <= u
<1>1. ASSUME p <= u PROVE b * p <= b * u + r
  <2>1. PICK d \in Nat : u = p + d BY <1>1
  <2>2. b * u = b * p + b * d /\ b * d \in Nat BY <2>1
  <2> QED BY <2>2
<1>2. ASSUME ~ (p <= u) PROVE ~ (b * p <= b * u + r)
  <2>1. PICK d \in Nat : p = u + 1 + d
    <3>1. p - u - 1 \in Nat /\ p = u + 1 + (p - u - 1) BY <1>2
    <3> QED BY <3>1
  <2>2. b * p = b * u + b + b * d /\ b * d \in Nat BY <2>1
  <2> QED BY <2>2
<1> QED BY <1>1, <1>2

\* A varint has as many bytes as the value has digits.
LEMMA VarintDigits ==
  \A v \in Nat : /\ Len(Varint[v]) \in Nat \ {0}
                 /\ \A k \in 1 .. 10 : Power[k] <= v <=> Len(Varint[v]) > k
<1> DEFINE Q(v, n) == n \in Nat \ {0} /\ \A k \in 1 .. 10 : Power[k] <= v <=> n > k
           T == {v \in Nat : Q(v, Len(Varint[v]))}
<1>0. \A k \in 1 .. 10 : Power[k] \in Nat BY PowerPositive
<1>1. ASSUME NEW v \in Nat, \A u \in 0 .. v - 1 : u \in T PROVE v \in T
  <2>1. Varint[v] = VarintFrom(Varint, v) BY VarintStep
  <2>2. CASE v < Base
    <3>1. Varint[v] = <<[more |-> FALSE, bits |-> v]>> BY <2>1, <2>2 DEF VarintFrom
    <3>2. Len(Varint[v]) = 1 BY <3>1
    <3>3. ASSUME NEW k \in 1 .. 10 PROVE ~ (Power[k] <= v)
      <4>1. k - 1 \in 0 .. 9 /\ k - 1 \in 0 .. 10 /\ k - 1 + 1 = k OBVIOUS
      <4>2. PICK p \in Nat : p = Power[k - 1] /\ p >= 1 BY <4>1, PowerPositive
      <4>3. Power[k] = Base * p BY <4>1, <4>2, PowerSteps
      <4>4. Base * p >= Base /\ Base * p \in Nat BY <4>2, BasePositive
      <4> QED BY <2>2, <4>3, <4>4, BasePositive
    <3>4. Q(v, 1) BY <1>0, <3>3
    <3> HIDE DEF Q
    <3> QED BY <3>2, <3>4
  <2>3. CASE ~ (v < Base)
    <3>1. PICK u \in Nat : u = v \div Base /\ u < v BY <2>3, Digits, BasePositive
    <3>2. PICK r \in 0 .. Base - 1 : r = v % Base /\ v = Base * u + r BY <3>1, Digits
    <3>3. PICK n \in Nat \ {0} : n = Len(Varint[u]) /\ \A k \in 1 .. 10 : Power[k] <= u <=> n > k
      <4>1. u \in 0 .. v - 1 BY <3>1
      <4>2. Q(u, Len(Varint[u]))
        <5> HIDE DEF Q
        <5> QED BY <1>1, <4>1
      <4> QED BY <4>2
    <3>4. u >= 1
      <4>1. u = 0 => Base * u = 0 BY BasePositive
      <4> QED BY <2>3, <3>2, <4>1, BasePositive
    <3>5. Len(Varint[v]) = n + 1
      <4>1. Varint[u] \in Seq(Byte) BY VarintType
      <4>2. [more |-> TRUE, bits |-> r] \in Byte BY BasePositive DEF Byte
      <4>3. Varint[v] = <<[more |-> TRUE, bits |-> r]>> \o Varint[u]
        BY <2>1, <2>3, <3>1, <3>2 DEF VarintFrom
      <4>4. PICK b \in Byte : b = [more |-> TRUE, bits |-> r] BY <4>2
      <4>5. Len(<<b>> \o Varint[u]) = 1 + Len(Varint[u]) BY <4>1
      <4> QED BY <3>3, <4>3, <4>4, <4>5
    <3>6. ASSUME NEW k \in 1 .. 10 PROVE Power[k] <= v <=> n + 1 > k
      <4>1. k - 1 \in 0 .. 9 /\ k - 1 \in 0 .. 10 /\ k - 1 + 1 = k OBVIOUS
      <4>2. PICK p \in Nat : p = Power[k - 1] BY <4>1, PowerPositive
      <4>3. Power[k] = Base * p BY <4>1, <4>2, PowerSteps
      <4>4. Power[k] <= v <=> p <= u BY <3>2, <4>3, PowerBelow, BasePositive
      <4>5. CASE k = 1
        <5>1. p = 1 BY <4>2, <4>5, PowerSteps
        <5> QED BY <3>4, <4>4, <4>5, <5>1
      <4>6. CASE k # 1
        <5>1. k - 1 \in 1 .. 10 BY <4>6
        <5>2. p <= u <=> n > k - 1 BY <3>3, <4>2, <5>1
        <5>3. n > k - 1 <=> n + 1 > k OBVIOUS
        <5> QED BY <4>4, <5>2, <5>3
      <4> QED BY <4>5, <4>6
    <3>7. n + 1 \in Nat \ {0} OBVIOUS
    <3>8. Q(v, n + 1) BY <3>6, <3>7
    <3> HIDE DEF Q
    <3> QED BY <3>5, <3>8
  <2> QED BY <2>2, <2>3
<1> HIDE DEF T
<1>2. Nat \subseteq T BY <1>1, StrongInduction
<1>3. \A v \in Nat : Q(v, Len(Varint[v]))
  <2> HIDE DEF Q
  <2> QED BY <1>2 DEF T
<1> QED BY <1>3

\* The size computed from the magnitude is the size on the wire.
LEMMA SizePlusOne ==
  ASSUME NEW v \in Nat, v < Uint64, NEW number \in Nat
  PROVE  UIntSizePlusOne(v) \in Nat /\ UIntSizePlusOne(v) = Len(WriteUInt(number, v))
<1> DEFINE S == {1} \cup {k \in 1 .. 10 : Power[k - 1] <= v}
<1>1. PICK n \in Nat \ {0} : n = Len(Varint[v]) /\ \A k \in 1 .. 10 : Power[k] <= v <=> n > k
  BY VarintDigits
<1>2. n <= 10
  <2>1. ~ (Power[10] <= v)
    <3>1. PICK p \in Nat : p = Power[10] BY PowerPositive
    <3>2. Uint64 <= p BY <3>1, TenBytesAssumption
    <3> QED BY <3>1, <3>2, WireAssumption
  <2> QED BY <1>1, <2>1
<1>3. \A k \in 2 .. 10 : k \in S <=> k <= n
  <2> SUFFICES ASSUME NEW k \in 2 .. 10 PROVE k \in S <=> k <= n
    OBVIOUS
  <2>1. k - 1 \in 1 .. 10 OBVIOUS
  <2>2. Power[k - 1] <= v <=> n > k - 1 BY <1>1, <2>1
  <2> QED BY <2>2
<1>4. 1 \in S /\ S \subseteq 1 .. 10 OBVIOUS
<1> HIDE DEF S
<1>5. n \in S /\ \A y \in S : n >= y
  <2>1. n \in S
    <3>1. n = 1 \/ n \in 2 .. 10 BY <1>2
    <3> QED BY <1>3, <1>4, <3>1
  <2>2. ASSUME NEW y \in S PROVE n >= y
    <3>1. y = 1 \/ y \in 2 .. 10 BY <1>4
    <3> QED BY <1>3, <3>1
  <2> QED BY <2>1, <2>2
<1>6. Max(S) = n
  <2>1. Max(S) \in S /\ \A y \in S : Max(S) >= y BY <1>5, Zenon DEF Max
  <2>2. PICK x \in 1 .. 10 : x = Max(S) BY <1>4, <2>1
  <2>3. x \in S /\ x >= n BY <1>5, <2>1, <2>2
  <2>4. n >= x BY <1>5, <2>3
  <2> QED BY <2>2, <2>3, <2>4
<1>7. UIntSizePlusOne(v) = 1 + n BY <1>6 DEF UIntSizePlusOne, S
<1>8. Len(WriteUInt(number, v)) = 1 + n
  <2>1. PICK b \in Byte : b = [more |-> FALSE, bits |-> number] BY DEF Byte
  <2>2. Varint[v] \in Seq(Byte) BY VarintType
  <2>3. Len(<<b>> \o Varint[v]) = 1 + Len(Varint[v]) BY <2>2
  <2>4. WriteUInt(number, v) = <<b>> \o Varint[v] BY <2>1 DEF WriteUInt
  <2> QED BY <1>1, <2>3, <2>4
<1> QED BY <1>7, <1>8

\* The partial sums of the sizes.
IsTotal(g, m, sizes) == g = [k \in 0 .. m |-> IF k = 0 THEN 0 ELSE g[k - 1] + sizes[k]]

LEMMA TotalSteps ==
  ASSUME NEW sizes, NEW n \in Nat, Len(sizes) = n, \A k \in 1 .. n : sizes[k] \in Nat
  PROVE  \E g \in [0 .. n -> Nat] : /\ g[0] = 0
                                    /\ \A k \in 0 .. n - 1 : g[k + 1] = g[k] + sizes[k + 1]
                                    /\ TotalSize(sizes) = g[n]
<1> DEFINE T == {m \in 0 .. n : \E g : IsTotal(g, m, sizes)}
           F == CHOOSE g : IsTotal(g, n, sizes)
<1>1. 0 \in T
  <2> DEFINE g == [k \in 0 .. 0 |-> 0]
  <2>1. IsTotal(g, 0, sizes) BY DEF IsTotal
  <2> HIDE DEF g
  <2> QED BY <2>1
<1>2. ASSUME NEW m \in 0 .. n - 1, m \in T PROVE m + 1 \in T
  <2>1. PICK g : IsTotal(g, m, sizes) BY <1>2
  <2> DEFINE h == [k \in 0 .. m + 1 |-> IF k = m + 1 THEN g[m] + sizes[m + 1] ELSE g[k]]
  <2>2. ASSUME NEW k \in 0 .. m + 1 PROVE h[k] = IF k = 0 THEN 0 ELSE h[k - 1] + sizes[k]
    <3>1. CASE k = m + 1 BY <3>1
    <3>2. CASE k # m + 1
      <4>1. k \in 0 .. m BY <3>2
      <4>2. g[k] = IF k = 0 THEN 0 ELSE g[k - 1] + sizes[k] BY <2>1, <4>1 DEF IsTotal
      <4> QED BY <4>1, <4>2
    <3> QED BY <3>1, <3>2
  <2>3. h = [k \in 0 .. m + 1 |-> h[k]] OBVIOUS
  <2> HIDE DEF h
  <2>4. IsTotal(h, m + 1, sizes) BY <2>2, <2>3 DEF IsTotal
  <2>5. m + 1 \in 0 .. n OBVIOUS
  <2> QED BY <2>4, <2>5
<1> HIDE DEF T
<1>3. 0 .. n \subseteq T BY <1>1, <1>2, InductionTo
<1>4. n \in T BY <1>3
<1>5. IsTotal(F, n, sizes) BY <1>4 DEF T
<1>6. TotalSize(sizes) = F[n] BY Zenon DEF TotalSize, IsTotal
<1> HIDE DEF F
<1>7. DOMAIN F = 0 .. n /\ \A k \in 0 .. n : F[k] = IF k = 0 THEN 0 ELSE F[k - 1] + sizes[k]
  BY <1>5 DEF IsTotal
<1>8. F[0] = 0 BY <1>7
<1>9. ASSUME NEW k \in 0 .. n - 1 PROVE F[k + 1] = F[k] + sizes[k + 1]
  <2>1. k + 1 \in 0 .. n /\ k + 1 # 0 /\ k + 1 - 1 = k OBVIOUS
  <2> QED BY <1>7, <2>1
<1> DEFINE U == {k \in 0 .. n : F[k] \in Nat}
<1>10. 0 \in U BY <1>8
<1>11. ASSUME NEW k \in 0 .. n - 1, k \in U PROVE k + 1 \in U
  <2>1. F[k + 1] = F[k] + sizes[k + 1] BY <1>9
  <2>2. k + 1 \in 1 .. n /\ k + 1 \in 0 .. n OBVIOUS
  <2>3. F[k] + sizes[k + 1] \in Nat BY <1>11, <2>2
  <2> QED BY <2>1, <2>2, <2>3
<1> HIDE DEF U
<1>12. 0 .. n \subseteq U BY <1>10, <1>11, InductionTo
<1>13. F \in [0 .. n -> Nat]
  <2>1. \A k \in 0 .. n : F[k] \in Nat BY <1>12 DEF U
  <2>2. F = [k \in 0 .. n |-> F[k]] BY <1>5, <1>7 DEF IsTotal
  <2> QED BY <2>1, <2>2
<1> QED BY <1>6, <1>8, <1>9, <1>13

\* Sequences put together are as long as all of them.
LEMMA FlattenLength ==
  ASSUME NEW S, NEW n \in Nat, NEW seqs \in Seq(Seq(S)), Len(seqs) = n,
         NEW sizes, Len(sizes) = n, \A k \in 1 .. n : sizes[k] = Len(seqs[k])
  PROVE  FlattenSeq(seqs) \in Seq(S) /\ TotalSize(sizes) = Len(FlattenSeq(seqs))
<1>1. PICK f : /\ f \in [0 .. n -> Seq(S)]
               /\ f[0] = <<>>
               /\ \A k \in 0 .. n - 1 : f[k + 1] = f[k] \o seqs[k + 1]
               /\ FlattenSeq(seqs) = f[n]
  <2>1. \E f : /\ f \in [0 .. Len(seqs) -> Seq(S)]
               /\ f[0] = <<>>
               /\ \A k \in 0 .. Len(seqs) - 1 : f[k + 1] = f[k] \o seqs[k + 1]
               /\ FlattenSeq(seqs) = f[Len(seqs)]
    BY FlattenSteps
  <2> QED BY <2>1, Zenon
<1>2. \A k \in 1 .. n : seqs[k] \in Seq(S) /\ sizes[k] \in Nat
  <2>1. \A k \in 1 .. n : seqs[k] \in Seq(S) OBVIOUS
  <2> QED BY <2>1
<1>3. PICK g \in [0 .. n -> Nat] : /\ g[0] = 0
                                   /\ \A k \in 0 .. n - 1 : g[k + 1] = g[k] + sizes[k + 1]
                                   /\ TotalSize(sizes) = g[n]
  BY <1>2, TotalSteps
<1> DEFINE T == {k \in 0 .. n : g[k] = Len(f[k])}
<1>4. 0 \in T BY <1>1, <1>3
<1>5. ASSUME NEW k \in 0 .. n - 1, k \in T PROVE k + 1 \in T
  <2>1. k \in 0 .. n /\ k + 1 \in 0 .. n /\ k + 1 \in 1 .. n OBVIOUS
  <2>2. PICK a \in Seq(S) : a = f[k] /\ g[k] = Len(a) BY <1>1, <1>5, <2>1
  <2>3. PICK b \in Seq(S) : b = seqs[k + 1] /\ sizes[k + 1] = Len(b) BY <1>2, <2>1
  <2>4. f[k + 1] = a \o b BY <1>1, <2>2, <2>3
  <2>5. g[k + 1] = Len(a) + Len(b) BY <1>3, <2>2, <2>3
  <2>6. Len(a \o b) = Len(a) + Len(b) OBVIOUS
  <2> QED BY <2>1, <2>4, <2>5, <2>6
<1> HIDE DEF T
<1>6. 0 .. n \subseteq T BY <1>4, <1>5, InductionTo
<1>7. g[n] = Len(f[n]) BY <1>6 DEF T
<1>8. f[n] \in Seq(S) BY <1>1
<1> QED BY <1>1, <1>3, <1>7, <1>8

MemberSize(m, name) == IF m.fields[name] = 0 THEN 0 ELSE UIntSizePlusOne(m.fields[name])

LEMMA SizedParts ==
  ASSUME NEW m, NEW members
  PROVE  Sized(m, members)
           = TotalSize([k \in DOMAIN members |-> MemberSize(m, members[k])])
               + TotalSize([k \in DOMAIN m.unknown |-> UIntSizePlusOne(m.unknown[k][2])])
BY Zenon DEF Sized, MemberSize

LEMMA LimitsAreWidths == \A name : Limit(name) \in Nat /\ Limit(name) <= Uint64
BY WireAssumption DEF Limit

LEMMA MemberSizes ==
  ASSUME NEW table, NEW names, NEW m, IsMessage(m, table, names), NEW name \in names,
         NEW number \in Nat \ {0}
  PROVE  /\ FieldBytes(m, <<number, name>>) \in Seq(Byte)
         /\ MemberSize(m, name) \in Nat
         /\ MemberSize(m, name) = Len(FieldBytes(m, <<number, name>>))
<1>1. PICK v \in Nat : v = m.fields[name] /\ v < Limit(name) BY DEF IsMessage
<1>2. v < Uint64 BY <1>1, LimitsAreWidths, WireAssumption
<1>3. WriteUInt(number, v) \in Seq(Byte) BY ReadWritten
<1>4. UIntSizePlusOne(v) \in Nat /\ UIntSizePlusOne(v) = Len(WriteUInt(number, v))
  BY <1>2, SizePlusOne
<1>5. <<>> \in Seq(Byte) /\ Len(<<>>) = 0 OBVIOUS
<1>6. FieldBytes(m, <<number, name>>) = IF v = 0 THEN <<>> ELSE WriteUInt(number, v)
  BY <1>1 DEF FieldBytes
<1>7. MemberSize(m, name) = IF v = 0 THEN 0 ELSE UIntSizePlusOne(v) BY <1>1 DEF MemberSize
<1>8. CASE v = 0 BY <1>5, <1>6, <1>7, <1>8
<1>9. CASE v # 0 BY <1>3, <1>4, <1>6, <1>7, <1>9
<1> QED BY <1>8, <1>9

\* The sizes of the members in the order of their numbers, and of the unknown
\* records, are those of what is written.
LEMMA WrittenLength ==
  ASSUME NEW table, NEW names, NEW numbers, Complete(table, numbers, names),
         NEW m, IsMessage(m, table, names),
         NEW members, DOMAIN members = DOMAIN numbers,
         \A k \in DOMAIN numbers : members[k] = numbers[k][2]
  PROVE  Sized(m, members) = Len(Written(m, numbers))
<1> DEFINE parts == [k \in DOMAIN numbers |-> FieldBytes(m, numbers[k])]
           sizes == [k \in DOMAIN members |-> MemberSize(m, members[k])]
           u == m.unknown
           records == [k \in DOMAIN u |-> WriteUInt(u[k][1], u[k][2])]
           recordSizes == [k \in DOMAIN u |-> UIntSizePlusOne(u[k][2])]
<1>1. PICK n \in Nat : n = Len(numbers) /\ DOMAIN numbers = 1 .. n BY DEF Complete
<1>2. \A k \in 1 .. n : parts[k] \in Seq(Byte) /\ sizes[k] = Len(parts[k])
  <2> SUFFICES ASSUME NEW k \in 1 .. n PROVE parts[k] \in Seq(Byte) /\ sizes[k] = Len(parts[k])
    OBVIOUS
  <2>1. PICK f \in (Nat \ {0}) \X names : f = numbers[k] BY <1>1 DEF Complete
  <2>2. PICK number \in Nat \ {0}, name \in names : f = <<number, name>> OBVIOUS
  <2>3. parts[k] = FieldBytes(m, <<number, name>>) BY <1>1, <2>1, <2>2
  <2>4. members[k] = name
    <3>1. members[k] = f[2] BY <1>1, <2>1, Zenon
    <3> QED BY <2>2, <3>1
  <2>5. sizes[k] = MemberSize(m, name) BY <1>1, <2>4
  <2> HIDE DEF parts, sizes
  <2> QED BY <2>3, <2>5, MemberSizes
<1>3. parts \in Seq(Seq(Byte)) /\ Len(parts) = n
  <2>1. parts = [k \in 1 .. n |-> parts[k]] /\ DOMAIN parts = 1 .. n BY <1>1
  <2> HIDE DEF parts
  <2>2. parts \in [1 .. n -> Seq(Byte)] BY <1>2, <2>1
  <2> QED BY <2>1, <2>2
<1>4. Len(sizes) = n
  <2>1. sizes = [k \in 1 .. n |-> MemberSize(m, members[k])] BY <1>1
  <2> HIDE DEF sizes
  <2> QED BY <2>1
<1>5. u \in Seq((Nat \ {0}) \X Nat) /\ \A k \in 1 .. Len(u) : u[k][2] < Uint64
  BY DEF IsMessage, Free
<1> HIDE DEF u
<1>6. PICK l \in Nat : l = Len(u) /\ DOMAIN u = 1 .. l BY <1>5
<1>7. \A k \in 1 .. l : records[k] \in Seq(Byte) /\ recordSizes[k] = Len(records[k])
  <2> SUFFICES ASSUME NEW k \in 1 .. l
               PROVE  records[k] \in Seq(Byte) /\ recordSizes[k] = Len(records[k])
    OBVIOUS
  <2>1. PICK number \in Nat \ {0}, v \in Nat : number = u[k][1] /\ v = u[k][2] /\ v < Uint64
    BY <1>5, <1>6
  <2>2. records[k] = WriteUInt(number, v) /\ recordSizes[k] = UIntSizePlusOne(v) BY <1>6, <2>1
  <2>3. WriteUInt(number, v) \in Seq(Byte) BY ReadWritten
  <2>4. UIntSizePlusOne(v) = Len(WriteUInt(number, v)) BY <2>1, SizePlusOne
  <2> HIDE DEF records, recordSizes
  <2> QED BY <2>2, <2>3, <2>4
<1>8. records \in Seq(Seq(Byte)) /\ Len(records) = l
  <2>1. records = [k \in 1 .. l |-> records[k]] /\ DOMAIN records = 1 .. l BY <1>6
  <2> HIDE DEF records
  <2>2. records \in [1 .. l -> Seq(Byte)] BY <1>7, <2>1
  <2> QED BY <2>1, <2>2
<1>9. Len(recordSizes) = l
  <2>1. recordSizes = [k \in 1 .. l |-> UIntSizePlusOne(u[k][2])] BY <1>6
  <2> HIDE DEF recordSizes
  <2> QED BY <2>1
<1>10. Sized(m, members) = TotalSize(sizes) + TotalSize(recordSizes)
  BY SizedParts, Zenon DEF u
<1>11. Written(m, numbers) = FlattenSeq(parts) \o FlattenSeq(records)
  BY DEF Written, FieldBytes, u
<1> HIDE DEF parts, sizes, records, recordSizes
<1>12. FlattenSeq(parts) \in Seq(Byte) /\ TotalSize(sizes) = Len(FlattenSeq(parts))
  BY <1>2, <1>3, <1>4, FlattenLength
<1>13. FlattenSeq(records) \in Seq(Byte) /\ TotalSize(recordSizes) = Len(FlattenSeq(records))
  BY <1>7, <1>8, <1>9, FlattenLength
<1>14. PICK a \in Seq(Byte), b \in Seq(Byte) : a = FlattenSeq(parts) /\ b = FlattenSeq(records)
  BY <1>12, <1>13
<1>15. Len(a \o b) = Len(a) + Len(b) OBVIOUS
<1> QED BY <1>10, <1>11, <1>12, <1>13, <1>14, <1>15, Zenon

LEMMA SevenSizes ==
  ASSUME NEW sizes, Len(sizes) = 7, \A k \in 1 .. 7 : sizes[k] \in Nat
  PROVE  TotalSize(sizes) = sizes[1] + sizes[2] + sizes[3] + sizes[4]
                              + sizes[5] + sizes[6] + sizes[7]
<1>0. PICK n \in Nat : n = 7 OBVIOUS
<1>1. PICK g \in [0 .. n -> Nat] : /\ g[0] = 0
                                   /\ \A k \in 0 .. n - 1 : g[k + 1] = g[k] + sizes[k + 1]
                                   /\ TotalSize(sizes) = g[n]
  BY <1>0, TotalSteps
<1>2. /\ g[1] = g[0] + sizes[1] /\ g[2] = g[1] + sizes[2] /\ g[3] = g[2] + sizes[3]
      /\ g[4] = g[3] + sizes[4] /\ g[5] = g[4] + sizes[5] /\ g[6] = g[5] + sizes[6]
      /\ g[7] = g[6] + sizes[7]
  BY <1>0, <1>1
<1>3. /\ sizes[1] \in Nat /\ sizes[2] \in Nat /\ sizes[3] \in Nat /\ sizes[4] \in Nat
      /\ sizes[5] \in Nat /\ sizes[6] \in Nat /\ sizes[7] \in Nat
  OBVIOUS
<1> QED BY <1>0, <1>1, <1>2, <1>3

----------------------------------------------------------------------------
(* The five classes with fields.                                           *)

\* The numbers and names of the fields.
BarrierRequestNames == {"num_workers"}
BarrierRequestNumbers == <<<<1, "num_workers">>>>
BroadcastRequestNames == {"value", "rank", "num_workers", "root"}
BroadcastRequestNumbers == <<<<1, "value">>, <<2, "rank">>, <<3, "num_workers">>,
                              <<4, "root">>>>
BroadcastResponseNames == {"value"}
BroadcastResponseNumbers == <<<<1, "value">>>>
RdmaSessionRequestNames == {"session_id", "rank", "num_workers", "root", "mac", "ipv4",
                             "rkey", "raddr", "qpn", "psn", "gid_subnet", "gid_iface",
                             "lid"}
RdmaSessionRequestNumbers == <<<<1, "session_id">>, <<2, "rank">>, <<3, "num_workers">>,
                                <<4, "root">>, <<5, "mac">>, <<6, "ipv4">>,
                                <<7, "rkey">>, <<8, "raddr">>, <<9, "qpn">>,
                                <<10, "psn">>, <<11, "gid_subnet">>, <<12, "gid_iface">>,
                                <<13, "lid">>>>
RdmaSessionResponseNames == {"raddr", "rkey", "qpn", "psn", "lid", "gid_subnet",
                              "gid_iface"}
RdmaSessionResponseNumbers == <<<<2, "rkey">>, <<3, "raddr">>, <<4, "qpn">>,
                                 <<5, "psn">>, <<13, "gid_subnet">>, <<14, "gid_iface">>,
                                 <<15, "lid">>>>

LEMMA BetweenEnds ==
  ASSUME NEW S, NEW layout \in Seq(S), Len(layout) > 0,
         \A k \in 1 .. Len(layout) : layout[k] = layout[1] => k = 1,
         \A k \in 1 .. Len(layout) : layout[k] = layout[Len(layout)] => k = Len(layout)
  PROVE  Between(layout, layout[1], layout[Len(layout)]) = Range(layout)
<1> DEFINE At(name) == CHOOSE k \in 1 .. Len(layout) : layout[k] = name
<1>1. PICK n \in Nat : n = Len(layout) /\ DOMAIN layout = 1 .. n /\ n > 0 OBVIOUS
<1>2. 1 \in 1 .. n /\ n \in 1 .. n BY <1>1
<1>3. At(layout[1]) = 1 BY <1>1, <1>2
<1>4. At(layout[Len(layout)]) = n BY <1>1, <1>2
<1> QED BY <1>1, <1>3, <1>4 DEF Between, Range

\* The members that memset and memswap go over are all of them.
LEMMA BarrierRequestMembers == Range(BarrierRequest_Impl) = BarrierRequestNames
BY DEF Range, BarrierRequest_Impl, BarrierRequestNames

LEMMA BroadcastResponseMembers == Range(BroadcastResponse_Impl) = BroadcastResponseNames
BY DEF Range, BroadcastResponse_Impl, BroadcastResponseNames

LEMMA RdmaSessionRequestMembers ==
  /\ Range(RdmaSessionRequest_Impl) = RdmaSessionRequestNames
  /\ Between(RdmaSessionRequest_Impl, "session_id", "lid") = RdmaSessionRequestNames
<1> DEFINE names == RdmaSessionRequestNames
           layout == RdmaSessionRequest_Impl
<1>1. layout \in Seq(names) /\ Len(layout) = 13 BY DEF RdmaSessionRequest_Impl, RdmaSessionRequestNames
<1>2. layout[1] = "session_id" /\ layout[13] = "lid" BY DEF RdmaSessionRequest_Impl
<1>3. \A k \in 1 .. 13 : layout[k] = "session_id" => k = 1 BY DEF RdmaSessionRequest_Impl
<1>4. \A k \in 1 .. 13 : layout[k] = "lid" => k = 13 BY DEF RdmaSessionRequest_Impl
<1>5. \A name \in names : \E k \in 1 .. 13 : layout[k] = name BY DEF RdmaSessionRequest_Impl, RdmaSessionRequestNames
<1> HIDE DEF layout, names
<1>6. Range(layout) = names
  <2>1. \A k \in 1 .. Len(layout) : layout[k] \in names BY <1>1, ElementOfSeq
  <2>2. DOMAIN layout = 1 .. Len(layout) BY <1>1
  <2> QED BY <1>1, <1>5, <2>1, <2>2 DEF Range
<1>7. Between(layout, layout[1], layout[Len(layout)]) = Range(layout)
  <2>1. Len(layout) > 0 BY <1>1
  <2>2. /\ \A k \in 1 .. Len(layout) : layout[k] = layout[1] => k = 1
        /\ \A k \in 1 .. Len(layout) : layout[k] = layout[Len(layout)] => k = Len(layout)
    BY <1>1, <1>2, <1>3, <1>4, Zenon
  <2> QED BY <1>1, <2>1, <2>2, BetweenEnds
<1>8. Between(layout, "session_id", "lid") = names BY <1>1, <1>2, <1>6, <1>7, Zenon
<1> QED BY <1>6, <1>8 DEF layout, names

LEMMA RdmaSessionResponseMembers ==
  /\ Range(RdmaSessionResponse_Impl) = RdmaSessionResponseNames
  /\ Between(RdmaSessionResponse_Impl, "raddr", "gid_iface") = RdmaSessionResponseNames
<1> DEFINE names == RdmaSessionResponseNames
           layout == RdmaSessionResponse_Impl
<1>1. layout \in Seq(names) /\ Len(layout) = 7 BY DEF RdmaSessionResponse_Impl, RdmaSessionResponseNames
<1>2. layout[1] = "raddr" /\ layout[7] = "gid_iface" BY DEF RdmaSessionResponse_Impl
<1>3. \A k \in 1 .. 7 : layout[k] = "raddr" => k = 1 BY DEF RdmaSessionResponse_Impl
<1>4. \A k \in 1 .. 7 : layout[k] = "gid_iface" => k = 7 BY DEF RdmaSessionResponse_Impl
<1>5. \A name \in names : \E k \in 1 .. 7 : layout[k] = name BY DEF RdmaSessionResponse_Impl, RdmaSessionResponseNames
<1> HIDE DEF layout, names
<1>6. Range(layout) = names
  <2>1. \A k \in 1 .. Len(layout) : layout[k] \in names BY <1>1, ElementOfSeq
  <2>2. DOMAIN layout = 1 .. Len(layout) BY <1>1
  <2> QED BY <1>1, <1>5, <2>1, <2>2 DEF Range
<1>7. Between(layout, layout[1], layout[Len(layout)]) = Range(layout)
  <2>1. Len(layout) > 0 BY <1>1
  <2>2. /\ \A k \in 1 .. Len(layout) : layout[k] = layout[1] => k = 1
        /\ \A k \in 1 .. Len(layout) : layout[k] = layout[Len(layout)] => k = Len(layout)
    BY <1>1, <1>2, <1>3, <1>4, Zenon
  <2> QED BY <1>1, <2>1, <2>2, BetweenEnds
<1>8. Between(layout, "raddr", "gid_iface") = names BY <1>1, <1>2, <1>6, <1>7, Zenon
<1> QED BY <1>6, <1>8 DEF layout, names

LEMMA BroadcastRequestMembers ==
  /\ Range(BroadcastRequest_Impl) = BroadcastRequestNames
  /\ Between(BroadcastRequest_Impl, "value", "root") = BroadcastRequestNames
<1> DEFINE names == BroadcastRequestNames
           layout == BroadcastRequest_Impl
<1>1. layout \in Seq(names) /\ Len(layout) = 4 BY DEF BroadcastRequest_Impl, BroadcastRequestNames
<1>2. layout[1] = "value" /\ layout[4] = "root" BY DEF BroadcastRequest_Impl
<1>3. \A k \in 1 .. 4 : layout[k] = "value" => k = 1 BY DEF BroadcastRequest_Impl
<1>4. \A k \in 1 .. 4 : layout[k] = "root" => k = 4 BY DEF BroadcastRequest_Impl
<1>5. \A name \in names : \E k \in 1 .. 4 : layout[k] = name BY DEF BroadcastRequest_Impl, BroadcastRequestNames
<1> HIDE DEF layout, names
<1>6. Range(layout) = names
  <2>1. \A k \in 1 .. Len(layout) : layout[k] \in names BY <1>1, ElementOfSeq
  <2>2. DOMAIN layout = 1 .. Len(layout) BY <1>1
  <2> QED BY <1>1, <1>5, <2>1, <2>2 DEF Range
<1>7. Between(layout, layout[1], layout[Len(layout)]) = Range(layout)
  <2>1. Len(layout) > 0 BY <1>1
  <2>2. /\ \A k \in 1 .. Len(layout) : layout[k] = layout[1] => k = 1
        /\ \A k \in 1 .. Len(layout) : layout[k] = layout[Len(layout)] => k = Len(layout)
    BY <1>1, <1>2, <1>3, <1>4, Zenon
  <2> QED BY <1>1, <2>1, <2>2, BetweenEnds
<1>8. Between(layout, "value", "root") = names BY <1>1, <1>2, <1>6, <1>7, Zenon
<1> QED BY <1>6, <1>8 DEF layout, names

\* The constructors leave nothing of what the memory held before.
LEMMA CtorZero ==
  ASSUME NEW layout
  PROVE  Zeroed(Raw(layout, Garbage), Range(layout)) = ZeroMessage(Range(layout))
BY DEF Zeroed, Raw, ZeroMessage, Message

LEMMA BarrierRequestCtor == BarrierRequest_SharedCtor = ZeroMessage(BarrierRequestNames)
<1>1. BarrierRequestNames = {"num_workers"} BY DEF BarrierRequestNames
<1> QED BY <1>1, BarrierRequestMembers, CtorZero, Zenon DEF BarrierRequest_SharedCtor

LEMMA BroadcastResponseCtor == BroadcastResponse_SharedCtor = ZeroMessage(BroadcastResponseNames)
<1>1. BroadcastResponseNames = {"value"} BY DEF BroadcastResponseNames
<1> QED BY <1>1, BroadcastResponseMembers, CtorZero, Zenon DEF BroadcastResponse_SharedCtor

LEMMA RdmaSessionRequestCtor == RdmaSessionRequest_SharedCtor = ZeroMessage(RdmaSessionRequestNames)
BY RdmaSessionRequestMembers, CtorZero, Zenon DEF RdmaSessionRequest_SharedCtor

LEMMA RdmaSessionResponseCtor == RdmaSessionResponse_SharedCtor = ZeroMessage(RdmaSessionResponseNames)
BY RdmaSessionResponseMembers, CtorZero, Zenon DEF RdmaSessionResponse_SharedCtor

LEMMA BroadcastRequestCtor == BroadcastRequest_SharedCtor = ZeroMessage(BroadcastRequestNames)
BY BroadcastRequestMembers, CtorZero, Zenon DEF BroadcastRequest_SharedCtor

LEMMA BarrierRequestComplete ==
  Complete(BarrierRequest_table, BarrierRequestNumbers, BarrierRequestNames)
<1> DEFINE fast == BarrierRequest_table.fast
<1>1. Len(fast) = 1 BY DEF BarrierRequest_table
<1>2. FieldOf(BarrierRequest_table, 1) = "num_workers"
  <2>1. fast[1] = <<1, "num_workers">> BY DEF BarrierRequest_table
  <2> QED BY <1>1, <2>1 DEF FieldOf
<1>3. BarrierRequestNumbers \in Seq((Nat \ {0}) \X BarrierRequestNames) /\ Len(BarrierRequestNumbers) = 1
  BY DEF BarrierRequestNumbers, BarrierRequestNames
<1>4. \A k \in 1 .. 1 : FieldOf(BarrierRequest_table, BarrierRequestNumbers[k][1]) = BarrierRequestNumbers[k][2]
  BY <1>2 DEF BarrierRequestNumbers
<1>5. \A name \in BarrierRequestNames : name # NoField /\ \E k \in 1 .. 1 : BarrierRequestNumbers[k][2] = name
  BY DEF BarrierRequestNumbers, BarrierRequestNames, NoField
<1> QED BY <1>3, <1>4, <1>5, Zenon DEF Complete

LEMMA BroadcastRequestComplete ==
  Complete(BroadcastRequest_table, BroadcastRequestNumbers, BroadcastRequestNames)
<1> DEFINE fast == BroadcastRequest_table.fast
<1>1. Len(fast) = 4 BY DEF BroadcastRequest_table
<1>2. FieldOf(BroadcastRequest_table, 1) = "value"
  <2>1. fast[2] = <<1, "value">> BY DEF BroadcastRequest_table
  <2> QED BY <1>1, <2>1 DEF FieldOf
<1>3. FieldOf(BroadcastRequest_table, 2) = "rank"
  <2>1. fast[3] = <<2, "rank">> BY DEF BroadcastRequest_table
  <2> QED BY <1>1, <2>1 DEF FieldOf
<1>4. FieldOf(BroadcastRequest_table, 3) = "num_workers"
  <2>1. fast[4] = <<3, "num_workers">> BY DEF BroadcastRequest_table
  <2> QED BY <1>1, <2>1 DEF FieldOf
<1>5. FieldOf(BroadcastRequest_table, 4) = "root"
  <2>1. fast[1] = <<4, "root">> BY DEF BroadcastRequest_table
  <2> QED BY <1>1, <2>1 DEF FieldOf
<1>6. BroadcastRequestNumbers \in Seq((Nat \ {0}) \X BroadcastRequestNames) /\ Len(BroadcastRequestNumbers) = 4
  BY DEF BroadcastRequestNumbers, BroadcastRequestNames
<1>7. \A k \in 1 .. 4 : FieldOf(BroadcastRequest_table, BroadcastRequestNumbers[k][1]) = BroadcastRequestNumbers[k][2]
  BY <1>2, <1>3, <1>4, <1>5 DEF BroadcastRequestNumbers
<1>8. \A name \in BroadcastRequestNames : name # NoField /\ \E k \in 1 .. 4 : BroadcastRequestNumbers[k][2] = name
  BY DEF BroadcastRequestNumbers, BroadcastRequestNames, NoField
<1> QED BY <1>6, <1>7, <1>8, Zenon DEF Complete

LEMMA BroadcastResponseComplete ==
  Complete(BroadcastResponse_table, BroadcastResponseNumbers, BroadcastResponseNames)
<1> DEFINE fast == BroadcastResponse_table.fast
<1>1. Len(fast) = 1 BY DEF BroadcastResponse_table
<1>2. FieldOf(BroadcastResponse_table, 1) = "value"
  <2>1. fast[1] = <<1, "value">> BY DEF BroadcastResponse_table
  <2> QED BY <1>1, <2>1 DEF FieldOf
<1>3. BroadcastResponseNumbers \in Seq((Nat \ {0}) \X BroadcastResponseNames) /\ Len(BroadcastResponseNumbers) = 1
  BY DEF BroadcastResponseNumbers, BroadcastResponseNames
<1>4. \A k \in 1 .. 1 : FieldOf(BroadcastResponse_table, BroadcastResponseNumbers[k][1]) = BroadcastResponseNumbers[k][2]
  BY <1>2 DEF BroadcastResponseNumbers
<1>5. \A name \in BroadcastResponseNames : name # NoField /\ \E k \in 1 .. 1 : BroadcastResponseNumbers[k][2] = name
  BY DEF BroadcastResponseNumbers, BroadcastResponseNames, NoField
<1> QED BY <1>3, <1>4, <1>5, Zenon DEF Complete

LEMMA RdmaSessionRequestComplete ==
  Complete(RdmaSessionRequest_table, RdmaSessionRequestNumbers, RdmaSessionRequestNames)
<1> DEFINE fast == RdmaSessionRequest_table.fast
<1>1. Len(fast) = 16 BY DEF RdmaSessionRequest_table
<1>2. FieldOf(RdmaSessionRequest_table, 1) = "session_id"
  <2>1. fast[2] = <<1, "session_id">> BY DEF RdmaSessionRequest_table
  <2> QED BY <1>1, <2>1 DEF FieldOf
<1>3. FieldOf(RdmaSessionRequest_table, 2) = "rank"
  <2>1. fast[3] = <<2, "rank">> BY DEF RdmaSessionRequest_table
  <2> QED BY <1>1, <2>1 DEF FieldOf
<1>4. FieldOf(RdmaSessionRequest_table, 3) = "num_workers"
  <2>1. fast[4] = <<3, "num_workers">> BY DEF RdmaSessionRequest_table
  <2> QED BY <1>1, <2>1 DEF FieldOf
<1>5. FieldOf(RdmaSessionRequest_table, 4) = "root"
  <2>1. fast[5] = <<4, "root">> BY DEF RdmaSessionRequest_table
  <2> QED BY <1>1, <2>1 DEF FieldOf
<1>6. FieldOf(RdmaSessionRequest_table, 5) = "mac"
  <2>1. fast[6] = <<5, "mac">> BY DEF RdmaSessionRequest_table
  <2> QED BY <1>1, <2>1 DEF FieldOf
<1>7. FieldOf(RdmaSessionRequest_table, 6) = "ipv4"
  <2>1. fast[7] = <<6, "ipv4">> BY DEF RdmaSessionRequest_table
  <2> QED BY <1>1, <2>1 DEF FieldOf
<1>8. FieldOf(RdmaSessionRequest_table, 7) = "rkey"
  <2>1. fast[8] = <<7, "rkey">> BY DEF RdmaSessionRequest_table
  <2> QED BY <1>1, <2>1 DEF FieldOf
<1>9. FieldOf(RdmaSessionRequest_table, 8) = "raddr"
  <2>1. fast[9] = <<8, "raddr">> BY DEF RdmaSessionRequest_table
  <2> QED BY <1>1, <2>1 DEF FieldOf
<1>10. FieldOf(RdmaSessionRequest_table, 9) = "qpn"
  <2>1. fast[10] = <<9, "qpn">> BY DEF RdmaSessionRequest_table
  <2> QED BY <1>1, <2>1 DEF FieldOf
<1>11. FieldOf(RdmaSessionRequest_table, 10) = "psn"
  <2>1. fast[11] = <<10, "psn">> BY DEF RdmaSessionRequest_table
  <2> QED BY <1>1, <2>1 DEF FieldOf
<1>12. FieldOf(RdmaSessionRequest_table, 11) = "gid_subnet"
  <2>1. fast[12] = <<11, "gid_subnet">> BY DEF RdmaSessionRequest_table
  <2> QED BY <1>1, <2>1 DEF FieldOf
<1>13. FieldOf(RdmaSessionRequest_table, 12) = "gid_iface"
  <2>1. fast[13] = <<12, "gid_iface">> BY DEF RdmaSessionRequest_table
  <2> QED BY <1>1, <2>1 DEF FieldOf
<1>14. FieldOf(RdmaSessionRequest_table, 13) = "lid"
  <2>1. fast[14] = <<13, "lid">> BY DEF RdmaSessionRequest_table
  <2> QED BY <1>1, <2>1 DEF FieldOf
<1>15. RdmaSessionRequestNumbers \in Seq((Nat \ {0}) \X RdmaSessionRequestNames) /\ Len(RdmaSessionRequestNumbers) = 13
  BY DEF RdmaSessionRequestNumbers, RdmaSessionRequestNames
<1>16. \A k \in 1 .. 13 : FieldOf(RdmaSessionRequest_table, RdmaSessionRequestNumbers[k][1]) = RdmaSessionRequestNumbers[k][2]
  BY <1>2, <1>3, <1>4, <1>5, <1>6, <1>7, <1>8, <1>9, <1>10, <1>11, <1>12, <1>13, <1>14 DEF RdmaSessionRequestNumbers
<1>17. \A name \in RdmaSessionRequestNames : name # NoField /\ \E k \in 1 .. 13 : RdmaSessionRequestNumbers[k][2] = name
  BY DEF RdmaSessionRequestNumbers, RdmaSessionRequestNames, NoField
<1> QED BY <1>15, <1>16, <1>17, Zenon DEF Complete

LEMMA RdmaSessionResponseComplete ==
  Complete(RdmaSessionResponse_table, RdmaSessionResponseNumbers, RdmaSessionResponseNames)
<1> DEFINE fast == RdmaSessionResponse_table.fast
<1>1. Len(fast) = 8 BY DEF RdmaSessionResponse_table
<1>2. FieldOf(RdmaSessionResponse_table, 2) = "rkey"
  <2>1. fast[3] = <<2, "rkey">> BY DEF RdmaSessionResponse_table
  <2> QED BY <1>1, <2>1 DEF FieldOf
<1>3. FieldOf(RdmaSessionResponse_table, 3) = "raddr"
  <2>1. fast[4] = <<3, "raddr">> BY DEF RdmaSessionResponse_table
  <2> QED BY <1>1, <2>1 DEF FieldOf
<1>4. FieldOf(RdmaSessionResponse_table, 4) = "qpn"
  <2>1. fast[5] = <<4, "qpn">> BY DEF RdmaSessionResponse_table
  <2> QED BY <1>1, <2>1 DEF FieldOf
<1>5. FieldOf(RdmaSessionResponse_table, 5) = "psn"
  <2>1. fast[6] = <<5, "psn">> BY DEF RdmaSessionResponse_table
  <2> QED BY <1>1, <2>1 DEF FieldOf
<1>6. FieldOf(RdmaSessionResponse_table, 13) = "gid_subnet"
  <2> DEFINE present == (1 .. 32) \ RdmaSessionResponse_table.skipmap
  <2>1. fast[6] = <<5, "psn">> BY DEF RdmaSessionResponse_table
  <2>2. 13 \in present BY DEF RdmaSessionResponse_table
  <2>3. {n \in present : n <= 13} = {2, 3, 4, 5, 13}
    <3>1. RdmaSessionResponse_table.skipmap = {1} \cup (6 .. 12) \cup (16 .. 32)
      BY DEF RdmaSessionResponse_table
    <3> QED BY <3>1
  <2>4. Cardinality({2, 3, 4, 5, 13}) = 5
    <3>2. ASSUME NEW S, NEW x, IsFiniteSet(S), x \notin S
          PROVE  IsFiniteSet(S \cup {x}) /\ Cardinality(S \cup {x}) = Cardinality(S) + 1
      BY <3>2, FS_AddElement
    <3>3. IsFiniteSet({2}) /\ Cardinality({2}) = 1 BY FS_Singleton
    <3>4. IsFiniteSet({2, 3}) /\ Cardinality({2, 3}) = 2
      <4>1. {2, 3} = {2} \cup {3} /\ 3 \notin {2} OBVIOUS
      <4> QED BY <3>2, <3>3, <4>1
    <3>5. IsFiniteSet({2, 3, 4}) /\ Cardinality({2, 3, 4}) = 3
      <4>1. {2, 3, 4} = {2, 3} \cup {4} /\ 4 \notin {2, 3} OBVIOUS
      <4> QED BY <3>2, <3>4, <4>1
    <3>6. IsFiniteSet({2, 3, 4, 5}) /\ Cardinality({2, 3, 4, 5}) = 4
      <4>1. {2, 3, 4, 5} = {2, 3, 4} \cup {5} /\ 5 \notin {2, 3, 4} OBVIOUS
      <4> QED BY <3>2, <3>5, <4>1
    <3>7. {2, 3, 4, 5, 13} = {2, 3, 4, 5} \cup {13} /\ 13 \notin {2, 3, 4, 5} OBVIOUS
    <3> QED BY <3>2, <3>6, <3>7
  <2>5. RdmaSessionResponse_table.entries[5] = "gid_subnet" BY DEF RdmaSessionResponse_table
  <2>6. (13 % 8) + 1 = 6 OBVIOUS
  <2>7. fast[(13 % Len(fast)) + 1][1] # 13 BY <1>1, <2>1, <2>6
  <2>8. FieldOf(RdmaSessionResponse_table, 13)
          = RdmaSessionResponse_table.entries[Cardinality({n \in present : n <= 13})]
    BY <2>2, <2>7 DEF FieldOf
  <2> QED BY <2>3, <2>4, <2>5, <2>8
<1>7. FieldOf(RdmaSessionResponse_table, 14) = "gid_iface"
  <2>1. fast[7] = <<14, "gid_iface">> BY DEF RdmaSessionResponse_table
  <2> QED BY <1>1, <2>1 DEF FieldOf
<1>8. FieldOf(RdmaSessionResponse_table, 15) = "lid"
  <2>1. fast[8] = <<15, "lid">> BY DEF RdmaSessionResponse_table
  <2> QED BY <1>1, <2>1 DEF FieldOf
<1>9. RdmaSessionResponseNumbers \in Seq((Nat \ {0}) \X RdmaSessionResponseNames) /\ Len(RdmaSessionResponseNumbers) = 7
  BY DEF RdmaSessionResponseNumbers, RdmaSessionResponseNames
<1>10. \A k \in 1 .. 7 : FieldOf(RdmaSessionResponse_table, RdmaSessionResponseNumbers[k][1]) = RdmaSessionResponseNumbers[k][2]
  BY <1>2, <1>3, <1>4, <1>5, <1>6, <1>7, <1>8 DEF RdmaSessionResponseNumbers
<1>11. \A name \in RdmaSessionResponseNames : name # NoField /\ \E k \in 1 .. 7 : RdmaSessionResponseNumbers[k][2] = name
  BY DEF RdmaSessionResponseNumbers, RdmaSessionResponseNames, NoField
<1> QED BY <1>9, <1>10, <1>11, Zenon DEF Complete

\* Each generated class that has fields: a parser that starts from what
\* SharedCtor leaves, whatever the memory held before, and reads what
\* InternalSerialize has written of any message, ends with that message.  Each
\* of the numbers in InternalSerialize is found in the table of the parser,
\* number 13 of RdmaSessionResponse, which is not in its fast table, too.
THEOREM GeneratedRoundTrip ==
  ASSUME NEW m
  PROVE  /\ IsMessage(m, BarrierRequest_table, BarrierRequestNames) =>
              MergeFromWire(BarrierRequest_table, BarrierRequest_SharedCtor,
                            BarrierRequest_InternalSerialize(m)) = m
         /\ IsMessage(m, BroadcastRequest_table, BroadcastRequestNames) =>
              MergeFromWire(BroadcastRequest_table, BroadcastRequest_SharedCtor,
                            BroadcastRequest_InternalSerialize(m)) = m
         /\ IsMessage(m, BroadcastResponse_table, BroadcastResponseNames) =>
              MergeFromWire(BroadcastResponse_table, BroadcastResponse_SharedCtor,
                            BroadcastResponse_InternalSerialize(m)) = m
         /\ IsMessage(m, RdmaSessionRequest_table, RdmaSessionRequestNames) =>
              MergeFromWire(RdmaSessionRequest_table, RdmaSessionRequest_SharedCtor,
                            RdmaSessionRequest_InternalSerialize(m)) = m
         /\ IsMessage(m, RdmaSessionResponse_table, RdmaSessionResponseNames) =>
              MergeFromWire(RdmaSessionResponse_table, RdmaSessionResponse_SharedCtor,
                            RdmaSessionResponse_InternalSerialize(m)) = m
<1>1. ASSUME IsMessage(m, BarrierRequest_table, BarrierRequestNames)
      PROVE  MergeFromWire(BarrierRequest_table, BarrierRequest_SharedCtor, BarrierRequest_InternalSerialize(m)) = m
  <2>1. BarrierRequest_SharedCtor = ZeroMessage(BarrierRequestNames) BY BarrierRequestCtor
  <2>2. BarrierRequest_InternalSerialize(m) = Written(m, BarrierRequestNumbers)
    BY Zenon DEF BarrierRequest_InternalSerialize, BarrierRequestNumbers
  <2>3. MergeFromWire(BarrierRequest_table, ZeroMessage(BarrierRequestNames), Written(m, BarrierRequestNumbers)) = m
    BY <1>1, BarrierRequestComplete, RoundTrip
  <2> QED BY <2>1, <2>2, <2>3, Zenon
<1>2. ASSUME IsMessage(m, BroadcastRequest_table, BroadcastRequestNames)
      PROVE  MergeFromWire(BroadcastRequest_table, BroadcastRequest_SharedCtor, BroadcastRequest_InternalSerialize(m)) = m
  <2>1. BroadcastRequest_SharedCtor = ZeroMessage(BroadcastRequestNames) BY BroadcastRequestCtor
  <2>2. BroadcastRequest_InternalSerialize(m) = Written(m, BroadcastRequestNumbers)
    BY Zenon DEF BroadcastRequest_InternalSerialize, BroadcastRequestNumbers
  <2>3. MergeFromWire(BroadcastRequest_table, ZeroMessage(BroadcastRequestNames), Written(m, BroadcastRequestNumbers)) = m
    BY <1>2, BroadcastRequestComplete, RoundTrip
  <2> QED BY <2>1, <2>2, <2>3, Zenon
<1>3. ASSUME IsMessage(m, BroadcastResponse_table, BroadcastResponseNames)
      PROVE  MergeFromWire(BroadcastResponse_table, BroadcastResponse_SharedCtor, BroadcastResponse_InternalSerialize(m)) = m
  <2>1. BroadcastResponse_SharedCtor = ZeroMessage(BroadcastResponseNames) BY BroadcastResponseCtor
  <2>2. BroadcastResponse_InternalSerialize(m) = Written(m, BroadcastResponseNumbers)
    BY Zenon DEF BroadcastResponse_InternalSerialize, BroadcastResponseNumbers
  <2>3. MergeFromWire(BroadcastResponse_table, ZeroMessage(BroadcastResponseNames), Written(m, BroadcastResponseNumbers)) = m
    BY <1>3, BroadcastResponseComplete, RoundTrip
  <2> QED BY <2>1, <2>2, <2>3, Zenon
<1>4. ASSUME IsMessage(m, RdmaSessionRequest_table, RdmaSessionRequestNames)
      PROVE  MergeFromWire(RdmaSessionRequest_table, RdmaSessionRequest_SharedCtor, RdmaSessionRequest_InternalSerialize(m)) = m
  <2>1. RdmaSessionRequest_SharedCtor = ZeroMessage(RdmaSessionRequestNames) BY RdmaSessionRequestCtor
  <2>2. RdmaSessionRequest_InternalSerialize(m) = Written(m, RdmaSessionRequestNumbers)
    BY Zenon DEF RdmaSessionRequest_InternalSerialize, RdmaSessionRequestNumbers
  <2>3. MergeFromWire(RdmaSessionRequest_table, ZeroMessage(RdmaSessionRequestNames), Written(m, RdmaSessionRequestNumbers)) = m
    BY <1>4, RdmaSessionRequestComplete, RoundTrip
  <2> QED BY <2>1, <2>2, <2>3, Zenon
<1>5. ASSUME IsMessage(m, RdmaSessionResponse_table, RdmaSessionResponseNames)
      PROVE  MergeFromWire(RdmaSessionResponse_table, RdmaSessionResponse_SharedCtor, RdmaSessionResponse_InternalSerialize(m)) = m
  <2>1. RdmaSessionResponse_SharedCtor = ZeroMessage(RdmaSessionResponseNames) BY RdmaSessionResponseCtor
  <2>2. RdmaSessionResponse_InternalSerialize(m) = Written(m, RdmaSessionResponseNumbers)
    BY Zenon DEF RdmaSessionResponse_InternalSerialize, RdmaSessionResponseNumbers
  <2>3. MergeFromWire(RdmaSessionResponse_table, ZeroMessage(RdmaSessionResponseNames), Written(m, RdmaSessionResponseNumbers)) = m
    BY <1>5, RdmaSessionResponseComplete, RoundTrip
  <2> QED BY <2>1, <2>2, <2>3, Zenon
<1> QED BY <1>1, <1>2, <1>3, <1>4, <1>5

\* The members of RdmaSessionResponse are in another order than their numbers.
LEMMA RdmaSessionResponseSized ==
  ASSUME NEW m, IsMessage(m, RdmaSessionResponse_table, RdmaSessionResponseNames)
  PROVE  Sized(m, RdmaSessionResponse_Impl) = Len(Written(m, RdmaSessionResponseNumbers))
<1> DEFINE members == <<"rkey", "raddr", "qpn", "psn", "gid_subnet", "gid_iface", "lid">>
           Size(name) == MemberSize(m, name)
           inOrder == [k \in DOMAIN members |-> Size(members[k])]
           inMemory == [k \in DOMAIN RdmaSessionResponse_Impl |-> Size(RdmaSessionResponse_Impl[k])]
<1>1. /\ DOMAIN members = DOMAIN RdmaSessionResponseNumbers
      /\ \A k \in DOMAIN RdmaSessionResponseNumbers : members[k] = RdmaSessionResponseNumbers[k][2]
  BY DEF RdmaSessionResponseNumbers
<1>2. Sized(m, members) = Len(Written(m, RdmaSessionResponseNumbers))
  <2> HIDE DEF members
  <2> QED BY <1>1, RdmaSessionResponseComplete, WrittenLength
<1>3. /\ Size("rkey") \in Nat /\ Size("raddr") \in Nat /\ Size("qpn") \in Nat
      /\ Size("psn") \in Nat /\ Size("gid_subnet") \in Nat /\ Size("gid_iface") \in Nat
      /\ Size("lid") \in Nat
  <2>1. \A name \in RdmaSessionResponseNames : Size(name) \in Nat
    <3>1. 1 \in Nat \ {0} OBVIOUS
    <3> QED BY <3>1, MemberSizes
  <2> HIDE DEF Size
  <2> QED BY <2>1 DEF RdmaSessionResponseNames
<1> HIDE DEF Size
<1>4. /\ Len(inOrder) = 7 /\ inOrder[1] = Size("rkey") /\ inOrder[2] = Size("raddr")
      /\ inOrder[3] = Size("qpn") /\ inOrder[4] = Size("psn") /\ inOrder[5] = Size("gid_subnet")
      /\ inOrder[6] = Size("gid_iface") /\ inOrder[7] = Size("lid")
  OBVIOUS
<1>5. /\ Len(inMemory) = 7 /\ inMemory[1] = Size("raddr") /\ inMemory[2] = Size("rkey")
      /\ inMemory[3] = Size("qpn") /\ inMemory[4] = Size("psn") /\ inMemory[5] = Size("lid")
      /\ inMemory[6] = Size("gid_subnet") /\ inMemory[7] = Size("gid_iface")
  BY DEF RdmaSessionResponse_Impl
<1> DEFINE records == TotalSize([k \in DOMAIN m.unknown |-> UIntSizePlusOne(m.unknown[k][2])])
<1>6. /\ Sized(m, members) = TotalSize(inOrder) + records
      /\ Sized(m, RdmaSessionResponse_Impl) = TotalSize(inMemory) + records
  BY SizedParts, Zenon DEF Size
<1> HIDE DEF inOrder, inMemory, records, members
<1>7. TotalSize(inOrder) = inOrder[1] + inOrder[2] + inOrder[3] + inOrder[4]
                             + inOrder[5] + inOrder[6] + inOrder[7]
  <2>1. \A k \in 1 .. 7 : inOrder[k] \in Nat BY <1>3, <1>4
  <2> QED BY <1>4, <2>1, SevenSizes
<1>8. TotalSize(inMemory) = inMemory[1] + inMemory[2] + inMemory[3] + inMemory[4]
                              + inMemory[5] + inMemory[6] + inMemory[7]
  <2>1. \A k \in 1 .. 7 : inMemory[k] \in Nat BY <1>3, <1>5
  <2> QED BY <1>5, <2>1, SevenSizes
<1>9. TotalSize(inOrder) = TotalSize(inMemory) BY <1>3, <1>4, <1>5, <1>7, <1>8
<1> QED BY <1>2, <1>6, <1>9, Zenon

\* The buffer that ByteSizeLong asks for is filled exactly by what
\* InternalSerialize writes, for every message of every class with fields: the
\* two are generated apart, one goes by the members and the magnitudes of their
\* values and the other by the numbers and the bytes.
THEOREM GeneratedSizes ==
  ASSUME NEW m
  PROVE  /\ IsMessage(m, BarrierRequest_table, BarrierRequestNames) =>
              BarrierRequest_ByteSizeLong(m) = Len(BarrierRequest_InternalSerialize(m))
         /\ IsMessage(m, BroadcastRequest_table, BroadcastRequestNames) =>
              BroadcastRequest_ByteSizeLong(m) = Len(BroadcastRequest_InternalSerialize(m))
         /\ IsMessage(m, BroadcastResponse_table, BroadcastResponseNames) =>
              BroadcastResponse_ByteSizeLong(m) = Len(BroadcastResponse_InternalSerialize(m))
         /\ IsMessage(m, RdmaSessionRequest_table, RdmaSessionRequestNames) =>
              RdmaSessionRequest_ByteSizeLong(m) = Len(RdmaSessionRequest_InternalSerialize(m))
         /\ IsMessage(m, RdmaSessionResponse_table, RdmaSessionResponseNames) =>
              RdmaSessionResponse_ByteSizeLong(m) = Len(RdmaSessionResponse_InternalSerialize(m))
<1>1. ASSUME IsMessage(m, BarrierRequest_table, BarrierRequestNames)
      PROVE  BarrierRequest_ByteSizeLong(m) = Len(BarrierRequest_InternalSerialize(m))
  <2>1. BarrierRequest_InternalSerialize(m) = Written(m, BarrierRequestNumbers)
    BY Zenon DEF BarrierRequest_InternalSerialize, BarrierRequestNumbers
  <2>2. /\ DOMAIN BarrierRequest_Impl = DOMAIN BarrierRequestNumbers
        /\ \A k \in DOMAIN BarrierRequestNumbers : BarrierRequest_Impl[k] = BarrierRequestNumbers[k][2]
    BY DEF BarrierRequest_Impl, BarrierRequestNumbers
  <2>3. Sized(m, BarrierRequest_Impl) = Len(Written(m, BarrierRequestNumbers))
    BY <1>1, <2>2, BarrierRequestComplete, WrittenLength
  <2> QED BY <2>1, <2>3, Zenon DEF BarrierRequest_ByteSizeLong
<1>2. ASSUME IsMessage(m, BroadcastRequest_table, BroadcastRequestNames)
      PROVE  BroadcastRequest_ByteSizeLong(m) = Len(BroadcastRequest_InternalSerialize(m))
  <2>1. BroadcastRequest_InternalSerialize(m) = Written(m, BroadcastRequestNumbers)
    BY Zenon DEF BroadcastRequest_InternalSerialize, BroadcastRequestNumbers
  <2>2. /\ DOMAIN BroadcastRequest_Impl = DOMAIN BroadcastRequestNumbers
        /\ \A k \in DOMAIN BroadcastRequestNumbers : BroadcastRequest_Impl[k] = BroadcastRequestNumbers[k][2]
    BY DEF BroadcastRequest_Impl, BroadcastRequestNumbers
  <2>3. Sized(m, BroadcastRequest_Impl) = Len(Written(m, BroadcastRequestNumbers))
    BY <1>2, <2>2, BroadcastRequestComplete, WrittenLength
  <2> QED BY <2>1, <2>3, Zenon DEF BroadcastRequest_ByteSizeLong
<1>3. ASSUME IsMessage(m, BroadcastResponse_table, BroadcastResponseNames)
      PROVE  BroadcastResponse_ByteSizeLong(m) = Len(BroadcastResponse_InternalSerialize(m))
  <2>1. BroadcastResponse_InternalSerialize(m) = Written(m, BroadcastResponseNumbers)
    BY Zenon DEF BroadcastResponse_InternalSerialize, BroadcastResponseNumbers
  <2>2. /\ DOMAIN BroadcastResponse_Impl = DOMAIN BroadcastResponseNumbers
        /\ \A k \in DOMAIN BroadcastResponseNumbers : BroadcastResponse_Impl[k] = BroadcastResponseNumbers[k][2]
    BY DEF BroadcastResponse_Impl, BroadcastResponseNumbers
  <2>3. Sized(m, BroadcastResponse_Impl) = Len(Written(m, BroadcastResponseNumbers))
    BY <1>3, <2>2, BroadcastResponseComplete, WrittenLength
  <2> QED BY <2>1, <2>3, Zenon DEF BroadcastResponse_ByteSizeLong
<1>4. ASSUME IsMessage(m, RdmaSessionRequest_table, RdmaSessionRequestNames)
      PROVE  RdmaSessionRequest_ByteSizeLong(m) = Len(RdmaSessionRequest_InternalSerialize(m))
  <2>1. RdmaSessionRequest_InternalSerialize(m) = Written(m, RdmaSessionRequestNumbers)
    BY Zenon DEF RdmaSessionRequest_InternalSerialize, RdmaSessionRequestNumbers
  <2>2. /\ DOMAIN RdmaSessionRequest_Impl = DOMAIN RdmaSessionRequestNumbers
        /\ \A k \in DOMAIN RdmaSessionRequestNumbers : RdmaSessionRequest_Impl[k] = RdmaSessionRequestNumbers[k][2]
    BY DEF RdmaSessionRequest_Impl, RdmaSessionRequestNumbers
  <2>3. Sized(m, RdmaSessionRequest_Impl) = Len(Written(m, RdmaSessionRequestNumbers))
    BY <1>4, <2>2, RdmaSessionRequestComplete, WrittenLength
  <2> QED BY <2>1, <2>3, Zenon DEF RdmaSessionRequest_ByteSizeLong
<1>5. ASSUME IsMessage(m, RdmaSessionResponse_table, RdmaSessionResponseNames)
      PROVE  RdmaSessionResponse_ByteSizeLong(m) = Len(RdmaSessionResponse_InternalSerialize(m))
  <2>1. RdmaSessionResponse_InternalSerialize(m) = Written(m, RdmaSessionResponseNumbers)
    BY Zenon DEF RdmaSessionResponse_InternalSerialize, RdmaSessionResponseNumbers
  <2>3. Sized(m, RdmaSessionResponse_Impl) = Len(Written(m, RdmaSessionResponseNumbers))
    BY <1>5, RdmaSessionResponseSized
  <2> QED BY <2>1, <2>3, Zenon DEF RdmaSessionResponse_ByteSizeLong
<1> QED BY <1>1, <1>2, <1>3, <1>4, <1>5
=============================================================================
