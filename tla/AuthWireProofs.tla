--------------------------- MODULE AuthWireProofs ---------------------------
(***************************************************************************)
(* The parsers of auth/protocol.go against the bytes the router sends, for *)
(* every string shorter than 65536 bytes, every number and every number of *)
(* answers on the stream.  The invariant is only that the answers are      *)
(* messages of the protocol; the work is in what a parser computes, which  *)
(* is an induction over the fields of a message.                           *)
(***************************************************************************)
EXTENDS AuthWire, WellFoundedInduction, SequenceTheorems, TLAPS

-----------------------------------------------------------------------------
(* Induction, from the well-foundedness of the natural numbers.            *)

Below == {ss \in Nat \X Nat : ss[1] < ss[2]}

(* The order the inductions below descend in: every set of positions of a  *)
(* packet has a least one.                                                 *)
LEMMA BelowWF == IsWellFoundedOn(Below, Nat)
BY NatLessThanWellFounded DEF Below, OpToRel

(* Induction over the fields of a packet, as a statement about sets.       *)
LEMMA SetInduction ==
    ASSUME NEW S, 0 \in S, \A n \in Nat : n \in S => n + 1 \in S
    PROVE  \A n \in Nat : n \in S
<1> SUFFICES ASSUME NEW n \in Nat, n \notin S PROVE FALSE
  OBVIOUS
<1> DEFINE T == {m \in Nat : m \notin S}
<1>1. T \subseteq Nat /\ T # {}
  OBVIOUS
<1>2. PICK x \in T : \A y \in T : ~(<<y, x>> \in Below)
  <2> HIDE DEF T
  <2> QED BY <1>1, WFMin, BelowWF
<1>3. \A y \in T : ~(y < x)
  BY <1>2 DEF Below
<1>4. x \in Nat /\ x # 0 /\ x - 1 \in Nat /\ x - 1 < x /\ x = (x - 1) + 1
  OBVIOUS
<1> QED  BY <1>3, <1>4
-----------------------------------------------------------------------------
(* Concatenation of the chunks of a packet.                                *)

Octet == 0..255

(* Two runs of bytes behind each other, as append leaves them.             *)
LEMMA Concat ==
    ASSUME NEW a \in Seq(Octet), NEW b \in Seq(Octet)
    PROVE  /\ a \o b \in Seq(Octet) /\ Len(a \o b) = Len(a) + Len(b)
           /\ Len(a) \in Nat /\ Len(b) \in Nat
           /\ \A j \in 1..Len(a) : (a \o b)[j] = a[j]
           /\ \A j \in 1..Len(b) : (a \o b)[Len(a) + j] = b[j]
OBVIOUS

(* One step of FlattenSeq's recursion: f is right up to chunk n.           *)
FlatTo(c, n, f) ==
    /\ f \in [1..n -> Seq(Octet)]
    /\ \A i \in 1..n : f[i] = IF i = 1 THEN c[i] ELSE f[i - 1] \o c[i]

(* The function FlattenSeq chooses exists: PutAll and Stream, the buffers  *)
(* the serialisers append to, are well defined.                            *)
LEMMA FlattenDefined ==
    ASSUME NEW c \in Seq(Seq(Octet)), Len(c) > 0
    PROVE  \E f : FlatTo(c, Len(c), f) /\ FlattenSeq(c) = f[Len(c)]
<1> DEFINE N == Len(c)
           S == {n \in Nat : n <= N => \E f : FlatTo(c, n, f)}
<1>1. 0 \in S
  <2>1. FlatTo(c, 0, [i \in 1..0 |-> <<>>])
    BY DEF FlatTo
  <2> QED BY <2>1
<1>2. ASSUME NEW n \in Nat, n \in S PROVE n + 1 \in S
  <2>1. SUFFICES ASSUME n + 1 <= N PROVE \E f : FlatTo(c, n + 1, f)
    OBVIOUS
  <2>2. PICK f : FlatTo(c, n, f)
    BY <1>2, <2>1
  <2> DEFINE x == IF n = 0 THEN c[n + 1] ELSE f[n] \o c[n + 1]
             g == [i \in 1..(n + 1) |-> IF i <= n THEN f[i] ELSE x]
  <2>3. x \in Seq(Octet)
    BY <2>1, <2>2 DEF FlatTo
  <2>4. g \in [1..(n + 1) -> Seq(Octet)]
    BY <2>2, <2>3 DEF FlatTo
  <2>5. \A i \in 1..(n + 1) : g[i] = IF i = 1 THEN c[i] ELSE g[i - 1] \o c[i]
    <3> TAKE i \in 1..(n + 1)
    <3>1. CASE i <= n
      <4>1. f[i] = IF i = 1 THEN c[i] ELSE f[i - 1] \o c[i]
        <5>1. i \in 1..n
          BY <3>1
        <5> QED BY <2>2, <5>1 DEF FlatTo
      <4>2. g[i] = f[i] /\ (i # 1 => i - 1 \in 1..(n + 1) /\ i - 1 <= n)
        BY <3>1
      <4>3. i # 1 => g[i - 1] = f[i - 1]
        BY <4>2
      <4> HIDE DEF g
      <4> QED BY <4>1, <4>2, <4>3
    <3>2. CASE i = n + 1
      BY <2>2, <3>2 DEF FlatTo
    <3> QED BY <3>1, <3>2
  <2>6. FlatTo(c, n + 1, g)
    BY <2>4, <2>5 DEF FlatTo
  <2> QED BY <2>6
<1>3. N \in S
  <2>1. \A n \in Nat : n \in S => n + 1 \in S
    BY <1>2
  <2> HIDE DEF S
  <2>2. \A n \in Nat : n \in S
    BY <1>1, <2>1, SetInduction
  <2> QED BY <2>2, LenProperties
<1>4. PICK f : FlatTo(c, N, f)
  BY <1>3
<1>5. f = [i \in 1..N |-> IF i = 1 THEN c[i] ELSE f[i - 1] \o c[i]]
  BY <1>4 DEF FlatTo
<1> DEFINE F == CHOOSE h : h = [i \in 1..N |-> IF i = 1 THEN c[i] ELSE h[i - 1] \o c[i]]
<1>6. F = [i \in 1..N |-> IF i = 1 THEN c[i] ELSE F[i - 1] \o c[i]]
  BY <1>5
<1>7. FlattenSeq(c) = F[N]
  BY DEF FlattenSeq
<1> DEFINE R == {n \in Nat : n \in 1..N => F[n] = f[n]}
<1>8. \A n \in Nat : n \in R
  <2> HIDE DEF F
  <2>1. 0 \in R
    OBVIOUS
  <2>2. ASSUME NEW n \in Nat, n \in R PROVE n + 1 \in R
    <3> SUFFICES ASSUME n + 1 \in 1..N PROVE F[n + 1] = f[n + 1]
      OBVIOUS
    <3>1. F[n + 1] = IF n + 1 = 1 THEN c[n + 1] ELSE F[(n + 1) - 1] \o c[n + 1]
      BY <1>6, <2>2
    <3>2. f[n + 1] = IF n + 1 = 1 THEN c[n + 1] ELSE f[(n + 1) - 1] \o c[n + 1]
      BY <1>5, <2>2
    <3>3. n + 1 # 1 => F[(n + 1) - 1] = f[(n + 1) - 1]
      BY <2>2
    <3> QED BY <3>1, <3>2, <3>3
  <2>3. \A n \in Nat : n \in R => n + 1 \in R
    BY <2>2
  <2> HIDE DEF R
  <2> QED BY <2>1, <2>3, SetInduction
<1>9. FlattenSeq(c) = f[N]
  <2> HIDE DEF F
  <2>1. N \in Nat /\ N \in 1..N
    OBVIOUS
  <2> QED BY <1>7, <1>8, <2>1
<1> QED BY <1>4, <1>9

(* Where the chunks c of a packet b lie: chunk i ends at offset o[i].      *)
Layout(b, c, o) ==
    /\ o \in [0..Len(c) -> Nat] /\ o[0] = 0 /\ o[Len(c)] = Len(b)
    /\ \A i \in 1..Len(c) :
           /\ o[i] = o[i - 1] + Len(c[i]) /\ o[i] <= Len(b)
           /\ \A j \in 1..Len(c[i]) : b[o[i - 1] + j] = c[i][j]

(* A serialiser lays its fields out one behind the other, and so does the  *)
(* TCP stream with the answers written to it.                              *)
LEMMA FlattenLayout ==
    ASSUME NEW c \in Seq(Seq(Octet))
    PROVE  FlattenSeq(c) \in Seq(Octet) /\ \E o : Layout(FlattenSeq(c), c, o)
<1>1. CASE Len(c) = 0
  <2>1. c = <<>> /\ FlattenSeq(c) = <<>>
    BY <1>1, EmptySeq DEF FlattenSeq
  <2>2. Layout(<<>>, c, [i \in 0..0 |-> 0])
    BY <2>1 DEF Layout
  <2> QED BY <2>1, <2>2
<1>2. CASE Len(c) > 0
  <2>0. PICK N \in Nat : N = Len(c) /\ N > 0 /\ \A i \in 1..N : c[i] \in Seq(Octet)
    BY <1>2
  <2>1. PICK f : FlatTo(c, N, f) /\ FlattenSeq(c) = f[N]
    BY <1>2, <2>0, FlattenDefined
  <2>2. /\ N \in 1..N /\ 1 \in 1..N /\ f \in [1..N -> Seq(Octet)] /\ f[1] = c[1]
        /\ \A i \in 1..N : f[i] \in Seq(Octet) /\ Len(f[i]) \in Nat
    <3>1. N \in 1..N /\ 1 \in 1..N
      BY <2>0
    <3>2. f \in [1..N -> Seq(Octet)] /\ f[1] = c[1]
      BY <2>1, <3>1 DEF FlatTo
    <3>3. \A i \in 1..N : f[i] \in Seq(Octet)
      BY <3>2
    <3> QED BY <3>1, <3>2, <3>3, LenProperties
  <2>3. ASSUME NEW i \in 2..N PROVE f[i] = f[i - 1] \o c[i]
    <3>1. i \in 1..N /\ i # 1
      BY <2>0
    <3> QED BY <2>1, <3>1 DEF FlatTo
  <2> DEFINE Keeps(i, m) == Len(f[i]) <= Len(f[m])
                            /\ \A j \in 1..Len(f[i]) : f[m][j] = f[i][j]
             S == {n \in Nat : \A i \in 1..N : i + n \in 1..N => Keeps(i, i + n)}
  <2>4. \A n \in Nat : n \in S
    <3>1. 0 \in S
      <4>1. \A i \in 1..N : i + 0 = i
        OBVIOUS
      <4>2. \A i \in 1..N : Keeps(i, i)
        BY <2>2
      <4> HIDE DEF Keeps
      <4> QED BY <4>1, <4>2
    <3>2. ASSUME NEW n \in Nat, n \in S PROVE n + 1 \in S
      <4> SUFFICES ASSUME NEW i \in 1..N, i + (n + 1) \in 1..N PROVE Keeps(i, i + (n + 1))
        OBVIOUS
      <4>1. i + (n + 1) \in 2..N /\ i + n \in 1..N /\ (i + (n + 1)) - 1 = i + n
        BY <2>0
      <4>2. Keeps(i, i + n)
        <5> HIDE DEF Keeps
        <5> QED BY <3>2, <4>1
      <4>3. f[i + (n + 1)] = f[i + n] \o c[i + (n + 1)]
        BY <2>3, <4>1
      <4>4. f[i] \in Seq(Octet) /\ f[i + n] \in Seq(Octet) /\ c[i + (n + 1)] \in Seq(Octet)
        BY <2>0, <2>2, <4>1
      <4> DEFINE a == f[i + n]  b == c[i + (n + 1)]  d == f[i]
      <4>5. Len(d) <= Len(a) /\ (\A j \in 1..Len(d) : a[j] = d[j]) /\ Len(d) \in Nat
        BY <2>2, <4>2
      <4>6. Len(d) <= Len(a \o b) /\ \A j \in 1..Len(d) : (a \o b)[j] = d[j]
        <5> HIDE DEF a, b, d
        <5>1. a \in Seq(Octet) /\ b \in Seq(Octet)
          BY <4>4 DEF a, b
        <5>2. \A j \in 1..Len(d) : j \in 1..Len(a)
          BY <4>5, <5>1, Concat
        <5> QED BY <4>5, <5>1, <5>2, Concat
      <4> QED BY <4>3, <4>6
    <3>3. \A n \in Nat : n \in S => n + 1 \in S
      BY <3>2
    <3> HIDE DEF S
    <3> QED BY <3>1, <3>3, SetInduction
  <2>5. \A i \in 1..N : Keeps(i, N)
    <3> TAKE i \in 1..N
    <3>1. N - i \in Nat /\ i + (N - i) = N
      BY <2>2
    <3>2. N - i \in S
      BY <2>4, <3>1
    <3> HIDE DEF Keeps
    <3> QED BY <2>2, <3>1, <3>2
  <2> DEFINE o == [i \in 0..N |-> IF i = 0 THEN 0 ELSE Len(f[i])]
  <2>6. o \in [0..N -> Nat] /\ o[0] = 0 /\ o[N] = Len(f[N])
    BY <2>2
  <2>7. ASSUME NEW i \in 1..N
        PROVE  /\ o[i] = o[i - 1] + Len(c[i]) /\ o[i] <= Len(f[N])
               /\ \A j \in 1..Len(c[i]) : f[N][o[i - 1] + j] = c[i][j]
    <3>1. Len(f[i]) <= Len(f[N]) /\ \A j \in 1..Len(f[i]) : f[N][j] = f[i][j]
      BY <2>5
    <3>2. c[i] \in Seq(Octet) /\ f[i] \in Seq(Octet) /\ i \in 0..N /\ i - 1 \in 0..N
      BY <2>0, <2>2
    <3>3. CASE i = 1
      <4>1. o[i] = Len(f[i]) /\ o[i - 1] = 0 /\ f[i] = c[i]
        BY <2>2, <3>2, <3>3
      <4>2. Len(f[i]) \in Nat /\ \A j \in 1..Len(f[i]) : 0 + j = j
        BY <2>2
      <4> HIDE DEF o
      <4> QED BY <3>1, <4>1, <4>2
    <3>4. CASE i # 1
      <4>1. i \in 2..N /\ i - 1 \in 1..N /\ i - 1 # 0 /\ i # 0
        BY <2>0, <3>4
      <4>2. o[i] = Len(f[i]) /\ o[i - 1] = Len(f[i - 1])
        BY <3>2, <4>1
      <4>3. f[i] = f[i - 1] \o c[i] /\ f[i - 1] \in Seq(Octet)
        BY <2>2, <2>3, <4>1
      <4> DEFINE a == f[i - 1]  b == c[i]
      <4>4. /\ Len(f[i]) = Len(a) + Len(b) /\ Len(a) \in Nat /\ Len(b) \in Nat
            /\ \A j \in 1..Len(b) : f[i][Len(a) + j] = b[j]
        <5>1. f[i] = a \o b /\ a \in Seq(Octet) /\ b \in Seq(Octet)
          BY <3>2, <4>3
        <5> HIDE DEF a, b
        <5> QED BY <5>1, Concat
      <4>5. \A j \in 1..Len(b) : Len(a) + j \in 1..Len(f[i])
        <5> HIDE DEF a, b
        <5> QED BY <4>4
      <4> HIDE DEF o
      <4> QED BY <3>1, <4>2, <4>4, <4>5
    <3> QED BY <3>3, <3>4
  <2>8. Layout(f[N], c, o)
    <3> HIDE DEF o
    <3> QED BY <2>0, <2>6, <2>7 DEF Layout
  <2> QED BY <2>1, <2>2, <2>8
<1> QED BY <1>1, <1>2, LenProperties
-----------------------------------------------------------------------------
(* One field: what Put writes, Get reads.                                  *)

FieldName == {"str", "u8", "u16", "u64"}

(* What a field can hold at all.                                           *)
Value(f) == IF f = "str" THEN {t \in Seq(Octet) : Len(t) < 65536} ELSE [1..Width[f] -> Octet]

(* data has the bytes b behind offset o, as far as it goes.                *)
Agree(data, o, b) == \A j \in 1..Len(b) : o + j <= Len(data) => data[o + j] = b[j]

(* The bytes a field takes in the packet.                                  *)
Size(f, x) == IF f = "str" THEN 2 + Len(x) ELSE Width[f]

(* The fields of the messages hold strings and numbers of the right width. *)
LEMMA DomainValue ==
    ASSUME NEW f \in FieldName, NEW x \in Domain(f)
    PROVE  x \in Value(f)
<1>1. CASE f = "str"
  BY <1>1, WireAssumption DEF Domain, Value, Octet
<1>2. CASE f = "u8"
  <2>1. PICK c \in Codes : x = <<c>>
    BY <1>2 DEF Domain
  <2>2. c \in Octet
    BY WireAssumption DEF Octet
  <2>3. <<c>> \in [1..1 -> Octet]
    BY <2>2
  <2> QED BY <1>2, <2>1, <2>3 DEF Value, Width
<1>3. CASE f = "u16"
  BY <1>3, WireAssumption DEF Domain, Value, Width, Octet
<1>4. CASE f = "u64"
  BY <1>4, WireAssumption DEF Domain, Value, Width, Octet
<1> QED BY <1>1, <1>2, <1>3, <1>4 DEF FieldName

(* The number two bytes make, the low one first.                           *)
Joined(n) == (n % 256) + 256 * ((n \div 256) % 256)

(* PutUint16 followed by Uint16 loses what is above 65535, nothing below.  *)
LEMMA LengthJoined ==
    ASSUME NEW n \in Nat
    PROVE  Joined(n) \in 0..n /\ (n < 65536 => Joined(n) = n)
<1>1. /\ n % 256 \in 0..255 /\ (n \div 256) % 256 \in 0..255
      /\ n = (n % 256) + 256 * (n \div 256) /\ n \div 256 \in Nat
  OBVIOUS
<1>2. (n \div 256) % 256 <= n \div 256
  BY <1>1
<1>3. n < 65536 => (n \div 256) % 256 = n \div 256
  BY <1>1
<1> QED BY <1>1, <1>2, <1>3 DEF Joined

(* The two bytes of a length.                                              *)
LEMMA LengthBytes ==
    ASSUME NEW n \in Nat
    PROVE  /\ PutLength(n) \in Seq(Octet) /\ Len(PutLength(n)) = 2
           /\ PutLength(n)[1] = n % 256 /\ PutLength(n)[2] = (n \div 256) % 256
<1>1. n % 256 \in Octet /\ (n \div 256) % 256 \in Octet
  BY DEF Octet
<1> QED BY <1>1 DEF PutLength

(* What a serialiser writes for one field.                                 *)
LEMMA PutBytes ==
    ASSUME NEW f \in FieldName, NEW x \in Value(f)
    PROVE  /\ Put(f, x) \in Seq(Octet) /\ Len(Put(f, x)) = Size(f, x) /\ Size(f, x) \in Nat
           /\ f # "str" => x \in Seq(Octet) /\ Len(x) = Width[f] /\ Width[f] \in Nat \ {0}
<1>1. CASE f = "str"
  <2>1. x \in Seq(Octet) /\ Len(x) \in Nat
    BY <1>1 DEF Value
  <2>2. Put(f, x) = PutLength(Len(x)) \o x
    BY <1>1 DEF Put
  <2>3. PutLength(Len(x)) \in Seq(Octet) /\ Len(PutLength(Len(x))) = 2
    BY <2>1, LengthBytes
  <2>4. Put(f, x) \in Seq(Octet) /\ Len(Put(f, x)) = 2 + Len(x)
    <3> DEFINE a == PutLength(Len(x))
    <3> HIDE DEF a
    <3>1. a \in Seq(Octet) /\ Len(a) = 2 /\ Put(f, x) = a \o x
      BY <2>2, <2>3 DEF a
    <3>2. a \o x \in Seq(Octet) /\ Len(a \o x) = Len(a) + Len(x)
      BY <2>1, <3>1, Concat
    <3> QED BY <3>1, <3>2
  <2> QED BY <1>1, <2>1, <2>4 DEF Size
<1>2. CASE f # "str"
  <2>1. Width[f] \in Nat \ {0}
    BY <1>2 DEF Width, FieldName
  <2>2. x \in [1..Width[f] -> Octet]
    BY <1>2 DEF Value
  <2>3. x \in Seq(Octet) /\ Len(x) = Width[f]
    BY <2>1, <2>2
  <2>4. Reverse(x) \in [1..Width[f] -> Octet]
    BY <2>1, <2>2, <2>3 DEF Reverse
  <2>5. Reverse(x) \in Seq(Octet) /\ Len(Reverse(x)) = Width[f]
    BY <2>1, <2>4
  <2> QED BY <1>2, <2>1, <2>3, <2>5 DEF Put, Size
<1> QED BY <1>1, <1>2

(* A parser that stands where a field starts reads what the serialiser     *)
(* wrote, or finds that the packet is short.                               *)
LEMMA GetOne ==
    ASSUME NEW data \in Seq(Octet), NEW o \in Nat, NEW w, NEW f \in FieldName,
           NEW x \in Value(f), Agree(data, o, Put(f, x))
    PROVE  Get(data, At(o, w), f) =
               IF Len(data) >= o + Size(f, x) THEN At(o + Size(f, x), Append(w, x)) ELSE Failed
<1> DEFINE b == Put(f, x)  L == Len(data)
<1>1. /\ b \in Seq(Octet) /\ Len(b) = Size(f, x) /\ Size(f, x) \in Nat /\ L \in Nat
      /\ f # "str" => x \in Seq(Octet) /\ Len(x) = Width[f] /\ Width[f] \in Nat \ {0}
  BY PutBytes, LenProperties
<1>2. At(o, w).ok /\ At(o, w).o = o /\ At(o, w).v = w
  BY DEF At
<1>3. \A j \in 1..Size(f, x) : o + j <= L => data[o + j] = b[j]
  BY <1>1 DEF Agree
<1>4. CASE f # "str"
  <2>1. Size(f, x) = Width[f] /\ b = Reverse(x)
    BY <1>4 DEF Size, Put
  <2>2. CASE L >= o + Width[f]
    <3> DEFINE d == SubSeq(data, o + 1, o + Width[f])
    <3>0. PICK W \in Nat \ {0} : W = Width[f]
      BY <1>1, <1>4
    <3>1. d \in Seq(Octet) /\ Len(d) = W /\ \A j \in 1..W : d[j] = data[o + j]
      BY <2>2, <3>0, SubSeqProperties
    <3>2. \A j \in 1..W : d[j] = b[j]
      <4> TAKE j \in 1..W
      <4>1. o + j <= L /\ j \in 1..Size(f, x)
        BY <1>1, <2>1, <2>2, <3>0
      <4> HIDE DEF d, b
      <4> QED BY <1>3, <3>1, <4>1
    <3>3. x \in Seq(Octet) /\ Len(x) = W
      BY <1>1, <1>4, <3>0
    <3>4. \A j \in 1..W : b[j] = x[(W - j) + 1]
      BY <2>1, <3>3 DEF Reverse
    <3> HIDE DEF b, d
    <3>5. \A j \in 1..W : (W - j) + 1 \in 1..W /\ (W - ((W - j) + 1)) + 1 = j
      OBVIOUS
    <3>6. Reverse(d) = [j \in 1..W |-> d[(W - j) + 1]]
      BY <3>1 DEF Reverse
    <3>7. \A j \in 1..W : d[(W - j) + 1] = x[j]
      BY <3>2, <3>4, <3>5
    <3>8. x = [j \in 1..W |-> x[j]]
      BY <3>3
    <3>9. Reverse(d) = x
      BY <3>6, <3>7, <3>8
    <3>10. Get(data, At(o, w), f) = At(o + Width[f], Append(w, Reverse(d)))
      BY <1>2, <1>4, <2>2 DEF Get, Holds, d
    <3> QED BY <2>1, <2>2, <3>9, <3>10
  <2>3. CASE ~(L >= o + Width[f])
    BY <1>2, <1>4, <2>1, <2>3 DEF Get, Holds
  <2> QED BY <2>2, <2>3
<1>5. CASE f = "str"
  <2>1. x \in Seq(Octet) /\ Len(x) \in Nat /\ Len(x) < 65536 /\ Size(f, x) = 2 + Len(x)
    BY <1>5 DEF Value, Size
  <2> DEFINE n == Len(x)
  <2>2. b = PutLength(n) \o x
    BY <1>5 DEF Put
  <2>3. /\ b[1] = n % 256 /\ b[2] = (n \div 256) % 256
        /\ \A j \in 1..n : b[2 + j] = x[j]
    <3>1. PutLength(n) \in Seq(Octet) /\ Len(PutLength(n)) = 2
      BY <2>1, LengthBytes
    <3>2. /\ \A j \in 1..2 : b[j] = PutLength(n)[j]
          /\ \A j \in 1..n : b[2 + j] = x[j]
      <4> DEFINE a == PutLength(n)
      <4> HIDE DEF a, b, n
      <4>1. a \in Seq(Octet) /\ Len(a) = 2 /\ b = a \o x /\ x \in Seq(Octet) /\ Len(x) = n
        BY <2>1, <2>2, <3>1 DEF a, n
      <4>2. /\ \A j \in 1..2 : b[j] = a[j]
            /\ \A j \in 1..n : b[2 + j] = x[j]
        <5>1. /\ \A j \in 1..Len(a) : (a \o x)[j] = a[j]
              /\ \A j \in 1..Len(x) : (a \o x)[Len(a) + j] = x[j]
          BY <4>1, Concat
        <5> QED BY <4>1, <5>1
      <4> QED BY <4>2 DEF a
    <3> QED BY <2>1, <3>2, LengthBytes
  <2> HIDE DEF b
  <2>4. CASE ~(L >= o + 2)
    <3>1. ~(L >= o + (2 + n))
      BY <1>1, <2>1, <2>4
    <3>2. Get(data, At(o, w), f) = Failed
      BY <1>2, <1>5, <2>4 DEF Get, Holds
    <3> QED BY <2>1, <3>1, <3>2
  <2>5. CASE L >= o + 2
    <3>1. 1 \in 1..(2 + n) /\ 2 \in 1..(2 + n) /\ o + 1 <= L /\ o + 2 <= L
      BY <1>1, <2>1, <2>5
    <3>2. data[o + 1] = b[1] /\ data[o + 2] = b[2]
      BY <1>3, <2>1, <3>1
    <3>3. Length(data, o) = n
      <4>1. Length(data, o) = Joined(n)
        BY <2>3, <3>2 DEF Length, Joined
      <4> HIDE DEF n
      <4>2. n \in Nat /\ n < 65536
        BY <2>1 DEF n
      <4> QED BY <4>1, <4>2, LengthJoined
    <3>4. CASE ~(L >= (o + 2) + n)
      <4>1. Get(data, At(o, w), f) = Failed
        BY <1>2, <1>5, <3>3, <3>4 DEF Get, Holds
      <4>2. ~(L >= o + (2 + n))
        BY <1>1, <2>1, <3>4
      <4> QED BY <2>1, <4>1, <4>2
    <3>5. CASE L >= (o + 2) + n
      <4> DEFINE d == SubSeq(data, o + 3, o + 2 + n)
      <4>1. Get(data, At(o, w), f) = At(o + 2 + n, Append(w, d))
        BY <1>2, <1>5, <2>5, <3>3, <3>5 DEF Get, Holds
      <4>2. d \in Seq(Octet) /\ Len(d) = n /\ \A j \in 1..n : d[j] = data[(o + 2) + j]
        BY <1>1, <2>1, <3>5
      <4>3. \A j \in 1..n : data[(o + 2) + j] = b[2 + j]
        <5> TAKE j \in 1..n
        <5>1. 2 + j \in 1..(2 + n) /\ o + (2 + j) = (o + 2) + j /\ o + (2 + j) <= L
          BY <1>1, <2>1, <3>5
        <5> QED BY <1>3, <2>1, <5>1
      <4> HIDE DEF d
      <4>4. d = x
        <5>1. d \in Seq(Octet) /\ x \in Seq(Octet) /\ Len(d) = Len(x)
          BY <2>1, <4>2
        <5>2. \A j \in 1..Len(d) : d[j] = x[j]
          BY <2>3, <4>2, <4>3
        <5> QED BY <5>1, <5>2
      <4>5. L >= o + (2 + n) /\ o + 2 + n = o + (2 + n)
        BY <1>1, <2>1, <3>5
      <4> QED BY <2>1, <4>1, <4>4, <4>5
    <3> QED BY <3>4, <3>5
  <2> QED BY <2>4, <2>5
<1> QED BY <1>4, <1>5
-----------------------------------------------------------------------------
(* All fields: the recursions of GetAll and TryAll.                        *)

GetTo(data, p, fields, n, g) ==
    g = [i \in 0..n |-> IF i = 0 THEN p ELSE Get(data, g[i - 1], fields[i])]

TryTo(data, p, fields, n, g) ==
    g = [i \in 0..n |-> IF i = 0 THEN p ELSE Try(data, g[i - 1], fields[i])]

(* The function GetAll chooses exists: a parser reads its fields one after *)
(* the other.                                                              *)
LEMMA GetDefined ==
    ASSUME NEW data, NEW p, NEW fields \in Seq(FieldName)
    PROVE  \E g : GetTo(data, p, fields, Len(fields), g) /\ GetAll(data, p, fields) = g[Len(fields)]
<1> DEFINE S == {n \in Nat : \E g : GetTo(data, p, fields, n, g)}
<1>1. 0 \in S
  <2> DEFINE g == [i \in 0..0 |-> p]
  <2>1. \A i \in 0..0 : i = 0
    OBVIOUS
  <2>2. GetTo(data, p, fields, 0, g)
    BY <2>1 DEF GetTo
  <2> QED BY <2>2
<1>2. ASSUME NEW n \in Nat, n \in S PROVE n + 1 \in S
  <2>1. PICK f : GetTo(data, p, fields, n, f)
    BY <1>2
  <2> DEFINE x == Get(data, f[n], fields[n + 1])
             g == [i \in 0..(n + 1) |-> IF i <= n THEN f[i] ELSE x]
  <2>2. ASSUME NEW i \in 0..(n + 1)
        PROVE  g[i] = IF i = 0 THEN p ELSE Get(data, g[i - 1], fields[i])
    <3>1. CASE i <= n
      <4>1. i \in 0..n /\ (i # 0 => i - 1 \in 0..(n + 1) /\ i - 1 <= n)
        BY <3>1
      <4>2. f[i] = IF i = 0 THEN p ELSE Get(data, f[i - 1], fields[i])
        BY <2>1, <4>1 DEF GetTo
      <4>3. g[i] = f[i] /\ (i # 0 => g[i - 1] = f[i - 1])
        BY <3>1, <4>1
      <4> HIDE DEF g
      <4> QED BY <4>2, <4>3
    <3>2. CASE i = n + 1
      <4>1. i # 0 /\ i - 1 = n /\ n \in 0..(n + 1) /\ ~(i <= n)
        BY <3>2
      <4>2. g[i] = x /\ g[n] = f[n]
        BY <4>1
      <4> HIDE DEF g
      <4> QED BY <3>2, <4>1, <4>2
    <3> QED BY <3>1, <3>2
  <2>3. GetTo(data, p, fields, n + 1, g)
    <3>1. \A i \in 0..(n + 1) : g[i] = IF i = 0 THEN p ELSE Get(data, g[i - 1], fields[i])
      BY <2>2
    <3>2. g = [i \in 0..(n + 1) |-> g[i]]
      OBVIOUS
    <3> HIDE DEF g
    <3> QED BY <3>1, <3>2 DEF GetTo
  <2> QED BY <2>3
<1>3. \A n \in Nat : n \in S
  <2>1. \A n \in Nat : n \in S => n + 1 \in S
    BY <1>2
  <2> HIDE DEF S
  <2> QED BY <1>1, <2>1, SetInduction
<1> DEFINE N == Len(fields)
           F == CHOOSE g : g = [i \in 0..N |-> IF i = 0 THEN p ELSE Get(data, g[i - 1], fields[i])]
<1>4. PICK f : f = [i \in 0..N |-> IF i = 0 THEN p ELSE Get(data, f[i - 1], fields[i])]
  <2>1. N \in Nat
    BY LenProperties
  <2> QED BY <1>3, <2>1 DEF GetTo
<1>5. F = [i \in 0..N |-> IF i = 0 THEN p ELSE Get(data, F[i - 1], fields[i])]
  BY <1>4
<1>6. GetAll(data, p, fields) = F[N]
  BY DEF GetAll
<1>7. GetTo(data, p, fields, N, F)
  BY <1>5 DEF GetTo
<1> QED BY <1>6, <1>7

(* And so does the one TryAll chooses, for the fields that may be missing. *)
LEMMA TryDefined ==
    ASSUME NEW data, NEW p, NEW fields \in Seq(FieldName)
    PROVE  \E g : TryTo(data, p, fields, Len(fields), g) /\ TryAll(data, p, fields) = g[Len(fields)]
<1> DEFINE S == {n \in Nat : \E g : TryTo(data, p, fields, n, g)}
<1>1. 0 \in S
  <2> DEFINE g == [i \in 0..0 |-> p]
  <2>1. \A i \in 0..0 : i = 0
    OBVIOUS
  <2>2. TryTo(data, p, fields, 0, g)
    BY <2>1 DEF TryTo
  <2> QED BY <2>2
<1>2. ASSUME NEW n \in Nat, n \in S PROVE n + 1 \in S
  <2>1. PICK f : TryTo(data, p, fields, n, f)
    BY <1>2
  <2> DEFINE x == Try(data, f[n], fields[n + 1])
             g == [i \in 0..(n + 1) |-> IF i <= n THEN f[i] ELSE x]
  <2>2. ASSUME NEW i \in 0..(n + 1)
        PROVE  g[i] = IF i = 0 THEN p ELSE Try(data, g[i - 1], fields[i])
    <3>1. CASE i <= n
      <4>1. i \in 0..n /\ (i # 0 => i - 1 \in 0..(n + 1) /\ i - 1 <= n)
        BY <3>1
      <4>2. f[i] = IF i = 0 THEN p ELSE Try(data, f[i - 1], fields[i])
        BY <2>1, <4>1 DEF TryTo
      <4>3. g[i] = f[i] /\ (i # 0 => g[i - 1] = f[i - 1])
        BY <3>1, <4>1
      <4> HIDE DEF g
      <4> QED BY <4>2, <4>3
    <3>2. CASE i = n + 1
      <4>1. i # 0 /\ i - 1 = n /\ n \in 0..(n + 1) /\ ~(i <= n)
        BY <3>2
      <4>2. g[i] = x /\ g[n] = f[n]
        BY <4>1
      <4> HIDE DEF g
      <4> QED BY <3>2, <4>1, <4>2
    <3> QED BY <3>1, <3>2
  <2>3. TryTo(data, p, fields, n + 1, g)
    <3>1. \A i \in 0..(n + 1) : g[i] = IF i = 0 THEN p ELSE Try(data, g[i - 1], fields[i])
      BY <2>2
    <3>2. g = [i \in 0..(n + 1) |-> g[i]]
      OBVIOUS
    <3> HIDE DEF g
    <3> QED BY <3>1, <3>2 DEF TryTo
  <2> QED BY <2>3
<1>3. \A n \in Nat : n \in S
  <2>1. \A n \in Nat : n \in S => n + 1 \in S
    BY <1>2
  <2> HIDE DEF S
  <2> QED BY <1>1, <2>1, SetInduction
<1> DEFINE N == Len(fields)
           F == CHOOSE g : g = [i \in 0..N |-> IF i = 0 THEN p ELSE Try(data, g[i - 1], fields[i])]
<1>4. PICK f : f = [i \in 0..N |-> IF i = 0 THEN p ELSE Try(data, f[i - 1], fields[i])]
  <2>1. N \in Nat
    BY LenProperties
  <2> QED BY <1>3, <2>1 DEF TryTo
<1>5. F = [i \in 0..N |-> IF i = 0 THEN p ELSE Try(data, F[i - 1], fields[i])]
  BY <1>4
<1>6. TryAll(data, p, fields) = F[N]
  BY DEF TryAll
<1>7. TryTo(data, p, fields, N, F)
  BY <1>5 DEF TryTo
<1> QED BY <1>6, <1>7

(* Values for a list of fields.                                            *)
Values(fields) ==
    {v \in Seq(Seq(Octet)) : Len(v) = Len(fields) /\ \A i \in 1..Len(fields) : v[i] \in Value(fields[i])}

(* Field i of a packet b ends at offset o[i].                              *)
Fields(b, fields, v, o) ==
    /\ o \in [0..Len(fields) -> Nat] /\ o[0] = 0 /\ o[Len(fields)] = Len(b)
    /\ \A i \in 1..Len(fields) :
           /\ o[i] = o[i - 1] + Size(fields[i], v[i])
           /\ \A j \in 1..Size(fields[i], v[i]) : b[o[i - 1] + j] = Put(fields[i], v[i])[j]

(* A value of a field is a run of bytes.                                   *)
LEMMA ValueBytes ==
    ASSUME NEW f \in FieldName, NEW x \in Value(f)
    PROVE  x \in Seq(Octet)
<1>1. CASE f = "str"
  BY <1>1 DEF Value
<1>2. CASE f # "str"
  BY <1>2, PutBytes
<1> QED BY <1>1, <1>2

(* What the router fills the fields with are values.                       *)
LEMMA FillValues ==
    ASSUME NEW fields \in Seq(FieldName), NEW v \in Fill(fields)
    PROVE  v \in Values(fields)
<1> DEFINE N == Len(fields)
<1>1. /\ N \in Nat /\ v \in [1..N -> UNION {Domain(fields[i]) : i \in 1..N}]
      /\ \A i \in 1..N : v[i] \in Domain(fields[i])
  BY LenProperties DEF Fill
<1>2. ASSUME NEW i \in 1..N PROVE v[i] \in Value(fields[i]) /\ v[i] \in Seq(Octet)
  <2>1. fields[i] \in FieldName
    OBVIOUS
  <2> QED BY <1>1, <2>1, DomainValue, ValueBytes
<1>3. v \in [1..N -> Seq(Octet)]
  BY <1>1, <1>2
<1>4. v \in Seq(Seq(Octet)) /\ Len(v) = N
  <2>1. N \in Nat
    BY <1>1
  <2> HIDE DEF N
  <2> QED BY <1>3, <2>1
<1> QED BY <1>2, <1>4 DEF Values

(* A serialiser writes its fields one behind the other.                    *)
LEMMA PutAllFields ==
    ASSUME NEW fields \in Seq(FieldName), NEW v \in Values(fields)
    PROVE  /\ PutAll(fields, v) \in Seq(Octet)
           /\ \E o : Fields(PutAll(fields, v), fields, v, o)
<1> DEFINE c == [i \in 1..Len(fields) |-> Put(fields[i], v[i])]
<1>0. PICK N \in Nat : N = Len(fields)
  BY LenProperties
<1>1. ASSUME NEW i \in 1..N
      PROVE  c[i] = Put(fields[i], v[i]) /\ c[i] \in Seq(Octet) /\ Len(c[i]) = Size(fields[i], v[i])
  <2>1. fields[i] \in FieldName /\ v[i] \in Value(fields[i])
    BY <1>0 DEF Values
  <2> QED BY <1>0, <2>1, PutBytes
<1>2. c \in [1..N -> Seq(Octet)]
  BY <1>0, <1>1
<1>3. c \in Seq(Seq(Octet)) /\ Len(c) = N
  <2> HIDE DEF c
  <2> QED BY <1>2
<1>4. PutAll(fields, v) = FlattenSeq(c)
  BY DEF PutAll
<1> HIDE DEF c
<1>5. PICK o : Layout(FlattenSeq(c), c, o) /\ FlattenSeq(c) \in Seq(Octet)
  BY <1>3, FlattenLayout
<1>6. Fields(PutAll(fields, v), fields, v, o)
  <2>1. /\ o \in [0..N -> Nat] /\ o[0] = 0 /\ o[N] = Len(FlattenSeq(c))
        /\ \A i \in 1..N :
               /\ o[i] = o[i - 1] + Len(c[i])
               /\ \A j \in 1..Len(c[i]) : FlattenSeq(c)[o[i - 1] + j] = c[i][j]
    BY <1>3, <1>5 DEF Layout
  <2>2. \A i \in 1..N :
            /\ o[i] = o[i - 1] + Size(fields[i], v[i])
            /\ \A j \in 1..Size(fields[i], v[i]) :
                   PutAll(fields, v)[o[i - 1] + j] = Put(fields[i], v[i])[j]
    <3> TAKE i \in 1..N
    <3> QED BY <1>1, <1>4, <2>1
  <2> QED BY <1>0, <1>4, <2>1, <2>2 DEF Fields
<1> QED BY <1>4, <1>5, <1>6

(* A value at the end of a list of values.                                 *)
LEMMA AppendValue ==
    ASSUME NEW s \in Seq(Seq(Octet)), NEW x \in Seq(Octet)
    PROVE  Append(s, x) = s \o <<x>>
BY AppendIsConcat

(* The parts of a list may be put together in either order.                *)
LEMMA ConcatThree ==
    ASSUME NEW s \in Seq(Seq(Octet)), NEW t \in Seq(Seq(Octet)), NEW u \in Seq(Seq(Octet))
    PROVE  (s \o t) \o u = s \o (t \o u)
OBVIOUS

(* Values read in two goes.                                                *)
LEMMA ConcatValues ==
    ASSUME NEW s \in Seq(Seq(Octet)), NEW t \in Seq(Seq(Octet)), NEW x \in Seq(Octet)
    PROVE  Append(s \o t, x) = s \o (t \o <<x>>)
<1>1. s \o t \in Seq(Seq(Octet)) /\ <<x>> \in Seq(Seq(Octet))
  OBVIOUS
<1>2. Append(s \o t, x) = (s \o t) \o <<x>>
  <2> DEFINE u == s \o t
  <2>1. u \in Seq(Seq(Octet))
    BY <1>1
  <2> HIDE DEF u
  <2>2. Append(u, x) = u \o <<x>>
    BY <2>1, AppendValue
  <2> QED BY <2>2 DEF u
<1>3. (s \o t) \o <<x>> = s \o (t \o <<x>>)
  <2> DEFINE u == <<x>>
  <2>1. u \in Seq(Seq(Octet))
    BY <1>1
  <2> HIDE DEF u
  <2>2. (s \o t) \o u = s \o (t \o u)
    BY <2>1, ConcatThree
  <2> QED BY <2>2 DEF u
<1> QED BY <1>2, <1>3

(* The values read up to field n + 1 are those up to n and one more.       *)
LEMMA OneMore ==
    ASSUME NEW w \in Seq(Seq(Octet)), NEW v \in Seq(Seq(Octet)), NEW n \in Nat, n + 1 <= Len(v)
    PROVE  Append(w \o SubSeq(v, 1, n), v[n + 1]) = w \o SubSeq(v, 1, n + 1)
<1> DEFINE a == SubSeq(v, 1, n)  b == SubSeq(v, 1, n + 1)  x == v[n + 1]
<1>1. x \in Seq(Octet) /\ a \in Seq(Seq(Octet)) /\ Len(a) = n /\ \A i \in 1..n : a[i] = v[i]
  OBVIOUS
<1>2. b \in Seq(Seq(Octet)) /\ Len(b) = n + 1 /\ \A i \in 1..(n + 1) : b[i] = v[i]
  OBVIOUS
<1>3. b[n + 1] = x /\ \A i \in 1..n : b[i] = a[i]
  BY <1>1, <1>2
<1> HIDE DEF a, b, x
<1>4. Append(a, x) = b
  <2>1. /\ Append(a, x) \in Seq(Seq(Octet)) /\ Len(Append(a, x)) = n + 1
        /\ \A i \in 1..n : Append(a, x)[i] = a[i]
        /\ Append(a, x)[n + 1] = x
    BY <1>1, AppendProperties
  <2>2. \A i \in 1..(n + 1) : i \in 1..n \/ i = n + 1
    OBVIOUS
  <2>3. \A i \in 1..(n + 1) : Append(a, x)[i] = b[i]
    BY <1>3, <2>1, <2>2
  <2> QED BY <1>2, <2>1, <2>3, SeqEqual
<1>5. Append(w \o a, x) = w \o Append(a, x)
  <2>1. Append(a, x) = a \o <<x>>
    BY <1>1, AppendValue
  <2>2. Append(w \o a, x) = w \o (a \o <<x>>)
    BY <1>1, ConcatValues
  <2> QED BY <2>1, <2>2
<1> QED BY <1>4, <1>5 DEF a, b, x

(* A parser whose fields lie at offset start of the data, as far as the    *)
(* data goes, reads the values the serialiser wrote, and refuses the data  *)
(* exactly when a field is cut off.                                        *)
LEMMA GetAllReads ==
    ASSUME NEW data \in Seq(Octet), NEW start \in Nat, start <= Len(data),
           NEW w \in Seq(Seq(Octet)), NEW fields \in Seq(FieldName), NEW v \in Values(fields),
           Agree(data, start, PutAll(fields, v))
    PROVE  GetAll(data, At(start, w), fields) =
               IF Len(data) >= start + Len(PutAll(fields, v))
               THEN At(start + Len(PutAll(fields, v)), w \o v) ELSE Failed
<1>0. PICK N \in Nat, L \in Nat : N = Len(fields) /\ L = Len(data)
  BY LenProperties
<1> DEFINE b == PutAll(fields, v)
<1>1. PICK o : Fields(b, fields, v, o) /\ b \in Seq(Octet)
  BY PutAllFields
<1>2. PICK g : GetTo(data, At(start, w), fields, N, g)
               /\ GetAll(data, At(start, w), fields) = g[N]
  BY <1>0, GetDefined
<1>3. v \in Seq(Seq(Octet)) /\ Len(v) = N
  BY <1>0 DEF Values
<1>4. /\ o \in [0..N -> Nat] /\ o[0] = 0 /\ o[N] = Len(b)
      /\ \A i \in 1..N :
             /\ o[i] = o[i - 1] + Size(fields[i], v[i])
             /\ \A j \in 1..Size(fields[i], v[i]) : b[o[i - 1] + j] = Put(fields[i], v[i])[j]
  BY <1>0, <1>1 DEF Fields
<1>5. \A j \in 1..Len(b) : start + j <= L => data[start + j] = b[j]
  BY <1>0 DEF Agree
<1> HIDE DEF b
<1> DEFINE Right(n) ==
               g[n] = IF L >= start + o[n] THEN At(start + o[n], w \o SubSeq(v, 1, n)) ELSE Failed
<1>6. Right(0)
  <2>1. g[0] = At(start, w)
    BY <1>2 DEF GetTo
  <2>2. L >= start + o[0] /\ start + o[0] = start
    BY <1>0, <1>4
  <2>3. w \o SubSeq(v, 1, 0) = w
    BY <1>3
  <2> QED BY <2>1, <2>2, <2>3
<1>7. ASSUME NEW n \in Nat, n + 1 <= N, Right(n), o[n + 1] <= Len(b) PROVE Right(n + 1)
  <2> DEFINE f == fields[n + 1]  x == v[n + 1]  k == Size(f, x)
  <2>1. n + 1 \in 1..N /\ n \in 0..N /\ n + 1 \in 0..N /\ (n + 1) - 1 = n /\ n + 1 # 0
    BY <1>7
  <2>2. f \in FieldName /\ x \in Value(f)
    BY <1>0, <2>1 DEF Values
  <2>3. k \in Nat /\ Len(Put(f, x)) = k /\ o[n] \in Nat /\ o[n + 1] = o[n] + k
    BY <1>4, <2>1, <2>2, PutBytes
  <2>4. \A j \in 1..k : b[o[n] + j] = Put(f, x)[j]
    BY <1>4, <2>1
  <2>5. g[n + 1] = Get(data, g[n], f)
    BY <1>2, <2>1 DEF GetTo
  <2> HIDE DEF f, x, k
  <2>6. Agree(data, start + o[n], Put(f, x))
    <3> SUFFICES ASSUME NEW j \in 1..k, (start + o[n]) + j <= L
                 PROVE  data[(start + o[n]) + j] = Put(f, x)[j]
      BY <1>0, <2>3 DEF Agree
    <3>1. o[n] + j \in 1..Len(b) /\ start + (o[n] + j) = (start + o[n]) + j
      <4>1. PICK B \in Nat, q \in Nat : B = Len(b) /\ q = o[n]
        BY <1>1, <2>3, LenProperties
      <4>2. q + k <= B
        BY <1>7, <2>3, <4>1
      <4>3. q + j \in 1..B /\ start + (q + j) = (start + q) + j
        BY <2>3, <4>2
      <4> QED BY <4>1, <4>3
    <3> QED BY <1>5, <2>4, <3>1
  <2>7. CASE L >= start + o[n]
    <3>1. g[n] = At(start + o[n], w \o SubSeq(v, 1, n))
      BY <1>7, <2>7
    <3>2. Get(data, g[n], f) =
              IF L >= (start + o[n]) + k THEN At((start + o[n]) + k, Append(w \o SubSeq(v, 1, n), x)) ELSE Failed
      <4>1. start + o[n] \in Nat
        BY <2>3
      <4> QED BY <1>0, <2>2, <2>6, <3>1, <4>1, GetOne DEF k
    <3>3. (start + o[n]) + k = start + o[n + 1]
      BY <2>3
    <3>4. Append(w \o SubSeq(v, 1, n), x) = w \o SubSeq(v, 1, n + 1)
      BY <1>3, <1>7, OneMore DEF x
    <3> QED BY <2>5, <3>2, <3>3, <3>4
  <2>8. CASE ~(L >= start + o[n])
    <3>1. g[n] = Failed
      BY <1>7, <2>8
    <3>2. Get(data, g[n], f) = Failed
      BY <3>1 DEF Get, Failed
    <3>3. ~(L >= start + o[n + 1])
      BY <2>3, <2>8
    <3> QED BY <2>5, <3>2, <3>3
  <2> QED BY <2>7, <2>8
<1>8. \A n \in 0..N : o[n] <= Len(b)
  <2> DEFINE T == {d \in Nat : d \in 0..N => o[N - d] <= Len(b)}
  <2>1. 0 \in T
    BY <1>1, <1>4, LenProperties
  <2>2. ASSUME NEW d \in Nat, d \in T, d + 1 \in 0..N PROVE o[N - (d + 1)] <= Len(b)
    <3> DEFINE i == N - d
    <3>1. d \in 0..N /\ i \in 1..N /\ i - 1 \in 0..N /\ i \in 0..N /\ N - (d + 1) = i - 1
      BY <2>2
    <3>2. o[i] <= Len(b)
      BY <2>2, <3>1
    <3> HIDE DEF i
    <3>3. fields[i] \in FieldName /\ v[i] \in Value(fields[i])
      BY <1>0, <3>1 DEF Values
    <3>4. o[i] = o[i - 1] + Size(fields[i], v[i]) /\ Size(fields[i], v[i]) \in Nat
      BY <1>4, <3>1, <3>3, PutBytes
    <3>5. o[i - 1] \in Nat /\ Len(b) \in Nat
      BY <1>1, <1>4, <3>1, LenProperties
    <3> QED BY <3>1, <3>2, <3>4, <3>5
  <2>3. \A d \in Nat : d \in T => d + 1 \in T
    BY <2>2
  <2>4. \A d \in Nat : d \in T
    <3> HIDE DEF T
    <3> QED BY <2>1, <2>3, SetInduction
  <2> TAKE n \in 0..N
  <2>5. N - n \in Nat /\ N - n \in 0..N /\ N - (N - n) = n
    OBVIOUS
  <2> QED BY <2>4, <2>5
<1> DEFINE S == {n \in Nat : n <= N => Right(n)}
<1>9. \A n \in Nat : n \in S
  <2> HIDE DEF Right
  <2>1. 0 \in S
    BY <1>6
  <2>2. ASSUME NEW n \in Nat, n \in S PROVE n + 1 \in S
    <3> SUFFICES ASSUME n + 1 <= N PROVE Right(n + 1)
      OBVIOUS
    <3>1. Right(n) /\ n + 1 \in 0..N
      BY <2>2
    <3> QED BY <1>7, <1>8, <3>1
  <2>3. \A n \in Nat : n \in S => n + 1 \in S
    BY <2>2
  <2> HIDE DEF S
  <2> QED BY <2>1, <2>3, SetInduction
<1>10. Right(N)
  <2> HIDE DEF Right
  <2> QED BY <1>9
<1>11. SubSeq(v, 1, N) = v
  BY <1>3, SubSeqFull
<1> QED BY <1>0, <1>2, <1>4, <1>10, <1>11 DEF b

(* A field that may be missing is read or left at its zero value; the      *)
(* fields read before are kept.                                            *)
LEMMA TryOne ==
    ASSUME NEW data \in Seq(Octet), NEW o \in Nat, NEW w \in Seq(Seq(Octet)), NEW f \in FieldName
    PROVE  \E e \in Nat, y \in Seq(Octet) : Try(data, At(o, w), f) = At(e, Append(w, y))
<1>0. PICK L \in Nat : L = Len(data)
  BY LenProperties
<1>1. At(o, w).ok /\ At(o, w).o = o /\ At(o, w).v = w
  BY DEF At
<1> DEFINE q == Get(data, At(o, w), f)
<1>2. q = Failed \/ \E e \in Nat, y \in Seq(Octet) : q = At(e, Append(w, y))
  <2>1. CASE f # "str"
    <3>1. Width[f] \in Nat
      BY <2>1 DEF Width, FieldName
    <3> DEFINE d == SubSeq(data, o + 1, o + Width[f])
    <3>2. CASE L >= o + Width[f]
      <4>1. \A i \in (o + 1)..(o + Width[f]) : data[i] \in Octet
        BY <1>0, <3>1, <3>2
      <4>2. o + 1 \in Int /\ o + Width[f] \in Int
        BY <3>1
      <4>3. d \in Seq(Octet)
        BY <4>1, <4>2, SubSeqProperties
      <4>4. q = At(o + Width[f], Append(w, Reverse(d)))
        BY <1>0, <1>1, <2>1, <3>2 DEF Get, Holds
      <4> HIDE DEF d, q
      <4>5. Reverse(d) \in Seq(Octet)
        BY <4>3 DEF Reverse
      <4> QED BY <3>1, <4>4, <4>5
    <3>3. CASE ~(L >= o + Width[f])
      BY <1>0, <1>1, <2>1, <3>3 DEF Get, Holds
    <3> QED BY <3>2, <3>3
  <2>2. CASE f = "str"
    <3> DEFINE n == Length(data, o)  d == SubSeq(data, o + 3, o + 2 + n)
    <3>1. CASE L >= o + 2 /\ L >= (o + 2) + n
      <4>1. data[o + 1] \in Octet /\ data[o + 2] \in Octet
        BY <1>0, <3>1
      <4>2. n \in Nat
        <5>1. PICK a \in 0..255, b \in 0..255 : a = data[o + 1] /\ b = data[o + 2]
          BY <4>1 DEF Octet
        <5>2. n = a + 256 * b
          BY <5>1 DEF Length
        <5> QED BY <5>2
      <4> HIDE DEF n
      <4>3. \A i \in (o + 3)..(o + 2 + n) : data[i] \in Octet
        BY <1>0, <3>1, <4>2
      <4>4. o + 3 \in Int /\ o + 2 + n \in Int /\ o + 2 + n \in Nat
        BY <4>2
      <4>5. d \in Seq(Octet)
        BY <4>3, <4>4, SubSeqProperties
      <4>6. q = At(o + 2 + n, Append(w, d))
        BY <1>0, <1>1, <2>2, <3>1 DEF Get, Holds, n
      <4> HIDE DEF d, q
      <4> QED BY <4>4, <4>5, <4>6
    <3>2. CASE ~(L >= o + 2 /\ L >= (o + 2) + n)
      BY <1>0, <1>1, <2>2, <3>2 DEF Get, Holds
    <3> QED BY <3>1, <3>2
  <2> QED BY <2>1, <2>2
<1>3. Zero(f) \in Seq(Octet)
  <2>1. CASE f = "str"
    BY <2>1 DEF Zero
  <2>2. CASE f # "str"
    <3>1. Width[f] \in Nat /\ 0 \in Octet
      BY <2>2 DEF Width, FieldName, Octet
    <3>2. PICK W \in Nat : W = Width[f]
      BY <3>1
    <3>3. [i \in 1..W |-> 0] \in Seq(Octet)
      BY <3>1
    <3> QED BY <2>2, <3>2, <3>3 DEF Zero
  <2> QED BY <2>1, <2>2
<1> HIDE DEF q
<1>4. CASE q = Failed
  <2>1. ~q.ok
    BY <1>4 DEF Failed
  <2> DEFINE e == IF f = "str" /\ Holds(data, o, 2) THEN o + 2 ELSE o
  <2>2. Try(data, At(o, w), f) = At(e, Append(w, Zero(f)))
    BY <1>1, <2>1 DEF Try, q
  <2>3. e \in Nat
    OBVIOUS
  <2> HIDE DEF e
  <2> QED BY <1>3, <2>2, <2>3
<1>5. CASE \E e \in Nat, y \in Seq(Octet) : q = At(e, Append(w, y))
  <2>1. q.ok
    BY <1>5 DEF At
  <2>2. Try(data, At(o, w), f) = q
    BY <2>1 DEF Try, q
  <2> QED BY <1>5, <2>2
<1> QED BY <1>2, <1>4, <1>5

(* The fields of a failure never cost the head of the answer: the packet   *)
(* is accepted with what was read before, whatever follows.                *)
LEMMA TryAllKeeps ==
    ASSUME NEW data \in Seq(Octet), NEW start \in Nat, NEW w \in Seq(Seq(Octet)),
           NEW fields \in Seq(FieldName)
    PROVE  \E e \in Nat, z \in Seq(Seq(Octet)) : TryAll(data, At(start, w), fields) = At(e, w \o z)
<1>0. PICK N \in Nat : N = Len(fields)
  BY LenProperties
<1>1. PICK g : TryTo(data, At(start, w), fields, N, g) /\ TryAll(data, At(start, w), fields) = g[N]
  BY <1>0, TryDefined
<1> DEFINE Kept(n) == \E e \in Nat, z \in Seq(Seq(Octet)) : g[n] = At(e, w \o z)
           S == {n \in Nat : n <= N => Kept(n)}
<1>2. 0 \in S
  <2>1. g[0] = At(start, w)
    BY <1>1 DEF TryTo
  <2>2. w \o <<>> = w /\ <<>> \in Seq(Seq(Octet))
    OBVIOUS
  <2>3. g[0] = At(start, w \o <<>>)
    BY <2>1, <2>2
  <2> QED BY <2>2, <2>3
<1>3. ASSUME NEW n \in Nat, n \in S PROVE n + 1 \in S
  <2> SUFFICES ASSUME n + 1 <= N PROVE Kept(n + 1)
    OBVIOUS
  <2>1. PICK e \in Nat, z \in Seq(Seq(Octet)) : g[n] = At(e, w \o z)
    BY <1>3
  <2>2. n + 1 \in 0..N /\ n + 1 # 0 /\ (n + 1) - 1 = n /\ fields[n + 1] \in FieldName
    BY <1>0
  <2>3. g[n + 1] = Try(data, g[n], fields[n + 1])
    BY <1>1, <2>2 DEF TryTo
  <2>4. w \o z \in Seq(Seq(Octet))
    OBVIOUS
  <2>5. PICK e2 \in Nat, y \in Seq(Octet) : g[n + 1] = At(e2, Append(w \o z, y))
    <3> DEFINE u == w \o z  f == fields[n + 1]
    <3>1. u \in Seq(Seq(Octet)) /\ f \in FieldName /\ g[n + 1] = Try(data, At(e, u), f)
      BY <2>1, <2>2, <2>3, <2>4
    <3> HIDE DEF u, f
    <3>2. \E e2 \in Nat, y \in Seq(Octet) : Try(data, At(e, u), f) = At(e2, Append(u, y))
      BY <3>1, TryOne
    <3> QED BY <3>1, <3>2 DEF u
  <2>6. <<y>> \in Seq(Seq(Octet)) /\ z \o <<y>> \in Seq(Seq(Octet))
    OBVIOUS
  <2>7. Append(w \o z, y) = w \o (z \o <<y>>)
    BY ConcatValues
  <2> QED BY <2>5, <2>6, <2>7
<1>4. \A n \in Nat : n \in S
  <2>1. \A n \in Nat : n \in S => n + 1 \in S
    BY <1>3
  <2> HIDE DEF S
  <2> QED BY <1>2, <2>1, SetInduction
<1>5. Kept(N)
  <2> HIDE DEF Kept
  <2> QED BY <1>4
<1> QED BY <1>1, <1>5

(* When every field is there, TryAll reads what GetAll reads.              *)
LEMMA TryAllReads ==
    ASSUME NEW data, NEW p, NEW fields \in Seq(FieldName), GetAll(data, p, fields).ok
    PROVE  TryAll(data, p, fields) = GetAll(data, p, fields)
<1>0. PICK N \in Nat : N = Len(fields)
  BY LenProperties
<1>1. PICK g : GetTo(data, p, fields, N, g) /\ GetAll(data, p, fields) = g[N]
  BY <1>0, GetDefined
<1>2. PICK h : TryTo(data, p, fields, N, h) /\ TryAll(data, p, fields) = h[N]
  BY <1>0, TryDefined
<1>3. ASSUME NEW n \in Nat, n + 1 \in 0..N
      PROVE  /\ n \in 0..N /\ g[n + 1] = Get(data, g[n], fields[n + 1])
             /\ h[n + 1] = Try(data, h[n], fields[n + 1])
  <2>1. n \in 0..N /\ n + 1 # 0 /\ (n + 1) - 1 = n
    BY <1>3
  <2> QED BY <1>1, <1>2, <1>3, <2>1 DEF GetTo, TryTo
<1>4. ~Failed.ok
  BY DEF Failed
<1> DEFINE T == {d \in Nat : d \in 0..N => g[N - d].ok}
<1>5. \A d \in Nat : d \in T
  <2>1. 0 \in T
    BY <1>1
  <2>2. ASSUME NEW d \in Nat, d \in T PROVE d + 1 \in T
    <3> SUFFICES ASSUME d + 1 \in 0..N PROVE g[N - (d + 1)].ok
      OBVIOUS
    <3> DEFINE n == N - (d + 1)
    <3>1. n \in Nat /\ n + 1 = N - d /\ n + 1 \in 0..N /\ d \in 0..N
      OBVIOUS
    <3>2. g[n + 1].ok
      BY <2>2, <3>1
    <3> HIDE DEF n
    <3>3. g[n + 1] = Get(data, g[n], fields[n + 1])
      BY <1>3, <3>1
    <3>4. ~g[n].ok => g[n + 1] = Failed
      BY <3>3 DEF Get
    <3> QED BY <1>4, <3>2, <3>4 DEF n
  <2>3. \A d \in Nat : d \in T => d + 1 \in T
    BY <2>2
  <2> HIDE DEF T
  <2> QED BY <2>1, <2>3, SetInduction
<1>6. ASSUME NEW n \in 0..N PROVE g[n].ok
  <2>1. N - n \in Nat /\ N - n \in 0..N /\ N - (N - n) = n
    OBVIOUS
  <2> QED BY <1>5, <2>1
<1> HIDE DEF T
<1> DEFINE S == {n \in Nat : n \in 0..N => h[n] = g[n]}
<1>7. 0 \in S
  <2>1. 0 \in 0..N
    OBVIOUS
  <2>2. g[0] = p /\ h[0] = p
    BY <1>1, <1>2, <2>1 DEF GetTo, TryTo
  <2> QED BY <2>2
<1>8. ASSUME NEW n \in Nat, n \in S PROVE n + 1 \in S
  <2> SUFFICES ASSUME n + 1 \in 0..N PROVE h[n + 1] = g[n + 1]
    OBVIOUS
  <2>1. /\ n \in 0..N /\ g[n + 1] = Get(data, g[n], fields[n + 1])
        /\ h[n + 1] = Try(data, h[n], fields[n + 1])
    BY <1>3
  <2>2. h[n] = g[n] /\ g[n + 1].ok
    BY <1>6, <1>8, <2>1
  <2> QED BY <2>1, <2>2 DEF Try
<1>9. \A n \in Nat : n \in S
  <2>1. \A n \in Nat : n \in S => n + 1 \in S
    BY <1>8
  <2> HIDE DEF S
  <2> QED BY <1>7, <2>1, SetInduction
<1>10. h[N] = g[N]
  BY <1>9
<1> QED BY <1>1, <1>2, <1>10
-----------------------------------------------------------------------------
(* The tables of the protocol.                                             *)

(* The kinds of answers and of requests, by name.                          *)
LEMMA KindNames ==
    /\ Kinds = {"AuthChallenge", "AuthAck", "SessionAck",
                "SessionRefreshAck", "APIKeyResponse", "APIKeyRevokeAck",
                "APIKeyStatusResponse", "APIKeyDeleteAck",
                "RegisterChallenge", "RegisterAck", "VPNProvisionAck"}
    /\ DOMAIN RequestType = {"AuthInit", "AuthResponse", "SessionRequest",
                            "SessionRefresh", "APIKeyRequest",
                            "APIKeyRevoke", "APIKeyStatus", "APIKeyDelete",
                            "RegisterInit", "RegisterResponse",
                            "VPNProvisionRequest"}
BY DEF Kinds, AnswerType, RequestType

(* Every answer has a type byte of its own.                                *)
LEMMA AnswerTypes ==
    ASSUME NEW j \in Kinds
    PROVE  AnswerType[j] \in Octet /\ \A k \in Kinds : AnswerType[j] = AnswerType[k] => j = k
BY KindNames DEF AnswerType, Octet

(* Every request has a type byte of its own.                               *)
LEMMA RequestTypes ==
    ASSUME NEW j \in DOMAIN RequestType
    PROVE  /\ RequestType[j] \in Octet
           /\ \A k \in DOMAIN RequestType : RequestType[j] = RequestType[k] => j = k
BY KindNames DEF RequestType, Octet

(* Lists of up to four fields.                                             *)
LEMMA FieldLists ==
    /\ <<>> \in Seq(FieldName)
    /\ \A a \in FieldName : <<a>> \in Seq(FieldName)
    /\ \A a, b \in FieldName : <<a, b>> \in Seq(FieldName)
    /\ \A a, b, c \in FieldName : <<a, b, c>> \in Seq(FieldName)
    /\ \A a, b, c, d \in FieldName : <<a, b, c, d>> \in Seq(FieldName)
    /\ "str" \in FieldName /\ "u8" \in FieldName /\ "u16" \in FieldName /\ "u64" \in FieldName
<1>1. "str" \in FieldName /\ "u8" \in FieldName /\ "u16" \in FieldName /\ "u64" \in FieldName
  BY DEF FieldName
<1> QED BY <1>1

(* The fields of the answers are strings and numbers.                      *)
LEMMA AnswerShapes ==
    ASSUME NEW k \in Kinds
    PROVE  /\ AnswerFields[k].first \in Seq(FieldName)
           /\ AnswerFields[k].success \in Seq(FieldName)
           /\ AnswerFields[k].rest \in Seq(FieldName)
<1>1. CASE k = "AuthChallenge"
  <2>1. AnswerFields[k] = ParseAuthChallenge
    BY <1>1 DEF AnswerFields
  <2> QED BY <2>1, FieldLists DEF ParseAuthChallenge, Shape
<1>2. CASE k = "AuthAck"
  <2>1. AnswerFields[k] = ParseAuthAck
    BY <1>2 DEF AnswerFields
  <2> QED BY <2>1, FieldLists DEF ParseAuthAck, Shape
<1>3. CASE k = "SessionAck"
  <2>1. AnswerFields[k] = ParseSessionAck
    BY <1>3 DEF AnswerFields
  <2> QED BY <2>1, FieldLists DEF ParseSessionAck, Shape
<1>4. CASE k = "SessionRefreshAck"
  <2>1. AnswerFields[k] = ParseSessionRefreshAck
    BY <1>4 DEF AnswerFields
  <2> QED BY <2>1, FieldLists DEF ParseSessionRefreshAck, Shape
<1>5. CASE k = "APIKeyResponse"
  <2>1. AnswerFields[k] = ParseAPIKeyResponse
    BY <1>5 DEF AnswerFields
  <2> QED BY <2>1, FieldLists DEF ParseAPIKeyResponse, Shape
<1>6. CASE k = "APIKeyRevokeAck"
  <2>1. AnswerFields[k] = ParseAPIKeyRevokeAck
    BY <1>6 DEF AnswerFields
  <2> QED BY <2>1, FieldLists DEF ParseAPIKeyRevokeAck, Shape
<1>7. CASE k = "APIKeyStatusResponse"
  <2>1. AnswerFields[k] = ParseAPIKeyStatusResponse
    BY <1>7 DEF AnswerFields
  <2> QED BY <2>1, FieldLists DEF ParseAPIKeyStatusResponse, Shape
<1>8. CASE k = "APIKeyDeleteAck"
  <2>1. AnswerFields[k] = ParseAPIKeyDeleteAck
    BY <1>8 DEF AnswerFields
  <2> QED BY <2>1, FieldLists DEF ParseAPIKeyDeleteAck, Shape
<1>9. CASE k = "RegisterChallenge"
  <2>1. AnswerFields[k] = ParseRegisterChallenge
    BY <1>9 DEF AnswerFields
  <2> QED BY <2>1, FieldLists DEF ParseRegisterChallenge, Shape
<1>10. CASE k = "RegisterAck"
  <2>1. AnswerFields[k] = ParseRegisterAck
    BY <1>10 DEF AnswerFields
  <2> QED BY <2>1, FieldLists DEF ParseRegisterAck, Shape
<1>11. CASE k = "VPNProvisionAck"
  <2>1. AnswerFields[k] = ParseVPNProvisionAck
    BY <1>11 DEF AnswerFields
  <2> QED BY <2>1, FieldLists DEF ParseVPNProvisionAck, Shape
<1> QED BY <1>1, <1>2, <1>3, <1>4, <1>5, <1>6, <1>7, <1>8, <1>9, <1>10, <1>11, KindNames

(* And so are those of the requests.                                       *)
LEMMA RequestShapes ==
    ASSUME NEW k \in DOMAIN RequestType
    PROVE  RequestFields[k] \in Seq(FieldName)
<1>1. CASE k = "AuthInit"
  BY <1>1, FieldLists DEF RequestFields, SerializeAuthInit
<1>2. CASE k = "AuthResponse"
  BY <1>2, FieldLists DEF RequestFields, SerializeAuthResponse
<1>3. CASE k = "SessionRequest"
  BY <1>3, FieldLists DEF RequestFields, SerializeSessionRequest
<1>4. CASE k = "SessionRefresh"
  BY <1>4, FieldLists DEF RequestFields, SerializeSessionRefresh
<1>5. CASE k = "APIKeyRequest"
  BY <1>5, FieldLists DEF RequestFields, SerializeAPIKeyRequest
<1>6. CASE k = "APIKeyRevoke"
  BY <1>6, FieldLists DEF RequestFields, SerializeAPIKeyRevoke
<1>7. CASE k = "APIKeyStatus"
  BY <1>7, FieldLists DEF RequestFields, SerializeAPIKeyStatus
<1>8. CASE k = "APIKeyDelete"
  BY <1>8, FieldLists DEF RequestFields, SerializeAPIKeyDelete
<1>9. CASE k = "RegisterInit"
  BY <1>9, FieldLists DEF RequestFields, SerializeRegisterInit
<1>10. CASE k = "RegisterResponse"
  BY <1>10, FieldLists DEF RequestFields, SerializeRegisterResponse
<1>11. CASE k = "VPNProvisionRequest"
  BY <1>11, FieldLists DEF RequestFields, SerializeVPNProvisionRequest
<1> QED BY <1>1, <1>2, <1>3, <1>4, <1>5, <1>6, <1>7, <1>8, <1>9, <1>10, <1>11, KindNames
-----------------------------------------------------------------------------
(* One answer: what the router writes, the parser of its kind reads.       *)

(* An answer of the protocol.                                              *)
IsMessage(k, m) ==
    /\ m.k = k /\ m.head \in Values(AnswerFields[k].first) /\ m.more \in Values(More(k, m.head))
    /\ m.long \in BOOLEAN /\ (m.long => k = "APIKeyResponse")

(* What follows the head of an answer is a list of fields.                 *)
LEMMA MoreShape ==
    ASSUME NEW k \in Kinds, NEW a
    PROVE  More(k, a) \in Seq(FieldName)
BY AnswerShapes, FieldLists DEF More

(* The router sends answers of the protocol.                               *)
LEMMA MessageShape ==
    ASSUME NEW k \in Kinds, NEW m \in Messages(k)
    PROVE  IsMessage(k, m)
<1>1. PICK a \in Fill(AnswerFields[k].first) : \E b \in Fill(More(k, a)), l \in Formats(k) :
          m = [k |-> k, head |-> a, more |-> b, long |-> l]
  BY DEF Messages
<1>2. PICK b \in Fill(More(k, a)), l \in Formats(k) : m = [k |-> k, head |-> a, more |-> b, long |-> l]
  BY <1>1
<1>3. a \in Values(AnswerFields[k].first) /\ b \in Values(More(k, a))
  BY AnswerShapes, MoreShape, FillValues
<1>4. m.k = k /\ m.head = a /\ m.more = b /\ m.long = l
  BY <1>2
<1>5. l \in BOOLEAN /\ (l => k = "APIKeyResponse")
  BY Zenon DEF Formats
<1> QED BY <1>3, <1>4, <1>5 DEF IsMessage

(* Where type byte, head and rest of an answer lie.                        *)
LEMMA BodyBytes ==
    ASSUME NEW k \in Kinds, NEW m, IsMessage(k, m)
    PROVE  LET A == PutAll(AnswerFields[k].first, m.head)
               B == PutAll(More(k, m.head), m.more)
           IN  /\ A \in Seq(Octet) /\ B \in Seq(Octet) /\ Body(m) \in Seq(Octet)
               /\ Len(A) \in Nat /\ Len(B) \in Nat /\ Len(Body(m)) = (1 + Len(A)) + Len(B)
               /\ Body(m)[1] = AnswerType[k]
               /\ \A j \in 1..Len(A) : Body(m)[1 + j] = A[j]
               /\ \A j \in 1..Len(B) : Body(m)[(1 + Len(A)) + j] = B[j]
<1> DEFINE A == PutAll(AnswerFields[k].first, m.head)
           B == PutAll(More(k, m.head), m.more)
           t == <<AnswerType[k]>>
           T == t \o A
<1>1. A \in Seq(Octet) /\ B \in Seq(Octet)
  BY AnswerShapes, MoreShape, PutAllFields DEF IsMessage
<1>2. t \in Seq(Octet) /\ Len(t) = 1 /\ t[1] = AnswerType[k]
  BY AnswerTypes
<1>3. Body(m) = T \o B
  BY DEF Body, IsMessage
<1> HIDE DEF A, B, t
<1>4. /\ T \in Seq(Octet) /\ Len(T) = 1 + Len(A) /\ Len(A) \in Nat
      /\ (\A j \in 1..1 : T[j] = t[j]) /\ \A j \in 1..Len(A) : T[1 + j] = A[j]
  <2>1. /\ \A j \in 1..Len(t) : (t \o A)[j] = t[j]
        /\ \A j \in 1..Len(A) : (t \o A)[Len(t) + j] = A[j]
        /\ t \o A \in Seq(Octet) /\ Len(t \o A) = Len(t) + Len(A) /\ Len(A) \in Nat
    BY <1>1, <1>2, Concat
  <2> QED BY <1>2, <2>1
<1> HIDE DEF T
<1>5. /\ T \o B \in Seq(Octet) /\ Len(T \o B) = Len(T) + Len(B) /\ Len(B) \in Nat
      /\ \A j \in 1..Len(T) : (T \o B)[j] = T[j]
      /\ \A j \in 1..Len(B) : (T \o B)[Len(T) + j] = B[j]
  BY <1>1, <1>4, Concat
<1>6. 1 \in 1..1 /\ 1 \in 1..Len(T) /\ \A j \in 1..Len(A) : 1 + j \in 1..Len(T)
  BY <1>4
<1>7. Body(m)[1] = AnswerType[k] /\ \A j \in 1..Len(A) : Body(m)[1 + j] = A[j]
  BY <1>2, <1>3, <1>4, <1>5, <1>6
<1> QED BY <1>1, <1>3, <1>4, <1>5, <1>7 DEF A, B

(* The parser of kind k on data that has an answer m of this kind at       *)
(* offset start, cut off anywhere or followed by anything.                 *)
Reads(k, m, data, start) ==
    LET p == ParseFrom(k, data, start)
    IN  /\ p.ok => IF HasRest(k, m.head) THEN SubSeq(p.v, 1, Len(m.head)) = m.head
                   ELSE p.v = m.head \o m.more /\ Len(data) >= start + Len(Body(m))
        /\ Len(data) >= start + Len(Body(m)) => p.ok /\ p.v = m.head \o m.more

(* A parser accepts an answer of its kind exactly when it is there, and    *)
(* reads what the router wrote.                                            *)
LEMMA ParseReads ==
    ASSUME NEW k \in Kinds, NEW m, IsMessage(k, m), NEW data \in Seq(Octet), NEW start \in Nat,
           Agree(data, start, Body(m))
    PROVE  Reads(k, m, data, start)
<1> DEFINE F == AnswerFields[k].first  G == More(k, m.head)
           A == PutAll(F, m.head)  B == PutAll(G, m.more)
           p == IF Holds(data, start, 1) /\ data[start + 1] = AnswerType[k]
                THEN GetAll(data, At(start + 1, <<>>), F) ELSE Failed
<1>0. PICK L \in Nat, a \in Nat, b \in Nat : L = Len(data) /\ a = Len(A) /\ b = Len(B)
  BY BodyBytes, LenProperties
<1>1. /\ Len(Body(m)) = (1 + a) + b /\ Body(m)[1] = AnswerType[k]
      /\ \A j \in 1..a : Body(m)[1 + j] = A[j]
      /\ \A j \in 1..b : Body(m)[(1 + a) + j] = B[j]
  BY <1>0, BodyBytes
<1>2. F \in Seq(FieldName) /\ G \in Seq(FieldName) /\ m.head \in Values(F) /\ m.more \in Values(G)
  BY AnswerShapes, MoreShape DEF IsMessage
<1>3. m.head \in Seq(Seq(Octet)) /\ m.more \in Seq(Seq(Octet)) /\ <<>> \in Seq(Seq(Octet))
  BY <1>2 DEF Values
<1>4. \A j \in 1..((1 + a) + b) : start + j <= L => data[start + j] = Body(m)[j]
  BY <1>0, <1>1 DEF Agree
<1>5. ParseFrom(k, data, start) =
          IF ~p.ok THEN Failed
          ELSE IF Succeeds(k, p.v) THEN GetAll(data, p, AnswerFields[k].success)
          ELSE IF HasRest(k, p.v) THEN TryAll(data, p, AnswerFields[k].rest)
          ELSE p
  BY DEF ParseFrom
<1>6. Failed.ok = FALSE
  BY DEF Failed
<1>7. p = IF L >= (start + 1) + a THEN At((start + 1) + a, m.head) ELSE Failed
  <2>1. CASE ~(L >= start + 1)
    <3>1. ~(L >= (start + 1) + a)
      BY <2>1
    <3> QED BY <1>0, <2>1, <3>1 DEF Holds
  <2>2. CASE L >= start + 1
    <3>1. data[start + 1] = AnswerType[k]
      <4>1. 1 \in 1..((1 + a) + b) /\ start + 1 <= L
        BY <2>2
      <4> QED BY <1>1, <1>4, <4>1
    <3>2. Agree(data, start + 1, A)
      <4> SUFFICES ASSUME NEW j \in 1..a, (start + 1) + j <= L PROVE data[(start + 1) + j] = A[j]
        BY <1>0 DEF Agree
      <4>1. 1 + j \in 1..((1 + a) + b) /\ start + (1 + j) = (start + 1) + j
        OBVIOUS
      <4> QED BY <1>1, <1>4, <4>1
    <3>3. start + 1 \in Nat /\ start + 1 <= Len(data)
      BY <1>0, <2>2
    <3>4. GetAll(data, At(start + 1, <<>>), F) =
              IF L >= (start + 1) + a THEN At((start + 1) + a, <<>> \o m.head) ELSE Failed
      <4> HIDE DEF F
      <4> QED BY <1>0, <1>2, <1>3, <3>2, <3>3, GetAllReads
    <3>5. <<>> \o m.head = m.head
      BY <1>3
    <3> QED BY <1>0, <2>2, <3>1, <3>4, <3>5 DEF Holds
  <2> QED BY <2>1, <2>2
<1> HIDE DEF p
<1>8. CASE ~(L >= (start + 1) + a)
  <2>1. ParseFrom(k, data, start) = Failed
    BY <1>5, <1>6, <1>7, <1>8
  <2>2. ~(L >= start + ((1 + a) + b))
    BY <1>8
  <2> QED BY <1>0, <1>1, <1>6, <2>1, <2>2 DEF Reads
<1>9. CASE L >= (start + 1) + a
  <2> DEFINE e == (start + 1) + a
  <2>1. p = At(e, m.head) /\ p.ok /\ p.v = m.head /\ e \in Nat /\ e <= L
    BY <1>7, <1>9 DEF At
  <2>2. Agree(data, e, B)
    <3> SUFFICES ASSUME NEW j \in 1..b, e + j <= L PROVE data[e + j] = B[j]
      BY <1>0 DEF Agree
    <3>1. (1 + a) + j \in 1..((1 + a) + b) /\ start + ((1 + a) + j) = e + j
      OBVIOUS
    <3> QED BY <1>1, <1>4, <3>1
  <2>3. start + ((1 + a) + b) = e + b
    OBVIOUS
  <2> HIDE DEF e
  <2>4. GetAll(data, p, G) = IF L >= e + b THEN At(e + b, m.head \o m.more) ELSE Failed
    <3> HIDE DEF G
    <3>1. e \in Nat /\ e <= Len(data)
      BY <1>0, <2>1
    <3>2. GetAll(data, At(e, m.head), G) =
              IF Len(data) >= e + Len(B) THEN At(e + Len(B), m.head \o m.more) ELSE Failed
      BY <1>2, <1>3, <2>2, <3>1, GetAllReads
    <3>3. p = At(e, m.head) /\ L = Len(data) /\ b = Len(B)
      BY <1>0, <2>1
    <3>4. e + b = e + Len(B)
      BY <3>3
    <3>5. (L >= e + b) <=> (Len(data) >= e + Len(B))
      BY <3>3
    <3> HIDE DEF B
    <3>6. CASE L >= e + b
      BY <3>2, <3>3, <3>4, <3>5, <3>6
    <3>7. CASE ~(L >= e + b)
      BY <3>2, <3>3, <3>4, <3>5, <3>7
    <3> QED BY <3>6, <3>7
  <2>5. At(e + b, m.head \o m.more).ok /\ At(e + b, m.head \o m.more).v = m.head \o m.more
    BY DEF At
  <2> DEFINE P == ParseFrom(k, data, start)
  <2>6. CASE Succeeds(k, m.head)
    <3>1. ~HasRest(k, m.head)
      <4>1. m.head[1] = <<0>> /\ <<0>> # <<1>>
        BY <2>6 DEF Succeeds
      <4> QED BY <4>1 DEF HasRest
    <3>2. P = GetAll(data, p, G)
      BY <1>5, <2>1, <2>6 DEF More
    <3> QED BY <1>0, <1>1, <1>6, <2>3, <2>4, <2>5, <3>1, <3>2 DEF Reads
  <2>7. CASE ~Succeeds(k, m.head) /\ HasRest(k, m.head)
    <3>1. P = TryAll(data, p, G)
      BY <1>5, <2>1, <2>7 DEF More
    <3>2. PICK f \in Nat, z \in Seq(Seq(Octet)) : P = At(f, m.head \o z)
      <4> DEFINE w == m.head
      <4>1. w \in Seq(Seq(Octet)) /\ G \in Seq(FieldName) /\ e \in Nat /\ P = TryAll(data, At(e, w), G)
        BY <1>2, <1>3, <2>1, <3>1
      <4> HIDE DEF G, P, w
      <4>2. \E f \in Nat, z \in Seq(Seq(Octet)) : TryAll(data, At(e, w), G) = At(f, w \o z)
        BY <4>1, TryAllKeeps
      <4> QED BY <4>1, <4>2 DEF w
    <3>3. P.v = m.head \o z
      BY <3>2 DEF At
    <3>4. SubSeq(m.head \o z, 1, Len(m.head)) = m.head
      BY <1>3
    <3>5. L >= e + b => P.ok /\ P.v = m.head \o m.more
      <4> SUFFICES ASSUME L >= e + b PROVE P.ok /\ P.v = m.head \o m.more
        OBVIOUS
      <4>1. GetAll(data, p, G) = At(e + b, m.head \o m.more) /\ GetAll(data, p, G).ok
        BY <2>4, <2>5
      <4>2. P = GetAll(data, p, G)
        <5> HIDE DEF G, P
        <5> QED BY <1>2, <3>1, <4>1, TryAllReads
      <4> HIDE DEF P
      <4> QED BY <2>5, <4>1, <4>2
    <3> QED BY <1>0, <1>1, <2>3, <2>7, <3>3, <3>4, <3>5 DEF Reads
  <2>8. CASE ~Succeeds(k, m.head) /\ ~HasRest(k, m.head)
    <3>1. G = <<>> /\ P = p
      BY <1>5, <2>1, <2>8 DEF More
    <3>2. m.more = <<>> /\ b = 0
      <4>1. m.more \in Seq(Seq(Octet)) /\ Len(m.more) = 0
        BY <1>2, <3>1 DEF Values
      <4>2. m.more = <<>>
        BY <4>1, EmptySeq
      <4>3. B = <<>>
        BY <3>1 DEF PutAll, FlattenSeq
      <4> QED BY <1>0, <4>2, <4>3
    <3>3. m.head \o m.more = m.head
      BY <1>3, <3>2
    <3>4. e + b = e
      BY <2>1, <3>2
    <3> QED BY <1>0, <1>1, <2>1, <2>3, <2>8, <3>1, <3>3, <3>4 DEF Reads
  <2> QED BY <2>6, <2>7, <2>8
<1> QED BY <1>8, <1>9
-----------------------------------------------------------------------------
(* The stream.                                                             *)

(* What is on the stream are answers of the protocol, and what was asked   *)
(* is a request.                                                           *)
WireInv ==
    /\ pending \in Seq(UNION {Messages(k) : k \in Kinds})
    /\ asked = <<>> \/ \E k \in DOMAIN RequestType : \E r \in Requests(k) : asked = <<r>>

(* Only the protocol's messages are ever on the stream.                    *)
LEMMA WireInvariance == Spec => []WireInv
<1>1. Init => WireInv
  BY DEF Init, WireInv
<1>2. WireInv /\ [Next]_vars => WireInv'
  <2> SUFFICES ASSUME WireInv, [Next]_vars PROVE WireInv'
    OBVIOUS
  <2> DEFINE All == UNION {Messages(k) : k \in Kinds}
  <2>1. pending \in Seq(All)
    BY DEF WireInv
  <2>2. CASE Ask
    BY <2>2 DEF Ask, WireInv
  <2>3. CASE Answer
    <3>1. PICK k \in Kinds : \E m \in Messages(k) : pending' = Append(pending, m)
      BY <2>3 DEF Answer
    <3>2. PICK m \in All : pending' = Append(pending, m)
      BY <3>1
    <3>3. asked' = <<>>
      BY <2>3 DEF Answer
    <3>4. pending' \in Seq(All)
      <4> HIDE DEF All
      <4> QED BY <2>1, <3>2, AppendProperties
    <3> QED BY <3>3, <3>4 DEF WireInv
  <2>4. CASE Read
    BY <2>4 DEF Read, WireInv
  <2>5. CASE UNCHANGED vars
    BY <2>5 DEF vars, WireInv
  <2> QED BY <2>2, <2>3, <2>4, <2>5 DEF Next
<1> QED BY <1>1, <1>2, PTL DEF Spec

(* The bytes of an answer, with its length in front or not.                *)
LEMMA MessageBytes ==
    ASSUME NEW k \in Kinds, NEW m, IsMessage(k, m)
    PROVE  /\ Bytes(m) \in Seq(Octet) /\ Len(Bytes(m)) \in Nat
           /\ Body(m) \in Seq(Octet) /\ Len(Body(m)) \in Nat /\ Len(Body(m)) >= 1
           /\ ~m.long => Bytes(m) = Body(m)
           /\ m.long => /\ Len(Bytes(m)) = 2 + Len(Body(m))
                        /\ Bytes(m)[1] = Len(Body(m)) % 256
                        /\ Bytes(m)[2] = (Len(Body(m)) \div 256) % 256
                        /\ \A j \in 1..Len(Body(m)) : Bytes(m)[2 + j] = Body(m)[j]
<1> DEFINE A == PutAll(AnswerFields[k].first, m.head)
           B == PutAll(More(k, m.head), m.more)
<1>1. Body(m) \in Seq(Octet) /\ Len(A) \in Nat /\ Len(B) \in Nat /\ Len(Body(m)) = (1 + Len(A)) + Len(B)
  BY BodyBytes
<1> HIDE DEF A, B
<1>2. PICK n \in Nat : n = Len(Body(m)) /\ n >= 1
  BY <1>1
<1>3. CASE ~m.long
  BY <1>1, <1>2, <1>3 DEF Bytes
<1>4. CASE m.long
  <2> DEFINE h == PutLength(n)  c == Body(m)
  <2>1. h \in Seq(Octet) /\ Len(h) = 2 /\ h[1] = n % 256 /\ h[2] = (n \div 256) % 256
    <3>1. h \in Seq(Octet) /\ Len(h) = 2
      BY LengthBytes
    <3>2. h[1] = n % 256
      BY LengthBytes
    <3>3. h[2] = (n \div 256) % 256
      BY LengthBytes
    <3> QED BY <3>1, <3>2, <3>3
  <2>2. Bytes(m) = h \o c /\ c \in Seq(Octet) /\ Len(c) = n
    BY <1>1, <1>2, <1>4 DEF Bytes
  <2> HIDE DEF h, c
  <2>3. /\ h \o c \in Seq(Octet) /\ Len(h \o c) = Len(h) + Len(c)
        /\ \A j \in 1..Len(h) : (h \o c)[j] = h[j]
        /\ \A j \in 1..Len(c) : (h \o c)[Len(h) + j] = c[j]
    <3>1. h \in Seq(Octet) /\ c \in Seq(Octet)
      BY <2>1, <2>2
    <3> QED BY <3>1, Concat
  <2>4. /\ Bytes(m) \in Seq(Octet) /\ Len(Bytes(m)) = 2 + n
        /\ \A j \in 1..2 : Bytes(m)[j] = h[j]
        /\ \A j \in 1..n : Bytes(m)[2 + j] = c[j]
    BY <2>1, <2>2, <2>3
  <2>5. Bytes(m)[1] = n % 256 /\ Bytes(m)[2] = (n \div 256) % 256
    BY <2>1, <2>4
  <2> QED BY <1>1, <1>2, <1>4, <2>4, <2>5 DEF c
<1> QED BY <1>3, <1>4

(* The stream starts with the first answer on it.                          *)
LEMMA StreamStarts ==
    ASSUME WireInv
    PROVE  /\ Stream \in Seq(Octet) /\ (pending = <<>> => Stream = <<>>)
           /\ pending # <<>> =>
                /\ \E k \in Kinds : IsMessage(k, pending[1])
                /\ Len(Bytes(pending[1])) <= Len(Stream)
                /\ \A j \in 1..Len(Bytes(pending[1])) : Stream[j] = Bytes(pending[1])[j]
<1> DEFINE c == [i \in 1..Len(pending) |-> Bytes(pending[i])]
<1>0. PICK N \in Nat : N = Len(pending)
  BY LenProperties DEF WireInv
<1>1. ASSUME NEW i \in 1..N
      PROVE  (\E k \in Kinds : IsMessage(k, pending[i])) /\ Bytes(pending[i]) \in Seq(Octet)
  <2>1. pending[i] \in UNION {Messages(k) : k \in Kinds}
    BY <1>0 DEF WireInv
  <2>2. PICK k \in Kinds : pending[i] \in Messages(k)
    BY <2>1
  <2>3. IsMessage(k, pending[i])
    BY <2>2, MessageShape
  <2> QED BY <2>3, MessageBytes
<1>2. c \in [1..N -> Seq(Octet)] /\ \A i \in 1..N : c[i] = Bytes(pending[i])
  BY <1>0, <1>1
<1>3. Stream = FlattenSeq(c)
  BY DEF Stream
<1> HIDE DEF c
<1>4. c \in Seq(Seq(Octet)) /\ Len(c) = N
  BY <1>2
<1>5. PICK o : Layout(Stream, c, o) /\ Stream \in Seq(Octet)
  BY <1>3, <1>4, FlattenLayout
<1>6. pending = <<>> => Stream = <<>>
  <2> SUFFICES ASSUME pending = <<>> PROVE Stream = <<>>
    OBVIOUS
  <2>1. N = 0
    BY <1>0
  <2>2. c = <<>>
    BY <1>4, <2>1, EmptySeq
  <2> QED BY <1>3, <2>2 DEF FlattenSeq
<1>7. ASSUME pending # <<>>
      PROVE  /\ \E k \in Kinds : IsMessage(k, pending[1])
             /\ Len(Bytes(pending[1])) <= Len(Stream)
             /\ \A j \in 1..Len(Bytes(pending[1])) : Stream[j] = Bytes(pending[1])[j]
  <2>1. 1 \in 1..N
    BY <1>0, <1>7, EmptySeq DEF WireInv
  <2>2. c[1] = Bytes(pending[1]) /\ Bytes(pending[1]) \in Seq(Octet)
    BY <1>1, <1>2, <2>1
  <2>3. /\ o[0] = 0 /\ o[1] = o[1 - 1] + Len(c[1]) /\ o[1] <= Len(Stream)
        /\ \A j \in 1..Len(c[1]) : Stream[o[1 - 1] + j] = c[1][j]
    BY <1>4, <1>5, <2>1 DEF Layout
  <2>4. Len(c[1]) \in Nat /\ o[1 - 1] = 0 /\ \A j \in 1..Len(c[1]) : 0 + j = j
    BY <2>2, <2>3
  <2> QED BY <1>1, <2>1, <2>2, <2>3, <2>4
<1> QED BY <1>5, <1>6, <1>7

(* Fewer than three bytes are no API_KEY_RESPONSE in the old format.       *)
LEMMA ShortRefused ==
    ASSUME NEW data \in Seq(Octet), Len(data) < 3
    PROVE  ~ParseFrom("APIKeyResponse", data, 0).ok
<1> DEFINE F == AnswerFields["APIKeyResponse"].first
<1>1. F = <<"u8", "u8">>
  BY DEF AnswerFields, ParseAPIKeyResponse, Shape
<1>2. F \in Seq(FieldName) /\ Len(F) = 2 /\ F[1] = "u8" /\ F[2] = "u8"
  BY <1>1, FieldLists
<1> HIDE DEF F
<1>3. PICK g : GetTo(data, At(1, <<>>), F, 2, g) /\ GetAll(data, At(1, <<>>), F) = g[2]
  BY <1>2, GetDefined
<1>4. g[0] = At(1, <<>>) /\ g[1] = Get(data, g[0], "u8") /\ g[2] = Get(data, g[1], "u8")
  <2>1. g = [i \in 0..2 |-> IF i = 0 THEN At(1, <<>>) ELSE Get(data, g[i - 1], F[i])]
    BY <1>3 DEF GetTo
  <2>2. 0 \in 0..2 /\ 1 \in 0..2 /\ 2 \in 0..2 /\ 1 - 1 = 0 /\ 2 - 1 = 1
    OBVIOUS
  <2>3. g[1] = Get(data, g[1 - 1], F[1]) /\ g[2] = Get(data, g[2 - 1], F[2])
    BY <2>1, <2>2
  <2> QED BY <1>2, <2>1, <2>2, <2>3
<1>5. ~Failed.ok /\ Width["u8"] = 1
  BY DEF Failed, Width
<1>6. g[1] = Failed \/ (g[1].ok /\ g[1].o = 2)
  <2>1. g[0].ok /\ g[0].o = 1
    BY <1>4 DEF At
  <2>2. g[1] = IF Holds(data, 1, 1)
               THEN At(1 + 1, Append(g[0].v, Reverse(SubSeq(data, 1 + 1, 1 + 1)))) ELSE Failed
    BY <1>4, <1>5, <2>1 DEF Get
  <2> QED BY <2>2 DEF At
<1>7. g[2] = Failed
  <2>1. CASE g[1] = Failed
    BY <1>4, <1>5, <2>1 DEF Get
  <2>2. CASE g[1].ok /\ g[1].o = 2
    <3>1. ~Holds(data, 2, 1)
      BY DEF Holds
    <3> QED BY <1>4, <1>5, <2>2, <3>1 DEF Get
  <2> QED BY <1>6, <2>1, <2>2
<1>8. GetAll(data, At(1, <<>>), F) = Failed
  BY <1>3, <1>7
<1>9. 0 + 1 = 1
  OBVIOUS
<1> QED BY <1>5, <1>8, <1>9 DEF ParseFrom, F

(* Data that does not start with the type byte of k is refused.            *)
LEMMA OtherRefused ==
    ASSUME NEW k, NEW data, ~(Len(data) >= 1 /\ data[1] = AnswerType[k])
    PROVE  ~ParseFrom(k, data, 0).ok
<1>1. ~(Holds(data, 0, 1) /\ data[0 + 1] = AnswerType[k])
  BY DEF Holds
<1>2. ~Failed.ok
  BY DEF Failed
<1> QED BY <1>1, <1>2 DEF ParseFrom

(* The first n bytes of the stream, whose first answer is m of kind k0,    *)
(* given to the parser of kind k.                                          *)
LEMMA StreamParsed ==
    ASSUME WireInv, pending # <<>>, NEW k0 \in Kinds, IsMessage(k0, pending[1]),
           NEW k \in Kinds, NEW n \in 0..Len(Stream), ~Misleading(k)
    PROVE  LET m == pending[1]
               p == Parse(k, SubSeq(Stream, 1, n))
           IN  /\ k # k0 => ~p.ok
               /\ k = k0 /\ p.ok =>
                     IF HasRest(k, m.head) THEN SubSeq(p.v, 1, Len(m.head)) = m.head
                     ELSE p.v = m.head \o m.more /\ n >= Len(Bytes(m))
               /\ k = k0 /\ n >= Len(Bytes(m)) => p.ok /\ p.v = m.head \o m.more
<1> DEFINE m == pending[1]
           data == SubSeq(Stream, 1, n)
           p == Parse(k, data)
           Good == /\ k # k0 => ~p.ok
                   /\ k = k0 /\ p.ok =>
                         IF HasRest(k, m.head) THEN SubSeq(p.v, 1, Len(m.head)) = m.head
                         ELSE p.v = m.head \o m.more /\ n >= Len(Bytes(m))
                   /\ k = k0 /\ n >= Len(Bytes(m)) => p.ok /\ p.v = m.head \o m.more
<1> SUFFICES Good
  OBVIOUS
<1>0. PICK S \in Nat, B \in Nat, Y \in Nat : S = Len(Stream) /\ B = Len(Body(m)) /\ Y = Len(Bytes(m))
  BY StreamStarts, MessageBytes, LenProperties
<1>1. n \in Nat /\ n <= S /\ Y <= S /\ Stream \in Seq(Octet) /\ \A j \in 1..Y : Stream[j] = Bytes(m)[j]
  BY <1>0, StreamStarts
<1>2. data \in Seq(Octet) /\ Len(data) = n /\ \A j \in 1..n : data[j] = Stream[j]
  <2> DEFINE all == Stream
  <2> HIDE DEF all
  <2>1. all \in Seq(Octet) /\ n \in Nat /\ n <= Len(all)
    BY <1>0, <1>1 DEF all
  <2>2. \A i \in 1..n : all[i] \in Octet
    BY <2>1
  <2>3. /\ SubSeq(all, 1, n) \in Seq(Octet) /\ Len(SubSeq(all, 1, n)) = n
        /\ \A j \in 1..n : SubSeq(all, 1, n)[j] = all[j]
    BY <2>1, <2>2
  <2> QED BY <2>3 DEF all
<1>3. /\ B >= 1 /\ (~m.long => Bytes(m) = Body(m) /\ Y = B) /\ Body(m)[1] = AnswerType[k0]
      /\ m.long => /\ Y = 2 + B /\ Bytes(m)[1] = B % 256 /\ Bytes(m)[2] = (B \div 256) % 256
                   /\ \A j \in 1..B : Bytes(m)[2 + j] = Body(m)[j]
  <2>1. Body(m)[1] = AnswerType[k0]
    BY BodyBytes
  <2>2. /\ Len(Body(m)) >= 1 /\ (~m.long => Bytes(m) = Body(m))
        /\ m.long => /\ Len(Bytes(m)) = 2 + Len(Body(m)) /\ Bytes(m)[1] = Len(Body(m)) % 256
                     /\ Bytes(m)[2] = (Len(Body(m)) \div 256) % 256
                     /\ \A j \in 1..Len(Body(m)) : Bytes(m)[2 + j] = Body(m)[j]
    BY MessageBytes
  <2> HIDE DEF m
  <2> QED BY <1>0, <2>1, <2>2
<1>4. m.long \in BOOLEAN /\ (m.long => k0 = "APIKeyResponse")
  BY DEF IsMessage
<1>5. IF m.long THEN ~(k # "APIKeyResponse" /\ Stream[1] = AnswerType[k])
      ELSE ~(k = "APIKeyResponse" /\ S >= 2 + 1 /\ Stream[3] = AnswerType[k])
  BY <1>0 DEF Misleading, Holds
<1> HIDE DEF data, m
<1>6. CASE m.long /\ k # "APIKeyResponse"
  <2>1. p = ParseFrom(k, data, 0)
    BY <1>6 DEF Parse
  <2>2. ~(Len(data) >= 1 /\ data[1] = AnswerType[k])
    BY <1>2, <1>5, <1>6
  <2>3. ~p.ok
    BY <2>1, <2>2, OtherRefused
  <2> QED BY <1>4, <1>6, <2>3
<1>7. CASE m.long /\ k = "APIKeyResponse" /\ n < 3
  <2>1. p = ParseFrom("APIKeyResponse", data, 0)
    BY <1>2, <1>7 DEF Parse, Holds
  <2>2. ~p.ok
    BY <1>2, <1>7, <2>1, ShortRefused
  <2>3. ~(n >= Y)
    BY <1>1, <1>3, <1>7
  <2> HIDE DEF p
  <2> QED BY <1>0, <2>2, <2>3
<1>8. CASE m.long /\ k = "APIKeyResponse" /\ n >= 3
  <2>1. k = k0 /\ Y = 2 + B
    BY <1>3, <1>4, <1>8
  <2>2. Agree(data, 2, Body(m))
    <3> SUFFICES ASSUME NEW j \in 1..B, 2 + j <= n PROVE data[2 + j] = Body(m)[j]
      BY <1>0, <1>2 DEF Agree
    <3>1. 2 + j \in 1..n /\ 2 + j \in 1..Y
      BY <1>1, <2>1
    <3> QED BY <1>1, <1>2, <1>3, <1>8, <3>1
  <2>3. Reads(k, m, data, 2)
    BY <1>2, <2>1, <2>2, ParseReads DEF m
  <2>4. data[3] = AnswerType[k] /\ data[1] = B % 256 /\ data[2] = (B \div 256) % 256
    <3>1. 1 \in 1..n /\ 2 \in 1..n /\ 3 \in 1..n /\ 1 \in 1..Y /\ 2 \in 1..Y /\ 3 \in 1..Y
      BY <1>3, <1>8, <2>1
    <3>2. data[3] = Bytes(m)[3] /\ data[1] = Bytes(m)[1] /\ data[2] = Bytes(m)[2]
      BY <1>1, <1>2, <3>1
    <3>3. Bytes(m)[2 + 1] = Body(m)[1]
      BY <1>3, <1>8
    <3> QED BY <1>3, <1>8, <2>1, <3>2, <3>3
  <2>5. Length(data, 0) = Joined(B)
    BY <2>4 DEF Length, Joined
  <2>6. p = IF n >= 2 + Joined(B) THEN ParseFrom(k, data, 2) ELSE Failed
    BY <1>2, <1>8, <2>4, <2>5 DEF Parse, Holds
  <2>7. Joined(B) \in Nat /\ Joined(B) <= B
    BY LengthJoined
  <2>8. ~Failed.ok
    BY DEF Failed
  <2> DEFINE P == ParseFrom(k, data, 2)
  <2>9. /\ P.ok => IF HasRest(k, m.head) THEN SubSeq(P.v, 1, Len(m.head)) = m.head
                   ELSE P.v = m.head \o m.more /\ n >= 2 + B
        /\ n >= 2 + B => P.ok /\ P.v = m.head \o m.more
    BY <1>0, <1>2, <2>3 DEF Reads
  <2>10. n >= 2 + B => n >= 2 + Joined(B)
    BY <1>1, <2>7
  <2> HIDE DEF p, P
  <2>11. p = P \/ (p = Failed /\ ~(n >= 2 + B))
    BY <2>6, <2>10 DEF P
  <2> QED BY <1>0, <2>1, <2>8, <2>9, <2>11
<1>9. CASE ~m.long
  <2>1. ~(k = "APIKeyResponse" /\ n >= 2 + 1 /\ data[3] = AnswerType[k])
    <3>1. n >= 2 + 1 => 3 \in 1..n /\ S >= 2 + 1
      BY <1>1
    <3>2. n >= 2 + 1 => data[3] = Stream[3]
      BY <1>2, <3>1
    <3> QED BY <1>5, <1>9, <3>1, <3>2
  <2>2. p = ParseFrom(k, data, 0)
    BY <1>2, <2>1 DEF Parse, Holds
  <2>3. CASE k # k0
    <3>1. AnswerType[k] # AnswerType[k0]
      BY <2>3, AnswerTypes
    <3>2. n >= 1 => data[1] = AnswerType[k0]
      BY <1>1, <1>2, <1>3, <1>9
    <3>3. ~(Len(data) >= 1 /\ data[1] = AnswerType[k])
      BY <1>2, <3>1, <3>2
    <3>4. ~p.ok
      BY <2>2, <3>3, OtherRefused
    <3> HIDE DEF p
    <3> QED BY <2>3, <3>4
  <2>4. CASE k = k0
    <3>1. Agree(data, 0, Body(m))
      <4> SUFFICES ASSUME NEW j \in 1..B, 0 + j <= n PROVE data[0 + j] = Body(m)[j]
        BY <1>0, <1>2 DEF Agree
      <4>1. 0 + j = j /\ j \in 1..n /\ j \in 1..Y
        BY <1>1, <1>3, <1>9
      <4> QED BY <1>1, <1>2, <1>3, <1>9, <4>1
    <3>2. Reads(k, m, data, 0)
      BY <1>2, <2>4, <3>1, ParseReads DEF m
    <3>3. 0 + B = Y
      BY <1>3, <1>9
    <3>4. /\ p.ok => IF HasRest(k, m.head) THEN SubSeq(p.v, 1, Len(m.head)) = m.head
                     ELSE p.v = m.head \o m.more /\ n >= 0 + B
          /\ n >= 0 + B => p.ok /\ p.v = m.head \o m.more
      BY <1>0, <1>2, <2>2, <3>2 DEF Reads
    <3> HIDE DEF p
    <3> QED BY <1>0, <2>4, <3>3, <3>4
  <2> QED BY <2>3, <2>4
<1>10. n < 3 \/ n >= 3
  BY <1>1
<1> QED BY <1>4, <1>6, <1>7, <1>8, <1>9, <1>10
-----------------------------------------------------------------------------
(* A conn.Read may return any part of the stream: the parser accepts it    *)
(* only when the answer it is for is there in full, and reads what the     *)
(* router wrote (AcceptsOnlyWhole).                                        *)
THEOREM OnlyWholeAccepted == Spec => []AcceptsOnlyWhole
<1>1. WireInv => AcceptsOnlyWhole
  <2> SUFFICES ASSUME WireInv, NEW k \in Kinds, NEW n \in 0..Len(Stream),
                      Parse(k, SubSeq(Stream, 1, n)).ok, ~Misleading(k)
               PROVE  LET p == Parse(k, SubSeq(Stream, 1, n))
                          m == pending[1]
                      IN  /\ m.k = k
                          /\ IF HasRest(k, m.head) THEN SubSeq(p.v, 1, Len(m.head)) = m.head
                             ELSE p.v = m.head \o m.more /\ n >= Len(Bytes(m))
    BY DEF AcceptsOnlyWhole
  <2>1. CASE pending = <<>>
    <3>1. Stream = <<>> /\ n = 0
      BY <2>1, StreamStarts
    <3> DEFINE data == SubSeq(Stream, 1, n)
    <3>2. Len(data) = 0
      BY <3>1
    <3> HIDE DEF data
    <3>3. Parse(k, data) = ParseFrom(k, data, 0)
      BY <3>2 DEF Parse, Holds
    <3>4. ~ParseFrom(k, data, 0).ok
      BY <3>2, OtherRefused
    <3> QED BY <3>3, <3>4 DEF data
  <2>2. CASE pending # <<>>
    <3>1. PICK k0 \in Kinds : IsMessage(k0, pending[1])
      BY <2>2, StreamStarts
    <3>2. k = k0
      BY <2>2, <3>1, StreamParsed
    <3>3. pending[1].k = k
      BY <3>1, <3>2 DEF IsMessage
    <3> QED BY <2>2, <3>1, <3>2, <3>3, StreamParsed
  <2> QED BY <2>1, <2>2
<1> QED BY <1>1, WireInvariance, PTL

(* An answer that has arrived in full is accepted with all its fields,     *)
(* whatever follows it in the same read (AcceptsEveryWhole).               *)
THEOREM EveryWholeAccepted == Spec => []AcceptsEveryWhole
<1>1. WireInv => AcceptsEveryWhole
  <2> SUFFICES ASSUME WireInv, pending # <<>>, ~Misleading(pending[1].k),
                      NEW n \in Len(Bytes(pending[1]))..Len(Stream)
               PROVE  LET p == Parse(pending[1].k, SubSeq(Stream, 1, n))
                      IN  p.ok /\ p.v = pending[1].head \o pending[1].more
    BY DEF AcceptsEveryWhole
  <2>1. PICK k0 \in Kinds : IsMessage(k0, pending[1])
    BY StreamStarts
  <2>2. pending[1].k = k0
    BY <2>1 DEF IsMessage
  <2>3. Len(Bytes(pending[1])) \in Nat /\ Len(Stream) \in Nat
    BY <2>1, MessageBytes, StreamStarts, LenProperties
  <2>4. n \in 0..Len(Stream) /\ n >= Len(Bytes(pending[1]))
    BY <2>3
  <2> QED BY <2>1, <2>2, <2>4, StreamParsed
<1> QED BY <1>1, WireInvariance, PTL

(* Two lists of values that a packet can be read as are the same list.     *)
LEMMA ReadOnce ==
    ASSUME NEW data \in Seq(Octet), NEW start \in Nat, NEW fields \in Seq(FieldName),
           NEW v \in Values(fields), NEW w \in Values(fields),
           Agree(data, start, PutAll(fields, v)), Agree(data, start, PutAll(fields, w)),
           Len(data) >= start + Len(PutAll(fields, v)), Len(data) >= start + Len(PutAll(fields, w))
    PROVE  v = w
<1> DEFINE a == Len(PutAll(fields, v))  b == Len(PutAll(fields, w))
           p == GetAll(data, At(start, <<>>), fields)
<1>1. a \in Nat /\ b \in Nat
  BY PutAllFields, LenProperties
<1>2. start <= Len(data) /\ <<>> \in Seq(Seq(Octet))
  <2>1. Len(data) >= start + a /\ Len(data) \in Nat
    BY LenProperties
  <2> HIDE DEF a
  <2> QED BY <1>1, <2>1
<1>3. p = At(start + a, <<>> \o v)
  BY <1>2, GetAllReads
<1>4. p = At(start + b, <<>> \o w)
  BY <1>2, GetAllReads
<1>5. v \in Seq(Seq(Octet)) /\ w \in Seq(Seq(Octet))
  BY DEF Values
<1>6. <<>> \o v = v /\ <<>> \o w = w
  BY <1>5
<1> HIDE DEF p, a, b
<1>7. p.v = v /\ p.v = w
  BY <1>3, <1>4, <1>6 DEF At
<1> QED BY <1>7

(* The bytes of a request that is not a REGISTER_INIT.                     *)
LEMMA RequestBytes ==
    ASSUME NEW k \in DOMAIN RequestType, k # "RegisterInit", NEW v \in Values(RequestFields[k])
    PROVE  LET A == PutAll(RequestFields[k], v)
           IN  /\ A \in Seq(Octet) /\ Len(A) \in Nat /\ Serialize(k, v) \in Seq(Octet)
               /\ Len(Serialize(k, v)) = 1 + Len(A) /\ Serialize(k, v)[1] = RequestType[k]
               /\ \A j \in 1..Len(A) : Serialize(k, v)[1 + j] = A[j]
<1> DEFINE A == PutAll(RequestFields[k], v)  t == <<RequestType[k]>>
<1>1. Serialize(k, v) = t \o A
  BY DEF Serialize
<1>2. A \in Seq(Octet)
  BY RequestShapes, PutAllFields
<1>3. t \in Seq(Octet) /\ Len(t) = 1 /\ t[1] = RequestType[k]
  BY RequestTypes
<1> HIDE DEF A, t
<1>4. /\ t \o A \in Seq(Octet) /\ Len(t \o A) = Len(t) + Len(A) /\ Len(A) \in Nat
      /\ \A j \in 1..Len(t) : (t \o A)[j] = t[j]
      /\ \A j \in 1..Len(A) : (t \o A)[Len(t) + j] = A[j]
  BY <1>2, <1>3, Concat
<1>5. (t \o A)[1] = t[1]
  BY <1>3, <1>4
<1> QED BY <1>1, <1>2, <1>3, <1>4, <1>5 DEF A

(* A request, REGISTER_INIT included, starts with its type byte.           *)
LEMMA RequestStarts ==
    ASSUME NEW k \in DOMAIN RequestType, NEW v \in Values(RequestFields[k])
    PROVE  Serialize(k, v)[1] = RequestType[k]
<1>1. CASE k # "RegisterInit"
  BY <1>1, RequestBytes
<1>2. CASE k = "RegisterInit"
  <2> DEFINE t == <<RequestType[k]>>
             A == Put("str", v[1]) \o Trailer(v[2], v[3])
  <2>1. Serialize(k, v) = t \o A
    BY <1>2 DEF Serialize
  <2>2. t \in Seq(Octet) /\ Len(t) = 1 /\ t[1] = RequestType[k]
    BY RequestTypes
  <2>3. A \in Seq(Octet)
    <3>1. RequestFields[k] = <<"str", "u8", "str">>
      BY <1>2 DEF RequestFields, SerializeRegisterInit
    <3>2. v[1] \in Value("str") /\ v[2] \in Value("u8") /\ v[3] \in Value("str")
      BY <3>1 DEF Values
    <3>3. "str" \in FieldName /\ "u8" \in FieldName
      BY DEF FieldName
    <3>4. Put("str", v[1]) \in Seq(Octet)
      BY <3>2, <3>3, PutBytes
    <3>5. v[2] \in Seq(Octet) /\ v[3] \in Seq(Octet)
      BY <3>2, <3>3, ValueBytes
    <3> DEFINE r == v[2]  s == v[3]
               l == IF Len(s) > MaxModelLen THEN MaxModelLen ELSE Len(s)
               c == SubSeq(s, 1, l)
    <3> HIDE DEF r, s
    <3>6. r \in Seq(Octet) /\ s \in Seq(Octet) /\ Len(s) \in Nat
      BY <3>5 DEF r, s
    <3>7. l \in Nat /\ l <= Len(s) /\ l <= 255
      BY <3>6, WireAssumption
    <3>8. c \in Seq(Octet) /\ Len(c) = l
      <4> HIDE DEF l
      <4>1. \A i \in 1..l : s[i] \in Octet
        BY <3>6, <3>7
      <4> QED BY <3>6, <3>7, <4>1
    <3>9. <<Len(c)>> \in Seq(Octet)
      <4>1. Len(c) \in Octet
        <5> HIDE DEF l, c
        <5>1. l \in 0..255
          BY <3>7
        <5> QED BY <3>8, <5>1 DEF Octet
      <4> HIDE DEF c
      <4> QED BY <4>1
    <3>10. r \o <<Len(c)>> \o c \in Seq(Octet)
      <4> HIDE DEF c
      <4> QED BY <3>6, <3>8, <3>9
    <3>11. Trailer(r, s) = IF r # <<0>> \/ c # <<>> THEN r \o <<Len(c)>> \o c ELSE <<>>
      BY DEF Trailer
    <3>12. Trailer(r, s) \in Seq(Octet)
      <4> HIDE DEF c
      <4> QED BY <3>10, <3>11
    <3> DEFINE x == Put("str", v[1])  y == Trailer(r, s)
    <3>13. x \o y \in Seq(Octet)
      <4>1. x \in Seq(Octet) /\ y \in Seq(Octet)
        BY <3>4, <3>12
      <4> HIDE DEF x, y
      <4> QED BY <4>1, Concat
    <3> QED BY <3>13 DEF r, s
  <2> HIDE DEF t, A
  <2>4. \A j \in 1..Len(t) : (t \o A)[j] = t[j]
    BY <2>2, <2>3, Concat
  <2>5. 1 \in 1..Len(t)
    BY <2>2
  <2>6. (t \o A)[1] = t[1]
    BY <2>4, <2>5
  <2> QED BY <2>1, <2>2, <2>6
<1> QED BY <1>1, <1>2

(* No request is the beginning of another one, so that the router, which   *)
(* reads from the same kind of stream, can tell where a request ends       *)
(* (RequestsDelimited).                                                    *)
THEOREM RequestsEnd == Spec => []RequestsDelimited
<1>1. WireInv => RequestsDelimited
  <2> SUFFICES ASSUME WireInv, asked # <<>>, asked[1].k # "RegisterInit",
                      NEW k \in DOMAIN RequestType, NEW r \in Requests(k),
                      IsPrefix(Serialize(asked[1].k, asked[1].v), Serialize(k, r.v))
               PROVE  r = asked[1]
    BY DEF RequestsDelimited
  <2>1. PICK k0 \in DOMAIN RequestType : \E q \in Requests(k0) : asked = <<q>>
    BY DEF WireInv
  <2>2. PICK q \in Requests(k0) : asked = <<q>>
    BY <2>1
  <2>3. PICK v \in Fill(RequestFields[k0]) : q = [k |-> k0, v |-> v]
    BY DEF Requests
  <2>4. PICK w \in Fill(RequestFields[k]) : r = [k |-> k, v |-> w]
    BY DEF Requests
  <2>5. v \in Values(RequestFields[k0]) /\ w \in Values(RequestFields[k])
    BY RequestShapes, FillValues
  <2>6. asked[1] = q /\ q.k = k0 /\ q.v = v /\ r.k = k /\ r.v = w /\ k0 # "RegisterInit"
    BY <2>2, <2>3, <2>4
  <2> DEFINE a == Serialize(k0, v)  b == Serialize(k, w)
  <2>7. Len(a) <= Len(b) /\ SubSeq(a, 1, Len(a)) = SubSeq(b, 1, Len(a))
    BY <2>6 DEF IsPrefix
  <2>8. /\ a \in Seq(Octet) /\ Len(a) \in Nat /\ Len(a) >= 1 /\ a[1] = RequestType[k0]
    <3>1. a \in Seq(Octet) /\ a[1] = RequestType[k0]
          /\ Len(PutAll(RequestFields[k0], v)) \in Nat /\ Len(a) = 1 + Len(PutAll(RequestFields[k0], v))
      BY <2>5, <2>6, RequestBytes
    <3> HIDE DEF a
    <3> QED BY <3>1
  <2>9. b[1] = RequestType[k]
    BY <2>5, RequestStarts
  <2> HIDE DEF a, b
  <2>10. \A j \in 1..Len(a) : a[j] = b[j]
    <3> DEFINE c == SubSeq(a, 1, Len(a))  d == SubSeq(b, 1, Len(a))
    <3>1. \A j \in 1..Len(a) : c[j] = a[j]
      BY <2>8
    <3>2. \A j \in 1..Len(a) : d[j] = b[j]
      BY <2>7, <2>8
    <3> HIDE DEF c, d
    <3>3. c = d
      BY <2>7 DEF c, d
    <3> QED BY <3>1, <3>2, <3>3
  <2>11. k = k0
    <3>1. a[1] = b[1]
      BY <2>8, <2>10
    <3> QED BY <2>8, <2>9, <3>1, RequestTypes
  <2> DEFINE F == RequestFields[k]  A == PutAll(F, v)  B == PutAll(F, w)
  <2>12. /\ Len(A) \in Nat /\ Len(a) = 1 + Len(A) /\ \A j \in 1..Len(A) : a[1 + j] = A[j]
    BY <2>5, <2>6, <2>11, RequestBytes DEF a
  <2>13. /\ Len(B) \in Nat /\ Len(b) = 1 + Len(B) /\ b \in Seq(Octet)
         /\ \A j \in 1..Len(B) : b[1 + j] = B[j]
    BY <2>5, <2>6, <2>11, RequestBytes DEF b
  <2>14. F \in Seq(FieldName) /\ v \in Values(F) /\ w \in Values(F)
    BY <2>5, <2>11, RequestShapes
  <2> HIDE DEF F
  <2>15. Agree(b, 1, A)
    <3> SUFFICES ASSUME NEW j \in 1..Len(A) PROVE b[1 + j] = A[j]
      BY DEF Agree
    <3>1. 1 + j \in 1..Len(a)
      BY <2>12
    <3> QED BY <2>10, <2>12, <3>1
  <2>16. Agree(b, 1, B)
    BY <2>13 DEF Agree
  <2>17. Len(b) >= 1 + Len(A) /\ Len(b) >= 1 + Len(B)
    BY <2>7, <2>12, <2>13
  <2>18. v = w
    BY <2>13, <2>14, <2>15, <2>16, <2>17, ReadOnce
  <2> QED BY <2>3, <2>4, <2>6, <2>11, <2>18
<1> QED BY <1>1, WireInvariance, PTL
=============================================================================
