--------------------- MODULE OutboundPacketStreamProofs ---------------------
(***************************************************************************)
(* Proofs about OutboundPacketStream, for every capacity, every set of     *)
(* addresses and arguments, and any depth of nesting.                      *)
(***************************************************************************)
EXTENDS OutboundPacketStream, SequenceTheorems, WellFoundedInduction, TLAPS

-----------------------------------------------------------------------------
(* The inductive invariant.                                                *)

(* The elements that have been begun, each without what is nested in it.   *)
Contents ==
  IF messageIsInProgress THEN Append(open, AddressPart(message.address)) ELSE open

(* The room for a size before the i-th of them, and where that room is.    *)
Gap(i) == IF i = 2 THEN 0 ELSE 4

SlotOf(starts, i) ==
  CASE i = 1 -> NoElement
    [] i = 2 -> 0
    [] OTHER -> starts[i] - 4

(* The contents lie in bytes one behind the other, the i-th at starts[i],  *)
(* with a slot before each that is inside another, and end at cursor.  The *)
(* slot of an unfinished element holds the place of the enclosing one's.   *)
LevelAt(bytes, starts, contents, i) ==
  /\ i > 1 => /\ contents[i] # << >>
              /\ starts[i] = starts[i - 1] + Len(contents[i - 1]) + Gap(i)
  /\ i > 2 => bytes[starts[i] - 3].value = SlotOf(starts, i - 1)
  /\ \A j \in 1..(i - 1) : starts[j] + Len(contents[j]) + Gap(i) <= starts[i]
  /\ \A k \in 1..Len(contents[i]) : bytes[starts[i] + k] = contents[i][k]

Layout(bytes, cursor, slot, starts, contents) ==
  /\ Len(starts) = Len(contents)
  /\ starts[1] = 0
  /\ \A i \in 1..Len(contents) : LevelAt(bytes, starts, contents, i)
  /\ cursor = starts[Len(contents)] + Len(contents[Len(contents)])
  /\ slot = SlotOf(starts, Len(contents))

(* The message in progress lies behind messageCursor_ and before end_.     *)
MessageSoFar ==
  /\ message \in [address : Nat, arguments : Seq(Arguments)]
  /\ typeTags = Tags(message.arguments)
  /\ buffer = SubSeq(buffer, 1, messageCursor) \o ArgumentPart(message.arguments)

(* The inductive invariant.                                                *)
IInv ==
  /\ TypeOK
  /\ open \in Seq(Seq(Byte))
  /\ IF messageIsInProgress THEN MessageSoFar ELSE message = NoMessage
  /\ Size <= Capacity
  /\ \E starts \in Seq(Nat) :
       Layout(buffer, messageCursor, elementSizePtr, starts, Contents)

-----------------------------------------------------------------------------
(* Lemmas about sequences.                                                 *)

Associates(s, t, u) == (s \o t) \o u = s \o (t \o u)

LEMMA ConcatAssociates ==
  ASSUME NEW s \in Seq(Byte), NEW t \in Seq(Byte), NEW u \in Seq(Byte)
  PROVE  Associates(s, t, u)
BY ConcatAssociative DEF Associates

LEMMA FunctionIsSeq ==
  ASSUME NEW S, NEW n \in Nat, NEW f \in [1..n -> S]
  PROVE  /\ f \in Seq(S) /\ Len(f) = n /\ DOMAIN f = 1..n
         /\ \A i \in 1..n : f[i] \in S
<1>1. f \in Seq(S)
  BY SeqDef
<1>2. DOMAIN f = 1..n /\ DOMAIN f = 1..Len(f) /\ Len(f) \in Nat
  BY <1>1, LenProperties
<1> QED BY <1>1, <1>2

(* A set of numbers that is not empty has a least one.                     *)
LEMMA LeastNumber ==
  ASSUME NEW T \in SUBSET Nat, T # {}
  PROVE  \E x \in T : \A y \in T : x <= y
<1> DEFINE R == { p \in Nat \X Nat : p[1] < p[2] }
<1>1. IsWellFoundedOn(R, Nat)
  BY NatLessThanWellFounded DEF OpToRel
<1>2. PICK x \in T : \A y \in T : << y, x >> \notin R
  BY <1>1, WFMin
<1>3. ASSUME NEW y \in T PROVE x <= y
  <2>1. x \in Nat /\ y \in Nat
    OBVIOUS
  <2>2. y < x => << y, x >> \in R
    BY <2>1
  <2> QED BY <1>2, <2>1, <2>2
<1> QED BY <1>3

(* f joins the sequences of seqs one after the other.                      *)
Joins(f, seqs, n) ==
  \A i \in 1..n : f[i] = IF i = 1 THEN seqs[i] ELSE f[i - 1] \o seqs[i]

LEMMA JoiningExists ==
  ASSUME NEW S, NEW n \in Nat, n # 0, NEW seqs \in [1..n -> Seq(S)]
  PROVE  \E f \in [1..n -> Seq(S)] : Joins(f, seqs, n)
<1> DEFINE None == { j \in 1..n : ~ \E f \in [1..j -> Seq(S)] : Joins(f, seqs, j) }
<1>1. ASSUME None # {} PROVE FALSE
  <2>1. PICK j \in None : \A i \in None : j <= i
    <3>1. None \in SUBSET Nat
      OBVIOUS
    <3> HIDE DEF None
    <3> QED BY <1>1, <3>1, LeastNumber
  <2>2. j \in 1..n /\ ~ \E f \in [1..j -> Seq(S)] : Joins(f, seqs, j)
    OBVIOUS
  <2>3. CASE j = 1
    <3> DEFINE f == [i \in 1..1 |-> seqs[i]]
    <3>1. f \in [1..j -> Seq(S)] /\ Joins(f, seqs, j)
      BY <2>2, <2>3 DEF Joins
    <3> QED BY <2>2, <3>1
  <2>4. CASE j # 1
    <3>1. j - 1 \in 1..n /\ j - 1 \notin None
      <4>1. j - 1 \in 1..n /\ ~(j <= j - 1)
        BY <2>2, <2>4
      <4> QED BY <2>1, <4>1
    <3>2. PICK g \in [1..(j - 1) -> Seq(S)] : Joins(g, seqs, j - 1)
      BY <3>1
    <3> DEFINE f == [i \in 1..j |-> IF i = j THEN g[j - 1] \o seqs[j] ELSE g[i]]
    <3>3. g[j - 1] \in Seq(S) /\ seqs[j] \in Seq(S)
      BY <2>2, <2>4
    <3>4. g[j - 1] \o seqs[j] \in Seq(S)
      BY <3>3, ConcatProperties, Zenon
    <3>5. f \in [1..j -> Seq(S)]
      <4>1. \A i \in 1..j : i # j => i \in 1..(j - 1)
        BY <2>2
      <4> QED BY <3>4, <4>1
    <3>6. Joins(f, seqs, j)
      <4> SUFFICES ASSUME NEW i \in 1..j
                   PROVE  f[i] = IF i = 1 THEN seqs[i] ELSE f[i - 1] \o seqs[i]
        BY DEF Joins
      <4>1. CASE i = j
        <5>1. j - 1 \in 1..j /\ j - 1 # j
          BY <2>2, <2>4
        <5> QED BY <2>4, <4>1, <5>1
      <4>2. CASE i # j
        <5>1. i \in 1..(j - 1)
          BY <2>2, <4>2
        <5>2. g[i] = IF i = 1 THEN seqs[i] ELSE g[i - 1] \o seqs[i]
          BY <3>2, <5>1 DEF Joins
        <5>3. f[i] = g[i]
          BY <4>2
        <5>4. i # 1 => i - 1 \in 1..j /\ i - 1 # j
          BY <2>2, <5>1
        <5>5. i # 1 => f[i - 1] = g[i - 1]
          BY <5>4
        <5> HIDE DEF f
        <5> QED BY <5>2, <5>3, <5>5
      <4> QED BY <4>1, <4>2
    <3> QED BY <2>2, <3>5, <3>6
  <2> QED BY <2>3, <2>4
<1>2. n \in 1..n /\ n \notin None
  BY <1>1
<1> QED BY <1>2

LEMMA JoiningIsUnique ==
  ASSUME NEW seqs, NEW n \in Nat, NEW f, NEW g, Joins(f, seqs, n), Joins(g, seqs, n)
  PROVE  \A i \in 1..n : f[i] = g[i]
<1> DEFINE Other == { i \in 1..n : f[i] # g[i] }
<1>1. ASSUME Other # {} PROVE FALSE
  <2>1. PICK j \in Other : \A i \in Other : j <= i
    <3>1. Other \in SUBSET Nat
      OBVIOUS
    <3> HIDE DEF Other
    <3> QED BY <1>1, <3>1, LeastNumber
  <2>2. j \in 1..n /\ f[j] # g[j]
    OBVIOUS
  <2>3. /\ f[j] = IF j = 1 THEN seqs[j] ELSE f[j - 1] \o seqs[j]
        /\ g[j] = IF j = 1 THEN seqs[j] ELSE g[j - 1] \o seqs[j]
    BY <2>2 DEF Joins
  <2>4. j # 1 => j - 1 \in 1..n /\ ~(j <= j - 1)
    BY <2>2
  <2>5. j # 1 => f[j - 1] = g[j - 1]
    BY <2>1, <2>4
  <2> QED BY <2>2, <2>3, <2>5
<1> QED BY <1>1

(* What FlattenSeq computes is the last value of any such f.               *)
LEMMA FlattenIsJoining ==
  ASSUME NEW S, NEW seqs \in Seq(Seq(S)), seqs # << >>,
         NEW f, Joins(f, seqs, Len(seqs))
  PROVE  FlattenSeq(seqs) = f[Len(seqs)] /\ FlattenSeq(seqs) \in Seq(S)
<1> DEFINE n == Len(seqs)
           Flatten(g) == [i \in 1..n |-> IF i = 1 THEN seqs[i] ELSE g[i - 1] \o seqs[i]]
           flatten == CHOOSE g : g = Flatten(g)
<1>1. n \in Nat /\ n # 0 /\ seqs \in [1..n -> Seq(S)]
  BY LenProperties, EmptySeq
<1>2. PICK h \in [1..n -> Seq(S)] : Joins(h, seqs, n)
  <2> HIDE DEF n
  <2> QED BY <1>1, JoiningExists
<1>3. h = Flatten(h)
  BY <1>2 DEF Joins
<1>4. flatten = Flatten(flatten)
  BY <1>3
<1>5. FlattenSeq(seqs) = flatten[n]
  BY <1>1 DEF FlattenSeq
<1> HIDE DEF flatten
<1>6. Joins(flatten, seqs, n)
  <2>1. \A i \in 1..n : Flatten(flatten)[i] = IF i = 1 THEN seqs[i] ELSE flatten[i - 1] \o seqs[i]
    OBVIOUS
  <2> HIDE DEF Flatten
  <2> QED BY <1>4, <2>1 DEF Joins
<1>7. n \in 1..n
  BY <1>1
<1> HIDE DEF n
<1>8. flatten[n] = h[n] /\ flatten[n] = f[n]
  <2>1. Joins(f, seqs, n)
    BY DEF n
  <2> QED BY <1>1, <1>2, <1>6, <1>7, <2>1, JoiningIsUnique
<1> QED BY <1>2, <1>5, <1>7, <1>8 DEF n

(* FlattenSeq yields a sequence, and one more sequence at the end of its   *)
(* argument comes at the end of the result.                                *)
LEMMA FlattenEmpty == FlattenSeq(<< >>) = << >>
  BY EmptySeq DEF FlattenSeq

LEMMA FlattenType ==
  ASSUME NEW S, NEW seqs \in Seq(Seq(S))
  PROVE  FlattenSeq(seqs) \in Seq(S)
<1>1. CASE seqs = << >>
  BY <1>1, FlattenEmpty, EmptySeq
<1>2. CASE seqs # << >>
  <2>1. Len(seqs) \in Nat /\ Len(seqs) # 0 /\ seqs \in [1..Len(seqs) -> Seq(S)]
    BY <1>2, LenProperties, EmptySeq
  <2>2. PICK f \in [1..Len(seqs) -> Seq(S)] : Joins(f, seqs, Len(seqs))
    BY <2>1, JoiningExists
  <2> QED BY <1>2, <2>2, FlattenIsJoining
<1> QED BY <1>1, <1>2

LEMMA FlattenAppend ==
  ASSUME NEW S, NEW seqs \in Seq(Seq(S)), NEW s \in Seq(S)
  PROVE  FlattenSeq(Append(seqs, s)) = FlattenSeq(seqs) \o s
<1> DEFINE n == Len(seqs)
           more == Append(seqs, s)
<1>1. /\ n \in Nat /\ seqs \in [1..n -> Seq(S)] /\ more \in Seq(Seq(S)) /\ Len(more) = n + 1
      /\ more[n + 1] = s /\ \A i \in 1..n : more[i] = seqs[i]
  BY LenProperties
<1>2. more # << >>
  BY <1>1, EmptySeq
<1> HIDE DEF more
<1>3. CASE seqs = << >>
  <2> DEFINE f == [i \in 1..1 |-> s]
  <2>1. n = 0
    BY <1>3, EmptySeq
  <2>2. Joins(f, more, 1)
    BY <1>1, <2>1 DEF Joins
  <2>3. FlattenSeq(more) = f[1]
    BY <1>1, <1>2, <2>1, <2>2, FlattenIsJoining
  <2> QED BY <1>3, <2>3, FlattenEmpty, ConcatEmptySeq DEF more
<1>4. CASE seqs # << >>
  <2>1. n # 0
    BY <1>4, EmptySeq
  <2>2. PICK g \in [1..n -> Seq(S)] : Joins(g, seqs, n)
    <3> HIDE DEF n
    <3> QED BY <1>1, <2>1, JoiningExists
  <2> DEFINE f == [i \in 1..(n + 1) |-> IF i = n + 1 THEN g[n] \o s ELSE g[i]]
  <2>3. FlattenSeq(seqs) = g[n]
    BY <1>4, <2>2, FlattenIsJoining
  <2> HIDE DEF n
  <2>4. Joins(f, more, n + 1)
    <3> SUFFICES ASSUME NEW i \in 1..(n + 1)
                 PROVE  f[i] = IF i = 1 THEN more[i] ELSE f[i - 1] \o more[i]
      BY DEF Joins
    <3>1. CASE i = n + 1
      <4>1. i # 1 /\ i - 1 = n /\ n \in 1..(n + 1) /\ n # n + 1
        BY <1>1, <2>1, <3>1
      <4> QED BY <1>1, <3>1, <4>1
    <3>2. CASE i # n + 1
      <4>1. i \in 1..n
        BY <1>1, <3>2
      <4>2. g[i] = IF i = 1 THEN seqs[i] ELSE g[i - 1] \o seqs[i]
        BY <2>2, <4>1 DEF Joins
      <4>3. i # 1 => i - 1 \in 1..(n + 1) /\ i - 1 # n + 1
        BY <1>1, <4>1
      <4>4. f[i] = g[i] /\ (i # 1 => f[i - 1] = g[i - 1]) /\ more[i] = seqs[i]
        BY <1>1, <3>2, <4>1, <4>3
      <4> HIDE DEF f
      <4> QED BY <4>2, <4>4
    <3> QED BY <3>1, <3>2
  <2>5. FlattenSeq(more) = f[n + 1]
    <3> HIDE DEF f
    <3>1. Joins(f, more, Len(more))
      BY <1>1, <2>4
    <3> QED BY <1>1, <1>2, <3>1, FlattenIsJoining
  <2>6. f[n + 1] = g[n] \o s
    <3>1. n + 1 \in 1..(n + 1)
      BY <1>1
    <3> QED BY <3>1
  <2> QED BY <2>3, <2>5, <2>6 DEF more
<1> QED BY <1>3, <1>4


-----------------------------------------------------------------------------
(* Lemmas about sequences of bytes.                                        *)

(* The parts of a concatenation, and of the start of a sequence.           *)
LEMMA ConcatType ==
  ASSUME NEW S, NEW s \in Seq(S), NEW t \in Seq(S)
  PROVE  /\ s \o t \in Seq(S)
         /\ Len(s \o t) = Len(s) + Len(t)
         /\ \A k \in 1..Len(s) : (s \o t)[k] = s[k]
         /\ \A k \in 1..Len(t) : (s \o t)[Len(s) + k] = t[k]
<1>1. /\ s \o t \in Seq(S) /\ Len(s \o t) = Len(s) + Len(t)
      /\ \A k \in 1..(Len(s) + Len(t)) :
           (s \o t)[k] = IF k <= Len(s) THEN s[k] ELSE t[k - Len(s)]
  BY ConcatProperties, Zenon
<1>2. Len(s) \in Nat /\ Len(t) \in Nat
  BY LenProperties
<1>3. ASSUME NEW k \in 1..Len(s) PROVE (s \o t)[k] = s[k]
  <2>1. k \in 1..(Len(s) + Len(t)) /\ k <= Len(s)
    BY <1>2
  <2> QED BY <1>1, <2>1
<1>4. ASSUME NEW k \in 1..Len(t) PROVE (s \o t)[Len(s) + k] = t[k]
  <2>1. \A n \in Nat, m \in Nat : \A i \in 1..m :
          n + i \in 1..(n + m) /\ ~(n + i <= n) /\ (n + i) - n = i
    OBVIOUS
  <2>2. Len(s) + k \in 1..(Len(s) + Len(t)) /\ ~(Len(s) + k <= Len(s)) /\ (Len(s) + k) - Len(s) = k
    BY <1>2, <2>1
  <2> QED BY <1>1, <2>2
<1> QED BY <1>1, <1>3, <1>4

LEMMA PrefixType ==
  ASSUME NEW S, NEW s \in Seq(S), NEW n \in 0..Len(s)
  PROVE  /\ SubSeq(s, 1, n) \in Seq(S)
         /\ Len(SubSeq(s, 1, n)) = n
         /\ \A k \in 1..n : SubSeq(s, 1, n)[k] = s[k]
<1>1. n \in Nat /\ n <= Len(s) /\ Len(s) \in Nat
  BY LenProperties
<1>2. \A k \in 1..n : s[k] \in S
  <2>1. \A k \in 1..n : k \in 1..Len(s)
    BY <1>1
  <2> QED BY <2>1, ElementOfSeq
<1>3. /\ SubSeq(s, 1, n) \in Seq(S)
      /\ Len(SubSeq(s, 1, n)) = IF 1 <= n THEN n - 1 + 1 ELSE 0
      /\ \A k \in 1..(n - 1 + 1) : SubSeq(s, 1, n)[k] = s[1 + k - 1]
  <2>1. 1 \in Int /\ n \in Int
    BY <1>1
  <2> QED BY <1>2, <2>1, SubSeqProperties
<1>4. (IF 1 <= n THEN n - 1 + 1 ELSE 0) = n /\ n - 1 + 1 = n
  BY <1>1
<1>5. \A k \in 1..n : 1 + k - 1 = k
  BY <1>1
<1> QED BY <1>3, <1>4, <1>5

LEMMA SameSequence ==
  ASSUME NEW S, NEW s \in Seq(S), NEW t \in Seq(S), Len(s) = Len(t),
         \A k \in 1..Len(s) : s[k] = t[k]
  PROVE  s = t
BY SeqEqual

LEMMA ByteType ==
  ASSUME NEW what \in What, NEW n \in Nat, NEW k \in Nat
  PROVE  ByteOf(what, n, k) \in Byte /\ ByteOf(what, n, k).value = n
BY DEF ByteOf, Byte

LEMMA BytesType ==
  ASSUME NEW what \in What, NEW n \in Nat
  PROVE  Bytes(what, n) \in Seq(Byte) /\ Len(Bytes(what, n)) = n
<1>1. Bytes(what, n) \in [1..n -> Byte]
  <2>1. \A k \in 1..n : ByteOf(what, 0, k) \in Byte
    BY ByteType
  <2> QED BY <2>1 DEF Bytes
<1> QED BY <1>1, FunctionIsSeq

LEMMA UInt32Type ==
  ASSUME NEW what \in What, NEW n \in Nat
  PROVE  /\ UInt32(what, n) \in Seq(Byte)
         /\ Len(UInt32(what, n)) = 4
         /\ UInt32(what, n)[1].value = n
<1>1. UInt32(what, n) \in [1..4 -> Byte]
  <2>1. \A k \in 1..4 : ByteOf(what, n, k) \in Byte
    BY ByteType
  <2> QED BY <2>1 DEF UInt32
<1>2. UInt32(what, n)[1] = ByteOf(what, n, 1)
  BY DEF UInt32
<1>3. 4 \in Nat /\ ByteOf(what, n, 1).value = n
  BY DEF ByteOf
<1> DEFINE bytes == UInt32(what, n)
           m == 4
<1>4. m \in Nat /\ bytes \in [1..m -> Byte]
  BY <1>1, <1>3
<1> HIDE DEF bytes, m
<1>5. bytes \in Seq(Byte) /\ Len(bytes) = m
  BY <1>4, FunctionIsSeq
<1> QED BY <1>2, <1>3, <1>5 DEF bytes, m

LEMMA ZerosType ==
  ASSUME NEW n \in Nat
  PROVE  Zeros(n) \in Seq(Byte) /\ Len(Zeros(n)) = n
<1>1. Zeros(n) \in [1..n -> Byte]
  <2>1. ByteOf("zero", 0, 0) \in Byte
    BY DEF ByteOf, Byte, What
  <2> QED BY <2>1 DEF Zeros
<1> QED BY <1>1, FunctionIsSeq

LEMMA CharsType ==
  ASSUME NEW tags \in Seq(What)
  PROVE  Chars(tags) \in Seq(Byte) /\ Len(Chars(tags)) = Len(tags)
<1>1. Len(tags) \in Nat /\ DOMAIN tags = 1..Len(tags)
  BY LenProperties
<1>2. Chars(tags) \in [1..Len(tags) -> Byte]
  <2>1. \A k \in 1..Len(tags) : tags[k] \in What
    BY <1>1, ElementOfSeq
  <2>2. \A k \in 1..Len(tags) : ByteOf(tags[k], 0, 0) \in Byte
    BY <2>1, ByteType
  <2> QED BY <1>1, <2>2 DEF Chars
<1> QED BY <1>1, <1>2, FunctionIsSeq

LEMMA RoundUp4Bounds ==
  ASSUME NEW n \in Nat
  PROVE  RoundUp4(n) \in Nat /\ n <= RoundUp4(n) /\ RoundUp4(n) <= n + 3
BY DEF RoundUp4

LEMMA PaddedType ==
  ASSUME NEW s \in Seq(Byte)
  PROVE  Padded(s) \in Seq(Byte) /\ Len(Padded(s)) = RoundUp4(Len(s))
<1> DEFINE pad == RoundUp4(Len(s)) - Len(s)
<1>1. Len(s) \in Nat
  BY LenProperties
<1>2. pad \in Nat /\ Len(s) + pad = RoundUp4(Len(s))
  <2>1. RoundUp4(Len(s)) \in Nat /\ Len(s) <= RoundUp4(Len(s))
    BY <1>1, RoundUp4Bounds
  <2> QED BY <1>1, <2>1
<1>3. Padded(s) = s \o Zeros(pad)
  BY DEF Padded
<1> HIDE DEF pad
<1>4. Zeros(pad) \in Seq(Byte) /\ Len(Zeros(pad)) = pad
  BY <1>2, ZerosType
<1>5. s \o Zeros(pad) \in Seq(Byte) /\ Len(s \o Zeros(pad)) = Len(s) + Len(Zeros(pad))
  BY <1>4, ConcatType
<1> QED BY <1>2, <1>3, <1>4, <1>5

(* Every argument is a sequence of bytes that fits the room it asks for.   *)
Fits(a) ==
  /\ a.tag \in TypeTagValues
  /\ a.bytes \in Seq(Byte)
  /\ a.room \in Nat
  /\ Len(a.bytes) <= a.room

LEMMA FixedLengthType ==
  ASSUME NEW tag \in TypeTagValues
  PROVE  Fits(TagOnly(tag)) /\ Fits(FourBytes(tag)) /\ Fits(EightBytes(tag))
<1>1. tag \in What
  BY DEF What
<1>2. << >> \in Seq(Byte) /\ Len(<< >>) = 0
  BY EmptySeq
<1>3. Bytes(tag, 4) \in Seq(Byte) /\ Len(Bytes(tag, 4)) = 4
  <2>1. 4 \in Nat
    OBVIOUS
  <2> QED BY <1>1, <2>1, BytesType
<1>4. Bytes(tag, 8) \in Seq(Byte) /\ Len(Bytes(tag, 8)) = 8
  <2>1. 8 \in Nat
    OBVIOUS
  <2> QED BY <1>1, <2>1, BytesType
<1>5. ASSUME NEW room \in Nat, NEW bytes \in Seq(Byte), Len(bytes) <= room
      PROVE  Fits(Argument(tag, room, bytes))
  BY <1>5 DEF Fits, Argument
<1>6. Fits(TagOnly(tag))
  <2> DEFINE bytes == << >>
  <2>1. bytes \in Seq(Byte)
    BY <1>2
  <2>2. Len(bytes) = 0
    BY <1>2
  <2>3. TagOnly(tag) = Argument(tag, 0, bytes)
    BY DEF TagOnly
  <2> HIDE DEF bytes
  <2>4. 0 \in Nat /\ Len(bytes) <= 0
    BY <2>2
  <2> QED BY <1>5, <2>1, <2>3, <2>4
<1>7. Fits(FourBytes(tag))
  <2> DEFINE bytes == Bytes(tag, 4)
  <2>1. bytes \in Seq(Byte)
    BY <1>3
  <2>2. Len(bytes) = 4
    BY <1>3
  <2>3. FourBytes(tag) = Argument(tag, 4, bytes)
    BY DEF FourBytes
  <2> HIDE DEF bytes
  <2> QED BY <1>5, <2>1, <2>2, <2>3
<1>8. Fits(EightBytes(tag))
  <2> DEFINE bytes == Bytes(tag, 8)
  <2>1. bytes \in Seq(Byte)
    BY <1>4
  <2>2. Len(bytes) = 8
    BY <1>4
  <2>3. EightBytes(tag) = Argument(tag, 8, bytes)
    BY DEF EightBytes
  <2> HIDE DEF bytes
  <2> QED BY <1>5, <2>1, <2>2, <2>3
<1> QED BY <1>6, <1>7, <1>8

LEMMA TerminatedType ==
  ASSUME NEW what \in What, NEW n \in Nat
  PROVE  /\ Padded(Bytes(what, n) \o Zeros(1)) \in Seq(Byte)
         /\ Len(Padded(Bytes(what, n) \o Zeros(1))) = RoundUp4(n + 1)
<1> DEFINE bytes == Bytes(what, n) \o Zeros(1)
<1>1. Bytes(what, n) \in Seq(Byte) /\ Len(Bytes(what, n)) = n
  BY BytesType
<1>2. Zeros(1) \in Seq(Byte) /\ Len(Zeros(1)) = 1
  <2>1. 1 \in Nat
    OBVIOUS
  <2> QED BY <2>1, ZerosType
<1>3. bytes \in Seq(Byte) /\ Len(bytes) = Len(Bytes(what, n)) + Len(Zeros(1))
  BY <1>1, <1>2, ConcatType
<1>4. Len(bytes) = n + 1
  BY <1>1, <1>2, <1>3
<1> HIDE DEF bytes
<1>5. Padded(bytes) \in Seq(Byte) /\ Len(Padded(bytes)) = RoundUp4(Len(bytes))
  BY <1>3, PaddedType
<1> QED BY <1>4, <1>5 DEF bytes

LEMMA VariableLengthType ==
  ASSUME NEW n \in Nat
  PROVE  /\ Fits(StringOf(n)) /\ Fits(SymbolOf(n)) /\ Fits(BlobOf(n))
         /\ n > 0 => Fits(CharArray(n))
<1>1. {"s", "S", "b"} \subseteq TypeTagValues /\ {"s", "S", "b", "size"} \subseteq What
  BY DEF What, TypeTagValues
<1>2. RoundUp4(n) \in Nat /\ RoundUp4(n + 1) \in Nat
  BY RoundUp4Bounds
<1>3. Fits(StringOf(n))
  <2>1. /\ Padded(Bytes("s", n) \o Zeros(1)) \in Seq(Byte)
        /\ Len(Padded(Bytes("s", n) \o Zeros(1))) = RoundUp4(n + 1)
    <3>1. "s" \in What
      BY <1>1
    <3> QED BY <3>1, TerminatedType
  <2> QED BY <1>1, <1>2, <2>1 DEF Fits, StringOf, Argument
<1>4. Fits(SymbolOf(n))
  <2>1. /\ Padded(Bytes("S", n) \o Zeros(1)) \in Seq(Byte)
        /\ Len(Padded(Bytes("S", n) \o Zeros(1))) = RoundUp4(n + 1)
    <3>1. "S" \in What
      BY <1>1
    <3> QED BY <3>1, TerminatedType
  <2> QED BY <1>1, <1>2, <2>1 DEF Fits, SymbolOf, Argument
<1>5. Fits(BlobOf(n))
  <2> DEFINE size == UInt32("size", n)
             blob == Padded(Bytes("b", n))
  <2>1. size \in Seq(Byte) /\ Len(size) = 4
    <3>1. "size" \in What
      BY <1>1
    <3> QED BY <3>1, UInt32Type
  <2>2. Bytes("b", n) \in Seq(Byte) /\ Len(Bytes("b", n)) = n
    <3>1. "b" \in What
      BY <1>1
    <3> QED BY <3>1, BytesType
  <2>3. blob \in Seq(Byte) /\ Len(blob) = RoundUp4(n)
    BY <2>2, PaddedType
  <2>4. BlobOf(n) = Argument("b", 4 + RoundUp4(n), size \o blob)
    BY DEF BlobOf
  <2> HIDE DEF size, blob
  <2>5. size \o blob \in Seq(Byte) /\ Len(size \o blob) = Len(size) + Len(blob)
    BY <2>1, <2>3, ConcatType
  <2>6. Len(size \o blob) = 4 + RoundUp4(n)
    BY <2>1, <2>3, <2>5
  <2> QED BY <1>1, <1>2, <2>4, <2>5, <2>6 DEF Fits, Argument
<1>6. ASSUME n > 0 PROVE Fits(CharArray(n))
  <2>1. n - 1 \in Nat /\ (n - 1) + 1 = n
    BY <1>6
  <2>2. /\ Padded(Bytes("s", n - 1) \o Zeros(1)) \in Seq(Byte)
        /\ Len(Padded(Bytes("s", n - 1) \o Zeros(1))) = RoundUp4((n - 1) + 1)
    <3>1. "s" \in What
      BY <1>1
    <3> QED BY <2>1, <3>1, TerminatedType
  <2> QED BY <1>1, <1>2, <2>1, <2>2 DEF Fits, CharArray, Argument
<1> QED BY <1>3, <1>4, <1>5, <1>6

LEMMA ArgumentType ==
  ASSUME NEW argument \in Arguments
  PROVE  Fits(argument)
<1>1. IsArgument(argument)
  BY ArgumentsAssumption
<1>2. CASE \E tag \in ZeroLengthTypeTags : argument = TagOnly(tag)
  BY <1>2, FixedLengthType DEF TypeTagValues
<1>3. CASE \E tag \in FourByteTypeTags : argument = FourBytes(tag)
  BY <1>3, FixedLengthType DEF TypeTagValues
<1>4. CASE \E tag \in EightByteTypeTags : argument = EightBytes(tag)
  BY <1>4, FixedLengthType DEF TypeTagValues
<1>5. CASE \E n \in 0..argument.room : argument \in {StringOf(n), SymbolOf(n), BlobOf(n)}
  <2>1. PICK n \in 0..argument.room : argument \in {StringOf(n), SymbolOf(n), BlobOf(n)}
    BY <1>5
  <2>2. n \in Nat
    OBVIOUS
  <2>3. Fits(StringOf(n)) /\ Fits(SymbolOf(n)) /\ Fits(BlobOf(n))
    BY <2>2, VariableLengthType
  <2> QED BY <2>1, <2>3
<1>6. CASE \E n \in 1..argument.room : argument = CharArray(n)
  <2>1. PICK n \in 1..argument.room : argument = CharArray(n)
    BY <1>6
  <2>2. n \in Nat /\ n > 0
    OBVIOUS
  <2>3. Fits(CharArray(n))
    BY <2>2, VariableLengthType
  <2> QED BY <2>1, <2>3
<1> QED BY <1>1, <1>2, <1>3, <1>4, <1>5, <1>6 DEF IsArgument

(* The parts of a message.                                                 *)
LEMMA AddressPartType ==
  ASSUME NEW n \in Nat
  PROVE  /\ AddressPart(n) \in Seq(Byte)
         /\ Len(AddressPart(n)) = RoundUp4(n + 1)
         /\ AddressPart(n) # << >>
<1>1. "address" \in What
  BY DEF What
<1>4. AddressPart(n) \in Seq(Byte) /\ Len(AddressPart(n)) = RoundUp4(n + 1)
  BY <1>1, TerminatedType DEF AddressPart
<1>5. n + 1 <= RoundUp4(n + 1)
  BY RoundUp4Bounds
<1>6. Len(AddressPart(n)) # 0
  BY <1>4, <1>5
<1> QED BY <1>4, <1>6, EmptySeq

LEMMA TagsType ==
  ASSUME NEW arguments \in Seq(Arguments)
  PROVE  Tags(arguments) \in Seq(TypeTagValues) /\ Len(Tags(arguments)) = Len(arguments)
<1>1. Len(arguments) \in Nat /\ DOMAIN arguments = 1..Len(arguments)
  BY LenProperties
<1>2. Tags(arguments) \in [1..Len(arguments) -> TypeTagValues]
  <2>1. \A k \in 1..Len(arguments) : arguments[k].tag \in TypeTagValues
    BY ElementOfSeq, ArgumentType DEF Fits
  <2> QED BY <1>1, <2>1 DEF Tags
<1> QED BY <1>1, <1>2, FunctionIsSeq

LEMMA TagsAppend ==
  ASSUME NEW arguments \in Seq(Arguments), NEW argument \in Arguments
  PROVE  Tags(Append(arguments, argument)) = Append(Tags(arguments), argument.tag)
<1> DEFINE n == Len(arguments)
           more == Append(arguments, argument)
           tags == Append(Tags(arguments), argument.tag)
<1>1. /\ more \in Seq(Arguments) /\ Len(more) = n + 1 /\ more[n + 1] = argument
      /\ \A k \in 1..n : more[k] = arguments[k]
  BY AppendProperties
<1>2. n \in Nat /\ DOMAIN arguments = 1..n
  BY LenProperties
<1>3. Tags(arguments) \in Seq(TypeTagValues) /\ Len(Tags(arguments)) = n /\ argument.tag \in TypeTagValues
  BY TagsType, ArgumentType DEF Fits
<1>4. /\ tags \in Seq(TypeTagValues) /\ Len(tags) = n + 1 /\ tags[n + 1] = argument.tag
      /\ \A k \in 1..n : tags[k] = Tags(arguments)[k]
  BY <1>3, AppendProperties
<1> HIDE DEF more, tags
<1>5. Tags(more) \in Seq(TypeTagValues) /\ Len(Tags(more)) = n + 1
  BY <1>1, TagsType
<1>6. DOMAIN more = 1..(n + 1)
  BY <1>1, LenProperties
<1>7. \A k \in 1..(n + 1) : Tags(more)[k] = more[k].tag
  BY <1>6 DEF Tags
<1>8. \A k \in 1..n : Tags(arguments)[k] = arguments[k].tag
  BY <1>2 DEF Tags
<1> HIDE DEF n
<1>9. \A k \in 1..(n + 1) : Tags(more)[k] = tags[k]
  <2> SUFFICES ASSUME NEW k \in 1..(n + 1) PROVE Tags(more)[k] = tags[k]
    OBVIOUS
  <2>1. CASE k = n + 1
    BY <1>1, <1>4, <1>7, <2>1
  <2>2. CASE k # n + 1
    <3>1. k \in 1..n
      BY <1>2, <2>2
    <3> QED BY <1>1, <1>4, <1>7, <1>8, <3>1
  <2> QED BY <2>1, <2>2
<1>10. Tags(more) = tags
  BY <1>4, <1>5, <1>9, SameSequence
<1> QED BY <1>10 DEF more, tags

(* The bytes of some arguments, and of one more.                           *)
LEMMA ArgumentPartType ==
  ASSUME NEW arguments \in Seq(Arguments)
  PROVE  ArgumentPart(arguments) \in Seq(Byte)
<1> DEFINE bytes == [k \in DOMAIN arguments |-> arguments[k].bytes]
<1>1. Len(arguments) \in Nat /\ DOMAIN arguments = 1..Len(arguments)
  BY LenProperties
<1>2. bytes \in [1..Len(arguments) -> Seq(Byte)]
  <2>1. \A k \in 1..Len(arguments) : arguments[k].bytes \in Seq(Byte)
    BY ElementOfSeq, ArgumentType DEF Fits
  <2> QED BY <1>1, <2>1
<1>3. ArgumentPart(arguments) = FlattenSeq(bytes)
  BY DEF ArgumentPart
<1> HIDE DEF bytes
<1>4. bytes \in Seq(Seq(Byte))
  BY <1>1, <1>2, FunctionIsSeq
<1> QED BY <1>3, <1>4, FlattenType

LEMMA ArgumentPartAppend ==
  ASSUME NEW arguments \in Seq(Arguments), NEW argument \in Arguments
  PROVE  ArgumentPart(Append(arguments, argument)) = ArgumentPart(arguments) \o argument.bytes
<1> DEFINE n == Len(arguments)
           more == Append(arguments, argument)
           bytes == [k \in DOMAIN arguments |-> arguments[k].bytes]
           moreBytes == [k \in DOMAIN more |-> more[k].bytes]
<1>1. /\ more \in Seq(Arguments) /\ Len(more) = n + 1 /\ more[n + 1] = argument
      /\ \A k \in 1..n : more[k] = arguments[k]
  BY AppendProperties
<1>2. n \in Nat /\ DOMAIN arguments = 1..n
  BY LenProperties
<1>3. ArgumentPart(arguments) = FlattenSeq(bytes) /\ ArgumentPart(more) = FlattenSeq(moreBytes)
  BY DEF ArgumentPart
<1> HIDE DEF more
<1>4. DOMAIN more = 1..(n + 1)
  BY <1>1, LenProperties
<1>5. bytes \in [1..n -> Seq(Byte)]
  <2>1. \A k \in 1..n : arguments[k].bytes \in Seq(Byte)
    BY ElementOfSeq, ArgumentType DEF Fits
  <2> QED BY <1>2, <2>1
<1>6. moreBytes \in [1..(n + 1) -> Seq(Byte)]
  <2>1. \A k \in 1..(n + 1) : more[k].bytes \in Seq(Byte)
    BY <1>1, ElementOfSeq, ArgumentType DEF Fits
  <2> QED BY <1>4, <2>1
<1>7. \A k \in 1..n : bytes[k] = arguments[k].bytes
  BY <1>2
<1>8. \A k \in 1..(n + 1) : moreBytes[k] = more[k].bytes
  BY <1>4
<1> HIDE DEF n, bytes, moreBytes
<1>9. bytes \in Seq(Seq(Byte)) /\ Len(bytes) = n
  BY <1>2, <1>5, FunctionIsSeq
<1>10. moreBytes \in Seq(Seq(Byte)) /\ Len(moreBytes) = n + 1
  BY <1>2, <1>6, FunctionIsSeq
<1>11. argument.bytes \in Seq(Byte)
  BY ArgumentType DEF Fits
<1> DEFINE appended == Append(bytes, argument.bytes)
<1>12. /\ appended \in Seq(Seq(Byte)) /\ Len(appended) = n + 1
       /\ appended[n + 1] = argument.bytes /\ \A k \in 1..n : appended[k] = bytes[k]
  BY <1>9, <1>11, AppendProperties
<1> HIDE DEF appended
<1>13. \A k \in 1..(n + 1) : moreBytes[k] = appended[k]
  <2> SUFFICES ASSUME NEW k \in 1..(n + 1) PROVE moreBytes[k] = appended[k]
    OBVIOUS
  <2>1. CASE k = n + 1
    BY <1>1, <1>8, <1>12, <2>1
  <2>2. CASE k # n + 1
    <3>1. k \in 1..n
      BY <1>2, <2>2
    <3> QED BY <1>1, <1>7, <1>8, <1>12, <3>1
  <2> QED BY <2>1, <2>2
<1>14. moreBytes = appended
  BY <1>10, <1>12, <1>13, SameSequence
<1>15. FlattenSeq(appended) = FlattenSeq(bytes) \o argument.bytes
  BY <1>9, <1>11, FlattenAppend DEF appended
<1> QED BY <1>3, <1>14, <1>15 DEF more

LEMMA CharsOfMessage ==
  ASSUME NEW tags \in Seq(TypeTagValues)
  PROVE  /\ Chars(<< "," >> \o tags) \in Seq(Byte)
         /\ Len(Chars(<< "," >> \o tags)) = Len(tags) + 1
<1> DEFINE comma == << "," >>
           count == Len(tags)
<1>1. count \in Nat
  BY LenProperties
<1>2. tags \in Seq(What)
  <2>1. \A tag \in TypeTagValues : tag \in What
    BY DEF What
  <2>2. \A k \in 1..count : tags[k] \in What
    BY <2>1, ElementOfSeq
  <2>3. tags \in [1..count -> What]
    <3>1. tags \in [1..count -> TypeTagValues]
      BY LenProperties
    <3> QED BY <2>2, <3>1
  <2> HIDE DEF count
  <2> QED BY <1>1, <2>3, FunctionIsSeq
<1>3. comma \in Seq(What) /\ Len(comma) = 1
  <2> DEFINE char == ","
  <2>1. char \in What
    BY DEF What
  <2> HIDE DEF char
  <2>2. << char >> \in Seq(What) /\ Len(<< char >>) = 1
    BY <2>1
  <2> QED BY <2>2 DEF char
<1> HIDE DEF comma
<1>4. comma \o tags \in Seq(What) /\ Len(comma \o tags) = Len(comma) + Len(tags)
  BY <1>2, <1>3, ConcatType
<1>5. Chars(comma \o tags) \in Seq(Byte) /\ Len(Chars(comma \o tags)) = Len(comma \o tags)
  BY <1>4, CharsType
<1>6. Len(Chars(comma \o tags)) = Len(tags) + 1
  BY <1>1, <1>3, <1>4, <1>5
<1> QED BY <1>5, <1>6 DEF comma

(* What EndMessage inserts is the type tag string of the arguments.        *)
LEMMA TypeTagPartType ==
  ASSUME NEW arguments \in Seq(Arguments)
  PROVE  LET count == Len(arguments)
             slotSize == RoundUp4(count + 2)
             written == Chars(<< "," >> \o Tags(arguments)) \o Zeros(slotSize - (count + 1))
         IN  /\ written \in Seq(Byte)
             /\ Len(written) = slotSize
             /\ TypeTagPart(arguments) = written
<1> DEFINE count == Len(arguments)
           slotSize == RoundUp4(count + 2)
           chars == Chars(<< "," >> \o Tags(arguments))
           written == chars \o Zeros(slotSize - (count + 1))
           pad == slotSize - (count + 2)
<1>1. count \in Nat
  BY LenProperties
<1>2. chars \in Seq(Byte) /\ Len(chars) = count + 1
  <2>1. Tags(arguments) \in Seq(TypeTagValues) /\ Len(Tags(arguments)) = count
    BY TagsType
  <2> QED BY <2>1, CharsOfMessage
<1>3. TypeTagPart(arguments) = Padded(chars \o Zeros(1))
  BY DEF TypeTagPart
<1> HIDE DEF chars, count
<1>4. slotSize \in Nat /\ pad \in Nat /\ slotSize - (count + 1) = 1 + pad
  <2>1. count + 2 \in Nat
    BY <1>1
  <2>2. slotSize \in Nat /\ count + 2 <= slotSize
    BY <2>1, RoundUp4Bounds
  <2> HIDE DEF slotSize
  <2> QED BY <1>1, <2>2
<1> HIDE DEF slotSize
<1> DEFINE one == Zeros(1)
           rest == Zeros(pad)
           zeros == Zeros(1 + pad)
<1>5. one \in Seq(Byte) /\ Len(one) = 1
  <2>1. 1 \in Nat
    OBVIOUS
  <2> QED BY <2>1, ZerosType
<1>6. rest \in Seq(Byte) /\ Len(rest) = pad
  BY <1>4, ZerosType
<1>7. zeros \in Seq(Byte) /\ Len(zeros) = 1 + pad
  <2>1. 1 + pad \in Nat
    BY <1>4
  <2> QED BY <2>1, ZerosType
<1>8. one \o rest = zeros
  <2> DEFINE zero == ByteOf("zero", 0, 0)
  <2>1. /\ \A k \in 1..1 : one[k] = zero
        /\ \A k \in 1..pad : rest[k] = zero
        /\ \A k \in 1..(1 + pad) : zeros[k] = zero
    BY DEF Zeros
  <2> HIDE DEF pad, zero, one, rest, zeros
  <2>2. /\ one \o rest \in Seq(Byte) /\ Len(one \o rest) = Len(one) + Len(rest)
        /\ \A k \in 1..Len(one) : (one \o rest)[k] = one[k]
        /\ \A k \in 1..Len(rest) : (one \o rest)[Len(one) + k] = rest[k]
    <3>1. one \in Seq(Byte) /\ rest \in Seq(Byte)
      BY <1>5, <1>6
    <3> QED BY <3>1, ConcatType
  <2>3. \A k \in 1..(1 + pad) : (one \o rest)[k] = zeros[k]
    <3> SUFFICES ASSUME NEW k \in 1..(1 + pad) PROVE (one \o rest)[k] = zero
      BY <2>1
    <3>1. CASE k = 1
      BY <1>5, <2>1, <2>2, <3>1
    <3>2. CASE k # 1
      <4>1. k - 1 \in 1..pad /\ 1 + (k - 1) = k
        BY <1>4, <3>2
      <4> QED BY <1>5, <1>6, <2>1, <2>2, <4>1
    <3> QED BY <3>1, <3>2
  <2>4. Len(one \o rest) = Len(zeros)
    BY <1>5, <1>6, <1>7, <2>2
  <2> QED BY <1>7, <2>2, <2>3, <2>4, SameSequence
<1>9. TypeTagPart(arguments) = Padded(chars \o one)
  BY <1>3
<1>10. Padded(chars \o one) = (chars \o one) \o Zeros(RoundUp4(Len(chars \o one)) - Len(chars \o one))
  BY DEF Padded
<1>11. written = chars \o zeros
  BY <1>4
<1> HIDE DEF one, rest, zeros, written
<1>12. chars \o one \in Seq(Byte) /\ Len(chars \o one) = count + 2
  <2>1. chars \o one \in Seq(Byte) /\ Len(chars \o one) = Len(chars) + Len(one)
    BY <1>2, <1>5, ConcatType
  <2> QED BY <1>1, <1>2, <1>5, <2>1
<1>13. Padded(chars \o one) = (chars \o one) \o rest
  BY <1>10, <1>12 DEF rest, pad, slotSize
<1>14. (chars \o one) \o rest = chars \o (one \o rest)
  <2>1. Associates(chars, one, rest)
    BY <1>2, <1>5, <1>6, ConcatAssociates
  <2> QED BY <2>1 DEF Associates
<1>15. TypeTagPart(arguments) = written
  BY <1>8, <1>9, <1>11, <1>13, <1>14
<1>16. written \in Seq(Byte) /\ Len(written) = slotSize
  <2>1. chars \o zeros \in Seq(Byte) /\ Len(chars \o zeros) = Len(chars) + Len(zeros)
    BY <1>2, <1>7, ConcatType
  <2> HIDE DEF pad
  <2> QED BY <1>1, <1>2, <1>4, <1>7, <1>11, <2>1
<1> QED BY <1>15, <1>16 DEF written, count, slotSize, chars

-----------------------------------------------------------------------------
(* Lemmas about the layout.                                                *)

(* Concatenations as predicates: a lemma whose statement builds sequences is *)
(* hard to instantiate.                                                     *)
IsJoin(whole, s, t, u) == whole = s \o t \o u

LEMMA ThreeParts ==
  ASSUME NEW S, NEW s \in Seq(S), NEW t \in Seq(S), NEW u \in Seq(S),
         NEW whole, IsJoin(whole, s, t, u)
  PROVE  /\ whole \in Seq(S)
         /\ Len(whole) = Len(s) + Len(t) + Len(u)
         /\ \A k \in 1..Len(s) : whole[k] = s[k]
         /\ \A k \in 1..Len(t) : whole[Len(s) + k] = t[k]
         /\ \A k \in 1..Len(u) : whole[Len(s) + Len(t) + k] = u[k]
<1> DEFINE st == s \o t
<1>1. /\ st \in Seq(S) /\ Len(st) = Len(s) + Len(t)
      /\ \A k \in 1..Len(s) : st[k] = s[k]
      /\ \A k \in 1..Len(t) : st[Len(s) + k] = t[k]
  BY ConcatType
<1> HIDE DEF st
<1>2. /\ st \o u \in Seq(S) /\ Len(st \o u) = Len(st) + Len(u)
      /\ \A k \in 1..Len(st) : (st \o u)[k] = st[k]
      /\ \A k \in 1..Len(u) : (st \o u)[Len(st) + k] = u[k]
  <2>1. st \in Seq(S)
    BY <1>1
  <2> QED BY <2>1, ConcatType
<1>3. Len(s) \in Nat /\ Len(t) \in Nat
  BY LenProperties
<1>4. \A k \in 1..Len(s) : k \in 1..Len(st)
  BY <1>1, <1>3
<1>5. \A k \in 1..Len(t) : Len(s) + k \in 1..Len(st)
  BY <1>1, <1>3
<1>6. whole = st \o u
  BY DEF IsJoin, st
<1> DEFINE stu == st \o u
<1>7. whole = stu
  BY <1>6
<1> HIDE DEF stu
<1>8. /\ stu \in Seq(S) /\ Len(stu) = Len(st) + Len(u)
      /\ \A k \in 1..Len(st) : stu[k] = st[k]
      /\ \A k \in 1..Len(u) : stu[Len(st) + k] = u[k]
  BY <1>2 DEF stu
<1> QED BY <1>1, <1>4, <1>5, <1>7, <1>8

(* A layout of at least one level, in the bytes of a buffer.               *)
IsLayout(bytes, cursor, slot, starts, contents) ==
  /\ bytes \in Seq(Byte)
  /\ cursor \in 0..Len(bytes)
  /\ starts \in Seq(Nat)
  /\ contents \in Seq(Seq(Byte))
  /\ Len(contents) >= 1
  /\ Layout(bytes, cursor, slot, starts, contents)

(* Every level ends before the cursor, behind at least one byte if it is   *)
(* in a slot; the place of the slot tells how deep the innermost level is. *)
LEMMA LayoutBounds ==
  ASSUME NEW bytes, NEW cursor, NEW slot, NEW starts, NEW contents,
         IsLayout(bytes, cursor, slot, starts, contents)
  PROVE  LET n == Len(contents)
         IN  /\ n \in Nat /\ n >= 1 /\ cursor \in Nat /\ Len(bytes) \in Nat /\ cursor <= Len(bytes)
             /\ \A i \in 1..n :
                  /\ starts[i] \in Nat
                  /\ contents[i] \in Seq(Byte)
                  /\ Len(contents[i]) \in Nat
                  /\ i > 1 => Len(contents[i]) >= 1
                  /\ starts[i] + Len(contents[i]) <= cursor
                  /\ i > 2 => starts[i] >= 5
             /\ n = 1 => slot = NoElement
             /\ n = 2 => slot = 0
             /\ n > 2 => slot = starts[n] - 4 /\ slot >= 1
<1> DEFINE n == Len(contents)
<1>1. /\ n \in Nat /\ n >= 1 /\ Len(starts) = n
      /\ cursor \in Nat /\ Len(bytes) \in Nat /\ cursor <= Len(bytes)
  <2>1. Len(contents) \in Nat /\ Len(bytes) \in Nat
    BY LenProperties DEF IsLayout
  <2> QED BY <2>1 DEF IsLayout, Layout
<1>2. /\ contents \in Seq(Seq(Byte)) /\ starts \in Seq(Nat)
      /\ cursor = starts[n] + Len(contents[n]) /\ slot = SlotOf(starts, n)
      /\ \A i \in 1..n : LevelAt(bytes, starts, contents, i)
  BY DEF IsLayout, Layout
<1>3. \A i \in 1..n : starts[i] \in Nat /\ contents[i] \in Seq(Byte)
  BY <1>1, <1>2, ElementOfSeq
<1>4. \A i \in 1..n : Len(contents[i]) \in Nat
  BY <1>3, LenProperties
<1> HIDE DEF n
<1>5. ASSUME NEW i \in 1..n, i > 1 PROVE Len(contents[i]) >= 1
  <2>1. contents[i] # << >>
    BY <1>2, <1>5 DEF LevelAt
  <2>2. Len(contents[i]) # 0
    BY <1>3, <2>1, EmptySeq
  <2> QED BY <1>4, <2>2
<1>6. ASSUME NEW i \in 1..n PROVE starts[i] + Len(contents[i]) <= cursor
  <2>1. n \in 1..n
    BY <1>1
  <2>2. starts[i] \in Nat /\ starts[n] \in Nat /\ Len(contents[i]) \in Nat /\ Len(contents[n]) \in Nat
    BY <1>3, <1>4, <2>1
  <2>3. CASE i = n
    BY <1>1, <1>2, <2>2, <2>3
  <2>4. CASE i # n
    <3>1. i \in 1..(n - 1)
      BY <1>1, <2>4
    <3>2. starts[i] + Len(contents[i]) + Gap(n) <= starts[n]
      BY <1>2, <2>1, <3>1 DEF LevelAt
    <3>3. Gap(n) \in Nat
      BY DEF Gap
    <3>4. \A a, b, c, d, g \in Nat : a + b + g <= c => a + b <= c + d
      OBVIOUS
    <3> QED BY <1>2, <2>2, <3>2, <3>3, <3>4
  <2> QED BY <2>3, <2>4
<1>7. ASSUME NEW i \in 1..n, i > 2 PROVE starts[i] >= 5
  <2>1. i - 1 \in 1..n /\ i - 1 > 1 /\ Gap(i) = 4
    BY <1>1, <1>7 DEF Gap
  <2>2. starts[i] = starts[i - 1] + Len(contents[i - 1]) + 4
    BY <1>2, <1>7, <2>1 DEF LevelAt
  <2>3. starts[i - 1] \in Nat /\ Len(contents[i - 1]) \in Nat /\ Len(contents[i - 1]) >= 1
    BY <1>3, <1>4, <1>5, <2>1
  <2> QED BY <2>2, <2>3
<1>8. /\ n = 1 => slot = NoElement
      /\ n = 2 => slot = 0
      /\ n > 2 => slot = starts[n] - 4
  BY <1>1, <1>2 DEF SlotOf
<1>9. n > 2 => slot >= 1
  <2>1. n > 2 => starts[n] \in Nat /\ starts[n] >= 5
    BY <1>1, <1>3, <1>7
  <2> QED BY <1>8, <2>1
<1> QED BY <1>1, <1>3, <1>4, <1>5, <1>6, <1>7, <1>8, <1>9 DEF n

(* What lies behind the cursor does not matter.                            *)
LEMMA LayoutPrefix ==
  ASSUME NEW bytes, NEW cursor, NEW slot, NEW starts, NEW contents,
         IsLayout(bytes, cursor, slot, starts, contents),
         NEW other \in Seq(Byte), cursor <= Len(other),
         \A k \in 1..cursor : other[k] = bytes[k]
  PROVE  IsLayout(other, cursor, slot, starts, contents)
<1> DEFINE n == Len(contents)
<1>1. /\ n \in Nat /\ cursor \in Nat
      /\ \A i \in 1..n : /\ starts[i] \in Nat /\ Len(contents[i]) \in Nat
                         /\ starts[i] + Len(contents[i]) <= cursor
                         /\ i > 2 => starts[i] >= 5
  BY LayoutBounds
<1>2. /\ Len(starts) = n /\ starts[1] = 0
      /\ \A i \in 1..n : LevelAt(bytes, starts, contents, i)
      /\ cursor = starts[n] + Len(contents[n])
      /\ slot = SlotOf(starts, n)
  BY DEF IsLayout, Layout
<1> HIDE DEF n
<1>3. ASSUME NEW i \in 1..n PROVE LevelAt(other, starts, contents, i)
  <2>1. LevelAt(bytes, starts, contents, i)
    BY <1>2
  <2>2. /\ starts[i] \in Nat /\ Len(contents[i]) \in Nat
        /\ starts[i] + Len(contents[i]) <= cursor
        /\ i > 2 => starts[i] >= 5
    BY <1>1
  <2>3. i > 2 => bytes[starts[i] - 3] = other[starts[i] - 3]
    <3>1. i > 2 => starts[i] - 3 \in 1..cursor
      BY <1>1, <2>2
    <3> QED BY <3>1
  <2>4. \A k \in 1..Len(contents[i]) : bytes[starts[i] + k] = other[starts[i] + k]
    <3>1. \A k \in 1..Len(contents[i]) : starts[i] + k \in 1..cursor
      BY <1>1, <2>2
    <3> QED BY <3>1
  <2> QED BY <2>1, <2>3, <2>4 DEF LevelAt
<1>4. Layout(other, cursor, slot, starts, contents)
  BY <1>2, <1>3 DEF Layout, n
<1>5. cursor \in 0..Len(other)
  BY <1>1, LenProperties
<1> QED BY <1>4, <1>5 DEF IsLayout

(* Where a level begins inside the ones there are.                         *)
Begun(bytes, cursor, slot, content, more, slot2) ==
  /\ more = SubSeq(bytes, 1, cursor)
              \o (IF slot # NoElement THEN UInt32("offset", slot) ELSE << >>)
              \o content
  /\ slot2 = IF slot # NoElement THEN cursor ELSE 0

LEMMA LayoutBegin ==
  ASSUME NEW bytes, NEW cursor, NEW slot, NEW starts, NEW contents,
         IsLayout(bytes, cursor, slot, starts, contents),
         NEW content \in Seq(Byte), content # << >>,
         NEW more, NEW slot2, Begun(bytes, cursor, slot, content, more, slot2)
  PROVE  /\ \E s : IsLayout(more, Len(more), slot2, s, Append(contents, content))
         /\ Len(more) = cursor + (IF slot # NoElement THEN 4 ELSE 0) + Len(content)
<1> DEFINE n == Len(contents)
           between == IF slot # NoElement THEN UInt32("offset", slot) ELSE << >>
           before == SubSeq(bytes, 1, cursor)
           gap == Gap(n + 1)
           start == cursor + gap
           starts2 == Append(starts, start)
           contents2 == Append(contents, content)
<1>1. /\ n \in Nat /\ n >= 1 /\ cursor \in Nat
      /\ \A i \in 1..n : /\ starts[i] \in Nat /\ Len(contents[i]) \in Nat
                         /\ starts[i] + Len(contents[i]) <= cursor
                         /\ i > 2 => starts[i] >= 5
      /\ n = 1 => slot = NoElement
      /\ n = 2 => slot = 0
      /\ n > 2 => slot = starts[n] - 4 /\ slot >= 1
  BY LayoutBounds
<1>2. /\ bytes \in Seq(Byte) /\ cursor \in 0..Len(bytes)
      /\ starts \in Seq(Nat) /\ contents \in Seq(Seq(Byte))
      /\ Len(starts) = n /\ starts[1] = 0
      /\ \A i \in 1..n : LevelAt(bytes, starts, contents, i)
      /\ cursor = starts[n] + Len(contents[n])
      /\ slot = SlotOf(starts, n)
  BY DEF IsLayout, Layout
<1> HIDE DEF n
<1>3. /\ (slot = NoElement) <=> (n = 1)
      /\ gap = IF n = 1 THEN 0 ELSE 4
      /\ gap = IF slot # NoElement THEN 4 ELSE 0
      /\ slot2 = IF n = 1 THEN 0 ELSE cursor
      /\ n # 1 => slot \in Nat
  <2>1. (slot = NoElement) <=> (n = 1)
    <3>1. n = 1 \/ n = 2 \/ n > 2
      BY <1>1
    <3> QED BY <1>1, <3>1 DEF NoElement
  <2>2. n # 1 => slot \in Nat
    <3>1. n > 2 => starts[n] \in Nat
      BY <1>1
    <3>2. n = 1 \/ n = 2 \/ n > 2
      BY <1>1
    <3> QED BY <1>1, <3>1, <3>2
  <2>3. gap = IF n = 1 THEN 0 ELSE 4
    BY <1>1 DEF Gap
  <2> QED BY <2>1, <2>2, <2>3 DEF Begun
<1>4. between \in Seq(Byte) /\ Len(between) = gap /\ (n # 1 => between[1].value = slot)
  <2>1. CASE n = 1
    BY <1>3, <2>1, EmptySeq
  <2>2. CASE n # 1
    <3>1. "offset" \in What
      BY DEF What
    <3>2. /\ UInt32("offset", slot) \in Seq(Byte) /\ Len(UInt32("offset", slot)) = 4
          /\ UInt32("offset", slot)[1].value = slot
      BY <1>3, <2>2, <3>1, UInt32Type
    <3> QED BY <1>3, <2>2, <3>2
  <2> QED BY <2>1, <2>2
<1>5. /\ before \in Seq(Byte) /\ Len(before) = cursor
      /\ \A k \in 1..cursor : before[k] = bytes[k]
  BY <1>2, PrefixType
<1>6. /\ more \in Seq(Byte) /\ Len(more) = Len(before) + Len(between) + Len(content)
      /\ \A k \in 1..Len(before) : more[k] = before[k]
      /\ \A k \in 1..Len(between) : more[Len(before) + k] = between[k]
      /\ \A k \in 1..Len(content) : more[Len(before) + Len(between) + k] = content[k]
  <2>1. IsJoin(more, before, between, content)
    BY DEF Begun, IsJoin
  <2> HIDE DEF before, between
  <2>2. before \in Seq(Byte) /\ between \in Seq(Byte)
    BY <1>4, <1>5
  <2>3. content \in Seq(Byte)
    OBVIOUS
  <2> HIDE DEF gap, start, starts2, contents2
  <2> QED BY <2>1, <2>2, <2>3, ThreeParts
<1> HIDE DEF before, between
<1>7. /\ more \in Seq(Byte)
      /\ Len(more) = start + Len(content)
      /\ \A k \in 1..cursor : more[k] = bytes[k]
      /\ n # 1 => more[cursor + 1].value = slot
      /\ \A k \in 1..Len(content) : more[start + k] = content[k]
  <2>1. n # 1 => 1 \in 1..Len(between)
    BY <1>3, <1>4
  <2> QED BY <1>4, <1>5, <1>6, <2>1
<1>8. Len(content) \in Nat /\ start \in Nat /\ gap \in Nat
  BY <1>1, <1>3, LenProperties
<1>9. /\ starts2 \in Seq(Nat) /\ Len(starts2) = n + 1 /\ starts2[n + 1] = start
      /\ \A i \in 1..n : starts2[i] = starts[i]
  BY <1>2, <1>8, AppendProperties
<1>10. /\ contents2 \in Seq(Seq(Byte)) /\ Len(contents2) = n + 1 /\ contents2[n + 1] = content
       /\ \A i \in 1..n : contents2[i] = contents[i]
  BY <1>2, AppendProperties DEF n
<1>11. IsLayout(more, cursor, slot, starts, contents)
  <2>1. cursor <= Len(more)
    BY <1>1, <1>7, <1>8
  <2> QED BY <1>7, <2>1, LayoutPrefix
<1>12. \A i \in 1..n : LevelAt(more, starts, contents, i)
  BY <1>11 DEF IsLayout, Layout, n
<1> HIDE DEF starts2, contents2, start, gap
<1>13. ASSUME NEW i \in 1..n PROVE LevelAt(more, starts2, contents2, i)
  <2>1. LevelAt(more, starts, contents, i)
    BY <1>12
  <2>2. starts2[i] = starts[i] /\ contents2[i] = contents[i]
    BY <1>9, <1>10
  <2>3. /\ i > 1 => starts2[i - 1] = starts[i - 1] /\ contents2[i - 1] = contents[i - 1]
        /\ \A j \in 1..(i - 1) : starts2[j] = starts[j] /\ contents2[j] = contents[j]
    <3>1. \A j \in 1..(i - 1) : j \in 1..n
      BY <1>1
    <3>2. i > 1 => i - 1 \in 1..(i - 1)
      BY <1>1
    <3> QED BY <1>9, <1>10, <3>1, <3>2
  <2>4. i > 2 => SlotOf(starts2, i - 1) = SlotOf(starts, i - 1)
    BY <2>3 DEF SlotOf
  <2> QED BY <2>1, <2>2, <2>3, <2>4 DEF LevelAt
<1>14. LevelAt(more, starts2, contents2, n + 1)
  <2>1. n \in 1..n /\ (n + 1) - 1 = n
    BY <1>1
  <2>2. starts2[n] = starts[n] /\ contents2[n] = contents[n]
    BY <1>9, <1>10, <2>1
  <2>3. starts2[n + 1] = starts2[n] + Len(contents2[n]) + Gap(n + 1)
    BY <1>2, <1>9, <2>2 DEF start, gap
  <2>4. n + 1 > 2 => more[starts2[n + 1] - 3].value = SlotOf(starts2, n)
    <3>1. n + 1 > 2 => n # 1 /\ gap = 4
      BY <1>1, <1>3
    <3>2. n + 1 > 2 => start - 3 = cursor + 1
      BY <1>1, <3>1 DEF start
    <3>3. SlotOf(starts2, n) = SlotOf(starts, n)
      BY <2>2 DEF SlotOf
    <3> QED BY <1>2, <1>7, <1>9, <3>1, <3>2, <3>3
  <2>5. ASSUME NEW j \in 1..n PROVE starts2[j] + Len(contents2[j]) + Gap(n + 1) <= starts2[n + 1]
    <3>1. starts[j] + Len(contents[j]) <= cursor /\ starts[j] \in Nat /\ Len(contents[j]) \in Nat
      BY <1>1
    <3>2. starts2[j] = starts[j] /\ contents2[j] = contents[j]
      BY <1>9, <1>10
    <3>3. \A a, b, c, g \in Nat : a + b <= c => a + b + g <= c + g
      OBVIOUS
    <3> QED BY <1>1, <1>8, <1>9, <3>1, <3>2, <3>3 DEF start, gap
  <2>6. contents2[n + 1] # << >>
    BY <1>10
  <2>7. \A k \in 1..Len(contents2[n + 1]) : more[starts2[n + 1] + k] = contents2[n + 1][k]
    BY <1>7, <1>9, <1>10
  <2> QED BY <2>1, <2>3, <2>4, <2>5, <2>6, <2>7 DEF LevelAt
<1>15. \A i \in 1..(n + 1) : LevelAt(more, starts2, contents2, i)
  <2>1. \A i \in 1..(n + 1) : i \in 1..n \/ i = n + 1
    BY <1>1
  <2> QED BY <1>13, <1>14, <2>1
<1>16. slot2 = SlotOf(starts2, n + 1)
  <2>1. CASE n = 1
    BY <1>3, <2>1 DEF SlotOf
  <2>2. CASE n # 1
    <3>1. n + 1 # 1 /\ n + 1 # 2 /\ start - 4 = cursor
      BY <1>1, <1>3, <2>2 DEF start
    <3> QED BY <1>3, <1>9, <2>2, <3>1 DEF SlotOf
  <2> QED BY <2>1, <2>2
<1>17. Layout(more, Len(more), slot2, starts2, contents2)
  <2>1. starts2[1] = 0
    BY <1>1, <1>2, <1>9
  <2> QED BY <1>7, <1>9, <1>10, <1>15, <1>16, <2>1 DEF Layout
<1>18. IsLayout(more, Len(more), slot2, starts2, contents2)
  <2>1. Len(more) \in 0..Len(more) /\ n + 1 >= 1
    <3>1. Len(more) \in Nat
      BY <1>7, LenProperties
    <3> QED BY <1>1, <3>1
  <2> QED BY <1>7, <1>9, <1>10, <1>17, <2>1 DEF IsLayout
<1>19. Len(more) = cursor + (IF slot # NoElement THEN 4 ELSE 0) + Len(content)
  BY <1>3, <1>7 DEF start
<1> QED BY <1>18, <1>19 DEF contents2

(* The innermost level grows.                                              *)
Extended(bytes, cursor, more, longer) == longer = SubSeq(bytes, 1, cursor) \o more

Grown(contents, more, contents2) ==
  /\ contents2 \in Seq(Seq(Byte)) /\ Len(contents2) = Len(contents)
  /\ \A i \in 1..Len(contents) :
       contents2[i] = IF i = Len(contents) THEN contents[i] \o more ELSE contents[i]

LEMMA LayoutExtend ==
  ASSUME NEW bytes, NEW cursor, NEW slot, NEW starts, NEW contents,
         IsLayout(bytes, cursor, slot, starts, contents),
         NEW more \in Seq(Byte),
         NEW longer, Extended(bytes, cursor, more, longer),
         NEW contents2, Grown(contents, more, contents2)
  PROVE  /\ IsLayout(longer, Len(longer), slot, starts, contents2)
         /\ Len(longer) = cursor + Len(more)
<1> DEFINE n == Len(contents)
           content == contents[n]
           before == SubSeq(bytes, 1, cursor)
           whole == content \o more
<1>1. contents \in Seq(Seq(Byte)) /\ n \in Nat /\ n >= 1
  BY LenProperties DEF IsLayout
<1>2. content \in Seq(Byte)
  BY <1>1, ElementOfSeq
<1>3. /\ n \in Nat /\ n >= 1 /\ cursor \in Nat
      /\ \A i \in 1..n : /\ starts[i] \in Nat /\ Len(contents[i]) \in Nat
                         /\ starts[i] + Len(contents[i]) <= cursor
                         /\ i > 1 => Len(contents[i]) >= 1
                         /\ i > 2 => starts[i] >= 5
  BY <1>1, LayoutBounds
<1>5. whole \in Seq(Byte) /\ Len(whole) = Len(content) + Len(more)
      /\ (\A k \in 1..Len(content) : whole[k] = content[k])
      /\ (\A k \in 1..Len(more) : whole[Len(content) + k] = more[k])
  <2> HIDE DEF content
  <2> QED BY <1>2, ConcatType
<1>6. /\ Len(contents2) = n /\ contents2[n] = whole /\ contents2 \in Seq(Seq(Byte))
      /\ \A i \in 1..n : i # n => contents2[i] = contents[i]
  <2>1. /\ contents2 \in Seq(Seq(Byte)) /\ Len(contents2) = n
        /\ \A i \in 1..n : contents2[i] = IF i = n THEN contents[i] \o more ELSE contents[i]
    BY DEF Grown
  <2>2. n \in 1..n
    BY <1>1
  <2> HIDE DEF n
  <2>3. contents2[n] = contents[n] \o more
    BY <2>1, <2>2
  <2>4. \A i \in 1..n : i # n => contents2[i] = contents[i]
    BY <2>1
  <2> QED BY <2>1, <2>3, <2>4
<1> HIDE DEF whole, content, n
<1>7. /\ bytes \in Seq(Byte) /\ cursor \in 0..Len(bytes) /\ starts \in Seq(Nat)
      /\ Len(starts) = n /\ starts[1] = 0
      /\ cursor = starts[n] + Len(content)
      /\ slot = SlotOf(starts, n)
  BY DEF IsLayout, Layout, n, content
<1>8. /\ before \in Seq(Byte) /\ Len(before) = cursor
      /\ \A k \in 1..cursor : before[k] = bytes[k]
  BY <1>7, PrefixType
<1> HIDE DEF before
<1>9. /\ longer \in Seq(Byte) /\ Len(longer) = cursor + Len(more)
      /\ \A k \in 1..cursor : longer[k] = bytes[k]
      /\ \A k \in 1..Len(more) : longer[cursor + k] = more[k]
  <2>1. /\ before \o more \in Seq(Byte) /\ Len(before \o more) = Len(before) + Len(more)
        /\ \A k \in 1..Len(before) : (before \o more)[k] = before[k]
        /\ \A k \in 1..Len(more) : (before \o more)[Len(before) + k] = more[k]
    <3>1. before \in Seq(Byte)
      BY <1>8
    <3> QED BY <3>1, ConcatType
  <2>2. longer = before \o more
    BY DEF before, Extended
  <2> QED BY <1>8, <2>1, <2>2
<1>10. Len(content) \in Nat /\ Len(more) \in Nat /\ n \in 1..n /\ starts[n] \in Nat
  BY <1>2, <1>3, LenProperties
<1>11. \A i \in 1..n : LevelAt(longer, starts, contents, i)
  <2>1. cursor <= Len(longer)
    BY <1>3, <1>9, <1>10
  <2>2. IsLayout(longer, cursor, slot, starts, contents)
    BY <1>9, <2>1, LayoutPrefix
  <2> QED BY <2>2 DEF IsLayout, Layout, n
<1>12. \A i \in 1..n : i # n => contents2[i] = contents[i]
  BY <1>6
<1>13. ASSUME NEW i \in 1..n PROVE LevelAt(longer, starts, contents2, i)
  <2>1. LevelAt(longer, starts, contents, i)
    BY <1>11
  <2>2. \A j \in 1..(i - 1) : contents2[j] = contents[j]
    <3>1. \A j \in 1..(i - 1) : j \in 1..n /\ j # n
      BY <1>3
    <3> QED BY <1>12, <3>1
  <2>3. i > 1 => contents2[i - 1] = contents[i - 1]
    <3>1. i > 1 => i - 1 \in 1..(i - 1)
      BY <1>3
    <3> QED BY <2>2, <3>1
  <2>4. CASE i # n
    <3>1. contents2[i] = contents[i]
      BY <1>12, <2>4
    <3> QED BY <2>1, <2>2, <2>3, <3>1 DEF LevelAt
  <2>5. CASE i = n
    <3>1. i > 1 => whole # << >>
      <4>1. i > 1 => Len(content) >= 1
        BY <1>3, <2>5 DEF content
      <4>2. i > 1 => Len(whole) # 0
        BY <1>5, <1>10, <4>1
      <4> QED BY <4>2, EmptySeq
    <3>2. ASSUME NEW k \in 1..Len(whole) PROVE longer[starts[n] + k] = whole[k]
      <4>1. CASE k <= Len(content)
        <5>1. k \in 1..Len(content)
          BY <1>5, <1>10, <4>1
        <5>2. longer[starts[n] + k] = content[k]
          BY <1>10, <1>11, <5>1 DEF LevelAt, content
        <5> QED BY <1>5, <5>1, <5>2
      <4>2. CASE ~(k <= Len(content))
        <5> DEFINE j == k - Len(content)
        <5>1. j \in 1..Len(more) /\ k = Len(content) + j
          BY <1>5, <1>10, <4>2
        <5>2. starts[n] + k = cursor + j
          BY <1>7, <1>10, <5>1
        <5> QED BY <1>5, <1>9, <5>1, <5>2
      <4> QED BY <4>1, <4>2
    <3> QED BY <1>6, <2>1, <2>2, <2>3, <2>5, <3>1, <3>2 DEF LevelAt
  <2> QED BY <2>4, <2>5
<1>14. Len(longer) = starts[n] + Len(whole)
  BY <1>5, <1>7, <1>9, <1>10
<1>15. Layout(longer, Len(longer), slot, starts, contents2)
  BY <1>6, <1>7, <1>13, <1>14 DEF Layout
<1>16. Len(longer) \in 0..Len(longer)
  BY <1>9, LenProperties
<1>17. IsLayout(longer, Len(longer), slot, starts, contents2)
  BY <1>3, <1>6, <1>7, <1>9, <1>15, <1>16 DEF IsLayout
<1> QED BY <1>9, <1>17

LEMMA WithSlotType ==
  ASSUME NEW bytes \in Seq(Byte), NEW p \in Nat, NEW n \in Nat
  PROVE  /\ WithSlot(bytes, p, n) \in Seq(Byte)
         /\ Len(WithSlot(bytes, p, n)) = Len(bytes)
         /\ \A k \in 1..Len(bytes) :
              WithSlot(bytes, p, n)[k] =
                IF k \in (p + 1)..(p + 4) THEN UInt32("size", n)[k - p] ELSE bytes[k]
<1> DEFINE size == UInt32("size", n)
           changed == WithSlot(bytes, p, n)
<1>1. Len(bytes) \in Nat /\ DOMAIN bytes = 1..Len(bytes)
  BY LenProperties
<1>2. size \in Seq(Byte) /\ Len(size) = 4
  <2>1. "size" \in What
    BY DEF What
  <2> QED BY <2>1, UInt32Type
<1> HIDE DEF size
<1>3. \A k \in 1..Len(bytes) :
        /\ bytes[k] \in Byte
        /\ k \in (p + 1)..(p + 4) => size[k - p] \in Byte
  <2>1. \A k \in 1..Len(bytes) : k \in (p + 1)..(p + 4) => k - p \in 1..4
    BY <1>1
  <2>2. \A i \in 1..4 : size[i] \in Byte
    BY <1>2, ElementOfSeq
  <2> QED BY <2>1, <2>2, ElementOfSeq
<1>4. changed = [k \in 1..Len(bytes) |-> IF k \in (p + 1)..(p + 4) THEN size[k - p] ELSE bytes[k]]
  BY <1>1 DEF WithSlot, size
<1>5. changed \in [1..Len(bytes) -> Byte]
  BY <1>3, <1>4
<1>6. \A k \in 1..Len(bytes) :
        changed[k] = IF k \in (p + 1)..(p + 4) THEN size[k - p] ELSE bytes[k]
  BY <1>4
<1> HIDE DEF changed
<1>7. changed \in Seq(Byte) /\ Len(changed) = Len(bytes)
  BY <1>1, <1>5, FunctionIsSeq
<1> QED BY <1>6, <1>7 DEF changed, size

(* Where the innermost level ends, and its size is written to its slot.    *)
Ended(bytes, cursor, slot, ended, slot2) ==
  /\ ended = IF slot = 0 THEN bytes ELSE WithSlot(bytes, slot, cursor - slot - 4)
  /\ slot2 = IF slot = 0 THEN NoElement ELSE bytes[slot + 1].value

LEMMA LayoutEnd ==
  ASSUME NEW bytes, NEW cursor, NEW slot, NEW starts,
         NEW outer \in Seq(Seq(Byte)), Len(outer) >= 1, NEW element \in Seq(Byte),
         IsLayout(bytes, cursor, slot, starts, Append(outer, element)),
         NEW ended, NEW slot2, Ended(bytes, cursor, slot, ended, slot2)
  PROVE  /\ \E s : IsLayout(ended, cursor, slot2, s, WithElement(outer, element))
         /\ Len(ended) = Len(bytes)
<1> DEFINE contents == Append(outer, element)
           m == Len(outer)
           starts2 == SubSeq(starts, 1, m)
           size == IF m = 1 THEN << >> ELSE UInt32("size", Len(element))
           whole == outer[m] \o size \o element
           contents2 == WithElement(outer, element)
           n == m + 1
           gap == Gap(n)
<1>1. Len(contents) = n /\ contents[n] = element /\ \A i \in 1..m : contents[i] = outer[i]
  BY AppendProperties
<1>2. m \in Nat /\ m >= 1 /\ Len(element) \in Nat
  BY LenProperties
<1> HIDE DEF contents, m
<1>3. IsLayout(bytes, cursor, slot, starts, contents)
  BY DEF contents
<1>4. /\ n \in Nat /\ cursor \in Nat /\ Len(bytes) \in Nat /\ cursor <= Len(bytes)
      /\ \A i \in 1..n : /\ starts[i] \in Nat /\ Len(contents[i]) \in Nat
                         /\ i > 1 => Len(contents[i]) >= 1
                         /\ starts[i] + Len(contents[i]) <= cursor
                         /\ i > 2 => starts[i] >= 5
      /\ n = 2 => slot = 0
      /\ n > 2 => slot = starts[n] - 4 /\ slot >= 1
  <2>1. LET l == Len(contents)
        IN  /\ l \in Nat /\ cursor \in Nat /\ Len(bytes) \in Nat /\ cursor <= Len(bytes)
            /\ \A i \in 1..l : /\ starts[i] \in Nat /\ Len(contents[i]) \in Nat
                               /\ i > 1 => Len(contents[i]) >= 1
                               /\ starts[i] + Len(contents[i]) <= cursor
                               /\ i > 2 => starts[i] >= 5
            /\ l = 2 => slot = 0
            /\ l > 2 => slot = starts[l] - 4 /\ slot >= 1
    BY <1>3, LayoutBounds
  <2> HIDE DEF n
  <2> QED BY <1>1, <2>1
<1>5. /\ bytes \in Seq(Byte) /\ starts \in Seq(Nat)
      /\ Len(starts) = n /\ starts[1] = 0
      /\ cursor = starts[n] + Len(element)
      /\ \A i \in 1..n : LevelAt(bytes, starts, contents, i)
  BY <1>1, <1>3 DEF IsLayout, Layout
<1>6. /\ gap = IF m = 1 THEN 0 ELSE 4
      /\ starts[n] \in Nat /\ n \in 1..n /\ m \in 1..n /\ m \in 1..m
      /\ (m = 1) <=> (slot = 0)
      /\ m # 1 => slot = starts[n] - 4 /\ slot \in Nat /\ starts[n] >= 5
  <2>1. n \in 1..n /\ m \in 1..n /\ m \in 1..m
    BY <1>2
  <2>2. gap = IF m = 1 THEN 0 ELSE 4
    <3>1. n = 2 <=> m = 1
      BY <1>2
    <3> HIDE DEF n
    <3> QED BY <3>1 DEF Gap
  <2>3. starts[n] \in Nat /\ (n > 2 => starts[n] >= 5)
    BY <1>4, <2>1
  <2>4. m = 1 => slot = 0
    BY <1>4
  <2>5. m # 1 => n > 2
    BY <1>2
  <2>6. m # 1 => slot = starts[n] - 4 /\ slot >= 1
    BY <1>4, <2>5
  <2> QED BY <2>1, <2>2, <2>3, <2>4, <2>5, <2>6
<1>7. outer[m] \in Seq(Byte) /\ Len(outer[m]) \in Nat
  <2>1. outer[m] \in Seq(Byte)
    BY <1>6, ElementOfSeq DEF m
  <2> QED BY <2>1, LenProperties
<1>8. size \in Seq(Byte) /\ Len(size) = gap
  <2>1. CASE m = 1
    BY <1>6, <2>1, EmptySeq
  <2>2. CASE m # 1
    <3>1. "size" \in What
      BY DEF What
    <3>2. UInt32("size", Len(element)) \in Seq(Byte) /\ Len(UInt32("size", Len(element))) = 4
      BY <1>2, <3>1, UInt32Type
    <3> QED BY <1>6, <2>2, <3>2
  <2> QED BY <2>1, <2>2
<1>9. starts[n] = starts[m] + Len(outer[m]) + gap
  <2>1. n > 1 /\ n - 1 = m
    BY <1>2
  <2> QED BY <1>1, <1>5, <1>6, <2>1 DEF LevelAt
<1>10. \A i \in 1..m : starts[i] + Len(contents[i]) + gap <= starts[n]
  <2>1. n - 1 = m
    BY <1>2
  <2> QED BY <1>5, <1>6, <2>1 DEF LevelAt
<1> HIDE DEF n, gap
(* The new contents.                                                       *)
<1>11. /\ whole \in Seq(Byte) /\ Len(whole) = Len(outer[m]) + Len(size) + Len(element)
       /\ \A k \in 1..Len(outer[m]) : whole[k] = outer[m][k]
       /\ \A k \in 1..Len(size) : whole[Len(outer[m]) + k] = size[k]
       /\ \A k \in 1..Len(element) : whole[Len(outer[m]) + Len(size) + k] = element[k]
  <2> DEFINE first == outer[m]
  <2>1. IsJoin(whole, first, size, element)
    BY DEF IsJoin
  <2> HIDE DEF size, whole, first
  <2>2. first \in Seq(Byte) /\ size \in Seq(Byte)
    BY <1>7, <1>8 DEF first
  <2>3. /\ whole \in Seq(Byte)
        /\ Len(whole) = Len(first) + Len(size) + Len(element)
        /\ \A k \in 1..Len(first) : whole[k] = first[k]
        /\ \A k \in 1..Len(size) : whole[Len(first) + k] = size[k]
        /\ \A k \in 1..Len(element) : whole[Len(first) + Len(size) + k] = element[k]
    BY <2>1, <2>2, ThreeParts
  <2> QED BY <2>3 DEF first
<1>12. contents2 = [outer EXCEPT ![m] = whole]
  BY DEF WithElement, m
<1>13. DOMAIN outer = 1..m
  BY LenProperties DEF m
<1> HIDE DEF contents2, whole, size
<1>14. /\ contents2 \in Seq(Seq(Byte)) /\ Len(contents2) = m /\ contents2[m] = whole
       /\ \A i \in 1..m : i # m => contents2[i] = contents[i]
  <2>1. \A i \in 1..m : outer[i] \in Seq(Byte)
    BY ElementOfSeq DEF m
  <2>2. outer \in [1..m -> Seq(Byte)]
    BY LenProperties DEF m
  <2>3. contents2 \in [1..m -> Seq(Byte)]
    BY <1>11, <1>12, <2>2
  <2>4. contents2[m] = whole /\ \A i \in 1..m : i # m => contents2[i] = outer[i]
    BY <1>6, <1>12, <1>13
  <2>5. contents2 \in Seq(Seq(Byte)) /\ Len(contents2) = m
    BY <1>2, <2>3, FunctionIsSeq
  <2> QED BY <1>1, <2>4, <2>5
(* The new starts.                                                         *)
<1>15. starts2 \in Seq(Nat) /\ Len(starts2) = m /\ \A i \in 1..m : starts2[i] = starts[i]
  <2>1. m \in 0..Len(starts)
    BY <1>2, <1>5, <1>6
  <2> QED BY <1>5, <2>1, PrefixType
<1> HIDE DEF starts2
(* The new bytes.                                                          *)
<1>16. /\ ended \in Seq(Byte) /\ Len(ended) = Len(bytes)
       /\ \A k \in 1..(starts[m] + Len(outer[m])) : ended[k] = bytes[k]
       /\ \A k \in 1..gap : ended[starts[m] + Len(outer[m]) + k] = size[k]
       /\ \A k \in 1..Len(element) : ended[starts[n] + k] = bytes[starts[n] + k]
  <2>0. starts[m] \in Nat
    BY <1>4, <1>6
  <2>1. CASE m = 1
    <3>1. ended = bytes /\ gap = 0
      BY <1>6, <2>1 DEF Ended
    <3>2. \A k \in 1..gap : FALSE
      BY <3>1
    <3> QED BY <1>5, <3>1, <3>2
  <2>2. CASE m # 1
    <3>1. ended = WithSlot(bytes, slot, Len(element))
      <4>1. cursor - slot - 4 = Len(element)
        <5>1. cursor = starts[n] + Len(element) /\ Len(element) \in Nat
          BY <1>2, <1>5
        <5>2. slot = starts[n] - 4 /\ starts[n] \in Nat
          BY <1>6, <2>2
        <5> QED BY <5>1, <5>2
      <4> QED BY <1>6, <2>2, <4>1 DEF Ended
    <3>2. /\ ended \in Seq(Byte) /\ Len(ended) = Len(bytes)
          /\ \A k \in 1..Len(bytes) :
               ended[k] = IF k \in (slot + 1)..(slot + 4) THEN UInt32("size", Len(element))[k - slot]
                          ELSE bytes[k]
      <4>1. bytes \in Seq(Byte) /\ slot \in Nat /\ Len(element) \in Nat
        BY <1>2, <1>5, <1>6, <2>2
      <4> DEFINE size2 == Len(element)
                 set == WithSlot(bytes, slot, size2)
      <4>2. size2 \in Nat
        BY <4>1
      <4> HIDE DEF size2
      <4>3. /\ set \in Seq(Byte) /\ Len(set) = Len(bytes)
            /\ \A k \in 1..Len(bytes) :
                 set[k] = IF k \in (slot + 1)..(slot + 4) THEN UInt32("size", size2)[k - slot]
                          ELSE bytes[k]
        BY <4>1, <4>2, WithSlotType
      <4>4. ended = set
        BY <3>1 DEF size2
      <4> HIDE DEF set
      <4> QED BY <4>3, <4>4 DEF size2
    <3>3. slot = starts[m] + Len(outer[m]) /\ starts[n] = slot + 4 /\ gap = 4 /\ slot \in Nat
      <4>1. gap = 4 /\ slot = starts[n] - 4
        BY <1>6, <2>2
      <4>2. starts[n] = starts[m] + Len(outer[m]) + gap /\ Len(outer[m]) \in Nat
        BY <1>7, <1>9
      <4> QED BY ONLY <2>0, <4>1, <4>2
    <3>4. size = UInt32("size", Len(element))
      BY <2>2 DEF size
    <3>5. slot + 4 + Len(element) <= Len(bytes)
      BY <1>4, <1>5, <3>3
    <3>6. ASSUME NEW k \in 1..slot PROVE ended[k] = bytes[k]
      <4>1. k \in 1..Len(bytes) /\ k \notin (slot + 1)..(slot + 4)
        <5>1. Len(bytes) \in Nat /\ Len(element) \in Nat /\ slot \in Nat
          BY <1>2, <1>4, <3>3
        <5> QED BY ONLY <3>5, <5>1, k \in 1..slot
      <4> QED BY <3>2, <4>1
    <3>7. ASSUME NEW k \in 1..4 PROVE ended[slot + k] = size[k]
      <4>1. slot + k \in 1..Len(bytes) /\ slot + k \in (slot + 1)..(slot + 4) /\ (slot + k) - slot = k
        <5>1. \A p, l \in Nat : p + 4 + Len(element) <= l =>
                p + k \in 1..l /\ p + k \in (p + 1)..(p + 4) /\ (p + k) - p = k
          BY <1>2
        <5> QED BY <1>4, <3>3, <3>5, <5>1
      <4> QED BY <3>2, <3>4, <4>1
    <3>8. ASSUME NEW k \in 1..Len(element) PROVE ended[starts[n] + k] = bytes[starts[n] + k]
      <4>1. starts[n] + k \in 1..Len(bytes) /\ starts[n] + k \notin (slot + 1)..(slot + 4)
        <5>1. Len(bytes) \in Nat /\ Len(element) \in Nat /\ slot \in Nat /\ starts[n] = slot + 4
          BY <1>2, <1>4, <3>3
        <5> QED BY ONLY <3>5, <5>1, k \in 1..Len(element)
      <4> QED BY <3>2, <4>1
    <3> QED BY <3>2, <3>3, <3>6, <3>7, <3>8
  <2> QED BY <2>1, <2>2
<1>17. ASSUME NEW i \in 1..m PROVE LevelAt(ended, starts2, contents2, i)
  <2>1. LevelAt(bytes, starts, contents, i)
    <3>1. i \in 1..n
      BY <1>2 DEF n
    <3> QED BY <1>5, <3>1
  <2>2. \A j \in 1..(i - 1) : starts2[j] = starts[j] /\ contents2[j] = contents[j]
    <3>1. \A j \in 1..(i - 1) : j \in 1..m /\ j # m
      BY <1>2
    <3> QED BY <1>14, <1>15, <3>1
  <2>3. i > 1 => i - 1 \in 1..(i - 1)
    BY <1>2
  <2>4. starts2[i] = starts[i]
    BY <1>15
  <2>5. /\ starts[i] \in Nat /\ Len(contents[i]) \in Nat
        /\ i > 1 => Len(contents[i]) >= 1
        /\ i > 2 => starts[i] >= 5
        /\ starts[m] \in Nat
    <3>1. i \in 1..n
      BY <1>2 DEF n
    <3> QED BY <1>4, <1>6, <3>1
  <2>6. starts[i] + Len(contents[i]) <= starts[m] + Len(outer[m])
    <3>1. starts[i] + Len(contents[i]) + gap <= starts[n]
      BY <1>10
    <3>2. gap \in Nat
      BY <1>6
    <3>3. \A a, b, c, d, g \in Nat : a + b + g <= c + d + g => a + b <= c + d
      OBVIOUS
    <3>4. starts[n] = starts[m] + Len(outer[m]) + gap /\ Len(outer[m]) \in Nat
      BY <1>7, <1>9
    <3>5. starts[i] + Len(contents[i]) + gap <= starts[m] + Len(outer[m]) + gap
      BY <3>1, <3>4
    <3> QED BY <2>5, <3>2, <3>3, <3>4, <3>5
  <2>14. starts[m] + Len(outer[m]) \in Nat
    <3>1. starts[m] \in Nat /\ Len(outer[m]) \in Nat
      BY <1>7, <2>5
    <3> QED BY ONLY <3>1
  <2>7. i > 1 => contents2[i] # << >>
    <3>1. CASE i # m
      BY <1>14, <2>1, <3>1 DEF LevelAt
    <3>2. CASE i = m
      <4>1. i > 1 => Len(outer[m]) >= 1
        BY <1>1, <2>5, <3>2
      <4>2. i > 1 => Len(whole) # 0
        <5>1. Len(size) \in Nat
          BY <1>8, LenProperties
        <5> QED BY <1>2, <1>7, <1>11, <4>1, <5>1
      <4> QED BY <1>14, <3>2, <4>2, EmptySeq
    <3> QED BY <3>1, <3>2
  <2>8. i > 1 => starts2[i] = starts2[i - 1] + Len(contents2[i - 1]) + Gap(i)
    BY <2>1, <2>2, <2>3, <2>4 DEF LevelAt
  <2>9. i > 2 => ended[starts2[i] - 3].value = SlotOf(starts2, i - 1)
    <3>1. i > 2 => SlotOf(starts2, i - 1) = SlotOf(starts, i - 1)
      BY <2>2, <2>3 DEF SlotOf
    <3>2. i > 2 => starts[i] - 3 \in 1..(starts[m] + Len(outer[m]))
      <4>1. \A a, l, e \in Nat : a + l <= e /\ a >= 5 => a - 3 \in 1..e
        OBVIOUS
      <4> QED BY <2>5, <2>6, <2>14, <4>1
    <3>3. i > 2 => ended[starts[i] - 3] = bytes[starts[i] - 3]
      BY <1>16, <3>2
    <3> QED BY <2>1, <2>4, <3>1, <3>3 DEF LevelAt
  <2>10. \A j \in 1..(i - 1) : starts2[j] + Len(contents2[j]) + Gap(i) <= starts2[i]
    BY <2>1, <2>2, <2>4 DEF LevelAt
  <2>11. \A k \in 1..Len(contents[i]) : ended[starts[i] + k] = contents[i][k]
    <3>1. \A k \in 1..Len(contents[i]) : starts[i] + k \in 1..(starts[m] + Len(outer[m]))
      <4>1. \A a, l, e \in Nat : a + l <= e => \A k \in 1..l : a + k \in 1..e
        OBVIOUS
      <4> QED BY <2>5, <2>6, <2>14, <4>1
    <3> QED BY <1>16, <2>1, <3>1 DEF LevelAt
  <2>12. ASSUME i = m, NEW k \in 1..Len(whole) PROVE ended[starts[m] + k] = whole[k]
    <3> DEFINE len == Len(outer[m])
    <3>1. len \in Nat /\ gap \in Nat /\ Len(whole) = len + gap + Len(element) /\ Len(size) = gap
      BY <1>6, <1>7, <1>8, <1>11
    <3>2. contents[m] = outer[m]
      BY <1>1, <1>6
    <3> HIDE DEF len
    <3>3. CASE k <= len
      <4>1. k \in 1..len
        BY <1>2, <3>1, <3>3
      <4>2. ended[starts[m] + k] = outer[m][k] /\ whole[k] = outer[m][k]
        BY <1>11, <2>11, <2>12, <3>2, <4>1 DEF len
      <4> QED BY <4>2
    <3>4. CASE ~(k <= len) /\ k <= len + gap
      <4> DEFINE j == k - len
      <4>1. j \in 1..gap /\ k = len + j /\ starts[m] + k = starts[m] + len + j
        BY <1>2, <2>5, <3>1, <3>4
      <4>2. ended[starts[m] + len + j] = size[j] /\ whole[len + j] = size[j]
        BY <1>11, <1>16, <3>1, <4>1 DEF len
      <4> QED BY <4>1, <4>2
    <3>5. CASE ~(k <= len + gap)
      <4> DEFINE j == k - (len + gap)
      <4>1. j \in 1..Len(element) /\ k = len + gap + j
        BY <1>2, <3>1, <3>5
      <4>2. starts[m] + k = starts[n] + j
        <5>1. starts[n] = starts[m] + len + gap /\ starts[m] \in Nat
          BY <1>9, <2>5 DEF len
        <5>2. len \in Nat /\ gap \in Nat
          BY <3>1
        <5>3. j \in Nat /\ k = len + gap + j
          BY <1>2, <4>1
        <5> QED BY ONLY <5>1, <5>2, <5>3
      <4>3. ended[starts[n] + j] = bytes[starts[n] + j] /\ whole[len + gap + j] = element[j]
        BY <1>11, <1>16, <3>1, <4>1 DEF len
      <4>4. bytes[starts[n] + j] = element[j]
        BY <1>1, <1>5, <1>6, <4>1 DEF LevelAt
      <4> QED BY <4>1, <4>2, <4>3, <4>4
    <3> QED BY <1>2, <3>1, <3>3, <3>4, <3>5
  <2>13. \A k \in 1..Len(contents2[i]) : ended[starts2[i] + k] = contents2[i][k]
    <3>1. CASE i # m
      BY <1>14, <2>4, <2>11, <3>1
    <3>2. CASE i = m
      BY <1>14, <2>4, <2>12, <3>2
    <3> QED BY <3>1, <3>2
  <2> QED BY <2>7, <2>8, <2>9, <2>10, <2>13 DEF LevelAt
<1>18. slot2 = SlotOf(starts2, m)
  <2>1. CASE m = 1
    BY <1>6, <2>1 DEF SlotOf, Ended
  <2>2. CASE m # 1
    <3>1. n > 2 /\ n - 1 = m
      BY <1>2, <2>2 DEF n
    <3>2. bytes[starts[n] - 3].value = SlotOf(starts, m)
      BY <1>5, <1>6, <3>1 DEF LevelAt
    <3>3. slot + 1 = starts[n] - 3
      BY <1>6, <2>2
    <3>4. SlotOf(starts2, m) = SlotOf(starts, m)
      BY <1>6, <1>15 DEF SlotOf
    <3> QED BY <1>6, <2>2, <3>2, <3>3, <3>4 DEF Ended
  <2> QED BY <2>1, <2>2
<1>19. cursor = starts2[m] + Len(whole)
  <2>1. starts[m] \in Nat /\ gap \in Nat
    BY <1>4, <1>6
  <2>2. \A a, b, g, e \in Nat : (a + b + g) + e = a + (b + g + e)
    OBVIOUS
  <2>3. starts2[m] = starts[m]
    BY <1>6, <1>15
  <2>4. Len(whole) = Len(outer[m]) + gap + Len(element)
    BY <1>8, <1>11
  <2>5. cursor = (starts[m] + Len(outer[m]) + gap) + Len(element)
    BY <1>5, <1>9
  <2> QED BY <1>2, <1>7, <2>1, <2>2, <2>3, <2>4, <2>5
<1>20. Layout(ended, cursor, slot2, starts2, contents2)
  <2>1. starts2[1] = 0
    BY <1>2, <1>5, <1>15
  <2> QED BY <1>14, <1>15, <1>17, <1>18, <1>19, <2>1 DEF Layout
<1>21. IsLayout(ended, cursor, slot2, starts2, contents2)
  <2>1. cursor \in 0..Len(ended)
    BY <1>4, <1>16
  <2> QED BY <1>2, <1>14, <1>15, <1>16, <1>20, <2>1 DEF IsLayout
<1> QED BY <1>16, <1>21 DEF contents2

-----------------------------------------------------------------------------
(* More about sequences.                                                   *)

LEMMA PrefixOfConcat ==
  ASSUME NEW S, NEW s \in Seq(S), NEW t \in Seq(S), NEW n \in 0..Len(s)
  PROVE  SubSeq(s \o t, 1, n) = SubSeq(s, 1, n)
<1> DEFINE st == s \o t
<1>1. st \in Seq(S) /\ Len(st) = Len(s) + Len(t) /\ \A k \in 1..Len(s) : st[k] = s[k]
  BY ConcatType
<1>2. Len(s) \in Nat /\ Len(t) \in Nat
  BY LenProperties
<1> HIDE DEF st
<1>3. n \in 0..Len(st) /\ \A k \in 1..n : k \in 1..Len(s)
  BY <1>1, <1>2
<1>4. SubSeq(s, 1, n) \in Seq(S) /\ Len(SubSeq(s, 1, n)) = n /\ \A k \in 1..n : SubSeq(s, 1, n)[k] = s[k]
  BY PrefixType
<1>5. SubSeq(st, 1, n) \in Seq(S) /\ Len(SubSeq(st, 1, n)) = n /\ \A k \in 1..n : SubSeq(st, 1, n)[k] = st[k]
  BY <1>1, <1>3, PrefixType
<1>6. SubSeq(st, 1, n) = SubSeq(s, 1, n)
  BY <1>1, <1>3, <1>4, <1>5, SameSequence
<1> QED BY <1>6 DEF st

LEMMA SuffixOfConcat ==
  ASSUME NEW S, NEW s \in Seq(S), NEW t \in Seq(S)
  PROVE  SubSeq(s \o t, Len(s) + 1, Len(s \o t)) = t
<1> DEFINE st == s \o t
           suffix == SubSeq(st, Len(s) + 1, Len(st))
<1>1. st \in Seq(S) /\ Len(st) = Len(s) + Len(t) /\ \A k \in 1..Len(t) : st[Len(s) + k] = t[k]
  BY ConcatType
<1>2. Len(s) \in Nat /\ Len(t) \in Nat
  BY LenProperties
<1> HIDE DEF st
<1>3. \A k \in (Len(s) + 1)..Len(st) : st[k] \in S
  <2>1. \A k \in (Len(s) + 1)..Len(st) : k \in 1..Len(st)
    BY <1>1, <1>2
  <2> QED BY <1>1, <2>1, ElementOfSeq
<1>4. /\ suffix \in Seq(S)
      /\ Len(suffix) = IF Len(s) + 1 <= Len(st) THEN Len(st) - (Len(s) + 1) + 1 ELSE 0
      /\ \A k \in 1..(Len(st) - (Len(s) + 1) + 1) : suffix[k] = st[Len(s) + 1 + k - 1]
  <2>1. Len(s) + 1 \in Int /\ Len(st) \in Int
    BY <1>1, <1>2
  <2> QED BY <1>3, <2>1, SubSeqProperties
<1> HIDE DEF suffix
<1>5. Len(suffix) = Len(t)
  BY <1>1, <1>2, <1>4
<1>6. ASSUME NEW k \in 1..Len(t) PROVE suffix[k] = t[k]
  <2>1. k \in 1..(Len(st) - (Len(s) + 1) + 1) /\ Len(s) + 1 + k - 1 = Len(s) + k
    BY <1>1, <1>2
  <2> QED BY <1>1, <1>4, <2>1
<1>7. suffix = t
  BY <1>4, <1>5, <1>6, SameSequence
<1> QED BY <1>7 DEF suffix, st

LEMMA FrontLast ==
  ASSUME NEW S, NEW s \in Seq(S), Len(s) >= 1
  PROVE  /\ Front(s) \in Seq(S) /\ Len(Front(s)) = Len(s) - 1
         /\ Last(s) \in S
         /\ Append(Front(s), Last(s)) = s
<1> DEFINE n == Len(s)
           front == Front(s)
           last == Last(s)
           all == Append(front, last)
<1>1. n \in Nat /\ n >= 1
  BY LenProperties
<1>2. n - 1 \in 0..n
  BY <1>1
<1>3. front \in Seq(S) /\ Len(front) = n - 1 /\ \A k \in 1..(n - 1) : front[k] = s[k]
  BY <1>2, PrefixType DEF Front
<1>4. last = s[n] /\ last \in S
  BY <1>1, ElementOfSeq DEF Last
<1> HIDE DEF front, last
<1>5. /\ all \in Seq(S) /\ Len(all) = Len(front) + 1 /\ all[Len(front) + 1] = last
      /\ \A k \in 1..Len(front) : all[k] = front[k]
  BY <1>3, <1>4, AppendProperties
<1> HIDE DEF all, n
<1>6. \A k \in 1..n : all[k] = s[k]
  <2> SUFFICES ASSUME NEW k \in 1..n PROVE all[k] = s[k]
    OBVIOUS
  <2>1. CASE k = n
    BY <1>1, <1>3, <1>4, <1>5, <2>1
  <2>2. CASE k # n
    <3>1. k \in 1..(n - 1)
      BY <1>1, <2>2
    <3> QED BY <1>3, <1>5, <3>1
  <2> QED BY <2>1, <2>2
<1>7. Len(all) = Len(s) /\ \A k \in 1..Len(all) : all[k] = s[k]
  BY <1>1, <1>3, <1>5, <1>6 DEF n
<1>8. all = s
  BY <1>5, <1>7, SameSequence
<1> QED BY <1>3, <1>4, <1>8 DEF all, front, last, n

LEMMA NoArguments == Tags(<< >>) = << >> /\ ArgumentPart(<< >>) = << >>
<1> DEFINE none == << >>
           bytes == [k \in DOMAIN none |-> none[k].bytes]
<1>1. none \in Seq(Arguments) /\ Len(none) = 0 /\ DOMAIN none = 1..0
  BY EmptySeq, LenProperties
<1>2. bytes \in [1..0 -> {}]
  BY <1>1
<1>3. ArgumentPart(none) = FlattenSeq(bytes)
  BY DEF ArgumentPart
<1> HIDE DEF none, bytes
<1>4. Len(Tags(none)) = 0 /\ Tags(none) \in Seq(TypeTagValues)
  BY <1>1, TagsType
<1>5. bytes \in Seq({}) /\ Len(bytes) = 0
  <2>1. 0 \in Nat
    OBVIOUS
  <2> QED BY <1>2, <2>1, FunctionIsSeq
<1>6. Tags(none) = << >> /\ bytes = << >>
  BY <1>4, <1>5, EmptySeq
<1> QED BY <1>3, <1>6, FlattenEmpty DEF none

-----------------------------------------------------------------------------
(* The inductive invariant.                                                *)

LEMMA EmptyLayout == IsLayout(<< >>, 0, NoElement, << 0 >>, << << >> >>)
<1> DEFINE none == << >>
           starts == << 0 >>
           contents == << none >>
<1>1. none \in Seq(Byte) /\ Len(none) = 0
  BY EmptySeq
<1> HIDE DEF none
<1>2. starts \in Seq(Nat) /\ Len(starts) = 1 /\ starts[1] = 0
  OBVIOUS
<1>3. contents \in Seq(Seq(Byte)) /\ Len(contents) = 1 /\ contents[1] = none
  BY <1>1
<1> HIDE DEF starts, contents
<1>4. LevelAt(none, starts, contents, 1)
  BY <1>1, <1>3 DEF LevelAt
<1>5. \A i \in 1..1 : LevelAt(none, starts, contents, i)
  BY <1>4
<1>6. SlotOf(starts, 1) = NoElement
  BY DEF SlotOf
<1>7. Layout(none, 0, NoElement, starts, contents)
  BY <1>1, <1>2, <1>3, <1>5, <1>6 DEF Layout
<1>8. IsLayout(none, 0, NoElement, starts, contents)
  BY <1>1, <1>2, <1>3, <1>7 DEF IsLayout
<1> QED BY <1>8 DEF starts, contents, none

(* What the slot may be, and that the place it holds is before the cursor. *)
LEMMA LayoutSlot ==
  ASSUME NEW bytes, NEW cursor, NEW slot, NEW starts, NEW contents,
         IsLayout(bytes, cursor, slot, starts, contents)
  PROVE  /\ slot \in {NoElement} \cup 0..cursor
         /\ slot \notin {NoElement, 0} => slot + 1 \in 1..cursor
<1> DEFINE n == Len(contents)
<1>1. /\ n \in Nat /\ n >= 1 /\ cursor \in Nat
      /\ \A i \in 1..n : /\ starts[i] \in Nat /\ Len(contents[i]) \in Nat
                         /\ starts[i] + Len(contents[i]) <= cursor
      /\ n = 1 => slot = NoElement
      /\ n = 2 => slot = 0
      /\ n > 2 => slot = starts[n] - 4 /\ slot >= 1
  BY LayoutBounds
<1> HIDE DEF n
<1>2. n \in 1..n /\ (n = 1 \/ n = 2 \/ n > 2)
  BY <1>1
<1>3. n > 2 => slot \in 1..(cursor - 4)
  <2>1. starts[n] \in Nat /\ starts[n] <= cursor
    <3>1. \A a, b, c \in Nat : a + b <= c => a <= c
      OBVIOUS
    <3> QED BY <1>1, <1>2, <3>1
  <2> QED BY <1>1, <2>1
<1> QED BY <1>1, <1>2, <1>3 DEF NoElement

(* There is a slot if there are two levels or more.                        *)
LEMMA LayoutDepth ==
  ASSUME NEW bytes, NEW cursor, NEW slot, NEW starts, NEW contents,
         IsLayout(bytes, cursor, slot, starts, contents)
  PROVE  IF slot = NoElement THEN Len(contents) = 1 ELSE Len(contents) > 1
<1> DEFINE n == Len(contents)
<1>1. /\ n \in Nat /\ n >= 1
      /\ n = 1 => slot = NoElement
      /\ n = 2 => slot = 0
      /\ n > 2 => slot >= 1
  BY LayoutBounds
<1> HIDE DEF n
<1>2. n = 1 \/ n = 2 \/ n > 2
  BY <1>1
<1>3. IF slot = NoElement THEN n = 1 ELSE n > 1
  BY <1>1, <1>2 DEF NoElement
<1> QED BY <1>3 DEF n

(* The levels in the buffer, and what must be shown of the next state.     *)
LEMMA Laid ==
  ASSUME IInv
  PROVE  /\ Contents \in Seq(Seq(Byte)) /\ Len(Contents) >= 1
         /\ \E starts : IsLayout(buffer, messageCursor, elementSizePtr, starts, Contents)
<1>1. open \in Seq(Seq(Byte)) /\ Len(open) >= 1 /\ Len(open) \in Nat
  BY LenProperties DEF IInv, TypeOK
<1>2. Contents \in Seq(Seq(Byte)) /\ Len(Contents) >= 1
  <2>1. CASE messageIsInProgress
    <3>1. message.address \in Nat
      BY <2>1 DEF IInv, MessageSoFar
    <3>2. AddressPart(message.address) \in Seq(Byte)
      BY <3>1, AddressPartType
    <3>3. /\ Append(open, AddressPart(message.address)) \in Seq(Seq(Byte))
          /\ Len(Append(open, AddressPart(message.address))) = Len(open) + 1
      BY <1>1, <3>2, AppendProperties
    <3> QED BY <1>1, <2>1, <3>3 DEF Contents
  <2>2. CASE ~messageIsInProgress
    BY <1>1, <2>2 DEF Contents
  <2> QED BY <2>1, <2>2
<1>3. PICK starts \in Seq(Nat) : Layout(buffer, messageCursor, elementSizePtr, starts, Contents)
  BY DEF IInv
<1>4. IsLayout(buffer, messageCursor, elementSizePtr, starts, Contents)
  BY <1>2, <1>3 DEF IsLayout, IInv, TypeOK
<1> QED BY <1>2, <1>4

LEMMA NextLaid ==
  ASSUME typeTags' \in Seq(TypeTagValues), messageIsInProgress' \in BOOLEAN,
         open' \in Seq(Seq(Byte)), Len(open') >= 1,
         IF messageIsInProgress' THEN MessageSoFar' ELSE message' = NoMessage,
         Size' <= Capacity,
         \E starts : IsLayout(buffer', messageCursor', elementSizePtr', starts, Contents')
  PROVE  IInv'
<1>1. PICK starts : IsLayout(buffer', messageCursor', elementSizePtr', starts, Contents')
  OBVIOUS
<1>2. elementSizePtr' \in {NoElement} \cup 0..messageCursor'
  BY <1>1, LayoutSlot
<1>3. /\ buffer' \in Seq(Byte) /\ messageCursor' \in 0..Len(buffer') /\ starts \in Seq(Nat)
      /\ Layout(buffer', messageCursor', elementSizePtr', starts, Contents')
  BY <1>1 DEF IsLayout
<1>4. TypeOK'
  BY <1>2, <1>3 DEF TypeOK
<1>5. \E s \in Seq(Nat) : Layout(buffer', messageCursor', elementSizePtr', s, Contents')
  BY <1>3
<1> QED BY <1>4, <1>5 DEF IInv

LEMMA InitIsGood == Init => IInv
<1> SUFFICES ASSUME Init PROVE IInv
  OBVIOUS
<1>1. IsLayout(buffer, messageCursor, elementSizePtr, << 0 >>, Contents)
  BY EmptyLayout DEF Init, Contents
<1>2. \E starts \in Seq(Nat) : Layout(buffer, messageCursor, elementSizePtr, starts, Contents)
  BY <1>1 DEF IsLayout
<1>3. open \in Seq(Seq(Byte)) /\ Len(open) = 1
  <2>1. Contents = open
    BY DEF Init, Contents
  <2>2. open \in Seq(Seq(Byte))
    BY <1>1, <2>1 DEF IsLayout
  <2> QED BY <2>2 DEF Init
<1>4. buffer \in Seq(Byte) /\ Len(buffer) = 0 /\ typeTags \in Seq(TypeTagValues)
  BY EmptySeq DEF Init
<1>5. TypeOK
  <2>1. messageCursor = 0 /\ elementSizePtr = NoElement /\ messageIsInProgress = FALSE
    BY DEF Init
  <2>2. messageCursor \in 0..Len(buffer)
    BY <1>4, <2>1
  <2>3. messageIsInProgress \in BOOLEAN
    BY <2>1
  <2>4. elementSizePtr \in {NoElement} \cup 0..messageCursor
    BY <2>1
  <2>5. Len(open) >= 1
    BY <1>3
  <2> QED BY <1>4, <2>2, <2>3, <2>4, <2>5 DEF TypeOK
<1>6. Size <= Capacity
  BY <1>4, CapacityAssumption DEF Size, Init
<1> QED BY <1>2, <1>3, <1>5, <1>6 DEF IInv, Init

(* What BeginElement does.                                                 *)
LEMMA BeginElementStep ==
  ASSUME IInv, NEW content \in Seq(Byte), content # << >>, BeginElement(content)
  PROVE  /\ \E starts : IsLayout(buffer', messageCursor', elementSizePtr', starts,
                                 Append(Contents, content))
         /\ messageCursor' = Len(buffer')
         /\ Len(buffer') = messageCursor + SlotSize + Len(content)
<1>1. PICK starts : IsLayout(buffer, messageCursor, elementSizePtr, starts, Contents)
  BY Laid
<1>2. /\ Begun(buffer, messageCursor, elementSizePtr, content, buffer', elementSizePtr')
      /\ messageCursor' = Len(buffer')
  BY DEF BeginElement, Begun, IsBundleInProgress
<1>3. /\ \E s : IsLayout(buffer', Len(buffer'), elementSizePtr', s, Append(Contents, content))
      /\ Len(buffer') = messageCursor + (IF elementSizePtr # NoElement THEN 4 ELSE 0) + Len(content)
  BY <1>1, <1>2, LayoutBegin
<1> QED BY <1>2, <1>3 DEF SlotSize, IsBundleInProgress

LEMMA BundleHeaderType ==
  BundleHeader \in Seq(Byte) /\ Len(BundleHeader) = 16 /\ BundleHeader # << >>
<1> DEFINE n == 16
<1>1. n \in Nat /\ n # 0 /\ "bundle" \in What /\ BundleHeader = Bytes("bundle", n)
  BY DEF What, BundleHeader
<1> HIDE DEF n
<1>2. BundleHeader \in Seq(Byte) /\ Len(BundleHeader) = n
  BY <1>1, BytesType
<1>3. BundleHeader # << >>
  BY <1>1, <1>2, EmptySeq
<1> QED BY <1>2, <1>3 DEF n

LEMMA ClearKeeps ==
  ASSUME IInv, Clear
  PROVE  IInv'
<1>1. IsLayout(buffer', messageCursor', elementSizePtr', << 0 >>, Contents')
  BY EmptyLayout DEF Clear, Contents
<1>2. open' \in Seq(Seq(Byte)) /\ Len(open') >= 1
  <2>1. Contents' = open'
    BY DEF Clear, Contents
  <2> QED BY <1>1, <2>1 DEF IsLayout
<1>3. typeTags' \in Seq(TypeTagValues) /\ messageIsInProgress' = FALSE /\ message' = NoMessage
  BY EmptySeq DEF Clear
<1>4. Size' <= Capacity
  <2>1. buffer' = << >> /\ Len(buffer') = 0
    BY EmptySeq DEF Clear
  <2> QED BY <1>3, <2>1, CapacityAssumption DEF Size
<1> QED BY <1>1, <1>2, <1>3, <1>4, NextLaid

LEMMA BeginBundleKeeps ==
  ASSUME IInv, BeginBundle
  PROVE  IInv'
<1>1. /\ \E starts : IsLayout(buffer', messageCursor', elementSizePtr', starts,
                              Append(Contents, BundleHeader))
      /\ Len(buffer') = messageCursor + SlotSize + Len(BundleHeader)
  BY BundleHeaderType, BeginElementStep DEF BeginBundle
<1>2. /\ ~messageIsInProgress /\ messageIsInProgress' = messageIsInProgress
      /\ message' = message /\ typeTags' = typeTags
      /\ open' = Append(open, BundleHeader)
      /\ Size + SlotSize + 16 <= Capacity
  BY DEF BeginBundle, CheckForAvailableBundleSpace
<1>3. Contents' = Append(Contents, BundleHeader)
  BY <1>2 DEF Contents
<1>4. open \in Seq(Seq(Byte)) /\ Len(open) \in Nat
  BY LenProperties DEF IInv
<1>5. open' \in Seq(Seq(Byte)) /\ Len(open') >= 1
  <2>1. Append(open, BundleHeader) \in Seq(Seq(Byte)) /\ Len(Append(open, BundleHeader)) = Len(open) + 1
    BY <1>4, BundleHeaderType, AppendProperties
  <2> QED BY <1>2, <1>4, <2>1
<1>6. Size' <= Capacity
  <2>1. Size' = Len(buffer') /\ Size = Len(buffer)
    BY <1>2 DEF Size, IInv, TypeOK
  <2>2. messageCursor \in Nat /\ Len(buffer) \in Nat /\ messageCursor <= Len(buffer) /\ SlotSize \in Nat
    BY LenProperties DEF IInv, TypeOK, SlotSize
  <2> QED BY <1>1, <1>2, <2>1, <2>2, BundleHeaderType, CapacityAssumption
<1>7. typeTags' \in Seq(TypeTagValues) /\ messageIsInProgress' = FALSE /\ message' = NoMessage
  BY <1>2 DEF IInv, TypeOK
<1>8. \E starts : IsLayout(buffer', messageCursor', elementSizePtr', starts, Contents')
  BY <1>1, <1>3
<1> QED BY <1>5, <1>6, <1>7, <1>8, NextLaid

LEMMA BeginMessageKeeps ==
  ASSUME IInv, NEW n \in Addresses, BeginMessage(n)
  PROVE  IInv'
<1>1. n \in Nat
  BY AddressesAssumption
<1>2. AddressPart(n) \in Seq(Byte) /\ Len(AddressPart(n)) = RoundUp4(n + 1) /\ AddressPart(n) # << >>
  BY <1>1, AddressPartType
<1>3. /\ \E starts : IsLayout(buffer', messageCursor', elementSizePtr', starts,
                              Append(Contents, AddressPart(n)))
      /\ messageCursor' = Len(buffer')
      /\ Len(buffer') = messageCursor + SlotSize + Len(AddressPart(n))
  BY <1>2, BeginElementStep DEF BeginMessage
<1>4. /\ ~messageIsInProgress /\ messageIsInProgress' = TRUE
      /\ typeTags' = << >> /\ open' = open
      /\ message' = [address |-> n, arguments |-> << >>]
      /\ Size + SlotSize + RoundUp4(n + 1) + 4 <= Capacity
  BY DEF BeginMessage, CheckForAvailableMessageSpace
<1>5. message'.address = n /\ message'.arguments = << >>
  BY <1>4
<1>6. Contents' = Append(Contents, AddressPart(n))
  BY <1>4, <1>5 DEF Contents
<1>7. Size' <= Capacity
  <2>1. Size' = Len(buffer') + 4 /\ Size = Len(buffer)
    <3>1. Len(typeTags') = 0
      BY <1>4, EmptySeq
    <3>2. RoundUp4(Len(typeTags') + 2) = 4
      BY <3>1 DEF RoundUp4
    <3> QED BY <1>4, <3>2 DEF Size, IInv, TypeOK
  <2>2. messageCursor \in Nat /\ Len(buffer) \in Nat /\ messageCursor <= Len(buffer) /\ SlotSize \in Nat
    BY LenProperties DEF IInv, TypeOK, SlotSize
  <2>3. RoundUp4(n + 1) \in Nat
    BY <1>1, RoundUp4Bounds
  <2> QED BY <1>2, <1>3, <1>4, <2>1, <2>2, <2>3, CapacityAssumption
<1>8. MessageSoFar'
  <2>1. message' \in [address : Nat, arguments : Seq(Arguments)]
    <3>1. << >> \in Seq(Arguments)
      BY EmptySeq
    <3> QED BY <1>1, <1>4, <3>1
  <2>2. typeTags' = Tags(message'.arguments)
    BY <1>4, <1>5, NoArguments
  <2>3. buffer' = SubSeq(buffer', 1, messageCursor') \o ArgumentPart(message'.arguments)
    <3>1. PICK starts : IsLayout(buffer', messageCursor', elementSizePtr', starts,
                                 Append(Contents, AddressPart(n)))
      BY <1>3
    <3>2. buffer' \in Seq(Byte)
      BY <3>1 DEF IsLayout
    <3>3. SubSeq(buffer', 1, messageCursor') = buffer'
      BY <1>3, <3>2, SubSeqFull
    <3>4. buffer' \o << >> = buffer'
      BY <3>2, ConcatEmptySeq, Zenon
    <3> QED BY <1>5, <3>3, <3>4, NoArguments
  <2> QED BY <2>1, <2>2, <2>3 DEF MessageSoFar
<1>9. typeTags' \in Seq(TypeTagValues) /\ open' \in Seq(Seq(Byte)) /\ Len(open') >= 1
  BY <1>4, EmptySeq DEF IInv, TypeOK
<1>10. \E starts : IsLayout(buffer', messageCursor', elementSizePtr', starts, Contents')
  BY <1>3, <1>6
<1> QED BY <1>4, <1>7, <1>8, <1>9, <1>10, NextLaid

LEMMA PutKeeps ==
  ASSUME IInv, NEW argument \in Arguments, Put(argument)
  PROVE  IInv'
<1> DEFINE bytes == argument.bytes
           before == SubSeq(buffer, 1, messageCursor)
<1>1. argument.tag \in TypeTagValues /\ bytes \in Seq(Byte) /\ argument.room \in Nat
      /\ Len(bytes) <= argument.room /\ Len(bytes) \in Nat
  <2>1. Fits(argument)
    BY ArgumentType
  <2> QED BY <2>1, LenProperties DEF Fits
<1>2. /\ Len(buffer) + argument.room + RoundUp4(Len(typeTags) + 3) <= Capacity
      /\ typeTags' = Append(typeTags, argument.tag)
      /\ buffer' = buffer \o bytes
      /\ message' = IF messageIsInProgress
                    THEN [message EXCEPT !.arguments = Append(@, argument)]
                    ELSE message
      /\ messageCursor' = messageCursor /\ elementSizePtr' = elementSizePtr
      /\ messageIsInProgress' = messageIsInProgress /\ open' = open
  BY DEF Put, CheckForAvailableArgumentSpace
<1>3. /\ buffer \in Seq(Byte) /\ typeTags \in Seq(TypeTagValues)
      /\ messageCursor \in 0..Len(buffer) /\ messageIsInProgress \in BOOLEAN
      /\ Len(buffer) \in Nat /\ Len(typeTags) \in Nat
      /\ open \in Seq(Seq(Byte)) /\ Len(open) >= 1
  BY LenProperties DEF IInv, TypeOK
<1> HIDE DEF bytes
<1>4. /\ buffer' \in Seq(Byte) /\ Len(buffer') = Len(buffer) + Len(bytes)
      /\ \A k \in 1..Len(buffer) : buffer'[k] = buffer[k]
  <2>1. /\ buffer \o bytes \in Seq(Byte) /\ Len(buffer \o bytes) = Len(buffer) + Len(bytes)
        /\ \A k \in 1..Len(buffer) : (buffer \o bytes)[k] = buffer[k]
    BY <1>1, <1>3, ConcatType
  <2> QED BY <1>2, <2>1
<1>5. typeTags' \in Seq(TypeTagValues) /\ Len(typeTags') = Len(typeTags) + 1
  <2>1. /\ Append(typeTags, argument.tag) \in Seq(TypeTagValues)
        /\ Len(Append(typeTags, argument.tag)) = Len(typeTags) + 1
    BY <1>1, <1>3, AppendProperties
  <2> QED BY <1>2, <2>1
<1>6. ASSUME messageIsInProgress
      PROVE  /\ message'.address = message.address
             /\ message.arguments \in Seq(Arguments)
             /\ message'.arguments = Append(message.arguments, argument)
             /\ message' \in [address : Nat, arguments : Seq(Arguments)]
             /\ typeTags = Tags(message.arguments)
             /\ buffer = before \o ArgumentPart(message.arguments)
  <2>1. /\ message \in [address : Nat, arguments : Seq(Arguments)]
        /\ typeTags = Tags(message.arguments)
        /\ buffer = before \o ArgumentPart(message.arguments)
    BY <1>6 DEF IInv, MessageSoFar
  <2>2. message.arguments \in Seq(Arguments)
    BY <2>1
  <2>3. Append(message.arguments, argument) \in Seq(Arguments)
    BY <2>2, AppendProperties
  <2>4. message' = [message EXCEPT !.arguments = Append(message.arguments, argument)]
    BY <1>2, <1>6
  <2> QED BY <2>1, <2>2, <2>3, <2>4
<1>7. Size' <= Capacity
  <2> DEFINE rounded == RoundUp4(Len(typeTags) + 3)
  <2>1. rounded \in Nat
    <3>1. Len(typeTags) + 3 \in Nat
      BY <1>3
    <3> QED BY <3>1, RoundUp4Bounds
  <2>2. Size' = Len(buffer') + IF messageIsInProgress THEN rounded ELSE 0
    <3>1. Len(typeTags') + 2 = Len(typeTags) + 3
      BY <1>3, <1>5
    <3> QED BY <1>2, <3>1 DEF Size
  <2>3. Len(buffer) + argument.room + rounded <= Capacity
    BY <1>2
  <2> HIDE DEF rounded
  <2>4. Len(buffer') <= Len(buffer) + argument.room /\ Len(buffer') \in Nat
    BY <1>1, <1>3, <1>4
  <2>5. Len(buffer) \in Nat /\ argument.room \in Nat /\ Capacity \in Nat
    BY <1>1, <1>3, CapacityAssumption
  <2>6. Size' = Len(buffer') + rounded \/ Size' = Len(buffer') + 0
    BY <2>2
  <2> QED BY ONLY <2>1, <2>3, <2>4, <2>5, <2>6
<1>8. IF messageIsInProgress' THEN MessageSoFar' ELSE message' = NoMessage
  <2>1. CASE ~messageIsInProgress
    BY <1>2, <2>1 DEF IInv
  <2>2. CASE messageIsInProgress
    <3> DEFINE part == ArgumentPart(message.arguments)
    <3>1. typeTags' = Tags(message'.arguments)
      BY <1>2, <1>6, <2>2, TagsAppend
    <3>2. ArgumentPart(message'.arguments) = part \o bytes
      <4>1. ArgumentPart(Append(message.arguments, argument)) = part \o argument.bytes
        BY <1>6, <2>2, ArgumentPartAppend
      <4> QED BY <1>6, <2>2, <4>1 DEF bytes
    <3>3. before \in Seq(Byte) /\ part \in Seq(Byte)
      <4>1. message.arguments \in Seq(Arguments)
        BY <1>6, <2>2
      <4> QED BY <1>3, <4>1, PrefixType, ArgumentPartType
    <3>4. SubSeq(buffer', 1, messageCursor') = before
      <4>1. SubSeq(buffer \o bytes, 1, messageCursor) = SubSeq(buffer, 1, messageCursor)
        BY <1>1, <1>3, PrefixOfConcat
      <4> QED BY <1>2, <4>1
    <3>5. buffer = before \o part
      BY <1>6, <2>2
    <3> HIDE DEF before, part
    <3>6. (before \o part) \o bytes = before \o (part \o bytes)
      <4>1. Associates(before, part, bytes)
        BY <1>1, <3>3, ConcatAssociates
      <4> QED BY <4>1 DEF Associates
    <3>7. buffer' = SubSeq(buffer', 1, messageCursor') \o ArgumentPart(message'.arguments)
      <4>1. buffer' = (before \o part) \o bytes
        BY <1>2, <3>5
      <4> QED BY <3>2, <3>4, <3>6, <4>1
    <3>8. MessageSoFar'
      BY <1>6, <2>2, <3>1, <3>7 DEF MessageSoFar
    <3> QED BY <1>2, <2>2, <3>8
  <2> QED BY <2>1, <2>2
<1>9. \E starts : IsLayout(buffer', messageCursor', elementSizePtr', starts, Contents')
  <2>1. PICK starts : IsLayout(buffer, messageCursor, elementSizePtr, starts, Contents)
    BY Laid
  <2>2. messageCursor <= Len(buffer') /\ \A k \in 1..messageCursor : buffer'[k] = buffer[k]
    <3>1. \A k \in 1..messageCursor : k \in 1..Len(buffer)
      BY <1>3
    <3>2. messageCursor <= Len(buffer')
      BY <1>1, <1>3, <1>4
    <3> QED BY <1>4, <3>1, <3>2
  <2>3. IsLayout(buffer', messageCursor, elementSizePtr, starts, Contents)
    BY <1>4, <2>1, <2>2, LayoutPrefix
  <2>4. Contents' = Contents
    <3>1. CASE messageIsInProgress
      BY <1>2, <1>6, <3>1 DEF Contents
    <3>2. CASE ~messageIsInProgress
      BY <1>2, <3>2 DEF Contents
    <3> QED BY <3>1, <3>2
  <2> QED BY <1>2, <2>3, <2>4
<1>10. messageIsInProgress' \in BOOLEAN /\ open' \in Seq(Seq(Byte)) /\ Len(open') >= 1
  BY <1>2, <1>3
<1> QED BY <1>5, <1>7, <1>8, <1>9, <1>10, NextLaid

LEMMA EndBundleKeeps ==
  ASSUME IInv, EndBundle
  PROVE  IInv' /\ Size' = Size
<1>1. /\ elementSizePtr # NoElement /\ ~messageIsInProgress
      /\ messageIsInProgress' = messageIsInProgress /\ message' = message
      /\ typeTags' = typeTags /\ messageCursor' = messageCursor
      /\ open' = WithElement(Front(open), Last(open))
      /\ EndElement(buffer, messageCursor)
  BY DEF EndBundle, IsBundleInProgress
<1>2. Ended(buffer, messageCursor, elementSizePtr, buffer', elementSizePtr')
  <2>1. CASE elementSizePtr = 0
    BY <1>1, <2>1 DEF EndElement, Ended
  <2>2. CASE elementSizePtr # 0
    BY <1>1, <2>2 DEF EndElement, Ended, SlotAt
  <2> QED BY <2>1, <2>2
<1>3. PICK starts : IsLayout(buffer, messageCursor, elementSizePtr, starts, open)
  BY <1>1, Laid DEF Contents
<1>4. open \in Seq(Seq(Byte)) /\ Len(open) \in Nat /\ Len(open) >= 2
  <2>1. open \in Seq(Seq(Byte)) /\ Len(open) \in Nat /\ Len(open) >= 1
    BY LenProperties DEF IInv, TypeOK
  <2>2. Len(open) > 1
    <3>1. elementSizePtr # NoElement
      BY <1>1
    <3> QED BY <1>3, <3>1, LayoutDepth
  <2> QED BY <2>1, <2>2
<1> DEFINE outer == Front(open)
           element == Last(open)
<1>5. /\ outer \in Seq(Seq(Byte)) /\ Len(outer) >= 1 /\ element \in Seq(Byte)
      /\ Append(outer, element) = open
  <2>1. /\ outer \in Seq(Seq(Byte)) /\ Len(outer) = Len(open) - 1 /\ element \in Seq(Byte)
        /\ Append(outer, element) = open
    <3>1. open \in Seq(Seq(Byte)) /\ Len(open) >= 1
      BY <1>4
    <3> HIDE DEF outer, element
    <3>2. /\ Front(open) \in Seq(Seq(Byte)) /\ Len(Front(open)) = Len(open) - 1
          /\ Last(open) \in Seq(Byte) /\ Append(Front(open), Last(open)) = open
      BY <3>1, FrontLast
    <3> QED BY <3>2 DEF outer, element
  <2> QED BY <1>4, <2>1
<1> HIDE DEF outer, element
<1>6. IsLayout(buffer, messageCursor, elementSizePtr, starts, Append(outer, element))
  BY <1>3, <1>5
<1>7. /\ \E s : IsLayout(buffer', messageCursor, elementSizePtr', s, WithElement(outer, element))
      /\ Len(buffer') = Len(buffer)
  BY <1>2, <1>5, <1>6, LayoutEnd
<1>8. open' = WithElement(outer, element) /\ Contents' = open'
  BY <1>1 DEF outer, element, Contents
<1>9. \E s : IsLayout(buffer', messageCursor', elementSizePtr', s, Contents')
  BY <1>1, <1>7, <1>8
<1>10. open' \in Seq(Seq(Byte)) /\ Len(open') >= 1
  BY <1>8, <1>9 DEF IsLayout
<1>11. Size' = Size /\ Size <= Capacity
  BY <1>1, <1>7 DEF Size, IInv
<1>12. typeTags' \in Seq(TypeTagValues) /\ messageIsInProgress' = FALSE /\ message' = NoMessage
  BY <1>1 DEF IInv, TypeOK
<1>13. IInv'
  BY <1>9, <1>10, <1>11, <1>12, NextLaid
<1> QED BY <1>11, <1>13

LEMMA EndMessageKeeps ==
  ASSUME IInv, EndMessage
  PROVE  IInv' /\ Size' = Size
<1> DEFINE count == Len(typeTags)
           slotSize == RoundUp4(count + 2)
           before == SubSeq(buffer, 1, messageCursor)
           chars == Chars(<< "," >> \o typeTags)
           zeros == Zeros(slotSize - (count + 1))
           address == AddressPart(message.address)
           tagPart == TypeTagPart(message.arguments)
           part == ArgumentPart(message.arguments)
           inserted == tagPart \o part
           whole == address \o inserted
           moved == before \o inserted
(* The message in progress.                                                *)
<1>1. /\ messageIsInProgress
      /\ message \in [address : Nat, arguments : Seq(Arguments)]
      /\ typeTags = Tags(message.arguments)
      /\ buffer = before \o part
      /\ open \in Seq(Seq(Byte)) /\ Len(open) >= 1
      /\ buffer \in Seq(Byte) /\ messageCursor \in 0..Len(buffer)
  BY DEF EndMessage, IInv, MessageSoFar, TypeOK
<1>2. message.address \in Nat /\ message.arguments \in Seq(Arguments)
  BY <1>1
<1>3. count = Len(message.arguments) /\ count \in Nat
  BY <1>1, <1>2, TagsType, LenProperties
<1>4. address \in Seq(Byte) /\ part \in Seq(Byte)
  BY <1>2, AddressPartType, ArgumentPartType
<1>5. tagPart = chars \o zeros /\ tagPart \in Seq(Byte) /\ Len(tagPart) = slotSize
  BY <1>1, <1>2, <1>3, TypeTagPartType
<1>6. before \in Seq(Byte) /\ Len(before) = messageCursor /\ \A k \in 1..messageCursor : before[k] = buffer[k]
  BY <1>1, PrefixType
<1>7. chars \in Seq(Byte) /\ zeros \in Seq(Byte)
  <2>1. typeTags \in Seq(TypeTagValues)
    BY DEF IInv, TypeOK
  <2>2. slotSize - (count + 1) \in Nat
    <3>1. count + 2 \in Nat
      BY <1>3
    <3>2. slotSize \in Nat /\ count + 2 <= slotSize
      BY <3>1, RoundUp4Bounds
    <3> HIDE DEF slotSize, count
    <3> QED BY <1>3, <3>2
  <2>3. zeros \in Seq(Byte)
    BY <2>2, ZerosType
  <2>4. chars \in Seq(Byte)
    BY <2>1, CharsOfMessage
  <2> QED BY <2>3, <2>4
(* What EndMessage makes of it.                                            *)
<1>8. (IF count = 0 THEN 4 ELSE RoundUp4(count + 2)) = slotSize
  <2>1. count = 0 => slotSize = 4
    BY DEF RoundUp4
  <2> QED BY <2>1
<1>9. SubSeq(buffer, messageCursor + 1, Len(buffer)) = part
  <2>1. SubSeq(before \o part, Len(before) + 1, Len(before \o part)) = part
    BY <1>4, <1>6, SuffixOfConcat
  <2> HIDE DEF before, part
  <2> QED BY <1>1, <1>6, <2>1
<1>10. before \o chars \o zeros \o part = moved
  <2> HIDE DEF before, chars, zeros, part, tagPart
  <2>1. /\ before \in Seq(Byte) /\ chars \in Seq(Byte) /\ zeros \in Seq(Byte)
        /\ part \in Seq(Byte) /\ tagPart \in Seq(Byte)
    BY <1>4, <1>5, <1>6, <1>7
  <2>2. (before \o chars) \o zeros = before \o tagPart
    <3>1. Associates(before, chars, zeros)
      BY <2>1, ConcatAssociates
    <3> QED BY <1>5, <3>1 DEF Associates
  <2>3. (before \o tagPart) \o part = before \o (tagPart \o part)
    <3>1. Associates(before, tagPart, part)
      BY <2>1, ConcatAssociates
    <3> QED BY <3>1 DEF Associates
  <2> QED BY <2>2, <2>3
<1>11. inserted \in Seq(Byte) /\ Len(inserted) = slotSize + Len(part)
  <2>1. inserted \in Seq(Byte) /\ Len(inserted) = Len(tagPart) + Len(part)
    <3> HIDE DEF tagPart, part
    <3> QED BY <1>4, <1>5, ConcatType
  <2> QED BY <1>5, <2>1
<1>12. /\ messageCursor' = messageCursor + slotSize + Len(part)
       /\ EndElement(moved, messageCursor')
       /\ typeTags' = << >> /\ messageIsInProgress' = FALSE /\ message' = NoMessage
       /\ open' = WithElement(open, address \o tagPart \o part)
  <2> HIDE DEF before, chars, zeros, part, moved, slotSize, address, tagPart
  <2> USE DEF count
  <2> QED BY <1>8, <1>9, <1>10 DEF EndMessage, before, chars, zeros, part, address, tagPart
<1>13. address \o tagPart \o part = whole
  <2>1. address \in Seq(Byte) /\ tagPart \in Seq(Byte) /\ part \in Seq(Byte)
    BY <1>4, <1>5
  <2> HIDE DEF address, tagPart, part
  <2>2. (address \o tagPart) \o part = address \o (tagPart \o part)
    <3>1. Associates(address, tagPart, part)
      BY <2>1, ConcatAssociates
    <3> QED BY <3>1 DEF Associates
  <2> QED BY <2>2
<1> HIDE DEF part, tagPart, address, slotSize, count, chars, zeros, inserted
(* The layout of the message and its end.                                  *)
<1>14. whole \in Seq(Byte)
  BY <1>4, <1>11, ConcatType
<1>15. PICK starts : IsLayout(buffer, messageCursor, elementSizePtr, starts, Append(open, address))
  BY <1>1, Laid DEF Contents, address
<1>16. /\ IsLayout(moved, Len(moved), elementSizePtr, starts, Append(open, whole))
       /\ Len(moved) = messageCursor + Len(inserted)
  <2>1. address \in Seq(Byte)
    BY <1>4
  <2>2. inserted \in Seq(Byte)
    BY <1>11
  <2>3. open \in Seq(Seq(Byte))
    BY DEF IInv
  <2>4. Extended(buffer, messageCursor, inserted, moved)
    BY DEF Extended
  <2> DEFINE contents == Append(open, address)
             contents2 == Append(open, whole)
  <2> HIDE DEF before, moved
  <2>5. Grown(contents, inserted, contents2)
    <3>1. whole = address \o inserted
      OBVIOUS
    <3> HIDE DEF whole
    <3>2. /\ Len(contents) = Len(open) + 1 /\ contents[Len(open) + 1] = address
          /\ \A i \in 1..Len(open) : contents[i] = open[i]
      BY <2>1, <2>3, AppendProperties
    <3>3. /\ contents2 \in Seq(Seq(Byte))
          /\ Len(contents2) = Len(open) + 1 /\ contents2[Len(open) + 1] = whole
          /\ \A i \in 1..Len(open) : contents2[i] = open[i]
      BY <1>14, <2>3, AppendProperties
    <3>4. Len(open) \in Nat
      BY <2>3, LenProperties
    <3> HIDE DEF contents, contents2
    <3>5. \A i \in 1..(Len(open) + 1) : i # Len(open) + 1 => i \in 1..Len(open)
      BY <3>4
    <3> QED BY <3>1, <3>2, <3>3, <3>5 DEF Grown
  <2> HIDE DEF contents, contents2
  <2>6. IsLayout(buffer, messageCursor, elementSizePtr, starts, contents)
    BY <1>15 DEF contents
  <2>7. /\ IsLayout(moved, Len(moved), elementSizePtr, starts, contents2)
        /\ Len(moved) = messageCursor + Len(inserted)
    BY <2>2, <2>4, <2>5, <2>6, LayoutExtend
  <2> QED BY <2>7 DEF contents2
<1>17. Len(moved) = messageCursor' /\ Len(part) \in Nat /\ slotSize \in Nat
  <2>1. Len(part) \in Nat /\ Len(tagPart) \in Nat
    BY <1>4, <1>5, LenProperties
  <2> HIDE DEF moved
  <2> QED BY <1>1, <1>5, <1>11, <1>12, <1>16, <2>1
<1>18. \A k \in 1..messageCursor : moved[k] = buffer[k]
  <2>1. \A k \in 1..Len(before) : (before \o inserted)[k] = before[k]
    <3> HIDE DEF before
    <3> QED BY <1>6, <1>11, ConcatType
  <2> QED BY <1>6, <2>1
<1> HIDE DEF moved, whole, before
<1>19. Ended(moved, messageCursor', elementSizePtr, buffer', elementSizePtr')
  <2>1. CASE elementSizePtr = 0
    BY <1>12, <2>1 DEF EndElement, Ended
  <2>2. CASE elementSizePtr # 0
    <3>1. elementSizePtr # NoElement
      <4>1. Len(Append(open, address)) # 1
        <5>1. address \in Seq(Byte)
          BY <1>4
        <5>2. open \in Seq(Seq(Byte)) /\ Len(open) >= 1
          BY <1>1, Zenon
        <5>3. Len(Append(open, address)) = Len(open) + 1 /\ Len(open) \in Nat
          BY <5>1, <5>2, AppendProperties, LenProperties
        <5> QED BY <5>2, <5>3
      <4> QED BY <1>15, <4>1, LayoutDepth
    <3>2. elementSizePtr + 1 \in 1..messageCursor
      BY <1>15, <2>2, <3>1, LayoutSlot
    <3>3. moved[elementSizePtr + 1] = buffer[elementSizePtr + 1]
      BY <1>18, <3>2
    <3> QED BY <1>12, <2>2, <3>3 DEF EndElement, Ended, SlotAt
  <2> QED BY <2>1, <2>2
<1>20. /\ \E s : IsLayout(buffer', messageCursor', elementSizePtr', s, WithElement(open, whole))
       /\ Len(buffer') = Len(moved)
  <2>1. IsLayout(moved, messageCursor', elementSizePtr, starts, Append(open, whole))
    BY <1>16, <1>17
  <2> QED BY <1>1, <1>14, <1>19, <2>1, LayoutEnd
<1>21. open' = WithElement(open, whole) /\ Contents' = open'
  BY <1>12, <1>13 DEF Contents
<1>22. \E s : IsLayout(buffer', messageCursor', elementSizePtr', s, Contents')
  BY <1>20, <1>21
<1>23. open' \in Seq(Seq(Byte)) /\ Len(open') >= 1
  BY <1>21, <1>22 DEF IsLayout
<1>24. Size' = Size /\ Size <= Capacity
  <2>1. Size' = messageCursor + slotSize + Len(part)
    BY <1>12, <1>17, <1>20 DEF Size
  <2>2. Size = Len(buffer) + slotSize
    BY <1>1 DEF Size, slotSize, count
  <2>3. Len(before \o part) = Len(before) + Len(part)
    BY <1>4, <1>6, ConcatType
  <2>4. Len(buffer) = messageCursor + Len(part)
    BY <1>1, <1>6, <2>3
  <2> QED BY <1>1, <1>17, <2>1, <2>2, <2>4 DEF IInv
<1>25. typeTags' \in Seq(TypeTagValues)
  BY <1>12, EmptySeq
<1>26. IInv'
  BY <1>12, <1>22, <1>23, <1>24, <1>25, NextLaid
<1> QED BY <1>24, <1>26

-----------------------------------------------------------------------------
(* The theorems.                                                           *)

LEMMA Unchanged == ASSUME IInv, UNCHANGED vars PROVE IInv'
<1>1. /\ buffer' = buffer /\ typeTags' = typeTags /\ messageCursor' = messageCursor
      /\ elementSizePtr' = elementSizePtr /\ messageIsInProgress' = messageIsInProgress
      /\ open' = open /\ message' = message
  BY DEF vars
<1>2. TypeOK' /\ Size' = Size /\ MessageSoFar' = MessageSoFar /\ Contents' = Contents
  BY <1>1 DEF IInv, TypeOK, Size, MessageSoFar, Contents
<1> QED BY <1>1, <1>2 DEF IInv

LEMMA Invariance == Spec => []IInv
<1>1. Init => IInv
  BY InitIsGood
<1>2. IInv /\ [Next]_vars => IInv'
  <2> SUFFICES ASSUME IInv, [Next]_vars PROVE IInv'
    OBVIOUS
  <2>1. CASE Clear
    BY <2>1, ClearKeeps
  <2>2. CASE BeginBundle
    BY <2>2, BeginBundleKeeps
  <2>3. CASE EndBundle
    BY <2>3, EndBundleKeeps
  <2>4. ASSUME NEW n \in Addresses, BeginMessage(n) PROVE IInv'
    BY <2>4, BeginMessageKeeps
  <2>5. CASE EndMessage
    BY <2>5, EndMessageKeeps
  <2>6. ASSUME NEW argument \in Arguments, Put(argument) PROVE IInv'
    BY <2>6, PutKeeps
  <2>7. CASE UNCHANGED vars
    BY <2>7, Unchanged
  <2> QED BY <2>1, <2>2, <2>3, <2>4, <2>5, <2>6, <2>7 DEF Next
<1> QED BY <1>1, <1>2, PTL DEF Spec

(* The cursor stays in the buffer, a size slot lies before the cursor, and *)
(* there is always a level to put the next element in.                     *)
THEOREM TypeCorrect == Spec => []TypeOK
<1>1. IInv => TypeOK
  BY DEF IInv
<1> QED BY <1>1, Invariance, PTL

(* The packet so far fits in the buffer, and arguments and type tags,      *)
(* which grow towards each other, never meet.                              *)
THEOREM NeverOverruns == Spec => []FitsInBuffer
<1>1. IInv => FitsInBuffer
  <2> SUFFICES ASSUME IInv PROVE FitsInBuffer
    OBVIOUS
  <2>1. Size <= Capacity
    BY DEF IInv
  <2>2. Len(typeTags) \in Nat /\ Len(buffer) \in Nat
    BY LenProperties DEF IInv, TypeOK
  <2>3. messageIsInProgress => Len(buffer) <= Capacity - Len(typeTags)
    <3>1. Len(typeTags) + 2 \in Nat
      BY <2>2
    <3>2. RoundUp4(Len(typeTags) + 2) \in Nat /\ Len(typeTags) + 2 <= RoundUp4(Len(typeTags) + 2)
      BY <3>1, RoundUp4Bounds
    <3>3. messageIsInProgress => Len(buffer) + RoundUp4(Len(typeTags) + 2) <= Capacity
      BY <2>1 DEF Size
    <3> QED BY <2>2, <3>2, <3>3, CapacityAssumption
  <2> QED BY <2>1, <2>3 DEF FitsInBuffer
<1> QED BY <1>1, Invariance, PTL

LEMMA ReadyIsEncoding == IInv => PacketIsEncoding
<1> SUFFICES ASSUME IInv PROVE PacketIsEncoding
  OBVIOUS
<1>1. PICK starts : IsLayout(buffer, messageCursor, elementSizePtr, starts, Contents)
  BY Laid
<1>2. messageIsInProgress \in BOOLEAN /\ buffer \in Seq(Byte) /\ open \in Seq(Seq(Byte))
  BY DEF IInv, TypeOK
<1>3. IF elementSizePtr = NoElement THEN Len(Contents) = 1 ELSE Len(Contents) > 1
  BY <1>1, LayoutDepth
<1>4. ASSUME messageIsInProgress PROVE message # NoMessage
  <2>1. message \in [address : Nat, arguments : Seq(Arguments)]
    BY <1>4 DEF IInv, MessageSoFar
  <2>2. "address" \in DOMAIN message
    BY <2>1
  <2>3. DOMAIN NoMessage = 1..0
    BY EmptySeq, LenProperties DEF NoMessage
  <2>4. DOMAIN NoMessage = {}
    BY <2>3
  <2> QED BY <2>2, <2>4
<1>5. ~messageIsInProgress => message = NoMessage /\ Contents = open
  BY DEF IInv, Contents
<1>6. IsReady <=> Len(open) = 1 /\ message = NoMessage
  <2>1. CASE messageIsInProgress
    BY <1>4, <2>1 DEF IsReady
  <2>2. CASE ~messageIsInProgress
    <3>1. CASE elementSizePtr = NoElement
      BY <1>3, <1>5, <2>2, <3>1 DEF IsReady, IsBundleInProgress
    <3>2. CASE elementSizePtr # NoElement
      <4>1. Len(open) > 1
        BY <1>3, <1>5, <2>2, <3>2
      <4>2. Len(open) # 1
        BY <4>1
      <4> QED BY <3>2, <4>2 DEF IsReady, IsBundleInProgress
    <3> QED BY <3>1, <3>2
  <2> QED BY <2>1, <2>2
<1>7. ASSUME IsReady, ~Stray PROVE buffer = open[1]
  <2>1. ~messageIsInProgress /\ Len(open) = 1 /\ Contents = open
    BY <1>5, <1>6, <1>7 DEF IsReady
  <2>2. /\ starts[1] = 0 /\ messageCursor = starts[1] + Len(open[1])
        /\ LevelAt(buffer, starts, open, 1)
    BY <1>1, <2>1 DEF IsLayout, Layout
  <2>3. open[1] \in Seq(Byte) /\ Len(open[1]) \in Nat
    <3>1. open[1] \in Seq(Byte)
      <4>1. 1 \in 1..Len(open)
        BY <2>1
      <4> QED BY <1>2, <4>1, ElementOfSeq
    <3> QED BY <3>1, LenProperties
  <2>4. Len(buffer) = Len(open[1])
    <3>1. messageCursor \in 0..Len(buffer) /\ Len(buffer) \in Nat
      BY <1>2, LenProperties DEF IInv, TypeOK
    <3>2. ~(Len(buffer) > messageCursor)
      BY <1>7, <2>1 DEF Stray
    <3> QED BY <2>2, <2>3, <3>1, <3>2
  <2>5. \A k \in 1..Len(open[1]) : buffer[k] = open[1][k]
    <3>1. \A k \in 1..Len(open[1]) : starts[1] + k = k
      BY <2>2, <2>3
    <3> QED BY <2>2, <3>1 DEF LevelAt
  <2> QED BY <1>2, <2>3, <2>4, <2>5, SameSequence
<1> QED BY <1>6, <1>7 DEF PacketIsEncoding

(* Whenever IsReady says that everything is closed, the buffer holds the   *)
(* encoding of what was put in it, with the right size in every slot, at   *)
(* whatever depth and in whatever order bundles and messages were built.   *)
THEOREM EncodesWhatWasPut == Spec => []PacketIsEncoding
BY ReadyIsEncoding, Invariance, PTL

(* Closing a message or a bundle leaves the size that Size said before.    *)
THEOREM SizeSaysWhatFollows == Spec => SizeIsValid
<1>1. IInv /\ [Next]_vars => [EndMessage \/ EndBundle => Size' = Size]_vars
  BY EndMessageKeeps, EndBundleKeeps
<1> QED BY <1>1, Invariance, PTL DEF Spec, SizeIsValid

=============================================================================
