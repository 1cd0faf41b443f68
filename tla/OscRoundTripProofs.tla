-------------------------- MODULE OscRoundTripProofs --------------------------
(***************************************************************************)
(* What was put into a packet is what is read from it, for buffers of any  *)
(* size below 2^31 bytes, any addresses and arguments, and bundles as deep *)
(* as the reader follows them.                                             *)
(*                                                                         *)
(*   1. the reader's loop over type tags, as the iteration of one step     *)
(*   2. strings, slices and values of bytes                                *)
(*   3. one argument: where it lies, the reader skips it and reads it back *)
(*   4. the bytes of a message: address, type tags, arguments              *)
(*   5. the reader accepts a message exactly if its arrays are balanced,   *)
(*      and its iterators yield what was put                               *)
(*   6. bundles: their elements, validated and read one level down         *)
(*   7. the levels of a packet that is being built                         *)
(*   8. the inductive invariant, and the theorem                           *)
(***************************************************************************)
EXTENDS OscRoundTrip, OutboundPacketStreamProofs, FiniteSetTheorems

-----------------------------------------------------------------------------
(* 1. Iteration.                                                           *)

(* A set that holds 0 and the successor of what it holds has every number. *)
LEMMA EveryNumber ==
  ASSUME NEW T, 0 \in T, \A n \in Nat : n \in T => n + 1 \in T
  PROVE  \A n \in Nat : n \in T
<1> DEFINE Missing == { n \in Nat : n \notin T }
<1>1. ASSUME Missing # {} PROVE FALSE
  <2>1. PICK j \in Missing : \A i \in Missing : j <= i
    <3>1. Missing \in SUBSET Nat
      OBVIOUS
    <3> HIDE DEF Missing
    <3> QED BY <1>1, <3>1, LeastNumber
  <2>2. j \in Nat /\ j \notin T /\ j # 0
    OBVIOUS
  <2>3. j - 1 \in Nat /\ ~(j <= j - 1) /\ (j - 1) + 1 = j
    BY <2>2
  <2>4. j - 1 \in T
    BY <2>1, <2>3
  <2> QED BY <2>2, <2>3, <2>4
<1> QED BY <1>1

(* h applies G to v, over and over, n times.                               *)
Iterates(h, G, v, n) ==
  /\ h[0] = v
  /\ \A i \in Nat : i < n => h[i + 1] = G[h[i]]

LEMMA IteratesAgree ==
  ASSUME NEW V, NEW v \in V, NEW G \in [V -> V], NEW n \in Nat, NEW m \in Nat,
         NEW h, NEW g, Iterates(h, G, v, n), Iterates(g, G, v, m)
  PROVE  \A i \in Nat : i <= n /\ i <= m => h[i] = g[i]
<1> DEFINE T == { i \in Nat : i <= n /\ i <= m => h[i] = g[i] }
<1>1. 0 \in T
  BY DEF Iterates
<1>2. ASSUME NEW i \in Nat, i \in T PROVE i + 1 \in T
  <2>1. CASE i + 1 <= n /\ i + 1 <= m
    <3>1. i < n /\ i < m /\ i <= n /\ i <= m /\ i + 1 \in Nat
      BY <2>1
    <3>2. h[i] = g[i] /\ h[i + 1] = G[h[i]] /\ g[i + 1] = G[g[i]]
      BY <1>2, <3>1 DEF Iterates
    <3> QED BY <3>1, <3>2
  <2>2. CASE ~(i + 1 <= n /\ i + 1 <= m)
    BY <2>2
  <2> QED BY <2>1, <2>2
<1>3. \A i \in Nat : i \in T
  <2> HIDE DEF T
  <2> QED BY <1>1, <1>2, EveryNumber
<1> QED BY <1>3

LEMMA FiniteIterationExists ==
  ASSUME NEW V, NEW v \in V, NEW G \in [V -> V]
  PROVE  \A n \in Nat : \E h \in [0..n -> V] : Iterates(h, G, v, n)
<1> DEFINE T == { n \in Nat : \E h \in [0..n -> V] : Iterates(h, G, v, n) }
<1>1. 0 \in T
  <2> DEFINE h == [i \in 0..0 |-> v]
  <2>1. h \in [0..0 -> V] /\ h[0] = v
    OBVIOUS
  <2>2. \A i \in Nat : ~(i < 0)
    OBVIOUS
  <2> HIDE DEF h
  <2> QED BY <2>1, <2>2 DEF Iterates
<1>2. ASSUME NEW n \in Nat, n \in T PROVE n + 1 \in T
  <2>1. PICK g \in [0..n -> V] : Iterates(g, G, v, n)
    BY <1>2
  <2> DEFINE h == [i \in 0..(n + 1) |-> IF i = n + 1 THEN G[g[n]] ELSE g[i]]
  <2>2. n \in 0..n /\ n + 1 \in 0..(n + 1) /\ 0 # n + 1 /\ 0 \in 0..(n + 1)
    OBVIOUS
  <2>3. \A i \in 0..(n + 1) : i # n + 1 => i \in 0..n
    OBVIOUS
  <2>4. h \in [0..(n + 1) -> V]
    BY <2>2, <2>3
  <2>5. h[0] = v
    BY <2>1, <2>2 DEF Iterates
  <2>6. ASSUME NEW i \in Nat, i < n + 1 PROVE h[i + 1] = G[h[i]]
    <3>1. i \in 0..(n + 1) /\ i # n + 1 /\ i + 1 \in 0..(n + 1)
      BY <2>6
    <3>2. h[i] = g[i]
      BY <3>1
    <3>3. CASE i = n
      <4>1. h[i + 1] = G[g[n]]
        BY <2>2, <3>3
      <4> HIDE DEF h
      <4> QED BY <3>2, <3>3, <4>1
    <3>4. CASE i # n
      <4>1. i + 1 # n + 1 /\ i < n
        BY <2>6, <3>4
      <4>2. h[i + 1] = g[i + 1]
        BY <3>1, <4>1
      <4>3. g[i + 1] = G[g[i]]
        BY <2>1, <4>1 DEF Iterates
      <4> HIDE DEF h
      <4> QED BY <3>2, <4>2, <4>3
    <3> QED BY <3>3, <3>4
  <2> HIDE DEF h
  <2>7. Iterates(h, G, v, n + 1)
    BY <2>5, <2>6 DEF Iterates
  <2> QED BY <2>4, <2>7
<1> HIDE DEF T
<1>3. \A n \in Nat : n \in T
  BY <1>1, <1>2, EveryNumber
<1> QED BY <1>3 DEF T

IteratesForever(f, G, v) == f[0] = v /\ \A n \in Nat : f[n + 1] = G[f[n]]

(* A function of the numbers can be defined by its next value.             *)
LEMMA IterationExists ==
  ASSUME NEW V, NEW v \in V, NEW G \in [V -> V]
  PROVE  \E f \in [Nat -> V] : IteratesForever(f, G, v)
<1> DEFINE h(n) == CHOOSE h \in [0..n -> V] : Iterates(h, G, v, n)
           f == [n \in Nat |-> h(n)[n]]
<1>1. \A n \in Nat : h(n) \in [0..n -> V] /\ Iterates(h(n), G, v, n)
  BY FiniteIterationExists
<1> HIDE DEF h
<1>2. f \in [Nat -> V]
  <2>1. \A n \in Nat : n \in 0..n
    OBVIOUS
  <2> QED BY <1>1, <2>1
<1>3. f[0] = v
  BY <1>1 DEF Iterates
<1>4. ASSUME NEW n \in Nat PROVE f[n + 1] = G[f[n]]
  <2>1. n + 1 \in Nat /\ n < n + 1 /\ n <= n /\ n <= n + 1
    OBVIOUS
  <2>2. f[n + 1] = h(n + 1)[n + 1] /\ f[n] = h(n)[n]
    BY <2>1
  <2>3. Iterates(h(n + 1), G, v, n + 1) /\ Iterates(h(n), G, v, n)
    BY <1>1, <2>1
  <2>4. h(n + 1)[n + 1] = G[h(n + 1)[n]]
    BY <2>1, <2>3 DEF Iterates
  <2>5. h(n + 1)[n] = h(n)[n]
    BY <2>1, <2>3, IteratesAgree
  <2> HIDE DEF f
  <2> QED BY <2>2, <2>4, <2>5
<1> HIDE DEF f
<1>5. IteratesForever(f, G, v)
  BY <1>3, <1>4 DEF IteratesForever
<1> QED BY <1>2, <1>5

IteratesIndexed(f, G, v) == f[0] = v /\ \A n \in Nat : f[n + 1] = G[<< n, f[n] >>]

(* IterationExists, for a next value that depends on the number too.       *)
LEMMA IndexedIterationExists ==
  ASSUME NEW V, NEW v \in V, NEW G \in [Nat \X V -> V]
  PROVE  \E f \in [Nat -> V] : IteratesIndexed(f, G, v)
<1> DEFINE P == Nat \X V
           H == [s \in P |-> << s[1] + 1, G[s] >>]
           start == << 0, v >>
<1>1. H \in [P -> P]
  OBVIOUS
<1>2. start \in P
  OBVIOUS
<1>3. \A n \in Nat, x \in V : H[<< n, x >>] = << n + 1, G[<< n, x >>] >>
  OBVIOUS
<1>4. PICK h \in [Nat -> P] : h[0] = start /\ \A n \in Nat : h[n + 1] = H[h[n]]
  <2> HIDE DEF H, start, P
  <2>1. \E h \in [Nat -> P] : IteratesForever(h, H, start)
    BY <1>1, <1>2, IterationExists
  <2> QED BY <2>1 DEF IteratesForever
<1> DEFINE f == [n \in Nat |-> h[n][2]]
<1>5. f \in [Nat -> V]
  OBVIOUS
<1>6. \A n \in Nat : h[n] = << n, f[n] >>
  <2> DEFINE T == { n \in Nat : h[n] = << n, f[n] >> }
  <2>1. 0 \in T
    BY <1>4
  <2>2. ASSUME NEW n \in Nat, n \in T PROVE n + 1 \in T
    <3>1. h[n] = << n, f[n] >> /\ f[n] \in V
      BY <1>5, <2>2
    <3>2. h[n + 1] = H[<< n, f[n] >>]
      BY <1>4, <3>1
    <3>3. h[n + 1] = << n + 1, G[<< n, f[n] >>] >>
      BY <1>3, <3>1, <3>2
    <3>4. f[n + 1] = h[n + 1][2]
      OBVIOUS
    <3>5. h[n + 1] = << n + 1, f[n + 1] >>
      BY <3>3, <3>4
    <3> QED BY <3>5
  <2>3. \A n \in Nat : n \in T
    <3> HIDE DEF T
    <3> QED BY <2>1, <2>2, EveryNumber
  <2> QED BY <2>3
<1>7. f[0] = v
  BY <1>4
<1>8. ASSUME NEW n \in Nat PROVE f[n + 1] = G[<< n, f[n] >>]
  <2>1. f[n] \in V
    BY <1>5
  <2>2. h[n + 1] = H[<< n, f[n] >>]
    BY <1>4, <1>6
  <2>3. h[n + 1] = << n + 1, G[<< n, f[n] >>] >>
    BY <1>3, <2>1, <2>2
  <2>4. f[n + 1] = h[n + 1][2]
    OBVIOUS
  <2> QED BY <2>3, <2>4
<1> HIDE DEF f
<1>9. IteratesIndexed(f, G, v)
  BY <1>7, <1>8 DEF IteratesIndexed
<1> QED BY <1>5, <1>9

(* Min is the number it should be.                                         *)
LEMMA MinIs ==
  ASSUME NEW T \in SUBSET Nat, NEW x \in T, \A y \in T : x <= y
  PROVE  Reader!Min(T) = x
<1>1. Reader!Min(T) \in T /\ \A y \in T : Reader!Min(T) <= y
  BY DEF Reader!Min
<1>2. Reader!Min(T) \in Nat /\ x \in Nat /\ Reader!Min(T) <= x /\ x <= Reader!Min(T)
  BY <1>1
<1> QED BY <1>2

LEMMA MinExists ==
  ASSUME NEW T \in SUBSET Nat, T # {}
  PROVE  Reader!Min(T) \in T /\ \A y \in T : Reader!Min(T) <= y
<1>1. PICK x \in T : \A y \in T : x <= y
  BY LeastNumber
<1>2. Reader!Min(T) = x
  BY <1>1, MinIs
<1> QED BY <1>1, <1>2

-----------------------------------------------------------------------------
(* The reader's loop over the type tags.                                   *)

Boundaries(m) == { p \in 0..Len(m) : p % 4 = 0 }

LEMMA NextBoundary ==
  ASSUME NEW l \in Nat, l % 4 = 0, NEW p \in 0..l, p % 4 = 0, p < l
  PROVE  p + 4 <= l /\ (p + 4) % 4 = 0
OBVIOUS

(* Where a string may end: on a boundary behind a null in it.              *)
LEMMA Str4EndsAre ==
  ASSUME NEW m \in Seq(Reader!Byte), Len(m) % 4 = 0, NEW p \in Boundaries(m), p < Len(m)
  PROVE  /\ Reader!Str4Ends(m, p) \in SUBSET Nat
         /\ \A q \in Reader!Str4Ends(m, p) :
              /\ q \in Boundaries(m) /\ p + 4 <= q
              /\ \E z \in p..(q - 1) : Reader!At(m, z) = 0
<1>1. p \in 0..Len(m) /\ p % 4 = 0 /\ Len(m) \in Nat
  BY LenProperties DEF Boundaries
<1>2. ASSUME NEW q \in Reader!Str4Ends(m, p)
      PROVE  /\ q \in Boundaries(m) /\ p + 4 <= q
             /\ \E z \in p..(q - 1) : Reader!At(m, z) = 0
  <2>1. CASE Reader!At(m, p) = 0
    <3>1. q = p + 4
      BY <1>2, <2>1 DEF Reader!Str4Ends
    <3>2. p + 4 <= Len(m) /\ (p + 4) % 4 = 0
      BY <1>1, NextBoundary
    <3>3. q \in 0..Len(m) /\ q % 4 = 0 /\ p + 4 <= q /\ p \in p..(q - 1)
      BY <1>1, <3>1, <3>2
    <3> QED BY <2>1, <3>3 DEF Boundaries
  <2>2. CASE Reader!At(m, p) # 0
    <3>1. q \in (p + 4)..Len(m) /\ (q - p) % 4 = 0 /\ Reader!At(m, q - 1) = 0
      BY <1>2, <2>2 DEF Reader!Str4Ends
    <3>2. q \in 0..Len(m) /\ p + 4 <= q /\ q - 1 \in p..(q - 1)
      BY <1>1, <3>1
    <3>3. q % 4 = 0
      BY <1>1, <3>1
    <3> QED BY <3>1, <3>2, <3>3 DEF Boundaries
  <2> QED BY <2>1, <2>2
<1>3. \A q \in Reader!Str4Ends(m, p) : q \in Nat
  <2>1. \A q \in Boundaries(m) : q \in Nat
    BY <1>1 DEF Boundaries
  <2> QED BY <1>2, <2>1
<1> QED BY <1>2, <1>3

(* The kinds of type tags exclude each other.                              *)
LEMMA TagKinds ==
  /\ Reader!FourByteTypeTags \subseteq Reader!TypeTagValues /\ Reader!EightByteTypeTags \subseteq Reader!TypeTagValues
  /\ Reader!StringTypeTags \subseteq Reader!TypeTagValues /\ Reader!BLOB_TYPE_TAG \in Reader!TypeTagValues
  /\ Reader!BoolTypeTags \subseteq Reader!TypeTagValues
  /\ Reader!FourByteTypeTags \cap Reader!EightByteTypeTags = {} /\ Reader!FourByteTypeTags \cap Reader!StringTypeTags = {}
  /\ Reader!EightByteTypeTags \cap Reader!StringTypeTags = {}
  /\ Reader!BLOB_TYPE_TAG \notin Reader!FourByteTypeTags /\ Reader!BLOB_TYPE_TAG \notin Reader!EightByteTypeTags
  /\ Reader!BLOB_TYPE_TAG \notin Reader!StringTypeTags
BY DEF Reader!FourByteTypeTags, Reader!EightByteTypeTags, Reader!StringTypeTags, Reader!BLOB_TYPE_TAG, Reader!TypeTagValues,
       Reader!ZeroLengthTypeTags, Reader!BoolTypeTags, Reader!TRUE_TYPE_TAG, Reader!ARRAY_BEGIN_TYPE_TAG,
       Reader!ARRAY_END_TYPE_TAG

LEMMA ToInt32Type ==
  ASSUME NEW m \in Seq(Reader!Byte), NEW p \in Nat, p + 4 <= Len(m)
  PROVE  Reader!ToInt32(m, p) \in Int
<1>1. Reader!At(m, p) \in Int /\ Reader!At(m, p + 1) \in Int /\ Reader!At(m, p + 2) \in Int /\ Reader!At(m, p + 3) \in Int
  <2>1. p + 1 \in 1..Len(m) /\ p + 2 \in 1..Len(m) /\ p + 3 \in 1..Len(m) /\ p + 4 \in 1..Len(m)
    BY LenProperties
  <2>2. \A k \in 1..Len(m) : m[k] \in Int
    <3>1. \A k \in 1..Len(m) : m[k] \in Reader!Byte
      BY ElementOfSeq
    <3>2. \A b \in Reader!Byte : b \in Int
      BY DEF Reader!Byte
    <3> QED BY <3>1, <3>2
  <2>3. (p + 1) + 1 = p + 2 /\ (p + 2) + 1 = p + 3 /\ (p + 3) + 1 = p + 4
    OBVIOUS
  <2>4. Reader!At(m, p) = m[p + 1] /\ Reader!At(m, p + 1) = m[p + 2] /\ Reader!At(m, p + 2) = m[p + 3]
        /\ Reader!At(m, p + 3) = m[p + 4]
    BY <2>3 DEF Reader!At
  <2> QED BY <2>1, <2>2, <2>4
<1> DEFINE first == IF Reader!At(m, p) < 128 THEN Reader!At(m, p) ELSE Reader!At(m, p) - 256
<1>2. first \in Int
  BY <1>1
<1>3. Reader!ToInt32(m, p) = ((first * 256 + Reader!At(m, p + 1)) * 256 + Reader!At(m, p + 2)) * 256 + Reader!At(m, p + 3)
  BY DEF Reader!ToInt32
<1>4. \A x \in Int, y \in Int : x * 256 + y \in Int
  OBVIOUS
<1> HIDE DEF first
<1>5. first * 256 + Reader!At(m, p + 1) \in Int
  BY <1>1, <1>2, <1>4
<1>6. (first * 256 + Reader!At(m, p + 1)) * 256 + Reader!At(m, p + 2) \in Int
  BY <1>1, <1>4, <1>5
<1> QED BY <1>1, <1>3, <1>4, <1>6

(* The same for a value that is not one of the type tags.                  *)
LEMMA ArgumentEndUnknown ==
  ASSUME NEW m, NEW p, NEW tag, tag \notin Reader!TypeTagValues
  PROVE  Reader!ArgumentEnd(m, tag, p) = p
<1>1. /\ tag \notin Reader!FourByteTypeTags /\ tag \notin Reader!EightByteTypeTags
      /\ tag \notin Reader!StringTypeTags /\ tag # Reader!BLOB_TYPE_TAG
  BY TagKinds
<1> QED BY <1>1 DEF Reader!ArgumentEnd

LEMMA ArgumentEndType ==
  ASSUME NEW m \in Seq(Reader!Byte), Len(m) % 4 = 0, NEW p \in Boundaries(m),
         NEW tag \in Reader!TypeTagValues, Reader!ArgumentEnd(m, tag, p) # Reader!NULL
  PROVE  Reader!ArgumentEnd(m, tag, p) \in Boundaries(m)
<1>1. p \in 0..Len(m) /\ p % 4 = 0 /\ Len(m) \in Nat
  BY LenProperties DEF Boundaries
<1>2. CASE tag \in Reader!FourByteTypeTags
  <2>1. Reader!ArgumentEnd(m, tag, p) = p + 4 /\ p + 4 <= Len(m)
    BY <1>2, TagKinds DEF Reader!ArgumentEnd
  <2> QED BY <1>1, <2>1 DEF Boundaries
<1>3. CASE tag \in Reader!EightByteTypeTags
  <2>1. Reader!ArgumentEnd(m, tag, p) = p + 8 /\ p + 8 <= Len(m)
    BY <1>3, TagKinds DEF Reader!ArgumentEnd
  <2> QED BY <1>1, <2>1 DEF Boundaries
<1>4. CASE tag \in Reader!StringTypeTags
  <2>1. Reader!ArgumentEnd(m, tag, p) = Reader!FindStr4End(m, p)
    BY <1>4, TagKinds DEF Reader!ArgumentEnd
  <2> DEFINE ends == Reader!Str4Ends(m, p)
  <2>2. ~(p >= Len(m)) /\ ends # {} /\ Reader!FindStr4End(m, p) = Reader!Min(ends)
    BY <2>1, <1>4 DEF Reader!FindStr4End
  <2>3. p < Len(m)
    BY <1>1, <2>2
  <2>4. ends \in SUBSET Nat /\ \A q \in ends : q \in Boundaries(m)
    BY <2>3, Str4EndsAre
  <2> HIDE DEF ends
  <2>5. Reader!Min(ends) \in ends
    BY <2>2, <2>4, MinExists
  <2> QED BY <2>1, <2>2, <2>4, <2>5
<1>5. CASE tag = Reader!BLOB_TYPE_TAG
  <2> DEFINE size == Reader!ToInt32(m, p)
             blobSize == Reader!RoundUp4(size)
  <2>1. Reader!ArgumentEnd(m, tag, p) =
          IF p + 4 > Len(m) \/ ~Reader!IsValidElementSizeValue(size)
          THEN Reader!NULL
          ELSE IF blobSize > Len(m) - (p + 4) THEN Reader!NULL ELSE p + 4 + blobSize
    BY <1>5, TagKinds DEF Reader!ArgumentEnd
  <2>2. ~(p + 4 > Len(m)) /\ size >= 0 /\ ~(blobSize > Len(m) - (p + 4))
    BY <2>1 DEF Reader!IsValidElementSizeValue
  <2>3. p \in Nat /\ p + 4 <= Len(m)
    BY <1>1, <2>2
  <2>4. size \in Int
    BY <2>3, ToInt32Type
  <2>5. blobSize \in Nat /\ blobSize % 4 = 0
    <3> HIDE DEF size
    <3> QED BY <2>2, <2>4 DEF Reader!RoundUp4
  <2>6. Reader!ArgumentEnd(m, tag, p) = p + 4 + blobSize
    BY <2>1, <2>2, <1>5
  <2> HIDE DEF blobSize, size
  <2> QED BY <1>1, <2>2, <2>5, <2>6 DEF Boundaries
<1>6. CASE /\ tag \notin Reader!FourByteTypeTags /\ tag \notin Reader!EightByteTypeTags
           /\ tag \notin Reader!StringTypeTags /\ tag # Reader!BLOB_TYPE_TAG
  BY <1>6 DEF Reader!ArgumentEnd
<1> QED BY <1>2, <1>3, <1>4, <1>5, <1>6

(* What the loop knows while it has found no error.                        *)
ChecksOf(m) ==
  { c \in [ok : BOOLEAN, argument : Int, level : Int] : c.ok => c.argument \in Boundaries(m) }

LEMMA CheckArgumentType ==
  ASSUME NEW m \in Seq(Reader!Byte), Len(m) % 4 = 0, NEW c \in ChecksOf(m), NEW tag
  PROVE  Reader!CheckArgument(m, c, tag) \in ChecksOf(m)
<1>1. CASE ~c.ok
  BY <1>1 DEF Reader!CheckArgument
<1>2. CASE c.ok
  <2> DEFINE argument == Reader!ArgumentEnd(m, tag, c.argument)
             change == CASE tag = Reader!ARRAY_BEGIN_TYPE_TAG -> 1
                         [] tag = Reader!ARRAY_END_TYPE_TAG -> -1
                         [] OTHER -> 0
             ok == tag \in Reader!TypeTagValues /\ argument # Reader!NULL /\ c.level + change >= 0
  <2>1. Reader!CheckArgument(m, c, tag) = [ok |-> ok, argument |-> argument, level |-> c.level + change]
    BY <1>2 DEF Reader!CheckArgument
  <2>2. c.argument \in Boundaries(m) /\ c.level \in Int
    BY <1>2 DEF ChecksOf
  <2>3. c.level + change \in Int
    <3>1. change \in Int
      BY DEF Reader!ARRAY_BEGIN_TYPE_TAG, Reader!ARRAY_END_TYPE_TAG
    <3> HIDE DEF change
    <3> QED BY <2>2, <3>1
  <2>4. tag \in Reader!TypeTagValues /\ argument # Reader!NULL => argument \in Boundaries(m)
    BY <2>2, ArgumentEndType
  <2>5. argument \in Int
    <3>1. \A q \in Boundaries(m) : q \in Int
      BY LenProperties DEF Boundaries
    <3>2. CASE tag \in Reader!TypeTagValues /\ argument # Reader!NULL
      <4>1. argument \in Boundaries(m)
        BY <2>4, <3>2
      <4> QED BY <3>1, <4>1
    <3>3. CASE argument = Reader!NULL
      BY <3>3 DEF Reader!NULL
    <3>4. CASE tag \notin Reader!TypeTagValues
      <4>1. argument = c.argument
        BY <3>4, ArgumentEndUnknown
      <4> QED BY <2>2, <3>1, <4>1
    <3> QED BY <3>2, <3>3, <3>4
  <2>6. ok \in BOOLEAN /\ (ok => argument \in Boundaries(m))
    BY <2>4
  <2> HIDE DEF ok, argument, change
  <2> QED BY <1>2, <2>1, <2>3, <2>5, <2>6 DEF ChecksOf
<1> QED BY <1>1, <1>2 DEF ChecksOf

LEMMA ChecksAre ==
  ASSUME NEW m \in Seq(Reader!Byte), Len(m) % 4 = 0,
         Reader!FindStr4End(m, Reader!TypeTagString(m)) \in Boundaries(m)
  PROVE  /\ Reader!Checks(m)[0] = [ ok |-> TRUE, level |-> 0,
                                    argument |-> Reader!FindStr4End(m, Reader!TypeTagString(m)) ]
         /\ \A n \in Nat : /\ Reader!Checks(m)[n] \in ChecksOf(m)
                           /\ Reader!Checks(m)[n + 1] = Reader!CheckArgument(m, Reader!Checks(m)[n], Reader!TypeTags(m)[n + 1])
<1> DEFINE start == [ok |-> TRUE, argument |-> Reader!FindStr4End(m, Reader!TypeTagString(m)), level |-> 0]
           Round(g) == [n \in Nat |-> IF n = 0 THEN start
                                      ELSE Reader!CheckArgument(m, g[n - 1], Reader!TypeTags(m)[n])]
           check == CHOOSE g : g = Round(g)
           V == ChecksOf(m)
           G == [s \in Nat \X V |-> Reader!CheckArgument(m, s[2], Reader!TypeTags(m)[s[1] + 1])]
<1>1. /\ start \in V
      /\ start = [ ok |-> TRUE, level |-> 0,
                   argument |-> Reader!FindStr4End(m, Reader!TypeTagString(m)) ]
  <2>1. \A q \in Boundaries(m) : q \in Int
    BY LenProperties DEF Boundaries
  <2> QED BY <2>1 DEF ChecksOf
<1>2. G \in [Nat \X V -> V]
  BY CheckArgumentType
<1>3. Reader!Checks(m) = check
  BY DEF Reader!Checks
<1>4. \A n \in Nat, c \in V : G[<< n, c >>] = Reader!CheckArgument(m, c, Reader!TypeTags(m)[n + 1])
  OBVIOUS
<1> HIDE DEF start, G
<1>5. PICK f \in [Nat -> V] : f[0] = start /\ \A n \in Nat : f[n + 1] = G[<< n, f[n] >>]
  <2> HIDE DEF V, Round, check
  <2>1. \E f \in [Nat -> V] : IteratesIndexed(f, G, start)
    BY <1>1, <1>2, IndexedIterationExists
  <2> QED BY <2>1 DEF IteratesIndexed
<1>6. f = Round(f)
  <2>1. ASSUME NEW n \in Nat PROVE f[n] = Round(f)[n]
    <3>1. CASE n = 0
      BY <1>5, <3>1
    <3>2. CASE n # 0
      <4>1. n - 1 \in Nat /\ (n - 1) + 1 = n
        BY <3>2
      <4>2. f[n] = G[<< n - 1, f[n - 1] >>] /\ f[n - 1] \in V
        BY <1>5, <4>1
      <4>3. f[n] = Reader!CheckArgument(m, f[n - 1], Reader!TypeTags(m)[n])
        BY <1>4, <4>1, <4>2
      <4> QED BY <3>2, <4>3
    <3> QED BY <3>1, <3>2
  <2>2. DOMAIN f = Nat /\ f = [n \in Nat |-> f[n]]
    BY <1>5
  <2>3. f = [n \in Nat |-> Round(f)[n]]
    <3> HIDE DEF Round
    <3> QED BY <2>1, <2>2
  <2> QED BY <2>3
<1>7. check = Round(check)
  BY <1>6
<1> HIDE DEF check
<1>8. /\ check[0] = start
      /\ \A n \in Nat : check[n + 1] = Reader!CheckArgument(m, check[n], Reader!TypeTags(m)[n + 1])
  <2>1. /\ Round(check)[0] = start
        /\ \A n \in Nat : Round(check)[n + 1] = Reader!CheckArgument(m, check[(n + 1) - 1], Reader!TypeTags(m)[n + 1])
    OBVIOUS
  <2>2. \A n \in Nat : (n + 1) - 1 = n
    OBVIOUS
  <2> HIDE DEF Round
  <2> QED BY <1>7, <2>1, <2>2
<1>9. \A n \in Nat : check[n] \in V
  <2> DEFINE T == { n \in Nat : check[n] \in V }
  <2>1. 0 \in T
    BY <1>1, <1>8
  <2>2. ASSUME NEW n \in Nat, n \in T PROVE n + 1 \in T
    <3>1. PICK c \in V : c = check[n]
      BY <2>2
    <3>2. Reader!CheckArgument(m, c, Reader!TypeTags(m)[n + 1]) \in V
      BY CheckArgumentType
    <3>3. check[n + 1] = Reader!CheckArgument(m, c, Reader!TypeTags(m)[n + 1])
      BY <1>8, <3>1
    <3> QED BY <3>2, <3>3
  <2> HIDE DEF T
  <2>3. \A n \in Nat : n \in T
    BY <2>1, <2>2, EveryNumber
  <2> QED BY <2>3 DEF T
<1> QED BY <1>1, <1>3, <1>8, <1>9

-----------------------------------------------------------------------------
(* 2. Bytes.                                                               *)

(* Strings, and slices of what is read.                                    *)

(* What was written, byte by byte, is a slice of what is read.             *)
LEMMA SliceIs ==
  ASSUME NEW S, NEW m \in Seq(S), NEW p \in Nat, NEW n \in Nat, p + n <= Len(m),
         NEW s, s = [j \in 1..n |-> s[j]], \A j \in 1..n : m[p + j] = s[j]
  PROVE  SubSeq(m, p + 1, p + n) = s
<1> DEFINE slice == SubSeq(m, p + 1, p + n)
<1>1. \A i \in (p + 1)..(p + n) : m[i] \in S
  <2>1. \A i \in (p + 1)..(p + n) : i \in 1..Len(m)
    BY LenProperties
  <2> QED BY <2>1, ElementOfSeq
<1>2. /\ slice \in Seq(S)
      /\ Len(slice) = IF p + 1 <= p + n THEN (p + n) - (p + 1) + 1 ELSE 0
      /\ \A i \in 1..((p + n) - (p + 1) + 1) : slice[i] = m[(p + 1) + i - 1]
  <2>1. p + 1 \in Int /\ p + n \in Int
    OBVIOUS
  <2> QED BY <1>1, <2>1, SubSeqProperties
<1>3. (p + n) - (p + 1) + 1 = n /\ (IF p + 1 <= p + n THEN (p + n) - (p + 1) + 1 ELSE 0) = n
  OBVIOUS
<1>4. \A i \in 1..n : (p + 1) + i - 1 = p + i
  OBVIOUS
<1> HIDE DEF slice
<1>5. Len(slice) = n /\ \A i \in 1..n : slice[i] = s[i]
  BY <1>2, <1>3, <1>4
<1>6. s \in [1..n -> S]
  <2>1. \A j \in 1..n : slice[j] \in S
    BY <1>2, <1>5, ElementOfSeq
  <2> QED BY <1>5, <2>1
<1>7. s \in Seq(S) /\ Len(s) = n
  BY <1>6, FunctionIsSeq
<1> QED BY <1>2, <1>5, <1>7, SameSequence DEF slice

(* The same, with its hypotheses under one name.                           *)
MatchesAt(m, p, n, s) ==
  p + n <= Len(m) /\ s = [j \in 1..n |-> s[j]] /\ \A j \in 1..n : m[p + j] = s[j]

LEMMA MatchIsSlice ==
  ASSUME NEW S, NEW m \in Seq(S), NEW p \in Nat, NEW n \in Nat, NEW s, MatchesAt(m, p, n, s)
  PROVE  SubSeq(m, p + 1, p + n) = s
BY SliceIs DEF MatchesAt

Slice(m, p, n, s) ==
  s = [j \in 1..n |-> s[j]] /\ \A j \in 1..n : m[p + j] = s[j]

LEMMA SliceOf ==
  ASSUME NEW S, NEW m \in Seq(S), NEW p \in Nat, NEW n \in Nat, p + n <= Len(m),
         NEW s, Slice(m, p, n, s)
  PROVE  SubSeq(m, p + 1, p + n) = s
<1>1. s = [j \in 1..n |-> s[j]]
  BY DEF Slice
<1>2. \A j \in 1..n : m[p + j] = s[j]
  BY DEF Slice
<1> QED BY <1>1, <1>2, SliceIs

(* The characters before the first null.                                   *)
LEMMA CStringIs ==
  ASSUME NEW m \in Seq(Reader!Byte), NEW p \in Nat, NEW n \in Nat, p + n < Len(m),
         \A j \in 1..n : m[p + j] # 0, m[p + n + 1] = 0
  PROVE  Reader!CString(m, p) = SubSeq(m, p + 1, p + n)
<1> DEFINE nulls == { q \in p..(Len(m) - 1) : Reader!At(m, q) = 0 }
<1>1. Len(m) \in Nat
  BY LenProperties
<1>2. nulls \in SUBSET Nat
  BY <1>1
<1>3. p + n \in nulls
  <2>1. p + n \in p..(Len(m) - 1)
    BY <1>1
  <2>2. Reader!At(m, p + n) = 0
    BY DEF Reader!At
  <2> QED BY <2>1, <2>2
<1>4. ASSUME NEW q \in nulls PROVE p + n <= q
  <2>1. q \in p..(Len(m) - 1) /\ m[q + 1] = 0
    BY DEF Reader!At
  <2>2. ASSUME q < p + n PROVE FALSE
    <3>1. (q + 1) - p \in 1..n /\ p + ((q + 1) - p) = q + 1
      BY <1>1, <2>1, <2>2
    <3>2. m[p + ((q + 1) - p)] # 0
      BY <3>1
    <3> QED BY <2>1, <3>1, <3>2
  <2> QED BY <1>1, <2>1, <2>2
<1>5. Reader!CString(m, p) = SubSeq(m, p + 1, Reader!Min(nulls))
  BY DEF Reader!CString
<1> HIDE DEF nulls
<1>6. Reader!Min(nulls) = p + n
  BY <1>2, <1>3, <1>4, MinIs
<1> QED BY <1>5, <1>6

(* A string of n characters at p, padded up to e.                          *)
IsString(m, p, n, e) ==
  /\ p \in Nat /\ n \in Nat /\ p % 4 = 0
  /\ e = p + RoundUp4(n + 1) /\ e <= Len(m)
  /\ \A j \in 1..n : m[p + j] # 0
  /\ \A j \in (n + 1)..RoundUp4(n + 1) : m[p + j] = 0

LEMMA RoundUp4Is ==
  ASSUME NEW n \in Nat
  PROVE  /\ RoundUp4(n) \in Nat /\ n <= RoundUp4(n) /\ RoundUp4(n) <= n + 3
         /\ RoundUp4(n) % 4 = 0 /\ Reader!RoundUp4(n) = RoundUp4(n)
BY DEF RoundUp4, Reader!RoundUp4

LEMMA Str4EndsOfString ==
  ASSUME NEW m \in Seq(Reader!Byte), Len(m) % 4 = 0,
         NEW p \in Nat, NEW n \in Nat, NEW e, IsString(m, p, n, e)
  PROVE  /\ Reader!Str4Ends(m, p) \in SUBSET Nat
         /\ e \in Reader!Str4Ends(m, p)
         /\ \A q \in Reader!Str4Ends(m, p) : e <= q
         /\ p \in Nat /\ e \in Nat /\ p + 4 <= e /\ e % 4 = 0 /\ p + n < e
<1> DEFINE l == RoundUp4(n + 1)
<1>1. p \in Nat /\ n \in Nat /\ p % 4 = 0 /\ e = p + l /\ e <= Len(m) /\ Len(m) \in Nat
  BY LenProperties DEF IsString
<1>2. l \in Nat /\ n + 1 <= l /\ l <= n + 4 /\ l % 4 = 0
  <2>1. n + 1 \in Nat
    BY <1>1
  <2> HIDE DEF l
  <2>2. l \in Nat /\ n + 1 <= l /\ l <= (n + 1) + 3 /\ l % 4 = 0
    BY <2>1, RoundUp4Is DEF l
  <2> QED BY <1>1, <2>2
<1>3. \A j \in (n + 1)..l : m[p + j] = 0
  BY DEF IsString
<1>4. \A j \in 1..n : m[p + j] # 0
  BY DEF IsString
<1> HIDE DEF l
<1>5. e \in Nat /\ p + 4 <= e /\ e % 4 = 0 /\ p + n < e
  <2>1. l >= 4
    BY <1>1, <1>2
  <2> QED BY <1>1, <1>2, <2>1
<1>6. CASE n = 0
  <2>1. l = 4 /\ e = p + 4
    BY <1>1, <1>2, <1>6
  <2>2. 1 \in (n + 1)..l
    BY <1>6, <2>1
  <2>3. Reader!At(m, p) = 0
    BY <1>3, <2>2 DEF Reader!At
  <2>4. Reader!Str4Ends(m, p) = {p + 4}
    BY <2>3 DEF Reader!Str4Ends
  <2> QED BY <1>1, <1>5, <2>1, <2>4
<1>7. CASE n # 0
  <2> DEFINE ends == { q \in (p + 4)..Len(m) : (q - p) % 4 = 0 /\ Reader!At(m, q - 1) = 0 }
  <2>1. Reader!At(m, p) # 0
    <3>1. 1 \in 1..n
      BY <1>1, <1>7
    <3> QED BY <1>4, <3>1 DEF Reader!At
  <2>2. Reader!Str4Ends(m, p) = ends
    BY <2>1 DEF Reader!Str4Ends
  <2>3. \A q \in (p + 4)..Len(m) : Reader!At(m, q - 1) = m[q]
    <3>1. \A q \in (p + 4)..Len(m) : (q - 1) + 1 = q
      BY <1>1
    <3> QED BY <3>1 DEF Reader!At
  <2>4. e \in ends
    <3>1. e \in (p + 4)..Len(m) /\ (e - p) % 4 = 0
      BY <1>1, <1>2, <1>5
    <3>2. l \in (n + 1)..l
      BY <1>1, <1>2
    <3>3. m[e] = 0
      BY <1>1, <1>3, <3>2
    <3> QED BY <2>3, <3>1, <3>3
  <2>5. ASSUME NEW q \in ends PROVE e <= q
    <3>1. q \in (p + 4)..Len(m) /\ (q - p) % 4 = 0 /\ m[q] = 0
      BY <2>3
    <3>2. ASSUME q < e PROVE FALSE
      <4>1. (q - p) % 4 = 0 /\ l % 4 = 0 /\ q - p < l /\ q - p \in Nat
        BY <1>1, <1>2, <3>1, <3>2
      <4>2. q - p + 4 <= l
        <5>1. \A x \in Nat, y \in Nat : x % 4 = 0 /\ y % 4 = 0 /\ x < y => x + 4 <= y
          OBVIOUS
        <5> QED BY <1>2, <4>1, <5>1
      <4>3. q - p \in 1..n /\ p + (q - p) = q
        BY <1>1, <1>2, <3>1, <4>2
      <4>4. m[p + (q - p)] # 0
        BY <1>4, <4>3
      <4> QED BY <3>1, <4>3, <4>4
    <3> QED BY <1>1, <1>5, <3>1, <3>2
  <2>6. ends \in SUBSET Nat
    BY <1>1
  <2> HIDE DEF ends
  <2> QED BY <1>1, <1>5, <2>2, <2>4, <2>5, <2>6
<1> QED BY <1>6, <1>7

(* The reader finds its end and its characters.                            *)
LEMMA StringReads ==
  ASSUME NEW m \in Seq(Reader!Byte), Len(m) % 4 = 0,
         NEW p \in Nat, NEW n \in Nat, NEW e, IsString(m, p, n, e)
  PROVE  /\ Reader!FindStr4End(m, p) = e
         /\ Reader!FindStr4EndUnchecked(m, p) = e
         /\ Reader!CString(m, p) = SubSeq(m, p + 1, p + n)
         /\ e \in Nat /\ e % 4 = 0 /\ p + 4 <= e
<1> DEFINE ends == Reader!Str4Ends(m, p)
<1>1. /\ ends \in SUBSET Nat /\ e \in ends /\ \A q \in ends : e <= q
      /\ p \in Nat /\ e \in Nat /\ p + 4 <= e /\ e % 4 = 0 /\ p + n < e
  BY Str4EndsOfString
<1>2. n \in Nat /\ e <= Len(m) /\ Len(m) \in Nat
  BY LenProperties DEF IsString
<1>3. Reader!FindStr4End(m, p) = IF p >= Len(m) \/ ends = {} THEN Reader!NULL ELSE Reader!Min(ends)
  BY DEF Reader!FindStr4End
<1>4. Reader!FindStr4EndUnchecked(m, p) = Reader!Min(ends \cup {Len(m) + 4})
  BY DEF Reader!FindStr4EndUnchecked
<1> HIDE DEF ends
<1>5. Reader!Min(ends) = e
  BY <1>1, MinIs
<1>6. ~(p >= Len(m)) /\ ends # {}
  BY <1>1, <1>2
<1>7. Reader!Min(ends \cup {Len(m) + 4}) = e
  <2> DEFINE all == ends \cup {Len(m) + 4}
  <2>1. Len(m) + 4 \in Nat /\ e <= Len(m) + 4
    BY <1>1, <1>2
  <2>2. all \in SUBSET Nat /\ e \in all /\ \A q \in all : e <= q
    BY <1>1, <2>1
  <2> HIDE DEF all
  <2>3. Reader!Min(all) = e
    BY <2>2, MinIs
  <2> QED BY <2>3 DEF all
<1>8. Reader!CString(m, p) = SubSeq(m, p + 1, p + n)
  <2>1. p + n < Len(m)
    BY <1>1, <1>2
  <2>2. m[p + n + 1] = 0
    <3>1. n + 1 \in Nat
      BY <1>2
    <3>2. n + 1 <= RoundUp4(n + 1) /\ RoundUp4(n + 1) \in Nat
      BY <3>1, RoundUp4Is
    <3>3. n + 1 \in (n + 1)..RoundUp4(n + 1)
      BY <3>1, <3>2
    <3>4. m[p + (n + 1)] = 0
      BY <3>3 DEF IsString
    <3>5. p + (n + 1) = p + n + 1
      BY <1>1, <1>2
    <3> QED BY <3>4, <3>5
  <2>3. \A j \in 1..n : m[p + j] # 0
    BY DEF IsString
  <2> QED BY <1>1, <1>2, <2>1, <2>2, <2>3, CStringIs
<1> QED BY <1>1, <1>3, <1>4, <1>5, <1>6, <1>7, <1>8

(* The values of bytes.                                                    *)

IsSize(n) == n \in Nat /\ n <= Reader!OSC_BUNDLE_ELEMENT_SIZE_MAX

LEMMA SizeReads ==
  ASSUME NEW m \in Seq(Reader!Byte), NEW p \in Nat, NEW n, IsSize(n),
         \A j \in 1..4 : m[p + j] = Reader!FromUInt32(n)[j]
  PROVE  Reader!ToInt32(m, p) = n
<1> DEFINE a == (n \div (256 * 256 * 256)) % 256
           b == (n \div (256 * 256)) % 256
           c == (n \div 256) % 256
           d == (n \div 1) % 256
<1>1. n \in Nat /\ n < 128 * 256 * 256 * 256
  BY DEF IsSize, Reader!OSC_BUNDLE_ELEMENT_SIZE_MAX
<1>2. ((a * 256 + b) * 256 + c) * 256 + d = n /\ a < 128
  BY <1>1
<1>3. Reader!FromUInt32(n) = << a, b, c, d >>
  BY DEF Reader!FromUInt32
<1> HIDE DEF a, b, c, d
<1>4. m[p + 1] = a /\ m[p + 2] = b /\ m[p + 3] = c /\ m[p + 4] = d
  BY <1>3
<1>5. /\ Reader!At(m, p) = a /\ Reader!At(m, p + 1) = b
      /\ Reader!At(m, p + 2) = c /\ Reader!At(m, p + 3) = d
  <2>1. (p + 1) + 1 = p + 2 /\ (p + 2) + 1 = p + 3 /\ (p + 3) + 1 = p + 4
    OBVIOUS
  <2> QED BY <1>4, <2>1 DEF Reader!At
<1> QED BY <1>2, <1>5 DEF Reader!ToInt32

LEMMA SizeByteType ==
  ASSUME NEW n \in Nat, NEW k \in 1..4
  PROVE  Reader!FromUInt32(n)[k] \in Reader!Byte
<1>1. \A x \in Int : x % 256 \in 0..255
  OBVIOUS
<1>2. /\ n \div (256 * 256 * 256) \in Int /\ n \div (256 * 256) \in Int
      /\ n \div 256 \in Int /\ n \div 1 \in Int
  OBVIOUS
<1>3. /\ (n \div (256 * 256 * 256)) % 256 \in 0..255 /\ (n \div (256 * 256)) % 256 \in 0..255
      /\ (n \div 256) % 256 \in 0..255 /\ (n \div 1) % 256 \in 0..255
  BY <1>1, <1>2
<1>4. k = 1 \/ k = 2 \/ k = 3 \/ k = 4
  OBVIOUS
<1> DEFINE a == (n \div (256 * 256 * 256)) % 256
           b == (n \div (256 * 256)) % 256
           c == (n \div 256) % 256
           d == (n \div 1) % 256
<1>5. Reader!FromUInt32(n) = << a, b, c, d >>
  BY DEF Reader!FromUInt32
<1>6. a \in 0..255 /\ b \in 0..255 /\ c \in 0..255 /\ d \in 0..255
  BY <1>3
<1> HIDE DEF a, b, c, d
<1> QED BY <1>4, <1>5, <1>6 DEF Reader!Byte

(* The type tags have values of the same kinds, none of them null.         *)
LEMMA TagValues ==
  /\ TagValue("T") = 84 /\ TagValue("F") = 70 /\ TagValue("N") = 78 /\ TagValue("I") = 73
  /\ TagValue("[") = 91 /\ TagValue("]") = 93 /\ TagValue(",") = 44
  /\ TagValue("i") = 105 /\ TagValue("f") = 102 /\ TagValue("c") = 99
  /\ TagValue("r") = 114 /\ TagValue("m") = 109
  /\ TagValue("h") = 104 /\ TagValue("t") = 116 /\ TagValue("d") = 100
  /\ TagValue("s") = 115 /\ TagValue("S") = 83 /\ TagValue("b") = 98
<1>1. /\ Ascii["T"] = 84 /\ Ascii["F"] = 70 /\ Ascii["N"] = 78 /\ Ascii["I"] = 73
      /\ Ascii["i"] = 105 /\ Ascii["f"] = 102 /\ Ascii["c"] = 99
      /\ Ascii["r"] = 114 /\ Ascii["m"] = 109
      /\ Ascii["h"] = 104 /\ Ascii["t"] = 116 /\ Ascii["d"] = 100
      /\ Ascii["s"] = 115 /\ Ascii["S"] = 83 /\ Ascii["b"] = 98
  BY DEF Ascii
<1>2. /\ TagValue("T") = Ascii["T"] /\ TagValue("F") = Ascii["F"] /\ TagValue("N") = Ascii["N"]
      /\ TagValue("I") = Ascii["I"]
  BY DEF TagValue
<1>3. /\ TagValue("i") = Ascii["i"] /\ TagValue("f") = Ascii["f"] /\ TagValue("c") = Ascii["c"]
      /\ TagValue("r") = Ascii["r"] /\ TagValue("m") = Ascii["m"]
  BY DEF TagValue
<1>4. /\ TagValue("h") = Ascii["h"] /\ TagValue("t") = Ascii["t"] /\ TagValue("d") = Ascii["d"]
      /\ TagValue("s") = Ascii["s"] /\ TagValue("S") = Ascii["S"] /\ TagValue("b") = Ascii["b"]
  BY DEF TagValue
<1>5. TagValue("[") = 91 /\ TagValue("]") = 93 /\ TagValue(",") = 44
  BY DEF TagValue, Reader!ARRAY_BEGIN_TYPE_TAG, Reader!ARRAY_END_TYPE_TAG, Reader!COMMA
<1>6. TagValue("T") = 84 /\ TagValue("F") = 70 /\ TagValue("N") = 78 /\ TagValue("I") = 73
  BY ONLY <1>1, <1>2
<1>7. /\ TagValue("i") = 105 /\ TagValue("f") = 102 /\ TagValue("c") = 99
      /\ TagValue("r") = 114 /\ TagValue("m") = 109
  BY ONLY <1>1, <1>3
<1>8. /\ TagValue("h") = 104 /\ TagValue("t") = 116 /\ TagValue("d") = 100
      /\ TagValue("s") = 115 /\ TagValue("S") = 83 /\ TagValue("b") = 98
  BY ONLY <1>1, <1>4
<1> QED BY ONLY <1>5, <1>6, <1>7, <1>8

KindsAgree(tag, v) ==
  /\ v \in Reader!TypeTagValues /\ v \in 1..255
  /\ v = Reader!ARRAY_BEGIN_TYPE_TAG <=> tag = "["
  /\ v = Reader!ARRAY_END_TYPE_TAG <=> tag = "]"
  /\ v \in Reader!BoolTypeTags <=> tag \in {"T", "F"}
  /\ v = Reader!TRUE_TYPE_TAG <=> tag = "T"

LEMMA TagNumbers ==
  /\ KindsAgree("T", 84) /\ 84 \in Reader!ZeroLengthTypeTags
  /\ KindsAgree("F", 70) /\ 70 \in Reader!ZeroLengthTypeTags
  /\ KindsAgree("N", 78) /\ 78 \in Reader!ZeroLengthTypeTags
  /\ KindsAgree("I", 73) /\ 73 \in Reader!ZeroLengthTypeTags
  /\ KindsAgree("[", 91) /\ 91 \in Reader!ZeroLengthTypeTags
  /\ KindsAgree("]", 93) /\ 93 \in Reader!ZeroLengthTypeTags
  /\ KindsAgree("i", 105) /\ 105 \in Reader!FourByteTypeTags
  /\ KindsAgree("f", 102) /\ 102 \in Reader!FourByteTypeTags
  /\ KindsAgree("c", 99) /\ 99 \in Reader!FourByteTypeTags
  /\ KindsAgree("r", 114) /\ 114 \in Reader!FourByteTypeTags
  /\ KindsAgree("m", 109) /\ 109 \in Reader!FourByteTypeTags
  /\ KindsAgree("h", 104) /\ 104 \in Reader!EightByteTypeTags
  /\ KindsAgree("t", 116) /\ 116 \in Reader!EightByteTypeTags
  /\ KindsAgree("d", 100) /\ 100 \in Reader!EightByteTypeTags
  /\ KindsAgree("s", 115) /\ 115 \in Reader!StringTypeTags
  /\ KindsAgree("S", 83) /\ 83 \in Reader!StringTypeTags
  /\ KindsAgree("b", 98)
<1> USE DEF Reader!ZeroLengthTypeTags, Reader!FourByteTypeTags, Reader!EightByteTypeTags,
      Reader!StringTypeTags, Reader!BLOB_TYPE_TAG, Reader!ARRAY_BEGIN_TYPE_TAG,
      Reader!ARRAY_END_TYPE_TAG, Reader!BoolTypeTags, Reader!TRUE_TYPE_TAG
<1>1. KindsAgree("T", 84) /\ 84 \in Reader!ZeroLengthTypeTags
  <2>1. 84 \in Reader!TypeTagValues /\ 84 \in 1..255 /\ 84 \in Reader!ZeroLengthTypeTags
    BY DEF Reader!TypeTagValues
  <2>2. /\ 84 # Reader!ARRAY_BEGIN_TYPE_TAG /\ 84 # Reader!ARRAY_END_TYPE_TAG /\ 84 = Reader!TRUE_TYPE_TAG
        /\ 84 \in Reader!BoolTypeTags
    OBVIOUS
  <2>3. "T" # "[" /\ "T" # "]" /\ "T" # "F"
    OBVIOUS
  <2> QED BY ONLY <2>1, <2>2, <2>3, Zenon DEF KindsAgree
<1>2. KindsAgree("F", 70) /\ 70 \in Reader!ZeroLengthTypeTags
  <2>1. 70 \in Reader!TypeTagValues /\ 70 \in 1..255 /\ 70 \in Reader!ZeroLengthTypeTags
    BY DEF Reader!TypeTagValues
  <2>2. /\ 70 # Reader!ARRAY_BEGIN_TYPE_TAG /\ 70 # Reader!ARRAY_END_TYPE_TAG /\ 70 # Reader!TRUE_TYPE_TAG
        /\ 70 \in Reader!BoolTypeTags
    OBVIOUS
  <2>3. "F" # "[" /\ "F" # "]" /\ "F" # "T"
    OBVIOUS
  <2> QED BY ONLY <2>1, <2>2, <2>3, Zenon DEF KindsAgree
<1>3. KindsAgree("N", 78) /\ 78 \in Reader!ZeroLengthTypeTags
  <2>1. 78 \in Reader!TypeTagValues /\ 78 \in 1..255 /\ 78 \in Reader!ZeroLengthTypeTags
    BY DEF Reader!TypeTagValues
  <2>2. /\ 78 # Reader!ARRAY_BEGIN_TYPE_TAG /\ 78 # Reader!ARRAY_END_TYPE_TAG /\ 78 # Reader!TRUE_TYPE_TAG
        /\ 78 \notin Reader!BoolTypeTags
    OBVIOUS
  <2>3. "N" # "[" /\ "N" # "]" /\ "N" # "T" /\ "N" # "F"
    OBVIOUS
  <2> QED BY ONLY <2>1, <2>2, <2>3, Zenon DEF KindsAgree
<1>4. KindsAgree("I", 73) /\ 73 \in Reader!ZeroLengthTypeTags
  <2>1. 73 \in Reader!TypeTagValues /\ 73 \in 1..255 /\ 73 \in Reader!ZeroLengthTypeTags
    BY DEF Reader!TypeTagValues
  <2>2. /\ 73 # Reader!ARRAY_BEGIN_TYPE_TAG /\ 73 # Reader!ARRAY_END_TYPE_TAG /\ 73 # Reader!TRUE_TYPE_TAG
        /\ 73 \notin Reader!BoolTypeTags
    OBVIOUS
  <2>3. "I" # "[" /\ "I" # "]" /\ "I" # "T" /\ "I" # "F"
    OBVIOUS
  <2> QED BY ONLY <2>1, <2>2, <2>3, Zenon DEF KindsAgree
<1>5. KindsAgree("[", 91) /\ 91 \in Reader!ZeroLengthTypeTags
  <2>1. 91 \in Reader!TypeTagValues /\ 91 \in 1..255 /\ 91 \in Reader!ZeroLengthTypeTags
    BY DEF Reader!TypeTagValues
  <2>2. /\ 91 = Reader!ARRAY_BEGIN_TYPE_TAG /\ 91 # Reader!ARRAY_END_TYPE_TAG /\ 91 # Reader!TRUE_TYPE_TAG
        /\ 91 \notin Reader!BoolTypeTags
    OBVIOUS
  <2>3. "[" # "]" /\ "[" # "T" /\ "[" # "F"
    OBVIOUS
  <2> QED BY ONLY <2>1, <2>2, <2>3, Zenon DEF KindsAgree
<1>6. KindsAgree("]", 93) /\ 93 \in Reader!ZeroLengthTypeTags
  <2>1. 93 \in Reader!TypeTagValues /\ 93 \in 1..255 /\ 93 \in Reader!ZeroLengthTypeTags
    BY DEF Reader!TypeTagValues
  <2>2. /\ 93 # Reader!ARRAY_BEGIN_TYPE_TAG /\ 93 = Reader!ARRAY_END_TYPE_TAG /\ 93 # Reader!TRUE_TYPE_TAG
        /\ 93 \notin Reader!BoolTypeTags
    OBVIOUS
  <2>3. "]" # "[" /\ "]" # "T" /\ "]" # "F"
    OBVIOUS
  <2> QED BY ONLY <2>1, <2>2, <2>3, Zenon DEF KindsAgree
<1>7. KindsAgree("i", 105) /\ 105 \in Reader!FourByteTypeTags
  <2>1. 105 \in Reader!TypeTagValues /\ 105 \in 1..255 /\ 105 \in Reader!FourByteTypeTags
    BY DEF Reader!TypeTagValues
  <2>2. /\ 105 # Reader!ARRAY_BEGIN_TYPE_TAG /\ 105 # Reader!ARRAY_END_TYPE_TAG /\ 105 # Reader!TRUE_TYPE_TAG
        /\ 105 \notin Reader!BoolTypeTags
    OBVIOUS
  <2>3. "i" # "[" /\ "i" # "]" /\ "i" # "T" /\ "i" # "F"
    OBVIOUS
  <2> QED BY ONLY <2>1, <2>2, <2>3, Zenon DEF KindsAgree
<1>8. KindsAgree("f", 102) /\ 102 \in Reader!FourByteTypeTags
  <2>1. 102 \in Reader!TypeTagValues /\ 102 \in 1..255 /\ 102 \in Reader!FourByteTypeTags
    BY DEF Reader!TypeTagValues
  <2>2. /\ 102 # Reader!ARRAY_BEGIN_TYPE_TAG /\ 102 # Reader!ARRAY_END_TYPE_TAG /\ 102 # Reader!TRUE_TYPE_TAG
        /\ 102 \notin Reader!BoolTypeTags
    OBVIOUS
  <2>3. "f" # "[" /\ "f" # "]" /\ "f" # "T" /\ "f" # "F"
    OBVIOUS
  <2> QED BY ONLY <2>1, <2>2, <2>3, Zenon DEF KindsAgree
<1>9. KindsAgree("c", 99) /\ 99 \in Reader!FourByteTypeTags
  <2>1. 99 \in Reader!TypeTagValues /\ 99 \in 1..255 /\ 99 \in Reader!FourByteTypeTags
    BY DEF Reader!TypeTagValues
  <2>2. /\ 99 # Reader!ARRAY_BEGIN_TYPE_TAG /\ 99 # Reader!ARRAY_END_TYPE_TAG /\ 99 # Reader!TRUE_TYPE_TAG
        /\ 99 \notin Reader!BoolTypeTags
    OBVIOUS
  <2>3. "c" # "[" /\ "c" # "]" /\ "c" # "T" /\ "c" # "F"
    OBVIOUS
  <2> QED BY ONLY <2>1, <2>2, <2>3, Zenon DEF KindsAgree
<1>10. KindsAgree("r", 114) /\ 114 \in Reader!FourByteTypeTags
  <2>1. 114 \in Reader!TypeTagValues /\ 114 \in 1..255 /\ 114 \in Reader!FourByteTypeTags
    BY DEF Reader!TypeTagValues
  <2>2. /\ 114 # Reader!ARRAY_BEGIN_TYPE_TAG /\ 114 # Reader!ARRAY_END_TYPE_TAG /\ 114 # Reader!TRUE_TYPE_TAG
        /\ 114 \notin Reader!BoolTypeTags
    OBVIOUS
  <2>3. "r" # "[" /\ "r" # "]" /\ "r" # "T" /\ "r" # "F"
    OBVIOUS
  <2> QED BY ONLY <2>1, <2>2, <2>3, Zenon DEF KindsAgree
<1>11. KindsAgree("m", 109) /\ 109 \in Reader!FourByteTypeTags
  <2>1. 109 \in Reader!TypeTagValues /\ 109 \in 1..255 /\ 109 \in Reader!FourByteTypeTags
    BY DEF Reader!TypeTagValues
  <2>2. /\ 109 # Reader!ARRAY_BEGIN_TYPE_TAG /\ 109 # Reader!ARRAY_END_TYPE_TAG /\ 109 # Reader!TRUE_TYPE_TAG
        /\ 109 \notin Reader!BoolTypeTags
    OBVIOUS
  <2>3. "m" # "[" /\ "m" # "]" /\ "m" # "T" /\ "m" # "F"
    OBVIOUS
  <2> QED BY ONLY <2>1, <2>2, <2>3, Zenon DEF KindsAgree
<1>12. KindsAgree("h", 104) /\ 104 \in Reader!EightByteTypeTags
  <2>1. 104 \in Reader!TypeTagValues /\ 104 \in 1..255 /\ 104 \in Reader!EightByteTypeTags
    BY DEF Reader!TypeTagValues
  <2>2. /\ 104 # Reader!ARRAY_BEGIN_TYPE_TAG /\ 104 # Reader!ARRAY_END_TYPE_TAG /\ 104 # Reader!TRUE_TYPE_TAG
        /\ 104 \notin Reader!BoolTypeTags
    OBVIOUS
  <2>3. "h" # "[" /\ "h" # "]" /\ "h" # "T" /\ "h" # "F"
    OBVIOUS
  <2> QED BY ONLY <2>1, <2>2, <2>3, Zenon DEF KindsAgree
<1>13. KindsAgree("t", 116) /\ 116 \in Reader!EightByteTypeTags
  <2>1. 116 \in Reader!TypeTagValues /\ 116 \in 1..255 /\ 116 \in Reader!EightByteTypeTags
    BY DEF Reader!TypeTagValues
  <2>2. /\ 116 # Reader!ARRAY_BEGIN_TYPE_TAG /\ 116 # Reader!ARRAY_END_TYPE_TAG /\ 116 # Reader!TRUE_TYPE_TAG
        /\ 116 \notin Reader!BoolTypeTags
    OBVIOUS
  <2>3. "t" # "[" /\ "t" # "]" /\ "t" # "T" /\ "t" # "F"
    OBVIOUS
  <2> QED BY ONLY <2>1, <2>2, <2>3, Zenon DEF KindsAgree
<1>14. KindsAgree("d", 100) /\ 100 \in Reader!EightByteTypeTags
  <2>1. 100 \in Reader!TypeTagValues /\ 100 \in 1..255 /\ 100 \in Reader!EightByteTypeTags
    BY DEF Reader!TypeTagValues
  <2>2. /\ 100 # Reader!ARRAY_BEGIN_TYPE_TAG /\ 100 # Reader!ARRAY_END_TYPE_TAG /\ 100 # Reader!TRUE_TYPE_TAG
        /\ 100 \notin Reader!BoolTypeTags
    OBVIOUS
  <2>3. "d" # "[" /\ "d" # "]" /\ "d" # "T" /\ "d" # "F"
    OBVIOUS
  <2> QED BY ONLY <2>1, <2>2, <2>3, Zenon DEF KindsAgree
<1>15. KindsAgree("s", 115) /\ 115 \in Reader!StringTypeTags
  <2>1. 115 \in Reader!TypeTagValues /\ 115 \in 1..255 /\ 115 \in Reader!StringTypeTags
    BY DEF Reader!TypeTagValues
  <2>2. /\ 115 # Reader!ARRAY_BEGIN_TYPE_TAG /\ 115 # Reader!ARRAY_END_TYPE_TAG /\ 115 # Reader!TRUE_TYPE_TAG
        /\ 115 \notin Reader!BoolTypeTags
    OBVIOUS
  <2>3. "s" # "[" /\ "s" # "]" /\ "s" # "T" /\ "s" # "F"
    OBVIOUS
  <2> QED BY ONLY <2>1, <2>2, <2>3, Zenon DEF KindsAgree
<1>16. KindsAgree("S", 83) /\ 83 \in Reader!StringTypeTags
  <2>1. 83 \in Reader!TypeTagValues /\ 83 \in 1..255 /\ 83 \in Reader!StringTypeTags
    BY DEF Reader!TypeTagValues
  <2>2. /\ 83 # Reader!ARRAY_BEGIN_TYPE_TAG /\ 83 # Reader!ARRAY_END_TYPE_TAG /\ 83 # Reader!TRUE_TYPE_TAG
        /\ 83 \notin Reader!BoolTypeTags
    OBVIOUS
  <2>3. "S" # "[" /\ "S" # "]" /\ "S" # "T" /\ "S" # "F"
    OBVIOUS
  <2> QED BY ONLY <2>1, <2>2, <2>3, Zenon DEF KindsAgree
<1>17. KindsAgree("b", 98)
  <2>1. 98 \in Reader!TypeTagValues /\ 98 \in 1..255
    BY DEF Reader!TypeTagValues
  <2>2. /\ 98 # Reader!ARRAY_BEGIN_TYPE_TAG /\ 98 # Reader!ARRAY_END_TYPE_TAG /\ 98 # Reader!TRUE_TYPE_TAG
        /\ 98 \notin Reader!BoolTypeTags
    OBVIOUS
  <2>3. "b" # "[" /\ "b" # "]" /\ "b" # "T" /\ "b" # "F"
    OBVIOUS
  <2> QED BY ONLY <2>1, <2>2, <2>3, Zenon DEF KindsAgree
<1> QED BY ONLY <1>1, <1>2, <1>3, <1>4, <1>5, <1>6, <1>7, <1>8, <1>9, <1>10, <1>11, <1>12, <1>13, <1>14, <1>15, <1>16, <1>17

LEMMA TagValueKinds ==
  /\ \A tag \in ZeroLengthTypeTags : TagValue(tag) \in Reader!ZeroLengthTypeTags
  /\ \A tag \in FourByteTypeTags : TagValue(tag) \in Reader!FourByteTypeTags
  /\ \A tag \in EightByteTypeTags : TagValue(tag) \in Reader!EightByteTypeTags
  /\ \A tag \in {"s", "S"} : TagValue(tag) \in Reader!StringTypeTags
  /\ TagValue("b") = Reader!BLOB_TYPE_TAG
  /\ \A tag \in TypeTagValues : KindsAgree(tag, TagValue(tag))
<1>1. \A tag \in ZeroLengthTypeTags : TagValue(tag) \in Reader!ZeroLengthTypeTags /\ KindsAgree(tag, TagValue(tag))
  <2>1. /\ TagValue("T") = 84
        /\ TagValue("F") = 70
        /\ TagValue("N") = 78
        /\ TagValue("I") = 73
        /\ TagValue("[") = 91
        /\ TagValue("]") = 93
    BY TagValues
  <2>2. /\ KindsAgree("T", 84) /\ 84 \in Reader!ZeroLengthTypeTags
        /\ KindsAgree("F", 70) /\ 70 \in Reader!ZeroLengthTypeTags
        /\ KindsAgree("N", 78) /\ 78 \in Reader!ZeroLengthTypeTags
        /\ KindsAgree("I", 73) /\ 73 \in Reader!ZeroLengthTypeTags
        /\ KindsAgree("[", 91) /\ 91 \in Reader!ZeroLengthTypeTags
        /\ KindsAgree("]", 93) /\ 93 \in Reader!ZeroLengthTypeTags
    BY TagNumbers
  <2> QED BY ONLY <2>1, <2>2 DEF ZeroLengthTypeTags
<1>2. \A tag \in FourByteTypeTags : TagValue(tag) \in Reader!FourByteTypeTags /\ KindsAgree(tag, TagValue(tag))
  <2>1. /\ TagValue("i") = 105
        /\ TagValue("f") = 102
        /\ TagValue("c") = 99
        /\ TagValue("r") = 114
        /\ TagValue("m") = 109
    BY TagValues
  <2>2. /\ KindsAgree("i", 105) /\ 105 \in Reader!FourByteTypeTags
        /\ KindsAgree("f", 102) /\ 102 \in Reader!FourByteTypeTags
        /\ KindsAgree("c", 99) /\ 99 \in Reader!FourByteTypeTags
        /\ KindsAgree("r", 114) /\ 114 \in Reader!FourByteTypeTags
        /\ KindsAgree("m", 109) /\ 109 \in Reader!FourByteTypeTags
    BY TagNumbers
  <2> QED BY ONLY <2>1, <2>2 DEF FourByteTypeTags
<1>3. \A tag \in EightByteTypeTags : TagValue(tag) \in Reader!EightByteTypeTags /\ KindsAgree(tag, TagValue(tag))
  <2>1. /\ TagValue("h") = 104
        /\ TagValue("t") = 116
        /\ TagValue("d") = 100
    BY TagValues
  <2>2. /\ KindsAgree("h", 104) /\ 104 \in Reader!EightByteTypeTags
        /\ KindsAgree("t", 116) /\ 116 \in Reader!EightByteTypeTags
        /\ KindsAgree("d", 100) /\ 100 \in Reader!EightByteTypeTags
    BY TagNumbers
  <2> QED BY ONLY <2>1, <2>2 DEF EightByteTypeTags
<1>4. \A tag \in {"s", "S"} : TagValue(tag) \in Reader!StringTypeTags /\ KindsAgree(tag, TagValue(tag))
  <2>1. /\ TagValue("s") = 115
        /\ TagValue("S") = 83
    BY TagValues
  <2>2. /\ KindsAgree("s", 115) /\ 115 \in Reader!StringTypeTags
        /\ KindsAgree("S", 83) /\ 83 \in Reader!StringTypeTags
    BY TagNumbers
  <2> QED BY ONLY <2>1, <2>2 DEF Reader!BLOB_TYPE_TAG
<1>5. TagValue("b") = Reader!BLOB_TYPE_TAG /\ KindsAgree("b", TagValue("b"))
  <2>1. /\ TagValue("b") = 98
    BY TagValues
  <2>2. /\ KindsAgree("b", 98)
    BY TagNumbers
  <2> QED BY ONLY <2>1, <2>2 DEF Reader!BLOB_TYPE_TAG
<1>6. \A tag \in TypeTagValues : KindsAgree(tag, TagValue(tag))
  BY ONLY <1>1, <1>2, <1>3, <1>4, <1>5, Zenon DEF TypeTagValues
<1> QED BY ONLY <1>1, <1>2, <1>3, <1>4, <1>5, <1>6

LEMMA ByteValues ==
  /\ ByteValue(ByteOf("zero", 0, 0)) = 0
  /\ \A k \in Nat : ByteValue(ByteOf("address", 0, k)) = 47
  /\ \A n \in Nat : \A k \in Nat : ByteValue(ByteOf("size", n, k)) = Reader!FromUInt32(n)[k]
  /\ \A k \in 1..8 : ByteValue(ByteOf("bundle", 0, k)) = Reader!BUNDLE_TAG[k]
  /\ \A k \in Nat : k > 8 => ByteValue(ByteOf("bundle", 0, k)) = 255
  /\ \A tag \in TypeTagValues \cup {","} : ByteValue(ByteOf(tag, 0, 0)) = TagValue(tag)
  /\ \A tag \in TypeTagValues : \A k \in Nat :
       k # 0 => /\ ByteValue(ByteOf(tag, 0, k)) \in 1..255
                /\ ByteValue(ByteOf(tag, 0, k)) # 0
<1>1. \A what, n, k : /\ ByteOf(what, n, k).what = what /\ ByteOf(what, n, k).value = n
                      /\ ByteOf(what, n, k).index = k
  BY DEF ByteOf
<1>2. \A tag \in TypeTagValues \cup {","} : tag \notin {"zero", "size", "bundle", "address"}
  BY DEF TypeTagValues, ZeroLengthTypeTags, FourByteTypeTags, EightByteTypeTags
<1>3. /\ ByteValue(ByteOf("zero", 0, 0)) = 0
      /\ \A k \in Nat : ByteValue(ByteOf("address", 0, k)) = 47
      /\ \A n \in Nat : \A k \in Nat : ByteValue(ByteOf("size", n, k)) = Reader!FromUInt32(n)[k]
  BY <1>1 DEF ByteValue
<1>4. \A k \in Nat : ByteValue(ByteOf("bundle", 0, k)) =
                       IF k <= 8 THEN Reader!BUNDLE_TAG[k] ELSE 255
  BY <1>1 DEF ByteValue
<1>5. \A k \in 1..8 : ByteValue(ByteOf("bundle", 0, k)) = Reader!BUNDLE_TAG[k]
  BY <1>4
<1>6. \A k \in Nat : k > 8 => ByteValue(ByteOf("bundle", 0, k)) = 255
  BY <1>4
<1>7. ASSUME NEW tag \in TypeTagValues \cup {","}, NEW k \in Nat
      PROVE  ByteValue(ByteOf(tag, 0, k)) = IF k = 0 THEN TagValue(tag) ELSE 255 - (k % 128)
  <2>1. tag # "zero" /\ tag # "size" /\ tag # "bundle" /\ tag # "address"
    BY <1>2
  <2> DEFINE b == ByteOf(tag, 0, k)
  <2>2. b.what = tag /\ b.index = k
    BY DEF ByteOf
  <2> HIDE DEF b
  <2>3. ByteValue(b) = IF b.index = 0 THEN TagValue(b.what) ELSE 255 - (b.index % 128)
    BY <2>1, <2>2 DEF ByteValue
  <2> QED BY <2>2, <2>3 DEF b
<1>8. \A k \in Nat : 255 - (k % 128) \in 1..255 /\ 255 - (k % 128) # 0
  OBVIOUS
<1>9. \A tag \in TypeTagValues \cup {","} : ByteValue(ByteOf(tag, 0, 0)) = TagValue(tag)
  <2>1. 0 \in Nat
    OBVIOUS
  <2> QED BY <1>7, <2>1
<1>10. ASSUME NEW tag \in TypeTagValues, NEW k \in Nat, k # 0
       PROVE  /\ ByteValue(ByteOf(tag, 0, k)) \in 1..255
              /\ ByteValue(ByteOf(tag, 0, k)) # 0
  <2>1. ByteValue(ByteOf(tag, 0, k)) = 255 - (k % 128)
    BY <1>7, <1>10
  <2> QED BY <1>8, <2>1
<1> QED BY <1>3, <1>5, <1>6, <1>9, <1>10

LEMMA TextIsNotZero ==
  ASSUME NEW tag \in TypeTagValues, NEW k \in Nat, k # 0
  PROVE  ByteValue(ByteOf(tag, 0, k)) # 0
<1>1. \A t \in TypeTagValues : \A j \in Nat :
        j # 0 => /\ ByteValue(ByteOf(t, 0, j)) \in 1..255
                 /\ ByteValue(ByteOf(t, 0, j)) # 0
  BY ONLY ByteValues, Zenon
<1> QED BY ONLY <1>1, tag \in TypeTagValues, k \in Nat, k # 0, Zenon

(* What was written of a string, of a blob and of anything padded.         *)
LEMMA PaddedAre ==
  ASSUME NEW s \in Seq(Byte)
  PROVE  /\ Len(s) \in Nat
         /\ \A j \in 1..Len(s) : Padded(s)[j] = s[j]
         /\ \A j \in (Len(s) + 1)..RoundUp4(Len(s)) : Padded(s)[j] = ByteOf("zero", 0, 0)
<1> DEFINE pad == RoundUp4(Len(s)) - Len(s)
           zeros == Zeros(pad)
<1>1. Len(s) \in Nat
  BY LenProperties
<1>2. pad \in Nat /\ RoundUp4(Len(s)) \in Nat
  <2>1. RoundUp4(Len(s)) \in Nat /\ Len(s) <= RoundUp4(Len(s))
    BY <1>1, RoundUp4Bounds
  <2> QED BY <1>1, <2>1
<1>3. Padded(s) = s \o zeros
  BY DEF Padded
<1>4. zeros \in Seq(Byte) /\ Len(zeros) = pad
  BY <1>2, ZerosType
<1>5. \A k \in 1..pad : zeros[k] = ByteOf("zero", 0, 0)
  BY DEF Zeros
<1> HIDE DEF zeros
<1>6. /\ \A k \in 1..Len(s) : (s \o zeros)[k] = s[k]
      /\ \A k \in 1..Len(zeros) : (s \o zeros)[Len(s) + k] = zeros[k]
  BY <1>4, ConcatType
<1>7. ASSUME NEW j \in (Len(s) + 1)..RoundUp4(Len(s)) PROVE Padded(s)[j] = ByteOf("zero", 0, 0)
  <2>1. j - Len(s) \in 1..pad /\ Len(s) + (j - Len(s)) = j
    BY <1>1, <1>2
  <2>2. (s \o zeros)[Len(s) + (j - Len(s))] = zeros[j - Len(s)]
    BY <1>4, <1>6, <2>1
  <2> QED BY <1>3, <1>5, <2>1, <2>2
<1> QED BY <1>1, <1>3, <1>6, <1>7

LEMMA BytesAre ==
  ASSUME NEW what, NEW n \in Nat
  PROVE  \A j \in 1..n : Bytes(what, n)[j] = ByteOf(what, 0, j)
BY DEF Bytes

(* What is written of n characters and a null.                             *)
Terminated(what, n, bytes) ==
  /\ \A j \in 1..n : bytes[j] = ByteOf(what, 0, j)
  /\ \A j \in (n + 1)..RoundUp4(n + 1) : bytes[j] = ByteOf("zero", 0, 0)
  /\ bytes \in Seq(Byte) /\ Len(bytes) = RoundUp4(n + 1)

LEMMA TerminatedAre ==
  ASSUME NEW what \in What, NEW n \in Nat, NEW bytes,
         bytes = Padded(Bytes(what, n) \o Zeros(1))
  PROVE  Terminated(what, n, bytes)
<1> DEFINE b == Bytes(what, n)
           z == Zeros(1)
           s == b \o z
<1>1. b \in Seq(Byte) /\ Len(b) = n
  BY BytesType
<1>2. z \in Seq(Byte) /\ Len(z) = 1
  <2>1. 1 \in Nat
    OBVIOUS
  <2> QED BY <2>1, ZerosType
<1>3. z[1] = ByteOf("zero", 0, 0)
  BY DEF Zeros
<1>4. \A j \in 1..n : b[j] = ByteOf(what, 0, j)
  BY BytesAre
<1> HIDE DEF b, z
<1>5. /\ s \in Seq(Byte) /\ Len(s) = n + 1
      /\ \A j \in 1..n : s[j] = b[j]
      /\ s[n + 1] = z[1]
  <2>1. /\ s \in Seq(Byte) /\ Len(s) = Len(b) + Len(z)
        /\ \A j \in 1..Len(b) : s[j] = b[j]
        /\ \A j \in 1..Len(z) : s[Len(b) + j] = z[j]
    <3>1. b \in Seq(Byte) /\ z \in Seq(Byte)
      BY <1>1, <1>2
    <3> QED BY ONLY <3>1, ConcatType DEF s
  <2>2. 1 \in 1..Len(z)
    BY <1>2
  <2> HIDE DEF s
  <2> QED BY <1>1, <1>2, <2>1, <2>2
<1>6. bytes = Padded(s)
  BY DEF b, z
<1> HIDE DEF s
<1>7. /\ \A j \in 1..(n + 1) : bytes[j] = s[j]
      /\ \A j \in ((n + 1) + 1)..RoundUp4(n + 1) : bytes[j] = ByteOf("zero", 0, 0)
  BY <1>5, <1>6, PaddedAre
<1>8. ASSUME NEW j \in 1..n PROVE bytes[j] = ByteOf(what, 0, j)
  <2>1. j \in 1..(n + 1)
    OBVIOUS
  <2> QED BY <1>4, <1>5, <1>7, <2>1
<1>9. ASSUME NEW j \in (n + 1)..RoundUp4(n + 1) PROVE bytes[j] = ByteOf("zero", 0, 0)
  <2>1. RoundUp4(n + 1) \in Nat
    <3>1. n + 1 \in Nat
      OBVIOUS
    <3> QED BY <3>1, RoundUp4Bounds
  <2>2. CASE j = n + 1
    <3>1. s[n + 1] = z[1] /\ n + 1 \in 1..(n + 1)
      BY <1>5
    <3> QED BY <1>3, <1>7, <2>2, <3>1
  <2>3. CASE j # n + 1
    <3>1. j \in ((n + 1) + 1)..RoundUp4(n + 1)
      BY <2>1, <2>3
    <3> QED BY <1>7, <3>1
  <2> QED BY <2>2, <2>3
<1>10. bytes \in Seq(Byte) /\ Len(bytes) = RoundUp4(n + 1)
  BY <1>5, <1>6, PaddedType
<1> QED BY <1>8, <1>9, <1>10 DEF Terminated

-----------------------------------------------------------------------------
(* 3. One argument.                                                        *)

(* One argument.                                                           *)

LEMMA KindsApart ==
  /\ \A v \in Reader!ZeroLengthTypeTags :
       /\ v \in Reader!TypeTagValues /\ v \notin Reader!FourByteTypeTags
       /\ v \notin Reader!EightByteTypeTags /\ v \notin Reader!StringTypeTags
       /\ v # Reader!BLOB_TYPE_TAG
  /\ \A v \in Reader!FourByteTypeTags :
       /\ v \in Reader!TypeTagValues /\ v \notin Reader!BoolTypeTags
  /\ \A v \in Reader!EightByteTypeTags :
       /\ v \in Reader!TypeTagValues /\ v \notin Reader!BoolTypeTags
       /\ v \notin Reader!FourByteTypeTags
  /\ \A v \in Reader!StringTypeTags :
       /\ v \in Reader!TypeTagValues /\ v \notin Reader!BoolTypeTags
       /\ v \notin Reader!FourByteTypeTags /\ v \notin Reader!EightByteTypeTags
  /\ LET v == Reader!BLOB_TYPE_TAG
     IN  /\ v \in Reader!TypeTagValues /\ v \notin Reader!BoolTypeTags
         /\ v \notin Reader!FourByteTypeTags /\ v \notin Reader!EightByteTypeTags
         /\ v \notin Reader!StringTypeTags
BY DEF Reader!TypeTagValues, Reader!ZeroLengthTypeTags, Reader!FourByteTypeTags,
       Reader!EightByteTypeTags, Reader!StringTypeTags, Reader!BLOB_TYPE_TAG,
       Reader!ARRAY_BEGIN_TYPE_TAG, Reader!ARRAY_END_TYPE_TAG, Reader!BoolTypeTags,
       Reader!TRUE_TYPE_TAG

IteratorAt(t, p) == [typeTag |-> t, argument |-> p]

(* The tag v at t, for data from p to q, is passed over by the loops of    *)
(* the validation and of the iterators alike.                              *)
PassesOver(m, v, t, p, q) ==
  /\ Reader!ArgumentEnd(m, v, p) = q
  /\ Reader!Advance(m, IteratorAt(t, p)) = IteratorAt(t + 1, q)

LEMMA IteratorIs ==
  ASSUME NEW t, NEW p
  PROVE  IteratorAt(t, p).typeTag = t /\ IteratorAt(t, p).argument = p
BY DEF IteratorAt

LEMMA AdvanceIs ==
  ASSUME NEW m, NEW t \in Nat, NEW p, NEW v, Reader!At(m, t) = v
  PROVE  LET passed(q) == Reader!Advance(m, IteratorAt(t, p)) = IteratorAt(t + 1, q)
         IN  /\ v \in Reader!ZeroLengthTypeTags => passed(p)
             /\ v \in Reader!FourByteTypeTags => passed(p + 4)
             /\ v \in Reader!EightByteTypeTags => passed(p + 8)
             /\ v \in Reader!StringTypeTags => passed(Reader!FindStr4EndUnchecked(m, p))
             /\ v = Reader!BLOB_TYPE_TAG =>
                  passed(p + 4 + Reader!RoundUp4(Reader!ToInt32(m, p)))
<1>1. t # Reader!NULL
  BY DEF Reader!NULL
<1> DEFINE i == IteratorAt(t, p)
<1>2. i.typeTag = t /\ i.argument = p
  BY IteratorIs
<1> HIDE DEF i
<1> QED BY <1>1, <1>2, KindsApart DEF Reader!Advance, IteratorAt, i

(* What an accessor returns, by the kind of its tag.                       *)
ByKind(v, bool, four, eight, string, blob, array) ==
  CASE v \in Reader!BoolTypeTags -> bool
    [] v \in Reader!FourByteTypeTags -> four
    [] v \in Reader!EightByteTypeTags -> eight
    [] v \in Reader!StringTypeTags -> string
    [] v = Reader!BLOB_TYPE_TAG -> blob
    [] v = Reader!ARRAY_BEGIN_TYPE_TAG -> array
    [] OTHER -> << >>

LEMMA ByKindIs ==
  ASSUME NEW v, NEW bool, NEW four, NEW eight, NEW string, NEW blob, NEW array,
         NEW x, x = ByKind(v, bool, four, eight, string, blob, array)
  PROVE  /\ v \in Reader!BoolTypeTags => x = bool
         /\ v \in Reader!FourByteTypeTags => x = four
         /\ v \in Reader!EightByteTypeTags => x = eight
         /\ v \in Reader!StringTypeTags => x = string
         /\ v = Reader!BLOB_TYPE_TAG => x = blob
         /\ v = Reader!ARRAY_BEGIN_TYPE_TAG => x = array
         /\ v \in {78, 73, Reader!ARRAY_END_TYPE_TAG} => x = << >>
<1>1. v = Reader!ARRAY_BEGIN_TYPE_TAG \/ v \in {78, 73, Reader!ARRAY_END_TYPE_TAG} =>
        /\ v \notin Reader!BoolTypeTags /\ v \notin Reader!FourByteTypeTags
        /\ v \notin Reader!EightByteTypeTags /\ v \notin Reader!StringTypeTags
        /\ v # Reader!BLOB_TYPE_TAG
  BY DEF Reader!FourByteTypeTags, Reader!EightByteTypeTags, Reader!StringTypeTags,
         Reader!BLOB_TYPE_TAG, Reader!ARRAY_BEGIN_TYPE_TAG, Reader!ARRAY_END_TYPE_TAG,
         Reader!BoolTypeTags, Reader!TRUE_TYPE_TAG
<1>2. v \in {78, 73, Reader!ARRAY_END_TYPE_TAG} => v # Reader!ARRAY_BEGIN_TYPE_TAG
  BY DEF Reader!ARRAY_BEGIN_TYPE_TAG, Reader!ARRAY_END_TYPE_TAG
<1> QED BY <1>1, <1>2, KindsApart DEF ByKind

LEMMA ValueIs ==
  ASSUME NEW m, NEW t, NEW p, NEW v, Reader!At(m, t) = v
  PROVE  /\ v \in Reader!FourByteTypeTags => Reader!Value(m, IteratorAt(t, p)) = SubSeq(m, p + 1, p + 4)
         /\ v \in Reader!EightByteTypeTags => Reader!Value(m, IteratorAt(t, p)) = SubSeq(m, p + 1, p + 8)
         /\ v \in Reader!StringTypeTags => Reader!Value(m, IteratorAt(t, p)) = Reader!CString(m, p)
         /\ v = Reader!BLOB_TYPE_TAG => Reader!Value(m, IteratorAt(t, p)) = SubSeq(m, p + 5, p + 4 + Reader!ToInt32(m, p))
<1> DEFINE i == IteratorAt(t, p)
           bool == << v = Reader!TRUE_TYPE_TAG >>
           four == SubSeq(m, p + 1, p + 4)
           eight == SubSeq(m, p + 1, p + 8)
           string == Reader!CString(m, p)
           blob == SubSeq(m, p + 5, p + 4 + Reader!ToInt32(m, p))
           array == << Reader!ComputeArrayItemCount(m, i) >>
           x == Reader!Value(m, i)
<1>1. i.typeTag = t /\ i.argument = p
  BY IteratorIs
<1> HIDE DEF i
<1>2. x = ByKind(v, bool, four, eight, string, blob, array)
  BY <1>1 DEF Reader!Value, ByKind
<1> HIDE DEF bool, four, eight, string, blob, array, x
<1>3. /\ v \in Reader!BoolTypeTags => x = bool
      /\ v \in Reader!FourByteTypeTags => x = four
      /\ v \in Reader!EightByteTypeTags => x = eight
      /\ v \in Reader!StringTypeTags => x = string
      /\ v = Reader!BLOB_TYPE_TAG => x = blob
      /\ v = Reader!ARRAY_BEGIN_TYPE_TAG => x = array
      /\ v \in {78, 73, Reader!ARRAY_END_TYPE_TAG} => x = << >>
  BY <1>2, ByKindIs
<1> QED BY <1>3 DEF bool, four, eight, string, blob, array, x, i

LEMMA OtherValueIs ==
  ASSUME NEW m, NEW t, NEW p, NEW v, Reader!At(m, t) = v
  PROVE  /\ v \in Reader!BoolTypeTags => Reader!Value(m, IteratorAt(t, p)) = << v = Reader!TRUE_TYPE_TAG >>
         /\ v = Reader!ARRAY_BEGIN_TYPE_TAG =>
              Reader!Value(m, IteratorAt(t, p)) = << Reader!ComputeArrayItemCount(m, IteratorAt(t, p)) >>
         /\ v \in {78, 73, Reader!ARRAY_END_TYPE_TAG} => Reader!Value(m, IteratorAt(t, p)) = << >>
<1> DEFINE i == IteratorAt(t, p)
           bool == << v = Reader!TRUE_TYPE_TAG >>
           four == SubSeq(m, p + 1, p + 4)
           eight == SubSeq(m, p + 1, p + 8)
           string == Reader!CString(m, p)
           blob == SubSeq(m, p + 5, p + 4 + Reader!ToInt32(m, p))
           array == << Reader!ComputeArrayItemCount(m, i) >>
           x == Reader!Value(m, i)
<1>1. i.typeTag = t /\ i.argument = p
  BY IteratorIs
<1> HIDE DEF i
<1>2. x = ByKind(v, bool, four, eight, string, blob, array)
  BY <1>1 DEF Reader!Value, ByKind
<1> HIDE DEF bool, four, eight, string, blob, array, x
<1>3. /\ v \in Reader!BoolTypeTags => x = bool
      /\ v \in Reader!FourByteTypeTags => x = four
      /\ v \in Reader!EightByteTypeTags => x = eight
      /\ v \in Reader!StringTypeTags => x = string
      /\ v = Reader!BLOB_TYPE_TAG => x = blob
      /\ v = Reader!ARRAY_BEGIN_TYPE_TAG => x = array
      /\ v \in {78, 73, Reader!ARRAY_END_TYPE_TAG} => x = << >>
  BY <1>2, ByKindIs
<1> QED BY <1>3 DEF bool, four, eight, string, blob, array, x, i

LEMMA ZeroLengthReads ==
  ASSUME NEW m, NEW t \in Nat, NEW p \in Nat, NEW v \in Reader!ZeroLengthTypeTags, Reader!At(m, t) = v
  PROVE  PassesOver(m, v, t, p, p)
<1>1. Reader!ArgumentEnd(m, v, p) = p
  BY KindsApart DEF Reader!ArgumentEnd
<1>2. Reader!Advance(m, IteratorAt(t, p)) = IteratorAt(t + 1, p)
  BY AdvanceIs
<1> QED BY <1>1, <1>2 DEF PassesOver

LEMMA FourByteReads ==
  ASSUME NEW m \in Seq(Reader!Byte), NEW t \in Nat, NEW p \in Nat, p + 4 <= Len(m),
         NEW v \in Reader!FourByteTypeTags, Reader!At(m, t) = v
  PROVE  /\ PassesOver(m, v, t, p, p + 4)
         /\ Reader!Value(m, IteratorAt(t, p)) = SubSeq(m, p + 1, p + 4)
<1>1. Reader!ArgumentEnd(m, v, p) = p + 4
  BY KindsApart DEF Reader!ArgumentEnd
<1>2. Reader!Advance(m, IteratorAt(t, p)) = IteratorAt(t + 1, p + 4)
  BY AdvanceIs
<1>3. Reader!Value(m, IteratorAt(t, p)) = SubSeq(m, p + 1, p + 4)
  BY ValueIs
<1> QED BY <1>1, <1>2, <1>3 DEF PassesOver

LEMMA EightByteReads ==
  ASSUME NEW m \in Seq(Reader!Byte), NEW t \in Nat, NEW p \in Nat, p + 8 <= Len(m),
         NEW v \in Reader!EightByteTypeTags, Reader!At(m, t) = v
  PROVE  /\ PassesOver(m, v, t, p, p + 8)
         /\ Reader!Value(m, IteratorAt(t, p)) = SubSeq(m, p + 1, p + 8)
<1>1. Reader!ArgumentEnd(m, v, p) = p + 8
  BY KindsApart DEF Reader!ArgumentEnd
<1>2. Reader!Advance(m, IteratorAt(t, p)) = IteratorAt(t + 1, p + 8)
  BY AdvanceIs
<1>3. Reader!Value(m, IteratorAt(t, p)) = SubSeq(m, p + 1, p + 8)
  BY ValueIs
<1> QED BY <1>1, <1>2, <1>3 DEF PassesOver

LEMMA StringArgumentReads ==
  ASSUME NEW m \in Seq(Reader!Byte), Len(m) % 4 = 0, NEW t \in Nat,
         NEW p \in Nat, NEW n \in Nat, NEW e, IsString(m, p, n, e),
         NEW v \in Reader!StringTypeTags, Reader!At(m, t) = v
  PROVE  /\ PassesOver(m, v, t, p, e)
         /\ Reader!Value(m, IteratorAt(t, p)) = SubSeq(m, p + 1, p + n)
<1>0. /\ Reader!FindStr4End(m, p) = e
      /\ Reader!FindStr4EndUnchecked(m, p) = e
      /\ Reader!CString(m, p) = SubSeq(m, p + 1, p + n)
  BY StringReads
<1>1. Reader!ArgumentEnd(m, v, p) = e
  BY <1>0, KindsApart DEF Reader!ArgumentEnd
<1>2. Reader!Advance(m, IteratorAt(t, p)) = IteratorAt(t + 1, e)
  BY <1>0, AdvanceIs
<1>3. Reader!Value(m, IteratorAt(t, p)) = SubSeq(m, p + 1, p + n)
  BY <1>0, ValueIs
<1> QED BY <1>1, <1>2, <1>3 DEF PassesOver

LEMMA BlobReads ==
  ASSUME NEW m \in Seq(Reader!Byte), NEW t \in Nat, NEW p \in Nat,
         NEW n \in Nat, IsSize(n), p + 4 + RoundUp4(n) <= Len(m), Reader!ToInt32(m, p) = n,
         Reader!At(m, t) = Reader!BLOB_TYPE_TAG
  PROVE  /\ PassesOver(m, Reader!BLOB_TYPE_TAG, t, p, p + 4 + RoundUp4(n))
         /\ Reader!Value(m, IteratorAt(t, p)) = SubSeq(m, p + 5, p + 4 + n)
<1> DEFINE v == Reader!BLOB_TYPE_TAG
           r == RoundUp4(n)
<1>0. n \in Nat /\ r \in Nat /\ Reader!RoundUp4(n) = r /\ Reader!IsValidElementSizeValue(n)
      /\ Len(m) \in Nat
  <2>1. n \in Nat /\ Reader!IsValidElementSizeValue(n)
    BY DEF IsSize, Reader!IsValidElementSizeValue
  <2> QED BY <2>1, RoundUp4Is
<1>1. /\ v \in Reader!TypeTagValues /\ v \notin Reader!BoolTypeTags
      /\ v \notin Reader!FourByteTypeTags /\ v \notin Reader!EightByteTypeTags
      /\ v \notin Reader!StringTypeTags
  BY KindsApart
<1>2. p + 4 + r <= Len(m)
  OBVIOUS
<1> HIDE DEF r
<1>3. ~(p + 4 > Len(m)) /\ ~(r > Len(m) - (p + 4))
  BY <1>0, <1>2
<1>4. Reader!ArgumentEnd(m, v, p) = p + 4 + r
  BY <1>0, <1>1, <1>3 DEF Reader!ArgumentEnd
<1>5. Reader!Advance(m, IteratorAt(t, p)) = IteratorAt(t + 1, p + 4 + r)
  BY <1>0, AdvanceIs
<1>6. Reader!Value(m, IteratorAt(t, p)) = SubSeq(m, p + 5, p + 4 + n)
  BY <1>0, <1>1, ValueIs
<1> QED BY <1>4, <1>5, <1>6 DEF PassesOver, r

(* What was put, and what is read in its place.                            *)

LEMMA BuilderMinIs ==
  ASSUME NEW T \in SUBSET Nat, NEW x \in T, \A y \in T : x <= y
  PROVE  Min(T) = x
<1>1. Min(T) \in T /\ \A y \in T : Min(T) <= y
  BY DEF Min
<1>2. Min(T) \in Nat /\ x \in Nat /\ Min(T) <= x /\ x <= Min(T)
  BY <1>1
<1> QED BY <1>2

ContentOf(tag, bytes) == { j \in DOMAIN bytes : bytes[j].what = tag }
PutBytes(tag, bytes) ==
  [ j \in 1..Cardinality(ContentOf(tag, bytes)) |->
      ByteValue(bytes[Min(ContentOf(tag, bytes)) + j - 1]) ]

LEMMA ValuePutIs ==
  ASSUME NEW arguments, NEW k, NEW tag, tag = arguments[k].tag
  PROVE  /\ tag \notin {"T", "F", "["} =>
              ValuePut(arguments, k) = PutBytes(tag, arguments[k].bytes)
         /\ tag = "[" => ValuePut(arguments, k) = << Cardinality(ItemsOfArray(arguments, k)) >>
<1>1. "[" \notin {"T", "F"}
  OBVIOUS
<1> QED BY <1>1 DEF ValuePut, PutBytes, ContentOf

LEMMA BoolPutIs ==
  ASSUME NEW arguments, NEW k, NEW tag, tag = arguments[k].tag, tag \in {"T", "F"}
  PROVE  ValuePut(arguments, k) = << tag = "T" >>
BY DEF ValuePut

(* The values of n bytes after the first f.                                *)
Part(bytes, f, n) == [ j \in 1..n |-> ByteValue(bytes[f + j]) ]

LEMMA PutBytesAre ==
  ASSUME NEW tag, NEW bytes \in Seq(Byte), NEW f \in Nat, NEW n \in Nat, f + n <= Len(bytes),
         \A j \in 1..f : bytes[j].what # tag,
         \A j \in 1..n : bytes[f + j].what = tag,
         \A j \in (f + n + 1)..Len(bytes) : bytes[j].what # tag
  PROVE  PutBytes(tag, bytes) = Part(bytes, f, n)
<1> DEFINE c == ContentOf(tag, bytes)
<1>1. c = (f + 1)..(f + n)
  <2>1. ASSUME NEW j \in DOMAIN bytes
        PROVE  bytes[j].what = tag <=> j \in (f + 1)..(f + n)
    <3>1. j \in Nat /\ 1 <= j /\ j <= Len(bytes) /\ Len(bytes) \in Nat
      BY LenProperties
    <3>2. CASE j <= f
      BY <3>1, <3>2
    <3>3. CASE j > f /\ j <= f + n
      <4>1. j - f \in 1..n /\ f + (j - f) = j
        BY <3>1, <3>3
      <4>2. bytes[f + (j - f)].what = tag
        BY <4>1
      <4> QED BY <3>1, <3>3, <4>1, <4>2
    <3>4. CASE j > f + n
      <4>1. j \in (f + n + 1)..Len(bytes)
        BY <3>1, <3>4
      <4> QED BY <3>1, <3>4, <4>1
    <3> QED BY <3>1, <3>2, <3>3, <3>4
  <2>2. \A j \in (f + 1)..(f + n) : j \in DOMAIN bytes
    BY LenProperties
  <2> QED BY <2>1, <2>2 DEF ContentOf
<1>2. Cardinality(c) = n
  <2>1. f + 1 \in Int /\ f + n \in Int
    OBVIOUS
  <2>2. Cardinality((f + 1)..(f + n)) = IF f + 1 > f + n THEN 0 ELSE f + n - (f + 1) + 1
    BY <2>1, FS_Interval
  <2>3. (IF f + 1 > f + n THEN 0 ELSE f + n - (f + 1) + 1) = n
    OBVIOUS
  <2> QED BY <1>1, <2>2, <2>3
<1>3. n # 0 => Min(c) = f + 1
  <2> SUFFICES ASSUME n # 0 PROVE Min(c) = f + 1
    OBVIOUS
  <2>1. c \in SUBSET Nat /\ f + 1 \in c /\ \A y \in c : f + 1 <= y
    BY <1>1
  <2> HIDE DEF c
  <2> QED BY <2>1, BuilderMinIs
<1> HIDE DEF c
<1>4. PutBytes(tag, bytes) = [ j \in 1..n |-> ByteValue(bytes[Min(c) + j - 1]) ]
  BY <1>2 DEF PutBytes, c
<1>5. ASSUME NEW j \in 1..n PROVE Min(c) + j - 1 = f + j
  BY <1>3
<1> QED BY <1>4, <1>5 DEF Part

(* The bytes of an argument, or of a part of it, lie at p.                 *)
LiesAt(m, p, bytes) ==
  /\ p + Len(bytes) <= Len(m)
  /\ \A j \in 1..Len(bytes) : m[p + j] = ByteValue(bytes[j])

(* What reading an argument at p has to give.                              *)
Reads(m, a, t, p) ==
  LET q == p + Len(a.bytes)
  IN  /\ q \in Nat /\ q % 4 = 0
      /\ PassesOver(m, TagValue(a.tag), t, p, q)
      /\ a.tag \notin {"T", "F", "["} =>
           Reader!Value(m, IteratorAt(t, p)) = PutBytes(a.tag, a.bytes)
      /\ a.tag \in {"T", "F"} =>
           Reader!Value(m, IteratorAt(t, p)) = << a.tag = "T" >>

LEMMA ReadsIs ==
  ASSUME NEW m, NEW a, NEW t, NEW p, NEW tag, NEW bytes, a.tag = tag, a.bytes = bytes,
         NEW q \in Nat, q = p + Len(bytes), q % 4 = 0, PassesOver(m, TagValue(tag), t, p, q),
         tag \notin {"T", "F", "["} => Reader!Value(m, IteratorAt(t, p)) = PutBytes(tag, bytes),
         tag \in {"T", "F"} => Reader!Value(m, IteratorAt(t, p)) = << tag = "T" >>
  PROVE  Reads(m, a, t, p)
BY DEF Reads

LEMMA FixedArgument ==
  ASSUME NEW m \in Seq(Reader!Byte), NEW p \in Nat, NEW tag \in TypeTagValues, NEW n \in Nat,
         LiesAt(m, p, Bytes(tag, n))
  PROVE  /\ SubSeq(m, p + 1, p + n) = PutBytes(tag, Bytes(tag, n))
         /\ p + n <= Len(m)
<1> DEFINE bytes == Bytes(tag, n)
           s == [ j \in 1..n |-> ByteValue(bytes[0 + j]) ]
<1>1. bytes \in Seq(Byte) /\ Len(bytes) = n
  BY BytesType DEF What
<1>2. \A j \in 1..n : bytes[j] = ByteOf(tag, 0, j)
  BY BytesAre
<1> HIDE DEF bytes
<1>3. \A j \in 1..n : bytes[j].what = tag
  <2>1. \A j : ByteOf(tag, 0, j).what = tag
    BY DEF ByteOf
  <2> QED BY <1>2, <2>1
<1>4. PutBytes(tag, bytes) = s
  <2>1. PICK f \in Nat : f = 0
    OBVIOUS
  <2>2. f + n <= Len(bytes)
    BY <1>1, <2>1
  <2>3. \A j \in 1..n : bytes[f + j].what = tag
    BY <1>3, <2>1
  <2>4. \A j \in (f + n + 1)..Len(bytes) : bytes[j].what # tag
    BY <1>1, <2>1
  <2>5. \A j \in 1..f : bytes[j].what # tag
    BY <2>1
  <2> HIDE DEF s
  <2>6. PutBytes(tag, bytes) = Part(bytes, f, n)
    <3>1. bytes \in Seq(Byte) /\ n \in Nat /\ f \in Nat
      BY <1>1
    <3> QED BY ONLY <3>1, <2>2, <2>3, <2>4, <2>5, PutBytesAre
  <2> QED BY <2>1, <2>6 DEF s, Part
<1>5. p + n <= Len(m) /\ \A j \in 1..n : m[p + j] = ByteValue(bytes[j])
  BY <1>1 DEF LiesAt, bytes
<1>6. \A j \in 1..n : m[p + j] = s[j]
  BY <1>5
<1>7. s = [ j \in 1..n |-> s[j] ]
  OBVIOUS
<1> HIDE DEF s
<1>8. SubSeq(m, p + 1, p + n) = s
  BY <1>5, <1>6, <1>7, SliceIs
<1> QED BY <1>4, <1>5, <1>8 DEF bytes


LEMMA ZeroLengthArgument ==
  ASSUME NEW m, NEW p \in Nat, p % 4 = 0, NEW t \in Nat,
         NEW tag \in ZeroLengthTypeTags, Reader!At(m, t) = TagValue(tag)
  PROVE  Reads(m, TagOnly(tag), t, p)
<1> DEFINE a == TagOnly(tag)
           v == TagValue(tag)
<1>1. a.tag = tag /\ a.bytes = << >>
  BY DEF TagOnly, Argument
<1>2. v \in Reader!ZeroLengthTypeTags
  BY TagValueKinds
<1> HIDE DEF v
<1>3. PassesOver(m, v, t, p, p)
  BY <1>2, ZeroLengthReads DEF v
<1>4. ASSUME tag \notin {"T", "F", "["}
      PROVE  Reader!Value(m, IteratorAt(t, p)) = PutBytes(tag, << >>)
  <2>1. v \in {78, 73, Reader!ARRAY_END_TYPE_TAG}
    <3>1. tag = "N" \/ tag = "I" \/ tag = "]"
      BY <1>4 DEF ZeroLengthTypeTags
    <3>2. TagValue("N") = 78 /\ TagValue("I") = 73 /\ TagValue("]") = Reader!ARRAY_END_TYPE_TAG
      <4>1. TagValue("N") = 78 /\ TagValue("I") = 73 /\ TagValue("]") = 93
        BY TagValues
      <4> QED BY <4>1 DEF Reader!ARRAY_END_TYPE_TAG
    <3> QED BY ONLY <3>1, <3>2, Zenon DEF v
  <2>2. Reader!Value(m, IteratorAt(t, p)) = << >>
    BY <2>1, OtherValueIs DEF v
  <2>3. PutBytes(tag, << >>) = << >>
    <3>1. PICK bytes : bytes = << >>
      OBVIOUS
    <3>2. PICK n \in Nat : n = 0
      OBVIOUS
    <3>3. bytes \in Seq(Byte) /\ Len(bytes) = 0
      BY <3>1
    <3>4. n + n <= Len(bytes) /\ 1..n = {} /\ (n + n + 1)..Len(bytes) = {}
      BY <3>2, <3>3
    <3>5. PutBytes(tag, bytes) = Part(bytes, n, n)
      BY ONLY <3>3, <3>4, n \in Nat, PutBytesAre
    <3>6. Part(bytes, n, n) = << >>
      BY <3>2 DEF Part
    <3> QED BY <3>1, <3>5, <3>6
  <2> QED BY <2>2, <2>3
<1>5. ASSUME tag \in {"T", "F"}
      PROVE  Reader!Value(m, IteratorAt(t, p)) = << tag = "T" >>
  <2>1. KindsAgree(tag, v)
    BY TagValueKinds DEF TypeTagValues, v
  <2>2. v \in Reader!BoolTypeTags /\ (v = Reader!TRUE_TYPE_TAG <=> tag = "T")
    BY <1>5, <2>1 DEF KindsAgree
  <2>3. Reader!Value(m, IteratorAt(t, p)) = << v = Reader!TRUE_TYPE_TAG >>
    BY <2>2, OtherValueIs DEF v
  <2>4. (v = Reader!TRUE_TYPE_TAG) = (tag = "T")
    BY <2>2
  <2> QED BY <2>3, <2>4
<1>6. p = p + Len(<< >>) /\ p \in Nat
  OBVIOUS
<1> HIDE DEF a
<1> QED BY <1>1, <1>3, <1>4, <1>5, <1>6, ReadsIs DEF a, v

LEMMA FourByteArgument ==
  ASSUME NEW m \in Seq(Reader!Byte), NEW p \in Nat, p % 4 = 0, NEW t \in Nat,
         NEW tag \in FourByteTypeTags, Reader!At(m, t) = TagValue(tag),
         LiesAt(m, p, FourBytes(tag).bytes)
  PROVE  Reads(m, FourBytes(tag), t, p)
<1> DEFINE a == FourBytes(tag)
           v == TagValue(tag)
           bytes == Bytes(tag, 4)
           q == p + 4
<1>1. a.tag = tag /\ a.bytes = bytes
  BY DEF FourBytes, Argument
<1>2. v \in Reader!FourByteTypeTags /\ tag \in TypeTagValues
  BY TagValueKinds DEF TypeTagValues
<1>3. 4 \in Nat
  OBVIOUS
<1>4. SubSeq(m, p + 1, p + 4) = PutBytes(tag, bytes) /\ p + 4 <= Len(m)
  BY <1>1, <1>2, <1>3, FixedArgument
<1>5. Len(bytes) = 4
  BY <1>2, <1>3, BytesType DEF What
<1> HIDE DEF v, bytes, a
<1>6. /\ PassesOver(m, v, t, p, p + 4)
      /\ Reader!Value(m, IteratorAt(t, p)) = SubSeq(m, p + 1, p + 4)
  BY <1>2, <1>4, FourByteReads DEF v
<1>7. q \in Nat /\ q = p + Len(bytes) /\ q % 4 = 0
  BY <1>5
<1>8. tag \notin {"T", "F", "["}
  BY DEF FourByteTypeTags
<1>9. PassesOver(m, v, t, p, q)
  BY <1>6
<1> HIDE DEF q
<1> QED BY <1>1, <1>4, <1>6, <1>7, <1>8, <1>9, ReadsIs DEF v, a

LEMMA EightByteArgument ==
  ASSUME NEW m \in Seq(Reader!Byte), NEW p \in Nat, p % 4 = 0, NEW t \in Nat,
         NEW tag \in EightByteTypeTags, Reader!At(m, t) = TagValue(tag),
         LiesAt(m, p, EightBytes(tag).bytes)
  PROVE  Reads(m, EightBytes(tag), t, p)
<1> DEFINE a == EightBytes(tag)
           v == TagValue(tag)
           bytes == Bytes(tag, 8)
           q == p + 8
<1>1. a.tag = tag /\ a.bytes = bytes
  BY DEF EightBytes, Argument
<1>2. v \in Reader!EightByteTypeTags /\ tag \in TypeTagValues
  BY TagValueKinds DEF TypeTagValues
<1>3. 8 \in Nat
  OBVIOUS
<1>4. SubSeq(m, p + 1, p + 8) = PutBytes(tag, bytes) /\ p + 8 <= Len(m)
  BY <1>1, <1>2, <1>3, FixedArgument
<1>5. Len(bytes) = 8
  BY <1>2, <1>3, BytesType DEF What
<1> HIDE DEF v, bytes, a
<1>6. /\ PassesOver(m, v, t, p, p + 8)
      /\ Reader!Value(m, IteratorAt(t, p)) = SubSeq(m, p + 1, p + 8)
  BY <1>2, <1>4, EightByteReads DEF v
<1>7. q \in Nat /\ q = p + Len(bytes) /\ q % 4 = 0
  BY <1>5
<1>8. tag \notin {"T", "F", "["}
  BY DEF EightByteTypeTags
<1>9. PassesOver(m, v, t, p, q)
  BY <1>6
<1> HIDE DEF q
<1> QED BY <1>1, <1>4, <1>6, <1>7, <1>8, <1>9, ReadsIs DEF v, a

LEMMA StringArgument ==
  ASSUME NEW m \in Seq(Reader!Byte), Len(m) % 4 = 0, NEW p \in Nat, p % 4 = 0, NEW t \in Nat,
         NEW tag \in {"s", "S"}, Reader!At(m, t) = TagValue(tag), NEW n \in Nat,
         NEW a, a.tag = tag, a.bytes = Padded(Bytes(tag, n) \o Zeros(1)),
         LiesAt(m, p, a.bytes)
  PROVE  Reads(m, a, t, p)
<1> DEFINE v == TagValue(tag)
           bytes == Padded(Bytes(tag, n) \o Zeros(1))
           r == RoundUp4(n + 1)
           q == p + r
<1>1. v \in Reader!StringTypeTags /\ tag \in TypeTagValues /\ tag \in What
  BY TagValueKinds DEF TypeTagValues, What
<1>2. /\ \A j \in 1..n : bytes[j] = ByteOf(tag, 0, j)
      /\ \A j \in (n + 1)..r : bytes[j] = ByteOf("zero", 0, 0)
      /\ bytes \in Seq(Byte) /\ Len(bytes) = r
  <2> HIDE DEF bytes
  <2>1. bytes = Padded(Bytes(tag, n) \o Zeros(1))
    BY DEF bytes
  <2>2. tag \in What /\ n \in Nat
    BY <1>1
  <2>3. Terminated(tag, n, bytes)
    BY ONLY <2>1, <2>2, TerminatedAre
  <2> QED BY <2>3 DEF Terminated
<1>3. r \in Nat /\ n + 1 <= r /\ r % 4 = 0
  <2>1. n + 1 \in Nat
    OBVIOUS
  <2> QED BY <2>1, RoundUp4Is
<1>4. a.bytes = bytes /\ p + r <= Len(m) /\ \A j \in 1..r : m[p + j] = ByteValue(bytes[j])
  BY <1>2 DEF LiesAt
<1> HIDE DEF bytes, v
<1>5. \A j : ByteOf(tag, 0, j).what = tag /\ ByteOf("zero", 0, 0).what = "zero"
  BY DEF ByteOf
<1>6. tag # "zero"
  OBVIOUS
<1>7. PutBytes(tag, bytes) = Part(bytes, 0, n)
  <2>1. PICK f \in Nat : f = 0
    OBVIOUS
  <2> HIDE DEF r
  <2>2. f + n <= Len(bytes)
    BY <1>2, <1>3, <2>1
  <2>3. \A j \in 1..n : bytes[f + j].what = tag
    BY <1>2, <1>5, <2>1
  <2>4. \A j \in (f + n + 1)..Len(bytes) : bytes[j].what # tag
    BY <1>2, <1>5, <1>6, <2>1
  <2>5. \A j \in 1..f : bytes[j].what # tag
    BY <2>1
  <2>6. bytes \in Seq(Byte) /\ n \in Nat /\ f \in Nat
    BY <1>2
  <2>7. PutBytes(tag, bytes) = Part(bytes, f, n)
    BY ONLY <2>2, <2>3, <2>4, <2>5, <2>6, PutBytesAre
  <2> QED BY <2>1, <2>7
<1>8. IsString(m, p, n, q)
  <2>1. \A j \in 1..n : m[p + j] # 0
    <3> SUFFICES ASSUME NEW j \in 1..n PROVE m[p + j] # 0
      OBVIOUS
    <3>1. j \in 1..r /\ j \in Nat /\ j # 0
      BY <1>3
    <3>2. ByteValue(ByteOf(tag, 0, j)) # 0
      BY <1>1, <3>1, TextIsNotZero
    <3> QED BY <1>2, <1>4, <3>1, <3>2
  <2>2. \A j \in (n + 1)..r : m[p + j] = 0
    <3> SUFFICES ASSUME NEW j \in (n + 1)..r PROVE m[p + j] = 0
      OBVIOUS
    <3>1. j \in 1..r
      BY <1>3
    <3>2. ByteValue(ByteOf("zero", 0, 0)) = 0
      BY ByteValues
    <3> QED BY <1>2, <1>4, <3>1, <3>2
  <2> QED BY <1>4, <2>1, <2>2 DEF IsString
<1>9. q \in Nat /\ q % 4 = 0
  BY <1>3
<1> HIDE DEF q, r
<1>10. /\ PassesOver(m, v, t, p, q)
       /\ Reader!Value(m, IteratorAt(t, p)) = SubSeq(m, p + 1, p + n)
  <2>1. Reader!At(m, t) = v
    BY DEF v
  <2>2. m \in Seq(Reader!Byte) /\ Len(m) % 4 = 0 /\ t \in Nat /\ v \in Reader!StringTypeTags
    BY <1>1
  <2> QED BY ONLY <1>8, <2>1, <2>2, StringArgumentReads
<1>11. SubSeq(m, p + 1, p + n) = Part(bytes, 0, n)
  <2> DEFINE s == Part(bytes, 0, n)
  <2>1. s = [ j \in 1..n |-> s[j] ] /\ \A j \in 1..n : s[j] = ByteValue(bytes[0 + j])
    BY DEF Part
  <2>2. \A j \in 1..n : s[j] = ByteValue(bytes[j])
    BY <2>1
  <2> HIDE DEF s
  <2>3. \A j \in 1..n : m[p + j] = s[j]
    <3> SUFFICES ASSUME NEW j \in 1..n PROVE m[p + j] = s[j]
      OBVIOUS
    <3>1. j \in 1..r
      BY <1>3
    <3> QED BY <1>4, <2>2, <3>1
  <2>4. p + n <= Len(m)
    <3>1. PICK c \in Nat : c = Len(m)
      BY LenProperties
    <3>2. PICK b \in Nat : b = r
      BY <1>3
    <3>3. n + 1 <= b
      BY <1>3, <3>2
    <3>4. p + b <= c
      BY <1>4, <3>1, <3>2
    <3>5. p + n <= c
      BY ONLY <3>3, <3>4, b \in Nat, c \in Nat, n \in Nat, p \in Nat
    <3> QED BY <3>1, <3>5
  <2>5. SubSeq(m, p + 1, p + n) = s
    BY <2>1, <2>3, <2>4, SliceIs
  <2> QED BY <2>5 DEF s
<1>12. q = p + Len(bytes)
  BY <1>2 DEF q
<1>13. tag \notin {"T", "F", "["}
  OBVIOUS
<1> QED BY <1>4, <1>7, <1>9, <1>10, <1>11, <1>12, <1>13, ReadsIs DEF v

LEMMA UInt32Are ==
  ASSUME NEW what, NEW n
  PROVE  \A j \in 1..4 : UInt32(what, n)[j] = ByteOf(what, n, j)
BY DEF UInt32

(* The bytes of a blob: its size, its contents and the padding.            *)
SizedBlob(n, bytes) ==
  /\ bytes \in Seq(Byte) /\ Len(bytes) = 4 + RoundUp4(n)
  /\ \A j \in 1..4 : bytes[j] = ByteOf("size", n, j)
  /\ \A j \in 1..n : bytes[4 + j] = ByteOf("b", 0, j)
  /\ \A j \in (4 + n + 1)..Len(bytes) : bytes[j] = ByteOf("zero", 0, 0)

LEMMA BlobBytesAre ==
  ASSUME NEW n \in Nat, NEW bytes, bytes = UInt32("size", n) \o Padded(Bytes("b", n))
  PROVE  SizedBlob(n, bytes)
<1> DEFINE u == UInt32("size", n)
           b == Bytes("b", n)
           s == Padded(b)
<1>1. u \in Seq(Byte) /\ Len(u) = 4
  BY UInt32Type DEF What
<1>2. b \in Seq(Byte) /\ Len(b) = n
  BY BytesType DEF What, TypeTagValues
<1>3. RoundUp4(n) \in Nat /\ n <= RoundUp4(n)
  BY RoundUp4Is
<1>4. \A j \in 1..4 : u[j] = ByteOf("size", n, j)
  BY UInt32Are
<1>5. \A j \in 1..n : b[j] = ByteOf("b", 0, j)
  BY BytesAre
<1> HIDE DEF u, b
<1>6. s \in Seq(Byte) /\ Len(s) = RoundUp4(n)
  BY <1>2, PaddedType
<1>7. /\ \A j \in 1..n : s[j] = b[j]
      /\ \A j \in (n + 1)..RoundUp4(n) : s[j] = ByteOf("zero", 0, 0)
  BY <1>2, PaddedAre
<1>8. bytes = u \o s
  BY DEF u, b
<1> HIDE DEF s
<1>9. /\ bytes \in Seq(Byte) /\ Len(bytes) = Len(u) + Len(s)
      /\ \A j \in 1..Len(u) : bytes[j] = u[j]
      /\ \A j \in 1..Len(s) : bytes[Len(u) + j] = s[j]
  <2>1. u \in Seq(Byte) /\ s \in Seq(Byte)
    BY <1>1, <1>6
  <2>2. PICK w : w = u \o s
    OBVIOUS
  <2>3. /\ w \in Seq(Byte) /\ Len(w) = Len(u) + Len(s)
        /\ \A j \in 1..Len(u) : w[j] = u[j]
        /\ \A j \in 1..Len(s) : w[Len(u) + j] = s[j]
    BY ONLY <2>1, <2>2, ConcatType
  <2>4. bytes = w
    BY <1>8, <2>2
  <2> QED BY <2>3, <2>4
<1>10. Len(bytes) = 4 + RoundUp4(n)
  BY <1>1, <1>6, <1>9
<1>11. \A j \in 1..4 : bytes[j] = ByteOf("size", n, j)
  BY <1>1, <1>4, <1>9
<1>12. ASSUME NEW j \in 1..n PROVE bytes[4 + j] = ByteOf("b", 0, j)
  <2>1. j \in 1..Len(s)
    BY <1>3, <1>6
  <2>2. bytes[4 + j] = s[j]
    BY <1>1, <1>9, <2>1
  <2> QED BY <1>5, <1>7, <2>2
<1>13. ASSUME NEW j \in (4 + n + 1)..Len(bytes) PROVE bytes[j] = ByteOf("zero", 0, 0)
  <2>1. j - 4 \in (n + 1)..RoundUp4(n) /\ j - 4 \in 1..RoundUp4(n) /\ 4 + (j - 4) = j
    BY <1>3, <1>10
  <2>2. bytes[4 + (j - 4)] = s[j - 4]
    BY <1>1, <1>6, <1>9, <2>1
  <2> QED BY <1>7, <2>1, <2>2
<1> QED BY <1>9, <1>10, <1>11, <1>12, <1>13 DEF SizedBlob

LEMMA BlobArgument ==
  ASSUME NEW m \in Seq(Reader!Byte), Len(m) % 4 = 0,
         Len(m) <= Reader!OSC_BUNDLE_ELEMENT_SIZE_MAX,
         NEW p \in Nat, p % 4 = 0, NEW t \in Nat, NEW n \in Nat,
         Reader!At(m, t) = TagValue("b"), LiesAt(m, p, BlobOf(n).bytes)
  PROVE  Reads(m, BlobOf(n), t, p)
<1> DEFINE a == BlobOf(n)
           bytes == UInt32("size", n) \o Padded(Bytes("b", n))
           v == Reader!BLOB_TYPE_TAG
           r == RoundUp4(n)
           q == p + 4 + r
<1>1. a.tag = "b" /\ a.bytes = bytes /\ TagValue("b") = v
  BY TagValueKinds DEF BlobOf, Argument
<1>2. PICK z : z = bytes
  OBVIOUS
<1>3. r \in Nat /\ n <= r /\ r % 4 = 0
  BY RoundUp4Is
<1>4. /\ bytes \in Seq(Byte) /\ Len(bytes) = 4 + r
      /\ \A j \in 1..4 : bytes[j] = ByteOf("size", n, j)
      /\ \A j \in 1..n : bytes[4 + j] = ByteOf("b", 0, j)
      /\ \A j \in (4 + n + 1)..Len(bytes) : bytes[j] = ByteOf("zero", 0, 0)
  <2> HIDE DEF bytes
  <2>1. z = UInt32("size", n) \o Padded(Bytes("b", n))
    BY <1>2 DEF bytes
  <2>2. SizedBlob(n, z)
    BY ONLY <2>1, n \in Nat, BlobBytesAre
  <2> QED BY <1>2, <2>2 DEF SizedBlob
<1> HIDE DEF bytes, a
<1>5. LiesAt(m, p, bytes)
  BY <1>1 DEF a
<1>6. p + 4 + r <= Len(m) /\ \A j \in 1..(4 + r) : m[p + j] = ByteValue(bytes[j])
  <2>1. p + Len(bytes) <= Len(m) /\ \A j \in 1..Len(bytes) : m[p + j] = ByteValue(bytes[j])
    BY <1>5 DEF LiesAt
  <2>2. Len(bytes) = 4 + r
    BY <1>4
  <2> HIDE DEF r
  <2>3. p + (4 + r) = p + 4 + r
    BY <1>3
  <2> QED BY <2>1, <2>2, <2>3
<1>7. IsSize(n)
  <2>1. Len(m) \in Nat /\ Reader!OSC_BUNDLE_ELEMENT_SIZE_MAX \in Nat
    BY LenProperties DEF Reader!OSC_BUNDLE_ELEMENT_SIZE_MAX
  <2> HIDE DEF r
  <2>2. n <= Len(m)
    BY <1>3, <1>6, <2>1
  <2> QED BY <2>1, <2>2 DEF IsSize
<1>8. Reader!ToInt32(m, p) = n
  <2> SUFFICES \A j \in 1..4 : m[p + j] = Reader!FromUInt32(n)[j]
    BY <1>7, SizeReads
  <2> SUFFICES ASSUME NEW j \in 1..4 PROVE m[p + j] = Reader!FromUInt32(n)[j]
    OBVIOUS
  <2>1. j \in 1..(4 + r) /\ j \in Nat
    BY <1>3
  <2>2. ByteValue(ByteOf("size", n, j)) = Reader!FromUInt32(n)[j]
    <3>1. \A x \in Nat : \A k \in Nat : ByteValue(ByteOf("size", x, k)) = Reader!FromUInt32(x)[k]
      BY ByteValues
    <3> QED BY <2>1, <3>1
  <2> QED BY <1>4, <1>6, <2>1, <2>2
<1>9. /\ PassesOver(m, v, t, p, q)
      /\ Reader!Value(m, IteratorAt(t, p)) = SubSeq(m, p + 5, p + 4 + n)
  <2>1. Reader!At(m, t) = v /\ p + 4 + r <= Len(m)
    BY <1>1, <1>6
  <2> QED BY <1>7, <1>8, <2>1, BlobReads
<1>10. \A j : ByteOf("b", 0, j).what = "b" /\ ByteOf("zero", 0, 0).what = "zero"
            /\ ByteOf("size", n, j).what = "size"
  BY DEF ByteOf
<1>11. "b" # "zero" /\ "b" # "size"
  OBVIOUS
<1>12. PICK f \in Nat : f = 4
  OBVIOUS
<1> HIDE DEF q, r
<1>13. PutBytes("b", bytes) = Part(bytes, f, n)
  <2>1. f + n <= Len(bytes)
    BY <1>3, <1>4, <1>12
  <2>2. \A j \in 1..n : bytes[f + j].what = "b"
    BY <1>4, <1>10, <1>12
  <2>3. \A j \in (f + n + 1)..Len(bytes) : bytes[j].what # "b"
    BY <1>4, <1>10, <1>11, <1>12
  <2>4. \A j \in 1..f : bytes[j].what # "b"
    BY <1>4, <1>10, <1>11, <1>12
  <2>5. bytes \in Seq(Byte)
    BY <1>4
  <2> QED BY ONLY <2>1, <2>2, <2>3, <2>4, <2>5, n \in Nat, f \in Nat, PutBytesAre
<1>14. SubSeq(m, p + 5, p + 4 + n) = Part(bytes, f, n)
  <2> DEFINE s == Part(bytes, f, n)
  <2>0. PICK p4 \in Nat : p4 = p + 4
    OBVIOUS
  <2>1. s = [ j \in 1..n |-> s[j] ] /\ \A j \in 1..n : s[j] = ByteValue(bytes[f + j])
    BY DEF Part
  <2> HIDE DEF s
  <2>2. ASSUME NEW j \in 1..n PROVE m[p4 + j] = s[j]
    <3>1. 4 + j \in 1..(4 + r) /\ p4 + j = p + (4 + j)
      BY <1>3, <2>0
    <3>2. m[p + (4 + j)] = ByteValue(bytes[4 + j])
      BY <1>6, <3>1
    <3> QED BY <1>12, <2>1, <3>1, <3>2
  <2>3. p4 + n <= Len(m) /\ p4 + 1 = p + 5 /\ p4 + n = p + 4 + n
    <3>1. Len(m) \in Nat
      BY LenProperties
    <3> QED BY <1>3, <1>6, <2>0, <3>1
  <2>4. SubSeq(m, p4 + 1, p4 + n) = s
    <3>1. MatchesAt(m, p4, n, s)
      BY <2>1, <2>2, <2>3 DEF MatchesAt
    <3> QED BY ONLY m \in Seq(Reader!Byte), n \in Nat, p4 \in Nat, <3>1, MatchIsSlice
  <2> QED BY <2>3, <2>4 DEF s
<1>15. q \in Nat /\ q % 4 = 0 /\ q = p + Len(bytes)
  BY <1>3, <1>4 DEF q
<1>16. "b" \notin {"T", "F", "["}
  OBVIOUS
<1>17. Reader!Value(m, IteratorAt(t, p)) = PutBytes("b", bytes)
  BY <1>9, <1>13, <1>14
<1>18. PassesOver(m, TagValue("b"), t, p, q)
  BY <1>1, <1>9
<1>19. Reads(m, a, t, p)
  BY <1>1, <1>15, <1>16, <1>17, <1>18, ReadsIs
<1> QED BY <1>19 DEF a

LEMMA ArgumentReads ==
  ASSUME NEW m \in Seq(Reader!Byte), Len(m) % 4 = 0,
         Len(m) <= Reader!OSC_BUNDLE_ELEMENT_SIZE_MAX,
         NEW a \in Arguments, NEW p \in Nat, p % 4 = 0, LiesAt(m, p, a.bytes),
         NEW t \in Nat, Reader!At(m, t) = TagValue(a.tag)
  PROVE  Reads(m, a, t, p)
<1>1. IsArgument(a) /\ a.room \in Nat
  BY ArgumentsAssumption, ArgumentType DEF Fits
<1>2. ASSUME NEW tag \in ZeroLengthTypeTags, a = TagOnly(tag) PROVE Reads(m, a, t, p)
  <2>1. Reader!At(m, t) = TagValue(tag)
    BY <1>2 DEF TagOnly, Argument
  <2> QED BY <1>2, <2>1, ZeroLengthArgument
<1>3. ASSUME NEW tag \in FourByteTypeTags, a = FourBytes(tag) PROVE Reads(m, a, t, p)
  <2>1. Reader!At(m, t) = TagValue(tag) /\ LiesAt(m, p, FourBytes(tag).bytes)
    BY <1>3 DEF FourBytes, Argument
  <2> QED BY <1>3, <2>1, FourByteArgument
<1>4. ASSUME NEW tag \in EightByteTypeTags, a = EightBytes(tag) PROVE Reads(m, a, t, p)
  <2>1. Reader!At(m, t) = TagValue(tag) /\ LiesAt(m, p, EightBytes(tag).bytes)
    BY <1>4 DEF EightBytes, Argument
  <2> QED BY <1>4, <2>1, EightByteArgument
<1>5. ASSUME NEW tag \in {"s", "S"}, NEW n \in Nat, a.tag = tag,
             a.bytes = Padded(Bytes(tag, n) \o Zeros(1))
      PROVE  Reads(m, a, t, p)
  <2>1. Reader!At(m, t) = TagValue(tag)
    BY <1>5
  <2> QED BY <1>5, <2>1, StringArgument
<1>6. ASSUME NEW n \in 0..a.room, a = StringOf(n) PROVE Reads(m, a, t, p)
  <2>1. a.tag = "s" /\ a.bytes = Padded(Bytes("s", n) \o Zeros(1)) /\ n \in Nat
    BY <1>1, <1>6 DEF StringOf, Argument
  <2> QED BY <1>5, <2>1
<1>7. ASSUME NEW n \in 0..a.room, a = SymbolOf(n) PROVE Reads(m, a, t, p)
  <2>1. a.tag = "S" /\ a.bytes = Padded(Bytes("S", n) \o Zeros(1)) /\ n \in Nat
    BY <1>1, <1>7 DEF SymbolOf, Argument
  <2> QED BY <1>5, <2>1
<1>8. ASSUME NEW n \in 1..a.room, a = CharArray(n) PROVE Reads(m, a, t, p)
  <2>1. a.tag = "s" /\ a.bytes = Padded(Bytes("s", n - 1) \o Zeros(1)) /\ n - 1 \in Nat
    BY <1>1, <1>8 DEF CharArray, Argument
  <2> QED BY <1>5, <2>1
<1>9. ASSUME NEW n \in 0..a.room, a = BlobOf(n) PROVE Reads(m, a, t, p)
  <2>1. a.tag = "b" /\ n \in Nat /\ LiesAt(m, p, BlobOf(n).bytes)
    BY <1>1, <1>9 DEF BlobOf, Argument
  <2>2. Reader!At(m, t) = TagValue("b")
    BY <2>1
  <2> QED BY <1>9, <2>1, <2>2, BlobArgument
<1> QED BY <1>1, <1>2, <1>3, <1>4, <1>6, <1>7, <1>8, <1>9 DEF IsArgument

(* The values of what is written are bytes.                                *)

IsGood(s) == s \in Seq(Byte) /\ \A k \in 1..Len(s) : ByteValue(s[k]) \in Reader!Byte

LEMMA ValuesAre ==
  ASSUME NEW s, IsGood(s), NEW m, m = Values(s)
  PROVE  /\ m \in Seq(Reader!Byte) /\ Len(m) = Len(s)
         /\ \A k \in 1..Len(s) : m[k] = ByteValue(s[k])
<1>1. s \in Seq(Byte) /\ Len(s) \in Nat /\ DOMAIN s = 1..Len(s)
      /\ \A k \in 1..Len(s) : ByteValue(s[k]) \in Reader!Byte
  BY LenProperties DEF IsGood
<1>2. m = [k \in 1..Len(s) |-> ByteValue(s[k])]
  BY <1>1 DEF Values
<1>3. m \in [1..Len(s) -> Reader!Byte]
  BY <1>1, <1>2
<1>4. m \in Seq(Reader!Byte) /\ Len(m) = Len(s)
  BY <1>1, <1>3, FunctionIsSeq
<1> QED BY <1>2, <1>4

LEMMA GoodConcat ==
  ASSUME NEW s, IsGood(s), NEW t, IsGood(t), NEW w, w = s \o t
  PROVE  IsGood(w) /\ Len(w) = Len(s) + Len(t)
<1>1. s \in Seq(Byte) /\ t \in Seq(Byte)
  BY DEF IsGood
<1>2. /\ w \in Seq(Byte) /\ Len(w) = Len(s) + Len(t)
      /\ \A k \in 1..Len(s) : w[k] = s[k]
      /\ \A k \in 1..Len(t) : w[Len(s) + k] = t[k]
  BY <1>1, ConcatType
<1>3. Len(s) \in Nat /\ Len(t) \in Nat
  BY <1>1, LenProperties
<1>4. ASSUME NEW k \in 1..Len(w) PROVE ByteValue(w[k]) \in Reader!Byte
  <2>1. CASE k <= Len(s)
    BY <1>2, <1>3, <2>1 DEF IsGood
  <2>2. CASE k > Len(s)
    <3>1. k - Len(s) \in 1..Len(t) /\ Len(s) + (k - Len(s)) = k
      BY <1>2, <1>3, <2>2
    <3>2. w[Len(s) + (k - Len(s))] = t[k - Len(s)]
      BY <1>2, <3>1
    <3> QED BY <3>1, <3>2 DEF IsGood
  <2> QED BY <1>2, <1>3, <2>1, <2>2
<1> QED BY <1>2, <1>4 DEF IsGood

(* The values of bytes, one kind at a time.                                *)
LEMMA ZeroValue == ByteValue(ByteOf("zero", 0, 0)) = 0
BY ByteValues, Zenon

LEMMA AddressValues == \A k \in Nat : ByteValue(ByteOf("address", 0, k)) = 47
BY ByteValues, Zenon

LEMMA SizeValues ==
  \A n \in Nat : \A k \in Nat : ByteValue(ByteOf("size", n, k)) = Reader!FromUInt32(n)[k]
BY ByteValues, Zenon

LEMMA BundleValues ==
  /\ \A k \in 1..8 : ByteValue(ByteOf("bundle", 0, k)) = Reader!BUNDLE_TAG[k]
  /\ \A k \in Nat : k > 8 => ByteValue(ByteOf("bundle", 0, k)) = 255
BY ByteValues, Zenon

LEMMA TagByteValues ==
  \A tag \in TypeTagValues \cup {","} : ByteValue(ByteOf(tag, 0, 0)) = TagValue(tag)
BY ByteValues, Zenon

LEMMA SmallBytes ==
  /\ 0 \in Reader!Byte /\ 47 \in Reader!Byte /\ 255 \in Reader!Byte /\ 44 \in Reader!Byte
  /\ \A x \in 1..255 : x \in Reader!Byte
  /\ \A k \in 1..8 : Reader!BUNDLE_TAG[k] \in Reader!Byte
<1>1. /\ 0 \in Reader!Byte /\ 47 \in Reader!Byte /\ 255 \in Reader!Byte /\ 44 \in Reader!Byte
      /\ \A x \in 1..255 : x \in Reader!Byte
  BY DEF Reader!Byte
<1>2. \A k \in 1..8 : Reader!BUNDLE_TAG[k] \in Reader!Byte
  <2>1. 35 \in Reader!Byte /\ 98 \in Reader!Byte /\ 117 \in Reader!Byte /\ 110 \in Reader!Byte
        /\ 100 \in Reader!Byte /\ 108 \in Reader!Byte /\ 101 \in Reader!Byte /\ 0 \in Reader!Byte
    BY DEF Reader!Byte
  <2>2. \A k \in 1..8 : k = 1 \/ k = 2 \/ k = 3 \/ k = 4 \/ k = 5 \/ k = 6 \/ k = 7 \/ k = 8
    OBVIOUS
  <2> QED BY <2>1, <2>2 DEF Reader!BUNDLE_TAG, Reader!HASH
<1> QED BY <1>1, <1>2

LEMMA GoodBytes ==
  /\ ByteValue(ByteOf("zero", 0, 0)) \in Reader!Byte
  /\ \A k \in Nat : ByteValue(ByteOf("address", 0, k)) \in Reader!Byte
  /\ \A n \in Nat : \A k \in 1..4 : ByteValue(ByteOf("size", n, k)) \in Reader!Byte
  /\ \A k \in 1..16 : ByteValue(ByteOf("bundle", 0, k)) \in Reader!Byte
  /\ ByteValue(ByteOf(",", 0, 0)) \in Reader!Byte
  /\ \A tag \in TypeTagValues : \A k \in Nat : ByteValue(ByteOf(tag, 0, k)) \in Reader!Byte
<1>1. ByteValue(ByteOf("zero", 0, 0)) \in Reader!Byte
  BY ZeroValue, SmallBytes
<1>2. \A k \in Nat : ByteValue(ByteOf("address", 0, k)) \in Reader!Byte
  BY AddressValues, SmallBytes
<1>3. ASSUME NEW n \in Nat, NEW k \in 1..4
      PROVE  ByteValue(ByteOf("size", n, k)) \in Reader!Byte
  <2>1. ByteValue(ByteOf("size", n, k)) = Reader!FromUInt32(n)[k]
    <3>1. k \in Nat
      OBVIOUS
    <3> QED BY <3>1, SizeValues
  <2> QED BY <2>1, SizeByteType
<1>4. ASSUME NEW k \in 1..16 PROVE ByteValue(ByteOf("bundle", 0, k)) \in Reader!Byte
  <2>1. CASE k <= 8
    <3>1. k \in 1..8
      BY <2>1
    <3> QED BY <3>1, BundleValues, SmallBytes
  <2>2. CASE k > 8
    BY <2>2, BundleValues, SmallBytes
  <2> QED BY <2>1, <2>2
<1>5. ByteValue(ByteOf(",", 0, 0)) \in Reader!Byte
  <2>1. ByteValue(ByteOf(",", 0, 0)) = TagValue(",")
    BY ByteValues
  <2>2. TagValue(",") = 44
    BY TagValues
  <2> QED BY <2>1, <2>2, SmallBytes
<1>6. ASSUME NEW tag \in TypeTagValues, NEW k \in Nat
      PROVE  ByteValue(ByteOf(tag, 0, k)) \in Reader!Byte
  <2>1. CASE k = 0
    <3>1. ByteValue(ByteOf(tag, 0, k)) = TagValue(tag)
      BY <2>1, ByteValues
    <3>2. TagValue(tag) \in 1..255
      BY TagValueKinds DEF KindsAgree
    <3> QED BY <3>1, <3>2, SmallBytes
  <2>2. CASE k # 0
    <3>1. ByteValue(ByteOf(tag, 0, k)) \in 1..255
      BY <2>2, ByteValues
    <3> QED BY <3>1, SmallBytes
  <2> QED BY <2>1, <2>2
<1> QED BY <1>1, <1>2, <1>3, <1>4, <1>5, <1>6

LEMMA GoodSize ==
  ASSUME NEW n \in Nat
  PROVE  IsGood(UInt32("size", n))
<1>1. UInt32("size", n) \in Seq(Byte) /\ Len(UInt32("size", n)) = 4
  BY UInt32Type DEF What
<1>2. ASSUME NEW k \in 1..4 PROVE ByteValue(UInt32("size", n)[k]) \in Reader!Byte
  <2>1. UInt32("size", n)[k] = ByteOf("size", n, k)
    BY UInt32Are
  <2>2. ByteValue(ByteOf("size", n, k)) \in Reader!Byte
    BY GoodBytes, Zenon
  <2> QED BY <2>1, <2>2
<1> QED BY <1>1, <1>2 DEF IsGood

LEMMA GoodHeader == IsGood(BundleHeader)
<1>1. BundleHeader \in Seq(Byte) /\ Len(BundleHeader) = 16
  BY BundleHeaderType
<1>2. ASSUME NEW k \in 1..16 PROVE ByteValue(BundleHeader[k]) \in Reader!Byte
  <2>1. \A j \in 1..16 : BundleHeader[j] = ByteOf("bundle", 0, j)
    BY DEF BundleHeader, Bytes
  <2> QED BY <2>1, GoodBytes
<1> QED BY <1>1, <1>2 DEF IsGood

LEMMA GoodTerminated ==
  ASSUME NEW what \in What, NEW n \in Nat,
         NEW bytes, bytes = Padded(Bytes(what, n) \o Zeros(1)),
         \A k \in Nat : ByteValue(ByteOf(what, 0, k)) \in Reader!Byte
  PROVE  IsGood(bytes)
<1>2. /\ \A j \in 1..n : bytes[j] = ByteOf(what, 0, j)
      /\ \A j \in (n + 1)..RoundUp4(n + 1) : bytes[j] = ByteOf("zero", 0, 0)
      /\ bytes \in Seq(Byte) /\ Len(bytes) = RoundUp4(n + 1)
  <2>1. Terminated(what, n, bytes)
    BY TerminatedAre
  <2> QED BY <2>1 DEF Terminated
<1>3. RoundUp4(n + 1) \in Nat
  <2>1. n + 1 \in Nat
    OBVIOUS
  <2> QED BY <2>1, RoundUp4Is
<1>5. ASSUME NEW k \in 1..Len(bytes) PROVE ByteValue(bytes[k]) \in Reader!Byte
  <2>1. CASE k <= n
    <3>1. k \in 1..n /\ k \in Nat
      BY <1>2, <1>3, <2>1
    <3> QED BY <1>2, <3>1
  <2>2. CASE k > n
    <3>1. k \in (n + 1)..RoundUp4(n + 1)
      BY <1>2, <1>3, <2>2
    <3> QED BY <1>2, <3>1, GoodBytes
  <2> QED BY <1>2, <1>3, <2>1, <2>2
<1> QED BY <1>2, <1>5 DEF IsGood

LEMMA GoodArgument ==
  ASSUME NEW a \in Arguments
  PROVE  IsGood(a.bytes)
<1>1. IsArgument(a) /\ a.room \in Nat
  BY ArgumentsAssumption, ArgumentType DEF Fits
<1>2. ASSUME NEW tag \in TypeTagValues, NEW n \in Nat PROVE IsGood(Bytes(tag, n))
  <2>1. Bytes(tag, n) \in Seq(Byte) /\ Len(Bytes(tag, n)) = n
    BY BytesType DEF What
  <2>2. \A k \in 1..n : Bytes(tag, n)[k] = ByteOf(tag, 0, k)
    BY BytesAre
  <2>3. ASSUME NEW k \in 1..n PROVE ByteValue(Bytes(tag, n)[k]) \in Reader!Byte
    <3>1. \A j \in Nat : ByteValue(ByteOf(tag, 0, j)) \in Reader!Byte
      BY GoodBytes
    <3>2. k \in Nat
      OBVIOUS
    <3> QED BY <2>2, <3>1, <3>2
  <2> QED BY <2>1, <2>3 DEF IsGood
<1>3. ASSUME NEW tag \in ZeroLengthTypeTags, a = TagOnly(tag) PROVE IsGood(a.bytes)
  BY <1>3 DEF TagOnly, Argument, IsGood
<1>4. ASSUME NEW tag \in FourByteTypeTags, a = FourBytes(tag) PROVE IsGood(a.bytes)
  <2>1. 4 \in Nat /\ a.bytes = Bytes(tag, 4) /\ tag \in TypeTagValues
    BY <1>4 DEF FourBytes, Argument, TypeTagValues
  <2> QED BY <1>2, <2>1
<1>5. ASSUME NEW tag \in EightByteTypeTags, a = EightBytes(tag) PROVE IsGood(a.bytes)
  <2>1. 8 \in Nat /\ a.bytes = Bytes(tag, 8) /\ tag \in TypeTagValues
    BY <1>5 DEF EightBytes, Argument, TypeTagValues
  <2> QED BY <1>2, <2>1
<1>6. ASSUME NEW tag \in {"s", "S"}, NEW n \in Nat,
             a.bytes = Padded(Bytes(tag, n) \o Zeros(1))
      PROVE  IsGood(a.bytes)
  <2>1. tag \in What /\ tag \in TypeTagValues
    BY DEF What, TypeTagValues
  <2>2. \A k \in Nat : ByteValue(ByteOf(tag, 0, k)) \in Reader!Byte
    BY <2>1, GoodBytes
  <2> QED BY <1>6, <2>1, <2>2, GoodTerminated
<1>7. ASSUME NEW n \in 0..a.room, a \in {StringOf(n), SymbolOf(n)} PROVE IsGood(a.bytes)
  <2>1. n \in Nat
    BY <1>1
  <2>2. \/ a.bytes = Padded(Bytes("s", n) \o Zeros(1))
        \/ a.bytes = Padded(Bytes("S", n) \o Zeros(1))
    BY <1>7 DEF StringOf, SymbolOf, Argument
  <2> QED BY <1>6, <2>1, <2>2
<1>8. ASSUME NEW n \in 1..a.room, a = CharArray(n) PROVE IsGood(a.bytes)
  <2>1. n - 1 \in Nat
    BY <1>1
  <2>2. a.bytes = Padded(Bytes("s", n - 1) \o Zeros(1))
    BY <1>8 DEF CharArray, Argument
  <2> QED BY <1>6, <2>1, <2>2
<1>9. ASSUME NEW n \in 0..a.room, a = BlobOf(n) PROVE IsGood(a.bytes)
  <2>1. n \in Nat
    BY <1>1
  <2>2. a.bytes = UInt32("size", n) \o Padded(Bytes("b", n))
    BY <1>9 DEF BlobOf, Argument
  <2>3. PICK bytes : bytes = a.bytes
    OBVIOUS
  <2>4. /\ bytes \in Seq(Byte) /\ Len(bytes) = 4 + RoundUp4(n)
        /\ \A j \in 1..4 : bytes[j] = ByteOf("size", n, j)
        /\ \A j \in 1..n : bytes[4 + j] = ByteOf("b", 0, j)
        /\ \A j \in (4 + n + 1)..Len(bytes) : bytes[j] = ByteOf("zero", 0, 0)
    <3>1. SizedBlob(n, bytes)
      BY <2>1, <2>2, <2>3, BlobBytesAre
    <3> QED BY <3>1 DEF SizedBlob
  <2>5. Len(bytes) \in Nat
    BY <2>4, LenProperties
  <2>6. "b" \in TypeTagValues
    BY DEF TypeTagValues
  <2>7. ASSUME NEW k \in 1..Len(bytes) PROVE ByteValue(bytes[k]) \in Reader!Byte
    <3>1. CASE k <= 4
      <4>1. k \in 1..4
        BY <2>5, <3>1
      <4> QED BY <2>1, <2>4, <4>1, GoodBytes
    <3>2. CASE k > 4 /\ k <= 4 + n
      <4>1. k - 4 \in 1..n /\ 4 + (k - 4) = k /\ k - 4 \in Nat
        BY <2>1, <2>5, <3>2
      <4>2. bytes[4 + (k - 4)] = ByteOf("b", 0, k - 4)
        BY <2>4, <4>1
      <4> QED BY <2>6, <4>1, <4>2, GoodBytes
    <3>3. CASE k > 4 + n
      <4>1. k \in (4 + n + 1)..Len(bytes)
        BY <2>1, <2>5, <3>3
      <4> QED BY <2>4, <4>1, GoodBytes
    <3> QED BY <2>1, <2>5, <3>1, <3>2, <3>3
  <2> QED BY <2>3, <2>4, <2>7 DEF IsGood
<1> QED BY <1>1, <1>3, <1>4, <1>5, <1>7, <1>8, <1>9 DEF IsArgument

-----------------------------------------------------------------------------
(* 4. The bytes of a message.                                              *)

(* The bytes of a message.                                                 *)

LEMMA ArgumentLength ==
  ASSUME NEW a \in Arguments
  PROVE  Len(a.bytes) \in Nat /\ Len(a.bytes) % 4 = 0
<1>1. IsArgument(a) /\ a.room \in Nat
  BY ArgumentsAssumption, ArgumentType DEF Fits
<1>2. ASSUME NEW tag \in ZeroLengthTypeTags, a = TagOnly(tag) PROVE Len(a.bytes) = 0
  BY <1>2 DEF TagOnly, Argument
<1>3. ASSUME NEW tag \in FourByteTypeTags, a = FourBytes(tag) PROVE Len(a.bytes) = 4
  <2>1. 4 \in Nat /\ a.bytes = Bytes(tag, 4) /\ tag \in What
    BY <1>3 DEF FourBytes, Argument, TypeTagValues, What
  <2> QED BY <2>1, BytesType
<1>4. ASSUME NEW tag \in EightByteTypeTags, a = EightBytes(tag) PROVE Len(a.bytes) = 8
  <2>1. 8 \in Nat /\ a.bytes = Bytes(tag, 8) /\ tag \in What
    BY <1>4 DEF EightBytes, Argument, TypeTagValues, What
  <2> QED BY <2>1, BytesType
<1>5. ASSUME NEW tag \in {"s", "S"}, NEW n \in Nat,
             a.bytes = Padded(Bytes(tag, n) \o Zeros(1))
      PROVE  Len(a.bytes) \in Nat /\ Len(a.bytes) % 4 = 0
  <2>1. tag \in What /\ n + 1 \in Nat
    <3>1. tag \in What
      BY DEF What, TypeTagValues
    <3>2. n + 1 \in Nat
      OBVIOUS
    <3> QED BY <3>1, <3>2
  <2>2. Terminated(tag, n, a.bytes)
    BY <1>5, <2>1, TerminatedAre
  <2>3. Len(a.bytes) = RoundUp4(n + 1)
    BY <2>2 DEF Terminated
  <2> QED BY <2>1, <2>3, RoundUp4Is
<1>6. ASSUME NEW n \in 0..a.room, a \in {StringOf(n), SymbolOf(n)}
      PROVE  Len(a.bytes) \in Nat /\ Len(a.bytes) % 4 = 0
  <2>1. n \in Nat
    BY <1>1
  <2>2. \/ a.bytes = Padded(Bytes("s", n) \o Zeros(1))
        \/ a.bytes = Padded(Bytes("S", n) \o Zeros(1))
    BY <1>6 DEF StringOf, SymbolOf, Argument
  <2> QED BY <1>5, <2>1, <2>2
<1>7. ASSUME NEW n \in 1..a.room, a = CharArray(n)
      PROVE  Len(a.bytes) \in Nat /\ Len(a.bytes) % 4 = 0
  <2>1. n - 1 \in Nat
    BY <1>1
  <2>2. a.bytes = Padded(Bytes("s", n - 1) \o Zeros(1))
    BY <1>7 DEF CharArray, Argument
  <2> QED BY <1>5, <2>1, <2>2
<1>8. ASSUME NEW n \in 0..a.room, a = BlobOf(n)
      PROVE  Len(a.bytes) \in Nat /\ Len(a.bytes) % 4 = 0
  <2>1. n \in Nat
    BY <1>1
  <2>2. PICK bytes : bytes = a.bytes
    OBVIOUS
  <2>3. bytes = UInt32("size", n) \o Padded(Bytes("b", n))
    BY <1>8, <2>2 DEF BlobOf, Argument
  <2>4. Len(bytes) = 4 + RoundUp4(n)
    <3>1. SizedBlob(n, bytes)
      BY <2>1, <2>3, BlobBytesAre
    <3> QED BY <3>1 DEF SizedBlob
  <2>5. RoundUp4(n) \in Nat /\ RoundUp4(n) % 4 = 0
    BY <2>1, RoundUp4Is
  <2>6. PICK r \in Nat : r = RoundUp4(n)
    BY <2>5
  <2>7. 4 + r \in Nat /\ (4 + r) % 4 = 0
    BY <2>5, <2>6
  <2> QED BY <2>2, <2>4, <2>6, <2>7
<1>9. /\ 0 \in Nat /\ 0 % 4 = 0 /\ 4 \in Nat /\ 4 % 4 = 0 /\ 8 \in Nat /\ 8 % 4 = 0
  OBVIOUS
<1> QED BY <1>1, <1>2, <1>3, <1>4, <1>6, <1>7, <1>8, <1>9 DEF IsArgument

(* Where each argument ends, counted from the first.                       *)
Offsets(arguments, o) ==
  /\ o \in [0..Len(arguments) -> Nat] /\ o[0] = 0
  /\ \A k \in 0..Len(arguments) : o[k] % 4 = 0 /\ o[k] <= Len(ArgumentPart(arguments))
  /\ \A k \in 1..Len(arguments) : o[k] = o[k - 1] + Len(arguments[k].bytes)
  /\ o[Len(arguments)] = Len(ArgumentPart(arguments))
  /\ \A k \in 1..Len(arguments) : \A j \in 1..Len(arguments[k].bytes) :
       ArgumentPart(arguments)[o[k - 1] + j] = arguments[k].bytes[j]

LEMMA NextOffset ==
  ASSUME NEW front \in Seq(Arguments), NEW a \in Arguments, NEW arguments,
         arguments = Append(front, a), IsGood(ArgumentPart(front)), NEW o, Offsets(front, o)
  PROVE  IsGood(ArgumentPart(arguments)) /\ \E e : Offsets(arguments, e)
<1> DEFINE n == Len(front)
           last == Len(a.bytes)
<1>1. n \in Nat /\ arguments \in Seq(Arguments) /\ Len(arguments) = n + 1
      /\ \A k \in 1..n : arguments[k] = front[k]
      /\ arguments[n + 1] = a
  BY LenProperties
<1>2. last \in Nat /\ last % 4 = 0
  BY ArgumentLength
<1>3. PICK before : before = ArgumentPart(front)
  OBVIOUS
<1>4. PICK after : after = before \o a.bytes
  OBVIOUS
<1>5. ArgumentPart(arguments) = after
  BY <1>3, <1>4, ArgumentPartAppend
<1>6. IsGood(before) /\ IsGood(a.bytes)
  BY <1>3, GoodArgument
<1>7. IsGood(after) /\ Len(after) = Len(before) + last
  BY <1>4, <1>6, GoodConcat
<1>8. /\ \A j \in 1..Len(before) : after[j] = before[j]
      /\ \A j \in 1..last : after[Len(before) + j] = a.bytes[j]
  BY <1>4, <1>6, ConcatType DEF IsGood
<1>9. Len(before) \in Nat
  BY <1>6, LenProperties DEF IsGood
<1> HIDE DEF n, last
<1>10. /\ o \in [0..n -> Nat] /\ o[0] = 0 /\ o[n] = Len(before)
       /\ \A k \in 0..n : o[k] % 4 = 0 /\ o[k] <= Len(before)
       /\ \A k \in 1..n : o[k] = o[k - 1] + Len(front[k].bytes)
       /\ \A k \in 1..n : \A j \in 1..Len(front[k].bytes) :
            before[o[k - 1] + j] = front[k].bytes[j]
  BY <1>3 DEF Offsets, n
<1> DEFINE e == [k \in 0..(n + 1) |-> IF k = n + 1 THEN o[n] + last ELSE o[k]]
<1>11. /\ \A k \in 0..n : e[k] = o[k]
       /\ e[n + 1] = o[n] + last
  BY <1>1
<1>12. e \in [0..(n + 1) -> Nat]
  BY <1>1, <1>2, <1>10
<1> HIDE DEF e
<1>13. e[0] = 0 /\ e[n + 1] = Len(after)
  BY <1>1, <1>7, <1>10, <1>11
<1>14. ASSUME NEW k \in 0..(n + 1) PROVE e[k] % 4 = 0 /\ e[k] <= Len(after)
  <2>1. CASE k = n + 1
    <3>1. o[n] \in Nat /\ o[n] % 4 = 0
      BY <1>1, <1>10
    <3>2. (o[n] + last) % 4 = 0
      <4>1. \A x, y \in Nat : x % 4 = 0 /\ y % 4 = 0 => (x + y) % 4 = 0
        OBVIOUS
      <4> QED BY <1>2, <3>1, <4>1
    <3>3. Len(after) \in Nat
      BY <1>2, <1>7, <1>9
    <3> QED BY <1>11, <1>13, <2>1, <3>2, <3>3
  <2>2. CASE k # n + 1
    <3>1. k \in 0..n
      BY <1>1, <2>2
    <3>2. o[k] % 4 = 0 /\ o[k] <= Len(before) /\ o[k] \in Nat
      BY <1>10, <3>1
    <3> QED BY <1>2, <1>7, <1>9, <1>11, <3>1, <3>2
  <2> QED BY <2>1, <2>2
<1>15. ASSUME NEW k \in 1..(n + 1) PROVE e[k] = e[k - 1] + Len(arguments[k].bytes)
  <2>1. k - 1 \in 0..n
    BY <1>1
  <2>2. CASE k = n + 1
    <3>1. k - 1 = n
      BY <1>1, <2>2
    <3> QED BY <1>1, <1>11, <2>1, <2>2, <3>1 DEF last
  <2>3. CASE k # n + 1
    <3>1. k \in 1..n /\ k \in 0..n
      BY <1>1, <2>3
    <3> QED BY <1>1, <1>10, <1>11, <2>1, <3>1
  <2> QED BY <2>2, <2>3
<1>16. ASSUME NEW k \in 1..(n + 1), NEW j \in 1..Len(arguments[k].bytes)
       PROVE  after[e[k - 1] + j] = arguments[k].bytes[j]
  <2>1. k - 1 \in 0..n
    BY <1>1
  <2>2. CASE k = n + 1
    <3>1. k - 1 = n /\ e[k - 1] = Len(before)
      BY <1>1, <1>10, <1>11, <2>1, <2>2
    <3>2. arguments[k] = a /\ j \in 1..last
      BY <1>1, <2>2 DEF last
    <3> QED BY <1>8, <3>1, <3>2
  <2>3. CASE k # n + 1
    <3>1. k \in 1..n /\ k \in 0..n
      BY <1>1, <2>3
    <3>2. arguments[k] = front[k] /\ e[k - 1] = o[k - 1]
      BY <1>1, <1>11, <2>1, <3>1
    <3>3. before[o[k - 1] + j] = front[k].bytes[j]
      BY <1>10, <3>1, <3>2
    <3>4. o[k - 1] + j \in 1..Len(before)
      <4>1. o[k] = o[k - 1] + Len(front[k].bytes) /\ o[k] <= Len(before)
        BY <1>10, <3>1
      <4>2. o[k - 1] \in Nat
        BY <1>10, <2>1
      <4>3. Len(front[k].bytes) \in Nat
        <5>1. front[k] \in Arguments
          BY <3>1, ElementOfSeq DEF n
        <5> QED BY <5>1, ArgumentLength
      <4>4. j \in 1..Len(front[k].bytes)
        BY <3>2
      <4>5. Len(before) \in Nat
        BY <1>9
      <4> QED BY ONLY <4>1, <4>2, <4>3, <4>4, <4>5
    <3> QED BY <1>8, <3>2, <3>3, <3>4
  <2> QED BY <2>2, <2>3
<1>17. Offsets(arguments, e)
  BY <1>1, <1>5, <1>12, <1>13, <1>14, <1>15, <1>16 DEF Offsets
<1> QED BY <1>5, <1>7, <1>17

LEMMA OffsetsExist ==
  \A arguments \in Seq(Arguments) :
    IsGood(ArgumentPart(arguments)) /\ \E o : Offsets(arguments, o)
<1> DEFINE P(arguments) == IsGood(ArgumentPart(arguments)) /\ \E o : Offsets(arguments, o)
           T == { n \in Nat : \A arguments \in Seq(Arguments) : Len(arguments) = n => P(arguments) }
<1>1. 0 \in T
  <2> SUFFICES ASSUME NEW arguments \in Seq(Arguments), Len(arguments) = 0 PROVE P(arguments)
    OBVIOUS
  <2>1. arguments = << >>
    BY EmptySeq
  <2>2. ArgumentPart(<< >>) = << >>
    BY NoArguments
  <2>3. IsGood(<< >>)
    BY DEF IsGood
  <2> DEFINE o == [k \in 0..0 |-> 0]
  <2>4. Offsets(<< >>, o)
    BY <2>2 DEF Offsets
  <2> QED BY <2>1, <2>2, <2>3, <2>4
<1>2. ASSUME NEW n \in Nat, n \in T PROVE n + 1 \in T
  <2> SUFFICES ASSUME NEW arguments \in Seq(Arguments), Len(arguments) = n + 1 PROVE P(arguments)
    OBVIOUS
  <2>1. /\ Front(arguments) \in Seq(Arguments) /\ Len(Front(arguments)) = Len(arguments) - 1
        /\ Last(arguments) \in Arguments
        /\ Append(Front(arguments), Last(arguments)) = arguments
    BY FrontLast
  <2>2. Len(Front(arguments)) = n
    BY <2>1
  <2>3. P(Front(arguments))
    BY <1>2, <2>1, <2>2
  <2> QED BY <2>1, <2>3, NextOffset
<1> HIDE DEF P
<1>3. \A n \in Nat : n \in T
  <2> HIDE DEF T
  <2> QED BY <1>1, <1>2, EveryNumber
<1>4. ASSUME NEW arguments \in Seq(Arguments) PROVE P(arguments)
  <2>1. Len(arguments) \in Nat
    BY LenProperties
  <2> QED BY <1>3, <2>1
<1> QED BY <1>4 DEF P

CharsAt(arguments, w) ==
  /\ w \in Seq(Byte) /\ Len(w) = RoundUp4(Len(arguments) + 2)
  /\ w[1] = ByteOf(",", 0, 0)
  /\ \A k \in 1..Len(arguments) : w[1 + k] = ByteOf(arguments[k].tag, 0, 0)
  /\ \A j \in (Len(arguments) + 2)..Len(w) : w[j] = ByteOf("zero", 0, 0)

LEMMA CharsArePointwise ==
  ASSUME NEW arguments \in Seq(Arguments), NEW chars,
         chars = Chars(<< "," >> \o Tags(arguments))
  PROVE  /\ chars \in Seq(Byte) /\ Len(chars) = Len(arguments) + 1
         /\ chars[1] = ByteOf(",", 0, 0)
         /\ \A k \in 1..Len(arguments) : chars[1 + k] = ByteOf(arguments[k].tag, 0, 0)
<1>1. PICK count \in Nat : count = Len(arguments)
  BY LenProperties
<1>0. 1 \in 1..1 /\ 1 \in 1..(1 + count)
  BY ONLY count \in Nat
<1>2. PICK tags : tags = Tags(arguments)
  OBVIOUS
<1>3. tags \in Seq(TypeTagValues) /\ Len(tags) = count
  BY <1>1, <1>2, TagsType
<1>4. \A k \in 1..count : tags[k] = arguments[k].tag
  <2>1. DOMAIN arguments = 1..count
    BY <1>1, LenProperties
  <2> QED BY <1>2, <2>1 DEF Tags
<1>5. tags \in Seq(What)
  <2>1. \A tag \in TypeTagValues : tag \in What
    BY DEF What
  <2>2. \A k \in 1..count : tags[k] \in What
    BY <1>3, <2>1, ElementOfSeq
  <2>3. tags \in [1..count -> What]
    <3>1. tags \in [1..count -> TypeTagValues]
      BY <1>3, LenProperties
    <3> QED BY <2>2, <3>1
  <2> QED BY <2>3, FunctionIsSeq
<1>6. PICK char : char = ","
  OBVIOUS
<1>7. char \in What
  BY <1>6 DEF What
<1>8. PICK comma : comma = << char >>
  OBVIOUS
<1>9. comma \in Seq(What) /\ Len(comma) = 1 /\ comma[1] = char
  BY ONLY <1>7, <1>8
<1>10. PICK s : s = comma \o tags
  OBVIOUS
<1>11. /\ s \in Seq(What) /\ Len(s) = 1 + count
       /\ s[1] = char /\ \A k \in 1..count : s[1 + k] = tags[k]
  <2>1. comma \in Seq(What)
    BY <1>9
  <2>2. /\ s \in Seq(What) /\ Len(s) = Len(comma) + Len(tags)
        /\ \A k \in 1..Len(comma) : s[k] = comma[k]
        /\ \A k \in 1..Len(tags) : s[Len(comma) + k] = tags[k]
    BY ONLY <1>5, <1>10, <2>1, ConcatType
  <2>3. Len(comma) = 1 /\ comma[1] = char /\ Len(tags) = count
    BY <1>3, <1>9
  <2> QED BY ONLY <1>0, <2>2, <2>3, count \in Nat
<1>12. chars = Chars(s)
  BY <1>2, <1>6, <1>8, <1>10
<1>13. chars \in Seq(Byte) /\ Len(chars) = 1 + count
  BY ONLY <1>11, <1>12, CharsType
<1>14. DOMAIN s = 1..(1 + count)
  BY ONLY <1>11, LenProperties
<1>15. \A k \in 1..(1 + count) : chars[k] = ByteOf(s[k], 0, 0)
  BY ONLY <1>12, <1>14 DEF Chars
<1>16. chars[1] = ByteOf(",", 0, 0)
  BY <1>0, <1>6, <1>11, <1>15
<1>17. ASSUME NEW k \in 1..count PROVE chars[1 + k] = ByteOf(arguments[k].tag, 0, 0)
  <2>1. 1 + k \in 1..(1 + count)
    BY ONLY count \in Nat, k \in 1..count
  <2> QED BY <1>4, <1>11, <1>15, <2>1
<1>18. 1 + count = count + 1
  BY ONLY count \in Nat
<1> QED BY <1>1, <1>13, <1>16, <1>17, <1>18

LEMMA TypeTagPartAre ==
  ASSUME NEW arguments \in Seq(Arguments), NEW w, w = TypeTagPart(arguments)
  PROVE  CharsAt(arguments, w)
<1>1. PICK count \in Nat : count = Len(arguments)
  BY LenProperties
<1>2. PICK size \in Nat : size = RoundUp4(count + 2) /\ count + 2 <= size
  <2>1. count + 2 \in Nat
    OBVIOUS
  <2> QED BY <2>1, RoundUp4Is
<1>3. PICK chars : chars = Chars(<< "," >> \o Tags(arguments))
  OBVIOUS
<1>4. /\ chars \in Seq(Byte) /\ Len(chars) = count + 1
      /\ chars[1] = ByteOf(",", 0, 0)
      /\ \A k \in 1..count : chars[1 + k] = ByteOf(arguments[k].tag, 0, 0)
  BY <1>1, <1>3, CharsArePointwise
<1>5. PICK zeros : zeros = Zeros(size - (count + 1))
  OBVIOUS
<1>6. w = chars \o zeros
  BY <1>1, <1>2, <1>3, <1>5, TypeTagPartType
<1>7. PICK pad \in Nat : pad = size - (count + 1)
  <2>1. size - (count + 1) \in Nat
    BY <1>2
  <2> QED BY <2>1
<1>8. zeros \in Seq(Byte) /\ Len(zeros) = pad /\ \A k \in 1..pad : zeros[k] = ByteOf("zero", 0, 0)
  BY <1>5, <1>7, ZerosType DEF Zeros
<1>9. /\ w \in Seq(Byte) /\ Len(w) = Len(chars) + Len(zeros)
      /\ \A k \in 1..Len(chars) : w[k] = chars[k]
      /\ \A k \in 1..Len(zeros) : w[Len(chars) + k] = zeros[k]
  <2>1. chars \in Seq(Byte) /\ zeros \in Seq(Byte)
    BY <1>4, <1>8
  <2> QED BY ONLY <1>6, <2>1, ConcatType
<1>10. /\ Len(chars) = count + 1 /\ Len(zeros) = pad
  BY <1>4, <1>8
<1>11. Len(w) = size
  BY <1>2, <1>7, <1>9, <1>10
<1>12. w[1] = ByteOf(",", 0, 0)
  <2>1. 1 \in 1..(count + 1)
    OBVIOUS
  <2> QED BY <1>4, <1>9, <2>1
<1>13. ASSUME NEW k \in 1..count PROVE w[1 + k] = ByteOf(arguments[k].tag, 0, 0)
  <2>1. 1 + k \in 1..(count + 1)
    OBVIOUS
  <2> QED BY <1>4, <1>9, <2>1
<1>14. ASSUME NEW j \in (count + 2)..Len(w) PROVE w[j] = ByteOf("zero", 0, 0)
  <2>1. j - (count + 1) \in 1..pad /\ (count + 1) + (j - (count + 1)) = j
    BY <1>2, <1>7, <1>11
  <2>2. w[(count + 1) + (j - (count + 1))] = zeros[j - (count + 1)]
    BY <1>9, <1>10, <2>1
  <2> QED BY <1>8, <2>1, <2>2
<1> QED BY <1>1, <1>2, <1>9, <1>11, <1>12, <1>13, <1>14 DEF CharsAt

MessageBytes(n, arguments) ==
  AddressPart(n) \o TypeTagPart(arguments) \o ArgumentPart(arguments)

(* m is a message with an address pattern of n characters and these        *)
(* arguments: the type tag string from a to d, and o[k] the end of the     *)
(* k-th argument.                                                          *)
IsMessage(m, n, arguments, a, d, o) ==
  LET count == Len(arguments)
  IN  /\ m \in Seq(Reader!Byte) /\ Len(m) % 4 = 0
      /\ arguments \in Seq(Arguments) /\ n \in Nat
      /\ a = RoundUp4(n + 1) /\ d = a + RoundUp4(count + 2)
      /\ o \in [0..count -> Nat] /\ o[0] = d /\ o[count] = Len(m)
      /\ \A k \in 0..count : o[k] % 4 = 0
      /\ \A k \in 1..count : o[k] = o[k - 1] + Len(arguments[k].bytes)
      /\ \A k \in 1..count : LiesAt(m, o[k - 1], arguments[k].bytes)
      /\ \A j \in 1..n : m[j] = 47
      /\ \A j \in (n + 1)..a : m[j] = 0
      /\ m[a + 1] = 44
      /\ \A k \in 1..count : m[a + 1 + k] = TagValue(arguments[k].tag)
      /\ \A j \in (a + count + 2)..d : m[j] = 0

LEMMA MessageIsGood ==
  ASSUME NEW n \in Nat, NEW arguments \in Seq(Arguments)
  PROVE  /\ IsGood(AddressPart(n)) /\ IsGood(TypeTagPart(arguments))
         /\ IsGood(ArgumentPart(arguments)) /\ IsGood(MessageBytes(n, arguments))
<1>1. PICK s : s = AddressPart(n)
  OBVIOUS
<1>2. PICK t : t = TypeTagPart(arguments)
  OBVIOUS
<1>3. PICK u : u = ArgumentPart(arguments)
  OBVIOUS
<1>4. IsGood(s)
  <2>1. s = Padded(Bytes("address", n) \o Zeros(1))
    BY <1>1 DEF AddressPart
  <2>2. "address" \in What
    BY DEF What
  <2>3. \A k \in Nat : ByteValue(ByteOf("address", 0, k)) \in Reader!Byte
    BY GoodBytes
  <2> QED BY <2>1, <2>2, <2>3, GoodTerminated
<1>5. IsGood(t)
  <2>1. CharsAt(arguments, t)
    BY <1>2, TypeTagPartAre
  <2>2. /\ t \in Seq(Byte) /\ t[1] = ByteOf(",", 0, 0)
        /\ \A k \in 1..Len(arguments) : t[1 + k] = ByteOf(arguments[k].tag, 0, 0)
        /\ \A j \in (Len(arguments) + 2)..Len(t) : t[j] = ByteOf("zero", 0, 0)
    BY <2>1 DEF CharsAt
  <2>3. Len(arguments) \in Nat /\ Len(t) \in Nat
    BY <2>2, LenProperties
  <2>4. ASSUME NEW k \in 1..Len(t) PROVE ByteValue(t[k]) \in Reader!Byte
    <3>1. CASE k = 1
      BY <2>2, <3>1, GoodBytes
    <3>2. CASE k > 1 /\ k <= Len(arguments) + 1
      <4>1. k - 1 \in 1..Len(arguments) /\ 1 + (k - 1) = k
        BY <2>3, <3>2
      <4>2. t[1 + (k - 1)] = ByteOf(arguments[k - 1].tag, 0, 0)
        BY <2>2, <4>1
      <4>3. arguments[k - 1].tag \in TypeTagValues
        BY <4>1, ElementOfSeq, ArgumentType DEF Fits
      <4>4. \A tag \in TypeTagValues : ByteValue(ByteOf(tag, 0, 0)) \in Reader!Byte
        <5>1. 0 \in Nat
          OBVIOUS
        <5> QED BY <5>1, GoodBytes
      <4> QED BY <4>1, <4>2, <4>3, <4>4
    <3>3. CASE k > Len(arguments) + 1
      <4>1. k \in (Len(arguments) + 2)..Len(t)
        BY <2>3, <3>3
      <4> QED BY <2>2, <4>1, GoodBytes
    <3> QED BY <2>3, <3>1, <3>2, <3>3
  <2> QED BY <2>2, <2>4 DEF IsGood
<1>6. IsGood(u)
  BY <1>3, OffsetsExist
<1>7. PICK st : st = s \o t
  OBVIOUS
<1>8. PICK w : w = st \o u
  OBVIOUS
<1>9. IsGood(st)
  BY <1>4, <1>5, <1>7, GoodConcat
<1>10. IsGood(w)
  BY <1>6, <1>8, <1>9, GoodConcat
<1>11. MessageBytes(n, arguments) = w
  BY <1>1, <1>2, <1>3, <1>7, <1>8 DEF MessageBytes
<1> QED BY <1>1, <1>2, <1>3, <1>4, <1>5, <1>6, <1>10, <1>11

(* m are the values of s, t and u one behind the other.                    *)
ThreeIn(m, s, t, u) ==
  /\ Len(m) = Len(s) + Len(t) + Len(u)
  /\ \A k \in 1..Len(s) : m[k] = ByteValue(s[k])
  /\ \A k \in 1..Len(t) : m[Len(s) + k] = ByteValue(t[k])
  /\ \A k \in 1..Len(u) : m[Len(s) + Len(t) + k] = ByteValue(u[k])

LEMMA ThreeValues ==
  ASSUME NEW s \in Seq(Byte), NEW t \in Seq(Byte), NEW u \in Seq(Byte),
         NEW w, w = s \o t \o u, IsGood(w), NEW m, m = Values(w)
  PROVE  m \in Seq(Reader!Byte) /\ ThreeIn(m, s, t, u)
<1>1. IsJoin(w, s, t, u)
  BY DEF IsJoin
<1>2. /\ Len(w) = Len(s) + Len(t) + Len(u)
      /\ \A k \in 1..Len(s) : w[k] = s[k]
      /\ \A k \in 1..Len(t) : w[Len(s) + k] = t[k]
      /\ \A k \in 1..Len(u) : w[Len(s) + Len(t) + k] = u[k]
  BY <1>1, ThreeParts
<1>3. /\ m \in Seq(Reader!Byte) /\ Len(m) = Len(w)
      /\ \A k \in 1..Len(w) : m[k] = ByteValue(w[k])
  BY ValuesAre
<1>4. PICK x \in Nat : x = Len(s)
  BY LenProperties
<1>5. PICK y \in Nat : y = Len(t)
  BY LenProperties
<1>6. PICK z \in Nat : z = Len(u)
  BY LenProperties
<1>7. ASSUME NEW k \in 1..x PROVE m[k] = ByteValue(s[k])
  <2>1. k \in 1..(x + y + z)
    OBVIOUS
  <2> QED BY <1>2, <1>3, <1>4, <1>5, <1>6, <2>1
<1>8. ASSUME NEW k \in 1..y PROVE m[x + k] = ByteValue(t[k])
  <2>1. x + k \in 1..(x + y + z)
    OBVIOUS
  <2> QED BY <1>2, <1>3, <1>4, <1>5, <1>6, <2>1
<1>9. ASSUME NEW k \in 1..z PROVE m[x + y + k] = ByteValue(u[k])
  <2>1. x + y + k \in 1..(x + y + z)
    OBVIOUS
  <2>2. Len(w) = x + y + z /\ w[x + y + k] = u[k]
    BY <1>2, <1>4, <1>5, <1>6
  <2> QED BY <1>3, <2>1, <2>2
<1>10. Len(m) = x + y + z
  BY <1>2, <1>3, <1>4, <1>5, <1>6
<1> QED BY <1>3, <1>4, <1>5, <1>6, <1>7, <1>8, <1>9, <1>10 DEF ThreeIn

LEMMA MessageIs ==
  ASSUME NEW n \in Nat, NEW arguments \in Seq(Arguments),
         NEW m, m = Values(MessageBytes(n, arguments))
  PROVE  \E a, d \in Nat : \E o : IsMessage(m, n, arguments, a, d, o)
<1>1. PICK s : s = AddressPart(n)
  OBVIOUS
<1>2. PICK t : t = TypeTagPart(arguments)
  OBVIOUS
<1>3. PICK u : u = ArgumentPart(arguments)
  OBVIOUS
<1>4. PICK count \in Nat : count = Len(arguments)
  BY LenProperties
<1>5. IsGood(s) /\ IsGood(t) /\ IsGood(u) /\ IsGood(MessageBytes(n, arguments))
  BY <1>1, <1>2, <1>3, MessageIsGood
<1>6. s \in Seq(Byte) /\ t \in Seq(Byte) /\ u \in Seq(Byte)
  BY <1>5 DEF IsGood
<1>7. m \in Seq(Reader!Byte) /\ ThreeIn(m, s, t, u)
  <2>1. PICK w : w = s \o t \o u
    OBVIOUS
  <2>2. IsGood(w) /\ m = Values(w)
    BY <1>1, <1>2, <1>3, <1>5, <2>1 DEF MessageBytes
  <2> QED BY ONLY <1>6, <2>1, <2>2, ThreeValues
<1>8. PICK a \in Nat : a = RoundUp4(n + 1) /\ n + 1 <= a /\ a % 4 = 0
  <2>1. n + 1 \in Nat
    OBVIOUS
  <2> QED BY <2>1, RoundUp4Is
<1>9. PICK c \in Nat : c = RoundUp4(count + 2) /\ count + 2 <= c /\ c % 4 = 0
  <2>1. count + 2 \in Nat
    OBVIOUS
  <2> QED BY <2>1, RoundUp4Is
<1>10. /\ Len(s) = a
       /\ \A j \in 1..n : s[j] = ByteOf("address", 0, j)
       /\ \A j \in (n + 1)..a : s[j] = ByteOf("zero", 0, 0)
  <2>1. s = Padded(Bytes("address", n) \o Zeros(1))
    BY <1>1 DEF AddressPart
  <2>2. "address" \in What
    BY DEF What
  <2>3. Terminated("address", n, s)
    BY <2>1, <2>2, TerminatedAre
  <2> QED BY <1>8, <2>3 DEF Terminated
<1>11. /\ Len(t) = c
       /\ t[1] = ByteOf(",", 0, 0)
       /\ \A k \in 1..count : t[1 + k] = ByteOf(arguments[k].tag, 0, 0)
       /\ \A j \in (count + 2)..c : t[j] = ByteOf("zero", 0, 0)
  <2>1. CharsAt(arguments, t)
    BY <1>2, TypeTagPartAre
  <2> QED BY <1>4, <1>9, <2>1 DEF CharsAt
<1>12. PICK e : Offsets(arguments, e)
  BY OffsetsExist
<1>13. /\ e \in [0..count -> Nat] /\ e[0] = 0 /\ e[count] = Len(u)
       /\ \A k \in 0..count : e[k] % 4 = 0 /\ e[k] <= Len(u)
       /\ \A k \in 1..count : e[k] = e[k - 1] + Len(arguments[k].bytes)
       /\ \A k \in 1..count : \A j \in 1..Len(arguments[k].bytes) :
            u[e[k - 1] + j] = arguments[k].bytes[j]
  BY <1>3, <1>4, <1>12 DEF Offsets
<1>14. PICK l \in Nat : l = Len(u)
  BY <1>6, LenProperties
<1>15. PICK d \in Nat : d = a + c
  OBVIOUS
<1>16. /\ Len(m) = d + l
       /\ \A k \in 1..a : m[k] = ByteValue(s[k])
       /\ \A k \in 1..c : m[a + k] = ByteValue(t[k])
       /\ \A k \in 1..l : m[d + k] = ByteValue(u[k])
  BY <1>7, <1>10, <1>11, <1>14, <1>15 DEF ThreeIn
<1> DEFINE o == [k \in 0..count |-> d + e[k]]
<1>17. o \in [0..count -> Nat] /\ \A k \in 0..count : o[k] = d + e[k]
  BY <1>13
<1> HIDE DEF o
<1>18. o[0] = d /\ o[count] = Len(m)
  <2>1. 0 \in 0..count /\ count \in 0..count
    OBVIOUS
  <2>2. o[0] = d + e[0] /\ o[count] = d + e[count]
    BY <1>17, <2>1
  <2>3. e[0] = 0 /\ e[count] = l /\ Len(m) = d + l
    BY <1>13, <1>14, <1>16
  <2> QED BY <2>2, <2>3
<1>19. ASSUME NEW k \in 0..count PROVE o[k] % 4 = 0
  <2>1. \A x, y, z \in Nat : x % 4 = 0 /\ y % 4 = 0 /\ z % 4 = 0 => ((x + y) + z) % 4 = 0
    OBVIOUS
  <2>2. PICK y \in Nat : y = e[k] /\ y % 4 = 0
    BY <1>13
  <2>3. o[k] = (a + c) + y
    <3>1. o[k] = d + e[k]
      BY <1>17
    <3> QED BY <1>15, <2>2, <3>1
  <2>4. ((a + c) + y) % 4 = 0
    <3>1. a % 4 = 0 /\ c % 4 = 0 /\ y % 4 = 0
      BY <1>8, <1>9, <2>2
    <3> QED BY ONLY <2>1, <3>1, a \in Nat, c \in Nat, y \in Nat, Zenon
  <2> QED BY <2>3, <2>4
<1>20. \A k \in 1..count : Len(arguments[k].bytes) \in Nat
  <2>1. \A k \in 1..count : arguments[k] \in Arguments
    BY <1>4, ElementOfSeq
  <2> QED BY <2>1, ArgumentLength
<1>21. ASSUME NEW k \in 1..count
       PROVE  /\ o[k] = o[k - 1] + Len(arguments[k].bytes)
              /\ LiesAt(m, o[k - 1], arguments[k].bytes)
  <2>1. k \in 0..count /\ k - 1 \in 0..count
    OBVIOUS
  <2>2. o[k] = d + e[k] /\ o[k - 1] = d + e[k - 1] /\ e[k] = e[k - 1] + Len(arguments[k].bytes)
    BY <1>13, <1>17, <2>1
  <2>3. PICK x \in Nat : x = e[k - 1]
    BY <1>13, <2>1
  <2>4. PICK y \in Nat : y = Len(arguments[k].bytes)
    BY <1>20
  <2>5. o[k] = (d + x) + y /\ o[k - 1] = d + x /\ x + y <= l
    <3>1. e[k] = x + y
      BY <2>2, <2>3, <2>4
    <3>2. e[k] <= l
      BY <1>13, <1>14, <2>1
    <3>3. o[k] = d + (x + y) /\ o[k - 1] = d + x
      BY <2>2, <2>3, <3>1
    <3>4. d + (x + y) = (d + x) + y
      OBVIOUS
    <3> QED BY <3>1, <3>2, <3>3, <3>4
  <2>6. (d + x) + y <= Len(m)
    BY <1>16, <2>5
  <2>7. ASSUME NEW j \in 1..y PROVE m[(d + x) + j] = ByteValue(arguments[k].bytes[j])
    <3>1. x + j \in 1..l /\ d + (x + j) = (d + x) + j
      BY <2>5
    <3>2. m[d + (x + j)] = ByteValue(u[x + j])
      BY <1>16, <3>1
    <3>3. u[x + j] = arguments[k].bytes[j]
      BY <1>13, <2>3, <2>4
    <3> QED BY <3>1, <3>2, <3>3
  <2> QED BY <2>4, <2>5, <2>6, <2>7 DEF LiesAt
<1>22. ASSUME NEW j \in 1..n PROVE m[j] = 47
  <2>1. j \in 1..a /\ j \in Nat
    BY <1>8
  <2> QED BY <1>10, <1>16, <2>1, AddressValues
<1>23. ASSUME NEW j \in (n + 1)..a PROVE m[j] = 0
  <2>1. j \in 1..a
    OBVIOUS
  <2> QED BY <1>10, <1>16, <2>1, ZeroValue
<1>24. m[a + 1] = 44
  <2>1. 1 \in 1..c
    BY <1>9
  <2>2. m[a + 1] = ByteValue(ByteOf(",", 0, 0))
    BY <1>11, <1>16, <2>1
  <2>3. ByteValue(ByteOf(",", 0, 0)) = TagValue(",") /\ TagValue(",") = 44
    BY TagByteValues, TagValues
  <2> QED BY <2>2, <2>3
<1>25. ASSUME NEW k \in 1..count PROVE m[a + 1 + k] = TagValue(arguments[k].tag)
  <2>1. 1 + k \in 1..c /\ a + (1 + k) = a + 1 + k
    BY <1>9
  <2>2. m[a + (1 + k)] = ByteValue(ByteOf(arguments[k].tag, 0, 0))
    BY <1>11, <1>16, <2>1
  <2>3. arguments[k].tag \in TypeTagValues
    BY <1>4, ElementOfSeq, ArgumentType DEF Fits
  <2>4. ByteValue(ByteOf(arguments[k].tag, 0, 0)) = TagValue(arguments[k].tag)
    BY <2>3, TagByteValues
  <2> QED BY <2>1, <2>2, <2>4
<1>26. ASSUME NEW j \in (a + count + 2)..d PROVE m[j] = 0
  <2>1. j - a \in (count + 2)..c /\ j - a \in 1..c /\ a + (j - a) = j
    BY <1>15
  <2>2. m[a + (j - a)] = ByteValue(ByteOf("zero", 0, 0))
    BY <1>11, <1>16, <2>1
  <2> QED BY <2>1, <2>2, ZeroValue
<1>27. Len(m) % 4 = 0
  <2>1. count \in 0..count
    OBVIOUS
  <2> QED BY <1>18, <1>19, <2>1
<1>28. IsMessage(m, n, arguments, a, d, o)
  <2>1. d = a + RoundUp4(count + 2)
    BY <1>9, <1>15
  <2> QED BY <1>4, <1>7, <1>8, <1>17, <1>18, <1>19, <1>21, <1>22, <1>23, <1>24, <1>25, <1>26, <1>27,
             <2>1 DEF IsMessage
<1> QED BY <1>28

(* What the reader finds before the arguments.                             *)

HeaderReads(m, n, arguments, a, d) ==
  LET count == Len(arguments)
  IN  /\ Reader!AddressPattern(m) = [k \in 1..n |-> 47]
      /\ Reader!TypeTagString(m) = a /\ Reader!FindStr4End(m, a) = d
      /\ a \in Boundaries(m) /\ d \in Boundaries(m) /\ a < Len(m)
      /\ Reader!At(m, a) = Reader!COMMA
      /\ Reader!HasTypeTags(m) <=> count # 0
      /\ \A k \in 1..count : Reader!At(m, a + k) = TagValue(arguments[k].tag)
      /\ count # 0 => /\ Len(Reader!TypeTags(m)) = count
                      /\ \A k \in 1..count : Reader!TypeTags(m)[k] = TagValue(arguments[k].tag)
      /\ ~Reader!IsBundle(m)

LEMMA HeaderIs ==
  ASSUME NEW m \in Seq(Reader!Byte), NEW n \in Nat, NEW arguments \in Seq(Arguments),
         NEW a \in Nat, NEW d \in Nat, NEW o, IsMessage(m, n, arguments, a, d, o)
  PROVE  HeaderReads(m, n, arguments, a, d)
<1>1. PICK count \in Nat : count = Len(arguments)
  BY LenProperties
<1>2. PICK l \in Nat : l = Len(m)
  BY LenProperties
<1>3. /\ l % 4 = 0 /\ a = RoundUp4(n + 1) /\ d = a + RoundUp4(count + 2)
      /\ o \in [0..count -> Nat] /\ o[0] = d /\ o[count] = l
      /\ \A k \in 1..count : LiesAt(m, o[k - 1], arguments[k].bytes)
      /\ \A j \in 1..n : m[j] = 47
      /\ \A j \in (n + 1)..a : m[j] = 0
      /\ m[a + 1] = 44
      /\ \A k \in 1..count : m[a + 1 + k] = TagValue(arguments[k].tag)
      /\ \A j \in (a + count + 2)..d : m[j] = 0
  BY <1>1, <1>2 DEF IsMessage
<1>4. n + 1 <= a /\ a % 4 = 0
  <2>1. n + 1 \in Nat
    OBVIOUS
  <2> QED BY <1>3, <2>1, RoundUp4Is
<1>5. PICK c \in Nat : c = RoundUp4(count + 2) /\ count + 2 <= c /\ c % 4 = 0 /\ d = a + c
  <2>1. count + 2 \in Nat
    OBVIOUS
  <2> QED BY <1>3, <2>1, RoundUp4Is
<1>6. d <= l
  <2>1. CASE count = 0
    BY <1>3, <2>1
  <2>2. CASE count # 0
    <3>1. 1 \in 1..count
      BY <2>2
    <3>2. LiesAt(m, o[0], arguments[1].bytes)
      BY <1>3, <3>1
    <3>3. arguments[1] \in Arguments
      BY <1>1, <3>1, ElementOfSeq
    <3>4. Len(arguments[1].bytes) \in Nat
      BY <3>3, ArgumentLength
    <3>5. d + Len(arguments[1].bytes) <= l
      BY <1>2, <1>3, <3>2 DEF LiesAt
    <3> QED BY <3>4, <3>5
  <2> QED BY <2>1, <2>2
<1>7. d % 4 = 0
  <2>1. \A x, y \in Nat : x % 4 = 0 /\ y % 4 = 0 => (x + y) % 4 = 0
    OBVIOUS
  <2> QED BY <1>4, <1>5, <2>1
<1>8. a \in 0..l /\ d \in 0..l /\ a < l
  BY <1>4, <1>5, <1>6
<1>9. a \in Boundaries(m) /\ d \in Boundaries(m) /\ a < Len(m)
  BY <1>2, <1>4, <1>7, <1>8 DEF Boundaries
<1>10. \A tag \in TypeTagValues : TagValue(tag) # 0
  <2>1. ASSUME NEW tag \in TypeTagValues PROVE TagValue(tag) # 0
    <3>1. TagValue(tag) \in 1..255
      <4>1. KindsAgree(tag, TagValue(tag))
        BY TagValueKinds
      <4> QED BY ONLY <4>1, Zenon DEF KindsAgree
    <3>2. PICK v \in 1..255 : v = TagValue(tag)
      BY <3>1
    <3>3. v # 0
      BY ONLY v \in 1..255
    <3> QED BY <3>2, <3>3
  <2> QED BY <2>1
<1>11. ASSUME NEW k \in 1..count PROVE TagValue(arguments[k].tag) # 0
  <2>1. arguments[k].tag \in TypeTagValues
    BY <1>1, ElementOfSeq, ArgumentType DEF Fits
  <2> QED BY <1>10, <2>1
<1>12. PICK z \in Nat : z = 0
  OBVIOUS
<1>13. IsString(m, z, n, a)
  <2>1. z % 4 = 0 /\ a = z + RoundUp4(n + 1) /\ a <= Len(m)
    BY <1>2, <1>3, <1>8, <1>12
  <2>2. ASSUME NEW j \in 1..n PROVE m[z + j] # 0
    BY <1>3, <1>12
  <2>3. ASSUME NEW j \in (n + 1)..RoundUp4(n + 1) PROVE m[z + j] = 0
    BY <1>3, <1>12
  <2> QED BY <2>1, <2>2, <2>3 DEF IsString
<1>14. /\ Reader!FindStr4End(m, z) = a
       /\ Reader!CString(m, z) = SubSeq(m, z + 1, z + n)
  BY <1>2, <1>3, <1>13, StringReads
<1>15. Reader!AddressPattern(m) = [k \in 1..n |-> 47]
  <2> DEFINE s == [k \in 1..n |-> 47]
  <2>1. s = [j \in 1..n |-> s[j]]
    OBVIOUS
  <2>2. \A j \in 1..n : s[j] = 47
    OBVIOUS
  <2> HIDE DEF s
  <2>3. \A j \in 1..n : m[z + j] = s[j]
    BY <1>3, <1>12, <2>2
  <2>4. z + n <= Len(m)
    <3>1. n <= a /\ a <= Len(m) /\ a \in Nat /\ Len(m) \in Nat
      BY <1>2, <1>4, <1>8
    <3> QED BY ONLY <1>12, <3>1, n \in Nat
  <2>5. SubSeq(m, z + 1, z + n) = s
    BY <2>1, <2>3, <2>4, SliceIs
  <2> QED BY <1>12, <1>14, <2>5 DEF Reader!AddressPattern, s
<1>16. Reader!TypeTagString(m) = a
  BY <1>12, <1>14 DEF Reader!TypeTagString
<1>17. PICK c1 \in Nat : c1 = count + 1
  OBVIOUS
<1>18. IsString(m, a, c1, d)
  <2>1. a % 4 = 0 /\ d = a + RoundUp4(c1 + 1) /\ d <= Len(m)
    <3>1. c1 + 1 = count + 2
      BY <1>17
    <3> QED BY <1>2, <1>3, <1>4, <1>6, <3>1
  <2>2. ASSUME NEW j \in 1..c1 PROVE m[a + j] # 0
    <3>1. CASE j = 1
      BY <1>3, <3>1
    <3>2. CASE j # 1
      <4>1. j - 1 \in 1..count /\ a + 1 + (j - 1) = a + j
        BY <1>17, <3>2
      <4>2. m[a + 1 + (j - 1)] = TagValue(arguments[j - 1].tag)
        BY <1>3, <4>1
      <4> QED BY <1>11, <4>1, <4>2
    <3> QED BY <3>1, <3>2
  <2>3. ASSUME NEW j \in (c1 + 1)..RoundUp4(c1 + 1) PROVE m[a + j] = 0
    <3>1. c1 + 1 = count + 2 /\ RoundUp4(c1 + 1) = c
      BY <1>5, <1>17
    <3>2. a + j \in (a + count + 2)..d
      BY <1>5, <3>1
    <3> QED BY <1>3, <3>2
  <2> QED BY <2>1, <2>2, <2>3 DEF IsString
<1>19. Reader!FindStr4End(m, a) = d
  BY <1>2, <1>3, <1>18, StringReads
<1>20. Reader!At(m, a) = Reader!COMMA
  BY <1>3 DEF Reader!At, Reader!COMMA
<1>21. ASSUME NEW k \in 1..count PROVE Reader!At(m, a + k) = TagValue(arguments[k].tag)
  <2>1. a + k + 1 = a + 1 + k
    OBVIOUS
  <2> QED BY <1>3, <2>1 DEF Reader!At
<1>22. Reader!HasTypeTags(m) <=> count # 0
  <2>1. a # l
    BY <1>8
  <2>2. CASE count = 0
    <3>1. a + 2 \in (a + count + 2)..d
      BY <1>5, <2>2
    <3>2. m[a + 2] = 0
      BY <1>3, <3>1
    <3>3. (a + 1) + 1 = a + 2
      OBVIOUS
    <3>4. Reader!At(m, a + 1) = 0
      BY <3>2, <3>3 DEF Reader!At
    <3> QED BY <1>16, <2>2, <3>4 DEF Reader!HasTypeTags
  <2>3. CASE count # 0
    <3>1. 1 \in 1..count
      BY <2>3
    <3>2. Reader!At(m, a + 1) # 0
      BY <1>11, <1>21, <3>1
    <3> QED BY <1>2, <1>16, <2>1, <2>3, <3>2 DEF Reader!HasTypeTags
  <2> QED BY <2>2, <2>3
<1>23. /\ Len(Reader!TypeTags(m)) = count
       /\ \A k \in 1..count : Reader!TypeTags(m)[k] = TagValue(arguments[k].tag)
  <2>1. PICK p \in Nat : p = a + 1
    OBVIOUS
  <2>2. p + count < Len(m) /\ p + count <= Len(m)
    BY <1>2, <1>5, <1>6, <2>1
  <2>3. ASSUME NEW j \in 1..count PROVE m[p + j] # 0
    BY <1>3, <1>11, <2>1
  <2>4. m[p + count + 1] = 0
    <3>1. p + count + 1 \in (a + count + 2)..d
      BY <1>5, <2>1
    <3> QED BY <1>3, <3>1
  <2>5. Reader!CString(m, p) = SubSeq(m, p + 1, p + count)
    BY <2>2, <2>3, <2>4, CStringIs
  <2>6. PICK s : s = [j \in 1..count |-> TagValue(arguments[j].tag)]
    OBVIOUS
  <2>7. s = [j \in 1..count |-> s[j]] /\ \A j \in 1..count : s[j] = TagValue(arguments[j].tag)
    BY <2>6
  <2>8. \A j \in 1..count : m[p + j] = s[j]
    BY <1>3, <2>1, <2>7
  <2>9. SubSeq(m, p + 1, p + count) = s
    <3>1. PICK b \in Seq(Reader!Byte) : b = m
      BY <1>2
    <3>2. PICK f \in Nat : f = count
      BY <1>1
    <3>3. Slice(b, p, f, s)
      BY <2>7, <2>8, <3>1, <3>2 DEF Slice
    <3>4. p + f <= Len(b)
      BY <2>2, <3>1, <3>2
    <3>5. SubSeq(b, p + 1, p + f) = s
      BY <3>3, <3>4, SliceOf
    <3> QED BY <3>1, <3>2, <3>5
  <2>10. Reader!TypeTags(m) = s
    BY <1>16, <2>1, <2>5, <2>9 DEF Reader!TypeTags
  <2>11. Len(s) = count
    BY <2>7
  <2> QED BY <2>7, <2>10, <2>11
<1>24. ~Reader!IsBundle(m)
  <2>1. Reader!At(m, 0) = m[1]
    BY DEF Reader!At
  <2>2. m[1] = 47 \/ m[1] = 0
    <3>1. CASE n = 0
      <4>1. 1 \in (n + 1)..a
        BY <1>4, <3>1
      <4> QED BY <1>3, <4>1
    <3>2. CASE n # 0
      <4>1. 1 \in 1..n
        BY <3>2
      <4> QED BY <1>3, <4>1
    <3> QED BY <3>1, <3>2
  <2> QED BY <2>1, <2>2 DEF Reader!IsBundle, Reader!HASH
<1> QED BY <1>1, <1>9, <1>15, <1>16, <1>19, <1>20, <1>21, <1>22, <1>23, <1>24 DEF HeaderReads

(* The levels of arrays.                                                   *)

Change(tag) == CASE tag = "[" -> 1 [] tag = "]" -> -1 [] OTHER -> 0

TagsUpTo(arguments, tag, n) == { k \in 1..n : arguments[k].tag = tag }

LEMMA OneMoreTag ==
  ASSUME NEW arguments, NEW tag, NEW n \in Nat
  PROVE  /\ IsFiniteSet(TagsUpTo(arguments, tag, n))
         /\ Cardinality(TagsUpTo(arguments, tag, n)) \in Nat
         /\ Cardinality(TagsUpTo(arguments, tag, n + 1)) =
              Cardinality(TagsUpTo(arguments, tag, n))
                + (IF arguments[n + 1].tag = tag THEN 1 ELSE 0)
<1> DEFINE s == TagsUpTo(arguments, tag, n)
           t == TagsUpTo(arguments, tag, n + 1)
<1>1. IsFiniteSet(s)
  <2>1. 1 \in Int /\ n \in Int
    OBVIOUS
  <2>2. IsFiniteSet(1..n)
    BY <2>1, FS_Interval
  <2>3. s \in SUBSET (1..n)
    BY DEF TagsUpTo
  <2> QED BY <2>2, <2>3, FS_Subset
<1>2. Cardinality(s) \in Nat
  BY <1>1, FS_CardinalityType
<1>3. n + 1 \notin s
  BY DEF TagsUpTo
<1>4. CASE arguments[n + 1].tag = tag
  <2>1. t = s \cup {n + 1}
    BY <1>4 DEF TagsUpTo
  <2> HIDE DEF s, t
  <2>2. Cardinality(t) = Cardinality(s) + 1
    BY <1>1, <1>3, <2>1, FS_AddElement
  <2> QED BY <1>1, <1>2, <1>4, <2>2 DEF s, t
<1>5. CASE arguments[n + 1].tag # tag
  <2>1. t = s
    BY <1>5 DEF TagsUpTo
  <2> QED BY <1>1, <1>2, <1>5, <2>1
<1> QED BY <1>4, <1>5

LEMMA LevelStep ==
  ASSUME NEW arguments
  PROVE  /\ ArrayLevel(arguments, 0) = 0
         /\ \A n \in Nat : /\ ArrayLevel(arguments, n) \in Int
                           /\ ArrayLevel(arguments, n + 1) =
                                ArrayLevel(arguments, n) + Change(arguments[n + 1].tag)
<1>1. \A n : ArrayLevel(arguments, n) = Cardinality(TagsUpTo(arguments, "[", n))
                                          - Cardinality(TagsUpTo(arguments, "]", n))
  BY DEF ArrayLevel, TagsUpTo
<1>2. ArrayLevel(arguments, 0) = 0
  <2>1. \A tag : TagsUpTo(arguments, tag, 0) = {}
    BY DEF TagsUpTo
  <2>2. Cardinality({}) = 0
    BY FS_EmptySet
  <2> QED BY <1>1, <2>1, <2>2
<1>3. ASSUME NEW n \in Nat
      PROVE  /\ ArrayLevel(arguments, n) \in Int
             /\ ArrayLevel(arguments, n + 1) =
                  ArrayLevel(arguments, n) + Change(arguments[n + 1].tag)
  <2>1. PICK x \in Nat : x = Cardinality(TagsUpTo(arguments, "[", n))
    BY OneMoreTag
  <2>2. PICK y \in Nat : y = Cardinality(TagsUpTo(arguments, "]", n))
    BY OneMoreTag
  <2>3. PICK tag : tag = arguments[n + 1].tag
    OBVIOUS
  <2>4. Cardinality(TagsUpTo(arguments, "[", n + 1)) = x + (IF tag = "[" THEN 1 ELSE 0)
    BY <2>1, <2>3, OneMoreTag
  <2>5. Cardinality(TagsUpTo(arguments, "]", n + 1)) = y + (IF tag = "]" THEN 1 ELSE 0)
    BY <2>2, <2>3, OneMoreTag
  <2>6. ArrayLevel(arguments, n) = x - y
    BY <1>1, <2>1, <2>2
  <2>7. ArrayLevel(arguments, n + 1) =
          (x + (IF tag = "[" THEN 1 ELSE 0)) - (y + (IF tag = "]" THEN 1 ELSE 0))
    BY <1>1, <2>4, <2>5
  <2>8. "[" # "]"
    OBVIOUS
  <2>9. CASE tag = "["
    <3>1. tag # "]"
      BY <2>8, <2>9
    <3>2. Change(tag) = 1
      BY <2>9 DEF Change
    <3>3. ArrayLevel(arguments, n + 1) = (x + 1) - (y + 0)
      BY <2>7, <2>9, <3>1
    <3> QED BY <2>3, <2>6, <3>2, <3>3
  <2>10. CASE tag = "]"
    <3>1. tag # "["
      BY <2>8, <2>10
    <3>2. Change(tag) = -1
      BY <2>10, <3>1 DEF Change
    <3>3. ArrayLevel(arguments, n + 1) = (x + 0) - (y + 1)
      BY <2>7, <2>10, <3>1
    <3> QED BY <2>3, <2>6, <3>2, <3>3
  <2>11. CASE tag # "[" /\ tag # "]"
    <3>2. Change(tag) = 0
      BY <2>11 DEF Change
    <3>3. ArrayLevel(arguments, n + 1) = (x + 0) - (y + 0)
      BY <2>7, <2>11
    <3> QED BY <2>3, <2>6, <3>2, <3>3
  <2> QED BY <2>9, <2>10, <2>11
<1> QED BY <1>2, <1>3

LEMMA ChangeIs ==
  ASSUME NEW tag
  PROVE  /\ Change(tag) \in {-1, 0, 1}
         /\ tag = "[" => Change(tag) = 1
         /\ tag = "]" => Change(tag) = -1
         /\ tag \notin {"[", "]"} => Change(tag) = 0
<1>1. "[" # "]"
  OBVIOUS
<1> QED BY <1>1 DEF Change

(* The levels before the n-th argument and after it.                       *)
LevelsUpTo(arguments, n) == \A k \in 1..n : ArrayLevel(arguments, k) >= 0

LEMMA LevelsStep ==
  ASSUME NEW arguments, NEW n \in Nat
  PROVE  LevelsUpTo(arguments, n + 1) <=>
           LevelsUpTo(arguments, n) /\ ArrayLevel(arguments, n + 1) >= 0
<1>1. \A k : k \in 1..(n + 1) <=> k \in 1..n \/ k = n + 1
  OBVIOUS
<1> QED BY <1>1 DEF LevelsUpTo

-----------------------------------------------------------------------------
(* 5. A message, validated and read.                                       *)

(* The validation of a message.                                            *)

(* The data of the n-th argument as the reader finds it.                   *)
LEMMA ArgumentsRead ==
  ASSUME NEW m \in Seq(Reader!Byte), NEW n \in Nat, NEW arguments \in Seq(Arguments),
         NEW a \in Nat, NEW d \in Nat, NEW o, IsMessage(m, n, arguments, a, d, o),
         Len(m) <= Reader!OSC_BUNDLE_ELEMENT_SIZE_MAX
  PROVE  \A k \in 1..Len(arguments) :
           /\ Reads(m, arguments[k], a + k, o[k - 1])
           /\ Reader!At(m, a + k) = TagValue(arguments[k].tag)
           /\ o[k] = o[k - 1] + Len(arguments[k].bytes)
           /\ o[k - 1] \in Nat /\ o[k] \in Nat
<1> SUFFICES ASSUME NEW k \in 1..Len(arguments)
             PROVE  /\ Reads(m, arguments[k], a + k, o[k - 1])
                    /\ Reader!At(m, a + k) = TagValue(arguments[k].tag)
                    /\ o[k] = o[k - 1] + Len(arguments[k].bytes)
                    /\ o[k - 1] \in Nat /\ o[k] \in Nat
  OBVIOUS
<1>1. PICK count \in Nat : count = Len(arguments)
  BY LenProperties
<1>2. k \in 1..count /\ k - 1 \in 0..count /\ k \in 0..count /\ a + k \in Nat
  BY <1>1
<1>3. /\ Len(m) % 4 = 0 /\ o \in [0..count -> Nat]
      /\ o[k - 1] % 4 = 0
      /\ o[k] = o[k - 1] + Len(arguments[k].bytes)
      /\ LiesAt(m, o[k - 1], arguments[k].bytes)
  BY <1>1, <1>2 DEF IsMessage
<1>4. Reader!At(m, a + k) = TagValue(arguments[k].tag)
  <2>1. HeaderReads(m, n, arguments, a, d)
    BY HeaderIs
  <2> QED BY <2>1 DEF HeaderReads
<1>5. PICK p \in Nat : p = o[k - 1]
  BY <1>2, <1>3
<1>6. arguments[k] \in Arguments
  BY ElementOfSeq
<1>7. Reads(m, arguments[k], a + k, p)
  BY <1>2, <1>3, <1>4, <1>5, <1>6, ArgumentReads
<1> QED BY <1>2, <1>3, <1>4, <1>5, <1>7

Check(ok, argument, level) == [ok |-> ok, argument |-> argument, level |-> level]

(* One round, given the data of an argument that the reader passes over.   *)
Passed(c, q, level) ==
  /\ c.argument = q /\ c.level = level
  /\ c.ok <=> level >= 0
  /\ c.ok => c = Check(TRUE, q, level)

LEMMA CheckPasses ==
  ASSUME NEW m, NEW p \in Nat, NEW q \in Nat, NEW level \in Int,
         NEW tag \in TypeTagValues, NEW v, v = TagValue(tag), Reader!ArgumentEnd(m, v, p) = q
  PROVE  Passed(Reader!CheckArgument(m, Check(TRUE, p, level), v), q, level + Change(tag))
<1>1. KindsAgree(tag, v)
  BY TagValueKinds
<1>2. /\ v \in Reader!TypeTagValues
      /\ v = Reader!ARRAY_BEGIN_TYPE_TAG <=> tag = "["
      /\ v = Reader!ARRAY_END_TYPE_TAG <=> tag = "]"
  BY <1>1 DEF KindsAgree
<1>3. PICK change \in {-1, 0, 1} : change = Change(tag)
  BY ChangeIs
<1>4. Reader!ARRAY_BEGIN_TYPE_TAG # Reader!ARRAY_END_TYPE_TAG
  BY DEF Reader!ARRAY_BEGIN_TYPE_TAG, Reader!ARRAY_END_TYPE_TAG
<1>5. level + (CASE v = Reader!ARRAY_BEGIN_TYPE_TAG -> 1
                 [] v = Reader!ARRAY_END_TYPE_TAG -> -1
                 [] OTHER -> 0) = level + change
  BY <1>2, <1>3, <1>4, ChangeIs
<1>6. q # Reader!NULL
  BY DEF Reader!NULL
<1> DEFINE check == Check(TRUE, p, level)
<1>7. check.ok = TRUE /\ check.argument = p /\ check.level = level
  BY DEF Check
<1> HIDE DEF check
<1>8. Reader!CheckArgument(m, check, v) =
        [ ok |-> v \in Reader!TypeTagValues /\ q # Reader!NULL /\ level + change >= 0,
          argument |-> q, level |-> level + change ]
  <2>1. ~(~check.ok)
    BY <1>7
  <2>2. Reader!CheckArgument(m, check, v) =
          LET argument == Reader!ArgumentEnd(m, v, check.argument)
              next == check.level + (CASE v = Reader!ARRAY_BEGIN_TYPE_TAG -> 1
                                       [] v = Reader!ARRAY_END_TYPE_TAG -> -1
                                       [] OTHER -> 0)
          IN  [ ok |-> v \in Reader!TypeTagValues /\ argument # Reader!NULL /\ next >= 0,
                argument |-> argument, level |-> next ]
    BY <2>1, Zenon DEF Reader!CheckArgument
  <2> QED BY <1>5, <1>7, <2>2
<1>9. check = Check(TRUE, p, level)
  BY DEF check
<1>10. v \in Reader!TypeTagValues /\ q # Reader!NULL /\ level + change >= 0 <=> level + change >= 0
  BY <1>2, <1>6
<1>11. PICK c : c = Reader!CheckArgument(m, check, v)
  OBVIOUS
<1>12. c = [ok |-> level + change >= 0, argument |-> q, level |-> level + change]
  BY <1>8, <1>10, <1>11
<1>13. /\ c.argument = q /\ c.level = level + change
       /\ c.ok <=> level + change >= 0
  BY <1>12
<1>14. c.ok => c = Check(TRUE, q, level + change)
  <2> SUFFICES ASSUME c.ok PROVE c = [ok |-> TRUE, argument |-> q, level |-> level + change]
    BY DEF Check
  <2>1. (level + change >= 0) = TRUE
    BY <1>3, <1>13
  <2> QED BY <1>12, <2>1
<1>15. Passed(c, q, level + change)
  BY <1>13, <1>14 DEF Passed
<1> QED BY <1>3, <1>9, <1>11, <1>15

(* After n rounds of the loop over the type tags.                          *)
CheckedTo(m, arguments, o, n) ==
  LET c == Reader!Checks(m)[n]
  IN  /\ c.ok <=> LevelsUpTo(arguments, n)
      /\ LevelsUpTo(arguments, n) => c = Check(TRUE, o[n], ArrayLevel(arguments, n))

LEMMA ChecksOfMessage ==
  ASSUME NEW m \in Seq(Reader!Byte), NEW n \in Nat, NEW arguments \in Seq(Arguments),
         NEW a \in Nat, NEW d \in Nat, NEW o, IsMessage(m, n, arguments, a, d, o),
         Len(m) <= Reader!OSC_BUNDLE_ELEMENT_SIZE_MAX, arguments # << >>
  PROVE  CheckedTo(m, arguments, o, Len(arguments))
<1>1. PICK count \in Nat : count = Len(arguments)
  BY LenProperties
<1>2. count # 0
  BY <1>1, EmptySeq
<1>3. /\ Reader!TypeTagString(m) = a /\ Reader!FindStr4End(m, a) = d /\ d \in Boundaries(m)
      /\ \A k \in 1..count : Reader!TypeTags(m)[k] = TagValue(arguments[k].tag)
  <2>1. HeaderReads(m, n, arguments, a, d)
    BY HeaderIs
  <2> QED BY <1>1, <1>2, <2>1 DEF HeaderReads
<1>4. Len(m) % 4 = 0 /\ o[0] = d
  BY DEF IsMessage
<1>5. /\ Reader!Checks(m)[0] = Check(TRUE, d, 0)
      /\ \A k \in Nat : /\ Reader!Checks(m)[k] \in ChecksOf(m)
                        /\ Reader!Checks(m)[k + 1] =
                             Reader!CheckArgument(m, Reader!Checks(m)[k], Reader!TypeTags(m)[k + 1])
  <2>1. Reader!FindStr4End(m, Reader!TypeTagString(m)) = d
    BY <1>3
  <2>2. /\ Reader!Checks(m)[0] = [ ok |-> TRUE, level |-> 0,
                                   argument |-> Reader!FindStr4End(m, Reader!TypeTagString(m)) ]
        /\ \A k \in Nat : /\ Reader!Checks(m)[k] \in ChecksOf(m)
                          /\ Reader!Checks(m)[k + 1] =
                               Reader!CheckArgument(m, Reader!Checks(m)[k], Reader!TypeTags(m)[k + 1])
    BY <1>3, <1>4, <2>1, ChecksAre
  <2> QED BY <2>1, <2>2 DEF Check
<1>6. ArrayLevel(arguments, 0) = 0 /\ LevelsUpTo(arguments, 0)
  <2>1. 1..0 = {}
    OBVIOUS
  <2> QED BY <2>1, LevelStep DEF LevelsUpTo
<1> DEFINE T == { k \in Nat : k <= count => CheckedTo(m, arguments, o, k) }
<1>7. 0 \in T
  <2>1. Reader!Checks(m)[0] = Check(TRUE, o[0], ArrayLevel(arguments, 0))
    BY <1>4, <1>5, <1>6
  <2>2. Check(TRUE, o[0], ArrayLevel(arguments, 0)).ok
    BY DEF Check
  <2>3. CheckedTo(m, arguments, o, 0)
    BY <1>6, <2>1, <2>2 DEF CheckedTo
  <2> QED BY <2>3
<1>8. ASSUME NEW k \in Nat, k \in T PROVE k + 1 \in T
  <2> SUFFICES ASSUME k + 1 <= count PROVE CheckedTo(m, arguments, o, k + 1)
    OBVIOUS
  <2>1. CheckedTo(m, arguments, o, k)
    BY <1>8
  <2>2. k + 1 \in 1..count
    OBVIOUS
  <2>3. PICK c : c = Reader!Checks(m)[k]
    OBVIOUS
  <2>4. PICK e : e = Reader!Checks(m)[k + 1]
    OBVIOUS
  <2>5. PICK tag \in TypeTagValues : tag = arguments[k + 1].tag
    <3>1. arguments[k + 1].tag \in TypeTagValues
      BY <1>1, <2>2, ElementOfSeq, ArgumentType DEF Fits
    <3> QED BY <3>1
  <2>6. PICK v : v = TagValue(tag)
    OBVIOUS
  <2>7. e = Reader!CheckArgument(m, c, v)
    BY <1>3, <1>5, <2>2, <2>3, <2>4, <2>5, <2>6
  <2>8. PICK level \in Int : level = ArrayLevel(arguments, k)
    BY LevelStep
  <2>9. ArrayLevel(arguments, k + 1) = level + Change(tag)
    BY <2>5, <2>8, LevelStep
  <2>10. CASE LevelsUpTo(arguments, k)
    <3>1. c = Check(TRUE, o[k], level)
      BY <2>1, <2>3, <2>8, <2>10 DEF CheckedTo
    <3>2. /\ Reads(m, arguments[k + 1], a + (k + 1), o[(k + 1) - 1])
          /\ o[k + 1] = o[(k + 1) - 1] + Len(arguments[k + 1].bytes)
          /\ o[(k + 1) - 1] \in Nat /\ o[k + 1] \in Nat
      <4>1. \A j \in 1..count : /\ Reads(m, arguments[j], a + j, o[j - 1])
                                /\ o[j] = o[j - 1] + Len(arguments[j].bytes)
                                /\ o[j - 1] \in Nat /\ o[j] \in Nat
        <5>1. IsMessage(m, n, arguments, a, d, o) /\ Len(m) <= Reader!OSC_BUNDLE_ELEMENT_SIZE_MAX
          OBVIOUS
        <5>2. \A j \in 1..Len(arguments) :
                /\ Reads(m, arguments[j], a + j, o[j - 1])
                /\ Reader!At(m, a + j) = TagValue(arguments[j].tag)
                /\ o[j] = o[j - 1] + Len(arguments[j].bytes)
                /\ o[j - 1] \in Nat /\ o[j] \in Nat
          BY <5>1, ArgumentsRead
        <5> QED BY <1>1, <5>2
      <4> QED BY <2>2, <4>1
    <3>3. (k + 1) - 1 = k
      OBVIOUS
    <3>4. PICK p \in Nat : p = o[k]
      BY <3>2, <3>3
    <3>5. PICK q \in Nat : q = o[k + 1]
      BY <3>2
    <3>6. Reader!ArgumentEnd(m, v, p) = q
      BY <2>5, <2>6, <3>2, <3>3, <3>4, <3>5 DEF Reads, PassesOver
    <3>7. e = Reader!CheckArgument(m, Check(TRUE, p, level), v)
      BY <2>7, <3>1, <3>4
    <3>8. Passed(e, q, level + Change(tag))
      BY <2>5, <2>6, <2>8, <3>4, <3>5, <3>6, <3>7, CheckPasses
    <3>9. /\ e.ok <=> level + Change(tag) >= 0
          /\ e.ok => e = Check(TRUE, q, level + Change(tag))
      BY <3>8 DEF Passed
    <3>10. LevelsUpTo(arguments, k + 1) <=> e.ok
      BY <2>9, <2>10, <3>9, LevelsStep
    <3> QED BY <2>4, <2>9, <3>5, <3>9, <3>10 DEF CheckedTo
  <2>11. CASE ~LevelsUpTo(arguments, k)
    <3>1. ~c.ok
      BY <2>1, <2>3, <2>11 DEF CheckedTo
    <3>2. e = c
      BY <2>7, <3>1 DEF Reader!CheckArgument
    <3>3. ~LevelsUpTo(arguments, k + 1)
      BY <2>11, LevelsStep
    <3> QED BY <2>4, <3>1, <3>2, <3>3 DEF CheckedTo
  <2> QED BY <2>10, <2>11
<1>9. \A k \in Nat : k \in T
  <2> HIDE DEF T
  <2> QED BY <1>7, <1>8, EveryNumber
<1> QED BY <1>1, <1>9

(* A message is valid exactly if its arrays are balanced.                  *)
LEMMA MessageValid ==
  ASSUME NEW m \in Seq(Reader!Byte), NEW n \in Nat, NEW arguments \in Seq(Arguments),
         NEW a \in Nat, NEW d \in Nat, NEW o, IsMessage(m, n, arguments, a, d, o),
         Len(m) <= Reader!OSC_BUNDLE_ELEMENT_SIZE_MAX
  PROVE  /\ Reader!ValidateSizeNoThrow(Len(m))
         /\ Reader!ValidateMessage(m) <=> ArraysBalanced(arguments)
<1>1. PICK count \in Nat : count = Len(arguments)
  BY LenProperties
<1>2. HeaderReads(m, n, arguments, a, d)
  BY HeaderIs
<1>3. /\ Reader!TypeTagString(m) = a /\ Reader!FindStr4End(m, a) = d
      /\ a \in Boundaries(m) /\ d \in Boundaries(m) /\ a < Len(m)
      /\ Reader!At(m, a) = Reader!COMMA
      /\ Reader!HasTypeTags(m) <=> count # 0
      /\ count # 0 => Len(Reader!TypeTags(m)) = count
  BY <1>1, <1>2 DEF HeaderReads
<1>4. Reader!ValidateSizeNoThrow(Len(m))
  <2>1. Len(m) \in Nat /\ Len(m) % 4 = 0 /\ Len(m) # 0
    BY <1>3, LenProperties DEF IsMessage
  <2> QED BY <2>1 DEF Reader!ValidateSizeNoThrow, Reader!IsValidElementSizeValue,
                      Reader!IsMultipleOf4
<1>5. a # Reader!NULL /\ d # Reader!NULL /\ a # Len(m)
  <2>1. Len(m) \in Nat
    BY LenProperties
  <2> QED BY <1>3, <2>1 DEF Reader!NULL
<1>6. Reader!ValidateMessage(m) <=> (count # 0 => Reader!ArgumentsWellFormed(m))
  BY <1>3, <1>4, <1>5 DEF Reader!ValidateMessage
<1>7. ArraysBalanced(arguments) <=> ArrayLevel(arguments, count) = 0 /\ LevelsUpTo(arguments, count)
  BY <1>1 DEF ArraysBalanced, LevelsUpTo
<1>8. CASE count = 0
  <2>1. ArrayLevel(arguments, 0) = 0 /\ LevelsUpTo(arguments, 0)
    <3>1. 1..0 = {}
      OBVIOUS
    <3> QED BY <3>1, LevelStep DEF LevelsUpTo
  <2> QED BY <1>4, <1>6, <1>7, <1>8, <2>1
<1>9. CASE count # 0
  <2>1. arguments # << >>
    BY <1>1, <1>9
  <2>2. CheckedTo(m, arguments, o, count)
    BY <1>1, <2>1, ChecksOfMessage
  <2>3. PICK c : c = Reader!Checks(m)[count]
    OBVIOUS
  <2>4. /\ c.ok <=> LevelsUpTo(arguments, count)
        /\ LevelsUpTo(arguments, count) => c.level = ArrayLevel(arguments, count)
    BY <2>2, <2>3 DEF CheckedTo, Check
  <2>5. Reader!ArgumentsWellFormed(m) <=> c.ok /\ c.level = 0
    BY <1>3, <1>5, <1>9, <2>3 DEF Reader!ArgumentsWellFormed
  <2> QED BY <1>4, <1>6, <1>7, <1>9, <2>4, <2>5
<1> QED BY <1>8, <1>9

(* The iterators over a message.                                           *)

(* A sequence of steps that starts like another and continues like it is   *)
(* the same.                                                               *)
Continues(f, w, n) == \A k \in 1..n : f[k - 1] = w[k - 1] => f[k] = w[k]
SameUpTo(f, w, n) == \A k \in 0..n : f[k] = w[k]

LEMMA SameFromZero ==
  ASSUME NEW n \in Nat, NEW f, NEW w, f[0] = w[0], Continues(f, w, n)
  PROVE  SameUpTo(f, w, n)
<1> DEFINE T == { k \in Nat : k <= n => f[k] = w[k] }
<1>1. 0 \in T
  OBVIOUS
<1>2. ASSUME NEW k \in Nat, k \in T PROVE k + 1 \in T
  <2> SUFFICES ASSUME k + 1 <= n PROVE f[k + 1] = w[k + 1]
    OBVIOUS
  <2>1. k + 1 \in 1..n /\ (k + 1) - 1 = k
    OBVIOUS
  <2>2. f[k] = w[k]
    BY <1>2
  <2> QED BY <2>1, <2>2 DEF Continues
<1>3. \A k \in Nat : k \in T
  <2> HIDE DEF T
  <2> QED BY <1>1, <1>2, EveryNumber
<1> QED BY <1>3 DEF SameUpTo

IteratorsEnd(m, arguments, a) ==
  /\ Reader!ArgumentCount(m) = Len(arguments)
  /\ arguments # << >> => /\ Reader!ArgumentsBegin(m) = IteratorAt(a + 1, Reader!FindStr4End(m, a))
                          /\ Reader!ArgumentsEnd(m).typeTag = a + 1 + Len(arguments)

LEMMA IteratorsEndIs ==
  ASSUME NEW m \in Seq(Reader!Byte), NEW n \in Nat, NEW arguments \in Seq(Arguments),
         NEW a \in Nat, NEW d \in Nat, NEW o, IsMessage(m, n, arguments, a, d, o)
  PROVE  IteratorsEnd(m, arguments, a)
<1>1. PICK count \in Nat : count = Len(arguments)
  BY LenProperties
<1>2. HeaderReads(m, n, arguments, a, d)
  BY HeaderIs
<1>3. /\ Reader!TypeTagString(m) = a
      /\ Reader!HasTypeTags(m) <=> count # 0
      /\ count # 0 => Len(Reader!TypeTags(m)) = count
  BY <1>1, <1>2 DEF HeaderReads
<1>4. arguments # << >> => count # 0
  BY <1>1, EmptySeq
<1>5. CASE count = 0
  <2>1. ~Reader!HasTypeTags(m)
    BY <1>3, <1>5
  <2>2. Reader!ArgumentsBegin(m).typeTag = -1 /\ Reader!ArgumentsEnd(m).typeTag = -1
    BY <2>1 DEF Reader!ArgumentsBegin, Reader!ArgumentsEnd, Reader!NULL
  <2>3. Reader!ArgumentCount(m) = count
    BY <1>5, <2>2 DEF Reader!ArgumentCount
  <2> QED BY <1>1, <1>4, <1>5, <2>3 DEF IteratorsEnd
<1>6. CASE count # 0
  <2>1. Reader!HasTypeTags(m)
    BY <1>3, <1>6
  <2>2. Reader!ArgumentsBegin(m) = IteratorAt(a + 1, Reader!FindStr4End(m, a))
    BY <1>3, <2>1 DEF Reader!ArgumentsBegin, IteratorAt
  <2>3. Reader!ArgumentsEnd(m).typeTag = a + 1 + count
    BY <1>3, <1>6, <2>1 DEF Reader!ArgumentsEnd
  <2>4. Reader!ArgumentsBegin(m).typeTag = a + 1
    BY <2>2, IteratorIs
  <2>5. Reader!ArgumentCount(m) = count
    BY <2>3, <2>4 DEF Reader!ArgumentCount
  <2> QED BY <1>1, <2>2, <2>3, <2>5 DEF IteratorsEnd
<1> QED BY <1>5, <1>6

(* The iterator for the k-th argument points to its tag and to its data.   *)
IteratorsAre(m, arguments, a, o) ==
  \A k \in 1..Len(arguments) : Reader!Iterators(m)[k - 1] = IteratorAt(a + k, o[k - 1])

LEMMA IteratorsOfMessage ==
  ASSUME NEW m \in Seq(Reader!Byte), NEW n \in Nat, NEW arguments \in Seq(Arguments),
         NEW a \in Nat, NEW d \in Nat, NEW o, IsMessage(m, n, arguments, a, d, o),
         Len(m) <= Reader!OSC_BUNDLE_ELEMENT_SIZE_MAX, arguments # << >>
  PROVE  IteratorsAre(m, arguments, a, o)
<1>1. PICK count \in Nat : count = Len(arguments)
  BY LenProperties
<1> DEFINE Step(g) == [k \in 0..Reader!ArgumentCount(m) |->
                         IF k = 0 THEN Reader!ArgumentsBegin(m) ELSE Reader!Advance(m, g[k - 1])]
           at == CHOOSE g : g = Step(g)
           w == [k \in 0..count |-> IteratorAt(a + 1 + k, o[k])]
<1>2. Reader!Iterators(m) = at
  BY DEF Reader!Iterators
<1>3. /\ Reader!ArgumentCount(m) = count
      /\ Reader!ArgumentsBegin(m) = IteratorAt(a + 1, o[0])
  <2>1. IteratorsEnd(m, arguments, a)
    BY IteratorsEndIs
  <2>2. HeaderReads(m, n, arguments, a, d)
    BY HeaderIs
  <2>3. Reader!FindStr4End(m, a) = d
    BY <2>2 DEF HeaderReads
  <2>4. o[0] = d
    BY DEF IsMessage
  <2> QED BY <1>1, <2>1, <2>3, <2>4 DEF IteratorsEnd
<1>4. \A k \in 1..count : Reader!Advance(m, IteratorAt(a + k, o[k - 1])) = IteratorAt(a + k + 1, o[k])
  <2>1. \A k \in 1..Len(arguments) :
          /\ Reads(m, arguments[k], a + k, o[k - 1])
          /\ Reader!At(m, a + k) = TagValue(arguments[k].tag)
          /\ o[k] = o[k - 1] + Len(arguments[k].bytes)
          /\ o[k - 1] \in Nat /\ o[k] \in Nat
    BY ArgumentsRead
  <2> SUFFICES ASSUME NEW k \in 1..count
               PROVE  Reader!Advance(m, IteratorAt(a + k, o[k - 1])) = IteratorAt(a + k + 1, o[k])
    OBVIOUS
  <2>2. Reads(m, arguments[k], a + k, o[k - 1]) /\ o[k] = o[k - 1] + Len(arguments[k].bytes)
    BY <1>1, <2>1
  <2>3. PassesOver(m, TagValue(arguments[k].tag), a + k, o[k - 1], o[k])
    BY <2>2 DEF Reads
  <2> QED BY <2>3 DEF PassesOver
<1>5. \A g : Step(g) = [k \in 0..count |->
                          IF k = 0 THEN IteratorAt(a + 1, o[0]) ELSE Reader!Advance(m, g[k - 1])]
  BY <1>3
<1> HIDE DEF Step
<1>6. w = Step(w)
  <2>1. ASSUME NEW k \in 0..count
        PROVE  w[k] = IF k = 0 THEN IteratorAt(a + 1, o[0]) ELSE Reader!Advance(m, w[k - 1])
    <3>1. CASE k = 0
      <4>1. a + 1 + 0 = a + 1
        OBVIOUS
      <4> QED BY <3>1, <4>1
    <3>2. CASE k # 0
      <4>1. k \in 1..count /\ k - 1 \in 0..count /\ a + 1 + k = a + k + 1 /\ a + 1 + (k - 1) = a + k
        BY <3>2
      <4>2. w[k - 1] = IteratorAt(a + k, o[k - 1])
        BY <4>1
      <4>3. w[k] = IteratorAt(a + k + 1, o[k])
        BY <4>1
      <4> HIDE DEF w
      <4> QED BY <1>4, <3>2, <4>1, <4>2, <4>3
    <3> QED BY <3>1, <3>2
  <2>2. w = [k \in 0..count |-> w[k]]
    OBVIOUS
  <2> HIDE DEF w
  <2> QED BY <1>5, <2>1, <2>2
<1> HIDE DEF w
<1>7. at = Step(at)
  BY <1>6
<1> HIDE DEF at
<1>8. \A k \in 0..count : at[k] = IF k = 0 THEN IteratorAt(a + 1, o[0]) ELSE Reader!Advance(m, at[k - 1])
  BY <1>5, <1>7
<1>9. \A k \in 0..count : w[k] = IF k = 0 THEN IteratorAt(a + 1, o[0]) ELSE Reader!Advance(m, w[k - 1])
  BY <1>5, <1>6
<1>10. \A k \in 0..count : at[k] = w[k]
  <2>1. 0 \in 0..count
    OBVIOUS
  <2>2. at[0] = w[0]
    BY <1>8, <1>9, <2>1
  <2>3. ASSUME NEW k \in 1..count, at[k - 1] = w[k - 1] PROVE at[k] = w[k]
    <3>1. k \in 0..count /\ k # 0
      OBVIOUS
    <3> QED BY <1>8, <1>9, <2>3, <3>1
  <2>4. Continues(at, w, count)
    BY <2>3 DEF Continues
  <2>5. SameUpTo(at, w, count)
    BY <2>2, <2>4, SameFromZero
  <2> QED BY <2>5 DEF SameUpTo
<1>11. ASSUME NEW k \in 1..count PROVE at[k - 1] = IteratorAt(a + k, o[k - 1])
  <2>1. k - 1 \in 0..count /\ a + 1 + (k - 1) = a + k
    OBVIOUS
  <2>2. w[k - 1] = IteratorAt(a + k, o[k - 1])
    BY <2>1 DEF w
  <2> QED BY <1>10, <2>1, <2>2
<1> QED BY <1>1, <1>2, <1>11 DEF IteratorsAre

(* The items of an array, counted.                                         *)

StaysAbove(arguments, k, n) ==
  \A l \in k..(k + n) : ArrayLevel(arguments, l) >= ArrayLevel(arguments, k)

IsItem(arguments, k, j) ==
  /\ arguments[j].tag \notin {"[", "]"}
  /\ ArrayLevel(arguments, j) = ArrayLevel(arguments, k)
  /\ \A l \in k..j : ArrayLevel(arguments, l) >= ArrayLevel(arguments, k)

ItemsUpTo(arguments, k, n) == { j \in (k + 1)..(k + n) : IsItem(arguments, k, j) }

(* The variables of the loop after n tags behind the one that begins the   *)
(* array.                                                                  *)
Counted(level, items) == [level |-> level, items |-> items]

CountedUpTo(arguments, k, n) ==
  Counted(IF StaysAbove(arguments, k, n)
          THEN ArrayLevel(arguments, k + n) - ArrayLevel(arguments, k) ELSE -1,
          Cardinality(ItemsUpTo(arguments, k, n)))

LEMMA StaysAboveStep ==
  ASSUME NEW arguments, NEW k \in Nat, NEW n \in Nat
  PROVE  /\ StaysAbove(arguments, k, 0)
         /\ StaysAbove(arguments, k, n) => ArrayLevel(arguments, k + n) >= ArrayLevel(arguments, k)
         /\ StaysAbove(arguments, k, n + 1) <=>
              /\ StaysAbove(arguments, k, n)
              /\ ArrayLevel(arguments, k + n + 1) >= ArrayLevel(arguments, k)
<1>1. /\ k..(k + 0) = {k}
      /\ k + n \in k..(k + n)
      /\ \A l : l \in k..(k + (n + 1)) <=> l \in k..(k + n) \/ l = k + n + 1
  OBVIOUS
<1>2. \A l \in Nat : ArrayLevel(arguments, l) \in Int
  BY LevelStep
<1>3. PICK x \in Int : x = ArrayLevel(arguments, k)
  BY <1>2
<1>4. x >= x
  BY <1>3
<1> QED BY <1>1, <1>3, <1>4 DEF StaysAbove

LEMMA ItemsStep ==
  ASSUME NEW arguments, NEW k \in Nat, NEW n \in Nat
  PROVE  /\ Cardinality(ItemsUpTo(arguments, k, 0)) = 0
         /\ Cardinality(ItemsUpTo(arguments, k, n)) \in Nat
         /\ Cardinality(ItemsUpTo(arguments, k, n + 1)) =
              Cardinality(ItemsUpTo(arguments, k, n))
                + (IF IsItem(arguments, k, k + n + 1) THEN 1 ELSE 0)
<1> DEFINE s == ItemsUpTo(arguments, k, n)
           t == ItemsUpTo(arguments, k, n + 1)
<1>1. IsFiniteSet(s)
  <2>1. k + 1 \in Int /\ k + n \in Int
    OBVIOUS
  <2>2. IsFiniteSet((k + 1)..(k + n))
    BY <2>1, FS_Interval
  <2>3. s \in SUBSET ((k + 1)..(k + n))
    BY DEF ItemsUpTo
  <2> QED BY <2>2, <2>3, FS_Subset
<1>2. Cardinality(s) \in Nat
  BY <1>1, FS_CardinalityType
<1>3. k + n + 1 \notin s
  BY DEF ItemsUpTo
<1>4. Cardinality(ItemsUpTo(arguments, k, 0)) = 0
  <2>1. ItemsUpTo(arguments, k, 0) = {}
    BY DEF ItemsUpTo
  <2> QED BY <2>1, FS_EmptySet
<1>5. \A j : j \in (k + 1)..(k + (n + 1)) <=> j \in (k + 1)..(k + n) \/ j = k + n + 1
  OBVIOUS
<1>6. CASE IsItem(arguments, k, k + n + 1)
  <2>1. t = s \cup {k + n + 1}
    BY <1>5, <1>6 DEF ItemsUpTo
  <2> HIDE DEF s, t
  <2>2. Cardinality(t) = Cardinality(s) + 1
    BY <1>1, <1>3, <2>1, FS_AddElement
  <2> QED BY <1>2, <1>4, <1>6, <2>2 DEF s, t
<1>7. CASE ~IsItem(arguments, k, k + n + 1)
  <2>1. t = s
    BY <1>5, <1>7 DEF ItemsUpTo
  <2> QED BY <1>2, <1>4, <1>7, <2>1
<1> QED BY <1>6, <1>7

LEMMA CountItemIs ==
  ASSUME NEW level \in Int, NEW items \in Nat, NEW v
  PROVE  Reader!CountItem(Counted(level, items), v) =
           IF level < 0 THEN Counted(level, items)
           ELSE IF v = Reader!ARRAY_BEGIN_TYPE_TAG THEN Counted(level + 1, items)
           ELSE IF v = Reader!ARRAY_END_TYPE_TAG THEN Counted(level - 1, items)
           ELSE IF level = 0 THEN Counted(level, items + 1) ELSE Counted(level, items)
<1>1. PICK c : c = Counted(level, items)
  OBVIOUS
<1>2. /\ c.level = level /\ c.items = items
      /\ [c EXCEPT !.level = @ + 1] = Counted(level + 1, items)
      /\ [c EXCEPT !.level = @ - 1] = Counted(level - 1, items)
      /\ [c EXCEPT !.items = @ + 1] = Counted(level, items + 1)
  BY <1>1 DEF Counted
<1>3. Reader!ARRAY_BEGIN_TYPE_TAG # Reader!ARRAY_END_TYPE_TAG
  BY DEF Reader!ARRAY_BEGIN_TYPE_TAG, Reader!ARRAY_END_TYPE_TAG
<1>4. CASE level < 0
  BY <1>1, <1>2, <1>4 DEF Reader!CountItem
<1>5. CASE level >= 0 /\ v = Reader!ARRAY_BEGIN_TYPE_TAG
  BY <1>1, <1>2, <1>3, <1>5 DEF Reader!CountItem
<1>6. CASE level >= 0 /\ v = Reader!ARRAY_END_TYPE_TAG
  BY <1>1, <1>2, <1>3, <1>6 DEF Reader!CountItem
<1>7. CASE level >= 0 /\ v \notin {Reader!ARRAY_BEGIN_TYPE_TAG, Reader!ARRAY_END_TYPE_TAG}
  <2>1. Reader!CountItem(c, v) = IF c.level = 0 THEN [c EXCEPT !.items = @ + 1] ELSE c
    BY <1>2, <1>7 DEF Reader!CountItem
  <2> QED BY <1>1, <1>2, <1>7, <2>1
<1> QED BY <1>4, <1>5, <1>6, <1>7

LEMMA CountedStep ==
  ASSUME NEW arguments, NEW k \in Nat, NEW n \in Nat,
         NEW tag \in TypeTagValues, tag = arguments[k + n + 1].tag
  PROVE  CountedUpTo(arguments, k, n + 1) =
           Reader!CountItem(CountedUpTo(arguments, k, n), TagValue(tag))
<1>1. PICK v : v = TagValue(tag)
  OBVIOUS
<1>2. /\ v = Reader!ARRAY_BEGIN_TYPE_TAG <=> tag = "["
      /\ v = Reader!ARRAY_END_TYPE_TAG <=> tag = "]"
  <2>1. KindsAgree(tag, v)
    BY <1>1, TagValueKinds
  <2> QED BY <2>1 DEF KindsAgree
<1>3. PICK base \in Int : base = ArrayLevel(arguments, k)
  BY LevelStep
<1>4. k + n \in Nat
  OBVIOUS
<1>5. PICK level \in Int : level = ArrayLevel(arguments, k + n)
  BY <1>4, LevelStep
<1>6. PICK change \in {-1, 0, 1} : change = Change(tag)
  BY ChangeIs
<1>7. ArrayLevel(arguments, k + n + 1) = level + change
  BY <1>4, <1>5, <1>6, LevelStep
<1>8. PICK items \in Nat : items = Cardinality(ItemsUpTo(arguments, k, n))
  BY ItemsStep
<1>9. Cardinality(ItemsUpTo(arguments, k, n + 1)) =
        items + (IF IsItem(arguments, k, k + n + 1) THEN 1 ELSE 0)
  BY <1>8, ItemsStep
<1>10. /\ StaysAbove(arguments, k, n) => level >= base
       /\ StaysAbove(arguments, k, n + 1) <=> StaysAbove(arguments, k, n) /\ level + change >= base
  BY <1>3, <1>5, <1>7, StaysAboveStep
<1>11. IsItem(arguments, k, k + n + 1) <=>
         /\ tag \notin {"[", "]"} /\ level + change = base
         /\ StaysAbove(arguments, k, n + 1)
  <2>1. k + (n + 1) = k + n + 1
    OBVIOUS
  <2> QED BY <1>3, <1>7, <2>1 DEF IsItem, StaysAbove
<1>12. CountedUpTo(arguments, k, n) =
         Counted(IF StaysAbove(arguments, k, n) THEN level - base ELSE -1, items)
  BY <1>3, <1>5, <1>8 DEF CountedUpTo
<1>13. CountedUpTo(arguments, k, n + 1) =
         Counted(IF StaysAbove(arguments, k, n + 1) THEN (level + change) - base ELSE -1,
                 items + (IF IsItem(arguments, k, k + n + 1) THEN 1 ELSE 0))
  <2>1. k + (n + 1) = k + n + 1
    OBVIOUS
  <2> QED BY <1>3, <1>7, <1>9, <2>1 DEF CountedUpTo
<1>14. PICK x \in Int : x = IF StaysAbove(arguments, k, n) THEN level - base ELSE -1
  <2>1. level - base \in Int /\ -1 \in Int
    BY ONLY level \in Int, base \in Int
  <2> QED BY <2>1, Zenon
<1>15. Reader!CountItem(Counted(x, items), v) =
         IF x < 0 THEN Counted(x, items)
         ELSE IF tag = "[" THEN Counted(x + 1, items)
         ELSE IF tag = "]" THEN Counted(x - 1, items)
         ELSE IF x = 0 THEN Counted(x, items + 1) ELSE Counted(x, items)
  BY <1>2, CountItemIs
<1>16. SUFFICES Reader!CountItem(Counted(x, items), v) =
         Counted(IF StaysAbove(arguments, k, n + 1) THEN (level + change) - base ELSE -1,
                 items + (IF IsItem(arguments, k, k + n + 1) THEN 1 ELSE 0))
  BY <1>1, <1>12, <1>13, <1>14
<1>17. CASE ~StaysAbove(arguments, k, n)
  <2>1. x < 0 /\ x = -1 /\ items + 0 = items
    BY <1>14, <1>17
  <2>2. ~StaysAbove(arguments, k, n + 1) /\ ~IsItem(arguments, k, k + n + 1)
    BY <1>10, <1>11, <1>17
  <2> QED BY <1>15, <2>1, <2>2
<1>18. CASE StaysAbove(arguments, k, n) /\ tag = "["
  <2>1. change = 1 /\ x = level - base /\ ~(x < 0) /\ items + 0 = items
    BY <1>6, <1>10, <1>14, <1>18, ChangeIs
  <2>2. StaysAbove(arguments, k, n + 1) /\ ~IsItem(arguments, k, k + n + 1)
    BY <1>10, <1>11, <1>18, <2>1
  <2>3. x + 1 = (level + change) - base
    BY <2>1
  <2> QED BY <1>15, <1>18, <2>1, <2>2, <2>3
<1>19. CASE StaysAbove(arguments, k, n) /\ tag = "]"
  <2>1. change = -1 /\ x = level - base /\ ~(x < 0) /\ items + 0 = items
    BY <1>6, <1>10, <1>14, <1>19, ChangeIs
  <2>2. ~IsItem(arguments, k, k + n + 1) /\ tag # "["
    BY <1>11, <1>19
  <2>3. x - 1 = IF StaysAbove(arguments, k, n + 1) THEN (level + change) - base ELSE -1
    BY <1>10, <1>19, <2>1
  <2> QED BY <1>15, <1>19, <2>1, <2>2, <2>3
<1>20. CASE StaysAbove(arguments, k, n) /\ tag \notin {"[", "]"}
  <2>1. change = 0 /\ x = level - base /\ ~(x < 0) /\ items + 0 = items
    BY <1>6, <1>10, <1>14, <1>20, ChangeIs
  <2>2. StaysAbove(arguments, k, n + 1) /\ (IsItem(arguments, k, k + n + 1) <=> x = 0)
    BY <1>10, <1>11, <1>20, <2>1
  <2>3. x = (level + change) - base
    BY <2>1
  <2> QED BY <1>15, <1>20, <2>1, <2>2, <2>3
<1> QED BY <1>17, <1>18, <1>19, <1>20

LEMMA ArrayItemsAre ==
  ASSUME NEW m \in Seq(Reader!Byte), NEW n \in Nat, NEW arguments \in Seq(Arguments),
         NEW a \in Nat, NEW d \in Nat, NEW o, IsMessage(m, n, arguments, a, d, o),
         NEW k \in 1..Len(arguments), NEW p
  PROVE  Reader!ComputeArrayItemCount(m, IteratorAt(a + k, p)) =
           Cardinality(ItemsOfArray(arguments, k))
<1>1. PICK count \in Nat : count = Len(arguments)
  BY LenProperties
<1>2. PICK rest \in Nat : rest = count - k
  <2>1. k \in 1..count
    BY <1>1
  <2>2. count - k \in Nat
    BY ONLY <2>1, count \in Nat
  <2> QED BY <2>2
<1> DEFINE Step(g) == [l \in 0..(Reader!ArgumentsEnd(m).typeTag - (IteratorAt(a + k, p).typeTag + 1)) |->
                         IF l = 0 THEN [level |-> 0, items |-> 0]
                         ELSE Reader!CountItem(g[l - 1], Reader!At(m, IteratorAt(a + k, p).typeTag + l))]
           at == CHOOSE g : g = Step(g)
           w == [l \in 0..rest |-> CountedUpTo(arguments, k, l)]
<1>3. Reader!ComputeArrayItemCount(m, IteratorAt(a + k, p)) =
        at[Reader!ArgumentsEnd(m).typeTag - (IteratorAt(a + k, p).typeTag + 1)].items
  BY DEF Reader!ComputeArrayItemCount
<1>4. Reader!ArgumentsEnd(m).typeTag - (IteratorAt(a + k, p).typeTag + 1) = rest
  <2>1. arguments # << >>
    BY <1>1, EmptySeq
  <2>2. IteratorsEnd(m, arguments, a)
    BY IteratorsEndIs
  <2>3. Reader!ArgumentsEnd(m).typeTag = a + 1 + count
    BY <1>1, <2>1, <2>2 DEF IteratorsEnd
  <2>4. IteratorAt(a + k, p).typeTag = a + k
    BY IteratorIs
  <2> QED BY <1>1, <1>2, <2>3, <2>4
<1>5. IteratorAt(a + k, p).typeTag = a + k
  BY IteratorIs
<1>6. [level |-> 0, items |-> 0] = CountedUpTo(arguments, k, 0)
  <2>1. StaysAbove(arguments, k, 0) /\ Cardinality(ItemsUpTo(arguments, k, 0)) = 0
    BY <1>1, StaysAboveStep, ItemsStep
  <2>2. PICK x \in Int : x = ArrayLevel(arguments, k)
    BY <1>1, LevelStep
  <2>3. k + 0 = k /\ x - x = 0
    BY <1>1
  <2> QED BY <2>1, <2>2, <2>3 DEF CountedUpTo, Counted
<1>7. \A g : Step(g) = [l \in 0..rest |->
                          IF l = 0 THEN CountedUpTo(arguments, k, 0)
                          ELSE Reader!CountItem(g[l - 1], Reader!At(m, a + k + l))]
  BY <1>4, <1>5, <1>6
<1> HIDE DEF Step
<1>8. ASSUME NEW l \in 1..rest
      PROVE  CountedUpTo(arguments, k, l) =
               Reader!CountItem(CountedUpTo(arguments, k, l - 1), Reader!At(m, a + k + l))
  <2>1. PICK j \in Nat : j = l - 1
    OBVIOUS
  <2>2. /\ l = j + 1 /\ k + j + 1 \in 1..count /\ k \in Nat
        /\ a + k + l = a + (k + j + 1)
    BY <1>1, <1>2, <2>1
  <2>3. PICK tag \in TypeTagValues : tag = arguments[k + j + 1].tag
    <3>1. arguments[k + j + 1] \in Arguments
      BY <1>1, <2>2, ElementOfSeq
    <3> QED BY <3>1, ArgumentType DEF Fits
  <2>4. Reader!At(m, a + (k + j + 1)) = TagValue(tag)
    <3>1. HeaderReads(m, n, arguments, a, d)
      BY HeaderIs
    <3>2. \A i \in 1..count : Reader!At(m, a + i) = TagValue(arguments[i].tag)
      BY <1>1, <3>1 DEF HeaderReads
    <3> QED BY <2>2, <2>3, <3>2
  <2>5. CountedUpTo(arguments, k, j + 1) = Reader!CountItem(CountedUpTo(arguments, k, j), TagValue(tag))
    BY <2>2, <2>3, CountedStep
  <2> QED BY <2>1, <2>2, <2>4, <2>5
<1>9. w = Step(w)
  <2>1. ASSUME NEW l \in 0..rest
        PROVE  w[l] = IF l = 0 THEN CountedUpTo(arguments, k, 0)
                      ELSE Reader!CountItem(w[l - 1], Reader!At(m, a + k + l))
    <3>1. CASE l = 0
      BY <3>1
    <3>2. CASE l # 0
      <4>1. l \in 1..rest /\ l - 1 \in 0..rest
        BY <3>2
      <4>2. w[l - 1] = CountedUpTo(arguments, k, l - 1)
        BY <4>1
      <4>3. w[l] = CountedUpTo(arguments, k, l)
        OBVIOUS
      <4> HIDE DEF w
      <4> QED BY <1>8, <3>2, <4>1, <4>2, <4>3
    <3> QED BY <3>1, <3>2
  <2>2. w = [l \in 0..rest |-> w[l]]
    OBVIOUS
  <2> HIDE DEF w
  <2> QED BY <1>7, <2>1, <2>2
<1> HIDE DEF w
<1>10. at = Step(at)
  BY <1>9
<1> HIDE DEF at
<1>11. \A l \in 0..rest : at[l] = IF l = 0 THEN CountedUpTo(arguments, k, 0)
                                  ELSE Reader!CountItem(at[l - 1], Reader!At(m, a + k + l))
  BY <1>7, <1>10
<1>12. \A l \in 0..rest : w[l] = IF l = 0 THEN CountedUpTo(arguments, k, 0)
                                 ELSE Reader!CountItem(w[l - 1], Reader!At(m, a + k + l))
  BY <1>7, <1>9
<1>13. at[rest] = w[rest]
  <2>1. 0 \in 0..rest /\ rest \in 0..rest
    OBVIOUS
  <2>2. at[0] = w[0]
    BY <1>11, <1>12, <2>1
  <2>3. ASSUME NEW l \in 1..rest, at[l - 1] = w[l - 1] PROVE at[l] = w[l]
    <3>1. l \in 0..rest /\ l # 0
      OBVIOUS
    <3> QED BY <1>11, <1>12, <2>3, <3>1
  <2>4. Continues(at, w, rest)
    BY <2>3 DEF Continues
  <2>5. SameUpTo(at, w, rest)
    BY <2>2, <2>4, SameFromZero
  <2> QED BY <2>1, <2>5 DEF SameUpTo
<1>14. w[rest].items = Cardinality(ItemsUpTo(arguments, k, rest))
  BY DEF w, CountedUpTo, Counted
<1>15. ItemsUpTo(arguments, k, rest) = ItemsOfArray(arguments, k)
  <2>1. k + rest = Len(arguments)
    BY <1>1, <1>2
  <2> QED BY <2>1 DEF ItemsUpTo, ItemsOfArray, IsItem
<1> QED BY <1>3, <1>4, <1>13, <1>14, <1>15

(* A message reads back as what was put.                                   *)

ArgumentRead(m, i) == [tag |-> Reader!At(m, i.typeTag), value |-> Reader!Value(m, i)]
ArgumentPut(arguments, k) ==
  [tag |-> TagValue(arguments[k].tag), value |-> ValuePut(arguments, k)]

LEMMA ArgumentReadsBack ==
  ASSUME NEW m \in Seq(Reader!Byte), NEW n \in Nat, NEW arguments \in Seq(Arguments),
         NEW a \in Nat, NEW d \in Nat, NEW o, IsMessage(m, n, arguments, a, d, o),
         Len(m) <= Reader!OSC_BUNDLE_ELEMENT_SIZE_MAX, NEW k \in 1..Len(arguments)
  PROVE  ArgumentRead(m, Reader!Iterators(m)[k - 1]) = ArgumentPut(arguments, k)
<1>1. PICK i : i = IteratorAt(a + k, o[k - 1])
  OBVIOUS
<1>2. Reader!Iterators(m)[k - 1] = i
  <2>1. arguments # << >>
    BY LenProperties, EmptySeq
  <2>2. IteratorsAre(m, arguments, a, o)
    BY <2>1, IteratorsOfMessage
  <2> QED BY <1>1, <2>2 DEF IteratorsAre
<1>3. i.typeTag = a + k
  BY <1>1, IteratorIs
<1>4. PICK tag : tag = arguments[k].tag
  OBVIOUS
<1>5. \A j \in 1..Len(arguments) :
        /\ Reads(m, arguments[j], a + j, o[j - 1])
        /\ Reader!At(m, a + j) = TagValue(arguments[j].tag)
        /\ o[j] = o[j - 1] + Len(arguments[j].bytes)
        /\ o[j - 1] \in Nat /\ o[j] \in Nat
  BY ArgumentsRead
<1>6. /\ Reads(m, arguments[k], a + k, o[k - 1])
      /\ Reader!At(m, a + k) = TagValue(tag)
  BY <1>4, <1>5
<1>7. Reader!Value(m, i) = ValuePut(arguments, k)
  <2>1. CASE tag \notin {"T", "F", "["}
    <3>1. Reader!Value(m, i) = PutBytes(tag, arguments[k].bytes)
      BY <1>1, <1>4, <1>6, <2>1 DEF Reads
    <3> QED BY <1>4, <2>1, <3>1, ValuePutIs
  <2>2. CASE tag \in {"T", "F"}
    <3>1. Reader!Value(m, i) = << tag = "T" >>
      BY <1>1, <1>4, <1>6, <2>2 DEF Reads
    <3> QED BY <1>4, <2>2, <3>1, BoolPutIs
  <2>3. CASE tag = "["
    <3>1. Reader!ComputeArrayItemCount(m, i) = Cardinality(ItemsOfArray(arguments, k))
      BY <1>1, ArrayItemsAre
    <3>2. TagValue(tag) = Reader!ARRAY_BEGIN_TYPE_TAG
      BY <2>3 DEF TagValue
    <3>3. Reader!Value(m, i) = << Reader!ComputeArrayItemCount(m, i) >>
      BY <1>1, <1>6, <3>2, OtherValueIs
    <3>4. ValuePut(arguments, k) = << Cardinality(ItemsOfArray(arguments, k)) >>
      BY <1>4, <2>3, ValuePutIs
    <3> QED BY <3>1, <3>3, <3>4
  <2> QED BY <2>1, <2>2, <2>3
<1> QED BY <1>2, <1>3, <1>4, <1>6, <1>7 DEF ArgumentRead, ArgumentPut

LEMMA MessageReadsBack ==
  ASSUME NEW m \in Seq(Reader!Byte), NEW n \in Nat, NEW arguments \in Seq(Arguments),
         NEW a \in Nat, NEW d \in Nat, NEW o, IsMessage(m, n, arguments, a, d, o),
         Len(m) <= Reader!OSC_BUNDLE_ELEMENT_SIZE_MAX
  PROVE  ReadMessage(m) = MessagePut(n, arguments)
<1>1. PICK count \in Nat : count = Len(arguments)
  BY LenProperties
<1>2. Reader!AddressPattern(m) = [k \in 1..n |-> 47]
  <2>1. HeaderReads(m, n, arguments, a, d)
    BY HeaderIs
  <2> QED BY <2>1 DEF HeaderReads
<1>3. Reader!ArgumentCount(m) = count
  BY <1>1, IteratorsEndIs DEF IteratorsEnd
<1>4. \A k \in 1..count : ArgumentRead(m, Reader!Iterators(m)[k - 1]) = ArgumentPut(arguments, k)
  BY <1>1, ArgumentReadsBack
<1>5. DOMAIN arguments = 1..count
  BY <1>1, LenProperties
<1>6. [k \in 1..Reader!ArgumentCount(m) |-> ArgumentRead(m, Reader!Iterators(m)[k - 1])]
        = [k \in DOMAIN arguments |-> ArgumentPut(arguments, k)]
  BY <1>3, <1>4, <1>5
<1>7. ReadMessage(m) = Message(Reader!AddressPattern(m),
        [k \in 1..Reader!ArgumentCount(m) |-> ArgumentRead(m, Reader!Iterators(m)[k - 1])])
  BY DEF ReadMessage, ArgumentRead
<1>8. MessagePut(n, arguments) = Message([k \in 1..n |-> 47],
        [k \in DOMAIN arguments |-> ArgumentPut(arguments, k)])
  BY DEF MessagePut, ArgumentPut
<1> QED BY <1>2, <1>6, <1>7, <1>8

-----------------------------------------------------------------------------
(* 6. Bundles.                                                             *)

(* A bundle m of the elements ms: the k-th ends at o[k].                   *)

IsBundleOf(m, ms, o) ==
  LET count == Len(ms)
  IN  /\ m \in Seq(Reader!Byte) /\ ms \in Seq(Seq(Reader!Byte)) /\ Len(m) % 4 = 0
      /\ o \in [0..count -> Nat] /\ o[0] = 16 /\ o[count] = Len(m)
      /\ \A k \in 0..count : o[k] <= Len(m) /\ 16 + 4 * k <= o[k]
      /\ \A k \in 1..count : o[k] = o[k - 1] + 4 + Len(ms[k]) /\ Len(ms[k]) % 4 = 0
      /\ \A j \in 1..8 : m[j] = Reader!BUNDLE_TAG[j]
      /\ \A k \in 1..count : \A j \in 1..4 :
           m[o[k - 1] + j] = Reader!FromUInt32(Len(ms[k]))[j]
      /\ \A k \in 1..count : \A j \in 1..Len(ms[k]) : m[o[k - 1] + 4 + j] = ms[k][j]

Round(p, n) == [p |-> p, elementCount_ |-> n]

LEMMA RoundIs ==
  ASSUME NEW p, NEW n
  PROVE  Round(p, n).p = p /\ Round(p, n).elementCount_ = n
BY DEF Round

LEMMA PassesElement ==
  ASSUME NEW m, NEW ms, NEW o, IsBundleOf(m, ms, o),
         Len(m) <= Reader!OSC_BUNDLE_ELEMENT_SIZE_MAX, NEW k \in 1..Len(ms)
  PROVE  Reader!PassElement(m, Round(o[k - 1], k - 1)) = Round(o[k], k)
<1>1. PICK count \in Nat : count = Len(ms)
  BY LenProperties DEF IsBundleOf
<1>2. k \in 1..count
  BY <1>1
<1>3. k - 1 \in 0..count /\ k \in 0..count
  BY ONLY <1>2, count \in Nat
<1>4. o \in [0..count -> Nat]
  BY <1>1 DEF IsBundleOf
<1>5. PICK p \in Nat : p = o[k - 1]
  BY <1>3, <1>4
<1>6. PICK q \in Nat : q = o[k]
  BY <1>3, <1>4
<1>7. PICK size \in Nat : size = Len(ms[k])
  <2>1. ms[k] \in Seq(Reader!Byte)
    BY ElementOfSeq DEF IsBundleOf
  <2> QED BY <2>1, LenProperties
<1>8. PICK l \in Nat : l = Len(m)
  BY LenProperties DEF IsBundleOf
<1>9. q = p + 4 + size /\ size % 4 = 0 /\ q <= l
  BY <1>1, <1>2, <1>3, <1>5, <1>6, <1>7, <1>8 DEF IsBundleOf
<1>10. IsSize(size)
  BY <1>8, <1>9 DEF IsSize, Reader!OSC_BUNDLE_ELEMENT_SIZE_MAX
<1>11. Reader!ToInt32(m, p) = size
  <2>1. m \in Seq(Reader!Byte)
    BY DEF IsBundleOf
  <2>2. \A j \in 1..4 : m[p + j] = Reader!FromUInt32(size)[j]
    BY <1>1, <1>2, <1>5, <1>7 DEF IsBundleOf
  <2> QED BY <1>10, <2>1, <2>2, SizeReads
<1>12. PICK n \in Nat : n = k - 1
  BY <1>3
<1>13. n + 1 = k
  BY <1>2, <1>12
<1>14. PICK b : b = Round(p, n)
  OBVIOUS
<1>15. b.p = p /\ b.elementCount_ = n
  BY <1>14, RoundIs
<1>16. /\ b.p + 4 <= Len(m) /\ Reader!IsMultipleOf4(Reader!ToInt32(m, b.p))
       /\ Reader!ToInt32(m, b.p) \in 0..(Len(m) - (b.p + 4))
  BY <1>8, <1>9, <1>11, <1>15 DEF Reader!IsMultipleOf4
<1>17. Reader!PassElement(m, b) = Round(b.p + 4 + Reader!ToInt32(m, b.p), b.elementCount_ + 1)
  BY <1>16 DEF Reader!PassElement, Round
<1> QED BY <1>5, <1>6, <1>9, <1>11, <1>12, <1>13, <1>14, <1>15, <1>17

LEMMA PassesNothing ==
  ASSUME NEW m \in Seq(Reader!Byte), NEW n
  PROVE  Reader!PassElement(m, Round(Len(m), n)) = Round(Len(m), n)
<1>1. PICK l \in Nat : l = Len(m)
  BY LenProperties
<1>2. ~(l + 4 <= l)
  OBVIOUS
<1>3. PICK b : b = Round(l, n)
  OBVIOUS
<1>4. b.p = l
  BY <1>3, RoundIs
<1>5. ~(b.p + 4 <= Len(m))
  BY <1>1, <1>2, <1>4
<1>6. Reader!PassElement(m, b) = b
  BY <1>5 DEF Reader!PassElement
<1> QED BY <1>1, <1>3, <1>6

(* p and elementCount_ after n rounds.                                     *)
RoundsAre(m, ms, o) ==
  /\ \A n \in 0..Len(ms) : Reader!Rounds(m)[n] = Round(o[n], n)
  /\ \A n \in Nat : n >= Len(ms) => Reader!Rounds(m)[n] = Round(Len(m), Len(ms))

LEMMA RoundsOfBundle ==
  ASSUME NEW m, NEW ms, NEW o, IsBundleOf(m, ms, o),
         Len(m) <= Reader!OSC_BUNDLE_ELEMENT_SIZE_MAX
  PROVE  RoundsAre(m, ms, o)
<1>1. PICK count \in Nat : count = Len(ms)
  BY LenProperties DEF IsBundleOf
<1>2. /\ m \in Seq(Reader!Byte) /\ o[0] = 16 /\ o[count] = Len(m)
  BY <1>1 DEF IsBundleOf
<1> DEFINE Step(g) == [n \in Nat |-> IF n = 0 THEN [p |-> 16, elementCount_ |-> 0]
                                     ELSE Reader!PassElement(m, g[n - 1])]
           at == CHOOSE g : g = Step(g)
           w == [n \in Nat |-> IF n <= count THEN Round(o[n], n) ELSE Round(Len(m), count)]
<1>3. Reader!Rounds(m) = at
  BY DEF Reader!Rounds
<1>4. [p |-> 16, elementCount_ |-> 0] = Round(o[0], 0)
  BY <1>2 DEF Round
<1>5. \A g : \A n \in Nat : Step(g)[n] = IF n = 0 THEN Round(o[0], 0) ELSE Reader!PassElement(m, g[n - 1])
  BY <1>4
<1>6. \A g : Step(g) = [n \in Nat |-> Step(g)[n]]
  OBVIOUS
<1> HIDE DEF Step
<1>7. ASSUME NEW n \in Nat
      PROVE  w[n] = IF n = 0 THEN Round(o[0], 0) ELSE Reader!PassElement(m, w[n - 1])
  <2>1. CASE n = 0
    <3>1. n <= count
      BY <2>1
    <3> QED BY <2>1, <3>1
  <2>2. CASE n # 0 /\ n <= count
    <3>1. n \in 1..Len(ms) /\ n - 1 \in Nat /\ n - 1 <= count
      BY <1>1, <2>2
    <3>2. w[n] = Round(o[n], n)
      BY <2>2
    <3>3. w[n - 1] = Round(o[n - 1], n - 1)
      BY <3>1
    <3>4. Reader!PassElement(m, Round(o[n - 1], n - 1)) = Round(o[n], n)
      BY <3>1, PassesElement
    <3> HIDE DEF w
    <3> QED BY <2>2, <3>2, <3>3, <3>4
  <2>3. CASE ~(n <= count)
    <3>1. n - 1 \in Nat /\ n # 0 /\ (n - 1 <= count => n - 1 = count)
      BY <2>3
    <3>2. w[n] = Round(Len(m), count)
      BY <2>3
    <3>3. w[n - 1] = Round(Len(m), count)
      BY <1>2, <3>1
    <3>4. Reader!PassElement(m, Round(Len(m), count)) = Round(Len(m), count)
      BY <1>2, PassesNothing
    <3> HIDE DEF w
    <3> QED BY <3>1, <3>2, <3>3, <3>4
  <2> QED BY <2>1, <2>2, <2>3
<1>8. w = [n \in Nat |-> w[n]]
  OBVIOUS
<1>9. \A n \in Nat : w[n] = IF n <= count THEN Round(o[n], n) ELSE Round(Len(m), count)
  OBVIOUS
<1> HIDE DEF w
<1>10. w = Step(w)
  <2>1. \A n \in Nat : w[n] = Step(w)[n]
    BY <1>5, <1>7
  <2> QED BY <1>6, <1>8, <2>1
<1>11. at = Step(at)
  BY <1>10
<1> HIDE DEF at
<1>12. \A n \in Nat : at[n] = IF n = 0 THEN Round(o[0], 0) ELSE Reader!PassElement(m, at[n - 1])
  BY <1>5, <1>11
<1>13. \A n \in Nat : at[n] = w[n]
  <2> DEFINE T == { n \in Nat : at[n] = w[n] }
  <2>1. 0 \in T
    BY <1>7, <1>12
  <2>2. ASSUME NEW n \in Nat, n \in T PROVE n + 1 \in T
    <3>1. n + 1 \in Nat /\ n + 1 # 0 /\ (n + 1) - 1 = n
      OBVIOUS
    <3> QED BY <1>7, <1>12, <2>2, <3>1
  <2>3. \A n \in Nat : n \in T
    <3> HIDE DEF T
    <3> QED BY <2>1, <2>2, EveryNumber
  <2> QED BY <2>3
<1>14. ASSUME NEW n \in 0..count PROVE at[n] = Round(o[n], n)
  <2>1. n \in Nat /\ n <= count
    OBVIOUS
  <2> QED BY <1>9, <1>13, <2>1
<1>15. ASSUME NEW n \in Nat, n >= count PROVE at[n] = Round(Len(m), count)
  <2>1. n <= count => n = count
    BY <1>15
  <2> QED BY <1>2, <1>9, <1>13, <2>1
<1> QED BY <1>1, <1>3, <1>14, <1>15 DEF RoundsAre

(* What the reader makes of it.                                            *)
BundleReads(m, ms) ==
  /\ Reader!IsBundle(m) /\ Reader!ValidateSizeNoThrow(Len(m)) /\ Reader!ValidateBundle(m)
  /\ Reader!Elements(m) = ms

LEMMA BundleIs ==
  ASSUME NEW m, NEW ms, NEW o, IsBundleOf(m, ms, o),
         Len(m) <= Reader!OSC_BUNDLE_ELEMENT_SIZE_MAX
  PROVE  BundleReads(m, ms)
<1>1. PICK count \in Nat : count = Len(ms)
  BY LenProperties DEF IsBundleOf
<1>2. PICK l \in Nat : l = Len(m)
  BY LenProperties DEF IsBundleOf
<1>3. /\ m \in Seq(Reader!Byte) /\ ms \in Seq(Seq(Reader!Byte)) /\ l % 4 = 0
      /\ \A j \in 1..8 : m[j] = Reader!BUNDLE_TAG[j]
  BY <1>2 DEF IsBundleOf
<1>4. 16 + 4 * count <= l
  <2>1. count \in 0..count
    OBVIOUS
  <2> QED BY <1>1, <1>2, <2>1 DEF IsBundleOf
<1>5. RoundsAre(m, ms, o)
  BY RoundsOfBundle
<1>6. Reader!LastRound(m) = Round(l, count)
  <2>1. l \div 4 \in Nat /\ l \div 4 >= count
    BY ONLY <1>4, l \in Nat, count \in Nat
  <2>2. Reader!Rounds(m)[l \div 4] = Round(l, count)
    BY <1>1, <1>2, <1>5, <2>1 DEF RoundsAre
  <2> QED BY <1>2, <2>2 DEF Reader!LastRound
<1>7. Reader!LastRound(m).p = l /\ Reader!LastRound(m).elementCount_ = count
  BY <1>6, RoundIs
<1>8. Reader!IsBundle(m)
  <2>1. m # << >>
    BY <1>2, <1>4, EmptySeq
  <2>2. m[1] = Reader!HASH
    <3>1. 1 \in 1..8
      OBVIOUS
    <3>2. Reader!BUNDLE_TAG[1] = Reader!HASH
      BY DEF Reader!BUNDLE_TAG
    <3> QED BY <1>3, <3>1, <3>2
  <2>3. 0 + 1 = 1
    OBVIOUS
  <2> QED BY <2>1, <2>2, <2>3 DEF Reader!IsBundle, Reader!At
<1>9. Reader!ValidateSizeNoThrow(Len(m)) /\ Reader!IsValidElementSizeValue(Len(m))
  BY <1>2, <1>3, <1>4 DEF Reader!ValidateSizeNoThrow, Reader!IsValidElementSizeValue, Reader!IsMultipleOf4
<1>10. SubSeq(m, 1, 8) = Reader!BUNDLE_TAG
  <2>1. PICK t : t = Reader!BUNDLE_TAG
    OBVIOUS
  <2>2. t = [j \in 1..8 |-> t[j]]
    BY <2>1 DEF Reader!BUNDLE_TAG
  <2>3. \A j \in 1..8 : m[0 + j] = t[j]
    BY <1>3, <2>1
  <2>4. 0 + 8 <= Len(m) /\ 0 \in Nat /\ 8 \in Nat
    BY <1>2, <1>4
  <2>5. SubSeq(m, 0 + 1, 0 + 8) = t
    BY <1>3, <2>2, <2>3, <2>4, SliceIs
  <2> QED BY <2>1, <2>5
<1>11. Reader!ValidateBundle(m)
  BY <1>2, <1>3, <1>4, <1>7, <1>9, <1>10 DEF Reader!ValidateBundle, Reader!IsMultipleOf4
<1>12. ASSUME NEW k \in 1..count
       PROVE  SubSeq(m, Reader!Rounds(m)[k - 1].p + 5, Reader!Rounds(m)[k].p) = ms[k]
  <2>1. k - 1 \in 0..count /\ k \in 0..count /\ k \in 1..Len(ms)
    BY <1>1
  <2>2. Reader!Rounds(m)[k - 1] = Round(o[k - 1], k - 1) /\ Reader!Rounds(m)[k] = Round(o[k], k)
    BY <1>1, <1>5, <2>1 DEF RoundsAre
  <2>3. Reader!Rounds(m)[k - 1].p = o[k - 1] /\ Reader!Rounds(m)[k].p = o[k]
    BY <2>2, RoundIs
  <2>4. o \in [0..count -> Nat]
    BY <1>1 DEF IsBundleOf
  <2>5. PICK p \in Nat : p = o[k - 1]
    BY <2>1, <2>4
  <2>6. PICK s \in Seq(Reader!Byte) : s = ms[k]
    BY <1>3, <2>1, ElementOfSeq
  <2>7. PICK size \in Nat : size = Len(s)
    BY LenProperties
  <2>8. o[k] = p + 4 + size /\ o[k] <= l
    BY <1>1, <1>2, <2>1, <2>5, <2>6, <2>7 DEF IsBundleOf
  <2>9. PICK f \in Nat : f = p + 4
    OBVIOUS
  <2>10. f + size <= Len(m) /\ f + 1 = p + 5 /\ f + size = o[k]
    BY <1>2, <2>8, <2>9
  <2>11. \A j \in 1..size : m[f + j] = s[j]
    BY <1>1, <2>1, <2>5, <2>6, <2>7, <2>9 DEF IsBundleOf
  <2>12. s = [j \in 1..size |-> s[j]]
    BY <2>7, LenProperties
  <2>13. SubSeq(m, f + 1, f + size) = s
    <3>1. m \in Seq(Reader!Byte) /\ f \in Nat /\ size \in Nat
      BY <1>3
    <3>2. MatchesAt(m, f, size, s)
      BY <2>10, <2>11, <2>12 DEF MatchesAt
    <3> QED BY ONLY <3>1, <3>2, MatchIsSlice
  <2> QED BY <2>3, <2>5, <2>6, <2>10, <2>13
<1>13. Reader!Elements(m) = ms
  <2>1. Reader!Elements(m) = [k \in 1..count |->
          SubSeq(m, Reader!Rounds(m)[k - 1].p + 5, Reader!Rounds(m)[k].p)]
    BY <1>7 DEF Reader!Elements
  <2>2. ms = [k \in 1..count |-> ms[k]]
    BY <1>1, <1>3, LenProperties
  <2> QED BY <1>12, <2>1, <2>2
<1> QED BY <1>8, <1>9, <1>11, <1>13 DEF BundleReads

(* Bundles in bundles.                                                     *)

(* What valid must be for TryValidatePacket to be what it says.            *)
IsAcceptable(b, d, elements) ==
  /\ Reader!ValidateSizeNoThrow(Len(b))
  /\ IF Reader!IsBundle(b)
     THEN /\ Reader!ValidateBundle(b) /\ d # 0
          /\ \A e \in Reader!ToSet(Reader!Elements(b)) : e \in elements
     ELSE Reader!ValidateMessage(b)

LEMMA ReaderValidationExists ==
  \E valid : \A d \in Nat :
    /\ \A m : Reader!TryValidatePacket(m, d) <=> m \in valid[d]
    /\ valid[d] = { b \in Seq(Reader!Byte) : IsAcceptable(b, d, valid[d - 1]) }
<1> DEFINE V == SUBSET Seq(Reader!Byte)
           Body(g) == [ d \in Nat |-> { b \in Seq(Reader!Byte) : IsAcceptable(b, d, g[d - 1]) } ]
           valid == CHOOSE g : g = Body(g)
           outermost == { b \in Seq(Reader!Byte) : IsAcceptable(b, 0, {}) }
           G == [ elements \in V |-> { b \in Seq(Reader!Byte) : IsAcceptable(b, 1, elements) } ]
<1>1. outermost \in V /\ G \in [V -> V]
  OBVIOUS
<1>2. \A m, d : Reader!TryValidatePacket(m, d) <=> m \in valid[d]
  BY DEF Reader!TryValidatePacket, IsAcceptable
<1>3. PICK f \in [Nat -> V] : f[0] = outermost /\ \A d \in Nat : f[d + 1] = G[f[d]]
  <2> HIDE DEF V, G, Body, valid, outermost
  <2>1. \E f \in [Nat -> V] : IteratesForever(f, G, outermost)
    BY <1>1, IterationExists
  <2> QED BY <2>1 DEF IteratesForever
<1>4. f = Body(f)
  <2>1. ASSUME NEW d \in Nat PROVE f[d] = Body(f)[d]
    <3>1. CASE d = 0
      <4>1. \A b : IsAcceptable(b, 0, {}) <=> IsAcceptable(b, d, f[d - 1])
        BY <3>1 DEF IsAcceptable
      <4> QED BY <1>3, <3>1, <4>1
    <3>2. CASE d # 0
      <4>1. d - 1 \in Nat /\ (d - 1) + 1 = d
        BY <3>2
      <4>2. f[d] = G[f[d - 1]] /\ f[d - 1] \in V
        BY <1>3, <4>1
      <4>3. \A b : IsAcceptable(b, 1, f[d - 1]) <=> IsAcceptable(b, d, f[d - 1])
        BY <3>2 DEF IsAcceptable
      <4> QED BY <4>2, <4>3
    <3> QED BY <3>1, <3>2
  <2> QED BY <2>1
<1>5. valid = Body(valid)
  BY <1>4
<1> HIDE DEF valid
<1>6. \A d \in Nat : valid[d] = { b \in Seq(Reader!Byte) : IsAcceptable(b, d, valid[d - 1]) }
  <2>1. \A d \in Nat : Body(valid)[d] = { b \in Seq(Reader!Byte) : IsAcceptable(b, d, valid[d - 1]) }
    OBVIOUS
  <2> HIDE DEF Body
  <2> QED BY <1>5, <2>1
<1> QED BY <1>2, <1>6

LEMMA MessageAccepted ==
  ASSUME NEW m \in Seq(Reader!Byte), NEW d \in Nat, ~Reader!IsBundle(m)
  PROVE  Reader!TryValidatePacket(m, d) <=>
           Reader!ValidateSizeNoThrow(Len(m)) /\ Reader!ValidateMessage(m)
<1>1. PICK valid : \A n \in Nat :
        /\ \A b : Reader!TryValidatePacket(b, n) <=> b \in valid[n]
        /\ valid[n] = { b \in Seq(Reader!Byte) : IsAcceptable(b, n, valid[n - 1]) }
  BY ReaderValidationExists
<1>2. Reader!TryValidatePacket(m, d) <=> IsAcceptable(m, d, valid[d - 1])
  BY <1>1
<1> QED BY <1>2 DEF IsAcceptable

LEMMA BundleAccepted ==
  ASSUME NEW m \in Seq(Reader!Byte), NEW d \in Nat, Reader!IsBundle(m)
  PROVE  Reader!TryValidatePacket(m, d + 1) <=>
           /\ Reader!ValidateSizeNoThrow(Len(m)) /\ Reader!ValidateBundle(m)
           /\ \A e \in Reader!ToSet(Reader!Elements(m)) : Reader!TryValidatePacket(e, d)
<1>1. PICK valid : \A n \in Nat :
        /\ \A b : Reader!TryValidatePacket(b, n) <=> b \in valid[n]
        /\ valid[n] = { b \in Seq(Reader!Byte) : IsAcceptable(b, n, valid[n - 1]) }
  BY ReaderValidationExists
<1>2. d + 1 \in Nat /\ d + 1 # 0 /\ (d + 1) - 1 = d
  OBVIOUS
<1>3. Reader!TryValidatePacket(m, d + 1) <=> IsAcceptable(m, d + 1, valid[d])
  <2>1. valid[d + 1] = { b \in Seq(Reader!Byte) : IsAcceptable(b, d + 1, valid[d]) }
    BY <1>1, <1>2
  <2>2. Reader!TryValidatePacket(m, d + 1) <=> m \in valid[d + 1]
    BY <1>1, <1>2
  <2> QED BY <2>1, <2>2
<1>4. IsAcceptable(m, d + 1, valid[d]) <=>
        /\ Reader!ValidateSizeNoThrow(Len(m)) /\ Reader!ValidateBundle(m)
        /\ \A e \in Reader!ToSet(Reader!Elements(m)) : e \in valid[d]
  BY <1>2 DEF IsAcceptable
<1> QED BY <1>1, <1>3, <1>4

(* One level of reading, given how the elements of a bundle are read.      *)
ReadOutermost ==
  [ m \in Seq(Reader!Byte) |-> IF ~Reader!IsBundle(m) THEN ReadMessage(m) ELSE Bundle(<< >>) ]
ReadOneMore(read) ==
  [ m \in Seq(Reader!Byte) |->
      IF ~Reader!IsBundle(m) THEN ReadMessage(m)
      ELSE Bundle([ k \in DOMAIN Reader!Elements(m) |-> read[Reader!Elements(m)[k]] ]) ]

(* The first n levels.  What they read is in no set known beforehand, so   *)
(* that they are put together one by one.                                  *)
ReadsLevels(h, n) ==
  /\ h[0] = ReadOutermost
  /\ \A d \in 1..n : h[d] = ReadOneMore(h[d - 1])

LEMMA SomeReadsLevels == \A n \in Nat : \E h : ReadsLevels(h, n)
<1> DEFINE T == { n \in Nat : \E h : ReadsLevels(h, n) }
<1>1. 0 \in T
  <2>1. PICK h : h = [d \in {0} |-> ReadOutermost]
    OBVIOUS
  <2>2. h[0] = ReadOutermost /\ 1..0 = {}
    BY <2>1
  <2>3. ReadsLevels(h, 0)
    BY <2>2 DEF ReadsLevels
  <2> QED BY <2>3
<1>2. ASSUME NEW n \in Nat, n \in T PROVE n + 1 \in T
  <2>1. PICK h : ReadsLevels(h, n)
    BY <1>2
  <2>2. PICK g : g = [d \in 0..(n + 1) |-> IF d <= n THEN h[d] ELSE ReadOneMore(h[n])]
    OBVIOUS
  <2>3. \A d \in 0..n : g[d] = h[d]
    BY <2>2
  <2>4. g[n + 1] = ReadOneMore(h[n])
    BY <2>2
  <2>5. g[0] = ReadOutermost
    <3>1. 0 \in 0..n
      OBVIOUS
    <3> QED BY <2>1, <2>3, <3>1 DEF ReadsLevels
  <2>6. ASSUME NEW d \in 1..(n + 1) PROVE g[d] = ReadOneMore(g[d - 1])
    <3>1. d - 1 \in 0..n
      OBVIOUS
    <3>2. g[d - 1] = h[d - 1]
      BY <2>3, <3>1
    <3>3. CASE d \in 1..n
      <4>1. d \in 0..n
        BY <3>3
      <4> QED BY <2>1, <2>3, <3>2, <3>3, <4>1 DEF ReadsLevels
    <3>4. CASE d = n + 1
      <4>1. d - 1 = n
        BY <3>4
      <4> QED BY <2>4, <3>2, <3>4, <4>1
    <3> QED BY <3>3, <3>4
  <2>7. ReadsLevels(g, n + 1)
    BY <2>5, <2>6 DEF ReadsLevels
  <2> QED BY <2>7
<1>3. \A n \in Nat : n \in T
  <2> HIDE DEF T
  <2> QED BY <1>1, <1>2, EveryNumber
<1> QED BY <1>3

LEMMA ReadsLevelsAgree ==
  ASSUME NEW n \in Nat, NEW h, NEW g, ReadsLevels(h, n + 1), ReadsLevels(g, n)
  PROVE  h[n] = g[n]
<1>1. h[0] = g[0]
  BY DEF ReadsLevels
<1>2. ASSUME NEW d \in 1..n, h[d - 1] = g[d - 1] PROVE h[d] = g[d]
  <2>1. d \in 1..(n + 1)
    OBVIOUS
  <2> QED BY <1>2, <2>1 DEF ReadsLevels
<1>3. Continues(h, g, n)
  BY <1>2 DEF Continues
<1>4. SameUpTo(h, g, n)
  BY <1>1, <1>3, SameFromZero
<1>5. n \in 0..n
  OBVIOUS
<1> QED BY <1>4, <1>5 DEF SameUpTo

LEMMA ReadingExists ==
  \E read : /\ \A m, d : Read(m, d) = read[d][m]
            /\ read[0] = ReadOutermost
            /\ \A d \in Nat : read[d + 1] = ReadOneMore(read[d])
<1> DEFINE Body(g) == [ d \in Nat |->
             [ m \in Seq(Reader!Byte) |->
                 IF ~Reader!IsBundle(m) THEN ReadMessage(m)
                 ELSE IF d = 0 THEN Bundle(<< >>)
                 ELSE Bundle([ k \in DOMAIN Reader!Elements(m) |->
                                 g[d - 1][Reader!Elements(m)[k]] ]) ] ]
           read == CHOOSE g : g = Body(g)
           levels(n) == CHOOSE h : ReadsLevels(h, n)
           f == [ n \in Nat |-> levels(n)[n] ]
<1>1. \A m, d : Read(m, d) = read[d][m]
  BY DEF Read
<1>2. \A g : /\ Body(g) = [ d \in Nat |-> Body(g)[d] ]
             /\ \A d \in Nat : Body(g)[d] = IF d = 0 THEN ReadOutermost ELSE ReadOneMore(g[d - 1])
  <2> SUFFICES ASSUME NEW g
               PROVE  /\ Body(g) = [ d \in Nat |-> Body(g)[d] ]
                      /\ \A d \in Nat :
                           Body(g)[d] = IF d = 0 THEN ReadOutermost ELSE ReadOneMore(g[d - 1])
    OBVIOUS
  <2>1. Body(g)[0] = ReadOutermost
    BY DEF ReadOutermost
  <2>2. ASSUME NEW d \in Nat, d # 0 PROVE Body(g)[d] = ReadOneMore(g[d - 1])
    BY <2>2 DEF ReadOneMore
  <2>3. Body(g) = [ d \in Nat |-> Body(g)[d] ]
    OBVIOUS
  <2> HIDE DEF Body
  <2> QED BY <2>1, <2>2, <2>3
<1>3. \A n \in Nat : ReadsLevels(levels(n), n)
  BY SomeReadsLevels
<1>4. \A n \in Nat : f[n] = levels(n)[n]
  OBVIOUS
<1>5. f = [ n \in Nat |-> f[n] ]
  OBVIOUS
<1> HIDE DEF f, levels, Body
<1>6. ASSUME NEW n \in Nat PROVE f[n] = IF n = 0 THEN ReadOutermost ELSE ReadOneMore(f[n - 1])
  <2>1. CASE n = 0
    BY <1>3, <1>4, <2>1 DEF ReadsLevels
  <2>2. CASE n # 0
    <3>1. PICK l \in Nat : l = n - 1
      BY <2>2
    <3>2. n = l + 1 /\ n \in 1..n
      BY <2>2, <3>1
    <3>3. levels(n)[n] = ReadOneMore(levels(n)[n - 1])
      BY <1>3, <3>2 DEF ReadsLevels
    <3>4. levels(n)[l] = levels(l)[l]
      BY <1>3, <3>2, ReadsLevelsAgree
    <3> QED BY <1>4, <2>2, <3>1, <3>3, <3>4
  <2> QED BY <2>1, <2>2
<1>7. f = Body(f)
  <2>1. \A n \in Nat : f[n] = Body(f)[n]
    BY <1>2, <1>6
  <2>2. Body(f) = [ n \in Nat |-> Body(f)[n] ]
    BY <1>2
  <2> QED BY <1>5, <2>1, <2>2
<1>8. read = Body(read)
  BY <1>7
<1> HIDE DEF read
<1>9. \A d \in Nat : read[d] = IF d = 0 THEN ReadOutermost ELSE ReadOneMore(read[d - 1])
  BY <1>2, <1>8
<1>10. read[0] = ReadOutermost
  BY <1>9
<1>11. ASSUME NEW d \in Nat PROVE read[d + 1] = ReadOneMore(read[d])
  <2>1. d + 1 \in Nat /\ d + 1 # 0 /\ (d + 1) - 1 = d
    OBVIOUS
  <2> QED BY <1>9, <2>1
<1> QED BY <1>1, <1>10, <1>11

LEMMA ReadIs ==
  ASSUME NEW m \in Seq(Reader!Byte), NEW d \in Nat
  PROVE  /\ ~Reader!IsBundle(m) => Read(m, d) = ReadMessage(m)
         /\ Reader!IsBundle(m) =>
              Read(m, d + 1) = Bundle([ k \in DOMAIN Reader!Elements(m) |->
                                          Read(Reader!Elements(m)[k], d) ])
<1>1. PICK read : /\ \A b, n : Read(b, n) = read[n][b]
                  /\ read[0] = ReadOutermost
                  /\ \A n \in Nat : read[n + 1] = ReadOneMore(read[n])
  BY ReadingExists
<1>2. ASSUME ~Reader!IsBundle(m) PROVE Read(m, d) = ReadMessage(m)
  <2>1. CASE d = 0
    <3>1. ReadOutermost[m] = ReadMessage(m)
      BY <1>2 DEF ReadOutermost
    <3> QED BY <1>1, <2>1, <3>1
  <2>2. CASE d # 0
    <3>1. PICK n \in Nat : d = n + 1
      <4>1. d - 1 \in Nat /\ d = (d - 1) + 1
        BY <2>2
      <4> QED BY <4>1
    <3>2. ReadOneMore(read[n])[m] = ReadMessage(m)
      BY <1>2 DEF ReadOneMore
    <3> QED BY <1>1, <3>1, <3>2
  <2> QED BY <2>1, <2>2
<1>3. ASSUME Reader!IsBundle(m)
      PROVE  Read(m, d + 1) = Bundle([ k \in DOMAIN Reader!Elements(m) |->
                                         Read(Reader!Elements(m)[k], d) ])
  <2>1. ReadOneMore(read[d])[m] = Bundle([ k \in DOMAIN Reader!Elements(m) |->
                                             read[d][Reader!Elements(m)[k]] ])
    BY <1>3 DEF ReadOneMore
  <2>2. Read(m, d + 1) = ReadOneMore(read[d])[m]
    BY <1>1
  <2>3. [ k \in DOMAIN Reader!Elements(m) |-> read[d][Reader!Elements(m)[k]] ]
          = [ k \in DOMAIN Reader!Elements(m) |-> Read(Reader!Elements(m)[k], d) ]
    BY <1>1
  <2> QED BY <2>1, <2>2, <2>3
<1> QED BY <1>2, <1>3

(* Packets that the reader follows from depth h on: it accepts m if ok     *)
(* says so and reads it as element.                                        *)

FollowedTo(m, element, ok, d) ==
  /\ Reader!TryValidatePacket(m, d) <=> ok
  /\ Read(m, d) = element

Followed(m, element, ok, h) ==
  /\ m \in Seq(Reader!Byte) /\ Len(m) % 4 = 0
  /\ Len(m) <= Reader!OSC_BUNDLE_ELEMENT_SIZE_MAX =>
       \A d \in Nat : d >= h => FollowedTo(m, element, ok, d)

LEMMA FollowedDeeper ==
  ASSUME NEW h \in Nat, NEW m, NEW element, NEW ok, Followed(m, element, ok, h)
  PROVE  Followed(m, element, ok, h + 1)
<1>1. \A d \in Nat : d >= h + 1 => d >= h
  OBVIOUS
<1> QED BY <1>1 DEF Followed

LEMMA MessageFollowed ==
  ASSUME NEW n \in Nat, NEW arguments \in Seq(Arguments), NEW h \in Nat,
         NEW m, m = Values(MessageBytes(n, arguments)),
         NEW ok, ok <=> ArraysBalanced(arguments)
  PROVE  Followed(m, MessagePut(n, arguments), ok, h)
<1>1. PICK a \in Nat, d \in Nat : \E o : IsMessage(m, n, arguments, a, d, o)
  BY MessageIs
<1>2. PICK o : IsMessage(m, n, arguments, a, d, o)
  BY <1>1
<1>3. m \in Seq(Reader!Byte) /\ Len(m) % 4 = 0
  BY <1>2 DEF IsMessage
<1>4. ASSUME Len(m) <= Reader!OSC_BUNDLE_ELEMENT_SIZE_MAX, NEW depth \in Nat
      PROVE  FollowedTo(m, MessagePut(n, arguments), ok, depth)
  <2>1. HeaderReads(m, n, arguments, a, d)
    BY <1>2, <1>3, HeaderIs
  <2>2. ~Reader!IsBundle(m)
    BY <2>1 DEF HeaderReads
  <2>3. Reader!ValidateSizeNoThrow(Len(m)) /\ (Reader!ValidateMessage(m) <=> ArraysBalanced(arguments))
    BY <1>2, <1>3, <1>4, MessageValid
  <2>4. ReadMessage(m) = MessagePut(n, arguments)
    BY <1>2, <1>3, <1>4, MessageReadsBack
  <2>5. Reader!TryValidatePacket(m, depth) <=> ok
    BY <1>3, <2>2, <2>3, MessageAccepted
  <2>6. Read(m, depth) = MessagePut(n, arguments)
    BY <1>3, <2>2, <2>4, ReadIs
  <2> QED BY <2>5, <2>6 DEF FollowedTo
<1> QED BY <1>3, <1>4 DEF Followed

(* The elements of a bundle, which the reader follows from depth h on.     *)
AllFollowed(ms, elements, oks, h) ==
  /\ ms \in Seq(Seq(Reader!Byte))
  /\ \A k \in 1..Len(ms) : Followed(ms[k], elements[k], oks[k], h)
AllOf(oks, n) == \A k \in 1..n : oks[k]

LEMMA BundleFollowed ==
  ASSUME NEW m, NEW ms, NEW o, IsBundleOf(m, ms, o),
         NEW elements, elements = [k \in 1..Len(ms) |-> elements[k]],
         NEW oks, NEW h \in Nat, AllFollowed(ms, elements, oks, h),
         NEW ok, ok <=> AllOf(oks, Len(ms))
  PROVE  Followed(m, Bundle(elements), ok, h + 1)
<1>1. PICK count \in Nat : count = Len(ms)
  BY LenProperties DEF AllFollowed
<1>2. m \in Seq(Reader!Byte) /\ Len(m) % 4 = 0 /\ ms \in Seq(Seq(Reader!Byte))
  BY DEF IsBundleOf
<1>3. ASSUME Len(m) <= Reader!OSC_BUNDLE_ELEMENT_SIZE_MAX, NEW depth \in Nat, depth >= h + 1
      PROVE  FollowedTo(m, Bundle(elements), ok, depth)
  <2>1. BundleReads(m, ms)
    BY <1>3, BundleIs
  <2>2. /\ Reader!IsBundle(m) /\ Reader!ValidateSizeNoThrow(Len(m)) /\ Reader!ValidateBundle(m)
        /\ Reader!Elements(m) = ms
    BY <2>1 DEF BundleReads
  <2>3. PICK d \in Nat : depth = d + 1 /\ d >= h
    <3>1. depth - 1 \in Nat /\ depth = (depth - 1) + 1 /\ depth - 1 >= h
      BY ONLY <1>3, h \in Nat, depth \in Nat
    <3> QED BY <3>1
  <2>4. ASSUME NEW k \in 1..count PROVE FollowedTo(ms[k], elements[k], oks[k], d)
    <3>1. Followed(ms[k], elements[k], oks[k], h)
      BY <1>1 DEF AllFollowed
    <3>2. Len(ms[k]) <= Reader!OSC_BUNDLE_ELEMENT_SIZE_MAX
      <4>1. k - 1 \in 0..count /\ k \in 0..count
        BY ONLY count \in Nat, k \in 1..count
      <4>2. PICK p \in Nat : p = o[k - 1]
        BY <1>1, <4>1 DEF IsBundleOf
      <4>3. PICK size \in Nat : size = Len(ms[k])
        <5>1. ms[k] \in Seq(Reader!Byte)
          BY <1>1, <1>2, ElementOfSeq
        <5> QED BY <5>1, LenProperties
      <4>4. PICK l \in Nat : l = Len(m)
        BY <1>2, LenProperties
      <4>5. o[k] = p + 4 + size /\ o[k] <= l
        BY <1>1, <4>1, <4>2, <4>3, <4>4 DEF IsBundleOf
      <4>6. l <= Reader!OSC_BUNDLE_ELEMENT_SIZE_MAX /\ Reader!OSC_BUNDLE_ELEMENT_SIZE_MAX \in Nat
        BY <1>3, <4>4 DEF Reader!OSC_BUNDLE_ELEMENT_SIZE_MAX
      <4>7. size <= l
        BY ONLY <4>5, p \in Nat, size \in Nat, l \in Nat
      <4>8. size <= Reader!OSC_BUNDLE_ELEMENT_SIZE_MAX
        BY ONLY <4>6, <4>7, size \in Nat, l \in Nat
      <4> QED BY <4>3, <4>8
    <3> QED BY <2>3, <3>1, <3>2 DEF Followed
  <2>5. Reader!TryValidatePacket(m, d + 1) <=> ok
    <3>1. Reader!TryValidatePacket(m, d + 1) <=>
            \A e \in Reader!ToSet(ms) : Reader!TryValidatePacket(e, d)
      BY <1>2, <2>2, BundleAccepted
    <3>2. Reader!ToSet(ms) = { ms[k] : k \in 1..count }
      <4>1. DOMAIN ms = 1..count
        BY <1>1, <1>2, LenProperties
      <4> QED BY <4>1 DEF Reader!ToSet
    <3>3. \A k \in 1..count : Reader!TryValidatePacket(ms[k], d) <=> oks[k]
      BY <2>4 DEF FollowedTo
    <3> QED BY <1>1, <3>1, <3>2, <3>3 DEF AllOf
  <2>6. Read(m, d + 1) = Bundle(elements)
    <3>1. Read(m, d + 1) = Bundle([ k \in DOMAIN ms |-> Read(ms[k], d) ])
      BY <1>2, <2>2, ReadIs
    <3>2. DOMAIN ms = 1..count
      BY <1>1, <1>2, LenProperties
    <3>3. \A k \in 1..count : Read(ms[k], d) = elements[k]
      BY <2>4 DEF FollowedTo
    <3>4. [ k \in DOMAIN ms |-> Read(ms[k], d) ] = [ k \in 1..count |-> elements[k] ]
      BY <3>2, <3>3
    <3> QED BY <1>1, <3>1, <3>4
  <2> QED BY <2>3, <2>5, <2>6 DEF FollowedTo
<1> QED BY <1>2, <1>3 DEF Followed

LEMMA MultiplesAdd == \A x, y \in Nat : x % 4 = 0 /\ y % 4 = 0 => (x + y) % 4 = 0
OBVIOUS

(* One more element in a bundle.                                           *)
LEMMA BundleWithElement ==
  ASSUME NEW m, NEW ms, NEW o, IsBundleOf(m, ms, o),
         NEW e \in Seq(Reader!Byte), Len(e) % 4 = 0,
         NEW w \in Seq(Reader!Byte), Len(w) = Len(m) + 4 + Len(e),
         \A j \in 1..Len(m) : w[j] = m[j],
         \A j \in 1..4 : w[Len(m) + j] = Reader!FromUInt32(Len(e))[j],
         \A j \in 1..Len(e) : w[Len(m) + 4 + j] = e[j]
  PROVE  \E p : IsBundleOf(w, Append(ms, e), p)
<1>1. PICK count \in Nat : count = Len(ms)
  BY LenProperties DEF IsBundleOf
<1>2. PICK l \in Nat : l = Len(m)
  BY LenProperties DEF IsBundleOf
<1>3. PICK size \in Nat : size = Len(e)
  BY LenProperties
<1>4. PICK end \in Nat : end = l + 4 + size
  OBVIOUS
<1>5. Len(w) = end
  BY <1>2, <1>3, <1>4
<1>6. /\ ms \in Seq(Seq(Reader!Byte)) /\ l % 4 = 0
      /\ o \in [0..count -> Nat] /\ o[0] = 16 /\ o[count] = l
      /\ \A k \in 0..count : o[k] <= l /\ 16 + 4 * k <= o[k]
      /\ \A k \in 1..count : o[k] = o[k - 1] + 4 + Len(ms[k]) /\ Len(ms[k]) % 4 = 0
      /\ \A j \in 1..8 : m[j] = Reader!BUNDLE_TAG[j]
      /\ \A k \in 1..count : \A j \in 1..4 :
           m[o[k - 1] + j] = Reader!FromUInt32(Len(ms[k]))[j]
      /\ \A k \in 1..count : \A j \in 1..Len(ms[k]) : m[o[k - 1] + 4 + j] = ms[k][j]
  BY <1>1, <1>2 DEF IsBundleOf
<1>7. PICK s : s = Append(ms, e)
  OBVIOUS
<1>8. /\ s \in Seq(Seq(Reader!Byte)) /\ Len(s) = count + 1
      /\ \A k \in 1..count : s[k] = ms[k]
      /\ s[count + 1] = e
  BY <1>1, <1>6, <1>7, AppendProperties
<1>9. PICK p : p = [k \in 0..(count + 1) |-> IF k <= count THEN o[k] ELSE end]
  OBVIOUS
<1>10. /\ \A k \in 0..count : p[k] = o[k]
       /\ p[count + 1] = end /\ p \in [0..(count + 1) -> Nat]
  <2>1. \A k \in 0..(count + 1) : k <= count => k \in 0..count
    OBVIOUS
  <2>2. \A k \in 0..count : k \in 0..(count + 1) /\ k <= count
    OBVIOUS
  <2>3. count + 1 \in 0..(count + 1) /\ ~(count + 1 <= count)
    OBVIOUS
  <2>4. \A k \in 0..count : o[k] \in Nat
    BY <1>6
  <2> QED BY <1>9, <2>1, <2>2, <2>3, <2>4
<1>11. end % 4 = 0
  <2>2. l % 4 = 0 /\ size % 4 = 0
    BY <1>3, <1>6
  <2>3. (l + size) % 4 = 0
    BY <2>2, MultiplesAdd
  <2>4. PICK x \in Nat : x = l + size
    OBVIOUS
  <2>5. (x + 4) % 4 = 0
    BY ONLY <2>3, <2>4, x \in Nat
  <2>6. x + 4 = end
    BY ONLY <1>4, <2>4, x \in Nat, l \in Nat, size \in Nat, end \in Nat
  <2> QED BY <2>5, <2>6
<1>12. 0 \in 0..count /\ count \in 0..count
  OBVIOUS
<1>13. p[0] = 16 /\ p[count + 1] = Len(w)
  BY <1>5, <1>6, <1>10, <1>12
<1>14. ASSUME NEW k \in 0..(count + 1) PROVE p[k] <= end /\ 16 + 4 * k <= p[k]
  <2>1. CASE k \in 0..count
    <3>1. PICK x \in Nat : x = o[k]
      BY <1>6, <2>1
    <3>2. x <= l /\ 16 + 4 * k <= x
      BY <1>6, <2>1, <3>1
    <3>3. x <= end
      BY ONLY <1>4, <3>2, x \in Nat, l \in Nat, size \in Nat, end \in Nat
    <3> QED BY <1>10, <2>1, <3>1, <3>2, <3>3
  <2>2. CASE k = count + 1
    <3>1. 16 + 4 * count <= l
      BY <1>6, <1>12
    <3>2. 16 + 4 * (count + 1) <= end
      BY ONLY <1>4, <3>1, count \in Nat, l \in Nat, size \in Nat, end \in Nat
    <3> QED BY <1>10, <2>2, <3>2
  <2> QED BY <2>1, <2>2
<1>15. ASSUME NEW k \in 1..(count + 1)
       PROVE  /\ p[k] = p[k - 1] + 4 + Len(s[k]) /\ Len(s[k]) % 4 = 0
              /\ \A j \in 1..4 : w[p[k - 1] + j] = Reader!FromUInt32(Len(s[k]))[j]
              /\ \A j \in 1..Len(s[k]) : w[p[k - 1] + 4 + j] = s[k][j]
  <2>1. CASE k \in 1..count
    <3>1. k \in 0..count /\ k - 1 \in 0..count
      BY ONLY <2>1, count \in Nat
    <3>2. p[k] = o[k] /\ p[k - 1] = o[k - 1] /\ s[k] = ms[k]
      BY <1>8, <1>10, <2>1, <3>1
    <3>3. PICK x \in Nat : x = o[k - 1]
      BY <1>6, <3>1
    <3>4. PICK z \in Nat : z = Len(ms[k])
      <4>1. ms[k] \in Seq(Reader!Byte)
        BY <1>1, <1>6, <2>1, ElementOfSeq
      <4> QED BY <4>1, LenProperties
    <3>5. /\ o[k] = x + 4 + z /\ z % 4 = 0 /\ o[k] <= l
          /\ \A j \in 1..4 : m[x + j] = Reader!FromUInt32(z)[j]
          /\ \A j \in 1..z : m[x + 4 + j] = ms[k][j]
      BY <1>6, <2>1, <3>1, <3>3, <3>4
    <3>6. x + 4 + z <= l
      BY <3>5
    <3>7. \A j \in 1..4 : x + j \in 1..l
      BY ONLY <3>6, x \in Nat, z \in Nat, l \in Nat
    <3>8. \A j \in 1..z : x + 4 + j \in 1..l
      BY ONLY <3>6, x \in Nat, z \in Nat, l \in Nat
    <3>9. \A j \in 1..4 : w[x + j] = Reader!FromUInt32(z)[j]
      BY <1>2, <3>5, <3>7
    <3>10. \A j \in 1..z : w[x + 4 + j] = ms[k][j]
      BY <1>2, <3>5, <3>8
    <3> QED BY <3>2, <3>3, <3>4, <3>5, <3>9, <3>10
  <2>2. CASE k = count + 1
    <3>1. k - 1 = count
      BY <2>2
    <3>2. p[k] = end /\ p[k - 1] = l /\ s[k] = e
      BY <1>6, <1>8, <1>10, <1>12, <2>2, <3>1
    <3>3. \A j \in 1..4 : w[l + j] = Reader!FromUInt32(size)[j]
      BY <1>2, <1>3
    <3>4. \A j \in 1..size : w[l + 4 + j] = e[j]
      BY <1>2, <1>3
    <3> QED BY <1>3, <1>4, <3>2, <3>3, <3>4
  <2>3. k \in 1..count \/ k = count + 1
    BY ONLY k \in 1..(count + 1), count \in Nat
  <2> QED BY <2>1, <2>2, <2>3
<1>16. \A j \in 1..8 : w[j] = Reader!BUNDLE_TAG[j]
  <2>1. 16 <= l
    BY <1>6, <1>12
  <2>2. \A j \in 1..8 : j \in 1..l
    BY ONLY <2>1, l \in Nat
  <2> QED BY <1>2, <1>6, <2>2
<1>17. IsBundleOf(w, s, p)
  BY <1>5, <1>8, <1>10, <1>11, <1>13, <1>14, <1>15, <1>16 DEF IsBundleOf
<1> QED BY <1>7, <1>17

LEMMA EmptyBundle ==
  ASSUME NEW m, m = Values(BundleHeader)
  PROVE  \E o : IsBundleOf(m, << >>, o)
<1>1. Len(BundleHeader) = 16 /\ \A j \in 1..16 : BundleHeader[j] = ByteOf("bundle", 0, j)
  <2>1. 16 \in Nat
    OBVIOUS
  <2>2. \A j \in 1..16 : Bytes("bundle", 16)[j] = ByteOf("bundle", 0, j)
    BY <2>1, BytesAre
  <2>3. Len(Bytes("bundle", 16)) = 16
    BY DEF Bytes
  <2> QED BY <2>2, <2>3 DEF BundleHeader
<1>2. m \in Seq(Reader!Byte) /\ Len(m) = 16 /\ \A j \in 1..16 : m[j] = ByteValue(BundleHeader[j])
  <2>1. PICK header : header = BundleHeader
    OBVIOUS
  <2>2. IsGood(header) /\ m = Values(header)
    BY <2>1, GoodHeader
  <2>3. /\ m \in Seq(Reader!Byte) /\ Len(m) = Len(header)
        /\ \A j \in 1..Len(header) : m[j] = ByteValue(header[j])
    BY <2>2, ValuesAre
  <2> QED BY <1>1, <2>1, <2>3
<1>3. \A j \in 1..8 : m[j] = Reader!BUNDLE_TAG[j]
  <2>1. \A j \in 1..8 : j \in 1..16
    OBVIOUS
  <2> QED BY <1>1, <1>2, <2>1, BundleValues
<1>4. PICK o : o = [k \in 0..0 |-> 16]
  OBVIOUS
<1>5. o \in [0..0 -> Nat] /\ o[0] = 16
  BY <1>4
<1>6. /\ << >> \in Seq(Seq(Reader!Byte)) /\ Len(<< >>) = 0
      /\ 1..0 = {} /\ 16 % 4 = 0 /\ \A k \in 0..0 : k = 0
  BY EmptySeq
<1>7. \A k \in 0..0 : o[k] <= Len(m) /\ 16 + 4 * k <= o[k]
  BY <1>2, <1>5, <1>6
<1>8. IsBundleOf(m, << >>, o)
  BY <1>2, <1>3, <1>5, <1>6, <1>7 DEF IsBundleOf
<1> QED BY <1>8

-----------------------------------------------------------------------------
(* 7. The levels of a packet.                                              *)

(* What was put at one level, and what it is encoded as.                   *)

(* Outside all bundles, where one element makes a packet.                  *)
Outermost(content, elements, ok, h) ==
  /\ IsGood(content)
  /\ Len(elements) = 0 => content = << >> /\ ok
  /\ Len(elements) = 1 => Followed(Values(content), elements[1], ok, h)

(* In a bundle.                                                            *)
Inner(content, elements, ok, h) ==
  /\ IsGood(content)
  /\ \E ms, o, oks :
       /\ IsBundleOf(Values(content), ms, o)
       /\ Len(ms) = Len(elements)
       /\ AllFollowed(ms, elements, oks, h)
       /\ ok <=> AllOf(oks, Len(ms))

LevelIs(i, content, elements, ok, h) ==
  IF i = 1 THEN Outermost(content, elements, ok, h) ELSE Inner(content, elements, ok, h)

LEMMA LevelDeeper ==
  ASSUME NEW h \in Nat, NEW i, NEW content, NEW elements, NEW ok,
         LevelIs(i, content, elements, ok, h)
  PROVE  LevelIs(i, content, elements, ok, h + 1)
<1>1. CASE i = 1
  <2>1. Outermost(content, elements, ok, h)
    BY <1>1 DEF LevelIs
  <2>2. Outermost(content, elements, ok, h + 1)
    BY <2>1, FollowedDeeper DEF Outermost
  <2> QED BY <1>1, <2>2 DEF LevelIs
<1>2. CASE i # 1
  <2>1. Inner(content, elements, ok, h)
    BY <1>2 DEF LevelIs
  <2>2. PICK ms, o, oks :
          /\ IsBundleOf(Values(content), ms, o)
          /\ Len(ms) = Len(elements)
          /\ AllFollowed(ms, elements, oks, h)
          /\ ok <=> AllOf(oks, Len(ms))
    BY <2>1 DEF Inner
  <2>3. AllFollowed(ms, elements, oks, h + 1)
    BY <2>2, FollowedDeeper DEF AllFollowed
  <2>4. Inner(content, elements, ok, h + 1)
    BY <2>1, <2>2, <2>3 DEF Inner
  <2> QED BY <1>2, <2>4 DEF LevelIs
<1> QED BY <1>1, <1>2

LEMMA EmptyIsGood == IsGood(<< >>)
<1>1. << >> \in Seq(Byte) /\ Len(<< >>) = 0
  BY EmptySeq
<1> QED BY <1>1 DEF IsGood

LEMMA NewLevels ==
  ASSUME NEW h \in Nat
  PROVE  /\ LevelIs(1, << >>, << >>, TRUE, h)
         /\ \A i : i # 1 => LevelIs(i, BundleHeader, << >>, TRUE, h)
<1>1. Len(<< >>) = 0
  BY EmptySeq
<1>2. Outermost(<< >>, << >>, TRUE, h)
  BY <1>1, EmptyIsGood DEF Outermost
<1>3. Inner(BundleHeader, << >>, TRUE, h)
  <2>1. PICK o : IsBundleOf(Values(BundleHeader), << >>, o)
    BY EmptyBundle
  <2>2. << >> \in Seq(Seq(Reader!Byte)) /\ 1..0 = {}
    BY EmptySeq
  <2>3. AllFollowed(<< >>, << >>, << >>, h) /\ AllOf(<< >>, 0)
    BY <1>1, <2>2 DEF AllFollowed, AllOf
  <2> QED BY <1>1, <2>1, <2>3, GoodHeader DEF Inner
<1> QED BY <1>2, <1>3 DEF LevelIs

LEMMA BundleCloses ==
  ASSUME NEW h \in Nat, NEW i, i # 1, NEW content, NEW S, NEW elements \in Seq(S), NEW ok,
         LevelIs(i, content, elements, ok, h)
  PROVE  IsGood(content) /\ Followed(Values(content), Bundle(elements), ok, h + 1)
<1>1. Inner(content, elements, ok, h)
  BY DEF LevelIs
<1>2. PICK ms, o, oks :
        /\ IsBundleOf(Values(content), ms, o)
        /\ Len(ms) = Len(elements)
        /\ AllFollowed(ms, elements, oks, h)
        /\ ok <=> AllOf(oks, Len(ms))
  BY <1>1 DEF Inner
<1>3. elements = [k \in 1..Len(ms) |-> elements[k]]
  BY <1>2, LenProperties
<1>4. PICK m : m = Values(content)
  OBVIOUS
<1>5. IsBundleOf(m, ms, o)
  BY <1>2, <1>4
<1>6. Followed(m, Bundle(elements), ok, h + 1)
  BY <1>2, <1>3, <1>5, BundleFollowed
<1> QED BY <1>1, <1>4, <1>6 DEF Inner

(* One more element in a bundle, with its size before it.                  *)
LEMMA InnerWithElement ==
  ASSUME NEW h \in Nat, NEW content, NEW S, NEW elements \in Seq(S), NEW ok \in BOOLEAN,
         Inner(content, elements, ok, h),
         NEW e, IsGood(e), NEW element \in S, NEW okE \in BOOLEAN,
         Followed(Values(e), element, okE, h),
         NEW w, w = content \o UInt32("size", Len(e)) \o e,
         NEW both \in BOOLEAN, both <=> ok /\ okE
  PROVE  Inner(w, Append(elements, element), both, h)
<1>1. PICK ms, o, oks :
        /\ IsBundleOf(Values(content), ms, o)
        /\ Len(ms) = Len(elements)
        /\ AllFollowed(ms, elements, oks, h)
        /\ ok <=> AllOf(oks, Len(ms))
  BY DEF Inner
<1>2. IsGood(content)
  BY DEF Inner
<1>3. PICK size \in Nat : size = Len(e)
  BY LenProperties DEF IsGood
<1>4. PICK slot : slot = UInt32("size", size)
  OBVIOUS
<1>5. /\ IsGood(slot) /\ Len(slot) = 4
      /\ \A j \in 1..4 : ByteValue(slot[j]) = Reader!FromUInt32(size)[j]
  <2>1. \A j \in 1..4 : slot[j] = ByteOf("size", size, j)
    BY <1>4, UInt32Are
  <2>2. Len(slot) = 4
    BY <1>4 DEF UInt32
  <2>3. \A j \in 1..4 : j \in Nat
    OBVIOUS
  <2>4. IsGood(slot)
    BY <1>4, GoodSize
  <2> QED BY <2>1, <2>2, <2>3, <2>4, SizeValues
<1>6. IsGood(w)
  <2>1. IsGood(content \o slot)
    BY <1>2, <1>5, GoodConcat
  <2> QED BY <1>3, <1>4, <2>1, GoodConcat
<1>7. PICK m : m = Values(content)
  OBVIOUS
<1>8. PICK v : v = Values(e)
  OBVIOUS
<1>9. PICK all : all = Values(w)
  OBVIOUS
<1>10. /\ m \in Seq(Reader!Byte) /\ Len(m) = Len(content)
       /\ \A k \in 1..Len(content) : m[k] = ByteValue(content[k])
  BY <1>2, <1>7, ValuesAre
<1>11. /\ v \in Seq(Reader!Byte) /\ Len(v) = size
       /\ \A k \in 1..size : v[k] = ByteValue(e[k])
  BY <1>3, <1>8, ValuesAre
<1>12. all \in Seq(Reader!Byte) /\ ThreeIn(all, content, slot, e)
  <2>1. content \in Seq(Byte) /\ slot \in Seq(Byte) /\ e \in Seq(Byte)
    BY <1>2, <1>5 DEF IsGood
  <2>2. w = content \o slot \o e
    BY <1>3, <1>4
  <2> QED BY <1>6, <1>9, <2>1, <2>2, ThreeValues
<1>13. /\ Len(all) = Len(m) + 4 + Len(v)
       /\ \A j \in 1..Len(m) : all[j] = m[j]
       /\ \A j \in 1..4 : all[Len(m) + j] = Reader!FromUInt32(Len(v))[j]
       /\ \A j \in 1..Len(v) : all[Len(m) + 4 + j] = v[j]
  BY <1>3, <1>5, <1>10, <1>11, <1>12 DEF ThreeIn
<1>14. Len(v) % 4 = 0
  BY <1>8 DEF Followed
<1>15. PICK p : IsBundleOf(all, Append(ms, v), p)
  <2>1. IsBundleOf(m, ms, o)
    BY <1>1, <1>7
  <2>2. \E p : IsBundleOf(all, Append(ms, v), p)
    BY <1>11, <1>12, <1>13, <1>14, <2>1, BundleWithElement
  <2> QED BY <2>2
<1>16. ms \in Seq(Seq(Reader!Byte))
  BY <1>1 DEF AllFollowed
<1>17. PICK count \in Nat : count = Len(ms)
  BY <1>16, LenProperties
<1>18. PICK s : s = Append(ms, v)
  OBVIOUS
<1>19. /\ s \in Seq(Seq(Reader!Byte)) /\ Len(s) = count + 1
       /\ \A k \in 1..count : s[k] = ms[k]
       /\ s[count + 1] = v
  BY <1>11, <1>16, <1>17, <1>18, AppendProperties
<1>20. PICK t : t = Append(elements, element)
  OBVIOUS
<1>21. /\ Len(t) = count + 1
       /\ \A k \in 1..count : t[k] = elements[k]
       /\ t[count + 1] = element
  BY <1>1, <1>17, <1>20, AppendProperties
<1>22. PICK r : r = [k \in 1..(count + 1) |-> IF k <= count THEN oks[k] ELSE okE]
  OBVIOUS
<1>23. /\ \A k \in 1..count : r[k] = oks[k]
       /\ r[count + 1] = okE
  <2>1. \A k \in 1..count : k \in 1..(count + 1) /\ k <= count
    OBVIOUS
  <2>2. count + 1 \in 1..(count + 1) /\ ~(count + 1 <= count)
    OBVIOUS
  <2> QED BY <1>22, <2>1, <2>2
<1>24. \A k \in 1..(count + 1) : k \in 1..count \/ k = count + 1
  OBVIOUS
<1>25. AllFollowed(s, t, r, h)
  <2>1. \A k \in 1..count : Followed(ms[k], elements[k], oks[k], h)
    BY <1>1, <1>17 DEF AllFollowed
  <2>2. Followed(v, element, okE, h)
    BY <1>8
  <2>3. \A k \in 1..(count + 1) : Followed(s[k], t[k], r[k], h)
    BY <1>19, <1>21, <1>23, <1>24, <2>1, <2>2
  <2> QED BY <1>19, <2>3 DEF AllFollowed
<1>26. both <=> AllOf(r, count + 1)
  <2>1. ok <=> \A k \in 1..count : oks[k]
    BY <1>1, <1>17 DEF AllOf
  <2>2. count + 1 \in 1..(count + 1) /\ \A k \in 1..count : k \in 1..(count + 1)
    OBVIOUS
  <2> QED BY <1>23, <1>24, <2>1, <2>2 DEF AllOf
<1>27. Inner(w, t, both, h)
  BY <1>6, <1>9, <1>15, <1>18, <1>19, <1>21, <1>25, <1>26 DEF Inner
<1> QED BY <1>20, <1>27

LEMMA OutermostWithElement ==
  ASSUME NEW h \in Nat, NEW content, NEW S, NEW elements \in Seq(S), NEW ok \in BOOLEAN,
         Outermost(content, elements, ok, h),
         NEW e, IsGood(e), NEW element \in S, NEW okE \in BOOLEAN,
         Followed(Values(e), element, okE, h),
         NEW w, w = content \o << >> \o e,
         NEW both \in BOOLEAN, both <=> ok /\ okE
  PROVE  Outermost(w, Append(elements, element), both, h)
<1>1. PICK count \in Nat : count = Len(elements)
  BY LenProperties
<1>2. PICK t : t = Append(elements, element)
  OBVIOUS
<1>3. Len(t) = count + 1 /\ t[count + 1] = element
  BY <1>1, <1>2, AppendProperties
<1>4. content \in Seq(Byte) /\ e \in Seq(Byte) /\ IsGood(content)
  BY DEF Outermost, IsGood
<1>5. content \o << >> = content
  BY <1>4, ConcatEmptySeq
<1>6. w = content \o e
  BY <1>5
<1>7. IsGood(w)
  BY <1>4, <1>6, GoodConcat
<1>8. Len(t) # 0
  BY <1>3
<1>9. ASSUME Len(t) = 1 PROVE Followed(Values(w), t[1], both, h)
  <2>1. count = 0 /\ count + 1 = 1
    <3>1. count + 1 = 1
      BY <1>3, <1>9
    <3> QED BY ONLY <3>1, count \in Nat
  <2>2. content = << >> /\ ok
    BY <1>1, <2>1 DEF Outermost
  <2>3. w = e
    BY <1>4, <1>6, <2>2, ConcatEmptySeq
  <2>4. both = okE
    BY <2>2
  <2> QED BY <1>3, <2>1, <2>3, <2>4
<1>10. Outermost(w, t, both, h)
  BY <1>7, <1>8, <1>9 DEF Outermost
<1> QED BY <1>2, <1>10

LEMMA LevelWithElement ==
  ASSUME NEW h \in Nat, NEW i, NEW content, NEW S, NEW elements \in Seq(S), NEW ok \in BOOLEAN,
         LevelIs(i, content, elements, ok, h),
         NEW e, IsGood(e), NEW element \in S, NEW okE \in BOOLEAN,
         Followed(Values(e), element, okE, h),
         NEW w, w = content \o (IF i = 1 THEN << >> ELSE UInt32("size", Len(e))) \o e,
         NEW both \in BOOLEAN, both <=> ok /\ okE
  PROVE  LevelIs(i, w, Append(elements, element), both, h)
<1>1. CASE i = 1
  <2>1. Outermost(content, elements, ok, h) /\ w = content \o << >> \o e
    BY <1>1 DEF LevelIs
  <2>2. Outermost(w, Append(elements, element), both, h)
    BY <2>1, OutermostWithElement
  <2> QED BY <1>1, <2>2 DEF LevelIs
<1>2. CASE i # 1
  <2>1. Inner(content, elements, ok, h) /\ w = content \o UInt32("size", Len(e)) \o e
    BY <1>2 DEF LevelIs
  <2>2. Inner(w, Append(elements, element), both, h)
    BY <2>1, InnerWithElement
  <2> QED BY <1>2, <2>2 DEF LevelIs
<1> QED BY <1>1, <1>2

(* What was put at all levels, and what it is encoded as.  An element at   *)
(* level i of a packet of p parts has at most p + 1 - i bundles in it.     *)

Levels(levels, puts, ok, p, n) ==
  /\ ok \in [1..n -> BOOLEAN]
  /\ \A i \in 1..n : LevelIs(i, levels[i], puts[i], ok[i], p + 1 - i)

LEMMA LevelsDeeper ==
  ASSUME NEW p \in Nat, NEW n \in Nat, n <= p + 1, NEW levels, NEW puts, NEW ok,
         Levels(levels, puts, ok, p, n)
  PROVE  Levels(levels, puts, ok, p + 1, n)
<1>1. ASSUME NEW i \in 1..n PROVE LevelIs(i, levels[i], puts[i], ok[i], (p + 1) + 1 - i)
  <2>1. PICK h \in Nat : h = p + 1 - i
    <3>1. p + 1 - i \in Nat
      OBVIOUS
    <3> QED BY <3>1
  <2>2. (p + 1) + 1 - i = h + 1
    BY <2>1
  <2>3. LevelIs(i, levels[i], puts[i], ok[i], h)
    BY <2>1 DEF Levels
  <2>4. LevelIs(i, levels[i], puts[i], ok[i], h + 1)
    BY <2>3, LevelDeeper
  <2> QED BY <2>2, <2>4
<1> QED BY <1>1 DEF Levels

LEMMA SeqGrows ==
  ASSUME NEW S, NEW T, S \subseteq T, NEW s \in Seq(S)
  PROVE  s \in Seq(T)
<1>1. PICK n \in Nat : n = Len(s)
  BY LenProperties
<1>2. \A k \in 1..n : s[k] \in T
  BY <1>1, ElementOfSeq
<1>3. s = [k \in 1..n |-> s[k]]
  BY <1>1, LenProperties
<1>4. s \in [1..n -> T]
  BY <1>2, <1>3
<1> QED BY <1>4, FunctionIsSeq

LEMMA SomeElements ==
  ASSUME NEW S, NEW puts \in Seq(Seq(S)), NEW element
  PROVE  puts \in Seq(Seq(S \cup {element}))
<1>1. \A s \in Seq(S) : s \in Seq(S \cup {element})
  BY SeqGrows
<1> QED BY <1>1, SeqGrows

(* A bundle begun.                                                         *)
BeginsLevel(levels, puts, ok, p, n) ==
  \E new : /\ Levels(levels, puts, new, p, n + 1)
           /\ AllOf(new, n + 1) <=> AllOf(ok, n)

LEMMA LevelsBegun ==
  ASSUME NEW p \in Nat, NEW levels \in Seq(Seq(Byte)), NEW S, NEW puts \in Seq(Seq(S)),
         NEW n \in Nat, n >= 1, n <= p + 1, Len(levels) = n, Len(puts) = n,
         NEW ok, Levels(levels, puts, ok, p, n)
  PROVE  BeginsLevel(Append(levels, BundleHeader), Append(puts, << >>), ok, p + 1, n)
<1>1. PICK l : l = Append(levels, BundleHeader)
  OBVIOUS
<1>2. \A i \in 1..n : l[i] = levels[i]
  BY <1>1, BundleHeaderType, AppendProperties
<1>3. l[n + 1] = BundleHeader
  BY <1>1, BundleHeaderType, AppendProperties
<1>4. PICK u : u = Append(puts, << >>)
  OBVIOUS
<1>5. << >> \in Seq(S)
  BY EmptySeq
<1>6. (\A i \in 1..n : u[i] = puts[i]) /\ u[n + 1] = << >>
  BY <1>4, <1>5, AppendProperties
<1>7. PICK new : new = [i \in 1..(n + 1) |-> IF i <= n THEN ok[i] ELSE TRUE]
  OBVIOUS
<1>8. /\ new \in [1..(n + 1) -> BOOLEAN]
      /\ \A i \in 1..n : new[i] = ok[i]
      /\ new[n + 1] = TRUE
  <2>1. \A i \in 1..(n + 1) : i <= n => i \in 1..n
    OBVIOUS
  <2>2. \A i \in 1..n : i \in 1..(n + 1) /\ i <= n
    OBVIOUS
  <2>3. n + 1 \in 1..(n + 1) /\ ~(n + 1 <= n)
    OBVIOUS
  <2>4. \A i \in 1..n : ok[i] \in BOOLEAN
    BY DEF Levels
  <2>5. \A i \in 1..n : new[i] = ok[i]
    BY <1>7, <2>2
  <2>6. new[n + 1] = TRUE
    BY <1>7, <2>3
  <2>7. new \in [1..(n + 1) -> BOOLEAN]
    BY <1>7, <2>1, <2>4
  <2> QED BY <2>5, <2>6, <2>7
<1>9. Levels(levels, puts, ok, p + 1, n)
  BY LevelsDeeper
<1>10. LevelIs(n + 1, l[n + 1], u[n + 1], new[n + 1], (p + 1) + 1 - (n + 1))
  <2>1. PICK h \in Nat : h = (p + 1) + 1 - (n + 1)
    <3>1. (p + 1) + 1 - (n + 1) \in Nat
      OBVIOUS
    <3> QED BY <3>1
  <2>2. n + 1 # 1
    OBVIOUS
  <2>3. LevelIs(n + 1, BundleHeader, << >>, TRUE, h)
    BY <2>2, NewLevels
  <2> QED BY <1>3, <1>6, <1>8, <2>1, <2>3
<1>11. \A i \in 1..(n + 1) : i \in 1..n \/ i = n + 1
  OBVIOUS
<1>12. \A i \in 1..n : LevelIs(i, l[i], u[i], new[i], (p + 1) + 1 - i)
  BY <1>2, <1>6, <1>8, <1>9 DEF Levels
<1>13. Levels(l, u, new, p + 1, n + 1)
  BY <1>8, <1>10, <1>11, <1>12 DEF Levels
<1>14. AllOf(new, n + 1) <=> AllOf(ok, n)
  <2>1. \A i \in 1..n : i \in 1..(n + 1)
    OBVIOUS
  <2> QED BY <1>8, <1>11, <2>1 DEF AllOf
<1>15. BeginsLevel(l, u, ok, p + 1, n)
  BY <1>13, <1>14 DEF BeginsLevel
<1> QED BY <1>1, <1>4, <1>15

(* An element finished, in the innermost of the levels.                    *)
Ends(levels, puts, ok, okE, p, n) ==
  \E new : /\ Levels(levels, puts, new, p, n)
           /\ AllOf(new, n) <=> AllOf(ok, n) /\ okE

LEMMA LevelsWithElement ==
  ASSUME NEW p \in Nat, NEW levels \in Seq(Seq(Byte)), NEW S, NEW puts \in Seq(Seq(S)),
         NEW n \in Nat, n >= 1, n <= p + 1, Len(levels) = n, Len(puts) = n,
         NEW ok, Levels(levels, puts, ok, p, n),
         NEW e, IsGood(e), NEW element \in S, NEW okE \in BOOLEAN,
         Followed(Values(e), element, okE, p + 1 - n),
         NEW l, l = WithElement(levels, e), NEW u, u = Finished(puts, element)
  PROVE  Ends(l, u, ok, okE, p, n) /\ u \in Seq(Seq(S)) /\ Len(u) = n
<1>1. n \in 1..n
  OBVIOUS
<1>2. levels = [i \in 1..n |-> levels[i]] /\ puts = [i \in 1..n |-> puts[i]]
  BY LenProperties
<1>3. PICK w : w = levels[n] \o (IF n = 1 THEN << >> ELSE UInt32("size", Len(e))) \o e
  OBVIOUS
<1>5. l = [levels EXCEPT ![n] = w]
  BY <1>3 DEF WithElement
<1>6. l[n] = w /\ \A i \in 1..n : i # n => l[i] = levels[i]
  BY <1>1, <1>2, <1>5
<1>8. PICK one : one = Append(puts[n], element)
  OBVIOUS
<1>9. u = [puts EXCEPT ![n] = one]
  BY <1>8 DEF Finished
<1>10. u[n] = one /\ \A i \in 1..n : i # n => u[i] = puts[i]
  BY <1>1, <1>2, <1>9
<1>11. puts[n] \in Seq(S)
  BY <1>1, ElementOfSeq
<1>12. u \in Seq(Seq(S)) /\ Len(u) = n
  <2>1. one \in Seq(S)
    BY <1>8, <1>11, AppendProperties
  <2>2. \A i \in 1..n : puts[i] \in Seq(S)
    BY ElementOfSeq
  <2>3. u \in [1..n -> Seq(S)]
    BY <1>2, <1>9, <2>1, <2>2
  <2> QED BY <2>3, FunctionIsSeq
<1>13. ok[n] \in BOOLEAN
  BY <1>1 DEF Levels
<1>14. PICK okN \in BOOLEAN : okN = ok[n]
  BY <1>13
<1>15. PICK both \in BOOLEAN : both <=> okN /\ okE
  OBVIOUS
<1>16. PICK new : new = [i \in 1..n |-> IF i = n THEN both ELSE ok[i]]
  OBVIOUS
<1>17. /\ new \in [1..n -> BOOLEAN] /\ new[n] = both
       /\ \A i \in 1..n : i # n => new[i] = ok[i]
  <2>1. \A i \in 1..n : ok[i] \in BOOLEAN
    BY DEF Levels
  <2> QED BY <1>1, <1>16, <2>1
<1>18. PICK h \in Nat : h = p + 1 - n
  <2>1. p + 1 - n \in Nat
    OBVIOUS
  <2> QED BY <2>1
<1>19. LevelIs(n, w, one, both, h)
  <2>1. LevelIs(n, levels[n], puts[n], okN, h)
    BY <1>1, <1>14, <1>18 DEF Levels
  <2>2. Followed(Values(e), element, okE, h)
    BY <1>18
  <2>3. LevelIs(n, w, Append(puts[n], element), both, h)
    BY <1>3, <1>11, <1>15, <2>1, <2>2, LevelWithElement
  <2> QED BY <1>8, <2>3
<1>20. \A i \in 1..n : LevelIs(i, l[i], u[i], new[i], p + 1 - i)
  <2>1. \A i \in 1..n : LevelIs(i, levels[i], puts[i], ok[i], p + 1 - i)
    BY DEF Levels
  <2> QED BY <1>6, <1>10, <1>17, <1>18, <1>19, <2>1
<1>21. Levels(l, u, new, p, n)
  BY <1>17, <1>20 DEF Levels
<1>22. AllOf(new, n) <=> AllOf(ok, n) /\ okE
  BY <1>1, <1>14, <1>15, <1>17 DEF AllOf
<1>23. Ends(l, u, ok, okE, p, n)
  BY <1>21, <1>22 DEF Ends
<1> QED BY <1>12, <1>23

(* A bundle finished: it is an element of the level outside it.            *)
EndsLevel(levels, puts, ok, p, n) ==
  \E new : /\ Levels(levels, puts, new, p, n)
           /\ AllOf(new, n) <=> AllOf(ok, n + 1)

LEMMA LevelsEnded ==
  ASSUME NEW p \in Nat, NEW levels \in Seq(Seq(Byte)), NEW S, NEW puts \in Seq(Seq(S)),
         NEW n \in Nat, n >= 1, n + 1 <= p + 1, Len(levels) = n + 1, Len(puts) = n + 1,
         NEW ok, Levels(levels, puts, ok, p, n + 1),
         NEW element \in S, element = Bundle(Last(puts)),
         NEW outer, outer = WithElement(Front(levels), Last(levels)),
         NEW putOuter, putOuter = Finished(Front(puts), element)
  PROVE  EndsLevel(outer, putOuter, ok, p, n) /\ putOuter \in Seq(Seq(S)) /\ Len(putOuter) = n
<1>1. n \in 0..Len(levels) /\ n \in 0..Len(puts) /\ (n + 1) - 1 = n
      /\ n + 1 \in 1..(n + 1) /\ \A i \in 1..n : i \in 1..(n + 1)
  OBVIOUS
<1>2. PICK l : l = Front(levels)
  OBVIOUS
<1>3. PICK u : u = Front(puts)
  OBVIOUS
<1>4. l \in Seq(Seq(Byte)) /\ Len(l) = n /\ \A i \in 1..n : l[i] = levels[i]
  <2>1. l = SubSeq(levels, 1, n)
    BY <1>1, <1>2 DEF Front
  <2> QED BY <1>1, <2>1, PrefixType
<1>5. u \in Seq(Seq(S)) /\ Len(u) = n /\ \A i \in 1..n : u[i] = puts[i]
  <2>1. u = SubSeq(puts, 1, n)
    BY <1>1, <1>3 DEF Front
  <2> QED BY <1>1, <2>1, PrefixType
<1>6. PICK e : e = Last(levels)
  OBVIOUS
<1>7. PICK elements : elements = Last(puts)
  OBVIOUS
<1>8. e = levels[n + 1] /\ elements = puts[n + 1] /\ elements \in Seq(S)
  BY <1>1, <1>6, <1>7, ElementOfSeq DEF Last
<1>9. PICK okE \in BOOLEAN : okE = ok[n + 1]
  BY <1>1 DEF Levels
<1>10. PICK h \in Nat : h = p + 1 - (n + 1)
  <2>1. p + 1 - (n + 1) \in Nat
    OBVIOUS
  <2> QED BY <2>1
<1>11. LevelIs(n + 1, e, elements, okE, h)
  BY <1>1, <1>8, <1>9, <1>10 DEF Levels
<1>12. IsGood(e) /\ Followed(Values(e), Bundle(elements), okE, h + 1)
  <2>1. n + 1 # 1
    OBVIOUS
  <2> QED BY <1>8, <1>11, <2>1, BundleCloses
<1>13. h + 1 = p + 1 - n
  BY <1>10
<1>14. PICK before : before = [i \in 1..n |-> ok[i]]
  OBVIOUS
<1>15. \A i \in 1..n : before[i] = ok[i]
  BY <1>14
<1>16. Levels(l, u, before, p, n)
  <2>1. \A i \in 1..n : /\ ok[i] \in BOOLEAN
                        /\ LevelIs(i, levels[i], puts[i], ok[i], p + 1 - i)
    BY <1>1 DEF Levels
  <2>2. before \in [1..n -> BOOLEAN]
    BY <1>14, <2>1
  <2> QED BY <1>4, <1>5, <1>15, <2>1, <2>2 DEF Levels
<1>17. element = Bundle(elements)
  BY <1>7
<1>18. Followed(Values(e), element, okE, p + 1 - n)
  BY <1>12, <1>13, <1>17
<1>19. n <= p + 1
  OBVIOUS
<1>20. outer = WithElement(l, e) /\ putOuter = Finished(u, element)
  BY <1>2, <1>3, <1>6
<1>21. /\ Ends(outer, putOuter, before, okE, p, n)
       /\ putOuter \in Seq(Seq(S)) /\ Len(putOuter) = n
  BY <1>4, <1>5, <1>12, <1>16, <1>18, <1>19, <1>20, LevelsWithElement
<1>22. AllOf(ok, n + 1) <=> AllOf(before, n) /\ okE
  <2>1. \A i \in 1..(n + 1) : i \in 1..n \/ i = n + 1
    OBVIOUS
  <2> QED BY <1>1, <1>9, <1>15, <2>1 DEF AllOf
<1>23. EndsLevel(outer, putOuter, ok, p, n)
  BY <1>21, <1>22 DEF Ends, EndsLevel
<1> QED BY <1>21, <1>23

-----------------------------------------------------------------------------
(* 8. The invariant.                                                       *)

(* The inductive invariant: what was put so far is what the reader will    *)
(* find, at all levels.                                                    *)

Readable ==
  /\ parts \in Nat /\ balanced \in BOOLEAN
  /\ Len(put) = Len(open) /\ Len(open) <= parts + 1
  /\ \E S : put \in Seq(Seq(S))
  /\ \E ok : /\ Levels(open, put, ok, parts, Len(open))
             /\ balanced <=> AllOf(ok, Len(open))

LEMMA FirstLevel ==
  ASSUME NEW p \in Nat, NEW levels, levels = << << >> >>, NEW puts, puts = << << >> >>
  PROVE  /\ Len(levels) = 1 /\ Len(puts) = 1 /\ puts \in Seq(Seq({}))
         /\ \E ok : Levels(levels, puts, ok, p, 1) /\ AllOf(ok, 1)
<1>1. Len(levels) = 1 /\ levels[1] = << >> /\ Len(puts) = 1 /\ puts[1] = << >>
  OBVIOUS
<1>2. puts \in Seq(Seq({}))
  <2>1. << >> \in Seq({})
    BY EmptySeq
  <2> QED BY <2>1
<1>3. PICK ok : ok = [i \in 1..1 |-> TRUE]
  OBVIOUS
<1>4. ok \in [1..1 -> BOOLEAN] /\ ok[1] = TRUE /\ \A i \in 1..1 : i = 1
  BY <1>3
<1>5. p + 1 - 1 = p
  OBVIOUS
<1>6. LevelIs(1, << >>, << >>, TRUE, p)
  BY NewLevels
<1>7. LevelIs(1, levels[1], puts[1], ok[1], p + 1 - 1)
  BY <1>1, <1>4, <1>5, <1>6
<1>8. Levels(levels, puts, ok, p, 1)
  BY <1>4, <1>7 DEF Levels
<1>9. AllOf(ok, 1)
  BY <1>4 DEF AllOf
<1> QED BY <1>1, <1>2, <1>8, <1>9

LEMMA StartsReadable == RoundTripInit => IInv /\ Readable
<1> SUFFICES ASSUME RoundTripInit PROVE IInv /\ Readable
  OBVIOUS
<1>1. IInv
  BY InitIsGood DEF RoundTripInit
<1>2. open = << << >> >> /\ put = << << >> >> /\ parts = 0 /\ balanced = TRUE
  BY DEF RoundTripInit, Init
<1>3. PICK p \in Nat : p = parts
  BY <1>2
<1>4. /\ Len(open) = 1 /\ Len(put) = 1 /\ put \in Seq(Seq({}))
      /\ \E ok : Levels(open, put, ok, p, 1) /\ AllOf(ok, 1)
  BY <1>2, FirstLevel
<1>5. 1 <= p + 1
  OBVIOUS
<1> QED BY <1>1, <1>2, <1>3, <1>4, <1>5 DEF Readable

LEMMA ClearAllKeeps ==
  ASSUME IInv, ClearAll
  PROVE  IInv' /\ Readable'
<1>1. IInv'
  BY ClearKeeps DEF ClearAll
<1>2. open' = << << >> >> /\ put' = << << >> >> /\ parts' = 0 /\ balanced' = TRUE
  BY DEF ClearAll, Clear
<1>3. PICK p \in Nat : p = parts'
  BY <1>2
<1>4. /\ Len(open') = 1 /\ Len(put') = 1 /\ put' \in Seq(Seq({}))
      /\ \E ok : Levels(open', put', ok, p, 1) /\ AllOf(ok, 1)
  BY <1>2, FirstLevel
<1>5. 1 <= p + 1
  OBVIOUS
<1> QED BY <1>1, <1>2, <1>3, <1>4, <1>5 DEF Readable

(* What the steps have in common.                                          *)
Stacked(n, p, S, ok) ==
  /\ n \in Nat /\ n >= 1 /\ n = Len(open) /\ n = Len(put)
  /\ p \in Nat /\ p = parts /\ n <= p + 1
  /\ open \in Seq(Seq(Byte)) /\ put \in Seq(Seq(S))
  /\ Levels(open, put, ok, p, n)
  /\ balanced \in BOOLEAN /\ (balanced <=> AllOf(ok, n))

LEMMA StackedIs ==
  ASSUME IInv, Readable
  PROVE  \E n \in Nat, p \in Nat : \E S, ok : Stacked(n, p, S, ok)
<1>1. PICK n \in Nat : n = Len(open) /\ n >= 1 /\ open \in Seq(Seq(Byte))
  BY LenProperties DEF IInv, TypeOK
<1>2. PICK p \in Nat : p = parts
  BY DEF Readable
<1>3. PICK S : put \in Seq(Seq(S))
  BY DEF Readable
<1>4. PICK ok : Levels(open, put, ok, p, n) /\ (balanced <=> AllOf(ok, n))
  BY <1>1, <1>2 DEF Readable
<1>5. n = Len(put) /\ n <= p + 1 /\ balanced \in BOOLEAN
  BY <1>1, <1>2 DEF Readable
<1>6. Stacked(n, p, S, ok)
  BY <1>1, <1>2, <1>3, <1>4, <1>5 DEF Stacked
<1> QED BY <1>6

LEMMA BeginBundleReadable ==
  ASSUME IInv, Readable, BeginElementWithin(BeginBundle, Append(put, << >>))
  PROVE  IInv' /\ Readable'
<1>1. IInv'
  BY BeginBundleKeeps DEF BeginElementWithin
<1>2. /\ open' = Append(open, BundleHeader) /\ put' = Append(put, << >>)
      /\ parts' = parts + 1 /\ balanced' = balanced
  BY DEF BeginElementWithin, BeginBundle
<1>3. PICK n \in Nat, p \in Nat : \E S, ok : Stacked(n, p, S, ok)
  BY StackedIs
<1>4. PICK S, ok : Stacked(n, p, S, ok)
  BY <1>3
<1>5. /\ n \in Nat /\ n >= 1 /\ n = Len(open) /\ n = Len(put)
      /\ p \in Nat /\ p = parts /\ n <= p + 1
      /\ open \in Seq(Seq(Byte)) /\ put \in Seq(Seq(S))
      /\ Levels(open, put, ok, p, n)
      /\ balanced \in BOOLEAN /\ (balanced <=> AllOf(ok, n))
  BY <1>4 DEF Stacked
<1>6. BeginsLevel(open', put', ok, p + 1, n)
  BY <1>2, <1>5, LevelsBegun
<1>7. PICK new : Levels(open', put', new, p + 1, n + 1) /\ (AllOf(new, n + 1) <=> AllOf(ok, n))
  BY <1>6 DEF BeginsLevel
<1>8. Len(open') = n + 1
  <2>1. PICK header \in Seq(Byte) : header = BundleHeader
    BY BundleHeaderType
  <2>2. PICK levels \in Seq(Seq(Byte)) : levels = open /\ Len(levels) = n
    BY <1>5
  <2>3. Len(Append(levels, header)) = Len(levels) + 1
    BY AppendProperties
  <2> QED BY <1>2, <2>1, <2>2, <2>3
<1>9. Len(put') = n + 1 /\ put' \in Seq(Seq(S))
  <2>1. << >> \in Seq(S)
    BY EmptySeq
  <2> QED BY <1>2, <1>5, <2>1, AppendProperties
<1>10. p + 1 \in Nat /\ n + 1 <= (p + 1) + 1
  BY <1>5
<1> QED BY <1>1, <1>2, <1>5, <1>7, <1>8, <1>9, <1>10 DEF Readable

(* Steps that begin no level and finish nothing.                           *)
LEMMA OnePartMore ==
  ASSUME IInv, Readable,
         open' = open, put' = put, balanced' = balanced, parts' \in {parts, parts + 1}
  PROVE  Readable'
<1>1. PICK n \in Nat, p \in Nat : \E S, ok : Stacked(n, p, S, ok)
  BY StackedIs
<1>2. PICK S, ok : Stacked(n, p, S, ok)
  BY <1>1
<1>3. /\ n \in Nat /\ n >= 1 /\ n = Len(open) /\ n = Len(put)
      /\ p \in Nat /\ p = parts /\ n <= p + 1
      /\ open \in Seq(Seq(Byte)) /\ put \in Seq(Seq(S))
      /\ Levels(open, put, ok, p, n)
      /\ balanced \in BOOLEAN /\ (balanced <=> AllOf(ok, n))
  BY <1>2 DEF Stacked
<1>4. Levels(open, put, ok, p + 1, n)
  BY <1>3, LevelsDeeper
<1>5. p + 1 \in Nat /\ n <= (p + 1) + 1
  BY <1>3
<1>6. CASE parts' = parts
  BY <1>3, <1>6 DEF Readable
<1>7. CASE parts' = parts + 1
  BY <1>3, <1>4, <1>5, <1>7 DEF Readable
<1> QED BY <1>6, <1>7

LEMMA BeginMessageReadable ==
  ASSUME IInv, Readable, NEW n \in Addresses, BeginElementWithin(BeginMessage(n), put)
  PROVE  IInv' /\ Readable'
<1>1. IInv'
  BY BeginMessageKeeps DEF BeginElementWithin
<1>2. open' = open /\ put' = put /\ balanced' = balanced /\ parts' = parts + 1
  BY DEF BeginElementWithin, BeginMessage
<1> QED BY <1>1, <1>2, OnePartMore

LEMMA PutReadable ==
  ASSUME IInv, Readable, NEW argument \in Arguments, PutWithin(argument)
  PROVE  IInv' /\ Readable'
<1>1. IInv'
  BY PutKeeps DEF PutWithin
<1>2. open' = open /\ put' = put /\ balanced' = balanced /\ parts' = parts + 1
  BY DEF PutWithin, Put
<1> QED BY <1>1, <1>2, OnePartMore

LEMMA FinishMessageReadable ==
  ASSUME IInv, Readable, FinishMessage
  PROVE  IInv' /\ Readable'
<1>1. IInv'
  BY EndMessageKeeps DEF FinishMessage
<1>2. PICK address \in Nat : address = message.address
  BY DEF FinishMessage, EndMessage, IInv, MessageSoFar
<1>3. PICK arguments \in Seq(Arguments) : arguments = message.arguments
  BY DEF FinishMessage, EndMessage, IInv, MessageSoFar
<1>4. PICK element : element = MessagePut(address, arguments)
  OBVIOUS
<1>5. PICK e : e = MessageBytes(address, arguments)
  OBVIOUS
<1>6. /\ open' = WithElement(open, e) /\ put' = Finished(put, element)
      /\ parts' = parts /\ balanced' = (balanced /\ ArraysBalanced(arguments))
  BY <1>2, <1>3, <1>4, <1>5 DEF FinishMessage, EndMessage, MessageBytes
<1>7. PICK n \in Nat, p \in Nat : \E T, ok : Stacked(n, p, T, ok)
  BY StackedIs
<1>8. PICK T, ok : Stacked(n, p, T, ok)
  BY <1>7
<1>9. /\ n \in Nat /\ n >= 1 /\ n = Len(open) /\ n = Len(put)
      /\ p \in Nat /\ p = parts /\ n <= p + 1
      /\ open \in Seq(Seq(Byte)) /\ put \in Seq(Seq(T))
      /\ Levels(open, put, ok, p, n)
      /\ balanced \in BOOLEAN /\ (balanced <=> AllOf(ok, n))
  BY <1>8 DEF Stacked
<1>10. PICK S : S = T \cup {element}
  OBVIOUS
<1>11. put \in Seq(Seq(S)) /\ element \in S
  BY <1>9, <1>10, SomeElements
<1>12. PICK okE \in BOOLEAN : okE <=> ArraysBalanced(arguments)
  OBVIOUS
<1>13. IsGood(e)
  BY <1>5, MessageIsGood
<1>14. Followed(Values(e), element, okE, p + 1 - n)
  <2>1. PICK h \in Nat : h = p + 1 - n
    <3>1. p + 1 - n \in Nat
      BY <1>9
    <3> QED BY <3>1
  <2>2. PICK m : m = Values(e)
    OBVIOUS
  <2>3. Followed(m, element, okE, h)
    BY <1>4, <1>5, <1>12, <2>2, MessageFollowed
  <2> QED BY <2>1, <2>2, <2>3
<1>15. /\ Ends(open', put', ok, okE, p, n)
       /\ put' \in Seq(Seq(S)) /\ Len(put') = n
  <2>1. PICK l : l = open'
    OBVIOUS
  <2>2. PICK u : u = put'
    OBVIOUS
  <2>3. PICK levels \in Seq(Seq(Byte)) : levels = open
    BY <1>9
  <2>4. PICK puts \in Seq(Seq(S)) : puts = put
    BY <1>11
  <2>5. l = WithElement(levels, e) /\ u = Finished(puts, element)
    BY <1>6, <2>1, <2>2, <2>3, <2>4
  <2>6. Len(levels) = n /\ Len(puts) = n /\ Levels(levels, puts, ok, p, n)
    BY <1>9, <2>3, <2>4
  <2>7. n >= 1 /\ n <= p + 1
    BY <1>9
  <2>8. Ends(l, u, ok, okE, p, n) /\ u \in Seq(Seq(S)) /\ Len(u) = n
    BY <1>11, <1>13, <1>14, <2>5, <2>6, <2>7, LevelsWithElement
  <2> QED BY <2>1, <2>2, <2>8
<1>16. PICK new : Levels(open', put', new, p, n) /\ (AllOf(new, n) <=> AllOf(ok, n) /\ okE)
  BY <1>15 DEF Ends
<1>17. Len(open') = n
  <2>1. open = [i \in 1..n |-> open[i]]
    BY <1>9, LenProperties
  <2>2. \E w : open' = [open EXCEPT ![n] = w]
    BY <1>6, <1>9 DEF WithElement
  <2>3. DOMAIN open' = 1..n
    BY <2>1, <2>2
  <2>4. open' \in Seq(Seq(Byte))
    BY <1>1 DEF IInv
  <2> QED BY <1>9, <2>3, <2>4, LenProperties
<1>18. balanced' \in BOOLEAN /\ (balanced' <=> AllOf(new, n))
  BY <1>6, <1>9, <1>12, <1>16
<1> QED BY <1>1, <1>6, <1>9, <1>15, <1>16, <1>17, <1>18 DEF Readable

LEMMA FinishBundleReadable ==
  ASSUME IInv, Readable, FinishBundle
  PROVE  IInv' /\ Readable'
<1>1. IInv'
  BY EndBundleKeeps DEF FinishBundle
<1>2. PICK element : element = Bundle(Last(put))
  OBVIOUS
<1>3. /\ open' = WithElement(Front(open), Last(open)) /\ put' = Finished(Front(put), element)
      /\ parts' = parts /\ balanced' = balanced
  BY <1>2 DEF FinishBundle, EndBundle
<1>4. PICK count \in Nat, p \in Nat : \E T, ok : Stacked(count, p, T, ok)
  BY StackedIs
<1>5. PICK T, ok : Stacked(count, p, T, ok)
  BY <1>4
<1>6. /\ count \in Nat /\ count >= 1 /\ count = Len(open) /\ count = Len(put)
      /\ p \in Nat /\ p = parts /\ count <= p + 1
      /\ open \in Seq(Seq(Byte)) /\ put \in Seq(Seq(T))
      /\ Levels(open, put, ok, p, count)
      /\ balanced \in BOOLEAN /\ (balanced <=> AllOf(ok, count))
  BY <1>5 DEF Stacked
<1>7. count > 1
  <2>1. elementSizePtr # NoElement /\ ~messageIsInProgress
    BY DEF FinishBundle, EndBundle, IsBundleInProgress
  <2>2. PICK starts : IsLayout(buffer, messageCursor, elementSizePtr, starts, Contents)
    BY Laid
  <2>3. Len(Contents) > 1
    BY <2>1, <2>2, LayoutDepth
  <2> QED BY <1>6, <2>1, <2>3 DEF Contents
<1>8. PICK n \in Nat : n + 1 = count /\ n >= 1 /\ n <= p
  <2>1. count - 1 \in Nat /\ (count - 1) + 1 = count /\ count - 1 >= 1 /\ count - 1 <= p
    BY <1>6, <1>7
  <2> QED BY <2>1
<1>9. PICK S : S = T \cup {element}
  OBVIOUS
<1>10. put \in Seq(Seq(S)) /\ element \in S
  BY <1>2, <1>6, <1>9, SomeElements
<1>11. n + 1 <= p + 1 /\ n <= p + 1
  BY <1>6, <1>8
<1>12. /\ EndsLevel(open', put', ok, p, n)
       /\ put' \in Seq(Seq(S)) /\ Len(put') = n
  <2>1. PICK outer : outer = open'
    OBVIOUS
  <2>2. PICK putOuter : putOuter = put'
    OBVIOUS
  <2>3. PICK levels \in Seq(Seq(Byte)) : levels = open
    BY <1>6
  <2>4. PICK puts \in Seq(Seq(S)) : puts = put
    BY <1>10
  <2>5. /\ outer = WithElement(Front(levels), Last(levels))
        /\ putOuter = Finished(Front(puts), element)
        /\ element = Bundle(Last(puts))
    BY <1>2, <1>3, <2>1, <2>2, <2>3, <2>4
  <2>6. Len(levels) = n + 1 /\ Len(puts) = n + 1 /\ Levels(levels, puts, ok, p, n + 1)
    BY <1>6, <1>8, <2>3, <2>4
  <2>7. n >= 1 /\ n + 1 <= p + 1
    BY <1>8
  <2>8. EndsLevel(outer, putOuter, ok, p, n) /\ putOuter \in Seq(Seq(S)) /\ Len(putOuter) = n
    BY <1>10, <2>5, <2>6, <2>7, LevelsEnded
  <2> QED BY <2>1, <2>2, <2>8
<1>13. PICK new : Levels(open', put', new, p, n) /\ (AllOf(new, n) <=> AllOf(ok, n + 1))
  BY <1>12 DEF EndsLevel
<1>14. Len(open') = n
  <2>1. PICK l : l = Front(open)
    OBVIOUS
  <2>2. l = SubSeq(open, 1, n) /\ n \in 0..Len(open)
    <3>1. PICK c \in Nat : c = Len(open) /\ c = n + 1
      BY <1>6, <1>8
    <3>2. c - 1 = n /\ n \in 0..c
      BY <3>1
    <3>3. l = SubSeq(open, 1, c - 1)
      BY <2>1, <3>1 DEF Front
    <3> QED BY <3>1, <3>2, <3>3
  <2>3. l \in Seq(Seq(Byte)) /\ Len(l) = n
    BY <1>6, <2>2, PrefixType
  <2>4. l = [i \in 1..n |-> l[i]]
    BY <2>3, LenProperties
  <2>5. \E w : open' = [l EXCEPT ![n] = w]
    BY <1>3, <2>1, <2>3 DEF WithElement
  <2>6. DOMAIN open' = 1..n
    BY <2>4, <2>5
  <2>7. open' \in Seq(Seq(Byte))
    BY <1>1 DEF IInv
  <2> QED BY <1>8, <2>6, <2>7, LenProperties
<1>15. balanced' \in BOOLEAN /\ (balanced' <=> AllOf(new, n))
  BY <1>3, <1>6, <1>8, <1>13
<1> QED BY <1>1, <1>3, <1>6, <1>11, <1>12, <1>13, <1>14, <1>15 DEF Readable

LEMMA RoundTripInvariance == RoundTripSpec => [](IInv /\ Readable)
<1>1. RoundTripInit => IInv /\ Readable
  BY StartsReadable
<1>2. IInv /\ Readable /\ [RoundTripNext]_roundTripVars => (IInv /\ Readable)'
  <2> SUFFICES ASSUME IInv, Readable, [RoundTripNext]_roundTripVars
               PROVE  IInv' /\ Readable'
    OBVIOUS
  <2>1. CASE ClearAll
    BY <2>1, ClearAllKeeps
  <2>2. CASE BeginElementWithin(BeginBundle, Append(put, << >>))
    BY <2>2, BeginBundleReadable
  <2>3. ASSUME NEW n \in Addresses, BeginElementWithin(BeginMessage(n), put)
        PROVE  IInv' /\ Readable'
    BY <2>3, BeginMessageReadable
  <2>4. CASE FinishBundle
    BY <2>4, FinishBundleReadable
  <2>5. CASE FinishMessage
    BY <2>5, FinishMessageReadable
  <2>6. ASSUME NEW argument \in Arguments, PutWithin(argument) PROVE IInv' /\ Readable'
    BY <2>6, PutReadable
  <2>7. CASE UNCHANGED roundTripVars
    <3>1. UNCHANGED vars /\ put' = put /\ balanced' = balanced /\ parts' = parts
      BY <2>7 DEF roundTripVars
    <3>2. open' = open
      BY <3>1 DEF vars
    <3>3. IInv'
      BY <3>1, Unchanged
    <3> QED BY <3>1, <3>2, <3>3, OnePartMore
  <2> QED BY <2>1, <2>2, <2>3, <2>4, <2>5, <2>6, <2>7 DEF RoundTripNext
<1> QED BY <1>1, <1>2, PTL DEF RoundTripSpec

(* Whatever calls built it, for buffers of any size, arguments of all      *)
(* kinds and bundles in bundles, a finished packet is accepted by          *)
(* TryValidatePacket exactly if the arrays in its messages are balanced,   *)
(* and iterating over it yields what was put into it.                      *)
THEOREM ReadsBackWhatWasPut == RoundTripSpec => []ReadBack
<1>1. IInv /\ Readable => ReadBack
  <2> SUFFICES ASSUME IInv, Readable, IsReady, ~Stray, Len(put[1]) = 1,
                      Len(buffer) <= Reader!OSC_BUNDLE_ELEMENT_SIZE_MAX,
                      parts <= MAX_BUNDLE_NESTING_DEPTH
               PROVE  /\ Reader!TryValidatePacket(Data, MAX_BUNDLE_NESTING_DEPTH) <=> balanced
                      /\ balanced => Read(Data, MAX_BUNDLE_NESTING_DEPTH) = put[1][1]
    BY DEF ReadBack
  <2>1. Len(open) = 1 /\ buffer = open[1]
    BY ReadyIsEncoding DEF PacketIsEncoding
  <2>2. PICK n \in Nat, p \in Nat : \E S, ok : Stacked(n, p, S, ok)
    BY StackedIs
  <2>3. PICK S, ok : Stacked(n, p, S, ok)
    BY <2>2
  <2>4. /\ Levels(open, put, ok, p, 1) /\ p \in Nat /\ p = parts
        /\ balanced \in BOOLEAN /\ (balanced <=> AllOf(ok, 1))
    BY <2>1, <2>3 DEF Stacked
  <2>5. p + 1 - 1 = p /\ 1 \in 1..1 /\ \A i \in 1..1 : i = 1
    BY <2>4
  <2>6. LevelIs(1, open[1], put[1], ok[1], p) /\ ok[1] \in BOOLEAN
    BY <2>4, <2>5 DEF Levels
  <2>7. IsGood(buffer) /\ Followed(Data, put[1][1], ok[1], p)
    BY <2>1, <2>6 DEF LevelIs, Outermost, Data
  <2>8. Len(Data) = Len(buffer)
    BY <2>7, ValuesAre DEF Data
  <2>9. PICK d \in Nat : d = MAX_BUNDLE_NESTING_DEPTH
    BY DEF MAX_BUNDLE_NESTING_DEPTH
  <2>10. d >= p
    BY <2>4, <2>9
  <2>11. FollowedTo(Data, put[1][1], ok[1], d)
    BY <2>7, <2>8, <2>10 DEF Followed
  <2>12. balanced <=> ok[1]
    BY <2>4, <2>5 DEF AllOf
  <2> QED BY <2>9, <2>11, <2>12 DEF FollowedTo
<1> QED BY <1>1, RoundTripInvariance, PTL

=============================================================================
