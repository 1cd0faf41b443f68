------------------------ MODULE OscPacketListenerProofs ------------------------
(***************************************************************************)
(* Proofs about OscPacketListener, for any packets, any limits on nesting  *)
(* and any functions.  What the recursive functions of the model compute   *)
(* follows from the least number at which a claim about them would fail.   *)
(***************************************************************************)
EXTENDS OscPacketListener, SequenceTheorems, WellFoundedInduction, TLAPS

-----------------------------------------------------------------------------
(* The inductive invariant.                                                *)

ContentsOf(elements, depth) ==
  FlattenSeq([ k \in DOMAIN elements |-> Contents(elements[k], depth) ])

(* The guard of each ProcessBundle on the stack has raised the depth by    *)
(* one, and between packets there is none.                                 *)
DepthIsStackHeight ==
  /\ bundleNestingDepth_ = Len(bundles)
  /\ pc = "idle" => bundles = << >> /\ data = Nothing /\ handled = << >>

(* todo[i + 1] is what remains to be dispatched until the i-th of the      *)
(* ProcessBundles on the stack, the outermost first, has returned.         *)
Remaining(todo) ==
  /\ Len(todo) = Len(bundles) + 1
  /\ todo[1] = << >>
  /\ \A i \in 1..Len(bundles) :
       todo[i + 1] = ContentsOf(bundles[i], maxBundleNestingDepth_ - i) \o todo[i]

InHand == IF pc = "message" THEN << message >> ELSE << >>

(* What was dispatched, is in hand and remains is the packet.              *)
NothingSkipped ==
  LET contents == Contents(data, maxBundleNestingDepth_)
  IN  /\ pc = "unwind" => IsPrefix(Dispatched, contents)
      /\ pc \notin {"idle", "unwind"} =>
           \E todo \in Seq(Seq(Seq(Byte))) :
             Remaining(todo) /\ Dispatched \o InHand \o Last(todo) = contents

(* The elements of a packet that was accepted are accepted, and a message  *)
(* that was constructed has been validated.                                *)
ElementsAccepted ==
  TryValidatePacket(data, maxBundleNestingDepth_) =>
    \A i \in 1..Len(bundles) : \A e \in ToSet(bundles[i]) :
      TryValidatePacket(e, maxBundleNestingDepth_ - i)

(* The inductive invariant.                                                *)
IInv ==
  /\ TypeOK
  /\ BoundedRecursion
  /\ DepthIsStackHeight
  /\ NothingSkipped
  /\ ElementsAccepted
  /\ pc = "message" => ValidateMessage(message)
  /\ \A k \in DOMAIN handled : handled[k][2] = FunctionFor(handled[k][1])

-----------------------------------------------------------------------------
(* Lemmas about sequences.                                                 *)

LEMMA FunctionIsSeq ==
  ASSUME NEW S, NEW n \in Nat, NEW f \in [1..n -> S]
  PROVE  /\ f \in Seq(S) /\ Len(f) = n /\ DOMAIN f = 1..n
         /\ \A i \in 1..n : f[i] \in S
<1>1. f \in Seq(S)
  BY SeqDef
<1>2. DOMAIN f = 1..n /\ DOMAIN f = 1..Len(f) /\ Len(f) \in Nat
  BY <1>1, LenProperties
<1> QED BY <1>1, <1>2

(* A set of numbers that is not empty has a least one.                     *)
LEMMA LeastNumber ==
  ASSUME NEW T \in SUBSET Nat, T # {}
  PROVE  \E x \in T : \A y \in T : x <= y
<1> DEFINE R == { p \in Nat \X Nat : p[1] < p[2] }
<1>1. IsWellFoundedOn(R, Nat)
  BY NatLessThanWellFounded DEF OpToRel
<1>2. PICK x \in T : \A y \in T : << y, x >> \notin R
  BY <1>1, WFMin
<1>3. ASSUME NEW y \in T PROVE x <= y
  <2>1. x \in Nat /\ y \in Nat
    OBVIOUS
  <2>2. y < x => << y, x >> \in R
    BY <2>1
  <2> QED BY <1>2, <2>1, <2>2
<1> QED BY <1>3

Associates(s, t, u) == (s \o t) \o u = s \o (t \o u)

LEMMA ConcatAssociates ==
  ASSUME NEW S, NEW s \in Seq(S), NEW t \in Seq(S), NEW u \in Seq(S)
  PROVE  Associates(s, t, u)
  BY ConcatAssociative DEF Associates

(* f joins the sequences of seqs one after the other.                      *)
Joins(f, seqs, n) ==
  \A i \in 1..n : f[i] = IF i = 1 THEN seqs[i] ELSE f[i - 1] \o seqs[i]

LEMMA JoiningExists ==
  ASSUME NEW S, NEW n \in Nat, n # 0, NEW seqs \in [1..n -> Seq(S)]
  PROVE  \E f \in [1..n -> Seq(S)] : Joins(f, seqs, n)
<1> DEFINE None == { j \in 1..n : ~ \E f \in [1..j -> Seq(S)] : Joins(f, seqs, j) }
<1>1. ASSUME None # {} PROVE FALSE
  <2>1. PICK j \in None : \A i \in None : j <= i
    <3>1. None \in SUBSET Nat
      OBVIOUS
    <3> HIDE DEF None
    <3> QED BY <1>1, <3>1, LeastNumber
  <2>2. j \in 1..n /\ ~ \E f \in [1..j -> Seq(S)] : Joins(f, seqs, j)
    OBVIOUS
  <2>3. CASE j = 1
    <3> DEFINE f == [i \in 1..1 |-> seqs[i]]
    <3>1. f \in [1..j -> Seq(S)] /\ Joins(f, seqs, j)
      BY <2>2, <2>3 DEF Joins
    <3> QED BY <2>2, <3>1
  <2>4. CASE j # 1
    <3>1. j - 1 \in 1..n /\ j - 1 \notin None
      <4>1. j - 1 \in 1..n /\ ~(j <= j - 1)
        BY <2>2, <2>4
      <4> QED BY <2>1, <4>1
    <3>2. PICK g \in [1..(j - 1) -> Seq(S)] : Joins(g, seqs, j - 1)
      BY <3>1
    <3> DEFINE f == [i \in 1..j |-> IF i = j THEN g[j - 1] \o seqs[j] ELSE g[i]]
    <3>3. g[j - 1] \in Seq(S) /\ seqs[j] \in Seq(S)
      BY <2>2, <2>4
    <3>4. g[j - 1] \o seqs[j] \in Seq(S)
      BY <3>3, ConcatProperties, Zenon
    <3>5. f \in [1..j -> Seq(S)]
      <4>1. \A i \in 1..j : i # j => i \in 1..(j - 1)
        BY <2>2
      <4> QED BY <3>4, <4>1
    <3>6. Joins(f, seqs, j)
      <4> SUFFICES ASSUME NEW i \in 1..j
                   PROVE  f[i] = IF i = 1 THEN seqs[i] ELSE f[i - 1] \o seqs[i]
        BY DEF Joins
      <4>1. CASE i = j
        <5>1. j - 1 \in 1..j /\ j - 1 # j
          BY <2>2, <2>4
        <5> QED BY <2>4, <4>1, <5>1
      <4>2. CASE i # j
        <5>1. i \in 1..(j - 1)
          BY <2>2, <4>2
        <5>2. g[i] = IF i = 1 THEN seqs[i] ELSE g[i - 1] \o seqs[i]
          BY <3>2, <5>1 DEF Joins
        <5>3. f[i] = g[i]
          BY <4>2
        <5>4. i # 1 => i - 1 \in 1..j /\ i - 1 # j
          BY <2>2, <5>1
        <5>5. i # 1 => f[i - 1] = g[i - 1]
          BY <5>4
        <5> HIDE DEF f
        <5> QED BY <5>2, <5>3, <5>5
      <4> QED BY <4>1, <4>2
    <3> QED BY <2>2, <3>5, <3>6
  <2> QED BY <2>3, <2>4
<1>2. n \in 1..n /\ n \notin None
  BY <1>1
<1> QED BY <1>2

LEMMA JoiningIsUnique ==
  ASSUME NEW seqs, NEW n \in Nat, NEW f, NEW g, Joins(f, seqs, n), Joins(g, seqs, n)
  PROVE  \A i \in 1..n : f[i] = g[i]
<1> DEFINE Other == { i \in 1..n : f[i] # g[i] }
<1>1. ASSUME Other # {} PROVE FALSE
  <2>1. PICK j \in Other : \A i \in Other : j <= i
    <3>1. Other \in SUBSET Nat
      OBVIOUS
    <3> HIDE DEF Other
    <3> QED BY <1>1, <3>1, LeastNumber
  <2>2. j \in 1..n /\ f[j] # g[j]
    OBVIOUS
  <2>3. /\ f[j] = IF j = 1 THEN seqs[j] ELSE f[j - 1] \o seqs[j]
        /\ g[j] = IF j = 1 THEN seqs[j] ELSE g[j - 1] \o seqs[j]
    BY <2>2 DEF Joins
  <2>4. j # 1 => j - 1 \in 1..n /\ ~(j <= j - 1)
    BY <2>2
  <2>5. j # 1 => f[j - 1] = g[j - 1]
    BY <2>1, <2>4
  <2> QED BY <2>2, <2>3, <2>5
<1> QED BY <1>1

(* What FlattenSeq computes is the last value of any such f.               *)
LEMMA FlattenIsJoining ==
  ASSUME NEW S, NEW seqs \in Seq(Seq(S)), seqs # << >>,
         NEW f, Joins(f, seqs, Len(seqs))
  PROVE  FlattenSeq(seqs) = f[Len(seqs)] /\ FlattenSeq(seqs) \in Seq(S)
<1> DEFINE n == Len(seqs)
           Flatten(g) == [i \in 1..n |-> IF i = 1 THEN seqs[i] ELSE g[i - 1] \o seqs[i]]
           flatten == CHOOSE g : g = Flatten(g)
<1>1. n \in Nat /\ n # 0 /\ seqs \in [1..n -> Seq(S)]
  BY LenProperties, EmptySeq
<1>2. PICK h \in [1..n -> Seq(S)] : Joins(h, seqs, n)
  <2> HIDE DEF n
  <2> QED BY <1>1, JoiningExists
<1>3. h = Flatten(h)
  BY <1>2 DEF Joins
<1>4. flatten = Flatten(flatten)
  BY <1>3
<1>5. FlattenSeq(seqs) = flatten[n]
  BY <1>1 DEF FlattenSeq
<1> HIDE DEF flatten
<1>6. Joins(flatten, seqs, n)
  <2>1. \A i \in 1..n : Flatten(flatten)[i] = IF i = 1 THEN seqs[i] ELSE flatten[i - 1] \o seqs[i]
    OBVIOUS
  <2> HIDE DEF Flatten
  <2> QED BY <1>4, <2>1 DEF Joins
<1>7. n \in 1..n
  BY <1>1
<1> HIDE DEF n
<1>8. flatten[n] = h[n] /\ flatten[n] = f[n]
  <2>1. Joins(f, seqs, n)
    BY DEF n
  <2> QED BY <1>1, <1>2, <1>6, <1>7, <2>1, JoiningIsUnique
<1> QED BY <1>2, <1>5, <1>7, <1>8 DEF n

LEMMA FlattenEmpty == FlattenSeq(<< >>) = << >>
  BY EmptySeq DEF FlattenSeq

LEMMA FlattenType ==
  ASSUME NEW S, NEW seqs \in Seq(Seq(S))
  PROVE  FlattenSeq(seqs) \in Seq(S)
<1>1. CASE seqs = << >>
  BY <1>1, FlattenEmpty, EmptySeq
<1>2. CASE seqs # << >>
  <2>1. Len(seqs) \in Nat /\ Len(seqs) # 0 /\ seqs \in [1..Len(seqs) -> Seq(S)]
    BY <1>2, LenProperties, EmptySeq
  <2>2. PICK f \in [1..Len(seqs) -> Seq(S)] : Joins(f, seqs, Len(seqs))
    BY <2>1, JoiningExists
  <2> QED BY <1>2, <2>2, FlattenIsJoining
<1> QED BY <1>1, <1>2

(* The first of the sequences comes first.                                 *)
LEMMA FlattenCons ==
  ASSUME NEW S, NEW seqs \in Seq(Seq(S)), seqs # << >>
  PROVE  FlattenSeq(seqs) = Head(seqs) \o FlattenSeq(Tail(seqs))
<1> DEFINE n == Len(seqs)
           first == Head(seqs)
           rest == Tail(seqs)
<1>1. /\ n \in Nat /\ n # 0 /\ seqs \in [1..n -> Seq(S)]
      /\ first = seqs[1] /\ first \in Seq(S) /\ rest \in Seq(Seq(S)) /\ Len(rest) = n - 1
      /\ \A i \in 1..(n - 1) : rest[i] = seqs[i + 1]
  <2>1. n \in Nat /\ n # 0 /\ seqs \in [1..n -> Seq(S)]
    BY LenProperties, EmptySeq
  <2>2. first = seqs[1] /\ first \in Seq(S) /\ rest \in Seq(Seq(S))
    BY HeadTailProperties
  <2>3. Len(rest) = n - 1 /\ \A i \in 1..(n - 1) : rest[i] = seqs[i + 1]
    <3>1. Len(rest) = Len(seqs) - 1 /\ \A i \in 1..Len(rest) : rest[i] = seqs[i + 1]
      BY HeadTailProperties
    <3> QED BY <3>1
  <2> QED BY <2>1, <2>2, <2>3
<1> HIDE DEF n, first, rest
<1>2. CASE n = 1
  <2> DEFINE f == [i \in 1..1 |-> first]
  <2>1. Joins(f, seqs, 1)
    BY <1>1 DEF Joins
  <2>2. FlattenSeq(seqs) = f[1]
    <3> HIDE DEF f
    <3> QED BY <1>2, <2>1, FlattenIsJoining DEF n
  <2>3. rest = << >>
    BY <1>1, <1>2, EmptySeq
  <2>4. FlattenSeq(rest) = << >> /\ f[1] = first
    BY <2>3, FlattenEmpty
  <2>5. first \o << >> = first
    BY <1>1, ConcatEmptySeq
  <2> HIDE DEF f
  <2>6. FlattenSeq(seqs) = first \o FlattenSeq(rest)
    BY <2>2, <2>4, <2>5
  <2> QED BY <2>6 DEF first, rest
<1>3. CASE n # 1
  <2>1. rest # << >> /\ n - 1 \in Nat /\ n - 1 # 0
    BY <1>1, <1>3, EmptySeq
  <2>2. PICK g \in [1..(n - 1) -> Seq(S)] : Joins(g, rest, n - 1)
    <3>1. rest \in [1..(n - 1) -> Seq(S)]
      BY <1>1, LenProperties
    <3> QED BY <2>1, <3>1, JoiningExists
  <2>3. FlattenSeq(rest) = g[n - 1]
    BY <1>1, <2>1, <2>2, FlattenIsJoining
  <2> DEFINE f == [i \in 1..n |-> IF i = 1 THEN first ELSE first \o g[i - 1]]
  <2>4. Joins(f, seqs, n)
    <3> SUFFICES ASSUME NEW i \in 1..n, i # 1
                 PROVE  f[i] = f[i - 1] \o seqs[i]
      BY <1>1 DEF Joins
    <3>1. i - 1 \in 1..(n - 1) /\ i - 1 \in 1..n /\ (i - 1) + 1 = i
      BY <1>1
    <3>2. f[i] = first \o g[i - 1] /\ seqs[i] = rest[i - 1] /\ rest[i - 1] \in Seq(S)
      <4>1. f[i] = first \o g[i - 1]
        OBVIOUS
      <4>2. seqs[i] = rest[i - 1]
        BY <1>1, <3>1
      <4>3. seqs[i] \in Seq(S)
        BY <1>1
      <4> QED BY <4>1, <4>2, <4>3
    <3>3. g[i - 1] = IF i - 1 = 1 THEN rest[i - 1] ELSE g[(i - 1) - 1] \o rest[i - 1]
      BY <2>2, <3>1 DEF Joins
    <3>4. CASE i - 1 = 1
      <4>1. f[i - 1] = first
        BY <3>1, <3>4
      <4> HIDE DEF f
      <4> QED BY <3>2, <3>3, <3>4, <4>1
    <3>5. CASE i - 1 # 1
      <4> DEFINE j == (i - 1) - 1
      <4>1. j \in 1..(n - 1)
        BY <1>1, <3>1, <3>5
      <4>2. f[i - 1] = first \o g[j] /\ g[j] \in Seq(S) /\ g[i - 1] = g[j] \o rest[i - 1]
        BY <3>1, <3>3, <3>5, <4>1
      <4> HIDE DEF f, j
      <4>3. Associates(first, g[j], rest[i - 1])
        BY <1>1, <3>2, <4>2, ConcatAssociates
      <4>4. (first \o g[j]) \o rest[i - 1] = first \o (g[j] \o rest[i - 1])
        BY <4>3 DEF Associates
      <4> QED BY <3>2, <4>2, <4>4
    <3> QED BY <3>4, <3>5
  <2>5. FlattenSeq(seqs) = f[n]
    <3> HIDE DEF f
    <3> QED BY <2>4, FlattenIsJoining DEF n
  <2>6. f[n] = first \o g[n - 1]
    <3>1. n \in 1..n
      BY <1>1
    <3> QED BY <1>3, <3>1
  <2> QED BY <2>3, <2>5, <2>6 DEF first, rest
<1> QED BY <1>2, <1>3

LEMMA ConcatType ==
  ASSUME NEW S, NEW s \in Seq(S), NEW t \in Seq(S)
  PROVE  /\ s \o t \in Seq(S)
         /\ Len(s \o t) = Len(s) + Len(t)
         /\ \A k \in 1..Len(s) : (s \o t)[k] = s[k]
         /\ \A k \in 1..Len(t) : (s \o t)[Len(s) + k] = t[k]
<1>1. /\ s \o t \in Seq(S) /\ Len(s \o t) = Len(s) + Len(t)
      /\ \A k \in 1..(Len(s) + Len(t)) :
           (s \o t)[k] = IF k <= Len(s) THEN s[k] ELSE t[k - Len(s)]
  BY ConcatProperties, Zenon
<1>2. Len(s) \in Nat /\ Len(t) \in Nat
  BY LenProperties
<1>3. ASSUME NEW k \in 1..Len(s) PROVE (s \o t)[k] = s[k]
  <2>1. k \in 1..(Len(s) + Len(t)) /\ k <= Len(s)
    BY <1>2
  <2> QED BY <1>1, <2>1
<1>4. ASSUME NEW k \in 1..Len(t) PROVE (s \o t)[Len(s) + k] = t[k]
  <2>1. \A n \in Nat, m \in Nat : \A i \in 1..m :
          n + i \in 1..(n + m) /\ ~(n + i <= n) /\ (n + i) - n = i
    OBVIOUS
  <2>2. Len(s) + k \in 1..(Len(s) + Len(t)) /\ ~(Len(s) + k <= Len(s)) /\ (Len(s) + k) - Len(s) = k
    BY <1>2, <2>1
  <2> QED BY <1>1, <2>2
<1> QED BY <1>1, <1>3, <1>4

(* A set that holds 0 and the successor of what it holds has every number. *)
LEMMA EveryNumber ==
  ASSUME NEW T, 0 \in T, \A n \in Nat : n \in T => n + 1 \in T
  PROVE  \A n \in Nat : n \in T
<1> DEFINE Missing == { n \in Nat : n \notin T }
<1>1. ASSUME Missing # {} PROVE FALSE
  <2>1. PICK j \in Missing : \A i \in Missing : j <= i
    <3>1. Missing \in SUBSET Nat
      OBVIOUS
    <3> HIDE DEF Missing
    <3> QED BY <1>1, <3>1, LeastNumber
  <2>2. j \in Nat /\ j \notin T /\ j # 0
    OBVIOUS
  <2>3. j - 1 \in Nat /\ ~(j <= j - 1) /\ (j - 1) + 1 = j
    BY <2>2
  <2>4. j - 1 \in T
    BY <2>1, <2>3
  <2> QED BY <2>2, <2>3, <2>4
<1> QED BY <1>1

(* h applies G to v, over and over, n times.                               *)
Iterates(h, G, v, n) ==
  /\ h[0] = v
  /\ \A i \in Nat : i < n => h[i + 1] = G[h[i]]

LEMMA IteratesAgree ==
  ASSUME NEW V, NEW v \in V, NEW G \in [V -> V], NEW n \in Nat, NEW m \in Nat,
         NEW h, NEW g, Iterates(h, G, v, n), Iterates(g, G, v, m)
  PROVE  \A i \in Nat : i <= n /\ i <= m => h[i] = g[i]
<1> DEFINE T == { i \in Nat : i <= n /\ i <= m => h[i] = g[i] }
<1>1. 0 \in T
  BY DEF Iterates
<1>2. ASSUME NEW i \in Nat, i \in T PROVE i + 1 \in T
  <2>1. CASE i + 1 <= n /\ i + 1 <= m
    <3>1. i < n /\ i < m /\ i <= n /\ i <= m /\ i + 1 \in Nat
      BY <2>1
    <3>2. h[i] = g[i] /\ h[i + 1] = G[h[i]] /\ g[i + 1] = G[g[i]]
      BY <1>2, <3>1 DEF Iterates
    <3> QED BY <3>1, <3>2
  <2>2. CASE ~(i + 1 <= n /\ i + 1 <= m)
    BY <2>2
  <2> QED BY <2>1, <2>2
<1>3. \A i \in Nat : i \in T
  <2> HIDE DEF T
  <2> QED BY <1>1, <1>2, EveryNumber
<1> QED BY <1>3

LEMMA FiniteIterationExists ==
  ASSUME NEW V, NEW v \in V, NEW G \in [V -> V]
  PROVE  \A n \in Nat : \E h \in [0..n -> V] : Iterates(h, G, v, n)
<1> DEFINE T == { n \in Nat : \E h \in [0..n -> V] : Iterates(h, G, v, n) }
<1>1. 0 \in T
  <2> DEFINE h == [i \in 0..0 |-> v]
  <2>1. h \in [0..0 -> V] /\ h[0] = v
    OBVIOUS
  <2>2. \A i \in Nat : ~(i < 0)
    OBVIOUS
  <2> HIDE DEF h
  <2> QED BY <2>1, <2>2 DEF Iterates
<1>2. ASSUME NEW n \in Nat, n \in T PROVE n + 1 \in T
  <2>1. PICK g \in [0..n -> V] : Iterates(g, G, v, n)
    BY <1>2
  <2> DEFINE h == [i \in 0..(n + 1) |-> IF i = n + 1 THEN G[g[n]] ELSE g[i]]
  <2>2. n \in 0..n /\ n + 1 \in 0..(n + 1) /\ 0 # n + 1 /\ 0 \in 0..(n + 1)
    OBVIOUS
  <2>3. \A i \in 0..(n + 1) : i # n + 1 => i \in 0..n
    OBVIOUS
  <2>4. h \in [0..(n + 1) -> V]
    BY <2>2, <2>3
  <2>5. h[0] = v
    BY <2>1, <2>2 DEF Iterates
  <2>6. ASSUME NEW i \in Nat, i < n + 1 PROVE h[i + 1] = G[h[i]]
    <3>1. i \in 0..(n + 1) /\ i # n + 1 /\ i + 1 \in 0..(n + 1)
      BY <2>6
    <3>2. h[i] = g[i]
      BY <3>1
    <3>3. CASE i = n
      <4>1. h[i + 1] = G[g[n]]
        BY <2>2, <3>3
      <4> HIDE DEF h
      <4> QED BY <3>2, <3>3, <4>1
    <3>4. CASE i # n
      <4>1. i + 1 # n + 1 /\ i < n
        BY <2>6, <3>4
      <4>2. h[i + 1] = g[i + 1]
        BY <3>1, <4>1
      <4>3. g[i + 1] = G[g[i]]
        BY <2>1, <4>1 DEF Iterates
      <4> HIDE DEF h
      <4> QED BY <3>2, <4>2, <4>3
    <3> QED BY <3>3, <3>4
  <2> HIDE DEF h
  <2>7. Iterates(h, G, v, n + 1)
    BY <2>5, <2>6 DEF Iterates
  <2> QED BY <2>4, <2>7
<1> HIDE DEF T
<1>3. \A n \in Nat : n \in T
  BY <1>1, <1>2, EveryNumber
<1> QED BY <1>3 DEF T

IteratesForever(f, G, v) == f[0] = v /\ \A n \in Nat : f[n + 1] = G[f[n]]

(* A function of the numbers can be defined by its next value.             *)
LEMMA IterationExists ==
  ASSUME NEW V, NEW v \in V, NEW G \in [V -> V]
  PROVE  \E f \in [Nat -> V] : IteratesForever(f, G, v)
<1> DEFINE h(n) == CHOOSE h \in [0..n -> V] : Iterates(h, G, v, n)
           f == [n \in Nat |-> h(n)[n]]
<1>1. \A n \in Nat : h(n) \in [0..n -> V] /\ Iterates(h(n), G, v, n)
  BY FiniteIterationExists
<1> HIDE DEF h
<1>2. f \in [Nat -> V]
  <2>1. \A n \in Nat : n \in 0..n
    OBVIOUS
  <2> QED BY <1>1, <2>1
<1>3. f[0] = v
  BY <1>1 DEF Iterates
<1>4. ASSUME NEW n \in Nat PROVE f[n + 1] = G[f[n]]
  <2>1. n + 1 \in Nat /\ n < n + 1 /\ n <= n /\ n <= n + 1
    OBVIOUS
  <2>2. f[n + 1] = h(n + 1)[n + 1] /\ f[n] = h(n)[n]
    BY <2>1
  <2>3. Iterates(h(n + 1), G, v, n + 1) /\ Iterates(h(n), G, v, n)
    BY <1>1, <2>1
  <2>4. h(n + 1)[n + 1] = G[h(n + 1)[n]]
    BY <2>1, <2>3 DEF Iterates
  <2>5. h(n + 1)[n] = h(n)[n]
    BY <2>1, <2>3, IteratesAgree
  <2> HIDE DEF f
  <2> QED BY <2>2, <2>4, <2>5
<1> HIDE DEF f
<1>5. IteratesForever(f, G, v)
  BY <1>3, <1>4 DEF IteratesForever
<1> QED BY <1>2, <1>5

-----------------------------------------------------------------------------
(* The elements of a bundle.                                               *)

Places(m) == [p : 16..Len(m), elementCount_ : Nat]

LEMMA PassElementType ==
  ASSUME NEW m \in Seq(Byte), NEW b \in Places(m)
  PROVE  PassElement(m, b) \in Places(m)
<1> DEFINE p == b.p
           size == ToInt32(m, p)
           fits == p + 4 <= Len(m) /\ IsMultipleOf4(size) /\ size \in 0..(Len(m) - (p + 4))
           passed == [p |-> p + 4 + size, elementCount_ |-> b.elementCount_ + 1]
<1>1. p \in 16..Len(m) /\ b.elementCount_ \in Nat /\ Len(m) \in Nat
  BY LenProperties DEF Places
<1>2. PassElement(m, b) = IF fits THEN passed ELSE b
  BY DEF PassElement
<1> HIDE DEF p, size
<1>3. fits => passed \in Places(m)
  <2>1. fits => p + 4 + size \in 16..Len(m)
    BY <1>1
  <2>2. b.elementCount_ + 1 \in Nat
    BY <1>1
  <2> QED BY <2>1, <2>2 DEF Places
<1> HIDE DEF fits, passed
<1> QED BY <1>2, <1>3

LEMMA RoundsType ==
  ASSUME NEW m \in Seq(Byte), Len(m) >= 16
  PROVE  Rounds(m) \in [Nat -> Places(m)]
<1> DEFINE start == [p |-> 16, elementCount_ |-> 0]
           Round(g) == [n \in Nat |-> IF n = 0 THEN start ELSE PassElement(m, g[n - 1])]
           round == CHOOSE g : g = Round(g)
           G == [b \in Places(m) |-> PassElement(m, b)]
<1>1. start \in Places(m)
  BY LenProperties DEF Places
<1>2. G \in [Places(m) -> Places(m)]
  BY PassElementType
<1>3. Rounds(m) = round
  BY DEF Rounds
<1> HIDE DEF start
<1>4. PICK f \in [Nat -> Places(m)] : f[0] = start /\ \A n \in Nat : f[n + 1] = G[f[n]]
  <2> HIDE DEF G, Round, round
  <2>1. \E f \in [Nat -> Places(m)] : IteratesForever(f, G, start)
    BY <1>1, <1>2, IterationExists
  <2> QED BY <2>1 DEF IteratesForever
<1>5. f = Round(f)
  <2>1. ASSUME NEW n \in Nat PROVE f[n] = Round(f)[n]
    <3>1. CASE n = 0
      BY <1>4, <3>1
    <3>2. CASE n # 0
      <4>1. n - 1 \in Nat /\ (n - 1) + 1 = n
        BY <3>2
      <4>2. f[n] = G[f[n - 1]] /\ f[n - 1] \in Places(m)
        BY <1>4, <4>1
      <4> QED BY <3>2, <4>2
    <3> QED BY <3>1, <3>2
  <2> QED BY <2>1
<1>6. round = Round(round)
  BY <1>5
<1> HIDE DEF round
<1>7. /\ round[0] = start
      /\ \A n \in Nat : round[n + 1] = PassElement(m, round[n])
  <2>1. /\ Round(round)[0] = start
        /\ \A n \in Nat : Round(round)[n + 1] = PassElement(m, round[(n + 1) - 1])
    OBVIOUS
  <2>2. \A n \in Nat : (n + 1) - 1 = n
    OBVIOUS
  <2> HIDE DEF Round
  <2> QED BY <1>6, <2>1, <2>2
<1>8. round = [n \in Nat |-> round[n]]
  <2>1. DOMAIN Round(round) = Nat /\ Round(round) = [n \in Nat |-> Round(round)[n]]
    OBVIOUS
  <2> HIDE DEF Round
  <2> QED BY <1>6, <2>1
<1>9. \A n \in Nat : round[n] \in Places(m)
  <2> DEFINE T == { n \in Nat : round[n] \in Places(m) }
  <2>1. 0 \in T
    BY <1>1, <1>7
  <2>2. ASSUME NEW n \in Nat, n \in T PROVE n + 1 \in T
    <3>1. round[n] \in Places(m)
      BY <2>2
    <3>2. \A b \in Places(m) : PassElement(m, b) \in Places(m)
      BY PassElementType
    <3>3. PICK b \in Places(m) : b = round[n]
      BY <3>1
    <3>4. PassElement(m, b) \in Places(m)
      BY <3>2
    <3>5. round[n + 1] = PassElement(m, b)
      BY <1>7, <3>3
    <3> QED BY <3>4, <3>5
  <2> HIDE DEF T
  <2>3. \A n \in Nat : n \in T
    BY <2>1, <2>2, EveryNumber
  <2> QED BY <2>3 DEF T
<1> QED BY <1>3, <1>8, <1>9

LEMMA ElementsType ==
  ASSUME NEW m \in Seq(Byte), Len(m) >= 16
  PROVE  Elements(m) \in Seq(Seq(Byte))
<1> DEFINE r == Rounds(m)
           n == LastRound(m).elementCount_
<1>1. r \in [Nat -> Places(m)]
  BY RoundsType
<1> HIDE DEF r
<1>2. \A k \in Nat : r[k].p \in 16..Len(m) /\ r[k].elementCount_ \in Nat
  BY <1>1 DEF Places
<1>3. n \in Nat
  <2>1. Len(m) \in Nat
    BY LenProperties
  <2>2. Len(m) \div 4 \in Nat
    BY <2>1
  <2>3. LastRound(m) = r[Len(m) \div 4]
    BY DEF LastRound, r
  <2> QED BY <1>2, <2>2, <2>3
<1> HIDE DEF n
<1>4. ASSUME NEW k \in 1..n
      PROVE  SubSeq(m, r[k - 1].p + 5, r[k].p) \in Seq(Byte)
  <2>1. k \in Nat /\ k - 1 \in Nat
    BY <1>3
  <2> DEFINE a == r[k - 1].p + 5
             z == r[k].p
  <2>2. a \in Int /\ z \in Int /\ a >= 1 /\ z <= Len(m) /\ Len(m) \in Nat
    BY <1>2, <2>1, LenProperties
  <2>3. \A i \in 1..Len(m) : m[i] \in Byte
    BY ElementOfSeq
  <2> HIDE DEF a, z
  <2>4. \A i \in a..z : m[i] \in Byte
    BY <2>2, <2>3
  <2>5. SubSeq(m, a, z) \in Seq(Byte)
    BY <2>2, <2>4, SubSeqProperties
  <2> QED BY <2>5 DEF a, z
<1>5. Elements(m) = [k \in 1..n |-> SubSeq(m, r[k - 1].p + 5, r[k].p)]
  BY DEF Elements, r, n
<1>6. Elements(m) \in [1..n -> Seq(Byte)]
  BY <1>4, <1>5
<1> QED BY <1>3, <1>6, FunctionIsSeq

-----------------------------------------------------------------------------
(* The messages of a packet.                                               *)

(* What a packet is when nothing in it is visited as an element.           *)
Undivided(m) == ~IsBundle(m) \/ ~ValidateBundle(m)

Each(g, seq) == [ k \in DOMAIN seq |-> g[seq[k]] ]

(* g of each of the elements, one after the other.                         *)
Collected(g, m) == FlattenSeq(Each(g, Elements(m)))

LEMMA DividedElements ==
  ASSUME NEW m \in Seq(Byte), ~Undivided(m)
  PROVE  Elements(m) \in Seq(Seq(Byte))
<1>1. Len(m) >= 16
  BY DEF Undivided, ValidateBundle
<1> QED BY <1>1, ElementsType

(* The contents of each of the elements.                                   *)
LEMMA EachIsSeq ==
  ASSUME NEW elements \in Seq(Seq(Byte)), NEW g \in [Seq(Byte) -> Seq(Seq(Byte))]
  PROVE  Each(g, elements) \in Seq(Seq(Seq(Byte))) /\ Len(Each(g, elements)) = Len(elements)
<1> DEFINE each == [ k \in DOMAIN elements |-> g[elements[k]] ]
<1>1. /\ Len(elements) \in Nat /\ DOMAIN elements = 1..Len(elements)
      /\ \A k \in 1..Len(elements) : elements[k] \in Seq(Byte)
  BY LenProperties, ElementOfSeq
<1>2. each \in [1..Len(elements) -> Seq(Seq(Byte))]
  BY <1>1
<1> HIDE DEF each
<1>3. each \in Seq(Seq(Seq(Byte))) /\ Len(each) = Len(elements)
  BY <1>1, <1>2, FunctionIsSeq
<1> QED BY <1>3 DEF each, Each

LEMMA CollectedType ==
  ASSUME NEW m \in Seq(Byte), ~Undivided(m), NEW g \in [Seq(Byte) -> Seq(Seq(Byte))]
  PROVE  Collected(g, m) \in Seq(Seq(Byte))
<1> DEFINE elements == Elements(m)
           parts == Each(g, elements)
<1>1. elements \in Seq(Seq(Byte))
  BY DividedElements
<1> HIDE DEF elements
<1>2. parts \in Seq(Seq(Seq(Byte)))
  BY <1>1, EachIsSeq
<1>3. Collected(g, m) = FlattenSeq(parts)
  BY DEF Collected, elements
<1> HIDE DEF parts
<1>4. FlattenSeq(parts) \in Seq(Seq(Byte))
  BY <1>2, FlattenType
<1> QED BY <1>3, <1>4

(* What of must be for Contents to be what it says.                        *)
IsContents(of) ==
  /\ \A m \in Seq(Byte), d \in Nat : Contents(m, d) = of[d][m]
  /\ \A d \in Nat : of[d] \in [Seq(Byte) -> Seq(Seq(Byte))]
  /\ \A m \in Seq(Byte), d \in Nat : Undivided(m) => of[d][m] = << m >>
  /\ \A m \in Seq(Byte) : ~Undivided(m) => of[0][m] = << >>
  /\ \A m \in Seq(Byte), d \in Nat : ~Undivided(m) => of[d + 1][m] = Collected(of[d], m)

LEMMA ContentsExist == \E of : IsContents(of)
<1> DEFINE V == [Seq(Byte) -> Seq(Seq(Byte))]
           Body(g) ==
             [ d \in Nat |->
                 [ m \in Seq(Byte) |->
                     IF Undivided(m) THEN << m >>
                     ELSE IF d = 0 THEN << >> ELSE Collected(g[d - 1], m) ] ]
           of == CHOOSE g : g = Body(g)
           outermost == [ m \in Seq(Byte) |-> IF Undivided(m) THEN << m >> ELSE << >> ]
           G == [ g \in V |->
                    [ m \in Seq(Byte) |->
                        IF Undivided(m) THEN << m >> ELSE Collected(g, m) ] ]
<1>1. \A m \in Seq(Byte) : << m >> \in Seq(Seq(Byte))
  OBVIOUS
<1>2. outermost \in V
  BY <1>1, EmptySeq
<1>3. G \in [V -> V]
  BY <1>1, CollectedType
<1>4. \A m, d : Contents(m, d) = of[d][m]
  BY DEF Contents, Undivided, Collected, Each
<1>5. PICK f \in [Nat -> V] : f[0] = outermost /\ \A d \in Nat : f[d + 1] = G[f[d]]
  <2> HIDE DEF V, G, Body, of, outermost
  <2>1. \E f \in [Nat -> V] : IteratesForever(f, G, outermost)
    BY <1>2, <1>3, IterationExists
  <2> QED BY <2>1 DEF IteratesForever
<1>6. f = Body(f)
  <2>1. ASSUME NEW d \in Nat PROVE f[d] = Body(f)[d]
    <3>1. CASE d = 0
      BY <1>5, <3>1
    <3>2. CASE d # 0
      <4>1. d - 1 \in Nat /\ (d - 1) + 1 = d
        BY <3>2
      <4>2. f[d] = G[f[d - 1]] /\ f[d - 1] \in V
        BY <1>5, <4>1
      <4> QED BY <3>2, <4>2
    <3> QED BY <3>1, <3>2
  <2> QED BY <2>1
<1>7. of = Body(of)
  BY <1>6
<1> HIDE DEF of
<1>8. \A d \in Nat :
        of[d] = [ m \in Seq(Byte) |->
                    IF Undivided(m) THEN << m >>
                    ELSE IF d = 0 THEN << >> ELSE Collected(of[d - 1], m) ]
  <2>1. \A d \in Nat :
          Body(of)[d] = [ m \in Seq(Byte) |->
                            IF Undivided(m) THEN << m >>
                            ELSE IF d = 0 THEN << >> ELSE Collected(of[d - 1], m) ]
    OBVIOUS
  <2> HIDE DEF Body
  <2> QED BY <1>7, <2>1
<1>9. of[0] = outermost
  BY <1>8
<1>10. \A d \in Nat :
         of[d + 1] = [ m \in Seq(Byte) |-> IF Undivided(m) THEN << m >> ELSE Collected(of[d], m) ]
  <2> TAKE d \in Nat
  <2>1. d + 1 \in Nat /\ d + 1 # 0 /\ (d + 1) - 1 = d
    OBVIOUS
  <2> QED BY <1>8, <2>1
<1>11. \A d \in Nat : of[d] \in V
  <2> DEFINE T == { d \in Nat : of[d] \in V }
  <2>1. 0 \in T
    BY <1>2, <1>9
  <2>2. ASSUME NEW d \in Nat, d \in T PROVE d + 1 \in T
    <3>1. PICK g \in V : g = of[d]
      BY <2>2
    <3>2. G[g] = [ m \in Seq(Byte) |-> IF Undivided(m) THEN << m >> ELSE Collected(g, m) ]
      OBVIOUS
    <3> HIDE DEF G
    <3>3. G[g] \in V
      BY <1>3
    <3>4. of[d + 1] = [ m \in Seq(Byte) |-> IF Undivided(m) THEN << m >> ELSE Collected(g, m) ]
      BY <1>10, <3>1
    <3>5. of[d + 1] \in V
      BY <3>2, <3>3, <3>4
    <3> QED BY <3>5
  <2> HIDE DEF T
  <2>3. \A d \in Nat : d \in T
    BY <2>1, <2>2, EveryNumber
  <2> QED BY <2>3 DEF T
<1>12. \A m \in Seq(Byte), d \in Nat : Undivided(m) => of[d][m] = << m >>
  BY <1>8
<1>13. \A m \in Seq(Byte) : ~Undivided(m) => of[0][m] = << >>
  BY <1>9
<1>14. \A m \in Seq(Byte), d \in Nat : ~Undivided(m) => of[d + 1][m] = Collected(of[d], m)
  BY <1>10
<1>15. IsContents(of)
  <2> HIDE DEF Body, G, outermost
  <2> QED BY <1>4, <1>11, <1>12, <1>13, <1>14 DEF IsContents
<1> QED BY <1>15

LEMMA ContentsType ==
  ASSUME NEW m \in Seq(Byte), NEW d \in Nat
  PROVE  Contents(m, d) \in Seq(Seq(Byte))
<1>1. PICK of : IsContents(of)
  BY ContentsExist
<1>2. Contents(m, d) = of[d][m] /\ of[d] \in [Seq(Byte) -> Seq(Seq(Byte))]
  BY <1>1 DEF IsContents
<1> QED BY <1>2

LEMMA ContentsUndivided ==
  ASSUME NEW m \in Seq(Byte), NEW d \in Nat, Undivided(m)
  PROVE  Contents(m, d) = << m >>
<1>1. PICK of : IsContents(of)
  BY ContentsExist
<1> QED BY <1>1 DEF IsContents

LEMMA ContentsTooDeep ==
  ASSUME NEW m \in Seq(Byte), ~Undivided(m)
  PROVE  Contents(m, 0) = << >>
<1>1. PICK of : IsContents(of)
  BY ContentsExist
<1> QED BY <1>1 DEF IsContents

LEMMA ContentsOfIsCollected ==
  ASSUME NEW of, IsContents(of), NEW elements \in Seq(Seq(Byte)), NEW d \in Nat
  PROVE  ContentsOf(elements, d) = FlattenSeq(Each(of[d], elements))
<1>1. \A k \in DOMAIN elements : elements[k] \in Seq(Byte)
  BY LenProperties, ElementOfSeq
<1>2. \A k \in DOMAIN elements : Contents(elements[k], d) = of[d][elements[k]]
  BY <1>1 DEF IsContents
<1>3. [ k \in DOMAIN elements |-> Contents(elements[k], d) ] = Each(of[d], elements)
  BY <1>2 DEF Each
<1> QED BY <1>3 DEF ContentsOf

LEMMA ContentsDivided ==
  ASSUME NEW m \in Seq(Byte), NEW d \in Nat, ~Undivided(m)
  PROVE  Contents(m, d + 1) = ContentsOf(Elements(m), d)
<1>1. PICK of : IsContents(of)
  BY ContentsExist
<1>2. Contents(m, d + 1) = of[d + 1][m]
  <2>1. d + 1 \in Nat
    OBVIOUS
  <2>2. \A n \in Nat : Contents(m, n) = of[n][m]
    BY <1>1 DEF IsContents
  <2> QED BY <2>1, <2>2
<1>3. of[d + 1][m] = Collected(of[d], m)
  BY <1>1 DEF IsContents
<1>4. Elements(m) \in Seq(Seq(Byte))
  BY DividedElements
<1>5. ContentsOf(Elements(m), d) = FlattenSeq(Each(of[d], Elements(m)))
  BY <1>1, <1>4, ContentsOfIsCollected
<1> QED BY <1>2, <1>3, <1>5 DEF Collected

LEMMA ContentsOfType ==
  ASSUME NEW elements \in Seq(Seq(Byte)), NEW d \in Nat
  PROVE  ContentsOf(elements, d) \in Seq(Seq(Byte))
<1>1. PICK of : IsContents(of)
  BY ContentsExist
<1>2. of[d] \in [Seq(Byte) -> Seq(Seq(Byte))]
  BY <1>1 DEF IsContents
<1>3. Each(of[d], elements) \in Seq(Seq(Seq(Byte)))
  BY <1>2, EachIsSeq
<1>4. FlattenSeq(Each(of[d], elements)) \in Seq(Seq(Byte))
  BY <1>3, FlattenType
<1> QED BY <1>1, <1>4, ContentsOfIsCollected

LEMMA ContentsOfNone ==
  ASSUME NEW d
  PROVE  ContentsOf(<< >>, d) = << >>
<1>1. DOMAIN << >> = {}
  OBVIOUS
<1>2. [ k \in DOMAIN << >> |-> Contents(<< >>[k], d) ] = << >>
  BY <1>1
<1> QED BY <1>2, FlattenEmpty DEF ContentsOf

(* The contents of the first element come first.                           *)
LEMMA ContentsOfFirst ==
  ASSUME NEW elements \in Seq(Seq(Byte)), NEW d \in Nat, elements # << >>
  PROVE  ContentsOf(elements, d) =
           Contents(Head(elements), d) \o ContentsOf(Tail(elements), d)
<1> DEFINE first == Head(elements)
           rest == Tail(elements)
<1>1. PICK of : IsContents(of)
  BY ContentsExist
<1> DEFINE all == Each(of[d], elements)
           later == Each(of[d], rest)
<1>2. of[d] \in [Seq(Byte) -> Seq(Seq(Byte))]
  BY <1>1 DEF IsContents
<1>3. /\ first = elements[1] /\ first \in Seq(Byte)
      /\ rest \in Seq(Seq(Byte)) /\ Len(rest) = Len(elements) - 1
      /\ \A i \in 1..Len(rest) : rest[i] = elements[i + 1]
  BY HeadTailProperties
<1>4. Len(elements) \in Nat /\ Len(elements) # 0 /\ DOMAIN elements = 1..Len(elements)
  BY LenProperties, EmptySeq
<1> HIDE DEF first, rest
<1>5. DOMAIN rest = 1..Len(rest)
  BY <1>3, LenProperties
<1>6. /\ all \in Seq(Seq(Seq(Byte))) /\ Len(all) = Len(elements)
      /\ later \in Seq(Seq(Seq(Byte))) /\ Len(later) = Len(rest)
  <2>1. PICK g \in [Seq(Byte) -> Seq(Seq(Byte))] : g = of[d]
    BY <1>2
  <2>2. all = Each(g, elements) /\ later = Each(g, rest)
    BY <2>1
  <2> HIDE DEF all, later
  <2>3. Each(g, elements) \in Seq(Seq(Seq(Byte))) /\ Each(g, rest) \in Seq(Seq(Seq(Byte)))
    BY <1>3, EachIsSeq
  <2>4. Len(Each(g, elements)) = Len(elements) /\ Len(Each(g, rest)) = Len(rest)
    BY <1>3, EachIsSeq
  <2> QED BY <2>2, <2>3, <2>4
<1>7. all # << >>
  BY <1>4, <1>6, EmptySeq
<1>8. Head(all) = of[d][first]
  <2>1. all[1] = of[d][elements[1]]
    <3>1. 1 \in DOMAIN elements
      BY <1>4
    <3> QED BY <3>1 DEF Each
  <2> HIDE DEF all
  <2>2. Head(all) = all[1]
    BY <1>6, <1>7, HeadTailProperties
  <2> QED BY <1>3, <2>1, <2>2
<1>9. Tail(all) = later
  <2>1. ASSUME NEW i \in 1..Len(rest) PROVE all[i + 1] = later[i]
    <3>1. i + 1 \in DOMAIN elements /\ i \in DOMAIN rest
      BY <1>3, <1>4, <1>5
    <3>2. all[i + 1] = of[d][elements[i + 1]] /\ later[i] = of[d][rest[i]]
      BY <3>1 DEF Each
    <3> QED BY <1>3, <3>2
  <2> HIDE DEF all, later
  <2>2. /\ Tail(all) \in Seq(Seq(Seq(Byte))) /\ Len(Tail(all)) = Len(all) - 1
        /\ \A i \in 1..Len(Tail(all)) : Tail(all)[i] = all[i + 1]
    BY <1>6, <1>7, HeadTailProperties
  <2>3. Len(Tail(all)) = Len(later)
    BY <1>3, <1>4, <1>6, <2>2
  <2>4. \A i \in 1..Len(Tail(all)) : Tail(all)[i] = later[i]
    BY <1>6, <2>1, <2>2, <2>3
  <2> QED BY <1>6, <2>2, <2>3, <2>4, SeqEqual
<1>10. FlattenSeq(all) = Head(all) \o FlattenSeq(Tail(all))
  <2> HIDE DEF all
  <2> QED BY <1>6, <1>7, FlattenCons
<1>11. ContentsOf(elements, d) = FlattenSeq(all) /\ ContentsOf(rest, d) = FlattenSeq(later)
  BY <1>1, <1>3, ContentsOfIsCollected
<1>12. Contents(first, d) = of[d][first]
  BY <1>1, <1>3 DEF IsContents
<1> HIDE DEF all, later
<1>13. ContentsOf(elements, d) = Contents(first, d) \o ContentsOf(rest, d)
  BY <1>8, <1>9, <1>10, <1>11, <1>12
<1> QED BY <1>13 DEF first, rest

-----------------------------------------------------------------------------
(* The packets that are accepted.                                          *)

(* What valid must be for TryValidatePacket to be what it says.            *)
Acceptable(b, d, elements) ==
  /\ ValidateSizeNoThrow(Len(b))
  /\ IF IsBundle(b)
     THEN ValidateBundle(b) /\ d # 0 /\ \A e \in ToSet(Elements(b)) : e \in elements
     ELSE ValidateMessage(b)

LEMMA ValidationExists ==
  \E valid : \A d \in Nat :
    /\ \A m : TryValidatePacket(m, d) <=> m \in valid[d]
    /\ valid[d] = { b \in Seq(Byte) : Acceptable(b, d, valid[d - 1]) }
<1> DEFINE V == SUBSET Seq(Byte)
           Body(g) == [ d \in Nat |-> { b \in Seq(Byte) : Acceptable(b, d, g[d - 1]) } ]
           valid == CHOOSE g : g = Body(g)
           outermost == { b \in Seq(Byte) : Acceptable(b, 0, {}) }
           G == [ elements \in V |-> { b \in Seq(Byte) : Acceptable(b, 1, elements) } ]
<1>1. outermost \in V /\ G \in [V -> V]
  OBVIOUS
<1>2. \A m, d : TryValidatePacket(m, d) <=> m \in valid[d]
  BY DEF TryValidatePacket, Acceptable
<1>3. PICK f \in [Nat -> V] : f[0] = outermost /\ \A d \in Nat : f[d + 1] = G[f[d]]
  <2> HIDE DEF V, G, Body, valid, outermost
  <2>1. \E f \in [Nat -> V] : IteratesForever(f, G, outermost)
    BY <1>1, IterationExists
  <2> QED BY <2>1 DEF IteratesForever
<1>4. f = Body(f)
  <2>1. ASSUME NEW d \in Nat PROVE f[d] = Body(f)[d]
    <3>1. CASE d = 0
      <4>1. \A b : Acceptable(b, 0, {}) <=> Acceptable(b, d, f[d - 1])
        BY <3>1 DEF Acceptable
      <4> QED BY <1>3, <3>1, <4>1
    <3>2. CASE d # 0
      <4>1. d - 1 \in Nat /\ (d - 1) + 1 = d
        BY <3>2
      <4>2. f[d] = G[f[d - 1]] /\ f[d - 1] \in V
        BY <1>3, <4>1
      <4>3. \A b : Acceptable(b, 1, f[d - 1]) <=> Acceptable(b, d, f[d - 1])
        BY <3>2 DEF Acceptable
      <4> QED BY <4>2, <4>3
    <3> QED BY <3>1, <3>2
  <2> QED BY <2>1
<1>5. valid = Body(valid)
  BY <1>4
<1> HIDE DEF valid
<1>6. \A d \in Nat : valid[d] = { b \in Seq(Byte) : Acceptable(b, d, valid[d - 1]) }
  <2>1. \A d \in Nat : Body(valid)[d] = { b \in Seq(Byte) : Acceptable(b, d, valid[d - 1]) }
    OBVIOUS
  <2> HIDE DEF Body
  <2> QED BY <1>5, <2>1
<1> QED BY <1>2, <1>6

LEMMA AcceptedMessage ==
  ASSUME NEW m, NEW d \in Nat, TryValidatePacket(m, d), ~IsBundle(m)
  PROVE  ValidateSizeNoThrow(Len(m)) /\ ValidateMessage(m)
<1>1. PICK valid : \A n \in Nat :
        /\ \A b : TryValidatePacket(b, n) <=> b \in valid[n]
        /\ valid[n] = { b \in Seq(Byte) : Acceptable(b, n, valid[n - 1]) }
  BY ValidationExists
<1>2. Acceptable(m, d, valid[d - 1])
  BY <1>1
<1> QED BY <1>2 DEF Acceptable

LEMMA AcceptedBundle ==
  ASSUME NEW m, NEW d \in Nat, TryValidatePacket(m, d), IsBundle(m)
  PROVE  /\ ValidateSizeNoThrow(Len(m)) /\ ValidateBundle(m) /\ d # 0
         /\ \A e \in ToSet(Elements(m)) : TryValidatePacket(e, d - 1)
<1>1. PICK valid : \A n \in Nat :
        /\ \A b : TryValidatePacket(b, n) <=> b \in valid[n]
        /\ valid[n] = { b \in Seq(Byte) : Acceptable(b, n, valid[n - 1]) }
  BY ValidationExists
<1>2. Acceptable(m, d, valid[d - 1])
  BY <1>1
<1>3. /\ ValidateSizeNoThrow(Len(m)) /\ ValidateBundle(m) /\ d # 0
      /\ \A e \in ToSet(Elements(m)) : e \in valid[d - 1]
  BY <1>2 DEF Acceptable
<1>4. d - 1 \in Nat
  BY <1>3
<1> QED BY <1>1, <1>3, <1>4

-----------------------------------------------------------------------------
(* Stacks of what the calls of ProcessBundle have left to visit.           *)

Stacks == Seq(Seq(Seq(Byte)))

LEMMA AppendStack ==
  ASSUME NEW stack \in Stacks, NEW top \in Seq(Seq(Byte))
  PROVE  /\ Append(stack, top) \in Stacks
         /\ Len(Append(stack, top)) = Len(stack) + 1
         /\ \A i \in 1..Len(stack) : Append(stack, top)[i] = stack[i]
         /\ Append(stack, top)[Len(stack) + 1] = top
<1>1. /\ Append(stack, top) \in Stacks
      /\ Len(Append(stack, top)) = Len(stack) + 1
      /\ \A i \in 1..Len(stack) : Append(stack, top)[i] = stack[i]
      /\ Append(stack, top)[Len(stack) + 1] = top
  BY AppendProperties DEF Stacks
<1> QED BY <1>1

LEMMA FrontStack ==
  ASSUME NEW stack \in Stacks, stack # << >>
  PROVE  /\ Front(stack) \in Stacks
         /\ Len(Front(stack)) = Len(stack) - 1
         /\ \A i \in 1..(Len(stack) - 1) : Front(stack)[i] = stack[i]
<1> DEFINE n == Len(stack) - 1
<1>1. Len(stack) \in Nat /\ Len(stack) # 0 /\ n \in Nat
  BY LenProperties, EmptySeq DEF Stacks
<1>2. \A i \in 1..n : stack[i] \in Seq(Seq(Byte))
  <2>1. \A i \in 1..Len(stack) : stack[i] \in Seq(Seq(Byte))
    BY ElementOfSeq DEF Stacks
  <2> QED BY <1>1, <2>1
<1>3. Front(stack) = SubSeq(stack, 1, n)
  BY DEF Front
<1> HIDE DEF n
<1>4. /\ SubSeq(stack, 1, n) \in Stacks
      /\ Len(SubSeq(stack, 1, n)) = IF 1 <= n THEN n - 1 + 1 ELSE 0
      /\ \A i \in 1..(n - 1 + 1) : SubSeq(stack, 1, n)[i] = stack[1 + i - 1]
  BY <1>1, <1>2, SubSeqProperties DEF Stacks
<1>5. Len(SubSeq(stack, 1, n)) = n
  BY <1>1, <1>4
<1>6. \A i \in 1..n : SubSeq(stack, 1, n)[i] = stack[i]
  <2>1. \A i \in 1..n : i \in 1..(n - 1 + 1) /\ 1 + i - 1 = i
    BY <1>1
  <2> QED BY <1>4, <2>1
<1> QED BY <1>3, <1>4, <1>5, <1>6 DEF n

LEMMA ReplaceTop ==
  ASSUME NEW stack \in Stacks, stack # << >>, NEW top \in Seq(Seq(Byte))
  PROVE  /\ [stack EXCEPT ![Len(stack)] = top] \in Stacks
         /\ Len([stack EXCEPT ![Len(stack)] = top]) = Len(stack)
         /\ [stack EXCEPT ![Len(stack)] = top][Len(stack)] = top
         /\ \A i \in 1..Len(stack) :
              i # Len(stack) => [stack EXCEPT ![Len(stack)] = top][i] = stack[i]
<1> DEFINE n == Len(stack)
           new == [stack EXCEPT ![n] = top]
<1>1. n \in Nat /\ n # 0 /\ n \in 1..n /\ stack \in [1..n -> Seq(Seq(Byte))]
  BY LenProperties, EmptySeq DEF Stacks
<1> HIDE DEF n
<1>2. /\ new \in [1..n -> Seq(Seq(Byte))]
      /\ new[n] = top
      /\ \A i \in 1..n : i # n => new[i] = stack[i]
  BY <1>1
<1> HIDE DEF new
<1>3. new \in Stacks /\ Len(new) = n
  BY <1>1, <1>2, FunctionIsSeq DEF Stacks
<1> QED BY <1>2, <1>3 DEF new, n

(* Remaining, of any stack.                                                *)
RemainingOf(stack, todo, max) ==
  /\ Len(todo) = Len(stack) + 1
  /\ todo[1] = << >>
  /\ \A i \in 1..Len(stack) : todo[i + 1] = ContentsOf(stack[i], max - i) \o todo[i]

(* rest is what remains once the stack is taken into account.              *)
Remains(stack, max, rest) ==
  \E todo \in Stacks : RemainingOf(stack, todo, max) /\ Last(todo) = rest

(* The last of them is a sequence of messages.                             *)
LEMMA LastType ==
  ASSUME NEW stack \in Stacks, stack # << >>
  PROVE  Last(stack) \in Seq(Seq(Byte)) /\ Last(stack) = stack[Len(stack)]
<1>1. Len(stack) \in 1..Len(stack)
  BY LenProperties, EmptySeq DEF Stacks
<1>2. stack[Len(stack)] \in Seq(Seq(Byte))
  BY <1>1, ElementOfSeq DEF Stacks
<1> QED BY <1>2 DEF Last

LEMMA NothingRemains ==
  ASSUME NEW max
  PROVE  Remains(<< >>, max, << >>)
<1>1. << << >> >> \in Stacks
  BY DEF Stacks
<1>2. RemainingOf(<< >>, << << >> >>, max)
  BY DEF RemainingOf
<1>3. Last(<< << >> >>) = << >>
  BY DEF Last
<1> QED BY <1>1, <1>2, <1>3 DEF Remains

LEMMA NoStackNoRest ==
  ASSUME NEW max, NEW rest, Remains(<< >>, max, rest)
  PROVE  rest = << >>
<1>1. PICK todo \in Stacks : RemainingOf(<< >>, todo, max) /\ Last(todo) = rest
  BY DEF Remains
<1>2. Len(todo) = 1 /\ todo[1] = << >>
  BY <1>1 DEF RemainingOf
<1> QED BY <1>1, <1>2 DEF Last

LEMMA RemainsType ==
  ASSUME NEW stack \in Stacks, NEW max, NEW rest, Remains(stack, max, rest)
  PROVE  rest \in Seq(Seq(Byte))
<1>1. PICK todo \in Stacks : RemainingOf(stack, todo, max) /\ Last(todo) = rest
  BY DEF Remains
<1>2. Len(stack) \in Nat /\ Len(todo) = Len(stack) + 1
  BY <1>1, LenProperties DEF RemainingOf, Stacks
<1>3. todo # << >>
  BY <1>2, EmptySeq
<1> QED BY <1>1, <1>3, LastType

(* A bundle is entered.                                                    *)
LEMMA RemainsAppend ==
  ASSUME NEW stack \in Stacks, NEW max \in Nat, Len(stack) + 1 <= max,
         NEW top \in Seq(Seq(Byte)), NEW rest, Remains(stack, max, rest)
  PROVE  Remains(Append(stack, top), max, ContentsOf(top, max - (Len(stack) + 1)) \o rest)
<1> DEFINE n == Len(stack)
           all == ContentsOf(top, max - (n + 1)) \o rest
<1>1. PICK todo \in Stacks : RemainingOf(stack, todo, max) /\ Last(todo) = rest
  BY DEF Remains
<1>2. n \in Nat /\ Len(todo) = n + 1
  BY <1>1, LenProperties DEF RemainingOf, Stacks
<1>3. max - (n + 1) \in Nat
  BY <1>2
<1>4. rest \in Seq(Seq(Byte)) /\ ContentsOf(top, max - (n + 1)) \in Seq(Seq(Byte))
  <2> HIDE DEF n
  <2> QED BY <1>3, RemainsType, ContentsOfType
<1>5. all \in Seq(Seq(Byte))
  <2> HIDE DEF n
  <2> QED BY <1>4, ConcatType
<1> DEFINE more == Append(todo, all)
           grown == Append(stack, top)
<1>6. /\ grown \in Stacks /\ Len(grown) = n + 1 /\ grown[n + 1] = top
      /\ \A i \in 1..n : grown[i] = stack[i]
  BY AppendStack
<1>7. /\ more \in Stacks /\ Len(more) = (n + 1) + 1 /\ more[(n + 1) + 1] = all
      /\ \A i \in 1..(n + 1) : more[i] = todo[i]
  <2> HIDE DEF all
  <2> QED BY <1>2, <1>5, AppendStack
<1> HIDE DEF more, grown
<1>8. todo[n + 1] = rest
  BY <1>1, <1>2 DEF Last
<1>9. ASSUME NEW i \in 1..(n + 1)
      PROVE  more[i + 1] = ContentsOf(grown[i], max - i) \o more[i]
  <2>1. CASE i = n + 1
    <3>1. i \in 1..(n + 1)
      OBVIOUS
    <3>2. more[i + 1] = all /\ grown[i] = top /\ more[i] = rest
      BY <1>6, <1>7, <1>8, <2>1, <3>1
    <3> QED BY <2>1, <3>2
  <2>2. CASE i # n + 1
    <3>1. i \in 1..n /\ i + 1 \in 1..(n + 1)
      BY <1>2, <2>2
    <3>2. todo[i + 1] = ContentsOf(stack[i], max - i) \o todo[i]
      BY <1>1, <3>1 DEF RemainingOf
    <3>3. more[i + 1] = todo[i + 1] /\ more[i] = todo[i] /\ grown[i] = stack[i]
      BY <1>6, <1>7, <3>1
    <3> QED BY <3>2, <3>3
  <2> QED BY <2>1, <2>2
<1>10. RemainingOf(grown, more, max)
  <2>1. 1 \in 1..(n + 1) /\ todo[1] = << >>
    BY <1>1, <1>2 DEF RemainingOf
  <2>2. more[1] = << >>
    BY <1>7, <2>1
  <2> QED BY <1>6, <1>7, <1>9, <2>2 DEF RemainingOf
<1>11. Last(more) = all
  BY <1>7 DEF Last
<1>12. Remains(grown, max, all)
  <2> HIDE DEF all
  <2> QED BY <1>7, <1>10, <1>11 DEF Remains
<1> QED BY <1>12 DEF grown, all

(* A bundle is left after its last element.                                *)
LEMMA RemainsFront ==
  ASSUME NEW stack \in Stacks, stack # << >>, Last(stack) = << >>,
         NEW max \in Nat, NEW rest, Remains(stack, max, rest)
  PROVE  Remains(Front(stack), max, rest)
<1> DEFINE n == Len(stack)
           less == Front(stack)
<1>1. PICK todo \in Stacks : RemainingOf(stack, todo, max) /\ Last(todo) = rest
  BY DEF Remains
<1> DEFINE fewer == Front(todo)
<1>2. n \in Nat /\ n # 0 /\ n \in 1..n /\ Len(todo) = n + 1 /\ todo # << >>
  BY <1>1, LenProperties, EmptySeq DEF RemainingOf, Stacks
<1>3. less \in Stacks /\ Len(less) = n - 1 /\ \A i \in 1..(n - 1) : less[i] = stack[i]
  BY FrontStack
<1>4. fewer \in Stacks /\ Len(fewer) = (n + 1) - 1 /\ \A i \in 1..((n + 1) - 1) : fewer[i] = todo[i]
  <2> HIDE DEF n
  <2> QED BY <1>2, FrontStack
<1> HIDE DEF less, fewer
<1>5. Len(fewer) = n /\ \A i \in 1..n : fewer[i] = todo[i]
  BY <1>2, <1>4
<1>6. todo[n + 1] = todo[n]
  <2>1. todo[n + 1] = ContentsOf(stack[n], max - n) \o todo[n]
    BY <1>1, <1>2 DEF RemainingOf
  <2>2. stack[n] = << >>
    BY DEF Last
  <2>3. todo[n] \in Seq(Seq(Byte))
    <3>1. n \in 1..Len(todo)
      BY <1>2
    <3> QED BY <3>1, ElementOfSeq DEF Stacks
  <2>4. << >> \o todo[n] = todo[n]
    BY <2>3, ConcatEmptySeq
  <2> QED BY <2>1, <2>2, <2>4, ContentsOfNone
<1>7. Last(fewer) = rest
  BY <1>1, <1>2, <1>5, <1>6 DEF Last
<1>8. RemainingOf(less, fewer, max)
  <2>1. fewer[1] = << >>
    <3>1. 1 \in 1..n
      BY <1>2
    <3> QED BY <1>1, <1>5, <3>1 DEF RemainingOf
  <2>2. ASSUME NEW i \in 1..(n - 1)
        PROVE  fewer[i + 1] = ContentsOf(less[i], max - i) \o fewer[i]
    <3>1. i \in 1..n /\ i + 1 \in 1..n
      BY <1>2
    <3>2. todo[i + 1] = ContentsOf(stack[i], max - i) \o todo[i]
      BY <1>1, <3>1 DEF RemainingOf
    <3> QED BY <1>3, <1>5, <3>1, <3>2
  <2>3. Len(fewer) = Len(less) + 1
    BY <1>2, <1>3, <1>5
  <2> QED BY <1>3, <2>1, <2>2, <2>3 DEF RemainingOf
<1>9. Remains(less, max, rest)
  BY <1>4, <1>7, <1>8 DEF Remains
<1> QED BY <1>9 DEF less

(* Without the first element of the innermost bundle.                      *)
TailOfTop(stack) == [stack EXCEPT ![Len(stack)] = Tail(@)]

LEMMA TailOfTopType ==
  ASSUME NEW stack \in Stacks, stack # << >>, Last(stack) # << >>
  PROVE  /\ Head(Last(stack)) \in Seq(Byte)
         /\ TailOfTop(stack) \in Stacks
         /\ Len(TailOfTop(stack)) = Len(stack)
         /\ TailOfTop(stack)[Len(stack)] = Tail(Last(stack))
         /\ \A i \in 1..Len(stack) : i # Len(stack) => TailOfTop(stack)[i] = stack[i]
<1> DEFINE top == Last(stack)
           rest == Tail(top)
<1>1. top \in Seq(Seq(Byte)) /\ top = stack[Len(stack)]
  BY LastType
<1>2. TailOfTop(stack) = [stack EXCEPT ![Len(stack)] = rest]
  BY <1>1 DEF TailOfTop
<1> HIDE DEF top
<1>3. Head(top) \in Seq(Byte) /\ rest \in Seq(Seq(Byte))
  BY <1>1, HeadTailProperties DEF top
<1> HIDE DEF rest
<1>4. /\ [stack EXCEPT ![Len(stack)] = rest] \in Stacks
      /\ Len([stack EXCEPT ![Len(stack)] = rest]) = Len(stack)
      /\ [stack EXCEPT ![Len(stack)] = rest][Len(stack)] = rest
      /\ \A i \in 1..Len(stack) :
           i # Len(stack) => [stack EXCEPT ![Len(stack)] = rest][i] = stack[i]
  BY <1>3, ReplaceTop
<1> QED BY <1>2, <1>3, <1>4 DEF top, rest

(* The next element of a bundle is visited.                                *)
LEMMA RemainsTail ==
  ASSUME NEW stack \in Stacks, stack # << >>, Last(stack) # << >>,
         NEW max \in Nat, Len(stack) <= max, NEW rest, Remains(stack, max, rest)
  PROVE  \E later \in Seq(Seq(Byte)) :
           /\ rest = Contents(Head(Last(stack)), max - Len(stack)) \o later
           /\ Remains(TailOfTop(stack), max, later)
<1> DEFINE n == Len(stack)
           top == Last(stack)
           first == Contents(Head(top), max - n)
           others == ContentsOf(Tail(top), max - n)
           less == TailOfTop(stack)
<1>1. PICK todo \in Stacks : RemainingOf(stack, todo, max) /\ Last(todo) = rest
  BY DEF Remains
<1>2. /\ n \in Nat /\ n # 0 /\ n \in 1..n /\ Len(todo) = n + 1 /\ todo # << >>
      /\ max - n \in Nat
  BY <1>1, LenProperties, EmptySeq DEF RemainingOf, Stacks
<1>3. /\ Head(top) \in Seq(Byte) /\ less \in Stacks /\ Len(less) = n /\ less[n] = Tail(top)
      /\ \A i \in 1..n : i # n => less[i] = stack[i]
  BY TailOfTopType
<1>4. top \in Seq(Seq(Byte)) /\ top = stack[n]
  BY LastType
<1>5. Tail(top) \in Seq(Seq(Byte))
  BY <1>4, HeadTailProperties
<1> HIDE DEF n, top, less
<1>6. first \in Seq(Seq(Byte)) /\ others \in Seq(Seq(Byte))
  BY <1>2, <1>3, <1>5, ContentsType, ContentsOfType
<1>7. ContentsOf(top, max - n) = first \o others
  BY <1>2, <1>4, ContentsOfFirst DEF top
<1>8. todo[n] \in Seq(Seq(Byte)) /\ todo[n + 1] = (first \o others) \o todo[n]
  <2>1. n \in 1..Len(todo)
    BY <1>2
  <2>2. todo[n] \in Seq(Seq(Byte))
    BY <2>1, ElementOfSeq DEF Stacks
  <2>3. todo[n + 1] = ContentsOf(stack[n], max - n) \o todo[n]
    BY <1>1, <1>2 DEF RemainingOf, n
  <2> HIDE DEF first, others
  <2> QED BY <1>4, <1>7, <2>2, <2>3
<1> HIDE DEF first, others
<1> DEFINE later == others \o todo[n]
<1>9. later \in Seq(Seq(Byte))
  BY <1>6, <1>8, ConcatType
<1>10. (first \o others) \o todo[n] = first \o later
  <2>1. Associates(first, others, todo[n])
    BY <1>6, <1>8, ConcatAssociates
  <2> QED BY <2>1 DEF Associates
<1> DEFINE moved == [todo EXCEPT ![Len(todo)] = later]
<1>11. /\ moved \in Stacks /\ Len(moved) = n + 1 /\ moved[n + 1] = later
       /\ \A i \in 1..(n + 1) : i # n + 1 => moved[i] = todo[i]
  <2> HIDE DEF later
  <2>1. /\ [todo EXCEPT ![Len(todo)] = later] \in Stacks
        /\ Len([todo EXCEPT ![Len(todo)] = later]) = Len(todo)
        /\ [todo EXCEPT ![Len(todo)] = later][Len(todo)] = later
        /\ \A i \in 1..Len(todo) :
             i # Len(todo) => [todo EXCEPT ![Len(todo)] = later][i] = todo[i]
    BY <1>2, <1>9, ReplaceTop
  <2> QED BY <1>2, <2>1
<1> HIDE DEF moved
<1>12. ASSUME NEW i \in 1..n
       PROVE  moved[i + 1] = ContentsOf(less[i], max - i) \o moved[i]
  <2>1. i \in 1..(n + 1) /\ i # n + 1 /\ i + 1 \in 1..(n + 1)
    BY <1>2
  <2>2. moved[i] = todo[i]
    BY <1>11, <2>1
  <2>3. CASE i = n
    BY <1>3, <1>11, <2>2, <2>3 DEF others
  <2>4. CASE i # n
    <3>1. moved[i + 1] = todo[i + 1]
      <4>1. i + 1 # n + 1
        BY <1>2, <2>4
      <4> QED BY <1>11, <2>1, <4>1
    <3>2. todo[i + 1] = ContentsOf(stack[i], max - i) \o todo[i]
      BY <1>1 DEF RemainingOf, n
    <3> QED BY <1>3, <2>2, <2>4, <3>1, <3>2
  <2> QED BY <2>3, <2>4
<1>13. RemainingOf(less, moved, max)
  <2>1. 1 \in 1..(n + 1) /\ 1 # n + 1
    BY <1>2
  <2>2. moved[1] = << >>
    BY <1>1, <1>11, <2>1 DEF RemainingOf
  <2> QED BY <1>3, <1>11, <1>12, <2>2 DEF RemainingOf
<1>14. Last(moved) = later
  BY <1>11 DEF Last
<1> HIDE DEF later
<1>15. Remains(less, max, later)
  BY <1>11, <1>13, <1>14 DEF Remains
<1>16. rest = first \o later
  BY <1>1, <1>2, <1>8, <1>10 DEF Last
<1> QED BY <1>9, <1>15, <1>16 DEF first, less, n, top

-----------------------------------------------------------------------------
(* Elements that are accepted.                                             *)

Accepted(stack, max) ==
  \A i \in 1..Len(stack) : \A e \in ToSet(stack[i]) : TryValidatePacket(e, max - i)

LEMMA AcceptedAppend ==
  ASSUME NEW stack \in Stacks, NEW max \in Nat, Accepted(stack, max),
         NEW top \in Seq(Seq(Byte)),
         \A e \in ToSet(top) : TryValidatePacket(e, max - (Len(stack) + 1))
  PROVE  Accepted(Append(stack, top), max)
<1> DEFINE n == Len(stack)
           grown == Append(stack, top)
<1>1. /\ Len(grown) = n + 1 /\ grown[n + 1] = top
      /\ \A i \in 1..n : grown[i] = stack[i]
  BY AppendStack
<1>2. n \in Nat
  BY LenProperties DEF Stacks
<1> HIDE DEF grown
<1>3. ASSUME NEW i \in 1..(n + 1), NEW e \in ToSet(grown[i])
      PROVE  TryValidatePacket(e, max - i)
  <2>1. CASE i = n + 1
    BY <1>1, <2>1
  <2>2. CASE i # n + 1
    <3>1. i \in 1..n
      BY <1>2, <2>2
    <3>2. e \in ToSet(stack[i])
      BY <1>1, <3>1
    <3> QED BY <3>1, <3>2 DEF Accepted
  <2> QED BY <2>1, <2>2
<1>4. Accepted(grown, max)
  BY <1>1, <1>3 DEF Accepted
<1> QED BY <1>4 DEF grown

LEMMA AcceptedFront ==
  ASSUME NEW stack \in Stacks, stack # << >>, NEW max, Accepted(stack, max)
  PROVE  Accepted(Front(stack), max)
<1>1. /\ Len(Front(stack)) = Len(stack) - 1
      /\ \A i \in 1..(Len(stack) - 1) : Front(stack)[i] = stack[i]
  BY FrontStack
<1>2. \A i \in 1..(Len(stack) - 1) : i \in 1..Len(stack)
  BY LenProperties DEF Stacks
<1> QED BY <1>1, <1>2 DEF Accepted

LEMMA AcceptedTail ==
  ASSUME NEW stack \in Stacks, stack # << >>, Last(stack) # << >>, NEW max, Accepted(stack, max)
  PROVE  /\ TryValidatePacket(Head(Last(stack)), max - Len(stack))
         /\ Accepted(TailOfTop(stack), max)
<1> DEFINE n == Len(stack)
           top == Last(stack)
           less == TailOfTop(stack)
<1>1. /\ Len(less) = n /\ less[n] = Tail(top)
      /\ \A i \in 1..n : i # n => less[i] = stack[i]
  BY TailOfTopType
<1>2. top \in Seq(Seq(Byte)) /\ top = stack[n]
  BY LastType
<1>3. n \in 1..n
  BY LenProperties, EmptySeq DEF Stacks
<1> HIDE DEF less, n, top
<1>4. \A e \in ToSet(top) : TryValidatePacket(e, max - n)
  BY <1>2, <1>3 DEF Accepted, n
<1>5. Head(top) \in ToSet(top) /\ \A e \in ToSet(Tail(top)) : e \in ToSet(top)
  <2>1. /\ Head(top) = top[1] /\ Tail(top) \in Seq(Seq(Byte)) /\ Len(Tail(top)) = Len(top) - 1
        /\ \A i \in 1..Len(Tail(top)) : Tail(top)[i] = top[i + 1]
    BY <1>2, HeadTailProperties DEF top
  <2>2. Len(top) \in Nat /\ Len(top) # 0 /\ DOMAIN top = 1..Len(top)
    BY <1>2, LenProperties, EmptySeq DEF top
  <2>3. DOMAIN Tail(top) = 1..Len(Tail(top))
    BY <2>1, LenProperties
  <2>4. 1 \in DOMAIN top
    BY <2>2
  <2>5. ASSUME NEW i \in DOMAIN Tail(top) PROVE i + 1 \in DOMAIN top /\ Tail(top)[i] = top[i + 1]
    BY <2>1, <2>2, <2>3
  <2> QED BY <2>1, <2>4, <2>5 DEF ToSet
<1>6. TryValidatePacket(Head(top), max - n)
  BY <1>4, <1>5
<1>7. ASSUME NEW i \in 1..n, NEW e \in ToSet(less[i])
      PROVE  TryValidatePacket(e, max - i)
  <2>1. CASE i = n
    BY <1>1, <1>4, <1>5, <2>1
  <2>2. CASE i # n
    BY <1>1, <2>2 DEF Accepted, n
  <2> QED BY <2>1, <2>2
<1>8. Accepted(less, max)
  BY <1>1, <1>7 DEF Accepted
<1> QED BY <1>6, <1>8 DEF less, n, top

-----------------------------------------------------------------------------
(* A packet or an element is visited.                                      *)

(* What was dispatched before, what is in hand and what remains.           *)
Resumed(before, hand, stack, max, contents) ==
  \E rest \in Seq(Seq(Byte)) : Remains(stack, max, rest) /\ (before \o hand) \o rest = contents

LEMMA VisitStep ==
  ASSUME NEW element \in Seq(Byte), NEW rest \in Stacks, NEW max \in Nat,
         NEW before \in Seq(Seq(Byte)), NEW contents, NEW later \in Seq(Seq(Byte)),
         max = maxBundleNestingDepth_, message \in Seq(Byte),
         bundleNestingDepth_ = Len(rest), Len(rest) <= max,
         Remains(rest, max, later),
         (before \o Contents(element, max - Len(rest))) \o later = contents,
         Visit(element, rest)
  PROVE  /\ bundles' \in Stacks /\ message' \in Seq(Byte)
         /\ bundleNestingDepth_' = Len(bundles') /\ Len(bundles') <= max
         /\ pc' \in {"bundle", "message", "unwind"}
         /\ pc' = "message" => ValidateMessage(message')
         /\ pc' # "unwind" => Resumed(before, InHand', bundles', max, contents)
<1> DEFINE n == Len(rest)
           own == Contents(element, max - n)
<1>1. n \in Nat /\ max - n \in Nat
  BY LenProperties DEF Stacks
<1>2. own \in Seq(Seq(Byte))
  <2> HIDE DEF n
  <2> QED BY <1>1, ContentsType
<1>3. before \o << >> = before
  BY ConcatEmptySeq
<1>4. CASE pc' = "unwind" /\ ConstructorThrows(rest)
  BY <1>4 DEF ConstructorThrows
<1>5. CASE ~IsBundle(element) /\ ValidateMessage(element) /\ VisitMessage(element, rest)
  <2>1. pc' = "message" /\ message' = element /\ bundles' = rest
        /\ bundleNestingDepth_' = bundleNestingDepth_
    BY <1>5 DEF VisitMessage
  <2>2. own = << element >>
    <3>1. Undivided(element)
      BY <1>5 DEF Undivided
    <3> HIDE DEF n
    <3> QED BY <1>1, <3>1, ContentsUndivided
  <2>3. InHand' = << element >>
    BY <2>1 DEF InHand
  <2> HIDE DEF own
  <2>4. Resumed(before, InHand', bundles', max, contents)
    BY <2>1, <2>2, <2>3 DEF Resumed, own
  <2> QED BY <1>5, <2>1, <2>4
<1>6. CASE IsBundle(element) /\ ValidateBundle(element) /\ TooDeep /\ IgnoreBundle(rest)
  <2>1. pc' = "bundle" /\ message' = message /\ bundles' = rest
        /\ bundleNestingDepth_' = bundleNestingDepth_
    BY <1>6 DEF IgnoreBundle
  <2>2. max - n = 0
    BY <1>1, <1>6 DEF TooDeep
  <2>3. own = << >>
    <3>1. ~Undivided(element)
      BY <1>6 DEF Undivided
    <3>2. Contents(element, 0) = << >>
      BY <3>1, ContentsTooDeep
    <3> QED BY <2>2, <3>2
  <2>4. InHand' = << >>
    BY <2>1 DEF InHand
  <2> HIDE DEF own
  <2>5. Resumed(before, InHand', bundles', max, contents)
    BY <2>1, <2>3, <2>4 DEF Resumed, own
  <2> QED BY <2>1, <2>5
<1>7. CASE IsBundle(element) /\ ValidateBundle(element) /\ ~TooDeep /\ EnterBundle(element, rest)
  <2> DEFINE d == max - (n + 1)
             elements == Elements(element)
  <2>1. pc' = "bundle" /\ message' = message /\ bundles' = Append(rest, elements)
        /\ bundleNestingDepth_' = bundleNestingDepth_ + 1
    BY <1>7 DEF EnterBundle
  <2>2. d \in Nat /\ d + 1 = max - n /\ n + 1 <= max
    BY <1>1, <1>7 DEF TooDeep
  <2>3. ~Undivided(element)
    BY <1>7 DEF Undivided
  <2>4. elements \in Seq(Seq(Byte))
    BY <2>3, DividedElements
  <2> HIDE DEF elements
  <2>5. own = ContentsOf(elements, d)
    <3> HIDE DEF d
    <3>1. Contents(element, d + 1) = ContentsOf(elements, d)
      BY <2>2, <2>3, ContentsDivided DEF elements
    <3> QED BY <2>2, <3>1
  <2>6. Remains(bundles', max, own \o later)
    <3>1. Remains(Append(rest, elements), max, ContentsOf(elements, max - (Len(rest) + 1)) \o later)
      BY <2>2, <2>4, RemainsAppend
    <3> HIDE DEF own
    <3> QED BY <2>1, <2>5, <3>1
  <2>7. bundles' \in Stacks /\ Len(bundles') = n + 1
    BY <2>1, <2>4, AppendStack
  <2>8. InHand' = << >>
    BY <2>1 DEF InHand
  <2> HIDE DEF own, n, d
  <2>9. (before \o own) \o later = before \o (own \o later)
    <3>1. Associates(before, own, later)
      BY <1>2, ConcatAssociates
    <3> QED BY <3>1 DEF Associates
  <2>10. own \o later \in Seq(Seq(Byte))
    BY <1>2, ConcatType
  <2>11. (before \o InHand') \o (own \o later) = contents
    BY <1>3, <2>8, <2>9 DEF own, n
  <2>12. Resumed(before, InHand', bundles', max, contents)
    BY <2>6, <2>10, <2>11 DEF Resumed
  <2> QED BY <2>1, <2>2, <2>7, <2>12 DEF n
<1>8. \/ pc' = "unwind" /\ ConstructorThrows(rest)
      \/ ~IsBundle(element) /\ ValidateMessage(element) /\ VisitMessage(element, rest)
      \/ IsBundle(element) /\ ValidateBundle(element) /\ TooDeep /\ IgnoreBundle(rest)
      \/ IsBundle(element) /\ ValidateBundle(element) /\ ~TooDeep /\ EnterBundle(element, rest)
  BY DEF Visit, ConstructorThrows
<1> QED BY <1>4, <1>5, <1>6, <1>7, <1>8

(* Neither constructor throws on what is accepted.                         *)
LEMMA VisitAccepted ==
  ASSUME NEW element \in Seq(Byte), NEW rest \in Stacks, NEW max \in Nat,
         Len(rest) <= max, Accepted(rest, max),
         TryValidatePacket(element, max - Len(rest)), Visit(element, rest)
  PROVE  pc' # "unwind" /\ Accepted(bundles', max)
<1> DEFINE d == max - Len(rest)
<1>1. d \in Nat /\ Len(rest) \in Nat
  BY LenProperties DEF Stacks
<1>2. CASE ~IsBundle(element)
  <2>1. ValidateMessage(element)
    BY <1>1, <1>2, AcceptedMessage
  <2> QED BY <1>2, <2>1 DEF Visit, VisitMessage
<1>3. CASE IsBundle(element)
  <2>1. ValidateBundle(element) /\ \A e \in ToSet(Elements(element)) : TryValidatePacket(e, d - 1)
    <3> HIDE DEF d
    <3>1. TryValidatePacket(element, d)
      BY DEF d
    <3> QED BY <1>1, <1>3, <3>1, AcceptedBundle
  <2>2. CASE IgnoreBundle(rest)
    BY <2>2 DEF IgnoreBundle
  <2>3. CASE EnterBundle(element, rest)
    <3>1. Elements(element) \in Seq(Seq(Byte))
      BY <1>3, <2>1, DividedElements DEF Undivided
    <3>2. d - 1 = max - (Len(rest) + 1)
      BY <1>1
    <3>3. \A e \in ToSet(Elements(element)) : TryValidatePacket(e, max - (Len(rest) + 1))
      BY <2>1, <3>2
    <3>4. Accepted(Append(rest, Elements(element)), max)
      BY <3>1, <3>3, AcceptedAppend
    <3> QED BY <2>3, <3>4 DEF EnterBundle
  <2> QED BY <1>3, <2>1, <2>2, <2>3 DEF Visit
<1> QED BY <1>2, <1>3

-----------------------------------------------------------------------------
(* What was dispatched is a beginning of the packet.                       *)

LEMMA PrefixOfConcat ==
  ASSUME NEW s \in Seq(Seq(Byte)), NEW t \in Seq(Seq(Byte))
  PROVE  IsPrefix(s, s \o t)
<1> DEFINE whole == s \o t
           n == Len(s)
<1>1. /\ whole \in Seq(Seq(Byte)) /\ Len(whole) = n + Len(t)
      /\ \A k \in 1..n : whole[k] = s[k]
  BY ConcatType
<1>2. n \in Nat /\ Len(t) \in Nat
  BY LenProperties
<1> HIDE DEF whole
<1>3. SubSeq(s, 1, n) = s
  BY SubSeqFull
<1>4. SubSeq(whole, 1, n) = s
  <2> HIDE DEF n
  <2>1. \A k \in 1..n : s[k] \in Seq(Byte)
    BY ElementOfSeq DEF n
  <2>2. /\ SubSeq(whole, 1, n) \in Seq(Seq(Byte))
        /\ Len(SubSeq(whole, 1, n)) = IF 1 <= n THEN n - 1 + 1 ELSE 0
        /\ \A i \in 1..(n - 1 + 1) : SubSeq(whole, 1, n)[i] = whole[1 + i - 1]
    BY <1>1, <1>2, <2>1, SubSeqProperties
  <2> DEFINE part == SubSeq(whole, 1, n)
  <2>3. Len(part) = n
    BY <1>2, <2>2
  <2>4. \A i \in 1..n : part[i] = s[i]
    <3>1. \A i \in 1..n : i \in 1..(n - 1 + 1) /\ 1 + i - 1 = i
      BY <1>2
    <3> QED BY <1>1, <2>2, <3>1
  <2>5. part \in Seq(Seq(Byte))
    BY <2>2
  <2> HIDE DEF part
  <2>6. part = s
    BY <2>3, <2>4, <2>5, SeqEqual DEF n
  <2> QED BY <2>6 DEF part
<1>5. Len(s) <= Len(whole)
  BY <1>1, <1>2
<1>6. IsPrefix(s, whole)
  BY <1>3, <1>4, <1>5 DEF IsPrefix
<1> QED BY <1>6 DEF whole

LEMMA ResumedIsPrefix ==
  ASSUME NEW before \in Seq(Seq(Byte)), NEW hand \in Seq(Seq(Byte)),
         NEW stack, NEW max, NEW contents, Resumed(before, hand, stack, max, contents)
  PROVE  IsPrefix(before, contents)
<1>1. PICK rest \in Seq(Seq(Byte)) : (before \o hand) \o rest = contents
  BY DEF Resumed
<1>2. Associates(before, hand, rest)
  BY ConcatAssociates
<1>3. hand \o rest \in Seq(Seq(Byte))
  BY ConcatType
<1>4. IsPrefix(before, before \o (hand \o rest))
  BY <1>3, PrefixOfConcat
<1> QED BY <1>1, <1>2, <1>4 DEF Associates

Firsts(pairs) == [ k \in DOMAIN pairs |-> pairs[k][1] ]

LEMMA DispatchedType ==
  ASSUME NEW F, NEW h \in Seq(Seq(Byte) \X F)
  PROVE  Firsts(h) \in Seq(Seq(Byte))
<1> DEFINE each == [ k \in DOMAIN h |-> h[k][1] ]
<1>1. Len(h) \in Nat /\ DOMAIN h = 1..Len(h)
  BY LenProperties
<1>2. \A k \in 1..Len(h) : h[k] \in Seq(Byte) \X F
  BY ElementOfSeq
<1>3. \A k \in 1..Len(h) : h[k][1] \in Seq(Byte)
  BY <1>2
<1>4. each \in [1..Len(h) -> Seq(Byte)]
  BY <1>1, <1>3
<1> HIDE DEF each
<1>5. each \in Seq(Seq(Byte))
  BY <1>1, <1>4, FunctionIsSeq
<1> QED BY <1>5 DEF each, Firsts

LEMMA InvariantResumed ==
  ASSUME TypeOK, NothingSkipped, pc # "idle", pc # "unwind"
  PROVE  Resumed(Dispatched, InHand, bundles, maxBundleNestingDepth_,
                 Contents(data, maxBundleNestingDepth_))
<1>1. PICK todo \in Stacks :
        /\ Remaining(todo)
        /\ (Dispatched \o InHand) \o Last(todo) = Contents(data, maxBundleNestingDepth_)
  BY DEF NothingSkipped, Stacks
<1>2. RemainingOf(bundles, todo, maxBundleNestingDepth_)
  BY <1>1 DEF Remaining, RemainingOf
<1>3. Remains(bundles, maxBundleNestingDepth_, Last(todo))
  BY <1>2 DEF Remains
<1>4. Last(todo) \in Seq(Seq(Byte))
  BY <1>3, RemainsType DEF TypeOK, Stacks
<1> QED BY <1>1, <1>3, <1>4 DEF Resumed

LEMMA ResumedInvariant ==
  ASSUME pc' # "unwind",
         Resumed(Dispatched', InHand', bundles', maxBundleNestingDepth_',
                 Contents(data, maxBundleNestingDepth_)')
  PROVE  NothingSkipped'
<1>1. PICK rest \in Seq(Seq(Byte)) :
        /\ Remains(bundles', maxBundleNestingDepth_', rest)
        /\ (Dispatched' \o InHand') \o rest = Contents(data, maxBundleNestingDepth_)'
  BY DEF Resumed
<1>2. PICK todo \in Stacks :
        RemainingOf(bundles', todo, maxBundleNestingDepth_') /\ Last(todo) = rest
  BY <1>1 DEF Remains
<1>3. Remaining(todo)'
  BY <1>2 DEF Remaining, RemainingOf
<1> QED BY <1>1, <1>2, <1>3 DEF NothingSkipped, Stacks

-----------------------------------------------------------------------------
(* The inductive invariant.                                                *)

(* A visit keeps it, of a packet as of an element.                         *)
LEMMA VisitInvariant ==
  ASSUME IInv, NEW element \in Seq(Byte), NEW rest \in Stacks, NEW later \in Seq(Seq(Byte)),
         Visit(element, rest),
         bundleNestingDepth_ = Len(rest), Len(rest) <= maxBundleNestingDepth_,
         Remains(rest, maxBundleNestingDepth_, later),
         (Dispatched \o Contents(element, maxBundleNestingDepth_ - Len(rest))) \o later
           = Contents(data', maxBundleNestingDepth_),
         TryValidatePacket(data', maxBundleNestingDepth_) =>
           /\ TryValidatePacket(element, maxBundleNestingDepth_ - Len(rest))
           /\ Accepted(rest, maxBundleNestingDepth_),
         data' \in Seq(Byte),
         UNCHANGED << maxBundleNestingDepth_, functions_, handled >>
  PROVE  IInv'
<1> DEFINE contents == Contents(data', maxBundleNestingDepth_)
<1>1. PICK max \in Nat : max = maxBundleNestingDepth_
  BY DEF IInv, TypeOK
<1>2. PICK before \in Seq(Seq(Byte)) : before = Dispatched
  <2>1. Dispatched \in Seq(Seq(Byte))
    BY DispatchedType DEF IInv, TypeOK, Dispatched, Firsts
  <2> QED BY <2>1
<1>3. Dispatched' = before
  BY <1>2 DEF Dispatched
<1>4. message \in Seq(Byte)
  BY DEF IInv, TypeOK
<1>5. PICK whole : whole = contents
  OBVIOUS
<1>6. /\ Len(rest) <= max /\ Remains(rest, max, later)
      /\ (before \o Contents(element, max - Len(rest))) \o later = whole
  BY <1>1, <1>2, <1>5
<1> HIDE DEF contents
<1>7. /\ bundles' \in Stacks /\ message' \in Seq(Byte)
      /\ bundleNestingDepth_' = Len(bundles') /\ Len(bundles') <= max
      /\ pc' \in {"bundle", "message", "unwind"}
      /\ pc' = "message" => ValidateMessage(message')
      /\ pc' # "unwind" => Resumed(before, InHand', bundles', max, whole)
  BY <1>1, <1>4, <1>6, VisitStep
<1>8. TypeOK'
  <2>1. Len(bundles') \in Nat
    BY <1>7, LenProperties DEF Stacks
  <2> QED BY <1>1, <1>7, <2>1 DEF IInv, TypeOK, Stacks
<1>9. BoundedRecursion' /\ DepthIsStackHeight'
  BY <1>1, <1>7 DEF BoundedRecursion, DepthIsStackHeight
<1>10. NothingSkipped'
  <2>1. CASE pc' # "unwind"
    <3>1. Resumed(Dispatched', InHand', bundles', maxBundleNestingDepth_', Contents(data, maxBundleNestingDepth_)')
      BY <1>1, <1>3, <1>5, <1>7, <2>1 DEF contents
    <3> QED BY <2>1, <3>1, ResumedInvariant
  <2>2. CASE pc' = "unwind"
    <3> DEFINE own == Contents(element, max - Len(rest))
    <3>1. own \in Seq(Seq(Byte))
      <4>1. max - Len(rest) \in Nat
        BY <1>6, LenProperties DEF Stacks
      <4> QED BY <4>1, ContentsType
    <3>2. (before \o own) \o later = whole
      BY <1>6
    <3> HIDE DEF own
    <3>3. Resumed(before, own, rest, max, whole)
      BY <1>6, <3>2 DEF Resumed
    <3>4. IsPrefix(before, whole)
      BY <3>1, <3>3, ResumedIsPrefix
    <3>5. IsPrefix(Dispatched', Contents(data, maxBundleNestingDepth_)')
      BY <1>3, <1>5, <3>4 DEF contents
    <3> QED BY <2>2, <3>5 DEF NothingSkipped
  <2> QED BY <2>1, <2>2
<1>11. ElementsAccepted'
  <2> SUFFICES ASSUME TryValidatePacket(data', max) PROVE Accepted(bundles', max)
    BY <1>1 DEF ElementsAccepted, Accepted
  <2>1. TryValidatePacket(element, max - Len(rest)) /\ Accepted(rest, max)
    BY <1>1
  <2> QED BY <1>6, <2>1, VisitAccepted
<1>12. (pc = "message" => ValidateMessage(message))'
  BY <1>7
<1>13. (\A k \in DOMAIN handled : handled[k][2] = FunctionFor(handled[k][1]))'
  BY DEF IInv, FunctionFor
<1> QED BY <1>8, <1>9, <1>10, <1>11, <1>12, <1>13 DEF IInv

LEMMA InitInvariant == Init => IInv
<1> SUFFICES ASSUME Init PROVE IInv
  OBVIOUS
<1> USE DEF Init
<1>1. TypeOK
  BY DepthsAssumption, EmptySeq DEF TypeOK, Nothing
<1>2. BoundedRecursion /\ DepthIsStackHeight
  <2>1. Len(bundles) = 0
    BY EmptySeq
  <2> QED BY <1>1, <2>1 DEF BoundedRecursion, DepthIsStackHeight, TypeOK
<1>3. NothingSkipped
  BY DEF NothingSkipped
<1>4. ElementsAccepted
  BY EmptySeq DEF ElementsAccepted
<1>5. \A k \in DOMAIN handled : handled[k][2] = FunctionFor(handled[k][1])
  <2>1. DOMAIN handled = {}
    OBVIOUS
  <2> QED BY <2>1
<1> QED BY <1>1, <1>2, <1>3, <1>4, <1>5 DEF IInv

(* Between packets there is nothing that could be wrong.                   *)
LEMMA IdleInvariant ==
  ASSUME TypeOK', pc' = "idle", bundleNestingDepth_' = 0,
         bundles' = << >>, data' = Nothing, handled' = << >>
  PROVE  IInv'
<1>1. Len(bundles') = 0
  BY EmptySeq
<1>2. BoundedRecursion' /\ DepthIsStackHeight'
  BY <1>1 DEF BoundedRecursion, DepthIsStackHeight, TypeOK
<1>3. NothingSkipped' /\ ElementsAccepted'
  BY <1>1 DEF NothingSkipped, ElementsAccepted
<1>4. (\A k \in DOMAIN handled : handled[k][2] = FunctionFor(handled[k][1]))'
  <2>1. DOMAIN handled' = {}
    OBVIOUS
  <2> QED BY <2>1
<1> QED BY <1>2, <1>3, <1>4 DEF IInv

LEMMA SetUpInvariant ==
  ASSUME IInv,
         \/ \E depth \in NestingDepths : SetMaxBundleNestingDepth(depth)
         \/ \E address \in AddressPatterns, f \in Functions : RegisterMessageFunction(address, f)
  PROVE  IInv'
<1>1. /\ TypeOK /\ DepthIsStackHeight /\ pc = "idle" /\ pc' = "idle"
      /\ UNCHANGED << bundleNestingDepth_, bundles, message, data, handled >>
  BY DEF IInv, SetMaxBundleNestingDepth, RegisterMessageFunction, limits
<1>2. bundles = << >> /\ data = Nothing /\ handled = << >> /\ bundleNestingDepth_ = 0
  <2>1. bundles = << >> /\ data = Nothing /\ handled = << >> /\ bundleNestingDepth_ = Len(bundles)
    BY <1>1 DEF DepthIsStackHeight
  <2> QED BY <2>1, EmptySeq
<1>3. maxBundleNestingDepth_' \in Nat
  BY <1>1, DepthsAssumption DEF TypeOK, SetMaxBundleNestingDepth, RegisterMessageFunction, limits
<1>4. functions_' \in [AddressPatterns -> Functions \cup {NoFunction}]
  <2>1. functions_ \in [AddressPatterns -> Functions \cup {NoFunction}]
    BY <1>1 DEF TypeOK
  <2>2. CASE \E depth \in NestingDepths : SetMaxBundleNestingDepth(depth)
    BY <2>1, <2>2 DEF SetMaxBundleNestingDepth
  <2>3. CASE \E address \in AddressPatterns, f \in Functions : RegisterMessageFunction(address, f)
    BY <2>1, <2>3 DEF RegisterMessageFunction
  <2> QED BY <2>2, <2>3
<1>5. TypeOK'
  BY <1>1, <1>3, <1>4 DEF TypeOK
<1> QED BY <1>1, <1>2, <1>5, IdleInvariant

LEMMA ProcessPacketInvariant ==
  ASSUME IInv, NEW packet \in Packets, ProcessPacket(packet)
  PROVE  IInv'
<1> DEFINE whole == Contents(packet, maxBundleNestingDepth_)
<1>1. /\ TypeOK /\ pc = "idle" /\ data' = packet /\ packet \in Seq(Byte)
      /\ UNCHANGED << maxBundleNestingDepth_, functions_, handled >>
  BY PacketsAssumption DEF IInv, ProcessPacket
<1>2. bundles = << >> /\ handled = << >> /\ bundleNestingDepth_ = 0
  <2>1. bundles = << >> /\ handled = << >> /\ bundleNestingDepth_ = Len(bundles)
    BY <1>1 DEF IInv, DepthIsStackHeight
  <2> QED BY <2>1, EmptySeq
<1>3. PICK max \in Nat : max = maxBundleNestingDepth_
  BY <1>1 DEF TypeOK
<1>4. whole \in Seq(Seq(Byte))
  BY <1>1, <1>3, ContentsType
<1>5. Dispatched = << >>
  <2>1. DOMAIN handled = {}
    BY <1>2
  <2> QED BY <2>1 DEF Dispatched
<1>6. << >> \in Stacks /\ << >> \in Seq(Seq(Byte)) /\ Len(<< >>) = 0 /\ max - 0 = max
  BY <1>3, EmptySeq DEF Stacks
<1>7. CASE ValidateSizeNoThrow(Len(packet))
  <2>1. Visit(packet, << >>)
    BY <1>2, <1>7 DEF ProcessPacket
  <2>2. bundleNestingDepth_ = Len(<< >>) /\ Len(<< >>) <= maxBundleNestingDepth_
    BY <1>2, <1>3, <1>6
  <2>3. Remains(<< >>, maxBundleNestingDepth_, << >>)
    BY NothingRemains
  <2>4. (Dispatched \o Contents(packet, maxBundleNestingDepth_ - Len(<< >>))) \o << >>
          = Contents(data', maxBundleNestingDepth_)
    <3>1. Contents(packet, maxBundleNestingDepth_ - Len(<< >>)) = whole
      BY <1>3, <1>6
    <3>2. Contents(data', maxBundleNestingDepth_) = whole
      BY <1>1
    <3> HIDE DEF whole
    <3>3. << >> \o whole = whole /\ whole \o << >> = whole
      BY <1>4, ConcatEmptySeq
    <3> QED BY <1>5, <3>1, <3>2, <3>3
  <2>5. TryValidatePacket(data', maxBundleNestingDepth_) =>
          /\ TryValidatePacket(packet, maxBundleNestingDepth_ - Len(<< >>))
          /\ Accepted(<< >>, maxBundleNestingDepth_)
    BY <1>1, <1>3, <1>6 DEF Accepted
  <2> QED BY <1>1, <1>6, <2>1, <2>2, <2>3, <2>4, <2>5, VisitInvariant
<1>8. CASE ~ValidateSizeNoThrow(Len(packet))
  <2>1. /\ pc' = "unwind" /\ bundles' = << >> /\ message' = message
        /\ bundleNestingDepth_' = bundleNestingDepth_
    BY <1>2, <1>8 DEF ProcessPacket, ConstructorThrows
  <2>2. TypeOK'
    BY <1>1, <2>1 DEF TypeOK
  <2>3. Len(bundles') = 0
    BY <2>1, EmptySeq
  <2>4. BoundedRecursion' /\ DepthIsStackHeight'
    BY <1>1, <1>2, <1>3, <2>1, <2>3 DEF BoundedRecursion, DepthIsStackHeight
  <2>5. NothingSkipped'
    <3>1. IsPrefix(<< >>, << >> \o whole)
      BY <1>4, <1>6, PrefixOfConcat
    <3>2. << >> \o whole = whole
      BY <1>4, ConcatEmptySeq
    <3>3. Dispatched' = << >>
      BY <1>1, <1>5 DEF Dispatched
    <3>4. Contents(data, maxBundleNestingDepth_)' = whole
      BY <1>1
    <3> HIDE DEF whole
    <3>5. IsPrefix(Dispatched', Contents(data, maxBundleNestingDepth_)')
      BY <3>1, <3>2, <3>3, <3>4
    <3> QED BY <2>1, <3>5 DEF NothingSkipped
  <2>6. ElementsAccepted'
    BY <2>3 DEF ElementsAccepted
  <2>7. (\A k \in DOMAIN handled : handled[k][2] = FunctionFor(handled[k][1]))'
    BY <1>1 DEF IInv, FunctionFor
  <2> QED BY <2>1, <2>2, <2>4, <2>5, <2>6, <2>7 DEF IInv
<1> QED BY <1>7, <1>8

LEMMA NextElementInvariant ==
  ASSUME IInv, NextElement
  PROVE  IInv'
<1>1. /\ TypeOK /\ pc = "bundle" /\ bundles # << >> /\ Last(bundles) # << >>
      /\ Visit(Head(Last(bundles)), TailOfTop(bundles))
      /\ UNCHANGED << maxBundleNestingDepth_, functions_, data, handled >>
  BY DEF IInv, NextElement, TailOfTop
<1>2. /\ bundles \in Stacks /\ data \in Seq(Byte) /\ maxBundleNestingDepth_ \in Nat
      /\ Len(bundles) <= maxBundleNestingDepth_ /\ bundleNestingDepth_ = Len(bundles)
  BY <1>1 DEF IInv, TypeOK, Stacks, BoundedRecursion, DepthIsStackHeight
<1>3. PICK max \in Nat : max = maxBundleNestingDepth_
  BY <1>2
<1>4. PICK element \in Seq(Byte) : element = Head(Last(bundles))
  BY <1>1, <1>2, TailOfTopType
<1>5. PICK rest \in Stacks : rest = TailOfTop(bundles) /\ Len(rest) = Len(bundles)
  BY <1>1, <1>2, TailOfTopType
<1>6. PICK before \in Seq(Seq(Byte)) : before = Dispatched
  <2>1. Dispatched \in Seq(Seq(Byte))
    BY <1>1, DispatchedType DEF TypeOK, Dispatched, Firsts
  <2> QED BY <2>1
<1>7. PICK remaining \in Seq(Seq(Byte)) :
        /\ Remains(bundles, max, remaining)
        /\ before \o remaining = Contents(data, max)
  <2>1. Resumed(Dispatched, InHand, bundles, max, Contents(data, max))
    BY <1>1, <1>3, InvariantResumed DEF IInv
  <2>2. InHand = << >>
    BY <1>1 DEF InHand
  <2>3. before \o << >> = before
    BY ConcatEmptySeq
  <2> QED BY <1>6, <2>1, <2>2, <2>3 DEF Resumed
<1>8. PICK later \in Seq(Seq(Byte)) :
        /\ remaining = Contents(element, max - Len(rest)) \o later
        /\ Remains(rest, max, later)
  <2>1. Len(bundles) <= max
    BY <1>2, <1>3
  <2>2. \E later \in Seq(Seq(Byte)) :
          /\ remaining = Contents(Head(Last(bundles)), max - Len(bundles)) \o later
          /\ Remains(TailOfTop(bundles), max, later)
    BY <1>1, <1>2, <1>7, <2>1, RemainsTail
  <2> QED BY <1>4, <1>5, <2>2
<1>9. (before \o Contents(element, max - Len(rest))) \o later = Contents(data', max)
  <2> DEFINE own == Contents(element, max - Len(rest))
  <2>1. max - Len(rest) \in Nat
    BY <1>2, <1>3, <1>5, LenProperties DEF Stacks
  <2>2. own \in Seq(Seq(Byte))
    BY <2>1, ContentsType
  <2>3. before \o (own \o later) = Contents(data', max)
    BY <1>1, <1>7, <1>8
  <2> HIDE DEF own
  <2>4. Associates(before, own, later)
    BY <2>2, ConcatAssociates
  <2>5. (before \o own) \o later = Contents(data', max)
    BY <2>3, <2>4 DEF Associates
  <2> QED BY <2>5 DEF own
<1>10. TryValidatePacket(data', max) =>
         TryValidatePacket(element, max - Len(rest)) /\ Accepted(rest, max)
  <2> SUFFICES ASSUME TryValidatePacket(data', max)
               PROVE  TryValidatePacket(element, max - Len(rest)) /\ Accepted(rest, max)
    OBVIOUS
  <2>1. Accepted(bundles, max)
    BY <1>1, <1>3 DEF IInv, ElementsAccepted, Accepted
  <2>2. /\ TryValidatePacket(Head(Last(bundles)), max - Len(bundles))
        /\ Accepted(TailOfTop(bundles), max)
    BY <1>1, <1>2, <2>1, AcceptedTail
  <2> QED BY <1>4, <1>5, <2>2
<1>11. Visit(element, rest)
  BY <1>1, <1>4, <1>5
<1>12. data' \in Seq(Byte)
  BY <1>1, <1>2
<1> QED BY <1>1, <1>2, <1>3, <1>5, <1>6, <1>8, <1>9, <1>10, <1>11, <1>12, VisitInvariant

(* A bundle that is left, by return or by exception.                       *)
LEMMA LeaveInvariant ==
  ASSUME IInv, BundleReturns \/ UnwindBundle
  PROVE  IInv'
<1>1. /\ TypeOK /\ pc \in {"bundle", "unwind"} /\ bundles # << >> /\ bundles' = Front(bundles)
      /\ bundleNestingDepth_' = bundleNestingDepth_ - 1
      /\ UNCHANGED << maxBundleNestingDepth_, functions_, message, pc, data, handled >>
  BY DEF IInv, BundleReturns, UnwindBundle
<1>2. /\ bundles \in Stacks /\ Len(bundles) <= maxBundleNestingDepth_
      /\ bundleNestingDepth_ = Len(bundles)
  BY <1>1 DEF IInv, TypeOK, Stacks, BoundedRecursion, DepthIsStackHeight
<1>3. PICK max \in Nat : max = maxBundleNestingDepth_
  BY <1>1 DEF TypeOK
<1>4. bundles' \in Stacks /\ Len(bundles') = Len(bundles) - 1
  BY <1>1, <1>2, FrontStack
<1>5. Len(bundles') \in Nat /\ Len(bundles) \in Nat
  BY <1>2, <1>4, LenProperties DEF Stacks
<1>6. TypeOK'
  <2>1. bundleNestingDepth_' \in Nat
    BY <1>1, <1>2, <1>4, <1>5
  <2> QED BY <1>1, <1>4, <2>1 DEF TypeOK, Stacks
<1>7. BoundedRecursion' /\ DepthIsStackHeight'
  <2>1. Len(bundles') <= maxBundleNestingDepth_'
    BY <1>1, <1>2, <1>3, <1>4, <1>5
  <2>2. bundleNestingDepth_' = Len(bundles')
    BY <1>1, <1>2, <1>4
  <2> QED BY <1>1, <2>1, <2>2 DEF BoundedRecursion, DepthIsStackHeight
<1>8. Dispatched' = Dispatched /\ InHand' = << >>
  BY <1>1 DEF Dispatched, InHand
<1>9. NothingSkipped'
  <2>1. CASE pc = "unwind"
    <3>1. IsPrefix(Dispatched, Contents(data, maxBundleNestingDepth_))
      BY <2>1 DEF IInv, NothingSkipped
    <3>2. Contents(data, maxBundleNestingDepth_)' = Contents(data, maxBundleNestingDepth_)
      BY <1>1
    <3> QED BY <1>1, <1>8, <2>1, <3>1, <3>2 DEF NothingSkipped
  <2>2. CASE pc = "bundle"
    <3>1. Last(bundles) = << >>
      BY <2>2 DEF BundleReturns, UnwindBundle
    <3>2. Resumed(Dispatched, InHand, bundles, max, Contents(data, max))
      BY <1>1, <1>3, <2>2, InvariantResumed DEF IInv
    <3>3. PICK rest \in Seq(Seq(Byte)) :
            Remains(bundles, max, rest) /\ (Dispatched \o InHand) \o rest = Contents(data, max)
      BY <3>2 DEF Resumed
    <3>4. Remains(bundles', max, rest)
      BY <1>1, <1>2, <3>1, <3>3, RemainsFront
    <3>5. InHand = << >>
      BY <2>2 DEF InHand
    <3>6. Contents(data, maxBundleNestingDepth_)' = Contents(data, max)
      BY <1>1, <1>3
    <3>7. Resumed(Dispatched', InHand', bundles', maxBundleNestingDepth_', Contents(data, maxBundleNestingDepth_)')
      BY <1>1, <1>3, <1>8, <3>3, <3>4, <3>5, <3>6 DEF Resumed
    <3> QED BY <1>1, <2>2, <3>7, ResumedInvariant
  <2> QED BY <1>1, <2>1, <2>2
<1>10. ElementsAccepted'
  <2> SUFFICES ASSUME TryValidatePacket(data, max) PROVE Accepted(bundles', max)
    BY <1>1, <1>3 DEF ElementsAccepted, Accepted
  <2>1. Accepted(bundles, max)
    BY <1>3 DEF IInv, ElementsAccepted, Accepted
  <2> QED BY <1>1, <1>2, <2>1, AcceptedFront
<1>11. (pc = "message" => ValidateMessage(message))'
  BY <1>1
<1>12. (\A k \in DOMAIN handled : handled[k][2] = FunctionFor(handled[k][1]))'
  BY <1>1 DEF IInv, FunctionFor
<1> QED BY <1>6, <1>7, <1>9, <1>10, <1>11, <1>12 DEF IInv

(* more is h with the pair of m and f as its last.                         *)
HandledMore(h, m, f, F, more) ==
  /\ more \in Seq(Seq(Byte) \X F)
  /\ \A k \in DOMAIN more : (k \in DOMAIN h /\ more[k] = h[k]) \/ more[k] = << m, f >>
  /\ Firsts(more) = Firsts(h) \o << m >>

LEMMA AppendHandled ==
  ASSUME NEW F, NEW h \in Seq(Seq(Byte) \X F), NEW m \in Seq(Byte), NEW f \in F
  PROVE  HandledMore(h, m, f, F, Append(h, << m, f >>))
<1> DEFINE new == << m, f >>
           more == Append(h, new)
           n == Len(h)
           before == Firsts(h)
           after == Firsts(more)
           whole == before \o << m >>
<1>1. new \in Seq(Byte) \X F /\ new[1] = m
  OBVIOUS
<1> HIDE DEF new
<1>2. /\ more \in Seq(Seq(Byte) \X F) /\ Len(more) = n + 1
      /\ \A k \in 1..n : more[k] = h[k]
      /\ more[n + 1] = new
  BY <1>1, AppendProperties
<1>3. n \in Nat /\ DOMAIN h = 1..n
  BY LenProperties
<1> HIDE DEF more
<1>4. DOMAIN more = 1..(n + 1)
  BY <1>2, LenProperties
<1>5. ASSUME NEW k \in DOMAIN more
      PROVE  (k \in DOMAIN h /\ more[k] = h[k]) \/ more[k] = new
  <2>1. k \in 1..n \/ k = n + 1
    BY <1>3, <1>4
  <2> QED BY <1>2, <1>3, <2>1
<1>6. before \in Seq(Seq(Byte)) /\ after \in Seq(Seq(Byte)) /\ << m >> \in Seq(Seq(Byte))
  <2>1. Firsts(h) \in Seq(Seq(Byte))
    BY DispatchedType
  <2>2. Firsts(more) \in Seq(Seq(Byte))
    BY <1>2, DispatchedType
  <2>3. << m >> \in Seq(Seq(Byte))
    OBVIOUS
  <2> QED BY <2>1, <2>2, <2>3
<1>7. /\ Len(before) = n /\ \A k \in 1..n : before[k] = h[k][1]
      /\ Len(after) = n + 1 /\ \A k \in 1..(n + 1) : after[k] = more[k][1]
  <2>1. DOMAIN before = 1..n /\ DOMAIN after = 1..(n + 1)
    BY <1>3, <1>4 DEF Firsts
  <2>2. \A k \in 1..n : before[k] = h[k][1]
    BY <1>3 DEF Firsts
  <2>3. \A k \in 1..(n + 1) : after[k] = more[k][1]
    BY <1>4 DEF Firsts
  <2> HIDE DEF before, after
  <2>4. Len(before) = n /\ Len(after) = n + 1
    BY <1>3, <1>6, <2>1, LenProperties
  <2> QED BY <2>2, <2>3, <2>4
<1> HIDE DEF before, after
<1>8. /\ whole \in Seq(Seq(Byte)) /\ Len(whole) = n + 1
      /\ \A k \in 1..n : whole[k] = before[k]
      /\ whole[n + 1] = m
  <2>1. Len(<< m >>) = 1 /\ << m >>[1] = m /\ 1 \in 1..1
    OBVIOUS
  <2>2. /\ whole \in Seq(Seq(Byte)) /\ Len(whole) = Len(before) + Len(<< m >>)
        /\ \A k \in 1..Len(before) : whole[k] = before[k]
        /\ \A k \in 1..Len(<< m >>) : whole[Len(before) + k] = << m >>[k]
    BY <1>6, ConcatType
  <2> HIDE DEF whole
  <2> QED BY <1>7, <2>1, <2>2
<1> HIDE DEF whole
<1>9. \A k \in 1..(n + 1) : after[k] = whole[k]
  <2> SUFFICES ASSUME NEW k \in 1..(n + 1) PROVE after[k] = whole[k]
    OBVIOUS
  <2>1. CASE k = n + 1
    BY <1>1, <1>2, <1>7, <1>8, <2>1
  <2>2. CASE k # n + 1
    <3>1. k \in 1..n
      BY <1>3, <2>2
    <3> QED BY <1>2, <1>7, <1>8, <3>1
  <2> QED BY <2>1, <2>2
<1>10. after = whole
  BY <1>6, <1>7, <1>8, <1>9, SeqEqual
<1> QED BY <1>2, <1>5, <1>10 DEF HandledMore, new, more, after, before, whole

LEMMA ProcessMessageInvariant ==
  ASSUME IInv, ProcessMessage
  PROVE  IInv'
<1> DEFINE f == FunctionFor(message)
           F == Functions \cup {NoFunction}
<1>1. /\ TypeOK /\ pc = "message" /\ pc' \in {"bundle", "function"}
      /\ handled' = Append(handled, << message, f >>) /\ message' = Nothing
      /\ UNCHANGED << bundleNestingDepth_, maxBundleNestingDepth_, functions_, bundles, data >>
  BY DEF IInv, ProcessMessage, limits
<1>2. /\ handled \in Seq(Seq(Byte) \X F) /\ message \in Seq(Byte)
      /\ functions_ \in [AddressPatterns -> F]
  BY <1>1 DEF TypeOK
<1>3. f \in F
  BY <1>2 DEF FunctionFor
<1> HIDE DEF F, f
<1>4. /\ handled' \in Seq(Seq(Byte) \X F)
      /\ \A k \in DOMAIN handled' :
           \/ k \in DOMAIN handled /\ handled'[k] = handled[k]
           \/ handled'[k] = << message, f >>
      /\ Firsts(handled') = Firsts(handled) \o << message >>
  <2>1. HandledMore(handled, message, f, F, Append(handled, << message, f >>))
    BY <1>2, <1>3, AppendHandled
  <2>2. HandledMore(handled, message, f, F, handled')
    BY <1>1, <2>1
  <2> QED BY <2>2 DEF HandledMore
<1>5. TypeOK'
  BY <1>1, <1>4, EmptySeq DEF TypeOK, F, Nothing
<1>6. BoundedRecursion' /\ DepthIsStackHeight'
  BY <1>1 DEF IInv, BoundedRecursion, DepthIsStackHeight
<1>7. NothingSkipped'
  <2>1. Resumed(Dispatched, InHand, bundles, maxBundleNestingDepth_,
                Contents(data, maxBundleNestingDepth_))
    BY <1>1, InvariantResumed DEF IInv
  <2>2. Dispatched' = Dispatched \o InHand /\ InHand' = << >>
    BY <1>1, <1>4 DEF Dispatched, InHand, Firsts
  <2>3. Dispatched' \o << >> = Dispatched'
    <3>1. Firsts(handled') \in Seq(Seq(Byte))
      BY <1>4, DispatchedType
    <3>2. Dispatched' \in Seq(Seq(Byte))
      BY <3>1 DEF Dispatched, Firsts
    <3> QED BY <3>2, ConcatEmptySeq
  <2>4. Contents(data, maxBundleNestingDepth_)' = Contents(data, maxBundleNestingDepth_)
    BY <1>1
  <2>5. Resumed(Dispatched', InHand', bundles', maxBundleNestingDepth_',
                Contents(data, maxBundleNestingDepth_)')
    BY <1>1, <2>1, <2>2, <2>3, <2>4 DEF Resumed
  <2> QED BY <1>1, <2>5, ResumedInvariant
<1>8. ElementsAccepted'
  BY <1>1 DEF IInv, ElementsAccepted
<1>9. (pc = "message" => ValidateMessage(message))'
  BY <1>1
<1>10. (\A k \in DOMAIN handled : handled[k][2] = FunctionFor(handled[k][1]))'
  <2> SUFFICES ASSUME NEW k \in DOMAIN handled'
               PROVE  handled'[k][2] = FunctionFor(handled[k][1])'
    OBVIOUS
  <2>1. CASE k \in DOMAIN handled /\ handled'[k] = handled[k]
    <3>1. handled[k][2] = FunctionFor(handled[k][1])
      BY <2>1 DEF IInv
    <3> QED BY <1>1, <2>1, <3>1 DEF FunctionFor
  <2>2. CASE handled'[k] = << message, f >>
    <3>1. handled'[k][1] = message /\ handled'[k][2] = f
      BY <2>2
    <3> QED BY <1>1, <3>1 DEF f, FunctionFor
  <2> QED BY <1>4, <2>1, <2>2
<1> QED BY <1>5, <1>6, <1>7, <1>8, <1>9, <1>10 DEF IInv

LEMMA FunctionInvariant ==
  ASSUME IInv, FunctionReturns \/ FunctionThrows
  PROVE  IInv'
<1>1. /\ TypeOK /\ pc = "function" /\ pc' \in {"bundle", "unwind"}
      /\ UNCHANGED << bundleNestingDepth_, maxBundleNestingDepth_, functions_, bundles,
                      message, data, handled >>
  BY DEF IInv, FunctionReturns, FunctionThrows, limits
<1>2. TypeOK' /\ BoundedRecursion' /\ DepthIsStackHeight'
  BY <1>1 DEF IInv, TypeOK, BoundedRecursion, DepthIsStackHeight
<1>3. NothingSkipped'
  <2>1. Resumed(Dispatched, InHand, bundles, maxBundleNestingDepth_,
                Contents(data, maxBundleNestingDepth_))
    BY <1>1, InvariantResumed DEF IInv
  <2>2. Dispatched' = Dispatched /\ InHand = << >> /\ InHand' = << >>
    BY <1>1 DEF Dispatched, InHand
  <2>3. Contents(data, maxBundleNestingDepth_)' = Contents(data, maxBundleNestingDepth_)
    BY <1>1
  <2>4. CASE pc' = "bundle"
    <3>1. Resumed(Dispatched', InHand', bundles', maxBundleNestingDepth_',
                  Contents(data, maxBundleNestingDepth_)')
      BY <1>1, <2>1, <2>2, <2>3
    <3> QED BY <2>4, <3>1, ResumedInvariant
  <2>5. CASE pc' = "unwind"
    <3>1. Dispatched \in Seq(Seq(Byte)) /\ InHand \in Seq(Seq(Byte))
      <4>1. Dispatched \in Seq(Seq(Byte))
        BY <1>1, DispatchedType DEF TypeOK, Dispatched, Firsts
      <4> QED BY <2>2, <4>1, EmptySeq
    <3>2. IsPrefix(Dispatched, Contents(data, maxBundleNestingDepth_))
      BY <2>1, <3>1, ResumedIsPrefix
    <3> QED BY <2>2, <2>3, <2>5, <3>2 DEF NothingSkipped
  <2> QED BY <1>1, <2>4, <2>5
<1>4. ElementsAccepted'
  BY <1>1 DEF IInv, ElementsAccepted
<1>5. (pc = "message" => ValidateMessage(message))'
  BY <1>1
<1>6. (\A k \in DOMAIN handled : handled[k][2] = FunctionFor(handled[k][1]))'
  BY <1>1 DEF IInv, FunctionFor
<1> QED BY <1>2, <1>3, <1>4, <1>5, <1>6 DEF IInv

LEMMA PacketDoneInvariant ==
  ASSUME IInv, PacketDone
  PROVE  IInv'
<1>1. /\ TypeOK /\ DepthIsStackHeight /\ bundles = << >> /\ bundles' = << >>
      /\ pc' = "idle" /\ data' = Nothing /\ handled' = << >>
      /\ UNCHANGED << bundleNestingDepth_, maxBundleNestingDepth_, functions_, message >>
  BY DEF IInv, PacketDone, Left, limits
<1>2. TypeOK'
  BY <1>1, EmptySeq DEF TypeOK, Nothing
<1>3. bundleNestingDepth_' = 0
  BY <1>1, EmptySeq DEF DepthIsStackHeight
<1> QED BY <1>1, <1>2, <1>3, IdleInvariant

LEMMA NextInvariant == IInv /\ [Next]_vars => IInv'
<1> SUFFICES ASSUME IInv, [Next]_vars PROVE IInv'
  OBVIOUS
<1>1. CASE \/ \E depth \in NestingDepths : SetMaxBundleNestingDepth(depth)
           \/ \E address \in AddressPatterns, f \in Functions : RegisterMessageFunction(address, f)
  BY <1>1, SetUpInvariant
<1>2. CASE \E packet \in Packets : ProcessPacket(packet)
  BY <1>2, ProcessPacketInvariant
<1>3. CASE NextElement
  BY <1>3, NextElementInvariant
<1>4. CASE BundleReturns \/ UnwindBundle
  BY <1>4, LeaveInvariant
<1>5. CASE ProcessMessage
  BY <1>5, ProcessMessageInvariant
<1>6. CASE FunctionReturns \/ FunctionThrows
  BY <1>6, FunctionInvariant
<1>7. CASE PacketDone
  BY <1>7, PacketDoneInvariant
<1>8. CASE UNCHANGED vars
  <2>1. UNCHANGED << bundleNestingDepth_, maxBundleNestingDepth_, functions_, bundles,
                     message, pc, data, handled >>
    BY <1>8 DEF vars, limits
  <2>2. TypeOK' /\ BoundedRecursion' /\ DepthIsStackHeight' /\ ElementsAccepted'
    BY <2>1 DEF IInv, TypeOK, BoundedRecursion, DepthIsStackHeight, ElementsAccepted
  <2>3. NothingSkipped'
    BY <2>1 DEF IInv, NothingSkipped, Remaining, Dispatched, InHand
  <2>4. (pc = "message" => ValidateMessage(message))'
    BY <2>1 DEF IInv
  <2>5. (\A k \in DOMAIN handled : handled[k][2] = FunctionFor(handled[k][1]))'
    BY <2>1 DEF IInv, FunctionFor
  <2> QED BY <2>2, <2>3, <2>4, <2>5 DEF IInv
<1> QED BY <1>1, <1>2, <1>3, <1>4, <1>5, <1>6, <1>7, <1>8 DEF Next

(* The inductive invariant holds of every execution: the guards on the     *)
(* stack have raised the depth by as much as they will lower it, what was  *)
(* dispatched, is in hand and remains on the stack is the packet, and the  *)
(* elements of an accepted packet are accepted.                            *)
THEOREM Invariance == Spec => []IInv
<1>1. Init => IInv
  BY InitInvariant
<1>2. IInv /\ [Next]_vars => IInv'
  BY NextInvariant
<1> QED BY <1>1, <1>2, PTL DEF Spec

-----------------------------------------------------------------------------
(* What follows.                                                           *)

(* Every variable keeps its type: no packet, limit or exception takes the  *)
(* nesting depth below zero.                                               *)
THEOREM TypeCorrect == Spec => []TypeOK
<1>1. IInv => TypeOK
  BY DEF IInv
<1> QED BY <1>1, Invariance, PTL

(* ProcessBundle recurses no deeper than the limit in force, whatever is   *)
(* nested in the packet and whatever was thrown before.                    *)
THEOREM RecursionIsBounded == Spec => []BoundedRecursion
<1>1. IInv => BoundedRecursion
  BY DEF IInv
<1> QED BY <1>1, Invariance, PTL

(* The messages of a packet are dispatched in its order, each to the       *)
(* function of its address, and all of them when ProcessPacket returns.    *)
THEOREM MessagesAreDispatchedInOrder == Spec => []DispatchesInOrder
<1>1. IInv => DispatchesInOrder
  <2> SUFFICES ASSUME IInv, data # Nothing PROVE DispatchesInOrder
    BY DEF DispatchesInOrder
  <2> DEFINE contents == Contents(data, maxBundleNestingDepth_)
  <2>1. /\ TypeOK /\ pc # "idle"
        /\ \A k \in DOMAIN handled : handled[k][2] = FunctionFor(handled[k][1])
    BY DEF IInv, DepthIsStackHeight
  <2>2. Dispatched \in Seq(Seq(Byte)) /\ InHand \in Seq(Seq(Byte))
    <3>1. Dispatched \in Seq(Seq(Byte))
      BY <2>1, DispatchedType DEF TypeOK, Dispatched, Firsts
    <3>2. message \in Seq(Byte)
      BY <2>1 DEF TypeOK
    <3>3. << message >> \in Seq(Seq(Byte)) /\ << >> \in Seq(Seq(Byte))
      BY <3>2
    <3> QED BY <3>1, <3>3 DEF InHand
  <2> HIDE DEF contents
  <2>3. pc # "unwind" => Resumed(Dispatched, InHand, bundles, maxBundleNestingDepth_, contents)
    BY <2>1, InvariantResumed DEF IInv, contents
  <2>4. IsPrefix(Dispatched, contents)
    <3>1. CASE pc = "unwind"
      BY <3>1 DEF IInv, NothingSkipped, contents
    <3>2. CASE pc # "unwind"
      BY <2>2, <2>3, <3>2, ResumedIsPrefix
    <3> QED BY <3>1, <3>2
  <2>5. ASSUME Left, pc = "bundle" PROVE Dispatched = contents
    <3>1. PICK rest \in Seq(Seq(Byte)) :
            /\ Remains(bundles, maxBundleNestingDepth_, rest)
            /\ (Dispatched \o InHand) \o rest = contents
      BY <2>3, <2>5 DEF Resumed
    <3>2. rest = << >>
      BY <2>5, <3>1, NoStackNoRest DEF Left
    <3>3. InHand = << >>
      BY <2>5 DEF InHand
    <3>4. Dispatched \o << >> = Dispatched
      BY <2>2, ConcatEmptySeq
    <3> QED BY <3>1, <3>2, <3>3, <3>4
  <2> QED BY <2>1, <2>4, <2>5 DEF DispatchesInOrder, contents
<1> QED BY <1>1, Invariance, PTL

(* While a packet that TryValidatePacket accepts is taken apart, only the  *)
(* application's functions throw: whatever the validation let through,     *)
(* each constructor the dispatch then calls accepts.                       *)
THEOREM AcceptedPacketsDoNotThrow == Spec => ValidatedPacketsDoNotThrow
<1> DEFINE Throws ==
      /\ pc' = "unwind" /\ TryValidatePacket(data', maxBundleNestingDepth_)
      /\ pc \notin {"function", "unwind"}
<1>1. ASSUME IInv, [Next]_vars, Throws PROVE UNCHANGED vars
  <2>1. PICK max \in Nat : max = maxBundleNestingDepth_
    BY <1>1 DEF IInv, TypeOK
  <2>2. CASE \E packet \in Packets : ProcessPacket(packet)
    <3>1. PICK packet \in Packets : ProcessPacket(packet)
      BY <2>2
    <3>2. pc = "idle" /\ data' = packet /\ packet \in Seq(Byte)
      BY <3>1, PacketsAssumption DEF ProcessPacket
    <3>3. bundles = << >>
      BY <1>1, <3>2 DEF IInv, DepthIsStackHeight
    <3>4. TryValidatePacket(packet, max)
      BY <1>1, <2>1, <3>2
    <3>5. ValidateSizeNoThrow(Len(packet))
      BY <2>1, <3>4, AcceptedMessage, AcceptedBundle
    <3>6. Visit(packet, << >>)
      BY <3>1, <3>3, <3>5 DEF ProcessPacket
    <3>7. << >> \in Stacks /\ Len(<< >>) = 0 /\ max - Len(<< >>) = max
      BY <2>1, EmptySeq DEF Stacks
    <3>8. Len(<< >>) <= max /\ Accepted(<< >>, max) /\ TryValidatePacket(packet, max - Len(<< >>))
      BY <2>1, <3>4, <3>7 DEF Accepted
    <3>9. pc' # "unwind"
      BY <2>1, <3>2, <3>6, <3>7, <3>8, VisitAccepted
    <3> QED BY <1>1, <3>9
  <2>3. CASE NextElement
    <3>1. /\ bundles # << >> /\ Last(bundles) # << >> /\ data' = data
          /\ Visit(Head(Last(bundles)), TailOfTop(bundles))
      BY <2>3 DEF NextElement, TailOfTop
    <3>2. bundles \in Stacks /\ Len(bundles) <= max
      BY <1>1, <2>1 DEF IInv, TypeOK, Stacks, BoundedRecursion
    <3>3. Accepted(bundles, max)
      BY <1>1, <2>1, <3>1 DEF IInv, ElementsAccepted, Accepted
    <3>4. PICK element \in Seq(Byte), rest \in Stacks :
            /\ element = Head(Last(bundles))
            /\ rest = TailOfTop(bundles) /\ Len(rest) = Len(bundles)
      BY <3>1, <3>2, TailOfTopType
    <3>5. TryValidatePacket(element, max - Len(rest)) /\ Accepted(rest, max)
      BY <3>1, <3>2, <3>3, <3>4, AcceptedTail
    <3>6. Visit(element, rest) /\ Len(rest) <= max
      BY <3>1, <3>2, <3>4
    <3>7. pc' # "unwind"
      BY <3>5, <3>6, VisitAccepted
    <3> QED BY <1>1, <3>7
  <2>4. CASE \/ \E depth \in NestingDepths : SetMaxBundleNestingDepth(depth)
             \/ \E address \in AddressPatterns, f \in Functions : RegisterMessageFunction(address, f)
             \/ ProcessMessage \/ PacketDone
    BY <1>1, <2>4 DEF SetMaxBundleNestingDepth, RegisterMessageFunction, ProcessMessage, PacketDone
  <2>5. CASE BundleReturns \/ UnwindBundle
    BY <1>1, <2>5 DEF BundleReturns, UnwindBundle
  <2>6. CASE FunctionReturns \/ FunctionThrows
    BY <1>1, <2>6 DEF FunctionReturns, FunctionThrows
  <2> QED BY <1>1, <2>2, <2>3, <2>4, <2>5, <2>6 DEF Next
<1>2. IInv /\ [Next]_vars =>
        [pc' = "unwind" /\ TryValidatePacket(data', maxBundleNestingDepth_)
           => pc \in {"function", "unwind"}]_vars
  BY <1>1
<1> QED BY <1>2, Invariance, PTL DEF Spec, ValidatedPacketsDoNotThrow

-----------------------------------------------------------------------------
(* Strings and the other arguments of a message.                           *)

(* Min is the number it should be.                                         *)
LEMMA MinIs ==
  ASSUME NEW T \in SUBSET Nat, NEW x \in T, \A y \in T : x <= y
  PROVE  Min(T) = x
<1>1. Min(T) \in T /\ \A y \in T : Min(T) <= y
  BY DEF Min
<1>2. Min(T) \in Nat /\ x \in Nat /\ Min(T) <= x /\ x <= Min(T)
  BY <1>1
<1> QED BY <1>2

LEMMA MinExists ==
  ASSUME NEW T \in SUBSET Nat, T # {}
  PROVE  Min(T) \in T /\ \A y \in T : Min(T) <= y
<1>1. PICK x \in T : \A y \in T : x <= y
  BY LeastNumber
<1>2. Min(T) = x
  BY <1>1, MinIs
<1> QED BY <1>1, <1>2

(* The word boundaries of a message, those between two words and at the    *)
(* ends.                                                                   *)
Boundaries(m) == { p \in 0..Len(m) : p % 4 = 0 }

LEMMA NextBoundary ==
  ASSUME NEW l \in Nat, l % 4 = 0, NEW p \in 0..l, p % 4 = 0, p < l
  PROVE  p + 4 <= l /\ (p + 4) % 4 = 0
OBVIOUS

(* Where a string may end: on a boundary behind a null in it.              *)
LEMMA Str4EndsAre ==
  ASSUME NEW m \in Seq(Byte), Len(m) % 4 = 0, NEW p \in Boundaries(m), p < Len(m)
  PROVE  /\ Str4Ends(m, p) \in SUBSET Nat
         /\ \A q \in Str4Ends(m, p) :
              /\ q \in Boundaries(m) /\ p + 4 <= q
              /\ \E z \in p..(q - 1) : At(m, z) = 0
<1>1. p \in 0..Len(m) /\ p % 4 = 0 /\ Len(m) \in Nat
  BY LenProperties DEF Boundaries
<1>2. ASSUME NEW q \in Str4Ends(m, p)
      PROVE  /\ q \in Boundaries(m) /\ p + 4 <= q
             /\ \E z \in p..(q - 1) : At(m, z) = 0
  <2>1. CASE At(m, p) = 0
    <3>1. q = p + 4
      BY <1>2, <2>1 DEF Str4Ends
    <3>2. p + 4 <= Len(m) /\ (p + 4) % 4 = 0
      BY <1>1, NextBoundary
    <3>3. q \in 0..Len(m) /\ q % 4 = 0 /\ p + 4 <= q /\ p \in p..(q - 1)
      BY <1>1, <3>1, <3>2
    <3> QED BY <2>1, <3>3 DEF Boundaries
  <2>2. CASE At(m, p) # 0
    <3>1. q \in (p + 4)..Len(m) /\ (q - p) % 4 = 0 /\ At(m, q - 1) = 0
      BY <1>2, <2>2 DEF Str4Ends
    <3>2. q \in 0..Len(m) /\ p + 4 <= q /\ q - 1 \in p..(q - 1)
      BY <1>1, <3>1
    <3>3. q % 4 = 0
      BY <1>1, <3>1
    <3> QED BY <3>1, <3>2, <3>3 DEF Boundaries
  <2> QED BY <2>1, <2>2
<1>3. \A q \in Str4Ends(m, p) : q \in Nat
  <2>1. \A q \in Boundaries(m) : q \in Nat
    BY <1>1 DEF Boundaries
  <2> QED BY <1>2, <2>1
<1> QED BY <1>2, <1>3

(* FindStr4End stays inside, and without an end it finds the same.         *)
LEMMA FindStr4EndIs ==
  ASSUME NEW m \in Seq(Byte), Len(m) % 4 = 0, NEW p \in Boundaries(m),
         FindStr4End(m, p) # NULL
  PROVE  /\ FindStr4End(m, p) \in Boundaries(m)
         /\ p + 4 <= FindStr4End(m, p)
         /\ FindStr4EndUnchecked(m, p) = FindStr4End(m, p)
         /\ \E z \in p..(FindStr4End(m, p) - 1) : At(m, z) = 0
<1> DEFINE ends == Str4Ends(m, p)
           q == Min(ends)
<1>1. ~(p >= Len(m)) /\ ends # {} /\ FindStr4End(m, p) = q
  BY DEF FindStr4End
<1>2. p \in 0..Len(m) /\ Len(m) \in Nat
  BY LenProperties DEF Boundaries
<1>3. p < Len(m)
  BY <1>1, <1>2
<1>4. /\ ends \in SUBSET Nat
      /\ \A r \in ends : /\ r \in Boundaries(m) /\ p + 4 <= r
                         /\ \E z \in p..(r - 1) : At(m, z) = 0
  BY <1>3, Str4EndsAre
<1> HIDE DEF ends
<1>5. q \in ends /\ \A r \in ends : q <= r
  BY <1>1, <1>4, MinExists
<1>6. q \in 0..Len(m)
  BY <1>4, <1>5 DEF Boundaries
<1>7. FindStr4EndUnchecked(m, p) = q
  <2> DEFINE all == ends \cup {Len(m) + 4}
  <2>1. all \in SUBSET Nat
    <3>1. Len(m) + 4 \in Nat
      BY <1>2
    <3>2. ends \in SUBSET Nat
      BY <1>4
    <3> QED BY <3>1, <3>2
  <2>2. q \in all /\ \A r \in all : q <= r
    BY <1>2, <1>5, <1>6
  <2> HIDE DEF all, q
  <2>3. Min(all) = q
    BY <2>1, <2>2, MinIs
  <2> QED BY <2>3 DEF all, ends, FindStr4EndUnchecked
<1> QED BY <1>1, <1>4, <1>5, <1>7


(* The kinds of type tags exclude each other.                              *)
LEMMA TagKinds ==
  /\ FourByteTypeTags \subseteq TypeTagValues /\ EightByteTypeTags \subseteq TypeTagValues
  /\ StringTypeTags \subseteq TypeTagValues /\ BLOB_TYPE_TAG \in TypeTagValues
  /\ BoolTypeTags \subseteq TypeTagValues
  /\ FourByteTypeTags \cap EightByteTypeTags = {} /\ FourByteTypeTags \cap StringTypeTags = {}
  /\ EightByteTypeTags \cap StringTypeTags = {}
  /\ BLOB_TYPE_TAG \notin FourByteTypeTags /\ BLOB_TYPE_TAG \notin EightByteTypeTags
  /\ BLOB_TYPE_TAG \notin StringTypeTags
BY DEF FourByteTypeTags, EightByteTypeTags, StringTypeTags, BLOB_TYPE_TAG, TypeTagValues,
       ZeroLengthTypeTags, BoolTypeTags, TRUE_TYPE_TAG, ARRAY_BEGIN_TYPE_TAG,
       ARRAY_END_TYPE_TAG

LEMMA RoundUp4Is ==
  ASSUME NEW x \in Nat
  PROVE  RoundUp4(x) \in Nat /\ x <= RoundUp4(x) /\ RoundUp4(x) % 4 = 0
BY DEF RoundUp4

(* What CheckArgument found to fit is where Advance goes, a boundary, and  *)
(* nothing before it lies outside of the message.                          *)
Passes(m, tag, p, q) ==
  /\ q \in Boundaries(m)
  /\ \A t \in Nat : At(m, t) = tag =>
       /\ Advance(m, [typeTag |-> t, argument |-> p]) = [typeTag |-> t + 1, argument |-> q]
       /\ LiesWithin(m, [typeTag |-> t, argument |-> p])

LEMMA FixedSizePasses ==
  ASSUME NEW m \in Seq(Byte), NEW p \in Boundaries(m),
         NEW tag \in FourByteTypeTags \cup EightByteTypeTags, ArgumentEnd(m, tag, p) # NULL
  PROVE  Passes(m, tag, p, ArgumentEnd(m, tag, p))
<1>1. p \in 0..Len(m) /\ p % 4 = 0 /\ Len(m) \in Nat
  BY LenProperties DEF Boundaries
<1>2. CASE tag \in FourByteTypeTags
  <2>1. ArgumentEnd(m, tag, p) = p + 4 /\ p + 4 <= Len(m)
    BY <1>2, TagKinds DEF ArgumentEnd
  <2>2. p + 4 \in Boundaries(m)
    BY <1>1, <2>1 DEF Boundaries
  <2>3. ASSUME NEW t \in Nat, At(m, t) = tag
        PROVE  /\ Advance(m, [typeTag |-> t, argument |-> p]) = [typeTag |-> t + 1, argument |-> p + 4]
               /\ LiesWithin(m, [typeTag |-> t, argument |-> p])
    <3>1. t # NULL /\ At(m, t) \in TypeTagValues
      BY <1>2, <2>3, TagKinds DEF NULL
    <3> QED BY <1>2, <2>1, <2>3, <3>1, TagKinds DEF Advance, LiesWithin
  <2> QED BY <2>1, <2>2, <2>3 DEF Passes
<1>3. CASE tag \in EightByteTypeTags
  <2>1. ArgumentEnd(m, tag, p) = p + 8 /\ p + 8 <= Len(m)
    BY <1>3, TagKinds DEF ArgumentEnd
  <2>2. p + 8 \in Boundaries(m)
    BY <1>1, <2>1 DEF Boundaries
  <2>3. ASSUME NEW t \in Nat, At(m, t) = tag
        PROVE  /\ Advance(m, [typeTag |-> t, argument |-> p]) = [typeTag |-> t + 1, argument |-> p + 8]
               /\ LiesWithin(m, [typeTag |-> t, argument |-> p])
    <3>1. t # NULL /\ At(m, t) \in TypeTagValues
      BY <1>3, <2>3, TagKinds DEF NULL
    <3> QED BY <1>3, <2>1, <2>3, <3>1, TagKinds DEF Advance, LiesWithin
  <2> QED BY <2>1, <2>2, <2>3 DEF Passes
<1> QED BY <1>2, <1>3

LEMMA StringPasses ==
  ASSUME NEW m \in Seq(Byte), Len(m) % 4 = 0, NEW p \in Boundaries(m),
         NEW tag \in StringTypeTags, ArgumentEnd(m, tag, p) # NULL
  PROVE  Passes(m, tag, p, ArgumentEnd(m, tag, p))
<1> DEFINE q == FindStr4End(m, p)
<1>1. ArgumentEnd(m, tag, p) = q
  BY TagKinds DEF ArgumentEnd
<1>2. /\ q \in Boundaries(m) /\ FindStr4EndUnchecked(m, p) = q
      /\ \E z \in p..(q - 1) : At(m, z) = 0
  BY <1>1, FindStr4EndIs
<1> HIDE DEF q
<1>3. \E z \in p..(Len(m) - 1) : At(m, z) = 0
  <2>1. p \in 0..Len(m) /\ q \in 0..Len(m) /\ Len(m) \in Nat
    BY <1>2, LenProperties DEF Boundaries
  <2>2. \A z \in p..(q - 1) : z \in p..(Len(m) - 1)
    BY <2>1
  <2> QED BY <1>2, <2>2
<1>4. ASSUME NEW t \in Nat, At(m, t) = tag
      PROVE  /\ Advance(m, [typeTag |-> t, argument |-> p]) = [typeTag |-> t + 1, argument |-> q]
             /\ LiesWithin(m, [typeTag |-> t, argument |-> p])
  <2>1. t # NULL /\ At(m, t) \in TypeTagValues
    BY <1>4, TagKinds DEF NULL
  <2>2. Advance(m, [typeTag |-> t, argument |-> p])
          = [typeTag |-> t + 1, argument |-> FindStr4EndUnchecked(m, p)]
    BY <1>4, <2>1, TagKinds DEF Advance
  <2>3. LiesWithin(m, [typeTag |-> t, argument |-> p])
    BY <1>3, <1>4, TagKinds DEF LiesWithin
  <2> QED BY <1>2, <2>2, <2>3
<1> QED BY <1>1, <1>2, <1>4 DEF Passes

LEMMA BlobPasses ==
  ASSUME NEW m \in Seq(Byte), Len(m) % 4 = 0, NEW p \in Boundaries(m),
         ToInt32(m, p) \in Int, ArgumentEnd(m, BLOB_TYPE_TAG, p) # NULL
  PROVE  Passes(m, BLOB_TYPE_TAG, p, ArgumentEnd(m, BLOB_TYPE_TAG, p))
<1> DEFINE size == ToInt32(m, p)
           blobSize == RoundUp4(size)
           q == p + 4 + blobSize
<1>1. /\ ArgumentEnd(m, BLOB_TYPE_TAG, p) = q
      /\ p + 4 <= Len(m) /\ size >= 0 /\ blobSize <= Len(m) - (p + 4)
  <2>1. p \in Int /\ Len(m) \in Int
    BY LenProperties DEF Boundaries
  <2>2. ArgumentEnd(m, BLOB_TYPE_TAG, p) =
          IF p + 4 > Len(m) \/ ~IsValidElementSizeValue(size)
          THEN NULL
          ELSE IF blobSize > Len(m) - (p + 4) THEN NULL ELSE q
    BY TagKinds DEF ArgumentEnd
  <2>3. IsValidElementSizeValue(size) => size >= 0
    BY DEF IsValidElementSizeValue
  <2>4. size \in Nat => blobSize \in Int
    BY RoundUp4Is
  <2>5. ~(p + 4 > Len(m)) /\ size >= 0 /\ ~(blobSize > Len(m) - (p + 4))
    BY <2>2, <2>3
  <2> HIDE DEF size, blobSize
  <2>6. size \in Nat
    BY <2>5 DEF size
  <2> QED BY <2>1, <2>2, <2>4, <2>5, <2>6
<1>2. p \in 0..Len(m) /\ p % 4 = 0 /\ Len(m) \in Nat
  BY LenProperties DEF Boundaries
<1>3. blobSize \in Nat /\ size <= blobSize /\ blobSize % 4 = 0
  BY <1>1, RoundUp4Is
<1>4. ASSUME NEW t \in Nat, At(m, t) = BLOB_TYPE_TAG
      PROVE  Advance(m, [typeTag |-> t, argument |-> p]) = [typeTag |-> t + 1, argument |-> q]
  <2>1. t # NULL /\ At(m, t) \in TypeTagValues
    BY <1>4, TagKinds DEF NULL
  <2> QED BY <1>4, <2>1, TagKinds DEF Advance
<1>5. ASSUME NEW t \in Nat, At(m, t) = BLOB_TYPE_TAG
      PROVE  LiesWithin(m, [typeTag |-> t, argument |-> p])
             <=> p + 4 <= Len(m) /\ size \in 0..(Len(m) - (p + 4))
  BY <1>5, TagKinds DEF LiesWithin
<1> HIDE DEF size, blobSize
<1>6. q \in Boundaries(m)
  BY <1>1, <1>2, <1>3 DEF Boundaries
<1>7. size \in 0..(Len(m) - (p + 4))
  <2>1. size \in Int
    BY DEF size
  <2> QED BY <1>1, <1>2, <1>3, <2>1
<1> HIDE DEF q
<1> QED BY <1>1, <1>4, <1>5, <1>6, <1>7 DEF Passes


LEMMA ToInt32Type ==
  ASSUME NEW m \in Seq(Byte), NEW p \in Nat, p + 4 <= Len(m)
  PROVE  ToInt32(m, p) \in Int
<1>1. At(m, p) \in Int /\ At(m, p + 1) \in Int /\ At(m, p + 2) \in Int /\ At(m, p + 3) \in Int
  <2>1. p + 1 \in 1..Len(m) /\ p + 2 \in 1..Len(m) /\ p + 3 \in 1..Len(m) /\ p + 4 \in 1..Len(m)
    BY LenProperties
  <2>2. \A k \in 1..Len(m) : m[k] \in Int
    <3>1. \A k \in 1..Len(m) : m[k] \in Byte
      BY ElementOfSeq
    <3>2. \A b \in Byte : b \in Int
      BY DEF Byte
    <3> QED BY <3>1, <3>2
  <2>3. (p + 1) + 1 = p + 2 /\ (p + 2) + 1 = p + 3 /\ (p + 3) + 1 = p + 4
    OBVIOUS
  <2>4. At(m, p) = m[p + 1] /\ At(m, p + 1) = m[p + 2] /\ At(m, p + 2) = m[p + 3]
        /\ At(m, p + 3) = m[p + 4]
    BY <2>3 DEF At
  <2> QED BY <2>1, <2>2, <2>4
<1> DEFINE first == IF At(m, p) < 128 THEN At(m, p) ELSE At(m, p) - 256
<1>2. first \in Int
  BY <1>1
<1>3. ToInt32(m, p) = ((first * 256 + At(m, p + 1)) * 256 + At(m, p + 2)) * 256 + At(m, p + 3)
  BY DEF ToInt32
<1>4. \A x \in Int, y \in Int : x * 256 + y \in Int
  OBVIOUS
<1> HIDE DEF first
<1>5. first * 256 + At(m, p + 1) \in Int
  BY <1>1, <1>2, <1>4
<1>6. (first * 256 + At(m, p + 1)) * 256 + At(m, p + 2) \in Int
  BY <1>1, <1>4, <1>5
<1> QED BY <1>1, <1>3, <1>4, <1>6

LEMMA NothingPasses ==
  ASSUME NEW m \in Seq(Byte), NEW p \in Boundaries(m), NEW tag \in TypeTagValues,
         tag \notin FourByteTypeTags, tag \notin EightByteTypeTags,
         tag \notin StringTypeTags, tag # BLOB_TYPE_TAG
  PROVE  ArgumentEnd(m, tag, p) = p /\ Passes(m, tag, p, p)
<1>1. ArgumentEnd(m, tag, p) = p
  BY DEF ArgumentEnd
<1>2. ASSUME NEW t \in Nat, At(m, t) = tag
      PROVE  /\ Advance(m, [typeTag |-> t, argument |-> p]) = [typeTag |-> t + 1, argument |-> p]
             /\ LiesWithin(m, [typeTag |-> t, argument |-> p])
  <2>1. t # NULL /\ At(m, t) \in TypeTagValues
    BY <1>2 DEF NULL
  <2> QED BY <1>2, <2>1 DEF Advance, LiesWithin
<1> QED BY <1>1, <1>2 DEF Passes

LEMMA ArgumentPasses ==
  ASSUME NEW m \in Seq(Byte), Len(m) % 4 = 0, NEW p \in Boundaries(m),
         NEW tag \in TypeTagValues, ArgumentEnd(m, tag, p) # NULL
  PROVE  Passes(m, tag, p, ArgumentEnd(m, tag, p))
<1>1. CASE tag \in FourByteTypeTags \cup EightByteTypeTags
  BY <1>1, FixedSizePasses
<1>2. CASE tag \in StringTypeTags
  BY <1>2, StringPasses
<1>3. CASE tag = BLOB_TYPE_TAG
  <2>1. p \in Nat /\ Len(m) \in Nat
    BY LenProperties DEF Boundaries
  <2>2. ~(p + 4 > Len(m))
    BY <1>3, TagKinds DEF ArgumentEnd
  <2>3. p + 4 <= Len(m)
    BY <2>1, <2>2
  <2>4. ToInt32(m, p) \in Int
    BY <2>1, <2>3, ToInt32Type
  <2> QED BY <1>3, <2>4, BlobPasses
<1>4. CASE /\ tag \notin FourByteTypeTags /\ tag \notin EightByteTypeTags
           /\ tag \notin StringTypeTags /\ tag # BLOB_TYPE_TAG
  BY <1>4, NothingPasses
<1> QED BY <1>1, <1>2, <1>3, <1>4

(* The same for a value that is not one of the type tags.                  *)
LEMMA ArgumentEndUnknown ==
  ASSUME NEW m, NEW p, NEW tag, tag \notin TypeTagValues
  PROVE  ArgumentEnd(m, tag, p) = p
<1>1. /\ tag \notin FourByteTypeTags /\ tag \notin EightByteTypeTags
      /\ tag \notin StringTypeTags /\ tag # BLOB_TYPE_TAG
  BY TagKinds
<1> QED BY <1>1 DEF ArgumentEnd

-----------------------------------------------------------------------------
(* The loop over the type tags.                                            *)

IteratesIndexed(f, G, v) == f[0] = v /\ \A n \in Nat : f[n + 1] = G[<< n, f[n] >>]

(* IterationExists, for a next value that depends on the number too.       *)
LEMMA IndexedIterationExists ==
  ASSUME NEW V, NEW v \in V, NEW G \in [Nat \X V -> V]
  PROVE  \E f \in [Nat -> V] : IteratesIndexed(f, G, v)
<1> DEFINE P == Nat \X V
           H == [s \in P |-> << s[1] + 1, G[s] >>]
           start == << 0, v >>
<1>1. H \in [P -> P]
  OBVIOUS
<1>2. start \in P
  OBVIOUS
<1>3. \A n \in Nat, x \in V : H[<< n, x >>] = << n + 1, G[<< n, x >>] >>
  OBVIOUS
<1>4. PICK h \in [Nat -> P] : h[0] = start /\ \A n \in Nat : h[n + 1] = H[h[n]]
  <2> HIDE DEF H, start, P
  <2>1. \E h \in [Nat -> P] : IteratesForever(h, H, start)
    BY <1>1, <1>2, IterationExists
  <2> QED BY <2>1 DEF IteratesForever
<1> DEFINE f == [n \in Nat |-> h[n][2]]
<1>5. f \in [Nat -> V]
  OBVIOUS
<1>6. \A n \in Nat : h[n] = << n, f[n] >>
  <2> DEFINE T == { n \in Nat : h[n] = << n, f[n] >> }
  <2>1. 0 \in T
    BY <1>4
  <2>2. ASSUME NEW n \in Nat, n \in T PROVE n + 1 \in T
    <3>1. h[n] = << n, f[n] >> /\ f[n] \in V
      BY <1>5, <2>2
    <3>2. h[n + 1] = H[<< n, f[n] >>]
      BY <1>4, <3>1
    <3>3. h[n + 1] = << n + 1, G[<< n, f[n] >>] >>
      BY <1>3, <3>1, <3>2
    <3>4. f[n + 1] = h[n + 1][2]
      OBVIOUS
    <3>5. h[n + 1] = << n + 1, f[n + 1] >>
      BY <3>3, <3>4
    <3> QED BY <3>5
  <2>3. \A n \in Nat : n \in T
    <3> HIDE DEF T
    <3> QED BY <2>1, <2>2, EveryNumber
  <2> QED BY <2>3
<1>7. f[0] = v
  BY <1>4
<1>8. ASSUME NEW n \in Nat PROVE f[n + 1] = G[<< n, f[n] >>]
  <2>1. f[n] \in V
    BY <1>5
  <2>2. h[n + 1] = H[<< n, f[n] >>]
    BY <1>4, <1>6
  <2>3. h[n + 1] = << n + 1, G[<< n, f[n] >>] >>
    BY <1>3, <2>1, <2>2
  <2>4. f[n + 1] = h[n + 1][2]
    OBVIOUS
  <2> QED BY <2>3, <2>4
<1> HIDE DEF f
<1>9. IteratesIndexed(f, G, v)
  BY <1>7, <1>8 DEF IteratesIndexed
<1> QED BY <1>5, <1>9

(* What the loop knows while it has found no error.                        *)
ChecksOf(m) ==
  { c \in [ok : BOOLEAN, argument : Int, level : Int] : c.ok => c.argument \in Boundaries(m) }

LEMMA CheckArgumentType ==
  ASSUME NEW m \in Seq(Byte), Len(m) % 4 = 0, NEW c \in ChecksOf(m), NEW tag
  PROVE  /\ CheckArgument(m, c, tag) \in ChecksOf(m)
         /\ CheckArgument(m, c, tag).ok =>
              /\ c.ok /\ tag \in TypeTagValues
              /\ Passes(m, tag, c.argument, CheckArgument(m, c, tag).argument)
<1>1. CASE ~c.ok
  BY <1>1 DEF CheckArgument
<1>2. CASE c.ok
  <2> DEFINE argument == ArgumentEnd(m, tag, c.argument)
             change == CASE tag = ARRAY_BEGIN_TYPE_TAG -> 1
                         [] tag = ARRAY_END_TYPE_TAG -> -1
                         [] OTHER -> 0
             ok == tag \in TypeTagValues /\ argument # NULL /\ c.level + change >= 0
  <2>1. CheckArgument(m, c, tag) = [ok |-> ok, argument |-> argument, level |-> c.level + change]
    BY <1>2 DEF CheckArgument
  <2>2. c.argument \in Boundaries(m) /\ c.level \in Int
    BY <1>2 DEF ChecksOf
  <2>3. c.level + change \in Int
    <3>1. change \in Int
      BY DEF ARRAY_BEGIN_TYPE_TAG, ARRAY_END_TYPE_TAG
    <3> HIDE DEF change
    <3> QED BY <2>2, <3>1
  <2>4. tag \in TypeTagValues /\ argument # NULL => Passes(m, tag, c.argument, argument)
    BY <2>2, ArgumentPasses
  <2>5. argument \in Int
    <3>1. \A q \in Boundaries(m) : q \in Int
      BY LenProperties DEF Boundaries
    <3>2. CASE tag \in TypeTagValues /\ argument # NULL
      <4>1. argument \in Boundaries(m)
        BY <2>4, <3>2 DEF Passes
      <4> QED BY <3>1, <4>1
    <3>3. CASE argument = NULL
      BY <3>3 DEF NULL
    <3>4. CASE tag \notin TypeTagValues
      <4>1. argument = c.argument
        BY <3>4, ArgumentEndUnknown
      <4> QED BY <2>2, <3>1, <4>1
    <3> QED BY <3>2, <3>3, <3>4
  <2>6. ok \in BOOLEAN /\ (ok => argument \in Boundaries(m))
    BY <2>4 DEF Passes
  <2>7. ok => tag \in TypeTagValues /\ Passes(m, tag, c.argument, argument)
    BY <2>4
  <2> HIDE DEF ok, argument, change
  <2> QED BY <1>2, <2>1, <2>3, <2>5, <2>6, <2>7 DEF ChecksOf
<1> QED BY <1>1, <1>2 DEF ChecksOf


LEMMA ChecksAre ==
  ASSUME NEW m \in Seq(Byte), Len(m) % 4 = 0,
         FindStr4End(m, TypeTagString(m)) \in Boundaries(m)
  PROVE  /\ Checks(m)[0].argument = FindStr4End(m, TypeTagString(m))
         /\ \A n \in Nat : /\ Checks(m)[n] \in ChecksOf(m)
                           /\ Checks(m)[n + 1] = CheckArgument(m, Checks(m)[n], TypeTags(m)[n + 1])
<1> DEFINE start == [ok |-> TRUE, argument |-> FindStr4End(m, TypeTagString(m)), level |-> 0]
           Round(g) == [n \in Nat |-> IF n = 0 THEN start
                                      ELSE CheckArgument(m, g[n - 1], TypeTags(m)[n])]
           check == CHOOSE g : g = Round(g)
           V == ChecksOf(m)
           G == [s \in Nat \X V |-> CheckArgument(m, s[2], TypeTags(m)[s[1] + 1])]
<1>1. start \in V /\ start.argument = FindStr4End(m, TypeTagString(m))
  <2>1. \A q \in Boundaries(m) : q \in Int
    BY LenProperties DEF Boundaries
  <2> QED BY <2>1 DEF ChecksOf
<1>2. G \in [Nat \X V -> V]
  BY CheckArgumentType
<1>3. Checks(m) = check
  BY DEF Checks
<1>4. \A n \in Nat, c \in V : G[<< n, c >>] = CheckArgument(m, c, TypeTags(m)[n + 1])
  OBVIOUS
<1> HIDE DEF start, G
<1>5. PICK f \in [Nat -> V] : f[0] = start /\ \A n \in Nat : f[n + 1] = G[<< n, f[n] >>]
  <2> HIDE DEF V, Round, check
  <2>1. \E f \in [Nat -> V] : IteratesIndexed(f, G, start)
    BY <1>1, <1>2, IndexedIterationExists
  <2> QED BY <2>1 DEF IteratesIndexed
<1>6. f = Round(f)
  <2>1. ASSUME NEW n \in Nat PROVE f[n] = Round(f)[n]
    <3>1. CASE n = 0
      BY <1>5, <3>1
    <3>2. CASE n # 0
      <4>1. n - 1 \in Nat /\ (n - 1) + 1 = n
        BY <3>2
      <4>2. f[n] = G[<< n - 1, f[n - 1] >>] /\ f[n - 1] \in V
        BY <1>5, <4>1
      <4>3. f[n] = CheckArgument(m, f[n - 1], TypeTags(m)[n])
        BY <1>4, <4>1, <4>2
      <4> QED BY <3>2, <4>3
    <3> QED BY <3>1, <3>2
  <2>2. DOMAIN f = Nat /\ f = [n \in Nat |-> f[n]]
    BY <1>5
  <2>3. f = [n \in Nat |-> Round(f)[n]]
    <3> HIDE DEF Round
    <3> QED BY <2>1, <2>2
  <2> QED BY <2>3
<1>7. check = Round(check)
  BY <1>6
<1> HIDE DEF check
<1>8. /\ check[0] = start
      /\ \A n \in Nat : check[n + 1] = CheckArgument(m, check[n], TypeTags(m)[n + 1])
  <2>1. /\ Round(check)[0] = start
        /\ \A n \in Nat : Round(check)[n + 1] = CheckArgument(m, check[(n + 1) - 1], TypeTags(m)[n + 1])
    OBVIOUS
  <2>2. \A n \in Nat : (n + 1) - 1 = n
    OBVIOUS
  <2> HIDE DEF Round
  <2> QED BY <1>7, <2>1, <2>2
<1>9. \A n \in Nat : check[n] \in V
  <2> DEFINE T == { n \in Nat : check[n] \in V }
  <2>1. 0 \in T
    BY <1>1, <1>8
  <2>2. ASSUME NEW n \in Nat, n \in T PROVE n + 1 \in T
    <3>1. PICK c \in V : c = check[n]
      BY <2>2
    <3>2. CheckArgument(m, c, TypeTags(m)[n + 1]) \in V
      BY CheckArgumentType
    <3>3. check[n + 1] = CheckArgument(m, c, TypeTags(m)[n + 1])
      BY <1>8, <3>1
    <3> QED BY <3>2, <3>3
  <2> HIDE DEF T
  <2>3. \A n \in Nat : n \in T
    BY <2>1, <2>2, EveryNumber
  <2> QED BY <2>3 DEF T
<1> QED BY <1>1, <1>3, <1>8, <1>9

(* One error is enough: when there is none in the end, there was none.     *)
LEMMA ChecksPass ==
  ASSUME NEW m \in Seq(Byte), Len(m) % 4 = 0,
         FindStr4End(m, TypeTagString(m)) \in Boundaries(m),
         NEW n \in Nat, Checks(m)[n].ok
  PROVE  \A k \in Nat : k < n =>
           /\ TypeTags(m)[k + 1] \in TypeTagValues
           /\ Passes(m, TypeTags(m)[k + 1], Checks(m)[k].argument, Checks(m)[k + 1].argument)
<1> DEFINE c == Checks(m)
           T == { j \in Nat : j <= n => c[n - j].ok }
<1>1. \A k \in Nat : /\ c[k] \in ChecksOf(m)
                     /\ c[k + 1] = CheckArgument(m, c[k], TypeTags(m)[k + 1])
  BY ChecksAre
<1>2. ASSUME NEW k \in Nat, c[k + 1].ok
      PROVE  /\ c[k].ok /\ TypeTags(m)[k + 1] \in TypeTagValues
             /\ Passes(m, TypeTags(m)[k + 1], c[k].argument, c[k + 1].argument)
  <2>1. PICK d \in ChecksOf(m) : d = c[k]
    BY <1>1
  <2>2. c[k + 1] = CheckArgument(m, d, TypeTags(m)[k + 1])
    BY <1>1, <2>1
  <2> HIDE DEF c
  <2>3. CheckArgument(m, d, TypeTags(m)[k + 1]).ok
    BY <1>2, <2>2
  <2>4. /\ d.ok /\ TypeTags(m)[k + 1] \in TypeTagValues
        /\ Passes(m, TypeTags(m)[k + 1], d.argument, CheckArgument(m, d, TypeTags(m)[k + 1]).argument)
    BY <2>3, CheckArgumentType
  <2> QED BY <2>1, <2>2, <2>4
<1>3. \A k \in Nat : k <= n => c[k].ok
  <2>1. 0 \in T
    <3>1. n - 0 = n
      OBVIOUS
    <3> QED BY <3>1
  <2>2. ASSUME NEW j \in Nat, j \in T PROVE j + 1 \in T
    <3>1. ASSUME j + 1 <= n PROVE c[n - (j + 1)].ok
      <4>1. n - (j + 1) \in Nat /\ (n - (j + 1)) + 1 = n - j /\ j <= n
        BY <3>1
      <4>2. c[(n - (j + 1)) + 1].ok
        BY <2>2, <4>1
      <4> QED BY <1>2, <4>1, <4>2
    <3> QED BY <3>1
  <2>3. \A j \in Nat : j \in T
    <3> HIDE DEF T
    <3> QED BY <2>1, <2>2, EveryNumber
  <2>4. ASSUME NEW k \in Nat, k <= n PROVE c[k].ok
    <3>1. n - k \in Nat /\ n - k <= n /\ n - (n - k) = k
      BY <2>4
    <3>2. c[n - (n - k)].ok
      BY <2>3, <3>1
    <3> QED BY <3>1, <3>2
  <2> QED BY <2>4
<1>4. ASSUME NEW k \in Nat, k < n
      PROVE  /\ TypeTags(m)[k + 1] \in TypeTagValues
             /\ Passes(m, TypeTags(m)[k + 1], c[k].argument, c[k + 1].argument)
  <2>1. k + 1 \in Nat /\ k + 1 <= n
    BY <1>4
  <2>2. c[k + 1].ok
    BY <1>3, <2>1
  <2> QED BY <1>2, <2>2
<1> QED BY <1>4


(* ValidateMessage has looked at the type tags up to the null behind them. *)
LEMMA TypeTagsAre ==
  ASSUME NEW m \in Seq(Byte), ValidateMessage(m), HasTypeTags(m)
  PROVE  /\ Len(m) % 4 = 0
         /\ TypeTagString(m) \in Nat
         /\ FindStr4End(m, TypeTagString(m)) \in Boundaries(m)
         /\ Len(TypeTags(m)) \in Nat
         /\ \A k \in Nat : k < Len(TypeTags(m)) =>
              TypeTags(m)[k + 1] = At(m, TypeTagString(m) + 1 + k)
         /\ Checks(m)[Len(TypeTags(m))].ok
<1> DEFINE s == TypeTagString(m)
           b == s + 1
           nulls == { q \in b..(Len(m) - 1) : At(m, q) = 0 }
           e == Min(nulls)
<1>1. Len(m) \in Nat /\ Len(m) % 4 = 0
  BY LenProperties DEF ValidateMessage, ValidateSizeNoThrow, IsMultipleOf4
<1>2. /\ FindStr4End(m, s) # NULL
      /\ Checks(m)[Len(TypeTags(m))].ok
  BY DEF ValidateMessage, ArgumentsWellFormed
<1>3. s \in Boundaries(m)
  <2>1. 0 \in Boundaries(m)
    BY <1>1 DEF Boundaries
  <2>2. FindStr4End(m, 0) # NULL
    BY DEF ValidateMessage, TypeTagString
  <2>3. FindStr4End(m, 0) \in Boundaries(m)
    BY <1>1, <2>1, <2>2, FindStr4EndIs
  <2> QED BY <2>3 DEF TypeTagString
<1>4. s \in Nat
  BY <1>1, <1>3 DEF Boundaries
<1>5. /\ FindStr4End(m, s) \in Boundaries(m)
      /\ \E z \in s..(FindStr4End(m, s) - 1) : At(m, z) = 0
  <2> HIDE DEF s
  <2> QED BY <1>1, <1>2, <1>3, FindStr4EndIs
<1>6. At(m, s) # 0
  <2>1. At(m, s) = COMMA
    BY DEF HasTypeTags, ValidateMessage
  <2> QED BY <2>1 DEF COMMA
<1>7. nulls \in SUBSET Nat /\ nulls # {}
  <2> HIDE DEF s
  <2>1. PICK z \in s..(FindStr4End(m, s) - 1) : At(m, z) = 0
    BY <1>5
  <2>2. FindStr4End(m, s) \in 0..Len(m)
    BY <1>5 DEF Boundaries
  <2> DEFINE r == FindStr4End(m, s)
  <2>3. r \in 0..Len(m) /\ z \in s..(r - 1)
    BY <2>1, <2>2
  <2> HIDE DEF r
  <2>4. z \in s..(Len(m) - 1) /\ z # s
    BY <1>1, <1>4, <1>6, <2>1, <2>3
  <2>5. z \in b..(Len(m) - 1)
    BY <1>1, <1>4, <2>4
  <2>6. \A q \in b..(Len(m) - 1) : q \in Nat
    BY <1>1, <1>4
  <2> QED BY <2>1, <2>5, <2>6
<1>8. e \in nulls
  <2> HIDE DEF nulls
  <2> QED BY <1>7, MinExists
<1>9. e \in b..(Len(m) - 1)
  BY <1>8
<1>10. TypeTags(m) = SubSeq(m, b + 1, e)
  BY DEF TypeTags, CString
<1> HIDE DEF s, e
<1>11. b \in Nat /\ e \in Nat /\ e - b \in Nat /\ e <= Len(m) /\ b + 1 >= 1
  BY <1>1, <1>4, <1>9
<1> HIDE DEF b
<1>12. /\ Len(SubSeq(m, b + 1, e)) = e - b
       /\ \A j \in 1..(e - b) : SubSeq(m, b + 1, e)[j] = m[b + j]
  <2> DEFINE a == b + 1
  <2>1. a \in Int /\ e \in Int
    BY <1>11
  <2>2. \A i \in a..e : m[i] \in Byte
    <3>1. \A i \in a..e : i \in 1..Len(m)
      BY <1>1, <1>11
    <3> QED BY <3>1, ElementOfSeq
  <2>3. (IF a <= e THEN e - a + 1 ELSE 0) = e - b
    BY <1>11
  <2>4. \A j \in 1..(e - b) : a + j - 1 = b + j
    BY <1>11
  <2> HIDE DEF a
  <2>5. /\ Len(SubSeq(m, a, e)) = IF a <= e THEN e - a + 1 ELSE 0
        /\ \A j \in 1..Len(SubSeq(m, a, e)) : SubSeq(m, a, e)[j] = m[a + j - 1]
    BY <2>1, <2>2, SubSeqProperties
  <2>6. Len(SubSeq(m, a, e)) = e - b
    BY <2>3, <2>5
  <2>7. \A j \in 1..(e - b) : SubSeq(m, a, e)[j] = m[b + j]
    BY <2>4, <2>5, <2>6
  <2> QED BY <2>6, <2>7 DEF a
<1>13. Len(TypeTags(m)) = e - b /\ \A j \in 1..(e - b) : TypeTags(m)[j] = m[b + j]
  BY <1>10, <1>12
<1>14. ASSUME NEW k \in Nat, k < Len(TypeTags(m))
       PROVE  TypeTags(m)[k + 1] = At(m, b + k)
  <2>1. k + 1 \in 1..(e - b) /\ b + (k + 1) = (b + k) + 1
    BY <1>11, <1>13, <1>14
  <2> QED BY <1>13, <2>1 DEF At
<1> QED BY <1>1, <1>2, <1>4, <1>5, <1>11, <1>13, <1>14 DEF b, s


-----------------------------------------------------------------------------
(* The iteration over the arguments.                                       *)

(* The iterator at the k-th argument, as TryInit found it.                 *)
IteratorAt(m, k) ==
  IF HasTypeTags(m)
  THEN [typeTag |-> TypeTagString(m) + 1 + k, argument |-> Checks(m)[k].argument]
  ELSE ArgumentsBegin(m)

LEMMA IteratorsAt ==
  ASSUME NEW m \in Seq(Byte), ValidateMessage(m)
  PROVE  /\ ArgumentCount(m) \in Nat
         /\ IteratorAt(m, 0) = ArgumentsBegin(m)
         /\ IteratorAt(m, ArgumentCount(m)).typeTag = ArgumentsEnd(m).typeTag
         /\ \A k \in Nat : k < ArgumentCount(m) =>
              LET i == IteratorAt(m, k)
              IN  /\ i.typeTag = ArgumentsBegin(m).typeTag + k
                  /\ i.typeTag # ArgumentsEnd(m).typeTag
                  /\ At(m, i.typeTag) \in TypeTagValues
                  /\ Advance(m, i) = IteratorAt(m, k + 1)
                  /\ LiesWithin(m, i)
<1>1. CASE ~HasTypeTags(m)
  <2>1. ArgumentsBegin(m).typeTag = NULL /\ ArgumentsEnd(m).typeTag = NULL
    BY <1>1 DEF ArgumentsBegin, ArgumentsEnd
  <2>2. ArgumentCount(m) = 0
    BY <2>1 DEF ArgumentCount, NULL
  <2>3. \A k \in Nat : ~(k < 0)
    OBVIOUS
  <2>4. \A k : IteratorAt(m, k) = ArgumentsBegin(m)
    BY <1>1 DEF IteratorAt
  <2> QED BY <2>1, <2>2, <2>3, <2>4
<1>2. CASE HasTypeTags(m)
  <2> DEFINE b == TypeTagString(m) + 1
             n == Len(TypeTags(m))
             c == Checks(m)
  <2>1. /\ Len(m) % 4 = 0
        /\ TypeTagString(m) \in Nat
        /\ FindStr4End(m, TypeTagString(m)) \in Boundaries(m)
        /\ n \in Nat
        /\ \A k \in Nat : k < n => TypeTags(m)[k + 1] = At(m, b + k)
        /\ c[n].ok
    BY <1>2, TypeTagsAre
  <2>2. ArgumentsBegin(m) = [typeTag |-> b, argument |-> FindStr4End(m, TypeTagString(m))]
    BY <1>2 DEF ArgumentsBegin
  <2>3. ArgumentsEnd(m).typeTag = b + n
    BY <1>2 DEF ArgumentsEnd
  <2>4. \A k : IteratorAt(m, k) = [typeTag |-> b + k, argument |-> c[k].argument]
    BY <1>2 DEF IteratorAt
  <2>5. c[0].argument = FindStr4End(m, TypeTagString(m))
    BY <2>1, ChecksAre
  <2>6. \A k \in Nat : k < n =>
           /\ TypeTags(m)[k + 1] \in TypeTagValues
           /\ Passes(m, TypeTags(m)[k + 1], c[k].argument, c[k + 1].argument)
    BY <2>1, ChecksPass
  <2>7. b \in Nat
    BY <2>1
  <2> HIDE DEF b, n, c
  <2>8. ArgumentCount(m) = n
    <3>1. (b + n) - b = n
      BY <2>1, <2>7
    <3> QED BY <2>2, <2>3, <3>1 DEF ArgumentCount
  <2>9. IteratorAt(m, 0) = ArgumentsBegin(m)
    <3>1. b + 0 = b
      BY <2>7
    <3> QED BY <2>2, <2>4, <2>5, <3>1
  <2>10. IteratorAt(m, n).typeTag = ArgumentsEnd(m).typeTag
    BY <2>3, <2>4
  <2>11. ASSUME NEW k \in Nat, k < n
         PROVE  /\ IteratorAt(m, k).typeTag = ArgumentsBegin(m).typeTag + k
                /\ IteratorAt(m, k).typeTag # ArgumentsEnd(m).typeTag
                /\ At(m, IteratorAt(m, k).typeTag) \in TypeTagValues
                /\ Advance(m, IteratorAt(m, k)) = IteratorAt(m, k + 1)
                /\ LiesWithin(m, IteratorAt(m, k))
    <3>1. b + k \in Nat /\ b + k # b + n /\ b + (k + 1) = (b + k) + 1
      BY <2>1, <2>7, <2>11
    <3>2. At(m, b + k) = TypeTags(m)[k + 1]
      BY <2>1, <2>11
    <3>3. At(m, b + k) \in TypeTagValues /\ Passes(m, At(m, b + k), c[k].argument, c[k + 1].argument)
      BY <2>6, <2>11, <3>2
    <3>4. IteratorAt(m, k) = [typeTag |-> b + k, argument |-> c[k].argument]
      BY <2>4
    <3>5. IteratorAt(m, k + 1) = [typeTag |-> (b + k) + 1, argument |-> c[k + 1].argument]
      BY <2>4, <3>1
    <3>6. /\ Advance(m, [typeTag |-> b + k, argument |-> c[k].argument])
               = [typeTag |-> (b + k) + 1, argument |-> c[k + 1].argument]
          /\ LiesWithin(m, [typeTag |-> b + k, argument |-> c[k].argument])
      BY <3>1, <3>3 DEF Passes
    <3>7. IteratorAt(m, k).typeTag = b + k
      BY <3>4
    <3> QED BY <2>2, <2>3, <3>1, <3>3, <3>4, <3>5, <3>6, <3>7
  <2> QED BY <2>1, <2>8, <2>9, <2>10, <2>11
<1> QED BY <1>1, <1>2

(* Functions that begin alike and take the same steps are the same.        *)
LEMMA SameSteps ==
  ASSUME NEW n \in Nat, NEW f, NEW g, f[0] = g[0],
         \A i \in Nat : i < n /\ f[i] = g[i] => f[i + 1] = g[i + 1]
  PROVE  \A i \in 0..n : f[i] = g[i]
<1> DEFINE T == { i \in Nat : i <= n => f[i] = g[i] }
<1>1. 0 \in T
  OBVIOUS
<1>2. ASSUME NEW i \in Nat, i \in T PROVE i + 1 \in T
  <2>1. i + 1 <= n => i < n /\ i <= n
    OBVIOUS
  <2>2. i + 1 <= n => f[i + 1] = g[i + 1]
    BY <1>2, <2>1
  <2> QED BY <2>2
<1>3. \A i \in Nat : i \in T
  <2> HIDE DEF T
  <2> QED BY <1>1, <1>2, EveryNumber
<1>4. \A i \in 0..n : i \in Nat /\ i <= n
  OBVIOUS
<1> QED BY <1>3, <1>4

(* Advance, from argument to argument, goes where TryInit has been.        *)
LEMMA IteratorsAre ==
  ASSUME NEW m \in Seq(Byte), ValidateMessage(m)
  PROVE  \A k \in 0..ArgumentCount(m) : Iterators(m)[k] = IteratorAt(m, k)
<1> DEFINE n == ArgumentCount(m)
           Step(g) == [k \in 0..n |-> IF k = 0 THEN ArgumentsBegin(m) ELSE Advance(m, g[k - 1])]
           at == CHOOSE g : g = Step(g)
           w == [k \in 0..n |-> IteratorAt(m, k)]
<1>1. /\ n \in Nat /\ IteratorAt(m, 0) = ArgumentsBegin(m)
      /\ \A k \in Nat : k < n => Advance(m, IteratorAt(m, k)) = IteratorAt(m, k + 1)
  BY IteratorsAt
<1>2. Iterators(m) = at
  BY DEF Iterators
<1> HIDE DEF n
<1>3. w = Step(w)
  <2>1. ASSUME NEW k \in 0..n PROVE w[k] = Step(w)[k]
    <3>1. CASE k = 0
      BY <1>1, <3>1
    <3>2. CASE k # 0
      <4>1. k - 1 \in 0..n /\ k - 1 \in Nat /\ k - 1 < n /\ (k - 1) + 1 = k
        BY <1>1, <3>2
      <4>2. Advance(m, IteratorAt(m, k - 1)) = IteratorAt(m, k)
        BY <1>1, <4>1
      <4>3. w[k - 1] = IteratorAt(m, k - 1) /\ w[k] = IteratorAt(m, k)
        BY <4>1
      <4>4. Step(w)[k] = Advance(m, w[k - 1])
        BY <3>2
      <4> HIDE DEF w, Step
      <4> QED BY <4>2, <4>3, <4>4
    <3> QED BY <3>1, <3>2
  <2>2. w = [k \in 0..n |-> w[k]]
    OBVIOUS
  <2>3. Step(w) = [k \in 0..n |-> Step(w)[k]]
    OBVIOUS
  <2> HIDE DEF w, Step
  <2> QED BY <2>1, <2>2, <2>3
<1>4. at = Step(at)
  <2> HIDE DEF w, Step
  <2> QED BY <1>3
<1> HIDE DEF at
<1>5. \A k \in 0..n : Step(at)[k] = IF k = 0 THEN ArgumentsBegin(m) ELSE Advance(m, at[k - 1])
  OBVIOUS
<1>6. \A k \in 0..n : at[k] = IF k = 0 THEN ArgumentsBegin(m) ELSE Advance(m, at[k - 1])
  <2> HIDE DEF Step
  <2> QED BY <1>4, <1>5
<1>7. at[0] = w[0]
  <2>1. 0 \in 0..n
    BY <1>1
  <2> QED BY <1>1, <1>6, <2>1
<1>8. ASSUME NEW k \in Nat, k < n /\ at[k] = w[k] PROVE at[k + 1] = w[k + 1]
  <2>1. k + 1 \in 0..n /\ k \in 0..n /\ k + 1 # 0 /\ (k + 1) - 1 = k
    BY <1>1, <1>8
  <2>2. at[k + 1] = Advance(m, at[k])
    BY <1>6, <2>1
  <2>3. w[k] = IteratorAt(m, k) /\ w[k + 1] = IteratorAt(m, k + 1)
    BY <2>1
  <2> HIDE DEF w
  <2> QED BY <1>1, <1>8, <2>2, <2>3
<1>9. \A k \in 0..n : at[k] = w[k]
  <2> HIDE DEF w
  <2> QED BY <1>1, <1>7, <1>8, SameSteps
<1> QED BY <1>2, <1>9 DEF n

(* A message that reaches ProcessMessage is read within its bounds, from   *)
(* the first argument to the end, by accessors that check nothing.         *)
THEOREM ReadingStaysInside == Spec => []IterationStaysInside
<1>1. IInv => IterationStaysInside
  <2> SUFFICES ASSUME IInv, pc = "message"
               PROVE  /\ \A k \in 0..(ArgumentCount(message) - 1) :
                           LiesWithin(message, Iterators(message)[k])
                      /\ Iterators(message)[ArgumentCount(message)].typeTag
                           = ArgumentsEnd(message).typeTag
    BY DEF IterationStaysInside
  <2>1. message \in Seq(Byte) /\ ValidateMessage(message)
    BY DEF IInv, TypeOK
  <2> DEFINE n == ArgumentCount(message)
  <2>2. /\ n \in Nat
        /\ IteratorAt(message, n).typeTag = ArgumentsEnd(message).typeTag
        /\ \A k \in Nat : k < n => LiesWithin(message, IteratorAt(message, k))
    BY <2>1, IteratorsAt
  <2>3. \A k \in 0..n : Iterators(message)[k] = IteratorAt(message, k)
    BY <2>1, IteratorsAre
  <2> HIDE DEF n
  <2>4. n \in 0..n /\ \A k \in 0..(n - 1) : k \in Nat /\ k < n /\ k \in 0..n
    BY <2>2
  <2>5. Iterators(message)[n].typeTag = ArgumentsEnd(message).typeTag
    BY <2>2, <2>3, <2>4
  <2>6. \A k \in 0..(n - 1) : LiesWithin(message, Iterators(message)[k])
    BY <2>2, <2>3, <2>4
  <2> QED BY <2>5, <2>6 DEF n
<1> QED BY <1>1, Invariance, PTL


-----------------------------------------------------------------------------
(* Argument streams.                                                       *)

(* A stream before the k-th argument.                                      *)
StreamAt(m, k, outcome) == [p |-> IteratorAt(m, k), outcome |-> outcome]

LEMMA ExtractIs ==
  ASSUME NEW m \in Seq(Byte), ValidateMessage(m), NEW type
  PROVE  /\ Extract(m, StreamAt(m, ArgumentCount(m), "ok"), type)
              = StreamAt(m, ArgumentCount(m), "MissingArgument")
         /\ \A k \in Nat : k < ArgumentCount(m) =>
              Extract(m, StreamAt(m, k, "ok"), type)
                = StreamAt(m, k + 1, IF At(m, ArgumentsBegin(m).typeTag + k) \in StreamTags[type]
                                     THEN "ok" ELSE "WrongArgumentType")
         /\ \A s : s.outcome # "ok" => Extract(m, s, type) = s
<1> DEFINE n == ArgumentCount(m)
<1>1. IteratorAt(m, n).typeTag = ArgumentsEnd(m).typeTag
  BY IteratorsAt
<1>2. \A k \in Nat : k < n =>
        /\ IteratorAt(m, k).typeTag = ArgumentsBegin(m).typeTag + k
        /\ IteratorAt(m, k).typeTag # ArgumentsEnd(m).typeTag
        /\ Advance(m, IteratorAt(m, k)) = IteratorAt(m, k + 1)
  BY IteratorsAt
<1> HIDE DEF n
<1>3. Extract(m, StreamAt(m, n, "ok"), type) = StreamAt(m, n, "MissingArgument")
  BY <1>1 DEF Extract, StreamAt
<1>4. ASSUME NEW k \in Nat, k < n
      PROVE  Extract(m, StreamAt(m, k, "ok"), type)
               = StreamAt(m, k + 1, IF At(m, ArgumentsBegin(m).typeTag + k) \in StreamTags[type]
                                    THEN "ok" ELSE "WrongArgumentType")
  <2>1. /\ IteratorAt(m, k).typeTag = ArgumentsBegin(m).typeTag + k
        /\ IteratorAt(m, k).typeTag # ArgumentsEnd(m).typeTag
        /\ Advance(m, IteratorAt(m, k)) = IteratorAt(m, k + 1)
    BY <1>2, <1>4
  <2> QED BY <2>1 DEF Extract, StreamAt
<1>5. \A s : s.outcome # "ok" => Extract(m, s, type) = s
  BY DEF Extract
<1> QED BY <1>3, <1>4, <1>5 DEF n

(* What a stream comes to when it is known after each extraction.          *)
LEMMA ExtractionsAre ==
  ASSUME NEW m, NEW types, NEW n \in Nat, Len(types) = n, NEW w,
         w[0] = [p |-> ArgumentsBegin(m), outcome |-> "ok"],
         \A k \in Nat : k < n => w[k + 1] = Extract(m, w[k], types[k + 1])
  PROVE  Extractions(m, types)[n] = w[n]
<1> DEFINE start == [p |-> ArgumentsBegin(m), outcome |-> "ok"]
           Step(g) == [k \in 0..n |-> IF k = 0 THEN start ELSE Extract(m, g[k - 1], types[k])]
           s == CHOOSE g : g = Step(g)
           v == [k \in 0..n |-> w[k]]
<1>1. Extractions(m, types) = s
  BY DEF Extractions
<1>2. w[0] = start
  OBVIOUS
<1> HIDE DEF start
<1>3. v = Step(v)
  <2>1. ASSUME NEW k \in 0..n PROVE v[k] = Step(v)[k]
    <3>1. CASE k = 0
      BY <1>2, <3>1
    <3>2. CASE k # 0
      <4>1. k - 1 \in 0..n /\ k - 1 \in Nat /\ k - 1 < n /\ (k - 1) + 1 = k
        BY <3>2
      <4>2. w[k] = Extract(m, w[k - 1], types[k])
        BY <4>1
      <4>3. v[k - 1] = w[k - 1] /\ v[k] = w[k]
        BY <4>1
      <4>4. Step(v)[k] = Extract(m, v[k - 1], types[k])
        BY <3>2
      <4> HIDE DEF v, Step
      <4> QED BY <4>2, <4>3, <4>4
    <3> QED BY <3>1, <3>2
  <2>2. v = [k \in 0..n |-> v[k]]
    OBVIOUS
  <2>3. Step(v) = [k \in 0..n |-> Step(v)[k]]
    OBVIOUS
  <2> HIDE DEF v, Step
  <2> QED BY <2>1, <2>2, <2>3
<1>4. s = Step(s)
  <2> HIDE DEF v, Step
  <2> QED BY <1>3
<1> HIDE DEF s
<1>5. \A k \in 0..n : Step(s)[k] = IF k = 0 THEN start ELSE Extract(m, s[k - 1], types[k])
  OBVIOUS
<1>6. \A k \in 0..n : s[k] = IF k = 0 THEN start ELSE Extract(m, s[k - 1], types[k])
  <2> HIDE DEF Step
  <2> QED BY <1>4, <1>5
<1>7. s[0] = w[0]
  <2>1. 0 \in 0..n
    OBVIOUS
  <2> QED BY <1>2, <1>6, <2>1
<1>8. ASSUME NEW k \in Nat, k < n /\ s[k] = w[k] PROVE s[k + 1] = w[k + 1]
  <2>1. k + 1 \in 0..n /\ k + 1 # 0 /\ (k + 1) - 1 = k
    BY <1>8
  <2>2. s[k + 1] = Extract(m, s[k], types[k + 1])
    BY <1>6, <2>1
  <2> QED BY <1>8, <2>2
<1>9. \A k \in 0..n : s[k] = w[k]
  <2> HIDE DEF v, Step
  <2>1. \A k \in Nat : k < n /\ s[k] = w[k] => s[k + 1] = w[k + 1]
    BY <1>8
  <2> QED BY ONLY n \in Nat, <1>7, <2>1, SameSteps
<1>10. n \in 0..n
  OBVIOUS
<1> QED BY <1>1, <1>9, <1>10

(* A stream that is asked for the right types up to a point, and where it  *)
(* then fails, stays failed.                                               *)
LEMMA StreamStops ==
  ASSUME NEW m \in Seq(Byte), ValidateMessage(m),
         NEW types, NEW n \in Nat, Len(types) = n,
         NEW stop \in 0..n, stop <= ArgumentCount(m),
         \A k \in Nat : k < stop => At(m, ArgumentsBegin(m).typeTag + k) \in StreamTags[types[k + 1]],
         NEW failed, failed.outcome # "ok",
         stop < n => Extract(m, StreamAt(m, stop, "ok"), types[stop + 1]) = failed
  PROVE  Extractions(m, types)[n] = IF stop = n THEN StreamAt(m, n, "ok") ELSE failed
<1> DEFINE w == [k \in Nat |-> IF k <= stop THEN StreamAt(m, k, "ok") ELSE failed]
<1>1. stop \in Nat /\ stop <= n /\ ArgumentCount(m) \in Nat
  BY IteratorsAt
<1>2. w[0] = [p |-> ArgumentsBegin(m), outcome |-> "ok"]
  <2>1. w[0] = StreamAt(m, 0, "ok")
    BY <1>1
  <2>2. IteratorAt(m, 0) = ArgumentsBegin(m)
    BY IteratorsAt
  <2> HIDE DEF w
  <2> QED BY <2>1, <2>2 DEF StreamAt
<1>3. ASSUME NEW k \in Nat, k < n PROVE w[k + 1] = Extract(m, w[k], types[k + 1])
  <2>1. CASE k < stop
    <3>1. k < ArgumentCount(m) /\ k <= stop /\ k + 1 <= stop
      BY <1>1, <2>1
    <3>2. w[k] = StreamAt(m, k, "ok") /\ w[k + 1] = StreamAt(m, k + 1, "ok")
      BY <3>1
    <3>3. At(m, ArgumentsBegin(m).typeTag + k) \in StreamTags[types[k + 1]]
      BY <2>1
    <3>4. Extract(m, StreamAt(m, k, "ok"), types[k + 1]) = StreamAt(m, k + 1, "ok")
      BY <3>1, <3>3, ExtractIs
    <3> HIDE DEF w
    <3> QED BY <3>2, <3>4
  <2>2. CASE k = stop
    <3>1. w[k] = StreamAt(m, stop, "ok")
      BY <1>1, <2>2
    <3>2. w[k + 1] = failed
      BY <1>1, <2>2
    <3> HIDE DEF w
    <3> QED BY <1>3, <2>2, <3>1, <3>2
  <2>3. CASE k > stop
    <3>1. w[k] = failed /\ w[k + 1] = failed
      BY <1>1, <2>3
    <3>2. Extract(m, failed, types[k + 1]) = failed
      BY ExtractIs
    <3> HIDE DEF w
    <3> QED BY <3>1, <3>2
  <2> QED BY <1>1, <2>1, <2>2, <2>3
<1>4. w[n] = IF stop = n THEN StreamAt(m, n, "ok") ELSE failed
  BY <1>1
<1> HIDE DEF w
<1>5. Extractions(m, types)[n] = w[n]
  BY <1>2, <1>3, ExtractionsAre
<1> QED BY <1>4, <1>5


(* A stream that is asked for the right types comes to the end, or finds   *)
(* at EndMessage that it did not.                                          *)
LEMMA StreamReads ==
  ASSUME NEW m \in Seq(Byte), ValidateMessage(m),
         NEW types, NEW l \in Nat, Len(types) = l, l <= ArgumentCount(m),
         \A k \in Nat : k < l => At(m, ArgumentsBegin(m).typeTag + k) \in StreamTags[types[k + 1]]
  PROVE  ArgumentStream(m, types) = IF l = ArgumentCount(m) THEN "ok" ELSE "ExcessArgument"
<1> DEFINE n == ArgumentCount(m)
           failed == StreamAt(m, n, "MissingArgument")
<1>1. /\ n \in Nat
      /\ IteratorAt(m, n).typeTag = ArgumentsEnd(m).typeTag
      /\ \A k \in Nat : k < n => IteratorAt(m, k).typeTag # ArgumentsEnd(m).typeTag
  BY IteratorsAt
<1>2. failed.outcome # "ok"
  BY DEF StreamAt
<1>3. l \in 0..l /\ ~(l < l)
  OBVIOUS
<1>4. Extractions(m, types)[l] = StreamAt(m, l, "ok")
  <2> HIDE DEF failed
  <2> QED BY <1>2, <1>3, StreamStops
<1>5. l <= n
  OBVIOUS
<1> HIDE DEF n, failed
<1>6. ArgumentStream(m, types) = IF l = n THEN "ok" ELSE "ExcessArgument"
  <2>1. CASE l = n
    BY <1>1, <1>4, <2>1 DEF ArgumentStream, StreamAt
  <2>2. CASE l # n
    <3>1. IteratorAt(m, l).typeTag # ArgumentsEnd(m).typeTag
      BY <1>1, <1>5, <2>2
    <3> QED BY <1>4, <2>2, <3>1 DEF ArgumentStream, StreamAt
  <2> QED BY <2>1, <2>2
<1> QED BY <1>6 DEF n

(* One that is asked for an argument more than there are, or for a type    *)
(* that does not take the tag, throws.                                     *)
LEMMA StreamThrows ==
  ASSUME NEW m \in Seq(Byte), ValidateMessage(m),
         NEW types, NEW l \in Nat, Len(types) = l,
         NEW stop \in Nat, stop < l, stop <= ArgumentCount(m),
         \A k \in Nat : k < stop =>
           At(m, ArgumentsBegin(m).typeTag + k) \in StreamTags[types[k + 1]],
         stop < ArgumentCount(m) =>
           At(m, ArgumentsBegin(m).typeTag + stop) \notin StreamTags[types[stop + 1]]
  PROVE  ArgumentStream(m, types)
           = IF stop = ArgumentCount(m) THEN "MissingArgument" ELSE "WrongArgumentType"
<1> DEFINE n == ArgumentCount(m)
           outcome == IF stop = n THEN "MissingArgument" ELSE "WrongArgumentType"
<1>1. PICK p : p = Extract(m, StreamAt(m, stop, "ok"), types[stop + 1])
  OBVIOUS
<1>2. p.outcome = outcome
  <2>1. CASE stop = n
    <3>1. Extract(m, StreamAt(m, n, "ok"), types[stop + 1]) = StreamAt(m, n, "MissingArgument")
      BY ExtractIs
    <3> HIDE DEF n
    <3> QED BY <1>1, <2>1, <3>1 DEF StreamAt
  <2>2. CASE stop # n
    <3>1. n \in Nat
      BY IteratorsAt
    <3>2. \A k \in Nat : k < n =>
            Extract(m, StreamAt(m, k, "ok"), types[stop + 1])
              = StreamAt(m, k + 1, IF At(m, ArgumentsBegin(m).typeTag + k) \in StreamTags[types[stop + 1]]
                                   THEN "ok" ELSE "WrongArgumentType")
      BY ExtractIs
    <3>3. stop < n /\ At(m, ArgumentsBegin(m).typeTag + stop) \notin StreamTags[types[stop + 1]]
      BY <2>2, <3>1
    <3> HIDE DEF n
    <3>4. Extract(m, StreamAt(m, stop, "ok"), types[stop + 1])
            = StreamAt(m, stop + 1, "WrongArgumentType")
      BY <3>2, <3>3
    <3> QED BY <1>1, <2>2, <3>4 DEF StreamAt
  <2> QED BY <2>1, <2>2
<1>3. p.outcome # "ok"
  BY <1>2
<1>4. stop \in 0..l /\ stop # l
  OBVIOUS
<1>5. Extractions(m, types)[l] = p
  BY <1>1, <1>3, <1>4, StreamStops
<1>6. ArgumentStream(m, types) = p.outcome
  BY <1>3, <1>5 DEF ArgumentStream
<1> QED BY <1>2, <1>6

LEMMA OwnTypesAre ==
  ASSUME NEW m \in Seq(Byte), ValidateMessage(m)
  PROVE  /\ StreamableCount(m) \in Nat /\ StreamableCount(m) <= ArgumentCount(m)
         /\ OwnTypes(m) \in Seq(StreamTypes) /\ Len(OwnTypes(m)) = StreamableCount(m)
         /\ \A k \in Nat : k < StreamableCount(m) =>
              At(m, ArgumentsBegin(m).typeTag + k) \in StreamTags[OwnTypes(m)[k + 1]]
         /\ StreamableCount(m) < ArgumentCount(m) =>
              \A type \in StreamTypes :
                At(m, ArgumentsBegin(m).typeTag + StreamableCount(m)) \notin StreamTags[type]
<1> DEFINE n == ArgumentCount(m)
           b == ArgumentsBegin(m).typeTag
           Taken(k) == \E type \in StreamTypes : TagOf(m, k) \in StreamTags[type]
           ends == { k \in 1..(n + 1) : k <= n => ~Taken(k) }
           c == StreamableCount(m)
<1>1. n \in Nat
  BY IteratorsAt
<1>2. b \in Int
  <2>1. CASE HasTypeTags(m)
    <3>1. TypeTagString(m) \in Nat
      BY <2>1, TypeTagsAre
    <3> QED BY <2>1, <3>1 DEF ArgumentsBegin
  <2>2. CASE ~HasTypeTags(m)
    BY <2>2 DEF ArgumentsBegin, NULL
  <2> QED BY <2>1, <2>2
<1>3. \A k \in Nat : TagOf(m, k + 1) = At(m, b + k)
  <2>1. \A k \in Nat : TagOf(m, k + 1) = At(m, b + (k + 1) - 1)
    BY DEF TagOf
  <2> HIDE DEF b
  <2>2. \A k \in Nat : b + (k + 1) - 1 = b + k
    BY <1>2
  <2> QED BY <2>1, <2>2
<1>4. c = Min(ends) - 1
  <2>1. ends = { k \in 1..(n + 1) :
                   k <= n => \A type \in StreamTypes : TagOf(m, k) \notin StreamTags[type] }
    OBVIOUS
  <2> HIDE DEF ends
  <2> QED BY <2>1 DEF StreamableCount
<1> HIDE DEF n, b, c, Taken
<1>5. ends \in SUBSET Nat /\ n + 1 \in ends
  BY <1>1
<1>6. Min(ends) \in ends /\ \A k \in ends : Min(ends) <= k
  <2> HIDE DEF ends
  <2> QED BY <1>5, MinExists
<1>7. /\ c \in Nat /\ c <= n
      /\ c < n => ~Taken(c + 1)
      /\ \A k \in 1..c : Taken(k)
  <2>1. PICK e : e = Min(ends)
    OBVIOUS
  <2>2. /\ e \in 1..(n + 1) /\ (e <= n => ~Taken(e)) /\ c = e - 1
        /\ \A k \in 1..(n + 1) : (k <= n => ~Taken(k)) => e <= k
    BY <1>4, <1>6, <2>1
  <2>3. ASSUME NEW k \in 1..c PROVE Taken(k)
    <3>1. k \in 1..(n + 1) /\ ~(e <= k)
      BY <1>1, <2>2
    <3> QED BY <2>2, <3>1
  <2> QED BY <1>1, <2>2, <2>3
<1> HIDE DEF ends
<1>8. OwnTypes(m) = [ k \in 1..c |-> CHOOSE type \in StreamTypes : TagOf(m, k) \in StreamTags[type] ]
  BY DEF OwnTypes, c
<1>9. ASSUME NEW k \in 1..c
      PROVE  OwnTypes(m)[k] \in StreamTypes /\ TagOf(m, k) \in StreamTags[OwnTypes(m)[k]]
  <2>1. OwnTypes(m)[k] = CHOOSE type \in StreamTypes : TagOf(m, k) \in StreamTags[type]
    BY <1>8
  <2>2. \E type \in StreamTypes : TagOf(m, k) \in StreamTags[type]
    BY <1>7 DEF Taken
  <2> QED BY <2>1, <2>2
<1>10. OwnTypes(m) \in [1..c -> StreamTypes]
  BY <1>8, <1>9
<1>11. OwnTypes(m) \in Seq(StreamTypes) /\ Len(OwnTypes(m)) = c
  BY <1>7, <1>10, FunctionIsSeq
<1>12. ASSUME NEW k \in Nat, k < c PROVE At(m, b + k) \in StreamTags[OwnTypes(m)[k + 1]]
  <2>1. k + 1 \in 1..c
    BY <1>7, <1>12
  <2> QED BY <1>3, <1>9, <2>1
<1>13. c < n => \A type \in StreamTypes : At(m, b + c) \notin StreamTags[type]
  BY <1>3, <1>7 DEF Taken
<1> QED BY <1>7, <1>11, <1>12, <1>13 DEF n, b, c

(* Asked for its own types, a message is read as far as there are any.     *)
LEMMA StreamReadsOwn ==
  ASSUME NEW m \in Seq(Byte), ValidateMessage(m)
  PROVE  ArgumentStream(m, OwnTypes(m)) = IF Streamable(m) THEN "ok" ELSE "ExcessArgument"
<1>1. /\ StreamableCount(m) \in Nat /\ StreamableCount(m) <= ArgumentCount(m)
      /\ Len(OwnTypes(m)) = StreamableCount(m)
      /\ \A k \in Nat : k < StreamableCount(m) =>
           At(m, ArgumentsBegin(m).typeTag + k) \in StreamTags[OwnTypes(m)[k + 1]]
  BY OwnTypesAre
<1> QED BY <1>1, StreamReads DEF Streamable

(* One argument more, and there is none, or none that can be read.         *)
LEMMA StreamRunsOut ==
  ASSUME NEW m \in Seq(Byte), ValidateMessage(m), NEW type \in StreamTypes
  PROVE  ArgumentStream(m, Append(OwnTypes(m), type))
           = IF Streamable(m) THEN "MissingArgument" ELSE "WrongArgumentType"
<1> DEFINE own == OwnTypes(m)
           types == Append(own, type)
           c == StreamableCount(m)
<1>1. /\ c \in Nat /\ c <= ArgumentCount(m)
      /\ own \in Seq(StreamTypes) /\ Len(own) = c
      /\ \A k \in Nat : k < c => At(m, ArgumentsBegin(m).typeTag + k) \in StreamTags[own[k + 1]]
      /\ c < ArgumentCount(m) => At(m, ArgumentsBegin(m).typeTag + c) \notin StreamTags[type]
  BY OwnTypesAre
<1>2. Streamable(m) <=> c = ArgumentCount(m)
  BY DEF Streamable
<1> HIDE DEF own, c
<1>3. Len(types) = c + 1 /\ types[c + 1] = type /\ \A k \in 1..c : types[k] = own[k]
  BY <1>1, AppendProperties
<1> HIDE DEF types
<1>4. ASSUME NEW k \in Nat, k < c
      PROVE  At(m, ArgumentsBegin(m).typeTag + k) \in StreamTags[types[k + 1]]
  <2>1. k + 1 \in 1..c
    BY <1>1, <1>4
  <2> QED BY <1>1, <1>3, <1>4, <2>1
<1>5. c + 1 \in Nat /\ c < c + 1
  BY <1>1
<1>6. ArgumentStream(m, types)
        = IF c = ArgumentCount(m) THEN "MissingArgument" ELSE "WrongArgumentType"
  BY <1>1, <1>3, <1>4, <1>5, StreamThrows
<1> QED BY <1>2, <1>6 DEF types, own

(* One argument less, and EndMessage finds the last one unread.            *)
LEMMA StreamLeavesOne ==
  ASSUME NEW m \in Seq(Byte), ValidateMessage(m), OwnTypes(m) # << >>
  PROVE  ArgumentStream(m, Front(OwnTypes(m))) = "ExcessArgument"
<1> DEFINE own == OwnTypes(m)
           types == Front(own)
           c == StreamableCount(m)
           l == c - 1
<1>1. /\ c \in Nat /\ c <= ArgumentCount(m)
      /\ own \in Seq(StreamTypes) /\ Len(own) = c
      /\ \A k \in Nat : k < c => At(m, ArgumentsBegin(m).typeTag + k) \in StreamTags[own[k + 1]]
  BY OwnTypesAre
<1>2. own # << >> /\ ArgumentCount(m) \in Nat
  BY IteratorsAt
<1> HIDE DEF own, c
<1>3. c # 0
  BY <1>1, <1>2, EmptySeq
<1>4. l \in Nat /\ l < c /\ l < ArgumentCount(m)
  BY <1>1, <1>2, <1>3
<1>5. Len(types) = l /\ \A k \in 1..l : types[k] = own[k]
  <2>1. types = SubSeq(own, 1, l)
    BY <1>1 DEF Front
  <2>2. \A i \in 1..l : own[i] \in StreamTypes
    <3>1. \A i \in 1..l : i \in 1..c
      BY <1>1, <1>4
    <3> QED BY <1>1, <3>1, ElementOfSeq
  <2> HIDE DEF l
  <2>3. l \in Int /\ 1 \in Int
    BY <1>4
  <2>4. /\ Len(SubSeq(own, 1, l)) = IF 1 <= l THEN l - 1 + 1 ELSE 0
        /\ \A i \in 1..(l - 1 + 1) : SubSeq(own, 1, l)[i] = own[1 + i - 1]
    BY <2>2, <2>3, SubSeqProperties
  <2>5. (IF 1 <= l THEN l - 1 + 1 ELSE 0) = l /\ l - 1 + 1 = l
    BY <1>4
  <2>6. \A i \in 1..l : 1 + i - 1 = i
    BY <1>4
  <2> QED BY <2>1, <2>4, <2>5, <2>6
<1> HIDE DEF types, l
<1>6. ASSUME NEW k \in Nat, k < l
      PROVE  At(m, ArgumentsBegin(m).typeTag + k) \in StreamTags[types[k + 1]]
  <2>1. k + 1 \in 1..l /\ k < c
    BY <1>1, <1>4, <1>6
  <2> QED BY <1>1, <1>5, <2>1
<1>7. l <= ArgumentCount(m) /\ l # ArgumentCount(m)
  BY <1>2, <1>4
<1>8. ArgumentStream(m, types) = "ExcessArgument"
  BY <1>4, <1>5, <1>6, <1>7, StreamReads
<1> QED BY <1>8 DEF types, own

(* Another type, and the accessor refuses.                                 *)
LEMMA StreamRefuses ==
  ASSUME NEW m \in Seq(Byte), ValidateMessage(m), NEW j \in DOMAIN OwnTypes(m),
         NEW type \in StreamTypes, TagOf(m, j) \notin StreamTags[type]
  PROVE  ArgumentStream(m, [OwnTypes(m) EXCEPT ![j] = type]) = "WrongArgumentType"
<1> DEFINE own == OwnTypes(m)
           types == [own EXCEPT ![j] = type]
           c == StreamableCount(m)
           b == ArgumentsBegin(m).typeTag
           stop == j - 1
<1>1. /\ c \in Nat /\ c <= ArgumentCount(m)
      /\ own \in Seq(StreamTypes) /\ Len(own) = c
      /\ \A k \in Nat : k < c => At(m, b + k) \in StreamTags[own[k + 1]]
  BY OwnTypesAre
<1>2. ArgumentCount(m) \in Nat /\ j \in DOMAIN own /\ At(m, b + j - 1) \notin StreamTags[type]
  BY IteratorsAt DEF TagOf
<1> HIDE DEF own, b, c
<1>3. DOMAIN own = 1..c /\ own = [k \in 1..c |-> own[k]]
  BY <1>1, LenProperties
<1>4. own \in [1..c -> StreamTypes]
  <2>1. \A k \in 1..c : own[k] \in StreamTypes
    BY <1>1, ElementOfSeq
  <2> QED BY <1>3, <2>1
<1>5. /\ types \in [1..c -> StreamTypes] /\ types[j] = type
      /\ \A k \in 1..c : k # j => types[k] = own[k]
  BY <1>2, <1>3, <1>4
<1> HIDE DEF types
<1>6. Len(types) = c
  BY <1>1, <1>5, FunctionIsSeq
<1>7. j \in 1..c
  BY <1>2, <1>3
<1>8. stop \in Nat /\ stop < c /\ stop <= ArgumentCount(m) /\ stop # ArgumentCount(m) /\ stop + 1 = j
  BY <1>1, <1>2, <1>7
<1>9. At(m, b + stop) \notin StreamTags[types[stop + 1]]
  <2>1. b + j - 1 = b + stop
    <3>1. b \in Int
      <4>1. CASE HasTypeTags(m)
        <5>1. TypeTagString(m) \in Nat
          BY <4>1, TypeTagsAre
        <5> QED BY <4>1, <5>1 DEF ArgumentsBegin, b
      <4>2. CASE ~HasTypeTags(m)
        BY <4>2 DEF ArgumentsBegin, NULL, b
      <4> QED BY <4>1, <4>2
    <3> QED BY <1>7, <3>1
  <2>2. types[stop + 1] = type
    BY <1>5, <1>8
  <2> QED BY <1>2, <2>1, <2>2
<1> HIDE DEF stop
<1>10. ASSUME NEW k \in Nat, k < stop PROVE At(m, b + k) \in StreamTags[types[k + 1]]
  <2>1. k + 1 \in 1..c /\ k + 1 # j /\ k < c
    BY <1>1, <1>7, <1>8, <1>10
  <2> QED BY <1>1, <1>5, <2>1
<1>11. ArgumentStream(m, types) = "WrongArgumentType"
  <2>1. /\ \A k \in Nat : k < stop =>
             At(m, ArgumentsBegin(m).typeTag + k) \in StreamTags[types[k + 1]]
        /\ At(m, ArgumentsBegin(m).typeTag + stop) \notin StreamTags[types[stop + 1]]
    BY <1>9, <1>10 DEF b
  <2>2. ArgumentStream(m, types)
          = IF stop = ArgumentCount(m) THEN "MissingArgument" ELSE "WrongArgumentType"
    BY <1>1, <1>6, <1>8, <2>1, StreamThrows
  <2> QED BY <1>8, <2>2
<1> QED BY <1>11 DEF types, own

(* A message that reaches ProcessMessage is read by a stream that asks for *)
(* what its type tags announce, and by no stream that asks for one         *)
(* argument more, one less or another type; one with an argument that      *)
(* cannot be streamed is read up to that argument and no further.          *)
THEOREM StreamsFollowTypeTags == Spec => []StreamFollowsTypeTags
<1>1. IInv => StreamFollowsTypeTags
  <2> SUFFICES ASSUME IInv, pc = "message"
               PROVE  /\ ArgumentStream(message, OwnTypes(message))
                           = IF Streamable(message) THEN "ok" ELSE "ExcessArgument"
                      /\ \A type \in StreamTypes :
                           ArgumentStream(message, Append(OwnTypes(message), type))
                             = IF Streamable(message) THEN "MissingArgument"
                               ELSE "WrongArgumentType"
                      /\ OwnTypes(message) # << >> =>
                           ArgumentStream(message, Front(OwnTypes(message))) = "ExcessArgument"
                      /\ \A k \in DOMAIN OwnTypes(message), type \in StreamTypes :
                           TagOf(message, k) \notin StreamTags[type] =>
                             ArgumentStream(message, [OwnTypes(message) EXCEPT ![k] = type])
                               = "WrongArgumentType"
    BY DEF StreamFollowsTypeTags
  <2>1. message \in Seq(Byte) /\ ValidateMessage(message)
    BY DEF IInv, TypeOK
  <2> QED BY <2>1, StreamReadsOwn, StreamRunsOut, StreamLeavesOne, StreamRefuses
<1> QED BY <1>1, Invariance, PTL

=============================================================================
