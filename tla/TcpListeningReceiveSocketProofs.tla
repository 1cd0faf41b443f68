------------------ MODULE TcpListeningReceiveSocketProofs ------------------
(***************************************************************************)
(* Proofs about TcpListeningReceiveSocket, for every set of sessions with  *)
(* any scripts, every finite set of descriptors, every set of calling      *)
(* threads and every capacity of the pipe.                                 *)
(***************************************************************************)
EXTENDS TcpListeningReceiveSocket, SequenceTheorems, WellFoundedInduction, TLAPS

-----------------------------------------------------------------------------
(* The inductive invariant.                                                *)

(* Where Run is, what is in its hands and what it may rely on there: the   *)
(* part of the invariant that holds the others up.                         *)
Control ==
  /\ pc = "drain" /\ readfds.pipe => pipe > 0
  /\ pc \in {"drain", "test", "accept"} /\ readfds.listen => backlog # << >>
  /\ pc = "leave" => break_
  /\ ready \subseteq DOMAIN connections
  /\ pc \in {"consume", "packet"} => fd \in DOMAIN connections /\ fd \notin ready
  /\ chunk # << >> => pc \in {"consume", "packet"}
  /\ pc = "out" => late = NotStopping
  /\ late # NotStopping => break_
  /\ late > 0 =>
       late = 1 /\ pc \in {"consume", "packet", "serviced", "loop", "leave", "unwind"}

(* A session waits to be accepted once, or is behind one descriptor; what  *)
(* is waiting has not been read from.                                      *)
HeldOnce ==
  /\ IsInjective(backlog) /\ IsInjective(socketOf)
  /\ ToSet(backlog) \cap Range(socketOf) = {}
  /\ \A s \in ToSet(backlog) : recvd[s] = 0 /\ delivered[s] = << >>

(* The tokens in hand are the last ones read from the connection serviced. *)
ChunkIsUnread ==
  pc \in {"consume", "packet"} =>
    LET s == socketOf[fd]
    IN  /\ Len(chunk) <= recvd[s]
        /\ chunk = Slice(s, recvd[s] - Len(chunk), recvd[s])

IInv ==
  /\ TypeOK /\ Control /\ DescriptorsOwned /\ HeldOnce /\ ChunkIsUnread
  /\ SessionsKeptApart /\ NoLostWakeup

-----------------------------------------------------------------------------
(* Lemmas about Min, Tail and slices of a session's tokens.                *)

(* The least of some descriptors.                                          *)
LEMMA MinProperties ==
  ASSUME NEW S \in SUBSET Nat, S # {}
  PROVE  Min(S) \in S /\ \A y \in S : Min(S) <= y
<1> DEFINE R == { p \in Nat \X Nat : p[1] < p[2] }
<1>1. IsWellFoundedOn(R, Nat)
  BY NatLessThanWellFounded DEF OpToRel
<1>2. PICK x \in S : \A y \in S : << y, x >> \notin R
  BY <1>1, WFMin
<1>3. ASSUME NEW y \in S PROVE x <= y
  <2>1. x \in Nat /\ y \in Nat
    OBVIOUS
  <2>2. y < x => << y, x >> \in R
    BY <2>1
  <2> QED BY <1>2, <2>1, <2>2
<1> QED BY <1>3 DEF Min

(* What a slice is: its length and its tokens.                             *)
LEMMA SliceProperties ==
  ASSUME NEW s \in Sessions, NEW m \in Nat, NEW n \in Nat, m <= n, n <= Len(Script[s])
  PROVE  /\ Slice(s, m, n) \in Seq(Tokens)
         /\ Len(Slice(s, m, n)) = n - m
         /\ \A j \in 1..(n - m) : Slice(s, m, n)[j] = Token(s, m + j)
<1>1. n - m \in Nat /\ Len(Script[s]) \in Nat
  BY ScriptAssumption, LenProperties
<1>2. \A j \in 1..(n - m) : Token(s, m + j) \in Tokens
  <2> SUFFICES ASSUME NEW j \in 1..(n - m) PROVE Token(s, m + j) \in Tokens
    OBVIOUS
  <2>1. m + j \in 1..Len(Script[s])
    BY <1>1
  <2>2. Token(s, m + j) \in TokensOf(s)
    BY <2>1 DEF TokensOf
  <2> QED BY <2>2 DEF Tokens
<1>3. Slice(s, m, n) \in [1..(n - m) -> Tokens]
  BY <1>2 DEF Slice
<1>4. Slice(s, m, n) \in Seq(Tokens)
  BY <1>1, <1>3, SeqDef
<1>5. Len(Slice(s, m, n)) = n - m
  BY <1>1, <1>3, <1>4, LenProperties
<1> QED BY <1>4, <1>5 DEF Slice

(* A slice that grows by the token behind it.                              *)
LEMMA SliceGrows ==
  ASSUME NEW s \in Sessions, NEW m \in Nat, NEW n \in Nat, m <= n, n < Len(Script[s])
  PROVE  Append(Slice(s, m, n), Token(s, n + 1)) = Slice(s, m, n + 1)
<1> DEFINE k == n + 1
           q == Slice(s, m, n)
           r == Slice(s, m, k)
           t == Append(q, Token(s, k))
<1>1. k \in Nat /\ k = n + 1 /\ n <= Len(Script[s]) /\ m <= k /\ k <= Len(Script[s])
  BY ScriptAssumption, LenProperties
<1> HIDE DEF k
<1>2. /\ q \in Seq(Tokens) /\ Len(q) = n - m
      /\ \A j \in 1..(n - m) : q[j] = Token(s, m + j)
  BY <1>1, SliceProperties
<1>3. /\ r \in Seq(Tokens) /\ Len(r) = k - m
      /\ \A j \in 1..(k - m) : r[j] = Token(s, m + j)
  BY <1>1, SliceProperties
<1> HIDE DEF q, r
<1>4. r[k - m] = Token(s, k)
  <2>1. k - m \in 1..(k - m) /\ m + (k - m) = k
    BY <1>1
  <2> QED BY <1>3, <2>1
<1>5. Token(s, k) \in Tokens
  <2>1. k - m \in 1..Len(r)
    BY <1>1, <1>3
  <2> QED BY <1>3, <1>4, <2>1, ElementOfSeq
<1>6. /\ t \in Seq(Tokens) /\ Len(t) = Len(q) + 1
      /\ \A j \in 1..Len(q) : t[j] = q[j]
      /\ t[Len(q) + 1] = Token(s, k)
  BY <1>2, <1>5, AppendProperties
<1> HIDE DEF t
<1>7. Len(t) = Len(r) /\ Len(q) + 1 = k - m
  BY <1>1, <1>2, <1>3, <1>6
<1>8. ASSUME NEW j \in 1..Len(t) PROVE t[j] = r[j]
  <2>1. CASE j = k - m
    BY <2>1, <1>4, <1>6, <1>7
  <2>2. CASE j # k - m
    <3>1. j \in 1..Len(q) /\ j \in 1..(n - m) /\ j \in 1..(k - m)
      BY <2>2, <1>1, <1>2, <1>3, <1>7
    <3> QED BY <3>1, <1>2, <1>3, <1>6
  <2> QED BY <2>1, <2>2
<1>9. t = r
  BY <1>3, <1>6, <1>7, <1>8, SeqEqual
<1> QED BY <1>9 DEF t, q, r, k

(* A slice without its first token.                                        *)
LEMMA SliceTail ==
  ASSUME NEW s \in Sessions, NEW m \in Nat, NEW n \in Nat, m < n, n <= Len(Script[s])
  PROVE  /\ Slice(s, m, n) # << >>
         /\ Head(Slice(s, m, n)) = Token(s, m + 1)
         /\ Tail(Slice(s, m, n)) = Slice(s, m + 1, n)
<1>1. m <= n /\ m + 1 <= n /\ m + 1 \in Nat
  OBVIOUS
<1>2. /\ Slice(s, m, n) \in Seq(Tokens) /\ Len(Slice(s, m, n)) = n - m
      /\ \A j \in 1..(n - m) : Slice(s, m, n)[j] = Token(s, m + j)
  BY <1>1, SliceProperties
<1>3. /\ Slice(s, m + 1, n) \in Seq(Tokens) /\ Len(Slice(s, m + 1, n)) = n - (m + 1)
      /\ \A j \in 1..(n - (m + 1)) : Slice(s, m + 1, n)[j] = Token(s, m + 1 + j)
  BY <1>1, SliceProperties
<1> DEFINE q == Slice(s, m, n)
<1>4. q # << >>
  BY <1>2, EmptySeq
<1>5. /\ Tail(q) \in Seq(Tokens) /\ Len(Tail(q)) = n - m - 1
      /\ \A j \in 1..Len(Tail(q)) : Tail(q)[j] = q[j + 1]
  BY <1>2, <1>4, HeadTailProperties
<1>6. Head(q) = Token(s, m + 1)
  <2>1. Head(q) = q[1]
    BY <1>2, <1>4
  <2> QED BY <2>1, <1>2
<1>7. Tail(q) = Slice(s, m + 1, n)
  <2>1. Len(Tail(q)) = Len(Slice(s, m + 1, n))
    BY <1>3, <1>5
  <2>2. ASSUME NEW j \in 1..Len(Tail(q)) PROVE Tail(q)[j] = Slice(s, m + 1, n)[j]
    <3>1. j \in 1..(n - (m + 1)) /\ j + 1 \in 1..(n - m) /\ m + (j + 1) = m + 1 + j
      BY <1>5
    <3>2. Tail(q)[j] = q[j + 1]
      BY <1>5
    <3>3. q[j + 1] = Token(s, m + (j + 1))
      BY <3>1, <1>2
    <3> QED BY <3>1, <3>2, <3>3, <1>3
  <2> HIDE DEF q
  <2> QED BY <1>3, <1>5, <2>1, <2>2, SeqEqual
<1> QED BY <1>4, <1>6, <1>7

(* A slice of nothing.                                                     *)
LEMMA SliceEmpty ==
  ASSUME NEW s \in Sessions, NEW m \in Nat, m <= Len(Script[s])
  PROVE  Slice(s, m, m) = << >>
<1>1. Slice(s, m, m) \in Seq(Tokens) /\ Len(Slice(s, m, m)) = m - m
  BY SliceProperties
<1>2. Len(Slice(s, m, m)) = 0
  BY <1>1
<1> QED BY <1>1, <1>2, EmptySeq

-----------------------------------------------------------------------------
(* Lemmas about cutting a session's tokens into packets: what reading one  *)
(* more token does.                                                        *)

(* Before anything was read.                                               *)
LEMMA CutNothing ==
  ASSUME NEW s \in Sessions
  PROVE  CutInto(s, 0, << >>, << >>)
<1> DEFINE cut == [ k \in 0..0 |-> 0 ]
<1>1. Len(<< >>) = 0
  OBVIOUS
<1>2. cut \in [0..Len(<< >>) -> 0..0] /\ cut[0] = 0
  BY <1>1
<1>3. Slice(s, 0, 0) = << >>
  BY SliceEmpty, ScriptAssumption, LenProperties
<1> HIDE DEF cut
<1>4. Cuts(s, 0, << >>, << >>, cut)
  BY <1>1, <1>2, <1>3 DEF Cuts
<1> QED BY <1>2, <1>4 DEF CutInto

(* A token that leaves the frame incomplete.                               *)
LEMMA CutGather ==
  ASSUME NEW s \in Sessions, NEW n \in Nat, n < Len(Script[s]),
         NEW packets \in Seq(Seq(Tokens)), NEW frame,
         CutInto(s, n, packets, frame), Script[s][n + 1] = "part"
  PROVE  CutInto(s, n + 1, packets, Append(frame, Token(s, n + 1)))
<1>1. PICK cut \in [0..Len(packets) -> 0..n] : Cuts(s, n, packets, frame, cut)
  BY DEF CutInto
<1> DEFINE count == Len(packets)
<1>2. count \in Nat
  BY LenProperties
<1>3. cut \in [0..count -> 0..n + 1]
  BY <1>1
<1>4. cut[count] \in 0..n
  <2>1. count \in 0..count
    BY <1>2
  <2> QED BY <1>1, <2>1
<1>5. frame = Slice(s, cut[count], n)
  BY <1>1 DEF Cuts
<1>6. Append(frame, Token(s, n + 1)) = Slice(s, cut[count], n + 1)
  BY <1>4, <1>5, SliceGrows
<1>7. \A j \in cut[count] + 1..n + 1 : Script[s][j] = "part"
  BY <1>1, <1>4 DEF Cuts
<1>8. Cuts(s, n + 1, packets, Append(frame, Token(s, n + 1)), cut)
  BY <1>1, <1>6, <1>7 DEF Cuts
<1> QED BY <1>3, <1>8 DEF CutInto

(* A token that completes it: one packet more, and an empty frame.         *)
LEMMA CutDispatch ==
  ASSUME NEW s \in Sessions, NEW n \in Nat, n < Len(Script[s]),
         NEW packets \in Seq(Seq(Tokens)), NEW frame \in Seq(Tokens),
         CutInto(s, n, packets, frame), Script[s][n + 1] = "end"
  PROVE  CutInto(s, n + 1, Append(packets, Append(frame, Token(s, n + 1))), << >>)
<1>1. PICK old \in [0..Len(packets) -> 0..n] : Cuts(s, n, packets, frame, old)
  BY DEF CutInto
<1> DEFINE count == Len(packets)
           packet == Append(frame, Token(s, n + 1))
           more == Append(packets, packet)
           cut == [ k \in 0..(count + 1) |-> IF k = count + 1 THEN n + 1 ELSE old[k] ]
<1>2. count \in Nat /\ n + 1 <= Len(Script[s]) /\ Len(Script[s]) \in Nat
  BY LenProperties, ScriptAssumption
<1>3. old[count] \in 0..n /\ frame = Slice(s, old[count], n)
  BY <1>1, <1>2 DEF Cuts
<1>4. packet = Slice(s, old[count], n + 1)
  BY <1>3, SliceGrows
<1>5. packet \in Seq(Tokens)
  <2> DEFINE k == n + 1
  <2>1. k \in Nat /\ old[count] \in Nat /\ old[count] <= k /\ k <= Len(Script[s])
    BY <1>2, <1>3
  <2> HIDE DEF k
  <2>2. Slice(s, old[count], k) \in Seq(Tokens)
    BY <2>1, SliceProperties
  <2> QED BY <2>2, <1>4 DEF k
<1>6. /\ more \in Seq(Seq(Tokens)) /\ Len(more) = count + 1
      /\ \A k \in 1..count : more[k] = packets[k]
      /\ more[count + 1] = packet
  BY <1>5, AppendProperties
<1>7. /\ cut \in [0..(count + 1) -> 0..n + 1]
      /\ cut[count + 1] = n + 1
      /\ \A k \in 0..count : cut[k] = old[k]
  BY <1>1, <1>2
<1> HIDE DEF packet, more, cut
<1>8. Slice(s, n + 1, n + 1) = << >>
  <2> DEFINE k == n + 1
  <2>1. k \in Nat /\ k <= Len(Script[s])
    BY <1>2
  <2> HIDE DEF k
  <2>2. Slice(s, k, k) = << >>
    BY <2>1, SliceEmpty
  <2> QED BY <2>2 DEF k
<1>9. ASSUME NEW k \in 1..(count + 1)
      PROVE  /\ cut[k - 1] < cut[k]
             /\ more[k] = Slice(s, cut[k - 1], cut[k])
             /\ \A j \in cut[k - 1] + 1..cut[k] :
                  Script[s][j] = IF j = cut[k] THEN "end" ELSE "part"
  <2>1. CASE k = count + 1
    <3>1. k - 1 = count /\ cut[k - 1] = old[count] /\ cut[k] = n + 1 /\ more[k] = packet
      BY <2>1, <1>2, <1>6, <1>7
    <3>2. \A j \in old[count] + 1..n : Script[s][j] = "part"
      BY <1>1 DEF Cuts
    <3>3. \A j \in old[count] + 1..n + 1 :
             Script[s][j] = IF j = n + 1 THEN "end" ELSE "part"
      BY <3>2, <1>3
    <3>4. old[count] < n + 1
      BY <1>3
    <3> QED BY <3>1, <3>3, <3>4, <1>4
  <2>2. CASE k # count + 1
    <3>1. k \in 1..count /\ k - 1 \in 0..count /\ k \in 0..count
      BY <2>2, <1>2
    <3>2. cut[k - 1] = old[k - 1] /\ cut[k] = old[k] /\ more[k] = packets[k]
      BY <3>1, <1>6, <1>7
    <3>3. /\ old[k - 1] < old[k]
          /\ packets[k] = Slice(s, old[k - 1], old[k])
          /\ \A j \in old[k - 1] + 1..old[k] :
               Script[s][j] = IF j = old[k] THEN "end" ELSE "part"
      BY <3>1, <1>1 DEF Cuts
    <3> QED BY <3>2, <3>3
  <2> QED BY <2>1, <2>2
<1>10. cut[0] = 0
  BY <1>1, <1>2, <1>7 DEF Cuts
<1>11. Cuts(s, n + 1, more, << >>, cut)
  <2>1. \A j \in cut[count + 1] + 1..n + 1 : Script[s][j] = "part"
    BY <1>7
  <2> QED BY <1>6, <1>7, <1>8, <1>9, <1>10, <2>1 DEF Cuts
<1>12. CutInto(s, n + 1, more, << >>)
  BY <1>6, <1>7, <1>11 DEF CutInto
<1> QED BY <1>12 DEF more, packet

-----------------------------------------------------------------------------
(* Lemmas about the queue of sessions that wait for accept().              *)

(* Taking its head.                                                        *)
LEMMA QueueTail ==
  ASSUME NEW S, NEW q \in Seq(S), q # << >>, IsInjective(q)
  PROVE  /\ Tail(q) \in Seq(S) /\ IsInjective(Tail(q))
         /\ Head(q) \in S /\ Head(q) \in ToSet(q)
         /\ ToSet(Tail(q)) \subseteq ToSet(q)
         /\ Head(q) \notin ToSet(Tail(q))
<1>1. Len(q) \in Nat /\ DOMAIN q = 1..Len(q) /\ 1 \in DOMAIN q /\ Head(q) = q[1]
  <2>1. Len(q) \in Nat \ {0} /\ DOMAIN q = 1..Len(q)
    BY EmptySeq, LenProperties
  <2> QED BY <2>1
<1>2. /\ Head(q) \in S /\ Tail(q) \in Seq(S) /\ Len(Tail(q)) = Len(q) - 1
      /\ \A j \in 1..Len(Tail(q)) : Tail(q)[j] = q[j + 1]
  BY HeadTailProperties
<1> DEFINE t == Tail(q)
<1>3. Len(t) \in Nat /\ DOMAIN t = 1..Len(t) /\ \A j \in 1..Len(t) : t[j] = q[j + 1]
  BY <1>2, LenProperties
<1>4. \A j \in 1..Len(t) : j + 1 \in DOMAIN q /\ j + 1 # 1
  BY <1>1, <1>2, <1>3
<1> HIDE DEF t
<1>5. IsInjective(t)
  BY <1>3, <1>4 DEF IsInjective
<1>6. ToSet(t) \subseteq ToSet(q)
  BY <1>3, <1>4 DEF ToSet
<1>7. Head(q) \notin ToSet(t)
  BY <1>1, <1>3, <1>4 DEF ToSet, IsInjective
<1>8. Head(q) \in ToSet(q)
  BY <1>1 DEF ToSet
<1> QED BY <1>2, <1>5, <1>6, <1>7, <1>8 DEF t

(* Adding a session that is not in it.                                     *)
LEMMA QueueAppend ==
  ASSUME NEW S, NEW q \in Seq(S), NEW e \in S, IsInjective(q), e \notin ToSet(q)
  PROVE  /\ Append(q, e) \in Seq(S) /\ Append(q, e) # << >>
         /\ IsInjective(Append(q, e))
         /\ ToSet(Append(q, e)) = ToSet(q) \cup {e}
<1> DEFINE a == Append(q, e)
<1>1. /\ a \in Seq(S) /\ a # << >> /\ Len(a) = Len(q) + 1
      /\ \A j \in 1..Len(q) : a[j] = q[j]
      /\ a[Len(q) + 1] = e
  BY AppendProperties
<1>2. Len(q) \in Nat /\ DOMAIN q = 1..Len(q) /\ DOMAIN a = 1..(Len(q) + 1)
  BY <1>1, LenProperties
<1> HIDE DEF a
<1>3. \A j \in DOMAIN a : j \in DOMAIN q \/ j = Len(q) + 1
  BY <1>2
<1>4. IsInjective(a)
  BY <1>1, <1>2, <1>3 DEF IsInjective, ToSet
<1>5. Len(q) + 1 \in DOMAIN a /\ DOMAIN q \subseteq DOMAIN a
  BY <1>2
<1>6. ToSet(a) = ToSet(q) \cup {e}
  BY <1>1, <1>2, <1>3, <1>5 DEF ToSet
<1> QED BY <1>1, <1>4, <1>6 DEF a

-----------------------------------------------------------------------------
(* The inductive invariant.                                                *)

(* The initial state satisfies it.                                         *)
LEMMA InitIInv == Init => IInv
<1> SUFFICES ASSUME Init PROVE IInv
  OBVIOUS
<1>1. /\ << >> \in Seq(Tokens) /\ << >> \in Seq(Sessions) /\ << >> \in Seq(Seq(Tokens))
      /\ DOMAIN << >> = {}
  BY EmptySeq
<1>2. TypeOK
  <2>1. /\ connections \in [DOMAIN connections -> Connection]
        /\ socketOf \in [DOMAIN socketOf -> Sessions]
        /\ DOMAIN connections \subseteq Fds /\ DOMAIN socketOf \subseteq Fds
    BY <1>1 DEF Init
  <2>2. /\ caller \in [Callers -> {"idle", "write"}]
        /\ link \in [Sessions -> {"up", "closed"}]
        /\ sent \in [Sessions -> Nat] /\ recvd \in [Sessions -> Nat]
        /\ delivered \in [Sessions -> Seq(Seq(Tokens))]
        /\ \A s \in Sessions : recvd[s] <= sent[s] /\ sent[s] <= Len(Script[s])
    BY <1>1, ScriptAssumption, LenProperties DEF Init
  <2>3. /\ pipe \in 0..PipeCapacity
        /\ ready \subseteq Fds /\ fd \in Fds \cup {NoFd}
        /\ late \in Nat \cup {NotStopping}
    BY PipeAssumption DEF Init
  <2>5. chunk \in Seq(Tokens) /\ backlog \in Seq(Sessions)
    BY <1>1 DEF Init
  <2>6. break_ \in BOOLEAN
    BY DEF Init
  <2>4. readfds \in [pipe : BOOLEAN, listen : BOOLEAN, conns : SUBSET Fds]
    BY DEF Init, Nothing
  <2> QED BY <2>1, <2>2, <2>3, <2>4, <2>5, <2>6 DEF Init, TypeOK
<1>3. Control /\ NoLostWakeup /\ ChunkIsUnread
  BY DEF Init, Control, NoLostWakeup, ChunkIsUnread, NotStopping
<1>4. DescriptorsOwned /\ SessionsKeptApart
  BY <1>1 DEF Init, DescriptorsOwned, SessionsKeptApart
<1>5. HeldOnce
  BY <1>1 DEF Init, HeldOnce, IsInjective, ToSet, Range
<1> QED BY <1>2, <1>3, <1>4, <1>5 DEF IInv

(* What a step that does not touch connections, descriptors or what was    *)
(* read keeps of the sessions.                                             *)
LEMMA SessionsUntouched ==
  ASSUME IInv,
         UNCHANGED << connections, socketOf, backlog, recvd, delivered, fd, chunk >>,
         pc' \in {"consume", "packet"} => pc \in {"consume", "packet"}
  PROVE  (DescriptorsOwned /\ HeldOnce /\ ChunkIsUnread /\ SessionsKeptApart)'
<1> QED BY DEF IInv, DescriptorsOwned, HeldOnce, ChunkIsUnread, SessionsKeptApart

(* The steps of Run that only move on in its loops.                        *)
LEMMA LoopStep ==
  ASSUME IInv,
         Run \/ LoopTest \/ SelectFails \/ TestBreak \/ ServiceEnds \/ Serviced
           \/ ConsumeReturns \/ ListenerReturns
  PROVE  IInv'
<1>1. /\ \/ pc = "out" /\ pc' = "loop"
         \/ pc = "loop" /\ pc' = IF break_ THEN "leave" ELSE "select"
         \/ pc = "select" /\ break_ /\ pc' = "leave"
         \/ pc = "select" /\ pc' \in {"loop", "unwind"}
         \/ pc = "test" /\ pc' = IF break_ THEN "leave" ELSE "accept"
         \/ pc = "ready" /\ pc' = "loop"
         \/ pc = "serviced" /\ pc' = IF break_ THEN "loop" ELSE "ready"
         \/ pc = "consume" /\ chunk = << >> /\ pc' = "serviced"
         \/ pc = "packet" /\ pc' = "consume"
      /\ UNCHANGED << connections, break_, pipe, caller, readfds, ready, fd, chunk, backlog,
                     socketOf, link, sent, recvd, delivered, outcome, late >>
  BY DEF Run, LoopTest, SelectFails, TestBreak, ServiceEnds, Serviced, ConsumeReturns,
         ListenerReturns, breakVars, loopVars, kernelVars, clientVars
<1>2. TypeOK'
  BY <1>1 DEF IInv, TypeOK
<1>3. Control'
  <2>1. (late # NotStopping) => break_
    BY DEF IInv, Control
  <2>2. late' > 0 => /\ late' = 1
                     /\ pc' \in {"consume", "packet", "serviced", "loop", "leave", "unwind"}
    BY <1>1, <2>1 DEF IInv, Control, NotStopping
  <2>3. pc' # "out" /\ pc' # "drain"
    BY <1>1
  <2>4. /\ pc' \in {"drain", "test", "accept"} => pc \in {"drain", "test", "accept"}
        /\ pc' \in {"consume", "packet"} => pc \in {"consume", "packet"}
        /\ chunk # << >> /\ pc \in {"consume", "packet"} => pc' \in {"consume", "packet"}
        /\ pc' = "leave" => break_
    BY <1>1 DEF IInv, TypeOK
  <2> QED BY <1>1, <2>1, <2>2, <2>3, <2>4 DEF IInv, Control
<1>4. NoLostWakeup'
  BY <1>1 DEF IInv, TypeOK, NoLostWakeup
<1>5. (DescriptorsOwned /\ HeldOnce /\ ChunkIsUnread /\ SessionsKeptApart)'
  BY <1>1, SessionsUntouched
<1> QED BY <1>2, <1>3, <1>4, <1>5 DEF IInv

(* select() returns; what it reports is there until Run takes it.          *)
LEMMA SelectReturnsStep ==
  ASSUME IInv, SelectReturns
  PROVE  IInv'
<1>1. /\ pc = "select" /\ pc' = "drain" /\ readfds' = Readable
      /\ UNCHANGED << connections, break_, pipe, caller, ready, fd, chunk, backlog,
                     socketOf, link, sent, recvd, delivered, outcome, late >>
  BY DEF SelectReturns, breakVars, kernelVars, clientVars
<1>2. Readable \in [pipe : BOOLEAN, listen : BOOLEAN, conns : SUBSET Fds]
  BY DEF Readable, IInv, TypeOK
<1>3. TypeOK'
  BY <1>1, <1>2 DEF IInv, TypeOK
<1>4. Control'
  BY <1>1 DEF IInv, TypeOK, Control, NotStopping, Readable
<1>5. NoLostWakeup'
  BY <1>1 DEF NoLostWakeup
<1>6. (DescriptorsOwned /\ HeldOnce /\ ChunkIsUnread /\ SessionsKeptApart)'
  BY <1>1, SessionsUntouched
<1> QED BY <1>3, <1>4, <1>5, <1>6 DEF IInv

(* The byte is read only when select() reported it.                        *)
LEMMA DrainBreakPipeStep ==
  ASSUME IInv, DrainBreakPipe
  PROVE  IInv'
<1>1. /\ pc = "drain" /\ pc' = "test"
      /\ UNCHANGED << connections, break_, caller, readfds, ready, fd, chunk, backlog,
                     socketOf, link, sent, recvd, delivered, outcome, late >>
  BY DEF DrainBreakPipe, loopVars, kernelVars, clientVars
<1>2. pipe' \in 0..PipeCapacity
  BY PipeAssumption DEF DrainBreakPipe, IInv, TypeOK, Control
<1>3. TypeOK'
  BY <1>1, <1>2 DEF IInv, TypeOK
<1>4. Control' /\ NoLostWakeup'
  BY <1>1 DEF IInv, Control, NotStopping, NoLostWakeup
<1>5. (DescriptorsOwned /\ HeldOnce /\ ChunkIsUnread /\ SessionsKeptApart)'
  BY <1>1, SessionsUntouched
<1> QED BY <1>3, <1>4, <1>5 DEF IInv

(* The flag is set before the byte is written, so the byte a caller still  *)
(* owes covers every select() that begins afterwards; and a listener's     *)
(* Break is seen before another connection is serviced.                    *)
LEMMA StopRequestStep ==
  ASSUME IInv, Break \/ \E t \in Callers : AsynchronousBreak(t) \/ WriteBreakPipe(t)
  PROVE  IInv'
<1>1. UNCHANGED << connections, pc, readfds, ready, fd, chunk, backlog, socketOf, link,
                   sent, recvd, delivered, outcome >>
  BY DEF Break, AsynchronousBreak, WriteBreakPipe, loopVars, kernelVars, clientVars
<1>2. (DescriptorsOwned /\ HeldOnce /\ ChunkIsUnread /\ SessionsKeptApart)'
  BY <1>1, SessionsUntouched
<1>3. CASE Break
  <2>1. /\ pc \in {"out", "packet"} /\ break_' = TRUE /\ UNCHANGED << pipe, caller >>
        /\ late' = IF pc = "packet" THEN 1 ELSE late
    BY <1>3 DEF Break
  <2>2. TypeOK'
    BY <1>1, <2>1 DEF IInv, TypeOK
  <2>3. Control' /\ NoLostWakeup'
    BY <1>1, <2>1 DEF IInv, Control, NoLostWakeup, NotStopping
  <2> QED BY <1>2, <2>2, <2>3 DEF IInv
<1>4. ASSUME NEW t \in Callers, AsynchronousBreak(t)
      PROVE  IInv'
  <2>1. /\ break_' = TRUE /\ UNCHANGED pipe
        /\ late' = IF pc # "out" /\ late = NotStopping THEN 0 ELSE late
        /\ caller' = [caller EXCEPT ![t] = "write"]
    BY <1>4 DEF AsynchronousBreak
  <2>2. caller'[t] = "write" /\ caller' \in [Callers -> {"idle", "write"}]
    BY <2>1 DEF IInv, TypeOK
  <2>3. TypeOK'
    BY <1>1, <2>1, <2>2 DEF IInv, TypeOK
  <2>4. Control'
    BY <1>1, <2>1 DEF IInv, TypeOK, Control, NotStopping
  <2>5. NoLostWakeup'
    BY <2>2 DEF NoLostWakeup
  <2> QED BY <1>2, <2>3, <2>4, <2>5 DEF IInv
<1>5. ASSUME NEW t \in Callers, WriteBreakPipe(t)
      PROVE  IInv'
  <2>1. /\ pipe < PipeCapacity /\ pipe' = pipe + 1 /\ UNCHANGED << break_, late >>
        /\ caller' = [caller EXCEPT ![t] = "idle"]
    BY <1>5 DEF WriteBreakPipe
  <2>2. pipe' \in 0..PipeCapacity /\ pipe' > 0
    BY <2>1, PipeAssumption DEF IInv, TypeOK
  <2>3. TypeOK'
    BY <1>1, <2>1, <2>2 DEF IInv, TypeOK
  <2>4. Control' /\ NoLostWakeup'
    BY <1>1, <2>1, <2>2 DEF IInv, Control, NoLostWakeup, NotStopping
  <2> QED BY <1>2, <2>3, <2>4 DEF IInv
<1> QED BY <1>3, <1>4, <1>5

(* The session accepted is behind one descriptor, with nothing read yet;   *)
(* the entry of a descriptor handed out again is new.                      *)
LEMMA AcceptStep ==
  ASSUME IInv, Accept
  PROVE  IInv'
<1>1. /\ pc = "accept" /\ pc' = "ready"
      /\ ready' = DOMAIN connections' \cap readfds.conns
      /\ UNCHANGED << break_, pipe, caller, readfds, fd, chunk, link, sent, recvd,
                     delivered, outcome, late >>
  BY DEF Accept, breakVars, clientVars
<1>2. chunk = << >> /\ chunk' = << >>
  BY <1>1 DEF IInv, Control
<1>3. readfds.conns \subseteq Fds
  BY DEF IInv, TypeOK
<1>4. NoLostWakeup'
  BY <1>1 DEF NoLostWakeup
<1>5. ready' \subseteq Fds
  BY <1>1, <1>3
<1>6. Control'
  BY <1>1, <1>2 DEF IInv, Control, NotStopping
<1>7. CASE ~(readfds.listen /\ FreeFds # {})
  <2>1. UNCHANGED << connections, socketOf, backlog >>
    BY <1>7 DEF Accept, kernelVars
  <2>2. TypeOK'
    BY <1>1, <1>5, <2>1 DEF IInv, TypeOK
  <2>3. (DescriptorsOwned /\ HeldOnce /\ ChunkIsUnread /\ SessionsKeptApart)'
    BY <1>1, <2>1, SessionsUntouched
  <2> QED BY <1>4, <1>6, <2>2, <2>3 DEF IInv
<1>8. CASE readfds.listen /\ FreeFds # {}
  <2> DEFINE f == Min(FreeFds)
             s == Head(backlog)
             entry == [peer |-> s, frame |-> << >>, spoiled |-> FALSE]
  <2>1. f \in FreeFds
    BY <1>8, FdsAssumption, MinProperties DEF FreeFds
  <2>2. f \in Fds /\ f \notin DOMAIN socketOf /\ f \notin DOMAIN connections
    BY <2>1 DEF FreeFds, IInv, DescriptorsOwned
  <2>3. backlog # << >>
    BY <1>1, <1>8 DEF IInv, Control
  <2>4. /\ Tail(backlog) \in Seq(Sessions) /\ IsInjective(Tail(backlog))
        /\ s \in Sessions /\ s \in ToSet(backlog)
        /\ ToSet(Tail(backlog)) \subseteq ToSet(backlog)
        /\ s \notin ToSet(Tail(backlog))
    BY <2>3, QueueTail DEF IInv, TypeOK, HeldOnce
  <2>5. /\ socketOf' = [ g \in DOMAIN socketOf \cup {f} |-> IF g = f THEN s ELSE socketOf[g] ]
        /\ backlog' = Tail(backlog)
        /\ connections' = [ g \in DOMAIN connections \cup {f} |->
                              IF g \in DOMAIN connections THEN connections[g] ELSE entry ]
    BY <1>8 DEF Accept, AcceptConnection
  <2> HIDE DEF f, s
  <2>6. entry \in Connection
    BY <2>4, EmptySeq DEF Connection
  <2>7. /\ DOMAIN socketOf' = DOMAIN socketOf \cup {f}
        /\ socketOf'[f] = s
        /\ \A g \in DOMAIN socketOf : socketOf'[g] = socketOf[g]
        /\ socketOf' \in [DOMAIN socketOf' -> Sessions]
    BY <2>2, <2>4, <2>5 DEF IInv, TypeOK
  <2>8. /\ DOMAIN connections' = DOMAIN connections \cup {f}
        /\ connections'[f] = entry
        /\ \A g \in DOMAIN connections : connections'[g] = connections[g]
        /\ connections' \in [DOMAIN connections' -> Connection]
    BY <2>2, <2>5, <2>6 DEF IInv, TypeOK
  <2>9. TypeOK'
    BY <1>1, <1>5, <2>2, <2>4, <2>5, <2>7, <2>8 DEF IInv, TypeOK
  <2>10. DescriptorsOwned'
    BY <2>7, <2>8 DEF IInv, DescriptorsOwned
  <2>11. Range(socketOf') = Range(socketOf) \cup {s}
    BY <2>7 DEF Range
  <2>12. s \notin Range(socketOf) /\ recvd[s] = 0 /\ delivered[s] = << >>
    BY <2>4 DEF IInv, HeldOnce
  <2>13. HeldOnce'
    <3>1. IsInjective(socketOf')
      <4>1. \A g \in DOMAIN socketOf : socketOf[g] # s
        BY <2>12 DEF Range
      <4>2. IsInjective(socketOf)
        BY DEF IInv, HeldOnce
      <4> QED BY <4>1, <4>2, <2>7 DEF IsInjective
    <3>2. ToSet(backlog') \cap Range(socketOf') = {}
      BY <2>4, <2>5, <2>11 DEF IInv, HeldOnce
    <3>3. \A q \in ToSet(backlog') : recvd'[q] = 0 /\ delivered'[q] = << >>
      BY <1>1, <2>4, <2>5 DEF IInv, HeldOnce
    <3> QED BY <2>4, <2>5, <3>1, <3>2, <3>3 DEF HeldOnce
  <2>14. ChunkIsUnread'
    BY <1>1 DEF ChunkIsUnread
  <2>15. SessionsKeptApart'
    <3> SUFFICES ASSUME NEW g \in DOMAIN socketOf', ~connections'[g].spoiled
                 PROVE  CutInto(socketOf'[g], recvd'[socketOf'[g]] - 0,
                                delivered'[socketOf'[g]], connections'[g].frame)
      BY <1>2 DEF SessionsKeptApart
    <3>1. CASE g = f
      <4>1. /\ recvd'[socketOf'[g]] - 0 = 0 /\ delivered'[socketOf'[g]] = << >>
            /\ connections'[g].frame = << >>
        BY <1>1, <2>7, <2>8, <2>12, <3>1
      <4> QED BY <4>1, <2>4, <2>7, <3>1, CutNothing
    <3>2. CASE g # f
      <4>1. g \in DOMAIN socketOf /\ g \in DOMAIN connections
        BY <3>2, <2>7 DEF IInv, DescriptorsOwned
      <4>2. socketOf'[g] = socketOf[g] /\ connections'[g] = connections[g]
        BY <4>1, <2>7, <2>8
      <4> QED BY <1>1, <1>2, <4>1, <4>2 DEF IInv, SessionsKeptApart
    <3> QED BY <3>1, <3>2
  <2> QED BY <1>4, <1>6, <2>9, <2>10, <2>13, <2>14, <2>15 DEF IInv
<1> QED BY <1>7, <1>8

(* What closing a connection keeps of the others, when no token is left in *)
(* hand.                                                                   *)
LEMMA CloseKeepsOthers ==
  ASSUME IInv, NEW f \in DOMAIN connections, CloseConnection(f),
         UNCHANGED << backlog, recvd, delivered >>, chunk' = << >>,
         \A g \in DOMAIN socketOf \ {f} : g = fd => chunk = << >>,
         pc' \notin {"consume", "packet"}
  PROVE  /\ DOMAIN connections' = DOMAIN connections \ {f}
         /\ DOMAIN socketOf' = DOMAIN socketOf \ {f}
         /\ connections' \in [DOMAIN connections' -> Connection]
         /\ socketOf' \in [DOMAIN socketOf' -> Sessions]
         /\ (DescriptorsOwned /\ HeldOnce /\ ChunkIsUnread /\ SessionsKeptApart)'
<1>1. /\ DOMAIN connections' = DOMAIN connections \ {f}
      /\ \A g \in DOMAIN connections' : connections'[g] = connections[g]
      /\ connections' \in [DOMAIN connections' -> Connection]
  BY DEF CloseConnection, Restrict, IInv, TypeOK
<1>2. /\ DOMAIN socketOf' = DOMAIN socketOf \ {f}
      /\ \A g \in DOMAIN socketOf' : socketOf'[g] = socketOf[g]
      /\ socketOf' \in [DOMAIN socketOf' -> Sessions]
  BY DEF CloseConnection, Restrict, IInv, TypeOK
<1>3. DescriptorsOwned'
  BY <1>1, <1>2 DEF IInv, DescriptorsOwned
<1>4. HeldOnce'
  <2>1. IsInjective(socketOf')
    BY <1>2 DEF IInv, HeldOnce, IsInjective
  <2>2. Range(socketOf') \subseteq Range(socketOf)
    BY <1>2 DEF Range
  <2> QED BY <2>1, <2>2 DEF IInv, HeldOnce
<1>5. ChunkIsUnread'
  BY DEF ChunkIsUnread
<1>6. SessionsKeptApart'
  <2> SUFFICES ASSUME NEW g \in DOMAIN socketOf', ~connections'[g].spoiled
               PROVE  CutInto(socketOf'[g], recvd'[socketOf'[g]] - 0,
                              delivered'[socketOf'[g]], connections'[g].frame)
    BY DEF SessionsKeptApart
  <2>1. g \in DOMAIN socketOf /\ g # f /\ g \in DOMAIN connections'
    BY <1>2, <1>3 DEF DescriptorsOwned
  <2>2. socketOf'[g] = socketOf[g] /\ connections'[g] = connections[g]
    BY <1>1, <1>2, <2>1
  <2>3. (IF g = fd THEN Len(chunk) ELSE 0) = 0
    BY <2>1
  <2> QED BY <2>1, <2>2, <2>3 DEF IInv, SessionsKeptApart
<1> QED BY <1>1, <1>2, <1>3, <1>4, <1>5, <1>6

(* The elements of a queue.                                                *)
LEMMA WaitingAreSessions ==
  ASSUME NEW q \in Seq(Sessions)
  PROVE  \A e \in ToSet(q) : e \in Sessions
<1> SUFFICES ASSUME NEW e \in ToSet(q) PROVE e \in Sessions
  OBVIOUS
<1>1. PICK j \in 1..Len(q) : q[j] = e
  BY LenProperties DEF ToSet
<1> QED BY <1>1, ElementOfSeq

(* The sessions that wait, and no session that is held.                    *)
LEMMA WaitingAreOthers ==
  ASSUME TypeOK, HeldOnce, NEW s \in Range(socketOf)
  PROVE  \A q \in ToSet(backlog) : q \in Sessions /\ q # s
<1> SUFFICES ASSUME NEW q \in ToSet(backlog) PROVE q \in Sessions /\ q # s
  OBVIOUS
<1>1. backlog \in Seq(Sessions)
  BY DEF TypeOK
<1>2. q \in Sessions
  BY <1>1, WaitingAreSessions
<1>3. q # s
  BY DEF HeldOnce
<1> QED BY <1>2, <1>3

(* A connection is read from, or dropped.                                  *)
LEMMA ServiceConnectionStep ==
  ASSUME IInv, ServiceConnection
  PROVE  IInv'
<1> DEFINE s == socketOf[fd']
<1>1. /\ pc = "ready" /\ ready # {} /\ fd' = Min(ready) /\ ready' = ready \ {fd'}
      /\ late' = IF late = NotStopping THEN NotStopping ELSE late + 1
      /\ UNCHANGED << break_, pipe, caller, readfds, backlog, link, sent, delivered, outcome >>
  BY DEF ServiceConnection, breakVars, clientVars
<1>2. fd' \in ready /\ fd' \in DOMAIN connections /\ fd' \in DOMAIN socketOf /\ fd' \in Fds
  <2>1. ready \in SUBSET Nat
    BY FdsAssumption DEF IInv, TypeOK
  <2>2. Min(ready) \in ready
    BY <2>1, <1>1, MinProperties
  <2> QED BY <1>1, <2>2 DEF IInv, Control, DescriptorsOwned, TypeOK
<1>3. chunk = << >> /\ Len(chunk) = 0
  BY <1>1 DEF IInv, Control
<1>4. s \in Sessions
  BY <1>2 DEF IInv, TypeOK
<1>5. /\ late' \in Nat \cup {NotStopping}
      /\ late' # NotStopping => break_'
      /\ late' > 0 => late' = 1
  BY <1>1 DEF IInv, TypeOK, Control, NotStopping
<1>6. recvd[s] \in Nat /\ sent[s] \in Nat /\ sent[s] <= Len(Script[s]) /\ Len(Script[s]) \in Nat
  BY <1>4, ScriptAssumption, LenProperties DEF IInv, TypeOK
<1>7. ASSUME NEW n \in 1..(sent[s] - recvd[s]),
             chunk' = [ j \in 1..n |-> Token(s, recvd[s] + j) ],
             recvd' = [recvd EXCEPT ![s] = @ + n],
             pc' = "consume",
             UNCHANGED << connections, socketOf >>
      PROVE  IInv'
  <2> DEFINE m == recvd[s] + n
  <2>1. m \in Nat /\ n \in Nat /\ m <= sent[s] /\ recvd[s] <= m /\ m - recvd[s] = n
    BY <1>6
  <2>2. recvd'[s] = m /\ recvd' \in [Sessions -> Nat]
        /\ \A q \in Sessions : q # s => recvd'[q] = recvd[q]
    BY <1>4, <1>7, <2>1 DEF IInv, TypeOK
  <2>3. chunk' = Slice(s, recvd[s], m)
    BY <1>7, <2>1 DEF Slice
  <2> HIDE DEF m
  <2>4. chunk' \in Seq(Tokens) /\ Len(chunk') = n
    <3>1. recvd[s] <= m /\ m <= Len(Script[s])
      BY <1>6, <2>1
    <3>2. /\ Slice(s, recvd[s], m) \in Seq(Tokens)
          /\ Len(Slice(s, recvd[s], m)) = m - recvd[s]
      BY <1>4, <1>6, <2>1, <3>1, SliceProperties
    <3> QED BY <2>1, <2>3, <3>2
  <2>5. TypeOK'
    BY <1>1, <1>2, <1>5, <1>7, <2>1, <2>2, <2>4 DEF IInv, TypeOK
  <2>4a. recvd'[s] - Len(chunk') = recvd[s] /\ Len(chunk') <= recvd'[s]
    <3>1. m - n = recvd[s] /\ n <= m
      BY <1>6, <2>1
    <3> QED BY <2>2, <2>4, <3>1
  <2>6. Control' /\ NoLostWakeup'
    BY <1>1, <1>2, <1>5, <1>7 DEF IInv, Control, NoLostWakeup, NotStopping
  <2>7. DescriptorsOwned'
    BY <1>7 DEF IInv, DescriptorsOwned
  <2>8. HeldOnce'
    <3>1. s \in Range(socketOf)
      BY <1>2 DEF Range
    <3>2. \A q \in ToSet(backlog) : q \in Sessions /\ q # s
      BY <3>1, WaitingAreOthers DEF IInv
    <3> QED BY <1>1, <1>7, <2>2, <3>2 DEF IInv, HeldOnce
  <2>9. ChunkIsUnread'
    <3>1. socketOf'[fd'] = s /\ recvd'[s] - Len(chunk') = recvd[s] /\ Len(chunk') <= recvd'[s]
      BY <1>7, <2>4a
    <3> QED BY <2>2, <2>3, <3>1 DEF ChunkIsUnread
  <2>10. SessionsKeptApart'
    <3> SUFFICES ASSUME NEW g \in DOMAIN socketOf, ~connections[g].spoiled
                 PROVE  CutInto(socketOf[g],
                                recvd'[socketOf[g]] - (IF g = fd' THEN Len(chunk') ELSE 0),
                                delivered[socketOf[g]], connections[g].frame)
      BY <1>1, <1>7 DEF SessionsKeptApart
    <3>1. CutInto(socketOf[g], recvd[socketOf[g]] - 0, delivered[socketOf[g]],
                  connections[g].frame)
      BY <1>3 DEF IInv, SessionsKeptApart
    <3>2. CASE g = fd'
      <4>1. recvd'[s] - Len(chunk') = recvd[s] - 0
        BY <1>6, <2>4a
      <4> QED BY <3>1, <3>2, <4>1
    <3>3. CASE g # fd'
      <4>1. socketOf[g] \in Sessions /\ socketOf[g] # s
        BY <1>2, <3>3 DEF IInv, HeldOnce, IsInjective, TypeOK
      <4> QED BY <2>2, <3>1, <3>3, <4>1
    <3> QED BY <3>2, <3>3
  <2> QED BY <2>5, <2>6, <2>7, <2>8, <2>9, <2>10 DEF IInv
<1>8. ASSUME CloseConnection(fd'), pc' = "serviced", UNCHANGED << chunk, recvd >>
      PROVE  IInv'
  <2>1. /\ DOMAIN connections' = DOMAIN connections \ {fd'}
        /\ DOMAIN socketOf' = DOMAIN socketOf \ {fd'}
        /\ connections' \in [DOMAIN connections' -> Connection]
        /\ socketOf' \in [DOMAIN socketOf' -> Sessions]
        /\ (DescriptorsOwned /\ HeldOnce /\ ChunkIsUnread /\ SessionsKeptApart)'
    BY <1>1, <1>2, <1>3, <1>8, CloseKeepsOthers
  <2>2. TypeOK'
    BY <1>1, <1>2, <1>5, <1>8, <2>1 DEF IInv, TypeOK
  <2>3. Control' /\ NoLostWakeup'
    BY <1>1, <1>2, <1>3, <1>5, <1>8, <2>1 DEF IInv, Control, NoLostWakeup, NotStopping
  <2> QED BY <2>1, <2>2, <2>3 DEF IInv
<1> QED BY <1>7, <1>8 DEF ServiceConnection

(* What the token at the head of the chunk is, and what is left behind it. *)
LEMMA HeadOfChunk ==
  ASSUME IInv, pc = "consume", chunk # << >>, NEW s, s = socketOf[fd],
         NEW n, n = recvd[s] - Len(chunk)
  PROVE  /\ fd \in DOMAIN connections /\ fd \in DOMAIN socketOf
         /\ s \in Sessions /\ connections[fd] \in Connection /\ connections[fd].peer = s
         /\ n \in Nat /\ n < Len(Script[s])
         /\ Head(chunk) = Token(s, n + 1)
         /\ Kind(Head(chunk)) = Script[s][n + 1]
         /\ Tail(chunk) \in Seq(Tokens)
         /\ n + 1 = recvd[s] - Len(Tail(chunk))
         /\ Len(Tail(chunk)) <= recvd[s]
         /\ Tail(chunk) = Slice(s, recvd[s] - Len(Tail(chunk)), recvd[s])
<1>1. /\ fd \in DOMAIN connections /\ fd \in DOMAIN socketOf /\ s \in Sessions
      /\ connections[fd] \in Connection /\ connections[fd].peer = s
  BY DEF IInv, Control, DescriptorsOwned, TypeOK
<1>2. /\ recvd[s] \in Nat /\ recvd[s] <= Len(Script[s]) /\ Len(Script[s]) \in Nat
  BY <1>1, ScriptAssumption, LenProperties DEF IInv, TypeOK
<1>3. /\ Len(chunk) \in Nat \ {0} /\ Len(chunk) <= recvd[s]
      /\ chunk = Slice(s, n, recvd[s])
      /\ Tail(chunk) \in Seq(Tokens) /\ Len(Tail(chunk)) = Len(chunk) - 1
  BY EmptySeq, HeadTailProperties DEF IInv, TypeOK, ChunkIsUnread
<1>4. n \in Nat /\ n < recvd[s] /\ n + 1 = recvd[s] - Len(Tail(chunk))
      /\ Len(Tail(chunk)) <= recvd[s]
  BY <1>2, <1>3
<1>5. Head(chunk) = Token(s, n + 1) /\ Tail(chunk) = Slice(s, n + 1, recvd[s])
  <2>1. \A m \in Nat : m < recvd[s] =>
          /\ Head(Slice(s, m, recvd[s])) = Token(s, m + 1)
          /\ Tail(Slice(s, m, recvd[s])) = Slice(s, m + 1, recvd[s])
    BY <1>1, <1>2, SliceTail
  <2>2. /\ Head(Slice(s, n, recvd[s])) = Token(s, n + 1)
        /\ Tail(Slice(s, n, recvd[s])) = Slice(s, n + 1, recvd[s])
    BY <2>1, <1>4
  <2>3. chunk = Slice(s, n, recvd[s])
    BY <1>3
  <2> QED BY <2>2, <2>3
<1>6. Kind(Head(chunk)) = Script[s][n + 1]
  BY <1>5 DEF Kind, Token
<1>7. n < Len(Script[s])
  BY <1>2, <1>4
<1> QED BY <1>1, <1>3, <1>4, <1>5, <1>6, <1>7

(* A step that takes the head off the chunk leaves the other sessions as   *)
(* they are: only the connection in service has to be looked at.           *)
LEMMA OthersKeptApart ==
  ASSUME IInv, pc \in {"consume", "packet"},
         UNCHANGED << socketOf, fd, recvd >>,
         DOMAIN connections' = DOMAIN connections,
         \A g \in DOMAIN connections \ {fd} : connections'[g] = connections[g],
         \A q \in Sessions \ {socketOf[fd]} : delivered'[q] = delivered[q],
         ~connections'[fd].spoiled =>
           CutInto(socketOf[fd], recvd[socketOf[fd]] - Len(chunk'),
                   delivered'[socketOf[fd]], connections'[fd].frame)
  PROVE  SessionsKeptApart'
<1> SUFFICES ASSUME NEW g \in DOMAIN socketOf, ~connections'[g].spoiled
             PROVE  CutInto(socketOf[g],
                            recvd[socketOf[g]] - (IF g = fd THEN Len(chunk') ELSE 0),
                            delivered'[socketOf[g]], connections'[g].frame)
  BY DEF SessionsKeptApart
<1>1. CASE g = fd
  BY <1>1
<1>2. CASE g # fd
  <2>1. fd \in DOMAIN socketOf /\ g \in DOMAIN connections
    BY DEF IInv, Control, DescriptorsOwned
  <2>2. socketOf[g] \in Sessions /\ socketOf[g] # socketOf[fd]
    BY <1>2, <2>1 DEF IInv, TypeOK, HeldOnce, IsInjective
  <2>3. connections'[g] = connections[g] /\ delivered'[socketOf[g]] = delivered[socketOf[g]]
    BY <1>2, <2>1, <2>2
  <2> QED BY <1>2, <2>3 DEF IInv, SessionsKeptApart
<1> QED BY <1>1, <1>2

(* Bytes that leave the frame incomplete.                                  *)
LEMMA GatherStep ==
  ASSUME IInv, Gather
  PROVE  IInv'
<1> DEFINE s == socketOf[fd]
           n == recvd[s] - Len(chunk)
           entry == [connections[fd] EXCEPT !.frame = Append(@, Head(chunk))]
<1>1. /\ pc = "consume" /\ chunk # << >> /\ Kind(Head(chunk)) = "part"
      /\ ~connections[fd].spoiled /\ chunk' = Tail(chunk)
      /\ connections' = [connections EXCEPT ![fd] = entry]
      /\ UNCHANGED << break_, pipe, caller, pc, readfds, ready, fd, backlog, socketOf, link,
                     sent, recvd, delivered, outcome, late >>
  BY DEF Gather, breakVars, kernelVars, clientVars
<1>2. /\ fd \in DOMAIN connections /\ fd \in DOMAIN socketOf
      /\ s \in Sessions /\ connections[fd] \in Connection /\ connections[fd].peer = s
      /\ n \in Nat /\ n < Len(Script[s])
      /\ Head(chunk) = Token(s, n + 1) /\ Kind(Head(chunk)) = Script[s][n + 1]
      /\ Tail(chunk) \in Seq(Tokens) /\ n + 1 = recvd[s] - Len(Tail(chunk))
      /\ Len(Tail(chunk)) <= recvd[s]
      /\ Tail(chunk) = Slice(s, recvd[s] - Len(Tail(chunk)), recvd[s])
  BY <1>1, HeadOfChunk
<1>3. Head(chunk) \in Tokens
  BY <1>1, HeadTailProperties DEF IInv, TypeOK
<1>4. entry \in Connection /\ entry.peer = s /\ entry.frame = Append(connections[fd].frame, Head(chunk))
      /\ entry.spoiled = connections[fd].spoiled
  <2>1. connections[fd].frame \in Seq(Tokens)
    BY <1>2 DEF Connection
  <2>2. Append(connections[fd].frame, Head(chunk)) \in Seq(Tokens)
    BY <2>1, <1>3, AppendProperties
  <2> QED BY <1>2, <2>2 DEF Connection
<1> HIDE DEF entry, n
<1>5. /\ DOMAIN connections' = DOMAIN connections /\ connections'[fd] = entry
      /\ \A g \in DOMAIN connections \ {fd} : connections'[g] = connections[g]
      /\ connections' \in [DOMAIN connections -> Connection]
  BY <1>1, <1>2, <1>4 DEF IInv, TypeOK
<1>6. TypeOK'
  BY <1>1, <1>2, <1>5 DEF IInv, TypeOK
<1>7. Control' /\ NoLostWakeup'
  BY <1>1, <1>5 DEF IInv, Control, NoLostWakeup, NotStopping
<1>8. DescriptorsOwned'
  BY <1>1, <1>2, <1>4, <1>5 DEF IInv, DescriptorsOwned
<1>9. HeldOnce'
  BY <1>1 DEF IInv, HeldOnce
<1>10. ChunkIsUnread'
  BY <1>1, <1>2 DEF ChunkIsUnread
<1>11. SessionsKeptApart'
  <2>1. CutInto(s, n, delivered[s], connections[fd].frame)
    BY <1>1, <1>2 DEF IInv, SessionsKeptApart, n
  <2>2. delivered[s] \in Seq(Seq(Tokens))
    BY <1>2 DEF IInv, TypeOK
  <2>3. CutInto(s, n + 1, delivered[s], Append(connections[fd].frame, Token(s, n + 1)))
    BY <1>1, <1>2, <2>1, <2>2, CutGather
  <2>4. CutInto(s, recvd[s] - Len(chunk'), delivered'[s], connections'[fd].frame)
    BY <1>1, <1>2, <1>4, <1>5, <2>3
  <2> QED BY <1>1, <1>5, <2>4, OthersKeptApart
<1> QED BY <1>6, <1>7, <1>8, <1>9, <1>10, <1>11 DEF IInv

(* A complete frame goes to the listener under the peer of the connection. *)
LEMMA DispatchStep ==
  ASSUME IInv, Dispatch
  PROVE  IInv'
<1> DEFINE s == socketOf[fd]
           n == recvd[s] - Len(chunk)
           entry == [connections[fd] EXCEPT !.frame = << >>]
           packet == Append(connections[fd].frame, Head(chunk))
<1>1. /\ pc = "consume" /\ chunk # << >> /\ Kind(Head(chunk)) = "end" /\ pc' = "packet"
      /\ ~connections[fd].spoiled /\ chunk' = Tail(chunk)
      /\ connections' = [connections EXCEPT ![fd] = entry]
      /\ delivered' = [delivered EXCEPT ![connections[fd].peer] = Append(@, packet)]
      /\ UNCHANGED << break_, pipe, caller, readfds, ready, fd, backlog, socketOf, link,
                     sent, recvd, outcome, late >>
  BY DEF Dispatch, breakVars, kernelVars, clientVars
<1>2. /\ fd \in DOMAIN connections /\ fd \in DOMAIN socketOf
      /\ s \in Sessions /\ connections[fd] \in Connection /\ connections[fd].peer = s
      /\ n \in Nat /\ n < Len(Script[s])
      /\ Head(chunk) = Token(s, n + 1) /\ Kind(Head(chunk)) = Script[s][n + 1]
      /\ Tail(chunk) \in Seq(Tokens) /\ n + 1 = recvd[s] - Len(Tail(chunk))
      /\ Len(Tail(chunk)) <= recvd[s]
      /\ Tail(chunk) = Slice(s, recvd[s] - Len(Tail(chunk)), recvd[s])
  BY <1>1, HeadOfChunk
<1>3. Head(chunk) \in Tokens
  BY <1>1, HeadTailProperties DEF IInv, TypeOK
<1>4. entry \in Connection /\ entry.peer = s /\ entry.frame = << >>
      /\ entry.spoiled = connections[fd].spoiled
  BY <1>2, EmptySeq DEF Connection
<1>5. connections[fd].frame \in Seq(Tokens) /\ packet \in Seq(Tokens)
  BY <1>2, <1>3, AppendProperties DEF Connection
<1> HIDE DEF entry, n, packet
<1>6. /\ DOMAIN connections' = DOMAIN connections /\ connections'[fd] = entry
      /\ \A g \in DOMAIN connections \ {fd} : connections'[g] = connections[g]
      /\ connections' \in [DOMAIN connections -> Connection]
  BY <1>1, <1>2, <1>4 DEF IInv, TypeOK
<1>7. delivered[s] \in Seq(Seq(Tokens)) /\ Append(delivered[s], packet) \in Seq(Seq(Tokens))
  BY <1>2, <1>5, AppendProperties DEF IInv, TypeOK
<1>8. /\ delivered' \in [Sessions -> Seq(Seq(Tokens))]
      /\ delivered'[s] = Append(delivered[s], packet)
      /\ \A q \in Sessions \ {s} : delivered'[q] = delivered[q]
  BY <1>1, <1>2, <1>7 DEF IInv, TypeOK
<1>9. TypeOK'
  BY <1>1, <1>2, <1>6, <1>8 DEF IInv, TypeOK
<1>10. Control' /\ NoLostWakeup'
  BY <1>1, <1>2, <1>6 DEF IInv, Control, NoLostWakeup, NotStopping
<1>11. DescriptorsOwned'
  BY <1>1, <1>2, <1>4, <1>6 DEF IInv, DescriptorsOwned
<1>12. HeldOnce'
  <2>1. s \in Range(socketOf)
    BY <1>2 DEF Range
  <2>2. \A q \in ToSet(backlog) : q \in Sessions \ {s}
    BY <2>1, WaitingAreOthers DEF IInv
  <2> QED BY <1>1, <1>8, <2>2 DEF IInv, HeldOnce
<1>13. ChunkIsUnread'
  BY <1>1, <1>2 DEF ChunkIsUnread
<1>14. SessionsKeptApart'
  <2>1. CutInto(s, n, delivered[s], connections[fd].frame)
    BY <1>1, <1>2 DEF IInv, SessionsKeptApart, n
  <2>2. CutInto(s, n + 1, Append(delivered[s], packet), << >>)
    BY <1>1, <1>2, <1>5, <1>7, <2>1, CutDispatch DEF packet
  <2>3. CutInto(s, recvd[s] - Len(chunk'), delivered'[s], connections'[fd].frame)
    BY <1>1, <1>2, <1>4, <1>6, <1>8, <2>2
  <2> QED BY <1>1, <1>6, <1>8, <2>3, OthersKeptApart
<1> QED BY <1>9, <1>10, <1>11, <1>12, <1>13, <1>14 DEF IInv

(* A frame too large: the connection is closed and its entry erased.       *)
LEMMA RejectStep ==
  ASSUME IInv, Reject
  PROVE  IInv'
<1>1. /\ pc = "consume" /\ pc' = "serviced" /\ chunk' = << >> /\ CloseConnection(fd)
      /\ UNCHANGED << break_, pipe, caller, readfds, ready, fd, backlog, link, sent, recvd,
                     delivered, outcome, late >>
  BY DEF Reject, breakVars, clientVars
<1>2. fd \in DOMAIN connections
  BY <1>1 DEF IInv, Control
<1>3. /\ DOMAIN connections' = DOMAIN connections \ {fd}
      /\ DOMAIN socketOf' = DOMAIN socketOf \ {fd}
      /\ connections' \in [DOMAIN connections' -> Connection]
      /\ socketOf' \in [DOMAIN socketOf' -> Sessions]
      /\ (DescriptorsOwned /\ HeldOnce /\ ChunkIsUnread /\ SessionsKeptApart)'
  BY <1>1, <1>2, CloseKeepsOthers
<1>4. TypeOK'
  BY <1>1, <1>3, EmptySeq DEF IInv, TypeOK
<1>5. Control' /\ NoLostWakeup'
  BY <1>1, <1>3 DEF IInv, Control, NoLostWakeup, NotStopping
<1> QED BY <1>3, <1>4, <1>5 DEF IInv

(* Bytes that reach a deframer an exception passed through.                *)
LEMMA ConsumeSpoiledStep ==
  ASSUME IInv, ConsumeSpoiled
  PROVE  IInv'
<1> DEFINE s == socketOf[fd]
           n == recvd[s] - Len(chunk)
<1>1. /\ pc = "consume" /\ pc' \in {"consume", "packet"} /\ chunk # << >>
      /\ chunk' = Tail(chunk) /\ connections[fd].spoiled
      /\ UNCHANGED << connections, break_, pipe, caller, readfds, ready, fd, backlog,
                     socketOf, link, sent, recvd, delivered, outcome, late >>
  BY DEF ConsumeSpoiled, breakVars, kernelVars, clientVars
<1>2. /\ fd \in DOMAIN connections /\ s \in Sessions /\ Tail(chunk) \in Seq(Tokens)
      /\ Len(Tail(chunk)) <= recvd[s]
      /\ Tail(chunk) = Slice(s, recvd[s] - Len(Tail(chunk)), recvd[s])
  BY <1>1, HeadOfChunk
<1>3. TypeOK'
  BY <1>1, <1>2 DEF IInv, TypeOK
<1>4. Control' /\ NoLostWakeup'
  BY <1>1 DEF IInv, Control, NoLostWakeup, NotStopping
<1>5. DescriptorsOwned' /\ HeldOnce'
  BY <1>1 DEF IInv, DescriptorsOwned, HeldOnce
<1>6. ChunkIsUnread'
  BY <1>1, <1>2 DEF ChunkIsUnread
<1>7. SessionsKeptApart'
  BY <1>1, OthersKeptApart
<1> QED BY <1>3, <1>4, <1>5, <1>6, <1>7 DEF IInv

(* The listener throws: its connection stays, out of step with its stream, *)
(* and the rest of the chunk is lost.                                      *)
LEMMA ListenerThrowsStep ==
  ASSUME IInv, ListenerThrows
  PROVE  IInv'
<1> DEFINE entry == [connections[fd] EXCEPT !.spoiled = TRUE]
<1>1. /\ pc = "packet" /\ pc' = "unwind" /\ chunk' = << >>
      /\ connections' = [connections EXCEPT ![fd] = entry]
      /\ UNCHANGED << break_, pipe, caller, readfds, ready, fd, backlog, socketOf, link,
                     sent, recvd, delivered, outcome, late >>
  BY DEF ListenerThrows, breakVars, kernelVars, clientVars
<1>2. fd \in DOMAIN connections /\ connections[fd] \in Connection
  BY <1>1 DEF IInv, Control, TypeOK
<1>3. entry \in Connection /\ entry.peer = connections[fd].peer /\ entry.spoiled
  BY <1>2 DEF Connection
<1> HIDE DEF entry
<1>4. /\ DOMAIN connections' = DOMAIN connections /\ connections'[fd] = entry
      /\ \A g \in DOMAIN connections \ {fd} : connections'[g] = connections[g]
      /\ connections' \in [DOMAIN connections -> Connection]
  BY <1>1, <1>2, <1>3 DEF IInv, TypeOK
<1>5. TypeOK'
  BY <1>1, <1>4, EmptySeq DEF IInv, TypeOK
<1>6. Control' /\ NoLostWakeup'
  BY <1>1, <1>4 DEF IInv, Control, NoLostWakeup, NotStopping
<1>7. DescriptorsOwned'
  BY <1>1, <1>2, <1>3, <1>4 DEF IInv, DescriptorsOwned
<1>8. HeldOnce' /\ ChunkIsUnread'
  BY <1>1 DEF IInv, HeldOnce, ChunkIsUnread
<1>9. SessionsKeptApart'
  BY <1>1, <1>3, <1>4, OthersKeptApart
<1> QED BY <1>5, <1>6, <1>7, <1>8, <1>9 DEF IInv

(* Leaving Run uses the stop request up and keeps the connections.         *)
LEMMA LeaveRunStep ==
  ASSUME IInv, LeaveRun
  PROVE  IInv'
<1>1. /\ pc \in {"leave", "unwind"} /\ pc' = "out" /\ break_' = FALSE
      /\ outcome' = IF pc = "leave" THEN "returned" ELSE "threw"
      /\ late' = NotStopping
      /\ readfds' = Nothing /\ ready' = {} /\ fd' = NoFd /\ chunk' = << >>
      /\ UNCHANGED << connections, pipe, caller, backlog, socketOf, link, sent, recvd,
                     delivered >>
  BY DEF LeaveRun, kernelVars, clientVars
<1>2. chunk = << >> /\ Len(chunk) = 0 /\ Len(chunk') = 0
  BY <1>1 DEF IInv, Control
<1>3. TypeOK'
  <2>1. Nothing \in [pipe : BOOLEAN, listen : BOOLEAN, conns : SUBSET Fds]
    BY DEF Nothing
  <2> QED BY <1>1, <2>1, EmptySeq DEF IInv, TypeOK
<1>4. Control' /\ NoLostWakeup'
  BY <1>1 DEF Control, NoLostWakeup, NotStopping
<1>5. DescriptorsOwned' /\ HeldOnce'
  BY <1>1 DEF IInv, DescriptorsOwned, HeldOnce
<1>6. ChunkIsUnread'
  BY <1>1 DEF ChunkIsUnread
<1>7. SessionsKeptApart'
  BY <1>1, <1>2 DEF IInv, SessionsKeptApart
<1> QED BY <1>3, <1>4, <1>5, <1>6, <1>7 DEF IInv

(* A client connects under a name nobody holds, sends or closes; a reset   *)
(* takes back no token that was read.                                      *)
LEMMA ClientStep ==
  ASSUME IInv, NEW s \in Sessions, Client(s)
  PROVE  IInv'
<1>0. /\ recvd[s] \in Nat /\ sent[s] \in Nat /\ recvd[s] <= sent[s]
      /\ sent[s] <= Len(Script[s]) /\ Len(Script[s]) \in Nat
  BY ScriptAssumption, LenProperties DEF IInv, TypeOK
<1>1. CASE ClientSends(s) \/ ClientCloses(s)
  <2>1. /\ UNCHANGED << connections, break_, pipe, caller, pc, readfds, ready, fd, chunk,
                       backlog, socketOf, recvd, delivered, outcome, late >>
        /\ link' \in [Sessions -> {"up", "closed"}]
    BY <1>1 DEF ClientSends, ClientCloses, breakVars, loopVars, kernelVars, IInv, TypeOK
  <2>2. \E k \in recvd[s]..Len(Script[s]) : sent' = [sent EXCEPT ![s] = k]
    <3>1. sent = [sent EXCEPT ![s] = sent[s]]
      BY DEF IInv, TypeOK
    <3>2. CASE ClientSends(s)
      <4>1. sent[s] < Len(Script[s]) /\ sent' = [sent EXCEPT ![s] = sent[s] + 1]
        BY <3>2 DEF ClientSends
      <4>2. sent[s] + 1 \in recvd[s]..Len(Script[s])
        BY <1>0, <4>1
      <4> QED BY <4>1, <4>2
    <3>3. CASE ClientCloses(s)
      <4>1. sent' = [sent EXCEPT ![s] = sent[s]] \/ sent' = [sent EXCEPT ![s] = recvd[s]]
        BY <3>1, <3>3 DEF ClientCloses
      <4>2. sent[s] \in recvd[s]..Len(Script[s]) /\ recvd[s] \in recvd[s]..Len(Script[s])
        BY <1>0
      <4> QED BY <4>1, <4>2
    <3> QED BY <1>1, <3>2, <3>3
  <2>3. /\ sent' \in [Sessions -> Nat]
        /\ \A q \in Sessions : recvd[q] <= sent'[q] /\ sent'[q] <= Len(Script[q])
    <3>1. PICK k \in recvd[s]..Len(Script[s]) : sent' = [sent EXCEPT ![s] = k]
      BY <2>2
    <3>2. k \in Nat /\ recvd[s] <= k /\ k <= Len(Script[s])
      BY <1>0
    <3> QED BY <3>1, <3>2 DEF IInv, TypeOK
  <2>4. TypeOK'
    BY <2>1, <2>3 DEF IInv, TypeOK
  <2>5. Control' /\ NoLostWakeup'
    BY <2>1 DEF IInv, Control, NoLostWakeup, NotStopping
  <2>6. (DescriptorsOwned /\ HeldOnce /\ ChunkIsUnread /\ SessionsKeptApart)'
    BY <2>1, SessionsUntouched
  <2> QED BY <2>4, <2>5, <2>6 DEF IInv
<1>2. CASE ClientConnects(s)
  <2>1. /\ s \notin ToSet(backlog) /\ s \notin Range(socketOf)
        /\ link' = [link EXCEPT ![s] = "up"]
        /\ backlog' = Append(backlog, s)
        /\ sent' = [sent EXCEPT ![s] = 0] /\ recvd' = [recvd EXCEPT ![s] = 0]
        /\ delivered' = [delivered EXCEPT ![s] = << >>]
        /\ UNCHANGED << connections, break_, pipe, caller, pc, readfds, ready, fd, chunk,
                       socketOf, outcome, late >>
    BY <1>2 DEF ClientConnects, Held, breakVars, loopVars
  <2>2. /\ backlog' \in Seq(Sessions) /\ backlog' # << >> /\ IsInjective(backlog')
        /\ ToSet(backlog') = ToSet(backlog) \cup {s}
    <3>1. backlog \in Seq(Sessions) /\ IsInjective(backlog) /\ s \notin ToSet(backlog)
      BY <2>1 DEF IInv, TypeOK, HeldOnce
    <3>2. /\ Append(backlog, s) \in Seq(Sessions) /\ Append(backlog, s) # << >>
          /\ IsInjective(Append(backlog, s))
          /\ ToSet(Append(backlog, s)) = ToSet(backlog) \cup {s}
      BY <3>1, QueueAppend
    <3> QED BY <2>1, <3>2
  <2>3. /\ recvd' \in [Sessions -> Nat] /\ sent' \in [Sessions -> Nat]
        /\ delivered' \in [Sessions -> Seq(Seq(Tokens))]
        /\ recvd'[s] = 0 /\ sent'[s] = 0 /\ delivered'[s] = << >>
        /\ \A q \in Sessions \ {s} :
             recvd'[q] = recvd[q] /\ sent'[q] = sent[q] /\ delivered'[q] = delivered[q]
    BY <2>1, EmptySeq DEF IInv, TypeOK
  <2>4. \A q \in Sessions : recvd'[q] <= sent'[q] /\ sent'[q] <= Len(Script[q])
    <3>1. 0 <= Len(Script[s])
      BY <1>0
    <3>2. \A q \in Sessions \ {s} : recvd[q] <= sent[q] /\ sent[q] <= Len(Script[q])
      BY DEF IInv, TypeOK
    <3>3. recvd'[s] <= sent'[s] /\ sent'[s] <= Len(Script[s])
      BY <2>3, <3>1
    <3>4. \A q \in Sessions \ {s} : recvd'[q] <= sent'[q] /\ sent'[q] <= Len(Script[q])
      BY <2>3, <3>2
    <3> QED BY ONLY <3>3, <3>4
  <2>5. TypeOK'
    BY <2>1, <2>2, <2>3, <2>4 DEF IInv, TypeOK
  <2>6. Control' /\ NoLostWakeup'
    BY <2>1, <2>2 DEF IInv, Control, NoLostWakeup, NotStopping
  <2>7. DescriptorsOwned'
    BY <2>1 DEF IInv, DescriptorsOwned
  <2>8. HeldOnce'
    <3>1. \A q \in ToSet(backlog) : q \in Sessions \ {s}
      BY <2>1, WaitingAreSessions DEF IInv, TypeOK
    <3>2. IsInjective(socketOf) /\ ToSet(backlog) \cap Range(socketOf) = {}
          /\ \A q \in ToSet(backlog) : recvd[q] = 0 /\ delivered[q] = << >>
      BY DEF IInv, HeldOnce
    <3>3. ToSet(backlog') \cap Range(socketOf') = {}
      BY <2>1, <2>2, <3>2
    <3>4. \A q \in ToSet(backlog') : recvd'[q] = 0 /\ delivered'[q] = << >>
      BY <2>2, <2>3, <3>1, <3>2
    <3>5. IsInjective(socketOf') /\ IsInjective(backlog')
      BY <2>1, <2>2, <3>2
    <3> QED BY <3>3, <3>4, <3>5 DEF HeldOnce
  <2>9. \A f \in DOMAIN socketOf : socketOf[f] \in Sessions \ {s}
    BY <2>1 DEF IInv, TypeOK, Range
  <2>10. ChunkIsUnread'
    <3>1. pc \in {"consume", "packet"} => socketOf[fd] \in Sessions \ {s}
      BY <2>9 DEF IInv, Control, DescriptorsOwned
    <3> QED BY <2>1, <2>3, <3>1 DEF IInv, ChunkIsUnread
  <2>11. SessionsKeptApart'
    BY <2>1, <2>3, <2>9 DEF IInv, SessionsKeptApart
  <2> QED BY <2>5, <2>6, <2>7, <2>8, <2>10, <2>11 DEF IInv
<1> QED BY <1>1, <1>2 DEF Client

(* Every step keeps it.                                                    *)
LEMMA NextIInv == IInv /\ [Next]_vars => IInv'
<1> SUFFICES ASSUME IInv, [Next]_vars PROVE IInv'
  OBVIOUS
<1>1. CASE Run \/ LoopTest \/ SelectFails \/ TestBreak \/ ServiceEnds \/ Serviced
             \/ ConsumeReturns \/ ListenerReturns
  BY <1>1, LoopStep
<1>2. CASE SelectReturns \/ DrainBreakPipe \/ Accept
  BY <1>2, SelectReturnsStep, DrainBreakPipeStep, AcceptStep
<1>3. CASE ServiceConnection \/ Gather \/ Dispatch \/ Reject \/ ConsumeSpoiled
  BY <1>3, ServiceConnectionStep, GatherStep, DispatchStep, RejectStep, ConsumeSpoiledStep
<1>4. CASE ListenerThrows \/ LeaveRun
  BY <1>4, ListenerThrowsStep, LeaveRunStep
<1>5. CASE Break \/ \E t \in Callers : AsynchronousBreak(t) \/ WriteBreakPipe(t)
  BY <1>5, StopRequestStep
<1>6. CASE \E s \in Sessions : Client(s)
  BY <1>6, ClientStep
<1>7. CASE UNCHANGED vars
  <2>1. UNCHANGED << connections, break_, pipe, caller, pc, readfds, ready, fd, chunk,
                    backlog, socketOf, link, sent, recvd, delivered, outcome, late >>
    BY <1>7 DEF vars, breakVars, loopVars, kernelVars, clientVars
  <2>2. (DescriptorsOwned /\ HeldOnce /\ ChunkIsUnread /\ SessionsKeptApart)'
    BY <2>1, SessionsUntouched
  <2>3. TypeOK'
    BY <2>1 DEF IInv, TypeOK
  <2>4. Control' /\ NoLostWakeup'
    BY <2>1 DEF IInv, Control, NoLostWakeup, NotStopping
  <2> QED BY <2>2, <2>3, <2>4 DEF IInv
<1> QED
  BY <1>1, <1>2, <1>3, <1>4, <1>5, <1>6, <1>7 DEF Next, RunStep

LEMMA Invariance == Spec => []IInv
<1> QED BY InitIInv, NextIInv, PTL DEF Spec

-----------------------------------------------------------------------------
(* What the invariant says of the system.                                  *)

(* Every variable keeps its type.                                          *)
THEOREM TypeCorrect == Spec => []TypeOK
<1>1. IInv => TypeOK
  BY DEF IInv
<1> QED BY <1>1, Invariance, PTL

(* However sessions end and Run is left, every descriptor Run opened is in *)
(* connections_ under its own peer or is closed.                           *)
THEOREM NoDescriptorLeaks == Spec => []DescriptorsOwned
<1>1. IInv => DescriptorsOwned
  BY DEF IInv
<1> QED BY <1>1, Invariance, PTL

(* The packets of each session reach the listener whole, in order, once    *)
(* and under its own peer, however reads of other sessions, stops and new  *)
(* Runs interleave.                                                        *)
THEOREM SessionsApart == Spec => []SessionsKeptApart
<1>1. IInv => SessionsKeptApart
  BY DEF IInv
<1> QED BY <1>1, Invariance, PTL

(* select() is never entered with a stop requested and no byte on its way. *)
THEOREM WakeupNotLost == Spec => []NoLostWakeup
<1>1. IInv => NoLostWakeup
  BY DEF IInv
<1> QED BY <1>1, Invariance, PTL

(* At most one read is begun after a stop was requested.                   *)
THEOREM StopIsPrompt == Spec => []AtMostOneReadAfterStop
<1>1. IInv => AtMostOneReadAfterStop
  <2> SUFFICES ASSUME IInv PROVE late <= 1
    BY DEF AtMostOneReadAfterStop
  <2>1. late \in Nat \cup {-1} /\ (late > 0 => late = 1)
    BY DEF IInv, TypeOK, Control, NotStopping
  <2> QED BY <2>1
<1> QED BY <1>1, Invariance, PTL

-----------------------------------------------------------------------------
(* The refinement of StoppableRun.                                         *)

(* Each step of the receiver is a step of StoppableRun or none.            *)
LEMMA NextRefines == IInv /\ [Next]_vars => [Abstract!Next]_(Abstract!vars)
<1> SUFFICES ASSUME IInv, [Next]_vars PROVE [Abstract!Next]_(Abstract!vars)
  OBVIOUS
<1> DEFINE status == IF pc = "out" THEN outcome ELSE "running"
<1>0. outcome # "running" /\ break_ \in BOOLEAN
  BY DEF IInv, TypeOK
<1>1. CASE (\E s \in Sessions : Client(s)) \/ UNCHANGED vars
  <2>1. UNCHANGED << pc, outcome, break_ >>
    BY <1>1 DEF Client, ClientConnects, ClientSends, ClientCloses, vars, breakVars
  <2> QED BY <2>1 DEF Abstract!vars
<1>2. CASE Run
  <2>1. pc = "out" /\ pc' = "loop" /\ UNCHANGED << outcome, break_ >>
    BY <1>2 DEF Run, breakVars
  <2> QED BY <1>0, <2>1 DEF Abstract!Next, Abstract!Start
<1>3. CASE LeaveRun
  <2>1. /\ pc = "leave" => break_ = TRUE
        /\ pc \in {"leave", "unwind"} /\ pc' = "out" /\ break_' = FALSE
        /\ outcome' = IF pc = "leave" THEN "returned" ELSE "threw"
    BY <1>0, <1>3 DEF LeaveRun, IInv, Control
  <2> QED BY <2>1 DEF Abstract!Next, Abstract!Return, Abstract!Throw
<1>4. CASE (RunStep /\ ~LeaveRun) \/ SelectFails
  <2>1. pc # "out" /\ pc' # "out" /\ UNCHANGED << outcome, break_ >>
    BY <1>4 DEF RunStep, LoopTest, SelectReturns, SelectFails, DrainBreakPipe, TestBreak,
      Accept, ServiceConnection, ServiceEnds, Serviced, ConsumeReturns, Gather, Dispatch,
      Reject, ConsumeSpoiled, ListenerReturns, ListenerThrows, breakVars
  <2> QED BY <2>1 DEF Abstract!vars
<1>5. CASE Break \/ \E t \in Callers : AsynchronousBreak(t) \/ WriteBreakPipe(t)
  <2>1. UNCHANGED << pc, outcome >> /\ (break_' = TRUE \/ break_' = break_)
    BY <1>5 DEF Break, AsynchronousBreak, WriteBreakPipe
  <2> QED BY <2>1 DEF Abstract!Next, Abstract!Request, Abstract!vars
<1> QED
  BY <1>1, <1>2, <1>3, <1>4, <1>5 DEF Next

(* The safety half of ImplementsStoppableRun: with sessions coming, going  *)
(* and sending, Run returns normally only when a stop was requested, and   *)
(* each time it is left the request is used up.                            *)
THEOREM Refinement == Spec => Abstract!SafeSpec
<1>1. Init => Abstract!Init
  BY DEF Init, Abstract!Init
<1> QED
  BY <1>1, NextRefines, Invariance, PTL DEF Spec, Abstract!SafeSpec

=============================================================================
