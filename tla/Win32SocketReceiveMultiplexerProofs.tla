---------------- MODULE Win32SocketReceiveMultiplexerProofs ----------------
(***************************************************************************)
(* Proofs about Win32SocketReceiveMultiplexer, for every set of sockets,   *)
(* timers and calling threads, queues of every length and an unbounded     *)
(* clock.                                                                  *)
(***************************************************************************)
EXTENDS Win32SocketReceiveMultiplexer, SequenceTheorems, TLAPS

-----------------------------------------------------------------------------
(* The inductive invariant.                                                *)

(* Where Run is and what it may rely on there: the part of the invariant   *)
(* that holds the others up.                                               *)
Control ==
  /\ pc = "leave" => break_
  /\ pc = "timer" => i \in DOMAIN timerQueue
  /\ stopping =>
        break_ /\ pc \in {"packet", "timers", "timer", "loop", "leave", "unwind"}

TimersInOrder ==
  ( \/ pc \in {"wait", "sockets", "packet", "timers"}
    \/ pc = "loop" /\ ~break_
    \/ pc \in {"expired", "timer"} /\ i = 1 ) => SortedByDue(timerQueue)

(* Winsock will set a socket's event, has set it, or Run is about to call  *)
(* recvfrom for the one it was reset for; and Winsock waits for data only  *)
(* where none is queued.                                                   *)
AboutToRead(s) ==
  pc = "sockets" /\ i \in DOMAIN socketListeners /\ socketListeners[i] = s

EventsFollowData ==
  pc \notin {"out", "leave", "unwind"} =>
    \A s \in ToSet(socketListeners) :
      /\ s \in armed \cup signalled \/ AboutToRead(s)
      /\ s \in armed => queue[s] = << >>

IInv == TypeOK /\ Control /\ TimersInOrder /\ EventsFollowData /\ NothingSleptThrough

-----------------------------------------------------------------------------
(* Lemmas about sequences, sortings, Max and the handles.                  *)

(* Erasing an element of a vector leaves a vector of the same type.        *)
LEMMA RemoveAtType ==
  ASSUME NEW S, NEW q \in Seq(S), NEW j \in DOMAIN q
  PROVE  RemoveAt(q, j) \in Seq(S)
<1>1. /\ Len(q) \in Nat /\ j \in 1..Len(q)
      /\ \A k \in 1..Len(q) : q[k] \in S
  BY LenProperties, ElementOfSeq
<1>2. SubSeq(q, 1, j - 1) \in Seq(S) /\ SubSeq(q, j + 1, Len(q)) \in Seq(S)
  BY <1>1, SubSeqProperties
<1> QED
  BY <1>2, ConcatProperties DEF RemoveAt

(* std::sort yields a queue of the same type that is in order.             *)
LEMMA SortingProperties ==
  ASSUME NEW S, NEW q \in Seq(S), NEW r \in Sortings(q)
  PROVE  r \in Seq(S) /\ SortedByDue(r)
<1>1. PICK p \in [DOMAIN q -> DOMAIN q] : r = [j \in DOMAIN q |-> q[p[j]]]
  BY DEF Sortings
<1>2. /\ Len(q) \in Nat /\ DOMAIN q = 1..Len(q)
      /\ \A k \in 1..Len(q) : q[k] \in S
  BY LenProperties, ElementOfSeq
<1>3. r \in [1..Len(q) -> S]
  BY <1>1, <1>2
<1>4. r \in Seq(S)
  BY <1>2, <1>3, IsASeq
<1> QED
  BY <1>4 DEF Sortings

(* The larger of two times is one of them.                                 *)
LEMMA MaxOfTwo ==
  ASSUME NEW a \in Nat, NEW b \in Nat
  PROVE  Max({a, b}) \in {a, b}
<1>1. \E x \in {a, b} : \A y \in {a, b} : x >= y
  <2>1. CASE a >= b
    BY <2>1
  <2>2. CASE b >= a
    BY <2>2
  <2> QED BY <2>1, <2>2
<1> QED BY <1>1 DEF Max

(* The handle behind those of the sockets is the break event's.            *)
LEMMA HandlesProperties ==
  ASSUME TypeOK
  PROVE  /\ Len(socketListeners) \in Nat
         /\ DOMAIN socketListeners = 1..Len(socketListeners)
         /\ DOMAIN Handles = 1..(Len(socketListeners) + 1)
         /\ \A j \in DOMAIN socketListeners :
              Handles[j] = socketListeners[j] /\ Handles[j] \in Sockets
         /\ Handles[Len(socketListeners) + 1] = "breakEvent"
<1> DEFINE S == Sockets \cup {"breakEvent"}
<1>1. /\ Len(socketListeners) \in Nat /\ DOMAIN socketListeners = 1..Len(socketListeners)
      /\ \A j \in 1..Len(socketListeners) : socketListeners[j] \in Sockets
  BY LenProperties, ElementOfSeq DEF TypeOK
<1>2. socketListeners \in Seq(S)
  <2>1. socketListeners \in [1..Len(socketListeners) -> S]
    BY <1>1, LenProperties DEF TypeOK
  <2> QED BY <1>1, <2>1, IsASeq
<1>3. /\ Handles \in Seq(S) /\ Len(Handles) = Len(socketListeners) + 1
      /\ \A j \in 1..Len(socketListeners) : Handles[j] = socketListeners[j]
      /\ Handles[Len(socketListeners) + 1] = "breakEvent"
  BY <1>2, AppendProperties DEF Handles
<1>4. DOMAIN Handles = 1..Len(Handles)
  BY <1>3, LenProperties
<1> QED BY <1>1, <1>3, <1>4

(* The sockets attached are sockets.                                       *)
LEMMA AttachedType ==
  ASSUME TypeOK
  PROVE  ToSet(socketListeners) \subseteq Sockets /\ "breakEvent" \notin ToSet(socketListeners)
<1> QED BY LenProperties, ElementOfSeq, NamesAssumption DEF TypeOK, ToSet

-----------------------------------------------------------------------------
(* The inductive invariant.                                                *)

(* The initial state satisfies it.                                         *)
LEMMA InitIInv == Init => IInv
<1> SUFFICES ASSUME Init PROVE IInv
  OBVIOUS
<1>1. TypeOK
  <2>1. /\ << >> \in Seq(Sockets) /\ << >> \in Seq(Timers)
        /\ << >> \in Seq(Scheduled) /\ << >> \in Seq(Datagrams)
    BY EmptySeq
  <2>2. /\ caller \in [Callers -> {"idle", "setEvent"}]
        /\ queue \in [Sockets -> Seq(Datagrams)]
    BY <2>1 DEF Init
  <2>3. /\ wakeAt \in Nat \cup {INFINITE} /\ currentTimeMs \in Nat /\ now \in Nat
        /\ i \in Nat \ {0}
    BY DEF Init
  <2>4. break_ \in BOOLEAN /\ stopping \in BOOLEAN
    BY DEF Init
  <2> QED BY <2>1, <2>2, <2>3, <2>4 DEF Init, TypeOK
<1>2. Control /\ TimersInOrder /\ EventsFollowData /\ NothingSleptThrough
  BY DEF Init, Control, TimersInOrder, EventsFollowData, NothingSleptThrough
<1> QED BY <1>1, <1>2 DEF IInv

(* What a step that touches neither events nor data keeps: Run may move on *)
(* anywhere but out of its recvfrom loop in the middle and into the wait.  *)
LEMMA EventsUntouched ==
  ASSUME IInv, UNCHANGED << socketListeners, signalled, armed, queue >>,
         pc \in {"out", "leave", "unwind"} => pc' \in {"out", "leave", "unwind"},
         pc = "sockets" => (pc' = "sockets" /\ i' = i) \/ i > Len(socketListeners)
  PROVE  EventsFollowData'
<1>1. Len(socketListeners) \in Nat /\ DOMAIN socketListeners = 1..Len(socketListeners)
      /\ i \in Nat
  BY HandlesProperties DEF IInv, TypeOK
<1> SUFFICES ASSUME pc' \notin {"out", "leave", "unwind"}, NEW s \in ToSet(socketListeners)
             PROVE  /\ s \in armed \cup signalled \/ AboutToRead(s)'
                    /\ s \in armed => queue[s] = << >>
  BY DEF EventsFollowData
<1>2. /\ s \in armed \cup signalled \/ AboutToRead(s)
      /\ s \in armed => queue[s] = << >>
  BY DEF IInv, EventsFollowData
<1>3. AboutToRead(s) => AboutToRead(s)'
  BY <1>1 DEF AboutToRead
<1> QED BY <1>2, <1>3

(* Attaching and detaching happens outside Run.                            *)
LEMMA AttachmentStep ==
  ASSUME IInv, Attachment
  PROVE  IInv'
<1>1. socketListeners' \in Seq(Sockets) /\ timerListeners' \in Seq(Timers)
  <2>1. ASSUME NEW s \in Sockets, AttachSocketListener(s)
        PROVE  socketListeners' \in Seq(Sockets) /\ timerListeners' \in Seq(Timers)
    BY <2>1, AppendProperties DEF IInv, TypeOK, AttachSocketListener
  <2>2. ASSUME NEW s \in Sockets, DetachSocketListener(s)
        PROVE  socketListeners' \in Seq(Sockets) /\ timerListeners' \in Seq(Timers)
    BY <2>2, RemoveAtType DEF IInv, TypeOK, DetachSocketListener
  <2>3. ASSUME NEW t \in Timers, AttachPeriodicTimerListener(t)
        PROVE  socketListeners' \in Seq(Sockets) /\ timerListeners' \in Seq(Timers)
    BY <2>3, AppendProperties DEF IInv, TypeOK, AttachPeriodicTimerListener
  <2>4. ASSUME NEW t \in Timers, DetachPeriodicTimerListener(t)
        PROVE  socketListeners' \in Seq(Sockets) /\ timerListeners' \in Seq(Timers)
    BY <2>4, RemoveAtType DEF IInv, TypeOK, DetachPeriodicTimerListener
  <2> QED BY <2>1, <2>2, <2>3, <2>4 DEF Attachment
<1>2. /\ pc = "out"
      /\ UNCHANGED << break_, caller, signalled, armed, pc, timerQueue, i, wakeAt,
                      currentTimeMs, queue, now, outcome, stopping >>
  BY DEF Attachment, AttachSocketListener, DetachSocketListener,
         AttachPeriodicTimerListener, DetachPeriodicTimerListener,
         breakVars, eventVars, loopVars, envVars, history
<1>3. TypeOK'
  BY <1>1, <1>2 DEF IInv, TypeOK, Scheduled
<1>4. (Control /\ TimersInOrder)'
  BY <1>2 DEF IInv, Control, TimersInOrder
<1>5. (EventsFollowData /\ NothingSleptThrough)'
  BY <1>2 DEF EventsFollowData, NothingSleptThrough
<1> QED BY <1>3, <1>4, <1>5 DEF IInv

(* Entering Run: the queue it builds is in order, and the new event of a   *)
(* socket that has data already is set.                                    *)
LEMMA RunEntryStep ==
  ASSUME IInv, Run
  PROVE  IInv'
<1> DEFINE q == [ j \in DOMAIN timerListeners |->
                    [ due   |-> now + timerListeners[j].initialDelayMs,
                      timer |-> timerListeners[j] ] ]
           attached == ToSet(socketListeners)
           waiting == { s \in attached : queue[s] # << >> }
<1>1. q \in Seq(Scheduled)
  <2>1. /\ Len(timerListeners) \in Nat /\ DOMAIN timerListeners = 1..Len(timerListeners)
        /\ \A j \in 1..Len(timerListeners) : timerListeners[j] \in Timers
    BY LenProperties, ElementOfSeq DEF IInv, TypeOK
  <2>2. \A j \in 1..Len(timerListeners) : now + timerListeners[j].initialDelayMs \in Nat
    BY <2>1, TimersAssumption DEF IInv, TypeOK
  <2>3. q \in [1..Len(timerListeners) -> Scheduled]
    BY <2>1, <2>2 DEF Scheduled
  <2> QED BY <2>1, <2>3, IsASeq
<1>2. timerQueue' \in Seq(Scheduled) /\ SortedByDue(timerQueue')
  BY <1>1, SortingProperties DEF Run
<1>3. /\ pc = "out" /\ pc' = "loop"
      /\ signalled' = (signalled \ Sockets) \cup waiting /\ armed' = attached \ waiting
      /\ currentTimeMs' = now
      /\ UNCHANGED << socketListeners, timerListeners, break_, caller, i, wakeAt, queue, now,
                      outcome, stopping >>
  BY DEF Run, muxVars, breakVars, envVars, history
<1>4. attached \subseteq Sockets
  BY AttachedType DEF IInv
<1>5. TypeOK'
  BY <1>2, <1>3, <1>4 DEF IInv, TypeOK, Scheduled
<1>6. (Control /\ TimersInOrder)'
  BY <1>2, <1>3 DEF IInv, Control, TimersInOrder, SortedByDue
<1>7. EventsFollowData'
  BY <1>3 DEF EventsFollowData
<1>8. NothingSleptThrough'
  BY <1>3 DEF NothingSleptThrough
<1> QED BY <1>5, <1>6, <1>7, <1>8 DEF IInv

(* Run begins to wait: no stop was requested, every socket with data has   *)
(* its event set, and the first timer of an ordered queue is the earliest. *)
LEMMA LoopTestStep ==
  ASSUME IInv, LoopTest
  PROVE  IInv'
<1>0. /\ pc = "loop"
      /\ UNCHANGED << socketListeners, timerListeners, break_, caller, signalled, armed,
                      timerQueue, i, queue, now, outcome, stopping >>
  BY DEF LoopTest, muxVars, breakVars, eventVars, envVars, history
<1>1. CASE break_
  <2>1. pc' = "leave" /\ UNCHANGED << currentTimeMs, wakeAt >>
    BY <1>1 DEF LoopTest
  <2>2. TypeOK'
    BY <1>0, <2>1 DEF IInv, TypeOK, Scheduled
  <2>3. (Control /\ TimersInOrder /\ EventsFollowData /\ NothingSleptThrough)'
    BY <1>0, <1>1, <2>1
    DEF IInv, Control, TimersInOrder, EventsFollowData, NothingSleptThrough
  <2> QED BY <2>2, <2>3 DEF IInv
<1>2. CASE ~break_
  <2>1. /\ pc' = "wait" /\ currentTimeMs' = now
        /\ wakeAt' = IF timerQueue = << >> THEN INFINITE ELSE Max({now, timerQueue[1].due})
    BY <1>2 DEF LoopTest
  <2>2. SortedByDue(timerQueue)
    BY <1>0, <1>2 DEF IInv, TimersInOrder
  <2>3. /\ Len(timerQueue) \in Nat /\ DOMAIN timerQueue = 1..Len(timerQueue)
        /\ \A j \in DOMAIN timerQueue : timerQueue[j].due \in Nat
    <3>1. /\ Len(timerQueue) \in Nat /\ DOMAIN timerQueue = 1..Len(timerQueue)
          /\ \A j \in 1..Len(timerQueue) : timerQueue[j] \in Scheduled
      BY LenProperties, ElementOfSeq DEF IInv, TypeOK
    <3> QED BY <3>1 DEF Scheduled
  <2>4. /\ wakeAt' \in Nat \cup {INFINITE}
        /\ \A j \in DOMAIN timerQueue :
             wakeAt' # INFINITE /\ (wakeAt' <= timerQueue[j].due \/ wakeAt' <= now)
    <3>1. CASE timerQueue = << >>
      <4>1. wakeAt' = INFINITE /\ DOMAIN timerQueue = {}
        BY <2>1, <3>1
      <4> QED BY <4>1
    <3>2. CASE timerQueue # << >>
      <4>1. 1 \in DOMAIN timerQueue
        BY <2>3, <3>2, EmptySeq DEF IInv, TypeOK
      <4>2. now \in Nat /\ timerQueue[1].due \in Nat
        BY <2>3, <4>1 DEF IInv, TypeOK
      <4>3. wakeAt' \in {now, timerQueue[1].due}
        BY <2>1, <3>2, <4>2, MaxOfTwo
      <4>4. \A j \in DOMAIN timerQueue : timerQueue[1].due <= timerQueue[j].due
        BY <2>2, <2>3, <4>1 DEF SortedByDue
      <4> QED BY <2>3, <4>2, <4>3, <4>4 DEF INFINITE
    <3> QED BY <3>1, <3>2
  <2>5. TypeOK'
    BY <1>0, <2>1, <2>4 DEF IInv, TypeOK, Scheduled
  <2>6. (Control /\ TimersInOrder)'
    BY <1>0, <1>2, <2>1, <2>2 DEF IInv, Control, TimersInOrder
  <2>7. EventsFollowData'
    BY <1>0, <2>1, EventsUntouched
  <2>8. \A s \in ToSet(socketListeners) : queue[s] # << >> => s \in signalled
    BY <1>0 DEF IInv, EventsFollowData, AboutToRead
  <2>9. NothingSleptThrough'
    BY <1>0, <1>2, <2>4, <2>8 DEF NothingSleptThrough
  <2> QED BY <2>5, <2>6, <2>7, <2>9 DEF IInv
<1> QED BY <1>1, <1>2

(* The event that ended the wait was reset; the loop over the sockets      *)
(* starts where it is read for.                                            *)
LEMMA EventEndsWaitStep ==
  ASSUME IInv, EventEndsWait
  PROVE  IInv'
<1>1. PICK j \in DOMAIN Handles : signalled' = signalled \ {Handles[j]} /\ i' = j
  BY DEF EventEndsWait
<1>2. /\ pc = "wait" /\ pc' = IF break_ THEN "leave" ELSE "sockets"
      /\ UNCHANGED << socketListeners, timerListeners, break_, caller, armed, timerQueue,
                      wakeAt, currentTimeMs, queue, now, outcome, stopping >>
  BY DEF EventEndsWait, muxVars, breakVars, envVars, history
<1>3. /\ Len(socketListeners) \in Nat /\ DOMAIN socketListeners = 1..Len(socketListeners)
      /\ DOMAIN Handles = 1..(Len(socketListeners) + 1)
      /\ \A k \in DOMAIN socketListeners : Handles[k] = socketListeners[k]
      /\ Handles[Len(socketListeners) + 1] = "breakEvent"
  BY HandlesProperties DEF IInv
<1>4. i' \in Nat \ {0}
  BY <1>1, <1>3
<1>5. TypeOK'
  BY <1>1, <1>2, <1>4 DEF IInv, TypeOK, Scheduled
<1>6. (Control /\ TimersInOrder)'
  BY <1>2 DEF IInv, TypeOK, Control, TimersInOrder
<1>7. EventsFollowData'
  <2> SUFFICES ASSUME NEW s \in ToSet(socketListeners), pc' = "sockets"
               PROVE  /\ s \in armed \cup signalled' \/ AboutToRead(s)'
                      /\ s \in armed => queue[s] = << >>
    BY <1>2 DEF EventsFollowData
  <2>1. s \in armed \cup signalled /\ (s \in armed => queue[s] = << >>)
    BY <1>2 DEF IInv, EventsFollowData, AboutToRead
  <2>2. CASE Handles[j] = s
    <3>1. s # "breakEvent"
      BY AttachedType DEF IInv
    <3>2. j \in DOMAIN socketListeners /\ socketListeners[j] = s
      BY <1>3, <2>2, <3>1
    <3> QED BY <1>1, <1>2, <2>1, <3>2 DEF AboutToRead
  <2>3. CASE Handles[j] # s
    BY <1>1, <2>1, <2>3
  <2> QED BY <2>2, <2>3
<1>8. NothingSleptThrough'
  BY <1>2 DEF NothingSleptThrough
<1> QED BY <1>5, <1>6, <1>7, <1>8 DEF IInv

(* The steps of Run that touch neither events nor data nor the timers.     *)
LEMMA PlainStep ==
  ASSUME IInv,
         WaitTimesOut \/ SocketsDone \/ PacketListenerReturns \/ ReadClock \/ TimerExpires
           \/ ListenerThrows
  PROVE  IInv'
<1>1. /\ \/ pc = "wait" /\ pc' = (IF break_ THEN "leave" ELSE "timers")
         \/ pc = "sockets" /\ i > Len(socketListeners) /\ pc' = "timers"
         \/ pc = "packet" /\ pc' = IF break_ THEN "timers" ELSE "sockets"
         \/ pc = "timers" /\ break_ /\ pc' = "leave"
         \/ pc = "timers" /\ ~break_ /\ pc' = "expired"
         \/ pc = "expired" /\ TimerIsDue /\ i' = i /\ pc' = "timer"
         \/ pc \in {"packet", "timer"} /\ pc' = "unwind"
      /\ UNCHANGED << socketListeners, timerListeners, break_, caller, signalled, armed,
                      timerQueue, wakeAt, queue, now, outcome, stopping >>
  BY DEF WaitTimesOut, SocketsDone, PacketListenerReturns, ReadClock, TimerExpires,
         ListenerThrows, muxVars, breakVars, eventVars, loopVars, envVars, history
<1>2. i' \in Nat \ {0} /\ currentTimeMs' \in Nat
  BY DEF IInv, TypeOK, WaitTimesOut, SocketsDone, PacketListenerReturns, ReadClock,
         TimerExpires, ListenerThrows, loopVars
<1>3. TypeOK'
  BY <1>1, <1>2 DEF IInv, TypeOK, Scheduled
<1>4. TimerIsDue => i \in DOMAIN timerQueue
  <2>1. Len(timerQueue) \in Nat /\ DOMAIN timerQueue = 1..Len(timerQueue)
    BY LenProperties DEF IInv, TypeOK
  <2> QED BY <2>1 DEF TimerIsDue, IInv, TypeOK
<1>5. Control'
  BY <1>1, <1>4 DEF IInv, TypeOK, Control
<1>6. TimersInOrder'
  BY <1>1 DEF IInv, TimersInOrder
<1>7. EventsFollowData'
  BY <1>1, EventsUntouched
<1>8. NothingSleptThrough'
  BY <1>1 DEF NothingSleptThrough
<1> QED BY <1>3, <1>5, <1>6, <1>7, <1>8 DEF IInv

(* recvfrom enables the event of the socket again, or sets it at once when *)
(* more data is queued.                                                    *)
LEMMA ServiceSocketStep ==
  ASSUME IInv, ServiceSocket
  PROVE  IInv'
<1> DEFINE s == socketListeners[i]
           rest == IF queue[s] = << >> THEN << >> ELSE Tail(queue[s])
<1>1. /\ pc = "sockets" /\ i <= Len(socketListeners)
      /\ queue' = [queue EXCEPT ![s] = rest]
      /\ IF rest = << >>
         THEN armed' = armed \cup {s} /\ signalled' = signalled
         ELSE armed' = armed \ {s} /\ signalled' = signalled \cup {s}
      /\ \/ pc' = "timers" /\ i' = i
         \/ ~break_ /\ pc' = "packet" /\ i' = i
         \/ pc' = "sockets" /\ i' = i + 1
      /\ UNCHANGED << socketListeners, timerListeners, break_, caller, timerQueue, wakeAt,
                      currentTimeMs, now, outcome, stopping >>
  BY DEF ServiceSocket, muxVars, breakVars, history
<1>2. i \in DOMAIN socketListeners /\ s \in Sockets
  <2>1. Len(socketListeners) \in Nat /\ DOMAIN socketListeners = 1..Len(socketListeners)
        /\ \A j \in 1..Len(socketListeners) : socketListeners[j] \in Sockets
    BY LenProperties, ElementOfSeq DEF IInv, TypeOK
  <2> QED BY <1>1, <2>1 DEF IInv, TypeOK
<1>3. queue[s] \in Seq(Datagrams) /\ rest \in Seq(Datagrams)
  <2>1. queue[s] \in Seq(Datagrams)
    BY <1>2 DEF IInv, TypeOK
  <2> QED BY <2>1, EmptySeq, HeadTailProperties
<1> HIDE DEF rest
<1>4. /\ queue' \in [Sockets -> Seq(Datagrams)] /\ queue'[s] = rest
      /\ \A r \in Sockets \ {s} : queue'[r] = queue[r]
  BY <1>1, <1>2, <1>3 DEF IInv, TypeOK
<1>5. i' \in Nat \ {0} /\ pc' \in {"timers", "packet", "sockets"}
  BY <1>1 DEF IInv, TypeOK
<1>6. signalled' \subseteq Sockets \cup {"breakEvent"} /\ armed' \subseteq Sockets
  BY <1>1, <1>2 DEF IInv, TypeOK
<1>7. TypeOK'
  BY <1>1, <1>4, <1>5, <1>6 DEF IInv, TypeOK, Scheduled
<1>8. (Control /\ TimersInOrder)'
  BY <1>1 DEF IInv, Control, TimersInOrder
<1>9. EventsFollowData'
  <2> SUFFICES ASSUME NEW r \in ToSet(socketListeners)
               PROVE  /\ r \in armed' \cup signalled'
                      /\ r \in armed' => queue'[r] = << >>
    BY <1>1 DEF EventsFollowData
  <2>1. CASE r = s
    BY <1>1, <1>4, <2>1
  <2>2. CASE r # s
    <3>1. r \in Sockets
      BY AttachedType DEF IInv
    <3>2. ~AboutToRead(r)
      BY <2>2 DEF AboutToRead
    <3>3. r \in armed \cup signalled /\ (r \in armed => queue[r] = << >>)
      BY <1>1, <3>2 DEF IInv, EventsFollowData
    <3> QED BY <1>1, <1>4, <2>2, <3>1, <3>3
  <2> QED BY <2>1, <2>2
<1>10. NothingSleptThrough'
  BY <1>5 DEF NothingSleptThrough
<1> QED BY <1>7, <1>8, <1>9, <1>10 DEF IInv

(* The queue is sorted again when a timer has fired, and a timer's next    *)
(* time is one period later.                                               *)
LEMMA TimerStep ==
  ASSUME IInv, TimersDone \/ TimerListenerReturns
  PROVE  IInv'
<1>1. /\ pc \in {"expired", "timer"}
      /\ UNCHANGED << socketListeners, timerListeners, break_, caller, signalled, armed,
                      wakeAt, currentTimeMs, queue, now, outcome, stopping >>
  BY DEF TimersDone, TimerListenerReturns, muxVars, breakVars, eventVars, envVars, history
<1>2. /\ timerQueue' \in Seq(Scheduled) /\ i' \in Nat \ {0}
      /\ \/ pc = "expired" /\ pc' = "loop" /\ SortedByDue(timerQueue')
         \/ pc = "timer" /\ pc' = "loop" /\ break_
         \/ pc = "timer" /\ pc' = "expired" /\ i' # 1 /\ ~break_
  <2>0. timerQueue \in Seq(Scheduled) /\ i \in Nat \ {0}
    BY DEF IInv, TypeOK
  <2>1. CASE TimersDone /\ i = 1
    BY <2>0, <2>1 DEF TimersDone, IInv, TimersInOrder
  <2>2. CASE TimersDone /\ i # 1
    <3>1. timerQueue' \in Sortings(timerQueue) /\ pc = "expired" /\ pc' = "loop" /\ i' = i
      BY <2>2 DEF TimersDone
    <3> QED BY <2>0, <3>1, SortingProperties
  <2>3. CASE TimerListenerReturns /\ break_
    BY <2>0, <2>3 DEF TimerListenerReturns
  <2>4. CASE TimerListenerReturns /\ ~break_
    <3>1. /\ pc = "timer" /\ pc' = "expired" /\ i' = i + 1
          /\ timerQueue' = [timerQueue EXCEPT ![i].due = @ + timerQueue[i].timer.periodMs]
      BY <2>4 DEF TimerListenerReturns
    <3> DEFINE later == [timerQueue[i] EXCEPT !.due = @ + timerQueue[i].timer.periodMs]
    <3>2. i \in DOMAIN timerQueue
      BY <3>1 DEF IInv, Control
    <3>3. timerQueue[i] \in Scheduled
      BY <2>0, <3>2, LenProperties, ElementOfSeq
    <3>4. timerQueue[i].due + timerQueue[i].timer.periodMs \in Nat
      BY <3>3, TimersAssumption DEF Scheduled
    <3>5. later \in Scheduled
      BY <3>3, <3>4 DEF Scheduled
    <3>6. timerQueue' = [timerQueue EXCEPT ![i] = later]
      BY <3>1
    <3>7. timerQueue' \in Seq(Scheduled)
      BY <2>0, <3>2, <3>5, <3>6, ExceptSeq
    <3>8. i' \in Nat \ {0} /\ i' # 1
      BY <2>0, <3>1
    <3> QED BY <2>4, <3>1, <3>7, <3>8
  <2> QED BY <2>1, <2>2, <2>3, <2>4
<1>3. TypeOK'
  BY <1>1, <1>2 DEF IInv, TypeOK, Scheduled
<1>4. Control'
  BY <1>1, <1>2 DEF IInv, Control
<1>5. TimersInOrder'
  BY <1>1, <1>2 DEF TimersInOrder, SortedByDue
<1>6. EventsFollowData'
  BY <1>1, <1>2, EventsUntouched
<1>7. NothingSleptThrough'
  BY <1>2 DEF NothingSleptThrough
<1> QED BY <1>3, <1>4, <1>5, <1>6, <1>7 DEF IInv

(* Leaving Run resets what belongs to the call, and the flag.              *)
LEMMA LeaveRunStep ==
  ASSUME IInv, LeaveRun
  PROVE  IInv'
<1>1. /\ break_' = FALSE /\ pc' = "out" /\ outcome' \in {"returned", "threw"}
      /\ stopping' = FALSE /\ signalled' = signalled \ Sockets /\ armed' = {}
      /\ timerQueue' = << >> /\ i' = 1 /\ wakeAt' = INFINITE /\ currentTimeMs' = 0
      /\ UNCHANGED << socketListeners, timerListeners, caller, queue, now >>
  BY DEF LeaveRun, muxVars, envVars
<1>2. timerQueue' \in Seq(Scheduled) /\ i' \in Nat \ {0} /\ currentTimeMs' \in Nat
  BY <1>1, EmptySeq
<1>3. TypeOK'
  BY <1>1, <1>2 DEF IInv, TypeOK, Scheduled
<1>4. (Control /\ TimersInOrder /\ EventsFollowData /\ NothingSleptThrough)'
  BY <1>1 DEF Control, TimersInOrder, EventsFollowData, NothingSleptThrough
<1> QED BY <1>3, <1>4 DEF IInv

(* The flag is set before the event, so the event a caller still owes      *)
(* covers every wait that begins afterwards.                               *)
LEMMA StopRequestStep ==
  ASSUME IInv, Break \/ \E t \in Callers : AsynchronousBreak(t) \/ SetBreakEvent(t)
  PROVE  IInv'
<1>1. UNCHANGED << socketListeners, timerListeners, armed, pc, timerQueue, i, wakeAt,
                   currentTimeMs, queue, now, outcome >>
  BY DEF Break, AsynchronousBreak, SetBreakEvent, muxVars, eventVars, loopVars, envVars,
         history
<1>2. CASE Break
  <2>1. /\ pc \in {"out", "packet", "timer"} /\ break_' = TRUE
        /\ stopping' = (pc # "out") /\ UNCHANGED << caller, signalled >>
    BY <1>2 DEF Break, eventVars
  <2>2. stopping' \in BOOLEAN
    BY <2>1
  <2>3. TypeOK'
    BY <1>1, <2>1, <2>2 DEF IInv, TypeOK, Scheduled
  <2>4. (Control /\ TimersInOrder /\ NothingSleptThrough)'
    BY <1>1, <2>1 DEF IInv, Control, TimersInOrder, NothingSleptThrough
  <2>5. EventsFollowData'
    BY <1>1, <2>1, EventsUntouched
  <2> QED BY <2>3, <2>4, <2>5 DEF IInv
<1>3. ASSUME NEW t \in Callers, AsynchronousBreak(t)
      PROVE  IInv'
  <2>1. /\ break_' = TRUE /\ caller' = [caller EXCEPT ![t] = "setEvent"]
        /\ UNCHANGED << signalled, stopping >>
    BY <1>3 DEF AsynchronousBreak, eventVars, history
  <2>2. caller'[t] = "setEvent" /\ caller' \in [Callers -> {"idle", "setEvent"}]
    BY <2>1 DEF IInv, TypeOK
  <2>3. TypeOK'
    BY <1>1, <2>1, <2>2 DEF IInv, TypeOK, Scheduled
  <2>4. (Control /\ TimersInOrder)'
    BY <1>1, <2>1 DEF IInv, Control, TimersInOrder
  <2>5. NothingSleptThrough'
    BY <1>1, <2>1, <2>2 DEF IInv, NothingSleptThrough
  <2>6. EventsFollowData'
    BY <1>1, <2>1, EventsUntouched
  <2> QED BY <2>3, <2>4, <2>5, <2>6 DEF IInv
<1>4. ASSUME NEW t \in Callers, SetBreakEvent(t)
      PROVE  IInv'
  <2>1. /\ signalled' = signalled \cup {"breakEvent"} /\ UNCHANGED << break_, stopping >>
        /\ caller' = [caller EXCEPT ![t] = "idle"]
    BY <1>4 DEF SetBreakEvent, history
  <2>2. TypeOK'
    BY <1>1, <2>1 DEF IInv, TypeOK, Scheduled
  <2>3. (Control /\ TimersInOrder)'
    BY <1>1, <2>1 DEF IInv, Control, TimersInOrder
  <2>4. NothingSleptThrough'
    BY <1>1, <2>1 DEF IInv, NothingSleptThrough
  <2>5. EventsFollowData'
    BY <1>1, <2>1 DEF IInv, EventsFollowData, AboutToRead
  <2> QED BY <2>2, <2>3, <2>4, <2>5 DEF IInv
<1> QED BY <1>2, <1>3, <1>4

(* Data that arrives sets the event of a socket Winsock waits for.         *)
LEMMA DatagramArrivesStep ==
  ASSUME IInv, NEW s \in Sockets, NEW d \in Datagrams, DatagramArrives(s, d)
  PROVE  IInv'
<1>1. /\ queue' = [queue EXCEPT ![s] = Append(@, d)]
      /\ IF s \in armed
         THEN signalled' = signalled \cup {s} /\ armed' = armed \ {s}
         ELSE signalled' = signalled /\ armed' = armed
      /\ UNCHANGED << socketListeners, timerListeners, break_, caller, pc, timerQueue, i,
                      wakeAt, currentTimeMs, now, outcome, stopping >>
  BY DEF DatagramArrives, muxVars, breakVars, eventVars, loopVars, history
<1>2. /\ queue' \in [Sockets -> Seq(Datagrams)]
      /\ \A r \in Sockets \ {s} : queue'[r] = queue[r]
  <2>1. Append(queue[s], d) \in Seq(Datagrams)
    BY AppendProperties DEF IInv, TypeOK
  <2> QED BY <1>1, <2>1 DEF IInv, TypeOK
<1>3. TypeOK'
  BY <1>1, <1>2 DEF IInv, TypeOK, Scheduled
<1>4. (Control /\ TimersInOrder)'
  BY <1>1 DEF IInv, Control, TimersInOrder
<1>5. \A r \in ToSet(socketListeners) : r \in Sockets
  BY AttachedType DEF IInv
<1>6. EventsFollowData'
  BY <1>1, <1>2, <1>5 DEF IInv, EventsFollowData, AboutToRead
<1>7. NothingSleptThrough'
  <2> SUFFICES ASSUME pc = "wait"
               PROVE  \A r \in ToSet(socketListeners) : queue'[r] # << >> => r \in signalled'
    BY <1>1 DEF IInv, NothingSleptThrough
  <2>1. \A r \in ToSet(socketListeners) :
          /\ r \in armed \cup signalled
          /\ queue[r] # << >> => r \in signalled
    BY DEF IInv, EventsFollowData, NothingSleptThrough, AboutToRead
  <2> QED BY <1>1, <1>2, <1>5, <2>1
<1> QED BY <1>3, <1>4, <1>6, <1>7 DEF IInv

(* Time passes.                                                            *)
LEMMA TickStep ==
  ASSUME IInv, Tick
  PROVE  IInv'
<1>1. /\ now' = now + 1
      /\ UNCHANGED << socketListeners, timerListeners, break_, caller, signalled, armed, pc,
                      timerQueue, i, wakeAt, currentTimeMs, queue, outcome, stopping >>
  BY DEF Tick, muxVars, breakVars, eventVars, loopVars, history
<1>2. now \in Nat /\ now' \in Nat /\ wakeAt \in Nat \cup {INFINITE}
  BY <1>1 DEF IInv, TypeOK
<1>3. TypeOK'
  BY <1>1, <1>2 DEF IInv, TypeOK, Scheduled
<1>4. (Control /\ TimersInOrder)'
  BY <1>1 DEF IInv, Control, TimersInOrder
<1>5. EventsFollowData'
  BY <1>1, EventsUntouched
<1>6. NothingSleptThrough'
  BY <1>1, <1>2 DEF IInv, NothingSleptThrough, INFINITE
<1> QED BY <1>3, <1>4, <1>5, <1>6 DEF IInv

(* Every step preserves the invariant.                                     *)
LEMMA NextIInv == IInv /\ [Next]_vars => IInv'
<1> SUFFICES ASSUME IInv, [Next]_vars PROVE IInv'
  OBVIOUS
<1>1. CASE Attachment \/ Run
  BY <1>1, AttachmentStep, RunEntryStep
<1>2. CASE RunStep
  BY <1>2, LoopTestStep, EventEndsWaitStep, PlainStep, ServiceSocketStep, TimerStep,
     LeaveRunStep
  DEF RunStep
<1>3. CASE Break \/ \E t \in Callers : AsynchronousBreak(t) \/ SetBreakEvent(t)
  BY <1>3, StopRequestStep
<1>4. CASE Environment
  BY <1>4, DatagramArrivesStep, TickStep DEF Environment
<1>5. CASE UNCHANGED vars
  <2>1. UNCHANGED << socketListeners, timerListeners, break_, caller, signalled, armed, pc,
                     timerQueue, i, wakeAt, currentTimeMs, queue, now, outcome, stopping >>
    BY <1>5 DEF vars, muxVars, breakVars, eventVars, loopVars, envVars, history
  <2>2. TypeOK'
    BY <2>1 DEF IInv, TypeOK, Scheduled
  <2>3. (Control /\ TimersInOrder /\ NothingSleptThrough)'
    BY <2>1 DEF IInv, Control, TimersInOrder, NothingSleptThrough
  <2>4. EventsFollowData'
    BY <2>1, EventsUntouched
  <2> QED BY <2>2, <2>3, <2>4 DEF IInv
<1> QED BY <1>1, <1>2, <1>3, <1>4, <1>5 DEF Next

LEMMA Invariance == Spec => []IInv
<1> QED BY InitIInv, NextIInv, PTL DEF Spec

-----------------------------------------------------------------------------
(* The theorems.                                                           *)

(* Every variable keeps its type.                                          *)
THEOREM TypeCorrect == Spec => []TypeOK
<1>1. IInv => TypeOK
  BY DEF IInv
<1> QED BY <1>1, Invariance, PTL

(* While Run waits, no stop request, no datagram and no timer is slept     *)
(* through, although a wait resets one event only and Winsock sets an      *)
(* event once until recvfrom is called.                                    *)
THEOREM NothingLost == Spec => []NothingSleptThrough
<1>1. IInv => NothingSleptThrough
  BY DEF IInv
<1> QED BY <1>1, Invariance, PTL

(* After Break in a listener no listener is called in this Run.            *)
THEOREM BreakIsFinal == Spec => NoCallbackAfterBreak
<1>1. IInv /\ [Next]_vars =>
        [stopping /\ stopping' /\ pc' \in {"packet", "timer"} => pc' = pc]_vars
  <2> SUFFICES ASSUME IInv, Next, stopping, pc' \in {"packet", "timer"}
               PROVE  pc' = pc
    OBVIOUS
  <2>1. break_ /\ pc # "expired"
    BY DEF IInv, Control
  <2>2. CASE Attachment \/ Environment \/ Break
               \/ \E t \in Callers : AsynchronousBreak(t) \/ SetBreakEvent(t)
    BY <2>2 DEF Attachment, AttachSocketListener, DetachSocketListener,
      AttachPeriodicTimerListener, DetachPeriodicTimerListener, Environment,
      DatagramArrives, Tick, Break, AsynchronousBreak, SetBreakEvent
  <2>3. CASE Run \/ RunStep
    BY <2>1, <2>3 DEF Run, RunStep, LoopTest, EventEndsWait, WaitTimesOut, ServiceSocket,
      SocketsDone, PacketListenerReturns, ReadClock, TimerExpires, TimersDone,
      TimerListenerReturns, ListenerThrows, LeaveRun
  <2> QED BY <2>2, <2>3 DEF Next
<1> QED BY <1>1, Invariance, PTL DEF Spec, NoCallbackAfterBreak

-----------------------------------------------------------------------------
(* The refinement of StoppableRun.                                         *)

(* Every step is a step of StoppableRun or changes nothing there.          *)
LEMMA NextRefines == IInv /\ [Next]_vars => [Abstract!Next]_(Abstract!vars)
<1> SUFFICES ASSUME IInv, [Next]_vars PROVE [Abstract!Next]_(Abstract!vars)
  OBVIOUS
<1>0. outcome # "running" /\ break_ \in BOOLEAN
  BY DEF IInv, TypeOK
<1>1. CASE Attachment \/ Environment \/ UNCHANGED vars
  <2>1. UNCHANGED << pc, outcome, break_ >>
    BY <1>1 DEF Attachment, AttachSocketListener, DetachSocketListener,
      AttachPeriodicTimerListener, DetachPeriodicTimerListener, Environment,
      DatagramArrives, Tick, vars, breakVars, history
  <2> QED BY <2>1 DEF Abstract!vars
<1>2. CASE Run
  <2>1. pc = "out" /\ pc' = "loop" /\ UNCHANGED << outcome, break_ >>
    BY <1>2 DEF Run, breakVars, history
  <2> QED BY <1>0, <2>1 DEF Abstract!Next, Abstract!Start
<1>3. CASE LeaveRun
  <2>1. /\ pc = "leave" => break_ = TRUE
        /\ pc \in {"leave", "unwind"} /\ pc' = "out" /\ break_' = FALSE
        /\ outcome' = IF pc = "leave" THEN "returned" ELSE "threw"
    BY <1>0, <1>3 DEF LeaveRun, IInv, Control
  <2> QED BY <2>1 DEF Abstract!Next, Abstract!Return, Abstract!Throw
<1>4. CASE RunStep /\ ~LeaveRun
  <2>1. pc # "out" /\ pc' # "out" /\ UNCHANGED << outcome, break_ >>
    BY <1>4 DEF RunStep, LoopTest, EventEndsWait, WaitTimesOut, ServiceSocket, SocketsDone,
      PacketListenerReturns, ReadClock, TimerExpires, TimersDone, TimerListenerReturns,
      ListenerThrows, breakVars, history
  <2> QED BY <2>1 DEF Abstract!vars
<1>5. CASE Break \/ \E t \in Callers : AsynchronousBreak(t) \/ SetBreakEvent(t)
  <2>1. UNCHANGED << pc, outcome >> /\ (break_' = TRUE \/ break_' = break_)
    BY <1>5 DEF Break, AsynchronousBreak, SetBreakEvent, history
  <2> QED BY <2>1 DEF Abstract!Next, Abstract!Request, Abstract!vars
<1> QED
  BY <1>1, <1>2, <1>3, <1>4, <1>5 DEF Next

(* The safety half of ImplementsStoppableRun, with events that reset       *)
(* themselves in place of the pipe.                                        *)
THEOREM Refinement == Spec => Abstract!SafeSpec
<1>1. Init => Abstract!Init
  BY DEF Init, Abstract!Init
<1> QED
  BY <1>1, NextRefines, Invariance, PTL DEF Spec, Abstract!SafeSpec

=============================================================================
