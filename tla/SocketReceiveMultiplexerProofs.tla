------------------- MODULE SocketReceiveMultiplexerProofs -------------------
(***************************************************************************)
(* Proofs about SocketReceiveMultiplexer, for every set of sockets, timers *)
(* and calling threads, every pipe capacity and an unbounded clock.        *)
(***************************************************************************)
EXTENDS SocketReceiveMultiplexer, SequenceTheorems, TLAPS

-----------------------------------------------------------------------------
(* The inductive invariant.                                                *)

(* How the flag, the pipe and Run's position fit together, and the timer   *)
(* queue's order: with the properties below, the inductive invariant.      *)
Control ==
  /\ pc = "drain" /\ "breakPipe" \in tempfds => pipe > 0
  /\ pc = "leave" => break_
  /\ pc = "timer" => i \in DOMAIN timerQueue
  /\ late # NotStopping =>
        break_ /\ pc \in {"packet", "timers", "expired", "timer", "loop", "leave", "unwind"}
  /\ late > 0 => late = 1 /\ pc \in {"timer", "loop", "leave", "unwind"}

TimersInOrder ==
  ( \/ pc \in {"select", "drain", "test", "sockets", "packet", "timers"}
    \/ pc = "loop" /\ ~break_
    \/ pc \in {"expired", "timer"} /\ i = 1 ) => SortedByDue(timerQueue)

IInv ==
  TypeOK /\ Control /\ TimersInOrder /\ NoLostWakeup /\ WakesForEarliestTimer

-----------------------------------------------------------------------------
(* Lemmas about sequences, sortings and Max.                               *)

(* Erasing an element of a vector leaves a vector of the same type.        *)
LEMMA RemoveAtType ==
  ASSUME NEW S, NEW q \in Seq(S), NEW j \in DOMAIN q
  PROVE  RemoveAt(q, j) \in Seq(S)
<1>1. /\ Len(q) \in Nat /\ j \in 1..Len(q)
      /\ \A k \in 1..Len(q) : q[k] \in S
  BY LenProperties, ElementOfSeq
<1>2. SubSeq(q, 1, j - 1) \in Seq(S) /\ SubSeq(q, j + 1, Len(q)) \in Seq(S)
  BY <1>1, SubSeqProperties
<1> QED
  BY <1>2, ConcatProperties DEF RemoveAt

(* std::sort yields a queue of the same type that is in order.             *)
LEMMA SortingProperties ==
  ASSUME NEW S, NEW q \in Seq(S), NEW r \in Sortings(q)
  PROVE  r \in Seq(S) /\ SortedByDue(r)
<1>1. PICK p \in [DOMAIN q -> DOMAIN q] : r = [j \in DOMAIN q |-> q[p[j]]]
  BY DEF Sortings
<1>2. /\ Len(q) \in Nat /\ DOMAIN q = 1..Len(q)
      /\ \A k \in 1..Len(q) : q[k] \in S
  BY LenProperties, ElementOfSeq
<1>3. r \in [1..Len(q) -> S]
  BY <1>1, <1>2
<1>4. r \in Seq(S)
  BY <1>2, <1>3, IsASeq
<1> QED
  BY <1>4 DEF Sortings

(* The larger of two times.                                                *)
LEMMA MaxOfTwo ==
  ASSUME NEW a \in Nat, NEW b \in Nat
  PROVE  Max({a, b}) \in {a, b} /\ Max({a, b}) >= a /\ Max({a, b}) >= b
<1>1. \E x \in {a, b} : \A y \in {a, b} : x >= y
  <2>1. CASE a >= b
    BY <2>1
  <2>2. CASE b >= a
    BY <2>2
  <2> QED BY <2>1, <2>2
<1>2. /\ Max({a, b}) \in {a, b}
      /\ \A y \in {a, b} : Max({a, b}) >= y
  BY <1>1 DEF Max
<1> QED BY <1>2

-----------------------------------------------------------------------------
(* The inductive invariant.                                                *)

(* The initial state satisfies it.                                         *)
LEMMA InitIInv == Init => IInv
<1> SUFFICES ASSUME Init PROVE IInv
  OBVIOUS
<1>1. TypeOK
  <2>1. /\ << >> \in Seq(Sockets) /\ << >> \in Seq(Timers)
        /\ << >> \in Seq(Scheduled) /\ << >> \in Seq(Datagrams)
    BY EmptySeq
  <2>2. /\ caller \in [Callers -> {"idle", "write"}]
        /\ queue \in [Sockets -> Seq(Datagrams)]
    BY <2>1 DEF Init
  <2> QED
    <3>1. /\ pipe \in 0..PipeCapacity
          /\ wakeAt \in Nat \cup {NoTimeout} /\ currentTimeMs \in Nat /\ now \in Nat
          /\ i \in Nat \ {0}
          /\ late \in Nat \cup {NotStopping}
      BY PipeAssumption DEF Init
    <3>2. break_ \in BOOLEAN
      BY DEF Init
    <3> QED BY <2>1, <2>2, <3>1, <3>2 DEF Init, TypeOK
<1>2. Control /\ TimersInOrder /\ NoLostWakeup /\ WakesForEarliestTimer
  BY DEF Init, Control, TimersInOrder, NoLostWakeup, WakesForEarliestTimer,
         NotStopping
<1> QED BY <1>1, <1>2 DEF IInv

(* Attaching and detaching happens outside Run.                            *)
LEMMA AttachmentStep ==
  ASSUME IInv, Attachment
  PROVE  IInv'
<1>1. socketListeners' \in Seq(Sockets) /\ timerListeners' \in Seq(Timers)
  <2>1. ASSUME NEW s \in Sockets, AttachSocketListener(s)
        PROVE  socketListeners' \in Seq(Sockets) /\ timerListeners' \in Seq(Timers)
    BY <2>1, AppendProperties DEF IInv, TypeOK, AttachSocketListener
  <2>2. ASSUME NEW s \in Sockets, DetachSocketListener(s)
        PROVE  socketListeners' \in Seq(Sockets) /\ timerListeners' \in Seq(Timers)
    BY <2>2, RemoveAtType DEF IInv, TypeOK, DetachSocketListener
  <2>3. ASSUME NEW t \in Timers, AttachPeriodicTimerListener(t)
        PROVE  socketListeners' \in Seq(Sockets) /\ timerListeners' \in Seq(Timers)
    BY <2>3, AppendProperties DEF IInv, TypeOK, AttachPeriodicTimerListener
  <2>4. ASSUME NEW t \in Timers, DetachPeriodicTimerListener(t)
        PROVE  socketListeners' \in Seq(Sockets) /\ timerListeners' \in Seq(Timers)
    BY <2>4, RemoveAtType DEF IInv, TypeOK, DetachPeriodicTimerListener
  <2> QED BY <2>1, <2>2, <2>3, <2>4 DEF Attachment
<1>2. UNCHANGED << breakVars, pc, loopVars, envVars, outcome, late >>
  BY DEF Attachment, AttachSocketListener, DetachSocketListener,
         AttachPeriodicTimerListener, DetachPeriodicTimerListener
<1>3. UNCHANGED << break_, pipe, caller, pc, tempfds, timerQueue, i, wakeAt,
                   currentTimeMs, queue, now, outcome, late >>
  BY <1>2 DEF breakVars, loopVars, envVars
<1>4. TypeOK'
  BY <1>1, <1>3 DEF IInv, TypeOK, Scheduled
<1>5. (Control /\ TimersInOrder /\ NoLostWakeup /\ WakesForEarliestTimer)'
  BY <1>3 DEF IInv, Control, TimersInOrder, NoLostWakeup, WakesForEarliestTimer
<1> QED BY <1>4, <1>5 DEF IInv

(* Entering Run: the queue it builds is in order.                          *)
LEMMA RunEntryStep ==
  ASSUME IInv, Run
  PROVE  IInv'
<1> DEFINE q == [ j \in DOMAIN timerListeners |->
                    [ due   |-> now + timerListeners[j].initialDelayMs,
                      timer |-> timerListeners[j] ] ]
<1>1. q \in Seq(Scheduled)
  <2>1. /\ Len(timerListeners) \in Nat /\ DOMAIN timerListeners = 1..Len(timerListeners)
        /\ \A j \in 1..Len(timerListeners) : timerListeners[j] \in Timers
    BY LenProperties, ElementOfSeq DEF IInv, TypeOK
  <2>2. \A j \in 1..Len(timerListeners) : now + timerListeners[j].initialDelayMs \in Nat
    BY <2>1, TimersAssumption DEF IInv, TypeOK
  <2>3. q \in [1..Len(timerListeners) -> Scheduled]
    BY <2>1, <2>2 DEF Scheduled
  <2> QED BY <2>1, <2>3, IsASeq
<1>2. timerQueue' \in Seq(Scheduled) /\ SortedByDue(timerQueue')
  BY <1>1, SortingProperties DEF Run
<1>3. TypeOK'
  BY <1>2 DEF IInv, TypeOK, Run, muxVars, breakVars, envVars, Scheduled
<1>4. Control'
  BY DEF IInv, Control, Run, breakVars, TypeOK
<1>5. (TimersInOrder /\ NoLostWakeup /\ WakesForEarliestTimer)'
  BY <1>2 DEF Run, TimersInOrder, NoLostWakeup, WakesForEarliestTimer, SortedByDue
<1> QED BY <1>3, <1>4, <1>5 DEF IInv

(* A step of Run that changes neither what is attached nor the flag, the   *)
(* pipe, the callers, the clock or the timer queue.                        *)
LEMMA LoopTestStep ==
  ASSUME IInv, LoopTest
  PROVE  IInv'
<1>1. CASE break_
  <2>1. /\ pc' = "leave"
        /\ UNCHANGED << socketListeners, timerListeners, break_, pipe, caller, tempfds,
                       timerQueue, i, wakeAt, currentTimeMs, queue, now, outcome, late >>
    BY <1>1 DEF LoopTest, muxVars, breakVars, envVars
  <2>2. TypeOK'
    BY <2>1 DEF IInv, TypeOK, Scheduled
  <2>3. (Control /\ TimersInOrder /\ NoLostWakeup /\ WakesForEarliestTimer)'
    BY <1>1, <2>1
    DEF IInv, LoopTest, Control, TimersInOrder, NoLostWakeup, WakesForEarliestTimer
  <2> QED BY <2>2, <2>3 DEF IInv
<1>2. CASE ~break_
  <2>1. /\ pc = "loop" /\ pc' = "select"
        /\ wakeAt' = CASE timerQueue = << >> -> NoTimeout
                       [] OTHER -> Max({now, timerQueue[1].due})
        /\ UNCHANGED << socketListeners, timerListeners, break_, pipe, caller, tempfds,
                       timerQueue, i, currentTimeMs, queue, now, outcome, late >>
    BY <1>2 DEF LoopTest, muxVars, breakVars, envVars
  <2>2. SortedByDue(timerQueue)
    BY <1>2, <2>1 DEF IInv, TimersInOrder
  <2>3. /\ Len(timerQueue) \in Nat /\ DOMAIN timerQueue = 1..Len(timerQueue)
        /\ \A j \in 1..Len(timerQueue) : timerQueue[j] \in Scheduled
    BY LenProperties, ElementOfSeq DEF IInv, TypeOK
  <2>4. \A j \in DOMAIN timerQueue : timerQueue[j].due \in Nat
    BY <2>3 DEF Scheduled
  <2>5. CASE timerQueue = << >>
    <3>1. wakeAt' = NoTimeout /\ DOMAIN timerQueue = {}
      BY <2>1, <2>5, <2>3
    <3>2. TypeOK'
      BY <2>1, <3>1 DEF IInv, TypeOK, Scheduled
    <3>3. (Control /\ TimersInOrder /\ NoLostWakeup /\ WakesForEarliestTimer)'
      BY <1>2, <2>1, <2>2, <3>1
      DEF IInv, NotStopping, Control, TimersInOrder, NoLostWakeup, WakesForEarliestTimer
    <3> QED BY <3>2, <3>3 DEF IInv
  <2>6. CASE timerQueue # << >>
    <3>1. 1 \in DOMAIN timerQueue
      BY <2>3, <2>6, EmptySeq DEF IInv, TypeOK
    <3>2. now \in Nat
      BY DEF IInv, TypeOK
    <3>3. wakeAt' = Max({now, timerQueue[1].due})
      BY <2>1, <2>6
    <3>4. wakeAt' \in Nat /\ (wakeAt' = now \/ wakeAt' = timerQueue[1].due)
      BY <2>4, <3>1, <3>2, <3>3, MaxOfTwo
    <3>5. \A j \in DOMAIN timerQueue :
             wakeAt' # NoTimeout /\ (wakeAt' <= timerQueue[j].due \/ wakeAt' <= now)
      <4>1. \A j \in DOMAIN timerQueue : timerQueue[1].due <= timerQueue[j].due
        BY <2>2, <2>3, <2>4, <3>1 DEF SortedByDue
      <4> QED BY <2>4, <3>1, <3>2, <3>4, <4>1 DEF NoTimeout
    <3>6. TypeOK'
      BY <2>1, <3>4 DEF IInv, TypeOK, Scheduled
    <3>7. (Control /\ TimersInOrder /\ NoLostWakeup)'
      BY <1>2, <2>1, <2>2 DEF IInv, NotStopping, Control, TimersInOrder, NoLostWakeup
    <3>8. WakesForEarliestTimer'
      BY <2>1, <3>5 DEF WakesForEarliestTimer
    <3> QED BY <3>6, <3>7, <3>8 DEF IInv
  <2> QED BY <2>5, <2>6
<1> QED BY <1>1, <1>2

(* select() returns with what is readable, or fails.                       *)
LEMMA SelectStep ==
  ASSUME IInv, SelectReturns \/ SelectFails
  PROVE  IInv'
<1>1. CASE SelectReturns
  <2>1. /\ pc = "select" /\ pc' = "drain" /\ tempfds' = Readable
        /\ UNCHANGED << socketListeners, timerListeners, break_, pipe, caller,
                       timerQueue, i, wakeAt, currentTimeMs, queue, now, outcome, late >>
    BY <1>1 DEF SelectReturns, muxVars, breakVars, envVars
  <2>2. ToSet(socketListeners) \subseteq Sockets
    BY LenProperties, ElementOfSeq DEF IInv, TypeOK, ToSet
  <2>3. /\ Readable \subseteq Sockets \cup {"breakPipe"}
        /\ "breakPipe" \in Readable => pipe > 0
    BY <2>2, NamesAssumption DEF Readable
  <2>4. TypeOK'
    BY <2>1, <2>3 DEF IInv, TypeOK, Scheduled
  <2>5. (Control /\ TimersInOrder /\ NoLostWakeup /\ WakesForEarliestTimer)'
    BY <2>1, <2>3
    DEF IInv, Control, TimersInOrder, NoLostWakeup, WakesForEarliestTimer
  <2> QED BY <2>4, <2>5 DEF IInv
<1>2. CASE SelectFails
  <2>1. /\ pc = "select" /\ pc' \in {"leave", "loop", "unwind"}
        /\ pc' = "leave" => break_
        /\ UNCHANGED << socketListeners, timerListeners, break_, pipe, caller, tempfds,
                       timerQueue, i, wakeAt, currentTimeMs, queue, now, outcome, late >>
    BY <1>2 DEF SelectFails, muxVars, breakVars, loopVars, envVars
  <2>2. TypeOK'
    BY <2>1 DEF IInv, TypeOK, Scheduled
  <2>3. (Control /\ TimersInOrder /\ NoLostWakeup /\ WakesForEarliestTimer)'
    BY <1>2, <2>1
    DEF IInv, SelectFails, Control, TimersInOrder, NoLostWakeup, WakesForEarliestTimer
  <2> QED BY <2>2, <2>3 DEF IInv
<1> QED BY <1>1, <1>2

(* The byte is read only when select reported it.                          *)
LEMMA DrainBreakPipeStep ==
  ASSUME IInv, DrainBreakPipe
  PROVE  IInv'
<1>1. /\ pc = "drain" /\ pc' = "test"
      /\ UNCHANGED << socketListeners, timerListeners, break_, caller, tempfds,
                     timerQueue, i, wakeAt, currentTimeMs, queue, now, outcome, late >>
  BY DEF DrainBreakPipe, muxVars, loopVars, envVars
<1>2. pipe' \in 0..PipeCapacity
  BY PipeAssumption DEF DrainBreakPipe, IInv, TypeOK, Control
<1>3. TypeOK'
  BY <1>1, <1>2 DEF IInv, TypeOK, Scheduled
<1>4. (Control /\ TimersInOrder /\ NoLostWakeup /\ WakesForEarliestTimer)'
  BY <1>1 DEF IInv, Control, TimersInOrder, NoLostWakeup, WakesForEarliestTimer
<1> QED BY <1>3, <1>4 DEF IInv

(* Testing the flag, leaving the socket loop and reading the clock.        *)
LEMMA PlainStep ==
  ASSUME IInv, TestBreak \/ SocketsDone \/ PacketListenerReturns \/ ReadClock \/ ListenerThrows
  PROVE  IInv'
<1>1. /\ \/ pc = "test" /\ pc' = IF break_ THEN "leave" ELSE "sockets"
         \/ pc = "sockets" /\ pc' = "timers"
         \/ pc = "packet" /\ pc' = IF break_ THEN "timers" ELSE "sockets"
         \/ pc = "timers" /\ pc' = "expired"
         \/ pc \in {"packet", "timer"} /\ pc' = "unwind"
      /\ UNCHANGED << socketListeners, timerListeners, break_, pipe, caller, tempfds,
                     timerQueue, wakeAt, queue, now, outcome, late >>
  BY DEF TestBreak, SocketsDone, PacketListenerReturns, ReadClock, ListenerThrows,
         muxVars, breakVars, loopVars, envVars
<1>2. i' \in Nat \ {0} /\ currentTimeMs' \in Nat
  BY DEF IInv, TypeOK, TestBreak, SocketsDone, PacketListenerReturns, ReadClock,
         ListenerThrows, loopVars
<1>3. TypeOK'
  BY <1>1, <1>2 DEF IInv, TypeOK, Scheduled
<1>4. Control'
  BY <1>1 DEF IInv, TypeOK, Control, NotStopping
<1>5. (TimersInOrder /\ NoLostWakeup /\ WakesForEarliestTimer)'
  BY <1>1 DEF IInv, TimersInOrder, NoLostWakeup, WakesForEarliestTimer
<1> QED BY <1>3, <1>4, <1>5 DEF IInv

(* A datagram is taken from its queue, and may begin a callback.           *)
LEMMA ServiceSocketStep ==
  ASSUME IInv, ServiceSocket
  PROVE  IInv'
<1>1. /\ pc = "sockets"
      /\ UNCHANGED << socketListeners, timerListeners, break_, pipe, caller, tempfds,
                     timerQueue, wakeAt, currentTimeMs, now, outcome >>
  BY DEF ServiceSocket, muxVars, breakVars
<1>2. late = NotStopping
  BY <1>1 DEF IInv, Control
<1>3. /\ pc' \in {"sockets", "packet"}
      /\ late' = NotStopping
      /\ i' \in Nat \ {0}
  BY <1>1, <1>2 DEF ServiceSocket, CallbackBegins, IInv, TypeOK
<1>4. queue' \in [Sockets -> Seq(Datagrams)]
  <2>1. socketListeners[i] \in Sockets
    BY LenProperties, ElementOfSeq DEF ServiceSocket, IInv, TypeOK
  <2>2. CASE queue' = queue
    BY <2>2 DEF IInv, TypeOK
  <2>3. CASE queue' # queue
    <3> DEFINE s == socketListeners[i]
    <3>1. queue[s] # << >> /\ queue' = [queue EXCEPT ![s] = Tail(@)]
      BY <2>3 DEF ServiceSocket
    <3>2. queue[s] \in Seq(Datagrams)
      BY <2>1 DEF IInv, TypeOK
    <3>3. Tail(queue[s]) \in Seq(Datagrams)
      BY <3>1, <3>2, HeadTailProperties
    <3> QED BY <2>1, <3>1, <3>3 DEF IInv, TypeOK
  <2> QED BY <2>2, <2>3
<1>5. TypeOK'
  BY <1>1, <1>3, <1>4 DEF IInv, TypeOK, Scheduled
<1>6. (Control /\ TimersInOrder /\ NoLostWakeup /\ WakesForEarliestTimer)'
  BY <1>1, <1>3
  DEF IInv, Control, TimersInOrder, NoLostWakeup, WakesForEarliestTimer, NotStopping
<1> QED BY <1>5, <1>6 DEF IInv

(* A timer listener is called, the first one after Break at most.          *)
LEMMA TimerExpiresStep ==
  ASSUME IInv, TimerExpires
  PROVE  IInv'
<1>1. /\ pc = "expired" /\ pc' = "timer"
      /\ late' = IF late = NotStopping THEN NotStopping ELSE late + 1
      /\ UNCHANGED << socketListeners, timerListeners, break_, pipe, caller, tempfds,
                     timerQueue, i, wakeAt, currentTimeMs, queue, now, outcome >>
  BY DEF TimerExpires, CallbackBegins, muxVars, breakVars, loopVars, envVars
<1>2. i \in DOMAIN timerQueue
  <2>1. Len(timerQueue) \in Nat /\ DOMAIN timerQueue = 1..Len(timerQueue)
    BY LenProperties DEF IInv, TypeOK
  <2> QED BY <2>1 DEF TimerExpires, TimerIsDue, IInv, TypeOK
<1>3. late = NotStopping \/ late = 0
  BY <1>1 DEF IInv, TypeOK, Control, NotStopping
<1>4. late' = NotStopping \/ late' = 1
  BY <1>1, <1>3 DEF NotStopping
<1>5. TypeOK'
  BY <1>1, <1>4 DEF IInv, TypeOK, Scheduled
<1>6. Control'
  BY <1>1, <1>2, <1>3, <1>4 DEF IInv, Control, NotStopping
<1>7. (TimersInOrder /\ NoLostWakeup /\ WakesForEarliestTimer)'
  BY <1>1 DEF IInv, TimersInOrder, NoLostWakeup, WakesForEarliestTimer
<1> QED BY <1>5, <1>6, <1>7 DEF IInv

(* The queue is sorted again when a timer has fired.                       *)
LEMMA TimersDoneStep ==
  ASSUME IInv, TimersDone
  PROVE  IInv'
<1>1. /\ pc = "expired" /\ pc' = "loop"
      /\ UNCHANGED << socketListeners, timerListeners, break_, pipe, caller, tempfds,
                     i, wakeAt, currentTimeMs, queue, now, outcome, late >>
  BY DEF TimersDone, muxVars, breakVars, envVars
<1>2. timerQueue' \in Seq(Scheduled) /\ SortedByDue(timerQueue')
  <2>1. CASE i = 1
    BY <2>1, <1>1 DEF TimersDone, IInv, TypeOK, TimersInOrder
  <2>2. CASE i # 1
    BY <2>2, SortingProperties DEF TimersDone, IInv, TypeOK
  <2> QED BY <2>1, <2>2
<1>3. TypeOK'
  BY <1>1, <1>2 DEF IInv, TypeOK, Scheduled
<1>4. (Control /\ NoLostWakeup /\ WakesForEarliestTimer)'
  BY <1>1 DEF IInv, Control, NoLostWakeup, WakesForEarliestTimer
<1>5. TimersInOrder'
  BY <1>2 DEF TimersInOrder, SortedByDue
<1> QED BY <1>3, <1>4, <1>5 DEF IInv

(* A timer listener returns: its next time is one period later.            *)
LEMMA TimerListenerReturnsStep ==
  ASSUME IInv, TimerListenerReturns
  PROVE  IInv'
<1>1. /\ pc = "timer"
      /\ UNCHANGED << socketListeners, timerListeners, break_, pipe, caller, tempfds,
                     wakeAt, currentTimeMs, queue, now, outcome, late >>
  BY DEF TimerListenerReturns, muxVars, breakVars, envVars
<1>2. CASE break_
  <2>1. pc' = "loop" /\ timerQueue' = timerQueue /\ i' = i
    BY <1>2 DEF TimerListenerReturns
  <2>2. TypeOK'
    BY <1>1, <2>1 DEF IInv, TypeOK, Scheduled
  <2>3. (Control /\ TimersInOrder /\ NoLostWakeup /\ WakesForEarliestTimer)'
    BY <1>1, <1>2, <2>1
    DEF IInv, Control, TimersInOrder, NoLostWakeup, WakesForEarliestTimer
  <2> QED BY <2>2, <2>3 DEF IInv
<1>3. CASE ~break_
  <2>1. /\ timerQueue' = [timerQueue EXCEPT ![i].due = @ + timerQueue[i].timer.periodMs]
        /\ i' = i + 1 /\ pc' = "expired"
    BY <1>3 DEF TimerListenerReturns
  <2>2. i \in DOMAIN timerQueue
    BY <1>1 DEF IInv, Control
  <2>3. timerQueue[i] \in Scheduled
    BY <2>2, LenProperties, ElementOfSeq DEF IInv, TypeOK
  <2>4. timerQueue[i].due + timerQueue[i].timer.periodMs \in Nat
    BY <2>3, TimersAssumption DEF Scheduled
  <2>5. [timerQueue[i] EXCEPT !.due = @ + timerQueue[i].timer.periodMs] \in Scheduled
    BY <2>3, <2>4 DEF Scheduled
  <2>6. timerQueue' = [timerQueue EXCEPT ![i] =
                         [timerQueue[i] EXCEPT !.due = @ + timerQueue[i].timer.periodMs]]
    BY <2>1
  <2>7. timerQueue' \in Seq(Scheduled)
    BY <2>2, <2>5, <2>6, ExceptSeq DEF IInv, TypeOK
  <2>8. late = NotStopping
    BY <1>3 DEF IInv, Control
  <2>9. i' \in Nat \ {0} /\ i' # 1
    BY <2>1 DEF IInv, TypeOK
  <2>10. TypeOK'
    BY <1>1, <2>1, <2>7, <2>9 DEF IInv, TypeOK, Scheduled
  <2>11. (Control /\ TimersInOrder /\ NoLostWakeup /\ WakesForEarliestTimer)'
    BY <1>1, <2>1, <2>8, <2>9
    DEF Control, TimersInOrder, NoLostWakeup, WakesForEarliestTimer, NotStopping
  <2> QED BY <2>10, <2>11 DEF IInv
<1> QED BY <1>2, <1>3

(* Leaving Run resets what belongs to the call, and the flag.              *)
LEMMA LeaveRunStep ==
  ASSUME IInv, LeaveRun
  PROVE  IInv'
<1>1. /\ break_' = FALSE /\ pc' = "out" /\ outcome' \in {"returned", "threw"}
      /\ late' = NotStopping /\ tempfds' = {} /\ timerQueue' = << >> /\ i' = 1
      /\ wakeAt' = NoTimeout /\ currentTimeMs' = 0
      /\ UNCHANGED << socketListeners, timerListeners, pipe, caller, queue, now >>
  BY DEF LeaveRun, muxVars, envVars
<1>2. timerQueue' \in Seq(Scheduled)
  BY <1>1, EmptySeq
<1>3. i' \in Nat \ {0} /\ currentTimeMs' \in Nat
  BY <1>1
<1>4. TypeOK'
  BY <1>1, <1>2, <1>3 DEF IInv, TypeOK, Scheduled
<1>5. (Control /\ TimersInOrder /\ NoLostWakeup /\ WakesForEarliestTimer)'
  BY <1>1
  DEF Control, TimersInOrder, NoLostWakeup, WakesForEarliestTimer, NotStopping
<1> QED BY <1>4, <1>5 DEF IInv

(* The three ways to ask for a stop.                                       *)
LEMMA BreakStep ==
  ASSUME IInv, Break
  PROVE  IInv'
<1>1. /\ pc \in {"out", "packet", "timer"} /\ break_' = TRUE
      /\ late' = IF pc # "out" /\ late = NotStopping THEN 0 ELSE late
      /\ UNCHANGED << socketListeners, timerListeners, pipe, caller, pc, tempfds,
                     timerQueue, i, wakeAt, currentTimeMs, queue, now, outcome >>
  BY DEF Break, muxVars, loopVars, envVars
<1>2. TypeOK'
  BY <1>1 DEF IInv, TypeOK, Scheduled
<1>3. Control'
  BY <1>1 DEF IInv, TypeOK, Control, NotStopping
<1>4. (TimersInOrder /\ NoLostWakeup /\ WakesForEarliestTimer)'
  BY <1>1 DEF IInv, TimersInOrder, NoLostWakeup, WakesForEarliestTimer
<1> QED BY <1>2, <1>3, <1>4 DEF IInv

(* AsynchronousBreak sets the flag first, so the byte it still owes covers *)
(* every select() that begins afterwards.                                  *)
LEMMA AsynchronousBreakStep ==
  ASSUME IInv, NEW t \in Callers, AsynchronousBreak(t) \/ WriteBreakPipe(t)
  PROVE  IInv'
<1>1. UNCHANGED << socketListeners, timerListeners, pc, tempfds, timerQueue, i, wakeAt,
                   currentTimeMs, queue, now, outcome, late >>
  BY DEF AsynchronousBreak, WriteBreakPipe, muxVars, loopVars, envVars
<1>2. CASE AsynchronousBreak(t)
  <2>1. /\ break_' = TRUE /\ pipe' = pipe
        /\ caller' = [caller EXCEPT ![t] = "write"]
    BY <1>2 DEF AsynchronousBreak, muxVars
  <2>2. caller'[t] = "write" /\ caller' \in [Callers -> {"idle", "write"}]
    BY <2>1 DEF IInv, TypeOK
  <2>3. TypeOK'
    BY <1>1, <2>1, <2>2 DEF IInv, TypeOK, Scheduled
  <2>4. NoLostWakeup'
    BY <2>2 DEF NoLostWakeup
  <2>5. (Control /\ TimersInOrder /\ WakesForEarliestTimer)'
    BY <1>1, <2>1 DEF IInv, Control, TimersInOrder, WakesForEarliestTimer
  <2> QED BY <2>3, <2>4, <2>5 DEF IInv
<1>3. CASE WriteBreakPipe(t)
  <2>1. /\ break_' = break_ /\ pipe < PipeCapacity /\ pipe' = pipe + 1
        /\ caller' = [caller EXCEPT ![t] = "idle"]
    BY <1>3 DEF WriteBreakPipe
  <2>2. pipe' \in 0..PipeCapacity /\ pipe' > 0
    BY <2>1, PipeAssumption DEF IInv, TypeOK
  <2>3. TypeOK'
    BY <1>1, <2>1, <2>2 DEF IInv, TypeOK, Scheduled
  <2>4. (Control /\ TimersInOrder /\ NoLostWakeup /\ WakesForEarliestTimer)'
    BY <1>1, <2>1, <2>2
    DEF IInv, Control, TimersInOrder, NoLostWakeup, WakesForEarliestTimer
  <2> QED BY <2>3, <2>4 DEF IInv
<1> QED BY <1>2, <1>3

(* Datagrams arrive and time passes.                                       *)
LEMMA EnvironmentStep ==
  ASSUME IInv, Environment
  PROVE  IInv'
<1>1. /\ UNCHANGED << socketListeners, timerListeners, break_, pipe, caller, pc, tempfds,
                     timerQueue, i, wakeAt, currentTimeMs, outcome, late >>
      /\ now' = now \/ now' = now + 1
  BY DEF Environment, DatagramArrives, Tick, muxVars, breakVars, loopVars
<1>2. queue' \in [Sockets -> Seq(Datagrams)]
  <2>1. ASSUME NEW s \in Sockets, NEW d \in Datagrams, DatagramArrives(s, d)
        PROVE  queue' \in [Sockets -> Seq(Datagrams)]
    <3>1. queue[s] \in Seq(Datagrams)
      BY DEF IInv, TypeOK
    <3>2. Append(queue[s], d) \in Seq(Datagrams)
      BY <3>1, AppendProperties
    <3> QED BY <2>1, <3>2 DEF DatagramArrives, IInv, TypeOK
  <2>2. CASE Tick
    BY <2>2 DEF Tick, IInv, TypeOK
  <2> QED BY <2>1, <2>2 DEF Environment
<1>3. now' \in Nat
  BY <1>1 DEF IInv, TypeOK
<1>4. TypeOK'
  BY <1>1, <1>2, <1>3 DEF IInv, TypeOK, Scheduled
<1>5. (Control /\ TimersInOrder /\ NoLostWakeup)'
  BY <1>1 DEF IInv, Control, TimersInOrder, NoLostWakeup
<1>6. WakesForEarliestTimer'
  BY <1>1, <1>3 DEF IInv, TypeOK, WakesForEarliestTimer, NoTimeout
<1> QED BY <1>4, <1>5, <1>6 DEF IInv

(* Every step preserves the invariant.                                     *)
LEMMA NextIInv == IInv /\ [Next]_vars => IInv'
<1> SUFFICES ASSUME IInv, [Next]_vars PROVE IInv'
  OBVIOUS
<1>1. CASE Attachment
  BY <1>1, AttachmentStep
<1>2. CASE Run
  BY <1>2, RunEntryStep
<1>3. CASE RunStep \/ SelectFails
  BY <1>3, LoopTestStep, SelectStep, DrainBreakPipeStep, PlainStep, ServiceSocketStep,
     TimerExpiresStep, TimersDoneStep, TimerListenerReturnsStep, LeaveRunStep
  DEF RunStep
<1>4. CASE Break
  BY <1>4, BreakStep
<1>5. ASSUME NEW t \in Callers, AsynchronousBreak(t) \/ WriteBreakPipe(t)
      PROVE  IInv'
  BY <1>5, AsynchronousBreakStep
<1>6. CASE Environment
  BY <1>6, EnvironmentStep
<1>7. CASE UNCHANGED vars
  <2>1. UNCHANGED << socketListeners, timerListeners, break_, pipe, caller, pc, tempfds,
                     timerQueue, i, wakeAt, currentTimeMs, queue, now, outcome, late >>
    BY <1>7 DEF vars, muxVars, breakVars, loopVars, envVars
  <2>2. TypeOK'
    BY <2>1 DEF IInv, TypeOK, Scheduled
  <2>3. (Control /\ TimersInOrder /\ NoLostWakeup /\ WakesForEarliestTimer)'
    BY <2>1 DEF IInv, Control, TimersInOrder, NoLostWakeup, WakesForEarliestTimer
  <2> QED BY <2>2, <2>3 DEF IInv
<1> QED
  BY <1>1, <1>2, <1>3, <1>4, <1>5, <1>6, <1>7 DEF Next

(* The invariant holds throughout.                                         *)
LEMMA Invariance == Spec => []IInv
<1> QED BY InitIInv, NextIInv, PTL DEF Spec

-----------------------------------------------------------------------------
(* The theorems.                                                           *)

(* Every variable keeps its type; in particular the pipe is never read     *)
(* when it may be empty (Run would block in read()), nor written past its  *)
(* capacity.                                                               *)
THEOREM TypeCorrect == Spec => []TypeOK
<1> QED BY Invariance, PTL DEF IInv

(* No stop request is slept through, however many threads call             *)
(* AsynchronousBreak and however full the pipe is.                         *)
THEOREM WakeupNotLost == Spec => []NoLostWakeup
<1> QED BY Invariance, PTL DEF IInv

(* The time-out of select() is never later than the first timer due.       *)
THEOREM WakesInTime == Spec => []WakesForEarliestTimer
<1> QED BY Invariance, PTL DEF IInv

(* After Break in a listener, at most one more listener is called, and it  *)
(* is a timer's.                                                           *)
THEOREM BreakIsPrompt == Spec => []AtMostOneTimerAfterBreak
<1>1. IInv => AtMostOneTimerAfterBreak
  BY DEF IInv, TypeOK, Control, AtMostOneTimerAfterBreak, NotStopping
<1> QED BY <1>1, Invariance, PTL

(* Every step is a step of StoppableRun or changes nothing there.          *)
LEMMA NextRefines == IInv /\ [Next]_vars => [Abstract!Next]_(Abstract!vars)
<1> SUFFICES ASSUME IInv, [Next]_vars PROVE [Abstract!Next]_(Abstract!vars)
  OBVIOUS
<1> DEFINE status == IF pc = "out" THEN outcome ELSE "running"
<1>0. outcome # "running" /\ break_ \in BOOLEAN
  BY DEF IInv, TypeOK
<1>1. CASE Attachment \/ Environment \/ UNCHANGED vars
  <2>1. UNCHANGED << pc, outcome, break_ >>
    BY <1>1 DEF Attachment, AttachSocketListener, DetachSocketListener,
      AttachPeriodicTimerListener, DetachPeriodicTimerListener, Environment,
      DatagramArrives, Tick, vars, breakVars
  <2> QED BY <2>1 DEF Abstract!vars
<1>2. CASE Run
  <2>1. pc = "out" /\ pc' = "loop" /\ UNCHANGED << outcome, break_ >>
    BY <1>2 DEF Run, breakVars
  <2> QED BY <1>0, <2>1 DEF Abstract!Next, Abstract!Start
<1>3. CASE LeaveRun
  <2>1. /\ pc = "leave" => break_ = TRUE
        /\ pc \in {"leave", "unwind"} /\ pc' = "out" /\ break_' = FALSE
        /\ outcome' = IF pc = "leave" THEN "returned" ELSE "threw"
    BY <1>0, <1>3 DEF LeaveRun, IInv, Control
  <2> QED BY <2>1 DEF Abstract!Next, Abstract!Return, Abstract!Throw
<1>4. CASE (RunStep /\ ~LeaveRun) \/ SelectFails
  <2>1. pc # "out" /\ pc' # "out" /\ UNCHANGED << outcome, break_ >>
    BY <1>4 DEF RunStep, LoopTest, SelectReturns, SelectFails, DrainBreakPipe, TestBreak,
      ServiceSocket, SocketsDone, PacketListenerReturns, ReadClock, TimerExpires,
      TimersDone, TimerListenerReturns, ListenerThrows, CallbackBegins, breakVars
  <2> QED BY <2>1 DEF Abstract!vars
<1>5. CASE Break \/ \E t \in Callers : AsynchronousBreak(t) \/ WriteBreakPipe(t)
  <2>1. UNCHANGED << pc, outcome >> /\ (break_' = TRUE \/ break_' = break_)
    BY <1>5 DEF Break, AsynchronousBreak, WriteBreakPipe
  <2> QED BY <2>1 DEF Abstract!Next, Abstract!Request, Abstract!vars
<1> QED
  BY <1>1, <1>2, <1>3, <1>4, <1>5 DEF Next

(* The safety half of ImplementsStoppableRun: Run returns normally only    *)
(* when a stop was requested, and each time it is left the request is used *)
(* up, whatever earlier requests left in the pipe.                         *)
THEOREM Refinement == Spec => Abstract!SafeSpec
<1>1. Init => Abstract!Init
  BY DEF Init, Abstract!Init
<1> QED
  BY <1>1, NextRefines, Invariance, PTL DEF Spec, Abstract!SafeSpec
=============================================================================
