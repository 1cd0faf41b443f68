------------------- MODULE Win32SocketReceiveMultiplexer -------------------
(***************************************************************************)
(* SocketReceiveMultiplexerImplementation of osctap/ip/win32/UdpSocket.h.  *)
(* In place of select() and a pipe there is an event for each socket and   *)
(* one for stop requests.  All reset themselves: a wait is ended by the    *)
(* first of the signalled events and resets that one.  Winsock signals a   *)
(* socket's event once and not again until recvfrom has been called, which *)
(* signals it at once when more data is queued.                            *)
(*                                                                         *)
(* An action reads or writes what the threads share once, a test of break_ *)
(* being taken together with the call just before it: a stop request that  *)
(* falls between the two is as good as one before both.                    *)
(***************************************************************************)
EXTENDS Integers, Sequences, SequencesExt, FiniteSetsExt

CONSTANTS
  Sockets,        \* sockets with their listeners
  Timers,         \* [id, initialDelayMs, periodMs] records to attach
  Callers,        \* threads that call AsynchronousBreak
  QueueCapacity,  \* bound: datagrams Winsock keeps for a socket
  MaxTime         \* bound: the last value of the clock

ASSUME TimersAssumption ==
  Timers \subseteq [id : STRING, initialDelayMs : Nat, periodMs : Nat]
ASSUME NamesAssumption == "breakEvent" \notin Sockets

VARIABLES
  socketListeners,  \* socketListeners_
  timerListeners,   \* timerListeners_
  break_,           \* the stop flag, an atomic
  signalled,        \* the events that are set: breakEvent_, and one a socket
  armed,            \* the sockets for which Winsock would set the event
  caller,           \* where each caller is in AsynchronousBreak
  pc,               \* where Run is; "out" when it is not executing
  timerQueue,       \* timerQueue_: [due, timer] records
  i,                \* the index of the loop in progress
  wakeAt,           \* when the wait in progress times out
  currentTimeMs,
  queue,            \* the datagrams waiting at each socket
  now,              \* the clock
  outcome,          \* history: how the last Run ended
  stopping          \* history: a callback of this Run has called Break

muxVars == << socketListeners, timerListeners >>
loopVars == << timerQueue, i, wakeAt, currentTimeMs >>
eventVars == << signalled, armed >>
breakVars == << break_, caller >>
envVars == << queue, now >>
history == << outcome, stopping >>
vars == << muxVars, breakVars, eventVars, pc, loopVars, envVars, history >>

INFINITE == -1

Datagrams == {"empty", "data"}

Init ==
  /\ socketListeners = << >> /\ timerListeners = << >>
  /\ break_ = FALSE
  /\ signalled = {} /\ armed = {}
  /\ caller = [t \in Callers |-> "idle"]
  /\ pc = "out"
  /\ timerQueue = << >> /\ i = 1 /\ wakeAt = INFINITE /\ currentTimeMs = 0
  /\ queue = [s \in Sockets |-> << >>]
  /\ now = 0
  /\ outcome = "never" /\ stopping = FALSE

-----------------------------------------------------------------------------
(* Attaching and detaching, only while Run is not executing.               *)

AttachSocketListener(s) ==
  /\ pc = "out"
  /\ s \notin ToSet(socketListeners)
  /\ socketListeners' = Append(socketListeners, s)
  /\ UNCHANGED << timerListeners, breakVars, eventVars, pc, loopVars, envVars, history >>

DetachSocketListener(s) ==
  /\ pc = "out"
  /\ \E j \in DOMAIN socketListeners :
        socketListeners[j] = s /\ socketListeners' = RemoveAt(socketListeners, j)
  /\ UNCHANGED << timerListeners, breakVars, eventVars, pc, loopVars, envVars, history >>

(* Bound: a timer is attached once.                                        *)
AttachPeriodicTimerListener(timer) ==
  /\ pc = "out"
  /\ timer \notin ToSet(timerListeners)
  /\ timerListeners' = Append(timerListeners, timer)
  /\ UNCHANGED << socketListeners, breakVars, eventVars, pc, loopVars, envVars, history >>

DetachPeriodicTimerListener(timer) ==
  /\ pc = "out"
  /\ \E j \in DOMAIN timerListeners :
        timerListeners[j] = timer /\ timerListeners' = RemoveAt(timerListeners, j)
  /\ UNCHANGED << socketListeners, breakVars, eventVars, pc, loopVars, envVars, history >>

-----------------------------------------------------------------------------
(* Run().                                                                  *)

SortedByDue(q) == \A j, k \in DOMAIN q : j < k => q[j].due <= q[k].due

Sortings(q) ==
  { r \in { [j \in DOMAIN q |-> q[p[j]]] :
              p \in { f \in [DOMAIN q -> DOMAIN q] : IsInjective(f) } } : SortedByDue(r) }

(* WSAEventSelect associates a new event with each socket, which is set    *)
(* when data is queued already.  The break event keeps its state.          *)
Run ==
  /\ pc = "out"
  /\ pc' = "loop"
  /\ LET attached == ToSet(socketListeners)
         waiting  == { s \in attached : queue[s] # << >> }
     IN  /\ signalled' = (signalled \ Sockets) \cup waiting
         /\ armed' = attached \ waiting
  /\ timerQueue' \in Sortings([ j \in DOMAIN timerListeners |->
                        [ due   |-> now + timerListeners[j].initialDelayMs,
                          timer |-> timerListeners[j] ] ])
  /\ currentTimeMs' = now
  /\ UNCHANGED << muxVars, breakVars, i, wakeAt, envVars, history >>

LoopTest ==
  /\ pc = "loop"
  /\ IF break_
     THEN pc' = "leave" /\ UNCHANGED << currentTimeMs, wakeAt >>
     ELSE /\ pc' = "wait"
          /\ currentTimeMs' = now
          /\ wakeAt' = IF timerQueue = << >> THEN INFINITE ELSE Max({now, timerQueue[1].due})
  /\ UNCHANGED << muxVars, breakVars, eventVars, timerQueue, i, envVars, history >>

(* The events in the order of the handles given to the wait.               *)
Handles == Append(socketListeners, "breakEvent")

FirstSignalled(j) ==
  /\ j \in DOMAIN Handles
  /\ Handles[j] \in signalled
  /\ \A k \in 1..j - 1 : Handles[k] \notin signalled

(* Mutated: the socket that ended the wait is left out.                    *)
EventEndsWaitSkips ==
  /\ pc = "wait"
  /\ \E j \in DOMAIN Handles :
       /\ FirstSignalled(j)
       /\ signalled' = signalled \ {Handles[j]}
       /\ i' = j + 1
  /\ pc' = IF break_ THEN "leave" ELSE "sockets"
  /\ UNCHANGED << muxVars, breakVars, armed, timerQueue, wakeAt, currentTimeMs, envVars, history >>

(* WaitForMultipleObjects and the test of break_: the loop over the        *)
(* sockets starts at the one that ended the wait, or behind the last.      *)
EventEndsWait ==
  /\ pc = "wait"
  /\ \E j \in DOMAIN Handles :
       /\ FirstSignalled(j)
       /\ signalled' = signalled \ {Handles[j]}
       /\ i' = j
  /\ pc' = IF break_ THEN "leave" ELSE "sockets"
  /\ UNCHANGED << muxVars, breakVars, armed, timerQueue, wakeAt, currentTimeMs, envVars, history >>

WaitTimesOut ==
  /\ pc = "wait"
  /\ wakeAt # INFINITE /\ wakeAt <= now
  /\ ToSet(Handles) \cap signalled = {}
  /\ pc' = IF break_ THEN "leave" ELSE "timers"
  /\ UNCHANGED << muxVars, breakVars, eventVars, loopVars, envVars, history >>

(* recvfrom on a socket that does not block, and the test of break_, which *)
(* drops the datagram just taken when a stop was requested.                *)
ServiceSocket ==
  /\ pc = "sockets"
  /\ i <= Len(socketListeners)
  /\ LET s == socketListeners[i]
         rest == IF queue[s] = << >> THEN << >> ELSE Tail(queue[s])
         received == queue[s] # << >> /\ Head(queue[s]) = "data"
     IN  /\ queue' = [queue EXCEPT ![s] = rest]
         /\ IF rest = << >>
            THEN armed' = armed \cup {s} /\ UNCHANGED signalled
            ELSE armed' = armed \ {s} /\ signalled' = signalled \cup {s}
         /\ \/ received /\ break_ /\ pc' = "timers" /\ UNCHANGED i
            \/ received /\ ~break_ /\ pc' = "packet" /\ UNCHANGED i
            \/ ~received /\ i' = i + 1 /\ UNCHANGED pc
  /\ UNCHANGED << muxVars, breakVars, timerQueue, wakeAt, currentTimeMs, now, history >>

SocketsDone ==
  /\ pc = "sockets"
  /\ i > Len(socketListeners)
  /\ pc' = "timers"
  /\ UNCHANGED << muxVars, breakVars, eventVars, loopVars, envVars, history >>

PacketListenerReturns ==
  /\ pc = "packet"
  /\ IF break_
     THEN pc' = "timers" /\ UNCHANGED i
     ELSE pc' = "sockets" /\ i' = i + 1
  /\ UNCHANGED << muxVars, breakVars, eventVars, timerQueue, wakeAt, currentTimeMs, envVars, history >>

(* Mutated: break_ is not tested between sockets and timers, as on POSIX.  *)
ReadClockAlways ==
  /\ pc = "timers"
  /\ pc' = "expired" /\ currentTimeMs' = now /\ i' = 1
  /\ UNCHANGED << muxVars, breakVars, eventVars, timerQueue, wakeAt, envVars, history >>

(* The test of break_ between sockets and timers, and the clock.           *)
ReadClock ==
  /\ pc = "timers"
  /\ IF break_
     THEN pc' = "leave" /\ UNCHANGED << currentTimeMs, i >>
     ELSE pc' = "expired" /\ currentTimeMs' = now /\ i' = 1
  /\ UNCHANGED << muxVars, breakVars, eventVars, timerQueue, wakeAt, envVars, history >>

TimerIsDue == i <= Len(timerQueue) /\ timerQueue[i].due <= currentTimeMs

TimerExpires ==
  /\ pc = "expired"
  /\ TimerIsDue
  /\ pc' = "timer"
  /\ UNCHANGED << muxVars, breakVars, eventVars, loopVars, envVars, history >>

TimersDone ==
  /\ pc = "expired"
  /\ ~TimerIsDue
  /\ IF i = 1 THEN UNCHANGED timerQueue ELSE timerQueue' \in Sortings(timerQueue)
  /\ pc' = "loop"
  /\ UNCHANGED << muxVars, breakVars, eventVars, i, wakeAt, currentTimeMs, envVars, history >>

(* On a stop request the loop is left; so is then the outer one.           *)
TimerListenerReturns ==
  /\ pc = "timer"
  /\ IF break_
     THEN pc' = "loop" /\ UNCHANGED << timerQueue, i >>
     ELSE /\ timerQueue' = [timerQueue EXCEPT ![i].due = @ + timerQueue[i].timer.periodMs]
          /\ i' = i + 1
          /\ pc' = "expired"
  /\ UNCHANGED << muxVars, breakVars, eventVars, wakeAt, currentTimeMs, envVars, history >>

ListenerThrows ==
  /\ pc \in {"packet", "timer"}
  /\ pc' = "unwind"
  /\ UNCHANGED << muxVars, breakVars, eventVars, loopVars, envVars, history >>

(* Mutated: the exception leaves the flag set.                             *)
LeaveRunClearsOnReturn ==
  /\ pc \in {"leave", "unwind"}
  /\ break_' = (break_ /\ pc = "unwind")
  /\ pc' = "out"
  /\ signalled' = signalled \ Sockets /\ armed' = {}
  /\ outcome' = IF pc = "leave" THEN "returned" ELSE "threw"
  /\ stopping' = FALSE
  /\ timerQueue' = << >> /\ i' = 1 /\ wakeAt' = INFINITE /\ currentTimeMs' = 0
  /\ UNCHANGED << muxVars, caller, envVars >>

(* The flag is cleared on both ways out.  The events of the sockets are    *)
(* closed, or, after an exception, leaked and no more waited for.          *)
LeaveRun ==
  /\ pc \in {"leave", "unwind"}
  /\ break_' = FALSE
  /\ pc' = "out"
  /\ signalled' = signalled \ Sockets /\ armed' = {}
  /\ outcome' = IF pc = "leave" THEN "returned" ELSE "threw"
  /\ stopping' = FALSE
  /\ timerQueue' = << >> /\ i' = 1 /\ wakeAt' = INFINITE /\ currentTimeMs' = 0
  /\ UNCHANGED << muxVars, caller, envVars >>

-----------------------------------------------------------------------------
(* Stop requests.                                                          *)

Break ==
  /\ pc \in {"out", "packet", "timer"}
  /\ break_' = TRUE
  /\ stopping' = (pc # "out")
  /\ UNCHANGED << muxVars, caller, eventVars, pc, loopVars, envVars, outcome >>

(* AsynchronousBreak() stores the flag, then sets the event.               *)
AsynchronousBreak(t) ==
  /\ caller[t] = "idle"
  /\ break_' = TRUE
  /\ caller' = [caller EXCEPT ![t] = "setEvent"]
  /\ UNCHANGED << muxVars, eventVars, pc, loopVars, envVars, history >>

SetBreakEvent(t) ==
  /\ caller[t] = "setEvent"
  /\ signalled' = signalled \cup {"breakEvent"}
  /\ caller' = [caller EXCEPT ![t] = "idle"]
  /\ UNCHANGED << muxVars, break_, armed, pc, loopVars, envVars, history >>

-----------------------------------------------------------------------------
(* Winsock and the clock.                                                  *)

DatagramArrives(s, d) ==
  /\ Len(queue[s]) < QueueCapacity
  /\ queue' = [queue EXCEPT ![s] = Append(@, d)]
  /\ IF s \in armed
     THEN signalled' = signalled \cup {s} /\ armed' = armed \ {s}
     ELSE UNCHANGED eventVars
  /\ UNCHANGED << muxVars, breakVars, pc, loopVars, now, history >>

Tick ==
  /\ now < MaxTime
  /\ now' = now + 1
  /\ UNCHANGED << muxVars, breakVars, eventVars, pc, loopVars, queue, history >>

-----------------------------------------------------------------------------

Attachment ==
  \/ \E s \in Sockets : AttachSocketListener(s) \/ DetachSocketListener(s)
  \/ \E t \in Timers : AttachPeriodicTimerListener(t) \/ DetachPeriodicTimerListener(t)

RunStep ==
  \/ LoopTest \/ EventEndsWait \/ WaitTimesOut
  \/ ServiceSocket \/ SocketsDone \/ PacketListenerReturns
  \/ ReadClock \/ TimerExpires \/ TimersDone \/ TimerListenerReturns
  \/ ListenerThrows \/ LeaveRun

Environment ==
  \/ \E s \in Sockets, d \in Datagrams : DatagramArrives(s, d)
  \/ Tick

Next ==
  \/ Attachment \/ Run \/ RunStep \/ Break
  \/ \E t \in Callers : AsynchronousBreak(t) \/ SetBreakEvent(t)
  \/ Environment

Spec == Init /\ [][Next]_vars

(* Run's thread is scheduled and its listeners come back; SetEvent does    *)
(* not block.                                                              *)
FairSpec ==
  /\ Spec
  /\ WF_vars(RunStep)
  /\ \A t \in Callers : WF_vars(SetBreakEvent(t))

-----------------------------------------------------------------------------

Scheduled == [due : Nat, timer : Timers]

TypeOK ==
  /\ socketListeners \in Seq(Sockets) /\ timerListeners \in Seq(Timers)
  /\ break_ \in BOOLEAN /\ stopping \in BOOLEAN
  /\ signalled \subseteq Sockets \cup {"breakEvent"} /\ armed \subseteq Sockets
  /\ caller \in [Callers -> {"idle", "setEvent"}]
  /\ pc \in { "out", "loop", "wait", "sockets", "packet", "timers", "expired",
              "timer", "leave", "unwind" }
  /\ timerQueue \in Seq(Scheduled)
  /\ i \in Nat \ {0}
  /\ wakeAt \in Nat \cup {INFINITE} /\ currentTimeMs \in Nat /\ now \in Nat
  /\ queue \in [Sockets -> Seq(Datagrams)]
  /\ outcome \in {"never", "returned", "threw"}

(* Nothing is slept through.  While Run waits, a stop request has set its  *)
(* event or is about to; every socket with data has its event set although *)
(* a wait resets one event only and Winsock sets it once; and the timeout  *)
(* is not later than the first timer.  Without the recvfrom of every       *)
(* socket behind the one that ended the wait, or with an event that was    *)
(* reset and not read for, a datagram would wait until another comes.      *)
NothingSleptThrough ==
  pc = "wait" =>
    /\ break_ => "breakEvent" \in signalled \/ \E t \in Callers : caller[t] = "setEvent"
    /\ \A s \in ToSet(socketListeners) : queue[s] # << >> => s \in signalled
    /\ \A j \in DOMAIN timerQueue :
         wakeAt # INFINITE /\ (wakeAt <= timerQueue[j].due \/ wakeAt <= now)

(* "Call this from a listener to exit once the listener returns": after    *)
(* Break no listener is called, neither a socket's nor a timer's.  What is *)
(* stated here as a step holds on Windows; the POSIX loop allows one more. *)
NoCallbackAfterBreak ==
  [][stopping /\ stopping' /\ pc' \in {"packet", "timer"} => pc' = pc]_vars

Abstract == INSTANCE StoppableRun
              WITH status    <- IF pc = "out" THEN outcome ELSE "running",
                   requested <- break_

(* Run, Break and AsynchronousBreak keep the same promise as on POSIX: a   *)
(* break event left set by an earlier request wakes the next Run without   *)
(* ending it, and no request is lost with the events an exception leaks.   *)
ImplementsStoppableRun == Abstract!Spec

=============================================================================
