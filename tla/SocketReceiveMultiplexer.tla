---------------------- MODULE SocketReceiveMultiplexer ----------------------
(***************************************************************************)
(* SocketReceiveMultiplexerImplementation of osctap/ip/posix/UdpSocket.h:  *)
(* one thread in Run() waits in select() for datagrams, timers and the     *)
(* break pipe, while other threads (or signal handlers) call               *)
(* AsynchronousBreak().                                                    *)
(*                                                                         *)
(* An action is one access to what the threads share (break_, the pipe,    *)
(* the sockets' queues, the clock) with the local computation around it.   *)
(***************************************************************************)
EXTENDS Integers, Sequences, SequencesExt, FiniteSetsExt

CONSTANTS
  Sockets,        \* sockets with their listeners
  Timers,         \* [id, initialDelayMs, periodMs] records to attach
  Callers,        \* threads that call AsynchronousBreak
  PipeCapacity,   \* bytes the pipe holds before write() blocks
  QueueCapacity,  \* bound: datagrams the kernel keeps for a socket
  MaxTime         \* bound: the last value of the clock

ASSUME PipeAssumption == PipeCapacity \in Nat \ {0}
ASSUME TimersAssumption ==
  Timers \subseteq [id : STRING, initialDelayMs : Nat, periodMs : Nat]
ASSUME NamesAssumption == "breakPipe" \notin Sockets

VARIABLES
  socketListeners,  \* socketListeners_
  timerListeners,   \* timerListeners_
  break_,           \* the stop flag, an atomic
  pipe,             \* bytes in breakPipe_
  caller,           \* where each caller is in AsynchronousBreak
  pc,               \* where Run is; "out" when it is not executing
  tempfds,          \* what the last select reported readable
  timerQueue,       \* timerQueue_: [due, timer] records
  i,                \* the index of the loop in progress
  wakeAt,           \* when the select in progress times out
  currentTimeMs,    \* the time at which timers are compared
  queue,            \* the datagrams waiting at each socket
  now,              \* the clock
  outcome,          \* history: how the last Run ended
  late              \* history: callbacks begun in this Run after one of
                    \* its callbacks called Break (-1: none called it)

muxVars == << socketListeners, timerListeners >>
loopVars == << tempfds, timerQueue, i, wakeAt, currentTimeMs >>
breakVars == << break_, pipe, caller >>
envVars == << queue, now >>
vars == << muxVars, breakVars, pc, loopVars, envVars, outcome, late >>

NoTimeout == -1
NotStopping == -1

(* A datagram of size zero, which ReceiveFrom also reports for an error,   *)
(* or one with content.                                                    *)
Datagrams == {"empty", "data"}

Init ==
  /\ socketListeners = << >> /\ timerListeners = << >>
  /\ break_ = FALSE
  /\ pipe = 0
  /\ caller = [t \in Callers |-> "idle"]
  /\ pc = "out"
  /\ tempfds = {} /\ timerQueue = << >> /\ i = 1
  /\ wakeAt = NoTimeout /\ currentTimeMs = 0
  /\ queue = [s \in Sockets |-> << >>]
  /\ now = 0
  /\ outcome = "never"
  /\ late = NotStopping

-----------------------------------------------------------------------------
(* Attaching and detaching, which callers do only while Run is not         *)
(* executing, each socket at most once.                                    *)

AttachSocketListener(s) ==
  /\ pc = "out"
  /\ s \notin ToSet(socketListeners)
  /\ socketListeners' = Append(socketListeners, s)
  /\ UNCHANGED << timerListeners, breakVars, pc, loopVars, envVars, outcome, late >>

DetachSocketListener(s) ==
  /\ pc = "out"
  /\ \E j \in DOMAIN socketListeners :
        socketListeners[j] = s /\ socketListeners' = RemoveAt(socketListeners, j)
  /\ UNCHANGED << timerListeners, breakVars, pc, loopVars, envVars, outcome, late >>

(* Bound: a timer is attached once.                                        *)
AttachPeriodicTimerListener(timer) ==
  /\ pc = "out"
  /\ timer \notin ToSet(timerListeners)
  /\ timerListeners' = Append(timerListeners, timer)
  /\ UNCHANGED << socketListeners, breakVars, pc, loopVars, envVars, outcome, late >>

DetachPeriodicTimerListener(timer) ==
  /\ pc = "out"
  /\ \E j \in DOMAIN timerListeners :
        timerListeners[j] = timer /\ timerListeners' = RemoveAt(timerListeners, j)
  /\ UNCHANGED << socketListeners, breakVars, pc, loopVars, envVars, outcome, late >>

-----------------------------------------------------------------------------
(* Run().                                                                  *)

(* std::sort by due time; the order of equal times is not specified.       *)
SortedByDue(q) == \A j, k \in DOMAIN q : j < k => q[j].due <= q[k].due

Sortings(q) ==
  { r \in { [j \in DOMAIN q |-> q[p[j]]] :
              p \in { f \in [DOMAIN q -> DOMAIN q] : IsInjective(f) } } : SortedByDue(r) }

Run ==
  /\ pc = "out"
  /\ pc' = "loop"
  /\ timerQueue' \in Sortings([ j \in DOMAIN timerListeners |->
                        [ due   |-> now + timerListeners[j].initialDelayMs,
                          timer |-> timerListeners[j] ] ])
  /\ currentTimeMs' = now
  /\ UNCHANGED << muxVars, breakVars, tempfds, i, wakeAt, envVars, outcome, late >>

(* Mutated: while (true).                                                  *)
LoopTestForever ==
  /\ pc = "loop"
  /\ pc' = "select"
  /\ wakeAt' = CASE timerQueue = << >> -> NoTimeout
                 [] OTHER -> Max({now, timerQueue[1].due})
  /\ UNCHANGED << muxVars, breakVars, tempfds, timerQueue, i, currentTimeMs, envVars, outcome, late >>

(* while (!break_): the time left until the first timer becomes the        *)
(* timeout, and select() is called.                                        *)
LoopTest ==
  /\ pc = "loop"
  /\ IF break_
     THEN pc' = "leave" /\ UNCHANGED wakeAt
     ELSE /\ pc' = "select"
          /\ wakeAt' = CASE timerQueue = << >> -> NoTimeout
                         [] OTHER -> Max({now, timerQueue[1].due})
  /\ UNCHANGED << muxVars, breakVars, tempfds, timerQueue, i, currentTimeMs, envVars, outcome, late >>

Readable ==
  { s \in ToSet(socketListeners) : queue[s] # << >> }
    \cup (IF pipe > 0 THEN {"breakPipe"} ELSE {})

SelectReturns ==
  /\ pc = "select"
  /\ Readable # {} \/ (wakeAt # NoTimeout /\ wakeAt <= now)
  /\ tempfds' = Readable
  /\ pc' = "drain"
  /\ UNCHANGED << muxVars, breakVars, timerQueue, i, wakeAt, currentTimeMs, envVars, outcome, late >>

(* EINTR starts the loop again; any other error throws.                    *)
SelectFails ==
  /\ pc = "select"
  /\ IF break_ THEN pc' = "leave" ELSE pc' \in {"loop", "unwind"}
  /\ UNCHANGED << muxVars, breakVars, loopVars, envVars, outcome, late >>

(* Mutated: the pipe is read whether or not select reported it.            *)
DrainBreakPipeAlways ==
  /\ pc = "drain"
  /\ pipe' = pipe - 1
  /\ pc' = "test"
  /\ UNCHANGED << muxVars, break_, caller, loopVars, envVars, outcome, late >>

DrainBreakPipe ==
  /\ pc = "drain"
  /\ pipe' = IF "breakPipe" \in tempfds THEN pipe - 1 ELSE pipe
  /\ pc' = "test"
  /\ UNCHANGED << muxVars, break_, caller, loopVars, envVars, outcome, late >>

TestBreak ==
  /\ pc = "test"
  /\ pc' = IF break_ THEN "leave" ELSE "sockets"
  /\ i' = 1
  /\ UNCHANGED << muxVars, breakVars, tempfds, timerQueue, wakeAt, currentTimeMs, envVars, outcome, late >>

CallbackBegins(callback) ==
  /\ pc' = callback
  /\ late' = IF late = NotStopping THEN NotStopping ELSE late + 1

(* The i-th socket: take one datagram if select reported it, and pass it   *)
(* to the listener unless it is empty.                                     *)
ServiceSocket ==
  /\ pc = "sockets"
  /\ i <= Len(socketListeners)
  /\ LET s == socketListeners[i]
     IN  IF s \in tempfds
         THEN /\ queue[s] # << >>
              /\ queue' = [queue EXCEPT ![s] = Tail(@)]
              /\ IF Head(queue[s]) = "data"
                 THEN CallbackBegins("packet") /\ UNCHANGED i
                 ELSE i' = i + 1 /\ UNCHANGED << pc, late >>
         ELSE i' = i + 1 /\ UNCHANGED << pc, late, queue >>
  /\ UNCHANGED << muxVars, breakVars, tempfds, timerQueue, wakeAt, currentTimeMs, now, outcome >>

SocketsDone ==
  /\ pc = "sockets"
  /\ i > Len(socketListeners)
  /\ pc' = "timers"
  /\ UNCHANGED << muxVars, breakVars, loopVars, envVars, outcome, late >>

(* ProcessPacket returns; a stop request ends the socket loop, after which *)
(* the timers still have their turn.                                       *)
PacketListenerReturns ==
  /\ pc = "packet"
  /\ IF break_
     THEN pc' = "timers" /\ UNCHANGED i
     ELSE pc' = "sockets" /\ i' = i + 1
  /\ UNCHANGED << muxVars, breakVars, tempfds, timerQueue, wakeAt, currentTimeMs, envVars, outcome, late >>

ReadClock ==
  /\ pc = "timers"
  /\ currentTimeMs' = now
  /\ i' = 1
  /\ pc' = "expired"
  /\ UNCHANGED << muxVars, breakVars, tempfds, timerQueue, wakeAt, envVars, outcome, late >>

TimerIsDue == i <= Len(timerQueue) /\ timerQueue[i].due <= currentTimeMs

TimerExpires ==
  /\ pc = "expired"
  /\ TimerIsDue
  /\ CallbackBegins("timer")
  /\ UNCHANGED << muxVars, breakVars, loopVars, envVars, outcome >>

(* Mutated: resort is never set.                                           *)
TimersDoneUnsorted ==
  /\ pc = "expired"
  /\ ~TimerIsDue
  /\ pc' = "loop"
  /\ UNCHANGED << muxVars, breakVars, loopVars, envVars, outcome, late >>

TimersDone ==
  /\ pc = "expired"
  /\ ~TimerIsDue
  /\ IF i = 1 THEN UNCHANGED timerQueue ELSE timerQueue' \in Sortings(timerQueue)
  /\ pc' = "loop"
  /\ UNCHANGED << muxVars, breakVars, tempfds, i, wakeAt, currentTimeMs, envVars, outcome, late >>

(* Mutated: no test of break_ between two timers.                          *)
TimerListenerReturnsGoesOn ==
  /\ pc = "timer"
  /\ timerQueue' = [timerQueue EXCEPT ![i].due = @ + timerQueue[i].timer.periodMs]
  /\ i' = i + 1
  /\ pc' = "expired"
  /\ UNCHANGED << muxVars, breakVars, tempfds, wakeAt, currentTimeMs, envVars, outcome, late >>

(* Mutated: the period is not added.                                       *)
TimerListenerReturnsKeepsDue ==
  /\ pc = "timer"
  /\ IF break_ THEN pc' = "loop" /\ UNCHANGED i ELSE pc' = "expired" /\ i' = i + 1
  /\ UNCHANGED << muxVars, breakVars, tempfds, timerQueue, wakeAt, currentTimeMs, envVars, outcome, late >>

TimerListenerReturns ==
  /\ pc = "timer"
  /\ IF break_
     THEN pc' = "loop" /\ UNCHANGED << timerQueue, i >>
     ELSE /\ timerQueue' = [timerQueue EXCEPT ![i].due = @ + timerQueue[i].timer.periodMs]
          /\ i' = i + 1
          /\ pc' = "expired"
  /\ UNCHANGED << muxVars, breakVars, tempfds, wakeAt, currentTimeMs, envVars, outcome, late >>

ListenerThrows ==
  /\ pc \in {"packet", "timer"}
  /\ pc' = "unwind"
  /\ UNCHANGED << muxVars, breakVars, loopVars, envVars, outcome, late >>

(* Leaving Run, by return or by exception, clears the stop flag.           *)
LeaveRun ==
  /\ pc \in {"leave", "unwind"}
  /\ break_' = FALSE
  /\ pc' = "out"
  /\ outcome' = IF pc = "leave" THEN "returned" ELSE "threw"
  /\ late' = NotStopping
  /\ tempfds' = {} /\ timerQueue' = << >> /\ i' = 1
  /\ wakeAt' = NoTimeout /\ currentTimeMs' = 0
  /\ UNCHANGED << muxVars, pipe, caller, envVars >>

-----------------------------------------------------------------------------
(* Stop requests.                                                          *)

(* Break(), called by a listener, or by Run's own thread before Run.       *)
Break ==
  /\ pc \in {"out", "packet", "timer"}
  /\ break_' = TRUE
  /\ late' = IF pc # "out" /\ late = NotStopping THEN 0 ELSE late
  /\ UNCHANGED << muxVars, pipe, caller, pc, loopVars, envVars, outcome >>

(* AsynchronousBreak() stores the flag, then writes to the pipe; the write *)
(* blocks while the pipe is full.                                          *)
AsynchronousBreak(t) ==
  /\ caller[t] = "idle"
  /\ break_' = TRUE
  /\ caller' = [caller EXCEPT ![t] = "write"]
  /\ UNCHANGED << muxVars, pipe, pc, loopVars, envVars, outcome, late >>

(* Mutated: only the flag is stored.                                       *)
WriteBreakPipeNever(t) ==
  /\ caller[t] = "write"
  /\ pipe < PipeCapacity
  /\ caller' = [caller EXCEPT ![t] = "idle"]
  /\ UNCHANGED << muxVars, break_, pipe, pc, loopVars, envVars, outcome, late >>

WriteBreakPipe(t) ==
  /\ caller[t] = "write"
  /\ pipe < PipeCapacity
  /\ pipe' = pipe + 1
  /\ caller' = [caller EXCEPT ![t] = "idle"]
  /\ UNCHANGED << muxVars, break_, pc, loopVars, envVars, outcome, late >>

-----------------------------------------------------------------------------
(* The network and the clock.                                              *)

DatagramArrives(s, d) ==
  /\ Len(queue[s]) < QueueCapacity
  /\ queue' = [queue EXCEPT ![s] = Append(@, d)]
  /\ UNCHANGED << muxVars, breakVars, pc, loopVars, now, outcome, late >>

Tick ==
  /\ now < MaxTime
  /\ now' = now + 1
  /\ UNCHANGED << muxVars, breakVars, pc, loopVars, queue, outcome, late >>

-----------------------------------------------------------------------------

Attachment ==
  \/ \E s \in Sockets : AttachSocketListener(s) \/ DetachSocketListener(s)
  \/ \E t \in Timers : AttachPeriodicTimerListener(t) \/ DetachPeriodicTimerListener(t)

(* The steps Run takes by itself, its listeners' returning included; a     *)
(* signal or an error that ends a wait is none of them.                    *)
RunStep ==
  \/ LoopTest \/ SelectReturns \/ DrainBreakPipe \/ TestBreak
  \/ ServiceSocket \/ SocketsDone \/ PacketListenerReturns
  \/ ReadClock \/ TimerExpires \/ TimersDone \/ TimerListenerReturns
  \/ ListenerThrows \/ LeaveRun

Environment ==
  \/ \E s \in Sockets, d \in Datagrams : DatagramArrives(s, d)
  \/ Tick

Next ==
  \/ Attachment \/ Run \/ RunStep \/ SelectFails \/ Break
  \/ \E t \in Callers : AsynchronousBreak(t) \/ WriteBreakPipe(t)
  \/ Environment

Spec == Init /\ [][Next]_vars

(* Run's thread is scheduled and its listeners come back; a thread that    *)
(* may write to the pipe does.  No signal need ever interrupt a select     *)
(* that waits, and none interrupts every select that could return.         *)
Fairness ==
  /\ WF_vars(RunStep)
  /\ SF_vars(SelectReturns)
  /\ \A t \in Callers : WF_vars(WriteBreakPipe(t))

FairSpec == Spec /\ Fairness

-----------------------------------------------------------------------------

Scheduled == [due : Nat, timer : Timers]

TypeOK ==
  /\ socketListeners \in Seq(Sockets) /\ timerListeners \in Seq(Timers)
  /\ break_ \in BOOLEAN
  /\ pipe \in 0..PipeCapacity
  /\ caller \in [Callers -> {"idle", "write"}]
  /\ pc \in { "out", "loop", "select", "drain", "test", "sockets", "packet",
              "timers", "expired", "timer", "leave", "unwind" }
  /\ tempfds \subseteq Sockets \cup {"breakPipe"}
  /\ timerQueue \in Seq(Scheduled)
  /\ i \in Nat \ {0}
  /\ wakeAt \in Nat \cup {NoTimeout} /\ currentTimeMs \in Nat /\ now \in Nat
  /\ queue \in [Sockets -> Seq(Datagrams)]
  /\ outcome \in {"never", "returned", "threw"}
  /\ late \in Nat \cup {NotStopping}

(* A stop request cannot be slept through: if Run waits in select() with   *)
(* the flag set, its byte is in the pipe or a caller is about to write it. *)
(* Storing the flag after writing the byte, or reading more than one byte  *)
(* too early, would let Run drain the byte and then block for ever.        *)
NoLostWakeup ==
  pc = "select" /\ break_ => pipe > 0 \/ \E t \in Callers : caller[t] = "write"

Abstract == INSTANCE StoppableRun
              WITH status    <- IF pc = "out" THEN outcome ELSE "running",
                   requested <- break_

(* Run, Break and AsynchronousBreak implement StoppableRun: Run returns    *)
(* normally only on a stop request (bytes left in the pipe by earlier      *)
(* requests do not end it), a request made before or during Run ends it,   *)
(* and leaving Run uses the request up.                                    *)
ImplementsStoppableRun == Abstract!Spec

(* After a listener called Break, no further packet is dispatched, and at  *)
(* most one timer listener is still called.                                *)
AtMostOneTimerAfterBreak ==
  /\ late <= 1
  /\ pc = "packet" => late <= 0

(* "Call this from a listener to exit once the listener returns": after    *)
(* Break no other listener is called.                                      *)
NoCallbackAfterBreak == late <= 0

(* select() never sleeps past a timer: the wait ends when the earliest one *)
(* is due, whichever timers fired, and in whatever order, before it.       *)
WakesForEarliestTimer ==
  pc = "select" =>
    \A j \in DOMAIN timerQueue :
      wakeAt # NoTimeout /\ (wakeAt <= timerQueue[j].due \/ wakeAt <= now)

Overdue(timer) ==
  /\ pc # "out"
  /\ \E j \in DOMAIN timerQueue : timerQueue[j].timer = timer /\ timerQueue[j].due <= now

(* A timer that is due is called, and called again until it has caught up  *)
(* with the clock, unless Run is left; datagrams cannot starve it.         *)
DueTimersFire == \A timer \in Timers : Overdue(timer) ~> ~Overdue(timer)

=============================================================================
