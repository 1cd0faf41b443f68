--------------------- MODULE TcpListeningReceiveSocket ---------------------
(***************************************************************************)
(* TcpListeningReceiveSocket of osctap/ip/posix/TcpSocket.h: one thread in *)
(* Run() accepts any number of TCP sessions and dispatches the packets of  *)
(* each to one listener, while other threads may call AsynchronousBreak(). *)
(*                                                                         *)
(* A session's bytes are tokens: "part" stands for bytes that leave a      *)
(* frame incomplete, "end" for those that complete it, "big" for a header  *)
(* that announces more than maxFrameSize.  What a connection's deframer    *)
(* does with them is what OscStreamDeframer is proved to do with bytes.    *)
(***************************************************************************)
EXTENDS Integers, Sequences, SequencesExt, FiniteSetsExt, Functions

CONSTANTS
  Sessions,       \* TCP sessions; a name is used again when nobody holds it
  Script,         \* the tokens each session's client has to send
  Fds,            \* the descriptors the process may still open
  Callers,        \* threads that call AsynchronousBreak
  PipeCapacity    \* bytes the pipe holds before write() blocks

ASSUME FdsAssumption == Fds \subseteq Nat /\ IsFiniteSet(Fds)
ASSUME ScriptAssumption == Script \in [Sessions -> Seq({"part", "end", "big"})]
ASSUME PipeAssumption == PipeCapacity \in Nat \ {0}

VARIABLES
  connections,  \* connections_: fd -> [peer, frame, spoiled]
  break_,       \* the stop flag, an atomic
  pipe,         \* bytes in breakPipe_
  caller,       \* where each caller is in AsynchronousBreak
  pc,           \* where Run is; "out" when it is not executing
  readfds,      \* what the last select reported readable
  ready,        \* the ready descriptors still to be serviced
  fd,           \* the descriptor being serviced
  chunk,        \* the tokens recv returned that Consume has not reached
  backlog,      \* the kernel: sessions waiting for accept()
  socketOf,     \* the kernel: the session behind each open descriptor
  link,         \* the client's side of each session
  sent, recvd,  \* tokens the client has written, the server has read
  delivered,    \* history: the packets the listener got from each peer
  outcome,      \* history: how the last Run ended
  late          \* history: reads begun in this Run since a stop was
                \* requested (-1: it was not), the one in whose packet the
                \* listener called Break counted

breakVars == << break_, pipe, caller >>
loopVars == << readfds, ready, fd, chunk >>
kernelVars == << backlog, socketOf >>
clientVars == << link, sent >>
vars == << connections, breakVars, pc, loopVars, kernelVars, clientVars, recvd,
           delivered, outcome, late >>

NotStopping == -1
NoFd == -1
Nothing == [pipe |-> FALSE, listen |-> FALSE, conns |-> {}]

(* The token at position j of a session's stream.                          *)
Token(s, j) == [of |-> s, at |-> j]
Kind(token) == Script[token.of][token.at]

Init ==
  /\ connections = << >>
  /\ break_ = FALSE
  /\ pipe = 0
  /\ caller = [t \in Callers |-> "idle"]
  /\ pc = "out"
  /\ readfds = Nothing /\ ready = {} /\ fd = NoFd /\ chunk = << >>
  /\ backlog = << >> /\ socketOf = << >>
  /\ link = [s \in Sessions |-> "closed"]
  /\ sent = [s \in Sessions |-> 0] /\ recvd = [s \in Sessions |-> 0]
  /\ delivered = [s \in Sessions |-> << >>]
  /\ outcome = "never"
  /\ late = NotStopping

-----------------------------------------------------------------------------
(* Run(): select, the break pipe, accept.                                  *)

Run ==
  /\ pc = "out"
  /\ pc' = "loop"
  /\ UNCHANGED << connections, breakVars, loopVars, kernelVars, clientVars, recvd,
                  delivered, outcome, late >>

(* Mutated: while (true).                                                  *)
LoopTestForever ==
  /\ pc = "loop"
  /\ pc' = "select"
  /\ UNCHANGED << connections, breakVars, loopVars, kernelVars, clientVars, recvd,
                  delivered, outcome, late >>

LoopTest ==
  /\ pc = "loop"
  /\ pc' = IF break_ THEN "leave" ELSE "select"
  /\ UNCHANGED << connections, breakVars, loopVars, kernelVars, clientVars, recvd,
                  delivered, outcome, late >>

HasInput(s) == sent[s] > recvd[s] \/ link[s] = "closed"

(* Mutated: select(fdmax, ...) does not look at the highest descriptor.    *)
ReadableBelowMax ==
  [ pipe   |-> pipe > 0,
    listen |-> backlog # << >>,
    conns  |-> { f \in DOMAIN connections :
                   /\ f \in DOMAIN socketOf /\ HasInput(socketOf[f])
                   /\ f < Max(DOMAIN connections) } ]

Readable ==
  [ pipe   |-> pipe > 0,
    listen |-> backlog # << >>,
    conns  |-> { f \in DOMAIN connections : f \in DOMAIN socketOf /\ HasInput(socketOf[f]) } ]

SelectReturns ==
  /\ pc = "select"
  /\ Readable # Nothing
  /\ readfds' = Readable
  /\ pc' = "drain"
  /\ UNCHANGED << connections, breakVars, ready, fd, chunk, kernelVars, clientVars,
                  recvd, delivered, outcome, late >>

(* EINTR starts the loop again; any other error throws.                    *)
SelectFails ==
  /\ pc = "select"
  /\ IF break_ THEN pc' = "leave" ELSE pc' \in {"loop", "unwind"}
  /\ UNCHANGED << connections, breakVars, loopVars, kernelVars, clientVars, recvd,
                  delivered, outcome, late >>

(* Mutated: the pipe is read whether or not select reported it.            *)
DrainBreakPipeAlways ==
  /\ pc = "drain"
  /\ pipe' = pipe - 1
  /\ pc' = "test"
  /\ UNCHANGED << connections, break_, caller, loopVars, kernelVars, clientVars,
                  recvd, delivered, outcome, late >>

DrainBreakPipe ==
  /\ pc = "drain"
  /\ pipe' = IF readfds.pipe THEN pipe - 1 ELSE pipe
  /\ pc' = "test"
  /\ UNCHANGED << connections, break_, caller, loopVars, kernelVars, clientVars,
                  recvd, delivered, outcome, late >>

TestBreak ==
  /\ pc = "test"
  /\ pc' = IF break_ THEN "leave" ELSE "accept"
  /\ UNCHANGED << connections, breakVars, loopVars, kernelVars, clientVars, recvd,
                  delivered, outcome, late >>

FreeFds == Fds \ DOMAIN socketOf

(* emplace does not replace an entry that is there.                        *)
AcceptConnection ==
  LET f == Min(FreeFds)
      s == Head(backlog)
  IN  /\ socketOf' = [ g \in DOMAIN socketOf \cup {f} |->
                         IF g = f THEN s ELSE socketOf[g] ]
      /\ backlog' = Tail(backlog)
      /\ connections' = [ g \in DOMAIN connections \cup {f} |->
                            IF g \in DOMAIN connections
                            THEN connections[g]
                            ELSE [peer |-> s, frame |-> << >>, spoiled |-> FALSE] ]

(* Accept one session, unless accept() fails for want of a descriptor, and *)
(* collect the descriptors to service.                                     *)
Accept ==
  /\ pc = "accept"
  /\ IF readfds.listen /\ FreeFds # {}
     THEN AcceptConnection
     ELSE UNCHANGED << connections, kernelVars >>
  /\ ready' = DOMAIN connections' \cap readfds.conns
  /\ pc' = "ready"
  /\ UNCHANGED << breakVars, readfds, fd, chunk, clientVars, recvd, delivered,
                  outcome, late >>

-----------------------------------------------------------------------------
(* Run(): servicing the connections that are ready, by ascending fd.       *)

(* Mutated: the entry is not erased.                                       *)
CloseConnectionKeepsEntry(f) ==
  /\ socketOf' = Restrict(socketOf, DOMAIN socketOf \ {f})
  /\ UNCHANGED connections

(* close() and erase.                                                      *)
CloseConnection(f) ==
  /\ socketOf' = Restrict(socketOf, DOMAIN socketOf \ {f})
  /\ connections' = Restrict(connections, DOMAIN connections \ {f})

(* recv() returns some of the bytes there are; zero or an error drops the  *)
(* connection.                                                             *)
ServiceConnection ==
  /\ pc = "ready"
  /\ ready # {}
  /\ fd' = Min(ready)
  /\ ready' = ready \ {fd'}
  /\ late' = IF late = NotStopping THEN NotStopping ELSE late + 1
  /\ LET s == socketOf[fd']
     IN  \/ \E n \in 1..(sent[s] - recvd[s]) :
              /\ chunk' = [j \in 1..n |-> Token(s, recvd[s] + j)]
              /\ recvd' = [recvd EXCEPT ![s] = @ + n]
              /\ pc' = "consume"
              /\ UNCHANGED << connections, socketOf >>
         \/ /\ sent[s] = recvd[s] /\ link[s] = "closed"
            /\ CloseConnection(fd')
            /\ pc' = "serviced"
            /\ UNCHANGED << chunk, recvd >>
  /\ UNCHANGED << breakVars, readfds, backlog, clientVars, delivered, outcome >>

ServiceEnds ==
  /\ pc = "ready"
  /\ ready = {}
  /\ pc' = "loop"
  /\ UNCHANGED << connections, breakVars, loopVars, kernelVars, clientVars, recvd,
                  delivered, outcome, late >>

(* Mutated: no test of break_ between two connections.                     *)
ServicedGoesOn ==
  /\ pc = "serviced"
  /\ pc' = "ready"
  /\ UNCHANGED << connections, breakVars, loopVars, kernelVars, clientVars, recvd,
                  delivered, outcome, late >>

(* The test of break_ after each connection.                               *)
Serviced ==
  /\ pc = "serviced"
  /\ pc' = IF break_ THEN "loop" ELSE "ready"
  /\ UNCHANGED << connections, breakVars, loopVars, kernelVars, clientVars, recvd,
                  delivered, outcome, late >>

ConsumeReturns ==
  /\ pc = "consume"
  /\ chunk = << >>
  /\ pc' = "serviced"
  /\ UNCHANGED << connections, breakVars, loopVars, kernelVars, clientVars, recvd,
                  delivered, outcome, late >>

Gather ==
  /\ pc = "consume"
  /\ chunk # << >> /\ Kind(Head(chunk)) = "part"
  /\ ~connections[fd].spoiled
  /\ connections' = [connections EXCEPT ![fd].frame = Append(@, Head(chunk))]
  /\ chunk' = Tail(chunk)
  /\ UNCHANGED << breakVars, pc, readfds, ready, fd, kernelVars, clientVars, recvd,
                  delivered, outcome, late >>

(* Mutated: the reassembly buffer is not cleared after a packet.           *)
DispatchKeepsFrame ==
  /\ pc = "consume"
  /\ chunk # << >> /\ Kind(Head(chunk)) = "end"
  /\ ~connections[fd].spoiled
  /\ LET connection == connections[fd]
     IN  delivered' = [delivered EXCEPT ![connection.peer] =
                         Append(@, Append(connection.frame, Head(chunk)))]
  /\ chunk' = Tail(chunk)
  /\ pc' = "packet"
  /\ UNCHANGED << connections, breakVars, readfds, ready, fd, kernelVars, clientVars,
                  recvd, outcome, late >>

(* A complete frame goes to the listener, with the connection's peer.      *)
Dispatch ==
  /\ pc = "consume"
  /\ chunk # << >> /\ Kind(Head(chunk)) = "end"
  /\ ~connections[fd].spoiled
  /\ LET connection == connections[fd]
     IN  delivered' = [delivered EXCEPT ![connection.peer] =
                         Append(@, Append(connection.frame, Head(chunk)))]
  /\ connections' = [connections EXCEPT ![fd].frame = << >>]
  /\ chunk' = Tail(chunk)
  /\ pc' = "packet"
  /\ UNCHANGED << breakVars, readfds, ready, fd, kernelVars, clientVars, recvd,
                  outcome, late >>

(* Consume returns false: a frame exceeds the limit.                       *)
Reject ==
  /\ pc = "consume"
  /\ chunk # << >> /\ (Kind(Head(chunk)) = "big" \/ connections[fd].spoiled)
  /\ CloseConnection(fd)
  /\ chunk' = << >>
  /\ pc' = "serviced"
  /\ UNCHANGED << breakVars, readfds, ready, fd, backlog, clientVars, recvd,
                  delivered, outcome, late >>

(* A deframer an exception passed through is out of step with its stream:  *)
(* the bytes may look like part of a frame or like a packet, which is not  *)
(* recorded.                                                               *)
ConsumeSpoiled ==
  /\ pc = "consume"
  /\ chunk # << >> /\ connections[fd].spoiled
  /\ chunk' = Tail(chunk)
  /\ pc' \in {"consume", "packet"}
  /\ UNCHANGED << connections, breakVars, readfds, ready, fd, kernelVars, clientVars,
                  recvd, delivered, outcome, late >>

ListenerReturns ==
  /\ pc = "packet"
  /\ pc' = "consume"
  /\ UNCHANGED << connections, breakVars, loopVars, kernelVars, clientVars, recvd,
                  delivered, outcome, late >>

(* The exception leaves Run; the connection stays registered.              *)
ListenerThrows ==
  /\ pc = "packet"
  /\ connections' = [connections EXCEPT ![fd].spoiled = TRUE]
  /\ chunk' = << >>
  /\ pc' = "unwind"
  /\ UNCHANGED << breakVars, readfds, ready, fd, kernelVars, clientVars, recvd,
                  delivered, outcome, late >>

(* Leaving Run, by return or by exception, clears the stop flag; the       *)
(* connections stay for the next Run.                                      *)
LeaveRun ==
  /\ pc \in {"leave", "unwind"}
  /\ break_' = FALSE
  /\ pc' = "out"
  /\ outcome' = IF pc = "leave" THEN "returned" ELSE "threw"
  /\ late' = NotStopping
  /\ readfds' = Nothing /\ ready' = {} /\ fd' = NoFd /\ chunk' = << >>
  /\ UNCHANGED << connections, pipe, caller, kernelVars, clientVars, recvd, delivered >>

-----------------------------------------------------------------------------
(* Stop requests.                                                          *)

(* Break(), called by the listener, or by Run's own thread before Run.     *)
Break ==
  /\ pc \in {"out", "packet"}
  /\ break_' = TRUE
  /\ late' = IF pc = "packet" THEN 1 ELSE late
  /\ UNCHANGED << connections, pipe, caller, pc, loopVars, kernelVars, clientVars,
                  recvd, delivered, outcome >>

AsynchronousBreak(t) ==
  /\ caller[t] = "idle"
  /\ break_' = TRUE
  /\ late' = IF pc # "out" /\ late = NotStopping THEN 0 ELSE late
  /\ caller' = [caller EXCEPT ![t] = "write"]
  /\ UNCHANGED << connections, pipe, pc, loopVars, kernelVars, clientVars, recvd,
                  delivered, outcome >>

(* Mutated: only the flag is stored.                                       *)
WriteBreakPipeNever(t) ==
  /\ caller[t] = "write"
  /\ pipe < PipeCapacity
  /\ caller' = [caller EXCEPT ![t] = "idle"]
  /\ UNCHANGED << connections, break_, pipe, pc, loopVars, kernelVars, clientVars, recvd,
                  delivered, outcome, late >>

WriteBreakPipe(t) ==
  /\ caller[t] = "write"
  /\ pipe < PipeCapacity
  /\ pipe' = pipe + 1
  /\ caller' = [caller EXCEPT ![t] = "idle"]
  /\ UNCHANGED << connections, break_, pc, loopVars, kernelVars, clientVars, recvd,
                  delivered, outcome, late >>

-----------------------------------------------------------------------------
(* The clients.                                                            *)

Held(s) == s \in ToSet(backlog) \cup Range(socketOf)

ClientConnects(s) ==
  /\ link[s] = "closed" /\ ~Held(s)
  /\ link' = [link EXCEPT ![s] = "up"]
  /\ backlog' = Append(backlog, s)
  /\ sent' = [sent EXCEPT ![s] = 0]
  /\ recvd' = [recvd EXCEPT ![s] = 0]
  /\ delivered' = [delivered EXCEPT ![s] = << >>]
  /\ UNCHANGED << connections, breakVars, pc, loopVars, socketOf, outcome, late >>

ClientSends(s) ==
  /\ link[s] = "up"
  /\ sent[s] < Len(Script[s])
  /\ sent' = [sent EXCEPT ![s] = @ + 1]
  /\ UNCHANGED << connections, breakVars, pc, loopVars, kernelVars, link, recvd,
                  delivered, outcome, late >>

(* The client closes its end; a reset also discards what was in flight.    *)
ClientCloses(s) ==
  /\ link[s] = "up"
  /\ link' = [link EXCEPT ![s] = "closed"]
  /\ sent' \in { sent, [sent EXCEPT ![s] = recvd[s]] }
  /\ UNCHANGED << connections, breakVars, pc, loopVars, kernelVars, recvd, delivered,
                  outcome, late >>

-----------------------------------------------------------------------------

(* The steps Run takes by itself, its listener's returning included; a     *)
(* signal or an error that ends a wait is none of them.                    *)
RunStep ==
  \/ LoopTest \/ SelectReturns \/ DrainBreakPipe \/ TestBreak \/ Accept
  \/ ServiceConnection \/ ServiceEnds \/ Serviced
  \/ ConsumeReturns \/ Gather \/ Dispatch \/ Reject \/ ConsumeSpoiled
  \/ ListenerReturns \/ ListenerThrows \/ LeaveRun

Client(s) == ClientConnects(s) \/ ClientSends(s) \/ ClientCloses(s)

Next ==
  \/ Run \/ RunStep \/ SelectFails \/ Break
  \/ \E t \in Callers : AsynchronousBreak(t) \/ WriteBreakPipe(t)
  \/ \E s \in Sessions : Client(s)

Spec == Init /\ [][Next]_vars

(* Run's thread is scheduled and its listener comes back; a thread that    *)
(* may write to the pipe does.  No signal need ever interrupt a select     *)
(* that waits, and none interrupts every select that could return.         *)
Fairness ==
  /\ WF_vars(RunStep)
  /\ SF_vars(SelectReturns)
  /\ \A t \in Callers : WF_vars(WriteBreakPipe(t))

FairSpec == Spec /\ Fairness

-----------------------------------------------------------------------------

TokensOf(s) == { Token(s, j) : j \in 1..Len(Script[s]) }
Tokens == UNION { TokensOf(s) : s \in Sessions }
Connection == [peer : Sessions, frame : Seq(Tokens), spoiled : BOOLEAN]

TypeOK ==
  /\ DOMAIN connections \subseteq Fds
  /\ connections \in [DOMAIN connections -> Connection]
  /\ break_ \in BOOLEAN
  /\ pipe \in 0..PipeCapacity
  /\ caller \in [Callers -> {"idle", "write"}]
  /\ pc \in { "out", "loop", "select", "drain", "test", "accept", "ready", "consume",
              "packet", "serviced", "leave", "unwind" }
  /\ readfds \in [pipe : BOOLEAN, listen : BOOLEAN, conns : SUBSET Fds]
  /\ ready \subseteq Fds
  /\ fd \in Fds \cup {NoFd}
  /\ chunk \in Seq(Tokens)
  /\ backlog \in Seq(Sessions)
  /\ DOMAIN socketOf \subseteq Fds
  /\ socketOf \in [DOMAIN socketOf -> Sessions]
  /\ link \in [Sessions -> {"up", "closed"}]
  /\ sent \in [Sessions -> Nat] /\ recvd \in [Sessions -> Nat]
  /\ \A s \in Sessions : recvd[s] <= sent[s] /\ sent[s] <= Len(Script[s])
  /\ delivered \in [Sessions -> Seq(Seq(Tokens))]
  /\ outcome \in {"never", "returned", "threw"}
  /\ late \in Nat \cup {NotStopping}

(* A stop request cannot be slept through: see SocketReceiveMultiplexer.   *)
NoLostWakeup ==
  pc = "select" /\ break_ => pipe > 0 \/ \E t \in Callers : caller[t] = "write"

Abstract == INSTANCE StoppableRun
              WITH status    <- IF pc = "out" THEN outcome ELSE "running",
                   requested <- break_

(* Run, Break and AsynchronousBreak implement StoppableRun, with sessions  *)
(* coming, going and sending all the while.                                *)
ImplementsStoppableRun == Abstract!Spec

(* The map and the kernel agree: every descriptor Run opened is either in  *)
(* connections_ under its own peer, or closed, however the session ended   *)
(* (by the client, by a frame too large) or Run did (by return or by an    *)
(* exception); so no descriptor leaks, and one that the kernel hands out   *)
(* again does not find the state of the session before it.                 *)
DescriptorsOwned ==
  /\ DOMAIN connections = DOMAIN socketOf
  /\ \A f \in DOMAIN connections : connections[f].peer = socketOf[f]

(* The tokens of s behind the m-th up to the n-th.                         *)
Slice(s, m, n) == [ j \in 1..(n - m) |-> Token(s, m + j) ]

(* The first n tokens of s are these packets and, behind them, this frame  *)
(* that is not complete: cut[k] tokens make up the first k packets.        *)
Cuts(s, n, packets, frame, cut) ==
  LET count == Len(packets)
  IN  /\ cut[0] = 0
      /\ \A k \in 1..count :
           /\ cut[k - 1] < cut[k]
           /\ packets[k] = Slice(s, cut[k - 1], cut[k])
           /\ \A j \in cut[k - 1] + 1..cut[k] :
                Script[s][j] = IF j = cut[k] THEN "end" ELSE "part"
      /\ frame = Slice(s, cut[count], n)
      /\ \A j \in cut[count] + 1..n : Script[s][j] = "part"

CutInto(s, n, packets, frame) ==
  \E cut \in [0..Len(packets) -> 0..n] : Cuts(s, n, packets, frame, cut)

(* Each session's packets reach the listener whole, in order and once,     *)
(* under that session's peer, as far as its bytes were read, also across   *)
(* a Break in the middle of a chunk and another Run, and however the       *)
(* sessions' reads interleave -- unless the listener threw at one of them. *)
SessionsKeptApart ==
  \A f \in DOMAIN socketOf :
    LET s == socketOf[f]
        unread == IF f = fd THEN Len(chunk) ELSE 0
    IN  ~connections[f].spoiled =>
          CutInto(s, recvd[s] - unread, delivered[s], connections[f].frame)

(* Once another thread has requested a stop, Run makes at most one more    *)
(* read; once the listener has, none: the rest of that read's packets are  *)
(* still dispatched, but no other connection is serviced.                  *)
AtMostOneReadAfterStop == late <= 1

HasWork(s) ==
  /\ pc # "out"
  /\ \E f \in DOMAIN socketOf : socketOf[f] = s /\ HasInput(s)

(* A connection with bytes to read, or whose client is gone, is serviced   *)
(* until it has none, unless Run ends: again and again there is none that  *)
(* waits, and sessions that come, send and go without end cannot starve    *)
(* one.                                                                    *)
EverySessionServed == \A s \in Sessions : []<>~HasWork(s)

=============================================================================
