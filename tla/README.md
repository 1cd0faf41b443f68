# TLA+ models of OscTap

OscTap is a header-only C++ library for Open Sound Control: it builds and parses OSC
packets, and moves them over UDP and TCP. This directory holds TLA+ specifications of
its stateful parts, TLC configurations that model-check them on small instances, and
TLAPS proofs of the properties that matter most, for every value of the parameters.

Check a model with `tlc -config OscOverTcp.cfg MCOscOverTcp.tla`, a proof with
`tlapm OscOverTcpProofs.tla`; `PROJECT.json` lists all runs and theorems, and maps
every definition to the source lines it models. Paths below are under `src/osctap/`.

## 1. Inventory

| component | source | state | operations | what makes it hard |
|---|---|---|---|---|
| stream deframer | `osc/OscStreamFraming.h` | header bytes so far, frame size, reassembly buffer | `Consume`, `Reset` | chunks end anywhere; empty and oversized frames; the sink throws |
| UDP multiplexer (POSIX) | `ip/posix/UdpSocket.h` 285-477 | listeners, timer queue, stop flag, break pipe | attach, detach, `Run`, `Break`, `AsynchronousBreak` | other threads and signals stop `Run`; timers beside traffic; listeners throw |
| TCP receiver (POSIX) | `ip/posix/TcpSocket.h` 126-302 | connections by descriptor, stop flag, break pipe | `Run`, `Break`, `AsynchronousBreak` | many sessions on one thread; descriptors come back; a stop in the middle of a chunk |
| TCP sender (POSIX) | `ip/posix/TcpSocket.h` 53-114 | one connected socket | `Send` | partial writes, failure between header and payload, two sending threads |
| UDP socket (POSIX) | `ip/posix/UdpSocket.h` 84-267 | bound and connected endpoints, group membership | `Bind`, `Connect`, `LocalEndpointFor`, `Send`, `ReceiveFrom` | `LocalEndpointFor` reconnects for a moment |
| Windows multiplexer | `ip/win32/UdpSocket.h` 280-446 | as on POSIX, with an event per socket | as above | events that reset themselves, one per wait; no unwinding on exceptions |
| other Windows sockets | `ip/win32/*.h` | as the POSIX ones | as above | |
| packet builder | `osc/OscOutboundPacketStream.h` | four cursors into the caller's buffer, a flag | `<<` for bundles, messages, arguments; `Clear` | two regions grow towards each other; sizes are patched in later; calls in any order |
| packet parser | `osc/OscReceivedElements.h` | views of a packet | `TryInit`, iterators, argument streams, `TryValidatePacket` | sizes come from the network; reading trusts the validation and repeats its arithmetic |
| packet dispatch | `osc/OscPacketListener.h`, `osc/MessageMappingOscPacketListener.h` | the map from address to member, nesting depth and limit | `ProcessPacket`, `ProcessBundle`, `RegisterMessageFunction` | recursion; exceptions at any depth; a bundle dispatched in part |
| printing, value types, configuration, name resolution, Android binding, demos | | none that others depend on | | |

How they interact. A sender fills a buffer through the builder and passes it to
`UdpTransmitSocket::Send` (one datagram) or `TcpTransmitSocket::Send` (one frame). On the
receiving side `Run` waits in `select()`, reads a datagram or a chunk of a stream, has
the chunk cut into packets by the connection's deframer, and calls
`PacketListener::ProcessPacket` on its own thread; dispatch and parsing happen inside
that call. The listener may call `Break()`, may throw, and other threads or signal
handlers may call `AsynchronousBreak()` at any point. Nothing is persisted, so there is
no crash recovery; what takes its place is a second `Run` after one that a stop or an
exception ended.

What makes each component correct:

- deframer: the packets of a stream once each, in order, whole, as soon as they are
  complete, with bounded memory, whatever the chunks;
- `Run`: ends on every stop request, also one made before it started or just before it
  sleeps; returns for no other reason; leaves nothing to the next `Run`; due timers fire;
- TCP receiver: sessions never mix, no descriptor leaks or inherits state, none starves;
- builder: a packet that reports ready is the encoding of what was put in; the checks
  for room agree with what is written, and `Size()` with what will be there;
- parser: accepts what the builder writes and reads the same values back, and stays
  inside the packet otherwise;
- dispatch: every message once, in order, with bounded recursion, also after packets
  that an exception ended;
- TCP from end to end: the listener gets what `Send` was given, whatever the network
  does with the bytes short of losing the connection;
- UDP socket: what the object believes about its association and its port is what the
  kernel holds.

`PROJECT.json` "hazards" lists, line by line, where these can go wrong.

## 2. Plan

| step | modules | state |
|---|---|---|
| 1 | `OscStreamFraming`, `OscStreamDeframer`, abstract `PacketStream` | done |
| 2 | `SocketReceiveMultiplexer`, abstract `StoppableRun`, `SocketReceiveMultiplexerProofs` | done |
| 3 | `TcpListeningReceiveSocket`, also against `StoppableRun`; `TcpListeningReceiveSocketProofs` | done |
| 4 | `OutboundPacketStream`, `OutboundPacketStreamProofs` | done |
| 5 | `OscOverTcp`: the TCP sender, a connection and the deframer; `OscOverTcpProofs`, about the deframer too | done |
| 6 | `OscReceivedElements`, the parser; `OscRoundTrip`, builder and parser together; `OscPacketListener`, dispatch with its depth limit; `OscRoundTripProofs`, `OscPacketListenerProofs` | done |
| 7 | `UdpSocket`, `UdpSocketProofs`; `Win32SocketReceiveMultiplexer` against `StoppableRun`, `Win32SocketReceiveMultiplexerProofs` | done |

`PacketStream` and `StoppableRun` are the two abstract specifications: they say what the
two claims of the documentation (`OscStreamFraming.h`: "it emits each complete OSC packet
exactly once"; `docs/API.md`: "A break requested *before* `Run()` starts is honoured too")
mean, in a page each, and the detailed modules implement them.

## 3. The modules

**OscStreamFraming** holds the wire format: a four-byte big-endian size, then the
packet. Bytes are numbers below 256 and sizes are computed from them, because whether
the right four bytes are taken for the size is what the deframer must get right.

**OscStreamDeframer** models every path of `Consume`. One action is one stretch of its
loop: a header read in place (`HeaderContiguous`) or across chunks (`HeaderIncomplete`,
`HeaderCompleted`), a packet passed on in place (`DispatchInPlace`) or gathered
(`Gather`), the sink returning or throwing, and the end of the chunk (`ConsumeReturns`).
`stream` is every byte received on the connection and `pos` is the pointer `p` into it;
the chunk ends at `Len(stream)`. `Receive` appends a chunk and calls `Consume`; it may
continue any stream of `Inputs`, in pieces of any length. After an exception
(`SinkThrows`) the fields stay as the code leaves them and the next `Receive` goes on
with them, as `TcpListeningReceiveSocket` does.

**PacketStream** is the same without buffers or chunks: a cursor in the stream, and a
packet delivered when all of it has arrived. The refinement mapping computes the cursor
from `pos`, `buffer` and `header`.

**SocketReceiveMultiplexer** models `Run` with one action for each access to what it
shares with other threads, in the code's order: test of the flag, `select`, drain of
one byte, second test, the sockets, the clock, the timers. `AsynchronousBreak` is two
steps, the store of the flag and the `write` of the byte, and anything may happen in
between. `break_` is a sequentially consistent atomic in the code, a plain variable
here. `wakeAt` is the absolute time at which the select in progress times out. The
kernel is the environment: bounded datagram queues, a pipe that blocks when full, a
clock. Listeners may break, return or throw. Timers are a sequence sorted on any order
of equal times (`std::sort` is not stable), and sorted only when one fired, as in the
code. Attaching and detaching happens only while `Run` is not executing, as the code
requires.

**StoppableRun** has two variables, how `Run` ended and whether a request is pending.
A normal return needs a request and uses it up; an exception may leave at any time;
a pending request makes `Run` end.

**TcpListeningReceiveSocket** models `Run` for TCP the same way. The kernel's table from
descriptors to sessions and its accept queue are explicit; the next connection gets the
smallest free descriptor, in particular one just closed. A session's bytes are
tokens: one that leaves a frame incomplete, one that completes it, and one that breaks
the protocol; `frame` is what the connection's deframer has gathered. That a deframer
does with tokens what it does with bytes is the refinement above. `spoiled` marks a
connection whose listener threw in the middle of a chunk; what its deframer then does
with later bytes is unspecified here (each later token may be swallowed, pass for a packet, or for a
frame too large: `ConsumeSpoiled`, `Reject`) and is modelled in `OscStreamDeframer`.
`SessionsKeptApart` compares what the listener got of a session with a cutting of the
session's tokens into frames (`CutInto`): the places of the cuts are what has to exist.

**OutboundPacketStream** has one action for each kind of call. Pointers are offsets from
`data_`. `buffer` holds the bytes up to `argumentCurrent_`, so that its length is that
pointer, and `typeTags` what was written downwards from `end_`. A byte is a symbol that
says what it is, with its place in it; sizes and offsets keep their values. The call
that puts an argument is one action with the overload as its parameter: its type tag,
the room it asks for and the bytes it appends, which differ so that an overload may
write other than it asked for. `ArgumentsAssumption` says that an argument is one of
those the overloads make, of any length. As in the code, the call does not ask for a
message in progress. `open` and `message` are history variables: they build the encoding of the
open elements by the rules of OSC, with no cursors and no slots, and are what a
finished packet is compared with. A call that throws changes nothing and is no step.

**OscOverTcp** extends the deframer with the sender and the connection between them.
`wire` is every byte the kernel has taken from the sender, `stream` (the deframer's) a
prefix of it. `SendPiece` is one `::send` that takes any number of the bytes offered,
`Read` one `recv` and the call of `Consume` with what it returned; both cut where they
like. `ConnectionLost` may happen at any moment, `Refuse` is the receiver closing after a
frame over its limit. `::send` may fail before any piece (`SendThrows`), whether or not the
connection survives; the application may then call `Send` again on the same object, or
begin with a new one (`Connect`). Two history variables say what was sent: `sent`, the
packets of whose frames the kernel took a byte, and `torn`, the first of them whose `Send`
failed. Up to that frame the listener gets what was sent, and nothing else until another
`Send` writes behind it (`DeliveredInOrder`); what happens then is in 6. One connection is followed at a time:
that sessions do not mix is `TcpListeningReceiveSocket`'s subject.

**OscReceivedElements** has no state. It translates the validation in `TryInit` of
messages and bundles, `FindStr4End` in both versions, iterators, accessors, argument
streams, `ComputeArrayItemCount` and `TryValidatePacket` to operators on the bytes of a
packet. A pointer is an offset; a function that returns an error string is TRUE where it
returns none. `Advance` computes places exactly as the code does, without a look at the
end of the message, so that it is a matter of checking that it stays inside. `StreamTags` are the twelve types
an argument stream has an `operator>>` for, with the tags each takes; no type takes Nil,
Infinitum or the boundary of an array, so that a stream gets no further than those.

**OscPacketListener** takes packets apart one after the other. The calls of
`ProcessBundle` in progress are a stack of the elements each has still to visit, and an
exception is unwound one call at a time (`UnwindBundle`), through the guard that restores
the depth. `handled` is a history variable. The listener's limits and functions change
between packets only.

**OscRoundTrip** extends the builder and gives what it left in the buffer, with its
symbols replaced by bytes, to the operators of `OscReceivedElements`. `put` records what
was put in as a tree; an array's recorded value is the number of its items as
`ComputeArrayItemCount` counts them, those of an inner array not among them; its comment
counts otherwise (`NestedArrayIsOneItem`, see 6).

**UdpSocket** keeps the object's five fields beside what Linux holds for the socket: its
peer, its port, whether the port was asked for by its number, its options, a pending
error. `LocalEndpointFor` is two steps, because packets and route changes fall between
them. `connect()` fails for an endpoint without a route and for a broadcast address
without `SO_BROADCAST`. That a failing `connect()` keeps the former peer, and that
un-connecting releases a port that was not asked for, is how Linux behaves; other
systems may differ.

**Win32SocketReceiveMultiplexer** is laid out like its POSIX sibling. `signalled` are the
events that are set; a wait resets the first of them in the order of the handles.
`armed` are the sockets for which Winsock will set the event when data comes: not again
before `recvfrom` has been called, which sets it at once if more is queued.

## 4. What the runs show

| run | question | instance |
|---|---|---|
| `OscOverTcp` | does the listener get what `Send` was given (`DeliveredInOrder`), and does it get what every `Send` that returned was given (`EverySendDelivered`)? Is `PacketStream` implemented, does no complete packet wait (`NoPacketHeldBack`), does every call of `Consume` end? | two calls of `Send` on a connection, with three packets: empty, one at the limit of 4 bytes that looks like a header, one over it; writes and reads of every length, `::send` failing anywhere on a live or a dead connection, a connection that breaks anywhere and is made again |
| `DeframerThrow` | with a sink that may throw: types, `BoundedBuffer`, and that `Consume` ends with whatever an exception left in its fields (`ConsumeTerminates`) | four streams: packets up to the limit back to back, empty packets first and last, a size one over the limit, a size large only in its first byte; every chunking; `Reset` anywhere between calls |
| `DeframerSinkThrows` | is "exactly once" true when a listener throws? No, see 6 | the same streams |
| `Mux` | no stop request is slept through (`NoLostWakeup`); `StoppableRun` is implemented, with its liveness; `select` never oversleeps (`WakesForEarliestTimer`), due timers fire (`DueTimersFire`), at most one timer callback follows a `Break` | a calling thread, a pipe of one byte, so that it fills and the caller blocks; two timers, due together at first, of which the faster then overtakes the slower; one busy socket; clock to 2 |
| `MuxTimerAfterBreak` | does no callback follow a `Break`? One may, see 6 | one socket, one timer |
| `Win32Mux` | the same questions of the Windows loop: `NothingSleptThrough` covers stop requests, timers and datagrams; no callback at all follows a `Break` (`NoCallbackAfterBreak`); `StoppableRun` is implemented | two sockets, because a wait resets one event only; two datagrams each, some of them empty; one timer; one calling thread; clock to 1 |
| `UdpSocket` | does `LocalEndpointFor` leave the association as it was (`AssociationRestored`), is `LocalPort()` the kernel's (`LocalPortIsActual`)? | two hosts, a broadcast address, two ports to ask for, of which one is in use, and two the kernel chooses from |
| `UdpLocalEndpoint` | does a bound socket keep the port that `LocalPort()` names? Not always, see 6 | the same |
| `TcpReceive` | descriptors and sessions stay together (`DescriptorsOwned`), packets arrive whole, once, under their peer (`SessionsKeptApart`), a stop lets at most one more read through and is not slept through (`NoLostWakeup`); `StoppableRun` is implemented, with its liveness, and no session starves (`EverySessionServed`) | a session with two packets, one of them in pieces, and then a violation; one that connects and disconnects; both come back for ever; two descriptors; one calling thread; listeners break and throw |
| `RoundTrip` | a ready packet is the encoding of what was put in (`PacketIsEncoding`), `Size()` is valid while building, the two ends never meet (`FitsInBuffer`), and the reader accepts it and reads the same back (`ReadBack`) | 62 bytes, no multiple of four; up to five elements and arguments between two `Clear`s: messages in bundles in bundles, several packets without `Clear`, arguments outside messages, nested and unbalanced arrays, one argument for each way in which the overloads write them |
| `NestedArrayCount` | does `ComputeArrayItemCount` count an inner array as one item? No, see 6 | the same |
| `Dispatch` | messages are dispatched once and in order (`DispatchesInOrder`), recursion is bounded, no argument lies outside its message (`IterationStaysInside`), argument streams follow the type tags (`StreamFollowsTypeTags`), and `TryValidatePacket` agrees with the dispatch | some 7,000 packets: messages put together from words that are right or wrong in each place, with blob sizes 0, 3, 5, the largest, beyond it and negative; bundles with empty, malformed and oversized elements, nested one deeper than the limit; functions that throw |

Every property of a passing run has a mutant in `PROJECT.json`: a plausible bug in one
definition with which TLC finds the property violated.

Bounds. `MaxTime`, `QueueCapacity` and the rule that a timer is attached once bound the
multiplexers; the proofs do not need the first two to be small, and the properties
relate neighbouring events only. Two of everything (sessions, threads, timers, sockets,
descriptors) is what the interleavings here need: one that is acted on and one that
interferes. The TCP scripts are finite, but a session begins again when both sides
have closed, so that runs are endless and descriptors are used many times over. The
deframer's streams are at most some twenty bytes; the payload bytes look like sizes, so
that a decoder that loses its place goes on instead of failing. On the TCP path two
frames are enough for one that is whole before one that is torn, and for one that is sent
behind a torn one; six bytes in flight hold the end of one frame and the beginning of the
next. Five parts in a packet allow a
message behind a bundle in a bundle, and an array in an array.

Fairness. `WF(RunStep)`: the thread in `Run` is scheduled and its listeners come back.
No interruption is assumed: `SelectFails` is in no fairness condition, so that a `select`
with nothing to report may wait for ever, and a `Run` that is to end is woken by the byte
in the pipe alone. `SF(SelectReturns)`: signals do not interrupt every single `select` that
could return; with weak fairness alone an endless series of `EINTR` is a behaviour, and
then nothing is serviced. `WF(WriteBreakPipe)`: a thread that may write its byte does. `WF(ConsumeStep)`:
nothing inside `Consume` waits. `WF(SenderStep)`, `WF(Read)`, `WF(ReceiverStep)`,
`WF(Refuse)`: a thread inside `Send` runs and the receiver reads what has arrived, which
`EverySessionServed` shows of its loop. `WF(link = "lost" /\ SendThrows)`: on a connection
that is gone `::send` fails in the end; on a live one it need never fail. `WF(SetBreakEvent)`: `SetEvent` does not block; on
Windows a wait is not interrupted, so that weak fairness of `RunStep` is enough. No
fairness is asked of clients, of the clock, of new
requests, or of starting `Run`.

## 5. What is proved

`OscOverTcpProofs`, of the deframer alone, from `maxFrameSize \in Nat`, `Inputs \subseteq Seq(Byte)` and
`SinkMayThrow \in BOOLEAN` only:

- `TypeCorrect`, `MemoryBound`: the ranges of the fields and `BoundedBuffer`, with or
  without exceptions;
- `Promptness`: `NoPacketHeldBack`, if the sink does not throw;
- `Refinement`: `ImplementsPacketStream`, if the sink does not throw.

The inductive invariant is `TypeOK /\ Control /\ (~SinkMayThrow => Placed)`. `Control` ties
the fields to the place in the loop and survives an exception. `Placed` says that the
bytes gathered are those of the stream just before `pos`, and that `frameSize` is the
size announced before them; an exception destroys it, which is the first finding below.
The lemmas on slices of a sequence show that neither changes when the stream grows.

`SocketReceiveMultiplexerProofs`, for any sets of sockets, timers and callers, any
capacities and any last time, from `PipeCapacity > 0` and well-formed timers:

- `TypeCorrect`, `WakeupNotLost`, `WakesInTime`, `BreakIsPrompt`: the invariants of the
  `Mux` run;
- `Refinement`: the safety part of `StoppableRun`.

The inductive invariant is `TypeOK /\ Control /\ TimersInOrder /\ NoLostWakeup /\
WakesForEarliestTimer`. `Control` says among other things that a byte `select` reported is
still there when it is read, and that `Run` goes to its normal end only with the flag
set. `TimersInOrder` says where in the loop the timer queue must be sorted: without it
the time computed from its head says nothing of the rest. `NoLostWakeup` is inductive
because callers set the flag before they write, and `Run` reads a byte only between
`select` and the next test of the flag.

`TcpListeningReceiveSocketProofs`, for any sessions with any scripts, any finite set of
descriptors, any callers and any capacity of the pipe:

- `TypeCorrect`, `NoDescriptorLeaks`, `SessionsApart`, `WakeupNotLost`, `StopIsPrompt`:
  the invariants of the `TcpReceive` run;
- `Refinement`: the safety part of `StoppableRun`.

The properties are conjuncts of the inductive invariant, but not inductive alone.
`Control` says, for each place in the loop, which of `ready`, `current` and the chunk are
in use and that they name open connections. `HeldOnce` says that two descriptors never
hold the same session, so that closing one leaves the other's alone. `ChunkIsUnread` says
that the chunk in hand is what `recv` took last of the session in service, which connects
what a deframer gathers now with what it has delivered before.

`UdpSocketProofs`, for any endpoints, ports and groups:

- `TypeCorrect`, `AssociationKept`, `LocalPortKept`.

The strengthening, `PeerRemembered`, says that `connectedAddr_` is the endpoint of the
last successful `Connect`, between the two halves of `LocalEndpointFor` too: without it
nothing says whom the second half restores.

`Win32SocketReceiveMultiplexerProofs`, for any sockets, timers and callers, queues of any
length and an unbounded clock:

- `TypeCorrect`; `NothingLost`: `NothingSleptThrough`; `BreakIsFinal`:
  `NoCallbackAfterBreak`;
- `Refinement`: the safety part of `StoppableRun`.

`Control` and `TimersInOrder` are as on POSIX. `EventsFollowData` is the heart: a socket
with data is about to be read, or its event is set, or it is armed and empty, at every
point of the loop and however few events a wait resets.

`OscOverTcpProofs`, of sender, connection and deframer, if the sink does not throw and every packet has fewer than 2^32 bytes
(`Send` writes its length as a `uint32_t`; the code does not test it):

- `EndToEnd`: `DeliveredInOrder`; `EndToEndPromptness`: `NoPacketHeldBack`;
- `EndToEndRefinement`: `ImplementsPacketStream`, with a connection around the deframer.

These use the deframer's invariant as it stands. To that they add `ConnectionTypeOK`,
`CallOK` (where `Send` is and what it has still to write), that the receiver's stream is a
start of the wire, `DeliveredInOrder` itself, and a `Conversation`: there is a text, what
the calls of `Send` amount to, cut into the frames of the packets sent (`Framed`), the first
torn one written out. While no frame is torn, the kernel and `Send` have the text between
them. After that the kernel has all of it before the torn frame and a piece of that frame,
and something else behind the piece only if `Send` was called again. `Placement`: up to the
torn frame the receiver's cursor is at the cut behind what it has delivered. A frame that
was lost or torn keeps its text, so that half a frame stays one. Text and cuts exist as
sequences, without recursion over the bytes.

`OutboundPacketStreamProofs`, for every capacity, every set of address lengths and every
set of arguments that the overloads make:

- `TypeCorrect`; `NeverOverruns`: `FitsInBuffer`; `EncodesWhatWasPut`:
  `PacketIsEncoding`; `SizeSaysWhatFollows`: `SizeIsValid`.

The invariant says what the bytes of an unfinished packet are. `Layout` describes them as
a stack of open elements, each at a place of its own with a slot before it, where the slot
of an unfinished element holds the place of the enclosing one's slot: the chain that
`EndElement` walks back. `LevelAt` is that for one level; `MessageSoFar` adds that the
message in progress lies behind it. The lemmas `LayoutBegin`, `LayoutExtend` and
`LayoutEnd` show what opening, growing and closing an element does to a layout, for any
bytes. `Size` is exact, so that the space checks of all overloads are enough for
`EndMessage`, which checks nothing. Sizes are natural numbers: that they stay below 2^32
is left to the capacity (see 7).

`OscRoundTripProofs`, for every capacity, every set of address lengths and every set of
arguments that the overloads make:

- `ReadsBackWhatWasPut`: `ReadBack`. `TryValidatePacket` accepts a finished packet exactly
  if the arrays of its messages are balanced, and then the reader's iterators and accessors
  yield the values that were put in, bundle in bundle.

It builds on the invariant of the builder above, which says what the bytes are, and adds
what the reader makes of them. The argument goes from the inside to the outside.
`Reads` relates an argument to a place in a message: the check of `TryInit` passes over it,
`Advance` goes where the check went, and the accessor returns what was put; one lemma for
each kind of type tag shows it. `IsMessage` says where in its bytes a message has its address,
type tags and arguments; `MessageValid` says that the validation of such a message succeeds
exactly if its arrays are balanced, `MessageReadsBack` that it reads back. What the reader's
loops compute is given by their first value and the step to the next (`IterationExists`),
`ComputeArrayItemCount` among them, which counts the set `ItemsOfArray`. `Followed` says of
a byte string that the reader, from a given depth on, accepts it or not and what it reads;
`BundleFollowed` carries that from the elements of a bundle to the bundle.

The inductive invariant `Readable` says, for every level that is open, that its bytes are a
bundle of elements each of which is `Followed` (`Levels`). An element at level i of a packet
of p parts has at most p + 1 - i bundles in it: this bound is what makes the induction over
the nesting depth one over the steps of the builder. The hypotheses of `ReadBack` are
limits of the reader: packets of 2^31 bytes and more are refused, and so are bundles nested
deeper than `MAX_BUNDLE_NESTING_DEPTH`, which takes more than that many parts.

`OscPacketListenerProofs`, for any packets, any limits on nesting, any addresses and
functions:

- `TypeCorrect`; `RecursionIsBounded`: `BoundedRecursion`; `MessagesAreDispatchedInOrder`:
  `DispatchesInOrder`; `AcceptedPacketsDoNotThrow`: `ValidatedPacketsDoNotThrow`;
- `ReadingStaysInside`: `IterationStaysInside`; `StreamsFollowTypeTags`:
  `StreamFollowsTypeTags`.

`DispatchesInOrder` speaks of what was dispatched; the invariant has to say what is still
to come. `NothingSkipped`: what was dispatched, followed by the message in hand and by
what remains on the stack (`Remaining`, innermost bundle first), is what the packet
holds. `DepthIsStackHeight` makes the depth that `ProcessBundle` compares the number of its
calls in progress, which the guard has to keep through exceptions. `ElementsAccepted` says that
on the stack of a packet that was accepted every element is accepted in turn, with
the depth that is left to it. What the recursive functions `Rounds`, `Checks`, `Contents` and
the one in `TryValidatePacket` compute follows from `IterationExists`: a function of the
numbers is given by its first value and the step to the next.

The two theorems about reading are about every message whose validation succeeded, of any
length and with any bytes. `ArgumentPasses` compares, for each kind of type tag, what
`TryInit` checked (`ArgumentEnd`) with where `Advance` goes and what an accessor reads:
both end on the same four-byte boundary inside the message. `ChecksPass` says
that an error found by the loop of `TryInit` is never lost, so that every round succeeded
when the last one did; `IteratorsAre` that the iterator at the k-th argument is therefore
where the loop was after k rounds. Both rest on boundaries: `FindStr4End` looks at the
last byte of each word only, which is enough because every argument begins on a boundary
and the size of a message is a multiple of four.

Assumptions on constants are the named ones of the modules; TLC evaluates them in every
run.

Only model-checked: every liveness property (`ConsumeTerminates`, `DueTimersFire`,
`EverySessionServed`, `EverySendDelivered`, the liveness part of `StoppableRun`), because
the prover has no rules for fairness and `ENABLED`.

## 6. Disagreements between code and documentation

- `DeframerSinkThrows`. `OscStreamFraming.h` promises that each complete packet is emitted
  exactly once. When the sink throws, `haveHeader_` and `buffer_` still describe the packet
  just delivered and the place in the chunk is lost: the next `Consume` delivers that
  packet again, or takes the header of the next frame for payload. The TCP receiver
  keeps the connection when a listener's exception leaves `Run`, and so runs into it.
- `MuxTimerAfterBreak`. `AbstractUdpSocket.h` says that `Break()` in a listener makes `Run`
  exit "once the listener returns". After a packet listener's `Break` the POSIX code
  leaves the socket loop, but still calls a timer that is due. It is never more than
  one (`AtMostOneTimerAfterBreak`, proved).
- `UdpLocalEndpoint`. `Bind` reads the port back so that `LocalPort()` names one that
  datagrams can be sent to. When the socket was bound to port 0 and is not connected,
  `LocalEndpointFor` un-connects it at the end, and Linux gives up the port it had
  chosen itself: nothing is received any more, and `LocalPort()` reports the old port. With a
  port asked for by its number, or a connected socket, this does not happen
  (`LocalPortIsActual`).
- `NestedArrayCount`. The comment on `ComputeArrayItemCount` says that nested arrays count
  as one item; the code counts them as none. `ReadBack` is about the count of the code.
- Not a run: `TcpSocket.h` 84 says that `Send` sends one complete packet and blocks until it
  is written, and `docs/OSC_OVER_TCP.md` that TCP is for reliable, ordered delivery. `SendAll`
  throws on any error but `EINTR`, also with the connection up (no memory, a time limit
  set on `Socket()`), and does not tell how much was written. The next `Send` writes a
  header behind half a frame, and the receiver delivers a packet that nobody sent: with
  "every delivered packet is among those sent" as an invariant of the `OscOverTcp` run TLC
  shows it in two calls of `Send`. The documents do not say that a socket must be given
  up after an exception. What holds is `DeliveredInOrder`: what came before is right, and
  nothing wrong is delivered until `Send` is called again.
- Not a run: `docs/API.md` 80-82 says that an over-read of an argument stream throws
  `ExcessArgumentException`. The `operator>>`s throw `MissingArgumentException` at the end of
  the arguments, which is what `StreamFollowsTypeTags` asserts; the other one is thrown by
  a `MessageTerminator` that comes before the end.

## 7. Not modelled

Formatting, logging and exception texts; value types and name resolution, which have no
state; sizes near 2^32, where `RoundUp4` and the sums in the space checks wrap, and the header
of a frame holds the length of its packet cut to 32 bits (`TcpSocket.h` 87); datagrams
longer than the receive buffer; `FD_SETSIZE` and the 64 handles of a Windows wait; a
socket that `select` reports readable and that then blocks; the search in
`ServiceConnection` failing, which cannot happen because only that connection's own
service removes it; two threads that send on one TCP socket, which the code leaves to
the caller; the local address of a UDP socket. In the builder, a char array longer than
the string in it, and strings with a null in them (`string_view` allows it, and a reader
then sees the string end there). `ValidatedPacketsDoNotThrow` is about packets that
`TryValidatePacket` accepts, with the listener's limit on nesting: nothing is said of those it
refuses, nor of two different limits. Of the Windows sockets: `UdpSocketImplementation`, which differs from
the POSIX one in how it un-connects, and the TCP sockets, whose receiver is the POSIX
loop with a UDP socket connected to itself in place of the pipe and a refusal of
connections at `FD_SETSIZE`. The remaining components are listed in `PROJECT.json` with
their status.
