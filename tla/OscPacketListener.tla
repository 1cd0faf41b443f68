------------------------- MODULE OscPacketListener -------------------------
(***************************************************************************)
(* OscPacketListener and MessageMappingOscPacketListener: a packet from    *)
(* the network is taken apart, bundle by bundle, and each message in it is *)
(* handed to the function registered for its address.                      *)
(*                                                                         *)
(* The calls of ProcessBundle in progress are a stack of the elements each *)
(* still has to visit.  A function of the application, like the            *)
(* constructors of messages and bundles, may throw; what it throws leaves  *)
(* every ProcessBundle on the stack, and ProcessPacket.                    *)
(***************************************************************************)
EXTENDS OscReceivedElements

CONSTANTS
  Packets,          \* what the network may deliver
  NestingDepths,    \* values the application sets the limit to
  DEFAULT_MAX_BUNDLE_NESTING_DEPTH,
  AddressPatterns,  \* addresses with functions, without the terminating null
  Functions         \* the application's message functions

ASSUME PacketsAssumption == Packets \subseteq Seq(Byte)
ASSUME DepthsAssumption == NestingDepths \cup {DEFAULT_MAX_BUNDLE_NESTING_DEPTH} \subseteq Nat

VARIABLES
  bundleNestingDepth_,
  maxBundleNestingDepth_,
  functions_,   \* the map from addresses to functions
  bundles,      \* the elements left to visit, innermost bundle last
  message,      \* the message ProcessMessage was called with
  pc,           \* "idle", "bundle", "message", "function" or "unwind"
  data,         \* the packet being processed
  handled       \* history: the messages of data that were dispatched

limits == << bundleNestingDepth_, maxBundleNestingDepth_ >>
vars == << limits, functions_, bundles, message, pc, data, handled >>

NoFunction == "none"
Nothing == << >>

Init ==
  /\ bundleNestingDepth_ = 0
  /\ maxBundleNestingDepth_ = DEFAULT_MAX_BUNDLE_NESTING_DEPTH
  /\ functions_ = [a \in AddressPatterns |-> NoFunction]
  /\ bundles = << >> /\ message = Nothing /\ data = Nothing
  /\ pc = "idle"
  /\ handled = << >>

-----------------------------------------------------------------------------
(* The application sets the listener up between two packets.               *)

SetMaxBundleNestingDepth(depth) ==
  /\ pc = "idle"
  /\ maxBundleNestingDepth_' = depth
  /\ UNCHANGED << bundleNestingDepth_, functions_, bundles, message, pc, data, handled >>

(* Inserting does not replace: the first function for an address stays.    *)
RegisterMessageFunction(address, f) ==
  /\ pc = "idle"
  /\ functions_' = [functions_ EXCEPT ![address] = IF @ = NoFunction THEN f ELSE @]
  /\ UNCHANGED << limits, bundles, message, pc, data, handled >>

-----------------------------------------------------------------------------

(* Mutated: the depth is compared one too late.                            *)
TooDeepLate == bundleNestingDepth_ > maxBundleNestingDepth_

TooDeep == bundleNestingDepth_ >= maxBundleNestingDepth_

(* The constructor of ReceivedMessage or ReceivedBundle throws.            *)
ConstructorThrows(rest) ==
  /\ pc' = "unwind"
  /\ bundles' = rest
  /\ UNCHANGED << bundleNestingDepth_, message >>

VisitMessage(element, rest) ==
  /\ pc' = "message"
  /\ message' = element
  /\ bundles' = rest
  /\ UNCHANGED bundleNestingDepth_

(* Mutated: the early return restores a depth it did not raise.            *)
IgnoreBundleRestores(rest) ==
  /\ pc' = "bundle"
  /\ bundles' = rest
  /\ bundleNestingDepth_' = bundleNestingDepth_ - 1
  /\ UNCHANGED message

(* ProcessBundle returns at once from a bundle nested too deep.            *)
IgnoreBundle(rest) ==
  /\ pc' = "bundle"
  /\ bundles' = rest
  /\ UNCHANGED << bundleNestingDepth_, message >>

EnterBundle(element, rest) ==
  /\ pc' = "bundle"
  /\ bundles' = Append(rest, Elements(element))
  /\ bundleNestingDepth_' = bundleNestingDepth_ + 1
  /\ UNCHANGED message

(* ProcessBundle or ProcessMessage is called with what is constructed from *)
(* the packet or the element; rest is the stack of the callers.            *)
Visit(element, rest) ==
  IF IsBundle(element)
  THEN \/ ValidateBundle(element) /\ TooDeep /\ IgnoreBundle(rest)
       \/ ValidateBundle(element) /\ ~TooDeep /\ EnterBundle(element, rest)
       \/ ~ValidateBundle(element) /\ ConstructorThrows(rest)
  ELSE \/ ValidateMessage(element) /\ VisitMessage(element, rest)
       \/ ~ValidateMessage(element) /\ ConstructorThrows(rest)

(* The packet's size is checked first.                                     *)
ProcessPacket(packet) ==
  /\ pc = "idle"
  /\ data' = packet
  /\ IF ValidateSizeNoThrow(Len(packet))
     THEN Visit(packet, bundles)
     ELSE ConstructorThrows(bundles)
  /\ UNCHANGED << maxBundleNestingDepth_, functions_, handled >>

NextElement ==
  /\ pc = "bundle"
  /\ bundles # << >> /\ Last(bundles) # << >>
  /\ Visit(Head(Last(bundles)), [bundles EXCEPT ![Len(bundles)] = Tail(@)])
  /\ UNCHANGED << maxBundleNestingDepth_, functions_, data, handled >>

(* ProcessBundle returns; the guard restores the depth.                    *)
BundleReturns ==
  /\ pc = "bundle"
  /\ bundles # << >> /\ Last(bundles) = << >>
  /\ bundles' = Front(bundles)
  /\ bundleNestingDepth_' = bundleNestingDepth_ - 1
  /\ UNCHANGED << maxBundleNestingDepth_, functions_, message, pc, data, handled >>

FunctionFor(m) ==
  LET address == AddressPattern(m)
  IN  IF address \in AddressPatterns THEN functions_[address] ELSE NoFunction

(* The function for the message's address is called, if there is one.      *)
ProcessMessage ==
  /\ pc = "message"
  /\ LET f == FunctionFor(message)
     IN  /\ pc' = IF f = NoFunction THEN "bundle" ELSE "function"
         /\ handled' = Append(handled, << message, f >>)
  /\ message' = Nothing
  /\ UNCHANGED << limits, functions_, bundles, data >>

FunctionReturns ==
  /\ pc = "function"
  /\ pc' = "bundle"
  /\ UNCHANGED << limits, functions_, bundles, message, data, handled >>

FunctionThrows ==
  /\ pc = "function"
  /\ pc' = "unwind"
  /\ UNCHANGED << limits, functions_, bundles, message, data, handled >>

(* Mutated: the depth is only restored by a normal return.                 *)
UnwindBundleUnguarded ==
  /\ pc = "unwind"
  /\ bundles # << >>
  /\ bundles' = Front(bundles)
  /\ UNCHANGED << limits, functions_, message, pc, data, handled >>

(* An exception leaves one ProcessBundle, through the guard.               *)
UnwindBundle ==
  /\ pc = "unwind"
  /\ bundles # << >>
  /\ bundles' = Front(bundles)
  /\ bundleNestingDepth_' = bundleNestingDepth_ - 1
  /\ UNCHANGED << maxBundleNestingDepth_, functions_, message, pc, data, handled >>

(* ProcessPacket is left, by return or by exception.                       *)
Left == pc \in {"bundle", "unwind"} /\ bundles = << >>

PacketDone ==
  /\ Left
  /\ pc' = "idle"
  /\ data' = Nothing
  /\ handled' = << >>
  /\ UNCHANGED << limits, functions_, bundles, message >>

Next ==
  \/ \E depth \in NestingDepths : SetMaxBundleNestingDepth(depth)
  \/ \E address \in AddressPatterns, f \in Functions : RegisterMessageFunction(address, f)
  \/ \E packet \in Packets : ProcessPacket(packet)
  \/ NextElement \/ BundleReturns
  \/ ProcessMessage \/ FunctionReturns \/ FunctionThrows
  \/ UnwindBundle \/ PacketDone

Spec == Init /\ [][Next]_vars

-----------------------------------------------------------------------------

TypeOK ==
  /\ bundleNestingDepth_ \in Nat /\ maxBundleNestingDepth_ \in Nat
  /\ functions_ \in [AddressPatterns -> Functions \cup {NoFunction}]
  /\ bundles \in Seq(Seq(Seq(Byte)))
  /\ message \in Seq(Byte) /\ data \in Seq(Byte)
  /\ pc \in {"idle", "bundle", "message", "function", "unwind"}
  /\ handled \in Seq(Seq(Byte) \X (Functions \cup {NoFunction}))

(* "Bundles nested deeper than this are ignored, to bound stack usage":    *)
(* no packet makes ProcessBundle recurse deeper than the limit, whatever   *)
(* packets and exceptions came before.                                     *)
BoundedRecursion == Len(bundles) <= maxBundleNestingDepth_

(* What a packet holds, read from front to back: the messages of bundles   *)
(* nested at most depth deep, and malformed elements as they are.          *)
Contents(packet, depth) ==
  LET of[d \in Nat] ==
        [ m \in Seq(Byte) |->
            IF ~IsBundle(m) \/ ~ValidateBundle(m) THEN << m >>
            ELSE IF d = 0 THEN << >>
            ELSE FlattenSeq([ k \in DOMAIN Elements(m) |-> of[d - 1][Elements(m)[k]] ]) ]
  IN  of[depth][packet]

Dispatched == [ k \in DOMAIN handled |-> handled[k][1] ]

(* Every message is dispatched once and in the packet's order, to the      *)
(* function of its address.  When an element is malformed or a function    *)
(* throws, that is a prefix; when ProcessPacket returns, it is all of      *)
(* them, although packets before this one were left by exceptions.         *)
DispatchesInOrder ==
  data # Nothing =>
    LET contents == Contents(data, maxBundleNestingDepth_)
    IN  /\ IsPrefix(Dispatched, contents)
        /\ Left /\ pc = "bundle" => Dispatched = contents
        /\ \A k \in DOMAIN handled : handled[k][2] = FunctionFor(handled[k][1])

(* "Safe to construct and read in full without any OSCTAP_THROW firing":   *)
(* while a packet that TryValidatePacket accepts is taken apart, nothing   *)
(* but the application's functions throws.  The validation is written      *)
(* apart from the dispatch it stands for, and has to agree with it on      *)
(* empty elements, on nesting and on what makes a message.                 *)
ValidatedPacketsDoNotThrow ==
  [][ pc' = "unwind" /\ TryValidatePacket(data', maxBundleNestingDepth_)
        => pc \in {"function", "unwind"} ]_vars

(* What an accessor reads at an iterator lies inside the message.          *)
LiesWithin(m, i) ==
  LET tag == At(m, i.typeTag)
      p == i.argument
  IN  CASE tag \in FourByteTypeTags -> p + 4 <= Len(m)
        [] tag \in EightByteTypeTags -> p + 8 <= Len(m)
        [] tag \in StringTypeTags -> \E q \in p..(Len(m) - 1) : At(m, q) = 0
        [] tag = BLOB_TYPE_TAG -> p + 4 <= Len(m) /\ ToInt32(m, p) \in 0..(Len(m) - (p + 4))
        [] OTHER -> TRUE

(* A message that reaches ProcessMessage can be iterated over with the     *)
(* unchecked accessors: the iterator passes every argument and ends at     *)
(* ArgumentsEnd(), and no argument reaches beyond the message, although    *)
(* Advance computes each place anew and checks nothing.                    *)
IterationStaysInside ==
  pc = "message" =>
    LET i == Iterators(message)
        n == ArgumentCount(message)
    IN  /\ \A k \in 0..(n - 1) : LiesWithin(message, i[k])
        /\ i[n].typeTag = ArgumentsEnd(message).typeTag

TagOf(m, k) == At(m, ArgumentsBegin(m).typeTag + k - 1)

(* The number of arguments before the first that no type takes: Nil,       *)
(* Infinitum or the boundary of an array.                                  *)
StreamableCount(m) ==
  LET n == ArgumentCount(m)
  IN  Min({ k \in 1..(n + 1) :
              k <= n => \A type \in StreamTypes : TagOf(m, k) \notin StreamTags[type] }) - 1

(* Their types, as the type tags announce them.                            *)
OwnTypes(m) ==
  [ k \in 1..StreamableCount(m) |->
      CHOOSE type \in StreamTypes : TagOf(m, k) \in StreamTags[type] ]

Streamable(m) == StreamableCount(m) = ArgumentCount(m)

(* An argument stream reads a message exactly when it is asked for what    *)
(* the type tags announce: one argument less and EndMessage throws, one    *)
(* more and it runs out, another type and it refuses.  An argument that no *)
(* type takes can neither be passed over nor read, so that the stream gets *)
(* no further than those before it.                                        *)
StreamFollowsTypeTags ==
  pc = "message" =>
    LET m == message
        own == OwnTypes(m)
        whole == Streamable(m)
    IN  /\ ArgumentStream(m, own) = IF whole THEN "ok" ELSE "ExcessArgument"
        /\ \A type \in StreamTypes :
             ArgumentStream(m, Append(own, type))
               = IF whole THEN "MissingArgument" ELSE "WrongArgumentType"
        /\ own # << >> => ArgumentStream(m, Front(own)) = "ExcessArgument"
        /\ \A k \in DOMAIN own, type \in StreamTypes :
             TagOf(m, k) \notin StreamTags[type] =>
               ArgumentStream(m, [own EXCEPT ![k] = type]) = "WrongArgumentType"

=============================================================================
