------------------------ MODULE OutboundPacketStream ------------------------
(***************************************************************************)
(* OutboundPacketStream of osctap/osc/OscOutboundPacketStream.h: builds    *)
(* messages and nested bundles in place, in a buffer of the caller's.      *)
(*                                                                         *)
(* Pointers are offsets from data_.  A byte is a symbol that says what was *)
(* written there; buffer holds the bytes before argumentCurrent_, so that  *)
(* Len(buffer) is that pointer, and typeTags those from typeTagsCurrent_   *)
(* to end_, which are written downwards.  The bytes between are never read *)
(* before they are written.  A call that throws (the wrong state, or no    *)
(* room) does so before it changes anything: it is no step.                *)
(***************************************************************************)
EXTENDS Integers, Sequences, SequencesExt

CONSTANTS
  Capacity,     \* end_ - data_
  Addresses,    \* lengths of the address patterns
  Arguments     \* the arguments, as given by the overloads below

ASSUME CapacityAssumption == Capacity \in Nat
ASSUME AddressesAssumption == Addresses \subseteq Nat

VARIABLES
  buffer,               \* data_[0 .. argumentCurrent_ - 1]
  typeTags,             \* the type tags, in the order they were written
  messageCursor,        \* messageCursor_
  elementSizePtr,       \* elementSizePtr_
  messageIsInProgress,  \* messageIsInProgress_
  open,                 \* history: the contents of the open bundles, and of
                        \* what surrounds them, outermost first
  message               \* history: the parts of the message in progress

vars == << buffer, typeTags, messageCursor, elementSizePtr, messageIsInProgress,
           open, message >>

NoElement == -1   \* the null pointer
NoMessage == << >>

-----------------------------------------------------------------------------
(* Bytes: the k-th byte of what was written, and the value of a size.      *)

ZeroLengthTypeTags == {"T", "F", "N", "I", "[", "]"}
FourByteTypeTags == {"i", "f", "c", "r", "m"}
EightByteTypeTags == {"h", "t", "d"}
TypeTagValues ==
  ZeroLengthTypeTags \cup FourByteTypeTags \cup EightByteTypeTags \cup {"s", "S", "b"}

What == TypeTagValues \cup {",", "bundle", "address", "zero", "size", "offset"}
Byte == [what : What, value : Nat, index : Nat]

ByteOf(what, n, k) == [what |-> what, value |-> n, index |-> k]
Bytes(what, n) == [k \in 1..n |-> ByteOf(what, 0, k)]
UInt32(what, n) == [k \in 1..4 |-> ByteOf(what, n, k)]
Zeros(n) == [k \in 1..n |-> ByteOf("zero", 0, 0)]
Chars(tags) == [k \in DOMAIN tags |-> ByteOf(tags[k], 0, 0)]
BundleHeader == Bytes("bundle", 16)

RoundUp4(n) == ((n + 3) \div 4) * 4

(* The loops that pad with zeros to a multiple of four.                    *)
Padded(s) == s \o Zeros(RoundUp4(Len(s)) - Len(s))

(* The overloads of operator<< for arguments: the type tag, the room they  *)
(* check for and the bytes they append.                                    *)
Argument(tag, room, bytes) == [tag |-> tag, room |-> room, bytes |-> bytes]

TagOnly(tag)    == Argument(tag, 0, << >>)
FourBytes(tag)  == Argument(tag, 4, Bytes(tag, 4))
EightBytes(tag) == Argument(tag, 8, Bytes(tag, 8))
StringOf(n)     == Argument("s", RoundUp4(n + 1), Padded(Bytes("s", n) \o Zeros(1)))
CharArray(n)    == Argument("s", RoundUp4(n), Padded(Bytes("s", n - 1) \o Zeros(1)))
SymbolOf(n)     == Argument("S", RoundUp4(n + 1), Padded(Bytes("S", n) \o Zeros(1)))
BlobOf(n)       == Argument("b", 4 + RoundUp4(n), UInt32("size", n) \o Padded(Bytes("b", n)))

(* There are no others, and an array of char has at least one element.     *)
IsArgument(a) ==
  \/ \E tag \in ZeroLengthTypeTags : a = TagOnly(tag)
  \/ \E tag \in FourByteTypeTags : a = FourBytes(tag)
  \/ \E tag \in EightByteTypeTags : a = EightBytes(tag)
  \/ \E n \in 0..a.room : a \in {StringOf(n), SymbolOf(n), BlobOf(n)}
  \/ \E n \in 1..a.room : a = CharArray(n)

ASSUME ArgumentsAssumption == \A argument \in Arguments : IsArgument(argument)

(* The parts of a message with some arguments.                             *)
AddressPart(address) == Padded(Bytes("address", address) \o Zeros(1))
Tags(arguments) == [ k \in DOMAIN arguments |-> arguments[k].tag ]
TypeTagPart(arguments) == Padded(Chars(<< "," >> \o Tags(arguments)) \o Zeros(1))
ArgumentPart(arguments) == FlattenSeq([ k \in DOMAIN arguments |-> arguments[k].bytes ])

-----------------------------------------------------------------------------

IsBundleInProgress == elementSizePtr # NoElement
IsReady == ~messageIsInProgress /\ ~IsBundleInProgress

Size == Len(buffer) + IF messageIsInProgress THEN RoundUp4(Len(typeTags) + 2) ELSE 0

SlotSize == IF IsBundleInProgress THEN 4 ELSE 0

CheckForAvailableBundleSpace == Size + SlotSize + 16 <= Capacity

CheckForAvailableMessageSpace(addressPatternSize) ==
  Size + SlotSize + RoundUp4(addressPatternSize + 1) + 4 <= Capacity

(* Mutated: the new type tag is not counted.                               *)
CheckForAvailableArgumentSpaceTwo(argumentLength) ==
  Len(buffer) + argumentLength + RoundUp4(Len(typeTags) + 2) <= Capacity

CheckForAvailableArgumentSpace(argumentLength) ==
  Len(buffer) + argumentLength + RoundUp4(Len(typeTags) + 3) <= Capacity

(* The element starts at messageCursor_; inside another one it starts with *)
(* a size slot, which holds the place of the enclosing one's until         *)
(* EndElement.  What was written after messageCursor_ is overwritten.      *)
BeginElement(content) ==
  /\ elementSizePtr' = IF IsBundleInProgress THEN messageCursor ELSE 0
  /\ buffer' = SubSeq(buffer, 1, messageCursor)
                 \o (IF IsBundleInProgress THEN UInt32("offset", elementSizePtr) ELSE << >>)
                 \o content
  /\ messageCursor' = Len(buffer')

(* The value of a slot, and a buffer with another value in it.             *)
SlotAt(p) == buffer[p + 1].value
WithSlot(bytes, p, n) ==
  [ k \in DOMAIN bytes |->
      IF k \in (p + 1)..(p + 4) THEN UInt32("size", n)[k - p] ELSE bytes[k] ]

(* Mutated: the size of an element counts its slot.                        *)
EndElementCountsSlot(bytes, endPtr) ==
  IF elementSizePtr = 0
  THEN elementSizePtr' = NoElement /\ buffer' = bytes
  ELSE /\ elementSizePtr' = SlotAt(elementSizePtr)
       /\ buffer' = WithSlot(bytes, elementSizePtr, endPtr - elementSizePtr)

EndElement(bytes, endPtr) ==
  IF elementSizePtr = 0
  THEN elementSizePtr' = NoElement /\ buffer' = bytes
  ELSE /\ elementSizePtr' = SlotAt(elementSizePtr)
       /\ buffer' = WithSlot(bytes, elementSizePtr, endPtr - elementSizePtr - 4)

(* History: the innermost of some levels with a finished element added,    *)
(* after its size except at the outermost level.                           *)
WithElement(levels, element) ==
  [ levels EXCEPT ![Len(levels)] =
      @ \o (IF Len(levels) = 1 THEN << >> ELSE UInt32("size", Len(element))) \o element ]

-----------------------------------------------------------------------------

Init ==
  /\ buffer = << >>
  /\ typeTags = << >>
  /\ messageCursor = 0
  /\ elementSizePtr = NoElement
  /\ messageIsInProgress = FALSE
  /\ open = << << >> >>
  /\ message = NoMessage

(* Mutated: messageCursor_ is not reset.                                   *)
ClearKeepsCursor ==
  /\ buffer' = << >>
  /\ typeTags' = << >>
  /\ elementSizePtr' = NoElement
  /\ messageIsInProgress' = FALSE
  /\ open' = << << >> >>
  /\ message' = NoMessage
  /\ UNCHANGED messageCursor

Clear ==
  /\ buffer' = << >>
  /\ typeTags' = << >>
  /\ messageCursor' = 0
  /\ elementSizePtr' = NoElement
  /\ messageIsInProgress' = FALSE
  /\ open' = << << >> >>
  /\ message' = NoMessage

BeginBundle ==
  /\ ~messageIsInProgress
  /\ CheckForAvailableBundleSpace
  /\ BeginElement(BundleHeader)
  /\ open' = Append(open, BundleHeader)
  /\ UNCHANGED << typeTags, messageIsInProgress, message >>

EndBundle ==
  /\ IsBundleInProgress
  /\ ~messageIsInProgress
  /\ EndElement(buffer, messageCursor)
  /\ open' = WithElement(Front(open), Last(open))
  /\ UNCHANGED << typeTags, messageCursor, messageIsInProgress, message >>

(* BeginMessage and BeginMessageN.                                         *)
BeginMessage(addressPatternSize) ==
  /\ ~messageIsInProgress
  /\ CheckForAvailableMessageSpace(addressPatternSize)
  /\ BeginElement(AddressPart(addressPatternSize))
  /\ typeTags' = << >>
  /\ messageIsInProgress' = TRUE
  /\ message' = [address |-> addressPatternSize, arguments |-> << >>]
  /\ UNCHANGED open

(* Mutated: the type tag slot does not count the terminating null.         *)
EndMessageUnterminated ==
  /\ messageIsInProgress
  /\ LET typeTagsCount == Len(typeTags)
         typeTagSlotSize == RoundUp4(typeTagsCount + 1)
         arguments == SubSeq(buffer, messageCursor + 1, Len(buffer))
         bytes == SubSeq(buffer, 1, messageCursor)
                    \o Chars(<< "," >> \o typeTags)
                    \o Zeros(typeTagSlotSize - (typeTagsCount + 1))
                    \o arguments
     IN  /\ messageCursor' = messageCursor + typeTagSlotSize + Len(arguments)
         /\ EndElement(bytes, messageCursor')
  /\ typeTags' = << >>
  /\ messageIsInProgress' = FALSE
  /\ message' = NoMessage
  /\ UNCHANGED open

(* The arguments move up to make room for the type tag string, which is    *)
(* copied there from the end of the buffer.                                *)
EndMessage ==
  /\ messageIsInProgress
  /\ LET typeTagsCount == Len(typeTags)
         typeTagSlotSize == IF typeTagsCount = 0 THEN 4 ELSE RoundUp4(typeTagsCount + 2)
         arguments == SubSeq(buffer, messageCursor + 1, Len(buffer))
         bytes == SubSeq(buffer, 1, messageCursor)
                    \o Chars(<< "," >> \o typeTags)
                    \o Zeros(typeTagSlotSize - (typeTagsCount + 1))
                    \o arguments
     IN  /\ messageCursor' = messageCursor + typeTagSlotSize + Len(arguments)
         /\ EndElement(bytes, messageCursor')
  /\ typeTags' = << >>
  /\ messageIsInProgress' = FALSE
  /\ open' = WithElement(open, AddressPart(message.address)
                                 \o TypeTagPart(message.arguments)
                                 \o ArgumentPart(message.arguments))
  /\ message' = NoMessage

(* An argument; the code does not ask for a message in progress.           *)
Put(argument) ==
  /\ CheckForAvailableArgumentSpace(argument.room)
  /\ typeTags' = Append(typeTags, argument.tag)
  /\ buffer' = buffer \o argument.bytes
  /\ message' = IF messageIsInProgress
                THEN [message EXCEPT !.arguments = Append(@, argument)]
                ELSE message
  /\ UNCHANGED << messageCursor, elementSizePtr, messageIsInProgress, open >>

Next ==
  \/ Clear \/ BeginBundle \/ EndBundle
  \/ (\E n \in Addresses : BeginMessage(n)) \/ EndMessage
  \/ \E argument \in Arguments : Put(argument)

Spec == Init /\ [][Next]_vars

-----------------------------------------------------------------------------

(* Arguments put outside a message: they count in Size until the next      *)
(* element overwrites them.                                                *)
Stray == ~messageIsInProgress /\ Len(buffer) > messageCursor

TypeOK ==
  /\ buffer \in Seq(Byte)
  /\ typeTags \in Seq(TypeTagValues)
  /\ messageCursor \in 0..Len(buffer)
  /\ elementSizePtr \in {NoElement} \cup 0..messageCursor
  /\ messageIsInProgress \in BOOLEAN
  /\ Len(open) >= 1

(* Arguments grow upwards and type tags downwards in the same buffer, and  *)
(* EndMessage, which checks nothing, still has room to insert the tags: at *)
(* any time the packet so far fits, and the two ends have not met.         *)
FitsInBuffer ==
  /\ Size <= Capacity
  /\ messageIsInProgress => Len(buffer) <= Capacity - Len(typeTags)

(* IsReady tells whether every bundle and message has been closed, and the *)
(* packet is then the encoding of what was put into it: every size slot    *)
(* holds the size of its element, however deep and in whatever order       *)
(* bundles and messages were opened and closed; every message has its      *)
(* address, its tags in order and its arguments.  Arguments put outside a  *)
(* message have left no trace once an element follows them.                *)
PacketIsEncoding ==
  /\ IsReady <=> Len(open) = 1 /\ message = NoMessage
  /\ IsReady /\ ~Stray => buffer = open[1]

(* "size() is valid even while building a message": what Size says before  *)
(* EndMessage or EndBundle is the size of what they leave, and a message   *)
(* or a bundle that was accepted can always be closed.                     *)
SizeIsValid == [][EndMessage \/ EndBundle => Size' = Size]_vars

=============================================================================
