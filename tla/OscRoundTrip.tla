---------------------------- MODULE OscRoundTrip ----------------------------
(***************************************************************************)
(* The packet builder and the reader together: what OutboundPacketStream   *)
(* left in the buffer, as bytes, is given to TryValidatePacket and read    *)
(* back with the iterators of OscReceivedElements.                         *)
(***************************************************************************)
EXTENDS OutboundPacketStream

CONSTANT MaxParts   \* bound: elements begun and arguments put between two Clears

ASSUME MaxPartsAssumption == MaxParts \in Nat

VARIABLES
  parts,      \* elements begun and arguments put since the last Clear
  put,        \* history: the elements finished at each open level
  balanced    \* history: no message has an array left open, or none to close

roundTripVars == << vars, parts, put, balanced >>

Reader == INSTANCE OscReceivedElements

-----------------------------------------------------------------------------

(* The type tags of the builder in the reader's numbers.                   *)
Ascii ==
  [ T |-> 84, F |-> 70, N |-> 78, I |-> 73, i |-> 105, f |-> 102, c |-> 99, r |-> 114,
    m |-> 109, h |-> 104, t |-> 116, d |-> 100, s |-> 115, S |-> 83, b |-> 98 ]

TagValue(tag) ==
  CASE tag = "[" -> Reader!ARRAY_BEGIN_TYPE_TAG
    [] tag = "]" -> Reader!ARRAY_END_TYPE_TAG
    [] tag = "," -> Reader!COMMA
    [] OTHER -> Ascii[tag]

(* The value of a byte: characters are not null, other data is arbitrary   *)
(* and here chosen to look like a negative size.                           *)
ByteValue(b) ==
  CASE b.what = "zero" -> 0
    [] b.what = "size" -> Reader!FromUInt32(b.value)[b.index]
    [] b.what = "bundle" -> IF b.index <= 8 THEN Reader!BUNDLE_TAG[b.index] ELSE 255
    [] b.what = "address" -> 47
    [] OTHER -> IF b.index = 0 THEN TagValue(b.what) ELSE 255 - (b.index % 128)

Values(bytes) == [ k \in DOMAIN bytes |-> ByteValue(bytes[k]) ]

Data == Values(buffer)

(* An element as the reader sees it.                                       *)
Message(address, arguments) ==
  [address |-> address, arguments |-> arguments, elements |-> << >>]
Bundle(elements) == [address |-> << >>, arguments |-> << >>, elements |-> elements]

ArrayLevel(arguments, n) ==
  LET at(tag) == { k \in 1..n : arguments[k].tag = tag }
  IN  Cardinality(at("[")) - Cardinality(at("]"))

ArraysBalanced(arguments) ==
  LET n == Len(arguments)
  IN  ArrayLevel(arguments, n) = 0 /\ \A k \in 1..n : ArrayLevel(arguments, k) >= 0

(* The arguments in the array that begins at k, without those in arrays    *)
(* inside it and these arrays themselves.                                  *)
ItemsOfArray(arguments, k) ==
  { j \in k + 1..Len(arguments) :
      /\ arguments[j].tag \notin {"[", "]"}
      /\ ArrayLevel(arguments, j) = ArrayLevel(arguments, k)
      /\ \A l \in k..j : ArrayLevel(arguments, l) >= ArrayLevel(arguments, k) }

(* What was put: the value of an argument is its bytes without the size    *)
(* of a blob and the padding, that of an array the number of its items.    *)
ValuePut(arguments, k) ==
  LET a == arguments[k]
      content == { j \in DOMAIN a.bytes : a.bytes[j].what = a.tag }
  IN  CASE a.tag \in {"T", "F"} -> << a.tag = "T" >>
        [] a.tag = "[" -> << Cardinality(ItemsOfArray(arguments, k)) >>
        [] OTHER -> [ j \in 1..Cardinality(content) |->
                        ByteValue(a.bytes[Min(content) + j - 1]) ]

MessagePut(address, arguments) ==
  Message([ k \in 1..address |-> 47 ],
          [ k \in DOMAIN arguments |->
              [tag |-> TagValue(arguments[k].tag), value |-> ValuePut(arguments, k)] ])

(* What is read, by iterating over messages and over bundles in bundles.   *)
ReadMessage(m) ==
  LET at == Reader!Iterators(m)
  IN  Message(Reader!AddressPattern(m),
              [ n \in 1..Reader!ArgumentCount(m) |->
                  [ tag   |-> Reader!At(m, at[n - 1].typeTag),
                    value |-> Reader!Value(m, at[n - 1]) ] ])

Read(packet, depth) ==
  LET read[d \in Nat] ==
        [ m \in Seq(Reader!Byte) |->
            IF ~Reader!IsBundle(m) THEN ReadMessage(m)
            ELSE IF d = 0 THEN Bundle(<< >>)
            ELSE Bundle([ k \in DOMAIN Reader!Elements(m) |->
                            read[d - 1][Reader!Elements(m)[k]] ]) ]
  IN  read[depth][packet]

(* The default of TryValidatePacket.                                       *)
MAX_BUNDLE_NESTING_DEPTH == 64

-----------------------------------------------------------------------------

RoundTripInit ==
  /\ Init
  /\ parts = 0
  /\ put = << << >> >>
  /\ balanced = TRUE

Finished(levels, element) == [ levels EXCEPT ![Len(levels)] = Append(@, element) ]

ClearAll ==
  /\ Clear
  /\ parts' = 0 /\ put' = << << >> >> /\ balanced' = TRUE

BeginElementWithin(begin, levels) ==
  /\ parts < MaxParts
  /\ begin
  /\ parts' = parts + 1
  /\ put' = levels
  /\ UNCHANGED balanced

FinishBundle ==
  /\ EndBundle
  /\ put' = Finished(Front(put), Bundle(Last(put)))
  /\ UNCHANGED << parts, balanced >>

FinishMessage ==
  /\ EndMessage
  /\ put' = Finished(put, MessagePut(message.address, message.arguments))
  /\ balanced' = (balanced /\ ArraysBalanced(message.arguments))
  /\ UNCHANGED parts

PutWithin(argument) ==
  /\ parts < MaxParts
  /\ Put(argument)
  /\ parts' = parts + 1
  /\ UNCHANGED << put, balanced >>

RoundTripNext ==
  \/ ClearAll
  \/ BeginElementWithin(BeginBundle, Append(put, << >>))
  \/ \E n \in Addresses : BeginElementWithin(BeginMessage(n), put)
  \/ FinishBundle \/ FinishMessage
  \/ \E argument \in Arguments : PutWithin(argument)

RoundTripSpec == RoundTripInit /\ [][RoundTripNext]_roundTripVars

(* Whatever was put into a packet is what a receiver reads: a finished     *)
(* packet of one element passes TryValidatePacket, and iterating over it   *)
(* yields the same bundles, addresses, type tags and values in the same    *)
(* order.  Only arrays are the caller's business: a bracket too many or    *)
(* too few makes the packet one that the reader refuses, and the items of  *)
(* an array are counted as ComputeArrayItemCount does it, without the      *)
(* arrays inside it (NestedArrayIsOneItem).  A packet is too long for the  *)
(* reader from 2^31 bytes on, and too deep only if more bundles were begun *)
(* in it than the reader follows.                                          *)
ReadBack ==
  /\ IsReady /\ ~Stray /\ Len(put[1]) = 1
  /\ Len(buffer) <= Reader!OSC_BUNDLE_ELEMENT_SIZE_MAX
  /\ parts <= MAX_BUNDLE_NESTING_DEPTH
  => /\ Reader!TryValidatePacket(Data, MAX_BUNDLE_NESTING_DEPTH) <=> balanced
     /\ balanced => Read(Data, MAX_BUNDLE_NESTING_DEPTH) = put[1][1]

(* What stands directly inside the array that begins at the k-th of these  *)
(* type tags: arguments, and arrays, each by the bracket that begins it.   *)
TopLevelItems(tags, k) ==
  LET level(n) == Cardinality({ j \in k..n : tags[j] = Reader!ARRAY_BEGIN_TYPE_TAG })
                    - Cardinality({ j \in k..n : tags[j] = Reader!ARRAY_END_TYPE_TAG })
  IN  { j \in k + 1..Len(tags) :
          /\ tags[j] # Reader!ARRAY_END_TYPE_TAG
          /\ level(j - 1) = 1
          /\ \A l \in k..j : level(l) >= 1 }

(* "Calculate the number of top-level items in the array.  Nested arrays   *)
(* count as one item": of a message that was built and is well-formed.     *)
NestedArrayIsOneItem ==
  /\ IsReady /\ ~Stray /\ balanced
  /\ Len(put[1]) = 1 /\ put[1][1].address # << >>
  => LET tags == Reader!TypeTags(Data)
     IN  \A k \in DOMAIN tags :
           tags[k] = Reader!ARRAY_BEGIN_TYPE_TAG
           => Reader!ComputeArrayItemCount(Data, Reader!Iterators(Data)[k - 1])
                = Cardinality(TopLevelItems(tags, k))

=============================================================================
