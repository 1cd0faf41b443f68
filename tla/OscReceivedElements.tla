------------------------ MODULE OscReceivedElements ------------------------
(***************************************************************************)
(* Reading packets (osctap/osc/OscReceivedElements.h): the validation that *)
(* the constructors of ReceivedMessage and ReceivedBundle perform, and the *)
(* iterators and streams that then read without looking again.             *)
(*                                                                         *)
(* A packet, a bundle element or a message is the sequence m of its bytes, *)
(* a pointer into it an offset, so that its end is Len(m).  An operator    *)
(* that stands for a function returning an error string is TRUE where the  *)
(* code returns nullptr; the wording of the errors is left out.            *)
(***************************************************************************)
EXTENDS OscStreamFraming, FiniteSetsExt, SequencesExt

NULL == -1   \* the null pointer

At(m, p) == m[p + 1]

(* The element size, which the code keeps signed.                          *)
ToInt32(m, p) ==
  LET first == At(m, p)
  IN  (((IF first < 128 THEN first ELSE first - 256) * 256 + At(m, p + 1)) * 256
        + At(m, p + 2)) * 256 + At(m, p + 3)

OSC_BUNDLE_ELEMENT_SIZE_MAX == 2147483644

IsValidElementSizeValue(x) == x >= 0 /\ x <= OSC_BUNDLE_ELEMENT_SIZE_MAX

IsMultipleOf4(x) == x % 4 = 0

RoundUp4(x) == ((x + 3) \div 4) * 4

(* TypeTagValues and other characters, in ASCII, by how much argument data *)
(* follows: TFNI, ifcrm, htd, sS, b, [ and ].                              *)
COMMA == 44
HASH == 35
BUNDLE_TAG == << HASH, 98, 117, 110, 100, 108, 101, 0 >>
TRUE_TYPE_TAG == 84
BLOB_TYPE_TAG == 98
ARRAY_BEGIN_TYPE_TAG == 91
ARRAY_END_TYPE_TAG == 93
BoolTypeTags == {TRUE_TYPE_TAG, 70}
ZeroLengthTypeTags == BoolTypeTags \cup {78, 73, ARRAY_BEGIN_TYPE_TAG, ARRAY_END_TYPE_TAG}
FourByteTypeTags == {105, 102, 99, 114, 109}
EightByteTypeTags == {104, 116, 100}
StringTypeTags == {115, 83}
TypeTagValues ==
  ZeroLengthTypeTags \cup FourByteTypeTags \cup EightByteTypeTags
    \cup StringTypeTags \cup {BLOB_TYPE_TAG}

(* The characters from p to the terminating null.                          *)
CString(m, p) ==
  SubSeq(m, p + 1, Min({ q \in p..(Len(m) - 1) : At(m, q) = 0 }))

(* The boundaries after the last byte of a word, counted from p, at which  *)
(* a str4 that starts at p may end: only that last byte is looked at.      *)
Str4Ends(m, p) ==
  IF At(m, p) = 0
  THEN {p + 4}
  ELSE { q \in (p + 4)..Len(m) : (q - p) % 4 = 0 /\ At(m, q - 1) = 0 }

FindStr4End(m, p) ==
  IF p >= Len(m) \/ Str4Ends(m, p) = {} THEN NULL ELSE Min(Str4Ends(m, p))

-----------------------------------------------------------------------------
(* ReceivedMessage: validation.                                            *)

(* ReceivedPacket::ValidateSizeNoThrow, and the start of TryInit.          *)
ValidateSizeNoThrow(size) ==
  IsValidElementSizeValue(size) /\ size # 0 /\ IsMultipleOf4(size)

(* Mutated: eight bytes are only refused when there are none.              *)
ArgumentEndTooFar(m, tag, p) ==
  LET within(q) == IF q <= Len(m) THEN q ELSE NULL
  IN  CASE tag \in FourByteTypeTags -> within(p + 4)
        [] tag \in EightByteTypeTags -> IF p = Len(m) THEN NULL ELSE p + 8
        [] tag \in StringTypeTags -> FindStr4End(m, p)
        [] tag = BLOB_TYPE_TAG ->
             IF p + 4 > Len(m) \/ ~IsValidElementSizeValue(ToInt32(m, p))
             THEN NULL
             ELSE LET blobSize == RoundUp4(ToInt32(m, p))
                  IN  IF blobSize > Len(m) - (p + 4) THEN NULL ELSE p + 4 + blobSize
        [] OTHER -> p

(* Where the data of an argument that starts at p ends, or NULL if it does *)
(* not fit into the message.                                               *)
ArgumentEnd(m, tag, p) ==
  LET within(q) == IF q <= Len(m) THEN q ELSE NULL
  IN  CASE tag \in FourByteTypeTags -> within(p + 4)
        [] tag \in EightByteTypeTags -> within(p + 8)
        [] tag \in StringTypeTags -> FindStr4End(m, p)
        [] tag = BLOB_TYPE_TAG ->
             IF p + 4 > Len(m) \/ ~IsValidElementSizeValue(ToInt32(m, p))
             THEN NULL
             ELSE LET blobSize == RoundUp4(ToInt32(m, p))
                  IN  IF blobSize > Len(m) - (p + 4) THEN NULL ELSE p + 4 + blobSize
        [] OTHER -> p

(* One round of the loop over the type tags.                               *)
CheckArgument(m, check, tag) ==
  IF ~check.ok
  THEN check
  ELSE LET argument == ArgumentEnd(m, tag, check.argument)
           level == check.level + CASE tag = ARRAY_BEGIN_TYPE_TAG -> 1
                                    [] tag = ARRAY_END_TYPE_TAG -> -1
                                    [] OTHER -> 0
       IN  [ ok       |-> tag \in TypeTagValues /\ argument # NULL /\ level >= 0,
             argument |-> argument,
             level    |-> level ]

TypeTagString(m) == FindStr4End(m, 0)

HasTypeTags(m) ==
  TypeTagString(m) # Len(m) /\ At(m, TypeTagString(m) + 1) # 0

TypeTags(m) == CString(m, TypeTagString(m) + 1)

(* The variables of the loop after n rounds.                               *)
Checks(m) ==
  LET check[n \in Nat] ==
        IF n = 0
        THEN [ok |-> TRUE, argument |-> FindStr4End(m, TypeTagString(m)), level |-> 0]
        ELSE CheckArgument(m, check[n - 1], TypeTags(m)[n])
  IN  check

ArgumentsWellFormed(m) ==
  LET check == Checks(m)[Len(TypeTags(m))]
  IN  FindStr4End(m, TypeTagString(m)) # NULL /\ check.ok /\ check.level = 0

(* TryInit of a message, and Validate.                                     *)
ValidateMessage(m) ==
  /\ ValidateSizeNoThrow(Len(m))
  /\ TypeTagString(m) # NULL
  /\ TypeTagString(m) # Len(m) => At(m, TypeTagString(m)) = COMMA
  /\ HasTypeTags(m) => ArgumentsWellFormed(m)

-----------------------------------------------------------------------------
(* ReceivedMessage: reading.  An iterator points to a type tag and to the  *)
(* data of that argument.                                                  *)

AddressPattern(m) == CString(m, 0)

ArgumentsBegin(m) ==
  IF HasTypeTags(m)
  THEN [typeTag |-> TypeTagString(m) + 1, argument |-> FindStr4End(m, TypeTagString(m))]
  ELSE [typeTag |-> NULL, argument |-> NULL]

ArgumentsEnd(m) ==
  [ typeTag  |-> IF HasTypeTags(m) THEN TypeTagString(m) + 1 + Len(TypeTags(m)) ELSE NULL,
    argument |-> NULL ]

ArgumentCount(m) == ArgumentsEnd(m).typeTag - ArgumentsBegin(m).typeTag

(* FindStr4End without an end: the first one there is.                     *)
FindStr4EndUnchecked(m, p) == Min(Str4Ends(m, p) \cup {Len(m) + 4})

(* Mutated: the padding of a blob is not skipped.                          *)
AdvanceUnpadded(m, i) ==
  IF i.typeTag = NULL \/ At(m, i.typeTag) \notin TypeTagValues
  THEN i
  ELSE LET tag == At(m, i.typeTag)
           p == i.argument
       IN  [ typeTag  |-> i.typeTag + 1,
             argument |-> CASE tag \in FourByteTypeTags -> p + 4
                            [] tag \in EightByteTypeTags -> p + 8
                            [] tag \in StringTypeTags -> FindStr4EndUnchecked(m, p)
                            [] tag = BLOB_TYPE_TAG -> p + 4 + ToInt32(m, p)
                            [] OTHER -> p ]

(* Beyond the last tag, or an unknown one, there is no advance.            *)
Advance(m, i) ==
  IF i.typeTag = NULL \/ At(m, i.typeTag) \notin TypeTagValues
  THEN i
  ELSE LET tag == At(m, i.typeTag)
           p == i.argument
       IN  [ typeTag  |-> i.typeTag + 1,
             argument |-> CASE tag \in FourByteTypeTags -> p + 4
                            [] tag \in EightByteTypeTags -> p + 8
                            [] tag \in StringTypeTags -> FindStr4EndUnchecked(m, p)
                            [] tag = BLOB_TYPE_TAG -> p + 4 + RoundUp4(ToInt32(m, p))
                            [] OTHER -> p ]

(* The iterators from ArgumentsBegin() on, one for each argument and one   *)
(* past the last.                                                          *)
Iterators(m) ==
  LET at[n \in 0..ArgumentCount(m)] ==
        IF n = 0 THEN ArgumentsBegin(m) ELSE Advance(m, at[n - 1])
  IN  at

(* One round of the loop that counts the items of an array: those at level *)
(* 0 before the end that brings the level below zero.  An array inside it  *)
(* counts as none, although the comment in the code says one.              *)
CountItem(count, tag) ==
  CASE count.level < 0 -> count
    [] count.level >= 0 /\ tag = ARRAY_BEGIN_TYPE_TAG -> [count EXCEPT !.level = @ + 1]
    [] count.level >= 0 /\ tag = ARRAY_END_TYPE_TAG -> [count EXCEPT !.level = @ - 1]
    [] OTHER -> IF count.level = 0 THEN [count EXCEPT !.items = @ + 1] ELSE count

(* The array begins at i; the tags behind it are counted up to the null.   *)
ComputeArrayItemCount(m, i) ==
  LET rest == ArgumentsEnd(m).typeTag - (i.typeTag + 1)
      count[n \in 0..rest] ==
        IF n = 0 THEN [level |-> 0, items |-> 0]
        ELSE CountItem(count[n - 1], At(m, i.typeTag + n))
  IN  count[rest].items

(* What the accessors return: a Boolean, the bytes of a number, the        *)
(* characters of a string, the contents of a blob, the items of an array.  *)
Value(m, i) ==
  LET tag == At(m, i.typeTag)
      p == i.argument
  IN  CASE tag \in BoolTypeTags -> << tag = TRUE_TYPE_TAG >>
        [] tag \in FourByteTypeTags -> SubSeq(m, p + 1, p + 4)
        [] tag \in EightByteTypeTags -> SubSeq(m, p + 1, p + 8)
        [] tag \in StringTypeTags -> CString(m, p)
        [] tag = BLOB_TYPE_TAG -> SubSeq(m, p + 5, p + 4 + ToInt32(m, p))
        [] tag = ARRAY_BEGIN_TYPE_TAG -> << ComputeArrayItemCount(m, i) >>
        [] OTHER -> << >>

(* The types of variables that an argument stream has an operator>> for,   *)
(* and the tags that the accessor it calls does not throw at.  Nil,        *)
(* Infinitum and the array boundaries cannot be streamed: no type takes    *)
(* their tags, as the comment in the code says.                            *)
StreamTags ==
  [ bool |-> BoolTypeTags, int32_t |-> {105}, float |-> {102}, char |-> {99},
    RgbaColor |-> {114}, MidiMessage |-> {109}, int64_t |-> {104}, TimeTag |-> {116},
    double |-> {100}, Blob |-> {BLOB_TYPE_TAG}, string |-> {115}, Symbol |-> {83} ]

StreamTypes == DOMAIN StreamTags

(* operator>> of an argument stream at s for a variable of the type: the   *)
(* accessor throws after the stream has moved on.                          *)
Extract(m, s, type) ==
  IF s.outcome # "ok"
  THEN s
  ELSE IF s.p.typeTag = ArgumentsEnd(m).typeTag
       THEN [s EXCEPT !.outcome = "MissingArgument"]
       ELSE [ p       |-> Advance(m, s.p),
              outcome |-> IF At(m, s.p.typeTag) \in StreamTags[type]
                          THEN "ok" ELSE "WrongArgumentType" ]

(* The stream and how it fared, after each of the extractions in turn.     *)
Extractions(m, types) ==
  LET s[n \in 0..Len(types)] ==
        IF n = 0
        THEN [p |-> ArgumentsBegin(m), outcome |-> "ok"]
        ELSE Extract(m, s[n - 1], types[n])
  IN  s

(* Mutated: EndMessage is taken for granted.                               *)
ArgumentStreamOpenEnded(m, types) == Extractions(m, types)[Len(types)].outcome

(* A whole message read in this way, EndMessage last.                      *)
ArgumentStream(m, types) ==
  LET s == Extractions(m, types)[Len(types)]
  IN  IF s.outcome = "ok" /\ s.p.typeTag # ArgumentsEnd(m).typeTag
      THEN "ExcessArgument"
      ELSE s.outcome

-----------------------------------------------------------------------------
(* ReceivedBundle.                                                         *)

IsBundle(m) == m # << >> /\ At(m, 0) = HASH

(* One round of the loop over the elements: over the one at p, if there is *)
(* one and it fits.  A size above the largest int is one too large, which  *)
(* is what a negative one stands for.                                      *)
PassElement(m, bundle) ==
  LET p == bundle.p
  IN  IF /\ p + 4 <= Len(m)
         /\ IsMultipleOf4(ToInt32(m, p))
         /\ ToInt32(m, p) \in 0..(Len(m) - (p + 4))
      THEN [p |-> p + 4 + ToInt32(m, p), elementCount_ |-> bundle.elementCount_ + 1]
      ELSE bundle

(* p and elementCount_ after n rounds.  Each passes over four bytes at     *)
(* least, so that there is nothing left to do after the last.              *)
Rounds(m) ==
  LET round[n \in Nat] ==
        IF n = 0 THEN [p |-> 16, elementCount_ |-> 0] ELSE PassElement(m, round[n - 1])
  IN  round

LastRound(m) == Rounds(m)[Len(m) \div 4]

(* TryInit of a bundle: the elements fill it; their contents are not       *)
(* looked at, and an element may be empty.                                 *)
ValidateBundle(m) ==
  /\ IsValidElementSizeValue(Len(m)) /\ Len(m) >= 16 /\ IsMultipleOf4(Len(m))
  /\ SubSeq(m, 1, 8) = BUNDLE_TAG
  /\ LastRound(m).p = Len(m)

(* The contents of the elements, from ElementsBegin() to ElementsEnd().    *)
Elements(m) ==
  [ k \in 1..LastRound(m).elementCount_ |->
      SubSeq(m, Rounds(m)[k - 1].p + 5, Rounds(m)[k].p) ]

(* Mutated: the elements of a bundle are not looked into.                  *)
TryValidatePacketShallow(m, depth) ==
  /\ ValidateSizeNoThrow(Len(m))
  /\ IF IsBundle(m) THEN ValidateBundle(m) /\ depth # 0 ELSE ValidateMessage(m)

(* A message, or a bundle whose elements are well-formed in turn, nested   *)
(* no deeper than depth.                                                   *)
TryValidatePacket(m, depth) ==
  LET valid[d \in Nat] ==
        { b \in Seq(Byte) :
            /\ ValidateSizeNoThrow(Len(b))
            /\ IF IsBundle(b)
               THEN /\ ValidateBundle(b)
                    /\ d # 0
                    /\ \A e \in ToSet(Elements(b)) : e \in valid[d - 1]
               ELSE ValidateMessage(b) }
  IN  m \in valid[depth]

=============================================================================
