------------------------ MODULE MCOscPacketListener ------------------------
(***************************************************************************)
(* Packets for TLC: messages put together from words that are right or     *)
(* wrong in every position, and bundles of well-formed, malformed, empty   *)
(* and oversized elements, nested beyond the limit.                        *)
(***************************************************************************)
EXTENDS OscPacketListener

(* "/a", "/abc" without an end, and an integer address.                    *)
AddressWords == { << 47, 97, 0, 0 >>, << 47, 97, 98, 99 >>, << 0, 0, 0, 1 >> }

(* ",", ",i", ",bs", ",sT", ",dN", ",ib", "i", ",?", ",[]", ",[i]", ",[b],  *)
(* ",]", ",[[]", and ",i" with a byte behind the null.                     *)
TypeTagWords ==
  { << 44, 0, 0, 0 >>, << 44, 105, 0, 0 >>, << 44, 98, 115, 0 >>, << 44, 115, 84, 0 >>,
    << 44, 100, 78, 0 >>, << 44, 105, 98, 0 >>, << 105, 0, 0, 0 >>, << 44, 63, 0, 0 >>,
    << 44, 91, 93, 0 >>, << 44, 91, 105, 93 >>, << 44, 91, 98, 93 >>, << 44, 93, 0, 0 >>,
    << 44, 91, 91, 93 >>, << 44, 105, 0, 1 >> }

(* Sizes 0, 3 and 5, the largest valid one, a larger one, a negative one,  *)
(* and characters with and without a null.                                 *)
DataWords ==
  { << 0, 0, 0, 0 >>, << 0, 0, 0, 3 >>, << 0, 0, 0, 5 >>, << 127, 255, 255, 252 >>,
    << 127, 255, 255, 253 >>, << 255, 255, 255, 252 >>, << 97, 98, 0, 99 >>,
    << 97, 98, 99, 0 >> }

Data == { << >> } \cup DataWords \cup { v \o w : v \in DataWords, w \in DataWords }

Messages == { a \o d : a \in AddressWords, d \in { t \o d : t \in TypeTagWords, d \in Data } }

(* Elements: "/a" with and without arguments, "/b", a message without type *)
(* tags, nothing, and a bundle cut short.                                  *)
Elements0 ==
  { << 47, 97, 0, 0 >>, << 47, 97, 0, 0, 44, 105, 0, 0, 0, 0, 0, 7 >>,
    << 47, 98, 0, 0, 44, 0, 0, 0 >>, << 47, 97, 0, 0, 105, 0, 0, 0 >>, << >>, BUNDLE_TAG }

Slot(size, element) == FromUInt32(size) \o element
Bundle(elements) == BUNDLE_TAG \o FromUInt32(0) \o FromUInt32(1) \o elements

UpToTwo(S) ==
  { << >> } \cup { Slot(Len(e), e) : e \in S }
    \cup { Slot(Len(e), e) \o Slot(Len(f), f) : e \in S, f \in S }

Bundles1 == { Bundle(s) : s \in UpToTwo(Elements0) }
Bundles2 == { Bundle(Slot(Len(b), b) \o s) : b \in Bundles1, s \in UpToTwo(Elements0) }
Bundles3 == { Bundle(Slot(Len(b), b) \o Slot(4, << 47, 97, 0, 0 >>)) : b \in Bundles2 }

(* Slots that do not fit their element.                                    *)
BadBundles ==
  { Bundle(s) : s \in { << 0, 0, 0, 8, 47, 97, 0, 0 >>, << 0, 0, 0, 2, 47, 97, 0, 0 >>,
                        << 255, 255, 255, 252, 47, 97, 0, 0 >>,
                        << 127, 255, 255, 252, 47, 97, 0, 0 >> } }

MCPackets ==
  Messages \cup AddressWords \cup Bundles1 \cup Bundles2 \cup Bundles3 \cup BadBundles
    \cup { << >>, << 47, 97, 0 >>, << 47, 97, 0, 0, 0 >> }

MCAddressPatterns == { << 47, 97 >> }

=============================================================================
