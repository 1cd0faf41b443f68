--------------------------- MODULE MCOscRoundTrip ---------------------------
(***************************************************************************)
(* Instances of OscRoundTrip for TLC.                                      *)
(***************************************************************************)
EXTENDS OscRoundTrip

(* One overload for each way of writing an argument: a tag alone, four and *)
(* eight bytes, strings and symbols (one that just does not fit in four    *)
(* bytes, one that needs padding), blobs (one empty), array boundaries.    *)
AllArguments ==
  { TagOnly("T"), TagOnly("["), TagOnly("]"), FourBytes("i"), EightBytes("d"),
    StringOf(4), CharArray(3), SymbolOf(2), BlobOf(0), BlobOf(5) }

=============================================================================
