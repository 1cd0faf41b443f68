---------------------------- MODULE MCOscOverTcp ----------------------------
(***************************************************************************)
(* Packets on which TLC checks OscOverTcp: an empty one, one as long as    *)
(* the receiver allows that looks like a header, and one byte too many.    *)
(***************************************************************************)
EXTENDS OscOverTcp

MCMaxFrameSize == 4

MCPackets == { << >>, << 0, 0, 0, 1 >>, << 0, 0, 0, 2, 3 >> }

=============================================================================
