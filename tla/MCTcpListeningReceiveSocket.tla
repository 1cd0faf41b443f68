------------------- MODULE MCTcpListeningReceiveSocket ---------------------
(***************************************************************************)
(* Instances of TcpListeningReceiveSocket for TLC.                         *)
(***************************************************************************)
EXTENDS TcpListeningReceiveSocket, TLC

CONSTANTS s1, s2, c1

(* One client sends two packets, the first of them in two pieces, and then *)
(* breaks the protocol; the other only connects and disconnects.  Both     *)
(* come again and again.                                                   *)
PacketsAndViolation == s1 :> << "part", "end", "end", "big" >> @@ s2 :> << >>

=============================================================================
