---------------------------- MODULE MCUdpSocket ----------------------------
(***************************************************************************)
(* Instances of UdpSocket for TLC: two hosts and a broadcast address.      *)
(***************************************************************************)
EXTENDS UdpSocket, TLC

CONSTANTS a, b, all

MCRemotes == {a, b, all}
MCBroadcasts == {all}

Hosts == Permutations({a, b})

=============================================================================
