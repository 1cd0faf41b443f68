------------------ MODULE MCWin32SocketReceiveMultiplexer ------------------
(***************************************************************************)
(* Instances of Win32SocketReceiveMultiplexer for TLC.                     *)
(***************************************************************************)
EXTENDS Win32SocketReceiveMultiplexer

CONSTANTS s1, s2, c1

MCSockets == {s1, s2}

OneTimer == { [id |-> "only", initialDelayMs |-> 1, periodMs |-> 1] }

=============================================================================
