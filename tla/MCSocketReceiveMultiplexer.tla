-------------------- MODULE MCSocketReceiveMultiplexer --------------------
(***************************************************************************)
(* Instances of SocketReceiveMultiplexer for TLC.                          *)
(***************************************************************************)
EXTENDS SocketReceiveMultiplexer

CONSTANTS s1, s2, c1, c2

(* Due at the same time first; then the fast one overtakes the slow one.   *)
TwoTimers ==
  { [id |-> "slow", initialDelayMs |-> 1, periodMs |-> 2],
    [id |-> "fast", initialDelayMs |-> 1, periodMs |-> 1] }

OneTimer == { [id |-> "only", initialDelayMs |-> 1, periodMs |-> 1] }

=============================================================================
