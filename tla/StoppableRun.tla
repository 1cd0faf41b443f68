---------------------------- MODULE StoppableRun ----------------------------
(***************************************************************************)
(* What Run(), Break() and AsynchronousBreak() promise together, for the   *)
(* UDP multiplexer and the TCP receiver alike: Run returns only when a     *)
(* stop was requested, a request made before or during Run is honoured,    *)
(* and it is used up when Run is left.                                     *)
(***************************************************************************)

VARIABLES
  status,      \* "running", or how the last Run ended
  requested    \* a stop request is pending

vars == << status, requested >>

Init ==
  /\ status = "never"
  /\ requested = FALSE

Request ==
  /\ requested' = TRUE
  /\ UNCHANGED status

Start ==
  /\ status # "running"
  /\ status' = "running"
  /\ UNCHANGED requested

Return ==
  /\ status = "running"
  /\ requested
  /\ status' = "returned"
  /\ requested' = FALSE

(* A listener's exception, or a failing select, leaves Run at any time.    *)
Throw ==
  /\ status = "running"
  /\ status' = "threw"
  /\ requested' = FALSE

Next == Request \/ Start \/ Return \/ Throw

Leave == requested /\ (Return \/ Throw)

(* A requested stop makes Run end.                                         *)
Spec == Init /\ [][Next]_vars /\ WF_vars(Leave)

(* The same without the promise that it happens.                           *)
SafeSpec == Init /\ [][Next]_vars

=============================================================================
