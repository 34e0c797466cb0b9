------------------------- MODULE ConnectionContract -------------------------
(***************************************************************************)
(* What reactor::Connection promises its reactor: the phase of a           *)
(* connection after each call of a public method.  It is the BaseConnection *)
(* interface with attach, heartbeat and stop, seen from reactor.hpp;        *)
(* Connection implements it (ConnectionRefines) and Reactor relies on it.   *)
(***************************************************************************)

\* open: connecting or in use; closing: on the way down.  A connection that
\* is closed or in error is done().
Phases == {"none", "open", "closing", "closed", "error"}
DonePhases == {"closed", "error"}

\* attach() and restart() dial again, and may run all the way at once.
AfterDial == Phases \ {"none"}

\* handle_event() never reopens what is closing.
AfterEvent(p) == IF p = "open" THEN Phases \ {"none"} ELSE Phases \ {"none", "open"}

\* heartbeat() does not run the steps, so it never reaches closed.
AfterHeartbeat(p) == IF p = "open" THEN {"open", "closing", "error"} ELSE {p}

\* stop() always leaves the open phase, and does not wake what is done.
AfterStop(p) == IF p \in DonePhases THEN {p} ELSE {"closing", "closed", "error"}

-----------------------------------------------------------------------------
VARIABLES
  phase,  \* the phase when the last method returned
  call    \* the method that returned last

Init == phase = "none" /\ call = "none"

Attach == phase = "none" /\ call' = "attach" /\ phase' \in AfterDial

Restart == phase \in DonePhases /\ call' = "restart" /\ phase' \in AfterDial

HandleEvent ==
  /\ phase \in {"open", "closing"}
  /\ call' = "event" /\ phase' \in AfterEvent(phase)

Heartbeat ==
  phase # "none" /\ call' = "heartbeat" /\ phase' \in AfterHeartbeat(phase)

Stop == phase # "none" /\ call' = "stop" /\ phase' \in AfterStop(phase)

Next == Attach \/ Restart \/ HandleEvent \/ Heartbeat \/ Stop

Spec == Init /\ [][Next]_<<phase, call>>

=============================================================================
