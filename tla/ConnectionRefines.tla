-------------------------- MODULE ConnectionRefines --------------------------
(***************************************************************************)
(* Connection implements ConnectionContract.  Three history variables       *)
(* record which method is running and, when it returns, the phase the       *)
(* connection was left in.                                                  *)
(***************************************************************************)
EXTENDS Connection

VARIABLES running, phase, call

history == <<running, phase, call>>

PhaseOf(s) ==
  CASE s \in {"in_progress", "transport", "protocol"} -> "open"
    [] s \in {"close_protocol", "drain_protocol", "close_transport"} -> "closing"
    [] OTHER -> s

RefInit == Init /\ running = "none" /\ phase = "none" /\ call = "none"

\* A method m starts, or starts and returns in one step.
Calls(m) ==
  IF pc' = "idle"
  THEN phase' = PhaseOf(state') /\ call' = m /\ running' = "none"
  ELSE running' = m /\ UNCHANGED <<phase, call>>

\* The running method goes on, or returns.
Continues ==
  IF pc' = "idle"
  THEN phase' = PhaseOf(state') /\ call' = running /\ running' = "none"
  ELSE UNCHANGED history

\* The destructor is not a call the contract speaks about.
RefNext ==
  \/ Attach /\ Calls("attach")
  \/ Restart /\ Calls("restart")
  \/ Stop /\ Calls("stop")
  \/ (\E e \in Deliverable : HandleEvent(e)) /\ Calls("event")
  \/ (\E m \in 0..Room(tx, TX_CAP) : Heartbeat(m)) /\ Calls("heartbeat")
  \/ Run /\ Continues
  \/ (Destruct \/ Gone) /\ UNCHANGED history

\* A running method goes on, and a burst of readable data ends: the thread is
\* never preempted for good, and what the kernel has buffered is finite.
RefSpec ==
  /\ RefInit /\ [][RefNext]_<<vars, history>>
  /\ WF_<<vars, history>>(Run /\ Continues)
  /\ SF_<<vars, history>>(ReadEnds /\ Continues)

Contract == INSTANCE ConnectionContract

(* ImplementsContract: seen from the reactor, between two calls, a           *)
(* connection moves only between the phases the contract allows for the      *)
(* method that was called: an event never reopens a closing connection,      *)
(* stop() always gets one out of the open phase, heartbeat() never closes    *)
(* one, and only restart() revives one that is done().                       *)
ImplementsContract == Contract!Spec

=============================================================================
