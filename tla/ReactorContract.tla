--------------------------- MODULE ReactorContract ---------------------------
(***************************************************************************)
(* What run() and Net::signal() promise the program around the reactor on   *)
(* epoll: when a signal counts, when it is lost, and how run() ends.        *)
(* Reactor implements it; Example relies on it.                             *)
(***************************************************************************)
EXTENDS Naturals

\* starting: Net::init has not created the eventfd; up: connections are served;
\* asked: the signal arrived and connections are closing; down: Net::stop() ran.
Ended == {"returned", "thrown", "crashed"}
Runs == {"starting", "up", "asked", "down"} \cup Ended

VARIABLES
  run,     \* where run() is
  caller,  \* the thread in Net::signal(): out, in
  calls    \* completed calls of Net::signal()

vars == <<run, caller, calls>>

Init == run = "starting" /\ caller = "out" /\ calls = 0

\* Net::init
Start == run = "starting" /\ run' = "up" /\ UNCHANGED <<caller, calls>>

\* Net::init or the constructor of a connection throws.
Throws ==
  /\ run \in {"starting", "up", "asked"}
  /\ run' = "thrown" /\ UNCHANGED <<caller, calls>>

\* signal() finds no eventfd and returns.
SignalIsLost ==
  /\ caller = "out" /\ run \notin {"up", "asked"}
  /\ calls' = calls + 1 /\ UNCHANGED <<run, caller>>

\* signal() has found an eventfd.  Net::init may leave one behind.
SignalTests ==
  /\ caller = "out" /\ run \in {"up", "asked", "thrown"}
  /\ caller' = "in" /\ UNCHANGED <<run, calls>>

\* signal() writes to it, unless Net::stop() came first.
SignalWrites ==
  /\ caller = "in"
  /\ run' = IF run = "up" THEN "asked" ELSE run
  /\ caller' = "out" /\ calls' = calls + 1

\* Net::stop(): every connection is done, or poll() failed.
Stops ==
  /\ run \in {"up", "asked"} /\ run' = "down"
  /\ UNCHANGED <<caller, calls>>

Returns == run = "down" /\ run' = "returned" /\ UNCHANGED <<caller, calls>>

\* A second kill event is behind the one that ended the reactor.
Crashes ==
  /\ run = "down" /\ calls >= 2
  /\ run' = "crashed" /\ UNCHANGED <<caller, calls>>

Next ==
  \/ Start \/ Throws \/ SignalIsLost \/ SignalTests \/ SignalWrites
  \/ Stops \/ Returns \/ Crashes

Spec == Init /\ [][Next]_vars

=============================================================================
