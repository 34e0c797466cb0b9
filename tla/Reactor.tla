------------------------------ MODULE Reactor ------------------------------
(***************************************************************************)
(* reactor::Reactor (reactor.hpp) over a Net backend: run(), the poll loop, *)
(* restarts, the heartbeat and the shutdown on Net::signal().  Connections  *)
(* are what ConnectionContract promises.  The backend is net::Epoll         *)
(* (net/epoll.cc) or net::FStack (net/fstack.cc).  A second thread may call *)
(* Net::signal() at any time (examples/main.cc).                            *)
(***************************************************************************)
EXTENDS Integers, Sequences, FiniteSets, SequencesExt

CONSTANTS
  N,            \* NUM_CONNECTIONS
  Backend,      \* "epoll" or "fstack"
  PERIOD,       \* polls between two heartbeats (64 in the code)
  MAX_RESTARTS, \* bound: incarnations of a connection
  MAX_SIGNALS   \* bound: calls of Net::signal()

ASSUME ReactorAssumption ==
  /\ N \in Nat \ {0} /\ PERIOD \in Nat \ {0}
  /\ MAX_RESTARTS \in Nat /\ MAX_SIGNALS \in Nat
  /\ Backend \in {"epoll", "fstack"}

Conns == 1..N

VARIABLES
  phase,     \* the connections' phases; "none" is an empty optional
  gen,       \* which incarnation of the connection is running
  ready,     \* events the backend holds for delivery
  events,    \* the rest of the batch poll() returned
  net,       \* the backend: none, up, down
  sigfd,     \* what signal() raises: none, quiet, raised
  stopping,  \* the reactor's flag: no, yes
  counter,   \* polls since the last heartbeat
  pc,        \* init, poll, batch, beat, returned, thrown
  next,      \* the connection init() attaches next
  caller,    \* the thread in Net::signal(): out, in
  calls,     \* completed calls of Net::signal()
  failed     \* has poll() failed?

vars == <<phase, gen, ready, events, net, sigfd, stopping, counter, pc, next,
          caller, calls, failed>>

\* The contract's sets of outcomes; its variables are not used.
C == INSTANCE ConnectionContract WITH phase <- phase, call <- pc

Done(c) == phase[c] \in C!DonePhases

\* Faulty variant: one connection that is done is enough.
SomeDone == \E c \in Conns : phase[c] = "none" \/ Done(c)

\* all_done()
AllDone == \A c \in Conns : phase[c] = "none" \/ Done(c)

\* epoll reports a descriptor once, a kqueue once per filter.
Kinds == IF Backend = "epoll" THEN {"any"} ELSE {"read", "write"}

SignalEvent == [conn |-> 0, kind |-> "signal", gen |-> 0]
EventOf(c, k) == [conn |-> c, kind |-> k, gen |-> gen[c]]

\* NUM_EVENTS
NumEvents == N + 1

Init ==
  /\ phase = [c \in Conns |-> "none"] /\ gen = [c \in Conns |-> 0]
  /\ ready = {} /\ events = <<>>
  /\ net = "none" /\ sigfd = "none"
  /\ stopping = "no" /\ counter = 0
  /\ pc = "init" /\ next = 0
  /\ caller = "out" /\ calls = 0 /\ failed = "no"

-----------------------------------------------------------------------------
(* The backend.                                                            *)

\* Faulty variant: a closed descriptor's events stay behind.
NotCleared(c) == ready

\* Closing a descriptor takes its events off the backend.
Cleared(c) == {e \in ready : e.conn # c}

\* Net::stop(): the descriptors are closed, the loop flag is cleared.
NetStop == net' = "down" /\ sigfd' = "none"

\* The kernel raises an event for a registered descriptor.
Raise(c, k) ==
  /\ net = "up" /\ phase[c] \in {"open", "closing"}
  /\ EventOf(c, k) \notin ready
  /\ ready' = ready \cup {EventOf(c, k)}
  /\ UNCHANGED <<phase, gen, events, net, sigfd, stopping, counter, pc, next,
                 caller, calls, failed>>

\* Net::signal() called by another thread, up to the test of _signal_fd.  The
\* kqueue has no EVFILT_USER registered for the trigger to find.
SignalTests ==
  /\ caller = "out" /\ calls < MAX_SIGNALS
  /\ IF Backend = "epoll" /\ sigfd # "none"
     THEN caller' = "in" /\ UNCHANGED calls
     ELSE calls' = calls + 1 /\ UNCHANGED caller
  /\ UNCHANGED <<phase, gen, ready, events, net, sigfd, stopping, counter, pc,
                 next, failed>>

\* Net::signal(), the write: lost when stop() closed the descriptor meanwhile.
SignalWrites ==
  /\ caller = "in"
  /\ caller' = "out" /\ calls' = calls + 1
  /\ sigfd' = IF sigfd = "none" THEN "none" ELSE "raised"
  /\ UNCHANGED <<phase, gen, ready, events, net, stopping, counter, pc, next,
                 failed>>

-----------------------------------------------------------------------------
(* run(): Net::init, then the connections one by one.                      *)

NetInit ==
  /\ pc = "init" /\ net = "none"
  /\ net' = "up" /\ sigfd' = "quiet" /\ next' = 1
  /\ UNCHANGED <<phase, gen, ready, events, stopping, counter, pc, caller,
                 calls, failed>>

\* Net::init throws outside run()'s try block: nothing is undone, so that the
\* eventfd is left behind when epoll_ctl refuses it.
NetInitFails ==
  /\ pc = "init" /\ net = "none"
  /\ sigfd' \in IF Backend = "epoll" THEN {"none", "quiet"} ELSE {"none"}
  /\ pc' = "thrown"
  /\ UNCHANGED <<phase, gen, ready, events, net, stopping, counter, next,
                 caller, calls, failed>>

\* init_connection<I>: emplace and attach.
InitConnection ==
  /\ pc = "init" /\ net = "up"
  /\ \E p \in C!AfterDial : phase' = [phase EXCEPT ![next] = p]
  /\ next' = next + 1
  /\ pc' = IF next = N THEN "poll" ELSE "init"
  /\ UNCHANGED <<gen, ready, events, net, sigfd, stopping, counter, caller,
                 calls, failed>>

\* The constructor of a connection throws: Net::stop() and rethrow.
InitThrows ==
  /\ pc = "init" /\ net = "up"
  /\ NetStop
  /\ pc' = "thrown"
  /\ UNCHANGED <<phase, gen, ready, events, stopping, counter, next, caller,
                 calls, failed>>

-----------------------------------------------------------------------------
(* loop()                                                                  *)

Deliverable ==
  ready \cup (IF sigfd = "raised" THEN {SignalEvent} ELSE {})

\* poll() returns a batch of at most NUM_EVENTS events, or none after 100 ms.
Poll ==
  /\ pc = "poll" /\ net = "up"
  /\ \E s \in SUBSET Deliverable :
       /\ Cardinality(s) <= NumEvents
       /\ Cardinality(s) = NumEvents \/ s = Deliverable
       /\ events' \in SetToSeqs(s)
       /\ ready' = ready \ s
       /\ pc' = IF s = {} THEN "beat" ELSE "batch"
  /\ UNCHANGED <<phase, gen, net, sigfd, stopping, counter, next, caller,
                 calls, failed>>

\* poll() fails (a signal handler ran, or the backend is down): Net::stop().
PollFails ==
  /\ pc = "poll"
  /\ NetStop
  /\ pc' = "beat" /\ failed' = "yes"
  /\ UNCHANGED <<phase, gen, ready, events, stopping, counter, next, caller,
                 calls>>

\* Faulty variant: the end is looked for before the event is handled.
EndOfEventStale(done) ==
  /\ net' = IF stopping = "yes" /\ AllDone THEN "down" ELSE net
  /\ events' = Tail(events)
  /\ pc' = IF Len(events) = 1 THEN "beat" ELSE "batch"

\* The bottom of the loop over the batch: Net::stop() when all is done.
EndOfEvent(done) ==
  /\ net' = IF done THEN "down" ELSE net
  /\ events' = Tail(events)
  /\ pc' = IF Len(events) = 1 THEN "beat" ELSE "batch"

\* Faulty variant: the eventfd keeps its count.
NotDrained == "raised"

\* The eventfd after ev_signal() has read it.
Drained == "quiet"

\* The kill event: ev_signal() drains the descriptor, stop_all() follows the
\* first time.
HandleSignal ==
  /\ pc = "batch" /\ Head(events) = SignalEvent /\ sigfd # "none"
  /\ stopping' = "yes"
  /\ phase' \in [Conns -> C!Phases]
  /\ \A c \in Conns :
       IF stopping = "yes" \/ phase[c] = "none" THEN phase'[c] = phase[c]
       ELSE phase'[c] \in C!AfterStop(phase[c])
  /\ ready' = {e \in ready : ~Done(e.conn)'}
  /\ EndOfEvent(AllDone')
  /\ sigfd' = IF net' = "down" THEN "none" ELSE Drained
  /\ UNCHANGED <<gen, counter, next, caller, calls, failed>>

\* A kill event after Net::stop() forgot _signal_fd: ev_signal() says no, and
\* the descriptor number in the event is used as a pointer to a connection.
MistakeSignal ==
  /\ pc = "batch" /\ Head(events) = SignalEvent /\ sigfd = "none"
  /\ pc' = "crashed"
  /\ UNCHANGED <<phase, gen, ready, events, net, sigfd, stopping, counter,
                 next, caller, calls, failed>>

\* Faulty variant: closed connections are restarted while stopping, too.
RestartsAlways(p) == p = "closed"

\* Is a connection restarted that handle_event() left in phase p?
Restarts(p) == p = "closed" /\ stopping = "no"

\* An event of a connection that is done() by now is dropped.
DropEvent ==
  /\ pc = "batch" /\ Head(events) # SignalEvent /\ Done(Head(events).conn)
  /\ EndOfEvent(stopping = "yes" /\ AllDone)
  /\ sigfd' = IF net' = "down" THEN "none" ELSE sigfd
  /\ UNCHANGED <<phase, gen, ready, stopping, counter, next, caller, calls,
                 failed>>

\* handle_event(), and restart() if it closed the connection.
HandleEvent(c, p) ==
  /\ pc = "batch" /\ Head(events) # SignalEvent /\ Head(events).conn = c
  /\ ~Done(c) /\ p \in C!AfterEvent(phase[c])
  /\ IF Restarts(p)
     THEN /\ gen[c] < MAX_RESTARTS
          /\ gen' = [gen EXCEPT ![c] = @ + 1]
          /\ \E q \in C!AfterDial : phase' = [phase EXCEPT ![c] = q]
     ELSE phase' = [phase EXCEPT ![c] = p] /\ UNCHANGED gen
  /\ ready' = IF p \in C!DonePhases THEN Cleared(c) ELSE ready
  /\ EndOfEvent(stopping = "yes" /\ AllDone')
  /\ sigfd' = IF net' = "down" THEN "none" ELSE sigfd
  /\ UNCHANGED <<stopping, counter, next, caller, calls, failed>>

\* ++counter & 63
Tick == (counter + 1) % PERIOD

\* The end of loop(): every PERIOD polls the connections' heartbeats.  Then
\* Epoll::run looks at its flag; ff_run calls loop() again whatever happens.
Beat ==
  /\ pc = "beat"
  /\ counter' = Tick
  /\ phase' \in [Conns -> C!Phases]
  /\ \A c \in Conns : phase'[c] \in IF Tick = 0 THEN C!AfterHeartbeat(phase[c])
                                    ELSE {phase[c]}
  /\ ready' = {e \in ready : ~Done(e.conn)'}
  /\ pc' = IF net = "down" /\ Backend = "epoll" THEN "returned" ELSE "poll"
  /\ UNCHANGED <<gen, events, net, sigfd, stopping, next, caller, calls, failed>>

-----------------------------------------------------------------------------
\* One step of the thread in run().
Thread ==
  \/ NetInit \/ NetInitFails \/ InitConnection \/ InitThrows
  \/ Poll \/ PollFails \/ HandleSignal \/ MistakeSignal \/ DropEvent \/ Beat
  \/ \E c \in Conns, p \in C!Phases : HandleEvent(c, p)

Ended == pc \in {"returned", "thrown", "crashed"} /\ UNCHANGED vars

Next ==
  \/ Thread \/ SignalTests \/ SignalWrites \/ Ended
  \/ \E c \in Conns, k \in Kinds : Raise(c, k)

Spec == Init /\ [][Next]_vars

\* The thread is not suspended for good, a call of signal() completes, and the
\* peer of a connection that is closing answers in the end: there is always
\* another event, and one of them finishes the connection.  The code has no
\* timeout of its own for a peer that stays silent.
FairSpec ==
  /\ Spec
  /\ WF_vars(Thread) /\ WF_vars(SignalWrites)
  /\ \A c \in Conns :
       /\ WF_vars(phase[c] = "closing" /\ \E k \in Kinds : Raise(c, k))
       /\ SF_vars(phase[c] = "closing" /\ \E p \in C!DonePhases : HandleEvent(c, p))

-----------------------------------------------------------------------------
TypeOK ==
  /\ phase \in [Conns -> C!Phases] /\ gen \in [Conns -> 0..MAX_RESTARTS]
  /\ \A e \in ready : e.conn \in Conns /\ e.kind \in Kinds
  /\ Len(events) <= NumEvents
  /\ net \in {"none", "up", "down"} /\ sigfd \in {"none", "quiet", "raised"}
  /\ stopping \in {"no", "yes"} /\ counter \in 0..PERIOD - 1
  /\ pc \in {"init", "poll", "batch", "beat", "returned", "thrown", "crashed"}
  /\ next \in 0..N + 1 /\ caller \in {"out", "in"} /\ calls \in 0..MAX_SIGNALS
  /\ failed \in {"no", "yes"}

(* FreshEvents: the event handle_event() is given was raised for the current *)
(* incarnation of the connection, not for the descriptor it had before a     *)
(* restart in the same batch: "next event will be writeable"                 *)
(* (connection.hpp:346) is what step_in_progress relies on.                  *)
FreshEvents ==
  pc = "batch" /\ Head(events) # SignalEvent /\ ~Done(Head(events).conn)
    => Head(events).gen = gen[Head(events).conn]

(* CleanReturn: unless poll() failed, run() returns only after a signal, and *)
(* then every connection is done(): the check at the bottom of the loop sees *)
(* the effect of stop_all() and of every late event.                         *)
CleanReturn ==
  pc = "returned" /\ failed = "no"
    => stopping = "yes" /\ \A c \in Conns : Done(c)

(* NoRevival: once the reactor is stopping no connection is open: stop_all()   *)
(* reached every one of them, and neither an event of the same batch, nor a    *)
(* restart, nor a heartbeat brings one back.                                  *)
NoRevival == stopping = "yes" => \A c \in Conns : phase[c] # "open"

(* SignalDelivered: a signal that reached the descriptor ends run(), however *)
(* many connections are open, closing or done when it arrives: the loop never *)
(* goes on for ever.  (That a second signal may end it in the wrong way is    *)
(* SignalIsRecognised's matter.)                                             *)
SignalDelivered ==
  (sigfd = "raised") ~> (pc \in {"returned", "thrown", "crashed"})

(* SignalIsRecognised: a kill event in the batch is taken for one; the second *)
(* of two signals is ignored (`if (!self->stopping)`, reactor.hpp:113).       *)
SignalIsRecognised == pc # "crashed"

\* Where run() is, as the program around it sees it.
RunOf ==
  CASE pc \in {"returned", "thrown", "crashed"} -> pc
    [] pc = "init" /\ net = "none" -> "starting"
    [] pc \in {"init", "poll", "batch", "beat"} /\ net = "down" -> "down"
    [] OTHER -> IF sigfd = "raised" \/ stopping = "yes" THEN "asked" ELSE "up"

R == INSTANCE ReactorContract WITH run <- RunOf

(* ImplementsReactorContract: run() and signal() behave as the program around  *)
(* the reactor may rely on: a signal counts from Net::init to Net::stop() and   *)
(* at no other time, one signal is one kill event, run() returns only through   *)
(* Net::stop(), and only a second signal can make it go wrong.                  *)
ImplementsReactorContract == R!Spec

(* ClosedIsRestarted: "Gracefully closed connections are restarted."          *)
(* (reactor.hpp:24).                                                          *)
ClosedIsRestarted ==
  \A c \in Conns :
    (phase[c] = "closed" /\ stopping = "no" /\ net = "up")
      ~> (phase[c] # "closed" \/ stopping = "yes" \/ net = "down")

=============================================================================
