----------------------------- MODULE Connection -----------------------------
(***************************************************************************)
(* reactor::Connection<Net, Transport, Protocol> (reactor/connection.hpp): *)
(* one connection driven by edge events through a Net, a Transport         *)
(* endpoint and a Protocol session.                                        *)
(*                                                                         *)
(* The code is single-threaded: a public method runs to its end.  The      *)
(* model breaks a method at every call that leaves the class (dial,        *)
(* Endpoint::init, read, write, handshake_step, shutdown_step and the      *)
(* session's handlers), because what those calls answer is decided by the  *)
(* peer, the kernel or user code.  pc is the place in the code; pc =       *)
(* "idle" means no method is running.                                      *)
(***************************************************************************)
EXTENDS Buffer, FiniteSets

CONSTANTS
  HasHandshake,         \* transport::HasHandshake: Tls yes, Plain no
  HasTransportShutdown, \* transport::HasShutdown: Tls yes, Plain no
  HasConnectHandler,    \* protocol::HasConnectHandler
  HasProtocolShutdown,  \* protocol::HasShutdown
  HasHeartbeat,         \* protocol::HasHeartbeat
  HasTeardown,          \* protocol::HasTeardown
  ReadStatus,           \* what Endpoint::read may answer
  WriteStatus,          \* what Endpoint::write may answer
  StepStatus,           \* what handshake_step and shutdown_step may answer
  LateEvents,           \* may an event outlive the registration it is for?
  RX_CAP, TX_CAP,       \* capacity of _rx and _tx
  Fds                   \* the descriptors the kernel hands out

NoFd == -1

TransportStatus == {"ok", "close", "want_read", "want_write", "error"}
ProtocolStatus == {"ok", "close", "error"}

ASSUME FeatureAssumption ==
  {HasHandshake, HasTransportShutdown, HasConnectHandler,
   HasProtocolShutdown, HasHeartbeat, HasTeardown, LateEvents}
     \subseteq BOOLEAN

ASSUME StatusAssumption ==
  /\ ReadStatus \subseteq TransportStatus
  /\ WriteStatus \subseteq TransportStatus
  /\ StepStatus \subseteq TransportStatus

ASSUME CapAssumption == RX_CAP \in Nat \ {0} /\ TX_CAP \in Nat \ {0}

ASSUME FdAssumption == Fds # {} /\ Fds \subseteq Nat

VARIABLES
  \* the members of the class
  state,     \* _state
  fd,        \* _fd
  rx, tx,    \* _rx, _tx
  cookie,    \* _cookie: unset until attach()
  ep,        \* life of _transport: never initialised, live, freed, misfreed
  torn,      \* how often teardown() was called on the current _protocol
  \* what the Net and the kernel keep for this connection
  open,      \* open descriptors the connection has created
  interest,  \* the events the descriptor is registered for
  edge,      \* armed by a (re-)registration, spent by the delivery of an event
  \* the running method
  pc,
  ev,        \* the event being handled; {} stands for a null pointer
  before,    \* `before` in steps(); "none" outside of its loop
  wret,      \* where the running transport_write returns to
  mark       \* `before` of a protocol loop: unread bytes before the handler

life == <<state, fd, ep, torn, open, interest, edge>>
frame == <<ev, before, wret, mark>>
vars == <<life, rx, tx, cookie, pc, frame>>

States == {"uninitialized", "in_progress", "transport", "protocol",
           "close_protocol", "drain_protocol", "close_transport",
           "closed", "error"}

EventBits == {"in", "out", "err"}  \* err: ev_error or ev_close

Places == {"idle", "gone", "steps", "step", "bottom", "connected", "connect",
           "read", "consume", "shutdown", "after_read", "write", "bound",
           "closing", "flushed", "unflushed", "shut", "drained"}

\* closed() || state error: done().
Done == state \in {"error", "closed"}

Init ==
  /\ state = "uninitialized" /\ fd = NoFd
  /\ rx = Cleared /\ tx = Cleared
  /\ cookie = "unset" /\ ep = "none" /\ torn = 0
  /\ open = {} /\ interest = {} /\ edge = "spent"
  /\ pc = "idle" /\ ev = {} /\ before = "none"
  /\ wret = "idle" /\ mark = 0

-----------------------------------------------------------------------------
(* The helpers every step is made of.                                      *)

Goto(place) == pc' = place /\ UNCHANGED frame

\* The method returns to the reactor.
Return ==
  /\ pc' = "idle" /\ ev' = {} /\ before' = "none"
  /\ wret' = "idle" /\ mark' = 0

\* Start transport_write(); it returns to `place`.  The caller "drained" is
\* the one that passes re_arm = false.
Write(place) ==
  pc' = "write" /\ wret' = place /\ UNCHANGED <<ev, before, mark>>

\* Faulty variant: step_drain_protocol does not look at the result.
WriteReturnsAnyhow(result) ==
  /\ pc' = IF wret = "flushed" /\ ~result THEN "unflushed" ELSE wret
  /\ UNCHANGED frame

\* transport_write() returns `result`, which two of its callers look at.
WriteReturns(result) ==
  /\ pc' = CASE wret = "drained" /\ ~result -> "bottom"
             [] wret = "flushed" /\ ~result -> "unflushed"
             [] OTHER -> wret
  /\ UNCHANGED frame

\* Net::subscribe: registers or modifies; on a closed descriptor the kernel
\* refuses (EBADF) and the answer is ignored.
Subscribe(want) ==
  /\ IF fd = NoFd
     THEN UNCHANGED <<interest, edge>>
     ELSE interest' = want /\ edge' = "armed"
  /\ UNCHANGED <<fd, ep, torn, open>>

\* destroy() frees the endpoint it was given, live or not.
Destroyed == IF ep = "live" THEN "freed" ELSE "misfreed"

\* Faulty variant: the descriptor is forgotten, not closed.
NotClosed == open

\* Net::close(_fd)
FdClosed == open \ {fd}

\* Faulty variant: teardown() leaves _fd set.
TeardownKeepsFd ==
  IF fd = NoFd
  THEN UNCHANGED <<fd, ep, torn, open, interest, edge>>
  ELSE /\ torn' = IF HasTeardown THEN torn + 1 ELSE torn
       /\ ep' = Destroyed
       /\ interest' = {} /\ edge' = "spent"
       /\ open' = FdClosed /\ UNCHANGED fd

\* teardown()
Teardown ==
  IF fd = NoFd
  THEN UNCHANGED <<fd, ep, torn, open, interest, edge>>
  ELSE /\ torn' = IF HasTeardown THEN torn + 1 ELSE torn
       /\ ep' = Destroyed
       /\ interest' = {} /\ edge' = "spent"
       /\ open' = FdClosed /\ fd' = NoFd

EnterError == state' = "error" /\ Teardown
EnterClosed == state' = "closed" /\ Teardown

MoveTo(s) == state' = s /\ UNCHANGED <<fd, ep, torn, open, interest, edge>>
EnterCloseTransport == MoveTo("close_transport")

\* Faulty variant: waiting for room to write drops the interest in reading.
OutOnly == {"out"}

\* The interest arm() registers for want_write.
WantWrite ==
  {"out"} \cup (IF state \in {"protocol", "close_protocol"}
                THEN {"in"} ELSE {})

\* The interest arm() registers for want_read.
WantRead == {"in"} \cup (IF Unread(tx) = 0 THEN {} ELSE {"out"})

\* arm(status)
Arm(status) ==
  \/ status = "want_read" /\ Subscribe(WantRead) /\ UNCHANGED state
  \/ status = "want_write" /\ Subscribe(WantWrite) /\ UNCHANGED state
  \/ status = "error" /\ EnterError
  \/ status \in {"ok", "close"} /\ UNCHANGED life

\* What follows when the protocol leaves the state it was called in: inside
\* a read loop the loop ends, elsewhere control is back in steps().
Unwind ==
  IF before \in {"protocol", "close_protocol"} THEN "after_read" ELSE "steps"

-----------------------------------------------------------------------------
(* attach(), restart() and enter_uninitialized().                          *)

\* dial() found no address that works; it has closed what it opened.
DialFails ==
  /\ state' = "error" /\ fd' = NoFd
  /\ UNCHANGED <<open, interest, edge>>
  /\ Return

\* connect() is under way: wait for the descriptor to become writeable.
DialPending ==
  \E s \in Fds \ open :
    /\ state' = "in_progress" /\ fd' = s /\ open' = open \cup {s}
    /\ interest' = {"out"} /\ edge' = "armed"
    /\ Return

\* connect() succeeded at once; enter_connected() follows.
DialConnects ==
  \E s \in Fds \ open :
    /\ state' = "uninitialized" /\ fd' = s /\ open' = open \cup {s}
    /\ UNCHANGED <<interest, edge>>
    /\ Goto("connected")

\* enter_uninitialized()
EnterUninitialized ==
  /\ rx' = Cleared /\ tx' = Cleared
  /\ DialFails \/ DialPending \/ DialConnects
  /\ UNCHANGED ep

\* attach(cookie), the first time; a second call only logs.
Attach ==
  /\ pc = "idle" /\ cookie = "unset"
  /\ cookie' = "set"
  /\ EnterUninitialized
  /\ UNCHANGED torn

\* restart() of a connection that is done(); otherwise it returns at once.
\* Its teardown() finds no descriptor (Descriptors below); the session is new.
Restart ==
  /\ pc = "idle" /\ Done
  /\ torn' = 0
  /\ EnterUninitialized
  /\ UNCHANGED cookie

-----------------------------------------------------------------------------
(* The other public methods.                                               *)

\* handle_event(e), which the reactor calls unless done().  Delivery uses up
\* the edge, unless the event is a late one of another registration.
HandleEvent(e) ==
  /\ pc = "idle" /\ cookie = "set" /\ ~Done
  /\ pc' = "steps" /\ ev' = e
  /\ edge' = IF e \subseteq interest \cup {"err"} THEN "spent" ELSE edge
  /\ UNCHANGED <<state, fd, ep, torn, open, interest, rx, tx, cookie,
                 before, wret, mark>>

\* heartbeat(): the session may append m bytes, then they are written.
Heartbeat(m) ==
  /\ pc = "idle" /\ HasHeartbeat /\ state = "protocol"
  /\ tx' = Wrote(tx, m)
  /\ Write("idle")
  /\ UNCHANGED <<life, rx, cookie>>

\* enter_close_protocol(), up to the first on_shutdown
EnterCloseProtocol(otherwise) ==
  IF HasProtocolShutdown
  THEN MoveTo("close_protocol") /\ Goto("shutdown")
  ELSE EnterCloseTransport /\ Goto(otherwise)

\* Faulty variant: a connection still in its transport handshake is not closed.
StopMissesTransport ==
  /\ pc = "idle" /\ cookie = "set"
  /\ \/ /\ state \in {"uninitialized", "in_progress"}
        /\ EnterClosed /\ Goto("steps")
     \/ state = "protocol" /\ EnterCloseProtocol("steps")
     \/ /\ state \notin {"uninitialized", "in_progress", "protocol"}
        /\ UNCHANGED life /\ Goto("steps")
  /\ UNCHANGED <<rx, tx, cookie>>

\* stop(); steps(nullptr) follows.
Stop ==
  /\ pc = "idle" /\ cookie = "set"
  /\ \/ /\ state \in {"uninitialized", "in_progress"}
        /\ EnterClosed /\ Goto("steps")
     \/ state = "transport" /\ EnterCloseTransport /\ Goto("steps")
     \/ state = "protocol" /\ EnterCloseProtocol("steps")
     \/ /\ state \notin {"uninitialized", "in_progress", "transport", "protocol"}
        /\ UNCHANGED life /\ Goto("steps")
  /\ UNCHANGED <<rx, tx, cookie>>

\* ~Connection()
Destruct ==
  /\ pc = "idle"
  /\ Teardown
  /\ Goto("gone")
  /\ UNCHANGED <<state, rx, tx, cookie>>

-----------------------------------------------------------------------------
(* steps(): its loop, then one action per case of its switch.              *)

\* The top of the loop; the states that need an event return without one.
Steps ==
  /\ pc = "steps"
  /\ IF Done \/ (ev = {} /\ state \in {"in_progress", "protocol",
                                       "close_protocol"})
     THEN Return
     ELSE /\ state # "uninitialized"    \* std::unreachable()
          /\ pc' = "step" /\ before' = state
          /\ UNCHANGED <<ev, wret, mark>>
  /\ UNCHANGED <<life, rx, tx, cookie>>

\* The bottom of the loop: return when the step did not change the state.
StepsBottom ==
  /\ pc = "bottom"
  /\ IF state = before THEN Return ELSE Goto("steps")
  /\ UNCHANGED <<life, rx, tx, cookie>>

\* step_in_progress(): getsockopt(SO_ERROR) tells whether connect() worked.
StepInProgress ==
  /\ pc = "step" /\ state = "in_progress"
  /\ \/ "out" \in ev /\ EnterError /\ Goto("bottom")
     \/ "out" \in ev /\ UNCHANGED life /\ Goto("connected")
     \/ "out" \notin ev /\ "err" \in ev /\ EnterError /\ Goto("bottom")
     \/ "out" \notin ev /\ "err" \notin ev /\ UNCHANGED life /\ Goto("bottom")
  /\ UNCHANGED <<rx, tx, cookie>>

\* enter_Protocol(), up to the session's on_connect or the first write
EnterProtocol ==
  /\ state' = "protocol"
  /\ IF HasConnectHandler THEN Goto("connect") ELSE Write("steps")

\* enter_connected(), Endpoint::init failed
InitFails ==
  /\ pc = "connected"
  /\ state' = "error"
  /\ torn' = IF HasTeardown THEN torn + 1 ELSE torn
  /\ interest' = {} /\ edge' = "spent"
  /\ open' = FdClosed /\ fd' = NoFd
  /\ Goto("steps")
  /\ UNCHANGED <<ep, rx, tx, cookie>>

\* enter_connected(), Endpoint::init succeeded
InitSucceeds ==
  /\ pc = "connected"
  /\ ep' = "live"
  /\ IF HasHandshake
     THEN state' = "transport" /\ Goto("steps") /\ UNCHANGED <<interest, edge>>
     ELSE EnterProtocol /\ interest' = {"in"} /\ edge' = "armed"
  /\ UNCHANGED <<fd, torn, open, rx, tx, cookie>>

\* step_Transport()
StepTransport ==
  /\ pc = "step" /\ state = "transport"
  /\ \E st \in StepStatus :
       \/ /\ st = "ok" /\ EnterProtocol
          /\ UNCHANGED <<fd, ep, torn, open, interest, edge>>
       \/ st = "close" /\ EnterError /\ Goto("bottom")
       \/ st \notin {"ok", "close"} /\ Arm(st) /\ Goto("bottom")
  /\ UNCHANGED <<rx, tx, cookie>>

\* Faulty variant: the readable bit of the event is not looked at.
StepProtocolSkipsRead ==
  /\ pc = "step" /\ state \in {"protocol", "close_protocol"}
  /\ Goto("after_read")
  /\ UNCHANGED <<life, rx, tx, cookie>>

\* step_Protocol() and step_close_protocol(): read, then write.
StepProtocol ==
  /\ pc = "step" /\ state \in {"protocol", "close_protocol"}
  /\ Goto(IF "in" \in ev THEN "read" ELSE "after_read")
  /\ UNCHANGED <<life, rx, tx, cookie>>

\* step_drain_protocol(), up to its read or its write
StepDrainProtocol ==
  /\ pc = "step" /\ state = "drain_protocol"
  /\ IF "in" \in ev THEN Goto("read") ELSE Write("drained")
  /\ UNCHANGED <<life, rx, tx, cookie>>

\* step_close_transport()
StepCloseTransport ==
  /\ pc = "step" /\ state = "close_transport"
  /\ IF HasTransportShutdown
     THEN \E st \in StepStatus :
            \/ st = "ok" /\ EnterClosed
            \/ st \in {"error", "close"} /\ EnterError
            \/ st \in {"want_read", "want_write"} /\ Arm(st)
     ELSE EnterClosed
  /\ Goto("bottom")
  /\ UNCHANGED <<rx, tx, cookie>>

-----------------------------------------------------------------------------
(* transport_read() and what the step functions do after it.               *)

\* _rx is full before the next read.
ReadOverflows ==
  /\ pc = "read" /\ Full(rx, RX_CAP)
  /\ EnterError /\ Goto("after_read")
  /\ UNCHANGED <<rx, tx, cookie>>

\* read() appended n bytes.  While draining, the bytes are ignored and the
\* loop goes on; otherwise consume() is called.
ReadData(n) ==
  /\ pc = "read" /\ ~Full(rx, RX_CAP) /\ "ok" \in ReadStatus
  /\ rx' = Wrote(rx, n)
  /\ Goto(CASE before = "protocol" -> "consume"
            [] before = "close_protocol" -> "shutdown"
            [] OTHER -> "read")
  /\ UNCHANGED <<life, tx, cookie>>

\* read() appended nothing: on_close(), arm() or enter_error().
ReadEnds ==
  /\ pc = "read" /\ ~Full(rx, RX_CAP)
  /\ \E st \in ReadStatus \ {"ok"} :
       \/ /\ st = "close"
          /\ IF before = "drain_protocol" THEN UNCHANGED life
             ELSE EnterCloseTransport
       \/ st # "close" /\ Arm(st)
  /\ Goto("after_read")
  /\ UNCHANGED <<rx, tx, cookie>>

\* The rest of step_Protocol, step_close_protocol and step_drain_protocol.
AfterRead ==
  /\ pc = "after_read"
  /\ IF before = "drain_protocol"
     THEN rx' = Cleared /\ Write("drained")
     ELSE /\ UNCHANGED rx
          /\ IF "out" \in ev THEN Write("bottom") ELSE Goto("bottom")
  /\ UNCHANGED <<life, tx, cookie>>

\* The end of step_drain_protocol, when everything was written.
Drained ==
  /\ pc = "drained"
  /\ EnterCloseTransport
  /\ Goto("bottom")
  /\ UNCHANGED <<rx, tx, cookie>>

-----------------------------------------------------------------------------
(* transport_write()                                                       *)

\* Nothing (more) to write, or no descriptor to write to.
WriteDone ==
  /\ pc = "write" /\ (fd = NoFd \/ Unread(tx) = 0)
  /\ IF wret # "drained" /\ fd # NoFd /\ state \in {"protocol", "close_protocol"}
     THEN Subscribe({"in"}) /\ UNCHANGED state
     ELSE UNCHANGED life
  /\ WriteReturns(TRUE)
  /\ UNCHANGED <<rx, tx, cookie>>

\* write() took n bytes; the loop goes on.
WriteData(n) ==
  /\ pc = "write" /\ fd # NoFd /\ "ok" \in WriteStatus
  /\ tx' = Took(tx, n)
  /\ UNCHANGED <<life, rx, cookie, pc, frame>>

\* write() took nothing.
WriteEnds ==
  /\ pc = "write" /\ fd # NoFd /\ Unread(tx) > 0
  /\ \E st \in WriteStatus :
       \/ st = "close" /\ state # "error" /\ EnterCloseTransport
       \/ st = "ok" /\ Arm("want_write")
       \/ st # "ok" /\ (st = "close" => state = "error") /\ Arm(st)
  /\ WriteReturns(FALSE)
  /\ UNCHANGED <<rx, tx, cookie>>

-----------------------------------------------------------------------------
(* The session's handlers: bind_protocol, protocol_consume and the loops    *)
(* around on_shutdown.  A handler takes k bytes of _rx and appends m to _tx.*)

\* What bind_protocol does with the handler's answer, up to its write.
Bind(st, ret) ==
  /\ \/ st = "ok" /\ UNCHANGED life /\ pc' = "write" /\ wret' = ret
     \/ st = "close" /\ UNCHANGED life /\ pc' = "write" /\ wret' = "closing"
     \/ st = "error" /\ EnterError /\ pc' = Unwind /\ UNCHANGED wret
  /\ mark' = Unread(rx)
  /\ UNCHANGED <<cookie, ev, before>>

\* bind_protocol<&Session::on_connect>(), before anything was read
OnConnect(st, m) ==
  /\ pc = "connect"
  /\ tx' = Wrote(tx, m)
  /\ Bind(st, "steps")
  /\ UNCHANGED rx

\* protocol_consume(): nothing left to offer, read on.
Consumed ==
  /\ pc = "consume" /\ Unread(rx) = 0
  /\ Goto("read")
  /\ UNCHANGED <<life, rx, tx, cookie>>

\* protocol_consume(): bind_protocol<&Session::on_data>()
OnData(st, k, m) ==
  /\ pc = "consume" /\ Unread(rx) > 0
  /\ rx' = Took(rx, k) /\ tx' = Wrote(tx, m)
  /\ Bind(st, "bound")

\* Faulty variant: on_data is called again although it took nothing.
BoundIgnoresProgress ==
  /\ pc = "bound"
  /\ Goto(IF state # "protocol" THEN "after_read" ELSE "consume")
  /\ UNCHANGED <<life, rx, tx, cookie>>

\* Faulty variant: the loop goes on although a write left the state.
BoundIgnoresState ==
  /\ pc = "bound"
  /\ Goto(IF mark <= Unread(rx) THEN "read" ELSE "consume")
  /\ UNCHANGED <<life, rx, tx, cookie>>

\* protocol_consume() after on_data: the state changed, no progress, or more.
Bound ==
  /\ pc = "bound"
  /\ Goto(CASE state # "protocol" -> "after_read"
            [] state = "protocol" /\ mark <= Unread(rx) -> "read"
            [] OTHER -> "consume")
  /\ UNCHANGED <<life, rx, tx, cookie>>

\* Faulty variant: the protocol is shut down whatever the write did.
ClosingUnguarded ==
  /\ pc = "closing"
  /\ IF HasProtocolShutdown THEN EnterCloseProtocol(Unwind)
     ELSE UNCHANGED life /\ Write("flushed")
  /\ UNCHANGED <<rx, tx, cookie>>

\* bind_protocol, the session asked to close, after the first write
Closing ==
  /\ pc = "closing"
  /\ CASE HasProtocolShutdown /\ state = "protocol" ->
            EnterCloseProtocol(Unwind)
       [] HasProtocolShutdown /\ state # "protocol" ->
            EnterCloseTransport /\ Goto(Unwind)
       [] OTHER -> UNCHANGED life /\ Write("flushed")
  /\ UNCHANGED <<rx, tx, cookie>>

\* bind_protocol, no on_shutdown: the second write left nothing behind.
Flushed ==
  /\ pc = "flushed"
  /\ EnterCloseTransport
  /\ Goto(Unwind)
  /\ UNCHANGED <<rx, tx, cookie>>

\* bind_protocol, no on_shutdown: the second write failed or was cut short.
Unflushed ==
  /\ pc = "unflushed"
  /\ MoveTo("drain_protocol")
  /\ Goto(Unwind)
  /\ UNCHANGED <<rx, tx, cookie>>

\* on_shutdown, in enter_close_protocol and in step_close_protocol
OnShutdown(st, k, m) ==
  /\ pc = "shutdown"
  /\ rx' = Took(rx, k) /\ tx' = Wrote(tx, m)
  /\ \/ st = "ok" /\ UNCHANGED life /\ pc' = "write" /\ wret' = "shut"
     \/ st = "close" /\ MoveTo("drain_protocol") /\ pc' = Unwind /\ UNCHANGED wret
     \/ st = "error" /\ EnterError /\ pc' = Unwind /\ UNCHANGED wret
  /\ mark' = Unread(rx)
  /\ UNCHANGED <<cookie, ev, before>>

\* After on_shutdown answered ok: the state changed, no progress, or more.
\* Only a loop that runs inside a read in close_protocol reads on.
Shut ==
  /\ pc = "shut"
  /\ Goto(CASE state # "close_protocol" -> Unwind
            [] state = "close_protocol" /\ mark <= Unread(rx) ->
                 IF before = "close_protocol" THEN "read" ELSE Unwind
            [] OTHER -> "shutdown")
  /\ UNCHANGED <<life, rx, tx, cookie>>

-----------------------------------------------------------------------------
\* Events the Net can deliver now.  With LateEvents an event of the same batch
\* may belong to a registration that is gone (one kevent per filter, F-Stack).
Deliverable ==
  IF LateEvents THEN (SUBSET EventBits) \ {{}}
  ELSE IF fd = NoFd THEN {} ELSE (SUBSET (interest \cup {"err"})) \ {{}}

Invoke ==
  \/ Attach \/ Restart \/ Stop \/ Destruct
  \/ \E e \in Deliverable : HandleEvent(e)
  \/ \E m \in 0..Room(tx, TX_CAP) : Heartbeat(m)

Handler ==
  \E m \in 0..Room(tx, TX_CAP), st \in ProtocolStatus :
    \/ OnConnect(st, m)
    \/ \E k \in 0..Unread(rx) : OnData(st, k, m) \/ OnShutdown(st, k, m)

Read ==
  \/ ReadOverflows \/ ReadEnds \/ AfterRead \/ Drained
  \/ \E n \in 1..Room(rx, RX_CAP) : ReadData(n)

Written ==
  \/ WriteDone \/ WriteEnds
  \/ \E n \in 1..Unread(tx) : WriteData(n)

Run ==
  \/ Steps \/ StepsBottom \/ StepInProgress \/ InitFails \/ InitSucceeds
  \/ StepTransport \/ StepProtocol \/ StepDrainProtocol \/ StepCloseTransport
  \/ Handler \/ Read \/ Written
  \/ Consumed \/ Bound \/ Closing \/ Flushed \/ Unflushed \/ Shut

\* After the destructor nothing happens any more.
Gone == pc = "gone" /\ UNCHANGED vars

Next == Invoke \/ Run \/ Gone

Spec == Init /\ [][Next]_vars

-----------------------------------------------------------------------------
TypeOK ==
  /\ state \in States /\ fd \in Fds \cup {NoFd}
  /\ rx \in Buffers(RX_CAP) /\ tx \in Buffers(TX_CAP)
  /\ ep \in {"none", "live", "freed", "misfreed"} /\ torn \in Nat
  /\ cookie \in {"unset", "set"} /\ edge \in {"armed", "spent"}
  /\ open \subseteq Fds /\ interest \subseteq {"in", "out"}
  /\ pc \in Places /\ ev \subseteq EventBits
  /\ before \in States \cup {"none"} /\ wret \in Places /\ mark \in 0..RX_CAP

(* Descriptors: across dialling, failed initialisation, errors, shutdown,  *)
(* restart and destruction the connection owns exactly the descriptor in   *)
(* _fd: none leaks, none is closed twice, and a connection that is done()  *)
(* or destroyed owns none and is registered for nothing.                   *)
Descriptors ==
  /\ open = IF fd = NoFd THEN {} ELSE {fd}
  /\ Done \/ pc = "gone" => fd = NoFd
  /\ fd = NoFd => interest = {}

(* CallbacksInContext: a session handler runs only on a session that was    *)
(* not torn down, over a live endpoint and an open descriptor, and in its   *)
(* own state: "always called when _state == Protocol" (connection.hpp:700)  *)
(* for on_connect and on_data, close_protocol for on_shutdown.  Writes that *)
(* fail between two handler calls must stop the loop.                       *)
CallbacksInContext ==
  /\ pc \in {"connect", "consume", "shutdown"} =>
       fd # NoFd /\ ep = "live" /\ torn = 0
  /\ pc \in {"connect", "consume"} => state = "protocol"
  /\ pc = "shutdown" => state = "close_protocol"

(* TeardownOnce: the session's teardown() runs at most once, never while    *)
(* the descriptor is still in use, and always before the connection counts  *)
(* as closed, on whichever path it got there.                               *)
TeardownOnce ==
  /\ torn <= 1
  /\ fd # NoFd => torn = 0
  /\ HasTeardown /\ state = "closed" => torn = 1

(* WaitingIsSubscribed: a connection that waits is registered for what will *)
(* move it on: connecting for writeability, an open protocol for data, and  *)
(* for writeability as long as bytes are left in _tx.                       *)
WaitingIsSubscribed ==
  pc = "idle" /\ fd # NoFd =>
    /\ interest # {}
    /\ state = "in_progress" => "out" \in interest
    /\ state \in {"protocol", "close_protocol"} =>
         "in" \in interest /\ (Unread(tx) > 0 => "out" \in interest)

(* EdgesAreAnswered: events are edge-triggered, so a method that was given  *)
(* a readable or writeable edge and leaves the descriptor open must have    *)
(* registered again; otherwise data that is already there is never reported *)
(* a second time.                                                           *)
EdgesAreAnswered ==
  [][pc # "idle" /\ pc' = "idle" /\ ev \cap {"in", "out"} # {} /\ fd' # NoFd
     => edge' = "armed"]_vars

Rank(s) ==
  CASE s = "uninitialized" -> 0 [] s = "in_progress" -> 1
    [] s = "transport" -> 2 [] s = "protocol" -> 3
    [] s = "close_protocol" -> 4 [] s = "drain_protocol" -> 5
    [] s = "close_transport" -> 6 [] OTHER -> 7

(* ForwardOnly: until it is done() a connection only moves forward through  *)
(* the machine states in the order connection.hpp:53-74 lists them.         *)
ForwardOnly == [][~Done => Rank(state) <= Rank(state')]_vars

(* FlushedBeforeClose: a session that finished is drained first: as long as *)
(* the descriptor is open, step_drain_protocol moves on to close_transport  *)
(* only with nothing left in _tx, unless write() itself answered close.     *)
FlushedBeforeClose ==
  [][state = "drain_protocol" /\ state' = "close_transport" /\ fd # NoFd
     => Unread(tx) = 0 \/ pc = "write"]_vars

(* MethodsReturn: every call into the connection comes back to the reactor: *)
(* the loops around on_data, on_shutdown, read, write and steps end.        *)
MethodsReturn == (pc \notin {"idle", "gone"}) ~> (pc = "idle")

(* ErrorIsFinal: within a method, a connection that entered the error state *)
(* stays there.  Only closed connections are restarted by the reactor       *)
(* ("Gracefully closed connections are restarted.", reactor.hpp:24).        *)
ErrorIsFinal == [][pc # "idle" /\ state = "error" => state' = "error"]_vars

(* EndpointFreedOnce: destroy() is called only on an endpoint that init     *)
(* produced and that was not destroyed before.  enter_connected says it for *)
(* the case it handles: "enter_error (but do not teardown Transport)".      *)
EndpointFreedOnce == ep # "misfreed"

=============================================================================
