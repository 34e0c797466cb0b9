------------------------------- MODULE Socket -------------------------------
(***************************************************************************)
(* One socket from dial() to close(): net::dial (Dial), the registration    *)
(* with either Net (Interest) and either endpoint (Endpoint), driven the    *)
(* way reactor::Connection drives them, against a network that delivers,    *)
(* frees room, ends or resets at any moment.  The session is one without    *)
(* on_shutdown, so that stop() closes the transport at once, its handlers   *)
(* answer ok and take all that was read.  What a handler that answers close *)
(* or error leads to, a receive buffer that overflows and the states that   *)
(* drain the session's output are in Connection.                            *)
(***************************************************************************)
EXTENDS Dial, Interest, Endpoint

CONSTANT
  MAX_TRAFFIC  \* bound: units sent either way in a life of the connection

ASSUME SocketAssumption == MAX_TRAFFIC \in Nat

VARIABLES
  st,     \* _state of the connection
  ev,     \* the event being handled
  ret,    \* where the running transport_write, or subscribe, returns to
  conn,   \* the kernel's side: none, syn, est, failed
  given,  \* units the peer has sent
  half,   \* the record of which the peer has sent one half, or none
  said    \* bytes the session has written

dial == <<left, socket, err>>
owner == <<st, ev, ret>>
network == <<conn, given, half, said>>
allvars == <<vars, interest, endpoint, owner, network>>

SocketInit ==
  /\ Init /\ InterestInit /\ EndpointInit
  /\ st = "uninitialized" /\ ev = {} /\ ret = "wait"
  /\ conn = "none" /\ given = 0 /\ half = "none" /\ said = 0

\* Units sent so far; a byte the session writes is a record of two.
Traffic == given + 2 * said

\* What the kernel says the socket is ready for.
Level ==
  CASE conn = "failed" -> {"in", "out", "err"}
    [] conn = "est" -> (IF inq # <<>> \/ fin # "no" THEN {"in"} ELSE {})
                       \cup (IF room > 0 \/ fin = "rst" THEN {"out"} ELSE {})
                       \cup (IF fin = "rst" THEN {"err"} ELSE {})
    [] OTHER -> {}

-----------------------------------------------------------------------------
(* The network.                                                             *)

Network == <<vars, owner, kind, tx, op, status, ssl>>

\* Only at its system calls does the connection see the network, so it is
\* enough that the network moves there and while the connection waits.
AtCall == pc = "wait" \/ op # "none" \/ todo # <<>>

\* connect() completes, or fails.
ConnectEnds ==
  /\ AtCall /\ conn = "syn"
  /\ \/ conn' = "est" /\ Activate({"out"})
     \/ conn' = "failed" /\ Activate({"in", "out", "err"})
  /\ UNCHANGED <<Network, inq, fin, room, given, half, said>>

\* The next half record a TLS peer may send; it ends with close_notify.
NextHalf(u) ==
  IF kind = "plain" THEN u = "byte" /\ half' = "none"
  ELSE IF half \in {"none", "ended"}
  THEN /\ half = "none" /\ half' = u
       /\ u \in (IF given = 0 THEN {"hello"} ELSE {"data", "update", "notify"})
  ELSE u = half /\ half' = IF u = "notify" THEN "ended" ELSE "none"

Arrives ==
  /\ AtCall /\ conn = "est" /\ fin = "no" /\ Traffic < MAX_TRAFFIC
  /\ \E u \in {"byte", "hello", "data", "update", "notify"} :
       NextHalf(u) /\ inq' = Append(inq, u)
  /\ given' = given + 1 /\ Activate({"in"})
  /\ UNCHANGED <<Network, fin, room, conn, said>>

PeerEnds ==
  /\ AtCall /\ conn = "est" /\ fin = "no"
  /\ \/ fin' = "fin" /\ Activate({"in"})
     \/ fin' = "rst" /\ Activate({"in", "out", "err"})
  /\ UNCHANGED <<Network, inq, room, network>>

RoomFreed ==
  /\ AtCall /\ conn = "est" /\ room < ROOM /\ room' = ROOM
  /\ Activate({"out"})
  /\ UNCHANGED <<Network, inq, fin, network>>

-----------------------------------------------------------------------------
(* The connection.                                                          *)

\* The parts of the state a step of the connection leaves alone.
Socketside == <<conn, given, half, kind, inq, fin, room>>
Outside == <<said, Socketside>>
Goto(place) == pc' = place /\ UNCHANGED <<dial, fd, open>>

\* Call a method of the endpoint; its answer is handled at the same place.
CallMethod(method) == Goto(method) /\ Invoke(method)

\* arm(status) and the other registrations: subscribe, then go to place.
Register(want, place) ==
  /\ Subscribe(want) /\ ret' = place /\ Goto("ctl")
  /\ UNCHANGED <<backend, reg, active, refused>>

\* Faulty variant: waiting for room does not ask for it.
WantInOnly == {"in"}

\* The registration arm(want_write) makes.
WantWrite == {"out"} \cup (IF st = "protocol" THEN {"in"} ELSE {})

\* The registration arm(want_read) makes.
WantRead == {"in"} \cup (IF tx = 0 THEN {} ELSE {"out"})

Armed == IF status = "want_read" THEN WantRead ELSE WantWrite

Answered(method) == pc = method /\ op = "none" /\ status # "none"
Taken == status' = "none" /\ UNCHANGED op

\* enter_error() or enter_closed(); teardown() follows.
Ends(s) == st' = s /\ Goto("destroy")

\* enter_uninitialized(), after dial(), whose locals are gone.
Dialled ==
  /\ pc = "done"
  /\ left' = 0 /\ socket' = NoFd /\ err' = "ECONNREFUSED" /\ UNCHANGED <<fd, open>>
  /\ \/ /\ fd = NoFd /\ st' = "error" /\ pc' = "ended"
        /\ UNCHANGED <<ret, todo, conn>>
     \/ /\ fd # NoFd /\ err = "EINPROGRESS" /\ st' = "in_progress" /\ conn' = "syn"
        /\ Subscribe({"out"}) /\ ret' = "wait" /\ pc' = "ctl"
     \/ /\ fd # NoFd /\ err # "EINPROGRESS" /\ conn' = "est" /\ pc' = "connected"
        /\ UNCHANGED <<st, ret, todo>>
  /\ UNCHANGED <<endpoint, backend, reg, active, refused, ev, given, half, said>>

\* One system call of a running subscribe, or its return.
Ctls ==
  /\ pc = "ctl"
  /\ \/ todo # <<>> /\ Ctl(Level) /\ Goto("ctl") /\ UNCHANGED ret
     \/ todo = <<>> /\ UNCHANGED interest /\ Goto(ret) /\ ret' = "wait"
  /\ UNCHANGED <<endpoint, st, ev, network>>

\* handle_event(): the reactor's poll delivers an event.
HandleEvent ==
  /\ pc = "wait"
  /\ \E e \in SUBSET {"in", "out", "err"} :
       /\ Polled(e, Level) /\ ev' = e
       /\ \/ st = "in_progress" /\ Goto("in_progress") /\ Continue
          \/ st = "transport" /\ CallMethod("handshake")
          \/ st = "close_transport" /\ CallMethod("shutdown")
          \/ st = "protocol" /\ "in" \in e /\ CallMethod("read")
          \/ st = "protocol" /\ "in" \notin e /\ Goto("out") /\ Continue
  /\ UNCHANGED <<st, ret, tx, ssl, Outside>>

\* step_in_progress(): getsockopt may fail, or tell that connect() has.
StepInProgress ==
  /\ pc = "in_progress"
  /\ \/ "out" \in ev /\ conn = "est" /\ Goto("connected") /\ UNCHANGED st
     \/ Ends("error")
  /\ UNCHANGED <<interest, endpoint, ev, ret, network>>

\* enter_connected(): Endpoint::init, then the handshake or the protocol.
Connected ==
  /\ pc = "connected"
  /\ \/ InitAborts /\ Goto("aborted") /\ UNCHANGED <<interest, st, ret>>
     \/ InitFails /\ st' = "error" /\ Goto("clear") /\ UNCHANGED <<interest, ret>>
     \/ /\ InitSucceeds /\ kind = "plain" /\ st' = "protocol"
        /\ Register({"in"}, "bound")
     \/ /\ InitSucceeds /\ kind = "tls" /\ st' = "transport"
        /\ Goto("transport") /\ UNCHANGED <<interest, ret>>
  /\ UNCHANGED <<ev, network>>

\* step_Transport() without waiting for an event.
StartHandshake ==
  /\ pc = "transport" /\ CallMethod("handshake")
  /\ UNCHANGED <<interest, owner, tx, ssl, Outside>>

\* step_Transport()
StepTransport ==
  /\ Answered("handshake") /\ Taken
  /\ \/ /\ status = "ok" /\ st' = "protocol" /\ Goto("bound")
        /\ UNCHANGED <<interest, ret>>
     \/ status \in {"close", "error"} /\ Ends("error") /\ UNCHANGED <<interest, ret>>
     \/ /\ status \in {"want_read", "want_write"} /\ Register(Armed, "steps")
        /\ UNCHANGED st
  /\ UNCHANGED <<ev, tx, ssl, Outside>>

\* The session appends m bytes to _tx.
Says(m) == Traffic + 2 * m <= MAX_TRAFFIC /\ said' = said + m /\ tx' = tx + m

\* A handler of the session has run (on_connect or on_data): it may have
\* appended bytes, which transport_write() takes; then the events go on.
Bound ==
  /\ pc = "bound"
  /\ \E m \in 0..1 : Says(m)
  /\ Goto("flush") /\ ret' = IF "in" \in ev THEN "read_on" ELSE "out"
  /\ UNCHANGED <<interest, st, ev, op, status, ssl, Socketside>>

\* heartbeat()
Heartbeat ==
  /\ pc = "wait" /\ st = "protocol"
  /\ Says(1) /\ ev' = {} /\ ret' = "wait" /\ Goto("flush")
  /\ UNCHANGED <<interest, st, op, status, ssl, Socketside>>

ReadOn ==
  /\ pc = "read_on" /\ CallMethod("read")
  /\ UNCHANGED <<interest, owner, tx, ssl, Outside>>

\* Faulty variant: one read for each event, and the registration is renewed.
ReadOnce ==
  /\ Answered("read") /\ Taken
  /\ \/ status = "ok" /\ UNCHANGED st /\ Register({"in"}, "wait")
     \/ status = "error" /\ Ends("error") /\ UNCHANGED <<interest, ret>>
     \/ /\ status = "close" /\ st' = "close_transport"
        /\ Goto("out") /\ UNCHANGED <<interest, ret>>
     \/ /\ status \in {"want_read", "want_write"} /\ Register(Armed, "out")
        /\ UNCHANGED st
  /\ UNCHANGED <<ev, tx, ssl, Outside>>

\* transport_read(), the answer of read()
AfterRead ==
  /\ Answered("read") /\ Taken
  /\ \/ status = "ok" /\ Goto("bound") /\ UNCHANGED <<interest, st, ret>>
     \/ status = "error" /\ Ends("error") /\ UNCHANGED <<interest, ret>>
     \/ /\ status = "close" /\ st' = "close_transport"
        /\ Goto("out") /\ UNCHANGED <<interest, ret>>
     \/ /\ status \in {"want_read", "want_write"} /\ Register(Armed, "out")
        /\ UNCHANGED st
  /\ UNCHANGED <<ev, tx, ssl, Outside>>

\* The second half of step_Protocol(): if writeable, write; then back to steps().
Out ==
  /\ pc = "out"
  /\ IF "out" \in ev
     THEN Goto("flush") /\ ret' = "steps" /\ UNCHANGED ev
     ELSE Goto("steps") /\ UNCHANGED <<ret, ev>>
  /\ UNCHANGED <<interest, endpoint, st, network>>

\* The loop of steps() turns once more when the state has changed.
Steps ==
  /\ pc = "steps" /\ ev' = {}
  /\ \/ st \in {"transport", "protocol"} /\ Goto("wait") /\ Continue /\ UNCHANGED st
     \/ st = "close_transport" /\ kind = "tls" /\ CallMethod("shutdown") /\ UNCHANGED st
     \/ st = "close_transport" /\ kind = "plain" /\ Ends("closed") /\ Continue
  /\ UNCHANGED <<interest, ret, tx, ssl, Outside>>

\* Faulty variant: the arguments of the registration at the end are swapped.
FlushSwaps ==
  /\ pc = "flush" /\ UNCHANGED <<st, ev, tx, ssl, Outside>>
  /\ \/ tx > 0 /\ CallMethod("write") /\ UNCHANGED <<interest, ret>>
     \/ tx = 0 /\ st = "protocol" /\ Register({"out"}, ret) /\ Continue
     \/ /\ tx = 0 /\ st # "protocol" /\ Goto(ret) /\ ret' = "wait"
        /\ Continue /\ UNCHANGED interest

\* transport_write(), the top of its loop and its end
Flush ==
  /\ pc = "flush" /\ UNCHANGED <<st, ev, tx, ssl, Outside>>
  /\ \/ tx > 0 /\ CallMethod("write") /\ UNCHANGED <<interest, ret>>
     \/ tx = 0 /\ st = "protocol" /\ Register({"in"}, ret) /\ Continue
     \/ /\ tx = 0 /\ st # "protocol" /\ Goto(ret) /\ ret' = "wait"
        /\ Continue /\ UNCHANGED interest

\* transport_write(), the answer of write()
AfterWrite ==
  /\ Answered("write") /\ Taken
  /\ \/ status = "ok" /\ Goto("flush") /\ UNCHANGED <<interest, st, ret>>
     \/ status = "error" /\ Ends("error") /\ UNCHANGED <<interest, ret>>
     \/ /\ status = "close" /\ st' = "close_transport"
        /\ Goto(IF ret = "read_on" THEN "out" ELSE ret) /\ ret' = "wait"
        /\ UNCHANGED interest
     \/ /\ status \in {"want_read", "want_write"} /\ Register(Armed, ret)
        /\ UNCHANGED st
  /\ UNCHANGED <<ev, tx, ssl, Outside>>

\* stop()
Stop ==
  /\ pc = "wait" /\ ev' = {}
  /\ \/ st = "in_progress" /\ Ends("closed")
     \/ st # "in_progress" /\ st' = "close_transport" /\ Goto("steps")
  /\ UNCHANGED <<interest, endpoint, ret, network>>

\* step_close_transport()
AfterShutdown ==
  /\ Answered("shutdown") /\ Taken
  /\ \/ status = "ok" /\ Ends("closed") /\ UNCHANGED <<interest, ret>>
     \/ status \in {"close", "error"} /\ Ends("error") /\ UNCHANGED <<interest, ret>>
     \/ /\ status \in {"want_read", "want_write"} /\ Register(Armed, "wait")
        /\ UNCHANGED st
  /\ UNCHANGED <<ev, tx, ssl, Outside>>

\* teardown(): destroy, clear, close
DestroyEndpoint ==
  /\ pc = "destroy" /\ Destroy /\ Goto("clear")
  /\ UNCHANGED <<interest, owner, network>>

ClearFd ==
  /\ pc = "clear" /\ ClearInterest /\ Goto("close")
  /\ UNCHANGED <<endpoint, owner, network>>

CloseFd ==
  /\ pc = "close" /\ CloseInterest /\ pc' = "ended"
  /\ open' = open \ {fd} /\ fd' = NoFd
  /\ inq' = <<>> /\ fin' = "no" /\ room' = ROOM
  /\ conn' = "none" /\ given' = 0 /\ half' = "none" /\ said' = 0
  /\ UNCHANGED <<dial, owner, kind, tx, op, status, ssl>>

\* restart() of a connection that closed
Redial ==
  /\ pc = "ended" /\ st = "closed"
  /\ pc' = "start" /\ st' = "uninitialized" /\ tx' = 0
  /\ op' = "none" /\ status' = "none" /\ ev' = {} /\ ret' = "wait"
  /\ UNCHANGED <<dial, fd, open, interest, network, kind, inq, fin, room, ssl>>

Over == pc \in {"ended", "aborted"} /\ UNCHANGED allvars

-----------------------------------------------------------------------------
Dials ==
  /\ Resolve \/ Socket \/ Ioctl \/ Connect \/ NextAddress
  /\ UNCHANGED <<interest, endpoint, owner, network>>

Method == Runs /\ UNCHANGED <<vars, interest, owner, network>>

\* Other connections of the thread run while this one waits.
OtherConnection == pc = "wait" /\ OtherFails /\ UNCHANGED <<vars, interest, owner, network>>

\* The steps the connection takes on its own, an event once it is there.
Thread ==
  \/ Dials \/ Dialled \/ Ctls \/ HandleEvent \/ StepInProgress \/ Connected
  \/ StartHandshake \/ StepTransport \/ Bound \/ ReadOn \/ AfterRead \/ Out
  \/ Steps \/ Flush \/ AfterWrite \/ AfterShutdown
  \/ DestroyEndpoint \/ ClearFd \/ CloseFd \/ Method

SocketNext ==
  \/ Thread \/ Heartbeat \/ Stop \/ Redial \/ OtherConnection \/ Over
  \/ ConnectEnds \/ Arrives \/ PeerEnds \/ RoomFreed

SocketSpec == SocketInit /\ [][SocketNext]_allvars

\* The thread runs, poll() reports what is there, and TCP delivers what was sent.
\* (Strong fairness, because AtCall holds the network back now and then.)
FairSpec == SocketSpec /\ WF_allvars(Thread) /\ SF_allvars(RoomFreed)

-----------------------------------------------------------------------------
(* NoLostEdge: while the connection waits, every event it is registered for  *)
(* and that the socket is ready for is on its way, although events come only *)
(* once and the network goes on between the system calls of subscribe() and  *)
(* between a read that finds nothing and the registration.  The one way out  *)
(* is a registration the kernel refused, whose error nobody looks at.        *)
NoLostEdge ==
  pc = "wait" /\ refused = "no" =>
    \A b \in reg \cap Level :
      active \cap (IF backend = "epoll" THEN {"any"} ELSE {b}) # {}

(* NoHiddenData: while the connection waits, no decrypted byte is left in    *)
(* OpenSSL, where no event of the socket would ever announce it.             *)
NoHiddenData == pc = "wait" /\ st = "protocol" => ssl.pend = 0

(* CloseIsComplete: read() answers close only at the real end of the stream: *)
(* nothing received is left behind, and with TLS the peer has said so; a     *)
(* connection cut off in between is an error and is not restarted.           *)
CloseIsComplete ==
  Answered("read") /\ status = "close" =>
    /\ ssl.pend = 0
    /\ IF kind = "tls" THEN ssl.rcvd = "yes" ELSE inq = <<>> /\ fin = "fin"

(* NothingLeft: when a life is over, by whichever path, its descriptor, its  *)
(* registration and its OpenSSL objects are gone.                            *)
NothingLeft == pc = "ended" => open = {} /\ reg = {} /\ ssl.alive = "no"

(* DataIsNoticed: what the peer sends is read in the end, whenever it        *)
(* arrives, unless the connection ends or the kernel refused a registration. *)
DataIsNoticed ==
  st \in {"transport", "protocol"} /\ inq # <<>>
    ~> inq = <<>> \/ st \notin {"transport", "protocol"} \/ refused = "yes"

(* OutputLeaves: what the session writes is taken by the kernel in the end,  *)
(* however often the send buffer was full, unless the connection ends or the *)
(* kernel refused a registration.                                            *)
OutputLeaves ==
  st = "protocol" /\ tx > 0 ~> tx = 0 \/ st # "protocol" \/ refused = "yes"

=============================================================================
