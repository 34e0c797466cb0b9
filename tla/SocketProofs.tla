---------------------------- MODULE SocketProofs ----------------------------
(***************************************************************************)
(* The safety of a socket from dial() to close(): no event is lost, no      *)
(* decrypted byte is overlooked, a close is told from a cut, and nothing is *)
(* left behind.  First what the parts do: the outcome of net::dial, the     *)
(* system calls of subscribe(), and a step of an endpoint's method.  For    *)
(* every value of the constants and any traffic.                            *)
(***************************************************************************)
EXTENDS Socket, SequenceTheorems, TLAPS

-----------------------------------------------------------------------------
(* dial() alone.                                                          *)

\* The errors of calls that failed, and what dial() starts out with.
Failures == Errors \cup {"ECONNREFUSED", "EINVAL"}

\* The places of dial().
Dialing == {"start", "socket", "ioctl", "connect", "next", "done"}

\* What is open and what the result is, at each place in the loop: a socket is
\* open exactly while an address is tried, and err is a failure until the end.
DialInv ==
  /\ pc \in Dialing
  /\ pc \in {"start", "socket", "next"} => open = {}
  /\ pc \in {"ioctl", "connect"} => socket \in Fds /\ open = {socket}
  /\ pc # "done" => fd = NoFd /\ err \in Failures
  /\ pc = "done" =>
       \/ fd \in Fds /\ open = {fd} /\ err \in {"ok", "EINPROGRESS"}
       \/ fd = NoFd /\ open = {} /\ err \in Failures

(* Every system call of dial() preserves the invariant.                    *)
LEMMA DialStep == DialInv /\ [Next]_vars => DialInv'
<1> SUFFICES ASSUME DialInv, [Next]_vars PROVE DialInv'
  OBVIOUS
<1> USE DEF DialInv, Failures, Dialing
<1>1. CASE Resolve
  BY <1>1 DEF Resolve
<1>2. CASE Socket
  BY <1>2 DEF Socket
<1>3. CASE Ioctl
  BY <1>3 DEF Ioctl
<1>4. CASE Connect
  BY <1>4 DEF Connect
<1>5. CASE NextAddress
  BY <1>5 DEF NextAddress
<1>6. CASE Returned \/ UNCHANGED vars
  BY <1>6 DEF Returned, vars
<1> QED
  BY <1>1, <1>2, <1>3, <1>4, <1>5, <1>6 DEF Next

(* The invariant holds from the call of dial() to its return.              *)
THEOREM DialInvariance == Spec => []DialInv
<1>1. Init => DialInv
  BY DEF Init, DialInv, Failures, Dialing
<1> QED
  BY <1>1, DialStep, PTL DEF Spec

(* dial() leaves open exactly the descriptor it returns.                   *)
THEOREM DialOwnsOne == Spec => []OneDescriptor
<1>1. DialInv => OneDescriptor
  BY DialAssumption DEF DialInv, OneDescriptor, NoFd
<1> QED
  BY <1>1, DialInvariance, PTL

(* A descriptor comes with success or EINPROGRESS, and only then, whatever *)
(* happened to the addresses before.                                       *)
THEOREM DialIsClear == Spec => []ResultIsClear
<1>1. DialInv => ResultIsClear
  BY DialAssumption DEF DialInv, Failures, ResultIsClear, NoFd
<1> QED
  BY <1>1, DialInvariance, PTL

-----------------------------------------------------------------------------
(* The registration.                                                      *)

Wants == SUBSET Bits

\* The calls a running subscribe() has still to make; on a kqueue, the filters
\* that are not wanted are gone before the others are added.
Todo ==
  \/ todo = <<>>
  \/ /\ backend = "epoll"
     /\ \E w \in Wants, o \in {"mod", "ctl_add"} : todo = <<Call(o, w)>>
  \/ /\ backend = "kqueue"
     /\ \E w \in Wants : \/ todo = <<Call("delete", Bits \ w), Call("add", w)>>
                         \/ todo = <<Call("add", w)>> /\ reg \subseteq w

RegOK ==
  /\ backend \in {"epoll", "kqueue"} /\ reg \subseteq Bits /\ "err" \notin active
  /\ Todo

(* A call of subscribe() sets out to do what Todo says.                    *)
LEMMA RegSubscribe ==
  ASSUME NEW want \in Wants, RegOK, Subscribe(want), UNCHANGED <<backend, reg, active>>
  PROVE  RegOK'
BY Zenon DEF Subscribe, RegOK, Todo, Wants

(* Events that are delivered and registrations that go do no harm.         *)
LEMMA RegShrinks ==
  ASSUME RegOK, reg' \subseteq reg, active' \subseteq active,
         UNCHANGED <<backend, todo>>
  PROVE  RegOK'
BY DEF RegOK, Todo

(* A step that leaves the registration alone keeps the invariant.         *)
LEMMA RegQuiet == RegOK /\ UNCHANGED interest => RegOK'
BY RegShrinks DEF interest

(* The network raises events, and only those registered for.               *)
LEMMA RegActivate == ASSUME NEW bits, RegOK, Activate(bits) PROVE RegOK'
<1>1. "err" \notin active'
  BY DEF Activate, Raised, RegOK, Bits
<1> QED
  BY Zenon, <1>1 DEF Activate, RegOK, Todo

(* The system calls of subscribe(): MOD or ADD on epoll, a deletion and then *)
(* an addition on a kqueue.                                                *)
LEMMA CtlShape ==
  ASSUME NEW level, RegOK, Ctl(level)
  PROVE  \E w \in Wants :
           \/ /\ backend = "epoll" /\ Head(todo).bits = w
              /\ CtlMod(level) \/ CtlAdd(level)
           \/ /\ backend = "kqueue" /\ KeventDelete /\ Head(todo).bits = Bits \ w
              /\ Tail(todo) = <<Call("add", w)>>
           \/ /\ backend = "kqueue" /\ KeventAdd(level) /\ Head(todo).bits = w
              /\ Tail(todo) = <<>> /\ reg \subseteq w
<1>1. CASE backend = "epoll"
  <2>1. PICK w \in Wants, o \in {"mod", "ctl_add"} : todo = <<Call(o, w)>>
    BY <1>1, Zenon DEF RegOK, Todo, Ctl, CtlMod, CtlAdd, KeventDelete, KeventAdd
  <2>2. Head(todo).op = o /\ Head(todo).bits = w
    BY <2>1 DEF Call
  <2>3. CtlMod(level) \/ CtlAdd(level)
    BY <2>2 DEF Ctl, KeventDelete, KeventAdd
  <2> QED
    BY Zenon, <1>1, <2>2, <2>3
<1>2. CASE backend = "kqueue"
  <2>1. PICK w \in Wants :
          \/ todo = <<Call("delete", Bits \ w), Call("add", w)>>
          \/ todo = <<Call("add", w)>> /\ reg \subseteq w
    BY <1>2, Zenon DEF RegOK, Todo, Ctl, CtlMod, CtlAdd, KeventDelete, KeventAdd
  <2>2. CASE todo = <<Call("delete", Bits \ w), Call("add", w)>>
    <3>1. /\ Head(todo).op = "delete" /\ Head(todo).bits = Bits \ w
          /\ Tail(todo) = <<Call("add", w)>>
      BY <2>2 DEF Call
    <3>2. KeventDelete
      BY <3>1 DEF Ctl, CtlMod, CtlAdd, KeventAdd
    <3> QED
      BY Zenon, <1>2, <3>1, <3>2
  <2>3. CASE todo = <<Call("add", w)>> /\ reg \subseteq w
    <3>1. Head(todo).op = "add" /\ Head(todo).bits = w /\ Tail(todo) = <<>>
      BY <2>3 DEF Call
    <3>2. KeventAdd(level)
      BY <3>1 DEF Ctl, CtlMod, CtlAdd, KeventDelete
    <3> QED
      BY Zenon, <1>2, <2>3, <3>1, <3>2
  <2> QED
    BY <2>1, <2>2, <2>3
<1> QED
  BY <1>1, <1>2 DEF RegOK

(* Each of them leaves the registration in order.                          *)
LEMMA CtlStep ==
  ASSUME NEW level, RegOK, Ctl(level)
  PROVE  RegOK'
<1> PICK w \in Wants :
      \/ /\ backend = "epoll" /\ Head(todo).bits = w
         /\ CtlMod(level) \/ CtlAdd(level)
      \/ /\ backend = "kqueue" /\ KeventDelete /\ Head(todo).bits = Bits \ w
         /\ Tail(todo) = <<Call("add", w)>>
      \/ /\ backend = "kqueue" /\ KeventAdd(level) /\ Head(todo).bits = w
         /\ Tail(todo) = <<>> /\ reg \subseteq w
  BY CtlShape
<1>1. CASE backend = "epoll" /\ Head(todo).bits = w /\ (CtlMod(level) \/ CtlAdd(level))
  BY <1>1 DEF CtlMod, CtlAdd, Registered, Raised, RegOK, Todo, Wants
<1>2. CASE backend = "kqueue" /\ KeventDelete /\ Head(todo).bits = Bits \ w
           /\ Tail(todo) = <<Call("add", w)>>
  BY <1>2 DEF KeventDelete, RegOK, Todo, Wants
<1>3. CASE backend = "kqueue" /\ KeventAdd(level) /\ Head(todo).bits = w
           /\ Tail(todo) = <<>> /\ reg \subseteq w
  <2>1. reg' \subseteq Bits /\ todo' = <<>> /\ backend' = backend
    BY <1>3 DEF KeventAdd, FiltersAdded, Wants
  <2>2. "err" \notin active'
    BY <1>3 DEF KeventAdd, FiltersAdded, Raised, RegOK, Wants, Bits
  <2> QED
    BY <2>1, <2>2, <1>3 DEF RegOK, Todo
<1> QED
  BY <1>1, <1>2, <1>3

-----------------------------------------------------------------------------
(* The methods of an endpoint.                                            *)

(* A method runs, or it answers.                                           *)
LEMMA RunsOp == Runs => op # "none" /\ op' \in {op, "none"}
BY Zenon DEF Runs, PlainRead, PlainWrite, Interrupted, HandshakeStep, SendReply, TlsRead,
             TlsWrite, ShutdownStep, Answer, Continue, endpoint, EngineReads,
             EngineWrites, Fail, CutOff, AfterNotify

\* What the system calls of a method may do to the socket and to _tx.
Reads ==
  \/ inq' = inq
  \/ inq # <<>> /\ inq' = Tail(inq)
  \/ \E k \in 1..Len(inq) : inq' = SubSeq(inq, k + 1, Len(inq))
Fills == room' = room \/ (room > 0 /\ \E k \in 1..room : room' = room - k)
Sends == tx' = tx \/ tx' = 0 \/ \E k \in 1..room : k <= tx /\ tx' = tx - k

(* A method takes from the socket, fills its buffer and empties _tx.       *)
LEMMA RunsEffect ==
  ASSUME room \in Nat, Runs
  PROVE  kind' = kind /\ fin' = fin /\ Reads /\ Fills /\ Sends
<1>0. room > 0 /\ room' = room - 1 => Fills
  BY DEF Fills
<1> USE DEF Reads, Sends
<1>1. CASE PlainRead
  BY Zenon, <1>1 DEF PlainRead, Fills
<1>2. CASE PlainWrite
  BY Zenon, <1>2 DEF PlainWrite, CanWrite, Fills
<1>3. CASE Interrupted
  BY Zenon, <1>3 DEF Interrupted, endpoint, Fills
<1>u. UNCHANGED room => Fills
  BY DEF Fills
<1>e. ASSUME NEW engine, EngineWrites(engine) PROVE Fills
  BY Zenon, <1>0, <1>u, <1>e DEF EngineWrites, CanWrite
<1>r. EngineReads => Reads
  BY Zenon DEF EngineReads
<1> HIDE DEF Reads
<1>s. UNCHANGED inq => Reads
  BY DEF Reads
<1>4. CASE HandshakeStep
  BY Zenon, <1>4, <1>u, <1>e, <1>r, <1>s DEF HandshakeStep
<1>5. CASE SendReply
  BY Zenon, <1>5, <1>u, <1>e, <1>r, <1>s DEF SendReply
<1>6. CASE TlsRead
  BY Zenon, <1>6, <1>u, <1>e, <1>r, <1>s DEF TlsRead
<1>7. CASE TlsWrite
  BY Zenon, <1>7, <1>u, <1>e, <1>r, <1>s DEF TlsWrite
<1>8. CASE ShutdownStep
  BY Zenon, <1>8, <1>0, <1>u, <1>s DEF ShutdownStep, CanWrite
<1> QED
  BY <1>1, <1>2, <1>3, <1>4, <1>5, <1>6, <1>7, <1>8 DEF Runs

(* So the socket is never readier after a method than before.              *)
LEMMA RunsSocket ==
  ASSUME NEW S, inq \in Seq(S), room \in Nat, tx \in Nat, Runs
  PROVE  /\ kind' = kind /\ fin' = fin
         /\ inq' \in Seq(S) /\ room' \in Nat /\ tx' \in Nat
         /\ inq = <<>> => inq' = <<>>
         /\ room = 0 => room' = 0
<1>1. kind' = kind /\ fin' = fin /\ Reads /\ Fills /\ Sends
  BY RunsEffect
<1>2. room' \in Nat /\ (room = 0 => room' = 0)
  BY <1>1 DEF Fills
<1>3. tx' \in Nat
  BY <1>1 DEF Sends
<1>4. inq' \in Seq(S) /\ (inq = <<>> => inq' = <<>>)
  <2>1. CASE inq' = inq
    BY <2>1
  <2>2. CASE inq # <<>> /\ inq' = Tail(inq)
    BY <2>2, HeadTailProperties
  <2>3. ASSUME NEW k \in 1..Len(inq), inq' = SubSeq(inq, k + 1, Len(inq))
        PROVE  inq' \in Seq(S) /\ inq # <<>>
    <3>1. Len(inq) \in Nat /\ inq # <<>>
      BY LenProperties, EmptySeq
    <3> QED
      BY <2>3, <3>1, SubSeqProperties
  <2> QED
    BY <1>1, <2>1, <2>2, <2>3 DEF Reads
<1> QED
  BY <1>1, <1>2, <1>3, <1>4

-----------------------------------------------------------------------------
(* The engine.                                                            *)

Records == {"hello", "data", "update", "notify"}

Engines ==
  [alive : {"no", "yes"}, hs : 0..3, part : Records \cup {"none"}, pend : Nat,
   due : {"no", "yes"}, wpend : Nat, wlen : Nat, notify : {"no", "pending", "sent"},
   rcvd : {"no", "yes"}, want : {"none", "read", "write"}, ctx : {"no", "yes"},
   errq : {"clean", "dirty"}]

\* The engine e has read as much as the engine f.
Alike(e, f) ==
  /\ e \in Engines /\ e.alive = f.alive /\ e.pend = f.pend /\ e.part = f.part
  /\ e.hs <= 1 => f.hs <= 1

\* The engine takes the first or the second half of a record.
Begins ==
  /\ ssl.part = "none" /\ ssl'.part = Head(inq)
  /\ ssl'.hs = ssl.hs /\ ssl'.pend = ssl.pend
Completes ==
  /\ ssl.part # "none" /\ ssl'.part = "none"
  /\ ssl'.hs <= 1 => ssl.hs <= 1
  /\ Head(inq) = "hello" => ssl'.hs = 2 /\ ssl'.pend = ssl.pend
TakesHalf ==
  /\ inq # <<>> /\ inq' = Tail(inq) /\ ssl' \in Engines /\ ssl'.alive = ssl.alive
  /\ Begins \/ Completes
  /\ op' = op

\* A method gives up, with close only if the peer has closed.
GivesUp ==
  op' = "none" /\ status' # "ok" /\ (status' = "close" => ssl'.rcvd = "yes")

\* The engine e has not begun.
New(e, a) == e \in Engines /\ e.alive = a /\ e.pend = 0 /\ e.hs = 0 /\ e.part = "none"

(* An engine as SSL_new makes it, with the thread's error queue.           *)
LEMMA NewEngine ==
  ASSUME NEW a \in {"no", "yes"}, NEW q \in {"clean", "dirty"}, NEW c \in {"no", "yes"}
  PROVE  New([Engine(a) EXCEPT !.errq = q, !.ctx = c], a)
<1> DEFINE e == [Engine(a) EXCEPT !.errq = q, !.ctx = c]
           e0 == Engine(a)
           e1 == [e0 EXCEPT !.errq = q]
<1>1. New(e0, a)
  BY DEF Engine, Engines, New
<1> HIDE DEF e0
<1>2. New(e1, a)
  BY <1>1 DEF Engines, New
<1>3. e = [e1 EXCEPT !.ctx = c]
  BY Zenon DEF e0
<1> HIDE DEF e, e1
<1>4. New(e, a)
  BY <1>2, <1>3 DEF Engines, New
<1> QED
  BY <1>4 DEF e

(* Beginning and ending a record of SSL_write.                             *)
LEMMA BegunRecord ==
  ASSUME NEW e \in Engines, NEW n \in Nat
  PROVE  Alike([e EXCEPT !.wpend = 2, !.wlen = n], e) /\ Alike([e EXCEPT !.wlen = 0], e)
<1>1. Alike([e EXCEPT !.wlen = 0], e)
  BY DEF Alike, Engines
<1>2. Alike([e EXCEPT !.wpend = 2, !.wlen = n], e)
  BY Zenon DEF Alike, Engines
<1> QED
  BY <1>1, <1>2

(* Reading: half a record, or nothing and the answer of SSL_get_error.     *)
LEMMA EngineReadsEffect ==
  ASSUME ssl \in Engines, inq \in Seq(Records), EngineReads
  PROVE  TakesHalf \/ (inq' = inq /\ Alike(ssl', ssl) /\ GivesUp)
<1>1. CASE inq # <<>>
  <2>1. Head(inq) \in Records
    BY <1>1, HeadTailProperties
  <2>2. inq' = Tail(inq) /\ Continue
    BY Zenon, <1>1 DEF EngineReads, NothingToRead, AtEof, ReadFails
  <2> DEFINE e == BioRead(ssl, FALSE)
             f == [e EXCEPT !.part = "none"]
  <2>3. Alike(e, ssl) /\ e.hs = ssl.hs
    BY DEF BioRead, Engines, Alike
  <2>4. ssl' = IF ssl.part = "none" THEN [e EXCEPT !.part = Head(inq)]
               ELSE Processed(f, Head(inq))
    BY Zenon, <1>1 DEF EngineReads, NothingToRead, AtEof, ReadFails
  <2> HIDE DEF e
  <2>5. CASE ssl.part = "none"
    <3>1. ssl' \in Engines /\ ssl'.alive = ssl.alive /\ Begins
      BY <2>1, <2>3, <2>4, <2>5 DEF Begins, Engines, Alike
    <3> QED
      BY Zenon, <1>1, <2>2, <3>1 DEF TakesHalf, Continue
  <2>6. CASE ssl.part # "none"
    <3>1. /\ f \in Engines /\ f.alive = ssl.alive /\ f.part = "none"
          /\ f.hs = ssl.hs /\ f.pend = ssl.pend
      BY <2>3 DEF Engines, Alike
    <3>2. ssl' = Processed(f, Head(inq))
      BY <2>4, <2>6
    <3> HIDE DEF f
    <3>3. CASE Head(inq) = "hello"
      <4>1. ssl' = [f EXCEPT !.hs = 2]
        BY <3>2, <3>3 DEF Processed
      <4> QED
        BY <1>1, <2>2, <2>6, <3>1, <3>3, <4>1 DEF Engines, TakesHalf, Completes, Continue
    <3>4. CASE Head(inq) # "hello"
      <4>1. \/ ssl' = [f EXCEPT !.pend = REC_BYTES]
            \/ ssl' = [f EXCEPT !.due = "yes"]
            \/ ssl' = [f EXCEPT !.rcvd = "yes"]
        BY <2>1, <3>2, <3>4 DEF Processed, Records
      <4>2. /\ ssl' \in Engines /\ ssl'.alive = ssl.alive /\ ssl'.part = "none"
            /\ ssl'.hs = ssl.hs
        BY <3>1, <4>1, EndpointAssumption DEF Engines
      <4> QED
        BY <1>1, <2>2, <2>6, <3>4, <4>2 DEF TakesHalf, Completes, Continue
    <3> QED
      BY <3>3, <3>4
  <2> QED
    BY <2>5, <2>6
<1>2. CASE inq = <<>>
  <2>1. PICK b \in BOOLEAN : Fail(BioRead(ssl, b)) /\ inq' = inq
    BY Zenon, <1>2 DEF EngineReads, CutOff
  <2>2. Alike(BioRead(ssl, b), ssl)
    BY DEF BioRead, Engines, Alike
  <2> QED
    BY Zenon, <2>1, <2>2 DEF Fail, Answer, SslError, GivesUp
<1> QED
  BY <1>1, <1>2

(* Writing: what the engine has read stays as it is.                       *)
LEMMA EngineWritesEffect ==
  ASSUME ssl \in Engines, NEW engine, Alike(engine, ssl), EngineWrites(engine)
  PROVE  Alike(ssl', ssl) /\ (op' = op \/ GivesUp)
<1>1. ASSUME NEW e, NEW b \in BOOLEAN, Alike(e, ssl) PROVE Alike(BioWrite(e, b), ssl)
  BY <1>1 DEF BioWrite, Engines, Alike
<1>2. Alike(ssl, ssl)
  BY DEF Alike
<1>3. CASE ssl' = BioWrite(engine, FALSE) /\ Continue
  BY Zenon, <1>1, <1>3 DEF Continue
<1>4. ASSUME NEW b \in BOOLEAN, Fail(BioWrite(ssl, b))
      PROVE  Alike(ssl', ssl) /\ GivesUp
  BY Zenon, <1>1, <1>2, <1>4 DEF Fail, Answer, SslError, GivesUp
<1> QED
  BY Zenon, <1>3, <1>4 DEF EngineWrites

\* The steps of a method, by what they do to the engine.
PlainStep ==
  /\ kind = "plain" /\ ssl' = ssl
  /\ op = "read" /\ op' = "none" /\ status' = "close" => inq' = <<>> /\ fin' = "fin"
KeepsReading ==
  /\ kind = "tls" /\ inq' = inq /\ Alike(ssl', ssl)
  /\ op' = op \/ op # "read" \/ (ssl.pend = 0 /\ GivesUp)
HandsOver ==
  /\ kind = "tls" /\ inq' = inq /\ op = "read" /\ op' = "none" /\ status' = "ok"
  /\ ssl' \in Engines /\ ssl'.alive = ssl.alive /\ ssl'.part = ssl.part
  /\ ssl'.hs = ssl.hs
ReadsHalf ==
  /\ kind = "tls" /\ TakesHalf
  /\ op = "read" \/ (op = "handshake" /\ ssl.hs = 1)

(* There are no others.                                                    *)
LEMMA RunsEngine ==
  ASSUME ssl \in Engines, kind \in {"plain", "tls"}, tx \in Nat,
         kind = "tls" => inq \in Seq(Records), Runs
  PROVE  PlainStep \/ KeepsReading \/ HandsOver \/ ReadsHalf
<1>a. Alike(ssl, ssl)
  BY DEF Alike
<1>1. CASE PlainRead
  BY <1>1 DEF PlainRead, PlainStep, AtEof, Answer
<1>2. CASE PlainWrite
  BY <1>2 DEF PlainWrite, PlainStep, Answer
<1>3. CASE Interrupted
  BY <1>a, <1>3 DEF Interrupted, endpoint, PlainStep, KeepsReading
<1>4. CASE HandshakeStep
  <2>1. CASE ssl' = [ssl EXCEPT !.errq = "clean"] /\ Continue /\ UNCHANGED inq
    <3>1. Alike(ssl', ssl)
      BY <2>1 DEF Alike, Engines
    <3> QED
      BY Zenon, <1>4, <2>1, <3>1 DEF HandshakeStep, KeepsReading, Continue
  <2>2. CASE ssl.hs \in {0, 2} /\ EngineWrites([ssl EXCEPT !.hs = @ + 1]) /\ UNCHANGED inq
    <3>1. Alike([ssl EXCEPT !.hs = @ + 1], ssl)
      BY <2>2 DEF Alike, Engines
    <3> QED
      BY <1>4, <2>2, <3>1, EngineWritesEffect DEF HandshakeStep, KeepsReading
  <2>3. CASE ssl.hs = 1 /\ EngineReads
    BY <1>4, <2>3, EngineReadsEffect DEF HandshakeStep, KeepsReading, ReadsHalf
  <2>4. CASE Fail([ssl EXCEPT !.errq = "dirty"]) /\ UNCHANGED inq
    BY <1>4, <2>4 DEF HandshakeStep, KeepsReading, Alike, Engines, Fail
  <2>5. CASE Answer("ok") /\ UNCHANGED <<inq, ssl>>
    BY <1>4, <1>a, <2>5 DEF HandshakeStep, KeepsReading
  <2> QED
    BY <1>4, <2>1, <2>2, <2>3, <2>4, <2>5 DEF HandshakeStep
<1>5. CASE SendReply
  <2>1. Alike([ssl EXCEPT !.due = "no"], ssl)
    BY DEF Alike, Engines
  <2> QED
    BY <1>5, <2>1, EngineWritesEffect DEF SendReply, KeepsReading
<1>6. CASE TlsRead
  <2>1. ASSUME NEW k \in 1..ssl.pend, ssl' = [ssl EXCEPT !.pend = @ - k], Answer("ok"),
               UNCHANGED inq
        PROVE  HandsOver
    <3>1. /\ ssl' \in Engines /\ ssl'.alive = ssl.alive /\ ssl'.part = ssl.part
          /\ ssl'.hs = ssl.hs
      BY <2>1 DEF Engines
    <3> QED
      BY Zenon, <1>6, <2>1, <3>1 DEF TlsRead, HandsOver, Answer
  <2>2. CASE ssl.pend = 0 /\ Fail([ssl EXCEPT !.want = "none"]) /\ UNCHANGED inq
    <3>1. Alike([ssl EXCEPT !.want = "none"], ssl)
      BY DEF Alike, Engines
    <3>2. GivesUp
      BY Zenon, <2>2 DEF Fail, Answer, SslError, GivesUp
    <3> QED
      BY <1>6, <2>2, <3>1, <3>2 DEF TlsRead, KeepsReading, Fail
  <2>3. CASE ssl.pend = 0 /\ EngineReads
    BY <1>6, <2>3, EngineReadsEffect DEF TlsRead, KeepsReading, ReadsHalf
  <2> QED
    BY <1>6, <2>1, <2>2, <2>3 DEF TlsRead
<1>7. CASE TlsWrite
  <2>1. CASE ssl' = [ssl EXCEPT !.wpend = 2, !.wlen = tx] \/ ssl' = [ssl EXCEPT !.wlen = 0]
    <3>1. Alike(ssl', ssl)
      BY Zenon, <2>1, BegunRecord
    <3> QED
      BY <1>7, <3>1 DEF TlsWrite, KeepsReading
  <2>2. CASE ssl.wpend > 0 /\ EngineWrites([ssl EXCEPT !.wpend = @ - 1])
    <3>1. Alike([ssl EXCEPT !.wpend = @ - 1], ssl)
      BY <2>2 DEF Alike, Engines
    <3> QED
      BY <1>7, <2>2, <3>1, EngineWritesEffect DEF TlsWrite, KeepsReading
  <2> QED
    BY <1>7, <2>1, <2>2 DEF TlsWrite
<1>8. CASE ShutdownStep
  <2>1. Alike(ssl', ssl)
    BY ZenonT(40), <1>8 DEF ShutdownStep, BioWrite, Alike, Engines
  <2> QED
    BY <1>8, <2>1 DEF ShutdownStep, KeepsReading
<1> QED
  BY Zenon, <1>1, <1>2, <1>3, <1>4, <1>5, <1>6, <1>7, <1>8 DEF Runs

\* There is no engine, or none that has begun.
Fresh == ssl.alive = "no" /\ ssl.pend = 0 /\ ssl.hs = 0 /\ ssl.part = "none"

(* init() makes a new engine or none, and destroy() leaves none.          *)
LEMMA InitFresh ==
  ASSUME ssl \in Engines
  PROVE  /\ InitFails => ssl' \in Engines /\ Fresh'
         /\ InitSucceeds /\ kind = "plain" => ssl' = ssl
         /\ InitSucceeds /\ kind = "tls" =>
              ssl' \in Engines /\ ssl'.pend = 0 /\ ssl'.part = "none"
<1>1. ssl.errq \in {"clean", "dirty"} /\ ssl.ctx \in {"no", "yes"}
  BY DEF Engines
<1>2. ASSUME InitFails PROVE ssl' \in Engines /\ Fresh'
  <2>1. ssl' = [Engine("no") EXCEPT !.errq = "dirty", !.ctx = "yes"]
    BY Zenon, <1>2 DEF InitFails, Refused, NoEngine
  <2> QED
    BY Zenon, <2>1, NewEngine DEF New, Fresh
<1>3. ASSUME InitSucceeds, kind = "tls"
      PROVE  ssl' \in Engines /\ ssl'.pend = 0 /\ ssl'.part = "none"
  <2>1. ssl' = [Engine("yes") EXCEPT !.errq = ssl.errq, !.ctx = "yes"]
    BY Zenon, <1>3 DEF InitSucceeds
  <2> QED
    BY Zenon, <1>1, <2>1, NewEngine DEF New
<1>4. InitSucceeds /\ kind = "plain" => ssl' = ssl
  BY DEF InitSucceeds
<1> QED
  BY <1>2, <1>3, <1>4

(* destroy() leaves no half-read record behind.                            *)
LEMMA DestroyFresh ==
  ASSUME ssl \in Engines, Destroy
  PROVE  ssl' \in Engines /\ Fresh'
<1>1. ssl.errq \in {"clean", "dirty"} /\ ssl.ctx \in {"no", "yes"}
  BY DEF Engines
<1>2. ssl' = [Engine("no") EXCEPT !.errq = ssl.errq, !.ctx = ssl.ctx]
  BY Zenon DEF Destroy, NoEngine
<1>3. New([Engine("no") EXCEPT !.errq = ssl.errq, !.ctx = ssl.ctx], "no")
  BY Zenon, <1>1, NewEngine
<1>4. New(ssl', "no")
  BY Zenon, <1>2, <1>3
<1> QED
  BY <1>4 DEF New, Fresh

-----------------------------------------------------------------------------
(* Where the thread may be.                                               *)

Ending == {"destroy", "clear", "close"}
Methods == {"read", "write", "handshake", "shutdown"}

\* Which places belong to which _state, and which places a running
\* transport_write or subscribe may return to.
PlaceInv ==
  /\ pc \in Dialing => st = "uninitialized"
  /\ pc \in {"in_progress", "connected"} => st \in {"uninitialized", "in_progress"}
  /\ pc \in {"transport", "handshake"} => st = "transport"
  /\ pc \in {"bound", "read", "read_on"} => st = "protocol"
  /\ pc = "out" => st \in {"protocol", "close_transport"}
  /\ pc \in {"flush", "write"} =>
       \/ st = "protocol" /\ ret \in {"wait", "read_on", "out", "steps"}
       \/ st = "close_transport" /\ ret = "steps"
  /\ pc = "ctl" =>
       \/ st = "in_progress" /\ ret = "wait"
       \/ st = "transport" /\ ret = "steps"
       \/ st = "protocol" /\ ret \in {"wait", "bound", "read_on", "out", "steps"}
       \/ st = "close_transport" /\ ret \in {"wait", "steps"}
  /\ pc = "steps" => st \in {"transport", "protocol", "close_transport"}
  /\ pc = "wait" => st \in {"in_progress", "transport", "protocol", "close_transport"}
  /\ pc = "shutdown" => st = "close_transport"
  /\ pc \in Ending \cup {"ended"} => st \in {"closed", "error"}
  /\ pc # "ctl" => todo = <<>>
  /\ op # "none" => op \in Methods /\ pc = op

(* Every step leads to a place that belongs to the state.                 *)
LEMMA PlaceStep == PlaceInv /\ [SocketNext]_allvars => PlaceInv'
<1> SUFFICES ASSUME PlaceInv, [SocketNext]_allvars PROVE PlaceInv'
  OBVIOUS
<1> USE DEF PlaceInv, Dialing, Ending, Methods, vars, interest, endpoint, owner,
  network, dial, Outside, Socketside, Goto
<1>1. CASE Dials
  BY <1>1 DEF Dials, Resolve, Socket, Ioctl, Connect, NextAddress
<1>2. CASE Dialled
  BY <1>2 DEF Dialled
<1>3. CASE Ctls
  BY <1>3 DEF Ctls
<1>4. CASE HandleEvent
  BY <1>4 DEF HandleEvent, Polled, CallMethod, Invoke, Continue
<1>5. CASE StepInProgress
  BY <1>5 DEF StepInProgress, Ends
<1>6. CASE Connected
  BY <1>6 DEF Connected, InitAborts, InitFails, InitSucceeds, Register
<1>7. CASE StartHandshake \/ ReadOn
  BY <1>7 DEF StartHandshake, ReadOn, CallMethod, Invoke
<1>8. CASE StepTransport
  BY <1>8 DEF StepTransport, Answered, Taken, Ends, Register
<1>9. CASE Bound \/ Heartbeat
  BY <1>9 DEF Bound, Heartbeat, Says
<1>10. CASE AfterRead
  BY <1>10 DEF AfterRead, Answered, Taken, Ends, Register
<1>11. CASE Out
  BY <1>11 DEF Out
<1>12. CASE Steps
  BY <1>12 DEF Steps, CallMethod, Invoke, Continue, Ends
<1>13. CASE Flush
  BY <1>13 DEF Flush, CallMethod, Invoke, Continue, Register
<1>14. CASE AfterWrite
  BY <1>14 DEF AfterWrite, Answered, Taken, Ends, Register
<1>15. CASE AfterShutdown
  BY <1>15 DEF AfterShutdown, Answered, Taken, Ends, Register
<1>16. CASE Stop
  BY <1>16 DEF Stop, Ends
<1>17. CASE DestroyEndpoint
  BY <1>17 DEF DestroyEndpoint, Destroy
<1>18. CASE ClearFd \/ CloseFd
  BY <1>18 DEF ClearFd, CloseFd, ClearInterest, CloseInterest
<1>19. CASE Redial
  BY <1>19 DEF Redial
<1>20. CASE Method
  BY <1>20, RunsOp DEF Method
<1>21. CASE OtherConnection
  BY <1>21 DEF OtherConnection, OtherFails
<1>22. CASE ConnectEnds \/ Arrives \/ PeerEnds \/ RoomFreed
  BY <1>22 DEF ConnectEnds, Arrives, PeerEnds, RoomFreed, Network, Activate
<1>23. CASE Over \/ UNCHANGED allvars
  BY <1>23 DEF Over, allvars
<1> QED
  BY Zenon, <1>1, <1>2, <1>3, <1>4, <1>5, <1>6, <1>7, <1>8, <1>9, <1>10, <1>11, <1>12,
    <1>13, <1>14, <1>15, <1>16, <1>17, <1>18, <1>19, <1>20, <1>21, <1>22, <1>23
  DEF SocketNext, Thread

-----------------------------------------------------------------------------
(* The descriptor.                                                        *)

\* dial() hands its descriptor to the connection, which has no other.
OwnerInv ==
  /\ pc \in Dialing => DialInv
  /\ pc = "ended" => open = {} /\ fd = NoFd
  /\ pc \notin Dialing => err = "ECONNREFUSED"
  /\ pc \notin Dialing \cup {"ended"} => open = {fd}

(* The connection keeps the descriptor open until teardown() closes it.   *)
LEMMA OwnerStep == PlaceInv /\ OwnerInv /\ [SocketNext]_allvars => OwnerInv'
<1> SUFFICES ASSUME PlaceInv, OwnerInv, [SocketNext]_allvars PROVE OwnerInv'
  OBVIOUS
<1> USE DEF PlaceInv, Dialing, Ending, Methods, OwnerInv, vars, owner, dial, Goto
<1>1. CASE Dials
  <2>1. Next /\ pc \in Dialing
    BY <1>1 DEF Dials, Next, Resolve, Socket, Ioctl, Connect, NextAddress
  <2>2. DialInv'
    BY <2>1, DialStep DEF OwnerInv
  <2>3. pc' \in Dialing
    BY <2>2 DEF DialInv
  <2> QED
    BY <2>2, <2>3 DEF OwnerInv
<1>2. CASE Dialled
  BY <1>2, DialAssumption DEF Dialled, DialInv, NoFd
<1>3. CASE Ctls
  BY <1>3 DEF Ctls
<1>4. CASE HandleEvent
  BY <1>4 DEF HandleEvent, CallMethod
<1>5. CASE StepInProgress \/ Connected
  BY <1>5 DEF StepInProgress, Ends, Connected, Register
<1>6. CASE StartHandshake \/ ReadOn
  BY <1>6 DEF StartHandshake, ReadOn, CallMethod
<1>7. CASE StepTransport \/ AfterRead \/ AfterShutdown
  BY <1>7 DEF StepTransport, AfterRead, AfterShutdown, Answered, Ends, Register
<1>8. CASE Bound \/ Heartbeat \/ Out
  BY <1>8 DEF Bound, Heartbeat, Out
<1>9. CASE Steps \/ Stop
  BY <1>9 DEF Steps, Stop, CallMethod, Ends
<1>10. CASE Flush
  BY <1>10 DEF Flush, CallMethod, Register
<1>11. CASE AfterWrite
  BY <1>11 DEF AfterWrite, Answered, Ends, Register
<1>12. CASE DestroyEndpoint \/ ClearFd
  BY <1>12 DEF DestroyEndpoint, ClearFd
<1>13. CASE CloseFd
  BY <1>13 DEF CloseFd
<1>14. CASE Redial
  BY <1>14 DEF Redial, DialInv, Failures
<1>15. CASE Method \/ OtherConnection \/ Over \/ UNCHANGED allvars
  BY <1>15 DEF Method, OtherConnection, Over, allvars, DialInv
<1>16. CASE ConnectEnds \/ Arrives \/ PeerEnds \/ RoomFreed
  BY <1>16 DEF ConnectEnds, Arrives, PeerEnds, RoomFreed, Network, DialInv
<1> QED
  BY Zenon, <1>1, <1>2, <1>3, <1>4, <1>5, <1>6, <1>7, <1>8, <1>9, <1>10, <1>11, <1>12,
    <1>13, <1>14, <1>15, <1>16
  DEF SocketNext, Thread

-----------------------------------------------------------------------------
(* The registration.                                                      *)

(* What the connection registers for.                                      *)
LEMMA RegBits == {"in"} \in Wants /\ {"out"} \in Wants /\ Armed \in Wants
BY Zenon DEF Wants, Bits, Armed, WantRead, WantWrite

(* The registration is in order between any two system calls.             *)
LEMMA RegStep == RegOK /\ [SocketNext]_allvars => RegOK'
<1> SUFFICES ASSUME RegOK, [SocketNext]_allvars PROVE RegOK'
  OBVIOUS
<1>1. CASE Dials
  BY <1>1, RegQuiet DEF Dials
<1>2. CASE Dialled
  BY Zenon, <1>2, RegQuiet, RegSubscribe, RegBits DEF Dialled, interest
<1>3. CASE Ctls
  BY Zenon, <1>3, RegQuiet, CtlStep DEF Ctls
<1>4. CASE HandleEvent
  BY <1>4, RegShrinks DEF HandleEvent, Polled
<1>5. CASE StepInProgress \/ StartHandshake \/ ReadOn
  BY Zenon, <1>5, RegQuiet DEF StepInProgress, StartHandshake, ReadOn
<1>6. CASE Connected
  BY Zenon, <1>6, RegQuiet, RegSubscribe, RegBits DEF Connected, Register
<1>7. CASE StepTransport
  BY Zenon, <1>7, RegQuiet, RegSubscribe, RegBits DEF StepTransport, Register
<1>8. CASE AfterRead
  BY Zenon, <1>8, RegQuiet, RegSubscribe, RegBits DEF AfterRead, Register
<1>9. CASE AfterShutdown
  BY Zenon, <1>9, RegQuiet, RegSubscribe, RegBits DEF AfterShutdown, Register
<1>10. CASE AfterWrite
  BY Zenon, <1>10, RegQuiet, RegSubscribe, RegBits DEF AfterWrite, Register
<1>11. CASE Flush
  BY Zenon, <1>11, RegQuiet, RegSubscribe, RegBits DEF Flush, Register
<1>12. CASE Bound \/ Heartbeat \/ Out \/ Steps \/ Stop
  BY Zenon, <1>12, RegQuiet DEF Bound, Heartbeat, Out, Steps, Stop
<1>13. CASE DestroyEndpoint \/ Redial
  BY Zenon, <1>13, RegQuiet DEF DestroyEndpoint, Redial
<1>14. CASE ClearFd
  BY <1>14, RegShrinks DEF ClearFd, ClearInterest
<1>15. CASE CloseFd
  BY <1>15, RegShrinks DEF CloseFd, CloseInterest
<1>16. CASE Method \/ OtherConnection \/ Over \/ UNCHANGED allvars
  BY Zenon, <1>16, RegQuiet DEF Method, OtherConnection, Over, allvars
<1>17. CASE ConnectEnds \/ Arrives \/ PeerEnds \/ RoomFreed
  BY Zenon, <1>17, RegActivate DEF ConnectEnds, Arrives, PeerEnds, RoomFreed
<1> QED
  BY Zenon, <1>1, <1>2, <1>3, <1>4, <1>5, <1>6, <1>7, <1>8, <1>9, <1>10, <1>11, <1>12,
    <1>13, <1>14, <1>15, <1>16, <1>17
  DEF SocketNext, Thread

\* A descriptor that is not there is not registered.
Idle == pc \in Dialing \cup {"ended"} => reg = {} /\ active = {}

(* Whatever was registered is gone when the descriptor is closed.         *)
LEMMA IdleStep == PlaceInv /\ Idle /\ [SocketNext]_allvars => Idle'
<1> SUFFICES ASSUME PlaceInv, Idle, [SocketNext]_allvars PROVE Idle'
  OBVIOUS
<1> USE DEF PlaceInv, Dialing, Ending, Methods, Idle, vars, interest, owner, dial,
  Goto
<1>1. CASE Dials
  BY <1>1 DEF Dials, Resolve, Socket, Ioctl, Connect, NextAddress
<1>2. CASE Dialled
  BY <1>2 DEF Dialled
<1>3. CASE Ctls
  BY <1>3 DEF Ctls
<1>4. CASE HandleEvent
  BY <1>4 DEF HandleEvent, CallMethod
<1>5. CASE StepInProgress \/ Connected
  BY <1>5 DEF StepInProgress, Ends, Connected, Register
<1>6. CASE StartHandshake \/ ReadOn
  BY <1>6 DEF StartHandshake, ReadOn, CallMethod
<1>7. CASE StepTransport \/ AfterRead \/ AfterShutdown
  BY <1>7 DEF StepTransport, AfterRead, AfterShutdown, Answered, Ends, Register
<1>8. CASE Bound \/ Heartbeat \/ Out
  BY <1>8 DEF Bound, Heartbeat, Out
<1>9. CASE Steps \/ Stop
  BY <1>9 DEF Steps, Stop, CallMethod, Ends
<1>10. CASE Flush
  BY <1>10 DEF Flush, CallMethod, Register
<1>11. CASE AfterWrite
  BY <1>11 DEF AfterWrite, Answered, Ends, Register
<1>12. CASE DestroyEndpoint \/ ClearFd
  BY <1>12 DEF DestroyEndpoint, ClearFd
<1>13. CASE CloseFd
  BY <1>13 DEF CloseFd, CloseInterest
<1>14. CASE Redial
  BY <1>14 DEF Redial
<1>15. CASE Method \/ OtherConnection \/ Over \/ UNCHANGED allvars
  BY <1>15 DEF Method, OtherConnection, Over, allvars
<1>16. CASE ConnectEnds \/ Arrives \/ PeerEnds \/ RoomFreed
  BY <1>16 DEF ConnectEnds, Arrives, PeerEnds, RoomFreed, Network, Activate
<1> QED
  BY Zenon, <1>1, <1>2, <1>3, <1>4, <1>5, <1>6, <1>7, <1>8, <1>9, <1>10, <1>11, <1>12,
    <1>13, <1>14, <1>15, <1>16
  DEF SocketNext, Thread

-----------------------------------------------------------------------------
(* The socket.                                                            *)

Units == {"byte"} \cup Records

\* What the kernel keeps of the socket, and the peer of the stream.
StreamInv ==
  /\ kind \in {"plain", "tls"}
  /\ inq \in Seq(Units) /\ room \in Nat /\ tx \in Nat
  /\ fin \in {"no", "fin", "rst"}
  /\ kind = "tls" => inq \in Seq(Records) /\ half \in Records \cup {"none", "ended"}
  /\ conn \in {"none", "syn"} => inq = <<>> /\ fin = "no"
  /\ pc \in Dialing \cup {"ended"} => conn = "none"

(* Every step keeps the socket in order.                                  *)
LEMMA StreamStep == PlaceInv /\ StreamInv /\ [SocketNext]_allvars => StreamInv'
<1> SUFFICES ASSUME PlaceInv, StreamInv, [SocketNext]_allvars PROVE StreamInv'
  OBVIOUS
<1> USE DEF PlaceInv, Dialing, Ending, Methods, StreamInv, vars, endpoint, owner,
  network, dial, Outside, Socketside, Goto
<1>1. CASE Dials
  BY <1>1 DEF Dials, Resolve, Socket, Ioctl, Connect, NextAddress
<1>2. CASE Dialled
  BY <1>2 DEF Dialled
<1>3. CASE Ctls
  BY <1>3 DEF Ctls
<1>4. CASE HandleEvent
  BY <1>4 DEF HandleEvent, CallMethod
<1>5. CASE StepInProgress
  BY <1>5 DEF StepInProgress, Ends
<1>6. CASE Connected
  BY <1>6 DEF Connected, InitAborts, InitFails, InitSucceeds, Register
<1>7. CASE StartHandshake \/ ReadOn
  BY <1>7 DEF StartHandshake, ReadOn, CallMethod
<1>8. CASE StepTransport \/ AfterRead \/ AfterShutdown
  BY <1>8 DEF StepTransport, AfterRead, AfterShutdown, Answered, Ends, Register
<1>9. CASE Bound \/ Heartbeat
  BY <1>9 DEF Bound, Heartbeat, Says
<1>10. CASE Out \/ Steps \/ Stop
  BY <1>10 DEF Out, Steps, Stop, CallMethod, Ends
<1>11. CASE Flush
  BY <1>11 DEF Flush, CallMethod, Register
<1>12. CASE AfterWrite
  BY <1>12 DEF AfterWrite, Answered, Ends, Register
<1>13. CASE DestroyEndpoint \/ ClearFd
  BY <1>13 DEF DestroyEndpoint, ClearFd, Destroy
<1>14. CASE CloseFd
  BY <1>14, EndpointAssumption, EmptySeq DEF CloseFd
<1>15. CASE Redial
  BY <1>15 DEF Redial
<1>16. CASE Method
  <2>1. /\ kind' = kind /\ fin' = fin /\ inq' \in Seq(Units) /\ room' \in Nat
        /\ tx' \in Nat /\ (inq = <<>> => inq' = <<>>)
    BY <1>16, RunsSocket DEF Method
  <2>2. inq \in Seq(Records) => inq' \in Seq(Records)
    BY <1>16, RunsSocket DEF Method
  <2> QED
    BY <1>16, <2>1, <2>2 DEF Method
<1>17. CASE OtherConnection \/ Over \/ UNCHANGED allvars
  BY <1>17 DEF OtherConnection, OtherFails, Over, allvars
<1>18. CASE ConnectEnds
  BY <1>18 DEF ConnectEnds, AtCall, Network
<1>19. CASE Arrives
  <2>1. PICK u \in Units : NextHalf(u) /\ inq' = Append(inq, u)
    BY <1>19 DEF Arrives, Units, Records
  <2>2. kind = "tls" => u \in Records /\ half' \in Records \cup {"none", "ended"}
    BY <2>1 DEF NextHalf, Records
  <2> QED
    BY <1>19, <2>1, <2>2 DEF Arrives, AtCall, Network
<1>20. CASE PeerEnds
  BY <1>20 DEF PeerEnds, AtCall, Network
<1>21. CASE RoomFreed
  BY <1>21, EndpointAssumption DEF RoomFreed, AtCall, Network
<1> QED
  BY Zenon, <1>1, <1>2, <1>3, <1>4, <1>5, <1>6, <1>7, <1>8, <1>9, <1>10, <1>11, <1>12,
    <1>13, <1>14, <1>15, <1>16, <1>17, <1>18, <1>19, <1>20, <1>21
  DEF SocketNext, Thread

-----------------------------------------------------------------------------
(* Events.                                                                *)

\* Every event that the connection is registered for and the socket ready for
\* is on its way.
Pending ==
  \A b \in reg \cap Level :
    active \cap (IF backend = "epoll" THEN {"any"} ELSE {b}) # {}

\* The connection registers again, or ends, before it waits for an event.
Owes ==
  \/ pc \in {"in_progress", "connected", "transport", "handshake", "read", "read_on",
             "bound", "shutdown", "aborted"} \cup Ending
  \/ pc \in {"flush", "write"} /\ ret # "wait"
  \/ pc = "out" /\ ("out" \in ev \/ st = "close_transport")
  \/ pc = "steps" /\ st = "close_transport"
  \/ pc = "ctl" /\ todo # <<>>

EdgeInv == Pending \/ Owes \/ refused = "yes"

(* A socket with an error is ready for everything.                         *)
LEMMA LevelBits ==
  Level \subseteq {"in", "out", "err"} /\ ("err" \in Level => Bits \subseteq Level)
BY DEF Level, Bits

(* The readiness of the socket depends on the network alone.              *)
LEMMA LevelKept == UNCHANGED <<conn, inq, fin, room>> => Level' = Level
BY DEF Level

(* A method of the endpoint makes the socket ready for nothing new.        *)
LEMMA LevelMethod == StreamInv /\ Method => Level' \subseteq Level
<1> SUFFICES ASSUME StreamInv, Method PROVE Level' \subseteq Level
  OBVIOUS
<1>1. /\ UNCHANGED <<conn, fin>> /\ (inq = <<>> => inq' = <<>>)
      /\ room \in Nat /\ room' \in Nat /\ (room = 0 => room' = 0)
  BY RunsSocket DEF StreamInv, Method, network
<1> QED
  BY <1>1 DEF Level

(* A step of neither the network nor the registration keeps what is       *)
(* pending.                                                               *)
LEMMA PendingKept ==
  ASSUME Pending, UNCHANGED interest, Level' \subseteq Level
  PROVE  Pending'
BY DEF Pending, interest

(* What becomes ready is announced.                                        *)
LEMMA PendingActivate ==
  ASSUME NEW bits, RegOK, Pending, Activate(bits), Level' \subseteq Level \cup bits
  PROVE  Pending'
<1>1. CASE reg = {}
  BY <1>1 DEF Activate, Pending
<1>2. CASE reg # {} /\ backend = "epoll"
  BY <1>2 DEF Activate, Pending, Raised
<1>3. CASE reg # {} /\ backend = "kqueue"
  BY <1>3 DEF Activate, Pending, Raised
<1> QED
  BY <1>1, <1>2, <1>3 DEF RegOK

(* A registration looks at the socket again, unless the kernel refuses it. *)
LEMMA PendingCtl ==
  ASSUME RegOK, Ctl(Level), Level' = Level
  PROVE  todo' # <<>> \/ refused' = "yes" \/ Pending'
<1>1. CASE backend = "epoll" /\ (CtlMod(Level) \/ CtlAdd(Level))
  BY <1>1 DEF CtlMod, CtlAdd, Registered, Raised, Pending
<1>2. CASE KeventDelete /\ \E w : Tail(todo) = <<Call("add", w)>>
  BY <1>2 DEF KeventDelete
<1>3. CASE backend = "kqueue" /\ KeventAdd(Level) /\ reg \subseteq Head(todo).bits
  <2>1. SUFFICES ASSUME refused' # "yes" PROVE Pending'
    OBVIOUS
  <2>2. FiltersAdded(Head(todo).bits, Level) /\ backend' = backend
    BY <1>3, <2>1 DEF KeventAdd
  <2> QED
    BY <1>3, <2>2 DEF FiltersAdded, Raised, Pending
<1> QED
  BY Zenon, CtlShape, <1>1, <1>2, <1>3

(* An event without EPOLLIN and EPOLLOUT comes to nobody who waits for them. *)
LEMMA PolledNoBit ==
  ASSUME NEW e, RegOK, Polled(e, Level), e \cap Bits = {}
  PROVE  Pending'
<1>1. CASE backend = "epoll"
  <2>1. reg = {}
    BY Zenon, <1>1, LevelBits DEF Polled, RegOK, Bits
  <2> QED
    BY <2>1 DEF Polled, Pending
<1>2. CASE backend = "kqueue"
  BY Zenon, <1>2, LevelBits DEF Polled, RegOK, Bits
<1> QED
  BY <1>1, <1>2 DEF RegOK


(* Without a registration there is nothing to announce.                    *)
LEMMA NotRegistered == reg' = {} => Pending'
BY DEF Pending

(* No step of the network leaves an event unannounced.                     *)
LEMMA PendingNetwork ==
  ASSUME RegOK, StreamInv, Pending, ConnectEnds \/ Arrives \/ PeerEnds \/ RoomFreed
  PROVE  Pending'
<1>1. CASE ConnectEnds
  <2>1. ASSUME conn' = "est", Activate({"out"}) PROVE Level' \subseteq Level \cup {"out"}
    BY <1>1, <2>1 DEF ConnectEnds, Level, StreamInv
  <2>2. Level' \subseteq Level \cup {"in", "out", "err"}
    BY DEF Level
  <2> QED
    BY <1>1, <2>1, <2>2, PendingActivate DEF ConnectEnds
<1>2. CASE Arrives
  <2>1. Level' \subseteq Level \cup {"in"}
    BY <1>2 DEF Arrives, Level
  <2> QED
    BY <1>2, <2>1, PendingActivate DEF Arrives
<1>3. CASE PeerEnds
  <2>1. ASSUME fin' = "fin" PROVE Level' \subseteq Level \cup {"in"}
    BY <1>3, <2>1 DEF PeerEnds, Level, network
  <2>2. Level' \subseteq Level \cup {"in", "out", "err"}
    BY DEF Level
  <2> QED
    BY <1>3, <2>1, <2>2, PendingActivate DEF PeerEnds
<1>4. CASE RoomFreed
  <2>1. Level' \subseteq Level \cup {"out"}
    BY <1>4 DEF RoomFreed, Level, network
  <2> QED
    BY <1>4, <2>1, PendingActivate DEF RoomFreed
<1> QED
  BY <1>1, <1>2, <1>3, <1>4

(* A delivered event is owed a registration until it has been made.       *)
LEMMA EdgeStep ==
  PlaceInv /\ RegOK /\ Idle /\ StreamInv /\ EdgeInv /\ [SocketNext]_allvars
    => EdgeInv'
<1> SUFFICES ASSUME PlaceInv, RegOK, Idle, StreamInv, EdgeInv, [SocketNext]_allvars
             PROVE  EdgeInv'
  OBVIOUS
<1> USE DEF PlaceInv, Dialing, Ending, Methods, EdgeInv, Owes, vars, interest,
  endpoint, owner, network, dial, Outside, Socketside, Goto
<1>1. CASE Dials
  BY <1>1, LevelKept, PendingKept
  DEF Dials, Resolve, Socket, Ioctl, Connect, NextAddress
<1>2. CASE Dialled
  BY <1>2, NotRegistered DEF Dialled, Idle
<1>3. CASE Ctls
  BY SMTT(30), <1>3, LevelKept, PendingKept, PendingCtl DEF Ctls
<1>4. CASE HandleEvent
  BY <1>4, PolledNoBit DEF HandleEvent, CallMethod, Polled, Bits
<1>5. CASE StepInProgress
  BY <1>5, LevelKept, PendingKept DEF StepInProgress, Ends
<1>6. CASE Connected
  BY <1>6, LevelKept, PendingKept
  DEF Connected, InitAborts, InitFails, InitSucceeds, Register, Subscribe
<1>7. CASE StartHandshake \/ ReadOn
  BY <1>7, LevelKept, PendingKept DEF StartHandshake, ReadOn, CallMethod
<1>8. CASE StepTransport
  BY SMTT(30), <1>8, LevelKept, PendingKept
  DEF StepTransport, Answered, Ends, Register, Subscribe
<1>9. CASE AfterRead
  BY SMTT(30), <1>9, LevelKept, PendingKept
  DEF AfterRead, Answered, Ends, Register, Subscribe
<1>10. CASE AfterShutdown
  BY SMTT(30), <1>10, LevelKept, PendingKept
  DEF AfterShutdown, Answered, Ends, Register, Subscribe
<1>11. CASE Bound \/ Heartbeat
  BY <1>11, LevelKept, PendingKept DEF Bound, Heartbeat, Says
<1>12. CASE Out
  BY <1>12, LevelKept, PendingKept DEF Out
<1>13. CASE Steps
  BY <1>13, LevelKept, PendingKept DEF Steps, CallMethod, Ends
<1>14. CASE Stop
  BY <1>14, LevelKept, PendingKept DEF Stop, Ends
<1>15. CASE Flush
  BY SMTT(30), <1>15, LevelKept, PendingKept DEF Flush, CallMethod, Register, Subscribe
<1>16. CASE AfterWrite
  BY <1>16, LevelKept, PendingKept DEF AfterWrite, Answered, Ends, Register, Subscribe
<1>17. CASE DestroyEndpoint \/ ClearFd
  BY <1>17 DEF DestroyEndpoint, ClearFd
<1>18. CASE CloseFd
  BY <1>18, NotRegistered DEF CloseFd, CloseInterest
<1>19. CASE Redial
  BY <1>19, LevelKept, PendingKept DEF Redial
<1>20. CASE Method
  BY <1>20, LevelMethod, PendingKept DEF Method
<1>21. CASE OtherConnection \/ Over \/ UNCHANGED allvars
  BY <1>21, LevelKept, PendingKept DEF OtherConnection, OtherFails, Over, allvars
<1>22. CASE ConnectEnds \/ Arrives \/ PeerEnds \/ RoomFreed
  <2>1. Pending => Pending'
    BY SMTT(30), <1>22, PendingNetwork
  <2>2. UNCHANGED <<pc, st, ev, ret, todo, refused>>
    BY <1>22 DEF ConnectEnds, Arrives, PeerEnds, RoomFreed, Network, Activate
  <2> QED
    BY <2>1, <2>2
<1> QED
  BY Zenon, <1>1, <1>2, <1>3, <1>4, <1>5, <1>6, <1>7, <1>8, <1>9, <1>10, <1>11, <1>12,
    <1>13, <1>14, <1>15, <1>16, <1>17, <1>18, <1>19, <1>20, <1>21, <1>22
  DEF SocketNext, Thread

-----------------------------------------------------------------------------
(* The engine.                                                            *)

\* The places inside transport_read's loop, the handlers it calls included; it
\* comes back to read() from all of them.
Reading ==
  /\ "in" \in ev
  /\ \/ pc \in {"read", "read_on", "bound"}
     \/ pc \in {"flush", "write", "ctl"} /\ ret = "read_on"

EngineInv ==
  /\ ssl \in Engines
  /\ \/ kind = "plain"
     \/ st \in {"uninitialized", "in_progress"}
     \/ pc \in {"clear", "close", "ended"}
     => Fresh
  /\ \/ pc \in {"read", "read_on"}
     \/ pc \in {"flush", "write", "ctl"} /\ ret = "read_on"
     => "in" \in ev
  /\ ssl.pend # 0 => st \in {"close_transport", "closed", "error"} \/ Reading
  /\ pc = "read" /\ op = "none" /\ status \notin {"none", "ok"} => ssl.pend = 0

HalfRead == IF ssl.part = "none" THEN 0 ELSE 1

\* Until the engine has the peer's hello, the two halves of it come first.
HelloInv ==
  kind = "tls" /\ ssl.hs <= 1 /\ pc \notin {"clear", "close"} =>
    /\ given = Len(inq) + HalfRead
    /\ given = 0 => half = "none"
    /\ given = 1 => half = "hello"
    /\ \A i \in 1..Len(inq) : i + HalfRead <= 2 => inq[i] = "hello"

(* The half record the handshake reads is the peer's hello.                *)
LEMMA HelloFirst ==
  ASSUME StreamInv, HelloInv, kind = "tls", ssl.hs <= 1, pc \notin {"clear", "close"},
         inq # <<>>
  PROVE  /\ Head(inq) \in Records /\ Len(inq) \in Nat \ {0} /\ Head(inq) = inq[1]
         /\ Head(inq) = "hello"
<1>1. inq \in Seq(Records) /\ Len(inq) \in Nat \ {0} /\ Head(inq) \in Records
  BY EmptySeq, HeadTailProperties DEF StreamInv
<1>2. Head(inq) = inq[1]
  BY <1>1
<1>3. 1 + HalfRead <= 2 /\ 1 \in 1..Len(inq)
  BY <1>1 DEF HalfRead
<1> QED
  BY <1>1, <1>2, <1>3 DEF HelloInv

(* Decrypted bytes are left only where read() is called again.            *)
LEMMA EngineStep ==
  PlaceInv /\ StreamInv /\ HelloInv /\ EngineInv /\ [SocketNext]_allvars
    => EngineInv'
<1> SUFFICES ASSUME PlaceInv, StreamInv, HelloInv, EngineInv, [SocketNext]_allvars
             PROVE  EngineInv'
  OBVIOUS
<1> USE DEF PlaceInv, EngineInv, Reading, Fresh, Dialing, Ending, Methods, vars,
  endpoint, owner, dial, Outside, Socketside, Goto
<1>1. CASE Dials
  BY <1>1 DEF Dials, Resolve, Socket, Ioctl, Connect, NextAddress
<1>2. CASE Dialled
  BY <1>2 DEF Dialled
<1>3. CASE Ctls
  BY <1>3 DEF Ctls
<1>4. CASE HandleEvent
  BY <1>4 DEF HandleEvent, CallMethod, Invoke
<1>5. CASE StepInProgress
  BY <1>5 DEF StepInProgress, Ends
<1>6. CASE Connected
  <2>1. kind' = kind
    BY <1>6 DEF Connected, InitAborts, InitFails, InitSucceeds
  <2> QED
    BY <1>6, <2>1, InitFresh DEF Connected, InitAborts, Register
<1>7. CASE StartHandshake \/ ReadOn
  BY <1>7 DEF StartHandshake, ReadOn, CallMethod, Invoke
<1>8. CASE StepTransport
  BY <1>8 DEF StepTransport, Answered, Taken, Ends, Register
<1>9. CASE AfterRead
  BY <1>9 DEF AfterRead, Answered, Taken, Ends, Register
<1>10. CASE AfterShutdown
  BY <1>10 DEF AfterShutdown, Answered, Taken, Ends, Register
<1>11. CASE Bound \/ Heartbeat
  BY <1>11 DEF Bound, Heartbeat, Says
<1>12. CASE Out
  BY <1>12 DEF Out
<1>13. CASE Steps
  BY <1>13 DEF Steps, CallMethod, Ends
<1>14. CASE Stop
  BY <1>14 DEF Stop, Ends
<1>15. CASE Flush
  BY <1>15 DEF Flush, CallMethod, Register
<1>16. CASE AfterWrite
  BY <1>16 DEF AfterWrite, Answered, Taken, Ends, Register
<1>17. CASE DestroyEndpoint
  BY <1>17, DestroyFresh DEF DestroyEndpoint
<1>18. CASE ClearFd \/ CloseFd
  BY <1>18 DEF ClearFd, CloseFd
<1>19. CASE Redial
  BY <1>19 DEF Redial
<1>20. CASE Method
  <2>1. PlainStep \/ KeepsReading \/ HandsOver \/ ReadsHalf
    BY <1>20, RunsEngine DEF Method, StreamInv
  <2>2. /\ op \in Methods /\ pc = op /\ kind' = kind /\ UNCHANGED <<pc, st, ev, ret>>
        /\ op' \in {op, "none"}
    BY <1>20, RunsOp, RunsSocket DEF Method, StreamInv
  <2>3. CASE PlainStep
    BY <2>2, <2>3 DEF PlainStep
  <2>4. CASE KeepsReading
    BY <2>2, <2>4 DEF KeepsReading, Alike, GivesUp
  <2>5. CASE HandsOver
    BY <2>2, <2>5 DEF HandsOver
  <2>6. CASE ReadsHalf
    <3>1. op = "handshake" => ssl'.pend = ssl.pend
      BY <2>2, <2>6, HelloFirst DEF ReadsHalf, TakesHalf, Begins, Completes
    <3> QED
      BY <2>2, <2>6, <3>1 DEF ReadsHalf, TakesHalf
  <2> QED
    BY <2>1, <2>3, <2>4, <2>5, <2>6
<1>21. CASE OtherConnection
  <2>1. Alike(ssl', ssl) /\ ssl'.hs = ssl.hs
    BY <1>21 DEF OtherConnection, OtherFails, Alike, Engines
  <2> QED
    BY <1>21, <2>1 DEF OtherConnection, OtherFails, Alike
<1>22. CASE Over \/ UNCHANGED allvars
  BY <1>22 DEF Over, allvars
<1>23. CASE ConnectEnds \/ Arrives \/ PeerEnds \/ RoomFreed
  BY <1>23 DEF ConnectEnds, Arrives, PeerEnds, RoomFreed, Network
<1> QED
  BY Zenon, <1>1, <1>2, <1>3, <1>4, <1>5, <1>6, <1>7, <1>8, <1>9, <1>10, <1>11, <1>12,
    <1>13, <1>14, <1>15, <1>16, <1>17, <1>18, <1>19, <1>20, <1>21, <1>22, <1>23
  DEF SocketNext, Thread

(* The peer sends its hello first.                                         *)
LEMMA HelloArrives ==
  ASSUME PlaceInv, StreamInv, HelloInv, Arrives
  PROVE  HelloInv'
<1> SUFFICES ASSUME kind = "tls", ssl.hs <= 1, pc \notin {"clear", "close"}
             PROVE  HelloInv'
  BY DEF Arrives, Network, HelloInv, vars
<1>1. PICK u : NextHalf(u) /\ inq' = Append(inq, u)
  BY DEF Arrives
<1>2. given' = given + 1 /\ UNCHANGED <<ssl, kind, pc>>
  BY DEF Arrives, Network, vars
<1>3. /\ Len(inq) \in Nat /\ HalfRead \in {0, 1} /\ HalfRead' = HalfRead
      /\ given = Len(inq) + HalfRead /\ given \in Nat
  BY <1>2, LenProperties DEF StreamInv, HelloInv, HalfRead
<1>4. /\ Len(inq') = Len(inq) + 1 /\ inq'[Len(inq) + 1] = u
      /\ \A i \in 1..Len(inq) : inq'[i] = inq[i]
  BY <1>1, AppendProperties DEF StreamInv
<1>5. given <= 1 => u = "hello"
  BY <1>1, <1>3 DEF NextHalf, HelloInv
<1>6. given = 0 => half' = "hello"
  BY <1>1, <1>3, <1>5 DEF NextHalf, HelloInv
<1>7. \A i \in 1..Len(inq') : i + HalfRead' <= 2 => inq'[i] = "hello"
  BY <1>3, <1>4, <1>5 DEF HelloInv
<1> QED
  BY <1>2, <1>3, <1>4, <1>6, <1>7 DEF HelloInv

(* The handshake takes the two halves in turn.                             *)
LEMMA HelloMethod ==
  ASSUME PlaceInv, StreamInv, EngineInv, HelloInv, Method
  PROVE  HelloInv'
<1>1. PlainStep \/ KeepsReading \/ HandsOver \/ ReadsHalf
  BY RunsEngine DEF Method, EngineInv, StreamInv
<1>2. UNCHANGED <<pc, kind, given, half>>
  BY RunsSocket DEF Method, StreamInv, vars, network
<1>3. CASE PlainStep
  BY <1>2, <1>3 DEF PlainStep, HelloInv
<1>4. CASE KeepsReading \/ HandsOver
  BY <1>2, <1>4 DEF KeepsReading, HandsOver, Alike, HelloInv, HalfRead
<1>5. CASE ReadsHalf
  <2> SUFFICES ASSUME ssl'.hs <= 1, pc \notin {"clear", "close"} PROVE HelloInv'
    BY <1>2 DEF HelloInv
  <2>1. kind = "tls" /\ inq # <<>> /\ inq' = Tail(inq) /\ ssl.hs <= 1
    BY <1>5 DEF ReadsHalf, TakesHalf, Begins, Completes
  <2>2. Head(inq) \in Records /\ Len(inq) \in Nat \ {0} /\ Head(inq) = "hello"
    BY <2>1, HelloFirst
  <2>3. Begins
    BY <1>5, <2>2 DEF ReadsHalf, TakesHalf, Completes
  <2>4. HalfRead = 0 /\ HalfRead' = 1
    BY <2>2, <2>3 DEF Begins, HalfRead, Records
  <2>5. Len(inq') = Len(inq) - 1 /\ \A i \in 1..Len(inq') : inq'[i] = inq[i + 1]
    BY <2>1, HeadTailProperties DEF StreamInv
  <2> QED
    BY <1>2, <2>1, <2>2, <2>4, <2>5 DEF HelloInv
<1> QED
  BY <1>1, <1>3, <1>4, <1>5

(* The stream begins with the peer's hello.                               *)
LEMMA HelloStep ==
  PlaceInv /\ StreamInv /\ EngineInv /\ HelloInv /\ [SocketNext]_allvars
    => HelloInv'
<1> SUFFICES ASSUME PlaceInv, StreamInv, EngineInv, HelloInv, [SocketNext]_allvars
             PROVE  HelloInv'
  OBVIOUS
<1> USE DEF HelloInv, HalfRead, vars, endpoint, owner, network, dial, Outside,
  Socketside, Goto
<1>1. CASE Arrives \/ Method
  BY SMTT(30), <1>1, HelloArrives, HelloMethod
<1>2. CASE Dials
  BY <1>2 DEF Dials, PlaceInv, Dialing, Resolve, Socket, Ioctl, Connect, NextAddress
<1>3. CASE Dialled
  BY <1>3 DEF Dialled
<1>4. CASE Ctls
  BY <1>4 DEF Ctls, PlaceInv
<1>5. CASE HandleEvent
  BY <1>5 DEF HandleEvent
<1>6. CASE StepInProgress \/ Out \/ Stop
  BY <1>6 DEF StepInProgress, Out, Stop, Ends
<1>7. CASE Connected
  <2>1. ssl \in Engines /\ ssl.hs = 0 /\ ssl.part = "none"
    BY <1>7 DEF Connected, EngineInv, PlaceInv, Fresh
  <2>2. InitSucceeds => ssl'.part = "none"
    BY <2>1, InitFresh DEF InitSucceeds
  <2>3. UNCHANGED <<kind, inq, given, half>>
    BY <1>7 DEF Connected, InitAborts, InitFails, InitSucceeds
  <2>4. pc' = "clear" \/ ssl'.part = "none"
    BY <1>7, <2>1, <2>2 DEF Connected, InitAborts
  <2> QED
    BY <1>7, <2>1, <2>3, <2>4 DEF Connected
<1>8. CASE StartHandshake \/ ReadOn
  BY <1>8 DEF StartHandshake, ReadOn
<1>9. CASE StepTransport
  BY <1>9 DEF StepTransport, Answered
<1>10. CASE AfterRead
  BY <1>10 DEF AfterRead, Answered
<1>11. CASE AfterShutdown
  BY <1>11 DEF AfterShutdown, Answered
<1>12. CASE Bound \/ Heartbeat
  BY <1>12 DEF Bound, Heartbeat
<1>13. CASE Steps
  BY <1>13 DEF Steps
<1>14. CASE Flush
  BY <1>14 DEF Flush
<1>15. CASE AfterWrite
  BY <1>15 DEF AfterWrite, Answered
<1>16. CASE DestroyEndpoint
  BY <1>16 DEF DestroyEndpoint
<1>17. CASE ClearFd
  BY <1>17 DEF ClearFd
<1>18. CASE CloseFd
  BY <1>18 DEF CloseFd, EngineInv, Fresh
<1>19. CASE Redial
  BY <1>19 DEF Redial
<1>20. CASE OtherConnection
  <2>1. ssl'.hs = ssl.hs /\ ssl'.part = ssl.part
    BY SMTT(30), <1>20 DEF OtherConnection, OtherFails, EngineInv, Engines
  <2> QED
    BY <1>20, <2>1 DEF OtherConnection, OtherFails
<1>21. CASE ConnectEnds \/ PeerEnds \/ RoomFreed
  BY SMTT(30), <1>21 DEF ConnectEnds, PeerEnds, RoomFreed, Network
<1>22. CASE Over \/ UNCHANGED allvars
  BY <1>22 DEF Over, allvars
<1> QED
  BY Zenon, <1>1, <1>2, <1>3, <1>4, <1>5, <1>6, <1>7, <1>8, <1>9, <1>10, <1>11, <1>12,
    <1>13, <1>14, <1>15, <1>16, <1>17, <1>18, <1>19, <1>20, <1>21, <1>22
  DEF SocketNext, Thread

(* While read() answers close, the network does not come in between.      *)
LEMMA CloseStep ==
  PlaceInv /\ StreamInv /\ EngineInv /\ CloseIsComplete /\ [SocketNext]_allvars
    => CloseIsComplete'
<1> SUFFICES ASSUME PlaceInv, StreamInv, EngineInv, CloseIsComplete, [SocketNext]_allvars
             PROVE  CloseIsComplete'
  OBVIOUS
<1> USE DEF CloseIsComplete, Answered, vars, endpoint, owner, network, dial, Outside,
  Socketside, Goto
<1>1. CASE Method
  <2>1. PlainStep \/ KeepsReading \/ HandsOver \/ ReadsHalf
    BY SMTT(30), <1>1, RunsEngine DEF Method, EngineInv, StreamInv
  <2>2. op # "none" /\ (pc = "read" => op = "read") /\ UNCHANGED <<pc, kind>>
    BY <1>1, RunsOp, RunsSocket DEF Method, StreamInv, PlaceInv
  <2>3. CASE PlainStep
    BY <2>2, <2>3 DEF PlainStep, EngineInv, Fresh
  <2>4. CASE KeepsReading \/ HandsOver \/ ReadsHalf
    BY SMTT(30), <2>2, <2>4
    DEF KeepsReading, HandsOver, ReadsHalf, TakesHalf, GivesUp, Alike
  <2> QED
    BY <2>1, <2>3, <2>4
<1>2. CASE Dials \/ Dialled
  BY SMTT(30), <1>2 DEF Dials, Dialled, Resolve, Socket, Ioctl, Connect, NextAddress
<1>3. CASE Ctls
  BY SMTT(30), <1>3 DEF Ctls, PlaceInv
<1>4. CASE HandleEvent
  BY SMTT(30), <1>4 DEF HandleEvent, CallMethod, Invoke
<1>5. CASE StepInProgress \/ Out \/ Stop
  BY <1>5 DEF StepInProgress, Out, Stop, Ends
<1>6. CASE Connected
  BY <1>6 DEF Connected, Register
<1>7. CASE StartHandshake \/ ReadOn
  BY SMTT(30), <1>7 DEF StartHandshake, ReadOn, CallMethod, Invoke
<1>8. CASE StepTransport \/ AfterRead \/ AfterShutdown
  BY <1>8 DEF StepTransport, AfterRead, AfterShutdown, Taken
<1>9. CASE Bound \/ Heartbeat
  BY <1>9 DEF Bound, Heartbeat
<1>10. CASE Steps
  BY SMTT(30), <1>10 DEF Steps, CallMethod, Ends
<1>11. CASE Flush
  BY <1>11 DEF Flush, CallMethod, Register, PlaceInv
<1>12. CASE AfterWrite
  BY SMTT(30), <1>12 DEF AfterWrite, Taken
<1>13. CASE DestroyEndpoint \/ ClearFd \/ CloseFd \/ Redial
  BY SMTT(30), <1>13 DEF DestroyEndpoint, ClearFd, CloseFd, Redial
<1>14. CASE OtherConnection \/ Over \/ UNCHANGED allvars
  BY SMTT(30), <1>14 DEF OtherConnection, Over, allvars
<1>15. CASE ConnectEnds \/ Arrives \/ PeerEnds \/ RoomFreed
  BY <1>15 DEF ConnectEnds, Arrives, PeerEnds, RoomFreed, AtCall, Network, PlaceInv
<1> QED
  BY Zenon, <1>1, <1>2, <1>3, <1>4, <1>5, <1>6, <1>7, <1>8, <1>9, <1>10, <1>11, <1>12,
    <1>13, <1>14, <1>15
  DEF SocketNext, Thread

-----------------------------------------------------------------------------
(* The theorems.                                                          *)

\* All of it together.
SocketInv ==
  /\ PlaceInv /\ OwnerInv /\ RegOK /\ Idle /\ StreamInv /\ EdgeInv
  /\ EngineInv /\ HelloInv /\ CloseIsComplete

(* A connection that has not begun satisfies the invariant.                *)
LEMMA SocketStart == SocketInit => SocketInv
<1> SUFFICES ASSUME SocketInit PROVE SocketInv
  OBVIOUS
<1> USE DEF SocketInit, Init, InterestInit, EndpointInit
<1>1. PlaceInv /\ Idle /\ RegOK
  BY DEF PlaceInv, Dialing, Ending, Idle, RegOK, Todo
<1>2. OwnerInv
  BY DEF OwnerInv, Dialing, DialInv, Failures
<1>3. StreamInv
  BY EndpointAssumption, EmptySeq DEF StreamInv
<1>4. EdgeInv
  BY SMTT(30) DEF EdgeInv, Pending
<1>5. ssl \in Engines /\ Fresh
  BY DEF NoEngine, Engine, Engines, Fresh
<1>6. EngineInv
  BY <1>5 DEF EngineInv, Fresh
<1>7. HelloInv
  BY <1>5, EmptySeq DEF HelloInv, HalfRead, Fresh
<1>8. CloseIsComplete
  BY DEF CloseIsComplete, Answered
<1> QED
  BY <1>1, <1>2, <1>3, <1>4, <1>6, <1>7, <1>8 DEF SocketInv

(* The invariant holds through every life of the connection.               *)
THEOREM SocketInvariance == SocketSpec => []SocketInv
<1>1. SocketInv /\ [SocketNext]_allvars => SocketInv'
  BY PlaceStep, OwnerStep, RegStep, IdleStep, StreamStep, EdgeStep, EngineStep,
     HelloStep, CloseStep DEF SocketInv
<1> QED
  BY SocketStart, <1>1, PTL DEF SocketSpec

(* No event the connection waits for is ever lost, with either Net and     *)
(* either endpoint, unless the kernel refused a registration.              *)
THEOREM NoLostEdgeHolds == SocketSpec => []NoLostEdge
<1>1. SocketInv => NoLostEdge
  BY DEF SocketInv, EdgeInv, Owes, Ending, Pending, NoLostEdge
<1> QED
  BY <1>1, SocketInvariance, PTL

(* No decrypted byte waits in OpenSSL while the connection waits.          *)
THEOREM NoHiddenDataHolds == SocketSpec => []NoHiddenData
<1>1. SocketInv => NoHiddenData
  BY DEF SocketInv, EngineInv, Reading, NoHiddenData
<1> QED
  BY <1>1, SocketInvariance, PTL

(* read() answers close only at the real end of the stream.                *)
THEOREM CloseIsCompleteHolds == SocketSpec => []CloseIsComplete
<1>1. SocketInv => CloseIsComplete
  BY DEF SocketInv
<1> QED
  BY <1>1, SocketInvariance, PTL

(* At the end of a life the descriptor, its registration and the OpenSSL   *)
(* objects are gone.                                                       *)
THEOREM NothingLeftHolds == SocketSpec => []NothingLeft
<1>1. SocketInv => NothingLeft
  BY DEF SocketInv, OwnerInv, Idle, EngineInv, Fresh, NothingLeft
<1> QED
  BY <1>1, SocketInvariance, PTL

(* What dial() promises holds at each call of it by a connection, the      *)
(* calls of a restarted one included.                                      *)
THEOREM DialInSocket == SocketSpec => [](OneDescriptor /\ ResultIsClear)
<1>1. DialInv => OneDescriptor /\ ResultIsClear
  BY DialAssumption DEF DialInv, Failures, OneDescriptor, ResultIsClear, NoFd
<1>2. SocketInv => OneDescriptor /\ ResultIsClear
  BY <1>1 DEF SocketInv, OwnerInv, Dialing, OneDescriptor, ResultIsClear
<1> QED
  BY <1>2, SocketInvariance, PTL

=============================================================================
