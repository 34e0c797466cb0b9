------------------------------ MODULE Endpoint ------------------------------
(***************************************************************************)
(* The endpoints of transport::Plain (transport/plain.hpp) and              *)
(* transport::Tls (transport/tls.hpp, tls.cc, tls_bio.hpp, tls_bio.cc) over *)
(* one socket.  A method (read, write, handshake_step, shutdown_step) is    *)
(* broken at each system call, because the network goes on between two of   *)
(* them.  OpenSSL is external: an engine that takes records off the socket  *)
(* half by half, keeps decrypted bytes and an unfinished record of its own, *)
(* and reports through SSL_get_error.                                       *)
(***************************************************************************)
EXTENDS Integers, Sequences

CONSTANTS
  REC_BYTES,  \* bytes in a data record
  ROOM        \* bound: units the kernel's send buffer holds

ASSUME EndpointAssumption == REC_BYTES \in Nat \ {0} /\ ROOM \in Nat \ {0}

VARIABLES
  kind,    \* plain or tls
  inq,     \* received by the kernel: bytes, or halves of records
  fin,     \* how the peer ended: no, fin, rst
  room,    \* free units in the kernel's send buffer
  tx,      \* unread bytes of the connection's _tx
  op,      \* the running method, or none
  status,  \* what the last method answered; none while it runs
  ssl      \* the engine, a record (see Engine)

endpoint == <<kind, inq, fin, room, tx, op, status, ssl>>

Engine(alive) ==
  [alive  |-> alive,  \* SSL_new without SSL_free so far
   hs     |-> 0,      \* handshake: 0 hello, 1 answer, 2 finished, 3 done
   part   |-> "none", \* the record of which one half has been read
   pend   |-> 0,      \* decrypted bytes that wait for SSL_read
   due    |-> "no",   \* a reply to the peer's key update is to be sent
   wpend  |-> 0,      \* units of the running SSL_write's record still to send
   wlen   |-> 0,      \* bytes of _tx that its records cover
   notify |-> "no",   \* our close_notify: no, pending, sent
   rcvd   |-> "no",   \* has the peer's close_notify been read?
   want   |-> "none", \* SSL_want and the BIO's retry flags: none, read, write
   ctx    |-> "no",   \* has g_tls_init made the context?
   errq   |-> "clean"] \* the thread's error queue: clean, dirty

NoEngine == Engine("no")

EndpointInit ==
  /\ kind \in {"plain", "tls"}
  /\ inq = <<>> /\ fin = "no" /\ room = ROOM /\ tx = 0
  /\ op = "none" /\ status = "none" /\ ssl = NoEngine

Invoke(method) == op' = method /\ status' = "none"
Answer(s) == op' = "none" /\ status' = s
Continue == UNCHANGED <<op, status>>

-----------------------------------------------------------------------------
(* The system calls.                                                        *)

NothingToRead == inq = <<>> /\ fin = "no"
AtEof == inq = <<>> /\ fin = "fin"
ReadFails == inq = <<>> /\ fin = "rst"
CanWrite == room > 0 /\ fin # "rst"
NoRoom == room = 0 /\ fin # "rst"

\* EINTR: every loop around a system call tries again.
Interrupted == op # "none" /\ UNCHANGED endpoint

-----------------------------------------------------------------------------
(* Plain.                                                                   *)

PlainRead ==
  /\ kind = "plain" /\ op = "read"
  /\ \/ \E k \in 1..Len(inq) : inq' = SubSeq(inq, k + 1, Len(inq)) /\ Answer("ok")
     \/ AtEof /\ Answer("close") /\ UNCHANGED inq
     \/ NothingToRead /\ Answer("want_read") /\ UNCHANGED inq
     \/ ReadFails /\ Answer("error") /\ UNCHANGED inq
  /\ UNCHANGED <<kind, fin, room, tx, ssl>>

PlainWrite ==
  /\ kind = "plain" /\ op = "write"
  /\ \/ \E k \in 1..room : /\ CanWrite /\ k <= tx
                           /\ room' = room - k /\ tx' = tx - k /\ Answer("ok")
     \/ NoRoom /\ Answer("want_write") /\ UNCHANGED <<room, tx>>
     \/ fin = "rst" /\ Answer("error") /\ UNCHANGED <<room, tx>>
  /\ UNCHANGED <<kind, inq, fin, ssl>>

-----------------------------------------------------------------------------
(* Tls.  SSL_get_error looks at the error queue, then at what the failed    *)
(* call wanted, then at the peer's close_notify.                            *)

SslError(engine) ==
  CASE engine.errq = "dirty"  -> "error"
    [] engine.want = "read"   -> "want_read"
    [] engine.want = "write"  -> "want_write"
    [] engine.rcvd = "yes"    -> "close"
    [] OTHER                  -> "error"

\* A method that fails answers by SSL_get_error.
Fail(engine) == ssl' = engine /\ Answer(SslError(engine))

\* bio_read(): clears the retry flags and sets one if the socket is empty.
BioRead(engine, again) ==
  [engine EXCEPT !.want = IF again THEN "read" ELSE "none"]

\* bio_write()
BioWrite(engine, again) ==
  [engine EXCEPT !.want = IF again THEN "write" ELSE "none"]

\* What a complete record does to the engine.
Processed(engine, rec) ==
  CASE rec = "hello"  -> [engine EXCEPT !.hs = 2]
    [] rec = "data"   -> [engine EXCEPT !.pend = REC_BYTES]
    [] rec = "update" -> [engine EXCEPT !.due = "yes"]
    [] rec = "notify" -> [engine EXCEPT !.rcvd = "yes"]

\* Faulty variant: a stream that is cut off counts as closed.
CutOffCloses == ssl' = BioRead(ssl, FALSE) /\ Answer("close")

\* bio_read passes on the end of the stream or an error; SSL_get_error decides.
CutOff == Fail(BioRead(ssl, FALSE))

\* The engine reads half a record from the socket, or its caller fails.
EngineReads ==
  \/ /\ inq # <<>> /\ Continue
     /\ inq' = Tail(inq)
     /\ LET e == BioRead(ssl, FALSE) IN
        ssl' = IF ssl.part = "none" THEN [e EXCEPT !.part = Head(inq)]
               ELSE Processed([e EXCEPT !.part = "none"], Head(inq))
  \/ NothingToRead /\ Fail(BioRead(ssl, TRUE)) /\ UNCHANGED inq
  \/ (AtEof \/ ReadFails) /\ CutOff /\ UNCHANGED inq

\* The engine writes one unit, after which it is engine, or its caller fails.
EngineWrites(engine) ==
  \/ CanWrite /\ room' = room - 1 /\ ssl' = BioWrite(engine, FALSE) /\ Continue
  \/ NoRoom /\ Fail(BioWrite(ssl, TRUE)) /\ UNCHANGED room
  \/ fin = "rst" /\ Fail(BioWrite(ssl, FALSE)) /\ UNCHANGED room

\* SSL_connect; a flight counts as sent because bio_ctrl answers FLUSH with 1.
\* It empties the error queue first.  A certificate may be rejected.
HandshakeStep ==
  /\ kind = "tls" /\ op = "handshake"
  /\ \/ /\ ssl.errq = "dirty" /\ ssl' = [ssl EXCEPT !.errq = "clean"]
        /\ Continue /\ UNCHANGED <<inq, room>>
     \/ /\ ssl.errq = "clean" /\ ssl.hs \in {0, 2}
        /\ EngineWrites([ssl EXCEPT !.hs = @ + 1]) /\ UNCHANGED inq
     \/ ssl.errq = "clean" /\ ssl.hs = 1 /\ EngineReads /\ UNCHANGED room
     \/ /\ ssl.errq = "clean" /\ ssl.hs = 2
        /\ Fail([ssl EXCEPT !.errq = "dirty"]) /\ UNCHANGED <<inq, room>>
     \/ ssl.hs = 3 /\ Answer("ok") /\ UNCHANGED <<inq, room, ssl>>
  /\ UNCHANGED <<kind, fin, tx>>

\* The reply to a key update goes out before anything else is read or written.
SendReply ==
  /\ kind = "tls" /\ op \in {"read", "write"} /\ ssl.pend = 0 /\ ssl.due = "yes"
  /\ EngineWrites([ssl EXCEPT !.due = "no"])
  /\ UNCHANGED <<kind, inq, fin, tx>>

\* TlsEndpoint::read
TlsRead ==
  /\ kind = "tls" /\ op = "read"
  /\ \/ /\ ssl.pend > 0 /\ Answer("ok") /\ UNCHANGED inq
        /\ \E k \in 1..ssl.pend : ssl' = [ssl EXCEPT !.pend = @ - k]
     \/ /\ ssl.pend = 0 /\ ssl.due = "no" /\ ssl.rcvd = "yes"
        /\ Fail([ssl EXCEPT !.want = "none"]) /\ UNCHANGED inq
     \/ ssl.pend = 0 /\ ssl.due = "no" /\ ssl.rcvd = "no" /\ EngineReads
  /\ UNCHANGED <<kind, fin, room, tx>>

\* TlsEndpoint::write: records for all of _tx; a retry finishes the record that
\* was begun, then covers what has been added to _tx since.
TlsWrite ==
  /\ kind = "tls" /\ op = "write" /\ ssl.due = "no"
  /\ \/ /\ ssl.wpend = 0 /\ ssl.wlen < tx /\ Continue
        /\ ssl' = [ssl EXCEPT !.wpend = 2, !.wlen = tx] /\ UNCHANGED <<room, tx>>
     \/ /\ ssl.wpend = 0 /\ ssl.wlen = tx /\ Answer("ok")
        /\ ssl' = [ssl EXCEPT !.wlen = 0] /\ tx' = 0 /\ UNCHANGED room
     \/ /\ ssl.wpend > 0
        /\ EngineWrites([ssl EXCEPT !.wpend = @ - 1]) /\ UNCHANGED tx
  /\ UNCHANGED <<kind, inq, fin>>

\* What shutdown_step makes of SSL_get_error.
Shut(answer) == IF answer = "close" THEN "ok" ELSE answer

\* SSL_shutdown has sent close_notify and returns 1 if the peer's is here, or
\* 0, which SSL_get_error reports as a failure.
AfterNotify == Answer(IF ssl.rcvd = "yes" THEN "ok" ELSE "error")

\* TlsEndpoint::shutdown_step.  SSL_shutdown refuses to run in a handshake, and
\* cannot send its alert while a record of SSL_write is unfinished.
ShutdownStep ==
  /\ kind = "tls" /\ op = "shutdown"
  /\ \/ /\ ssl.hs < 3 \/ (ssl.wpend > 0 /\ ssl.notify = "pending")
        /\ ssl' = [ssl EXCEPT !.errq = "dirty"] /\ Answer("error")
        /\ UNCHANGED room
     \/ /\ ssl.hs = 3 /\ ssl.wpend > 0 /\ ssl.notify = "no"
        /\ ssl' = [ssl EXCEPT !.notify = "pending"]
        /\ Answer(Shut(SslError(ssl))) /\ UNCHANGED room
     \/ /\ ssl.hs = 3 /\ ssl.wpend = 0
        /\ \/ /\ CanWrite /\ room' = room - 1 /\ AfterNotify
              /\ ssl' = [BioWrite(ssl, FALSE) EXCEPT !.notify = "sent"]
           \/ /\ ~CanWrite /\ UNCHANGED room
              /\ LET e == [BioWrite(ssl, NoRoom) EXCEPT !.notify = "pending"]
                 IN ssl' = e /\ Answer(Shut(SslError(e)))
  /\ UNCHANGED <<kind, inq, fin, tx>>

\* A system call or a step of OpenSSL inside the running method.
Runs ==
  \/ PlainRead \/ PlainWrite \/ Interrupted
  \/ HandshakeStep \/ SendReply \/ TlsRead \/ TlsWrite \/ ShutdownStep

-----------------------------------------------------------------------------
(* Endpoint::init and destroy().                                            *)

\* Faulty variant: the engine is not freed when the host name is refused.
RefusedLeaks == Engine("yes")

\* SNI or set1_host failed: SSL_free, which also frees the BIO.
Refused == NoEngine

\* g_tls_init, which runs once, throws inside a noexcept function.
InitAborts == kind = "tls" /\ ssl.ctx = "no" /\ UNCHANGED endpoint

InitFails ==
  /\ kind = "tls"
  /\ ssl' = [Refused EXCEPT !.errq = "dirty", !.ctx = "yes"]
  /\ UNCHANGED <<kind, inq, fin, room, tx, op, status>>

InitSucceeds ==
  /\ ssl' = IF kind = "tls"
            THEN [Engine("yes") EXCEPT !.errq = ssl.errq, !.ctx = "yes"] ELSE ssl
  /\ UNCHANGED <<kind, inq, fin, room, tx, op, status>>

\* destroy(): the thread's error queue outlives the engine.
Destroy ==
  /\ ssl' = [NoEngine EXCEPT !.errq = ssl.errq, !.ctx = ssl.ctx]
  /\ UNCHANGED <<kind, inq, fin, room, tx, op, status>>

\* Another connection of the thread fails and leaves its errors behind.
OtherFails ==
  /\ kind = "tls" /\ ssl.errq = "clean"
  /\ ssl' = [ssl EXCEPT !.errq = "dirty"]
  /\ UNCHANGED <<kind, inq, fin, room, tx, op, status>>

=============================================================================
