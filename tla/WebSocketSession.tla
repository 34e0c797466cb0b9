-------------------------- MODULE WebSocketSession --------------------------
(***************************************************************************)
(* websocket::WebSocket<Codec>::Session (protocol/websocket.hpp) between a  *)
(* server and the connection that calls it: on_connect, on_data once per    *)
(* frame, heartbeat, on_shutdown.  The server may break the rules of        *)
(* fragmentation up to MAX_STRAY times.  A frame is a record; frames carry  *)
(* one unit of payload each, and MSG_CAP counts units.  An incomplete       *)
(* frame leaves everything as it is (need_more).                            *)
(***************************************************************************)
EXTENDS Integers, Sequences, FiniteSets, Functions

CONSTANTS
  MSG_CAP,    \* capacity of msg_buf, in fragments
  MAX_FRAMES, \* bound: frames the server sends
  MAX_STRAY   \* bound: frames that break the rules of fragmentation

ASSUME SessionAssumption ==
  MSG_CAP \in Nat \ {0} /\ MAX_FRAMES \in Nat /\ MAX_STRAY \in Nat

Data == {"text", "binary"}
Controls == {"close", "ping", "pong"}

VARIABLES
  \* the session
  state,      \* idle, handshake_sent, listening
  msg,        \* msg_buf up to msg_len
  opcode,     \* of the message being assembled; "unset" is indeterminate
  \* the connection, as far as the session sees it
  conn,       \* new, open, closing (on_shutdown is due), closed, error
  tx,         \* what was written: upgrade, ping, pong, close, data of the codec
  delivered,  \* what the codec was given
  \* the server
  rx,         \* sent and not yet parsed
  frames,     \* how many frames it sent
  partial,    \* the message it is in the middle of
  messages,   \* the messages it completed
  pings,      \* the pings it sent
  strays      \* how many frames broke the rules

session == <<state, msg, opcode>>
server == <<frames, partial, messages, pings, strays>>
vars == <<session, conn, tx, delivered, rx, server>>

NoMessage == [op |-> "none", payload |-> <<>>]

Init ==
  /\ state = "idle" /\ msg = <<>> /\ opcode = "unset"
  /\ conn = "new" /\ tx = <<>> /\ delivered = <<>>
  /\ rx = <<>> /\ frames = 0 /\ partial = NoMessage
  /\ messages = <<>> /\ pings = <<>> /\ strays = 0

-----------------------------------------------------------------------------
(* The server.                                                             *)

Put(f) ==
  /\ frames < MAX_FRAMES /\ frames' = frames + 1
  /\ rx' = Append(rx, f)
  /\ UNCHANGED <<session, conn, tx, delivered>>

\* The answer to the upgrade request, accepting it or not.
SendHandshake(op) ==
  /\ tx # <<>> /\ frames = 0
  /\ Put([op |-> op, fin |-> TRUE, payload |-> 0])
  /\ UNCHANGED <<partial, messages, pings, strays>>

\* A data frame: the next fragment of a message, or the first of a new one.
SendData(op, fin) ==
  /\ frames > 0
  /\ (op = "cont") = (partial # NoMessage)
  /\ Put([op |-> op, fin |-> fin, payload |-> frames])
  /\ LET m == [op |-> IF op = "cont" THEN partial.op ELSE op,
               payload |-> Append(partial.payload, frames)]
     IN  IF fin THEN messages' = Append(messages, m) /\ partial' = NoMessage
         ELSE partial' = m /\ UNCHANGED messages
  /\ UNCHANGED <<pings, strays>>

\* A control frame, which may come between two fragments.
SendControl(op) ==
  /\ frames > 0
  /\ Put([op |-> op, fin |-> TRUE, payload |-> frames])
  /\ pings' = IF op = "ping" THEN Append(pings, <<frames>>) ELSE pings
  /\ UNCHANGED <<partial, messages, strays>>

\* A frame out of place: a continuation of nothing, a new message in the middle
\* of another, a fragment of a control frame.
SendStray(op, fin) ==
  /\ frames > 0 /\ strays < MAX_STRAY
  /\ \/ op = "cont" /\ partial = NoMessage
     \/ op \in Data /\ partial # NoMessage
     \/ op \in Controls /\ ~fin
  /\ Put([op |-> op, fin |-> fin, payload |-> frames])
  /\ strays' = strays + 1 /\ UNCHANGED <<partial, messages, pings>>

Server ==
  \/ \E op \in {"http_101", "http_other"} : SendHandshake(op)
  \/ \E op \in Data \cup {"cont"}, fin \in BOOLEAN : SendData(op, fin)
  \/ \E op \in {"ping", "long_ping", "pong", "close", "malformed"} : SendControl(op)
  \/ \E op \in Data \cup Controls \cup {"cont"}, fin \in BOOLEAN : SendStray(op, fin)

-----------------------------------------------------------------------------
(* The session's handlers.  room tells whether what they write fits.       *)

\* What the connection does with a handler's status.
Answer(status) ==
  conn' = CASE status = "ok" -> conn
            [] status = "close" -> "closing"
            [] OTHER -> "error"

OnConnect(room) ==
  /\ conn = "new"
  /\ IF room
     THEN /\ state' = "handshake_sent" /\ conn' = "open"
          /\ tx' = <<[op |-> "upgrade", payload |-> <<>>]>>
     ELSE conn' = "error" /\ UNCHANGED <<state, tx>>
  /\ UNCHANGED <<msg, opcode, delivered, rx, server>>

\* on_data while the answer to the upgrade is outstanding: read_handshake().
ReadHandshake ==
  /\ conn = "open" /\ state = "handshake_sent" /\ rx # <<>>
  /\ rx' = Tail(rx)
  /\ IF Head(rx).op = "http_101"
     THEN state' = "listening" /\ Answer("ok")
     ELSE Answer("error") /\ UNCHANGED state
  /\ UNCHANGED <<msg, opcode, tx, delivered, server>>

\* Faulty variant: CLOSE is answered, but the session goes on.
CloseGoesOn(op, payload, room, status) ==
  /\ delivered' = IF op \in Data
                  THEN Append(delivered, [op |-> op, payload |-> payload])
                  ELSE delivered
  /\ tx' = IF room /\ op \in {"close", "ping"}
           THEN Append(tx, [op |-> IF op = "ping" THEN "pong" ELSE op,
                            payload |-> payload])
           ELSE tx
  /\ status = "ok" /\ Answer(status)

\* handle_frame(): the codec answers for data with a status of its own, and may
\* write something.
HandleFrame(op, payload, room, status) ==
  \/ /\ op \in Data
     /\ delivered' = Append(delivered, [op |-> op, payload |-> payload])
     /\ tx' = IF room THEN Append(tx, [op |-> "data", payload |-> <<>>]) ELSE tx
     /\ Answer(status)
  \/ /\ op = "close"
     /\ tx' = IF room THEN Append(tx, [op |-> "close", payload |-> payload])
              ELSE tx
     /\ status = "close" /\ Answer(status) /\ UNCHANGED delivered
  \/ /\ op = "ping"
     /\ tx' = IF room THEN Append(tx, [op |-> "pong", payload |-> payload])
              ELSE tx
     /\ status = (IF room THEN "ok" ELSE "close") /\ Answer(status)
     /\ UNCHANGED delivered
  \/ /\ op = "long_ping"    \* "FIXME: handle longer payloads"
     /\ status = "close" /\ Answer(status) /\ UNCHANGED <<tx, delivered>>
  \/ /\ op \in {"pong", "cont", "other"}
     /\ status = "ok" /\ Answer(status) /\ UNCHANGED <<tx, delivered>>

\* Faulty variant: in the middle of a message every frame is taken for a part.
IsFragmentOnceBegun(f) == ~f.fin \/ f.op = "cont" \/ msg # <<>>

\* Faulty variant: the last fragment is taken for a message of its own.
IsFragmentByFin(f) == ~f.fin

\* Is the frame a part of a fragmented message?
IsFragment(f) == ~f.fin \/ f.op = "cont"

\* Faulty variant: the fragment at hand is not counted.
OverflowsLate == Len(msg) > MSG_CAP

\* Does another fragment exceed msg_buf?
Overflows == Len(msg) + 1 > MSG_CAP

\* What handle_frame may take an assembled message for: the opcode is whatever
\* the memory held if no first fragment ever set it, and a PING of several
\* fragments may be too long.
Assembled ==
  CASE opcode = "unset" -> Data \cup Controls \cup {"long_ping", "cont", "other"}
    [] opcode = "ping" -> {"ping", "long_ping"}
    [] OTHER -> {opcode}

\* Faulty variant: a message stays in msg_buf when it has been handled.
FragmentKeepsMessage(f, room, status) ==
  IF Overflows
  THEN status = "error" /\ Answer(status) /\ UNCHANGED <<msg, opcode, tx, delivered>>
  ELSE /\ msg' = Append(msg, f.payload)
       /\ opcode' = IF f.op = "cont" THEN opcode ELSE f.op
       /\ IF f.fin THEN \E op \in Assembled : HandleFrame(op, msg', room, status)
          ELSE status = "ok" /\ Answer(status) /\ UNCHANGED <<tx, delivered>>

\* dispatch_frame(), a fragment.
Fragment(f, room, status) ==
  IF Overflows
  THEN status = "error" /\ Answer(status) /\ UNCHANGED <<msg, opcode, tx, delivered>>
  ELSE IF f.fin
       THEN /\ \E op \in Assembled : HandleFrame(op, Append(msg, f.payload), room, status)
            /\ msg' = <<>> /\ UNCHANGED opcode
       ELSE /\ msg' = Append(msg, f.payload)
            /\ opcode' = IF f.op = "cont" THEN opcode ELSE f.op
            /\ status = "ok" /\ Answer(status) /\ UNCHANGED <<tx, delivered>>

\* on_data while listening: dispatch_frame() of one complete frame.
DispatchFrame(room, status) ==
  /\ conn = "open" /\ state = "listening" /\ rx # <<>>
  /\ rx' = Tail(rx)
  /\ LET f == Head(rx) IN
       CASE f.op = "malformed" ->    \* masked, or reserved bits set
              status = "error" /\ Answer(status) /\ UNCHANGED <<msg, opcode, tx, delivered>>
         [] f.op # "malformed" /\ IsFragment(f) -> Fragment(f, room, status)
         [] OTHER -> /\ HandleFrame(f.op, <<f.payload>>, room, status)
                     /\ UNCHANGED <<msg, opcode>>
  /\ UNCHANGED <<state, server>>

\* heartbeat(): a PING if it fits, whatever the session's state is.
Heartbeat ==
  /\ conn = "open" /\ Len(tx) < MAX_FRAMES
  /\ tx' = Append(tx, [op |-> "ping", payload |-> <<>>])
  /\ UNCHANGED <<session, conn, delivered, rx, server>>

\* stop() of the connection: on_shutdown is next.
Stop ==
  /\ conn = "open" /\ conn' = "closing"
  /\ UNCHANGED <<session, tx, delivered, rx, server>>

\* on_shutdown: a CLOSE of our own.
OnShutdown(room) ==
  /\ conn = "closing"
  /\ IF room THEN /\ tx' = Append(tx, [op |-> "close", payload |-> <<>>])
                  /\ conn' = "closed"
     ELSE conn' = "error" /\ UNCHANGED tx
  /\ UNCHANGED <<session, delivered, rx, server>>

Ended == conn \in {"closed", "error"} /\ UNCHANGED vars

Client ==
  \/ ReadHandshake \/ Heartbeat \/ Stop
  \/ \E room \in BOOLEAN :
       \/ OnConnect(room) \/ OnShutdown(room)
       \/ \E status \in {"ok", "close", "error"} : DispatchFrame(room, status)

Next == (conn = "open" /\ Server) \/ Client \/ Ended

Spec == Init /\ [][Next]_vars

-----------------------------------------------------------------------------
TypeOK ==
  /\ state \in {"idle", "handshake_sent", "listening"}
  /\ msg \in Seq(1..MAX_FRAMES) /\ Len(msg) <= MSG_CAP
  /\ opcode \in Data \cup Controls \cup {"unset"}
  /\ conn \in {"new", "open", "closing", "closed", "error"}
  /\ \A i \in DOMAIN tx : tx[i].op \in {"upgrade", "ping", "pong", "close", "data"}
  /\ frames \in 0..MAX_FRAMES

\* s is how t begins.
IsPrefix(s, t) ==
  Len(s) <= Len(t) /\ \A i \in 1..Len(s) : s[i] = t[i]

(* Reassembly: the codec is given exactly the messages the server sent, in   *)
(* order, whole, and under the opcode of their first fragment, however they  *)
(* are cut into fragments and whichever control frames come in between, as   *)
(* long as the server keeps to the rules.                                    *)
Reassembly == strays = 0 => IsPrefix(delivered, messages)

(* PayloadOnce: whatever the server sends, a payload reaches the codec at     *)
(* most once, and those that reach it in one message are in the order sent:   *)
(* dispatch_frame empties msg_buf with every message it hands over.           *)
PayloadOnce ==
  /\ \A i \in DOMAIN delivered : \A j, k \in DOMAIN delivered[i].payload :
       j < k => delivered[i].payload[j] < delivered[i].payload[k]
  /\ \A i, j \in DOMAIN delivered :
       i # j => Range(delivered[i].payload) \cap Range(delivered[j].payload) = {}

\* The PONGs among the first i frames of s
PongsUpTo(s, i) == {j \in 1..i : s[j].op = "pong"}

(* PongsInOrder: PINGs are answered in the order they came, each with its own *)
(* payload: the k-th PONG answers the k-th PING, so that none is skipped, not *)
(* even one that arrives between two fragments, as long as the server keeps   *)
(* to the rules.                                                              *)
PongsInOrder ==
  strays = 0 =>
    \A i \in DOMAIN tx : tx[i].op = "pong" =>
      LET k == Cardinality(PongsUpTo(tx, i))
      IN  k <= Len(pings) /\ tx[i].payload = pings[k]

(* QuietAfterClose: once a CLOSE was written, nothing but a CLOSE follows: no  *)
(* PING of the heartbeat and no PONG for frames that were already received.    *)
QuietAfterClose ==
  \A i, j \in DOMAIN tx : i < j /\ tx[i].op = "close" => tx[j].op = "close"

=============================================================================
