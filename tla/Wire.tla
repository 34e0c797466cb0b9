-------------------------------- MODULE Wire --------------------------------
(***************************************************************************)
(* The bytes of a WebSocket connection: the server's stream (a response to  *)
(* the upgrade request, then frames) reaches the receive buffer in pieces   *)
(* of any size, read_handshake and parse_frame take from its front what     *)
(* they recognise, and frames to the server are put together in whatever    *)
(* room the send buffer has.  A piece of n bytes is n arrivals without a    *)
(* call of on_data in between.                                              *)
(***************************************************************************)
EXTENDS BufferQueue, WireFormat

CONSTANTS
  Scenarios,  \* nonce (16 bytes of random_bytes), response and frames of the server
  Masks,      \* what random_bytes may yield for a mask, 4 bytes
  Rooms,      \* room in the send buffer when a frame is written
  CloseCodes, \* what the codec's on_shutdown may answer, 2 bytes
  MAX_LIVES   \* bounds the lives of the connection

\* A character within a line, and a line with the header that is looked for.
\* HTTP has the names of headers in any case.
Plain == Byte \ {CR, LF}
Named(l) ==
  /\ Len(l) >= Len(AcceptName)
  /\ \A k \in 1..Len(AcceptName) : Lower(l[k]) = Lower(AcceptName[k])

\* A response: the status code and what follows it on the line, other headers,
\* and the header with the accept value, ours or not, behind any spaces.
Responses ==
  {r \in [code : Seq(Plain), others : Seq(Seq(Plain)), name : Seq(Plain),
          value : {"none", "own", "other", "short"}] :
     /\ Len(r.code) >= 3
     /\ \A i \in DOMAIN r.others : r.others[i] # <<>> /\ ~Named(r.others[i])
     /\ Named(r.name) /\ \A i \in Len(AcceptName) + 1..Len(r.name) : r.name[i] = SP}

\* A frame, with its length in 7, 16 or 64 bits.  An opcode beyond 15 sets
\* reserved bits.  Form 0 announces a length of 64 bits that is HUGE or more,
\* whatever follows its header.
ServerFrames ==
  {f \in [op : 0..127, fin : 0..1, form : {0, 7, 16, 64}, size : [1..8 -> Byte],
          payload : Seq(Byte)] :
     /\ Len(f.payload) < IF f.form = 7 THEN 126 ELSE 65536
     /\ f.form = 0 => \E i \in 1..5 : f.size[i] # 0}

ASSUME WireAssumption ==
  /\ Bytes = Byte /\ CAP < HUGE
  /\ Scenarios \subseteq
       [nonce : [1..16 -> Byte], response : Responses, frames : Seq(ServerFrames)]
  /\ Masks \subseteq [1..4 -> Byte] /\ Rooms \subseteq Nat
  /\ CloseCodes \subseteq [1..2 -> Byte]

VARIABLES
  st,       \* idle, handshake_sent, listening; closing, closed, stopped; in
            \* error: failed, overflow, unsent; undefined, beyond
  scenario, \* of this life of the connection
  key,      \* the request's Sec-WebSocket-Key
  accept,   \* ws_accept_key, before it is mapped to characters
  stream,   \* what the server sends
  arrived,  \* bytes of it that have reached the buffer
  parsed,   \* the frames parsed so far
  out,      \* the frame written by the last step: op, payload, room, bytes
  lives     \* of the connection so far

life == <<scenario, key, accept, stream>>
wire == <<life, arrived, parsed>>
wvars == <<vars, st, wire, out, lives>>

-----------------------------------------------------------------------------
(* make_handshake and the server.                                           *)

\* SHA1 of the key, as far as it matters here: 20 bytes that depend on it
Sha1(k) == [i \in 1..20 |-> (13 * k[i] + 7 * i) % 256]

\* Characters of the alphabet, as bytes that are neither CR, LF nor SP
Chars(code) == [i \in 1..Len(code) |-> code[i] + 64]

\* Lines, and the empty one that ends them
Line(s) == s \o <<CR, LF>>
Lines(ls) == Flatten([i \in 1..Len(ls) |-> Line(ls[i])]) \o <<CR, LF>>

\* Another value of the same length; one that is cut off
Other(value) == [i \in 1..Len(value) |-> IF i = 28 THEN 63 ELSE value[i]]
Short(value) == SubSeq(value, 1, 3)

\* The text of a response: status line, other headers, the accept header.
Text(r, value) ==
  Lines(<<<<72, SP>> \o r.code>> \o r.others
        \o CASE r.value = "none" -> <<>>
             [] r.value = "own" -> <<r.name \o value>>
             [] r.value = "other" -> <<r.name \o Other(value)>>
             [] r.value = "short" -> <<r.name \o Short(value)>>)

\* A frame as the server sends it
Encoded(f) ==
  LET n == Len(f.payload) IN
  <<128 * f.fin + f.op>>
  \o (CASE f.form = 7 -> <<n>>
        [] f.form = 16 -> <<126, n \div 256, n % 256>>
        [] f.form = 64 -> <<127, 0, 0, 0, 0, 0, 0, n \div 256, n % 256>>
        [] f.form = 0 -> <<127>> \o f.size)
  \o f.payload

Frames(fs) == Flatten([i \in 1..Len(fs) |-> Encoded(fs[i])])

NoFrame == [op |-> 0, payload |-> <<>>, room |-> 0, bytes |-> <<>>]

-----------------------------------------------------------------------------
WireInit ==
  /\ Init /\ st = "idle"
  /\ scenario \in Scenarios /\ key = <<>> /\ accept = <<>> /\ stream = <<>>
  /\ arrived = 0 /\ parsed = <<>> /\ out = NoFrame /\ lives = 1

\* make_handshake() in on_connect(), of whose request only the key is modelled;
\* the server works out the same accept value.
OnConnect ==
  /\ st = "idle" /\ st' = "handshake_sent"
  /\ key' = base64_encode(scenario.nonce)
  /\ accept' = base64_encode(Sha1(key'))
  /\ stream' = Text(scenario.response, Chars(accept')) \o Frames(scenario.frames)
  /\ out' = NoFrame /\ UNCHANGED <<vars, scenario, arrived, parsed, lives>>

Open == st \in {"handshake_sent", "listening"}

\* A byte of the stream is read into the buffer.
Arrive ==
  /\ Open /\ arrived < Len(stream) /\ ~Full(pos, CAP)
  /\ WriteBytes(<<stream[arrived + 1]>>) /\ arrived' = arrived + 1
  /\ out' = NoFrame /\ UNCHANGED <<st, life, parsed, lives>>

\* transport_read() finds no room.
Overflow ==
  /\ Open /\ arrived < Len(stream) /\ Full(pos, CAP)
  /\ st' = "overflow" /\ out' = NoFrame /\ UNCHANGED <<vars, wire, lives>>

\* on_data() before the upgrade; it changes nothing until the response is there.
\* A build that checks the preconditions of spans ends where one is broken.
OnResponse ==
  /\ st = "handshake_sent"
  /\ \E r \in {read_handshake(Chars(accept), s) : s \in {Content}} :
     /\ r.consumed > 0 /\ ReadBytes(r.consumed)
     /\ st' \in CASE r.status = "ok" -> {"listening"}
                  [] r.status = "error" -> {"failed"}
                  [] r.status = "beyond" -> {"failed", "undefined"}
  /\ out' = NoFrame /\ UNCHANGED <<wire, lives>>

\* A frame for the server is put together; tells whether it fits.
Writes(op, payload, room, bytes) ==
  out' = [op |-> op, payload |-> payload, room |-> room, bytes |-> bytes]

Control(op, payload) ==
  \E room \in Rooms, mask \in Masks :
    Writes(op, payload, room, write_control_frame(room, op, payload, mask))

\* handle_frame(), the frames that are answered
Handle(op, payload) ==
  \/ /\ op = 8 /\ st' = "closing"
     /\ \E room \in Rooms : Writes(8, payload, room, CloseReply(room, payload))
  \/ op = 9 /\ Len(payload) >= 126 /\ st' = "closing" /\ out' = NoFrame
  \/ /\ op = 9 /\ Len(payload) < 126 /\ Control(10, payload)
     /\ st' = IF out'.room < 6 + Len(payload) THEN "closing" ELSE st
  \/ op \notin {8, 9} /\ out' = NoFrame /\ UNCHANGED st

\* on_data() after the upgrade: dispatch_frame().  What it does with fragments
\* is modelled in WebSocketSession.  A payload that is not there is not followed
\* further.
OnFrame ==
  /\ st = "listening"
  /\ \E p \in {parse_frame(s) : s \in {Content}} :
     \/ /\ p.status = "ok" /\ ReadBytes(p.consumed)
        /\ parsed' = Append(parsed, [op |-> p.op, fin |-> p.fin, payload |-> p.payload])
        /\ IF p.fin = 1 THEN Handle(p.op, p.payload) ELSE out' = NoFrame /\ UNCHANGED st
     \/ /\ p.status \in {"bad_reserved", "masked_server"} /\ st' = "failed"
        /\ out' = NoFrame /\ UNCHANGED <<vars, parsed>>
     \/ /\ p.status = "beyond" /\ st' = "beyond"
        /\ out' = NoFrame /\ UNCHANGED <<vars, parsed>>
  /\ UNCHANGED <<life, arrived, lives>>

\* heartbeat(): PING without payload, whatever the session's state is
Heartbeat ==
  /\ Open /\ Control(9, <<>>)
  /\ UNCHANGED <<vars, st, wire, lives>>

\* on_shutdown(): CLOSE with the code of the codec.  enter_close_protocol calls
\* it when the reactor stops, and at once when a handler answered close, also
\* after the reply to a CLOSE.  Without room it is an error.
OnShutdown ==
  /\ Open \/ st = "closing"
  /\ \E code \in CloseCodes : Control(8, code)
  /\ st' = IF out'.bytes = <<>> THEN "unsent"
           ELSE IF st = "closing" THEN "closed" ELSE "stopped"
  /\ UNCHANGED <<vars, wire, lives>>

\* restart(): the buffers are cleared, the handshake is made anew.  The reactor
\* restarts what is closed, unless it stops.
Restart ==
  /\ st = "closed" /\ st' = "idle"
  /\ lives < MAX_LIVES /\ lives' = lives + 1
  /\ Clear
  /\ key' = <<>> /\ accept' = <<>> /\ stream' = <<>>
  /\ arrived' = 0 /\ parsed' = <<>> /\ out' = NoFrame
  /\ UNCHANGED scenario

OnData == OnResponse \/ OnFrame
Read == Arrive \/ Overflow

WireNext ==
  \/ OnConnect \/ Read \/ OnData \/ Heartbeat \/ OnShutdown \/ Restart

\* What was sent arrives, and after a read the connection calls on_data
\* until it takes nothing more.
WireSpec ==
  WireInit /\ [][WireNext]_wvars /\ WF_wvars(Read) /\ WF_wvars(OnFrame)

-----------------------------------------------------------------------------
\* What the server has sent and on_data has not parsed
left == SubSeq(scenario.frames, Len(parsed) + 1, Len(scenario.frames))

(* HandshakeAgrees: wherever the stream is cut into pieces, read_handshake    *)
(* accepts exactly the responses with status 101 and our key behind a header  *)
(* whose name starts with a capital letter, in any case after it, and takes   *)
(* exactly their bytes, with every byte behind them left for parse_frame.  A  *)
(* response that spells the name in lower case is refused, although HTTP      *)
(* allows it.  Once it accepted, only a frame with reserved bits makes the    *)
(* session fail, and no response it accepts has subspan reach beyond it.      *)
HandshakeAgrees ==
  LET r == scenario.response
      valid == /\ SubSeq(r.code, 1, 3) = <<49, 48, 49>> /\ r.value = "own"
               /\ r.name[1] = AcceptName[1]
      taken == arrived - Unread(pos)
  IN /\ st \in {"failed", "undefined"} /\ valid => left # <<>> /\ left[1].op > 15
     /\ st = "listening" => valid /\ taken + Len(Frames(left)) = Len(stream)

\* The announced length is within the header's ten bytes of 2^64.
Wraps(f) == f.form = 0 /\ (\A i \in 1..7 : f.size[i] = 255) /\ f.size[8] >= 246

(* FramesInOrder: wherever the stream is cut into pieces, parse_frame yields  *)
(* the server's frames in order, in all three forms of the length, and none   *)
(* that announces more than the buffer holds.  The length of such a frame is  *)
(* taken for granted only where header and length add up to 2^64 or more.     *)
FramesInOrder ==
  /\ Len(parsed) <= Len(scenario.frames)
  /\ \A i \in 1..Len(parsed) :
       LET f == scenario.frames[i] IN
       f.form # 0 /\ parsed[i] = [op |-> f.op, fin |-> f.fin, payload |-> f.payload]
  /\ st = "beyond" => left # <<>> /\ Wraps(left[1])

(* AllIsParsed: a session that stays open has parsed every frame in the end;  *)
(* no frame waits in the buffer for the bytes of the next one, unless it is   *)
(* one that announces more than the server sends.                             *)
AllIsParsed ==
  st = "listening" ~> st # "listening" \/ left = <<>> \/ left[1].form = 0

Bit(s, width, k) == (s[(k \div width) + 1] \div 2^(width - 1 - (k % width))) % 2

\* code, less its padding, has the bits of s followed by zeros.
Encodes(code, s) ==
  LET digits == Len(code) - ((3 - (Len(s) % 3)) % 3) IN
  /\ Len(code) = 4 * ((Len(s) + 2) \div 3)
  /\ \A i \in 1..Len(code) : (code[i] = 64) = (i > digits)
  /\ \A k \in 0..6 * digits - 1 :
       Bit(code, 6, k) = IF k < 8 * Len(s) THEN Bit(s, 8, k) ELSE 0

(* KeyDecodes: the key and the accept value are base64 of the 16 and 20 bytes *)
(* they stand for: the digits spell their bits, the padding is right.         *)
KeyDecodes ==
  st = "handshake_sent" /\ arrived = 0 =>
    Encodes(key, scenario.nonce) /\ Encodes(accept, Sha1(key))

\* What a server makes of a masked control frame.
Unmasking(s) ==
  LET n == s[2] - 128 IN
  [fin |-> s[1] \div 128, op |-> s[1] % 128, n |-> n,
   payload |-> [i \in 1..n |-> Xor(s[6 + i], s[3 + ((i - 1) % 4)])]]

(* ControlDecodes: a control frame is written exactly if it fits the room it  *)
(* was given, to the last byte, and a server that unmasks it gets the opcode  *)
(* and the payload; a CLOSE carries the code.                                 *)
ControlDecodes ==
  LET sent == IF out.op # 8 THEN out.payload
              ELSE IF Len(out.payload) >= 2 THEN SubSeq(out.payload, 1, 2) ELSE <<3, 232>>
  IN IF out.room < 6 + Len(sent) THEN out.bytes = <<>>
     ELSE /\ Len(out.bytes) = 6 + Len(sent)
          /\ Unmasking(out.bytes) =
               [fin |-> 1, op |-> out.op, n |-> Len(sent), payload |-> sent]

=============================================================================
