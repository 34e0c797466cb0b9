---------------------------- MODULE WireProofs ----------------------------
(***************************************************************************)
(* A session agrees with its server on the handshake and on every frame,   *)
(* for every capacity, every response and every sequence of frames.        *)
(***************************************************************************)
EXTENDS HandshakeProofs

-----------------------------------------------------------------------------
\* What the session parses next, and the invariant

(* The fields of a frame.                                                    *)
LEMMA ServerFrameIs ==
  ASSUME NEW f \in ServerFrames
  PROVE  f.op \in 0..127 /\ f.fin \in 0..1 /\ f.payload \in Seq(Byte)
BY DEF ServerFrames

\* parse_frame yields the frame f, whose bytes are followed by the frames fs.
FrameTaken(f, fs, t, m, p) ==
  /\ f.form # 0 /\ p.op = f.op /\ p.fin = f.fin /\ p.payload = f.payload
  /\ m + p.consumed <= Len(t) /\ IsPart(Frames(fs), t, m + p.consumed, Len(t))

(* on_data() takes the first frame once it is there, and leaves the others;  *)
(* it fails only on reserved bits, and only a length that wraps has it go    *)
(* beyond the buffer.                                                        *)
LEMMA TakesFrame ==
  ASSUME NEW fs \in Seq(ServerFrames), NEW t \in Seq(Byte), NEW m \in Nat, NEW n \in Nat,
         m <= n, n <= Len(t), IsPart(Frames(fs), t, m, Len(t)),
         NEW c, IsPart(c, t, m, n), Len(c) < HUGE, parse_frame(c) # NeedMore
  PROVE  /\ fs # <<>>
         /\ \/ parse_frame(c) = [status |-> "bad_reserved"] /\ fs[1].op > 15
            \/ parse_frame(c) = [status |-> "beyond"] /\ Wraps(fs[1])
            \/ /\ parse_frame(c).status = "ok" /\ parse_frame(c).consumed \in 0..n - m
               /\ FrameTaken(fs[1], Tail(fs), t, m, parse_frame(c))
<1> DEFINE l == Len(t)
           p == parse_frame(c)
<1>1. l \in Nat /\ n <= l
  OBVIOUS
<1>2. c \in Seq(Byte) /\ Len(c) = n - m
  BY BytesAre, Zenon DEF IsPart
<1>3. ASSUME fs = <<>> PROVE FALSE
  <2>1. Len(Frames(fs)) = l - m
    BY Zenon DEF IsPart
  <2>2. Frames(fs) = <<>>
    BY <1>3, FramesIs, Zenon
  <2>3. Len(c) < 2
    <3>1. Len(<<>>) = l - m
      BY <2>1, <2>2, Zenon
    <3> HIDE DEF l
    <3> QED
      BY <1>1, <1>2, <3>1
  <2> QED
    BY <2>3, Zenon DEF parse_frame
<1> DEFINE f == fs[1]
           e == Encoded(f)
           r == Frames(Tail(fs))
<1>4. f \in ServerFrames /\ Tail(fs) \in Seq(ServerFrames) /\ Frames(fs) = Cat(e, r)
  BY <1>3, FramesIs, Zenon
<1>5. e \in Seq(Byte) /\ r \in Seq(Byte) /\ Len(e) \in Nat
  <2>1. e \in Seq(Byte) /\ r \in Seq(Byte)
    BY <1>4, EncodedIs, FramesType, Zenon
  <2> HIDE DEF e, r
  <2> QED
    BY <2>1
<1> HIDE DEF f, e, r, l
<1>6. StartsLike(c, e) /\ m + Len(e) <= l /\ IsPart(r, t, m + Len(e), l)
  <2>1. IsPart(Cat(e, r), t, m, l)
    BY <1>4, Zenon DEF l
  <2> QED
    BY <1>1, <1>5, <2>1, PartSplits
<1>7. p = IF Len(c) < 2 THEN NeedMore
          ELSE IF f.op > 15 THEN [status |-> "bad_reserved"]
          ELSE IF f.form = 0
          THEN IF Len(c) < 10 \/ ~Wraps(f) THEN NeedMore ELSE [status |-> "beyond"]
          ELSE IF Len(c) < Len(e) THEN NeedMore
          ELSE [status |-> "ok", op |-> f.op, fin |-> f.fin, payload |-> f.payload,
                consumed |-> Len(e)]
  BY <1>2, <1>4, <1>6, ParsesFrame, Zenon DEF e
<1> HIDE DEF p
<1>8. p # NeedMore
  BY Zenon DEF p
<1>9. CASE f.op > 15
  BY <1>3, <1>7, <1>8, <1>9, Zenon DEF f, p
<1>10. CASE ~(f.op > 15) /\ f.form = 0
  BY <1>3, <1>7, <1>8, <1>10, Zenon DEF f, p
<1>11. CASE ~(f.op > 15) /\ f.form # 0
  <2>1. /\ p = [status |-> "ok", op |-> f.op, fin |-> f.fin, payload |-> f.payload,
                consumed |-> Len(e)]
        /\ ~(Len(c) < Len(e))
    BY <1>7, <1>8, <1>11, Zenon
  <2>2. p.status = "ok" /\ p.op = f.op /\ p.fin = f.fin /\ p.payload = f.payload /\ p.consumed = Len(e)
    BY <2>1, Zenon
  <2>3. Len(e) \in 0..n - m
    BY <1>2, <1>5, <2>1
  <2>4. FrameTaken(f, Tail(fs), t, m, p)
    BY <1>6, <1>11, <2>2, Zenon DEF FrameTaken, l, r
  <2> QED
    BY <1>3, <2>2, <2>3, <2>4, Zenon DEF f, p
<1> QED
  BY <1>9, <1>11, <1>10, Zenon

-----------------------------------------------------------------------------
Parsed == [op : 0..127, fin : 0..1, payload : Seq(Byte)]
Left == LeftOf(scenario.frames, Len(parsed))
Taken == arrived - Unread(pos)

\* The frames ps have been parsed as they were sent.
InOrder(fs, ps) ==
  /\ Len(ps) <= Len(fs)
  /\ \A i \in 1..Len(ps) :
       fs[i].form # 0 /\ ps[i] = [op |-> fs[i].op, fin |-> fs[i].fin, payload |-> fs[i].payload]

\* The bytes: what is in the buffer is the part of the stream that has arrived
\* and is not taken yet, and what is parsed are the first of the frames.
DataInv ==
  /\ QueueInv /\ scenario \in Scenarios /\ parsed \in Seq(Parsed)
  /\ InOrder(scenario.frames, parsed)
  /\ StreamOf(stream, arrived, Content, Unread(pos))

LifeInv == st # "idle" => LifeOf(scenario, key, accept, stream)

\* Where on_data is in the stream: before the response, which is complete
\* before a byte of it is taken, or between two frames.
ProgressInv ==
  /\ st = "idle" => arrived = 0
  /\ st \in {"idle", "handshake_sent"} => Unread(pos) = arrived /\ parsed = <<>>
  /\ st = "listening" =>
       Valid(scenario.response) /\ IsPart(Frames(Left), stream, Taken, Len(stream))
  /\ st \in {"failed", "undefined"} /\ Valid(scenario.response) =>
       Left # <<>> /\ Left[1].op > 15
  /\ st = "beyond" => Left # <<>> /\ Wraps(Left[1])

WireInv == DataInv /\ LifeInv /\ ProgressInv /\ ControlDecodes

(* The steps that take nothing and parse nothing leave the bytes alone.      *)
LEMMA DataKept ==
  ASSUME DataInv, UNCHANGED <<vars, wire>>
  PROVE  DataInv' /\ Content' = Content /\ Unread(pos)' = Unread(pos) /\ Left' = Left /\ Taken' = Taken
<1>1. /\ buf' = buf /\ pos' = pos /\ scenario' = scenario /\ stream' = stream
      /\ arrived' = arrived /\ parsed' = parsed
  BY DEF vars, wire, life
<1>2. Content' = Content /\ Unread(pos)' = Unread(pos)
  BY <1>1, Zenon DEF Content, Unread
<1>3. Left' = Left /\ Taken' = Taken
  BY <1>1, <1>2, Zenon DEF Left, Taken
<1>4. QueueInv'
  BY <1>1, Zenon DEF DataInv, QueueInv
<1> QED
  BY <1>1, <1>2, <1>3, <1>4, Zenon DEF DataInv

(* A life goes on.                                                           *)
LEMMA LifeKept ==
  ASSUME LifeInv, UNCHANGED life, st # "idle"
  PROVE  LifeInv' /\ LifeOf(scenario, key, accept, stream)
<1>1. scenario' = scenario /\ key' = key /\ accept' = accept /\ stream' = stream
  BY DEF life
<1> QED
  BY <1>1, Zenon DEF LifeInv

(* Nothing is written.                                                       *)
LEMMA NothingWritten ==
  ASSUME out' = NoFrame
  PROVE  ControlDecodes'
<1>1. out'.bytes = <<>> /\ out'.room = 0 /\ out'.op = 0 /\ out'.payload = <<>>
  BY DEF NoFrame
<1>2. 0 < 6 + Len(<<>>) /\ 0 # 8
  OBVIOUS
<1> QED
  BY <1>1, <1>2, Zenon DEF ControlDecodes

(* What is written, from what it decodes to.                                 *)
LEMMA WrittenDecodes ==
  ASSUME NEW op, NEW p, NEW room, NEW w, Writes(op, p, room, w),
         DecodesTo(w, room, op, IF op # 8 THEN p ELSE CloseCode(p))
  PROVE  ControlDecodes'
<1>1. out'.op = op /\ out'.payload = p /\ out'.room = room /\ out'.bytes = w
  BY DEF Writes
<1> DEFINE q == IF op # 8 THEN p ELSE CloseCode(p)
<1>2. q = IF out'.op # 8 THEN out'.payload
          ELSE IF Len(out'.payload) >= 2 THEN SubSeq(out'.payload, 1, 2) ELSE <<3, 232>>
  BY <1>1, Zenon DEF CloseCode, Part
<1> HIDE DEF q
<1>3. IF room < 6 + Len(q) THEN w = <<>>
      ELSE /\ Len(w) = 6 + Len(q)
           /\ Unmasking(w) = [fin |-> 1, op |-> op, n |-> Len(q), payload |-> q]
  BY Zenon DEF DecodesTo, q
<1> QED
  BY <1>1, <1>2, <1>3, Zenon DEF ControlDecodes

-----------------------------------------------------------------------------
\* The steps

(* Nothing has arrived: the buffer is empty, whatever the stream is.         *)
LEMMA NothingArrived ==
  ASSUME NEW t \in Seq(Byte), NEW c, NEW u, c = <<>>, u = 0
  PROVE  StreamOf(t, 0, c, u)
<1>1. 0 \in 0..Len(t) /\ 0 \in 0..0 /\ 0 - 0 = 0 /\ Len(<<>>) = 0 /\ 1..0 = {}
  OBVIOUS
<1>2. <<>> \in Seq(Bytes)
  OBVIOUS
<1>3. IsPart(<<>>, t, 0, 0)
  BY <1>1, <1>2, Zenon DEF IsPart
<1> QED
  BY <1>1, <1>3, Zenon DEF StreamOf

(* Nothing is parsed.                                                        *)
LEMMA NothingParsed ==
  ASSUME NEW sc \in Scenarios
  PROVE  /\ <<>> \in Seq(Parsed) /\ Len(<<>>) <= Len(sc.frames) /\ Len(<<>>) = 0
         /\ 1..Len(<<>>) = {} /\ LeftOf(sc.frames, 0) = sc.frames
<1> DEFINE fs == sc.frames
<1>1. fs \in Seq(ServerFrames)
  BY ScenarioIs, Zenon
<1> HIDE DEF fs
<1>2. Len(fs) \in Nat /\ Len(<<>>) <= Len(fs) /\ Len(<<>>) = 0 /\ 1..0 = {} /\ 0 + 1 = 1
  BY <1>1
<1>3. LeftOf(fs, 0) = fs
  <2>1. Len(fs) \in 0..Len(fs) /\ 0 \in 0..Len(fs) /\ Len(fs) - 0 = Len(fs)
        /\ \A i \in 1..Len(fs) : 0 + i = i
    BY <1>2
  <2> DEFINE g == Part(fs, 0 + 1, Len(fs))
  <2>2. /\ g \in Seq(ServerFrames) /\ Len(g) = Len(fs) - 0
        /\ \A i \in 1..Len(fs) - 0 : g[i] = fs[0 + i]
    BY <1>1, <2>1, PartOfSeq, Zenon
  <2> HIDE DEF g
  <2>3. Len(g) = Len(fs) /\ \A i \in 1..Len(fs) : g[i] = fs[i]
    BY <2>1, <2>2, Zenon
  <2>4. g = fs
    BY <1>1, <2>2, <2>3, SeqEqual, Zenon
  <2> QED
    BY <2>4, Zenon DEF g, LeftOf
<1>4. <<>> \in Seq(Parsed)
  OBVIOUS
<1> QED
  BY <1>2, <1>3, <1>4, Zenon DEF fs

(* The session starts with empty buffers.                                    *)
LEMMA WireStarts ==
  ASSUME WireInit
  PROVE  WireInv /\ Queue!Init
<1>1. Init /\ st = "idle" /\ scenario \in Scenarios /\ stream = <<>> /\ arrived = 0 /\ parsed = <<>>
      /\ out = NoFrame
  BY DEF WireInit
<1>2. QueueInv /\ Queue!Init
  BY <1>1, StartsEmpty, Zenon
<1>3. Content = <<>> /\ Unread(pos) = 0
  <2>1. Content = <<>>
    BY <1>2, Zenon DEF Queue!Init
  <2>2. Unread(pos) = 0
    BY <1>1 DEF Init, Cleared, Unread
  <2> QED
    BY <2>1, <2>2, Zenon
<1>4. StreamOf(stream, arrived, Content, Unread(pos))
  <2>1. <<>> \in Seq(Byte)
    OBVIOUS
  <2>2. StreamOf(<<>>, 0, Content, Unread(pos))
    BY <1>3, <2>1, NothingArrived, Zenon
  <2> QED
    BY <1>1, <2>2, Zenon
<1>5. parsed \in Seq(Parsed) /\ InOrder(scenario.frames, parsed)
  BY <1>1, NothingParsed, Zenon DEF InOrder
<1>6. DataInv
  BY <1>1, <1>2, <1>4, <1>5, Zenon DEF DataInv
<1>7. LifeInv /\ ProgressInv
  <2>1. st \notin {"listening", "failed", "undefined", "beyond"}
    BY <1>1
  <2> QED
    BY <1>1, <1>3, <2>1, Zenon DEF LifeInv, ProgressInv
<1>8. ControlDecodes
  <2>1. out.bytes = <<>> /\ out.room = 0 /\ out.op = 0 /\ out.payload = <<>>
    BY <1>1 DEF NoFrame
  <2>2. 0 < 6 + Len(<<>>) /\ 0 # 8
    OBVIOUS
  <2> QED
    BY <2>1, <2>2, Zenon DEF ControlDecodes
<1> QED
  BY <1>2, <1>6, <1>7, <1>8, Zenon DEF WireInv

(* on_connect(): the key, and what the server will answer.                   *)
LEMMA ConnectStep ==
  ASSUME WireInv, OnConnect
  PROVE  WireInv' /\ UNCHANGED Content
<1>1. /\ st = "idle" /\ st' = "handshake_sent" /\ out' = NoFrame
      /\ key' = base64_encode(scenario.nonce) /\ accept' = base64_encode(Sha1(key'))
      /\ stream' = Text(scenario.response, Chars(accept')) \o Frames(scenario.frames)
  BY Zenon DEF OnConnect
<1>2. buf' = buf /\ pos' = pos /\ scenario' = scenario /\ arrived' = arrived /\ parsed' = parsed
  BY DEF OnConnect, vars
<1>3. /\ QueueInv /\ scenario \in Scenarios /\ parsed \in Seq(Parsed)
      /\ InOrder(scenario.frames, parsed)
      /\ StreamOf(stream, arrived, Content, Unread(pos))
      /\ arrived = 0 /\ Unread(pos) = arrived /\ parsed = <<>>
  BY <1>1, Zenon DEF WireInv, DataInv, ProgressInv
<1>4. Content' = Content /\ Unread(pos)' = Unread(pos)
  BY <1>2, Zenon DEF Content, Unread
<1>5. LifeOf(scenario, key', accept', stream')
  BY <1>1, Zenon DEF LifeOf, KeyOf, Cat
<1>6. stream' \in Seq(Byte)
  BY <1>3, <1>5, LifeIs, Zenon
<1>7. StreamOf(stream', arrived, Content, Unread(pos))
  <2>1. Content = <<>>
    <3>1. IsPart(Content, stream, arrived - Unread(pos), arrived)
      BY Zenon DEF WireInv, DataInv, StreamOf
    <3>2. arrived - Unread(pos) = 0 /\ arrived = 0 /\ 0 \in Nat
      BY <1>3
    <3>3. IsPart(Content, stream, 0, 0)
      BY <3>1, <3>2, Zenon
    <3>4. 0 \in Nat
      OBVIOUS
    <3> QED
      BY <3>3, <3>4, PartOfNone
  <2> DEFINE t == stream'
             c == Content
             u == Unread(pos)
  <2>2. t \in Seq(Byte) /\ c = <<>> /\ u = 0
    BY <1>3, <1>6, <2>1, Zenon
  <2> HIDE DEF t, c, u
  <2>3. StreamOf(t, 0, c, u)
    BY <2>2, NothingArrived, Zenon
  <2> QED
    BY <1>3, <2>3, Zenon DEF t, c, u
<1>8. DataInv'
  <2>1. QueueInv'
    BY <1>2, <1>3, Zenon DEF QueueInv
  <2> QED
    BY <1>2, <1>3, <1>4, <1>7, <2>1, Zenon DEF DataInv
<1>9. LifeInv' /\ ProgressInv'
  <2>1. LifeInv'
    BY <1>2, <1>5, Zenon DEF LifeInv
  <2>2. ProgressInv'
    <3>1. st' \notin {"idle", "listening", "failed", "undefined", "beyond"}
      BY <1>1
    <3> QED
      BY <1>2, <1>3, <1>4, <3>1, Zenon DEF ProgressInv
  <2> QED
    BY <2>1, <2>2, Zenon
<1> QED
  BY <1>1, <1>4, <1>8, <1>9, NothingWritten, Zenon DEF WireInv

(* A byte of the stream reaches the buffer.                                  *)
LEMMA ArriveStep ==
  ASSUME WireInv, Arrive
  PROVE  WireInv' /\ Queue!Produce
<1>1. /\ Open /\ arrived < Len(stream) /\ ~Full(pos, CAP) /\ WriteBytes(<<stream[arrived + 1]>>)
      /\ arrived' = arrived + 1 /\ out' = NoFrame /\ st' = st /\ UNCHANGED life
      /\ parsed' = parsed
  BY DEF Arrive
<1>2. scenario' = scenario /\ stream' = stream
  BY <1>1 DEF life
<1>3. /\ QueueInv /\ scenario \in Scenarios /\ parsed \in Seq(Parsed)
      /\ InOrder(scenario.frames, parsed)
      /\ StreamOf(stream, arrived, Content, Unread(pos)) /\ LifeInv /\ ProgressInv
  BY Zenon DEF WireInv, DataInv
<1>4. st # "idle"
  BY <1>1 DEF Open
<1> DEFINE t == stream
           a == arrived
           u == Unread(pos)
           m == a - u
           b == stream[arrived + 1]
<1>5. t \in Seq(Byte) /\ a \in 0..Len(t) /\ u \in 0..a /\ IsPart(Content, t, m, a) /\ a < Len(t)
  BY <1>1, <1>3, Zenon DEF StreamOf
<1>6. m \in Nat /\ a \in Nat /\ a - m = u /\ b \in Byte /\ b = t[a + 1] /\ Len(t) \in Nat
  BY <1>5
<1>7. QueueInv' /\ Queue!Produce /\ Unread(pos)' = Unread(pos) + 1 /\ IsPart(Content', t, m, a + 1)
  <2>1. WriteBytes(<<b>>)
    BY <1>1, Zenon
  <2>2. a - m = Unread(pos)
    BY <1>6, Zenon
  <2> HIDE DEF t, a, u, m, b
  <2> QED
    BY <1>1, <1>3, <1>5, <1>6, <2>1, <2>2, WriteMoves, Zenon
<1> DEFINE v == Unread(pos)'
<1>8. v = u + 1 /\ a + 1 \in 0..Len(t) /\ v \in 0..a + 1 /\ (a + 1) - v = m
  <2>1. v = u + 1
    BY <1>7, Zenon
  <2> HIDE DEF v, u
  <2> QED
    BY <1>5, <1>6, <2>1 DEF u
<1>9. DataInv'
  <2>1. StreamOf(t, a + 1, Content', v)
    BY <1>5, <1>7, <1>8, Zenon DEF StreamOf
  <2> QED
    BY <1>1, <1>2, <1>3, <1>7, <2>1, Zenon DEF DataInv
<1>10. LifeInv'
  BY <1>1, <1>3, <1>4, LifeKept, Zenon
<1>11. ProgressInv'
  <2>1. Left' = Left /\ Taken' = Taken
    <3>1. Left' = Left
      BY <1>1, <1>2, Zenon DEF Left
    <3>2. Taken = m /\ Taken' = (a + 1) - v
      BY <1>1, Zenon DEF Taken
    <3> QED
      BY <1>8, <3>1, <3>2, Zenon
  <2>2. st = "handshake_sent" => v = a + 1
    BY <1>3, <1>8, Zenon DEF ProgressInv
  <2> QED
    BY <1>1, <1>2, <1>3, <1>4, <2>1, <2>2, Zenon DEF ProgressInv
<1> QED
  BY <1>1, <1>7, <1>9, <1>10, <1>11, NothingWritten, Zenon DEF WireInv

(* What only changes where the session is: it fails, closes or stops.        *)
LEMMA SessionStep ==
  ASSUME WireInv, UNCHANGED <<vars, wire>>, st # "idle", ControlDecodes',
         \/ st' = st
         \/ st' \in {"overflow", "closing", "closed", "stopped", "unsent"}
         \/ st' = "failed" /\ Left # <<>> /\ Left[1].op > 15
         \/ st' = "beyond" /\ Left # <<>> /\ Wraps(Left[1])
  PROVE  WireInv' /\ UNCHANGED Content
<1>1. DataInv /\ LifeInv /\ ProgressInv
  BY Zenon DEF WireInv
<1>2. DataInv' /\ Content' = Content /\ Unread(pos)' = Unread(pos) /\ Left' = Left /\ Taken' = Taken
  BY <1>1, DataKept, Zenon
<1>3. UNCHANGED life /\ scenario' = scenario /\ stream' = stream /\ arrived' = arrived /\ parsed' = parsed
  BY DEF wire, life
<1>4. LifeInv'
  BY <1>1, <1>3, LifeKept, Zenon
<1>5. ProgressInv'
  <2>1. CASE st' = st
    BY <1>1, <1>2, <1>3, <2>1, Zenon DEF ProgressInv
  <2>2. CASE st' \in {"overflow", "closing", "closed", "stopped", "unsent"}
    <3>1. st' \notin {"idle", "handshake_sent", "listening", "failed", "undefined", "beyond"}
      BY <2>2
    <3> QED
      BY <3>1, Zenon DEF ProgressInv
  <2>3. CASE st' = "failed" /\ Left # <<>> /\ Left[1].op > 15
    <3>1. st' \notin {"idle", "handshake_sent", "listening", "beyond"}
      BY <2>3
    <3> QED
      BY <1>2, <2>3, <3>1, Zenon DEF ProgressInv
  <2>4. CASE st' = "beyond" /\ Left # <<>> /\ Wraps(Left[1])
    <3>1. st' \notin {"idle", "handshake_sent", "listening", "failed", "undefined"}
      BY <2>4
    <3> QED
      BY <1>2, <2>4, <3>1, Zenon DEF ProgressInv
  <2> QED
    BY <2>1, <2>2, <2>3, <2>4, Zenon
<1> QED
  BY <1>2, <1>4, <1>5, Zenon DEF WireInv

(* read_handshake takes the response.                                        *)
LEMMA ResponseStep ==
  ASSUME WireInv, OnResponse
  PROVE  WireInv' /\ Queue!Consume
<1> DEFINE r == read_handshake(Chars(accept), Content)
<1>1. /\ st = "handshake_sent" /\ r.consumed > 0 /\ ReadBytes(r.consumed)
      /\ st' \in CASE r.status = "ok" -> {"listening"}
                   [] r.status = "error" -> {"failed"}
                   [] r.status = "beyond" -> {"failed", "undefined"}
      /\ out' = NoFrame /\ UNCHANGED wire
  BY Zenon DEF OnResponse
<1>2. /\ UNCHANGED life /\ scenario' = scenario /\ stream' = stream /\ arrived' = arrived
      /\ parsed' = parsed
  BY <1>1 DEF wire, life
<1>3. /\ QueueInv /\ scenario \in Scenarios /\ parsed \in Seq(Parsed)
      /\ InOrder(scenario.frames, parsed)
      /\ StreamOf(stream, arrived, Content, arrived) /\ LifeInv
      /\ Unread(pos) = arrived /\ parsed = <<>>
  BY <1>1, Zenon DEF WireInv, DataInv, ProgressInv
<1>4. LifeInv' /\ LifeOf(scenario, key, accept, stream)
  <2>1. st # "idle"
    BY <1>1
  <2> QED
    BY <1>2, <1>3, <2>1, LifeKept, Zenon
<1>5. r.consumed \in 0..arrived /\ ResponseTaken(scenario, stream, r)
  BY <1>1, <1>3, <1>4, TakesResponse, Zenon
<1> DEFINE k == r.consumed
           n == arrived
           t == stream
<1> HIDE DEF r
<1>6. /\ t \in Seq(Byte) /\ n \in 0..Len(t) /\ IsPart(Content, t, n - n, n) /\ k \in 0..n
      /\ k \in 0..Unread(pos) /\ ReadBytes(k) /\ Unread(pos) = n
  BY <1>1, <1>3, <1>5, Zenon DEF StreamOf, r
<1> HIDE DEF k, n, t
<1>7. n \in Nat /\ 0 \in Nat /\ n - n = 0 /\ n - 0 = n /\ 0 + k = k /\ Len(t) \in Nat
  BY <1>6
<1>8. QueueInv' /\ Queue!Consume /\ Unread(pos)' = n - k /\ IsPart(Content', t, k, n)
  <2>1. IsPart(Content, t, 0, n) /\ n - 0 = Unread(pos)
    BY <1>6, <1>7, Zenon
  <2>2. /\ QueueInv' /\ Queue!Consume /\ Unread(pos)' = Unread(pos) - k
        /\ IsPart(Content', t, 0 + k, n)
    BY <1>3, <1>6, <1>7, <2>1, ReadMoves, Zenon
  <2> QED
    BY <1>6, <1>7, <2>2, Zenon
<1> DEFINE v == Unread(pos)'
<1>9. v \in 0..n /\ n - v = k
  <2>1. v = n - k
    BY <1>8, Zenon
  <2> HIDE DEF v
  <2> QED
    BY <1>6, <1>7, <2>1
<1>10. DataInv'
  <2>1. StreamOf(t, n, Content', v)
    BY <1>6, <1>8, <1>9, Zenon DEF StreamOf
  <2> QED
    BY <1>2, <1>3, <1>8, <2>1, Zenon DEF DataInv, t, n
<1>11. ProgressInv'
  <2>1. Left' = scenario.frames
    BY <1>2, <1>3, NothingParsed, Zenon DEF Left
  <2>2. Taken' = k
    BY <1>2, <1>9, Zenon DEF Taken, n
  <2>3. /\ IsPart(Frames(scenario.frames), t, k, Len(t))
        /\ r.status = "ok" <=> Valid(scenario.response)
        /\ r.status \in {"ok", "error", "beyond"}
    BY <1>5, Zenon DEF ResponseTaken, k, t
  <2>4. CASE r.status = "ok"
    <3>1. st' = "listening" /\ st' \notin {"idle", "handshake_sent", "failed", "undefined", "beyond"}
      BY <1>1, <2>4
    <3> QED
      BY <1>2, <2>1, <2>2, <2>3, <2>4, <3>1, Zenon DEF ProgressInv, t
  <2>5. CASE r.status # "ok"
    <3>1. st' \in {"failed", "undefined"}
      BY <1>1, <2>3, <2>5
    <3>2. st' \notin {"idle", "handshake_sent", "listening", "beyond"}
      BY <3>1
    <3> QED
      BY <1>2, <2>3, <2>5, <3>2, Zenon DEF ProgressInv
  <2> QED
    BY <2>4, <2>5, Zenon
<1> QED
  BY <1>1, <1>4, <1>8, <1>10, <1>11, NothingWritten, Zenon DEF WireInv

(* A PING, a PONG or our CLOSE, in any room and with any mask.               *)
LEMMA ControlWritten ==
  ASSUME NEW op \in {8, 9, 10}, NEW p \in Seq(Byte), Len(p) <= 125, op = 8 => Len(p) = 2,
         Control(op, p)
  PROVE  ControlDecodes'
<1>1. PICK room \in Rooms, mask \in Masks :
        Writes(op, p, room, write_control_frame(room, op, p, mask))
  BY Zenon DEF Control
<1>2. room \in Nat /\ mask \in [1..4 -> Byte]
  BY WireAssumption, Zenon
<1>3. op \in 0..15
  OBVIOUS
<1>4. DecodesTo(write_control_frame(room, op, p, mask), room, op, p)
  BY <1>2, <1>3, ControlIs, Zenon
<1>5. p = IF op # 8 THEN p ELSE CloseCode(p)
  <2>1. ASSUME Len(p) = 2 PROVE CloseCode(p) = p
    <3> DEFINE n == Len(p)
               o == 0
    <3>1. n \in 0..Len(p) /\ o \in 0..n /\ o + 1 = 1 /\ n - o = n /\ \A i \in 1..n : o + i = i
      OBVIOUS
    <3>2. n >= 2 /\ n = 2
      BY <2>1
    <3> HIDE DEF n, o
    <3> DEFINE g == Part(p, o + 1, n)
    <3>3. g \in Seq(Byte) /\ Len(g) = n - o /\ \A i \in 1..n - o : g[i] = p[o + i]
      <4>1. n \in 0..Len(p) /\ o \in 0..n /\ p \in Seq(Byte)
        BY <3>1, Zenon
      <4> HIDE DEF g
      <4>2. /\ Part(p, o + 1, n) \in Seq(Byte) /\ Len(Part(p, o + 1, n)) = n - o
            /\ \A i \in 1..n - o : Part(p, o + 1, n)[i] = p[o + i]
        BY <4>1, PartOfSeq, Zenon
      <4> QED
        BY <4>2, Zenon DEF g
    <3> HIDE DEF g
    <3>4. Len(g) = n /\ \A i \in 1..n : g[i] = p[i]
      BY <3>1, <3>3, Zenon
    <3>5. g = p
      BY <3>3, <3>4, SeqEqual, Zenon DEF n
    <3>6. g = Part(p, 1, 2)
      BY <3>1, <3>2, Zenon DEF g
    <3> QED
      BY <3>2, <3>5, <3>6, Zenon DEF n, CloseCode
  <2> QED
    BY <2>1, Zenon
<1> DEFINE w == write_control_frame(room, op, p, mask)
<1> HIDE DEF w
<1>6. DecodesTo(w, room, op, IF op # 8 THEN p ELSE CloseCode(p)) /\ Writes(op, p, room, w)
  BY <1>1, <1>4, <1>5, Zenon DEF w
<1> QED
  BY <1>6, WrittenDecodes, Zenon

(* The answer to a CLOSE.                                                    *)
LEMMA CloseWritten ==
  ASSUME NEW p \in Seq(Byte), NEW room \in Rooms, Writes(8, p, room, CloseReply(room, p))
  PROVE  ControlDecodes'
<1>1. room \in Nat
  BY WireAssumption, Zenon
<1>2. DecodesTo(CloseReply(room, p), room, 8, CloseCode(p))
  BY <1>1, CloseReplyIs, Zenon
<1> DEFINE w == CloseReply(room, p)
           op == 8
<1> HIDE DEF w, op
<1>3. DecodesTo(w, room, op, IF op # 8 THEN p ELSE CloseCode(p)) /\ Writes(op, p, room, w)
  BY <1>2, Zenon DEF w, op
<1> QED
  BY <1>3, WrittenDecodes, Zenon

(* handle_frame(): what is written, and where the session goes.              *)
LEMMA HandleWrites ==
  ASSUME NEW op \in 0..127, NEW p \in Seq(Byte), Handle(op, p)
  PROVE  ControlDecodes' /\ (st' = st \/ st' = "closing")
<1>1. CASE op = 8 /\ st' = "closing" /\ \E room \in Rooms : Writes(8, p, room, CloseReply(room, p))
  BY <1>1, CloseWritten, Zenon
<1>2. CASE st' = "closing" /\ out' = NoFrame
  BY <1>2, NothingWritten, Zenon
<1>3. CASE /\ op = 9 /\ Len(p) < 126 /\ Control(10, p)
           /\ st' = IF out'.room < 6 + Len(p) THEN "closing" ELSE st
  <2>1. 10 \in {8, 9, 10} /\ 10 # 8 /\ Len(p) <= 125
    BY <1>3
  <2>2. ControlDecodes'
    BY <1>3, <2>1, ControlWritten, Zenon
  <2> QED
    BY <1>3, <2>2, Zenon
<1>4. CASE out' = NoFrame /\ UNCHANGED st
  BY <1>4, NothingWritten, Zenon
<1> QED
  BY <1>1, <1>2, <1>3, <1>4, Zenon DEF Handle

(* heartbeat(), on_shutdown() and a full buffer.                             *)
LEMMA OtherSteps ==
  ASSUME WireInv, Overflow \/ Heartbeat \/ OnShutdown
  PROVE  WireInv' /\ UNCHANGED Content
<1>1. st # "idle"
  BY DEF Overflow, Heartbeat, OnShutdown, Open
<1>2. UNCHANGED <<vars, wire>>
  BY DEF Overflow, Heartbeat, OnShutdown
<1>3. st' = st \/ st' \in {"overflow", "closing", "closed", "stopped", "unsent"}
  BY DEF Overflow, Heartbeat, OnShutdown
<1>4. ControlDecodes'
  <2>1. CASE Overflow
    BY <2>1, NothingWritten, Zenon DEF Overflow
  <2>2. CASE Heartbeat
    <3>1. 9 \in {8, 9, 10} /\ 9 # 8 /\ <<>> \in Seq(Byte) /\ Len(<<>>) <= 125
      OBVIOUS
    <3> QED
      BY <2>2, <3>1, ControlWritten, Zenon DEF Heartbeat
  <2>3. CASE OnShutdown
    <3>1. PICK code \in CloseCodes : Control(8, code)
      BY <2>3, Zenon DEF OnShutdown
    <3>2. code \in [1..2 -> Byte] /\ 2 \in Nat
      BY WireAssumption
    <3>3. code \in Seq(Byte) /\ Len(code) = 2
      BY <3>2, FunctionIsSeq, Zenon
    <3>4. 8 \in {8, 9, 10} /\ Len(code) <= 125
      BY <3>3
    <3> QED
      BY <3>1, <3>3, <3>4, ControlWritten, Zenon
  <2> QED
    BY <2>1, <2>2, <2>3, Zenon
<1> QED
  BY <1>1, <1>2, <1>3, <1>4, SessionStep, Zenon

(* restart(): both buffers are empty, nothing of the last life is left.      *)
LEMMA RestartStep ==
  ASSUME WireInv, Restart
  PROVE  WireInv' /\ Queue!Consume
<1>1. /\ st' = "idle" /\ Clear /\ stream' = <<>> /\ arrived' = 0 /\ parsed' = <<>>
      /\ out' = NoFrame /\ scenario' = scenario
  BY DEF Restart
<1>2. QueueInv /\ scenario \in Scenarios
  BY Zenon DEF WireInv, DataInv
<1>3. QueueInv' /\ Queue!Consume
  BY <1>1, <1>2, ReadConsumes, Zenon
<1> DEFINE c == Content'
           u == Unread(pos)'
<1>4. u = 0
  BY <1>1 DEF Clear, Cleared, Unread
<1>5. c = <<>>
  <2>1. (Content \in Seq(Byte) /\ Len(Content) = Unread(pos))'
    BY <1>3, ContentIs, PTL
  <2>2. c \in Seq(Byte) /\ Len(c) = 0
    BY <1>4, <2>1, Zenon
  <2> HIDE DEF c
  <2> QED
    BY <2>2, EmptySeq, Zenon
<1>6. StreamOf(stream', arrived', c, u)
  <2> HIDE DEF c, u
  <2>1. <<>> \in Seq(Byte)
    OBVIOUS
  <2>2. StreamOf(<<>>, 0, c, u)
    BY <1>4, <1>5, <2>1, NothingArrived, Zenon
  <2> QED
    BY <1>1, <2>2, Zenon
<1>7. parsed' \in Seq(Parsed) /\ InOrder(scenario'.frames, parsed')
  BY <1>1, <1>2, NothingParsed, Zenon DEF InOrder
<1>8. DataInv'
  BY <1>1, <1>2, <1>3, <1>6, <1>7, Zenon DEF DataInv
<1>9. LifeInv' /\ ProgressInv'
  <2>1. st' \notin {"listening", "failed", "undefined", "beyond"}
    BY <1>1
  <2> QED
    BY <1>1, <1>4, <2>1, Zenon DEF LifeInv, ProgressInv
<1> QED
  BY <1>1, <1>3, <1>8, <1>9, NothingWritten, Zenon DEF WireInv

(* One more frame is parsed.                                                 *)
LEMMA OneMoreParsed ==
  ASSUME NEW fs \in Seq(ServerFrames), NEW ps \in Seq(Parsed), InOrder(fs, ps), NEW q \in Parsed,
         Len(ps) + 1 \in 0..Len(fs), NEW f, f = fs[Len(ps) + 1], f.form # 0,
         q = [op |-> f.op, fin |-> f.fin, payload |-> f.payload]
  PROVE  /\ Append(ps, q) \in Seq(Parsed) /\ Len(Append(ps, q)) = Len(ps) + 1
         /\ InOrder(fs, Append(ps, q))
<1> DEFINE n == Len(ps)
           z == Append(ps, q)
<1>1. /\ n \in Nat /\ z \in Seq(Parsed) /\ Len(z) = n + 1 /\ z[n + 1] = q
      /\ \A i \in 1..n : z[i] = ps[i]
  OBVIOUS
<1>2. \A i \in 1..n :
        fs[i].form # 0 /\ ps[i] = [op |-> fs[i].op, fin |-> fs[i].fin, payload |-> fs[i].payload]
  BY Zenon DEF InOrder
<1> HIDE DEF n, z
<1>3. n + 1 <= Len(fs)
  <2>1. Len(fs) \in Nat /\ n + 1 \in 0..Len(fs)
    BY DEF n
  <2> QED
    BY <2>1
<1>4. ASSUME NEW i \in 1..n + 1
      PROVE  /\ fs[i].form # 0
             /\ z[i] = [op |-> fs[i].op, fin |-> fs[i].fin, payload |-> fs[i].payload]
  <2>1. i \in 1..n \/ i = n + 1
    BY <1>1
  <2>2. f = fs[n + 1]
    BY Zenon DEF n
  <2> QED
    BY <1>1, <1>2, <2>1, <2>2, Zenon
<1>5. InOrder(fs, z)
  BY <1>1, <1>3, <1>4, Zenon DEF InOrder
<1> QED
  BY <1>1, <1>5, Zenon DEF n, z

(* parse_frame yields a frame, and handle_frame() deals with it.             *)
LEMMA ParsedStep ==
  ASSUME WireInv, st = "listening", UNCHANGED <<life, arrived>>,
         parse_frame(Content).status = "ok", ReadBytes(parse_frame(Content).consumed),
         parsed' = Append(parsed, [op |-> parse_frame(Content).op, fin |-> parse_frame(Content).fin,
                                   payload |-> parse_frame(Content).payload]),
         IF parse_frame(Content).fin = 1
         THEN Handle(parse_frame(Content).op, parse_frame(Content).payload)
         ELSE out' = NoFrame /\ UNCHANGED st
  PROVE  WireInv' /\ Queue!Consume
<1> DEFINE p == parse_frame(Content)
           fs == scenario.frames
           n == Len(parsed)
           L == LeftOf(fs, n)
           t == stream
           a == arrived
           u == Unread(pos)
           m == a - u
<1>1. /\ QueueInv /\ scenario \in Scenarios /\ parsed \in Seq(Parsed) /\ InOrder(fs, parsed)
      /\ StreamOf(t, a, Content, u) /\ LifeInv /\ Valid(scenario.response)
      /\ IsPart(Frames(L), t, m, Len(t))
  <2>1. InOrder(fs, parsed)
    BY Zenon DEF WireInv, DataInv
  <2>2. Valid(scenario.response) /\ IsPart(Frames(L), t, m, Len(t))
    BY Zenon DEF WireInv, ProgressInv, Left, Taken
  <2> QED
    BY <2>1, <2>2, Zenon DEF WireInv, DataInv
<1>2. t \in Seq(Byte) /\ a \in 0..Len(t) /\ u \in 0..a /\ IsPart(Content, t, m, a)
  BY <1>1, Zenon DEF StreamOf
<1>3. /\ scenario' = scenario /\ stream' = stream /\ arrived' = arrived /\ UNCHANGED life
  BY DEF life
<1>4. /\ p.status = "ok" /\ ReadBytes(p.consumed) /\ p # NeedMore
      /\ p # [status |-> "bad_reserved"] /\ p # [status |-> "beyond"] /\ Len(Content) < HUGE
  <2>1. p.status = "ok" /\ ReadBytes(p.consumed)
    BY Zenon
  <2>2. Len(Content) < HUGE
    BY <1>1, ContentFits, Zenon
  <2> HIDE DEF p
  <2>3. p # NeedMore /\ p # [status |-> "bad_reserved"] /\ p # [status |-> "beyond"]
    BY <2>1 DEF NeedMore
  <2> QED
    BY <2>1, <2>2, <2>3, Zenon
<1>5. n \in 0..Len(fs) /\ fs \in Seq(ServerFrames) /\ n \in Nat
  <2>1. fs \in Seq(ServerFrames) /\ parsed \in Seq(Parsed) /\ Len(parsed) <= Len(fs)
    BY <1>1, ScenarioIs, Zenon DEF InOrder
  <2> HIDE DEF fs
  <2> QED
    BY <2>1
<1>6. L \in Seq(ServerFrames)
      /\ (L # <<>> => n + 1 \in 0..Len(fs) /\ L[1] = fs[n + 1] /\ Tail(L) = LeftOf(fs, n + 1))
  <2> HIDE DEF fs, n
  <2> QED
    BY <1>5, LeftIs, Zenon
<1>7. m \in Nat /\ a \in Nat /\ m <= a /\ a <= Len(t) /\ a - m = u /\ Len(t) \in Nat
  BY <1>2
<1> HIDE DEF L, p, fs, n, t, a, u, m
<1>8. L # <<>> /\ p.consumed \in 0..a - m /\ FrameTaken(L[1], Tail(L), t, m, p)
  BY <1>1, <1>2, <1>4, <1>6, <1>7, TakesFrame, Zenon DEF p
<1> DEFINE f == fs[n + 1]
           k == p.consumed
<1>9. /\ n + 1 \in 0..Len(fs) /\ Tail(L) = LeftOf(fs, n + 1) /\ L[1] = f
      /\ f.form # 0 /\ p.op = f.op /\ p.fin = f.fin /\ p.payload = f.payload
      /\ m + k <= Len(t) /\ IsPart(Frames(LeftOf(fs, n + 1)), t, m + k, Len(t))
  BY <1>6, <1>8, Zenon DEF FrameTaken
<1>10. f \in ServerFrames /\ f.op \in 0..127 /\ f.fin \in 0..1 /\ f.payload \in Seq(Byte)
  <2>1. n + 1 \in 1..Len(fs)
    BY <1>5, <1>9
  <2>2. f \in ServerFrames
    BY <1>5, <2>1
  <2> HIDE DEF f
  <2> QED
    BY <2>2, ServerFrameIs, Zenon
<1> HIDE DEF f, k
<1>11. k \in 0..u /\ ReadBytes(k) /\ k \in 0..Unread(pos)
  BY <1>4, <1>7, <1>8, Zenon DEF k, u
<1>12. QueueInv' /\ Queue!Consume /\ Unread(pos)' = u - k /\ IsPart(Content', t, m + k, a)
  <2>1. a - m = Unread(pos)
    BY <1>7, Zenon DEF u
  <2>2. /\ QueueInv' /\ Queue!Consume /\ Unread(pos)' = Unread(pos) - k
        /\ IsPart(Content', t, m + k, a)
    BY <1>1, <1>2, <1>7, <1>11, <2>1, ReadMoves, Zenon
  <2> QED
    BY <2>2, Zenon DEF u
<1> DEFINE v == Unread(pos)'
<1>13. v \in 0..a /\ a - v = m + k
  <2>1. v = u - k
    BY <1>12, Zenon
  <2>2. u \in 0..a
    BY <1>2, Zenon
  <2> HIDE DEF v
  <2> QED
    BY <1>7, <1>11, <2>1, <2>2
<1>14. parsed' \in Seq(Parsed) /\ Len(parsed') = n + 1 /\ InOrder(fs, parsed')
  <2> DEFINE q == [op |-> f.op, fin |-> f.fin, payload |-> f.payload]
  <2>1. q \in Parsed
    BY <1>10, Zenon DEF Parsed
  <2>2. parsed' = Append(parsed, q)
    BY <1>9, Zenon DEF p
  <2> HIDE DEF q
  <2>3. /\ Append(parsed, q) \in Seq(Parsed) /\ Len(Append(parsed, q)) = Len(parsed) + 1
        /\ InOrder(fs, Append(parsed, q))
    <3>1. f = fs[Len(parsed) + 1] /\ Len(parsed) + 1 \in 0..Len(fs) /\ f.form # 0
      BY <1>9, Zenon DEF n, f
    <3>2. q = [op |-> f.op, fin |-> f.fin, payload |-> f.payload]
      BY Zenon DEF q
    <3> QED
      BY <1>1, <1>5, <2>1, <3>1, <3>2, OneMoreParsed, Zenon
  <2> QED
    BY <2>2, <2>3, Zenon DEF n
<1>15. DataInv'
  <2>1. StreamOf(t, a, Content', v)
    BY <1>2, <1>12, <1>13, Zenon DEF StreamOf
  <2>2. InOrder(scenario'.frames, parsed')
    BY <1>3, <1>14, Zenon DEF fs
  <2> QED
    BY <1>1, <1>3, <1>12, <1>14, <2>1, <2>2, Zenon DEF DataInv, t, a
<1>16. ControlDecodes' /\ (st' = st \/ st' = "closing")
  <2>1. CASE p.fin = 1
    <3>1. Handle(f.op, f.payload)
      BY <1>9, <2>1, Zenon DEF p
    <3> QED
      BY <1>10, <3>1, HandleWrites, Zenon
  <2>2. CASE p.fin # 1
    <3>1. out' = NoFrame /\ st' = st
      BY <2>2, Zenon DEF p
    <3> QED
      BY <3>1, NothingWritten, Zenon
  <2> QED
    BY <2>1, <2>2, Zenon
<1>17. LifeInv'
  <2>1. st # "idle"
    OBVIOUS
  <2> QED
    BY <1>1, <1>3, <2>1, LifeKept, Zenon
<1>18. ProgressInv'
  <2>1. Left' = LeftOf(fs, n + 1) /\ Taken' = m + k
    BY <1>3, <1>13, <1>14, Zenon DEF Left, Taken, fs, a
  <2>2. /\ st' \in {"listening", "closing"}
        /\ st' \notin {"idle", "handshake_sent", "failed", "undefined", "beyond"}
    BY <1>16
  <2> QED
    BY <1>1, <1>3, <1>9, <2>1, <2>2, Zenon DEF ProgressInv, t
<1> QED
  BY <1>12, <1>15, <1>16, <1>17, <1>18, Zenon DEF WireInv

(* parse_frame finds something that the session does not take.               *)
LEMMA RefusedStep ==
  ASSUME WireInv, st = "listening", UNCHANGED <<life, arrived>>, UNCHANGED <<vars, parsed>>,
         \/ /\ parse_frame(Content).status \in {"bad_reserved", "masked_server"}
            /\ st' = "failed"
         \/ parse_frame(Content).status = "beyond" /\ st' = "beyond",
         out' = NoFrame
  PROVE  WireInv' /\ UNCHANGED Content
<1> DEFINE p == parse_frame(Content)
           fs == scenario.frames
           n == Len(parsed)
           L == LeftOf(fs, n)
           t == stream
           a == arrived
           u == Unread(pos)
           m == a - u
<1>1. /\ scenario \in Scenarios /\ parsed \in Seq(Parsed) /\ Len(parsed) <= Len(fs)
      /\ StreamOf(t, a, Content, u) /\ QueueInv
  BY Zenon DEF WireInv, DataInv, InOrder
<1>2. IsPart(Frames(L), t, m, Len(t))
  BY Zenon DEF WireInv, ProgressInv, Left, Taken
<1>3. t \in Seq(Byte) /\ a \in 0..Len(t) /\ u \in 0..a /\ IsPart(Content, t, m, a)
  BY <1>1, Zenon DEF StreamOf
<1>4. L \in Seq(ServerFrames)
  <2>1. fs \in Seq(ServerFrames) /\ parsed \in Seq(Parsed) /\ Len(parsed) <= Len(fs)
    BY <1>1, ScenarioIs, Zenon
  <2> HIDE DEF fs
  <2>2. n \in 0..Len(fs)
    BY <2>1
  <2> HIDE DEF n
  <2> QED
    BY <2>1, <2>2, LeftIs, Zenon
<1>5. m \in Nat /\ a \in Nat /\ m <= a /\ a <= Len(t)
  BY <1>3
<1>6. /\ p.status # "ok" /\ p # NeedMore /\ st' \in {"failed", "beyond"}
      /\ p = [status |-> "bad_reserved"] => st' = "failed"
      /\ p = [status |-> "beyond"] => st' = "beyond"
  <2>1. \/ p.status \in {"bad_reserved", "masked_server"} /\ st' = "failed"
        \/ p.status = "beyond" /\ st' = "beyond"
    BY Zenon
  <2> HIDE DEF p
  <2> QED
    BY <2>1 DEF NeedMore
<1>7. Len(Content) < HUGE
  BY <1>1, ContentFits, Zenon
<1> HIDE DEF p, fs, n, L, t, a, u, m
<1>8. /\ L # <<>>
      /\ \/ p = [status |-> "bad_reserved"] /\ L[1].op > 15
         \/ p = [status |-> "beyond"] /\ Wraps(L[1])
  BY <1>2, <1>3, <1>4, <1>5, <1>6, <1>7, TakesFrame, Zenon DEF p
<1>9. /\ Left # <<>>
      /\ \/ st' = "failed" /\ Left[1].op > 15
         \/ st' = "beyond" /\ Wraps(Left[1])
  BY <1>6, <1>8, Zenon DEF Left, L, fs, n
<1>10. UNCHANGED <<vars, wire>>
  BY DEF wire
<1>11. ControlDecodes' /\ st # "idle"
  <2>1. st # "idle"
    OBVIOUS
  <2> QED
    BY <2>1, NothingWritten, Zenon
<1> QED
  BY <1>9, <1>10, <1>11, SessionStep, Zenon

(* on_data() after the upgrade.                                              *)
LEMMA FrameStep ==
  ASSUME WireInv, OnFrame
  PROVE  WireInv' /\ (Queue!Consume \/ UNCHANGED Content)
<1> DEFINE p == parse_frame(Content)
<1>1. st = "listening" /\ UNCHANGED <<life, arrived>>
  BY DEF OnFrame
<1>2. CASE /\ p.status = "ok" /\ ReadBytes(p.consumed)
           /\ parsed' = Append(parsed, [op |-> p.op, fin |-> p.fin, payload |-> p.payload])
           /\ IF p.fin = 1 THEN Handle(p.op, p.payload) ELSE out' = NoFrame /\ UNCHANGED st
  BY <1>1, <1>2, ParsedStep, Zenon
<1>3. CASE /\ p.status \in {"bad_reserved", "masked_server"} /\ st' = "failed"
           /\ out' = NoFrame /\ UNCHANGED <<vars, parsed>>
  BY <1>1, <1>3, RefusedStep, Zenon
<1>4. CASE /\ p.status = "beyond" /\ st' = "beyond"
           /\ out' = NoFrame /\ UNCHANGED <<vars, parsed>>
  BY <1>1, <1>4, RefusedStep, Zenon
<1> QED
  BY <1>2, <1>3, <1>4, Zenon DEF OnFrame

(* Every step of the session preserves the invariant and is a step, or a     *)
(* stutter, of a queue of bytes.                                             *)
LEMMA WireSteps ==
  ASSUME WireInv, [WireNext]_wvars
  PROVE  WireInv' /\ [Queue!Next]_Content
<1>1. CASE OnConnect
  BY <1>1, ConnectStep, Zenon
<1>2. CASE Arrive
  BY <1>2, ArriveStep, Zenon DEF Queue!Next
<1>3. CASE OnResponse
  BY <1>3, ResponseStep, Zenon DEF Queue!Next
<1>4. CASE OnFrame
  BY <1>4, FrameStep, Zenon DEF Queue!Next
<1>5. CASE Overflow \/ Heartbeat \/ OnShutdown
  BY <1>5, OtherSteps, Zenon
<1>6. CASE Restart
  BY <1>6, RestartStep, Zenon DEF Queue!Next
<1>7. CASE UNCHANGED wvars
  <2>1. UNCHANGED <<vars, wire>> /\ st' = st /\ out' = out /\ UNCHANGED life
    BY <1>7 DEF wvars, wire
  <2>2. DataInv /\ LifeInv /\ ProgressInv /\ ControlDecodes
    BY Zenon DEF WireInv
  <2>3. DataInv' /\ Content' = Content /\ Unread(pos)' = Unread(pos) /\ Left' = Left /\ Taken' = Taken
    BY <2>1, <2>2, DataKept, Zenon
  <2>4. /\ scenario' = scenario /\ key' = key /\ accept' = accept /\ stream' = stream
        /\ arrived' = arrived /\ parsed' = parsed
    BY <2>1 DEF wire, life
  <2>5. LifeInv' /\ ProgressInv' /\ ControlDecodes'
    <3>1. LifeInv'
      BY <2>1, <2>2, <2>4, Zenon DEF LifeInv
    <3>2. ProgressInv'
      BY <2>1, <2>2, <2>3, <2>4, Zenon DEF ProgressInv
    <3>3. ControlDecodes'
      BY <2>1, <2>2, Zenon DEF ControlDecodes
    <3> QED
      BY <3>1, <3>2, <3>3, Zenon
  <2> QED
    BY <2>3, <2>5, Zenon DEF WireInv
<1> QED
  BY <1>1, <1>2, <1>3, <1>4, <1>5, <1>6, <1>7, Zenon DEF WireNext, Read, OnData

(* What holds in every state of a session.                                   *)
LEMMA WireInductive == WireSpec => []WireInv
<1>1. WireInit => WireInv
  BY WireStarts
<1>2. WireInv /\ [WireNext]_wvars => WireInv'
  BY WireSteps
<1> QED
  BY <1>1, <1>2, PTL DEF WireSpec

(* The response is accepted exactly if it is the answer to our request,      *)
(* however it is cut into pieces, and no byte behind it is lost: for every   *)
(* response, every stream of frames and every capacity of the buffer.        *)
THEOREM HandshakeSound == WireSpec => []HandshakeAgrees
<1>1. WireInv => HandshakeAgrees
  <2> SUFFICES ASSUME WireInv PROVE HandshakeAgrees
    OBVIOUS
  <2>1. ProgressInv /\ StreamOf(stream, arrived, Content, Unread(pos))
    BY Zenon DEF WireInv, DataInv
  <2>2. Left = left
    BY Zenon DEF Left, LeftOf, Part, left
  <2>3. ASSUME st = "listening"
        PROVE  Valid(scenario.response) /\ Taken + Len(Frames(Left)) = Len(stream)
    <3>1. Valid(scenario.response) /\ Len(Frames(Left)) = Len(stream) - Taken
      BY <2>1, <2>3, Zenon DEF ProgressInv, IsPart
    <3> DEFINE l == Len(stream)
               u == Unread(pos)
    <3>2. arrived \in 0..l /\ u \in 0..arrived /\ stream \in Seq(Byte)
      BY <2>1, Zenon DEF StreamOf
    <3>3. l \in Nat /\ Taken \in Nat
      BY <3>2 DEF Taken
    <3> HIDE DEF l
    <3>4. Len(Frames(Left)) = l - Taken
      BY <3>1, Zenon DEF l
    <3>5. Taken + Len(Frames(Left)) = l
      BY <3>3, <3>4
    <3> QED
      BY <3>1, <3>5, Zenon DEF l
  <2> QED
    BY <2>1, <2>2, <2>3, Zenon DEF HandshakeAgrees, ProgressInv, Valid, Own, Taken
<1> QED
  BY <1>1, WireInductive, PTL

(* parse_frame yields the frames of the server in order, with the opcode,    *)
(* flag and payload they were sent with, wherever the stream is cut.         *)
THEOREM FramesSound == WireSpec => []FramesInOrder
<1>1. WireInv => FramesInOrder
  <2>1. Left = left
    BY Zenon DEF Left, LeftOf, Part, left
  <2> QED
    BY <2>1, Zenon DEF WireInv, DataInv, ProgressInv, InOrder, FramesInOrder
<1> QED
  BY <1>1, WireInductive, PTL

(* The key of the request and the accept value are base64 of the bytes they  *)
(* stand for, whatever random_bytes yields.                                  *)
THEOREM KeySound == WireSpec => []KeyDecodes
<1>1. WireInv => KeyDecodes
  <2> SUFFICES ASSUME WireInv, st = "handshake_sent"
               PROVE  Encodes(key, scenario.nonce) /\ Encodes(accept, Sha1(key))
    BY Zenon DEF KeyDecodes
  <2>1. LifeInv /\ scenario \in Scenarios
    BY Zenon DEF WireInv, DataInv
  <2>2. st # "idle"
    OBVIOUS
  <2>3. LifeOf(scenario, key, accept, stream)
    BY <2>1, <2>2, Zenon DEF LifeInv
  <2> QED
    BY <2>1, <2>3, LifeIs, Zenon
<1> QED
  BY <1>1, WireInductive, PTL

(* Every PING, PONG and CLOSE fits the room it is given, and unmasks to what *)
(* was put into it: for every mask, payload and room.                        *)
THEOREM ControlSound == WireSpec => []ControlDecodes
<1>1. WireInv => ControlDecodes
  BY Zenon DEF WireInv
<1> QED
  BY <1>1, WireInductive, PTL

(* The session uses its receive buffer as a queue: what on_data() sees are   *)
(* the bytes that arrived, in order, less those it has taken.                *)
THEOREM SessionUsesAQueue == WireSpec => IsAQueue
<1>1. WireInit => WireInv /\ Queue!Init
  BY WireStarts
<1>2. WireInv /\ [WireNext]_wvars => [Queue!Next]_Content
  BY WireSteps
<1> QED
  BY <1>1, <1>2, WireInductive, PTL DEF WireSpec, IsAQueue, Queue!Spec

=============================================================================
