----------------------- MODULE WebSocketSessionProofs -----------------------
(***************************************************************************)
(* The safety of the WebSocket session for every capacity of msg_buf and   *)
(* every number of frames, whatever the server sends.                      *)
(***************************************************************************)
EXTENDS WebSocketSession, SequenceTheorems, FiniteSetTheorems, TLAPS

DataOps == Data \cup {"cont"}
WebOps == {"http_101", "http_other"}
FrameOps == DataOps \cup Controls \cup WebOps \cup {"long_ping", "malformed"}

\* A frame of the server.  Only data and, against the rules, control frames
\* come in fragments.
Frame ==
  {f \in [op : FrameOps, fin : BOOLEAN, payload : Nat] :
     /\ ~f.fin => f.op \in DataOps \cup Controls
     /\ f.op \notin WebOps => f.payload > 0}

\* What the session writes and what it hands to the codec.
Written == [op : {"upgrade", "ping", "pong", "close", "data"}, payload : Seq(Nat)]
Message == [op : Data, payload : Seq(Nat)]

\* How many frames were parsed: also the payload of the next one.
Parsed == frames - Len(rx)

Rising(s) == \A j, k \in DOMAIN s : j < k => s[j] < s[k]
Below(s, n) == \A k \in DOMAIN s : s[k] < n

\* The payloads of messages d are distinct, in order, below n and not in s.
Handed(d, s, n) ==
  /\ d \in Seq(Message)
  /\ \A i \in DOMAIN d :
       /\ Rising(d[i].payload) /\ Below(d[i].payload, n)
       /\ Range(d[i].payload) \cap Range(s) = {}
  /\ \A i, j \in DOMAIN d :
       i # j => Range(d[i].payload) \cap Range(d[j].payload) = {}

\* The frames in flight are numbered consecutively.
FrameInv ==
  /\ frames \in 0..MAX_FRAMES /\ strays \in Nat
  /\ rx \in Seq(Frame) /\ Len(rx) <= frames
  /\ \A i \in DOMAIN rx : rx[i].payload = Parsed + i - 1

SessionInv ==
  /\ state \in {"idle", "handshake_sent", "listening"}
  /\ opcode \in Data \cup Controls \cup {"unset"}
  /\ conn \in {"new", "open", "closing", "closed", "error"}
  /\ msg \in Seq(Nat \ {0}) /\ Len(msg) <= MSG_CAP

\* A connection that is open has not written a CLOSE.
CloseInv ==
  /\ tx \in Seq(Written)
  /\ conn \in {"new", "open"} => \A i \in DOMAIN tx : tx[i].op # "close"
  /\ QuietAfterClose

\* Every payload that was parsed is in the message being assembled or in one
\* message of the codec, or it was dropped.
PayloadInv ==
  Rising(msg) /\ Below(msg, Parsed) /\ Handed(delivered, msg, Parsed)

WInv == FrameInv /\ SessionInv /\ CloseInv /\ PayloadInv

-----------------------------------------------------------------------------
(* The steps of the server and of the client, by what they do to each part. *)

(* A frame is well formed.                                                  *)
LEMMA FrameMade ==
  ASSUME NEW op \in FrameOps, NEW fin \in BOOLEAN, NEW n \in Nat,
         fin \/ op \in DataOps \cup Controls, op \in WebOps \/ n > 0
  PROVE  [op |-> op, fin |-> fin, payload |-> n] \in Frame
BY Zenon DEF Frame

(* The server numbers its frames.                                           *)
LEMMA ServerEffect ==
  ASSUME WInv, Server
  PROVE  /\ \E f \in Frame : f.payload = frames /\ rx' = Append(rx, f)
         /\ frames < MAX_FRAMES /\ frames' = frames + 1
         /\ strays' \in Nat
         /\ UNCHANGED <<session, conn, tx, delivered>>
<1>1. frames \in Nat /\ strays \in Nat
  BY SessionAssumption DEF WInv, FrameInv
<1>2. PICK op \in FrameOps, fin \in BOOLEAN :
        /\ Put([op |-> op, fin |-> fin, payload |-> frames])
        /\ fin \/ op \in DataOps \cup Controls
        /\ op \in WebOps \/ frames > 0
  <2> USE DEF FrameOps, DataOps, WebOps, Data, Controls
  <2>1. ASSUME NEW op \in {"http_101", "http_other"}, SendHandshake(op)
        PROVE  op \in WebOps /\ Put([op |-> op, fin |-> TRUE, payload |-> frames])
    BY <1>1, <2>1 DEF SendHandshake
  <2>2. ASSUME NEW op \in Data \cup {"cont"}, NEW fin \in BOOLEAN, SendData(op, fin)
        PROVE  frames > 0 /\ Put([op |-> op, fin |-> fin, payload |-> frames])
    BY Zenon, <2>2 DEF SendData
  <2>3. ASSUME NEW op \in {"ping", "long_ping", "pong", "close", "malformed"},
               SendControl(op)
        PROVE  frames > 0 /\ Put([op |-> op, fin |-> TRUE, payload |-> frames])
    BY Zenon, <2>3 DEF SendControl
  <2>4. ASSUME NEW op \in Data \cup Controls \cup {"cont"}, NEW fin \in BOOLEAN,
               SendStray(op, fin)
        PROVE  frames > 0 /\ Put([op |-> op, fin |-> fin, payload |-> frames])
    BY Zenon, <2>4 DEF SendStray
  <2> QED
    BY <2>1, <2>2, <2>3, <2>4, ZenonT(40) DEF Server
<1>3. [op |-> op, fin |-> fin, payload |-> frames] \in Frame
  BY <1>1, <1>2, FrameMade
<1>4. strays' = strays \/ strays' = strays + 1
  BY Zenon DEF Server, SendHandshake, SendData, SendControl, SendStray
<1> QED
  BY <1>1, <1>2, <1>3, <1>4 DEF Put

\* What dispatch_frame() does with frame f: drop it, hand it to the codec,
\* keep it as a fragment, or complete a message with it.
Hands(payload) ==
  \/ UNCHANGED delivered
  \/ \E op \in Data : delivered' = Append(delivered, [op |-> op, payload |-> payload])

Dispatched(f) ==
  \/ UNCHANGED <<msg, opcode>> /\ Hands(<<f.payload>>)
  \/ /\ Len(msg) < MSG_CAP /\ f.op \in DataOps \cup Controls
     /\ msg' = Append(msg, f.payload) /\ opcode' \in Data \cup Controls \cup {"unset"}
     /\ UNCHANGED delivered
  \/ /\ f.op \in DataOps \cup Controls
     /\ msg' = <<>> /\ UNCHANGED opcode /\ Hands(Append(msg, f.payload))

Answers ==
  /\ conn' \in {conn, "closing", "error"}
  /\ \/ UNCHANGED tx
     \/ \E w \in Written :
          /\ tx' = Append(tx, w) /\ w.op \in {"pong", "close", "data"}
          /\ w.op = "close" => conn' = "closing"

(* handle_frame() hands over data and answers control frames.               *)
LEMMA HandleEffect ==
  ASSUME NEW op, NEW payload \in Seq(Nat), NEW room \in BOOLEAN,
         NEW status \in {"ok", "close", "error"}, HandleFrame(op, payload, room, status)
  PROVE  Hands(payload) /\ Answers
<1>1. conn' \in {conn, "closing", "error"} /\ (status = "close" => conn' = "closing")
  BY DEF HandleFrame, Answer
<1>2. /\ \A o \in {"pong", "close"} : [op |-> o, payload |-> payload] \in Written
      /\ [op |-> "data", payload |-> <<>>] \in Written
  BY DEF Written
<1>3. Hands(payload)
  BY DEF HandleFrame, Hands
<1> QED
  BY <1>1, <1>2, <1>3 DEF HandleFrame, Answers

(* dispatch_frame()                                                         *)
LEMMA DispatchEffect ==
  ASSUME WInv, NEW room \in BOOLEAN, NEW status \in {"ok", "close", "error"},
         DispatchFrame(room, status)
  PROVE  Dispatched(Head(rx)) /\ Answers
<1> DEFINE f == Head(rx)
<1>1. f \in Frame /\ f.payload \in Nat
  BY HeadTailProperties DEF WInv, FrameInv, DispatchFrame, Frame
<1>2. /\ <<f.payload>> \in Seq(Nat) /\ Append(msg, f.payload) \in Seq(Nat)
      /\ Len(msg) \in Nat /\ MSG_CAP \in Nat
  BY <1>1, SessionAssumption DEF WInv, SessionInv
<1> HIDE DEF f
<1> SUFFICES Dispatched(f) /\ Answers
  BY DEF f
<1>3. CASE f.op = "malformed"
  BY <1>3 DEF DispatchFrame, f, Answer, Answers, Dispatched, Hands
<1>4. CASE f.op # "malformed" /\ IsFragment(f)
  <2>1. Fragment(f, room, status)
    BY <1>4 DEF DispatchFrame, f
  <2>2. f.op \in DataOps \cup Controls
    BY <1>1, <1>4 DEF IsFragment, Frame, DataOps
  <2>3. CASE Overflows
    BY <2>1, <2>3 DEF Fragment, Answer, Answers, Dispatched, Hands
  <2>4. CASE ~Overflows /\ f.fin
    <3>1. Hands(Append(msg, f.payload)) /\ Answers
      BY Zenon, <1>2, <2>1, <2>4, HandleEffect DEF Fragment
    <3> QED
      BY <2>1, <2>2, <2>4, <3>1 DEF Fragment, Dispatched
  <2>5. CASE ~Overflows /\ ~f.fin
    <3>1. Len(msg) < MSG_CAP
      BY <1>2, <2>5 DEF Overflows
    <3>2. opcode' \in Data \cup Controls \cup {"unset"}
      BY <2>1, <2>2, <2>5 DEF Fragment, WInv, SessionInv, DataOps
    <3> QED
      BY <2>1, <2>2, <2>5, <3>1, <3>2 DEF Fragment, Dispatched, Answer, Answers
  <2> QED
    BY <2>3, <2>4, <2>5
<1>5. CASE f.op # "malformed" /\ ~IsFragment(f)
  <2>1. HandleFrame(f.op, <<f.payload>>, room, status) /\ UNCHANGED <<msg, opcode>>
    BY <1>5 DEF DispatchFrame, f
  <2> QED
    BY Zenon, <1>2, <2>1, HandleEffect DEF Dispatched
<1> QED
  BY <1>3, <1>4, <1>5

-----------------------------------------------------------------------------
(* Each part of the invariant in turn.                                      *)

(* Appending a larger number keeps a sequence rising.                       *)
LEMMA RisingAppend ==
  ASSUME NEW s \in Seq(Nat), NEW n \in Nat, Rising(s), Below(s, n)
  PROVE  /\ Append(s, n) \in Seq(Nat) /\ Rising(Append(s, n)) /\ Below(Append(s, n), n + 1)
         /\ Range(Append(s, n)) = Range(s) \cup {n} /\ n \notin Range(s)
<1> DEFINE t == Append(s, n)
           l == Len(s)
<1>1. t \in Seq(Nat) /\ l \in Nat
  BY AppendProperties
<1>2. /\ \A i \in 1..l : t[i] = s[i] /\ s[i] \in Nat
      /\ t[l + 1] = n
      /\ DOMAIN t = 1..l + 1 /\ DOMAIN s = 1..l
  BY AppendProperties
<1>3. 1..l + 1 = (1..l) \cup {l + 1}
  BY <1>1
<1> HIDE DEF t, l
<1>4. \A i \in 1..l : t[i] < n
  BY <1>2 DEF Below
<1>5. Rising(t)
  <2> SUFFICES ASSUME NEW j \in 1..l + 1, NEW k \in 1..l + 1, j < k
               PROVE  t[j] < t[k]
    BY <1>2 DEF Rising
  <2>1. j \in 1..l /\ (k \in 1..l \/ k = l + 1)
    BY <1>1
  <2> QED
    BY <1>2, <1>4, <2>1 DEF Rising
<1>6. Below(t, n + 1)
  BY <1>2, <1>3, <1>4 DEF Below
<1>7. Range(t) = Range(s) \cup {n}
  <2>1. Range(t) = {t[i] : i \in (1..l) \cup {l + 1}}
    BY Zenon, <1>2, <1>3 DEF Range
  <2>2. {t[i] : i \in (1..l) \cup {l + 1}} = {t[i] : i \in 1..l} \cup {t[l + 1]}
    BY Zenon
  <2>3. {t[i] : i \in 1..l} = {s[i] : i \in 1..l}
    BY SMTT(40), <1>2
  <2> QED
    BY Zenon, <1>2, <2>1, <2>2, <2>3 DEF Range
<1>8. n \notin Range(s)
  BY <1>2, <1>4 DEF Range
<1> QED
  BY <1>1, <1>5, <1>6, <1>7, <1>8 DEF t

(* A larger bound is a bound, and not a member.                             *)
LEMMA BelowMore ==
  ASSUME NEW s \in Seq(Nat), NEW n \in Nat, Below(s, n)
  PROVE  Below(s, n + 1) /\ n \notin Range(s)
<1>1. \A i \in DOMAIN s : s[i] \in Nat /\ s[i] < n
  BY ElementOfSeq DEF Below
<1> QED
  BY <1>1 DEF Below, Range

(* Consuming a frame counts it as parsed; receiving one does not.           *)
LEMMA FrameStep == WInv /\ [Next]_vars => FrameInv'
<1> SUFFICES ASSUME WInv, [Next]_vars PROVE FrameInv'
  OBVIOUS
<1>0. /\ frames \in Nat /\ frames <= MAX_FRAMES /\ MAX_FRAMES \in Nat /\ strays \in Nat
      /\ rx \in Seq(Frame) /\ Len(rx) \in Nat /\ Len(rx) <= frames
      /\ \A i \in 1..Len(rx) : rx[i].payload = frames - Len(rx) + i - 1
  BY SessionAssumption DEF WInv, FrameInv, Parsed
<1>1. CASE Server
  <2>1. PICK f \in Frame : f.payload = frames /\ rx' = Append(rx, f)
    BY <1>1, ServerEffect
  <2>2. frames < MAX_FRAMES /\ frames' = frames + 1 /\ strays' \in Nat
    BY <1>1, ServerEffect
  <2>3. /\ rx' \in Seq(Frame) /\ Len(rx') = Len(rx) + 1
        /\ \A i \in 1..Len(rx) : rx'[i] = rx[i]
        /\ rx'[Len(rx) + 1] = f
    BY <1>0, <2>1, AppendProperties
  <2>4. ASSUME NEW i \in 1..Len(rx')
        PROVE  rx'[i].payload = frames' - Len(rx') + i - 1
    <3>1. CASE i \in 1..Len(rx)
      <4>1. rx'[i].payload = frames - Len(rx) + i - 1
        BY <1>0, <2>3, <3>1
      <4> QED
        BY <1>0, <2>2, <2>3, <4>1
    <3>2. CASE i = Len(rx) + 1
      <4>1. rx'[i].payload = frames
        BY <2>1, <2>3, <3>2
      <4> QED
        BY <1>0, <2>2, <2>3, <3>2, <4>1
    <3> QED
      BY <1>0, <2>3, <3>1, <3>2
  <2> QED
    BY <1>0, <2>2, <2>3, <2>4 DEF FrameInv, Parsed
<1>2. CASE rx # <<>> /\ rx' = Tail(rx) /\ UNCHANGED server
  <2>1. /\ rx' \in Seq(Frame) /\ Len(rx') = Len(rx) - 1
        /\ \A i \in 1..Len(rx) - 1 : rx'[i] = rx[i + 1]
        /\ Len(rx) > 0
    BY <1>0, <1>2, HeadTailProperties
  <2>2. ASSUME NEW i \in 1..Len(rx')
        PROVE  rx'[i].payload = frames - Len(rx') + i - 1
    <3>1. i \in 1..Len(rx) - 1 /\ i + 1 \in 1..Len(rx)
      BY <1>0, <2>1
    <3>2. rx'[i].payload = frames - Len(rx) + (i + 1) - 1
      BY <1>0, <2>1, <3>1
    <3> QED
      BY <1>0, <2>1, <3>1, <3>2
  <2> QED
    BY <1>0, <1>2, <2>1, <2>2 DEF FrameInv, Parsed, server
<1>3. CASE UNCHANGED <<rx, server>>
  BY <1>3 DEF WInv, FrameInv, Parsed, server
<1>4. Server \/ (rx # <<>> /\ rx' = Tail(rx) /\ UNCHANGED server) \/ UNCHANGED <<rx, server>>
  BY Zenon DEF Next, Client, Ended, vars, ReadHandshake, Heartbeat, Stop, OnConnect,
     OnShutdown, DispatchFrame
<1> QED
  BY <1>1, <1>2, <1>3, <1>4

(* The session's own members, and msg_buf within its capacity.              *)
LEMMA SessionStep == WInv /\ [Next]_vars => SessionInv'
<1> SUFFICES ASSUME WInv, [Next]_vars PROVE SessionInv'
  OBVIOUS
<1> USE DEF SessionInv
<1>1. CASE Server
  BY <1>1, ServerEffect DEF WInv, session
<1>2. ASSUME NEW room \in BOOLEAN, NEW status \in {"ok", "close", "error"},
             DispatchFrame(room, status)
      PROVE  SessionInv'
  <2>1. Dispatched(Head(rx)) /\ Answers /\ UNCHANGED state
    BY <1>2, DispatchEffect DEF DispatchFrame
  <2>2. Head(rx) \in Frame
    BY <1>2, HeadTailProperties DEF WInv, FrameInv, DispatchFrame
  <2>3. /\ opcode' \in Data \cup Controls \cup {"unset"}
        /\ conn' \in {"new", "open", "closing", "closed", "error"}
    BY <2>1 DEF WInv, Dispatched, Answers
  <2>4. msg' \in Seq(Nat \ {0}) /\ Len(msg') <= MSG_CAP
    <3>1. msg \in Seq(Nat \ {0}) /\ Len(msg) \in Nat /\ Len(msg) <= MSG_CAP /\ MSG_CAP \in Nat
      BY SessionAssumption DEF WInv
    <3>2. CASE msg' = msg
      BY <3>1, <3>2
    <3>3. CASE msg' = <<>>
      <4>1. msg' \in Seq(Nat \ {0}) /\ Len(msg') = 0
        BY <3>3
      <4> QED
        BY <3>1, <4>1
    <3>4. CASE /\ msg' = Append(msg, Head(rx).payload) /\ Len(msg) < MSG_CAP
               /\ Head(rx).op \in DataOps \cup Controls
      <4>1. Head(rx).payload \in Nat \ {0}
        BY <2>2, <3>4 DEF Frame, DataOps, Data, Controls, WebOps
      <4> QED
        BY <3>1, <3>4, <4>1, AppendProperties
    <3> QED
      BY <2>1, <3>2, <3>3, <3>4 DEF Dispatched
  <2> QED
    BY <2>1, <2>3, <2>4 DEF WInv
<1>3. CASE \/ ReadHandshake \/ Heartbeat \/ Stop \/ Ended \/ UNCHANGED vars
           \/ \E room \in BOOLEAN : OnConnect(room) \/ OnShutdown(room)
  BY <1>3 DEF WInv, ReadHandshake, Heartbeat, Stop, Ended, OnConnect, OnShutdown,
     Answer, session, vars
<1> QED
  BY Zenon, <1>1, <1>2, <1>3 DEF Next, Client

(* A CLOSE of ours is written by the step that stops the handlers, so only  *)
(* another CLOSE can follow.                                                *)
LEMMA CloseStep == WInv /\ [Next]_vars => CloseInv'
<1> SUFFICES ASSUME WInv, [Next]_vars PROVE CloseInv'
  OBVIOUS
<1>0. /\ tx \in Seq(Written) /\ QuietAfterClose
      /\ conn \in {"new", "open"} => \A i \in DOMAIN tx : tx[i].op # "close"
  BY DEF WInv, CloseInv
<1>1. CASE UNCHANGED tx /\ (conn' = conn \/ conn' \notin {"new", "open"})
  BY <1>0, <1>1 DEF CloseInv, QuietAfterClose
<1>2. ASSUME NEW w \in Written, tx' = Append(tx, w),
             w.op = "close" => conn' \notin {"new", "open"},
             w.op = "close" \/ conn \in {"new", "open"},
             conn' = conn \/ conn' \notin {"new", "open"}
      PROVE  CloseInv'
  <2>1. /\ tx' \in Seq(Written) /\ Len(tx) \in Nat
        /\ DOMAIN tx' = 1..Len(tx) + 1 /\ DOMAIN tx = 1..Len(tx)
        /\ \A i \in 1..Len(tx) : tx'[i] = tx[i]
        /\ tx'[Len(tx) + 1] = w
    BY <1>0, <1>2, AppendProperties
  <2>2. \A i \in 1..Len(tx) + 1 : i \in 1..Len(tx) \/ i = Len(tx) + 1
    BY <2>1
  <2>3. ASSUME NEW i \in 1..Len(tx) + 1, NEW j \in 1..Len(tx) + 1, i < j,
               tx'[i].op = "close"
        PROVE  tx'[j].op = "close"
    <3>1. i \in 1..Len(tx) /\ tx[i].op = "close"
      BY <2>1, <2>3
    <3>2. CASE j \in 1..Len(tx)
      BY <1>0, <2>1, <2>3, <3>1, <3>2 DEF QuietAfterClose
    <3>3. CASE j = Len(tx) + 1
      BY <1>0, <1>2, <2>1, <3>1, <3>3
    <3> QED
      BY <2>2, <3>2, <3>3
  <2>4. QuietAfterClose'
    BY <2>1, <2>3 DEF QuietAfterClose
  <2>5. conn' \in {"new", "open"} => \A i \in DOMAIN tx' : tx'[i].op # "close"
    BY <1>0, <1>2, <2>1, <2>2
  <2> QED
    BY <2>1, <2>4, <2>5 DEF CloseInv
<1>3. CASE Server
  BY <1>1, <1>3, ServerEffect
<1>4. ASSUME NEW room \in BOOLEAN, NEW status \in {"ok", "close", "error"},
             DispatchFrame(room, status)
      PROVE  CloseInv'
  <2>1. Answers /\ conn = "open"
    BY <1>4, DispatchEffect DEF DispatchFrame
  <2>2. CASE UNCHANGED tx
    BY <1>1, <2>1, <2>2 DEF Answers
  <2>3. CASE ~UNCHANGED tx
    <3>1. PICK w \in Written :
            /\ tx' = Append(tx, w)
            /\ w.op = "close" => conn' = "closing"
      BY <2>1, <2>3 DEF Answers
    <3>2. conn' = conn \/ conn' \notin {"new", "open"}
      BY <2>1 DEF Answers
    <3>3. conn \in {"new", "open"} /\ (w.op = "close" => conn' \notin {"new", "open"})
      BY <2>1, <3>1
    <3> QED
      BY <1>2, <3>1, <3>2, <3>3
  <2> QED
    BY <2>2, <2>3
<1>5. ASSUME NEW room \in BOOLEAN, OnConnect(room) PROVE CloseInv'
  <2>1. CASE room
    <3> DEFINE w == [op |-> "upgrade", payload |-> <<>>]
    <3>1. w \in Written /\ w.op # "close"
      BY DEF Written
    <3>2. tx' = <<w>>
      BY <1>5, <2>1 DEF OnConnect
    <3>3. tx' \in Seq(Written) /\ DOMAIN tx' = {1} /\ tx'[1] = w
      BY <3>1, <3>2
    <3> HIDE DEF w
    <3> QED
      BY Zenon, <3>1, <3>3 DEF CloseInv, QuietAfterClose
  <2>2. CASE ~room
    BY <1>1, <1>5, <2>2 DEF OnConnect
  <2> QED
    BY <2>1, <2>2
<1>6. ASSUME NEW room \in BOOLEAN, OnShutdown(room) PROVE CloseInv'
  <2>1. [op |-> "close", payload |-> <<>>] \in Written
    BY DEF Written
  <2> QED
    BY <1>1, <1>2, <1>6, <2>1 DEF OnShutdown
<1>7. CASE Heartbeat
  <2>1. [op |-> "ping", payload |-> <<>>] \in Written
    BY DEF Written
  <2> QED
    BY <1>2, <1>7, <2>1 DEF Heartbeat
<1>8. CASE ReadHandshake \/ Stop \/ Ended \/ UNCHANGED vars
  BY <1>1, <1>8 DEF ReadHandshake, Stop, Ended, Answer, vars
<1> QED
  BY Zenon, <1>3, <1>4, <1>5, <1>6, <1>7, <1>8 DEF Next, Client

(* The payloads of a message are sequences of numbers.                      *)
LEMMA PayloadsAreSeq ==
  ASSUME NEW d \in Seq(Message), NEW i \in DOMAIN d
  PROVE  d[i].payload \in Seq(Nat)
<1>1. d[i] \in Message
  BY ElementOfSeq
<1> QED
  BY <1>1 DEF Message

(* Parsing a frame, and emptying msg_buf, keep what was handed over.        *)
LEMMA HandedStays ==
  ASSUME NEW d, NEW s, NEW n \in Nat, Handed(d, s, n)
  PROVE  /\ Handed(d, s, n + 1) /\ Handed(d, <<>>, n + 1)
         /\ \A i \in DOMAIN d : n \notin Range(d[i].payload)
<1>1. d \in Seq(Message) /\ \A i \in DOMAIN d : d[i].payload \in Seq(Nat)
  BY PayloadsAreSeq DEF Handed
<1>2. \A i \in DOMAIN d : Below(d[i].payload, n + 1) /\ n \notin Range(d[i].payload)
  BY Zenon, <1>1, BelowMore DEF Handed
<1>3. Range(<<>>) = {}
  BY DEF Range
<1> QED
  BY ZenonT(40), <1>1, <1>2, <1>3 DEF Handed

(* So does adding to msg_buf what was not handed over.                      *)
LEMMA HandedApart ==
  ASSUME NEW d, NEW s, NEW t, NEW n \in Nat, Handed(d, s, n),
         Range(t) = Range(s) \cup {n}
  PROVE  Handed(d, t, n + 1)
<1>1. \A i \in DOMAIN d : n \notin Range(d[i].payload)
  BY HandedStays
<1>2. \A i \in DOMAIN d : Range(d[i].payload) \cap Range(t) = {}
  BY <1>1 DEF Handed
<1>3. Handed(d, s, n + 1)
  BY HandedStays
<1> QED
  BY Zenon, <1>2, <1>3 DEF Handed

(* A message of payloads that were not handed over joins the others.        *)
LEMMA HandOver ==
  ASSUME NEW d, NEW s, NEW n \in Nat, NEW m \in Message, Handed(d, s, n),
         Rising(m.payload), Below(m.payload, n), Range(m.payload) \cap Range(s) = {},
         \A i \in DOMAIN d : Range(d[i].payload) \cap Range(m.payload) = {}
  PROVE  Handed(Append(d, m), s, n)
<1> DEFINE e == Append(d, m)
<1>1. /\ e \in Seq(Message) /\ Len(d) \in Nat
      /\ DOMAIN e = 1..Len(d) + 1 /\ DOMAIN d = 1..Len(d)
      /\ \A i \in 1..Len(d) : e[i] = d[i]
      /\ e[Len(d) + 1] = m
  BY AppendProperties DEF Handed
<1>2. \A i \in DOMAIN e : (i \in DOMAIN d /\ e[i] = d[i]) \/ (i = Len(d) + 1 /\ e[i] = m)
  BY <1>1
<1> HIDE DEF e
<1>3. \A i \in DOMAIN e :
        /\ Rising(e[i].payload) /\ Below(e[i].payload, n)
        /\ Range(e[i].payload) \cap Range(s) = {}
  BY Zenon, <1>2 DEF Handed
<1>4. ASSUME NEW i \in DOMAIN e, NEW j \in DOMAIN e, i # j
      PROVE  Range(e[i].payload) \cap Range(e[j].payload) = {}
  BY ZenonT(40), <1>2, <1>4 DEF Handed
<1>5. Handed(e, s, n)
  BY Zenon, <1>1, <1>3, <1>4 DEF Handed
<1> QED
  BY <1>5 DEF e

(* A frame that is sent is not parsed yet.                                  *)
LEMMA ParseNone ==
  ASSUME WInv, Server
  PROVE  Parsed' = Parsed
<1>1. frames \in Nat /\ Len(rx) \in Nat /\ rx \in Seq(Frame)
  BY DEF WInv, FrameInv
<1>2. PICK f \in Frame : rx' = Append(rx, f)
  BY ServerEffect
<1>3. Len(rx') = Len(rx) + 1 /\ frames' = frames + 1
  BY <1>1, <1>2, ServerEffect, AppendProperties
<1> QED
  BY <1>1, <1>3 DEF Parsed

(* The frame that is parsed is the next one by number.                      *)
LEMMA ParseOne ==
  ASSUME WInv, rx # <<>>, rx' = Tail(rx), UNCHANGED server
  PROVE  Parsed' = Parsed + 1 /\ Head(rx).payload = Parsed /\ Head(rx) \in Frame
<1>1. frames \in Nat /\ Len(rx) \in Nat /\ rx \in Seq(Frame) /\ Parsed \in Int
  BY DEF WInv, FrameInv, Parsed
<1>2. Len(rx') = Len(rx) - 1 /\ Head(rx) = rx[1] /\ Len(rx) > 0 /\ Head(rx) \in Frame
  BY <1>1, HeadTailProperties
<1>3. Parsed' = Parsed + 1
  BY <1>1, <1>2 DEF Parsed, server
<1>4. rx[1].payload = Parsed + 1 - 1
  BY <1>1, <1>2 DEF WInv, FrameInv
<1> QED
  BY <1>1, <1>2, <1>3, <1>4

(* Every payload is handed over at most once.                               *)
LEMMA PayloadStep == WInv /\ [Next]_vars => PayloadInv'
<1> SUFFICES ASSUME WInv, [Next]_vars PROVE PayloadInv'
  OBVIOUS
<1>0. /\ frames \in Nat /\ Len(rx) \in Nat /\ Parsed \in Nat
      /\ rx \in Seq(Frame) /\ msg \in Seq(Nat)
      /\ Rising(msg) /\ Below(msg, Parsed) /\ Handed(delivered, msg, Parsed)
  BY DEF WInv, FrameInv, SessionInv, PayloadInv, Parsed
<1>1. /\ Below(msg, Parsed + 1) /\ Handed(delivered, msg, Parsed + 1)
      /\ \A i \in DOMAIN delivered : Parsed \notin Range(delivered[i].payload)
  BY Zenon, <1>0, BelowMore, HandedStays
<1>2. CASE Server
  <2>3. Parsed' = Parsed
    BY <1>2, ParseNone
  <2>4. UNCHANGED <<msg, delivered>>
    BY <1>2, ServerEffect DEF session
  <2> QED
    BY Zenon, <1>0, <2>3, <2>4 DEF PayloadInv
<1>3. ASSUME rx # <<>>, rx' = Tail(rx), UNCHANGED server
      PROVE  Parsed' = Parsed + 1 /\ Head(rx).payload = Parsed
  BY <1>3, ParseOne
<1>4. ASSUME NEW room \in BOOLEAN, NEW status \in {"ok", "close", "error"},
             DispatchFrame(room, status)
      PROVE  PayloadInv'
  <2>1. /\ Parsed' = Parsed + 1 /\ Head(rx).payload = Parsed
        /\ Dispatched(Head(rx))
    BY <1>3, <1>4, DispatchEffect DEF DispatchFrame
  <2> DEFINE whole == Append(msg, Parsed)
  <2>2. /\ whole \in Seq(Nat) /\ Rising(whole) /\ Below(whole, Parsed + 1)
        /\ Range(whole) = Range(msg) \cup {Parsed} /\ Parsed \notin Range(msg)
    BY <1>0, RisingAppend
  <2>3. /\ <<Parsed>> \in Seq(Nat) /\ Rising(<<Parsed>>) /\ Below(<<Parsed>>, Parsed + 1)
        /\ Range(<<Parsed>>) = {Parsed}
    BY <1>0 DEF Rising, Below, Range
  <2>4. Rising(<<>>) /\ Below(<<>>, Parsed + 1) /\ Range(<<>>) = {}
    BY DEF Rising, Below, Range
  <2>5. Handed(delivered, <<>>, Parsed + 1) /\ Handed(delivered, whole, Parsed + 1)
    BY ZenonT(40), <1>0, <2>2, HandedStays, HandedApart
  <2> HIDE DEF whole
  <2>6. Parsed + 1 \in Nat
    BY <1>0
  <2>7. CASE UNCHANGED msg /\ Hands(<<Parsed>>)
    <3>1. ASSUME NEW op \in Data
          PROVE  Handed(Append(delivered, [op |-> op, payload |-> <<Parsed>>]), msg, Parsed + 1)
      <4> DEFINE m == [op |-> op, payload |-> <<Parsed>>]
      <4>1. m \in Message /\ m.payload = <<Parsed>>
        BY <2>3 DEF Message
      <4> HIDE DEF m
      <4>2. /\ Range(m.payload) \cap Range(msg) = {}
            /\ \A i \in DOMAIN delivered :
                 Range(delivered[i].payload) \cap Range(m.payload) = {}
        BY SMTT(40), <1>1, <2>2, <2>3, <4>1
      <4>3. Handed(Append(delivered, m), msg, Parsed + 1)
        BY <1>1, <2>3, <2>6, <4>1, <4>2, HandOver
      <4> QED
        BY <4>3 DEF m
    <3> QED
      BY Zenon, <1>0, <1>1, <2>1, <2>7, <3>1 DEF Hands, PayloadInv
  <2>8. CASE UNCHANGED delivered /\ msg' = whole
    BY Zenon, <2>1, <2>2, <2>5, <2>8 DEF PayloadInv
  <2>9. CASE msg' = <<>> /\ Hands(whole)
    <3>1. ASSUME NEW op \in Data
          PROVE  Handed(Append(delivered, [op |-> op, payload |-> whole]), <<>>, Parsed + 1)
      <4> DEFINE m == [op |-> op, payload |-> whole]
      <4>1. m \in Message /\ m.payload = whole
        BY <2>2 DEF Message
      <4> HIDE DEF m
      <4>2. /\ Range(m.payload) \cap Range(<<>>) = {}
            /\ \A i \in DOMAIN delivered :
                 Range(delivered[i].payload) \cap Range(m.payload) = {}
        BY <2>4, <2>5, <4>1 DEF Handed
      <4>3. Handed(Append(delivered, m), <<>>, Parsed + 1)
        BY <2>2, <2>5, <2>6, <4>1, <4>2, HandOver
      <4> QED
        BY <4>3 DEF m
    <3> QED
      BY Zenon, <2>1, <2>4, <2>5, <2>9, <3>1 DEF Hands, PayloadInv
  <2> QED
    BY <2>1, <2>7, <2>8, <2>9, ZenonT(40) DEF Dispatched, whole
<1>5. CASE ReadHandshake
  <2>1. Parsed' = Parsed + 1 /\ UNCHANGED <<msg, delivered>>
    BY <1>3, <1>5 DEF ReadHandshake
  <2> QED
    BY Zenon, <1>0, <1>1, <2>1 DEF PayloadInv
<1>6. CASE UNCHANGED <<msg, delivered, rx, server>>
  BY SMTT(40), <1>0, <1>6 DEF PayloadInv, Parsed, server
<1>7. \/ Server \/ ReadHandshake \/ UNCHANGED <<msg, delivered, rx, server>>
      \/ \E room \in BOOLEAN, status \in {"ok", "close", "error"} : DispatchFrame(room, status)
  BY Zenon DEF Next, Client, Ended, vars, session, Heartbeat, Stop, OnConnect, OnShutdown
<1> QED
  BY <1>2, <1>4, <1>5, <1>6, <1>7

-----------------------------------------------------------------------------
(* The theorems.                                                            *)

(* The invariant holds in every reachable state.                            *)
THEOREM SessionInvariance == Spec => []WInv
<1>1. Init => WInv
  <2> SUFFICES ASSUME Init PROVE WInv
    OBVIOUS
  <2>1. FrameInv /\ SessionInv
    BY SessionAssumption DEF Init, FrameInv, SessionInv, Parsed
  <2>2. CloseInv
    BY DEF Init, CloseInv, QuietAfterClose
  <2>3. PayloadInv
    BY SMTT(40) DEF Init, PayloadInv, Handed, Rising, Below, Range
  <2> QED
    BY <2>1, <2>2, <2>3 DEF WInv
<1>2. WInv /\ [Next]_vars => WInv'
  BY FrameStep, SessionStep, CloseStep, PayloadStep DEF WInv
<1> QED
  BY <1>1, <1>2, PTL DEF Spec

(* The members keep their types, and msg_buf never exceeds its capacity,    *)
(* whatever the server sends.                                               *)
THEOREM SessionTypes == Spec => []TypeOK
<1>1. WInv => TypeOK
  <2> SUFFICES ASSUME WInv PROVE TypeOK
    OBVIOUS
  <2>1. \A i \in DOMAIN tx : tx[i].op \in {"upgrade", "ping", "pong", "close", "data"}
    <3>1. tx \in Seq(Written) /\ DOMAIN tx = 1..Len(tx)
      BY DEF WInv, CloseInv
    <3>2. \A i \in DOMAIN tx : tx[i] \in Written
      BY Zenon, <3>1, ElementOfSeq
    <3> QED
      BY <3>2 DEF Written
  <2>2. msg \in Seq(1..MAX_FRAMES)
    <3>1. /\ msg \in Seq(Nat \ {0}) /\ Len(msg) \in Nat /\ MAX_FRAMES \in Nat
          /\ Parsed \in Int /\ Parsed <= MAX_FRAMES
          /\ \A i \in 1..Len(msg) : msg[i] < Parsed
      BY SessionAssumption DEF WInv, SessionInv, FrameInv, PayloadInv, Below, Parsed
    <3>2. \A i \in 1..Len(msg) : msg[i] \in Nat \ {0}
      BY Zenon, <3>1, ElementOfSeq
    <3>3. \A i \in 1..Len(msg) : msg[i] \in 1..MAX_FRAMES
      BY <3>1, <3>2
    <3>4. msg = [i \in 1..Len(msg) |-> msg[i]]
      BY <3>1, LenProperties
    <3>5. msg \in [1..Len(msg) -> 1..MAX_FRAMES]
      BY <3>3, <3>4
    <3>6. Len(msg) \in Nat
      BY <3>1
    <3>7. msg \in UNION {[1..n -> 1..MAX_FRAMES] : n \in Nat}
      BY Zenon, <3>5, <3>6
    <3> QED
      BY Zenon, <3>7, SeqDef
  <2> QED
    BY <2>1, <2>2 DEF WInv, FrameInv, SessionInv, TypeOK
<1> QED
  BY <1>1, SessionInvariance, PTL

(* No payload reaches the codec twice, and none out of order within a       *)
(* message, whatever the server sends.                                      *)
THEOREM PayloadOnceHolds == Spec => []PayloadOnce
<1>1. WInv => PayloadOnce
  BY Zenon DEF WInv, PayloadInv, Handed, PayloadOnce, Rising
<1> QED
  BY <1>1, SessionInvariance, PTL

(* After a CLOSE of ours nothing but a CLOSE is written.                    *)
THEOREM QuietHolds == Spec => []QuietAfterClose
<1>1. WInv => QuietAfterClose
  BY DEF WInv, CloseInv
<1> QED
  BY <1>1, SessionInvariance, PTL

-----------------------------------------------------------------------------
(* Reassembly.  The server and the session put the same messages together, *)
(* the one when it sends a frame and the other when it parses it, so the   *)
(* session is behind by the frames in flight: handling those would take it *)
(* to where the server is.                                                 *)

\* How far someone has got: the message in the middle of which they are, and
\* the messages that are complete.
Views == [part : Message \cup {NoMessage}, done : Seq(Message)]

View == [part |-> IF msg = <<>> THEN NoMessage ELSE [op |-> opcode, payload |-> msg],
         done |-> delivered]
Sent == [part |-> partial, done |-> messages]

\* Frame f, which is in its place, leads from v to w.
Adds(v, f, w) ==
  \/ f.op \notin DataOps /\ f.fin /\ w = v
  \/ /\ f.op \in DataOps /\ (f.op = "cont") = (v.part # NoMessage)
     /\ LET m == [op |-> IF f.op = "cont" THEN v.part.op ELSE f.op,
                  payload |-> Append(v.part.payload, f.payload)]
        IN  w = IF f.fin THEN [part |-> NoMessage, done |-> Append(v.done, m)]
                ELSE [part |-> m, done |-> v.done]

\* g is the way from v to w through the frames of s.
Way(g, s, v, w) ==
  /\ g[0] = v /\ g[Len(s)] = w
  /\ \A i \in 1..Len(s) : Adds(g[i - 1], s[i], g[i])
  /\ \A i \in 0..Len(s) : IsPrefix(g[i].done, w.done)

Leads(s, v, w) == \E g \in [0..Len(s) -> Views] : Way(g, s, v, w)

\* The first frame answers the upgrade request and is no part of a message.
ReplayInv ==
  /\ conn = "new" \/ (conn = "open" /\ state # "listening") => Parsed = 0
  /\ strays = 0 =>
       /\ IsPrefix(delivered, messages)
       /\ conn \in {"new", "open"} => Leads(rx, View, Sent)

(* A prefix, element by element.                                           *)
LEMMA PrefixPoints ==
  ASSUME NEW s \in Seq(Message), NEW t \in Seq(Message)
  PROVE  IsPrefix(s, t) <=> Len(s) <= Len(t) /\ \A i \in 1..Len(s) : s[i] = t[i]
BY Zenon DEF IsPrefix

(* Prefixes are ordered, and a sequence is a prefix of a longer one.       *)
LEMMA PrefixOrder ==
  ASSUME NEW s \in Seq(Message), NEW t \in Seq(Message), NEW u \in Seq(Message),
         NEW m \in Message
  PROVE  /\ IsPrefix(s, s) /\ IsPrefix(s, Append(s, m))
         /\ IsPrefix(s, t) /\ IsPrefix(t, u) => IsPrefix(s, u)
<1>0. Len(s) \in Nat /\ Len(t) \in Nat /\ Len(u) \in Nat
  BY LenProperties
<1>1. IsPrefix(s, s)
  BY <1>0, PrefixPoints
<1>2. IsPrefix(s, Append(s, m))
  <2> DEFINE e == Append(s, m)
  <2>1. e \in Seq(Message) /\ Len(e) = Len(s) + 1 /\ \A i \in 1..Len(s) : e[i] = s[i]
    BY AppendProperties
  <2> HIDE DEF e
  <2>2. IsPrefix(s, e)
    BY <1>0, <2>1, PrefixPoints
  <2> QED
    BY <2>2 DEF e
<1>3. ASSUME IsPrefix(s, t), IsPrefix(t, u) PROVE IsPrefix(s, u)
  <2>1. Len(s) <= Len(t) /\ \A i \in 1..Len(s) : s[i] = t[i]
    BY <1>3, PrefixPoints
  <2>2. Len(t) <= Len(u) /\ \A i \in 1..Len(t) : t[i] = u[i]
    BY <1>3, PrefixPoints
  <2>3. Len(s) <= Len(u) /\ \A i \in 1..Len(s) : s[i] = u[i]
    BY <1>0, <2>1, <2>2
  <2> QED
    BY <2>3, PrefixPoints
<1> QED
  BY <1>1, <1>2, <1>3

(* A frame takes a view to a view with at least the same messages.         *)
LEMMA AddsView ==
  ASSUME NEW v \in Views, NEW f \in Frame, NEW w, Adds(v, f, w)
  PROVE  w \in Views /\ IsPrefix(v.done, w.done)
<1>1. v.done \in Seq(Message) /\ v.part \in Message \cup {NoMessage}
  BY DEF Views
<1>2. IsPrefix(v.done, v.done)
  <2>1. \A m \in Message : IsPrefix(v.done, v.done)
    BY <1>1, PrefixOrder
  <2>2. [op |-> "text", payload |-> <<>>] \in Message
    BY DEF Message, Data
  <2> QED
    BY <2>1, <2>2
<1>3. CASE w = v
  BY <1>2, <1>3
<1>4. CASE f.op \in DataOps /\ (f.op = "cont") = (v.part # NoMessage)
  <2> DEFINE m == [op |-> IF f.op = "cont" THEN v.part.op ELSE f.op,
                   payload |-> Append(v.part.payload, f.payload)]
  <2>1. v.part.payload \in Seq(Nat) /\ f.payload \in Nat
    <3>1. CASE v.part \in Message
      BY <3>1 DEF Message, Frame
    <3>2. CASE v.part = NoMessage
      <4>1. v.part.payload = <<>>
        BY <3>2 DEF NoMessage
      <4> QED
        BY <4>1 DEF Frame
    <3> QED
      BY <1>1, <3>1, <3>2
  <2>2. m.op \in Data
    BY <1>1, <1>4 DEF Message, DataOps
  <2>3. m \in Message
    <3>1. m.payload \in Seq(Nat)
      BY <2>1, AppendProperties
    <3> QED
      BY <2>2, <3>1 DEF Message
  <2>4. w = IF f.fin THEN [part |-> NoMessage, done |-> Append(v.done, m)]
            ELSE [part |-> m, done |-> v.done]
    BY <1>4 DEF Adds
  <2> HIDE DEF m
  <2>5. Append(v.done, m) \in Seq(Message) /\ IsPrefix(v.done, Append(v.done, m))
    BY <1>1, <2>3, AppendProperties, PrefixOrder
  <2> QED
    BY <1>1, <1>2, <2>3, <2>4, <2>5 DEF Views
<1> QED
  BY <1>3, <1>4 DEF Adds

(* One more frame in flight leads one step further.                        *)
LEMMA LeadsAppend ==
  ASSUME NEW s \in Seq(Frame), NEW f \in Frame, NEW v, NEW w, NEW x,
         Leads(s, v, w), Adds(w, f, x)
  PROVE  Leads(Append(s, f), v, x)
<1> DEFINE n == Len(s)
           t == Append(s, f)
<1>1. /\ n \in Nat /\ Len(t) = n + 1 /\ t[n + 1] = f
      /\ \A i \in 1..n : t[i] = s[i]
  BY LenProperties, AppendProperties
<1>2. PICK g \in [0..n -> Views] : Way(g, s, v, w)
  BY DEF Leads
<1> DEFINE h == [i \in 0..n + 1 |-> IF i = n + 1 THEN x ELSE g[i]]
<1>3. w \in Views /\ g[n] = w /\ g[0] = v
  BY <1>1, <1>2 DEF Way
<1>4. x \in Views /\ IsPrefix(w.done, x.done)
  BY <1>3, AddsView
<1> HIDE DEF t, n
<1>5. /\ h \in [0..n + 1 -> Views] /\ h[n + 1] = x
      /\ \A i \in 0..n : h[i] = g[i]
  BY <1>1, <1>2, <1>4
<1> HIDE DEF h
<1>6. ASSUME NEW i \in 1..n + 1 PROVE Adds(h[i - 1], t[i], h[i])
  <2>1. CASE i \in 1..n
    <3>1. h[i - 1] = g[i - 1] /\ h[i] = g[i] /\ t[i] = s[i]
      BY <1>1, <1>5, <2>1
    <3>2. Adds(g[i - 1], s[i], g[i])
      BY <1>2, <2>1 DEF Way, n
    <3> QED
      BY Zenon, <3>1, <3>2
  <2>2. CASE i = n + 1
    <3>1. h[i - 1] = w /\ h[i] = x /\ t[i] = f
      BY <1>1, <1>3, <1>5, <2>2
    <3> QED
      BY Zenon, <3>1
  <2> QED
    BY <1>1, <2>1, <2>2
<1>7. ASSUME NEW i \in 0..n + 1 PROVE IsPrefix(h[i].done, x.done)
  <2>1. /\ w.done \in Seq(Message) /\ x.done \in Seq(Message)
        /\ [op |-> "text", payload |-> <<>>] \in Message
    BY <1>3, <1>4 DEF Views, Message, Data
  <2>2. CASE i \in 0..n
    <3>1. h[i] = g[i] /\ IsPrefix(g[i].done, w.done)
      BY <1>2, <1>5, <2>2 DEF Way, n
    <3>2. g[i].done \in Seq(Message)
      BY <1>2, <2>2 DEF Views
    <3> QED
      BY <1>4, <2>1, <3>1, <3>2, PrefixOrder
  <2>3. CASE i = n + 1
    BY <1>5, <2>1, <2>3, PrefixOrder
  <2> QED
    BY <1>1, <2>2, <2>3
<1>8. h[0] = v
  BY <1>1, <1>3, <1>5
<1>9. Way(h, t, v, x)
  BY Zenon, <1>1, <1>5, <1>6, <1>7, <1>8 DEF Way
<1> QED
  BY Zenon, <1>1, <1>5, <1>9 DEF Leads, t

(* The first frame in flight leads one step of the way.                    *)
LEMMA LeadsTail ==
  ASSUME NEW s \in Seq(Frame), s # <<>>, NEW v, NEW w, Leads(s, v, w)
  PROVE  \E x \in Views :
           Adds(v, Head(s), x) /\ Leads(Tail(s), x, w) /\ IsPrefix(x.done, w.done)
<1> DEFINE n == Len(s)
           t == Tail(s)
<1>1. /\ n \in Nat /\ n > 0 /\ Len(t) = n - 1 /\ Head(s) = s[1]
      /\ \A i \in 1..n - 1 : t[i] = s[i + 1]
  BY LenProperties, HeadTailProperties
<1>2. PICK g \in [0..n -> Views] : Way(g, s, v, w)
  BY DEF Leads
<1> DEFINE h == [i \in 0..n - 1 |-> g[i + 1]]
<1> HIDE DEF t, n
<1>3. h \in [0..n - 1 -> Views] /\ \A i \in 0..n - 1 : h[i] = g[i + 1]
  BY <1>1, <1>2
<1> HIDE DEF h
<1>4. /\ g[0] = v /\ g[n] = w
      /\ \A i \in 1..n : Adds(g[i - 1], s[i], g[i])
      /\ \A i \in 0..n : IsPrefix(g[i].done, w.done)
  BY <1>2 DEF Way, n
<1>5. Adds(v, Head(s), g[1]) /\ g[1] \in Views /\ IsPrefix(g[1].done, w.done)
  <2>1. 1 \in 1..n /\ 1 \in 0..n /\ 1 - 1 = 0
    BY <1>1
  <2> QED
    BY Zenon, <1>1, <1>2, <1>4, <2>1
<1>6. ASSUME NEW i \in 1..n - 1 PROVE Adds(h[i - 1], t[i], h[i])
  <2>1. /\ h[i - 1] = g[i] /\ h[i] = g[i + 1] /\ t[i] = s[i + 1]
        /\ i + 1 \in 1..n /\ i + 1 - 1 = i
    BY <1>1, <1>3
  <2>2. \A j \in 1..n : Adds(g[j - 1], s[j], g[j])
    BY Zenon, <1>4
  <2>3. Adds(g[i], s[i + 1], g[i + 1])
    BY <2>1, <2>2
  <2> QED
    BY Zenon, <2>1, <2>3
<1>7. ASSUME NEW i \in 0..n - 1 PROVE IsPrefix(h[i].done, w.done)
  <2>1. h[i] = g[i + 1] /\ i + 1 \in 0..n
    BY <1>1, <1>3
  <2> QED
    BY Zenon, <1>4, <2>1
<1>8. h[0] = g[1] /\ h[n - 1] = w
  BY <1>1, <1>3, <1>4
<1>9. Way(h, t, g[1], w)
  BY Zenon, <1>1, <1>6, <1>7, <1>8 DEF Way
<1>10. Leads(t, g[1], w)
  BY Zenon, <1>1, <1>3, <1>9 DEF Leads
<1> QED
  BY <1>5, <1>10 DEF t

(* A way starts at a view, with a prefix of the messages at its end.       *)
LEMMA LeadsFrom ==
  ASSUME NEW s \in Seq(Frame), NEW v, NEW w, Leads(s, v, w)
  PROVE  v \in Views /\ IsPrefix(v.done, w.done)
<1>1. PICK g \in [0..Len(s) -> Views] : Way(g, s, v, w)
  BY DEF Leads
<1>2. 0 \in 0..Len(s)
  BY LenProperties
<1> QED
  BY Zenon, <1>1, <1>2 DEF Way

(* What the server sends within the rules takes its view on by that frame. *)
LEMMA ServerAdds ==
  ASSUME WInv, Server, strays' = 0
  PROVE  strays = 0 /\ \E f \in Frame : rx' = Append(rx, f) /\ Adds(Sent, f, Sent')
<1>1. frames \in Nat /\ strays \in Nat
  BY DEF WInv, FrameInv
<1> USE DEF FrameOps, DataOps, WebOps, Data, Controls
<1>2. ASSUME NEW op \in FrameOps, NEW fin \in BOOLEAN,
             Put([op |-> op, fin |-> fin, payload |-> frames]),
             fin \/ op \in DataOps, op \in WebOps \/ frames > 0,
             Adds(Sent, [op |-> op, fin |-> fin, payload |-> frames], Sent')
      PROVE  \E f \in Frame : rx' = Append(rx, f) /\ Adds(Sent, f, Sent')
  <2>1. [op |-> op, fin |-> fin, payload |-> frames] \in Frame
    BY <1>1, <1>2, FrameMade
  <2> QED
    BY Zenon, <1>2, <2>1 DEF Put
<1>3. ASSUME NEW op \in {"http_101", "http_other"}, SendHandshake(op)
      PROVE  strays = 0 /\ \E f \in Frame : rx' = Append(rx, f) /\ Adds(Sent, f, Sent')
  <2>1. /\ Put([op |-> op, fin |-> TRUE, payload |-> frames]) /\ strays = 0
        /\ UNCHANGED <<partial, messages>>
    BY <1>3 DEF SendHandshake
  <2>2. Adds(Sent, [op |-> op, fin |-> TRUE, payload |-> frames], Sent')
    BY <2>1 DEF Adds, Sent
  <2> QED
    BY Zenon, <1>2, <2>1, <2>2
<1>4. ASSUME NEW op \in Data \cup {"cont"}, NEW fin \in BOOLEAN, SendData(op, fin)
      PROVE  strays = 0 /\ \E f \in Frame : rx' = Append(rx, f) /\ Adds(Sent, f, Sent')
  <2>1. /\ Put([op |-> op, fin |-> fin, payload |-> frames]) /\ strays = 0
        /\ frames > 0
    BY Zenon, <1>4 DEF SendData
  <2>2. Adds(Sent, [op |-> op, fin |-> fin, payload |-> frames], Sent')
    BY Zenon, <1>4 DEF SendData, Adds, Sent
  <2> QED
    BY <1>2, <2>1, <2>2
<1>5. ASSUME NEW op \in {"ping", "long_ping", "pong", "close", "malformed"}, SendControl(op)
      PROVE  strays = 0 /\ \E f \in Frame : rx' = Append(rx, f) /\ Adds(Sent, f, Sent')
  <2>1. /\ Put([op |-> op, fin |-> TRUE, payload |-> frames]) /\ strays = 0
        /\ frames > 0 /\ UNCHANGED <<partial, messages>>
    BY Zenon, <1>5 DEF SendControl
  <2>2. Adds(Sent, [op |-> op, fin |-> TRUE, payload |-> frames], Sent')
    BY <2>1 DEF Adds, Sent
  <2> QED
    BY Zenon, <1>2, <2>1, <2>2
<1>6. ~\E op \in Data \cup Controls \cup {"cont"}, fin \in BOOLEAN : SendStray(op, fin)
  <2> SUFFICES ASSUME NEW op \in Data \cup Controls \cup {"cont"}, NEW fin \in BOOLEAN,
                      SendStray(op, fin)
               PROVE  FALSE
    BY Zenon
  <2>1. strays' = strays + 1
    BY Zenon DEF SendStray
  <2> QED
    BY <1>1, <2>1
<1> QED
  BY Zenon, <1>3, <1>4, <1>5, <1>6 DEF Server

(* The session takes its own view on by the frame it parses, unless that    *)
(* frame is the last one it handles.                                        *)
LEMMA DispatchAdds ==
  ASSUME WInv, NEW room \in BOOLEAN, NEW status \in {"ok", "close", "error"},
         DispatchFrame(room, status), View \in Views, NEW w, Adds(View, Head(rx), w)
  PROVE  delivered' \in {delivered, w.done} /\ (conn' = "open" => View' = w)
<1> DEFINE f == Head(rx)
<1>1. f \in Frame /\ f.payload \in Nat /\ msg \in Seq(Nat \ {0}) /\ conn = "open"
  BY HeadTailProperties DEF WInv, FrameInv, SessionInv, DispatchFrame, Frame
<1>2. View.done = delivered /\ View.part = IF msg = <<>> THEN NoMessage ELSE [op |-> opcode, payload |-> msg]
  BY DEF View
<1>3. msg # <<>> => View.part # NoMessage /\ opcode \in Data
  <2>1. ASSUME msg # <<>> PROVE View.part # NoMessage
    <3>1. View.part.payload = msg /\ NoMessage.payload = <<>>
      BY <1>2, <2>1 DEF NoMessage
    <3> QED
      BY Zenon, <2>1, <3>1
  <2>2. ASSUME msg # <<>> PROVE opcode \in Data
    <3>1. View.part \in Message /\ View.part.op = opcode
      BY <1>2, <2>1, <2>2 DEF Views
    <3> QED
      BY <3>1 DEF Message
  <2> QED
    BY <2>1, <2>2
<1>4. Adds(View, f, w)
  OBVIOUS
<1>5. /\ f.op = "malformed" => conn' = "error" /\ UNCHANGED delivered
      /\ f.op # "malformed" /\ IsFragment(f) => Fragment(f, room, status)
      /\ f.op # "malformed" /\ ~IsFragment(f) =>
           HandleFrame(f.op, <<f.payload>>, room, status) /\ UNCHANGED <<msg, opcode>>
  BY DEF DispatchFrame, Answer
<1> HIDE DEF f
<1>6. CASE f.op = "malformed"
  BY <1>5, <1>6
<1>7. CASE f.op # "malformed" /\ IsFragment(f)
  <2>1. f.op \in DataOps /\ (f.op = "cont") = (View.part # NoMessage)
    BY <1>1, <1>4, <1>7 DEF Adds, IsFragment, DataOps
  <2>2. f.op = "cont" => msg # <<>> /\ opcode \in Data /\ View.part = [op |-> opcode, payload |-> msg]
    BY <1>2, <1>3, <2>1
  <2>3. f.op # "cont" => msg = <<>> /\ View.part = NoMessage
    BY <1>2, <1>3, <2>1
  <2> DEFINE m == [op |-> IF f.op = "cont" THEN opcode ELSE f.op, payload |-> Append(msg, f.payload)]
  <2>4. w = IF f.fin THEN [part |-> NoMessage, done |-> Append(delivered, m)]
            ELSE [part |-> m, done |-> delivered]
    <3>1. View.part.payload = msg /\ (f.op = "cont" => View.part.op = opcode)
      BY <2>2, <2>3 DEF NoMessage
    <3> QED
      BY Zenon, <1>2, <1>4, <2>1, <3>1 DEF Adds
  <2>5. Fragment(f, room, status)
    BY <1>5, <1>7
  <2>6. CASE Overflows
    <3>1. conn' = "error" /\ UNCHANGED delivered
      BY <2>5, <2>6 DEF Fragment, Answer
    <3> QED
      BY <3>1
  <2>7. CASE ~Overflows /\ f.fin
    <3>1. f.op = "cont"
      BY <1>7, <2>7 DEF IsFragment
    <3>2. Assembled = {opcode}
      BY <2>2, <3>1 DEF Assembled, Data
    <3>3. HandleFrame(opcode, Append(msg, f.payload), room, status) /\ msg' = <<>>
      BY <2>5, <2>7, <3>2 DEF Fragment
    <3>4. delivered' = Append(delivered, m)
      BY <2>2, <3>1, <3>3 DEF HandleFrame, Data
    <3> HIDE DEF m
    <3> QED
      BY <2>4, <2>7, <3>3, <3>4 DEF View
  <2>8. CASE ~Overflows /\ ~f.fin
    <3>1. /\ msg' = Append(msg, f.payload) /\ UNCHANGED delivered
          /\ opcode' = IF f.op = "cont" THEN opcode ELSE f.op
      BY <2>5, <2>8 DEF Fragment
    <3>2. msg' # <<>>
      BY <1>1, <3>1, AppendProperties
    <3>3. View' = [part |-> m, done |-> delivered]
      BY Zenon, <3>1, <3>2 DEF View
    <3> HIDE DEF m
    <3> QED
      BY <2>4, <2>8, <3>1, <3>3
  <2> QED
    BY <2>6, <2>7, <2>8
<1>8. CASE f.op # "malformed" /\ ~IsFragment(f)
  <2>1. f.fin /\ f.op # "cont"
    BY <1>8 DEF IsFragment
  <2>2. HandleFrame(f.op, <<f.payload>>, room, status) /\ UNCHANGED <<msg, opcode>>
    BY <1>5, <1>8
  <2>3. CASE f.op \in Data
    <3>1. View.part = NoMessage /\ msg = <<>>
      BY <1>3, <1>4, <2>1, <2>3 DEF Adds, DataOps
    <3>2. Append(<<>>, f.payload) = <<f.payload>>
      BY <1>1
    <3>3. w = [part |-> NoMessage, done |-> Append(delivered, [op |-> f.op, payload |-> <<f.payload>>])]
      BY <1>2, <1>4, <2>1, <2>3, <3>1, <3>2 DEF Adds, DataOps, NoMessage
    <3>4. delivered' = Append(delivered, [op |-> f.op, payload |-> <<f.payload>>])
      BY <2>2, <2>3 DEF HandleFrame, Data
    <3> QED
      BY <2>2, <3>1, <3>3, <3>4 DEF View
  <2>4. CASE f.op \notin Data
    <3>1. w = View
      BY <1>4, <2>1, <2>4 DEF Adds, DataOps
    <3>2. UNCHANGED delivered
      BY <2>2, <2>4 DEF HandleFrame
    <3> QED
      BY <1>2, <2>2, <3>1, <3>2 DEF View
  <2> QED
    BY <2>3, <2>4
<1> QED
  BY <1>6, <1>7, <1>8

(* Every step keeps the session behind the server by the frames in flight. *)
LEMMA ReplayStep == WInv /\ ReplayInv /\ [Next]_vars => ReplayInv'
<1> SUFFICES ASSUME WInv, ReplayInv, [Next]_vars PROVE ReplayInv'
  OBVIOUS
<1>0. rx \in Seq(Frame) /\ strays \in Nat
  BY DEF WInv, FrameInv
<1>1. CASE conn = "open" /\ Server
  <2>1. Parsed' = Parsed /\ UNCHANGED <<session, conn, delivered>>
    BY <1>1, ParseNone, ServerEffect
  <2>2. ASSUME strays' = 0
        PROVE  IsPrefix(delivered', messages') /\ Leads(rx', View', Sent')
    <3>1. PICK f \in Frame : rx' = Append(rx, f) /\ Adds(Sent, f, Sent')
      BY <1>1, <2>2, ServerAdds
    <3>2. Leads(rx, View, Sent) /\ IsPrefix(delivered, messages)
      BY <1>1, <2>2, ServerAdds DEF ReplayInv
    <3>3. View' = View
      BY <2>1 DEF View, session
    <3>4. Leads(rx', View', Sent')
      BY <1>0, <3>1, <3>2, <3>3, LeadsAppend
    <3>5. rx' \in Seq(Frame)
      BY <1>0, <3>1, AppendProperties
    <3>6. IsPrefix(View'.done, Sent'.done)
      BY <3>4, <3>5, LeadsFrom
    <3> QED
      BY <3>4, <3>6 DEF View, Sent
  <2> QED
    BY <2>1, <2>2 DEF ReplayInv, session
<1>2. ASSUME NEW room \in BOOLEAN, NEW status \in {"ok", "close", "error"},
             DispatchFrame(room, status)
      PROVE  ReplayInv'
  <2>1. /\ conn = "open" /\ state = "listening" /\ state' = "listening" /\ rx # <<>>
        /\ rx' = Tail(rx) /\ UNCHANGED server
    BY <1>2 DEF DispatchFrame
  <2>2. conn' # "new"
    BY <1>2, <2>1, DispatchEffect DEF Answers
  <2>3. ASSUME strays = 0
        PROVE  /\ IsPrefix(delivered', messages)
               /\ conn' = "open" => Leads(rx', View', Sent)
    <3>1. Leads(rx, View, Sent) /\ IsPrefix(delivered, messages)
      BY <2>1, <2>3 DEF ReplayInv
    <3>2. PICK x \in Views :
            Adds(View, Head(rx), x) /\ Leads(Tail(rx), x, Sent) /\ IsPrefix(x.done, Sent.done)
      BY <1>0, <2>1, <3>1, LeadsTail
    <3>3. View \in Views
      BY <1>0, <3>1, LeadsFrom
    <3>4. delivered' \in {delivered, x.done} /\ (conn' = "open" => View' = x)
      BY <1>2, <3>2, <3>3, DispatchAdds
    <3>5. Sent.done = messages
      BY DEF Sent
    <3> QED
      BY Zenon, <2>1, <3>1, <3>2, <3>4, <3>5
  <2>4. Sent' = Sent /\ strays' = strays /\ messages' = messages
    BY <2>1 DEF Sent, server
  <2> QED
    BY <2>1, <2>2, <2>3, <2>4 DEF ReplayInv
<1>3. CASE ReadHandshake
  <2>1. /\ conn = "open" /\ state = "handshake_sent" /\ rx # <<>>
        /\ rx' = Tail(rx) /\ UNCHANGED <<msg, opcode, delivered, server>>
        /\ conn' = "error" \/ (conn' = "open" /\ state' = "listening")
    BY <1>3 DEF ReadHandshake, Answer
  <2>2. Head(rx).payload = 0 /\ Head(rx) \in Frame
    BY <2>1, ParseOne DEF ReplayInv
  <2>3. Head(rx).op \notin DataOps
    BY <2>2 DEF Frame, WebOps, DataOps, Data
  <2>4. View' = View /\ Sent' = Sent /\ strays' = strays /\ messages' = messages
    BY <2>1 DEF View, Sent, server
  <2>5. ASSUME strays = 0 PROVE IsPrefix(delivered, messages) /\ Leads(rx', View, Sent)
    <3>1. Leads(rx, View, Sent) /\ IsPrefix(delivered, messages)
      BY <2>1, <2>5 DEF ReplayInv
    <3>2. PICK x \in Views : Adds(View, Head(rx), x) /\ Leads(Tail(rx), x, Sent)
      BY <1>0, <2>1, <3>1, LeadsTail
    <3>3. x = View
      BY <2>3, <3>2 DEF Adds
    <3> QED
      BY <2>1, <3>1, <3>2, <3>3
  <2> QED
    BY <2>1, <2>4, <2>5 DEF ReplayInv
<1>4. CASE /\ UNCHANGED <<msg, opcode, delivered, rx, server>>
           /\ \/ conn' = conn /\ state' = state
              \/ conn = "new" /\ conn' = "open"
              \/ conn' \notin {"new", "open"}
  <2>1. /\ View' = View /\ Sent' = Sent /\ strays' = strays /\ messages' = messages
        /\ Parsed' = Parsed /\ rx' = rx /\ delivered' = delivered
    BY <1>4 DEF View, Sent, server, Parsed
  <2> QED
    BY <1>4, <2>1 DEF ReplayInv
<1>5. \/ conn = "open" /\ Server
      \/ ReadHandshake
      \/ \E room \in BOOLEAN, status \in {"ok", "close", "error"} : DispatchFrame(room, status)
      \/ /\ UNCHANGED <<msg, opcode, delivered, rx, server>>
         /\ \/ conn' = conn /\ state' = state
            \/ conn = "new" /\ conn' = "open"
            \/ conn' \notin {"new", "open"}
  BY DEF Next, Client, Ended, vars, session, Heartbeat, Stop, OnConnect, OnShutdown
<1> QED
  BY <1>1, <1>2, <1>3, <1>4, <1>5

(* The session stays behind the server by the frames in flight.             *)
LEMMA ReplayInvariance == Spec => []ReplayInv
<1>1. Init => ReplayInv
  <2> SUFFICES ASSUME Init PROVE ReplayInv
    OBVIOUS
  <2> DEFINE v == [part |-> NoMessage, done |-> <<>>]
             g == [i \in {0} |-> v]
  <2>1. /\ View = v /\ Sent = v /\ rx = <<>> /\ Len(rx) = 0 /\ Parsed = 0
        /\ delivered = <<>> /\ messages = <<>>
    <3>1. /\ msg = <<>> /\ delivered = <<>> /\ rx = <<>> /\ frames = 0
          /\ partial = NoMessage /\ messages = <<>>
      BY DEF Init
    <3>2. View = v /\ Sent = v
      BY Zenon, <3>1 DEF View, Sent
    <3>3. Len(rx) = 0
      BY <3>1
    <3>4. Parsed = 0 - 0 /\ 0 - 0 = 0
      <4>1. 0 - 0 = 0
        OBVIOUS
      <4> QED
        BY Zenon, <3>1, <3>3, <4>1 DEF Parsed
    <3> QED
      BY Zenon, <3>1, <3>2, <3>3, <3>4
  <2>2. v \in Views /\ IsPrefix(<<>>, <<>>) /\ v.done = <<>>
    BY DEF Views, IsPrefix
  <2> HIDE DEF v
  <2>3. g \in [0..0 -> Views] /\ g[0] = v /\ 1..0 = {} /\ 0..0 = {0}
    BY <2>2
  <2> HIDE DEF g
  <2>4. Way(g, rx, v, v)
    BY Zenon, <2>1, <2>2, <2>3 DEF Way
  <2>5. Leads(rx, v, v)
    BY Zenon, <2>1, <2>3, <2>4 DEF Leads
  <2> QED
    BY <2>1, <2>2, <2>5 DEF ReplayInv
<1> QED
  BY <1>1, ReplayStep, SessionInvariance, PTL DEF Spec

(* A codec behind a server that keeps to the rules gets exactly the         *)
(* messages the server sent, in order, whole and under their own opcode,    *)
(* for every capacity of msg_buf and every way to cut them into fragments.  *)
THEOREM ReassemblyHolds == Spec => []Reassembly
<1>1. ReplayInv => Reassembly
  BY DEF ReplayInv, Reassembly
<1> QED
  BY <1>1, ReplayInvariance, PTL

-----------------------------------------------------------------------------
\* PINGs and the PONGs that answer them

-----------------------------------------------------------------------------
(* PINGs and PONGs.  The server's PINGs carry rising numbers.  While the    *)
(* connection is open, the session has answered those it has parsed, and    *)
(* the others are the PING frames in flight.                                *)

\* The number that a PING carries
Num(payload) == payload[1]

\* The PONGs of s answer the PINGs ps in order.
Answering(s, ps) ==
  \A i \in DOMAIN s : s[i].op = "pong" =>
    LET k == Cardinality(PongsUpTo(s, i)) IN k <= Len(ps) /\ s[i].payload = ps[k]

Answered(s) == Cardinality(PongsUpTo(s, Len(s)))

\* The first a of the PINGs ps are parsed, like all frames below p; the others
\* are the PINGs among the frames q in flight.
Matches(ps, q, p, a) ==
  /\ a \in 0..Len(ps)
  /\ \A k \in DOMAIN ps : Num(ps[k]) \in Nat /\ ps[k] = <<Num(ps[k])>>
  /\ \A k \in DOMAIN ps : Num(ps[k]) < p + Len(q)
  /\ \A j, k \in DOMAIN ps : j < k => Num(ps[j]) < Num(ps[k])
  /\ \A k \in DOMAIN ps : k <= a <=> Num(ps[k]) < p
  /\ \A i \in DOMAIN q : q[i].op = "ping" <=> \E k \in DOMAIN ps : Num(ps[k]) = p + i - 1

\* The PINGs of a server that keeps to the rules, and the answers to them
PingPart(c, s, ps, q, p) ==
  Answering(s, ps) /\ (c \in {"new", "open"} => Matches(ps, q, p, Answered(s)))

PingInv ==
  /\ conn = "new" => tx = <<>>
  /\ pings \in Seq(Seq(Nat))
  /\ strays = 0 => PingPart(conn, tx, pings, rx, Parsed)

(* One more frame is written.                                               *)
LEMMA CountAppend ==
  ASSUME NEW s \in Seq(Written), NEW w \in Written
  PROVE  /\ Answered(s) \in Nat
         /\ Answered(Append(s, w)) = Answered(s) + (IF w.op = "pong" THEN 1 ELSE 0)
         /\ \A i \in 1..Len(s) : PongsUpTo(Append(s, w), i) = PongsUpTo(s, i)
<1> DEFINE z == Append(s, w)
           n == Len(s)
           S == PongsUpTo(s, n)
<1>1. n \in Nat /\ Len(z) = n + 1 /\ z[n + 1] = w /\ \A i \in 1..n : z[i] = s[i]
  OBVIOUS
<1> HIDE DEF z, n
<1>2. ASSUME NEW i \in 0..n PROVE PongsUpTo(z, i) = PongsUpTo(s, i)
  <2>1. \A j \in 1..i : z[j] = s[j]
    BY <1>1
  <2> QED
    BY <2>1, Zenon DEF PongsUpTo
<1>3. IsFiniteSet(S) /\ Cardinality(S) \in Nat /\ n + 1 \notin S
  <2>1. IsFiniteSet(1..n)
    BY <1>1, FS_Interval
  <2>2. S \in SUBSET (1..n)
    BY Zenon DEF PongsUpTo
  <2>3. IsFiniteSet(S)
    BY <2>1, <2>2, FS_Subset, Zenon
  <2>4. n + 1 \notin 1..n
    BY <1>1
  <2> QED
    BY <2>2, <2>3, <2>4, FS_CardinalityType, Zenon
<1>4. PongsUpTo(z, n + 1) = IF w.op = "pong" THEN S \cup {n + 1} ELSE S
  <2>1. \A j : j \in 1..n + 1 <=> j \in 1..n \/ j = n + 1
    BY <1>1
  <2>2. n \in 0..n
    BY <1>1
  <2>3. PongsUpTo(z, n) = S
    BY <1>2, <2>2, Zenon
  <2> QED
    BY <1>1, <2>1, <2>3, Zenon DEF PongsUpTo
<1> HIDE DEF S
<1>5. Cardinality(PongsUpTo(z, n + 1)) = Cardinality(S) + (IF w.op = "pong" THEN 1 ELSE 0)
  <2>1. CASE w.op = "pong"
    <3>1. Cardinality(S \cup {n + 1}) = Cardinality(S) + 1
      BY <1>3, FS_AddElement, Zenon
    <3> QED
      BY <1>4, <2>1, <3>1, Zenon
  <2>2. CASE w.op # "pong"
    <3>1. Cardinality(S) + 0 = Cardinality(S)
      BY <1>3
    <3> QED
      BY <1>4, <2>2, <3>1, Zenon
  <2> QED
    BY <2>1, <2>2, Zenon
<1>6. \A i \in 1..n : PongsUpTo(z, i) = PongsUpTo(s, i)
  <2>1. \A i \in 1..n : i \in 0..n
    BY <1>1
  <2> QED
    BY <1>2, <2>1, Zenon
<1>7. Answered(s) = Cardinality(S) /\ Answered(z) = Cardinality(PongsUpTo(z, n + 1))
  BY <1>1, Zenon DEF Answered, S, n
<1> QED
  BY <1>3, <1>5, <1>6, <1>7, Zenon DEF z, n

(* What is written is no PONG, or the one for the next PING.                *)
LEMMA AnsweringAppend ==
  ASSUME NEW s \in Seq(Written), NEW w \in Written, NEW ps, Answering(s, ps),
         w.op = "pong" => Answered(s) + 1 <= Len(ps) /\ w.payload = ps[Answered(s) + 1]
  PROVE  Answering(Append(s, w), ps)
<1> DEFINE z == Append(s, w)
           n == Len(s)
<1>1. n \in Nat /\ Len(z) = n + 1 /\ z[n + 1] = w /\ \A i \in 1..n : z[i] = s[i]
  OBVIOUS
<1>2. DOMAIN z = 1..n + 1 /\ DOMAIN s = 1..n
  OBVIOUS
<1>3. /\ Answered(z) = Answered(s) + (IF w.op = "pong" THEN 1 ELSE 0)
      /\ \A i \in 1..n : PongsUpTo(z, i) = PongsUpTo(s, i)
  BY CountAppend, Zenon
<1> HIDE DEF z, n
<1>4. ASSUME NEW i \in 1..n + 1, z[i].op = "pong"
      PROVE  Cardinality(PongsUpTo(z, i)) <= Len(ps) /\ z[i].payload = ps[Cardinality(PongsUpTo(z, i))]
  <2>1. CASE i \in 1..n
    <3>1. z[i] = s[i] /\ PongsUpTo(z, i) = PongsUpTo(s, i) /\ i \in DOMAIN s
      BY <1>1, <1>2, <1>3, <2>1, Zenon
    <3> QED
      BY <1>4, <3>1, Zenon DEF Answering
  <2>2. CASE i = n + 1
    <3>1. Cardinality(PongsUpTo(z, i)) = Answered(z)
      BY <1>1, <2>2, Zenon DEF Answered
    <3> QED
      BY <1>1, <1>3, <1>4, <2>2, <3>1, Zenon
  <2>3. i \in 1..n \/ i = n + 1
    BY <1>1
  <2> QED
    BY <2>1, <2>2, <2>3, Zenon
<1>5. Answering(z, ps)
  BY <1>2, <1>4, Zenon DEF Answering
<1> QED
  BY <1>5, Zenon DEF z

(* Another PING changes nothing about the PONGs before it.                  *)
LEMMA AnsweringMore ==
  ASSUME NEW s \in Seq(Written), NEW ps \in Seq(Seq(Nat)), Answering(s, ps), NEW p \in Seq(Nat)
  PROVE  Answering(s, Append(ps, p))
<1> DEFINE z == Append(ps, p)
           n == Len(ps)
<1>1. n \in Nat /\ Len(z) = n + 1 /\ \A k \in 1..n : z[k] = ps[k]
  OBVIOUS
<1> HIDE DEF z
<1>2. ASSUME NEW i \in DOMAIN s, s[i].op = "pong"
      PROVE  Cardinality(PongsUpTo(s, i)) <= Len(z) /\ s[i].payload = z[Cardinality(PongsUpTo(s, i))]
  <2> DEFINE S == PongsUpTo(s, i)
             k == Cardinality(S)
  <2>1. k <= n /\ s[i].payload = ps[k]
    BY <1>2, Zenon DEF Answering
  <2>2. k \in Nat /\ k # 0
    <3>1. i \in Nat /\ i \in 1..i
      OBVIOUS
    <3>2. S \in SUBSET (1..i) /\ i \in S
      BY <1>2, <3>1, Zenon DEF PongsUpTo
    <3>3. IsFiniteSet(1..i)
      BY <3>1, FS_Interval
    <3>4. IsFiniteSet(S) /\ S # {}
      BY <3>2, <3>3, FS_Subset, Zenon
    <3> HIDE DEF S
    <3> QED
      BY <3>4, FS_CardinalityType, FS_EmptySet, Zenon
  <2> HIDE DEF S, k, n
  <2>3. k \in 1..n /\ k <= Len(z)
    BY <1>1, <2>1, <2>2
  <2> QED
    BY <1>1, <2>1, <2>3, Zenon DEF S, k
<1>3. Answering(s, z)
  BY <1>2, Zenon DEF Answering
<1> QED
  BY <1>3, Zenon DEF z

(* The server sends a frame, a PING or not.                                 *)
LEMMA MatchesSend ==
  ASSUME NEW ps \in Seq(Seq(Nat)), NEW q \in Seq(Frame), NEW p \in Nat, NEW a, Matches(ps, q, p, a),
         NEW f \in Frame, NEW z \in Seq(Seq(Nat)),
         IF f.op = "ping" THEN z = Append(ps, <<p + Len(q)>>) ELSE z = ps
  PROVE  Matches(z, Append(q, f), p, a)
<1> DEFINE n == Len(ps)
           l == Len(q)
           y == Append(q, f)
<1>1. n \in Nat /\ l \in Nat /\ DOMAIN ps = 1..n /\ DOMAIN q = 1..l
  OBVIOUS
<1>2. Len(y) = l + 1 /\ DOMAIN y = 1..l + 1 /\ y[l + 1] = f /\ \A i \in 1..l : y[i] = q[i]
  OBVIOUS
<1>3. /\ a \in 0..n
      /\ \A k \in 1..n : Num(ps[k]) \in Nat /\ ps[k] = <<Num(ps[k])>>
      /\ \A k \in 1..n : Num(ps[k]) < p + l
      /\ \A j, k \in 1..n : j < k => Num(ps[j]) < Num(ps[k])
      /\ \A k \in 1..n : k <= a <=> Num(ps[k]) < p
      /\ \A i \in 1..l : q[i].op = "ping" <=> \E k \in 1..n : Num(ps[k]) = p + i - 1
  BY <1>1, Zenon DEF Matches
<1>4. a \in 0..n /\ \A k \in 1..n : Num(ps[k]) \in Nat
  BY <1>3, Zenon
<1>5. \A k \in 1..n : Num(ps[k]) < p + l
  BY <1>3, Zenon
<1>6. \A j, k \in 1..n : j < k => Num(ps[j]) < Num(ps[k])
  BY <1>3, Zenon
<1>7. \A k \in 1..n : k <= a <=> Num(ps[k]) < p
  BY <1>3, Zenon
<1>8. CASE f.op = "ping"
  <2>1. z = Append(ps, <<p + l>>)
    BY <1>8, Zenon
  <2>2. /\ Len(z) = n + 1 /\ DOMAIN z = 1..n + 1 /\ z[n + 1] = <<p + l>>
        /\ \A k \in 1..n : z[k] = ps[k]
    BY <2>1
  <2>3. Num(z[n + 1]) = p + l /\ z[n + 1] = <<Num(z[n + 1])>>
    BY <2>2 DEF Num
  <2> HIDE DEF n, l, y
  <2>4. \A k \in 1..n + 1 : Num(z[k]) \in Nat /\ z[k] = <<Num(z[k])>>
    <3>1. \A k \in 1..n + 1 : k \in 1..n \/ k = n + 1
      BY <1>1
    <3>2. p + l \in Nat
      BY <1>1
    <3> QED
      BY <1>3, <2>2, <2>3, <3>1, <3>2, Zenon
  <2>5. \A k \in 1..n + 1 :
          \/ k \in 1..n /\ Num(z[k]) = Num(ps[k])
          \/ k = n + 1 /\ Num(z[k]) = p + l
    <3>1. \A k \in 1..n + 1 : k \in 1..n \/ k = n + 1
      BY <1>1
    <3> QED
      BY <2>2, <2>3, <3>1, Zenon
  <2>6. a \in 0..Len(z) /\ \A k \in 1..n + 1 : Num(z[k]) < p + Len(y)
    <3>1. a \in 0..Len(z)
      BY <1>1, <1>4, <2>2
    <3>2. \A k \in 1..n + 1 : Num(z[k]) < p + (l + 1)
      BY <1>1, <1>4, <1>5, <2>5
    <3> QED
      BY <1>2, <3>1, <3>2, Zenon
  <2>7. \A j, k \in 1..n + 1 : j < k => Num(z[j]) < Num(z[k])
    <3> SUFFICES ASSUME NEW j \in 1..n + 1, NEW k \in 1..n + 1, j < k
                 PROVE  Num(z[j]) < Num(z[k])
      OBVIOUS
    <3>1. j \in 1..n /\ Num(z[j]) = Num(ps[j])
      <4>1. j # n + 1
        BY <1>1
      <4> QED
        BY <2>5, <4>1, Zenon
    <3>2. CASE k \in 1..n /\ Num(z[k]) = Num(ps[k])
      BY <1>6, <3>1, <3>2, Zenon
    <3>3. CASE k = n + 1 /\ Num(z[k]) = p + l
      BY <1>5, <3>1, <3>3, Zenon
    <3> QED
      BY <2>5, <3>2, <3>3, Zenon
  <2>8. \A k \in 1..n + 1 : k <= a <=> Num(z[k]) < p
    BY <1>1, <1>4, <1>7, <2>5
  <2>9. ASSUME NEW i \in 1..l + 1
        PROVE  y[i].op = "ping" <=> \E k \in 1..n + 1 : Num(z[k]) = p + i - 1
    <3>1. CASE i \in 1..l
      <4>1. y[i].op = "ping" <=> \E k \in 1..n : Num(ps[k]) = p + i - 1
        BY <1>2, <1>3, <3>1, Zenon
      <4>2. p + i - 1 # p + l /\ \A k \in 1..n : k \in 1..n + 1
        BY <1>1, <3>1
      <4>3. \A k \in 1..n + 1 : k \in 1..n \/ k = n + 1
        BY <1>1
      <4> QED
        BY <2>2, <2>3, <4>1, <4>2, <4>3, Zenon
    <3>2. CASE i = l + 1
      <4>1. p + i - 1 = p + l /\ n + 1 \in 1..n + 1
        BY <1>1, <3>2
      <4> QED
        BY <1>2, <1>8, <2>3, <3>2, <4>1, Zenon
    <3>3. i \in 1..l \/ i = l + 1
      BY <1>1
    <3> QED
      BY <3>1, <3>2, <3>3, Zenon
  <2>10. Matches(z, y, p, a)
    BY <1>2, <2>2, <2>4, <2>6, <2>7, <2>8, <2>9, Zenon DEF Matches
  <2> QED
    BY <2>10, Zenon DEF y
<1>9. CASE f.op # "ping"
  <2>1. z = ps
    BY <1>9, Zenon
  <2> HIDE DEF n, l, y
  <2>2. \A k \in 1..n : Num(ps[k]) < p + Len(y)
    BY <1>1, <1>2, <1>4, <1>5
  <2>3. ASSUME NEW i \in 1..l + 1
        PROVE  y[i].op = "ping" <=> \E k \in 1..n : Num(ps[k]) = p + i - 1
    <3>1. CASE i \in 1..l
      BY <1>2, <1>3, <3>1, Zenon
    <3>2. CASE i = l + 1
      <4>1. \A k \in 1..n : Num(ps[k]) # p + i - 1
        BY <1>1, <1>3, <3>2
      <4> QED
        BY <1>2, <1>9, <3>2, <4>1, Zenon
    <3>3. i \in 1..l \/ i = l + 1
      BY <1>1
    <3> QED
      BY <3>1, <3>2, <3>3, Zenon
  <2>4. Matches(ps, y, p, a)
    BY <1>1, <1>2, <1>3, <2>2, <2>3, Zenon DEF Matches, n
  <2> QED
    BY <2>1, <2>4, Zenon DEF y
<1> QED
  BY <1>8, <1>9, Zenon

(* The next frame is parsed; if it is a PING, it is the next one to answer. *)
LEMMA MatchesTake ==
  ASSUME NEW ps \in Seq(Seq(Nat)), NEW q \in Seq(Frame), q # <<>>, NEW p \in Nat, NEW a,
         Matches(ps, q, p, a)
  PROVE  /\ Head(q).op = "ping" => /\ a + 1 <= Len(ps) /\ ps[a + 1] = <<p>>
                                   /\ Matches(ps, Tail(q), p + 1, a + 1)
         /\ Head(q).op # "ping" => Matches(ps, Tail(q), p + 1, a)
<1> DEFINE n == Len(ps)
           l == Len(q)
           y == Tail(q)
<1>1. n \in Nat /\ l \in Nat /\ l # 0 /\ DOMAIN ps = 1..n /\ DOMAIN q = 1..l /\ Head(q) = q[1]
  OBVIOUS
<1>2. Len(y) = l - 1 /\ DOMAIN y = 1..l - 1 /\ \A i \in 1..l - 1 : y[i] = q[i + 1]
  OBVIOUS
<1>3. /\ a \in 0..n
      /\ \A k \in 1..n : Num(ps[k]) \in Nat /\ ps[k] = <<Num(ps[k])>>
      /\ \A k \in 1..n : Num(ps[k]) < p + l
      /\ \A j, k \in 1..n : j < k => Num(ps[j]) < Num(ps[k])
      /\ \A k \in 1..n : k <= a <=> Num(ps[k]) < p
      /\ \A i \in 1..l : q[i].op = "ping" <=> \E k \in 1..n : Num(ps[k]) = p + i - 1
  BY <1>1, Zenon DEF Matches
<1>4. a \in 0..n /\ \A k \in 1..n : Num(ps[k]) \in Nat
  BY <1>3, Zenon
<1>5. \A k \in 1..n : Num(ps[k]) < p + l
  BY <1>3, Zenon
<1>6. \A j, k \in 1..n : j < k => Num(ps[j]) < Num(ps[k])
  BY <1>3, Zenon
<1>7. \A k \in 1..n : k <= a <=> Num(ps[k]) < p
  BY <1>3, Zenon
<1> HIDE DEF n, l, y
<1>8. \A k \in 1..n : Num(ps[k]) < (p + 1) + Len(y)
  BY <1>1, <1>2, <1>3
<1>9. \A i \in 1..l - 1 : y[i].op = "ping" <=> \E k \in 1..n : Num(ps[k]) = (p + 1) + i - 1
  <2> SUFFICES ASSUME NEW i \in 1..l - 1
               PROVE  y[i].op = "ping" <=> \E k \in 1..n : Num(ps[k]) = (p + 1) + i - 1
    OBVIOUS
  <2>1. i + 1 \in 1..l /\ p + (i + 1) - 1 = (p + 1) + i - 1
    BY <1>1
  <2> DEFINE h == i + 1
  <2>2. y[i] = q[h] /\ h \in 1..l /\ p + h - 1 = (p + 1) + i - 1
    BY <1>2, <2>1, Zenon
  <2> HIDE DEF h
  <2> QED
    BY <1>3, <2>2, Zenon
<1>10. ASSUME NEW b \in 0..n, \A k \in 1..n : k <= b <=> Num(ps[k]) < p + 1
      PROVE  Matches(ps, y, p + 1, b)
  BY <1>1, <1>2, <1>3, <1>8, <1>9, <1>10, Zenon DEF Matches, n
<1>11. 1 \in 1..l /\ p + 1 - 1 = p
  BY <1>1
<1>12. q[1].op = "ping" <=> \E k \in 1..n : Num(ps[k]) = p
  <2> DEFINE h == 1
  <2>1. h \in 1..l /\ p + h - 1 = p
    BY <1>11
  <2> HIDE DEF h
  <2>2. q[h].op = "ping" <=> \E k \in 1..n : Num(ps[k]) = p
    BY <1>3, <2>1, Zenon
  <2> QED
    BY <2>2, Zenon DEF h
<1>13. CASE Head(q).op = "ping"
  <2>1. PICK k \in 1..n : Num(ps[k]) = p
    BY <1>1, <1>12, <1>13, Zenon
  <2>2. k = a + 1
    <3>1. ~(k <= a)
      <4>1. ~(p < p)
        OBVIOUS
      <4> QED
        BY <1>7, <2>1, <4>1, Zenon
    <3>2. k = 1 \/ k - 1 <= a
      <4>1. k # 1 => k - 1 \in 1..n /\ k - 1 < k
        BY <1>1
      <4>2. k # 1 => Num(ps[k - 1]) < p
        BY <1>6, <2>1, <4>1, Zenon
      <4> QED
        BY <1>7, <4>1, <4>2, Zenon
    <3> QED
      BY <1>1, <1>3, <3>1, <3>2
  <2>3. a + 1 \in 0..n /\ a + 1 <= n
    BY <1>1, <1>3, <2>2
  <2>4. \A j \in 1..n : j <= a + 1 <=> Num(ps[j]) < p + 1
    <3> SUFFICES ASSUME NEW j \in 1..n PROVE j <= a + 1 <=> Num(ps[j]) < p + 1
      OBVIOUS
    <3>1. CASE j <= a
      BY <1>3, <3>1
    <3>2. CASE j = k
      BY <1>1, <1>3, <2>1, <2>2, <3>2
    <3>3. CASE k < j
      <4>1. p < Num(ps[j]) /\ Num(ps[j]) \in Nat
        BY <1>4, <1>6, <2>1, <3>3, Zenon
      <4> QED
        BY <1>1, <1>3, <2>2, <3>3, <4>1
    <3> QED
      BY <1>1, <1>3, <2>2, <3>1, <3>2, <3>3
  <2>5. Matches(ps, y, p + 1, a + 1)
    BY <1>10, <2>3, <2>4, Zenon
  <2>6. ps[a + 1] = <<p>>
    BY <1>3, <2>1, <2>2, Zenon
  <2> QED
    BY <1>13, <2>3, <2>5, <2>6, Zenon DEF n, y
<1>14. CASE Head(q).op # "ping"
  <2>1. \A k \in 1..n : Num(ps[k]) # p
    BY <1>1, <1>12, <1>14, Zenon
  <2>2. \A k \in 1..n : k <= a <=> Num(ps[k]) < p + 1
    <3>1. \A m \in Nat : m # p => (m < p <=> m < p + 1)
      BY <1>1
    <3> QED
      BY <1>4, <1>7, <2>1, <3>1, Zenon
  <2>3. Matches(ps, y, p + 1, a)
    BY <1>3, <1>10, <2>2, Zenon
  <2> QED
    BY <1>14, <2>3, Zenon DEF y
<1> QED
  BY <1>13, <1>14, Zenon

(* The server counts its PINGs.                                             *)
LEMMA ServerPings ==
  ASSUME WInv, Server
  PROVE  \E f \in Frame :
           /\ rx' = Append(rx, f)
           /\ strays' # 0 \/ IF f.op = "ping" THEN pings' = Append(pings, <<frames>>)
                                               ELSE pings' = pings
           /\ pings' \in {pings, Append(pings, <<frames>>)}
<1>1. frames \in Nat /\ strays \in Nat
  BY DEF WInv, FrameInv
<1>2. ASSUME NEW op \in FrameOps, NEW fin \in BOOLEAN,
             Put([op |-> op, fin |-> fin, payload |-> frames]),
             fin \/ op \in DataOps \cup Controls, op \in WebOps \/ frames > 0,
             strays' # 0 \/ IF op = "ping" THEN pings' = Append(pings, <<frames>>)
                                            ELSE pings' = pings,
             pings' \in {pings, Append(pings, <<frames>>)}
      PROVE  \E f \in Frame :
               /\ rx' = Append(rx, f)
               /\ strays' # 0 \/ IF f.op = "ping" THEN pings' = Append(pings, <<frames>>)
                                                   ELSE pings' = pings
               /\ pings' \in {pings, Append(pings, <<frames>>)}
  <2> DEFINE f == [op |-> op, fin |-> fin, payload |-> frames]
  <2>1. f \in Frame
    BY <1>1, <1>2, FrameMade
  <2>2. f.op = op /\ rx' = Append(rx, f)
    BY <1>2, Zenon DEF Put
  <2> HIDE DEF f
  <2> QED
    BY <1>2, <2>1, <2>2, Zenon
<1> DEFINE G == \E f \in Frame :
                  /\ rx' = Append(rx, f)
                  /\ strays' # 0 \/ IF f.op = "ping" THEN pings' = Append(pings, <<frames>>)
                                                      ELSE pings' = pings
                  /\ pings' \in {pings, Append(pings, <<frames>>)}
<1>3. ASSUME NEW op \in {"http_101", "http_other"}, SendHandshake(op) PROVE G
  <2>1. /\ Put([op |-> op, fin |-> TRUE, payload |-> frames]) /\ pings' = pings
    BY <1>1, <1>3 DEF SendHandshake
  <2>2. op \in FrameOps /\ op \in WebOps /\ op # "ping"
    BY DEF FrameOps, WebOps
  <2> QED
    BY <1>2, <2>1, <2>2, Zenon
<1>4. ASSUME NEW op \in Data \cup {"cont"}, NEW fin \in BOOLEAN, SendData(op, fin) PROVE G
  <2>1. Put([op |-> op, fin |-> fin, payload |-> frames]) /\ frames > 0 /\ pings' = pings
    BY Zenon, <1>4 DEF SendData
  <2>2. op \in FrameOps /\ op \in DataOps \cup Controls /\ op # "ping"
    BY DEF FrameOps, DataOps, Data
  <2> QED
    BY <1>2, <2>1, <2>2, Zenon
<1>5. ASSUME NEW op \in {"ping", "long_ping", "pong", "close", "malformed"}, SendControl(op) PROVE G
  <2>1. /\ Put([op |-> op, fin |-> TRUE, payload |-> frames]) /\ frames > 0
        /\ pings' = IF op = "ping" THEN Append(pings, <<frames>>) ELSE pings
    BY Zenon, <1>5 DEF SendControl
  <2>2. op \in FrameOps
    BY DEF FrameOps, Controls
  <2> QED
    BY <1>2, <2>1, <2>2, Zenon
<1>6. ASSUME NEW op \in Data \cup Controls \cup {"cont"}, NEW fin \in BOOLEAN, SendStray(op, fin)
      PROVE  G
  <2>1. /\ Put([op |-> op, fin |-> fin, payload |-> frames]) /\ frames > 0 /\ pings' = pings
        /\ strays' = strays + 1
    BY Zenon, <1>6 DEF SendStray
  <2>2. op \in FrameOps /\ op \in DataOps \cup Controls
    BY DEF FrameOps, DataOps
  <2>3. strays' # 0
    BY <1>1, <2>1
  <2> QED
    BY <1>2, <2>1, <2>2, <2>3, Zenon
<1> HIDE DEF G
<1>7. G
  BY Zenon, <1>3, <1>4, <1>5, <1>6 DEF Server
<1> QED
  BY <1>7 DEF G

\* What the session writes when it parses f: a PONG for a PING, unless there is
\* no room for it, and for anything else no PONG.
Replies(f) ==
  \/ /\ f.op = "ping"
     /\ tx' = Append(tx, [op |-> "pong", payload |-> <<f.payload>>]) \/ (tx' = tx /\ conn' # "open")
  \/ /\ f.op # "ping"
     /\ tx' = tx \/ \E w \in Written : w.op # "pong" /\ tx' = Append(tx, w)

(* handle_frame() of a message, and of a frame.                             *)
LEMMA HandleReplies ==
  ASSUME NEW op, NEW payload \in Seq(Nat), NEW room \in BOOLEAN,
         NEW status \in {"ok", "close", "error"}, HandleFrame(op, payload, room, status)
  PROVE  /\ op # "ping" => tx' = tx \/ \E w \in Written : w.op # "pong" /\ tx' = Append(tx, w)
         /\ op = "ping" => \/ tx' = Append(tx, [op |-> "pong", payload |-> payload])
                           \/ tx' = tx /\ conn' # "open"
<1>1. /\ [op |-> "close", payload |-> payload] \in Written
      /\ [op |-> "data", payload |-> <<>>] \in Written
  BY DEF Written
<1>2. ASSUME op # "ping"
      PROVE  tx' = tx \/ \E w \in Written : w.op # "pong" /\ tx' = Append(tx, w)
  <2>1. \/ tx' = tx \/ tx' = Append(tx, [op |-> "close", payload |-> payload])
        \/ tx' = Append(tx, [op |-> "data", payload |-> <<>>])
    BY <1>2 DEF HandleFrame
  <2>2. /\ [op |-> "close", payload |-> payload].op # "pong"
        /\ [op |-> "data", payload |-> <<>>].op # "pong"
    OBVIOUS
  <2> QED
    BY <1>1, <2>1, <2>2, Zenon
<1>3. ASSUME op = "ping"
      PROVE  tx' = Append(tx, [op |-> "pong", payload |-> payload]) \/ (tx' = tx /\ conn' # "open")
  <2>1. /\ tx' = IF room THEN Append(tx, [op |-> "pong", payload |-> payload]) ELSE tx
        /\ status = (IF room THEN "ok" ELSE "close") /\ Answer(status)
    BY <1>3 DEF HandleFrame, Data
  <2>2. ~room => conn' = "closing"
    BY <2>1 DEF Answer
  <2> QED
    BY <2>1, <2>2
<1> QED
  BY <1>2, <1>3, Zenon

(* dispatch_frame(), as long as the server keeps to the rules: only a PING  *)
(* is answered by a PONG.                                                   *)
LEMMA DispatchReplies ==
  ASSUME WInv, NEW room \in BOOLEAN, NEW status \in {"ok", "close", "error"},
         DispatchFrame(room, status), View \in Views, NEW w, Adds(View, Head(rx), w)
  PROVE  Replies(Head(rx))
<1> DEFINE f == Head(rx)
<1>1. f \in Frame /\ f.payload \in Nat /\ msg \in Seq(Nat)
  BY HeadTailProperties DEF WInv, FrameInv, SessionInv, DispatchFrame, Frame
<1>2. Adds(View, f, w)
  OBVIOUS
<1>3. /\ f.op = "malformed" => UNCHANGED tx
      /\ f.op # "malformed" /\ IsFragment(f) => Fragment(f, room, status)
      /\ f.op # "malformed" /\ ~IsFragment(f) => HandleFrame(f.op, <<f.payload>>, room, status)
  BY DEF DispatchFrame
<1> HIDE DEF f
<1>4. CASE f.op = "malformed"
  <2>1. f.op # "ping"
    BY <1>4
  <2> QED
    BY <1>3, <1>4, <2>1, Zenon DEF Replies, f
<1>5. CASE f.op # "malformed" /\ IsFragment(f)
  <2>1. f.op \in DataOps /\ f.op # "ping" /\ (f.op = "cont") = (View.part # NoMessage)
    BY <1>1, <1>2, <1>5 DEF Adds, IsFragment, DataOps, Data
  <2>2. Fragment(f, room, status)
    BY <1>3, <1>5, Zenon
  <2>3. CASE Overflows \/ ~f.fin
    <3>1. tx' = tx
      BY <2>2, <2>3 DEF Fragment
    <3> QED
      BY <2>1, <3>1, Zenon DEF Replies, f
  <2>4. CASE ~Overflows /\ f.fin
    <3>1. f.op = "cont" /\ View.part # NoMessage
      BY <1>5, <2>1, <2>4 DEF IsFragment
    <3>2. View.part = [op |-> opcode, payload |-> msg] /\ View.part \in Message
      <4>1. View.part = IF msg = <<>> THEN NoMessage ELSE [op |-> opcode, payload |-> msg]
        BY DEF View
      <4>2. View.part \in Message \cup {NoMessage}
        BY DEF Views
      <4> QED
        BY <3>1, <4>1, <4>2, Zenon
    <3>3. opcode \in Data
      BY <3>2 DEF Message
    <3>4. Assembled = {opcode} /\ opcode # "ping"
      BY <3>3 DEF Assembled, Data
    <3>5. HandleFrame(opcode, Append(msg, f.payload), room, status)
      BY <2>2, <2>4, <3>4 DEF Fragment
    <3>6. Append(msg, f.payload) \in Seq(Nat)
      BY <1>1
    <3>7. tx' = tx \/ \E x \in Written : x.op # "pong" /\ tx' = Append(tx, x)
      BY <3>4, <3>5, <3>6, HandleReplies, Zenon
    <3> QED
      BY <2>1, <3>7, Zenon DEF Replies, f
  <2> QED
    BY <2>3, <2>4, Zenon
<1>6. CASE f.op # "malformed" /\ ~IsFragment(f)
  <2>1. HandleFrame(f.op, <<f.payload>>, room, status) /\ <<f.payload>> \in Seq(Nat)
    BY <1>1, <1>3, <1>6
  <2>2. Replies(f)
    BY <2>1, HandleReplies, Zenon DEF Replies
  <2> QED
    BY <2>2, Zenon DEF f
<1> QED
  BY <1>4, <1>5, <1>6, Zenon

(* A frame that is no PONG changes nothing about the PONGs.                 *)
LEMMA NoPong ==
  ASSUME NEW s \in Seq(Written), NEW w \in Written, w.op # "pong", NEW ps, Answering(s, ps)
  PROVE  Answering(Append(s, w), ps) /\ Answered(Append(s, w)) = Answered(s)
<1>1. Answered(s) \in Nat /\ Answered(Append(s, w)) = Answered(s) + 0
  BY CountAppend, Zenon
<1>2. Answered(Append(s, w)) = Answered(s)
  BY <1>1
<1> QED
  BY <1>2, AnsweringAppend, Zenon

(* A frame is parsed and answered.                                          *)
LEMMA ReplyStep ==
  ASSUME WInv, conn = "open", rx # <<>>, rx' = Tail(rx), UNCHANGED server,
         conn' \in {"open", "closing", "error"},
         pings \in Seq(Seq(Nat)), PingPart(conn, tx, pings, rx, Parsed), Replies(Head(rx))
  PROVE  PingPart(conn', tx', pings', rx', Parsed')
<1> DEFINE f == Head(rx)
           p == Parsed
           a == Answered(tx)
<1>1. pings' = pings /\ Parsed' = p + 1 /\ f.payload = p /\ f \in Frame
  BY ParseOne DEF server
<1>2. rx \in Seq(Frame) /\ p \in Nat /\ tx \in Seq(Written)
  BY DEF WInv, FrameInv, CloseInv, Parsed
<1>3. Answering(tx, pings) /\ Matches(pings, rx, p, a)
  BY Zenon DEF PingPart
<1> HIDE DEF p
<1>4. CASE f.op = "ping"
  <2>1. a + 1 <= Len(pings) /\ pings[a + 1] = <<p>> /\ Matches(pings, Tail(rx), p + 1, a + 1)
    BY <1>2, <1>3, <1>4, MatchesTake, Zenon
  <2>2. CASE tx' = tx /\ conn' # "open"
    <3>1. conn' \notin {"new", "open"}
      BY <2>2
    <3> QED
      BY <1>1, <1>3, <2>2, <3>1, Zenon DEF PingPart
  <2>3. CASE tx' = Append(tx, [op |-> "pong", payload |-> <<f.payload>>])
    <3> DEFINE w == [op |-> "pong", payload |-> <<p>>]
    <3>1. w \in Written /\ w.op = "pong" /\ w.payload = <<p>>
      BY <1>2 DEF Written
    <3>2. tx' = Append(tx, w)
      BY <1>1, <2>3, Zenon
    <3> HIDE DEF w
    <3>3. Answering(Append(tx, w), pings)
      BY <1>2, <1>3, <2>1, <3>1, AnsweringAppend, Zenon
    <3>4. Answered(Append(tx, w)) = a + 1
      BY <1>2, <3>1, CountAppend, Zenon
    <3> QED
      BY <1>1, <2>1, <3>2, <3>3, <3>4, Zenon DEF PingPart
  <2> QED
    BY <1>4, <2>2, <2>3, Zenon DEF Replies
<1>5. CASE f.op # "ping"
  <2>1. Matches(pings, Tail(rx), p + 1, a)
    BY <1>2, <1>3, <1>5, MatchesTake, Zenon
  <2>2. CASE tx' = tx
    BY <1>1, <1>3, <2>1, <2>2, Zenon DEF PingPart
  <2>3. ASSUME NEW w \in Written, w.op # "pong", tx' = Append(tx, w)
        PROVE  PingPart(conn', tx', pings', rx', Parsed')
    <3>1. Answering(Append(tx, w), pings) /\ Answered(Append(tx, w)) = a
      BY <1>2, <1>3, <2>3, NoPong, Zenon
    <3> QED
      BY <1>1, <2>1, <2>3, <3>1, Zenon DEF PingPart
  <2> QED
    BY <1>5, <2>2, <2>3, Zenon DEF Replies
<1> QED
  BY <1>4, <1>5, Zenon

(* A server that kept to the rules so far sends a frame.                    *)
LEMMA SendStep ==
  ASSUME WInv, Server, pings \in Seq(Seq(Nat)), conn = "open"
  PROVE  /\ pings' \in Seq(Seq(Nat))
         /\ PingPart(conn, tx, pings, rx, Parsed) /\ strays' = 0 =>
              PingPart(conn', tx', pings', rx', Parsed')
<1>1. PICK f \in Frame :
        /\ rx' = Append(rx, f)
        /\ strays' # 0 \/ IF f.op = "ping" THEN pings' = Append(pings, <<frames>>)
                                            ELSE pings' = pings
        /\ pings' \in {pings, Append(pings, <<frames>>)}
  BY ServerPings, Zenon
<1>2. /\ rx \in Seq(Frame) /\ Parsed \in Nat /\ tx \in Seq(Written) /\ <<frames>> \in Seq(Nat)
      /\ Parsed + Len(rx) = frames
  BY DEF WInv, FrameInv, CloseInv, Parsed
<1>3. Parsed' = Parsed /\ tx' = tx /\ conn' = conn
  BY ParseNone, ServerEffect
<1>4. pings' \in Seq(Seq(Nat))
  <2> DEFINE S == Seq(Nat)
             e == <<frames>>
  <2>1. pings \in Seq(S) /\ e \in S
    BY <1>2, Zenon
  <2> HIDE DEF S, e
  <2>2. Append(pings, e) \in Seq(S)
    BY <2>1
  <2> QED
    BY <1>1, <2>1, <2>2, Zenon DEF S, e
<1>5. ASSUME PingPart(conn, tx, pings, rx, Parsed), strays' = 0
      PROVE  PingPart(conn', tx', pings', rx', Parsed')
  <2>0. Answering(tx, pings) /\ Matches(pings, rx, Parsed, Answered(tx))
    BY <1>5, Zenon DEF PingPart
  <2>1. IF f.op = "ping" THEN pings' = Append(pings, <<frames>>) ELSE pings' = pings
    BY <1>1, <1>5, Zenon
  <2>2. Answering(tx, pings')
    BY <1>2, <2>0, <2>1, AnsweringMore, Zenon
  <2>3. Matches(pings', Append(rx, f), Parsed, Answered(tx))
    <3> DEFINE z == pings'
               p == Parsed
    <3>1. IF f.op = "ping" THEN z = Append(pings, <<p + Len(rx)>>) ELSE z = pings
      BY <1>2, <2>1, Zenon
    <3>2. z \in Seq(Seq(Nat)) /\ p \in Nat /\ Matches(pings, rx, p, Answered(tx))
      BY <1>2, <1>4, <2>0, Zenon
    <3> HIDE DEF z, p
    <3>3. Matches(z, Append(rx, f), p, Answered(tx))
      BY <1>2, <3>1, <3>2, MatchesSend, Zenon
    <3> QED
      BY <3>3, Zenon DEF z, p
  <2> QED
    BY <1>1, <1>3, <2>2, <2>3, Zenon DEF PingPart
<1> QED
  BY <1>4, <1>5, Zenon

(* Every step answers the PINGs it parses, in order.                        *)
LEMMA PingStep == WInv /\ ReplayInv /\ PingInv /\ [Next]_vars => PingInv'
<1> SUFFICES ASSUME WInv, ReplayInv, PingInv, [Next]_vars PROVE PingInv'
  OBVIOUS
<1>0. /\ rx \in Seq(Frame) /\ tx \in Seq(Written) /\ pings \in Seq(Seq(Nat))
      /\ strays = 0 => PingPart(conn, tx, pings, rx, Parsed)
  BY DEF WInv, FrameInv, CloseInv, PingInv
<1>1. CASE conn = "open" /\ Server
  <2>1. /\ pings' \in Seq(Seq(Nat))
        /\ PingPart(conn, tx, pings, rx, Parsed) /\ strays' = 0 =>
             PingPart(conn', tx', pings', rx', Parsed')
    BY <1>0, <1>1, SendStep, Zenon
  <2>2. conn' = "open" /\ (strays' = 0 => strays = 0)
    BY <1>1, ServerEffect, ServerAdds
  <2>3. conn' # "new"
    BY <2>2
  <2> QED
    BY <1>0, <2>1, <2>2, <2>3, Zenon DEF PingInv
<1>2. ASSUME rx # <<>>, rx' = Tail(rx), UNCHANGED server, conn = "open",
             conn' \in {"open", "closing", "error"},
             strays = 0 => Replies(Head(rx))
      PROVE  PingInv'
  <2>1. strays = 0 => PingPart(conn', tx', pings', rx', Parsed')
    BY <1>0, <1>2, ReplyStep, Zenon
  <2>2. conn' # "new" /\ strays' = strays /\ pings' = pings
    BY <1>2 DEF server
  <2> QED
    BY <1>0, <2>1, <2>2, Zenon DEF PingInv
<1>3. ASSUME NEW room \in BOOLEAN, NEW status \in {"ok", "close", "error"},
             DispatchFrame(room, status)
      PROVE  PingInv'
  <2>1. conn = "open" /\ rx # <<>> /\ rx' = Tail(rx) /\ UNCHANGED server
    BY <1>3 DEF DispatchFrame
  <2>2. conn' \in {"open", "closing", "error"}
    BY <1>3, <2>1, DispatchEffect DEF Answers
  <2>3. ASSUME strays = 0 PROVE Replies(Head(rx))
    <3>1. Leads(rx, View, Sent)
      BY <2>1, <2>3 DEF ReplayInv
    <3>2. PICK x \in Views : Adds(View, Head(rx), x)
      BY <1>0, <2>1, <3>1, LeadsTail
    <3>3. View \in Views
      BY <1>0, <3>1, LeadsFrom
    <3> QED
      BY <1>3, <3>2, <3>3, DispatchReplies, Zenon
  <2> QED
    BY <1>2, <2>1, <2>2, <2>3, Zenon
<1>4. CASE ReadHandshake
  <2>1. /\ conn = "open" /\ state = "handshake_sent" /\ rx # <<>> /\ rx' = Tail(rx)
        /\ UNCHANGED server /\ tx' = tx /\ conn' \in {"open", "closing", "error"}
    BY <1>4 DEF ReadHandshake, Answer
  <2>2. Head(rx).payload = 0 /\ Head(rx) \in Frame
    BY <2>1, ParseOne DEF ReplayInv
  <2>3. Head(rx).op # "ping"
    BY <2>2 DEF Frame, WebOps
  <2>4. Replies(Head(rx))
    BY <2>1, <2>3, Zenon DEF Replies
  <2> QED
    BY <1>2, <2>1, <2>4, Zenon
<1>5. CASE /\ UNCHANGED <<rx, server>>
           /\ conn' # "new" \/ conn' = conn
           /\ conn' = "open" => conn \in {"new", "open"}
           /\ \/ tx' = tx
              \/ \E w \in Written : w.op # "pong" /\ tx' = Append(tx, w) /\ conn' # "new"
  <2>1. /\ rx' = rx /\ pings' = pings /\ strays' = strays /\ Parsed' = Parsed
    BY <1>5 DEF server, Parsed
  <2>2. conn' \in {"new", "open"} => conn \in {"new", "open"}
    BY <1>5
  <2>3. CASE tx' = tx
    <3>1. conn' = "new" => conn = "new"
      BY <1>5
    <3> QED
      BY <1>0, <2>1, <2>2, <2>3, <3>1, Zenon DEF PingInv, PingPart
  <2>4. ASSUME NEW w \in Written, w.op # "pong", tx' = Append(tx, w), conn' # "new" PROVE PingInv'
    <3>1. strays = 0 => Answering(Append(tx, w), pings) /\ Answered(Append(tx, w)) = Answered(tx)
      BY <1>0, <2>4, NoPong, Zenon DEF PingPart
    <3> QED
      BY <1>0, <2>1, <2>2, <2>4, <3>1, Zenon DEF PingInv, PingPart
  <2> QED
    BY <1>5, <2>3, <2>4, Zenon
<1>6. CASE \/ Heartbeat \/ Stop \/ Ended \/ UNCHANGED vars
           \/ \E room \in BOOLEAN : OnConnect(room) \/ OnShutdown(room)
  <2>1. \A o \in {"upgrade", "ping", "close"} : [op |-> o, payload |-> <<>>] \in Written
    BY DEF Written
  <2>2. ASSUME NEW o \in {"upgrade", "ping", "close"}
        PROVE  [op |-> o, payload |-> <<>>].op # "pong"
    OBVIOUS
  <2>3. conn = "new" => tx = <<>>
    BY DEF PingInv
  <2>4. /\ UNCHANGED <<rx, server>>
        /\ conn' # "new" \/ conn' = conn
        /\ conn' = "open" => conn \in {"new", "open"}
        /\ \/ tx' = tx
           \/ \E o \in {"upgrade", "ping", "close"} :
                tx' = Append(tx, [op |-> o, payload |-> <<>>]) /\ conn' # "new"
    <3>1. CASE Heartbeat
      BY <3>1 DEF Heartbeat
    <3>2. CASE Stop \/ Ended \/ UNCHANGED vars
      BY <3>2 DEF Stop, Ended, vars
    <3>3. ASSUME NEW room \in BOOLEAN, OnShutdown(room)
          PROVE  /\ UNCHANGED <<rx, server>> /\ conn' \notin {"new", "open"}
                 /\ tx' = tx \/ tx' = Append(tx, [op |-> "close", payload |-> <<>>])
      BY <3>3 DEF OnShutdown
    <3>4. ASSUME NEW room \in BOOLEAN, OnConnect(room)
          PROVE  /\ UNCHANGED <<rx, server>> /\ conn = "new" /\ conn' \in {"open", "error"}
                 /\ tx' = tx \/ tx' = Append(tx, [op |-> "upgrade", payload |-> <<>>])
      BY <2>3, <3>4 DEF OnConnect
    <3> QED
      BY <1>6, <3>1, <3>2, <3>3, <3>4
  <2> QED
    BY <1>5, <2>1, <2>2, <2>4, Zenon
<1> QED
  BY Zenon, <1>1, <1>3, <1>4, <1>6 DEF Next, Client

(* As long as the server keeps to the rules, the k-th PONG answers the k-th *)
(* PING: for every capacity of msg_buf and every way in which PINGs arrive  *)
(* between the fragments of messages.                                       *)
THEOREM PongsHold == Spec => []PongsInOrder
<1>1. Init => PingInv
  <2> SUFFICES ASSUME Init PROVE PingInv
    OBVIOUS
  <2>1. /\ tx = <<>> /\ pings = <<>> /\ rx = <<>>
    BY DEF Init
  <2>2. pings \in Seq(Seq(Nat)) /\ Len(pings) = 0 /\ DOMAIN pings = {} /\ DOMAIN tx = {} /\ DOMAIN rx = {}
        /\ Len(tx) = 0 /\ 1..0 = {} /\ 0 \in 0..0
    BY <2>1
  <2>3. Answering(tx, pings)
    BY <2>2, Zenon DEF Answering
  <2>4. Answered(tx) = 0
    <3>1. PongsUpTo(tx, Len(tx)) = {}
      BY <2>2, Zenon DEF PongsUpTo
    <3> QED
      BY <3>1, FS_EmptySet, Zenon DEF Answered
  <2>5. Matches(pings, rx, Parsed, Answered(tx))
    BY <2>2, <2>4, Zenon DEF Matches
  <2> QED
    BY <2>1, <2>2, <2>3, <2>5, Zenon DEF PingInv, PingPart
<1>2. PingInv => PongsInOrder
  BY Zenon DEF PingInv, PingPart, PongsInOrder, Answering
<1> QED
  BY <1>1, <1>2, PingStep, ReplayInvariance, SessionInvariance, PTL DEF Spec

=============================================================================
