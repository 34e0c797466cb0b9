----------------------------- MODULE WireFormat -----------------------------
(***************************************************************************)
(* The wire format of the WebSocket client as functions on sequences of     *)
(* bytes: parse_frame (protocol/websocket_frame.hpp), read_handshake and    *)
(* write_control_frame (websocket.cc), the reply to CLOSE (websocket.hpp)   *)
(* and base64_encode (utils/base64.hpp).  Indices are those of the code,    *)
(* from 0; a character of the base64 alphabet is its index, 64 the padding. *)
(***************************************************************************)
EXTENDS Integers, Sequences

Byte == 0..255
CR == 13
LF == 10
SP == 32

\* The sequences of ss, one behind the other
Flatten(ss) ==
  LET sums[i \in 0..Len(ss)] == IF i = 0 THEN <<>> ELSE sums[i - 1] \o ss[i]
  IN  sums[Len(ss)]

\* s[i] of the code, and the n bytes from i on
At(s, i) == s[i + 1]
Span(s, i, n) == SubSeq(s, i + 1, i + n)

-----------------------------------------------------------------------------
(* parse_frame *)

\* A length beyond any receive buffer
HUGE == 16777216

\* The eight bytes of the longest form, most significant first, as a number of
\* 64 bits in two's complement: -1 is 2^64 - 1.  HUGE stands for everything
\* between HUGE and 2^64 - HUGE.
Length64(s) ==
  LET low == (At(s, 5) * 256 + At(s, 6)) * 256 + At(s, 7) IN
  CASE \A i \in 0..4 : At(s, i) = 0 -> low
    [] \A i \in 0..4 : At(s, i) = 255 -> low - HUGE
    [] OTHER -> HUGE

\* hdr + len in 64 bits: it wraps when the length is close to 2^64.
Sum64(hdr, len) == IF hdr + len < 0 THEN HUGE ELSE hdr + len

NeedMore == [status |-> "need_more"]

\* Faulty variant: a frame that ends where the input ends is not complete.
FramedLate(s, hdr, len) ==
  IF Len(s) <= Sum64(hdr, len) THEN NeedMore
  ELSE IF len < 0 THEN [status |-> "beyond"]
  ELSE [status |-> "ok", op |-> At(s, 0) % 16, fin |-> At(s, 0) \div 128,
        payload |-> Span(s, hdr, len), consumed |-> hdr + len]

\* The frame at the front of s, whose header has hdr bytes.  Where the sum
\* wraps, parse_frame answers ok with a payload that reaches beyond the input,
\* which breaks the precondition of subspan.
Framed(s, hdr, len) ==
  IF Len(s) < Sum64(hdr, len) THEN NeedMore
  ELSE IF len < 0 THEN [status |-> "beyond"]
  ELSE [status |-> "ok", op |-> At(s, 0) % 16, fin |-> At(s, 0) \div 128,
        payload |-> Span(s, hdr, len), consumed |-> hdr + len]

\* Faulty variant: the header of the 16-bit form is taken to have two bytes.
UnmaskedShort(s) ==
  CASE At(s, 1) = 126 -> IF Len(s) < 4 THEN NeedMore
                         ELSE Framed(s, 2, At(s, 2) * 256 + At(s, 3))
    [] At(s, 1) = 127 -> IF Len(s) < 10 THEN NeedMore
                         ELSE Framed(s, 10, Length64(Span(s, 2, 8)))
    [] OTHER -> Framed(s, 2, At(s, 1))

\* A frame without reserved bits or mask: the three forms of its length.
Unmasked(s) ==
  CASE At(s, 1) = 126 -> IF Len(s) < 4 THEN NeedMore
                         ELSE Framed(s, 4, At(s, 2) * 256 + At(s, 3))
    [] At(s, 1) = 127 -> IF Len(s) < 10 THEN NeedMore
                         ELSE Framed(s, 10, Length64(Span(s, 2, 8)))
    [] OTHER -> Framed(s, 2, At(s, 1))

parse_frame(s) ==
  IF Len(s) < 2 THEN NeedMore
  ELSE IF (At(s, 0) \div 16) % 8 # 0 THEN [status |-> "bad_reserved"]
  ELSE IF At(s, 1) \div 128 # 0 THEN [status |-> "masked_server"]
  ELSE Unmasked(s)

-----------------------------------------------------------------------------
(* read_handshake *)

\* Faulty variant: anything between two line ends is skipped over.
AdvanceNeverResets(count, chr) ==
  CASE chr = CR -> count + (IF count % 2 = 0 THEN 1 ELSE 0)
    [] chr = LF -> count + (count % 2)
    [] OTHER -> count

\* advance_crlf_count: how much of CR LF CR LF has been seen
advance_crlf_count(count, chr) ==
  CASE chr = CR -> count + (IF count % 2 = 0 THEN 1 ELSE 0)
    [] chr = LF -> count + (count % 2)
    [] OTHER -> 0

\* The name of the header, colon included, cut down to three characters: the
\* code looks for a capital first letter, then compares without case.
AcceptName == <<83, 101, 58>>
Lower(c) == IF c \in 65..90 THEN c + 32 ELSE c

NameAt(s, i) ==
  /\ At(s, i) = AcceptName[1]
  /\ i + Len(AcceptName) < Len(s)
  /\ \A k \in 0..Len(AcceptName) - 1 : Lower(At(s, i + k)) = Lower(AcceptName[k + 1])

\* The first index from i on that holds none of the characters.  (Past the end
\* of a response that is not complete the code reads what the buffer holds from
\* before; the result is not used then.)
FirstNot(s, i, chars) ==
  CHOOSE j \in i..Len(s) :
    /\ j = Len(s) \/ At(s, j) \notin chars
    /\ \A k \in i..j - 1 : At(s, k) \in chars

\* crlf_counter after each of the bytes of s
crlf_counter(s) ==
  LET count[i \in 0..Len(s)] ==
        IF i = 0 THEN 0 ELSE advance_crlf_count(count[i - 1], At(s, i - 1))
  IN count

\* The first of a set of indices; 0 stands for none.
Least(S) == CHOOSE i \in S : \A j \in S : i <= j
First(S) == IF S = {} THEN 0 ELSE Least(S)

\* What the loop over the input finds before it ends, at the first CR LF CR LF:
\* the end of the response, the first space and the value of the header.
Scanned(s) ==
  LET count == crlf_counter(s)
      end == First({i \in 0..Len(s) : count[i] = 4})
      names == {i \in 0..end - 1 : count[i] = 2 /\ NameAt(s, i)}
  IN [end |-> end,
      sp  |-> First({i \in 1..end - 1 : At(s, i) = SP}),
      key |-> IF names = {} THEN 0
              ELSE FirstNot(s, Least(names) + Len(AcceptName), {SP})]

\* The bytes from i up to the end of the line
RestOfLine(s, i) == Span(s, i, FirstNot(s, i, Byte \ {CR, LF}) - i)

\* What is consumed, and the answer.  Without the header, the comparison is
\* with the status line.  "beyond" is an error before which subspan was called
\* for 28 bytes where fewer are left; what it returns is not used.  (The key
\* has 28 bytes, so that they are there when it is found.)
read_handshake(key, s) ==
  LET r == Scanned(s)
      Answer(status) == [status |-> status, consumed |-> r.end]
  IN CASE r.end = 0 -> Answer("ok")
       [] r.end # 0 /\ (r.sp = 0 \/ Len(s) <= r.sp + 3) -> Answer("error")
       [] OTHER -> IF Span(s, r.sp + 1, 3) # <<49, 48, 49>> THEN Answer("error")
                   ELSE IF RestOfLine(s, r.key) = key THEN Answer("ok")
                   ELSE Answer(IF Len(s) < r.key + 28 THEN "beyond" ELSE "error")

-----------------------------------------------------------------------------
(* Frames to the server. *)

\* Exclusive or of two bytes
BitOf(a, e) == (a \div 2^e) % 2
Xor(a, b) ==
  LET d(e) == 2^e * ((BitOf(a, e) + BitOf(b, e)) % 2)
  IN  d(0) + d(1) + d(2) + d(3) + d(4) + d(5) + d(6) + d(7)

Masked(payload, mask) ==
  [i \in 1..Len(payload) |-> Xor(mask[((i - 1) % 4) + 1], payload[i])]

\* Faulty variant: the mask starts anew one byte too late.
WriteControlShifted(room, op, payload, mask) ==
  IF room < 6 + Len(payload) \/ 125 < Len(payload) THEN <<>>
  ELSE <<128 + op, 128 + Len(payload)>> \o mask
       \o [i \in 1..Len(payload) |-> Xor(mask[(i % 4) + 1], payload[i])]

\* The bytes written into room; none if they do not fit.
write_control_frame(room, op, payload, mask) ==
  IF room < 6 + Len(payload) \/ 125 < Len(payload) THEN <<>>
  ELSE <<128 + op, 128 + Len(payload)>> \o mask \o Masked(payload, mask)

\* handle_frame, the reply to CLOSE: the code of the peer or 1000
CloseReply(room, payload) ==
  LET code == IF Len(payload) >= 2 THEN SubSeq(payload, 1, 2) ELSE <<3, 232>>
      mask == <<222, 173, 190, 239>>
  IN IF room < 8 THEN <<>> ELSE <<136, 130>> \o mask \o Masked(code, mask)

-----------------------------------------------------------------------------
(* base64_encode *)

Sextets(a, b, c) ==
  <<a \div 4, (a % 4) * 16 + b \div 16, (b % 16) * 4 + c \div 64, c % 64>>

\* Faulty variant: the last group of one byte is padded like one of two.
EncodeOnePad(s) ==
  LET full == 3 * (Len(s) \div 3)
      rest == SubSeq(s, full + 1, Len(s))
  IN Flatten([g \in 1..Len(s) \div 3 |->
                Sextets(s[3 * g - 2], s[3 * g - 1], s[3 * g])])
     \o IF rest = <<>> THEN <<>>
        ELSE SubSeq(Sextets(rest[1], rest[Len(rest)], 0), 1, 3) \o <<64>>

base64_encode(s) ==
  LET full == 3 * (Len(s) \div 3)
      rest == SubSeq(s, full + 1, Len(s))
  IN Flatten([g \in 1..Len(s) \div 3 |->
                Sextets(s[3 * g - 2], s[3 * g - 1], s[3 * g])])
     \o CASE Len(rest) = 0 -> <<>>
          [] Len(rest) = 1 -> SubSeq(Sextets(rest[1], 0, 0), 1, 2) \o <<64, 64>>
          [] Len(rest) = 2 -> SubSeq(Sextets(rest[1], rest[2], 0), 1, 3) \o <<64>>

=============================================================================
