------------------------------- MODULE MCWire -------------------------------
(* An instance of Wire for TLC. *)
EXTENDS Wire

MCNonces == {[i \in 1..16 |-> (a * i + b) % 256] : a \in {0, 37}, b \in {0, 255}}
MCMasks == {<<0, 255, 1, 128>>}
MCRooms == {5, 7, 8, 131}
MCCloseCodes == {<<3, 232>>, <<3, 241>>}

Ok == <<49, 48, 49>>
Se(c) == <<83, c, 58>>

Response(c, v) == [code |-> c, others |-> <<>>, name |-> Se(101), value |-> v]

\* Wrong codes, wrong keys, no key; a header that starts like the one looked
\* for, other case and spaces; the name in lower case
MCResponses ==
  {Response(c, v) : c \in {Ok, <<52, 48, 48>>}, v \in {"own", "other", "none", "short"}}
  \cup {[code |-> Ok \o <<SP, 83>>, others |-> <<<<83, 101, 120, 58, 49>>>>,
         name |-> n \o <<SP, SP>>, value |-> "own"] : n \in {Se(69), <<115, 101, 58>>}}

Sized(op, fin, form, size, n) ==
  [op |-> op, fin |-> fin, form |-> form, size |-> size,
   payload |-> [i \in 1..n |-> (50 * i) % 256]]
Zero == [i \in 1..8 |-> 0]
Frame(op, fin, form, n) == Sized(op, fin, form, Zero, n)

\* 2^64 - 256 + n, and 2^63 + 2^40 - 1
Below64(n) == <<255, 255, 255, 255, 255, 255, 255, n>>
TopBit63 == <<128, 0, 0, 255, 255, 255, 255, 255>>

\* The three forms, at their boundaries and longer than needed; fragments with
\* a PING between; CLOSE with and without a code; control frames of any size;
\* lengths that nothing has, on both sides of the one where the sum wraps.
MCStreams ==
  {<<Frame(1, 1, 7, 2), Frame(2, 1, 16, 1), Frame(1, 1, 64, 0)>>,
   <<Frame(2, 0, 7, 1), Frame(9, 1, 7, 5), Frame(0, 1, 7, 2), Frame(8, 1, 7, 2)>>,
   <<Frame(9, 1, 7, 125)>>, <<Frame(9, 1, 16, 126)>>,
   <<Frame(2, 1, 64, 127), Frame(8, 1, 7, 0)>>,
   <<Frame(1, 1, 7, 0), [Frame(1, 1, 7, 1) EXCEPT !.op = 17]>>,
   <<[Frame(1, 1, 7, 1) EXCEPT !.op = 17]>>}
  \cup {<<Frame(1, 1, 7, 0), Sized(2, 1, 0, size, 3)>> :
          size \in {Below64(245), Below64(246), Below64(255), TopBit63}}

\* Every response before one stream, every stream and every nonce after one
\* response
MCScenarios ==
  LET A == CHOOSE n \in MCNonces : TRUE
      B == Response(Ok, "own")
      C == <<Frame(1, 1, 7, 2)>>
  IN [nonce : {A}, response : MCResponses, frames : {C}]
     \cup [nonce : {A}, response : {B}, frames : MCStreams]
     \cup [nonce : MCNonces, response : {B}, frames : {C}]

=============================================================================
