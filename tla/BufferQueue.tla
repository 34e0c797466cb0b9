----------------------------- MODULE BufferQueue -----------------------------
(***************************************************************************)
(* Buffer<CAP> with its bytes: a writer fills wbuf() and calls wrote(), a    *)
(* reader looks at rbuf() and calls read(), and the owner calls clear().     *)
(***************************************************************************)
EXTENDS Buffer, Sequences

CONSTANTS CAP, Bytes

ASSUME QueueAssumption == CAP \in Nat \ {0} /\ 0 \in Bytes

VARIABLES
  buf,   \* _buf, from index 1
  pos    \* _rpos and _wpos

vars == <<buf, pos>>

Init == buf = [i \in 1..CAP |-> 0] /\ pos = Cleared

\* The bytes s are put into the front of wbuf(), then wrote(Len(s)).
WriteBytes(s) ==
  /\ buf' = [i \in 1..CAP |-> IF i \in pos.wpos + 1..pos.wpos + Len(s)
                              THEN s[i - pos.wpos] ELSE buf[i]]
  /\ pos' = Wrote(pos, Len(s))

\* read(n) of bytes of rbuf().
ReadBytes(n) == pos' = Took(pos, n) /\ UNCHANGED buf

\* clear()
Clear == pos' = Cleared /\ UNCHANGED buf

Next ==
  \/ \E n \in 1..Room(pos, CAP) : \E s \in [1..n -> Bytes] : WriteBytes(s)
  \/ \E n \in 0..Unread(pos) : ReadBytes(n)
  \/ Clear

Spec == Init /\ [][Next]_vars

-----------------------------------------------------------------------------
(* rbuf() *)
Content == SubSeq(buf, pos.rpos + 1, pos.wpos)

Queue == INSTANCE ByteQueue WITH queue <- Content

(* IsAQueue: what the reader sees in rbuf() is a first-in first-out queue of   *)
(* the bytes written: the reset of both cursors, and writes behind bytes that  *)
(* are still unread, neither lose, repeat nor reorder any.                     *)
IsAQueue == Queue!Spec

=============================================================================
