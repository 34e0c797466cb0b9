------------------------------- MODULE Buffer -------------------------------
(***************************************************************************)
(* The cursors of Buffer<CAP> (reactor/buffer.hpp) and the Input / Output  *)
(* views on it (reactor/io.hpp).  A buffer is a pair of cursors into an    *)
(* array of cap bytes; the bytes themselves are modelled by BufferQueue.   *)
(* Writing never moves data to the front: room comes back only when the    *)
(* reader has taken everything.                                            *)
(***************************************************************************)
EXTENDS Integers

\* The buffers of capacity cap that inc_rpos and inc_wpos can produce.
Buffers(cap) ==
  {b \in [rpos : 0..cap, wpos : 0..cap] : b.rpos <= b.wpos}

\* A new buffer, and a buffer after clear().
Cleared == [rpos |-> 0, wpos |-> 0]

\* rbuf().size(): the bytes written and not yet read.
Unread(b) == b.wpos - b.rpos

\* Faulty variant: one byte too many.
RoomOffByOne(b, cap) == cap - b.wpos + 1

\* wbuf().size(): the bytes that still fit behind the write cursor.
Room(b, cap) == cap - b.wpos

\* full(): the write cursor is at the end, however much has been read.
Full(b, cap) == cap = b.wpos

\* inc_wpos(len), through Output::wrote.
Wrote(b, len) == [b EXCEPT !.wpos = @ + len]

\* Faulty variant: only the read cursor goes back.
TookResets(b, len) ==
  IF b.rpos + len = b.wpos THEN [b EXCEPT !.rpos = 0] ELSE [b EXCEPT !.rpos = @ + len]

\* inc_rpos(len), through Input::read: both cursors go back to the front
\* when the reader catches up with the writer.
Took(b, len) ==
  IF b.rpos + len = b.wpos THEN Cleared ELSE [b EXCEPT !.rpos = @ + len]

=============================================================================
