-------------------------------- MODULE Dial --------------------------------
(***************************************************************************)
(* net::dial (net/dial.hpp): tries the addresses of a host one by one and    *)
(* leaves at most one open descriptor behind.                                *)
(***************************************************************************)
EXTENDS Integers, FiniteSets

CONSTANTS
  MaxAddrs,  \* bound: addresses getaddrinfo returns
  Fds,       \* descriptors the kernel hands out
  Errors     \* errors of socket, ioctl and connect, EINPROGRESS excluded

ASSUME DialAssumption ==
  /\ MaxAddrs \in Nat /\ Fds \subseteq Nat
  /\ {"ok", "EINPROGRESS"} \cap Errors = {}

NoFd == -1

VARIABLES
  pc,      \* start, socket, ioctl, connect, next, done
  left,    \* addresses not tried yet, the current one included
  socket,  \* socketfd
  fd, err, \* result
  open     \* open descriptors

vars == <<pc, left, socket, fd, err, open>>

Init ==
  /\ pc = "start" /\ left = 0 /\ socket = NoFd
  /\ fd = NoFd /\ err = "ECONNREFUSED" /\ open = {}

\* getaddrinfo fails, or returns a list.
Resolve ==
  /\ pc = "start"
  /\ \/ err' = "EINVAL" /\ pc' = "done" /\ UNCHANGED left
     \/ left' \in 1..MaxAddrs /\ pc' = "socket" /\ UNCHANGED err
  /\ UNCHANGED <<socket, fd, open>>

Socket ==
  /\ pc = "socket" /\ left > 0
  /\ \/ \E s \in Fds \ open :
          socket' = s /\ open' = open \cup {s} /\ pc' = "ioctl" /\ UNCHANGED err
     \/ err' \in Errors /\ pc' = "next" /\ UNCHANGED <<socket, open>>
  /\ UNCHANGED <<left, fd>>

\* Faulty variant: the descriptor stays open when ioctl fails.
IoctlLeaks ==
  /\ pc = "ioctl"
  /\ \/ pc' = "connect" /\ UNCHANGED err
     \/ err' \in Errors /\ pc' = "next"
  /\ UNCHANGED <<left, socket, fd, open>>

\* ioctl(FIONBIO)
Ioctl ==
  /\ pc = "ioctl"
  /\ \/ pc' = "connect" /\ UNCHANGED <<err, open>>
     \/ err' \in Errors /\ open' = open \ {socket} /\ pc' = "next"
  /\ UNCHANGED <<left, socket, fd>>

\* Faulty variant: the error of an earlier address is kept.
ConnectKeepsError ==
  /\ pc = "connect"
  /\ \/ fd' = socket /\ pc' = "done" /\ UNCHANGED <<err, open>>
     \/ err' = "EINPROGRESS" /\ fd' = socket /\ pc' = "done" /\ UNCHANGED open
     \/ err' \in Errors /\ open' = open \ {socket} /\ pc' = "next" /\ UNCHANGED fd
  /\ UNCHANGED <<left, socket>>

\* connect(): at once, under way, or refused.
Connect ==
  /\ pc = "connect"
  /\ \/ err' = "ok" /\ fd' = socket /\ pc' = "done" /\ UNCHANGED open
     \/ err' = "EINPROGRESS" /\ fd' = socket /\ pc' = "done" /\ UNCHANGED open
     \/ err' \in Errors /\ open' = open \ {socket} /\ pc' = "next" /\ UNCHANGED fd
  /\ UNCHANGED <<left, socket>>

\* ai = ai->ai_next
NextAddress ==
  /\ pc = "next"
  /\ left' = left - 1 /\ pc' = IF left = 1 THEN "done" ELSE "socket"
  /\ UNCHANGED <<socket, fd, err, open>>

Returned == pc = "done" /\ UNCHANGED vars

Next == Resolve \/ Socket \/ Ioctl \/ Connect \/ NextAddress \/ Returned

Spec == Init /\ [][Next]_vars

-----------------------------------------------------------------------------
(* OneDescriptor: whichever calls fail for whichever addresses, dial() leaves *)
(* open exactly the descriptor it returns.  The caller, enter_uninitialized,  *)
(* owns it from there on and relies on there being no other.                  *)
OneDescriptor == pc = "done" => open = {fd} \ {NoFd}

(* ResultIsClear: the caller can tell the three outcomes apart by fd and err, *)
(* also when earlier addresses failed: a descriptor comes with success or     *)
(* EINPROGRESS, and no descriptor with a real error.                          *)
ResultIsClear ==
  pc = "done" => (fd # NoFd) = (err \in {"ok", "EINPROGRESS"})

=============================================================================
