------------------------------ MODULE Interest ------------------------------
(***************************************************************************)
(* The registration of one descriptor with the Net: subscribe() and clear() *)
(* of net::Epoll (net/epoll.hpp) and net::FStack (net/fstack.hpp) as the    *)
(* sequences of system calls they make, and what the kernel keeps for them. *)
(* Both register for edges: an event is delivered once, and a registration  *)
(* looks at the descriptor again.  The network may change what the          *)
(* descriptor is ready for between any two calls, so its readiness is a     *)
(* parameter (level) of the operators.                                      *)
(***************************************************************************)
EXTENDS Integers, Sequences

VARIABLES
  backend,  \* epoll or kqueue
  reg,      \* the events registered for; {} is no registration
  active,   \* raised and not delivered: {"any"} on epoll, filters on a kqueue
  todo,     \* the system calls the running subscribe() has still to make
  refused   \* has the kernel refused a registration? no, yes

interest == <<backend, reg, active, todo, refused>>

Bits == {"in", "out"}

InterestInit ==
  /\ backend \in {"epoll", "kqueue"}
  /\ reg = {} /\ active = {} /\ todo = <<>> /\ refused = "no"

Call(op, bits) == [op |-> op, bits |-> bits]

\* Faulty variant: a registration that is already there is not renewed.
SubscribeLazily(want) ==
  todo' = IF want = reg THEN <<>>
          ELSE IF backend = "epoll" THEN <<Call("mod", want)>>
          ELSE <<Call("delete", Bits \ want), Call("add", want)>>

\* subscribe(ptr, fd, want_read, want_write), up to its first call.  Epoll tries
\* MOD; FStack deletes the filters that are not wanted and adds the others.
Subscribe(want) ==
  todo' = IF backend = "epoll" THEN <<Call("mod", want)>>
          ELSE <<Call("delete", Bits \ want), Call("add", want)>>

\* What the kernel raises when it looks at a registration for bits.
Raised(bits, level) ==
  IF backend = "epoll"
  THEN IF level \cap (bits \cup {"err"}) = {} THEN {} ELSE {"any"}
  ELSE level \cap bits

Registered(bits, level) ==
  /\ reg' = bits /\ active' = Raised(bits, level) /\ UNCHANGED refused

\* EPOLL_CTL_MOD; ENOENT leads to ADD.
CtlMod(level) ==
  /\ todo # <<>> /\ Head(todo).op = "mod"
  /\ IF reg = {} THEN todo' = <<Call("ctl_add", Head(todo).bits)>>
                      /\ UNCHANGED <<reg, active, refused>>
     ELSE Registered(Head(todo).bits, level) /\ todo' = <<>>
  /\ UNCHANGED backend

\* EPOLL_CTL_ADD; its answer is not looked at.
CtlAdd(level) ==
  /\ todo # <<>> /\ Head(todo).op = "ctl_add"
  /\ \/ Registered(Head(todo).bits, level)
     \/ refused' = "yes" /\ UNCHANGED <<reg, active>>
  /\ todo' = <<>> /\ UNCHANGED backend

\* ff_kevent with EV_DELETE; a filter that is not there is not an error here.
KeventDelete ==
  /\ todo # <<>> /\ Head(todo).op = "delete"
  /\ reg' = reg \ Head(todo).bits /\ active' = active \ Head(todo).bits
  /\ todo' = Tail(todo) /\ UNCHANGED <<backend, refused>>

FiltersAdded(bits, level) ==
  reg' = reg \cup bits /\ active' = active \cup Raised(bits, level)

\* ff_kevent with EV_ADD | EV_ENABLE | EV_CLEAR: the changes are made in order
\* up to the first filter the kernel has no memory for.
KeventAdd(level) ==
  /\ todo # <<>> /\ Head(todo).op = "add"
  /\ LET bits == Head(todo).bits
     IN \/ FiltersAdded(bits, level) /\ UNCHANGED refused
        \/ "in" \in bits \ reg /\ FiltersAdded({}, level) /\ refused' = "yes"
        \/ /\ "out" \in bits \ reg /\ FiltersAdded(bits \ {"out"}, level)
           /\ refused' = "yes"
  /\ todo' = Tail(todo) /\ UNCHANGED backend

Ctl(level) == CtlMod(level) \/ CtlAdd(level) \/ KeventDelete \/ KeventAdd(level)

\* clear(): EPOLL_CTL_DEL, or two EV_DELETE of which the first one that finds
\* no filter ends the call.
ClearInterest ==
  /\ IF backend = "kqueue" /\ "in" \notin reg THEN UNCHANGED <<reg, active>>
     ELSE reg' = {} /\ active' = {}
  /\ UNCHANGED <<backend, todo, refused>>

\* close(): the kernel forgets what was registered.
CloseInterest ==
  /\ reg' = {} /\ active' = {} /\ refused' = "no"
  /\ UNCHANGED <<backend, todo>>

\* The descriptor becomes ready for bits.
Activate(bits) ==
  /\ active' = IF reg = {} THEN active ELSE active \cup Raised(reg, bits)
  /\ UNCHANGED <<backend, reg, todo, refused>>

\* poll(): an event e; on epoll all that the descriptor is ready for by now, on
\* a kqueue one filter with its end-of-file flag.
Polled(e, level) ==
  /\ IF backend = "epoll"
     THEN active # {} /\ e = level \cap (reg \cup {"err"}) /\ active' = {}
     ELSE \E f \in active \cap level :
            e = {f} \cup (level \cap {"err"}) /\ active' = active \ {f}
  /\ e # {}
  /\ UNCHANGED <<backend, reg, todo, refused>>

=============================================================================
