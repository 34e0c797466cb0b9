--------------------------- MODULE ReactorProofs ---------------------------
(***************************************************************************)
(* The reactor stops cleanly, gives no event of an earlier life to a        *)
(* connection, and keeps ReactorContract, for every number of connections,  *)
(* heartbeat period, number of restarts and number of signals.              *)
(***************************************************************************)
EXTENDS Reactor, FiniteSetTheorems, SequenceTheorems, TLAPS

-----------------------------------------------------------------------------
(* Stopping.                                                               *)

\* The places in loop(), where every connection has been attached.
Looping == {"poll", "batch", "beat", "returned", "crashed"}

\* init() attaches the connections in order; Net::stop() comes when poll()
\* failed or when all is done; and what stopping promises.
PhaseInv ==
  /\ phase \in [Conns -> C!Phases] /\ pc \in Looping \cup {"init", "thrown"}
  /\ net \in {"none", "up", "down"} /\ stopping \in {"no", "yes"} /\ next \in Nat
  /\ pc = "init" =>
       /\ stopping = "no" /\ net # "down" /\ next <= N /\ (net = "up" => next > 0)
       /\ \A c \in Conns : c < next => phase[c] # "none"
  /\ pc \in Looping => net # "none" /\ \A c \in Conns : phase[c] # "none"
  /\ NoRevival /\ (pc = "returned" => net = "down")
  /\ pc \in Looping /\ net = "down" /\ failed = "no" =>
       stopping = "yes" /\ \A c \in Conns : Done(c)

(* Every step of the reactor and of the caller of signal() preserves it.    *)
LEMMA PhaseStep == PhaseInv /\ [Next]_vars => PhaseInv'
<1> SUFFICES ASSUME PhaseInv, [Next]_vars PROVE PhaseInv'
  OBVIOUS
<1> USE ReactorAssumption DEF PhaseInv, Looping, NoRevival, Done, Conns, C!Phases,
        C!DonePhases
<1>1. CASE NetInit \/ NetInitFails \/ InitThrows
  BY <1>1 DEF NetInit, NetInitFails, InitThrows, NetStop
<1>2. CASE InitConnection
  BY <1>2 DEF InitConnection, C!AfterDial
<1>3. CASE Poll \/ PollFails
  BY <1>3 DEF Poll, PollFails, NetStop
<1>4. CASE HandleSignal
  BY <1>4 DEF HandleSignal, EndOfEvent, AllDone, C!AfterStop
<1>5. CASE MistakeSignal \/ DropEvent
  BY <1>5 DEF MistakeSignal, DropEvent, EndOfEvent, AllDone
<1>6. ASSUME NEW c \in Conns, NEW p \in C!Phases, HandleEvent(c, p) PROVE PhaseInv'
  <2>1. CASE Restarts(p)
    BY <1>6, <2>1 DEF HandleEvent, Restarts, EndOfEvent, AllDone, C!AfterDial
  <2>2. CASE ~Restarts(p)
    BY <1>6, <2>2 DEF HandleEvent, EndOfEvent, AllDone, C!AfterEvent
  <2> QED
    BY <2>1, <2>2
<1>7. CASE Beat
  BY <1>7 DEF Beat, C!AfterHeartbeat
<1>8. CASE \/ SignalTests \/ SignalWrites \/ Ended \/ UNCHANGED vars
           \/ \E c \in Conns, k \in Kinds : Raise(c, k)
  BY <1>8 DEF SignalTests, SignalWrites, Ended, Raise, vars
<1> QED
  BY <1>1, <1>2, <1>3, <1>4, <1>5, <1>6, <1>7, <1>8 DEF Next, Thread

(* It holds in every reachable state, on both backends.                    *)
THEOREM PhaseInvariance == Spec => []PhaseInv
<1>1. Init => PhaseInv
  BY ReactorAssumption DEF Init, PhaseInv, NoRevival, Looping, Conns, C!Phases
<1> QED
  BY <1>1, PhaseStep, PTL DEF Spec

(* Once the reactor is stopping, no connection is open.                    *)
THEOREM NothingIsRevived == Spec => []NoRevival
<1>1. PhaseInv => NoRevival
  BY DEF PhaseInv
<1> QED
  BY <1>1, PhaseInvariance, PTL

(* Unless poll() failed, run() returns only after a signal, with every     *)
(* connection done.                                                        *)
THEOREM ReturnIsClean == Spec => []CleanReturn
<1>1. PhaseInv => CleanReturn
  BY DEF PhaseInv, CleanReturn, Looping
<1> QED
  BY <1>1, PhaseInvariance, PTL

-----------------------------------------------------------------------------
(* Events on epoll, which reports a descriptor once.                       *)

ConnEvents == [conn : Conns, kind : {"any"}, gen : Nat]

\* The event was raised for the current incarnation.
Current(e) == e.gen = gen[e.conn]

\* The backend holds at most one event per connection, a batch has at most one,
\* and both belong to the connection's current incarnation.
EventInv ==
  /\ gen \in [Conns -> Nat]
  /\ ready \subseteq ConnEvents /\ IsFiniteSet(ready) /\ \A e \in ready : Current(e)
  /\ events \in Seq(ConnEvents \cup {SignalEvent})
  /\ \A i \in 1..Len(events) : events[i] # SignalEvent => Current(events[i])
  /\ \A i, j \in 1..Len(events) : i # j => events[i].conn # events[j].conn
  /\ pc = "batch" => events # <<>>

(* What is left of a batch when its first event has been handled.          *)
LEMMA RestOfBatch ==
  ASSUME EventInv, pc = "batch", events' = Tail(events), gen' \in [Conns -> Nat],
         pc' = IF Len(events) = 1 THEN "beat" ELSE "batch",
         \A c \in Conns : c # Head(events).conn => gen'[c] = gen[c]
  PROVE  /\ events' \in Seq(ConnEvents \cup {SignalEvent})
         /\ Len(events) \in Nat \ {0} /\ Len(events') = Len(events) - 1
         /\ \A i \in 1..Len(events') :
              /\ i + 1 \in 1..Len(events) /\ events'[i] = events[i + 1]
              /\ events'[i].conn # Head(events).conn
              /\ events'[i] # SignalEvent => Current(events[i])'
         /\ \A i, j \in 1..Len(events') : i # j => events'[i].conn # events'[j].conn
         /\ pc' = "batch" => events' # <<>>
<1>1. /\ events \in Seq(ConnEvents \cup {SignalEvent}) /\ events # <<>>
      /\ Len(events) \in Nat \ {0}
  BY EmptySeq DEF EventInv
<1>2. /\ events' \in Seq(ConnEvents \cup {SignalEvent})
      /\ Len(events') = Len(events) - 1
      /\ \A i \in 1..Len(events') : events'[i] = events[i + 1]
  BY <1>1, HeadTailProperties
<1>3. ASSUME NEW i \in 1..Len(events')
      PROVE  /\ i + 1 \in 1..Len(events) /\ events'[i] = events[i + 1]
             /\ events'[i].conn # Head(events).conn
             /\ events'[i] # SignalEvent => Current(events[i])'
  <2>1. i + 1 \in 1..Len(events) /\ 1 \in 1..Len(events) /\ i + 1 # 1
    BY <1>1, <1>2
  <2>2. events'[i] = events[i + 1] /\ Head(events) = events[1]
    BY <1>1, <1>2
  <2>3. events[i + 1].conn # events[1].conn
    BY <2>1 DEF EventInv
  <2>4. events'[i] # SignalEvent => events'[i] \in ConnEvents
    BY <1>2, ElementOfSeq
  <2>5. events'[i] # SignalEvent => Current(events[i])'
    BY <2>1, <2>2, <2>3, <2>4 DEF EventInv, Current, ConnEvents
  <2> QED
    BY <2>1, <2>2, <2>3, <2>5
<1>4. ASSUME NEW i \in 1..Len(events'), NEW j \in 1..Len(events'), i # j
      PROVE  events'[i].conn # events'[j].conn
  <2>1. i + 1 \in 1..Len(events) /\ j + 1 \in 1..Len(events) /\ i + 1 # j + 1
    BY <1>1, <1>2, <1>4
  <2> QED
    BY <1>2, <2>1 DEF EventInv
<1>5. pc' = "batch" => events' # <<>>
  BY <1>1, <1>2, SMTT(40)
<1> QED
  BY <1>1, <1>2, <1>3, <1>4, <1>5, Zenon

(* A batch poll() returns: each event once, so each connection once.       *)
LEMMA PollEvents ==
  ASSUME EventInv, Poll
  PROVE  EventInv'
<1>1. PICK s \in SUBSET Deliverable :
        /\ events' \in SetToSeqs(s) /\ ready' = ready \ s
        /\ pc' = IF s = {} THEN "beat" ELSE "batch"
  BY DEF Poll
<1>2. gen' = gen
  BY DEF Poll
<1>3. IsFiniteSet(s) /\ Cardinality(s) \in Nat /\ (Cardinality(s) = 0 <=> s = {})
  <2>1. IsFiniteSet(ready \cup {SignalEvent})
    BY FS_AddElement DEF EventInv
  <2>2. s \subseteq ready \cup {SignalEvent}
    BY DEF Deliverable
  <2> QED
    BY <2>1, <2>2, FS_Subset, FS_EmptySet, FS_CardinalityType
<1>4. /\ events' \in [1..Cardinality(s) -> s]
      /\ \A i, j \in 1..Cardinality(s) : i # j => events'[i] # events'[j]
  BY <1>1 DEF SetToSeqs
<1>5. events' \in Seq(s) /\ Len(events') = Cardinality(s)
  BY <1>3, <1>4
<1>6. s \subseteq ConnEvents \cup {SignalEvent}
  BY DEF Deliverable, EventInv
<1>7. events' \in Seq(ConnEvents \cup {SignalEvent})
  BY <1>5, <1>6, SeqMonotonic
<1>8. \A e \in s : e # SignalEvent => e \in ready
  BY DEF Deliverable
<1>9. ASSUME NEW e \in s, NEW f \in s, e # f PROVE e.conn # f.conn
  <2>1. ASSUME NEW g \in ready PROVE g.conn # SignalEvent.conn
    BY <2>1, ReactorAssumption DEF EventInv, ConnEvents, SignalEvent, Conns
  <2>2. CASE e \in ready /\ f \in ready
    <3>1. /\ e = [conn |-> e.conn, kind |-> "any", gen |-> gen[e.conn]]
          /\ f = [conn |-> f.conn, kind |-> "any", gen |-> gen[f.conn]]
      BY <2>2 DEF EventInv, ConnEvents, Current
    <3> QED
      BY <1>9, <3>1, Zenon
  <2> QED
    BY <1>8, <1>9, <2>1, <2>2
<1>10. \A i \in 1..Len(events') : events'[i] \in s
  BY <1>4, <1>5
<1>11. \A i \in 1..Len(events') : events'[i] # SignalEvent => Current(events[i])'
  BY <1>2, <1>8, <1>10 DEF EventInv, Current
<1>12. \A i, j \in 1..Len(events') : i # j => events'[i].conn # events'[j].conn
  BY <1>4, <1>5, <1>9, <1>10
<1>13. pc' = "batch" => events' # <<>>
  BY <1>1, <1>3, <1>5, EmptySeq
<1>14. /\ ready' \subseteq ConnEvents /\ IsFiniteSet(ready')
       /\ \A e \in ready' : Current(e)'
  BY <1>1, <1>2, FS_Subset DEF EventInv, Current
<1> QED
  BY <1>2, <1>7, <1>11, <1>12, <1>13, <1>14 DEF EventInv

(* Every step preserves the invariant on epoll.                            *)
LEMMA EventStep ==
  ASSUME Backend = "epoll", EventInv, [Next]_vars
  PROVE  EventInv'
<1>1. ASSUME UNCHANGED <<gen, ready, events>>, pc' = "batch" => pc = "batch"
      PROVE  EventInv'
  BY <1>1 DEF EventInv, Current
<1>2. ASSUME NEW s \in SUBSET ready, ready' = s, gen' = gen
      PROVE  ready' \subseteq ConnEvents /\ IsFiniteSet(ready') /\ \A e \in ready' : Current(e)'
  BY <1>2, FS_Subset DEF EventInv, Current
<1>3. CASE \/ NetInit \/ NetInitFails \/ InitConnection \/ InitThrows \/ PollFails
           \/ MistakeSignal \/ SignalTests \/ SignalWrites \/ Ended \/ UNCHANGED vars
  BY <1>1, <1>3 DEF NetInit, NetInitFails, InitConnection, InitThrows, PollFails,
     MistakeSignal, SignalTests, SignalWrites, Ended, vars
<1>4. CASE Poll
  BY <1>4, PollEvents
<1>5. ASSUME NEW c \in Conns, NEW k \in Kinds, Raise(c, k) PROVE EventInv'
  <2>1. k = "any"
    BY DEF Kinds
  <2>2. EventOf(c, k) \in ConnEvents /\ Current(EventOf(c, k))
    BY <2>1 DEF EventOf, ConnEvents, Current, EventInv
  <2>3. ready' = ready \cup {EventOf(c, k)} /\ UNCHANGED <<gen, events, pc>>
    BY <1>5 DEF Raise
  <2>4. IsFiniteSet(ready')
    BY <2>3, FS_AddElement DEF EventInv
  <2> QED
    BY <2>2, <2>3, <2>4 DEF EventInv, Current
<1>6. CASE HandleSignal \/ DropEvent
  <2>1. /\ pc = "batch" /\ events' = Tail(events) /\ gen' = gen /\ ready' \subseteq ready
        /\ pc' = IF Len(events) = 1 THEN "beat" ELSE "batch"
    BY <1>6 DEF HandleSignal, DropEvent, EndOfEvent
  <2>2. /\ gen' \in [Conns -> Nat]
        /\ \A c \in Conns : c # Head(events).conn => gen'[c] = gen[c]
    BY <2>1 DEF EventInv
  <2> QED
    BY <1>2, <2>1, <2>2, RestOfBatch DEF EventInv
<1>7. ASSUME NEW c \in Conns, NEW p \in C!Phases, HandleEvent(c, p) PROVE EventInv'
  <2>1. /\ pc = "batch" /\ events' = Tail(events) /\ Head(events).conn = c
        /\ pc' = IF Len(events) = 1 THEN "beat" ELSE "batch"
    BY <1>7 DEF HandleEvent, EndOfEvent
  <2>2. /\ gen' \in [Conns -> Nat] /\ \A d \in Conns : d # c => gen'[d] = gen[d]
        /\ gen' # gen => ready' = Cleared(c)
        /\ ready' \subseteq ready
    BY <1>7 DEF HandleEvent, EventInv, Restarts, C!DonePhases, Cleared
  <2>3. \A e \in ready' : Current(e)'
    BY <2>2 DEF EventInv, Current, Cleared, ConnEvents
  <2>4. IsFiniteSet(ready') /\ ready' \subseteq ConnEvents
    BY <2>2, FS_Subset DEF EventInv
  <2> QED
    BY <2>1, <2>2, <2>3, <2>4, RestOfBatch DEF EventInv
<1>8. CASE Beat
  <2>1. ready' \subseteq ready /\ UNCHANGED <<gen, events>> /\ pc' # "batch"
    BY <1>8 DEF Beat
  <2> QED
    BY <1>2, <2>1 DEF EventInv, Current
<1> QED
  BY <1>3, <1>4, <1>5, <1>6, <1>7, <1>8 DEF Next, Thread

(* On epoll no event reaches a later incarnation of its connection, however *)
(* many restarts a batch brings.                                            *)
THEOREM EventsAreFresh ==
  ASSUME Backend = "epoll"
  PROVE  Spec => []FreshEvents
<1>1. Init => EventInv
  BY FS_EmptySet DEF Init, EventInv
<1>2. EventInv /\ [Next]_vars => EventInv'
  BY EventStep
<1>3. EventInv => FreshEvents
  <2> SUFFICES ASSUME EventInv, pc = "batch", Head(events) # SignalEvent
               PROVE  Head(events).gen = gen[Head(events).conn]
    BY DEF FreshEvents
  <2>1. 1 \in 1..Len(events) /\ Head(events) = events[1]
    BY EmptySeq DEF EventInv
  <2> QED
    BY <2>1 DEF EventInv, Current
<1> QED
  BY <1>1, <1>2, <1>3, PTL DEF Spec


-----------------------------------------------------------------------------
(* run() and signal(), as the program around them sees them.                *)

\* A kill event is still in the batch.
HasSignal(s) == \E i \in 1..Len(s) : s[i] = SignalEvent

\* The eventfd exists while the backend is up; one call of signal() accounts for
\* the stopping flag and another one for a kill event that is still under way.
SignalInv ==
  /\ sigfd \in {"none", "quiet", "raised"} /\ calls \in Nat
  /\ pc = "init" => ~HasSignal(events) /\ (net = "none" => sigfd = "none")
  /\ net = "up" /\ pc # "thrown" => sigfd # "none"
  /\ net = "down" => sigfd = "none"
  /\ pc \in {"poll", "batch", "beat"} => net # "none"
  /\ pc \in {"poll", "batch"} /\ net = "down" => stopping = "yes" /\ pc = "batch"
  /\ pc \in {"returned", "crashed"} => net = "down"
  /\ HasSignal(events) => sigfd \in {"none", "raised"}
  /\ stopping = "yes" => calls > 0
  /\ sigfd = "raised" \/ HasSignal(events) =>
       calls > 0 /\ (stopping = "yes" => calls > 1)

(* Removing the first event of a batch removes the only kill event, if that *)
(* is what it was.                                                          *)
LEMMA SignalIsOnce ==
  ASSUME EventInv, pc = "batch"
  PROVE  /\ HasSignal(Tail(events)) => HasSignal(events) /\ Head(events) # SignalEvent
         /\ Head(events) = SignalEvent => HasSignal(events)
<1>1. /\ events \in Seq(ConnEvents \cup {SignalEvent}) /\ events # <<>>
      /\ Len(events) \in Nat \ {0} /\ Head(events) = events[1]
  BY EmptySeq DEF EventInv
<1>2. /\ Len(Tail(events)) = Len(events) - 1
      /\ \A i \in 1..Len(Tail(events)) : Tail(events)[i] = events[i + 1]
  BY <1>1, HeadTailProperties
<1>3. ASSUME NEW i \in 1..Len(Tail(events)), Tail(events)[i] = SignalEvent
      PROVE  HasSignal(events) /\ Head(events) # SignalEvent
  <2>1. /\ i + 1 \in 1..Len(events) /\ 1 \in 1..Len(events) /\ i + 1 # 1
        /\ events[i + 1] = SignalEvent
    BY <1>1, <1>2, <1>3
  <2>2. events[i + 1].conn # events[1].conn
    BY <2>1 DEF EventInv
  <2> QED
    BY <1>1, <2>1, <2>2 DEF HasSignal
<1> QED
  BY <1>1, <1>3 DEF HasSignal

(* The kill event poll() delivers was raised.                              *)
LEMMA PollSignal ==
  ASSUME Poll, HasSignal(events'), EventInv, EventInv'
  PROVE  sigfd = "raised"
<1>1. PICK s \in SUBSET Deliverable : events' \in SetToSeqs(s)
  BY DEF Poll
<1>2. PICK i \in 1..Len(events') : events'[i] = SignalEvent
  BY DEF HasSignal
<1>3. events' \in [1..Cardinality(s) -> s]
  BY <1>1 DEF SetToSeqs
<1>4. i \in DOMAIN events'
  BY <1>2, LenProperties DEF EventInv
<1>5. SignalEvent \in s
  BY <1>2, <1>3, <1>4
<1>6. SignalEvent \notin ready
  BY ReactorAssumption, SMTT(40) DEF EventInv, ConnEvents, SignalEvent, Conns
<1> QED
  BY <1>5, <1>6 DEF Deliverable

(* Every step preserves the account of signals, and is a step of the       *)
(* contract or changes nothing it speaks of.                               *)
LEMMA SignalStep ==
  ASSUME Backend = "epoll", PhaseInv, EventInv, EventInv', SignalInv, [Next]_vars
  PROVE  SignalInv' /\ [R!Next]_(R!vars)
<1> USE DEF SignalInv, RunOf, R!vars
<1>1. CASE NetInit
  BY <1>1 DEF NetInit, PhaseInv, R!Next, R!Start
<1>2. CASE NetInitFails
  BY <1>2 DEF NetInitFails, R!Next, R!Throws
<1>3. CASE InitConnection
  BY <1>3 DEF InitConnection
<1>4. CASE InitThrows
  BY <1>4 DEF InitThrows, NetStop, R!Next, R!Throws
<1>5. CASE Poll
  BY <1>5, PollSignal DEF Poll
<1>6. CASE PollFails
  BY <1>6 DEF PollFails, NetStop, R!Next, R!Stops
<1>7. CASE HandleSignal
  <2>1. HasSignal(events) /\ ~HasSignal(events')
    BY <1>7, SignalIsOnce DEF HandleSignal, EndOfEvent
  <2> QED
    BY <1>7, <2>1 DEF HandleSignal, EndOfEvent, Drained, PhaseInv, R!Next, R!Stops
<1>8. CASE MistakeSignal
  BY <1>8, SignalIsOnce DEF MistakeSignal, PhaseInv, R!Next, R!Crashes
<1>9. CASE DropEvent \/ \E c \in Conns, p \in C!Phases : HandleEvent(c, p)
  <2>1. HasSignal(events') => HasSignal(events)
    BY <1>9, SignalIsOnce, Zenon DEF DropEvent, HandleEvent, EndOfEvent
  <2>2. /\ pc = "batch" /\ pc' \in {"beat", "batch"}
        /\ net' \in {net, "down"} /\ (net' # net => stopping = "yes")
        /\ sigfd' = IF net' = "down" THEN "none" ELSE sigfd
        /\ UNCHANGED <<stopping, caller, calls>>
    BY <1>9 DEF DropEvent, HandleEvent, EndOfEvent
  <2> QED
    BY <2>1, <2>2 DEF PhaseInv, R!Next, R!Stops
<1>10. CASE Beat
  BY <1>10 DEF Beat, R!Next, R!Returns
<1>11. CASE SignalTests
  BY <1>11 DEF SignalTests, PhaseInv, Looping, R!Next, R!SignalTests, R!SignalIsLost
<1>12. CASE SignalWrites
  BY <1>12 DEF SignalWrites, PhaseInv, Looping, R!Next, R!SignalWrites
<1>13. CASE \/ Ended \/ UNCHANGED vars
            \/ \E c \in Conns, k \in Kinds : Raise(c, k)
  BY <1>13 DEF Ended, Raise, vars
<1> QED
  BY <1>1, <1>2, <1>3, <1>4, <1>5, <1>6, <1>7, <1>8, <1>9, <1>10, <1>11, <1>12,
     <1>13, ZenonT(40) DEF Next, Thread

(* On epoll the reactor implements the contract the example relies on.     *)
THEOREM KeepsReactorContract ==
  ASSUME Backend = "epoll"
  PROVE  Spec => ImplementsReactorContract
<1>1. Init => EventInv /\ SignalInv /\ R!Init
  <2>1. Init => EventInv
    BY FS_EmptySet DEF Init, EventInv
  <2>2. Init => SignalInv /\ R!Init
    BY DEF Init, SignalInv, HasSignal, RunOf, R!Init
  <2> QED
    BY <2>1, <2>2
<1>2. EventInv /\ [Next]_vars => EventInv'
  BY EventStep
<1>3. PhaseInv /\ EventInv /\ EventInv' /\ SignalInv /\ [Next]_vars
        => SignalInv' /\ [R!Next]_(R!vars)
  BY SignalStep
<1> QED
  BY <1>1, <1>2, <1>3, PhaseInvariance, PTL DEF Spec, ImplementsReactorContract, R!Spec


=============================================================================
