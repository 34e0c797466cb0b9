-------------------------- MODULE ConnectionProofs --------------------------
(***************************************************************************)
(* The safety of Connection for every choice of features, statuses, buffer *)
(* capacities and descriptors, and that it implements its contract.        *)
(***************************************************************************)
EXTENDS ConnectionRefines, TLAPS

\* The states a read loop runs in, and those a session handler runs in.
Reading == {"protocol", "close_protocol", "drain_protocol"}
Talking == {"protocol", "close_protocol"}

\* The places transport_write is called from.
Callers == {"idle", "steps", "bottom", "bound", "closing", "flushed", "shut",
            "drained"}

\* A write called from `place` is running or has just returned.
Writing(place) == pc = place \/ (pc = "write" /\ wret = place)

\* What is known of the state at each place in the code.
PlaceInv ==
  /\ cookie = "unset" =>
       state = "uninitialized" /\ pc \in {"idle", "gone"} /\ fd = NoFd
  /\ state = "uninitialized" => cookie = "unset" \/ pc = "connected"
  /\ state = "in_progress" =>
       pc \in {"idle", "gone", "steps", "step", "bottom", "connected"}
  /\ pc = "connected" => state \in {"uninitialized", "in_progress"}
  /\ pc = "step" => state = before /\ ~Done
  /\ pc \in {"connect", "consume"} => state = "protocol"
  /\ pc = "consume" \/ Writing("bound") => before = "protocol"
  /\ pc = "shutdown" => state = "close_protocol"
  /\ pc = "read" => state = before /\ state \in Reading
  /\ pc = "after_read" => before \in Reading
  /\ pc = "after_read" /\ before = "drain_protocol" =>
       state \in {"drain_protocol", "error"}
  /\ pc = "write" => wret \in Callers
  /\ pc = "write" /\ wret = "bottom" => before \in Talking
  /\ Writing("drained") => before = "drain_protocol" /\ state \notin Talking

\* The descriptor, the endpoint and the session stand and fall together.
SessionInv ==
  /\ pc # "gone" /\ state \in {"in_progress", "transport"} \cup Talking => fd # NoFd
  /\ pc = "connected" => fd # NoFd
  /\ fd # NoFd /\ state \notin {"uninitialized", "in_progress"} => ep = "live"
  /\ torn <= 1
  /\ fd # NoFd \/ cookie = "unset" => torn = 0
  /\ HasTeardown /\ fd = NoFd =>
       \/ torn = 1
       \/ state \in {"uninitialized", "error"} /\ pc \in {"idle", "gone", "steps"}

\* What a descriptor is registered for while a method runs.
SubInv ==
  fd # NoFd =>
    /\ state = "in_progress" => "out" \in interest
    /\ state \in Talking /\ pc \notin {"connect", "write"} =>
         "in" \in interest /\ (Unread(tx) > 0 => "out" \in interest)
    /\ pc = "bottom" /\ state = before => interest # {}
    /\ Writing("idle") => interest # {}

\* TypeOK in two halves: the connection itself, and the running method.
LifeOK ==
  /\ state \in States /\ fd \in Fds \cup {NoFd}
  /\ ep \in {"none", "live", "freed", "misfreed"} /\ torn \in Nat
  /\ edge \in {"armed", "spent"}
  /\ open \subseteq Fds /\ interest \subseteq {"in", "out"}

FrameOK ==
  /\ rx \in Buffers(RX_CAP) /\ tx \in Buffers(TX_CAP)
  /\ cookie \in {"unset", "set"}
  /\ pc \in Places /\ ev \subseteq EventBits
  /\ before \in States \cup {"none"} /\ wret \in Places /\ mark \in 0..RX_CAP

\* The inductive invariant.
IInv == TypeOK /\ Descriptors /\ PlaceInv /\ SessionInv /\ SubInv

-----------------------------------------------------------------------------
(* The effect of the helpers, stated once.                                 *)

(* The buffer operations of Buffer, for _rx and _tx.                       *)
LEMMA BufferFacts ==
  ASSUME TypeOK
  PROVE  /\ Cleared \in Buffers(RX_CAP) /\ Cleared \in Buffers(TX_CAP)
         /\ Unread(rx) \in 0..RX_CAP /\ Unread(tx) \in 0..TX_CAP
         /\ Unread(Cleared) = 0
         /\ \A n \in 0..Room(rx, RX_CAP) : Wrote(rx, n) \in Buffers(RX_CAP)
         /\ \A n \in 0..Room(tx, TX_CAP) : Wrote(tx, n) \in Buffers(TX_CAP)
         /\ \A n \in 0..Unread(rx) : Took(rx, n) \in Buffers(RX_CAP)
         /\ \A n \in 0..Unread(tx) : Took(tx, n) \in Buffers(TX_CAP)
<1>1. rx \in Buffers(RX_CAP) /\ tx \in Buffers(TX_CAP)
  BY DEF TypeOK
<1>2. RX_CAP \in Nat /\ TX_CAP \in Nat
  BY CapAssumption
<1>3. ASSUME NEW cap \in Nat, NEW b \in Buffers(cap)
      PROVE  /\ Cleared \in Buffers(cap) /\ Unread(b) \in 0..cap /\ Unread(Cleared) = 0
             /\ \A n \in 0..Room(b, cap) : Wrote(b, n) \in Buffers(cap)
             /\ \A n \in 0..Unread(b) : Took(b, n) \in Buffers(cap)
  <2>1. Cleared \in Buffers(cap) /\ Unread(b) \in 0..cap /\ Unread(Cleared) = 0
    BY DEF Buffers, Cleared, Unread
  <2>2. ASSUME NEW n \in 0..Room(b, cap) PROVE Wrote(b, n) \in Buffers(cap)
    BY DEF Buffers, Wrote, Room
  <2>3. ASSUME NEW n \in 0..Unread(b) PROVE Took(b, n) \in Buffers(cap)
    BY <2>1 DEF Buffers, Took, Unread
  <2> QED
    BY <2>1, <2>2, <2>3
<1> QED
  BY ZenonT(40), <1>1, <1>2, <1>3

\* The result of teardown(): everything the descriptor stood for is gone.
TornDown ==
  /\ fd' = NoFd /\ open' = {} /\ interest' = {}
  /\ edge' \in {"armed", "spent"}
  /\ ep' \in {"none", "live", "freed", "misfreed"}
  /\ torn' \in 0..1
  /\ fd = NoFd => torn' = torn
  /\ HasTeardown /\ fd # NoFd => torn' = 1

(* teardown() releases the descriptor whether or not there is one.         *)
LEMMA TeardownEffect ==
  ASSUME IInv, Teardown
  PROVE  TornDown
<1> USE DEF IInv, TypeOK
<1>1. fd' = NoFd /\ open' = {} /\ interest' = {}
  BY ZenonT(40) DEF Teardown, FdClosed, Descriptors
<1>2. /\ edge' \in {"armed", "spent"}
      /\ ep' \in {"none", "live", "freed", "misfreed"}
  BY DEF Teardown, Destroyed
<1>3. CASE fd = NoFd
  <2>1. torn' = torn /\ torn \in 0..1
    BY <1>3 DEF Teardown, SessionInv
  <2> QED
    BY <1>1, <1>2, <1>3, <2>1 DEF TornDown
<1>4. CASE fd # NoFd
  <2>1. torn = 0
    BY <1>4 DEF SessionInv
  <2>2. torn' = IF HasTeardown THEN torn + 1 ELSE torn
    BY <1>4 DEF Teardown
  <2>3. torn' \in 0..1 /\ (HasTeardown => torn' = 1)
    BY <2>1, <2>2
  <2> QED
    BY <1>1, <1>2, <1>4, <2>3 DEF TornDown
<1> QED
  BY <1>3, <1>4

\* The result of arm(): registered again, torn down, or nothing.
Armed(want) ==
  /\ UNCHANGED <<state, fd, ep, torn, open>>
  /\ fd = NoFd => UNCHANGED <<interest, edge>>
  /\ fd # NoFd => interest' = want /\ edge' = "armed"

(* arm() registers for something, or ends in the error state.              *)
LEMMA ArmEffect ==
  ASSUME NEW st \in TransportStatus, Arm(st)
  PROVE  \/ st = "want_read" /\ Armed(WantRead)
         \/ st = "want_write" /\ Armed(WantWrite)
         \/ st = "error" /\ state' = "error" /\ Teardown
         \/ st \in {"ok", "close"} /\ UNCHANGED life
BY DEF Arm, Armed, Subscribe, EnterError, TransportStatus

(* What the Net delivers are sets of event bits.                           *)
LEMMA DeliverableBits ==
  ASSUME TypeOK PROVE Deliverable \subseteq SUBSET EventBits
BY DEF TypeOK, Deliverable, EventBits


(* teardown() keeps the types of what it releases.                         *)
LEMMA TeardownType ==
  ASSUME IInv, Teardown, state' \in States PROVE LifeOK'
<1>1. TornDown
  BY TeardownEffect
<1> QED
  BY <1>1 DEF TornDown, LifeOK

(* So do enter_error() and enter_closed(), ...                             *)
LEMMA EntersType ==
  ASSUME IInv, EnterError \/ EnterClosed PROVE LifeOK'
BY TeardownType DEF EnterError, EnterClosed, States

(* ... a change of state, ...                                              *)
LEMMA MoveToType ==
  ASSUME IInv, NEW s \in States, MoveTo(s) PROVE LifeOK'
BY DEF IInv, TypeOK, LifeOK, MoveTo

(* ... a registration, ...                                                 *)
LEMMA SubscribeType ==
  ASSUME IInv, NEW want \in SUBSET {"in", "out"}, Subscribe(want), UNCHANGED state
  PROVE  LifeOK'
BY ZenonT(40) DEF IInv, TypeOK, LifeOK, Subscribe

(* ... a step that leaves the connection alone, ...                        *)
LEMMA SameType ==
  ASSUME IInv, UNCHANGED life PROVE LifeOK'
BY DEF IInv, TypeOK, LifeOK, life

(* ... and arm().                                                          *)
LEMMA ArmType ==
  ASSUME IInv, NEW st, Arm(st) PROVE LifeOK'
<1>1. WantRead \in SUBSET {"in", "out"} /\ WantWrite \in SUBSET {"in", "out"}
  BY DEF WantRead, WantWrite
<1> QED
  BY <1>1, SubscribeType, EntersType, SameType DEF Arm

\* The result of dial() and what follows it.
Dialled ==
  \/ /\ state' = "error" /\ fd' = NoFd /\ open' = {} /\ pc' = "idle"
     /\ interest' = {}
  \/ /\ state' = "in_progress" /\ fd' # NoFd /\ open' = {fd'} /\ pc' = "idle"
     /\ interest' = {"out"}
  \/ /\ state' = "uninitialized" /\ fd' # NoFd /\ open' = {fd'}
     /\ pc' = "connected"

(* dial() is called without a descriptor and leaves one or none.           *)
LEMMA DialEffect ==
  ASSUME IInv, fd = NoFd, EnterUninitialized
  PROVE  Dialled
<1>1. open = {} /\ interest = {}
  BY DEF IInv, Descriptors
<1>2. \A s \in Fds : s # NoFd
  BY FdAssumption DEF NoFd
<1> QED
  BY <1>1, <1>2 DEF EnterUninitialized, DialFails, DialPending, DialConnects,
     Return, Goto, Dialled

(* A session that ends in error or closed was torn down with its           *)
(* descriptor.                                                             *)
LEMMA ReleaseSession ==
  ASSUME IInv, Teardown, state' \in {"error", "closed"}, pc' # "connected",
         UNCHANGED cookie, fd # NoFd \/ pc \notin {"idle", "gone", "steps"}
  PROVE  SessionInv'
<1>1. TornDown
  BY TeardownEffect
<1>2. cookie = "set"
  BY DEF IInv, TypeOK, PlaceInv
<1> QED
  BY <1>1, <1>2 DEF TornDown, IInv, SessionInv, Talking

(* A session survives arm() unless arm() ends it.                          *)
LEMMA ArmSession ==
  ASSUME IInv, NEW st \in TransportStatus, Arm(st), pc \in {"step", "read", "write"},
         pc' \notin {"connected", "gone"}, UNCHANGED cookie
  PROVE  SessionInv'
<1>1. CASE Teardown /\ state' = "error"
  BY <1>1, ReleaseSession
<1>2. CASE UNCHANGED <<state, fd, ep, torn>>
  BY <1>2 DEF IInv, SessionInv
<1> QED
  BY <1>1, <1>2, ArmEffect DEF Armed, life

(* What was torn down is accounted for and waits for nothing.              *)
LEMMA ReleaseAll ==
  ASSUME IInv, Teardown PROVE Descriptors' /\ SubInv'
<1>1. TornDown
  BY TeardownEffect
<1> QED
  BY <1>1 DEF TornDown, Descriptors, SubInv

(* arm() leaves the state alone or enters the error state, ...             *)
LEMMA ArmState ==
  ASSUME NEW st, Arm(st) PROVE state' \in {state, "error"}
BY DEF Arm, EnterError, life

(* ... keeps the descriptor accounted for ...                              *)
LEMMA ArmDescriptors ==
  ASSUME IInv, NEW st \in TransportStatus, Arm(st), pc' # "gone"
  PROVE  Descriptors'
<1>1. CASE Teardown
  BY <1>1, ReleaseAll
<1>2. CASE ~Teardown
  <2>1. UNCHANGED <<state, fd, open>> /\ (fd = NoFd => UNCHANGED interest)
    BY <1>2, ArmEffect DEF Armed, life
  <2> QED
    BY <2>1 DEF IInv, Descriptors, Done
<1> QED
  BY <1>1, <1>2

(* ... and registers for what the state waits for.                         *)
LEMMA ArmSub ==
  ASSUME IInv, NEW st \in {"want_read", "want_write", "error"}, Arm(st),
         state # "in_progress", UNCHANGED tx
  PROVE  SubInv'
<1>1. CASE Teardown
  BY <1>1, ReleaseAll
<1>2. CASE ~Teardown
  <2>1. UNCHANGED <<state, fd>> /\ (fd # NoFd => interest' \in {WantRead, WantWrite})
    BY <1>2, ArmEffect DEF Armed, TransportStatus
  <2>2. Unread(tx) \in Nat
    BY BufferFacts, CapAssumption DEF IInv
  <2> QED
    BY <2>1, <2>2 DEF SubInv, WantRead, WantWrite, Talking
<1> QED
  BY <1>1, <1>2

-----------------------------------------------------------------------------
(* One lemma per conjunct of the invariant, one case per action.           *)

(* Every step keeps the types of the connection's own state, ...           *)
LEMMA LifeOKStep == IInv /\ [Next]_vars => LifeOK'
<1> SUFFICES ASSUME IInv, [Next]_vars PROVE LifeOK'
  OBVIOUS
<1>0. TypeOK BY DEF IInv
<1> USE EntersType, MoveToType, ArmType, SameType DEF States
<1>1. CASE Attach
  BY ZenonT(40), <1>1 DEF Attach, EnterUninitialized, DialFails, DialPending,
     DialConnects, IInv, TypeOK, LifeOK
<1>2. CASE Restart
  BY ZenonT(40), <1>2 DEF Restart, EnterUninitialized, DialFails, DialPending,
     DialConnects, IInv, TypeOK, LifeOK
<1>3. CASE Stop
  BY <1>3 DEF Stop, EnterCloseTransport, EnterCloseProtocol
<1>4. CASE Destruct
  BY <1>4, TeardownType DEF Destruct, IInv, TypeOK
<1>5. ASSUME NEW e \in SUBSET EventBits, HandleEvent(e) PROVE LifeOK'
  BY <1>5 DEF HandleEvent, IInv, TypeOK, LifeOK
<1>6. ASSUME NEW m \in 0..Room(tx, TX_CAP), Heartbeat(m) PROVE LifeOK'
  BY <1>6 DEF Heartbeat
<1>7. CASE Steps
  BY <1>7 DEF Steps
<1>8. CASE StepsBottom
  BY <1>8 DEF StepsBottom
<1>9. CASE StepInProgress
  BY <1>9 DEF StepInProgress
<1>10. CASE InitFails
  BY <1>10 DEF InitFails, IInv, TypeOK, LifeOK, FdClosed
<1>11. CASE InitSucceeds
  BY ZenonT(40), <1>11 DEF InitSucceeds, IInv, TypeOK, LifeOK, EnterProtocol
<1>12. CASE StepTransport
  BY ZenonT(40), <1>12 DEF StepTransport, IInv, TypeOK, LifeOK, EnterProtocol
<1>13. CASE StepProtocol
  BY <1>13 DEF StepProtocol
<1>14. CASE StepDrainProtocol
  BY <1>14 DEF StepDrainProtocol
<1>15. CASE StepCloseTransport
  BY <1>15 DEF StepCloseTransport
<1>16. CASE ReadOverflows
  BY <1>16 DEF ReadOverflows
<1>17. CASE ReadEnds
  BY <1>17 DEF ReadEnds, EnterCloseTransport
<1>18. CASE AfterRead
  BY <1>18 DEF AfterRead
<1>19. CASE Drained
  BY <1>19 DEF Drained, EnterCloseTransport
<1>20. ASSUME NEW n \in 1..Room(rx, RX_CAP), ReadData(n) PROVE LifeOK'
  BY <1>20 DEF ReadData
<1>21. CASE WriteDone
  BY <1>21, SubscribeType DEF WriteDone
<1>22. CASE WriteEnds
  BY <1>22 DEF WriteEnds, EnterCloseTransport
<1>23. ASSUME NEW n \in 1..Unread(tx), WriteData(n) PROVE LifeOK'
  BY <1>23 DEF WriteData
<1>24. ASSUME NEW st \in ProtocolStatus, NEW m \in 0..Room(tx, TX_CAP),
   OnConnect(st, m) PROVE LifeOK'
  BY <1>24 DEF OnConnect, Bind
<1>25. ASSUME NEW st \in ProtocolStatus, NEW k \in 0..Unread(rx), NEW m \in
   0..Room(tx, TX_CAP), OnData(st, k, m) PROVE LifeOK'
  BY <1>25 DEF OnData, Bind
<1>26. ASSUME NEW st \in ProtocolStatus, NEW k \in 0..Unread(rx), NEW m \in
   0..Room(tx, TX_CAP), OnShutdown(st, k, m) PROVE LifeOK'
  BY <1>26 DEF OnShutdown
<1>27. CASE Consumed
  BY <1>27 DEF Consumed
<1>28. CASE Bound
  BY <1>28 DEF Bound
<1>29. CASE Closing
  BY <1>29 DEF Closing, EnterCloseProtocol, EnterCloseTransport
<1>30. CASE Flushed
  BY <1>30 DEF Flushed, EnterCloseTransport
<1>31. CASE Unflushed
  BY <1>31 DEF Unflushed
<1>32. CASE Shut
  BY <1>32 DEF Shut
<1>33. CASE UNCHANGED vars
  BY SMTT(40), <1>33 DEF vars
<1> QED
  BY <1>1, <1>2, <1>3, <1>4, <1>5, <1>6, <1>7, <1>8, <1>9, <1>10, <1>11,
     <1>12, <1>13, <1>14, <1>15, <1>16, <1>17, <1>18, <1>19, <1>20, <1>21,
     <1>22, <1>23, <1>24, <1>25, <1>26, <1>27, <1>28, <1>29, <1>30, <1>31,
     <1>32, <1>33, DeliverableBits, <1>0 DEF Next, Invoke, Run, Handler, Read,
     Written, Gone, vars

(* ... and those of the buffers and of the running method.                 *)
LEMMA FrameOKStep == IInv /\ [Next]_vars => FrameOK'
<1> SUFFICES ASSUME IInv, [Next]_vars PROVE FrameOK'
  OBVIOUS
<1>0. TypeOK BY DEF IInv
<1> USE CapAssumption DEF IInv, TypeOK, FrameOK, frame, Places
<1>1. CASE Attach
  BY <1>1, BufferFacts, <1>0 DEF Attach, EnterUninitialized, DialFails,
     DialPending, DialConnects, Goto, Return
<1>2. CASE Restart
  BY <1>2, BufferFacts, <1>0 DEF Restart, EnterUninitialized, DialFails,
     DialPending, DialConnects, Goto, Return
<1>3. CASE Stop
  BY <1>3 DEF Stop, EnterCloseProtocol, Goto
<1>4. CASE Destruct
  BY <1>4 DEF Destruct, Goto
<1>5. ASSUME NEW e \in SUBSET EventBits, HandleEvent(e) PROVE FrameOK'
  BY <1>5 DEF HandleEvent
<1>6. ASSUME NEW m \in 0..Room(tx, TX_CAP), Heartbeat(m) PROVE FrameOK'
  BY <1>6, BufferFacts, <1>0 DEF Heartbeat, Write
<1>7. CASE Steps
  BY <1>7 DEF Steps, Return
<1>8. CASE StepsBottom
  BY <1>8 DEF StepsBottom, Return, Goto
<1>9. CASE StepInProgress
  BY <1>9 DEF StepInProgress, Goto
<1>10. CASE InitFails
  BY <1>10 DEF InitFails, Goto
<1>11. CASE InitSucceeds
  BY <1>11 DEF InitSucceeds, EnterProtocol, Goto, Write
<1>12. CASE StepTransport
  BY <1>12 DEF StepTransport, EnterProtocol, Goto, Write
<1>13. CASE StepProtocol
  BY <1>13 DEF StepProtocol, Goto
<1>14. CASE StepDrainProtocol
  BY <1>14 DEF StepDrainProtocol, Goto, Write
<1>15. CASE StepCloseTransport
  BY <1>15 DEF StepCloseTransport, Goto
<1>16. CASE ReadOverflows
  BY <1>16 DEF ReadOverflows, Goto
<1>17. CASE ReadEnds
  BY <1>17 DEF ReadEnds, Goto
<1>18. CASE AfterRead
  BY <1>18, BufferFacts, <1>0 DEF AfterRead, Goto, Write
<1>19. CASE Drained
  BY <1>19 DEF Drained, Goto
<1>20. ASSUME NEW n \in 1..Room(rx, RX_CAP), ReadData(n) PROVE FrameOK'
  BY <1>20, BufferFacts, <1>0 DEF ReadData, Goto
<1>21. CASE WriteDone
  BY <1>21 DEF WriteDone, WriteReturns
<1>22. CASE WriteEnds
  BY <1>22 DEF WriteEnds, WriteReturns
<1>23. ASSUME NEW n \in 1..Unread(tx), WriteData(n) PROVE FrameOK'
  BY <1>23, BufferFacts, <1>0 DEF WriteData
<1>24. ASSUME NEW st \in ProtocolStatus, NEW m \in 0..Room(tx, TX_CAP),
   OnConnect(st, m) PROVE FrameOK'
  BY <1>24, BufferFacts, <1>0 DEF OnConnect, Bind, Unwind
<1>25. ASSUME NEW st \in ProtocolStatus, NEW k \in 0..Unread(rx), NEW m \in
   0..Room(tx, TX_CAP), OnData(st, k, m) PROVE FrameOK'
  BY <1>25, BufferFacts, <1>0 DEF OnData, Bind, Unwind
<1>26. ASSUME NEW st \in ProtocolStatus, NEW k \in 0..Unread(rx), NEW m \in
   0..Room(tx, TX_CAP), OnShutdown(st, k, m) PROVE FrameOK'
  BY <1>26, BufferFacts, <1>0 DEF OnShutdown, Unwind
<1>27. CASE Consumed
  BY <1>27 DEF Consumed, Goto
<1>28. CASE Bound
  BY <1>28 DEF Bound, Goto
<1>29. CASE Closing
  BY <1>29 DEF Closing, EnterCloseProtocol, Goto, Write, Unwind
<1>30. CASE Flushed
  BY <1>30 DEF Flushed, Goto, Unwind
<1>31. CASE Unflushed
  BY <1>31 DEF Unflushed, Goto, Unwind
<1>32. CASE Shut
  BY <1>32 DEF Shut, Goto, Unwind
<1>33. CASE UNCHANGED vars
  BY SMTT(40), <1>33 DEF vars
<1> QED
  BY ZenonT(40), <1>1, <1>2, <1>3, <1>4, <1>5, <1>6, <1>7, <1>8, <1>9, <1>10, <1>11,
     <1>12, <1>13, <1>14, <1>15, <1>16, <1>17, <1>18, <1>19, <1>20, <1>21,
     <1>22, <1>23, <1>24, <1>25, <1>26, <1>27, <1>28, <1>29, <1>30, <1>31,
     <1>32, <1>33, DeliverableBits, <1>0 DEF Next, Invoke, Run, Handler, Read,
     Written, Gone, vars

(* Every step arrives at its next place in a state that belongs there.     *)
LEMMA PlaceInvStep == IInv /\ [Next]_vars => PlaceInv'
<1> SUFFICES ASSUME IInv, [Next]_vars PROVE PlaceInv'
  OBVIOUS
<1>0. TypeOK BY DEF IInv
<1> USE StatusAssumption DEF IInv, PlaceInv, SessionInv, Writing, Done,
   Reading, Talking, Callers, life, frame
<1>1. CASE Attach
  BY <1>1, DialEffect DEF Attach, Dialled, EnterUninitialized
<1>2. CASE Restart
  BY <1>2, DialEffect DEF Restart, Dialled, EnterUninitialized, Descriptors
<1>3. CASE Stop
  BY <1>3 DEF Stop, EnterClosed, EnterCloseTransport, MoveTo,
     EnterCloseProtocol, Goto
<1>4. CASE Destruct
  BY <1>4, TeardownEffect DEF Destruct, Goto, TornDown
<1>5. ASSUME NEW e \in SUBSET EventBits, HandleEvent(e) PROVE PlaceInv'
  BY <1>5 DEF HandleEvent
<1>6. ASSUME NEW m \in 0..Room(tx, TX_CAP), Heartbeat(m) PROVE PlaceInv'
  BY <1>6 DEF Heartbeat, Write
<1>7. CASE Steps
  BY <1>7 DEF Steps, Return
<1>8. CASE StepsBottom
  BY <1>8 DEF StepsBottom, Return, Goto
<1>9. CASE StepInProgress
  BY <1>9 DEF StepInProgress, EnterError, Goto
<1>10. CASE InitFails
  BY <1>10 DEF InitFails, FdClosed, Goto
<1>11. CASE InitSucceeds
  BY <1>11 DEF InitSucceeds, EnterProtocol, Goto, Write
<1>12. CASE StepTransport
  BY <1>12, ArmState DEF StepTransport, EnterError, EnterProtocol, Goto, Write
<1>13. CASE StepProtocol
  BY <1>13 DEF StepProtocol, Goto
<1>14. CASE StepDrainProtocol
  BY <1>14 DEF StepDrainProtocol, Goto, Write
<1>15. CASE StepCloseTransport
  BY <1>15, ArmState DEF StepCloseTransport, EnterError, EnterClosed, Goto
<1>16. CASE ReadOverflows
  BY <1>16 DEF ReadOverflows, EnterError, Goto
<1>17. CASE ReadEnds
  BY <1>17, ArmState DEF ReadEnds, EnterError, EnterCloseTransport, MoveTo,
     Goto
<1>18. CASE AfterRead
  BY <1>18 DEF AfterRead, Goto, Write
<1>19. CASE Drained
  BY <1>19 DEF Drained, EnterCloseTransport, MoveTo, Goto
<1>20. ASSUME NEW n \in 1..Room(rx, RX_CAP), ReadData(n) PROVE PlaceInv'
  BY <1>20 DEF ReadData, Goto
<1>21. CASE WriteDone
  BY <1>21 DEF WriteDone, Subscribe, WriteReturns
<1>22. CASE WriteEnds
  BY <1>22, ArmState DEF WriteEnds, EnterError, EnterCloseTransport, MoveTo,
     WriteReturns
<1>23. ASSUME NEW n \in 1..Unread(tx), WriteData(n) PROVE PlaceInv'
  BY <1>23 DEF WriteData
<1>24. ASSUME NEW st \in ProtocolStatus, NEW m \in 0..Room(tx, TX_CAP),
   OnConnect(st, m) PROVE PlaceInv'
  BY <1>24 DEF OnConnect, Bind, Unwind, EnterError
<1>25. ASSUME NEW st \in ProtocolStatus, NEW k \in 0..Unread(rx), NEW m \in
   0..Room(tx, TX_CAP), OnData(st, k, m) PROVE PlaceInv'
  BY <1>25 DEF OnData, Bind, Unwind, EnterError
<1>26. ASSUME NEW st \in ProtocolStatus, NEW k \in 0..Unread(rx), NEW m \in
   0..Room(tx, TX_CAP), OnShutdown(st, k, m) PROVE PlaceInv'
  BY <1>26 DEF OnShutdown, Unwind, MoveTo, EnterError
<1>27. CASE Consumed
  BY <1>27 DEF Consumed, Goto
<1>28. CASE Bound
  BY <1>28 DEF Bound, Goto
<1>29. CASE Closing
  BY <1>29 DEF Closing, EnterCloseProtocol, Goto, Write, Unwind,
     EnterCloseTransport, MoveTo
<1>30. CASE Flushed
  BY <1>30 DEF Flushed, Goto, Unwind, EnterCloseTransport, MoveTo
<1>31. CASE Unflushed
  BY <1>31 DEF Unflushed, Goto, Unwind, MoveTo
<1>32. CASE Shut
  BY <1>32 DEF Shut, Goto, Unwind
<1>33. CASE UNCHANGED vars
  BY SMTT(40), <1>33 DEF vars
<1> QED
  BY ZenonT(40), <1>1, <1>2, <1>3, <1>4, <1>5, <1>6, <1>7, <1>8, <1>9, <1>10, <1>11,
     <1>12, <1>13, <1>14, <1>15, <1>16, <1>17, <1>18, <1>19, <1>20, <1>21,
     <1>22, <1>23, <1>24, <1>25, <1>26, <1>27, <1>28, <1>29, <1>30, <1>31,
     <1>32, <1>33, DeliverableBits, <1>0 DEF Next, Invoke, Run, Handler, Read,
     Written, Gone, vars

(* Every step keeps the descriptor accounted for.                          *)
LEMMA DescriptorsStep == IInv /\ [Next]_vars => Descriptors'
<1> SUFFICES ASSUME IInv, [Next]_vars PROVE Descriptors'
  OBVIOUS
<1>0. TypeOK BY DEF IInv
<1> USE StatusAssumption DEF IInv, PlaceInv, Descriptors, SessionInv, Done,
   Talking, Callers, TransportStatus, life, frame
<1>1. CASE Attach
  BY <1>1, DialEffect DEF Attach, Dialled
<1>2. CASE Restart
  BY <1>2, DialEffect DEF Restart, Dialled
<1>3. CASE Stop
  BY <1>3, ReleaseAll DEF Stop, EnterClosed, EnterCloseTransport, MoveTo,
     EnterCloseProtocol, Goto
<1>4. CASE Destruct
  BY <1>4, ReleaseAll DEF Destruct, Goto
<1>5. ASSUME NEW e \in SUBSET EventBits, HandleEvent(e) PROVE Descriptors'
  BY <1>5 DEF HandleEvent
<1>6. ASSUME NEW m \in 0..Room(tx, TX_CAP), Heartbeat(m) PROVE Descriptors'
  BY <1>6 DEF Heartbeat, Write
<1>7. CASE Steps
  BY <1>7 DEF Steps, Return
<1>8. CASE StepsBottom
  BY <1>8 DEF StepsBottom, Return, Goto
<1>9. CASE StepInProgress
  BY <1>9, ReleaseAll DEF StepInProgress, EnterError, Goto
<1>10. CASE InitFails
  BY <1>10 DEF InitFails, FdClosed, Goto
<1>11. CASE InitSucceeds
  BY SMTT(40), <1>11 DEF InitSucceeds, EnterProtocol, Goto, Write
<1>12. CASE StepTransport
  BY <1>12, ReleaseAll, ArmDescriptors DEF StepTransport, EnterError,
     EnterProtocol, Goto, Write
<1>13. CASE StepProtocol
  BY <1>13 DEF StepProtocol, Goto
<1>14. CASE StepDrainProtocol
  BY SMTT(40), <1>14 DEF StepDrainProtocol, Goto, Write
<1>15. CASE StepCloseTransport
  BY <1>15, ReleaseAll, ArmDescriptors DEF StepCloseTransport, EnterError,
     EnterClosed, Goto
<1>16. CASE ReadOverflows
  BY SMTT(40), <1>16, ReleaseAll DEF ReadOverflows, EnterError, Goto
<1>17. CASE ReadEnds
  BY <1>17, ReleaseAll, ArmDescriptors DEF ReadEnds, EnterError,
     EnterCloseTransport, MoveTo, Goto
<1>18. CASE AfterRead
  BY <1>18 DEF AfterRead, Goto, Write
<1>19. CASE Drained
  BY <1>19 DEF Drained, EnterCloseTransport, MoveTo, Goto
<1>20. ASSUME NEW n \in 1..Room(rx, RX_CAP), ReadData(n) PROVE Descriptors'
  BY <1>20 DEF ReadData, Goto
<1>21. CASE WriteDone
  BY <1>21 DEF WriteDone, Subscribe, WriteReturns
<1>22. CASE WriteEnds
  BY <1>22, ReleaseAll, ArmDescriptors DEF WriteEnds, EnterError,
     EnterCloseTransport, MoveTo, WriteReturns
<1>23. ASSUME NEW n \in 1..Unread(tx), WriteData(n) PROVE Descriptors'
  BY SMTT(40), <1>23 DEF WriteData
<1>24. ASSUME NEW st \in ProtocolStatus, NEW m \in 0..Room(tx, TX_CAP),
   OnConnect(st, m) PROVE Descriptors'
  BY SMTT(40), <1>24, ReleaseAll DEF OnConnect, Bind, Unwind, EnterError
<1>25. ASSUME NEW st \in ProtocolStatus, NEW k \in 0..Unread(rx), NEW m \in
   0..Room(tx, TX_CAP), OnData(st, k, m) PROVE Descriptors'
  BY SMTT(40), <1>25, ReleaseAll DEF OnData, Bind, Unwind, EnterError
<1>26. ASSUME NEW st \in ProtocolStatus, NEW k \in 0..Unread(rx), NEW m \in
   0..Room(tx, TX_CAP), OnShutdown(st, k, m) PROVE Descriptors'
  BY <1>26, ReleaseAll DEF OnShutdown, Unwind, MoveTo, EnterError
<1>27. CASE Consumed
  BY <1>27 DEF Consumed, Goto
<1>28. CASE Bound
  BY <1>28 DEF Bound, Goto
<1>29. CASE Closing
  BY <1>29 DEF Closing, EnterCloseProtocol, Goto, Write, Unwind,
     EnterCloseTransport, MoveTo
<1>30. CASE Flushed
  BY <1>30 DEF Flushed, Goto, Unwind, EnterCloseTransport, MoveTo
<1>31. CASE Unflushed
  BY <1>31 DEF Unflushed, Goto, Unwind, MoveTo
<1>32. CASE Shut
  BY <1>32 DEF Shut, Goto, Unwind
<1>33. CASE UNCHANGED vars
  BY SMTT(40), <1>33 DEF vars
<1> QED
  BY ZenonT(40), <1>1, <1>2, <1>3, <1>4, <1>5, <1>6, <1>7, <1>8, <1>9, <1>10, <1>11,
     <1>12, <1>13, <1>14, <1>15, <1>16, <1>17, <1>18, <1>19, <1>20, <1>21,
     <1>22, <1>23, <1>24, <1>25, <1>26, <1>27, <1>28, <1>29, <1>30, <1>31,
     <1>32, <1>33, DeliverableBits, <1>0 DEF Next, Invoke, Run, Handler, Read,
     Written, Gone, vars

(* Every step keeps descriptor, endpoint and session together.             *)
LEMMA SessionInvStep == IInv /\ [Next]_vars => SessionInv'
<1> SUFFICES ASSUME IInv, [Next]_vars PROVE SessionInv'
  OBVIOUS
<1>0. TypeOK BY DEF IInv
<1> USE StatusAssumption DEF IInv, PlaceInv, SessionInv, Talking,
   TransportStatus, life, frame
<1>1. CASE Attach
  BY SMTT(40), <1>1, DialEffect DEF Attach, Dialled, EnterUninitialized
<1>2. CASE Restart
  BY SMTT(40), <1>2, DialEffect DEF Restart, Dialled, EnterUninitialized, Descriptors
<1>3. CASE Stop
  BY SMTT(40), <1>3, ReleaseSession DEF Stop, EnterClosed, EnterCloseTransport, MoveTo,
     EnterCloseProtocol, Goto
<1>4. CASE Destruct
  BY <1>4, TeardownEffect DEF Destruct, Goto, TornDown
<1>5. ASSUME NEW e \in SUBSET EventBits, HandleEvent(e) PROVE SessionInv'
  BY <1>5 DEF HandleEvent
<1>6. ASSUME NEW m \in 0..Room(tx, TX_CAP), Heartbeat(m) PROVE SessionInv'
  BY SMTT(40), <1>6 DEF Heartbeat, Write
<1>7. CASE Steps
  BY <1>7 DEF Steps, Return, Done
<1>8. CASE StepsBottom
  BY SMTT(40), <1>8 DEF StepsBottom, Return, Goto
<1>9. CASE StepInProgress
  BY <1>9, ReleaseSession DEF StepInProgress, EnterError, Goto
<1>10. CASE InitFails
  BY <1>10 DEF InitFails, FdClosed, Goto
<1>11. CASE InitSucceeds
  BY SMTT(40), <1>11 DEF InitSucceeds, EnterProtocol, Goto, Write
<1>12. CASE StepTransport
  BY SMTT(40), <1>12, ReleaseSession, ArmSession DEF StepTransport, EnterError,
     EnterProtocol, Goto, Write
<1>13. CASE StepProtocol
  BY SMTT(40), <1>13 DEF StepProtocol, Goto
<1>14. CASE StepDrainProtocol
  BY SMTT(40), <1>14 DEF StepDrainProtocol, Goto, Write
<1>15. CASE StepCloseTransport
  BY ZenonT(40), <1>15, ReleaseSession, ArmSession DEF StepCloseTransport, EnterError,
     EnterClosed, Goto
<1>16. CASE ReadOverflows
  BY SMTT(40), <1>16, ReleaseSession DEF ReadOverflows, EnterError, Goto
<1>17. CASE ReadEnds
  BY <1>17, ReleaseSession, ArmSession DEF ReadEnds, EnterError,
     EnterCloseTransport, MoveTo, Goto
<1>18. CASE AfterRead
  BY <1>18 DEF AfterRead, Goto, Write
<1>19. CASE Drained
  BY <1>19 DEF Drained, EnterCloseTransport, MoveTo, Goto
<1>20. ASSUME NEW n \in 1..Room(rx, RX_CAP), ReadData(n) PROVE SessionInv'
  BY <1>20 DEF ReadData, Goto
<1>21. CASE WriteDone
  BY <1>21 DEF WriteDone, Subscribe, WriteReturns, Callers
<1>22. CASE WriteEnds
  BY SMTT(40), <1>22, ReleaseSession, ArmSession DEF WriteEnds, EnterError,
     EnterCloseTransport, MoveTo, WriteReturns, Callers
<1>23. ASSUME NEW n \in 1..Unread(tx), WriteData(n) PROVE SessionInv'
  BY SMTT(40), <1>23 DEF WriteData
<1>24. ASSUME NEW st \in ProtocolStatus, NEW m \in 0..Room(tx, TX_CAP),
   OnConnect(st, m) PROVE SessionInv'
  BY SMTT(40), <1>24, ReleaseSession DEF OnConnect, Bind, Unwind, EnterError
<1>25. ASSUME NEW st \in ProtocolStatus, NEW k \in 0..Unread(rx), NEW m \in
   0..Room(tx, TX_CAP), OnData(st, k, m) PROVE SessionInv'
  BY SMTT(40), <1>25, ReleaseSession DEF OnData, Bind, Unwind, EnterError
<1>26. ASSUME NEW st \in ProtocolStatus, NEW k \in 0..Unread(rx), NEW m \in
   0..Room(tx, TX_CAP), OnShutdown(st, k, m) PROVE SessionInv'
  BY <1>26, ReleaseSession DEF OnShutdown, Unwind, MoveTo, EnterError
<1>27. CASE Consumed
  BY <1>27 DEF Consumed, Goto
<1>28. CASE Bound
  BY <1>28 DEF Bound, Goto
<1>29. CASE Closing
  BY <1>29 DEF Closing, EnterCloseProtocol, Goto, Write, Unwind,
     EnterCloseTransport, MoveTo
<1>30. CASE Flushed
  BY <1>30 DEF Flushed, Goto, Unwind, EnterCloseTransport, MoveTo
<1>31. CASE Unflushed
  BY <1>31 DEF Unflushed, Goto, Unwind, MoveTo
<1>32. CASE Shut
  BY <1>32 DEF Shut, Goto, Unwind
<1>33. CASE UNCHANGED vars
  BY SMTT(40), <1>33 DEF vars
<1> QED
  BY ZenonT(40), <1>1, <1>2, <1>3, <1>4, <1>5, <1>6, <1>7, <1>8, <1>9, <1>10, <1>11,
     <1>12, <1>13, <1>14, <1>15, <1>16, <1>17, <1>18, <1>19, <1>20, <1>21,
     <1>22, <1>23, <1>24, <1>25, <1>26, <1>27, <1>28, <1>29, <1>30, <1>31,
     <1>32, <1>33, DeliverableBits, <1>0 DEF Next, Invoke, Run, Handler, Read,
     Written, Gone, vars

(* Every step keeps the registration that the states rely on.              *)
LEMMA SubInvStep == IInv /\ [Next]_vars => SubInv'
<1> SUFFICES ASSUME IInv, [Next]_vars PROVE SubInv'
  OBVIOUS
<1>0. TypeOK BY DEF IInv
<1> USE StatusAssumption DEF IInv, Descriptors, PlaceInv, SessionInv, SubInv,
   Writing, Done, Reading, Talking, Callers, TransportStatus, life, frame
<1>1. CASE Attach
  BY SMTT(40), <1>1, DialEffect DEF Attach, Dialled, EnterUninitialized
<1>2. CASE Restart
  BY ZenonT(40), <1>2, DialEffect DEF Restart, Dialled, EnterUninitialized, Descriptors
<1>3. CASE Stop
  BY ZenonT(40), <1>3, ReleaseAll DEF Stop, EnterClosed, EnterCloseTransport, MoveTo,
     EnterCloseProtocol, Goto
<1>4. CASE Destruct
  BY SMTT(40), <1>4, ReleaseAll DEF Destruct, Goto
<1>5. ASSUME NEW e \in SUBSET EventBits, HandleEvent(e) PROVE SubInv'
  BY SMTT(40), <1>5 DEF HandleEvent
<1>6. ASSUME NEW m \in 0..Room(tx, TX_CAP), Heartbeat(m) PROVE SubInv'
  BY SMTT(40), <1>6, BufferFacts, <1>0 DEF Heartbeat, Write
<1>7. CASE Steps
  BY SMTT(40), <1>7 DEF Steps, Return
<1>8. CASE StepsBottom
  BY SMTT(40), <1>8 DEF StepsBottom, Return, Goto
<1>9. CASE StepInProgress
  BY SMTT(40), <1>9, ReleaseAll DEF StepInProgress, EnterError, Goto
<1>10. CASE InitFails
  BY SMTT(40), <1>10 DEF InitFails, FdClosed, Goto
<1>11. CASE InitSucceeds
  BY SMTT(40), <1>11 DEF InitSucceeds, EnterProtocol, Goto, Write
<1>12. CASE StepTransport
  BY ZenonT(40), <1>12, ReleaseAll, ArmSub DEF StepTransport, EnterError, EnterProtocol,
     Goto, Write
<1>13. CASE StepProtocol
  BY SMTT(40), <1>13 DEF StepProtocol, Goto
<1>14. CASE StepDrainProtocol
  BY SMTT(40), <1>14 DEF StepDrainProtocol, Goto, Write
<1>15. CASE StepCloseTransport
  BY ZenonT(40), <1>15, ReleaseAll, ArmSub DEF StepCloseTransport, EnterError,
     EnterClosed, Goto
<1>16. CASE ReadOverflows
  BY SMTT(40), <1>16, ReleaseAll DEF ReadOverflows, EnterError, Goto
<1>17. CASE ReadEnds
  BY ZenonT(40), <1>17, ReleaseAll, ArmSub DEF ReadEnds, EnterError, EnterCloseTransport,
     MoveTo, Goto
<1>18. CASE AfterRead
  <2>1. /\ UNCHANGED <<state, fd, interest, tx, before>>
        /\ pc' \in {"write", "bottom"} /\ wret' \in {wret, "drained", "bottom"}
        /\ pc' = "write" => wret' # "idle"
        /\ pc' = "bottom" => before # "drain_protocol"
    BY SMTT(40), <1>18 DEF AfterRead, Goto, Write
  <2>2. pc = "after_read" /\ before \in Reading
    BY SMTT(40), <1>18 DEF AfterRead
  <2> QED
    BY SMTT(40), <2>1, <2>2
<1>19. CASE Drained
  BY <1>19 DEF Drained, EnterCloseTransport, MoveTo, Goto
<1>20. ASSUME NEW n \in 1..Room(rx, RX_CAP), ReadData(n) PROVE SubInv'
  BY <1>20, BufferFacts, <1>0 DEF ReadData, Goto
<1>21. CASE WriteDone
  BY <1>21, BufferFacts, <1>0 DEF WriteDone, Subscribe, WriteReturns
<1>22. CASE WriteEnds
  BY SMTT(40), <1>22, ReleaseAll, ArmSub, BufferFacts, <1>0 DEF WriteEnds, EnterError,
     EnterCloseTransport, MoveTo, WriteReturns
<1>23. ASSUME NEW n \in 1..Unread(tx), WriteData(n) PROVE SubInv'
  BY SMTT(40), <1>23, BufferFacts, <1>0 DEF WriteData
<1>24. ASSUME NEW st \in ProtocolStatus, NEW m \in 0..Room(tx, TX_CAP),
   OnConnect(st, m) PROVE SubInv'
  BY ZenonT(40), <1>24, ReleaseAll, BufferFacts, <1>0 DEF OnConnect, Bind, Unwind,
     EnterError
<1>25. ASSUME NEW st \in ProtocolStatus, NEW k \in 0..Unread(rx), NEW m \in
   0..Room(tx, TX_CAP), OnData(st, k, m) PROVE SubInv'
  BY ZenonT(40), <1>25, ReleaseAll, BufferFacts, <1>0 DEF OnData, Bind, Unwind, EnterError
<1>26. ASSUME NEW st \in ProtocolStatus, NEW k \in 0..Unread(rx), NEW m \in
   0..Room(tx, TX_CAP), OnShutdown(st, k, m) PROVE SubInv'
  BY ZenonT(40), <1>26, ReleaseAll, BufferFacts, <1>0 DEF OnShutdown, Unwind, MoveTo,
     EnterError
<1>27. CASE Consumed
  BY <1>27 DEF Consumed, Goto
<1>28. CASE Bound
  BY <1>28 DEF Bound, Goto
<1>29. CASE Closing
  BY SMTT(40), <1>29 DEF Closing, EnterCloseProtocol, Goto, Write, Unwind,
     EnterCloseTransport, MoveTo
<1>30. CASE Flushed
  BY SMTT(40), <1>30 DEF Flushed, Goto, Unwind, EnterCloseTransport, MoveTo
<1>31. CASE Unflushed
  BY <1>31 DEF Unflushed, Goto, Unwind, MoveTo
<1>32. CASE Shut
  BY SMTT(40), <1>32 DEF Shut, Goto, Unwind
<1>33. CASE UNCHANGED vars
  BY <1>33 DEF vars
<1> QED
  BY ZenonT(40), <1>1, <1>2, <1>3, <1>4, <1>5, <1>6, <1>7, <1>8, <1>9, <1>10, <1>11,
     <1>12, <1>13, <1>14, <1>15, <1>16, <1>17, <1>18, <1>19, <1>20, <1>21,
     <1>22, <1>23, <1>24, <1>25, <1>26, <1>27, <1>28, <1>29, <1>30, <1>31,
     <1>32, <1>33, DeliverableBits, <1>0 DEF Next, Invoke, Run, Handler, Read,
     Written, Gone, vars

-----------------------------------------------------------------------------
(* The theorems.                                                           *)

(* The members as constructed satisfy the inductive invariant.             *)
LEMMA InitInv == Init => IInv
<1> SUFFICES ASSUME Init PROVE IInv
  OBVIOUS
<1>1. Cleared \in Buffers(RX_CAP) /\ Cleared \in Buffers(TX_CAP)
  BY CapAssumption DEF Cleared, Buffers
<1>2. TypeOK
  BY <1>1, CapAssumption DEF Init, TypeOK, States, Places, EventBits
<1> QED
  BY <1>2 DEF Init, IInv, Descriptors, PlaceInv, SessionInv, SubInv, Writing,
     Done, Reading, Talking, Callers

(* Every method of the connection preserves the inductive invariant.       *)
LEMMA StepInv == IInv /\ [Next]_vars => IInv'
<1> SUFFICES ASSUME IInv, [Next]_vars PROVE IInv'
  OBVIOUS
<1>1. LifeOK' /\ FrameOK'
  BY LifeOKStep, FrameOKStep
<1>2. TypeOK'
  BY <1>1 DEF TypeOK, LifeOK, FrameOK
<1> QED
  BY <1>2, PlaceInvStep, DescriptorsStep, SessionInvStep, SubInvStep DEF IInv

(* The inductive invariant holds in every reachable state.                 *)
THEOREM Invariance == Spec => []IInv
BY InitInv, StepInv, PTL DEF Spec

(* Every member keeps its type; the buffers' cursors stay ordered and      *)
(* inside their capacity through every read, write and handler.            *)
THEOREM TypeCorrect == Spec => []TypeOK
<1>1. IInv => TypeOK
  BY DEF IInv
<1> QED
  BY <1>1, Invariance, PTL

(* No descriptor leaks or is closed twice, whichever way a connection ends. *)
THEOREM DescriptorsHold == Spec => []Descriptors
<1>1. IInv => Descriptors
  BY DEF IInv
<1> QED
  BY <1>1, Invariance, PTL

(* The session's handlers run only in their own state, over a live endpoint *)
(* and an open descriptor, and never after the session's teardown().        *)
THEOREM CallbacksHold == Spec => []CallbacksInContext
<1>1. IInv => CallbacksInContext
  BY DEF IInv, PlaceInv, SessionInv, CallbacksInContext, Talking
<1> QED
  BY <1>1, Invariance, PTL

(* teardown() of a session is called at most once, and before the          *)
(* connection counts as closed.                                            *)
THEOREM TeardownHolds == Spec => []TeardownOnce
<1>1. IInv => TeardownOnce
  BY DEF IInv, Descriptors, Done, SessionInv, TeardownOnce
<1> QED
  BY <1>1, Invariance, PTL

(* No connection waits for an event it is not registered for.              *)
THEOREM WaitingHolds == Spec => []WaitingIsSubscribed
<1>1. IInv => WaitingIsSubscribed
  BY DEF IInv, SubInv, Writing, Talking, WaitingIsSubscribed
<1> QED
  BY <1>1, Invariance, PTL

-----------------------------------------------------------------------------
(* What a method does between the call and its return.                     *)

\* Where bind_protocol closes the session, the states a failed write leaves;
\* what step_drain_protocol knows when its write came back with true.
FlushInv ==
  /\ pc = "drained" => fd = NoFd \/ Unread(tx) = 0
  /\ Writing("closing") \/ Writing("flushed") \/ pc = "unflushed" =>
       /\ state \in {"protocol", "close_transport", "error"}
       /\ state = "close_transport" => "close" \in WriteStatus
  /\ Writing("flushed") \/ pc = "unflushed" => ~HasProtocolShutdown

\* Where an edge was answered: at the bottom of a step that changed nothing,
\* after the read loop, and while connecting.  An event is over when its
\* method returns.
EdgeInv ==
  /\ pc \in {"idle", "gone"} \/ Writing("idle") => ev = {}
  /\ pc = "bottom" /\ state = before /\ fd # NoFd /\ ev \cap {"in", "out"} # {} =>
       edge = "armed"
  /\ pc = "after_read" /\ before \in Talking /\ state = before /\ fd # NoFd
     /\ "in" \in ev => edge = "armed"
  /\ Writing("shut") => state # "protocol"
  /\ state = "in_progress" /\ pc \in {"idle", "bottom"} =>
       interest = {"out"} /\ edge = "armed"
  /\ state = "in_progress" /\ pc \in {"steps", "step"} =>
       interest = {"out"} /\ (edge = "armed" \/ "out" \in ev \/ "err" \in ev)

(* What the Net delivers is never empty.                                   *)
LEMMA DeliverableSome ==
  ASSUME TypeOK PROVE Deliverable \subseteq (SUBSET EventBits) \ {{}}
BY SMTT(40), DeliverableBits DEF Deliverable

(* Every step arrives where a session is closed in a state that belongs     *)
(* there, and at the end of the draining with nothing left to write.        *)
LEMMA FlushInvStep == IInv /\ FlushInv /\ [Next]_vars => FlushInv'
<1> SUFFICES ASSUME IInv, FlushInv, [Next]_vars PROVE FlushInv'
  OBVIOUS
<1>0. TypeOK BY DEF IInv
<1> USE StatusAssumption DEF FlushInv, Writing, life, frame
<1>1. CASE Attach
  BY <1>1 DEF Attach, EnterUninitialized, DialFails, DialPending,
     DialConnects, Goto, Return
<1>2. CASE Restart
  BY <1>2 DEF Restart, EnterUninitialized, DialFails, DialPending,
     DialConnects, Goto, Return
<1>3. CASE Stop
  BY <1>3 DEF Stop, EnterClosed, EnterCloseTransport, MoveTo,
     EnterCloseProtocol, Goto
<1>4. CASE Destruct
  BY <1>4 DEF Destruct, Goto
<1>5. ASSUME NEW e \in SUBSET EventBits, HandleEvent(e) PROVE FlushInv'
  BY <1>5 DEF HandleEvent
<1>6. ASSUME NEW m \in 0..Room(tx, TX_CAP), Heartbeat(m) PROVE FlushInv'
  BY <1>6 DEF Heartbeat, Write
<1>7. CASE Steps
  BY <1>7 DEF Steps, Return
<1>8. CASE StepsBottom
  BY <1>8 DEF StepsBottom, Return, Goto
<1>9. CASE StepInProgress
  BY <1>9 DEF StepInProgress, EnterError, Goto
<1>10. CASE InitFails
  BY <1>10 DEF InitFails, FdClosed, Goto
<1>11. CASE InitSucceeds
  BY <1>11 DEF InitSucceeds, EnterProtocol, Goto, Write
<1>12. CASE StepTransport
  BY <1>12, ArmState DEF StepTransport, EnterError, EnterProtocol, Goto,
     Write
<1>13. CASE StepProtocol
  BY <1>13 DEF StepProtocol, Goto
<1>14. CASE StepDrainProtocol
  BY <1>14 DEF StepDrainProtocol, Goto, Write
<1>15. CASE StepCloseTransport
  BY <1>15, ArmState DEF StepCloseTransport, EnterError, EnterClosed, Goto
<1>16. CASE ReadOverflows
  BY <1>16 DEF ReadOverflows, EnterError, Goto
<1>17. CASE ReadEnds
  BY <1>17, ArmState DEF ReadEnds, EnterError, EnterCloseTransport, MoveTo,
     Goto
<1>18. CASE AfterRead
  BY <1>18 DEF AfterRead, Goto, Write
<1>19. CASE Drained
  BY <1>19 DEF Drained, EnterCloseTransport, MoveTo, Goto
<1>20. ASSUME NEW n \in 1..Room(rx, RX_CAP), ReadData(n) PROVE FlushInv'
  BY <1>20 DEF ReadData, Goto
<1>21. CASE WriteDone
  BY <1>21 DEF WriteDone, Subscribe, WriteReturns, IInv, PlaceInv, Callers
<1>22. CASE WriteEnds
  BY <1>22, ArmState DEF WriteEnds, EnterError, EnterCloseTransport, MoveTo,
     WriteReturns, IInv, PlaceInv, Callers
<1>23. ASSUME NEW n \in 1..Unread(tx), WriteData(n) PROVE FlushInv'
  BY <1>23 DEF WriteData
<1>24. ASSUME NEW st \in ProtocolStatus, NEW m \in 0..Room(tx, TX_CAP),
   OnConnect(st, m) PROVE FlushInv'
  BY <1>24 DEF OnConnect, Bind, Unwind, EnterError, IInv, PlaceInv
<1>25. ASSUME NEW st \in ProtocolStatus, NEW k \in 0..Unread(rx), NEW m \in
   0..Room(tx, TX_CAP), OnData(st, k, m) PROVE FlushInv'
  BY <1>25 DEF OnData, Bind, Unwind, EnterError, IInv, PlaceInv
<1>26. ASSUME NEW st \in ProtocolStatus, NEW k \in 0..Unread(rx), NEW m \in
   0..Room(tx, TX_CAP), OnShutdown(st, k, m) PROVE FlushInv'
  BY <1>26 DEF OnShutdown, Unwind, MoveTo, EnterError
<1>27. CASE Consumed
  BY <1>27 DEF Consumed, Goto
<1>28. CASE Bound
  BY <1>28 DEF Bound, Goto
<1>29. CASE Closing
  BY <1>29 DEF Closing, EnterCloseProtocol, Goto, Write, Unwind,
     EnterCloseTransport, MoveTo
<1>30. CASE Flushed
  BY <1>30 DEF Flushed, Goto, Unwind, EnterCloseTransport, MoveTo
<1>31. CASE Unflushed
  BY <1>31 DEF Unflushed, Goto, Unwind, MoveTo
<1>32. CASE Shut
  BY SMTT(40), <1>32 DEF Shut, Goto, Unwind
<1>33. CASE UNCHANGED vars
  BY <1>33 DEF vars
<1> QED
  BY ZenonT(40), <1>1, <1>2, <1>3, <1>4, <1>5, <1>6, <1>7, <1>8, <1>9, <1>10, <1>11,
     <1>12, <1>13, <1>14, <1>15, <1>16, <1>17, <1>18, <1>19, <1>20, <1>21,
     <1>22, <1>23, <1>24, <1>25, <1>26, <1>27, <1>28, <1>29, <1>30, <1>31,
     <1>32, <1>33, DeliverableBits, <1>0 DEF Next, Invoke, Run, Handler, Read,
     Written, Gone, vars

(* Every step that leaves an open descriptor waiting has answered the edge. *)
LEMMA EdgeInvStep == IInv /\ EdgeInv /\ [Next]_vars => EdgeInv'
<1> SUFFICES ASSUME IInv, EdgeInv, [Next]_vars PROVE EdgeInv'
  OBVIOUS
<1>0. TypeOK BY DEF IInv
<1> USE StatusAssumption DEF EdgeInv, Writing, Talking, life, frame
<1>1. CASE Attach
  BY <1>1 DEF Attach, EnterUninitialized, DialFails, DialPending,
     DialConnects, Goto, Return
<1>2. CASE Restart
  BY <1>2 DEF Restart, EnterUninitialized, DialFails, DialPending,
     DialConnects, Goto, Return
<1>3. CASE Stop
  BY <1>3 DEF Stop, EnterClosed, EnterCloseTransport, MoveTo,
     EnterCloseProtocol, Goto
<1>4. CASE Destruct
  BY <1>4 DEF Destruct, Goto
<1>5. ASSUME NEW e \in (SUBSET EventBits) \ {{}}, HandleEvent(e) PROVE EdgeInv'
  BY <1>5 DEF HandleEvent
<1>6. ASSUME NEW m \in 0..Room(tx, TX_CAP), Heartbeat(m) PROVE EdgeInv'
  BY <1>6 DEF Heartbeat, Write
<1>7. CASE Steps
  BY <1>7 DEF Steps, Return, IInv, PlaceInv, Done
<1>8. CASE StepsBottom
  BY SMTT(40), <1>8 DEF StepsBottom, Return, Goto
<1>9. CASE StepInProgress
  BY <1>9 DEF StepInProgress, EnterError, Goto, IInv, PlaceInv, Teardown
<1>10. CASE InitFails
  BY <1>10 DEF InitFails, FdClosed, Goto
<1>11. CASE InitSucceeds
  BY SMTT(40), <1>11 DEF InitSucceeds, EnterProtocol, Goto, Write
<1>12. CASE StepTransport
  BY <1>12, ArmEffect DEF StepTransport, EnterError, EnterProtocol, Goto,
     Write, IInv, PlaceInv, Armed, Teardown, TransportStatus
<1>13. CASE StepProtocol
  BY <1>13 DEF StepProtocol, Goto
<1>14. CASE StepDrainProtocol
  BY SMTT(40), <1>14 DEF StepDrainProtocol, Goto, Write
<1>15. CASE StepCloseTransport
  BY <1>15, ArmEffect DEF StepCloseTransport, EnterError, EnterClosed, Goto,
     IInv, PlaceInv, Armed, Teardown, TransportStatus
<1>16. CASE ReadOverflows
  BY SMTT(40), <1>16 DEF ReadOverflows, EnterError, Goto, IInv, PlaceInv, Reading,
     Teardown
<1>17. CASE ReadEnds
  BY <1>17, ArmEffect DEF ReadEnds, EnterError, EnterCloseTransport, MoveTo,
     Goto, IInv, PlaceInv, Armed, Teardown, TransportStatus, Reading
<1>18. CASE AfterRead
  BY <1>18 DEF AfterRead, Goto, Write, IInv, PlaceInv, Reading
<1>19. CASE Drained
  BY <1>19 DEF Drained, EnterCloseTransport, MoveTo, Goto, IInv, PlaceInv
<1>20. ASSUME NEW n \in 1..Room(rx, RX_CAP), ReadData(n) PROVE EdgeInv'
  BY <1>20 DEF ReadData, Goto
<1>21. CASE WriteDone
  BY <1>21 DEF WriteDone, Subscribe, WriteReturns, IInv, PlaceInv, Callers
<1>22. CASE WriteEnds
  BY <1>22, ArmEffect DEF WriteEnds, EnterError, EnterCloseTransport, MoveTo,
     WriteReturns, IInv, PlaceInv, Armed, Teardown, TransportStatus, Callers
<1>23. ASSUME NEW n \in 1..Unread(tx), WriteData(n) PROVE EdgeInv'
  BY <1>23 DEF WriteData
<1>24. ASSUME NEW st \in ProtocolStatus, NEW m \in 0..Room(tx, TX_CAP),
   OnConnect(st, m) PROVE EdgeInv'
  BY <1>24 DEF OnConnect, Bind, Unwind, EnterError
<1>25. ASSUME NEW st \in ProtocolStatus, NEW k \in 0..Unread(rx), NEW m \in
   0..Room(tx, TX_CAP), OnData(st, k, m) PROVE EdgeInv'
  BY SMTT(40), <1>25 DEF OnData, Bind, Unwind, EnterError
<1>26. ASSUME NEW st \in ProtocolStatus, NEW k \in 0..Unread(rx), NEW m \in
   0..Room(tx, TX_CAP), OnShutdown(st, k, m) PROVE EdgeInv'
  BY <1>26 DEF OnShutdown, Unwind, MoveTo, EnterError, IInv, PlaceInv
<1>27. CASE Consumed
  BY <1>27 DEF Consumed, Goto
<1>28. CASE Bound
  BY <1>28 DEF Bound, Goto, IInv, PlaceInv
<1>29. CASE Closing
  BY <1>29 DEF Closing, EnterCloseProtocol, Goto, Write, Unwind,
     EnterCloseTransport, MoveTo
<1>30. CASE Flushed
  BY <1>30 DEF Flushed, Goto, Unwind, EnterCloseTransport, MoveTo
<1>31. CASE Unflushed
  BY <1>31 DEF Unflushed, Goto, Unwind, MoveTo
<1>32. CASE Shut
  BY SMTT(40), <1>32 DEF Shut, Goto, Unwind, IInv, PlaceInv
<1>33. CASE UNCHANGED vars
  BY <1>33 DEF vars
<1> QED
  BY ZenonT(40), <1>1, <1>2, <1>3, <1>4, <1>5, <1>6, <1>7, <1>8, <1>9, <1>10, <1>11,
     <1>12, <1>13, <1>14, <1>15, <1>16, <1>17, <1>18, <1>19, <1>20, <1>21,
     <1>22, <1>23, <1>24, <1>25, <1>26, <1>27, <1>28, <1>29, <1>30, <1>31,
     <1>32, <1>33, DeliverableSome, <1>0 DEF Next, Invoke, Run, Handler, Read,
     Written, Gone, vars


\* The moves between the machine states that the code makes.
StateMove ==
  \/ state' \in {state, "error", "closed"}
  \/ /\ state' = "close_transport"
     /\ state = "drain_protocol" /\ fd # NoFd => Unread(tx) = 0 \/ pc = "write"
  \/ /\ state' = "drain_protocol"
     /\ \/ state \in {"protocol", "close_protocol", "error"}
        \/ /\ state = "close_transport"
           /\ ~HasProtocolShutdown /\ "close" \in WriteStatus
  \/ state' = "close_protocol" /\ state = "protocol"
  \/ state' = "protocol" /\ state \in {"uninitialized", "in_progress", "transport"}
  \/ state' = "transport" /\ state \in {"uninitialized", "in_progress"}
  \/ /\ state' \in {"uninitialized", "in_progress"} /\ pc = "idle"
     /\ state \in {"uninitialized", "error", "closed"}

\* A method that had an edge to answer returns.
Answered ==
  pc # "idle" /\ pc' = "idle" /\ ev \cap {"in", "out"} # {} /\ fd' # NoFd
    => edge' = "armed"

(* Every step makes one of these moves, and a method that returns has       *)
(* answered its edge.                                                       *)
LEMMA MoveStep == IInv /\ FlushInv /\ EdgeInv /\ [Next]_vars => StateMove /\ Answered
<1> SUFFICES ASSUME IInv, FlushInv, EdgeInv, [Next]_vars PROVE StateMove /\ Answered
  OBVIOUS
<1>0. TypeOK BY DEF IInv
<1> USE StatusAssumption DEF StateMove, Answered, life, frame
<1>1. CASE Attach
  BY <1>1 DEF Attach, EnterUninitialized, DialFails, DialPending,
     DialConnects, Goto, Return, IInv, PlaceInv
<1>2. CASE Restart
  BY <1>2 DEF Restart, EnterUninitialized, DialFails, DialPending,
     DialConnects, Goto, Return, IInv, PlaceInv, Done
<1>3. CASE Stop
  BY <1>3 DEF Stop, EnterClosed, EnterCloseTransport, MoveTo,
     EnterCloseProtocol, Goto
<1>4. CASE Destruct
  BY <1>4 DEF Destruct, Goto
<1>5. ASSUME NEW e \in SUBSET EventBits, HandleEvent(e) PROVE StateMove /\ Answered
  BY <1>5 DEF HandleEvent
<1>6. ASSUME NEW m \in 0..Room(tx, TX_CAP), Heartbeat(m) PROVE StateMove /\ Answered
  BY <1>6 DEF Heartbeat, Write
<1>7. CASE Steps
  BY <1>7 DEF Steps, Return, IInv, Descriptors, Done
<1>8. CASE StepsBottom
  BY <1>8 DEF StepsBottom, Return, Goto, IInv, PlaceInv, EdgeInv
<1>9. CASE StepInProgress
  BY <1>9 DEF StepInProgress, EnterError, Goto
<1>10. CASE InitFails
  BY <1>10 DEF InitFails, FdClosed, Goto
<1>11. CASE InitSucceeds
  BY <1>11 DEF InitSucceeds, EnterProtocol, Goto, Write, IInv, PlaceInv
<1>12. CASE StepTransport
  BY <1>12, ArmState DEF StepTransport, EnterError, EnterProtocol, Goto,
     Write
<1>13. CASE StepProtocol
  BY <1>13 DEF StepProtocol, Goto
<1>14. CASE StepDrainProtocol
  BY <1>14 DEF StepDrainProtocol, Goto, Write
<1>15. CASE StepCloseTransport
  BY <1>15, ArmState DEF StepCloseTransport, EnterError, EnterClosed, Goto
<1>16. CASE ReadOverflows
  BY <1>16 DEF ReadOverflows, EnterError, Goto
<1>17. CASE ReadEnds
  BY SMTT(40), <1>17, ArmState DEF ReadEnds, EnterError, EnterCloseTransport, MoveTo,
     Goto, IInv, PlaceInv, Reading
<1>18. CASE AfterRead
  BY <1>18 DEF AfterRead, Goto, Write, IInv, PlaceInv, Reading
<1>19. CASE Drained
  BY <1>19 DEF Drained, EnterCloseTransport, MoveTo, Goto, IInv, PlaceInv,
     FlushInv
<1>20. ASSUME NEW n \in 1..Room(rx, RX_CAP), ReadData(n) PROVE StateMove /\ Answered
  BY <1>20 DEF ReadData, Goto
<1>21. CASE WriteDone
  BY <1>21 DEF WriteDone, Subscribe, WriteReturns, IInv, PlaceInv, Callers,
     EdgeInv, Writing
<1>22. CASE WriteEnds
  BY <1>22, ArmState DEF WriteEnds, EnterError, EnterCloseTransport, MoveTo,
     WriteReturns, IInv, PlaceInv, Callers, EdgeInv, Writing
<1>23. ASSUME NEW n \in 1..Unread(tx), WriteData(n) PROVE StateMove /\ Answered
  BY <1>23 DEF WriteData
<1>24. ASSUME NEW st \in ProtocolStatus, NEW m \in 0..Room(tx, TX_CAP),
   OnConnect(st, m) PROVE StateMove /\ Answered
  BY <1>24 DEF OnConnect, Bind, Unwind, EnterError
<1>25. ASSUME NEW st \in ProtocolStatus, NEW k \in 0..Unread(rx), NEW m \in
   0..Room(tx, TX_CAP), OnData(st, k, m) PROVE StateMove /\ Answered
  BY SMTT(40), <1>25 DEF OnData, Bind, Unwind, EnterError
<1>26. ASSUME NEW st \in ProtocolStatus, NEW k \in 0..Unread(rx), NEW m \in
   0..Room(tx, TX_CAP), OnShutdown(st, k, m) PROVE StateMove /\ Answered
  BY <1>26 DEF OnShutdown, Unwind, MoveTo, EnterError, IInv, PlaceInv
<1>27. CASE Consumed
  BY <1>27 DEF Consumed, Goto
<1>28. CASE Bound
  BY <1>28 DEF Bound, Goto
<1>29. CASE Closing
  BY <1>29 DEF Closing, EnterCloseProtocol, Goto, Write, Unwind,
     EnterCloseTransport, MoveTo, IInv, PlaceInv, FlushInv, Writing
<1>30. CASE Flushed
  BY <1>30 DEF Flushed, Goto, Unwind, EnterCloseTransport, MoveTo, IInv,
     PlaceInv, FlushInv, Writing
<1>31. CASE Unflushed
  BY <1>31 DEF Unflushed, Goto, Unwind, MoveTo, IInv, PlaceInv, FlushInv,
     Writing
<1>32. CASE Shut
  BY SMTT(40), <1>32 DEF Shut, Goto, Unwind
<1>33. CASE UNCHANGED vars
  BY <1>33 DEF vars
<1> QED
  BY ZenonT(40), <1>1, <1>2, <1>3, <1>4, <1>5, <1>6, <1>7, <1>8, <1>9, <1>10, <1>11,
     <1>12, <1>13, <1>14, <1>15, <1>16, <1>17, <1>18, <1>19, <1>20, <1>21,
     <1>22, <1>23, <1>24, <1>25, <1>26, <1>27, <1>28, <1>29, <1>30, <1>31,
     <1>32, <1>33, DeliverableBits, <1>0 DEF Next, Invoke, Run, Handler, Read,
     Written, Gone, vars

(* What holds between the call of a method and its return holds in every   *)
(* reachable state.                                                         *)
THEOREM ActionInvariance == Spec => [](IInv /\ FlushInv /\ EdgeInv)
<1>1. Init => FlushInv /\ EdgeInv
  BY DEF Init, FlushInv, EdgeInv, Writing
<1> QED
  BY <1>1, InitInv, StepInv, FlushInvStep, EdgeInvStep, PTL DEF Spec

(* As long as the descriptor is open, a draining session is left for        *)
(* close_transport only with nothing left in _tx, unless write() answered   *)
(* close.                                                                   *)
THEOREM FlushedHolds == Spec => FlushedBeforeClose
<1> DEFINE A == state = "drain_protocol" /\ state' = "close_transport" /\ fd # NoFd
                => Unread(tx) = 0 \/ pc = "write"
<1>1. IInv /\ FlushInv /\ EdgeInv /\ [Next]_vars => [A]_vars
  BY MoveStep DEF StateMove
<1>2. Spec => [](IInv /\ FlushInv /\ EdgeInv)
  BY ActionInvariance
<1> QED
  BY <1>1, <1>2, PTL DEF Spec, FlushedBeforeClose

(* No method that was given a readable or writeable edge returns with the   *)
(* descriptor open and the edge unanswered.                                 *)
THEOREM EdgesHold == Spec => EdgesAreAnswered
<1> DEFINE A == pc # "idle" /\ pc' = "idle" /\ ev \cap {"in", "out"} # {} /\ fd' # NoFd
                => edge' = "armed"
<1>1. IInv /\ FlushInv /\ EdgeInv /\ [Next]_vars => [A]_vars
  BY MoveStep DEF Answered
<1>2. Spec => [](IInv /\ FlushInv /\ EdgeInv)
  BY ActionInvariance
<1> QED
  BY <1>1, <1>2, PTL DEF Spec, EdgesAreAnswered

(* The machine states are passed in the order of connection.hpp:53-74, for  *)
(* a session with on_shutdown, and for any session over a transport whose   *)
(* write() never answers close.  (A TLS write() may: then bind_protocol's   *)
(* second write sends a closing connection back to drain_protocol.)         *)
THEOREM ForwardHolds ==
  ASSUME HasProtocolShutdown \/ "close" \notin WriteStatus
  PROVE  Spec => ForwardOnly
<1>1. IInv /\ FlushInv /\ EdgeInv /\ [Next]_vars =>
        [~Done => Rank(state) <= Rank(state')]_vars
  <2> SUFFICES ASSUME IInv, StateMove, ~Done PROVE Rank(state) <= Rank(state')
    BY MoveStep
  <2>1. state \in States
    BY DEF IInv, TypeOK
  <2> QED
    BY <2>1 DEF StateMove, Rank, States, Done
<1>2. Spec => [](IInv /\ FlushInv /\ EdgeInv)
  BY ActionInvariance
<1> QED
  BY <1>1, <1>2, PTL DEF Spec, ForwardOnly

-----------------------------------------------------------------------------
\* Connection implements ConnectionContract

\* The states on the way up.  No method goes back to them from the others.
Opening == {"uninitialized", "in_progress", "transport", "protocol"}

\* What is known of the contract's phase while a method runs: between calls
\* it is the phase of the state, and during a call that of the state the call
\* was made in.
CallInv ==
  /\ pc = "idle" => phase = IF cookie = "unset" THEN "none" ELSE PhaseOf(state)
  /\ pc \notin {"idle", "gone"} =>
       \/ running = "attach" /\ phase = "none"
       \/ running = "restart" /\ phase \in {"closed", "error"}
       \/ /\ running = "event"
          /\ phase = "open" \/ (phase = "closing" /\ state \notin Opening)
       \/ /\ running = "stop"
          /\ phase \in {"open", "closing"} /\ state \notin Opening
       \/ /\ running = "stop"
          /\ phase \in {"closed", "error"} /\ pc = "steps" /\ Done
          /\ phase = PhaseOf(state)
       \/ running = "heartbeat" /\ phase = "open" /\ Writing("idle") /\ state = "protocol"

(* The phases of the machine states.                                       *)
LEMMA PhaseFacts ==
  ASSUME NEW s \in States
  PROVE  /\ PhaseOf(s) = "open" <=> s \in {"in_progress", "transport", "protocol"}
         /\ PhaseOf(s) = "closing" <=>
              s \in {"close_protocol", "drain_protocol", "close_transport"}
         /\ PhaseOf(s) = "closed" <=> s = "closed"
         /\ PhaseOf(s) = "error" <=> s = "error"
         /\ PhaseOf(s) = "uninitialized" <=> s = "uninitialized"
         /\ PhaseOf(s) \in {"open", "closing", "closed", "error", "uninitialized"}
BY DEF PhaseOf, States

(* A step of a running method leaves the cookie alone and does not destroy  *)
(* the connection; stop() of a connection that is done returns at once, and *)
(* heartbeat() only writes.                                                 *)
LEMMA RunStep ==
  ASSUME IInv, Run
  PROVE  /\ pc \notin {"idle", "gone"} /\ pc' # "gone" /\ UNCHANGED cookie
         /\ pc = "steps" /\ Done => pc' = "idle" /\ UNCHANGED state
         /\ Writing("idle") /\ state = "protocol" =>
              \/ pc' = "idle" /\ state' \in {"protocol", "close_transport", "error"}
              \/ UNCHANGED <<pc, wret, state>>
<1> USE StatusAssumption DEF Writing, Done, life, frame
<1>1. CASE Steps \/ StepsBottom
  BY <1>1 DEF Steps, StepsBottom, Return, Goto
<1>2. CASE StepInProgress \/ InitFails \/ InitSucceeds \/ StepTransport
  BY <1>2 DEF StepInProgress, InitFails, InitSucceeds, StepTransport,
     EnterProtocol, Goto, Write
<1>3. CASE StepProtocol \/ StepDrainProtocol \/ StepCloseTransport
  BY <1>3 DEF StepProtocol, StepDrainProtocol, StepCloseTransport, Goto, Write
<1>4. CASE Handler
  BY <1>4 DEF Handler, OnConnect, OnData, OnShutdown, Bind, Unwind
<1>5. CASE Read
  BY <1>5 DEF Read, ReadOverflows, ReadEnds, AfterRead, Drained, ReadData, Goto, Write
<1>6. CASE WriteDone \/ WriteEnds
  BY <1>6, ArmState DEF IInv, PlaceInv, Callers, WriteDone, WriteEnds, WriteReturns,
     EnterCloseTransport, MoveTo
<1>7. ASSUME NEW n \in 1..Unread(tx), WriteData(n)
      PROVE  pc = "write" /\ UNCHANGED <<state, pc, cookie, wret>>
  BY <1>7 DEF WriteData
<1>8. CASE Consumed \/ Bound \/ Closing \/ Flushed \/ Unflushed \/ Shut
  BY <1>8 DEF Consumed, Bound, Closing, Flushed, Unflushed, Shut, Goto, Write,
     Unwind, EnterCloseProtocol
<1> QED
  BY <1>1, <1>2, <1>3, <1>4, <1>5, <1>6, <1>7, <1>8 DEF Run, Written

(* Every step of Connection is a step of the contract or leaves it alone.   *)
LEMMA ContractStep ==
  IInv /\ IInv' /\ FlushInv /\ EdgeInv /\ CallInv /\ [RefNext]_<<vars, history>>
    => CallInv' /\ [Contract!Next]_<<phase, call>>
<1> SUFFICES ASSUME IInv, IInv', FlushInv, EdgeInv, CallInv, [RefNext]_<<vars, history>>
             PROVE  CallInv' /\ [Contract!Next]_<<phase, call>>
  OBVIOUS
<1> DEFINE A == {"open", "closing", "closed", "error"}
<1> USE DEF Contract!Next, Contract!Phases, Contract!DonePhases
<1>0. /\ state \in States /\ state' \in States
      /\ pc' # "connected" /\ cookie' = "set" => state' # "uninitialized"
      /\ cookie = "unset" => state = "uninitialized"
      /\ state = "uninitialized" /\ pc = "idle" => cookie = "unset"
  BY DEF IInv, TypeOK, PlaceInv
<1> USE <1>0, PhaseFacts
<1>1. CASE Attach /\ Calls("attach")
  <2>1. /\ pc = "idle" /\ cookie = "unset" /\ cookie' = "set"
        /\ \/ pc' = "idle"
           \/ pc' = "connected"
    BY <1>1 DEF Attach, EnterUninitialized, DialFails, DialPending, DialConnects,
       Return, Goto
  <2> QED
    BY <1>1, <2>1 DEF Calls, CallInv, history, Contract!Attach, Contract!AfterDial
<1>2. CASE Restart /\ Calls("restart")
  <2>1. /\ pc = "idle" /\ Done /\ UNCHANGED cookie
        /\ \/ pc' = "idle"
           \/ pc' = "connected"
    BY <1>2 DEF Restart, EnterUninitialized, DialFails, DialPending, DialConnects,
       Return, Goto
  <2>2. phase \in {"closed", "error"} /\ cookie \in {"unset", "set"} /\ cookie # "unset"
    BY SMTT(40), <2>1 DEF CallInv, Done, IInv, TypeOK
  <2> QED
    BY <1>2, <2>1, <2>2 DEF Calls, CallInv, history, Contract!Restart,
       Contract!AfterDial
<1>3. CASE Stop /\ Calls("stop")
  <2>1. /\ pc = "idle" /\ cookie = "set" /\ UNCHANGED cookie
        /\ pc' \in {"steps", "shutdown"}
        /\ state' \notin Opening
        /\ Done => pc' = "steps" /\ UNCHANGED state
    BY <1>3 DEF Stop, EnterClosed, EnterCloseTransport, EnterCloseProtocol, MoveTo,
       Goto, Done, Opening, life
  <2> QED
    BY <1>3, <2>1 DEF Calls, CallInv, Done
<1>4. CASE (\E e \in Deliverable : HandleEvent(e)) /\ Calls("event")
  <2>1. /\ pc = "idle" /\ cookie = "set" /\ ~Done /\ pc' = "steps"
        /\ UNCHANGED <<state, cookie>>
    BY <1>4 DEF HandleEvent
  <2> QED
    BY <1>4, <2>1 DEF Calls, CallInv, Done, Opening, States
<1>5. CASE (\E m \in 0..Room(tx, TX_CAP) : Heartbeat(m)) /\ Calls("heartbeat")
  <2>1. /\ pc = "idle" /\ state = "protocol" /\ pc' = "write" /\ wret' = "idle"
        /\ UNCHANGED <<state, cookie>>
    BY <1>5 DEF Heartbeat, Write, life
  <2> QED
    BY <1>5, <2>1 DEF Calls, CallInv, Writing
<1>6. CASE Run /\ Continues
  <2>1. /\ pc \notin {"idle", "gone"} /\ pc' # "gone" /\ cookie' = "set"
        /\ state \notin Opening => state' \notin Opening
    <3>1. cookie = "set"
      BY <1>6, RunStep DEF IInv, TypeOK, PlaceInv
    <3>2. Next
      BY <1>6 DEF Next
    <3>3. StateMove
      BY <3>2, MoveStep
    <3> QED
      BY <1>6, <3>1, <3>3, RunStep DEF StateMove, Opening
  <2>2. CASE pc' = "idle"
    <3>1. phase' = PhaseOf(state') /\ call' = running
      BY <1>6, <2>2 DEF Continues
    <3>2. phase' \in A /\ (state' \notin Opening => phase' # "open")
      BY <2>1, <2>2, <3>1 DEF Opening
    <3>3. Contract!Next
      BY <1>6, <2>1, <3>1, <3>2, RunStep DEF CallInv, Contract!Attach,
         Contract!Restart, Contract!HandleEvent, Contract!Stop, Contract!Heartbeat,
         Contract!AfterDial, Contract!AfterEvent, Contract!AfterStop,
         Contract!AfterHeartbeat
    <3> QED
      BY <2>1, <2>2, <3>1, <3>3 DEF CallInv
  <2>3. CASE pc' # "idle"
    <3>1. UNCHANGED <<running, phase, call>>
      BY <1>6, <2>3 DEF Continues, history
    <3> QED
      BY <1>6, <2>1, <2>3, <3>1, RunStep DEF CallInv, Writing
  <2> QED
    BY <2>2, <2>3
<1>7. CASE (Destruct \/ Gone) /\ UNCHANGED history
  <2>1. pc' = "gone" /\ UNCHANGED <<phase, call>>
    BY <1>7 DEF Destruct, Gone, Goto, vars, history
  <2> QED
    BY <2>1 DEF CallInv
<1>8. CASE UNCHANGED <<vars, history>>
  BY <1>8 DEF vars, life, frame, history, CallInv, Writing, Done
<1> QED
  BY <1>1, <1>2, <1>3, <1>4, <1>5, <1>6, <1>7, <1>8 DEF RefNext

(* Seen from the reactor, a connection moves only between the phases the    *)
(* contract allows for the method that was called.                          *)
THEOREM KeepsContract == RefSpec => ImplementsContract
<1>1. RefInit => Init /\ CallInv /\ Contract!Init
  BY DEF RefInit, Init, CallInv, Contract!Init
<1>2. [RefNext]_<<vars, history>> => [Next]_vars
  BY DEF RefNext, Next, Invoke, vars
<1>3. Init => IInv /\ FlushInv /\ EdgeInv
  BY InitInv DEF Init, FlushInv, EdgeInv, Writing
<1>4. IInv /\ FlushInv /\ EdgeInv /\ [Next]_vars => (IInv /\ FlushInv /\ EdgeInv)'
  BY StepInv, FlushInvStep, EdgeInvStep
<1> QED
  BY <1>1, <1>2, <1>3, <1>4, ContractStep, PTL
     DEF RefSpec, ImplementsContract, Contract!Spec

=============================================================================
