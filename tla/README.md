# A TLA+ model of manet

manet is a single-threaded, edge-triggered network reactor in C++23. This
directory holds TLA+ modules for its parts, TLC configurations for small
instances of them, and TLAPS proofs. Source paths below are relative to
the repository.

## The system

| part | source | what it does |
|---|---|---|
| Buffer, IO views | `include/manet/reactor/{buffer,io}.hpp` | two cursors into a fixed array; `Input` reads, `Output` writes |
| Connection | `include/manet/reactor/connection.hpp` | the state machine of one connection: dial, handshake, protocol, three stages of shutdown, restart |
| Reactor | `include/manet/reactor.hpp` | a static tuple of connections, the poll loop, restarts, the heartbeat, shutdown on a signal |
| Net backends | `include/manet/net`, `src/manet/net` | epoll and F-Stack (kqueue): subscriptions, polling, `signal()`, `stop()` |
| dial | `include/manet/net/dial.hpp` | a non-blocking connect to the first address that works |
| transports | `include/manet/transport`, `src/manet/transport` | plain sockets and TLS over OpenSSL |
| WebSocket | `include/manet/protocol`, `src/manet/protocol` | upgrade handshake, frames, reassembly, control frames |
| examples | `examples` | a network thread, a worker thread, a main thread that calls `Net::signal()` |

The reactor polls the Net and passes each event to `handle_event` of the
connection whose address the event carries. The connection runs `steps()`
until its state no longer changes; on the way it calls the transport's endpoint
(`read`, `write`, `handshake_step`, `shutdown_step`) and the session's handlers
(`on_connect`, `on_data`, `on_shutdown`, `teardown`), and it re-registers its
descriptor with the Net. Everything happens on one thread, except
`Net::signal()`, which another thread calls.

What makes this hard: handlers, reads and writes are nested loops in which any
call may change the state under its caller; events are edges, so a forgotten
registration is a connection that sleeps for good; a batch of events outlives
the restart of a connection; a signal may arrive before the backend is up, while
it goes down, or twice; shutdown has three stages, each of which can be cut
short. The properties worth having: descriptors, endpoints and sessions are each
released exactly once; handlers run only where they may; a waiting connection is
registered for what it waits for; every call returns; output is flushed before
the transport closes; a signal ends the reactor with every connection done; the
codec gets exactly the messages the server sent.

## Modules

| module | models | state and actions |
|---|---|---|
| `Buffer` | the cursors of `Buffer<CAP>` | operators, named in their comments after `rbuf`, `wbuf`, `inc_rpos`, `inc_wpos`, `full`, `clear` |
| `ByteQueue` | (abstract) a queue of bytes | `Produce`, `Consume` |
| `BufferQueue` | `Buffer<CAP>` with its bytes | `WriteBytes`, `ReadBytes`, `Clear`; implements `ByteQueue` |
| `Dial` | `net::dial` | one action per system call, one for the loop |
| `Interest` | `subscribe` and `clear` of both Nets | the calls `subscribe` makes, and the kernel's registration and pending event per descriptor |
| `Endpoint` | `Plain::Endpoint`, `Tls::Endpoint`, the BIO | `read`, `write`, `handshake_step`, `shutdown_step`, broken at each system call; OpenSSL as an engine over records |
| `Socket` | one socket under `Connection` | composes `Dial`, `Interest` and `Endpoint` with a network that moves between any two calls |
| `Connection` | `reactor::Connection` | the members, what the kernel keeps for the descriptor, and the place `pc` in the running method; one action per method, step and return from an outside call |
| `ConnectionContract` | (abstract) what the reactor may rely on | the phase a public method leaves the connection in |
| `ConnectionRefines` | the link between the two | history variables record the running method; `Contract!Spec` is the property |
| `Reactor` | `reactor::Reactor`, `Epoll`, the loop side of `FStack` | phases of the connections, ready events, the batch, the eventfd, the stopping flag; the thread in `run()` and the caller of `signal()` interleave |
| `ReactorContract` | (abstract) what a program around the reactor may rely on | where `run()` is, and when a signal counts |
| `Example` | `examples/` | `main()`, the network thread over `ReactorContract`, the worker, the queue between them, the signals |
| `WebSocketSession` | `WebSocket<Codec>::Session` | session, what it wrote, what the codec got, and a server that may break the framing rules |
| `WireFormat` | `parse_frame`, `read_handshake`, control frames, base64 | operators on sequences of bytes |
| `Wire`, `MCWire` | the bytes of a WebSocket connection | the server's stream through a `BufferQueue`, cut anywhere; scenarios for TLC |
| `SocketProofs`, `ConnectionProofs`, `ReactorProofs`, `ExampleProofs`, `WebSocketSessionProofs`, `WirePartsProofs`, `HandshakeProofs`, `WireProofs` | proofs | |

The modules meet at contracts. `Socket` shows what the layers below a connection
do at the level of system calls. `Connection` takes their answers as arbitrary
members of a set of statuses, and implements `ConnectionContract`. `Reactor` uses
a connection only through that contract, and implements `ReactorContract`.
`Example` uses the reactor only through that one. On the protocol side, `Wire` is
about bytes and stops where a frame is recognised; `WebSocketSession` starts there.

**Connection.** A public method runs to its end in the code. The model stops at
every call that leaves the class, because the peer, the kernel or user code
decides what it answers. `pc = "idle"` means no method is running; `before` is
the variable of that name in `steps()`, `wret` says where `transport_write`
returns to, and `mark` is the size a handler loop compares with. `{}` as the
event is the null pointer of `steps(nullptr)`. The optional parts of a transport
or a session (`if constexpr` in the code) are the constants `Has...`; what a
transport may answer is `ReadStatus`, `WriteStatus`, `StepStatus`. Plain and TLS
`read` answer `ok` exactly when they appended bytes, which `ReadData` relies on.
`edge` records whether the descriptor was registered since its last event.

**Socket.** `Interest` keeps what is registered (`reg`) and which edges are
pending (`active`): one flag for the descriptor on epoll, one per filter on a
kqueue, where `subscribe` deletes and adds filters in separate calls. Whether the
socket is readable or writeable is `Level`, which the network changes between any
two system calls. The session's handlers only answer `ok`, and take what was read;
a handler that closes or fails, an overflowing `_rx` and `drain_protocol` are in
`Connection`. In `Endpoint`, a TLS record comes off the socket in two halves,
so a read may stop in the middle of one; the engine keeps decrypted bytes that no
event announces, and an error queue that is shared by the connections of the
thread (`OtherFails`). The network may deliver, free room, end the stream or
reset it. It pauses inside a method except at a system call (`AtCall`): nothing
the method does in between looks at the socket, so the pause only removes
equivalent interleavings.

**Reactor.** A connection is a phase (`none`, `open`, `closing`, `closed`,
`error`), and a call moves it as `ConnectionContract` allows. An event carries
the incarnation (`gen`) it was raised for. `Net::signal()` is two steps, the test
of `_signal_fd` and the write, so that `init()` and `stop()` can come between.
With `Backend = "fstack"` a descriptor has one event per filter, the trigger in
`signal()` finds no registered filter, and `ff_run` calls the loop again
whatever `stop()` did.

**Example.** Creating or pinning a thread may fail at each step, and a signal to
the process may come at any moment, before `sigwait` included. The queue is a
library's single-producer single-consumer queue, with atomic operations. A level
is a pair of diff and position, so that a hole in what the worker prints shows.

**WebSocketSession.** A frame is a record of opcode, FIN bit and a number that
stands for its payload; a fragment fills one unit of `msg_buf`. A frame that is
not complete yet changes nothing (`need_more`). What an outgoing message needs in
`_tx` is the Boolean `room`. `http_other` stands for every answer
`read_handshake` rejects, `malformed` for a masked frame or reserved bits. The
codec may write when it gets a message (`data`). Up to
`MAX_STRAY` frames break the rules of fragmentation.

**Wire.** The response and the frames are made by a reference encoder (`Text`,
`Encoded`) that is not derived from the parser. They arrive byte by byte, and
`on_data` may run or not between two bytes. SHA-1 is external; the model
uses another function of the key, since only equality of the result matters.
A length of 64 bits is a number in two's complement, so that `hdr + len` wraps
where it does in the code; `HUGE` stands for all lengths that no buffer holds and
that do not wrap. A frame of form 0 announces such a length. Where a span would
reach beyond its buffer the model says so (`beyond`, `undefined`) and follows the
session no further. `OnShutdown` runs when the reactor stops, and
after every `close` of a handler (connection.hpp:717-719), the reply to a CLOSE
included; the code it sends is the codec's. Only a closed connection is restarted.

Definitions whose comment starts with "Faulty variant" are not part of any
specification. They are plausible slips in the definition that follows; putting
one in its place makes a property fail, which shows that the property is
sensitive to it.

## Runs

`tlc -config <cfg> <module>`.

| cfg | module | checks | instance |
|---|---|---|---|
| `Wire` | `MCWire` | `HandshakeAgrees`, `FramesInOrder`, `KeyDecodes`, `ControlDecodes`, `IsAQueue`, `AllIsParsed` | 170 bytes of buffer, 2 lives, send room of 5, 7, 8 or 131 bytes, with fairness |
| `Socket` | `Socket` | `OneDescriptor`, `ResultIsClear`, `NoLostEdge`, `NoHiddenData`, `CloseIsComplete`, `NothingLeft`, `DataIsNoticed`, `OutputLeaves` | either Net, either transport, 6 units of traffic, with fairness |
| `ConnectionRefines` | `ConnectionRefines` | `TypeOK`, `Descriptors`, `CallbacksInContext`, `TeardownOnce`, `WaitingIsSubscribed`, `EdgesAreAnswered`, `ForwardOnly`, `FlushedBeforeClose`, `ImplementsContract`, `MethodsReturn` | everything optional present, all answers, with fairness |
| `Connection_plain` | `ConnectionRefines` | `EdgesAreAnswered`, `FlushedBeforeClose` | nothing optional present, late events |
| `Reactor_epoll` | `Reactor` | `FreshEvents`, `CleanReturn`, `NoRevival`, `SignalDelivered`, `ImplementsReactorContract` | 2 connections, 1 restart each, 2 signals, with fairness |
| `Example` | `Example` | `WorkerOutlivesNet`, `StackOutlivesThreads`, `NoHoles`, `ProcessEnds` | a queue of 2, 2 diffs of up to 3 levels, 2 signals, with fairness |
| `WebSocketSession` | `WebSocketSession` | `TypeOK`, `Reassembly`, `PayloadOnce`, `PongsInOrder`, `QuietAfterClose` | 5 frames, 1 of them astray, messages of up to 3 fragments |

`Connection_plain` reaches the code that the other instance cannot: the branches
for a missing handler, a missing handshake and a missing shutdown, and events
that outlive their registration. It checks the two properties that these branches
handle differently; the proofs below cover every choice of optional parts for all
of the safety properties.

Five more runs check what a comment, a test or the README of the repository
says, and TLC finds a behaviour of the code that does otherwise:

| cfg | property | what happens |
|---|---|---|
| `Connection_error` | `ErrorIsFinal` | a write fails after the session asked to close; `bind_protocol` overwrites `error` with `close_transport`, and the connection ends as closed, which the reactor restarts |
| `Connection_endpoint` | `EndpointFreedOnce` | `stop()` or a failed connect in `in_progress` destroys an endpoint that `init` never produced |
| `Reactor_twice` | `SignalIsRecognised` | a second kill event in the batch that ends the reactor is taken for a connection's |
| `Reactor_closed` | `ClosedIsRestarted` | a connection that closes inside `attach()` or `restart()` stays closed |
| `Reactor_fstack` | `FreshEvents` | on a kqueue, the second filter's event reaches the restarted connection |

`PROJECT.json` quotes the lines on both sides. Smaller points show in the models
without a run of their own:

- A failed dial enters `error` without the session's `teardown()` (`DialFails`;
  README.md:48 says it is called "whenever the connection entered an error or
  closing state").
- A signal before `Net::init` is lost (`SignalTests` with no eventfd;
  README.md:67). In the example program an early SIGINT therefore leaves `main()`
  in `pthread_join` with further signals blocked (main.cc:188); `ProcessEnds`
  makes that exception explicit.
- `FStack::stop()` does not end the loop (`Beat` with `Backend = "fstack"`;
  reactor.hpp:28).
- The answer of the registering call is not looked at (`refused` in `Interest`): a
  connection whose registration failed waits for good.
- `read()` may answer `want_write`, when OpenSSL has a reply to send that does not
  fit. While the session runs, `arm` then registers for input and output
  (connection.hpp:684-686), but the event for room runs `transport_write` only
  (connection.hpp:571): the read, and with it the reply, is tried again when more
  data comes.
- `shutdown_step` answers `error` when only our `close_notify` is out
  (`AfterNotify`; tls.cc:97-104 has the other branch commented out), so
  a TLS close begun by the client ends in `error`, never in `closed`.
- OpenSSL's error queue belongs to the thread and is not cleared before a call
  (`OtherFails`): one connection's failure can decide what `SSL_get_error` says
  of another.
- The header search wants a capital `S` (websocket.cc:133): a response that spells
  `sec-websocket-accept` in lower case, as HTTP allows, is refused.
  `HandshakeAgrees` says so.
- The search for spaces runs on in a response that is not complete
  (websocket.cc:149), and `subspan` is asked for 28 bytes of the accept value
  where a refused response may have fewer (websocket.cc:213); neither result is
  used then, but a build that checks spans stops at the second (`undefined`).
- `hdr + len` wraps for the last ten lengths below 2^64 (websocket_frame.hpp:117),
  which RFC 6455 forbids; `parse_frame` then answers `ok` for a payload that is
  not there. `FramesInOrder` says that it is these lengths and no other.

**Bounds.** Buffers of 2 bytes are the least at which a partial read, a partial
write, a full buffer with room at its front, and an empty one all differ. The
session's handlers may take and append any number of bytes that fits. One
descriptor is enough for one connection: `Fds \ open` makes a leaked one visible
as a failure to dial again, and `Descriptors` as a state. A descriptor number is
therefore reused by the next life, as the kernel does. Two connections are
the least for which "all done" differs from "one done" and a batch has an order
among connections. One restart suffices for an event of an earlier life; the
bound is a guard (`MAX_RESTARTS`) and stops only that branch. `PERIOD = 2` polls
stands for 64.

In `Socket`, `MAX_TRAFFIC = 6` units in a life are a handshake, a data record in
two halves and a `close_notify`, with output in between (a unit of output counts
twice); `REC_BYTES = 2` leaves decrypted bytes behind a read, `ROOM = 1` fills the
send buffer at every write, and two addresses are the least for which a failed one
is followed by another. In `Wire`, `CAP = 170` holds the longest frame of the scenarios
(137 bytes) but not every stream as a whole, so the buffer is compacted and
overflows; rooms of 8 and 131 bytes exactly hold a CLOSE with its code and the
largest control frame, 7 is one byte too few for the first, 5 for any frame. The
scenarios hold the three forms of the length at their boundaries (125, 126, 127),
longer forms than needed, lengths on both sides of the one where the sum wraps,
fragments with a PING between them, and responses with a wrong code, a wrong key,
one that is cut off or none, and with the header's name in other cases. In `Example`, a queue of 2 under diffs of 3
levels drops levels in the middle of a diff and takes the next diff after it. Five
WebSocket frames are the handshake answer and four frames: two fragments with a
control frame between them and one after, or a message one fragment longer than
`msg_buf` holds.

**Fairness.** `ConnectionRefines!RefSpec`: a running method goes on (weak fairness
of `Run`), and a socket that is read again and again runs dry in the end (strong
fairness of `ReadEnds`): what the kernel has buffered is finite. No fairness is
assumed of handlers: `MethodsReturn` holds whatever they answer.
`Socket!FairSpec`: the thread goes on and `poll()` reports what is pending
(`Thread`), and the peer's kernel takes what was sent (`RoomFreed`; strong,
because `AtCall` pauses the network now and then). Nothing is assumed of what the
peer sends. `Wire!WireSpec`: bytes that were sent arrive, and `on_data` is called
while it takes something, which is the loop in the connection. `Reactor!FairSpec`:
the thread in `run()` and a started `signal()` go on, and the peer of a *closing*
connection answers in the end. The last is an assumption on peers, not on the
code: no stage of the shutdown has a timeout, and with a silent peer the reactor
does not stop. `Example!FairSpec`: each thread is scheduled, and a reactor that
was asked to stop ends, which is `SignalDelivered` of `Reactor`.

**Deadlock** is checked in every run but `Wire`. A destroyed connection, a returned
reactor, a finished session and an ended process are given an explicit stuttering
action, so that only an unintended stop counts. In `Wire` a stream that was read
to its end, or a session that stopped, has no further step.

## Proofs

`tlapm <module>` checks each of the eight proof modules; `HandshakeProofs` takes
about fifteen minutes, `WireProofs` ten, `ConnectionProofs`, `SocketProofs`,
`WebSocketSessionProofs` and `WirePartsProofs` seven to nine each. The theorems
hold for every value of the constants under the named assumptions of the modules,
which TLC evaluates in the runs.

| module | theorem | statement |
|---|---|---|
| `SocketProofs` | `DialOwnsOne`, `DialIsClear` | `Spec => []OneDescriptor`, `Spec => []ResultIsClear`, of `Dial` |
| | `NoLostEdgeHolds`, `NoHiddenDataHolds`, `CloseIsCompleteHolds`, `NothingLeftHolds` | `SocketSpec => []` of `NoLostEdge`, `NoHiddenData`, `CloseIsComplete`, `NothingLeft` |
| | `DialInSocket` | `SocketSpec => [](OneDescriptor /\ ResultIsClear)` |
| `ConnectionProofs` | `TypeCorrect`, `DescriptorsHold`, `CallbacksHold`, `TeardownHolds`, `WaitingHolds` | `Spec => []` of `TypeOK`, `Descriptors`, `CallbacksInContext`, `TeardownOnce`, `WaitingIsSubscribed` |
| | `EdgesHold`, `FlushedHolds` | `Spec => EdgesAreAnswered`, `Spec => FlushedBeforeClose` |
| | `ForwardHolds` | `Spec => ForwardOnly`, if the session has `on_shutdown` or `write` never answers `close` |
| | `KeepsContract` | `RefSpec => ImplementsContract` |
| `ReactorProofs` | `NothingIsRevived`, `ReturnIsClean` | `Spec => []NoRevival`, `Spec => []CleanReturn`, on either backend |
| | `EventsAreFresh`, `KeepsReactorContract` | `Spec => []FreshEvents`, `Spec => ImplementsReactorContract`, on epoll |
| `ExampleProofs` | `WorkerIsLast`, `StackIsSafe`, `PrintsNoHoles` | `Spec => []` of `WorkerOutlivesNet`, `StackOutlivesThreads`, `NoHoles` |
| `WebSocketSessionProofs` | `SessionTypes`, `PayloadOnceHolds`, `QuietHolds`, `ReassemblyHolds`, `PongsHold` | `Spec => []` of `TypeOK`, `PayloadOnce`, `QuietAfterClose`, `Reassembly`, `PongsInOrder` |
| `WirePartsProofs` | `Base64Encodes` | `base64_encode(s)` has the bits of `s` and the right padding, for every sequence of bytes |
| | `ParsesFrame` | what `parse_frame` answers on any part of a frame, in every form of its length |
| | `CursorsStayInside` | writes into the free room and reads of unread bytes keep both cursors inside the array |
| | `BufferIsAQueue` | `Spec => IsAQueue`, of `BufferQueue` |
| `HandshakeProofs` | `ReadsResponse` | what `read_handshake` answers on any part of a response |
| `WireProofs` | `HandshakeSound`, `FramesSound`, `KeySound`, `ControlSound` | `WireSpec => []` of `HandshakeAgrees`, `FramesInOrder`, `KeyDecodes`, `ControlDecodes` |
| | `SessionUsesAQueue` | `WireSpec => IsAQueue` |

The two restrictions are real. `FreshEvents` fails on a kqueue (run
`Reactor_fstack`). `ForwardOnly` fails for a TLS transport under a session without
`on_shutdown`: there `bind_protocol` goes from `close_transport` back to
`drain_protocol` (connection.hpp:728-735).

**Connection.** None of the properties is inductive by itself. `IInv` adds three
facts. `PlaceInv` says what each place in the code knows of the state: inside a
read loop the state is one of three and equals `before`; the caller a write
returns to fixes `before`. `SessionInv` ties descriptor, endpoint and session
together: with a descriptor and past connecting, the endpoint is live and nothing
was torn down; without one, either `teardown()` ran or no session was ever
started. `SubInv` says what the descriptor is registered for while a method runs,
except at the two places where a write is about to register again. The argument
then is one lemma per conjunct (`LifeOKStep`, `FrameOKStep`, `PlaceInvStep`,
`DescriptorsStep`, `SessionInvStep`, `SubInvStep`), each with one case per action.
The helpers that most actions share (`Teardown`, `Arm`, the outcomes of `dial`)
are described once by effect lemmas (`TeardownEffect`, `ArmEffect`, `DialEffect`
and what follows from them), so that the cases cite their effect instead of
unfolding them. The buffers' part is `BufferFacts`.

The action properties need two more invariants on top of `IInv`. `FlushInv` says
what is left in `_tx` at the places that close a session. `EdgeInv` says where an
edge was already answered: after the read loop, at the bottom of a step that
changed nothing, and while connecting. `StateMove` lists the moves between states
that a step can make; `ForwardHolds` reads off it.

**Socket.** `SocketInv` is a conjunction of nine facts, one lemma each. `PlaceInv`
says which places in the code belong to which `_state`, `OwnerInv` who owns the
descriptor, `RegOK` what the system calls left in `todo` will make of the
registration. `EdgeInv` carries `NoLostEdge`. It says that `Pending` (every
registered and ready event is on its way) can be broken only by the delivery of an
event, and that from there every path registers again, or ends, before the
connection waits (`Owes`), unless the kernel refused a registration. `EngineInv`
carries `NoHiddenData`: decrypted bytes are left in OpenSSL only inside the loop of
`transport_read`. It needs `HelloInv`: before the handshake is answered, the stream
begins with the peer's hello, so that no record is read too early. The steps of the
endpoint are described once, at the start of the module, by what they may do to the
socket (`RunsSocket`) and to the engine (`RunsEngine`).

**The contracts.** `KeepsContract` uses `CallInv`: between calls the contract's
phase is that of the state, and during a call it is the phase the call was made
in, with the states the call may have reached. `KeepsReactorContract` uses
`SignalInv`: the eventfd exists exactly while the backend is up, and the stopping
flag and a kill event under way are accounted for by distinct calls of `signal()`.

**The others.** `DialInv` says what is open at each place of the loop. `PhaseInv`
says which connections are attached and when the backend may be down. `EventInv`
says that the backend and a batch hold at most one event per connection, of its
current incarnation; the first part is where epoll is needed. `ThreadInv` says
which threads exist at each place in `main()`. `LevelInv` says that what was
printed followed by what is queued has no hole, and that the rest of the current
diff continues it; a full queue drops the rest of the diff and so keeps this.
`WInv` says that frames are numbered in the order they are parsed, and that the
message being assembled and the messages handed over have disjoint, rising numbers.
`ReplayInv`, for `Reassembly`, looks ahead: handling the frames in flight would take
the session to where the server is, and the first frame answers the upgrade.
`PingInv`, for `PongsInOrder`, says that the PINGs sent carry rising numbers, that
as many are answered as have numbers below the next frame to be parsed, and that
the others are the PING frames in flight.

**Wire.** The conversions come first, each as a fact about every input. The loops
of the code are recursive functions, and induction over their arguments is done
with sets: the least number for which a fact fails cannot exist (`LeastElement`,
`InductTo`). That gives what `Flatten` and `crlf_counter` return at every index.
`Base64Encodes` compares digits with bytes bit by bit (`SextetBits`). `ParsesFrame`
and `ReadsResponse` take any `s` that starts like a frame or a response, as far as
it goes (`StartsLike`), which covers every cut of the stream and anything that
follows. For the second, `crlf_counter` is two exactly at the starts of lines and
four exactly at the end, so the scan finds the lines of the response and no other.

`WireInv` then ties the session to the stream. `DataInv`: what the buffer holds is
the part of the stream between what was taken and what has arrived, and the frames
parsed are the first of those sent. `LifeInv`: the key and the stream are those of
the scenario. `ProgressInv` is what makes this inductive: before the upgrade
nothing is taken, and after it the rest of the stream is exactly the frames not yet
parsed, so that the buffer starts like the next one. It also names the only ways to
fail after an accepted response. `QueueInv` says that the cursors are inside the
array; the refinement of the queue is in the step lemmas, which compare the bytes
between the cursors before and after compaction.

Only model-checked: the liveness properties (`MethodsReturn`, `SignalDelivered`,
`ProcessEnds`, `DataIsNoticed`, `OutputLeaves`, `AllIsParsed`), which need fairness
and are out of the prover's reach.

## Not modelled

- Logging, `hexdump` and the loading of signing keys: output and conversion only.
- Option parsing, except for how it can end the process.
- The text of the upgrade request, except for its key.
- The BIO's control calls that only store or report the descriptor, and the
  release of OpenSSL's global context at exit.
- What a session does with a payload that is not there, after the wrap of a 64-bit
  length.
- What a write to a reused descriptor number does after `signal()` lost its race
  with `stop()`; the model counts the signal as lost.
- A peer that breaks the TLS protocol, which OpenSSL reports as an error like any
  other.

## Plan

Every safety property that a passing run checks is proved. If the code gets a
shutdown timeout, `Reactor` gets an action for it, and `SignalDelivered` loses its
assumption on peers. If it checks a payload length before it adds the header's,
`FramesInOrder` loses its last clause.
