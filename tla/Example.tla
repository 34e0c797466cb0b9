------------------------------ MODULE Example ------------------------------
(***************************************************************************)
(* The example program (examples/main.cc, config.cc, binance_codec.hpp):    *)
(* main() waits for a signal, the network thread runs the reactor, whose    *)
(* codec pushes the price levels of each depth diff into a queue, and a     *)
(* worker thread takes them out.  The queue is a single-producer            *)
(* single-consumer queue of a library; its operations are atomic.  The      *)
(* reactor is what ReactorContract promises.                                *)
(***************************************************************************)
EXTENDS Integers, Sequences

CONSTANTS
  QUEUE_CAP,  \* capacity of the queue (1024 in the code)
  LEVELS,     \* bound: levels of a diff, asks first
  MAX_DIFFS,  \* bound: diffs the server sends
  MAX_KILLS   \* bound: times the user sends SIGINT or SIGTERM

ASSUME ExampleAssumption ==
  QUEUE_CAP \in Nat \ {0} /\ {LEVELS, MAX_DIFFS, MAX_KILLS} \subseteq Nat

VARIABLES
  proc,      \* the process: running, or how it ended
  main,      \* where main() is
  net,       \* where run_net() is: none, pin, run, kill, done
  worker,    \* where run_worker() is: none, pin, test, front, pop, done
  pinned,    \* the threads that have a CPU configured
  pending,   \* blocked signals that were sent to the process: kill, usr1
  kills,     \* how often the user sent a signal
  sig,       \* what sigwait() returned
  shutdown,  \* the worker's flag: no, yes
  queue,     \* depth_queue
  held,      \* the worker's copy of the front element
  diff,      \* the levels of the current diff not pushed yet
  diffs,     \* how many diffs came
  feed,      \* the connection: open, or dead after the codec answered error
  printed,   \* history: all levels printed
  run, caller, calls  \* the reactor, see ReactorContract

reactor == <<run, caller, calls>>
data == <<queue, held, diff, diffs, feed, printed>>
vars == <<proc, main, net, worker, pinned, pending, kills, sig, shutdown, data,
          reactor>>

R == INSTANCE ReactorContract

NoLevel == <<0, 0>>

Init ==
  /\ proc = "running" /\ main = "config" /\ net = "none" /\ worker = "none"
  /\ pinned = {} /\ pending = {} /\ kills = 0 /\ sig = "none"
  /\ shutdown = "no" /\ queue = <<>> /\ held = NoLevel
  /\ diff = <<>> /\ diffs = 0 /\ feed = "open" /\ printed = <<>>
  /\ R!Init

-----------------------------------------------------------------------------
(* main()                                                                  *)

\* get_config() leaves: help, a bad option, no API key, a bad CPU number.
ConfigExits ==
  /\ main = "config"
  /\ proc' \in {"exit_0", "exit_255", "exit_1", "aborted"}
  /\ UNCHANGED <<main, net, worker, pinned, pending, kills, sig, shutdown, data,
                 reactor>>

\* get_config() returns; from the mask on, signals wait for sigwait().
Configured ==
  /\ main = "config" /\ main' = "create_worker"
  /\ pinned' \in SUBSET {"net", "worker"}
  /\ UNCHANGED <<proc, net, worker, pending, kills, sig, shutdown, data, reactor>>

CreateWorker ==
  /\ main = "create_worker"
  /\ \/ worker' = "pin" /\ main' = "create_net" /\ UNCHANGED proc
     \/ proc' = "exit_1" /\ UNCHANGED <<worker, main>>
  /\ UNCHANGED <<net, pinned, pending, kills, sig, shutdown, data, reactor>>

\* When the thread cannot be started, the worker is ended first.
CreateNet ==
  /\ main = "create_net"
  /\ \/ net' = "pin" /\ main' = "wait" /\ UNCHANGED shutdown
     \/ shutdown' = "yes" /\ main' = "bail" /\ UNCHANGED net
  /\ UNCHANGED <<proc, worker, pinned, pending, kills, sig, data, reactor>>

\* Faulty variant: the process leaves without waiting for the worker.
BailAtOnce ==
  /\ main = "bail"
  /\ proc' = "exit_1"
  /\ UNCHANGED <<main, net, worker, pinned, pending, kills, sig, shutdown, data,
                 reactor>>

\* pthread_join(t_worker) after the network thread could not be started
Bail ==
  /\ main = "bail" /\ worker = "done"
  /\ proc' = "exit_1"
  /\ UNCHANGED <<main, net, worker, pinned, pending, kills, sig, shutdown, data,
                 reactor>>

\* sigwait() takes one pending signal, whichever.
SigWait ==
  /\ main = "wait"
  /\ \E s \in pending :
       /\ sig' = s /\ pending' = pending \ {s}
       /\ main' = IF s = "usr1" THEN "join_net" ELSE "signal"
  /\ UNCHANGED <<proc, net, worker, pinned, kills, shutdown, data, reactor>>

\* Net::signal(), called once
Signal ==
  /\ main = "signal"
  /\ R!SignalIsLost \/ R!SignalTests \/ R!SignalWrites
  /\ main' = IF caller' = "in" THEN "signal" ELSE "join_net"
  /\ UNCHANGED <<proc, net, worker, pinned, pending, kills, sig, shutdown, data>>

\* Faulty variant: the worker is told to leave before the network thread ended.
FlagFirst ==
  /\ main = "join_net"
  /\ shutdown' = "yes" /\ main' = IF net = "done" THEN "join_worker" ELSE main
  /\ UNCHANGED <<proc, net, worker, pinned, pending, kills, sig, data, reactor>>

\* pthread_join(t_net), then the worker's flag
JoinNet ==
  /\ main = "join_net" /\ net = "done"
  /\ shutdown' = "yes" /\ main' = "join_worker"
  /\ UNCHANGED <<proc, net, worker, pinned, pending, kills, sig, data, reactor>>

\* pthread_join(t_worker) and return
JoinWorker ==
  /\ main = "join_worker" /\ worker = "done"
  /\ proc' = IF sig = "kill" THEN "exit_0" ELSE "exit_1"
  /\ UNCHANGED <<main, net, worker, pinned, pending, kills, sig, shutdown, data,
                 reactor>>

Main ==
  \/ ConfigExits \/ Configured \/ CreateWorker \/ CreateNet \/ Bail
  \/ SigWait \/ Signal \/ JoinNet \/ JoinWorker

-----------------------------------------------------------------------------
(* run_net(), and the codec the reactor calls.                             *)

\* pin_thread(): only a configured CPU can be refused.
NetPins ==
  /\ net = "pin"
  /\ \/ net' = "run" /\ UNCHANGED proc
     \/ "net" \in pinned /\ proc' = "aborted" /\ UNCHANGED net
  /\ UNCHANGED <<main, worker, pinned, pending, kills, sig, shutdown, data, reactor>>

\* reactor.run() goes on; an exception leaves the thread, which ends the process.
\* (The contract's Crashes needs two calls of signal(); main() makes one.)
NetRuns ==
  /\ net = "run" /\ diff = <<>>
  /\ R!Start \/ R!Throws \/ R!Stops \/ R!Returns
  /\ net' = IF run' = "returned" THEN "kill" ELSE net
  /\ proc' = IF run' = "thrown" THEN "aborted" ELSE proc
  /\ UNCHANGED <<main, worker, pinned, pending, kills, sig, shutdown, data>>

\* Faulty variant: main() is not told.
NetEndsQuietly ==
  /\ net = "kill"
  /\ net' = "done"
  /\ UNCHANGED <<proc, main, worker, pinned, pending, kills, sig, shutdown, data,
                 reactor>>

\* pthread_kill(g_main_thread, SIGUSR1)
NetKillsMain ==
  /\ net = "kill"
  /\ pending' = pending \cup {"usr1"} /\ net' = "done"
  /\ UNCHANGED <<proc, main, worker, pinned, kills, sig, shutdown, data, reactor>>

\* on_binary(): a diff of n levels.
OnDiff(n) ==
  /\ net = "run" /\ run \in {"up", "asked"} /\ feed = "open" /\ diff = <<>>
  /\ diffs < MAX_DIFFS /\ diffs' = diffs + 1
  /\ diff' = [i \in 1..n |-> <<diffs', i>>]
  /\ UNCHANGED <<proc, main, net, worker, pinned, pending, kills, sig, shutdown,
                 queue, held, feed, printed, reactor>>

\* on_binary(): a message of another template is dropped; a truncated diff or
\* an unknown template is an error, which ends the connection.
OnOther ==
  /\ net = "run" /\ run \in {"up", "asked"} /\ feed = "open" /\ diff = <<>>
  /\ feed' \in {"open", "dead"}
  /\ UNCHANGED <<proc, main, net, worker, pinned, pending, kills, sig, shutdown,
                 queue, held, diff, diffs, printed, reactor>>

\* Faulty variant: a level that does not fit is skipped.
PushSkips ==
  /\ diff # <<>>
  /\ diff' = Tail(diff)
  /\ IF Len(queue) < QUEUE_CAP
     THEN queue' = Append(queue, Head(diff))
     ELSE UNCHANGED queue
  /\ UNCHANGED <<proc, main, net, worker, pinned, pending, kills, sig, shutdown,
                 held, diffs, feed, printed, reactor>>

\* push_diff(): one try_push(); when the queue is full the rest is dropped.
Push ==
  /\ diff # <<>>
  /\ IF Len(queue) < QUEUE_CAP
     THEN /\ diff' = Tail(diff)
          /\ queue' = Append(queue, Head(diff))
     ELSE diff' = <<>> /\ UNCHANGED queue
  /\ UNCHANGED <<proc, main, net, worker, pinned, pending, kills, sig, shutdown,
                 held, diffs, feed, printed, reactor>>

-----------------------------------------------------------------------------
(* run_worker()                                                            *)

WorkerPins ==
  /\ worker = "pin"
  /\ \/ worker' = "test" /\ UNCHANGED proc
     \/ "worker" \in pinned /\ proc' = "aborted" /\ UNCHANGED worker
  /\ UNCHANGED <<main, net, pinned, pending, kills, sig, shutdown, data, reactor>>

\* while (!shutdown.load())
WorkerTests ==
  /\ worker = "test"
  /\ worker' = IF shutdown = "yes" THEN "done" ELSE "front"
  /\ UNCHANGED <<proc, main, net, pinned, pending, kills, sig, shutdown, data,
                 reactor>>

\* front() and the copy of what it points to
WorkerFront ==
  /\ worker = "front"
  /\ IF queue = <<>> THEN worker' = "test" /\ UNCHANGED held
     ELSE worker' = "pop" /\ held' = Head(queue)
  /\ UNCHANGED <<proc, main, net, pinned, pending, kills, sig, shutdown, queue,
                 diff, diffs, feed, printed, reactor>>

\* pop() and printf()
WorkerPops ==
  /\ worker = "pop" /\ worker' = "test"
  /\ queue' = Tail(queue) /\ printed' = Append(printed, held) /\ held' = NoLevel
  /\ UNCHANGED <<proc, main, net, pinned, pending, kills, sig, shutdown, diff,
                 diffs, feed, reactor>>

Worker == WorkerPins \/ WorkerTests \/ WorkerFront \/ WorkerPops

-----------------------------------------------------------------------------
\* The user sends SIGINT or SIGTERM: fatal until main() has blocked it.
Kill ==
  /\ kills < MAX_KILLS /\ kills' = kills + 1
  /\ IF main = "config" THEN proc' = "killed" /\ UNCHANGED pending
     ELSE pending' = pending \cup {"kill"} /\ UNCHANGED proc
  /\ UNCHANGED <<main, net, worker, pinned, sig, shutdown, data, reactor>>

Net == NetPins \/ NetRuns \/ NetKillsMain \/ Push

Codec == OnOther \/ \E n \in 0..LEVELS : OnDiff(n)

Next ==
  \/ proc = "running" /\ (Main \/ Net \/ Codec \/ Worker \/ Kill)
  \/ proc # "running" /\ UNCHANGED vars

Spec == Init /\ [][Next]_vars

\* Every thread is scheduled again and again.  A reactor that was asked to stop,
\* or whose Net::stop() ran, ends: SignalDelivered of Reactor, from the fairness
\* stated there.
FairSpec ==
  /\ Spec
  /\ WF_vars(proc = "running" /\ Main)
  /\ WF_vars(proc = "running" /\ Worker)
  /\ WF_vars(proc = "running" /\ (NetPins \/ NetKillsMain \/ Push))
  /\ WF_vars(proc = "running" /\ NetRuns /\ run = "starting")
  /\ SF_vars(proc = "running" /\ NetRuns /\ run \in {"asked", "down"})

-----------------------------------------------------------------------------
TypeOK ==
  /\ proc \in {"running", "exit_0", "exit_1", "exit_255", "aborted", "killed"}
  /\ main \in {"config", "create_worker", "create_net", "bail", "wait", "signal",
              "join_net", "join_worker"}
  /\ net \in {"none", "pin", "run", "kill", "done"}
  /\ worker \in {"none", "pin", "test", "front", "pop", "done"}
  /\ pending \subseteq {"kill", "usr1"} /\ sig \in {"none", "kill", "usr1"}
  /\ Len(queue) <= QUEUE_CAP /\ run \in R!Runs

(* WorkerOutlivesNet: the worker leaves its loop only when nothing is pushed   *)
(* any more: "wait for graceful shutdown, then kill worker" (main.cc:196), on   *)
(* the regular way out and when the network thread could not be started.       *)
WorkerOutlivesNet == worker = "done" => net \in {"none", "done"}

(* StackOutlivesThreads: the queue, the flag and the context are locals of      *)
(* main(): whichever way main() leaves, by return or exit(), no thread that was *)
(* given a reference to them is still running.                                  *)
StackOutlivesThreads ==
  proc \in {"exit_0", "exit_1", "exit_255"}
    => net \in {"none", "done"} /\ worker \in {"none", "done"}

(* NoHoles: of each diff the worker prints the asks and bids from the front up *)
(* to where the queue was full, each once and in order, and never a level       *)
(* behind a dropped one, although its front(), copy and pop() interleave with   *)
(* the pushes and make room in the middle of a diff.                            *)
NoHoles ==
  \A i \in DOMAIN printed :
    LET d == printed[i][1]
        k == printed[i][2]
    IN  IF k > 1 THEN i > 1 /\ printed[i - 1] = <<d, k - 1>>
        ELSE k = 1 /\ (i > 1 => printed[i - 1][1] < d)

(* ProcessEnds: a signal that main() finds while the reactor is up ends the     *)
(* process, and so does a reactor that returns by itself (poll() failed), which *)
(* wakes main() by SIGUSR1.  A signal main() takes earlier, before Net::init,   *)
(* is not promised anything: Net::signal() finds no eventfd.                    *)
ProcessEnds ==
  (run = "returned" \/ (run = "up" /\ main = "wait" /\ "kill" \in pending))
    ~> (proc # "running")

=============================================================================
