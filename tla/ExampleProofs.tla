--------------------------- MODULE ExampleProofs ---------------------------
(***************************************************************************)
(* The example program's threads end in the right order, and the worker    *)
(* prints no level behind a dropped one, for every queue capacity and any  *)
(* number of levels, diffs and signals.                                    *)
(***************************************************************************)
EXTENDS Example, SequenceTheorems, TLAPS

\* How far main() is says which threads there are; only the places behind a
\* finished (or never started) network thread have the flag set.
ThreadInv ==
  /\ worker = "done" => shutdown = "yes"
  /\ shutdown = "yes" => main \in {"bail", "join_worker"}
  /\ main \in {"config", "create_worker"} => worker = "none"
  /\ main \in {"config", "create_worker", "create_net", "bail"} => net = "none"
  /\ main = "join_worker" => net = "done"
  /\ StackOutlivesThreads

(* Every step of every thread preserves the order in which threads end.    *)
LEMMA ThreadStep == ThreadInv /\ [Next]_vars => ThreadInv'
<1> SUFFICES ASSUME ThreadInv, [Next]_vars PROVE ThreadInv'
  OBVIOUS
<1> USE DEF ThreadInv, StackOutlivesThreads
<1>1. CASE proc = "running" /\ Main
  <2>1. CASE ConfigExits \/ Configured \/ CreateWorker \/ CreateNet \/ Bail
    BY <1>1, <2>1 DEF ConfigExits, Configured, CreateWorker, CreateNet, Bail
  <2>2. CASE SigWait \/ Signal \/ JoinNet \/ JoinWorker
    BY <1>1, <2>2 DEF SigWait, Signal, JoinNet, JoinWorker
  <2> QED
    BY <1>1, <2>1, <2>2 DEF Main
<1>2. CASE proc = "running" /\ Net
  BY <1>2 DEF Net, NetPins, NetRuns, NetKillsMain, Push
<1>3. CASE proc = "running" /\ Codec
  BY <1>3 DEF Codec, OnOther, OnDiff
<1>4. CASE proc = "running" /\ Worker
  BY <1>4 DEF Worker, WorkerPins, WorkerTests, WorkerFront, WorkerPops
<1>5. CASE proc = "running" /\ Kill
  BY <1>5 DEF Kill
<1>6. CASE UNCHANGED vars
  BY <1>6 DEF vars
<1> QED
  BY <1>1, <1>2, <1>3, <1>4, <1>5, <1>6 DEF Next

(* The order of the threads holds in every reachable state.                *)
THEOREM ThreadInvariance == Spec => []ThreadInv
<1>1. Init => ThreadInv
  BY DEF Init, ThreadInv, StackOutlivesThreads
<1> QED
  BY <1>1, ThreadStep, PTL DEF Spec

(* The worker leaves its loop only when nothing is pushed any more.        *)
THEOREM WorkerIsLast == Spec => []WorkerOutlivesNet
<1>1. ThreadInv => WorkerOutlivesNet
  BY DEF ThreadInv, WorkerOutlivesNet
<1> QED
  BY <1>1, ThreadInvariance, PTL

(* No thread uses main()'s locals after main() has left.                   *)
THEOREM StackIsSafe == Spec => []StackOutlivesThreads
<1>1. ThreadInv => StackOutlivesThreads
  BY DEF ThreadInv
<1> QED
  BY <1>1, ThreadInvariance, PTL

-----------------------------------------------------------------------------
\* A level is a diff's number and the level's place in it.
Level == Nat \X Nat

\* The level y may come directly after the level x: it is the next one of the
\* same diff, or the first one of a later diff.
Before(x, y) ==
  \/ y[2] > 1 /\ x = <<y[1], y[2] - 1>>
  \/ y[2] = 1 /\ x[1] < y[1]

\* The levels in s form prefixes of diffs, one diff after the other.
Whole(s) ==
  \A i \in 1..Len(s) : IF i = 1 THEN s[1][2] = 1 ELSE Before(s[i - 1], s[i])

\* The level x may come after those in s.
Follows(x, s) == IF s = <<>> THEN x[2] = 1 ELSE Before(s[Len(s)], x)

\* What was printed and what waits in the queue.
Out == printed \o queue

\* What the worker's copy and the rest of the current diff are.
RestInv ==
  /\ printed \in Seq(Level) /\ queue \in Seq(Level) /\ diff \in Seq(Level)
  /\ diffs \in Nat
  /\ \A i \in 1..Len(diff) :
       diff[i][1] = diffs /\ (i > 1 => diff[i][2] = diff[i - 1][2] + 1)
  /\ worker = "pop" => queue # <<>> /\ held = Head(queue)

\* What is out is whole and of no later diff, and the rest of the current diff
\* follows it.
OutInv ==
  /\ Whole(Out) /\ \A i \in 1..Len(Out) : Out[i][1] <= diffs
  /\ diff # <<>> => Follows(diff[1], Out)

LevelInv == RestInv /\ OutInv

(* A level that may follow keeps the sequence whole.                       *)
LEMMA WholeAppend ==
  ASSUME NEW s \in Seq(Level), NEW x \in Level, Whole(s), Follows(x, s)
  PROVE  Whole(Append(s, x))
<1> DEFINE t == Append(s, x)
<1>1. /\ Len(t) = Len(s) + 1 /\ t[Len(s) + 1] = x
      /\ \A i \in 1..Len(s) : t[i] = s[i]
  BY AppendProperties
<1>2. Len(s) \in Nat /\ (s = <<>> <=> Len(s) = 0)
  BY EmptySeq, LenProperties
<1> HIDE DEF t
<1>3. ASSUME NEW i \in 1..Len(t)
      PROVE  IF i = 1 THEN t[1][2] = 1 ELSE Before(t[i - 1], t[i])
  <2>1. CASE i \in 1..Len(s)
    <3>1. t[i] = s[i] /\ (i # 1 => t[i - 1] = s[i - 1])
      BY <1>1, <1>2, <2>1
    <3> QED
      BY <2>1, <3>1 DEF Whole
  <2>2. CASE i = Len(s) + 1
    <3>1. t[i] = x /\ (i # 1 => s # <<>> /\ t[i - 1] = s[Len(s)])
      BY <1>1, <1>2, <2>2
    <3>2. i = 1 => s = <<>>
      BY <1>2, <2>2
    <3> QED
      BY <3>1, <3>2 DEF Follows
  <2> QED
    BY <1>1, <1>2, <2>1, <2>2
<1> QED
  BY <1>3 DEF Whole, t

(* Moving the front of the queue to the end of the output leaves what is   *)
(* out as it is, and a push appends to it.                                 *)
LEMMA OutMoves ==
  ASSUME NEW p \in Seq(Level), NEW q \in Seq(Level)
  PROVE  /\ p \o q \in Seq(Level)
         /\ q # <<>> => Append(p, Head(q)) \o Tail(q) = p \o q
         /\ \A x \in Level : p \o Append(q, x) = Append(p \o q, x)
<1>1. p \o q \in Seq(Level)
  BY ConcatProperties
<1>2. ASSUME q # <<>> PROVE Append(p, Head(q)) \o Tail(q) = p \o q
  <2>1. Head(q) \in Level /\ Tail(q) \in Seq(Level) /\ Len(q) \in Nat \ {0}
    BY <1>2, HeadTailProperties, EmptySeq
  <2>2. <<Head(q)>> \in Seq(Level)
    BY <2>1
  <2>3. q = <<Head(q)>> \o Tail(q)
    <3>1. SubSeq(q, 1, Len(q)) = <<q[1]>> \o SubSeq(q, 1 + 1, Len(q))
      BY <2>1, SubSeqRecursiveFirst
    <3> QED
      BY <1>2, <3>1, SubSeqFull, TailIsSubSeq
  <2>4. Append(p, Head(q)) = p \o <<Head(q)>>
    BY <2>1, AppendIsConcat
  <2>5. (p \o <<Head(q)>>) \o Tail(q) = p \o (<<Head(q)>> \o Tail(q))
    BY <2>1, <2>2, ConcatAssociative
  <2> QED
    BY <2>3, <2>4, <2>5, Zenon
<1>3. ASSUME NEW x \in Level PROVE p \o Append(q, x) = Append(p \o q, x)
  <2>1. Append(q, x) = q \o <<x>> /\ Append(p \o q, x) = (p \o q) \o <<x>>
    BY <1>1, AppendIsConcat
  <2>2. <<x>> \in Seq(Level)
    OBVIOUS
  <2> QED
    BY <2>1, <2>2, ConcatAssociative
<1> QED
  BY <1>1, <1>2, <1>3, Zenon

(* Every step of every thread preserves the order of the levels.           *)
LEMMA LevelStep == LevelInv /\ [Next]_vars => LevelInv'
<1> SUFFICES ASSUME RestInv, OutInv, [Next]_vars PROVE RestInv' /\ OutInv'
  BY DEF LevelInv
<1>0. Out \in Seq(Level)
  BY OutMoves DEF RestInv, Out
<1>1. CASE UNCHANGED <<printed, queue, diff, diffs>> /\ worker' # "pop"
  BY <1>1 DEF Out, RestInv, OutInv
<1>2. CASE UNCHANGED <<data, worker>>
  BY <1>2 DEF data, Out, RestInv, OutInv
<1>3. ASSUME NEW n \in 0..LEVELS, OnDiff(n) PROVE RestInv' /\ OutInv'
  <2>1. /\ UNCHANGED <<printed, queue, held, worker>> /\ diffs' = diffs + 1
        /\ diff' = [i \in 1..n |-> <<diffs', i>>]
    BY <1>3 DEF OnDiff
  <2>2. n \in Nat /\ diffs \in Nat /\ diffs' \in Nat
    BY <2>1, ExampleAssumption DEF RestInv
  <2>3. diff' \in Seq(Level) /\ Len(diff') = n
    BY <2>1, <2>2 DEF Level
  <2>4. \A i \in 1..n : diff'[i][1] = diffs' /\ diff'[i][2] = i
    BY <2>1
  <2>5. diff' # <<>> => n > 0
    BY <2>2, <2>3, EmptySeq
  <2>6. Out' = Out
    BY <2>1 DEF Out
  <2>7. \A i \in 1..Len(Out) : Out[i][1] \in Nat /\ Out[i][1] <= diffs
    BY <1>0, ElementOfSeq DEF OutInv, Level
  <2>8. diff' # <<>> => Follows(diff'[1], Out)
    <3>1. Out # <<>> => Len(Out) \in 1..Len(Out)
      BY <1>0, EmptySeq
    <3> QED
      BY <2>1, <2>2, <2>4, <2>5, <2>7, <3>1 DEF Follows, Before
  <2>9. RestInv'
    BY <2>1, <2>2, <2>3, <2>4 DEF RestInv
  <2>10. OutInv'
    <3>1. diffs' = diffs + 1
      BY <2>1
    <3>2. \A i \in 1..Len(Out) : Out[i][1] <= diffs'
      BY <2>2, <2>7, <3>1
    <3> QED
      BY <2>6, <2>8, <3>2 DEF OutInv
  <2> QED
    BY <2>9, <2>10
<1>4. CASE Push
  <2>1. diff # <<>> /\ UNCHANGED <<printed, held, worker, diffs>>
    BY <1>4 DEF Push
  <2>2. CASE Len(queue) < QUEUE_CAP
    <3>1. diff' = Tail(diff) /\ queue' = Append(queue, diff[1])
      BY <1>4, <2>2 DEF Push
    <3>2. diff[1] \in Level /\ Len(diff) \in Nat \ {0}
      BY <2>1, EmptySeq, ElementOfSeq DEF RestInv
    <3>3. /\ diff' \in Seq(Level) /\ Len(diff') = Len(diff) - 1
          /\ \A i \in 1..Len(diff') : diff'[i] = diff[i + 1]
      BY <2>1, <3>1, HeadTailProperties DEF RestInv
    <3>4. Out' = Append(Out, diff[1])
      BY <2>1, <3>1, <3>2, OutMoves DEF Out, RestInv
    <3>5. Whole(Out')
      BY <1>0, <2>1, <3>2, <3>4, WholeAppend DEF OutInv
    <3>6. /\ Len(Out') = Len(Out) + 1 /\ Out'[Len(Out')] = diff[1] /\ Out' # <<>>
          /\ \A i \in 1..Len(Out) : Out'[i] = Out[i]
      BY <1>0, <3>2, <3>4, AppendProperties
    <3>7. Len(Out) \in Nat /\ diff[1][1] = diffs /\ diffs \in Nat
      BY <1>0, <3>2, LenProperties DEF RestInv
    <3>8. \A i \in 1..Len(Out') : Out'[i][1] <= diffs'
      BY <2>1, <3>6, <3>7 DEF OutInv
    <3>9. diff' # <<>> => Follows(diff'[1], Out')
      <4> HAVE diff' # <<>>
      <4>1. Len(diff) > 1 /\ diff'[1] = diff[2]
        BY <3>2, <3>3, EmptySeq
      <4>2. /\ diff[2] \in Level /\ diff[2][1] = diffs
            /\ diff[2][2] = diff[1][2] + 1
        BY <3>2, <4>1, ElementOfSeq DEF RestInv
      <4>3. diff[1][2] \in Nat \ {0}
        BY <2>1, <3>2 DEF OutInv, Follows, Before, Level
      <4>4. diff[1] = <<diff[2][1], diff[2][2] - 1>>
        <5>1. diff[1] = <<diff[1][1], diff[1][2]>>
          BY <3>2 DEF Level
        <5>2. diff[2][2] - 1 = diff[1][2]
          BY <4>2, <4>3
        <5> QED
          BY <3>7, <4>2, <5>1, <5>2
      <4>5. diff[2][2] > 1
        BY <4>2, <4>3
      <4>6. Before(diff[1], diff[2])
        BY <4>4, <4>5, Zenon DEF Before
      <4> QED
        BY <3>6, <4>1, <4>6 DEF Follows
    <3>10. \A i \in 1..Len(diff') :
             diff'[i][1] = diffs' /\ (i > 1 => diff'[i][2] = diff'[i - 1][2] + 1)
      <4> TAKE i \in 1..Len(diff')
      <4>1. /\ i + 1 \in 1..Len(diff) /\ diff'[i] = diff[i + 1]
            /\ i > 1 => diff'[i - 1] = diff[i]
        BY <3>2, <3>3
      <4>2. diff[i + 1][1] = diffs /\ diff[i + 1][2] = diff[i][2] + 1
        BY <4>1 DEF RestInv
      <4> QED
        BY <2>1, <4>1, <4>2
    <3>11. queue' \in Seq(Level) /\ (queue # <<>> => queue' # <<>> /\ Head(queue') = Head(queue))
      BY <3>1, <3>2, AppendProperties, HeadTailAppend DEF RestInv
    <3>12. RestInv'
      BY <2>1, <3>3, <3>10, <3>11 DEF RestInv
    <3> QED
      BY <3>5, <3>8, <3>9, <3>12 DEF OutInv
  <2>3. CASE ~(Len(queue) < QUEUE_CAP)
    <3>1. diff' = <<>> /\ UNCHANGED queue
      BY <1>4, <2>3 DEF Push
    <3>2. Len(diff') = 0 /\ diff' \in Seq(Level)
      BY <3>1
    <3> QED
      BY <2>1, <3>1, <3>2 DEF RestInv, OutInv, Out
  <2> QED
    BY <2>2, <2>3
<1>5. CASE WorkerFront
  <2>1. UNCHANGED <<queue, printed, diff, diffs>>
    BY <1>5 DEF WorkerFront
  <2>2. worker' = "pop" => queue # <<>> /\ held' = Head(queue)
    BY <1>5 DEF WorkerFront
  <2> QED
    BY <2>1, <2>2 DEF Out, RestInv, OutInv
<1>6. CASE WorkerPops
  <2>1. /\ queue # <<>> /\ queue' = Tail(queue) /\ printed' = Append(printed, Head(queue))
        /\ UNCHANGED <<diff, diffs>> /\ worker' = "test"
    BY <1>6 DEF WorkerPops, RestInv
  <2>2. Out' = Out
    BY <2>1, OutMoves, Zenon DEF Out, RestInv
  <2>3. queue' \in Seq(Level) /\ printed' \in Seq(Level)
    BY <2>1, HeadTailProperties, AppendProperties DEF RestInv
  <2> QED
    BY <2>1, <2>2, <2>3 DEF RestInv, OutInv
<1>7. CASE proc = "running" /\ Main
  <2>1. CASE ConfigExits \/ Configured \/ CreateNet \/ Bail \/ SigWait \/ Signal
             \/ JoinNet \/ JoinWorker
    BY <1>2, <2>1 DEF ConfigExits, Configured, CreateNet, Bail, SigWait, Signal,
       JoinNet, JoinWorker
  <2>2. CASE CreateWorker
    BY <1>1, <1>2, <2>2 DEF CreateWorker, data
  <2> QED
    BY <1>7, <2>1, <2>2 DEF Main
<1>8. CASE proc = "running" /\ Net
  BY <1>2, <1>4, <1>8 DEF Net, NetPins, NetRuns, NetKillsMain
<1>9. CASE proc = "running" /\ Codec
  <2>1. CASE OnOther
    BY <2>1 DEF OnOther, Out, RestInv, OutInv
  <2> QED
    BY <1>3, <1>9, <2>1 DEF Codec
<1>10. CASE proc = "running" /\ Worker
  <2>1. CASE WorkerPins \/ WorkerTests
    BY <1>1, <1>2, <2>1 DEF WorkerPins, WorkerTests, data
  <2> QED
    BY <1>5, <1>6, <1>10, <2>1 DEF Worker
<1>11. CASE (proc = "running" /\ Kill) \/ UNCHANGED vars
  BY <1>2, <1>11 DEF Kill, vars
<1> QED
  BY <1>7, <1>8, <1>9, <1>10, <1>11 DEF Next

(* Of each diff the worker prints a prefix, each level once and in order.  *)
THEOREM PrintsNoHoles == Spec => []NoHoles
<1>1. Init => LevelInv
  <2> HAVE Init
  <2>1. printed = <<>> /\ queue = <<>> /\ diff = <<>> /\ diffs = 0 /\ worker = "none"
    BY DEF Init
  <2>2. Out = <<>>
    BY <2>1 DEF Out
  <2> QED
    BY <2>1, <2>2 DEF LevelInv, RestInv, OutInv, Whole
<1>2. LevelInv => NoHoles
  <2> SUFFICES ASSUME LevelInv, NEW i \in DOMAIN printed
               PROVE  LET d == printed[i][1]
                          k == printed[i][2]
                      IN  IF k > 1 THEN i > 1 /\ printed[i - 1] = <<d, k - 1>>
                          ELSE k = 1 /\ (i > 1 => printed[i - 1][1] < d)
    BY DEF NoHoles
  <2>1. i \in 1..Len(printed) /\ Len(printed) \in Nat /\ Len(queue) \in Nat
    BY LenProperties DEF LevelInv, RestInv
  <2>2. /\ i \in 1..Len(Out) /\ Out[i] = printed[i]
        /\ i > 1 => Out[i - 1] = printed[i - 1]
    BY <2>1, ConcatProperties DEF LevelInv, RestInv, Out
  <2>3. printed[i] \in Level
    BY <2>1, ElementOfSeq DEF LevelInv, RestInv
  <2>4. IF i = 1 THEN printed[1][2] = 1 ELSE Before(printed[i - 1], printed[i])
    BY <2>1, <2>2 DEF LevelInv, OutInv, Whole
  <2> QED
    BY <2>1, <2>3, <2>4 DEF Before, Level
<1> QED
  BY <1>1, <1>2, LevelStep, PTL DEF Spec

=============================================================================
