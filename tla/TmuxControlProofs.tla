------------------------- MODULE TmuxControlProofs -------------------------
(***************************************************************************)
(* Proofs about the daemon's tmux side: TmuxControl, for any number of     *)
(* commands, and the pane's bytes in PtyStream, for any bytes, chunks and  *)
(* lengths.                                                                *)
(***************************************************************************)
EXTENDS TmuxControl, PtyStream, SequenceTheorems, WellFoundedInduction, TLAPS

\* Reply blocks and their parts.
LEMMA BlockFacts ==
  /\ \A b \in Blocks : b.cmd \in Cmds /\ b # NoBlock
  /\ \A c \in Cmds, last \in {"end", "error", "none"} :
       Block(c, last) \in Blocks /\ Block(c, last).cmd = c
  /\ NoBlock.last = "none"
  BY ControlAssumption DEF Blocks, Block, NoBlock

\* What taking a channel back leaves of the queue.
LEMMA UnqueueFacts ==
  ASSUME pendingQueue \in Seq(Cmds), NEW c \in Cmds, Unqueue(c)
  PROVE  /\ pendingQueue' \in Seq(Cmds)
         /\ \/ ~Queued(c) /\ pendingQueue' = pendingQueue
            \/ \E i \in 1 .. Len(pendingQueue) :
                 /\ pendingQueue[i] = c
                 /\ Len(pendingQueue') = Len(pendingQueue) - 1
                 /\ \A j \in 1 .. Len(pendingQueue) - 1 :
                      pendingQueue'[j] = pendingQueue[IF j < i THEN j ELSE j + 1]
<1>1. CASE Queued(c)
  <2>1. PICK i \in 1 .. Len(pendingQueue) :
               /\ pendingQueue[i] = c
               /\ pendingQueue' = SubSeq(pendingQueue, 1, i - 1)
                                  \o SubSeq(pendingQueue, i + 1, Len(pendingQueue))
    BY <1>1 DEF Unqueue
  <2> DEFINE front == SubSeq(pendingQueue, 1, i - 1)
             back == SubSeq(pendingQueue, i + 1, Len(pendingQueue))
  <2>2. /\ front \in Seq(Cmds) /\ Len(front) = i - 1
        /\ \A j \in 1 .. i - 1 : front[j] = pendingQueue[j]
    OBVIOUS
  <2>3. /\ back \in Seq(Cmds) /\ Len(back) = Len(pendingQueue) - i
        /\ \A j \in 1 .. Len(pendingQueue) - i : back[j] = pendingQueue[i + j]
    OBVIOUS
  <2>4. pendingQueue' = front \o back
    BY <2>1
  <2> HIDE DEF front, back
  <2>5. pendingQueue' \in Seq(Cmds) /\ Len(pendingQueue') = Len(pendingQueue) - 1
    BY <2>2, <2>3, <2>4
  <2>6. ASSUME NEW j \in 1 .. Len(pendingQueue) - 1
        PROVE  pendingQueue'[j] = pendingQueue[IF j < i THEN j ELSE j + 1]
    <3>1. CASE j < i
      BY <2>2, <2>3, <2>4, <3>1
    <3>2. CASE j >= i
      <4>1. pendingQueue'[j] = back[j - (i - 1)]
        BY <2>2, <2>3, <2>4, <3>2
      <4> QED
        BY <2>3, <3>2, <4>1
    <3> QED
      BY <3>1, <3>2
  <2> QED
    BY <2>1, <2>5, <2>6
<1>2. CASE ~Queued(c)
  BY <1>2 DEF Unqueue
<1> QED
  BY <1>1, <1>2

\* The invariant holds initially.
LEMMA InitIInv == Init => IInv
<1> SUFFICES ASSUME Init PROVE IInv
  OBVIOUS
<1>1. TypeOK
  <2>1. CallType /\ QueueType
    BY DEF Init, CallType, QueueType, Failures
  <2>2. PipeType /\ ReaderType
    BY DEF Init, PipeType, ReaderType
  <2> QED
    BY <2>1, <2>2 DEF Init, TypeOK
<1>2. QueueSound /\ ReaderSound /\ QueueAligned
  BY DEF Init, QueueSound, ReaderSound, QueueAligned
<1>3. Paired
  BY DEF Init, Paired, Failures
<1> QED
  BY <1>1, <1>2, <1>3 DEF IInv

-----------------------------------------------------------------------------
(***************************************************************************)
(* RunCommand.                                                             *)
(***************************************************************************)
LEMMA RunCommandIInv ==
  ASSUME IInv, NEW c \in Cmds, RunCommand(c)
  PROVE  IInv'
<1> USE DEF IInv, RunCommand, pipes, loop
<1>1. TypeOK'
  BY DEF TypeOK, CallType, QueueType, PipeType, ReaderType
<1>2. QueueSound'
  BY DEF QueueSound, TypeOK, CallType, QueueType, PipeType
<1>3. ReaderSound'
  BY DEF ReaderSound
<1>4. QueueAligned'
  BY DEF QueueAligned, QueueSound, TypeOK, CallType, QueueType, PipeType
<1>5. Paired'
  <2>1. /\ Len(pendingQueue') = Len(pendingQueue) + 1 /\ pendingQueue'[Len(pendingQueue) + 1] = c
        /\ Len(pendingQueue) \in Nat
        /\ \A i \in 1 .. Len(pendingQueue) : pendingQueue'[i] = pendingQueue[i]
    BY DEF TypeOK, QueueType
  <2>2. \A d \in Cmds : Queued(d) \/ d = c => Queued(d)'
    BY <2>1 DEF Queued
  <2> QED
    BY <2>2 DEF Paired, TypeOK, CallType
<1> QED
  BY <1>1, <1>2, <1>3, <1>4, <1>5

\* A command written in the order of the queue is the next tmux has to read.
LEMMA WriteIInv ==
  ASSUME IInv, NEW c \in Cmds, Write(c), stdinOpen, tmuxUp
  PROVE  IInv'
<1>1. /\ pc[c] = "queued" /\ pc' = [pc EXCEPT ![c] = "waiting"] /\ stdin' = Append(stdin, c)
      /\ slipped' = (slipped \/ Overtakes(c))
      /\ UNCHANGED <<got, pendingQueue, chan, pendingCmds, stdout, stdinOpen, tmuxUp, reader, active,
                     target>>
  BY DEF Write, loop
<1>2. /\ pc \in [Cmds -> {"new", "queued", "waiting", "returned"}]
      /\ pendingQueue \in Seq(Cmds) /\ stdin \in Seq(Cmds) /\ stdout \in Seq(Blocks)
  BY DEF IInv, TypeOK, CallType, QueueType, PipeType
<1>3. TypeOK'
  <2>1. slipped' \in BOOLEAN
    BY <1>1
  <2>2. PipeType'
    BY <1>1, <1>2 DEF IInv, TypeOK, PipeType
  <2> QED
    BY <1>1, <2>1, <2>2 DEF IInv, TypeOK, CallType, QueueType, ReaderType
<1>4. ReaderSound'
  BY <1>1 DEF IInv, ReaderSound
<1>5. QueueSound'
  BY <1>1, <1>2 DEF IInv, QueueSound
<1>6. Paired'
  BY <1>1, <1>2 DEF IInv, Paired, Queued
<1>7. QueueAligned'
  <2> SUFFICES ASSUME ~slipped, ~Overtakes(c) PROVE QueueAligned'
    BY <1>1 DEF QueueAligned
  <2> DEFINE n == Len(stdout)
             m == Len(stdin)
  <2>1. n \in Nat /\ m \in Nat /\ Len(pendingQueue) \in Nat
    BY <1>2
  <2>2. /\ n + m <= Len(pendingQueue)
        /\ \A i \in 1 .. n : pendingQueue[i] = stdout[i].cmd
        /\ \A i \in 1 .. m : pendingQueue[n + i] = stdin[i]
        /\ \A i \in n + m + 1 .. Len(pendingQueue) : pc[pendingQueue[i]] = "queued"
    BY DEF IInv, QueueAligned
  <2>3. PICK j \in 1 .. Len(pendingQueue) : pendingQueue[j] = c
    BY <1>1 DEF IInv, Paired, Queued
  <2>4. \A i \in 1 .. n + m : pc[pendingQueue[i]] # "queued"
    <3> SUFFICES ASSUME NEW i \in 1 .. n + m PROVE pc[pendingQueue[i]] # "queued"
      OBVIOUS
    <3>1. CASE i <= n
      BY <2>1, <2>2, <3>1 DEF IInv, QueueSound
    <3>2. CASE i > n
      <4>1. i - n \in 1 .. m /\ pendingQueue[i] = stdin[i - n]
        BY <2>1, <2>2, <3>2
      <4> QED
        BY <4>1 DEF IInv, QueueSound
    <3> QED
      BY <2>1, <3>1, <3>2
  <2>5. ~(n + m + 1 < j)
    BY <2>1, <2>2, <2>3 DEF Overtakes
  <2>6. j = n + m + 1
    BY <1>1, <2>1, <2>3, <2>4, <2>5
  <2>7. \A i \in n + m + 2 .. Len(pendingQueue) : pendingQueue[i] # c
    BY <2>1, <2>3, <2>6 DEF IInv, QueueSound
  <2>8. Len(stdin') = m + 1 /\ stdin'[m + 1] = c /\ \A i \in 1 .. m : stdin'[i] = stdin[i]
    BY <1>1, <1>2
  <2>9. \A i \in n + m + 2 .. Len(pendingQueue) : pc'[pendingQueue[i]] = "queued"
    BY <1>1, <1>2, <2>1, <2>2, <2>7
  <2>10. n + (m + 1) <= Len(pendingQueue) /\ pendingQueue[n + (m + 1)] = c
    BY <2>1, <2>3, <2>6
  <2>11. \A i \in 1 .. m + 1 : pendingQueue[n + i] = stdin'[i]
    <3> TAKE i \in 1 .. m + 1
    <3>1. CASE i \in 1 .. m
      BY <2>2, <2>8, <3>1
    <3>2. CASE i = m + 1
      BY <2>8, <2>10, <3>2
    <3> QED
      BY <2>1, <3>1, <3>2
  <2>12. n + (m + 1) + 1 = n + m + 2
    BY <2>1
  <2> QED
    BY <1>1, <2>2, <2>8, <2>9, <2>10, <2>11, <2>12 DEF QueueAligned
<1> QED
  BY <1>3, <1>4, <1>5, <1>6, <1>7 DEF IInv

\* The queue without the channel at i.
LEMMA TakenBack ==
  ASSUME IInv, NEW c \in Cmds, NEW i \in 1 .. Len(pendingQueue), pendingQueue[i] = c,
         Len(pendingQueue') = Len(pendingQueue) - 1,
         \A j \in 1 .. Len(pendingQueue) - 1 :
           pendingQueue'[j] = pendingQueue[IF j < i THEN j ELSE j + 1],
         pc' = [pc EXCEPT ![c] = "returned"], UNCHANGED <<stdin, stdout>>
  PROVE  /\ QueueSound'
         /\ \A d \in Cmds : d # c /\ Queued(d) => Queued(d)'
<1> DEFINE From(j) == IF j < i THEN j ELSE j + 1
           Len1 == Len(pendingQueue) - 1
<1>0. Len(pendingQueue) \in Nat /\ pc \in [Cmds -> {"new", "queued", "waiting", "returned"}]
  BY DEF IInv, TypeOK, QueueType, CallType
<1>1. \A j \in 1 .. Len1 : From(j) \in 1 .. Len(pendingQueue) /\ pendingQueue'[j] = pendingQueue[From(j)]
  BY <1>0
<1>2. \A j, k \in 1 .. Len1 : From(j) = From(k) => j = k
  BY <1>0
<1>3. \A k \in 1 .. Len(pendingQueue) : k # i => \E j \in 1 .. Len1 : From(j) = k
  <2> TAKE k \in 1 .. Len(pendingQueue)
  <2> HAVE k # i
  <2>1. CASE k < i
    <3>1. k \in 1 .. Len1 /\ From(k) = k
      BY <1>0, <2>1
    <3> QED
      BY <3>1
  <2>2. CASE k > i
    <3>1. k - 1 \in 1 .. Len1 /\ From(k - 1) = k
      BY <1>0, <2>2
    <3> QED
      BY <3>1
  <2> QED
    BY <1>0, <2>1, <2>2
<1> HIDE DEF From
<1>4. \A x \in Cmds : pc'[x] = pc[x] \/ pc'[x] = "returned"
  BY <1>0
<1>5. \A x \in Cmds : pc[x] # "new" => pc'[x] # "new"
  BY <1>4
<1>6. \A x \in Cmds : pc[x] \notin {"new", "queued"} => pc'[x] \notin {"new", "queued"}
  BY <1>4
<1>7. /\ \A j \in 1 .. Len(pendingQueue) : pendingQueue[j] \in Cmds
      /\ \A j \in 1 .. Len(stdout) : stdout[j].cmd \in Cmds
      /\ \A j \in 1 .. Len(stdin) : stdin[j] \in Cmds
  BY BlockFacts DEF IInv, TypeOK, QueueType, PipeType
<1>8. QueueSound'
  BY <1>1, <1>2, <1>5, <1>6, <1>7 DEF IInv, QueueSound
<1>9. ASSUME NEW d \in Cmds, d # c, Queued(d) PROVE Queued(d)'
  <2>1. PICK k \in 1 .. Len(pendingQueue) : pendingQueue[k] = d
    BY <1>9 DEF Queued
  <2>2. PICK j \in 1 .. Len1 : From(j) = k
    BY <1>3, <1>9, <2>1
  <2>3. pendingQueue'[j] = d /\ j \in 1 .. Len(pendingQueue')
    BY <1>1, <2>1, <2>2
  <2> QED
    BY <2>3 DEF Queued
<1> QED
  BY <1>8, <1>9

\* A failed write takes its channel back from behind the commands that were written.
LEMMA WriteFailsIInv ==
  ASSUME IInv, NEW c \in Cmds, Write(c), ~(stdinOpen /\ tmuxUp)
  PROVE  IInv'
<1>1. /\ pc[c] = "queued" /\ pc' = [pc EXCEPT ![c] = "returned"]
      /\ got' = [got EXCEPT ![c] = "write error"] /\ Unqueue(c)
      /\ UNCHANGED <<stdin, slipped, chan, pendingCmds, stdout, stdinOpen, tmuxUp, reader, active,
                     target>>
  BY DEF Write, Return, loop
<1>2. pendingQueue \in Seq(Cmds) /\ pc \in [Cmds -> {"new", "queued", "waiting", "returned"}]
  BY DEF IInv, TypeOK, QueueType, CallType
<1>3. TypeOK'
  <2>1. QueueType'
    BY <1>1, <1>2, UnqueueFacts DEF IInv, TypeOK, QueueType
  <2>2. CallType'
    BY <1>1 DEF IInv, TypeOK, CallType, Failures
  <2> QED
    BY <1>1, <2>1, <2>2 DEF IInv, TypeOK, PipeType, ReaderType
<1>4. ReaderSound'
  BY <1>1 DEF IInv, ReaderSound
<1>5. CASE ~Queued(c)
  <2>1. pendingQueue' = pendingQueue /\ slipped
    BY <1>1, <1>5 DEF IInv, Paired, Unqueue
  <2>2. QueueSound'
    <3>1. \A x \in Cmds : pc'[x] = pc[x] \/ pc'[x] = "returned"
      BY <1>1, <1>2
    <3>2. /\ \A j \in 1 .. Len(pendingQueue) : pendingQueue[j] \in Cmds
          /\ \A j \in 1 .. Len(stdout) : stdout[j].cmd \in Cmds
          /\ \A j \in 1 .. Len(stdin) : stdin[j] \in Cmds
      BY BlockFacts DEF IInv, TypeOK, QueueType, PipeType
    <3> QED
      BY <1>1, <2>1, <3>1, <3>2 DEF IInv, QueueSound
  <2> QED
    BY <1>1, <1>3, <1>4, <2>1, <2>2 DEF IInv, QueueAligned, Paired
<1>6. CASE Queued(c)
  <2>1. PICK i \in 1 .. Len(pendingQueue) :
          /\ pendingQueue[i] = c
          /\ Len(pendingQueue') = Len(pendingQueue) - 1
          /\ \A j \in 1 .. Len(pendingQueue) - 1 :
               pendingQueue'[j] = pendingQueue[IF j < i THEN j ELSE j + 1]
    BY <1>1, <1>2, <1>6, UnqueueFacts
  <2>2. QueueSound' /\ \A d \in Cmds : d # c /\ Queued(d) => Queued(d)'
    BY <1>1, <2>1, TakenBack
  <2>3. Paired'
    BY <1>1, <1>2, <2>2 DEF IInv, Paired, TypeOK, CallType, Failures
  <2>4. QueueAligned'
    <3> SUFFICES ASSUME ~slipped PROVE QueueAligned'
      BY <1>1 DEF QueueAligned
    <3> DEFINE n == Len(stdout)
               m == Len(stdin)
    <3>1. n \in Nat /\ m \in Nat /\ Len(pendingQueue) \in Nat
      BY DEF IInv, TypeOK, PipeType, QueueType
    <3>2. /\ n + m <= Len(pendingQueue)
          /\ \A j \in 1 .. n : pendingQueue[j] = stdout[j].cmd
          /\ \A j \in 1 .. m : pendingQueue[n + j] = stdin[j]
          /\ \A j \in n + m + 1 .. Len(pendingQueue) : pc[pendingQueue[j]] = "queued"
      BY DEF IInv, QueueAligned
    <3>3. i > n + m
      <4>1. CASE i <= n
        <5>1. i \in 1 .. n /\ stdout[i].cmd = c
          BY <2>1, <3>1, <3>2, <4>1
        <5> QED
          BY <1>1, <5>1 DEF IInv, QueueSound
      <4>2. CASE i > n /\ i <= n + m
        <5>1. i - n \in 1 .. m /\ pendingQueue[i] = stdin[i - n]
          BY <3>1, <3>2, <4>2
        <5> QED
          BY <1>1, <2>1, <5>1 DEF IInv, QueueSound
      <4> QED
        BY <3>1, <4>1, <4>2
    <3>4. \A j \in 1 .. n + m :
            j \in 1 .. Len(pendingQueue) - 1 /\ pendingQueue'[j] = pendingQueue[j]
      BY <2>1, <3>1, <3>3
    <3>6. /\ \A j \in 1 .. n : j \in 1 .. n + m
          /\ \A j \in 1 .. m : n + j \in 1 .. n + m
      BY <3>1
    <3>7. /\ \A j \in 1 .. n : pendingQueue'[j] = stdout[j].cmd
          /\ \A j \in 1 .. m : pendingQueue'[n + j] = stdin[j]
      BY <3>2, <3>4, <3>6
    <3>8. n + m <= Len(pendingQueue) - 1
      BY <2>1, <3>1, <3>3
    <3>5. \A j \in n + m + 1 .. Len(pendingQueue) - 1 : pc'[pendingQueue'[j]] = "queued"
      <4> TAKE j \in n + m + 1 .. Len(pendingQueue) - 1
      <4> DEFINE k == IF j < i THEN j ELSE j + 1
      <4>1. k \in n + m + 1 .. Len(pendingQueue) /\ k # i /\ k \in 1 .. Len(pendingQueue)
        BY <3>1
      <4>2. pendingQueue'[j] = pendingQueue[k]
        BY <2>1, <3>1
      <4> HIDE DEF k
      <4>3. pendingQueue[k] # c /\ pendingQueue[k] \in Cmds
        BY <1>2, <2>1, <4>1 DEF IInv, QueueSound
      <4> QED
        BY <1>1, <1>2, <3>2, <4>1, <4>2, <4>3
    <3> QED
      BY <1>1, <2>1, <3>5, <3>7, <3>8 DEF QueueAligned
  <2> QED
    BY <1>3, <1>4, <2>2, <2>3, <2>4 DEF IInv
<1> QED
  BY <1>5, <1>6

\* Receive keeps the invariant.
LEMMA ReceiveIInv ==
  ASSUME IInv, NEW c \in Cmds, Receive(c)
  PROVE  IInv'
<1> USE DEF IInv, Receive, Return, pipes, loop
<1>1. TypeOK'
  BY DEF TypeOK, CallType, QueueType, PipeType, ReaderType, Failures
<1>2. QueueSound'
  BY DEF QueueSound, TypeOK, CallType
<1>3. ReaderSound'
  BY DEF ReaderSound
<1>4. QueueAligned'
  BY DEF QueueAligned, TypeOK, CallType
<1>5. Paired'
  BY DEF Paired, TypeOK, CallType, Queued, Failures
<1> QED
  BY <1>1, <1>2, <1>3, <1>4, <1>5

\* A timeout slips only when the channel is still queued.
LEMMA TimeoutIInv ==
  ASSUME IInv, NEW c \in Cmds, Timeout(c)
  PROVE  IInv'
<1> USE DEF IInv, Timeout, Return, pipes, loop
<1>1. pendingQueue' \in Seq(Cmds)
  BY UnqueueFacts DEF TypeOK, QueueType
<1>2. TypeOK'
  <2>1. slipped' \in BOOLEAN
    OBVIOUS
  <2> QED
    BY <1>1, <2>1 DEF TypeOK, CallType, QueueType, PipeType, ReaderType, Failures
<1>3. ReaderSound'
  BY DEF ReaderSound
<1>4. CASE Queued(c)
  <2>1. PICK i \in 1 .. Len(pendingQueue) :
          /\ pendingQueue[i] = c
          /\ Len(pendingQueue') = Len(pendingQueue) - 1
          /\ \A j \in 1 .. Len(pendingQueue) - 1 :
               pendingQueue'[j] = pendingQueue[IF j < i THEN j ELSE j + 1]
    BY <1>4, UnqueueFacts DEF TypeOK, QueueType
  <2>2. QueueSound'
    BY <2>1, TakenBack
  <2>3. slipped'
    BY <1>4
  <2> QED
    BY <1>2, <1>3, <2>2, <2>3 DEF QueueAligned, Paired
<1>5. CASE ~Queued(c)
  <2>1. pendingQueue' = pendingQueue
    BY <1>5 DEF Unqueue
  <2>2. QueueSound'
    BY <2>1 DEF QueueSound, TypeOK, CallType
  <2>3. QueueAligned'
    BY <2>1 DEF QueueAligned, TypeOK, CallType
  <2>4. Paired'
    BY <2>1 DEF Paired, TypeOK, CallType, QueueType, Queued, Failures
  <2> QED
    BY <1>2, <1>3, <2>2, <2>3, <2>4
<1> QED
  BY <1>4, <1>5

-----------------------------------------------------------------------------
(***************************************************************************)
(* tmux.                                                                   *)
(***************************************************************************)
\* tmux takes the next command and answers it, perhaps in part.
LEMMA AnswerIInv ==
  ASSUME IInv, NEW last \in {"end", "error", "none"}, stdin # <<>>, stdin' = Tail(stdin),
         stdout' = Append(stdout, Block(Head(stdin), last)),
         stdinOpen' \in BOOLEAN, tmuxUp' \in BOOLEAN,
         UNCHANGED <<calls, chan, pendingQueue, pendingCmds, loop, slipped>>
  PROVE  IInv'
<1> USE DEF IInv, calls, loop
<1> DEFINE b == Block(Head(stdin), last)
<1>1. Head(stdin) \in Cmds
  BY DEF TypeOK, CallType, QueueType, PipeType, ReaderType
<1>2. b \in Blocks /\ b.cmd = Head(stdin)
  BY <1>1, BlockFacts
<1>3. stdout' = Append(stdout, b)
  OBVIOUS
<1> HIDE DEF b
<1>4. TypeOK'
  BY <1>2, <1>3 DEF TypeOK, CallType, QueueType, PipeType, ReaderType
<1>5. QueueSound'
  BY <1>2, <1>3 DEF QueueSound, TypeOK, CallType, QueueType, PipeType, ReaderType
<1>6. ReaderSound'
  BY DEF ReaderSound
<1>7. QueueAligned'
  BY <1>2, <1>3 DEF QueueAligned, TypeOK, CallType, QueueType, PipeType, ReaderType
<1>8. Paired'
  BY DEF Paired, Queued
<1> QED
  BY <1>4, <1>5, <1>6, <1>7, <1>8

\* Only the ends of the pipes change.
LEMMA PipesIInv ==
  ASSUME IInv, stdinOpen' \in BOOLEAN, tmuxUp' \in BOOLEAN,
         UNCHANGED <<calls, chan, pendingQueue, pendingCmds, stdin, stdout, loop, slipped>>
  PROVE  IInv'
  BY DEF IInv, TypeOK, CallType, QueueType, PipeType, ReaderType, QueueSound, ReaderSound, QueueAligned, Paired, Queued, calls, loop

\* Tmux keeps the invariant.
LEMMA TmuxIInv ==
  ASSUME IInv, Execute \/ TmuxExits \/ Close
  PROVE  IInv'
<1>0. stdinOpen \in BOOLEAN /\ tmuxUp \in BOOLEAN
  BY DEF IInv, TypeOK, CallType, QueueType, PipeType, ReaderType
<1>1. CASE Execute
  BY <1>0, <1>1, AnswerIInv DEF Execute
<1>2. CASE TmuxExits
  BY <1>0, <1>2, AnswerIInv, PipesIInv DEF TmuxExits, Dies
<1>3. CASE Close
  BY <1>0, <1>3, AnswerIInv, PipesIInv DEF Close, Dies
<1> QED
  BY <1>1, <1>2, <1>3

-----------------------------------------------------------------------------
(***************************************************************************)
(* readLoop.                                                               *)
(***************************************************************************)
\* The oldest channel is the one of the block that begins.
LEMMA ReadBeginIInv ==
  ASSUME IInv, ReadBegin
  PROVE  IInv'
<1> USE DEF IInv, ReadBegin, calls
<1> DEFINE b == Head(stdout)
<1>1. b \in Blocks /\ b.cmd \in Cmds /\ b = stdout[1]
  BY BlockFacts DEF TypeOK, CallType, QueueType, PipeType, ReaderType
<1>2. active' = b /\ stdout' = Tail(stdout)
  OBVIOUS
<1>3. ReaderSound'
  BY DEF ReaderSound
<1>4. CASE pendingQueue # <<>>
  <2>1. /\ pendingCmds' = [pendingCmds EXCEPT ![b.cmd] = pendingQueue[1]]
        /\ pendingQueue' = Tail(pendingQueue) /\ pendingQueue[1] \in Cmds
    BY <1>4 DEF OldestFirst, TypeOK, CallType, QueueType, PipeType, ReaderType
  <2> HIDE DEF b
  <2>2. TypeOK'
    <3>1. QueueType'
      BY <1>1, <1>4, <2>1 DEF TypeOK, QueueType
    <3>2. PipeType'
      BY <1>2 DEF TypeOK, PipeType
    <3>3. CallType' /\ ReaderType'
      BY <1>1, <1>2 DEF TypeOK, CallType, ReaderType
    <3> QED
      BY <3>1, <3>2, <3>3 DEF TypeOK
  <2>3. QueueSound'
    BY <1>2, <2>1 DEF QueueSound, TypeOK, CallType, QueueType, PipeType, ReaderType
  <2>4. QueueAligned'
    BY <1>2, <2>1 DEF QueueAligned, TypeOK, CallType, QueueType, PipeType, ReaderType
  <2>5. Paired'
    <3> SUFFICES ASSUME ~slipped PROVE Paired'
      BY DEF Paired
    <3>1. pendingQueue[1] = b.cmd
      BY <1>1 DEF QueueAligned, TypeOK, CallType, QueueType, PipeType, ReaderType
    <3>2. pc[b.cmd] # "queued"
      BY <1>1 DEF QueueSound, TypeOK, CallType, QueueType, PipeType, ReaderType
    <3>3. ASSUME NEW c \in Cmds, pc[c] = "queued" PROVE Queued(c)'
      <4>1. PICK k \in 1 .. Len(pendingQueue) : pendingQueue[k] = c
        BY <3>3 DEF Paired, Queued
      <4>2. k # 1
        BY <3>1, <3>2, <3>3, <4>1
      <4>3. k - 1 \in 1 .. Len(pendingQueue') /\ pendingQueue'[k - 1] = c
        BY <1>4, <2>1, <4>1, <4>2 DEF TypeOK, QueueType
      <4> QED
        BY <4>3 DEF Queued
    <3> QED
      BY <1>1, <2>1, <3>1, <3>3 DEF Paired, TypeOK, CallType, QueueType, PipeType, ReaderType
  <2> QED
    BY <1>3, <2>2, <2>3, <2>4, <2>5
<1>5. CASE pendingQueue = <<>>
  <2>1. slipped
    BY <1>5 DEF QueueAligned, TypeOK, CallType, QueueType, PipeType, ReaderType
  <2>2. UNCHANGED <<pendingCmds, pendingQueue>>
    BY <1>5
  <2> HIDE DEF b
  <2>3. TypeOK'
    BY <1>1, <1>2, <2>2 DEF TypeOK, CallType, QueueType, PipeType, ReaderType
  <2>4. QueueSound'
    BY <1>2, <2>2 DEF QueueSound, TypeOK, CallType, QueueType, PipeType, ReaderType
  <2> QED
    BY <1>3, <2>1, <2>3, <2>4 DEF QueueAligned, Paired
<1> QED
  BY <1>4, <1>5

\* ReadEnd keeps the invariant.
LEMMA ReadEndIInv ==
  ASSUME IInv, ReadEnd
  PROVE  IInv'
<1> USE DEF IInv, ReadEnd, calls, pipes
<1>1. active \in Blocks /\ active.cmd \in Cmds /\ active # NoBlock
  BY BlockFacts DEF TypeOK, CallType, QueueType, PipeType, ReaderType
<1>2. TypeOK'
  BY <1>1 DEF TypeOK, CallType, QueueType, PipeType, ReaderType
<1>3. QueueSound' /\ QueueAligned'
  BY DEF QueueSound, QueueAligned
<1>4. ReaderSound'
  BY <1>1 DEF ReaderSound
<1>5. Paired'
  BY <1>1 DEF Paired, Queued
<1> QED
  BY <1>2, <1>3, <1>4, <1>5

\* Deliver keeps the invariant.
LEMMA DeliverIInv ==
  ASSUME IInv, Deliver
  PROVE  IInv'
<1> USE DEF IInv, Deliver, calls, pipes
<1>1. target \in Cmds /\ active.cmd \in Cmds
  BY BlockFacts DEF TypeOK, ReaderType, ReaderSound
<1>2. TypeOK'
  BY <1>1 DEF TypeOK, CallType, QueueType, PipeType, ReaderType
<1>3. QueueSound' /\ QueueAligned' /\ ReaderSound'
  BY DEF QueueSound, QueueAligned, ReaderSound
<1>4. Paired'
  BY <1>1 DEF Paired, Queued, TypeOK, CallType, QueueType, PipeType, ReaderType
<1> QED
  BY <1>2, <1>3, <1>4

\* ReaderEnds keeps the invariant.
LEMMA ReaderEndsIInv ==
  ASSUME IInv, ReadExit \/ ReaderStops
  PROVE  IInv'
<1> USE DEF IInv, ReadExit, ReaderStops, calls, pipes
<1>1. TypeOK'
  BY DEF TypeOK, CallType, QueueType, PipeType, ReaderType
<1>2. QueueSound' /\ QueueAligned' /\ ReaderSound'
  BY DEF QueueSound, QueueAligned, ReaderSound
<1>3. Paired'
  BY DEF Paired, Queued, TypeOK, CallType, QueueType, PipeType, ReaderType
<1> QED
  BY <1>1, <1>2, <1>3
-----------------------------------------------------------------------------
\* Every step keeps the invariant: one case per action.
LEMMA NextIInv == IInv /\ [Next]_vars => IInv'
<1> SUFFICES ASSUME IInv, [Next]_vars PROVE IInv'
  OBVIOUS
<1>1. ASSUME NEW c \in Cmds, RunCommand(c) \/ CallStep(c) PROVE IInv'
  BY <1>1, RunCommandIInv, WriteIInv, WriteFailsIInv, ReceiveIInv, TimeoutIInv DEF CallStep
<1>2. CASE ReaderStep
  BY <1>2, ReadBeginIInv, ReadEndIInv, DeliverIInv, ReaderEndsIInv DEF ReaderStep
<1>3. CASE UNCHANGED vars
  BY <1>3, PipesIInv DEF vars, pipes, IInv, TypeOK, CallType, QueueType, PipeType, ReaderType
<1> QED
  BY <1>1, <1>2, <1>3, TmuxIInv DEF Next

\* Queue, pipes, reader and channels stay consistent for any number of concurrent
\* commands, timeouts and a tmux that dies.
THEOREM InvariantHolds == Spec => []IInv
<1>1. Init => IInv
  BY InitIInv
<1>2. IInv /\ [Next]_vars => IInv'
  BY NextIInv
<1> QED
  BY <1>1, <1>2, PTL DEF Spec

\* Pairing replies with calls by order alone is right as long as no call overtook
\* another and none timed out before its %begin (tmux.go:520-534).
THEOREM RepliesAlignedHolds == Spec => []RepliesAligned
<1>1. IInv => RepliesAligned
  BY DEF IInv, RepliesAligned, MismatchExplained, Paired
<1> QED
  BY <1>1, InvariantHolds, PTL
-----------------------------------------------------------------------------
(***************************************************************************)
(* The pane's bytes (PtyStream), for any stream and any way it is cut into *)
(* chunks.                                                                 *)
(***************************************************************************)
\* A set of natural numbers has a least one.
LEMMA LeastNumber ==
  ASSUME NEW T, T \subseteq Nat, T # {}
  PROVE  \E x \in T : \A y \in T : x <= y
<1> DEFINE R == OpToRel(<, Nat)
<1>1. IsWellFoundedOn(R, Nat)
  BY NatLessThanWellFounded
<1>2. \A x, y \in Nat : <<y, x>> \in R <=> y < x
  BY DEF OpToRel
<1> HIDE DEF R
<1>3. PICK x \in T : \A y \in T : ~ (<<y, x>> \in R)
  BY <1>1, WFMin
<1>4. ASSUME NEW y \in T PROVE x <= y
  <2>1. x \in Nat /\ y \in Nat /\ ~ (y < x)
    BY <1>2, <1>3
  <2> QED
    BY <2>1
<1> QED
  BY <1>4

\* Induction, by the least counterexample.
LEMMA Induction ==
  ASSUME NEW T, T \subseteq Nat, 0 \in T, \A n \in T : n + 1 \in T
  PROVE  T = Nat
<1>1. SUFFICES ASSUME T # Nat PROVE FALSE
  OBVIOUS
<1> DEFINE U == Nat \ T
<1>2. U \subseteq Nat /\ U # {}
  BY <1>1
<1>3. PICK x \in U : \A y \in U : x <= y
  BY <1>2, LeastNumber
<1>4. x # 0 /\ x - 1 \in Nat
  BY <1>3
<1>5. x - 1 \in T
  BY <1>3, <1>4
<1>6. (x - 1) + 1 = x
  BY <1>3
<1> QED
  BY <1>3, <1>5, <1>6

\* g is a solution of the recursion of RunFirst up to n.
IsRun(g, s, b, n) ==
  g = [i \in 0 .. n |-> IF i = 0 THEN Result(s, <<>>) ELSE Advance(g[i - 1], b[i])]

\* The recursion has a solution.
LEMMA RunExists == ASSUME NEW s, NEW b, NEW n \in Nat PROVE \E g : IsRun(g, s, b, n)
<1> DEFINE T == {m \in Nat : \E g : IsRun(g, s, b, m)}
<1>1. 0 \in T
  <2> DEFINE g == [i \in 0 .. 0 |-> Result(s, <<>>)]
  <2>1. g = [i \in 0 .. 0 |-> IF i = 0 THEN Result(s, <<>>) ELSE Advance(g[i - 1], b[i])]
    OBVIOUS
  <2> QED
    BY <2>1 DEF IsRun
<1>2. ASSUME NEW m \in T PROVE m + 1 \in T
  <2>1. PICK g : IsRun(g, s, b, m)
    OBVIOUS
  <2> DEFINE h == [i \in 0 .. m + 1 |-> IF i = m + 1 THEN Advance(g[m], b[m + 1]) ELSE g[i]]
  <2>2. \A i \in 0 .. m : g[i] = IF i = 0 THEN Result(s, <<>>) ELSE Advance(g[i - 1], b[i])
    BY <2>1 DEF IsRun
  <2>3. \A i \in 0 .. m + 1 :
           h[i] = IF i = 0 THEN Result(s, <<>>) ELSE Advance(h[i - 1], b[i])
    BY <2>2
  <2>4. h = [i \in 0 .. m + 1 |->
                IF i = 0 THEN Result(s, <<>>) ELSE Advance(h[i - 1], b[i])]
    BY <2>3
  <2> HIDE DEF h
  <2>5. IsRun(h, s, b, m + 1)
    BY <2>4 DEF IsRun
  <2> QED
    BY <2>5
<1> HIDE DEF T
<1>3. T = Nat
  BY <1>1, <1>2, Induction DEF T
<1> QED
  BY <1>3 DEF T

\* Runs over the same first bytes agree.
LEMMA RunUnique ==
  ASSUME NEW s, NEW b, NEW d, NEW m \in Nat, NEW n \in Nat, m <= n,
         \A i \in 1 .. m : b[i] = d[i],
         NEW g, NEW h, IsRun(g, s, b, m), IsRun(h, s, d, n)
  PROVE  g[m] = h[m]
<1> DEFINE T == {i \in Nat : i <= m => g[i] = h[i]}
<1>1. \A i \in 0 .. m : g[i] = IF i = 0 THEN Result(s, <<>>) ELSE Advance(g[i - 1], b[i])
  BY DEF IsRun
<1>2. \A i \in 0 .. n : h[i] = IF i = 0 THEN Result(s, <<>>) ELSE Advance(h[i - 1], d[i])
  BY DEF IsRun
<1>3. 0 \in T
  BY <1>1, <1>2
<1>4. ASSUME NEW i \in T PROVE i + 1 \in T
  <2>1. SUFFICES ASSUME i + 1 <= m PROVE g[i + 1] = h[i + 1]
    OBVIOUS
  <2>2. g[i] = h[i] /\ b[i + 1] = d[i + 1]
    BY <2>1
  <2>3. g[i + 1] = Advance(g[i], b[i + 1]) /\ h[i + 1] = Advance(h[i], d[i + 1])
    BY <1>1, <1>2, <2>1
  <2> QED
    BY <2>2, <2>3
<1> HIDE DEF T
<1>5. T = Nat
  BY <1>3, <1>4, Induction DEF T
<1> QED
  BY <1>5 DEF T

\* RunFirst is the last value of one.
LEMMA RunIs ==
  ASSUME NEW s, NEW b, NEW n \in Nat
  PROVE  \E g : IsRun(g, s, b, n) /\ RunFirst(s, b, n) = g[n]
<1> DEFINE g == CHOOSE g : IsRun(g, s, b, n)
<1>1. IsRun(g, s, b, n)
  BY RunExists
<1>2. RunFirst(s, b, n) = g[n]
  BY DEF RunFirst, IsRun
<1> QED
  BY <1>1, <1>2

\* The loop, one byte after the other.
LEMMA RunStep ==
  ASSUME NEW s, NEW b, NEW d, NEW n \in Nat, \A i \in 1 .. n : b[i] = d[i]
  PROVE  /\ RunFirst(s, b, 0) = Result(s, <<>>)
         /\ RunFirst(s, d, n + 1) = Advance(RunFirst(s, b, n), d[n + 1])
<1>1. RunFirst(s, b, 0) = Result(s, <<>>)
  BY RunIs DEF IsRun
<1>2. PICK g : IsRun(g, s, b, n) /\ RunFirst(s, b, n) = g[n]
  BY RunIs
<1>3. n + 1 \in Nat
  OBVIOUS
<1>4. PICK h : IsRun(h, s, d, n + 1) /\ RunFirst(s, d, n + 1) = h[n + 1]
  BY <1>3, RunIs
<1>5. g[n] = h[n]
  BY <1>2, <1>3, <1>4, RunUnique
<1>6. h[n + 1] = Advance(h[n], d[n + 1])
  BY <1>4 DEF IsRun
<1> QED
  BY <1>1, <1>2, <1>4, <1>5, <1>6
-----------------------------------------------------------------------------
(***************************************************************************)
(* One byte.  pending is what the state says it is, so that two Sanitizers *)
(* in the same state with the same parameter do the same from there on,    *)
(* whatever pending and param still hold in the states that do not use     *)
(* them.                                                                   *)
(***************************************************************************)
Sound(s) ==
  /\ s \in Sanitizers
  /\ s.state = "Esc" => s.pending = <<27>>
  /\ s.state \in {"OscNum", "OscNumEsc"} => s.pending = <<27, 93>> \o s.param

Same(s, t) ==
  s.state = t.state /\ (s.state \in {"OscNum", "OscNumEsc"} => s.param = t.param)

\* A byte appended to a sequence of bytes.
LEMMA AppendByte ==
  ASSUME NEW S, NEW d \in Seq(S), NEW c \in S
  PROVE  /\ d \o <<c>> \in Seq(S) /\ Len(d \o <<c>>) = Len(d) + 1
         /\ (d \o <<c>>)[Len(d) + 1] = c
         /\ \A i \in 1 .. Len(d) : (d \o <<c>>)[i] = d[i]
  OBVIOUS

\* Sequences of two.
LEMMA TwoBytes == \A x, y \in Nat : <<x>> \o <<y>> = <<x, y>>
<1>1. SUFFICES ASSUME NEW x \in Nat, NEW y \in Nat PROVE <<x>> \o <<y>> = <<x, y>>
  OBVIOUS
<1> DEFINE z == <<x>> \o <<y>>
<1>2. <<x>> \in Seq(Nat) /\ Len(<<x>>) = 1 /\ <<x>>[1] = x
  OBVIOUS
<1>3. z \in Seq(Nat) /\ Len(z) = 2 /\ z[1] = x /\ z[2] = y
  BY <1>2, AppendByte
<1> HIDE DEF z
<1>4. z = <<x, y>>
  BY <1>3
<1> QED
  BY <1>4 DEF z

\* Concatenation.
LEMMA Joined ==
  ASSUME NEW S, NEW a \in Seq(S), NEW b \in Seq(S), NEW c \in Seq(S)
  PROVE  /\ a \o b \in Seq(S) /\ (a \o b) \o c = a \o (b \o c)
         /\ a \o <<>> = a /\ <<>> \o a = a
  OBVIOUS

\* It may be grouped either way.
LEMMA Grouped == \A a, b, c \in Seq(Byte) : (a \o b) \o c = a \o (b \o c)
  BY Joined

\* Its elements.
LEMMA JoinedAt ==
  ASSUME NEW S, NEW a \in Seq(S), NEW b \in Seq(S)
  PROVE  /\ a \o b \in Seq(S) /\ Len(a \o b) = Len(a) + Len(b)
         /\ \A i \in 1 .. Len(a) : (a \o b)[i] = a[i]
         /\ \A i \in 1 .. Len(b) : (a \o b)[Len(a) + i] = b[i]
  OBVIOUS

\* The parts of a Sanitizer.
LEMMA Parts ==
  ASSUME NEW s \in Sanitizers
  PROVE  /\ s.state \in States /\ s.pending \in Seq(Byte)
         /\ s.param \in Seq(Digits) /\ s.param \in Seq(Byte)
<1>1. /\ s.state \in States /\ s.pending \in Seq(Byte) /\ s.param \in Seq(Digits)
  BY DEF Sanitizers
<1>2. Digits \subseteq Byte
  BY DEF Digits, Byte
<1>3. s.param \in Seq(Byte)
  BY <1>1, <1>2
<1> QED
  BY <1>1, <1>3

\* The state after a Sanitizer only goes to another state.
LEMMA GoToFacts ==
  ASSUME NEW s \in Sanitizers, NEW st \in States
  PROVE  /\ GoTo(s, st) \in Sanitizers /\ GoTo(s, st).state = st
         /\ GoTo(s, st).pending = s.pending /\ GoTo(s, st).param = s.param
         /\ Dropped(s, st) \in Sanitizers /\ Dropped(s, st).state = st
         /\ Dropped(s, st).param = s.param
<1>1. <<>> \in Seq(Byte)
  OBVIOUS
<1>2. /\ GoTo(s, st) \in Sanitizers /\ GoTo(s, st).state = st
      /\ GoTo(s, st).pending = s.pending /\ GoTo(s, st).param = s.param
  BY DEF GoTo, Sanitizers
<1>3. /\ Dropped(s, st) \in Sanitizers /\ Dropped(s, st).state = st
      /\ Dropped(s, st).param = s.param
  BY <1>1 DEF Dropped, Sanitizers
<1> QED
  BY <1>2, <1>3

\* What the two parts of a result are.
LEMMA ResultIs ==
  ASSUME NEW s, NEW b
  PROVE  Result(s, b).san = s /\ Result(s, b).out = b
  BY DEF Result

\* The step is that of the state.
LEMMA StepOf ==
  ASSUME NEW s, NEW c
  PROVE  /\ s.state = "Normal" => Step(s, c) = NormalStep(s, c)
         /\ s.state = "Esc" => Step(s, c) = EscStep(s, c)
         /\ s.state = "OscNum" => Step(s, c) = OscNumStep(s, c)
         /\ s.state = "OscNumEsc" => Step(s, c) = OscNumEscStep(s, c)
         /\ s.state = "DropTitle" => Step(s, c) = DropTitleStep(s, c)
         /\ s.state = "DropEsc" => Step(s, c) = DropEscStep(s, c)
         /\ s.state = "PassOsc" => Step(s, c) = PassOscStep(s, c)
         /\ s.state = "PassOscEsc" => Step(s, c) = PassOscEscStep(s, c)
  BY DEF Step

\* The states that keep nothing: what they go to and give out.
PlainState(st, c) ==
  IF st = "DropTitle" THEN IF c = 7 THEN "Normal" ELSE IF c = 27 THEN "DropEsc" ELSE "DropTitle"
  ELSE IF st = "DropEsc" THEN IF c = 92 THEN "Normal" ELSE "DropTitle"
  ELSE IF st = "PassOsc"
  THEN IF c = 7 THEN "Normal" ELSE IF c = 27 THEN "PassOscEsc" ELSE "PassOsc"
  ELSE IF c = 92 THEN "Normal" ELSE IF c = 27 THEN "PassOscEsc" ELSE "PassOsc"

PlainOut(st, c) == IF st \in {"DropTitle", "DropEsc"} THEN <<>> ELSE <<c>>

PlainStates == {"DropTitle", "DropEsc", "PassOsc", "PassOscEsc"}

\* In the states that drop or pass an OSC.
LEMMA PlainStep ==
  ASSUME NEW s \in Sanitizers, NEW c, s.state \in PlainStates
  PROVE  /\ Step(s, c) = Result(GoTo(s, PlainState(s.state, c)), PlainOut(s.state, c))
         /\ PlainState(s.state, c) \in {"Normal"} \cup PlainStates
<1>1. CASE s.state = "DropTitle"
  BY <1>1, StepOf DEF DropTitleStep, PlainState, PlainOut, BEL, ESC, PlainStates
<1>2. CASE s.state = "DropEsc"
  BY <1>2, StepOf DEF DropEscStep, PlainState, PlainOut, Backslash, PlainStates
<1>3. CASE s.state = "PassOsc"
  BY <1>3, StepOf DEF PassOscStep, PlainState, PlainOut, BEL, ESC, PlainStates
<1>4. CASE s.state = "PassOscEsc"
  BY <1>4, StepOf DEF PassOscEscStep, PlainState, PlainOut, Backslash, ESC, PlainStates
<1> QED
  BY <1>1, <1>2, <1>3, <1>4 DEF PlainStates

\* What a step is, for a Sound Sanitizer: the states that hold something back.
StepCases(s, c, r) ==
  \/ /\ s.state = "Normal" /\ c = 27
     /\ r.san.state = "Esc" /\ r.san.pending = <<27>> /\ r.out = <<>>
  \/ s.state = "Normal" /\ c # 27 /\ r.san = s /\ r.out = <<c>>
  \/ /\ s.state = "Esc" /\ c = 93
     /\ r.san.state = "OscNum" /\ r.san.pending = <<27, 93>> /\ r.san.param = <<>> /\ r.out = <<>>
  \/ s.state = "Esc" /\ c = 27 /\ r.san = s /\ r.out = <<27>>
  \/ s.state = "Esc" /\ c \notin {27, 93} /\ r.san.state = "Normal" /\ r.out = <<27, c>>
  \/ /\ s.state = "OscNum" /\ c \in 48 .. 57 /\ Len(s.param) < 8
     /\ r.san.state = "OscNum" /\ r.san.param = s.param \o <<c>>
     /\ r.san.pending = s.pending \o <<c>> /\ r.out = <<>>
  \/ /\ s.state = "OscNum" /\ c = 27 /\ r.out = <<>>
     /\ r.san.state = "OscNumEsc" /\ r.san.param = s.param /\ r.san.pending = s.pending
  \/ /\ s.state = "OscNum" /\ c \in {59, 7} /\ isTitleParam(s.param) /\ r.out = <<>>
     /\ r.san.state = IF c = 7 THEN "Normal" ELSE "DropTitle"
  \/ /\ s.state = "OscNum" /\ c # 27 /\ ~(c \in 48 .. 57 /\ Len(s.param) < 8)
     /\ ~(c \in {59, 7} /\ isTitleParam(s.param))
     /\ r.out = s.pending \o <<c>> /\ r.san.state = IF c = 7 THEN "Normal" ELSE "PassOsc"
  \/ /\ s.state = "OscNumEsc" /\ c = 92 /\ isTitleParam(s.param)
     /\ r.out = <<>> /\ r.san.state = "Normal"
  \/ /\ s.state = "OscNumEsc" /\ ~(c = 92 /\ isTitleParam(s.param))
     /\ r.out = s.pending \o <<27, c>> /\ r.san.state = "Normal"
  \/ /\ s.state \in PlainStates
     /\ r.san.state = PlainState(s.state, c) /\ r.out = PlainOut(s.state, c)
     /\ r.san.state \in {"Normal"} \cup PlainStates

\* Every step is one of these.
LEMMA StepIsCase ==
  ASSUME NEW s, Sound(s), NEW c \in Byte
  PROVE  StepCases(s, c, Step(s, c)) /\ Step(s, c).san \in Sanitizers
<1>1. s \in Sanitizers /\ c \in 0 .. 255
  BY DEF Sound, Byte
<1>2. /\ s.state \in States /\ s.pending \in Seq(Byte)
      /\ s.param \in Seq(Digits)
  BY <1>1, Parts
<1>3. "Normal" \in States /\ "OscNumEsc" \in States /\ "PassOsc" \in States
      /\ "DropTitle" \in States
  BY DEF States
<1>4. CASE s.state = "Normal"
  <2>1. CASE c = 27
    <3> DEFINE t == [s EXCEPT !.state = "Esc", !.pending = <<c>>]
    <3>1. <<c>> \in Seq(Byte) /\ "Esc" \in States
      BY DEF States
    <3>2. t \in Sanitizers /\ t.state = "Esc" /\ t.pending = <<27>>
      BY <1>1, <2>1, <3>1 DEF Sanitizers
    <3>3. Step(s, c) = Result(t, <<>>)
      BY <1>4, <2>1, StepOf DEF NormalStep, ESC
    <3> HIDE DEF t
    <3> QED
      BY <1>4, <2>1, <3>2, <3>3, ResultIs DEF StepCases
  <2>2. CASE c # 27
    <3>1. Step(s, c) = Result(s, <<c>>)
      BY <1>4, <2>2, StepOf DEF NormalStep, ESC
    <3> QED
      BY <1>1, <1>4, <2>2, <3>1, ResultIs DEF StepCases
  <2> QED
    BY <2>1, <2>2
<1>5. CASE s.state = "Esc"
  <2>0. s.pending = <<27>>
    BY <1>5 DEF Sound
  <2>1. CASE c = 93
    <3> DEFINE t == [state |-> "OscNum", pending |-> s.pending \o <<c>>, param |-> <<>>]
    <3>0. <<27>> \o <<93>> = <<27, 93>>
      BY TwoBytes
    <3>1. /\ s.pending \o <<c>> \in Seq(Byte) /\ "OscNum" \in States
          /\ s.pending \o <<c>> = <<27, 93>> /\ <<>> \in Seq(Digits)
      <4>1. s.pending \o <<c>> \in Seq(Byte)
        BY <1>2, AppendByte
      <4>2. s.pending \o <<c>> = <<27, 93>>
        BY <2>0, <2>1, <3>0
      <4> QED
        BY <4>1, <4>2 DEF States
    <3>2. t \in Sanitizers /\ t.state = "OscNum" /\ t.pending = <<27, 93>> /\ t.param = <<>>
      BY <3>1 DEF Sanitizers
    <3>3. Step(s, c) = Result(t, <<>>)
      BY <1>5, <2>1, StepOf DEF EscStep, Bracket
    <3> HIDE DEF t
    <3> QED
      BY <1>5, <2>1, <3>2, <3>3, ResultIs DEF StepCases
  <2>2. CASE c = 27
    <3>1. Step(s, c) = Result(s, <<27>>)
      <4>1. EscStep(s, c) = Result(s, <<27>>)
        BY <2>2 DEF EscStep, ESC, Bracket
      <4> QED
        BY <1>5, <4>1, StepOf
    <3>2. Step(s, c).san = s /\ Step(s, c).out = <<27>>
      BY <3>1, ResultIs
    <3> QED
      BY <1>1, <1>5, <2>2, <3>2 DEF StepCases
  <2>3. CASE c \notin {27, 93}
    <3>1. Step(s, c) = Result(GoTo(s, "Normal"), <<27, c>>)
      BY <1>5, <2>3, StepOf DEF EscStep, ESC, Bracket
    <3> QED
      <4>1. /\ Step(s, c).san \in Sanitizers
            /\ Step(s, c).san.state = "Normal" /\ Step(s, c).out = <<27, c>>
        <5>1. GoTo(s, "Normal") \in Sanitizers /\ GoTo(s, "Normal").state = "Normal"
          BY <1>1, <1>3, GoToFacts
        <5>2. Step(s, c).san = GoTo(s, "Normal") /\ Step(s, c).out = <<27, c>>
          BY <3>1, ResultIs
        <5> QED
          BY <5>1, <5>2
      <4> QED
        BY <1>5, <2>3, <4>1 DEF StepCases
  <2> QED
    BY <2>1, <2>2, <2>3
<1>6. CASE s.state = "OscNum"
  <2>1. CASE c \in 48 .. 57 /\ Len(s.param) < 8
    <3> DEFINE t == [s EXCEPT !.param = s.param \o <<c>>, !.pending = s.pending \o <<c>>]
    <3>1. s.pending \o <<c>> \in Seq(Byte)
      BY <1>2, AppendByte
    <3>2. c \in Digits
      BY <2>1 DEF Digits
    <3>3. s.param \o <<c>> \in Seq(Digits)
      BY <1>2, <3>2, AppendByte
    <3>4. /\ t \in Sanitizers /\ t.state = "OscNum" /\ t.param = s.param \o <<c>>
          /\ t.pending = s.pending \o <<c>>
      BY <1>1, <1>6, <3>1, <3>3 DEF Sanitizers
    <3>5. Step(s, c) = Result(t, <<>>)
      BY <1>6, <2>1, <3>2, StepOf DEF OscNumStep, IsDigit
    <3> HIDE DEF t
    <3> QED
      <4>1. Step(s, c).san = t /\ Step(s, c).out = <<>>
        BY <3>5, ResultIs
      <4> QED
        BY <1>6, <2>1, <3>4, <4>1 DEF StepCases
  <2>2. CASE c = 27
    <3>1. Step(s, c) = Result(GoTo(s, "OscNumEsc"), <<>>)
      <4>1. ~IsDigit(c)
        BY <2>2 DEF IsDigit, Digits
      <4>2. OscNumStep(s, c) = Result(GoTo(s, "OscNumEsc"), <<>>)
        BY <2>2, <4>1 DEF OscNumStep, ESC
      <4> QED
        BY <1>6, <4>2, StepOf
    <3>2. /\ Step(s, c).san \in Sanitizers /\ Step(s, c).out = <<>>
          /\ Step(s, c).san.state = "OscNumEsc" /\ Step(s, c).san.param = s.param
          /\ Step(s, c).san.pending = s.pending
      <4>1. /\ GoTo(s, "OscNumEsc") \in Sanitizers
            /\ GoTo(s, "OscNumEsc").state = "OscNumEsc"
            /\ GoTo(s, "OscNumEsc").param = s.param
            /\ GoTo(s, "OscNumEsc").pending = s.pending
        BY <1>1, <1>3, GoToFacts
      <4>2. Step(s, c).san = GoTo(s, "OscNumEsc") /\ Step(s, c).out = <<>>
        BY <3>1, ResultIs
      <4> QED
        BY <4>1, <4>2
    <3> QED
      BY <1>6, <2>2, <3>2 DEF StepCases
  <2>3. CASE c \in {59, 7} /\ isTitleParam(s.param)
    <3> DEFINE st == IF c = 7 THEN "Normal" ELSE "DropTitle"
    <3>1. Step(s, c) = Result(Dropped(s, st), <<>>)
      <4>1. ~IsDigit(c)
        BY <2>3 DEF IsDigit, Digits
      <4>2. OscNumStep(s, c) = Result(Dropped(s, st), <<>>)
        BY <2>3, <4>1 DEF OscNumStep, ESC, BEL, Semicolon
      <4> QED
        BY <1>6, <4>2, StepOf
    <3>2. st \in States
      BY <1>3
    <3>3. Dropped(s, st) \in Sanitizers /\ Dropped(s, st).state = st
      BY <1>1, <3>2, GoToFacts
    <3>4. Step(s, c).san.state = st /\ Step(s, c).out = <<>>
      BY <3>1, <3>3, ResultIs
    <3> QED
      BY <1>6, <2>3, <3>1, <3>3, <3>4, ResultIs DEF StepCases
  <2>4. CASE /\ ~(c \in 48 .. 57 /\ Len(s.param) < 8) /\ c # 27
             /\ ~(c \in {59, 7} /\ isTitleParam(s.param))
    <3> DEFINE st == IF c = 7 THEN "Normal" ELSE "PassOsc"
    <3>1. Step(s, c) = Result(GoTo(s, st), s.pending \o <<c>>)
      BY <1>6, <2>4, StepOf
      DEF OscNumStep, IsDigit, Digits, ESC, BEL, Semicolon, Flushed
    <3>2. st \in States
      BY <1>3
    <3>3. GoTo(s, st) \in Sanitizers /\ GoTo(s, st).state = st
      BY <1>1, <3>2, GoToFacts
    <3> HIDE DEF st
    <3>4. Step(s, c).san.state = st /\ Step(s, c).out = s.pending \o <<c>>
      <4>1. Step(s, c).san = GoTo(s, st) /\ Step(s, c).out = s.pending \o <<c>>
        BY <3>1 DEF Result
      <4> QED
        BY <3>3, <4>1
    <3> USE DEF st
    <3> QED
      BY <1>6, <2>4, <3>1, <3>3, <3>4, ResultIs DEF StepCases
  <2> QED
    BY <2>1, <2>2, <2>3, <2>4
<1>7. CASE s.state = "OscNumEsc"
  <2>1. CASE c = 92 /\ isTitleParam(s.param)
    <3>1. Step(s, c) = Result(Dropped(s, "Normal"), <<>>)
      BY <1>7, <2>1, StepOf DEF OscNumEscStep, Backslash
    <3> QED
      <4>1. /\ Step(s, c).san \in Sanitizers
            /\ Step(s, c).san.state = "Normal" /\ Step(s, c).out = <<>>
        <5>1. Dropped(s, "Normal") \in Sanitizers /\ Dropped(s, "Normal").state = "Normal"
          BY <1>1, <1>3, GoToFacts
        <5>2. Step(s, c).san = Dropped(s, "Normal") /\ Step(s, c).out = <<>>
          BY <3>1, ResultIs
        <5> QED
          BY <5>1, <5>2
      <4> QED
        BY <1>7, <2>1, <4>1 DEF StepCases
  <2>2. CASE ~(c = 92 /\ isTitleParam(s.param))
    <3>1. Step(s, c) = Result(GoTo(s, "Normal"), s.pending \o <<27, c>>)
      BY <1>7, <2>2, StepOf DEF OscNumEscStep, Backslash, ESC
    <3> QED
      <4>1. /\ Step(s, c).san \in Sanitizers
            /\ Step(s, c).san.state = "Normal" /\ Step(s, c).out = s.pending \o <<27, c>>
        <5>1. GoTo(s, "Normal") \in Sanitizers /\ GoTo(s, "Normal").state = "Normal"
          BY <1>1, <1>3, GoToFacts
        <5>2. Step(s, c).san = GoTo(s, "Normal") /\ Step(s, c).out = s.pending \o <<27, c>>
          BY <3>1 DEF Result
        <5> QED
          BY <5>1, <5>2
      <4> QED
        BY <1>7, <2>2, <4>1 DEF StepCases
  <2> QED
    BY <2>1, <2>2
<1>8. CASE s.state \in PlainStates
  <2> DEFINE st == PlainState(s.state, c)
  <2>1. /\ Step(s, c) = Result(GoTo(s, st), PlainOut(s.state, c))
        /\ st \in {"Normal"} \cup PlainStates
    BY <1>1, <1>8, PlainStep
  <2>2. st \in States
    BY <2>1 DEF States, PlainStates
  <2> HIDE DEF st
  <2>3. /\ Step(s, c).san \in Sanitizers /\ Step(s, c).san.state = st
        /\ Step(s, c).out = PlainOut(s.state, c)
    BY <1>1, <2>1, <2>2, ResultIs, GoToFacts
  <2> QED
    BY <1>8, <2>1, <2>3 DEF StepCases, st
<1> QED
  BY <1>2, <1>4, <1>5, <1>6, <1>7, <1>8 DEF States, PlainStates

\* A step keeps pending what the state says it is, and gives out bytes.
LEMMA StepSound ==
  ASSUME NEW s, Sound(s), NEW c \in Byte
  PROVE  Sound(Step(s, c).san) /\ Step(s, c).out \in Seq(Byte)
<1>1. PICK r : r = Step(s, c)
  OBVIOUS
<1>2. StepCases(s, c, r) /\ r.san \in Sanitizers
  BY <1>1, StepIsCase
<1>3. 27 \in Byte /\ 93 \in Byte
  BY DEF Byte
<1>4. s.pending \in Seq(Byte) /\ s.param \in Seq(Byte)
  BY Parts DEF Sound
<1>5. /\ <<>> \in Seq(Byte) /\ <<27>> \in Seq(Byte) /\ <<c>> \in Seq(Byte)
      /\ <<27, c>> \in Seq(Byte) /\ <<27, 93>> \in Seq(Byte)
  BY <1>3
<1>6. s.pending \o <<c>> \in Seq(Byte) /\ s.pending \o <<27, c>> \in Seq(Byte)
  BY <1>4, <1>5
<1>7. r.out \in Seq(Byte)
  BY <1>2, <1>5, <1>6 DEF StepCases, PlainOut
<1>8. (<<27, 93>> \o s.param) \o <<c>> = <<27, 93>> \o (s.param \o <<c>>)
  <2> DEFINE x == <<27, 93>>
             y == <<c>>
  <2>1. x \in Seq(Byte) /\ y \in Seq(Byte)
    BY <1>5
  <2> HIDE DEF x, y
  <2>2. PICK z \in Seq(Byte) : z = s.param
    BY <1>4
  <2>3. (x \o z) \o y = x \o (z \o y)
    BY <2>1, Joined
  <2> QED
    BY <2>2, <2>3 DEF x, y
<1>9. <<27, 93>> \o <<>> = <<27, 93>>
  BY <1>5, Joined
<1>10. r.san.state = "Esc" => r.san.pending = <<27>>
  BY <1>2 DEF StepCases, PlainStates, Sound
<1>11. r.san.state = "OscNum" => r.san.pending = <<27, 93>> \o r.san.param
  BY <1>2, <1>8, <1>9 DEF StepCases, PlainStates, Sound
<1>12. r.san.state = "OscNumEsc" => r.san.pending = <<27, 93>> \o r.san.param
  BY <1>2 DEF StepCases, PlainStates, Sound
<1>13. Sound(r.san)
  BY <1>2, <1>10, <1>11, <1>12 DEF Sound
<1> QED
  BY <1>1, <1>7, <1>13

\* Sanitizers that are the same give out the same and stay the same.
LEMMA StepSame ==
  ASSUME NEW s, NEW t, Sound(s), Sound(t), Same(s, t), NEW c \in Byte
  PROVE  /\ Step(s, c).out = Step(t, c).out
         /\ Same(Step(s, c).san, Step(t, c).san)
<1>1. PICK r : r = Step(s, c)
  OBVIOUS
<1>2. PICK q : q = Step(t, c)
  OBVIOUS
<1>3. StepCases(s, c, r) /\ StepCases(t, c, q)
  BY <1>1, <1>2, StepIsCase
<1>4. s.state = t.state
  BY DEF Same
<1>5. s.state \in {"OscNum", "OscNumEsc"} => s.param = t.param /\ s.pending = t.pending
  BY DEF Same, Sound
<1>6. s.state \in States
  BY Parts DEF Sound
<1>7. CASE s.state = "Normal"
  <2>1. r.out = q.out /\ r.san.state = q.san.state /\ r.san.state \in {"Normal", "Esc"}
    BY <1>3, <1>4, <1>7 DEF StepCases, PlainStates
  <2> QED
    BY <1>1, <1>2, <2>1 DEF Same
<1>8. CASE s.state = "Esc"
  <2>1. CASE c = 93
    <3>1. /\ r.out = <<>> /\ r.san.state = "OscNum" /\ r.san.param = <<>>
          /\ q.out = <<>> /\ q.san.state = "OscNum" /\ q.san.param = <<>>
      BY <1>3, <1>4, <1>8, <2>1 DEF StepCases, PlainStates
    <3> QED
      BY <1>1, <1>2, <3>1 DEF Same
  <2>2. CASE c # 93
    <3>1. r.out = q.out /\ r.san.state = q.san.state /\ r.san.state \in {"Normal", "Esc"}
      BY <1>3, <1>4, <1>8, <2>2 DEF StepCases, PlainStates
    <3> QED
      BY <1>1, <1>2, <3>1 DEF Same
  <2> QED
    BY <2>1, <2>2
<1>9. CASE s.state = "OscNum"
  <2>1. s.param = t.param /\ s.pending = t.pending
    BY <1>5, <1>9
  <2>2. CASE c \in 48 .. 57 /\ Len(s.param) < 8
    <3>1. r.out = <<>> /\ r.san.state = "OscNum" /\ r.san.param = s.param \o <<c>>
      BY <1>3, <1>9, <2>2 DEF StepCases, PlainStates
    <3>2. q.out = <<>> /\ q.san.state = "OscNum" /\ q.san.param = t.param \o <<c>>
      BY <1>3, <1>4, <1>9, <2>1, <2>2 DEF StepCases, PlainStates
    <3> QED
      BY <1>1, <1>2, <2>1, <3>1, <3>2 DEF Same
  <2>3. CASE c = 27
    <3>1. r.out = <<>> /\ r.san.state = "OscNumEsc" /\ r.san.param = s.param
      BY <1>3, <1>9, <2>3 DEF StepCases, PlainStates
    <3>2. q.out = <<>> /\ q.san.state = "OscNumEsc" /\ q.san.param = t.param
      BY <1>3, <1>4, <1>9, <2>1, <2>3 DEF StepCases, PlainStates
    <3> QED
      BY <1>1, <1>2, <2>1, <3>1, <3>2 DEF Same
  <2>4. CASE c \in {59, 7} /\ isTitleParam(s.param)
    <3>1. /\ r.out = q.out /\ r.san.state = q.san.state
          /\ r.san.state \in {"Normal", "DropTitle"}
      BY <1>3, <1>4, <1>9, <2>1, <2>4 DEF StepCases, PlainStates
    <3> QED
      BY <1>1, <1>2, <3>1 DEF Same
  <2>5. CASE /\ c # 27 /\ ~(c \in 48 .. 57 /\ Len(s.param) < 8)
             /\ ~(c \in {59, 7} /\ isTitleParam(s.param))
    <3>1. r.out = s.pending \o <<c>> /\ r.san.state = IF c = 7 THEN "Normal" ELSE "PassOsc"
      BY <1>3, <1>9, <2>5 DEF StepCases, PlainStates
    <3>2. q.out = t.pending \o <<c>> /\ q.san.state = IF c = 7 THEN "Normal" ELSE "PassOsc"
      BY <1>3, <1>4, <1>9, <2>1, <2>5 DEF StepCases, PlainStates
    <3> QED
      BY <1>1, <1>2, <2>1, <3>1, <3>2 DEF Same
  <2> QED
    BY <2>2, <2>3, <2>4, <2>5
<1>10. CASE s.state = "OscNumEsc"
  <2>1. s.param = t.param /\ s.pending = t.pending
    BY <1>5, <1>10
  <2>2. CASE c = 92 /\ isTitleParam(s.param)
    <3>1. r.out = q.out /\ r.san.state = "Normal" /\ q.san.state = "Normal"
      BY <1>3, <1>4, <1>10, <2>1, <2>2 DEF StepCases, PlainStates
    <3> QED
      BY <1>1, <1>2, <3>1 DEF Same
  <2>3. CASE ~(c = 92 /\ isTitleParam(s.param))
    <3>1. r.out = s.pending \o <<27, c>> /\ r.san.state = "Normal"
      BY <1>3, <1>10, <2>3 DEF StepCases, PlainStates
    <3>2. q.out = t.pending \o <<27, c>> /\ q.san.state = "Normal"
      BY <1>3, <1>4, <1>10, <2>1, <2>3 DEF StepCases, PlainStates
    <3> QED
      BY <1>1, <1>2, <2>1, <3>1, <3>2 DEF Same
  <2> QED
    BY <2>2, <2>3
<1>11. CASE s.state \in PlainStates
  <2>1. r.out = q.out /\ r.san.state = q.san.state
    BY <1>3, <1>4, <1>11 DEF StepCases, PlainStates
  <2>2. r.san.state \notin {"OscNum", "OscNumEsc"}
    BY <1>3, <1>11 DEF StepCases, PlainStates
  <2> QED
    BY <1>1, <1>2, <2>1, <2>2 DEF Same
<1> QED
  BY <1>1, <1>2, <1>6, <1>7, <1>8, <1>9, <1>10, <1>11 DEF States, PlainStates

\* No title is being dropped, nor about to be.
Clean(s) ==
  /\ s.state \notin {"DropTitle", "DropEsc"}
  /\ s.state = "OscNumEsc" => ~isTitleParam(s.param)

\* The byte that ends the parameter of a title.
EndsTitle(s, c) == s.state = "OscNum" /\ isTitleParam(s.param) /\ c \in {59, 7, 27}

\* What is held back is bytes.
LEMMA HeldType == ASSUME NEW s, Sound(s) PROVE HeldBack(s) \in Seq(Byte)
<1>1. s.pending \in Seq(Byte)
  BY Parts DEF Sound
<1>2. 27 \in Byte
  BY DEF Byte
<1>3. s.pending \o <<27>> \in Seq(Byte)
  BY <1>1, <1>2, AppendByte
<1> QED
  BY <1>1, <1>3 DEF HeldBack, ESC

\* Without a title, a step gives out and holds back what was held and the byte.
LEMMA StepHolds ==
  ASSUME NEW s, Sound(s), Clean(s), NEW c \in Byte, ~EndsTitle(s, c)
  PROVE  /\ Clean(Step(s, c).san)
         /\ Step(s, c).out \o HeldBack(Step(s, c).san) = HeldBack(s) \o <<c>>
<1>1. PICK r : r = Step(s, c)
  OBVIOUS
<1>2. StepCases(s, c, r)
  BY <1>1, StepIsCase
<1>3. 27 \in Byte /\ c \in Nat
  BY DEF Byte
<1>4. s.pending \in Seq(Byte) /\ s.state \in States
  BY Parts DEF Sound
<1>5. /\ <<>> \in Seq(Byte) /\ <<27>> \in Seq(Byte) /\ <<c>> \in Seq(Byte)
      /\ <<27, c>> \in Seq(Byte)
  BY <1>3
<1>6. s.pending \o <<c>> \in Seq(Byte) /\ s.pending \o <<27, c>> \in Seq(Byte)
  BY <1>4, <1>5
<1>7. <<27>> \o <<c>> = <<27, c>>
  BY <1>3, TwoBytes
<1>8. /\ <<>> \o <<c>> = <<c>> /\ <<c>> \o <<>> = <<c>> /\ <<27, c>> \o <<>> = <<27, c>>
      /\ <<>> \o (s.pending \o <<c>>) = s.pending \o <<c>>
      /\ (s.pending \o <<c>>) \o <<>> = s.pending \o <<c>>
      /\ (s.pending \o <<27, c>>) \o <<>> = s.pending \o <<27, c>>
  BY <1>5, <1>6, Joined
<1>9. (s.pending \o <<27>>) \o <<c>> = s.pending \o <<27, c>>
  BY <1>4, <1>5, <1>7, Joined
<1>10. SUFFICES Clean(r.san) /\ r.out \o HeldBack(r.san) = HeldBack(s) \o <<c>>
  BY <1>1
<1>11. CASE s.state = "Normal"
  <2>1. HeldBack(s) = <<>>
    BY <1>11 DEF HeldBack
  <2>2. CASE c = 27
    <3>1. r.san.state = "Esc" /\ r.san.pending = <<27>> /\ r.out = <<>>
      BY <1>2, <1>11, <2>2 DEF StepCases, PlainStates
    <3>2. HeldBack(r.san) = <<27>>
      BY <3>1 DEF HeldBack
    <3> QED
      BY <2>1, <2>2, <3>1, <3>2 DEF Clean
  <2>3. CASE c # 27
    <3>1. r.san = s /\ r.out = <<c>>
      BY <1>2, <1>11, <2>3 DEF StepCases, PlainStates
    <3> QED
      BY <1>8, <2>1, <3>1
  <2> QED
    BY <2>2, <2>3
<1>12. CASE s.state = "Esc"
  <2>1. HeldBack(s) = <<27>>
    BY <1>12 DEF HeldBack, Sound
  <2>2. CASE c = 93
    <3>1. r.san.state = "OscNum" /\ r.san.pending = <<27, 93>> /\ r.out = <<>>
      BY <1>2, <1>12, <2>2 DEF StepCases, PlainStates
    <3>2. HeldBack(r.san) = <<27, c>>
      BY <2>2, <3>1 DEF HeldBack
    <3>3. <<>> \o <<27, c>> = <<27, c>>
      BY <1>5, Joined
    <3>4. r.out \o HeldBack(r.san) = <<27, c>>
      BY <3>1, <3>2, <3>3
    <3>5. Clean(r.san)
      BY <3>1 DEF Clean
    <3> QED
      BY <1>7, <2>1, <3>4, <3>5
  <2>3. CASE c = 27
    <3>1. r.san = s /\ r.out = <<27>>
      BY <1>2, <1>12, <2>3 DEF StepCases, PlainStates
    <3> QED
      BY <2>1, <2>3, <3>1
  <2>4. CASE c \notin {27, 93}
    <3>1. r.san.state = "Normal" /\ r.out = <<27, c>>
      BY <1>2, <1>12, <2>4 DEF StepCases, PlainStates
    <3>2. HeldBack(r.san) = <<>>
      BY <3>1 DEF HeldBack
    <3>3. r.out \o HeldBack(r.san) = <<27, c>>
      BY <1>8, <3>1, <3>2
    <3>4. Clean(r.san)
      BY <3>1 DEF Clean
    <3> QED
      BY <1>7, <2>1, <3>3, <3>4
  <2> QED
    BY <2>2, <2>3, <2>4
<1>13. CASE s.state = "OscNum"
  <2>1. HeldBack(s) = s.pending
    BY <1>13 DEF HeldBack
  <2>2. CASE c \in 48 .. 57 /\ Len(s.param) < 8
    <3>1. r.san.state = "OscNum" /\ r.san.pending = s.pending \o <<c>> /\ r.out = <<>>
      BY <1>2, <1>13, <2>2 DEF StepCases, PlainStates
    <3>2. HeldBack(r.san) = s.pending \o <<c>>
      BY <3>1 DEF HeldBack
    <3>3. r.out \o HeldBack(r.san) = s.pending \o <<c>>
      BY <1>8, <3>1, <3>2
    <3>4. Clean(r.san)
      BY <3>1 DEF Clean
    <3> QED
      BY <2>1, <3>3, <3>4
  <2>3. CASE c = 27
    <3>1. /\ r.san.state = "OscNumEsc" /\ r.san.pending = s.pending /\ r.out = <<>>
          /\ r.san.param = s.param
      BY <1>2, <1>13, <2>3 DEF StepCases, PlainStates
    <3>2. HeldBack(r.san) = s.pending \o <<c>>
      BY <2>3, <3>1 DEF HeldBack, ESC
    <3>3. r.out \o HeldBack(r.san) = s.pending \o <<c>>
      BY <1>8, <3>1, <3>2
    <3>4. Clean(r.san)
      BY <1>13, <2>3, <3>1 DEF Clean, EndsTitle
    <3> QED
      BY <2>1, <3>3, <3>4
  <2>4. CASE c # 27 /\ ~(c \in 48 .. 57 /\ Len(s.param) < 8)
    <3>1. ~(c \in {59, 7} /\ isTitleParam(s.param))
      BY <1>13 DEF EndsTitle
    <3>2. r.san.state \in {"Normal", "PassOsc"} /\ r.out = s.pending \o <<c>>
      BY <1>2, <1>13, <2>4, <3>1 DEF StepCases, PlainStates
    <3>3. HeldBack(r.san) = <<>>
      BY <3>2 DEF HeldBack
    <3>4. r.out \o HeldBack(r.san) = s.pending \o <<c>>
      BY <1>8, <3>2, <3>3
    <3>5. Clean(r.san)
      BY <3>2 DEF Clean
    <3> QED
      BY <2>1, <3>4, <3>5
  <2> QED
    BY <2>2, <2>3, <2>4
<1>14. CASE s.state = "OscNumEsc"
  <2>1. HeldBack(s) = s.pending \o <<27>>
    BY <1>14 DEF HeldBack, ESC
  <2>2. ~isTitleParam(s.param)
    BY <1>14 DEF Clean
  <2>3. r.san.state = "Normal" /\ r.out = s.pending \o <<27, c>>
    BY <1>2, <1>14, <2>2 DEF StepCases, PlainStates
  <2>4. HeldBack(r.san) = <<>>
    BY <2>3 DEF HeldBack
  <2>5. r.out \o HeldBack(r.san) = s.pending \o <<27, c>>
    BY <1>8, <2>3, <2>4
  <2>6. Clean(r.san)
    BY <2>3 DEF Clean
  <2> QED
    BY <1>9, <2>1, <2>5, <2>6
<1>15. CASE s.state \in {"PassOsc", "PassOscEsc"}
  <2>1. HeldBack(s) = <<>>
    BY <1>15 DEF HeldBack
  <2>2. /\ r.san.state = PlainState(s.state, c) /\ r.out = PlainOut(s.state, c)
    BY <1>2, <1>15 DEF StepCases
  <2>3. r.san.state \in {"Normal", "PassOsc", "PassOscEsc"} /\ r.out = <<c>>
    BY <1>15, <2>2 DEF PlainState, PlainOut
  <2>4. HeldBack(r.san) = <<>> /\ Clean(r.san)
    BY <2>3 DEF HeldBack, Clean
  <2> QED
    BY <1>8, <2>1, <2>3, <2>4
<1> QED
  BY <1>4, <1>11, <1>12, <1>13, <1>14, <1>15 DEF States, Clean

\* A title that is in the stream stays there.
LEMMA TitleStays ==
  ASSUME NEW d \in Seq(Byte), NEW c \in Byte, HasTitle(d)
  PROVE  HasTitle(d \o <<c>>)
<1> DEFINE e == d \o <<c>>
<1>1. Len(e) = Len(d) + 1 /\ \A i \in 1 .. Len(d) : e[i] = d[i]
  BY AppendByte
<1> HIDE DEF e
<1>2. PICK i \in 1 .. Len(d) - 3 :
         /\ d[i] = ESC /\ d[i + 1] = Bracket /\ d[i + 2] \in 48 .. 50
         /\ d[i + 3] \in {Semicolon, BEL, ESC}
  BY DEF HasTitle
<1>3. Len(d) \in Nat
  OBVIOUS
<1>4. i \in 1 .. Len(e) - 3
  BY <1>1, <1>3
<1>5. e[i] = d[i] /\ e[i + 1] = d[i + 1] /\ e[i + 2] = d[i + 2] /\ e[i + 3] = d[i + 3]
  BY <1>1, <1>3
<1>6. HasTitle(e)
  BY <1>2, <1>4, <1>5 DEF HasTitle
<1> QED
  BY <1>6 DEF e

\* An OSC's first bytes, with a parameter that makes it a title.
Digit(p) == Len(p) = 1 /\ p[1] \in 48 .. 50
Prefix(x) == Len(x) = 2 /\ x[1] = 27 /\ x[2] = 93
Opening(h) == Len(h) = 3 /\ h[1] = 27 /\ h[2] = 93 /\ h[3] \in 48 .. 50

\* They are put together by the states before stOscNum and stOscNum.
LEMMA OpeningIs ==
  ASSUME NEW x \in Seq(Byte), Prefix(x), NEW p \in Seq(Byte), Digit(p)
  PROVE  x \o p \in Seq(Byte) /\ Opening(x \o p)
<1> DEFINE h == x \o p
<1>1. /\ h \in Seq(Byte) /\ Len(h) = Len(x) + Len(p)
      /\ \A i \in 1 .. Len(x) : h[i] = x[i]
      /\ \A i \in 1 .. Len(p) : h[Len(x) + i] = p[i]
  BY JoinedAt
<1> HIDE DEF h
<1>2. 1 \in 1 .. Len(x) /\ 2 \in 1 .. Len(x) /\ 1 \in 1 .. Len(p) /\ Len(x) + 1 = 3
  BY DEF Prefix, Digit
<1>3. h[1] = x[1] /\ h[2] = x[2] /\ h[3] = p[1] /\ Len(h) = 3
  BY <1>1, <1>2 DEF Prefix, Digit
<1>4. Opening(h)
  BY <1>3 DEF Opening, Prefix, Digit
<1> QED
  BY <1>1, <1>4 DEF h

\* The byte after it makes a title.
LEMMA TitleEnd ==
  ASSUME NEW o \in Seq(Byte), NEW h \in Seq(Byte), NEW c \in Byte,
         Opening(h), c \in {59, 7, 27}
  PROVE  HasTitle((o \o h) \o <<c>>)
<1> DEFINE d == o \o h
           e == d \o <<c>>
           n == Len(o)
<1>1. d \in Seq(Byte) /\ Len(d) = n + Len(h) /\ \A i \in 1 .. Len(h) : d[n + i] = h[i]
  BY JoinedAt
<1> HIDE DEF d
<1>2. Len(e) = Len(d) + 1 /\ e[Len(d) + 1] = c /\ \A i \in 1 .. Len(d) : e[i] = d[i]
  BY <1>1, AppendByte
<1>3. n \in Nat
  OBVIOUS
<1> HIDE DEF e, n
<1>4. d[n + 1] = h[1] /\ d[n + 2] = h[2] /\ d[n + 3] = h[3]
  BY <1>1 DEF Opening
<1>5. /\ Len(e) = n + 4 /\ e[n + 4] = c
      /\ e[n + 1] = 27 /\ e[n + 2] = 93 /\ e[n + 3] = h[3]
  BY <1>1, <1>2, <1>3, <1>4 DEF Opening
<1>6. n + 1 \in 1 .. Len(e) - 3 /\ (n + 1) + 1 = n + 2 /\ (n + 1) + 2 = n + 3 /\ (n + 1) + 3 = n + 4
  BY <1>3, <1>5
<1>7. /\ e[n + 1] = ESC /\ e[(n + 1) + 1] = Bracket /\ e[(n + 1) + 2] \in 48 .. 50
      /\ e[(n + 1) + 3] \in {Semicolon, BEL, ESC}
  BY <1>5, <1>6 DEF Opening, ESC, Bracket, Semicolon, BEL
<1>8. PICK i : i = n + 1
  OBVIOUS
<1>9. HasTitle(e)
  BY <1>6, <1>7, <1>8 DEF HasTitle
<1> QED
  BY <1>9 DEF d, e

\* The byte after the parameter makes a title.
LEMMA TitleBegins ==
  ASSUME NEW d, NEW o \in Seq(Byte), NEW s, Sound(s), NEW c \in Byte,
         EndsTitle(s, c), o \o HeldBack(s) = d
  PROVE  HasTitle(d \o <<c>>)
<1>1. s.state = "OscNum" /\ Digit(s.param) /\ c \in {59, 7, 27}
  BY DEF EndsTitle, isTitleParam, Digit
<1>2. HeldBack(s) = <<27, 93>> \o s.param /\ s.param \in Seq(Byte)
  BY <1>1, Parts DEF Sound, HeldBack
<1>3. <<27, 93>> \in Seq(Byte) /\ Prefix(<<27, 93>>)
  BY DEF Byte, Prefix
<1>4. PICK x \in Seq(Byte) : x = <<27, 93>> /\ Prefix(x)
  BY <1>3
<1>5. PICK p \in Seq(Byte) : p = s.param /\ Digit(p)
  BY <1>1, <1>2
<1>6. x \o p \in Seq(Byte) /\ Opening(x \o p)
  BY <1>4, <1>5, OpeningIs
<1>7. PICK h \in Seq(Byte) : h = HeldBack(s) /\ Opening(h)
  BY <1>2, <1>4, <1>5, <1>6
<1>8. HasTitle((o \o h) \o <<c>>)
  BY <1>1, <1>7, TitleEnd
<1> QED
  BY <1>7, <1>8

\* Without a title in d, what came out and what is held is d.
Passed(s, d, o) == HasTitle(d) \/ (Clean(s) /\ o \o HeldBack(s) = d)

\* What d gives in one piece.
InOnePiece(d) == RunFirst(NewSanitizer, d, Len(d))

Whole(s, d, o) ==
  Sound(InOnePiece(d).san) /\ Same(s, InOnePiece(d).san) /\ o = InOnePiece(d).out

\* A Sanitizer that was given d and gave out o.
Good(s, d, o) ==
  /\ d \in Seq(Byte) /\ o \in Seq(Byte) /\ Sound(s)
  /\ Passed(s, d, o) /\ Whole(s, d, o)

\* After one more byte.
LEMMA GoodStep ==
  ASSUME NEW s, NEW d, NEW o, Good(s, d, o), NEW c \in Byte
  PROVE  Good(Step(s, c).san, d \o <<c>>, o \o Step(s, c).out)
<1>1. d \in Seq(Byte) /\ o \in Seq(Byte) /\ Sound(s)
  BY DEF Good
<1>2. PICK r : r = Step(s, c)
  OBVIOUS
<1>3. Sound(r.san) /\ r.out \in Seq(Byte)
  BY <1>1, <1>2, StepSound
<1>4. d \o <<c>> \in Seq(Byte) /\ o \o r.out \in Seq(Byte)
  BY <1>1, <1>3, AppendByte
<1>5. Passed(r.san, d \o <<c>>, o \o r.out)
  <2>1. CASE HasTitle(d)
    BY <1>1, <2>1, TitleStays DEF Passed
  <2>2. CASE Clean(s) /\ o \o HeldBack(s) = d /\ EndsTitle(s, c)
    BY <1>1, <2>2, TitleBegins DEF Passed
  <2>3. CASE Clean(s) /\ o \o HeldBack(s) = d /\ ~EndsTitle(s, c)
    <3>1. PICK h \in Seq(Byte) : h = HeldBack(s)
      BY <1>1, HeldType
    <3>2. PICK k \in Seq(Byte) : k = HeldBack(r.san)
      BY <1>3, HeldType
    <3>3. PICK y \in Seq(Byte) : y = <<c>>
      <4>1. <<c>> \in Seq(Byte)
        OBVIOUS
      <4> QED
        BY <4>1
    <3>4. Clean(r.san) /\ r.out \o k = h \o y
      BY <1>1, <1>2, <2>3, <3>1, <3>2, <3>3, StepHolds
    <3>5. (o \o r.out) \o k = o \o (r.out \o k) /\ (o \o h) \o y = o \o (h \o y)
      <4>0. PICK z \in Seq(Byte) : z = r.out
        BY <1>3
      <4>1. (o \o z) \o k = o \o (z \o k)
        BY <1>1
      <4>2. (o \o h) \o y = o \o (h \o y)
        BY <1>1
      <4> QED
        BY <4>0, <4>1, <4>2
    <3>6. (o \o r.out) \o k = d \o y
      BY <2>3, <3>1, <3>4, <3>5
    <3> QED
      BY <3>2, <3>3, <3>4, <3>6 DEF Passed
  <2> QED
    BY <2>1, <2>2, <2>3 DEF Good, Passed
<1>6. Whole(r.san, d \o <<c>>, o \o r.out)
  <2> DEFINE e == d \o <<c>>
  <2>1. /\ Len(d) \in Nat /\ Len(e) = Len(d) + 1 /\ e[Len(d) + 1] = c
        /\ \A i \in 1 .. Len(d) : d[i] = e[i]
    BY <1>1, AppendByte
  <2> HIDE DEF e
  <2>2. PICK p : p = InOnePiece(d)
    OBVIOUS
  <2>3. RunFirst(NewSanitizer, e, Len(d) + 1) = Advance(p, e[Len(d) + 1])
    BY <2>1, <2>2, RunStep DEF InOnePiece
  <2>4. InOnePiece(e) = Advance(p, c)
    BY <2>1, <2>3 DEF InOnePiece
  <2>5. PICK q : q = Step(p.san, c)
    OBVIOUS
  <2>6. Advance(p, c) = Result(q.san, p.out \o q.out)
    BY <2>5 DEF Advance
  <2>7. InOnePiece(e).san = q.san /\ InOnePiece(e).out = p.out \o q.out
    <3>1. PICK u : u = p.out \o q.out
      OBVIOUS
    <3>2. InOnePiece(e) = Result(q.san, u)
      BY <2>4, <2>6, <3>1
    <3>3. InOnePiece(e).san = q.san /\ InOnePiece(e).out = u
      BY <3>2, ResultIs
    <3> QED
      BY <3>1, <3>3
  <2>8. Sound(p.san) /\ Same(s, p.san) /\ o = p.out
    BY <2>2 DEF Good, Whole
  <2>9. Sound(q.san) /\ Same(r.san, q.san) /\ r.out = q.out
    BY <1>1, <1>2, <2>5, <2>8, StepSound, StepSame
  <2>10. o \o r.out = p.out \o q.out
    BY <2>8, <2>9
  <2>11. Whole(r.san, e, o \o r.out)
    BY <2>7, <2>9, <2>10 DEF Whole
  <2> QED
    BY <2>11 DEF e
<1> QED
  BY <1>2, <1>3, <1>4, <1>5, <1>6 DEF Good
-----------------------------------------------------------------------------
(***************************************************************************)
(* One chunk: every byte of it, the state after the loop, and the fast     *)
(* path.                                                                   *)
(***************************************************************************)
\* The first bytes of a chunk, one more.
LEMMA FirstBytes ==
  ASSUME NEW S, NEW b \in Seq(S), NEW k \in Nat, k + 1 <= Len(b)
  PROVE  /\ SubSeq(b, 1, 0) = <<>> /\ SubSeq(b, 1, k) \in Seq(S) /\ b[k + 1] \in S
         /\ SubSeq(b, 1, k + 1) = SubSeq(b, 1, k) \o <<b[k + 1]>>
<1>1. b[k + 1] \in S
  OBVIOUS
<1>2. SubSeq(b, 1, k) \in Seq(S) /\ Len(SubSeq(b, 1, k)) = k
      /\ \A i \in 1 .. k : SubSeq(b, 1, k)[i] = b[i]
  OBVIOUS
<1>3. SubSeq(b, 1, k + 1) \in Seq(S) /\ Len(SubSeq(b, 1, k + 1)) = k + 1
      /\ \A i \in 1 .. k + 1 : SubSeq(b, 1, k + 1)[i] = b[i]
  OBVIOUS
<1>4. PICK x \in Seq(S) : x = SubSeq(b, 1, k) /\ Len(x) = k /\ \A i \in 1 .. k : x[i] = b[i]
  BY <1>2
<1>5. PICK y \in Seq(S) :
        y = SubSeq(b, 1, k + 1) /\ Len(y) = k + 1 /\ \A i \in 1 .. k + 1 : y[i] = b[i]
  BY <1>3
<1>6. PICK c \in S : c = b[k + 1]
  BY <1>1
<1>7. /\ x \o <<c>> \in Seq(S) /\ Len(x \o <<c>>) = Len(x) + 1
      /\ (x \o <<c>>)[Len(x) + 1] = c /\ \A i \in 1 .. Len(x) : (x \o <<c>>)[i] = x[i]
  BY AppendByte
<1>8. PICK z \in Seq(S) : /\ z = x \o <<c>> /\ Len(z) = k + 1
                          /\ z[k + 1] = c /\ \A i \in 1 .. k : z[i] = x[i]
  BY <1>4, <1>7
<1>9. \A i \in 1 .. k + 1 : y[i] = z[i]
  <2>1. ASSUME NEW i \in 1 .. k + 1 PROVE y[i] = z[i]
    <3>1. CASE i = k + 1
      BY <1>5, <1>6, <1>8, <3>1
    <3>2. CASE i # k + 1
      <4>1. i \in 1 .. k
        BY <3>2
      <4> QED
        BY <1>4, <1>5, <1>8, <4>1
    <3> QED
      BY <3>1, <3>2
  <2> QED
    BY <2>1
<1>10. y = z
  BY <1>5, <1>8, <1>9, SeqEqual
<1> QED
  BY <1>1, <1>2, <1>4, <1>5, <1>6, <1>8, <1>10

\* What the loop has made of the first n bytes.
GoodAfter(s, d, o, b, n) ==
  /\ RunFirst(s, b, n).out \in Seq(Byte)
  /\ Good(RunFirst(s, b, n).san, d \o SubSeq(b, 1, n), o \o RunFirst(s, b, n).out)

\* Before the first byte.
LEMMA RunGoodInit ==
  ASSUME NEW s, NEW d, NEW o, Good(s, d, o), NEW b \in Seq(Byte)
  PROVE  GoodAfter(s, d, o, b, 0)
<1>1. d \in Seq(Byte) /\ o \in Seq(Byte)
  BY DEF Good
<1>2. d \o <<>> = d /\ o \o <<>> = o /\ <<>> \in Seq(Byte)
  BY <1>1
<1>3. SubSeq(b, 1, 0) = <<>>
  OBVIOUS
<1>4. PICK r : r = RunFirst(s, b, 0)
  OBVIOUS
<1>5. r = Result(s, <<>>)
  BY <1>4, RunIs DEF IsRun
<1>6. r.san = s /\ r.out = <<>>
  BY <1>5, ResultIs
<1>7. d \o SubSeq(b, 1, 0) = d /\ o \o r.out = o
  BY <1>2, <1>3, <1>6
<1> QED
  BY <1>2, <1>4, <1>6, <1>7 DEF GoodAfter

\* What came out may be grouped either way.
LEMMA GoodGrouped ==
  ASSUME NEW s, NEW d, NEW o \in Seq(Byte), NEW u \in Seq(Byte), NEW v \in Seq(Byte),
         Good(s, d, (o \o u) \o v)
  PROVE  Good(s, d, o \o (u \o v))
<1>1. (o \o u) \o v = o \o (u \o v)
  BY Grouped
<1> QED
  BY <1>1

\* One byte of the chunk.
LEMMA RunGoodStep ==
  ASSUME NEW s, NEW d, NEW o, Good(s, d, o), NEW b \in Seq(Byte), NEW k \in Nat,
         k + 1 <= Len(b), GoodAfter(s, d, o, b, k)
  PROVE  GoodAfter(s, d, o, b, k + 1)
<1>1. d \in Seq(Byte) /\ o \in Seq(Byte)
  BY DEF Good
<1>2. PICK r : r = RunFirst(s, b, k)
  OBVIOUS
<1>3. PICK u \in Seq(Byte) : u = r.out
  BY <1>2 DEF GoodAfter
<1>4. PICK x \in Seq(Byte) : x = SubSeq(b, 1, k)
  BY FirstBytes
<1>5. PICK c \in Byte : c = b[k + 1]
  BY FirstBytes
<1>6. SubSeq(b, 1, k + 1) = x \o <<c>>
  BY <1>4, <1>5, FirstBytes
<1>7. Good(r.san, d \o x, o \o u)
  BY <1>2, <1>3, <1>4 DEF GoodAfter
<1>8. PICK q : q = Step(r.san, c)
  OBVIOUS
<1>9. PICK v \in Seq(Byte) : v = q.out
  BY <1>7, <1>8, StepSound DEF Good
<1>10. Good(q.san, (d \o x) \o <<c>>, (o \o u) \o v)
  BY <1>7, <1>8, <1>9, GoodStep
<1>11. PICK y \in Seq(Byte) : y = <<c>>
  <2>1. <<c>> \in Seq(Byte)
    OBVIOUS
  <2> QED
    BY <2>1
<1>12. (d \o x) \o y = d \o (x \o y)
  <2>1. PICK e \in Seq(Byte) : e = d
    BY <1>1
  <2>2. (e \o x) \o y = e \o (x \o y)
    BY Grouped
  <2> QED
    BY <2>1, <2>2
<1>13. u \o v \in Seq(Byte)
  BY ConcatProperties
<1>14. Good(q.san, d \o (x \o y), o \o (u \o v))
  BY <1>1, <1>10, <1>11, <1>12, GoodGrouped
<1>15. RunFirst(s, b, k + 1) = Advance(r, c)
  BY <1>2, <1>5, RunStep
<1>16. PICK w : w = u \o v
  OBVIOUS
<1>17. Advance(r, c) = Result(q.san, w)
  BY <1>3, <1>8, <1>9, <1>16 DEF Advance
<1>18. RunFirst(s, b, k + 1).san = q.san /\ RunFirst(s, b, k + 1).out = w
  BY <1>15, <1>17, ResultIs
<1> QED
  BY <1>6, <1>11, <1>13, <1>14, <1>16, <1>18 DEF GoodAfter

\* After the whole chunk.
LEMMA RunGood ==
  ASSUME NEW s, NEW d, NEW o, Good(s, d, o), NEW b \in Seq(Byte)
  PROVE  GoodAfter(s, d, o, b, Len(b))
<1> DEFINE T == {k \in Nat : k <= Len(b) => GoodAfter(s, d, o, b, k)}
<1>1. 0 \in T
  BY RunGoodInit
<1>2. ASSUME NEW k \in T PROVE k + 1 \in T
  <2>1. k \in Nat /\ (k + 1 <= Len(b) => k <= Len(b))
    OBVIOUS
  <2> QED
    BY <2>1, RunGoodStep
<1> HIDE DEF T
<1>3. T = Nat
  BY <1>1, <1>2, Induction DEF T
<1>4. Len(b) \in Nat
  OBVIOUS
<1>5. Len(b) \in T
  BY <1>3, <1>4
<1> QED
  BY <1>4, <1>5 DEF T

\* Nothing is pending in stNormal after the loop.
LEMMA SettledGood ==
  ASSUME NEW s, NEW d, NEW o, Good(s, d, o)
  PROVE  Good(Settled(s), d, o)
<1>1. CASE s.state # "Normal"
  BY <1>1 DEF Settled
<1>2. CASE s.state = "Normal"
  <2>1. PICK t : t = Settled(s)
    OBVIOUS
  <2>2. s \in Sanitizers /\ <<>> \in Seq(Byte)
    BY DEF Good, Sound
  <2>3. t \in Sanitizers /\ t.state = "Normal"
    BY <1>2, <2>1, <2>2 DEF Settled, Sanitizers
  <2>4. Sound(t) /\ Clean(t) /\ Clean(s)
    BY <1>2, <2>3 DEF Sound, Clean
  <2>5. HeldBack(t) = <<>> /\ HeldBack(s) = <<>>
    BY <1>2, <2>3 DEF HeldBack
  <2>6. Passed(t, d, o)
    BY <2>4, <2>5 DEF Good, Passed
  <2>7. Whole(t, d, o)
    BY <1>2, <2>3 DEF Good, Whole, Same
  <2> QED
    BY <2>1, <2>4, <2>6, <2>7 DEF Good
<1> QED
  BY <1>1, <1>2

\* Without an ESC the loop would give out what it is given.
LEMMA FastRun ==
  ASSUME NEW s, s.state = "Normal", NEW b \in Seq(Byte), \A i \in 1 .. Len(b) : b[i] # ESC
  PROVE  RunFirst(s, b, Len(b)) = Result(s, b)
<1> DEFINE E(k) == RunFirst(s, b, k) = Result(s, SubSeq(b, 1, k))
           T == {k \in Nat : k <= Len(b) => E(k)}
<1>1. E(0)
  <2>1. SubSeq(b, 1, 0) = <<>>
    OBVIOUS
  <2>2. RunFirst(s, b, 0) = Result(s, <<>>)
    BY RunIs DEF IsRun
  <2> QED
    BY <2>1, <2>2
<1>2. ASSUME NEW k \in Nat, k + 1 <= Len(b), E(k) PROVE E(k + 1)
  <2>1. PICK x \in Seq(Byte) : x = SubSeq(b, 1, k)
    BY <1>2, FirstBytes
  <2>2. PICK c \in Byte : c = b[k + 1] /\ c # ESC
    BY <1>2, FirstBytes
  <2>3. SubSeq(b, 1, k + 1) = x \o <<c>>
    BY <1>2, <2>1, <2>2, FirstBytes
  <2>4. PICK r : r = RunFirst(s, b, k)
    OBVIOUS
  <2>5. r.san = s /\ r.out = x
    <3>1. r = Result(s, x)
      BY <1>2, <2>1, <2>4
    <3> QED
      BY <3>1, ResultIs
  <2>6. RunFirst(s, b, k + 1) = Advance(r, c)
    BY <2>2, <2>4, RunStep
  <2>7. PICK q : q = Step(r.san, c)
    OBVIOUS
  <2>8. q = Result(s, <<c>>)
    BY <2>2, <2>5, <2>7, StepOf DEF NormalStep
  <2>9. q.san = s /\ q.out = <<c>>
    BY <2>8, ResultIs
  <2>10. Advance(r, c) = Result(q.san, r.out \o q.out)
    BY <2>7 DEF Advance
  <2> QED
    BY <2>3, <2>5, <2>6, <2>9, <2>10
<1> HIDE DEF E
<1>3. 0 \in T
  BY <1>1
<1>4. ASSUME NEW k \in T PROVE k + 1 \in T
  <2>1. k \in Nat /\ (k + 1 <= Len(b) => k <= Len(b))
    OBVIOUS
  <2> QED
    BY <1>2, <2>1
<1> HIDE DEF T
<1>5. T = Nat
  BY <1>3, <1>4, Induction DEF T
<1>6. Len(b) \in Nat /\ SubSeq(b, 1, Len(b)) = b
  OBVIOUS
<1>7. E(Len(b))
  BY <1>5, <1>6 DEF T
<1> QED
  BY <1>6, <1>7 DEF E

\* A chunk sanitized.
LEMMA SanitizeGood ==
  ASSUME NEW s, NEW d, NEW o, Good(s, d, o), NEW b \in Seq(Byte)
  PROVE  Good(Sanitize(s, b).san, d \o b, o \o Sanitize(s, b).out)
<1>1. PICK r : r = RunFirst(s, b, Len(b))
  OBVIOUS
<1>2. SubSeq(b, 1, Len(b)) = b
  OBVIOUS
<1>3. Good(r.san, d \o b, o \o r.out)
  BY <1>1, <1>2, RunGood DEF GoodAfter
<1>4. CASE s.state = "Normal" /\ ESC \notin Codes(b)
  <2>1. \A i \in 1 .. Len(b) : b[i] # ESC
    BY <1>4 DEF Codes
  <2>2. r = Result(s, b)
    BY <1>1, <1>4, <2>1, FastRun
  <2>3. Sanitize(s, b) = r
    BY <1>4, <2>2 DEF Sanitize
  <2> QED
    BY <1>3, <2>3
<1>5. CASE ~(s.state = "Normal" /\ ESC \notin Codes(b))
  <2>1. Sanitize(s, b) = Loop(s, b)
    BY <1>5 DEF Sanitize
  <2>2. Loop(s, b) = Result(Settled(r.san), r.out)
    BY <1>1 DEF Loop
  <2>3. Sanitize(s, b).san = Settled(r.san) /\ Sanitize(s, b).out = r.out
    BY <2>1, <2>2, ResultIs
  <2>4. Good(Settled(r.san), d \o b, o \o r.out)
    BY <1>3, SettledGood
  <2> QED
    BY <2>3, <2>4
<1> QED
  BY <1>4, <1>5

\* A new Sanitizer.
LEMMA NewGood == Good(NewSanitizer, <<>>, <<>>)
<1>1. PICK s : s = NewSanitizer
  OBVIOUS
<1>2. s \in Sanitizers /\ s.state = "Normal"
  BY <1>1 DEF NewSanitizer, Sanitizers, States
<1>3. Sound(s) /\ Clean(s)
  BY <1>2 DEF Sound, Clean
<1>4. HeldBack(s) = <<>> /\ <<>> \o <<>> = <<>> /\ <<>> \in Seq(Byte)
  BY <1>2 DEF HeldBack
<1>5. Len(<<>>) = 0
  OBVIOUS
<1>6. InOnePiece(<<>>) = Result(s, <<>>)
  BY <1>1, <1>5, RunIs DEF IsRun, InOnePiece
<1>7. InOnePiece(<<>>).san = s /\ InOnePiece(<<>>).out = <<>>
  BY <1>6, ResultIs
<1>8. Passed(s, <<>>, <<>>) /\ Whole(s, <<>>, <<>>)
  BY <1>3, <1>4, <1>7 DEF Passed, Whole, Same
<1> QED
  BY <1>1, <1>3, <1>4, <1>8 DEF Good
-----------------------------------------------------------------------------
(***************************************************************************)
(* tmux's escaping, and DeescapeTmux from the end of a line backwards.     *)
(***************************************************************************)
\* What DeescapeTmux makes of the last n bytes, g being what it makes of fewer.
ReadLast(g, s, n) ==
  LET i == Len(s) - n + 1 IN
    IF n = 0 THEN Decoded(<<>>)
    ELSE IF s[i] # Backslash THEN Before(s[i], g[n - 1])
    ELSE IF n = 1 THEN Failed
    ELSE IF s[i + 1] = Backslash THEN Before(Backslash, g[n - 2])
    ELSE IF ThreeFollow(n) /\ Octal(s, i) THEN Before(OctalValue(s, i), g[n - 4])
    ELSE Failed

\* g is a solution of the recursion of DeescapeLast up to n.
IsRead(g, s, n) == g = [left \in 0 .. n |-> ReadLast(g, s, left)]

\* Only fewer bytes matter.
LEMMA ReadLocal ==
  ASSUME NEW g, NEW h, NEW s, NEW n \in Nat, \A i \in 0 .. n - 1 : g[i] = h[i]
  PROVE  ReadLast(g, s, n) = ReadLast(h, s, n)
<1>1. n # 0 => g[n - 1] = h[n - 1]
  OBVIOUS
<1>2. n \notin {0, 1} => g[n - 2] = h[n - 2]
  OBVIOUS
<1>3. ThreeFollow(n) => g[n - 4] = h[n - 4]
  BY DEF ThreeFollow
<1> QED
  BY <1>1, <1>2, <1>3 DEF ReadLast

\* The recursion has a solution.
LEMMA ReadExists == ASSUME NEW s, NEW n \in Nat PROVE \E g : IsRead(g, s, n)
<1> DEFINE T == {m \in Nat : \E g : IsRead(g, s, m)}
<1>1. 0 \in T
  <2> DEFINE g == [i \in 0 .. 0 |-> Decoded(<<>>)]
  <2>1. \A i \in 0 .. 0 : g[i] = ReadLast(g, s, i)
    BY DEF ReadLast
  <2>2. g = [i \in 0 .. 0 |-> ReadLast(g, s, i)]
    BY <2>1
  <2> HIDE DEF g
  <2> QED
    BY <2>2 DEF IsRead
<1>2. ASSUME NEW m \in T PROVE m + 1 \in T
  <2>1. PICK g : IsRead(g, s, m)
    OBVIOUS
  <2>2. PICK x : x = ReadLast(g, s, m + 1)
    OBVIOUS
  <2> DEFINE h == [i \in 0 .. m + 1 |-> IF i = m + 1 THEN x ELSE g[i]]
  <2>3. h = [i \in 0 .. m + 1 |-> h[i]] /\ h[m + 1] = x /\ \A i \in 0 .. m : h[i] = g[i]
    OBVIOUS
  <2> HIDE DEF h
  <2>4. \A i \in 0 .. m : g[i] = ReadLast(g, s, i)
    BY <2>1 DEF IsRead
  <2>5. ASSUME NEW i \in 0 .. m + 1 PROVE h[i] = ReadLast(h, s, i)
    <3>1. i \in Nat /\ \A j \in 0 .. i - 1 : g[j] = h[j]
      <4>1. i \in Nat /\ \A j \in 0 .. i - 1 : j \in 0 .. m
        OBVIOUS
      <4> QED
        BY <2>3, <4>1
    <3>2. ReadLast(g, s, i) = ReadLast(h, s, i)
      BY <3>1, ReadLocal
    <3>3. CASE i = m + 1
      BY <2>2, <2>3, <3>2, <3>3
    <3>4. CASE i # m + 1
      <4>1. i \in 0 .. m
        BY <3>4
      <4> QED
        BY <2>3, <2>4, <3>2, <4>1
    <3> QED
      BY <3>3, <3>4
  <2>6. h = [i \in 0 .. m + 1 |-> ReadLast(h, s, i)]
    BY <2>3, <2>5
  <2>7. IsRead(h, s, m + 1)
    BY <2>6 DEF IsRead
  <2> QED
    BY <2>7
<1> HIDE DEF T
<1>3. T = Nat
  BY <1>1, <1>2, Induction DEF T
<1> QED
  BY <1>3 DEF T

\* Solutions agree as far as both go.
LEMMA ReadUnique ==
  ASSUME NEW s, NEW m \in Nat, NEW n \in Nat, m <= n, NEW g, NEW h, IsRead(g, s, m), IsRead(h, s, n)
  PROVE  g[m] = h[m]
<1> DEFINE T == {i \in Nat : \A j \in 0 .. i : j <= m => g[j] = h[j]}
<1>1. \A i \in 0 .. m : g[i] = ReadLast(g, s, i)
  BY DEF IsRead
<1>2. \A i \in 0 .. n : h[i] = ReadLast(h, s, i)
  BY DEF IsRead
<1>3. 0 \in T
  <2>1. g[0] = h[0]
    BY <1>1, <1>2, ReadLocal
  <2> QED
    BY <2>1
<1>4. ASSUME NEW i \in T PROVE i + 1 \in T
  <2>1. i \in Nat /\ \A j \in 0 .. i : j <= m => g[j] = h[j]
    OBVIOUS
  <2>2. i + 1 <= m => g[i + 1] = h[i + 1]
    <3>1. SUFFICES ASSUME i + 1 <= m PROVE g[i + 1] = h[i + 1]
      OBVIOUS
    <3>2. PICK k \in Nat : k = i + 1 /\ k <= m
      BY <2>1, <3>1
    <3>3. \A j \in 0 .. k - 1 : g[j] = h[j]
      BY <2>1, <3>2
    <3>4. ReadLast(g, s, k) = ReadLast(h, s, k)
      BY <3>3, ReadLocal
    <3> QED
      BY <1>1, <1>2, <3>2, <3>4
  <2> HIDE DEF T
  <2>3. \A j \in 0 .. i + 1 : j <= m => g[j] = h[j]
    BY <2>1, <2>2
  <2> QED
    BY <2>1, <2>3 DEF T
<1> HIDE DEF T
<1>5. T = Nat
  BY <1>3, <1>4, Induction DEF T
<1> QED
  BY <1>5 DEF T

\* DeescapeLast is the last value of one.
LEMMA ReadIs ==
  ASSUME NEW s, NEW n \in Nat
  PROVE  \E g : IsRead(g, s, n) /\ DeescapeLast(s, n) = g[n]
<1> DEFINE g == CHOOSE g : IsRead(g, s, n)
<1>1. IsRead(g, s, n)
  BY ReadExists
<1>2. DeescapeLast(s, n) = g[n]
  BY DEF DeescapeLast, IsRead, ReadLast
<1> QED
  BY <1>1, <1>2

\* The bytes left, a few fewer.
LEMMA ReadStep ==
  ASSUME NEW s, NEW n \in Nat
  PROVE  DeescapeLast(s, n) = ReadLast([i \in 0 .. n |-> DeescapeLast(s, i)], s, n)
<1>1. PICK g : IsRead(g, s, n) /\ DeescapeLast(s, n) = g[n]
  BY ReadIs
<1>2. g[n] = ReadLast(g, s, n)
  BY <1>1 DEF IsRead
<1> DEFINE h == [i \in 0 .. n |-> DeescapeLast(s, i)]
<1>3. ASSUME NEW i \in 0 .. n - 1 PROVE g[i] = h[i]
  <2>1. i \in Nat /\ i <= n /\ h[i] = DeescapeLast(s, i)
    OBVIOUS
  <2>2. PICK f : IsRead(f, s, i) /\ DeescapeLast(s, i) = f[i]
    BY <2>1, ReadIs
  <2>3. f[i] = g[i]
    BY <1>1, <2>1, <2>2, ReadUnique
  <2> QED
    BY <2>1, <2>2, <2>3
<1> HIDE DEF h
<1>4. ReadLast(g, s, n) = ReadLast(h, s, n)
  BY <1>3, ReadLocal
<1> QED
  BY <1>1, <1>2, <1>4 DEF h

\* The turn of the loop at the byte n from the end.
LEMMA ReadTurn ==
  ASSUME NEW s, NEW n \in Nat, NEW i, i = Len(s) - n + 1
  PROVE  /\ n = 0 => DeescapeLast(s, n) = Decoded(<<>>)
         /\ n # 0 /\ s[i] # 92
              => DeescapeLast(s, n) = Before(s[i], DeescapeLast(s, n - 1))
         /\ n = 1 /\ s[i] = 92 => DeescapeLast(s, n) = Failed
         /\ n > 1 /\ s[i] = 92 /\ s[i + 1] = 92
              => DeescapeLast(s, n) = Before(92, DeescapeLast(s, n - 2))
         /\ n > 3 /\ s[i] = 92 /\ s[i + 1] # 92 /\ Octal(s, i)
              => DeescapeLast(s, n)
                   = Before(OctalValue(s, i), DeescapeLast(s, n - 4))
         /\ n > 1 /\ s[i] = 92 /\ s[i + 1] # 92 /\ ~(n > 3 /\ Octal(s, i))
              => DeescapeLast(s, n) = Failed
<1> DEFINE h == [j \in 0 .. n |-> DeescapeLast(s, j)]
<1>1. /\ n # 0 => h[n - 1] = DeescapeLast(s, n - 1)
      /\ n > 1 => h[n - 2] = DeescapeLast(s, n - 2)
      /\ n > 3 => h[n - 4] = DeescapeLast(s, n - 4)
  OBVIOUS
<1>2. DeescapeLast(s, n) = ReadLast(h, s, n)
  BY ReadStep
<1> HIDE DEF h
<1> QED
  BY <1>1, <1>2 DEF ReadLast, Backslash, ThreeFollow

\* The turn that reads three octal digits.
LEMMA ReadOctal ==
  ASSUME NEW s, NEW n \in Nat, n > 3, NEW i, i = Len(s) - n + 1,
         s[i] = 92, s[i + 1] # 92, Octal(s, i)
  PROVE  DeescapeLast(s, n) = Before(OctalValue(s, i), DeescapeLast(s, n - 4))
  BY ReadTurn

\* Three octal digits, modulo 256, are a byte.
LEMMA OctalByte ==
  ASSUME NEW s \in Seq(Byte), NEW i, Octal(s, i)
  PROVE  OctalValue(s, i) \in Byte
<1>1. 1 \in 1 .. 3 /\ 2 \in 1 .. 3 /\ 3 \in 1 .. 3
  OBVIOUS
<1>2. PICK x \in 48 .. 55 : x = s[i + 1]
  BY <1>1 DEF Octal
<1>3. PICK y \in 48 .. 55 : y = s[i + 2]
  BY <1>1 DEF Octal
<1>4. PICK z \in 48 .. 55 : z = s[i + 3]
  BY <1>1 DEF Octal
<1>5. ((x - 48) * 64 + (y - 48) * 8 + (z - 48)) % 256 \in 0 .. 255
  OBVIOUS
<1> QED
  BY <1>2, <1>3, <1>4, <1>5 DEF OctalValue, Byte

\* What was decoded is bytes.
BytesRead(r) == r.bytes \in Seq(Byte)

\* A byte before decoded bytes.
LEMMA BeforeBytes ==
  ASSUME NEW c \in Byte, NEW r, BytesRead(r)
  PROVE  BytesRead(Before(c, r))
<1>1. PICK b \in Seq(Byte) : b = r.bytes
  BY DEF BytesRead
<1>2. <<c>> \o b \in Seq(Byte) /\ <<>> \in Seq(Byte)
  OBVIOUS
<1>3. PICK d \in Seq(Byte) : d = <<c>> \o b
  BY <1>2
<1>4. Before(c, r) = IF r.ok THEN Decoded(d) ELSE Failed
  BY <1>1, <1>3 DEF Before
<1>5. BytesRead(Decoded(d)) /\ BytesRead(Failed)
  BY <1>2 DEF BytesRead, Decoded, Failed
<1> QED
  BY <1>4, <1>5

\* DeescapeTmux gives bytes.
LEMMA ReadBytes ==
  ASSUME NEW s \in Seq(Byte), NEW n \in 0 .. Len(s)
  PROVE  BytesRead(DeescapeLast(s, n))
<1> DEFINE B(j) == BytesRead(DeescapeLast(s, j))
           T == {k \in Nat : \A j \in 0 .. k : j <= Len(s) => B(j)}
<1>1. BytesRead(Decoded(<<>>)) /\ BytesRead(Failed)
  <2>1. <<>> \in Seq(Byte)
    OBVIOUS
  <2> QED
    BY <2>1 DEF BytesRead, Decoded, Failed
<1>2. B(0)
  BY <1>1, ReadTurn
<1>3. ASSUME NEW k \in Nat, k # 0, k <= Len(s), \A j \in 0 .. k - 1 : B(j)
      PROVE  B(k)
  <2>1. PICK i \in 1 .. Len(s) : i = Len(s) - k + 1
    <3>1. Len(s) - k + 1 \in 1 .. Len(s)
      BY <1>3
    <3> QED
      BY <3>1
  <2>2. s[i] \in Byte /\ 92 \in Byte
    <3>1. s[i] \in Byte
      OBVIOUS
    <3> QED
      BY <3>1 DEF Byte
  <2>3. B(k - 1) /\ (k > 1 => B(k - 2)) /\ (k > 3 => B(k - 4))
    <3> HIDE DEF B
    <3> QED
      BY <1>3
  <2>4. CASE s[i] # 92
    <3>1. DeescapeLast(s, k) = Before(s[i], DeescapeLast(s, k - 1))
      BY <1>3, <2>1, <2>4, ReadTurn
    <3> QED
      BY <2>2, <2>3, <3>1, BeforeBytes
  <2>5. CASE k = 1 /\ s[i] = 92
    BY <1>1, <2>1, <2>5, ReadTurn
  <2>6. CASE k > 1 /\ s[i] = 92 /\ s[i + 1] = 92
    <3>1. DeescapeLast(s, k) = Before(92, DeescapeLast(s, k - 2))
      BY <2>1, <2>6, ReadTurn
    <3> QED
      BY <2>2, <2>3, <2>6, <3>1, BeforeBytes
  <2>7. CASE k > 3 /\ s[i] = 92 /\ s[i + 1] # 92 /\ Octal(s, i)
    <3>1. DeescapeLast(s, k) = Before(OctalValue(s, i), DeescapeLast(s, k - 4))
      BY <2>1, <2>7, ReadTurn
    <3>2. OctalValue(s, i) \in Byte
      BY <2>7, OctalByte
    <3> QED
      BY <2>3, <2>7, <3>1, <3>2, BeforeBytes
  <2>8. CASE k > 1 /\ s[i] = 92 /\ s[i + 1] # 92 /\ ~(k > 3 /\ Octal(s, i))
    BY <1>1, <2>1, <2>8, ReadTurn
  <2>9. k = 1 \/ k > 1
    BY <1>3
  <2> QED
    BY <2>4, <2>5, <2>6, <2>7, <2>8, <2>9
<1> HIDE DEF B
<1>4. 0 \in T
  BY <1>2
<1>5. ASSUME NEW k \in T PROVE k + 1 \in T
  <2>1. k \in Nat /\ \A j \in 0 .. k : j <= Len(s) => B(j)
    OBVIOUS
  <2>2. k + 1 <= Len(s) => \A j \in 0 .. (k + 1) - 1 : B(j)
    BY <2>1
  <2>3. k + 1 <= Len(s) => B(k + 1)
    BY <1>3, <2>1, <2>2
  <2> HIDE DEF T
  <2>4. \A j \in 0 .. k + 1 : j <= Len(s) => B(j)
    BY <2>1, <2>3
  <2> QED
    BY <2>1, <2>4 DEF T
<1> HIDE DEF T
<1>6. T = Nat
  BY <1>4, <1>5, Induction DEF T
<1>7. B(n)
  <2>1. n \in T /\ n \in 0 .. n /\ n <= Len(s)
    BY <1>6
  <2> QED
    BY <2>1 DEF T
<1> QED
  BY <1>7 DEF B

\* One more byte escaped.
Glued(e, c) == e \o EscapeByte(c)

\* g is a solution of the recursion of EscapeFirst up to n.
IsEscaped(g, b, n) ==
  g = [i \in 0 .. n |-> IF i = 0 THEN <<>> ELSE Glued(g[i - 1], b[i])]

\* The recursion has a solution.
LEMMA EscapedExists == ASSUME NEW b, NEW n \in Nat PROVE \E g : IsEscaped(g, b, n)
<1> DEFINE T == {m \in Nat : \E g : IsEscaped(g, b, m)}
<1>1. 0 \in T
  <2> DEFINE g == [i \in 0 .. 0 |-> <<>>]
  <2>1. \A i \in 0 .. 0 : g[i] = IF i = 0 THEN <<>> ELSE Glued(g[i - 1], b[i])
    OBVIOUS
  <2>2. g = [i \in 0 .. 0 |-> IF i = 0 THEN <<>> ELSE Glued(g[i - 1], b[i])]
    BY <2>1
  <2> HIDE DEF g
  <2> QED
    BY <2>2 DEF IsEscaped
<1>2. ASSUME NEW m \in T PROVE m + 1 \in T
  <2>1. PICK g : IsEscaped(g, b, m)
    OBVIOUS
  <2>2. PICK x : x = Glued(g[m], b[m + 1])
    OBVIOUS
  <2> DEFINE h == [i \in 0 .. m + 1 |-> IF i = m + 1 THEN x ELSE g[i]]
  <2>3. h = [i \in 0 .. m + 1 |-> h[i]] /\ h[m + 1] = x /\ \A i \in 0 .. m : h[i] = g[i]
    OBVIOUS
  <2> HIDE DEF h
  <2>4. \A i \in 0 .. m : g[i] = IF i = 0 THEN <<>> ELSE Glued(g[i - 1], b[i])
    BY <2>1 DEF IsEscaped
  <2>5. ASSUME NEW i \in 0 .. m + 1
        PROVE  h[i] = IF i = 0 THEN <<>> ELSE Glued(h[i - 1], b[i])
    <3>1. CASE i = m + 1
      <4>1. i - 1 = m /\ i # 0 /\ m \in 0 .. m
        BY <3>1
      <4>2. h[i - 1] = g[m]
        BY <2>3, <4>1
      <4> QED
        BY <2>2, <2>3, <3>1, <4>1, <4>2
    <3>2. CASE i # m + 1
      <4>1. i \in 0 .. m /\ (i # 0 => i - 1 \in 0 .. m)
        BY <3>2
      <4>2. h[i] = g[i] /\ (i # 0 => h[i - 1] = g[i - 1])
        BY <2>3, <4>1
      <4> QED
        BY <2>4, <4>1, <4>2
    <3> QED
      BY <3>1, <3>2
  <2>6. h = [i \in 0 .. m + 1 |-> IF i = 0 THEN <<>> ELSE Glued(h[i - 1], b[i])]
    BY <2>3, <2>5
  <2>7. IsEscaped(h, b, m + 1)
    BY <2>6 DEF IsEscaped
  <2> QED
    BY <2>7
<1> HIDE DEF T
<1>3. T = Nat
  BY <1>1, <1>2, Induction DEF T
<1> QED
  BY <1>3 DEF T

\* Solutions agree as far as both go.
LEMMA EscapedUnique ==
  ASSUME NEW b, NEW m \in Nat, NEW n \in Nat, m <= n, NEW g, NEW h,
         IsEscaped(g, b, m), IsEscaped(h, b, n)
  PROVE  g[m] = h[m]
<1> DEFINE T == {i \in Nat : i <= m => g[i] = h[i]}
<1>1. \A i \in 0 .. m : g[i] = IF i = 0 THEN <<>> ELSE Glued(g[i - 1], b[i])
  BY DEF IsEscaped
<1>2. \A i \in 0 .. n : h[i] = IF i = 0 THEN <<>> ELSE Glued(h[i - 1], b[i])
  BY DEF IsEscaped
<1>3. 0 \in T
  BY <1>1, <1>2
<1>4. ASSUME NEW i \in T PROVE i + 1 \in T
  <2>1. SUFFICES ASSUME i + 1 <= m PROVE g[i + 1] = h[i + 1]
    OBVIOUS
  <2>2. g[i] = h[i]
    BY <2>1
  <2>3. /\ g[i + 1] = Glued(g[i], b[i + 1])
        /\ h[i + 1] = Glued(h[i], b[i + 1])
    BY <1>1, <1>2, <2>1
  <2> QED
    BY <2>2, <2>3
<1> HIDE DEF T
<1>5. T = Nat
  BY <1>3, <1>4, Induction DEF T
<1> QED
  BY <1>5 DEF T

\* EscapeFirst is the last value of one.
LEMMA EscapedIs ==
  ASSUME NEW b, NEW n \in Nat
  PROVE  \E g : IsEscaped(g, b, n) /\ EscapeFirst(b, n) = g[n]
<1> DEFINE g == CHOOSE g : IsEscaped(g, b, n)
<1>1. IsEscaped(g, b, n)
  BY EscapedExists
<1>2. EscapeFirst(b, n) = g[n]
  BY DEF EscapeFirst, IsEscaped, Glued
<1> QED
  BY <1>1, <1>2

\* The escaping, one byte after the other.
LEMMA EscapedStep ==
  ASSUME NEW b, NEW n \in Nat
  PROVE  /\ EscapeFirst(b, 0) = <<>>
         /\ EscapeFirst(b, n + 1) = EscapeFirst(b, n) \o EscapeByte(b[n + 1])
<1>1. EscapeFirst(b, 0) = <<>>
  BY EscapedIs DEF IsEscaped
<1>2. PICK g : IsEscaped(g, b, n) /\ EscapeFirst(b, n) = g[n]
  BY EscapedIs
<1>3. n + 1 \in Nat
  OBVIOUS
<1>4. PICK h : IsEscaped(h, b, n + 1) /\ EscapeFirst(b, n + 1) = h[n + 1]
  BY <1>3, EscapedIs
<1>5. g[n] = h[n]
  BY <1>2, <1>3, <1>4, EscapedUnique
<1>6. h[n + 1] = Glued(h[n], b[n + 1])
  BY <1>4 DEF IsEscaped
<1> QED
  BY <1>1, <1>2, <1>4, <1>5, <1>6 DEF Glued

\* The two forms of an escaped byte.
Coded(e, c) ==
  /\ Len(e) = 4 /\ e[1] = 92 /\ e[2] \in 48 .. 55 /\ e[3] \in 48 .. 55 /\ e[4] \in 48 .. 55
  /\ ((e[2] - 48) * 64 + (e[3] - 48) * 8 + (e[4] - 48)) % 256 = c
Plain(e, c) == Len(e) = 1 /\ e[1] = c /\ c # 92

NoSpace(e) == \A i \in 1 .. Len(e) : e[i] # 32

\* A byte's three octal digits.
LEMMA OctalDigits ==
  ASSUME NEW c \in 0 .. 255
  PROVE  /\ 48 + (c \div 64) \in 48 .. 55 /\ 48 + ((c \div 8) % 8) \in 48 .. 55
         /\ 48 + (c % 8) \in 48 .. 55
         /\ (((48 + (c \div 64)) - 48) * 64 + ((48 + ((c \div 8) % 8)) - 48) * 8
               + ((48 + (c % 8)) - 48)) % 256 = c
  OBVIOUS

\* What tmux makes of a byte.
LEMMA EscapeByteIs ==
  ASSUME NEW c \in Byte
  PROVE  /\ EscapeByte(c) \in Seq(Byte)
         /\ Coded(EscapeByte(c), c) \/ Plain(EscapeByte(c), c)
         /\ c # 32 => NoSpace(EscapeByte(c))
<1>1. c \in 0 .. 255
  BY DEF Byte
<1>2. CASE c < 32 \/ c = 92
  <2>1. PICK x \in 48 .. 55 : x = 48 + (c \div 64)
    BY <1>1, OctalDigits
  <2>2. PICK y \in 48 .. 55 : y = 48 + ((c \div 8) % 8)
    BY <1>1, OctalDigits
  <2>3. PICK z \in 48 .. 55 : z = 48 + (c % 8)
    BY <1>1, OctalDigits
  <2>4. ((x - 48) * 64 + (y - 48) * 8 + (z - 48)) % 256 = c
    BY <1>1, <2>1, <2>2, <2>3, OctalDigits
  <2>5. PICK e : e = <<92, x, y, z>>
    OBVIOUS
  <2>6. EscapeByte(c) = e
    BY <1>2, <2>1, <2>2, <2>3, <2>5 DEF EscapeByte, Backslash
  <2>7. e \in Seq(Byte) /\ Len(e) = 4 /\ e[1] = 92 /\ e[2] = x /\ e[3] = y /\ e[4] = z
    BY <2>5 DEF Byte
  <2>8. Coded(e, c)
    BY <2>4, <2>7 DEF Coded
  <2>9. NoSpace(e)
    BY <2>7 DEF NoSpace
  <2> QED
    BY <2>6, <2>7, <2>8, <2>9
<1>3. CASE ~(c < 32 \/ c = 92)
  <2>1. EscapeByte(c) = <<c>>
    BY <1>3 DEF EscapeByte, Backslash
  <2>2. <<c>> \in Seq(Byte) /\ Len(<<c>>) = 1 /\ <<c>>[1] = c
    OBVIOUS
  <2>3. Plain(<<c>>, c) /\ (c # 32 => NoSpace(<<c>>))
    BY <1>3, <2>2 DEF Plain, NoSpace
  <2> QED
    BY <2>1, <2>2, <2>3
<1> QED
  BY <1>2, <1>3

\* The first n bytes escaped: bytes, without a space if the pane wrote none.
LEMMA EscapedBytes ==
  ASSUME NEW b \in Seq(Byte), NEW n \in 0 .. Len(b)
  PROVE  /\ EscapeFirst(b, n) \in Seq(Byte)
         /\ NoSpace(b) => NoSpace(EscapeFirst(b, n))
<1> DEFINE E(k) == /\ EscapeFirst(b, k) \in Seq(Byte)
                   /\ NoSpace(b) => NoSpace(EscapeFirst(b, k))
           T == {k \in Nat : k <= Len(b) => E(k)}
<1>1. E(0)
  <2>1. <<>> \in Seq(Byte) /\ NoSpace(<<>>)
    BY DEF NoSpace
  <2> QED
    BY <2>1, EscapedStep
<1>2. ASSUME NEW k \in Nat, k + 1 <= Len(b), E(k) PROVE E(k + 1)
  <2>1. PICK c \in Byte : c = b[k + 1]
    BY <1>2, FirstBytes
  <2>2. PICK x \in Seq(Byte) : x = EscapeFirst(b, k)
    BY <1>2
  <2>3. PICK e \in Seq(Byte) : e = EscapeByte(c)
    BY EscapeByteIs
  <2>4. EscapeFirst(b, k + 1) = x \o e
    BY <2>1, <2>2, <2>3, EscapedStep
  <2>5. /\ x \o e \in Seq(Byte) /\ Len(x \o e) = Len(x) + Len(e)
        /\ \A i \in 1 .. Len(x) + Len(e) : (x \o e)[i] = IF i <= Len(x) THEN x[i] ELSE e[i - Len(x)]
    BY ConcatProperties
  <2>6. PICK y \in Seq(Byte) :
          /\ y = x \o e /\ Len(y) = Len(x) + Len(e)
          /\ \A i \in 1 .. Len(x) + Len(e) : y[i] = IF i <= Len(x) THEN x[i] ELSE e[i - Len(x)]
    BY <2>5
  <2>7. NoSpace(b) => NoSpace(y)
    <3>1. SUFFICES ASSUME NoSpace(b), NEW i \in 1 .. Len(y) PROVE y[i] # 32
      BY DEF NoSpace
    <3>2. k + 1 \in 1 .. Len(b)
      BY <1>2
    <3>3. c # 32
      BY <2>1, <3>1, <3>2 DEF NoSpace
    <3>4. NoSpace(x) /\ NoSpace(e)
      BY <1>2, <2>2, <2>3, <3>1, <3>3, EscapeByteIs
    <3>5. CASE i <= Len(x)
      <4>1. i \in 1 .. Len(x) /\ y[i] = x[i]
        BY <2>6, <3>5
      <4> QED
        BY <3>4, <4>1 DEF NoSpace
    <3>6. CASE i > Len(x)
      <4>1. i - Len(x) \in 1 .. Len(e) /\ y[i] = e[i - Len(x)]
        BY <2>6, <3>6
      <4> QED
        BY <3>4, <4>1 DEF NoSpace
    <3> QED
      BY <3>5, <3>6
  <2> QED
    BY <2>4, <2>6, <2>7
<1> HIDE DEF E
<1>3. 0 \in T
  BY <1>1
<1>4. ASSUME NEW k \in T PROVE k + 1 \in T
  <2>1. k \in Nat /\ (k + 1 <= Len(b) => k <= Len(b))
    OBVIOUS
  <2> QED
    BY <1>2, <2>1
<1> HIDE DEF T
<1>5. T = Nat
  BY <1>3, <1>4, Induction DEF T
<1>6. E(n)
  BY <1>5 DEF T
<1> QED
  BY <1>6 DEF E

\* s has e after its first p bytes.
At(s, p, e) == p + Len(e) <= Len(s) /\ \A j \in 1 .. Len(e) : s[p + j] = e[j]

\* The escape of a byte is where the bytes before it end.
LEMMA EscapedAt ==
  ASSUME NEW b \in Seq(Byte), NEW k \in Nat, k + 1 <= Len(b), NEW n \in Nat, k + 1 <= n, n <= Len(b)
  PROVE  /\ At(EscapeFirst(b, n), Len(EscapeFirst(b, k)), EscapeByte(b[k + 1]))
         /\ Len(EscapeFirst(b, k + 1))
              = Len(EscapeFirst(b, k)) + Len(EscapeByte(b[k + 1]))
<1>0. k \in 0 .. Len(b)
  OBVIOUS
<1>1. PICK c \in Byte : c = b[k + 1]
  BY FirstBytes
<1>2. PICK e \in Seq(Byte) : e = EscapeByte(c)
  BY EscapeByteIs
<1>3. PICK x \in Seq(Byte) : x = EscapeFirst(b, k)
  BY <1>0, EscapedBytes
<1> DEFINE E(m) == At(EscapeFirst(b, m), Len(x), e)
           T == {m \in Nat : k + 1 <= m /\ m <= Len(b) => E(m)}
<1>4. EscapeFirst(b, k + 1) = x \o e
  BY <1>1, <1>2, <1>3, EscapedStep
<1>5. Len(x \o e) = Len(x) + Len(e) /\ \A j \in 1 .. Len(e) : (x \o e)[Len(x) + j] = e[j]
  BY JoinedAt
<1>6. Len(x) + Len(e) <= Len(x) + Len(e)
  OBVIOUS
<1>7. E(k + 1)
  BY <1>4, <1>5, <1>6 DEF At
<1>8. ASSUME NEW m \in Nat, m + 1 <= Len(b), E(m) PROVE E(m + 1)
  <2>0. m \in 0 .. Len(b)
    BY <1>8
  <2>1. PICK d \in Byte : d = b[m + 1]
    BY <1>8, FirstBytes
  <2>2. PICK f \in Seq(Byte) : f = EscapeByte(d)
    BY EscapeByteIs
  <2>3. PICK y \in Seq(Byte) : y = EscapeFirst(b, m)
    BY <2>0, EscapedBytes
  <2>4. EscapeFirst(b, m + 1) = y \o f
    BY <1>8, <2>1, <2>2, <2>3, EscapedStep
  <2>5. Len(y \o f) = Len(y) + Len(f) /\ \A i \in 1 .. Len(y) : (y \o f)[i] = y[i]
    BY JoinedAt
  <2>6. PICK z : z = y \o f
    OBVIOUS
  <2>7. Len(z) = Len(y) + Len(f) /\ \A i \in 1 .. Len(y) : z[i] = y[i]
    BY <2>5, <2>6
  <2>8. At(y, Len(x), e)
    BY <1>8, <2>3
  <2>9. At(z, Len(x), e)
    <3>1. Len(x) + Len(e) <= Len(z)
      BY <2>7, <2>8 DEF At
    <3>2. ASSUME NEW j \in 1 .. Len(e) PROVE z[Len(x) + j] = e[j]
      <4>1. Len(x) + j \in 1 .. Len(y)
        BY <2>8 DEF At
      <4> QED
        BY <2>7, <2>8, <4>1 DEF At
    <3> QED
      BY <3>1, <3>2 DEF At
  <2> QED
    BY <2>4, <2>6, <2>9
<1> HIDE DEF E
<1>9. 0 \in T
  OBVIOUS
<1>10. ASSUME NEW m \in T PROVE m + 1 \in T
  <2>1. m \in Nat /\ (k + 1 <= m /\ m <= Len(b) => E(m))
    OBVIOUS
  <2> HIDE DEF T
  <2>2. SUFFICES ASSUME k + 1 <= m + 1, m + 1 <= Len(b) PROVE E(m + 1)
    BY <2>1 DEF T
  <2>3. CASE m = k
    BY <1>7, <2>3
  <2>4. CASE m # k
    <3>1. k + 1 <= m /\ m <= Len(b)
      BY <2>1, <2>2, <2>4
    <3> QED
      BY <1>8, <2>1, <2>2, <3>1
  <2> QED
    BY <2>3, <2>4
<1> HIDE DEF T
<1>11. T = Nat
  BY <1>9, <1>10, Induction DEF T
<1>12. E(n)
  BY <1>11 DEF T
<1>13. Len(EscapeFirst(b, k + 1)) = Len(x) + Len(e)
  BY <1>4, <1>5
<1> QED
  BY <1>1, <1>2, <1>3, <1>12, <1>13 DEF E

\* DeescapeTmux reads back a byte it meets, and goes on after it.
LEMMA ReadByte ==
  ASSUME NEW s \in Seq(Byte), NEW p \in Nat, NEW e \in Seq(Byte), NEW c,
         At(s, p, e), Coded(e, c) \/ Plain(e, c)
  PROVE  /\ DeescapeLast(s, Len(s) - p)
              = Before(c, DeescapeLast(s, Len(s) - (p + Len(e))))
         /\ Len(s) - p \in Nat
<1>1. PICK L \in Nat : L = Len(s)
  OBVIOUS
<1>2. PICK n : n = L - p
  OBVIOUS
<1>3. CASE Plain(e, c)
  <2>1. Len(e) = 1 /\ e[1] = c /\ c # 92
    BY <1>3 DEF Plain
  <2>2. p + 1 <= L /\ s[p + 1] = c
    BY <1>1, <2>1 DEF At
  <2>3. n \in Nat /\ n # 0 /\ p + 1 = L - n + 1 /\ n - 1 = L - (p + 1)
    BY <1>2, <2>2
  <2>4. DeescapeLast(s, n) = Before(c, DeescapeLast(s, n - 1))
    BY <1>1, <2>1, <2>2, <2>3, ReadTurn
  <2> QED
    BY <1>1, <1>2, <2>1, <2>3, <2>4
<1>4. CASE Coded(e, c)
  <2>1. Len(e) = 4
    BY <1>4 DEF Coded
  <2>2. p + 4 <= L /\ \A j \in 1 .. 4 : s[p + j] = e[j]
    BY <1>1, <2>1 DEF At
  <2>3. s[p + 1] = e[1] /\ s[p + 2] = e[2] /\ s[p + 3] = e[3] /\ s[p + 4] = e[4]
    BY <2>2
  <2>4. n \in Nat /\ n > 3 /\ p + 1 = L - n + 1 /\ n - 4 = L - (p + 4)
    BY <1>2, <2>2
  <2>5. PICK i : i = p + 1
    OBVIOUS
  <2>6. i + 1 = p + 2 /\ i + 2 = p + 3 /\ i + 3 = p + 4
    BY <2>5
  <2>7. /\ s[i] = 92 /\ s[i + 1] = e[2] /\ s[i + 2] = e[3] /\ s[i + 3] = e[4]
    BY <1>4, <2>3, <2>5, <2>6 DEF Coded
  <2>8. Octal(s, i)
    <3>1. e[2] \in 48 .. 55 /\ e[3] \in 48 .. 55 /\ e[4] \in 48 .. 55
      BY <1>4 DEF Coded
    <3>2. \A j \in 1 .. 3 : j = 1 \/ j = 2 \/ j = 3
      OBVIOUS
    <3>3. ASSUME NEW j \in 1 .. 3 PROVE s[i + j] \in 48 .. 55
      BY <2>7, <3>1, <3>2
    <3> QED
      BY <3>3 DEF Octal
  <2>9. OctalValue(s, i) = c /\ s[i + 1] # 92
    <3>1. PICK x \in 48 .. 55 : x = e[2]
      BY <1>4 DEF Coded
    <3>2. PICK y \in 48 .. 55 : y = e[3]
      BY <1>4 DEF Coded
    <3>3. PICK z \in 48 .. 55 : z = e[4]
      BY <1>4 DEF Coded
    <3>4. ((x - 48) * 64 + (y - 48) * 8 + (z - 48)) % 256 = c
      BY <1>4, <3>1, <3>2, <3>3 DEF Coded
    <3>5. s[i + 1] = x /\ s[i + 2] = y /\ s[i + 3] = z
      BY <2>7, <3>1, <3>2, <3>3
    <3>6. OctalValue(s, i) = c
      BY <3>4, <3>5 DEF OctalValue
    <3> QED
      BY <3>5, <3>6
  <2>10. i = L - n + 1
    BY <2>4, <2>5
  <2>11. DeescapeLast(s, n) = Before(c, DeescapeLast(s, n - 4))
    <3>1. i = Len(s) - n + 1
      BY <1>1, <2>10
    <3>2. DeescapeLast(s, n) = Before(OctalValue(s, i), DeescapeLast(s, n - 4))
      BY <2>4, <2>7, <2>8, <2>9, <3>1, ReadOctal
    <3> QED
      BY <2>9, <3>2
  <2> QED
    BY <1>1, <1>2, <2>1, <2>4, <2>11
<1> QED
  BY <1>3, <1>4

\* The escape of c is in s after p bytes, l bytes from the end, and m are left after it.
ReadsAt(s, p, e, c, l, m) ==
  /\ At(s, p, e) /\ (Coded(e, c) \/ Plain(e, c))
  /\ l = Len(s) - p /\ m = Len(s) - (p + Len(e))

\* The same, with names for what is left.
LEMMA ReadByteLeft ==
  ASSUME NEW s \in Seq(Byte), NEW p \in Nat, NEW e \in Seq(Byte), NEW c,
         NEW l, NEW m, ReadsAt(s, p, e, c, l, m)
  PROVE  DeescapeLast(s, l) = Before(c, DeescapeLast(s, m))
  BY ReadByte DEF ReadsAt

\* d is a, then b.
Joins(d, a, b) ==
  /\ d = a \o b /\ Len(d) = Len(a) + Len(b)
  /\ \A i \in 1 .. Len(a) + Len(b) : d[i] = IF i <= Len(a) THEN a[i] ELSE b[i - Len(a)]

\* Two sequences joined, with a name.
LEMMA JoinedSeq ==
  ASSUME NEW S, NEW a \in Seq(S), NEW b \in Seq(S)
  PROVE  \E d \in Seq(S) : Joins(d, a, b)
<1> DEFINE d == a \o b
<1>1. /\ d \in Seq(S) /\ Len(d) = Len(a) + Len(b)
      /\ \A i \in 1 .. Len(a) + Len(b) : d[i] = IF i <= Len(a) THEN a[i] ELSE b[i - Len(a)]
  BY ConcatProperties
<1>2. d = a \o b
  OBVIOUS
<1> HIDE DEF d
<1>3. Joins(d, a, b)
  BY <1>1, <1>2 DEF Joins
<1> QED
  BY <1>1, <1>3

\* The bytes after the first k, one more.
LEMMA LastBytes ==
  ASSUME NEW S, NEW b \in Seq(S), NEW k \in Nat, k + 1 <= Len(b)
  PROVE  /\ SubSeq(b, (k + 1) + 1, Len(b)) \in Seq(S)
         /\ <<b[k + 1]>> \o SubSeq(b, (k + 1) + 1, Len(b)) = SubSeq(b, k + 1, Len(b))
<1>1. PICK n \in Nat : n = Len(b)
  OBVIOUS
<1>2. PICK m \in Nat : m = n - (k + 1)
  <2>1. n - (k + 1) \in Nat
    BY <1>1
  <2> QED
    BY <2>1
<1>3. /\ SubSeq(b, (k + 1) + 1, n) \in Seq(S) /\ Len(SubSeq(b, (k + 1) + 1, n)) = m
      /\ \A i \in 1 .. m : SubSeq(b, (k + 1) + 1, n)[i] = b[(k + 1) + i]
  BY <1>1, <1>2
<1>4. /\ SubSeq(b, k + 1, n) \in Seq(S) /\ Len(SubSeq(b, k + 1, n)) = m + 1
      /\ \A i \in 1 .. m + 1 : SubSeq(b, k + 1, n)[i] = b[k + i]
  BY <1>1, <1>2
<1>5. PICK x \in Seq(S) :
        x = SubSeq(b, (k + 1) + 1, n) /\ Len(x) = m /\ \A i \in 1 .. m : x[i] = b[(k + 1) + i]
  BY <1>3
<1>6. PICK y \in Seq(S) :
        y = SubSeq(b, k + 1, n) /\ Len(y) = m + 1 /\ \A i \in 1 .. m + 1 : y[i] = b[k + i]
  BY <1>4
<1>7. PICK c \in S : c = b[k + 1]
  OBVIOUS
<1>8. PICK u \in Seq(S) : u = <<c>> /\ Len(u) = 1 /\ u[1] = c
  <2>1. <<c>> \in Seq(S) /\ Len(<<c>>) = 1 /\ <<c>>[1] = c
    OBVIOUS
  <2> QED
    BY <2>1
<1>9. PICK z \in Seq(S) : Joins(z, u, x)
  BY JoinedSeq
<1>10. ASSUME NEW i \in 1 .. m + 1 PROVE y[i] = z[i]
  <2>1. CASE i = 1
    BY <1>5, <1>6, <1>7, <1>8, <1>9, <2>1 DEF Joins
  <2>2. CASE i # 1
    <3>1. i - 1 \in 1 .. m /\ (k + 1) + (i - 1) = k + i
      BY <1>2, <2>2
    <3>2. z[i] = x[i - 1]
      BY <1>5, <1>8, <1>9, <2>2 DEF Joins
    <3>3. x[i - 1] = b[k + i] /\ y[i] = b[k + i]
      BY <1>5, <1>6, <3>1
    <3> QED
      BY <3>2, <3>3
  <2> QED
    BY <2>1, <2>2
<1>11. Len(z) = m + 1
  BY <1>2, <1>5, <1>8, <1>9 DEF Joins
<1>12. y = z
  BY <1>6, <1>10, <1>11, SeqEqual
<1> QED
  BY <1>1, <1>5, <1>6, <1>7, <1>8, <1>9, <1>12 DEF Joins

\* A line is read back as the pane wrote it.
LEMMA Inverts ==
  ASSUME NEW b \in Seq(Byte)
  PROVE  DeescapeTmux(Escape(b)) = Decoded(b)
<1>1. PICK n \in Nat : n = Len(b)
  OBVIOUS
<1>2. PICK s \in Seq(Byte) : s = EscapeFirst(b, n)
  <2>1. n \in 0 .. Len(b)
    BY <1>1
  <2> QED
    BY <2>1, EscapedBytes
<1> DEFINE W(k) == Len(EscapeFirst(b, k))
           E(k) == DeescapeLast(s, Len(s) - W(k)) = Decoded(SubSeq(b, k + 1, n))
           T == {j \in Nat : j <= n => E(n - j)}
<1>3. E(n)
  <2>1. Len(s) - W(n) = 0
    BY <1>2
  <2>2. SubSeq(b, n + 1, n) = <<>>
    BY <1>1
  <2>3. DeescapeLast(s, 0) = Decoded(<<>>)
    BY ReadTurn
  <2> QED
    BY <2>1, <2>2, <2>3
<1>4. ASSUME NEW k \in Nat, k + 1 <= n, E(k + 1) PROVE E(k)
  <2>1. PICK c \in Byte : c = b[k + 1]
    BY <1>1, <1>4, FirstBytes
  <2>2. PICK e \in Seq(Byte) : e = EscapeByte(c) /\ (Coded(e, c) \/ Plain(e, c))
    BY EscapeByteIs
  <2>3. At(s, W(k), e) /\ W(k + 1) = W(k) + Len(e)
    BY <1>1, <1>2, <1>4, <2>1, <2>2, EscapedAt
  <2>4. PICK p \in Nat : p = W(k)
    <3>1. k \in 0 .. Len(b)
      BY <1>1, <1>4
    <3>2. EscapeFirst(b, k) \in Seq(Byte)
      BY <3>1, EscapedBytes
    <3> QED
      BY <3>2
  <2>5. DeescapeLast(s, Len(s) - p) = Before(c, DeescapeLast(s, Len(s) - (p + Len(e))))
    <3>1. At(s, p, e)
      BY <2>3, <2>4
    <3>2. PICK l : l = Len(s) - p
      OBVIOUS
    <3>3. PICK m : m = Len(s) - (p + Len(e))
      OBVIOUS
    <3> HIDE DEF E, W
    <3>4. DeescapeLast(s, l) = Before(c, DeescapeLast(s, m))
      <4>1. ReadsAt(s, p, e, c, l, m)
        BY <2>2, <3>1, <3>2, <3>3 DEF ReadsAt
      <4> QED
        BY <4>1, ReadByteLeft
    <3> QED
      BY <3>2, <3>3, <3>4
  <2>6. DeescapeLast(s, Len(s) - (p + Len(e))) = Decoded(SubSeq(b, (k + 1) + 1, n))
    BY <1>4, <2>3, <2>4
  <2>7. PICK x \in Seq(Byte) : x = SubSeq(b, (k + 1) + 1, n)
    BY <1>1, <1>4, LastBytes
  <2>8. Before(c, Decoded(x)) = Decoded(<<c>> \o x)
    BY DEF Before, Decoded
  <2>9. <<c>> \o x = SubSeq(b, k + 1, n)
    BY <1>1, <1>4, <2>1, <2>7, LastBytes
  <2> QED
    BY <2>4, <2>5, <2>6, <2>7, <2>8, <2>9
<1> HIDE DEF E
<1>5. 0 \in T
  <2>1. n - 0 = n
    OBVIOUS
  <2> QED
    BY <1>3, <2>1
<1>6. ASSUME NEW j \in T PROVE j + 1 \in T
  <2>1. j \in Nat /\ (j <= n => E(n - j))
    OBVIOUS
  <2> HIDE DEF T
  <2>2. SUFFICES ASSUME j + 1 <= n PROVE E(n - (j + 1))
    BY <2>1 DEF T
  <2>3. PICK k \in Nat : k = n - (j + 1) /\ k + 1 = n - j
    BY <2>1, <2>2
  <2>4. k + 1 <= n /\ E(k + 1)
    BY <2>1, <2>2, <2>3
  <2> QED
    BY <1>4, <2>3, <2>4
<1> HIDE DEF T
<1>7. T = Nat
  BY <1>5, <1>6, Induction DEF T
<1>8. E(0)
  <2>1. n - n = 0 /\ n \in T
    BY <1>7
  <2> QED
    BY <2>1 DEF T
<1>9. W(0) = 0 /\ Len(s) - 0 = Len(s)
  BY EscapedStep
<1>10. SubSeq(b, 0 + 1, n) = b
  BY <1>1
<1>11. DeescapeLast(s, Len(s)) = Decoded(b)
  BY <1>8, <1>9, <1>10 DEF E
<1> QED
  BY <1>1, <1>2, <1>11 DEF DeescapeTmux, Escape

\* The third part of a line without a space in its data is the data.
LEMMA ThirdPartIs ==
  ASSUME NEW s \in Seq(Byte)
  PROVE  ThirdPart(s) \in Seq(Byte) /\ (NoSpace(s) => ThirdPart(s) = s)
<1> DEFINE spaces == {i \in 1 .. Len(s) : s[i] = Space}
           first == CHOOSE i \in spaces : \A j \in spaces : i <= j
<1>1. ThirdPart(s) = IF spaces = {} THEN s ELSE SubSeq(s, 1, first - 1)
  BY DEF ThirdPart
<1>2. NoSpace(s) => spaces = {}
  BY DEF NoSpace, Space
<1>3. spaces # {} => first \in 1 .. Len(s)
  <2>1. SUFFICES ASSUME spaces # {} PROVE first \in spaces
    OBVIOUS
  <2>2. spaces \subseteq Nat
    OBVIOUS
  <2> HIDE DEF spaces
  <2>3. \E i \in spaces : \A j \in spaces : i <= j
    BY <2>1, <2>2, LeastNumber
  <2> QED
    BY <2>3
<1> HIDE DEF spaces, first
<1>4. first \in 1 .. Len(s) => SubSeq(s, 1, first - 1) \in Seq(Byte)
  OBVIOUS
<1> QED
  BY <1>1, <1>2, <1>3, <1>4
-----------------------------------------------------------------------------
(***************************************************************************)
(* The stream.                                                             *)
(***************************************************************************)
PtyInv == Good(san, delivered, out) /\ lost \in BOOLEAN /\ spaced \in BOOLEAN /\ LineDecoded

\* What readLoop hands on is bytes, and the chunk itself if it has no space.
LEMMA RawIs ==
  ASSUME Limits, NEW chunk \in Chunks
  PROVE  LET raw == DeescapeTmux(ThirdPart(Escape(chunk))) IN
           /\ raw.bytes \in Seq(Byte)
           /\ Space \notin Codes(chunk) => raw.bytes = chunk
<1>1. PICK n \in Nat : chunk \in [1 .. n -> Bytes]
  BY DEF Chunks, Limits
<1>2. Bytes \subseteq Byte
  BY DEF Limits, Byte
<1>3. chunk \in Seq(Byte) /\ Len(chunk) \in Nat
  BY <1>1, <1>2
<1>4. Len(chunk) \in 0 .. Len(chunk)
  BY <1>3
<1>5. PICK s \in Seq(Byte) : s = Escape(chunk) /\ (NoSpace(chunk) => NoSpace(s))
  BY <1>3, <1>4, EscapedBytes DEF Escape
<1>6. PICK t \in Seq(Byte) : t = ThirdPart(s) /\ (NoSpace(s) => t = s)
  BY ThirdPartIs
<1>7. PICK raw : raw = DeescapeTmux(t)
  OBVIOUS
<1>8. raw.bytes \in Seq(Byte)
  <2>1. Len(t) \in 0 .. Len(t)
    OBVIOUS
  <2> QED
    BY <1>7, <2>1, ReadBytes DEF BytesRead, DeescapeTmux
<1>9. Space \notin Codes(chunk) => raw.bytes = chunk
  <2>1. SUFFICES ASSUME Space \notin Codes(chunk) PROVE raw.bytes = chunk
    OBVIOUS
  <2>2. NoSpace(chunk)
    BY <2>1 DEF NoSpace, Space, Codes
  <2>3. raw = Decoded(chunk)
    BY <1>3, <1>5, <1>6, <1>7, <2>2, Inverts
  <2> QED
    BY <2>3 DEF Decoded
<1> QED
  BY <1>5, <1>6, <1>7, <1>8, <1>9

\* One chunk sent.
LEMMA SendGood ==
  ASSUME Good(san, delivered, out), NEW b \in Seq(Byte), SendPty(b)
  PROVE  Good(san', delivered', out')
  BY SanitizeGood DEF SendPty

\* Steps keep PtyInv.
LEMMA PtyStep == ASSUME Limits PROVE PtyInv /\ [PtyNext]_ptyVars => PtyInv'
<1>1. SUFFICES ASSUME PtyInv, [PtyNext]_ptyVars PROVE PtyInv'
  OBVIOUS
<1>2. CASE Capture
  <2>1. <<ESC, 91>> \in Seq(Byte)
    <3>1. ESC \in Byte /\ 91 \in Byte
      BY DEF ESC, Byte
    <3> QED
      BY <3>1
  <2>2. Good(san', delivered', out')
    BY <1>1, <1>2, <2>1, SendGood DEF Capture, PtyInv
  <2> QED
    BY <1>1, <1>2, <2>2 DEF Capture, PtyInv, LineDecoded
<1>3. ASSUME NEW chunk \in Chunks, Output(chunk) PROVE PtyInv'
  <2>1. PICK raw : raw = DeescapeTmux(ThirdPart(Escape(chunk)))
    OBVIOUS
  <2>2. raw.bytes \in Seq(Byte) /\ (Space \notin Codes(chunk) => raw.bytes = chunk)
    BY <2>1, RawIs
  <2>3. /\ SendPty(raw.bytes) \/ UNCHANGED <<delivered, san, out>>
        /\ lost' = (lost \/ raw.bytes # chunk)
        /\ spaced' = (spaced \/ Space \in Codes(chunk))
    BY <1>3, <2>1 DEF Output
  <2>4. Good(san', delivered', out')
    BY <1>1, <2>2, <2>3, SendGood DEF PtyInv
  <2>5. LineDecoded' /\ lost' \in BOOLEAN /\ spaced' \in BOOLEAN
    BY <1>1, <2>2, <2>3 DEF PtyInv, LineDecoded
  <2> QED
    BY <2>4, <2>5 DEF PtyInv
<1>4. CASE UNCHANGED ptyVars
  BY <1>1, <1>4 DEF ptyVars, PtyInv, LineDecoded
<1> QED
  BY <1>1, <1>2, <1>3, <1>4 DEF PtyNext

\* The invariant of the stream: the Sanitizer is one that was given what was
\* delivered and gave out what came out.
THEOREM StreamInvariant == PtySpec => []PtyInv
<1>1. PtyInit => PtyInv
  BY NewGood DEF PtyInit, PtyInv, LineDecoded
<1>2. PtyInv /\ [PtyNext]_ptyVars => PtyInv'
  BY PtyAssumption, PtyStep
<1> QED
  BY <1>1, <1>2, PTL DEF PtySpec

\* sanitize.go: the output is that of the whole stream in one piece, wherever
\* the chunks end.
THEOREM ChunkIndependentHolds == PtySpec => []ChunkIndependent
<1>1. PtyInv => ChunkIndependent
  <2>1. SUFFICES ASSUME PtyInv PROVE ChunkIndependent
    OBVIOUS
  <2>2. out = InOnePiece(delivered).out
    BY <2>1 DEF PtyInv, Good, Whole
  <2>3. Loop(NewSanitizer, delivered).out = InOnePiece(delivered).out
    BY DEF Loop, InOnePiece, Result
  <2> QED
    BY <2>2, <2>3 DEF ChunkIndependent
<1> QED
  BY <1>1, StreamInvariant, PTL

\* sanitize.go: without a title sequence every byte comes out, in order, or is
\* still held.
THEOREM OthersPassHolds == PtySpec => []OthersPass
<1>1. PtyInv => OthersPass
  BY DEF PtyInv, Good, Passed, OthersPass
<1> QED
  BY <1>1, StreamInvariant, PTL

\* tmux.go: DeescapeTmux inverts the escaping of any line without a space.
THEOREM LineDecodedHolds == PtySpec => []LineDecoded
<1>1. PtyInv => LineDecoded
  BY DEF PtyInv
<1> QED
  BY <1>1, StreamInvariant, PTL
=============================================================================
