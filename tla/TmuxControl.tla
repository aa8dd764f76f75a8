---------------------------- MODULE TmuxControl ----------------------------
(***************************************************************************)
(* The tmux control-mode client (internal/tmux/tmux.go): RunCommand, called *)
(* from any goroutine, queues a reply channel and writes its command; the   *)
(* one readLoop pairs the k-th %begin with the k-th queued channel.         *)
(* A command stands for the call that issued it, for its channel and for    *)
(* the number tmux gives its reply block.  A block is its %begin line, the  *)
(* output and its last line, with no other block between them.  %output     *)
(* lines pass through PtyStream and are left out here.                      *)
(***************************************************************************)
EXTENDS Naturals, Sequences

CONSTANTS
  Cmds,                     \* the commands issued
  PipeCap,                  \* commands the stdin pipe holds
  None                      \* no command

ASSUME ControlAssumption == None \notin Cmds /\ PipeCap \in Nat \ {0}

VARIABLES
  pc,                       \* per command: where its RunCommand is
  got,                      \* per command: what RunCommand returned
  chan,                     \* per command: what is in its reply channel
  pendingQueue,             \* channels waiting for a %begin
  pendingCmds,              \* per reply block: the channel it goes to
  stdin,                    \* commands tmux has to read
  stdout,                   \* blocks whose %begin readLoop has to read
  stdinOpen, tmuxUp,        \* the pipe is open; the control process lives
  reader,                   \* where readLoop is
  active,                   \* the block of activeCmdID, its last line not read
  target,                   \* the channel readLoop looked up
  slipped                   \* a channel and its reply got out of step

calls  == <<pc, got>>
pipes  == <<stdin, stdout, stdinOpen, tmuxUp>>
loop   == <<reader, active, target>>
vars   == <<calls, chan, pendingQueue, pendingCmds, pipes, loop, slipped>>

Failures == {"none", "timeout", "write error", "exited"}
Blocks == [cmd : Cmds, last : {"end", "error", "none"}]
Block(c, last) == [cmd |-> c, last |-> last]
NoBlock == Block(None, "none")

CallType ==
  /\ pc \in [Cmds -> {"new", "queued", "waiting", "returned"}]
  /\ got \in [Cmds -> Cmds \cup Failures]
  /\ chan \in [Cmds -> Cmds \cup {"none", "exited"}]
QueueType == pendingQueue \in Seq(Cmds) /\ pendingCmds \in [Cmds -> Cmds \cup {None}]
PipeType ==
  /\ stdin \in Seq(Cmds) /\ stdout \in Seq(Blocks)
  /\ stdinOpen \in BOOLEAN /\ tmuxUp \in BOOLEAN
ReaderType ==
  /\ reader \in {"read", "deliver", "exiting", "stopped"}
  /\ active \in Blocks \cup {NoBlock} /\ target \in Cmds \cup {None}

TypeOK == CallType /\ QueueType /\ PipeType /\ ReaderType /\ slipped \in BOOLEAN

Init ==
  /\ pc = [c \in Cmds |-> "new"] /\ got = [c \in Cmds |-> "none"]
  /\ chan = [c \in Cmds |-> "none"]
  /\ pendingQueue = <<>> /\ pendingCmds = [c \in Cmds |-> None]
  /\ stdin = <<>> /\ stdout = <<>> /\ stdinOpen = TRUE /\ tmuxUp = TRUE
  /\ reader = "read" /\ active = NoBlock /\ target = None /\ slipped = FALSE
-----------------------------------------------------------------------------
(***************************************************************************)
(* RunCommand.                                                             *)
(***************************************************************************)
\* make(chan cmdResult, 1): the results a reply channel holds.
Unbuffered == 0
ReplyBuffer == 1

Return(c, result) ==
  /\ pc' = [pc EXCEPT ![c] = "returned"]
  /\ got' = [got EXCEPT ![c] = result]

RunCommand(c) ==
  /\ pc[c] = "new"
  /\ pc' = [pc EXCEPT ![c] = "queued"]
  /\ pendingQueue' = Append(pendingQueue, c)
  /\ UNCHANGED <<got, chan, pendingCmds, pipes, loop, slipped>>

Queued(c) == \E i \in 1 .. Len(pendingQueue) : pendingQueue[i] = c

\* A channel is queued once; the loop stops where it finds it.
Unqueue(c) ==
  IF Queued(c)
  THEN \E i \in 1 .. Len(pendingQueue) :
         /\ pendingQueue[i] = c
         /\ pendingQueue' = SubSeq(pendingQueue, 1, i - 1)
                             \o SubSeq(pendingQueue, i + 1, Len(pendingQueue))
  ELSE UNCHANGED pendingQueue

\* A channel in front of c's whose command is not written yet.
Overtakes(c) ==
  \E i, j \in 1 .. Len(pendingQueue) :
    i < j /\ pendingQueue[j] = c /\ pc[pendingQueue[i]] = "queued"

\* tmux does not read, and the pipe has no room.
PipeFull == stdinOpen /\ tmuxUp /\ Len(stdin) >= PipeCap

\* The write is outside the lock and waits for room in the pipe, before the timer is
\* started.  A failed one takes the channel back.
Write(c) ==
  /\ pc[c] = "queued"
  /\ ~PipeFull
  /\ IF stdinOpen /\ tmuxUp
     THEN /\ pc' = [pc EXCEPT ![c] = "waiting"]
          /\ stdin' = Append(stdin, c)
          /\ slipped' = (slipped \/ Overtakes(c))
          /\ UNCHANGED <<got, pendingQueue>>
     ELSE /\ Return(c, "write error")
          /\ Unqueue(c)
          /\ UNCHANGED <<stdin, slipped>>
  /\ UNCHANGED <<chan, pendingCmds, stdout, stdinOpen, tmuxUp, loop>>

Receive(c) ==
  /\ pc[c] = "waiting" /\ chan[c] # "none"
  /\ Return(c, chan[c])
  /\ chan' = [chan EXCEPT ![c] = "none"]
  /\ UNCHANGED <<pendingQueue, pendingCmds, pipes, loop, slipped>>

\* 10 s: the channel leaves the queue although its %begin may still come.
TimeoutNever(c) == FALSE /\ UNCHANGED vars

Timeout(c) ==
  /\ pc[c] = "waiting"
  /\ Return(c, "timeout")
  /\ Unqueue(c)
  /\ pendingCmds' = [b \in Cmds |-> IF pendingCmds[b] = c THEN None ELSE pendingCmds[b]]
  /\ slipped' = (slipped \/ Queued(c))
  /\ UNCHANGED <<chan, pipes, loop>>
-----------------------------------------------------------------------------
(***************************************************************************)
(* tmux: one reply block per command, in the order they were written.      *)
(***************************************************************************)
Execute ==
  /\ tmuxUp /\ stdin # <<>>
  /\ stdin' = Tail(stdin)
  /\ \E last \in {"end", "error"} : stdout' = Append(stdout, Block(Head(stdin), last))
  /\ UNCHANGED <<calls, chan, pendingQueue, pendingCmds, stdinOpen, tmuxUp, loop, slipped>>

\* Its output ends between two blocks or inside one.
Dies ==
  /\ tmuxUp /\ tmuxUp' = FALSE
  /\ \/ UNCHANGED <<stdin, stdout>>
     \/ /\ stdin # <<>> /\ stdin' = Tail(stdin)
        /\ stdout' = Append(stdout, Block(Head(stdin), "none"))

TmuxExits ==
  /\ Dies
  /\ UNCHANGED <<calls, chan, pendingQueue, pendingCmds, stdinOpen, loop, slipped>>

\* Client.Close, when the daemon stops: stdin is closed, the process killed.
Close ==
  /\ stdinOpen /\ stdinOpen' = FALSE
  /\ IF tmuxUp THEN Dies ELSE UNCHANGED <<stdin, stdout, tmuxUp>>
  /\ UNCHANGED <<calls, chan, pendingQueue, pendingCmds, loop, slipped>>
-----------------------------------------------------------------------------
(***************************************************************************)
(* readLoop.                                                               *)
(***************************************************************************)
NewestFirst(b) ==
  /\ pendingCmds' = [pendingCmds EXCEPT ![b] = pendingQueue[Len(pendingQueue)]]
  /\ pendingQueue' = SubSeq(pendingQueue, 1, Len(pendingQueue) - 1)

\* The oldest queued channel is the one of this block.
OldestFirst(b) ==
  /\ pendingCmds' = [pendingCmds EXCEPT ![b] = Head(pendingQueue)]
  /\ pendingQueue' = Tail(pendingQueue)

ReadBegin ==
  /\ reader = "read" /\ active = NoBlock /\ stdout # <<>>
  /\ stdout' = Tail(stdout) /\ active' = Head(stdout)
  /\ IF pendingQueue # <<>> THEN OldestFirst(Head(stdout).cmd)
     ELSE UNCHANGED <<pendingCmds, pendingQueue>>
  /\ UNCHANGED <<calls, chan, stdin, stdinOpen, tmuxUp, reader, target, slipped>>

\* %end and %error of the active block: the channel is looked up under the lock
\* and sent to outside it; the entry stays.
ReadEnd ==
  /\ reader = "read" /\ active.last # "none"
  /\ IF pendingCmds[active.cmd] # None
     THEN reader' = "deliver" /\ target' = pendingCmds[active.cmd] /\ UNCHANGED active
     ELSE active' = NoBlock /\ UNCHANGED <<reader, target>>
  /\ UNCHANGED <<calls, chan, pendingQueue, pendingCmds, pipes, slipped>>

\* ch <- result: with no room it waits for the receiver.
Deliver ==
  /\ reader = "deliver"
  /\ IF ReplyBuffer > 0 THEN chan[target] = "none" ELSE pc[target] = "waiting"
  /\ chan' = [chan EXCEPT ![target] = active.cmd]
  /\ reader' = "read" /\ active' = NoBlock /\ target' = None
  /\ UNCHANGED <<calls, pendingQueue, pendingCmds, pipes, slipped>>

\* %exit or the end of the output.
ReadExit ==
  /\ reader = "read" /\ ~tmuxUp /\ stdout = <<>> /\ active.last = "none"
  /\ reader' = "exiting"
  /\ UNCHANGED <<calls, chan, pendingQueue, pendingCmds, pipes, active, target, slipped>>

\* The deferred function: what is in pendingCmds is failed, what is still in
\* pendingQueue is left to its timeout.
ReaderStops ==
  /\ reader = "exiting" /\ reader' = "stopped" /\ stdinOpen' = FALSE
  /\ chan' = [c \in Cmds |->
                IF chan[c] = "none" /\ \E b \in Cmds : pendingCmds[b] = c THEN "exited" ELSE chan[c]]
  /\ pendingCmds' = [b \in Cmds |-> None]
  /\ UNCHANGED <<calls, pendingQueue, stdin, stdout, tmuxUp, active, target, slipped>>
-----------------------------------------------------------------------------
CallStep(c) == Write(c) \/ Receive(c) \/ Timeout(c)
ReaderStep == ReadBegin \/ ReadEnd \/ Deliver \/ ReadExit \/ ReaderStops

Next ==
  \/ \E c \in Cmds : RunCommand(c) \/ CallStep(c)
  \/ Execute \/ TmuxExits \/ Close \/ ReaderStep

\* Goroutines run and their timers fire; nothing is assumed of tmux.
Fairness == WF_vars(ReaderStep) /\ \A c \in Cmds : WF_vars(CallStep(c))

Spec == Init /\ [][Next]_vars
FairSpec == Spec /\ Fairness
-----------------------------------------------------------------------------
\* As long as no call overtook another between queueing and writing, and none
\* timed out before its %begin, the queue holds the channels of the blocks to come,
\* then of the commands tmux has to read, then of those not written yet
\* (tmux.go:140-144, 527-530).
QueueAligned ==
  ~slipped =>
    LET n == Len(stdout)  m == Len(stdin) IN
      /\ n + m <= Len(pendingQueue)
      /\ \A i \in 1 .. n : pendingQueue[i] = stdout[i].cmd
      /\ \A i \in 1 .. m : pendingQueue[n + i] = stdin[i]
      /\ \A i \in n + m + 1 .. Len(pendingQueue) : pc[pendingQueue[i]] = "queued"

\* RunCommand hands its caller the reply to another command only after such a slip.
MismatchExplained == ~slipped => \A c \in Cmds : got[c] \in {c} \cup Failures

\* The pairing of replies with calls by order alone (tmux.go:520-534), in the queue
\* and in what is returned.
RepliesAligned == QueueAligned /\ MismatchExplained

\* The reader never waits for a caller: not even for one that timed out between the
\* lookup and the send (tmux.go:133, 547, 568).
ReaderNotStuck == (reader = "deliver") ~> (reader # "deliver")

\* Every RunCommand returns, also one whose channel was still queued when tmux
\* exited (tmux.go:159), unless tmux has stopped reading for good with its pipe full:
\* then a call waits in its write (tmux.go:144), to which no timeout applies, until
\* tmux exits or Close is called.
CommandsReturn ==
  \A c \in Cmds : (pc[c] = "queued") ~> (pc[c] = "returned" \/ []PipeFull)

\* "RunCommand issues a command to tmux CC and blocks waiting for its response"
\* (tmux.go:131): what it returns is the response to its own command.
ReplyIsMine == \A c \in Cmds : got[c] \in {c} \cup Failures
-----------------------------------------------------------------------------
(***************************************************************************)
(* The inductive invariant.                                                *)
(***************************************************************************)
\* A channel is queued once, by a call that has begun; a command tmux or the reader
\* has yet to see was written (tmux.go RunCommand).
QueueSound ==
  /\ \A i, j \in 1 .. Len(pendingQueue) : pendingQueue[i] = pendingQueue[j] => i = j
  /\ \A i \in 1 .. Len(pendingQueue) : pc[pendingQueue[i]] # "new"
  /\ \A i \in 1 .. Len(stdout) : pc[stdout[i].cmd] \notin {"new", "queued"}
  /\ \A i \in 1 .. Len(stdin) : pc[stdin[i]] \notin {"new", "queued"}

\* readLoop has a channel in hand, for a block it read to its end.
ReaderSound == reader = "deliver" => target # None /\ active # NoBlock

\* Without a slip every stage a reply goes through is its own command's.
Paired ==
  ~slipped =>
    /\ \A c \in Cmds : pc[c] = "queued" => Queued(c)
    /\ \A b \in Cmds : pendingCmds[b] \in {b, None}
    /\ reader = "deliver" => target = active.cmd
    /\ \A c \in Cmds : chan[c] \in {c, "none", "exited"}
    /\ \A c \in Cmds : got[c] \in {c} \cup Failures

\* Queue, pipes, reader and channels together.
IInv == TypeOK /\ QueueSound /\ ReaderSound /\ QueueAligned /\ Paired
=============================================================================
