----------------------------- MODULE DaemonLink -----------------------------
(***************************************************************************)
(* The link between one daemon and the coordinator, for one session: how   *)
(* frames are numbered and written (daemon: internal/session/multiplex.go, *)
(* seq.go, internal/coordinator/client.go), how the connection is dialled, *)
(* lost and dialled again with machine_register and session_resume, and    *)
(* what the coordinator makes of each frame (internal/machines/ingest.go,  *)
(* internal/machines/registry.go, internal/http/daemon_ws.go).             *)
(*                                                                         *)
(* It follows one life of the session, from its registration to its first  *)
(* ending; an extension that comes back with an id that ended is left out. *)
(*                                                                         *)
(* Either side may lose its memory: the coordinator and the daemon keep    *)
(* their registries in RAM only.  A connection is a slot of Slots, used    *)
(* again once both ends are done with it.  The coordinator handles one     *)
(* frame in one step; SessionFanout refines what happens inside that step. *)
(***************************************************************************)
EXTENDS Integers, Sequences, FiniteSets

CONSTANTS
  Workers,                  \* daemon goroutines that emit frames of the session
  Slots,                    \* connections that may exist at the same time
  NoSlot,                   \* a nil *websocket.Conn
  MaxSeq,                   \* bound on the seqs allocated
  MaxWire,                  \* bound on the frames in flight on a connection
  MaxBreaks,                \* bound on network failures and machine suspends
  MaxCrashes,               \* bound on coordinator restarts
  MaxRestarts,              \* bound on daemon restarts
  MaxFailures               \* bound on all of these together

ASSUME LinkAssumption ==
  /\ "ext" \in Workers /\ Workers \subseteq {"ext", "tmux", "capture", "sweep"}
  /\ NoSlot \notin Slots
  /\ MaxSeq \in Nat /\ MaxWire \in Nat \ {0}
  /\ MaxBreaks \in Nat /\ MaxCrashes \in Nat /\ MaxRestarts \in Nat
  /\ MaxFailures \in Nat

VARIABLES
  \* daemon
  reg,                      \* the session in the daemon's registry
  alive,                    \* its Pi process exists
  n,                        \* SeqAllocator.n, 0 when there is no allocator
  pend,                     \* per goroutine: the frame it built and will Send
  conn,                     \* Client.conn
  run,                      \* where Client.runOnce is
  snap,                     \* last_seq_emitted read for the session_resume
  sleeping,                 \* NotifySuspend wrote its frame, has yet to close
  \* network
  open,                     \* per slot: both ends can still exchange frames
  wire,                     \* per slot: frames written and not yet read
  \* coordinator
  hand,                     \* per slot: where daemonWS.ServeHTTP is
  machine,                  \* Machine.Conn of the daemon's machine_id
  sess,                     \* the session in the coordinator's registry
  \* history and bounds
  accepted,                 \* seqs published since the last session_started
  breaks, crashes, restarts

daemonVars == <<reg, alive, n, pend>>
clientVars == <<conn, run, snap, sleeping>>
coordVars  == <<hand, machine, sess, accepted>>
budgets    == <<breaks, crashes, restarts>>

\* One failure more is within the bound.
MayFail == breaks + crashes + restarts < MaxFailures
vars == <<daemonVars, clientVars, open, wire, coordVars, budgets>>

Frame(type, seq) == [type |-> type, seq |-> seq]
NoFrame == Frame("none", 0)

Seqs == 1 .. MaxSeq
SeqTypes == {"data", "running", "unresponsive", "ended"}
BuiltFrame == [type : SeqTypes \cup {"none", "drop", "started"}, seq : 0 .. MaxSeq]
WireFrame  == [type : SeqTypes \cup {"started", "register", "resume", "suspending"},
               seq : 0 .. MaxSeq]

\* A session of the coordinator.  session_event and session_pty are "data"; a
\* session_state_change is named by its target state.
Unknown    == [known |-> FALSE, LastSeq |-> 0, State |-> "running", Ended |-> FALSE]
NewSession == [known |-> TRUE, LastSeq |-> 0, State |-> "running", Ended |-> FALSE]
SessionType == [known : BOOLEAN, LastSeq : 0 .. MaxSeq, Ended : BOOLEAN,
                State : {"running", "unresponsive", "paused", "ended"}]

TypeOK ==
  /\ reg \in {"none", "running", "unresponsive", "ended", "lost"} /\ alive \in BOOLEAN
  /\ n \in 0 .. MaxSeq
  /\ pend \in [Workers -> BuiltFrame]
  /\ conn \in Slots \cup {NoSlot}
  /\ run \in {"dial", "register", "snapshot", "peek", "resume", "read"}
  /\ snap \in 0 .. MaxSeq /\ sleeping \in BOOLEAN
  /\ open \in [Slots -> BOOLEAN] /\ wire \in [Slots -> Seq(WireFrame)]
  /\ hand \in [Slots -> {"none", "new", "registered", "closing"}]
  /\ machine \in Slots \cup {NoSlot}
  /\ sess \in SessionType
  /\ accepted \in Seq(Seqs)
  /\ breaks \in 0 .. MaxBreaks /\ crashes \in 0 .. MaxCrashes
  /\ restarts \in 0 .. MaxRestarts

Init ==
  /\ reg = "none" /\ alive = TRUE /\ n = 0
  /\ pend = [w \in Workers |-> NoFrame]
  /\ conn = NoSlot /\ run = "dial" /\ snap = 0 /\ sleeping = FALSE
  /\ open = [k \in Slots |-> FALSE] /\ wire = [k \in Slots |-> <<>>]
  /\ hand = [k \in Slots |-> "none"] /\ machine = NoSlot
  /\ sess = Unknown /\ accepted = <<>>
  /\ breaks = 0 /\ crashes = 0 /\ restarts = 0
-----------------------------------------------------------------------------
(***************************************************************************)
(* The daemon's producers.  A goroutine allocates a seq, builds its frame  *)
(* and only then sends it: Multiplex.onRegister, onEvent, onStateChange,   *)
(* onEnded on the extension's goroutine ("ext"), SendPty and, when tmux    *)
(* exits, onEnded on the tmux reader ("tmux"), SendPty on MapPane's screen *)
(* capture ("capture"), onStateChange on the heartbeat sweep ("sweep").    *)
(***************************************************************************)
Live == reg \in {"running", "unresponsive"}

\* SweepHeartbeats runs its hook with the registry locked.
RegistryFree == "sweep" \in Workers => pend["sweep"] = NoFrame

\* Multiplex.onRegister: session_started carries no seq.
ExtRegister ==
  /\ reg = "none" /\ alive /\ RegistryFree
  /\ pend["ext"] = NoFrame
  /\ reg' = "running"
  /\ pend' = [pend EXCEPT !["ext"] = Frame("started", 0)]
  /\ UNCHANGED <<alive, n, clientVars, open, wire, coordVars, budgets>>

\* allocFor(id).Next() and the frame built with it.
Emit(w, type) ==
  /\ pend[w] = NoFrame
  /\ n < MaxSeq
  /\ n' = n + 1
  /\ pend' = [pend EXCEPT ![w] = Frame(type, n + 1)]
  /\ UNCHANGED <<alive, clientVars, open, wire, coordVars, budgets>>

\* Registry.Event asks nobody whether the session is still registered.
OnEvent == (Live \/ reg = "lost") /\ Emit("ext", "data") /\ UNCHANGED reg

\* The pane is mapped before the session is registered and stays mapped after
\* it ended, so pty output is numbered at any time while tmux runs.
SendPty(w) ==
  /\ w \in {"tmux", "capture"} /\ reg # "lost"
  /\ Emit(w, "data") /\ UNCHANGED reg

\* SweepHeartbeats, and the heartbeat that ends the silence.
Sweep ==
  /\ "sweep" \in Workers
  /\ reg = "running" /\ reg' = "unresponsive"
  /\ Emit("sweep", "unresponsive")

Heartbeat ==
  /\ RegistryFree
  /\ reg = "unresponsive" /\ reg' = "running"
  /\ Emit("ext", "running")

\* The Pi process exits; its socket is noticed to be closed later.
ProcessExit ==
  /\ alive /\ Live /\ alive' = FALSE
  /\ UNCHANGED <<reg, n, pend, clientVars, open, wire, coordVars, budgets>>

\* RemoveWithReason or MarkEnded, then onEnded.
OnEnded ==
  /\ Live /\ RegistryFree
  /\ reg' = "ended"
  /\ Emit("ext", "ended")

\* handleExitNotification: tmux is gone, its reader removes the session while
\* the extension stays connected.
TmuxExit ==
  /\ "tmux" \in Workers
  /\ Live /\ RegistryFree
  /\ reg' = "lost"
  /\ Emit("tmux", "ended")

\* dropAlloc, deferred by onEnded.
DropAlloc(w) ==
  /\ pend[w].type = "drop"
  /\ n' = 0
  /\ pend' = [pend EXCEPT ![w] = NoFrame]
  /\ UNCHANGED <<reg, alive, clientVars, open, wire, coordVars, budgets>>

\* Client.write: dropped without a connection, lost on a dead one, and it
\* blocks (with connMu held) while the connection takes no more.
Written(f) ==
  IF conn # NoSlot /\ open[conn]
  THEN Len(wire[conn]) < MaxWire /\ wire' = [wire EXCEPT ![conn] = Append(@, f)]
  ELSE UNCHANGED wire

\* coord.Connected() and coord.Send(frame).
Send(w) ==
  /\ pend[w].type \notin {"none", "drop"}
  /\ Written(pend[w])
  /\ pend' = [pend EXCEPT ![w] = IF pend[w].type = "ended" THEN Frame("drop", 0) ELSE NoFrame]
  /\ UNCHANGED <<reg, alive, n, clientVars, open, coordVars, budgets>>
-----------------------------------------------------------------------------
(***************************************************************************)
(* Client.runOnce on the daemon's coordinator goroutine.                   *)
(***************************************************************************)
\* websocket.Dial and setConn: from here on every goroutine can write.
Dial(k) ==
  /\ run = "dial"
  /\ hand[k] = "none" /\ ~open[k] /\ machine # k
  /\ conn' = k /\ run' = "register"
  /\ open' = [open EXCEPT ![k] = TRUE]
  /\ wire' = [wire EXCEPT ![k] = <<>>]
  /\ hand' = [hand EXCEPT ![k] = "new"]
  /\ UNCHANGED <<daemonVars, snap, sleeping, machine, sess, accepted, budgets>>

\* handshake: machine_register.
WriteRegister ==
  /\ run = "register"
  /\ Written(Frame("register", 0))
  /\ run' = "snapshot"
  /\ UNCHANGED <<daemonVars, conn, snap, sleeping, open, coordVars, budgets>>

\* Mutant: the handshake announces nobody.
NothingToResume == FALSE

\* reg.Snapshot() skips ended sessions, LiveSessions those without a process.
ToResume == Live /\ alive

LiveSnapshot ==
  /\ run = "snapshot" /\ RegistryFree
  /\ run' = IF ToResume THEN "peek" ELSE "read"
  /\ UNCHANGED <<daemonVars, conn, snap, sleeping, open, wire, coordVars, budgets>>

\* Mutant: the seq the next frame will get.
PeekNext == n + 1

Peek == n

\* last_seq_emitted, read after the registry's lock was released.
ReadLastSeq ==
  /\ run = "peek"
  /\ snap' = Peek /\ run' = "resume"
  /\ UNCHANGED <<daemonVars, conn, sleeping, open, wire, coordVars, budgets>>

WriteResume ==
  /\ run = "resume"
  /\ Written(Frame("resume", snap))
  /\ snap' = 0 /\ run' = "read"
  /\ UNCHANGED <<daemonVars, conn, sleeping, open, coordVars, budgets>>

\* A write or the read loop fails; clearConn runs, Run backs off and redials.
ConnError ==
  /\ conn # NoSlot /\ ~open[conn]
  /\ conn' = NoSlot /\ run' = "dial" /\ snap' = 0
  /\ UNCHANGED <<daemonVars, sleeping, open, wire, coordVars, budgets>>

\* NotifySuspend: machine_suspending, then a graceful close.  (machine_resumed
\* of the next handshake is a frame type the coordinator ignores.)
NotifySuspend ==
  /\ ~sleeping /\ breaks < MaxBreaks /\ MayFail
  /\ sleeping' = TRUE /\ breaks' = breaks + 1
  /\ Written(Frame("suspending", 0))
  /\ UNCHANGED <<daemonVars, conn, run, snap, open, coordVars, crashes, restarts>>

CloseForSleep ==
  /\ sleeping /\ sleeping' = FALSE
  /\ open' = [k \in Slots |-> open[k] /\ k # conn]
  /\ UNCHANGED <<daemonVars, conn, run, snap, wire, coordVars, budgets>>

\* The daemon process is replaced: registry and allocators are gone.
DaemonRestart ==
  /\ restarts < MaxRestarts /\ MayFail /\ restarts' = restarts + 1
  /\ reg' = "none" /\ n' = 0 /\ pend' = [w \in Workers |-> NoFrame]
  /\ conn' = NoSlot /\ run' = "dial" /\ snap' = 0 /\ sleeping' = FALSE
  /\ open' = [k \in Slots |-> open[k] /\ k # conn]
  /\ UNCHANGED <<alive, wire, coordVars, breaks, crashes>>

\* The network drops a connection; either end notices later.
Break(k) ==
  /\ open[k] /\ breaks < MaxBreaks /\ MayFail
  /\ breaks' = breaks + 1
  /\ open' = [open EXCEPT ![k] = FALSE]
  /\ UNCHANGED <<daemonVars, clientVars, wire, coordVars, crashes, restarts>>
-----------------------------------------------------------------------------
(***************************************************************************)
(* The coordinator: one daemonWS.ServeHTTP goroutine per connection.       *)
(***************************************************************************)
Raised(s, seq) == [s EXCEPT !.LastSeq = IF seq > @ THEN seq ELSE @]

\* PauseAllForMachine.
Paused(s) == IF s.known /\ ~s.Ended THEN [s EXCEPT !.State = "paused"] ELSE s

\* Mutant: a session unknown to the coordinator restarts at 0.
ResumedFromZero(s, seq) ==
  IF s.known THEN [Raised(s, seq) EXCEPT !.State = "running"] ELSE NewSession

\* handleSessionResume.
Resumed(s, seq) ==
  IF s.known THEN [Raised(s, seq) EXCEPT !.State = "running"]
  ELSE Raised(NewSession, seq)

\* The session after Ingestor.Handle of frame f.
Ingested(s, f) ==
  IF f.type = "started" THEN NewSession
  ELSE IF f.type = "resume" THEN Resumed(s, f.seq)
  ELSE IF f.type = "suspending" THEN Paused(s)
  ELSE IF f.type \in SeqTypes /\ s.known
  THEN [Raised(s, f.seq) EXCEPT
          !.State = IF f.type = "data" THEN @ ELSE f.type,
          !.Ended = @ \/ f.type = "ended"]
  ELSE s

\* AdvanceSeq let the frame through to Publish.
Accepts(s, f) == f.type = "data" /\ s.known /\ f.seq > s.LastSeq

HandleSession(k) ==
  LET f == Head(wire[k])
  IN  /\ hand[k] = "registered" /\ wire[k] # <<>>
      /\ f.type # "register"
      /\ sess' = Ingested(sess, f)
      /\ accepted' = IF f.type = "started" THEN <<>>
                     ELSE IF Accepts(sess, f) THEN Append(accepted, f.seq) ELSE accepted
      /\ wire' = [wire EXCEPT ![k] = Tail(@)]
      /\ UNCHANGED <<daemonVars, clientVars, open, hand, machine, budgets>>

\* Mutant: the previous connection is left open.
KeepPrevious(k) == UNCHANGED open

\* machines.Registry.Register closes the previous connection of the machine.
ClosePrevious(k) == open' = [j \in Slots |-> open[j] /\ (j = k \/ j # machine)]

HandleMachineRegister(k) ==
  /\ hand[k] \in {"new", "registered"} /\ wire[k] # <<>>
  /\ Head(wire[k]).type = "register"
  /\ ClosePrevious(k)
  /\ machine' = k
  /\ hand' = [hand EXCEPT ![k] = "registered"]
  /\ wire' = [wire EXCEPT ![k] = Tail(@)]
  /\ UNCHANGED <<daemonVars, clientVars, sess, accepted, budgets>>

\* The first-frame gate closes a connection that starts with another frame.
RejectFirstFrame(k) ==
  /\ hand[k] = "new" /\ wire[k] # <<>>
  /\ Head(wire[k]).type # "register"
  /\ open' = [open EXCEPT ![k] = FALSE]
  /\ wire' = [wire EXCEPT ![k] = <<>>]
  /\ hand' = [hand EXCEPT ![k] = "none"]
  /\ UNCHANGED <<daemonVars, clientVars, machine, sess, accepted, budgets>>

\* The read loop ends; frames still on the wire are lost.
HandlerEOF(k) ==
  /\ hand[k] \in {"new", "registered"} /\ ~open[k]
  /\ hand' = [hand EXCEPT ![k] = IF @ = "registered" THEN "closing" ELSE "none"]
  /\ wire' = [wire EXCEPT ![k] = <<>>]
  /\ UNCHANGED <<daemonVars, clientVars, open, machine, sess, accepted, budgets>>

\* The deferred PauseAllForMachine and ForgetConn.  The machine entry keeps a
\* connection that is closed for good: the slot is free again.
DeferredPause(k) ==
  /\ hand[k] = "closing"
  /\ sess' = Paused(sess)
  /\ hand' = [hand EXCEPT ![k] = "none"]
  /\ machine' = IF machine = k THEN NoSlot ELSE machine
  /\ UNCHANGED <<daemonVars, clientVars, open, wire, accepted, budgets>>

\* The coordinator process is replaced: its registries are gone.
CoordinatorCrash ==
  /\ crashes < MaxCrashes /\ MayFail /\ crashes' = crashes + 1
  /\ sess' = Unknown /\ machine' = NoSlot
  /\ hand' = [k \in Slots |-> "none"]
  /\ open' = [k \in Slots |-> FALSE]
  /\ wire' = [k \in Slots |-> <<>>]
  /\ UNCHANGED <<daemonVars, clientVars, accepted, breaks, restarts>>
-----------------------------------------------------------------------------
DaemonNext ==
  \/ ExtRegister \/ OnEvent \/ Sweep \/ Heartbeat \/ ProcessExit \/ OnEnded \/ TmuxExit
  \/ \E w \in Workers : SendPty(w) \/ Send(w) \/ DropAlloc(w)

ClientNext ==
  \/ \E k \in Slots : Dial(k)
  \/ WriteRegister \/ LiveSnapshot \/ ReadLastSeq \/ WriteResume \/ ConnError
  \/ NotifySuspend \/ CloseForSleep

CoordinatorNext(k) ==
  \/ HandleSession(k) \/ HandleMachineRegister(k) \/ RejectFirstFrame(k)
  \/ HandlerEOF(k) \/ DeferredPause(k)

Next ==
  \/ DaemonNext
  \/ ClientNext
  \/ \E k \in Slots : CoordinatorNext(k) \/ Break(k)
  \/ DaemonRestart
  \/ CoordinatorCrash

Spec == Init /\ [][Next]_vars

\* A pane that prints without end: beyond MaxSeq the numbers are not told apart.
PrintOn(w) ==
  /\ w \in {"tmux", "capture"} /\ reg # "lost"
  /\ pend[w] = NoFrame /\ n = MaxSeq
  /\ pend' = [pend EXCEPT ![w] = Frame("data", n)]
  /\ UNCHANGED <<reg, alive, n, clientVars, open, wire, coordVars, budgets>>

\* Goroutines that can run do run, connMu is handed to each that waits for it, and a
\* dead connection is noticed on both ends (the daemon's 30 s ping, TCP keepalive on
\* the coordinator's listener).
Fairness ==
  /\ \A w \in Workers : SF_vars(Send(w)) /\ WF_vars(DropAlloc(w))
  /\ WF_vars(\E k \in Slots : Dial(k))
  /\ SF_vars(WriteRegister) /\ WF_vars(LiveSnapshot)
  /\ WF_vars(ReadLastSeq) /\ SF_vars(WriteResume)
  /\ WF_vars(ConnError) /\ WF_vars(CloseForSleep)
  /\ \A k \in Slots : WF_vars(CoordinatorNext(k))

EndlessSpec == Init /\ [][Next \/ \E w \in Workers : PrintOn(w)]_vars /\ Fairness
-----------------------------------------------------------------------------
(***************************************************************************)
(* Properties.                                                             *)
(***************************************************************************)
\* What clients receive of a live session keeps increasing seqs through lost
\* connections and coordinator restarts: session_resume carries enough to
\* keep a late or re-sent frame out.
AcceptedInOrder ==
  reg \notin {"ended", "lost"} =>
    \A i, j \in DOMAIN accepted : i < j => accepted[i] < accepted[j]

\* The coordinator never believes to have seen a seq that the daemon has yet
\* to allocate: otherwise the daemon's next frames are dropped as stale.
NeverAhead == Live /\ sess.known => sess.LastSeq <= n

\* A machine has one usable connection once its daemon has registered on it:
\* an older connection that is still open was closed by the take-over.
OneLiveLink ==
  \A k \in Slots : hand[k] = "registered" /\ open[k] => machine = k

\* The session's first life in a daemon that has not restarted: its allocator is
\* the one all its frames were numbered by.
FirstLife == restarts = 0 /\ reg \notin {"ended", "lost"}

\* No number is anywhere ahead of the allocator: in a goroutine, in the handshake,
\* on a connection or in the coordinator; and nobody is about to drop it.
SeqsAllocated ==
  FirstLife =>
    /\ snap <= n /\ sess.LastSeq <= n
    /\ \A w \in Workers : pend[w].seq <= n /\ pend[w].type \notin {"ended", "drop"}
    /\ \A k \in Slots : \A i \in DOMAIN wire[k] : wire[k][i].seq <= n

\* What was published is covered by what the coordinator remembers or, after it
\* forgot, by every session_resume that can still reach it.
ResumeCovers ==
  FirstLife =>
    \A i \in DOMAIN accepted :
      IF sess.known THEN accepted[i] <= sess.LastSeq
      ELSE /\ accepted[i] <= n
           /\ run = "resume" /\ conn # NoSlot /\ open[conn] => accepted[i] <= snap
           /\ \A k \in Slots : \A j \in DOMAIN wire[k] :
                wire[k][j].type = "resume" => accepted[i] <= wire[k][j].seq

\* The inductive invariant: through lost connections, take-overs, suspends and
\* coordinator restarts the seqs of multiplex.go, client.go and ingest.go agree.
IInv ==
  /\ TypeOK /\ OneLiveLink /\ SeqsAllocated /\ ResumeCovers
  /\ restarts = 0 => AcceptedInOrder

\* A frame of a session got ahead of machine_register and the connection was refused.
Refused == \E k \in Slots : RejectFirstFrame(k)

\* A session that lives on is eventually known to the coordinator, whatever was lost
\* before, on start, on reconnect and after a restart of either side, or handshakes are
\* refused again and again: no registration falls between the handshake's snapshot of
\* live sessions (client.go:258) and the session_started of Multiplex.onRegister.
Announced ==
  \/ (Live /\ alive) ~> (sess.known \/ ~Live \/ ~alive)
  \/ []<><<Refused>>_vars

\* Everything written has been handled and the daemon is connected.
Quiescent ==
  /\ run = "read" /\ ~sleeping /\ hand[conn] = "registered" /\ open[conn]
  /\ \A w \in Workers : pend[w] = NoFrame
  /\ \A k \in Slots : wire[k] = <<>> /\ (k # conn => hand[k] = "none")

\* SPEC.md 12.2: "The coordinator mirrors the daemon's view."  A session that
\* ended in the daemon has ended in the coordinator.
EndedIsMirrored == Quiescent /\ reg \in {"ended", "lost"} /\ sess.known => sess.Ended

\* SPEC.md 12.1: "machine resumes, daemon reconnects: back to previous state".
\* A connected daemon's live session is not shown as paused.
LiveIsNotPaused == Quiescent /\ Live /\ alive /\ sess.known => sess.State # "paused"

\* SPEC.md D18: the seq counter is "preserved across daemon restart".  Once a
\* daemon has announced a live session again, its next frames are newer than
\* what the coordinator has seen.
SeqPreserved == Quiescent /\ Live /\ sess.known => sess.LastSeq <= n

\* frames.go:108: machine_register "must be the first JSON frame the daemon
\* writes after the WebSocket open".
RegisterFirst ==
  \A k \in Slots : hand[k] = "new" /\ wire[k] # <<>> => Head(wire[k]).type = "register"
=============================================================================
