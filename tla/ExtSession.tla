----------------------------- MODULE ExtSession -----------------------------
(***************************************************************************)
(* The Pi extension of one session (pi-remote-ext: index.ts, socket.ts,    *)
(* register.ts, heartbeat.ts), the goroutines that serve its connections   *)
(* (internal/socket/conn.go), the session's entry in the daemon's registry *)
(* (internal/session/registry.go) and the daemon's life: accept loop,      *)
(* housekeeping, shutdown and restart (cmd/pi-remote-daemon/main.go).      *)
(*                                                                         *)
(* Registry callbacks run after the registry lock was released and end in  *)
(* a write to the coordinator, so each is a step of its own ("hook") that  *)
(* waits while that write is stuck; the sweep's callback runs under the    *)
(* lock.  A session id is a UUID made by one process, so no second pid     *)
(* claims it and Register accepts.  An extension instance starts once.     *)
(***************************************************************************)
EXTENDS Naturals, Sequences, FiniteSets

CONSTANTS
  Conns,                    \* socket connections that may exist at a time
  NoConn,                   \* no connection
  MaxQueue,                 \* bound on the frames waiting in a connection
  MaxFaults                 \* bound on oversized frames, coordinator links that stop
                            \* draining, tmux exits, failed accepts, daemon stops and
                            \* crashes

ASSUME ExtAssumption ==
  /\ NoConn \notin Conns
  /\ MaxQueue \in Nat \ {0} /\ MaxFaults \in Nat

VARIABLES
  \* extension
  ext,                      \* its DaemonSocket
  link,                     \* the connection of that socket
  registered,               \* events are sent
  waiting,                  \* registerWithDaemon promises not settled
  beating,                  \* startHeartbeat was called
  \* connections
  toDaemon,                 \* per connection: frames the daemon has to read
  ack,                      \* per connection: a register_ack is in flight
  extUp, daemonUp,          \* per connection: that end is not closed
  \* daemon
  serve,                    \* per connection: where Handler.Serve is
  accepted,                 \* the connection acceptLoop holds
  main,                     \* where run is; "deaf" while it waits for a signal and
                            \* nobody accepts any more
  entry, ended,             \* Registry.sessions[id].State, Registry.ended[id]
  sweeping,                 \* SweepHeartbeats is in its callback, lock held
  tmux,                     \* the tmux reader, in handleExitNotification when not up
  stalled,                  \* writes to the coordinator block
  told,                     \* the last announcement to the coordinator
  faults                    \* how many of the bounded failures happened

extVars  == <<ext, link, registered, waiting, beating>>
wires    == <<toDaemon, ack, extUp, daemonUp>>
registry == <<entry, ended, told>>
others   == <<sweeping, tmux, stalled>>
vars == <<extVars, wires, serve, accepted, main, registry, others, faults>>

Frames == {"register", "heartbeat", "event", "oversize", "disconnect", "torn"}

ExtType ==
  /\ ext \in {"idle", "open", "down", "gone"} /\ link \in Conns \cup {NoConn}
  /\ registered \in BOOLEAN /\ waiting \subseteq {"initial", "again"} /\ beating \in BOOLEAN
WireType ==
  /\ toDaemon \in [Conns -> Seq(Frames)] /\ ack \in [Conns -> BOOLEAN]
  /\ extUp \in [Conns -> BOOLEAN] /\ daemonUp \in [Conns -> BOOLEAN]
DaemonType ==
  /\ serve \in [Conns -> {"none", "backlog", "held", "first", "resolve", "register",
                          "started", "ack", "loop", "mark", "ended", "close"}]
  /\ accepted \in Conns \cup {NoConn}
  /\ main \in {"run", "deaf", "ctmux", "drained", "waiting", "stopped"}
  /\ entry \in {"none", "running", "unresponsive", "ended"} /\ ended \in BOOLEAN
  /\ sweeping \in BOOLEAN /\ stalled \in BOOLEAN
  /\ told \in {"none", "started", "ended", "twice"}
  /\ tmux \in {"up", "remove", "ended", "down"}

TypeOK == ExtType /\ WireType /\ DaemonType /\ faults \in 0 .. MaxFaults

Init ==
  /\ ext = "idle" /\ link = NoConn /\ registered = FALSE /\ waiting = {} /\ beating = FALSE
  /\ toDaemon = [c \in Conns |-> <<>>] /\ ack = [c \in Conns |-> FALSE]
  /\ extUp = [c \in Conns |-> FALSE] /\ daemonUp = [c \in Conns |-> FALSE]
  /\ serve = [c \in Conns |-> "none"] /\ accepted = NoConn /\ main = "run"
  /\ entry = "none" /\ ended = FALSE /\ told = "none"
  /\ sweeping = FALSE /\ tmux = "up" /\ stalled = FALSE
  /\ faults = 0
-----------------------------------------------------------------------------
(***************************************************************************)
(* The extension.  DaemonSocket: "idle" before session_start, "open",      *)
(* "down" with the reconnect timer armed, "gone" once it gave up, was      *)
(* closed or its process died.                                             *)
(***************************************************************************)
\* The socket exists: connecting to it succeeds, accepted or not.
Listening == main \in {"run", "deaf"}

Unused(c) == serve[c] = "none" /\ ~extUp[c] /\ ~daemonUp[c]

\* dialWithTimeout and attach, followed by the register frame.
Dial(c) ==
  /\ Listening /\ Unused(c)
  /\ ext' = "open" /\ link' = c
  /\ toDaemon' = [toDaemon EXCEPT ![c] = <<"register">>]
  /\ ack' = [ack EXCEPT ![c] = FALSE]
  /\ extUp' = [extUp EXCEPT ![c] = TRUE]
  /\ daemonUp' = [daemonUp EXCEPT ![c] = TRUE]
  /\ serve' = [serve EXCEPT ![c] = "backlog"]
  /\ UNCHANGED <<registered, beating, accepted, main, registry, others, faults>>

\* onSessionStart: a failed first connect is not repeated.
SessionStart ==
  /\ ext = "idle"
  /\ \/ \E c \in Conns : Dial(c) /\ waiting' = {"initial"}
     \/ /\ ~Listening
        /\ ext' = "gone"
        /\ UNCHANGED <<link, registered, waiting, beating, wires, serve, accepted, main,
                       registry, others, faults>>

\* The reconnect timer; a failed attempt arms it again.  The first promise may
\* still wait, and the new connection's ack will settle both.
Reconnect ==
  /\ ext = "down"
  /\ \E c \in Conns : Dial(c)
  /\ waiting' = waiting \cup {"again"}

RecvAck ==
  /\ ext = "open" /\ ack[link]
  /\ ack' = [ack EXCEPT ![link] = FALSE]
  /\ registered' = (registered \/ waiting # {})
  /\ beating' = (beating \/ "initial" \in waiting)
  /\ waiting' = {}
  /\ UNCHANGED <<ext, link, toDaemon, extUp, daemonUp, serve, accepted, main, registry,
                 others, faults>>

\* socket.close(): the extension is through with the daemon; last is what its
\* final writes left in the connection.
LeaveWith(last) ==
  /\ ext' = "gone" /\ link' = NoConn /\ registered' = FALSE /\ waiting' = {}
  /\ IF link = NoConn
     THEN UNCHANGED <<extUp, toDaemon>>
     ELSE /\ extUp' = [extUp EXCEPT ![link] = FALSE]
          /\ toDaemon' = [toDaemon EXCEPT ![link] = @ \o last]
  /\ UNCHANGED <<beating, ack, daemonUp, serve, accepted, main, registry, others, faults>>

\* 10 s without register_ack: fatal for the first promise, logged for a later one.
InitialTimeout == "initial" \in waiting /\ ext \in {"open", "down"} /\ LeaveWith(<<>>)

AgainTimeout ==
  /\ waiting = {"again"}
  /\ waiting' = {}
  /\ UNCHANGED <<ext, link, registered, beating, wires, serve, accepted, main, registry,
                 others, faults>>

Shutdown == ext \in {"open", "down"} /\ LeaveWith(<<"disconnect">>)

\* The process is killed, perhaps in the middle of a line.
Killed == ext \in {"open", "down"} /\ \E last \in {<<>>, <<"torn">>} : LeaveWith(last)

Write(f) ==
  /\ ext = "open" /\ Len(toDaemon[link]) < MaxQueue
  /\ toDaemon' = [toDaemon EXCEPT ![link] = Append(@, f)]
  /\ UNCHANGED <<extVars, ack, extUp, daemonUp, serve, accepted, main, registry, others>>

Fault == faults < MaxFaults /\ faults' = faults + 1

SendHeartbeat == beating /\ Write("heartbeat") /\ UNCHANGED faults

SendEvent ==
  /\ registered
  /\ \/ Write("event") /\ UNCHANGED faults
     \/ Write("oversize") /\ Fault

\* 'close' on the socket: emit disconnected, arm the reconnect timer.
SeeClose ==
  /\ ext = "open" /\ ~daemonUp[link]
  /\ ext' = "down" /\ link' = NoConn /\ registered' = FALSE
  /\ extUp' = [extUp EXCEPT ![link] = FALSE]
  /\ UNCHANGED <<waiting, beating, toDaemon, ack, daemonUp, serve, accepted, main, registry,
                 others, faults>>
-----------------------------------------------------------------------------
(***************************************************************************)
(* acceptLoop and Handler.Serve.                                           *)
(***************************************************************************)
Goto(c, pc) == serve' = [serve EXCEPT ![c] = pc]
Pop(c) == toDaemon' = [toDaemon EXCEPT ![c] = Tail(@)]
ServeOnly == UNCHANGED <<extVars, accepted, main, others, faults>>

Accept(c) ==
  /\ main = "run" /\ accepted = NoConn /\ serve[c] = "backlog"
  /\ accepted' = c /\ Goto(c, "held")
  /\ UNCHANGED <<extVars, wires, main, registry, others, faults>>

\* Any other error of Accept than net.ErrClosed (no file descriptor is left, say): the
\* loop returns, and the listener stays open.
AcceptFails ==
  /\ main = "run" /\ accepted = NoConn /\ Fault /\ main' = "deaf"
  /\ UNCHANGED <<extVars, wires, serve, accepted, registry, others>>

\* conns.add, wg.Add and go Serve.
StartServe(c) ==
  /\ accepted = c
  /\ accepted' = NoConn /\ Goto(c, "first")
  /\ UNCHANGED <<extVars, wires, main, registry, others, faults>>

AtEnd(c) == ~daemonUp[c] \/ (~extUp[c] /\ toDaemon[c] = <<>>)

ReadFirst(c) ==
  /\ serve[c] = "first"
  /\ \/ /\ daemonUp[c] /\ toDaemon[c] # <<>>
        /\ Goto(c, IF Head(toDaemon[c]) = "register" THEN "resolve" ELSE "close")
        /\ Pop(c)
     \/ AtEnd(c) /\ Goto(c, "close") /\ UNCHANGED toDaemon
  /\ UNCHANGED <<ack, extUp, daemonUp, registry>> /\ ServeOnly

\* ResolveAndMap asks tmux; its errors are logged and the target kept.
Resolve(c) ==
  /\ serve[c] = "resolve" /\ Goto(c, "register")
  /\ UNCHANGED <<wires, registry>> /\ ServeOnly

Register(c) ==
  /\ serve[c] = "register" /\ ~sweeping
  /\ entry' = "running"
  /\ Goto(c, IF entry = "none" THEN "started" ELSE "ack")
  /\ UNCHANGED <<wires, ended, told>> /\ ServeOnly

OnRegister(c) ==
  /\ serve[c] = "started" /\ ~stalled
  /\ told' = "started" /\ Goto(c, "ack")
  /\ UNCHANGED <<wires, entry, ended>> /\ ServeOnly

\* A failed write returns ("", false): Serve drops the connection and leaves
\* the entry as it is.
WriteAck(c) ==
  /\ serve[c] = "ack"
  /\ IF extUp[c] /\ daemonUp[c]
     THEN ack' = [ack EXCEPT ![c] = TRUE] /\ Goto(c, "loop")
     ELSE Goto(c, "close") /\ UNCHANGED ack
  /\ UNCHANGED <<toDaemon, extUp, daemonUp, registry>> /\ ServeOnly

\* The part RemoveWithReason and MarkEnded share: the callback fires unless it
\* already did for this id.
Ends == entry # "none" /\ ~ended

RemoveWithReason == entry' = "none" /\ ended' = (ended \/ Ends)
MarkEndedNoFlag == entry' = (IF Ends THEN "ended" ELSE entry) /\ ended' = ended
MarkEnded == entry' = (IF Ends THEN "ended" ELSE entry) /\ ended' = (ended \/ Ends)

HeartbeatIgnored(c) ==
  /\ ~sweeping
  /\ entry = "unresponsive" => ~stalled
  /\ entry' = (IF entry = "unresponsive" THEN "running" ELSE entry)
  /\ UNCHANGED <<serve, ended>>

Heartbeat(c) ==
  /\ ~sweeping
  /\ entry = "unresponsive" => ~stalled      \* OnStateChange is called
  /\ entry' = (IF entry = "unresponsive" THEN "running" ELSE entry)
  /\ Goto(c, IF entry = "none" THEN "close" ELSE "loop")
  /\ UNCHANGED ended

Disconnect(c) ==
  /\ ~sweeping /\ RemoveWithReason
  /\ Goto(c, IF Ends THEN "ended" ELSE "close")

\* One frame of the read loop.  A line that is not JSON ends Serve like a
\* disconnect.
Dispatch(c) ==
  /\ serve[c] = "loop" /\ daemonUp[c] /\ toDaemon[c] # <<>>
  /\ Pop(c)
  /\ LET f == Head(toDaemon[c]) IN
       \/ f = "heartbeat" /\ Heartbeat(c)
       \/ f = "event" /\ ~stalled /\ UNCHANGED <<serve, entry, ended>>
       \/ f = "disconnect" /\ Disconnect(c)
       \/ f = "torn" /\ Goto(c, "close") /\ UNCHANGED <<entry, ended>>
  /\ UNCHANGED <<ack, extUp, daemonUp, told>> /\ ServeOnly

CloseBeforeMark(c) ==
  /\ serve[c] = "loop" /\ daemonUp[c] /\ toDaemon[c] # <<>> /\ Head(toDaemon[c]) = "oversize"
  /\ Goto(c, "mark") /\ Pop(c)
  /\ daemonUp' = [daemonUp EXCEPT ![c] = FALSE]
  /\ UNCHANGED <<ack, extUp, registry>> /\ ServeOnly

\* A line longer than maxFrameSize stops the scanner.
ScanTooLong(c) ==
  /\ serve[c] = "loop" /\ daemonUp[c] /\ toDaemon[c] # <<>> /\ Head(toDaemon[c]) = "oversize"
  /\ Goto(c, "mark") /\ Pop(c)
  /\ UNCHANGED <<ack, extUp, daemonUp, registry>> /\ ServeOnly

ReadEnd(c) ==
  /\ serve[c] = "loop" /\ AtEnd(c) /\ Goto(c, "mark")
  /\ UNCHANGED <<wires, registry>> /\ ServeOnly

MarkStep(c) ==
  /\ serve[c] = "mark" /\ ~sweeping
  /\ MarkEnded
  /\ Goto(c, IF Ends THEN "ended" ELSE "close")
  /\ UNCHANGED <<wires, told>> /\ ServeOnly

Announce == told' = IF told = "ended" THEN "twice" ELSE "ended"

OnEnded(c) ==
  /\ serve[c] = "ended" /\ ~stalled
  /\ Announce /\ Goto(c, "close")
  /\ UNCHANGED <<wires, entry, ended>> /\ ServeOnly

\* The deferred Close, conns.remove and wg.Done.
CloseConn(c) ==
  /\ serve[c] = "close"
  /\ Goto(c, "none")
  /\ daemonUp' = [daemonUp EXCEPT ![c] = FALSE]
  /\ toDaemon' = [toDaemon EXCEPT ![c] = <<>>]
  /\ UNCHANGED <<ack, extUp, registry>> /\ ServeOnly
-----------------------------------------------------------------------------
(***************************************************************************)
(* Housekeeping, the tmux reader and the link to the coordinator.          *)
(***************************************************************************)
Quiet == UNCHANGED <<extVars, wires, serve, accepted, main>>
Running == main # "stopped"

SweepServed ==
  /\ Running /\ ~sweeping /\ entry = "running" /\ \E c \in Conns : serve[c] = "loop"
  /\ entry' = "unresponsive" /\ sweeping' = TRUE
  /\ Quiet /\ UNCHANGED <<ended, told, tmux, stalled, faults>>

\* A running session is found silent; the callback runs with the lock held.
Sweep ==
  /\ Running /\ ~sweeping /\ entry = "running"
  /\ entry' = "unresponsive" /\ sweeping' = TRUE
  /\ Quiet /\ UNCHANGED <<ended, told, tmux, stalled, faults>>

SweepDone ==
  /\ sweeping /\ ~stalled /\ sweeping' = FALSE
  /\ Quiet /\ UNCHANGED <<registry, tmux, stalled, faults>>

ReapEnded ==
  /\ Running /\ ~sweeping /\ entry = "ended" /\ entry' = "none"
  /\ Quiet /\ UNCHANGED <<ended, told, others, faults>>

\* handleExitNotification: the snapshot of live sessions, then RemoveWithReason.
\* Nothing starts the tmux client again.
TmuxExit ==
  /\ Running /\ ~sweeping /\ tmux = "up" /\ Fault
  /\ tmux' = (IF entry \in {"running", "unresponsive"} THEN "remove" ELSE "down")
  /\ Quiet /\ UNCHANGED <<registry, sweeping, stalled>>

TmuxRemove ==
  /\ tmux = "remove" /\ ~sweeping /\ RemoveWithReason
  /\ tmux' = (IF Ends THEN "ended" ELSE "down")
  /\ Quiet /\ UNCHANGED <<told, sweeping, stalled, faults>>

TmuxOnEnded ==
  /\ tmux = "ended" /\ ~stalled /\ tmux' = "down" /\ Announce
  /\ Quiet /\ UNCHANGED <<entry, ended, sweeping, stalled, faults>>

Stall ==
  /\ Running /\ ~stalled /\ Fault
  /\ stalled' = TRUE
  /\ Quiet /\ UNCHANGED <<registry, sweeping, tmux>>

\* The keepalive ping of runOnce times out and closes the connection, on which
\* the blocked write returns.  It runs until the client is cancelled.
PingFails ==
  /\ stalled /\ Running /\ stalled' = FALSE
  /\ Quiet /\ UNCHANGED <<registry, sweeping, tmux, faults>>
-----------------------------------------------------------------------------
(***************************************************************************)
(* The daemon process: run, from the signal to its return, and a restart.  *)
(***************************************************************************)
Signal ==
  /\ Listening /\ Fault
  /\ main' = "ctmux"
  \* ln.Close resets what nobody accepted
  /\ serve' = [c \in Conns |-> IF serve[c] = "backlog" THEN "none" ELSE serve[c]]
  /\ daemonUp' = [c \in Conns |-> daemonUp[c] /\ serve[c] # "backlog"]
  /\ UNCHANGED <<extVars, toDaemon, ack, extUp, accepted, registry, others>>

AcceptNotAwaited ==
  /\ main = "ctmux" /\ main' = "drained"
  /\ UNCHANGED <<extVars, wires, serve, accepted, registry, others, faults>>

\* acceptLoop returns on net.ErrClosed once it has started what it holds, or has returned.
AcceptDone ==
  /\ main = "ctmux" /\ accepted = NoConn /\ main' = "drained"
  /\ UNCHANGED <<extVars, wires, serve, accepted, registry, others, faults>>

CloseAll ==
  /\ main = "drained" /\ main' = "waiting"
  /\ daemonUp' = [c \in Conns |-> daemonUp[c] /\ serve[c] \in {"none", "held"}]
  /\ UNCHANGED <<extVars, toDaemon, ack, extUp, serve, accepted, registry, others, faults>>

\* wg.Wait, then coordCancel and the end of the process.
Exit ==
  /\ main' = "stopped"
  /\ entry' = "none" /\ ended' = FALSE /\ told' = "none"
  /\ sweeping' = FALSE /\ tmux' = "up" /\ stalled' = FALSE
  /\ serve' = [c \in Conns |-> "none"]
  /\ daemonUp' = [c \in Conns |-> FALSE]
  /\ toDaemon' = [c \in Conns |-> <<>>]
  /\ accepted' = NoConn
  /\ UNCHANGED <<extVars, ack, extUp>>

WaitAll ==
  /\ main = "waiting" /\ \A c \in Conns : serve[c] = "none"
  /\ Exit /\ UNCHANGED faults

DaemonCrash == Running /\ Fault /\ Exit

Restart ==
  /\ main = "stopped" /\ main' = "run"
  /\ UNCHANGED <<extVars, wires, serve, accepted, registry, others, faults>>
-----------------------------------------------------------------------------
ServeStep(c) ==
  \/ StartServe(c) \/ ReadFirst(c) \/ Resolve(c) \/ Register(c) \/ OnRegister(c)
  \/ WriteAck(c) \/ Dispatch(c) \/ ScanTooLong(c) \/ ReadEnd(c) \/ MarkStep(c) \/ OnEnded(c) \/ CloseConn(c)

Next ==
  \/ SessionStart \/ Reconnect \/ RecvAck \/ InitialTimeout \/ AgainTimeout
  \/ Shutdown \/ Killed \/ SendHeartbeat \/ SendEvent \/ SeeClose
  \/ AcceptFails \/ \E c \in Conns : Accept(c) \/ ServeStep(c)
  \/ Sweep \/ SweepDone \/ ReapEnded \/ TmuxExit \/ TmuxRemove \/ TmuxOnEnded \/ Stall \/ PingFails
  \/ Signal \/ AcceptDone \/ CloseAll \/ WaitAll \/ DaemonCrash \/ Restart

\* Goroutines that can run do, timers fire, and the supervisor starts the
\* daemon again.  Nothing is assumed of the user, of failures or of shutdown.  The
\* heartbeat's timer does not wait for room (Node buffers), hence SF under MaxQueue.
Fairness ==
  /\ WF_vars(Reconnect) /\ WF_vars(RecvAck) /\ SF_vars(SendHeartbeat) /\ WF_vars(SeeClose)
  /\ WF_vars(Sweep) /\ WF_vars(SweepDone) /\ WF_vars(TmuxRemove \/ TmuxOnEnded) /\ WF_vars(PingFails)
  /\ WF_vars(AcceptDone) /\ WF_vars(CloseAll) /\ WF_vars(WaitAll) /\ WF_vars(Restart)
  /\ \A c \in Conns : WF_vars(Accept(c)) /\ WF_vars(ServeStep(c))

Spec == Init /\ [][Next]_vars
FairSpec == Spec /\ Fairness
-----------------------------------------------------------------------------
Live == entry \in {"running", "unresponsive"}
Served == ext = "open" /\ serve[link] = "loop"

\* While Serve reads the extension's current connection its session is not marked
\* ended: a connection is closed only after MarkEnded, so an old connection never
\* ends the session of the new one (conn.go Serve, registry.go MarkEnded).
ConnectedIsLive == Served => entry # "ended"

\* OnEnded announces no session twice, whichever of disconnect, a dropped
\* connection and the tmux reader get to it (registry.go, the ended map).
EndedAtMostOnce == told # "twice"

\* An extension that has not given up is served again and again, with its session
\* in the registry: a lost registry entry, a stuck coordinator link, a daemon
\* restart are all recovered from (heartbeat for an unknown session, reconnect).  Not so
\* an accept that failed: the daemon runs on and serves no new connection.
Heals == []<>(ext \in {"idle", "gone"} \/ (Served /\ Live) \/ main = "deaf")

\* A session whose extension is gone does not stay running: what Serve left in the
\* registry, because the ack or the last line failed, the sweep finds.
GhostSettles == (ext = "gone") ~> (entry # "running")

\* A signalled daemon returns from run: no Serve goroutine is left for wg.Wait
\* to wait on, not even of a connection accepted while the listener closed.
ShutdownCompletes == (main = "ctmux") ~> (main = "stopped")

\* OnEnded is "fired exactly once per session ending" (registry.go:92-94): a step
\* that takes a live session out, other than the end of the daemon, leads to
\* the callback.
EndingFires ==
  [][Live /\ ~Live' /\ main' # "stopped" =>
       \/ \E c \in Conns : serve[c] # "ended" /\ serve'[c] = "ended"
       \/ tmux = "remove" /\ tmux' = "ended"]_vars
-----------------------------------------------------------------------------
(***************************************************************************)
(* The inductive invariant.                                                *)
(***************************************************************************)
\* Serve goroutines: while the extension is connected only its own connection has
\* one, and it dials a running daemon only when none is left (socket.ts waits for
\* 'close'; conn.go closes last).
OneServe ==
  /\ ext = "open" => link \in Conns /\ \A c \in Conns : serve[c] # "none" => c = link
  /\ ext \in {"idle", "down"} /\ Listening => \A c \in Conns : serve[c] = "none"
  /\ Listening => \A c \in Conns : serve[c] # "none" => daemonUp[c]
  /\ main = "stopped" => accepted = NoConn /\ \A c \in Conns : serve[c] = "none"
  /\ accepted # NoConn => serve[accepted] = "held"

\* From Register on, the extension's session is not marked ended.
LiveOnceRegistered ==
  ext = "open" /\ serve[link] \in {"started", "ack", "loop"} => entry # "ended"

\* Who found the session alive is the only one to announce its end, and has not yet.
OneAnnouncer ==
  /\ told # "twice"
  /\ told = "ended" => ended
  /\ tmux = "ended" => ended /\ told # "ended" /\ \A c \in Conns : serve[c] # "ended"
  /\ \A c \in Conns : serve[c] = "ended" =>
       ended /\ told # "ended" /\ \A d \in Conns : serve[d] = "ended" => d = c

\* Goroutines of conn.go, the entry of registry.go and the callbacks together.
IInv == TypeOK /\ OneServe /\ LiveOnceRegistered /\ OneAnnouncer
=============================================================================
