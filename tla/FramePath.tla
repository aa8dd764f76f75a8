----------------------------- MODULE FramePath -----------------------------
(***************************************************************************)
(* One session's frames hop by hop: what the extension writes, what the    *)
(* daemon builds from it, what the coordinator makes of that for apps and  *)
(* devices, and the frames of an app on their way down.  Every hop builds  *)
(* a record field by field and the next one decodes it with a generated    *)
(* decoder; a frame the coordinator cannot decode costs the daemon its     *)
(* connection, one the daemon cannot decode is lost.                       *)
(*                                                                         *)
(* The extension may be of another version than the daemon: it may send a  *)
(* kind the daemon does not know, or leave fields out.  Handlers are       *)
(* atomic here: ExtSession, DaemonLink, SpawnFlow, SessionFanout and       *)
(* AppHub take apart the interleavings of the same operations.             *)
(***************************************************************************)
EXTENDS WireSchemas, Sequences, FiniteSets

CONSTANTS
  MaxInputs,                \* bound on the frames and events from outside
  MaxUp,                    \* bound on the frames under way to the coordinator
  RingCap                   \* entries the ring keeps: its byte limit

ASSUME FramePathAssumption ==
  MaxInputs \in Nat /\ MaxUp \in Nat \ 0 .. 3 /\ RingCap \in Nat \ {0}

VARIABLES
  served,                   \* the extension's connection: "none" "first" "loop"
  entry, ended,             \* daemon registry: the session's state or "none"; ended[id]
  seq,                      \* Multiplex.seqs: last number allocated
  link,                     \* the daemon's WebSocket: "down" "open" "up" "closing"
  resumePending,
  up, down,                 \* frames under way between daemon and coordinator
  registered, mach,         \* connState.registered; Machine.State
  sess,                     \* coordinator's session, or NoSession
  app,                      \* the app's connection: [hello, subscribed, attached]
  spawning,                 \* clientWS.spawns holds the request
  \* what the last step sent, and history
  toApp, toDevice,          \* frames queued for the app, payloads sealed for the device
  malformed,                \* types of the frames Handle refused as malformed
  inputs

daemon == <<served, entry, ended, seq>>
wire   == <<link, resumePending, up, down>>
coord  == <<registered, mach, sess, app, spawning>>
vars   == <<daemon, wire, coord, toApp, toDevice, malformed, inputs>>

Id == "s1"
Machine == "m1"
Device == "c1"
Request == "r1"
Text == "text"             \* free text
Now == 1                    \* a clock reading, in milliseconds
NoSession == [state |-> "none"]
NoApp == [hello |-> FALSE, subscribed |-> FALSE, attached |-> FALSE]

TypeOK ==
  /\ served \in {"none", "first", "loop"} /\ ended \in BOOLEAN
  /\ entry \in {"none", "running", "unresponsive", "ended"} /\ seq \in Nat
  /\ link \in {"down", "open", "up", "closing"} /\ resumePending \in BOOLEAN
  /\ Len(up) <= MaxUp /\ Len(down) <= 1 /\ (link = "down" => up = <<>> /\ down = <<>>)
  /\ registered \in BOOLEAN /\ mach \in {"none", "online", "suspended"}
  /\ sess.state \in SessionStates \cup {"none"}
  /\ sess # NoSession => Len(sess.ring) <= RingCap /\ sess.latest <= sess.last
  /\ app \in [hello : BOOLEAN, subscribed : BOOLEAN, attached : BOOLEAN]
  /\ spawning \in BOOLEAN
  /\ inputs \in 0 .. MaxInputs

Init ==
  /\ served = "none" /\ entry = "none" /\ ended = FALSE /\ seq = 0
  /\ link = "down" /\ resumePending = FALSE /\ up = <<>> /\ down = <<>>
  /\ registered = FALSE /\ mach = "none" /\ sess = NoSession
  /\ app = NoApp /\ spawning = FALSE
  /\ toApp = {} /\ toDevice = {} /\ malformed = {} /\ inputs = 0

Input == inputs < MaxInputs /\ inputs' = inputs + 1
Silent == toApp' = {} /\ toDevice' = {}
-----------------------------------------------------------------------------
(***************************************************************************)
(* What the extension writes.                                              *)
(***************************************************************************)
buildRegister ==
  [type |-> "register", v |-> 1, session_id |-> Id, cwd |-> Text, project_name |-> Text,
   tmux_target |-> Text, pid |-> 1, hostname |-> Text, model |-> Text, started_at |-> Now]

ExtEvent(kind) == [type |-> "event", v |-> 1, kind |-> kind, ts |-> Now, data |-> Free]

\* EVENTS_TABLE: Pi's event names; a tool that ended without an error is not sent.
Project(name) ==
  IF name = "extension_ui_request" THEN {ExtEvent("attention_dialog")}
  ELSE IF name = "tool_execution_end" THEN {ExtEvent("tool_failure")}
  ELSE IF name = "tool_execution_ok" THEN {} ELSE {ExtEvent(name)}

PiEventNames == {"agent_start", "agent_end", "extension_ui_request", "tool_execution_end",
                 "tool_execution_ok", "queue_update", "model_select", "compaction_start",
                 "compaction_end", "extension_error"}

\* Of another version: a kind unknown here, no clock and no data, no kind at all.  A ts
\* that is there is a clock reading after 1970: see LinkNotRefused.
OtherVersions ==
  {ExtEvent("tool_progress"), [type |-> "event", v |-> 2, kind |-> "agent_start"],
   [type |-> "event", v |-> 2, ts |-> Now, data |-> Free]}

ExtEvents == (UNION {Project(n) : n \in PiEventNames}) \cup OtherVersions

Registers == {buildRegister, [buildRegister EXCEPT !.pid = 0],
              [k \in DOMAIN buildRegister \ {"model"} |-> buildRegister[k]]}
-----------------------------------------------------------------------------
(***************************************************************************)
(* What the daemon builds.                                                 *)
(***************************************************************************)
NewMachineRegister ==
  [type |-> "machine_register", v |-> 1, machine_id |-> Machine,
   machine_display_name |-> Text, daemon_version |-> Text,
   capabilities |-> {"spawn", "mirror"}]

Metadata == [cwd |-> Text, project_name |-> Text, hostname |-> Text, model |-> Text,
             started_at |-> Now]

NewSessionStarted ==
  [type |-> "session_started", v |-> 1, session_id |-> Id, machine_id |-> Machine,
   metadata |-> Metadata]

\* A missing data map becomes an empty one.
NewSessionEvent(n, kind, ts) ==
  [type |-> "session_event", v |-> 1, session_id |-> Id, seq |-> n, kind |-> kind,
   ts |-> ts, data |-> Free]

StateChange(n, from, to) ==
  [type |-> "session_state_change", v |-> 1, session_id |-> Id, seq |-> n, ts |-> Now,
   from |-> from, to |-> to]

PtyFrame(n) ==
  [type |-> "session_pty", v |-> 1, session_id |-> Id, seq |-> n, bytes |-> Text, ts |-> Now]

\* FrameBuilder.SessionEnded: the reasons of the schema as they are, any other one by
\* the way the session ended.
EndedReason(kind, reason) ==
  IF reason \in {"tmux_server_lost", "killed", "spawn_failed"} THEN reason
  ELSE IF kind = "implicit" THEN "process_exit" ELSE "extension_disconnect"

NewSessionEnded(n, kind, reason) ==
  [type |-> "session_ended", v |-> 1, session_id |-> Id, seq |-> n,
   reason |-> EndedReason(kind, reason)]

NewSessionResume(n) ==
  [type |-> "session_resume", v |-> 1, session_id |-> Id, last_seq_emitted |-> n,
   metadata |-> Metadata]

\* Neither carries the ts of its schema, and neither is decoded.
MachineSuspending == [type |-> "machine_suspending", v |-> 1]
MachineResumed == [type |-> "machine_resumed", v |-> 1]

SpawnAnswer(success) ==
  IF success
  THEN [type |-> "spawn_response", v |-> 1, request_id |-> Request, success |-> TRUE,
        session_id |-> Id, tmux_target |-> Text]
  ELSE [type |-> "spawn_response", v |-> 1, request_id |-> Request, success |-> FALSE,
        error |-> Text]

\* Mutant: unknown kinds are left to the coordinator, as the comment above the call says.
AnyKindKnown(kind) == TRUE

isKnownEventKind(kind) ==
  kind \in {"agent_start", "agent_end", "attention_dialog", "compaction_start",
            "compaction_end", "extension_error", "model_select", "queue_update",
            "tool_failure"}

\* Connected() and Send; the frames of one handler fit into the connection.
Emit(frames) ==
  IF link \notin {"open", "up"} THEN up' = up
  ELSE Len(up) + Len(frames) <= MaxUp /\ up' = up \o frames
-----------------------------------------------------------------------------
(***************************************************************************)
(* Handler.Serve and the registry's hooks.                                 *)
(***************************************************************************)
DaemonRest == UNCHANGED <<link, resumePending, down, coord, malformed>> /\ Silent

Dials == served = "none" /\ served' = "first" /\ Input
         /\ UNCHANGED <<entry, ended, seq, up>> /\ DaemonRest

\* handleRegister: a frame that does not decode ends the connection.  Registry.Register
\* announces a session it did not know.
handleRegister(f) ==
  /\ served = "first" /\ Input
  /\ IF ~Decodes(RegisterJson, f)
     THEN served' = "none" /\ UNCHANGED <<entry, up>>
     ELSE /\ served' = "loop" /\ entry' = "running"
          /\ IF entry = "none" THEN Emit(<<NewSessionStarted>>) ELSE up' = up
  /\ UNCHANGED <<ended, seq>> /\ DaemonRest

\* onEvent: no kind or an unknown one is dropped without a number; no clock is now.
onEvent(f) ==
  /\ served = "loop" /\ Input
  /\ IF "kind" \notin DOMAIN f \/ ~isKnownEventKind(f.kind)
     THEN UNCHANGED <<seq, up>>
     ELSE /\ seq' = seq + 1
          /\ Emit(<<NewSessionEvent(seq', f.kind, IF "ts" \in DOMAIN f THEN f.ts ELSE Now)>>)
  /\ UNCHANGED <<served, entry, ended>> /\ DaemonRest

\* UpdateHeartbeat: an unknown session ends the connection, an unresponsive one recovers.
Heartbeat(f) ==
  /\ served = "loop" /\ Input /\ Decodes(HeartbeatJson, f)
  /\ served' = IF entry = "none" THEN "none" ELSE "loop"
  /\ IF entry = "unresponsive"
     THEN /\ entry' = "running" /\ seq' = seq + 1
          /\ Emit(<<StateChange(seq', "unresponsive", "running")>>)
     ELSE UNCHANGED <<entry, seq, up>>
  /\ UNCHANGED ended /\ DaemonRest

\* onEnded: the last number, and the allocator is dropped.  Once per id.
onEnded(kind, reason) ==
  IF entry = "none" \/ ended THEN UNCHANGED <<ended, seq, up>>
  ELSE ended' = TRUE /\ seq' = 0 /\ Emit(<<NewSessionEnded(seq + 1, kind, reason)>>)

\* RemoveWithReason, with the reason of the frame; a reason that does not decode only
\* ends the connection.
Disconnect(reason) ==
  LET f == [type |-> "disconnect", reason |-> reason] IN
  /\ served = "loop" /\ Input /\ served' = "none"
  /\ IF Decodes(DisconnectJson, f)
     THEN entry' = "none" /\ onEnded("explicit", reason)
     ELSE UNCHANGED <<entry, ended, seq, up>>
  /\ DaemonRest

\* The connection ends without one: MarkEnded.
ConnectionCloses ==
  /\ served = "loop" /\ Input /\ served' = "none"
  /\ entry' = IF entry = "none" \/ ended THEN entry ELSE "ended"
  /\ onEnded("implicit", "") /\ DaemonRest

TmuxExit ==
  /\ entry # "none" /\ Input /\ entry' = "none"
  /\ onEnded("explicit", "tmux_server_lost")
  /\ UNCHANGED served /\ DaemonRest

Sweep ==
  /\ entry = "running" /\ Input /\ entry' = "unresponsive" /\ seq' = seq + 1
  /\ Emit(<<StateChange(seq', "running", "unresponsive")>>)
  /\ UNCHANGED <<served, ended>> /\ DaemonRest

Reap == entry = "ended" /\ entry' = "none" /\ UNCHANGED <<served, ended, seq, up, inputs>>
        /\ DaemonRest

\* SendPty, whatever the registry knows of the session.
SendPty ==
  /\ Input /\ seq' = seq + 1 /\ Emit(<<PtyFrame(seq')>>)
  /\ UNCHANGED <<served, entry, ended>> /\ DaemonRest
-----------------------------------------------------------------------------
(***************************************************************************)
(* The daemon's WebSocket.                                                 *)
(***************************************************************************)
\* setConn: from here on the hooks send, before the handshake has.
SetConn ==
  /\ link = "down" /\ Input /\ link' = "open"
  /\ UNCHANGED <<daemon, resumePending, up, down, coord, malformed>> /\ Silent

\* handshake.  LiveSessions leaves out ended sessions and those whose process is gone.
Handshake ==
  /\ link = "open" /\ link' = "up" /\ resumePending' = FALSE
  /\ \E alive \in BOOLEAN :
       Emit(<<NewMachineRegister>> \o
            (IF alive /\ entry \in {"running", "unresponsive"}
             THEN <<NewSessionResume(seq)>> ELSE <<>>) \o
            (IF resumePending THEN <<MachineResumed>> ELSE <<>>))
  /\ UNCHANGED <<daemon, down, coord, malformed, inputs>> /\ Silent

\* NotifySuspend: the frame, then a graceful close.
NotifySuspend ==
  /\ Input /\ resumePending' = TRUE
  /\ Emit(<<MachineSuspending>>)
  /\ link' = IF link = "down" THEN link ELSE "closing"
  /\ UNCHANGED <<daemon, down, coord, malformed>> /\ Silent

\* readLoop: a frame that does not decode is skipped.  Every spawn is answered.
ReadFrame ==
  /\ down # <<>> /\ down' = Tail(down)
  /\ IF Head(down).type = "spawn_request" /\ DownFrameDecodes(Head(down))
     THEN \E success \in BOOLEAN : Emit(<<SpawnAnswer(success)>>)
     ELSE up' = up
  /\ UNCHANGED <<daemon, link, resumePending, coord, malformed, inputs>> /\ Silent
-----------------------------------------------------------------------------
(***************************************************************************)
(* What the coordinator sends.                                             *)
(***************************************************************************)
MachineListFrame(m, s) ==
  LET elem == [session_id |-> Id, state |-> s.state,
               metadata |-> IF s = NoSession THEN Free ELSE s.meta]
      state == IF m = "suspended" THEN "suspended" ELSE "online"
  IN  [type |-> "machine_list", v |-> 1,
       machines |-> IF m = "none" THEN {}
                    ELSE {[machine_id |-> Machine, machine_display_name |-> Text,
                           state |-> state,
                           sessions |-> IF s = NoSession THEN {} ELSE {elem}]}]

\* notifyChange: the list as it is now, to a subscribed app.
Listed == IF app.subscribed THEN {MachineListFrame(mach', sess')} ELSE {}

\* Session.Broadcast and Publish, to an attached app.
Live(f) == IF app.attached THEN {f} ELSE {}

\* Mutant: the daemon's frame is passed on, without machine_id.
StateChangeRaw(from, to) ==
  [type |-> "session_state_change", v |-> 1, session_id |-> Id, from |-> from, to |-> to]

forwardStateChange(from, to) ==
  [type |-> "session_state_change", v |-> 1, session_id |-> Id, machine_id |-> Machine,
   from |-> from, to |-> to]

forwardEnded(reason) ==
  [type |-> "session_ended", v |-> 1, session_id |-> Id, machine_id |-> Machine,
   reason |-> reason]

ReplayUnavailable(s) ==
  [type |-> "replay_unavailable", v |-> 1, session_id |-> Id,
   earliest_available_seq |-> s.earliest, current_seq |-> s.latest]

SpawnResponse(success) ==
  IF success
  THEN [type |-> "spawn_response", v |-> 1, request_id |-> Request, success |-> TRUE,
        session_id |-> Id]
  ELSE [type |-> "spawn_response", v |-> 1, request_id |-> Request, success |-> FALSE,
        error |-> Text]

PushPayload(reason) ==
  [v |-> 1, kind |-> "needs_attention", machine_id |-> Machine,
   machine_display_name |-> Text, session_id |-> Id, project_name |-> Text,
   reason |-> reason, summary |-> Text, ts |-> Now, deep_link |-> "pi-remote://"]

pushEventReasons ==
  [attention_dialog |-> "extension_dialog", tool_failure |-> "tool_failure",
   queue_update |-> "queue_update", extension_error |-> "extension_error",
   compaction_end |-> "compaction_complete"]

\* Reasons Dispatch knows: the keys of defaultReasonEnabled.
ValidReason(reason) ==
  reason \in {"agent_idle", "extension_dialog", "tool_failure", "queue_update",
              "compaction_complete", "extension_error", "unresponsive", "session_ended",
              "machine_suspended"}

\* notifyPush and Dispatch, to one device that wants every push and looks at nothing.
NotifyPush(reasons) ==
  /\ toDevice' = {PushPayload(r) : r \in {q \in reasons : sess # NoSession /\ ValidReason(q)}}
  /\ UNCHANGED malformed

NoPush == toDevice' = {} /\ UNCHANGED malformed
-----------------------------------------------------------------------------
(***************************************************************************)
(* Ingestor.Handle, one frame.                                             *)
(***************************************************************************)
Gate(f) == registered \/ f.type = "machine_register"

Reads(type) ==
  /\ up # <<>> /\ Head(up).type = type /\ Gate(Head(up)) /\ UpFrameDecodes(Head(up))
  /\ up' = Tail(up)

CoordRest == UNCHANGED <<daemon, link, resumePending, down, inputs>>

handleMachineRegister ==
  /\ Reads("machine_register") /\ registered' = TRUE /\ mach' = "online"
  /\ UNCHANGED <<sess, app, spawning>> /\ toApp' = Listed /\ NoPush /\ CoordRest

Registered(meta, last) ==
  [state |-> "running", ended |-> FALSE, meta |-> meta, last |-> last,
   ring |-> <<>>, earliest |-> 0, latest |-> 0]

\* Register replaces the entry, and with it the clients attached to it.
handleSessionStarted ==
  /\ Reads("session_started") /\ sess' = Registered(Head(up).metadata, 0)
  /\ app' = [app EXCEPT !.attached = FALSE]
  /\ UNCHANGED <<registered, mach, spawning>> /\ toApp' = Listed /\ NoPush /\ CoordRest

\* Ring.Append keeps the latest entries.
Published(f) ==
  LET all  == Append(sess.ring, f)
      kept == SubSeq(all, IF Len(all) > RingCap THEN 2 ELSE 1, Len(all))
  IN  [sess EXCEPT !.ring = kept, !.earliest = kept[1].seq, !.latest = f.seq, !.last = f.seq]

Advances(f) == sess # NoSession /\ f.seq > sess.last

handleSessionEvent ==
  LET f == Head(up) IN
  /\ Reads("session_event")
  /\ IF ~Advances(f) THEN sess' = sess /\ Silent /\ UNCHANGED malformed
     ELSE /\ sess' = Published(f) /\ toApp' = Live(f)
          /\ NotifyPush({pushEventReasons[k] : k \in {f.kind} \cap DOMAIN pushEventReasons})
  /\ UNCHANGED <<registered, mach, app, spawning>> /\ CoordRest

handleSessionPty ==
  LET f == Head(up) IN
  /\ Reads("session_pty")
  /\ IF ~Advances(f) THEN sess' = sess /\ toApp' = {}
     ELSE sess' = Published(f) /\ toApp' = Live(f)
  /\ NoPush /\ UNCHANGED <<registered, mach, app, spawning>> /\ CoordRest

Larger(n) == IF n > sess.last THEN n ELSE sess.last

handleSessionStateChange ==
  LET f == Head(up)
      reasons == IF f.to = "idle" THEN {"agent_idle"}
                 ELSE IF f.to = "unresponsive" THEN {"unresponsive"} ELSE {}
  IN
  /\ Reads("session_state_change")
  /\ sess' = IF sess = NoSession THEN sess
             ELSE [sess EXCEPT !.state = f.to, !.last = Larger(f.seq)]
  /\ UNCHANGED <<registered, mach, app, spawning>> /\ CoordRest
  /\ toApp' = Listed \cup (IF sess = NoSession THEN {}
                           ELSE Live(forwardStateChange(f.from, f.to)))
  /\ NotifyPush(reasons)

handleSessionEnded ==
  LET f == Head(up) IN
  /\ Reads("session_ended")
  /\ sess' = IF sess = NoSession THEN sess
             ELSE [sess EXCEPT !.state = "ended", !.ended = TRUE, !.last = Larger(f.seq)]
  /\ UNCHANGED <<registered, mach, app, spawning>> /\ CoordRest
  /\ toApp' = Listed \cup (IF sess = NoSession THEN {} ELSE Live(forwardEnded(f.reason)))
  /\ NotifyPush({"session_ended"})

\* An unknown session is created with empty metadata.
handleSessionResume ==
  LET f == Head(up)
      empty == [Metadata EXCEPT !.cwd = "", !.project_name = "", !.hostname = "",
                                !.model = "", !.started_at = 0]
  IN
  /\ Reads("session_resume")
  /\ sess' = IF sess = NoSession THEN Registered(empty, f.last_seq_emitted)
             ELSE [sess EXCEPT !.state = "running", !.last = Larger(f.last_seq_emitted)]
  /\ UNCHANGED <<registered, mach, app, spawning>> /\ toApp' = Listed /\ NoPush /\ CoordRest

handleSpawnResponse ==
  /\ Reads("spawn_response") /\ spawning' = FALSE
  /\ toApp' = IF spawning /\ app.hello THEN {SpawnResponse(Head(up).success)} ELSE {}
  /\ NoPush /\ UNCHANGED <<registered, mach, sess, app>> /\ CoordRest

\* PauseAllForMachine, for the one machine: an ended session and a paused one are
\* skipped, the others are paused and their attached apps told so.
ToPause == sess # NoSession /\ ~sess.ended /\ sess.state # "paused"

Paused == IF ToPause THEN [sess EXCEPT !.state = "paused"] ELSE sess

TellPaused == IF ToPause THEN Live(forwardStateChange(sess.state, "paused")) ELSE {}

handleMachineSuspending ==
  /\ Reads("machine_suspending") /\ mach' = "suspended" /\ sess' = Paused
  /\ toApp' = Listed \cup TellPaused /\ NoPush /\ UNCHANGED <<registered, app, spawning>> /\ CoordRest

\* A type Handle does not know.
UnknownType ==
  /\ Reads("machine_resumed") /\ toApp' = {} /\ NoPush /\ UNCHANGED coord /\ CoordRest

\* The read loop returns and the deferred cleanup runs: the sessions are paused.
EndLink ==
  /\ link' = "down" /\ up' = <<>> /\ down' = <<>> /\ registered' = FALSE
  /\ sess' = IF registered THEN Paused ELSE sess
  /\ UNCHANGED <<daemon, resumePending, mach, app, spawning, inputs>>
  /\ toApp' = (IF registered THEN Listed \cup TellPaused ELSE {}) /\ toDevice' = {}

\* Handle fails, on a frame that does not decode or on a first frame that is not
\* machine_register: policy violation.
Refuse ==
  /\ up # <<>> /\ ~(Gate(Head(up)) /\ UpFrameDecodes(Head(up)))
  /\ malformed' = IF UpFrameDecodes(Head(up)) THEN malformed
                  ELSE malformed \cup {Head(up).type}
  /\ EndLink

\* The connection breaks, or is closed and read to its end.
LinkEnds ==
  /\ link \in {"open", "up"} \/ (link = "closing" /\ up = <<>>)
  /\ UNCHANGED malformed /\ EndLink
-----------------------------------------------------------------------------
(***************************************************************************)
(* The app's frames.                                                       *)
(***************************************************************************)
AppRest == UNCHANGED <<daemon, link, resumePending, up, registered, mach, sess>> /\ NoPush

ClientHello(f) ==
  /\ ~app.hello /\ Input
  /\ app' = [app EXCEPT !.hello = Decodes(ClientHelloJson, f)]
  /\ toApp' = {} /\ UNCHANGED <<down, spawning>> /\ AppRest

\* AttachWithReplay: everything after last_seq, or that it is gone.
Attach(f) ==
  LET from == IF "last_seq" \in DOMAIN f THEN f.last_seq ELSE 0
      all  == {sess.ring[i] : i \in {j \in DOMAIN sess.ring : sess.ring[j].seq > from}}
      ok   == from = 0 \/ from + 1 >= sess.earliest
      does == Decodes(AttachJson, f) /\ sess # NoSession
  IN
  /\ app.hello /\ Input
  /\ app' = [app EXCEPT !.attached = does \/ @]
  /\ toApp' = IF ~does THEN {} ELSE IF ok THEN all ELSE {ReplayUnavailable(sess)}
  /\ UNCHANGED <<down, spawning>> /\ AppRest

Detach(f) ==
  /\ app.attached /\ Input /\ Decodes(DetachJson, f)
  /\ app' = [app EXCEPT !.attached = FALSE]
  /\ toApp' = {} /\ UNCHANGED <<down, spawning>> /\ AppRest

SubscribeMachineList ==
  /\ app.hello /\ Input /\ app' = [app EXCEPT !.subscribed = TRUE]
  /\ toApp' = {MachineListFrame(mach, sess)} /\ UNCHANGED <<down, spawning>> /\ AppRest

\* mach.Conn.Write: an entry outlives its connection, and then the write fails.
Writable == link # "down" /\ registered

Forward(f) == IF Writable THEN down = <<>> /\ down' = <<f>> ELSE down' = down

SpawnSession(f) ==
  LET request == [type |-> "spawn_request", v |-> 1, request_id |-> Request, cwd |-> Text]
      online  == Decodes(SpawnSessionJson, f) /\ mach = "online"
      fails   == Decodes(SpawnSessionJson, f) /\ ~(online /\ Writable)
  IN
  /\ app.hello /\ Input /\ UNCHANGED app
  /\ IF online THEN Forward(request) ELSE down' = down
  /\ spawning' = IF online THEN Writable ELSE spawning
  /\ toApp' = IF fails THEN {SpawnResponse(FALSE)} ELSE {}
  /\ AppRest

DaemonPtyInput ==
  [type |-> "pty_input", v |-> 1, session_id |-> Id, client_id |-> Device, bytes |-> Text]

\* pty_input, for a known session of an online machine.
PtyInput(f) ==
  /\ app.hello /\ Input /\ UNCHANGED <<app, spawning>> /\ toApp' = {} /\ AppRest
  /\ IF Decodes(PtyInputJson, f) /\ sess # NoSession /\ mach = "online"
     THEN Forward(DaemonPtyInput) ELSE down' = down

\* pty_resize is not decoded by its schema: the size is passed on as it came.
PtyResize(cols) ==
  /\ app.hello /\ Input /\ UNCHANGED <<app, spawning>> /\ toApp' = {} /\ AppRest
  /\ IF sess # NoSession /\ mach = "online"
     THEN Forward([type |-> "pty_resize", v |-> 1, session_id |-> Id, cols |-> cols, rows |-> 1])
     ELSE down' = down

\* A spawn it waited for is answered into a queue nobody reads.
AppGone ==
  /\ app.hello /\ app' = NoApp /\ spawning' = FALSE /\ toApp' = {}
  /\ UNCHANGED <<down, inputs>> /\ AppRest

AppFrame(type) == [type |-> type, v |-> 1, session_id |-> Id, machine_id |-> Machine,
                   request_id |-> Request, client_id |-> Device, app_version |-> Text,
                   cwd |-> Text, bytes |-> Text]
AttachFrom(n) == [type |-> "attach", v |-> 1, session_id |-> Id, last_seq |-> n]
Without(f, field) == [k \in DOMAIN f \ {field} |-> f[k]]

AppStep ==
  \/ \E f \in {AppFrame("client_hello"), Without(AppFrame("client_hello"), "app_version")} :
       ClientHello(f)
  \/ \E f \in {AttachFrom(n) : n \in -1 .. 1} \cup {AppFrame("attach")} : Attach(f)
  \/ Detach(AppFrame("detach")) \/ SubscribeMachineList \/ AppGone
  \/ \E f \in {AppFrame("spawn_session"), Without(AppFrame("spawn_session"), "cwd")} :
       SpawnSession(f)
  \/ \E f \in {AppFrame("pty_input"), Without(AppFrame("pty_input"), "bytes")} : PtyInput(f)
  \/ \E cols \in {0, 1} : PtyResize(cols)
-----------------------------------------------------------------------------
ServeStep ==
  \/ Dials \/ \E f \in Registers : handleRegister(f)
  \/ \E f \in ExtEvents : onEvent(f)
  \/ Heartbeat([type |-> "heartbeat", ts |-> Now])
  \/ \E r \in {"session_shutdown", "client_request", "error", "restart"} : Disconnect(r)
  \/ ConnectionCloses \/ TmuxExit \/ Sweep \/ Reap \/ SendPty

LinkStep == SetConn \/ Handshake \/ NotifySuspend \/ LinkEnds

Handle ==
  \/ handleMachineRegister \/ handleSessionStarted \/ handleSessionEvent
  \/ handleSessionPty \/ handleSessionStateChange \/ handleSessionEnded
  \/ handleSessionResume \/ handleSpawnResponse \/ handleMachineSuspending
  \/ UnknownType \/ Refuse

Next == ServeStep \/ LinkStep \/ ReadFrame \/ Handle \/ AppStep

Spec == Init /\ [][Next]_vars

\* Both read loops go on reading what has arrived.
FairSpec == Spec /\ WF_vars(Handle) /\ WF_vars(ReadFrame)
-----------------------------------------------------------------------------
(***************************************************************************)
(* Properties.                                                             *)
(***************************************************************************)
\* No frame the daemon builds, whatever kind or fields the extension sent it, is refused
\* by the coordinator as malformed: that would close the connection every session of the
\* machine shares.  The clock of the extension is taken not to be before 1970: onEvent
\* passes a negative ts on as it came.
LinkNotRefused == malformed = {}

\* Every frame queued for an app and every payload sealed for a device decodes by the
\* schema the app was generated from, and every frame forwarded to the daemon is one
\* the daemon acts on, a size below 1 aside.
DeliveredDecodes ==
  /\ \A f \in toApp : AppFrameDecodes(f)
  /\ \A p \in toDevice : Decodes(PushPayloadJson, p)
  /\ \A i \in DOMAIN down : DownFrameDecodes(down[i]) \/ (down[i].type = "pty_resize" /\ down[i].cols < 1)

\* A claim the code does not keep.  SPEC.md 12.3: running to idle, which an agent_end
\* makes of a session (12.2), fires a push with reason agent_idle.  Here: once the
\* coordinator has published an agent_end, the device gets that push, unless the daemon's
\* connection is lost first.
IdleIsPushed ==
  (sess # NoSession /\ \E i \in DOMAIN sess.ring :
      sess.ring[i].type = "session_event" /\ sess.ring[i].kind = "agent_end")
    ~> (link = "down" \/ \E p \in toDevice : p.reason = "agent_idle")
=============================================================================
