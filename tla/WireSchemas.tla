---------------------------- MODULE WireSchemas ----------------------------
(***************************************************************************)
(* What the generated decoders (internal/proto of the daemon and of the    *)
(* coordinator) accept.  A frame is a record of the JSON fields that are   *)
(* present; a schema names the fields that must be there, the values an    *)
(* enum or a pattern allows a field and the least value of a number.  A    *)
(* field of any other type is free text and decodes as it is.              *)
(***************************************************************************)
EXTENDS Integers

Free == <<>>                \* no enum or pattern, no number with a least value

Schema(req, enum, least) == [req |-> req, enum |-> enum, least |-> least]

\* UnmarshalJSON of a generated type: required fields are looked up in the raw
\* object, enum values in the type's list, patterns matched and numbers compared
\* once decoded.
Decodes(schema, f) ==
  /\ schema.req \subseteq DOMAIN f
  /\ \A k \in DOMAIN schema.enum \cap DOMAIN f : f[k] \in schema.enum[k]
  /\ \A k \in DOMAIN schema.least \cap DOMAIN f : f[k] >= schema.least[k]
-----------------------------------------------------------------------------
(***************************************************************************)
(* Extension to daemon.                                                    *)
(***************************************************************************)
RegisterJson ==
  Schema({"type", "v", "session_id", "cwd", "project_name", "tmux_target", "pid",
          "hostname", "model", "started_at"}, Free, [pid |-> 1, started_at |-> 0])

HeartbeatJson == Schema({"type", "ts"}, Free, [ts |-> 0])

DisconnectJson ==
  Schema({"type", "reason"},
         [reason |-> {"session_shutdown", "client_request", "error"}], Free)
-----------------------------------------------------------------------------
(***************************************************************************)
(* Daemon to coordinator.                                                  *)
(***************************************************************************)
SessionStates == {"running", "idle", "paused", "unresponsive", "ended"}
EventKinds == {"agent_start", "agent_end", "attention_dialog", "tool_failure",
               "queue_update", "model_select", "compaction_start", "compaction_end",
               "extension_error"}
EndedReasons == {"process_exit", "extension_disconnect", "tmux_server_lost", "killed",
                 "spawn_failed"}

MachineRegisterJson ==
  Schema({"type", "v", "machine_id", "machine_display_name", "daemon_version",
          "capabilities"}, Free, Free)

MachineRegisterJsonCapabilitiesElem == {"spawn", "mirror"}

SessionStartedJson ==
  Schema({"type", "v", "session_id", "machine_id", "metadata"}, Free, Free)

SessionStartedJsonMetadata ==
  Schema({"cwd", "hostname", "model", "project_name", "started_at"}, Free,
         [started_at |-> 0])

SessionEventJson ==
  Schema({"type", "v", "session_id", "seq", "kind", "ts", "data"},
         [kind |-> EventKinds], [seq |-> 1, ts |-> 0])

SessionPtyJson ==
  Schema({"type", "v", "session_id", "seq", "bytes", "ts"},
         [compression |-> {"none", "zstd"}], [seq |-> 1, ts |-> 0])

SessionStateChangeJson ==
  Schema({"type", "v", "session_id", "seq", "ts", "from", "to"},
         [from |-> SessionStates, to |-> SessionStates], [seq |-> 1, ts |-> 0])

SessionEndedJson ==
  Schema({"type", "v", "session_id", "seq", "reason"}, [reason |-> EndedReasons], [seq |-> 1])

SessionResumeJson ==
  Schema({"type", "v", "session_id", "last_seq_emitted", "metadata"}, Free,
         [last_seq_emitted |-> 0])
-----------------------------------------------------------------------------
(***************************************************************************)
(* Coordinator to daemon.                                                  *)
(***************************************************************************)
SpawnRequestJson == Schema({"type", "v", "request_id", "cwd"}, Free, Free)

DaemonPtyInputJson == Schema({"type", "v", "session_id", "client_id", "bytes"}, Free, Free)

PtyResizeJson ==
  Schema({"type", "v", "session_id", "cols", "rows"}, Free, [cols |-> 1, rows |-> 1])
-----------------------------------------------------------------------------
(***************************************************************************)
(* App to coordinator.                                                     *)
(***************************************************************************)
ClientHelloJson == Schema({"type", "v", "client_id", "app_version"}, Free, Free)

\* An absent or null last_seq is read as 0.
AttachJson == Schema({"type", "v", "session_id"}, Free, [last_seq |-> 0])

DetachJson == Schema({"type", "v", "session_id"}, Free, Free)

SpawnSessionJson == Schema({"type", "v", "machine_id", "request_id", "cwd"}, Free, Free)

PtyInputJson == Schema({"type", "v", "session_id", "bytes"}, Free, Free)
-----------------------------------------------------------------------------
(***************************************************************************)
(* Coordinator to app and to device.  session_event and session_pty have   *)
(* the daemon's schemas; the others have schemas of their own.             *)
(***************************************************************************)
AppSessionEventJson ==
  Schema({"type", "v", "session_id", "seq", "kind", "ts", "data"},
         [kind |-> EventKinds], [seq |-> 1, ts |-> 0])

AppSessionPtyJson ==
  Schema({"type", "v", "session_id", "seq", "bytes", "ts"},
         [compression |-> {"none", "zstd"}], [seq |-> 1, ts |-> 0])

AppSessionStateChangeJson ==
  Schema({"type", "v", "session_id", "machine_id", "from", "to"},
         [from |-> SessionStates, to |-> SessionStates], Free)

AppSessionEndedJson ==
  Schema({"type", "v", "session_id", "machine_id", "reason"}, [reason |-> EndedReasons], Free)

ReplayUnavailableJson ==
  Schema({"type", "v", "session_id", "earliest_available_seq", "current_seq"}, Free,
         [earliest_available_seq |-> 0, current_seq |-> 0])

SpawnResponseJson == Schema({"type", "v", "request_id", "success"}, Free, Free)

MachineListJson == Schema({"type", "v", "machines"}, Free, Free)

MachineListJsonMachinesElem ==
  Schema({"machine_id", "machine_display_name", "state", "sessions"},
         [state |-> {"online", "suspended", "offline"}], Free)

MachineListJsonMachinesElemSessionsElem ==
  Schema({"session_id", "state", "metadata"}, [state |-> SessionStates], Free)

PushReasons == {"agent_idle", "extension_dialog", "tool_failure", "queue_update",
                "extension_error", "compaction_complete", "machine_suspended",
                "session_ended", "unresponsive"}

\* A deep link is known by what it begins with: its pattern is ^pi-remote://.
DeepLinks == {"pi-remote://"}

PushPayloadJson ==
  Schema({"v", "kind", "machine_id", "machine_display_name", "session_id", "project_name",
          "reason", "summary", "ts", "deep_link"},
         [kind |-> {"needs_attention"}, reason |-> PushReasons,
          deep_link |-> DeepLinks], [ts |-> 0])
-----------------------------------------------------------------------------
(***************************************************************************)
(* The decoders with the types nested in them.                             *)
(***************************************************************************)
\* The types Ingestor.Handle decodes; it reads no field of the other ones.
UpFrameDecodes(f) ==
  /\ f.type = "machine_register" =>
       /\ Decodes(MachineRegisterJson, f)
       /\ f.capabilities \subseteq MachineRegisterJsonCapabilitiesElem
  /\ f.type = "session_started" =>
       Decodes(SessionStartedJson, f) /\ Decodes(SessionStartedJsonMetadata, f.metadata)
  /\ f.type = "session_event" => Decodes(SessionEventJson, f)
  /\ f.type = "session_pty" => Decodes(SessionPtyJson, f)
  /\ f.type = "session_state_change" => Decodes(SessionStateChangeJson, f)
  /\ f.type = "session_ended" => Decodes(SessionEndedJson, f)
  /\ f.type = "session_resume" => Decodes(SessionResumeJson, f)

\* The types the daemon's readLoop knows, and decodes.
DownFrameDecodes(f) ==
  \/ f.type = "spawn_request" /\ Decodes(SpawnRequestJson, f)
  \/ f.type = "pty_input" /\ Decodes(DaemonPtyInputJson, f)
  \/ f.type = "pty_resize" /\ Decodes(PtyResizeJson, f)

\* What an app that follows the schemas can read.
AppFrameDecodes(f) ==
  \/ f.type = "session_event" /\ Decodes(AppSessionEventJson, f)
  \/ f.type = "session_pty" /\ Decodes(AppSessionPtyJson, f)
  \/ f.type = "session_state_change" /\ Decodes(AppSessionStateChangeJson, f)
  \/ f.type = "session_ended" /\ Decodes(AppSessionEndedJson, f)
  \/ f.type = "replay_unavailable" /\ Decodes(ReplayUnavailableJson, f)
  \/ f.type = "spawn_response" /\ Decodes(SpawnResponseJson, f)
  \/ /\ f.type = "machine_list" /\ Decodes(MachineListJson, f)
     /\ \A m \in f.machines :
          /\ Decodes(MachineListJsonMachinesElem, m)
          /\ \A s \in m.sessions : Decodes(MachineListJsonMachinesElemSessionsElem, s)
=============================================================================
