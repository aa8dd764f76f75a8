-------------------------- MODULE FramePathProofs --------------------------
(***************************************************************************)
(* No hop of FramePath builds a frame the next one cannot read, for every  *)
(* number of inputs, every room on the connection and every ring.          *)
(*                                                                         *)
(* The sets of frames say more than the schemas: the values every field    *)
(* can really have, which is what carries a frame over the hops.  Session  *)
(* and ring are part of the invariant because a frame comes back out of    *)
(* them long after it arrived, on a replay and in a machine list.          *)
(***************************************************************************)
EXTENDS FramePath, SequenceTheorems, TLAPS

Numbers == Nat \ {0}

EventFrames ==
  [type : {"session_event"}, v : {1}, session_id : {Id}, seq : Numbers,
   kind : EventKinds, ts : Nat, data : {Free}]

PtyFrames ==
  [type : {"session_pty"}, v : {1}, session_id : {Id}, seq : Numbers, bytes : {Text},
   ts : Nat]

StateChangeFrames ==
  [type : {"session_state_change"}, v : {1}, session_id : {Id}, seq : Numbers, ts : Nat,
   from : SessionStates, to : SessionStates]

EndedFrames ==
  [type : {"session_ended"}, v : {1}, session_id : {Id}, seq : Numbers,
   reason : EndedReasons]

ResumeFrames ==
  [type : {"session_resume"}, v : {1}, session_id : {Id}, last_seq_emitted : Nat,
   metadata : {Metadata}]

UpFrames ==
  {NewMachineRegister, NewSessionStarted, MachineSuspending, MachineResumed}
    \cup {SpawnAnswer(b) : b \in BOOLEAN}
    \cup EventFrames \cup PtyFrames \cup StateChangeFrames \cup EndedFrames
    \cup ResumeFrames

RingFrames == EventFrames \cup PtyFrames

ResizeFrames ==
  [type : {"pty_resize"}, v : {1}, session_id : {Id}, cols : {0, 1}, rows : {1}]

SpawnRequest ==
  [type |-> "spawn_request", v |-> 1, request_id |-> Request, cwd |-> Text]

DownFrames == {SpawnRequest, DaemonPtyInput} \cup ResizeFrames

Metas ==
  [cwd : {"", Text}, project_name : {"", Text}, hostname : {"", Text},
   model : {"", Text}, started_at : {0, Now}]

Sessions ==
  [state : SessionStates, ended : BOOLEAN, meta : Metas, last : Nat,
   ring : Seq(RingFrames), earliest : Nat, latest : Nat]

\* The parts of the invariant, by who changes them.
DaemonOK ==
  /\ served \in {"none", "first", "loop"} /\ ended \in BOOLEAN
  /\ entry \in {"none", "running", "unresponsive", "ended"} /\ seq \in Nat

WireOK ==
  /\ link \in {"down", "open", "up", "closing"} /\ resumePending \in BOOLEAN
  /\ up \in Seq(UpFrames) /\ Len(up) <= MaxUp
  /\ down \in Seq(DownFrames) /\ Len(down) <= 1
  /\ link = "down" => up = <<>> /\ down = <<>>

SessionOK ==
  \/ sess = NoSession
  \/ sess \in Sessions /\ Len(sess.ring) <= RingCap /\ sess.latest <= sess.last

AppOK ==
  /\ registered \in BOOLEAN /\ mach \in {"none", "online", "suspended"}
  /\ app \in [hello : BOOLEAN, subscribed : BOOLEAN, attached : BOOLEAN]
  /\ spawning \in BOOLEAN

SentOK ==
  /\ \A f \in toApp : AppFrameDecodes(f)
  /\ \A p \in toDevice : Decodes(PushPayloadJson, p)

IInv ==
  /\ DaemonOK /\ WireOK /\ SessionOK /\ AppOK /\ SentOK /\ LinkNotRefused
  /\ inputs \in 0 .. MaxInputs
-----------------------------------------------------------------------------
(***************************************************************************)
(* What is built decodes.                                                  *)
(***************************************************************************)
\* Every frame the daemon sends passes the decoder Ingestor.Handle picks for it.
LEMMA UpDecodes == ASSUME NEW f \in UpFrames PROVE UpFrameDecodes(f)
<1>1. CASE f = NewMachineRegister
  BY <1>1 DEF NewMachineRegister, UpFrameDecodes, Decodes, MachineRegisterJson, Schema, Free,
    MachineRegisterJsonCapabilitiesElem
<1>2. CASE f = NewSessionStarted
  BY <1>2 DEF NewSessionStarted, Metadata, UpFrameDecodes, Decodes, SessionStartedJson,
    SessionStartedJsonMetadata, Schema, Free, Now
<1>3. CASE f \in {MachineSuspending, MachineResumed}
  BY <1>3 DEF MachineSuspending, MachineResumed, UpFrameDecodes
<1>4. CASE f \in {SpawnAnswer(b) : b \in BOOLEAN}
  BY <1>4 DEF SpawnAnswer, UpFrameDecodes
<1>5. CASE f \in EventFrames
  BY <1>5 DEF EventFrames, Numbers, UpFrameDecodes, Decodes, SessionEventJson, Schema, Free
<1>6. CASE f \in PtyFrames
  BY <1>6 DEF PtyFrames, Numbers, UpFrameDecodes, Decodes, SessionPtyJson, Schema, Free
<1>7. CASE f \in StateChangeFrames
  BY <1>7 DEF StateChangeFrames, Numbers, UpFrameDecodes, Decodes, SessionStateChangeJson,
    Schema, Free
<1>8. CASE f \in EndedFrames
  BY <1>8 DEF EndedFrames, Numbers, UpFrameDecodes, Decodes, SessionEndedJson, Schema, Free
<1>9. CASE f \in ResumeFrames
  BY <1>9 DEF ResumeFrames, UpFrameDecodes, Decodes, SessionResumeJson, Schema, Free
<1> QED
  BY <1>1, <1>2, <1>3, <1>4, <1>5, <1>6, <1>7, <1>8, <1>9 DEF UpFrames

\* What the ring keeps decodes by the app's schemas, whenever it is replayed.
LEMMA RingDecodes == ASSUME NEW f \in RingFrames PROVE AppFrameDecodes(f)
<1>1. CASE f \in EventFrames
  BY <1>1 DEF EventFrames, Numbers, AppFrameDecodes, Decodes, AppSessionEventJson, Schema, Free
<1>2. CASE f \in PtyFrames
  BY <1>2 DEF PtyFrames, Numbers, AppFrameDecodes, Decodes, AppSessionPtyJson, Schema, Free
<1> QED
  BY <1>1, <1>2 DEF RingFrames

\* readLoop can act on all the coordinator forwards, but for a size an app sent as 0.
LEMMA DownDecodes ==
  ASSUME NEW f \in DownFrames
  PROVE  DownFrameDecodes(f) \/ (f.type = "pty_resize" /\ f.cols < 1)
<1>1. CASE f = SpawnRequest
  BY <1>1 DEF SpawnRequest, DownFrameDecodes, Decodes, SpawnRequestJson, Schema, Free
<1>2. CASE f = DaemonPtyInput
  BY <1>2 DEF DaemonPtyInput, DownFrameDecodes, Decodes, DaemonPtyInputJson, Schema, Free
<1>3. CASE f \in ResizeFrames
  BY <1>3 DEF ResizeFrames, DownFrameDecodes, Decodes, PtyResizeJson, Schema, Free
<1> QED
  BY <1>1, <1>2, <1>3 DEF DownFrames

\* The frames the coordinator builds for an app carry the fields of the app's schemas,
\* which are not those of the daemon's.
LEMMA ForwardedDecodes ==
  /\ \A from, to \in SessionStates : AppFrameDecodes(forwardStateChange(from, to))
  /\ \A reason \in EndedReasons : AppFrameDecodes(forwardEnded(reason))
  /\ \A b \in BOOLEAN : AppFrameDecodes(SpawnResponse(b))
<1>1. ASSUME NEW from \in SessionStates, NEW to \in SessionStates
      PROVE  AppFrameDecodes(forwardStateChange(from, to))
  BY DEF forwardStateChange, AppFrameDecodes, Decodes, AppSessionStateChangeJson, Schema, Free
<1>2. ASSUME NEW reason \in EndedReasons PROVE AppFrameDecodes(forwardEnded(reason))
  BY DEF forwardEnded, AppFrameDecodes, Decodes, AppSessionEndedJson, Schema, Free
<1>3. ASSUME NEW b \in BOOLEAN PROVE AppFrameDecodes(SpawnResponse(b))
  BY DEF SpawnResponse, AppFrameDecodes, Decodes, SpawnResponseJson, Schema, Free
<1> QED
  BY <1>1, <1>2, <1>3

\* A replay that is gone is told with the numbers of the ring.
LEMMA UnavailableDecodes ==
  ASSUME NEW s \in Sessions PROVE AppFrameDecodes(ReplayUnavailable(s))
  BY DEF Sessions, ReplayUnavailable, AppFrameDecodes, Decodes, ReplayUnavailableJson,
    Schema, Free

\* The list names the state of every machine and session by the app's enums.
LEMMA ListDecodes ==
  ASSUME NEW m \in {"none", "online", "suspended"}, NEW s, s = NoSession \/ s \in Sessions
  PROVE  AppFrameDecodes(MachineListFrame(m, s))
<1> DEFINE elem == [session_id |-> Id, state |-> s.state,
                    metadata |-> IF s = NoSession THEN Free ELSE s.meta]
           state == IF m = "suspended" THEN "suspended" ELSE "online"
           machine == [machine_id |-> Machine, machine_display_name |-> Text,
                       state |-> state,
                       sessions |-> IF s = NoSession THEN {} ELSE {elem}]
           frame == MachineListFrame(m, s)
<1>1. /\ frame = [type |-> "machine_list", v |-> 1,
                  machines |-> IF m = "none" THEN {} ELSE {machine}]
  BY DEF MachineListFrame
<1>2. s # NoSession => Decodes(MachineListJsonMachinesElemSessionsElem, elem)
  BY DEF Sessions, Decodes, MachineListJsonMachinesElemSessionsElem, Schema, Free
<1>3. Decodes(MachineListJsonMachinesElem, machine)
  BY DEF Decodes, MachineListJsonMachinesElem, Schema, Free
<1>4. \A e \in machine.sessions : Decodes(MachineListJsonMachinesElemSessionsElem, e)
  BY <1>2
<1> HIDE DEF elem, machine
<1>5. \A e \in frame.machines :
        /\ Decodes(MachineListJsonMachinesElem, e)
        /\ \A x \in e.sessions : Decodes(MachineListJsonMachinesElemSessionsElem, x)
  BY <1>1, <1>3, <1>4
<1>6. frame.type = "machine_list" /\ Decodes(MachineListJson, frame)
  BY <1>1 DEF Decodes, MachineListJson, Schema, Free
<1>7. AppFrameDecodes(frame)
  <2> HIDE DEF frame
  <2> QED
    BY <1>5, <1>6 DEF AppFrameDecodes
<1> QED
  BY <1>7

\* Every reason Dispatch accepts is one of the payload's, and the link has its scheme.
LEMMA PayloadDecodes ==
  ASSUME NEW r \in PushReasons PROVE Decodes(PushPayloadJson, PushPayload(r))
  BY DEF PushPayload, Decodes, PushPayloadJson, DeepLinks, Schema, Free, Now
-----------------------------------------------------------------------------
(***************************************************************************)
(* Steps of the daemon.                                                    *)
(***************************************************************************)
\* The initial state satisfies the invariant.
LEMMA InitIInv == Init => IInv
<1> SUFFICES ASSUME Init PROVE IInv
  OBVIOUS
<1>1. DaemonOK
  BY DEF Init, DaemonOK
<1>2. WireOK
  <2>1. up = <<>> /\ down = <<>> /\ link = "down" /\ resumePending \in BOOLEAN
    BY DEF Init
  <2>2. up \in Seq(UpFrames) /\ down \in Seq(DownFrames) /\ Len(up) = 0 /\ Len(down) = 0
    BY <2>1
  <2>3. Len(up) <= MaxUp
    BY <2>2, FramePathAssumption
  <2> QED
    BY <2>1, <2>2, <2>3 DEF WireOK
<1>3. SessionOK
  BY DEF Init, SessionOK
<1>4. AppOK
  BY DEF Init, AppOK, NoApp
<1>5. SentOK
  BY DEF Init, SentOK
<1>6. LinkNotRefused /\ inputs \in 0 .. MaxInputs
  BY FramePathAssumption DEF Init, LinkNotRefused
<1> QED
  BY <1>1, <1>2, <1>3, <1>4, <1>5, <1>6 DEF IInv

\* The frames the daemon's hooks build, one and two at a time.
LEMMA BuiltUp ==
  /\ {NewMachineRegister, NewSessionStarted, MachineSuspending, MachineResumed} \subseteq UpFrames
  /\ \A b \in BOOLEAN : SpawnAnswer(b) \in UpFrames
  /\ \A n \in Numbers : PtyFrame(n) \in UpFrames
  /\ \A n \in Numbers, k \in EventKinds, t \in Nat : NewSessionEvent(n, k, t) \in UpFrames
  /\ \A n \in Numbers, a, b \in SessionStates : StateChange(n, a, b) \in UpFrames
  /\ \A n \in Numbers : \A kind, reason : NewSessionEnded(n, kind, reason) \in UpFrames
  /\ \A n \in Nat : NewSessionResume(n) \in UpFrames
<1>1. /\ {NewMachineRegister, NewSessionStarted, MachineSuspending, MachineResumed} \subseteq UpFrames
      /\ \A b \in BOOLEAN : SpawnAnswer(b) \in UpFrames
  BY DEF UpFrames
<1>2. \A n \in Numbers : PtyFrame(n) \in PtyFrames
  BY DEF PtyFrame, PtyFrames, Now
<1>3. \A n \in Numbers, k \in EventKinds, t \in Nat : NewSessionEvent(n, k, t) \in EventFrames
  BY DEF NewSessionEvent, EventFrames
<1>4. \A n \in Numbers, a, b \in SessionStates : StateChange(n, a, b) \in StateChangeFrames
  BY DEF StateChange, StateChangeFrames, Now
<1>5. \A n \in Numbers : \A kind, reason : NewSessionEnded(n, kind, reason) \in EndedFrames
  BY DEF NewSessionEnded, EndedFrames, EndedReason, EndedReasons
<1>6. \A n \in Nat : NewSessionResume(n) \in ResumeFrames
  BY DEF NewSessionResume, ResumeFrames
<1> QED
  BY <1>1, <1>2, <1>3, <1>4, <1>5, <1>6 DEF UpFrames

\* Send appends well-formed frames, and only on a connection.
LEMMA EmitFacts ==
  ASSUME WireOK, NEW fs \in Seq(UpFrames), Emit(fs)
  PROVE  /\ up' \in Seq(UpFrames) /\ Len(up') <= MaxUp
         /\ link = "down" => up' = <<>>
<1>1. CASE link \notin {"open", "up"}
  BY <1>1 DEF Emit, WireOK
<1>2. CASE link \in {"open", "up"}
  <2>1. Len(up) + Len(fs) <= MaxUp /\ up' = up \o fs
    BY <1>2 DEF Emit
  <2>2. up \in Seq(UpFrames)
    BY DEF WireOK
  <2>3. up' \in Seq(UpFrames) /\ Len(up') = Len(up) + Len(fs)
    BY <2>1, <2>2
  <2> QED
    BY <1>2, <2>1, <2>3
<1> QED
  BY <1>1, <1>2

\* A handler of the daemon leaves the connection and the coordinator alone.
LEMMA DaemonStep ==
  ASSUME IInv, DaemonRest, DaemonOK', up' \in Seq(UpFrames), Len(up') <= MaxUp,
         link = "down" => up' = <<>>, inputs' = inputs \/ Input
  PROVE  IInv'
<1>1. UNCHANGED <<link, resumePending, down, registered, mach, sess, app, spawning,
                  malformed>>
  BY DEF DaemonRest, coord
<1>2. WireOK'
  BY <1>1 DEF IInv, WireOK
<1>3. SessionOK' /\ AppOK'
  BY <1>1 DEF IInv, SessionOK, AppOK
<1>4. SentOK'
  BY DEF DaemonRest, Silent, SentOK
<1>5. LinkNotRefused'
  BY <1>1 DEF IInv, LinkNotRefused
<1>6. inputs' \in 0 .. MaxInputs
  BY FramePathAssumption DEF IInv, Input
<1> QED
  BY <1>2, <1>3, <1>4, <1>5, <1>6 DEF IInv

\* Sending nothing keeps what is under way.
LEMMA NothingSent ==
  ASSUME WireOK, up' = up
  PROVE  up' \in Seq(UpFrames) /\ Len(up') <= MaxUp /\ (link = "down" => up' = <<>>)
  BY DEF WireOK

\* Sending one frame.
LEMMA OneSent ==
  ASSUME WireOK, NEW f \in UpFrames, Emit(<<f>>)
  PROVE  up' \in Seq(UpFrames) /\ Len(up') <= MaxUp /\ (link = "down" => up' = <<>>)
<1>1. <<f>> \in Seq(UpFrames)
  OBVIOUS
<1> QED
  BY <1>1, EmitFacts

\* onEnded numbers its frame from an allocator that has given out seq numbers.
LEMMA onEndedFacts ==
  ASSUME IInv, NEW kind, NEW reason, onEnded(kind, reason)
  PROVE  /\ ended' \in BOOLEAN /\ seq' \in Nat
         /\ up' \in Seq(UpFrames) /\ Len(up') <= MaxUp /\ (link = "down" => up' = <<>>)
<1>0. WireOK /\ DaemonOK
  BY DEF IInv
<1>1. CASE entry = "none" \/ ended
  <2>1. UNCHANGED <<ended, seq, up>>
    BY <1>1 DEF onEnded
  <2> QED
    BY <2>1, <1>0, NothingSent DEF DaemonOK
<1>2. CASE ~(entry = "none" \/ ended)
  <2>1. ended' = TRUE /\ seq' = 0 /\ Emit(<<NewSessionEnded(seq + 1, kind, reason)>>)
    BY <1>2 DEF onEnded
  <2>2. seq + 1 \in Numbers
    BY <1>0 DEF DaemonOK, Numbers
  <2>3. NewSessionEnded(seq + 1, kind, reason) \in UpFrames
    BY <2>2, BuiltUp
  <2> QED
    BY <2>1, <2>3, <1>0, OneSent
<1> QED
  BY <1>1, <1>2

\* What an extension writes carries no clock or a reading of it.
LEMMA EventClock ==
  ASSUME NEW f \in ExtEvents, "ts" \in DOMAIN f PROVE f.ts \in Nat
<1>1. ASSUME NEW kind PROVE ExtEvent(kind).ts \in Nat
  BY DEF ExtEvent, Now
<1>2. CASE f \in OtherVersions
  BY <1>1, <1>2 DEF OtherVersions, Now
<1>3. CASE \E n \in PiEventNames : f \in Project(n)
  BY <1>1, <1>3 DEF Project
<1> QED
  BY <1>2, <1>3 DEF ExtEvents

\* Registration announces the session.
LEMMA StepHandleRegister == ASSUME IInv, NEW f, handleRegister(f) PROVE IInv'
<1>0. WireOK /\ DaemonOK
  BY DEF IInv
<1>1. DaemonRest /\ Input /\ UNCHANGED <<ended, seq>>
  BY DEF handleRegister
<1>2. DaemonOK'
  BY <1>0, <1>1 DEF handleRegister, DaemonOK
<1>3. up' = up \/ Emit(<<NewSessionStarted>>)
  BY DEF handleRegister
<1>4. up' \in Seq(UpFrames) /\ Len(up') <= MaxUp /\ (link = "down" => up' = <<>>)
  BY <1>0, <1>3, NothingSent, OneSent, BuiltUp
<1> QED
  BY <1>1, <1>2, <1>4, DaemonStep

\* An event is numbered and sent under a kind the coordinator knows.
LEMMA StepOnEvent == ASSUME IInv, NEW f \in ExtEvents, onEvent(f) PROVE IInv'
<1>0. WireOK /\ DaemonOK
  BY DEF IInv
<1>1. DaemonRest /\ Input /\ UNCHANGED <<served, entry, ended>>
  BY DEF onEvent
<1>2. CASE UNCHANGED <<seq, up>>
  <2>1. DaemonOK'
    BY <1>0, <1>1, <1>2 DEF DaemonOK
  <2> QED
    BY <1>0, <1>1, <1>2, <2>1, NothingSent, DaemonStep
<1>3. CASE ~UNCHANGED <<seq, up>>
  <2> DEFINE ts == IF "ts" \in DOMAIN f THEN f.ts ELSE Now
  <2>1. /\ isKnownEventKind(f.kind) /\ seq' = seq + 1
        /\ Emit(<<NewSessionEvent(seq', f.kind, ts)>>)
    BY <1>3 DEF onEvent
  <2>2. ts \in Nat
    BY EventClock DEF Now
  <2>3. f.kind \in EventKinds
    BY <2>1 DEF isKnownEventKind, EventKinds
  <2> HIDE DEF ts
  <2>4. seq' \in Numbers /\ seq' \in Nat
    BY <1>0, <2>1 DEF DaemonOK, Numbers
  <2>5. NewSessionEvent(seq', f.kind, ts) \in UpFrames
    BY <2>2, <2>3, <2>4, BuiltUp
  <2>6. DaemonOK'
    BY <1>0, <1>1, <2>4 DEF DaemonOK
  <2>7. up' \in Seq(UpFrames) /\ Len(up') <= MaxUp /\ (link = "down" => up' = <<>>)
    BY <1>0, <2>1, <2>5, OneSent
  <2> QED
    BY <1>1, <2>6, <2>7, DaemonStep
<1> QED
  BY <1>2, <1>3

\* Heartbeats, sweeps and terminal output each take one number, if any.
LEMMA StepHeartbeat == ASSUME IInv, NEW f, Heartbeat(f) PROVE IInv'
<1>0. WireOK /\ DaemonOK
  BY DEF IInv
<1>1. DaemonRest /\ Input /\ UNCHANGED ended
  BY DEF Heartbeat
<1>2. served' \in {"none", "first", "loop"}
  BY DEF Heartbeat
<1>3. CASE UNCHANGED <<entry, seq, up>>
  <2>1. DaemonOK'
    BY <1>0, <1>1, <1>2, <1>3 DEF DaemonOK
  <2> QED
    BY <1>0, <1>1, <1>3, <2>1, NothingSent, DaemonStep
<1>4. CASE ~UNCHANGED <<entry, seq, up>>
  <2>1. /\ entry' = "running" /\ seq' = seq + 1
        /\ Emit(<<StateChange(seq', "unresponsive", "running")>>)
    BY <1>4 DEF Heartbeat
  <2>2. seq' \in Numbers /\ seq' \in Nat
    BY <1>0, <2>1 DEF DaemonOK, Numbers
  <2>3. StateChange(seq', "unresponsive", "running") \in UpFrames
    BY <2>2, BuiltUp DEF SessionStates
  <2>4. DaemonOK'
    BY <1>0, <1>1, <1>2, <2>1, <2>2 DEF DaemonOK
  <2>5. up' \in Seq(UpFrames) /\ Len(up') <= MaxUp /\ (link = "down" => up' = <<>>)
    BY <1>0, <2>1, <2>3, OneSent
  <2> QED
    BY <1>1, <2>4, <2>5, DaemonStep
<1> QED
  BY <1>3, <1>4

\* A missed heartbeat is reported from running to unresponsive.
LEMMA StepSweep == ASSUME IInv, Sweep PROVE IInv'
<1>0. WireOK /\ DaemonOK
  BY DEF IInv
<1>1. /\ DaemonRest /\ Input /\ UNCHANGED <<served, ended>> /\ entry' = "unresponsive"
      /\ seq' = seq + 1 /\ Emit(<<StateChange(seq', "running", "unresponsive")>>)
  BY DEF Sweep
<1>2. seq' \in Numbers /\ seq' \in Nat
  BY <1>0, <1>1 DEF DaemonOK, Numbers
<1>3. StateChange(seq', "running", "unresponsive") \in UpFrames
  BY <1>2, BuiltUp DEF SessionStates
<1>4. DaemonOK'
  BY <1>0, <1>1, <1>2 DEF DaemonOK
<1>5. up' \in Seq(UpFrames) /\ Len(up') <= MaxUp /\ (link = "down" => up' = <<>>)
  BY <1>0, <1>1, <1>3, OneSent
<1> QED
  BY <1>1, <1>4, <1>5, DaemonStep

\* Terminal output takes a number, connected or not.
LEMMA StepSendPty == ASSUME IInv, SendPty PROVE IInv'
<1>0. WireOK /\ DaemonOK
  BY DEF IInv
<1>1. /\ DaemonRest /\ Input /\ UNCHANGED <<served, entry, ended>>
      /\ seq' = seq + 1 /\ Emit(<<PtyFrame(seq')>>)
  BY DEF SendPty
<1>2. seq' \in Numbers /\ seq' \in Nat
  BY <1>0, <1>1 DEF DaemonOK, Numbers
<1>3. PtyFrame(seq') \in UpFrames
  BY <1>2, BuiltUp
<1>4. DaemonOK'
  BY <1>0, <1>1, <1>2 DEF DaemonOK
<1>5. up' \in Seq(UpFrames) /\ Len(up') <= MaxUp /\ (link = "down" => up' = <<>>)
  BY <1>0, <1>1, <1>3, OneSent
<1> QED
  BY <1>1, <1>4, <1>5, DaemonStep

\* A session ends by a frame, by the end of its connection or by its terminal.
LEMMA StepEnds ==
  ASSUME IInv, ConnectionCloses \/ TmuxExit \/ \E r : Disconnect(r) PROVE IInv'
<1>0. WireOK /\ DaemonOK
  BY DEF IInv
<1>1. CASE ConnectionCloses
  <2>1. DaemonRest /\ Input /\ served' = "none" /\ onEnded("implicit", "")
    BY <1>1 DEF ConnectionCloses
  <2>2. entry' \in {"none", "running", "unresponsive", "ended"}
    BY <1>0, <1>1 DEF ConnectionCloses, DaemonOK
  <2>3. /\ ended' \in BOOLEAN /\ seq' \in Nat
        /\ up' \in Seq(UpFrames) /\ Len(up') <= MaxUp /\ (link = "down" => up' = <<>>)
    BY <2>1, onEndedFacts
  <2>4. DaemonOK'
    BY <2>1, <2>2, <2>3 DEF DaemonOK
  <2> QED
    BY <2>1, <2>3, <2>4, DaemonStep
<1>2. CASE TmuxExit
  <2>1. /\ DaemonRest /\ Input /\ served' = served /\ entry' = "none"
        /\ onEnded("explicit", "tmux_server_lost")
    BY <1>2 DEF TmuxExit
  <2>2. /\ ended' \in BOOLEAN /\ seq' \in Nat
        /\ up' \in Seq(UpFrames) /\ Len(up') <= MaxUp /\ (link = "down" => up' = <<>>)
    BY <2>1, onEndedFacts
  <2>3. DaemonOK'
    BY <1>0, <2>1, <2>2 DEF DaemonOK
  <2> QED
    BY <2>1, <2>2, <2>3, DaemonStep
<1>3. ASSUME NEW r, Disconnect(r) PROVE IInv'
  <2>1. DaemonRest /\ Input /\ served' = "none"
    BY <1>3 DEF Disconnect
  <2>2. \/ entry' = "none" /\ onEnded("explicit", r)
        \/ UNCHANGED <<entry, ended, seq, up>>
    BY <1>3 DEF Disconnect
  <2>3. entry' \in {"none", "running", "unresponsive", "ended"}
    BY <1>0, <2>2 DEF DaemonOK
  <2>4. CASE onEnded("explicit", r)
    <3>1. /\ ended' \in BOOLEAN /\ seq' \in Nat
          /\ up' \in Seq(UpFrames) /\ Len(up') <= MaxUp /\ (link = "down" => up' = <<>>)
      BY <2>4, onEndedFacts
    <3>2. DaemonOK'
      BY <2>1, <2>3, <3>1 DEF DaemonOK
    <3> QED
      BY <2>1, <3>1, <3>2, DaemonStep
  <2>5. CASE UNCHANGED <<entry, ended, seq, up>>
    <3>1. DaemonOK'
      BY <1>0, <2>1, <2>5 DEF DaemonOK
    <3> QED
      BY <1>0, <2>1, <2>5, <3>1, NothingSent, DaemonStep
  <2> QED
    BY <2>2, <2>4, <2>5
<1> QED
  BY <1>1, <1>2, <1>3

\* Every step of the daemon's handlers.
LEMMA StepServe == ASSUME IInv, ServeStep PROVE IInv'
<1>0. WireOK /\ DaemonOK
  BY DEF IInv
<1>1. CASE Dials
  <2>1. /\ DaemonRest /\ Input /\ served' = "first" /\ UNCHANGED <<entry, ended, seq, up>>
    BY <1>1 DEF Dials
  <2>2. DaemonOK'
    BY <1>0, <2>1 DEF DaemonOK
  <2> QED
    BY <1>0, <2>1, <2>2, NothingSent, DaemonStep
<1>2. CASE Reap
  <2>1. /\ DaemonRest /\ entry' = "none" /\ UNCHANGED <<served, ended, seq, up, inputs>>
    BY <1>2 DEF Reap
  <2>2. DaemonOK'
    BY <1>0, <2>1 DEF DaemonOK
  <2> QED
    BY <1>0, <2>1, <2>2, NothingSent, DaemonStep
<1> QED
  <2>1. \/ Dials \/ Reap \/ Sweep \/ SendPty \/ ConnectionCloses \/ TmuxExit
        \/ \E f \in Registers : handleRegister(f)
        \/ \E f \in ExtEvents : onEvent(f)
        \/ \E f : Heartbeat(f)
        \/ \E r : Disconnect(r)
    BY Zenon DEF ServeStep
  <2> QED
    BY <1>1, <1>2, <2>1, StepHandleRegister, StepOnEvent, StepHeartbeat, StepSweep,
      StepSendPty, StepEnds
-----------------------------------------------------------------------------
(***************************************************************************)
(* Steps of the daemon's WebSocket.                                        *)
(***************************************************************************)
\* A step that only sends and receives on the connection.
LEMMA WireStep ==
  ASSUME IInv, UNCHANGED <<daemon, coord, malformed>>, Silent, WireOK', inputs' = inputs \/ Input
  PROVE  IInv'
<1>1. UNCHANGED <<served, entry, ended, seq, registered, mach, sess, app, spawning,
                  malformed>>
  BY DEF daemon, coord
<1>2. DaemonOK'
  BY <1>1 DEF IInv, DaemonOK
<1>3. SessionOK' /\ AppOK'
  BY <1>1 DEF IInv, SessionOK, AppOK
<1>4. SentOK'
  BY DEF Silent, SentOK
<1>5. LinkNotRefused'
  BY <1>1 DEF IInv, LinkNotRefused
<1>6. inputs' \in 0 .. MaxInputs
  BY FramePathAssumption DEF IInv, Input
<1> QED
  BY <1>2, <1>3, <1>4, <1>5, <1>6 DEF IInv

\* The connection is there before the handshake has spoken.
LEMMA StepSetConn == ASSUME IInv, SetConn PROVE IInv'
<1>1. /\ UNCHANGED <<daemon, coord, malformed>> /\ Silent /\ Input
      /\ link' = "open" /\ UNCHANGED <<resumePending, up, down>>
  BY DEF SetConn
<1>2. WireOK'
  BY <1>1 DEF IInv, WireOK
<1> QED
  BY <1>1, <1>2, WireStep

\* The handshake's frames, the sessions' resumes among them.
LEMMA StepHandshake == ASSUME IInv, Handshake PROVE IInv'
<1>0. WireOK /\ DaemonOK
  BY DEF IInv
<1>1. /\ UNCHANGED <<daemon, coord, malformed, inputs, down>> /\ Silent
      /\ link = "open" /\ link' = "up" /\ resumePending' = FALSE
  BY DEF Handshake
<1>2. PICK alive \in BOOLEAN :
        Emit(<<NewMachineRegister>> \o
             (IF alive /\ entry \in {"running", "unresponsive"}
              THEN <<NewSessionResume(seq)>> ELSE <<>>) \o
             (IF resumePending THEN <<MachineResumed>> ELSE <<>>))
  BY DEF Handshake
<1> DEFINE one == <<NewMachineRegister>>
           two == IF alive /\ entry \in {"running", "unresponsive"}
                  THEN <<NewSessionResume(seq)>> ELSE <<>>
           three == IF resumePending THEN <<MachineResumed>> ELSE <<>>
<1>3. one \in Seq(UpFrames) /\ three \in Seq(UpFrames)
  BY BuiltUp
<1>4. two \in Seq(UpFrames)
  <2>1. NewSessionResume(seq) \in UpFrames
    BY <1>0, BuiltUp DEF DaemonOK
  <2> QED
    BY <2>1
<1>5. Emit(one \o two \o three)
  BY <1>2
<1> HIDE DEF one, two, three
<1>6. one \o two \o three \in Seq(UpFrames)
  BY <1>3, <1>4
<1>7. up' \in Seq(UpFrames) /\ Len(up') <= MaxUp
  BY <1>0, <1>5, <1>6, EmitFacts
<1>8. WireOK'
  BY <1>0, <1>1, <1>7 DEF WireOK
<1> QED
  BY <1>1, <1>8, WireStep

\* A suspend says so and closes.
LEMMA StepNotifySuspend == ASSUME IInv, NotifySuspend PROVE IInv'
<1>0. WireOK
  BY DEF IInv
<1>1. /\ UNCHANGED <<daemon, coord, malformed, down>> /\ Silent /\ Input
      /\ resumePending' = TRUE /\ Emit(<<MachineSuspending>>)
      /\ link' = IF link = "down" THEN link ELSE "closing"
  BY DEF NotifySuspend
<1>2. up' \in Seq(UpFrames) /\ Len(up') <= MaxUp /\ (link = "down" => up' = <<>>)
  BY <1>0, <1>1, OneSent, BuiltUp
<1>3. WireOK'
  BY <1>0, <1>1, <1>2 DEF WireOK
<1> QED
  BY <1>1, <1>3, WireStep

\* readLoop takes the next frame, and a spawn is answered.
LEMMA StepReadFrame == ASSUME IInv, ReadFrame PROVE IInv'
<1>0. WireOK
  BY DEF IInv
<1>1. /\ UNCHANGED <<daemon, link, resumePending, coord, malformed, inputs>> /\ Silent
      /\ down # <<>> /\ down' = Tail(down)
  BY DEF ReadFrame
<1>2. up' = up \/ \E b \in BOOLEAN : Emit(<<SpawnAnswer(b)>>)
  BY DEF ReadFrame
<1>3. up' \in Seq(UpFrames) /\ Len(up') <= MaxUp /\ (link = "down" => up' = <<>>)
  BY <1>0, <1>2, NothingSent, OneSent, BuiltUp
<1>4. down' \in Seq(DownFrames) /\ Len(down') <= 1
  BY <1>0, <1>1 DEF WireOK
<1>5. WireOK'
  BY <1>0, <1>1, <1>3, <1>4 DEF WireOK
<1> QED
  BY <1>1, <1>5, WireStep
-----------------------------------------------------------------------------
(***************************************************************************)
(* Steps of the coordinator.                                               *)
(***************************************************************************)
\* The frame Handle reads is one the daemon built, and leaves the connection.
LEMMA ReadsFacts ==
  ASSUME IInv, NEW type, Reads(type), CoordRest
  PROVE  /\ Head(up) \in UpFrames /\ Head(up).type = type
         /\ DaemonOK' /\ WireOK' /\ inputs' \in 0 .. MaxInputs
<1>0. WireOK /\ DaemonOK
  BY DEF IInv
<1>1. up # <<>> /\ Head(up).type = type /\ up' = Tail(up)
  BY DEF Reads
<1>2. UNCHANGED <<served, entry, ended, seq, link, resumePending, down, inputs>>
  BY DEF CoordRest, daemon
<1>3. Head(up) \in UpFrames /\ up' \in Seq(UpFrames) /\ Len(up') <= MaxUp
  BY <1>0, <1>1, FramePathAssumption DEF WireOK
<1>4. DaemonOK'
  BY <1>0, <1>2 DEF DaemonOK
<1>5. WireOK'
  BY <1>0, <1>1, <1>2, <1>3 DEF WireOK
<1> QED
  BY <1>1, <1>2, <1>3, <1>4, <1>5 DEF IInv

\* Among the frames of the daemon the type tells which one it is.
LEMMA FrameByType ==
  ASSUME NEW f \in UpFrames
  PROVE  /\ f.type = "session_started" => f = NewSessionStarted
         /\ f.type = "session_event" => f \in EventFrames
         /\ f.type = "session_pty" => f \in PtyFrames
         /\ f.type = "session_state_change" => f \in StateChangeFrames
         /\ f.type = "session_ended" => f \in EndedFrames
         /\ f.type = "session_resume" => f \in ResumeFrames
         /\ f.type = "spawn_response" => f \in {SpawnAnswer(b) : b \in BOOLEAN}
<1>1. f \in EventFrames => f.type = "session_event"
  BY DEF EventFrames
<1>2. f \in PtyFrames => f.type = "session_pty"
  BY DEF PtyFrames
<1>3. f \in StateChangeFrames => f.type = "session_state_change"
  BY DEF StateChangeFrames
<1>4. f \in EndedFrames => f.type = "session_ended"
  BY DEF EndedFrames
<1>5. f \in ResumeFrames => f.type = "session_resume"
  BY DEF ResumeFrames
<1>6. f \in {SpawnAnswer(b) : b \in BOOLEAN} => f.type = "spawn_response"
  BY DEF SpawnAnswer
<1>7. /\ f = NewMachineRegister => f.type = "machine_register"
      /\ f = MachineSuspending => f.type = "machine_suspending"
      /\ f = MachineResumed => f.type = "machine_resumed"
      /\ f = NewSessionStarted => f.type = "session_started"
  BY DEF NewMachineRegister, MachineSuspending, MachineResumed, NewSessionStarted
<1> QED
  BY <1>1, <1>2, <1>3, <1>4, <1>5, <1>6, <1>7 DEF UpFrames

\* notifyChange sends the list as it is after the step.
LEMMA ListedDecodes ==
  ASSUME SessionOK', AppOK' PROVE \A f \in Listed : AppFrameDecodes(f)
<1>1. AppFrameDecodes(MachineListFrame(mach', sess'))
  BY ListDecodes DEF SessionOK, AppOK
<1> QED
  BY <1>1 DEF Listed

\* A handler that dispatches nothing.
LEMMA NoPushFacts ==
  ASSUME IInv, NoPush
  PROVE  LinkNotRefused' /\ \A p \in toDevice' : Decodes(PushPayloadJson, p)
<1>1. UNCHANGED <<malformed>> /\ toDevice' = {}
  BY DEF NoPush
<1> QED
  BY <1>1 DEF IInv, LinkNotRefused

\* A handler that dispatches under reasons of the payload's schema.
LEMMA NotifyPushFacts ==
  ASSUME IInv, NEW reasons \in SUBSET PushReasons, NotifyPush(reasons)
  PROVE  LinkNotRefused' /\ \A p \in toDevice' : Decodes(PushPayloadJson, p)
<1>1. malformed' = malformed
  BY DEF NotifyPush
<1>2. \A p \in toDevice' : \E r \in PushReasons : p = PushPayload(r)
  BY DEF NotifyPush
<1> QED
  BY <1>1, <1>2, PayloadDecodes DEF IInv, LinkNotRefused

\* A handler of the coordinator, from what it does to each part.
LEMMA CoordStep ==
  ASSUME IInv, NEW type, Reads(type), CoordRest, SessionOK', AppOK', LinkNotRefused',
         \A f \in toApp' : AppFrameDecodes(f),
         \A p \in toDevice' : Decodes(PushPayloadJson, p)
  PROVE  IInv'
<1>1. SentOK'
  BY DEF SentOK
<1>2. DaemonOK' /\ WireOK' /\ inputs' \in 0 .. MaxInputs
  BY ReadsFacts
<1> QED
  BY <1>1, <1>2 DEF IInv

\* machine_register: the machine is online, the list is sent.
LEMMA StepMachineRegister == ASSUME IInv, handleMachineRegister PROVE IInv'
<1>1. /\ Reads("machine_register") /\ CoordRest /\ NoPush /\ toApp' = Listed
      /\ registered' = TRUE /\ mach' = "online" /\ UNCHANGED <<sess, app, spawning>>
  BY DEF handleMachineRegister
<1>2. SessionOK' /\ AppOK'
  BY <1>1 DEF IInv, SessionOK, AppOK
<1> QED
  BY <1>1, <1>2, ListedDecodes, NoPushFacts, CoordStep

\* Detaching and attaching change one flag.
LEMMA AppTyped ==
  ASSUME AppOK, NEW b \in BOOLEAN
  PROVE  /\ [app EXCEPT !.attached = b] \in [hello : BOOLEAN, subscribed : BOOLEAN, attached : BOOLEAN]
         /\ [app EXCEPT !.hello = b] \in [hello : BOOLEAN, subscribed : BOOLEAN, attached : BOOLEAN]
         /\ [app EXCEPT !.subscribed = b] \in [hello : BOOLEAN, subscribed : BOOLEAN, attached : BOOLEAN]
  BY DEF AppOK

\* A registered session is a fresh one, with an empty ring.
LEMMA RegisteredFacts ==
  ASSUME NEW meta \in Metas, NEW last \in Nat
  PROVE  /\ Registered(meta, last) \in Sessions
         /\ Len(Registered(meta, last).ring) <= RingCap
         /\ Registered(meta, last).latest <= Registered(meta, last).last
<1>1. RingCap \in Nat
  BY FramePathAssumption
<1>2. <<>> \in Seq(RingFrames) /\ Len(<<>>) = 0
  OBVIOUS
<1> QED
  BY <1>1, <1>2 DEF Registered, Sessions, SessionStates

\* session_started replaces the session.
LEMMA StepSessionStarted == ASSUME IInv, handleSessionStarted PROVE IInv'
<1>1. /\ Reads("session_started") /\ CoordRest /\ NoPush /\ toApp' = Listed
      /\ sess' = Registered(Head(up).metadata, 0)
      /\ app' = [app EXCEPT !.attached = FALSE] /\ UNCHANGED <<registered, mach, spawning>>
  BY DEF handleSessionStarted
<1>2. Head(up) = NewSessionStarted
  BY <1>1, ReadsFacts, FrameByType
<1>3. Head(up).metadata \in Metas
  <2>1. NewSessionStarted.metadata = Metadata
    BY DEF NewSessionStarted
  <2>2. Metadata \in Metas
    BY DEF Metadata, Metas
  <2> QED
    BY <1>2, <2>1, <2>2
<1>4. SessionOK'
  BY <1>1, <1>3, RegisteredFacts DEF SessionOK
<1>5. AppOK
  BY DEF IInv
<1>6. AppOK'
  BY <1>1, <1>5, AppTyped DEF AppOK
<1> QED
  BY <1>1, <1>4, <1>6, ListedDecodes, NoPushFacts, CoordStep

\* The ring takes the frame and keeps within its limit.
LEMMA PublishedFacts ==
  ASSUME IInv, sess # NoSession, NEW f \in RingFrames
  PROVE  /\ Published(f) \in Sessions
         /\ Len(Published(f).ring) <= RingCap
         /\ Published(f).latest <= Published(f).last
<1> DEFINE all == Append(sess.ring, f)
           from == IF Len(all) > RingCap THEN 2 ELSE 1
           kept == SubSeq(all, from, Len(all))
<1>1. sess \in Sessions /\ Len(sess.ring) <= RingCap
  BY DEF IInv, SessionOK
<1>2. sess.ring \in Seq(RingFrames)
  BY <1>1 DEF Sessions
<1>3. RingCap \in Nat /\ RingCap >= 1
  BY FramePathAssumption
<1>4. all \in Seq(RingFrames) /\ Len(all) = Len(sess.ring) + 1 /\ Len(sess.ring) \in Nat
  BY <1>2
<1>5. from \in 1 .. Len(all) /\ Len(all) - from + 1 <= RingCap /\ Len(all) - from + 1 >= 1
  BY <1>1, <1>3, <1>4
<1> HIDE DEF all, from
<1>6. kept \in Seq(RingFrames) /\ Len(kept) = Len(all) - from + 1
  BY <1>4, <1>5
<1>7. kept[1] \in RingFrames /\ Len(kept) <= RingCap
  BY <1>5, <1>6
<1>8. \A g \in RingFrames : g.seq \in Nat
  BY DEF RingFrames, EventFrames, PtyFrames, Numbers
<1>9. Published(f) = [sess EXCEPT !.ring = kept, !.earliest = kept[1].seq,
                                  !.latest = f.seq, !.last = f.seq]
  BY DEF Published, all, from
<1> HIDE DEF kept
<1>10. kept[1].seq \in Nat /\ f.seq \in Nat
  BY <1>7, <1>8
<1>11. Published(f) \in Sessions
  BY <1>1, <1>6, <1>9, <1>10 DEF Sessions
<1>12. Published(f).ring = kept /\ Published(f).latest = f.seq /\ Published(f).last = f.seq
  BY <1>1, <1>9 DEF Sessions
<1> QED
  BY <1>7, <1>10, <1>11, <1>12

\* What a publisher does to the session and to the app.
LEMMA PublishSession ==
  ASSUME IInv, NEW f \in RingFrames,
         sess' = sess \/ (sess # NoSession /\ sess' = Published(f)),
         toApp' = {} \/ toApp' = Live(f)
  PROVE  SessionOK' /\ \A g \in toApp' : AppFrameDecodes(g)
<1>1. SessionOK'
  BY PublishedFacts DEF IInv, SessionOK
<1>2. AppFrameDecodes(f)
  BY RingDecodes
<1> QED
  BY <1>1, <1>2 DEF Live

\* An event's reasons are reasons of the payload.
LEMMA EventReasons ==
  ASSUME NEW kind \in EventKinds
  PROVE  {pushEventReasons[k] : k \in {kind} \cap DOMAIN pushEventReasons} \in SUBSET PushReasons
  BY DEF EventKinds, pushEventReasons, PushReasons

\* session_event: published if it advances, and pushed if its kind has a reason.
LEMMA StepSessionEvent == ASSUME IInv, handleSessionEvent PROVE IInv'
<1> DEFINE f == Head(up)
           reasons == {pushEventReasons[k] : k \in {f.kind} \cap DOMAIN pushEventReasons}
<1>1. /\ Reads("session_event") /\ CoordRest /\ UNCHANGED <<registered, mach, app, spawning>>
  BY DEF handleSessionEvent
<1>2. \/ sess' = sess /\ Silent /\ UNCHANGED malformed
      \/ /\ sess # NoSession /\ sess' = Published(f) /\ toApp' = Live(f)
         /\ NotifyPush(reasons)
  BY DEF handleSessionEvent, Advances
<1>3. f \in EventFrames
  BY <1>1, ReadsFacts, FrameByType
<1>4. f \in RingFrames /\ f.kind \in EventKinds
  BY <1>3 DEF RingFrames, EventFrames
<1>5. SessionOK' /\ \A g \in toApp' : AppFrameDecodes(g)
  BY <1>2, <1>4, PublishSession DEF Silent
<1>6. LinkNotRefused' /\ \A p \in toDevice' : Decodes(PushPayloadJson, p)
  <2>1. CASE sess' = sess /\ Silent /\ UNCHANGED malformed
    BY <2>1, NoPushFacts DEF NoPush, Silent
  <2>2. CASE NotifyPush(reasons)
    <3>1. reasons \in SUBSET PushReasons
      BY <1>4, EventReasons
    <3> HIDE DEF reasons, f
    <3> QED
      BY <2>2, <3>1, NotifyPushFacts
  <2> QED
    BY <1>2, <2>1, <2>2
<1>7. AppOK'
  BY <1>1 DEF IInv, AppOK
<1> QED
  BY <1>1, <1>5, <1>6, <1>7, CoordStep

\* session_pty: published if it advances, never pushed.
LEMMA StepSessionPty == ASSUME IInv, handleSessionPty PROVE IInv'
<1> DEFINE f == Head(up)
<1>1. /\ Reads("session_pty") /\ CoordRest /\ NoPush
      /\ UNCHANGED <<registered, mach, app, spawning>>
  BY DEF handleSessionPty
<1>2. \/ sess' = sess /\ toApp' = {}
      \/ sess # NoSession /\ sess' = Published(f) /\ toApp' = Live(f)
  BY DEF handleSessionPty, Advances
<1>3. f \in RingFrames
  BY <1>1, ReadsFacts, FrameByType DEF RingFrames
<1>4. SessionOK' /\ \A g \in toApp' : AppFrameDecodes(g)
  BY <1>2, <1>3, PublishSession
<1>5. AppOK'
  BY <1>1 DEF IInv, AppOK
<1> QED
  BY <1>1, <1>4, <1>5, NoPushFacts, CoordStep

\* A session keeps its ring and its type while its state and last number move.
LEMMA MovedFacts ==
  ASSUME IInv, sess # NoSession, NEW st \in SessionStates, NEW b \in BOOLEAN, NEW n \in Nat
  PROVE  LET s == [sess EXCEPT !.state = st, !.last = Larger(n)]
             t == [sess EXCEPT !.state = st, !.ended = b, !.last = Larger(n)]
         IN  /\ s \in Sessions /\ Len(s.ring) <= RingCap /\ s.latest <= s.last
             /\ t \in Sessions /\ Len(t.ring) <= RingCap /\ t.latest <= t.last
<1> DEFINE s == [sess EXCEPT !.state = st, !.last = Larger(n)]
           t == [sess EXCEPT !.state = st, !.ended = b, !.last = Larger(n)]
<1>1. sess \in Sessions /\ Len(sess.ring) <= RingCap /\ sess.latest <= sess.last
  BY DEF IInv, SessionOK
<1>2. sess.latest \in Nat /\ sess.last \in Nat
  BY <1>1 DEF Sessions
<1>3. Larger(n) \in Nat /\ sess.latest <= Larger(n)
  BY <1>1, <1>2 DEF Larger
<1>4. s \in Sessions /\ t \in Sessions
  BY <1>1, <1>3 DEF Sessions
<1>5. /\ s.ring = sess.ring /\ s.latest = sess.latest /\ s.last = Larger(n)
      /\ t.ring = sess.ring /\ t.latest = sess.latest /\ t.last = Larger(n)
  BY <1>1 DEF Sessions
<1> HIDE DEF s, t
<1>6. /\ s \in Sessions /\ Len(s.ring) <= RingCap /\ s.latest <= s.last
      /\ t \in Sessions /\ Len(t.ring) <= RingCap /\ t.latest <= t.last
  BY <1>1, <1>3, <1>4, <1>5
<1> QED
  BY <1>6 DEF s, t

\* session_state_change: the new state to the list and to the attached app, and a push
\* for the two states that have one.
LEMMA StepSessionStateChange == ASSUME IInv, handleSessionStateChange PROVE IInv'
<1> DEFINE f == Head(up)
           reasons == IF f.to = "idle" THEN {"agent_idle"}
                      ELSE IF f.to = "unresponsive" THEN {"unresponsive"} ELSE {}
<1>1. /\ Reads("session_state_change") /\ CoordRest
      /\ UNCHANGED <<registered, mach, app, spawning>>
      /\ NotifyPush(reasons)
  BY DEF handleSessionStateChange
<1>2. sess' = IF sess = NoSession THEN sess
              ELSE [sess EXCEPT !.state = f.to, !.last = Larger(f.seq)]
  BY DEF handleSessionStateChange
<1>3. toApp' = Listed \cup (IF sess = NoSession THEN {}
                            ELSE Live(forwardStateChange(f.from, f.to)))
  BY DEF handleSessionStateChange
<1>4. f \in StateChangeFrames
  BY <1>1, ReadsFacts, FrameByType
<1>5. f.from \in SessionStates /\ f.to \in SessionStates /\ f.seq \in Nat
  BY <1>4 DEF StateChangeFrames, Numbers
<1>6. reasons \in SUBSET PushReasons
  BY DEF PushReasons
<1> HIDE DEF f, reasons
<1>7. LinkNotRefused' /\ \A p \in toDevice' : Decodes(PushPayloadJson, p)
  BY <1>1, <1>6, NotifyPushFacts
<1>8. SessionOK'
  <2>1. CASE sess = NoSession
    BY <1>2, <2>1 DEF SessionOK
  <2>2. CASE sess # NoSession
    BY <1>2, <1>5, <2>2, MovedFacts DEF SessionOK
  <2> QED
    BY <2>1, <2>2
<1>9. AppOK'
  BY <1>1 DEF IInv, AppOK
<1>10. \A g \in toApp' : AppFrameDecodes(g)
  BY <1>3, <1>5, <1>8, <1>9, ListedDecodes, ForwardedDecodes DEF Live
<1> QED
  BY <1>1, <1>7, <1>8, <1>9, <1>10, CoordStep

\* session_ended: the reason is passed on, and every end is pushed.
LEMMA StepSessionEnded == ASSUME IInv, handleSessionEnded PROVE IInv'
<1> DEFINE f == Head(up)
<1>1. /\ Reads("session_ended") /\ CoordRest
      /\ UNCHANGED <<registered, mach, app, spawning>>
      /\ NotifyPush({"session_ended"})
  BY DEF handleSessionEnded
<1>2. sess' = IF sess = NoSession THEN sess
              ELSE [sess EXCEPT !.state = "ended", !.ended = TRUE, !.last = Larger(f.seq)]
  BY DEF handleSessionEnded
<1>3. toApp' = Listed \cup (IF sess = NoSession THEN {} ELSE Live(forwardEnded(f.reason)))
  BY DEF handleSessionEnded
<1>4. f \in EndedFrames
  BY <1>1, ReadsFacts, FrameByType
<1>5. f.reason \in EndedReasons /\ f.seq \in Nat /\ "ended" \in SessionStates
  BY <1>4 DEF EndedFrames, Numbers, SessionStates
<1>6. {"session_ended"} \in SUBSET PushReasons
  BY DEF PushReasons
<1> HIDE DEF f
<1>7. LinkNotRefused' /\ \A p \in toDevice' : Decodes(PushPayloadJson, p)
  BY <1>1, <1>6, NotifyPushFacts
<1>8. SessionOK'
  <2>1. CASE sess = NoSession
    BY <1>2, <2>1 DEF SessionOK
  <2>2. CASE sess # NoSession
    BY <1>2, <1>5, <2>2, MovedFacts DEF SessionOK
  <2> QED
    BY <2>1, <2>2
<1>9. AppOK'
  BY <1>1 DEF IInv, AppOK
<1>10. \A g \in toApp' : AppFrameDecodes(g)
  BY <1>3, <1>5, <1>8, <1>9, ListedDecodes, ForwardedDecodes DEF Live
<1> QED
  BY <1>1, <1>7, <1>8, <1>9, <1>10, CoordStep

\* session_resume: a known session runs on, an unknown one appears without metadata.
LEMMA StepSessionResume == ASSUME IInv, handleSessionResume PROVE IInv'
<1> DEFINE f == Head(up)
           empty == [Metadata EXCEPT !.cwd = "", !.project_name = "", !.hostname = "",
                                     !.model = "", !.started_at = 0]
<1>1. /\ Reads("session_resume") /\ CoordRest /\ NoPush /\ toApp' = Listed
      /\ UNCHANGED <<registered, mach, app, spawning>>
  BY DEF handleSessionResume
<1>2. sess' = IF sess = NoSession THEN Registered(empty, f.last_seq_emitted)
              ELSE [sess EXCEPT !.state = "running", !.last = Larger(f.last_seq_emitted)]
  BY DEF handleSessionResume
<1>3. f \in ResumeFrames
  BY <1>1, ReadsFacts, FrameByType
<1>4. f.last_seq_emitted \in Nat /\ "running" \in SessionStates
  BY <1>3 DEF ResumeFrames, SessionStates
<1>5. empty \in Metas
  BY DEF Metadata, Metas
<1> HIDE DEF f, empty
<1>6. SessionOK'
  <2>1. CASE sess = NoSession
    BY <1>2, <1>4, <1>5, <2>1, RegisteredFacts DEF SessionOK
  <2>2. CASE sess # NoSession
    BY <1>2, <1>4, <2>2, MovedFacts DEF SessionOK
  <2> QED
    BY <2>1, <2>2
<1>7. AppOK'
  BY <1>1 DEF IInv, AppOK
<1> QED
  BY <1>1, <1>6, <1>7, ListedDecodes, NoPushFacts, CoordStep

\* spawn_response: the waiting app gets the answer in its own schema.
LEMMA StepSpawnResponse == ASSUME IInv, handleSpawnResponse PROVE IInv'
<1>1. /\ Reads("spawn_response") /\ CoordRest /\ NoPush /\ spawning' = FALSE
      /\ UNCHANGED <<registered, mach, sess, app>>
      /\ toApp' = IF spawning /\ app.hello THEN {SpawnResponse(Head(up).success)} ELSE {}
  BY DEF handleSpawnResponse
<1>2. Head(up) \in {SpawnAnswer(b) : b \in BOOLEAN}
  BY <1>1, ReadsFacts, FrameByType
<1>3. Head(up).success \in BOOLEAN
  <2>1. SpawnAnswer(TRUE).success = TRUE /\ SpawnAnswer(FALSE).success = FALSE
    BY DEF SpawnAnswer
  <2>2. Head(up) = SpawnAnswer(TRUE) \/ Head(up) = SpawnAnswer(FALSE)
    BY <1>2
  <2> QED
    BY <2>1, <2>2
<1>4. \A g \in toApp' : AppFrameDecodes(g)
  BY <1>1, <1>3, ForwardedDecodes
<1>5. SessionOK' /\ AppOK'
  BY <1>1 DEF IInv, SessionOK, AppOK
<1> QED
  BY <1>1, <1>4, <1>5, NoPushFacts, CoordStep

\* Pausing a session keeps the rest of it.
LEMMA PausedFacts ==
  ASSUME IInv, sess' = sess \/ sess' = Paused PROVE SessionOK'
<1>1. CASE sess' = sess
  BY <1>1 DEF IInv, SessionOK
<1>2. CASE sess' # sess
  <2>1. sess' = [sess EXCEPT !.state = "paused"] /\ sess # NoSession
    BY <1>2 DEF Paused, ToPause
  <2>2. sess \in Sessions /\ Len(sess.ring) <= RingCap /\ sess.latest <= sess.last
    BY <2>1 DEF IInv, SessionOK
  <2>3. sess' \in Sessions
    BY <2>1, <2>2 DEF Sessions, SessionStates
  <2>4. sess'.ring = sess.ring /\ sess'.latest = sess.latest /\ sess'.last = sess.last
    BY <2>1, <2>2 DEF Sessions
  <2> QED
    BY <2>2, <2>3, <2>4 DEF SessionOK
<1> QED
  BY <1>1, <1>2

\* An app that is attached hears of the pause, from the state the session was in.
LEMMA TellPausedDecodes ==
  ASSUME IInv PROVE \A f \in TellPaused : AppFrameDecodes(f)
<1>1. CASE ToPause
  <2>1. sess.state \in SessionStates /\ "paused" \in SessionStates
    BY <1>1 DEF ToPause, IInv, SessionOK, Sessions, SessionStates
  <2>2. AppFrameDecodes(forwardStateChange(sess.state, "paused"))
    BY <2>1, ForwardedDecodes
  <2> QED
    BY <1>1, <2>2 DEF TellPaused, Live
<1>2. CASE ~ToPause
  BY <1>2 DEF TellPaused
<1> QED
  BY <1>1, <1>2

\* machine_suspending pauses the machine's sessions; an unknown type does nothing.
LEMMA StepSuspendingUnknown ==
  ASSUME IInv, handleMachineSuspending \/ UnknownType PROVE IInv'
<1>1. CASE handleMachineSuspending
  <2>1. /\ Reads("machine_suspending") /\ CoordRest /\ NoPush /\ toApp' = Listed \cup TellPaused
        /\ mach' = "suspended" /\ sess' = Paused /\ UNCHANGED <<registered, app, spawning>>
    BY <1>1 DEF handleMachineSuspending
  <2>2. SessionOK'
    BY <2>1, PausedFacts
  <2>3. AppOK'
    BY <2>1 DEF IInv, AppOK
  <2> QED
    BY <2>1, <2>2, <2>3, ListedDecodes, TellPausedDecodes, NoPushFacts, CoordStep
<1>2. CASE UnknownType
  <2>1. /\ Reads("machine_resumed") /\ CoordRest /\ NoPush /\ toApp' = {}
        /\ UNCHANGED <<registered, mach, sess, app, spawning>>
    BY <1>2 DEF UnknownType, coord
  <2>2. SessionOK' /\ AppOK'
    BY <2>1 DEF IInv, SessionOK, AppOK
  <2> QED
    BY <2>1, <2>2, NoPushFacts, CoordStep
<1> QED
  BY <1>1, <1>2

\* The end of the connection, refused or not: never for a frame that does not decode.
LEMMA StepEndLink == ASSUME IInv, Refuse \/ LinkEnds PROVE IInv'
<1>1. EndLink
  BY DEF Refuse, LinkEnds
<1>2. malformed' = malformed
  <2>1. CASE LinkEnds
    BY <2>1 DEF LinkEnds
  <2>2. CASE Refuse
    <3>1. up # <<>> /\ up \in Seq(UpFrames)
      BY <2>2 DEF Refuse, IInv, WireOK
    <3>2. Head(up) \in UpFrames
      BY <3>1
    <3> QED
      BY <2>2, <3>2, UpDecodes DEF Refuse
  <2> QED
    BY <2>1, <2>2
<1>3. /\ link' = "down" /\ up' = <<>> /\ down' = <<>> /\ registered' = FALSE
      /\ sess' = IF registered THEN Paused ELSE sess
      /\ UNCHANGED <<served, entry, ended, seq, resumePending, mach, app, spawning,
                     inputs>>
      /\ toApp' = (IF registered THEN Listed \cup TellPaused ELSE {}) /\ toDevice' = {}
  BY <1>1 DEF EndLink, daemon
<1>4. DaemonOK'
  BY <1>3 DEF IInv, DaemonOK
<1>5. WireOK'
  <2>1. up' \in Seq(UpFrames) /\ down' \in Seq(DownFrames) /\ Len(up') = 0 /\ Len(down') = 0
    BY <1>3
  <2>2. MaxUp \in Nat
    BY FramePathAssumption
  <2>3. Len(up') <= MaxUp /\ Len(down') <= 1
    BY <2>1, <2>2
  <2>4. resumePending' \in BOOLEAN
    BY <1>3 DEF IInv, WireOK
  <2> QED
    BY <1>3, <2>1, <2>3, <2>4 DEF WireOK
<1>6. SessionOK'
  BY <1>3, PausedFacts
<1>7. AppOK'
  BY <1>3 DEF IInv, AppOK
<1>8. SentOK'
  BY <1>3, <1>6, <1>7, ListedDecodes, TellPausedDecodes DEF SentOK
<1>9. LinkNotRefused' /\ inputs' \in 0 .. MaxInputs
  BY <1>2, <1>3 DEF IInv, LinkNotRefused
<1> QED
  BY <1>4, <1>5, <1>6, <1>7, <1>8, <1>9 DEF IInv
-----------------------------------------------------------------------------
(***************************************************************************)
(* Steps of the app.                                                       *)
(***************************************************************************)
\* A frame of the app changes its connection, what goes down and what it is sent.
LEMMA AppStepFacts ==
  ASSUME IInv, AppRest, inputs' = inputs \/ Input,
         down' \in Seq(DownFrames), Len(down') <= 1, link = "down" => down' = <<>>,
         app' \in [hello : BOOLEAN, subscribed : BOOLEAN, attached : BOOLEAN],
         spawning' \in BOOLEAN, \A f \in toApp' : AppFrameDecodes(f)
  PROVE  IInv'
<1>1. /\ UNCHANGED <<served, entry, ended, seq, link, resumePending, up, registered, mach, sess>>
      /\ NoPush
  BY DEF AppRest, daemon
<1>2. DaemonOK'
  BY <1>1 DEF IInv, DaemonOK
<1>3. WireOK'
  BY <1>1 DEF IInv, WireOK
<1>4. SessionOK'
  BY <1>1 DEF IInv, SessionOK
<1>5. AppOK'
  BY <1>1 DEF IInv, AppOK
<1>6. LinkNotRefused' /\ \A p \in toDevice' : Decodes(PushPayloadJson, p)
  BY <1>1, NoPushFacts
<1>7. SentOK'
  BY <1>6 DEF SentOK
<1>8. inputs' \in 0 .. MaxInputs
  BY FramePathAssumption DEF IInv, Input
<1> QED
  BY <1>2, <1>3, <1>4, <1>5, <1>6, <1>7, <1>8 DEF IInv

\* Nothing goes down.
LEMMA DownKept ==
  ASSUME IInv, down' = down
  PROVE  down' \in Seq(DownFrames) /\ Len(down') <= 1 /\ (link = "down" => down' = <<>>)
  BY DEF IInv, WireOK

\* A frame goes down to a machine that can be written to, if there is one.
LEMMA ForwardFacts ==
  ASSUME IInv, NEW f \in DownFrames, Forward(f)
  PROVE  down' \in Seq(DownFrames) /\ Len(down') <= 1 /\ (link = "down" => down' = <<>>)
<1>1. CASE Writable
  <2>1. down' = <<f>> /\ link # "down"
    BY <1>1 DEF Forward, Writable
  <2>2. <<f>> \in Seq(DownFrames) /\ Len(<<f>>) = 1
    OBVIOUS
  <2> QED
    BY <2>1, <2>2
<1>2. CASE ~Writable
  <2>1. down' = down
    BY <1>2 DEF Forward
  <2> QED
    BY <2>1, DownKept
<1> QED
  BY <1>1, <1>2

\* The frames of the app that only concern its own connection.
LEMMA StepHelloDetachSubscribe ==
  ASSUME IInv, (\E f : ClientHello(f)) \/ (\E f : Detach(f)) \/ SubscribeMachineList
  PROVE  IInv'
<1>0. AppOK /\ SessionOK /\ spawning \in BOOLEAN
  BY DEF IInv, AppOK
<1>1. ASSUME NEW f, ClientHello(f) PROVE IInv'
  <2> DEFINE b == Decodes(ClientHelloJson, f)
  <2>1. /\ AppRest /\ Input /\ UNCHANGED <<down, spawning>> /\ toApp' = {}
        /\ app' = [app EXCEPT !.hello = b]
    BY <1>1 DEF ClientHello
  <2>2. b \in BOOLEAN
    BY DEF Decodes
  <2> HIDE DEF b
  <2>3. app' \in [hello : BOOLEAN, subscribed : BOOLEAN, attached : BOOLEAN]
    BY <1>0, <2>1, <2>2, AppTyped
  <2> QED
    BY <1>0, <2>1, <2>3, DownKept, AppStepFacts
<1>2. ASSUME NEW f, Detach(f) PROVE IInv'
  <2>1. /\ AppRest /\ Input /\ UNCHANGED <<down, spawning>> /\ toApp' = {}
        /\ app' = [app EXCEPT !.attached = FALSE]
    BY <1>2 DEF Detach
  <2>2. app' \in [hello : BOOLEAN, subscribed : BOOLEAN, attached : BOOLEAN]
    BY <1>0, <2>1, AppTyped
  <2> QED
    BY <1>0, <2>1, <2>2, DownKept, AppStepFacts
<1>3. CASE SubscribeMachineList
  <2>1. /\ AppRest /\ Input /\ UNCHANGED <<down, spawning>>
        /\ toApp' = {MachineListFrame(mach, sess)} /\ app' = [app EXCEPT !.subscribed = TRUE]
    BY <1>3 DEF SubscribeMachineList
  <2>2. app' \in [hello : BOOLEAN, subscribed : BOOLEAN, attached : BOOLEAN]
    BY <1>0, <2>1, AppTyped
  <2>3. AppFrameDecodes(MachineListFrame(mach, sess))
    BY <1>0, ListDecodes DEF AppOK, SessionOK
  <2> QED
    BY <1>0, <2>1, <2>2, <2>3, DownKept, AppStepFacts
<1> QED
  BY <1>1, <1>2, <1>3

\* attach: what is replayed comes out of the ring, or the gap is told.
LEMMA StepAttach == ASSUME IInv, NEW f, Attach(f) PROVE IInv'
<1> DEFINE from == IF "last_seq" \in DOMAIN f THEN f.last_seq ELSE 0
           all  == {sess.ring[i] : i \in {j \in DOMAIN sess.ring : sess.ring[j].seq > from}}
           ok   == from = 0 \/ from + 1 >= sess.earliest
           does == Decodes(AttachJson, f) /\ sess # NoSession
           b    == does \/ app.attached
<1>0. AppOK /\ SessionOK /\ spawning \in BOOLEAN
  BY DEF IInv, AppOK
<1>1. /\ AppRest /\ Input /\ UNCHANGED <<down, spawning>>
      /\ app' = [app EXCEPT !.attached = b]
      /\ toApp' = IF ~does THEN {} ELSE IF ok THEN all ELSE {ReplayUnavailable(sess)}
  BY DEF Attach
<1>2. b \in BOOLEAN
  BY DEF Decodes
<1>3. does => \A g \in all : AppFrameDecodes(g)
  <2>1. ASSUME does PROVE sess.ring \in Seq(RingFrames)
    BY <1>0, <2>1 DEF SessionOK, Sessions
  <2>2. ASSUME does, NEW i \in DOMAIN sess.ring PROVE sess.ring[i] \in RingFrames
    BY <2>1, <2>2
  <2> QED
    BY <2>2, RingDecodes
<1>4. does => AppFrameDecodes(ReplayUnavailable(sess))
  BY <1>0, UnavailableDecodes DEF SessionOK
<1> HIDE DEF ok, all, does, b
<1>5. app' \in [hello : BOOLEAN, subscribed : BOOLEAN, attached : BOOLEAN]
  BY <1>0, <1>1, <1>2, AppTyped
<1>6. \A g \in toApp' : AppFrameDecodes(g)
  BY <1>1, <1>3, <1>4
<1> QED
  BY <1>0, <1>1, <1>5, <1>6, DownKept, AppStepFacts

\* The frames of the app that go on to the daemon.
LEMMA StepForwarded ==
  ASSUME IInv, (\E f : SpawnSession(f)) \/ (\E f : PtyInput(f)) \/ (\E cols \in {0, 1} : PtyResize(cols))
  PROVE  IInv'
<1>0. /\ AppOK /\ spawning \in BOOLEAN /\ registered \in BOOLEAN
      /\ app \in [hello : BOOLEAN, subscribed : BOOLEAN, attached : BOOLEAN]
  BY DEF IInv, AppOK
<1>1. ASSUME NEW f, SpawnSession(f) PROVE IInv'
  <2>1. AppRest /\ Input /\ UNCHANGED app
    BY <1>1 DEF SpawnSession
  <2>2. Forward(SpawnRequest) \/ down' = down
    BY <1>1 DEF SpawnSession, SpawnRequest
  <2>3. spawning' = Writable \/ spawning' = spawning
    BY <1>1 DEF SpawnSession
  <2>4. spawning' \in BOOLEAN
    BY <1>0, <2>3 DEF Writable
  <2>5. toApp' = {} \/ toApp' = {SpawnResponse(FALSE)}
    BY <1>1 DEF SpawnSession
  <2>6. \A g \in toApp' : AppFrameDecodes(g)
    BY <2>5, ForwardedDecodes
  <2>7. SpawnRequest \in DownFrames
    BY DEF DownFrames
  <2>8. down' \in Seq(DownFrames) /\ Len(down') <= 1 /\ (link = "down" => down' = <<>>)
    BY <2>2, <2>7, DownKept, ForwardFacts
  <2> QED
    BY <1>0, <2>1, <2>4, <2>6, <2>8, AppStepFacts
<1>2. ASSUME NEW f, PtyInput(f) PROVE IInv'
  <2>1. AppRest /\ Input /\ UNCHANGED <<app, spawning>> /\ toApp' = {}
    BY <1>2 DEF PtyInput
  <2>2. Forward(DaemonPtyInput) \/ down' = down
    BY <1>2 DEF PtyInput
  <2>3. DaemonPtyInput \in DownFrames
    BY DEF DownFrames
  <2>4. down' \in Seq(DownFrames) /\ Len(down') <= 1 /\ (link = "down" => down' = <<>>)
    BY <2>2, <2>3, DownKept, ForwardFacts
  <2> QED
    BY <1>0, <2>1, <2>4, AppStepFacts
<1>3. ASSUME NEW cols \in {0, 1}, PtyResize(cols) PROVE IInv'
  <2> DEFINE g == [type |-> "pty_resize", v |-> 1, session_id |-> Id, cols |-> cols, rows |-> 1]
  <2>1. AppRest /\ Input /\ UNCHANGED <<app, spawning>> /\ toApp' = {}
    BY <1>3 DEF PtyResize
  <2>2. Forward(g) \/ down' = down
    BY <1>3 DEF PtyResize
  <2>3. g \in DownFrames
    BY DEF DownFrames, ResizeFrames
  <2> HIDE DEF g
  <2>4. down' \in Seq(DownFrames) /\ Len(down') <= 1 /\ (link = "down" => down' = <<>>)
    BY <2>2, <2>3, DownKept, ForwardFacts
  <2> QED
    BY <1>0, <2>1, <2>4, AppStepFacts
<1> QED
  BY <1>1, <1>2, <1>3

\* The app goes.
LEMMA StepAppGone == ASSUME IInv, AppGone PROVE IInv'
<1>1. AppRest /\ app' = NoApp /\ spawning' = FALSE /\ toApp' = {} /\ UNCHANGED <<down, inputs>>
  BY DEF AppGone
<1>2. app' \in [hello : BOOLEAN, subscribed : BOOLEAN, attached : BOOLEAN]
  BY <1>1 DEF NoApp
<1> QED
  BY <1>1, <1>2, DownKept, AppStepFacts

\* Every step of the app.
LEMMA StepApp == ASSUME IInv, AppStep PROVE IInv'
<1>1. \/ \E f : ClientHello(f)
      \/ \E f : Attach(f)
      \/ \E f : Detach(f)
      \/ SubscribeMachineList \/ AppGone
      \/ \E f : SpawnSession(f)
      \/ \E f : PtyInput(f)
      \/ \E cols \in {0, 1} : PtyResize(cols)
  BY Zenon DEF AppStep
<1> QED
  BY <1>1, StepHelloDetachSubscribe, StepAttach, StepForwarded, StepAppGone
-----------------------------------------------------------------------------
(***************************************************************************)
(* The theorems.                                                           *)
(***************************************************************************)
\* Every step keeps the invariant.
LEMMA NextIInv == ASSUME IInv, [Next]_vars PROVE IInv'
<1>1. CASE UNCHANGED vars
  <2>1. UNCHANGED <<served, entry, ended, seq, link, resumePending, up, down, registered, mach,
                    sess, app, spawning, toApp, toDevice, malformed, inputs>>
    BY <1>1 DEF vars, daemon, wire, coord
  <2>2. DaemonOK'
    BY <2>1 DEF IInv, DaemonOK
  <2>3. WireOK'
    BY <2>1 DEF IInv, WireOK
  <2>4. SessionOK' /\ AppOK'
    BY <2>1 DEF IInv, SessionOK, AppOK
  <2>5. SentOK' /\ LinkNotRefused' /\ inputs' \in 0 .. MaxInputs
    BY <2>1 DEF IInv, SentOK, LinkNotRefused
  <2> QED
    BY <2>2, <2>3, <2>4, <2>5 DEF IInv
<1>2. CASE LinkStep
  BY <1>2, StepSetConn, StepHandshake, StepNotifySuspend, StepEndLink DEF LinkStep
<1>3. CASE Handle
  BY <1>3, StepMachineRegister, StepSessionStarted, StepSessionEvent, StepSessionPty,
    StepSessionStateChange, StepSessionEnded, StepSessionResume, StepSpawnResponse,
    StepSuspendingUnknown, StepEndLink DEF Handle
<1> QED
  BY <1>1, <1>2, <1>3, StepServe, StepReadFrame, StepApp DEF Next

\* The frames on both connections, in the session's ring and on their way out are
\* always of the forms above.
THEOREM FramesInvariant == Spec => []IInv
<1>1. Init => IInv
  BY InitIInv
<1>2. IInv /\ [Next]_vars => IInv'
  BY NextIInv
<1> QED
  BY <1>1, <1>2, PTL DEF Spec

\* The variables keep their types and bounds: the connection holds no more than it can,
\* the ring no more than its limit, and no session published more than it accepted.
THEOREM TypeCorrect == Spec => []TypeOK
<1>1. IInv => TypeOK
  <2> SUFFICES ASSUME IInv PROVE TypeOK
    OBVIOUS
  <2>1. sess.state \in SessionStates \cup {"none"}
    BY DEF IInv, SessionOK, Sessions, NoSession
  <2> QED
    BY <2>1 DEF IInv, TypeOK, DaemonOK, WireOK, SessionOK, AppOK
<1> QED
  BY <1>1, FramesInvariant, PTL

\* The coordinator never closes the daemon's connection over a frame the daemon built.
THEOREM NotRefused == Spec => []LinkNotRefused
<1>1. IInv => LinkNotRefused
  BY DEF IInv
<1> QED
  BY <1>1, FramesInvariant, PTL

\* Everything delivered to apps, devices and the daemon decodes by the receiver's schema.
THEOREM AllDelivered == Spec => []DeliveredDecodes
<1>1. IInv => DeliveredDecodes
  <2> SUFFICES ASSUME IInv PROVE DeliveredDecodes
    OBVIOUS
  <2>1. down \in Seq(DownFrames)
    BY DEF IInv, WireOK
  <2>2. \A i \in DOMAIN down : down[i] \in DownFrames
    BY <2>1
  <2> QED
    BY <2>2, DownDecodes DEF IInv, SentOK, DeliveredDecodes
<1> QED
  BY <1>1, FramesInvariant, PTL
=============================================================================
