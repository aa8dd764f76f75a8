------------------------------- MODULE AppHub -------------------------------
(***************************************************************************)
(* What the coordinator tells its apps of one machine and one session:     *)
(* the machine_list frames that every change of the registries sends to    *)
(* the subscribed connections (internal/http/client_ws.go), and the pushes *)
(* of internal/push, filtered by each client's preferences and by the      *)
(* focus its connections claim.                                            *)
(*                                                                         *)
(* The goroutines are the daemon connections' handlers (a take-over makes  *)
(* two of them run at once), the apps' connections with a writer each, and *)
(* one per push.  Nothing orders a change of the registries, the list      *)
(* built from them (machines first, sessions after) and its queueing.      *)
(* Which frames of a daemon are accepted, and in which order, is           *)
(* DaemonLink's; replay and live frames are SessionFanout's.               *)
(***************************************************************************)
EXTENDS Naturals, Sequences, FiniteSets

CONSTANTS
  Handlers,                 \* daemon connections that may exist at once
  Conns,                    \* app connections
  Clients,                  \* registered devices
  None,                     \* no client
  Reported,                 \* states a session_state_change reports
  MaxFrames,                \* bound on the frames the daemon handlers read
  MaxQueue,                 \* capacity of a connection's sendChan (512)
  MaxPushes,                \* bound on the pushes dispatched
  MaxToggles                \* bound on client_focus frames and preference changes

ASSUME AppHubAssumption ==
  /\ None \notin Clients /\ Reported \subseteq {"running", "idle", "unresponsive"}
  /\ MaxFrames \in Nat /\ MaxQueue \in Nat \ {0} /\ MaxPushes \in Nat /\ MaxToggles \in Nat

VARIABLES
  mach, sess, ended,        \* Machine.State; Session.State and Ended
  hand,                     \* per handler: where it is, and the list it builds
  subs,                     \* clientWS.subs
  app,                      \* per app connection: where it is, and its snapshot
  owner,                    \* per app connection: the client_id of its hello
  queue,                    \* per app connection: the lists in sendChan
  clients,                  \* registered clients, with a push endpoint and a key
  prefs,                    \* per client: its override of the push toggles
  focus,                    \* FocusTracker.conns: the connections that claim focus
  push,                     \* per dispatch: where it is, and what it knows
  \* history and bounds
  told,                     \* app connections a current list was queued for since the
                            \* registries last changed
  full,                     \* app connections that lost a list to a full queue
  said,                     \* app connections whose last client_focus was true
  frames, toggles

registries == <<mach, sess, ended>>
lists  == <<subs, queue, told, full>>
device == <<clients, prefs, focus, said>>
vars   == <<registries, hand, lists, app, owner, device, push, frames, toggles>>

Pushes == 1 .. MaxPushes
SessionState == {"none", "running", "idle", "unresponsive", "paused", "ended"}
MachineList == [machine : {"none", "online", "suspended"}, session : SessionState]
Empty == [machine |-> "none", session |-> "none"]
Current == [machine |-> mach, session |-> sess]
\* One reason that is pushed by default and one that is not stand for the nine.
Reasons == {"unresponsive", "session_ended"}
NoPush == [pc |-> "none", reason |-> "unresponsive", snap |-> {}, posted |-> {},
           wanted |-> {}, away |-> {}, must |-> {}]

HandlerType == [pc : {"new", "read", "pause", "machines", "sessions", "queue"},
                next : {"new", "read"}, list : MachineList]
AppType == [pc : {"none", "hello", "loop", "machines", "sessions", "queue",
                  "unsubscribe", "unfocus", "gone"}, list : MachineList]
PushType == [pc : {"none", "list", "fanout", "done"}, reason : Reasons,
             snap : SUBSET Clients, posted : SUBSET Clients,
             wanted : SUBSET Clients, away : SUBSET Clients, must : SUBSET Clients]

TypeOK ==
  /\ Current \in MachineList /\ ended \in BOOLEAN
  /\ hand \in [Handlers -> HandlerType]
  /\ subs \subseteq Conns /\ focus \subseteq Conns /\ full \subseteq Conns
  /\ app \in [Conns -> AppType]
  /\ owner \in [Conns -> Clients \cup {None}]
  /\ queue \in [Conns -> Seq(MachineList)] /\ \A k \in Conns : Len(queue[k]) <= MaxQueue
  /\ told \subseteq Conns /\ said \subseteq Conns
  /\ clients \subseteq Clients /\ prefs \in [Clients -> {"default", "on", "off"}]
  /\ push \in [Pushes -> PushType]
  /\ frames \in 0 .. MaxFrames /\ toggles \in 0 .. MaxToggles

\* NewMux over empty registries.
Init ==
  /\ mach = "none" /\ sess = "none" /\ ended = FALSE
  /\ hand = [h \in Handlers |-> [pc |-> "new", next |-> "read", list |-> Empty]]
  /\ subs = {} /\ focus = {} /\ full = {}
  /\ app = [k \in Conns |-> [pc |-> "none", list |-> Empty]]
  /\ owner = [k \in Conns |-> None] /\ queue = [k \in Conns |-> <<>>]
  /\ told = {} /\ said = {}
  /\ clients = {} /\ prefs = [c \in Clients |-> "default"]
  /\ push = [i \in Pushes |-> NoPush]
  /\ frames = 0 /\ toggles = 0
-----------------------------------------------------------------------------
(***************************************************************************)
(* Push decisions.                                                         *)
(***************************************************************************)
defaultReasonEnabled(reason) == reason # "session_ended"

\* The effective value of one toggle of a client's preferences.
ReasonEnabled(pref, reason) ==
  IF pref = "default" THEN defaultReasonEnabled(reason) ELSE pref = "on"

\* IsFocused asks every connection's claims.
IsFocused(c) == \E k \in focus : owner[k] = c

\* The clients that want a push for `reason`, and those that look elsewhere: no
\* connection of theirs that is still open reported focus last.
Wants(reason) == {c \in clients : ReasonEnabled(prefs[c], reason)}
Away == {c \in Clients : \A k \in said : owner[k] # c}

\* History of the dispatches under way: who wanted the push, and who was away, at
\* some moment of it; for whom both held all along.
Track ==
  LET wants(i) == {c \in clients' : ReasonEnabled(prefs'[c], push[i].reason)} IN
  push' = [i \in Pushes |->
             IF push[i].pc \notin {"list", "fanout"} THEN push[i]
             ELSE [push[i] EXCEPT !.wanted = @ \cup wants(i), !.away = @ \cup Away',
                                  !.must = @ \cap wants(i) \cap Away']]

Dispatched(reason) ==
  [pc |-> "list", reason |-> reason, snap |-> {}, posted |-> {},
   wanted |-> Wants(reason), away |-> Away, must |-> Wants(reason) \cap Away]

\* notifyPush, and the goroutine NewMux starts for it.
NotifyPush(reason) ==
  LET free == {i \in Pushes : push[i].pc = "none"}
  IN  IF sess = "none" \/ free = {} THEN push' = push
      ELSE LET i == CHOOSE j \in free : \A other \in free : j <= other
           IN  push' = [push EXCEPT ![i] = Dispatched(reason)]

\* Dispatch reads the client records: endpoint, key and preferences.
DispatchList(i) ==
  /\ push[i].pc = "list"
  /\ push' = [push EXCEPT ![i].pc = "fanout",
                          ![i].snap = Wants(push[i].reason)]
  /\ UNCHANGED <<registries, hand, lists, app, owner, device, frames, toggles>>

\* One round of its loop: for whoever is not focused now the payload is sealed and
\* posted.  `posted` is who was tried: a Seal or Post that fails, or finds the time-out
\* of the whole dispatch used up, is logged and not repeated.
DispatchClient(i) ==
  /\ push[i].pc = "fanout"
  /\ \E c \in push[i].snap :
       push' = [push EXCEPT ![i].snap = @ \ {c},
                            ![i].posted = IF IsFocused(c) THEN @ ELSE @ \cup {c}]
  /\ UNCHANGED <<registries, hand, lists, app, owner, device, frames, toggles>>

DispatchDone(i) ==
  /\ push[i].pc = "fanout" /\ push[i].snap = {}
  /\ push' = [push EXCEPT ![i] = [NoPush EXCEPT !.pc = "done"]]
  /\ UNCHANGED <<registries, hand, lists, app, owner, device, frames, toggles>>
-----------------------------------------------------------------------------
(***************************************************************************)
(* The daemon's frames.  Each ends in notifyChange: broadcastMachineList   *)
(* lists the machines, then the sessions, then queues the frame for every  *)
(* subscriber under subsMu, skipping the queues that are full.             *)
(***************************************************************************)
To(h, pc) == hand' = [hand EXCEPT ![h].pc = pc]

Reads(h) == hand[h].pc = "read" /\ frames < MaxFrames /\ frames' = frames + 1

NoPushes == push' = push
\* A list is current until the registries change.
FrameRest ==
  /\ told' = IF registries' = registries THEN told ELSE {}
  /\ UNCHANGED <<subs, queue, full, app, owner, device, toggles>>

MachineRegister(h) ==
  /\ hand[h].pc \in {"new", "read"} /\ frames < MaxFrames /\ frames' = frames + 1
  /\ mach' = "online" /\ UNCHANGED <<sess, ended>>
  /\ hand' = [hand EXCEPT ![h].pc = "machines", ![h].next = "read"]
  /\ NoPushes /\ FrameRest

\* sessions.Register replaces the entry.
SessionStarted(h) ==
  /\ Reads(h) /\ To(h, "machines")
  /\ sess' = "running" /\ ended' = FALSE /\ UNCHANGED mach
  /\ NoPushes /\ FrameRest

\* idle and unresponsive are pushed, running is not.
SessionStateChange(h, to) ==
  /\ Reads(h) /\ To(h, "machines")
  /\ sess' = IF sess = "none" THEN "none" ELSE to
  /\ UNCHANGED <<mach, ended>>
  /\ IF to = "running" THEN NoPushes ELSE NotifyPush("unresponsive")
  /\ FrameRest

SessionEnded(h) ==
  /\ Reads(h) /\ To(h, "machines")
  /\ IF sess = "none" THEN UNCHANGED registries
     ELSE sess' = "ended" /\ ended' = TRUE /\ UNCHANGED mach
  /\ NotifyPush("session_ended") /\ FrameRest

\* A known session runs again, an unknown one is created; `ended` stays as it is.
SessionResume(h) ==
  /\ Reads(h) /\ To(h, "machines")
  /\ sess' = "running" /\ UNCHANGED <<mach, ended>>
  /\ NoPushes /\ FrameRest

\* A session_event of a kind in pushEventReasons changes no list.
SessionEvent(h) ==
  /\ Reads(h) /\ UNCHANGED registries /\ NotifyPush("unresponsive")
  /\ UNCHANGED hand /\ FrameRest

MachineSuspending(h) ==
  /\ Reads(h) /\ To(h, "pause")
  /\ mach' = "suspended" /\ UNCHANGED <<sess, ended>>
  /\ NoPushes /\ FrameRest

\* PauseAllForMachine, after SetSuspended or when the connection has ended.
PauseAllForMachine(h) ==
  /\ hand[h].pc = "pause"
  /\ sess' = IF ended \/ sess = "none" THEN sess ELSE "paused"
  /\ To(h, "machines") /\ UNCHANGED <<mach, ended, frames>>
  /\ NoPushes /\ FrameRest

\* The read loop returns: closed, taken over, or a frame it refused.
ConnectionEnds(h) ==
  /\ hand[h].pc = "read"
  /\ hand' = [hand EXCEPT ![h].pc = "pause", ![h].next = "new"]
  /\ UNCHANGED <<registries, push, frames>> /\ FrameRest

ListMachines(h) ==
  /\ hand[h].pc = "machines"
  /\ hand' = [hand EXCEPT ![h].pc = "sessions", ![h].list.machine = mach]
  /\ UNCHANGED <<registries, push, frames>> /\ FrameRest

ListSessions(h) ==
  /\ hand[h].pc = "sessions"
  /\ hand' = [hand EXCEPT ![h].pc = "queue", ![h].list.session = sess]
  /\ UNCHANGED <<registries, push, frames>> /\ FrameRest

\* The select with a default: a full queue loses the frame.
Send(ks, list) ==
  LET room == {k \in ks : Len(queue[k]) < MaxQueue} IN
  /\ queue' = [k \in Conns |-> IF k \in room THEN Append(queue[k], list) ELSE queue[k]]
  /\ told' = IF list = Current THEN told \cup room ELSE told
  /\ full' = full \cup (ks \ room)

broadcastMachineList(h) ==
  /\ hand[h].pc = "queue"
  /\ Send(subs, hand[h].list)
  /\ hand' = [hand EXCEPT ![h].pc = hand[h].next, ![h].list = Empty]
  /\ UNCHANGED <<registries, subs, app, owner, device, push, frames, toggles>>
-----------------------------------------------------------------------------
(***************************************************************************)
(* The apps' connections.                                                  *)
(***************************************************************************)
AppAt(k, pc) == app' = [app EXCEPT ![k].pc = pc]
AppRest == UNCHANGED <<registries, hand, frames>>

Connect(k) ==
  /\ app[k].pc = "none" /\ AppAt(k, "hello")
  /\ UNCHANGED <<lists, owner, device, push, toggles>> /\ AppRest

\* client_hello: a client_id that is not registered is refused.  None is a first
\* frame that is not a client_hello, or a connection that ends before it.
ClientHello(k, c) ==
  /\ app[k].pc = "hello"
  /\ IF c \in clients THEN AppAt(k, "loop") /\ owner' = [owner EXCEPT ![k] = c]
                      ELSE AppAt(k, "gone") /\ UNCHANGED owner
  /\ UNCHANGED <<lists, device, push, toggles>> /\ AppRest

\* Mutant: the snapshot is left to the next change's broadcast.
SubscribeOnly(k) ==
  /\ app[k].pc = "loop"
  /\ subs' = subs \cup {k} /\ UNCHANGED app
  /\ UNCHANGED <<queue, told, full, owner, device, push, toggles>> /\ AppRest

\* subscribe_machine_list: the subscription first, the snapshot after.
Subscribe(k) ==
  /\ app[k].pc = "loop"
  /\ subs' = subs \cup {k} /\ AppAt(k, "machines")
  /\ UNCHANGED <<queue, told, full, owner, device, push, toggles>> /\ AppRest

SnapshotMachines(k) ==
  /\ app[k].pc = "machines"
  /\ app' = [app EXCEPT ![k].pc = "sessions", ![k].list.machine = mach]
  /\ UNCHANGED <<lists, owner, device, push, toggles>> /\ AppRest

SnapshotSessions(k) ==
  /\ app[k].pc = "sessions"
  /\ app' = [app EXCEPT ![k].pc = "queue", ![k].list.session = sess]
  /\ UNCHANGED <<lists, owner, device, push, toggles>> /\ AppRest

SnapshotSend(k) ==
  /\ app[k].pc = "queue"
  /\ Send({k}, app[k].list)
  /\ app' = [app EXCEPT ![k].pc = "loop", ![k].list = Empty]
  /\ UNCHANGED <<subs, owner, device, push, toggles>> /\ AppRest

\* The writer goroutine.
WriterSends(k) ==
  /\ app[k].pc \notin {"none", "hello", "gone"} /\ queue[k] # <<>>
  /\ queue' = [queue EXCEPT ![k] = Tail(@)]
  /\ UNCHANGED <<subs, told, full, app, owner, device, push, toggles>> /\ AppRest

\* SetFocus.
ClientFocus(k, focused) ==
  /\ app[k].pc = "loop" /\ toggles < MaxToggles /\ toggles' = toggles + 1
  /\ focus' = IF focused THEN focus \cup {k} ELSE focus \ {k}
  /\ said' = IF focused THEN said \cup {k} ELSE said \ {k}
  /\ UNCHANGED <<lists, app, owner, clients, prefs>> /\ AppRest /\ Track

\* The read fails: the app closed, was killed, or a write failed and cancelled it.
AppGone(k) ==
  /\ app[k].pc = "loop" /\ AppAt(k, "unsubscribe")
  /\ UNCHANGED <<lists, owner, device, push, toggles>> /\ AppRest

\* The deferred clean-up: subs, (the attachment,) then DropConn.
Unsubscribe(k) ==
  /\ app[k].pc = "unsubscribe" /\ AppAt(k, "unfocus")
  /\ subs' = subs \ {k}
  /\ UNCHANGED <<queue, told, full, owner, device, push, toggles>> /\ AppRest

\* The connection's queue and history go with it.
Forget(k) ==
  /\ said' = said \ {k} /\ queue' = [queue EXCEPT ![k] = <<>>]
  /\ told' = told \ {k} /\ full' = full \ {k}
  /\ UNCHANGED <<subs, owner, clients, prefs, toggles>> /\ AppRest /\ Track

\* Mutant: the clean-up leaves the focus claims.
DropNothing(k) ==
  /\ app[k].pc = "unfocus" /\ AppAt(k, "gone")
  /\ UNCHANGED focus
  /\ Forget(k)

DropConn(k) ==
  /\ app[k].pc = "unfocus" /\ AppAt(k, "gone")
  /\ focus' = focus \ {k}
  /\ Forget(k)

\* The HTTP endpoints.  Register mints a new client_id.
RegisterClient(c) ==
  /\ c \notin clients
  /\ clients' = clients \cup {c}
  /\ UNCHANGED <<lists, app, owner, prefs, focus, said, toggles>> /\ AppRest /\ Track

SetPreferences(c, value) ==
  /\ c \in clients /\ toggles < MaxToggles /\ toggles' = toggles + 1
  /\ prefs' = [prefs EXCEPT ![c] = value]
  /\ UNCHANGED <<lists, app, owner, clients, focus, said>> /\ AppRest /\ Track
-----------------------------------------------------------------------------
Handle(h) ==
  \/ MachineRegister(h) \/ SessionStarted(h)
  \/ \E to \in Reported : SessionStateChange(h, to)
  \/ SessionEnded(h) \/ SessionResume(h) \/ SessionEvent(h)
  \/ MachineSuspending(h) \/ ConnectionEnds(h)

\* What a handler goes on with once it has started.
Continue(h) ==
  \/ PauseAllForMachine(h) \/ ListMachines(h) \/ ListSessions(h) \/ broadcastMachineList(h)

Snapshot(k) == SnapshotMachines(k) \/ SnapshotSessions(k) \/ SnapshotSend(k)
CleanUp(k) == Unsubscribe(k) \/ DropConn(k)
Dispatch(i) == DispatchList(i) \/ DispatchClient(i) \/ DispatchDone(i)

AppStep(k) ==
  \/ Connect(k) \/ \E c \in Clients \cup {None} : ClientHello(k, c)
  \/ Subscribe(k) \/ Snapshot(k) \/ WriterSends(k)
  \/ \E focused \in BOOLEAN : ClientFocus(k, focused)
  \/ AppGone(k) \/ CleanUp(k)

Endpoint(c) ==
  \/ RegisterClient(c)
  \/ \E value \in {"on", "off"} : SetPreferences(c, value)

Next ==
  \/ \E h \in Handlers : Handle(h) \/ Continue(h)
  \/ \E k \in Conns : AppStep(k)
  \/ \E c \in Clients : Endpoint(c)
  \/ \E i \in Pushes : Dispatch(i)

Spec == Init /\ [][Next]_vars

-----------------------------------------------------------------------------
(***************************************************************************)
(* Properties.                                                             *)
(***************************************************************************)

\* However the changes of two daemon connections, their broadcasts and a
\* subscription interleave: once every broadcast is over, each subscribed app was
\* queued a machine_list that shows the registries as they are (unless its own
\* queue was full).  The list may be followed by an older one.
CurrentListWasSent ==
  (\A h \in Handlers : hand[h].pc \in {"new", "read"})
    => \A k \in subs \ full : app[k].pc = "loop" => k \in told

\* When a dispatch is over, whoever a post was tried for wanted it and was away, each
\* at some moment of the dispatch, and for whoever wanted it and was away all along one
\* was tried: whatever the focus frames, closing connections and preference changes
\* that run beside it.  (Not one moment for both: the preferences are read first, the
\* focus later.  Whether the post arrives is up to the network, dispatcher.go:97-105.)
PushDecision ==
  \A i \in Pushes : push[i].pc = "fanout" /\ push[i].snap = {} =>
    /\ push[i].must \subseteq push[i].posted
    /\ push[i].posted \subseteq push[i].wanted \cap push[i].away
-----------------------------------------------------------------------------
(***************************************************************************)
(* The inductive invariant.                                                *)
(***************************************************************************)
\* A handler that is going to queue a list that shows the registries as they are.
WillTell(h) ==
  \/ hand[h].pc \in {"pause", "machines"}
  \/ hand[h].pc = "sessions" /\ hand[h].list.machine = mach
  \/ hand[h].pc = "queue" /\ hand[h].list = Current

\* The same of a snapshot that k is building for itself.
WillSnapshot(k) ==
  \/ app[k].pc = "machines"
  \/ app[k].pc = "sessions" /\ app[k].list.machine = mach
  \/ app[k].pc = "queue" /\ app[k].list = Current

\* A subscribed app has been told, or somebody is on the way to tell it.
ListsComing ==
  \A k \in subs \ full :
    app[k].pc = "unsubscribe" \/ k \in told \/ WillSnapshot(k) \/ \E h \in Handlers : WillTell(h)

\* subs and FocusTracker.conns hold connections that are past their hello and whose
\* clean-up has not got to them.
OnlyConnected ==
  /\ \A k \in subs : app[k].pc \in {"loop", "machines", "sessions", "queue", "unsubscribe"}
  /\ \A k \in said : app[k].pc \notin {"none", "hello", "gone"}
  /\ focus = said

\* A dispatch under way: before and after it read the client records.
DispatchSound ==
  \A i \in Pushes :
    LET p == push[i] IN
    /\ p.pc \in {"list", "fanout"} => p.must \subseteq Away /\ Away \subseteq p.away
    /\ p.pc = "list" => /\ p.must \subseteq Wants(p.reason) /\ Wants(p.reason) \subseteq p.wanted
                       /\ p.posted = {}
    /\ p.pc = "fanout" => /\ p.must \subseteq p.snap \cup p.posted
                         /\ p.snap \cup p.posted \subseteq p.wanted
                         /\ p.posted \subseteq p.away

\* Lists, subscriptions and dispatches of client_ws.go, daemon_ws.go and push.go together.
IInv == TypeOK /\ OnlyConnected /\ ListsComing /\ DispatchSound
=============================================================================
