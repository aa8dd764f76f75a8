---------------------------- MODULE AppHubProofs ----------------------------
(***************************************************************************)
(* Proofs about AppHub, for any sets of daemon connections, app connections *)
(* and clients and any bounds.                                             *)
(***************************************************************************)
EXTENDS AppHub, TLAPS

\* The invariant holds initially.
LEMMA InitIInv == Init => IInv
<1> SUFFICES ASSUME Init PROVE IInv
  OBVIOUS
<1>1. Empty \in MachineList
  BY DEF Empty, MachineList, SessionState
<1>2. NoPush \in PushType
  BY DEF NoPush, PushType, Reasons
<1>3. [pc |-> "new", next |-> "read", list |-> Empty] \in HandlerType
  BY <1>1 DEF HandlerType
<1>4. [pc |-> "none", list |-> Empty] \in AppType
  BY <1>1 DEF AppType
<1>5. /\ hand \in [Handlers -> HandlerType] /\ app \in [Conns -> AppType]
      /\ push \in [Pushes -> PushType]
  BY <1>2, <1>3, <1>4 DEF Init
<1>6. queue \in [Conns -> Seq(MachineList)] /\ \A k \in Conns : Len(queue[k]) <= MaxQueue
  BY AppHubAssumption DEF Init
<1>7. Current \in MachineList
  BY <1>1 DEF Init, Current, Empty
<1>8. /\ owner \in [Conns -> Clients \cup {None}] /\ prefs \in [Clients -> {"default", "on", "off"}]
      /\ subs \subseteq Conns /\ focus \subseteq Conns /\ full \subseteq Conns
      /\ told \subseteq Conns /\ said \subseteq Conns /\ clients \subseteq Clients
  BY DEF Init
<1>9. frames \in 0 .. MaxFrames /\ toggles \in 0 .. MaxToggles /\ ended \in BOOLEAN
  <2>1. MaxFrames \in Nat /\ MaxToggles \in Nat
    BY AppHubAssumption
  <2>2. frames = 0 /\ toggles = 0
    BY DEF Init
  <2>3. ended \in BOOLEAN
    BY DEF Init
  <2> QED
    BY <2>1, <2>2, <2>3
<1>10. TypeOK
  BY <1>5, <1>6, <1>7, <1>8, <1>9 DEF TypeOK
<1>11. OnlyConnected /\ ListsComing
  BY DEF Init, OnlyConnected, ListsComing
<1>12. DispatchSound
  BY DEF Init, DispatchSound, NoPush
<1> QED
  BY <1>10, <1>11, <1>12 DEF IInv

\* A dispatch sees who wants its push and who is away: both stay as they are.
LEMMA DispatchFrame ==
  ASSUME IInv, UNCHANGED <<clients, prefs, said, owner, push>>
  PROVE  DispatchSound'
  BY DEF IInv, DispatchSound, Away, Wants, ReasonEnabled

\* A new dispatch, or none.
LEMMA NotifyPushFacts ==
  ASSUME IInv, NEW reason \in Reasons, NotifyPush(reason), UNCHANGED <<device, owner>>
  PROVE  push' \in [Pushes -> PushType] /\ DispatchSound'
<1> DEFINE p == Dispatched(reason)
<1>0. push \in [Pushes -> PushType]
  BY DEF IInv, TypeOK
<1>1. CASE push' = push
  BY <1>0, <1>1, DispatchFrame DEF device
<1>2. ASSUME NEW i, push' = [push EXCEPT ![i] = p]
      PROVE  push' \in [Pushes -> PushType] /\ DispatchSound'
  <2>1. Wants(reason) \subseteq Clients /\ Away \subseteq Clients
    BY DEF IInv, TypeOK, Wants, Away
  <2>2. p \in PushType
    BY <2>1 DEF PushType, Dispatched
  <2>3. p.pc = "list" /\ p.reason = reason /\ p.posted = {} /\ p.wanted = Wants(reason)
        /\ p.away = Away /\ p.must = Wants(reason) \cap Away
    BY DEF Dispatched
  <2> HIDE DEF p
  <2>4. push' \in [Pushes -> PushType]
    BY <1>0, <1>2, <2>2
  <2>5. Away' = Away /\ \A r : Wants(r)' = Wants(r)
    BY DEF Away, Wants, ReasonEnabled, device
  <2>6. ASSUME NEW j \in Pushes PROVE push'[j] = push[j] \/ push'[j] = p
    BY <1>0, <1>2
  <2>7. DispatchSound'
    BY <2>3, <2>5, <2>6 DEF IInv, DispatchSound
  <2> QED
    BY <2>4, <2>7
<1> QED
  BY <1>1, <1>2 DEF NotifyPush

\* Track keeps the history of every dispatch under way.
LEMMA TrackFacts ==
  ASSUME IInv, Track, clients' \subseteq Clients
  PROVE  push' \in [Pushes -> PushType] /\ DispatchSound'
<1> DEFINE wants(i) == {c \in clients' : ReasonEnabled(prefs'[c], push[i].reason)}
           q(i) == [push[i] EXCEPT !.wanted = @ \cup wants(i), !.away = @ \cup Away',
                                   !.must = @ \cap wants(i) \cap Away']
<1>1. push \in [Pushes -> PushType]
  BY DEF IInv, TypeOK
<1>2. \A i \in Pushes : push'[i] = IF push[i].pc \notin {"list", "fanout"} THEN push[i] ELSE q(i)
  BY DEF Track
<1>3. DOMAIN push' = Pushes /\ push' = [i \in Pushes |-> push'[i]]
  BY DEF Track
<1>4. Away' \subseteq Clients /\ \A i : wants(i) \subseteq Clients
  BY DEF Away
<1>5. ASSUME NEW i \in Pushes
      PROVE  /\ q(i) \in PushType /\ q(i).pc = push[i].pc /\ q(i).reason = push[i].reason
             /\ q(i).snap = push[i].snap /\ q(i).posted = push[i].posted
             /\ q(i).wanted = push[i].wanted \cup wants(i)
             /\ q(i).away = push[i].away \cup Away'
             /\ q(i).must = push[i].must \cap wants(i) \cap Away'
  <2> DEFINE p == push[i]
             a == p.wanted \cup wants(i)
             b == p.away \cup Away'
             c == p.must \cap wants(i) \cap Away'
  <2>1. p \in PushType
    BY <1>1
  <2>2. a \subseteq Clients /\ b \subseteq Clients /\ c \subseteq Clients
    BY <1>4, <2>1 DEF PushType
  <2>3. q(i) = [p EXCEPT !.wanted = a, !.away = b, !.must = c]
    OBVIOUS
  <2> HIDE DEF a, b, c, p, q
  <2>4. /\ q(i) \in PushType /\ q(i).pc = p.pc /\ q(i).reason = p.reason
        /\ q(i).snap = p.snap /\ q(i).posted = p.posted
        /\ q(i).wanted = a /\ q(i).away = b /\ q(i).must = c
    BY <2>1, <2>2, <2>3 DEF PushType
  <2> QED
    BY <2>4 DEF a, b, c, p
<1> HIDE DEF q
<1>6. push' \in [Pushes -> PushType]
  BY <1>1, <1>2, <1>3, <1>5
<1>7. DispatchSound'
  <2> SUFFICES ASSUME NEW i \in Pushes, push'[i].pc \in {"list", "fanout"}
               PROVE  /\ push'[i].must \subseteq Away' /\ Away' \subseteq push'[i].away
                      /\ push'[i].pc = "list" =>
                           /\ push'[i].must \subseteq Wants(push[i].reason)'
                           /\ Wants(push[i].reason)' \subseteq push'[i].wanted
                           /\ push'[i].posted = {}
                      /\ push'[i].pc = "fanout" =>
                           /\ push'[i].must \subseteq push'[i].snap \cup push'[i].posted
                           /\ push'[i].snap \cup push'[i].posted \subseteq push'[i].wanted
                           /\ push'[i].posted \subseteq push'[i].away
    BY DEF DispatchSound
  <2>1. push[i].pc \in {"list", "fanout"} /\ push'[i] = q(i)
    BY <1>2, <1>5
  <2>2. Wants(push[i].reason)' = wants(i)
    BY <1>5, <2>1 DEF Wants
  <2> HIDE DEF wants
  <2> QED
    BY <1>5, <2>1, <2>2 DEF IInv, DispatchSound
<1> QED
  BY <1>6, <1>7

-----------------------------------------------------------------------------
(***************************************************************************)
(* The daemon connections' handlers.                                       *)
(***************************************************************************)
\* The machine and the session of the registries.
LEMMA CurrentType ==
  Current \in MachineList <=> mach \in {"none", "online", "suspended"} /\ sess \in SessionState
  BY DEF Current, MachineList

\* A step of a handler that leaves the apps' side alone.
LEMMA FrameIInv ==
  ASSUME IInv, FrameRest, ListsComing', DispatchSound',
         mach' \in {"none", "online", "suspended"}, sess' \in SessionState, ended' \in BOOLEAN,
         hand' \in [Handlers -> HandlerType], push' \in [Pushes -> PushType],
         frames' \in 0 .. MaxFrames
  PROVE  IInv'
<1>1. Current' \in MachineList
  BY DEF Current, MachineList
<1>2. TypeOK'
  BY <1>1 DEF IInv, TypeOK, FrameRest, device
<1>3. OnlyConnected'
  BY DEF IInv, OnlyConnected, FrameRest, device
<1> QED
  BY <1>2, <1>3 DEF IInv

\* A handler that has changed the registries goes on to tell everybody.
LEMMA ChangeIInv ==
  ASSUME IInv, NEW h \in Handlers, FrameRest, hand'[h].pc \in {"pause", "machines"},
         mach' \in {"none", "online", "suspended"}, sess' \in SessionState, ended' \in BOOLEAN,
         hand' \in [Handlers -> HandlerType], frames' \in 0 .. MaxFrames,
         push' = push \/ \E reason \in Reasons : NotifyPush(reason)
  PROVE  IInv'
<1>1. ListsComing'
  BY DEF ListsComing, WillTell
<1>2. push' \in [Pushes -> PushType] /\ DispatchSound'
  <2>1. UNCHANGED <<device, owner>> /\ UNCHANGED <<clients, prefs, said, owner>>
    BY DEF FrameRest, device
  <2>2. CASE push' = push
    BY <2>1, <2>2, DispatchFrame DEF IInv, TypeOK
  <2>3. CASE \E reason \in Reasons : NotifyPush(reason)
    BY <2>1, <2>3, NotifyPushFacts
  <2> QED
    BY <2>2, <2>3
<1> QED
  BY <1>1, <1>2, FrameIInv

\* Handle keeps the invariant.
LEMMA HandleIInv ==
  ASSUME IInv, NEW h \in Handlers, Handle(h)
  PROVE  IInv'
<1>0. /\ mach \in {"none", "online", "suspended"} /\ sess \in SessionState
      /\ ended \in BOOLEAN /\ hand \in [Handlers -> HandlerType]
      /\ frames \in 0 .. MaxFrames
  BY CurrentType DEF IInv, TypeOK
<1>1. \A pc \in {"pause", "machines"}, next \in {"new", "read"} :
        /\ [hand EXCEPT ![h].pc = pc] \in [Handlers -> HandlerType]
        /\ [hand EXCEPT ![h].pc = pc][h].pc = pc
        /\ [hand EXCEPT ![h].pc = pc, ![h].next = next] \in [Handlers -> HandlerType]
        /\ [hand EXCEPT ![h].pc = pc, ![h].next = next][h].pc = pc
  BY <1>0 DEF HandlerType
<1>2. frames < MaxFrames /\ frames' = frames + 1 => frames' \in 0 .. MaxFrames
  BY <1>0, AppHubAssumption
<1>3. CASE MachineRegister(h)
  <2>1. mach' = "online" /\ sess' = sess /\ ended' = ended /\ push' = push /\ FrameRest
    BY <1>3 DEF MachineRegister, NoPushes
  <2>2. hand' \in [Handlers -> HandlerType] /\ hand'[h].pc = "machines"
    BY <1>1, <1>3 DEF MachineRegister
  <2>3. frames' \in 0 .. MaxFrames
    BY <1>2, <1>3 DEF MachineRegister
  <2> QED
    BY <1>0, <2>1, <2>2, <2>3, ChangeIInv
<1>m. ASSUME Reads(h), To(h, "machines")
      PROVE  /\ hand' \in [Handlers -> HandlerType] /\ hand'[h].pc = "machines"
             /\ frames' \in 0 .. MaxFrames
  BY <1>1, <1>2, <1>m DEF Reads, To
<1>4. CASE SessionStarted(h)
  <2>1. /\ sess' \in SessionState /\ ended' \in BOOLEAN /\ mach' = mach /\ push' = push
        /\ FrameRest /\ Reads(h) /\ To(h, "machines")
    BY <1>4 DEF SessionStarted, NoPushes, SessionState
  <2> QED
    BY <1>0, <1>m, <2>1, ChangeIInv
<1>5. ASSUME NEW to \in Reported, SessionStateChange(h, to) PROVE IInv'
  <2>1. /\ sess' \in SessionState /\ ended' = ended /\ mach' = mach
        /\ FrameRest /\ Reads(h) /\ To(h, "machines")
    BY <1>5, AppHubAssumption DEF SessionStateChange, SessionState
  <2>2. push' = push \/ \E reason \in Reasons : NotifyPush(reason)
    BY <1>5 DEF SessionStateChange, NoPushes, Reasons
  <2> QED
    BY <1>0, <1>m, <2>1, <2>2, ChangeIInv
<1>6. CASE SessionEnded(h)
  <2>1. /\ sess' \in SessionState /\ ended' \in BOOLEAN /\ mach' = mach
        /\ FrameRest /\ Reads(h) /\ To(h, "machines")
    BY <1>0, <1>6 DEF SessionEnded, SessionState, registries
  <2>2. \E reason \in Reasons : NotifyPush(reason)
    BY <1>6 DEF SessionEnded, Reasons
  <2> QED
    BY <1>0, <1>m, <2>1, <2>2, ChangeIInv
<1>7. CASE SessionResume(h)
  <2>1. /\ sess' \in SessionState /\ ended' = ended /\ mach' = mach /\ push' = push
        /\ FrameRest /\ Reads(h) /\ To(h, "machines")
    BY <1>7 DEF SessionResume, NoPushes, SessionState
  <2> QED
    BY <1>0, <1>m, <2>1, ChangeIInv
<1>8. CASE SessionEvent(h)
  <2>1. /\ UNCHANGED <<mach, sess, ended, hand>> /\ FrameRest /\ frames' \in 0 .. MaxFrames
        /\ NotifyPush("unresponsive") /\ "unresponsive" \in Reasons
    BY <1>2, <1>8 DEF SessionEvent, registries, Reads, Reasons
  <2>2. UNCHANGED <<device, owner>> /\ UNCHANGED <<subs, full, told, app>>
    BY <2>1 DEF FrameRest, registries
  <2>3. ListsComing'
    BY <2>1, <2>2 DEF IInv, ListsComing, WillTell, WillSnapshot, Current
  <2> QED
    BY <1>0, <2>1, <2>2, <2>3, NotifyPushFacts, FrameIInv
<1>9. CASE MachineSuspending(h)
  <2>1. /\ mach' = "suspended" /\ sess' = sess /\ ended' = ended /\ push' = push /\ FrameRest
        /\ frames' \in 0 .. MaxFrames
    BY <1>2, <1>9 DEF MachineSuspending, NoPushes, Reads
  <2>2. hand' \in [Handlers -> HandlerType] /\ hand'[h].pc = "pause"
    BY <1>1, <1>9 DEF MachineSuspending, To
  <2> QED
    BY <1>0, <2>1, <2>2, ChangeIInv
<1>10. CASE ConnectionEnds(h)
  <2>1. /\ UNCHANGED <<mach, sess, ended, push, frames>> /\ FrameRest
    BY <1>10 DEF ConnectionEnds, registries
  <2>2. hand' \in [Handlers -> HandlerType] /\ hand'[h].pc = "pause"
    BY <1>1, <1>10 DEF ConnectionEnds
  <2> QED
    BY <1>0, <2>1, <2>2, ChangeIInv
<1> QED
  BY <1>3, <1>4, <1>5, <1>6, <1>7, <1>8, <1>9, <1>10 DEF Handle

\* What does not change the registries does not make a list out of date.
LEMMA ListStepIInv ==
  ASSUME IInv, NEW h \in Handlers, FrameRest, UNCHANGED <<registries, push, frames>>,
         hand' \in [Handlers -> HandlerType],
         \A j \in Handlers : WillTell(j) => WillTell(j)'
  PROVE  IInv'
<1>1. /\ UNCHANGED <<mach, sess, ended, subs, full, told, app>>
      /\ UNCHANGED <<clients, prefs, said, owner, push>>
  BY DEF registries, FrameRest, device
<1>2. ListsComing'
  BY <1>1 DEF IInv, ListsComing, WillSnapshot, Current
<1>3. DispatchSound'
  BY <1>1, DispatchFrame
<1>4. /\ mach \in {"none", "online", "suspended"} /\ sess \in SessionState
      /\ ended \in BOOLEAN /\ frames \in 0 .. MaxFrames /\ push \in [Pushes -> PushType]
  BY CurrentType DEF IInv, TypeOK
<1> QED
  BY <1>1, <1>2, <1>3, <1>4, FrameIInv

\* The select with a default, to any set of connections.
LEMMA SendFacts ==
  ASSUME IInv, NEW ks \in SUBSET Conns, NEW list \in MachineList, Send(ks, list)
  PROVE  /\ queue' \in [Conns -> Seq(MachineList)]
         /\ \A k \in Conns : Len(queue'[k]) <= MaxQueue
         /\ told' \subseteq Conns /\ full' \subseteq Conns
         /\ told \subseteq told' /\ full \subseteq full'
         /\ list = Current => ks \subseteq told' \cup full'
<1> DEFINE room == {k \in ks : Len(queue[k]) < MaxQueue}
<1>1. /\ queue' = [k \in Conns |-> IF k \in room THEN Append(queue[k], list) ELSE queue[k]]
      /\ told' = IF list = Current THEN told \cup room ELSE told
      /\ full' = full \cup (ks \ room)
  BY DEF Send
<1>2. ASSUME NEW k \in Conns PROVE queue'[k] \in Seq(MachineList) /\ Len(queue'[k]) <= MaxQueue
  <2>1. queue[k] \in Seq(MachineList) /\ Len(queue[k]) \in Nat /\ Len(queue[k]) <= MaxQueue
    BY DEF IInv, TypeOK
  <2>2. CASE k \in room
    <3>1. queue'[k] = Append(queue[k], list) /\ Len(queue[k]) < MaxQueue
      BY <1>1, <2>2
    <3> QED
      BY <2>1, <3>1, AppHubAssumption
  <2>3. CASE k \notin room
    BY <1>1, <2>1, <2>3
  <2> QED
    BY <2>2, <2>3
<1>3. queue' \in [Conns -> Seq(MachineList)]
  BY <1>1, <1>2
<1>4. told' \subseteq Conns /\ full' \subseteq Conns /\ told \subseteq told' /\ full \subseteq full'
  BY <1>1 DEF IInv, TypeOK
<1>5. list = Current => ks \subseteq told' \cup full'
  BY <1>1
<1> QED
  BY <1>2, <1>3, <1>4, <1>5

\* Continue keeps the invariant.
LEMMA ContinueIInv ==
  ASSUME IInv, NEW h \in Handlers, Continue(h)
  PROVE  IInv'
<1>0. /\ mach \in {"none", "online", "suspended"} /\ sess \in SessionState
      /\ ended \in BOOLEAN /\ hand \in [Handlers -> HandlerType]
      /\ frames \in 0 .. MaxFrames
  BY CurrentType DEF IInv, TypeOK
<1>1. CASE PauseAllForMachine(h)
  <2>1. /\ sess' \in SessionState /\ UNCHANGED <<mach, ended, frames, push>> /\ FrameRest
    BY <1>0, <1>1 DEF PauseAllForMachine, NoPushes, SessionState
  <2>2. hand' \in [Handlers -> HandlerType] /\ hand'[h].pc = "machines"
    BY <1>0, <1>1 DEF PauseAllForMachine, To, HandlerType
  <2> QED
    BY <1>0, <2>1, <2>2, ChangeIInv
<1>2. CASE ListMachines(h)
  <2>1. UNCHANGED <<registries, push, frames>> /\ FrameRest
    BY <1>2 DEF ListMachines
  <2>2. hand' \in [Handlers -> HandlerType]
    <3>1. [hand[h].list EXCEPT !.machine = mach] \in MachineList
      BY <1>0 DEF HandlerType, MachineList
    <3> QED
      BY <1>0, <1>2, <3>1 DEF ListMachines, HandlerType
  <2>3. \A j \in Handlers : WillTell(j) => WillTell(j)'
    BY <1>0, <1>2, <2>1 DEF ListMachines, WillTell, HandlerType, MachineList, Current, registries
  <2> QED
    BY <2>1, <2>2, <2>3, ListStepIInv
<1>3. CASE ListSessions(h)
  <2>1. UNCHANGED <<registries, push, frames>> /\ FrameRest
    BY <1>3 DEF ListSessions
  <2>2. hand' \in [Handlers -> HandlerType]
    <3>1. [hand[h].list EXCEPT !.session = sess] \in MachineList
      BY <1>0 DEF HandlerType, MachineList
    <3> QED
      BY <1>0, <1>3, <3>1 DEF ListSessions, HandlerType
  <2>3. \A j \in Handlers : WillTell(j) => WillTell(j)'
    BY <1>0, <1>3, <2>1 DEF ListSessions, WillTell, HandlerType, MachineList, Current, registries
  <2> QED
    BY <2>1, <2>2, <2>3, ListStepIInv
<1>4. CASE broadcastMachineList(h)
  <2>1. /\ UNCHANGED <<mach, sess, ended, subs, app, owner, clients, prefs, focus, said, push,
                       frames, toggles>>
        /\ hand[h].pc = "queue" /\ hand[h].list \in MachineList /\ subs \in SUBSET Conns
        /\ Send(subs, hand[h].list)
    BY <1>0, <1>4 DEF broadcastMachineList, registries, device, HandlerType, IInv, TypeOK
  <2>2. /\ queue' \in [Conns -> Seq(MachineList)]
        /\ \A k \in Conns : Len(queue'[k]) <= MaxQueue
        /\ told' \subseteq Conns /\ full' \subseteq Conns
        /\ told \subseteq told' /\ full \subseteq full'
        /\ hand[h].list = Current => subs \subseteq told' \cup full'
    BY <2>1, SendFacts
  <2>3. hand' \in [Handlers -> HandlerType] /\ \A j \in Handlers : j # h => hand'[j] = hand[j]
    <3>1. Empty \in MachineList
      BY DEF Empty, MachineList, SessionState
    <3> QED
      BY <1>0, <1>4, <3>1 DEF broadcastMachineList, HandlerType
  <2>4. TypeOK'
    BY <2>1, <2>2, <2>3 DEF IInv, TypeOK, Current
  <2>5. OnlyConnected'
    BY <2>1 DEF IInv, OnlyConnected
  <2>6. ListsComing'
    <3>1. CASE hand[h].list = Current
      BY <2>1, <2>2, <3>1 DEF ListsComing
    <3>2. CASE hand[h].list # Current
      <4>1. ~WillTell(h)
        BY <2>1, <3>2 DEF WillTell
      <4>2. \A j \in Handlers : WillTell(j) => WillTell(j)'
        BY <2>1, <2>3, <4>1 DEF WillTell, Current
      <4> QED
        BY <2>1, <2>2, <4>2 DEF IInv, ListsComing, WillSnapshot, Current
    <3> QED
      BY <3>1, <3>2
  <2>7. DispatchSound'
    BY <2>1, DispatchFrame
  <2> QED
    BY <2>4, <2>5, <2>6, <2>7 DEF IInv
<1> QED
  BY <1>1, <1>2, <1>3, <1>4 DEF Continue

-----------------------------------------------------------------------------
(***************************************************************************)
(* The apps' connections.                                                  *)
(***************************************************************************)
LEMMA ConnectIInv ==
  ASSUME IInv, NEW k \in Conns, Connect(k)
  PROVE  IInv'
<1> USE DEF Connect, AppAt, AppRest, registries, lists, device
<1>0. app \in [Conns -> AppType] /\ Current' = Current
  BY DEF IInv, TypeOK, Current
<1>m. app' \in [Conns -> AppType] /\ \A j \in Conns : j # k => app'[j] = app[j]
  BY <1>0 DEF AppType
<1>1. TypeOK'
  BY <1>0, <1>m, AppHubAssumption DEF IInv, TypeOK
<1>2. OnlyConnected'
  BY <1>0 DEF IInv, TypeOK, OnlyConnected, AppType
<1>3. ListsComing'
  BY <1>0, <1>m DEF IInv, TypeOK, ListsComing, OnlyConnected, WillTell, WillSnapshot, AppType
<1>4. DispatchSound'
  BY DispatchFrame
<1> QED
  BY <1>1, <1>2, <1>3, <1>4 DEF IInv

\* ClientHello keeps the invariant.
LEMMA ClientHelloIInv ==
  ASSUME IInv, NEW k \in Conns, NEW c \in Clients \cup {None}, ClientHello(k, c)
  PROVE  IInv'
<1> USE DEF ClientHello, AppAt, AppRest, registries, lists, device
<1>0. app \in [Conns -> AppType] /\ Current' = Current
  BY DEF IInv, TypeOK, Current
<1>m. app' \in [Conns -> AppType] /\ \A j \in Conns : j # k => app'[j] = app[j]
  BY <1>0 DEF AppType
<1>1. TypeOK'
  BY <1>0, <1>m, AppHubAssumption DEF IInv, TypeOK
<1>2. OnlyConnected'
  BY <1>0 DEF IInv, TypeOK, OnlyConnected, AppType
<1>3. ListsComing'
  BY <1>0, <1>m DEF IInv, TypeOK, ListsComing, OnlyConnected, WillTell, WillSnapshot, AppType
<1>4. DispatchSound'
  <2>1. k \notin said
    BY DEF IInv, OnlyConnected
  <2>2. \A j \in said : owner'[j] = owner[j]
    BY <2>1 DEF IInv, TypeOK
  <2>3. Away' = Away /\ \A r : Wants(r)' = Wants(r)
    BY <2>2 DEF Away, Wants
  <2> QED
    BY <2>3 DEF IInv, DispatchSound
<1> QED
  BY <1>1, <1>2, <1>3, <1>4 DEF IInv

\* Subscribe keeps the invariant.
LEMMA SubscribeIInv ==
  ASSUME IInv, NEW k \in Conns, Subscribe(k)
  PROVE  IInv'
<1> USE DEF Subscribe, AppAt, AppRest, registries, lists, device
<1>0. app \in [Conns -> AppType] /\ Current' = Current
  BY DEF IInv, TypeOK, Current
<1>m. app' \in [Conns -> AppType] /\ \A j \in Conns : j # k => app'[j] = app[j]
  BY <1>0 DEF AppType
<1>1. TypeOK'
  BY <1>0, <1>m, AppHubAssumption DEF IInv, TypeOK
<1>2. OnlyConnected'
  BY <1>0 DEF IInv, TypeOK, OnlyConnected, AppType
<1>3. ListsComing'
  BY <1>0, <1>m DEF IInv, TypeOK, ListsComing, OnlyConnected, WillTell, WillSnapshot, AppType
<1>4. DispatchSound'
  BY DispatchFrame
<1> QED
  BY <1>1, <1>2, <1>3, <1>4 DEF IInv

\* SnapshotMachines keeps the invariant.
LEMMA SnapshotMachinesIInv ==
  ASSUME IInv, NEW k \in Conns, SnapshotMachines(k)
  PROVE  IInv'
<1>a. [app[k].list EXCEPT !.machine = mach] \in MachineList
  BY CurrentType DEF IInv, TypeOK, AppType, MachineList
<1> USE DEF SnapshotMachines, AppAt, AppRest, registries, lists, device
<1>0. app \in [Conns -> AppType] /\ Current' = Current
  BY DEF IInv, TypeOK, Current
<1>m. app' \in [Conns -> AppType] /\ \A j \in Conns : j # k => app'[j] = app[j]
  BY <1>0, <1>a DEF AppType
<1>1. TypeOK'
  BY <1>0, <1>m, AppHubAssumption DEF IInv, TypeOK
<1>2. OnlyConnected'
  BY <1>0 DEF IInv, TypeOK, OnlyConnected, AppType
<1>3. ListsComing'
  BY <1>0, <1>m DEF IInv, TypeOK, ListsComing, OnlyConnected, WillTell, WillSnapshot, AppType
<1>4. DispatchSound'
  BY DispatchFrame
<1> QED
  BY <1>1, <1>2, <1>3, <1>4 DEF IInv

\* SnapshotSessions keeps the invariant.
LEMMA SnapshotSessionsIInv ==
  ASSUME IInv, NEW k \in Conns, SnapshotSessions(k)
  PROVE  IInv'
<1>a. [app[k].list EXCEPT !.session = sess] \in MachineList
  BY CurrentType DEF IInv, TypeOK, AppType, MachineList
<1> USE DEF SnapshotSessions, AppAt, AppRest, registries, lists, device
<1>0. app \in [Conns -> AppType] /\ Current' = Current
  BY DEF IInv, TypeOK, Current
<1>m. app' \in [Conns -> AppType] /\ \A j \in Conns : j # k => app'[j] = app[j]
  BY <1>0, <1>a DEF AppType
<1>1. TypeOK'
  BY <1>0, <1>m, AppHubAssumption DEF IInv, TypeOK
<1>2. OnlyConnected'
  BY <1>0 DEF IInv, TypeOK, OnlyConnected, AppType
<1>3. ListsComing'
  <2>1. WillSnapshot(k) => WillSnapshot(k)'
    <3>1. /\ app'[k].pc = "queue" /\ app'[k].list.session = sess
          /\ app'[k].list.machine = app[k].list.machine
          /\ app'[k].list \in MachineList
      BY <1>a, <1>0, <1>m DEF AppType, MachineList
    <3>2. app'[k].list.machine = mach => app'[k].list = Current
      BY <3>1 DEF MachineList, Current
    <3> QED
      BY <1>0, <3>1, <3>2 DEF WillSnapshot
  <2>2. ASSUME NEW j \in Conns, j # k PROVE WillSnapshot(j)' = WillSnapshot(j)
    BY <1>0, <1>m, <2>2 DEF WillSnapshot
  <2>3. \A h \in Handlers : WillTell(h)' = WillTell(h)
    BY <1>0 DEF WillTell
  <2> QED
    BY <1>0, <1>m, <2>1, <2>2, <2>3 DEF IInv, TypeOK, ListsComing
<1>4. DispatchSound'
  BY DispatchFrame
<1> QED
  BY <1>1, <1>2, <1>3, <1>4 DEF IInv

\* SnapshotSend keeps the invariant.
LEMMA SnapshotSendIInv ==
  ASSUME IInv, NEW k \in Conns, SnapshotSend(k)
  PROVE  IInv'
<1>a. Send({k}, app[k].list) /\ app[k].list \in MachineList /\ {k} \in SUBSET Conns
  BY DEF SnapshotSend, IInv, TypeOK, AppType
<1>b. /\ queue' \in [Conns -> Seq(MachineList)]
      /\ \A j \in Conns : Len(queue'[j]) <= MaxQueue
      /\ told' \subseteq Conns /\ full' \subseteq Conns
      /\ told \subseteq told' /\ full \subseteq full'
      /\ app[k].list = Current => {k} \subseteq told' \cup full'
  BY <1>a, SendFacts
<1>c. Empty \in MachineList
  BY DEF Empty, MachineList, SessionState
<1> USE DEF SnapshotSend, AppAt, AppRest, registries, lists, device
<1>0. app \in [Conns -> AppType] /\ Current' = Current
  BY DEF IInv, TypeOK, Current
<1>m. app' \in [Conns -> AppType] /\ \A j \in Conns : j # k => app'[j] = app[j]
  BY <1>0, <1>c DEF AppType
<1>1. TypeOK'
  BY <1>b, <1>0, <1>m, AppHubAssumption DEF IInv, TypeOK
<1>2. OnlyConnected'
  BY <1>0 DEF IInv, TypeOK, OnlyConnected, AppType
<1>3. ListsComing'
  BY <1>b, <1>0, <1>m DEF IInv, TypeOK, ListsComing, OnlyConnected, WillTell, WillSnapshot, AppType
<1>4. DispatchSound'
  BY DispatchFrame
<1> QED
  BY <1>1, <1>2, <1>3, <1>4 DEF IInv

\* WriterSends keeps the invariant.
LEMMA WriterSendsIInv ==
  ASSUME IInv, NEW k \in Conns, WriterSends(k)
  PROVE  IInv'
<1>a. queue' \in [Conns -> Seq(MachineList)] /\ \A j \in Conns : Len(queue'[j]) <= MaxQueue
  <2>1. queue[k] \in Seq(MachineList) /\ queue[k] # <<>> /\ queue' = [queue EXCEPT ![k] = Tail(@)]
    BY DEF WriterSends, IInv, TypeOK
  <2>2. Tail(queue[k]) \in Seq(MachineList) /\ Len(Tail(queue[k])) = Len(queue[k]) - 1
    BY <2>1
  <2> QED
    BY <2>1, <2>2, AppHubAssumption DEF IInv, TypeOK
<1> USE DEF WriterSends, AppAt, AppRest, registries, lists, device
<1>0. app \in [Conns -> AppType] /\ Current' = Current
  BY DEF IInv, TypeOK, Current
<1>m. app' \in [Conns -> AppType] /\ \A j \in Conns : j # k => app'[j] = app[j]
  BY <1>0 DEF AppType
<1>1. TypeOK'
  BY <1>a, <1>0, <1>m, AppHubAssumption DEF IInv, TypeOK
<1>2. OnlyConnected'
  BY <1>0 DEF IInv, TypeOK, OnlyConnected, AppType
<1>3. ListsComing'
  BY <1>a, <1>0, <1>m DEF IInv, TypeOK, ListsComing, OnlyConnected, WillTell, WillSnapshot, AppType
<1>4. DispatchSound'
  BY DispatchFrame
<1> QED
  BY <1>1, <1>2, <1>3, <1>4 DEF IInv

\* ClientFocus keeps the invariant.
LEMMA ClientFocusIInv ==
  ASSUME IInv, NEW k \in Conns, NEW focused \in BOOLEAN, ClientFocus(k, focused)
  PROVE  IInv'
<1>a. push' \in [Pushes -> PushType] /\ DispatchSound'
  BY TrackFacts DEF ClientFocus, IInv, TypeOK
<1> USE DEF ClientFocus, AppAt, AppRest, registries, lists, device
<1>0. app \in [Conns -> AppType] /\ Current' = Current
  BY DEF IInv, TypeOK, Current
<1>m. app' \in [Conns -> AppType] /\ \A j \in Conns : j # k => app'[j] = app[j]
  BY <1>0 DEF AppType
<1>1. TypeOK'
  BY <1>a, <1>0, <1>m, AppHubAssumption DEF IInv, TypeOK
<1>2. OnlyConnected'
  BY <1>0 DEF IInv, TypeOK, OnlyConnected, AppType
<1>3. ListsComing'
  BY <1>a, <1>0, <1>m DEF IInv, TypeOK, ListsComing, OnlyConnected, WillTell, WillSnapshot, AppType
<1>4. DispatchSound'
  BY <1>a
<1> QED
  BY <1>1, <1>2, <1>3, <1>4 DEF IInv

\* AppGone keeps the invariant.
LEMMA AppGoneIInv ==
  ASSUME IInv, NEW k \in Conns, AppGone(k)
  PROVE  IInv'
<1> USE DEF AppGone, AppAt, AppRest, registries, lists, device
<1>0. app \in [Conns -> AppType] /\ Current' = Current
  BY DEF IInv, TypeOK, Current
<1>m. app' \in [Conns -> AppType] /\ \A j \in Conns : j # k => app'[j] = app[j]
  BY <1>0 DEF AppType
<1>1. TypeOK'
  BY <1>0, <1>m, AppHubAssumption DEF IInv, TypeOK
<1>2. OnlyConnected'
  BY <1>0 DEF IInv, TypeOK, OnlyConnected, AppType
<1>3. ListsComing'
  BY <1>0, <1>m DEF IInv, TypeOK, ListsComing, OnlyConnected, WillTell, WillSnapshot, AppType
<1>4. DispatchSound'
  BY DispatchFrame
<1> QED
  BY <1>1, <1>2, <1>3, <1>4 DEF IInv

\* Unsubscribe keeps the invariant.
LEMMA UnsubscribeIInv ==
  ASSUME IInv, NEW k \in Conns, Unsubscribe(k)
  PROVE  IInv'
<1> USE DEF Unsubscribe, AppAt, AppRest, registries, lists, device
<1>0. app \in [Conns -> AppType] /\ Current' = Current
  BY DEF IInv, TypeOK, Current
<1>m. app' \in [Conns -> AppType] /\ \A j \in Conns : j # k => app'[j] = app[j]
  BY <1>0 DEF AppType
<1>1. TypeOK'
  BY <1>0, <1>m, AppHubAssumption DEF IInv, TypeOK
<1>2. OnlyConnected'
  BY <1>0 DEF IInv, TypeOK, OnlyConnected, AppType
<1>3. ListsComing'
  BY <1>0, <1>m DEF IInv, TypeOK, ListsComing, OnlyConnected, WillTell, WillSnapshot, AppType
<1>4. DispatchSound'
  BY DispatchFrame
<1> QED
  BY <1>1, <1>2, <1>3, <1>4 DEF IInv

\* DropConn keeps the invariant.
LEMMA DropConnIInv ==
  ASSUME IInv, NEW k \in Conns, DropConn(k)
  PROVE  IInv'
<1>a. push' \in [Pushes -> PushType] /\ DispatchSound'
  BY TrackFacts DEF DropConn, Forget, IInv, TypeOK
<1>b. queue' \in [Conns -> Seq(MachineList)] /\ \A j \in Conns : Len(queue'[j]) <= MaxQueue
  <2>1. queue' = [queue EXCEPT ![k] = <<>>]
    BY DEF DropConn, Forget
  <2> QED
    BY <2>1, AppHubAssumption DEF IInv, TypeOK
<1> USE DEF DropConn, Forget, AppAt, AppRest, registries, lists, device
<1>0. app \in [Conns -> AppType] /\ Current' = Current
  BY DEF IInv, TypeOK, Current
<1>m. app' \in [Conns -> AppType] /\ \A j \in Conns : j # k => app'[j] = app[j]
  BY <1>0 DEF AppType
<1>1. TypeOK'
  BY <1>a, <1>b, <1>0, <1>m, AppHubAssumption DEF IInv, TypeOK
<1>2. OnlyConnected'
  BY <1>0 DEF IInv, TypeOK, OnlyConnected, AppType
<1>3. ListsComing'
  BY <1>a, <1>b, <1>0, <1>m DEF IInv, TypeOK, ListsComing, OnlyConnected, WillTell, WillSnapshot, AppType
<1>4. DispatchSound'
  BY <1>a
<1> QED
  BY <1>1, <1>2, <1>3, <1>4 DEF IInv

-----------------------------------------------------------------------------
(***************************************************************************)
(* The HTTP endpoints and the dispatches.                                  *)
(***************************************************************************)
LEMMA EndpointIInv ==
  ASSUME IInv, NEW c \in Clients, Endpoint(c)
  PROVE  IInv'
<1>1. /\ UNCHANGED <<mach, sess, ended, hand, frames, subs, queue, told, full, app, owner,
                     focus, said>>
      /\ Track /\ clients' \subseteq Clients
      /\ prefs' \in [Clients -> {"default", "on", "off"}] /\ toggles' \in 0 .. MaxToggles
  <2>1. CASE RegisterClient(c)
    BY <2>1 DEF RegisterClient, AppRest, registries, lists, IInv, TypeOK
  <2>2. ASSUME NEW value \in {"on", "off"}, SetPreferences(c, value) PROVE <1>1!:
    BY <2>2, AppHubAssumption DEF SetPreferences, AppRest, registries, lists, IInv, TypeOK
  <2> QED
    BY <2>1, <2>2 DEF Endpoint
<1>2. push' \in [Pushes -> PushType] /\ DispatchSound'
  BY <1>1, TrackFacts
<1>3. TypeOK'
  BY <1>1, <1>2 DEF IInv, TypeOK, Current
<1>4. OnlyConnected' /\ ListsComing'
  BY <1>1 DEF IInv, OnlyConnected, ListsComing, WillTell, WillSnapshot, Current
<1> QED
  BY <1>2, <1>3, <1>4 DEF IInv

\* Whoever is posted to was not focused when asked, hence away; whoever is skipped
\* was focused, hence not among those that must be posted to.
LEMMA DispatchIInv ==
  ASSUME IInv, NEW i \in Pushes, Dispatch(i)
  PROVE  IInv'
<1> DEFINE p == push[i]
<1>0. push \in [Pushes -> PushType] /\ p \in PushType
  BY DEF IInv, TypeOK
<1>1. /\ UNCHANGED <<mach, sess, ended, hand, subs, queue, told, full, app, owner>>
      /\ UNCHANGED <<clients, prefs, focus, said, frames, toggles>>
  BY DEF Dispatch, DispatchList, DispatchClient, DispatchDone, registries, lists, device
<1>2. Away' = Away /\ \A r : Wants(r)' = Wants(r)
  BY <1>1 DEF Away, Wants
<1>3. ASSUME NEW q \in PushType, push' = [push EXCEPT ![i] = q],
             q.pc \in {"list", "fanout"} => q.must \subseteq Away /\ Away \subseteq q.away,
             q.pc # "list",
             q.pc = "fanout" => /\ q.must \subseteq q.snap \cup q.posted
                                /\ q.snap \cup q.posted \subseteq q.wanted
                                /\ q.posted \subseteq q.away
      PROVE  IInv'
  <2>1. push' \in [Pushes -> PushType]
    BY <1>0, <1>3
  <2>2. \A j \in Pushes : push'[j] = push[j] \/ push'[j] = q
    BY <1>0, <1>3
  <2>3. DispatchSound'
    BY <1>2, <1>3, <2>2 DEF IInv, DispatchSound
  <2>4. TypeOK'
    BY <1>1, <2>1 DEF IInv, TypeOK, Current
  <2>5. OnlyConnected' /\ ListsComing'
    BY <1>1 DEF IInv, OnlyConnected, ListsComing, WillTell, WillSnapshot, Current
  <2> QED
    BY <2>3, <2>4, <2>5 DEF IInv
<1>4. CASE DispatchList(i)
  <2> DEFINE q == [p EXCEPT !.pc = "fanout", !.snap = Wants(p.reason)]
  <2>1. push' = [push EXCEPT ![i] = q] /\ p.pc = "list"
    BY <1>0, <1>4 DEF DispatchList
  <2>2. Wants(p.reason) \subseteq Clients
    BY DEF Wants, IInv, TypeOK
  <2>3. /\ q \in PushType /\ q.pc = "fanout" /\ q.snap = Wants(p.reason) /\ q.posted = p.posted
        /\ q.must = p.must /\ q.wanted = p.wanted /\ q.away = p.away
    BY <1>0, <2>2 DEF PushType
  <2>4. /\ p.must \subseteq Away /\ Away \subseteq p.away /\ p.posted = {}
        /\ p.must \subseteq Wants(p.reason) /\ Wants(p.reason) \subseteq p.wanted
    BY <2>1 DEF IInv, DispatchSound
  <2> HIDE DEF p, q
  <2> QED
    BY <1>3, <2>1, <2>3, <2>4
<1>5. CASE DispatchClient(i)
  <2>1. PICK c \in p.snap :
          push' = [push EXCEPT ![i].snap = @ \ {c},
                               ![i].posted = IF IsFocused(c) THEN @ ELSE @ \cup {c}]
    BY <1>5 DEF DispatchClient
  <2> DEFINE snap == p.snap \ {c}
             posted == IF IsFocused(c) THEN p.posted ELSE p.posted \cup {c}
             q == [p EXCEPT !.snap = snap, !.posted = posted]
  <2>2. push' = [push EXCEPT ![i] = q] /\ p.pc = "fanout"
    BY <1>0, <1>5, <2>1 DEF DispatchClient
  <2>3. c \in Clients /\ snap \subseteq Clients /\ posted \subseteq Clients
    BY <1>0 DEF PushType
  <2>4. /\ p.must \subseteq Away /\ Away \subseteq p.away
        /\ p.must \subseteq p.snap \cup p.posted
        /\ p.snap \cup p.posted \subseteq p.wanted /\ p.posted \subseteq p.away
    BY <2>2 DEF IInv, DispatchSound
  <2>5. IsFocused(c) <=> c \notin Away
    BY <2>3 DEF IsFocused, Away, IInv, OnlyConnected
  <2>6. /\ p.must \subseteq snap \cup posted /\ snap \cup posted \subseteq p.wanted
        /\ posted \subseteq p.away
    BY <2>4, <2>5
  <2> HIDE DEF p, snap, posted
  <2>7. /\ q \in PushType /\ q.pc = p.pc /\ q.snap = snap /\ q.posted = posted
        /\ q.must = p.must /\ q.wanted = p.wanted /\ q.away = p.away
    BY <1>0, <2>3 DEF PushType
  <2> HIDE DEF q
  <2> QED
    BY <1>3, <2>2, <2>4, <2>6, <2>7
<1>6. CASE DispatchDone(i)
  <2> DEFINE q == [NoPush EXCEPT !.pc = "done"]
  <2>1. NoPush \in PushType
    BY DEF NoPush, PushType, Reasons
  <2>2. q \in PushType /\ q.pc = "done"
    BY <2>1 DEF PushType
  <2>3. push' = [push EXCEPT ![i] = q]
    BY <1>6 DEF DispatchDone
  <2> HIDE DEF q
  <2> QED
    BY <1>3, <2>2, <2>3
<1> QED
  BY <1>4, <1>5, <1>6 DEF Dispatch

\* Every step keeps the invariant: one case per action.
LEMMA NextIInv == IInv /\ [Next]_vars => IInv'
<1> SUFFICES ASSUME IInv, [Next]_vars PROVE IInv'
  OBVIOUS
<1>1. ASSUME NEW k \in Conns, AppStep(k) PROVE IInv'
  <2>1. ASSUME NEW c \in Clients \cup {None}, ClientHello(k, c) PROVE IInv'
    BY <2>1, ClientHelloIInv
  <2>2. ASSUME NEW focused \in BOOLEAN, ClientFocus(k, focused) PROVE IInv'
    BY <2>2, ClientFocusIInv
  <2> QED
    BY <1>1, <2>1, <2>2, ConnectIInv, SubscribeIInv, SnapshotMachinesIInv,
       SnapshotSessionsIInv, SnapshotSendIInv, WriterSendsIInv, AppGoneIInv, UnsubscribeIInv,
       DropConnIInv DEF AppStep, Snapshot, CleanUp
<1>2. CASE UNCHANGED vars
  <2>1. /\ UNCHANGED <<mach, sess, ended, hand, subs, queue, told, full, app, owner>>
        /\ UNCHANGED <<clients, prefs, focus, said, frames, toggles, push>>
    BY <1>2 DEF vars, registries, lists, device
  <2>2. TypeOK'
    BY <2>1 DEF IInv, TypeOK, Current
  <2>3. OnlyConnected' /\ ListsComing'
    BY <2>1 DEF IInv, OnlyConnected, ListsComing, WillTell, WillSnapshot, Current
  <2> QED
    BY <2>1, <2>2, <2>3, DispatchFrame DEF IInv
<1> QED
  BY <1>1, <1>2, HandleIInv, ContinueIInv, EndpointIInv, DispatchIInv DEF Next

-----------------------------------------------------------------------------
\* The machine lists, subscriptions, focus claims and dispatches stay consistent
\* whatever the handlers, connections and pushes interleave.
THEOREM InvariantHolds == Spec => []IInv
<1>1. Init => IInv
  BY InitIInv
<1>2. IInv /\ [Next]_vars => IInv'
  BY NextIInv
<1> QED
  BY <1>1, <1>2, PTL DEF Spec

\* Once every broadcast is over, each subscribed app has been queued a machine_list
\* that shows the registries as they are (broadcastMachineList, client_ws.go).
THEOREM CurrentListHolds == Spec => []CurrentListWasSent
<1>1. IInv => CurrentListWasSent
  BY DEF IInv, CurrentListWasSent, ListsComing, WillTell, WillSnapshot
<1> QED
  BY <1>1, InvariantHolds, PTL

\* A push goes to those who wanted it and were away, and misses nobody of whom both
\* held all along (Dispatcher.Dispatch, FocusTracker).
THEOREM PushDecisionHolds == Spec => []PushDecision
<1>1. IInv => PushDecision
  BY DEF IInv, PushDecision, DispatchSound
<1> QED
  BY <1>1, InvariantHolds, PTL
=============================================================================
