----------------------------- MODULE SpawnFlow -----------------------------
(***************************************************************************)
(* A spawn from the app's spawn_session to its spawn_response: the         *)
(* coordinator's table of open spawns (client_ws.go), the daemon's Spawn   *)
(* goroutine, the registration of the new Pi that runs beside it, and      *)
(* MapPane, which both call and which also sweeps up dead panes            *)
(* (internal/tmux/tmux.go).  A request, its spawn token and the session    *)
(* and pane it creates have one name; the sessions in Locals are started   *)
(* by hand, one after the other, in one pane.  tmux runs a command in one  *)
(* step; any of them may fail, and one that asks for a pane or a window    *)
(* may be given another call's reply (TmuxControl says how).  A session    *)
(* has one connection at a time, and may register again on a new one.      *)
(***************************************************************************)
EXTENDS Naturals, FiniteSets

CONSTANTS
  Reqs,                     \* spawn requests
  Locals,                   \* sessions started by hand
  LocalPane,                \* the pane they run in
  None,                     \* no session, no pane
  MaxStarts,                \* bound on the sessions users ask for or start
  MaxFaults                 \* bound on lost links, failed writes, failed tmux commands

ASSUME SpawnAssumption ==
  /\ Reqs \cap Locals = {} /\ {LocalPane, None} \cap (Reqs \cup Locals) = {}
  /\ LocalPane # None /\ MaxFaults \in Nat /\ MaxStarts \in Nat

Sessions == Reqs \cup Locals
Panes == Reqs \cup {LocalPane}
Pane(s) == IF s \in Reqs THEN s ELSE LocalPane
\* The goroutines that run MapPane: Serve of a session, Spawn of a request.
Workers == [for : Sessions, by : {"serve"}] \cup [for : Reqs, by : {"spawn"}]
Serving(s) == [for |-> s, by |-> "serve"]
Spawning(r) == [for |-> r, by |-> "spawn"]

VARIABLES
  \* coordinator
  asked,                    \* per request: where its spawn_session handler is
  spawns,                   \* clientWS.spawns
  answers,                  \* per request: the answers queued for the app
  dropped,                  \* requests whose answer found sendChan full
  machine,                  \* the machine's state in the registry
  \* the link between coordinator and daemon
  link, lost,               \* lost: requests a break took a frame of
  requests, responses,      \* frames under way
  \* daemon
  spawn,                    \* per request: where Spawn is
  pendingSpawns,            \* tokens waited for
  regCh,                    \* tokens whose channel holds a registration
  serve,                    \* per session: where handleRegister is
  mapping,                  \* per worker: where MapPane is
  dead, at,                 \* per worker: deadPanes, and the pane in hand
  paneToSession,            \* per pane
  misread,                  \* sessions for which another call's pane_id was stored
  entry, target,            \* per session: registry entry, TmuxTarget resolved
  again,                    \* sessions that lost a connection while they ran
  swept,                    \* a pane of a session about to be registered was swept
  \* tmux
  proc,                     \* per session: its Pi process
  linked,                   \* panes linked into pi-remote-control
  owned,                    \* panes whose own tmux session exists
  faults                    \* how many of the bounded failures happened

coord == <<asked, spawns, answers, dropped, machine>>
wire  == <<link, lost, requests, responses>>
spawnVars == <<spawn, pendingSpawns, regCh>>
maps  == <<mapping, dead, at, paneToSession, misread, swept>>
reg   == <<serve, entry, target, again>>
tmux  == <<proc, linked, owned>>
vars  == <<coord, wire, spawnVars, maps, reg, tmux, faults>>

Answer(r, ok) == [req |-> r, ok |-> ok]

CoordType ==
  /\ asked \in [Reqs -> {"no", "tracked", "done"}] /\ spawns \subseteq Reqs
  /\ answers \in [Reqs -> SUBSET [ok : BOOLEAN, nr : 1 .. 2]]
  /\ dropped \subseteq Reqs /\ machine \in {"online", "suspended"}
WireType ==
  /\ link \in {"up", "down", "stopped"} /\ lost \subseteq Reqs
  /\ requests \subseteq Reqs /\ responses \subseteq [req : Reqs, ok : BOOLEAN]
SpawnType ==
  /\ spawn \in [Reqs -> {"none", "create", "wait", "map", "kill", "yes", "no", "done"}]
  /\ pendingSpawns \subseteq Reqs /\ regCh \subseteq Reqs
MapType ==
  /\ mapping \in [Workers -> {"idle", "scan", "clean", "delete", "link", "mapped", "failed"}]
  /\ dead \in [Workers -> SUBSET Panes] /\ at \in [Workers -> Panes \cup {None}]
  /\ paneToSession \in [Panes -> Sessions \cup {None}] /\ swept \in BOOLEAN
  /\ misread \subseteq Sessions
RegType ==
  /\ serve \in [Sessions -> {"none", "resolve", "map", "notify", "register", "placeholder",
                             "loop", "ended"}]
  /\ again \subseteq Sessions
  /\ entry \in [Sessions -> {"none", "running", "ended"}] /\ target \in [Sessions -> BOOLEAN]
TmuxType ==
  /\ proc \in [Sessions -> {"none", "running", "exited"}]
  /\ linked \subseteq Panes /\ owned \subseteq Panes

TypeOK ==
  /\ CoordType /\ WireType /\ SpawnType /\ MapType /\ RegType /\ TmuxType
  /\ faults \in 0 .. MaxFaults

Init ==
  /\ asked = [r \in Reqs |-> "no"] /\ spawns = {} /\ answers = [r \in Reqs |-> {}]
  /\ dropped = {} /\ machine = "online" /\ link = "up" /\ faults = 0 /\ lost = {}
  /\ requests = {} /\ responses = {}
  /\ spawn = [r \in Reqs |-> "none"] /\ pendingSpawns = {} /\ regCh = {}
  /\ serve = [s \in Sessions |-> "none"]
  /\ mapping = [w \in Workers |-> "idle"] /\ dead = [w \in Workers |-> {}]
  /\ at = [w \in Workers |-> None] /\ paneToSession = [p \in Panes |-> None]
  /\ entry = [s \in Sessions |-> "none"] /\ target = [s \in Sessions |-> FALSE]
  /\ again = {} /\ misread = {} /\ swept = FALSE /\ proc = [s \in Sessions |-> "none"]
  /\ linked = {} /\ owned = {LocalPane}
-----------------------------------------------------------------------------
(***************************************************************************)
(* Coordinator: spawn_session and spawn_response.                          *)
(***************************************************************************)
Fault == faults < MaxFaults /\ faults' = faults + 1
FaultIf(bad) == IF bad THEN Fault ELSE UNCHANGED faults

\* The select that queues a spawn_response: a full sendChan drops it.
Tell(r, ok) ==
  \/ /\ answers' = [answers EXCEPT ![r] = @ \cup {[ok |-> ok, nr |-> Cardinality(@) + 1]}]
     /\ UNCHANGED dropped
  \/ dropped' = dropped \cup {r} /\ UNCHANGED answers

HandleUntracked(r, ok) == Tell(r, ok) /\ UNCHANGED spawns

\* clientWS.handleSpawnResponse: an answer to a request not tracked is dropped.
handleSpawnResponse(r, ok) ==
  IF r \in spawns THEN Tell(r, ok) /\ spawns' = spawns \ {r}
  ELSE UNCHANGED <<answers, dropped, spawns>>

\* A user starts one session more.
Start ==
  Cardinality({r \in Reqs : asked[r] # "no"}) + Cardinality({s \in Locals : proc[s] # "none"})
    < MaxStarts

\* A machine is known from its first machine_register on, and is then online or suspended.
SpawnSession(r) ==
  /\ asked[r] = "no" /\ Start
  /\ IF machine = "online"
     THEN /\ asked' = [asked EXCEPT ![r] = "tracked"] /\ spawns' = spawns \cup {r}
          /\ UNCHANGED <<answers, dropped>>
     ELSE asked' = [asked EXCEPT ![r] = "done"] /\ Tell(r, FALSE) /\ UNCHANGED spawns
  /\ UNCHANGED <<machine, wire, spawnVars, maps, reg, tmux, faults>>

\* mach.Conn.Write: a failed write is answered here, and the frame may still have
\* got through; a write into a dead link may also succeed and be lost.
Forward(r) ==
  /\ asked[r] = "tracked"
  /\ asked' = [asked EXCEPT ![r] = "done"]
  /\ \E failed, arrives \in BOOLEAN :
       /\ arrives => link = "up"
       /\ ~arrives => failed \/ link # "up"
       /\ requests' = IF arrives THEN requests \cup {r} ELSE requests
       /\ lost' = IF arrives \/ failed THEN lost ELSE lost \cup {r}
       /\ FaultIf(failed)
       /\ IF failed THEN handleSpawnResponse(r, FALSE)
          ELSE UNCHANGED <<answers, dropped, spawns>>
  /\ UNCHANGED <<machine, link, responses, spawnVars, maps, reg, tmux>>

\* Ingestor.handleSpawnResponse.
IngestResponse(m) ==
  /\ m \in responses /\ responses' = responses \ {m}
  /\ handleSpawnResponse(m.req, m.ok)
  /\ UNCHANGED <<asked, machine, link, lost, requests, spawnVars, maps, reg, tmux, faults>>

\* The link breaks: what is under way is lost.  The coordinator keeps the machine
\* and its dead connection as they are.
Cut ==
  /\ requests' = {} /\ responses' = {}
  /\ lost' = lost \cup requests \cup {m.req : m \in responses}

LinkBreaks ==
  /\ link = "up" /\ link' = "down" /\ Cut /\ Fault
  /\ UNCHANGED <<coord, spawnVars, maps, reg, tmux>>

\* NotifySuspend: machine_suspending, which may get through, then the link is closed.
Suspends ==
  /\ link = "up" /\ link' = "down" /\ Cut /\ Fault /\ machine' \in {machine, "suspended"}
  /\ UNCHANGED <<asked, spawns, answers, dropped, spawnVars, maps, reg, tmux>>

\* The next machine_register.
Redialled ==
  /\ link = "down" /\ link' = "up" /\ machine' = "online"
  /\ UNCHANGED <<asked, spawns, answers, dropped, lost, requests, responses, spawnVars, maps, reg,
                 tmux, faults>>

\* The daemon shuts down: coordCancel.
Stop ==
  /\ link # "stopped" /\ link' = "stopped" /\ Cut /\ Fault
  /\ UNCHANGED <<coord, spawnVars, maps, reg, tmux>>
-----------------------------------------------------------------------------
(***************************************************************************)
(* Client.Spawn.                                                           *)
(***************************************************************************)
SpawnAt(r, pc) == spawn' = [spawn EXCEPT ![r] = pc]

\* client.readLoop: go Spawn, which first stores its token.
SpawnStart(r) ==
  /\ r \in requests /\ requests' = requests \ {r}
  /\ SpawnAt(r, "create") /\ pendingSpawns' = pendingSpawns \cup {r}
  /\ UNCHANGED <<coord, link, lost, responses, regCh, maps, reg, tmux, faults>>

\* new-session: on a timeout the error is answered although the session may exist.
NewSession(r) ==
  /\ spawn[r] = "create"
  /\ \E made \in BOOLEAN :
       /\ IF made THEN proc' = [proc EXCEPT ![r] = "running"] /\ owned' = owned \cup {r}
          ELSE UNCHANGED <<proc, owned>>
       /\ \/ made /\ SpawnAt(r, "wait") /\ UNCHANGED faults
          \/ SpawnAt(r, "no") /\ Fault
  /\ UNCHANGED <<coord, wire, pendingSpawns, regCh, maps, reg, linked>>

AnswerWithoutWaiting(r) ==
  /\ spawn[r] = "wait" /\ SpawnAt(r, "yes")
  /\ UNCHANGED <<coord, wire, pendingSpawns, regCh, maps, reg, tmux, faults>>

RegistrationSeen(r) ==
  /\ spawn[r] = "wait" /\ r \in regCh
  /\ regCh' = regCh \ {r} /\ SpawnAt(r, "map")
  /\ mapping' = [mapping EXCEPT ![Spawning(r)] = "scan"]
  /\ UNCHANGED <<coord, wire, pendingSpawns, dead, at, paneToSession, misread, swept, reg, tmux,
                 faults>>

SpawnMapped(r) ==
  /\ spawn[r] = "map" /\ mapping[Spawning(r)] \in {"mapped", "failed"}
  /\ SpawnAt(r, IF mapping[Spawning(r)] = "mapped" THEN "yes" ELSE "no")
  /\ UNCHANGED <<coord, wire, pendingSpawns, regCh, maps, reg, tmux, faults>>

GiveUp(r) ==
  /\ spawn[r] = "wait" /\ link = "stopped" /\ SpawnAt(r, "done")
  /\ pendingSpawns' = pendingSpawns \ {r}
  /\ UNCHANGED <<coord, wire, regCh, maps, reg, tmux, faults>>

SpawnTimeout(r) ==
  /\ spawn[r] = "wait" /\ SpawnAt(r, "kill")
  /\ UNCHANGED <<coord, wire, pendingSpawns, regCh, maps, reg, tmux, faults>>

\* kill-session ends the session's windows, but not one that is linked elsewhere.
KillSession(r) ==
  /\ spawn[r] = "kill" /\ SpawnAt(r, "no")
  /\ \/ /\ owned' = owned \ {r}
        /\ proc' = IF r \in linked THEN proc ELSE [proc EXCEPT ![r] = "exited"]
        /\ UNCHANGED faults
     \/ UNCHANGED <<owned, proc>> /\ Fault
  /\ UNCHANGED <<coord, wire, pendingSpawns, regCh, maps, reg, linked>>

NoAnswer(r) ==
  /\ spawn[r] \in {"yes", "no"} /\ SpawnAt(r, "done")
  /\ pendingSpawns' = pendingSpawns \ {r}
  /\ UNCHANGED <<coord, wire, regCh, maps, reg, tmux, faults>>

\* sendSpawnResponse, dropped without a link, and the deferred delete.
SpawnAnswer(r) ==
  /\ spawn[r] \in {"yes", "no"} /\ SpawnAt(r, "done")
  /\ pendingSpawns' = pendingSpawns \ {r}
  /\ IF link = "up" THEN responses' = responses \cup {Answer(r, spawn[r] = "yes")} /\ UNCHANGED lost
     ELSE lost' = lost \cup {r} /\ UNCHANGED responses
  /\ UNCHANGED <<coord, link, requests, regCh, maps, reg, tmux, faults>>
-----------------------------------------------------------------------------
(***************************************************************************)
(* handleRegister with ResolveAndMap, and the end of a connection.         *)
(***************************************************************************)
ServeAt(s, pc) == serve' = [serve EXCEPT ![s] = pc]

StartLocal(s) ==
  /\ s \in Locals /\ proc[s] = "none" /\ \A t \in Locals : proc[t] # "running"
  /\ s = CHOOSE t \in Locals : proc[t] = "none"      \* a fresh id
  /\ Start
  /\ proc' = [proc EXCEPT ![s] = "running"]
  /\ UNCHANGED <<coord, wire, spawnVars, maps, reg, linked, owned, faults>>

\* buildRegister: every register of a spawned Pi carries its token, a later one too.
RegisterFrame(s) ==
  /\ serve[s] = "none" /\ proc[s] = "running" /\ ServeAt(s, "resolve")
  /\ UNCHANGED <<coord, wire, spawnVars, maps, entry, target, again, tmux, faults>>

\* findTmuxTargetByPIDOrTTY; a failure, or a reply that does not list the process, is
\* logged and the placeholder kept.
FindTarget(s) ==
  /\ serve[s] = "resolve"
  /\ \/ /\ ServeAt(s, "map") /\ mapping' = [mapping EXCEPT ![Serving(s)] = "scan"]
        /\ UNCHANGED faults
     \/ ServeAt(s, "placeholder") /\ UNCHANGED mapping /\ Fault
  /\ UNCHANGED <<coord, wire, spawnVars, dead, at, paneToSession, misread, swept, entry, target,
                 again, tmux>>

ServeMapped(s) ==
  /\ serve[s] = "map" /\ mapping[Serving(s)] \in {"mapped", "failed"}
  /\ ServeAt(s, IF mapping[Serving(s)] = "failed" THEN "placeholder"
                ELSE IF s \in pendingSpawns THEN "notify" ELSE "register")
  /\ UNCHANGED <<coord, wire, spawnVars, maps, entry, target, again, tmux, faults>>

NotifyUnbuffered(s) ==
  /\ serve[s] = "notify" /\ s \notin regCh /\ spawn[s] = "wait"
  /\ regCh' = regCh \cup {s} /\ ServeAt(s, "register")
  /\ UNCHANGED <<coord, wire, spawn, pendingSpawns, maps, entry, target, again, tmux, faults>>

\* regCh <- session, whether Spawn still waits for it or not, while its one place is free.
Notify(s) ==
  /\ serve[s] = "notify" /\ s \notin regCh
  /\ regCh' = regCh \cup {s} /\ ServeAt(s, "register")
  /\ UNCHANGED <<coord, wire, spawn, pendingSpawns, maps, entry, target, again, tmux, faults>>

\* The entry of the same process is replaced, its TmuxTarget and its state with it.
Register(s) ==
  /\ serve[s] \in {"register", "placeholder"} /\ ServeAt(s, "loop")
  /\ entry' = [entry EXCEPT ![s] = "running"]
  /\ target' = [target EXCEPT ![s] = (serve[s] = "register")]
  /\ UNCHANGED <<coord, wire, spawnVars, maps, again, tmux, faults>>

ProcessExits(s) ==
  /\ proc[s] = "running" /\ proc' = [proc EXCEPT ![s] = "exited"]
  /\ UNCHANGED <<coord, wire, spawnVars, maps, reg, linked, owned, faults>>

\* Serve returns: disconnect removes the entry, a dropped connection marks it ended.
ConnectionEnds(s) ==
  /\ serve[s] = "loop" /\ proc[s] = "exited" /\ ServeAt(s, "ended")
  /\ \E left \in {"none", "ended"} : entry' = [entry EXCEPT ![s] = left]
  /\ UNCHANGED <<coord, wire, spawnVars, maps, target, again, tmux, faults>>

\* The same while Pi runs on: its extension will dial and register again.
ConnectionDrops(s) ==
  /\ serve[s] = "loop" /\ proc[s] = "running" /\ ServeAt(s, "none") /\ Fault
  /\ entry' = [entry EXCEPT ![s] = "ended"] /\ again' = again \cup {s}
  /\ UNCHANGED <<coord, wire, spawnVars, maps, target, tmux>>

Reap(s) ==
  /\ entry[s] = "ended" /\ entry' = [entry EXCEPT ![s] = "none"]
  /\ UNCHANGED <<coord, wire, spawnVars, maps, serve, target, again, tmux, faults>>
-----------------------------------------------------------------------------
(***************************************************************************)
(* MapPane, the same for both callers.                                     *)
(***************************************************************************)
MapAt(w, pc) == mapping' = [mapping EXCEPT ![w] = pc]

\* A pane is dead when the registry does not know its session.
Scan(w) ==
  /\ mapping[w] = "scan" /\ MapAt(w, "clean")
  /\ dead' = [dead EXCEPT ![w] = {p \in Panes : /\ paneToSession[p] # None
                                                /\ entry[paneToSession[p]] = "none"}]
  /\ UNCHANGED <<coord, wire, spawnVars, at, paneToSession, misread, swept, reg, tmux, faults>>

\* window_id of the pane, unlink-window; where that fails, because pi-remote-control is
\* the window's only session, kill-window.  Any may time out; a wrong window_id hits
\* the window of another pane.
Unlink(w, p) ==
  /\ mapping[w] = "clean" /\ p \in dead[w] /\ MapAt(w, "delete")
  /\ at' = [at EXCEPT ![w] = p]
  /\ \/ \E q \in Panes :
          /\ linked' = linked \ {q}
          /\ proc' = [s \in Sessions |-> IF Pane(s) = q /\ q \notin owned /\ proc[s] = "running"
                                         THEN "exited" ELSE proc[s]]
          /\ FaultIf(q # p)
     \/ UNCHANGED <<linked, proc>> /\ Fault
  /\ UNCHANGED <<coord, wire, spawnVars, dead, paneToSession, misread, swept, reg, owned>>

Delete(w) ==
  /\ mapping[w] = "delete" /\ MapAt(w, "clean")
  /\ paneToSession' = [paneToSession EXCEPT ![at[w]] = None]
  /\ dead' = [dead EXCEPT ![w] = @ \ {at[w]}] /\ at' = [at EXCEPT ![w] = None]
  /\ LET s == paneToSession[at[w]]
     IN  swept' = (swept \/ (s # None /\ proc[s] = "running" /\ serve[s] # "ended"))
  /\ UNCHANGED <<coord, wire, spawnVars, misread, reg, tmux, faults>>

\* pane_id of the target: without an answer MapPane fails, else it stores the answer.
Assign(w) ==
  /\ mapping[w] = "clean" /\ dead[w] = {}
  /\ \/ \E p \in Panes :
          /\ MapAt(w, "link") /\ at' = [at EXCEPT ![w] = p]
          /\ paneToSession' = [paneToSession EXCEPT ![p] = w.for]
          /\ misread' = IF p # Pane(w.for) THEN misread \cup {w.for} ELSE misread
          /\ FaultIf(p # Pane(w.for))
     \/ MapAt(w, "failed") /\ UNCHANGED <<at, paneToSession, misread>> /\ Fault
  /\ UNCHANGED <<coord, wire, spawnVars, dead, swept, reg, tmux>>

\* window_id, list-windows, link-window; their failures do not fail MapPane.
LinkWindow(w) ==
  /\ mapping[w] = "link" /\ MapAt(w, "mapped") /\ at' = [at EXCEPT ![w] = None]
  /\ \/ linked' = linked \cup {at[w]} /\ UNCHANGED faults
     \/ UNCHANGED linked /\ Fault
  /\ UNCHANGED <<coord, wire, spawnVars, dead, paneToSession, misread, swept, reg, proc, owned>>
-----------------------------------------------------------------------------
(***************************************************************************)
(* WritePty, ResizePty: a pane mapped to the session, in no order, else    *)
(* the target in its registry entry.                                       *)
(***************************************************************************)
OnlyMapped(s) == {p \in Panes : paneToSession[p] = s}

PtyTargets(s) ==
  LET mapped == {p \in Panes : paneToSession[p] = s}
  IN  IF mapped # {} THEN mapped
      ELSE IF entry[s] # "none" /\ target[s] THEN {Pane(s)} ELSE {}

Occupants(p) == {s \in Sessions : Pane(s) = p /\ proc[s] = "running"}
-----------------------------------------------------------------------------
SpawnStep(r) ==
  \/ SpawnStart(r) \/ NewSession(r) \/ RegistrationSeen(r) \/ SpawnMapped(r) \/ GiveUp(r)
  \/ SpawnTimeout(r) \/ KillSession(r) \/ SpawnAnswer(r)
ServeStep(s) ==
  \/ FindTarget(s) \/ ServeMapped(s) \/ Notify(s) \/ Register(s) \/ ConnectionEnds(s)
MapStep(w) == Scan(w) \/ Delete(w) \/ Assign(w) \/ LinkWindow(w) \/ \E p \in Panes : Unlink(w, p)

Next ==
  \/ \E r \in Reqs : SpawnSession(r) \/ Forward(r) \/ SpawnStep(r)
  \/ \E m \in [req : Reqs, ok : BOOLEAN] : IngestResponse(m)
  \/ LinkBreaks \/ Suspends \/ Redialled \/ Stop
  \/ \E s \in Sessions : \/ StartLocal(s) \/ RegisterFrame(s) \/ ServeStep(s) \/ ProcessExits(s)
                         \/ ConnectionDrops(s) \/ Reap(s)
  \/ \E w \in Workers : MapStep(w)

\* Goroutines run, MapPane in the one that called it, and timers fire; nothing is assumed
\* of Pi or of the link.
Fairness ==
  /\ \A r \in Reqs : WF_vars(Forward(r)) /\ WF_vars(SpawnStep(r) \/ MapStep(Spawning(r)))
  /\ WF_vars(\E m \in [req : Reqs, ok : BOOLEAN] : IngestResponse(m))
  /\ \A s \in Sessions : WF_vars(ServeStep(s) \/ MapStep(Serving(s)))

Spec == Init /\ [][Next]_vars
FairSpec == Spec /\ Fairness
-----------------------------------------------------------------------------
\* A request gets at most one spawn_response, also when its write failed and the
\* daemon served it all the same (client_ws.go:132-141).
AnsweredOnce == \A r \in Reqs : Cardinality(answers[r]) <= 1

\* Keystrokes and resizes for a registered session whose Pi runs, and whose target was
\* resolved, have a pane to go to, and it is the one where this Pi runs alone, whatever
\* earlier sessions of the pane left mapped, a sweep of MapPane took away, a reply for
\* another session overwrote or a new connection registered again (tmux.go:712-727);
\* only a session for which another call's pane_id was stored may miss.
KeysReachOwnPane ==
  \A s \in Sessions \ misread : entry[s] = "running" /\ proc[s] = "running" /\ target[s] =>
    PtyTargets(s) # {} /\ \A p \in PtyTargets(s) : Occupants(p) = {s}

\* Every spawn_session is answered unless the app's send queue was full, the daemon's
\* link lost the request or the answer, or the daemon shut down.
SpawnAnswered ==
  \A r \in Reqs : (asked[r] = "tracked") ~>
                     (answers[r] # {} \/ r \in dropped \/ r \in lost \/ link = "stopped")

\* A spawn answered with success leads to a registered session, which may lose its
\* connection later, or its Pi died: the answer is sent before Registry.Register ran
\* (tmux.go:284-286).
SuccessRegisters ==
  \A r \in Reqs : (\E a \in answers[r] : a.ok) ~>
                     (entry[r] # "none" \/ r \in again \/ proc[r] = "exited")

\* A registration that comes with the token of a registration Spawn will not take out
\* of regCh any more waits for ever (tmux.go:286).
Hung(s) ==
  s \in again \cap regCh /\ serve[s] = "notify" /\ spawn[s] # "wait"

\* handleRegister of a spawned session gets through to Register, also when the Spawn its
\* token belongs to has stopped waiting (tmux.go:195, 286), unless it repeats an earlier one.
RegistrationCompletes ==
  \A r \in Reqs : (serve[r] = "resolve") ~> (serve[r] = "loop" \/ Hung(r))

\* MapPane's first part is a "Lazy cleanup of dead sessions in paneToSession"
\* (tmux.go:295): no pane of a session that is alive loses its mapping.
CleanupOnlyDead == ~swept
-----------------------------------------------------------------------------
(***************************************************************************)
(* The inductive invariant.                                                *)
(***************************************************************************)
\* Only a request that is open, in spawns or not asked yet, can still be answered;
\* the answer closes it (client_ws.go handleSpawnResponse).
OpenIsUnanswered ==
  \A r \in Reqs :
    /\ asked[r] = "no" => r \notin spawns
    /\ asked[r] = "no" \/ r \in spawns => answers[r] = {} /\ r \notin dropped
    /\ r \in dropped => answers[r] = {}
    /\ \A a, b \in answers[r] : a = b

\* A pane is mapped to a session that runs, or ran, in it (tmux.go MapPane), or to one
\* for which another call's reply was stored.
MappedIsOwn ==
  \A p \in Panes : paneToSession[p] \notin misread \cup {None} => Pane(paneToSession[p]) = p

\* Only a MapPane that goes on with a dead pane or a resolved one has it in hand.
InHand == \A w \in Workers : mapping[w] \in {"delete", "link"} => at[w] # None

\* Sessions started by hand follow each other in their pane.
OneLocal == \A s, t \in Locals : proc[s] = "running" /\ proc[t] = "running" => s = t

\* A registration that notifies a spawn is one of a spawned session (tmux.go:282).
NotifiesOwn == \A s \in Sessions : serve[s] = "notify" => s \in Reqs

\* The open requests, the pane map and the processes together.
IInv == TypeOK /\ OpenIsUnanswered /\ MappedIsOwn /\ InHand /\ OneLocal /\ NotifiesOwn
=============================================================================
