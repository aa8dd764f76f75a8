# A TLA+ development of pi-remote

pi-remote lets a phone watch and drive *Pi* coding sessions that run on other
machines.  A session's Pi process loads the **extension** (TypeScript), which
talks over a Unix socket to the **daemon** (Go, one per machine).  The daemon
numbers everything the session produces and writes it over one WebSocket to the
**coordinator** (Go), which keeps a ring buffer per session and fans frames out
to the **apps** (Android) attached to it.

    Pi + extension ==unix socket==> daemon ==WebSocket==> coordinator ==WebSocket==> app
          tmux pane ==control mode==^  seq, resume           ring, replay, fan-out

This directory models that chain end to end: the extension's connection and the
daemon's view of it, the tmux client, the numbering and the link to the
coordinator, the ring buffers and the fan-out to apps, spawning a session from
an app, machine lists and pushes, and what each hop builds for the next one to
decode; with everything that can go wrong on the way: goroutines that race,
connections that die and come back, machines that sleep, processes that restart
with empty memory, commands that time out and buffers that fill up.

`PROJECT.json` holds the machine-readable side: components, runs, the map from
definitions to source lines, the mutants each property is tested with, findings,
hazards and theorems.

## 1. Inventory

Paths are relative to `src/pi-remote-coordinator/internal` (C) and
`src/pi-remote-daemon/internal` (D).

| Component | State | Operations | What makes it correct |
|---|---|---|---|
| Ring buffer, C `broker/broker.go` | circular slice, Head, Tail, Bytes, MaxBytes, EarliestSeq, LatestSeq | Append, evictLocked, Replay | bytes exact; a granted replay is complete |
| Global LRU, C `broker/broker.go`, `sessions/registry.go` | MaxBytes of every ring, LastTouched | BalanceGlobalLRU | terminates; total within the cap, or every live session at the floor |
| Session registry and fan-out, C `sessions/` | map id -> *Session; LastSeq, State, Ended, AttachedClients, publishMu | Register, AdvanceSeq, Publish, Broadcast, AttachWithReplay, Detach, MarkEnded, PauseAllForMachine, RestoreLastSeq | an attached client gets each frame once, in order, with no hole between replay and live |
| Ingestor, C `machines/ingest.go` | first-frame gate per connection | one handler per frame type | stale frames out, fresh ones in; state mirrors the daemon |
| App WebSocket, C `http/client_ws.go` | attachedSession, 512-frame sendChan, subs, spawns map | hello, attach, detach, subscribe, spawn, focus, pty input and resize; writer; cleanup | subscribers learn the current list; a spawn is answered once; nothing is sent to a connection that left |
| Daemon WebSocket, C `http/daemon_ws.go` | registered machine id | read loop, deferred pause and forget | a lost daemon's sessions are paused, and only those |
| Machine registry, C `machines/registry.go` | Machine.Conn, State | Register (take-over), SetSuspended | one live connection per machine |
| Multiplex, D `session/multiplex.go`, `seq.go` | allocator and sanitizer per session | onRegister, onEvent, onStateChange, onEnded, SendPty, LiveSessions | seqs unique per session, resume never understates them |
| Coordinator client, D `coordinator/client.go` | conn, suspended flag | Run, runOnce, handshake, readLoop, write, NotifySuspend, Resume | register first; every live session announced after each reconnect |
| Daemon registry, D `session/registry.go` | map id -> Session, ended flag, heartbeat | Register, Event, UpdateHeartbeat, SweepHeartbeats, ReapEnded, RemoveWithReason, MarkEnded, Snapshot | one ending announced per session |
| Extension socket, D `socket/` | registered id per connection | Serve, handleRegister, dispatch | a dead extension ends its session, a reconnected one does not |
| tmux client, D `tmux/tmux.go` | pendingQueue, pendingCmds, pendingSpawns, paneToSession | RunCommand, Spawn, ResolveAndMap, MapPane, readLoop, WritePty | a reply reaches the command it answers; a spawn ends; keystrokes reach their session's pane |
| Sanitizer, D `ptymux/sanitize.go` | escape-parser state | Sanitize | strips titles and nothing else, across chunk boundaries |
| Push and focus, C `push/` | focus claims per connection, preferences per client | SetFocus, DropConn, Dispatch | who wants a push and looks elsewhere gets it, and nobody else |
| Client registry, C `clients/`, `http/clients_*.go` | map id -> Client | register, set preferences | - |
| Wire formats, `proto/` and the frame builders | - | build, decode | what one hop builds the next one accepts |
| Daemon process, `cmd/pi-remote-daemon/main.go` | connections served | accept, housekeeping, shutdown | a signalled daemon ends |
| Extension, `src/pi-remote-ext` | socket, registered flag, heartbeat timer | connect, register, heartbeat, send, reconnect | re-registers after a lost socket |
| Authentication, configuration | files, tokens | load, verify | no protocol state |
| Android app, `src/pi-remote-android` | reorder buffer, connection | connect, attach(last_seq), reorder | resumes where it stopped |

**Interaction.**  The daemon's producers (one goroutine per extension
connection, the tmux reader, the screen capture of a newly mapped pane, the
heartbeat sweep) call the multiplex, which allocates a seq and writes through
`coordinator.Client`.  The client's `Run` goroutine dials, does the handshake
(`machine_register`, then one `session_resume` per live session) and reads.  In
the coordinator one `ServeHTTP` goroutine per daemon connection handles frames
one at a time; each app connection has a reader and a writer goroutine.  Shared
state: the registries (one RWMutex each), the ring of a session (its own
mutex) and `publishMu`, which makes append + fan-out exclude replay + attach.
In the daemon every extension connection has a `Serve` goroutine that resolves
the session's tmux target before it registers it; `Spawn` runs in a goroutine
per request and waits for that resolution by a token.  All of them issue tmux
commands through one pipe whose replies one reader pairs with them by order.
Registry callbacks run after the registry lock is released, the sweep's under
it.  In the coordinator any change of a registry is followed by a machine list
to the subscribed apps, built and queued without a common lock, and a push runs
in a goroutine of its own.

**What is hard.**  `AdvanceSeq` and `Publish` are separate critical sections;
the *Session* object of an id is replaced under attached readers;
`BalanceGlobalLRU` sums sizes it does not hold locks for; the connection is
visible to every goroutine before the handshake is written; a seq is allocated
outside the lock that orders the writes; `session_ended` is fire-and-forget;
pausing is deferred by the handler of a connection that was taken over long ago;
a reply channel is queued and its command written in two steps, and a time-out
takes the channel out again; a registration may arrive after the spawn gave up;
a session can be ended by three goroutines and come back in between; one frame
that does not decode costs a machine its connection; neither process persists
anything.  `PROJECT.json` lists each of these at its
line under `hazards`.

## 2. Modules

| Module | Models | Used by |
|---|---|---|
| `RingWindow` | abstract ring: a suffix of what was appended; how much is evicted is a choice | refined by `RingBuffer`, instantiated by `SessionFanout` |
| `RingBuffer` | the ring as coded: circular slice, doubling, byte counter | run `RingBuffer`, proofs |
| `SessionFanout` | one session id in the coordinator: daemon connections, app connections, Session objects, publishMu, sendChan | run `Fanout`, proofs |
| `GlobalLRU` | all rings under the global byte cap, balancing by concurrent connections | run `GlobalLRU`, proofs |
| `Sums` | sums of payload lengths, by a recursive function | `RingBuffer`, `GlobalLRU` |
| `DaemonLink` | one daemon, its coordinator and one session, over connections that fail | runs `Link`, `LinkLive`, `LinkRestart`, proofs |
| `MCDaemonLink` | symmetry of the connection slots | run `Link` |
| `ExtSession` | extension, socket server, daemon registry and daemon process, for one session | run `ExtSession`, proofs |
| `TmuxControl` | RunCommand callers, the control-mode pipe and its reader | run `TmuxControl`, proofs |
| `SpawnFlow` | a spawn across app, coordinator, link, daemon, tmux and registration | run `SpawnFlow`, proofs |
| `PtyStream` | %output lines: split, de-escape, sanitize | run `PtyStream`, proofs |
| `AppHub` | machine lists, subscriptions, focus, preferences and pushes | run `AppHub`, proofs |
| `WireSchemas` | what the generated decoders accept | extended by `FramePath` |
| `FramePath` | every frame of one session, field by field, over all hops in both directions | run `FramePath`, proofs |
| `SessionFanoutProofs`, `DaemonLinkProofs`, `ExtSessionProofs`, `SpawnFlowProofs`, `AppHubProofs`, `FramePathProofs` | proofs about the module each is named after (section 4) | - |
| `BrokerProofs` | proofs about `RingBuffer` and `GlobalLRU` | - |
| `TmuxControlProofs` | proofs about `TmuxControl` and `PtyStream` | - |

The views fit together by abstraction.  `FramePath` runs every handler in one
step and is about what is in a frame; the others abstract a frame to a seq or a
kind and take the handlers apart.  `ExtSession` is the producer side of
`DaemonLink` (its callbacks are the sends there); `SpawnFlow` takes a tmux
command as one step that may fail or be given another call's reply, `TmuxControl`
says how; `AppHub` takes what
the registries hold as given and is about who is told.  `DaemonLink` handles a frame in
one coordinator step; `SessionFanout` opens that step up into its critical
sections.  `SessionFanout` uses `RingWindow` for the ring of a session and lets
eviction pick any number of entries at any time; `RingBuffer` shows that the
coded ring is such a window, and `GlobalLRU` says how the numbers are picked.

### RingBuffer and RingWindow

`Entries`, `head`, `tail`, `Bytes`, `MaxBytes`, `EarliestSeq`, `LatestSeq` are
the fields of the Go struct.  Every method holds `r.mu` throughout and is one
action: `AppendEntry` (evict, grow if full, store, advance), `Shrink` and `Grow`
(the two budget steps of `BalanceGlobalLRU`, the former with `evictLocked`).
Both eviction loops, "while too many bytes drop the oldest", are the relation
`Evicts(n, limit)`: n entries go, after any fewer too many bytes were left, and
now they fit or nothing is left.  `Store(entry, n)` and `Trim(n)` are what
Append and `evictLocked` do after their loop.  `Replay` is an operator; it
returns entries by their places among the live ones.  `hist` is a history
variable.  The refinement mapping reads the live slots from `tail` to `head`.

### SessionFanout

Session objects are numbered in creation order, so `cur` (the registered one)
is the newest; `Registry.Register` creates the next one and leaves the old one
to the readers that point to it.  A daemon connection is `ingest[i]`, a program
counter with the seq and the object in hand; an app connection is `reader[c]`
with the locals of its handler.  A step is one critical section: `AdvanceSeq`
(r.mu), `Lookup` (r.mu again), `Publish` (publishMu: append and fan-out),
`Balance`, `Broadcast`, the three steps of a `session_resume` for an unknown
session; `HandleAttach`, `BeginReplay` (takes publishMu and asks the ring),
`ReplayNext` per entry, `EndReplay` (attach, unlock), `HandleDetach`, `Close`,
`WriterStep`.  A frame is its seq.  A `sendChan` is the number of frames in it:
channels are FIFO, so `sent`, the order of accepted sends, is what the app
receives.

`PauseAllForMachine` holds the registry lock while it waits for `publishMu`;
the model lets other connections proceed meanwhile, which only adds behaviours.

### GlobalLRU

A session is the object `<<id, n>>` made by the n-th `Register` of an id: a
session_started of a known id puts a new one, with an empty ring and the initial
budget, in its place, and connections that looked up or copied the old one go on
with it.  `registered` says which object the map holds, `ring[s]` is the sequence
of entry sizes, `RingMaxBytes[s]` its MaxBytes, `older` the order of LastTouched
(time stamps are only compared).  `GetSession` is the lookup of
`Registry.Publish`; `Publish` appends, and the connection then runs through the
program counter of `BalanceGlobalLRU`: stamp, copy the
items, sum one ring at a time, grow the active session's budget, then loop:
sum, search one ring at a time for the least recently touched live session above
the floor, shrink it.  A ring may change between the sum and the search and
between two rings of either.  Any number of publishers run this at once; nothing
but the individual ring lock protects them from each other.

### DaemonLink

Daemon: `reg`, `alive`, `n` (the allocator) and `pend[w]`, the frame goroutine
`w` has built and not yet sent: numbering and writing are two steps, as in
`Multiplex`.  Client: `conn`, `run` (where `runOnce` is), `snap`
(`last_seq_emitted` as read).  Network: per slot whether it is `open`, and the
frames on the `wire`.  Coordinator: `hand[k]` (where `ServeHTTP` is), `machine`
(`Machine.Conn`), `sess`.  A failing connection is noticed by each end on its
own; frames on the wire may be read or lost.  Slots are reused once both ends
let go.  A session ends on the extension's goroutine (`OnEnded`) or, when tmux
exits, on the tmux reader (`TmuxExit`, after which the extension may still send
events).  The module follows one life of a session; an extension that registers
again under an id that ended is in `ExtSession`.  `machine_resumed`, which the
coordinator ignores, is in `FramePath`; `Machine.State` is in `AppHub`.

### ExtSession

`ext`, `link`, `registered`, `waiting` and `beating` are the extension's socket
and its promises; per connection there are the frames to the daemon, an ack in
flight and which ends are open.  `serve[c]` is where `Handler.Serve` is: reading
the first line, resolving the tmux target, registering, calling back, writing
the ack, reading on, marking ended, calling back, closing.  `entry` and `ended`
are the two maps of the registry.  `main` is where `run` is: up, or in one of
the steps of a shutdown (listener closed, accept loop awaited, connections
closed, goroutines awaited).  Faults, bounded together by `MaxFaults`: a line
beyond the scanner's limit, a coordinator link that stops draining (every
callback then waits, the sweep's with the registry locked, until the ping
fails), an accept that fails (`main = "deaf"`: the loop is over, the daemon runs
on), a tmux exit, a signal, a crash.  `told` remembers the last announcement.

### TmuxControl

A command is also the name of its reply channel and of its reply block.
`RunCommand` queues the channel, `Write` writes the command, `Receive` and
`Timeout` are the two arms of the select.  tmux executes commands in the order
it reads them, prints one block per command, and may die at any point, inside a
block too.  Its pipes are the sequences `stdin` (commands) and `stdout`
(blocks); the former holds `PipeCap` commands, and `Write` waits while it is full,
before the timer of the call starts.  The reader takes a block's `%begin`, its end and the delivery as
separate steps.  The block tmux prints for the attach itself is taken as read
before the first command.
`slipped` records that a command overtook another between queueing and writing,
or that a channel left the queue with its reply still to come.

### SpawnFlow

A request, its token, its session and its pane share a name; sessions started by
hand share a pane one after the other.  `asked`, `spawns` and `answers` are the
coordinator's side; `requests` and `responses` the frames under way; `spawn` and
`serve` the program counters of `Spawn` and `handleRegister`, both of which call
MapPane (`mapping`: scan for dead panes, unlink and delete them one at a time,
assign, link the window).  A break takes what is under way; whose frames it took
is remembered in `lost`, and whose answer found the app's send queue full in
`dropped`.  The coordinator goes on to believe in a machine whose link broke; only
a machine_suspending changes that.  MapPane stores whatever pane the reply names;
where it is another call's reply the session is in `misread`.  A session has one
connection at a time; one that is dropped while Pi runs is followed by another
register with the same token (`again`).

### PtyStream

Operators, recursive functions over the bytes inside, for tmux's escaping
(external), the split of a line, `DeescapeTmux` and every state of the
`Sanitizer` (one `...Step` operator per case of the switch); the state is the
stream delivered, the parser and all it returned.  `DeescapeLast(s, n)` is what
the loop makes of the last n bytes of a line, which is how far it has still to
go: every byte of the line is decided by what follows it.

### AppHub

One machine and one session.  A handler's frame changes the registries in one
step and then lists machines, lists sessions and queues the list as three more;
an app's subscription does the same after it has entered `subs`.  A push lists
the clients, then visits them one by one.  `told`, `full` and `said` are
history: who was queued a list that shows the registries as they are, who lost
one to a full queue, whose last focus frame said true.  `posted` is for whom a
push was tried: a seal or a POST that fails is logged and not repeated.

### WireSchemas and FramePath

A frame is a record of the JSON fields present.  A schema is the set of required
fields, the enums (the scheme of a deep link among them) and the least values, as
the `UnmarshalJSON` methods test them.
`FramePath` builds each frame from the builder's fields (`NewSessionStarted`,
`forwardStateChange`, `PushPayload`, ...) and decodes it where the code does.
The extension may be of another version: an unknown kind, no clock or data, no
kind at all; a register frame without a field.  Its clock is not before 1970.  There
is one machine with one session, whose pause, by a suspend or by the end of the
link, is broadcast to the attached app as the code does.  `toApp` and `toDevice` are
what the last step sent.

## 3. Runs

Every property of a passing run has a mutant: a plausible bug of the mapped code
under which TLC finds the property violated.  `IInv` is the module's inductive
invariant, its type invariant included; the proofs of section 4 rest on the same
definition.  `GlobalLRU`, `FramePath` and `PtyStream` have a `TypeOK` that no cfg
lists: it says no more than which values the variables take.

| Run | Checks | Shows |
|---|---|---|
| `RingBuffer` | IInv, BytesAccounted, NoSilentGap, ImplementsWindow | byte counter exact across wrap, growth and emptying; a granted replay is complete; the coded ring implements `RingWindow` |
| `Fanout` | ReplayThenLive, IInv, AttachCompletes, IngestReturns | with one daemon connection, no attached client misses, repeats or reorders a frame unless its send queue was full, under re-registration, eviction, attach, detach and close in any order; the invariant used in the proof holds; replay and publishing get publishMu in turn |
| `GlobalLRU` | CapOrFloor, BalanceEnds | two concurrent balancers on inconsistent sums, while sessions end and are replaced under them, terminate, also where shrinks that evict nothing are repeated, and leave the rings within the cap or at the floor |
| `Link` | IInv, NeverAhead, OneLiveLink, AcceptedInOrder | through a lost connection, a suspend and a coordinator restart the coordinator is never ahead of the daemon, take-over leaves one usable connection, and clients of a live session get increasing seqs |
| `LinkLive` | Announced | while a pane prints without end, a live session is eventually known to the coordinator, after a lost connection, a suspend or a restart of either process, and refused handshakes, unless handshakes are refused again and again |
| `ExtSession` | IInv, ConnectedIsLive, EndedAtMostOnce, Heals, GhostSettles, ShutdownCompletes | an old connection never ends the session of a new one; no ending is announced twice; an extension that goes on is served again after a lost entry, a stuck link or a restart, unless accept failed; what Serve leaves behind the sweep finds; shutdown ends |
| `TmuxControl` | IInv, RepliesAligned (QueueAligned and MismatchExplained), ReaderNotStuck, CommandsReturn | replies and channels stay aligned unless a call was overtaken or timed out too early; the reader never waits for a caller; every call returns unless the pipe to tmux is full for ever |
| `SpawnFlow` | IInv, AnsweredOnce, KeysReachOwnPane, SpawnAnswered, SuccessRegisters, RegistrationCompletes | a request is answered once and, unless its link, the daemon or a full send queue loses it, always; success means a registered session or a Pi that died; a late registration does not hang, unless it repeats one nobody took; keystrokes for a registered session whose Pi runs have a pane to go to and reach that Pi and no other, also in a pane whose earlier session is still mapped or mapped late |
| `PtyStream` | ChunkIndependent, OthersPass, LineDecoded | the sanitizer's result does not depend on how the stream is cut; without a title nothing is dropped; lines without a space are decoded exactly |
| `AppHub` | IInv, CurrentListWasSent, PushDecision | concurrent broadcasts and subscriptions leave no subscriber without a current list; a push goes to those who wanted it and were away |
| `FramePath` | LinkNotRefused, DeliveredDecodes | no frame costs the daemon its link as malformed, for an extension that adds a kind or leaves out a field; what is delivered decodes, a pause and a push included |
| `LinkRestart` | SeqPreserved (violated) | a restarted daemon counts from 1 |

**Bounds.**  All bounds are in guards and named by a constant.

* `RingBuffer`: 2 initial slots, seqs to 6, sizes 1, 2, 5 and budgets 2, 3, 4:
  the slice doubles twice, wraps, is emptied by an oversize entry and by a
  shrink, and seqs have holes.
* `Fanout`: 1 client, 2 seqs, 2 objects, channel of 1: a frame before, during or
  after a replay, a re-registration under the attached client, a full channel.
  The proofs cover every other value.
* `GlobalLRU`: 2 ids with 2 registrations each, 2 publishers, 2 appends of 8 or 95
  bytes, cap 100, floor 7, 3 registrations, touches or endings: two rings exceed the
  cap, the initial budget of 10 lies above the floor, shrinks that evict nothing are
  repeated, the floor is reached, and a session is replaced while a balancer holds it.
* `Link`: 3 producers (the fourth, the screen capture, sends like the tmux
  reader), 2 connections, 2 seqs, 2 frames in flight, one network failure or
  suspend, one coordinator restart.  `LinkLive`: one failure, of any kind
  (`MaxFailures`), 2 producers, 1 frame in flight; one seq is left to number, after which
  the pane prints on under the last one (`PrintOn`), so that the bound does not end
  the output; handshakes may be refused any number of times.  Two connections suffice
  for a take-over, two seqs for a reordering.
* `ExtSession`: 2 connections, 1 frame waiting per connection, 2 faults: the old
  and the new connection of a reconnect, and a fault during the recovery from
  another.
* `TmuxControl`: 3 commands: one to slip, one that gets its reply, one behind; a
  pipe of 2, which the third finds full.
* `SpawnFlow`: 1 request, 2 sessions by hand, 2 of the 3 started (`MaxStarts`), 1
  fault: a spawn beside a session by hand, or two that share a pane; a second
  registration that hangs takes one fault.
* `PtyStream`: streams of up to 6 bytes over ESC, BEL, `]`, `0`, `;`, backslash
  and space, in lines of up to 2, and one screen capture: the shortest complete
  title takes 5 bytes, so every cut of one occurs.
* `AppHub`: 2 daemon connections, 1 app connection, 1 client, 3 frames, 1 push,
  queue of 2, 2 focus or preference changes.
* `FramePath`: 7 inputs from outside, 4 frames in flight, a ring of 1 entry:
  register, link, event, attach and a second life of the session fit.

`RingBuffer` and `Fanout` are checked for deadlock.  The others switch that
off: their sessions, commands and requests may all be over, or their
bounds used up, and nothing is left to happen.

**Fairness.**  Always of goroutines that can run and of timers, never of
failures, users, producers or apps.

* `Fanout`: weak fairness of every goroutine step that does not wait, strong
  fairness of those that lock `publishMu`, which Go's mutex provides (a waiter
  that fails for 1 ms is handed the lock).
* `GlobalLRU`: weak fairness of the steps inside `Registry.Publish`.
* `LinkLive`: weak fairness of dialling, of reading the live sessions, of both ends
  noticing a dead connection (the daemon pings every 30 s; the coordinator's
  listener uses TCP keepalive) and of frame handling; strong fairness of the writes
  of producers and handshake, which share the mutex `connMu` (see `Fanout`).
  That the pane prints on is a behaviour and not assumed to end.
* `ExtSession`: weak fairness of each Serve goroutine, the accept loop, the
  steps of a shutdown, the sweep, the tmux reader, the ping, the extension's
  reconnect timer and its event loop, and of the supervisor that restarts the
  daemon; strong fairness of the heartbeat, because its timer does not wait for
  room as the bounded queue of the model makes it do.
* `TmuxControl`: weak fairness of the reader and of each call (its timer
  included); nothing of tmux, which may hang.
* `SpawnFlow`: weak fairness of the coordinator's handlers, Spawn, Serve and
  MapPane; nothing of Pi, which may never register, or of the link.

## 4. Proofs

Eight modules hold theorems; between them they state every invariant a run checks
and the refinement of the abstract ring.  Each proves `Spec => []I` for an
inductive invariant `I`, and from it the safety properties.  None fixes a
constant: the numbers of connections, clients, commands, sessions and seqs, the
lengths of streams and chunks, the capacities and the fault budgets are arbitrary,
under the named ASSUMEs of the modules, which say only that sets do not overlap
with "none" values and that bounds are naturals, with a few additions: a slice has
at least two slots (`RingAssumption`; the code starts with 128), there are
finitely many sessions (`LRUAssumption`; an infinite sum has no value), bytes
are 0 to 255 (`PtyAssumption`), and the link has room for the frames of one handler
(`FramePathAssumption`).  Two proof modules extend two models each, whose names are
kept apart for that (`LRUSpec`, `PtySpec`).  Every proof has one lemma per action, or
per group of actions that touch the same conjuncts, on top of lemmas about the
operators they use.

| Module | Theorems | Restricted to |
|---|---|---|
| `BrokerProofs`, ring | InvariantHolds, ImplementsWindowHolds, NoSilentGapHolds, BytesAccountedHolds | - |
| `BrokerProofs`, budget | ExcessIsSeen, CapOrFloorHolds | - |
| `SessionFanoutProofs` | TypeCorrect, InvariantHolds, ReplayThenLiveHolds | one daemon connection |
| `DaemonLinkProofs` | InvariantHolds, OneLiveLinkHolds, NeverAheadHolds, AcceptedInOrderHolds | the last two: until the daemon restarts |
| `ExtSessionProofs` | InvariantHolds, ConnectedIsLiveHolds, EndedAtMostOnceHolds | - |
| `TmuxControlProofs`, replies | InvariantHolds, RepliesAlignedHolds | - |
| `TmuxControlProofs`, output | StreamInvariant, ChunkIndependentHolds, OthersPassHolds, LineDecodedHolds | calls of SendPty one after the other |
| `SpawnFlowProofs` | InvariantHolds, AnsweredOnceHolds, KeysReachOwnPaneHolds | - |
| `AppHubProofs` | InvariantHolds, CurrentListHolds, PushDecisionHolds | - |
| `FramePathProofs` | FramesInvariant, TypeCorrect, NotRefused, AllDelivered | an extension whose clock is not before 1970 |

The restrictions are real.  With `Ingests = {d1, d2}` TLC finds
`ReplayThenLive` violated (section 5); a restarted daemon counts from 1 again
(`LinkRestart`), so the coordinator is then ahead of it; `onEvent` passes on a
negative `ts`, which the coordinator refuses; and the screen capture shares its
`Sanitizer` with the tmux reader without a lock.

**RingBuffer.**  `ImplementsWindowHolds` is the refinement of `RingWindow`: an
Append maps to the window's append with the same number of evictions, a shrink to
its eviction, a growing budget to a stutter.  The work is in the circular
arithmetic (`Places`, `Turning`: positions taken modulo the number of slots are
distinct, and moving the tail by n renames place i to n + i), then in what
`Store` and `Trim` do to the places of the live entries, for a full slice that is
unrolled into one twice as long and for one that is not.  `NoSilentGap` needs
`HoldsTheEnd`: what is live is the end of the append history, seqs increase, and
EarliestSeq is the first live seq or lies one above the latest, so it separates
what is gone from what is there.  How many bytes are evicted plays no part in
either, so both hold for any budget.  `BytesAccounted` adds the sizes: a sum over
the live slots splits at the number evicted (`SumFirst` of the rest is the sum
less what went), and renaming places by `Turning` does not change it.

**GlobalLRU.**  `CapOrFloor` is about the moment when nobody balances, and no
connection ever sees all rings at once.  The invariant is that an excess, while it
lasts, is in somebody's future (`WillSee`): some connection has yet to copy the
items; or its copy misses no ring that holds anything and it has yet to sum; or
what it summed so far and what the rings it has not summed hold now come to at least
what all hold; or it searches, and has a candidate or has passed over only rings
that are at the floor or ended.  An append makes its own connection the witness; an
eviction by another connection only lowers what is held; a sum that comes out within
the cap contradicts the excess, so whoever leaves the loop was not the last witness.
`Snapshots` says why copies may be stale: a Session object that was copied as ended
stays ended, and the one that replaces it starts with an empty ring, so that what it
holds was appended later by a connection that has yet to copy the items.  The bytes of
a replaced object count in a copy and not in the total, which only makes a sum larger.  The sum over a set of sessions runs through an enumeration of it;
`BrokerProofs` shows that it is monotone, and what it becomes when one ring changes
or leaves the set.

**SessionFanout.**  `ReplayThenLive` speaks about attached connections, but a
connection becomes attached at the end of a replay that took many steps, from a
ring that may have been evicted meanwhile, of an object that may have been
replaced.  `IInv` adds what has to be known on the way:

* `PublishedInOrder`: the seqs of an object increase and stay within LastSeq
  (otherwise filtering a backlog by `last_seq` could drop a new frame);
* `InFlight`: the seq between AdvanceSeq and Publish is newer than everything
  published, and goes to the registered object (this is where the single
  connection is used);
* `WindowExact`: the ring is a suffix of what was published and EarliestSeq and
  LatestSeq delimit it, also when it is empty (this is what makes the gap test
  of `Replay` sound);
* `ReplayProgress`: in the middle of a replay, what was sent followed by the
  backlog is the end of the published stream, minus what `last_seq` covers;
* `ReaderLocks`: whoever replays holds publishMu of the object it replays, and
  is in no fan-out set, so the object publishes nothing meanwhile;
* `FreshObjects`: an object to be created has published nothing.

**DaemonLink.**  A coordinator is behind the allocator only because every number
on its way is: in a goroutine between numbering and writing, in the handshake's
snapshot, on a wire, in the coordinator (`SeqsAllocated`).  That accepted seqs
increase over a restart of the coordinator needs `ResumeCovers`: whatever a
session_resume carries, on a wire or about to be written, is at least what
clients already got, because a coordinator without memory accepts any seq above
it.

**ExtSession.**  `OneServe` says that while the extension is connected no Serve
goroutine but its connection's is left, which holds because the extension dials
again only after the close that Serve does last; with it a registration is never
undone by an old connection (`LiveOnceRegistered`).  `OneAnnouncer`: whoever found
the session alive under the lock is the only one on the way to announce its end.

**TmuxControl.**  `RepliesAligned` is about the queue and the results; in between a reply
passes the block map, the reader's hands and a channel, and `Paired` follows it
through all of them.  `QueueSound` excludes that a channel is queued twice or
before its call, so that taking one out after a time-out moves no other.

**PtyStream.**  `Good(san, delivered, out)` relates the parser to its past:

* `Sound`: what is pending is determined by the state and the parameter, so a
  parser can be compared without it;
* `Whole`: the parser fed the stream in one piece is in the same state, with the
  same parameter where one is being read, and gave out the same.  They are not
  equal: at the end of a chunk the code clears `pending` in the normal state, and
  a chunk without ESC is not looked at.  `Same` says that the difference is in
  bytes no later step reads, and that it stays so (`ChunkIndependent`);
* `Passed`: unless a title has begun in what was delivered, what came out followed
  by what is held back is what was delivered (`OthersPass`), and the parser is in no
  state that drops bytes.  What is held back is thus the end of the stream, so a
  parser that decides to drop it has just read a title.

`LineDecoded` is about functions only: tmux writes a byte as itself or as four
bytes, no byte of either is a space unless the byte is one, and the loop of
`DeescapeTmux` reads back exactly those, also when the escape is the last of the
line.  What a recursive function computes is proved along its argument by a least
counterexample (the number of bytes is a natural number), one lemma for the first
element, one for the step.

**SpawnFlow.**  `OpenIsUnanswered` ties the map of open requests to the answers
given or dropped; `MappedIsOwn`, `InHand`, `OneLocal` and `NotifiesOwn` keep the pane
map and the processes in step while scans, sweeps and registrations interleave.
Assign may store any pane; `MappedIsOwn` says that then, and only then, a pane is
mapped to a session it does not belong to, and that session is in `misread`.
`KeysReachOwnPane` follows for every other session: what is mapped to it is its own
pane, and when a misread reply or a sweep took that entry away, the target of its
registration is.  It is proved for any number of sessions that follow each other in
the pane started by hand.

**AppHub.**  A broadcast is a change and three more steps, and another change may
come between any two.  `ListsComing` says that a subscribed app was told or that
some handler, or its own snapshot, still holds or will build a list that shows
the registries as they are now.  `DispatchSound` brackets a push: who must get it
shrinks, who may get it grows, while preferences and focus change.

**FramePath.**  Decoding is a property of one frame, but a frame is built in one
place, waits on the link or in a ring, and comes out on a replay, in a machine list
or in a push much later.  The invariant therefore types everything that is kept,
field by field: `UpFrames` and `DownFrames` on the link, `RingFrames` in the ring,
`Sessions` and `Metas` in the registry, where the metadata of a resumed session is
empty.  These sets say more than the schemas do (`UpDecodes`, `DownDecodes`, and the
lemmas on what each handler sends): a seq is at least 1 because it was allocated,
an ended reason is of the enum because `EndedReason` maps any other to it.  The
extension sends what this repository's version sends or another might (`ExtEvents`,
`Registers`), in any order.

**Only model-checked.**  Liveness (`AttachCompletes`, `IngestReturns`,
`BalanceEnds`, `Announced`, `Heals`, `GhostSettles`, `ShutdownCompletes`,
`ReaderNotStuck`, `CommandsReturn`, `SpawnAnswered`, `SuccessRegisters`,
`RegistrationCompletes`), which needs fairness and ENABLED, both out of the
prover's reach.

## 5. What the code does differently from what is written

`LinkRestart` is the run that shows one such case: the counter is not preserved
by a restart of the daemon, and the coordinator discards frames up to its old
LastSeq (`findings` in `PROJECT.json`).

The following definitions state what a comment or the specification says, and
the code does not keep them.  They stand beside the properties of their modules,
without a run; put one in place of the properties of the module's cfg to see the
behaviour (for `DaemonLink`, of `LinkRestart.cfg`).

* `SessionFanout!ReplayThenLive` with two daemon connections (`Ingests = {d1,
  d2}`): AdvanceSeq and Publish are not atomic.  When a daemon reconnects while
  its old connection still has a frame in `Handle`, a newer seq can be published
  first; a client that attaches with that `last_seq` never gets the older frame
  (`ingest.go:262`, against `session.go:91`).
* `SessionFanout!EveryClientSeesEveryFrame` (`ChanCap = 4`, so that no queue
  fills): session_started for a known id
  replaces the Session object; connections attached to the old one receive
  nothing any more and are not told (`sessions/registry.go:84`, SPEC.md:1383).
* `DaemonLink!EndedIsMirrored`: a session_ended is dropped while the daemon is
  disconnected, and one that races the handshake is followed by a session_resume
  that revives the session in the coordinator (`multiplex.go:217`, SPEC.md:1249).
* `DaemonLink!LiveIsNotPaused`: the handler of the replaced connection pauses all
  sessions of the machine after the new connection announced them
  (`daemon_ws.go:95`, SPEC.md:1231).
* `DaemonLink!RegisterFirst`: `setConn` precedes the handshake, so any producer
  can write first; the coordinator then closes the connection and the daemon
  redials (`client.go:204`, `frames.go:109`).  Nothing keeps a busy pane from doing so
  every time: `Announced` without its last disjunct is violated by handshakes refused
  for ever.
* `ExtSession!EndingFires`: the ended flag survives a re-registration, so the
  second ending of a session is not announced (`registry.go:92`).
* `TmuxControl!ReplyIsMine`: a call that was overtaken, or that follows one that
  timed out, gets the reply to another command (`tmux.go:140`, `tmux.go:161`).
* `SpawnFlow!CleanupOnlyDead`: MapPane decides from a registry that does not have
  the new session yet and can sweep its pane (`tmux.go:301`).
* `PtyStream!EveryByteForwarded`: a `%output` line is split into at most four
  words and only the third is forwarded, so a line of output ends at its first
  space (`tmux.go:505`, SPEC.md:432).
* `FramePath!IdleIsPushed` (with `FairSpec`): agent_end has no push reason and
  nothing in the daemon reports `idle`, so `agent_idle`, the one state change whose push
  the specification lists as on, is never pushed (`ingest.go:67`, SPEC.md:265, 1244 and
  1255).

Seen while modelling:

* `Replay` refuses a client whose next seq was used by a session_state_change and
  never entered the ring, although no entry is missing (`broker.go:159`); a
  client with a full send queue loses frames silently (`client_ws.go:39`), which
  is why `ReplayThenLive` excludes it; the byte cap is exceeded when enough
  sessions sit at the floor or have ended (`broker.go:242`), which is why
  `CapOrFloor` is a disjunction; two goroutines of a session may write their
  frames against seq order and the coordinator drops the late one
  (`multiplex.go:190`).
* An older machine list may be queued after a current one, and one dropped on a
  full queue is not repeated until the next change; session_resume of a known
  session tells attached apps no state change, and of an unknown one loses its
  metadata; apps are never sent a session_started although SPEC.md:1092 lists it.
* A push has one time-out for its whole fan-out and no retry; a half-open app
  connection keeps its focus claim; the client registry is in memory only.
* pty_resize is forwarded without validation (`client_ws.go:475`), which is why
  `DeliveredDecodes` excepts it; machine_suspending and machine_resumed lack the
  `ts` their schema requires, which the coordinator does not decode.
* A spawn answered with success is not registered yet (`tmux.go:285`); the
  session killed after a time-out keeps a linked window; an open spawn whose
  answer is lost stays in `spawns`.  The app's request context is used for writes
  to the daemon (`client_ws.go:433`), so an app that leaves can break them.  An answer
  that finds the app's send queue full is dropped (`client_ws.go:164`, `399`).
* A spawned Pi sends its token with every register: one that loses its connection and
  registers again before Spawn, which has timed out, took its token out of
  pendingSpawns sends on a channel that is full and nobody reads; its Serve goroutine
  hangs, and a later shutdown waits for it (`tmux.go:286`; `Hung` in `SpawnFlow`).
* Keystrokes for a session that ended, while the map still names its pane, reach the Pi
  that uses the pane now (`tmux.go:713`); `KeysReachOwnPane` is about sessions whose
  Pi runs.  One that another call's pane_id was stored for types into that pane.
* A command is written to tmux before its timer starts, so with a hung tmux and a full
  pipe `RunCommand` does not return (`tmux.go:144`); for keystrokes that is the loop
  that reads from the coordinator (`client.go:319`).
* Any accept error but ErrClosed ends the accept loop of a daemon that runs on
  (`main.go:252`); `Heals` excepts it.
* A pause is never pushed although SPEC.md:1259 makes `machine_suspended` a push one
  can switch on: nothing dispatches that reason.
* A tmux line above 64 KB ends the reader (`tmux.go:494`); a line of a command's
  reply that starts like a notification is taken for one (`tmux.go:504`).

## 6. Plan

Modelled: the chain from the extension to the apps and devices, both ways; proved:
all its invariants.  What would come next is `ExtSession` with the coordinator's
view of `DaemonLink` in place of `told`, so that the ending of a session is followed
from the extension to the apps in one module.

**Not modelled.**  The Android app: its reconnect (`WebSocketClient.kt:116` returns
early while the status is still CONNECTING) and the order in which it applies
messages (`WebSocketClient.kt:266` starts a dispatcher per message) are of its own
making; here an app is whatever connects, sends frames in any order and leaves.
Authentication, cryptography, configuration and file I/O have no protocol state.
Generated types that nothing decodes or sends are left out, as are back-off
durations, the wording of frames, summaries and logs, the hex encoding of
keystrokes, and the data race of the screen capture and the tmux reader on one
`Sanitizer` (`multiplex.go:261`).  The size of a WebSocket frame is not modelled: no
code sets a read limit, so the library's default applies and a larger frame closes the
link whatever it holds; `LinkNotRefused` is about its fields.  Nor is a `ts` before 1970,
which `multiplex.go:191` passes on and the coordinator refuses.
