---------------------------- MODULE SessionFanout ----------------------------
(***************************************************************************)
(* One session id inside the coordinator: frames from daemon connections   *)
(* are numbered, appended to the session's ring and fanned out to the app   *)
(* connections attached to it, while app connections attach with a replay  *)
(* of the ring (internal/sessions/session.go and registry.go, the session  *)
(* handlers of internal/machines/ingest.go, the read loop of               *)
(* internal/http/client_ws.go).                                            *)
(*                                                                         *)
(* Processes: one goroutine per daemon connection (Ingests), a reader and a*)
(* writer goroutine per app connection (Clients).  A step is what runs     *)
(* under one lock: r.mu for the registry, publishMu for append + fan-out   *)
(* and for replay + attach.                                                *)
(*                                                                         *)
(* Registry.Register replaces the *Session of an id by a new object; the   *)
(* old one stays reachable from readers that hold it.  Objects are numbered*)
(* in the order they are created, so the registered one is the last.       *)
(*                                                                         *)
(* Frames are abstracted to their seq.  A sendChan is the number of frames *)
(* queued in it: Go channels are FIFO, so the order of the accepted sends  *)
(* (sent) is the order in which the app receives them.                     *)
(***************************************************************************)
EXTENDS Integers, Sequences

CONSTANTS
  Clients,                  \* app WebSocket connections
  Ingests,                  \* daemon WebSocket connections
  MaxSeq,                   \* bound on sequence numbers
  MaxObjs,                  \* bound on Session objects created for the id
  ChanCap                   \* capacity of sendChan (512 in the code)

ASSUME FanoutAssumption ==
  /\ MaxSeq \in Nat \ {0}
  /\ MaxObjs \in Nat \ {0}
  /\ ChanCap \in Nat \ {0}

CONSTANT Free               \* publishMu is not held
ASSUME FreeAssumption == Free \notin Clients

VARIABLES
  \* Registry and Session objects
  cur,                      \* Registry.m[id]: the registered object, 0 if unknown
  LastSeq,                  \* Session.LastSeq
  ring,                     \* Session.Ring, a window of RingWindow
  AttachedClients,          \* Session.AttachedClients
  publishMu,                \* who replays under Session.publishMu
  \* daemon connections
  ingest,                   \* where Ingestor.Handle is, with its seq and object
  \* app connections
  reader,                   \* where the read loop is
  attachedSession,          \* its attachedSession pointer, 0 for nil
  target,                   \* the session object an attach is working on
  lastSeqArg,               \* last_seq of the latest attach
  granted,                  \* whether the latest replay was available
  backlog,                  \* entries Replay returned, still to be sent
  queued,                   \* frames in sendChan
  \* history
  published,                \* per object: every seq published, in order
  sent,                     \* per connection: seqs accepted by sendChan since the attach
  lost                      \* per connection: a send since the attach was dropped

regVars    == <<cur, LastSeq>>
readerVars == <<reader, attachedSession, target, lastSeqArg, granted, backlog>>
vars == <<cur, LastSeq, ring, AttachedClients, publishMu, ingest, reader,
          attachedSession, target, lastSeqArg, granted, backlog, queued,
          published, sent, lost>>

Objs == 1 .. MaxObjs
Seqs == 1 .. MaxSeq

Windows == INSTANCE RingWindow WITH window <- ring[1], hist <- published[1]

WindowType == [entries : Seq(Seqs), earliest : 0 .. MaxSeq + 1, latest : 0 .. MaxSeq]
IngestType == [at : {"read", "lookup", "publish", "broadcast", "balance", "register", "restore"},
               seq : 0 .. MaxSeq, data : BOOLEAN, obj : 0 .. MaxObjs]

\* Every variable keeps its type; a sendChan never holds more than its capacity.
TypeOK ==
  /\ cur \in 0 .. MaxObjs
  /\ LastSeq \in [Objs -> 0 .. MaxSeq]
  /\ ring \in [Objs -> WindowType]
  /\ AttachedClients \in [Objs -> SUBSET Clients]
  /\ publishMu \in [Objs -> Clients \cup {Free}]
  /\ ingest \in [Ingests -> IngestType]
  /\ reader \in [Clients -> {"closed", "loop", "attach", "replay"}]
  /\ attachedSession \in [Clients -> 0 .. MaxObjs]
  /\ target \in [Clients -> 0 .. MaxObjs]
  /\ lastSeqArg \in [Clients -> 0 .. MaxSeq]
  /\ granted \in [Clients -> BOOLEAN]
  /\ backlog \in [Clients -> Seq(Seqs)]
  /\ queued \in [Clients -> 0 .. ChanCap]
  /\ published \in [Objs -> Seq(Seqs)]
  /\ sent \in [Clients -> Seq(Seqs)]
  /\ lost \in [Clients -> BOOLEAN]

Idle == [at |-> "read", seq |-> 0, data |-> FALSE, obj |-> 0]

Init ==
  /\ cur = 0
  /\ LastSeq = [g \in Objs |-> 0]
  /\ ring = [g \in Objs |-> Windows!NewWindow]
  /\ AttachedClients = [g \in Objs |-> {}]
  /\ publishMu = [g \in Objs |-> Free]
  /\ ingest = [i \in Ingests |-> Idle]
  /\ reader = [c \in Clients |-> "closed"]
  /\ attachedSession = [c \in Clients |-> 0]
  /\ target = [c \in Clients |-> 0]
  /\ lastSeqArg = [c \in Clients |-> 0]
  /\ granted = [c \in Clients |-> FALSE]
  /\ backlog = [c \in Clients |-> <<>>]
  /\ queued = [c \in Clients |-> 0]
  /\ published = [g \in Objs |-> <<>>]
  /\ sent = [c \in Clients |-> <<>>]
  /\ lost = [c \in Clients |-> FALSE]
-----------------------------------------------------------------------------
(***************************************************************************)
(* Daemon connections: Ingestor.Handle runs one frame at a time per        *)
(* connection.  Frames that change nothing here are not steps: a stale or  *)
(* unknown-session session_event, and unknown frame types.                 *)
(***************************************************************************)
\* Registry.Register: the new object has LastSeq 0, an empty ring and nobody
\* attached (Init says so of every object not created yet).
Register ==
  /\ cur < MaxObjs
  /\ cur' = cur + 1
  /\ LastSeq' = [LastSeq EXCEPT ![cur + 1] = 0]

HandleSessionStarted(i) ==
  /\ ingest[i].at = "read"
  /\ Register
  /\ UNCHANGED <<ring, AttachedClients, publishMu, ingest, readerVars, queued,
                 published, sent, lost>>

\* session_event and session_pty: AdvanceSeq lets only a newer seq through.
AdvanceSeq(i, s) ==
  /\ ingest[i].at = "read"
  /\ cur # 0
  /\ s > LastSeq[cur]
  /\ LastSeq' = [LastSeq EXCEPT ![cur] = s]
  /\ ingest' = [ingest EXCEPT ![i] = [at |-> "lookup", seq |-> s, data |-> TRUE, obj |-> 0]]
  /\ UNCHANGED <<cur, ring, AttachedClients, publishMu, readerVars, queued,
                 published, sent, lost>>

\* session_state_change and session_ended raise LastSeq and are broadcast even
\* when stale; s = 0 is the broadcast of PauseAllForMachine, which carries no
\* seq (it keeps r.mu while it waits for publishMu; here other connections may
\* proceed meanwhile, which only adds behaviours).
HandleControl(i, s) ==
  /\ ingest[i].at = "read"
  /\ cur # 0
  /\ LastSeq' = [LastSeq EXCEPT ![cur] = IF s > @ THEN s ELSE @]
  /\ ingest' = [ingest EXCEPT ![i] = [Idle EXCEPT !.at = "lookup"]]
  /\ UNCHANGED <<cur, ring, AttachedClients, publishMu, readerVars, queued,
                 published, sent, lost>>

\* Registry.Get again, after AdvanceSeq released r.mu.
Lookup(i) ==
  /\ ingest[i].at = "lookup"
  /\ ingest' = [ingest EXCEPT ![i] =
       [@ EXCEPT !.at = IF ingest[i].data THEN "publish" ELSE "broadcast", !.obj = cur]]
  /\ UNCHANGED <<regVars, ring, AttachedClients, publishMu, readerVars, queued,
                 published, sent, lost>>

\* Mutant: frames are queued whether or not the channel has room.
\* attachedClient.Send to every member of S: accepted while sendChan has room.
Enqueue(S) ==
  queued' = [c \in Clients |-> IF c \in S /\ queued[c] < ChanCap
                               THEN queued[c] + 1 ELSE queued[c]]

SendData(S, s) ==
  /\ Enqueue(S)
  /\ sent' = [c \in Clients |-> IF c \in S /\ queued[c] < ChanCap
                                THEN Append(sent[c], s) ELSE sent[c]]
  /\ lost' = [c \in Clients |-> lost[c] \/ (c \in S /\ queued[c] >= ChanCap)]

\* Session.Publish: append (evicting n old entries) and fan out, under publishMu.
Publish(i, n) ==
  LET g == ingest[i].obj
  IN  /\ ingest[i].at = "publish"
      /\ publishMu[g] = Free
      /\ n \in 0 .. Len(ring[g].entries)
      /\ ring' = [ring EXCEPT ![g] = Windows!AppendEntry(@, n, ingest[i].seq)]
      /\ published' = [published EXCEPT ![g] = Append(@, ingest[i].seq)]
      /\ SendData(AttachedClients[g], ingest[i].seq)
      /\ ingest' = [ingest EXCEPT ![i] = [@ EXCEPT !.at = "balance"]]
      /\ UNCHANGED <<regVars, AttachedClients, publishMu, readerVars>>

\* The BalanceGlobalLRU call that ends Registry.Publish: shrinking the ring of
\* the registered object evicts n of its entries (GlobalLRU models the policy).
Balance(i, n) ==
  /\ ingest[i].at = "balance"
  /\ n \in 0 .. Len(ring[cur].entries)
  /\ ring' = [ring EXCEPT ![cur] = Windows!EvictEntries(@, n)]
  /\ ingest' = [ingest EXCEPT ![i] = Idle]
  /\ UNCHANGED <<regVars, AttachedClients, publishMu, readerVars, queued,
                 published, sent, lost>>

\* Session.Broadcast: no ring, no seq.
Broadcast(i) ==
  /\ ingest[i].at = "broadcast"
  /\ publishMu[ingest[i].obj] = Free
  /\ Enqueue(AttachedClients[ingest[i].obj])
  /\ ingest' = [ingest EXCEPT ![i] = Idle]
  /\ UNCHANGED <<regVars, ring, AttachedClients, publishMu, readerVars,
                 published, sent, lost>>

\* session_resume: a known session only has its LastSeq raised; an unknown one
\* is registered and has its LastSeq restored in two more steps.
HandleSessionResume(i, s) ==
  /\ ingest[i].at = "read"
  /\ IF cur # 0
     THEN /\ LastSeq' = [LastSeq EXCEPT ![cur] = IF s > @ THEN s ELSE @]
          /\ UNCHANGED ingest
     ELSE /\ ingest' = [ingest EXCEPT ![i] = [Idle EXCEPT !.at = "register", !.seq = s]]
          /\ UNCHANGED LastSeq
  /\ UNCHANGED <<cur, ring, AttachedClients, publishMu, readerVars, queued,
                 published, sent, lost>>

ResumeRegister(i) ==
  /\ ingest[i].at = "register"
  /\ Register
  /\ ingest' = [ingest EXCEPT ![i] = [@ EXCEPT !.at = "restore"]]
  /\ UNCHANGED <<ring, AttachedClients, publishMu, readerVars, queued,
                 published, sent, lost>>

RestoreLastSeq(i) ==
  /\ ingest[i].at = "restore"
  /\ LastSeq' = [LastSeq EXCEPT ![cur] = IF ingest[i].seq > @ THEN ingest[i].seq ELSE @]
  /\ ingest' = [ingest EXCEPT ![i] = Idle]
  /\ UNCHANGED <<cur, ring, AttachedClients, publishMu, readerVars, queued,
                 published, sent, lost>>

\* BalanceGlobalLRU on behalf of another session's Publish, at any time.
BalanceElsewhere(n) ==
  /\ cur # 0
  /\ n \in 1 .. Len(ring[cur].entries)
  /\ ring' = [ring EXCEPT ![cur] = Windows!EvictEntries(@, n)]
  /\ UNCHANGED <<regVars, AttachedClients, publishMu, ingest, readerVars, queued,
                 published, sent, lost>>
-----------------------------------------------------------------------------
(***************************************************************************)
(* App connections: clientWS.ServeHTTP after client_hello.                 *)
(***************************************************************************)
Connect(c) ==
  /\ reader[c] = "closed"
  /\ reader' = [reader EXCEPT ![c] = "loop"]
  /\ UNCHANGED <<regVars, ring, AttachedClients, publishMu, ingest,
                 attachedSession, target, lastSeqArg, granted, backlog, queued,
                 published, sent, lost>>

\* attachedSession.Detach(connID); attachedSession = nil.  What the finished
\* attachment left in the handler's locals and in the history is forgotten.
DetachCurrent(c) ==
  /\ AttachedClients' = [g \in Objs |-> IF g = attachedSession[c]
                                        THEN AttachedClients[g] \ {c}
                                        ELSE AttachedClients[g]]
  /\ attachedSession' = [attachedSession EXCEPT ![c] = 0]
  /\ granted' = [granted EXCEPT ![c] = FALSE]
  /\ sent' = [sent EXCEPT ![c] = <<>>]
  /\ lost' = [lost EXCEPT ![c] = FALSE]

\* attach: look the session up (unknown sessions are ignored), leave the
\* previous one.
HandleAttach(c, lastSeq) ==
  /\ reader[c] = "loop"
  /\ cur # 0
  /\ target' = [target EXCEPT ![c] = cur]
  /\ lastSeqArg' = [lastSeqArg EXCEPT ![c] = lastSeq]
  /\ DetachCurrent(c)
  /\ reader' = [reader EXCEPT ![c] = "attach"]
  /\ UNCHANGED <<regVars, ring, publishMu, ingest, backlog, queued, published>>

\* Mutant: AttachWithReplay does not lock.
TakeNothing(g, c) == UNCHANGED publishMu

\* s.publishMu.Lock() and the deferred Unlock of AttachWithReplay.
TakePublishMu(g, c) ==
  /\ publishMu[g] = Free
  /\ publishMu' = [publishMu EXCEPT ![g] = c]

ReleasePublishMu(g) == publishMu' = [publishMu EXCEPT ![g] = Free]

\* AttachWithReplay takes publishMu and asks the ring; a refused range is
\* answered with one replay_unavailable frame.
BeginReplay(c) ==
  LET g  == target[c]
      ok == Windows!ReplayOk(ring[g], lastSeqArg[c])
  IN  /\ reader[c] = "attach"
      /\ TakePublishMu(g, c)
      /\ granted' = [granted EXCEPT ![c] = ok]
      /\ backlog' = [backlog EXCEPT ![c] = IF ok THEN ring[g].entries ELSE <<>>]
      /\ sent' = [sent EXCEPT ![c] = <<>>]
      /\ lost' = [lost EXCEPT ![c] = ~ok /\ queued[c] >= ChanCap]
      /\ queued' = [queued EXCEPT ![c] = IF ~ok /\ @ < ChanCap THEN @ + 1 ELSE @]
      /\ reader' = [reader EXCEPT ![c] = "replay"]
      /\ UNCHANGED <<regVars, ring, AttachedClients, ingest, attachedSession,
                     target, lastSeqArg, published>>

\* Mutant: an entry that is skipped is looked at again.
ReplayNextStuck(c) ==
  /\ reader[c] = "replay"
  /\ backlog[c] # <<>>
  /\ backlog' = [backlog EXCEPT ![c] = IF Head(@) > lastSeqArg[c] THEN Tail(@) ELSE @]
  /\ SendData(IF Head(backlog[c]) > lastSeqArg[c] THEN {c} ELSE {}, Head(backlog[c]))
  /\ UNCHANGED <<regVars, ring, AttachedClients, publishMu, ingest, reader,
                 attachedSession, target, lastSeqArg, granted, published>>

\* One iteration of the replay loop; the writer drains sendChan meanwhile.
ReplayNext(c) ==
  /\ reader[c] = "replay"
  /\ backlog[c] # <<>>
  /\ backlog' = [backlog EXCEPT ![c] = Tail(@)]
  /\ SendData(IF Head(backlog[c]) > lastSeqArg[c] THEN {c} ELSE {}, Head(backlog[c]))
  /\ UNCHANGED <<regVars, ring, AttachedClients, publishMu, ingest, reader,
                 attachedSession, target, lastSeqArg, granted, published>>

\* s.Attach(conn), then publishMu is released.
EndReplay(c) ==
  /\ reader[c] = "replay"
  /\ backlog[c] = <<>>
  /\ AttachedClients' = [AttachedClients EXCEPT ![target[c]] = @ \cup {c}]
  /\ ReleasePublishMu(target[c])
  /\ attachedSession' = [attachedSession EXCEPT ![c] = target[c]]
  /\ reader' = [reader EXCEPT ![c] = "loop"]
  /\ UNCHANGED <<regVars, ring, ingest, target, lastSeqArg, granted, backlog,
                 queued, published, sent, lost>>

HandleDetach(c) ==
  /\ reader[c] = "loop"
  /\ attachedSession[c] # 0
  /\ DetachCurrent(c)
  /\ target' = [target EXCEPT ![c] = 0]
  /\ lastSeqArg' = [lastSeqArg EXCEPT ![c] = 0]
  /\ UNCHANGED <<regVars, ring, publishMu, ingest, reader, backlog, queued, published>>

\* The socket ends (peer gone or write error) and the deferred cleanup runs.
Close(c) ==
  /\ reader[c] = "loop"
  /\ DetachCurrent(c)
  /\ target' = [target EXCEPT ![c] = 0]
  /\ lastSeqArg' = [lastSeqArg EXCEPT ![c] = 0]
  /\ queued' = [queued EXCEPT ![c] = 0]
  /\ reader' = [reader EXCEPT ![c] = "closed"]
  /\ UNCHANGED <<regVars, ring, publishMu, ingest, backlog, published>>

\* The writer goroutine takes one frame off sendChan.
WriterStep(c) ==
  /\ reader[c] # "closed"
  /\ queued[c] > 0
  /\ queued' = [queued EXCEPT ![c] = @ - 1]
  /\ UNCHANGED <<regVars, ring, AttachedClients, publishMu, ingest, readerVars,
                 published, sent, lost>>
-----------------------------------------------------------------------------
IngestNext(i) ==
  \/ HandleSessionStarted(i)
  \/ \E s \in Seqs : AdvanceSeq(i, s)
  \/ \E s \in 0 .. MaxSeq : HandleControl(i, s)
  \/ Lookup(i)
  \/ \E n \in 0 .. MaxSeq : Publish(i, n)
  \/ \E n \in 0 .. MaxSeq : Balance(i, n)
  \/ Broadcast(i)
  \/ \E s \in 0 .. MaxSeq : HandleSessionResume(i, s)
  \/ ResumeRegister(i)
  \/ RestoreLastSeq(i)

ClientNext(c) ==
  \/ Connect(c)
  \/ \E s \in 0 .. MaxSeq : HandleAttach(c, s)
  \/ BeginReplay(c)
  \/ ReplayNext(c)
  \/ EndReplay(c)
  \/ HandleDetach(c)
  \/ Close(c)
  \/ WriterStep(c)

Next ==
  \/ \E i \in Ingests : IngestNext(i)
  \/ \E c \in Clients : ClientNext(c)
  \/ \E n \in 1 .. MaxSeq : BalanceElsewhere(n)

Spec == Init /\ [][Next]_vars

\* A goroutine that can run eventually runs; a sync.Mutex that is released
\* again and again is eventually granted (Go's mutex starvation mode).
Fairness ==
  /\ \A i \in Ingests :
       /\ WF_vars(Lookup(i))
       /\ SF_vars(\E n \in 0 .. MaxSeq : Publish(i, n))
       /\ SF_vars(Broadcast(i))
       /\ WF_vars(\E n \in 0 .. MaxSeq : Balance(i, n))
       /\ WF_vars(ResumeRegister(i))
       /\ WF_vars(RestoreLastSeq(i))
  /\ \A c \in Clients :
       /\ SF_vars(BeginReplay(c))
       /\ WF_vars(ReplayNext(c))
       /\ WF_vars(EndReplay(c))
       /\ WF_vars(WriterStep(c))

FairSpec == Spec /\ Fairness
-----------------------------------------------------------------------------
(***************************************************************************)
(* Properties.                                                             *)
(***************************************************************************)
\* S, what a connection was sent since its attach, is the end of the first k
\* frames of P, each once and in order; and a granted replay after lastSeq
\* left out only frames up to lastSeq.
OnStream(P, S, ok, lastSeq, k) ==
  /\ Len(S) <= k
  /\ \A j \in 1 .. Len(S) : S[j] = P[k - Len(S) + j]
  /\ ok /\ lastSeq > 0 => \A j \in 1 .. k - Len(S) : P[j] <= lastSeq

\* session.go:89-92: "a frame can never fall between a client's replay and
\* its first live frame, and is never delivered twice".  Up to the latest
\* published frame, an attached connection was sent everything, once and in
\* order, from where its replay began; and if the replay after last_seq was
\* granted, it began no later than the first frame newer than last_seq.  A
\* send that found sendChan full is excluded (see EveryClientSeesEveryFrame).
ReplayThenLive ==
  \A g \in Objs : \A c \in AttachedClients[g] :
    ~lost[c] => OnStream(published[g], sent[c], granted[c], lastSeqArg[c],
                         Len(published[g]))

\* SPEC.md 16.2: "All attached clients see every byte of pty output".  A frame
\* published for the session reaches every connection that attached to it
\* and has not detached.
EveryClientSeesEveryFrame ==
  [][\A g \in Objs, c \in Clients :
       published'[g] # published[g] /\ reader[c] = "loop" /\ attachedSession[c] # 0
         => Len(sent'[c]) = Len(sent[c]) + 1]_vars

\* An attach that found its session completes, whatever the daemon publishes.
AttachCompletes == \A c \in Clients : (reader[c] = "attach") ~> (reader[c] = "loop")

\* A slow replay delays a daemon connection but never blocks it for good.
IngestReturns == \A i \in Ingests : (ingest[i].at # "read") ~> (ingest[i].at = "read")
-----------------------------------------------------------------------------
(***************************************************************************)
(* The inductive invariant behind ReplayThenLive, for one daemon connection *)
(* at a time (Ingests a singleton).                                        *)
(***************************************************************************)
\* Nothing was published for an object that was not created yet.
FreshObjects == \A g \in Objs : g > cur => published[g] = <<>>

\* Seqs are published in increasing order, never beyond LastSeq.
InOrder(P, last) ==
  /\ \A j \in 1 .. Len(P) : P[j] <= last
  /\ \A j, k \in 1 .. Len(P) : j < k => P[j] < P[k]

PublishedInOrder == \A g \in Objs : InOrder(published[g], LastSeq[g])

\* The ring is a suffix of what was published, and its bounds delimit it.
IsWindowOf(w, P) ==
  /\ Len(w.entries) <= Len(P)
  /\ \A j \in 1 .. Len(w.entries) : w.entries[j] = P[Len(P) - Len(w.entries) + j]
  /\ w.latest = IF P = <<>> THEN 0 ELSE P[Len(P)]
  /\ w.entries # <<>> => w.earliest = w.entries[1]
  /\ w.entries = <<>> => w.earliest = IF P = <<>> THEN 0 ELSE P[Len(P)] + 1

WindowExact == \A g \in Objs : IsWindowOf(ring[g], published[g])

\* A frame between AdvanceSeq and Publish is newer than everything published
\* for the registered object, and will be published to that object.
InFlight ==
  \A i \in Ingests :
    /\ ingest[i].at \in {"lookup", "publish", "broadcast", "balance", "restore"} => cur # 0
    /\ ingest[i].at \in {"publish", "broadcast"} => ingest[i].obj = cur
    /\ ingest[i].at = "publish" => ingest[i].data
    /\ ingest[i].at \in {"lookup", "publish"} /\ ingest[i].data =>
         /\ ingest[i].seq \in Seqs
         /\ ingest[i].seq <= LastSeq[cur]
         /\ InOrder(published[cur], ingest[i].seq - 1)

\* A connection is in at most the fan-out set its handler points to, and it
\* holds publishMu exactly while it replays.
ReaderLocks ==
  /\ \A c \in Clients :
       /\ reader[c] \in {"attach", "replay"} => target[c] \in Objs
       /\ reader[c] = "replay" => publishMu[target[c]] = c
  /\ \A g \in Objs :
       /\ \A c \in AttachedClients[g] : reader[c] = "loop" /\ attachedSession[c] = g
       /\ publishMu[g] # Free =>
            reader[publishMu[g]] = "replay" /\ target[publishMu[g]] = g

\* Midway through a replay: the backlog B is the end of what was published,
\* and what was sent is the stream up to there.
Replaying(P, S, ok, lastSeq, dropped, B) ==
  /\ Len(B) <= Len(P)
  /\ \A j \in 1 .. Len(B) : B[j] = P[Len(P) - Len(B) + j]
  /\ \A j \in 1 .. Len(S) : S[j] > lastSeq
  /\ ~dropped => OnStream(P, S, ok, lastSeq, Len(P) - Len(B))

ReplayProgress ==
  \A c \in Clients : reader[c] = "replay" =>
    Replaying(published[target[c]], sent[c], granted[c], lastSeqArg[c], lost[c], backlog[c])

\* The ring of every object stays an exact suffix of the published frames, and
\* every attached or replaying connection is on that stream.
IInv ==
  /\ TypeOK
  /\ FreshObjects
  /\ PublishedInOrder
  /\ WindowExact
  /\ InFlight
  /\ ReaderLocks
  /\ ReplayProgress
  /\ ReplayThenLive
=============================================================================
