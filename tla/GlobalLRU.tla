------------------------------ MODULE GlobalLRU ------------------------------
(***************************************************************************)
(* The cache budget shared by the rings of all sessions of a coordinator:  *)
(* Registry.Publish (internal/sessions/registry.go) appends to one ring    *)
(* and then runs BalanceGlobalLRU (internal/broker/broker.go) on a snapshot *)
(* of all of them.  No lock is held across BalanceGlobalLRU: it locks one  *)
(* ring at a time, and every daemon connection runs its own copy, so       *)
(* appends, shrinks and sums of different connections interleave.          *)
(*                                                                         *)
(* A session_started of a known id replaces its Session by a new one, with *)
(* an empty ring: what the registry forgets then is still reached by the   *)
(* connections that have looked it up or copied it.                        *)
(*                                                                         *)
(* A ring is the sequence of the payload lengths it holds, oldest first    *)
(* (RingBuffer models the slice behind it).  LastTouched is modelled by    *)
(* its order among the ids: <<i, j>> \in older when the session of i was    *)
(* touched before that of j.                                               *)
(***************************************************************************)
EXTENDS Integers, Sequences, FiniteSets, Sums

CONSTANTS
  SessionIDs,               \* session ids
  MaxRegistrations,         \* bound on the session_started of an id
  Publishers,               \* daemon connections
  TotalCap,                 \* total_cache_bytes
  FloorCap,                 \* session_cache_floor_bytes
  PayloadSizes,             \* payload lengths published
  MaxAppends,               \* bound on the number of entries published
  MaxChanges                \* bound on the number of changes to sessions

CONSTANT NoSession          \* a nil *LRUItem, and a nil *Session

\* The Session objects: <<id, n>> is the one made by the n-th Register of id.
Sessions == SessionIDs \X (1 .. MaxRegistrations)

\* Session ids are UUIDs, so there are finitely many.
Limits ==
  /\ TotalCap \in Nat /\ FloorCap \in Nat
  /\ PayloadSizes \subseteq Nat \ {0}
  /\ MaxAppends \in Nat /\ MaxChanges \in Nat /\ MaxRegistrations \in Nat
  /\ IsFiniteSet(Sessions)
  /\ NoSession \notin Sessions

ASSUME LRUAssumption == Limits

VARIABLES
  registered,               \* Registry.m: how many Sessions each id has had; the last is in the map
  ring,                     \* Session.Ring: payload lengths, oldest first
  RingMaxBytes,             \* MaxBytes of each ring
  Ended,                    \* Session.Ended
  older,                    \* the order of LastTouched among the ids
  pub,                      \* where each connection is in Registry.Publish
  appends,                  \* entries published so far
  changes                   \* Register, Touch and MarkEnded steps so far

lruVars == <<registered, ring, RingMaxBytes, Ended, older, pub, appends, changes>>

\* The Sessions made so far, and the ones the registry holds.
Made == {s \in Sessions : s[2] <= registered[s[1]]}
Registered == {s \in Sessions : s[2] = registered[s[1]]}

RingSize(r) == SumFirst(r, Len(r))

\* The bytes held by the rings of a set of sessions.
BytesOf(S) ==
  SumOver([s \in Sessions |-> IF s \in S THEN RingSize(ring[s]) ELSE 0], Sessions)

TotalBytes == BytesOf(Registered)

\* A connection between frames.  session is the Session looked up, items, ended and
\* older the LRUItems snapshot, todo the rings a loop of BalanceGlobalLRU has still to
\* visit, best the candidate found so far.
Idle == [at |-> "idle", session |-> NoSession, items |-> {}, ended |-> {}, older |-> {},
         todo |-> {}, total |-> 0, best |-> NoSession]

Steps == {"idle", "found", "stamp", "items", "grow", "sum", "find"}

PubType ==
  [at : Steps, session : Sessions \cup {NoSession}, items : SUBSET Sessions,
   ended : SUBSET Sessions, older : SUBSET (SessionIDs \X SessionIDs),
   todo : SUBSET Sessions, total : Nat, best : Sessions \cup {NoSession}]

TypeOK ==
  /\ registered \in [SessionIDs -> 0 .. MaxRegistrations]
  /\ ring \in [Sessions -> Seq(PayloadSizes)]
  /\ RingMaxBytes \in [Sessions -> Nat]
  /\ Ended \in [Sessions -> BOOLEAN]
  /\ older \in SUBSET (SessionIDs \X SessionIDs)
  /\ pub \in [Publishers -> PubType]
  /\ appends \in 0 .. MaxAppends
  /\ changes \in 0 .. MaxChanges

InitialRingMaxBytes == IF TotalCap \div 10 < FloorCap THEN FloorCap ELSE TotalCap \div 10

\* A Session not made yet is as Register makes it.
LRUInit ==
  /\ registered = [i \in SessionIDs |-> 0]
  /\ ring = [s \in Sessions |-> <<>>]
  /\ RingMaxBytes = [s \in Sessions |-> InitialRingMaxBytes]
  /\ Ended = [s \in Sessions |-> FALSE]
  /\ older = {}
  /\ pub = [p \in Publishers |-> Idle]
  /\ appends = 0
  /\ changes = 0
-----------------------------------------------------------------------------
\* The ring after its oldest entries are dropped until at most limit bytes are
\* left, or nothing.
EvictTo(r, limit) ==
  LET fits  == {n \in 0 .. Len(r) : n = Len(r) \/ RingSize(SubSeq(r, n + 1, Len(r))) <= limit}
      least == CHOOSE n \in fits : \A m \in fits : n <= m
  IN  SubSeq(r, least + 1, Len(r))

\* evictLocked under the new budget.
EvictRing(r, max) == EvictTo(r, max)

\* The session of id becomes the most recently touched one.
Touched(id) ==
  {q \in older : id \notin {q[1], q[2]}} \cup ((SessionIDs \ {id}) \X {id})

\* A change to a session, counted.
Change == changes < MaxChanges /\ changes' = changes + 1

\* session_started: the id's Session, if it has one, is replaced by the next one, whose
\* ring is empty and which has not ended.
Register(id) ==
  /\ Change
  /\ registered[id] < MaxRegistrations
  /\ registered' = [registered EXCEPT ![id] = @ + 1]
  /\ older' = Touched(id)
  /\ UNCHANGED <<ring, RingMaxBytes, Ended, pub, appends>>

\* AdvanceSeq, SetState, RestoreLastSeq, PauseAllForMachine, Attach and Detach
\* stamp LastTouched.
Touch(s) ==
  /\ Change
  /\ s \in Registered
  /\ older' = Touched(s[1])
  /\ UNCHANGED <<registered, ring, RingMaxBytes, Ended, pub, appends>>

MarkEnded(s) ==
  /\ Change
  /\ s \in Registered /\ ~Ended[s]
  /\ Ended' = [Ended EXCEPT ![s] = TRUE]
  /\ older' = Touched(s[1])
  /\ UNCHANGED <<registered, ring, RingMaxBytes, pub, appends>>

\* Registry.Publish looks the Session up; r.mu is released.
GetSession(p, s) ==
  /\ pub[p].at = "idle"
  /\ s \in Registered
  /\ appends < MaxAppends
  /\ appends' = appends + 1
  /\ pub' = [pub EXCEPT ![p] = [@ EXCEPT !.at = "found", !.session = s]]
  /\ UNCHANGED <<registered, ring, RingMaxBytes, Ended, older, changes>>

\* s.Publish(entry): the ring makes room within its own budget.
Publish(p, size) ==
  LET s == pub[p].session
  IN  /\ pub[p].at = "found"
      /\ ring' = [ring EXCEPT ![s] = Append(EvictTo(@, RingMaxBytes[s] - size), size)]
      /\ pub' = [pub EXCEPT ![p].at = "stamp"]
      /\ UNCHANGED <<registered, RingMaxBytes, Ended, older, appends, changes>>

\* s.LastTouched, which nobody reads any more when s has been replaced.
StampLastTouched(p) ==
  /\ pub[p].at = "stamp"
  /\ older' = IF pub[p].session \in Registered THEN Touched(pub[p].session[1]) ELSE older
  /\ pub' = [pub EXCEPT ![p].at = "items"]
  /\ UNCHANGED <<registered, ring, RingMaxBytes, Ended, appends, changes>>

\* r.LRUItems(): Ended and LastTouched are copied, the rings are shared.
LRUItems(p) ==
  /\ pub[p].at = "items"
  /\ pub' = [pub EXCEPT ![p] =
       [@ EXCEPT !.at = "grow", !.items = Registered,
                 !.ended = {s \in Registered : Ended[s]}, !.older = older,
                 !.todo = Registered]]
  /\ UNCHANGED <<registered, ring, RingMaxBytes, Ended, older, appends, changes>>
-----------------------------------------------------------------------------
(***************************************************************************)
(* BalanceGlobalLRU.                                                       *)
(***************************************************************************)
\* totalBytes += item.Ring.Bytes, one ring at a time.
AddBytes(p, s) ==
  /\ pub[p].at \in {"grow", "sum"}
  /\ s \in pub[p].todo
  /\ pub' = [pub EXCEPT ![p] =
       [@ EXCEPT !.todo = pub[p].todo \ {s}, !.total = pub[p].total + RingSize(ring[s])]]
  /\ UNCHANGED <<registered, ring, RingMaxBytes, Ended, older, appends, changes>>

\* The 10% steps of a budget, clamped at the cap and at the floor.
Grown(max) == IF (11 * max) \div 10 > TotalCap THEN TotalCap ELSE (11 * max) \div 10

\* Mutant: the step is rounded up.
ShrunkUp(max) == IF (9 * max + 9) \div 10 < FloorCap THEN FloorCap ELSE (9 * max + 9) \div 10

Shrunk(max) == IF (9 * max) \div 10 < FloorCap THEN FloorCap ELSE (9 * max) \div 10

\* Under 80% of the cap, the budget of the item with the active id grows, which may
\* be another Session than the one published to; activeSessionID is not read again.
GrowActive(p) ==
  /\ pub[p].at = "grow" /\ pub[p].todo = {}
  /\ RingMaxBytes' =
       [s \in Sessions |->
          IF /\ pub[p].total < (8 * TotalCap) \div 10
             /\ s \in pub[p].items /\ s[1] = pub[p].session[1]
          THEN Grown(RingMaxBytes[s])
          ELSE RingMaxBytes[s]]
  /\ pub' = [pub EXCEPT ![p] =
       [@ EXCEPT !.at = "sum", !.session = NoSession, !.todo = pub[p].items, !.total = 0]]
  /\ UNCHANGED <<registered, ring, Ended, older, appends, changes>>

\* Within the cap, the shrink loop is left.
WithinCap(p) ==
  /\ pub[p].at = "sum" /\ pub[p].todo = {}
  /\ pub[p].total <= TotalCap
  /\ pub' = [pub EXCEPT ![p] = Idle]
  /\ UNCHANGED <<registered, ring, RingMaxBytes, Ended, older, appends, changes>>

\* Over it, the items are searched for the ring to shrink; the sum is not read again.
OverCap(p) ==
  /\ pub[p].at = "sum" /\ pub[p].todo = {}
  /\ pub[p].total > TotalCap
  /\ pub' = [pub EXCEPT ![p] =
       [@ EXCEPT !.at = "find", !.todo = pub[p].items, !.total = 0]]
  /\ UNCHANGED <<registered, ring, RingMaxBytes, Ended, older, appends, changes>>

\* if hasBytesAboveFloor: the bytes the ring holds, not its budget, are compared.
HasBytesAboveFloor(s) == RingSize(ring[s]) > FloorCap

\* One ring of the search: a non-ended session above the floor is a candidate, and
\* the least recently touched one is kept.
FindBest(p, s) ==
  /\ pub[p].at = "find"
  /\ s \in pub[p].todo
  /\ LET better == /\ s \notin pub[p].ended
                   /\ HasBytesAboveFloor(s)
                   /\ \/ pub[p].best = NoSession
                      \/ <<s[1], pub[p].best[1]>> \in pub[p].older
     IN  pub' = [pub EXCEPT ![p] =
           [@ EXCEPT !.todo = pub[p].todo \ {s},
                     !.best = IF better THEN s ELSE pub[p].best]]
  /\ UNCHANGED <<registered, ring, RingMaxBytes, Ended, older, appends, changes>>

\* No more candidates to shrink.
NoCandidate(p) ==
  /\ pub[p].at = "find" /\ pub[p].todo = {}
  /\ pub[p].best = NoSession
  /\ pub' = [pub EXCEPT ![p] = Idle]
  /\ UNCHANGED <<registered, ring, RingMaxBytes, Ended, older, appends, changes>>

\* Mutant: one step of 10% must do.
ShrinkOnce(p) ==
  LET s == pub[p].best
  IN  /\ pub[p].at = "find" /\ pub[p].todo = {}
      /\ s # NoSession
      /\ RingMaxBytes' = [RingMaxBytes EXCEPT ![s] = Shrunk(@)]
      /\ ring' = [ring EXCEPT ![s] = EvictRing(@, RingMaxBytes'[s])]
      /\ pub' = [pub EXCEPT ![p] = Idle]
      /\ UNCHANGED <<registered, Ended, older, appends, changes>>

\* Shrink the candidate's budget by 10%, evict at once, and sum again.
ShrinkBest(p) ==
  LET s == pub[p].best
  IN  /\ pub[p].at = "find" /\ pub[p].todo = {}
      /\ s # NoSession
      /\ RingMaxBytes' = [RingMaxBytes EXCEPT ![s] = Shrunk(@)]
      /\ ring' = [ring EXCEPT ![s] = EvictRing(@, RingMaxBytes'[s])]
      /\ pub' = [pub EXCEPT ![p] =
           [@ EXCEPT !.at = "sum", !.todo = pub[p].items, !.total = 0,
                     !.best = NoSession]]
      /\ UNCHANGED <<registered, Ended, older, appends, changes>>

Balance(p) ==
  \/ \E size \in PayloadSizes : Publish(p, size)
  \/ StampLastTouched(p)
  \/ LRUItems(p)
  \/ \E s \in Sessions : AddBytes(p, s)
  \/ GrowActive(p)
  \/ WithinCap(p)
  \/ OverCap(p)
  \/ \E s \in Sessions : FindBest(p, s)
  \/ NoCandidate(p)
  \/ ShrinkBest(p)

LRUNext ==
  \/ \E id \in SessionIDs : Register(id)
  \/ \E s \in Sessions : Touch(s) \/ MarkEnded(s)
  \/ \E p \in Publishers, s \in Sessions : GetSession(p, s)
  \/ \E p \in Publishers : Balance(p)

LRUSpec == LRUInit /\ [][LRUNext]_lruVars

\* A goroutine inside Registry.Publish keeps running; ring.mu is never held
\* across a blocking call.
FairLRUSpec == LRUSpec /\ \A p \in Publishers : WF_lruVars(Balance(p))
-----------------------------------------------------------------------------
(***************************************************************************)
(* Properties.                                                             *)
(***************************************************************************)
Quiet == \A p \in Publishers : pub[p].at = "idle"

\* Once every connection has finished balancing, the rings fit the cap or no
\* live session holds more than the floor: sums that miss a concurrent append, and
\* snapshots of Sessions that were replaced meanwhile, never let an excess survive.
CapOrFloor ==
  Quiet => \/ TotalBytes <= TotalCap
           \/ \A s \in Registered : Ended[s] \/ RingSize(ring[s]) <= FloorCap

\* The shrink loop ends, also when a step of it evicts nothing: a publish always
\* returns to the connection's read loop.
BalanceEnds == \A p \in Publishers : (pub[p].at # "idle") ~> (pub[p].at = "idle")
-----------------------------------------------------------------------------
(***************************************************************************)
(* The inductive invariant.                                                *)
(***************************************************************************)
\* What a connection has copied stays true of the Sessions, replaced or not: none of
\* them is revived.  A Session that is not made yet holds nothing.
Snapshots ==
  /\ \A s \in Sessions \ Made : ring[s] = <<>>
  /\ \A p \in Publishers :
       /\ pub[p].at \in {"found", "stamp", "items", "grow"} => pub[p].session \in Made
       /\ pub[p].items \subseteq Made
       /\ pub[p].todo \subseteq pub[p].items
       /\ pub[p].best \in pub[p].items \cup {NoSession}
       /\ pub[p].best # NoSession => pub[p].at = "find"
       /\ \A s \in pub[p].ended : Ended[s]

Excess ==
  /\ TotalBytes > TotalCap
  /\ \E s \in Registered : ~Ended[s] /\ RingSize(ring[s]) > FloorCap

\* The snapshot of p misses no ring that holds something.
Covers(p) == \A s \in Registered : RingSize(ring[s]) = 0 \/ s \in pub[p].items

\* p has not read the rings yet, or what it has read comes to no less than what the
\* registered rings hold that it has not still to read.
WillSee(p) ==
  \/ pub[p].at \in {"stamp", "items"}
  \/ pub[p].at = "grow" /\ Covers(p)
  \/ /\ pub[p].at = "sum" /\ Covers(p)
     /\ pub[p].total >= BytesOf(Registered \ pub[p].todo)
  \/ /\ pub[p].at = "find" /\ Covers(p)
     /\ \/ pub[p].best # NoSession
        \/ \A s \in pub[p].items \ (pub[p].todo \cup pub[p].ended) :
             RingSize(ring[s]) <= FloorCap

\* As long as there is an excess, some connection will see it.
LRUInv == TypeOK /\ Snapshots /\ (Excess => \E p \in Publishers : WillSee(p))
=============================================================================
