----------------------------- MODULE RingWindow -----------------------------
(***************************************************************************)
(* What a session's ring buffer (coordinator, internal/broker/broker.go)    *)
(* promises: it keeps a window of the most recent entries of one session,  *)
(* drops the oldest ones, and answers Replay(lastSeq) either with every    *)
(* entry after lastSeq or with "unavailable".                              *)
(*                                                                         *)
(* Bytes and slots are abstracted away: how many entries an append or a    *)
(* shrink evicts is a choice here.  RingBuffer makes the choice from the   *)
(* byte counters and the circular slice, and is checked to implement this  *)
(* module; SessionFanout uses these operators for the ring of a session.   *)
(***************************************************************************)
EXTENDS Integers, Sequences

CONSTANT MaxSeq             \* bound on the sequence numbers a run reaches

Seqs == 1 .. MaxSeq

VARIABLES
  window,                   \* the retained entries and the two seq bounds
  hist                      \* history: the seq of every entry ever appended

windowVars == <<window, hist>>

(***************************************************************************)
(* A window is [entries, earliest, latest]; an entry is known by its seq.  *)
(***************************************************************************)
NewWindow == [entries |-> <<>>, earliest |-> 0, latest |-> 0]

\* Mutant: an emptied ring forgets how far the session had come.
EarliestForgotten(entries, latest, old) ==
  IF entries # <<>> THEN entries[1] ELSE 0

\* EarliestSeq as Append and evictLocked recompute it: the oldest live entry,
\* or one past the latest once everything has been evicted.
EarliestOf(entries, latest, old) ==
  IF entries # <<>> THEN entries[1]
  ELSE IF latest # 0 THEN latest + 1 ELSE old

DropOldest(entries, n) == SubSeq(entries, n + 1, Len(entries))

\* RingBuffer.Append: evict the n oldest entries, then store seq s.
AppendEntry(w, n, s) ==
  LET kept == Append(DropOldest(w.entries, n), s)
  IN  [entries |-> kept, earliest |-> kept[1], latest |-> s]

\* RingBuffer.evictLocked: evict the n oldest entries.
EvictEntries(w, n) ==
  LET kept == DropOldest(w.entries, n)
  IN  [entries  |-> kept,
       earliest |-> EarliestOf(kept, w.latest, w.earliest),
       latest   |-> w.latest]

\* RingBuffer.Replay: is the range after lastSeq still complete?
ReplayOk(w, lastSeq) == lastSeq = 0 \/ lastSeq + 1 >= w.earliest
-----------------------------------------------------------------------------
Init ==
  /\ window = NewWindow
  /\ hist = <<>>

\* Ingest hands the ring ever larger seqs (Registry.AdvanceSeq), with holes
\* where a session_state_change consumed a number without entering the ring.
AppendStep(n, s) ==
  /\ n \in 0 .. Len(window.entries)
  /\ s \in (window.latest + 1) .. MaxSeq
  /\ window' = AppendEntry(window, n, s)
  /\ hist' = Append(hist, s)

EvictStep(n) ==
  /\ n \in 0 .. Len(window.entries)
  /\ window' = EvictEntries(window, n)
  /\ UNCHANGED hist

Next ==
  \/ \E n \in 0 .. Len(window.entries), s \in Seqs : AppendStep(n, s)
  \/ \E n \in 0 .. Len(window.entries) : EvictStep(n)

Spec == Init /\ [][Next]_windowVars
=============================================================================
