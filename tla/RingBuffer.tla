----------------------------- MODULE RingBuffer -----------------------------
(***************************************************************************)
(* The per-session ring buffer of internal/broker/broker.go as it is       *)
(* implemented: a slice used circularly between Tail and Head that doubles *)
(* when it is full, a byte counter bounded by MaxBytes, and the window of  *)
(* sequence numbers that Replay answers from.  Each method holds r.mu from *)
(* start to end, so each is one action.                                    *)
(*                                                                         *)
(* An entry is its Seq and its payload length; kind, timestamp and payload *)
(* do not influence the buffer.                                            *)
(***************************************************************************)
EXTENDS Integers, Sequences, FiniteSets, Sums

CONSTANTS
  MaxSeq,                   \* bound on sequence numbers
  InitSlots,                \* slots of a new ring (128 in the code)
  Sizes,                    \* payload lengths appended
  Budgets,                  \* values MaxBytes takes
  InitBudget                \* MaxBytes of a new ring

ASSUME RingAssumption ==
  /\ MaxSeq \in Nat \ {0}
  /\ InitSlots \in Nat \ {0, 1}
  /\ Sizes \subseteq Nat \ {0}
  /\ Budgets \subseteq Nat
  /\ InitBudget \in Budgets

VARIABLES Entries, head, tail, Bytes, MaxBytes, EarliestSeq, LatestSeq,
          hist              \* history: the seq of every entry ever appended

vars == <<Entries, head, tail, Bytes, MaxBytes, EarliestSeq, LatestSeq, hist>>

Seqs == 1 .. MaxSeq
NoEntry == [Seq |-> 0, Size |-> 0]
EntryType == [Seq : Seqs, Size : Sizes] \cup {NoEntry}

Slots == Cardinality(DOMAIN Entries)

\* The type invariant; BytesAccounted says what Bytes is.
SliceType ==
  /\ Slots \in Nat \ {0, 1} /\ Entries \in [0 .. Slots - 1 -> EntryType]
  /\ head \in 0 .. Slots - 1 /\ tail \in 0 .. Slots - 1
  /\ MaxBytes \in Budgets
  /\ EarliestSeq \in 0 .. MaxSeq + 1 /\ LatestSeq \in 0 .. MaxSeq
  /\ hist \in Seq(Seqs)
-----------------------------------------------------------------------------
\* Mutant: the index is advanced past the end of the slice.
NextSlotUnwrapped(i, slots) == i + 1

NextSlot(i, slots) == (i + 1) % slots

\* How many entries are live, and the i-th oldest of them (i = 0, 1, ...).
Live == (head - tail) % Slots
At(i) == Entries[(tail + i) % Slots]

LiveSizes == [i \in 1 .. Live |-> At(i - 1).Size]
OldestBytes(n) == SumFirst(LiveSizes, n)

\* Mutant: the loop stops one byte too early.
EvictsOneShort(n, limit) ==
  /\ n = Live \/ Bytes - OldestBytes(n) <= limit + 1
  /\ \A k \in 0 .. n - 1 : Bytes - OldestBytes(k) > limit + 1

\* The eviction loop drops the n oldest entries: it goes on while there is one and
\* the bytes left exceed limit.
Evicts(n, limit) ==
  /\ n = Live \/ Bytes - OldestBytes(n) <= limit
  /\ \A k \in 0 .. n - 1 : Bytes - OldestBytes(k) > limit

\* AllEntriesLocked: the live entries, oldest first.
AllEntries == [i \in 1 .. Live |-> At(i - 1)]

\* The places in AllEntries of the entries after lastSeq.
After(lastSeq) == {i \in 1 .. Live : AllEntries[i].Seq > lastSeq}

\* Mutant: the gap test is off by one.
ReplayOneLate(lastSeq) ==
  [ok |-> lastSeq = 0 \/ lastSeq + 2 >= EarliestSeq, entries |-> After(lastSeq)]

\* Replay(lastSeq): whether the range is available, and the places of the entries
\* returned, in their order.
Replay(lastSeq) ==
  IF lastSeq = 0 THEN [ok |-> TRUE, entries |-> 1 .. Live]
  ELSE IF lastSeq + 1 < EarliestSeq THEN [ok |-> FALSE, entries |-> {}]
  ELSE [ok |-> TRUE, entries |-> After(lastSeq)]
-----------------------------------------------------------------------------
NewRingBuffer ==
  /\ Entries = [i \in 0 .. InitSlots - 1 |-> NoEntry]
  /\ head = 0 /\ tail = 0 /\ Bytes = 0
  /\ MaxBytes = InitBudget
  /\ EarliestSeq = 0 /\ LatestSeq = 0

Init == NewRingBuffer /\ hist = <<>>

\* Mutant: the grown slice keeps the old positions.
UnrolledInPlace(from, live) ==
  [i \in 0 .. 2 * Slots - 1 |-> IF i < Slots THEN Entries[i] ELSE NoEntry]

\* The doubled slice of a full ring: the live entries, from slot 0 on.
Unrolled(from, live) ==
  [i \in 0 .. 2 * Slots - 1 |->
     IF i < live THEN Entries[(from + i) % Slots] ELSE NoEntry]

\* Append, after its loop evicted the n oldest.
Store(entry, n) ==
  LET tail1 == (tail + n) % Slots
      full  == NextSlot(head, Slots) = tail1
      slice == IF full THEN Unrolled(tail1, Live - n) ELSE Entries
      slots == IF full THEN 2 * Slots ELSE Slots
      tail2 == IF full THEN 0 ELSE tail1
      head2 == IF full THEN Live - n ELSE head
  IN  /\ Entries' = [slice EXCEPT ![head2] = entry]
      /\ tail' = tail2
      /\ head' = NextSlot(head2, slots)
      /\ Bytes' = Bytes - OldestBytes(n) + entry.Size
      /\ LatestSeq' = entry.Seq
      /\ EarliestSeq' = Entries'[tail2].Seq
      /\ hist' = Append(hist, entry.Seq)
      /\ UNCHANGED MaxBytes

AppendEntry(entry) == \E n \in 0 .. Live : Evicts(n, MaxBytes - entry.Size) /\ Store(entry, n)

\* evictLocked, after its loop evicted the n oldest.
Trim(n) ==
  /\ tail' = (tail + n) % Slots
  /\ IF n = Live
     THEN /\ Bytes' = 0
          /\ EarliestSeq' = IF LatestSeq # 0 THEN LatestSeq + 1 ELSE EarliestSeq
     ELSE /\ Bytes' = Bytes - OldestBytes(n)
          /\ EarliestSeq' = At(n).Seq
  /\ UNCHANGED <<Entries, head, LatestSeq, hist>>

\* evictLocked under a new budget, the shrink step of BalanceGlobalLRU.
EvictLocked(newMax) == \E n \in 0 .. Live : Evicts(n, newMax) /\ Trim(n)

Shrink(newMax) ==
  /\ newMax <= MaxBytes
  /\ MaxBytes' = newMax
  /\ EvictLocked(newMax)

\* The growth step of BalanceGlobalLRU.
Grow(newMax) ==
  /\ newMax > MaxBytes
  /\ MaxBytes' = newMax
  /\ UNCHANGED <<Entries, head, tail, Bytes, EarliestSeq, LatestSeq, hist>>

\* Seqs reach the ring in increasing order (Registry.AdvanceSeq) but with
\* holes: a session_state_change uses a seq and is not appended.
Next ==
  \/ \E s \in (LatestSeq + 1) .. MaxSeq, size \in Sizes :
       AppendEntry([Seq |-> s, Size |-> size])
  \/ \E b \in Budgets : Shrink(b)
  \/ \E b \in Budgets : Grow(b)

Spec == Init /\ [][Next]_vars
-----------------------------------------------------------------------------
(***************************************************************************)
(* Properties.                                                             *)
(***************************************************************************)
\* Byte accounting across wrap-around, growth and both eviction loops: Bytes
\* is the size of what is live, and it exceeds MaxBytes only for one
\* oversize entry alone in the ring.
BytesAccounted ==
  /\ Bytes = OldestBytes(Live)
  /\ Bytes > MaxBytes => Live = 1

\* A replay that is granted is complete: every entry ever appended after
\* lastSeq is returned, at its place and nothing else with it, even when some or
\* all of the older history has been evicted.
NoSilentGap ==
  \A lastSeq \in Seqs :
    Replay(lastSeq).ok =>
      LET gone == Len(hist) - Live IN
        \A j \in 1 .. Len(hist) :
          hist[j] > lastSeq <=> /\ j - gone \in Replay(lastSeq).entries
                                /\ AllEntries[j - gone].Seq = hist[j]

\* The circular, byte-bounded buffer implements the window of RingWindow.
Window == INSTANCE RingWindow WITH
  window <- [entries  |-> [i \in 1 .. Live |-> At(i - 1).Seq],
             earliest |-> EarliestSeq,
             latest   |-> LatestSeq]

ImplementsWindow == Window!Spec
-----------------------------------------------------------------------------
(***************************************************************************)
(* The inductive invariant.                                                *)
(***************************************************************************)
\* What is live is the end of what was appended, in increasing seqs, and EarliestSeq
\* lies above all that was evicted (broker.go Append, evictLocked).
HoldsTheEnd ==
  /\ Live <= Len(hist)
  /\ \A i \in 1 .. Live : AllEntries[i].Seq = hist[Len(hist) - Live + i]
  /\ \A i, j \in 1 .. Len(hist) : i < j => hist[i] < hist[j]
  /\ LatestSeq = IF hist = <<>> THEN 0 ELSE hist[Len(hist)]
  /\ EarliestSeq = IF Live # 0 THEN AllEntries[1].Seq
                   ELSE IF LatestSeq # 0 THEN LatestSeq + 1 ELSE 0

\* The slice of broker.go and the window it stands for.
IInv == SliceType /\ HoldsTheEnd
=============================================================================
