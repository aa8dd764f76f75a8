---------------------------- MODULE BrokerProofs ----------------------------
(***************************************************************************)
(* Proofs about the two models of internal/broker/broker.go.  RingBuffer,  *)
(* for rings of any size, any budgets and payload lengths: the circular    *)
(* slice implements the window of RingWindow, a granted replay is          *)
(* complete, and the byte counter is the size of what is live.  GlobalLRU, *)
(* for any sessions, connections and caps: no excess survives the          *)
(* concurrent runs of BalanceGlobalLRU.                                    *)
(***************************************************************************)
EXTENDS RingBuffer, GlobalLRU, FiniteSetTheorems, SequenceTheorems, WellFoundedInduction, TLAPS

-----------------------------------------------------------------------------
(***************************************************************************)
(* Positions in a circular slice.                                          *)
(***************************************************************************)
\* The remainder of a position at most one turn off the slice.
LEMMA OneTurn ==
  ASSUME NEW S \in Nat \ {0, 1}, NEW x \in Int, -S <= x, x < S + S
  PROVE  x % S = IF x < 0 THEN x + S ELSE IF x < S THEN x ELSE x - S
<1>1. CASE x < 0
  BY <1>1
<1>2. CASE 0 <= x /\ x < S
  BY <1>2
<1>3. CASE S <= x
  BY <1>3
<1> QED
  BY <1>1, <1>2, <1>3

\* Places counted from a tail t.
LEMMA Places ==
  ASSUME NEW S \in Nat \ {0, 1}, NEW t \in 0 .. S - 1
  PROVE  /\ \A i \in 0 .. S - 1 : (t + i) % S = IF t + i < S THEN t + i ELSE t + i - S
         /\ \A i \in 0 .. S - 1 : (t + i) % S \in 0 .. S - 1
         /\ \A i, j \in 0 .. S - 1 : (t + i) % S = (t + j) % S => i = j
<1>1. ASSUME NEW i \in 0 .. S - 1
      PROVE  (t + i) % S = IF t + i < S THEN t + i ELSE t + i - S
  <2>1. PICK x \in Int : x = t + i
    OBVIOUS
  <2>2. -S <= x /\ x < S + S /\ 0 <= x
    BY <2>1
  <2>3. x % S = IF x < 0 THEN x + S ELSE IF x < S THEN x ELSE x - S
    BY <2>2, OneTurn
  <2> QED
    BY <2>1, <2>2, <2>3
<1>2. \A i \in 0 .. S - 1 : (t + i) % S \in 0 .. S - 1
  BY <1>1
<1>3. \A i, j \in 0 .. S - 1 : (t + i) % S = (t + j) % S => i = j
  BY <1>1
<1> QED
  BY <1>1, <1>2, <1>3

\* A slice of S slots with tail t and head h, L entries live, and the tail u that is
\* reached once the n oldest are gone.
Turn(S, t, h, L, n, u) ==
  /\ S \in Nat \ {0, 1} /\ t \in 0 .. S - 1 /\ h \in 0 .. S - 1
  /\ L = (h - t) % S /\ n \in 0 .. L /\ u = (t + n) % S

\* Between the tail and the head, and after the n oldest are gone.
LEMMA Turning ==
  ASSUME NEW S, NEW t, NEW h, NEW L, NEW n, NEW u, Turn(S, t, h, L, n, u)
  PROVE  /\ L \in 0 .. S - 1
         /\ u \in 0 .. S - 1
         /\ (t + L) % S = h
         /\ (h - u) % S = L - n
         /\ \A i \in 0 .. L - n : (u + i) % S = (t + (n + i)) % S
         /\ (h + 1) % S = u <=> L - n = S - 1
         /\ (h + 1) % S \in 0 .. S - 1
         /\ L - n # S - 1 => (((h + 1) % S) - u) % S = (L - n) + 1
<1> USE DEF Turn
<1>a. S \in Nat \ {0, 1} /\ t \in 0 .. S - 1 /\ h \in 0 .. S - 1 /\ n \in 0 .. L
  OBVIOUS
<1>b. L = (h - t) % S
  OBVIOUS
<1>c. u = (t + n) % S
  OBVIOUS
<1> HIDE DEF Turn
<1> USE <1>a
<1>1. L = IF h >= t THEN h - t ELSE h - t + S
  <2>1. PICK x \in Int : x = h - t
    OBVIOUS
  <2>2. -S <= x /\ x < S + S /\ x < S
    BY <2>1
  <2>3. x % S = IF x < 0 THEN x + S ELSE x
    BY <2>2, OneTurn
  <2> QED
    BY <1>b, <2>1, <2>3
<1>2. L \in 0 .. S - 1 /\ n \in 0 .. S - 1
  BY <1>1
<1>3. u = IF t + n < S THEN t + n ELSE t + n - S
  BY <1>2, <1>c, Places
<1>4. u \in 0 .. S - 1
  BY <1>2, <1>3
<1>5. (t + L) % S = h
  <2>1. (t + L) % S = IF t + L < S THEN t + L ELSE t + L - S
    BY <1>2, Places
  <2> QED
    BY <1>1, <2>1
<1>6. (h - u) % S = L - n
  <2>0. h - u \in Int
    BY <1>4
  <2>1. PICK x \in Int : x = h - u
    BY <2>0
  <2>2. -S <= x /\ x < S + S /\ x < S
    BY <1>4, <2>1
  <2>3. x % S = IF x < 0 THEN x + S ELSE x
    BY <2>2, OneTurn
  <2>4. x % S = L - n
    BY <1>1, <1>2, <1>3, <1>4, <2>1, <2>3
  <2> QED
    BY <2>1, <2>4
<1>7. ASSUME NEW i \in 0 .. L - n PROVE (u + i) % S = (t + (n + i)) % S
  <2>1. i \in 0 .. S - 1 /\ n + i \in 0 .. S - 1
    BY <1>2
  <2>2. (u + i) % S = IF u + i < S THEN u + i ELSE u + i - S
    BY <1>4, <2>1, Places
  <2>3. (t + (n + i)) % S = IF t + (n + i) < S THEN t + (n + i) ELSE t + (n + i) - S
    BY <2>1, Places
  <2> QED
    BY <1>2, <1>3, <2>1, <2>2, <2>3
<1>8. (h + 1) % S = IF h + 1 < S THEN h + 1 ELSE 0
  <2>1. 1 \in 0 .. S - 1
    OBVIOUS
  <2>2. (h + 1) % S = IF h + 1 < S THEN h + 1 ELSE h + 1 - S
    BY <2>1, Places
  <2> QED
    BY <2>2
<1>9. (h + 1) % S = u <=> L - n = S - 1
  BY <1>1, <1>2, <1>3, <1>8
<1>10. ASSUME L - n # S - 1 PROVE (((h + 1) % S) - u) % S = (L - n) + 1
  <2> DEFINE g == (h + 1) % S
  <2>1. g \in 0 .. S - 1 /\ g = IF h + 1 < S THEN h + 1 ELSE 0
    BY <1>8
  <2> HIDE DEF g
  <2>2. PICK x \in Int : x = g - u
    BY <1>4, <2>1
  <2>3. -S <= x /\ x < S + S /\ x < S
    BY <1>4, <2>1, <2>2
  <2>4. x % S = IF x < 0 THEN x + S ELSE x
    BY <2>3, OneTurn
  <2>5. x % S = (L - n) + 1
    BY <1>1, <1>2, <1>3, <1>4, <1>10, <2>1, <2>2, <2>4
  <2> QED
    BY <2>2, <2>5 DEF g
<1> QED
  BY <1>2, <1>4, <1>5, <1>6, <1>7, <1>8, <1>9, <1>10
-----------------------------------------------------------------------------
(***************************************************************************)
(* What the operations do to the places of the live entries.               *)
(***************************************************************************)
\* The slots of a slice indexed from 0.
LEMMA SlotsOf ==
  ASSUME NEW m \in Nat \ {0}, NEW f, DOMAIN f = 0 .. m - 1
  PROVE  Cardinality(DOMAIN f) = m
<1>1. m - 1 \in Int /\ 0 \in Int
  OBVIOUS
<1>2. Cardinality(0 .. m - 1) = IF 0 > m - 1 THEN 0 ELSE (m - 1) - 0 + 1
  BY <1>1, FS_Interval
<1> QED
  BY <1>2

\* Every slot holds an entry with a seq or none.
LEMMA EntrySeq ==
  ASSUME RingAssumption, NEW e \in EntryType
  PROVE  e.Seq \in 0 .. MaxSeq
BY DEF RingAssumption, EntryType, NoEntry, Seqs

\* What is live lies in the slice.
LEMMA LiveInSlice ==
  ASSUME SliceType
  PROVE  /\ Live \in 0 .. Slots - 1
         /\ \A i \in 0 .. Slots - 1 : At(i) \in EntryType
<1> DEFINE S == Slots
<1>1. S \in Nat \ {0, 1} /\ Entries \in [0 .. S - 1 -> EntryType]
      /\ head \in 0 .. S - 1 /\ tail \in 0 .. S - 1
  BY DEF SliceType
<1>2. Live = (head - tail) % S /\ \A i : At(i) = Entries[(tail + i) % S]
  BY DEF Live, At
<1> HIDE DEF S
<1>3. Live \in 0 .. S - 1
  <2>1. PICK x \in Int : x = head - tail
    BY <1>1
  <2>2. x % S \in 0 .. S - 1
    BY <1>1
  <2> QED
    BY <2>1, <2>2, <1>2
<1>4. \A i \in 0 .. S - 1 : (tail + i) % S \in 0 .. S - 1
  BY <1>1, Places
<1> QED
  BY <1>1, <1>2, <1>3, <1>4 DEF S

\* Append: the n oldest are gone, the others keep their order, entry is the newest.
LEMMA StoreFacts ==
  ASSUME RingAssumption, SliceType,
         NEW entry \in EntryType, entry.Seq \in Seqs, NEW n \in 0 .. Live, Store(entry, n)
  PROVE  /\ SliceType'
         /\ Live' = (Live - n) + 1
         /\ \A i \in 0 .. Live - n : At(i)' = IF i < Live - n THEN At(n + i) ELSE entry
         /\ EarliestSeq' = At(0)'.Seq
<1> DEFINE S == Slots
           L == Live
           u == (tail + n) % S
           full == (head + 1) % S = u
<1>1. S \in Nat \ {0, 1} /\ Entries \in [0 .. S - 1 -> EntryType]
      /\ head \in 0 .. S - 1 /\ tail \in 0 .. S - 1
  BY DEF SliceType
<1>2. L = (head - tail) % S /\ n \in 0 .. L /\ (\A i : At(i) = Entries[(tail + i) % S])
  BY DEF Live, At
<1>3. u = (tail + n) % S
  OBVIOUS
<1>4. /\ full => /\ Entries' = [Unrolled(u, L - n) EXCEPT ![L - n] = entry]
                 /\ tail' = 0 /\ head' = ((L - n) + 1) % (2 * S)
                 /\ EarliestSeq' = Entries'[0].Seq
      /\ ~ full => /\ Entries' = [Entries EXCEPT ![head] = entry]
                   /\ tail' = u /\ head' = (head + 1) % S
                   /\ EarliestSeq' = Entries'[u].Seq
  BY DEF Store, NextSlot
<1>5. Unrolled(u, L - n) =
        [i \in 0 .. 2 * S - 1 |-> IF i < L - n THEN Entries[(u + i) % S] ELSE NoEntry]
  BY DEF Unrolled
<1>6. full <=> (head + 1) % S = u
  OBVIOUS
<1>7. /\ Slots' = Cardinality(DOMAIN Entries')
      /\ Live' = (head' - tail') % Slots'
      /\ \A i : At(i)' = Entries'[(tail' + i) % Slots']
  BY DEF Slots, Live, At
<1>8. MaxBytes' \in Budgets /\ LatestSeq' \in 0 .. MaxSeq /\ hist' \in Seq(Seqs)
  <2>1. hist \in Seq(Seqs) /\ MaxBytes \in Budgets
    BY DEF SliceType
  <2>2. hist' = Append(hist, entry.Seq) /\ MaxBytes' = MaxBytes /\ LatestSeq' = entry.Seq
    BY DEF Store
  <2>3. entry.Seq \in 0 .. MaxSeq
    BY EntrySeq
  <2>4. Append(hist, entry.Seq) \in Seq(Seqs)
    BY <2>1
  <2> QED
    BY <2>1, <2>2, <2>3, <2>4
<1> HIDE DEF S, L, u, full
<1>9. /\ L \in 0 .. S - 1 /\ u \in 0 .. S - 1 /\ (tail + L) % S = head
      /\ \A i \in 0 .. L - n : (u + i) % S = (tail + (n + i)) % S
      /\ full <=> L - n = S - 1
      /\ (head + 1) % S \in 0 .. S - 1
      /\ L - n # S - 1 => (((head + 1) % S) - u) % S = (L - n) + 1
  <2>1. /\ L \in 0 .. S - 1 /\ u \in 0 .. S - 1 /\ (tail + L) % S = head
        /\ (head - u) % S = L - n
        /\ \A i \in 0 .. L - n : (u + i) % S = (tail + (n + i)) % S
        /\ (head + 1) % S = u <=> L - n = S - 1
        /\ (head + 1) % S \in 0 .. S - 1
        /\ L - n # S - 1 => (((head + 1) % S) - u) % S = (L - n) + 1
    <3>1. Turn(S, tail, head, L, n, u)
      BY <1>1, <1>2, <1>3 DEF Turn
    <3> QED
      BY <3>1, Turning
  <2> QED
    BY <2>1, <1>6
<1>10. /\ Slots' \in Nat \ {0, 1} /\ Entries' \in [0 .. Slots' - 1 -> EntryType]
       /\ head' \in 0 .. Slots' - 1 /\ tail' \in 0 .. Slots' - 1
       /\ Live' = (L - n) + 1
       /\ \A i \in 0 .. L - n : At(i)' = IF i < L - n THEN At(n + i) ELSE entry
       /\ EarliestSeq' = At(0)'.Seq
  <2>1. CASE full
    <3>1. PICK T \in Nat \ {0, 1} : T = 2 * S
      BY <1>1
    <3>2. L - n = S - 1 /\ S < T /\ S - 1 \in 0 .. T - 1 /\ n \in 0 .. S - 1
      BY <1>1, <1>2, <1>9, <2>1, <3>1
    <3>3. \A i \in 0 .. S - 1 : (u + i) % S \in 0 .. S - 1
      BY <1>1, <1>9, Places
    <3>4. DEFINE f == [i \in 0 .. T - 1 |-> IF i < S - 1 THEN Entries[(u + i) % S] ELSE NoEntry]
    <3>5. f \in [0 .. T - 1 -> EntryType]
      BY <1>1, <3>2, <3>3 DEF EntryType
    <3>6. Entries' = [f EXCEPT ![S - 1] = entry]
      BY <1>4, <1>5, <2>1, <3>1, <3>2
    <3>7. \A i \in 0 .. S - 2 : f[i] = Entries[(u + i) % S]
      BY <1>1, <3>1, <3>2
    <3> HIDE DEF f
    <3>8. Entries' \in [0 .. T - 1 -> EntryType] /\ DOMAIN Entries' = 0 .. T - 1
          /\ Entries'[S - 1] = entry /\ (\A i \in 0 .. S - 2 : Entries'[i] = Entries[(u + i) % S])
      BY <1>1, <3>2, <3>5, <3>6, <3>7
    <3>9. Slots' = T
      BY <1>7, <3>8, SlotsOf
    <3>10. tail' = 0 /\ head' = S
      <4>1. head' = S % T
        BY <1>1, <1>4, <2>1, <3>1, <3>2
      <4>2. S % T = S
        BY <1>1, <3>2
      <4> QED
        BY <1>4, <2>1, <4>1, <4>2
    <3>11. Live' = S
      <4>1. S % T = S
        BY <1>1, <3>2
      <4>2. S - 0 = S
        BY <1>1
      <4> QED
        BY <1>7, <3>9, <3>10, <4>1, <4>2
    <3>12. \A i \in 0 .. T - 1 : At(i)' = Entries'[i]
      <4>1. \A i \in 0 .. T - 1 : (0 + i) % T = i
        <5>1. 0 \in 0 .. T - 1
          OBVIOUS
        <5>2. \A i \in 0 .. T - 1 : (0 + i) % T = IF 0 + i < T THEN 0 + i ELSE 0 + i - T
          BY <5>1, Places
        <5> QED
          BY <5>2
      <4> QED
        BY <1>7, <3>9, <3>10, <4>1
    <3>13. ASSUME NEW i \in 0 .. L - n
           PROVE  At(i)' = IF i < L - n THEN At(n + i) ELSE entry
      <4>1. CASE i < L - n
        <5>1. i \in 0 .. S - 2 /\ i \in 0 .. T - 1
          BY <1>1, <3>1, <3>2, <4>1
        <5> QED
          BY <5>1, <4>1, <3>12, <3>8, <1>9, <1>2
      <4>2. CASE ~ (i < L - n)
        <5>1. i = S - 1
          BY <1>1, <3>2, <4>2
        <5> QED
          BY <5>1, <4>2, <3>2, <3>12, <3>8
      <4> QED
        BY <4>1, <4>2
    <3>14. EarliestSeq' = At(0)'.Seq
      <4>1. 0 \in 0 .. T - 1
        OBVIOUS
      <4>2. At(0)' = Entries'[0]
        BY <4>1, <3>12
      <4> QED
        BY <4>2, <1>4, <2>1
    <3>15. /\ T \in Nat \ {0, 1} /\ S \in 0 .. T - 1 /\ 0 \in 0 .. T - 1
           /\ S = (L - n) + 1
      BY <1>1, <3>2
    <3> QED
      BY <3>8, <3>9, <3>10, <3>11, <3>13, <3>14, <3>15
  <2>2. CASE ~ full
    <3>1. L - n # S - 1 /\ L - n \in 0 .. S - 1
      BY <1>1, <1>2, <1>9, <2>2
    <3>2. Entries' = [Entries EXCEPT ![head] = entry] /\ tail' = u /\ head' = (head + 1) % S
      BY <1>4, <2>2
    <3>3. Entries' \in [0 .. S - 1 -> EntryType] /\ DOMAIN Entries' = 0 .. S - 1
          /\ Entries'[head] = entry /\ (\A i \in 0 .. S - 1 : i # head => Entries'[i] = Entries[i])
      BY <1>1, <3>2
    <3>4. Slots' = S
      BY <1>1, <1>7, <3>3, SlotsOf
    <3>5. Live' = (L - n) + 1
      BY <1>7, <1>9, <3>1, <3>2, <3>4
    <3>6. (u + (L - n)) % S = head
      <4>1. L - n \in 0 .. L - n
        BY <1>1, <1>2, <3>1
      <4>2. n + (L - n) = L
        BY <1>9, <1>2
      <4> QED
        BY <4>1, <4>2, <1>9
    <3>7. /\ \A i \in 0 .. S - 1 : (u + i) % S \in 0 .. S - 1
          /\ \A i, j \in 0 .. S - 1 : (u + i) % S = (u + j) % S => i = j
      BY <1>1, <1>9, Places
    <3>8. ASSUME NEW i \in 0 .. L - n
          PROVE  At(i)' = IF i < L - n THEN At(n + i) ELSE entry
      <4>1. At(i)' = Entries'[(u + i) % S] /\ (u + i) % S = (tail + (n + i)) % S
        BY <1>7, <1>9, <3>2, <3>4
      <4>2. i \in 0 .. S - 1
        BY <1>1, <3>1
      <4>3. CASE i < L - n
        <5>1. (u + i) % S # head /\ (u + i) % S \in 0 .. S - 1
          BY <3>1, <3>6, <3>7, <4>2, <4>3
        <5> QED
          BY <1>2, <3>3, <4>1, <4>3, <5>1
      <4>4. CASE ~ (i < L - n)
        <5>1. i = L - n
          BY <3>1, <4>4
        <5> QED
          BY <3>3, <3>6, <4>1, <4>4, <5>1
      <4> QED
        BY <4>3, <4>4
    <3>10. EarliestSeq' = At(0)'.Seq
      <4>1. (u + 0) % S = u
        <5>1. 0 \in 0 .. S - 1
          BY <1>1
        <5>2. u \in 0 .. S - 1
          BY <1>9
        <5>3. (u + 0) % S = IF u + 0 < S THEN u + 0 ELSE u + 0 - S
          BY <1>1, <5>1, <5>2, Places
        <5> QED
          BY <1>1, <5>2, <5>3
      <4> QED
        BY <1>4, <1>7, <2>2, <3>2, <3>4, <4>1
    <3> QED
      BY <1>1, <1>9, <3>2, <3>3, <3>4, <3>5, <3>8, <3>10
  <2> QED
    BY <2>1, <2>2
<1>11. EarliestSeq' \in 0 .. MaxSeq + 1
  <2>0. PICK T \in Nat \ {0, 1} : T = Slots' /\ tail' \in 0 .. T - 1
    BY <1>10
  <2>1. 0 \in 0 .. T - 1
    OBVIOUS
  <2>2. At(0)' \in EntryType
    <3>1. (tail' + 0) % T \in 0 .. T - 1
      BY <2>0, <2>1, Places
    <3> QED
      BY <1>7, <1>10, <2>0, <3>1
  <2>3. At(0)'.Seq \in 0 .. MaxSeq
    BY <2>2, EntrySeq
  <2> QED
    BY <1>10, <2>3 DEF RingAssumption
<1> QED
  BY <1>8, <1>10, <1>11 DEF L, SliceType

\* evictLocked: the n oldest are gone and the others keep their order.
LEMMA TrimFacts ==
  ASSUME RingAssumption, SliceType, NEW n \in 0 .. Live, Trim(n), MaxBytes' \in Budgets
  PROVE  /\ SliceType'
         /\ Live' = Live - n
         /\ \A i \in 0 .. (Live - n) - 1 : At(i)' = At(n + i)
         /\ EarliestSeq' = IF Live' # 0 THEN At(0)'.Seq
                           ELSE IF LatestSeq # 0 THEN LatestSeq + 1 ELSE EarliestSeq
<1> DEFINE S == Slots
           L == Live
           u == (tail + n) % S
<1>1. S \in Nat \ {0, 1} /\ Entries \in [0 .. S - 1 -> EntryType]
      /\ head \in 0 .. S - 1 /\ tail \in 0 .. S - 1
  BY DEF SliceType
<1>2. L = (head - tail) % S /\ n \in 0 .. L /\ (\A i : At(i) = Entries[(tail + i) % S])
  BY DEF Live, At
<1>3. u = (tail + n) % S
  OBVIOUS
<1>4. /\ tail' = u /\ Entries' = Entries /\ head' = head /\ LatestSeq' = LatestSeq /\ hist' = hist
      /\ n = L => EarliestSeq' = IF LatestSeq # 0 THEN LatestSeq + 1 ELSE EarliestSeq
      /\ n # L => EarliestSeq' = At(n).Seq
  BY DEF Trim
<1>5. /\ Slots' = S
      /\ Live' = (head' - tail') % S
      /\ \A i : At(i)' = Entries'[(tail' + i) % S]
  BY <1>4 DEF Slots, Live, At
<1>6. EarliestSeq \in 0 .. MaxSeq + 1 /\ LatestSeq \in 0 .. MaxSeq /\ hist \in Seq(Seqs)
  BY DEF SliceType
<1> HIDE DEF S, L, u
<1>7. /\ L \in 0 .. S - 1 /\ u \in 0 .. S - 1 /\ (head - u) % S = L - n
      /\ \A i \in 0 .. L - n : (u + i) % S = (tail + (n + i)) % S
  <2>1. Turn(S, tail, head, L, n, u)
    BY <1>1, <1>2, <1>3 DEF Turn
  <2> QED
    BY <2>1, Turning
<1>8. Live' = L - n
  BY <1>4, <1>5, <1>7
<1>9. \A i \in 0 .. L - n : At(i)' = At(n + i)
  BY <1>2, <1>4, <1>5, <1>7
<1>10. EarliestSeq' = IF Live' # 0 THEN At(0)'.Seq
                      ELSE IF LatestSeq # 0 THEN LatestSeq + 1 ELSE EarliestSeq
  <2>1. CASE n = L
    BY <1>4, <1>7, <1>8, <2>1
  <2>2. CASE n # L
    <3>1. 0 \in 0 .. L - n /\ n + 0 = n /\ L - n # 0
      BY <1>2, <1>7, <2>2
    <3>2. At(0)' = At(n)
      BY <1>9, <3>1
    <3> QED
      BY <1>4, <1>8, <2>2, <3>1, <3>2
  <2> QED
    BY <2>1, <2>2
<1>11. EarliestSeq' \in 0 .. MaxSeq + 1
  <2>1. n \in 0 .. S - 1
    BY <1>1, <1>2, <1>7
  <2>2. (tail + n) % S \in 0 .. S - 1
    BY <1>3, <1>7
  <2>3. At(n).Seq \in 0 .. MaxSeq
    BY <1>1, <1>2, <2>2, EntrySeq
  <2>4. LatestSeq + 1 \in 0 .. MaxSeq + 1 /\ 0 .. MaxSeq \subseteq 0 .. MaxSeq + 1
    BY <1>6 DEF RingAssumption
  <2> QED
    BY <1>4, <1>6, <2>3, <2>4
<1>12. SliceType'
  BY <1>1, <1>4, <1>5, <1>6, <1>7, <1>11 DEF SliceType
<1> QED
  BY <1>2, <1>7, <1>8, <1>9, <1>10, <1>12 DEF L
-----------------------------------------------------------------------------
(***************************************************************************)
(* The ring implements the window of RingWindow.                           *)
(***************************************************************************)
\* A function on 1 .. n is a sequence of n elements.
LEMMA FunctionIsSeq ==
  ASSUME NEW n \in Nat, NEW T, NEW f \in [1 .. n -> T]
  PROVE  f \in Seq(T) /\ Len(f) = n
OBVIOUS

\* f, of m elements, begins with what e, of L elements, holds after its n first ones.
Shifted(L, n, e, m, f) ==
  /\ L \in Nat /\ n \in 0 .. L
  /\ e \in [1 .. L -> Int] /\ f \in [1 .. m -> Int]
  /\ \A i \in 1 .. L - n : f[i] = e[n + i]

\* The same, and s is what f ends with.
Extended(L, n, e, m, f, s) == Shifted(L, n, e, m, f) /\ m = (L - n) + 1 /\ f[m] = s

\* The sequence without its n first elements.
LEMMA Dropped ==
  ASSUME NEW L \in Nat, NEW n \in 0 .. L, NEW e \in [1 .. L -> Int]
  PROVE  /\ SubSeq(e, n + 1, L) \in Seq(Int) /\ Len(SubSeq(e, n + 1, L)) = L - n
         /\ \A i \in 1 .. L - n : SubSeq(e, n + 1, L)[i] = e[n + i]
<1>1. \A i \in n + 1 .. L : e[i] \in Int
  OBVIOUS
<1>2. n + 1 \in Int /\ L \in Int
  OBVIOUS
<1>3. /\ SubSeq(e, n + 1, L) \in Seq(Int)
      /\ Len(SubSeq(e, n + 1, L)) = IF n + 1 <= L THEN L - (n + 1) + 1 ELSE 0
      /\ \A i \in 1 .. L - (n + 1) + 1 : SubSeq(e, n + 1, L)[i] = e[(n + 1) + i - 1]
  BY <1>1, <1>2, SubSeqProperties
<1> QED
  BY <1>3

\* What Append makes of the seqs that are live.
LEMMA AppendedSeqs ==
  ASSUME NEW L, NEW n, NEW e, NEW m, NEW f, NEW s \in Int,
         Extended(L, n, e, m, f, s)
  PROVE  f = Append(SubSeq(e, n + 1, Len(e)), s)
<1>0. /\ L \in Nat /\ n \in 0 .. L
      /\ e \in [1 .. L -> Int] /\ f \in [1 .. (L - n) + 1 -> Int]
      /\ (\A i \in 1 .. L - n : f[i] = e[n + i]) /\ f[(L - n) + 1] = s
  BY DEF Shifted, Extended
<1> USE <1>0
<1>1. e \in Seq(Int) /\ Len(e) = L
  BY FunctionIsSeq
<1>2. (L - n) + 1 \in Nat
  OBVIOUS
<1>3. f \in Seq(Int) /\ Len(f) = (L - n) + 1
  BY <1>2, FunctionIsSeq
<1>4. /\ SubSeq(e, n + 1, L) \in Seq(Int) /\ Len(SubSeq(e, n + 1, L)) = L - n
      /\ \A i \in 1 .. L - n : SubSeq(e, n + 1, L)[i] = e[n + i]
  BY Dropped
<1> DEFINE g == SubSeq(e, n + 1, L)
           a == Append(g, s)
<1> HIDE DEF g
<1>5. a \in Seq(Int) /\ Len(a) = (L - n) + 1 /\ a[(L - n) + 1] = s
      /\ \A i \in 1 .. L - n : a[i] = g[i]
  BY <1>4 DEF g
<1>6. \A i \in 1 .. (L - n) + 1 : f[i] = a[i]
  BY <1>4, <1>5 DEF g
<1> HIDE DEF a
<1>7. f = a
  BY <1>3, <1>5, <1>6, SeqEqual
<1> QED
  BY <1>1, <1>7 DEF a, g

\* What evictLocked leaves of the seqs that are live.
LEMMA KeptSeqs ==
  ASSUME NEW L, NEW n, NEW e, NEW m, NEW f, Shifted(L, n, e, m, f), m = L - n
  PROVE  /\ f = SubSeq(e, n + 1, Len(e))
         /\ f # <<>> <=> n # L
<1>0. /\ L \in Nat /\ n \in 0 .. L
      /\ e \in [1 .. L -> Int] /\ f \in [1 .. L - n -> Int]
      /\ \A i \in 1 .. L - n : f[i] = e[n + i]
  BY DEF Shifted
<1> USE <1>0
<1>1. e \in Seq(Int) /\ Len(e) = L
  BY FunctionIsSeq
<1>2. L - n \in Nat
  OBVIOUS
<1>3. f \in Seq(Int) /\ Len(f) = L - n
  BY <1>2, FunctionIsSeq
<1>4. /\ SubSeq(e, n + 1, L) \in Seq(Int) /\ Len(SubSeq(e, n + 1, L)) = L - n
      /\ \A i \in 1 .. L - n : SubSeq(e, n + 1, L)[i] = e[n + i]
  BY Dropped
<1> DEFINE g == SubSeq(e, n + 1, L)
<1> HIDE DEF g
<1>5. g \in Seq(Int) /\ Len(g) = L - n /\ \A i \in 1 .. L - n : f[i] = g[i]
  BY <1>4 DEF g
<1>6. f = g
  BY <1>3, <1>5, SeqEqual
<1>7. f # <<>> <=> n # L
  BY <1>3
<1> QED
  BY <1>1, <1>6, <1>7 DEF g

\* The seqs of the live entries, the window's entries.
LiveSeqs == [i \in 1 .. Live |-> At(i - 1).Seq]

\* They are numbers.
LEMMA LiveSeqsType ==
  ASSUME RingAssumption, SliceType
  PROVE  /\ Live \in Nat /\ LiveSeqs \in [1 .. Live -> Int]
         /\ LiveSeqs \in Seq(Int) /\ Len(LiveSeqs) = Live
<1>1. Live \in Nat
  <2>1. Slots \in Nat
    BY DEF SliceType
  <2> QED
    BY <2>1, LiveInSlice
<1>2. ASSUME NEW i \in 1 .. Live PROVE At(i - 1).Seq \in Int
  <2>1. Slots \in Nat /\ Live \in 0 .. Slots - 1
    BY LiveInSlice DEF SliceType
  <2>2. PICK k \in 0 .. Slots - 1 : k = i - 1
    BY <1>1, <2>1
  <2>3. At(k) \in EntryType
    BY LiveInSlice
  <2>4. At(k).Seq \in 0 .. MaxSeq
    BY <2>3, EntrySeq
  <2> QED
    BY <2>2, <2>4
<1>3. LiveSeqs \in [1 .. Live -> Int]
  BY <1>2 DEF LiveSeqs
<1> QED
  BY <1>1, <1>3, FunctionIsSeq

\* The seqs after Append.
LEMMA SeqsAfterStore ==
  ASSUME RingAssumption, SliceType, NEW s \in Seqs, NEW size \in Sizes,
         NEW n \in 0 .. Live, Store([Seq |-> s, Size |-> size], n)
  PROVE  /\ LiveSeqs' = Append(SubSeq(LiveSeqs, n + 1, Len(LiveSeqs)), s)
         /\ EarliestSeq' = LiveSeqs'[1]
         /\ SliceType'
         /\ Extended(Live, n, LiveSeqs, Live', LiveSeqs', s)
<1> DEFINE entry == [Seq |-> s, Size |-> size]
<1>1. entry \in EntryType /\ entry.Seq = s /\ s \in Int
  BY DEF EntryType, Seqs
<1> HIDE DEF entry
<1>2. Store(entry, n) /\ entry.Seq \in Seqs
  BY <1>1 DEF entry
<1>3. /\ SliceType'
      /\ Live' = (Live - n) + 1
      /\ \A i \in 0 .. Live - n : At(i)' = IF i < Live - n THEN At(n + i) ELSE entry
      /\ EarliestSeq' = At(0)'.Seq
  BY <1>1, <1>2, StoreFacts
<1>4. Live \in Nat /\ LiveSeqs \in [1 .. Live -> Int]
      /\ \A i \in 1 .. Live : LiveSeqs[i] = At(i - 1).Seq
  BY LiveSeqsType DEF LiveSeqs
<1>5. PICK L \in Nat : L = Live
  BY <1>4
<1>6. LiveSeqs' = [i \in 1 .. (L - n) + 1 |-> At(i - 1)'.Seq]
  BY <1>3, <1>5 DEF LiveSeqs
<1>7. ASSUME NEW i \in 1 .. L - n
      PROVE  At(i - 1)'.Seq = LiveSeqs[n + i]
  <2>1. PICK k \in 0 .. L - n : k = i - 1 /\ k < L - n
    BY <1>5
  <2>2. At(k)' = At(n + k)
    BY <1>3, <1>5, <2>1
  <2>3. n + i \in 1 .. L /\ (n + i) - 1 = n + k
    BY <1>5, <2>1
  <2> QED
    BY <1>4, <1>5, <2>1, <2>2, <2>3
<1>9. \A i \in {(L - n) + 1} : At(i - 1)'.Seq = s
  <2>1. TAKE i \in {(L - n) + 1}
  <2>2. PICK k \in 0 .. L - n : k = i - 1 /\ k = L - n
    BY <1>5
  <2>3. At(k)' = entry
    BY <1>3, <1>5, <2>2
  <2> QED
    BY <1>1, <2>2, <2>3
<1>10. /\ LiveSeqs' \in [1 .. (L - n) + 1 -> Int]
       /\ \A i \in 1 .. L - n : LiveSeqs'[i] = LiveSeqs[n + i]
       /\ LiveSeqs'[(L - n) + 1] = s
  <2>1. n \in 0 .. L
    BY <1>5
  <2>2. \A i \in 1 .. L - n : LiveSeqs[n + i] \in Int
    BY <1>4, <1>5, <2>1
  <2>3. \A i \in 1 .. (L - n) + 1 : i \in 1 .. L - n \/ i = (L - n) + 1
    BY <2>1
  <2>4. \A i \in 1 .. (L - n) + 1 : At(i - 1)'.Seq \in Int
    BY <1>1, <1>7, <1>9, <2>2, <2>3
  <2> QED
    BY <1>6, <1>7, <1>9, <2>1, <2>4
<1>11. LiveSeqs' = Append(SubSeq(LiveSeqs, n + 1, Len(LiveSeqs)), s)
  <2>1. PICK e : e = LiveSeqs
    OBVIOUS
  <2>2. PICK f : f = LiveSeqs'
    OBVIOUS
  <2>3. n \in 0 .. L /\ e \in [1 .. L -> Int] /\ f \in [1 .. (L - n) + 1 -> Int]
        /\ (\A i \in 1 .. L - n : f[i] = e[n + i]) /\ f[(L - n) + 1] = s
    BY <1>4, <1>5, <1>10, <2>1, <2>2
  <2>5. PICK m : m = (L - n) + 1
    OBVIOUS
  <2>6. Extended(L, n, e, m, f, s)
    BY <2>3, <2>5 DEF Shifted, Extended
  <2>4. f = Append(SubSeq(e, n + 1, Len(e)), s)
    BY <1>1, <2>6, AppendedSeqs
  <2> QED
    BY <2>1, <2>2, <2>4
<1>12. EarliestSeq' = LiveSeqs'[1]
  <2>1. 1 \in 1 .. (L - n) + 1
    BY <1>5
  <2>2. LiveSeqs'[1] = At(0)'.Seq
    BY <1>6, <2>1
  <2> QED
    BY <1>3, <2>2
<1>13. Extended(Live, n, LiveSeqs, Live', LiveSeqs', s)
  <2>1. n \in 0 .. L
    BY <1>5
  <2> QED
    BY <1>3, <1>4, <1>5, <1>10, <2>1 DEF Extended, Shifted
<1> QED
  BY <1>3, <1>11, <1>12, <1>13

\* The seqs after evictLocked.
LEMMA SeqsAfterTrim ==
  ASSUME RingAssumption, SliceType, NEW n \in 0 .. Live, Trim(n), MaxBytes' \in Budgets
  PROVE  /\ LiveSeqs' = SubSeq(LiveSeqs, n + 1, Len(LiveSeqs))
         /\ Shifted(Live, n, LiveSeqs, Live', LiveSeqs')
         /\ LiveSeqs' # <<>> <=> Live' # 0
         /\ EarliestSeq' = IF Live' # 0 THEN LiveSeqs'[1]
                           ELSE IF LatestSeq # 0 THEN LatestSeq + 1 ELSE EarliestSeq
         /\ SliceType'
         /\ Live' = Live - n
<1>1. /\ SliceType'
      /\ Live' = Live - n
      /\ \A i \in 0 .. (Live - n) - 1 : At(i)' = At(n + i)
      /\ EarliestSeq' = IF Live' # 0 THEN At(0)'.Seq
                        ELSE IF LatestSeq # 0 THEN LatestSeq + 1 ELSE EarliestSeq
  BY TrimFacts
<1>2. Live \in Nat /\ LiveSeqs \in [1 .. Live -> Int]
      /\ \A i \in 1 .. Live : LiveSeqs[i] = At(i - 1).Seq
  BY LiveSeqsType DEF LiveSeqs
<1>3. PICK L \in Nat : L = Live
  BY <1>2
<1>4. LiveSeqs' = [i \in 1 .. L - n |-> At(i - 1)'.Seq]
  BY <1>1, <1>3 DEF LiveSeqs
<1>5. ASSUME NEW i \in 1 .. L - n
      PROVE  At(i - 1)'.Seq = LiveSeqs[n + i]
  <2>1. PICK k \in 0 .. (L - n) - 1 : k = i - 1
    BY <1>3
  <2>2. At(k)' = At(n + k)
    BY <1>1, <1>3, <2>1
  <2>3. n + i \in 1 .. L /\ (n + i) - 1 = n + k
    BY <1>3, <2>1
  <2> QED
    BY <1>2, <1>3, <2>1, <2>2, <2>3
<1>6. /\ LiveSeqs' \in [1 .. L - n -> Int]
      /\ \A i \in 1 .. L - n : LiveSeqs'[i] = LiveSeqs[n + i]
  <2>1. n \in 0 .. L
    BY <1>3
  <2>2. \A i \in 1 .. L - n : LiveSeqs[n + i] \in Int
    BY <1>2, <1>3, <2>1
  <2> QED
    BY <1>4, <1>5, <2>1, <2>2
<1>7. LiveSeqs' = SubSeq(LiveSeqs, n + 1, Len(LiveSeqs)) /\ (LiveSeqs' # <<>> <=> n # L)
  <2>1. PICK e : e = LiveSeqs
    OBVIOUS
  <2>2. PICK f : f = LiveSeqs'
    OBVIOUS
  <2>3. n \in 0 .. L /\ e \in [1 .. L -> Int] /\ f \in [1 .. L - n -> Int]
        /\ (\A i \in 1 .. L - n : f[i] = e[n + i])
    BY <1>2, <1>3, <1>6, <2>1, <2>2
  <2>5. Shifted(L, n, e, L - n, f)
    BY <2>3 DEF Shifted
  <2>4. f = SubSeq(e, n + 1, Len(e)) /\ (f # <<>> <=> n # L)
    BY <2>3, <2>5, KeptSeqs
  <2> QED
    BY <2>1, <2>2, <2>4
<1>8. Live' # 0 => LiveSeqs'[1] = At(0)'.Seq
  <2>1. Live' # 0 => 1 \in 1 .. L - n
    BY <1>1, <1>3
  <2> QED
    BY <1>4, <2>1
<1>9. n # L <=> Live' # 0
  BY <1>1, <1>3
<1>10. Shifted(Live, n, LiveSeqs, Live', LiveSeqs')
  <2>1. n \in 0 .. L
    BY <1>3
  <2> QED
    BY <1>1, <1>2, <1>3, <1>6, <2>1 DEF Shifted
<1> QED
  BY <1>1, <1>7, <1>8, <1>9, <1>10

\* A new ring is a new window.
LEMMA InitImplements ==
  ASSUME RingAssumption, Init
  PROVE  Window!Init /\ SliceType /\ Live = 0
<1>1. Slots = InitSlots
  <2>1. DOMAIN Entries = 0 .. InitSlots - 1 /\ InitSlots \in Nat \ {0}
    BY DEF Init, NewRingBuffer, RingAssumption
  <2> QED
    BY <2>1, SlotsOf DEF Slots
<1>2. SliceType
  BY <1>1 DEF SliceType, Init, NewRingBuffer, RingAssumption, EntryType
<1>3. Live = 0
  <2>1. head - tail = 0
    BY DEF Init, NewRingBuffer
  <2>2. 0 % Slots = 0
    BY <1>2 DEF SliceType
  <2> QED
    BY <2>1, <2>2 DEF Live
<1>4. LiveSeqs = <<>>
  <2>1. LiveSeqs \in Seq(Int) /\ Len(LiveSeqs) = 0
    BY <1>2, <1>3, LiveSeqsType
  <2> QED
    BY <2>1
<1>5. hist = <<>> /\ EarliestSeq = 0 /\ LatestSeq = 0
  BY DEF Init, NewRingBuffer
<1> QED
  BY <1>2, <1>3, <1>4, <1>5 DEF Window!Init, Window!NewWindow, LiveSeqs

\* Append is the window's append.
LEMMA AppendImplements ==
  ASSUME RingAssumption, SliceType, NEW s \in (LatestSeq + 1) .. MaxSeq, NEW size \in Sizes,
         NEW n \in 0 .. Live, Store([Seq |-> s, Size |-> size], n)
  PROVE  Window!Next
<1>1. s \in Seqs
  BY DEF SliceType, Seqs, RingAssumption
<1>2. /\ LiveSeqs' = Append(SubSeq(LiveSeqs, n + 1, Len(LiveSeqs)), s)
      /\ EarliestSeq' = LiveSeqs'[1]
  BY <1>1, SeqsAfterStore
<1>3. LatestSeq' = s /\ hist' = Append(hist, s)
  BY DEF Store
<1>4. n \in 0 .. Len(LiveSeqs)
  BY LiveSeqsType
<1>5. Window!AppendStep(n, s)
  BY <1>2, <1>3, <1>4
  DEF Window!AppendStep, Window!AppendEntry, Window!DropOldest, LiveSeqs
<1> QED
  BY <1>1, <1>4, <1>5 DEF Window!Next, Window!Seqs, Seqs, LiveSeqs

\* evictLocked is the window's eviction.
LEMMA TrimImplements ==
  ASSUME RingAssumption, SliceType, NEW n \in 0 .. Live, Trim(n), MaxBytes' \in Budgets
  PROVE  Window!Next
<1>1. /\ LiveSeqs' = SubSeq(LiveSeqs, n + 1, Len(LiveSeqs))
      /\ EarliestSeq' = IF LiveSeqs' # <<>> THEN LiveSeqs'[1]
                        ELSE IF LatestSeq # 0 THEN LatestSeq + 1 ELSE EarliestSeq
  BY SeqsAfterTrim
<1>2. LatestSeq' = LatestSeq /\ hist' = hist
  BY DEF Trim
<1>3. n \in 0 .. Len(LiveSeqs)
  BY LiveSeqsType
<1>4. Window!EvictStep(n)
  <2> DEFINE w == [entries |-> LiveSeqs, earliest |-> EarliestSeq, latest |-> LatestSeq]
             kept == SubSeq(LiveSeqs, n + 1, Len(LiveSeqs))
  <2>1. w.entries = LiveSeqs /\ w.earliest = EarliestSeq /\ w.latest = LatestSeq
    OBVIOUS
  <2>2. w' = [entries |-> LiveSeqs', earliest |-> EarliestSeq', latest |-> LatestSeq']
    OBVIOUS
  <2>3. Window!EvictEntries(w, n) =
          [entries  |-> kept,
           earliest |-> IF kept # <<>> THEN kept[1]
                        ELSE IF LatestSeq # 0 THEN LatestSeq + 1 ELSE EarliestSeq,
           latest   |-> LatestSeq]
    BY <2>1 DEF Window!EvictEntries, Window!DropOldest, Window!EarliestOf
  <2>4. w' = Window!EvictEntries(w, n)
    <3> HIDE DEF kept
    <3>1. LiveSeqs' = kept
      BY <1>1 DEF kept
    <3> QED
      BY <1>1, <1>2, <2>2, <2>3, <3>1
  <2> QED
    BY <1>2, <1>3, <2>4 DEF Window!EvictStep, LiveSeqs
<1> QED
  BY <1>3, <1>4 DEF Window!Next, LiveSeqs

-----------------------------------------------------------------------------
(***************************************************************************)
(* What is live is the end of what was appended.                           *)
(***************************************************************************)
\* HoldsTheEnd for L live entries with the seqs e, the history h and the two bounds.
EndOf(L, e, h, latest, earliest) ==
  /\ L <= Len(h)
  /\ \A i \in 1 .. L : e[i] = h[Len(h) - L + i]
  /\ \A i, j \in 1 .. Len(h) : i < j => h[i] < h[j]
  /\ latest = IF h = <<>> THEN 0 ELSE h[Len(h)]
  /\ earliest = IF L # 0 THEN e[1] ELSE IF latest # 0 THEN latest + 1 ELSE 0

\* An append keeps it.
LEMMA EndAppended ==
  ASSUME NEW h \in Seq(Nat \ {0}), NEW L, NEW n, NEW e, NEW m, NEW f, NEW s \in Nat \ {0},
         NEW latest, NEW earliest, EndOf(L, e, h, latest, earliest),
         Extended(L, n, e, m, f, s), s > latest
  PROVE  EndOf(m, f, Append(h, s), s, f[1])
<1>1. /\ L \in Nat /\ n \in 0 .. L /\ m \in Nat /\ m >= 1 /\ m = (L - n) + 1 /\ f[m] = s
      /\ \A i \in 1 .. L - n : f[i] = e[n + i]
  BY DEF Shifted, Extended
<1>2. /\ L <= Len(h)
      /\ \A i \in 1 .. L : e[i] = h[Len(h) - L + i]
      /\ \A i, j \in 1 .. Len(h) : i < j => h[i] < h[j]
  BY DEF EndOf
<1>3. latest = IF h = <<>> THEN 0 ELSE h[Len(h)]
  BY DEF EndOf
<1>4. PICK N \in Nat : N = Len(h)
  OBVIOUS
<1> DEFINE g == Append(h, s)
<1>5. /\ Len(g) = N + 1 /\ g[N + 1] = s /\ g # <<>> /\ g \in Seq(Nat \ {0})
      /\ \A i \in 1 .. N : g[i] = h[i] /\ h[i] \in Nat
  BY <1>4
<1> HIDE DEF g
<1>6. m <= Len(g)
  BY <1>1, <1>2, <1>4, <1>5
<1>7. ASSUME NEW i \in 1 .. m PROVE f[i] = g[Len(g) - m + i]
  <2>1. CASE i = m
    <3>1. Len(g) - m + i = N + 1
      BY <1>1, <1>4, <1>5, <2>1
    <3> QED
      BY <1>1, <1>5, <2>1, <3>1
  <2>2. CASE i # m
    <3>1. i \in 1 .. L - n /\ n + i \in 1 .. L
      BY <1>1, <2>2
    <3>0. N - L + (n + i) \in 1 .. N
      BY <1>1, <1>2, <1>4, <3>1
    <3>2. PICK k \in 1 .. N : k = N - L + (n + i)
      BY <3>0
    <3>3. f[i] = h[k]
      BY <1>1, <1>2, <1>4, <3>1, <3>2
    <3>4. Len(g) - m + i = k
      BY <1>1, <1>5, <3>2
    <3> QED
      BY <1>5, <3>3, <3>4
  <2> QED
    BY <2>1, <2>2
<1>8. ASSUME NEW i \in 1 .. Len(g), NEW j \in 1 .. Len(g), i < j PROVE g[i] < g[j]
  <2>1. CASE j \in 1 .. N
    <3>1. i \in 1 .. N
      BY <1>8, <2>1
    <3> QED
      BY <1>2, <1>4, <1>5, <1>8, <2>1, <3>1
  <2>2. CASE j = N + 1
    <3>1. i \in 1 .. N /\ h # <<>> /\ N \in 1 .. N /\ (i = N \/ i < N)
      BY <1>4, <1>5, <1>8, <2>2
    <3>2. latest = h[N] /\ h[i] <= h[N]
      BY <1>2, <1>3, <1>4, <1>5, <3>1
    <3> QED
      BY <1>5, <2>2, <3>1, <3>2
  <2> QED
    BY <1>4, <1>5, <2>1, <2>2
<1>9. s = g[Len(g)] /\ g # <<>> /\ m # 0
  BY <1>1, <1>5
<1> QED
  BY <1>6, <1>7, <1>8, <1>9 DEF EndOf, g

\* An eviction keeps it.
LEMMA EndKept ==
  ASSUME NEW h \in Seq(Nat \ {0}), NEW L, NEW n, NEW e, NEW m, NEW f,
         NEW latest, NEW earliest, EndOf(L, e, h, latest, earliest),
         Shifted(L, n, e, m, f), m = L - n
  PROVE  EndOf(m, f, h, latest,
               IF m # 0 THEN f[1] ELSE IF latest # 0 THEN latest + 1 ELSE earliest)
<1>1. /\ L \in Nat /\ n \in 0 .. L /\ m \in Nat /\ m <= L
      /\ \A i \in 1 .. L - n : f[i] = e[n + i]
  BY DEF Shifted
<1>2. /\ L <= Len(h)
      /\ \A i \in 1 .. L : e[i] = h[Len(h) - L + i]
  BY DEF EndOf
<1>3. PICK N \in Nat : N = Len(h)
  OBVIOUS
<1>4. m <= N
  BY <1>1, <1>2, <1>3
<1>5. ASSUME NEW i \in 1 .. m PROVE f[i] = h[N - m + i]
  <2>1. i \in 1 .. L - n /\ n + i \in 1 .. L
    BY <1>1
  <2>2. N - L + (n + i) = N - m + i
    BY <1>1, <1>3
  <2> QED
    BY <1>1, <1>2, <1>3, <2>1, <2>2
<1>6. latest = 0 => earliest = 0
  <2>1. SUFFICES ASSUME latest = 0 PROVE earliest = 0
    OBVIOUS
  <2>2. latest = IF h = <<>> THEN 0 ELSE h[Len(h)]
    BY DEF EndOf
  <2>3. h # <<>> => h[Len(h)] \in Nat \ {0}
    OBVIOUS
  <2>4. h = <<>>
    BY <2>1, <2>2, <2>3
  <2>5. Len(h) = 0
    BY <2>4
  <2>6. L = 0
    BY <1>1, <1>2, <2>5
  <2> QED
    BY <2>1, <2>6 DEF EndOf
<1>7. /\ \A i, j \in 1 .. Len(h) : i < j => h[i] < h[j]
      /\ latest = IF h = <<>> THEN 0 ELSE h[Len(h)]
  BY DEF EndOf
<1> QED
  BY <1>3, <1>4, <1>5, <1>6, <1>7 DEF EndOf

\* HoldsTheEnd in terms of the seqs that are live.
LEMMA EndNow ==
  ASSUME Live \in Nat
  PROVE  HoldsTheEnd <=> EndOf(Live, LiveSeqs, hist, LatestSeq, EarliestSeq)
<1>1. \A i \in 1 .. Live : AllEntries[i].Seq = LiveSeqs[i]
  BY DEF AllEntries, LiveSeqs
<1>2. Live # 0 => 1 \in 1 .. Live
  OBVIOUS
<1> QED
  BY <1>1, <1>2 DEF HoldsTheEnd, EndOf

\* The same after a step.
LEMMA EndNext ==
  ASSUME Live' \in Nat, EndOf(Live', LiveSeqs', hist', LatestSeq', EarliestSeq')
  PROVE  HoldsTheEnd'
<1>1. PICK L \in Nat : L = Live'
  OBVIOUS
<1>2. \A i \in 1 .. L : AllEntries'[i].Seq = LiveSeqs'[i]
  BY <1>1 DEF AllEntries, LiveSeqs
<1>3. L # 0 => 1 \in 1 .. L
  OBVIOUS
<1> QED
  BY <1>1, <1>2, <1>3 DEF HoldsTheEnd, EndOf

\* Append keeps the invariant.
LEMMA AppendKeeps ==
  ASSUME RingAssumption, IInv, NEW s \in (LatestSeq + 1) .. MaxSeq, NEW size \in Sizes,
         NEW n \in 0 .. Live, Store([Seq |-> s, Size |-> size], n)
  PROVE  IInv'
<1>1. SliceType /\ Live \in Nat
  BY LiveSeqsType DEF IInv
<1>2. s \in Seqs /\ s \in Nat \ {0} /\ s > LatestSeq
  BY <1>1 DEF SliceType, Seqs, RingAssumption
<1>3. /\ SliceType'
      /\ EarliestSeq' = LiveSeqs'[1]
      /\ Extended(Live, n, LiveSeqs, Live', LiveSeqs', s)
  BY <1>1, <1>2, SeqsAfterStore
<1>4. LatestSeq' = s /\ hist' = Append(hist, s)
  BY DEF Store
<1>5. hist \in Seq(Nat \ {0})
  <2>1. hist \in Seq(Seqs)
    BY <1>1 DEF SliceType
  <2>2. Seqs \subseteq Nat \ {0}
    BY DEF Seqs, RingAssumption
  <2> QED
    BY <2>1, <2>2, SeqMonotonic
<1>6. EndOf(Live, LiveSeqs, hist, LatestSeq, EarliestSeq)
  BY <1>1, EndNow DEF IInv
<1>7. EndOf(Live', LiveSeqs', Append(hist, s), s, LiveSeqs'[1])
  BY <1>2, <1>3, <1>5, <1>6, EndAppended
<1>8. Live' \in Nat
  BY <1>3 DEF Extended, Shifted
<1>9. HoldsTheEnd'
  BY <1>3, <1>4, <1>7, <1>8, EndNext
<1> QED
  BY <1>3, <1>9 DEF IInv

\* evictLocked keeps it.
LEMMA TrimKeeps ==
  ASSUME RingAssumption, IInv, NEW n \in 0 .. Live, Trim(n), MaxBytes' \in Budgets
  PROVE  IInv'
<1>1. SliceType /\ Live \in Nat
  BY LiveSeqsType DEF IInv
<1>2. /\ SliceType' /\ Live' = Live - n
      /\ EarliestSeq' = IF Live' # 0 THEN LiveSeqs'[1]
                        ELSE IF LatestSeq # 0 THEN LatestSeq + 1 ELSE EarliestSeq
      /\ Shifted(Live, n, LiveSeqs, Live', LiveSeqs')
  BY <1>1, SeqsAfterTrim
<1>3. LatestSeq' = LatestSeq /\ hist' = hist
  BY DEF Trim
<1>4. hist \in Seq(Nat \ {0})
  <2>1. hist \in Seq(Seqs)
    BY <1>1 DEF SliceType
  <2>2. Seqs \subseteq Nat \ {0}
    BY DEF Seqs, RingAssumption
  <2> QED
    BY <2>1, <2>2, SeqMonotonic
<1>5. EndOf(Live, LiveSeqs, hist, LatestSeq, EarliestSeq)
  BY <1>1, EndNow DEF IInv
<1>6. EndOf(Live', LiveSeqs', hist, LatestSeq,
            IF Live' # 0 THEN LiveSeqs'[1]
            ELSE IF LatestSeq # 0 THEN LatestSeq + 1 ELSE EarliestSeq)
  BY <1>2, <1>4, <1>5, EndKept
<1>7. Live' \in Nat
  BY <1>1, <1>2
<1>8. HoldsTheEnd'
  BY <1>2, <1>3, <1>6, <1>7, EndNext
<1> QED
  BY <1>2, <1>8 DEF IInv

\* A new budget alone changes nothing that is live.
LEMMA SameSlice ==
  ASSUME IInv, MaxBytes' \in Budgets,
         UNCHANGED <<Entries, head, tail, EarliestSeq, LatestSeq, hist>>
  PROVE  IInv' /\ UNCHANGED Window!windowVars
<1>1. Slots' = Slots /\ Live' = Live /\ (\A i : At(i)' = At(i))
  BY DEF Slots, Live, At
<1>2. AllEntries' = AllEntries /\ LiveSeqs' = LiveSeqs
  BY <1>1 DEF AllEntries, LiveSeqs
<1>3. SliceType'
  BY <1>1 DEF IInv, SliceType
<1>4. HoldsTheEnd'
  BY <1>1, <1>2 DEF IInv, HoldsTheEnd
<1> QED
  BY <1>2, <1>3, <1>4 DEF IInv, Window!windowVars, LiveSeqs

\* Every step keeps the invariant and is a step of the window.
LEMMA StepImplements ==
  ASSUME RingAssumption, IInv, [Next]_vars
  PROVE  IInv' /\ [Window!Next]_Window!windowVars
<1>0. SliceType
  BY DEF IInv
<1>1. ASSUME NEW s \in (LatestSeq + 1) .. MaxSeq, NEW size \in Sizes,
             AppendEntry([Seq |-> s, Size |-> size])
      PROVE  IInv' /\ Window!Next
  <2>1. PICK n \in 0 .. Live : Store([Seq |-> s, Size |-> size], n)
    BY <1>1 DEF AppendEntry
  <2> QED
    BY <1>0, <2>1, AppendKeeps, AppendImplements
<1>2. ASSUME NEW b \in Budgets, Shrink(b)
      PROVE  IInv' /\ Window!Next
  <2>1. PICK n \in 0 .. Live : Trim(n)
    BY <1>2 DEF Shrink, EvictLocked
  <2>2. MaxBytes' \in Budgets
    BY <1>2 DEF Shrink
  <2> QED
    BY <1>0, <2>1, <2>2, TrimKeeps, TrimImplements
<1>3. ASSUME NEW b \in Budgets, Grow(b)
      PROVE  IInv' /\ UNCHANGED Window!windowVars
  BY <1>3, SameSlice DEF Grow
<1>4. CASE UNCHANGED vars
  <2>1. MaxBytes' \in Budgets
    BY <1>0, <1>4 DEF SliceType, vars
  <2> QED
    BY <1>4, <2>1, SameSlice DEF vars
<1> QED
  BY <1>1, <1>2, <1>3, <1>4 DEF Next

\* A new ring satisfies the invariant.
LEMMA InitHolds ==
  ASSUME RingAssumption, Init
  PROVE  IInv
<1>1. SliceType /\ Live = 0
  BY InitImplements
<1>2. hist = <<>> /\ EarliestSeq = 0 /\ LatestSeq = 0
  BY DEF Init, NewRingBuffer
<1>3. HoldsTheEnd
  BY <1>1, <1>2 DEF HoldsTheEnd
<1> QED
  BY <1>1, <1>3 DEF IInv

\* The circular slice keeps its shape, and what is live is the end of all that was
\* appended, for every ring and budget.
THEOREM InvariantHolds == Spec => []IInv
<1>1. Init => IInv
  BY RingAssumption, InitHolds
<1>2. IInv /\ [Next]_vars => IInv'
  BY RingAssumption, StepImplements
<1> QED
  BY <1>1, <1>2, PTL DEF Spec

\* The slice that wraps, doubles and evicts by bytes implements the window that keeps
\* the newest entries: every Append, eviction and budget change of broker.go is a step
\* of RingWindow or leaves the window alone.
THEOREM ImplementsWindowHolds == Spec => ImplementsWindow
<1>1. Init => Window!Init
  BY RingAssumption, InitImplements
<1>2. IInv /\ [Next]_vars => [Window!Next]_Window!windowVars
  BY RingAssumption, StepImplements
<1> QED
  BY <1>1, <1>2, InvariantHolds, PTL DEF Spec, ImplementsWindow, Window!Spec

\* A granted Replay returns every entry appended after lastSeq and nothing else.
THEOREM NoSilentGapHolds == Spec => []NoSilentGap
<1>1. IInv => NoSilentGap
  <2>1. SUFFICES ASSUME IInv, NEW lastSeq \in Seqs, Replay(lastSeq).ok,
                        NEW j \in 1 .. Len(hist)
                 PROVE  hist[j] > lastSeq <=>
                          /\ j - (Len(hist) - Live) \in Replay(lastSeq).entries
                          /\ AllEntries[j - (Len(hist) - Live)].Seq = hist[j]
    BY DEF NoSilentGap
  <2>2. SliceType /\ Live \in Nat /\ lastSeq \in Nat \ {0} /\ EarliestSeq \in Int
    BY <2>1, RingAssumption, LiveSeqsType DEF IInv, Seqs, SliceType
  <2>3. EarliestSeq <= lastSeq + 1 /\ Replay(lastSeq).entries = After(lastSeq)
    BY <2>1, <2>2 DEF Replay
  <2>4. /\ Live <= Len(hist)
        /\ \A i \in 1 .. Live : AllEntries[i].Seq = hist[Len(hist) - Live + i]
        /\ \A i, k \in 1 .. Len(hist) : i < k => hist[i] < hist[k]
        /\ LatestSeq = IF hist = <<>> THEN 0 ELSE hist[Len(hist)]
        /\ EarliestSeq = IF Live # 0 THEN AllEntries[1].Seq
                         ELSE IF LatestSeq # 0 THEN LatestSeq + 1 ELSE 0
    BY <2>1 DEF IInv, HoldsTheEnd
  <2>5. \A i \in 1 .. Len(hist) : hist[i] \in Nat \ {0}
    <3>1. hist \in Seq(Seqs)
      BY <2>2 DEF SliceType
    <3>2. \A i \in 1 .. Len(hist) : hist[i] \in Seqs
      BY <3>1, ElementOfSeq
    <3>3. Seqs \subseteq Nat \ {0}
      BY RingAssumption DEF Seqs, RingAssumption
    <3> QED
      BY <3>2, <3>3
  <2>6. PICK N \in Nat : N = Len(hist)
    BY <2>2 DEF SliceType
  <2>7. ASSUME hist[j] > lastSeq PROVE j > N - Live
    <3>1. SUFFICES ASSUME j <= N - Live PROVE FALSE
      BY <2>2, <2>6
    <3>2. N \in 1 .. N /\ (j = N \/ j < N)
      BY <2>6
    <3>3. hist[j] \in Nat /\ hist[N] \in Nat \ {0} /\ hist[j] <= hist[N]
      BY <2>4, <2>5, <2>6, <3>2
    <3>4. CASE Live = 0
      <4>1. LatestSeq = hist[N] /\ EarliestSeq = LatestSeq + 1
        BY <2>4, <2>6, <3>2, <3>3, <3>4
      <4> QED
        BY <2>2, <2>3, <2>7, <3>3, <4>1
    <3>5. CASE Live # 0
      <4>1. 1 \in 1 .. Live
        BY <2>2, <3>5
      <4>2. PICK k \in 1 .. N : k = N - Live + 1
        BY <2>2, <2>4, <2>6, <3>5
      <4>3. EarliestSeq = hist[k] /\ j < k
        BY <2>2, <2>4, <2>6, <3>1, <3>5, <4>1, <4>2
      <4>4. hist[j] < hist[k] /\ hist[k] \in Nat
        BY <2>4, <2>5, <2>6, <4>2, <4>3
      <4> QED
        BY <2>2, <2>3, <2>7, <3>3, <4>3, <4>4
    <3> QED
      BY <3>4, <3>5
  <2>8. ASSUME hist[j] > lastSeq
        PROVE  /\ j - (N - Live) \in After(lastSeq)
               /\ AllEntries[j - (N - Live)].Seq = hist[j]
    <3>1. j - (N - Live) \in 1 .. Live
      BY <2>2, <2>6, <2>7, <2>8
    <3>2. PICK i \in 1 .. Live : i = j - (N - Live)
      BY <3>1
    <3>3. N - Live + i = j
      BY <2>2, <2>6, <3>2
    <3>4. AllEntries[i].Seq = hist[j]
      BY <2>4, <2>6, <3>3
    <3> QED
      BY <2>8, <3>2, <3>4 DEF After
  <2>9. ASSUME j - (N - Live) \in After(lastSeq), AllEntries[j - (N - Live)].Seq = hist[j]
        PROVE  hist[j] > lastSeq
    BY <2>9 DEF After
  <2> QED
    BY <2>3, <2>6, <2>8, <2>9
<1> QED
  BY <1>1, InvariantHolds, PTL
-----------------------------------------------------------------------------
(***************************************************************************)
(* Sums.  Induction is over the set of the numbers that have the property, *)
(* by its least counterexample.                                            *)
(***************************************************************************)
\* A set of natural numbers has a least one.
LEMMA LeastNumber ==
  ASSUME NEW T, T \subseteq Nat, T # {}
  PROVE  \E x \in T : \A y \in T : x <= y
<1> DEFINE R == OpToRel(<, Nat)
<1>1. IsWellFoundedOn(R, Nat)
  BY NatLessThanWellFounded
<1>2. \A x, y \in Nat : <<y, x>> \in R <=> y < x
  BY DEF OpToRel
<1> HIDE DEF R
<1>3. PICK x \in T : \A y \in T : ~ (<<y, x>> \in R)
  BY <1>1, WFMin
<1>4. ASSUME NEW y \in T PROVE x <= y
  <2>1. x \in Nat /\ y \in Nat /\ ~ (y < x)
    BY <1>2, <1>3
  <2> QED
    BY <2>1
<1> QED
  BY <1>4

\* Induction.
LEMMA Induction ==
  ASSUME NEW T, T \subseteq Nat, 0 \in T, \A n \in T : n + 1 \in T
  PROVE  T = Nat
<1>1. SUFFICES ASSUME T # Nat PROVE FALSE
  OBVIOUS
<1> DEFINE U == Nat \ T
<1>2. U \subseteq Nat /\ U # {}
  BY <1>1
<1>3. PICK x \in U : \A y \in U : x <= y
  BY <1>2, LeastNumber
<1>4. x # 0 /\ x - 1 \in Nat
  BY <1>3
<1>5. x - 1 \in T
  BY <1>3, <1>4
<1>6. (x - 1) + 1 = x
  BY <1>3
<1> QED
  BY <1>3, <1>5, <1>6

\* g is a solution of the recursion of SumFirst up to n.
IsSum(g, z, n) == g = [i \in 0 .. n |-> IF i = 0 THEN 0 ELSE g[i - 1] + z[i]]

\* The recursion has a solution.
LEMMA SumExists == ASSUME NEW z, NEW n \in Nat PROVE \E g : IsSum(g, z, n)
<1> DEFINE T == {m \in Nat : \E g : IsSum(g, z, m)}
<1>1. 0 \in T
  <2> DEFINE g == [i \in 0 .. 0 |-> 0]
  <2>1. g = [i \in 0 .. 0 |-> IF i = 0 THEN 0 ELSE g[i - 1] + z[i]]
    OBVIOUS
  <2> QED
    BY <2>1 DEF IsSum
<1>2. ASSUME NEW m \in T PROVE m + 1 \in T
  <2>1. PICK g : IsSum(g, z, m)
    OBVIOUS
  <2> DEFINE h == [i \in 0 .. m + 1 |-> IF i = m + 1 THEN g[m] + z[m + 1] ELSE g[i]]
  <2>2. \A i \in 0 .. m : g[i] = IF i = 0 THEN 0 ELSE g[i - 1] + z[i]
    BY <2>1 DEF IsSum
  <2>3. \A i \in 0 .. m + 1 : h[i] = IF i = 0 THEN 0 ELSE h[i - 1] + z[i]
    BY <2>2
  <2>4. h = [i \in 0 .. m + 1 |-> IF i = 0 THEN 0 ELSE h[i - 1] + z[i]]
    BY <2>3
  <2> HIDE DEF h
  <2>5. IsSum(h, z, m + 1)
    BY <2>4 DEF IsSum
  <2> QED
    BY <2>5
<1> HIDE DEF T
<1>3. T = Nat
  BY <1>1, <1>2, Induction DEF T
<1> QED
  BY <1>3 DEF T

\* Solutions agree as far as both go.
LEMMA SumUnique ==
  ASSUME NEW z, NEW m \in Nat, NEW n \in Nat, m <= n, NEW g, NEW h, IsSum(g, z, m), IsSum(h, z, n)
  PROVE  g[m] = h[m]
<1> DEFINE T == {i \in Nat : i <= m => g[i] = h[i]}
<1>1. \A i \in 0 .. m : g[i] = IF i = 0 THEN 0 ELSE g[i - 1] + z[i]
  BY DEF IsSum
<1>2. \A i \in 0 .. n : h[i] = IF i = 0 THEN 0 ELSE h[i - 1] + z[i]
  BY DEF IsSum
<1>3. 0 \in T
  BY <1>1, <1>2
<1>4. ASSUME NEW i \in T PROVE i + 1 \in T
  BY <1>1, <1>2
<1> HIDE DEF T
<1>5. T = Nat
  BY <1>3, <1>4, Induction DEF T
<1> QED
  BY <1>5 DEF T

\* SumFirst is the last value of one.
LEMMA SumIs ==
  ASSUME NEW z, NEW n \in Nat
  PROVE  \E g : IsSum(g, z, n) /\ SumFirst(z, n) = g[n]
<1> DEFINE g == CHOOSE g : IsSum(g, z, n)
<1>1. IsSum(g, z, n)
  BY SumExists
<1>2. SumFirst(z, n) = g[n]
  BY DEF SumFirst, IsSum
<1> QED
  BY <1>1, <1>2

\* The sum, one number after the other.
LEMMA SumStep ==
  ASSUME NEW z, NEW n \in Nat
  PROVE  SumFirst(z, 0) = 0 /\ SumFirst(z, n + 1) = SumFirst(z, n) + z[n + 1]
<1>1. SumFirst(z, 0) = 0
  BY SumIs DEF IsSum
<1>2. PICK g : IsSum(g, z, n) /\ SumFirst(z, n) = g[n]
  BY SumIs
<1>3. n + 1 \in Nat
  OBVIOUS
<1>4. PICK h : IsSum(h, z, n + 1) /\ SumFirst(z, n + 1) = h[n + 1]
  BY <1>3, SumIs
<1>5. g[n] = h[n]
  BY <1>2, <1>3, <1>4, SumUnique
<1>6. h[n + 1] = h[n] + z[n + 1]
  BY <1>4 DEF IsSum
<1> QED
  BY <1>1, <1>2, <1>4, <1>5, <1>6

\* A sum of natural numbers is one.
LEMMA SumType ==
  ASSUME NEW z, NEW m \in Nat, \A i \in 1 .. m : z[i] \in Nat, NEW n \in 0 .. m
  PROVE  SumFirst(z, n) \in Nat
<1> DEFINE T == {k \in Nat : k <= m => SumFirst(z, k) \in Nat}
<1>1. 0 \in T
  BY SumStep
<1>2. ASSUME NEW k \in T PROVE k + 1 \in T
  <2>1. SumFirst(z, k + 1) = SumFirst(z, k) + z[k + 1]
    BY SumStep
  <2> QED
    BY <2>1
<1> HIDE DEF T
<1>3. T = Nat
  BY <1>1, <1>2, Induction DEF T
<1> QED
  BY <1>3 DEF T

\* The sum of the first k and then of m more, which may stand elsewhere.
LEMMA SumShift ==
  ASSUME NEW z, NEW w, NEW k \in Nat, NEW m \in Nat,
         \A i \in 1 .. k + m : z[i] \in Nat,
         \A i \in 1 .. m : w[i] = z[k + i]
  PROVE  SumFirst(z, k + m) = SumFirst(z, k) + SumFirst(w, m)
<1> DEFINE T == {j \in Nat : j <= m => SumFirst(z, k + j) = SumFirst(z, k) + SumFirst(w, j)}
<1>0. \A j \in 0 .. m : SumFirst(w, j) \in Nat /\ SumFirst(z, k + j) \in Nat
  <2>1. \A i \in 1 .. m : w[i] \in Nat
    OBVIOUS
  <2>2. \A j \in 0 .. m : k + j \in 0 .. k + m /\ k + m \in Nat
    OBVIOUS
  <2> QED
    BY <2>1, <2>2, SumType
<1>1. 0 \in T
  <2>1. SumFirst(w, 0) = 0 /\ k + 0 = k /\ SumFirst(z, k) \in Nat
    BY <1>0, SumStep
  <2> QED
    BY <2>1
<1>2. ASSUME NEW j \in T PROVE j + 1 \in T
  <2>1. SUFFICES ASSUME j + 1 <= m
                 PROVE  SumFirst(z, k + (j + 1)) = SumFirst(z, k) + SumFirst(w, j + 1)
    OBVIOUS
  <2>2. j \in 0 .. m /\ k + j \in Nat /\ j + 1 \in 1 .. m
    BY <2>1
  <2>3. SumFirst(w, j + 1) = SumFirst(w, j) + w[j + 1]
    BY SumStep
  <2>4. SumFirst(z, (k + j) + 1) = SumFirst(z, k + j) + z[(k + j) + 1]
    BY <2>2, SumStep
  <2>5. (k + j) + 1 = k + (j + 1) /\ w[j + 1] = z[k + (j + 1)] /\ z[k + (j + 1)] \in Nat
    BY <2>2
  <2>6. SumFirst(z, k + j) = SumFirst(z, k) + SumFirst(w, j)
    BY <2>2
  <2>7. SumFirst(w, j) \in Nat /\ SumFirst(z, k) \in Nat
    <3>1. 0 \in 0 .. m /\ k + 0 = k
      OBVIOUS
    <3> QED
      BY <1>0, <2>2, <3>1
  <2> QED
    BY <2>3, <2>4, <2>5, <2>6, <2>7
<1> HIDE DEF T
<1>3. T = Nat
  BY <1>1, <1>2, Induction DEF T
<1> QED
  BY <1>3 DEF T

\* Sums of numbers that are no larger.
LEMMA SumCompare ==
  ASSUME NEW z, NEW w, NEW n \in Nat,
         \A i \in 1 .. n : z[i] \in Nat /\ w[i] \in Nat /\ z[i] <= w[i]
  PROVE  SumFirst(z, n) <= SumFirst(w, n)
<1> DEFINE T == {k \in Nat : k <= n => SumFirst(z, k) <= SumFirst(w, k)}
<1>1. \A k \in 0 .. n : SumFirst(z, k) \in Nat /\ SumFirst(w, k) \in Nat
  BY SumType
<1>2. 0 \in T
  BY SumStep
<1>3. ASSUME NEW k \in T PROVE k + 1 \in T
  <2>1. SUFFICES ASSUME k + 1 <= n PROVE SumFirst(z, k + 1) <= SumFirst(w, k + 1)
    OBVIOUS
  <2>2. k \in 0 .. n /\ k + 1 \in 1 .. n
    BY <2>1
  <2>3. SumFirst(z, k + 1) = SumFirst(z, k) + z[k + 1]
    BY SumStep
  <2>4. SumFirst(w, k + 1) = SumFirst(w, k) + w[k + 1]
    BY SumStep
  <2>5. SumFirst(z, k) <= SumFirst(w, k)
    BY <2>2
  <2>6. z[k + 1] \in Nat /\ w[k + 1] \in Nat /\ z[k + 1] <= w[k + 1]
    BY <2>2
  <2>7. SumFirst(z, k) \in Nat /\ SumFirst(w, k) \in Nat
    BY <1>1, <2>2
  <2> QED
    BY <2>3, <2>4, <2>5, <2>6, <2>7
<1> HIDE DEF T
<1>4. T = Nat
  BY <1>2, <1>3, Induction DEF T
<1> QED
  BY <1>4 DEF T

\* A sum of nothing but zeros.
LEMMA SumZero ==
  ASSUME NEW z, NEW n \in Nat, \A i \in 1 .. n : z[i] = 0
  PROVE  SumFirst(z, n) = 0
<1> DEFINE T == {k \in Nat : k <= n => SumFirst(z, k) = 0}
<1>1. 0 \in T
  BY SumStep
<1>2. ASSUME NEW k \in T PROVE k + 1 \in T
  <2>1. SumFirst(z, k + 1) = SumFirst(z, k) + z[k + 1]
    BY SumStep
  <2> QED
    BY <2>1
<1> HIDE DEF T
<1>3. T = Nat
  BY <1>1, <1>2, Induction DEF T
<1> QED
  BY <1>3 DEF T

\* Two sums that differ in one place.
LEMMA SumOneChange ==
  ASSUME NEW z, NEW w, NEW n \in Nat, NEW j \in 1 .. n,
         \A i \in 1 .. n : z[i] \in Nat /\ w[i] \in Nat,
         \A i \in 1 .. n : i # j => z[i] = w[i]
  PROVE  SumFirst(z, n) + w[j] = SumFirst(w, n) + z[j]
<1> DEFINE T == {k \in Nat : k <= n =>
                   /\ k < j => SumFirst(z, k) = SumFirst(w, k)
                   /\ k >= j => SumFirst(z, k) + w[j] = SumFirst(w, k) + z[j]}
<1>1. \A k \in 0 .. n : SumFirst(z, k) \in Nat /\ SumFirst(w, k) \in Nat
  BY SumType
<1>2. 0 \in T
  BY SumStep
<1>3. ASSUME NEW k \in T PROVE k + 1 \in T
  <2>1. SUFFICES ASSUME k + 1 <= n
                 PROVE  /\ k + 1 < j => SumFirst(z, k + 1) = SumFirst(w, k + 1)
                        /\ k + 1 >= j => SumFirst(z, k + 1) + w[j] = SumFirst(w, k + 1) + z[j]
    OBVIOUS
  <2>2. k \in 0 .. n /\ k + 1 \in 1 .. n
    BY <2>1
  <2>3. SumFirst(z, k + 1) = SumFirst(z, k) + z[k + 1]
    BY SumStep
  <2>4. SumFirst(w, k + 1) = SumFirst(w, k) + w[k + 1]
    BY SumStep
  <2>5. /\ k < j => SumFirst(z, k) = SumFirst(w, k)
        /\ k >= j => SumFirst(z, k) + w[j] = SumFirst(w, k) + z[j]
    BY <2>2
  <2>6. z[k + 1] \in Nat /\ w[k + 1] \in Nat /\ (k + 1 # j => z[k + 1] = w[k + 1])
        /\ z[j] \in Nat /\ w[j] \in Nat
    BY <2>2
  <2>7. SumFirst(z, k) \in Nat /\ SumFirst(w, k) \in Nat
    BY <1>1, <2>2
  <2>8. CASE k + 1 < j
    BY <2>3, <2>4, <2>5, <2>6, <2>7, <2>8
  <2>9. CASE k + 1 = j
    BY <2>3, <2>4, <2>5, <2>6, <2>7, <2>9
  <2>10. CASE k + 1 > j
    BY <2>3, <2>4, <2>5, <2>6, <2>7, <2>10
  <2> QED
    BY <2>8, <2>9, <2>10
<1> HIDE DEF T
<1>4. T = Nat
  BY <1>2, <1>3, Induction DEF T
<1>5. n \in T /\ n >= j /\ n <= n
  BY <1>4
<1> QED
  BY <1>5 DEF T

\* A finite set can be enumerated.
LEMMA Enumerated ==
  ASSUME NEW S, IsFiniteSet(S)
  PROVE  /\ Cardinality(S) \in Nat
         /\ Enumeration(S) \in [1 .. Cardinality(S) -> S]
         /\ \A x \in S : \E i \in 1 .. Cardinality(S) : Enumeration(S)[i] = x
         /\ \A i, j \in 1 .. Cardinality(S) : Enumeration(S)[i] = Enumeration(S)[j] => i = j
<1>1. PICK n \in Nat : n = Cardinality(S) /\ ExistsBijection(1 .. n, S)
  BY FS_CardinalityType
<1>2. PICK q \in Bijection(1 .. n, S) : TRUE
  BY <1>1 DEF ExistsBijection
<1>3. /\ q \in [1 .. n -> S]
      /\ \A x \in S : \E i \in 1 .. n : q[i] = x
      /\ \A i, j \in 1 .. n : q[i] = q[j] => i = j
  BY <1>2 DEF Bijection, Injection, Surjection, IsInjective
<1> DEFINE E(r) == /\ \A x \in S : \E i \in 1 .. n : r[i] = x
                   /\ \A i, j \in 1 .. n : r[i] = r[j] => i = j
<1>4. E(q)
  BY <1>3
<1>5. Enumeration(S) = CHOOSE r \in [1 .. n -> S] : E(r)
  BY <1>1 DEF Enumeration
<1> HIDE DEF E
<1>6. Enumeration(S) \in [1 .. n -> S] /\ E(Enumeration(S))
  BY <1>3, <1>4, <1>5
<1> QED
  BY <1>1, <1>6 DEF E

\* The sum over a finite set is a natural number.
LEMMA OverType ==
  ASSUME NEW S, IsFiniteSet(S), NEW f, \A x \in S : f[x] \in Nat
  PROVE  SumOver(f, S) \in Nat
<1>1. PICK n \in Nat : n = Cardinality(S)
  BY Enumerated
<1>2. PICK z : z = [i \in 1 .. n |-> f[Enumeration(S)[i]]]
  OBVIOUS
<1>3. \A i \in 1 .. n : Enumeration(S)[i] \in S
  BY <1>1, Enumerated
<1>4. \A i \in 1 .. n : z[i] \in Nat
  BY <1>2, <1>3
<1>5. SumFirst(z, n) \in Nat
  <2>1. n \in 0 .. n
    OBVIOUS
  <2> QED
    BY <1>4, <2>1, SumType
<1> QED
  BY <1>1, <1>2, <1>5 DEF SumOver

\* It grows with the numbers.
LEMMA OverCompare ==
  ASSUME NEW S, IsFiniteSet(S), NEW f, NEW g,
         \A x \in S : f[x] \in Nat /\ g[x] \in Nat /\ f[x] <= g[x]
  PROVE  SumOver(f, S) <= SumOver(g, S)
<1>1. PICK n \in Nat : n = Cardinality(S)
  BY Enumerated
<1>2. PICK z, w : /\ z = [i \in 1 .. n |-> f[Enumeration(S)[i]]]
                  /\ w = [i \in 1 .. n |-> g[Enumeration(S)[i]]]
  OBVIOUS
<1>3. \A i \in 1 .. n : Enumeration(S)[i] \in S
  BY <1>1, Enumerated
<1>4. \A i \in 1 .. n : z[i] \in Nat /\ w[i] \in Nat /\ z[i] <= w[i]
  BY <1>2, <1>3
<1>5. SumFirst(z, n) <= SumFirst(w, n)
  BY <1>4, SumCompare
<1> QED
  BY <1>1, <1>2, <1>5 DEF SumOver

\* Two that differ in one element.
LEMMA OverOneChange ==
  ASSUME NEW S, IsFiniteSet(S), NEW f, NEW g, NEW x \in S,
         \A y \in S : f[y] \in Nat /\ g[y] \in Nat,
         \A y \in S : y # x => f[y] = g[y]
  PROVE  SumOver(f, S) + g[x] = SumOver(g, S) + f[x]
<1>1. PICK n \in Nat : n = Cardinality(S)
  BY Enumerated
<1>2. PICK z, w : /\ z = [i \in 1 .. n |-> f[Enumeration(S)[i]]]
                  /\ w = [i \in 1 .. n |-> g[Enumeration(S)[i]]]
  OBVIOUS
<1>3. \A i \in 1 .. n : Enumeration(S)[i] \in S
  BY <1>1, Enumerated
<1>4. PICK j \in 1 .. n : Enumeration(S)[j] = x
  BY <1>1, Enumerated
<1>5. \A i \in 1 .. n : i # j => Enumeration(S)[i] # x
  BY <1>1, <1>4, Enumerated
<1>6. \A i \in 1 .. n : z[i] \in Nat /\ w[i] \in Nat
  BY <1>2, <1>3
<1>7. \A i \in 1 .. n : i # j => z[i] = w[i]
  BY <1>2, <1>3, <1>5
<1>8. SumFirst(z, n) + w[j] = SumFirst(w, n) + z[j]
  BY <1>6, <1>7, SumOneChange
<1>9. z[j] = f[x] /\ w[j] = g[x]
  BY <1>2, <1>4
<1> QED
  BY <1>1, <1>2, <1>8, <1>9 DEF SumOver
-----------------------------------------------------------------------------
(***************************************************************************)
(* Byte accounting.                                                        *)
(***************************************************************************)
\* w, of m sizes, begins with what z, of L sizes, holds after its n first ones.
SizesKept(L, n, z, m, w) ==
  /\ L \in Nat /\ n \in 0 .. L /\ m \in Nat
  /\ \A i \in 1 .. L : z[i] \in Nat
  /\ \A i \in 1 .. L - n : w[i] = z[n + i]

\* What is left, in bytes, once the n oldest are gone.
LEMMA BytesLeft ==
  ASSUME NEW L, NEW n, NEW z, NEW m, NEW w, SizesKept(L, n, z, m, w)
  PROVE  /\ SumFirst(z, L) \in Nat /\ SumFirst(z, n) \in Nat /\ SumFirst(w, L - n) \in Nat
         /\ SumFirst(w, L - n) = SumFirst(z, L) - SumFirst(z, n)
<1>1. L \in Nat /\ n \in 0 .. L
  BY DEF SizesKept
<1>2. \A i \in 1 .. L : z[i] \in Nat
  BY DEF SizesKept
<1>3. PICK k \in Nat : k = L - n
  BY <1>1
<1>4. n + k = L /\ n \in Nat
  BY <1>1, <1>3
<1>5. \A i \in 1 .. k : w[i] = z[n + i]
  BY <1>3 DEF SizesKept
<1>6. SumFirst(z, L) = SumFirst(z, n) + SumFirst(w, k)
  BY <1>2, <1>4, <1>5, SumShift
<1>7. SumFirst(z, L) \in Nat /\ SumFirst(z, n) \in Nat
  <2>1. L \in 0 .. L
    BY <1>1
  <2> QED
    BY <1>1, <1>2, <2>1, SumType
<1>8. SumFirst(w, k) \in Nat
  <2>1. \A i \in 1 .. k : w[i] \in Nat
    BY <1>2, <1>4, <1>5
  <2>2. k \in 0 .. k
    OBVIOUS
  <2> QED
    BY <2>1, <2>2, SumType
<1>9. SumFirst(w, k) = SumFirst(z, L) - SumFirst(z, n)
  BY <1>6, <1>7, <1>8
<1> QED
  BY <1>3, <1>7, <1>8, <1>9

\* Every slot holds an entry with a payload length or none.
LEMMA EntrySize ==
  ASSUME RingAssumption, NEW e \in EntryType
  PROVE  e.Size \in Nat
<1>1. CASE e \in [Seq : Seqs, Size : Sizes]
  <2>1. e.Size \in Sizes
    BY <1>1
  <2> QED
    BY <2>1 DEF RingAssumption
<1>2. CASE e = NoEntry
  BY <1>2 DEF NoEntry
<1> QED
  BY <1>1, <1>2 DEF EntryType

\* The sizes of what is live.
LEMMA LiveSizesType ==
  ASSUME RingAssumption, SliceType
  PROVE  /\ Live \in Nat
         /\ \A i \in 1 .. Live : LiveSizes[i] = At(i - 1).Size /\ LiveSizes[i] \in Nat
<1>1. Slots \in Nat /\ Live \in 0 .. Slots - 1
  BY LiveInSlice DEF SliceType
<1>2. ASSUME NEW i \in 1 .. Live PROVE At(i - 1).Size \in Nat
  <2>1. PICK k \in 0 .. Slots - 1 : k = i - 1
    BY <1>1
  <2>2. At(k) \in EntryType
    BY LiveInSlice
  <2>3. At(k).Size \in Nat
    BY <2>2, EntrySize
  <2> QED
    BY <2>1, <2>3
<1> QED
  BY <1>1, <1>2 DEF LiveSizes

\* The sizes after Append: what is kept, then the new entry.
LEMMA SizesAfterStore ==
  ASSUME RingAssumption, SliceType, NEW s \in Seqs, NEW size \in Sizes,
         NEW n \in 0 .. Live, Store([Seq |-> s, Size |-> size], n)
  PROVE  /\ SizesKept(Live, n, LiveSizes, Live', LiveSizes')
         /\ Live' = (Live - n) + 1
         /\ LiveSizes'[(Live - n) + 1] = size
<1> DEFINE entry == [Seq |-> s, Size |-> size]
<1>1. entry \in EntryType /\ entry.Size = size /\ entry.Seq \in Seqs
  BY DEF EntryType
<1> HIDE DEF entry
<1>2. Store(entry, n)
  BY DEF entry
<1>3. /\ Live' = (Live - n) + 1
      /\ \A i \in 0 .. Live - n : At(i)' = IF i < Live - n THEN At(n + i) ELSE entry
  BY <1>1, <1>2, StoreFacts
<1>4. Live \in Nat /\ \A i \in 1 .. Live : LiveSizes[i] = At(i - 1).Size /\ LiveSizes[i] \in Nat
  BY LiveSizesType
<1>5. PICK L \in Nat : L = Live
  BY <1>4
<1>6. LiveSizes' = [i \in 1 .. (L - n) + 1 |-> At(i - 1)'.Size]
  BY <1>3, <1>5 DEF LiveSizes
<1>7. ASSUME NEW i \in 1 .. L - n PROVE LiveSizes'[i] = LiveSizes[n + i]
  <2>1. PICK k \in 0 .. L - n : k = i - 1 /\ k < L - n
    BY <1>5
  <2>2. At(k)' = At(n + k)
    BY <1>3, <1>5, <2>1
  <2>3. n + i \in 1 .. L /\ (n + i) - 1 = n + k /\ i \in 1 .. (L - n) + 1
    BY <1>5, <2>1
  <2>4. LiveSizes'[i] = At(k)'.Size
    BY <1>6, <2>1, <2>3
  <2> QED
    BY <1>4, <1>5, <2>2, <2>3, <2>4
<1>8. LiveSizes'[(L - n) + 1] = size
  <2>1. PICK i \in 1 .. (L - n) + 1 : i = (L - n) + 1
    BY <1>5
  <2>2. PICK k \in 0 .. L - n : k = i - 1 /\ k = L - n
    BY <1>5, <2>1
  <2>3. At(k)' = entry
    BY <1>3, <1>5, <2>2
  <2>4. LiveSizes'[i] = At(k)'.Size
    BY <1>6, <2>2
  <2> QED
    BY <1>1, <2>1, <2>3, <2>4
<1>9. Live' \in Nat
  BY <1>3, <1>5
<1>10. SizesKept(Live, n, LiveSizes, Live', LiveSizes')
  BY <1>4, <1>5, <1>7, <1>9 DEF SizesKept
<1> QED
  BY <1>3, <1>5, <1>8, <1>10

\* The sizes after evictLocked.
LEMMA SizesAfterTrim ==
  ASSUME RingAssumption, SliceType, NEW n \in 0 .. Live, Trim(n), MaxBytes' \in Budgets
  PROVE  /\ SizesKept(Live, n, LiveSizes, Live', LiveSizes')
         /\ Live' = Live - n
<1>1. /\ Live' = Live - n
      /\ \A i \in 0 .. (Live - n) - 1 : At(i)' = At(n + i)
  BY TrimFacts
<1>2. Live \in Nat /\ \A i \in 1 .. Live : LiveSizes[i] = At(i - 1).Size /\ LiveSizes[i] \in Nat
  BY LiveSizesType
<1>3. PICK L \in Nat : L = Live
  BY <1>2
<1>4. LiveSizes' = [i \in 1 .. L - n |-> At(i - 1)'.Size]
  BY <1>1, <1>3 DEF LiveSizes
<1>5. ASSUME NEW i \in 1 .. L - n PROVE LiveSizes'[i] = LiveSizes[n + i]
  <2>1. PICK k \in 0 .. (L - n) - 1 : k = i - 1
    BY <1>3
  <2>2. At(k)' = At(n + k)
    BY <1>1, <1>3, <2>1
  <2>3. n + i \in 1 .. L /\ (n + i) - 1 = n + k
    BY <1>3, <2>1
  <2>4. LiveSizes'[i] = At(k)'.Size
    BY <1>4, <2>1
  <2> QED
    BY <1>2, <1>3, <2>2, <2>3, <2>4
<1>6. Live' \in Nat
  BY <1>1, <1>3
<1> QED
  BY <1>1, <1>2, <1>3, <1>5, <1>6 DEF SizesKept

\* Append accounts for what it evicts and for what it adds.
LEMMA AppendAccounts ==
  ASSUME RingAssumption, SliceType, BytesAccounted, NEW s \in Seqs, NEW size \in Sizes,
         NEW n \in 0 .. Live, Evicts(n, MaxBytes - size), Store([Seq |-> s, Size |-> size], n)
  PROVE  BytesAccounted'
<1>1. PICK L, z, m, w : L = Live /\ z = LiveSizes /\ m = Live' /\ w = LiveSizes'
  OBVIOUS
<1>2. SizesKept(L, n, z, m, w) /\ m = (L - n) + 1 /\ w[(L - n) + 1] = size
  BY <1>1, SizesAfterStore
<1>3. /\ SumFirst(z, L) \in Nat /\ SumFirst(z, n) \in Nat /\ SumFirst(w, L - n) \in Nat
      /\ SumFirst(w, L - n) = SumFirst(z, L) - SumFirst(z, n)
  BY <1>2, BytesLeft
<1>4. PICK k \in Nat : k = L - n
  BY <1>2 DEF SizesKept
<1>5. SumFirst(w, k + 1) = SumFirst(w, k) + w[k + 1]
  BY SumStep
<1>6. size \in Nat /\ MaxBytes \in Nat
  BY DEF RingAssumption, SliceType
<1>7. Bytes = SumFirst(z, L)
  BY <1>1 DEF BytesAccounted, OldestBytes
<1>8. Bytes' = Bytes - SumFirst(z, n) + size /\ MaxBytes' = MaxBytes
  BY <1>1 DEF Store, OldestBytes
<1>9. n = L \/ Bytes - SumFirst(z, n) <= MaxBytes - size
  BY <1>1 DEF Evicts, OldestBytes
<1>10. Bytes' = SumFirst(w, m)
  BY <1>2, <1>3, <1>4, <1>5, <1>6, <1>7, <1>8
<1>11. Bytes' > MaxBytes' => m = 1
  <2>1. n = L => m = 1
    BY <1>2 DEF SizesKept
  <2>2. Bytes - SumFirst(z, n) <= MaxBytes - size => Bytes' <= MaxBytes
    BY <1>3, <1>6, <1>7, <1>8
  <2>3. Bytes' \in Int
    BY <1>3, <1>6, <1>7, <1>8
  <2> QED
    BY <1>6, <1>8, <1>9, <2>1, <2>2, <2>3
<1> QED
  BY <1>1, <1>10, <1>11 DEF BytesAccounted, OldestBytes

\* evictLocked accounts for what it evicts, and leaves no more than the new budget.
LEMMA TrimAccounts ==
  ASSUME RingAssumption, SliceType, BytesAccounted, NEW n \in 0 .. Live, NEW newMax \in Budgets,
         MaxBytes' = newMax, Evicts(n, newMax), Trim(n)
  PROVE  BytesAccounted'
<1>1. PICK L, z, m, w : L = Live /\ z = LiveSizes /\ m = Live' /\ w = LiveSizes'
  OBVIOUS
<1>2. SizesKept(L, n, z, m, w) /\ m = L - n
  BY <1>1, SizesAfterTrim
<1>3. /\ SumFirst(z, L) \in Nat /\ SumFirst(z, n) \in Nat /\ SumFirst(w, L - n) \in Nat
      /\ SumFirst(w, L - n) = SumFirst(z, L) - SumFirst(z, n)
  BY <1>2, BytesLeft
<1>4. newMax \in Nat
  BY DEF RingAssumption
<1>5. Bytes = SumFirst(z, L)
  BY <1>1 DEF BytesAccounted, OldestBytes
<1>6. CASE n = L
  <2>1. Bytes' = 0
    BY <1>1, <1>6 DEF Trim
  <2>2. SumFirst(z, L) - SumFirst(z, n) = 0
    BY <1>3, <1>6
  <2>3. Bytes' = SumFirst(w, m) /\ ~ (Bytes' > newMax)
    BY <1>2, <1>3, <1>4, <2>1, <2>2
  <2> QED
    BY <1>1, <2>3 DEF BytesAccounted, OldestBytes
<1>7. CASE n # L
  <2>1. Bytes' = Bytes - SumFirst(z, n)
    BY <1>1, <1>7 DEF Trim, OldestBytes
  <2>2. Bytes - SumFirst(z, n) <= newMax
    BY <1>1, <1>7 DEF Evicts, OldestBytes
  <2>3. Bytes' = SumFirst(w, m) /\ ~ (Bytes' > newMax)
    BY <1>2, <1>3, <1>4, <1>5, <2>1, <2>2
  <2> QED
    BY <1>1, <2>3 DEF BytesAccounted, OldestBytes
<1> QED
  BY <1>6, <1>7

\* A ring that is left alone, under the same budget or a larger one.
LEMMA AloneAccounts ==
  ASSUME RingAssumption, SliceType, BytesAccounted, MaxBytes' \in Budgets, MaxBytes' >= MaxBytes,
         UNCHANGED <<Entries, head, tail, Bytes>>
  PROVE  BytesAccounted'
<1>1. Slots' = Slots /\ Live' = Live /\ (\A i : At(i)' = At(i))
  BY DEF Slots, Live, At
<1>2. LiveSizes' = LiveSizes
  BY <1>1 DEF LiveSizes
<1>3. Bytes' = SumFirst(LiveSizes', Live')
  BY <1>1, <1>2 DEF BytesAccounted, OldestBytes
<1>4. Bytes \in Nat
  <2>1. Live \in 0 .. Live
    BY LiveSizesType
  <2> QED
    BY <2>1, LiveSizesType, SumType DEF BytesAccounted, OldestBytes
<1>5. MaxBytes \in Nat /\ MaxBytes' \in Nat
  BY DEF RingAssumption, SliceType
<1>6. Bytes' > MaxBytes' => Live' = 1
  BY <1>1, <1>4, <1>5 DEF BytesAccounted
<1> QED
  BY <1>3, <1>6 DEF BytesAccounted, OldestBytes

\* Every step keeps the account.
LEMMA StepAccounts ==
  ASSUME RingAssumption, IInv, BytesAccounted, [Next]_vars
  PROVE  BytesAccounted'
<1>0. SliceType /\ MaxBytes \in Budgets /\ MaxBytes \in Nat
  BY DEF IInv, SliceType, RingAssumption
<1>1. ASSUME NEW s \in (LatestSeq + 1) .. MaxSeq, NEW size \in Sizes,
             AppendEntry([Seq |-> s, Size |-> size])
      PROVE  BytesAccounted'
  <2>1. PICK n \in 0 .. Live : /\ Evicts(n, MaxBytes - size)
                               /\ Store([Seq |-> s, Size |-> size], n)
    BY <1>1 DEF AppendEntry
  <2>2. s \in Seqs
    BY <1>0 DEF SliceType, Seqs, RingAssumption
  <2> QED
    BY <1>0, <2>1, <2>2, AppendAccounts
<1>2. ASSUME NEW b \in Budgets, Shrink(b)
      PROVE  BytesAccounted'
  <2>1. PICK n \in 0 .. Live : Evicts(n, b) /\ Trim(n)
    BY <1>2 DEF Shrink, EvictLocked
  <2>2. MaxBytes' = b
    BY <1>2 DEF Shrink
  <2> QED
    BY <1>0, <2>1, <2>2, TrimAccounts
<1>3. ASSUME NEW b \in Budgets, Grow(b)
      PROVE  BytesAccounted'
  <2>1. MaxBytes' \in Budgets /\ MaxBytes' >= MaxBytes
    BY <1>0, <1>3 DEF Grow, RingAssumption
  <2> QED
    BY <1>0, <1>3, <2>1, AloneAccounts DEF Grow
<1>4. CASE UNCHANGED vars
  <2>1. MaxBytes' \in Budgets /\ MaxBytes' >= MaxBytes
    BY <1>0, <1>4 DEF vars
  <2> QED
    BY <1>0, <1>4, <2>1, AloneAccounts DEF vars
<1> QED
  BY <1>1, <1>2, <1>3, <1>4 DEF Next

\* Bytes is the size of what is live after any number of appends, wrap-arounds,
\* doublings and evictions, and it exceeds the budget only for one oversize entry.
THEOREM BytesAccountedHolds == Spec => []BytesAccounted
<1>1. Init => BytesAccounted
  <2>1. SUFFICES ASSUME Init PROVE BytesAccounted
    OBVIOUS
  <2>2. Live = 0
    BY <2>1, RingAssumption, InitImplements
  <2>3. Bytes = 0 /\ MaxBytes \in Nat
    BY <2>1, RingAssumption DEF Init, NewRingBuffer, RingAssumption
  <2>4. OldestBytes(0) = 0
    BY SumStep DEF OldestBytes
  <2> QED
    BY <2>2, <2>3, <2>4 DEF BytesAccounted
<1>2. IInv /\ BytesAccounted /\ [Next]_vars => BytesAccounted'
  BY RingAssumption, StepAccounts
<1> QED
  BY <1>1, <1>2, InvariantHolds, PTL DEF Spec
-----------------------------------------------------------------------------
(***************************************************************************)
(* The cache budget of GlobalLRU, for any sessions, connections, caps and  *)
(* payload lengths.                                                        *)
(***************************************************************************)
\* The bytes of a ring.
LEMMA RingBytesType ==
  ASSUME Limits, NEW r \in Seq(PayloadSizes)
  PROVE  RingSize(r) \in Nat /\ (r = <<>> => RingSize(r) = 0)
<1>1. Len(r) \in Nat /\ \A i \in 1 .. Len(r) : r[i] \in Nat
  BY ElementOfSeq, LenProperties DEF Limits
<1>4. Len(r) \in 0 .. Len(r)
  BY <1>1
<1>2. SumFirst(r, Len(r)) \in Nat
  BY <1>1, <1>4, SumType
<1>3. r = <<>> => SumFirst(r, Len(r)) = 0
  <2>1. SUFFICES ASSUME r = <<>> PROVE SumFirst(r, 0) = 0
    BY EmptySeq
  <2> QED
    BY SumStep
<1> QED
  BY <1>2, <1>3 DEF RingSize

\* Dropping the oldest entries leaves a ring that holds no more.
LEMMA EvictLess ==
  ASSUME Limits, NEW r \in Seq(PayloadSizes), NEW limit
  PROVE  /\ EvictTo(r, limit) \in Seq(PayloadSizes)
         /\ RingSize(EvictTo(r, limit)) <= RingSize(r)
<1> DEFINE N == Len(r)
           fits == {n \in 0 .. Len(r) : n = Len(r) \/ RingSize(SubSeq(r, n + 1, Len(r))) <= limit}
           least == CHOOSE n \in fits : \A m \in fits : n <= m
<1>1. N \in Nat /\ \A i \in 1 .. N : r[i] \in Nat
  BY ElementOfSeq, LenProperties DEF Limits
<1>2. least \in 0 .. N
  <2>1. fits \subseteq Nat /\ N \in fits /\ fits \subseteq 0 .. N
    BY <1>1
  <2> HIDE DEF fits
  <2>2. \E n \in fits : \A m \in fits : n <= m
    BY <2>1, LeastNumber
  <2> QED
    BY <2>1, <2>2
<1>3. EvictTo(r, limit) = SubSeq(r, least + 1, N)
  BY DEF EvictTo
<1> HIDE DEF N, fits, least
<1>4. PICK k \in 0 .. N : k = least
  BY <1>2
<1>5. PICK e : e = SubSeq(r, k + 1, N)
  OBVIOUS
<1>6. /\ e \in Seq(PayloadSizes) /\ Len(e) = N - k
      /\ \A i \in 1 .. N - k : e[i] = r[k + i]
  <2>1. \A i \in k + 1 .. N : r[i] \in PayloadSizes
    BY <1>1, ElementOfSeq DEF N
  <2>2. k + 1 \in Int /\ N \in Int
    BY <1>1
  <2>3. /\ SubSeq(r, k + 1, N) \in Seq(PayloadSizes)
        /\ Len(SubSeq(r, k + 1, N)) = IF k + 1 <= N THEN N - (k + 1) + 1 ELSE 0
        /\ \A i \in 1 .. N - (k + 1) + 1 : SubSeq(r, k + 1, N)[i] = r[(k + 1) + i - 1]
    BY <2>1, <2>2, SubSeqProperties
  <2> QED
    BY <1>1, <1>5, <2>3
<1>7. SizesKept(N, k, r, N - k, e)
  BY <1>1, <1>6 DEF SizesKept
<1>8. /\ SumFirst(r, N) \in Nat /\ SumFirst(r, k) \in Nat /\ SumFirst(e, N - k) \in Nat
      /\ SumFirst(e, N - k) = SumFirst(r, N) - SumFirst(r, k)
  BY <1>7, BytesLeft
<1>9. RingSize(e) = SumFirst(e, N - k) /\ RingSize(r) = SumFirst(r, N)
  BY <1>6 DEF RingSize, N
<1> QED
  BY <1>3, <1>4, <1>5, <1>6, <1>8, <1>9

\* The bytes b of the rings, added up over the sessions of S.
Mask(b, S) == [s \in Sessions |-> IF s \in S THEN b[s] ELSE 0]
Held(b, S) == SumOver(Mask(b, S), Sessions)

\* Bytes are numbers.
LEMMA HeldType ==
  ASSUME Limits, NEW b \in [Sessions -> Nat], NEW S
  PROVE  /\ IsFiniteSet(Sessions)
         /\ \A s \in Sessions : Mask(b, S)[s] \in Nat
         /\ Held(b, S) \in Nat
<1>1. IsFiniteSet(Sessions)
  BY DEF Limits
<1>2. \A s \in Sessions : Mask(b, S)[s] \in Nat
  BY DEF Mask
<1> QED
  BY <1>1, <1>2, OverType DEF Held

\* No rings hold nothing.
LEMMA HeldNothing ==
  ASSUME Limits, NEW b \in [Sessions -> Nat]
  PROVE  Held(b, {}) = 0
<1>1. IsFiniteSet(Sessions)
  BY HeldType
<1>2. PICK n \in Nat : n = Cardinality(Sessions)
  BY <1>1, Enumerated
<1>3. PICK z : z = [i \in 1 .. n |-> Mask(b, {})[Enumeration(Sessions)[i]]]
  OBVIOUS
<1>4. \A i \in 1 .. n : Enumeration(Sessions)[i] \in Sessions
  BY <1>1, <1>2, Enumerated
<1>5. \A i \in 1 .. n : z[i] = 0
  BY <1>3, <1>4 DEF Mask
<1>6. SumFirst(z, n) = 0
  BY <1>5, SumZero
<1> QED
  BY <1>2, <1>3, <1>6 DEF Held, SumOver

\* One ring after the other.
LEMMA HeldTake ==
  ASSUME Limits, NEW b \in [Sessions -> Nat], NEW S, NEW s \in Sessions, s \in S
  PROVE  Held(b, S) = b[s] + Held(b, S \ {s})
<1>1. PICK f, g : f = Mask(b, S) /\ g = Mask(b, S \ {s})
  OBVIOUS
<1>2. \A y \in Sessions : f[y] \in Nat /\ g[y] \in Nat
  BY <1>1, HeldType
<1>3. \A y \in Sessions : y # s => f[y] = g[y]
  BY <1>1 DEF Mask
<1>4. f[s] = b[s] /\ g[s] = 0
  BY <1>1 DEF Mask
<1>5. SumOver(f, Sessions) + g[s] = SumOver(g, Sessions) + f[s]
  BY <1>2, <1>3, HeldType, OverOneChange
<1>6. SumOver(f, Sessions) = Held(b, S) /\ SumOver(g, Sessions) = Held(b, S \ {s})
  BY <1>1 DEF Held
<1>7. Held(b, S) \in Nat /\ Held(b, S \ {s}) \in Nat /\ b[s] \in Nat
  BY HeldType
<1> QED
  BY <1>4, <1>5, <1>6, <1>7

\* More rings, or rings that hold more.
LEMMA HeldMore ==
  ASSUME Limits, NEW b \in [Sessions -> Nat], NEW c \in [Sessions -> Nat], NEW S, NEW T,
         \A s \in Sessions : s \in S /\ b[s] # 0 => s \in T /\ b[s] <= c[s]
  PROVE  Held(b, S) <= Held(c, T)
<1>1. PICK f, g : f = Mask(b, S) /\ g = Mask(c, T)
  OBVIOUS
<1>2. \A y \in Sessions : f[y] \in Nat /\ g[y] \in Nat
  BY <1>1, HeldType
<1>3. \A y \in Sessions : f[y] <= g[y]
  <2>1. TAKE y \in Sessions
  <2>2. CASE y \in S /\ b[y] # 0
    BY <1>1, <2>2 DEF Mask
  <2>3. CASE ~ (y \in S /\ b[y] # 0)
    <3>1. f[y] = 0
      BY <1>1, <2>3 DEF Mask
    <3> QED
      BY <1>2, <3>1
  <2> QED
    BY <2>2, <2>3
<1>4. SumOver(f, Sessions) <= SumOver(g, Sessions)
  BY <1>2, <1>3, HeldType, OverCompare
<1> QED
  BY <1>1, <1>4 DEF Held

\* c is b but for the ring of s, which holds no more.
Evicted(b, c, s) ==
  /\ b \in [Sessions -> Nat] /\ c \in [Sessions -> Nat] /\ s \in Sessions
  /\ c[s] <= b[s]
  /\ \A y \in Sessions : y # s => c[y] = b[y]

\* Excess, Covers and WillSee of GlobalLRU, of the registered sessions R, the bytes b of
\* their rings and what a connection knows, P.
Over(R, b, E) == Held(b, R) > TotalCap /\ \E s \in R : ~E[s] /\ b[s] > FloorCap

CoversAll(P, R, b) == \A s \in R : b[s] = 0 \/ s \in P.items

Sees(P, R, b) ==
  \/ P.at \in {"stamp", "items"}
  \/ P.at = "grow" /\ CoversAll(P, R, b)
  \/ /\ P.at = "sum" /\ CoversAll(P, R, b)
     /\ P.total >= Held(b, R \ P.todo)
  \/ /\ P.at = "find" /\ CoversAll(P, R, b)
     /\ \/ P.best # NoSession
        \/ \A s \in P.items \ (P.todo \cup P.ended) : b[s] <= FloorCap

\* What P has copied of the sessions.
Copied(P, R, E) ==
  /\ R \subseteq Sessions
  /\ P.total \in Nat
  /\ P.items \subseteq Sessions
  /\ \A s \in P.ended : E[s]

\* A connection that starts to sum sees what its snapshot covers.
LEMMA SumsAgain ==
  ASSUME Limits, NEW b \in [Sessions -> Nat], NEW P, NEW R, R \subseteq Sessions,
         P.at = "sum", P.total = 0, P.todo = P.items, CoversAll(P, R, b)
  PROVE  Sees(P, R, b)
<1>1. Held(b, R \ P.todo) <= Held(b, {})
  <2>1. \A s \in Sessions : s \in R \ P.todo /\ b[s] # 0 => s \in {} /\ b[s] <= b[s]
    BY DEF CoversAll
  <2> QED
    BY <2>1, HeldMore
<1>2. Held(b, {}) = 0 /\ Held(b, R \ P.todo) \in Nat
  BY HeldNothing, HeldType
<1>3. P.total >= Held(b, R \ P.todo)
  BY <1>1, <1>2
<1> QED
  BY <1>3 DEF Sees

\* The eviction of another connection hides nothing.
LEMMA SeesEvicted ==
  ASSUME Limits, NEW b, NEW c, NEW s, Evicted(b, c, s), NEW P, NEW R, NEW E,
         Copied(P, R, E), Sees(P, R, b)
  PROVE  Sees(P, R, c)
<1>1. b \in [Sessions -> Nat] /\ c \in [Sessions -> Nat] /\ R \subseteq Sessions
      /\ P.total \in Nat /\ P.items \subseteq Sessions
  BY DEF Evicted, Copied
<1>2. \A y \in Sessions : c[y] \in Nat /\ b[y] \in Nat /\ c[y] <= b[y]
  BY <1>1 DEF Evicted
<1>3. CoversAll(P, R, b) => CoversAll(P, R, c)
  BY <1>1, <1>2 DEF CoversAll
<1>4. CASE P.at = "sum"
  <2>1. CoversAll(P, R, b) /\ P.total >= Held(b, R \ P.todo)
    BY <1>4 DEF Sees
  <2>2. Held(c, R \ P.todo) <= Held(b, R \ P.todo)
    BY <1>1, <1>2, HeldMore
  <2>3. Held(b, R \ P.todo) \in Nat /\ Held(c, R \ P.todo) \in Nat
    BY <1>1, HeldType
  <2>4. P.total >= Held(c, R \ P.todo)
    BY <1>1, <2>1, <2>2, <2>3
  <2> QED
    BY <1>3, <1>4, <2>1, <2>4 DEF Sees
<1>5. CASE P.at = "find"
  <2>1. /\ CoversAll(P, R, b)
        /\ \/ P.best # NoSession
           \/ \A y \in P.items \ (P.todo \cup P.ended) : b[y] <= FloorCap
    BY <1>5 DEF Sees
  <2>2. ASSUME \A y \in P.items \ (P.todo \cup P.ended) : b[y] <= FloorCap
        PROVE  \A y \in P.items \ (P.todo \cup P.ended) : c[y] <= FloorCap
    <3>1. FloorCap \in Nat
      BY DEF Limits
    <3>2. TAKE y \in P.items \ (P.todo \cup P.ended)
    <3>3. b[y] <= FloorCap /\ c[y] \in Nat /\ b[y] \in Nat /\ c[y] <= b[y]
      BY <1>1, <1>2, <2>2
    <3> QED
      BY <3>1, <3>3
  <2> QED
    BY <1>3, <1>5, <2>1, <2>2 DEF Sees
<1>6. CASE P.at \notin {"sum", "find"}
  BY <1>3, <1>6 DEF Sees
<1> QED
  BY <1>4, <1>5, <1>6

\* Nor does it make an excess.
LEMMA OverEvicted ==
  ASSUME Limits, NEW b, NEW c, NEW s, Evicted(b, c, s), NEW R, NEW E, R \subseteq Sessions,
         Over(R, c, E)
  PROVE  Over(R, b, E)
<1>1. b \in [Sessions -> Nat] /\ c \in [Sessions -> Nat]
  BY DEF Evicted
<1>2. \A y \in Sessions : c[y] \in Nat /\ b[y] \in Nat /\ c[y] <= b[y]
  BY <1>1 DEF Evicted
<1>3. Held(c, R) <= Held(b, R) /\ Held(c, R) \in Nat /\ Held(b, R) \in Nat
  BY <1>1, <1>2, HeldMore, HeldType
<1>4. TotalCap \in Nat /\ FloorCap \in Nat
  BY DEF Limits
<1>5. Held(c, R) > TotalCap
  BY DEF Over
<1>6. Held(b, R) > TotalCap
  BY <1>3, <1>4, <1>5
<1>7. PICK y \in R : ~E[y] /\ c[y] > FloorCap
  BY DEF Over
<1>8. c[y] \in Nat /\ b[y] \in Nat /\ c[y] <= b[y]
  BY <1>2
<1>9. b[y] > FloorCap
  BY <1>4, <1>7, <1>8
<1> QED
  BY <1>6, <1>7, <1>9 DEF Over

\* A sum that stays within the cap, and a search that finds no candidate, mean that there
\* is no excess.
LEMMA NothingOver ==
  ASSUME Limits, NEW b \in [Sessions -> Nat], NEW P, NEW R, NEW E, Copied(P, R, E),
         Sees(P, R, b), P.todo = {},
         \/ P.at = "sum" /\ P.total <= TotalCap
         \/ P.at = "find" /\ P.best = NoSession
  PROVE  ~Over(R, b, E)
<1>1. TotalCap \in Nat /\ FloorCap \in Nat
  BY DEF Limits
<1>2. CASE P.at = "sum" /\ P.total <= TotalCap
  <2>1. R \ P.todo = R /\ P.total >= Held(b, R \ P.todo)
    BY <1>2 DEF Sees
  <2>2. Held(b, R) \in Nat /\ P.total \in Nat
    BY HeldType DEF Copied
  <2>3. ~ (Held(b, R) > TotalCap)
    BY <1>1, <1>2, <2>1, <2>2
  <2> QED
    BY <2>3 DEF Over
<1>3. CASE P.at = "find" /\ P.best = NoSession
  <2>1. /\ CoversAll(P, R, b)
        /\ \A s \in P.items \ P.ended : b[s] <= FloorCap
    BY <1>3 DEF Sees
  <2>2. ASSUME NEW s \in R, ~E[s], b[s] > FloorCap PROVE FALSE
    <3>1. b[s] \in Nat
      BY DEF Copied
    <3>2. b[s] # 0 /\ ~ (b[s] <= FloorCap)
      BY <1>1, <2>2, <3>1
    <3>3. s \in P.items
      BY <2>1, <3>2 DEF CoversAll
    <3>4. s \notin P.ended
      BY <2>2 DEF Copied
    <3> QED
      BY <2>1, <3>2, <3>3, <3>4
  <2> QED
    BY <2>2 DEF Over
<1> QED
  BY <1>2, <1>3

\* The bytes of every ring.
RingBytes == [s \in Sessions |-> RingSize(ring[s])]

\* The state in the terms of the lemmas above.
LEMMA SeesNow ==
  ASSUME Limits, TypeOK
  PROVE  /\ RingBytes \in [Sessions -> Nat]
         /\ Registered \subseteq Sessions
         /\ TotalBytes = Held(RingBytes, Registered)
         /\ Excess <=> Over(Registered, RingBytes, Ended)
         /\ Snapshots => \A p \in Publishers :
              WillSee(p) <=> Sees(pub[p], Registered, RingBytes)
<1>1. RingBytes \in [Sessions -> Nat]
  BY RingBytesType DEF TypeOK, RingBytes
<1>2. Registered \subseteq Sessions
  BY DEF Registered
<1>3. ASSUME NEW S PROVE BytesOf(S) = Held(RingBytes, S)
  <2>1. [s \in Sessions |-> IF s \in S THEN RingSize(ring[s]) ELSE 0] = Mask(RingBytes, S)
    BY DEF Mask, RingBytes
  <2> QED
    BY <2>1 DEF BytesOf, Held
<1>4. \A s \in Sessions : RingSize(ring[s]) = RingBytes[s]
  BY DEF RingBytes
<1>5. TotalBytes = Held(RingBytes, Registered)
  BY <1>3 DEF TotalBytes
<1>6. Excess <=> Over(Registered, RingBytes, Ended)
  BY <1>2, <1>4, <1>5 DEF Excess, Over
<1>7. ASSUME Snapshots, NEW p \in Publishers
      PROVE  WillSee(p) <=> Sees(pub[p], Registered, RingBytes)
  <2>1. pub[p].items \subseteq Sessions
    BY <1>7 DEF Snapshots, Made
  <2>2. Covers(p) <=> CoversAll(pub[p], Registered, RingBytes)
    BY <1>2, <1>4 DEF Covers, CoversAll
  <2>3. BytesOf(Registered \ pub[p].todo) = Held(RingBytes, Registered \ pub[p].todo)
    BY <1>3
  <2>4. (\A s \in pub[p].items \ (pub[p].todo \cup pub[p].ended) :
           RingSize(ring[s]) <= FloorCap) <=>
        (\A s \in pub[p].items \ (pub[p].todo \cup pub[p].ended) :
           RingBytes[s] <= FloorCap)
    BY <1>4, <2>1
  <2> QED
    BY <1>5, <2>2, <2>3, <2>4 DEF WillSee, Sees
<1> QED
  BY <1>1, <1>2, <1>5, <1>6, <1>7

\* And in the next state.
LEMMA SeesNext ==
  ASSUME Limits, TypeOK', Snapshots',
         Over(Registered', RingBytes', Ended') =>
           \E p \in Publishers : Sees(pub'[p], Registered', RingBytes')
  PROVE  LRUInv'
<1>1. Registered' \subseteq Sessions
  BY DEF Registered
<1>2. ASSUME NEW S PROVE SumOver([s \in Sessions |-> IF s \in S THEN RingSize(ring'[s]) ELSE 0], Sessions)
                         = Held(RingBytes', S)
  <2>1. [s \in Sessions |-> IF s \in S THEN RingSize(ring'[s]) ELSE 0] = Mask(RingBytes', S)
    BY DEF Mask, RingBytes
  <2> QED
    BY <2>1 DEF Held
<1>3. \A s \in Sessions : RingSize(ring'[s]) = RingBytes'[s]
  BY DEF RingBytes
<1>4. TotalBytes' = Held(RingBytes', Registered')
  BY <1>2 DEF TotalBytes, BytesOf
<1>5. Excess' => Over(Registered', RingBytes', Ended')
  BY <1>1, <1>3, <1>4 DEF Excess, Over
<1>6. ASSUME NEW p \in Publishers, Sees(pub'[p], Registered', RingBytes')
      PROVE  WillSee(p)'
  <2>1. pub'[p].items \subseteq Sessions
    BY DEF Snapshots, Made
  <2>2. Covers(p)' <=> CoversAll(pub'[p], Registered', RingBytes')
    BY <1>1, <1>3 DEF Covers, CoversAll
  <2>3. BytesOf(Registered \ pub[p].todo)' = Held(RingBytes', Registered' \ pub'[p].todo)
    BY <1>2 DEF BytesOf
  <2>4. (\A s \in pub'[p].items \ (pub'[p].todo \cup pub'[p].ended) :
           RingSize(ring'[s]) <= FloorCap) <=>
        (\A s \in pub'[p].items \ (pub'[p].todo \cup pub'[p].ended) :
           RingBytes'[s] <= FloorCap)
    BY <1>3, <2>1
  <2> QED
    BY <1>4, <1>6, <2>2, <2>3, <2>4 DEF WillSee, Sees
<1> QED
  BY <1>5, <1>6 DEF LRUInv

\* What Snapshots says of one connection, M being the Sessions made.
Snapshot(P, M, E) ==
  /\ P.at \in {"found", "stamp", "items", "grow"} => P.session \in M
  /\ P.items \subseteq M
  /\ P.todo \subseteq P.items
  /\ P.best \in P.items \cup {NoSession}
  /\ P.best # NoSession => P.at = "find"
  /\ \A s \in P.ended : E[s]

\* It is kept as sessions are registered and end.
LEMMA SnapshotKept ==
  ASSUME NEW P, NEW M, NEW E, NEW S, NEW F, Snapshot(P, M, E), M \subseteq S,
         \A s \in P.ended : E[s] => F[s]
  PROVE  Snapshot(P, S, F)
BY DEF Snapshot

\* Snapshots, connection by connection.
LEMMA SnapshotsNow ==
  Snapshots <=> /\ \A s \in Sessions \ Made : ring[s] = <<>>
                /\ \A p \in Publishers : Snapshot(pub[p], Made, Ended)
BY DEF Snapshots, Snapshot

\* The same in the next state.
LEMMA SnapshotsNext ==
  ASSUME \A s \in Sessions \ Made' : ring'[s] = <<>>,
         \A p \in Publishers : Snapshot(pub'[p], Made', Ended')
  PROVE  Snapshots'
BY DEF Snapshots, Snapshot

\* What is copied by a connection, from the invariant.
LEMMA CopiedNow ==
  ASSUME Limits, LRUInv, NEW p \in Publishers
  PROVE  /\ pub[p] \in PubType
         /\ Snapshot(pub[p], Made, Ended)
         /\ Copied(pub[p], Registered, Ended)
<1>1. pub[p] \in PubType
  BY DEF LRUInv, TypeOK
<1>2. pub[p].total \in Nat
  BY <1>1 DEF PubType
<1>3. Snapshot(pub[p], Made, Ended)
  BY SnapshotsNow DEF LRUInv
<1>4. Registered \subseteq Sessions /\ Made \subseteq Sessions
  BY DEF Registered, Made
<1> QED
  BY <1>1, <1>2, <1>3, <1>4 DEF Snapshot, Copied

\* A step that changes what connection q knows, N, and no ring.
LEMMA PubStep ==
  ASSUME Limits, LRUInv, NEW q \in Publishers, NEW N \in PubType,
         pub' = [pub EXCEPT ![q] = N],
         UNCHANGED <<registered, ring, Ended, changes>>, appends' \in 0 .. MaxAppends,
         RingMaxBytes' \in [Sessions -> Nat],
         older' \in SUBSET (SessionIDs \X SessionIDs),
         Snapshot(N, Made, Ended),
         /\ Sees(pub[q], Registered, RingBytes)
         /\ Over(Registered, RingBytes, Ended)
         => Sees(N, Registered, RingBytes)
  PROVE  LRUInv'
<1>1. TypeOK /\ Snapshots
  BY DEF LRUInv
<1>2. TypeOK'
  BY <1>1 DEF TypeOK
<1>3. pub'[q] = N /\ \A p \in Publishers : p # q => pub'[p] = pub[p]
  BY <1>1 DEF TypeOK
<1>7. Made' = Made /\ Registered' = Registered
  BY DEF Made, Registered
<1>4. Snapshots'
  <2>1. \A s \in Sessions \ Made' : ring'[s] = <<>>
    BY <1>1, <1>7, SnapshotsNow
  <2>2. \A p \in Publishers : Snapshot(pub'[p], Made', Ended')
    BY <1>1, <1>3, <1>7, SnapshotsNow
  <2> QED
    BY <2>1, <2>2, SnapshotsNext
<1>5. RingBytes' = RingBytes
  BY DEF RingBytes
<1>6. ASSUME Over(Registered', RingBytes', Ended')
      PROVE  \E p \in Publishers : Sees(pub'[p], Registered', RingBytes')
  <2>1. Over(Registered, RingBytes, Ended)
    BY <1>5, <1>6, <1>7
  <2>2. PICK p \in Publishers : Sees(pub[p], Registered, RingBytes)
    BY <1>1, <2>1, SeesNow DEF LRUInv
  <2>3. Sees(pub'[p], Registered, RingBytes)
    BY <1>3, <2>1, <2>2
  <2> QED
    BY <1>5, <1>7, <2>3
<1> QED
  BY <1>2, <1>4, <1>6, SeesNext

\* The part of a step of q that is common to the steps of BalanceGlobalLRU.
LEMMA NothingTouched ==
  ASSUME LRUInv
  PROVE  /\ UNCHANGED older => older' \in SUBSET (SessionIDs \X SessionIDs)
         /\ UNCHANGED RingMaxBytes => RingMaxBytes' \in [Sessions -> Nat]
         /\ UNCHANGED appends => appends' \in 0 .. MaxAppends
BY DEF LRUInv, TypeOK

\* A touch is a pair of ids.
LEMMA TouchedType ==
  ASSUME older \in SUBSET (SessionIDs \X SessionIDs), NEW s \in Sessions
  PROVE  Touched(s[1]) \in SUBSET (SessionIDs \X SessionIDs)
<1>1. s[1] \in SessionIDs
  BY DEF Sessions
<1> QED
  BY <1>1 DEF Touched

\* The registry holds Sessions that were made.
LEMMA RegisteredMade ==
  ASSUME TypeOK, Limits
  PROVE  Registered \subseteq Made
<1>1. \A s \in Sessions : s[1] \in SessionIDs /\ registered[s[1]] \in Nat
  BY DEF TypeOK, Sessions, Limits
<1> QED
  BY <1>1 DEF Registered, Made

\* Registry.Publish stamps LastTouched and copies the sessions.
LEMMA StampKeeps ==
  ASSUME Limits, LRUInv, NEW q \in Publishers, StampLastTouched(q)
  PROVE  LRUInv'
<1> DEFINE P == pub[q]
           N == [P EXCEPT !.at = "items"]
<1>1. P \in PubType /\ Snapshot(P, Made, Ended) /\ P.at = "stamp"
  BY CopiedNow DEF StampLastTouched
<1>2. N \in PubType /\ N.at = "items"
      /\ N.session = P.session /\ N.items = P.items /\ N.todo = P.todo
      /\ N.best = P.best /\ N.ended = P.ended
  BY <1>1 DEF PubType, Steps
<1>3. pub' = [pub EXCEPT ![q] = N]
      /\ UNCHANGED <<registered, ring, RingMaxBytes, Ended, appends, changes>>
  BY DEF StampLastTouched
<1>4. older' \in {Touched(P.session[1]), older} /\ P.session \in Sessions
  BY <1>1 DEF StampLastTouched, Snapshot, Made
<1> HIDE DEF N, P
<1>5. older' \in SUBSET (SessionIDs \X SessionIDs)
  BY <1>4, TouchedType DEF LRUInv, TypeOK
<1>6. RingMaxBytes' \in [Sessions -> Nat] /\ appends' \in 0 .. MaxAppends
  BY <1>3 DEF LRUInv, TypeOK
<1>7. Snapshot(N, Made, Ended)
  BY <1>1, <1>2 DEF Snapshot
<1>8. Sees(N, Registered, RingBytes)
  BY <1>2 DEF Sees
<1> QED
  BY <1>2, <1>3, <1>5, <1>6, <1>7, <1>8, PubStep

\* Registry.Publish looks a session up and holds nothing yet.
LEMMA GetKeeps ==
  ASSUME Limits, LRUInv, NEW q \in Publishers, NEW s \in Sessions, GetSession(q, s)
  PROVE  LRUInv'
<1> DEFINE P == pub[q]
           N == [P EXCEPT !.at = "found", !.session = s]
<1>1. P \in PubType /\ Snapshot(P, Made, Ended) /\ P.at = "idle" /\ s \in Made
  BY CopiedNow, RegisteredMade DEF GetSession, LRUInv
<1>2. N \in PubType /\ N.at = "found" /\ N.session = s
      /\ N.items = P.items /\ N.todo = P.todo /\ N.best = P.best /\ N.ended = P.ended
  BY <1>1 DEF PubType, Steps
<1>3. pub' = [pub EXCEPT ![q] = N]
      /\ UNCHANGED <<registered, ring, RingMaxBytes, Ended, older, changes>>
  BY DEF GetSession
<1>4. appends' \in 0 .. MaxAppends
  BY DEF GetSession, LRUInv, TypeOK, Limits
<1> HIDE DEF N, P
<1>7. Snapshot(N, Made, Ended)
  BY <1>1, <1>2 DEF Snapshot
<1>8. ~Sees(P, Registered, RingBytes)
  BY <1>1 DEF Sees
<1> QED
  BY <1>2, <1>3, <1>4, <1>7, <1>8, NothingTouched, PubStep DEF P

\* LRUItems: the snapshot holds every session that is registered.
LEMMA ItemsKeeps ==
  ASSUME Limits, LRUInv, NEW q \in Publishers, LRUItems(q)
  PROVE  LRUInv'
<1> DEFINE P == pub[q]
           R == Registered
           D == {s \in Registered : Ended[s]}
           N == [P EXCEPT !.at = "grow", !.items = R, !.ended = D, !.older = older, !.todo = R]
<1>1. P \in PubType /\ Snapshot(P, Made, Ended) /\ P.at = "items"
  BY CopiedNow DEF LRUItems
<1>2. R \subseteq Sessions /\ D \subseteq Sessions /\ R \subseteq Made
      /\ older \in SUBSET (SessionIDs \X SessionIDs)
  BY RegisteredMade DEF LRUInv, TypeOK, Registered
<1>3. pub' = [pub EXCEPT ![q] = N] /\ UNCHANGED <<registered, ring, RingMaxBytes, Ended, older, appends, changes>>
  BY DEF LRUItems
<1>4. \A s \in D : Ended[s]
  OBVIOUS
<1> HIDE DEF D, R
<1>5. N \in PubType /\ N.at = "grow"
      /\ N.session = P.session /\ N.items = R /\ N.todo = R
      /\ N.best = P.best /\ N.ended = D
  BY <1>1, <1>2 DEF PubType, Steps
<1> HIDE DEF N, P
<1>6. Snapshot(N, Made, Ended)
  BY <1>1, <1>2, <1>4, <1>5 DEF Snapshot, R
<1>7. Sees(N, R, RingBytes)
  BY <1>2, <1>5 DEF Sees, CoversAll
<1>8. RingMaxBytes' \in [Sessions -> Nat]
  BY <1>3 DEF LRUInv, TypeOK
<1> QED
  BY <1>3, <1>5, <1>6, <1>7, <1>8, NothingTouched, PubStep DEF R

\* One ring is added to the total: what is read and what is left come to the same.
LEMMA AddKeeps ==
  ASSUME Limits, LRUInv, NEW q \in Publishers, NEW s \in Sessions, AddBytes(q, s)
  PROVE  LRUInv'
<1> DEFINE P == pub[q]
           R == Registered
           x == RingSize(ring[s])
           t == pub[q].total + x
           N == [P EXCEPT !.todo = pub[q].todo \ {s}, !.total = t]
<1>1. P \in PubType /\ Snapshot(P, Made, Ended) /\ Copied(P, R, Ended)
      /\ P.at \in {"grow", "sum"} /\ s \in P.todo
  BY CopiedNow DEF AddBytes
<1>2. RingBytes \in [Sessions -> Nat] /\ x = RingBytes[s] /\ x \in Nat
  BY SeesNow DEF LRUInv, RingBytes
<1>3. pub' = [pub EXCEPT ![q] = N] /\ UNCHANGED <<registered, ring, RingMaxBytes, Ended, older, appends, changes>>
  BY DEF AddBytes
<1>8. P.total \in Nat /\ t = P.total + x
  BY <1>1 DEF PubType
<1>9. t \in Nat
  BY <1>2, <1>8
<1> HIDE DEF x, R, t
<1>4. N \in PubType /\ N.at = P.at
      /\ N.session = P.session /\ N.items = P.items /\ N.todo = P.todo \ {s}
      /\ N.best = P.best /\ N.ended = P.ended /\ N.total = t
  BY <1>1, <1>9 DEF PubType
<1> HIDE DEF N, P
<1>5. Snapshot(N, Made, Ended)
  BY <1>1, <1>4 DEF Snapshot
<1>6. ASSUME Sees(P, R, RingBytes) PROVE Sees(N, R, RingBytes)
  <2>1. CoversAll(P, R, RingBytes)
    BY <1>1, <1>6 DEF Sees
  <2>2. CoversAll(N, R, RingBytes)
    BY <1>4, <2>1 DEF CoversAll
  <2>3. CASE P.at = "grow"
    BY <1>4, <2>2, <2>3 DEF Sees
  <2>4. CASE P.at = "sum"
    <3>1. P.total >= Held(RingBytes, R \ P.todo)
      BY <1>6, <2>4 DEF Sees
    <3>3. Held(RingBytes, R \ P.todo) \in Nat /\ Held(RingBytes, R \ N.todo) \in Nat
      BY <1>2, HeldType
    <3>2. Held(RingBytes, R \ N.todo) <= x + Held(RingBytes, R \ P.todo)
      <4>1. CASE s \in R
        <5>1. s \in R \ N.todo /\ (R \ N.todo) \ {s} = R \ P.todo
          BY <1>1, <1>4, <4>1
        <5>2. Held(RingBytes, R \ N.todo) = RingBytes[s] + Held(RingBytes, (R \ N.todo) \ {s})
          BY <1>2, <5>1, HeldTake
        <5>3. Held(RingBytes, R \ N.todo) = x + Held(RingBytes, R \ P.todo)
          BY <1>2, <5>1, <5>2
        <5> QED
          BY <1>2, <3>3, <5>3
      <4>2. CASE s \notin R
        <5>1. R \ N.todo = R \ P.todo
          BY <1>4, <4>2
        <5> QED
          BY <1>2, <3>3, <5>1
      <4> QED
        BY <4>1, <4>2
    <3>4. N.total >= Held(RingBytes, R \ N.todo)
      BY <1>2, <1>4, <1>8, <3>1, <3>2, <3>3
    <3> QED
      BY <1>4, <2>2, <2>4, <3>4 DEF Sees
  <2> QED
    BY <1>1, <2>3, <2>4
<1>7. RingMaxBytes' \in [Sessions -> Nat]
  BY <1>3 DEF LRUInv, TypeOK
<1> QED
  BY <1>3, <1>4, <1>5, <1>6, <1>7, NothingTouched, PubStep DEF R, P

\* The 10% steps of a RingMaxBytes.
LEMMA BudgetSteps ==
  ASSUME Limits, NEW max \in Nat
  PROVE  Grown(max) \in Nat /\ Shrunk(max) \in Nat
<1>1. TotalCap \in Nat /\ FloorCap \in Nat
  BY DEF Limits
<1>2. (11 * max) \div 10 \in Nat /\ (9 * max) \div 10 \in Nat
  OBVIOUS
<1> QED
  BY <1>1, <1>2 DEF Grown, Shrunk

\* The active RingMaxBytes grows, and the sum starts again.
LEMMA GrowKeeps ==
  ASSUME Limits, LRUInv, NEW q \in Publishers, GrowActive(q)
  PROVE  LRUInv'
<1> DEFINE P == pub[q]
           R == Registered
           T == pub[q].items
           N == [P EXCEPT !.at = "sum", !.session = NoSession, !.todo = T, !.total = 0]
<1>1. P \in PubType /\ Snapshot(P, Made, Ended) /\ P.at = "grow"
  BY CopiedNow DEF GrowActive
<1>2. RingBytes \in [Sessions -> Nat] /\ R \subseteq Sessions
  BY SeesNow DEF LRUInv
<1>3. pub' = [pub EXCEPT ![q] = N] /\ UNCHANGED <<registered, ring, Ended, older, appends, changes>>
  BY DEF GrowActive
<1>4. RingMaxBytes' \in [Sessions -> Nat]
  <2>1. RingMaxBytes \in [Sessions -> Nat]
    BY DEF LRUInv, TypeOK
  <2>2. \A s \in Sessions : Grown(RingMaxBytes[s]) \in Nat /\ RingMaxBytes[s] \in Nat
    BY <2>1, BudgetSteps
  <2> QED
    BY <2>2 DEF GrowActive
<1>5. T \subseteq Sessions /\ T = P.items
  BY <1>1 DEF Snapshot, Made
<1> HIDE DEF R, T
<1>6. N \in PubType /\ N.at = "sum"
      /\ N.items = P.items /\ N.todo = T
      /\ N.best = P.best /\ N.ended = P.ended /\ N.total = 0
  BY <1>1, <1>5 DEF PubType, Steps
<1> HIDE DEF N, P
<1>7. Snapshot(N, Made, Ended)
  BY <1>1, <1>5, <1>6 DEF Snapshot
<1>8. ASSUME Sees(P, R, RingBytes) PROVE Sees(N, R, RingBytes)
  <2>1. CoversAll(P, R, RingBytes)
    BY <1>1, <1>8 DEF Sees
  <2>2. CoversAll(N, R, RingBytes)
    BY <1>6, <2>1 DEF CoversAll
  <2> QED
    BY <1>2, <1>5, <1>6, <2>2, SumsAgain
<1> QED
  BY <1>3, <1>4, <1>6, <1>7, <1>8, NothingTouched, PubStep DEF R, P

\* A connection leaves BalanceGlobalLRU only when there is no excess.
LEMMA LeaveKeeps ==
  ASSUME Limits, LRUInv, NEW q \in Publishers, WithinCap(q) \/ NoCandidate(q)
  PROVE  LRUInv'
<1> DEFINE P == pub[q]
           R == Registered
<1>1. P \in PubType /\ Copied(P, R, Ended)
  BY CopiedNow
<1>2. RingBytes \in [Sessions -> Nat]
  BY SeesNow DEF LRUInv
<1>3. pub' = [pub EXCEPT ![q] = Idle] /\ UNCHANGED <<registered, ring, RingMaxBytes, Ended, older, appends, changes>>
  BY DEF WithinCap, NoCandidate
<1>4. P.todo = {} /\ \/ P.at = "sum" /\ P.total <= TotalCap
                     \/ P.at = "find" /\ P.best = NoSession
  BY DEF WithinCap, NoCandidate
<1> HIDE DEF R, P
<1>5. Sees(P, R, RingBytes) => ~Over(R, RingBytes, Ended)
  BY <1>1, <1>2, <1>4, NothingOver
<1>7. Idle \in PubType
  BY DEF Idle, PubType, Steps
<1>8. Snapshot(Idle, Made, Ended)
  BY DEF Idle, Snapshot
<1>9. RingMaxBytes' \in [Sessions -> Nat]
  BY <1>3 DEF LRUInv, TypeOK
<1> QED
  BY <1>3, <1>5, <1>7, <1>8, <1>9, NothingTouched, PubStep DEF R, P

\* Over the cap, the search starts with every item to visit.
LEMMA OverKeeps ==
  ASSUME Limits, LRUInv, NEW q \in Publishers, OverCap(q)
  PROVE  LRUInv'
<1> DEFINE P == pub[q]
           R == Registered
           T == pub[q].items
           N == [P EXCEPT !.at = "find", !.todo = T, !.total = 0]
<1>1. P \in PubType /\ Snapshot(P, Made, Ended) /\ P.at = "sum"
  BY CopiedNow DEF OverCap
<1>2. R \subseteq Sessions
  BY SeesNow DEF LRUInv
<1>3. pub' = [pub EXCEPT ![q] = N] /\ UNCHANGED <<registered, ring, RingMaxBytes, Ended, older, appends, changes>>
  BY DEF OverCap
<1>4. T \subseteq Sessions /\ T = P.items
  BY <1>1 DEF Snapshot, Made
<1> HIDE DEF R, T
<1>5. N \in PubType /\ N.at = "find"
      /\ N.session = P.session /\ N.items = P.items /\ N.todo = T
      /\ N.best = P.best /\ N.ended = P.ended
  BY <1>1, <1>4 DEF PubType, Steps
<1> HIDE DEF N, P
<1>6. Snapshot(N, Made, Ended)
  BY <1>1, <1>4, <1>5 DEF Snapshot
<1>7. ASSUME Sees(P, R, RingBytes) PROVE Sees(N, R, RingBytes)
  <2>1. CoversAll(P, R, RingBytes)
    BY <1>1, <1>7 DEF Sees
  <2>2. CoversAll(N, R, RingBytes)
    BY <1>5, <2>1 DEF CoversAll
  <2>3. \A s \in N.items \ (N.todo \cup N.ended) : RingBytes[s] <= FloorCap
    BY <1>4, <1>5
  <2> QED
    BY <1>5, <2>2, <2>3 DEF Sees
<1>8. RingMaxBytes' \in [Sessions -> Nat]
  BY <1>3 DEF LRUInv, TypeOK
<1> QED
  BY <1>3, <1>5, <1>6, <1>7, <1>8, NothingTouched, PubStep DEF R, P

\* One ring of the search: it becomes the best candidate, or it is ended, or it holds no
\* more than the floor, or there is a better one.
LEMMA FindKeeps ==
  ASSUME Limits, LRUInv, NEW q \in Publishers, NEW s \in Sessions, FindBest(q, s)
  PROVE  LRUInv'
<1> DEFINE P == pub[q]
           R == Registered
           better == /\ s \notin pub[q].ended
                     /\ HasBytesAboveFloor(s)
                     /\ \/ pub[q].best = NoSession
                        \/ <<s[1], pub[q].best[1]>> \in pub[q].older
           y == IF better THEN s ELSE pub[q].best
           N == [P EXCEPT !.todo = pub[q].todo \ {s}, !.best = y]
<1>1. P \in PubType /\ Snapshot(P, Made, Ended) /\ P.at = "find" /\ s \in P.todo
  BY CopiedNow DEF FindBest
<1>2. RingBytes \in [Sessions -> Nat] /\ RingBytes[s] = RingSize(ring[s])
      /\ R \subseteq Sessions /\ FloorCap \in Nat /\ NoSession \notin Sessions
  BY SeesNow DEF LRUInv, RingBytes, Limits
<1>3. pub' = [pub EXCEPT ![q] = N] /\ UNCHANGED <<registered, ring, RingMaxBytes, Ended, older, appends, changes>>
  BY DEF FindBest
<1>4. y \in {s, P.best}
  OBVIOUS
<1>5. \/ y # NoSession
      \/ y = NoSession /\ P.best = NoSession /\ (s \in P.ended \/ RingBytes[s] <= FloorCap)
  <2>1. RingBytes[s] \in Nat
    BY <1>2
  <2>2. HasBytesAboveFloor(s) <=> ~ (RingBytes[s] <= FloorCap)
    BY <1>2, <2>1 DEF HasBytesAboveFloor
  <2>3. s # NoSession
    BY <1>2
  <2>4. CASE better
    BY <2>3, <2>4
  <2>5. CASE ~better /\ P.best # NoSession
    BY <2>5
  <2>6. CASE ~better /\ P.best = NoSession
    <3>1. s \in P.ended \/ ~HasBytesAboveFloor(s)
      BY <2>6
    <3> QED
      BY <2>2, <2>6, <3>1
  <2> QED
    BY <2>4, <2>5, <2>6
<1> HIDE DEF R, y
<1>6. N \in PubType /\ N.at = "find"
      /\ N.session = P.session /\ N.items = P.items /\ N.todo = P.todo \ {s}
      /\ N.best = y /\ N.ended = P.ended
  BY <1>1, <1>4 DEF PubType
<1> HIDE DEF N, P
<1>7. Snapshot(N, Made, Ended)
  BY <1>1, <1>4, <1>6 DEF Snapshot
<1>8. ASSUME Sees(P, R, RingBytes) PROVE Sees(N, R, RingBytes)
  <2>1. CoversAll(P, R, RingBytes)
    BY <1>1, <1>8 DEF Sees
  <2>2. CoversAll(N, R, RingBytes)
    BY <1>6, <2>1 DEF CoversAll
  <2>3. CASE y # NoSession
    BY <1>6, <2>2, <2>3 DEF Sees
  <2>4. CASE y = NoSession
    <3>1. \A t \in P.items \ (P.todo \cup P.ended) : RingBytes[t] <= FloorCap
      BY <1>1, <1>5, <1>8, <2>4 DEF Sees
    <3>2. s \in P.ended \/ RingBytes[s] <= FloorCap
      BY <1>5, <2>4
    <3>3. \A t \in N.items \ (N.todo \cup N.ended) : RingBytes[t] <= FloorCap
      BY <1>6, <3>1, <3>2
    <3> QED
      BY <1>6, <2>2, <3>3 DEF Sees
  <2> QED
    BY <2>3, <2>4
<1>9. RingMaxBytes' \in [Sessions -> Nat]
  BY <1>3 DEF LRUInv, TypeOK
<1> QED
  BY <1>3, <1>6, <1>7, <1>8, <1>9, NothingTouched, PubStep DEF R, P

\* Changes to sessions are counted.
LEMMA ChangeCounted ==
  ASSUME Limits, LRUInv, Change
  PROVE  changes' \in 0 .. MaxChanges
BY DEF Limits, LRUInv, TypeOK, Change

\* Sessions that come and hold nothing, and sessions that go, make no excess and hide none.
LEMMA EmptyRings ==
  ASSUME Limits, NEW b \in [Sessions -> Nat], NEW R, NEW S, NEW E, NEW F, S \subseteq Sessions,
         R \subseteq Sessions, \A s \in S \ R : b[s] = 0, \A s \in R : E[s] => F[s]
  PROVE  /\ Over(S, b, F) => Over(R, b, E)
         /\ \A P : P.total \in Nat /\ Sees(P, R, b) => Sees(P, S, b)
<1>1. FloorCap \in Nat /\ TotalCap \in Nat /\ \A s \in S : b[s] \in Nat
  BY DEF Limits
<1>2. ASSUME NEW T PROVE Held(b, S \ T) <= Held(b, R \ T)
  <2>1. \A s \in Sessions : s \in S \ T /\ b[s] # 0 => s \in R \ T /\ b[s] <= b[s]
    BY <1>1
  <2> QED
    BY <2>1, HeldMore
<1>3. ASSUME Over(S, b, F) PROVE Over(R, b, E)
  <2>1. PICK s \in S : ~F[s] /\ b[s] > FloorCap
    BY <1>3 DEF Over
  <2>2. b[s] # 0
    BY <1>1, <2>1
  <2>3. s \in R
    BY <2>2
  <2>4. ~E[s]
    BY <2>1, <2>3
  <2>5. S \ {} = S /\ R \ {} = R
    OBVIOUS
  <2>6. Held(b, S) <= Held(b, R) /\ Held(b, S) \in Nat /\ Held(b, R) \in Nat
    BY <1>2, <2>5, HeldType
  <2>7. Held(b, R) > TotalCap
    BY <1>1, <1>3, <2>6 DEF Over
  <2> QED
    BY <2>1, <2>3, <2>4, <2>7 DEF Over
<1>4. ASSUME NEW P, P.total \in Nat, Sees(P, R, b) PROVE Sees(P, S, b)
  <2>1. CoversAll(P, R, b) => CoversAll(P, S, b)
    BY DEF CoversAll
  <2>2. Held(b, S \ P.todo) <= Held(b, R \ P.todo)
        /\ Held(b, S \ P.todo) \in Nat /\ Held(b, R \ P.todo) \in Nat
    BY <1>2, HeldType
  <2>3. P.total >= Held(b, R \ P.todo) => P.total >= Held(b, S \ P.todo)
    BY <1>4, <2>2
  <2> QED
    BY <1>4, <2>1, <2>3 DEF Sees
<1> QED
  BY <1>3, <1>4

\* A step that registers, touches or ends sessions.
LEMMA SessionStep ==
  ASSUME Limits, LRUInv, UNCHANGED <<ring, RingMaxBytes, pub, appends>>,
         changes' \in 0 .. MaxChanges,
         registered' \in [SessionIDs -> 0 .. MaxRegistrations],
         older' \in SUBSET (SessionIDs \X SessionIDs),
         Made \subseteq Made', \A s \in Registered' : s \in Made => s \in Registered,
         Ended' \in [Sessions -> BOOLEAN], \A s \in Sessions : Ended[s] => Ended'[s]
  PROVE  LRUInv'
<1>1. TypeOK /\ Snapshots
  BY DEF LRUInv
<1>2. TypeOK'
  BY <1>1 DEF TypeOK
<1>3. Registered' \subseteq Sessions /\ Registered \subseteq Sessions
  BY DEF Registered
<1>4. Snapshots'
  <2>1. \A s \in Sessions \ Made' : ring'[s] = <<>>
    BY <1>1, SnapshotsNow
  <2>2. ASSUME NEW p \in Publishers PROVE Snapshot(pub'[p], Made', Ended')
    <3>1. Snapshot(pub[p], Made, Ended) /\ pub[p].ended \subseteq Sessions
      BY CopiedNow DEF PubType
    <3>2. \A s \in pub[p].ended : Ended[s] => Ended'[s]
      BY <3>1
    <3> QED
      BY <3>1, <3>2, SnapshotKept
  <2> QED
    BY <2>1, <2>2, SnapshotsNext
<1>5. RingBytes' = RingBytes /\ RingBytes \in [Sessions -> Nat]
  BY <1>1, SeesNow DEF RingBytes
<1>6. \A s \in Registered' \ Registered : RingBytes[s] = 0
  <2>1. TAKE s \in Registered' \ Registered
  <2>2. s \in Sessions /\ ring[s] = <<>> /\ ring[s] \in Seq(PayloadSizes)
    BY <1>1, <1>3, SnapshotsNow DEF TypeOK
  <2>3. RingSize(ring[s]) = 0
    BY <2>2, RingBytesType
  <2> QED
    BY <2>2, <2>3 DEF RingBytes
<1>7. \A s \in Registered : Ended[s] => Ended'[s]
  BY <1>3
<1>8. /\ Over(Registered', RingBytes, Ended') => Over(Registered, RingBytes, Ended)
      /\ \A P : P.total \in Nat /\ Sees(P, Registered, RingBytes) => Sees(P, Registered', RingBytes)
  BY <1>3, <1>5, <1>6, <1>7, EmptyRings
<1>9. ASSUME Over(Registered', RingBytes', Ended')
      PROVE  \E p \in Publishers : Sees(pub'[p], Registered', RingBytes')
  <2>1. PICK p \in Publishers : Sees(pub[p], Registered, RingBytes)
    BY <1>1, <1>5, <1>8, <1>9, SeesNow DEF LRUInv
  <2>2. pub[p].total \in Nat
    BY CopiedNow DEF Copied
  <2> QED
    BY <1>5, <1>8, <2>1, <2>2
<1> QED
  BY <1>2, <1>4, <1>9, SeesNext

\* Register takes a Session that was not made before, in place of the last of its id.
LEMMA RegisterKeeps ==
  ASSUME Limits, LRUInv, NEW id \in SessionIDs, Register(id)
  PROVE  LRUInv'
<1>1. /\ registered \in [SessionIDs -> 0 .. MaxRegistrations]
      /\ Ended \in [Sessions -> BOOLEAN]
      /\ older \in SUBSET (SessionIDs \X SessionIDs)
      /\ MaxRegistrations \in Nat
  BY DEF LRUInv, TypeOK, Limits
<1>2. /\ registered' = [registered EXCEPT ![id] = registered[id] + 1]
      /\ registered[id] < MaxRegistrations
      /\ older' = Touched(id)
      /\ UNCHANGED <<ring, RingMaxBytes, Ended, pub, appends>>
  BY DEF Register
<1>3. changes' \in 0 .. MaxChanges
  BY ChangeCounted DEF Register
<1>4. /\ \A i \in SessionIDs : registered[i] \in Nat /\ registered'[i] \in Nat
      /\ registered'[id] = registered[id] + 1
      /\ \A i \in SessionIDs : i # id => registered'[i] = registered[i]
  BY <1>1, <1>2
<1>5. registered' \in [SessionIDs -> 0 .. MaxRegistrations]
  BY <1>1, <1>2, <1>4
<1>6. older' \in SUBSET (SessionIDs \X SessionIDs)
  BY <1>1, <1>2 DEF Touched
<1>7. \A s \in Sessions : s[1] \in SessionIDs /\ s[2] \in Nat
  BY DEF Sessions
<1>8. Made \subseteq Made'
  <2>1. SUFFICES ASSUME NEW s \in Made PROVE s \in Made'
    OBVIOUS
  <2>2. s \in Sessions /\ s[2] <= registered[s[1]] /\ s[1] \in SessionIDs /\ s[2] \in Nat
    BY <1>7 DEF Made
  <2>3. s[2] <= registered'[s[1]]
    BY <1>4, <2>2
  <2> QED
    BY <2>2, <2>3 DEF Made
<1>9. \A s \in Registered' : s \in Made => s \in Registered
  <2>1. TAKE s \in Registered'
  <2>2. s \in Sessions /\ s[2] = registered'[s[1]] /\ s[1] \in SessionIDs /\ s[2] \in Nat
    BY <1>7 DEF Registered
  <2>3. HAVE s \in Made
  <2>4. s[2] <= registered[s[1]]
    BY <2>3 DEF Made
  <2>5. s[2] = registered[s[1]]
    BY <1>4, <2>2, <2>4
  <2> QED
    BY <2>2, <2>5 DEF Registered
<1> QED
  BY <1>1, <1>2, <1>3, <1>5, <1>6, <1>8, <1>9, SessionStep

\* Sessions are touched and ended.
LEMMA SessionKeeps ==
  ASSUME Limits, LRUInv, NEW s \in Sessions, Touch(s) \/ MarkEnded(s)
  PROVE  LRUInv'
<1>1. /\ Ended \in [Sessions -> BOOLEAN]
      /\ older \in SUBSET (SessionIDs \X SessionIDs)
      /\ registered \in [SessionIDs -> 0 .. MaxRegistrations]
  BY DEF LRUInv, TypeOK
<1>2. older' = Touched(s[1]) /\ UNCHANGED <<registered, ring, RingMaxBytes, pub, appends>>
  BY DEF Touch, MarkEnded
<1>3. older' \in SUBSET (SessionIDs \X SessionIDs)
  BY <1>1, <1>2, TouchedType
<1>4. changes' \in 0 .. MaxChanges
  BY ChangeCounted DEF Touch, MarkEnded
<1>5. Made' = Made /\ Registered' = Registered
  BY <1>2 DEF Made, Registered
<1>6. Ended' \in [Sessions -> BOOLEAN] /\ \A t \in Sessions : Ended[t] => Ended'[t]
  BY <1>1 DEF Touch, MarkEnded
<1> QED
  BY <1>1, <1>2, <1>3, <1>4, <1>5, <1>6, SessionStep

\* A connection that publishes will balance.
LEMMA PublishKeeps ==
  ASSUME Limits, LRUInv, NEW q \in Publishers, NEW size \in PayloadSizes, Publish(q, size)
  PROVE  LRUInv'
<1> DEFINE P == pub[q]
           s == pub[q].session
           N == [P EXCEPT !.at = "stamp"]
           e == EvictTo(ring[s], RingMaxBytes[s] - size)
<1>1. TypeOK /\ Snapshots
  BY DEF LRUInv
<1>2. P \in PubType /\ Snapshot(P, Made, Ended) /\ P.at = "found" /\ s = P.session
  BY CopiedNow DEF Publish
<1>12. s \in Made /\ s \in Sessions
  BY <1>2 DEF Snapshot, Made
<1>3. /\ pub' = [pub EXCEPT ![q] = N]
      /\ ring' = [ring EXCEPT ![s] = Append(e, size)]
      /\ UNCHANGED <<registered, RingMaxBytes, Ended, older, appends, changes>>
  BY DEF Publish
<1> HIDE DEF s
<1>4. N \in PubType /\ N.at = "stamp" /\ N.session = s /\ N.items = P.items
      /\ N.todo = P.todo /\ N.best = P.best /\ N.ended = P.ended
  BY <1>2 DEF PubType, Steps
<1> HIDE DEF N, P
<1>5. ring' \in [Sessions -> Seq(PayloadSizes)]
  <2>1. ring \in [Sessions -> Seq(PayloadSizes)]
    BY <1>1 DEF TypeOK
  <2>2. e \in Seq(PayloadSizes)
    BY <1>12, <2>1, EvictLess
  <2> HIDE DEF e
  <2>3. Append(e, size) \in Seq(PayloadSizes)
    BY <2>2, AppendProperties
  <2> QED
    BY <1>3, <2>1, <2>3
<1> HIDE DEF e
<1>7. TypeOK'
  BY <1>1, <1>3, <1>4, <1>5 DEF TypeOK
<1>8. Made' = Made
  BY <1>3 DEF Made
<1>9. pub'[q] = N /\ \A p \in Publishers : p # q => pub'[p] = pub[p]
  BY <1>1, <1>3 DEF TypeOK
<1>10. Snapshots'
  <2>1. \A t \in Sessions \ Made' : ring'[t] = <<>>
    BY <1>1, <1>12, <1>3, <1>8, SnapshotsNow DEF TypeOK
  <2>2. Snapshot(N, Made, Ended)
    BY <1>2, <1>4, <1>12 DEF Snapshot
  <2>3. \A p \in Publishers : Snapshot(pub'[p], Made', Ended')
    BY <1>1, <1>3, <1>8, <1>9, <2>2, SnapshotsNow
  <2> QED
    BY <2>1, <2>3, SnapshotsNext
<1>11. Sees(pub'[q], Registered', RingBytes')
  BY <1>4, <1>9 DEF Sees
<1> QED
  BY <1>7, <1>10, <1>11, SeesNext

\* A shrink lowers one ring, hides nothing from the others, and its connection sums again.
LEMMA ShrinkKeeps ==
  ASSUME Limits, LRUInv, NEW q \in Publishers, ShrinkBest(q)
  PROVE  LRUInv'
<1> DEFINE P == pub[q]
           R == Registered
           T == pub[q].items
           s == pub[q].best
           m == Shrunk(RingMaxBytes[s])
           N == [P EXCEPT !.at = "sum", !.todo = T, !.total = 0, !.best = NoSession]
<1>1. TypeOK /\ Snapshots /\ ring \in [Sessions -> Seq(PayloadSizes)]
      /\ RingMaxBytes \in [Sessions -> Nat] /\ pub \in [Publishers -> PubType]
  BY DEF LRUInv, TypeOK
<1>2. P \in PubType /\ Snapshot(P, Made, Ended) /\ Copied(P, R, Ended)
      /\ P.at = "find" /\ s = P.best /\ s # NoSession
  BY CopiedNow DEF ShrinkBest
<1>3. R \subseteq Sessions /\ RingBytes \in [Sessions -> Nat]
  BY <1>1, SeesNow
<1>4. s \in T /\ T \subseteq Sessions /\ s \in Made /\ s \in Sessions
  BY <1>2 DEF Snapshot, Made
<1>5. /\ pub' = [pub EXCEPT ![q] = N]
      /\ RingMaxBytes' = [RingMaxBytes EXCEPT ![s] = m]
      /\ ring' = [ring EXCEPT ![s] = EvictRing(@, RingMaxBytes'[s])]
      /\ UNCHANGED <<registered, Ended, older, appends, changes>>
  BY DEF ShrinkBest
<1>6. m \in Nat
  BY <1>1, <1>4, BudgetSteps
<1>14. T = P.items
  OBVIOUS
<1> HIDE DEF R, T, s, m
<1>7. N \in PubType /\ N.at = "sum" /\ N.session = P.session /\ N.items = P.items
      /\ N.todo = T /\ N.best = NoSession /\ N.ended = P.ended /\ N.total = 0
  BY <1>2, <1>4 DEF PubType, Steps
<1> HIDE DEF N
<1>8. PICK e : e = EvictTo(ring[s], m)
  OBVIOUS
<1>9. /\ ring' = [ring EXCEPT ![s] = e] /\ RingMaxBytes' \in [Sessions -> Nat]
      /\ e \in Seq(PayloadSizes) /\ RingSize(e) <= RingSize(ring[s])
  BY <1>1, <1>4, <1>5, <1>6, <1>8, EvictLess DEF EvictRing
<1>10. TypeOK'
  <2>1. ring' \in [Sessions -> Seq(PayloadSizes)]
    BY <1>1, <1>9
  <2>2. pub' \in [Publishers -> PubType]
    BY <1>1, <1>5, <1>7
  <2> QED
    BY <1>1, <1>5, <1>9, <2>1, <2>2 DEF TypeOK
<1>11. Registered' = R /\ Made' = Made
  BY <1>5 DEF Registered, Made, R
<1>12. Evicted(RingBytes, RingBytes', s)
  <2>1. RingBytes' = [t \in Sessions |-> RingSize(ring'[t])]
    BY DEF RingBytes
  <2>2. ring'[s] = e /\ \A t \in Sessions : t # s => ring'[t] = ring[t]
    BY <1>1, <1>4, <1>9
  <2>3. \A t \in Sessions : ring'[t] \in Seq(PayloadSizes)
    BY <1>1, <1>9, <2>2
  <2>4. \A t \in Sessions : RingSize(ring'[t]) \in Nat
    BY <2>3, RingBytesType
  <2>5. RingBytes' \in [Sessions -> Nat]
    BY <2>1, <2>4
  <2>6. RingBytes'[s] <= RingBytes[s]
    BY <1>4, <1>9, <2>1, <2>2 DEF RingBytes
  <2>7. \A t \in Sessions : t # s => RingBytes'[t] = RingBytes[t]
    BY <2>1, <2>2 DEF RingBytes
  <2> QED
    BY <1>3, <1>4, <2>5, <2>6, <2>7 DEF Evicted
<1>13. pub'[q] = N /\ \A p \in Publishers : p # q => pub'[p] = pub[p]
  BY <1>1, <1>5
<1>15. Snapshots'
  <2>1. \A t \in Sessions \ Made : ring'[t] = <<>>
    BY <1>1, <1>4, <1>9, SnapshotsNow
  <2>2. Snapshot(N, Made, Ended)
    BY <1>2, <1>4, <1>7, <1>14 DEF Snapshot
  <2>3. \A p \in Publishers : Snapshot(pub'[p], Made, Ended')
    BY <1>1, <1>5, <1>13, <2>2, SnapshotsNow
  <2> QED
    BY <1>11, <2>1, <2>3, SnapshotsNext
<1>16. ASSUME Over(R, RingBytes', Ended')
       PROVE  \E p \in Publishers : Sees(pub'[p], R, RingBytes')
  <2>1. Over(R, RingBytes, Ended)
    BY <1>3, <1>5, <1>12, <1>16, OverEvicted
  <2>2. PICK p \in Publishers : Sees(pub[p], R, RingBytes)
    BY <1>1, <2>1, SeesNow DEF LRUInv, R
  <2>3. Copied(pub[p], R, Ended)
    BY CopiedNow DEF R
  <2>4. Sees(pub[p], R, RingBytes')
    BY <1>4, <1>12, <2>2, <2>3, SeesEvicted
  <2>5. CASE p # q
    BY <1>13, <2>4, <2>5
  <2>6. CASE p = q
    <3>1. CoversAll(P, R, RingBytes')
      BY <1>2, <2>4, <2>6 DEF Sees
    <3>2. CoversAll(N, R, RingBytes')
      BY <1>7, <3>1 DEF CoversAll
    <3>3. RingBytes' \in [Sessions -> Nat]
      BY <1>12 DEF Evicted
    <3>4. Sees(N, R, RingBytes')
      BY <1>3, <1>7, <1>14, <3>2, <3>3, SumsAgain
    <3> QED
      BY <1>13, <3>4
  <2> QED
    BY <2>5, <2>6
<1> QED
  BY <1>10, <1>11, <1>15, <1>16, SeesNext

\* A new registry holds nothing.
LEMMA LRUInitInv ==
  ASSUME Limits, LRUInit
  PROVE  LRUInv
<1>1. <<>> \in Seq(PayloadSizes)
  BY EmptySeq
<1>2. Idle \in PubType
  BY DEF Idle, PubType, Steps
<1>3. InitialRingMaxBytes \in Nat
  <2>1. TotalCap \in Nat /\ FloorCap \in Nat
    BY DEF Limits
  <2>2. TotalCap \div 10 \in Nat
    BY <2>1
  <2> QED
    BY <2>1, <2>2 DEF InitialRingMaxBytes
<1>4. TypeOK
  BY <1>1, <1>2, <1>3 DEF LRUInit, TypeOK, Limits
<1>5. Registered = {}
  <2>1. \A s \in Sessions : s[1] \in SessionIDs /\ s[2] # 0
    BY DEF Sessions
  <2> QED
    BY <2>1 DEF LRUInit, Registered
<1>6. Snapshots
  <2>1. Snapshot(Idle, Made, Ended)
    BY DEF Idle, Snapshot
  <2>2. \A p \in Publishers : Snapshot(pub[p], Made, Ended)
    BY <2>1 DEF LRUInit
  <2> QED
    BY <2>2, SnapshotsNow DEF LRUInit
<1> QED
  BY <1>4, <1>5, <1>6 DEF LRUInv, Excess

\* Every step keeps the invariant.
LEMMA LRUNextInv ==
  ASSUME Limits, LRUInv, [LRUNext]_lruVars
  PROVE  LRUInv'
<1>1. CASE UNCHANGED lruVars
  <2>1. UNCHANGED <<registered, ring, RingMaxBytes, Ended, older, pub, appends, changes>>
    BY <1>1 DEF lruVars
  <2>2. Made' = Made /\ Registered' = Registered
    BY <2>1 DEF Made, Registered
  <2>3. /\ changes' \in 0 .. MaxChanges
        /\ registered' \in [SessionIDs -> 0 .. MaxRegistrations]
        /\ older' \in SUBSET (SessionIDs \X SessionIDs)
        /\ Ended' \in [Sessions -> BOOLEAN]
        /\ \A s \in Sessions : Ended[s] => Ended'[s]
    BY <2>1 DEF LRUInv, TypeOK
  <2> QED
    BY <2>1, <2>2, <2>3, SessionStep
<1>2. ASSUME NEW q \in Publishers, Balance(q) PROVE LRUInv'
  BY <1>2, PublishKeeps, StampKeeps, ItemsKeeps, AddKeeps, GrowKeeps, LeaveKeeps, OverKeeps,
     FindKeeps, ShrinkKeeps DEF Balance
<1> QED
  BY <1>1, <1>2, RegisterKeeps, SessionKeeps, GetKeeps DEF LRUNext

\* As long as the rings exceed the cap and some live session is above the floor, a
\* connection is about to see it, whatever the others publish or evict meanwhile and
\* whichever sessions are replaced by new ones while their rings are being balanced.
THEOREM ExcessIsSeen == LRUSpec => []LRUInv
<1>1. LRUInit => LRUInv
  BY LRUAssumption, LRUInitInv
<1>2. LRUInv /\ [LRUNext]_lruVars => LRUInv'
  BY LRUAssumption, LRUNextInv
<1> QED
  BY <1>1, <1>2, PTL DEF LRUSpec

\* Once every connection has finished BalanceGlobalLRU, the rings fit the cap or no live
\* session holds more than the floor.
THEOREM CapOrFloorHolds == LRUSpec => []CapOrFloor
<1>1. LRUInv => CapOrFloor
  <2>1. SUFFICES ASSUME LRUInv, Quiet
                 PROVE  \/ TotalBytes <= TotalCap
                        \/ \A s \in Registered : Ended[s] \/ RingSize(ring[s]) <= FloorCap
    BY DEF CapOrFloor
  <2>2. ~Excess
    BY <2>1 DEF LRUInv, Quiet, WillSee
  <2>3. TotalBytes \in Nat /\ TotalCap \in Nat /\ FloorCap \in Nat
    BY LRUAssumption, <2>1, SeesNow, HeldType DEF LRUInv, Limits
  <2>4. \A s \in Registered : RingSize(ring[s]) \in Nat
    <3>1. Registered \subseteq Sessions /\ ring \in [Sessions -> Seq(PayloadSizes)]
      BY LRUAssumption, <2>1, SeesNow DEF LRUInv, TypeOK
    <3> QED
      BY LRUAssumption, <3>1, RingBytesType
  <2>5. CASE ~ (TotalBytes > TotalCap)
    BY <2>3, <2>5
  <2>6. CASE \A s \in Registered : Ended[s] \/ ~ (RingSize(ring[s]) > FloorCap)
    <3>1. ASSUME NEW s \in Registered PROVE Ended[s] \/ RingSize(ring[s]) <= FloorCap
      <4>1. RingSize(ring[s]) \in Nat
        BY <2>4
      <4>2. ~ (RingSize(ring[s]) > FloorCap) => RingSize(ring[s]) <= FloorCap
        BY <2>3, <4>1
      <4> QED
        BY <2>6, <4>2
    <3> QED
      BY <3>1
  <2> QED
    BY <2>2, <2>5, <2>6 DEF Excess
<1> QED
  BY <1>1, ExcessIsSeen, PTL
=============================================================================
