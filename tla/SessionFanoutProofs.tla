------------------------ MODULE SessionFanoutProofs ------------------------
(***************************************************************************)
(* Proofs about SessionFanout, for any set of app connections, any bound   *)
(* on seqs, objects and channel capacity, and one daemon connection.       *)
(***************************************************************************)
EXTENDS SessionFanout, SequenceTheorems, TLAPS

\* One daemon connection feeds the session at a time.
SingleIngest == \A i, j \in Ingests : i = j

\* The entries of a sequence of seqs are positive integers.
LEMMA SeqOfInts ==
  ASSUME NEW P \in Seq(Seqs)
  PROVE  \A j \in 1 .. Len(P) : P[j] \in Int /\ P[j] > 0
<1>1. \A j \in 1 .. Len(P) : P[j] \in Seqs
  OBVIOUS
<1>2. \A x \in Seqs : x \in Int /\ x > 0
  BY FanoutAssumption DEF Seqs
<1> QED
  BY <1>1, <1>2

\* Dropping the n oldest entries keeps the others in place.
LEMMA DropOldestFacts ==
  ASSUME NEW E \in Seq(Seqs), NEW n \in 0 .. Len(E)
  PROVE  LET D == Windows!DropOldest(E, n)
         IN  /\ D \in Seq(Seqs)
             /\ Len(D) = Len(E) - n
             /\ \A j \in 1 .. Len(D) : D[j] = E[n + j]
<1>1. \A j \in n + 1 .. Len(E) : E[j] \in Seqs
  OBVIOUS
<1>2. n + 1 \in Int /\ Len(E) \in Int
  OBVIOUS
<1> QED
  BY <1>1, <1>2, SubSeqProperties DEF Windows!DropOldest

\* RingBuffer.Append on a well-typed window.
LEMMA AppendEntryFacts ==
  ASSUME NEW w \in WindowType, NEW n \in 0 .. Len(w.entries), NEW s \in Seqs
  PROVE  LET v == Windows!AppendEntry(w, n, s)
         IN  /\ v \in WindowType
             /\ Len(v.entries) = Len(w.entries) - n + 1
             /\ \A j \in 1 .. Len(w.entries) - n : v.entries[j] = w.entries[n + j]
             /\ v.entries[Len(v.entries)] = s
             /\ v.earliest = v.entries[1]
             /\ v.latest = s
<1> DEFINE D == Windows!DropOldest(w.entries, n)
           K == Append(D, s)
<1>0. w.entries \in Seq(Seqs)
  BY DEF WindowType
<1>1. /\ D \in Seq(Seqs)
      /\ Len(D) = Len(w.entries) - n
      /\ \A j \in 1 .. Len(D) : D[j] = w.entries[n + j]
  BY <1>0, DropOldestFacts
<1> HIDE DEF D
<1>2. /\ K \in Seq(Seqs)
      /\ Len(K) = Len(D) + 1
      /\ \A j \in 1 .. Len(D) : K[j] = D[j]
      /\ K[Len(D) + 1] = s
  BY <1>1
<1> HIDE DEF K
<1>3. Windows!AppendEntry(w, n, s) = [entries |-> K, earliest |-> K[1], latest |-> s]
  BY DEF Windows!AppendEntry, K, D
<1>4. K[1] \in Seqs
  BY <1>1, <1>2
<1>5. Len(K) = Len(w.entries) - n + 1 /\ K[Len(K)] = s
  BY <1>0, <1>1, <1>2
<1>6. \A j \in 1 .. Len(w.entries) - n : K[j] = w.entries[n + j]
  BY <1>0, <1>1, <1>2
<1>7. [entries |-> K, earliest |-> K[1], latest |-> s] \in WindowType
  BY <1>2, <1>4, FanoutAssumption DEF WindowType, Seqs
<1> QED
  BY <1>3, <1>5, <1>6, <1>7

\* evictLocked on a well-typed window.
LEMMA EvictEntriesFacts ==
  ASSUME NEW w \in WindowType, NEW n \in 0 .. Len(w.entries)
  PROVE  LET v == Windows!EvictEntries(w, n)
         IN  /\ v \in WindowType
             /\ Len(v.entries) = Len(w.entries) - n
             /\ \A j \in 1 .. Len(v.entries) : v.entries[j] = w.entries[n + j]
             /\ v.latest = w.latest
             /\ v.entries # <<>> => v.earliest = v.entries[1]
             /\ v.entries = <<>> => v.earliest = IF w.latest # 0 THEN w.latest + 1
                                                 ELSE w.earliest
<1> DEFINE D == Windows!DropOldest(w.entries, n)
<1>0. w.entries \in Seq(Seqs) /\ w.latest \in 0 .. MaxSeq /\ w.earliest \in 0 .. MaxSeq + 1
  BY DEF WindowType
<1>1. /\ D \in Seq(Seqs)
      /\ Len(D) = Len(w.entries) - n
      /\ \A j \in 1 .. Len(D) : D[j] = w.entries[n + j]
  BY <1>0, DropOldestFacts
<1> HIDE DEF D
<1> DEFINE early == Windows!EarliestOf(D, w.latest, w.earliest)
<1>2. /\ early \in 0 .. MaxSeq + 1
      /\ D # <<>> => early = D[1]
      /\ D = <<>> => early = IF w.latest # 0 THEN w.latest + 1 ELSE w.earliest
  BY <1>0, <1>1, FanoutAssumption DEF Windows!EarliestOf, Seqs
<1> HIDE DEF early
<1>3. Windows!EvictEntries(w, n) = [entries |-> D, earliest |-> early, latest |-> w.latest]
  BY DEF Windows!EvictEntries, D, early, WindowType
<1> QED
  BY <1>0, <1>1, <1>2, <1>3 DEF WindowType

-----------------------------------------------------------------------------
(***************************************************************************)
(* The predicates of the invariant, one published frame, one eviction or   *)
(* one replayed frame at a time.                                           *)
(***************************************************************************)
\* Publishing s appends it to the history and to the ring alike.
LEMMA PublishKeepsWindow ==
  ASSUME NEW w \in WindowType, NEW P \in Seq(Seqs), IsWindowOf(w, P),
         NEW n \in 0 .. Len(w.entries), NEW s \in Seqs
  PROVE  IsWindowOf(Windows!AppendEntry(w, n, s), Append(P, s))
<1> DEFINE v == Windows!AppendEntry(w, n, s)
           Q == Append(P, s)
<1>0. w.entries \in Seq(Seqs) /\ Len(w.entries) \in Nat /\ Len(P) \in Nat
  BY DEF WindowType
<1>1. /\ v \in WindowType
      /\ Len(v.entries) = Len(w.entries) - n + 1
      /\ \A j \in 1 .. Len(w.entries) - n : v.entries[j] = w.entries[n + j]
      /\ v.entries[Len(v.entries)] = s
      /\ v.earliest = v.entries[1]
      /\ v.latest = s
  BY AppendEntryFacts
<1>2. /\ Q \in Seq(Seqs) /\ Len(Q) = Len(P) + 1 /\ Q[Len(P) + 1] = s
      /\ \A j \in 1 .. Len(P) : Q[j] = P[j]
      /\ Q # <<>>
  OBVIOUS
<1>3. v.entries \in Seq(Seqs)
  BY <1>1 DEF WindowType
<1> HIDE DEF v, Q
<1>n. /\ Len(w.entries) \in Nat /\ Len(P) \in Nat /\ Len(v.entries) \in Nat
      /\ n \in Nat /\ n <= Len(w.entries)
      /\ Len(v.entries) = Len(w.entries) - n + 1
      /\ Len(Q) = Len(P) + 1
  BY <1>0, <1>1, <1>2, <1>3
<1>4. v.entries # <<>>
  BY <1>n
<1>5. /\ Len(w.entries) <= Len(P)
      /\ \A j \in 1 .. Len(w.entries) : w.entries[j] = P[Len(P) - Len(w.entries) + j]
  BY DEF IsWindowOf
<1>6. ASSUME NEW j \in 1 .. Len(v.entries)
      PROVE  v.entries[j] = Q[Len(Q) - Len(v.entries) + j]
  <2>1. CASE j = Len(v.entries)
    <3>0. \A a, b \in Int : a - b + b = a
      OBVIOUS
    <3>a. Len(Q) \in Int /\ Len(v.entries) \in Int
      BY <1>n
    <3>1. Len(Q) - Len(v.entries) + Len(v.entries) = Len(P) + 1
      <4>1. Len(Q) - Len(v.entries) + Len(v.entries) = Len(Q)
        BY <3>0, <3>a
      <4> QED
        BY <4>1, <1>n
    <3> QED
      BY <3>1, <2>1, <1>1, <1>2
  <2>2. CASE j # Len(v.entries)
    <3>1. j \in 1 .. Len(w.entries) - n /\ n + j \in 1 .. Len(w.entries)
      BY <2>2, <1>n
    <3>2. v.entries[j] = P[Len(P) - Len(w.entries) + (n + j)]
      BY <3>1, <1>1, <1>5
    <3>3. Len(P) - Len(w.entries) + (n + j) \in 1 .. Len(P)
      BY <3>1, <1>0, <1>5
    <3>4. Len(Q) - Len(v.entries) + j = Len(P) - Len(w.entries) + (n + j)
      BY <3>1, <1>0, <1>1, <1>2
    <3> QED
      BY <3>2, <3>3, <3>4, <1>2
  <2> QED
    BY <2>1, <2>2
<1>7. Len(v.entries) <= Len(Q)
  BY <1>0, <1>1, <1>2, <1>5
<1>8. IsWindowOf(v, Q)
  BY <1>1, <1>2, <1>4, <1>6, <1>7 DEF IsWindowOf
<1> QED
  BY <1>8 DEF v, Q

\* Evicting old entries keeps a suffix, and a ring emptied by eviction keeps
\* EarliestSeq one past the last published frame.
LEMMA EvictKeepsWindow ==
  ASSUME NEW w \in WindowType, NEW P \in Seq(Seqs), IsWindowOf(w, P),
         NEW n \in 0 .. Len(w.entries)
  PROVE  IsWindowOf(Windows!EvictEntries(w, n), P)
<1> DEFINE v == Windows!EvictEntries(w, n)
<1>0. w.entries \in Seq(Seqs) /\ Len(w.entries) \in Nat /\ Len(P) \in Nat
  BY DEF WindowType
<1>1. /\ v \in WindowType
      /\ Len(v.entries) = Len(w.entries) - n
      /\ \A j \in 1 .. Len(v.entries) : v.entries[j] = w.entries[n + j]
      /\ v.latest = w.latest
      /\ v.entries # <<>> => v.earliest = v.entries[1]
      /\ v.entries = <<>> => v.earliest = IF w.latest # 0 THEN w.latest + 1 ELSE w.earliest
  BY EvictEntriesFacts
<1> HIDE DEF v
<1>2. /\ Len(w.entries) <= Len(P)
      /\ \A j \in 1 .. Len(w.entries) : w.entries[j] = P[Len(P) - Len(w.entries) + j]
      /\ w.latest = IF P = <<>> THEN 0 ELSE P[Len(P)]
      /\ w.entries = <<>> => w.earliest = IF P = <<>> THEN 0 ELSE P[Len(P)] + 1
  BY DEF IsWindowOf
<1>3. ASSUME NEW j \in 1 .. Len(v.entries)
      PROVE  v.entries[j] = P[Len(P) - Len(v.entries) + j]
  <2>1. n + j \in 1 .. Len(w.entries)
    BY <1>0, <1>1
  <2>2. Len(P) - Len(v.entries) + j = Len(P) - Len(w.entries) + (n + j)
    BY <1>0, <1>1
  <2> QED
    BY <2>1, <2>2, <1>1, <1>2
<1>4. v.entries = <<>> => v.earliest = IF P = <<>> THEN 0 ELSE P[Len(P)] + 1
  <2>1. CASE P = <<>>
    BY <2>1, <1>0, <1>1, <1>2
  <2>2. CASE P # <<>>
    <3>1. P[Len(P)] \in Seqs
      BY <2>2
    <3> QED
      BY <3>1, <2>2, <1>1, <1>2 DEF Seqs
  <2> QED
    BY <2>1, <2>2
<1>5. Len(v.entries) <= Len(P)
  BY <1>0, <1>1, <1>2
<1>6. \A j \in 1 .. Len(v.entries) : v.entries[j] = P[Len(P) - Len(v.entries) + j]
  BY <1>3
<1>7. v.latest = IF P = <<>> THEN 0 ELSE P[Len(P)]
  BY <1>1, <1>2
<1>8. v.entries # <<>> => v.earliest = v.entries[1]
  BY <1>1
<1>9. IsWindowOf(v, P)
  BY <1>4, <1>5, <1>6, <1>7, <1>8 DEF IsWindowOf
<1> QED
  BY <1>9 DEF v

\* A newer seq extends the published sequence in order.
LEMMA PublishKeepsOrder ==
  ASSUME NEW P \in Seq(Seqs), NEW s \in Seqs, InOrder(P, s - 1),
         NEW m \in Int, s <= m
  PROVE  InOrder(Append(P, s), m)
<1>1. /\ Len(Append(P, s)) = Len(P) + 1
      /\ Append(P, s)[Len(P) + 1] = s
      /\ \A j \in 1 .. Len(P) : Append(P, s)[j] = P[j]
  OBVIOUS
<1>2. /\ \A j \in 1 .. Len(P) : P[j] \in Int /\ P[j] <= s - 1
      /\ \A j, k \in 1 .. Len(P) : j < k => P[j] < P[k]
  BY SeqOfInts DEF InOrder
<1>3. s \in Int /\ Len(P) \in Nat
  BY FanoutAssumption DEF Seqs
<1> DEFINE Q == Append(P, s)
<1> HIDE DEF Q
<1>4. /\ Len(Q) = Len(P) + 1
      /\ Q[Len(P) + 1] = s
      /\ \A j \in 1 .. Len(P) : Q[j] = P[j]
  BY <1>1 DEF Q
<1>5. \A j \in 1 .. Len(Q) : Q[j] <= m
  BY <1>2, <1>3, <1>4
<1>6. ASSUME NEW j \in 1 .. Len(Q), NEW k \in 1 .. Len(Q), j < k
      PROVE  Q[j] < Q[k]
  <2>1. j \in 1 .. Len(P) /\ Q[j] = P[j]
    BY <1>6, <1>3, <1>4
  <2>2. CASE k = Len(P) + 1
    BY <2>1, <2>2, <1>2, <1>3, <1>4
  <2>3. CASE k # Len(P) + 1
    <3>1. k \in 1 .. Len(P) /\ Q[k] = P[k]
      BY <2>3, <1>3, <1>4
    <3> QED
      BY <3>1, <2>1, <1>6, <1>2
  <2> QED
    BY <2>2, <2>3
<1> QED
  BY <1>5, <1>6 DEF InOrder, Q

\* A sequence in order below a bound is in order below any larger one.
LEMMA OrderWeaken ==
  ASSUME NEW P \in Seq(Seqs), NEW l \in Int, NEW m \in Int, l <= m, InOrder(P, l)
  PROVE  InOrder(P, m)
<1> QED
  BY SeqOfInts DEF InOrder

\* A live frame accepted by sendChan keeps the connection on the stream.
LEMMA LiveFrame ==
  ASSUME NEW P \in Seq(Seqs), NEW S \in Seq(Seqs), NEW s \in Seqs,
         NEW ok \in BOOLEAN, NEW lastSeq \in Nat,
         OnStream(P, S, ok, lastSeq, Len(P))
  PROVE  OnStream(Append(P, s), Append(S, s), ok, lastSeq, Len(Append(P, s)))
<1> DEFINE Q == Append(P, s)
           T == Append(S, s)
<1>1. /\ Len(Q) = Len(P) + 1 /\ Q[Len(P) + 1] = s
      /\ \A j \in 1 .. Len(P) : Q[j] = P[j]
      /\ Len(P) \in Nat
  OBVIOUS
<1>2. /\ Len(T) = Len(S) + 1 /\ T[Len(S) + 1] = s
      /\ \A j \in 1 .. Len(S) : T[j] = S[j]
      /\ Len(S) \in Nat
  OBVIOUS
<1> HIDE DEF Q, T
<1>3. /\ Len(S) <= Len(P)
      /\ \A j \in 1 .. Len(S) : S[j] = P[Len(P) - Len(S) + j]
      /\ ok /\ lastSeq > 0 => \A j \in 1 .. Len(P) - Len(S) : P[j] <= lastSeq
  BY DEF OnStream
<1>4. Len(Q) - Len(T) = Len(P) - Len(S)
  BY <1>1, <1>2
<1>5. ASSUME NEW j \in 1 .. Len(T)
      PROVE  T[j] = Q[Len(P) - Len(S) + j]
  <2>1. CASE j = Len(S) + 1
    BY <2>1, <1>1, <1>2
  <2>2. CASE j # Len(S) + 1
    <3>1. j \in 1 .. Len(S) /\ Len(P) - Len(S) + j \in 1 .. Len(P)
      BY <2>2, <1>1, <1>2, <1>3
    <3> QED
      BY <3>1, <1>1, <1>2, <1>3
  <2> QED
    BY <2>1, <2>2
<1>6. ok /\ lastSeq > 0 => \A j \in 1 .. Len(P) - Len(S) : Q[j] <= lastSeq
  BY <1>1, <1>2, <1>3
<1>7. OnStream(Q, T, ok, lastSeq, Len(Q))
  BY <1>1, <1>2, <1>3, <1>4, <1>5, <1>6 DEF OnStream
<1> QED
  BY <1>7 DEF Q, T

\* AttachWithReplay starts on the stream: what the ring no longer has is not
\* newer than the client's last_seq, or the replay is refused.
LEMMA BeginOnStream ==
  ASSUME NEW w \in WindowType, NEW P \in Seq(Seqs), IsWindowOf(w, P),
         NEW m, InOrder(P, m), NEW ls \in Nat, NEW d \in BOOLEAN
  PROVE  LET ok == Windows!ReplayOk(w, ls)
         IN  Replaying(P, <<>>, ok, ls, d, IF ok THEN w.entries ELSE <<>>)
<1> DEFINE ok == Windows!ReplayOk(w, ls)
           E  == w.entries
<1>0. E \in Seq(Seqs) /\ Len(E) \in Nat /\ Len(P) \in Nat
  BY DEF WindowType
<1>1. /\ Len(E) <= Len(P)
      /\ \A j \in 1 .. Len(E) : E[j] = P[Len(P) - Len(E) + j]
      /\ E # <<>> => w.earliest = E[1]
      /\ E = <<>> => w.earliest = IF P = <<>> THEN 0 ELSE P[Len(P)] + 1
  BY DEF IsWindowOf
<1>2. ok => ls = 0 \/ ls + 1 >= w.earliest
  BY DEF Windows!ReplayOk
<1> HIDE DEF ok, E
<1>3. \A j, k \in 1 .. Len(P) : j < k => P[j] < P[k]
  BY DEF InOrder
<1>4. \A j \in 1 .. Len(P) : P[j] \in Int
  BY SeqOfInts
<1>5. CASE ~ok
  <2>1. OnStream(P, <<>>, ok, ls, Len(P))
    BY <1>5, <1>0 DEF OnStream
  <2> QED
    BY <1>5, <1>0, <2>1 DEF Replaying, ok
<1>6. CASE ok
  <2>1. ASSUME ls > 0, NEW j \in 1 .. Len(P) - Len(E)
        PROVE  P[j] <= ls
    <3>0. j \in 1 .. Len(P)
      BY <1>0, <1>1
    <3>1. CASE E # <<>>
      <4>1. Len(E) >= 1 /\ Len(P) - Len(E) + 1 \in 1 .. Len(P)
        BY <3>1, <1>0, <1>1
      <4>2. w.earliest = P[Len(P) - Len(E) + 1]
        BY <3>1, <4>1, <1>0, <1>1
      <4>3. P[j] < P[Len(P) - Len(E) + 1]
        BY <3>0, <4>1, <1>0, <1>3
      <4> QED
        BY <2>1, <3>0, <4>1, <4>2, <4>3, <1>2, <1>4, <1>6
    <3>2. CASE E = <<>>
      <4>1. Len(P) \in 1 .. Len(P) /\ P # <<>>
        BY <3>0, <1>0
      <4>2. w.earliest = P[Len(P)] + 1
        BY <3>2, <4>1, <1>1
      <4>3. P[j] <= P[Len(P)]
        <5>1. CASE j = Len(P)
          BY <5>1, <4>1, <1>4
        <5>2. CASE j # Len(P)
          <6>1. j < Len(P)
            BY <5>2, <3>0, <1>0
          <6>2. P[j] < P[Len(P)]
            BY <6>1, <3>0, <4>1, <1>3
          <6> QED
            BY <6>2, <3>0, <4>1, <1>4
        <5> QED
          BY <5>1, <5>2
      <4> QED
        BY <2>1, <3>0, <4>1, <4>2, <4>3, <1>2, <1>4, <1>6
    <3> QED
      BY <3>1, <3>2
  <2>2. OnStream(P, <<>>, ok, ls, Len(P) - Len(E))
    <3>1. Len(<<>>) = 0 /\ Len(P) - Len(E) \in Nat
      BY <1>0, <1>1
    <3>2. Len(P) - Len(E) - 0 = Len(P) - Len(E)
      BY <1>0
    <3> QED
      BY <2>1, <3>1, <3>2 DEF OnStream
  <2>3. Replaying(P, <<>>, ok, ls, d, E)
    BY <2>2, <1>1 DEF Replaying
  <2> QED
    BY <2>3, <1>6 DEF ok, E
<1> QED
  BY <1>5, <1>6

\* One iteration of the replay loop keeps the connection on the stream: the
\* entry is sent, dropped by a full sendChan, or skipped because the client
\* already has it, which happens only before the first entry is sent.
LEMMA ReplayNextOnStream ==
  ASSUME NEW P \in Seq(Seqs), NEW m, InOrder(P, m),
         NEW S \in Seq(Seqs), NEW ok \in BOOLEAN, NEW ls \in Nat, NEW d \in BOOLEAN,
         NEW B \in Seq(Seqs), B # <<>>, Replaying(P, S, ok, ls, d, B)
  PROVE  /\ Head(B) > ls => Replaying(P, Append(S, Head(B)), ok, ls, d, Tail(B))
         /\ Head(B) > ls => Replaying(P, S, ok, ls, TRUE, Tail(B))
         /\ ~(Head(B) > ls) => Replaying(P, S, ok, ls, d, Tail(B))
<1> DEFINE x == Head(B)
           C == Tail(B)
           r == Len(P) - Len(B)
           T == Append(S, x)
<1>0. /\ x \in Seqs /\ C \in Seq(Seqs) /\ Len(C) = Len(B) - 1 /\ Len(B) >= 1
      /\ x = B[1] /\ \A j \in 1 .. Len(C) : C[j] = B[j + 1]
      /\ Len(B) \in Nat /\ Len(P) \in Nat /\ Len(S) \in Nat /\ Len(C) \in Nat
  OBVIOUS
<1>1. /\ Len(B) <= Len(P)
      /\ \A j \in 1 .. Len(B) : B[j] = P[Len(P) - Len(B) + j]
      /\ \A j \in 1 .. Len(S) : S[j] > ls
      /\ ~d => OnStream(P, S, ok, ls, r)
  BY DEF Replaying
<1>2. /\ T \in Seq(Seqs) /\ Len(T) = Len(S) + 1 /\ T[Len(S) + 1] = x
      /\ \A j \in 1 .. Len(S) : T[j] = S[j]
  BY <1>0
<1> HIDE DEF x, C, T
<1>3. r \in Nat /\ Len(P) - Len(C) = r + 1 /\ r + 1 \in 1 .. Len(P)
  BY <1>0, <1>1
<1>4. x = P[r + 1] /\ x \in Int
  BY <1>0, <1>1, <1>3, SeqOfInts
<1>5. Len(C) <= Len(P) /\ \A j \in 1 .. Len(C) : C[j] = P[Len(P) - Len(C) + j]
  <2>1. ASSUME NEW j \in 1 .. Len(C) PROVE C[j] = P[Len(P) - Len(C) + j]
    <3>1. j + 1 \in 1 .. Len(B) /\ Len(P) - Len(B) + (j + 1) = Len(P) - Len(C) + j
      BY <1>0
    <3> QED
      BY <3>1, <1>0, <1>1
  <2> QED
    BY <2>1, <1>0, <1>1
<1>6. /\ ~d => Len(S) <= r
      /\ ~d => \A j \in 1 .. Len(S) : S[j] = P[r - Len(S) + j]
      /\ ~d /\ ok /\ ls > 0 => \A j \in 1 .. r - Len(S) : P[j] <= ls
  BY <1>1 DEF OnStream
<1>7. \A j, l \in 1 .. Len(P) : j < l => P[j] < P[l]
  BY DEF InOrder
<1>8. \A j \in 1 .. Len(P) : P[j] \in Int
  BY SeqOfInts
<1> HIDE DEF r
<1>9. ASSUME x > ls PROVE Replaying(P, T, ok, ls, d, C)
  <2>1. ASSUME NEW j \in 1 .. Len(T) PROVE T[j] > ls
    <3>1. CASE j = Len(S) + 1
      BY <3>1, <1>9, <1>2
    <3>2. CASE j # Len(S) + 1
      <4>1. j \in 1 .. Len(S)
        BY <3>2, <1>0, <1>2
      <4> QED
        BY <4>1, <1>1, <1>2
    <3> QED
      BY <3>1, <3>2
  <2>2. ASSUME ~d PROVE OnStream(P, T, ok, ls, r + 1)
    <3>2. ASSUME NEW j \in 1 .. Len(T) PROVE T[j] = P[r - Len(S) + j]
      <4>1. CASE j = Len(S) + 1
        <5>1. r - Len(S) + j = r + 1
          BY <4>1, <1>0, <1>3
        <5> QED
          BY <5>1, <4>1, <1>2, <1>4
      <4>2. CASE j # Len(S) + 1
        <5>1. j \in 1 .. Len(S)
          BY <4>2, <1>0, <1>2
        <5> QED
          BY <5>1, <2>2, <1>2, <1>6
      <4> QED
        BY <4>1, <4>2
    <3>3. ok /\ ls > 0 => \A j \in 1 .. r - Len(S) : P[j] <= ls
      BY <2>2, <1>6
    <3> DEFINE t == r + 1
    <3>4. Len(T) <= t /\ t - Len(T) = r - Len(S)
      BY <2>2, <1>0, <1>2, <1>3, <1>6
    <3> HIDE DEF t
    <3>5. OnStream(P, T, ok, ls, t)
      BY <3>2, <3>3, <3>4 DEF OnStream
    <3> QED
      BY <3>5 DEF t
  <2> QED
    BY <2>1, <2>2, <1>3, <1>5 DEF Replaying
<1>10. Replaying(P, S, ok, ls, TRUE, C)
  BY <1>1, <1>5 DEF Replaying
<1>11. ASSUME ~(x > ls) PROVE Replaying(P, S, ok, ls, d, C)
  <2>1. ASSUME ~d PROVE OnStream(P, S, ok, ls, r + 1)
    <3>1. Len(S) = 0
      <4>1. SUFFICES ASSUME Len(S) # 0 PROVE FALSE
        OBVIOUS
      <4>2. Len(S) \in 1 .. Len(S) /\ r \in 1 .. Len(P) /\ r - Len(S) + Len(S) = r
        BY <4>1, <2>1, <1>0, <1>1, <1>3, <1>6
      <4>3. P[r] > ls
        BY <4>2, <2>1, <1>1, <1>6
      <4>4. P[r] < P[r + 1]
        BY <4>2, <1>3, <1>7
      <4> QED
        BY <4>2, <4>3, <4>4, <1>3, <1>4, <1>8, <1>11
    <3>2. r + 1 - Len(S) = r + 1 /\ r - Len(S) = r
      BY <3>1, <1>3
    <3>3. ASSUME ok, ls > 0, NEW j \in 1 .. r + 1 PROVE P[j] <= ls
      <4>1. CASE j = r + 1
        BY <4>1, <1>4, <1>11
      <4>2. CASE j # r + 1
        <5>1. j \in 1 .. r
          BY <4>2, <1>3
        <5> QED
          BY <5>1, <3>2, <3>3, <2>1, <1>6
      <4> QED
        BY <4>1, <4>2
    <3> DEFINE t == r + 1
    <3>4. Len(S) <= t /\ \A j \in 1 .. Len(S) : S[j] = P[t - Len(S) + j]
      BY <3>1, <1>3
    <3>5. ok /\ ls > 0 => \A j \in 1 .. t - Len(S) : P[j] <= ls
      BY <3>1, <3>3, <1>0, <1>3
    <3> HIDE DEF t
    <3>6. OnStream(P, S, ok, ls, t)
      BY <3>4, <3>5 DEF OnStream
    <3> QED
      BY <3>6 DEF t
  <2> QED
    BY <2>1, <1>1, <1>3, <1>5 DEF Replaying
<1> QED
  BY <1>9, <1>10, <1>11 DEF x, C, T

\* At the end of the replay the connection is up to date.
LEMMA EndOnStream ==
  ASSUME NEW P \in Seq(Seqs), NEW S, NEW ok, NEW ls, NEW d,
         Replaying(P, S, ok, ls, d, <<>>), ~d
  PROVE  OnStream(P, S, ok, ls, Len(P))
<1>1. Len(P) - Len(<<>>) = Len(P)
  OBVIOUS
<1> QED
  BY <1>1 DEF Replaying
-----------------------------------------------------------------------------
\* The invariant holds initially.
LEMMA InitIInv == Init => IInv
<1> SUFFICES ASSUME Init PROVE IInv
  OBVIOUS
<1> USE FanoutAssumption, FreeAssumption
<1>1. TypeOK
  BY DEF Init, TypeOK, WindowType, IngestType, Idle, Objs, Seqs, Windows!NewWindow
<1>2. FreshObjects /\ PublishedInOrder /\ InFlight
  BY DEF Init, FreshObjects, PublishedInOrder, InOrder, InFlight, Idle, Objs
<1>3. WindowExact
  BY DEF Init, WindowExact, IsWindowOf, Windows!NewWindow, Objs
<1>4. ReaderLocks /\ ReplayProgress /\ ReplayThenLive
  BY DEF Init, ReaderLocks, ReplayProgress, ReplayThenLive, Objs
<1> QED
  BY <1>1, <1>2, <1>3, <1>4 DEF IInv

\* Steps that leave the registry, the rings and the history alone.
LEMMA DataFrame ==
  ASSUME IInv, UNCHANGED <<cur, LastSeq, ring, published>>
  PROVE  FreshObjects' /\ PublishedInOrder' /\ WindowExact'
<1>1. cur' = cur /\ LastSeq' = LastSeq /\ ring' = ring /\ published' = published
  OBVIOUS
<1>2. FreshObjects'
  BY <1>1 DEF IInv, FreshObjects
<1>3. PublishedInOrder'
  BY <1>1 DEF IInv, PublishedInOrder
<1>4. WindowExact'
  BY <1>1 DEF IInv, WindowExact
<1> QED
  BY <1>2, <1>3, <1>4

\* Steps that leave the daemon connections alone.
LEMMA IngestFrame ==
  ASSUME IInv, UNCHANGED <<cur, LastSeq, published, ingest>>
  PROVE  InFlight'
<1>1. cur' = cur /\ LastSeq' = LastSeq /\ published' = published /\ ingest' = ingest
  OBVIOUS
<1> QED
  BY <1>1 DEF IInv, InFlight

\* Steps that leave the app connections, apart from their channels, alone.
LEMMA ReaderFrame ==
  ASSUME IInv,
         UNCHANGED <<published, AttachedClients, publishMu, readerVars, sent, lost>>
  PROVE  ReaderLocks' /\ ReplayProgress' /\ ReplayThenLive'
<1>1. /\ published' = published /\ AttachedClients' = AttachedClients
      /\ publishMu' = publishMu /\ sent' = sent /\ lost' = lost /\ reader' = reader
      /\ attachedSession' = attachedSession /\ target' = target
      /\ lastSeqArg' = lastSeqArg /\ granted' = granted /\ backlog' = backlog
  BY DEF readerVars
<1>2. ReaderLocks'
  BY <1>1 DEF IInv, ReaderLocks
<1>3. ReplayProgress'
  BY <1>1 DEF IInv, ReplayProgress
<1>4. ReplayThenLive'
  BY <1>1 DEF IInv, ReplayThenLive
<1> QED
  BY <1>2, <1>3, <1>4

\* The writer goroutine only makes room in its own sendChan.
LEMMA WriterStepIInv ==
  ASSUME IInv, NEW c \in Clients, WriterStep(c)
  PROVE  IInv'
<1>1. TypeOK'
  <2>1. queued \in [Clients -> 0 .. ChanCap]
    BY DEF IInv, TypeOK
  <2>2. queued[c] - 1 \in 0 .. ChanCap
    BY <2>1, FanoutAssumption DEF WriterStep
  <2>3. queued' \in [Clients -> 0 .. ChanCap]
    BY <2>1, <2>2 DEF WriterStep
  <2> QED
    BY <2>3 DEF IInv, TypeOK, WriterStep, regVars, readerVars
<1>2. FreshObjects' /\ PublishedInOrder' /\ WindowExact'
  BY DataFrame DEF WriterStep, regVars
<1>3. InFlight'
  BY IngestFrame DEF WriterStep, regVars
<1>4. ReaderLocks' /\ ReplayProgress' /\ ReplayThenLive'
  BY ReaderFrame DEF WriterStep
<1> QED
  BY <1>1, <1>2, <1>3, <1>4 DEF IInv
-----------------------------------------------------------------------------
(***************************************************************************)
(* Daemon connections.                                                     *)
(***************************************************************************)
\* Back to waiting for the next frame.
LEMMA IdleIsTyped == Idle \in IngestType /\ Idle.at = "read" /\ ~Idle.data
BY FanoutAssumption DEF Idle, IngestType

\* A daemon connection waiting for its next frame has nothing in flight.
LEMMA NothingInFlight ==
  ASSUME SingleIngest, NEW i \in Ingests,
         \/ ingest'[i].at \in {"read", "register"}
         \/ ingest'[i].at = "restore" /\ cur' # 0
  PROVE  InFlight'
<1>1. \A j \in Ingests : \/ ingest'[j].at \in {"read", "register"}
                         \/ ingest'[j].at = "restore" /\ cur' # 0
  BY DEF SingleIngest
<1> QED
  BY <1>1 DEF InFlight

\* Registry.Register: the new object has published nothing.
LEMMA RegisterKeepsData ==
  ASSUME IInv, Register, UNCHANGED <<ring, published>>
  PROVE  /\ FreshObjects' /\ PublishedInOrder' /\ WindowExact'
         /\ cur' \in 0 .. MaxObjs /\ LastSeq' \in [Objs -> 0 .. MaxSeq]
<1>1. /\ cur \in 0 .. MaxObjs /\ LastSeq \in [Objs -> 0 .. MaxSeq]
      /\ published \in [Objs -> Seq(Seqs)]
  BY DEF IInv, TypeOK
<1>2. /\ cur' = cur + 1 /\ cur + 1 \in Objs /\ cur' \in 0 .. MaxObjs
      /\ LastSeq' = [LastSeq EXCEPT ![cur + 1] = 0]
      /\ LastSeq' \in [Objs -> 0 .. MaxSeq]
      /\ ring' = ring /\ published' = published
  BY <1>1, FanoutAssumption DEF Register, Objs
<1>3. FreshObjects'
  BY <1>1, <1>2, FanoutAssumption DEF IInv, FreshObjects, Objs
<1>4. published[cur + 1] = <<>>
  BY <1>1, <1>2 DEF IInv, FreshObjects
<1>5. PublishedInOrder'
  <2> SUFFICES ASSUME NEW g \in Objs PROVE InOrder(published[g], LastSeq'[g])
    BY <1>2 DEF PublishedInOrder
  <2>1. CASE g = cur + 1
    BY <2>1, <1>4 DEF InOrder
  <2>2. CASE g # cur + 1
    BY <2>2, <1>1, <1>2 DEF IInv, PublishedInOrder
  <2> QED
    BY <2>1, <2>2
<1>6. WindowExact'
  BY <1>2 DEF IInv, WindowExact
<1> QED
  BY <1>2, <1>3, <1>5, <1>6

\* Raising LastSeq keeps the published frames below it.
LEMMA RaiseKeepsData ==
  ASSUME IInv, cur # 0, NEW s \in 0 .. MaxSeq,
         LastSeq' = [LastSeq EXCEPT ![cur] = IF s > @ THEN s ELSE @],
         UNCHANGED <<cur, ring, published>>
  PROVE  /\ FreshObjects' /\ PublishedInOrder' /\ WindowExact'
         /\ LastSeq' \in [Objs -> 0 .. MaxSeq]
<1>1. /\ cur \in Objs /\ LastSeq \in [Objs -> 0 .. MaxSeq]
      /\ published \in [Objs -> Seq(Seqs)]
      /\ cur' = cur /\ ring' = ring /\ published' = published
  BY DEF IInv, TypeOK, Objs
<1>2. LastSeq' \in [Objs -> 0 .. MaxSeq]
  BY <1>1
<1>3. \A g \in Objs : LastSeq[g] \in Int /\ LastSeq'[g] \in Int /\ LastSeq[g] <= LastSeq'[g]
  BY <1>1, <1>2, FanoutAssumption
<1>4. PublishedInOrder'
  <2> SUFFICES ASSUME NEW g \in Objs PROVE InOrder(published[g], LastSeq'[g])
    BY <1>1 DEF PublishedInOrder
  <2>1. InOrder(published[g], LastSeq[g]) /\ published[g] \in Seq(Seqs)
    BY <1>1 DEF IInv, PublishedInOrder
  <2> QED
    BY <2>1, <1>3, OrderWeaken
<1>5. FreshObjects' /\ WindowExact'
  BY <1>1 DEF IInv, FreshObjects, WindowExact
<1> QED
  BY <1>2, <1>4, <1>5

\* session_started: the new object is empty, and nothing refers to it yet.
LEMMA HandleSessionStartedIInv ==
  ASSUME IInv, SingleIngest, NEW i \in Ingests, HandleSessionStarted(i)
  PROVE  IInv'
<1>1. /\ FreshObjects' /\ PublishedInOrder' /\ WindowExact'
      /\ cur' \in 0 .. MaxObjs /\ LastSeq' \in [Objs -> 0 .. MaxSeq]
  BY RegisterKeepsData DEF HandleSessionStarted
<1>2. TypeOK'
  BY <1>1 DEF IInv, TypeOK, HandleSessionStarted, readerVars
<1>3. InFlight'
  <2>1. ingest'[i].at = "read"
    BY DEF HandleSessionStarted
  <2> QED
    BY <2>1, NothingInFlight
<1>4. ReaderLocks' /\ ReplayProgress' /\ ReplayThenLive'
  BY ReaderFrame DEF HandleSessionStarted
<1> QED
  BY <1>1, <1>2, <1>3, <1>4 DEF IInv

\* AdvanceSeq: the frame in flight is newer than everything published.
LEMMA AdvanceSeqIInv ==
  ASSUME IInv, SingleIngest, NEW i \in Ingests, NEW s \in Seqs, AdvanceSeq(i, s)
  PROVE  IInv'
<1>1. /\ cur \in Objs /\ LastSeq \in [Objs -> 0 .. MaxSeq]
      /\ published \in [Objs -> Seq(Seqs)] /\ ingest \in [Ingests -> IngestType]
      /\ s \in 0 .. MaxSeq /\ s \in Int /\ LastSeq[cur] \in Int /\ s > LastSeq[cur]
  BY FanoutAssumption DEF IInv, TypeOK, AdvanceSeq, Objs, Seqs
<1>2. LastSeq' = [LastSeq EXCEPT ![cur] = IF s > @ THEN s ELSE @]
  BY <1>1 DEF AdvanceSeq
<1>3. /\ FreshObjects' /\ PublishedInOrder' /\ WindowExact'
      /\ LastSeq' \in [Objs -> 0 .. MaxSeq]
  BY <1>1, <1>2, RaiseKeepsData DEF AdvanceSeq
<1> DEFINE x == [at |-> "lookup", seq |-> s, data |-> TRUE, obj |-> 0]
<1>4. x \in IngestType
  BY <1>1, FanoutAssumption DEF IngestType
<1>5. ingest' = [ingest EXCEPT ![i] = x] /\ ingest' \in [Ingests -> IngestType]
  BY <1>1, <1>4 DEF AdvanceSeq
<1>6. TypeOK'
  BY <1>3, <1>5 DEF IInv, TypeOK, AdvanceSeq, readerVars
<1>7. InFlight'
  <2>1. \A j \in Ingests : ingest'[j] = x
    BY <1>1, <1>5 DEF SingleIngest
  <2>2. InOrder(published[cur], LastSeq[cur]) /\ published[cur] \in Seq(Seqs)
    BY <1>1 DEF IInv, PublishedInOrder
  <2>3. LastSeq[cur] <= s - 1 /\ s - 1 \in Int
    BY <1>1
  <2>4. InOrder(published[cur], s - 1)
    BY <2>2, <2>3, <1>1, OrderWeaken
  <2>5. cur' = cur /\ published' = published /\ cur # 0 /\ LastSeq'[cur] = s
    BY <1>1 DEF AdvanceSeq
  <2> QED
    BY <2>1, <2>4, <2>5, <1>1 DEF InFlight
<1>8. ReaderLocks' /\ ReplayProgress' /\ ReplayThenLive'
  BY ReaderFrame DEF AdvanceSeq
<1> QED
  BY <1>3, <1>6, <1>7, <1>8 DEF IInv

\* A control frame raises LastSeq and leaves the stream alone.
LEMMA HandleControlIInv ==
  ASSUME IInv, SingleIngest, NEW i \in Ingests, NEW s \in 0 .. MaxSeq, HandleControl(i, s)
  PROVE  IInv'
<1>1. /\ FreshObjects' /\ PublishedInOrder' /\ WindowExact'
      /\ LastSeq' \in [Objs -> 0 .. MaxSeq]
  BY RaiseKeepsData DEF HandleControl
<1> DEFINE x == [Idle EXCEPT !.at = "lookup"]
<1>2. x \in IngestType /\ x.at = "lookup" /\ ~x.data
  BY IdleIsTyped DEF IngestType
<1>3. ingest \in [Ingests -> IngestType] /\ ingest' = [ingest EXCEPT ![i] = x]
  BY DEF IInv, TypeOK, HandleControl
<1> HIDE DEF x
<1>4. TypeOK'
  BY <1>1, <1>2, <1>3 DEF IInv, TypeOK, HandleControl, readerVars
<1>5. InFlight'
  <2>1. \A j \in Ingests : ingest'[j] = x
    BY <1>3 DEF SingleIngest
  <2>2. cur' # 0
    BY DEF HandleControl
  <2> QED
    BY <2>1, <2>2, <1>2 DEF InFlight
<1>6. ReaderLocks' /\ ReplayProgress' /\ ReplayThenLive'
  BY ReaderFrame DEF HandleControl
<1> QED
  BY <1>1, <1>4, <1>5, <1>6 DEF IInv

\* Registry.Get: with one daemon connection the object found is the registered one.
LEMMA LookupIInv ==
  ASSUME IInv, SingleIngest, NEW i \in Ingests, Lookup(i)
  PROVE  IInv'
<1>1. FreshObjects' /\ PublishedInOrder' /\ WindowExact'
  BY DataFrame DEF Lookup, regVars
<1>2. /\ ingest[i] \in IngestType /\ ingest \in [Ingests -> IngestType]
      /\ cur \in 0 .. MaxObjs /\ ingest[i].at = "lookup"
  BY DEF IInv, TypeOK, Lookup
<1> DEFINE x == [ingest[i] EXCEPT !.at = IF ingest[i].data THEN "publish" ELSE "broadcast",
                                  !.obj = cur]
<1>3. /\ x \in IngestType /\ x.obj = cur /\ x.seq = ingest[i].seq
      /\ x.data = ingest[i].data
      /\ x.at = IF ingest[i].data THEN "publish" ELSE "broadcast"
  BY <1>2 DEF IngestType
<1>4. ingest' = [ingest EXCEPT ![i] = x]
  BY DEF Lookup
<1> HIDE DEF x
<1>5. TypeOK'
  BY <1>2, <1>3, <1>4 DEF IInv, TypeOK, Lookup, readerVars, regVars
<1>6. InFlight'
  <2>1. \A j \in Ingests : ingest'[j] = x
    BY <1>2, <1>4 DEF SingleIngest
  <2>2. cur' = cur /\ LastSeq' = LastSeq /\ published' = published
    BY DEF Lookup, regVars
  <2>3. /\ cur # 0
        /\ ingest[i].data => /\ ingest[i].seq \in Seqs
                             /\ ingest[i].seq <= LastSeq[cur]
                             /\ InOrder(published[cur], ingest[i].seq - 1)
    BY <1>2 DEF IInv, InFlight
  <2> QED
    BY <2>1, <2>2, <2>3, <1>3 DEF InFlight
<1>7. ReaderLocks' /\ ReplayProgress' /\ ReplayThenLive'
  BY ReaderFrame DEF Lookup
<1> QED
  BY <1>1, <1>5, <1>6, <1>7 DEF IInv

\* Session.Publish: the frame is newer than everything published for its
\* object, and nobody replays that object meanwhile.
LEMMA PublishIInv ==
  ASSUME IInv, SingleIngest, NEW i \in Ingests, NEW n \in 0 .. MaxSeq, Publish(i, n)
  PROVE  IInv'
<1> DEFINE g == ingest[i].obj
           s == ingest[i].seq
           full(c) == queued[c] >= ChanCap
<1>1. /\ g = cur /\ cur # 0 /\ s \in Seqs /\ s <= LastSeq[cur]
      /\ InOrder(published[cur], s - 1)
  BY DEF IInv, InFlight, Publish
<1>2. /\ g \in Objs /\ cur \in Objs /\ published \in [Objs -> Seq(Seqs)]
      /\ ring \in [Objs -> WindowType] /\ LastSeq \in [Objs -> 0 .. MaxSeq]
      /\ ingest \in [Ingests -> IngestType] /\ queued \in [Clients -> 0 .. ChanCap]
      /\ sent \in [Clients -> Seq(Seqs)] /\ lost \in [Clients -> BOOLEAN]
      /\ AttachedClients \in [Objs -> SUBSET Clients]
      /\ granted \in [Clients -> BOOLEAN] /\ lastSeqArg \in [Clients -> 0 .. MaxSeq]
  BY <1>1 DEF IInv, TypeOK, Objs
<1>3. /\ publishMu[g] = Free
      /\ n \in 0 .. Len(ring[g].entries)
      /\ ring' = [ring EXCEPT ![g] = Windows!AppendEntry(@, n, s)]
      /\ published' = [published EXCEPT ![g] = Append(@, s)]
      /\ queued' = [c \in Clients |-> IF c \in AttachedClients[g] /\ queued[c] < ChanCap
                                      THEN queued[c] + 1 ELSE queued[c]]
      /\ sent' = [c \in Clients |-> IF c \in AttachedClients[g] /\ queued[c] < ChanCap
                                    THEN Append(sent[c], s) ELSE sent[c]]
      /\ lost' = [c \in Clients |-> lost[c] \/ (c \in AttachedClients[g] /\ queued[c] >= ChanCap)]
      /\ ingest' = [ingest EXCEPT ![i] = [@ EXCEPT !.at = "balance"]]
      /\ cur' = cur /\ LastSeq' = LastSeq /\ AttachedClients' = AttachedClients
      /\ publishMu' = publishMu /\ reader' = reader /\ attachedSession' = attachedSession
      /\ target' = target /\ lastSeqArg' = lastSeqArg /\ granted' = granted
      /\ backlog' = backlog
  BY DEF Publish, SendData, Enqueue, regVars, readerVars
<1> HIDE DEF g, s
<1>4. Windows!AppendEntry(ring[g], n, s) \in WindowType
  BY <1>1, <1>2, <1>3, AppendEntryFacts
<1>5. ring' \in [Objs -> WindowType] /\ published' \in [Objs -> Seq(Seqs)]
  BY <1>1, <1>2, <1>3, <1>4
<1>6. /\ queued' \in [Clients -> 0 .. ChanCap] /\ sent' \in [Clients -> Seq(Seqs)]
      /\ lost' \in [Clients -> BOOLEAN]
  <2>1. queued' \in [Clients -> 0 .. ChanCap]
    BY <1>2, <1>3, FanoutAssumption
  <2>2. sent' \in [Clients -> Seq(Seqs)]
    BY <1>1, <1>2, <1>3
  <2>3. lost' \in [Clients -> BOOLEAN]
    BY <1>3
  <2> QED
    BY <2>1, <2>2, <2>3
<1> DEFINE x == [ingest[i] EXCEPT !.at = "balance"]
<1>7. x \in IngestType /\ x.at = "balance"
  BY <1>2 DEF IngestType
<1>8. ingest' = [ingest EXCEPT ![i] = x] /\ ingest' \in [Ingests -> IngestType]
  BY <1>2, <1>3, <1>7
<1> HIDE DEF x
<1>9. TypeOK'
  BY <1>3, <1>5, <1>6, <1>8 DEF IInv, TypeOK
<1>10. FreshObjects'
  BY <1>1, <1>2, <1>3, FanoutAssumption DEF IInv, FreshObjects, Objs
<1>11. PublishedInOrder'
  <2> SUFFICES ASSUME NEW h \in Objs PROVE InOrder(published'[h], LastSeq[h])
    BY <1>3 DEF PublishedInOrder
  <2>1. CASE h = g
    <3>1. LastSeq[g] \in Int /\ published'[g] = Append(published[g], s)
      BY <1>2, <1>3
    <3> QED
      BY <2>1, <3>1, <1>1, <1>2, PublishKeepsOrder
  <2>2. CASE h # g
    BY <2>2, <1>2, <1>3 DEF IInv, PublishedInOrder
  <2> QED
    BY <2>1, <2>2
<1>12. WindowExact'
  <2> SUFFICES ASSUME NEW h \in Objs PROVE IsWindowOf(ring'[h], published'[h])
    BY DEF WindowExact
  <2>0. IsWindowOf(ring[h], published[h])
    BY DEF IInv, WindowExact
  <2>1. CASE h = g
    <3>1. /\ ring'[g] = Windows!AppendEntry(ring[g], n, s)
          /\ published'[g] = Append(published[g], s)
      BY <1>2, <1>3
    <3> QED
      BY <2>0, <2>1, <3>1, <1>1, <1>2, <1>3, PublishKeepsWindow
  <2>2. CASE h # g
    BY <2>0, <2>2, <1>2, <1>3
  <2> QED
    BY <2>1, <2>2
<1>13. InFlight'
  <2>1. \A j \in Ingests : ingest'[j].at = "balance"
    BY <1>2, <1>7, <1>8 DEF SingleIngest
  <2> QED
    BY <2>1, <1>1, <1>3 DEF InFlight
<1>14. ReaderLocks'
  BY <1>3 DEF IInv, ReaderLocks
<1>15. ReplayProgress'
  <2> SUFFICES ASSUME NEW c \in Clients, reader[c] = "replay"
               PROVE  Replaying(published'[target[c]], sent'[c], granted[c],
                                lastSeqArg[c], lost'[c], backlog[c])
    BY <1>3 DEF ReplayProgress
  <2>1. target[c] \in Objs /\ target[c] # g
    BY <1>3, FreeAssumption DEF IInv, ReaderLocks
  <2>2. c \notin AttachedClients[g]
    BY <1>2 DEF IInv, ReaderLocks
  <2>3. published'[target[c]] = published[target[c]]
    BY <2>1, <1>2, <1>3
  <2>4. sent'[c] = sent[c]
    BY <2>2, <1>3
  <2>5. lost'[c] = lost[c]
    <3>1. lost'[c] = (lost[c] \/ (c \in AttachedClients[g] /\ queued[c] >= ChanCap))
      BY <1>3
    <3>2. lost[c] \in BOOLEAN
      BY <1>2
    <3> QED
      BY <2>2, <3>1, <3>2
  <2>6. Replaying(published[target[c]], sent[c], granted[c], lastSeqArg[c], lost[c], backlog[c])
    BY DEF IInv, ReplayProgress
  <2> QED
    BY <2>3, <2>4, <2>5, <2>6
<1>16. ReplayThenLive'
  <2> SUFFICES ASSUME NEW h \in Objs, NEW c \in AttachedClients[h], ~lost'[c]
               PROVE  OnStream(published'[h], sent'[c], granted[c], lastSeqArg[c],
                               Len(published'[h]))
    BY <1>3 DEF ReplayThenLive
  <2>1. c \in Clients /\ attachedSession[c] = h
    BY <1>2 DEF IInv, ReaderLocks
  <2>2. ~lost[c] /\ ~(c \in AttachedClients[g] /\ queued[c] >= ChanCap)
    <3>1. lost'[c] = (lost[c] \/ (c \in AttachedClients[g] /\ queued[c] >= ChanCap))
      BY <2>1, <1>3
    <3> QED
      BY <3>1
  <2>3. OnStream(published[h], sent[c], granted[c], lastSeqArg[c], Len(published[h]))
    BY <2>2 DEF IInv, ReplayThenLive
  <2>4. CASE h = g
    <3>1. queued[c] < ChanCap
      BY <2>1, <2>2, <2>4, <1>2, FanoutAssumption
    <3>2. sent'[c] = Append(sent[c], s) /\ published'[h] = Append(published[h], s)
      BY <2>1, <2>4, <3>1, <1>2, <1>3
    <3>3. /\ sent[c] \in Seq(Seqs) /\ published[h] \in Seq(Seqs)
          /\ granted[c] \in BOOLEAN /\ lastSeqArg[c] \in Nat
      BY <2>1, <1>2, FanoutAssumption
    <3> QED
      BY <2>3, <3>2, <3>3, <1>1, LiveFrame
  <2>5. CASE h # g
    <3>1. c \notin AttachedClients[g]
      BY <2>1, <2>5, <1>2 DEF IInv, ReaderLocks
    <3>2. sent'[c] = sent[c] /\ published'[h] = published[h]
      BY <2>1, <2>5, <3>1, <1>2, <1>3
    <3> QED
      BY <2>3, <3>2
  <2> QED
    BY <2>4, <2>5
<1> QED
  BY <1>9, <1>10, <1>11, <1>12, <1>13, <1>14, <1>15, <1>16 DEF IInv

\* Evicting entries of the registered object's ring.
LEMMA EvictKeepsData ==
  ASSUME IInv, cur # 0, NEW n \in 0 .. Len(ring[cur].entries),
         ring' = [ring EXCEPT ![cur] = Windows!EvictEntries(@, n)],
         UNCHANGED <<cur, LastSeq, published>>
  PROVE  /\ FreshObjects' /\ PublishedInOrder' /\ WindowExact'
         /\ ring' \in [Objs -> WindowType]
<1>1. /\ cur \in Objs /\ ring \in [Objs -> WindowType]
      /\ published \in [Objs -> Seq(Seqs)]
      /\ cur' = cur /\ LastSeq' = LastSeq /\ published' = published
  BY DEF IInv, TypeOK, Objs
<1>2. Windows!EvictEntries(ring[cur], n) \in WindowType
  BY <1>1, EvictEntriesFacts
<1>3. ring' \in [Objs -> WindowType]
  BY <1>1, <1>2
<1>4. WindowExact'
  <2> SUFFICES ASSUME NEW h \in Objs PROVE IsWindowOf(ring'[h], published[h])
    BY <1>1 DEF WindowExact
  <2>0. IsWindowOf(ring[h], published[h])
    BY DEF IInv, WindowExact
  <2>1. CASE h = cur
    <3>1. ring'[h] = Windows!EvictEntries(ring[h], n)
      BY <2>1, <1>1
    <3> QED
      BY <2>0, <2>1, <3>1, <1>1, EvictKeepsWindow
  <2>2. CASE h # cur
    BY <2>0, <2>2, <1>1
  <2> QED
    BY <2>1, <2>2
<1>5. FreshObjects' /\ PublishedInOrder'
  BY <1>1 DEF IInv, FreshObjects, PublishedInOrder
<1> QED
  BY <1>3, <1>4, <1>5

\* BalanceGlobalLRU after a publish: the ring stays a suffix of the stream.
LEMMA BalanceIInv ==
  ASSUME IInv, SingleIngest, NEW i \in Ingests, NEW n \in 0 .. MaxSeq, Balance(i, n)
  PROVE  IInv'
<1>0. cur # 0 /\ n \in 0 .. Len(ring[cur].entries)
  BY DEF IInv, InFlight, Balance
<1>1. /\ FreshObjects' /\ PublishedInOrder' /\ WindowExact'
      /\ ring' \in [Objs -> WindowType]
  BY <1>0, EvictKeepsData DEF Balance, regVars
<1>2. ingest \in [Ingests -> IngestType] /\ ingest' = [ingest EXCEPT ![i] = Idle]
  BY DEF IInv, TypeOK, Balance
<1>3. TypeOK'
  BY <1>1, <1>2, IdleIsTyped DEF IInv, TypeOK, Balance, readerVars, regVars
<1>4. InFlight'
  <2>1. ingest'[i].at = "read"
    BY <1>2, IdleIsTyped
  <2> QED
    BY <2>1, NothingInFlight
<1>5. ReaderLocks' /\ ReplayProgress' /\ ReplayThenLive'
  BY ReaderFrame DEF Balance
<1> QED
  BY <1>1, <1>3, <1>4, <1>5 DEF IInv

\* BalanceGlobalLRU run for another session: the same argument.
LEMMA BalanceElsewhereIInv ==
  ASSUME IInv, NEW n \in 1 .. MaxSeq, BalanceElsewhere(n)
  PROVE  IInv'
<1>0. cur \in Objs /\ ring[cur] \in WindowType /\ n \in 1 .. Len(ring[cur].entries)
  <2>1. cur # 0 /\ n \in 1 .. Len(ring[cur].entries)
    BY DEF BalanceElsewhere
  <2>2. cur \in 0 .. MaxObjs /\ ring \in [Objs -> WindowType]
    BY DEF IInv, TypeOK
  <2>3. cur \in Objs
    BY <2>1, <2>2, FanoutAssumption DEF Objs
  <2> QED
    BY <2>1, <2>2, <2>3
<1>1. cur # 0 /\ n \in 0 .. Len(ring[cur].entries)
  <2>1. ring[cur].entries \in Seq(Seqs)
    BY <1>0 DEF WindowType
  <2> QED
    BY <2>1, <1>0 DEF BalanceElsewhere
<1>2. /\ FreshObjects' /\ PublishedInOrder' /\ WindowExact'
      /\ ring' \in [Objs -> WindowType]
  BY <1>0, <1>1, EvictKeepsData DEF BalanceElsewhere, regVars
<1>3. TypeOK'
  BY <1>2 DEF IInv, TypeOK, BalanceElsewhere, readerVars, regVars
<1>4. InFlight'
  BY IngestFrame DEF BalanceElsewhere, regVars
<1>5. ReaderLocks' /\ ReplayProgress' /\ ReplayThenLive'
  BY ReaderFrame DEF BalanceElsewhere
<1> QED
  BY <1>2, <1>3, <1>4, <1>5 DEF IInv

\* Broadcast: a frame without a seq only occupies room in the sendChans.
LEMMA BroadcastIInv ==
  ASSUME IInv, SingleIngest, NEW i \in Ingests, Broadcast(i)
  PROVE  IInv'
<1>1. FreshObjects' /\ PublishedInOrder' /\ WindowExact'
  BY DataFrame DEF Broadcast, regVars
<1>2. ingest \in [Ingests -> IngestType] /\ ingest' = [ingest EXCEPT ![i] = Idle]
  BY DEF IInv, TypeOK, Broadcast
<1>3. queued' \in [Clients -> 0 .. ChanCap]
  BY FanoutAssumption DEF IInv, TypeOK, Broadcast, Enqueue
<1>4. TypeOK'
  BY <1>2, <1>3, IdleIsTyped DEF IInv, TypeOK, Broadcast, readerVars, regVars
<1>5. InFlight'
  <2>1. ingest'[i].at = "read"
    BY <1>2, IdleIsTyped
  <2> QED
    BY <2>1, NothingInFlight
<1>6. ReaderLocks' /\ ReplayProgress' /\ ReplayThenLive'
  BY ReaderFrame DEF Broadcast
<1> QED
  BY <1>1, <1>4, <1>5, <1>6 DEF IInv

\* session_resume: LastSeq only grows, or the connection goes on to register.
LEMMA HandleSessionResumeIInv ==
  ASSUME IInv, SingleIngest, NEW i \in Ingests, NEW s \in 0 .. MaxSeq,
         HandleSessionResume(i, s)
  PROVE  IInv'
<1>1. ReaderLocks' /\ ReplayProgress' /\ ReplayThenLive'
  BY ReaderFrame DEF HandleSessionResume
<1>2. CASE cur # 0
  <2>1. /\ FreshObjects' /\ PublishedInOrder' /\ WindowExact'
        /\ LastSeq' \in [Objs -> 0 .. MaxSeq]
    BY <1>2, RaiseKeepsData DEF HandleSessionResume
  <2>2. TypeOK'
    BY <1>2, <2>1 DEF IInv, TypeOK, HandleSessionResume, readerVars
  <2>3. InFlight'
    <3>1. ingest'[i].at = "read"
      BY <1>2 DEF HandleSessionResume
    <3> QED
      BY <3>1, NothingInFlight
  <2> QED
    BY <1>1, <2>1, <2>2, <2>3 DEF IInv
<1>3. CASE cur = 0
  <2>1. FreshObjects' /\ PublishedInOrder' /\ WindowExact'
    BY <1>3, DataFrame DEF HandleSessionResume
  <2> DEFINE x == [Idle EXCEPT !.at = "register", !.seq = s]
  <2>2. x \in IngestType /\ x.at = "register"
    BY IdleIsTyped DEF IngestType
  <2>3. ingest \in [Ingests -> IngestType] /\ ingest' = [ingest EXCEPT ![i] = x]
    BY <1>3 DEF IInv, TypeOK, HandleSessionResume
  <2> HIDE DEF x
  <2>4. TypeOK'
    BY <1>3, <2>2, <2>3 DEF IInv, TypeOK, HandleSessionResume, readerVars
  <2>5. InFlight'
    <3>1. ingest'[i].at = "register"
      BY <2>2, <2>3
    <3> QED
      BY <3>1, NothingInFlight
  <2> QED
    BY <1>1, <2>1, <2>4, <2>5 DEF IInv
<1> QED
  BY <1>2, <1>3

\* The Register of an unknown session_resume: as for session_started.
LEMMA ResumeRegisterIInv ==
  ASSUME IInv, SingleIngest, NEW i \in Ingests, ResumeRegister(i)
  PROVE  IInv'
<1>1. /\ FreshObjects' /\ PublishedInOrder' /\ WindowExact'
      /\ cur' \in 0 .. MaxObjs /\ LastSeq' \in [Objs -> 0 .. MaxSeq]
  BY RegisterKeepsData DEF ResumeRegister
<1> DEFINE x == [ingest[i] EXCEPT !.at = "restore"]
<1>2. ingest \in [Ingests -> IngestType] /\ ingest' = [ingest EXCEPT ![i] = x]
  BY DEF IInv, TypeOK, ResumeRegister
<1>3. x \in IngestType /\ x.at = "restore"
  BY <1>2 DEF IngestType
<1> HIDE DEF x
<1>4. TypeOK'
  BY <1>1, <1>2, <1>3 DEF IInv, TypeOK, ResumeRegister, readerVars
<1>5. InFlight'
  <2>1. ingest'[i].at = "restore"
    BY <1>2, <1>3
  <2>2. cur' # 0
    BY DEF IInv, TypeOK, ResumeRegister, Register
  <2> QED
    BY <2>1, <2>2, NothingInFlight
<1>6. ReaderLocks' /\ ReplayProgress' /\ ReplayThenLive'
  BY ReaderFrame DEF ResumeRegister
<1> QED
  BY <1>1, <1>4, <1>5, <1>6 DEF IInv

\* RestoreLastSeq only raises LastSeq.
LEMMA RestoreLastSeqIInv ==
  ASSUME IInv, SingleIngest, NEW i \in Ingests, RestoreLastSeq(i)
  PROVE  IInv'
<1>0. cur # 0 /\ ingest[i].seq \in 0 .. MaxSeq
  BY DEF IInv, TypeOK, InFlight, IngestType, RestoreLastSeq
<1>1. /\ FreshObjects' /\ PublishedInOrder' /\ WindowExact'
      /\ LastSeq' \in [Objs -> 0 .. MaxSeq]
  BY <1>0, RaiseKeepsData DEF RestoreLastSeq
<1>2. ingest \in [Ingests -> IngestType] /\ ingest' = [ingest EXCEPT ![i] = Idle]
  BY DEF IInv, TypeOK, RestoreLastSeq
<1>3. TypeOK'
  BY <1>1, <1>2, IdleIsTyped DEF IInv, TypeOK, RestoreLastSeq, readerVars
<1>4. InFlight'
  <2>1. ingest'[i].at = "read"
    BY <1>2, IdleIsTyped
  <2> QED
    BY <2>1, NothingInFlight
<1>5. ReaderLocks' /\ ReplayProgress' /\ ReplayThenLive'
  BY ReaderFrame DEF RestoreLastSeq
<1> QED
  BY <1>1, <1>3, <1>4, <1>5 DEF IInv
-----------------------------------------------------------------------------
(***************************************************************************)
(* App connections.                                                        *)
(***************************************************************************)
LEMMA ConnectIInv ==
  ASSUME IInv, NEW c \in Clients, Connect(c)
  PROVE  IInv'
<1>0. /\ reader[c] = "closed" /\ reader' = [reader EXCEPT ![c] = "loop"]
      /\ reader \in [Clients -> {"closed", "loop", "attach", "replay"}]
      /\ published' = published /\ AttachedClients' = AttachedClients
      /\ publishMu' = publishMu /\ sent' = sent /\ lost' = lost
      /\ attachedSession' = attachedSession /\ target' = target
      /\ lastSeqArg' = lastSeqArg /\ granted' = granted /\ backlog' = backlog
  BY DEF IInv, TypeOK, Connect
<1>1. FreshObjects' /\ PublishedInOrder' /\ WindowExact'
  BY DataFrame DEF Connect, regVars
<1>2. InFlight'
  BY IngestFrame DEF Connect, regVars
<1>3. TypeOK'
  BY DEF IInv, TypeOK, Connect, regVars
<1>4. \A d \in Clients : d # c => reader'[d] = reader[d]
  BY <1>0
<1>5. reader'[c] = "loop"
  BY <1>0
<1>6. ReaderLocks'
  BY <1>0, <1>4, <1>5 DEF IInv, TypeOK, ReaderLocks
<1>7. ReplayProgress'
  BY <1>0, <1>4, <1>5 DEF IInv, ReplayProgress
<1>8. ReplayThenLive'
  BY <1>0 DEF IInv, ReplayThenLive
<1> QED
  BY <1>1, <1>2, <1>3, <1>6, <1>7, <1>8 DEF IInv

\* After Session.Detach the connection is in no fan-out set.
LEMMA DetachFacts ==
  ASSUME IInv, NEW c \in Clients, DetachCurrent(c)
  PROVE  /\ AttachedClients' \in [Objs -> SUBSET Clients]
         /\ attachedSession' \in [Clients -> 0 .. MaxObjs]
         /\ granted' \in [Clients -> BOOLEAN]
         /\ sent' \in [Clients -> Seq(Seqs)]
         /\ lost' \in [Clients -> BOOLEAN]
         /\ \A g \in Objs : AttachedClients'[g] \subseteq AttachedClients[g] \ {c}
         /\ \A d \in Clients : d # c =>
              /\ attachedSession'[d] = attachedSession[d]
              /\ granted'[d] = granted[d] /\ sent'[d] = sent[d] /\ lost'[d] = lost[d]
<1>0. /\ AttachedClients \in [Objs -> SUBSET Clients]
      /\ attachedSession \in [Clients -> 0 .. MaxObjs]
      /\ granted \in [Clients -> BOOLEAN]
      /\ sent \in [Clients -> Seq(Seqs)]
      /\ lost \in [Clients -> BOOLEAN]
  BY DEF IInv, TypeOK
<1>1. AttachedClients' \in [Objs -> SUBSET Clients]
  BY <1>0 DEF DetachCurrent
<1>2. attachedSession' \in [Clients -> 0 .. MaxObjs]
  BY <1>0, FanoutAssumption DEF DetachCurrent
<1>3. sent' \in [Clients -> Seq(Seqs)]
  <2>1. <<>> \in Seq(Seqs)
    OBVIOUS
  <2> QED
    BY <2>1, <1>0 DEF DetachCurrent
<1>4. lost' \in [Clients -> BOOLEAN] /\ granted' \in [Clients -> BOOLEAN]
  BY <1>0 DEF DetachCurrent
<1>5. ASSUME NEW g \in Objs
      PROVE  AttachedClients'[g] \subseteq AttachedClients[g] \ {c}
  <2>1. c \in AttachedClients[g] => attachedSession[c] = g
    BY DEF IInv, ReaderLocks
  <2> QED
    BY <2>1 DEF DetachCurrent
<1>6. ASSUME NEW d \in Clients, d # c
      PROVE  /\ attachedSession'[d] = attachedSession[d]
             /\ granted'[d] = granted[d] /\ sent'[d] = sent[d] /\ lost'[d] = lost[d]
  BY <1>0, <1>6 DEF DetachCurrent
<1> QED
  BY <1>1, <1>2, <1>3, <1>4, <1>5, <1>6

\* Leaving the attachment from the read loop disturbs no other connection.
LEMMA DetachKeepsReaders ==
  ASSUME IInv, NEW c \in Clients, DetachCurrent(c), reader[c] = "loop",
         UNCHANGED <<published, publishMu, backlog>>,
         NEW t \in 0 .. MaxObjs, target' = [target EXCEPT ![c] = t],
         NEW ls \in 0 .. MaxSeq, lastSeqArg' = [lastSeqArg EXCEPT ![c] = ls],
         NEW r \in {"closed", "loop", "attach"}, reader' = [reader EXCEPT ![c] = r],
         r = "attach" => t # 0
  PROVE  /\ ReaderLocks' /\ ReplayProgress' /\ ReplayThenLive'
         /\ target' \in [Clients -> 0 .. MaxObjs]
         /\ lastSeqArg' \in [Clients -> 0 .. MaxSeq]
         /\ reader' \in [Clients -> {"closed", "loop", "attach", "replay"}]
<1>0. /\ reader \in [Clients -> {"closed", "loop", "attach", "replay"}]
      /\ target \in [Clients -> 0 .. MaxObjs]
      /\ lastSeqArg \in [Clients -> 0 .. MaxSeq]
      /\ publishMu \in [Objs -> Clients \cup {Free}]
      /\ AttachedClients \in [Objs -> SUBSET Clients]
  BY DEF IInv, TypeOK
<1>1. /\ target' \in [Clients -> 0 .. MaxObjs]
      /\ lastSeqArg' \in [Clients -> 0 .. MaxSeq]
      /\ reader' \in [Clients -> {"closed", "loop", "attach", "replay"}]
  BY <1>0
<1>2. /\ reader'[c] = r /\ target'[c] = t
      /\ published' = published /\ publishMu' = publishMu /\ backlog' = backlog
      /\ \A d \in Clients : d # c =>
           reader'[d] = reader[d] /\ target'[d] = target[d] /\ lastSeqArg'[d] = lastSeqArg[d]
  BY <1>0
<1>3. /\ \A g \in Objs : AttachedClients'[g] \subseteq AttachedClients[g] \ {c}
      /\ \A d \in Clients : d # c =>
           /\ attachedSession'[d] = attachedSession[d]
           /\ granted'[d] = granted[d] /\ sent'[d] = sent[d] /\ lost'[d] = lost[d]
  BY DetachFacts
<1>4. ReaderLocks'
  <2>1. ASSUME NEW d \in Clients
        PROVE  /\ reader'[d] \in {"attach", "replay"} => target'[d] \in Objs
               /\ reader'[d] = "replay" => publishMu'[target'[d]] = d
    <3>1. CASE d = c
      BY <3>1, <1>2, FanoutAssumption DEF Objs
    <3>2. CASE d # c
      BY <3>2, <1>2 DEF IInv, ReaderLocks
    <3> QED
      BY <3>1, <3>2
  <2>2. ASSUME NEW g \in Objs, NEW d \in AttachedClients'[g]
        PROVE  reader'[d] = "loop" /\ attachedSession'[d] = g
    <3>1. d \in AttachedClients[g] /\ d # c /\ d \in Clients
      BY <1>0, <1>3
    <3> QED
      BY <3>1, <1>2, <1>3 DEF IInv, ReaderLocks
  <2>3. ASSUME NEW g \in Objs, publishMu'[g] # Free
        PROVE  reader'[publishMu'[g]] = "replay" /\ target'[publishMu'[g]] = g
    <3>1. publishMu[g] \in Clients /\ reader[publishMu[g]] = "replay" /\ target[publishMu[g]] = g
      BY <2>3, <1>0, <1>2 DEF IInv, ReaderLocks
    <3>2. publishMu[g] # c
      BY <3>1
    <3> QED
      BY <3>1, <3>2, <1>2
  <2> QED
    BY <2>1, <2>2, <2>3 DEF ReaderLocks
<1>5. ReplayProgress'
  <2> SUFFICES ASSUME NEW d \in Clients, reader'[d] = "replay"
               PROVE  Replaying(published[target'[d]], sent'[d], granted'[d],
                                lastSeqArg'[d], lost'[d], backlog[d])
    BY <1>2 DEF ReplayProgress
  <2>1. d # c
    BY <1>2
  <2> QED
    BY <2>1, <1>2, <1>3 DEF IInv, ReplayProgress
<1>6. ReplayThenLive'
  <2> SUFFICES ASSUME NEW g \in Objs, NEW d \in AttachedClients'[g], ~lost'[d]
               PROVE  OnStream(published[g], sent'[d], granted'[d], lastSeqArg'[d],
                               Len(published[g]))
    BY <1>2 DEF ReplayThenLive
  <2>1. d \in AttachedClients[g] /\ d # c /\ d \in Clients
    BY <1>0, <1>3
  <2> QED
    BY <2>1, <1>2, <1>3 DEF IInv, ReplayThenLive
<1> QED
  BY <1>1, <1>4, <1>5, <1>6

\* attach: the connection leaves its old fan-out set before it replays.
LEMMA HandleAttachIInv ==
  ASSUME IInv, NEW c \in Clients, NEW s \in 0 .. MaxSeq, HandleAttach(c, s)
  PROVE  IInv'
<1>1. FreshObjects' /\ PublishedInOrder' /\ WindowExact'
  BY DataFrame DEF HandleAttach, regVars
<1>2. InFlight'
  BY IngestFrame DEF HandleAttach, regVars
<1>3. cur \in 0 .. MaxObjs /\ cur # 0
  BY DEF IInv, TypeOK, HandleAttach
<1>4. /\ ReaderLocks' /\ ReplayProgress' /\ ReplayThenLive'
      /\ target' \in [Clients -> 0 .. MaxObjs]
      /\ lastSeqArg' \in [Clients -> 0 .. MaxSeq]
      /\ reader' \in [Clients -> {"closed", "loop", "attach", "replay"}]
  BY <1>3, DetachKeepsReaders DEF HandleAttach
<1>5. /\ AttachedClients' \in [Objs -> SUBSET Clients]
      /\ attachedSession' \in [Clients -> 0 .. MaxObjs]
      /\ granted' \in [Clients -> BOOLEAN]
      /\ sent' \in [Clients -> Seq(Seqs)]
      /\ lost' \in [Clients -> BOOLEAN]
  BY DetachFacts DEF HandleAttach
<1>6. TypeOK'
  BY <1>4, <1>5 DEF IInv, TypeOK, HandleAttach, regVars
<1> QED
  BY <1>1, <1>2, <1>4, <1>6 DEF IInv

\* detach: the connection leaves its fan-out set.
LEMMA HandleDetachIInv ==
  ASSUME IInv, NEW c \in Clients, HandleDetach(c)
  PROVE  IInv'
<1>1. FreshObjects' /\ PublishedInOrder' /\ WindowExact'
  BY DataFrame DEF HandleDetach, regVars
<1>2. InFlight'
  BY IngestFrame DEF HandleDetach, regVars
<1>3. /\ 0 \in 0 .. MaxObjs /\ 0 \in 0 .. MaxSeq
      /\ reader' = [reader EXCEPT ![c] = "loop"]
  BY FanoutAssumption DEF IInv, TypeOK, HandleDetach
<1>4. /\ ReaderLocks' /\ ReplayProgress' /\ ReplayThenLive'
      /\ target' \in [Clients -> 0 .. MaxObjs]
      /\ lastSeqArg' \in [Clients -> 0 .. MaxSeq]
  BY <1>3, DetachKeepsReaders DEF HandleDetach
<1>5. /\ AttachedClients' \in [Objs -> SUBSET Clients]
      /\ attachedSession' \in [Clients -> 0 .. MaxObjs]
      /\ granted' \in [Clients -> BOOLEAN]
      /\ sent' \in [Clients -> Seq(Seqs)]
      /\ lost' \in [Clients -> BOOLEAN]
  BY DetachFacts DEF HandleDetach
<1>6. TypeOK'
  BY <1>4, <1>5 DEF IInv, TypeOK, HandleDetach, regVars
<1> QED
  BY <1>1, <1>2, <1>4, <1>6 DEF IInv

\* The deferred cleanup of an app connection: as for detach.
LEMMA CloseIInv ==
  ASSUME IInv, NEW c \in Clients, Close(c)
  PROVE  IInv'
<1>1. FreshObjects' /\ PublishedInOrder' /\ WindowExact'
  BY DataFrame DEF Close, regVars
<1>2. InFlight'
  BY IngestFrame DEF Close, regVars
<1>3. 0 \in 0 .. MaxObjs /\ 0 \in 0 .. MaxSeq /\ 0 \in 0 .. ChanCap
  BY FanoutAssumption
<1>4. /\ ReaderLocks' /\ ReplayProgress' /\ ReplayThenLive'
      /\ target' \in [Clients -> 0 .. MaxObjs]
      /\ lastSeqArg' \in [Clients -> 0 .. MaxSeq]
      /\ reader' \in [Clients -> {"closed", "loop", "attach", "replay"}]
  BY <1>3, DetachKeepsReaders DEF Close
<1>5. /\ AttachedClients' \in [Objs -> SUBSET Clients]
      /\ attachedSession' \in [Clients -> 0 .. MaxObjs]
      /\ granted' \in [Clients -> BOOLEAN]
      /\ sent' \in [Clients -> Seq(Seqs)]
      /\ lost' \in [Clients -> BOOLEAN]
  BY DetachFacts DEF Close
<1>6. TypeOK'
  BY <1>3, <1>4, <1>5 DEF IInv, TypeOK, Close, regVars
<1> QED
  BY <1>1, <1>2, <1>4, <1>6 DEF IInv

\* AttachWithReplay takes publishMu and snapshots the ring.
LEMMA BeginReplayIInv ==
  ASSUME IInv, NEW c \in Clients, BeginReplay(c)
  PROVE  IInv'
<1> DEFINE g  == target[c]
           ok == Windows!ReplayOk(ring[g], lastSeqArg[c])
           B  == IF ok THEN ring[g].entries ELSE <<>>
           x  == (~ok /\ queued[c] >= ChanCap)
<1>0. /\ reader \in [Clients -> {"closed", "loop", "attach", "replay"}]
      /\ target \in [Clients -> 0 .. MaxObjs] /\ lastSeqArg \in [Clients -> 0 .. MaxSeq]
      /\ publishMu \in [Objs -> Clients \cup {Free}]
      /\ AttachedClients \in [Objs -> SUBSET Clients] /\ ring \in [Objs -> WindowType]
      /\ backlog \in [Clients -> Seq(Seqs)] /\ queued \in [Clients -> 0 .. ChanCap]
      /\ sent \in [Clients -> Seq(Seqs)] /\ lost \in [Clients -> BOOLEAN]
      /\ granted \in [Clients -> BOOLEAN] /\ published \in [Objs -> Seq(Seqs)]
  BY DEF IInv, TypeOK
<1>1. /\ reader[c] = "attach" /\ publishMu[g] = Free
      /\ publishMu' = [publishMu EXCEPT ![g] = c]
      /\ granted' = [granted EXCEPT ![c] = ok]
      /\ backlog' = [backlog EXCEPT ![c] = B]
      /\ sent' = [sent EXCEPT ![c] = <<>>]
      /\ lost' = [lost EXCEPT ![c] = x]
      /\ queued' = [queued EXCEPT ![c] = IF ~ok /\ @ < ChanCap THEN @ + 1 ELSE @]
      /\ reader' = [reader EXCEPT ![c] = "replay"]
      /\ AttachedClients' = AttachedClients /\ attachedSession' = attachedSession
      /\ target' = target /\ lastSeqArg' = lastSeqArg /\ published' = published
  BY DEF BeginReplay, TakePublishMu
<1>2. g \in Objs
  BY <1>1 DEF IInv, ReaderLocks
<1>3. /\ ok \in BOOLEAN /\ x \in BOOLEAN /\ B \in Seq(Seqs) /\ ring[g] \in WindowType
      /\ lastSeqArg[c] \in Nat
  <2>1. ok \in BOOLEAN
    BY DEF Windows!ReplayOk
  <2>2. ring[g] \in WindowType /\ ring[g].entries \in Seq(Seqs) /\ <<>> \in Seq(Seqs)
    BY <1>0, <1>2 DEF WindowType
  <2>3. lastSeqArg[c] \in Nat
    BY <1>0, FanoutAssumption
  <2> QED
    BY <2>1, <2>2, <2>3
<1>4. Replaying(published[g], <<>>, ok, lastSeqArg[c], x, B)
  <2>1. IsWindowOf(ring[g], published[g]) /\ InOrder(published[g], LastSeq[g])
    BY <1>2 DEF IInv, WindowExact, PublishedInOrder
  <2>2. published[g] \in Seq(Seqs)
    BY <1>0, <1>2
  <2> QED
    BY <2>1, <2>2, <1>3, BeginOnStream
<1> HIDE DEF ok, B, x, g
<1>5. FreshObjects' /\ PublishedInOrder' /\ WindowExact'
  BY DataFrame DEF BeginReplay, regVars
<1>6. InFlight'
  BY IngestFrame DEF BeginReplay, regVars
<1>7. queued' \in [Clients -> 0 .. ChanCap]
  BY <1>0, <1>1, FanoutAssumption
<1>8. /\ publishMu' \in [Objs -> Clients \cup {Free}] /\ granted' \in [Clients -> BOOLEAN]
      /\ backlog' \in [Clients -> Seq(Seqs)] /\ sent' \in [Clients -> Seq(Seqs)]
      /\ lost' \in [Clients -> BOOLEAN]
      /\ reader' \in [Clients -> {"closed", "loop", "attach", "replay"}]
  BY <1>0, <1>1, <1>2, <1>3
<1>9. TypeOK'
  BY <1>7, <1>8 DEF IInv, TypeOK, BeginReplay, regVars
<1>10. /\ reader'[c] = "replay" /\ granted'[c] = ok /\ backlog'[c] = B /\ sent'[c] = <<>>
       /\ lost'[c] = x /\ publishMu'[g] = c
       /\ \A d \in Clients : d # c =>
            /\ reader'[d] = reader[d] /\ granted'[d] = granted[d]
            /\ backlog'[d] = backlog[d] /\ sent'[d] = sent[d] /\ lost'[d] = lost[d]
       /\ \A h \in Objs : h # g => publishMu'[h] = publishMu[h]
  BY <1>0, <1>1, <1>2
<1>11. ReaderLocks'
  <2>1. ASSUME NEW d \in Clients
        PROVE  /\ reader'[d] \in {"attach", "replay"} => target'[d] \in Objs
               /\ reader'[d] = "replay" => publishMu'[target'[d]] = d
    <3>1. CASE d = c
      BY <3>1, <1>1, <1>2, <1>10 DEF g
    <3>2. CASE d # c
      <4>1. reader[d] = "replay" => target[d] # g
        BY <1>1, FreeAssumption DEF IInv, ReaderLocks
      <4> QED
        BY <3>2, <4>1, <1>1, <1>10 DEF IInv, ReaderLocks
    <3> QED
      BY <3>1, <3>2
  <2>2. ASSUME NEW h \in Objs, NEW d \in AttachedClients'[h]
        PROVE  reader'[d] = "loop" /\ attachedSession'[d] = h
    <3>1. d \in Clients /\ reader[d] = "loop" /\ attachedSession[d] = h
      BY <1>0, <1>1 DEF IInv, ReaderLocks
    <3> QED
      BY <3>1, <1>1, <1>10
  <2>3. ASSUME NEW h \in Objs, publishMu'[h] # Free
        PROVE  reader'[publishMu'[h]] = "replay" /\ target'[publishMu'[h]] = h
    <3>1. CASE h = g
      BY <3>1, <1>1, <1>10 DEF g
    <3>2. CASE h # g
      <4>1. /\ publishMu'[h] = publishMu[h] /\ publishMu[h] \in Clients
            /\ reader[publishMu[h]] = "replay" /\ target[publishMu[h]] = h
        BY <2>3, <3>2, <1>0, <1>10 DEF IInv, ReaderLocks
      <4> QED
        BY <4>1, <1>1, <1>10
    <3> QED
      BY <3>1, <3>2
  <2> QED
    BY <2>1, <2>2, <2>3 DEF ReaderLocks
<1>12. ReplayProgress'
  <2> SUFFICES ASSUME NEW d \in Clients, reader'[d] = "replay"
               PROVE  Replaying(published[target[d]], sent'[d], granted'[d],
                                lastSeqArg[d], lost'[d], backlog'[d])
    BY <1>1 DEF ReplayProgress
  <2>1. CASE d = c
    BY <2>1, <1>4, <1>10 DEF g
  <2>2. CASE d # c
    BY <2>2, <1>10 DEF IInv, ReplayProgress
  <2> QED
    BY <2>1, <2>2
<1>13. ReplayThenLive'
  <2> SUFFICES ASSUME NEW h \in Objs, NEW d \in AttachedClients[h], ~lost'[d]
               PROVE  OnStream(published[h], sent'[d], granted'[d], lastSeqArg[d],
                               Len(published[h]))
    BY <1>1 DEF ReplayThenLive
  <2>1. d \in Clients /\ d # c
    BY <1>0, <1>1 DEF IInv, ReaderLocks
  <2> QED
    BY <2>1, <1>10 DEF IInv, ReplayThenLive
<1> QED
  BY <1>5, <1>6, <1>9, <1>11, <1>12, <1>13 DEF IInv

\* One iteration of the replay loop.
LEMMA ReplayNextIInv ==
  ASSUME IInv, NEW c \in Clients, ReplayNext(c)
  PROVE  IInv'
<1> DEFINE g == target[c]
           x == Head(backlog[c])
           S == IF x > lastSeqArg[c] THEN {c} ELSE {}
<1>0. /\ reader \in [Clients -> {"closed", "loop", "attach", "replay"}]
      /\ lastSeqArg \in [Clients -> 0 .. MaxSeq]
      /\ AttachedClients \in [Objs -> SUBSET Clients]
      /\ backlog \in [Clients -> Seq(Seqs)] /\ queued \in [Clients -> 0 .. ChanCap]
      /\ sent \in [Clients -> Seq(Seqs)] /\ lost \in [Clients -> BOOLEAN]
      /\ granted \in [Clients -> BOOLEAN] /\ published \in [Objs -> Seq(Seqs)]
  BY DEF IInv, TypeOK
<1>1. /\ reader[c] = "replay" /\ backlog[c] # <<>>
      /\ backlog' = [backlog EXCEPT ![c] = Tail(@)]
      /\ queued' = [d \in Clients |-> IF d \in S /\ queued[d] < ChanCap
                                      THEN queued[d] + 1 ELSE queued[d]]
      /\ sent' = [d \in Clients |-> IF d \in S /\ queued[d] < ChanCap
                                    THEN Append(sent[d], x) ELSE sent[d]]
      /\ lost' = [d \in Clients |-> lost[d] \/ (d \in S /\ queued[d] >= ChanCap)]
      /\ AttachedClients' = AttachedClients /\ publishMu' = publishMu /\ reader' = reader
      /\ attachedSession' = attachedSession /\ target' = target
      /\ lastSeqArg' = lastSeqArg /\ granted' = granted /\ published' = published
  BY DEF ReplayNext, SendData, Enqueue
<1>2. g \in Objs /\ x \in Seqs /\ Tail(backlog[c]) \in Seq(Seqs)
  BY <1>0, <1>1 DEF IInv, ReaderLocks
<1>3. S \subseteq {c} /\ (c \in S <=> x > lastSeqArg[c])
  OBVIOUS
<1> HIDE DEF g, x, S
<1>4. FreshObjects' /\ PublishedInOrder' /\ WindowExact'
  BY DataFrame DEF ReplayNext, regVars
<1>5. InFlight'
  BY IngestFrame DEF ReplayNext, regVars
<1>6. queued' \in [Clients -> 0 .. ChanCap]
  BY <1>0, <1>1, FanoutAssumption
<1>7. sent' \in [Clients -> Seq(Seqs)] /\ backlog' \in [Clients -> Seq(Seqs)]
  BY <1>0, <1>1, <1>2
<1>8. lost' \in [Clients -> BOOLEAN]
  BY <1>1
<1>9. TypeOK'
  BY <1>6, <1>7, <1>8 DEF IInv, TypeOK, ReplayNext, regVars
<1>10. ReaderLocks'
  BY <1>1 DEF IInv, ReaderLocks
<1>11. ASSUME NEW d \in Clients, d # c
       PROVE  backlog'[d] = backlog[d] /\ sent'[d] = sent[d] /\ lost'[d] = lost[d]
  <2>1. d \notin S
    BY <1>3, <1>11
  <2>2. backlog'[d] = backlog[d] /\ sent'[d] = sent[d]
    BY <2>1, <1>0, <1>1, <1>11
  <2>3. lost'[d] = (lost[d] \/ (d \in S /\ queued[d] >= ChanCap)) /\ lost[d] \in BOOLEAN
    BY <1>0, <1>1
  <2> QED
    BY <2>1, <2>2, <2>3
<1>12. ReplayProgress'
  <2> SUFFICES ASSUME NEW d \in Clients, reader[d] = "replay"
               PROVE  Replaying(published[target[d]], sent'[d], granted[d],
                                lastSeqArg[d], lost'[d], backlog'[d])
    BY <1>1 DEF ReplayProgress
  <2>0. Replaying(published[target[d]], sent[d], granted[d], lastSeqArg[d], lost[d], backlog[d])
    BY DEF IInv, ReplayProgress
  <2>1. CASE d = c
    <3>1. /\ published[g] \in Seq(Seqs) /\ InOrder(published[g], LastSeq[g])
          /\ sent[c] \in Seq(Seqs) /\ granted[c] \in BOOLEAN /\ lost[c] \in BOOLEAN
          /\ lastSeqArg[c] \in Nat /\ backlog[c] \in Seq(Seqs)
      BY <1>0, <1>2, FanoutAssumption DEF IInv, PublishedInOrder
    <3>2. /\ x > lastSeqArg[c] =>
               Replaying(published[g], Append(sent[c], x), granted[c], lastSeqArg[c],
                         lost[c], Tail(backlog[c]))
          /\ x > lastSeqArg[c] =>
               Replaying(published[g], sent[c], granted[c], lastSeqArg[c], TRUE,
                         Tail(backlog[c]))
          /\ ~(x > lastSeqArg[c]) =>
               Replaying(published[g], sent[c], granted[c], lastSeqArg[c], lost[c],
                         Tail(backlog[c]))
      BY <2>0, <2>1, <3>1, <1>1, ReplayNextOnStream DEF g, x
    <3>3. backlog'[c] = Tail(backlog[c])
      BY <1>0, <1>1
    <3>4. /\ lost'[c] = (lost[c] \/ (c \in S /\ queued[c] >= ChanCap))
          /\ sent'[c] = IF c \in S /\ queued[c] < ChanCap THEN Append(sent[c], x) ELSE sent[c]
      BY <1>1
    <3>5. CASE c \in S /\ queued[c] < ChanCap
      <4>1. ~(queued[c] >= ChanCap)
        BY <3>5, <1>0, FanoutAssumption
      <4>2. lost'[c] = lost[c] /\ sent'[c] = Append(sent[c], x)
        BY <3>1, <3>4, <3>5, <4>1
      <4> QED
        BY <2>1, <3>2, <3>3, <3>5, <4>2, <1>3 DEF g
    <3>6. CASE c \in S /\ ~(queued[c] < ChanCap)
      <4>1. queued[c] >= ChanCap
        BY <3>6, <1>0, FanoutAssumption
      <4>2. lost'[c] = TRUE /\ sent'[c] = sent[c]
        BY <3>4, <3>6, <4>1
      <4> QED
        BY <2>1, <3>2, <3>3, <3>6, <4>2, <1>3 DEF g
    <3>7. CASE c \notin S
      <4>1. lost'[c] = lost[c] /\ sent'[c] = sent[c]
        BY <3>1, <3>4, <3>7
      <4> QED
        BY <2>1, <3>2, <3>3, <3>7, <4>1, <1>3 DEF g
    <3> QED
      BY <3>5, <3>6, <3>7
  <2>2. CASE d # c
    BY <2>0, <2>2, <1>11
  <2> QED
    BY <2>1, <2>2
<1>13. ReplayThenLive'
  <2> SUFFICES ASSUME NEW h \in Objs, NEW d \in AttachedClients[h], ~lost'[d]
               PROVE  OnStream(published[h], sent'[d], granted[d], lastSeqArg[d],
                               Len(published[h]))
    BY <1>1 DEF ReplayThenLive
  <2>1. d \in Clients /\ d # c
    BY <1>0, <1>1 DEF IInv, ReaderLocks
  <2> QED
    BY <2>1, <1>11 DEF IInv, ReplayThenLive
<1> QED
  BY <1>4, <1>5, <1>9, <1>10, <1>12, <1>13 DEF IInv

\* The connection joins the fan-out with its replay complete.
LEMMA EndReplayIInv ==
  ASSUME IInv, NEW c \in Clients, EndReplay(c)
  PROVE  IInv'
<1> DEFINE g == target[c]
<1>0. /\ reader \in [Clients -> {"closed", "loop", "attach", "replay"}]
      /\ target \in [Clients -> 0 .. MaxObjs]
      /\ attachedSession \in [Clients -> 0 .. MaxObjs]
      /\ publishMu \in [Objs -> Clients \cup {Free}]
      /\ AttachedClients \in [Objs -> SUBSET Clients] /\ published \in [Objs -> Seq(Seqs)]
  BY DEF IInv, TypeOK
<1>1. /\ reader[c] = "replay" /\ backlog[c] = <<>>
      /\ AttachedClients' = [AttachedClients EXCEPT ![g] = @ \cup {c}]
      /\ publishMu' = [publishMu EXCEPT ![g] = Free]
      /\ attachedSession' = [attachedSession EXCEPT ![c] = g]
      /\ reader' = [reader EXCEPT ![c] = "loop"]
      /\ target' = target /\ lastSeqArg' = lastSeqArg /\ granted' = granted
      /\ backlog' = backlog /\ published' = published /\ sent' = sent /\ lost' = lost
  BY DEF EndReplay, ReleasePublishMu
<1>2. g \in Objs /\ publishMu[g] = c /\ g \in 0 .. MaxObjs
  BY <1>0, <1>1 DEF IInv, ReaderLocks
<1> HIDE DEF g
<1>3. FreshObjects' /\ PublishedInOrder' /\ WindowExact'
  BY DataFrame DEF EndReplay, regVars
<1>4. InFlight'
  BY IngestFrame DEF EndReplay, regVars
<1>5. /\ AttachedClients' \in [Objs -> SUBSET Clients]
      /\ publishMu' \in [Objs -> Clients \cup {Free}]
      /\ attachedSession' \in [Clients -> 0 .. MaxObjs]
      /\ reader' \in [Clients -> {"closed", "loop", "attach", "replay"}]
  BY <1>0, <1>1, <1>2
<1>6. TypeOK'
  BY <1>5 DEF IInv, TypeOK, EndReplay, regVars
<1>7. /\ reader'[c] = "loop" /\ attachedSession'[c] = g /\ publishMu'[g] = Free
      /\ AttachedClients'[g] = AttachedClients[g] \cup {c}
      /\ \A d \in Clients : d # c =>
           reader'[d] = reader[d] /\ attachedSession'[d] = attachedSession[d]
      /\ \A h \in Objs : h # g =>
           publishMu'[h] = publishMu[h] /\ AttachedClients'[h] = AttachedClients[h]
  BY <1>0, <1>1, <1>2
<1>8. ReaderLocks'
  <2>1. ASSUME NEW d \in Clients
        PROVE  /\ reader'[d] \in {"attach", "replay"} => target'[d] \in Objs
               /\ reader'[d] = "replay" => publishMu'[target'[d]] = d
    <3>1. CASE d = c
      BY <3>1, <1>7
    <3>2. CASE d # c
      <4>1. reader[d] = "replay" => target[d] # g
        BY <3>2, <1>2 DEF IInv, ReaderLocks
      <4> QED
        BY <3>2, <4>1, <1>1, <1>7 DEF IInv, ReaderLocks
    <3> QED
      BY <3>1, <3>2
  <2>2. ASSUME NEW h \in Objs, NEW d \in AttachedClients'[h]
        PROVE  reader'[d] = "loop" /\ attachedSession'[d] = h
    <3>1. CASE d = c
      <4>1. h = g
        BY <3>1, <1>1, <1>7 DEF IInv, ReaderLocks
      <4> QED
        BY <3>1, <4>1, <1>7
    <3>2. CASE d # c
      <4>0. AttachedClients'[h] \subseteq AttachedClients[h] \cup {c}
        BY <1>7
      <4>1. d \in AttachedClients[h] /\ d \in Clients
        BY <3>2, <4>0, <1>0
      <4> QED
        BY <3>2, <4>1, <1>7 DEF IInv, ReaderLocks
    <3> QED
      BY <3>1, <3>2
  <2>3. ASSUME NEW h \in Objs, publishMu'[h] # Free
        PROVE  reader'[publishMu'[h]] = "replay" /\ target'[publishMu'[h]] = h
    <3>1. h # g /\ publishMu'[h] = publishMu[h]
      BY <2>3, <1>7
    <3>2. /\ publishMu[h] \in Clients /\ reader[publishMu[h]] = "replay"
          /\ target[publishMu[h]] = h
      BY <2>3, <3>1, <1>0 DEF IInv, ReaderLocks
    <3>3. publishMu[h] # c
      BY <3>1, <3>2 DEF g
    <3> QED
      BY <3>1, <3>2, <3>3, <1>1, <1>7
  <2> QED
    BY <2>1, <2>2, <2>3 DEF ReaderLocks
<1>9. ReplayProgress'
  BY <1>1, <1>7 DEF IInv, ReplayProgress
<1>10. ReplayThenLive'
  <2> SUFFICES ASSUME NEW h \in Objs, NEW d \in AttachedClients'[h], ~lost[d]
               PROVE  OnStream(published[h], sent[d], granted[d], lastSeqArg[d],
                               Len(published[h]))
    BY <1>1 DEF ReplayThenLive
  <2>1. CASE d \in AttachedClients[h]
    BY <2>1 DEF IInv, ReplayThenLive
  <2>2. CASE d \notin AttachedClients[h]
    <3>1. d = c /\ h = g
      BY <2>2, <1>7
    <3>2. Replaying(published[g], sent[c], granted[c], lastSeqArg[c], lost[c], <<>>)
      BY <1>1 DEF IInv, ReplayProgress, g
    <3>3. published[g] \in Seq(Seqs)
      BY <1>0, <1>2
    <3> QED
      BY <3>1, <3>2, <3>3, EndOnStream
  <2> QED
    BY <2>1, <2>2
<1> QED
  BY <1>3, <1>4, <1>6, <1>8, <1>9, <1>10 DEF IInv
-----------------------------------------------------------------------------
\* A step that changes nothing.
LEMMA StutterIInv ==
  ASSUME IInv, UNCHANGED vars
  PROVE  IInv'
<1>1. FreshObjects' /\ PublishedInOrder' /\ WindowExact'
  BY DataFrame DEF vars
<1>2. InFlight'
  BY IngestFrame DEF vars
<1>3. ReaderLocks' /\ ReplayProgress' /\ ReplayThenLive'
  BY ReaderFrame DEF vars, readerVars
<1>4. TypeOK'
  BY DEF IInv, TypeOK, vars
<1> QED
  BY <1>1, <1>2, <1>3, <1>4 DEF IInv

\* Every step preserves the invariant when one daemon connection feeds the
\* session.
LEMMA NextIInv ==
  ASSUME SingleIngest, IInv, [Next]_vars
  PROVE  IInv'
<1>1. ASSUME NEW i \in Ingests, IngestNext(i) PROVE IInv'
  BY <1>1, HandleSessionStartedIInv, AdvanceSeqIInv, HandleControlIInv, LookupIInv,
     PublishIInv, BalanceIInv, BroadcastIInv, HandleSessionResumeIInv,
     ResumeRegisterIInv, RestoreLastSeqIInv DEF IngestNext
<1>2. ASSUME NEW c \in Clients, ClientNext(c) PROVE IInv'
  BY <1>2, ConnectIInv, HandleAttachIInv, BeginReplayIInv, ReplayNextIInv,
     EndReplayIInv, HandleDetachIInv, CloseIInv, WriterStepIInv DEF ClientNext
<1>3. ASSUME NEW n \in 1 .. MaxSeq, BalanceElsewhere(n) PROVE IInv'
  BY <1>3, BalanceElsewhereIInv
<1>4. CASE UNCHANGED vars
  BY <1>4, StutterIInv
<1> QED
  BY <1>1, <1>2, <1>3, <1>4 DEF Next

\* For any number of app connections, any channel capacity and any bound on
\* seqs and on re-registrations: with one daemon connection at a time the ring
\* stays an exact suffix of what was published, and every connection that
\* replays or is attached is on that stream.
THEOREM InvariantHolds == SingleIngest => (Spec => []IInv)
<1> SUFFICES ASSUME SingleIngest PROVE Spec => []IInv
  OBVIOUS
<1>1. Init => IInv
  BY InitIInv
<1>2. IInv /\ [Next]_vars => IInv'
  BY NextIInv
<1> QED
  BY <1>1, <1>2, PTL DEF Spec

\* session.go:89-92, for any number of app connections: "a frame can never fall
\* between a client's replay and its first live frame, and is never delivered
\* twice", as long as no two daemon connections feed the session.
THEOREM ReplayThenLiveHolds == SingleIngest => (Spec => []ReplayThenLive)
<1> SUFFICES ASSUME SingleIngest PROVE Spec => []ReplayThenLive
  OBVIOUS
<1>1. IInv => ReplayThenLive
  BY DEF IInv
<1>2. Spec => []IInv
  BY InvariantHolds
<1> QED
  BY <1>1, <1>2, PTL

\* Every variable keeps its type and no sendChan exceeds its capacity.
THEOREM TypeCorrect == SingleIngest => (Spec => []TypeOK)
<1> SUFFICES ASSUME SingleIngest PROVE Spec => []TypeOK
  OBVIOUS
<1>1. IInv => TypeOK
  BY DEF IInv
<1>2. Spec => []IInv
  BY InvariantHolds
<1> QED
  BY <1>1, <1>2, PTL
=============================================================================
