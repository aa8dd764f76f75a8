-------------------------- MODULE DaemonLinkProofs --------------------------
(***************************************************************************)
(* Proofs about DaemonLink, for any set of connections, any subset of the  *)
(* daemon's goroutines and any bounds.                                     *)
(***************************************************************************)
EXTENDS DaemonLink, TLAPS

\* RestoreLastSeq only raises a counter.
LEMMA RaisedFacts ==
  ASSUME NEW s \in SessionType, NEW q \in 0 .. MaxSeq
  PROVE  /\ Raised(s, q) \in SessionType
         /\ Raised(s, q).LastSeq = IF q > s.LastSeq THEN q ELSE s.LastSeq
         /\ Raised(s, q).known = s.known
  BY DEF Raised, SessionType

\* A session the coordinator has just created.
LEMMA NewFacts == NewSession \in SessionType /\ NewSession.LastSeq = 0 /\ NewSession.known
  BY LinkAssumption DEF NewSession, SessionType, Unknown

\* What a numbered frame does to the session record.
LEMMA IngestedFacts ==
  ASSUME NEW s \in SessionType, NEW f \in WireFrame
  PROVE  LET t == Ingested(s, f)
         IN  /\ t \in SessionType
             /\ t.LastSeq <= s.LastSeq \/ t.LastSeq <= f.seq
             /\ f.type = "resume" => t.known /\ t.LastSeq >= f.seq
             /\ f.type \notin {"started", "resume"} => (t.known <=> s.known)
             /\ f.type # "started" /\ s.known => t.LastSeq >= s.LastSeq
             /\ Accepts(s, f) => t.LastSeq = f.seq
<1>0. f.seq \in 0 .. MaxSeq /\ s.LastSeq \in 0 .. MaxSeq
  BY DEF WireFrame, SessionType
<1>1. CASE f.type = "started"
  BY <1>0, <1>1, NewFacts DEF Ingested, Accepts
<1>2. CASE f.type = "resume"
  <2>1. CASE s.known
    <3> DEFINE r == Raised(s, f.seq)
               t == [r EXCEPT !.State = "running"]
    <3>1. /\ r \in SessionType
          /\ r.LastSeq = IF f.seq > s.LastSeq THEN f.seq ELSE s.LastSeq
          /\ r.known = s.known
      BY <1>0, RaisedFacts
    <3>2. Ingested(s, f) = t
      BY <1>2, <2>1 DEF Ingested, Resumed
    <3> HIDE DEF r
    <3>3. t \in SessionType /\ t.LastSeq = r.LastSeq /\ t.known = r.known
      BY <3>1 DEF SessionType
    <3> HIDE DEF t
    <3> QED
      BY <1>0, <1>2, <2>1, <3>1, <3>2, <3>3 DEF Accepts
  <2>2. CASE ~s.known
    <3>1. Ingested(s, f) = Raised(NewSession, f.seq)
      BY <1>2, <2>2 DEF Ingested, Resumed
    <3>2. /\ Raised(NewSession, f.seq) \in SessionType
          /\ Raised(NewSession, f.seq).LastSeq = IF f.seq > 0 THEN f.seq ELSE 0
          /\ Raised(NewSession, f.seq).known
      BY <1>0, RaisedFacts, NewFacts
    <3> HIDE DEF Ingested
    <3> QED
      BY <1>0, <1>2, <2>2, <3>1, <3>2 DEF Accepts
  <2> QED
    BY <2>1, <2>2
<1>3. CASE f.type = "suspending"
    BY <1>0, <1>3 DEF Ingested, Accepts, SessionType, Paused
<1>4. CASE f.type \in SeqTypes /\ s.known
  <2> DEFINE r == Raised(s, f.seq)
             a == IF f.type = "data" THEN r.State ELSE f.type
             e == r.Ended \/ f.type = "ended"
             t == [r EXCEPT !.State = a, !.Ended = e]
  <2>1. /\ r \in SessionType
        /\ r.LastSeq = IF f.seq > s.LastSeq THEN f.seq ELSE s.LastSeq
        /\ r.known = s.known
    BY <1>0, RaisedFacts
  <2> HIDE DEF r
  <2>2. a \in {"running", "unresponsive", "paused", "ended"} /\ e \in BOOLEAN
    BY <1>4, <2>1 DEF SeqTypes, SessionType
  <2>3. Ingested(s, f) = t
    BY <1>4 DEF Ingested, SeqTypes, r
  <2> HIDE DEF a, e
  <2>4. t \in SessionType /\ t.LastSeq = r.LastSeq /\ t.known = r.known
    BY <2>1, <2>2 DEF SessionType
  <2> HIDE DEF t
  <2> QED
    BY <1>0, <1>4, <2>1, <2>3, <2>4 DEF Accepts, SeqTypes
<1>5. CASE Ingested(s, f) = s /\ f.type \notin {"started", "resume"} /\ ~Accepts(s, f)
  BY <1>0, <1>5
<1> QED
  BY <1>1, <1>2, <1>3, <1>4, <1>5 DEF WireFrame, Ingested, Accepts, SeqTypes

\* What was published is numbered.
LEMMA AcceptedSeqs == TypeOK => \A i \in DOMAIN accepted : accepted[i] \in Nat
<1>1. TypeOK => \A i \in DOMAIN accepted : accepted[i] \in Seqs
  BY DEF TypeOK
<1> QED
  BY <1>1, LinkAssumption DEF Seqs

\* Client.write adds at most its frame, and only to the open connection.
LEMMA WrittenFacts ==
  ASSUME TypeOK, NEW f \in WireFrame, Written(f)
  PROVE  /\ wire' \in [Slots -> Seq(WireFrame)]
         /\ \A k \in Slots : \A i \in DOMAIN wire'[k] :
              \/ i \in DOMAIN wire[k] /\ wire'[k][i] = wire[k][i]
              \/ wire'[k][i] = f /\ conn # NoSlot /\ open[conn]
<1>1. CASE conn # NoSlot /\ open[conn]
  <2>1. /\ conn \in Slots /\ wire \in [Slots -> Seq(WireFrame)]
        /\ wire' = [wire EXCEPT ![conn] = Append(@, f)]
    BY <1>1 DEF TypeOK, Written
  <2>2. wire' \in [Slots -> Seq(WireFrame)]
    BY <2>1
  <2>3. ASSUME NEW k \in Slots, NEW i \in DOMAIN wire'[k]
        PROVE  (i \in DOMAIN wire[k] /\ wire'[k][i] = wire[k][i]) \/ wire'[k][i] = f
    BY <2>1, <2>3
  <2> QED
    BY <1>1, <2>2, <2>3
<1>2. CASE ~(conn # NoSlot /\ open[conn])
  BY <1>2 DEF TypeOK, Written
<1> QED
  BY <1>1, <1>2

\* The frames on the connections are numbered.
LEMMA WireSeqs ==
  ASSUME TypeOK
  PROVE  \A k \in Slots : \A i \in DOMAIN wire[k] :
           wire[k][i] \in WireFrame /\ wire[k][i].seq \in 0 .. MaxSeq
<1>1. \A k \in Slots : \A i \in DOMAIN wire[k] : wire[k][i] \in WireFrame
  BY DEF TypeOK
<1> QED
  BY <1>1 DEF WireFrame

\* Reading a frame leaves the others.
LEMMA PopFacts ==
  ASSUME TypeOK, NEW k \in Slots, wire[k] # <<>>, wire' = [wire EXCEPT ![k] = Tail(@)]
  PROVE  /\ wire' \in [Slots -> Seq(WireFrame)]
         /\ \A j \in Slots : \A i \in DOMAIN wire'[j] :
              \E m \in DOMAIN wire[j] : wire'[j][i] = wire[j][m]
         /\ 1 \in DOMAIN wire[k] /\ Head(wire[k]) = wire[k][1] /\ Head(wire[k]) \in WireFrame
<1>1. wire[k] \in Seq(WireFrame) /\ wire \in [Slots -> Seq(WireFrame)]
  BY DEF TypeOK
<1>2. wire' \in [Slots -> Seq(WireFrame)]
  BY <1>1
<1>3. ASSUME NEW j \in Slots, NEW i \in DOMAIN wire'[j]
      PROVE  \E m \in DOMAIN wire[j] : wire'[j][i] = wire[j][m]
  <2>1. CASE j = k
    <3>1. i + 1 \in DOMAIN wire[k] /\ wire'[k][i] = wire[k][i + 1]
      BY <1>1, <1>3, <2>1
    <3> QED
      BY <3>1, <2>1
  <2>2. CASE j # k
    BY <1>1, <1>3, <2>2
  <2> QED
    BY <2>1, <2>2
<1> QED
  BY <1>1, <1>2, <1>3

\* The invariant holds initially.
LEMMA InitIInv == Init => IInv
<1> SUFFICES ASSUME Init PROVE IInv
 OBVIOUS
<1>1. Unknown \in SessionType
  BY LinkAssumption DEF Unknown, SessionType
<1>2. NoFrame \in BuiltFrame
  BY LinkAssumption DEF NoFrame, Frame, BuiltFrame
<1>3. wire \in [Slots -> Seq(WireFrame)]
  BY DEF Init
<1>4. accepted \in Seq(Seqs)
  BY DEF Init
<1>5. sess \in SessionType /\ pend \in [Workers -> BuiltFrame]
  BY <1>1, <1>2 DEF Init
<1>6. open \in [Slots -> BOOLEAN] /\ hand \in [Slots -> {"none", "new", "registered", "closing"}]
  BY DEF Init
<1>7. /\ n \in 0 .. MaxSeq /\ snap \in 0 .. MaxSeq /\ breaks \in 0 .. MaxBreaks
      /\ crashes \in 0 .. MaxCrashes /\ restarts \in 0 .. MaxRestarts
  BY LinkAssumption DEF Init
<1>8. alive \in BOOLEAN /\ sleeping \in BOOLEAN
  BY DEF Init
<1>9. /\ reg \in {"none", "running", "unresponsive", "ended", "lost"}
      /\ run \in {"dial", "register", "snapshot", "peek", "resume", "read"}
      /\ conn \in Slots \cup {NoSlot} /\ machine \in Slots \cup {NoSlot}
  BY DEF Init
<1>10. TypeOK
  BY <1>3, <1>4, <1>5, <1>6, <1>7, <1>8, <1>9 DEF TypeOK
<1>11. OneLiveLink
  BY DEF Init, OneLiveLink
<1>12. SeqsAllocated
  BY <1>10 DEF Init, SeqsAllocated, TypeOK, Unknown, NoFrame, Frame
<1>13. ResumeCovers /\ AcceptedInOrder
  BY DEF Init, ResumeCovers, AcceptedInOrder
<1> QED
  BY <1>10, <1>11, <1>12, <1>13 DEF IInv

-----------------------------------------------------------------------------
\* ExtRegister keeps the invariant.
LEMMA ExtRegisterIInv ==
  ASSUME IInv, ExtRegister
  PROVE  IInv'
<1> USE LinkAssumption DEF IInv, TypeOK, ExtRegister, daemonVars, clientVars, coordVars, budgets
<1>1. TypeOK'
  BY DEF Frame, NoFrame, BuiltFrame, SeqTypes
<1>2. OneLiveLink'
  BY DEF OneLiveLink
<1>3. SeqsAllocated'
  BY DEF SeqsAllocated, FirstLife, Frame, NoFrame, BuiltFrame
<1>4. ResumeCovers'
  BY DEF ResumeCovers, SeqsAllocated, FirstLife, Frame, NoFrame, BuiltFrame
<1>5. restarts' = 0 => AcceptedInOrder'
  BY DEF AcceptedInOrder
<1> QED
  BY <1>1, <1>2, <1>3, <1>4, <1>5

\* A goroutine numbers a frame: whatever the frame, unless it ends the session.
LEMMA EmitIInv ==
  ASSUME IInv, NEW w \in Workers, NEW type \in SeqTypes, Emit(w, type),
         reg' \in {"none", "running", "unresponsive", "ended", "lost"},
         reg' \in {"ended", "lost"} \/ (reg \notin {"ended", "lost"} /\ type # "ended")
  PROVE  IInv'
<1> USE LinkAssumption DEF IInv, TypeOK, Emit, clientVars, coordVars, budgets
<1>1. TypeOK'
  BY DEF Frame, NoFrame, BuiltFrame
<1>2. OneLiveLink'
  BY DEF OneLiveLink
<1>3. SeqsAllocated'
  <2> SUFFICES ASSUME FirstLife'
               PROVE  /\ snap' <= n' /\ sess'.LastSeq <= n'
                      /\ \A v \in Workers : pend'[v].seq <= n' /\ pend'[v].type \notin {"ended", "drop"}
                      /\ \A k \in Slots : \A i \in DOMAIN wire'[k] : wire'[k][i].seq <= n'
    BY DEF SeqsAllocated
  <2>1. FirstLife /\ type # "ended"
    BY DEF FirstLife
  <2>2. snap' <= n' /\ sess'.LastSeq <= n'
    BY <2>1 DEF SeqsAllocated, SessionType
  <2>3. \A v \in Workers : pend'[v].seq <= n' /\ pend'[v].type \notin {"ended", "drop"}
    BY <2>1 DEF SeqsAllocated, Frame, BuiltFrame, SeqTypes
  <2>4. \A k \in Slots : \A i \in DOMAIN wire'[k] : wire'[k][i].seq <= n'
    BY <2>1, WireSeqs DEF SeqsAllocated
  <2> QED
    BY <2>2, <2>3, <2>4
<1>4. ResumeCovers'
  BY AcceptedSeqs DEF ResumeCovers, FirstLife
<1>5. restarts' = 0 => AcceptedInOrder'
  BY DEF AcceptedInOrder
<1> QED
  BY <1>1, <1>2, <1>3, <1>4, <1>5

\* ProcessExit keeps the invariant.
LEMMA ProcessExitIInv ==
  ASSUME IInv, ProcessExit
  PROVE  IInv'
<1> USE LinkAssumption DEF IInv, TypeOK, ProcessExit, Live, daemonVars, clientVars, coordVars, budgets
<1>1. TypeOK'
  BY DEF Frame, NoFrame, BuiltFrame, SeqTypes
<1>2. OneLiveLink'
  BY DEF OneLiveLink
<1>3. SeqsAllocated'
  BY DEF SeqsAllocated, FirstLife, Frame, NoFrame, BuiltFrame
<1>4. ResumeCovers'
  BY DEF ResumeCovers, SeqsAllocated, FirstLife, Frame, NoFrame, BuiltFrame
<1>5. restarts' = 0 => AcceptedInOrder'
  BY DEF AcceptedInOrder
<1> QED
  BY <1>1, <1>2, <1>3, <1>4, <1>5

\* DropAlloc keeps the invariant.
LEMMA DropAllocIInv ==
  ASSUME IInv, NEW w \in Workers, DropAlloc(w)
  PROVE  IInv'
<1> USE LinkAssumption DEF IInv, TypeOK, DropAlloc, daemonVars, clientVars, coordVars, budgets
<1>1. TypeOK'
  BY DEF Frame, NoFrame, BuiltFrame, SeqTypes
<1>2. OneLiveLink'
  BY DEF OneLiveLink
<1>3. SeqsAllocated'
  BY DEF SeqsAllocated, FirstLife, Frame, NoFrame, BuiltFrame
<1>4. ResumeCovers'
  BY DEF ResumeCovers, SeqsAllocated, FirstLife, Frame, NoFrame, BuiltFrame
<1>5. restarts' = 0 => AcceptedInOrder'
  BY DEF AcceptedInOrder
<1> QED
  BY <1>1, <1>2, <1>3, <1>4, <1>5

\* Send keeps the invariant.
LEMMA SendIInv ==
  ASSUME IInv, NEW w \in Workers, Send(w)
  PROVE  IInv'
<1>a. pend[w] \in WireFrame /\ Written(pend[w])
  BY LinkAssumption DEF IInv, TypeOK, Send, Frame, WireFrame, BuiltFrame, SeqTypes
<1>b. /\ wire' \in [Slots -> Seq(WireFrame)]
      /\ \A k \in Slots : \A i \in DOMAIN wire'[k] :
           \/ i \in DOMAIN wire[k] /\ wire'[k][i] = wire[k][i]
           \/ wire'[k][i] = pend[w] /\ conn # NoSlot /\ open[conn]
  BY <1>a, WrittenFacts DEF IInv
<1> USE LinkAssumption DEF IInv, TypeOK, Send, daemonVars, clientVars, coordVars, budgets
<1>1. TypeOK'
  BY <1>b DEF Frame, NoFrame, BuiltFrame, SeqTypes
<1>2. OneLiveLink'
  BY DEF OneLiveLink
<1>3. SeqsAllocated'
  <2>1. ASSUME FirstLife' PROVE FirstLife /\ pend[w].type # "ended"
    BY <2>1 DEF FirstLife, SeqsAllocated
  <2>2. ASSUME FirstLife' PROVE pend' = [pend EXCEPT ![w] = NoFrame]
    BY <2>1, <2>2
  <2> QED
    BY <1>b, <2>1, <2>2 DEF SeqsAllocated, FirstLife, Frame, NoFrame, BuiltFrame
<1>4. ResumeCovers'
  <2>1. pend[w].type # "resume"
    BY DEF BuiltFrame, SeqTypes
  <2>2. FirstLife' = FirstLife
    BY DEF FirstLife
  <2> QED
    BY <1>b, <2>1, <2>2 DEF ResumeCovers
<1>5. restarts' = 0 => AcceptedInOrder'
  BY DEF AcceptedInOrder
<1> QED
  BY <1>1, <1>2, <1>3, <1>4, <1>5

\* Dial keeps the invariant.
LEMMA DialIInv ==
  ASSUME IInv, NEW k \in Slots, Dial(k)
  PROVE  IInv'
<1> USE LinkAssumption DEF IInv, TypeOK, Dial, daemonVars, clientVars, coordVars, budgets
<1>1. TypeOK'
  BY DEF Frame, NoFrame, BuiltFrame, SeqTypes
<1>2. OneLiveLink'
  BY DEF OneLiveLink
<1>3. SeqsAllocated'
  BY DEF SeqsAllocated, FirstLife, Frame, NoFrame, BuiltFrame
<1>4. ResumeCovers'
  BY DEF ResumeCovers, SeqsAllocated, FirstLife, Frame, NoFrame, BuiltFrame
<1>5. restarts' = 0 => AcceptedInOrder'
  BY DEF AcceptedInOrder
<1> QED
  BY <1>1, <1>2, <1>3, <1>4, <1>5

\* WriteRegister keeps the invariant.
LEMMA WriteRegisterIInv ==
  ASSUME IInv, WriteRegister
  PROVE  IInv'
<1>a. Frame("register", 0) \in WireFrame /\ Written(Frame("register", 0))
  BY LinkAssumption DEF IInv, TypeOK, WriteRegister, Frame, WireFrame, BuiltFrame, SeqTypes
<1>b. /\ wire' \in [Slots -> Seq(WireFrame)]
      /\ \A k \in Slots : \A i \in DOMAIN wire'[k] :
           \/ i \in DOMAIN wire[k] /\ wire'[k][i] = wire[k][i]
           \/ wire'[k][i] = Frame("register", 0) /\ conn # NoSlot /\ open[conn]
  BY <1>a, WrittenFacts DEF IInv
<1> USE LinkAssumption DEF IInv, TypeOK, WriteRegister, daemonVars, clientVars, coordVars, budgets
<1>1. TypeOK'
  BY <1>b DEF Frame, NoFrame, BuiltFrame, SeqTypes
<1>2. OneLiveLink'
  BY DEF OneLiveLink
<1>3. SeqsAllocated'
  BY <1>b DEF SeqsAllocated, FirstLife, Frame, NoFrame, BuiltFrame
<1>4. ResumeCovers'
  BY <1>b DEF ResumeCovers, SeqsAllocated, FirstLife, Frame, NoFrame, BuiltFrame
<1>5. restarts' = 0 => AcceptedInOrder'
  BY DEF AcceptedInOrder
<1> QED
  BY <1>1, <1>2, <1>3, <1>4, <1>5

\* LiveSnapshot keeps the invariant.
LEMMA LiveSnapshotIInv ==
  ASSUME IInv, LiveSnapshot
  PROVE  IInv'
<1> USE LinkAssumption DEF IInv, TypeOK, LiveSnapshot, daemonVars, clientVars, coordVars, budgets
<1>1. TypeOK'
  BY DEF Frame, NoFrame, BuiltFrame, SeqTypes
<1>2. OneLiveLink'
  BY DEF OneLiveLink
<1>3. SeqsAllocated'
  BY DEF SeqsAllocated, FirstLife, Frame, NoFrame, BuiltFrame
<1>4. ResumeCovers'
  BY DEF ResumeCovers, SeqsAllocated, FirstLife, Frame, NoFrame, BuiltFrame
<1>5. restarts' = 0 => AcceptedInOrder'
  BY DEF AcceptedInOrder
<1> QED
  BY <1>1, <1>2, <1>3, <1>4, <1>5

\* ReadLastSeq keeps the invariant.
LEMMA ReadLastSeqIInv ==
  ASSUME IInv, ReadLastSeq
  PROVE  IInv'
<1> USE LinkAssumption DEF IInv, TypeOK, ReadLastSeq, Peek, daemonVars, clientVars, coordVars, budgets
<1>1. TypeOK'
  BY DEF Frame, NoFrame, BuiltFrame, SeqTypes
<1>2. OneLiveLink'
  BY DEF OneLiveLink
<1>3. SeqsAllocated'
  BY DEF SeqsAllocated, FirstLife, Frame, NoFrame, BuiltFrame
<1>4. ResumeCovers'
  BY DEF ResumeCovers, SeqsAllocated, FirstLife, Frame, NoFrame, BuiltFrame
<1>5. restarts' = 0 => AcceptedInOrder'
  BY DEF AcceptedInOrder
<1> QED
  BY <1>1, <1>2, <1>3, <1>4, <1>5

\* WriteResume keeps the invariant.
LEMMA WriteResumeIInv ==
  ASSUME IInv, WriteResume
  PROVE  IInv'
<1>a. Frame("resume", snap) \in WireFrame /\ Written(Frame("resume", snap))
  BY LinkAssumption DEF IInv, TypeOK, WriteResume, Frame, WireFrame, BuiltFrame, SeqTypes
<1>b. /\ wire' \in [Slots -> Seq(WireFrame)]
      /\ \A k \in Slots : \A i \in DOMAIN wire'[k] :
           \/ i \in DOMAIN wire[k] /\ wire'[k][i] = wire[k][i]
           \/ wire'[k][i] = Frame("resume", snap) /\ conn # NoSlot /\ open[conn]
  BY <1>a, WrittenFacts DEF IInv
<1> USE LinkAssumption DEF IInv, TypeOK, WriteResume, daemonVars, clientVars, coordVars, budgets
<1>1. TypeOK'
  BY <1>b DEF Frame, NoFrame, BuiltFrame, SeqTypes
<1>2. OneLiveLink'
  BY DEF OneLiveLink
<1>3. SeqsAllocated'
  BY <1>b DEF SeqsAllocated, FirstLife, Frame, NoFrame, BuiltFrame
<1>4. ResumeCovers'
  BY <1>b DEF ResumeCovers, SeqsAllocated, FirstLife, Frame, NoFrame, BuiltFrame
<1>5. restarts' = 0 => AcceptedInOrder'
  BY DEF AcceptedInOrder
<1> QED
  BY <1>1, <1>2, <1>3, <1>4, <1>5

\* ConnError keeps the invariant.
LEMMA ConnErrorIInv ==
  ASSUME IInv, ConnError
  PROVE  IInv'
<1> USE LinkAssumption DEF IInv, TypeOK, ConnError, daemonVars, clientVars, coordVars, budgets
<1>1. TypeOK'
  BY DEF Frame, NoFrame, BuiltFrame, SeqTypes
<1>2. OneLiveLink'
  BY DEF OneLiveLink
<1>3. SeqsAllocated'
  BY DEF SeqsAllocated, FirstLife, Frame, NoFrame, BuiltFrame
<1>4. ResumeCovers'
  BY DEF ResumeCovers, SeqsAllocated, FirstLife, Frame, NoFrame, BuiltFrame
<1>5. restarts' = 0 => AcceptedInOrder'
  BY DEF AcceptedInOrder
<1> QED
  BY <1>1, <1>2, <1>3, <1>4, <1>5

\* NotifySuspend keeps the invariant.
LEMMA NotifySuspendIInv ==
  ASSUME IInv, NotifySuspend
  PROVE  IInv'
<1>a. Frame("suspending", 0) \in WireFrame /\ Written(Frame("suspending", 0))
  BY LinkAssumption DEF IInv, TypeOK, NotifySuspend, Frame, WireFrame, BuiltFrame, SeqTypes
<1>b. /\ wire' \in [Slots -> Seq(WireFrame)]
      /\ \A k \in Slots : \A i \in DOMAIN wire'[k] :
           \/ i \in DOMAIN wire[k] /\ wire'[k][i] = wire[k][i]
           \/ wire'[k][i] = Frame("suspending", 0) /\ conn # NoSlot /\ open[conn]
  BY <1>a, WrittenFacts DEF IInv
<1> USE LinkAssumption DEF IInv, TypeOK, NotifySuspend, daemonVars, clientVars, coordVars, budgets
<1>1. TypeOK'
  BY <1>b DEF Frame, NoFrame, BuiltFrame, SeqTypes
<1>2. OneLiveLink'
  BY DEF OneLiveLink
<1>3. SeqsAllocated'
  BY <1>b DEF SeqsAllocated, FirstLife, Frame, NoFrame, BuiltFrame
<1>4. ResumeCovers'
  BY <1>b DEF ResumeCovers, SeqsAllocated, FirstLife, Frame, NoFrame, BuiltFrame
<1>5. restarts' = 0 => AcceptedInOrder'
  BY DEF AcceptedInOrder
<1> QED
  BY <1>1, <1>2, <1>3, <1>4, <1>5

\* CloseForSleep keeps the invariant.
LEMMA CloseForSleepIInv ==
  ASSUME IInv, CloseForSleep
  PROVE  IInv'
<1> USE LinkAssumption DEF IInv, TypeOK, CloseForSleep, daemonVars, clientVars, coordVars, budgets
<1>1. TypeOK'
  BY DEF Frame, NoFrame, BuiltFrame, SeqTypes
<1>2. OneLiveLink'
  BY DEF OneLiveLink
<1>3. SeqsAllocated'
  BY DEF SeqsAllocated, FirstLife, Frame, NoFrame, BuiltFrame
<1>4. ResumeCovers'
  BY DEF ResumeCovers, SeqsAllocated, FirstLife, Frame, NoFrame, BuiltFrame
<1>5. restarts' = 0 => AcceptedInOrder'
  BY DEF AcceptedInOrder
<1> QED
  BY <1>1, <1>2, <1>3, <1>4, <1>5

\* DaemonRestart keeps the invariant.
LEMMA DaemonRestartIInv ==
  ASSUME IInv, DaemonRestart
  PROVE  IInv'
<1>a. NoFrame \in BuiltFrame
  BY LinkAssumption DEF NoFrame, Frame, BuiltFrame
<1> USE LinkAssumption DEF IInv, TypeOK, DaemonRestart, daemonVars, clientVars, coordVars, budgets
<1>1. TypeOK'
  <2>1. pend' \in [Workers -> BuiltFrame]
    BY <1>a
  <2>2. reg' = "none" /\ n' \in 0 .. MaxSeq /\ snap' \in 0 .. MaxSeq /\ restarts' \in 0 .. MaxRestarts
    OBVIOUS
  <2>3. open' \in [Slots -> BOOLEAN]
    OBVIOUS
  <2> QED
    BY <2>1, <2>2, <2>3
<1>2. OneLiveLink'
  BY DEF OneLiveLink
<1>3. SeqsAllocated'
  BY DEF SeqsAllocated, FirstLife, Frame, NoFrame, BuiltFrame
<1>4. ResumeCovers'
  BY DEF ResumeCovers, SeqsAllocated, FirstLife, Frame, NoFrame, BuiltFrame
<1>5. restarts' = 0 => AcceptedInOrder'
  BY DEF AcceptedInOrder
<1> QED
  BY <1>1, <1>2, <1>3, <1>4, <1>5

\* Break keeps the invariant.
LEMMA BreakIInv ==
  ASSUME IInv, NEW k \in Slots, Break(k)
  PROVE  IInv'
<1> USE LinkAssumption DEF IInv, TypeOK, Break, daemonVars, clientVars, coordVars, budgets
<1>1. TypeOK'
  BY DEF Frame, NoFrame, BuiltFrame, SeqTypes
<1>2. OneLiveLink'
  BY DEF OneLiveLink
<1>3. SeqsAllocated'
  BY DEF SeqsAllocated, FirstLife, Frame, NoFrame, BuiltFrame
<1>4. ResumeCovers'
  BY DEF ResumeCovers, SeqsAllocated, FirstLife, Frame, NoFrame, BuiltFrame
<1>5. restarts' = 0 => AcceptedInOrder'
  BY DEF AcceptedInOrder
<1> QED
  BY <1>1, <1>2, <1>3, <1>4, <1>5

\* HandleMachineRegister keeps the invariant.
LEMMA HandleMachineRegisterIInv ==
  ASSUME IInv, NEW k \in Slots, HandleMachineRegister(k)
  PROVE  IInv'
<1>a. wire[k] # <<>> /\ wire' = [wire EXCEPT ![k] = Tail(@)]
  BY DEF HandleMachineRegister
<1>b. /\ wire' \in [Slots -> Seq(WireFrame)]
      /\ \A j \in Slots : \A i \in DOMAIN wire'[j] :
           \E m \in DOMAIN wire[j] : wire'[j][i] = wire[j][m]
  BY <1>a, PopFacts DEF IInv
<1> USE LinkAssumption DEF IInv, TypeOK, HandleMachineRegister, ClosePrevious, daemonVars, clientVars, coordVars, budgets
<1>1. TypeOK'
  BY <1>b DEF Frame, NoFrame, BuiltFrame, SeqTypes
<1>2. OneLiveLink'
  BY DEF OneLiveLink
<1>3. SeqsAllocated'
  BY <1>b DEF SeqsAllocated, FirstLife, Frame, NoFrame, BuiltFrame
<1>4. ResumeCovers'
  BY <1>b DEF ResumeCovers, SeqsAllocated, FirstLife, Frame, NoFrame, BuiltFrame
<1>5. restarts' = 0 => AcceptedInOrder'
  BY DEF AcceptedInOrder
<1> QED
  BY <1>1, <1>2, <1>3, <1>4, <1>5

\* RejectFirstFrame keeps the invariant.
LEMMA RejectFirstFrameIInv ==
  ASSUME IInv, NEW k \in Slots, RejectFirstFrame(k)
  PROVE  IInv'
<1> USE LinkAssumption DEF IInv, TypeOK, RejectFirstFrame, daemonVars, clientVars, coordVars, budgets
<1>1. TypeOK'
  BY DEF Frame, NoFrame, BuiltFrame, SeqTypes
<1>2. OneLiveLink'
  BY DEF OneLiveLink
<1>3. SeqsAllocated'
  BY DEF SeqsAllocated, FirstLife, Frame, NoFrame, BuiltFrame
<1>4. ResumeCovers'
  BY DEF ResumeCovers, SeqsAllocated, FirstLife, Frame, NoFrame, BuiltFrame
<1>5. restarts' = 0 => AcceptedInOrder'
  BY DEF AcceptedInOrder
<1> QED
  BY <1>1, <1>2, <1>3, <1>4, <1>5

\* HandlerEOF keeps the invariant.
LEMMA HandlerEOFIInv ==
  ASSUME IInv, NEW k \in Slots, HandlerEOF(k)
  PROVE  IInv'
<1> USE LinkAssumption DEF IInv, TypeOK, HandlerEOF, daemonVars, clientVars, coordVars, budgets
<1>1. TypeOK'
  BY DEF Frame, NoFrame, BuiltFrame, SeqTypes
<1>2. OneLiveLink'
  BY DEF OneLiveLink
<1>3. SeqsAllocated'
  BY DEF SeqsAllocated, FirstLife, Frame, NoFrame, BuiltFrame
<1>4. ResumeCovers'
  BY DEF ResumeCovers, SeqsAllocated, FirstLife, Frame, NoFrame, BuiltFrame
<1>5. restarts' = 0 => AcceptedInOrder'
  BY DEF AcceptedInOrder
<1> QED
  BY <1>1, <1>2, <1>3, <1>4, <1>5

\* DeferredPause keeps the invariant.
LEMMA DeferredPauseIInv ==
  ASSUME IInv, NEW k \in Slots, DeferredPause(k)
  PROVE  IInv'
<1>a. Paused(sess) \in SessionType /\ Paused(sess).LastSeq = sess.LastSeq
      /\ Paused(sess).known = sess.known
  BY DEF IInv, TypeOK, Paused, SessionType
<1> USE LinkAssumption DEF IInv, TypeOK, DeferredPause, daemonVars, clientVars, coordVars, budgets
<1>1. TypeOK'
  BY <1>a
<1>2. OneLiveLink'
  BY DEF OneLiveLink
<1>3. SeqsAllocated'
  BY <1>a DEF SeqsAllocated, FirstLife, Frame, NoFrame, BuiltFrame
<1>4. ResumeCovers'
  BY <1>a DEF ResumeCovers, SeqsAllocated, FirstLife, Frame, NoFrame, BuiltFrame
<1>5. restarts' = 0 => AcceptedInOrder'
  BY DEF AcceptedInOrder
<1> QED
  BY <1>1, <1>2, <1>3, <1>4, <1>5

\* CoordinatorCrash keeps the invariant.
LEMMA CoordinatorCrashIInv ==
  ASSUME IInv, CoordinatorCrash
  PROVE  IInv'
<1>a. Unknown \in SessionType /\ Unknown.LastSeq = 0 /\ Unknown.known = FALSE
  BY LinkAssumption DEF Unknown, SessionType
<1> USE LinkAssumption DEF IInv, TypeOK, CoordinatorCrash, daemonVars, clientVars, coordVars, budgets
<1>1. TypeOK'
  <2>1. wire' \in [Slots -> Seq(WireFrame)]
    OBVIOUS
  <2> QED
    BY <1>a, <2>1
<1>2. OneLiveLink'
  BY DEF OneLiveLink
<1>3. SeqsAllocated'
  BY <1>a DEF SeqsAllocated, FirstLife, Frame, NoFrame, BuiltFrame
<1>4. ResumeCovers'
  BY <1>a, AcceptedSeqs DEF ResumeCovers, SeqsAllocated, FirstLife, SessionType
<1>5. restarts' = 0 => AcceptedInOrder'
  BY DEF AcceptedInOrder
<1> QED
  BY <1>1, <1>2, <1>3, <1>4, <1>5

\* One frame handled.  A data frame that is let through is newer than everything
\* published; one that makes the session known covers everything published.
LEMMA HandleSessionIInv ==
  ASSUME IInv, NEW k \in Slots, HandleSession(k)
  PROVE  IInv'
<1> DEFINE f == Head(wire[k])
<1>a. wire[k] # <<>> /\ wire' = [wire EXCEPT ![k] = Tail(@)]
  BY DEF HandleSession
<1>b. /\ wire' \in [Slots -> Seq(WireFrame)]
      /\ \A j \in Slots : \A i \in DOMAIN wire'[j] :
           \E m \in DOMAIN wire[j] : wire'[j][i] = wire[j][m]
      /\ 1 \in DOMAIN wire[k] /\ f = wire[k][1] /\ f \in WireFrame
  BY <1>a, PopFacts DEF IInv
<1>c. /\ sess' = Ingested(sess, f)
      /\ accepted' = IF f.type = "started" THEN <<>>
                     ELSE IF Accepts(sess, f) THEN Append(accepted, f.seq) ELSE accepted
      /\ UNCHANGED <<reg, alive, n, pend, conn, run, snap, sleeping, open, hand, machine,
                     breaks, crashes, restarts>>
  BY DEF HandleSession, daemonVars, clientVars, budgets
<1> HIDE DEF f
<1>d. sess \in SessionType /\ sess.LastSeq \in 0 .. MaxSeq /\ f.seq \in 0 .. MaxSeq
  BY <1>b DEF IInv, TypeOK, SessionType, WireFrame
<1>e. /\ sess' \in SessionType
      /\ sess'.LastSeq <= sess.LastSeq \/ sess'.LastSeq <= f.seq
      /\ f.type = "resume" => sess'.known /\ sess'.LastSeq >= f.seq
      /\ f.type \notin {"started", "resume"} => (sess'.known <=> sess.known)
      /\ f.type # "started" /\ sess.known => sess'.LastSeq >= sess.LastSeq
      /\ Accepts(sess, f) => sess'.LastSeq = f.seq
  BY <1>b, <1>c, <1>d, IngestedFacts
<1>f. sess'.LastSeq \in 0 .. MaxSeq
  BY <1>e DEF SessionType
<1>g. Accepts(sess, f) => f.type = "data" /\ sess.known /\ f.seq > sess.LastSeq
  BY DEF Accepts
<1>h. accepted' \in Seq(Seqs)
  <2>1. accepted \in Seq(Seqs) /\ (Accepts(sess, f) => f.seq \in Seqs)
    BY <1>d, <1>g DEF IInv, TypeOK, Seqs
  <2> QED
    BY <1>c, <2>1
<1>1. TypeOK'
  BY <1>b, <1>c, <1>e, <1>h DEF IInv, TypeOK
<1>2. OneLiveLink'
  BY <1>c DEF IInv, OneLiveLink
<1>3. SeqsAllocated'
  BY <1>b, <1>c, <1>d, <1>e, <1>f DEF IInv, TypeOK, SeqsAllocated, FirstLife
<1>4. ResumeCovers'
  <2> SUFFICES ASSUME FirstLife', NEW i \in DOMAIN accepted'
               PROVE  IF sess'.known THEN accepted'[i] <= sess'.LastSeq
                      ELSE /\ accepted'[i] <= n'
                           /\ run' = "resume" /\ conn' # NoSlot /\ open'[conn'] => accepted'[i] <= snap'
                           /\ \A j \in Slots : \A m \in DOMAIN wire'[j] :
                                wire'[j][m].type = "resume" => accepted'[i] <= wire'[j][m].seq
    BY DEF ResumeCovers
  <2>1. FirstLife /\ f.type # "started"
    BY <1>c DEF FirstLife
  <2>2. CASE Accepts(sess, f)
    <3>1. sess.known /\ sess'.known /\ sess'.LastSeq = f.seq /\ f.seq > sess.LastSeq
      BY <1>e, <1>g, <2>2
    <3>2. \A m \in DOMAIN accepted : accepted[m] <= sess.LastSeq
      BY <2>1, <3>1 DEF IInv, ResumeCovers
    <3>3. accepted'[i] = f.seq \/ (i \in DOMAIN accepted /\ accepted'[i] = accepted[i])
      BY <1>c, <2>1, <2>2 DEF IInv, TypeOK
    <3>4. \A m \in DOMAIN accepted : accepted[m] \in Nat
      BY AcceptedSeqs DEF IInv
    <3>5. accepted'[i] <= sess'.LastSeq
      BY <1>d, <3>1, <3>2, <3>3, <3>4
    <3> QED
      BY <3>1, <3>5
  <2>3. CASE ~Accepts(sess, f)
    <3>0. accepted' = accepted
      BY <1>c, <2>1, <2>3
    <3>1. accepted' = accepted /\ accepted[i] \in Nat
      BY <3>0, AcceptedSeqs DEF IInv
    <3>2. CASE sess.known
      <4>1. accepted[i] <= sess.LastSeq
        BY <2>1, <3>1, <3>2 DEF IInv, ResumeCovers
      <4>2. sess'.known
        BY <1>e, <2>1, <3>2
      <4> QED
        BY <1>d, <1>e, <1>f, <2>1, <3>1, <3>2, <4>1, <4>2
    <3>3. CASE ~sess.known
      <4>1. /\ accepted[i] <= n
            /\ run = "resume" /\ conn # NoSlot /\ open[conn] => accepted[i] <= snap
            /\ \A j \in Slots : \A m \in DOMAIN wire[j] :
                 wire[j][m].type = "resume" => accepted[i] <= wire[j][m].seq
        BY <2>1, <3>1, <3>3 DEF IInv, ResumeCovers
      <4>2. CASE f.type = "resume"
        BY <1>b, <1>d, <1>e, <1>f, <3>1, <4>1, <4>2
      <4>3. CASE f.type # "resume"
        BY <1>b, <1>c, <1>e, <2>1, <3>1, <3>3, <4>1, <4>3
      <4> QED
        BY <4>2, <4>3
    <3> QED
      BY <3>2, <3>3
  <2> QED
    BY <2>2, <2>3
<1>5. restarts' = 0 => AcceptedInOrder'
  <2> SUFFICES ASSUME restarts' = 0, reg' \notin {"ended", "lost"},
                      NEW i \in DOMAIN accepted', NEW j \in DOMAIN accepted', i < j
               PROVE  accepted'[i] < accepted'[j]
    BY DEF AcceptedInOrder
  <2>1. FirstLife /\ f.type # "started"
    BY <1>c DEF FirstLife
  <2>2. \A m, p \in DOMAIN accepted : m < p => accepted[m] < accepted[p]
    BY <2>1 DEF IInv, AcceptedInOrder, FirstLife
  <2>3. CASE Accepts(sess, f)
    <3>1. \A m \in DOMAIN accepted : accepted[m] <= sess.LastSeq
      BY <1>g, <2>1, <2>3 DEF IInv, ResumeCovers
    <3>2. accepted \in Seq(Seqs) /\ accepted' = Append(accepted, f.seq)
      BY <1>c, <2>1, <2>3 DEF IInv, TypeOK
    <3>3. i \in DOMAIN accepted /\ accepted'[i] = accepted[i] /\ accepted[i] \in Nat
      <4>1. i \in 1 .. Len(accepted) + 1 /\ j \in 1 .. Len(accepted) + 1 /\ Len(accepted) \in Nat
        BY <3>2
      <4>2. i \in 1 .. Len(accepted)
        BY <4>1
      <4> QED
        BY <3>2, <4>2, AcceptedSeqs DEF IInv
    <3>4. CASE j \in DOMAIN accepted
      BY <2>2, <3>2, <3>3, <3>4
    <3>5. CASE j = Len(accepted) + 1
      BY <1>d, <1>g, <2>3, <3>1, <3>2, <3>3, <3>5
    <3> QED
      BY <3>2, <3>4, <3>5
  <2>4. CASE ~Accepts(sess, f)
    BY <1>c, <2>1, <2>2, <2>4
  <2> QED
    BY <2>3, <2>4
<1> QED
  BY <1>1, <1>2, <1>3, <1>4, <1>5 DEF IInv

\* Every step.
LEMMA NextIInv == IInv /\ [Next]_vars => IInv'
<1> SUFFICES ASSUME IInv, [Next]_vars PROVE IInv'
  OBVIOUS
<1>e. ASSUME NEW w \in Workers, NEW type \in SeqTypes, Emit(w, type),
             reg' \in {"none", "running", "unresponsive", "ended", "lost"},
             reg' \in {"ended", "lost"} \/ (reg \notin {"ended", "lost"} /\ type # "ended")
      PROVE  IInv'
  BY <1>e, EmitIInv
<1>t. reg \in {"none", "running", "unresponsive", "ended", "lost"}
  BY DEF IInv, TypeOK
<1>1. CASE DaemonNext
  <2>1. CASE OnEvent
    BY <1>e, <1>t, <2>1, LinkAssumption DEF OnEvent, SeqTypes, Live
  <2>2. ASSUME NEW w \in Workers, SendPty(w) PROVE IInv'
    BY <1>e, <1>t, <2>2 DEF SendPty, SeqTypes
  <2>3. CASE Sweep
    BY <1>e, <2>3 DEF Sweep, SeqTypes
  <2>4. CASE Heartbeat
    BY <1>e, <2>4, LinkAssumption DEF Heartbeat, SeqTypes
  <2>5. CASE OnEnded
    BY <1>e, <2>5, LinkAssumption DEF OnEnded, SeqTypes
  <2>6. CASE TmuxExit
    BY <1>e, <2>6 DEF TmuxExit, SeqTypes
  <2> QED
    BY <1>1, <2>1, <2>2, <2>3, <2>4, <2>5, <2>6, ExtRegisterIInv, ProcessExitIInv, SendIInv,
       DropAllocIInv DEF DaemonNext
<1>2. CASE ClientNext
  BY <1>2, DialIInv, WriteRegisterIInv, LiveSnapshotIInv, ReadLastSeqIInv, WriteResumeIInv,
     ConnErrorIInv, NotifySuspendIInv, CloseForSleepIInv DEF ClientNext
<1>3. ASSUME NEW k \in Slots, CoordinatorNext(k) \/ Break(k) PROVE IInv'
  BY <1>3, HandleSessionIInv, HandleMachineRegisterIInv, RejectFirstFrameIInv, HandlerEOFIInv,
     DeferredPauseIInv, BreakIInv DEF CoordinatorNext
<1>4. CASE UNCHANGED vars
  BY <1>4 DEF vars, daemonVars, clientVars, coordVars, budgets, IInv, TypeOK, OneLiveLink,
              SeqsAllocated, ResumeCovers, FirstLife, AcceptedInOrder
<1> QED
  BY <1>1, <1>2, <1>3, <1>4, DaemonRestartIInv, CoordinatorCrashIInv DEF Next

-----------------------------------------------------------------------------
\* The numbers that multiplex.go, client.go and ingest.go exchange stay consistent,
\* and every step leaves the variables in their types.
THEOREM InvariantHolds == Spec => []IInv
<1>1. Init => IInv
  BY InitIInv
<1>2. IInv /\ [Next]_vars => IInv'
  BY NextIInv
<1> QED
  BY <1>1, <1>2, PTL DEF Spec

\* After a take-over the older connection is not usable, also across daemon and
\* coordinator restarts (machines.Registry.Register).
THEOREM OneLiveLinkHolds == Spec => []OneLiveLink
<1>1. IInv => OneLiveLink
  BY DEF IInv
<1> QED
  BY <1>1, InvariantHolds, PTL

\* Until the daemon itself restarts, the coordinator never expects a seq that the
\* daemon has not allocated (SeqAllocator.Next, handleSessionResume).
THEOREM NeverAheadHolds == Spec => [](restarts = 0 => NeverAhead)
<1>1. IInv => (restarts = 0 => NeverAhead)
  BY DEF IInv, NeverAhead, SeqsAllocated, FirstLife, Live
<1> QED
  BY <1>1, InvariantHolds, PTL

\* Until the daemon itself restarts, the seqs published of a session keep
\* increasing, through lost connections and restarts of the coordinator.
THEOREM AcceptedInOrderHolds == Spec => [](restarts = 0 => AcceptedInOrder)
<1>1. IInv => (restarts = 0 => AcceptedInOrder)
  BY DEF IInv
<1> QED
  BY <1>1, InvariantHolds, PTL
=============================================================================
