-------------------------- MODULE SpawnFlowProofs --------------------------
(***************************************************************************)
(* Proofs about SpawnFlow, for any requests, sessions started by hand and  *)
(* bound on failures.                                                      *)
(***************************************************************************)
EXTENDS SpawnFlow, FiniteSetTheorems, TLAPS

\* Requests name the sessions and panes they create; the names are distinct.
LEMMA SessionFacts ==
  /\ Reqs \subseteq Sessions /\ Locals \subseteq Sessions /\ Reqs \subseteq Panes
  /\ LocalPane \in Panes /\ None \notin Sessions /\ None \notin Panes
  /\ \A s \in Sessions : s \in Reqs \/ s \in Locals
  /\ \A s \in Sessions : Pane(s) \in Panes
  /\ \A s, t \in Sessions : Pane(s) = Pane(t) => s = t \/ (s \in Locals /\ t \in Locals)
  BY SpawnAssumption DEF Sessions, Panes, Pane

\* Every caller of MapPane works for a session.
LEMMA WorkerFacts ==
  /\ \A w \in Workers : w.for \in Sessions
  /\ \A s \in Sessions : Serving(s) \in Workers
  /\ \A r \in Reqs : Spawning(r) \in Workers
  /\ \A s \in Sessions : Pane(s) \in Panes /\ s # None
  BY SessionFacts DEF Workers, Serving, Spawning

\* The invariant holds initially.
LEMMA InitIInv == Init => IInv
<1> SUFFICES ASSUME Init PROVE IInv
  OBVIOUS
<1>1. CoordType /\ WireType /\ SpawnType
  BY DEF Init, CoordType, WireType, SpawnType
<1>2. MapType /\ RegType /\ TmuxType
  BY SessionFacts DEF Init, MapType, RegType, TmuxType
<1>3. TypeOK
  BY <1>1, <1>2, SpawnAssumption DEF Init, TypeOK
<1>4. OpenIsUnanswered /\ MappedIsOwn /\ InHand /\ OneLocal /\ NotifiesOwn
  BY SessionFacts DEF Init, OpenIsUnanswered, MappedIsOwn, InHand, OneLocal, NotifiesOwn
<1> QED
  BY <1>3, <1>4 DEF IInv

-----------------------------------------------------------------------------
(***************************************************************************)
(* The coordinator's table and the link.                                   *)
(***************************************************************************)
\* A request not answered yet is answered once, or its answer is dropped.
LEMMA TellFirst ==
  ASSUME CoordType, NEW r \in Reqs, NEW ok \in BOOLEAN, answers[r] = {}, Tell(r, ok)
  PROVE  /\ answers' \in [Reqs -> SUBSET [ok : BOOLEAN, nr : 1 .. 2]] /\ dropped' \subseteq Reqs
         /\ \/ /\ answers' = [answers EXCEPT ![r] = {[ok |-> ok, nr |-> 1]}]
               /\ dropped' = dropped
            \/ answers' = answers /\ dropped' = dropped \cup {r}
<1>1. Cardinality(answers[r]) = 0
  BY FS_EmptySet
<1> DEFINE only == [ok |-> ok, nr |-> 1]
<1>2. ASSUME answers' = [answers EXCEPT ![r] = @ \cup {[ok |-> ok, nr |-> Cardinality(@) + 1]}]
      PROVE  answers' = [answers EXCEPT ![r] = {only}]
  <2>1. answers' = [answers EXCEPT ![r] =
                      answers[r] \cup {[ok |-> ok, nr |-> Cardinality(answers[r]) + 1]}]
    BY <1>2 DEF CoordType
  <2> HIDE DEF only
  <2>2. answers[r] \cup {only} = {only}
    OBVIOUS
  <2>3. only = [ok |-> ok, nr |-> Cardinality(answers[r]) + 1]
    BY <1>1 DEF only
  <2> QED
    BY <2>1, <2>2, <2>3
<1>3. {[ok |-> ok, nr |-> 1]} \in SUBSET [ok : BOOLEAN, nr : 1 .. 2]
  OBVIOUS
<1> QED
  BY <1>2, <1>3 DEF CoordType, Tell

\* An answer that is not for an open request is dropped; the first one closes it.
LEMMA ResponseAnswers ==
  ASSUME CoordType, OpenIsUnanswered, NEW r \in Reqs, NEW ok \in BOOLEAN,
         handleSpawnResponse(r, ok), asked' \in [Reqs -> {"no", "tracked", "done"}],
         \A q \in Reqs : asked'[q] = "no" => asked[q] = "no", machine' = machine
  PROVE  CoordType' /\ OpenIsUnanswered'
<1>1. CASE r \in spawns
  <2>1. Tell(r, ok) /\ spawns' = spawns \ {r}
    BY <1>1 DEF handleSpawnResponse
  <2>2. answers[r] = {} /\ asked[r] # "no"
    BY <1>1 DEF OpenIsUnanswered
  <2>3. /\ answers' \in [Reqs -> SUBSET [ok : BOOLEAN, nr : 1 .. 2]] /\ dropped' \subseteq Reqs
        /\ \/ /\ answers' = [answers EXCEPT ![r] = {[ok |-> ok, nr |-> 1]}]
              /\ dropped' = dropped
           \/ answers' = answers /\ dropped' = dropped \cup {r}
    BY <2>1, <2>2, TellFirst
  <2>4. CoordType'
    BY <2>1, <2>3 DEF CoordType
  <2>5. CASE answers' = answers /\ dropped' = dropped \cup {r}
    BY <2>1, <2>2, <2>5 DEF OpenIsUnanswered, CoordType
  <2>6. CASE answers' = [answers EXCEPT ![r] = {[ok |-> ok, nr |-> 1]}] /\ dropped' = dropped
    BY <1>1, <2>1, <2>2, <2>6 DEF OpenIsUnanswered, CoordType
  <2> QED
    BY <2>3, <2>4, <2>5, <2>6
<1>2. CASE r \notin spawns
  BY <1>2 DEF handleSpawnResponse, OpenIsUnanswered, CoordType
<1> QED
  BY <1>1, <1>2

\* spawn_session: a suspended machine's request is answered at once.
LEMMA SpawnSessionIInv ==
  ASSUME IInv, NEW r \in Reqs, SpawnSession(r)
  PROVE  IInv'
<1> USE DEF IInv, SpawnSession
<1>1. WireType' /\ SpawnType' /\ MapType' /\ RegType' /\ TmuxType' /\ faults' \in 0 .. MaxFaults
  BY DEF TypeOK, WireType, SpawnType, MapType, RegType, TmuxType, wire, spawnVars, maps, reg, tmux
<1>2. MappedIsOwn' /\ InHand' /\ OneLocal' /\ NotifiesOwn'
  BY DEF MappedIsOwn, InHand, OneLocal, NotifiesOwn, Pane, maps, reg, tmux
<1>3. CASE machine = "online"
  <2>1. CoordType'
    BY <1>3 DEF TypeOK, CoordType
  <2>2. OpenIsUnanswered'
    BY <1>3 DEF OpenIsUnanswered, TypeOK, CoordType
  <2> QED
    BY <1>1, <1>2, <2>1, <2>2 DEF TypeOK
<1>4. CASE machine # "online"
  <2>1. answers[r] = {} /\ r \notin spawns /\ r \notin dropped
    BY DEF OpenIsUnanswered
  <2>2. /\ answers' \in [Reqs -> SUBSET [ok : BOOLEAN, nr : 1 .. 2]] /\ dropped' \subseteq Reqs
        /\ \/ /\ answers' = [answers EXCEPT ![r] = {[ok |-> FALSE, nr |-> 1]}]
              /\ dropped' = dropped
           \/ answers' = answers /\ dropped' = dropped \cup {r}
    BY <1>4, <2>1, TellFirst DEF TypeOK
  <2>3. CoordType'
    BY <1>4, <2>2 DEF TypeOK, CoordType
  <2>4. ASSUME answers' = answers, dropped' = dropped \cup {r} PROVE OpenIsUnanswered'
    BY <1>4, <2>1, <2>4 DEF OpenIsUnanswered, TypeOK, CoordType
  <2>5. ASSUME answers' = [answers EXCEPT ![r] = {[ok |-> FALSE, nr |-> 1]}], dropped' = dropped
        PROVE  OpenIsUnanswered'
    <3>1. PICK a : a = [ok |-> FALSE, nr |-> 1]
      OBVIOUS
    <3>2. answers'[r] = {a} /\ \A q \in Reqs \ {r} : answers'[q] = answers[q]
      BY <2>5, <3>1 DEF TypeOK, CoordType
    <3>3. asked'[r] = "done" /\ \A q \in Reqs \ {r} : asked'[q] = asked[q]
      BY <1>4 DEF TypeOK, CoordType
    <3>4. spawns' = spawns /\ dropped' = dropped
      BY <1>4, <2>5
    <3> HIDE DEF IInv, SpawnSession
    <3>5. \A q \in Reqs \ {r} : /\ asked'[q] = "no" => q \notin spawns'
                                /\ asked'[q] = "no" \/ q \in spawns' =>
                                     answers'[q] = {} /\ q \notin dropped'
                                /\ q \in dropped' => answers'[q] = {}
                                /\ \A x, y \in answers'[q] : x = y
      <4>1. OpenIsUnanswered
        BY DEF IInv
      <4> QED
        BY <3>2, <3>3, <3>4, <4>1 DEF OpenIsUnanswered
    <3>6. asked'[r] # "no" /\ r \notin spawns' /\ r \notin dropped' /\ \A x, y \in answers'[r] : x = y
      BY <2>1, <3>2, <3>3, <3>4
    <3> QED
      BY <3>5, <3>6 DEF OpenIsUnanswered
  <2> QED
    BY <1>1, <1>2, <2>2, <2>3, <2>4, <2>5 DEF TypeOK
<1> QED
  BY <1>3, <1>4

\* The forwarded request: a failed write answers it unless it was answered.
LEMMA ForwardIInv ==
  ASSUME IInv, NEW r \in Reqs, Forward(r)
  PROVE  IInv'
<1> USE DEF IInv, Forward
<1>1. SpawnType' /\ MapType' /\ RegType' /\ TmuxType'
  BY DEF TypeOK, SpawnType, MapType, RegType, TmuxType, spawnVars, maps, reg, tmux
<1>2. MappedIsOwn' /\ InHand' /\ OneLocal' /\ NotifiesOwn'
  BY DEF MappedIsOwn, InHand, OneLocal, NotifiesOwn, Pane, maps, reg, tmux
<1>3. WireType'
  BY DEF TypeOK, WireType
<1>4. faults' \in 0 .. MaxFaults
  BY SpawnAssumption DEF TypeOK, FaultIf, Fault
<1>5. /\ asked' \in [Reqs -> {"no", "tracked", "done"}]
      /\ \A q \in Reqs : asked'[q] = "no" => asked[q] = "no"
  BY DEF TypeOK, CoordType
<1>6. ASSUME handleSpawnResponse(r, FALSE) PROVE CoordType' /\ OpenIsUnanswered'
  BY <1>5, <1>6, ResponseAnswers DEF TypeOK
<1>7. ASSUME UNCHANGED <<answers, dropped, spawns>> PROVE CoordType' /\ OpenIsUnanswered'
  BY <1>5, <1>7 DEF OpenIsUnanswered, TypeOK, CoordType
<1>8. CoordType' /\ OpenIsUnanswered'
  BY <1>6, <1>7
<1> QED
  BY <1>1, <1>2, <1>3, <1>4, <1>8 DEF TypeOK

\* A spawn_response of the daemon.
LEMMA IngestResponseIInv ==
  ASSUME IInv, NEW m \in [req : Reqs, ok : BOOLEAN], IngestResponse(m)
  PROVE  IInv'
<1> USE DEF IInv, IngestResponse
<1>1. SpawnType' /\ MapType' /\ RegType' /\ TmuxType' /\ faults' \in 0 .. MaxFaults
  BY DEF TypeOK, SpawnType, MapType, RegType, TmuxType, spawnVars, maps, reg, tmux
<1>2. MappedIsOwn' /\ InHand' /\ OneLocal' /\ NotifiesOwn'
  BY DEF MappedIsOwn, InHand, OneLocal, NotifiesOwn, Pane, maps, reg, tmux
<1>3. WireType'
  BY DEF TypeOK, WireType
<1>4. m.req \in Reqs /\ m.ok \in BOOLEAN
  OBVIOUS
<1>5. CoordType' /\ OpenIsUnanswered'
  BY <1>4, ResponseAnswers DEF TypeOK, CoordType
<1> QED
  BY <1>1, <1>2, <1>3, <1>5 DEF TypeOK

\* LinkBreaks keeps the invariant.
LEMMA LinkBreaksIInv ==
  ASSUME IInv, LinkBreaks
  PROVE  IInv'
<1> USE DEF IInv, LinkBreaks, Cut, Fault
<1>1. CoordType' /\ SpawnType' /\ MapType' /\ RegType' /\ TmuxType'
  BY DEF TypeOK, CoordType, SpawnType, MapType, RegType, TmuxType, coord, wire, spawnVars, maps, reg, tmux
<1>2. OpenIsUnanswered' /\ MappedIsOwn' /\ InHand' /\ OneLocal' /\ NotifiesOwn'
  BY DEF OpenIsUnanswered, MappedIsOwn, InHand, OneLocal, NotifiesOwn, Pane, coord, spawnVars, maps, reg, tmux
<1>3. WireType'
  BY DEF TypeOK, WireType
<1>4. faults' \in 0 .. MaxFaults
  BY SpawnAssumption DEF TypeOK
<1> QED
  BY <1>1, <1>2, <1>3, <1>4 DEF TypeOK

\* Suspends keeps the invariant.
LEMMA SuspendsIInv ==
  ASSUME IInv, Suspends
  PROVE  IInv'
<1> USE DEF IInv, Suspends, Cut, Fault
<1>1. SpawnType' /\ MapType' /\ RegType' /\ TmuxType'
  BY DEF TypeOK, SpawnType, MapType, RegType, TmuxType, coord, wire, spawnVars, maps, reg, tmux
<1>2. OpenIsUnanswered' /\ MappedIsOwn' /\ InHand' /\ OneLocal' /\ NotifiesOwn'
  BY DEF OpenIsUnanswered, MappedIsOwn, InHand, OneLocal, NotifiesOwn, Pane, coord, spawnVars, maps, reg, tmux
<1>3. WireType'
  BY DEF TypeOK, WireType
<1>4. CoordType'
  BY DEF TypeOK, CoordType
<1>5. faults' \in 0 .. MaxFaults
  BY SpawnAssumption DEF TypeOK
<1> QED
  BY <1>1, <1>2, <1>3, <1>4, <1>5 DEF TypeOK

\* Redialled keeps the invariant.
LEMMA RedialledIInv ==
  ASSUME IInv, Redialled
  PROVE  IInv'
<1> USE DEF IInv, Redialled
<1>1. SpawnType' /\ MapType' /\ RegType' /\ TmuxType' /\ faults' \in 0 .. MaxFaults
  BY DEF TypeOK, SpawnType, MapType, RegType, TmuxType, coord, wire, spawnVars, maps, reg, tmux
<1>2. OpenIsUnanswered' /\ MappedIsOwn' /\ InHand' /\ OneLocal' /\ NotifiesOwn'
  BY DEF OpenIsUnanswered, MappedIsOwn, InHand, OneLocal, NotifiesOwn, Pane, coord, spawnVars, maps, reg, tmux
<1>3. CoordType'
  BY DEF TypeOK, CoordType
<1>4. WireType'
  BY DEF TypeOK, WireType
<1> QED
  BY <1>1, <1>2, <1>3, <1>4 DEF TypeOK

\* Stop keeps the invariant.
LEMMA StopIInv ==
  ASSUME IInv, Stop
  PROVE  IInv'
<1> USE DEF IInv, Stop, Cut, Fault
<1>1. CoordType' /\ SpawnType' /\ MapType' /\ RegType' /\ TmuxType'
  BY DEF TypeOK, CoordType, SpawnType, MapType, RegType, TmuxType, coord, wire, spawnVars, maps, reg, tmux
<1>2. OpenIsUnanswered' /\ MappedIsOwn' /\ InHand' /\ OneLocal' /\ NotifiesOwn'
  BY DEF OpenIsUnanswered, MappedIsOwn, InHand, OneLocal, NotifiesOwn, Pane, coord, spawnVars, maps, reg, tmux
<1>3. WireType'
  BY DEF TypeOK, WireType
<1>4. faults' \in 0 .. MaxFaults
  BY SpawnAssumption DEF TypeOK
<1> QED
  BY <1>1, <1>2, <1>3, <1>4 DEF TypeOK

-----------------------------------------------------------------------------
(***************************************************************************)
(* Client.Spawn.                                                           *)
(***************************************************************************)
LEMMA SpawnStartIInv ==
  ASSUME IInv, NEW r \in Reqs, SpawnStart(r)
  PROVE  IInv'
<1> USE DEF IInv, SpawnStart, SpawnAt
<1>1. CoordType' /\ MapType' /\ RegType' /\ TmuxType' /\ faults' \in 0 .. MaxFaults
  BY DEF TypeOK, CoordType, MapType, RegType, TmuxType, coord, wire, spawnVars, maps, reg, tmux
<1>2. OpenIsUnanswered' /\ MappedIsOwn' /\ InHand' /\ OneLocal' /\ NotifiesOwn'
  BY DEF OpenIsUnanswered, MappedIsOwn, InHand, OneLocal, NotifiesOwn, Pane, coord, spawnVars, maps, reg, tmux
<1>3. WireType'
  BY DEF TypeOK, WireType
<1>4. SpawnType'
  BY SessionFacts DEF TypeOK, SpawnType
<1> QED
  BY <1>1, <1>2, <1>3, <1>4 DEF TypeOK

\* NewSession keeps the invariant.
LEMMA NewSessionIInv ==
  ASSUME IInv, NEW r \in Reqs, NewSession(r)
  PROVE  IInv'
<1> USE DEF IInv, NewSession, SpawnAt, Fault
<1>1. CoordType' /\ WireType' /\ MapType' /\ RegType'
  BY DEF TypeOK, CoordType, WireType, MapType, RegType, coord, wire, spawnVars, maps, reg, tmux
<1>2. OpenIsUnanswered' /\ MappedIsOwn' /\ InHand' /\ NotifiesOwn'
  BY DEF OpenIsUnanswered, MappedIsOwn, InHand, NotifiesOwn, Pane, coord, spawnVars, maps, reg, tmux
<1>3. SpawnType'
  BY SessionFacts DEF TypeOK, SpawnType
<1>4. TmuxType'
  BY SessionFacts DEF TypeOK, TmuxType
<1>5. faults' \in 0 .. MaxFaults
  BY SpawnAssumption DEF TypeOK
<1>6. OneLocal'
  <2>1. \A s \in Locals : s \in Sessions /\ s # r
    BY SpawnAssumption, SessionFacts
  <2>2. \A s \in Locals : proc'[s] = proc[s]
    BY <2>1 DEF TypeOK, TmuxType
  <2> QED
    BY <2>2 DEF OneLocal
<1> QED
  BY <1>1, <1>2, <1>3, <1>4, <1>5, <1>6 DEF TypeOK

\* RegistrationSeen keeps the invariant.
LEMMA RegistrationSeenIInv ==
  ASSUME IInv, NEW r \in Reqs, RegistrationSeen(r)
  PROVE  IInv'
<1> USE DEF IInv, RegistrationSeen, SpawnAt
<1>1. CoordType' /\ WireType' /\ RegType' /\ TmuxType' /\ faults' \in 0 .. MaxFaults
  BY DEF TypeOK, CoordType, WireType, RegType, TmuxType, coord, wire, spawnVars, maps, reg, tmux
<1>2. OpenIsUnanswered' /\ MappedIsOwn' /\ OneLocal' /\ NotifiesOwn'
  BY DEF OpenIsUnanswered, MappedIsOwn, OneLocal, NotifiesOwn, Pane, coord, spawnVars, maps, reg, tmux
<1>3. SpawnType'
  BY SessionFacts DEF TypeOK, SpawnType
<1>4. MapType'
  BY WorkerFacts DEF TypeOK, MapType
<1>5. InHand'
  BY WorkerFacts DEF InHand, TypeOK, MapType
<1> QED
  BY <1>1, <1>2, <1>3, <1>4, <1>5 DEF TypeOK

\* SpawnMapped keeps the invariant.
LEMMA SpawnMappedIInv ==
  ASSUME IInv, NEW r \in Reqs, SpawnMapped(r)
  PROVE  IInv'
<1> USE DEF IInv, SpawnMapped, SpawnAt
<1>1. CoordType' /\ WireType' /\ MapType' /\ RegType' /\ TmuxType' /\ faults' \in 0 .. MaxFaults
  BY DEF TypeOK, CoordType, WireType, MapType, RegType, TmuxType, coord, wire, spawnVars, maps, reg, tmux
<1>2. OpenIsUnanswered' /\ MappedIsOwn' /\ InHand' /\ OneLocal' /\ NotifiesOwn'
  BY DEF OpenIsUnanswered, MappedIsOwn, InHand, OneLocal, NotifiesOwn, Pane, coord, spawnVars, maps, reg, tmux
<1>3. SpawnType'
  BY SessionFacts DEF TypeOK, SpawnType
<1> QED
  BY <1>1, <1>2, <1>3 DEF TypeOK

\* GiveUp keeps the invariant.
LEMMA GiveUpIInv ==
  ASSUME IInv, NEW r \in Reqs, GiveUp(r)
  PROVE  IInv'
<1> USE DEF IInv, GiveUp, SpawnAt
<1>1. CoordType' /\ WireType' /\ MapType' /\ RegType' /\ TmuxType' /\ faults' \in 0 .. MaxFaults
  BY DEF TypeOK, CoordType, WireType, MapType, RegType, TmuxType, coord, wire, spawnVars, maps, reg, tmux
<1>2. OpenIsUnanswered' /\ MappedIsOwn' /\ InHand' /\ OneLocal' /\ NotifiesOwn'
  BY DEF OpenIsUnanswered, MappedIsOwn, InHand, OneLocal, NotifiesOwn, Pane, coord, spawnVars, maps, reg, tmux
<1>3. SpawnType'
  BY SessionFacts DEF TypeOK, SpawnType
<1> QED
  BY <1>1, <1>2, <1>3 DEF TypeOK

\* SpawnTimeout keeps the invariant.
LEMMA SpawnTimeoutIInv ==
  ASSUME IInv, NEW r \in Reqs, SpawnTimeout(r)
  PROVE  IInv'
<1> USE DEF IInv, SpawnTimeout, SpawnAt
<1>1. CoordType' /\ WireType' /\ MapType' /\ RegType' /\ TmuxType' /\ faults' \in 0 .. MaxFaults
  BY DEF TypeOK, CoordType, WireType, MapType, RegType, TmuxType, coord, wire, spawnVars, maps, reg, tmux
<1>2. OpenIsUnanswered' /\ MappedIsOwn' /\ InHand' /\ OneLocal' /\ NotifiesOwn'
  BY DEF OpenIsUnanswered, MappedIsOwn, InHand, OneLocal, NotifiesOwn, Pane, coord, spawnVars, maps, reg, tmux
<1>3. SpawnType'
  BY SessionFacts DEF TypeOK, SpawnType
<1> QED
  BY <1>1, <1>2, <1>3 DEF TypeOK

\* KillSession keeps the invariant.
LEMMA KillSessionIInv ==
  ASSUME IInv, NEW r \in Reqs, KillSession(r)
  PROVE  IInv'
<1> USE DEF IInv, KillSession, SpawnAt, Fault
<1>1. CoordType' /\ WireType' /\ MapType' /\ RegType'
  BY DEF TypeOK, CoordType, WireType, MapType, RegType, coord, wire, spawnVars, maps, reg, tmux
<1>2. OpenIsUnanswered' /\ MappedIsOwn' /\ InHand' /\ NotifiesOwn'
  BY DEF OpenIsUnanswered, MappedIsOwn, InHand, NotifiesOwn, Pane, coord, spawnVars, maps, reg, tmux
<1>3. SpawnType'
  BY SessionFacts DEF TypeOK, SpawnType
<1>4. TmuxType'
  BY SessionFacts DEF TypeOK, TmuxType
<1>5. faults' \in 0 .. MaxFaults
  BY SpawnAssumption DEF TypeOK
<1>6. OneLocal'
  BY SessionFacts DEF OneLocal, TypeOK, TmuxType
<1> QED
  BY <1>1, <1>2, <1>3, <1>4, <1>5, <1>6 DEF TypeOK

\* SpawnAnswer keeps the invariant.
LEMMA SpawnAnswerIInv ==
  ASSUME IInv, NEW r \in Reqs, SpawnAnswer(r)
  PROVE  IInv'
<1> USE DEF IInv, SpawnAnswer, SpawnAt
<1>1. CoordType' /\ MapType' /\ RegType' /\ TmuxType' /\ faults' \in 0 .. MaxFaults
  BY DEF TypeOK, CoordType, MapType, RegType, TmuxType, coord, wire, spawnVars, maps, reg, tmux
<1>2. OpenIsUnanswered' /\ MappedIsOwn' /\ InHand' /\ OneLocal' /\ NotifiesOwn'
  BY DEF OpenIsUnanswered, MappedIsOwn, InHand, OneLocal, NotifiesOwn, Pane, coord, spawnVars, maps, reg, tmux
<1>3. WireType'
  <2> DEFINE ok == (spawn[r] = "yes")
  <2>1. ok \in BOOLEAN
    OBVIOUS
  <2> HIDE DEF ok
  <2>2. Answer(r, ok) \in [req : Reqs, ok : BOOLEAN]
    BY <2>1 DEF Answer
  <2>3. responses' \in {responses, responses \cup {Answer(r, ok)}}
    BY DEF ok
  <2>4. lost' \subseteq Reqs
    BY DEF TypeOK, WireType
  <2> QED
    BY <2>2, <2>3, <2>4 DEF TypeOK, WireType
<1>4. SpawnType'
  BY SessionFacts DEF TypeOK, SpawnType
<1> QED
  BY <1>1, <1>2, <1>3, <1>4 DEF TypeOK

-----------------------------------------------------------------------------
(***************************************************************************)
(* handleRegister and the processes.                                       *)
(***************************************************************************)
LEMMA StartLocalIInv ==
  ASSUME IInv, NEW s \in Sessions, StartLocal(s)
  PROVE  IInv'
<1> USE DEF IInv, StartLocal
<1>1. CoordType' /\ WireType' /\ SpawnType' /\ MapType' /\ RegType' /\ faults' \in 0 .. MaxFaults
  BY DEF TypeOK, CoordType, WireType, SpawnType, MapType, RegType, coord, wire, spawnVars, maps, reg, tmux
<1>2. OpenIsUnanswered' /\ MappedIsOwn' /\ InHand' /\ NotifiesOwn'
  BY DEF OpenIsUnanswered, MappedIsOwn, InHand, NotifiesOwn, Pane, coord, spawnVars, maps, reg, tmux
<1>3. TmuxType'
  BY SessionFacts DEF TypeOK, TmuxType
<1>4. OneLocal'
  BY SessionFacts DEF OneLocal, TypeOK, TmuxType
<1> QED
  BY <1>1, <1>2, <1>3, <1>4 DEF TypeOK

\* RegisterFrame keeps the invariant.
LEMMA RegisterFrameIInv ==
  ASSUME IInv, NEW s \in Sessions, RegisterFrame(s)
  PROVE  IInv'
<1> USE DEF IInv, RegisterFrame, ServeAt
<1>1. CoordType' /\ WireType' /\ SpawnType' /\ MapType' /\ TmuxType' /\ faults' \in 0 .. MaxFaults
  BY DEF TypeOK, CoordType, WireType, SpawnType, MapType, TmuxType, coord, wire, spawnVars, maps, reg, tmux
<1>2. OpenIsUnanswered' /\ MappedIsOwn' /\ InHand' /\ OneLocal'
  BY DEF OpenIsUnanswered, MappedIsOwn, InHand, OneLocal, Pane, coord, spawnVars, maps, reg, tmux
<1>3. RegType'
  BY SessionFacts DEF TypeOK, RegType
<1>4. NotifiesOwn'
  BY SessionFacts DEF NotifiesOwn, TypeOK, RegType, SpawnType
<1> QED
  BY <1>1, <1>2, <1>3, <1>4 DEF TypeOK

\* FindTarget keeps the invariant.
LEMMA FindTargetIInv ==
  ASSUME IInv, NEW s \in Sessions, FindTarget(s)
  PROVE  IInv'
<1> USE DEF IInv, FindTarget, ServeAt, Fault
<1>1. CoordType' /\ WireType' /\ SpawnType' /\ TmuxType'
  BY DEF TypeOK, CoordType, WireType, SpawnType, TmuxType, coord, wire, spawnVars, maps, reg, tmux
<1>2. OpenIsUnanswered' /\ MappedIsOwn' /\ OneLocal'
  BY DEF OpenIsUnanswered, MappedIsOwn, OneLocal, Pane, coord, spawnVars, maps, reg, tmux
<1>3. RegType'
  BY SessionFacts DEF TypeOK, RegType
<1>4. MapType'
  BY WorkerFacts DEF TypeOK, MapType
<1>5. faults' \in 0 .. MaxFaults
  BY SpawnAssumption DEF TypeOK
<1>6. NotifiesOwn'
  BY SessionFacts DEF NotifiesOwn, TypeOK, RegType, SpawnType
<1>7. InHand'
  BY WorkerFacts DEF InHand, TypeOK, MapType
<1> QED
  BY <1>1, <1>2, <1>3, <1>4, <1>5, <1>6, <1>7 DEF TypeOK

\* ServeMapped keeps the invariant.
LEMMA ServeMappedIInv ==
  ASSUME IInv, NEW s \in Sessions, ServeMapped(s)
  PROVE  IInv'
<1> USE DEF IInv, ServeMapped, ServeAt
<1>1. CoordType' /\ WireType' /\ SpawnType' /\ MapType' /\ TmuxType' /\ faults' \in 0 .. MaxFaults
  BY DEF TypeOK, CoordType, WireType, SpawnType, MapType, TmuxType, coord, wire, spawnVars, maps, reg, tmux
<1>2. OpenIsUnanswered' /\ MappedIsOwn' /\ InHand' /\ OneLocal'
  BY DEF OpenIsUnanswered, MappedIsOwn, InHand, OneLocal, Pane, coord, spawnVars, maps, reg, tmux
<1>3. RegType'
  BY SessionFacts DEF TypeOK, RegType
<1>4. NotifiesOwn'
  BY SessionFacts DEF NotifiesOwn, TypeOK, RegType, SpawnType
<1> QED
  BY <1>1, <1>2, <1>3, <1>4 DEF TypeOK

\* Notify keeps the invariant.
LEMMA NotifyIInv ==
  ASSUME IInv, NEW s \in Sessions, Notify(s)
  PROVE  IInv'
<1> USE DEF IInv, Notify, ServeAt
<1>1. CoordType' /\ WireType' /\ MapType' /\ TmuxType' /\ faults' \in 0 .. MaxFaults
  BY DEF TypeOK, CoordType, WireType, MapType, TmuxType, coord, wire, spawnVars, maps, reg, tmux
<1>2. OpenIsUnanswered' /\ MappedIsOwn' /\ InHand' /\ OneLocal'
  BY DEF OpenIsUnanswered, MappedIsOwn, InHand, OneLocal, Pane, coord, spawnVars, maps, reg, tmux
<1>3. SpawnType'
  BY DEF TypeOK, SpawnType, NotifiesOwn
<1>4. RegType'
  BY SessionFacts DEF TypeOK, RegType
<1>5. NotifiesOwn'
  BY SessionFacts DEF NotifiesOwn, TypeOK, RegType, SpawnType
<1> QED
  BY <1>1, <1>2, <1>3, <1>4, <1>5 DEF TypeOK

\* Register keeps the invariant.
LEMMA RegisterIInv ==
  ASSUME IInv, NEW s \in Sessions, Register(s)
  PROVE  IInv'
<1> USE DEF IInv, Register, ServeAt
<1>1. CoordType' /\ WireType' /\ SpawnType' /\ MapType' /\ TmuxType' /\ faults' \in 0 .. MaxFaults
  BY DEF TypeOK, CoordType, WireType, SpawnType, MapType, TmuxType, coord, wire, spawnVars, maps, reg, tmux
<1>2. OpenIsUnanswered' /\ MappedIsOwn' /\ InHand' /\ OneLocal'
  BY DEF OpenIsUnanswered, MappedIsOwn, InHand, OneLocal, Pane, coord, spawnVars, maps, reg, tmux
<1>3. RegType'
  BY SessionFacts DEF TypeOK, RegType
<1>4. NotifiesOwn'
  BY SessionFacts DEF NotifiesOwn, TypeOK, RegType, SpawnType
<1> QED
  BY <1>1, <1>2, <1>3, <1>4 DEF TypeOK

\* ProcessExits keeps the invariant.
LEMMA ProcessExitsIInv ==
  ASSUME IInv, NEW s \in Sessions, ProcessExits(s)
  PROVE  IInv'
<1> USE DEF IInv, ProcessExits
<1>1. CoordType' /\ WireType' /\ SpawnType' /\ MapType' /\ RegType' /\ faults' \in 0 .. MaxFaults
  BY DEF TypeOK, CoordType, WireType, SpawnType, MapType, RegType, coord, wire, spawnVars, maps, reg, tmux
<1>2. OpenIsUnanswered' /\ MappedIsOwn' /\ InHand' /\ NotifiesOwn'
  BY DEF OpenIsUnanswered, MappedIsOwn, InHand, NotifiesOwn, Pane, coord, spawnVars, maps, reg, tmux
<1>3. TmuxType'
  BY SessionFacts DEF TypeOK, TmuxType
<1>4. OneLocal'
  BY SessionFacts DEF OneLocal, TypeOK, TmuxType
<1> QED
  BY <1>1, <1>2, <1>3, <1>4 DEF TypeOK

\* ConnectionEnds keeps the invariant.
LEMMA ConnectionEndsIInv ==
  ASSUME IInv, NEW s \in Sessions, ConnectionEnds(s)
  PROVE  IInv'
<1> USE DEF IInv, ConnectionEnds, ServeAt
<1>1. CoordType' /\ WireType' /\ SpawnType' /\ MapType' /\ TmuxType' /\ faults' \in 0 .. MaxFaults
  BY DEF TypeOK, CoordType, WireType, SpawnType, MapType, TmuxType, coord, wire, spawnVars, maps, reg, tmux
<1>2. OpenIsUnanswered' /\ MappedIsOwn' /\ InHand' /\ OneLocal'
  BY DEF OpenIsUnanswered, MappedIsOwn, InHand, OneLocal, Pane, coord, spawnVars, maps, reg, tmux
<1>3. RegType'
  BY SessionFacts DEF TypeOK, RegType
<1>4. NotifiesOwn'
  BY SessionFacts DEF NotifiesOwn, TypeOK, RegType, SpawnType
<1> QED
  BY <1>1, <1>2, <1>3, <1>4 DEF TypeOK

\* ConnectionDrops keeps the invariant.
LEMMA ConnectionDropsIInv ==
  ASSUME IInv, NEW s \in Sessions, ConnectionDrops(s)
  PROVE  IInv'
<1> USE DEF IInv, ConnectionDrops, ServeAt, Fault
<1>1. CoordType' /\ WireType' /\ SpawnType' /\ MapType' /\ TmuxType'
  BY DEF TypeOK, CoordType, WireType, SpawnType, MapType, TmuxType, coord, wire, spawnVars, maps, reg, tmux
<1>2. OpenIsUnanswered' /\ MappedIsOwn' /\ InHand' /\ OneLocal'
  BY DEF OpenIsUnanswered, MappedIsOwn, InHand, OneLocal, Pane, coord, spawnVars, maps, reg, tmux
<1>3. RegType'
  BY SessionFacts DEF TypeOK, RegType
<1>4. NotifiesOwn'
  BY SessionFacts DEF NotifiesOwn, TypeOK, RegType, SpawnType
<1>5. faults' \in 0 .. MaxFaults
  BY SpawnAssumption DEF TypeOK
<1> QED
  BY <1>1, <1>2, <1>3, <1>4, <1>5 DEF TypeOK

\* Reap keeps the invariant.
LEMMA ReapIInv ==
  ASSUME IInv, NEW s \in Sessions, Reap(s)
  PROVE  IInv'
<1> USE DEF IInv, Reap
<1>1. CoordType' /\ WireType' /\ SpawnType' /\ MapType' /\ TmuxType' /\ faults' \in 0 .. MaxFaults
  BY DEF TypeOK, CoordType, WireType, SpawnType, MapType, TmuxType, coord, wire, spawnVars, maps, reg, tmux
<1>2. OpenIsUnanswered' /\ MappedIsOwn' /\ InHand' /\ OneLocal' /\ NotifiesOwn'
  BY DEF OpenIsUnanswered, MappedIsOwn, InHand, OneLocal, NotifiesOwn, Pane, coord, spawnVars, maps, reg, tmux
<1>3. RegType'
  BY SessionFacts DEF TypeOK, RegType
<1> QED
  BY <1>1, <1>2, <1>3 DEF TypeOK

-----------------------------------------------------------------------------
(***************************************************************************)
(* MapPane.                                                                *)
(***************************************************************************)
LEMMA ScanIInv ==
  ASSUME IInv, NEW w \in Workers, Scan(w)
  PROVE  IInv'
<1> USE DEF IInv, Scan, MapAt
<1>1. CoordType' /\ WireType' /\ SpawnType' /\ RegType' /\ TmuxType' /\ faults' \in 0 .. MaxFaults
  BY DEF TypeOK, CoordType, WireType, SpawnType, RegType, TmuxType, coord, wire, spawnVars, maps, reg, tmux
<1>2. OpenIsUnanswered' /\ MappedIsOwn' /\ OneLocal' /\ NotifiesOwn'
  BY DEF OpenIsUnanswered, MappedIsOwn, OneLocal, NotifiesOwn, Pane, coord, spawnVars, maps, reg, tmux
<1>3. MapType'
  BY WorkerFacts DEF TypeOK, MapType
<1>4. InHand'
  BY WorkerFacts DEF InHand, TypeOK, MapType
<1> QED
  BY <1>1, <1>2, <1>3, <1>4 DEF TypeOK

\* Unlink keeps the invariant.
LEMMA UnlinkIInv ==
  ASSUME IInv, NEW w \in Workers, NEW p \in Panes, Unlink(w, p)
  PROVE  IInv'
<1> USE DEF IInv, Unlink, MapAt, Fault, FaultIf
<1>1. CoordType' /\ WireType' /\ SpawnType' /\ RegType'
  BY DEF TypeOK, CoordType, WireType, SpawnType, RegType, coord, wire, spawnVars, maps, reg, tmux
<1>2. OpenIsUnanswered' /\ MappedIsOwn' /\ NotifiesOwn'
  BY DEF OpenIsUnanswered, MappedIsOwn, NotifiesOwn, Pane, coord, spawnVars, maps, reg, tmux
<1>3. MapType'
  BY WorkerFacts DEF TypeOK, MapType
<1>4. TmuxType'
  BY SessionFacts DEF TypeOK, TmuxType
<1>5. faults' \in 0 .. MaxFaults
  BY SpawnAssumption DEF TypeOK
<1>6. OneLocal'
  BY SessionFacts DEF OneLocal, TypeOK, TmuxType
<1>7. InHand'
  BY SessionFacts DEF InHand, TypeOK, MapType
<1> QED
  BY <1>1, <1>2, <1>3, <1>4, <1>5, <1>6, <1>7 DEF TypeOK

\* Delete keeps the invariant.
LEMMA DeleteIInv ==
  ASSUME IInv, NEW w \in Workers, Delete(w)
  PROVE  IInv'
<1> USE DEF IInv, Delete, MapAt
<1>1. CoordType' /\ WireType' /\ SpawnType' /\ RegType' /\ TmuxType' /\ faults' \in 0 .. MaxFaults
  BY DEF TypeOK, CoordType, WireType, SpawnType, RegType, TmuxType, coord, wire, spawnVars, maps, reg, tmux
<1>2. OpenIsUnanswered' /\ OneLocal' /\ NotifiesOwn'
  BY DEF OpenIsUnanswered, OneLocal, NotifiesOwn, Pane, coord, spawnVars, maps, reg, tmux
<1>3. MapType'
  BY WorkerFacts DEF TypeOK, MapType
<1>4. MappedIsOwn'
  BY WorkerFacts DEF MappedIsOwn, TypeOK, MapType
<1>5. InHand'
  BY DEF InHand, TypeOK, MapType
<1> QED
  BY <1>1, <1>2, <1>3, <1>4, <1>5 DEF TypeOK

\* Assign keeps the invariant.
LEMMA AssignIInv ==
  ASSUME IInv, NEW w \in Workers, Assign(w)
  PROVE  IInv'
<1> USE DEF IInv, Assign, MapAt, Fault, FaultIf
<1>1. CoordType' /\ WireType' /\ SpawnType' /\ RegType' /\ TmuxType'
  BY DEF TypeOK, CoordType, WireType, SpawnType, RegType, TmuxType, coord, wire, spawnVars, maps, reg, tmux
<1>2. OpenIsUnanswered' /\ OneLocal' /\ NotifiesOwn'
  BY DEF OpenIsUnanswered, OneLocal, NotifiesOwn, Pane, coord, spawnVars, maps, reg, tmux
<1>3. MapType'
  BY WorkerFacts DEF TypeOK, MapType
<1>4. faults' \in 0 .. MaxFaults
  BY SpawnAssumption DEF TypeOK
<1>5. MappedIsOwn'
  BY WorkerFacts DEF MappedIsOwn, TypeOK, MapType
<1>6. InHand'
  BY SessionFacts DEF InHand, TypeOK, MapType
<1> QED
  BY <1>1, <1>2, <1>3, <1>4, <1>5, <1>6 DEF TypeOK

\* LinkWindow keeps the invariant.
LEMMA LinkWindowIInv ==
  ASSUME IInv, NEW w \in Workers, LinkWindow(w)
  PROVE  IInv'
<1> USE DEF IInv, LinkWindow, MapAt, Fault
<1>1. CoordType' /\ WireType' /\ SpawnType' /\ RegType'
  BY DEF TypeOK, CoordType, WireType, SpawnType, RegType, coord, wire, spawnVars, maps, reg, tmux
<1>2. OpenIsUnanswered' /\ MappedIsOwn' /\ OneLocal' /\ NotifiesOwn'
  BY DEF OpenIsUnanswered, MappedIsOwn, OneLocal, NotifiesOwn, Pane, coord, spawnVars, maps, reg, tmux
<1>3. MapType'
  BY WorkerFacts DEF TypeOK, MapType
<1>4. TmuxType'
  <2>1. at[w] \in Panes
    BY DEF InHand, TypeOK, MapType
  <2> QED
    BY <2>1 DEF TypeOK, TmuxType
<1>5. faults' \in 0 .. MaxFaults
  BY SpawnAssumption DEF TypeOK
<1>6. InHand'
  BY DEF InHand, TypeOK, MapType
<1> QED
  BY <1>1, <1>2, <1>3, <1>4, <1>5, <1>6 DEF TypeOK

-----------------------------------------------------------------------------
\* Every step keeps the invariant: one case per action.
LEMMA NextIInv == IInv /\ [Next]_vars => IInv'
<1> SUFFICES ASSUME IInv, [Next]_vars PROVE IInv'
  OBVIOUS
<1>1. ASSUME NEW r \in Reqs, SpawnSession(r) \/ Forward(r) \/ SpawnStep(r) PROVE IInv'
  BY <1>1, SpawnSessionIInv, ForwardIInv, SpawnStartIInv, NewSessionIInv, RegistrationSeenIInv,
     SpawnMappedIInv, GiveUpIInv, SpawnTimeoutIInv, KillSessionIInv, SpawnAnswerIInv
     DEF SpawnStep
<1>2. ASSUME NEW s \in Sessions,
             \/ StartLocal(s) \/ RegisterFrame(s) \/ ServeStep(s) \/ ProcessExits(s)
             \/ ConnectionDrops(s) \/ Reap(s)
      PROVE  IInv'
  BY <1>2, StartLocalIInv, RegisterFrameIInv, FindTargetIInv, ServeMappedIInv, NotifyIInv,
     RegisterIInv, ConnectionEndsIInv, ConnectionDropsIInv, ProcessExitsIInv, ReapIInv DEF ServeStep
<1>3. ASSUME NEW w \in Workers, MapStep(w) PROVE IInv'
  BY <1>3, ScanIInv, UnlinkIInv, DeleteIInv, AssignIInv, LinkWindowIInv DEF MapStep
<1>4. CASE LinkBreaks \/ Suspends \/ Redialled \/ Stop
  BY <1>4, LinkBreaksIInv, SuspendsIInv, RedialledIInv, StopIInv
<1>5. CASE UNCHANGED vars
  BY <1>5 DEF vars, coord, wire, spawnVars, maps, reg, tmux, IInv, TypeOK, CoordType, WireType,
              SpawnType, MapType, RegType, TmuxType, OpenIsUnanswered, MappedIsOwn, InHand,
              OneLocal, NotifiesOwn, Pane
<1> QED
  BY <1>1, <1>2, <1>3, <1>4, <1>5, IngestResponseIInv DEF Next

\* Open requests, pane map and processes stay consistent whatever fails or times out.
THEOREM InvariantHolds == Spec => []IInv
<1>1. Init => IInv
  BY InitIInv
<1>2. IInv /\ [Next]_vars => IInv'
  BY NextIInv
<1> QED
  BY <1>1, <1>2, PTL DEF Spec

\* A request gets at most one spawn_response (client_ws.go:132-141).
THEOREM AnsweredOnceHolds == Spec => []AnsweredOnce
<1>1. IInv => AnsweredOnce
  <2> SUFFICES ASSUME IInv, NEW r \in Reqs PROVE Cardinality(answers[r]) <= 1
    BY DEF AnsweredOnce
  <2>1. CASE answers[r] = {}
    BY <2>1, FS_EmptySet
  <2>2. CASE answers[r] # {}
    <3>1. PICK a : a \in answers[r]
      BY <2>2
    <3>2. answers[r] = {a}
      BY <3>1 DEF IInv, OpenIsUnanswered
    <3> QED
      BY <3>2, FS_Singleton
  <2> QED
    BY <2>1, <2>2
<1> QED
  BY <1>1, InvariantHolds, PTL

\* Keystrokes for a registered session with a resolved target whose Pi runs go to that
\* Pi and to no other, unless another call's pane_id was stored for it (tmux.go:712-727).
THEOREM KeysReachOwnPaneHolds == Spec => []KeysReachOwnPane
<1>1. IInv => KeysReachOwnPane
  <2> SUFFICES ASSUME IInv, NEW s \in Sessions, s \notin misread, entry[s] = "running",
                      proc[s] = "running", target[s]
               PROVE  PtyTargets(s) # {} /\ \A p \in PtyTargets(s) : Occupants(p) = {s}
    BY DEF KeysReachOwnPane
  <2> DEFINE mapped == {p \in Panes : paneToSession[p] = s}
  <2>1. PtyTargets(s) # {} /\ \A p \in PtyTargets(s) : p = Pane(s)
    <3>1. \A p \in mapped : p = Pane(s)
      BY SessionFacts DEF IInv, MappedIsOwn
    <3>2. PtyTargets(s) = IF mapped # {} THEN mapped ELSE {Pane(s)}
      BY DEF PtyTargets
    <3> HIDE DEF mapped
    <3> QED
      BY <3>1, <3>2
  <2>2. \A t \in Sessions : Pane(t) = Pane(s) /\ proc[t] = "running" => t = s
    BY SessionFacts DEF IInv, OneLocal
  <2> QED
    BY <2>1, <2>2 DEF Occupants
<1> QED
  BY <1>1, InvariantHolds, PTL
=============================================================================
