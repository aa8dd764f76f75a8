-------------------------- MODULE ExtSessionProofs --------------------------
(***************************************************************************)
(* Proofs about ExtSession, for any set of connections and any bounds.     *)
(***************************************************************************)
EXTENDS ExtSession, TLAPS

\* The frames of an extension.
LEMMA FrameFacts ==
  /\ "register" \in Frames /\ "heartbeat" \in Frames /\ "event" \in Frames
  /\ "oversize" \in Frames /\ "disconnect" \in Frames /\ "torn" \in Frames
  BY DEF Frames

\* The invariant holds initially.
LEMMA InitIInv == Init => IInv
<1> SUFFICES ASSUME Init PROVE IInv
  OBVIOUS
<1>1. ExtType /\ DaemonType
  BY DEF Init, ExtType, DaemonType
<1>2. WireType
  BY DEF Init, WireType
<1>3. TypeOK
  BY <1>1, <1>2, ExtAssumption DEF Init, TypeOK
<1>4. OneServe /\ LiveOnceRegistered /\ OneAnnouncer
  BY DEF Init, OneServe, Listening, LiveOnceRegistered, OneAnnouncer
<1> QED
  BY <1>3, <1>4 DEF IInv

-----------------------------------------------------------------------------
(***************************************************************************)
(* The extension.                                                          *)
(***************************************************************************)
\* A dial finds no Serve goroutine of an earlier connection.
LEMMA DialIInv ==
  ASSUME IInv, NEW c \in Conns, Dial(c), ext \in {"idle", "down"},
         waiting' \subseteq {"initial", "again"}
  PROVE  IInv'
<1> USE DEF IInv, Dial, Unused, registry, others
<1>1. TypeOK'
  <2>1. <<"register">> \in Seq(Frames)
    BY FrameFacts
  <2>2. WireType'
    BY <2>1 DEF TypeOK, WireType
  <2> QED
    BY <2>2 DEF TypeOK, ExtType, DaemonType
<1>2. OneServe'
  BY DEF OneServe, Listening, TypeOK, DaemonType, WireType, ExtType
<1>3. LiveOnceRegistered'
  BY DEF LiveOnceRegistered, OneServe, Listening, TypeOK, DaemonType, ExtType
<1>4. OneAnnouncer'
  BY DEF OneAnnouncer, TypeOK, DaemonType
<1> QED
  BY <1>1, <1>2, <1>3, <1>4

\* LeaveWith keeps the invariant.
LEMMA LeaveWithIInv ==
  ASSUME IInv, NEW last \in Seq(Frames), LeaveWith(last)
  PROVE  IInv'
<1> USE DEF IInv, LeaveWith, registry, others
<1>1. TypeOK'
  <2>1. toDaemon \in [Conns -> Seq(Frames)] /\ (link \in Conns => toDaemon[link] \o last \in Seq(Frames))
    BY DEF TypeOK, WireType
  <2>2. link \in Conns \cup {NoConn}
    BY DEF TypeOK, ExtType
  <2>3. toDaemon' \in [Conns -> Seq(Frames)]
    BY <2>1, <2>2
  <2>4. WireType'
    BY <2>2, <2>3 DEF TypeOK, WireType
  <2>5. ExtType'
    BY DEF TypeOK, ExtType
  <2>6. DaemonType' /\ faults' \in 0 .. MaxFaults
    BY DEF TypeOK, DaemonType
  <2> QED
    BY <2>4, <2>5, <2>6 DEF TypeOK
<1>2. OneServe'
  BY DEF OneServe, Listening, TypeOK, DaemonType, WireType, ExtType
<1>3. LiveOnceRegistered'
  BY DEF LiveOnceRegistered, OneServe, Listening, TypeOK, DaemonType, ExtType
<1>4. OneAnnouncer'
  BY DEF OneAnnouncer, TypeOK, DaemonType
<1> QED
  BY <1>1, <1>2, <1>3, <1>4

\* Write keeps the invariant.
LEMMA WriteIInv ==
  ASSUME IInv, NEW f \in Frames, Write(f), faults' \in 0 .. MaxFaults
  PROVE  IInv'
<1> USE DEF IInv, Write, extVars, registry, others
<1>1. TypeOK'
  <2>1. toDaemon \in [Conns -> Seq(Frames)] /\ link \in Conns
    BY DEF TypeOK, WireType, OneServe
  <2>2. Append(toDaemon[link], f) \in Seq(Frames)
    BY <2>1
  <2>3. toDaemon' \in [Conns -> Seq(Frames)]
    BY <2>1, <2>2
  <2>4. WireType'
    BY <2>3 DEF TypeOK, WireType
  <2>5. ExtType'
    BY DEF TypeOK, ExtType
  <2>6. DaemonType'
    BY DEF TypeOK, DaemonType
  <2> QED
    BY <2>4, <2>5, <2>6 DEF TypeOK
<1>2. OneServe'
  BY DEF OneServe, Listening, TypeOK, DaemonType, WireType, ExtType
<1>3. LiveOnceRegistered'
  BY DEF LiveOnceRegistered, OneServe, Listening, TypeOK, DaemonType, ExtType
<1>4. OneAnnouncer'
  BY DEF OneAnnouncer, TypeOK, DaemonType
<1> QED
  BY <1>1, <1>2, <1>3, <1>4

\* Extension keeps the invariant.
LEMMA ExtensionIInv ==
  ASSUME IInv,
         \/ SessionStart \/ Reconnect \/ InitialTimeout \/ Shutdown \/ Killed
         \/ SendHeartbeat \/ SendEvent
  PROVE  IInv'
<1>0. waiting \subseteq {"initial", "again"} /\ faults \in 0 .. MaxFaults
  BY DEF IInv, TypeOK, ExtType
<1>1. CASE SessionStart
  <2>1. ASSUME NEW c \in Conns, Dial(c), waiting' = {"initial"} PROVE IInv'
    BY <1>1, <2>1, DialIInv DEF SessionStart
  <2>2. CASE ~Listening /\ ext' = "gone" /\ UNCHANGED <<link, registered, waiting, beating, wires,
                                     serve, accepted, main, registry, others, faults>>
    BY <2>2 DEF wires, registry, others, IInv, TypeOK, ExtType, WireType, DaemonType, OneServe, Listening,
                LiveOnceRegistered, OneAnnouncer
  <2> QED
    BY <1>1, <2>1, <2>2 DEF SessionStart
<1>2. CASE Reconnect
  BY <1>0, <1>2, DialIInv DEF Reconnect
<1>3. CASE InitialTimeout \/ Shutdown \/ Killed
  <2>1. <<>> \in Seq(Frames) /\ <<"disconnect">> \in Seq(Frames) /\ <<"torn">> \in Seq(Frames)
    BY FrameFacts
  <2> QED
    BY <1>3, <2>1, LeaveWithIInv DEF InitialTimeout, Shutdown, Killed
<1>4. CASE SendHeartbeat \/ SendEvent
  <2>1. Fault \/ UNCHANGED faults => faults' \in 0 .. MaxFaults
    BY <1>0, ExtAssumption DEF Fault
  <2> QED
    BY <1>4, <2>1, WriteIInv, FrameFacts DEF SendHeartbeat, SendEvent
<1> QED
  BY <1>1, <1>2, <1>3, <1>4

\* RecvAck keeps the invariant.
LEMMA RecvAckIInv ==
  ASSUME IInv, RecvAck
  PROVE  IInv'
<1> USE ExtAssumption DEF IInv, RecvAck, extVars, wires, registry, others
<1>1. TypeOK'
  <2>1. ExtType'
    BY DEF TypeOK, ExtType
  <2>2. WireType'
    BY FrameFacts DEF TypeOK, WireType, ExtType
  <2>3. DaemonType'
    BY DEF TypeOK, DaemonType, ExtType
  <2>4. faults' \in 0 .. MaxFaults
    BY DEF TypeOK
  <2> QED
    BY <2>1, <2>2, <2>3, <2>4 DEF TypeOK
<1>2. OneServe'
  BY DEF OneServe, Listening, TypeOK, DaemonType, WireType, ExtType
<1>3. LiveOnceRegistered'
  BY DEF LiveOnceRegistered, OneServe, Listening, TypeOK, DaemonType, ExtType
<1>4. OneAnnouncer'
  BY DEF OneAnnouncer, TypeOK, DaemonType
<1> QED
  BY <1>1, <1>2, <1>3, <1>4

\* AgainTimeout keeps the invariant.
LEMMA AgainTimeoutIInv ==
  ASSUME IInv, AgainTimeout
  PROVE  IInv'
<1> USE ExtAssumption DEF IInv, AgainTimeout, extVars, wires, registry, others
<1>1. TypeOK'
  BY DEF TypeOK, ExtType, WireType, DaemonType
<1>2. OneServe'
  BY DEF OneServe, Listening, TypeOK, DaemonType, WireType, ExtType
<1>3. LiveOnceRegistered'
  BY DEF LiveOnceRegistered, OneServe, Listening, TypeOK, DaemonType, ExtType
<1>4. OneAnnouncer'
  BY DEF OneAnnouncer, TypeOK, DaemonType
<1> QED
  BY <1>1, <1>2, <1>3, <1>4

\* SeeClose keeps the invariant.
LEMMA SeeCloseIInv ==
  ASSUME IInv, SeeClose
  PROVE  IInv'
<1> USE ExtAssumption DEF IInv, SeeClose, extVars, wires, registry, others
<1>1. TypeOK'
  <2>1. ExtType'
    BY DEF TypeOK, ExtType
  <2>2. WireType'
    BY FrameFacts DEF TypeOK, WireType, ExtType
  <2>3. DaemonType'
    BY DEF TypeOK, DaemonType, ExtType
  <2>4. faults' \in 0 .. MaxFaults
    BY DEF TypeOK
  <2> QED
    BY <2>1, <2>2, <2>3, <2>4 DEF TypeOK
<1>2. OneServe'
  BY DEF OneServe, Listening, TypeOK, DaemonType, WireType, ExtType
<1>3. LiveOnceRegistered'
  BY DEF LiveOnceRegistered, OneServe, Listening, TypeOK, DaemonType, ExtType
<1>4. OneAnnouncer'
  BY DEF OneAnnouncer, TypeOK, DaemonType
<1> QED
  BY <1>1, <1>2, <1>3, <1>4

-----------------------------------------------------------------------------
(***************************************************************************)
(* acceptLoop and Handler.Serve.                                           *)
(***************************************************************************)
LEMMA AcceptIInv ==
  ASSUME IInv, NEW c \in Conns, Accept(c)
  PROVE  IInv'
<1> USE ExtAssumption DEF IInv, Accept, Goto, extVars, wires, registry, others
<1>1. TypeOK'
  BY DEF TypeOK, ExtType, WireType, DaemonType
<1>2. OneServe'
  BY DEF OneServe, Listening, TypeOK, DaemonType, WireType, ExtType
<1>3. LiveOnceRegistered'
  BY DEF LiveOnceRegistered, OneServe, Listening, TypeOK, DaemonType, ExtType
<1>4. OneAnnouncer'
  BY DEF OneAnnouncer, TypeOK, DaemonType
<1> QED
  BY <1>1, <1>2, <1>3, <1>4

\* AcceptFails keeps the invariant.
LEMMA AcceptFailsIInv ==
  ASSUME IInv, AcceptFails
  PROVE  IInv'
<1> USE ExtAssumption DEF IInv, AcceptFails, Fault, extVars, wires, registry, others
<1>1. TypeOK'
  BY DEF TypeOK, ExtType, WireType, DaemonType
<1>2. OneServe'
  BY DEF OneServe, Listening, TypeOK, DaemonType, WireType, ExtType
<1>3. LiveOnceRegistered'
  BY DEF LiveOnceRegistered, OneServe, Listening, TypeOK, DaemonType, ExtType
<1>4. OneAnnouncer'
  BY DEF OneAnnouncer, TypeOK, DaemonType
<1> QED
  BY <1>1, <1>2, <1>3, <1>4

\* StartServe keeps the invariant.
LEMMA StartServeIInv ==
  ASSUME IInv, NEW c \in Conns, StartServe(c)
  PROVE  IInv'
<1> USE ExtAssumption DEF IInv, StartServe, Goto, extVars, wires, registry, others
<1>1. TypeOK'
  BY DEF TypeOK, ExtType, WireType, DaemonType
<1>2. OneServe'
  BY DEF OneServe, Listening, TypeOK, DaemonType, WireType, ExtType
<1>3. LiveOnceRegistered'
  BY DEF LiveOnceRegistered, OneServe, Listening, TypeOK, DaemonType, ExtType
<1>4. OneAnnouncer'
  BY DEF OneAnnouncer, TypeOK, DaemonType
<1> QED
  BY <1>1, <1>2, <1>3, <1>4

\* ReadFirst keeps the invariant.
LEMMA ReadFirstIInv ==
  ASSUME IInv, NEW c \in Conns, ReadFirst(c)
  PROVE  IInv'
<1> USE ExtAssumption DEF IInv, ReadFirst, Goto, Pop, ServeOnly, extVars, wires, registry, others
<1>1. TypeOK'
  <2>1. toDaemon \in [Conns -> Seq(Frames)] /\ (toDaemon[c] # <<>> => Tail(toDaemon[c]) \in Seq(Frames))
    BY DEF TypeOK, WireType
  <2>2. toDaemon' \in [Conns -> Seq(Frames)]
    BY <2>1
  <2>3. WireType'
    BY <2>2 DEF TypeOK, WireType
  <2>4. ExtType' /\ faults' \in 0 .. MaxFaults
    BY DEF TypeOK, ExtType
  <2>5. DaemonType'
    BY DEF TypeOK, DaemonType
  <2> QED
    BY <2>3, <2>4, <2>5 DEF TypeOK
<1>2. OneServe'
  BY DEF OneServe, Listening, TypeOK, DaemonType, WireType, ExtType
<1>3. LiveOnceRegistered'
  BY DEF LiveOnceRegistered, OneServe, Listening, TypeOK, DaemonType, ExtType
<1>4. OneAnnouncer'
  BY DEF OneAnnouncer, TypeOK, DaemonType
<1> QED
  BY <1>1, <1>2, <1>3, <1>4

\* Resolve keeps the invariant.
LEMMA ResolveIInv ==
  ASSUME IInv, NEW c \in Conns, Resolve(c)
  PROVE  IInv'
<1> USE ExtAssumption DEF IInv, Resolve, Goto, ServeOnly, extVars, wires, registry, others
<1>1. TypeOK'
  BY DEF TypeOK, ExtType, WireType, DaemonType
<1>2. OneServe'
  BY DEF OneServe, Listening, TypeOK, DaemonType, WireType, ExtType
<1>3. LiveOnceRegistered'
  BY DEF LiveOnceRegistered, OneServe, Listening, TypeOK, DaemonType, ExtType
<1>4. OneAnnouncer'
  BY DEF OneAnnouncer, TypeOK, DaemonType
<1> QED
  BY <1>1, <1>2, <1>3, <1>4

\* Register keeps the invariant.
LEMMA RegisterIInv ==
  ASSUME IInv, NEW c \in Conns, Register(c)
  PROVE  IInv'
<1> USE ExtAssumption DEF IInv, Register, Goto, ServeOnly, extVars, wires, registry, others
<1>1. TypeOK'
  BY DEF TypeOK, ExtType, WireType, DaemonType
<1>2. OneServe'
  BY DEF OneServe, Listening, TypeOK, DaemonType, WireType, ExtType
<1>3. LiveOnceRegistered'
  BY DEF LiveOnceRegistered, OneServe, Listening, TypeOK, DaemonType, ExtType
<1>4. OneAnnouncer'
  BY DEF OneAnnouncer, TypeOK, DaemonType
<1> QED
  BY <1>1, <1>2, <1>3, <1>4

\* OnRegister keeps the invariant.
LEMMA OnRegisterIInv ==
  ASSUME IInv, NEW c \in Conns, OnRegister(c)
  PROVE  IInv'
<1> USE ExtAssumption DEF IInv, OnRegister, Goto, ServeOnly, extVars, wires, registry, others
<1>1. TypeOK'
  BY DEF TypeOK, ExtType, WireType, DaemonType
<1>2. OneServe'
  BY DEF OneServe, Listening, TypeOK, DaemonType, WireType, ExtType
<1>3. LiveOnceRegistered'
  BY DEF LiveOnceRegistered, OneServe, Listening, TypeOK, DaemonType, ExtType
<1>4. OneAnnouncer'
  BY DEF OneAnnouncer, TypeOK, DaemonType
<1> QED
  BY <1>1, <1>2, <1>3, <1>4

\* WriteAck keeps the invariant.
LEMMA WriteAckIInv ==
  ASSUME IInv, NEW c \in Conns, WriteAck(c)
  PROVE  IInv'
<1> USE ExtAssumption DEF IInv, WriteAck, Goto, ServeOnly, extVars, wires, registry, others
<1>1. TypeOK'
  <2>1. ExtType'
    BY DEF TypeOK, ExtType
  <2>2. WireType'
    BY FrameFacts DEF TypeOK, WireType, ExtType
  <2>3. DaemonType'
    BY DEF TypeOK, DaemonType, ExtType
  <2>4. faults' \in 0 .. MaxFaults
    BY DEF TypeOK
  <2> QED
    BY <2>1, <2>2, <2>3, <2>4 DEF TypeOK
<1>2. OneServe'
  BY DEF OneServe, Listening, TypeOK, DaemonType, WireType, ExtType
<1>3. LiveOnceRegistered'
  BY DEF LiveOnceRegistered, OneServe, Listening, TypeOK, DaemonType, ExtType
<1>4. OneAnnouncer'
  BY DEF OneAnnouncer, TypeOK, DaemonType
<1> QED
  BY <1>1, <1>2, <1>3, <1>4

\* One frame of the read loop.
LEMMA DispatchIInv ==
  ASSUME IInv, NEW c \in Conns, Dispatch(c)
  PROVE  IInv'
<1> DEFINE f == Head(toDaemon[c])
<1> USE DEF IInv, Dispatch, Goto, Pop, ServeOnly, extVars, others
<1>1. toDaemon' \in [Conns -> Seq(Frames)] /\ serve[c] = "loop"
  BY DEF TypeOK, WireType
<1>2. ASSUME entry' \in {"none", "running", "unresponsive", "ended"}, ended' \in BOOLEAN,
             entry' = "ended" => entry = "ended", ended => ended',
             \/ /\ serve' = serve
             \/ /\ \E pc \in {"close", "loop"} : serve' = [serve EXCEPT ![c] = pc]
             \/ /\ serve' = [serve EXCEPT ![c] = "ended"] /\ ~ended /\ ended'
      PROVE  IInv'
  <2>1. TypeOK'
    <3>1. ExtType' /\ faults' \in 0 .. MaxFaults
      BY DEF TypeOK, ExtType
    <3>2. WireType'
      BY <1>1 DEF TypeOK, WireType
    <3>3. DaemonType'
      BY <1>2 DEF TypeOK, DaemonType
    <3> QED
      BY <3>1, <3>2, <3>3 DEF TypeOK
  <2>2. OneServe'
    BY <1>1, <1>2 DEF OneServe, Listening, TypeOK, DaemonType, ExtType
  <2>3. LiveOnceRegistered'
    BY <1>1, <1>2 DEF LiveOnceRegistered, OneServe, Listening, TypeOK, DaemonType, ExtType
  <2>4. OneAnnouncer'
    BY <1>1, <1>2 DEF OneAnnouncer, TypeOK, DaemonType
  <2> QED
    BY <2>1, <2>2, <2>3, <2>4
<1>3. entry \in {"none", "running", "unresponsive", "ended"} /\ ended \in BOOLEAN
  BY DEF TypeOK, DaemonType
<1>4. CASE f = "heartbeat" /\ Heartbeat(c)
  BY <1>2, <1>3, <1>4 DEF Heartbeat
<1>5. CASE f = "event" /\ UNCHANGED <<serve, entry, ended>>
  BY <1>2, <1>3, <1>5
<1>6. CASE f = "disconnect" /\ Disconnect(c)
  <2>1. entry' = "none" /\ ended' = (ended \/ Ends)
    BY <1>6 DEF Disconnect, RemoveWithReason
  <2>2. CASE Ends
    BY <1>2, <1>3, <1>6, <2>1, <2>2 DEF Disconnect, Ends
  <2>3. CASE ~Ends
    BY <1>2, <1>3, <1>6, <2>1, <2>3 DEF Disconnect
  <2> QED
    BY <2>2, <2>3
<1>7. CASE f = "torn" /\ Goto(c, "close") /\ UNCHANGED <<entry, ended>>
  BY <1>2, <1>3, <1>7
<1> QED
  BY <1>4, <1>5, <1>6, <1>7

\* ScanTooLong keeps the invariant.
LEMMA ScanTooLongIInv ==
  ASSUME IInv, NEW c \in Conns, ScanTooLong(c)
  PROVE  IInv'
<1> USE ExtAssumption DEF IInv, ScanTooLong, Goto, Pop, ServeOnly, extVars, wires, registry, others
<1>1. TypeOK'
  BY DEF TypeOK, ExtType, WireType, DaemonType
<1>2. OneServe'
  BY DEF OneServe, Listening, TypeOK, DaemonType, WireType, ExtType
<1>3. LiveOnceRegistered'
  BY DEF LiveOnceRegistered, OneServe, Listening, TypeOK, DaemonType, ExtType
<1>4. OneAnnouncer'
  BY DEF OneAnnouncer, TypeOK, DaemonType
<1> QED
  BY <1>1, <1>2, <1>3, <1>4

\* ReadEnd keeps the invariant.
LEMMA ReadEndIInv ==
  ASSUME IInv, NEW c \in Conns, ReadEnd(c)
  PROVE  IInv'
<1> USE ExtAssumption DEF IInv, ReadEnd, Goto, ServeOnly, extVars, wires, registry, others
<1>1. TypeOK'
  BY DEF TypeOK, ExtType, WireType, DaemonType
<1>2. OneServe'
  BY DEF OneServe, Listening, TypeOK, DaemonType, WireType, ExtType
<1>3. LiveOnceRegistered'
  BY DEF LiveOnceRegistered, OneServe, Listening, TypeOK, DaemonType, ExtType
<1>4. OneAnnouncer'
  BY DEF OneAnnouncer, TypeOK, DaemonType
<1> QED
  BY <1>1, <1>2, <1>3, <1>4

\* MarkStep keeps the invariant.
LEMMA MarkStepIInv ==
  ASSUME IInv, NEW c \in Conns, MarkStep(c)
  PROVE  IInv'
<1> USE ExtAssumption DEF IInv, MarkStep, MarkEnded, Ends, Goto, ServeOnly, extVars, wires, registry, others
<1>1. TypeOK'
  BY DEF TypeOK, ExtType, WireType, DaemonType
<1>2. OneServe'
  BY DEF OneServe, Listening, TypeOK, DaemonType, WireType, ExtType
<1>3. LiveOnceRegistered'
  BY DEF LiveOnceRegistered, OneServe, Listening, TypeOK, DaemonType, ExtType
<1>4. OneAnnouncer'
  BY DEF OneAnnouncer, TypeOK, DaemonType
<1> QED
  BY <1>1, <1>2, <1>3, <1>4

\* OnEnded keeps the invariant.
LEMMA OnEndedIInv ==
  ASSUME IInv, NEW c \in Conns, OnEnded(c)
  PROVE  IInv'
<1> USE ExtAssumption DEF IInv, OnEnded, Announce, Goto, ServeOnly, extVars, wires, registry, others
<1>1. TypeOK'
  BY DEF TypeOK, ExtType, WireType, DaemonType
<1>2. OneServe'
  BY DEF OneServe, Listening, TypeOK, DaemonType, WireType, ExtType
<1>3. LiveOnceRegistered'
  BY DEF LiveOnceRegistered, OneServe, Listening, TypeOK, DaemonType, ExtType
<1>4. OneAnnouncer'
  BY DEF OneAnnouncer, TypeOK, DaemonType
<1> QED
  BY <1>1, <1>2, <1>3, <1>4

\* CloseConn keeps the invariant.
LEMMA CloseConnIInv ==
  ASSUME IInv, NEW c \in Conns, CloseConn(c)
  PROVE  IInv'
<1> USE ExtAssumption DEF IInv, CloseConn, Goto, ServeOnly, extVars, wires, registry, others
<1>1. TypeOK'
  BY DEF TypeOK, ExtType, WireType, DaemonType
<1>2. OneServe'
  BY DEF OneServe, Listening, TypeOK, DaemonType, WireType, ExtType
<1>3. LiveOnceRegistered'
  BY DEF LiveOnceRegistered, OneServe, Listening, TypeOK, DaemonType, ExtType
<1>4. OneAnnouncer'
  BY DEF OneAnnouncer, TypeOK, DaemonType
<1> QED
  BY <1>1, <1>2, <1>3, <1>4

-----------------------------------------------------------------------------
(***************************************************************************)
(* Housekeeping, the tmux reader, the coordinator link and the process.    *)
(***************************************************************************)
LEMMA SweepIInv ==
  ASSUME IInv, Sweep
  PROVE  IInv'
<1> USE ExtAssumption DEF IInv, Sweep, Quiet, extVars, wires, registry, others
<1>1. TypeOK'
  BY DEF TypeOK, ExtType, WireType, DaemonType
<1>2. OneServe'
  BY DEF OneServe, Listening, TypeOK, DaemonType, WireType, ExtType
<1>3. LiveOnceRegistered'
  BY DEF LiveOnceRegistered, OneServe, Listening, TypeOK, DaemonType, ExtType
<1>4. OneAnnouncer'
  BY DEF OneAnnouncer, TypeOK, DaemonType
<1> QED
  BY <1>1, <1>2, <1>3, <1>4

\* SweepDone keeps the invariant.
LEMMA SweepDoneIInv ==
  ASSUME IInv, SweepDone
  PROVE  IInv'
<1> USE ExtAssumption DEF IInv, SweepDone, Quiet, extVars, wires, registry, others
<1>1. TypeOK'
  <2>1. ExtType'
    BY DEF TypeOK, ExtType
  <2>2. WireType'
    BY FrameFacts DEF TypeOK, WireType, ExtType
  <2>3. DaemonType'
    BY DEF TypeOK, DaemonType, ExtType
  <2>4. faults' \in 0 .. MaxFaults
    BY DEF TypeOK
  <2> QED
    BY <2>1, <2>2, <2>3, <2>4 DEF TypeOK
<1>2. OneServe'
  BY DEF OneServe, Listening, TypeOK, DaemonType, WireType, ExtType
<1>3. LiveOnceRegistered'
  BY DEF LiveOnceRegistered, OneServe, Listening, TypeOK, DaemonType, ExtType
<1>4. OneAnnouncer'
  BY DEF OneAnnouncer, TypeOK, DaemonType
<1> QED
  BY <1>1, <1>2, <1>3, <1>4

\* ReapEnded keeps the invariant.
LEMMA ReapEndedIInv ==
  ASSUME IInv, ReapEnded
  PROVE  IInv'
<1> USE ExtAssumption DEF IInv, ReapEnded, Quiet, extVars, wires, registry, others
<1>1. TypeOK'
  BY DEF TypeOK, ExtType, WireType, DaemonType
<1>2. OneServe'
  BY DEF OneServe, Listening, TypeOK, DaemonType, WireType, ExtType
<1>3. LiveOnceRegistered'
  BY DEF LiveOnceRegistered, OneServe, Listening, TypeOK, DaemonType, ExtType
<1>4. OneAnnouncer'
  BY DEF OneAnnouncer, TypeOK, DaemonType
<1> QED
  BY <1>1, <1>2, <1>3, <1>4

\* TmuxExit keeps the invariant.
LEMMA TmuxExitIInv ==
  ASSUME IInv, TmuxExit
  PROVE  IInv'
<1> USE ExtAssumption DEF IInv, TmuxExit, Fault, Quiet, Running, extVars, wires, registry, others
<1>1. TypeOK'
  BY DEF TypeOK, ExtType, WireType, DaemonType
<1>2. OneServe'
  BY DEF OneServe, Listening, TypeOK, DaemonType, WireType, ExtType
<1>3. LiveOnceRegistered'
  BY DEF LiveOnceRegistered, OneServe, Listening, TypeOK, DaemonType, ExtType
<1>4. OneAnnouncer'
  BY DEF OneAnnouncer, TypeOK, DaemonType
<1> QED
  BY <1>1, <1>2, <1>3, <1>4

\* TmuxRemove keeps the invariant.
LEMMA TmuxRemoveIInv ==
  ASSUME IInv, TmuxRemove
  PROVE  IInv'
<1> USE ExtAssumption DEF IInv, TmuxRemove, RemoveWithReason, Ends, Quiet, extVars, wires, registry, others
<1>1. TypeOK'
  BY DEF TypeOK, ExtType, WireType, DaemonType
<1>2. OneServe'
  BY DEF OneServe, Listening, TypeOK, DaemonType, WireType, ExtType
<1>3. LiveOnceRegistered'
  BY DEF LiveOnceRegistered, OneServe, Listening, TypeOK, DaemonType, ExtType
<1>4. OneAnnouncer'
  BY DEF OneAnnouncer, TypeOK, DaemonType
<1> QED
  BY <1>1, <1>2, <1>3, <1>4

\* TmuxOnEnded keeps the invariant.
LEMMA TmuxOnEndedIInv ==
  ASSUME IInv, TmuxOnEnded
  PROVE  IInv'
<1> USE ExtAssumption DEF IInv, TmuxOnEnded, Announce, Quiet, extVars, wires, registry, others
<1>1. TypeOK'
  BY DEF TypeOK, ExtType, WireType, DaemonType
<1>2. OneServe'
  BY DEF OneServe, Listening, TypeOK, DaemonType, WireType, ExtType
<1>3. LiveOnceRegistered'
  BY DEF LiveOnceRegistered, OneServe, Listening, TypeOK, DaemonType, ExtType
<1>4. OneAnnouncer'
  BY DEF OneAnnouncer, TypeOK, DaemonType
<1> QED
  BY <1>1, <1>2, <1>3, <1>4

\* Stall keeps the invariant.
LEMMA StallIInv ==
  ASSUME IInv, Stall
  PROVE  IInv'
<1> USE ExtAssumption DEF IInv, Stall, Fault, Quiet, extVars, wires, registry, others
<1>1. TypeOK'
  BY DEF TypeOK, ExtType, WireType, DaemonType
<1>2. OneServe'
  BY DEF OneServe, Listening, TypeOK, DaemonType, WireType, ExtType
<1>3. LiveOnceRegistered'
  BY DEF LiveOnceRegistered, OneServe, Listening, TypeOK, DaemonType, ExtType
<1>4. OneAnnouncer'
  BY DEF OneAnnouncer, TypeOK, DaemonType
<1> QED
  BY <1>1, <1>2, <1>3, <1>4

\* PingFails keeps the invariant.
LEMMA PingFailsIInv ==
  ASSUME IInv, PingFails
  PROVE  IInv'
<1> USE ExtAssumption DEF IInv, PingFails, Quiet, extVars, wires, registry, others
<1>1. TypeOK'
  <2>1. ExtType'
    BY DEF TypeOK, ExtType
  <2>2. WireType'
    BY FrameFacts DEF TypeOK, WireType, ExtType
  <2>3. DaemonType'
    BY DEF TypeOK, DaemonType, ExtType
  <2>4. faults' \in 0 .. MaxFaults
    BY DEF TypeOK
  <2> QED
    BY <2>1, <2>2, <2>3, <2>4 DEF TypeOK
<1>2. OneServe'
  BY DEF OneServe, Listening, TypeOK, DaemonType, WireType, ExtType
<1>3. LiveOnceRegistered'
  BY DEF LiveOnceRegistered, OneServe, Listening, TypeOK, DaemonType, ExtType
<1>4. OneAnnouncer'
  BY DEF OneAnnouncer, TypeOK, DaemonType
<1> QED
  BY <1>1, <1>2, <1>3, <1>4

\* Signal keeps the invariant.
LEMMA SignalIInv ==
  ASSUME IInv, Signal
  PROVE  IInv'
<1> USE ExtAssumption DEF IInv, Signal, Fault, extVars, wires, registry, others
<1>1. TypeOK'
  BY DEF TypeOK, ExtType, WireType, DaemonType
<1>2. OneServe'
  BY DEF OneServe, Listening, TypeOK, DaemonType, WireType, ExtType
<1>3. LiveOnceRegistered'
  BY DEF LiveOnceRegistered, OneServe, Listening, TypeOK, DaemonType, ExtType
<1>4. OneAnnouncer'
  BY DEF OneAnnouncer, TypeOK, DaemonType
<1> QED
  BY <1>1, <1>2, <1>3, <1>4

\* AcceptDone keeps the invariant.
LEMMA AcceptDoneIInv ==
  ASSUME IInv, AcceptDone
  PROVE  IInv'
<1> USE ExtAssumption DEF IInv, AcceptDone, extVars, wires, registry, others
<1>1. TypeOK'
  BY DEF TypeOK, ExtType, WireType, DaemonType
<1>2. OneServe'
  BY DEF OneServe, Listening, TypeOK, DaemonType, WireType, ExtType
<1>3. LiveOnceRegistered'
  BY DEF LiveOnceRegistered, OneServe, Listening, TypeOK, DaemonType, ExtType
<1>4. OneAnnouncer'
  BY DEF OneAnnouncer, TypeOK, DaemonType
<1> QED
  BY <1>1, <1>2, <1>3, <1>4

\* CloseAll keeps the invariant.
LEMMA CloseAllIInv ==
  ASSUME IInv, CloseAll
  PROVE  IInv'
<1> USE ExtAssumption DEF IInv, CloseAll, extVars, wires, registry, others
<1>1. TypeOK'
  BY DEF TypeOK, ExtType, WireType, DaemonType
<1>2. OneServe'
  BY DEF OneServe, Listening, TypeOK, DaemonType, WireType, ExtType
<1>3. LiveOnceRegistered'
  BY DEF LiveOnceRegistered, OneServe, Listening, TypeOK, DaemonType, ExtType
<1>4. OneAnnouncer'
  BY DEF OneAnnouncer, TypeOK, DaemonType
<1> QED
  BY <1>1, <1>2, <1>3, <1>4

\* WaitAll keeps the invariant.
LEMMA WaitAllIInv ==
  ASSUME IInv, WaitAll
  PROVE  IInv'
<1> USE ExtAssumption DEF IInv, WaitAll, Exit, extVars, wires, registry, others
<1>1. TypeOK'
  <2>1. ExtType'
    BY DEF TypeOK, ExtType
  <2>2. WireType'
    BY FrameFacts DEF TypeOK, WireType, ExtType
  <2>3. DaemonType'
    BY DEF TypeOK, DaemonType, ExtType
  <2>4. faults' \in 0 .. MaxFaults
    BY DEF TypeOK
  <2> QED
    BY <2>1, <2>2, <2>3, <2>4 DEF TypeOK
<1>2. OneServe'
  BY DEF OneServe, Listening, TypeOK, DaemonType, WireType, ExtType
<1>3. LiveOnceRegistered'
  BY DEF LiveOnceRegistered, OneServe, Listening, TypeOK, DaemonType, ExtType
<1>4. OneAnnouncer'
  BY DEF OneAnnouncer, TypeOK, DaemonType
<1> QED
  BY <1>1, <1>2, <1>3, <1>4

\* DaemonCrash keeps the invariant.
LEMMA DaemonCrashIInv ==
  ASSUME IInv, DaemonCrash
  PROVE  IInv'
<1> USE ExtAssumption DEF IInv, DaemonCrash, Exit, Fault, extVars, wires, registry, others
<1>1. TypeOK'
  <2>1. ExtType'
    BY DEF TypeOK, ExtType
  <2>2. WireType'
    BY FrameFacts DEF TypeOK, WireType, ExtType
  <2>3. DaemonType'
    BY DEF TypeOK, DaemonType, ExtType
  <2>4. faults' \in 0 .. MaxFaults
    BY DEF TypeOK
  <2> QED
    BY <2>1, <2>2, <2>3, <2>4 DEF TypeOK
<1>2. OneServe'
  BY DEF OneServe, Listening, TypeOK, DaemonType, WireType, ExtType
<1>3. LiveOnceRegistered'
  BY DEF LiveOnceRegistered, OneServe, Listening, TypeOK, DaemonType, ExtType
<1>4. OneAnnouncer'
  BY DEF OneAnnouncer, TypeOK, DaemonType
<1> QED
  BY <1>1, <1>2, <1>3, <1>4

\* Restart keeps the invariant.
LEMMA RestartIInv ==
  ASSUME IInv, Restart
  PROVE  IInv'
<1> USE ExtAssumption DEF IInv, Restart, extVars, wires, registry, others
<1>1. TypeOK'
  BY DEF TypeOK, ExtType, WireType, DaemonType
<1>2. OneServe'
  BY DEF OneServe, Listening, TypeOK, DaemonType, WireType, ExtType
<1>3. LiveOnceRegistered'
  BY DEF LiveOnceRegistered, OneServe, Listening, TypeOK, DaemonType, ExtType
<1>4. OneAnnouncer'
  BY DEF OneAnnouncer, TypeOK, DaemonType
<1> QED
  BY <1>1, <1>2, <1>3, <1>4

-----------------------------------------------------------------------------
\* Every step keeps the invariant: one case per action.
LEMMA NextIInv == IInv /\ [Next]_vars => IInv'
<1> SUFFICES ASSUME IInv, [Next]_vars PROVE IInv'
  OBVIOUS
<1>1. ASSUME NEW c \in Conns, Accept(c) \/ ServeStep(c) PROVE IInv'
  BY <1>1, AcceptIInv, StartServeIInv, ReadFirstIInv, ResolveIInv, RegisterIInv, OnRegisterIInv,
     WriteAckIInv, DispatchIInv, ScanTooLongIInv, ReadEndIInv, MarkStepIInv, OnEndedIInv,
     CloseConnIInv DEF ServeStep
<1>2. CASE \/ Sweep \/ SweepDone \/ ReapEnded \/ TmuxExit \/ TmuxRemove \/ TmuxOnEnded \/ Stall
          \/ PingFails \/ Signal \/ AcceptDone \/ CloseAll \/ WaitAll \/ DaemonCrash \/ Restart
          \/ AcceptFails
  BY <1>2, AcceptFailsIInv, SweepIInv, SweepDoneIInv, ReapEndedIInv, TmuxExitIInv, TmuxRemoveIInv, TmuxOnEndedIInv,
     StallIInv, PingFailsIInv, SignalIInv, AcceptDoneIInv, CloseAllIInv, WaitAllIInv,
     DaemonCrashIInv, RestartIInv
<1>3. CASE UNCHANGED vars
  BY <1>3 DEF vars, extVars, wires, registry, others, IInv, TypeOK, ExtType, WireType, DaemonType,
              OneServe, Listening, LiveOnceRegistered, OneAnnouncer
<1> QED
  BY <1>1, <1>2, <1>3, ExtensionIInv, RecvAckIInv, AgainTimeoutIInv, SeeCloseIInv DEF Next

\* Goroutines, registry entry and callbacks stay consistent through reconnects,
\* shutdowns, crashes and restarts of the daemon.
THEOREM InvariantHolds == Spec => []IInv
<1>1. Init => IInv
  BY InitIInv
<1>2. IInv /\ [Next]_vars => IInv'
  BY NextIInv
<1> QED
  BY <1>1, <1>2, PTL DEF Spec

\* While Serve reads the extension's connection, its session is not marked ended
\* (conn.go Serve, registry.go MarkEnded).
THEOREM ConnectedIsLiveHolds == Spec => []ConnectedIsLive
<1>1. IInv => ConnectedIsLive
  BY DEF IInv, ConnectedIsLive, LiveOnceRegistered, Served
<1> QED
  BY <1>1, InvariantHolds, PTL

\* OnEnded announces no session twice, whoever gets to its end first (registry.go,
\* the ended map).
THEOREM EndedAtMostOnceHolds == Spec => []EndedAtMostOnce
<1>1. IInv => EndedAtMostOnce
  BY DEF IInv, EndedAtMostOnce, OneAnnouncer
<1> QED
  BY <1>1, InvariantHolds, PTL
=============================================================================
