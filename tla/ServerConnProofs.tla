-------------------------- MODULE ServerConnProofs --------------------------
(* Proofs about ServerConn, for any senders and any channel capacity: the   *)
(* shutdown order, and that the connection implements a pipe.               *)
EXTENDS ServerConn, TLAPS

----------------------------------------------------------------------------
(* The inductive invariant. *)

\* How far either goroutine is in its shutdown tells what is closed.
ShutdownOrder ==
    /\ rpc \in {"session", "flag", "stop", "shut", "done"} => stream = "closed"
    /\ rpc \in {"flag", "stop", "shut", "done"} => session = "down"
    /\ wpc \in {"session", "flag", "done"} => stream = "closed"
    /\ wpc \in {"flag", "done"} => session = "down"
    /\ chanShut => rpc = "done"

\* Nil is only ever written to a closed stream.
NilIsLate == wpc = "write" /\ wbuf = None => stream = "closed"

\* The packets taken and not yet on the wire: the one being written and those
\* in the channel, while the writer runs; it drops at most the one it writes.
InFlight == IF wbuf = None THEN 0 ELSE 1

Flow ==
    /\ wpc # "write" => wbuf = None
    /\ Len(taken) <= Len(wire) + 1 + Len(chanWrite)
    /\ wpc \in {"select", "write"} =>
          /\ Len(taken) = Len(wire) + InFlight + Len(chanWrite)
          /\ wbuf # None => taken[Len(wire) + 1] = wbuf
          /\ \A i \in 1 .. Len(chanWrite) :
                taken[Len(wire) + InFlight + i] = chanWrite[i]

IInv == TypeOK /\ ShutdownOrder /\ NilIsLate /\ Flow /\ ClosedMeansDown

----------------------------------------------------------------------------
LEMMA InitIInv == Init => IInv
  <1> SUFFICES ASSUME Init PROVE IInv
    OBVIOUS
  <1> USE ServerConnAssumption DEF Init
  <1>1. TypeOK
    <2>1. 0 \in 0 .. MaxMsgs
      OBVIOUS
    <2>2. spc \in [Sender -> Packet \cup {None}]
      OBVIOUS
    <2>3. /\ chanWrite \in Seq(Packet) /\ Len(chanWrite) <= WriteCap
          /\ taken \in Seq(Packet) /\ wire \in Seq(Packet \cup {None})
      OBVIOUS
    <2> QED
      BY <2>1, <2>2, <2>3 DEF TypeOK
  <1>2. ShutdownOrder /\ NilIsLate /\ ClosedMeansDown
    BY DEF ShutdownOrder, NilIsLate, ClosedMeansDown
  <1>3. Flow
    BY DEF Flow, InFlight
  <1> QED
    BY <1>1, <1>2, <1>3 DEF IInv

\* What a step does to the packets: most leave them alone.
LEMMA PacketSteps ==
  ASSUME [Next]_vars
  PROVE  \/ UNCHANGED <<chanWrite, wbuf, spc, calls, taken, wire>>
         \/ \E s \in Sender : Call(s) \/ Enqueue(s) \/ Released(s)
         \/ TakePacket \/ TakeNil \/ WriteOk \/ WriteFail
  BY DEF Next, ReaderExit, Select, WriterExit, Finished, vars, chans, link, TakeStop,
     WriterCloseStream, WriterCloseSession, WriterSetFlag, ReadEnd, Cleanup,
     ReaderCloseStream, ReaderCloseSession, ReaderSetFlag, StopSignal, StopShut,
     SessionLost

LEMMA ControlTypes ==
  ASSUME TypeOK, [Next]_vars
  PROVE  /\ chanShut' \in BOOLEAN /\ chanClose' \in {0, 1}
         /\ stream' \in {"open", "closed"} /\ session' \in {"up", "down"}
         /\ isClosed' \in BOOLEAN
         /\ rpc' \in {"read", "cleanup", "stream", "session", "flag", "stop",
                      "shut", "done"}
         /\ wpc' \in {"select", "write", "stream", "session", "flag", "done"}
  <1>1. /\ chanShut' \in BOOLEAN
        /\ UNCHANGED chanClose \/ TakeStop \/ StopSignal
    BY DEF TypeOK, Next, ReaderExit, Select, WriterExit, Finished, vars, chans,
       link, Call, Enqueue, Released, TakePacket, TakeNil, TakeStop, WriteOk,
       WriteFail, WriterCloseStream, WriterCloseSession, WriterSetFlag, ReadEnd,
       Cleanup, ReaderCloseStream, ReaderCloseSession, ReaderSetFlag, StopSignal,
       StopShut, SessionLost
  <1>5. chanClose' \in {0, 1}
    BY <1>1 DEF TypeOK, TakeStop, StopSignal
  <1>2. /\ stream' \in {"open", "closed"} /\ session' \in {"up", "down"}
        /\ isClosed' \in BOOLEAN
    BY DEF TypeOK, Next, ReaderExit, Select, WriterExit, Finished, vars, chans,
       link, Call, Enqueue, Released, TakePacket, TakeNil, TakeStop, WriteOk,
       WriteFail, WriterCloseStream, WriterCloseSession, WriterSetFlag, ReadEnd,
       Cleanup, ReaderCloseStream, ReaderCloseSession, ReaderSetFlag, StopSignal,
       StopShut, SessionLost
  <1>3. rpc' \in {"read", "cleanup", "stream", "session", "flag", "stop",
                  "shut", "done"}
    BY DEF TypeOK, Next, ReaderExit, Select, WriterExit, Finished, vars, chans,
       link, Call, Enqueue, Released, TakePacket, TakeNil, TakeStop, WriteOk,
       WriteFail, WriterCloseStream, WriterCloseSession, WriterSetFlag, ReadEnd,
       Cleanup, ReaderCloseStream, ReaderCloseSession, ReaderSetFlag, StopSignal,
       StopShut, SessionLost
  <1>4. wpc' \in {"select", "write", "stream", "session", "flag", "done"}
    BY DEF TypeOK, Next, ReaderExit, Select, WriterExit, Finished, vars, chans,
       link, Call, Enqueue, Released, TakePacket, TakeNil, TakeStop, WriteOk,
       WriteFail, WriterCloseStream, WriterCloseSession, WriterSetFlag, ReadEnd,
       Cleanup, ReaderCloseStream, ReaderCloseSession, ReaderSetFlag, StopSignal,
       StopShut, SessionLost
  <1> QED
    BY <1>1, <1>2, <1>3, <1>4, <1>5

\* The types of the packets in the channels, the buffers and the histories.
LEMMA PacketTypes ==
  ASSUME TypeOK, [Next]_vars
  PROVE  /\ chanWrite' \in Seq(Packet) /\ Len(chanWrite') <= WriteCap
         /\ wbuf' \in Packet \cup {None}
         /\ spc' \in [Sender -> Packet \cup {None}]
         /\ calls' \in 0 .. MaxMsgs
         /\ taken' \in Seq(Packet) /\ wire' \in Seq(Packet \cup {None})
  <1> USE ServerConnAssumption DEF TypeOK
  <1>1. CASE UNCHANGED <<chanWrite, wbuf, spc, calls, taken, wire>>
    BY <1>1
  <1>2. ASSUME NEW s \in Sender, Call(s)
        PROVE  /\ UNCHANGED <<chanWrite, wbuf, taken, wire>>
               /\ spc' \in [Sender -> Packet \cup {None}]
               /\ calls' \in 0 .. MaxMsgs
    BY <1>2 DEF Call, chans, Packet
  <1>3. ASSUME NEW s \in Sender, Enqueue(s)
        PROVE  /\ UNCHANGED <<wbuf, calls, wire>>
               /\ chanWrite' \in Seq(Packet) /\ Len(chanWrite') <= WriteCap
               /\ taken' \in Seq(Packet)
               /\ spc' \in [Sender -> Packet \cup {None}]
    <2>1. spc[s] \in Packet
      BY <1>3 DEF Enqueue
    <2> QED
      BY <1>3, <2>1 DEF Enqueue
  <1>4. ASSUME NEW s \in Sender, Released(s)
        PROVE  /\ UNCHANGED <<chanWrite, wbuf, calls, taken, wire>>
               /\ spc' \in [Sender -> Packet \cup {None}]
    BY <1>4 DEF Released, chans
  <1>5. CASE TakePacket
    BY <1>5 DEF TakePacket
  <1>6. CASE TakeNil
    BY <1>6 DEF TakeNil, chans
  <1>7. CASE WriteOk
    BY <1>7 DEF WriteOk, chans
  <1>8. CASE WriteFail
    BY <1>8 DEF WriteFail, chans
  <1> QED
    BY PacketSteps, <1>1, <1>2, <1>3, <1>4, <1>5, <1>6, <1>7, <1>8

LEMMA TypeStep ==
  ASSUME TypeOK, [Next]_vars
  PROVE  TypeOK'
  BY ControlTypes, PacketTypes DEF TypeOK

\* The shutdown closes stream and session in order, whoever runs it.
LEMMA ShutdownStep ==
  ASSUME TypeOK, ShutdownOrder, NilIsLate, ClosedMeansDown, [Next]_vars
  PROVE  (ShutdownOrder /\ NilIsLate /\ ClosedMeansDown)'
  <1>1. (ShutdownOrder /\ ClosedMeansDown)'
    BY DEF TypeOK, ShutdownOrder, ClosedMeansDown, Next, ReaderExit, Select,
       WriterExit, Finished, vars, chans, link, Call, Enqueue, Released, TakePacket,
       TakeNil, TakeStop, WriteOk, WriteFail, WriterCloseStream, WriterCloseSession,
       WriterSetFlag, ReadEnd, Cleanup, ReaderCloseStream, ReaderCloseSession,
       ReaderSetFlag, StopSignal, StopShut, SessionLost
  <1>2. CASE TakePacket
    <2>1. Head(chanWrite) \in Packet
      BY <1>2 DEF TakePacket, TypeOK
    <2> QED
      BY <1>1, <1>2, <2>1, ServerConnAssumption DEF TakePacket, NilIsLate, Packet, None
  <1>3. CASE ~TakePacket
    <2>1. NilIsLate'
      BY <1>3 DEF TypeOK, NilIsLate, ShutdownOrder, Next, ReaderExit, Select,
         WriterExit, Finished, vars, chans, link, Call, Enqueue, Released, TakeNil,
         TakeStop, WriteOk, WriteFail, WriterCloseStream, WriterCloseSession,
         WriterSetFlag, ReadEnd, Cleanup, ReaderCloseStream, ReaderCloseSession,
         ReaderSetFlag, StopSignal, StopShut, SessionLost
    <2> QED
      BY <1>1, <2>1
  <1> QED
    BY <1>2, <1>3

\* The packets between the channel and the wire stay in order.
LEMMA FlowStep ==
  ASSUME TypeOK, NilIsLate, Flow, [Next]_vars
  PROVE  Flow'
  <1>1. ASSUME NEW s \in Sender, Enqueue(s)
        PROVE  Flow'
    <2>1. /\ spc[s] \in Packet /\ UNCHANGED <<wpc, wbuf, wire>>
          /\ chanWrite' = Append(chanWrite, spc[s])
          /\ taken' = Append(taken, spc[s])
      BY <1>1 DEF Enqueue, TypeOK
    <2>2. /\ Len(chanWrite') = Len(chanWrite) + 1 /\ Len(taken') = Len(taken) + 1
          /\ \A i \in 1 .. Len(chanWrite) : chanWrite'[i] = chanWrite[i]
          /\ \A i \in 1 .. Len(taken) : taken'[i] = taken[i]
          /\ chanWrite'[Len(chanWrite) + 1] = spc[s]
          /\ taken'[Len(taken) + 1] = spc[s]
      BY <2>1 DEF TypeOK
    <2>3. Len(wire) \in Nat /\ Len(chanWrite) \in Nat /\ Len(taken) \in Nat
      BY DEF TypeOK
    <2>4. PICK k \in {0, 1} : k = InFlight /\ k = InFlight' /\ (wbuf # None => k = 1)
      BY <2>1 DEF InFlight
    <2>5. /\ wpc' # "write" => wbuf' = None
          /\ Len(taken') <= Len(wire') + 1 + Len(chanWrite')
      BY <2>1, <2>2, <2>3 DEF Flow
    <2>6. ASSUME wpc \in {"select", "write"}
          PROVE  /\ Len(taken') = Len(wire') + k + Len(chanWrite')
                 /\ wbuf' # None => taken'[Len(wire') + 1] = wbuf'
                 /\ \A i \in 1 .. Len(chanWrite') :
                       taken'[Len(wire') + k + i] = chanWrite'[i]
      <3>1. /\ Len(taken) = Len(wire) + k + Len(chanWrite)
            /\ wbuf # None => taken[Len(wire) + 1] = wbuf
            /\ \A i \in 1 .. Len(chanWrite) : taken[Len(wire) + k + i] = chanWrite[i]
        BY <2>4, <2>6 DEF Flow
      <3>2. Len(taken') = Len(wire') + k + Len(chanWrite')
        BY <2>1, <2>2, <2>3, <3>1
      <3>3. wbuf' # None => taken'[Len(wire') + 1] = wbuf'
        BY <2>1, <2>2, <2>3, <2>4, <3>1
      <3>4. ASSUME NEW i \in 1 .. Len(chanWrite')
            PROVE  taken'[Len(wire') + k + i] = chanWrite'[i]
        <4>1. CASE i = Len(chanWrite) + 1
          BY <2>1, <2>2, <2>3, <3>1, <4>1
        <4>2. CASE i \in 1 .. Len(chanWrite)
          <5>1. Len(wire) + k + i \in 1 .. Len(taken)
            BY <2>3, <3>1, <4>2
          <5> QED
            BY <2>1, <2>2, <2>3, <3>1, <4>2, <5>1
        <4> QED
          BY <2>2, <2>3, <4>1, <4>2
      <3> QED
        BY <3>2, <3>3, <3>4
    <2> QED
      BY <2>1, <2>4, <2>5, <2>6 DEF Flow
  <1>2. CASE TakePacket
    <2>1. /\ wpc = "select" /\ wpc' = "write"
          /\ chanWrite # <<>> /\ wbuf' = Head(chanWrite)
          /\ chanWrite' = Tail(chanWrite) /\ UNCHANGED <<taken, wire>>
      BY <1>2 DEF TakePacket
    <2>2. /\ Len(chanWrite) \in Nat \ {0}
          /\ Len(chanWrite') = Len(chanWrite) - 1
          /\ \A i \in 1 .. Len(chanWrite') : chanWrite'[i] = chanWrite[i + 1]
          /\ wbuf' = chanWrite[1] /\ wbuf' # None
      BY <2>1, ServerConnAssumption DEF TypeOK, Packet, None
    <2>3. Len(wire) \in Nat /\ Len(taken) \in Nat
      BY DEF TypeOK
    <2> QED
      BY <2>1, <2>2, <2>3 DEF Flow, InFlight
  <1>3. CASE TakeNil
    BY <1>3 DEF TakeNil, Flow, InFlight, chans
  <1>4. CASE WriteOk
    <2>1. /\ wpc = "write" /\ wpc' = "select" /\ wbuf # None /\ wbuf' = None
          /\ wire' = Append(wire, wbuf) /\ UNCHANGED <<chanWrite, taken>>
      BY <1>4 DEF WriteOk, NilIsLate, chans
    <2>2. Len(wire') = Len(wire) + 1
      BY <2>1 DEF TypeOK
    <2>3. Len(wire) \in Nat /\ Len(taken) \in Nat /\ Len(chanWrite) \in Nat
      BY DEF TypeOK
    <2> QED
      BY <2>1, <2>2, <2>3 DEF Flow, InFlight
  <1>5. CASE WriteFail
    BY <1>5 DEF WriteFail, Flow, InFlight, chans
  <1>6. CASE UNCHANGED <<chanWrite, wbuf, taken, wire>>
             /\ (UNCHANGED wpc \/ (wpc # "write" /\ wpc' \notin {"select", "write"}))
    BY <1>6 DEF Flow, InFlight
  <1>7. \/ \E s \in Sender : Enqueue(s)
        \/ TakePacket \/ TakeNil \/ WriteOk \/ WriteFail
        \/ /\ UNCHANGED <<chanWrite, wbuf, taken, wire>>
           /\ UNCHANGED wpc \/ (wpc # "write" /\ wpc' \notin {"select", "write"})
    BY DEF Next, ReaderExit, Select, WriterExit, Finished, vars, chans, link, Call,
       Released, TakeStop, WriterCloseStream, WriterCloseSession, WriterSetFlag,
       ReadEnd, Cleanup, ReaderCloseStream, ReaderCloseSession, ReaderSetFlag,
       StopSignal, StopShut, SessionLost
  <1> QED
    BY <1>1, <1>2, <1>3, <1>4, <1>5, <1>6, <1>7

LEMMA Invariance == Spec => []IInv
  <1>1. IInv /\ [Next]_vars => IInv'
    BY TypeStep, ShutdownStep, FlowStep DEF IInv
  <1> QED
    BY InitIInv, <1>1, PTL DEF Spec

\* The variables always have their types: the channel never holds more than
\* its capacity, and Stop never blocks on a full chanClose.
THEOREM ConnTypeCorrect == Spec => []TypeOK
  BY Invariance, PTL DEF IInv

\* A connection that says it is closed has its stream and session closed.
THEOREM ClosedIsDown == Spec => []ClosedMeansDown
  BY Invariance, PTL DEF IInv

----------------------------------------------------------------------------
(* Stop. *)

\* The signal of Stop finds chanClose empty, so that the reader is not blocked
\* in it; chanWrite is closed once, for closing it again would be a panic; and
\* when the reader has ended it is closed, so that neither a sender nor the
\* select of the write goroutine can be blocked for ever.
StopOnce ==
    /\ rpc = "stop" => chanClose = 0
    /\ rpc \in {"stop", "shut"} => ~chanShut
    /\ rpc = "done" => chanShut

\* Only the reader sends a signal, and it sends one.
SignalOnce == chanClose = 1 => rpc \in {"shut", "done"}

LEMMA StopStep ==
  IInv /\ SignalOnce /\ StopOnce /\ [Next]_vars => SignalOnce' /\ StopOnce'
  <1> SUFFICES ASSUME IInv, SignalOnce, StopOnce, [Next]_vars
               PROVE  SignalOnce' /\ StopOnce'
    OBVIOUS
  <1>1. CASE UNCHANGED <<rpc, chanShut, chanClose>>
    BY <1>1 DEF SignalOnce, StopOnce
  <1>2. CASE TakeStop
    BY <1>2 DEF TakeStop, SignalOnce, StopOnce, IInv, TypeOK
  <1>3. CASE ReadEnd \/ ReaderExit
    BY <1>3 DEF ReadEnd, ReaderExit, Cleanup, ReaderCloseStream, ReaderCloseSession,
       ReaderSetFlag, StopSignal, StopShut, chans, SignalOnce, StopOnce, IInv,
       TypeOK, ShutdownOrder
  <1>4. \/ UNCHANGED <<rpc, chanShut, chanClose>>
        \/ TakeStop \/ ReadEnd \/ ReaderExit
    BY DEF Next, Select, WriterExit, Finished, vars, chans, Call, Enqueue, Released,
       TakePacket, TakeNil, WriteOk, WriteFail, WriterCloseStream,
       WriterCloseSession, WriterSetFlag, SessionLost
  <1> QED
    BY <1>1, <1>2, <1>3, <1>4

\* Stop never blocks the reader and never panics, whichever of the goroutines
\* begins the shutdown, and it leaves nobody blocked behind (Stop, the deferred
\* function of readProcess).
THEOREM StopNeverBlocks == Spec => []StopOnce
  <1>1. Init => SignalOnce /\ StopOnce
    BY DEF Init, SignalOnce, StopOnce
  <1> QED
    BY <1>1, StopStep, Invariance, PTL DEF Spec

----------------------------------------------------------------------------
(* Refinement. *)

\* Every step of the connection is a step of the pipe, or none.
LEMMA PipeStep ==
  ASSUME IInv, [Next]_vars
  PROVE  [P!PipeNext]_P!pipe
  <1>1. ASSUME NEW s \in Sender, Enqueue(s)
        PROVE  P!Take(spc[s]) /\ spc[s] \in Packet
    <2>1. Len(chanWrite) < WriteCap /\ Len(taken) <= Len(wire) + 1 + Len(chanWrite)
      BY <1>1 DEF Enqueue, IInv, Flow
    <2>2. Len(wire) \in Nat /\ Len(taken) \in Nat /\ Len(chanWrite) \in Nat
      BY DEF IInv, TypeOK
    <2>3. Len(taken) - Len(wire) < WriteCap + 1
      BY <2>1, <2>2, ServerConnAssumption
    <2> QED
      BY <1>1, <2>3 DEF Enqueue, P!Take, link, IInv, TypeOK
  <1>2. CASE WriteOk
    <2>1. /\ wpc = "write" /\ wbuf # None
          /\ wire' = Append(wire, wbuf) /\ UNCHANGED <<taken, link>>
          /\ stream = "open" /\ session = "up"
      BY <1>2 DEF WriteOk, IInv, NilIsLate, chans
    <2>2. Len(wire) \in Nat /\ Len(taken) \in Nat /\ Len(chanWrite) \in Nat
      BY DEF IInv, TypeOK
    <2>3. Len(wire) < Len(taken) /\ taken[Len(wire) + 1] = wbuf
      BY <2>1, <2>2 DEF IInv, Flow, InFlight
    <2>4. P!Leave
      BY <2>1, <2>3 DEF P!Leave, link
    <2> QED
      BY <2>4 DEF P!PipeNext
  <1>3. CASE /\ UNCHANGED <<taken, wire>>
             /\ stream' = "closed" \/ session' = "down"
                  \/ UNCHANGED <<stream, session>>
             /\ (stream = "closed" \/ session = "down")
                  => (stream' = "closed" \/ session' = "down")
    <2>1. CASE UNCHANGED (stream = "closed" \/ session = "down")
      BY <1>3, <2>1 DEF P!pipe
    <2>2. CASE ~ UNCHANGED (stream = "closed" \/ session = "down")
      <3>1. P!Break
        BY <1>3, <2>2 DEF P!Break
      <3> QED
        BY <3>1 DEF P!PipeNext
    <2> QED
      BY <2>1, <2>2
  <1>4. \/ \E s \in Sender : Enqueue(s)
        \/ WriteOk
        \/ /\ UNCHANGED <<taken, wire>>
           /\ stream' = "closed" \/ session' = "down"
                \/ UNCHANGED <<stream, session>>
           /\ (stream = "closed" \/ session = "down")
                => (stream' = "closed" \/ session' = "down")
    BY DEF Next, ReaderExit, Select, WriterExit, Finished, vars, chans, link, Call,
       Released, TakePacket, TakeNil, TakeStop, WriteFail, WriterCloseStream,
       WriterCloseSession, WriterSetFlag, ReadEnd, Cleanup, ReaderCloseStream,
       ReaderCloseSession, ReaderSetFlag, StopSignal, StopShut, SessionLost
  <1>5. ASSUME NEW s \in Sender, Enqueue(s)
        PROVE  P!PipeNext
    BY <1>1, <1>5 DEF P!PipeNext
  <1> QED
    BY <1>2, <1>3, <1>4, <1>5

\* A server connection is a pipe: in order, nothing twice, nothing invented, a
\* bounded backlog, and silence once it is closed.
THEOREM ConnIsPipe == Spec => IsPipe
  <1>1. Init => P!PipeInit
    BY DEF Init, P!PipeInit
  <1> QED
    BY <1>1, PipeStep, Invariance, PTL DEF Spec, IsPipe, P!PipeSpec
=============================================================================
