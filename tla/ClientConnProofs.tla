-------------------------- MODULE ClientConnProofs --------------------------
(* Proofs about ClientConn, for any callers, any number of write goroutines *)
(* and any set of sessions.                                                 *)
EXTENDS ClientConn, TLAPS

----------------------------------------------------------------------------
(* The inductive invariant. *)

\* The dial of the next session finds no live one: before it, either reading
\* has ended and closed the session, or run is in its first round, with the
\* session InitConn made, connected set and no writer to unset it.
FirstRound ==
    rpc \in {"start", "top", "connect"} =>
        up = {} \/ (connected /\ \A w \in Writer : wpc[w] = "free")

\* What readProcess leaves behind is closed.
ReadEnded == rpc = "unset" => up = {}

\* Before run has announced itself to wg nobody receives the signal of Close.
NotYetRunning ==
    rpc = "start" =>
        closing \in {"idle", "sending"} /\ \A w \in Writer : wpc[w] = "free"

\* A session that is up has the stream, but for the moment in which run has
\* dialled and not yet opened it.
Joined == up # {} /\ rpc # "open" => conn = session

\* The write goroutine that came with the session: it takes a packet, or writes
\* one to this session, and that will not fail.
Own(w) ==
    \/ wpc[w] \in {"start", "select"}
    \/ wpc[w] = "frame" /\ conn = session
    \/ wpc[w] = "write" /\ wconn[w] = session

\* It is there as long as the session is up and being read, and no Close has
\* sent a signal that it may have received.
Manned ==
    session \in up /\ rpc \in {"read", "close"} /\ closing \in {"idle", "sending"}
        => \E w \in Writer : Own(w)

IInv ==
    /\ TypeOK /\ FirstRound /\ ReadEnded /\ NotYetRunning /\ Joined /\ Manned
    /\ NoSessionLeak /\ CloseMeansStopped

----------------------------------------------------------------------------
LEMMA InitIInv == Init => IInv
  BY ClientConnAssumption
  DEF Init, IInv, TypeOK, FirstRound, ReadEnded, NotYetRunning, Joined, Manned,
      NoSessionLeak, CloseMeansStopped

\* Every step of ClientConn preserves IInv.
LEMMA StepIInv ==
  ASSUME IInv, [Next]_vars
  PROVE  IInv'
  <1> USE ClientConnAssumption DEF RunAt, At, IInv, TypeOK, FirstRound, ReadEnded,
        NotYetRunning, Joined, Manned, Own, NoSessionLeak, CloseMeansStopped, fields,
        run, writers
  <1>1. CASE RunStart
    BY <1>1 DEF RunStart
  <1>2. CASE RunStop
    BY <1>2 DEF RunStop
  <1>3. CASE RunGo
    BY <1>3 DEF RunGo
  <1>4. CASE Skip
    BY <1>4 DEF Skip
  <1>5. CASE Dial
    BY <1>5 DEF Dial, Fresh
  <1>6. CASE DialFail
    BY <1>6 DEF DialFail
  <1>7. CASE OpenStream
    BY <1>7 DEF OpenStream
  <1>8. CASE OpenStreamFail
    BY <1>8 DEF OpenStreamFail
  <1>9. ASSUME NEW w \in Writer, Spawn(w)
        PROVE  IInv'
    BY <1>9 DEF Spawn
  <1>10. CASE ReadError
    BY <1>10 DEF ReadError
  <1>11. CASE ReadPanic
    BY <1>11 DEF ReadPanic
  <1>12. CASE ReadClose
    BY <1>12 DEF ReadClose
  <1>13. CASE ReadUnset
    BY <1>13 DEF ReadUnset
  <1>14. ASSUME NEW w \in Writer, WriterStart(w)
        PROVE  IInv'
    BY <1>14 DEF WriterStart
  <1>15. ASSUME NEW w \in Writer, TakeClose(w)
        PROVE  IInv'
    BY <1>15 DEF TakeClose
  <1>16. ASSUME NEW w \in Writer, NEW c \in Caller, TakePacket(w, c)
        PROVE  IInv'
    BY <1>16 DEF TakePacket
  <1>17. ASSUME NEW w \in Writer, BeginWrite(w)
        PROVE  IInv'
    BY <1>17 DEF BeginWrite
  <1>18. ASSUME NEW w \in Writer, NoConnection(w)
        PROVE  IInv'
    BY <1>18 DEF NoConnection
  <1>19. ASSUME NEW w \in Writer, WriteOk(w)
        PROVE  IInv'
    BY <1>19 DEF WriteOk
  <1>20. ASSUME NEW w \in Writer, WriteFail(w)
        PROVE  IInv'
    <2>1. \A v \in Writer : session \in up /\ Own(v) => v # w /\ Own(v)'
      BY <1>20 DEF WriteFail
    <2>2. Manned'
      BY <1>20, <2>1 DEF WriteFail
    <2>3. TypeOK' /\ FirstRound' /\ ReadEnded' /\ NotYetRunning'
      BY <1>20 DEF WriteFail
    <2>4. Joined' /\ NoSessionLeak' /\ CloseMeansStopped'
      BY <1>20 DEF WriteFail
    <2> QED
      BY <2>2, <2>3, <2>4
  <1>21. ASSUME NEW w \in Writer, WriterUnset(w)
        PROVE  IInv'
    <2>1. \A v \in Writer : Own(v) => v # w /\ Own(v)'
      BY <1>21 DEF WriterUnset
    <2>2. Manned'
      BY <1>21, <2>1 DEF WriterUnset
    <2>3. TypeOK' /\ FirstRound' /\ ReadEnded' /\ NotYetRunning'
      BY <1>21 DEF WriterUnset
    <2>4. Joined' /\ NoSessionLeak' /\ CloseMeansStopped'
      BY <1>21 DEF WriterUnset
    <2> QED
      BY <2>2, <2>3, <2>4
  <1>22. ASSUME NEW w \in Writer, WriterClose(w)
        PROVE  IInv'
    BY <1>22 DEF WriterClose
  <1>23. ASSUME NEW w \in Writer, WriterCrash(w)
        PROVE  IInv'
    BY <1>23 DEF WriterCrash
  <1>24. ASSUME NEW c \in Caller, Write(c)
        PROVE  IInv'
    BY <1>24 DEF Write
  <1>25. CASE CloseCall
    BY <1>25 DEF CloseCall
  <1>26. CASE CloseReturn
    BY <1>26 DEF CloseReturn
  <1>27. CASE SessionLost
    BY <1>27 DEF SessionLost
  <1>28. CASE UNCHANGED vars
    BY <1>28 DEF vars
  <1> QED
    BY <1>1, <1>2, <1>3, <1>4, <1>5, <1>6, <1>7, <1>8, <1>9, <1>10,
       <1>11, <1>12, <1>13, <1>14, <1>15, <1>16, <1>17, <1>18,
       <1>19, <1>20, <1>21, <1>22, <1>23, <1>24, <1>25, <1>26,
       <1>27, <1>28
    DEF Next, RunStep, WriterStep, Halted

LEMMA Invariance == Spec => []IInv
  BY InitIInv, StepIInv, PTL DEF Spec

----------------------------------------------------------------------------
(* A connection is a line. *)

\* Nobody comes or is served, and nothing is gained.
Fade ==
    /\ Blocked' = Blocked
    /\ (Live' => Live) /\ (Staffed' => Staffed)

\* Then the line goes down or loses the last of those who took packets, and not
\* the one without the other.
LEMMA FadeIsLine == IInv /\ IInv' /\ Fade => [L!LineNext]_(L!line)
  <1> SUFFICES ASSUME IInv, IInv', Fade PROVE [L!LineNext]_(L!line)
    OBVIOUS
  <1>1. (Live => Staffed) /\ (Live' => Staffed')
    BY DEF IInv, Manned, Own, Live, Staffed
  <1>2. Live \in BOOLEAN /\ Live' \in BOOLEAN /\ Staffed' \in BOOLEAN
    BY DEF Live, Staffed
  <1>3. CASE Live /\ ~Live'
    BY <1>1, <1>2, <1>3 DEF Fade, L!LineNext, L!Lose
  <1>4. CASE ~Live /\ Staffed /\ ~Staffed'
    BY <1>1, <1>2, <1>4 DEF Fade, L!LineNext, L!Leave
  <1>5. CASE Live' = Live /\ Staffed' = Staffed
    BY <1>5 DEF Fade, L!line
  <1> QED
    BY <1>1, <1>2, <1>3, <1>4, <1>5 DEF Fade, Live, Staffed

LEMMA StepLine == IInv /\ IInv' /\ [Next]_vars => [L!LineNext]_(L!line)
  <1> SUFFICES ASSUME IInv, IInv', [Next]_vars PROVE [L!LineNext]_(L!line)
    OBVIOUS
  <1>1. ASSUME NEW c \in Caller, Write(c)
        PROVE  L!Call(c)
    BY <1>1 DEF Write, L!Call, Blocked, Live, Staffed, fields, run, writers, IInv,
                TypeOK
  <1>2. ASSUME NEW w \in Writer, NEW c \in Caller, TakePacket(w, c)
        PROVE  L!Serve(c)
    <2>1. Blocked' = Blocked \ {c} /\ c \in Blocked
      BY <1>2 DEF TakePacket, Blocked, IInv, TypeOK
    <2>2. Live' = Live
      BY <1>2 DEF TakePacket, Live, fields, run
    <2>3. Staffed /\ Staffed' /\ Staffed' \in BOOLEAN
      BY <1>2 DEF TakePacket, At, Staffed, IInv, TypeOK
    <2> QED
      BY <2>1, <2>2, <2>3 DEF L!Serve
  <1>3. ASSUME NEW w \in Writer, Spawn(w)
        PROVE  L!Open
    <2>1. ~Live /\ Live' \in BOOLEAN /\ Blocked' = Blocked
      BY <1>3 DEF Spawn, RunAt, Live, Blocked
    <2>2. Staffed' /\ Staffed' \in BOOLEAN
      BY <1>3 DEF Spawn, Staffed, IInv, TypeOK
    <2> QED
      BY <2>1, <2>2 DEF L!Open
  <1>4. CASE \/ RunStart \/ RunStop \/ RunGo \/ Skip \/ Dial \/ DialFail
             \/ OpenStream \/ OpenStreamFail
             \/ ReadError \/ ReadPanic \/ ReadClose \/ ReadUnset
             \/ CloseCall \/ CloseReturn \/ SessionLost \/ UNCHANGED vars
    <2>1. Blocked' = Blocked /\ Staffed' = Staffed
      BY <1>4 DEF RunStart, RunStop, RunGo, Skip, Dial, DialFail, OpenStream,
          OpenStreamFail, ReadError, ReadPanic, ReadClose, ReadUnset, CloseCall,
          CloseReturn, SessionLost, vars, Blocked, Staffed, writers
    <2>2. ASSUME RunStart \/ RunStop \/ RunGo \/ Skip \/ Dial \/ DialFail
          PROVE  Live' => Live
      BY <2>2 DEF RunStart, RunStop, RunGo, Skip, Dial, DialFail, Live
    <2>3. ASSUME \/ OpenStream \/ OpenStreamFail
                 \/ ReadError \/ ReadPanic \/ ReadClose \/ ReadUnset
          PROVE  Live' => Live
      BY <2>3 DEF OpenStream, OpenStreamFail, ReadError, ReadPanic, ReadClose,
          ReadUnset, Live, RunAt, fields
    <2>4. ASSUME CloseCall \/ CloseReturn \/ SessionLost \/ UNCHANGED vars
          PROVE  Live' => Live
      BY <2>4 DEF CloseCall, CloseReturn, SessionLost, vars, Live, fields, run
    <2> QED
      BY <1>4, <2>1, <2>2, <2>3, <2>4, FadeIsLine DEF Fade
  <1>5. ASSUME NEW w \in Writer,
               \/ WriterStart(w) \/ TakeClose(w) \/ BeginWrite(w) \/ NoConnection(w)
               \/ WriteOk(w) \/ WriteFail(w)
               \/ WriterUnset(w) \/ WriterClose(w) \/ WriterCrash(w)
        PROVE  Fade
    <2>1. Blocked' = Blocked
      BY <1>5 DEF WriterStart, TakeClose, BeginWrite, NoConnection, WriteOk,
          WriteFail, WriterUnset, WriterClose, WriterCrash, Blocked
    <2>2. Live' => Live
      BY <1>5 DEF WriterStart, TakeClose, BeginWrite, NoConnection, WriteOk,
          WriteFail, WriterUnset, WriterClose, WriterCrash, Live, fields, run
    <2>3. Staffed' => Staffed
      BY <1>5 DEF WriterStart, TakeClose, BeginWrite, NoConnection, WriteOk,
          WriteFail, WriterUnset, WriterClose, WriterCrash, At, Staffed, writers,
          IInv, TypeOK
    <2> QED
      BY <2>1, <2>2, <2>3 DEF Fade
  <1> QED
    BY <1>1, <1>2, <1>3, <1>4, <1>5, FadeIsLine
    DEF Next, RunStep, WriterStep, Halted, L!LineNext

LEMMA InitLine == Init => L!LineInit
  BY DEF Init, L!LineInit, Live, Staffed, Blocked

\* A client connection implements the abstract line: while its session is up a
\* write goroutine takes what callers of Write wait with, whichever of the write
\* goroutines of earlier sessions end meanwhile (writeProcess, run, Write).
THEOREM ConnIsLine == Spec => IsLine
  BY InitLine, StepLine, Invariance, PTL DEF Spec, IsLine, L!LineSpec

----------------------------------------------------------------------------
\* The variables always have their types; in particular the session field is
\* never emptied by a failed dial.
THEOREM ClientTypeCorrect == Spec => []TypeOK
  BY Invariance, PTL DEF IInv

\* Only the session the fields refer to can be up, whatever stale write
\* goroutines did to connected before.
THEOREM NoLeak == Spec => []NoSessionLeak
  BY Invariance, PTL DEF IInv

\* Close returns after run has ended and never before.
THEOREM CloseCorrect == Spec => []CloseMeansStopped
  BY Invariance, PTL DEF IInv
=============================================================================
