----------------------------- MODULE ServerConn -----------------------------
(* One connection on the server side: the workers that send packets into    *)
(* it, the write goroutine that frames them onto the QUIC stream, the read  *)
(* goroutine, and the shutdown that either of the two begins and both must  *)
(* complete.  They share the buffered channel chanWrite, the channel        *)
(* chanClose, the stream, the session and the flag isClosed, and no lock.   *)
EXTENDS Naturals, Sequences

CONSTANTS
    Sender,     \* the workers that call SendPacket on this connection
    WriteCap,   \* capacity of chanWrite
    MaxMsgs     \* bound: the calls of SendPacket in a behaviour

ASSUME ServerConnAssumption == WriteCap \in Nat /\ MaxMsgs \in Nat

Packet == 1 .. MaxMsgs   \* a packet is the number of its call
None == 0                \* no packet; the nil slice of a closed channel

VARIABLES
    chanWrite,   \* the packets in the buffered channel
    chanShut,    \* chanWrite has been closed
    chanClose,   \* how many stop signals chanClose (capacity 1) holds
    stream,      \* our side of the stream: "open" or "closed"
    session,     \* the QUIC session: "up" or "down"
    isClosed,    \* ServerConn.isClosed
    rpc,         \* where the read goroutine is
    wpc,         \* where the write goroutine is
    wbuf,        \* the packet it is writing
    spc,         \* the packet each sender is blocked with, or None
    calls,       \* the calls of SendPacket so far
    taken,       \* history: the packets the channel accepted, in order
    wire         \* history: the packets written to the stream, in order

chans == <<chanWrite, chanShut, chanClose>>
link  == <<stream, session, isClosed>>
vars  == <<chanWrite, chanShut, chanClose, stream, session, isClosed, rpc, wpc,
           wbuf, spc, calls, taken, wire>>

TypeOK ==
    /\ chanWrite \in Seq(Packet) /\ Len(chanWrite) <= WriteCap
    /\ chanShut \in BOOLEAN
    /\ chanClose \in {0, 1}
    /\ stream \in {"open", "closed"} /\ session \in {"up", "down"}
    /\ isClosed \in BOOLEAN
    /\ rpc \in {"read", "cleanup", "stream", "session", "flag", "stop", "shut",
                "done"}
    /\ wpc \in {"select", "write", "stream", "session", "flag", "done"}
    /\ wbuf \in Packet \cup {None}
    /\ spc \in [Sender -> Packet \cup {None}]
    /\ calls \in 0 .. MaxMsgs
    /\ taken \in Seq(Packet) /\ wire \in Seq(Packet \cup {None})

Init ==
    /\ chanWrite = <<>> /\ chanShut = FALSE /\ chanClose = 0
    /\ stream = "open" /\ session = "up" /\ isClosed = FALSE
    /\ rpc = "read" /\ wpc = "select" /\ wbuf = None
    /\ spc = [s \in Sender |-> None] /\ calls = 0
    /\ taken = <<>> /\ wire = <<>>

----------------------------------------------------------------------------
(* Senders: SendPacket and Write. *)

Call(s) ==
    /\ spc[s] = None
    /\ calls < MaxMsgs
    /\ calls' = calls + 1
    /\ spc' = [spc EXCEPT ![s] = calls + 1]
    /\ UNCHANGED <<chans, link, rpc, wpc, wbuf, taken, wire>>

\* Mutant of Enqueue: a queue that grows instead of blocking the caller.
EnqueueUnbounded(s) ==
    /\ spc[s] # None
    /\ ~chanShut
    /\ chanWrite' = Append(chanWrite, spc[s])
    /\ taken' = Append(taken, spc[s])
    /\ spc' = [spc EXCEPT ![s] = None]
    /\ UNCHANGED <<chanShut, chanClose, link, rpc, wpc, wbuf, calls, wire>>

Enqueue(s) ==
    /\ spc[s] # None
    /\ ~chanShut
    /\ Len(chanWrite) < WriteCap
    /\ chanWrite' = Append(chanWrite, spc[s])
    /\ taken' = Append(taken, spc[s])
    /\ spc' = [spc EXCEPT ![s] = None]
    /\ UNCHANGED <<chanShut, chanClose, link, rpc, wpc, wbuf, calls, wire>>

\* A send on a closed channel panics, blocked or not; Write recovers, and the
\* packet is lost.
Released(s) ==
    /\ spc[s] # None
    /\ chanShut
    /\ spc' = [spc EXCEPT ![s] = None]
    /\ UNCHANGED <<chans, link, rpc, wpc, wbuf, calls, taken, wire>>

----------------------------------------------------------------------------
(* The write goroutine: writeProcess. *)

\* Mutant of TakePacket: the backlog is dropped in favour of the newest.
TakeNewest ==
    /\ wpc = "select"
    /\ chanWrite # <<>>
    /\ wbuf' = chanWrite[Len(chanWrite)]
    /\ chanWrite' = <<>>
    /\ wpc' = "write"
    /\ UNCHANGED <<chanShut, chanClose, link, rpc, spc, calls, taken, wire>>

TakePacket ==
    /\ wpc = "select"
    /\ chanWrite # <<>>
    /\ wbuf' = Head(chanWrite)
    /\ chanWrite' = Tail(chanWrite)
    /\ wpc' = "write"
    /\ UNCHANGED <<chanShut, chanClose, link, rpc, spc, calls, taken, wire>>

\* A closed and drained channel yields nil, and nil is framed like a packet.
TakeNil ==
    /\ wpc = "select"
    /\ chanWrite = <<>> /\ chanShut
    /\ wbuf' = None
    /\ wpc' = "write"
    /\ UNCHANGED <<chans, link, rpc, spc, calls, taken, wire>>

TakeStop ==
    /\ wpc = "select"
    /\ chanClose > 0
    /\ chanClose' = chanClose - 1
    /\ wpc' = "stream"
    /\ UNCHANGED <<chanWrite, chanShut, link, rpc, wbuf, spc, calls, taken, wire>>

WriteOk ==
    /\ wpc = "write"
    /\ stream = "open" /\ session = "up"
    /\ wire' = Append(wire, wbuf)
    /\ wbuf' = None
    /\ wpc' = "select"
    /\ UNCHANGED <<chans, link, rpc, spc, calls, taken>>

WriteFail ==
    /\ wpc = "write"
    /\ stream = "closed" \/ session = "down"
    /\ wbuf' = None
    /\ wpc' = "stream"
    /\ UNCHANGED <<chans, link, rpc, spc, calls, taken, wire>>

\* Mutant of WriterCloseStream: the flag is set before anything is closed.
WriterFlagFirst ==
    /\ wpc = "stream"
    /\ isClosed' = TRUE
    /\ wpc' = "session"
    /\ UNCHANGED <<chans, stream, session, rpc, wbuf, spc, calls, taken, wire>>

WriterCloseStream ==
    /\ wpc = "stream"
    /\ stream' = "closed"
    /\ wpc' = "session"
    /\ UNCHANGED <<chans, session, isClosed, rpc, wbuf, spc, calls, taken, wire>>

WriterCloseSession ==
    /\ wpc = "session"
    /\ session' = "down"
    /\ wpc' = "flag"
    /\ UNCHANGED <<chans, stream, isClosed, rpc, wbuf, spc, calls, taken, wire>>

WriterSetFlag ==
    /\ wpc = "flag"
    /\ isClosed' = TRUE
    /\ wpc' = "done"
    /\ UNCHANGED <<chans, stream, session, rpc, wbuf, spc, calls, taken, wire>>

----------------------------------------------------------------------------
(* The read goroutine: readProcess.  Frames that are read change nothing    *)
(* here (see Routing for what a ping does).                                 *)

\* End of stream, a lost session, a frame that does not open with the key, or
\* a panic of the handler: all end in the same deferred function.
ReadEnd ==
    /\ rpc = "read"
    /\ rpc' = "cleanup"
    /\ UNCHANGED <<chans, link, wpc, wbuf, spc, calls, taken, wire>>

\* Mutant of Cleanup: the channels are closed before the stream.
CleanupThenStop ==
    /\ rpc = "cleanup"
    /\ rpc' = "stop"
    /\ UNCHANGED <<chans, link, wpc, wbuf, spc, calls, taken, wire>>

\* The server forgets the connection (Remove in Routing).
Cleanup ==
    /\ rpc = "cleanup"
    /\ rpc' = "stream"
    /\ UNCHANGED <<chans, link, wpc, wbuf, spc, calls, taken, wire>>

ReaderCloseStream ==
    /\ rpc = "stream"
    /\ stream' = "closed"
    /\ rpc' = "session"
    /\ UNCHANGED <<chans, session, isClosed, wpc, wbuf, spc, calls, taken, wire>>

ReaderCloseSession ==
    /\ rpc = "session"
    /\ session' = "down"
    /\ rpc' = "flag"
    /\ UNCHANGED <<chans, stream, isClosed, wpc, wbuf, spc, calls, taken, wire>>

\* Mutant of ReaderSetFlag: the goroutine ends without calling Stop.
ReaderNoStop ==
    /\ rpc = "flag"
    /\ isClosed' = TRUE
    /\ rpc' = "done"
    /\ UNCHANGED <<chans, stream, session, wpc, wbuf, spc, calls, taken, wire>>

ReaderSetFlag ==
    /\ rpc = "flag"
    /\ isClosed' = TRUE
    /\ rpc' = "stop"
    /\ UNCHANGED <<chans, stream, session, wpc, wbuf, spc, calls, taken, wire>>

\* Stop: the signal, which blocks on a full chanClose, then the close.
StopSignal ==
    /\ rpc = "stop"
    /\ chanClose < 1
    /\ chanClose' = chanClose + 1
    /\ rpc' = "shut"
    /\ UNCHANGED <<chanWrite, chanShut, link, wpc, wbuf, spc, calls, taken, wire>>

\* Mutant of StopShut: the channel is left open.
StopOnly ==
    /\ rpc = "shut"
    /\ rpc' = "done"
    /\ UNCHANGED <<chans, link, wpc, wbuf, spc, calls, taken, wire>>

StopShut ==
    /\ rpc = "shut"
    /\ chanShut' = TRUE
    /\ rpc' = "done"
    /\ UNCHANGED <<chanWrite, chanClose, link, wpc, wbuf, spc, calls, taken, wire>>

----------------------------------------------------------------------------
(* The network: the client closes the session, or it times out. *)
SessionLost ==
    /\ session = "up"
    /\ session' = "down"
    /\ UNCHANGED <<chans, stream, isClosed, rpc, wpc, wbuf, spc, calls, taken, wire>>

\* Both goroutines have ended, no sender is blocked and none will call.
Finished ==
    /\ rpc = "done" /\ wpc = "done" /\ calls = MaxMsgs
    /\ \A s \in Sender : spc[s] = None
    /\ UNCHANGED vars

ReaderExit ==
    \/ Cleanup \/ ReaderCloseStream \/ ReaderCloseSession \/ ReaderSetFlag
    \/ StopSignal \/ StopShut
Select == TakePacket \/ TakeNil \/ TakeStop
WriterExit == WriterCloseStream \/ WriterCloseSession \/ WriterSetFlag

Next ==
    \/ \E s \in Sender : Call(s) \/ Enqueue(s) \/ Released(s)
    \/ ReadEnd \/ ReaderExit
    \/ Select \/ WriteOk \/ WriteFail \/ WriterExit
    \/ SessionLost
    \/ Finished

Spec == Init /\ [][Next]_vars

(* Goroutines are scheduled; an operation on a lost session returns its     *)
(* error.  A write on a live session may block for as long as the flow      *)
(* control of the peer wants, and nothing is assumed of the callers.        *)
Fairness ==
    /\ WF_vars(session = "down" /\ ReadEnd)
    /\ WF_vars(ReaderExit)
    /\ WF_vars(Select)
    /\ WF_vars(WriteFail)
    /\ WF_vars(WriterExit)
    /\ \A s \in Sender : WF_vars(Released(s))

FairSpec == Spec /\ Fairness

----------------------------------------------------------------------------
(* Properties *)

\* The connection is a pipe of WriteCap + 1 places: packets are written in the
\* order of the channel, none twice, none invented, no empty frame from the
\* closed channel, and none after the stream or the session is closed.
P == INSTANCE Pipe WITH Packet <- Packet, Backlog <- WriteCap + 1,
        taken <- taken, left <- wire,
        broken <- (stream = "closed" \/ session = "down")
IsPipe == P!PipeSpec

\* A connection reported closed, which workers and cleaner then forget, is no
\* live one: its stream and its session are closed already.
ClosedMeansDown == isClosed => stream = "closed" /\ session = "down"

\* The two goroutines end together, whoever begins and whatever the other is
\* blocked in, and the reader is never blocked in Stop.
EndTogether ==
    (session = "down" \/ rpc = "done" \/ wpc = "done")
        ~> (rpc = "done" /\ wpc = "done")

\* A worker blocked in the full channel of a broken connection is released.
SendersReleased ==
    \A s \in Sender :
        (session = "down" /\ spc[s] # None) ~> (spc[s] = None)

\* On a healthy connection whose writes return, every accepted packet is
\* written: the writer never stops or skips on its own.
AllWritten ==
    ([](session = "up" /\ rpc = "read") /\ []<>(wpc # "write"))
        => \A n \in Packet : (Len(taken) >= n) ~> (Len(wire) >= n)
=============================================================================
