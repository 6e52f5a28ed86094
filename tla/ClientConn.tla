----------------------------- MODULE ClientConn -----------------------------
(* One connection on the client side.  The goroutine run dials, spawns a    *)
(* write goroutine and reads, and starts again when reading fails; it does  *)
(* not wait for the write goroutine, which goes on waiting for packets, so  *)
(* that several of them may be alive.  All use the fields session, conn and *)
(* connected of the same ClientConn as they are when they look at them.     *)
EXTENDS FiniteSets, Naturals

CONSTANTS
    Caller,     \* goroutines calling Write: tun workers and the pinger
    Writer,     \* bound: the write goroutines that may be alive at a time
    Session,    \* QUIC sessions; one no longer referred to may come back
    NoSession

ASSUME ClientConnAssumption == NoSession \notin Session

VARIABLES
    session,    \* ClientConn.session
    conn,       \* the session whose stream is ClientConn.conn, NoSession if nil
    up,         \* the sessions that are neither lost nor closed
    connected,  \* ClientConn.connected
    rpc,        \* where run is
    retry,      \* readProcess returned an error, so run goes round again
    wpc,        \* where each write goroutine is
    wconn,      \* the session each write goroutine writes to
    cpc,        \* whether a caller is blocked in Write
    closing,    \* how far a call of Close is
    crashed     \* a panic nobody recovers has ended the client

fields == <<session, conn, connected>>
run    == <<rpc, retry>>
writers == <<wpc, wconn>>
vars   == <<session, conn, up, connected, rpc, retry, wpc, wconn, cpc, closing,
            crashed>>

TypeOK ==
    /\ session \in Session /\ conn \in Session \cup {NoSession}
    /\ up \subseteq Session
    /\ connected \in BOOLEAN
    /\ rpc \in {"start", "top", "connect", "open", "spawn", "read", "close",
                "unset", "done"}
    /\ retry \in BOOLEAN
    /\ wpc \in [Writer -> {"free", "start", "select", "frame", "write", "unset",
                           "close"}]
    /\ wconn \in [Writer -> Session \cup {NoSession}]
    /\ \A w \in Writer : wpc[w] # "write" => wconn[w] = NoSession
    /\ cpc \in [Caller -> {"idle", "blocked"}]
    /\ closing \in {"idle", "sending", "waiting", "done"}
    /\ crashed \in BOOLEAN

\* Client.Start: InitConn has dialled and opened the stream, run is spawned.
Init ==
    /\ session \in Session /\ conn = session /\ up = {session}
    /\ connected = TRUE
    /\ rpc = "start" /\ retry = TRUE
    /\ wpc = [w \in Writer |-> "free"] /\ wconn = [w \in Writer |-> NoSession]
    /\ cpc = [c \in Caller |-> "idle"]
    /\ closing = "idle" /\ crashed = FALSE

----------------------------------------------------------------------------
(* The goroutine run. *)

\* Where run or a write goroutine is, in a client that has not crashed.
RunAt(label) == ~crashed /\ rpc = label
At(w, label) == ~crashed /\ wpc[w] = label

RunStart ==
    /\ RunAt("start")
    /\ rpc' = "top"
    /\ UNCHANGED <<fields, up, retry, writers, cpc, closing, crashed>>

\* The select on chanClose at the top of the loop, with a Close waiting in its
\* send or without.
RunStop ==
    /\ RunAt("top") /\ closing = "sending"
    /\ closing' = "waiting"
    /\ rpc' = "done"
    /\ UNCHANGED <<fields, up, retry, writers, cpc, crashed>>

RunGo ==
    /\ RunAt("top") /\ closing # "sending"
    /\ rpc' = "connect"
    /\ UNCHANGED <<fields, up, retry, writers, cpc, closing, crashed>>

\* Mutant of Skip: a round without reading.
SkipRound ==
    /\ RunAt("connect") /\ connected
    /\ rpc' = "top"
    /\ UNCHANGED <<fields, up, retry, writers, cpc, closing, crashed>>

\* tryConnect: nothing to do, a session, or an error and a pause.
Skip ==
    /\ RunAt("connect") /\ connected
    /\ rpc' = "spawn"
    /\ UNCHANGED <<fields, up, retry, writers, cpc, closing, crashed>>

Fresh == Session \ (up \cup {session, conn} \cup {wconn[w] : w \in Writer})

Dial ==
    /\ RunAt("connect") /\ ~connected
    /\ \E s \in Fresh : session' = s /\ up' = up \cup {s}
    /\ rpc' = "open"
    /\ UNCHANGED <<conn, connected, retry, writers, cpc, closing, crashed>>

\* Mutant of DialFail: the nil session of a failed dial is kept.
DialFailClears ==
    /\ RunAt("connect") /\ ~connected
    /\ session' = NoSession
    /\ rpc' = "top"
    /\ UNCHANGED <<conn, connected, up, retry, writers, cpc, closing, crashed>>

DialFail ==
    /\ RunAt("connect") /\ ~connected
    /\ rpc' = "top"
    /\ UNCHANGED <<fields, up, retry, writers, cpc, closing, crashed>>

OpenStream ==
    /\ RunAt("open") /\ session \in up
    /\ conn' = session
    /\ rpc' = "spawn"
    /\ UNCHANGED <<session, connected, up, retry, writers, cpc, closing, crashed>>

\* OpenStreamSync returns no stream, and this is what conn is set to.
OpenStreamFail ==
    /\ RunAt("open")
    /\ conn' = NoSession
    /\ up' = up \ {session}
    /\ rpc' = "top"
    /\ UNCHANGED <<session, connected, retry, writers, cpc, closing, crashed>>

Spawn(w) ==
    /\ RunAt("spawn") /\ wpc[w] = "free"
    /\ wpc' = [wpc EXCEPT ![w] = "start"]
    /\ rpc' = "read"
    /\ UNCHANGED <<fields, up, retry, wconn, cpc, closing, crashed>>

\* The stream ends, the session is lost, or a frame does not open.
ReadError ==
    /\ RunAt("read") /\ conn # NoSession
    /\ retry' = TRUE
    /\ rpc' = "close"
    /\ UNCHANGED <<fields, up, writers, cpc, closing, crashed>>

\* The handler panics, or there is no stream to read from; readProcess recovers
\* and returns nil.
ReadPanic ==
    /\ RunAt("read")
    /\ retry' = FALSE
    /\ rpc' = "close"
    /\ UNCHANGED <<fields, up, writers, cpc, closing, crashed>>

\* Mutant of ReadClose: the session is left to time out.
ReadCloseNothing ==
    /\ RunAt("close")
    /\ rpc' = "unset"
    /\ UNCHANGED <<fields, up, retry, writers, cpc, closing, crashed>>

ReadClose ==
    /\ RunAt("close")
    /\ up' = up \ {session}
    /\ rpc' = "unset"
    /\ UNCHANGED <<fields, retry, writers, cpc, closing, crashed>>

ReadUnset ==
    /\ RunAt("unset")
    /\ connected' = FALSE
    /\ rpc' = IF retry THEN "top" ELSE "done"
    /\ UNCHANGED <<session, conn, up, retry, writers, cpc, closing, crashed>>

----------------------------------------------------------------------------
(* The write goroutines: writeProcess. *)

WriterStart(w) ==
    /\ At(w, "start")
    /\ wpc' = [wpc EXCEPT ![w] = "select"]
    /\ connected' = TRUE
    /\ UNCHANGED <<session, conn, up, run, wconn, cpc, closing, crashed>>

\* chanWrite has no buffer: the caller returns when a writer takes its packet.
TakePacket(w, c) ==
    /\ At(w, "select") /\ cpc[c] = "blocked"
    /\ wpc' = [wpc EXCEPT ![w] = "frame"]
    /\ cpc' = [cpc EXCEPT ![c] = "idle"]
    /\ UNCHANGED <<fields, up, run, wconn, closing, crashed>>

\* Any of the writers may be the one that receives the signal of Close.
TakeClose(w) ==
    /\ At(w, "select") /\ closing = "sending"
    /\ wpc' = [wpc EXCEPT ![w] = "unset"]
    /\ closing' = "waiting"
    /\ UNCHANGED <<fields, up, run, wconn, cpc, crashed>>

\* The frame is complete and goes to the stream that conn is by now.
BeginWrite(w) ==
    /\ At(w, "frame") /\ conn # NoSession
    /\ wpc' = [wpc EXCEPT ![w] = "write"]
    /\ wconn' = [wconn EXCEPT ![w] = conn]
    /\ UNCHANGED <<fields, up, run, cpc, closing, crashed>>

NoConnection(w) ==
    /\ At(w, "frame") /\ conn = NoSession
    /\ wpc' = [wpc EXCEPT ![w] = "unset"]
    /\ UNCHANGED <<fields, up, run, wconn, cpc, closing, crashed>>

\* Mutant of WriteOk: the goroutine serves one packet only.
WriteOnce(w) ==
    /\ At(w, "write") /\ wconn[w] \in up
    /\ wpc' = [wpc EXCEPT ![w] = "free"]
    /\ wconn' = [wconn EXCEPT ![w] = NoSession]
    /\ UNCHANGED <<fields, up, run, cpc, closing, crashed>>

WriteOk(w) ==
    /\ At(w, "write") /\ wconn[w] \in up
    /\ wpc' = [wpc EXCEPT ![w] = "select"]
    /\ wconn' = [wconn EXCEPT ![w] = NoSession]
    /\ UNCHANGED <<fields, up, run, cpc, closing, crashed>>

WriteFail(w) ==
    /\ At(w, "write") /\ wconn[w] \notin up
    /\ wpc' = [wpc EXCEPT ![w] = "unset"]
    /\ wconn' = [wconn EXCEPT ![w] = NoSession]
    /\ UNCHANGED <<fields, up, run, cpc, closing, crashed>>

WriterUnset(w) ==
    /\ At(w, "unset")
    /\ connected' = FALSE
    /\ wpc' = [wpc EXCEPT ![w] = "close"]
    /\ UNCHANGED <<session, conn, up, run, wconn, cpc, closing, crashed>>

\* The deferred close of whatever conn and session are by now.  Nothing
\* recovers a panic of the deferred function itself.
WriterClose(w) ==
    /\ At(w, "close") /\ conn # NoSession
    /\ up' = up \ {session}
    /\ wpc' = [wpc EXCEPT ![w] = "free"]
    /\ UNCHANGED <<fields, run, wconn, cpc, closing, crashed>>

WriterCrash(w) ==
    /\ At(w, "close") /\ conn = NoSession
    /\ crashed' = TRUE
    /\ UNCHANGED <<fields, up, run, writers, cpc, closing>>

----------------------------------------------------------------------------
(* Callers, Close, and the network. *)

Write(c) ==
    /\ ~crashed /\ cpc[c] = "idle"
    /\ cpc' = [cpc EXCEPT ![c] = "blocked"]
    /\ UNCHANGED <<fields, up, run, writers, closing, crashed>>

\* Mutant of CloseCall: the signal is left in a buffer.
CloseCallBuffered ==
    /\ ~crashed /\ closing = "idle"
    /\ closing' = "waiting"
    /\ UNCHANGED <<fields, up, run, writers, cpc, crashed>>

CloseCall ==
    /\ ~crashed /\ closing = "idle"
    /\ closing' = "sending"
    /\ UNCHANGED <<fields, up, run, writers, cpc, crashed>>

\* wg counts run, from its first statement to its last.
CloseReturn ==
    /\ ~crashed /\ closing = "waiting"
    /\ rpc \in {"start", "done"}
    /\ closing' = "done"
    /\ UNCHANGED <<fields, up, run, writers, cpc, crashed>>

SessionLost ==
    /\ ~crashed /\ up # {}
    /\ \E s \in up : up' = up \ {s}
    /\ UNCHANGED <<fields, run, writers, cpc, closing, crashed>>

Halted == crashed /\ UNCHANGED vars

RunStep ==
    \/ RunStart \/ RunStop \/ RunGo \/ Skip \/ Dial \/ DialFail
    \/ OpenStream \/ OpenStreamFail
    \/ \E w \in Writer : Spawn(w)
    \/ ReadError \/ ReadPanic \/ ReadClose \/ ReadUnset

WriterStep(w) ==
    \/ WriterStart(w) \/ TakeClose(w)
    \/ \E c \in Caller : TakePacket(w, c)
    \/ BeginWrite(w) \/ NoConnection(w) \/ WriteOk(w) \/ WriteFail(w)
    \/ WriterUnset(w) \/ WriterClose(w) \/ WriterCrash(w)

Next ==
    \/ RunStep
    \/ \E w \in Writer : WriterStep(w)
    \/ \E c \in Caller : Write(c)
    \/ CloseCall \/ CloseReturn \/ SessionLost
    \/ Halted

Spec == Init /\ [][Next]_vars

(* Goroutines are scheduled, and an operation on a lost session returns its *)
(* error.  The server can be reached again and again, and it reads what is  *)
(* sent.  Nothing is assumed of callers, of Close, or of when sessions are  *)
(* lost.                                                                    *)
Fairness ==
    /\ WF_vars(RunStart \/ RunStop \/ RunGo \/ Skip)
    /\ WF_vars(Dial \/ DialFail)
    /\ WF_vars(OpenStream \/ OpenStreamFail)
    /\ WF_vars(\E w \in Writer : Spawn(w))
    /\ WF_vars(conn \notin up /\ (ReadError \/ ReadPanic))
    /\ WF_vars(ReadClose \/ ReadUnset)
    /\ SF_vars(Dial) /\ SF_vars(OpenStream)
    /\ \A w \in Writer :
          /\ WF_vars(WriterStart(w))
          /\ WF_vars(BeginWrite(w) \/ NoConnection(w))
          /\ WF_vars(WriteOk(w) \/ WriteFail(w))
          /\ WF_vars(WriterUnset(w) \/ WriterClose(w) \/ WriterCrash(w))
    /\ \A c \in Caller : SF_vars(\E w \in Writer : TakePacket(w, c))

FairSpec == Spec /\ Fairness

----------------------------------------------------------------------------
(* Properties *)

\* No session is forgotten alive: whatever writers are left over from before,
\* the only session that may be up is the one the fields refer to.
NoSessionLeak == up \subseteq {session}

\* The connection is up from when run has spawned the write goroutine of the
\* session, and no longer once a Close has sent its signal off, which may end
\* that very goroutine.
Live ==
    /\ ~crashed /\ closing \in {"idle", "sending"}
    /\ session \in up /\ rpc \in {"read", "close"}

\* Some write goroutine takes packets, or will after the one it has.
Staffed == \E w \in Writer : wpc[w] \in {"start", "select", "frame", "write"}

Blocked == {c \in Caller : cpc[c] = "blocked"}

L == INSTANCE Line WITH live <- Live, manned <- Staffed, waiting <- Blocked

\* While the session is up some write goroutine takes packets: it came with one
\* of its own, which goes on until a write to this very session fails, and those
\* of earlier sessions, which may end in between, are not counted on.
IsLine == L!LineSpec

\* When Close has returned, run has ended: the signal cannot be taken before
\* run has announced itself to wg.
CloseMeansStopped == closing = "done" => rpc = "done"

\* A caller is never blocked for good while the connection is being kept up:
\* some writer takes its packet, unless run has ended.
CallersServed ==
    \A c \in Caller :
        cpc[c] = "blocked" ~> (cpc[c] = "idle" \/ rpc = "done" \/ crashed)

\* A write goroutine that starts does so before the reader beside it has
\* already failed.
Prompt == \A w \in Writer : wpc[w] = "start" => rpc = "read"
NoSlot == rpc = "spawn" /\ \A w \in Writer : wpc[w] # "free"

\* A lost session is replaced, although stale writers change connected behind
\* the back of run, if new writers start promptly from some time on.
Reconnects ==
    <>[]Prompt =>
        (session \notin up) ~> (session \in up \/ rpc = "done" \/ NoSlot \/ crashed)

----------------------------------------------------------------------------
(* What the comments, log lines and checks of the code say *)

\* client_conn.go:202 closes the session with the reason "fail to write".
OwnFailureOnly ==
    [][\A w \in Writer : wpc[w] = "close" /\ wpc'[w] = "free" /\ closing = "idle"
          => session \notin up]_vars

\* client_conn.go:231 reports a missing stream as the error "no connection".
NoCrash == closing = "idle" => ~crashed
=============================================================================
