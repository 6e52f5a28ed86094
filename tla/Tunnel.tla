------------------------------- MODULE Tunnel -------------------------------
(* A client with its pool of connections, and the server it is connected    *)
(* to: the sequential start, the writes that go round over the pool, the    *)
(* pings that announce every connection, the sessions that are lost and     *)
(* replaced, the accept loop, the reader, and the tables they fill.        *)
(*                                                                          *)
(* The parts are those of the other modules with fewer steps: a connection  *)
(* of the client is what ClientConn has in detail, and the operations on    *)
(* the connection maps are those of Routing.                                *)
EXTENDS FiniteSets, Naturals, Sequences

CONSTANTS
    Threads,      \* Client.threads, the size of the pool
    Worker,       \* goroutines that send the packets of the tun device
    Pinger,       \* the goroutine that sends the pings
    MaxSessions,  \* bound: the sessions dialled, with those Start fails to get
    MaxPackets,   \* bound: the packets the workers send
    MaxEarly      \* bound: how often the cleaner takes for dead what is only
                  \* about to be bound

ASSUME TunnelAssumption ==
    /\ Threads \in Nat \ {0}
    /\ Pinger \notin Worker
    /\ MaxSessions \in Nat /\ MaxPackets \in Nat /\ MaxEarly \in Nat

Slot == 0 .. Threads - 1
NoSlot == Threads
Goroutine == Worker \cup {Pinger}

\* Sessions are numbered in the order in which they are dialled.  Each has a
\* local port of its own, so the number is also the address it is announced by.
Conn == 1 .. MaxSessions
NoConn == 0

VARIABLES
    starting,      \* the slot Client.Start is at; Threads when it is done
    conns,         \* Client.conns: the session of each slot, NoConn if nil
    writers,       \* how many write goroutines of a slot wait for packets
    ended,         \* the slots whose run has ended
    serial,        \* Client.serial, of which only the remainder matters
    waiting,       \* the slot a goroutine is blocked on in Write, or NoSlot
    at,            \* the slot the pinger comes to next
    ping,          \* the address in the ping it is blocked with
    packets,       \* how many packets the workers have sent
    dialled,       \* how many sessions have been dialled
    live,          \* the sessions that are neither lost nor closed
    stray,         \* the sessions of peers that never open their stream
    backlog,       \* the sessions the accept loop is not done with, in order;
                   \* it waits for a stream of the first one
    opened,        \* the sessions whose stream the server sees and has not taken
    pings,         \* the addresses in the pings under way on each session
    reader,        \* the read goroutine of the server for each session
    handled,       \* the ping whose reader holds App.mutex: its address has
                   \* a route and is to be registered
    routes,        \* App.routes of the client's virtual IP
    Conns,         \* Server.Conns
    ConnsReverse,  \* Server.ConnsReverse
    cleaner        \* what the cleaner is about to do, to which address, and
                   \* how often it was too early

pool    == <<starting, conns, writers, ended>>
calls   == <<serial, waiting, at, ping, packets>>
network == <<dialled, live, stray>>
streams == <<opened, pings>>
tables  == <<handled, routes, Conns, ConnsReverse>>
vars    == <<pool, calls, network, backlog, streams, reader, tables, cleaner>>

\* The operations of the server's maps: one client, no worker on the server.
Server == INSTANCE Routing WITH
    Vip <- {1}, Addr <- Conn, Conn <- Conn, Worker <- {}, Cleaner <- {"cleaner"},
    NoConn <- NoConn, NoAddr <- NoConn, NoVip <- 0,
    AddrVip <- [a \in Conn |-> 1], ConnVip <- [c \in Conn |-> 1],
    PingAddr <- [c \in Conn |-> Conn],
    routes <- [v \in {1} |-> routes],
    isClosed <- [c \in Conn |-> reader[c] = "dead"], mutex <- handled.conn,
    rpc <- reader,
    paddr <- [c \in Conn |-> IF c = handled.conn THEN handled.addr ELSE NoConn],
    pc <- cleaner, job <- cleaner,
    crashed <- FALSE

TypeOK ==
    /\ starting \in 0 .. Threads
    /\ conns \in [Slot -> Conn \cup {NoConn}]
    /\ writers \in [Slot -> 0 .. MaxSessions]
    /\ ended \subseteq Slot
    /\ serial \in Slot
    /\ waiting \in [Goroutine -> Slot \cup {NoSlot}]
    /\ at \in Slot /\ ping \in Conn \cup {NoConn}
    /\ packets \in 0 .. MaxPackets
    /\ dialled \in 0 .. MaxSessions
    /\ live \subseteq 1 .. dialled /\ stray \subseteq 1 .. dialled
    /\ backlog \in Seq(1 .. dialled)
    /\ opened \subseteq 1 .. dialled
    /\ pings \in [Conn -> SUBSET Conn]
    /\ reader \in [Conn -> {"none", "read", "dead"}]
    /\ handled \in [conn : Conn \cup {NoConn}, addr : Conn \cup {NoConn}]
    /\ routes \subseteq Conn
    /\ Conns \in [Conn -> Conn \cup {NoConn}]
    /\ ConnsReverse \in [Conn -> Conn \cup {NoConn}]
    /\ cleaner \in [step : {"sweep", "delroute", "delconn"},
                    key : Conn \cup {NoConn}, early : 0 .. MaxEarly]

Ping(c, a) == [conn |-> c, addr |-> a]
NoPing == Ping(NoConn, NoConn)

Init ==
    /\ starting = 0 /\ conns = [i \in Slot |-> NoConn]
    /\ writers = [i \in Slot |-> 0] /\ ended = {}
    /\ serial = 0 /\ waiting = [g \in Goroutine |-> NoSlot]
    /\ at = 0 /\ ping = NoConn /\ packets = 0
    /\ dialled = 0 /\ live = {} /\ stray = {}
    /\ backlog = <<>>
    /\ opened = {} /\ pings = [c \in Conn |-> {}]
    /\ reader = [c \in Conn |-> "none"]
    /\ handled = NoPing /\ routes = {} /\ Conns = [a \in Conn |-> NoConn]
    /\ ConnsReverse = [c \in Conn |-> NoConn]
    /\ cleaner = [step |-> "sweep", key |-> NoConn, early |-> 0]

----------------------------------------------------------------------------
(* Sessions. *)

\* A session is established when the server's QUIC listener has answered; the
\* accept loop comes to it later.
Dial ==
    /\ dialled < MaxSessions
    /\ dialled' = dialled + 1
    /\ live' = live \cup {dialled'}
    /\ backlog' = Append(backlog, dialled')

Down(i) == conns[i] # NoConn /\ conns[i] \notin live

\* run goes on and dials again.
Lost(i) == Down(i) /\ i \notin ended

\* The bound on sessions leaves one for every slot that is down.  A slot whose
\* run has ended keeps the one it would have had, which bounds the panics too.
Spare == dialled + (Threads - starting) + Cardinality({i \in Slot : Down(i)})
            < MaxSessions

\* What the reader has in its buffer is handled when the session has ended.
PingsLeft(c) == IF reader[c] = "read" THEN pings ELSE [pings EXCEPT ![c] = {}]

\* A session ends for both ends: the network, a timeout, or either end closed
\* it.  The write goroutine may have been writing and end with it.
Lose(c) ==
    /\ c \in live
    /\ c \notin stray => Spare
    /\ live' = live \ {c}
    /\ pings' = PingsLeft(c)
    /\ \/ UNCHANGED writers
       \/ \E i \in Slot : /\ conns[i] = c
                          /\ writers' = [writers EXCEPT ![i] = @ - 1]
    /\ UNCHANGED <<starting, conns, ended, calls, dialled, stray, backlog, opened,
                   reader, tables, cleaner>>

\* Somebody dials and never opens a stream.
StrayDial ==
    /\ Spare
    /\ Dial
    /\ stray' = stray \cup {dialled'}
    /\ UNCHANGED <<pool, calls, streams, reader, tables, cleaner>>

----------------------------------------------------------------------------
(* The pool of the client. *)

\* Start: the slots are connected one after the other, and one that cannot be
\* connected now is left nil for good.
Connect ==
    /\ starting < Threads
    /\ Dial
    /\ conns' = [conns EXCEPT ![starting] = dialled']
    /\ writers' = [writers EXCEPT ![starting] = 1]
    /\ starting' = starting + 1
    /\ UNCHANGED <<ended, calls, stray, streams, reader, tables, cleaner>>

ConnectFail ==
    /\ starting < Threads
    /\ starting' = starting + 1
    /\ dialled < MaxSessions
    /\ dialled' = dialled + 1
    /\ UNCHANGED <<conns, writers, ended, calls, live, stray, backlog, streams,
                   reader, tables, cleaner>>

\* Mutant of Redial: run goes round without dialling.
RedialNever(i) ==
    /\ Lost(i)
    /\ UNCHANGED vars

\* run: a lost session is replaced by another one, with a write goroutine of
\* its own beside those that are left.
Redial(i) ==
    /\ Lost(i)
    /\ Dial
    /\ conns' = [conns EXCEPT ![i] = dialled']
    /\ writers' = [writers EXCEPT ![i] = @ + 1]
    /\ UNCHANGED <<starting, ended, calls, stray, streams, reader, tables,
                   cleaner>>

\* readProcess panics and recovers, closes its session and returns no error, and
\* with that run breaks out of its loop: the slot keeps its dead session and
\* the write goroutines that are left, and nobody dials for it again.
RunEnds(i) ==
    /\ conns[i] # NoConn /\ i \notin ended
    /\ conns[i] \in live => Spare
    /\ ended' = ended \cup {i}
    /\ live' = live \ {conns[i]}
    /\ pings' = PingsLeft(conns[i])
    /\ \/ UNCHANGED writers
       \/ conns[i] \in live /\ writers' = [writers EXCEPT ![i] = @ - 1]
    /\ UNCHANGED <<starting, conns, calls, dialled, stray, backlog, opened,
                   reader, tables, cleaner>>

NextSlot == (serial + 1) % Threads

\* What a write goroutine of slot i puts on its session: the stream shows at
\* the server with the first frame, and a ping is on its way.  QUIC's window is
\* larger than what all goroutines hold, so that writing never blocks.
PutOn(i, addresses) ==
    LET c == conns[i] IN
    /\ opened' = IF reader[c] = "none" THEN opened \cup {c} ELSE opened
    /\ pings' = [pings EXCEPT ![c] = @ \cup addresses]

\* Write: the next slot in turn.  What falls to a nil one is dropped.  On one
\* that is up a write goroutine takes it (a caller that waits a little there
\* until its session is lost is as one that comes after the loss); on one that
\* is down the caller blocks, since chanWrite has no buffer.
Write(g, addresses) ==
    /\ waiting[g] = NoSlot
    /\ serial' = NextSlot
    /\ IF conns[NextSlot] \in live
       THEN PutOn(NextSlot, addresses) ELSE UNCHANGED streams
    /\ waiting' = [waiting EXCEPT ![g] =
                      IF Down(NextSlot) THEN NextSlot ELSE NoSlot]

SendPacket(w) ==
    /\ starting = Threads
    /\ packets < MaxPackets
    /\ packets' = packets + 1
    /\ Write(w, {})
    /\ UNCHANGED <<pool, at, ping, network, backlog, reader, tables, cleaner>>

\* SendPing: the ping names the session the slot has now, and goes out on the
\* slot whose turn it is.
SendPing ==
    /\ starting = Threads
    /\ conns[at] # NoConn
    /\ Write(Pinger, {conns[at]})
    /\ ping' = IF Down(NextSlot) THEN conns[at] ELSE NoConn
    /\ at' = (at + 1) % Threads
    /\ UNCHANGED <<pool, packets, network, backlog, reader, tables, cleaner>>

\* Mutant of SkipPing: the round of pings ends at a nil slot.
SkipNothing ==
    /\ starting = Threads
    /\ conns[at] = NoConn /\ waiting[Pinger] = NoSlot
    /\ \E i \in Slot : conns[i] # NoConn
    /\ at' = 0
    /\ UNCHANGED <<pool, serial, waiting, ping, packets, network, backlog, streams,
                   reader, tables, cleaner>>

\* SendAllPing passes over a nil slot.
SkipPing ==
    /\ starting = Threads
    /\ conns[at] = NoConn /\ waiting[Pinger] = NoSlot
    /\ \E i \in Slot : conns[i] # NoConn
    /\ at' = (at + 1) % Threads
    /\ UNCHANGED <<pool, serial, waiting, ping, packets, network, backlog, streams,
                   reader, tables, cleaner>>

\* A write goroutine takes what g waits with and writes it to the session the
\* slot has by now.
Deliver(g) ==
    /\ waiting[g] # NoSlot
    /\ conns[waiting[g]] \in live /\ writers[waiting[g]] > 0
    /\ PutOn(waiting[g], IF g = Pinger THEN {ping} ELSE {})
    /\ waiting' = [waiting EXCEPT ![g] = NoSlot]
    /\ ping' = IF g = Pinger THEN NoConn ELSE ping
    /\ UNCHANGED <<pool, serial, at, packets, network, backlog, reader, tables,
                   cleaner>>

\* Mutant of DeliverLost: it takes no write goroutine to get rid of a packet.
DeliverLostAny(g) ==
    LET s == waiting[g] IN
    /\ s # NoSlot
    /\ conns[s] \notin live
    /\ waiting' = [waiting EXCEPT ![g] = NoSlot]
    /\ ping' = IF g = Pinger THEN NoConn ELSE ping
    /\ writers' = [writers EXCEPT ![s] = @ - 1]
    /\ UNCHANGED <<starting, conns, ended, serial, at, packets, network, backlog, streams,
                   reader, tables, cleaner>>

\* A write goroutine left over from a lost session takes it; it ends with an
\* error, or goes on when the loss is not noticed yet.  Where run has ended it
\* is noticed: readProcess has closed the session.
DeliverLost(g) ==
    LET s == waiting[g] IN
    /\ s # NoSlot /\ writers[s] > 0
    /\ conns[s] \notin live
    /\ waiting' = [waiting EXCEPT ![g] = NoSlot]
    /\ ping' = IF g = Pinger THEN NoConn ELSE ping
    /\ \/ s \notin ended /\ UNCHANGED writers
       \/ writers' = [writers EXCEPT ![s] = @ - 1]
    /\ UNCHANGED <<starting, conns, ended, serial, at, packets, network, backlog, streams,
                   reader, tables, cleaner>>

----------------------------------------------------------------------------
(* The accept loop of the server. *)

\* A stream exists for the server when something was written on it.
AcceptStream ==
    /\ backlog # <<>>
    /\ Head(backlog) \in opened
    /\ reader' = [reader EXCEPT ![Head(backlog)] = "read"]
    /\ opened' = opened \ {Head(backlog)}
    /\ backlog' = Tail(backlog)
    /\ UNCHANGED <<pool, calls, network, pings, tables, cleaner>>

\* Mutant of AcceptFail: the loop does not go on.
AcceptFailStuck ==
    /\ backlog # <<>>
    /\ Head(backlog) \notin live
    /\ UNCHANGED vars

AcceptFail ==
    /\ backlog # <<>>
    /\ Head(backlog) \notin live
    /\ opened' = opened \ {Head(backlog)}
    /\ backlog' = Tail(backlog)
    /\ UNCHANGED <<pool, calls, network, pings, reader, tables, cleaner>>

----------------------------------------------------------------------------
(* The readers of the server and the cleaner. *)

\* ServerOnData on a ping, first part: App.mutex is taken and the route added.
\* Pings under way are a set: a second ping with the same address changes
\* nothing, and their order is left open.
RecvPing(c, a) ==
    /\ reader[c] = "read" /\ handled.conn = NoConn
    /\ a \in pings[c]
    /\ pings' = [pings EXCEPT ![c] = @ \ {a}]
    /\ routes' = routes \cup {a}
    /\ handled' = Ping(c, a)
    /\ UNCHANGED <<pool, calls, network, backlog, opened, reader, Conns,
                   ConnsReverse, cleaner>>

\* Second part, with the mutex, which the cleaner does not take: SetConns.
Register ==
    /\ handled.conn # NoConn
    /\ Server!SetConns(handled.addr, handled.conn)
    /\ handled' = NoPing
    /\ UNCHANGED <<pool, calls, network, backlog, streams, reader, routes, cleaner>>

\* The end of the reader.
EndReader(c) ==
    /\ reader[c] = "read" /\ handled.conn # c
    /\ c \notin live
    /\ reader' = [reader EXCEPT ![c] = "dead"]
    /\ pings' = [pings EXCEPT ![c] = {}]
    /\ Server!RemoveConnByConnPointer(c)
    /\ UNCHANGED <<pool, calls, network, backlog, opened, handled, routes, cleaner>>

\* A route is in the table before its address is bound, and then it leads
\* nowhere; the bound is on how often the cleaner looks just then.
Early(a) == handled.addr = a

\* Mutant of Sweep: only a missing connection counts as dead.
SweepMissing(a) ==
    /\ cleaner.step = "sweep"
    /\ a \in routes /\ Conns[a] = NoConn /\ ~Early(a)
    /\ cleaner' = [cleaner EXCEPT !.step = "delroute", !.key = a]
    /\ UNCHANGED <<pool, calls, network, backlog, streams, reader, tables>>

Sweep(a) ==
    /\ cleaner.step = "sweep"
    /\ a \in routes /\ Server!Dead(a)
    /\ \/ /\ Early(a) /\ cleaner.early < MaxEarly
          /\ cleaner' = [step |-> "delroute", key |-> a, early |-> cleaner.early + 1]
       \/ /\ ~Early(a)
          /\ cleaner' = [cleaner EXCEPT !.step = "delroute", !.key = a]
    /\ UNCHANGED <<pool, calls, network, backlog, streams, reader, tables>>

DelRoute ==
    /\ cleaner.step = "delroute"
    /\ routes' = routes \ {cleaner.key}
    /\ cleaner' = [cleaner EXCEPT !.step = "delconn"]
    /\ UNCHANGED <<pool, calls, network, backlog, streams, reader, handled, Conns,
                   ConnsReverse>>

DelConn ==
    /\ cleaner.step = "delconn"
    /\ Server!DeleteDeadConn(cleaner.key)
    /\ cleaner' = [cleaner EXCEPT !.step = "sweep", !.key = NoConn]
    /\ UNCHANGED <<pool, calls, network, backlog, streams, reader, handled, routes>>

----------------------------------------------------------------------------
ClientStep ==
    \/ Connect \/ ConnectFail \/ SendPing \/ SkipPing
    \/ \E i \in Slot : Redial(i) \/ RunEnds(i)
    \/ \E w \in Worker : SendPacket(w)
    \/ \E g \in Goroutine : Deliver(g) \/ DeliverLost(g)

ServerStep ==
    \/ AcceptStream \/ AcceptFail
    \/ \E c, a \in Conn : RecvPing(c, a)
    \/ Register
    \/ \E c \in Conn : EndReader(c)
    \/ \E a \in Conn : Sweep(a)
    \/ DelRoute \/ DelConn

Next == ClientStep \/ ServerStep \/ StrayDial \/ \E c \in Conn : Lose(c)

Spec == Init /\ [][Next]_vars

(* Goroutines are scheduled, the server can be reached, a reader gets       *)
(* App.mutex when it keeps asking, and the cleaner comes to some dead route *)
(* when there are such again and again, in CleanSpec to every one of them.  *)
(* Nothing is assumed of the packets, of peers that never open their        *)
(* stream, or of losses and panics, which happen when they happen           *)
(* (MaxSessions makes them finite).                                         *)
Fairness ==
    /\ WF_vars(Connect \/ ConnectFail)
    /\ WF_vars(SendPing \/ SkipPing)
    /\ \A i \in Slot : WF_vars(Redial(i))
    /\ \A g \in Goroutine : WF_vars(Deliver(g) \/ DeliverLost(g))
    /\ WF_vars(AcceptStream \/ AcceptFail)
    /\ \A c \in Conn : SF_vars(\E a \in Conn : RecvPing(c, a))
    /\ WF_vars(Register)
    /\ \A c \in Conn : WF_vars(EndReader(c))
    /\ WF_vars(DelRoute \/ DelConn)

FairSpec == Spec /\ Fairness /\ SF_vars(\E a \in Conn : Sweep(a))
CleanSpec == Spec /\ Fairness /\ \A a \in Conn : SF_vars(Sweep(a))

----------------------------------------------------------------------------
(* Properties. *)

Established == {i \in Slot : conns[i] # NoConn}

\* A slot whose session is up has a write goroutine, however many of those left
\* over from its earlier sessions have ended meanwhile: nobody who writes there
\* waits for a reconnection.
UpHasWriter == \A i \in Slot : conns[i] \in live => writers[i] > 0

\* What ClientConn shows of one connection, of every slot of the pool.
L(i) == INSTANCE Line WITH
    Caller <- Goroutine, live <- conns[i] \in live, manned <- writers[i] > 0,
    waiting <- {g \in Goroutine : waiting[g] = i}

\* Every slot is a line, whatever the others do: a session is lost or replaced
\* in its own slot, and a goroutine that is blocked on a slot is released by a
\* write goroutine of that slot.
AreLines ==
    /\ \A i \in Slot : L(i)!LineInit
    /\ [][\A i \in Slot : [L(i)!LineNext]_(L(i)!line)]_vars

\* A packet for the client can be sent to it.
Reachable == \E a \in routes : ~Server!Dead(a) /\ Conns[a] \in live

\* The accept loop waits for a stream that may never come: nothing ends the
\* session of a peer that keeps it up.
HeldUp == backlog # <<>> /\ Head(backlog) \in live \cap stray

\* The cleaner is not about to delete the very address that is being handled.
Apart == handled.conn # NoConn /\ cleaner.step # "sweep" => cleaner.key # handled.addr

\* A client that has started with at least one connection is reachable, and is
\* again after every loss, while run goes on for every slot: whichever
\* connection carries its pings, whatever bindings are left from before and
\* whatever the cleaner deletes on old evidence.  This takes that the accept
\* loop is not held up for good and that the cleaner does not meet the pings
\* again and again.  With a nil slot it also needs that packets stop for a while
\* (here they are finite): in step with the pings they could leave the turns of
\* the nil slot to the pings, and every ping would be dropped.
ReachableAgain ==
    []<>~HeldUp /\ <>[]Apart =>
        (starting = Threads /\ Established # {}) ~> (Reachable \/ ended # {})

\* Nobody is blocked in Write for good on a slot whose run goes on: the slot is
\* connected again, and a write goroutine is there to take what waits.
CallersReleased ==
    \A g \in Goroutine : []<>(waiting[g] = NoSlot \/ waiting[g] \in ended)

\* The accept loop, which waits for the stream of one session before it looks
\* at the next, comes to every session of a client whose slots are all
\* connected, unless a stray peer holds it up for good: some goroutine writes
\* on each, while run goes on for every slot.
AllAccepted ==
    []<>~HeldUp =>
        (starting = Threads /\ Established = Slot) ~>
            (ended # {} \/ \A c \in live \ stray : reader[c] # "none")

\* Routes that lead to a lost connection are forgotten in the end, although
\* pings that name it may still be under way on other connections.  This is a
\* property of CleanSpec.
DeadRoutesForgotten == []<>(\A a \in routes : ~Server!Dead(a))
=============================================================================
