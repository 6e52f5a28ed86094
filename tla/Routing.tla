------------------------------ MODULE Routing ------------------------------
(* The routing state of the server: the route table of the application      *)
(* (routes, virtual IP -> connection addresses), the two connection maps of *)
(* the server (Conns, ConnsReverse), and everything that touches them: the  *)
(* read goroutine of each connection, the workers that take packets from    *)
(* the tun device, and the task that cleans the route table every minute.   *)
(*                                                                          *)
(* Two locks protect these maps, neither of them everywhere.  App.mutex is  *)
(* a variable because a reader holds it over several steps; the critical    *)
(* sections of Server.Mtx are single atomic steps.  The cleaner takes no    *)
(* App.mutex, and GetConnsByAddr takes no Server.Mtx.                       *)
EXTENDS FiniteSets, Naturals

CONSTANTS
    Vip,        \* virtual IPs of the clients (destinations of tun packets)
    Addr,       \* addresses announced in pings ("ip:port")
    Conn,       \* connections, one ServerConn each, never reused
    Worker,     \* goroutines running FetchAndProcessTunPkt
    Cleaner,    \* the timer goroutine running the CleanRoute task, or none
    NoConn, NoAddr, NoVip,
    AddrVip,    \* the virtual IP an address belongs to
    ConnVip,    \* the virtual IP of the client at the other end
    PingAddr    \* the addresses whose pings a connection may carry

Proc == Worker \cup Cleaner

\* A ping names the client's own virtual IP and a local address built from
\* it, whichever of the client's connections carries it.
ASSUME RoutingAssumption ==
    /\ AddrVip \in [Addr -> Vip]
    /\ ConnVip \in [Conn -> Vip]
    /\ PingAddr \in [Conn -> SUBSET Addr]
    /\ \A c \in Conn : \A a \in PingAddr[c] : AddrVip[a] = ConnVip[c]
    /\ NoConn \notin Conn /\ NoAddr \notin Addr /\ NoVip \notin Vip
    /\ Worker \cap Cleaner = {}

VARIABLES
    routes,        \* App.routes; a missing entry and an empty one are {}
    Conns,         \* Server.Conns; NoConn where the key is missing
    ConnsReverse,  \* Server.ConnsReverse; NoAddr where the key is missing
    isClosed,      \* ServerConn.isClosed
    mutex,         \* the connection whose reader holds App.mutex, or NoConn
    rpc,           \* where the read goroutine of each connection is
    paddr,         \* the address in the ping a reader is handling
    pc,            \* where each worker and the cleaner is
    job,           \* the destination, route key and connection it works on
    crashed        \* the Go runtime stopped the process (concurrent map use)

rvars == <<rpc, paddr>>
pvars == <<pc, job>>
maps  == <<routes, Conns, ConnsReverse>>
vars  == <<routes, Conns, ConnsReverse, isClosed, mutex, rpc, paddr, pc, job,
           crashed>>

Job(v, a, c) == [dst |-> v, key |-> a, conn |-> c]
NoJob == Job(NoVip, NoAddr, NoConn)

TypeOK ==
    /\ routes \in [Vip -> SUBSET Addr]
    /\ Conns \in [Addr -> Conn \cup {NoConn}]
    /\ ConnsReverse \in [Conn -> Addr \cup {NoAddr}]
    /\ isClosed \in [Conn -> BOOLEAN]
    /\ mutex \in Conn \cup {NoConn}
    /\ rpc \in [Conn -> {"idle", "read", "route", "register", "remove",
                         "close", "dead"}]
    /\ paddr \in [Conn -> Addr \cup {NoAddr}]
    /\ pc \in [Proc -> {"fetch", "lookup", "check", "delroute", "delconn",
                        "send"}]
    /\ job \in [Proc -> [dst : Vip \cup {NoVip}, key : Addr \cup {NoAddr},
                         conn : Conn \cup {NoConn}]]
    /\ \A p \in Proc : pc[p] = "send" => job[p].conn \in Conn
    /\ crashed \in BOOLEAN

NoRoutes == [v \in Vip |-> {}]
NoConns == [a \in Addr |-> NoConn]
NoReverse == [c \in Conn |-> NoAddr]
AllOpen == [c \in Conn |-> FALSE]
AllIdle == [c \in Conn |-> "idle"]
AllFetch == [p \in Proc |-> "fetch"]
NoJobs == [p \in Proc |-> NoJob]

Init ==
    /\ routes = NoRoutes /\ Conns = NoConns /\ ConnsReverse = NoReverse
    /\ isClosed = AllOpen /\ mutex = NoConn
    /\ rpc = AllIdle /\ paddr = NoReverse
    /\ pc = AllFetch /\ job = NoJobs
    /\ crashed = FALSE

----------------------------------------------------------------------------
(* The operations of the server's connection maps, each under Server.Mtx. *)

\* Mutants of SetConns: a connection is bound at one address only, or a later
\* connection takes a bound address over.
SetConnsOnce(a, c) ==
    IF Conns[a] = NoConn /\ ConnsReverse[c] = NoAddr
    THEN /\ Conns' = [Conns EXCEPT ![a] = c]
         /\ ConnsReverse' = [ConnsReverse EXCEPT ![c] = a]
    ELSE UNCHANGED <<Conns, ConnsReverse>>

SetConnsOverwrite(a, c) ==
    /\ Conns' = [Conns EXCEPT ![a] = c]
    /\ ConnsReverse' = [ConnsReverse EXCEPT ![c] = a]

\* SetConns: an address that is already bound stays bound as it is.
SetConns(a, c) ==
    IF Conns[a] = NoConn
    THEN /\ Conns' = [Conns EXCEPT ![a] = c]
         /\ ConnsReverse' = [ConnsReverse EXCEPT ![c] = a]
    ELSE UNCHANGED <<Conns, ConnsReverse>>

\* Mutant of DeleteDeadConn: the reverse map keeps its entry.
DeleteDeadConnOneMap(a) ==
    /\ Conns' = [Conns EXCEPT ![a] = NoConn]
    /\ UNCHANGED ConnsReverse

\* DeleteDeadConn: whatever the address is bound to by now is forgotten.
DeleteDeadConn(a) ==
    /\ Conns' = [Conns EXCEPT ![a] = NoConn]
    /\ ConnsReverse' = [c \in Conn |-> IF c = Conns[a] THEN NoAddr
                                       ELSE ConnsReverse[c]]

\* Mutant of RemoveConnByConnPointer: only the reverse map is cleaned.
RemoveReverseOnly(c) ==
    /\ ConnsReverse' = [ConnsReverse EXCEPT ![c] = NoAddr]
    /\ UNCHANGED Conns

\* RemoveConnByConnPointer: only the last address of the connection is known.
RemoveConnByConnPointer(c) ==
    /\ Conns' = [a \in Addr |-> IF a = ConnsReverse[c] THEN NoConn
                                ELSE Conns[a]]
    /\ ConnsReverse' = [ConnsReverse EXCEPT ![c] = NoAddr]

\* Mutants of the test on a looked-up connection: a missing one counts as
\* alive (a nil pointer is then used), or the worker trusts the map alone.
DeadIfClosed(a) == IF Conns[a] = NoConn THEN FALSE ELSE isClosed[Conns[a]]
DeadIfMissing(a) == Conns[a] = NoConn

\* GetConnsByAddr, without the lock, and the test made on its result.
Dead(a) == IF Conns[a] = NoConn THEN TRUE ELSE isClosed[Conns[a]]

----------------------------------------------------------------------------
(* The read goroutine of a connection, and the failure of its writer. *)

\* Where a goroutine is, in a process that has not been stopped.
ReaderAt(c, label) == ~crashed /\ rpc[c] = label
At(p, label) == ~crashed /\ pc[p] = label

Accept(c) ==
    /\ ReaderAt(c, "idle")
    /\ rpc' = [rpc EXCEPT ![c] = "read"]
    /\ UNCHANGED <<maps, isClosed, mutex, paddr, pvars, crashed>>

\* ServerOnData on a ping: App.mutex is taken first.  A closed connection may
\* still hold buffered frames.
RecvPing(c, a) ==
    /\ ReaderAt(c, "read")
    /\ mutex = NoConn
    /\ mutex' = c
    /\ rpc' = [rpc EXCEPT ![c] = "route"]
    /\ paddr' = [paddr EXCEPT ![c] = a]
    /\ UNCHANGED <<maps, isClosed, pvars, crashed>>

AddRoute(c) ==
    /\ ReaderAt(c, "route")
    /\ routes' = [routes EXCEPT ![ConnVip[c]] = @ \cup {paddr[c]}]
    /\ rpc' = [rpc EXCEPT ![c] = "register"]
    /\ UNCHANGED <<Conns, ConnsReverse, isClosed, mutex, paddr, pvars, crashed>>

Register(c) ==
    /\ ReaderAt(c, "register")
    /\ SetConns(paddr[c], c)
    /\ mutex' = NoConn
    /\ rpc' = [rpc EXCEPT ![c] = "read"]
    /\ paddr' = [paddr EXCEPT ![c] = NoAddr]
    /\ UNCHANGED <<routes, isClosed, pvars, crashed>>

\* A read error, a frame sealed with another key, or a panic in the handler.
ReadFail(c) ==
    /\ ReaderAt(c, "read")
    /\ rpc' = [rpc EXCEPT ![c] = "remove"]
    /\ UNCHANGED <<maps, isClosed, mutex, paddr, pvars, crashed>>

Remove(c) ==
    /\ ReaderAt(c, "remove")
    /\ RemoveConnByConnPointer(c)
    /\ rpc' = [rpc EXCEPT ![c] = "close"]
    /\ UNCHANGED <<routes, isClosed, mutex, paddr, pvars, crashed>>

CloseConn(c) ==
    /\ ReaderAt(c, "close")
    /\ isClosed' = [isClosed EXCEPT ![c] = TRUE]
    /\ rpc' = [rpc EXCEPT ![c] = "dead"]
    /\ UNCHANGED <<maps, mutex, paddr, pvars, crashed>>

\* The write goroutine ends with an error at a time of its own.
WriterFail(c) ==
    /\ ~crashed /\ rpc[c] # "idle" /\ ~isClosed[c]
    /\ isClosed' = [isClosed EXCEPT ![c] = TRUE]
    /\ UNCHANGED <<maps, mutex, rvars, pvars, crashed>>

----------------------------------------------------------------------------
(* The workers: FetchAndProcessTunPkt in server mode. *)

Fetch(w, v) ==
    /\ At(w, "fetch")
    /\ pc' = [pc EXCEPT ![w] = "lookup"]
    /\ job' = [job EXCEPT ![w] = Job(v, NoAddr, NoConn)]
    /\ UNCHANGED <<maps, isClosed, mutex, rvars, crashed>>

\* Mutant of LookupKey: the key is drawn from the routes of any client.
LookupAnyKey(w, a) ==
    /\ At(w, "lookup")
    /\ mutex = NoConn
    /\ \E v \in Vip : a \in routes[v]
    /\ pc' = [pc EXCEPT ![w] = "check"]
    /\ job' = [job EXCEPT ![w] = Job(job[w].dst, a, NoConn)]
    /\ UNCHANGED <<maps, isClosed, mutex, rvars, crashed>>

\* The keys are copied under App.mutex and one is drawn after the unlock.
LookupKey(w, a) ==
    /\ At(w, "lookup")
    /\ mutex = NoConn
    /\ a \in routes[job[w].dst]
    /\ pc' = [pc EXCEPT ![w] = "check"]
    /\ job' = [job EXCEPT ![w] = Job(job[w].dst, a, NoConn)]
    /\ UNCHANGED <<maps, isClosed, mutex, rvars, crashed>>

LookupDrop(w) ==
    /\ At(w, "lookup")
    /\ mutex = NoConn
    /\ routes[job[w].dst] = {}
    /\ pc' = [pc EXCEPT ![w] = "fetch"]
    /\ job' = [job EXCEPT ![w] = NoJob]
    /\ UNCHANGED <<maps, isClosed, mutex, rvars, crashed>>

\* The lock-free look at the connection, by a worker or by the cleaner.
CheckDead(p) ==
    /\ At(p, "check")
    /\ Dead(job[p].key)
    /\ pc' = [pc EXCEPT ![p] = "delroute"]
    /\ UNCHANGED <<maps, isClosed, mutex, rvars, job, crashed>>

CheckAlive(p) ==
    /\ At(p, "check")
    /\ ~Dead(job[p].key)
    /\ IF p \in Worker
       THEN /\ pc' = [pc EXCEPT ![p] = "send"]
            /\ job' = [job EXCEPT ![p] =
                          Job(job[p].dst, NoAddr, Conns[job[p].key])]
       ELSE /\ pc' = [pc EXCEPT ![p] = "fetch"]
            /\ job' = [job EXCEPT ![p] = NoJob]
    /\ UNCHANGED <<maps, isClosed, mutex, rvars, crashed>>

\* Mutants of DelRoute: the lock is not taken; the route is not deleted.
DelRouteUnlocked(p) ==
    /\ At(p, "delroute")
    /\ routes' = [routes EXCEPT ![job[p].dst] = @ \ {job[p].key}]
    /\ pc' = [pc EXCEPT ![p] = "delconn"]
    /\ UNCHANGED <<Conns, ConnsReverse, isClosed, mutex, rvars, job, crashed>>

DelRouteSkipped(p) ==
    /\ At(p, "delroute")
    /\ p \in Worker => mutex = NoConn
    /\ pc' = [pc EXCEPT ![p] = "delconn"]
    /\ UNCHANGED <<maps, isClosed, mutex, rvars, job, crashed>>

\* A worker deletes the route under App.mutex, the cleaner without it.
DelRoute(p) ==
    /\ At(p, "delroute")
    /\ p \in Worker => mutex = NoConn
    /\ routes' = [routes EXCEPT ![job[p].dst] = @ \ {job[p].key}]
    /\ pc' = [pc EXCEPT ![p] = "delconn"]
    /\ UNCHANGED <<Conns, ConnsReverse, isClosed, mutex, rvars, job, crashed>>

\* The worker tries the next route, the cleaner goes on with its sweep.
DelConn(p) ==
    /\ At(p, "delconn")
    /\ DeleteDeadConn(job[p].key)
    /\ IF p \in Worker
       THEN /\ pc' = [pc EXCEPT ![p] = "lookup"]
            /\ job' = [job EXCEPT ![p] = Job(job[p].dst, NoAddr, NoConn)]
       ELSE /\ pc' = [pc EXCEPT ![p] = "fetch"]
            /\ job' = [job EXCEPT ![p] = NoJob]
    /\ UNCHANGED <<routes, isClosed, mutex, rvars, crashed>>

Send(w) ==
    /\ At(w, "send")
    /\ pc' = [pc EXCEPT ![w] = "fetch"]
    /\ job' = [job EXCEPT ![w] = NoJob]
    /\ UNCHANGED <<maps, isClosed, mutex, rvars, crashed>>

(* The cleaner: a sweep visits the routes in the unspecified order of a map *)
(* iteration, seeing or not what is added meanwhile; sweeps follow one      *)
(* another, so any present route may be the next one it looks at.           *)
Sweep(p, v, a) ==
    /\ At(p, "fetch")
    /\ a \in routes[v]
    /\ pc' = [pc EXCEPT ![p] = "check"]
    /\ job' = [job EXCEPT ![p] = Job(v, a, NoConn)]
    /\ UNCHANGED <<maps, isClosed, mutex, rvars, crashed>>

----------------------------------------------------------------------------
(* Go maps are not safe for concurrent use: the runtime may stop the whole  *)
(* process when a lock-free access meets a write of the same map, unless it  *)
(* finds the map empty, where it returns at once.  The memory is gone then,  *)
(* so every stopped process looks the same.                                  *)

\* A step of somebody else that writes Conns may be in progress.
ConnsWrite(p) ==
    \/ \E c \in Conn : rpc[c] = "register" /\ Conns[paddr[c]] = NoConn
    \/ \E c \in Conn : rpc[c] = "remove" /\ ConnsReverse[c] # NoAddr
    \/ \E q \in Proc \ {p} : pc[q] = "delconn" /\ Conns[job[q].key] # NoConn

\* Somebody holding App.mutex may be using the route set of v.
RouteUse(v) ==
    \/ \E c \in Conn : rpc[c] = "route" /\ ConnVip[c] = v
    \/ /\ mutex = NoConn
       /\ \E w \in Worker : pc[w] \in {"lookup", "delroute"} /\ job[w].dst = v

\* Somebody holding App.mutex may be writing the route set of v.
RouteWrite(v) ==
    \/ \E c \in Conn : rpc[c] = "route" /\ ConnVip[c] = v
    \/ /\ mutex = NoConn
       /\ \E w \in Worker : pc[w] = "delroute" /\ job[w].dst = v

Stopped ==
    /\ ~crashed
    /\ crashed' = TRUE
    /\ routes' = NoRoutes /\ Conns' = NoConns /\ ConnsReverse' = NoReverse
    /\ isClosed' = AllOpen /\ mutex' = NoConn
    /\ rpc' = AllIdle /\ paddr' = NoReverse
    /\ pc' = AllFetch /\ job' = NoJobs

\* GetConnsByAddr reads Conns while a binding is made or deleted.
ConnsFault ==
    /\ Conns # NoConns
    /\ \E p \in Proc : pc[p] = "check" /\ ConnsWrite(p)
    /\ Stopped

\* The cleaner deletes from a route set, or iterates over the routes, while
\* somebody who holds App.mutex uses or writes them.
RoutesFault ==
    /\ routes # NoRoutes
    /\ \/ \E p \in Cleaner : /\ pc[p] = "delroute" /\ routes[job[p].dst] # {}
                             /\ RouteUse(job[p].dst)
       \/ \E p \in Cleaner : pc[p] = "fetch" /\ \E v \in Vip : RouteWrite(v)
    /\ Stopped

MapFault == ConnsFault \/ RoutesFault

\* A stopped process stays stopped.
Halted == crashed /\ UNCHANGED vars

----------------------------------------------------------------------------
ReaderStep(c) ==
    \/ \E a \in PingAddr[c] : RecvPing(c, a)
    \/ Accept(c) \/ AddRoute(c) \/ Register(c)
    \/ ReadFail(c) \/ Remove(c) \/ CloseConn(c)
    \/ WriterFail(c)

WorkerStep(w) ==
    \/ \E v \in Vip : Fetch(w, v)
    \/ \E a \in Addr : LookupKey(w, a)
    \/ LookupDrop(w) \/ Send(w)

CleanerStep(p) == \E v \in Vip : \E a \in Addr : Sweep(p, v, a)

PurgeStep(p) == CheckDead(p) \/ CheckAlive(p) \/ DelRoute(p) \/ DelConn(p)

Next ==
    \/ \E c \in Conn : ReaderStep(c)
    \/ \E w \in Worker : WorkerStep(w)
    \/ \E p \in Cleaner : CleanerStep(p)
    \/ \E p \in Proc : PurgeStep(p)
    \/ MapFault \/ Halted

Spec == Init /\ [][Next]_vars

(* Goroutines are scheduled and mutexes are fair in the long run.  Nothing  *)
(* is assumed of the network, of the tun device or of failures, nor of Send: *)
(* a peer that does not read may hold a worker in SendPacket for ever.       *)
(* Sweeps come back every minute and visit every route that stays.  A       *)
(* session that was closed holds finitely many frames, then reading fails.  *)
Fairness ==
    /\ \A c \in Conn :
          /\ WF_vars(AddRoute(c) \/ Register(c))
          /\ WF_vars(Remove(c) \/ CloseConn(c))
          /\ SF_vars(isClosed[c] /\ ReadFail(c))
    /\ \A w \in Worker :
          SF_vars(LookupDrop(w) \/ \E a \in Addr : LookupKey(w, a))
    /\ \A p \in Proc :
          /\ WF_vars(CheckDead(p) \/ CheckAlive(p))
          /\ SF_vars(DelRoute(p))
          /\ WF_vars(DelConn(p))
    /\ \A p \in Cleaner : \A v \in Vip : \A a \in Addr : SF_vars(Sweep(p, v, a))

FairSpec == Spec /\ Fairness

----------------------------------------------------------------------------
(* Safety *)

\* A packet for a virtual IP is only ever handed to a connection of the
\* client that announced this IP, however stale the worker's route key is.
NoMisdelivery ==
    \A w \in Worker : pc[w] = "send" => ConnVip[job[w].conn] = job[w].dst

\* The reverse map never lies: the address it gives for a connection is bound
\* to that very connection, whatever readers, workers and cleaner interleave.
ReverseSound ==
    \A c \in Conn : ConnsReverse[c] # NoAddr => Conns[ConnsReverse[c]] = c

\* For a client with a single connection address, the two maps stay inverse
\* of each other, so a connection whose reader cleaned up is bound nowhere.
SoleAddressClean ==
    \A c \in Conn : \A a \in Addr : PingAddr[c] = {a} =>
        /\ Conns[a] = c <=> ConnsReverse[c] = a
        /\ rpc[c] \in {"close", "dead"} => \A b \in Addr : Conns[b] # c

\* While a reader handles a ping, from the lock to the binding, nobody but that
\* reader changes the routes, neither another reader nor a worker that purges
\* one: only the cleaner, which takes no App.mutex, gets in between.
PingUndisturbed ==
    [][\A c \in Conn : rpc[c] \in {"route", "register"} /\ routes' # routes =>
          \/ rpc[c] = "route" /\ rpc'[c] = "register"
          \/ \E p \in Cleaner : pc[p] = "delroute" /\ pc'[p] = "delconn"
          \/ crashed']_vars

\* The cleanup of one connection's reader never unbinds another connection.
RemoveSparesOthers ==
    [][\A c \in Conn : rpc[c] = "remove" /\ rpc'[c] = "close" =>
          \A a \in Addr : Conns'[a] # Conns[a] => Conns[a] = c]_vars

----------------------------------------------------------------------------
(* Liveness, under FairSpec *)

ClientGone(v) == \A c \in Conn : ConnVip[c] = v => rpc[c] = "dead"

\* When every connection of a client has ended, its routes are all cleaned.
DeadRoutesPurged ==
    \A v \in Vip : ClientGone(v) ~> (routes[v] = {} \/ crashed)

\* A dead connection that is still bound at a routed address is unbound in
\* the end, so that a new connection can take the address over.
ZombieCollected ==
    \A c \in Conn : \A a \in Addr :
        (Conns[a] = c /\ rpc[c] = "dead" /\ a \in routes[AddrVip[a]])
            ~> (Conns[a] # c \/ crashed)

\* Once no ping is being handled any more, a worker never retries forever: it
\* drops the packet it took, or finds a connection to hand it to.  Whether that
\* connection takes it is another matter.
PacketsDisposed ==
    <>[](\A c \in Conn : rpc[c] \notin {"route", "register"})
        => \A w \in Worker :
              pc[w] = "lookup" ~> (pc[w] \in {"send", "fetch"} \/ crashed)

Routed(a) ==
    a \in routes[AddrVip[a]] /\ Conns[a] # NoConn /\ ~isClosed[Conns[a]]

\* Nobody deletes an address, on what was found before, while a ping about it is
\* being handled.
Apart(a) ==
    ~\E c \in Conn : \E p \in Proc :
        /\ rpc[c] \in {"route", "register"} /\ paddr[c] = a
        /\ pc[p] \in {"delroute", "delconn"} /\ job[p].key = a

\* Whatever mess the lock-free deletions of the cleaner have left (a binding
\* without a route, a route without a binding, an address that SetConns leaves
\* to a connection that is dead by now), a client whose connection stays up and
\* goes on announcing an address comes to be routed for good, once such deletions
\* no longer meet its pings.
Settles ==
    \A a \in Addr :
        /\ []<>\E c \in Conn : rpc[c] = "register" /\ paddr[c] = a /\ ~isClosed[c]
        /\ <>[]Apart(a)
        => <>[]Routed(a)

----------------------------------------------------------------------------
(* What the comments and the log lines of the code say *)

\* server.go:166 says of the lock-free read of Conns "No need to add lock".
NoConnsFault == [][~ConnsFault]_vars

\* server.go:188 logs what DeleteDeadConn deletes as "delete dead conn".
OnlyDeadDeleted ==
    [][\A p \in Proc : pc[p] = "delconn" /\ pc'[p] # "delconn" /\ ~crashed' =>
          \A a \in Addr : Conns'[a] # Conns[a] => isClosed[Conns[a]]]_vars
=============================================================================
