--------------------------- MODULE RoutingProofs ---------------------------
(* Proofs about Routing, for any clients, connections, workers and cleaner. *)
(* RouteInv carries the types and what links routes, pings, bindings and    *)
(* worker jobs to a client; ReverseSound, SoleAddressClean and              *)
(* BoundHasRoute are proved on top of it, each inductive relative to it.    *)
EXTENDS Routing, TLAPS

----------------------------------------------------------------------------
(* The inductive invariant for types and delivery. *)

\* A busy worker or cleaner has a destination; the route key it works on is an
\* address of that destination.
JobOK ==
    \A p \in Proc :
        /\ pc[p] # "fetch" => job[p].dst \in Vip
        /\ pc[p] \in {"check", "delroute", "delconn"} =>
              job[p].key \in Addr /\ AddrVip[job[p].key] = job[p].dst

\* A reader handles the ping of an address its connection may carry.
PingOK ==
    \A c \in Conn : rpc[c] \in {"route", "register"} => paddr[c] \in PingAddr[c]

\* The routes to a virtual IP are addresses of that IP.
RoutesOK == \A v \in Vip : \A a \in routes[v] : AddrVip[a] = v

\* An address is bound to a connection that carried a ping for it.
BindingOK ==
    \A a \in Addr : Conns[a] # NoConn => a \in PingAddr[Conns[a]]

\* TypeOK in three parts: the maps, the readers, and the workers.
MapTypes ==
    /\ routes \in [Vip -> SUBSET Addr]
    /\ Conns \in [Addr -> Conn \cup {NoConn}]
    /\ ConnsReverse \in [Conn -> Addr \cup {NoAddr}]

ReaderTypes ==
    /\ isClosed \in [Conn -> BOOLEAN]
    /\ mutex \in Conn \cup {NoConn}
    /\ rpc \in [Conn -> {"idle", "read", "route", "register", "remove",
                         "close", "dead"}]
    /\ paddr \in [Conn -> Addr \cup {NoAddr}]
    /\ crashed \in BOOLEAN

ProcTypes ==
    /\ pc \in [Proc -> {"fetch", "lookup", "check", "delroute", "delconn",
                        "send"}]
    /\ job \in [Proc -> [dst : Vip \cup {NoVip}, key : Addr \cup {NoAddr},
                         conn : Conn \cup {NoConn}]]
    /\ \A p \in Proc : pc[p] = "send" => job[p].conn \in Conn

RouteInv ==
    /\ TypeOK /\ JobOK /\ PingOK
    /\ RoutesOK /\ BindingOK /\ NoMisdelivery

----------------------------------------------------------------------------
LEMMA TypeParts == TypeOK <=> MapTypes /\ ReaderTypes /\ ProcTypes
  BY Zenon DEF TypeOK, MapTypes, ReaderTypes, ProcTypes

LEMMA TypePartsNext == TypeOK' <=> (MapTypes /\ ReaderTypes /\ ProcTypes)'
  BY Zenon DEF TypeOK, MapTypes, ReaderTypes, ProcTypes

LEMMA RouteInvInit == Init => RouteInv
  <1> SUFFICES ASSUME Init PROVE RouteInv
    OBVIOUS
  <1> USE RoutingAssumption DEF Init, NoRoutes, NoConns, NoReverse, AllOpen,
        AllIdle, AllFetch, NoJobs, NoJob, Job
  <1>1. TypeOK
    BY DEF TypeOK
  <1>2. JobOK /\ PingOK /\ RoutesOK /\ BindingOK /\ NoMisdelivery
    BY DEF JobOK, PingOK, RoutesOK, BindingOK, NoMisdelivery, Proc
  <1> QED
    BY <1>1, <1>2 DEF RouteInv

\* SetConns binds an address to a connection or leaves the maps alone.
LEMMA SetConnsMaps ==
  ASSUME Conns \in [Addr -> Conn \cup {NoConn}],
         ConnsReverse \in [Conn -> Addr \cup {NoAddr}],
         NEW a \in Addr, NEW c \in Conn, SetConns(a, c)
  PROVE  /\ Conns' \in [Addr -> Conn \cup {NoConn}]
         /\ ConnsReverse' \in [Conn -> Addr \cup {NoAddr}]
         /\ \A b \in Addr : \/ Conns'[b] = Conns[b]
                            \/ b = a /\ Conns'[b] = c
  <1>1. CASE Conns[a] = NoConn
    BY <1>1 DEF SetConns
  <1>2. CASE Conns[a] # NoConn
    BY <1>2 DEF SetConns
  <1> QED
    BY <1>1, <1>2

\* Every step of Routing preserves RouteInv.
LEMMA RouteInvStep ==
  ASSUME RouteInv, [Next]_vars
  PROVE  RouteInv'
  <1> USE RoutingAssumption
      DEF ReaderAt, At, RouteInv, TypeOK, JobOK, PingOK, RoutesOK,
          BindingOK, NoMisdelivery, maps, rvars, pvars, Proc, Job, NoJob
  <1>1. ASSUME NEW c \in Conn, Accept(c)
        PROVE  RouteInv'
    <2>1. TypeOK'
      BY <1>1 DEF Accept
    <2>2. (JobOK /\ PingOK)'
      BY <1>1 DEF Accept
    <2>3. (RoutesOK /\ BindingOK /\ NoMisdelivery)'
      BY <1>1 DEF Accept
    <2> QED
      BY <2>1, <2>2, <2>3
  <1>2. ASSUME NEW c \in Conn, NEW a \in PingAddr[c], RecvPing(c, a)
        PROVE  RouteInv'
    BY <1>2 DEF RecvPing
  <1>3. ASSUME NEW c \in Conn, AddRoute(c)
        PROVE  RouteInv'
    BY <1>3 DEF AddRoute
  <1>4. ASSUME NEW c \in Conn, Register(c)
        PROVE  RouteInv'
    <2>1. /\ SetConns(paddr[c], c) /\ rpc[c] = "register" /\ mutex' = NoConn
          /\ rpc' = [rpc EXCEPT ![c] = "read"]
          /\ paddr' = [paddr EXCEPT ![c] = NoAddr]
          /\ UNCHANGED <<routes, isClosed, pvars, crashed>>
      BY <1>4 DEF Register
    <2>2. paddr[c] \in Addr /\ paddr[c] \in PingAddr[c]
      BY <2>1
    <2>3. /\ Conns' \in [Addr -> Conn \cup {NoConn}]
          /\ ConnsReverse' \in [Conn -> Addr \cup {NoAddr}]
          /\ \A a \in Addr : \/ Conns'[a] = Conns[a]
                             \/ a = paddr[c] /\ Conns'[a] = c
      BY <2>1, <2>2, SetConnsMaps
    <2>4. BindingOK'
      BY <2>2, <2>3
    <2>5. TypeOK'
      <3>1. MapTypes /\ ReaderTypes /\ ProcTypes
        BY TypeParts
      <3> HIDE DEF RouteInv, TypeOK, JobOK, PingOK, RoutesOK, BindingOK,
                   NoMisdelivery, Proc
      <3>2. MapTypes'
        BY <2>1, <2>3, <3>1 DEF MapTypes
      <3>3. ReaderTypes'
        BY <2>1, <3>1 DEF ReaderTypes
      <3>4. ProcTypes'
        BY <2>1, <3>1 DEF ProcTypes
      <3> QED
        BY <3>2, <3>3, <3>4, TypePartsNext
    <2>6. PingOK'
      <3> SUFFICES ASSUME NEW d \in Conn, rpc'[d] \in {"route", "register"}
                   PROVE  paddr'[d] \in PingAddr[d]
        OBVIOUS
      <3>1. d # c /\ rpc'[d] = rpc[d] /\ paddr'[d] = paddr[d]
        BY <2>1
      <3> QED
        BY <3>1
    <2>7. JobOK' /\ RoutesOK' /\ NoMisdelivery'
      BY <2>1
    <2> QED
      BY <2>4, <2>5, <2>6, <2>7
  <1>5. ASSUME NEW c \in Conn, ReadFail(c)
        PROVE  RouteInv'
    BY <1>5 DEF ReadFail
  <1>6. ASSUME NEW c \in Conn, Remove(c)
        PROVE  RouteInv'
    BY <1>6 DEF Remove, RemoveConnByConnPointer
  <1>7. ASSUME NEW c \in Conn, CloseConn(c)
        PROVE  RouteInv'
    BY <1>7 DEF CloseConn
  <1>8. ASSUME NEW c \in Conn, WriterFail(c)
        PROVE  RouteInv'
    BY <1>8 DEF WriterFail
  <1>9. ASSUME NEW w \in Worker, NEW v \in Vip, Fetch(w, v)
        PROVE  RouteInv'
    BY <1>9 DEF Fetch
  <1>10. ASSUME NEW w \in Worker, NEW a \in Addr, LookupKey(w, a)
         PROVE  RouteInv'
    BY <1>10 DEF LookupKey
  <1>11. ASSUME NEW w \in Worker, LookupDrop(w)
         PROVE  RouteInv'
    BY <1>11 DEF LookupDrop
  <1>12. ASSUME NEW w \in Worker, Send(w)
         PROVE  RouteInv'
    BY <1>12 DEF Send
  <1>13. ASSUME NEW p \in Cleaner, NEW v \in Vip, NEW a \in Addr, Sweep(p, v, a)
         PROVE  RouteInv'
    BY <1>13 DEF Sweep
  <1>14. ASSUME NEW p \in Proc, CheckDead(p)
         PROVE  RouteInv'
    BY <1>14 DEF CheckDead
  <1>15. ASSUME NEW p \in Proc, CheckAlive(p)
         PROVE  RouteInv'
    <2>1. /\ job[p].key \in Addr /\ job[p].dst \in Vip
          /\ Conns[job[p].key] \in Conn
          /\ ConnVip[Conns[job[p].key]] = job[p].dst
      BY <1>15 DEF CheckAlive, Dead
    <2>2. CASE p \in Worker
      <3>1. /\ pc' = [pc EXCEPT ![p] = "send"]
            /\ job' = [job EXCEPT ![p] =
                          Job(job[p].dst, NoAddr, Conns[job[p].key])]
            /\ UNCHANGED <<maps, isClosed, mutex, rvars, crashed>>
        BY <1>15, <2>2 DEF CheckAlive
      <3>2. job'[p].conn \in Conn
            /\ job' \in [Proc -> [dst : Vip \cup {NoVip}, key : Addr \cup {NoAddr},
                                  conn : Conn \cup {NoConn}]]
        BY <2>1, <3>1
      <3>3. \A q \in Proc : pc'[q] = "send" => job'[q].conn \in Conn
        BY <3>1, <3>2
      <3>4. TypeOK'
        BY <3>1, <3>2, <3>3
      <3> QED
        BY <2>1, <3>1, <3>4
    <2>3. CASE p \notin Worker
      <3>1. /\ pc' = [pc EXCEPT ![p] = "fetch"]
            /\ job' = [job EXCEPT ![p] = NoJob]
            /\ UNCHANGED <<maps, isClosed, mutex, rvars, crashed>>
        BY <1>15, <2>3 DEF CheckAlive
      <3>2. TypeOK'
        BY <3>1
      <3>3. JobOK' /\ NoMisdelivery'
        BY <3>1, <2>3
      <3> QED
        BY <3>1, <3>2, <3>3
    <2> QED
      BY <2>2, <2>3
  <1>16. ASSUME NEW p \in Proc, DelRoute(p)
         PROVE  RouteInv'
    BY <1>16 DEF DelRoute
  <1>17. ASSUME NEW p \in Proc, DelConn(p)
         PROVE  RouteInv'
    <2>1. /\ DeleteDeadConn(job[p].key) /\ pc[p] = "delconn"
          /\ UNCHANGED <<routes, isClosed, mutex, rvars, crashed>>
      BY <1>17 DEF DelConn
    <2>2. \/ /\ pc' = [pc EXCEPT ![p] = "lookup"]
             /\ job' = [job EXCEPT ![p] = Job(job[p].dst, NoAddr, NoConn)]
          \/ /\ pc' = [pc EXCEPT ![p] = "fetch"]
             /\ job' = [job EXCEPT ![p] = NoJob]
      BY <1>17 DEF DelConn
    <2>3. /\ Conns' \in [Addr -> Conn \cup {NoConn}]
          /\ ConnsReverse' \in [Conn -> Addr \cup {NoAddr}]
      BY <2>1 DEF DeleteDeadConn
    <2>4. /\ pc' \in [Proc -> {"fetch", "lookup", "check", "delroute",
                              "delconn", "send"}]
          /\ job' \in [Proc -> [dst : Vip \cup {NoVip}, key : Addr \cup {NoAddr},
                               conn : Conn \cup {NoConn}]]
          /\ \A q \in Proc : q # p => pc'[q] = pc[q] /\ job'[q] = job[q]
          /\ pc'[p] \in {"lookup", "fetch"}
          /\ pc'[p] = "lookup" => job'[p].dst = job[p].dst
      <3>1. CASE /\ pc' = [pc EXCEPT ![p] = "lookup"]
                 /\ job' = [job EXCEPT ![p] = Job(job[p].dst, NoAddr, NoConn)]
        BY <3>1
      <3>2. CASE /\ pc' = [pc EXCEPT ![p] = "fetch"]
                 /\ job' = [job EXCEPT ![p] = NoJob]
        BY <3>2
      <3> QED
        BY <2>2, <3>1, <3>2
    <2>5. \A q \in Proc : pc'[q] = "send" => job'[q].conn \in Conn
      BY <2>4
    <2>6. TypeOK'
      <3>1. MapTypes /\ ReaderTypes
        BY TypeParts
      <3> HIDE DEF RouteInv, TypeOK, JobOK, PingOK, RoutesOK, BindingOK,
                   NoMisdelivery, Proc
      <3>2. MapTypes'
        BY <2>1, <2>3, <3>1 DEF MapTypes
      <3>3. ReaderTypes'
        BY <2>1, <3>1 DEF ReaderTypes
      <3>4. ProcTypes'
        BY <2>4, <2>5, Zenon DEF ProcTypes
      <3> QED
        BY <3>2, <3>3, <3>4, TypePartsNext
    <2>7. JobOK'
      <3> SUFFICES ASSUME NEW q \in Proc
                   PROVE  JobOK!(q)'
        BY Zenon DEF JobOK
      <3>1. CASE q = p
        BY <2>1, <2>4, <3>1
      <3>2. CASE q # p
        BY <2>4, <3>2
      <3> QED
        BY <3>1, <3>2
    <2>8. NoMisdelivery'
      BY <2>4
    <2>9. (PingOK /\ RoutesOK /\ BindingOK)'
      BY <2>1 DEF DeleteDeadConn
    <2> QED
      BY <2>6, <2>7, <2>8, <2>9
  <1>18. CASE MapFault
    <2>1. Stopped
      BY <1>18 DEF MapFault, ConnsFault, RoutesFault
    <2> QED
      BY <2>1 DEF Stopped, NoRoutes, NoConns, NoReverse, AllOpen, AllIdle,
                  AllFetch, NoJobs
  <1>19. CASE UNCHANGED vars
    BY <1>19 DEF vars
  <1> QED
    BY <1>1, <1>2, <1>3, <1>4, <1>5, <1>6, <1>7, <1>8, <1>9, <1>10, <1>11,
       <1>12, <1>13, <1>14, <1>15, <1>16, <1>17, <1>18, <1>19
    DEF Next, ReaderStep, WorkerStep, CleanerStep, PurgeStep, Halted

LEMMA RouteInvariance == Spec => []RouteInv
  BY RouteInvInit, RouteInvStep, PTL DEF Spec

----------------------------------------------------------------------------
\* The values of the variables always have their types; a worker that sends
\* holds a connection, never the nil that GetConnsByAddr may return.
THEOREM TypeCorrect == Spec => []TypeOK
  BY RouteInvariance, PTL DEF RouteInv

\* A packet leaves only over a connection of the client it is addressed to.
THEOREM Delivery == Spec => []NoMisdelivery
  BY RouteInvariance, PTL DEF RouteInv

----------------------------------------------------------------------------
(* The reverse map. *)

LEMMA ReverseInit == Init => ReverseSound
  BY DEF Init, NoReverse, ReverseSound

\* The steps that change a binding of an address.
LEMMA BindingSteps ==
  ASSUME [Next]_vars
  PROVE  \/ UNCHANGED <<Conns, ConnsReverse>>
         \/ \E c \in Conn : Register(c) \/ Remove(c)
         \/ \E p \in Proc : DelConn(p)
         \/ MapFault
  BY DEF Next, ReaderStep, WorkerStep, CleanerStep, PurgeStep, Halted,
     vars, maps, Accept, RecvPing, AddRoute, ReadFail, CloseConn, WriterFail,
     Fetch, LookupKey, LookupDrop, Send, Sweep, CheckDead, CheckAlive, DelRoute

\* Every step of Routing preserves ReverseSound.
LEMMA ReverseStep ==
  ASSUME RouteInv, ReverseSound, [Next]_vars
  PROVE  ReverseSound'
  <1> USE RoutingAssumption
      DEF ReaderAt, At, RouteInv, TypeOK, PingOK, JobOK, ReverseSound
  <1>1. CASE UNCHANGED <<Conns, ConnsReverse>>
    BY <1>1
  <1>2. ASSUME NEW c \in Conn, Register(c)
        PROVE  ReverseSound'
    BY <1>2 DEF Register, SetConns
  <1>3. ASSUME NEW c \in Conn, Remove(c)
        PROVE  ReverseSound'
    BY <1>3 DEF Remove, RemoveConnByConnPointer
  <1>4. ASSUME NEW p \in Proc, DelConn(p)
        PROVE  ReverseSound'
    BY <1>4 DEF DelConn, DeleteDeadConn
  <1>5. CASE MapFault
    BY <1>5 DEF MapFault, ConnsFault, RoutesFault, Stopped, NoConns, NoReverse
  <1> QED
    BY BindingSteps, <1>1, <1>2, <1>3, <1>4, <1>5

LEMMA ReverseInvariance == Spec => [](RouteInv /\ ReverseSound)
  <1>1. Init => RouteInv /\ ReverseSound
    BY RouteInvInit, ReverseInit
  <1>2. RouteInv /\ ReverseSound /\ [Next]_vars => (RouteInv /\ ReverseSound)'
    BY RouteInvStep, ReverseStep
  <1> QED
    BY <1>1, <1>2, PTL DEF Spec

\* ConnsReverse never names an address that is bound to another connection.
THEOREM ReverseCorrect == Spec => []ReverseSound
  BY ReverseInvariance, PTL

\* The cleanup of a reader unbinds its own connection or nothing at all.
THEOREM CleanupIsLocal == Spec => RemoveSparesOthers
  <1> DEFINE Spares == \A c \in Conn : rpc[c] = "remove" /\ rpc'[c] = "close" =>
                          \A a \in Addr : Conns'[a] # Conns[a] => Conns[a] = c
  <1>1. ASSUME RouteInv, ReverseSound, [Next]_vars
        PROVE  [Spares]_vars
    <2> SUFFICES ASSUME NEW c \in Conn, rpc[c] = "remove", rpc'[c] = "close",
                        NEW a \in Addr, Conns'[a] # Conns[a]
                 PROVE  Conns[a] = c
      OBVIOUS
    <2>1. Remove(c)
      BY <1>1 DEF Next, ReaderStep, WorkerStep, CleanerStep, PurgeStep,
        Halted, vars, maps, rvars, pvars, RouteInv, TypeOK, Accept, RecvPing,
        AddRoute, Register, ReadFail, Remove, CloseConn, WriterFail, Fetch,
        LookupKey, LookupDrop, Send, Sweep, CheckDead, CheckAlive, DelRoute,
        DelConn, MapFault,
        ConnsFault, RoutesFault, Stopped, AllIdle
    <2>2. a = ConnsReverse[c]
      BY <2>1, <1>1 DEF Remove, RemoveConnByConnPointer, RouteInv, TypeOK
    <2> QED
      BY <2>2, <1>1, RoutingAssumption DEF ReverseSound
  <1> QED
    BY <1>1, ReverseInvariance, PTL DEF Spec, RemoveSparesOthers

\* Whatever is bound at an address stays bound until the reader of that very
\* connection cleans up, or somebody who found the address dead unbinds it; it
\* is unbound then, and never taken over by another connection in one step.
BindingsKept ==
    [][\A a \in Addr : Conns[a] # NoConn /\ Conns'[a] # Conns[a] =>
          /\ Conns'[a] = NoConn
          /\ \/ rpc[Conns[a]] = "remove"
             \/ \E p \in Proc : pc[p] = "delconn" /\ job[p].key = a
             \/ crashed']_vars

\* A ping never moves an address from one connection to another, alive or not
\* (the test at the head of SetConns): of the three operations of the maps only
\* the two that delete can end a binding, and each for a reason of its own.
THEOREM NoTakeOver == Spec => BindingsKept
  <1> DEFINE Kept ==
        \A a \in Addr : Conns[a] # NoConn /\ Conns'[a] # Conns[a] =>
          /\ Conns'[a] = NoConn
          /\ \/ rpc[Conns[a]] = "remove"
             \/ \E p \in Proc : pc[p] = "delconn" /\ job[p].key = a
             \/ crashed'
  <1>1. ASSUME RouteInv, ReverseSound, [Next]_vars
        PROVE  [Kept]_vars
    <2> SUFFICES ASSUME NEW a \in Addr, Conns[a] # NoConn, Conns'[a] # Conns[a]
                 PROVE  /\ Conns'[a] = NoConn
                        /\ \/ rpc[Conns[a]] = "remove"
                           \/ \E p \in Proc : pc[p] = "delconn" /\ job[p].key = a
                           \/ crashed'
      OBVIOUS
    <2>1. /\ Conns \in [Addr -> Conn \cup {NoConn}]
          /\ ConnsReverse \in [Conn -> Addr \cup {NoAddr}]
      BY <1>1 DEF RouteInv, TypeOK
    <2>2. ASSUME NEW c \in Conn, Register(c)
          PROVE  FALSE
      BY <1>1, <2>2 DEF Register, ReaderAt, SetConns, RouteInv, TypeOK
    <2>3. ASSUME NEW c \in Conn, Remove(c)
          PROVE  Conns'[a] = NoConn /\ rpc[Conns[a]] = "remove"
      <3>1. a = ConnsReverse[c] /\ Conns'[a] = NoConn
        BY <2>1, <2>3 DEF Remove, RemoveConnByConnPointer
      <3>2. Conns[a] = c
        BY <1>1, <3>1, RoutingAssumption DEF ReverseSound
      <3> QED
        BY <2>3, <3>1, <3>2 DEF Remove, ReaderAt
    <2>4. ASSUME NEW p \in Proc, DelConn(p)
          PROVE  Conns'[a] = NoConn /\ pc[p] = "delconn" /\ job[p].key = a
      BY <2>1, <2>4 DEF DelConn, DeleteDeadConn, At
    <2>5. CASE MapFault
      BY <2>5 DEF MapFault, ConnsFault, RoutesFault, Stopped, NoConns
    <2> QED
      BY <1>1, BindingSteps, <2>2, <2>3, <2>4, <2>5
  <1> QED
    BY <1>1, ReverseInvariance, PTL DEF Spec, BindingsKept

----------------------------------------------------------------------------
(* App.mutex. *)

\* A reader between Lock and Unlock holds App.mutex, so that there is one at a
\* time, and whoever holds it is there: no reader ends and leaves it locked.
HoldsMutex == \A c \in Conn : rpc[c] \in {"route", "register"} => mutex = c
MutexHeld == mutex # NoConn => rpc[mutex] \in {"route", "register"}

LEMMA MutexStep ==
  ASSUME RouteInv, HoldsMutex, MutexHeld, [Next]_vars
  PROVE  HoldsMutex' /\ MutexHeld'
  <1> USE RoutingAssumption DEF ReaderAt, RouteInv, TypeOK, HoldsMutex, MutexHeld,
        rvars
  <1>1. ASSUME NEW c \in Conn, ReaderStep(c)
        PROVE  HoldsMutex' /\ MutexHeld'
    <2>1. ASSUME NEW a \in PingAddr[c], RecvPing(c, a)
          PROVE  HoldsMutex' /\ MutexHeld'
      BY <2>1 DEF RecvPing
    <2>2. CASE Accept(c) \/ AddRoute(c) \/ Register(c)
      BY <2>2 DEF Accept, AddRoute, Register
    <2>3. CASE ReadFail(c) \/ Remove(c) \/ CloseConn(c) \/ WriterFail(c)
      BY <2>3 DEF ReadFail, Remove, CloseConn, WriterFail
    <2> QED
      BY <1>1, <2>1, <2>2, <2>3 DEF ReaderStep
  <1>2. CASE UNCHANGED <<mutex, rpc>>
    BY <1>2
  <1>3. CASE MapFault
    BY <1>3 DEF MapFault, ConnsFault, RoutesFault, Stopped, AllIdle
  <1>4. \/ \E c \in Conn : ReaderStep(c)
        \/ UNCHANGED <<mutex, rpc>> \/ MapFault
    BY DEF Next, WorkerStep, CleanerStep, PurgeStep, Halted, vars, Fetch,
       LookupKey, LookupDrop, Send, Sweep, CheckDead, CheckAlive, DelRoute,
       DelConn
  <1> QED
    BY <1>1, <1>2, <1>3, <1>4

LEMMA MutexInvariance == Spec => [](RouteInv /\ HoldsMutex /\ MutexHeld)
  <1>1. Init => RouteInv /\ HoldsMutex /\ MutexHeld
    BY RouteInvInit DEF Init, AllIdle, HoldsMutex, MutexHeld
  <1>2. RouteInv /\ HoldsMutex /\ MutexHeld /\ [Next]_vars
          => (RouteInv /\ HoldsMutex /\ MutexHeld)'
    BY RouteInvStep, MutexStep
  <1> QED
    BY <1>1, <1>2, PTL DEF Spec

\* The critical section of a ping excludes every other, and ends with its
\* reader still there to unlock: a worker that waits for App.mutex waits for
\* somebody (ServerOnData), with the cleaner running or not.
THEOREM MutexSound == Spec => [](HoldsMutex /\ MutexHeld)
  BY MutexInvariance, PTL

\* The steps that change the routes.
LEMMA RouteSteps ==
  ASSUME [Next]_vars
  PROVE  \/ UNCHANGED routes
         \/ \E c \in Conn : AddRoute(c)
         \/ \E p \in Proc : DelRoute(p)
         \/ crashed'
  <1>1. ASSUME NEW c \in Conn, ReaderStep(c)
        PROVE  UNCHANGED routes \/ AddRoute(c)
    BY <1>1 DEF ReaderStep, Accept, RecvPing, Register, ReadFail, Remove,
       CloseConn, WriterFail, maps
  <1>2. ASSUME NEW p \in Proc, PurgeStep(p)
        PROVE  UNCHANGED routes \/ DelRoute(p)
    BY <1>2 DEF PurgeStep, CheckDead, CheckAlive, DelConn, maps
  <1>3. CASE MapFault
    BY <1>3 DEF MapFault, ConnsFault, RoutesFault, Stopped
  <1>4. CASE Halted \/ UNCHANGED vars
    BY <1>4 DEF Halted, vars
  <1>5. CASE \/ \E w \in Worker : WorkerStep(w)
             \/ \E p \in Cleaner : CleanerStep(p)
    BY <1>5 DEF WorkerStep, CleanerStep, Fetch, LookupKey, LookupDrop, Send,
       Sweep, maps
  <1> QED
    BY <1>1, <1>2, <1>3, <1>4, <1>5 DEF Next

\* App.mutex makes the handling of a ping one unit for readers and workers, and
\* that is all it does: the steps that can come between its route and its
\* binding and change the routes are those of the cleaner (ServerOnData,
\* FetchAndProcessTunPkt, CleanRoute).
THEOREM OnlyCleanerDisturbs == Spec => PingUndisturbed
  <1> DEFINE Undisturbed ==
        \A c \in Conn : rpc[c] \in {"route", "register"} /\ routes' # routes =>
          \/ rpc[c] = "route" /\ rpc'[c] = "register"
          \/ \E p \in Cleaner : pc[p] = "delroute" /\ pc'[p] = "delconn"
          \/ crashed'
  <1>1. ASSUME RouteInv, HoldsMutex, [Next]_vars
        PROVE  [Undisturbed]_vars
    <2> SUFFICES ASSUME NEW c \in Conn, rpc[c] \in {"route", "register"},
                        routes' # routes
                 PROVE  \/ rpc[c] = "route" /\ rpc'[c] = "register"
                        \/ \E p \in Cleaner : pc[p] = "delroute" /\ pc'[p] = "delconn"
                        \/ crashed'
      OBVIOUS
    <2>1. mutex = c /\ mutex # NoConn
      BY <1>1, RoutingAssumption DEF HoldsMutex
    <2>2. ASSUME NEW d \in Conn, AddRoute(d)
          PROVE  rpc[c] = "route" /\ rpc'[c] = "register"
      <3>1. d = c
        BY <1>1, <2>1, <2>2 DEF AddRoute, ReaderAt, HoldsMutex
      <3> QED
        BY <1>1, <2>2, <3>1 DEF AddRoute, ReaderAt, RouteInv, TypeOK
    <2>3. ASSUME NEW p \in Proc, DelRoute(p)
          PROVE  p \in Cleaner /\ pc[p] = "delroute" /\ pc'[p] = "delconn"
      <3>1. p \in Cleaner
        BY <2>1, <2>3 DEF DelRoute, Proc
      <3> QED
        BY <1>1, <2>3, <3>1 DEF DelRoute, At, RouteInv, TypeOK
    <2> QED
      BY <1>1, <2>2, <2>3, RouteSteps
  <1> QED
    BY <1>1, MutexInvariance, PTL DEF Spec, PingUndisturbed

----------------------------------------------------------------------------
(* Clients with one connection address. *)

\* A read goroutine gets past its cleanup by its own Remove and no other step.
LEMMA EndSteps ==
  ASSUME RouteInv, [Next]_vars, NEW c \in Conn,
         rpc'[c] \in {"close", "dead"}, rpc[c] \notin {"close", "dead"}
  PROVE  Remove(c)
  <1>1. rpc \in [Conn -> {"idle", "read", "route", "register", "remove",
                         "close", "dead"}]
    BY DEF RouteInv, TypeOK
  <1>2. \/ \E d \in Conn : ReaderStep(d)
        \/ rpc' = rpc \/ rpc' = AllIdle
    BY DEF Next, WorkerStep, CleanerStep, PurgeStep, Halted, vars, rvars, Fetch,
       LookupKey, LookupDrop, Send, Sweep, CheckDead, CheckAlive, DelRoute,
       DelConn, MapFault, ConnsFault, RoutesFault, Stopped
  <1>3. PICK d \in Conn : ReaderStep(d)
    BY <1>2 DEF AllIdle
  <1> QED
    BY <1>1, <1>3 DEF ReaderStep, Accept, RecvPing, AddRoute, Register, ReadFail,
       Remove, CloseConn, WriterFail, rvars, ReaderAt

LEMMA SoleInit == Init => SoleAddressClean
  BY RoutingAssumption
  DEF Init, NoConns, NoReverse, AllIdle, SoleAddressClean

\* Every step of Routing preserves SoleAddressClean.
LEMMA SoleStep ==
  ASSUME RouteInv, ReverseSound, SoleAddressClean, [Next]_vars
  PROVE  SoleAddressClean'
  <1> SUFFICES ASSUME NEW c \in Conn, NEW a \in Addr, PingAddr[c] = {a}
               PROVE  /\ Conns'[a] = c <=> ConnsReverse'[c] = a
                      /\ rpc'[c] \in {"close", "dead"} =>
                            \A b \in Addr : Conns'[b] # c
    BY DEF SoleAddressClean
  <1>1. /\ Conns[a] = c <=> ConnsReverse[c] = a
        /\ rpc[c] \in {"close", "dead"} => \A b \in Addr : Conns[b] # c
        /\ \A b \in Addr : Conns[b] = c => b = a
    BY RoutingAssumption DEF SoleAddressClean, RouteInv, BindingOK
  <1> USE RoutingAssumption
      DEF ReaderAt, At, RouteInv, TypeOK, PingOK, JobOK, ReverseSound
  <1>2. CASE UNCHANGED <<Conns, ConnsReverse>>
    <2>1. CASE rpc'[c] \in {"close", "dead"} /\ rpc[c] \notin {"close", "dead"}
      BY <1>1, <1>2, <2>1, EndSteps DEF Remove, RemoveConnByConnPointer
    <2> QED
      BY <1>1, <1>2, <2>1
  <1>3. ASSUME NEW d \in Conn, Register(d)
        PROVE  /\ Conns'[a] = c <=> ConnsReverse'[c] = a
               /\ rpc'[c] \in {"close", "dead"} => \A b \in Addr : Conns'[b] # c
    BY <1>1, <1>3 DEF Register, SetConns
  <1>4. ASSUME NEW d \in Conn, Remove(d)
        PROVE  /\ Conns'[a] = c <=> ConnsReverse'[c] = a
               /\ rpc'[c] \in {"close", "dead"} => \A b \in Addr : Conns'[b] # c
    BY <1>1, <1>4 DEF Remove, RemoveConnByConnPointer
  <1>5. ASSUME NEW p \in Proc, DelConn(p)
        PROVE  /\ Conns'[a] = c <=> ConnsReverse'[c] = a
               /\ rpc'[c] \in {"close", "dead"} => \A b \in Addr : Conns'[b] # c
    BY <1>1, <1>5 DEF DelConn, DeleteDeadConn, rvars
  <1>6. CASE MapFault
    BY <1>6 DEF MapFault, ConnsFault, RoutesFault, Stopped, NoConns, NoReverse, AllIdle
  <1> QED
    BY BindingSteps, <1>2, <1>3, <1>4, <1>5, <1>6

\* With one address per connection the reader's cleanup is complete: nothing
\* stays bound to the connection.
THEOREM SoleAddressCorrect == Spec => []SoleAddressClean
  <1>1. Init => RouteInv /\ ReverseSound /\ SoleAddressClean
    BY RouteInvInit, ReverseInit, SoleInit
  <1>2. RouteInv /\ ReverseSound /\ SoleAddressClean /\ [Next]_vars
          => (RouteInv /\ ReverseSound /\ SoleAddressClean)'
    BY RouteInvStep, ReverseStep, SoleStep
  <1> QED
    BY <1>1, <1>2, PTL DEF Spec
=============================================================================
