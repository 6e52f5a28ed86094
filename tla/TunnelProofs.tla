---------------------------- MODULE TunnelProofs ----------------------------
(* Proofs about Tunnel, for any size of the pool, any number of workers and *)
(* any bounds.                                                              *)
EXTENDS Tunnel, SequenceTheorems, TLAPS

----------------------------------------------------------------------------
(* The inductive invariant. *)

PoolTypes ==
    /\ starting \in 0 .. Threads
    /\ conns \in [Slot -> Conn \cup {NoConn}]
    /\ writers \in [Slot -> 0 .. MaxSessions]
    /\ ended \subseteq Slot

CallTypes ==
    /\ serial \in Slot
    /\ waiting \in [Goroutine -> Slot \cup {NoSlot}]
    /\ at \in Slot /\ ping \in Conn \cup {NoConn}
    /\ packets \in 0 .. MaxPackets

NetTypes ==
    /\ dialled \in 0 .. MaxSessions
    /\ live \subseteq 1 .. dialled /\ stray \subseteq 1 .. dialled
    /\ backlog \in Seq(1 .. dialled)

StreamTypes ==
    /\ opened \subseteq 1 .. dialled
    /\ pings \in [Conn -> SUBSET Conn]

ServerTypes ==
    /\ reader \in [Conn -> {"none", "read", "dead"}]
    /\ handled \in [conn : Conn \cup {NoConn}, addr : Conn \cup {NoConn}]
    /\ handled.conn # NoConn => handled.addr # NoConn
    /\ routes \subseteq Conn
    /\ Conns \in [Conn -> Conn \cup {NoConn}]
    /\ ConnsReverse \in [Conn -> Conn \cup {NoConn}]
    /\ cleaner \in [step : {"sweep", "delroute", "delconn"},
                    key : Conn \cup {NoConn}, early : 0 .. MaxEarly]

\* A slot has a session that was dialled, and no more write goroutines than
\* sessions were dialled: each came with a session.
Dialled == \A i \in Slot : conns[i] <= dialled /\ writers[i] <= dialled

\* Who is blocked with a ping has an address to put into it.
PingNamed == waiting[Pinger] # NoSlot => ping # NoConn

\* Start has not yet come to the slots from the one it is at on.
NotYet == \A i \in Slot : i >= starting => conns[i] = NoConn

IInv ==
    /\ PoolTypes /\ CallTypes /\ NetTypes /\ StreamTypes /\ ServerTypes
    /\ Dialled /\ NotYet /\ PingNamed /\ UpHasWriter

LEMMA IInvTypes == IInv => TypeOK
  BY DEF IInv, TypeOK, PoolTypes, CallTypes, NetTypes, StreamTypes, ServerTypes

----------------------------------------------------------------------------
(* Lemmas. *)

LEMMA Modulo ==
  ASSUME NEW p \in Nat \ {0}, NEW x \in Nat
  PROVE  x % p \in 0 .. p - 1
  BY SMT

LEMMA SlotNumbers == Slot \subseteq Nat /\ NoSlot \notin Slot /\ 0 \in Slot
  BY TunnelAssumption DEF Slot, NoSlot

\* The slot whose turn is next is one of the pool.
LEMMA NextInPool ==
  ASSUME CallTypes
  PROVE  NextSlot \in Slot /\ (at + 1) % Threads \in Slot
  <1>1. serial + 1 \in Nat /\ at + 1 \in Nat
    BY SlotNumbers DEF CallTypes
  <1> QED
    BY <1>1, Modulo, TunnelAssumption DEF NextSlot, Slot

\* A session that is up was dialled and is one of those there can be.
LEMMA LiveIsConn ==
  ASSUME NetTypes
  PROVE  live \subseteq Conn /\ dialled \in Nat
  BY TunnelAssumption DEF NetTypes, Conn

\* What a dial leaves as it should be.
LEMMA DialTypes ==
  ASSUME NetTypes, StreamTypes, Dial, UNCHANGED streams,
         stray' \subseteq stray \cup {dialled'}
  PROVE  /\ NetTypes' /\ StreamTypes'
         /\ dialled' = dialled + 1 /\ dialled' \in Conn
         /\ live' = live \cup {dialled'}
  <1>1. /\ dialled' = dialled + 1 /\ dialled' \in Conn
        /\ dialled \in Nat /\ dialled' \in 0 .. MaxSessions
    BY TunnelAssumption DEF NetTypes, Dial, Conn
  <1>2. 1 .. dialled \subseteq 1 .. dialled' /\ dialled' \in 1 .. dialled'
    BY <1>1
  <1>3. live' \subseteq 1 .. dialled' /\ stray' \subseteq 1 .. dialled'
    BY <1>2 DEF NetTypes, Dial
  <1>4. backlog \in Seq(1 .. dialled')
    BY <1>2, SeqMonotonic DEF NetTypes
  <1>5. backlog' \in Seq(1 .. dialled')
    BY <1>2, <1>4 DEF Dial
  <1>6. StreamTypes'
    BY <1>2 DEF StreamTypes, streams
  <1> QED
    BY <1>1, <1>3, <1>5, <1>6 DEF NetTypes, Dial

\* What is put on a session that is up.
LEMMA PutTypes ==
  ASSUME NetTypes, PoolTypes, StreamTypes, NEW i \in Slot, conns[i] \in live,
         NEW addresses \in SUBSET Conn, PutOn(i, addresses), dialled' = dialled
  PROVE  StreamTypes'
  <1>1. conns[i] \in 1 .. dialled /\ conns[i] \in Conn
    BY LiveIsConn DEF NetTypes
  <1>2. opened' \subseteq 1 .. dialled
    BY <1>1 DEF PutOn, StreamTypes
  <1>3. pings' \in [Conn -> SUBSET Conn]
    BY <1>1 DEF PutOn, StreamTypes
  <1> QED
    BY <1>2, <1>3 DEF StreamTypes

\* A step that leaves the pool and the sessions alone keeps what is said of them.
LEMMA SamePool ==
  ASSUME IInv, UNCHANGED <<pool, network, backlog>>
  PROVE  PoolTypes' /\ NetTypes' /\ Dialled' /\ NotYet' /\ UpHasWriter'
  BY DEF IInv, PoolTypes, NetTypes, Dialled, NotYet, UpHasWriter, pool, network

LEMMA SameServer ==
  ASSUME IInv, UNCHANGED <<reader, tables, cleaner>>
  PROVE  ServerTypes'
  BY DEF IInv, ServerTypes, tables

LEMMA SameStreams ==
  ASSUME IInv, UNCHANGED <<streams, dialled>>
  PROVE  StreamTypes'
  BY DEF IInv, StreamTypes, streams

LEMMA SameCalls ==
  ASSUME IInv, UNCHANGED calls
  PROVE  CallTypes' /\ PingNamed'
  BY DEF IInv, CallTypes, PingNamed, calls

----------------------------------------------------------------------------
(* Sessions. *)

\* What the end of a session leaves as it should be, lost or given up.
LEMMA SessionEnds ==
  ASSUME IInv, NEW c \in Conn, NEW i \in Slot,
         live' = live \ {c}, pings' = PingsLeft(c),
         ended' \subseteq Slot,
         UNCHANGED <<starting, conns, calls, dialled, stray, backlog, opened,
                     reader, tables, cleaner>>,
         \/ UNCHANGED writers
         \/ /\ conns[i] = c /\ c \in live
            /\ writers' = [writers EXCEPT ![i] = @ - 1]
  PROVE  IInv'
  <1>1. CallTypes' /\ PingNamed' /\ ServerTypes'
    BY SameCalls, SameServer
  <1>2. NetTypes'
    BY DEF IInv, NetTypes
  <1>3. pings' \in [Conn -> SUBSET Conn]
    BY DEF PingsLeft, IInv, StreamTypes
  <1>4. StreamTypes'
    BY <1>3 DEF IInv, StreamTypes
  <1>5. /\ writers' \in [Slot -> 0 .. MaxSessions]
        /\ \A j \in Slot : writers'[j] <= dialled
        /\ \A j \in Slot : conns[j] # c => writers'[j] = writers[j]
    <2>1. CASE UNCHANGED writers
      BY <2>1 DEF IInv, PoolTypes, Dialled
    <2>2. CASE /\ conns[i] = c /\ c \in live
               /\ writers' = [writers EXCEPT ![i] = @ - 1]
      <3>1. writers[i] > 0
        BY <2>2 DEF IInv, UpHasWriter
      <3>2. writers[i] - 1 \in 0 .. MaxSessions /\ writers[i] - 1 <= dialled
        BY <3>1, TunnelAssumption DEF IInv, PoolTypes, Dialled, NetTypes
      <3> QED
        BY <2>2, <3>2 DEF IInv, PoolTypes, Dialled
    <2> QED
      BY <2>1, <2>2
  <1>6. PoolTypes' /\ Dialled' /\ NotYet'
    BY <1>5 DEF IInv, PoolTypes, Dialled, NotYet
  <1>7. UpHasWriter'
    BY <1>5 DEF IInv, UpHasWriter
  <1> QED
    BY <1>1, <1>2, <1>4, <1>6, <1>7 DEF IInv

LEMMA LoseStep ==
  ASSUME IInv, NEW c \in Conn, Lose(c)
  PROVE  IInv'
  <1>1. /\ c \in live /\ live' = live \ {c} /\ pings' = PingsLeft(c)
        /\ UNCHANGED <<starting, conns, calls, dialled, stray, backlog, opened,
                       reader, tables, cleaner>>
        /\ ended' \subseteq Slot
    BY DEF Lose, IInv, PoolTypes
  <1>2. CASE UNCHANGED writers
    BY <1>1, <1>2, SlotNumbers, SessionEnds
  <1>3. ASSUME NEW i \in Slot, conns[i] = c,
               writers' = [writers EXCEPT ![i] = @ - 1]
        PROVE  IInv'
    BY <1>1, <1>3, SessionEnds
  <1> QED
    BY <1>2, <1>3 DEF Lose

LEMMA RunEndsStep ==
  ASSUME IInv, NEW i \in Slot, RunEnds(i)
  PROVE  IInv'
  <1>1. conns[i] \in Conn
    BY DEF RunEnds, IInv, PoolTypes
  <1>2. /\ live' = live \ {conns[i]} /\ pings' = PingsLeft(conns[i])
        /\ UNCHANGED <<starting, conns, calls, dialled, stray, backlog, opened,
                       reader, tables, cleaner>>
        /\ ended' \subseteq Slot
        /\ \/ UNCHANGED writers
           \/ conns[i] \in live /\ writers' = [writers EXCEPT ![i] = @ - 1]
    BY DEF RunEnds, IInv, PoolTypes
  <1> QED
    BY <1>1, <1>2, SessionEnds

LEMMA StrayDialStep ==
  ASSUME IInv, StrayDial
  PROVE  IInv'
  <1>1. CallTypes' /\ PingNamed' /\ ServerTypes'
    BY SameCalls, SameServer DEF StrayDial
  <1>2. UNCHANGED <<starting, conns, writers, ended>>
    BY DEF StrayDial, pool
  <1>3. /\ NetTypes' /\ StreamTypes' /\ dialled' = dialled + 1
        /\ live' = live \cup {dialled'}
    BY DialTypes DEF StrayDial, IInv
  <1>4. dialled \in Nat
    BY LiveIsConn DEF IInv
  <1>5. \A j \in Slot : /\ conns[j] \in Nat /\ writers[j] \in Nat
                        /\ conns[j] <= dialled /\ writers[j] <= dialled
    BY DEF IInv, PoolTypes, Dialled, Conn, NoConn
  <1>6. PoolTypes' /\ Dialled' /\ NotYet'
    BY <1>2, <1>3, <1>4, <1>5 DEF IInv, PoolTypes, Dialled, NotYet
  <1>7. UpHasWriter'
    <2>1. \A j \in Slot : conns'[j] # dialled'
      BY <1>2, <1>3, <1>4, <1>5
    <2> QED
      BY <1>2, <1>3, <2>1 DEF IInv, UpHasWriter
  <1> QED
    BY <1>1, <1>3, <1>6, <1>7 DEF IInv

\* What becomes of the slot that gets the session that was dialled, and of the
\* others.
LEMMA SlotGets ==
  ASSUME IInv, Dial, NEW i \in Slot, NetTypes', dialled' = dialled + 1,
         live' = live \cup {dialled'}, dialled' \in Conn,
         conns' = [conns EXCEPT ![i] = dialled'],
         NEW n \in 1 .. dialled + 1,
         writers' = [writers EXCEPT ![i] = n]
  PROVE  /\ conns' \in [Slot -> Conn \cup {NoConn}]
         /\ writers' \in [Slot -> 0 .. MaxSessions]
         /\ Dialled' /\ UpHasWriter'
  <1>1. dialled \in Nat /\ dialled' <= MaxSessions
    BY LiveIsConn, TunnelAssumption DEF IInv, NetTypes
  <1>2. \A j \in Slot : /\ conns[j] \in Nat /\ writers[j] \in Nat
                        /\ conns[j] <= dialled /\ writers[j] <= dialled
    BY DEF IInv, PoolTypes, Dialled, Conn, NoConn
  <1>3. n \in 0 .. MaxSessions /\ n <= dialled' /\ n > 0
    BY <1>1, TunnelAssumption
  <1>4. conns' \in [Slot -> Conn \cup {NoConn}]
    BY DEF IInv, PoolTypes
  <1>5. writers' \in [Slot -> 0 .. MaxSessions]
    BY <1>3 DEF IInv, PoolTypes
  <1>6. \A j \in Slot :
           IF j = i THEN conns'[j] = dialled' /\ writers'[j] = n
                    ELSE conns'[j] = conns[j] /\ writers'[j] = writers[j]
    BY DEF IInv, PoolTypes
  <1>7. Dialled'
    BY <1>1, <1>2, <1>3, <1>6 DEF Dialled
  <1>8. UpHasWriter'
    BY <1>1, <1>2, <1>3, <1>6 DEF IInv, UpHasWriter
  <1> QED
    BY <1>4, <1>5, <1>7, <1>8

LEMMA ConnectStep ==
  ASSUME IInv, Connect
  PROVE  IInv'
  <1>1. CallTypes' /\ PingNamed' /\ ServerTypes'
    BY SameCalls, SameServer DEF Connect
  <1>2. /\ NetTypes' /\ StreamTypes' /\ dialled' = dialled + 1
        /\ live' = live \cup {dialled'} /\ dialled' \in Conn
    BY DialTypes DEF Connect, IInv
  <1>3. starting \in Slot /\ starting + 1 \in 0 .. Threads
    BY TunnelAssumption DEF Connect, IInv, PoolTypes, Slot
  <1>4. dialled \in Nat
    BY LiveIsConn DEF IInv
  <1>5. 1 \in 1 .. dialled + 1
    BY <1>4
  <1>6. /\ conns' \in [Slot -> Conn \cup {NoConn}]
        /\ writers' \in [Slot -> 0 .. MaxSessions]
        /\ Dialled' /\ UpHasWriter'
    BY <1>2, <1>3, <1>5, SlotGets DEF Connect
  <1>7. NotYet'
    BY <1>3, SlotNumbers DEF Connect, IInv, PoolTypes, NotYet
  <1> QED
    BY <1>1, <1>2, <1>3, <1>6, <1>7 DEF Connect, IInv, PoolTypes

LEMMA ConnectFailStep ==
  ASSUME IInv, ConnectFail
  PROVE  IInv'
  <1>1. CallTypes' /\ PingNamed' /\ ServerTypes'
    BY SameCalls, SameServer DEF ConnectFail
  <1>2. /\ starting' = starting + 1 /\ dialled' = dialled + 1
        /\ starting < Threads /\ dialled < MaxSessions
        /\ UNCHANGED <<conns, writers, ended, live, stray, backlog, opened, pings>>
    BY DEF ConnectFail, streams
  <1>3. dialled \in Nat /\ dialled' \in 0 .. MaxSessions
    BY <1>2, LiveIsConn, TunnelAssumption DEF IInv
  <1>4. 1 .. dialled \subseteq 1 .. dialled'
    BY <1>2, <1>3
  <1>5. NetTypes'
    BY <1>2, <1>3, <1>4, SeqMonotonic DEF IInv, NetTypes
  <1>6. StreamTypes'
    BY <1>2, <1>4 DEF IInv, StreamTypes
  <1>7. PoolTypes'
    BY <1>2, TunnelAssumption DEF IInv, PoolTypes
  <1>8. Dialled'
    <2>1. \A j \in Slot : conns[j] \in Nat /\ writers[j] \in Nat
      BY DEF IInv, PoolTypes, Conn, NoConn
    <2> QED
      BY <1>2, <1>3, <2>1 DEF IInv, Dialled
  <1>9. UpHasWriter'
    BY <1>2 DEF IInv, UpHasWriter
  <1>10. NotYet'
    BY <1>2, SlotNumbers DEF IInv, PoolTypes, NotYet
  <1> QED
    BY <1>1, <1>5, <1>6, <1>7, <1>8, <1>9, <1>10 DEF IInv

LEMMA RedialStep ==
  ASSUME IInv, NEW i \in Slot, Redial(i)
  PROVE  IInv'
  <1>1. CallTypes' /\ PingNamed' /\ ServerTypes'
    BY SameCalls, SameServer DEF Redial
  <1>2. /\ NetTypes' /\ StreamTypes' /\ dialled' = dialled + 1
        /\ live' = live \cup {dialled'} /\ dialled' \in Conn
    BY DialTypes DEF Redial, IInv
  <1>3. writers[i] + 1 \in 1 .. dialled + 1
    BY LiveIsConn DEF IInv, PoolTypes, Dialled
  <1>4. writers' = [writers EXCEPT ![i] = writers[i] + 1]
    BY DEF Redial
  <1>5. /\ conns' \in [Slot -> Conn \cup {NoConn}]
        /\ writers' \in [Slot -> 0 .. MaxSessions]
        /\ Dialled' /\ UpHasWriter'
    BY <1>2, <1>3, <1>4, SlotGets DEF Redial
  <1>6. NotYet'
    BY DEF Redial, Lost, Down, IInv, PoolTypes, NotYet
  <1> QED
    BY <1>1, <1>2, <1>5, <1>6 DEF Redial, IInv, PoolTypes

----------------------------------------------------------------------------
(* Writes. *)

\* What Write leaves behind, for addresses of sessions.
LEMMA WriteTypes ==
  ASSUME IInv, NEW g \in Goroutine, NEW addresses \in SUBSET Conn,
         Write(g, addresses), dialled' = dialled
  PROVE  /\ StreamTypes' /\ serial' \in Slot
         /\ waiting' \in [Goroutine -> Slot \cup {NoSlot}]
         /\ \A h \in Goroutine \ {g} : waiting'[h] = waiting[h]
         /\ waiting'[g] # NoSlot => Down(NextSlot)
  <1>1. NextSlot \in Slot
    BY NextInPool DEF IInv
  <1>2. StreamTypes'
    <2>1. CASE conns[NextSlot] \in live
      BY <2>1, <1>1, PutTypes DEF IInv, Write
    <2>2. CASE conns[NextSlot] \notin live
      BY <2>2, SameStreams DEF Write
    <2> QED
      BY <2>1, <2>2
  <1>3. /\ waiting' \in [Goroutine -> Slot \cup {NoSlot}]
        /\ \A h \in Goroutine \ {g} : waiting'[h] = waiting[h]
        /\ waiting'[g] = IF Down(NextSlot) THEN NextSlot ELSE NoSlot
    BY <1>1 DEF Write, IInv, CallTypes
  <1> QED
    BY <1>1, <1>2, <1>3 DEF Write

LEMMA SendPacketStep ==
  ASSUME IInv, NEW w \in Worker, SendPacket(w)
  PROVE  IInv'
  <1>1. /\ UNCHANGED <<pool, at, ping, network, backlog, reader, tables, cleaner>>
        /\ packets < MaxPackets /\ packets' = packets + 1 /\ Write(w, {})
    BY DEF SendPacket
  <1>2. dialled' = dialled
    BY <1>1 DEF network
  <1>3. w \in Goroutine /\ Pinger \in Goroutine /\ w # Pinger
    BY TunnelAssumption DEF Goroutine
  <1>4. PoolTypes' /\ NetTypes' /\ Dialled' /\ NotYet' /\ UpHasWriter' /\ ServerTypes'
    BY <1>1, SamePool, SameServer
  <1>5. /\ StreamTypes' /\ serial' \in Slot
        /\ waiting' \in [Goroutine -> Slot \cup {NoSlot}]
        /\ waiting'[Pinger] = waiting[Pinger]
    BY <1>1, <1>2, <1>3, WriteTypes
  <1>6. packets' \in 0 .. MaxPackets
    BY <1>1, TunnelAssumption DEF IInv, CallTypes
  <1> QED
    BY <1>1, <1>4, <1>5, <1>6 DEF IInv, CallTypes, PingNamed

LEMMA SendPingStep ==
  ASSUME IInv, SendPing
  PROVE  IInv'
  <1>1. /\ UNCHANGED <<pool, packets, network, backlog, reader, tables, cleaner>>
        /\ conns[at] # NoConn /\ Write(Pinger, {conns[at]})
        /\ ping' = IF Down(NextSlot) THEN conns[at] ELSE NoConn
        /\ at' = (at + 1) % Threads
    BY DEF SendPing
  <1>2. dialled' = dialled
    BY <1>1 DEF network
  <1>3. Pinger \in Goroutine
    BY DEF Goroutine
  <1>4. conns[at] \in Conn
    BY <1>1 DEF IInv, PoolTypes, CallTypes
  <1>5. PoolTypes' /\ NetTypes' /\ Dialled' /\ NotYet' /\ UpHasWriter' /\ ServerTypes'
    BY <1>1, SamePool, SameServer
  <1>6. /\ StreamTypes' /\ serial' \in Slot
        /\ waiting' \in [Goroutine -> Slot \cup {NoSlot}]
        /\ waiting'[Pinger] # NoSlot => Down(NextSlot)
    BY <1>1, <1>2, <1>3, <1>4, WriteTypes
  <1>7. at' \in Slot
    BY <1>1, NextInPool DEF IInv
  <1>8. ping' \in Conn \cup {NoConn} /\ PingNamed'
    BY <1>1, <1>4, <1>6 DEF PingNamed
  <1> QED
    BY <1>1, <1>5, <1>6, <1>7, <1>8 DEF IInv, CallTypes

LEMMA SkipPingStep ==
  ASSUME IInv, SkipPing
  PROVE  IInv'
  <1>1. /\ UNCHANGED <<pool, serial, waiting, ping, packets, network, backlog,
                       streams, reader, tables, cleaner>>
        /\ at' = (at + 1) % Threads
    BY DEF SkipPing
  <1>2. PoolTypes' /\ NetTypes' /\ Dialled' /\ NotYet' /\ UpHasWriter' /\ ServerTypes'
    BY <1>1, SamePool, SameServer
  <1>3. StreamTypes'
    BY <1>1, SameStreams DEF network
  <1>4. at' \in Slot
    BY <1>1, NextInPool DEF IInv
  <1> QED
    BY <1>1, <1>2, <1>3, <1>4 DEF IInv, CallTypes, PingNamed

\* Somebody who was blocked is released.
LEMMA ReleaseTypes ==
  ASSUME IInv, NEW g \in Goroutine, UNCHANGED <<serial, at, packets>>,
         waiting' = [waiting EXCEPT ![g] = NoSlot],
         ping' = IF g = Pinger THEN NoConn ELSE ping
  PROVE  CallTypes' /\ PingNamed'
  <1>1. waiting' \in [Goroutine -> Slot \cup {NoSlot}]
    BY DEF IInv, CallTypes
  <1>2. Pinger \in Goroutine
    BY DEF Goroutine
  <1>3. PingNamed'
    BY <1>2 DEF IInv, CallTypes, PingNamed
  <1> QED
    BY <1>1, <1>3 DEF IInv, CallTypes

LEMMA DeliverStep ==
  ASSUME IInv, NEW g \in Goroutine, Deliver(g)
  PROVE  IInv'
  <1>1. /\ UNCHANGED <<pool, network, backlog, reader, tables, cleaner>>
        /\ waiting[g] # NoSlot /\ conns[waiting[g]] \in live
        /\ PutOn(waiting[g], IF g = Pinger THEN {ping} ELSE {})
    BY DEF Deliver
  <1>2. waiting[g] \in Slot
    BY <1>1 DEF IInv, CallTypes
  <1>3. (IF g = Pinger THEN {ping} ELSE {}) \in SUBSET Conn
    BY <1>1 DEF IInv, CallTypes, PingNamed
  <1>4. StreamTypes'
    BY <1>1, <1>2, <1>3, PutTypes DEF IInv, network
  <1>5. PoolTypes' /\ NetTypes' /\ Dialled' /\ NotYet' /\ UpHasWriter' /\ ServerTypes'
    BY <1>1, SamePool, SameServer
  <1>6. CallTypes' /\ PingNamed'
    BY ReleaseTypes DEF Deliver
  <1> QED
    BY <1>4, <1>5, <1>6 DEF IInv

LEMMA DeliverLostStep ==
  ASSUME IInv, NEW g \in Goroutine, DeliverLost(g)
  PROVE  IInv'
  <1> DEFINE s == waiting[g]
  <1>1. /\ UNCHANGED <<starting, conns, ended, network, backlog, streams, reader,
                       tables, cleaner>>
        /\ s # NoSlot /\ writers[s] > 0 /\ conns[s] \notin live
        /\ \/ UNCHANGED writers
           \/ writers' = [writers EXCEPT ![s] = @ - 1]
    BY DEF DeliverLost
  <1>2. s \in Slot
    BY <1>1 DEF IInv, CallTypes
  <1> HIDE DEF s
  <1>3. writers[s] \in 0 .. MaxSessions /\ writers[s] <= dialled /\ dialled \in Nat
    BY <1>2, LiveIsConn DEF IInv, PoolTypes, Dialled
  <1>4. /\ writers' \in [Slot -> 0 .. MaxSessions]
        /\ \A j \in Slot : writers'[j] <= dialled
        /\ \A j \in Slot \ {s} : writers'[j] = writers[j]
    <2>1. CASE UNCHANGED writers
      BY <2>1 DEF IInv, PoolTypes, Dialled
    <2>2. CASE writers' = [writers EXCEPT ![s] = @ - 1]
      <3>1. writers[s] - 1 \in 0 .. MaxSessions /\ writers[s] - 1 <= dialled
        BY <1>1, <1>3, TunnelAssumption
      <3> QED
        BY <2>2, <3>1 DEF IInv, PoolTypes, Dialled
    <2> QED
      BY <1>1, <2>1, <2>2
  <1>5. PoolTypes' /\ Dialled' /\ NotYet'
    BY <1>1, <1>4 DEF IInv, PoolTypes, Dialled, NotYet, network
  <1>6. UpHasWriter'
    BY <1>1, <1>4 DEF IInv, UpHasWriter, network
  <1>7. NetTypes' /\ StreamTypes' /\ ServerTypes'
    <2>1. NetTypes'
      BY <1>1 DEF IInv, NetTypes, network
    <2> QED
      BY <2>1, <1>1, SameStreams, SameServer DEF network
  <1>8. CallTypes' /\ PingNamed'
    BY ReleaseTypes DEF DeliverLost
  <1> QED
    BY <1>5, <1>6, <1>7, <1>8 DEF IInv

----------------------------------------------------------------------------
(* The server. *)

LEMMA AcceptTypes ==
  ASSUME IInv, backlog # <<>>, UNCHANGED <<pool, calls, network, pings>>,
         opened' = opened \ {Head(backlog)}, backlog' = Tail(backlog)
  PROVE  /\ PoolTypes' /\ CallTypes' /\ NetTypes' /\ StreamTypes'
         /\ Dialled' /\ NotYet' /\ PingNamed' /\ UpHasWriter'
  <1>1. CallTypes' /\ PingNamed'
    BY SameCalls
  <1>2. PoolTypes' /\ Dialled' /\ NotYet' /\ UpHasWriter'
    BY DEF IInv, PoolTypes, Dialled, NotYet, UpHasWriter, pool, network
  <1>3. NetTypes'
    BY DEF IInv, NetTypes, network
  <1>4. StreamTypes'
    BY DEF IInv, StreamTypes, network
  <1> QED
    BY <1>1, <1>2, <1>3, <1>4

LEMMA AcceptStep ==
  ASSUME IInv, AcceptStream \/ AcceptFail
  PROVE  IInv'
  <1>1. /\ PoolTypes' /\ CallTypes' /\ NetTypes' /\ StreamTypes'
        /\ Dialled' /\ NotYet' /\ PingNamed' /\ UpHasWriter'
    BY AcceptTypes DEF AcceptStream, AcceptFail
  <1>2. /\ UNCHANGED <<tables, cleaner>>
        /\ reader' \in [Conn -> {"none", "read", "dead"}]
    BY DEF IInv, ServerTypes, AcceptStream, AcceptFail
  <1>3. ServerTypes'
    BY <1>2 DEF IInv, ServerTypes, tables
  <1> QED
    BY <1>1, <1>3 DEF IInv

\* The operations of the maps keep their types.
LEMMA MapTypes ==
  ASSUME ServerTypes, NEW a \in Conn, NEW c \in Conn,
         \/ Server!SetConns(a, c)
         \/ Server!RemoveConnByConnPointer(c)
  PROVE  /\ Conns' \in [Conn -> Conn \cup {NoConn}]
         /\ ConnsReverse' \in [Conn -> Conn \cup {NoConn}]
  BY DEF ServerTypes, Server!SetConns, Server!RemoveConnByConnPointer

LEMMA DeleteTypes ==
  ASSUME ServerTypes, NEW a, Server!DeleteDeadConn(a)
  PROVE  /\ Conns' \in [Conn -> Conn \cup {NoConn}]
         /\ ConnsReverse' \in [Conn -> Conn \cup {NoConn}]
  BY DEF ServerTypes, Server!DeleteDeadConn

LEMMA RecvPingStep ==
  ASSUME IInv, NEW c \in Conn, NEW a \in Conn, RecvPing(c, a)
  PROVE  IInv'
  <1>1. /\ UNCHANGED <<pool, calls, network, backlog, opened, reader, Conns,
                       ConnsReverse, cleaner>>
        /\ pings' = [pings EXCEPT ![c] = @ \ {a}]
        /\ routes' = routes \cup {a} /\ handled' = [conn |-> c, addr |-> a]
    BY DEF RecvPing, Ping
  <1>2. PoolTypes' /\ NetTypes' /\ Dialled' /\ NotYet' /\ UpHasWriter'
    BY <1>1, SamePool
  <1>3. CallTypes' /\ PingNamed'
    BY <1>1, SameCalls
  <1>4. StreamTypes'
    BY <1>1 DEF IInv, StreamTypes, network
  <1>5. ServerTypes'
    <2>1. a # NoConn
      BY DEF Conn, NoConn
    <2> QED
      BY <1>1, <2>1 DEF IInv, ServerTypes
  <1> QED
    BY <1>2, <1>3, <1>4, <1>5 DEF IInv

LEMMA RegisterStep ==
  ASSUME IInv, Register
  PROVE  IInv'
  <1>1. /\ UNCHANGED <<pool, calls, network, backlog, streams, reader, routes, cleaner>>
        /\ handled.conn # NoConn /\ Server!SetConns(handled.addr, handled.conn)
        /\ handled' = [conn |-> NoConn, addr |-> NoConn]
    BY DEF Register, NoPing, Ping
  <1>2. PoolTypes' /\ NetTypes' /\ Dialled' /\ NotYet' /\ UpHasWriter'
    BY <1>1, SamePool
  <1>3. CallTypes' /\ PingNamed' /\ StreamTypes'
    BY <1>1, SameCalls, SameStreams DEF network
  <1>4. handled.conn \in Conn /\ handled.addr \in Conn
    BY <1>1 DEF IInv, ServerTypes
  <1>5. ServerTypes'
    BY <1>1, <1>4, MapTypes DEF IInv, ServerTypes
  <1> QED
    BY <1>2, <1>3, <1>5 DEF IInv

LEMMA EndReaderStep ==
  ASSUME IInv, NEW c \in Conn, EndReader(c)
  PROVE  IInv'
  <1>1. /\ UNCHANGED <<pool, calls, network, backlog, opened, handled, routes, cleaner>>
        /\ reader' = [reader EXCEPT ![c] = "dead"]
        /\ pings' = [pings EXCEPT ![c] = {}]
        /\ Server!RemoveConnByConnPointer(c)
    BY DEF EndReader
  <1>2. PoolTypes' /\ NetTypes' /\ Dialled' /\ NotYet' /\ UpHasWriter'
    BY <1>1, SamePool
  <1>3. CallTypes' /\ PingNamed'
    BY <1>1, SameCalls
  <1>4. StreamTypes'
    BY <1>1 DEF IInv, StreamTypes, network
  <1>5. ServerTypes'
    BY <1>1, MapTypes DEF IInv, ServerTypes
  <1> QED
    BY <1>2, <1>3, <1>4, <1>5 DEF IInv

LEMMA CleanStep ==
  ASSUME IInv, DelRoute \/ DelConn \/ \E a \in Conn : Sweep(a)
  PROVE  IInv'
  <1>1. UNCHANGED <<pool, calls, network, backlog, streams, reader>>
    BY DEF Sweep, DelRoute, DelConn
  <1>2. PoolTypes' /\ NetTypes' /\ Dialled' /\ NotYet' /\ UpHasWriter'
    BY <1>1, SamePool
  <1>3. CallTypes' /\ PingNamed' /\ StreamTypes'
    BY <1>1, SameCalls, SameStreams DEF network
  <1>4. CASE DelRoute
    <2>1. ServerTypes'
      BY <1>4 DEF IInv, ServerTypes, DelRoute
    <2> QED
      BY <1>2, <1>3, <2>1 DEF IInv
  <1>5. CASE DelConn
    <2>1. ServerTypes'
      BY <1>5, DeleteTypes DEF IInv, ServerTypes, DelConn
    <2> QED
      BY <1>2, <1>3, <2>1 DEF IInv
  <1>6. ASSUME NEW a \in Conn, Sweep(a)
        PROVE  IInv'
    <2>1. /\ cleaner.early \in 0 .. MaxEarly
          /\ \/ /\ cleaner.early < MaxEarly
                /\ cleaner' = [step |-> "delroute", key |-> a,
                               early |-> cleaner.early + 1]
             \/ cleaner' = [cleaner EXCEPT !.step = "delroute", !.key = a]
      BY <1>6 DEF IInv, ServerTypes, Sweep
    <2>2. cleaner' \in [step : {"sweep", "delroute", "delconn"},
                        key : Conn \cup {NoConn}, early : 0 .. MaxEarly]
      <3>1. CASE cleaner.early < MaxEarly /\ cleaner' =
                    [step |-> "delroute", key |-> a, early |-> cleaner.early + 1]
        <4>1. cleaner.early + 1 \in 0 .. MaxEarly
          BY <2>1, <3>1, TunnelAssumption
        <4> QED
          BY <3>1, <4>1
      <3>2. CASE cleaner' = [cleaner EXCEPT !.step = "delroute", !.key = a]
        BY <3>2 DEF IInv, ServerTypes
      <3> QED
        BY <2>1, <3>1, <3>2
    <2>3. ServerTypes'
      BY <1>6, <2>2 DEF IInv, ServerTypes, Sweep, tables
    <2> QED
      BY <1>2, <1>3, <2>3 DEF IInv
  <1> QED
    BY <1>4, <1>5, <1>6

----------------------------------------------------------------------------
(* The theorems. *)

LEMMA InitIInv == Init => IInv
  <1> SUFFICES ASSUME Init PROVE IInv
    OBVIOUS
  <1> USE TunnelAssumption, SlotNumbers DEF Init
  <1>1. PoolTypes
    BY DEF PoolTypes
  <1>2. CallTypes
    BY DEF CallTypes
  <1>3. NetTypes
    BY DEF NetTypes
  <1>4. StreamTypes
    BY DEF StreamTypes
  <1>5. ServerTypes
    BY DEF ServerTypes, NoPing, Ping
  <1>6. Dialled /\ NotYet /\ UpHasWriter
    BY DEF Dialled, NotYet, UpHasWriter, NoConn
  <1>7. PingNamed
    BY DEF PingNamed, Goroutine
  <1> QED
    BY <1>1, <1>2, <1>3, <1>4, <1>5, <1>6, <1>7 DEF IInv

\* Every step of Tunnel preserves IInv.
LEMMA StepIInv ==
  ASSUME IInv, [Next]_vars
  PROVE  IInv'
  <1>1. CASE ClientStep
    BY <1>1, ConnectStep, ConnectFailStep, SendPingStep, SkipPingStep,
       RedialStep, RunEndsStep, SendPacketStep, DeliverStep, DeliverLostStep DEF ClientStep
  <1>2. CASE ServerStep
    BY <1>2, AcceptStep, RecvPingStep, RegisterStep, EndReaderStep, CleanStep DEF ServerStep
  <1>3. CASE StrayDial
    BY <1>3, StrayDialStep
  <1>4. CASE \E c \in Conn : Lose(c)
    BY <1>4, LoseStep
  <1>5. CASE UNCHANGED vars
    <2>1. /\ UNCHANGED <<pool, calls, network, backlog, streams, reader, tables,
                         cleaner>>
      BY <1>5 DEF vars
    <2> QED
      BY <2>1, SamePool, SameCalls, SameStreams, SameServer DEF IInv, network
  <1> QED
    BY <1>1, <1>2, <1>3, <1>4, <1>5 DEF Next

\* IInv is an invariant of the composed system: every reachable state has it
\* (Start, run, writeProcess, Write).
THEOREM TunnelInvariant == Spec => []IInv
  BY InitIInv, StepIInv, PTL DEF Spec

\* Types of the client's pool, the sessions and the tables of the server, among
\* them that a count of write goroutines never falls below zero: only one that
\* is there takes a packet and ends.
THEOREM TunnelTypeCorrect == Spec => []TypeOK
  BY TunnelInvariant, IInvTypes, PTL

\* Wherever the session of a slot is up a write goroutine is there to take what
\* is written, whatever became of those of its earlier sessions
\* (client_conn.go:167-169, 193-228).
THEOREM WriterThere == Spec => []UpHasWriter
  <1>1. IInv => UpHasWriter
    BY DEF IInv
  <1> QED
    BY <1>1, TunnelInvariant, PTL

----------------------------------------------------------------------------
(* Every slot of the pool is a line. *)

LEMMA SameLine ==
  ASSUME NEW i \in Slot, UNCHANGED <<conns, writers, waiting>>,
         (conns[i] \in live') = (conns[i] \in live)
  PROVE  UNCHANGED L(i)!line
  BY DEF L!line

\* A dial does not touch a slot that does not get the session.
LEMMA DialElsewhere ==
  ASSUME IInv, NEW i \in Slot, dialled' = dialled + 1, live' = live \cup {dialled'}
  PROVE  (conns[i] \in live') = (conns[i] \in live)
  <1>1. dialled \in Nat /\ conns[i] \in Nat /\ conns[i] <= dialled
    BY LiveIsConn DEF IInv, PoolTypes, Dialled, Conn, NoConn
  <1> QED
    BY <1>1

\* The end of session c is the end of the line of its slot, if c was up, and
\* nothing elsewhere.
LEMMA EndLine ==
  ASSUME IInv, NEW i \in Slot, NEW c, live' = live \ {c}, UNCHANGED <<conns, waiting>>,
         \/ UNCHANGED writers
         \/ \E j \in Slot : /\ conns[j] = c /\ c \in live
                            /\ writers' = [writers EXCEPT ![j] = @ - 1]
  PROVE  [L(i)!LineNext]_(L(i)!line)
  <1>1. CASE conns[i] = c /\ c \in live
    <2>1. writers[i] > 0
      BY <1>1 DEF IInv, UpHasWriter
    <2> QED
      BY <1>1, <2>1 DEF L!LineNext, L!Lose
  <1>2. CASE ~(conns[i] = c /\ c \in live)
    <2>1. writers'[i] = writers[i]
      BY <1>2 DEF IInv, PoolTypes
    <2> QED
      BY <1>2, <2>1 DEF L!line
  <1> QED
    BY <1>1, <1>2

LEMMA LoseLine ==
  ASSUME IInv, NEW i \in Slot,
         \/ \E c \in Conn : Lose(c)
         \/ \E j \in Slot : RunEnds(j)
  PROVE  [L(i)!LineNext]_(L(i)!line)
  <1>1. ASSUME NEW c \in Conn, Lose(c)
        PROVE  [L(i)!LineNext]_(L(i)!line)
    <2>1. /\ live' = live \ {c} /\ UNCHANGED <<conns, waiting>>
          /\ \/ UNCHANGED writers
             \/ \E j \in Slot : /\ conns[j] = c /\ c \in live
                                /\ writers' = [writers EXCEPT ![j] = @ - 1]
      BY <1>1 DEF Lose, calls
    <2> QED
      BY <2>1, EndLine
  <1>2. ASSUME NEW j \in Slot, RunEnds(j)
        PROVE  [L(i)!LineNext]_(L(i)!line)
    <2>1. /\ live' = live \ {conns[j]} /\ UNCHANGED <<conns, waiting>>
          /\ \/ UNCHANGED writers
             \/ conns[j] \in live /\ writers' = [writers EXCEPT ![j] = @ - 1]
      BY <1>2 DEF RunEnds, calls
    <2> QED
      BY <2>1, EndLine
  <1> QED
    BY <1>1, <1>2

\* The slot j gets a session and a write goroutine more, the others nothing.
LEMMA ConnectLine ==
  ASSUME IInv, NEW i \in Slot, NEW j \in Slot, Dial, UNCHANGED waiting,
         conns[j] \notin live, NEW n, n > 0,
         conns' = [conns EXCEPT ![j] = dialled'],
         writers' = [writers EXCEPT ![j] = n]
  PROVE  [L(i)!LineNext]_(L(i)!line)
  <1>1. dialled' = dialled + 1 /\ live' = live \cup {dialled'}
    BY DEF Dial
  <1>2. CASE i = j
    <2>1. conns'[i] \in live' /\ writers'[i] > 0 /\ conns[i] \notin live
      BY <1>1, <1>2 DEF IInv, PoolTypes
    <2> QED
      BY <2>1 DEF L!LineNext, L!Open
  <1>3. CASE i # j
    <2>1. conns'[i] = conns[i] /\ writers'[i] = writers[i]
      BY <1>3 DEF IInv, PoolTypes
    <2>2. (conns[i] \in live') = (conns[i] \in live)
      BY <1>1, DialElsewhere
    <2> QED
      BY <2>1, <2>2 DEF L!line
  <1> QED
    BY <1>2, <1>3

LEMMA PoolLine ==
  ASSUME IInv, NEW i \in Slot, Connect \/ \E j \in Slot : Redial(j)
  PROVE  [L(i)!LineNext]_(L(i)!line)
  <1>1. UNCHANGED waiting
    BY DEF Connect, Redial, calls
  <1>2. live \subseteq Conn /\ NoConn \notin Conn
    BY LiveIsConn DEF IInv, Conn, NoConn
  <1>3. CASE Connect
    <2>1. starting \in Slot /\ starting >= starting
      BY <1>3, TunnelAssumption DEF Connect, IInv, PoolTypes, Slot
    <2>2. conns[starting] \notin live
      BY <1>2, <2>1 DEF IInv, NotYet
    <2>3. /\ Dial /\ 1 > 0
          /\ conns' = [conns EXCEPT ![starting] = dialled']
          /\ writers' = [writers EXCEPT ![starting] = 1]
      BY <1>3 DEF Connect
    <2> QED
      BY ONLY IInv, i \in Slot, <1>1, <2>1, <2>2, <2>3, ConnectLine
  <1>4. ASSUME NEW j \in Slot, Redial(j)
        PROVE  [L(i)!LineNext]_(L(i)!line)
    <2>1. writers[j] + 1 > 0
      BY DEF IInv, PoolTypes
    <2>2. writers' = [writers EXCEPT ![j] = writers[j] + 1]
      BY <1>4 DEF Redial
    <2> QED
      BY <1>1, <1>4, <2>1, <2>2, ConnectLine DEF Redial, Lost, Down
  <1> QED
    BY <1>3, <1>4

\* A write that finds its slot down is a call there and nothing elsewhere.
LEMMA WriteLine ==
  ASSUME IInv, NEW i \in Slot, NEW g \in Goroutine, NEW addresses,
         Write(g, addresses), UNCHANGED <<conns, writers, live>>
  PROVE  [L(i)!LineNext]_(L(i)!line)
  <1>1. /\ waiting[g] = NoSlot /\ NoSlot # i
        /\ waiting' = [waiting EXCEPT ![g] =
                          IF Down(NextSlot) THEN NextSlot ELSE NoSlot]
    BY SlotNumbers DEF Write
  <1>2. CASE Down(NextSlot) /\ NextSlot = i
    BY <1>1, <1>2 DEF IInv, CallTypes, L!LineNext, L!Call
  <1>3. CASE ~(Down(NextSlot) /\ NextSlot = i)
    BY <1>1, <1>3 DEF IInv, CallTypes, L!line
  <1> QED
    BY <1>2, <1>3

LEMMA DeliverLine ==
  ASSUME IInv, NEW i \in Slot, NEW g \in Goroutine, Deliver(g) \/ DeliverLost(g)
  PROVE  [L(i)!LineNext]_(L(i)!line)
  <1> DEFINE s == waiting[g]
  <1>1. /\ s # NoSlot /\ writers[s] > 0 /\ UNCHANGED <<conns, live>>
        /\ waiting' = [waiting EXCEPT ![g] = NoSlot]
        /\ \/ UNCHANGED writers
           \/ conns[s] \notin live /\ writers' = [writers EXCEPT ![s] = @ - 1]
    BY DEF Deliver, DeliverLost, pool, network
  <1>2. NoSlot # i
    BY SlotNumbers
  <1>3. CASE s = i
    BY <1>1, <1>2, <1>3 DEF IInv, CallTypes, L!LineNext, L!Serve
  <1>4. CASE s # i
    <2>1. writers'[i] = writers[i]
      BY <1>1, <1>4 DEF IInv, PoolTypes
    <2> QED
      BY <1>1, <1>2, <1>4, <2>1 DEF IInv, CallTypes, L!line
  <1> QED
    BY <1>3, <1>4

LEMMA LineStep ==
  IInv /\ [Next]_vars => \A i \in Slot : [L(i)!LineNext]_(L(i)!line)
  <1> SUFFICES ASSUME IInv, [Next]_vars, NEW i \in Slot
               PROVE  [L(i)!LineNext]_(L(i)!line)
    OBVIOUS
  <1>1. CASE \/ ConnectFail \/ SkipPing \/ ServerStep \/ UNCHANGED vars
    BY <1>1 DEF ConnectFail, SkipPing, ServerStep, AcceptStream, AcceptFail,
       RecvPing, Register, EndReader, Sweep, DelRoute, DelConn, vars, pool, calls,
       network, L!line
  <1>2. CASE StrayDial
    <2>1. /\ UNCHANGED <<conns, writers, waiting>>
          /\ dialled' = dialled + 1 /\ live' = live \cup {dialled'}
      BY <1>2 DEF StrayDial, Dial, pool, calls
    <2> QED
      BY <2>1, DialElsewhere, SameLine
  <1>3. ASSUME NEW w \in Worker, SendPacket(w)
        PROVE  [L(i)!LineNext]_(L(i)!line)
    BY <1>3, WriteLine DEF SendPacket, Goroutine, pool, network
  <1>4. CASE SendPing
    BY <1>4, WriteLine DEF SendPing, Goroutine, pool, network
  <1> QED
    BY <1>1, <1>2, <1>3, <1>4, LoseLine, PoolLine, DeliverLine
    DEF Next, ClientStep

LEMMA LineInits == Init => \A i \in Slot : L(i)!LineInit
  BY SlotNumbers DEF Init, L!LineInit

\* Every slot of the pool is a line, in every behaviour of the client and the
\* server together: while the session of a slot is up somebody takes what is
\* written there, and whoever is blocked on it is released by a write goroutine
\* of that slot and by nobody else (Client.Write, run, writeProcess).
THEOREM SlotsAreLines == Spec => AreLines
  BY LineInits, LineStep, TunnelInvariant, PTL DEF Spec, AreLines
=============================================================================
