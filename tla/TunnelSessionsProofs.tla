------------------------ MODULE TunnelSessionsProofs ------------------------
(* Proofs about what becomes of the sessions of Tunnel: those of the pool   *)
(* and those of the peers that never open their stream, in the client, in   *)
(* the accept loop and in the tables of the server.                         *)
EXTENDS TunnelProofs

----------------------------------------------------------------------------
(* The pool. *)

\* A session of the client that is up is that of a slot, and of one only; the
\* slots have none of the others.
PoolSound ==
    /\ \A c \in live \ stray : \E i \in Slot : conns[i] = c
    /\ \A i, j \in Slot : conns[i] = conns[j] /\ conns[i] # NoConn => i = j
    /\ \A i \in Slot : conns[i] \notin stray

\* A slot whose run has ended has had a session, and is down.
EndedIsDown == \A i \in ended : Down(i)

\* Whoever is blocked waits for a slot that has been connected, and whose
\* session is up with a write goroutine that takes what waits, or lost while run
\* goes on and replaces it, or given up by a run that has ended.
BlockedHasHope ==
    \A g \in Goroutine : waiting[g] # NoSlot =>
        LET i == waiting[g]
        IN \/ conns[i] \in live /\ writers[i] > 0
           \/ Lost(i)
           \/ i \in ended /\ Down(i)

\* A slot whose run has ended stays as it is, but for the write goroutines that
\* end on it: there is no hope there once they have.
EndedForGood ==
    [][\A i \in ended : /\ i \in ended' /\ conns'[i] = conns[i] /\ Down(i)'
                        /\ writers'[i] <= writers[i]]_vars

NotOnNil == \A g \in Goroutine : waiting[g] # NoSlot => conns[waiting[g]] # NoConn

\* The steps that touch the sessions of the pool.
LEMMA PoolSteps ==
  ASSUME [Next]_vars
  PROVE  \/ Connect \/ \E i \in Slot : Redial(i)
         \/ StrayDial
         \/ UNCHANGED <<conns, stray>> /\ live' \subseteq live
  <1>1. CASE \/ ConnectFail \/ SendPing \/ SkipPing \/ \E w \in Worker : SendPacket(w)
             \/ \E g \in Goroutine : Deliver(g) \/ DeliverLost(g)
             \/ \E i \in Slot : RunEnds(i)
    BY <1>1 DEF RunEnds, ConnectFail, SendPing, SkipPing, SendPacket, Deliver, DeliverLost,
       pool, network
  <1>2. CASE ServerStep
    BY <1>2 DEF ServerStep, AcceptStream, AcceptFail, RecvPing, Register, EndReader, Sweep,
       DelRoute, DelConn, pool, network
  <1>3. CASE UNCHANGED vars \/ \E c \in Conn : Lose(c)
    BY <1>3 DEF Lose, vars, pool, network
  <1> QED
    BY <1>1, <1>2, <1>3 DEF Next, ClientStep

\* A slot gets a session that nobody has had.
LEMMA PoolGets ==
  ASSUME IInv, PoolSound, NEW i \in Slot, Dial, stray' = stray,
         conns[i] \notin live, conns' = [conns EXCEPT ![i] = dialled']
  PROVE  PoolSound'
  <1>1. /\ dialled \in Nat /\ dialled' = dialled + 1 /\ live' = live \cup {dialled'}
        /\ stray \subseteq 1 .. dialled
    BY LiveIsConn DEF Dial, IInv, NetTypes
  <1>2. \A j \in Slot : conns[j] \in Nat /\ conns[j] <= dialled
    BY DEF IInv, PoolTypes, Dialled, Conn, NoConn
  <1>3. \A j \in Slot : conns'[j] = IF j = i THEN dialled' ELSE conns[j]
    BY DEF IInv, PoolTypes
  <1>4. \A c \in live' \ stray' : \E j \in Slot : conns'[j] = c
    BY <1>1, <1>3 DEF PoolSound
  <1>5. \A j, k \in Slot : conns'[j] = conns'[k] /\ conns'[j] # NoConn => j = k
    BY <1>1, <1>2, <1>3 DEF PoolSound
  <1>6. \A j \in Slot : conns'[j] \notin stray'
    BY <1>1, <1>3 DEF PoolSound
  <1> QED
    BY <1>4, <1>5, <1>6 DEF PoolSound

\* The slot Start is at has no session yet.
LEMMA NextIsNil ==
  ASSUME IInv, Connect
  PROVE  starting \in Slot /\ conns[starting] \notin live /\ conns[starting] = NoConn
  <1>1. starting \in Slot /\ starting >= starting
    BY TunnelAssumption DEF Connect, IInv, PoolTypes, Slot
  <1>2. live \subseteq Conn /\ NoConn \notin Conn
    BY LiveIsConn DEF IInv, Conn, NoConn
  <1> QED
    BY <1>1, <1>2 DEF IInv, NotYet

LEMMA PoolStep == IInv /\ PoolSound /\ [Next]_vars => PoolSound'
  <1> SUFFICES ASSUME IInv, PoolSound, [Next]_vars PROVE PoolSound'
    OBVIOUS
  <1>1. CASE Connect
    BY <1>1, NextIsNil, PoolGets DEF Connect
  <1>2. ASSUME NEW i \in Slot, Redial(i)
        PROVE  PoolSound'
    BY <1>2, PoolGets DEF Redial, Lost, Down
  <1>3. CASE StrayDial
    <2>1. /\ dialled \in Nat /\ dialled' = dialled + 1
          /\ live' = live \cup {dialled'} /\ stray' = stray \cup {dialled'}
          /\ conns' = conns
      BY <1>3, LiveIsConn DEF StrayDial, Dial, IInv, pool
    <2>2. \A j \in Slot : conns[j] \in Nat /\ conns[j] <= dialled
      BY DEF IInv, PoolTypes, Dialled, Conn, NoConn
    <2> QED
      BY <2>1, <2>2 DEF PoolSound
  <1>4. CASE UNCHANGED <<conns, stray>> /\ live' \subseteq live
    BY <1>4 DEF PoolSound
  <1> QED
    BY <1>1, <1>2, <1>3, <1>4, PoolSteps

LEMMA PoolInvariance == Spec => [](IInv /\ PoolSound)
  <1>1. Init => PoolSound
    BY DEF Init, PoolSound, NoConn
  <1> QED
    BY <1>1, PoolStep, InitIInv, StepIInv, PTL DEF Spec

\* The client never holds a live session outside its pool, and never uses one
\* for two slots: a slot gets another one only after its own is lost
\* (Client.Start, run, tryConnect).
THEOREM PoolCorrect == Spec => []PoolSound
  BY PoolInvariance, PTL

LEMMA NotOnNilStep == IInv /\ NotOnNil /\ [Next]_vars => NotOnNil'
  <1> SUFFICES ASSUME IInv, NotOnNil, [Next]_vars PROVE NotOnNil'
    OBVIOUS
  <1>1. waiting \in [Goroutine -> Slot \cup {NoSlot}]
    BY DEF IInv, CallTypes
  <1>2. CASE Connect \/ \E i \in Slot : Redial(i)
    <2>1. UNCHANGED waiting
      BY <1>2 DEF Connect, Redial, calls
    <2>2. dialled \in Nat /\ dialled' = dialled + 1
      BY <1>2, LiveIsConn DEF Connect, Redial, Dial, IInv
    <2>3. \A j \in Slot : conns'[j] = conns[j] \/ conns'[j] = dialled'
      BY <1>2 DEF Connect, Redial, IInv, PoolTypes
    <2> QED
      BY <1>1, <2>1, <2>2, <2>3 DEF NotOnNil, NoConn
  <1>3. ASSUME NEW g \in Goroutine, NEW addresses, Write(g, addresses),
               UNCHANGED conns
        PROVE  NotOnNil'
    <2>1. /\ \A h \in Goroutine \ {g} : waiting'[h] = waiting[h]
          /\ waiting'[g] # NoSlot => waiting'[g] = NextSlot /\ Down(NextSlot)
      BY <1>1, <1>3 DEF Write
    <2> QED
      BY <1>3, <2>1 DEF NotOnNil, Down
  <1>4. ASSUME NEW g \in Goroutine, Deliver(g) \/ DeliverLost(g)
        PROVE  NotOnNil'
    BY <1>1, <1>4 DEF Deliver, DeliverLost, NotOnNil, pool
  <1>5. CASE UNCHANGED <<conns, waiting>>
    BY <1>5 DEF NotOnNil
  <1>6. \/ UNCHANGED <<conns, waiting>>
        \/ Connect \/ \E i \in Slot : Redial(i)
        \/ \E g \in Goroutine : \/ Deliver(g) \/ DeliverLost(g)
                                \/ \E addresses : Write(g, addresses) /\ UNCHANGED conns
    <2>1. CASE SendPing \/ \E w \in Worker : SendPacket(w)
      BY <2>1 DEF SendPing, SendPacket, Goroutine, pool
    <2>2. CASE ServerStep
      BY <2>2 DEF ServerStep, AcceptStream, AcceptFail, RecvPing, Register, EndReader, Sweep,
         DelRoute, DelConn, pool, calls
    <2>3. CASE \/ ConnectFail \/ SkipPing \/ StrayDial \/ UNCHANGED vars
               \/ \E c \in Conn : Lose(c)
      BY <2>3 DEF ConnectFail, SkipPing, StrayDial, Lose, vars, pool, calls
    <2>4. CASE \E i \in Slot : RunEnds(i)
      BY <2>4 DEF RunEnds, calls
    <2> QED
      BY <2>1, <2>2, <2>3, <2>4 DEF Next, ClientStep
  <1> QED
    BY <1>2, <1>3, <1>4, <1>5, <1>6

\* What a step does to a slot whose run has ended.
LEMMA EndedStep ==
  ASSUME IInv, EndedIsDown, [Next]_vars, NEW i \in ended
  PROVE  /\ i \in ended' /\ conns'[i] = conns[i] /\ conns[i] \notin live'
         /\ writers'[i] <= writers[i]
  <1>1. /\ i \in Slot /\ conns[i] \in Nat /\ conns[i] # NoConn /\ conns[i] \notin live
        /\ conns[i] <= dialled /\ dialled \in Nat /\ writers[i] \in Nat
    BY LiveIsConn DEF IInv, PoolTypes, Dialled, EndedIsDown, Down, Conn, NoConn
  <1>2. CASE Connect
    <2>1. starting \in Slot /\ starting # i
      BY <1>1, <1>2, TunnelAssumption DEF Connect, IInv, PoolTypes, NotYet, Slot
    <2> QED
      BY <1>1, <1>2, <2>1 DEF Connect, Dial, IInv, PoolTypes
  <1>3. ASSUME NEW j \in Slot, Redial(j)
        PROVE  /\ i \in ended' /\ conns'[i] = conns[i] /\ conns[i] \notin live'
               /\ writers'[i] <= writers[i]
    <2>1. j # i
      BY <1>3 DEF Redial, Lost
    <2> QED
      BY <1>1, <1>3, <2>1 DEF Redial, Dial, IInv, PoolTypes
  <1>4. ASSUME NEW j \in Slot, RunEnds(j)
        PROVE  /\ i \in ended' /\ conns'[i] = conns[i] /\ conns[i] \notin live'
               /\ writers'[i] <= writers[i]
    BY <1>1, <1>4 DEF RunEnds, IInv, PoolTypes
  <1>5. ASSUME NEW c \in Conn, Lose(c)
        PROVE  /\ i \in ended' /\ conns'[i] = conns[i] /\ conns[i] \notin live'
               /\ writers'[i] <= writers[i]
    <2>1. /\ live' = live \ {c} /\ UNCHANGED <<conns, ended>>
          /\ \/ UNCHANGED writers
             \/ \E j \in Slot : writers' = [writers EXCEPT ![j] = @ - 1]
      BY <1>5 DEF Lose
    <2> QED
      BY <1>1, <2>1 DEF IInv, PoolTypes
  <1>6. ASSUME NEW g \in Goroutine, DeliverLost(g)
        PROVE  /\ i \in ended' /\ conns'[i] = conns[i] /\ conns[i] \notin live'
               /\ writers'[i] <= writers[i]
    <2>1. /\ UNCHANGED <<live, conns, ended>>
          /\ \/ UNCHANGED writers
             \/ writers' = [writers EXCEPT ![waiting[g]] = @ - 1]
      BY <1>6 DEF DeliverLost, network
    <2> QED
      BY <1>1, <2>1 DEF IInv, PoolTypes
  <1>7. CASE StrayDial
    BY <1>1, <1>7 DEF StrayDial, Dial, pool
  <1>8. CASE UNCHANGED <<conns, writers, ended, live>>
    BY <1>1, <1>8
  <1>9. \/ UNCHANGED <<conns, writers, ended, live>>
        \/ Connect \/ \E j \in Slot : Redial(j) \/ RunEnds(j)
        \/ StrayDial \/ \E c \in Conn : Lose(c)
        \/ \E g \in Goroutine : DeliverLost(g)
    <2>1. CASE \/ ConnectFail \/ SendPing \/ SkipPing
               \/ \E w \in Worker : SendPacket(w)
               \/ \E g \in Goroutine : Deliver(g)
      BY <2>1 DEF ConnectFail, SendPing, SkipPing, SendPacket, Deliver, pool, network
    <2>2. CASE ServerStep \/ UNCHANGED vars
      BY <2>2 DEF ServerStep, AcceptStream, AcceptFail, RecvPing, Register, EndReader,
         Sweep, DelRoute, DelConn, vars, pool, network
    <2> QED
      BY <2>1, <2>2 DEF Next, ClientStep
  <1> QED
    BY <1>2, <1>3, <1>4, <1>5, <1>6, <1>7, <1>8, <1>9

\* A step after which the run of a slot has ended: it had, or this is its end.
LEMMA EndedIsDownStep == IInv /\ EndedIsDown /\ [Next]_vars => EndedIsDown'
  <1> SUFFICES ASSUME IInv, EndedIsDown, [Next]_vars, NEW i \in ended'
               PROVE  Down(i)'
    BY DEF EndedIsDown
  <1>1. CASE i \in ended
    BY <1>1, EndedStep DEF EndedIsDown, Down
  <1>2. ASSUME NEW j \in Slot, RunEnds(j), i \notin ended
        PROVE  Down(i)'
    BY <1>2 DEF RunEnds, Down
  <1>3. i \in ended \/ \E j \in Slot : RunEnds(j)
    <2>1. CASE \/ Connect \/ ConnectFail \/ SendPing \/ SkipPing \/ StrayDial
               \/ \E w \in Worker : SendPacket(w)
               \/ \E g \in Goroutine : Deliver(g) \/ DeliverLost(g)
               \/ \E j \in Slot : Redial(j)
               \/ \E c \in Conn : Lose(c)
      BY <2>1 DEF Connect, ConnectFail, SendPing, SkipPing, StrayDial, SendPacket,
         Deliver, DeliverLost, Redial, Lose, pool
    <2>2. CASE ServerStep \/ UNCHANGED vars
      BY <2>2 DEF ServerStep, AcceptStream, AcceptFail, RecvPing, Register, EndReader,
         Sweep, DelRoute, DelConn, vars, pool
    <2> QED
      BY <2>1, <2>2 DEF Next, ClientStep
  <1> QED
    BY <1>1, <1>2, <1>3

LEMMA EndedInvariance == Spec => [](IInv /\ EndedIsDown)
  <1>1. Init => EndedIsDown
    BY DEF Init, EndedIsDown
  <1> QED
    BY <1>1, EndedIsDownStep, InitIInv, StepIInv, PTL DEF Spec

\* A panic that readProcess recovers from is final for its slot: no step of
\* anybody connects the slot again or gives it a write goroutine, so that those
\* who are blocked there can only be released by the write goroutines it has,
\* each of which takes one packet and ends (client_conn.go:170-173).
THEOREM EndedIsFinal == Spec => EndedForGood
  <1>1. IInv /\ EndedIsDown /\ [Next]_vars =>
          [\A i \in ended : /\ i \in ended' /\ conns'[i] = conns[i] /\ Down(i)'
                            /\ writers'[i] <= writers[i]]_vars
    BY EndedStep DEF EndedIsDown, Down
  <1> QED
    BY <1>1, EndedInvariance, PTL DEF Spec, EndedForGood

\* Nobody is blocked in Write on a slot that stays nil, or on one whose session
\* is up with nobody to take what waits: a write goroutine can take the packet at
\* once, or the session is lost and run, which goes on, replaces it, or run has
\* ended, which is final (Client.Write, ClientConn.Write, run).
THEOREM BlockedCorrect == Spec => []BlockedHasHope
  <1>1. Init => NotOnNil
    BY DEF Init, NotOnNil
  <1>2. IInv /\ NotOnNil /\ EndedIsDown => BlockedHasHope
    BY DEF IInv, CallTypes, NotOnNil, EndedIsDown, BlockedHasHope, Down, Lost, UpHasWriter
  <1> QED
    BY <1>1, <1>2, NotOnNilStep, EndedInvariance, PTL DEF Spec

----------------------------------------------------------------------------
(* The accept loop. *)

\* The sessions the accept loop is not done with are in the order in which they
\* were dialled, and it has not begun to read any of them.
QueueSound ==
    /\ \A j, k \in 1 .. Len(backlog) : j < k => backlog[j] < backlog[k]
    /\ \A k \in 1 .. Len(backlog) : reader[backlog[k]] = "none"

\* A session that is up is being read, or its turn in the accept loop comes; it
\* is never skipped, and a reader ends with its session only.
NoneOverlooked ==
    \A c \in live : \/ reader[c] = "read"
                    \/ reader[c] = "none" /\ \E k \in 1 .. Len(backlog) : backlog[k] = c

\* Nobody reads a session before it was dialled.
NotDialled == \A c \in Conn : c > dialled => reader[c] = "none"

AcceptInv == QueueSound /\ NoneOverlooked /\ NotDialled

\* The steps that touch the backlog, the readers and the sessions that are up.
LEMMA AcceptSteps ==
  ASSUME [Next]_vars
  PROVE  \/ Dial /\ UNCHANGED reader
         \/ ConnectFail
         \/ UNCHANGED <<dialled, backlog, reader>> /\ live' \subseteq live
         \/ AcceptStream \/ AcceptFail \/ \E c \in Conn : EndReader(c)
  <1>1. CASE Connect \/ StrayDial \/ \E i \in Slot : Redial(i)
    BY <1>1 DEF Connect, StrayDial, Redial
  <1>2. CASE \/ SendPing \/ SkipPing \/ \E w \in Worker : SendPacket(w)
             \/ \E g \in Goroutine : Deliver(g) \/ DeliverLost(g)
    BY <1>2 DEF SendPing, SkipPing, SendPacket, Deliver, DeliverLost, network
  <1>3. CASE \/ \E c, a \in Conn : RecvPing(c, a)
             \/ \E a \in Conn : Sweep(a)
             \/ Register \/ DelRoute \/ DelConn \/ UNCHANGED vars
    BY <1>3 DEF RecvPing, Register, Sweep, DelRoute, DelConn, vars, network
  <1>4. CASE \/ \E c \in Conn : Lose(c)
             \/ \E i \in Slot : RunEnds(i)
    BY <1>4 DEF Lose, RunEnds
  <1> QED
    BY <1>1, <1>2, <1>3, <1>4 DEF Next, ClientStep, ServerStep

\* What is behind the head of a queue moves up by one.
LEMMA TailMoves ==
  ASSUME NEW S, NEW q \in Seq(S), q # <<>>
  PROVE  /\ Len(q) \in Nat \ {0} /\ Len(Tail(q)) = Len(q) - 1 /\ Head(q) = q[1]
         /\ \A k \in 1 .. Len(Tail(q)) : k + 1 \in 1 .. Len(q) /\ Tail(q)[k] = q[k + 1]
         /\ \A k \in 2 .. Len(q) : k - 1 \in 1 .. Len(Tail(q)) /\ Tail(q)[k - 1] = q[k]
  <1>1. /\ Len(q) \in Nat \ {0} /\ Len(Tail(q)) = Len(q) - 1 /\ Head(q) = q[1]
    OBVIOUS
  <1>2. \A k \in 1 .. Len(Tail(q)) : Tail(q)[k] = q[k + 1]
    BY <1>1
  <1> QED
    BY <1>1, <1>2

LEMMA AcceptDial ==
  ASSUME IInv, AcceptInv, Dial, UNCHANGED reader
  PROVE  AcceptInv'
  <1>1. /\ dialled \in Nat /\ dialled' = dialled + 1 /\ dialled' \in Conn
        /\ live' = live \cup {dialled'} /\ backlog' = Append(backlog, dialled')
        /\ backlog \in Seq(1 .. dialled)
    BY LiveIsConn, TunnelAssumption DEF Dial, IInv, NetTypes, Conn
  <1>2. /\ Len(backlog) \in Nat /\ Len(backlog') = Len(backlog) + 1
        /\ \A k \in 1 .. Len(backlog) : backlog'[k] = backlog[k]
        /\ backlog'[Len(backlog) + 1] = dialled'
        /\ \A k \in 1 .. Len(backlog) : backlog[k] \in 1 .. dialled
    BY <1>1
  <1>3. reader[dialled'] = "none"
    BY <1>1 DEF AcceptInv, NotDialled
  <1>4. ASSUME NEW j \in 1 .. Len(backlog'), NEW k \in 1 .. Len(backlog'), j < k
        PROVE  backlog'[j] < backlog'[k]
    <2>1. j \in 1 .. Len(backlog) /\ backlog'[j] = backlog[j]
          /\ backlog[j] \in 1 .. dialled
      BY <1>2, <1>4
    <2>2. CASE k \in 1 .. Len(backlog)
      BY <1>2, <1>4, <2>1, <2>2 DEF AcceptInv, QueueSound
    <2>3. CASE k = Len(backlog) + 1
      BY <1>1, <1>2, <2>1, <2>3
    <2> QED
      BY <1>2, <2>2, <2>3
  <1>5. QueueSound'
    BY <1>2, <1>3, <1>4 DEF AcceptInv, QueueSound
  <1>6. NoneOverlooked'
    <2>1. Len(backlog) + 1 \in 1 .. Len(backlog')
      BY <1>2
    <2>2. \A k \in 1 .. Len(backlog) : k \in 1 .. Len(backlog')
      BY <1>2
    <2> QED
      BY <1>1, <1>2, <1>3, <2>1, <2>2 DEF AcceptInv, NoneOverlooked
  <1>7. NotDialled'
    BY <1>1 DEF AcceptInv, NotDialled, Conn
  <1> QED
    BY <1>5, <1>6, <1>7 DEF AcceptInv

\* The head of the backlog leaves it, being read or lost.
LEMMA AcceptHead ==
  ASSUME IInv, AcceptInv, AcceptStream \/ AcceptFail
  PROVE  AcceptInv'
  <1> DEFINE h == Head(backlog)
  <1>1. /\ backlog # <<>> /\ backlog' = Tail(backlog)
        /\ UNCHANGED <<live, dialled>>
        /\ \/ reader' = [reader EXCEPT ![h] = "read"]
           \/ reader' = reader /\ h \notin live
    BY DEF AcceptStream, AcceptFail, network
  <1>2. /\ backlog \in Seq(1 .. dialled) /\ dialled \in Nat /\ dialled <= MaxSessions
        /\ reader \in [Conn -> {"none", "read", "dead"}]
    BY TunnelAssumption DEF IInv, NetTypes, ServerTypes
  <1>3. /\ Len(backlog) \in Nat \ {0} /\ Len(backlog') = Len(backlog) - 1
        /\ h = backlog[1]
        /\ \A k \in 1 .. Len(backlog') :
              k + 1 \in 1 .. Len(backlog) /\ backlog'[k] = backlog[k + 1]
        /\ \A k \in 2 .. Len(backlog) :
              k - 1 \in 1 .. Len(backlog') /\ backlog'[k - 1] = backlog[k]
    BY <1>1, <1>2, TailMoves
  <1>4. /\ 1 \in 1 .. Len(backlog) /\ h \in 1 .. dialled /\ h \in Conn
        /\ \A k \in 1 .. Len(backlog) : backlog[k] \in 1 .. dialled
    BY <1>2, <1>3, TunnelAssumption DEF Conn
  <1> HIDE DEF h
  <1>5. \A c \in Conn : c # h => reader'[c] = reader[c]
    BY <1>1, <1>2
  <1>6. \A k \in 2 .. Len(backlog) : backlog[k] # h
    <2>1. \A k \in 2 .. Len(backlog) : backlog[1] < backlog[k]
      BY <1>3, <1>4 DEF AcceptInv, QueueSound
    <2> QED
      BY <1>2, <1>3, <1>4, <2>1
  <1>7. QueueSound'
    <2>1. \A k \in 1 .. Len(backlog') : k + 1 \in 2 .. Len(backlog)
      BY <1>3
    <2>2. \A k \in 1 .. Len(backlog') : backlog'[k] # h /\ backlog'[k] \in Conn
      BY <1>2, <1>3, <1>4, <1>6, <2>1, TunnelAssumption DEF Conn
    <2>3. \A k \in 1 .. Len(backlog') : reader'[backlog'[k]] = "none"
      BY <1>3, <1>5, <2>2 DEF AcceptInv, QueueSound
    <2>4. \A j, k \in 1 .. Len(backlog') : j < k => backlog'[j] < backlog'[k]
      BY <1>3 DEF AcceptInv, QueueSound
    <2> QED
      BY <2>3, <2>4 DEF QueueSound
  <1>8. NoneOverlooked'
    <2> SUFFICES ASSUME NEW c \in live
                 PROVE  \/ reader'[c] = "read"
                        \/ /\ reader'[c] = "none"
                           /\ \E k \in 1 .. Len(backlog') : backlog'[k] = c
      BY <1>1 DEF NoneOverlooked
    <2>1. c \in Conn
      BY LiveIsConn DEF IInv
    <2>2. CASE c = h
      BY <1>1, <1>2, <1>4, <2>2
    <2>3. CASE c # h
      <3>1. CASE reader[c] = "read"
        BY <1>5, <2>1, <2>3, <3>1
      <3>2. ASSUME reader[c] = "none", NEW k \in 1 .. Len(backlog), backlog[k] = c
            PROVE  \E m \in 1 .. Len(backlog') : backlog'[m] = c
        <4>1. k \in 2 .. Len(backlog)
          BY <1>3, <2>3, <3>2
        <4> QED
          BY <1>3, <3>2, <4>1
      <3> QED
        BY <1>5, <2>1, <2>3, <3>1, <3>2 DEF AcceptInv, NoneOverlooked
    <2> QED
      BY <2>2, <2>3
  <1>9. NotDialled'
    BY <1>1, <1>2, <1>4, <1>5 DEF AcceptInv, NotDialled, Conn
  <1> QED
    BY <1>7, <1>8, <1>9 DEF AcceptInv

LEMMA AcceptInvStep == IInv /\ AcceptInv /\ [Next]_vars => AcceptInv'
  <1> SUFFICES ASSUME IInv, AcceptInv, [Next]_vars PROVE AcceptInv'
    OBVIOUS
  <1>1. CASE ConnectFail
    <2>1. /\ UNCHANGED <<live, backlog, reader>> /\ dialled' = dialled + 1
          /\ dialled \in Nat
      BY <1>1, LiveIsConn DEF ConnectFail, IInv
    <2> QED
      BY <2>1 DEF AcceptInv, QueueSound, NoneOverlooked, NotDialled, Conn
  <1>2. CASE UNCHANGED <<dialled, backlog, reader>> /\ live' \subseteq live
    BY <1>2 DEF AcceptInv, QueueSound, NoneOverlooked, NotDialled
  <1>3. ASSUME NEW c \in Conn, EndReader(c)
        PROVE  AcceptInv'
    <2>1. /\ reader[c] = "read" /\ c \notin live /\ UNCHANGED <<live, dialled, backlog>>
          /\ \A d \in Conn \ {c} : reader'[d] = reader[d]
      BY <1>3 DEF EndReader, network, IInv, ServerTypes
    <2>2. /\ live \subseteq Conn
          /\ \A k \in 1 .. Len(backlog) : backlog[k] \in Conn
      BY LiveIsConn, TunnelAssumption DEF IInv, NetTypes, Conn
    <2> QED
      BY <2>1, <2>2 DEF AcceptInv, QueueSound, NoneOverlooked, NotDialled
  <1> QED
    BY <1>1, <1>2, <1>3, AcceptDial, AcceptHead, AcceptSteps

\* The accept loop comes to the sessions in the order in which they were
\* dialled and to each of them once, and overlooks none that is up, however many
\* are lost in the queue before it (Server.Start).
THEOREM AcceptCorrect == Spec => [](QueueSound /\ NoneOverlooked)
  <1>1. Init => AcceptInv
    BY DEF Init, AcceptInv, QueueSound, NoneOverlooked, NotDialled
  <1>2. AcceptInv => QueueSound /\ NoneOverlooked
    BY DEF AcceptInv
  <1> QED
    BY <1>1, <1>2, AcceptInvStep, TunnelInvariant, PTL DEF Spec
----------------------------------------------------------------------------
(* The tables of the server. *)

\* The sessions the client has dialled; not those of other peers.
Own == (1 .. dialled) \ stray

\* The streams, pings, readers, routes and bindings of the server are all about
\* sessions of the client: what is bound at an address is a session somebody
\* has read, the address was announced, and a peer that never opens its stream
\* is nowhere in the tables.  The reader that handles a ping has not ended.
OnlyOwn ==
    /\ opened \subseteq Own /\ routes \subseteq Own
    /\ ping \in Own \cup {NoConn}
    /\ \A c \in Conn : pings[c] \subseteq Own
    /\ \A c \in Conn : pings[c] # {} \/ reader[c] # "none" => c \in Own
    /\ handled.conn # NoConn =>
          /\ handled.addr \in Own /\ handled.conn \in Own
          /\ reader[handled.conn] = "read"
    /\ \A a \in Conn : Conns[a] # NoConn =>
          a \in Own /\ Conns[a] \in Own /\ reader[Conns[a]] # "none"

\* A session of the client stays one.
LEMMA OwnGrows ==
  ASSUME IInv, [Next]_vars
  PROVE  Own \subseteq Own' /\ Own \subseteq Conn
  <1>1. dialled \in Nat /\ stray \subseteq 1 .. dialled /\ 1 .. dialled \subseteq Conn
    BY LiveIsConn, TunnelAssumption DEF IInv, NetTypes, Conn
  <1>2. CASE Connect \/ ConnectFail \/ \E i \in Slot : Redial(i)
    BY <1>1, <1>2 DEF Connect, ConnectFail, Redial, Dial, Own
  <1>3. CASE StrayDial
    BY <1>1, <1>3 DEF StrayDial, Dial, Own
  <1>4. CASE UNCHANGED <<dialled, stray>>
    BY <1>1, <1>4 DEF Own
  <1>5. \/ Connect \/ ConnectFail \/ \E i \in Slot : Redial(i)
        \/ StrayDial \/ UNCHANGED <<dialled, stray>>
    <2>1. CASE \/ SendPing \/ SkipPing \/ \E w \in Worker : SendPacket(w)
               \/ \E g \in Goroutine : Deliver(g) \/ DeliverLost(g)
               \/ \E i \in Slot : RunEnds(i)
      BY <2>1 DEF SendPing, SkipPing, SendPacket, Deliver, DeliverLost, RunEnds, network
    <2>2. CASE ServerStep
      BY <2>2 DEF ServerStep, AcceptStream, AcceptFail, RecvPing, Register, EndReader,
         Sweep, DelRoute, DelConn, network
    <2>3. CASE UNCHANGED vars \/ \E c \in Conn : Lose(c)
      BY <2>3 DEF Lose, vars, network
    <2> QED
      BY <2>1, <2>2, <2>3 DEF Next, ClientStep
  <1> QED
    BY <1>1, <1>2, <1>3, <1>4, <1>5

\* A slot that is not nil has a session of the client.
LEMMA SlotsAreOwn ==
  ASSUME IInv, PoolSound
  PROVE  \A i \in Slot : conns[i] # NoConn => conns[i] \in Own /\ conns[i] \in Conn
  <1>1. \A i \in Slot : conns[i] \in Conn \cup {NoConn} /\ conns[i] <= dialled
    BY DEF IInv, PoolTypes, Dialled
  <1>2. dialled \in Nat
    BY LiveIsConn DEF IInv
  <1> QED
    BY <1>1, <1>2, TunnelAssumption DEF PoolSound, Own, Conn, NoConn

\* What a write goroutine puts on a session that is up.
LEMMA PutOnOwn ==
  ASSUME IInv, PoolSound, OnlyOwn, [Next]_vars,
         NEW i \in Slot, conns[i] # NoConn,
         NEW addresses, addresses \subseteq Own, PutOn(i, addresses)
  PROVE  /\ opened' \subseteq Own
         /\ \A c \in Conn : pings'[c] \subseteq Own
         /\ \A c \in Conn : pings'[c] # {} => c \in Own
  <1>1. conns[i] \in Own /\ conns[i] \in Conn
    BY SlotsAreOwn
  <1>2. opened' \subseteq opened \cup {conns[i]}
    BY DEF PutOn
  <1>3. \A c \in Conn : pings'[c] = IF c = conns[i] THEN pings[c] \cup addresses
                                                   ELSE pings[c]
    BY <1>1 DEF PutOn, IInv, StreamTypes
  <1> QED
    BY <1>1, <1>2, <1>3 DEF OnlyOwn

\* Who writes: a worker, or the pinger with an address of the client.
LEMMA WritesOwn ==
  ASSUME IInv, PoolSound, OnlyOwn, [Next]_vars, NEW g, NEW addresses,
         addresses \subseteq Own, Write(g, addresses),
         ping' \in Own \cup {NoConn}, UNCHANGED <<reader, tables>>
  PROVE  OnlyOwn'
  <1>1. NextSlot \in Slot
    BY NextInPool DEF IInv, CallTypes
  <1>2. Own \subseteq Own'
    BY OwnGrows
  <1>3. /\ opened' \subseteq Own
        /\ \A c \in Conn : pings'[c] \subseteq Own
        /\ \A c \in Conn : pings'[c] # {} => c \in Own
    <2>1. CASE conns[NextSlot] \in live
      <3>1. conns[NextSlot] # NoConn
        BY <2>1, LiveIsConn DEF IInv, Conn, NoConn
      <3> QED
        BY <1>1, <2>1, <3>1, PutOnOwn DEF Write
    <2>2. CASE conns[NextSlot] \notin live
      BY <2>2 DEF Write, streams, OnlyOwn
    <2> QED
      BY <2>1, <2>2
  <1> QED
    BY <1>2, <1>3 DEF OnlyOwn, tables

LEMMA OnlyOwnStep == IInv /\ PoolSound /\ OnlyOwn /\ [Next]_vars => OnlyOwn'
  <1> SUFFICES ASSUME IInv, PoolSound, OnlyOwn, [Next]_vars PROVE OnlyOwn'
    OBVIOUS
  <1>1. Own \subseteq Own' /\ Own \subseteq Conn
    BY OwnGrows
  <1>2. ASSUME UNCHANGED <<opened, pings, ping, reader, tables>>
        PROVE  OnlyOwn'
    BY <1>1, <1>2 DEF OnlyOwn, tables
  <1>3. ASSUME NEW c, pings' = PingsLeft(c), UNCHANGED <<calls, opened, reader, tables>>
        PROVE  OnlyOwn'
    BY <1>1, <1>3 DEF PingsLeft, OnlyOwn, calls, tables, IInv, StreamTypes
  <1>4. ASSUME NEW w \in Worker, SendPacket(w)
        PROVE  OnlyOwn'
    BY <1>4, WritesOwn, <1>1 DEF SendPacket, OnlyOwn
  <1>5. CASE SendPing
    <2>1. at \in Slot /\ conns[at] # NoConn
      BY <1>5 DEF SendPing, IInv, CallTypes
    <2>2. {conns[at]} \subseteq Own
      BY <2>1, SlotsAreOwn
    <2> QED
      BY <1>5, <2>2, WritesOwn DEF SendPing
  <1>6. ASSUME NEW g \in Goroutine, Deliver(g)
        PROVE  OnlyOwn'
    <2>1. waiting[g] \in Slot
      BY <1>6 DEF Deliver, IInv, CallTypes
    <2>2. conns[waiting[g]] # NoConn
      BY <1>6, LiveIsConn DEF Deliver, IInv, Conn, NoConn
    <2>3. (IF g = Pinger THEN {ping} ELSE {}) \subseteq Own
      BY <1>6 DEF Deliver, IInv, PingNamed, OnlyOwn
    <2>4. /\ opened' \subseteq Own
          /\ \A c \in Conn : pings'[c] \subseteq Own
          /\ \A c \in Conn : pings'[c] # {} => c \in Own
      BY <1>6, <2>1, <2>2, <2>3, PutOnOwn DEF Deliver
    <2> QED
      BY <1>1, <1>6, <2>4 DEF Deliver, OnlyOwn, tables
  <1>7. ASSUME NEW g \in Goroutine, DeliverLost(g)
        PROVE  OnlyOwn'
    BY <1>1, <1>7 DEF DeliverLost, OnlyOwn, streams, tables
  <1>8. CASE AcceptStream \/ AcceptFail
    <2>1. /\ opened' \subseteq opened
          /\ \A c \in Conn : reader'[c] # reader[c] => c \in opened
      BY <1>8 DEF AcceptStream, AcceptFail, IInv, ServerTypes
    <2>2. \A c \in Conn : /\ reader[c] # "none" => reader'[c] # "none"
                          /\ reader[c] = "read" => reader'[c] = "read"
      BY <1>8 DEF AcceptStream, AcceptFail, IInv, ServerTypes
    <2>3. UNCHANGED <<ping, pings, handled, routes, Conns>>
      BY <1>8 DEF AcceptStream, AcceptFail, calls, tables
    <2> QED
      BY <1>1, <2>1, <2>2, <2>3 DEF OnlyOwn
  <1>9. ASSUME NEW c \in Conn, NEW a \in Conn, RecvPing(c, a)
        PROVE  OnlyOwn'
    <2>1. a \in Own /\ c \in Own /\ reader[c] = "read"
      BY <1>9 DEF RecvPing, OnlyOwn
    <2>2. \A d \in Conn : pings'[d] \subseteq pings[d]
      BY <1>9 DEF RecvPing, IInv, StreamTypes
    <2>3. /\ routes' = routes \cup {a} /\ UNCHANGED <<opened, ping, reader, Conns>>
          /\ handled' = [conn |-> c, addr |-> a]
      BY <1>9 DEF RecvPing, Ping, calls
    <2> QED
      BY <1>1, <2>1, <2>2, <2>3 DEF OnlyOwn
  <1>13. CASE Register
    <2>1. \A b \in Conn : \/ Conns'[b] = Conns[b]
                          \/ b = handled.addr /\ Conns'[b] = handled.conn
      BY <1>13 DEF Register, Server!SetConns, IInv, ServerTypes
    <2>2. /\ handled.addr \in Own /\ handled.conn \in Own
          /\ reader[handled.conn] = "read"
      BY <1>13 DEF Register, OnlyOwn
    <2>3. handled'.conn = NoConn /\ UNCHANGED <<opened, pings, ping, reader, routes>>
      BY <1>13 DEF Register, NoPing, Ping, calls, streams
    <2> QED
      BY <1>1, <2>1, <2>2, <2>3 DEF OnlyOwn
  <1>10. ASSUME NEW c \in Conn, EndReader(c)
         PROVE  OnlyOwn'
    <2>1. \A d \in Conn : pings'[d] \subseteq pings[d]
      BY <1>10 DEF EndReader, IInv, StreamTypes
    <2>2. \A d \in Conn : /\ reader'[d] # "none" <=> reader[d] # "none"
                          /\ d # c => reader'[d] = reader[d]
      BY <1>10 DEF EndReader, IInv, ServerTypes
    <2>3. \A b \in Conn : Conns'[b] = Conns[b] \/ Conns'[b] = NoConn
      BY <1>10 DEF EndReader, Server!RemoveConnByConnPointer
    <2>4. /\ UNCHANGED <<opened, ping, handled, routes>>
          /\ reader[c] = "read" /\ handled.conn # c
      BY <1>10 DEF EndReader, calls
    <2> QED
      BY <1>1, <2>1, <2>2, <2>3, <2>4 DEF OnlyOwn
  <1>11. CASE DelRoute \/ DelConn
    <2>1. \A b \in Conn : Conns'[b] = Conns[b] \/ Conns'[b] = NoConn
      BY <1>11 DEF DelRoute, DelConn, Server!DeleteDeadConn, IInv, ServerTypes
    <2>2. routes' \subseteq routes /\ UNCHANGED <<opened, pings, ping, reader, handled>>
      BY <1>11 DEF DelRoute, DelConn, calls, streams
    <2> QED
      BY <1>1, <2>1, <2>2 DEF OnlyOwn
  <1>12. \/ UNCHANGED <<opened, pings, ping, reader, tables>>
         \/ SendPing \/ \E w \in Worker : SendPacket(w)
         \/ \E g \in Goroutine : Deliver(g) \/ DeliverLost(g)
         \/ ServerStep /\ ~\E a \in Conn : Sweep(a)
         \/ \E c : pings' = PingsLeft(c) /\ UNCHANGED <<calls, opened, reader, tables>>
    BY DEF Next, ClientStep, Connect, ConnectFail, SkipPing, Redial, RunEnds, Lose,
       StrayDial, ServerStep, Sweep, vars, calls, streams
  <1> QED
    BY <1>2, <1>3, <1>4, <1>5, <1>6, <1>7, <1>8, <1>9, <1>10, <1>11, <1>12,
       <1>13
       DEF ServerStep

\* The reverse map is sound here too: all pings of a client may travel on
\* whatever connection, and be handled in any order, and still the end of a
\* reader unbinds no other connection.
LEMMA TunnelReverseStep ==
  IInv /\ Server!ReverseSound /\ [Next]_vars => Server!ReverseSound'
  <1> SUFFICES ASSUME IInv, Server!ReverseSound, [Next]_vars
               PROVE  Server!ReverseSound'
    OBVIOUS
  <1>1. NoConn \notin Conn
    BY DEF NoConn, Conn
  <1>2. /\ Conns \in [Conn -> Conn \cup {NoConn}]
        /\ ConnsReverse \in [Conn -> Conn \cup {NoConn}]
        /\ cleaner.key \in Conn \cup {NoConn}
    BY DEF IInv, ServerTypes
  <1>3. ASSUME UNCHANGED <<Conns, ConnsReverse>>
        PROVE  Server!ReverseSound'
    BY <1>3 DEF Server!ReverseSound
  <1>4. CASE Register
    <2>1. handled.conn \in Conn /\ handled.addr \in Conn
      BY <1>4 DEF Register, IInv, ServerTypes
    <2> QED
      BY <1>1, <1>2, <1>4, <2>1 DEF Register, Server!SetConns, Server!ReverseSound
  <1>5. ASSUME NEW c \in Conn, EndReader(c)
        PROVE  Server!ReverseSound'
    BY <1>1, <1>2, <1>5 DEF EndReader, Server!RemoveConnByConnPointer,
       Server!ReverseSound
  <1>6. CASE DelConn
    BY <1>1, <1>2, <1>6 DEF DelConn, Server!DeleteDeadConn, Server!ReverseSound
  <1>7. \/ UNCHANGED <<Conns, ConnsReverse>> \/ DelConn
        \/ \E c \in Conn : EndReader(c)
        \/ Register
    <2>1. CASE ClientStep
      BY <2>1 DEF ClientStep, Connect, ConnectFail, SendPing, SkipPing, Redial,
         SendPacket, Deliver, DeliverLost, RunEnds, tables
    <2>2. CASE ServerStep
      BY <2>2 DEF ServerStep, AcceptStream, AcceptFail, RecvPing, Sweep, DelRoute, tables
    <2>3. CASE StrayDial \/ UNCHANGED vars \/ \E c \in Conn : Lose(c)
      BY <2>3 DEF StrayDial, Lose, vars, tables
    <2> QED
      BY <2>1, <2>2, <2>3 DEF Next
  <1> QED
    BY <1>3, <1>4, <1>5, <1>6, <1>7

\* In the composed system the tables hold what the client announced on sessions
\* that were accepted, and the reverse map never names an address that is bound
\* to another connection (ServerOnData, SetConns, RemoveConnByConnPointer).
THEOREM TablesCorrect == Spec => [](OnlyOwn /\ Server!ReverseSound)
  <1>1. Init => OnlyOwn
    BY DEF Init, OnlyOwn, NoConn, NoPing, Ping
  <1>2. Init => Server!ReverseSound
    BY DEF Init, Server!ReverseSound
  <1> QED
    BY <1>1, <1>2, OnlyOwnStep, TunnelReverseStep, PoolInvariance, PTL DEF Spec
=============================================================================
