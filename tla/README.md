# A TLA+ verification of qtun

qtun is a tunnel over QUIC. Clients open one or more connections to a server; each end reads IP
packets from a tun device and writes those that arrive to it. The server keeps a route table that it
learns from the pings of the clients. A SOCKS5 proxy runs beside the server, a file server with a
proxy configuration beside the client.

Everything here is translated from the Go code; comments, log lines and names of the code enter only
where a run checks what they say.

## Inventory

| component | state | operations | shared with |
|---|---|---|---|
| application, server mode (`qtun/app.go`) | `routes`: virtual IP to set of addresses; `mutex` | ping handler `ServerOnData`; eleven workers `FetchAndProcessTunPkt`; `CleanRoute` every minute | read goroutines, workers, timer goroutine |
| application, client mode (`qtun/app.go`) | none | workers call `Client.SendPacket`; `ClientOnData` writes to the tun device | client |
| server (`transport/server.go`) | `Conns`: address to connection; `ConnsReverse`: connection to its last address; `Mtx` | accept loop, `SetConns`, `DeleteDeadConn`, `RemoveConnByConnPointer`, lock-free `GetConnsByAddr` | application, read goroutines |
| server connection (`transport/server_conn.go`) | `chanWrite` (2 places), `chanClose` (1), stream, session, `isClosed` | `SendPacket`, `writeProcess`, `readProcess`, `Stop`, `IsClosed` | workers, its two goroutines, cleaner |
| client connection (`transport/client_conn.go`) | `session`, `conn`, `connected`, write buffer, `chanWrite` and `chanClose` (no buffer) | `InitConn`, `run`, `tryConnect`, `readProcess`, `writeProcess`, `Write`, `Close`, `GetConnPort` | callers, one reader, several writers |
| client (`transport/client.go`) | `conns`, round-robin `serial` | `Start`, `Stop`, `ping`, `Write`, `SendPacket` | application |
| framing and encryption (`read`, `write`, `crypto.go`) | key, buffers | flag, 16-bit length, data, nonce | both connections |
| SOCKS5 (`socks5/`) | per session: `bufConn`, the two sockets, `errCh` | `ServeConn`: negotiation, request, dial, replies; two copiers (`proxy`) | its two copiers |
| timer (`utils/timer`) | tasks by interval | `RegisterTask`, `Start`, `Stop` | application |
| tun device, protocol, configuration, logging, file server, `main.go` | | I/O, generated code and start-up | |

How they interact. A read goroutine per connection calls `ServerOnData`, which takes `App.mutex`,
changes `routes` and calls `SetConns`, which takes `Server.Mtx`. A worker takes `App.mutex` to copy
route keys, looks one up without a lock, and either sends to the connection found or deletes the route
(under `App.mutex`) and the binding (under `Mtx`) and tries again. The cleaner does the same without
`App.mutex`. A connection whose reader ends removes itself from the maps and shuts down its writer.

What is hard: two locks that are not held everywhere; results of lookups used after the maps changed;
connections that die while they are used; shutdown by either of two goroutines; Go channels that
block, panic or yield nil; write goroutines of the client that outlive their session; pings that
travel over another connection than the one they are about. `PROJECT.json` lists these hazards at
their lines with the properties about them.

What makes each component correct: a packet goes to the client it is addressed to, the two maps agree,
routes of the dead disappear, workers never spin or hang (application and server); a connection is a
bounded first-in-first-out pipe, and once it breaks all its goroutines and callers come loose (server
connection); losses are followed by reconnections, sessions do not pile up, callers are served
(client connection); what one end frames the other end reads (framing); both directions of a proxied
connection are copied to their end (SOCKS5).

## Modules

| module | what it is |
|---|---|
| `Routing` | route table, connection maps, readers, workers, cleaner |
| `MCRouting` | its instances for TLC |
| `RoutingProofs` | its theorems |
| `Pipe` | abstract: what a connection promises to those who write into it |
| `ServerConn` | one server connection in detail; implements `Pipe` |
| `ServerConnProofs` | its theorems, the refinement among them |
| `Line` | abstract: what a slot of the client's pool promises to those who write through it |
| `ClientConn` | one client connection in detail; implements `Line` |
| `ClientConnProofs` | its theorems, the refinement among them |
| `Socks5` | one session of the SOCKS5 server in detail; implements `Pipe` in each direction |
| `Socks5Proofs` | its theorems, the refinement among them |
| `Framing` | frames and encryption in one direction of a connection, with a shared write buffer |
| `FramingProofs` | its theorems |
| `Tunnel` | a client's pool of connections composed with the accept loop, readers, tables and cleaner of the server; each slot implements `Line` |
| `TunnelProofs` | its types and the refinement |
| `TunnelSessionsProofs` | its theorems about what becomes of the sessions: the pool, the accept loop, the tables |

An operator whose comment begins with "Mutant of" is a plausible bug. No specification uses it;
`PROJECT.json` names the property that fails when it takes the place of the operator it is a mutant of.

### Routing

`routes`, `Conns`, `ConnsReverse` and `isClosed` are the maps and the flag of the code; a missing
entry is `{}`, `NoConn` or `NoAddr`. In the code an empty route set and a missing one behave alike. `mutex` is
`App.mutex`, a variable because a reader holds it over two steps; a worker's critical sections are
one step each, enabled when nobody holds it. Those of `Server.Mtx` are one step each. `rpc` is where the read
goroutine of a connection is, `pc` and `job` where a worker or the cleaner is and the local variables
it carries (destination, route key, connection).

| code | actions |
|---|---|
| accept loop, `server.go:103-139` | `Accept` |
| ping, `app.go:168-187` | `RecvPing` (lock), `AddRoute`, `Register` (`SetConns`, unlock) |
| end of `readProcess`, `server_conn.go:59-74` | `ReadFail`, `Remove` (`RemoveConnByConnPointer`), `CloseConn` |
| end of `writeProcess`, `server_conn.go:239-251` | `WriterFail` |
| worker, `app.go:87-151` | `Fetch`, `LookupKey` / `LookupDrop`, `CheckDead` / `CheckAlive`, `DelRoute`, `DelConn`, `Send` |
| cleaner, `app.go:54-65` | `Sweep`, then `CheckDead` / `CheckAlive`, `DelRoute`, `DelConn` |
| concurrent use of a Go map | `MapFault` |

Left out of `SetConns`: its branch for a binding whose stream is nil. The only caller of
`NewServerConn` passes the stream it has just accepted and nothing resets it.

`MapFault` is what Go documents of maps: a read, an iteration or a deletion without the lock that
meets a write may stop the process. `ConnsFault` is about `Conns`, which `GetConnsByAddr` reads without a
lock, `RoutesFault` about the routes, which the cleaner uses without `App.mutex`. Each is enabled exactly
when two such accesses are both the next step of their goroutines and the map is not empty (a read of an
empty map returns at once). The process loses its memory, so the stopped state is one
state. A choice the runtime makes only sometimes does not hide the other runs: every property is
about those in which it did not happen.

The cleaner's iteration is a sequence of `Sweep` steps over any present route. Go leaves the order of
an iteration open, and whether entries added meanwhile are seen. Sweeps follow one another, so after
one route any other may be next.

### ServerConn and Pipe

`chanWrite` is a sequence with capacity `WriteCap` and the flag `chanShut`; `chanClose` is how many
signals it holds. A send on a closed channel, by a sender who is already blocked too, panics and
`Write` recovers: `Released`. A receive from a closed, drained channel yields nil, which the code
frames like a packet: `TakeNil`. The select of the write goroutine takes any ready branch. The deferred
function of the reader is six steps (`Cleanup`, `ReaderCloseStream`, `ReaderCloseSession`,
`ReaderSetFlag`, `StopSignal`, `StopShut`), that of the writer three. `taken` and `wire` are history
variables and no guard reads them. `Finished` stutters in the only states where the system may stop,
so that TLC finds every other deadlock.

`Pipe` says what is promised: packets leave in the order in which they were taken, each at most once,
none invented, at most `Backlog` on the way, none after the pipe broke. Under the mapping of `IsPipe`
the backlog is `WriteCap + 1` (the write goroutine holds one) and the pipe is broken when the stream or
the session is closed. That the nil of a closed channel never reaches the peer is part of it.

### ClientConn

`run` dials, opens a stream, spawns a write goroutine and reads; when reading fails it goes round
again, without waiting for the write goroutine, which may sit in its select. `wpc` and `wconn` are those
goroutines and the session each is writing to. `session`, `conn` and `connected` are the fields that all of
them read and write. `up` is the set of sessions that are neither lost nor closed. Sessions are model
values; one that nothing refers to any more may come back as a new one (`Fresh`), which keeps the
model finite without bounding the number of reconnections. `Close` sends one signal on an unbuffered
channel; `run` or any write goroutine may receive it. `WriterCrash` is the panic of a deferred function.

The module abstracts the byte stream: a write succeeds or fails with its session. `BeginWrite` joins
the test of `conn` with its use at the end of `write`: should `conn` become nil between the two, the
panic leads to the same deferred function as the error.

### Line

`Line` says what a connection of the client is to those who call `Write`: `live` (its session is up and being
read), `manned` (somebody takes packets) and `waiting` (who is blocked). While a session is up somebody takes packets; a
caller comes loose by being served and in no other way; the last one to take packets ends only when the session is no
longer up; a session that is up is never replaced.

It has two implementations. `IsLine` maps one `ClientConn`, with its write goroutines one by one (`Live`, `Staffed`,
`Blocked`), and `AreLines` maps each slot of `Tunnel`, where they are only counted. Thus the short form of a connection in
`Tunnel` and the detailed one in `ClientConn` are held to the same specification. In `ClientConn` a connection that has been told to close, or whose client has crashed, is not live any more: the signal of
`Close` may end the very write goroutine that takes the packets.

### Socks5

A session is the handler (`hpc`, the control flow of `ServeConn` down to `handleConnect`), the copier that
reads from each side (`cpc`), and the two peers. The client's stream is numbered: the handler consumes its
first items as messages of the handshake (`used`) and the rest is data. What a message says is chosen when
it is read. `bufConn` reads as much as has arrived (`got`), so a client that sends data before it has an
answer is part of the model. A reply is written in a step of its own, `Say` or `SayFail`, with what follows it.

| code | actions |
|---|---|
| `socks5.go:125-155`, `auth.go`, `NewRequest` | `ReadVersion`, `ReadMethods`, `ReadCredentials`, `ReadRequest`, `ReadFail` |
| `handleRequest`, rules, `handleBind`, `handleAssociate` | `Resolve`, `UnknownCommand`, `Blocked`, `Unimplemented`, `Connect` |
| `handleConnect` | `DialOk` / `DialFail`, `Spawn`, `Collect` |
| `sendReply` and the replies of `auth.go` | `Say` / `SayFail` |
| deferred closes, `request.go:191`, `socks5.go:122` | `CloseTarget`, `CloseConn` |
| `proxy`, `request.go:358-364` | `Copy`, `CopyEnd`, `CopyFail`, `Shut`, `Report` |
| the peers (external) | `Send`, `Fin`, `Reset` |

`IsRelay` maps a session to two pipes. Upstream, what has left is what the handshake consumed followed by
what was written to the target; downstream, what was written to the client. A pipe is broken when the
handler has returned. A message is one item: a session that ends in the middle of one fails like a session
that ends before it. Sessions share only what never changes (the configuration), so one is enough.

### Framing

The writers of `Framing` are the write goroutines that share one connection's buffer: the server has one, the
client one for each round of reading. A frame is the sequence of its parts; each part is appended to `buf` in a
step of its own (`Put`), because nothing locks the buffer. What `Flush` writes is one element of `stream`. Only
the length of a packet matters, never its content: `LengthField` is the length of the body modulo `Period`
(2^16 in the code), and a sealed body is `Tag` longer than its packet. `mixed` is a history variable: it says that
two writers have been building a frame at the same time.

| code | actions |
|---|---|
| `write`: reset of the buffer, then flag, length, body, nonce | `Begin`, `Put` |
| `WriteTo` at the end of `write` | `Flush` |
| `read`: flag, length, body, nonce, `Decrypt` | `ReadPlain`, `ReadSealed`, `ReadRefused` |
| `read` at the beginning of something that is no frame | `ReadMixed`, `ReadLost` |

A plain frame is read the same with and without a key. A sealed one that does not open ends the connection; at
an end without a key that is a panic, which is recovered. After a plain frame whose length was cut the reader takes
what is left of it for the next frame (`"lost"`), and anything may come of that. AES-GCM is assumed to do what it is
for: what was sealed opens whole and with the same key, or not at all.

### Tunnel

`Tunnel` composes a client with the server. Its parts are those of the other modules with fewer steps: a slot of
the pool is a `ClientConn` of which only the session, its write goroutines, the callers that wait and whether `run` has ended are left.
The handling of a ping is two steps, the route (`RecvPing`) and the binding (`Register`), since the cleaner does not take `App.mutex` and
may come between them; `handled` is the ping whose reader holds the mutex meanwhile. The operations on the connection maps are
those of `Routing`, taken through `Server == INSTANCE Routing WITH ...`. Sessions are numbered; since each has a local
port of its own the number is also the address that a ping announces.

| code | actions |
|---|---|
| `Client.Start`, `client.go` | `Connect`, `ConnectFail` (the slot stays nil) |
| reconnection in `run`, `client_conn.go:155-176` | `Redial` |
| the end of `run` after a panic that `readProcess` recovers from, `client_conn.go:170-173` | `RunEnds` |
| `Client.Write`, `SendPacket` | `SendPacket` |
| `SendAllPing`, `SendPing`, `GetConnPort` | `SendPing`, `SkipPing` |
| a write goroutine that takes what a caller waits with | `Deliver`, `DeliverLost` |
| accept loop and its wait for a stream, `server.go:103-139` | `AcceptStream`, `AcceptFail` |
| `ServerOnData` on a ping, the end of a reader | `RecvPing`, `Register`, `EndReader` |
| `CleanRoute`, `DeleteDeadConn` | `Sweep`, `DelRoute`, `DelConn` |
| the network (external) | `Lose`, `StrayDial` |

The address a ping names is that of one slot and the session that carries it that of the next in turn: `SendPing`
takes the address when it starts to wait, and `Deliver` writes it on whatever session the slot has by then. Pings
under way on a session are a set, so they may be handled in any order. A session that nobody ever writes on has no
stream for the server; `StrayDial` adds sessions of that kind, which the accept loop waits for, and which may stay up for ever.

A slot in `ended` keeps its dead session and the write goroutines that are left, each of which takes one packet and ends; nobody
dials for it again. `ClientConn` has the same panic in detail (`ReadPanic`).

## Runs

| run | checks | bounds |
|---|---|---|
| `routing` | `TypeOK`, `NoMisdelivery`, `ReverseSound`, `SoleAddressClean`, `RemoveSparesOthers`, `PingUndisturbed` | two clients, three connections and addresses, a worker, the cleaner |
| `routing_live` | `DeadRoutesPurged`, `ZombieCollected`, `PacketsDisposed`, `Settles` | one connection, two addresses, a worker, the cleaner |
| `routing_no_lock` | `NoConnsFault`, violated | two connections, two addresses, a worker, the cleaner |
| `routing_only_dead` | `OnlyDeadDeleted`, violated | as above |
| `server_conn` | `TypeOK`, `ClosedMeansDown`, `IsPipe`, `EndTogether`, `SendersReleased`, `AllWritten` | two senders, five calls, capacity 2 as in the code |
| `client_conn` | `TypeOK`, `NoSessionLeak`, `CloseMeansStopped`, `IsLine`, `CallersServed`, `Reconnects` | two write goroutines at a time, five sessions, a caller |
| `socks5` | `TypeOK`, `Authenticated`, `AnsweredOnce`, `NothingCutOff`, `IsRelay`, `HalfCloseForwarded`, `SessionEnds`, `CopiersEnd` | five items from the client, two from the target |
| `framing` | `TypeOK`, `Intact`, `SealedOrNothing`, `AllRead` | two writers, two packets, five lengths around 2^16 and 2^16 - 16, three choices of key at each end |
| `tunnel` | `TypeOK`, `AreLines`, `ReachableAgain`, `AllAccepted` | two slots, three sessions, no packets, the cleaner too early once |
| `tunnel_calls` | `CallersReleased`, `DeadRoutesForgotten` | one slot, a worker, one packet, three sessions, the cleaner never too early |
| `client_conn_own` | `OwnFailureOnly`, violated | as `client_conn`, four sessions |
| `client_conn_nil` | `NoCrash`, violated | as `client_conn`, four sessions |

Why the bounds are enough. In `routing`, the second client has two connections, each of which may carry
the pings of both its addresses: this is the smallest instance where the reverse map is overwritten,
a binding outlives its connection and a registration races a deletion; the first client is there for
packets to go astray to. `SYMMETRY` swaps the connections and addresses of the second client, which are
alike in every constant. The constraint `OneFails` (one connection at a time is failing: its reader is cleaning up, or its writer
has failed and its reader has not noticed) only bounds this run; the steps of a failing connection meet every step
of the workers, the cleaner and the other connections all the same. The theorems have none of these bounds. In `server_conn`, five calls fill the channel (2),
the write goroutine (1) and both senders. In `client_conn`, a second write goroutine is what makes a stale
one; `Session` exceeds the number of sessions that can be referred to at once (two fields and two
writers), so that dialling is never blocked by the bound. When both writer slots are taken `Spawn` waits,
which the code does not; `Reconnects` excepts that state (`NoSlot`) by name. In `socks5`, the longest handshake
is four messages and the shortest three, which leaves one or two items of data to be sent early, in between
or late; all orders of two sides ending, being lost and being relayed occur with one item each.

In `framing`, the lengths are 0, the last that fits sealed (65519), the first that does not, the last that fits plain
and the first that does not; `Period` and `Tag` are those of the code. Two packets and two writers are one frame that
meets another, in the buffer or behind it in the stream.

`Tunnel` has two instances, since slots, packets and sessions cannot all be had at once: two slots with a packet and three
sessions are more states than its liveness properties can be checked on in minutes. In `tunnel`, two slots make a ping travel on another
connection than its own, and three sessions allow for a slot that stays nil, a loss, a panic or a stray session. In `tunnel_calls`, one slot
goes through three sessions, and the worker and the pinger are blocked on it together; only with three sessions can a binding to the first be in the way of the
third. A slot whose session is lost always gets another (`Spare`), so that the bound on sessions never keeps a client disconnected; a slot whose `run` ends
keeps the session it would have had, which bounds the panics. `MaxEarly` bounds how often the cleaner takes an address for dead whose ping is just
being handled (`Early`). Once is enough for each of the two ways it can go wrong, the route deleted before the binding is made or after it.

`Framing` and `Tunnel` run with `CHECK_DEADLOCK FALSE`: both may really stop. `Framing` does when all packets are written and
read, or the reader has ended; `Tunnel` does when no slot could be connected and there is nothing left to send.

`ClientConn` runs with `CHECK_DEADLOCK FALSE`: after a panic of the handler `run` ends, the client keeps
going and its callers stay blocked for good. That is what the code does, and `CallersServed` names the
exception.

## What the runs show

The properties of the passing runs hold. Four things the code says of itself do not:

* `routing_no_lock`: "No need to add lock" (`server.go:166`). The lock-free read of `Conns` may run beside a write of
  it: in the trace a connection has announced an address, its reader has ended and is about to delete the binding
  (`server.go:217`), and the cleaner looks this address up. Go may stop the process.
* `routing_only_dead`: "delete dead conn" (`server.go:188`). The look and the deletion are apart, and an address that is
  not bound counts as dead: in the trace a ping has added the route and not made the binding yet when the cleaner
  looks; the reader binds its connection, and the cleaner deletes the route and this binding. No connection was dead. The next ping
  of the client repairs it (`Settles`).
* `client_conn_own`: "fail to write" (`client_conn.go:202`). A stale write goroutine takes down the new
  session, and the client has to reconnect once more.
* `client_conn_nil`: "no connection" (`client_conn.go:231`). The error is followed by a use of the nil stream
  in the deferred function after its recover, which ends the client.

Also seen while modelling, without a run: a reader of the server closes its session with the reason
"fail to write" (`server_conn.go:70`) and the writer with "fail to read" (`:246`); and a write goroutine of
the client may receive the only signal of `Close`, which then waits for `run` for ever. Nothing calls
`Client.Stop`.

Five limits the work on `Tunnel` showed, without a run of their own. First, with a slot that stayed nil the turns of the
round-robin may be shared such that packets take the connected slots and every ping falls to the nil one, where it is dropped
without a word: then the client is unreachable for as long as the packets come in step with the pings. `ReachableAgain` holds
since packets are finite here. Second, an address of a lost session that the server bound to another connection is dead for
nobody: it stays routed as long as that connection lives, so that a long-lived client leaves one such address per
reconnection. `DeadRoutesForgotten` is about those that lead to lost connections. Third, what the comment at `client.go:187` says of
the address in a ping (in Chinese: it uniquely denotes one connection of the client) is true of the address and not of the connection the server sends to: the address is bound to the
connection that carried the ping. Fourth, a slot whose `run` ended after a recovered panic is given up: its share of the packets and pings blocks whoever writes
it, workers and pinger, once the write goroutines left there are gone, and a client can become silent for good (`EndedIsFinal`). Fifth, the accept loop waits for the first stream of a session without a
deadline (`server.go:110`): a peer that keeps its session up and opens none keeps all later clients out (`HeldUp`).

And of `Framing`: when two write goroutines of the client build frames at a time, what is written may be a mixture of both, and
nothing is promised of what is read. This takes a write goroutine that outlived its session (`ClientConn`), two packets, and
the reader of the server loses its place.

A limit the run of `socks5` showed: once a client has ended its stream its copier is gone, and nobody
reads its connection any more. If it is then lost while the target is silent, the session, its sockets and a
goroutine stay until the target sends or ends. `SessionEnds` says when a session does end and excepts
exactly this. Nor has any step of the handshake a deadline: a client that stops in its middle is waited for.

## Fairness

`FairSpec` assumes what Go's scheduler and the operations give, and no more. A goroutine that can go on
does (weak fairness). A mutex is granted in the end to one who keeps asking, and a present route is
visited by some sweep (strong fairness, since others may take the mutex or change the routes in
between). In `ServerConn` a read or a write on a lost session returns, but a write on a live one may
block for ever, since QUIC's flow control depends on the peer. In `ClientConn` the server can be reached
again and again (strong fairness of `Dial` and `OpenStream`), a blocked caller is served when some
writer keeps coming back to its select, and a write on a live session returns. In `Socks5` the handler and each
copier go on when they can, dialling and resolving return, and the peers take what is written to them; that a
peer ever sends or ends is not assumed. Nothing is assumed of packets, pings, losses,
failures, callers and `Close`. In `Framing` the reader goes on while there is something to read.

In `Routing` nothing is assumed of `Send`: `SendPacket` waits for a place in `chanWrite` without a timeout (`server_conn.go:225`), and a peer
that stays up and does not read may hold a worker there for ever. Nothing is assumed of
failures, except that the reader of a connection that was closed comes to the end of what is left to read (strong fairness of
`ReadFail` there).

In `Tunnel` the goroutines of both ends go on, a dial returns (with a session or, in `Start`, without), pings are sent
round after round, and a reader that keeps asking gets `App.mutex` (strong fairness of `RecvPing` for each reader). `FairSpec` adds that the cleaner visits some dead route when there are
such again and again, `CleanSpec` that it visits each of them; the weaker assumption is enough for `tunnel`, and `DeadRoutesForgotten` needs
the stronger one. A stray peer is not assumed to time out, and nothing is assumed of losses and panics.

Premises and exceptions of liveness properties, each because the code gives no more:

* `PacketsDisposed` assumes that from some time on no ping is being handled: a client whose pings keep re-creating a route to a
  dead address keeps a worker trying, one round per ping. It is about the retry loop, which ends with a drop or with a
  connection to send to, and not about the send.
* `Settles` assumes that the address is announced again and again on connections that are up, and that from some time on nobody deletes it
  while a ping about it is handled (`Apart`). A cleaner that met every single ping would undo every one.
* `ReachableAgain` assumes the same of the cleaner, and that the accept loop is not held up for good (`HeldUp`). `AllAccepted`
  assumes only the latter.
* `ReachableAgain`, `AllAccepted` and `CallersReleased` except slots whose `run` has ended (`ended`), as `CallersServed` does for one connection.
  With one slot given up the pinger may be blocked on it for good, so that the first two except the whole client.
* `Reconnects` assumes that write goroutines from some time on start before the reader beside them has failed: one that
  starts late sets `connected` after the reader unset it, and `run` then skips dialling for that round.

## Proofs

TLAPS proves, for every value of the constants that satisfies the named assumptions:

* `Routing` (assuming only that an address belongs to the client whose connections may announce it):
  `TypeCorrect`, `Delivery`, `ReverseCorrect`, `CleanupIsLocal`, `SoleAddressCorrect`, `NoTakeOver`, `MutexSound`,
  `OnlyCleanerDisturbs`.
* `ServerConn`: `ConnTypeCorrect`, `ClosedIsDown`, `StopNeverBlocks`, and `ConnIsPipe`, the refinement of `Pipe`.
* `ClientConn`: `ClientTypeCorrect`, `NoLeak`, `CloseCorrect`, and `ConnIsLine`, the refinement of `Line`.
* `Framing`, for any width of the length field, tag, lengths, keys and number of write goroutines: `FramingTypeCorrect`,
  `FramesIntact`, `SealedIsSafe`.
* `Tunnel`, for any number of slots, workers, sessions and packets: `TunnelTypeCorrect`, `WriterThere`,
  `SlotsAreLines` (the refinement of `Line`, slot by slot), `PoolCorrect`, `BlockedCorrect`, `EndedIsFinal`, `AcceptCorrect`, `TablesCorrect`.
* `Socks5`, for any methods, rules and amounts of data: `SessionTypeCorrect`, `NoneUnauthenticated`, `RequestsAnswered`,
  `RelayComplete`, `NobodyWaitsInVain`, and `SessionIsRelay`, the refinement.

How they go. `NoMisdelivery` is not inductive: the connection a worker finds is right because the key it
carries is an address of the destination (`JobOK`), routes only hold addresses of their virtual IP
(`RoutesOK`), and an address is bound to a connection that carried a ping for it (`BindingOK`), which
holds because of what a reader is handling (`PingOK`). `RouteInv` is their conjunction. `ReverseSound` and
`SoleAddressClean` are inductive relative to it: each has a lemma on the steps that change the maps, and
every other step leaves the maps alone. `PingUndisturbed` needs to know
who holds `App.mutex` (`HoldsMutex`): the reader whose ping is being handled, so that another reader or a worker
about to delete a route has to wait.

In `ServerConnProofs`, `ClosedMeansDown` follows from the order of the two shutdowns (`ShutdownOrder`).
The refinement needs in addition that what was accepted is what was written, then what is being written,
then what is in the channel (`Flow`), and that the nil of the closed channel is only taken when the
connection is down already (`NilIsLate`); the mapped step is then `Take`, `Leave`, `Break` or a stutter.

In `ClientConnProofs`, `NoSessionLeak` needs that `run` only dials when the session before is down, which
the reader's close gives in every round but the first (`FirstRound`, `ReadEnded`); `CloseMeansStopped`
needs that no signal is taken before `run` has entered its loop (`NotYetRunning`).

`ConnIsLine` needs more. That a write goroutine is there follows neither from how many there are nor from who they are: those of earlier
sessions may end at any packet. What holds is that one of them cannot fail, because it writes to the session that is current
(`Own`): it is there as long as that session is up, read, and nobody has sent the signal of `Close` (`Manned`). For this the
stream in `conn` has to be that of the session, which it is but for the moment between dialling and opening
(`Joined`). Every step is then a step of `Line` or leaves its three variables alone (`StepLine`).

In `FramingProofs`, `Intact` and `SealedOrNothing` need that, as long as no frames were mixed, at most one writer is building
(`OneBuilder`) and the buffer holds exactly the parts it has put (`Framed`); that every packet begun is either written or being built
(`Counted`); that the stream holds the frames of what was written and not yet passed on, in order (`InStep`); and what the reader may have
passed on so far (`ReadRight`).

In `TunnelProofs`, `UpHasWriter` is inductive together with the types: a redial brings a write goroutine with it, and the steps that
end one find or leave the session lost. That the types hold needs that no slot holds a session that was not dialled, nor has more
write goroutines than there were dials (`Dialled`), and that a pinger which waits has an address to announce (`PingNamed`). For
`SlotsAreLines` the slots `Start` has not come to must be nil (`NotYet`); a step that is about one slot or one goroutine is then a
step of that line, and a stutter of the others (`SameLine`, `DialElsewhere`).

`TunnelSessionsProofs` builds on that invariant. `PoolSound` is inductive relative to it, since a slot gets a number nobody has had.
`BlockedHasHope` follows from `UpHasWriter`, from the fact that nobody is blocked on a nil slot (`NotOnNil`), and from `EndedIsDown`:
`run` closes its session before it ends. `EndedForGood`, an action property, follows from the same: no step but `Redial` connects a slot again, and that one is not
enabled for a slot that has ended. For the accept
loop, the backlog is in the order of the numbers, and nobody reads a number before it was dialled (`NotDialled`), so that
the head of the queue is not in its tail and what is behind it moves up. `OnlyOwn` needs `PoolSound`: whatever is written goes to the
session of a slot, which is never a stray one, so that a stream, a ping, a reader, a route and a binding, each of which comes from the one
before, are about sessions of the client only. `Server!ReverseSound` is the invariant of `Routing`, proved again for the composition, whose
steps are coarser.

`Socks5Proofs` has an invariant of two halves. The handshake (`HandInv`): which messages have been written at each step of the handler and
what a message that is about to be written leads to (`AuthInv`), which sockets are open where (`OpenInv`), and whether the request has been
answered (`AnswerInv`); `Authenticated` and `AnsweredOnce` follow. The relay (`RelayInv`): what was written to each peer is consecutive, after
what the handshake consumed (`OutInv`); the copiers run from the end of the handshake on (`CopierInv`); the results received and those in the
channel are as many as copiers are done (`ResultInv`); and while no connection is lost no copy fails, who has ended has copied everything,
and the handler only leaves after both (`CompleteInv`), from which `NothingCutOff` follows. For the refinement, each side of the mapping is
the stream 1, 2, ... up to a number (`Streams`), so that a step is decided by the numbers it changes (`Moves`).

Ten of these theorems are about formulas no run lists: `BindingsKept`, `StopOnce`, `NobodyStuck`, `UpHasWriter`, `BlockedHasHope`, `EndedForGood`, `MutexHeld` with `HoldsMutex`, `NoneOverlooked` with `QueueSound`,
and `PoolSound` with `OnlyOwn`. Most of them are the part of a liveness property that the prover can reach: that what is waited for exists.
`StopOnce` is what `EndTogether` and `SendersReleased` rest on, `NobodyStuck` what `SessionEnds` and `CopiersEnd` do, `BlockedHasHope` and
`PoolSound` what `CallersReleased` does, where `run` goes on (`EndedForGood` is why it excepts the others), `NoneOverlooked` what `AllAccepted` does, and `MutexHeld` what every wait for `App.mutex` does. They
show that nobody waits for what cannot come any more, for any number of goroutines; that it does come is a matter of
fairness, and TLC checks it. `BindingsKept`, which `NoTakeOver` states, is why a ping for an address that is still bound changes nothing until the old binding is
removed, dead or not.

Only model-checked: all liveness, which is out of the prover's reach (the temporal properties of `routing_live`, `server_conn`,
`client_conn`, `socks5`, `framing`, `tunnel` and `tunnel_calls`), and the four violations.

## Not modelled, and the plan

Not modelled, and why:

* The order in which the listener and the tun device start (`app.go:195`): a packet that arrives before the device is set
  panics in the reader, which is one of the causes of `ReadFail` and `ReadEnd`; the order itself happens once per process.
* `Client.Stop`, `ConnectWait`, `WriteNow`, the pools of `pool.go`, the timer's `Stop` and its other tasks: called by nobody.
* The SOCKS5 accept loop, which only starts sessions; the address rewriter, nil in this program; the bytes of its messages.
* Writes that fail half-way in `Framing`: the session ends with them, which is what `ClientConn` and `ServerConn` have.
* `GetConnPort` on a local address of another form than `[::]:port` (a host without IPv6): every round of pings panics and the
  client never becomes reachable. That depends on the host, not on an order of steps.
* The round-robin counter beyond 2^31 on 32-bit builds, and the content of packets.
* The tun device, the generated protocol code, configuration, command line, logging, hashing, file server, the proxy
  configuration file: I/O, libraries, or constant after start.

The plan, all of it done, in this order: `Routing` (where the hazards of the server meet) and its proofs; `Pipe`, `ServerConn` and the
refinement; `ClientConn` and its proofs; `Socks5`; `Framing`, from the lengths to two writers on one buffer, and its proofs; `Tunnel` and the
proofs of its safety; the proofs of `Socks5`, the refinement included.

After these came `Line`, its two implementations, and the proofs about the sessions of `Tunnel`.

What could be added to it: the fairness of `Line`, so that its two implementations share their liveness as well; a `Tunnel` with two clients that share virtual addresses, and a run of `Tunnel` with the
worker of the server, whose retry loop is now only checked in `Routing`.
