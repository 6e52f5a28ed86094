------------------------------- MODULE Socks5 -------------------------------
(* One session of the SOCKS5 server: the handler goroutine that serves a    *)
(* connection (negotiation, authentication, request, dial, reply), the two  *)
(* copiers it starts to relay the streams, and the order in which the three *)
(* end.  The peers are a client that may send everything at once, without   *)
(* waiting for answers, and a target; each may end its stream or be lost.   *)
EXTENDS Naturals, Sequences

CONSTANTS
    AuthMethods,   \* the methods in Server.authMethods
    Permit,        \* the commands the rule set allows
    MaxUp,         \* bound: the items the client sends, messages and data
    MaxDown        \* bound: the items the target sends

Side    == {"client", "target"}
Method  == {"none", "userpass"}
Command == {"connect", "bind", "associate", "unknown"}
Address == {"ip", "fqdn", "unknown"}
Offer   == UNION {[1 .. n -> Method \cup {"unknown"}] : n \in 0 .. 2}

ASSUME Socks5Assumption ==
    /\ AuthMethods \subseteq Method
    /\ Permit \subseteq Command \ {"unknown"}
    /\ MaxUp \in Nat /\ MaxDown \in Nat

NoRequest    == [command |-> "none", address |-> "none"]
DialFailures == {"hostUnreachable", "connectionRefused", "networkUnreachable"}
RequestReply == DialFailures \cup
    {"success", "ruleFailure", "commandNotSupported", "addrTypeNotSupported"}
Reply == RequestReply \cup
    {"noAuth", "userPassAuth", "noAcceptable", "authSuccess", "authFailure"}

MaxSent == [s \in Side |-> IF s = "client" THEN MaxUp ELSE MaxDown]

Other(s) == CHOOSE t \in Side : t # s

VARIABLES
    hpc,        \* where the handler is
    answer,     \* the message it writes at "say", and where it goes then
    request,    \* the request that was read, or NoRequest
    replies,    \* history: the messages written to the client
    sent,       \* how many items each peer has sent: its stream is 1, 2, ...
    fin,        \* the peers that have ended their stream
    lost,       \* the peers whose connection was reset
    open,       \* the sockets of the server that are open
    used,       \* how many items of the client the handler has consumed
    got,        \* how many items of the client bufConn has read
    out,        \* history: what the copiers wrote to each peer, in order
    ended,      \* the peers towards which the copiers closed for writing
    cpc,        \* where the copier that reads from each peer is
    result,     \* what its io.Copy returned
    errCh,      \* the results in the channel, capacity 2
    collected   \* how many nil results the handler has received

hand  == <<answer, request, replies>>
peers == <<sent, fin, lost>>
relay == <<out, ended, cpc, result>>
vars  == <<hpc, hand, peers, open, used, got, relay, errCh, collected>>

Handling == {"version", "methods", "credentials", "request", "resolve",
             "command", "dial", "say", "spawn", "collect"}
Closing  == {"closeTarget", "closeConn", "done"}

TypeOK ==
    /\ hpc \in Handling \cup Closing
    /\ answer \in [reply : Reply, then : Handling \cup Closing]
    /\ request \in [command : Command, address : Address] \cup {NoRequest}
    /\ replies \in Seq(Reply)
    /\ sent \in [Side -> Nat] /\ \A s \in Side : sent[s] <= MaxSent[s]
    /\ fin \subseteq Side /\ lost \subseteq Side /\ ended \subseteq Side
    /\ open \subseteq Side
    /\ used <= got /\ got <= sent["client"]
    /\ out \in [Side -> Seq(Nat)]
    /\ cpc \in [Side -> {"idle", "copy", "shut", "report", "done"}]
    /\ result \in [Side -> {"nil", "error"}]
    /\ errCh \in Seq({"nil", "error"}) /\ Len(errCh) <= 2
    /\ collected \in 0 .. 2

Init ==
    /\ hpc = "version" /\ request = NoRequest /\ replies = <<>>
    /\ answer = [reply |-> "noAcceptable", then |-> "closeConn"]
    /\ sent = [s \in Side |-> 0]
    /\ fin = {} /\ lost = {} /\ open = {"client"} /\ used = 0 /\ got = 0
    /\ out = [s \in Side |-> <<>>] /\ ended = {}
    /\ cpc = [s \in Side |-> "idle"] /\ result = [s \in Side |-> "nil"]
    /\ errCh = <<>> /\ collected = 0

----------------------------------------------------------------------------
(* The peers. *)

Send(s) ==
    /\ s \in open /\ s \notin fin \cup lost
    /\ sent[s] < MaxSent[s]
    /\ sent' = [sent EXCEPT ![s] = @ + 1]
    /\ UNCHANGED <<hpc, hand, fin, lost, open, used, got, relay, errCh, collected>>

Fin(s) ==
    /\ s \in open /\ s \notin fin \cup lost
    /\ fin' = fin \cup {s}
    /\ UNCHANGED <<hpc, hand, sent, lost, open, used, got, relay, errCh, collected>>

Reset(s) ==
    /\ s \in open /\ s \notin lost
    /\ lost' = lost \cup {s}
    /\ UNCHANGED <<hpc, hand, sent, fin, open, used, got, relay, errCh, collected>>

----------------------------------------------------------------------------
(* The handler.  A message of the client is one item of its stream; what it *)
(* says is chosen when it is read.  bufConn reads as much as has arrived.   *)

Reading == {"version", "methods", "credentials", "request"}

\* Mutant of Consume: the message is read past bufConn.
ConsumeUnbuffered ==
    /\ used < sent["client"]
    /\ used' = used + 1
    /\ UNCHANGED got

Consume ==
    /\ used < sent["client"]
    /\ used' = used + 1
    /\ IF used < got THEN got' = got ELSE got' \in used + 1 .. sent["client"]

Quiet == UNCHANGED <<peers, open, relay, errCh, collected>>

Goto(label) == hpc' = label /\ UNCHANGED answer

\* The handler is about to write reply and, if that works, to go on at label.
Answer(reply, label) ==
    /\ hpc' = "say"
    /\ answer' = [reply |-> reply, then |-> label]

ReadVersion ==
    /\ hpc = "version"
    /\ Consume
    /\ Goto("methods") \/ Goto("closeConn")     \* another version is refused
    /\ UNCHANGED <<request, replies>> /\ Quiet

\* The first of the offered methods that the server has is m.
FirstUsable(offer, m) ==
    /\ m \in AuthMethods
    /\ \E i \in DOMAIN offer :
          offer[i] = m /\ \A j \in 1 .. i - 1 : offer[j] \notin AuthMethods

ReadMethods(offer) ==
    /\ hpc = "methods"
    /\ Consume
    /\ \/ /\ \A i \in DOMAIN offer : offer[i] \notin AuthMethods
          /\ Answer("noAcceptable", "closeConn")
       \/ FirstUsable(offer, "none") /\ Answer("noAuth", "request")
       \/ FirstUsable(offer, "userpass") /\ Answer("userPassAuth", "credentials")
    /\ UNCHANGED <<request, replies>> /\ Quiet

\* Mutant of ReadCredentials: the refusal is written and then forgotten.
ReadCredentialsLax ==
    /\ hpc = "credentials"
    /\ Consume
    /\ \/ Goto("closeConn")
       \/ Answer("authSuccess", "request")
       \/ Answer("authFailure", "request")
    /\ UNCHANGED <<request, replies>> /\ Quiet

ReadCredentials ==
    /\ hpc = "credentials"
    /\ Consume
    /\ \/ Goto("closeConn")                     \* another version of the form
       \/ Answer("authSuccess", "request")
       \/ Answer("authFailure", "closeConn")
    /\ UNCHANGED <<request, replies>> /\ Quiet

\* A wrong version ends the session without a reply, an address type the
\* server does not know with one.
ReadRequest(r) ==
    /\ hpc = "request"
    /\ Consume
    /\ \/ Goto("closeConn") /\ UNCHANGED request
       \/ /\ request' = r
          /\ r.address = "unknown"
          /\ Answer("addrTypeNotSupported", "closeConn")
       \/ request' = r /\ r.address # "unknown" /\ Goto("resolve")
    /\ UNCHANGED replies /\ Quiet

ReadFail ==
    /\ hpc \in Reading
    /\ \/ "client" \in lost
       \/ "client" \in fin /\ used = sent["client"]
    /\ Goto("closeConn")
    /\ UNCHANGED <<request, replies, used, got>> /\ Quiet

\* Mutant of Resolve: a failure is answered but the request goes on.
ResolveLax ==
    /\ hpc = "resolve"
    /\ \/ Goto("command")
       \/ request.address = "fqdn" /\ Answer("hostUnreachable", "command")
    /\ UNCHANGED <<request, replies, used, got>> /\ Quiet

Resolve ==
    /\ hpc = "resolve"
    /\ \/ Goto("command")
       \/ request.address = "fqdn" /\ Answer("hostUnreachable", "closeConn")
    /\ UNCHANGED <<request, replies, used, got>> /\ Quiet

UnknownCommand ==
    /\ hpc = "command"
    /\ request.command = "unknown"
    /\ Answer("commandNotSupported", "closeConn")
    /\ UNCHANGED <<request, replies, used, got>> /\ Quiet

\* The rule set refuses the command.
Blocked ==
    /\ hpc = "command"
    /\ request.command \notin Permit \cup {"unknown"}
    /\ Answer("ruleFailure", "closeConn")
    /\ UNCHANGED <<request, replies, used, got>> /\ Quiet

\* BIND and UDP ASSOCIATE are refused also when the rules allow them.
Unimplemented ==
    /\ hpc = "command"
    /\ request.command \in Permit \ {"connect"}
    /\ Answer("commandNotSupported", "closeConn")
    /\ UNCHANGED <<request, replies, used, got>> /\ Quiet

Connect ==
    /\ hpc = "command"
    /\ request.command = "connect" /\ "connect" \in Permit
    /\ Goto("dial")
    /\ UNCHANGED <<request, replies, used, got>> /\ Quiet

DialOk ==
    /\ hpc = "dial"
    /\ open' = open \cup {"target"}
    /\ Answer("success", "spawn")
    /\ UNCHANGED <<request, replies, peers, used, got, relay, errCh, collected>>

DialFail(reply) ==
    /\ hpc = "dial"
    /\ Answer(reply, "closeConn")
    /\ UNCHANGED <<request, replies, used, got>> /\ Quiet

Say ==
    /\ hpc = "say"
    /\ "client" \notin lost
    /\ replies' = Append(replies, answer.reply)
    /\ Goto(answer.then)
    /\ UNCHANGED <<request, used, got>> /\ Quiet

\* The write fails: the deferred functions close what is open.
SayFail ==
    /\ hpc = "say"
    /\ "client" \in lost
    /\ Goto(IF "target" \in open THEN "closeTarget" ELSE "closeConn")
    /\ UNCHANGED <<request, replies, used, got>> /\ Quiet

Spawn ==
    /\ hpc = "spawn"
    /\ cpc' = [s \in Side |-> "copy"]
    /\ Goto("collect")
    /\ UNCHANGED <<request, replies, peers, open, used, got, out, ended, result,
                   errCh, collected>>

\* Mutant of Collect: the first result, whatever it is, ends the session.
CollectOne ==
    /\ hpc = "collect"
    /\ errCh # <<>>
    /\ errCh' = Tail(errCh)
    /\ collected' = collected + (IF Head(errCh) = "nil" THEN 1 ELSE 0)
    /\ Goto("closeTarget")
    /\ UNCHANGED <<request, replies, peers, open, used, got, relay>>

\* The first error, or the second result, ends the session.
Collect ==
    /\ hpc = "collect"
    /\ errCh # <<>>
    /\ errCh' = Tail(errCh)
    /\ collected' = collected + (IF Head(errCh) = "nil" THEN 1 ELSE 0)
    /\ Goto(IF Head(errCh) = "error" \/ collected' = 2 THEN "closeTarget"
                                                        ELSE "collect")
    /\ UNCHANGED <<request, replies, peers, open, used, got, relay>>

CloseTarget ==
    /\ hpc = "closeTarget"
    /\ open' = open \ {"target"}
    /\ Goto("closeConn")
    /\ UNCHANGED <<request, replies, peers, used, got, relay, errCh, collected>>

CloseConn ==
    /\ hpc = "closeConn"
    /\ open' = open \ {"client"}
    /\ Goto("done")
    /\ UNCHANGED <<request, replies, peers, used, got, relay, errCh, collected>>

----------------------------------------------------------------------------
(* The copiers: proxy.  The one that reads from s writes to Other(s). *)

Idle == UNCHANGED <<hpc, hand, peers, open, used, got, collected>>

\* Mutant of First: the copier reads from conn and not from bufConn.
FirstUnbuffered(s) == IF s = "client" THEN got + 1 ELSE 1

\* The first item to relay: what the handler has not consumed.
First(s) == IF s = "client" THEN used + 1 ELSE 1

\* The next item to relay.
Item(s) == LET o == out[Other(s)]
           IN IF o = <<>> THEN First(s) ELSE o[Len(o)] + 1

Buffered(s)  == s = "client" /\ Item(s) <= got
Available(s) == Item(s) <= sent[s] /\ (Buffered(s) \/ s \in open)
Writable(s)  == s \in open /\ s \notin lost

Copy(s) ==
    /\ cpc[s] = "copy"
    /\ Available(s) /\ Writable(Other(s))
    /\ out' = [out EXCEPT ![Other(s)] = Append(@, Item(s))]
    /\ UNCHANGED <<ended, cpc, result, errCh>> /\ Idle

\* The end of the stream: io.Copy returns no error.
CopyEnd(s) ==
    /\ cpc[s] = "copy"
    /\ s \in open /\ s \in fin \ lost
    /\ Item(s) > sent[s]
    /\ result' = [result EXCEPT ![s] = "nil"]
    /\ cpc' = [cpc EXCEPT ![s] = "shut"]
    /\ UNCHANGED <<out, ended, errCh>> /\ Idle

\* Mutant of CopyFail: a failed copy is reported like a complete one.
CopyFailSilent(s) ==
    /\ cpc[s] = "copy"
    /\ \/ ~Buffered(s) /\ ~Writable(s)
       \/ Available(s) /\ ~Writable(Other(s))
    /\ cpc' = [cpc EXCEPT ![s] = "shut"]
    /\ UNCHANGED <<out, ended, result, errCh>> /\ Idle

\* Reading from a lost or closed socket fails, and so does writing to one.
CopyFail(s) ==
    /\ cpc[s] = "copy"
    /\ \/ ~Buffered(s) /\ ~Writable(s)
       \/ Available(s) /\ ~Writable(Other(s))
    /\ result' = [result EXCEPT ![s] = "error"]
    /\ cpc' = [cpc EXCEPT ![s] = "shut"]
    /\ UNCHANGED <<out, ended, errCh>> /\ Idle

\* Mutant of Shut: proxy without the CloseWrite.
ShutNothing(s) ==
    /\ cpc[s] = "shut"
    /\ cpc' = [cpc EXCEPT ![s] = "report"]
    /\ UNCHANGED <<out, ended, result, errCh>> /\ Idle

\* CloseWrite, whether the copy succeeded or not.
Shut(s) ==
    /\ cpc[s] = "shut"
    /\ ended' = IF Writable(Other(s)) THEN ended \cup {Other(s)} ELSE ended
    /\ cpc' = [cpc EXCEPT ![s] = "report"]
    /\ UNCHANGED <<out, result, errCh>> /\ Idle

\* Mutant of Report: an unbuffered channel, received from only by the handler.
ReportUnbuffered(s) ==
    /\ cpc[s] = "report"
    /\ hpc = "collect" /\ errCh = <<>>
    /\ errCh' = Append(errCh, result[s])
    /\ cpc' = [cpc EXCEPT ![s] = "done"]
    /\ UNCHANGED <<out, ended, result>> /\ Idle

Report(s) ==
    /\ cpc[s] = "report"
    /\ Len(errCh) < 2
    /\ errCh' = Append(errCh, result[s])
    /\ cpc' = [cpc EXCEPT ![s] = "done"]
    /\ UNCHANGED <<out, ended, result>> /\ Idle

----------------------------------------------------------------------------
Handler ==
    \/ ReadVersion
    \/ \E offer \in Offer : ReadMethods(offer)
    \/ ReadCredentials
    \/ \E r \in [command : Command, address : Address] : ReadRequest(r)
    \/ ReadFail
    \/ Resolve
    \/ UnknownCommand
    \/ Blocked
    \/ Unimplemented
    \/ Connect
    \/ DialOk
    \/ \E reply \in DialFailures : DialFail(reply)
    \/ Say
    \/ SayFail
    \/ Spawn
    \/ Collect
    \/ CloseTarget
    \/ CloseConn

Copier(s) == Copy(s) \/ CopyEnd(s) \/ CopyFail(s) \/ Shut(s) \/ Report(s)

Peer(s) == Send(s) \/ Fin(s) \/ Reset(s)

\* The session is over: so that any other stop is a deadlock.
Finished ==
    /\ hpc = "done" /\ \A s \in Side : cpc[s] \in {"idle", "done"}
    /\ UNCHANGED vars

Next == Handler \/ (\E s \in Side : Copier(s) \/ Peer(s)) \/ Finished

Fairness == WF_vars(Handler) /\ \A s \in Side : WF_vars(Copier(s))

Spec == Init /\ [][Next]_vars /\ Fairness

----------------------------------------------------------------------------
(* Properties. *)

Stream(n) == [i \in 1 .. n |-> i]

Upstream == INSTANCE Pipe WITH
    Packet <- 1 .. MaxUp, Backlog <- MaxUp,
    taken <- Stream(sent["client"]), left <- Stream(used) \o out["target"],
    broken <- hpc = "done"

Downstream == INSTANCE Pipe WITH
    Packet <- 1 .. MaxDown, Backlog <- MaxDown,
    taken <- Stream(sent["target"]), left <- out["client"],
    broken <- hpc = "done"

\* The session is a pipe in each direction.  What the client sent is consumed
\* by the handshake or written to the target, in order and without a gap, also
\* when the client sends data before the handshake is over and bufConn has
\* read it (request.go:202 copies from bufConn); what the target sent is
\* written to the client in order; and nothing is written once the handler
\* has returned.
IsRelay == Upstream!PipeSpec /\ Downstream!PipeSpec

\* A connection to a target is opened only for a client that was told it needs
\* no authentication or that its credentials are right, with a method the
\* server has (auth.go:113-130, socks5.go:140-145).
Authenticated ==
    "target" \in open =>
        /\ replies # <<>>
        /\ \/ replies[1] = "noAuth" /\ "none" \in AuthMethods
           \/ /\ replies[1] = "userPassAuth" /\ "userpass" \in AuthMethods
              /\ Len(replies) > 1 /\ replies[2] = "authSuccess"

\* A request is answered at most once, and every request that was read has been
\* answered when the handler returns, unless the client is gone.
AnsweredOnce ==
    LET answers == {i \in 1 .. Len(replies) : replies[i] \in RequestReply}
    IN /\ \A i, j \in answers : i = j
       /\ hpc = "done" /\ request # NoRequest /\ "client" \notin lost
              => answers # {}

\* While neither connection is lost, the relay ends only after both peers ended
\* their streams and everything either of them sent has been written to the
\* other (request.go:206-212: two results are waited for).
NothingCutOff ==
    hpc \in Closing /\ cpc["client"] # "idle" /\ lost = {} =>
        /\ fin = Side
        /\ \A s \in Side : Item(s) > sent[s]

\* A peer that ends its stream is passed on: the other peer sees the end of the
\* stream too, while it may go on sending, unless the session ends.
HalfCloseForwarded ==
    \A s \in Side :
        (hpc = "collect" /\ s \in fin) ~> (Other(s) \in ended \/ hpc = "done")

\* A session that loses one of its connections ends, and does not wait for the
\* peer that is still there, if the lost one had not ended its stream before or
\* the other one has (request.go:206-212).  Otherwise nobody reads the lost
\* connection any more, and the session lasts until the other peer sends or
\* ends.
SessionEnds ==
    \A s \in Side :
        (hpc = "collect" /\ s \in lost /\ (s \notin fin \/ Other(s) \in fin))
            ~> hpc = "done"

\* No copier outlives its session for ever: errCh has room for both results,
\* also when the handler has left after the first (request.go:201).
CopiersEnd ==
    hpc = "done" ~> \A s \in Side : cpc[s] \in {"idle", "done"}
=============================================================================
