---------------------------- MODULE Socks5Proofs ----------------------------
(* Proofs about Socks5, for any authentication methods and rules, and any   *)
(* number of items sent.                                                    *)
EXTENDS Socks5, SequenceTheorems, TLAPS

----------------------------------------------------------------------------
(* The inductive invariant: types. *)

Label == Handling \cup Closing

HandTypes ==
    /\ hpc \in Label
    /\ answer \in [reply : Reply, then : Label]
    /\ request \in [command : Command, address : Address] \cup {NoRequest}
    /\ replies \in Seq(Reply)

PeerTypes ==
    /\ sent \in [Side -> Nat] /\ \A s \in Side : sent[s] <= MaxSent[s]
    /\ fin \subseteq Side /\ lost \subseteq Side
    /\ used \in Nat /\ got \in Nat
    /\ used <= got /\ got <= sent["client"]

RelayTypes ==
    /\ open \subseteq Side /\ ended \subseteq Side
    /\ out \in [Side -> Seq(Nat)]
    /\ cpc \in [Side -> {"idle", "copy", "shut", "report", "done"}]
    /\ result \in [Side -> {"nil", "error"}]
    /\ errCh \in Seq({"nil", "error"}) /\ Len(errCh) <= 2
    /\ collected \in 0 .. 2

Types == HandTypes /\ PeerTypes /\ RelayTypes

LEMMA TypesAreTypeOK == Types => TypeOK
  BY DEF Types, HandTypes, PeerTypes, RelayTypes, Label, TypeOK

----------------------------------------------------------------------------
(* The inductive invariant: authentication and the answer to the request. *)

\* The client was told that it is let in.
LetIn ==
    /\ replies # <<>>
    /\ \/ replies[1] = "noAuth" /\ "none" \in AuthMethods
       \/ /\ replies[1] = "userPassAuth" /\ "userpass" \in AuthMethods
          /\ Len(replies) > 1 /\ replies[2] = "authSuccess"

AskedPassword == replies = <<"userPassAuth">> /\ "userpass" \in AuthMethods

\* What a message about authentication leads to.
SayAuth ==
    \/ answer.then = "closeConn"
    \/ /\ answer.then = "credentials" /\ answer.reply = "userPassAuth"
       /\ replies = <<>> /\ "userpass" \in AuthMethods
    \/ /\ answer.then = "request" /\ answer.reply = "noAuth"
       /\ replies = <<>> /\ "none" \in AuthMethods
    \/ /\ answer.then = "request" /\ answer.reply = "authSuccess"
       /\ AskedPassword
    \/ answer.then = "spawn" /\ LetIn

Serving == {"request", "resolve", "command", "dial", "spawn", "collect"}

AuthInv ==
    /\ hpc \in {"version", "methods"} => replies = <<>>
    /\ hpc = "credentials" => AskedPassword
    /\ hpc \in Serving => LetIn
    /\ hpc = "say" => SayAuth

\* Where the handler is when a socket is open.
OpenInv ==
    /\ hpc # "done" => "client" \in open
    /\ hpc = "done" => open = {}
    /\ "target" \in open =>
          /\ LetIn
          /\ \/ hpc \in {"spawn", "collect", "closeTarget"}
             \/ hpc = "say" /\ answer.then = "spawn"
    /\ hpc \in {"spawn", "collect"} => "target" \in open
    /\ hpc = "say" /\ answer.then = "spawn" => "target" \in open

NoAnswer == \A i \in 1 .. Len(replies) : replies[i] \notin RequestReply

OneAnswer ==
    \E i \in 1 .. Len(replies) :
        /\ replies[i] \in RequestReply
        /\ \A j \in 1 .. Len(replies) : replies[j] \in RequestReply => j = i

\* A message is part of the authentication and no request was read yet, or the
\* answer to the request, after which the session ends or is relayed.
SayAnswer ==
    \/ /\ request = NoRequest /\ answer.reply \notin RequestReply
       /\ answer.then \in {"credentials", "request", "closeConn"}
    \/ answer.reply \in RequestReply /\ answer.then \in {"closeConn", "spawn"}

AnswerInv ==
    /\ hpc \in Reading => request = NoRequest
    /\ hpc \in Reading \cup {"resolve", "command", "dial", "say"} => NoAnswer
    /\ hpc = "say" => SayAnswer
    /\ hpc \in {"spawn", "collect"} => OneAnswer
    /\ hpc \in Closing =>
          /\ NoAnswer \/ OneAnswer
          /\ request # NoRequest /\ "client" \notin lost => OneAnswer

----------------------------------------------------------------------------
(* The inductive invariant: the relay. *)

\* The items written to each peer are those after what the handshake consumed.
OutInv ==
    /\ \A i \in 1 .. Len(out["target"]) : out["target"][i] = used + i
    /\ \A i \in 1 .. Len(out["client"]) : out["client"][i] = i
    /\ used + Len(out["target"]) <= sent["client"]
    /\ Len(out["client"]) <= sent["target"]

\* The copiers run from "spawn" on.
CopierInv ==
    /\ cpc["client"] = "idle" <=> cpc["target"] = "idle"
    /\ hpc \notin {"collect"} \cup Closing => cpc["client"] = "idle"
    /\ hpc = "collect" => cpc["client"] # "idle"
    /\ cpc["client"] = "idle" =>
          /\ \A s \in Side : out[s] = <<>>
          /\ errCh = <<>> /\ collected = 0

Done(s) == IF cpc[s] = "done" THEN 1 ELSE 0

\* While the handler waits for them, the results it has received and those in
\* the channel are those of the copiers that are done.
ResultInv ==
    hpc = "collect" => collected + Len(errCh) = Done("client") + Done("target")

\* What is left to copy from s when its copier is.
Remaining(s) == IF s = "client" THEN sent[s] - (used + Len(out["target"]))
                                ELSE sent[s] - Len(out["client"])

\* As long as no peer is lost nothing fails, who ends has copied everything,
\* and the handler ends after both.
CompleteInv ==
    lost = {} =>
        /\ \A s \in Side :
              /\ result[s] = "nil"
              /\ cpc[s] \in {"shut", "report", "done"} =>
                    s \in fin /\ Remaining(s) = 0
        /\ \A i \in 1 .. Len(errCh) : errCh[i] = "nil"
        /\ hpc \in Closing /\ cpc["client"] # "idle" =>
              \A s \in Side : cpc[s] = "done"

HandInv  == HandTypes /\ AuthInv /\ OpenInv /\ AnswerInv
RelayInv == PeerTypes /\ RelayTypes /\ OutInv /\ CopierInv /\ ResultInv
                /\ CompleteInv
IInv == HandInv /\ RelayInv

----------------------------------------------------------------------------
(* Lemmas. *)

LEMMA TheOther == Other("client") = "target" /\ Other("target") = "client"
  <1>1. \E t \in Side : t # "client"
    BY DEF Side
  <1>2. \E t \in Side : t # "target"
    BY DEF Side
  <1> QED
    BY <1>1, <1>2 DEF Other, Side

\* The next item a copier relays.
LEMMA ItemIs ==
  ASSUME Types, OutInv
  PROVE  /\ Item("client") = used + Len(out["target"]) + 1
         /\ Item("target") = Len(out["client"]) + 1
         /\ Item("client") \in Nat /\ Item("target") \in Nat
  <1>1. /\ out["target"] \in Seq(Nat) /\ out["client"] \in Seq(Nat)
        /\ used \in Nat
    BY DEF Types, RelayTypes, PeerTypes, Side
  <1>2. Item("client") = used + Len(out["target"]) + 1
    <2>1. CASE out["target"] = <<>>
      BY <2>1, <1>1, TheOther DEF Item, First
    <2>2. CASE out["target"] # <<>>
      <3>1. Len(out["target"]) \in 1 .. Len(out["target"])
        BY <2>2, <1>1
      <3>2. out["target"][Len(out["target"])] = used + Len(out["target"])
        BY <3>1 DEF OutInv
      <3> QED
        BY <2>2, <3>2, TheOther DEF Item
    <2> QED
      BY <2>1, <2>2
  <1>3. Item("target") = Len(out["client"]) + 1
    <2>1. CASE out["client"] = <<>>
      BY <2>1, <1>1, TheOther DEF Item, First
    <2>2. CASE out["client"] # <<>>
      <3>1. Len(out["client"]) \in 1 .. Len(out["client"])
        BY <2>2, <1>1
      <3>2. out["client"][Len(out["client"])] = Len(out["client"])
        BY <3>1 DEF OutInv
      <3> QED
        BY <2>2, <3>2, TheOther DEF Item
    <2> QED
      BY <2>1, <2>2
  <1> QED
    BY <1>1, <1>2, <1>3

LEMMA LetInStays ==
  ASSUME LetIn, replies \in Seq(Reply), NEW r, replies' = Append(replies, r)
  PROVE  LetIn'
  BY DEF LetIn

LEMMA SameReplies ==
  ASSUME UNCHANGED replies
  PROVE  /\ LetIn' <=> LetIn
         /\ AskedPassword' <=> AskedPassword
         /\ NoAnswer' <=> NoAnswer
         /\ OneAnswer' <=> OneAnswer
  BY DEF LetIn, AskedPassword, NoAnswer, OneAnswer

\* A message that is no answer changes nothing, the first answer is the only one.
LEMMA AnswerAppended ==
  ASSUME replies \in Seq(Reply), NoAnswer, NEW r \in Reply,
         replies' = Append(replies, r)
  PROVE  /\ r \notin RequestReply => NoAnswer'
         /\ r \in RequestReply => OneAnswer'
  <1>1. /\ Len(replies') = Len(replies) + 1
        /\ Len(replies) \in Nat
        /\ replies'[Len(replies) + 1] = r
        /\ \A i \in 1 .. Len(replies) : replies'[i] = replies[i]
    OBVIOUS
  <1>2. \A i \in 1 .. Len(replies') : i = Len(replies) + 1 \/ i \in 1 .. Len(replies)
    BY <1>1
  <1>3. ASSUME r \notin RequestReply
        PROVE  NoAnswer'
    BY <1>1, <1>2, <1>3 DEF NoAnswer
  <1>4. ASSUME r \in RequestReply
        PROVE  OneAnswer'
    <2>1. Len(replies) + 1 \in 1 .. Len(replies')
      BY <1>1
    <2> QED
      BY <1>1, <1>2, <1>4, <2>1 DEF NoAnswer, OneAnswer
  <1> QED
    BY <1>3, <1>4

----------------------------------------------------------------------------
(* The handler, before the relay. *)

Before == hpc \in Label \ ({"collect"} \cup Closing)

\* Reading, answering and failing leave the relay as it is, which has not begun.
LEMMA QuietRelay ==
  ASSUME IInv, Before, Quiet, hpc' \in Label \ {"collect"},
         UNCHANGED <<used, got>> \/ Consume
  PROVE  RelayInv'
  <1>1. /\ UNCHANGED <<sent, fin, lost, open, out, ended, cpc, result, errCh,
                       collected>>
        /\ cpc["client"] = "idle" /\ cpc["target"] = "idle"
        /\ out["client"] = <<>> /\ out["target"] = <<>>
    BY DEF Quiet, peers, relay, IInv, RelayInv, CopierInv, Before, Side
  <1>2. PeerTypes' /\ used' \in Nat /\ used' <= sent["client"]
    <2>1. CASE UNCHANGED <<used, got>>
      BY <2>1, <1>1 DEF IInv, RelayInv, PeerTypes, Side
    <2>2. CASE Consume
      <3>1. sent["client"] \in Nat /\ used \in Nat /\ got \in Nat
        BY DEF IInv, RelayInv, PeerTypes, Side
      <3>2. /\ used' = used + 1 /\ used < sent["client"]
            /\ used' <= got' /\ got' <= sent["client"] /\ got' \in Nat
        BY <2>2, <3>1 DEF Consume, IInv, RelayInv, PeerTypes
      <3> QED
        BY <1>1, <3>1, <3>2 DEF IInv, RelayInv, PeerTypes
    <2> QED
      BY <2>1, <2>2
  <1>3. RelayTypes'
    BY <1>1 DEF IInv, RelayInv, RelayTypes
  <1>4. OutInv'
    <2>1. Len(out["client"]) = 0 /\ Len(out["target"]) = 0
      BY <1>1
    <2>2. sent["target"] \in Nat
      BY DEF IInv, RelayInv, PeerTypes, Side
    <2> QED
      BY <1>1, <1>2, <2>1, <2>2 DEF OutInv
  <1>5. CopierInv' /\ ResultInv'
    BY <1>1 DEF IInv, RelayInv, CopierInv, ResultInv
  <1>6. CompleteInv'
    BY <1>1 DEF IInv, RelayInv, CompleteInv, Side
  <1> QED
    BY <1>2, <1>3, <1>4, <1>5, <1>6 DEF RelayInv

\* Where the handler goes without a message, in the handshake.
LEMMA GoOn ==
  ASSUME IInv, Before, hpc # "spawn", UNCHANGED <<answer, replies, open, lost>>,
         \/ hpc = "version" /\ hpc' = "methods" /\ UNCHANGED request
         \/ hpc \in Reading /\ hpc' = "closeConn" /\ UNCHANGED request
         \/ /\ hpc = "request" /\ hpc' = "resolve"
            /\ request' \in [command : Command, address : Address]
         \/ hpc = "resolve" /\ hpc' = "command" /\ UNCHANGED request
         \/ hpc = "command" /\ hpc' = "dial" /\ UNCHANGED request
  PROVE  HandInv'
  <1> USE DEF Reading, Handling, Closing, Serving, Label
  <1>1. HandTypes'
    BY DEF IInv, HandInv, HandTypes
  <1>2. AuthInv'
    BY SameReplies DEF IInv, HandInv, AuthInv
  <1>3. OpenInv'
    BY SameReplies DEF IInv, HandInv, OpenInv
  <1>4. AnswerInv'
    BY SameReplies DEF IInv, HandInv, AnswerInv
  <1> QED
    BY <1>1, <1>2, <1>3, <1>4 DEF HandInv

\* What the handler decides to say, in the handshake and to the request.
LEMMA Decide ==
  ASSUME IInv, Before, hpc \notin {"spawn", "say"}, NEW reply \in Reply,
         NEW label \in Label, Answer(reply, label),
         UNCHANGED <<replies, open, lost>>,
         \/ /\ hpc \in Reading /\ UNCHANGED request
            /\ reply \notin RequestReply
            /\ \/ label = "closeConn"
               \/ /\ hpc = "methods" /\ label = "request" /\ reply = "noAuth"
                  /\ "none" \in AuthMethods
               \/ /\ hpc = "methods" /\ label = "credentials"
                  /\ reply = "userPassAuth" /\ "userpass" \in AuthMethods
               \/ /\ hpc = "credentials" /\ label = "request"
                  /\ reply = "authSuccess"
         \/ /\ reply \in RequestReply /\ label = "closeConn"
            /\ request' \in {request} \cup [command : Command, address : Address]
  PROVE  HandInv'
  <1> USE DEF Reading, Handling, Closing, Serving, Label
  <1>1. hpc' = "say" /\ answer' = [reply |-> reply, then |-> label]
    BY DEF Answer
  <1>2. answer'.reply = reply /\ answer'.then = label
    BY <1>1
  <1>3. HandTypes'
    BY <1>1 DEF IInv, HandInv, HandTypes
  <1>4. SayAuth'
    BY <1>2, SameReplies DEF IInv, HandInv, AuthInv, SayAuth, AskedPassword
  <1>5. AuthInv'
    BY <1>1, <1>4, SameReplies DEF AuthInv
  <1>6. OpenInv'
    BY <1>1, <1>2, SameReplies DEF IInv, HandInv, OpenInv, Before
  <1>7. SayAnswer'
    BY <1>2 DEF IInv, HandInv, AnswerInv, SayAnswer
  <1>8. AnswerInv'
    BY <1>1, <1>7, SameReplies DEF IInv, HandInv, AnswerInv, Before
  <1> QED
    BY <1>3, <1>5, <1>6, <1>8 DEF HandInv

LEMMA DialOkStep ==
  ASSUME IInv, DialOk
  PROVE  IInv'
  <1> USE DEF Reading, Handling, Closing, Serving, Label
  <1>1. /\ hpc = "dial" /\ hpc' = "say" /\ open' = open \cup {"target"}
        /\ answer' = [reply |-> "success", then |-> "spawn"]
        /\ UNCHANGED <<request, replies, sent, fin, lost, out, ended, cpc, result,
                       used, got, errCh, collected>>
    BY DEF DialOk, Answer, peers, relay
  <1>2. answer'.reply = "success" /\ answer'.then = "spawn"
    BY <1>1
  <1>3. "success" \in Reply /\ "success" \in RequestReply
    BY DEF Reply, RequestReply
  <1>4. HandTypes'
    BY <1>1, <1>3 DEF IInv, HandInv, HandTypes
  <1>5. AuthInv'
    BY <1>1, <1>2, SameReplies DEF IInv, HandInv, AuthInv, SayAuth
  <1>6. OpenInv'
    BY <1>1, <1>2, SameReplies DEF IInv, HandInv, AuthInv, OpenInv
  <1>7. AnswerInv'
    BY <1>1, <1>2, <1>3, SameReplies DEF IInv, HandInv, AnswerInv, SayAnswer
  <1>8. PeerTypes' /\ RelayTypes'
    BY <1>1 DEF IInv, RelayInv, PeerTypes, RelayTypes, Side
  <1>9. OutInv' /\ CopierInv' /\ ResultInv' /\ CompleteInv'
    BY <1>1 DEF IInv, RelayInv, OutInv, CopierInv, ResultInv, CompleteInv,
                Remaining
  <1> QED
    BY <1>4, <1>5, <1>6, <1>7, <1>8, <1>9 DEF IInv, HandInv, RelayInv

LEMMA SayStep ==
  ASSUME IInv, Say
  PROVE  IInv'
  <1> USE DEF Reading, Handling, Closing, Serving, Label
  <1>1. /\ hpc = "say" /\ hpc' = answer.then
        /\ replies' = Append(replies, answer.reply)
        /\ UNCHANGED <<answer, request, used, got>> /\ Quiet
    BY DEF Say, Goto
  <1>2. UNCHANGED <<open, lost>>
    BY <1>1 DEF Quiet, peers
  <1>3. /\ replies \in Seq(Reply) /\ answer.reply \in Reply
        /\ answer.then \in Label
    BY DEF IInv, HandInv, HandTypes
  <1>4. HandTypes'
    BY <1>1, <1>3 DEF IInv, HandInv, HandTypes
  <1>5. SayAuth /\ SayAnswer /\ NoAnswer
    BY <1>1 DEF IInv, HandInv, AuthInv, AnswerInv
  <1>6. hpc' \in {"closeConn", "credentials", "request", "spawn"}
    BY <1>1, <1>5 DEF SayAuth
  <1>7. hpc' = "credentials" => AskedPassword'
    <2>1. Append(<<>>, "userPassAuth") = <<"userPassAuth">>
      OBVIOUS
    <2> QED
      BY <1>1, <1>5, <2>1 DEF SayAuth, AskedPassword
  <1>8. hpc' \in {"request", "spawn"} => LetIn'
    <2>1. CASE answer.then = "request" /\ answer.reply = "noAuth"
      BY <2>1, <1>1, <1>5 DEF SayAuth, LetIn
    <2>2. CASE answer.then = "request" /\ answer.reply = "authSuccess"
      <3>1. replies = <<"userPassAuth">> /\ "userpass" \in AuthMethods
        BY <2>2, <1>5 DEF SayAuth, AskedPassword
      <3>2. /\ replies' # <<>> /\ Len(replies') = 2
            /\ replies'[1] = "userPassAuth" /\ replies'[2] = "authSuccess"
        BY <3>1, <2>2, <1>1, <1>3
      <3> QED
        BY <3>1, <3>2 DEF LetIn
    <2>3. CASE answer.then = "spawn"
      BY <2>3, <1>1, <1>3, <1>5, LetInStays DEF SayAuth
    <2> QED
      BY <2>1, <2>2, <2>3, <1>1, <1>5 DEF SayAuth
  <1>9. AuthInv'
    BY <1>6, <1>7, <1>8 DEF AuthInv
  <1>10. OpenInv'
    BY <1>1, <1>2, <1>3, <1>6, LetInStays DEF IInv, HandInv, OpenInv
  <1>11. AnswerInv'
    <2>1. /\ answer.reply \notin RequestReply => NoAnswer'
          /\ answer.reply \in RequestReply => OneAnswer'
      BY <1>1, <1>3, <1>5, AnswerAppended
    <2> QED
      BY <1>1, <1>2, <1>5, <1>6, <2>1 DEF AnswerInv, SayAnswer
  <1>12. RelayInv'
    BY <1>1, <1>6, QuietRelay DEF Before
  <1> QED
    BY <1>4, <1>9, <1>10, <1>11, <1>12 DEF IInv, HandInv

LEMMA SayFailStep ==
  ASSUME IInv, SayFail
  PROVE  IInv'
  <1> USE DEF Reading, Handling, Closing, Serving, Label
  <1>1. /\ hpc = "say" /\ "client" \in lost
        /\ hpc' = IF "target" \in open THEN "closeTarget" ELSE "closeConn"
        /\ UNCHANGED <<answer, request, replies, used, got>> /\ Quiet
    BY DEF SayFail, Goto
  <1>2. UNCHANGED <<open, lost>>
    BY <1>1 DEF Quiet, peers
  <1>3. HandTypes'
    BY <1>1 DEF IInv, HandInv, HandTypes
  <1>4. AuthInv'
    BY <1>1 DEF AuthInv
  <1>5. OpenInv'
    BY <1>1, <1>2, SameReplies DEF IInv, HandInv, OpenInv
  <1>6. AnswerInv'
    BY <1>1, <1>2, SameReplies DEF IInv, HandInv, AnswerInv
  <1>7. RelayInv'
    BY <1>1, QuietRelay DEF Before
  <1> QED
    BY <1>3, <1>4, <1>5, <1>6, <1>7 DEF IInv, HandInv

\* The steps of the handshake and of the request up to the dial.
LEMMA RequestStep ==
  ASSUME IInv,
         \/ ReadVersion \/ ReadCredentials \/ ReadFail \/ Resolve
         \/ \E offer \in Offer : ReadMethods(offer)
         \/ \E r \in [command : Command, address : Address] : ReadRequest(r)
         \/ UnknownCommand \/ Blocked \/ Unimplemented \/ Connect
         \/ \E reply \in DialFailures : DialFail(reply)
  PROVE  IInv'
  <1> USE DEF Reading, Handling, Closing, Label
  <1>1. /\ hpc \in Reading \cup {"resolve", "command", "dial"} /\ Before
        /\ hpc # "spawn" /\ hpc # "say"
        /\ Quiet /\ UNCHANGED replies /\ (UNCHANGED <<used, got>> \/ Consume)
    BY DEF ReadVersion, ReadCredentials, ReadFail, Resolve, ReadMethods,
           ReadRequest, UnknownCommand, Blocked, Unimplemented, Connect, DialFail,
           Before
  <1>2. UNCHANGED <<open, lost>>
    BY <1>1 DEF Quiet, peers
  <1>3. HandInv'
    <2> USE DEF Reply, RequestReply, DialFailures
    <2>1. CASE ReadVersion
      BY <2>1, <1>1, <1>2, GoOn DEF ReadVersion, Goto
    <2>2. CASE ReadCredentials
      <3>1. CASE Goto("closeConn")
        BY <3>1, <2>2, <1>1, <1>2, GoOn DEF ReadCredentials, Goto
      <3>2. CASE Answer("authSuccess", "request")
        BY <3>2, <2>2, <1>1, <1>2, Decide DEF ReadCredentials
      <3>3. CASE Answer("authFailure", "closeConn")
        BY <3>3, <2>2, <1>1, <1>2, Decide DEF ReadCredentials
      <3> QED
        BY <2>2, <3>1, <3>2, <3>3 DEF ReadCredentials
    <2>3. CASE ReadFail
      BY <2>3, <1>1, <1>2, GoOn DEF ReadFail, Goto
    <2>4. CASE Resolve
      <3>1. CASE Goto("command")
        BY <3>1, <2>4, <1>1, <1>2, GoOn DEF Resolve, Goto
      <3>2. CASE Answer("hostUnreachable", "closeConn")
        BY <3>2, <2>4, <1>1, <1>2, Decide DEF Resolve
      <3> QED
        BY <2>4, <3>1, <3>2 DEF Resolve
    <2>5. ASSUME NEW offer \in Offer, ReadMethods(offer)
          PROVE  HandInv'
      <3>1. CASE Answer("noAcceptable", "closeConn")
        BY <3>1, <2>5, <1>1, <1>2, Decide DEF ReadMethods
      <3>2. CASE FirstUsable(offer, "none") /\ Answer("noAuth", "request")
        BY <3>2, <2>5, <1>1, <1>2, Decide DEF ReadMethods, FirstUsable
      <3>3. CASE /\ FirstUsable(offer, "userpass")
                 /\ Answer("userPassAuth", "credentials")
        BY <3>3, <2>5, <1>1, <1>2, Decide DEF ReadMethods, FirstUsable
      <3> QED
        BY <2>5, <3>1, <3>2, <3>3 DEF ReadMethods
    <2>6. ASSUME NEW r \in [command : Command, address : Address],
                 ReadRequest(r)
          PROVE  HandInv'
      <3>1. CASE Answer("addrTypeNotSupported", "closeConn") /\ request' = r
        BY <3>1, <2>6, <1>1, <1>2, Decide DEF ReadRequest
      <3>2. CASE Goto("closeConn") /\ UNCHANGED request
        BY <3>2, <2>6, <1>1, <1>2, GoOn DEF ReadRequest, Goto
      <3>3. CASE Goto("resolve") /\ request' = r
        BY <3>3, <2>6, <1>1, <1>2, GoOn DEF ReadRequest, Goto
      <3> QED
        BY <2>6, <3>1, <3>2, <3>3 DEF ReadRequest
    <2>7. CASE UnknownCommand \/ Unimplemented
      <3>1. Answer("commandNotSupported", "closeConn") /\ UNCHANGED request
        BY <2>7 DEF UnknownCommand, Unimplemented
      <3> QED
        BY <3>1, <1>1, <1>2, Decide
    <2>8. CASE Blocked
      BY <2>8, <1>1, <1>2, Decide DEF Blocked
    <2>9. CASE Connect
      BY <2>9, <1>1, <1>2, GoOn DEF Connect, Goto
    <2>10. ASSUME NEW reply \in DialFailures, DialFail(reply)
           PROVE  HandInv'
      BY <2>10, <1>1, <1>2, Decide DEF DialFail
    <2> QED
      BY <2>1, <2>2, <2>3, <2>4, <2>5, <2>6, <2>7, <2>8, <2>9, <2>10
  <1>4. hpc' \in Label \ {"collect"}
    BY DEF ReadVersion, ReadCredentials, ReadFail, Resolve, ReadMethods,
           ReadRequest, UnknownCommand, Blocked, Unimplemented, Connect, DialFail,
           Goto, Answer
  <1> QED
    BY <1>1, <1>3, <1>4, QuietRelay DEF IInv
----------------------------------------------------------------------------
(* The handler, from the relay to the end. *)

LEMMA SpawnStep ==
  ASSUME IInv, Spawn
  PROVE  IInv'
  <1> USE DEF Reading, Handling, Closing, Serving, Label
  <1>1. /\ hpc = "spawn" /\ hpc' = "collect"
        /\ cpc' = [s \in Side |-> "copy"]
        /\ UNCHANGED <<answer, request, replies, sent, fin, lost, open, used, got,
                       out, ended, result, errCh, collected>>
    BY DEF Spawn, Goto, peers
  <1>2. HandTypes'
    BY <1>1 DEF IInv, HandInv, HandTypes
  <1>3. AuthInv'
    BY <1>1, SameReplies DEF IInv, HandInv, AuthInv
  <1>4. OpenInv'
    BY <1>1, SameReplies DEF IInv, HandInv, OpenInv
  <1>5. AnswerInv'
    BY <1>1, SameReplies DEF IInv, HandInv, AnswerInv
  <1>6. PeerTypes' /\ RelayTypes'
    BY <1>1 DEF IInv, RelayInv, PeerTypes, RelayTypes
  <1>7. cpc'["client"] = "copy" /\ cpc'["target"] = "copy"
    BY <1>1 DEF Side
  <1>8. errCh = <<>> /\ collected = 0
    BY <1>1 DEF IInv, RelayInv, CopierInv
  <1>9. OutInv' /\ CopierInv'
    BY <1>1, <1>7 DEF IInv, RelayInv, OutInv, CopierInv
  <1>10. ResultInv'
    <2>1. Done("client")' = 0 /\ Done("target")' = 0
      BY <1>7 DEF Done
    <2> QED
      BY <1>1, <1>8, <2>1 DEF ResultInv
  <1>11. CompleteInv'
    BY <1>1, <1>7 DEF IInv, RelayInv, CompleteInv, Side
  <1> QED
    BY <1>2, <1>3, <1>4, <1>5, <1>6, <1>9, <1>10, <1>11
       DEF IInv, HandInv, RelayInv

LEMMA CollectStep ==
  ASSUME IInv, Collect
  PROVE  IInv'
  <1> USE DEF Reading, Handling, Closing, Serving, Label
  <1>1. /\ hpc = "collect" /\ errCh # <<>> /\ errCh' = Tail(errCh)
        /\ collected' = collected + (IF Head(errCh) = "nil" THEN 1 ELSE 0)
        /\ hpc' = IF Head(errCh) = "error" \/ collected' = 2 THEN "closeTarget"
                                                             ELSE "collect"
        /\ UNCHANGED <<answer, request, replies, sent, fin, lost, open, used, got,
                       out, ended, cpc, result>>
    BY DEF Collect, Goto, peers, relay
  <1>2. HandTypes'
    BY <1>1 DEF IInv, HandInv, HandTypes
  <1>3. AuthInv'
    BY <1>1, SameReplies DEF IInv, HandInv, AuthInv
  <1>4. OpenInv'
    BY <1>1, SameReplies DEF IInv, HandInv, OpenInv
  <1>5. AnswerInv'
    BY <1>1, SameReplies DEF IInv, HandInv, AnswerInv
  <1>6. /\ errCh \in Seq({"nil", "error"}) /\ collected \in 0 .. 2
        /\ cpc["client"] # "idle" /\ cpc["target"] # "idle"
        /\ collected + Len(errCh) = Done("client") + Done("target")
    BY <1>1 DEF IInv, RelayInv, RelayTypes, CopierInv, ResultInv
  <1>7. /\ Len(errCh) \in Nat /\ Len(errCh) > 0
        /\ errCh' \in Seq({"nil", "error"}) /\ Len(errCh') = Len(errCh) - 1
        /\ Head(errCh) = errCh[1] /\ Head(errCh) \in {"nil", "error"}
        /\ \A i \in 1 .. Len(errCh') : errCh'[i] = errCh[i + 1]
    BY <1>1, <1>6
  <1>8. Done("client") \in 0 .. 1 /\ Done("target") \in 0 .. 1
    BY DEF Done
  <1>9. collected' \in 0 .. 2
    BY <1>1, <1>6, <1>7, <1>8
  <1>10. PeerTypes' /\ RelayTypes'
    <2>1. Len(errCh) <= 2
      BY DEF IInv, RelayInv, RelayTypes
    <2> QED
      BY <1>1, <1>7, <1>9, <2>1 DEF IInv, RelayInv, PeerTypes, RelayTypes
  <1>11. OutInv' /\ CopierInv'
    BY <1>1, <1>6 DEF IInv, RelayInv, OutInv, CopierInv
  <1>12. Done("client")' = Done("client") /\ Done("target")' = Done("target")
    BY <1>1 DEF Done
  <1>13. ResultInv'
    BY <1>1, <1>6, <1>7, <1>8, <1>12 DEF ResultInv
  <1>14. CompleteInv'
    <2> SUFFICES ASSUME lost' = {}
                 PROVE  CompleteInv'
      BY DEF CompleteInv
    <2>1. /\ \A i \in 1 .. Len(errCh) : errCh[i] = "nil"
          /\ \A s \in Side :
                /\ result[s] = "nil"
                /\ cpc[s] \in {"shut", "report", "done"} =>
                      s \in fin /\ Remaining(s) = 0
      BY <1>1 DEF IInv, RelayInv, CompleteInv
    <2>2. Head(errCh) = "nil"
      BY <1>7, <2>1
    <2>3. \A i \in 1 .. Len(errCh') : errCh'[i] = "nil"
      BY <1>7, <2>1
    <2>4. ASSUME hpc' \in Closing
          PROVE  \A s \in Side : cpc[s] = "done"
      <3>1. collected' = 2
        BY <1>1, <2>2, <2>4
      <3>2. Done("client") + Done("target") >= 2
        BY <1>1, <1>6, <1>7, <2>2, <3>1
      <3>3. Done("client") = 1 /\ Done("target") = 1
        BY <1>8, <3>2
      <3> QED
        BY <3>3 DEF Done, Side
    <2>5. \A s \in Side : Remaining(s)' = Remaining(s)
      BY <1>1 DEF Remaining
    <2> QED
      BY <1>1, <2>1, <2>3, <2>4, <2>5 DEF CompleteInv
  <1> QED
    BY <1>2, <1>3, <1>4, <1>5, <1>10, <1>11, <1>13, <1>14
       DEF IInv, HandInv, RelayInv

LEMMA CloseStep ==
  ASSUME IInv, CloseTarget \/ CloseConn
  PROVE  IInv'
  <1> USE DEF Reading, Handling, Closing, Serving, Label
  <1>1. /\ \/ /\ hpc = "closeTarget" /\ hpc' = "closeConn"
              /\ open' = open \ {"target"}
           \/ /\ hpc = "closeConn" /\ hpc' = "done"
              /\ open' = open \ {"client"}
        /\ UNCHANGED <<answer, request, replies, sent, fin, lost, used, got, out,
                       ended, cpc, result, errCh, collected>>
    BY DEF CloseTarget, CloseConn, Goto, peers, relay
  <1>2. HandTypes'
    BY <1>1 DEF IInv, HandInv, HandTypes
  <1>3. AuthInv'
    BY <1>1 DEF AuthInv
  <1>4. OpenInv'
    BY <1>1, SameReplies DEF IInv, HandInv, RelayInv, RelayTypes, OpenInv, Side
  <1>5. AnswerInv'
    BY <1>1, SameReplies DEF IInv, HandInv, AnswerInv
  <1>6. PeerTypes' /\ RelayTypes'
    BY <1>1 DEF IInv, RelayInv, PeerTypes, RelayTypes
  <1>7. OutInv' /\ CopierInv' /\ ResultInv'
    BY <1>1 DEF IInv, RelayInv, OutInv, CopierInv, ResultInv
  <1>8. CompleteInv'
    BY <1>1 DEF IInv, RelayInv, CompleteInv, Remaining
  <1> QED
    BY <1>2, <1>3, <1>4, <1>5, <1>6, <1>7, <1>8 DEF IInv, HandInv, RelayInv
----------------------------------------------------------------------------
(* The copiers and the peers. *)

LEMMA HandSame ==
  ASSUME HandInv, UNCHANGED <<hpc, answer, request, replies, open>>,
         lost \subseteq lost'
  PROVE  HandInv'
  <1>1. HandTypes'
    BY DEF HandInv, HandTypes
  <1>2. AuthInv'
    BY SameReplies DEF HandInv, AuthInv, SayAuth
  <1>3. OpenInv'
    BY SameReplies DEF HandInv, OpenInv
  <1>4. AnswerInv'
    BY SameReplies DEF HandInv, AnswerInv, SayAnswer
  <1> QED
    BY <1>1, <1>2, <1>3, <1>4 DEF HandInv

\* A copier that is at work has not been idle and does not become idle.
LEMMA AtWork ==
  ASSUME IInv, NEW s \in Side, cpc[s] # "idle"
  PROVE  /\ cpc["client"] # "idle" /\ cpc["target"] # "idle"
         /\ hpc \in {"collect"} \cup Closing
  BY DEF IInv, RelayInv, CopierInv, Side

\* While no peer is lost, a copier at work finds both sockets open and both
\* peers there.
LEMMA NothingFails ==
  ASSUME IInv, NEW s \in Side, cpc[s] \in {"copy", "shut", "report"},
         lost = {}
  PROVE  hpc = "collect" /\ open = Side
  <1>1. hpc \in {"collect"} \cup Closing /\ cpc["client"] # "idle"
    BY AtWork
  <1>2. hpc = "collect"
    BY <1>1 DEF IInv, RelayInv, CompleteInv
  <1>3. "client" \in open /\ "target" \in open
    BY <1>2 DEF IInv, HandInv, OpenInv
  <1> QED
    BY <1>2, <1>3 DEF IInv, RelayInv, RelayTypes, Side

LEMMA ItemHere ==
  ASSUME IInv
  PROVE  /\ Item("client") = used + Len(out["target"]) + 1
         /\ Item("target") = Len(out["client"]) + 1
         /\ Item("client") \in Nat /\ Item("target") \in Nat
  BY ItemIs DEF IInv, HandInv, RelayInv, Types

\* A sequence of consecutive numbers, to which the next one is appended.
LEMMA NextNumber ==
  ASSUME NEW q \in Seq(Nat), NEW k \in Nat, \A i \in 1 .. Len(q) : q[i] = k + i
  PROVE  /\ Len(Append(q, k + Len(q) + 1)) = Len(q) + 1
         /\ \A i \in 1 .. Len(q) + 1 : Append(q, k + Len(q) + 1)[i] = k + i
  <1>1. PICK p : p = Append(q, k + Len(q) + 1)
    OBVIOUS
  <1>2. Len(q) \in Nat /\ k + Len(q) + 1 \in Nat
    OBVIOUS
  <1>3. /\ Len(p) = Len(q) + 1
        /\ p[Len(q) + 1] = k + Len(q) + 1
        /\ \A i \in 1 .. Len(q) : p[i] = q[i]
    <2>1. \A e \in Nat : /\ Len(Append(q, e)) = Len(q) + 1
                         /\ Append(q, e)[Len(q) + 1] = e
                         /\ \A i \in 1 .. Len(q) : Append(q, e)[i] = q[i]
      BY ONLY q \in Seq(Nat), AppendProperties
    <2> QED
      BY ONLY <1>1, <1>2, <2>1
  <1>4. \A i \in 1 .. Len(q) + 1 : i = Len(q) + 1 \/ i \in 1 .. Len(q)
    BY <1>2
  <1>5. ASSUME NEW i \in 1 .. Len(q) + 1
        PROVE  p[i] = k + i
    <2>1. CASE i = Len(q) + 1
      <3>1. k + Len(q) + 1 = k + (Len(q) + 1)
        BY ONLY <1>2, k \in Nat
      <3> QED
        BY ONLY <1>3, <2>1, <3>1
    <2>2. CASE i \in 1 .. Len(q)
      BY ONLY <1>3, <2>2, \A j \in 1 .. Len(q) : q[j] = k + j
    <2> QED
      BY ONLY <1>4, <2>1, <2>2, i \in 1 .. Len(q) + 1
  <1> QED
    BY ONLY <1>1, <1>3, <1>5

LEMMA CopyStep ==
  ASSUME IInv, NEW s \in Side, Copy(s)
  PROVE  IInv'
  <1>1. /\ cpc[s] = "copy" /\ Item(s) <= sent[s]
        /\ out' = [out EXCEPT ![Other(s)] = Append(@, Item(s))]
        /\ UNCHANGED <<hpc, answer, request, replies, sent, fin, lost, open, used,
                       got, ended, cpc, result, errCh, collected>>
    BY DEF Copy, Available, Idle, hand, peers
  <1>2. HandInv'
    BY <1>1, HandSame DEF IInv
  <1>3. /\ out["client"] \in Seq(Nat) /\ out["target"] \in Seq(Nat)
        /\ used \in Nat /\ sent["client"] \in Nat /\ sent["target"] \in Nat
    BY DEF IInv, RelayInv, RelayTypes, PeerTypes, Side
  <1>4. s = "client" \/ s = "target"
    BY DEF Side
  <1>5. \/ /\ s = "client" /\ UNCHANGED out["client"]
           /\ out'["target"] = Append(out["target"], used + Len(out["target"]) + 1)
           /\ used + Len(out["target"]) + 1 <= sent["client"]
        \/ /\ s = "target" /\ UNCHANGED out["target"]
           /\ out'["client"] = Append(out["client"], Len(out["client"]) + 1)
           /\ Len(out["client"]) + 1 <= sent["target"]
    BY <1>1, <1>4, ItemHere, TheOther DEF IInv, RelayInv, RelayTypes, Side
  <1>6. RelayTypes'
    <2>1. out' \in [Side -> Seq(Nat)]
      BY <1>1, <1>3, <1>4, ItemHere, TheOther DEF IInv, RelayInv, RelayTypes, Side
    <2> QED
      BY <1>1, <2>1 DEF IInv, RelayInv, RelayTypes
  <1>7. PeerTypes'
    BY <1>1 DEF IInv, RelayInv, PeerTypes
  <1>8. OutInv'
    <2>1. CASE s = "client"
      <3>1. /\ out["target"] \in Seq(Nat) /\ used \in Nat
            /\ \A i \in 1 .. Len(out["target"]) : out["target"][i] = used + i
            /\ out'["target"] = Append(out["target"], used + Len(out["target"]) + 1)
        <4>1. \A i \in 1 .. Len(out["target"]) : out["target"][i] = used + i
          BY DEF IInv, RelayInv, OutInv
        <4> QED
          BY ONLY <1>3, <1>5, <2>1, <4>1
      <3>2. /\ Len(out'["target"]) = Len(out["target"]) + 1
            /\ \A i \in 1 .. Len(out'["target"]) : out'["target"][i] = used + i
        <4>1. PICK q : q = out["target"]
          OBVIOUS
        <4>2. /\ Len(Append(q, used + Len(q) + 1)) = Len(q) + 1
              /\ \A i \in 1 .. Len(q) + 1 :
                    Append(q, used + Len(q) + 1)[i] = used + i
          BY ONLY <3>1, <4>1, NextNumber
        <4> QED
          BY ONLY <3>1, <4>1, <4>2
      <3>3. UNCHANGED <<used, sent, out["client"]>>
        BY <1>1, <1>5, <2>1
      <3>4. /\ \A i \in 1 .. Len(out["client"]) : out["client"][i] = i
            /\ Len(out["client"]) <= sent["target"]
            /\ used + Len(out["target"]) + 1 <= sent["client"]
            /\ Len(out["target"]) \in Nat
        BY <1>3, <1>5, <2>1 DEF IInv, RelayInv, OutInv
      <3>5. used + (Len(out["target"]) + 1) <= sent["client"]
        BY ONLY <1>3, <3>4
      <3> QED
        BY ONLY <3>2, <3>3, <3>4, <3>5 DEF OutInv
    <2>2. CASE s = "target"
      <3>1. /\ out["client"] \in Seq(Nat) /\ 0 \in Nat
            /\ \A i \in 1 .. Len(out["client"]) : out["client"][i] = 0 + i
            /\ out'["client"] = Append(out["client"], 0 + Len(out["client"]) + 1)
        <4>1. \A i \in 1 .. Len(out["client"]) : out["client"][i] = i
          BY DEF IInv, RelayInv, OutInv
        <4>2. out["client"] \in Seq(Nat) /\ Len(out["client"]) \in Nat
          BY ONLY <1>3
        <4>3. out'["client"] = Append(out["client"], Len(out["client"]) + 1)
          BY ONLY <1>5, <2>2
        <4> QED
          BY ONLY <4>1, <4>2, <4>3
      <3>2. /\ Len(out'["client"]) = Len(out["client"]) + 1
            /\ \A i \in 1 .. Len(out'["client"]) : out'["client"][i] = 0 + i
        <4>1. PICK q : q = out["client"]
          OBVIOUS
        <4>2. /\ Len(Append(q, 0 + Len(q) + 1)) = Len(q) + 1
              /\ \A i \in 1 .. Len(q) + 1 :
                    Append(q, 0 + Len(q) + 1)[i] = 0 + i
          BY ONLY <3>1, <4>1, NextNumber
        <4> QED
          BY ONLY <3>1, <4>1, <4>2
      <3>3. UNCHANGED <<used, sent, out["target"]>>
        BY <1>1, <1>5, <2>2
      <3>4. /\ \A i \in 1 .. Len(out["target"]) : out["target"][i] = used + i
            /\ used + Len(out["target"]) <= sent["client"]
            /\ Len(out["client"]) + 1 <= sent["target"]
        BY <1>5, <2>2 DEF IInv, RelayInv, OutInv
      <3>5. \A i \in 1 .. Len(out'["client"]) : out'["client"][i] = i
        BY ONLY <3>2
      <3> QED
        BY ONLY <3>2, <3>3, <3>4, <3>5 DEF OutInv
    <2> QED
      BY <2>1, <2>2, <1>4
  <1>9. CopierInv' /\ ResultInv'
    <2>1. cpc["client"] # "idle" /\ cpc["target"] # "idle"
      BY <1>1, AtWork
    <2>2. Done("client")' = Done("client") /\ Done("target")' = Done("target")
      BY <1>1 DEF Done
    <2> QED
      BY <1>1, <2>1, <2>2 DEF IInv, RelayInv, CopierInv, ResultInv
  <1>10. CompleteInv'
    <2>1. ASSUME NEW t \in Side, cpc[t] # "copy"
          PROVE  Remaining(t)' = Remaining(t)
      BY <1>1, <1>4, <1>5, <2>1 DEF Remaining, Side
    <2> QED
      BY <1>1, <2>1 DEF IInv, RelayInv, CompleteInv
  <1> QED
    BY <1>2, <1>6, <1>7, <1>8, <1>9, <1>10 DEF IInv, RelayInv

\* A copier that has ended, failed or shut goes on.
LEMMA CopierStep ==
  ASSUME IInv, NEW s \in Side, CopyEnd(s) \/ CopyFail(s) \/ Shut(s)
  PROVE  IInv'
  <1>1. /\ UNCHANGED <<hpc, answer, request, replies, sent, fin, lost, open, used,
                       got, out, errCh, collected>>
        /\ cpc[s] \in {"copy", "shut"}
        /\ \E l \in {"shut", "report"} : cpc' = [cpc EXCEPT ![s] = l]
        /\ result' = result \/ \E r \in {"nil", "error"} :
                                   result' = [result EXCEPT ![s] = r]
        /\ ended' \in {ended, ended \cup {Other(s)}}
    BY DEF CopyEnd, CopyFail, Shut, Idle, hand, peers
  <1>2. HandInv'
    BY <1>1, HandSame DEF IInv
  <1>3. Other(s) \in Side
    BY TheOther DEF Side
  <1>4. PeerTypes' /\ RelayTypes'
    BY <1>1, <1>3 DEF IInv, RelayInv, PeerTypes, RelayTypes
  <1>5. /\ \A t \in Side \ {s} : cpc'[t] = cpc[t] /\ result'[t] = result[t]
        /\ cpc'[s] \in {"shut", "report"} /\ cpc \in [Side -> {"idle", "copy",
                                             "shut", "report", "done"}]
    BY <1>1 DEF IInv, RelayInv, RelayTypes
  <1>6. OutInv'
    BY <1>1 DEF IInv, RelayInv, OutInv
  <1>7. /\ cpc["client"] # "idle" /\ cpc["target"] # "idle"
        /\ hpc \in {"collect"} \cup Closing
    BY <1>1, AtWork
  <1>8. cpc'["client"] # "idle" /\ cpc'["target"] # "idle"
    BY <1>5, <1>7 DEF Side
  <1>9. CopierInv'
    BY <1>1, <1>7, <1>8 DEF IInv, RelayInv, CopierInv
  <1>10. Done("client")' = Done("client") /\ Done("target")' = Done("target")
    BY <1>1, <1>5 DEF Done, Side
  <1>11. ResultInv'
    BY <1>1, <1>10 DEF IInv, RelayInv, ResultInv
  <1>12. CompleteInv'
    <2> SUFFICES ASSUME lost = {}
                 PROVE  CompleteInv'
      BY <1>1 DEF CompleteInv
    <2>1. hpc = "collect" /\ open = Side
      BY <1>1, NothingFails
    <2>2. \A t \in Side : Remaining(t)' = Remaining(t)
      BY <1>1 DEF Remaining
    <2>3. /\ \A i \in 1 .. Len(errCh) : errCh[i] = "nil"
          /\ \A t \in Side :
                /\ result[t] = "nil"
                /\ cpc[t] \in {"shut", "report", "done"} =>
                      t \in fin /\ Remaining(t) = 0
      BY DEF IInv, RelayInv, CompleteInv
    <2>4. result'[s] = "nil" /\ s \in fin /\ Remaining(s) = 0
      <3>1. CASE CopyEnd(s)
        <4>1. s \in fin /\ result'[s] = "nil" /\ Item(s) > sent[s]
          BY <3>1 DEF CopyEnd, IInv, RelayInv, RelayTypes
        <4>2. /\ used \in Nat /\ sent["client"] \in Nat /\ sent["target"] \in Nat
              /\ Len(out["client"]) \in Nat /\ Len(out["target"]) \in Nat
          BY DEF IInv, RelayInv, RelayTypes, PeerTypes, Side
        <4>3. /\ used + Len(out["target"]) <= sent["client"]
              /\ Len(out["client"]) <= sent["target"]
          BY DEF IInv, RelayInv, OutInv
        <4>4. /\ Item("client") = used + Len(out["target"]) + 1
              /\ Item("target") = Len(out["client"]) + 1
          BY ItemHere
        <4>5. ASSUME s = "client"
              PROVE  Remaining(s) = 0
          <5>1. used + Len(out["target"]) + 1 > sent["client"]
            BY ONLY <4>1, <4>4, <4>5
          <5>2. sent["client"] - (used + Len(out["target"])) = 0
            BY ONLY <4>2, <4>3, <5>1
          <5> QED
            BY ONLY <4>5, <5>2 DEF Remaining
        <4>6. ASSUME s = "target"
              PROVE  Remaining(s) = 0
          <5>1. Len(out["client"]) + 1 > sent["target"]
            BY ONLY <4>1, <4>4, <4>6
          <5>2. sent["target"] - Len(out["client"]) = 0
            BY ONLY <4>2, <4>3, <5>1
          <5> QED
            BY ONLY <4>6, <5>2 DEF Remaining
        <4> QED
          BY <4>1, <4>5, <4>6 DEF Side
      <3>2. CASE CopyFail(s)
        <4>1. Writable(s) /\ Writable(Other(s))
          BY <2>1, <1>3 DEF Writable
        <4> QED
          BY <3>2, <4>1 DEF CopyFail
      <3>3. CASE Shut(s)
        BY <3>3, <2>3 DEF Shut
      <3> QED
        BY <3>1, <3>2, <3>3
    <2> QED
      BY <1>1, <1>5, <2>1, <2>2, <2>3, <2>4 DEF CompleteInv, Closing
  <1> QED
    BY <1>2, <1>4, <1>6, <1>9, <1>11, <1>12 DEF IInv, RelayInv

LEMMA ReportStep ==
  ASSUME IInv, NEW s \in Side, Report(s)
  PROVE  IInv'
  <1>1. /\ UNCHANGED <<hpc, answer, request, replies, sent, fin, lost, open, used,
                       got, out, ended, result, collected>>
        /\ cpc[s] = "report" /\ cpc' = [cpc EXCEPT ![s] = "done"]
        /\ Len(errCh) < 2 /\ errCh' = Append(errCh, result[s])
    BY DEF Report, Idle, hand, peers
  <1>2. HandInv'
    BY <1>1, HandSame DEF IInv
  <1>3. errCh \in Seq({"nil", "error"}) /\ result[s] \in {"nil", "error"}
    BY DEF IInv, RelayInv, RelayTypes
  <1>4. /\ errCh' \in Seq({"nil", "error"}) /\ Len(errCh') = Len(errCh) + 1
        /\ Len(errCh) \in Nat /\ errCh'[Len(errCh) + 1] = result[s]
        /\ \A i \in 1 .. Len(errCh) : errCh'[i] = errCh[i]
    BY <1>1, <1>3
  <1>5. PeerTypes' /\ RelayTypes'
    BY <1>1, <1>4 DEF IInv, RelayInv, PeerTypes, RelayTypes
  <1>6. /\ \A t \in Side \ {s} : cpc'[t] = cpc[t]
        /\ cpc'[s] = "done"
    BY <1>1 DEF IInv, RelayInv, RelayTypes
  <1>7. OutInv'
    BY <1>1 DEF IInv, RelayInv, OutInv
  <1>8. /\ cpc["client"] # "idle" /\ cpc["target"] # "idle"
        /\ hpc \in {"collect"} \cup Closing
    BY <1>1, AtWork
  <1>9. cpc'["client"] # "idle" /\ cpc'["target"] # "idle"
    BY <1>6, <1>8 DEF Side
  <1>10. CopierInv'
    BY <1>1, <1>8, <1>9 DEF IInv, RelayInv, CopierInv
  <1>11. ResultInv'
    <2>1. /\ Done("client") \in Nat /\ Done("target") \in Nat
          /\ Done("client")' + Done("target")' = Done("client") + Done("target") + 1
      BY <1>1, <1>6 DEF Done, Side
    <2>2. collected \in Nat
      BY DEF IInv, RelayInv, RelayTypes
    <2> QED
      BY <1>1, <1>4, <2>1, <2>2 DEF IInv, RelayInv, ResultInv
  <1>12. CompleteInv'
    <2> SUFFICES ASSUME lost = {}
                 PROVE  CompleteInv'
      BY <1>1 DEF CompleteInv
    <2>1. hpc = "collect"
      BY <1>1, NothingFails
    <2>2. \A t \in Side : Remaining(t)' = Remaining(t)
      BY <1>1 DEF Remaining
    <2>3. /\ \A i \in 1 .. Len(errCh) : errCh[i] = "nil"
          /\ \A t \in Side :
                /\ result[t] = "nil"
                /\ cpc[t] \in {"shut", "report", "done"} =>
                      t \in fin /\ Remaining(t) = 0
      BY DEF IInv, RelayInv, CompleteInv
    <2>4. \A i \in 1 .. Len(errCh') : errCh'[i] = "nil"
      BY <1>4, <2>3
    <2> QED
      BY <1>1, <1>6, <2>1, <2>2, <2>3, <2>4 DEF CompleteInv, Closing
  <1> QED
    BY <1>2, <1>5, <1>7, <1>10, <1>11, <1>12 DEF IInv, RelayInv

LEMMA PeerStep ==
  ASSUME Socks5Assumption, IInv, NEW s \in Side, Peer(s)
  PROVE  IInv'
  <1>1. UNCHANGED <<hpc, answer, request, replies, open, used, got, out, ended, cpc,
                    result, errCh, collected>>
    BY DEF Peer, Send, Fin, Reset, hand, relay
  <1>2. /\ lost \subseteq lost' /\ lost' \subseteq lost \cup {s}
        /\ fin \subseteq fin' /\ fin' \subseteq fin \cup {s}
    BY DEF Peer, Send, Fin, Reset
  <1>3. HandInv'
    BY <1>1, <1>2, HandSame DEF IInv
  <1>4. sent \in [Side -> Nat] /\ \A t \in Side : sent[t] <= MaxSent[t]
    BY DEF IInv, RelayInv, PeerTypes
  <1>5. \/ sent' = sent
        \/ /\ s \notin fin /\ sent[s] < MaxSent[s]
           /\ UNCHANGED <<fin, lost>> /\ sent' = [sent EXCEPT ![s] = @ + 1]
    BY DEF Peer, Send, Fin, Reset
  <1>6. \A t \in Side : MaxSent[t] \in Nat
    BY DEF Socks5Assumption, MaxSent
  <1>7. /\ sent' \in [Side -> Nat]
        /\ \A t \in Side : sent'[t] <= MaxSent[t] /\ sent[t] <= sent'[t]
    BY <1>4, <1>5, <1>6
  <1>8. PeerTypes'
    <2>1. sent["client"] <= sent'["client"] /\ sent["client"] \in Nat
          /\ sent'["client"] \in Nat
      BY <1>4, <1>7 DEF Side
    <2> QED
      BY <1>1, <1>2, <1>7, <2>1 DEF IInv, RelayInv, PeerTypes
  <1>9. RelayTypes'
    BY <1>1 DEF IInv, RelayInv, RelayTypes
  <1>10. OutInv'
    <2>1. /\ out["client"] \in Seq(Nat) /\ out["target"] \in Seq(Nat)
          /\ used \in Nat
          /\ sent["client"] \in Nat /\ sent["target"] \in Nat
          /\ sent'["client"] \in Nat /\ sent'["target"] \in Nat
          /\ sent["client"] <= sent'["client"] /\ sent["target"] <= sent'["target"]
      BY <1>4, <1>7 DEF IInv, RelayInv, RelayTypes, PeerTypes, Side
    <2> QED
      BY <1>1, <2>1 DEF IInv, RelayInv, OutInv
  <1>11. CopierInv' /\ ResultInv'
    BY <1>1 DEF IInv, RelayInv, CopierInv, ResultInv, Done
  <1>12. CompleteInv'
    <2> SUFFICES ASSUME lost' = {}
                 PROVE  CompleteInv'
      BY DEF CompleteInv
    <2>1. lost = {}
      BY <1>2
    <2>2. /\ \A i \in 1 .. Len(errCh) : errCh[i] = "nil"
          /\ \A t \in Side :
                /\ result[t] = "nil"
                /\ cpc[t] \in {"shut", "report", "done"} =>
                      t \in fin /\ Remaining(t) = 0
          /\ hpc \in Closing /\ cpc["client"] # "idle" =>
                \A t \in Side : cpc[t] = "done"
      BY <2>1 DEF IInv, RelayInv, CompleteInv
    <2>3. ASSUME NEW t \in Side, t \in fin
          PROVE  Remaining(t)' = Remaining(t)
      <3>1. sent'[t] = sent[t]
        BY <1>4, <1>5, <2>3
      <3> QED
        BY <1>1, <3>1 DEF Remaining
    <2> QED
      BY <1>1, <1>2, <2>2, <2>3 DEF CompleteInv
  <1> QED
    BY <1>3, <1>8, <1>9, <1>10, <1>11, <1>12 DEF IInv, RelayInv
----------------------------------------------------------------------------
(* Theorems. *)

LEMMA InitIInv == Socks5Assumption /\ Init => IInv
  <1> SUFFICES ASSUME Socks5Assumption, Init
               PROVE  IInv
    OBVIOUS
  <1> USE DEF Init, Handling, Closing, Label
  <1>1. HandTypes
    BY DEF HandTypes, Reply
  <1>2. AuthInv /\ OpenInv /\ AnswerInv
    BY DEF AuthInv, OpenInv, AnswerInv, NoAnswer, Serving, Reading
  <1>3. PeerTypes
    BY DEF PeerTypes, Socks5Assumption, MaxSent, Side
  <1>4. RelayTypes
    BY DEF RelayTypes, Side
  <1>5. out["client"] = <<>> /\ out["target"] = <<>>
    BY DEF Side
  <1>6. OutInv
    BY <1>5 DEF OutInv, Side
  <1>7. CopierInv
    BY DEF CopierInv, Side
  <1>8. ResultInv /\ CompleteInv
    BY DEF ResultInv, CompleteInv, Side
  <1> QED
    BY <1>1, <1>2, <1>3, <1>4, <1>6, <1>7, <1>8 DEF IInv, HandInv, RelayInv

LEMMA StutterStep ==
  ASSUME IInv, UNCHANGED vars
  PROVE  IInv'
  <1>1. UNCHANGED <<hpc, answer, request, replies, sent, fin, lost, open, used, got,
                    out, ended, cpc, result, errCh, collected>>
    BY DEF vars, hand, peers, relay
  <1>2. HandInv'
    BY <1>1, HandSame DEF IInv
  <1>3. PeerTypes' /\ RelayTypes' /\ OutInv'
    BY <1>1 DEF IInv, RelayInv, PeerTypes, RelayTypes, OutInv
  <1>4. CopierInv' /\ ResultInv' /\ CompleteInv'
    BY <1>1 DEF IInv, RelayInv, CopierInv, ResultInv, CompleteInv, Done, Remaining
  <1> QED
    BY <1>2, <1>3, <1>4 DEF IInv, RelayInv

LEMMA StepIInv == Socks5Assumption /\ IInv /\ [Next]_vars => IInv'
  <1> SUFFICES ASSUME Socks5Assumption, IInv, [Next]_vars
               PROVE  IInv'
    OBVIOUS
  <1>1. CASE Handler
    <2>1. CASE \/ ReadVersion \/ ReadCredentials \/ ReadFail \/ Resolve
               \/ \E offer \in Offer : ReadMethods(offer)
               \/ \E r \in [command : Command, address : Address] : ReadRequest(r)
               \/ UnknownCommand \/ Blocked \/ Unimplemented \/ Connect
               \/ \E reply \in DialFailures : DialFail(reply)
      BY <2>1, RequestStep
    <2>2. CASE DialOk
      BY <2>2, DialOkStep
    <2>3. CASE Say
      BY <2>3, SayStep
    <2>4. CASE SayFail
      BY <2>4, SayFailStep
    <2>5. CASE Spawn
      BY <2>5, SpawnStep
    <2>6. CASE Collect
      BY <2>6, CollectStep
    <2>7. CASE CloseTarget \/ CloseConn
      BY <2>7, CloseStep
    <2> QED
      BY <1>1, <2>1, <2>2, <2>3, <2>4, <2>5, <2>6, <2>7 DEF Handler
  <1>2. ASSUME NEW s \in Side, Copier(s)
        PROVE  IInv'
    BY <1>2, CopyStep, CopierStep, ReportStep DEF Copier
  <1>3. ASSUME NEW s \in Side, Peer(s)
        PROVE  IInv'
    BY <1>3, PeerStep
  <1>4. CASE UNCHANGED vars
    BY <1>4, StutterStep
  <1> QED
    BY <1>1, <1>2, <1>3, <1>4 DEF Next, Finished

\* The conjunction of the named parts is an inductive invariant of one session
\* of the SOCKS5 server, for any methods, rules and amounts of data.
THEOREM SessionInvariant == Spec => []IInv
  <1>1. Init => IInv
    BY InitIInv, Socks5Assumption
  <1>2. IInv /\ [Next]_vars => IInv'
    BY StepIInv, Socks5Assumption
  <1> QED
    BY <1>1, <1>2, PTL DEF Spec

\* The variables of a session keep their types, and the channel of the results
\* never holds more than its capacity.
THEOREM SessionTypeCorrect == Spec => []TypeOK
  <1>1. IInv => TypeOK
    BY TypesAreTypeOK DEF IInv, HandInv, RelayInv, Types
  <1> QED
    BY <1>1, SessionInvariant, PTL

\* No connection to a target is opened for a client that was not let in
\* (auth.go:113-130, socks5.go:140-145).
THEOREM NoneUnauthenticated == Spec => []Authenticated
  <1>1. IInv => Authenticated
    BY DEF IInv, HandInv, OpenInv, LetIn, Authenticated
  <1> QED
    BY <1>1, SessionInvariant, PTL

\* A request is answered at most once, and answered when the handler returns
\* unless the client is gone (request.go:115-180, 328-356).
THEOREM RequestsAnswered == Spec => []AnsweredOnce
  <1>1. IInv => AnsweredOnce
    <2> SUFFICES ASSUME IInv
                 PROVE  AnsweredOnce
      OBVIOUS
    <2>1. NoAnswer \/ OneAnswer
      BY DEF IInv, HandInv, HandTypes, AnswerInv, Label, Handling, Closing, Reading
    <2>2. hpc = "done" /\ request # NoRequest /\ "client" \notin lost => OneAnswer
      BY DEF IInv, HandInv, AnswerInv, Closing
    <2> QED
      BY <2>1, <2>2 DEF AnsweredOnce, NoAnswer, OneAnswer
  <1> QED
    BY <1>1, SessionInvariant, PTL

\* As long as neither connection is lost, a relay only ends when both peers have
\* ended their streams and all they sent was written (request.go:198-212).
THEOREM RelayComplete == Spec => []NothingCutOff
  <1>1. IInv => NothingCutOff
    <2> SUFFICES ASSUME IInv, hpc \in Closing, cpc["client"] # "idle", lost = {}
                 PROVE  /\ fin = Side
                        /\ \A s \in Side : Item(s) > sent[s]
      BY DEF NothingCutOff
    <2>1. \A s \in Side : s \in fin /\ Remaining(s) = 0
      BY DEF IInv, RelayInv, CompleteInv
    <2>2. fin = Side
      BY <2>1 DEF IInv, RelayInv, PeerTypes
    <2>3. /\ out["client"] \in Seq(Nat) /\ out["target"] \in Seq(Nat)
          /\ used \in Nat /\ sent["client"] \in Nat /\ sent["target"] \in Nat
      BY DEF IInv, RelayInv, RelayTypes, PeerTypes, Side
    <2>4. /\ sent["client"] - (used + Len(out["target"])) = 0
          /\ sent["target"] - Len(out["client"]) = 0
      BY <2>1 DEF Remaining, Side
    <2>5. Item("client") > sent["client"] /\ Item("target") > sent["target"]
      BY <2>3, <2>4, ItemHere
    <2> QED
      BY <2>2, <2>5 DEF Side
  <1> QED
    BY <1>1, SessionInvariant, PTL

----------------------------------------------------------------------------
(* The end of the relay. *)

\* The channel has room for the result of every copier that has one to report,
\* also when the handler has left after the first, and a handler that waits for
\* a result has not yet received those of both.
NobodyStuck ==
    /\ \A s \in Side : cpc[s] = "report" => Len(errCh) < 2
    /\ hpc = "collect" /\ errCh = <<>> =>
          \E s \in Side : cpc[s] \in {"copy", "shut", "report"}

\* A result in the channel is that of a copier that is done, and the handler
\* waits for two.
Outstanding ==
    /\ Len(errCh) <= Done("client") + Done("target")
    /\ hpc = "collect" => collected < 2

\* Everything but the start, the copiers and the handler that collects leaves
\* the copiers alone.
LEMMA ResultSteps ==
  ASSUME IInv, [Next]_vars
  PROVE  \/ Spawn \/ Collect \/ \E s \in Side : Copier(s)
         \/ UNCHANGED <<cpc, errCh, collected>> /\ (hpc' = "collect" => hpc = "collect")
  <1>1. CASE Say
    BY <1>1 DEF Say, Goto, Quiet, relay, IInv, HandInv, AnswerInv, SayAnswer
  <1>2. CASE SayFail \/ DialOk \/ CloseTarget \/ CloseConn
    BY <1>2 DEF SayFail, DialOk, CloseTarget, CloseConn, Goto, Answer, Quiet, relay
  <1>3. CASE \/ ReadVersion \/ ReadCredentials \/ ReadFail \/ Resolve
             \/ \E offer \in Offer : ReadMethods(offer)
             \/ \E r \in [command : Command, address : Address] : ReadRequest(r)
             \/ UnknownCommand \/ Blocked \/ Unimplemented \/ Connect
             \/ \E reply \in DialFailures : DialFail(reply)
    BY <1>3 DEF ReadVersion, ReadCredentials, ReadFail, Resolve, ReadMethods,
       ReadRequest, UnknownCommand, Blocked, Unimplemented, Connect, DialFail,
       Goto, Answer, Quiet, relay
  <1>4. CASE \/ UNCHANGED vars \/ \E s \in Side : Peer(s)
    BY <1>4 DEF Peer, Send, Fin, Reset, vars, relay
  <1> QED
    BY <1>1, <1>2, <1>3, <1>4 DEF Next, Handler, Finished

LEMMA OutstandingStep ==
  IInv /\ IInv' /\ Outstanding /\ [Next]_vars => Outstanding'
  <1> SUFFICES ASSUME IInv, IInv', Outstanding, [Next]_vars PROVE Outstanding'
    OBVIOUS
  <1>1. /\ errCh \in Seq({"nil", "error"}) /\ collected' \in 0 .. 2
        /\ cpc \in [Side -> {"idle", "copy", "shut", "report", "done"}]
        /\ Len(errCh) \in Nat
    BY DEF IInv, RelayInv, RelayTypes
  <1>2. /\ Done("client") \in 0 .. 1 /\ Done("target") \in 0 .. 1
        /\ Done("client")' \in 0 .. 1 /\ Done("target")' \in 0 .. 1
    BY DEF Done
  <1>3. CASE UNCHANGED <<cpc, errCh, collected>> /\ (hpc' = "collect" => hpc = "collect")
    BY <1>3 DEF Outstanding, Done
  <1>4. CASE Spawn
    <2>1. errCh = <<>> /\ collected = 0
      BY <1>4 DEF Spawn, IInv, RelayInv, CopierInv, Closing
    <2> QED
      BY <1>2, <1>4, <2>1 DEF Spawn, Outstanding
  <1>5. CASE Collect
    <2>1. /\ Len(errCh') = Len(errCh) - 1 /\ UNCHANGED cpc
          /\ hpc' = "collect" => collected' # 2
      BY <1>1, <1>5 DEF Collect, Goto, relay
    <2> QED
      BY <1>1, <1>2, <2>1 DEF Outstanding, Done
  <1>6. ASSUME NEW s \in Side, Report(s)
        PROVE  Outstanding'
    <2>1. /\ Len(errCh') = Len(errCh) + 1 /\ UNCHANGED <<hpc, collected>>
          /\ cpc[s] = "report" /\ cpc' = [cpc EXCEPT ![s] = "done"]
      BY <1>1, <1>6 DEF Report, Idle
    <2>2. Done("client")' + Done("target")' = Done("client") + Done("target") + 1
      BY <1>1, <2>1 DEF Done, Side
    <2> QED
      BY <1>1, <1>2, <2>1, <2>2 DEF Outstanding
  <1>7. ASSUME NEW s \in Side, Copy(s) \/ CopyEnd(s) \/ CopyFail(s) \/ Shut(s)
        PROVE  Outstanding'
    <2>1. /\ UNCHANGED <<hpc, collected, errCh>>
          /\ \/ UNCHANGED cpc
             \/ /\ cpc[s] # "done"
                /\ \E label \in {"shut", "report"} :
                      cpc' = [cpc EXCEPT ![s] = label]
      BY <1>7 DEF Copy, CopyEnd, CopyFail, Shut, Idle
    <2>2. Done("client")' = Done("client") /\ Done("target")' = Done("target")
      BY <1>1, <2>1 DEF Done, Side
    <2> QED
      BY <2>1, <2>2 DEF Outstanding
  <1> QED
    BY <1>3, <1>4, <1>5, <1>6, <1>7, ResultSteps DEF Copier

\* Neither a copier nor the handler waits for something that cannot come: the
\* result of a copier always fits into errCh, and the handler waits only while
\* a copier is at work (request.go:201-212).
THEOREM NobodyWaitsInVain == Spec => []NobodyStuck
  <1>1. Init => Outstanding
    BY DEF Init, Outstanding, Done
  <1>2. IInv /\ Outstanding => NobodyStuck
    <2> SUFFICES ASSUME IInv, Outstanding PROVE NobodyStuck
      OBVIOUS
    <2>1. /\ cpc \in [Side -> {"idle", "copy", "shut", "report", "done"}]
          /\ Len(errCh) \in Nat /\ collected \in 0 .. 2
      BY DEF IInv, RelayInv, RelayTypes
    <2>2. ASSUME NEW s \in Side, cpc[s] = "report"
          PROVE  Len(errCh) < 2
      BY <2>1, <2>2 DEF Outstanding, Done, Side
    <2>3. ASSUME hpc = "collect", errCh = <<>>
          PROVE  \E s \in Side : cpc[s] \in {"copy", "shut", "report"}
      <3>1. cpc["client"] # "idle" /\ cpc["target"] # "idle"
        BY <2>3 DEF IInv, RelayInv, CopierInv
      <3>2. collected < 2 /\ collected = Done("client") + Done("target")
        BY <2>1, <2>3 DEF IInv, RelayInv, ResultInv, Outstanding, Done
      <3>3. cpc["client"] # "done" \/ cpc["target"] # "done"
        BY <3>2 DEF Done
      <3> QED
        BY <2>1, <3>1, <3>3 DEF Side
    <2> QED
      BY <2>2, <2>3 DEF NobodyStuck
  <1> QED
    BY <1>1, <1>2, OutstandingStep, SessionInvariant, PTL DEF Spec

----------------------------------------------------------------------------
(* The refinement: a session is a pipe in each direction. *)

LEMMA StreamIs ==
  ASSUME NEW n \in Nat
  PROVE  /\ Stream(n) \in Seq(Nat) /\ Len(Stream(n)) = n
         /\ \A i \in 1 .. n : Stream(n)[i] = i
  BY DEF Stream

\* A sequence that is numbered like a stream is that stream.
LEMMA NumberedIsStream ==
  ASSUME NEW q \in Seq(Nat), \A i \in 1 .. Len(q) : q[i] = i
  PROVE  q = Stream(Len(q))
  <1>1. Len(q) \in Nat
    OBVIOUS
  <1>2. /\ Stream(Len(q)) \in Seq(Nat) /\ Len(Stream(Len(q))) = Len(q)
        /\ \A i \in 1 .. Len(q) : Stream(Len(q))[i] = i
    BY ONLY <1>1, StreamIs
  <1> QED
    BY ONLY <1>1, <1>2, q \in Seq(Nat), \A i \in 1 .. Len(q) : q[i] = i, SeqEqual

LEMMA StreamNext ==
  ASSUME NEW n \in Nat
  PROVE  Stream(n + 1) = Append(Stream(n), n + 1)
  <1>0. PICK q : q = Append(Stream(n), 0 + Len(Stream(n)) + 1)
    OBVIOUS
  <1>1. Stream(n) \in Seq(Nat) /\ Len(Stream(n)) = n
    BY StreamIs
  <1>2. \A i \in 1 .. Len(Stream(n)) : Stream(n)[i] = 0 + i
    BY StreamIs
  <1>3. /\ Len(q) = Len(Stream(n)) + 1
        /\ \A i \in 1 .. Len(Stream(n)) + 1 : q[i] = 0 + i
    <2>1. 0 \in Nat
      OBVIOUS
    <2> QED
      BY ONLY <1>0, <1>1, <1>2, <2>1, NextNumber
  <1>4. q \in Seq(Nat) /\ q = Append(Stream(n), n + 1)
    BY ONLY <1>0, <1>1, n \in Nat
  <1>5. Len(q) = n + 1 /\ \A i \in 1 .. Len(q) : q[i] = i
    BY ONLY <1>1, <1>3, n \in Nat
  <1>6. q = Stream(Len(q))
    BY ONLY <1>4, <1>5, NumberedIsStream
  <1> QED
    BY ONLY <1>4, <1>5, <1>6

UpSent == sent["client"]
UpLeft == used + Len(out["target"])
DownSent == sent["target"]
DownLeft == Len(out["client"])

LEMMA StreamOn ==
  ASSUME NEW n \in Nat, NEW q \in Seq(Nat), \A i \in 1 .. Len(q) : q[i] = n + i
  PROVE  Stream(n) \o q = Stream(n + Len(q))
  <1>1. /\ Stream(n) \in Seq(Nat) /\ Len(Stream(n)) = n /\ Len(q) \in Nat
        /\ \A i \in 1 .. n : Stream(n)[i] = i
    BY StreamIs
  <1>2. PICK p : p = Stream(n) \o q
    OBVIOUS
  <1>3. /\ p \in Seq(Nat) /\ Len(p) = Len(Stream(n)) + Len(q)
        /\ \A i \in 1 .. Len(Stream(n)) + Len(q) :
              p[i] = IF i <= Len(Stream(n)) THEN Stream(n)[i]
                                            ELSE q[i - Len(Stream(n))]
    BY ONLY <1>1, <1>2, q \in Seq(Nat), ConcatProperties
  <1>4. /\ Len(p) = n + Len(q)
        /\ \A i \in 1 .. n + Len(q) :
              p[i] = IF i <= n THEN Stream(n)[i] ELSE q[i - n]
    BY ONLY <1>1, <1>3
  <1>5. ASSUME NEW i \in 1 .. Len(p)
        PROVE  p[i] = i
    <2>1. CASE i <= n
      <3>1. i \in 1 .. n
        BY ONLY <2>1, <1>1, <1>4, n \in Nat, i \in 1 .. Len(p)
      <3> QED
        BY ONLY <2>1, <3>1, <1>1, <1>4, n \in Nat
    <2>2. CASE ~(i <= n)
      <3>1. i - n \in 1 .. Len(q) /\ i \in 1 .. n + Len(q)
        BY ONLY <2>2, <1>1, <1>4, n \in Nat, i \in 1 .. Len(p)
      <3>2. p[i] = q[i - n]
        BY ONLY <2>2, <3>1, <1>4
      <3>3. q[i - n] = n + (i - n)
        BY <3>1
      <3> QED
        BY ONLY <3>1, <3>2, <3>3, n \in Nat, <1>1
    <2> QED
      BY <2>1, <2>2
  <1>6. p = Stream(Len(p))
    BY ONLY <1>3, <1>5, NumberedIsStream
  <1> QED
    BY ONLY <1>2, <1>4, <1>6

\* What has left either pipe is a stream too.
Streams ==
    /\ UpSent \in Nat /\ UpLeft \in Nat
    /\ DownSent \in Nat /\ DownLeft \in Nat
    /\ Stream(used) \o out["target"] = Stream(UpLeft)
    /\ out["client"] = Stream(DownLeft)

LEMMA LeftIsStream == IInv => Streams
  <1> SUFFICES ASSUME IInv
               PROVE  Streams
    OBVIOUS
  <1>1. /\ out["target"] \in Seq(Nat) /\ out["client"] \in Seq(Nat)
        /\ used \in Nat /\ sent["client"] \in Nat /\ sent["target"] \in Nat
        /\ Len(out["target"]) \in Nat /\ Len(out["client"]) \in Nat
    BY DEF IInv, RelayInv, RelayTypes, PeerTypes, Side
  <1>2. /\ \A i \in 1 .. Len(out["target"]) : out["target"][i] = used + i
        /\ \A i \in 1 .. Len(out["client"]) : out["client"][i] = i
    BY DEF IInv, RelayInv, OutInv
  <1>3. out["client"] = Stream(DownLeft)
    BY ONLY <1>1, <1>2, NumberedIsStream DEF DownLeft
  <1>4. Stream(used) \o out["target"] = Stream(UpLeft)
    BY ONLY <1>1, <1>2, StreamOn DEF UpLeft
  <1> QED
    BY <1>1, <1>3, <1>4 DEF Streams, UpSent, UpLeft, DownSent, DownLeft

LEMMA LeftStaysStream == IInv' => Streams'
  BY LeftIsStream, PTL

\* The next items of a stream.
LEMMA StreamGoesOn ==
  ASSUME NEW n \in Nat, NEW k \in Nat
  PROVE  /\ Len(Stream(n)) = n /\ Len(Stream(k)) = k
         /\ Stream(n + 1) = Append(Stream(n), n + 1)
         /\ Stream(k + 1) = Append(Stream(k), k + 1)
         /\ k < n => Stream(n)[k + 1] = k + 1
  <1>1. k < n => k + 1 \in 1 .. n
    OBVIOUS
  <1> QED
    BY ONLY <1>1, StreamIs, StreamNext, n \in Nat, k \in Nat

\* What a step may do to the numbers of items and to the end of a session.
Move ==
    \/ /\ UpSent' = UpSent + 1 /\ UpSent < MaxUp
       /\ UNCHANGED <<UpLeft, DownSent, DownLeft, hpc>>
    \/ /\ DownSent' = DownSent + 1 /\ DownSent < MaxDown
       /\ UNCHANGED <<UpSent, UpLeft, DownLeft, hpc>>
    \/ /\ UpLeft' = UpLeft + 1 /\ UpLeft < UpSent
       /\ hpc # "done" /\ hpc' # "done"
       /\ UNCHANGED <<UpSent, DownSent, DownLeft>>
    \/ /\ DownLeft' = DownLeft + 1 /\ DownLeft < DownSent
       /\ hpc # "done" /\ hpc' # "done"
       /\ UNCHANGED <<UpSent, UpLeft, DownSent>>
    \/ /\ UNCHANGED <<UpSent, UpLeft, DownSent, DownLeft>>
       /\ hpc = "done" => hpc' = "done"

LEMMA Moves == IInv /\ [Next]_vars => Move
  <1> SUFFICES ASSUME IInv, [Next]_vars
               PROVE  Move
    OBVIOUS
  <1> USE DEF Move, UpSent, UpLeft, DownSent, DownLeft
  <1>1. /\ out["target"] \in Seq(Nat) /\ out["client"] \in Seq(Nat)
        /\ used \in Nat /\ sent \in [Side -> Nat]
        /\ Len(out["target"]) \in Nat /\ Len(out["client"]) \in Nat
        /\ out \in [Side -> Seq(Nat)]
    BY DEF IInv, RelayInv, RelayTypes, PeerTypes, Side
  <1>2. ASSUME NEW s \in Side, Copy(s)
        PROVE  Move
    <2>1. /\ Item(s) <= sent[s] /\ Other(s) \in open
          /\ out' = [out EXCEPT ![Other(s)] = Append(@, Item(s))]
          /\ UNCHANGED <<hpc, sent, used>>
      BY <1>2 DEF Copy, Available, Writable, Idle, peers
    <2>2. hpc # "done"
      BY <2>1 DEF IInv, HandInv, OpenInv
    <2>3. CASE s = "client"
      <3>1. /\ out'["target"] = Append(out["target"], Item("client"))
            /\ out'["client"] = out["client"]
        BY <1>1, <2>1, <2>3, TheOther DEF Side
      <3>2. Len(out'["target"]) = Len(out["target"]) + 1
        BY <1>1, <3>1, ItemHere
      <3>3. used + Len(out["target"]) < sent["client"]
        BY <1>1, <2>1, <2>3, ItemHere
      <3> QED
        BY <1>1, <2>1, <2>2, <3>1, <3>2, <3>3
    <2>4. CASE s = "target"
      <3>1. /\ out'["client"] = Append(out["client"], Item("target"))
            /\ out'["target"] = out["target"]
        BY <1>1, <2>1, <2>4, TheOther DEF Side
      <3>2. Len(out'["client"]) = Len(out["client"]) + 1
        BY <1>1, <3>1, ItemHere
      <3>3. Len(out["client"]) < sent["target"]
        BY <1>1, <2>1, <2>4, ItemHere
      <3> QED
        BY <1>1, <2>1, <2>2, <3>1, <3>2, <3>3
    <2> QED
      BY <2>3, <2>4 DEF Side
  <1>3. ASSUME NEW s \in Side, Send(s)
        PROVE  Move
    BY <1>1, <1>3 DEF Send, MaxSent, relay, Side
  <1>4. CASE Consume /\ Quiet /\ hpc \in Reading /\ hpc' # "done"
    <2>1. out["target"] = <<>>
      BY <1>4 DEF IInv, RelayInv, CopierInv, Reading, Closing, Side
    <2>2. /\ used' = used + 1 /\ used < sent["client"]
          /\ out' = out /\ sent' = sent
      BY <1>4 DEF Consume, Quiet, peers, relay
    <2>3. Len(out["target"]) = 0 /\ hpc # "done" /\ hpc' # "done"
      BY <1>4, <2>1 DEF Reading
    <2> QED
      BY ONLY <1>1, <2>2, <2>3
  <1>5. CASE UNCHANGED <<sent, used, out>> /\ (hpc = "done" => hpc' = "done")
    BY <1>5
  <1>6. \/ \E s \in Side : Copy(s) \/ Send(s)
        \/ Consume /\ Quiet /\ hpc \in Reading /\ hpc' # "done"
        \/ UNCHANGED <<sent, used, out>> /\ (hpc = "done" => hpc' = "done")
    BY DEF Next, Handler, Copier, Peer, Finished, vars, hand, peers, relay, Quiet,
           Idle, Goto, Answer, Reading, ReadVersion, ReadMethods, ReadCredentials,
           ReadRequest, ReadFail, Resolve, UnknownCommand, Blocked, Unimplemented,
           Connect, DialOk, DialFail, Say, SayFail, Spawn, Collect, CloseTarget,
           CloseConn, CopyEnd, CopyFail, Shut, Report, Fin, Reset
  <1> HIDE DEF Move, UpSent, UpLeft, DownSent, DownLeft
  <1>7. CASE \E s \in Side : Copy(s) \/ Send(s)
    BY ONLY <1>2, <1>3, <1>7
  <1> QED
    BY ONLY <1>4, <1>5, <1>6, <1>7

LEMMA UpstreamStep ==
  IInv /\ IInv' /\ [Next]_vars => [Upstream!PipeNext]_Upstream!pipe
  <1> SUFFICES ASSUME IInv, IInv', [Next]_vars
               PROVE  Upstream!PipeNext \/ UNCHANGED Upstream!pipe
    OBVIOUS
  <1>1. /\ UpSent \in Nat /\ UpLeft \in Nat
        /\ Stream(used) \o out["target"] = Stream(UpLeft)
        /\ (Stream(used) \o out["target"])' = Stream(UpLeft')
        /\ Stream(sent["client"]) = Stream(UpSent)
        /\ Stream(sent["client"])' = Stream(UpSent')
    BY LeftIsStream, LeftStaysStream DEF Streams, UpSent
  <1>2. /\ Len(Stream(UpSent)) = UpSent /\ Len(Stream(UpLeft)) = UpLeft
        /\ Stream(UpSent + 1) = Append(Stream(UpSent), UpSent + 1)
        /\ Stream(UpLeft + 1) = Append(Stream(UpLeft), UpLeft + 1)
        /\ UpLeft < UpSent => Stream(UpSent)[UpLeft + 1] = UpLeft + 1
    BY ONLY <1>1, StreamGoesOn
  <1>3. CASE /\ UpSent' = UpSent + 1 /\ UpSent < MaxUp
             /\ UNCHANGED <<UpLeft, hpc>>
    <2>1. UpSent + 1 \in 1 .. MaxUp /\ UpSent - UpLeft < MaxUp
      BY <1>1, <1>3, Socks5Assumption
    <2>2. Upstream!Take(UpSent + 1)
      BY <1>1, <1>2, <1>3, <2>1 DEF Upstream!Take
    <2> QED
      BY <2>1, <2>2 DEF Upstream!PipeNext
  <1>4. CASE /\ UpLeft' = UpLeft + 1 /\ UpLeft < UpSent
             /\ hpc # "done" /\ hpc' # "done" /\ UNCHANGED UpSent
    <2>1. Upstream!Leave
      BY <1>1, <1>2, <1>4 DEF Upstream!Leave
    <2> QED
      BY <2>1 DEF Upstream!PipeNext
  <1>5. CASE UNCHANGED <<UpSent, UpLeft>> /\ (hpc = "done" => hpc' = "done")
    <2>1. CASE hpc # "done" /\ hpc' = "done"
      <3>1. Upstream!Break
        BY <1>1, <1>5, <2>1 DEF Upstream!Break
      <3> QED
        BY <3>1 DEF Upstream!PipeNext
    <2>2. CASE UNCHANGED (hpc = "done")
      BY <1>1, <1>5, <2>2 DEF Upstream!pipe
    <2> QED
      BY <1>5, <2>1, <2>2
  <1>6. \/ UpSent' = UpSent + 1 /\ UpSent < MaxUp /\ UNCHANGED <<UpLeft, hpc>>
        \/ /\ UpLeft' = UpLeft + 1 /\ UpLeft < UpSent
           /\ hpc # "done" /\ hpc' # "done" /\ UNCHANGED UpSent
        \/ UNCHANGED <<UpSent, UpLeft>> /\ (hpc = "done" => hpc' = "done")
    BY ONLY Moves, IInv, [Next]_vars DEF Move
  <1> QED
    BY ONLY <1>3, <1>4, <1>5, <1>6

LEMMA DownstreamStep ==
  IInv /\ IInv' /\ [Next]_vars => [Downstream!PipeNext]_Downstream!pipe
  <1> SUFFICES ASSUME IInv, IInv', [Next]_vars
               PROVE  Downstream!PipeNext \/ UNCHANGED Downstream!pipe
    OBVIOUS
  <1>1. /\ DownSent \in Nat /\ DownLeft \in Nat
        /\ out["client"] = Stream(DownLeft)
        /\ out["client"]' = Stream(DownLeft')
        /\ Stream(sent["target"]) = Stream(DownSent)
        /\ Stream(sent["target"])' = Stream(DownSent')
    BY LeftIsStream, LeftStaysStream DEF Streams, DownSent
  <1>2. /\ Len(Stream(DownSent)) = DownSent /\ Len(Stream(DownLeft)) = DownLeft
        /\ Stream(DownSent + 1) = Append(Stream(DownSent), DownSent + 1)
        /\ Stream(DownLeft + 1) = Append(Stream(DownLeft), DownLeft + 1)
        /\ DownLeft < DownSent => Stream(DownSent)[DownLeft + 1] = DownLeft + 1
    BY ONLY <1>1, StreamGoesOn
  <1>3. CASE /\ DownSent' = DownSent + 1 /\ DownSent < MaxDown
             /\ UNCHANGED <<DownLeft, hpc>>
    <2>1. DownSent + 1 \in 1 .. MaxDown /\ DownSent - DownLeft < MaxDown
      BY <1>1, <1>3, Socks5Assumption
    <2>2. Downstream!Take(DownSent + 1)
      BY <1>1, <1>2, <1>3, <2>1 DEF Downstream!Take
    <2> QED
      BY <2>1, <2>2 DEF Downstream!PipeNext
  <1>4. CASE /\ DownLeft' = DownLeft + 1 /\ DownLeft < DownSent
             /\ hpc # "done" /\ hpc' # "done" /\ UNCHANGED DownSent
    <2>1. Downstream!Leave
      BY <1>1, <1>2, <1>4 DEF Downstream!Leave
    <2> QED
      BY <2>1 DEF Downstream!PipeNext
  <1>5. CASE UNCHANGED <<DownSent, DownLeft>> /\ (hpc = "done" => hpc' = "done")
    <2>1. CASE hpc # "done" /\ hpc' = "done"
      <3>1. Downstream!Break
        BY <1>1, <1>5, <2>1 DEF Downstream!Break
      <3> QED
        BY <3>1 DEF Downstream!PipeNext
    <2>2. CASE UNCHANGED (hpc = "done")
      BY <1>1, <1>5, <2>2 DEF Downstream!pipe
    <2> QED
      BY <1>5, <2>1, <2>2
  <1>6. \/ DownSent' = DownSent + 1 /\ DownSent < MaxDown /\ UNCHANGED <<DownLeft, hpc>>
        \/ /\ DownLeft' = DownLeft + 1 /\ DownLeft < DownSent
           /\ hpc # "done" /\ hpc' # "done" /\ UNCHANGED DownSent
        \/ UNCHANGED <<DownSent, DownLeft>> /\ (hpc = "done" => hpc' = "done")
    BY ONLY Moves, IInv, [Next]_vars DEF Move
  <1> QED
    BY ONLY <1>3, <1>4, <1>5, <1>6

\* A session is a pipe in each direction: what the client sent is consumed by the
\* handshake or written to the target in order and without a gap, what the target
\* sent is written to the client, and nothing after the handler has returned
\* (request.go:198-212, 358-364).
THEOREM SessionIsRelay == Spec => IsRelay
  <1>1. Init => Upstream!PipeInit /\ Downstream!PipeInit
    <2> SUFFICES ASSUME Init
                 PROVE  Upstream!PipeInit /\ Downstream!PipeInit
      OBVIOUS
    <2>1. /\ sent["client"] = 0 /\ sent["target"] = 0 /\ used = 0
          /\ out["client"] = <<>> /\ out["target"] = <<>> /\ hpc = "version"
      BY DEF Init, Side
    <2>2. Stream(0) = <<>>
      BY StreamIs
    <2>3. Stream(0) \o <<>> = <<>>
      BY <2>2
    <2> QED
      BY <2>1, <2>2, <2>3 DEF Upstream!PipeInit, Downstream!PipeInit
  <1> QED
    BY <1>1, UpstreamStep, DownstreamStep, SessionInvariant, PTL
       DEF Spec, IsRelay, Upstream!PipeSpec, Downstream!PipeSpec
=============================================================================
