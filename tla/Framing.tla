------------------------------ MODULE Framing ------------------------------
(* How packets are framed on a stream and read back, for one direction of a *)
(* connection: a flag that says whether the body is sealed, the length of   *)
(* the body in 16 bits, the body, and the nonce of a sealed one.  Write     *)
(* goroutines build frames in one buffer that belongs to the connection;    *)
(* the server has one of them, the client one for each round of reading.    *)
(*                                                                          *)
(* What is sealed opens with the same key and nonce and only if it is       *)
(* whole.  A stream is cut into frames by what the reader finds in it.      *)
EXTENDS Naturals, Sequences, SequencesExt

CONSTANTS
    Writer,      \* the write goroutines that share the buffer
    Key,         \* the keys of the two ends
    NoKey,       \* an end without encryption
    Lengths,     \* the lengths of the packets
    Period,      \* 2^16: what the length of a frame is counted modulo
    Tag,         \* how much longer a packet is when it is sealed
    MaxPackets   \* bound: the packets written

ASSUME FramingAssumption ==
    /\ NoKey \notin Key
    /\ Lengths \subseteq Nat /\ Period \in Nat \ {0} /\ Tag \in Nat
    /\ MaxPackets \in Nat

Packet == 1 .. MaxPackets
Junk == 0                 \* what is no packet that was written

VARIABLES
    wkey, rkey,  \* the keys of the writing and the reading end
    size,        \* the length of each packet
    begun,       \* how many packets the write goroutines have taken
    buf,         \* the parts of frames in the buffer
    wpc,         \* what each write goroutine does next
    packet,      \* the packet it frames
    mixed,       \* history: two of them have been building a frame at a time
    stream,      \* the writes that are under way or not read yet
    written,     \* history: the packets whose frame was completed, in order
    rpc,         \* the reader: "synced" with the frames, "lost" or "ended"
    delivered    \* history: what it passed on, in order

keys   == <<wkey, rkey>>
frames == <<size, begun, buf, wpc, packet, mixed, written>>
vars   == <<keys, frames, stream, rpc, delivered>>

Sealed == wkey # NoKey

\* Mutant of LengthField: the length is that of the packet.
PacketLength(m) == size[m] % Period

BodySize(m) == size[m] + (IF Sealed THEN Tag ELSE 0)
LengthField(m) == BodySize(m) % Period
Fits(m) == BodySize(m) < Period

Part == {"flag", "length", "body", "nonce"}
Piece(part, m) == [part |-> part, of |-> m]
Frame(m) ==
    IF Sealed
    THEN <<Piece("flag", m), Piece("length", m), Piece("body", m),
           Piece("nonce", m)>>
    ELSE <<Piece("flag", m), Piece("length", m), Piece("body", m)>>

TypeOK ==
    /\ wkey \in Key \cup {NoKey} /\ rkey \in Key \cup {NoKey}
    /\ size \in [Packet -> Lengths \cup {0}]
    /\ begun \in 0 .. MaxPackets
    /\ buf \in Seq([part : Part, of : Packet])
    /\ wpc \in [Writer -> Part \cup {"idle", "flush"}]
    /\ packet \in [Writer -> Packet \cup {Junk}]
    /\ mixed \in BOOLEAN
    /\ stream \in Seq(Seq([part : Part, of : Packet]))
    /\ written \in Seq(Packet) /\ Len(written) <= begun
    /\ rpc \in {"synced", "lost", "ended"}
    /\ delivered \in Seq(Packet \cup {Junk})

Init ==
    /\ wkey \in Key \cup {NoKey} /\ rkey \in Key \cup {NoKey}
    /\ size = [m \in Packet |-> 0] /\ begun = 0
    /\ buf = <<>> /\ wpc = [w \in Writer |-> "idle"]
    /\ packet = [w \in Writer |-> Junk] /\ mixed = FALSE
    /\ stream = <<>> /\ written = <<>>
    /\ rpc = "synced" /\ delivered = <<>>

----------------------------------------------------------------------------
(* Writing: write, of both connections. *)

Building(w) == wpc[w] # "idle"

\* A packet is taken and the buffer reset, whatever is in it.
Begin(w, n) ==
    /\ ~Building(w)
    /\ begun < MaxPackets
    /\ begun' = begun + 1
    /\ size' = [size EXCEPT ![begun'] = n]
    /\ packet' = [packet EXCEPT ![w] = begun']
    /\ buf' = <<>>
    /\ wpc' = [wpc EXCEPT ![w] = "flag"]
    /\ mixed' = (mixed \/ \E v \in Writer : Building(v))
    /\ UNCHANGED <<keys, stream, written, rpc, delivered>>

After(part) ==
    CASE part = "flag" -> "length"
      [] part = "length" -> "body"
      [] part = "body" -> IF Sealed THEN "nonce" ELSE "flush"
      [] OTHER -> "flush"

Put(w) ==
    /\ wpc[w] \in Part
    /\ buf' = Append(buf, Piece(wpc[w], packet[w]))
    /\ wpc' = [wpc EXCEPT ![w] = After(wpc[w])]
    /\ UNCHANGED <<keys, size, begun, packet, mixed, stream, written, rpc,
                   delivered>>

\* Mutant of Flush: a write is repeated.
FlushAgain(w) ==
    /\ wpc[w] = "flush"
    /\ stream' = Append(stream, buf)
    /\ written' = Append(written, packet[w])
    /\ UNCHANGED <<keys, size, begun, buf, wpc, packet, mixed, rpc, delivered>>

\* WriteTo: what is in the buffer by now is written and the buffer is empty.
Flush(w) ==
    /\ wpc[w] = "flush"
    /\ stream' = Append(stream, buf)
    /\ written' = Append(written, packet[w])
    /\ buf' = <<>>
    /\ wpc' = [wpc EXCEPT ![w] = "idle"]
    /\ packet' = [packet EXCEPT ![w] = Junk]
    /\ UNCHANGED <<keys, size, begun, mixed, rpc, delivered>>

----------------------------------------------------------------------------
(* Reading: read, of both connections, and the loops around it. *)

\* The reader comes to the beginning of a write, which may be the frame of m.
AtFrame(m) == rpc = "synced" /\ stream # <<>> /\ Head(stream) = Frame(m)

Take(item, state) ==
    /\ stream' = Tail(stream)
    /\ delivered' = Append(delivered, item)
    /\ rpc' = state
    /\ UNCHANGED <<keys, frames>>

Skip(state) ==
    /\ stream' = Tail(stream)
    /\ rpc' = state
    /\ UNCHANGED <<keys, frames, delivered>>

\* Mutant of ReadPlain: an end with a key waits for a nonce.
ReadPlainNonce(m) ==
    /\ AtFrame(m) /\ ~Sealed
    /\ rkey = NoKey
    /\ IF LengthField(m) = BodySize(m) THEN Take(m, "synced")
                                       ELSE Take(Junk, "lost")

\* A plain frame is passed on whether or not this end has a key.  One whose
\* length was cut is passed on in part, and its rest is taken for a frame.
ReadPlain(m) ==
    /\ AtFrame(m) /\ ~Sealed
    /\ IF LengthField(m) = BodySize(m) THEN Take(m, "synced")
                                       ELSE Take(Junk, "lost")

ReadSealed(m) ==
    /\ AtFrame(m) /\ Sealed
    /\ rkey = wkey /\ LengthField(m) = BodySize(m)
    /\ Take(m, "synced")

\* Mutant of ReadRefused: the reader goes on with the next frame.
ReadRefusedOn(m) ==
    /\ AtFrame(m) /\ Sealed
    /\ rkey # wkey \/ LengthField(m) # BodySize(m)
    /\ Skip("synced")

\* It does not open, or there is no key to open it with (a panic that is
\* recovered): the connection ends.
ReadRefused(m) ==
    /\ AtFrame(m) /\ Sealed
    /\ rkey # wkey \/ LengthField(m) # BodySize(m)
    /\ Skip("ended")

\* Parts of several frames: anything may come of them.
ReadMixed ==
    /\ rpc = "synced" /\ stream # <<>>
    /\ \A m \in Packet : Head(stream) # Frame(m)
    /\ Take(Junk, "lost") \/ Skip("lost") \/ Skip("ended")

ReadLost ==
    /\ rpc = "lost" /\ stream # <<>>
    /\ Take(Junk, "lost") \/ Skip("lost") \/ Skip("ended")

Write(w) == Put(w) \/ Flush(w) \/ \E n \in Lengths : Begin(w, n)

Read ==
    \/ \E m \in Packet : ReadPlain(m) \/ ReadSealed(m) \/ ReadRefused(m)
    \/ ReadMixed \/ ReadLost

Next == (\E w \in Writer : Write(w)) \/ Read

Spec == Init /\ [][Next]_vars /\ WF_vars(Read)

----------------------------------------------------------------------------
(* Properties *)

\* What one end writes is what the other reads, packet by packet and in order,
\* if the packets fit in 16 bits with all that is added to them, the ends agree
\* on the key, and no two goroutines build frames in the buffer at a time.
Intact ==
    (/\ \A m \in 1 .. begun : Fits(m)
     /\ wkey \in {NoKey, rkey}
     /\ ~mixed)
        => rpc = "synced" /\ IsPrefix(delivered, written)

\* With a key at the writing end, too long a packet or another key ends the
\* connection: what was passed on before is what was written.
SealedOrNothing ==
    Sealed /\ ~mixed => rpc # "lost" /\ IsPrefix(delivered, written)

\* Everything written is read, or the connection ends, or the reader has lost
\* its place.
AllRead ==
    \A n \in Packet :
        (Len(written) >= n) ~> (Len(delivered) >= n \/ rpc # "synced")
=============================================================================
