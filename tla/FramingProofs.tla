--------------------------- MODULE FramingProofs ---------------------------
(* Proofs about Framing, for any write goroutines, keys and lengths, any    *)
(* width of the length field and any overhead of a sealed packet.           *)
EXTENDS Framing, FiniteSetTheorems, SequenceTheorems, TLAPS

Pieces == [part : Part, of : Packet]
Builders == {w \in Writer : Building(w)}

----------------------------------------------------------------------------
(* The inductive invariant. *)

\* The packets taken are those written and those being framed.
Counted ==
    /\ IsFiniteSet(Builders)
    /\ Len(written) + Cardinality(Builders) = begun

OneBuilder ==
    ~mixed => \A v, w \in Writer : Building(v) /\ Building(w) => v = w

\* The frame of m for a writing end with this key.
FrameFor(key, m) ==
    IF key # NoKey
    THEN <<Piece("flag", m), Piece("length", m), Piece("body", m),
           Piece("nonce", m)>>
    ELSE <<Piece("flag", m), Piece("length", m), Piece("body", m)>>

\* As much of it as is built when the writer is at state.
BuiltFor(key, m, state) ==
    CASE state = "flag" -> <<>>
      [] state = "length" -> <<Piece("flag", m)>>
      [] state = "body" -> <<Piece("flag", m), Piece("length", m)>>
      [] state = "nonce" ->
            <<Piece("flag", m), Piece("length", m), Piece("body", m)>>
      [] OTHER -> FrameFor(key, m)

\* What a writer is at.
Framed ==
    \A w \in Writer : Building(w) =>
        /\ packet[w] \in 1 .. begun
        /\ wpc[w] = "nonce" => Sealed
        /\ ~mixed => buf = BuiltFor(wkey, packet[w], wpc[w])

\* What is written and not read are the frames of what was written and not
\* delivered, for a reader that has not lost its place.
InStep ==
    ~mixed /\ rpc = "synced" =>
        /\ Len(delivered) + Len(stream) = Len(written)
        /\ \A i \in 1 .. Len(stream) :
              stream[i] = FrameFor(wkey, written[Len(delivered) + i])

WrittenBegun == \A i \in 1 .. Len(written) : written[i] \in 1 .. begun

SamePackets ==
    /\ Len(delivered) <= Len(written)
    /\ \A i \in 1 .. Len(delivered) : delivered[i] = written[i]

Agree ==
    /\ \A m \in 1 .. begun : Fits(m)
    /\ wkey \in {NoKey, rkey}

ReadRight ==
    ~mixed =>
        /\ Agree => rpc = "synced"
        /\ Sealed => rpc # "lost"
        /\ rpc = "synced" \/ Sealed => SamePackets

Types == TypeOK /\ Counted
Building1 == OneBuilder /\ Framed /\ WrittenBegun
IInv == Types /\ Building1 /\ InStep /\ ReadRight

----------------------------------------------------------------------------
(* Lemmas about the operators. *)

LEMMA LengthsNat == Lengths \subseteq Nat
  BY FramingAssumption

LEMMA SmallModulo ==
  ASSUME NEW p \in Nat \ {0}, NEW x \in Nat, x < p
  PROVE  x % p = x
  BY SMT

\* A length that fits is written as it is.
LEMMA FieldOfFitting ==
  ASSUME TypeOK, NEW m \in Packet, Fits(m)
  PROVE  LengthField(m) = BodySize(m)
  <1>1. size[m] \in Nat
    <2>1. size \in [Packet -> Lengths \cup {0}]
      BY DEF TypeOK
    <2>2. size[m] \in Lengths \cup {0}
      BY <2>1
    <2>3. \A x \in Lengths \cup {0} : x \in Nat
      BY LengthsNat
    <2> QED
      BY ONLY <2>2, <2>3
  <1>2. BodySize(m) \in Nat
    BY <1>1, FramingAssumption DEF BodySize
  <1> QED
    BY <1>2, SmallModulo, FramingAssumption DEF Fits, LengthField

LEMMA FrameIs ==
  ASSUME NEW m
  PROVE  Frame(m) = FrameFor(wkey, m)
  BY DEF Frame, FrameFor, Sealed

\* A frame shows which packet it is of.
LEMMA FrameInjective ==
  ASSUME NEW key, NEW m, NEW n, FrameFor(key, m) = FrameFor(key, n)
  PROVE  m = n
  <1>1. /\ FrameFor(key, m)[1] = Piece("flag", m)
        /\ FrameFor(key, n)[1] = Piece("flag", n)
    BY DEF FrameFor, Piece
  <1>2. Piece("flag", m).of = m /\ Piece("flag", n).of = n
    BY DEF Piece
  <1> QED
    BY <1>1, <1>2

LEMMA PrefixOf ==
  ASSUME NEW S, NEW s \in Seq(S), NEW t \in Seq(S),
         Len(s) <= Len(t), \A i \in 1 .. Len(s) : s[i] = t[i]
  PROVE  IsPrefix(s, t)
  BY DEF IsPrefix

LEMMA AppendIs ==
  ASSUME NEW S, NEW s \in Seq(S), NEW e \in S, NEW t \in Seq(S),
         Len(t) = Len(s) + 1, t[Len(t)] = e,
         \A i \in 1 .. Len(s) : t[i] = s[i]
  PROVE  Append(s, e) = t
  <1>1. /\ Append(s, e) \in Seq(S)
        /\ Len(Append(s, e)) = Len(s) + 1
        /\ \A i \in 1 .. Len(s) : Append(s, e)[i] = s[i]
        /\ Append(s, e)[Len(s) + 1] = e
    BY AppendProperties
  <1>2. \A i \in 1 .. Len(t) : Append(s, e)[i] = t[i]
    BY <1>1
  <1> QED
    BY <1>1, <1>2, SeqEqual

LEMMA SeqOfThree ==
  ASSUME NEW S, NEW a \in S, NEW b \in S, NEW c \in S
  PROVE  <<a, b, c>> \in Seq(S)
  <1>1. <<a, b, c>> \in [1 .. 3 -> S]
    OBVIOUS
  <1> QED
    BY <1>1

LEMMA SeqOfFour ==
  ASSUME NEW S, NEW a \in S, NEW b \in S, NEW c \in S, NEW d \in S
  PROVE  <<a, b, c, d>> \in Seq(S)
  <1>1. <<a, b, c, d>> \in [1 .. 4 -> S]
    OBVIOUS
  <1> QED
    BY <1>1

\* Putting the next part makes the next stage of the frame.
LEMMA BuiltNext ==
  ASSUME NEW m \in Packet, NEW state \in Part, state = "nonce" => Sealed
  PROVE  Append(BuiltFor(wkey, m, state), Piece(state, m))
            = BuiltFor(wkey, m, After(state))
  <1> DEFINE f == Piece("flag", m)
             l == Piece("length", m)
             b == Piece("body", m)
             n == Piece("nonce", m)
  <1>1. f \in Pieces /\ l \in Pieces /\ b \in Pieces /\ n \in Pieces
    BY DEF Piece, Pieces, Part
  <1> HIDE DEF f, l, b, n
  <1>2. /\ <<>> \in Seq(Pieces) /\ <<f>> \in Seq(Pieces)
        /\ <<f, l>> \in Seq(Pieces) /\ <<f, l, b>> \in Seq(Pieces)
        /\ <<f, l, b, n>> \in Seq(Pieces)
    BY <1>1, SeqOfThree, SeqOfFour
  <1>3. Append(<<>>, f) = <<f>>
    BY <1>1, <1>2, AppendIs
  <1>4. Append(<<f>>, l) = <<f, l>>
    <2>1. Len(<<f>>) = 1 /\ Len(<<f, l>>) = 2 /\ <<f, l>>[2] = l
      OBVIOUS
    <2>2. Len(<<f, l>>) = Len(<<f>>) + 1 /\ <<f, l>>[Len(<<f, l>>)] = l
      BY <2>1
    <2>3. \A i \in 1 .. Len(<<f>>) : <<f, l>>[i] = <<f>>[i]
      OBVIOUS
    <2> QED
      BY ONLY <1>1, <1>2, <2>2, <2>3, AppendIs
  <1>5. Append(<<f, l>>, b) = <<f, l, b>>
    <2>1. Len(<<f, l>>) = 2 /\ Len(<<f, l, b>>) = 3 /\ <<f, l, b>>[3] = b
      OBVIOUS
    <2>2. Len(<<f, l, b>>) = Len(<<f, l>>) + 1 /\ <<f, l, b>>[Len(<<f, l, b>>)] = b
      BY <2>1
    <2>3. \A i \in 1 .. Len(<<f, l>>) : <<f, l, b>>[i] = <<f, l>>[i]
      OBVIOUS
    <2> QED
      BY ONLY <1>1, <1>2, <2>2, <2>3, AppendIs
  <1>6. Append(<<f, l, b>>, n) = <<f, l, b, n>>
    <2>1. Len(<<f, l, b>>) = 3 /\ Len(<<f, l, b, n>>) = 4 /\ <<f, l, b, n>>[4] = n
      OBVIOUS
    <2>2. Len(<<f, l, b, n>>) = Len(<<f, l, b>>) + 1 /\ <<f, l, b, n>>[Len(<<f, l, b, n>>)] = n
      BY <2>1
    <2>3. \A i \in 1 .. Len(<<f, l, b>>) : <<f, l, b, n>>[i] = <<f, l, b>>[i]
      OBVIOUS
    <2> QED
      BY ONLY <1>1, <1>2, <2>2, <2>3, AppendIs
  <1>7. CASE state = "flag"
    BY <1>7, <1>3 DEF BuiltFor, After, f
  <1>8. CASE state = "length"
    BY <1>8, <1>4 DEF BuiltFor, After, f, l
  <1>9. CASE state = "body"
    BY <1>9, <1>5 DEF BuiltFor, After, FrameFor, Sealed, f, l, b
  <1>10. CASE state = "nonce"
    BY <1>10, <1>6 DEF BuiltFor, After, FrameFor, Sealed, f, l, b, n
  <1> QED
    BY <1>7, <1>8, <1>9, <1>10 DEF Part

----------------------------------------------------------------------------
(* Types, and the count of the packets that are being framed. *)

LEMMA InitTypes == Init => Types
  <1> SUFFICES ASSUME Init PROVE Types
    OBVIOUS
  <1>1. TypeOK
    <2> USE FramingAssumption DEF Init
    <2>1. begun \in 0 .. MaxPackets /\ Len(written) <= begun
      OBVIOUS
    <2>2. size \in [Packet -> Lengths \cup {0}]
      OBVIOUS
    <2>3. wpc \in [Writer -> Part \cup {"idle", "flush"}]
      OBVIOUS
    <2>4. packet \in [Writer -> Packet \cup {Junk}]
      OBVIOUS
    <2>5. /\ buf \in Seq([part : Part, of : Packet])
          /\ stream \in Seq(Seq([part : Part, of : Packet]))
          /\ written \in Seq(Packet)
          /\ delivered \in Seq(Packet \cup {Junk})
      OBVIOUS
    <2>6. /\ wkey \in Key \cup {NoKey} /\ rkey \in Key \cup {NoKey}
          /\ mixed \in BOOLEAN /\ rpc \in {"synced", "lost", "ended"}
      OBVIOUS
    <2> QED
      BY ONLY <2>1, <2>2, <2>3, <2>4, <2>5, <2>6 DEF TypeOK
  <1>2. Builders = {}
    BY DEF Init, Builders, Building
  <1> QED
    BY <1>1, <1>2, FS_EmptySet DEF Types, Counted, Init

\* A step that starts and ends no frame keeps the count.
LEMMA SameCount ==
  ASSUME Counted, Builders' = Builders, UNCHANGED <<written, begun>>
  PROVE  Counted'
  BY DEF Counted

LEMMA BeginTypes ==
  ASSUME Types, NEW w \in Writer, NEW n \in Lengths, Begin(w, n)
  PROVE  Types'
  <1> USE FramingAssumption DEF Types, TypeOK, Begin, keys
  <1>1. begun' \in 1 .. MaxPackets /\ begun' = begun + 1
    OBVIOUS
  <1>2. size' \in [Packet -> Lengths \cup {0}]
    BY <1>1 DEF Packet
  <1>3. packet' \in [Writer -> Packet \cup {Junk}]
    BY <1>1 DEF Packet
  <1>4. wpc' \in [Writer -> Part \cup {"idle", "flush"}]
    BY DEF Part
  <1>5. Builders' = Builders \cup {w} /\ w \notin Builders
    BY DEF Builders, Building
  <1>6. Counted'
    <2>1. IsFiniteSet(Builders) /\ Cardinality(Builders) \in Nat
      BY FS_CardinalityType DEF Counted
    <2>2. /\ IsFiniteSet(Builders \cup {w})
          /\ Cardinality(Builders \cup {w}) = Cardinality(Builders) + 1
      BY <2>1, <1>5, FS_AddElement
    <2>3. Len(written) \in Nat /\ begun \in Nat
      OBVIOUS
    <2>4. Len(written) + (Cardinality(Builders) + 1) = begun + 1
      <3>1. Len(written) + Cardinality(Builders) = begun
        BY DEF Counted
      <3> QED
        BY ONLY <2>1, <2>3, <3>1
    <2> QED
      BY <1>1, <1>5, <2>2, <2>4 DEF Counted
  <1> QED
    BY <1>1, <1>2, <1>3, <1>4, <1>6

LEMMA PutTypes ==
  ASSUME Types, NEW w \in Writer, Put(w), packet[w] \in Packet
  PROVE  Types'
  <1> USE FramingAssumption DEF Types, TypeOK, Put, keys
  <1>1. Piece(wpc[w], packet[w]) \in [part : Part, of : Packet]
    BY DEF Piece
  <1>2. buf' \in Seq([part : Part, of : Packet])
    BY <1>1
  <1>3. After(wpc[w]) \in Part \cup {"flush"} /\ After(wpc[w]) # "idle"
    BY DEF After, Part
  <1>4. wpc' \in [Writer -> Part \cup {"idle", "flush"}]
    BY <1>3
  <1>5. Builders' = Builders
    BY <1>3 DEF Builders, Building, Part
  <1> QED
    BY <1>2, <1>4, <1>5, SameCount

LEMMA FlushTypes ==
  ASSUME Types, NEW w \in Writer, Flush(w), packet[w] \in Packet
  PROVE  Types'
  <1> USE FramingAssumption DEF Types, TypeOK, Flush, keys
  <1>1. written' \in Seq(Packet) /\ Len(written') = Len(written) + 1
    OBVIOUS
  <1>2. stream' \in Seq(Seq([part : Part, of : Packet]))
    OBVIOUS
  <1>3. wpc' \in [Writer -> Part \cup {"idle", "flush"}]
    OBVIOUS
  <1>4. packet' \in [Writer -> Packet \cup {Junk}]
    OBVIOUS
  <1>5. Builders' = Builders \ {w} /\ w \in Builders
    BY DEF Builders, Building
  <1>6. Cardinality(Builders) \in Nat /\ Cardinality(Builders \ {w}) \in Nat
    BY <1>5, FS_RemoveElement, FS_CardinalityType DEF Counted
  <1>7. Counted'
    <2>1. /\ IsFiniteSet(Builders \ {w})
          /\ Cardinality(Builders \ {w}) = Cardinality(Builders) - 1
      BY <1>5, FS_RemoveElement DEF Counted
    <2>2. Len(written) \in Nat /\ begun \in Nat /\ begun' = begun
      OBVIOUS
    <2>3. (Len(written) + 1) + (Cardinality(Builders) - 1) = begun
      BY <1>6, <2>2 DEF Counted
    <2> QED
      BY <1>1, <1>5, <2>1, <2>2, <2>3 DEF Counted
  <1>8. Len(written') <= begun'
    BY <1>1, <1>5, <1>6, <1>7 DEF Counted
  <1> QED
    BY <1>1, <1>2, <1>3, <1>4, <1>7, <1>8

LEMMA ReadTypes ==
  ASSUME Types, Read
  PROVE  Types'
  <1> USE FramingAssumption DEF Types, TypeOK, keys, frames
  <1>1. /\ UNCHANGED <<keys, frames>>
        /\ stream # <<>> /\ stream' = Tail(stream)
        /\ rpc' \in {"synced", "lost", "ended"}
        /\ \/ delivered' = delivered
           \/ \E m \in Packet \cup {Junk} : delivered' = Append(delivered, m)
    BY DEF Read, ReadPlain, ReadSealed, ReadRefused, ReadMixed, ReadLost, Take,
           Skip, AtFrame
  <1>2. delivered' \in Seq(Packet \cup {Junk})
    <2>1. \A m \in Packet \cup {Junk} :
             Append(delivered, m) \in Seq(Packet \cup {Junk})
      OBVIOUS
    <2> QED
      BY <1>1, <2>1
  <1>3. stream' \in Seq(Seq([part : Part, of : Packet]))
    BY <1>1
  <1>4. Builders' = Builders
    BY <1>1 DEF Builders, Building
  <1> QED
    BY <1>1, <1>2, <1>3, <1>4, SameCount

----------------------------------------------------------------------------
(* Building frames. *)

LEMMA BeginBuilds ==
  ASSUME Types, Building1, NEW w \in Writer, NEW n \in Lengths, Begin(w, n)
  PROVE  Building1'
  <1> USE DEF Types, TypeOK, Building1, Begin, keys
  <1>1. begun' = begun + 1 /\ begun \in Nat
    BY FramingAssumption
  <1>2. mixed' = FALSE => mixed = FALSE /\ \A v \in Writer : ~Building(v)
    OBVIOUS
  <1>3. wpc'[w] = "flag" /\ \A v \in Writer \ {w} : wpc'[v] = wpc[v]
    OBVIOUS
  <1>4. packet'[w] = begun' /\ \A v \in Writer \ {w} : packet'[v] = packet[v]
    OBVIOUS
  <1>5. OneBuilder'
    BY <1>2, <1>3 DEF OneBuilder, Building
  <1>6. ASSUME NEW v \in Writer, Building(v)'
        PROVE  /\ packet'[v] \in 1 .. begun'
               /\ wpc'[v] = "nonce" => Sealed'
               /\ ~mixed' => buf' = BuiltFor(wkey', packet'[v], wpc'[v])
    <2>1. CASE v = w
      BY <2>1, <1>1, <1>3, <1>4 DEF BuiltFor
    <2>2. CASE v # w
      <3>1. Building(v) /\ packet'[v] = packet[v] /\ wpc'[v] = wpc[v]
        BY <1>3, <1>4, <1>6, <2>2 DEF Building
      <3>2. packet[v] \in 1 .. begun /\ (wpc[v] = "nonce" => Sealed)
        BY <3>1 DEF Framed
      <3>3. packet'[v] \in 1 .. begun'
        BY <3>1, <3>2, <1>1
      <3>4. mixed'
        BY <1>2, <3>1
      <3> QED
        BY <3>1, <3>2, <3>3, <3>4 DEF Sealed
    <2> QED
      BY <2>1, <2>2
  <1>7. Framed'
    BY <1>6 DEF Framed
  <1>8. WrittenBegun'
    BY <1>1 DEF WrittenBegun
  <1> QED
    BY <1>5, <1>7, <1>8

LEMMA PutBuilds ==
  ASSUME Types, Building1, NEW w \in Writer, Put(w)
  PROVE  Building1'
  <1> USE DEF Types, TypeOK, Building1, Put, keys
  <1>1. /\ wpc[w] \in Part /\ wpc'[w] = After(wpc[w])
        /\ \A v \in Writer \ {w} : wpc'[v] = wpc[v]
        /\ packet' = packet /\ mixed' = mixed /\ begun' = begun
        /\ wkey' = wkey /\ written' = written
    OBVIOUS
  <1>2. After(wpc[w]) # "idle" /\ (After(wpc[w]) = "nonce" => Sealed)
    BY DEF After, Part
  <1>3. \A v \in Writer : Building(v)' <=> Building(v)
    BY <1>1, <1>2 DEF Building, Part
  <1>4. Building(w) /\ packet[w] \in Packet
    <2>1. Building(w)
      BY <1>1 DEF Building, Part
    <2>2. packet[w] \in 1 .. begun /\ begun \in 0 .. MaxPackets
      BY <2>1 DEF Framed
    <2> QED
      BY <2>1, <2>2, FramingAssumption DEF Packet
  <1>5. OneBuilder'
    BY <1>1, <1>3 DEF OneBuilder
  <1>6. ~mixed => buf' = BuiltFor(wkey, packet[w], After(wpc[w]))
    <2>1. SUFFICES ASSUME ~mixed
                   PROVE  buf' = BuiltFor(wkey, packet[w], After(wpc[w]))
      OBVIOUS
    <2>2. /\ buf = BuiltFor(wkey, packet[w], wpc[w])
          /\ wpc[w] = "nonce" => Sealed
      BY <1>4, <2>1 DEF Framed
    <2>3. buf' = Append(buf, Piece(wpc[w], packet[w]))
      OBVIOUS
    <2> QED
      BY ONLY <1>1, <1>4, <2>2, <2>3, BuiltNext
  <1>7. ASSUME NEW v \in Writer, Building(v)'
        PROVE  /\ packet'[v] \in 1 .. begun'
               /\ wpc'[v] = "nonce" => Sealed'
               /\ ~mixed' => buf' = BuiltFor(wkey', packet'[v], wpc'[v])
    <2>1. Building(v) /\ packet[v] \in 1 .. begun
      BY <1>3, <1>7 DEF Framed
    <2>2. CASE v = w
      BY <2>1, <2>2, <1>1, <1>2, <1>6 DEF Sealed
    <2>3. CASE v # w
      <3>1. mixed
        BY <2>1, <1>4, <2>3 DEF OneBuilder
      <3>2. wpc[v] = "nonce" => Sealed
        BY <2>1 DEF Framed
      <3> QED
        BY <2>1, <2>3, <3>1, <3>2, <1>1 DEF Sealed
    <2> QED
      BY <2>2, <2>3
  <1>8. Framed'
    BY <1>7 DEF Framed
  <1>9. WrittenBegun'
    BY <1>1 DEF WrittenBegun
  <1> QED
    BY <1>5, <1>8, <1>9

LEMMA FlushBuilds ==
  ASSUME Types, Building1, NEW w \in Writer, Flush(w)
  PROVE  Building1'
  <1> USE DEF Types, TypeOK, Building1, Flush, keys
  <1>1. /\ wpc[w] = "flush" /\ wpc'[w] = "idle"
        /\ \A v \in Writer \ {w} : wpc'[v] = wpc[v] /\ packet'[v] = packet[v]
        /\ mixed' = mixed /\ begun' = begun /\ wkey' = wkey
        /\ written' = Append(written, packet[w])
    OBVIOUS
  <1>2. Building(w) /\ packet[w] \in 1 .. begun
    BY <1>1 DEF Building, Framed
  <1>3. \A v \in Writer : Building(v)' => v # w /\ Building(v)
    BY <1>1 DEF Building
  <1>4. OneBuilder'
    BY <1>1, <1>3 DEF OneBuilder
  <1>5. ASSUME NEW v \in Writer, Building(v)'
        PROVE  /\ packet'[v] \in 1 .. begun'
               /\ wpc'[v] = "nonce" => Sealed'
               /\ ~mixed' => buf' = BuiltFor(wkey', packet'[v], wpc'[v])
    <2>1. v # w /\ Building(v)
      BY <1>3, <1>5
    <2>2. packet[v] \in 1 .. begun /\ (wpc[v] = "nonce" => Sealed)
      BY <2>1 DEF Framed
    <2>3. mixed
      BY <2>1, <1>2 DEF OneBuilder
    <2> QED
      BY <2>1, <2>2, <2>3, <1>1 DEF Sealed
  <1>6. Framed'
    BY <1>5 DEF Framed
  <1>7. WrittenBegun'
    <2>1. \A i \in 1 .. Len(written) : written[i] \in 1 .. begun
      BY DEF WrittenBegun
    <2>2. ASSUME NEW i \in 1 .. Len(written')
          PROVE  written'[i] \in 1 .. begun
      <3>1. CASE i = Len(written) + 1
        BY <3>1, <1>1, <1>2
      <3>2. CASE i \in 1 .. Len(written)
        BY <3>2, <1>1, <2>1
      <3> QED
        BY <3>1, <3>2, <1>1
    <2> QED
      BY <2>2, <1>1 DEF WrittenBegun
  <1> QED
    BY <1>4, <1>6, <1>7

----------------------------------------------------------------------------
(* What is read. *)

\* Whether the packets taken earlier fit does not change.
LEMMA StillAgree ==
  ASSUME Types, UNCHANGED <<wkey, rkey>>, begun' \in Nat, begun <= begun',
         \A m \in 1 .. begun : size'[m] = size[m], Agree'
  PROVE  Agree
  <1>1. begun \in Nat
    BY FramingAssumption DEF Types, TypeOK
  <1>2. ASSUME NEW m \in 1 .. begun
        PROVE  Fits(m)
    <2>1. m \in 1 .. begun'
      BY <1>1
    <2>2. BodySize(m)' < Period
      BY <2>1 DEF Agree, Fits
    <2> QED
      BY <2>2 DEF Fits, BodySize, Sealed
  <1> QED
    BY <1>2 DEF Agree

LEMMA BeginReads ==
  ASSUME Types, InStep, ReadRight, NEW w \in Writer, NEW n \in Lengths,
         Begin(w, n)
  PROVE  InStep' /\ ReadRight'
  <1>1. /\ begun \in Nat /\ begun' = begun + 1
        /\ size \in [Packet -> Lengths \cup {0}]
        /\ size' = [size EXCEPT ![begun'] = n]
        /\ begun \in 0 .. MaxPackets
    BY FramingAssumption DEF Types, TypeOK, Begin
  <1>2. \A m \in 1 .. begun : size'[m] = size[m]
    BY <1>1, FramingAssumption DEF Packet
  <1>3. /\ mixed' = FALSE => mixed = FALSE
        /\ mixed' \in BOOLEAN
        /\ UNCHANGED <<wkey, rkey, stream, written, rpc, delivered>>
    BY DEF Begin, keys, Types, TypeOK
  <1>4. InStep'
    BY <1>3 DEF InStep
  <1>5. Agree' => Agree
    BY <1>1, <1>2, <1>3, StillAgree
  <1>6. SamePackets' <=> SamePackets
    BY <1>3 DEF SamePackets
  <1>7. ReadRight'
    BY <1>3, <1>5, <1>6 DEF ReadRight, Sealed
  <1> QED
    BY <1>4, <1>7

\* Putting a part changes nothing the reader sees.
LEMMA PutReads ==
  ASSUME Types, InStep, ReadRight, NEW w \in Writer, Put(w)
  PROVE  InStep' /\ ReadRight'
  <1>1. UNCHANGED <<wkey, rkey, size, begun, mixed, stream, written, rpc,
                    delivered>>
    BY DEF Put, keys
  <1> QED
    BY <1>1 DEF InStep, ReadRight, SamePackets, Agree, Fits, BodySize, Sealed

LEMMA FlushReads ==
  ASSUME Types, Building1, InStep, ReadRight, NEW w \in Writer, Flush(w)
  PROVE  InStep' /\ ReadRight'
  <1> USE DEF Types, TypeOK
  <1>1. /\ wpc[w] = "flush" /\ stream' = Append(stream, buf)
        /\ written' = Append(written, packet[w])
        /\ UNCHANGED <<wkey, rkey, size, begun, mixed, rpc, delivered>>
    BY DEF Flush, keys
  <1>2. packet[w] \in 1 .. begun /\ (~mixed => buf = FrameFor(wkey, packet[w]))
    BY <1>1 DEF Building1, Framed, Building, BuiltFor
  <1>3. /\ Len(stream') = Len(stream) + 1 /\ stream'[Len(stream) + 1] = buf
        /\ \A i \in 1 .. Len(stream) : stream'[i] = stream[i]
    BY <1>1
  <1>4. packet[w] \in Packet
    BY <1>2, FramingAssumption DEF Packet
  <1>5. /\ Len(written') = Len(written) + 1
        /\ written'[Len(written) + 1] = packet[w]
        /\ \A i \in 1 .. Len(written) : written'[i] = written[i]
    BY <1>1, <1>4
  <1>6. /\ Len(stream) \in Nat /\ Len(written) \in Nat /\ Len(delivered) \in Nat
    OBVIOUS
  <1>7. InStep'
    <2> SUFFICES ASSUME ~mixed', rpc' = "synced"
                 PROVE  /\ Len(delivered') + Len(stream') = Len(written')
                        /\ \A i \in 1 .. Len(stream') :
                              stream'[i] =
                                FrameFor(wkey', written'[Len(delivered') + i])
      BY DEF InStep
    <2>1. /\ Len(delivered) + Len(stream) = Len(written)
          /\ \A i \in 1 .. Len(stream) :
                stream[i] = FrameFor(wkey, written[Len(delivered) + i])
      BY <1>1 DEF InStep
    <2>2. Len(delivered') + Len(stream') = Len(written')
      BY <2>1, <1>1, <1>3, <1>5, <1>6
    <2>3. ASSUME NEW i \in 1 .. Len(stream')
          PROVE  stream'[i] = FrameFor(wkey', written'[Len(delivered') + i])
      <3>1. CASE i = Len(stream) + 1
        <4>1. Len(delivered) + i = Len(written) + 1
          <5>1. Len(delivered) + Len(stream) = Len(written)
            BY <2>1
          <5> QED
            BY ONLY <3>1, <5>1, <1>6
        <4> QED
          BY <4>1, <3>1, <1>1, <1>2, <1>3, <1>5
      <3>2. CASE i \in 1 .. Len(stream)
        <4>1. Len(delivered) + i \in 1 .. Len(written)
          BY <3>2, <2>1, <1>6
        <4> QED
          BY <4>1, <3>2, <2>1, <1>1, <1>3, <1>5
      <3> QED
        BY <3>1, <3>2, <1>3, <1>6
    <2> QED
      BY <2>2, <2>3
  <1>8. SamePackets => SamePackets'
    BY <1>1, <1>5, <1>6 DEF SamePackets
  <1>9. ReadRight'
    BY <1>1, <1>8 DEF ReadRight, Agree, Fits, BodySize, Sealed
  <1> QED
    BY <1>7, <1>9

\* A reader in step that takes the frame it is at stays in step.
LEMMA TakeInStep ==
  ASSUME Types, InStep, ReadRight, ~mixed, rpc = "synced", stream # <<>>,
         NEW m \in Packet, Head(stream) = FrameFor(wkey, m)
  PROVE  /\ m = written[Len(delivered) + 1] /\ SamePackets
         /\ Take(m, "synced") => InStep' /\ SamePackets'
  <1> USE DEF Types, TypeOK
  <1>1. /\ Len(delivered) + Len(stream) = Len(written)
        /\ \A i \in 1 .. Len(stream) :
              stream[i] = FrameFor(wkey, written[Len(delivered) + i])
    BY DEF InStep
  <1>2. Len(stream) \in Nat \ {0} /\ Len(delivered) \in Nat
    OBVIOUS
  <1>3. stream[1] = FrameFor(wkey, m)
    OBVIOUS
  <1>4. m = written[Len(delivered) + 1]
    BY <1>1, <1>2, <1>3, FrameInjective
  <1>5. SamePackets
    BY DEF ReadRight
  <1>6. ASSUME Take(m, "synced")
        PROVE  InStep' /\ SamePackets'
    <2>1. /\ stream' = Tail(stream) /\ delivered' = Append(delivered, m)
          /\ UNCHANGED <<wkey, written>>
      BY <1>6 DEF Take, keys, frames
    <2>2. /\ Len(stream') = Len(stream) - 1
          /\ \A i \in 1 .. Len(stream') : stream'[i] = stream[i + 1]
      BY <2>1, <1>2
    <2>3. /\ Len(delivered') = Len(delivered) + 1
          /\ delivered'[Len(delivered) + 1] = m
          /\ \A i \in 1 .. Len(delivered) : delivered'[i] = delivered[i]
      BY <2>1
    <2>4. Len(delivered') + Len(stream') = Len(written')
      BY <2>1, <2>2, <2>3, <1>1, <1>2
    <2>5. ASSUME NEW i \in 1 .. Len(stream')
          PROVE  stream'[i] = FrameFor(wkey', written'[Len(delivered') + i])
      <3>1. i + 1 \in 1 .. Len(stream)
        BY <2>2, <1>2
      <3>2. Len(delivered') + i = Len(delivered) + (i + 1)
        BY <2>3, <1>2
      <3> QED
        BY <3>1, <3>2, <2>1, <2>2, <1>1
    <2>6. InStep'
      BY <2>4, <2>5 DEF InStep
    <2>7. SamePackets'
      BY <1>1, <1>2, <1>4, <1>5, <2>1, <2>3 DEF SamePackets
    <2> QED
      BY <2>6, <2>7
  <1> QED
    BY <1>4, <1>5, <1>6

LEMMA ReadReads ==
  ASSUME IInv, Read
  PROVE  InStep' /\ ReadRight'
  <1> USE DEF IInv, Building1
  <1>1. /\ UNCHANGED <<wkey, rkey, size, begun, mixed, written>>
        /\ rpc' \in {"synced", "lost", "ended"}
    BY DEF Read, ReadPlain, ReadSealed, ReadRefused, ReadMixed, ReadLost, Take,
           Skip, keys, frames
  <1>2. (Agree' <=> Agree) /\ (Sealed' <=> Sealed)
    BY <1>1 DEF Agree, Fits, BodySize, Sealed
  <1> SUFFICES ASSUME ~mixed
               PROVE  InStep' /\ ReadRight'
    BY <1>1 DEF InStep, ReadRight
  \* What is at the head of the stream, and that it is read if the ends agree.
  <1>3. ASSUME rpc = "synced", stream # <<>>
        PROVE  \E m \in Packet : m \in 1 .. begun /\ Head(stream) = Frame(m)
    <2>1. /\ Len(delivered) + Len(stream) = Len(written)
          /\ \A i \in 1 .. Len(stream) :
                stream[i] = FrameFor(wkey, written[Len(delivered) + i])
      BY <1>3 DEF InStep
    <2>2. Len(stream) \in Nat \ {0} /\ Len(delivered) \in Nat
      BY <1>3 DEF Types, TypeOK
    <2>3. Len(delivered) + 1 \in 1 .. Len(written)
      BY <2>1, <2>2
    <2>4. written[Len(delivered) + 1] \in 1 .. begun
      BY <2>3 DEF WrittenBegun
    <2>5. written[Len(delivered) + 1] \in Packet
      BY <2>3 DEF Types, TypeOK
    <2>6. Head(stream) = FrameFor(wkey, written[Len(delivered) + 1])
      BY <2>1, <2>2, <1>3 DEF Types, TypeOK
    <2> QED
      BY <2>4, <2>5, <2>6, FrameIs
  <1>4. ASSUME NEW m \in Packet, AtFrame(m), Agree
        PROVE  LengthField(m) = BodySize(m) /\ (Sealed => rkey = wkey)
    <2>1. PICK n \in Packet : n \in 1 .. begun /\ Head(stream) = Frame(n)
      BY <1>3, <1>4 DEF AtFrame
    <2>2. m = n
      BY <2>1, <1>4, FrameIs, FrameInjective DEF AtFrame
    <2>3. Fits(m)
      BY <2>1, <2>2, <1>4 DEF Agree
    <2>4. Sealed => rkey = wkey
      BY <1>4 DEF Agree, Sealed
    <2> QED
      BY <2>3, <2>4, FieldOfFitting DEF Types
  <1>5. ASSUME NEW m \in Packet, AtFrame(m), Take(m, "synced")
        PROVE  InStep' /\ ReadRight'
    <2>1. InStep' /\ SamePackets'
      BY <1>5, FrameIs, TakeInStep DEF AtFrame
    <2>2. rpc' = "synced"
      BY <1>5 DEF Take
    <2> QED
      BY <2>1, <2>2 DEF ReadRight
  <1>6. ASSUME NEW m \in Packet, ReadPlain(m)
        PROVE  InStep' /\ ReadRight'
    <2>1. CASE LengthField(m) = BodySize(m)
      BY <2>1, <1>6, <1>5 DEF ReadPlain
    <2>2. CASE LengthField(m) # BodySize(m)
      <3>1. ~Agree /\ ~Sealed /\ rpc' = "lost"
        BY <2>2, <1>4, <1>6 DEF ReadPlain, Take
      <3> QED
        BY <3>1, <1>2 DEF InStep, ReadRight
    <2> QED
      BY <2>1, <2>2
  <1>7. ASSUME NEW m \in Packet, ReadSealed(m)
        PROVE  InStep' /\ ReadRight'
    BY <1>7, <1>5 DEF ReadSealed
  <1>8. ASSUME NEW m \in Packet, ReadRefused(m)
        PROVE  InStep' /\ ReadRight'
    <2>1. ~Agree /\ Sealed /\ rpc = "synced" /\ rpc' = "ended"
      BY <1>8, <1>4 DEF ReadRefused, Skip, AtFrame
    <2>2. SamePackets'
      <3>1. SamePackets
        BY <2>1 DEF ReadRight
      <3>2. delivered' = delivered
        BY <1>8 DEF ReadRefused, Skip
      <3> QED
        BY <3>1, <3>2, <1>1 DEF SamePackets
    <2> QED
      BY <2>1, <2>2, <1>2 DEF InStep, ReadRight
  <1>9. ~ReadMixed
    BY <1>3 DEF ReadMixed
  <1>10. ASSUME ReadLost
         PROVE  InStep' /\ ReadRight'
    <2>1. ~Agree /\ ~Sealed /\ rpc' \in {"lost", "ended"}
      BY <1>10 DEF ReadLost, ReadRight, Take, Skip
    <2> QED
      BY <2>1, <1>2 DEF InStep, ReadRight
  <1> QED
    BY <1>6, <1>7, <1>8, <1>9, <1>10 DEF Read

LEMMA ReadBuilds ==
  ASSUME Building1, Read
  PROVE  Building1'
  <1>1. UNCHANGED <<wkey, begun, buf, wpc, packet, mixed, written>>
    BY DEF Read, ReadPlain, ReadSealed, ReadRefused, ReadMixed, ReadLost, Take,
           Skip, keys, frames
  <1> QED
    BY <1>1 DEF Building1, OneBuilder, Framed, WrittenBegun, Building, Sealed

----------------------------------------------------------------------------
(* The theorems. *)

LEMMA InitIInv == Init => IInv
  <1> SUFFICES ASSUME Init PROVE IInv
    OBVIOUS
  <1>1. Building1
    BY DEF Init, Building1, OneBuilder, Framed, WrittenBegun, Building
  <1>2. SamePackets
    BY DEF Init, SamePackets
  <1>3. InStep /\ ReadRight
    BY <1>2 DEF Init, InStep, ReadRight
  <1> QED
    BY <1>1, <1>3, InitTypes DEF IInv

\* Every step of Framing preserves IInv.
LEMMA StepIInv ==
  ASSUME IInv, [Next]_vars
  PROVE  IInv'
  <1>1. Types /\ Building1 /\ InStep /\ ReadRight
    BY DEF IInv
  <1>2. ASSUME NEW w \in Writer, wpc[w] # "idle"
        PROVE  packet[w] \in Packet
    <2>1. packet[w] \in 1 .. begun /\ begun \in 0 .. MaxPackets
      BY <1>1, <1>2 DEF Building1, Framed, Building, Types, TypeOK
    <2> QED
      BY <2>1, FramingAssumption DEF Packet
  <1>3. ASSUME NEW w \in Writer, NEW n \in Lengths, Begin(w, n)
        PROVE  IInv'
    BY <1>1, <1>3, BeginTypes, BeginBuilds, BeginReads DEF IInv
  <1>4. ASSUME NEW w \in Writer, Put(w)
        PROVE  IInv'
    <2>1. packet[w] \in Packet
      BY <1>2, <1>4 DEF Put, Part
    <2> QED
      BY <1>1, <1>4, <2>1, PutTypes, PutBuilds, PutReads DEF IInv
  <1>5. ASSUME NEW w \in Writer, Flush(w)
        PROVE  IInv'
    <2>1. packet[w] \in Packet
      BY <1>2, <1>5 DEF Flush
    <2> QED
      BY <1>1, <1>5, <2>1, FlushTypes, FlushBuilds, FlushReads DEF IInv
  <1>6. CASE Read
    BY <1>1, <1>6, ReadTypes, ReadBuilds, ReadReads DEF IInv
  <1>7. CASE UNCHANGED vars
    <2>1. UNCHANGED <<wkey, rkey, size, begun, buf, wpc, packet, mixed, stream,
                      written, rpc, delivered>>
      BY <1>7 DEF vars, keys, frames
    <2>2. Types'
      <3>1. Builders' = Builders
        BY <2>1 DEF Builders, Building
      <3>2. TypeOK'
        BY <1>1, <2>1 DEF Types, TypeOK
      <3> QED
        BY <1>1, <2>1, <3>1, <3>2, SameCount DEF Types
    <2>3. Building1'
      BY <1>1, <2>1 DEF Building1, OneBuilder, Framed, WrittenBegun, Building,
                        Sealed
    <2>4. InStep'
      BY <1>1, <2>1 DEF InStep
    <2>5. ReadRight'
      BY <1>1, <2>1 DEF ReadRight, SamePackets, Agree, Fits, BodySize, Sealed
    <2> QED
      BY <2>2, <2>3, <2>4, <2>5 DEF IInv
  <1> QED
    BY <1>3, <1>4, <1>5, <1>6, <1>7 DEF Next, Write

\* IInv is an invariant: every reachable state has it (write and read of both
\* connections).
THEOREM FramesInvariant == Spec => []IInv
  BY InitIInv, StepIInv, PTL DEF Spec

\* Types, among them that no more frames are completed than packets were taken.
THEOREM FramingTypeCorrect == Spec => []TypeOK
  <1>1. IInv => TypeOK
    BY DEF IInv, Types
  <1> QED
    BY <1>1, FramesInvariant, PTL

LEMMA SameIsPrefix ==
  ASSUME TypeOK, SamePackets
  PROVE  IsPrefix(delivered, written)
  <1>1. written \in Seq(Packet) /\ delivered \in Seq(Packet \cup {Junk})
    BY DEF TypeOK
  <1>2. written \in Seq(Packet \cup {Junk})
    BY <1>1, SeqMonotonic, Packet \subseteq Packet \cup {Junk}
  <1> QED
    BY <1>1, <1>2, PrefixOf DEF SamePackets

\* What is written is what is read, for packets that fit, ends that agree on
\* the key, and no two goroutines that build frames in the buffer at a time.
THEOREM FramesIntact == Spec => []Intact
  <1>1. IInv => Intact
    <2> SUFFICES ASSUME IInv, Agree, ~mixed
                 PROVE  rpc = "synced" /\ IsPrefix(delivered, written)
      BY DEF Intact, Agree
    <2>1. rpc = "synced" /\ SamePackets /\ TypeOK
      BY DEF IInv, ReadRight, Types
    <2> QED
      BY <2>1, SameIsPrefix
  <1> QED
    BY <1>1, FramesInvariant, PTL

\* With a key at the writing end nothing but what was written is passed on,
\* whatever the lengths and the key of the reader.
THEOREM SealedIsSafe == Spec => []SealedOrNothing
  <1>1. IInv => SealedOrNothing
    <2> SUFFICES ASSUME IInv, Sealed, ~mixed
                 PROVE  rpc # "lost" /\ IsPrefix(delivered, written)
      BY DEF SealedOrNothing
    <2>1. rpc # "lost" /\ SamePackets /\ TypeOK
      BY DEF IInv, ReadRight, Types
    <2> QED
      BY <2>1, SameIsPrefix
  <1> QED
    BY <1>1, FramesInvariant, PTL
=============================================================================
