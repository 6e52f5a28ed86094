----------------------------- MODULE MCRouting -----------------------------
(* Instances of Routing for TLC.                                            *)
EXTENDS Routing, TLC

CONSTANTS v1, v2, a1, a2, a3, c1, c2, c3

(* Two clients: v1 with one connection and one address, v2 with two         *)
(* connections, each of which may carry the pings of both its addresses     *)
(* (the client sends its pings round-robin over its connections).           *)
TwoAddrVip == (a1 :> v1) @@ (a2 :> v2) @@ (a3 :> v2)
TwoConnVip == (c1 :> v1) @@ (c2 :> v2) @@ (c3 :> v2)
TwoPingAddr == (c1 :> {a1}) @@ (c2 :> {a2, a3}) @@ (c3 :> {a2, a3})
TwoSymmetry == Permutations({a2, a3}) \cup Permutations({c2, c3})

\* Bound: one connection at a time is failing (its reader is cleaning up, or
\* its writer has failed and its reader has not noticed yet).
OneFails ==
    Cardinality({c \in Conn : \/ rpc[c] \in {"remove", "close"}
                              \/ isClosed[c] /\ rpc[c] # "dead"}) <= 1

\* One client whose connections carry the pings of all its addresses.
SoloAddrVip == [a \in Addr |-> v1]
SoloConnVip == [c \in Conn |-> v1]
SoloPingAddr == [c \in Conn |-> Addr]
=============================================================================
