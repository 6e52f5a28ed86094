-------------------------------- MODULE Pipe --------------------------------
(* What a connection of the tunnel promises to those who write packets into *)
(* it: packets leave in the order in which they were taken, each at most    *)
(* once and none invented; at most Backlog of them are on the way; when the *)
(* connection breaks, what is on the way is lost and nothing leaves later.  *)
EXTENDS Naturals, Sequences

CONSTANTS
    Packet,   \* what can be written
    Backlog   \* how many packets may be taken and not yet have left

VARIABLES
    taken,    \* the packets taken from the callers, in order
    left,     \* the packets that have left, in order
    broken    \* the connection is lost

pipe == <<taken, left, broken>>

PipeInit == taken = <<>> /\ left = <<>> /\ broken = FALSE

Take(m) ==
    /\ Len(taken) - Len(left) < Backlog
    /\ taken' = Append(taken, m)
    /\ UNCHANGED <<left, broken>>

Leave ==
    /\ ~broken
    /\ Len(left) < Len(taken)
    /\ left' = Append(left, taken[Len(left) + 1])
    /\ UNCHANGED <<taken, broken>>

Break ==
    /\ ~broken
    /\ broken' = TRUE
    /\ UNCHANGED <<taken, left>>

PipeNext == (\E m \in Packet : Take(m)) \/ Leave \/ Break

PipeSpec == PipeInit /\ [][PipeNext]_pipe
=============================================================================
