-------------------------------- MODULE Line --------------------------------
(* What one slot of the client's pool promises to the goroutines that write *)
(* through it: as long as its session is up somebody takes what they write; *)
(* who waits is released by being served and in no other way, and by one    *)
(* who was there to serve; nothing replaces a session that is up.           *)
CONSTANT Caller

VARIABLES
    live,      \* the slot has a session that is up and is being read
    manned,    \* somebody takes packets, or is about to
    waiting    \* the callers that are blocked with a packet

line == <<live, manned, waiting>>

LineInit == ~live /\ ~manned /\ waiting = {}

\* Another session, with somebody to take packets; it may be lost already.
Open ==
    /\ ~live
    /\ live' \in BOOLEAN
    /\ manned' = TRUE
    /\ UNCHANGED waiting

\* The session is lost or given up, and whoever took packets may go with it.
Lose ==
    /\ live
    /\ live' = FALSE
    /\ manned' \in BOOLEAN /\ (manned' => manned)
    /\ UNCHANGED waiting

\* The last one to take packets goes, and leaves nothing behind that is up.
Leave ==
    /\ ~live /\ manned
    /\ manned' = FALSE
    /\ UNCHANGED <<live, waiting>>

Call(c) ==
    /\ c \notin waiting
    /\ waiting' = waiting \cup {c}
    /\ UNCHANGED <<live, manned>>

\* A packet is taken; on a session that is not up this may be the last thing
\* its taker does.
Serve(c) ==
    /\ c \in waiting /\ manned
    /\ waiting' = waiting \ {c}
    /\ manned' \in BOOLEAN /\ (live => manned')
    /\ UNCHANGED live

LineNext ==
    \/ Open \/ Lose \/ Leave
    \/ \E c \in Caller : Call(c) \/ Serve(c)

LineSpec == LineInit /\ [][LineNext]_line
=============================================================================
