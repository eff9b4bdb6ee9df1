----------------------------- MODULE FrameWindow -----------------------------
(***************************************************************************)
(* What the frame memory of one stream promises to its readers: a window   *)
(* of the frames written so far.  Every new frame has the serial after the *)
(* one before it, a frame keeps the type it was written with, and frames   *)
(* leave the memory oldest first, so that the serials a reader can still   *)
(* find are always the most recent ones without a gap.                     *)
(***************************************************************************)
EXTENDS Naturals

CONSTANTS Types     \* the types of the frames an encoder produces

VARIABLES
    store,      \* serial |-> type, for the frames still in memory
    next        \* the serial of the next frame

Init == store = [s \in {} |-> CHOOSE t \in Types : TRUE] /\ next = 0

Append(t) ==
    /\ store' = [s \in DOMAIN store \cup {next} |->
                    IF s = next THEN t ELSE store[s]]
    /\ next' = next + 1

Drop ==
    \E s \in DOMAIN store :
        /\ \A r \in DOMAIN store : s <= r
        /\ store' = [r \in DOMAIN store \ {s} |-> store[r]]
        /\ UNCHANGED next

Next == (\E t \in Types : Append(t)) \/ Drop

Spec == Init /\ [][Next]_<<store, next>>
=============================================================================
