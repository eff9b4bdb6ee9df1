---------------------------- MODULE BoundedFifo ----------------------------
(***************************************************************************)
(* What an OSA queue promises its callers: a first-in first-out sequence   *)
(* of at most MaxLen values, on which a put and a get each take effect in  *)
(* one step.  A call may fail only where it would have to wait: a put      *)
(* while the queue is full, a get while it is empty.  Blocking is not      *)
(* visible here: a blocked caller is one whose step is still to come.      *)
(***************************************************************************)
EXTENDS Integers, Sequences

CONSTANTS Threads, Values, MaxLen, NoValue

VARIABLES
    q,      \* the queued values, oldest first
    ret     \* what the call that returned last returned, and to whom

vars == <<q, ret>>

Result(t, c, st, v) == [thread |-> t, call |-> c, status |-> st, value |-> v]

Init ==
    /\ q = <<>>
    /\ ret = NoValue

Enqueue(t, v) ==
    /\ Len(q) < MaxLen
    /\ q' = Append(q, v)
    /\ ret' = Result(t, "put", "SOK", NoValue)

Dequeue(t) ==
    /\ q # <<>>
    /\ q' = Tail(q)
    /\ ret' = Result(t, "get", "SOK", Head(q))

\* A call that does not wait fails, and only where it would have to.
Fail(t) ==
    /\ \/ Len(q) = MaxLen /\ ret' = Result(t, "put", "EFAIL", NoValue)
       \/ q = <<>> /\ ret' = Result(t, "get", "EFAIL", NoValue)
    /\ UNCHANGED q

Next == \E t \in Threads :
            \/ \E v \in Values : Enqueue(t, v)
            \/ Dequeue(t)
            \/ Fail(t)

Spec == Init /\ [][Next]_vars
=============================================================================
