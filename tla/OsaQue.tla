------------------------------- MODULE OsaQue -------------------------------
(***************************************************************************)
(* The bounded blocking queue of the OSA layer (osa_que.c), the primitive  *)
(* under every buffer pool and, with the same code in osa_msgq.c, under    *)
(* every mailbox of the pipeline: a ring protected by one mutex, with a    *)
(* condition variable for the readers and one for the writers.             *)
(*                                                                         *)
(* Everything a call does between pthread_mutex_lock and either            *)
(* pthread_cond_wait or pthread_mutex_unlock runs under hndl->lock, so it  *)
(* is one step.  A thread that was signalled has to take the mutex again   *)
(* and tests the queue again, possibly after other threads have been in:   *)
(* that is the interleaving this module is about.                          *)
(***************************************************************************)
EXTENDS Integers, FiniteSets

CONSTANTS
    Threads,    \* the threads that share one queue handle
    Values,     \* the Int32 values put in it
    MaxLen,     \* the maxLen argument of OSA_queCreate
    NoValue       \* stands for a value that is not there

ASSUME MaxLenAssumption == MaxLen \in Nat \ {0}
ASSUME ThreadsAssumption == IsFiniteSet(Threads)

Slots    == 0 .. MaxLen - 1
Timeouts == {"NONE", "FOREVER"}

VARIABLES
    queue, curRd, curWr, count,     \* the fields of OSA_QueHndl
    pc,         \* where each thread is: "idle" outside a call; "put" or
                \* "get" before it takes the mutex, to make its first test
                \* or, once woken, another one; "condWr" or "condRd" asleep
    arg,        \* the value a thread is putting, while its call lasts
    timeout,    \* the timeout argument of a thread's call, likewise
    ret         \* what the call that returned last returned, and to whom

ring == <<queue, curRd, curWr, count>>
vars == <<queue, curRd, curWr, count, pc, arg, timeout, ret>>

At(l) == {t \in Threads : pc[t] = l}

-----------------------------------------------------------------------------

\* OSA_memAlloc does not clear the array: its first contents are arbitrary.
Init ==
    /\ queue \in [Slots -> Values]
    /\ curRd = 0 /\ curWr = 0 /\ count = 0
    /\ pc = [t \in Threads |-> "idle"]
    /\ arg = [t \in Threads |-> NoValue]
    /\ timeout = [t \in Threads |-> "NONE"]
    /\ ret = NoValue

\* pthread_cond_signal(c): a thread asleep on c, if there is one, goes on to
\* take the mutex again.
Signalled(pcs, c, l) ==
    LET asleep == {t \in Threads : pcs[t] = c}
    IN  IF asleep = {} THEN {pcs} ELSE {[pcs EXCEPT ![t] = l] : t \in asleep}

Call(t, l, v, tmo) ==
    /\ pc[t] = "idle"
    /\ pc' = [pc EXCEPT ![t] = l]
    /\ arg' = [arg EXCEPT ![t] = v]
    /\ timeout' = [timeout EXCEPT ![t] = tmo]
    /\ UNCHANGED <<ring, ret>>

CallPut(t) == \E v \in Values, tmo \in Timeouts : Call(t, "put", v, tmo)
CallGet(t) == \E tmo \in Timeouts : Call(t, "get", NoValue, tmo)

\* t's call, a put or a get as its place says, returns status st, having
\* stored v in *value: its arguments go.
Return(t, st, v) ==
    /\ ret' = [thread |-> t, call |-> pc[t], status |-> st, value |-> v]
    /\ arg' = [arg EXCEPT ![t] = NoValue]
    /\ timeout' = [timeout EXCEPT ![t] = "NONE"]

Put_NoSignal(t) ==
    /\ pc[t] = "put"
    /\ count < MaxLen
    /\ queue' = [queue EXCEPT ![curWr] = arg[t]]
    /\ curWr' = (curWr + 1) % MaxLen
    /\ count' = count + 1
    /\ pc' = [pc EXCEPT ![t] = "idle"]
    /\ Return(t, "SOK", NoValue)
    /\ UNCHANGED curRd

Put_OneTooMany(t) ==
    /\ pc[t] = "put"
    /\ count <= MaxLen
    /\ queue' = [queue EXCEPT ![curWr] = arg[t]]
    /\ curWr' = (curWr + 1) % MaxLen
    /\ count' = count + 1
    /\ pc' \in Signalled([pc EXCEPT ![t] = "idle"], "condRd", "get")
    /\ Return(t, "SOK", NoValue)
    /\ UNCHANGED curRd

Put(t) ==
    /\ pc[t] = "put"
    /\ count < MaxLen
    /\ queue' = [queue EXCEPT ![curWr] = arg[t]]
    /\ curWr' = (curWr + 1) % MaxLen
    /\ count' = count + 1
    /\ pc' \in Signalled([pc EXCEPT ![t] = "idle"], "condRd", "get")
    /\ Return(t, "SOK", NoValue)
    /\ UNCHANGED curRd

Get_ReadsTheLastSlot(t) ==
    /\ pc[t] = "get"
    /\ count > 0
    /\ curRd' = (curRd + 1) % MaxLen
    /\ count' = count - 1
    /\ pc' \in Signalled([pc EXCEPT ![t] = "idle"], "condWr", "put")
    /\ Return(t, "SOK", queue[(curWr + MaxLen - 1) % MaxLen])
    /\ UNCHANGED <<queue, curWr>>

Get(t) ==
    /\ pc[t] = "get"
    /\ count > 0
    /\ curRd' = (curRd + 1) % MaxLen
    /\ count' = count - 1
    /\ pc' \in Signalled([pc EXCEPT ![t] = "idle"], "condWr", "put")
    /\ Return(t, "SOK", queue[curRd])
    /\ UNCHANGED <<queue, curWr>>

\* The else branch of either loop: give up, or sleep.  Every timeout other
\* than OSA_TIMEOUT_NONE waits for ever.
Blocked(t, l, c) ==
    /\ pc[t] = l
    /\ \/ /\ timeout[t] = "NONE"
          /\ pc' = [pc EXCEPT ![t] = "idle"]
          /\ Return(t, "EFAIL", NoValue)
       \/ /\ timeout[t] # "NONE"
          /\ pc' = [pc EXCEPT ![t] = c]
          /\ UNCHANGED <<arg, timeout, ret>>
    /\ UNCHANGED ring

PutFull(t)  == ~ (count < MaxLen) /\ Blocked(t, "put", "condWr")
GetEmpty(t) == ~ (count > 0) /\ Blocked(t, "get", "condRd")

\* POSIX lets pthread_cond_wait return without a signal.
SpuriousWakeup(t) ==
    /\ \/ pc[t] = "condWr" /\ pc' = [pc EXCEPT ![t] = "put"]
       \/ pc[t] = "condRd" /\ pc' = [pc EXCEPT ![t] = "get"]
    /\ UNCHANGED <<ring, arg, timeout, ret>>

-----------------------------------------------------------------------------

\* What a thread does once it has called and is not asleep.
Run(t) == Put(t) \/ PutFull(t) \/ Get(t) \/ GetEmpty(t)

Next == \E t \in Threads :
            CallPut(t) \/ CallGet(t) \/ Run(t) \/ SpuriousWakeup(t)

Spec == Init /\ [][Next]_vars

\* A thread that waits for the mutex gets it in the end.  Nothing makes a
\* thread call, and nothing makes a sleeping thread wake by itself.
FairSpec == Spec /\ \A t \in Threads : WF_vars(Run(t))

-----------------------------------------------------------------------------

TypeOK ==
    /\ queue \in [Slots -> Values]
    /\ curRd \in Slots /\ curWr \in Slots
    /\ count \in 0 .. MaxLen
    /\ pc \in [Threads -> {"idle", "put", "get", "condWr", "condRd"}]
    /\ arg \in [Threads -> Values \cup {NoValue}]
    /\ \A t \in At("put") \cup At("condWr") : arg[t] \in Values
    /\ timeout \in [Threads -> Timeouts]
    /\ ret \in {NoValue} \cup [thread : Threads, call : {"put", "get"},
                               status : {"SOK", "EFAIL"}, value : Values \cup {NoValue}]

\* No wake-up is lost: while readers sleep, every queued value has a reader
\* of its own that is awake and on its way to test the queue, and while
\* writers sleep, every free slot has such a writer.  OSA_quePut and
\* OSA_queGet signal once per value whatever woke the other side.
NoLostWakeup ==
    /\ At("condRd") # {} => count <= Cardinality(At("get"))
    /\ At("condWr") # {} => MaxLen - count <= Cardinality(At("put"))

\* The queue a caller sees, oldest value first.
Contents == [i \in 1 .. count |-> queue[(curRd + i - 1) % MaxLen]]

\* The ring under the mutex is the bounded FIFO it replaces.
Fifo == INSTANCE BoundedFifo WITH q <- Contents
IsFifo == Fifo!Spec

\* A value does not stay queued next to a sleeping reader, nor a free slot
\* next to a sleeping writer, although the two conditions are signalled once
\* and the woken thread can find that another one came before it.
WaitersServed ==
    /\ At("condRd") # {} /\ count > 0 ~> At("condRd") = {} \/ count = 0
    /\ At("condWr") # {} /\ count < MaxLen
           ~> At("condWr") = {} \/ count = MaxLen
=============================================================================
