---------------------------- MODULE OsaQueProofs ----------------------------
(***************************************************************************)
(* Theorems about OsaQue, for every finite number of threads, every set of *)
(* values and every length of the ring.                                    *)
(***************************************************************************)
EXTENDS OsaQue, Sequences, FiniteSetTheorems, TLAPS

\* The indices and the counter describe one segment of the ring.
Segment == curWr = (curRd + count) % MaxLen

\* The inductive invariant.
IInv == TypeOK /\ Segment /\ NoLostWakeup

-----------------------------------------------------------------------------

\* An index that has passed the end of the ring once.
LEMMA Wrap ==
    ASSUME NEW i \in 0 .. 2 * MaxLen - 1
    PROVE  i % MaxLen = IF i < MaxLen THEN i ELSE i - MaxLen
  BY MaxLenAssumption

\* Moving the start of a segment is moving the offset into it.
LEMMA Shift ==
    ASSUME NEW i \in Slots, NEW k \in 0 .. MaxLen - 1
    PROVE  (((i + 1) % MaxLen) + k) % MaxLen = (i + (k + 1)) % MaxLen
  BY MaxLenAssumption, Wrap DEF Slots

\* The slot after a segment that does not fill the ring is not in it.
LEMMA Fresh ==
    ASSUME NEW i \in Slots, NEW n \in Slots, NEW k \in 1 .. n
    PROVE  (i + n) % MaxLen # (i + k - 1) % MaxLen
  BY MaxLenAssumption, Wrap DEF Slots

\* Reduced modulo the length, any offset is a slot.
LEMMA InRing ==
    ASSUME NEW i \in Nat
    PROVE  i % MaxLen \in Slots
  BY MaxLenAssumption DEF Slots

-----------------------------------------------------------------------------

\* The threads at any place are a finite set.
LEMMA AtFinite == \A l : IsFiniteSet(At(l)) /\ Cardinality(At(l)) \in Nat
  BY ThreadsAssumption, FS_Subset, FS_CardinalityType DEF At

\* Every value of pc a signal leaves behind is a program counter, and differs
\* from the one before it by at most one sleeper that has woken.
LEMMA SignalledType ==
    ASSUME TypeOK, NEW t \in Threads, NEW c, NEW l \in {"put", "get"},
           NEW pcs \in Signalled([pc EXCEPT ![t] = "idle"], c, l)
    PROVE  pcs \in [Threads -> {"idle", "put", "get", "condWr", "condRd"}]
  BY DEF TypeOK, Signalled

\* OSA_queCreate leaves a well-typed queue.
LEMMA TypeInitial == Init => TypeOK
  BY MaxLenAssumption DEF Init, TypeOK, Slots, Timeouts, At

\* Every step of every call keeps the state well typed.
LEMMA TypeStep == TypeOK /\ [Next]_vars => TypeOK'
<1> SUFFICES ASSUME TypeOK, [Next]_vars PROVE TypeOK'
  OBVIOUS
<1>1. ASSUME NEW t \in Threads, CallPut(t) PROVE TypeOK'
  BY <1>1 DEF TypeOK, CallPut, Call, ring, At, Timeouts
<1>2. ASSUME NEW t \in Threads, CallGet(t) PROVE TypeOK'
  BY <1>2 DEF TypeOK, CallGet, Call, ring, At, Timeouts
<1>3. ASSUME NEW t \in Threads, Put(t) PROVE TypeOK'
  <2>1. pc' \in [Threads -> {"idle", "put", "get", "condWr", "condRd"}]
    BY <1>3, SignalledType DEF Put
  <2>2. \A u \in At("put")' \cup At("condWr")' : arg'[u] \in Values
    BY <1>3 DEF Put, Return, TypeOK, At, Signalled
  <2>3. curWr' \in Slots /\ count' \in 0 .. MaxLen
    <3>1. curWr + 1 \in Nat /\ count + 1 \in 0 .. MaxLen
      BY <1>3, MaxLenAssumption DEF Put, TypeOK, Slots
    <3> QED
      BY <1>3, <3>1, InRing DEF Put
  <2>4. queue' \in [Slots -> Values]
    BY <1>3 DEF Put, TypeOK, At
  <2>5. ret' \in [thread : Threads, call : {"put", "get"}, status : {"SOK", "EFAIL"},
                  value : Values \cup {NoValue}]
    BY <1>3 DEF Put, Return
  <2> QED
    BY <1>3, <2>1, <2>2, <2>3, <2>4, <2>5 DEF TypeOK, Put, Return, Timeouts
<1>4. ASSUME NEW t \in Threads, Get(t) PROVE TypeOK'
  <2>1. pc' \in [Threads -> {"idle", "put", "get", "condWr", "condRd"}]
    BY <1>4, SignalledType DEF Get
  <2>2. \A u \in At("put")' \cup At("condWr")' : arg'[u] \in Values
    BY <1>4 DEF Get, Return, TypeOK, At, Signalled
  <2>3. curRd' \in Slots /\ count' \in 0 .. MaxLen
    <3>1. curRd + 1 \in Nat /\ count - 1 \in 0 .. MaxLen
      BY <1>4, MaxLenAssumption DEF Get, TypeOK, Slots
    <3> QED
      BY <1>4, <3>1, InRing DEF Get
  <2>4. ret' \in [thread : Threads, call : {"put", "get"}, status : {"SOK", "EFAIL"},
                  value : Values \cup {NoValue}]
    BY <1>4 DEF Get, Return, TypeOK
  <2> QED
    BY <1>4, <2>1, <2>2, <2>3, <2>4 DEF TypeOK, Get, Return, Timeouts
<1>5. ASSUME NEW t \in Threads, PutFull(t) \/ GetEmpty(t) PROVE TypeOK'
  BY <1>5 DEF TypeOK, PutFull, GetEmpty, Blocked, Return, ring, At, Timeouts
<1>6. ASSUME NEW t \in Threads, SpuriousWakeup(t) PROVE TypeOK'
  BY <1>6 DEF TypeOK, SpuriousWakeup, ring, At, Timeouts
<1>7. CASE UNCHANGED vars
  BY <1>7 DEF TypeOK, vars, At, Timeouts
<1> QED
  BY <1>1, <1>2, <1>3, <1>4, <1>5, <1>6, <1>7 DEF Next, Run

\* OSA_queCreate leaves an empty segment.
LEMMA SegmentInitial == Init => Segment
  BY MaxLenAssumption DEF Init, Segment

\* A put moves the end of the segment, a get its start.
LEMMA SegmentStep == TypeOK /\ Segment /\ [Next]_vars => Segment'
<1> SUFFICES ASSUME TypeOK, Segment, [Next]_vars PROVE Segment'
  OBVIOUS
<1>1. ASSUME NEW t \in Threads, Put(t) PROVE Segment'
  <2>1. count \in 0 .. MaxLen - 1 /\ curRd \in Slots
    BY <1>1, MaxLenAssumption DEF Put, TypeOK
  <2>2. (((curRd + count) % MaxLen) + 1) % MaxLen = (curRd + (count + 1)) % MaxLen
    BY <2>1, Wrap, MaxLenAssumption DEF Slots
  <2> QED
    BY <1>1, <2>2 DEF Put, Segment
<1>2. ASSUME NEW t \in Threads, Get(t) PROVE Segment'
  <2>1. count - 1 \in 0 .. MaxLen - 1 /\ curRd \in Slots /\ count \in Int
    BY <1>2, MaxLenAssumption DEF Get, TypeOK
  <2>2. (((curRd + 1) % MaxLen) + (count - 1)) % MaxLen
            = (curRd + ((count - 1) + 1)) % MaxLen
    BY <2>1, Shift
  <2>3. (count - 1) + 1 = count
    BY <2>1
  <2> QED
    BY <1>2, <2>2, <2>3 DEF Get, Segment
<1> QED
  BY <1>1, <1>2
  DEF Next, Run, CallPut, CallGet, Call, PutFull, GetEmpty, Blocked,
      SpuriousWakeup, ring, vars, Segment

-----------------------------------------------------------------------------

\* A thread that comes to a place adds at most itself to those there.
LEMMA Arrive ==
    ASSUME NEW S, IsFiniteSet(S), NEW t, NEW T, T = S \cup {t}
    PROVE  /\ Cardinality(T) \in Nat /\ Cardinality(S) \in Nat
           /\ Cardinality(S) <= Cardinality(T)
           /\ t \notin S => Cardinality(T) = Cardinality(S) + 1
<1>1. /\ IsFiniteSet(T)
      /\ Cardinality(T) = IF t \in S THEN Cardinality(S) ELSE Cardinality(S) + 1
  BY FS_AddElement
<1>2. Cardinality(T) \in Nat /\ Cardinality(S) \in Nat
  BY <1>1, FS_CardinalityType
<1> QED
  BY <1>1, <1>2

\* A thread that leaves a place takes away at most itself.
LEMMA Leave ==
    ASSUME NEW S, IsFiniteSet(S), NEW t, NEW T, T = S \ {t}
    PROVE  /\ Cardinality(T) \in Nat /\ Cardinality(S) \in Nat
           /\ Cardinality(S) - 1 <= Cardinality(T)
<1>1. /\ IsFiniteSet(T)
      /\ Cardinality(T) = IF t \in S THEN Cardinality(S) - 1 ELSE Cardinality(S)
  BY FS_RemoveElement
<1>2. Cardinality(T) \in Nat /\ Cardinality(S) \in Nat
  BY <1>1, FS_CardinalityType
<1> QED
  BY <1>1, <1>2

\* Nobody sleeps on a new queue.
LEMMA NoLostWakeupInitial == Init => NoLostWakeup
  BY DEF Init, NoLostWakeup, At

\* A put takes away one awake writer and one free slot, and turns a sleeping
\* reader, if there is one, into an awake one; a get does the opposite; and a
\* thread goes to sleep only where there is nothing left for its side.
LEMMA NoLostWakeupStep == TypeOK /\ NoLostWakeup /\ [Next]_vars => NoLostWakeup'
<1> SUFFICES ASSUME TypeOK, NoLostWakeup, [Next]_vars PROVE NoLostWakeup'
  OBVIOUS
<1> USE AtFinite, MaxLenAssumption
<1>0. count \in 0 .. MaxLen /\ pc \in [Threads -> {"idle", "put", "get", "condWr", "condRd"}]
  BY DEF TypeOK
<1>1. ASSUME NEW t \in Threads, CallPut(t) PROVE NoLostWakeup'
  <2>1. /\ At("condRd")' = At("condRd") /\ At("get")' = At("get")
        /\ At("condWr")' = At("condWr") /\ At("put")' = At("put") \cup {t}
        /\ count' = count
    BY <1>0, <1>1 DEF CallPut, Call, At, ring
  <2>2. Cardinality(At("put")) <= Cardinality(At("put")')
        /\ Cardinality(At("put")) \in Nat /\ Cardinality(At("put")') \in Nat
    BY <2>1, Arrive
  <2> QED
    BY <1>0, <2>1, <2>2 DEF NoLostWakeup
<1>2. ASSUME NEW t \in Threads, CallGet(t) PROVE NoLostWakeup'
  <2>1. /\ At("condRd")' = At("condRd") /\ At("get")' = At("get") \cup {t}
        /\ At("condWr")' = At("condWr") /\ At("put")' = At("put")
        /\ count' = count
    BY <1>0, <1>2 DEF CallGet, Call, At, ring
  <2> QED
    BY <1>0, <2>1, Arrive DEF NoLostWakeup
<1>3. ASSUME NEW t \in Threads, Put(t) PROVE NoLostWakeup'
  <2>1. CASE At("condRd") = {}
    <3>1. /\ At("condRd")' = {}
          /\ At("condWr")' = At("condWr") /\ At("put")' = At("put") \ {t}
          /\ count' = count + 1
      BY <1>0, <1>3, <2>1 DEF Put, Signalled, At
    <3>2. /\ Cardinality(At("put")) \in Nat /\ Cardinality(At("put")') \in Nat
          /\ Cardinality(At("put")) - 1 <= Cardinality(At("put")')
      BY <3>1, Leave
    <3> QED
      BY <1>0, <3>1, <3>2 DEF NoLostWakeup
  <2>2. CASE At("condRd") # {}
    <3>1. PICK u \in Threads : /\ pc[u] = "condRd"
                               /\ pc' = [[pc EXCEPT ![t] = "idle"] EXCEPT ![u] = "get"]
      BY <1>0, <1>3, <2>2 DEF Put, Signalled, At
    <3>2. /\ At("get")' = At("get") \cup {u} /\ u \notin At("get")
          /\ At("condWr")' = At("condWr") /\ At("put")' = At("put") \ {t}
          /\ count' = count + 1
      BY <1>0, <1>3, <3>1 DEF Put, At
    <3>3. /\ Cardinality(At("put")) \in Nat /\ Cardinality(At("put")') \in Nat
          /\ Cardinality(At("put")) - 1 <= Cardinality(At("put")')
      BY <3>2, Leave
    <3>4. /\ Cardinality(At("get")) \in Nat /\ Cardinality(At("get")') \in Nat
          /\ Cardinality(At("get")') = Cardinality(At("get")) + 1
      BY <3>2, Arrive
    <3> QED
      BY <1>0, <2>2, <3>2, <3>3, <3>4 DEF NoLostWakeup
  <2> QED
    BY <2>1, <2>2
<1>4. ASSUME NEW t \in Threads, Get(t) PROVE NoLostWakeup'
  <2>1. CASE At("condWr") = {}
    <3>1. /\ At("condWr")' = {}
          /\ At("condRd")' = At("condRd") /\ At("get")' = At("get") \ {t}
          /\ count' = count - 1
      BY <1>0, <1>4, <2>1 DEF Get, Signalled, At
    <3>2. /\ Cardinality(At("get")) \in Nat /\ Cardinality(At("get")') \in Nat
          /\ Cardinality(At("get")) - 1 <= Cardinality(At("get")')
      BY <3>1, Leave
    <3> QED
      BY <1>0, <3>1, <3>2 DEF NoLostWakeup
  <2>2. CASE At("condWr") # {}
    <3>1. PICK u \in Threads : /\ pc[u] = "condWr"
                               /\ pc' = [[pc EXCEPT ![t] = "idle"] EXCEPT ![u] = "put"]
      BY <1>0, <1>4, <2>2 DEF Get, Signalled, At
    <3>2. /\ At("put")' = At("put") \cup {u} /\ u \notin At("put")
          /\ At("condRd")' = At("condRd") /\ At("get")' = At("get") \ {t}
          /\ count' = count - 1
      BY <1>0, <1>4, <3>1 DEF Get, At
    <3>3. /\ Cardinality(At("get")) \in Nat /\ Cardinality(At("get")') \in Nat
          /\ Cardinality(At("get")) - 1 <= Cardinality(At("get")')
      BY <3>2, Leave
    <3>4. /\ Cardinality(At("put")) \in Nat /\ Cardinality(At("put")') \in Nat
          /\ Cardinality(At("put")') = Cardinality(At("put")) + 1
      BY <3>2, Arrive
    <3> QED
      BY <1>0, <2>2, <3>2, <3>3, <3>4 DEF NoLostWakeup
  <2> QED
    BY <2>1, <2>2
<1>5. ASSUME NEW t \in Threads, PutFull(t) PROVE NoLostWakeup'
  <2>1. /\ At("condRd")' = At("condRd") /\ At("get")' = At("get")
        /\ count' = count /\ MaxLen - count = 0
    BY <1>0, <1>5 DEF PutFull, Blocked, ring, At
  <2>2. MaxLen - count' <= Cardinality(At("put"))'
    <3>1. At("put")' = At("put") \ {t}
      BY <1>0, <1>5 DEF PutFull, Blocked, At
    <3>2. Cardinality(At("put")') \in Nat
      BY <3>1, Leave
    <3> QED
      BY <2>1, <3>2
  <2> QED
    BY <2>1, <2>2 DEF NoLostWakeup
<1>6. ASSUME NEW t \in Threads, GetEmpty(t) PROVE NoLostWakeup'
  <2>1. /\ At("condWr")' = At("condWr") /\ At("put")' = At("put")
        /\ count' = count /\ count = 0
    BY <1>0, <1>6 DEF GetEmpty, Blocked, ring, At
  <2>2. count' <= Cardinality(At("get"))'
    <3>1. At("get")' = At("get") \ {t}
      BY <1>0, <1>6 DEF GetEmpty, Blocked, At
    <3> QED
      BY <1>0, <2>1, <3>1, Leave
  <2> QED
    BY <2>1, <2>2 DEF NoLostWakeup
<1>7. ASSUME NEW t \in Threads, SpuriousWakeup(t) PROVE NoLostWakeup'
  <2>1. CASE pc[t] = "condWr"
    <3>1. /\ At("condRd")' = At("condRd") /\ At("get")' = At("get")
          /\ At("condWr") # {} /\ At("put")' = At("put") \cup {t}
          /\ count' = count
      BY <1>0, <1>7, <2>1 DEF SpuriousWakeup, At, ring
    <3>2. /\ Cardinality(At("put")) \in Nat /\ Cardinality(At("put")') \in Nat
          /\ Cardinality(At("put")) <= Cardinality(At("put")')
      BY <3>1, Arrive
    <3>3. MaxLen - count <= Cardinality(At("put"))
      BY <3>1 DEF NoLostWakeup
    <3> QED
      BY <1>0, <3>1, <3>2, <3>3 DEF NoLostWakeup
  <2>2. CASE pc[t] = "condRd"
    <3>1. /\ At("condWr")' = At("condWr") /\ At("put")' = At("put")
          /\ At("condRd") # {} /\ At("get")' = At("get") \cup {t}
          /\ count' = count
      BY <1>0, <1>7, <2>2 DEF SpuriousWakeup, At, ring
    <3>2. /\ Cardinality(At("get")) \in Nat /\ Cardinality(At("get")') \in Nat
          /\ Cardinality(At("get")) <= Cardinality(At("get")')
      BY <3>1, Arrive
    <3>3. count <= Cardinality(At("get"))
      BY <3>1 DEF NoLostWakeup
    <3> QED
      BY <1>0, <3>1, <3>2, <3>3 DEF NoLostWakeup
  <2> QED
    BY <1>7, <2>1, <2>2 DEF SpuriousWakeup
<1>8. CASE UNCHANGED vars
  BY <1>8 DEF vars, NoLostWakeup, At
<1> QED
  BY <1>1, <1>2, <1>3, <1>4, <1>5, <1>6, <1>7, <1>8 DEF Next, Run

-----------------------------------------------------------------------------

\* Every reachable state is well typed.
THEOREM TypeCorrect == Spec => []TypeOK
<1> QED
  BY TypeInitial, TypeStep, PTL DEF Spec

\* The inductive invariant holds in every reachable state.
THEOREM Invariance == Spec => []IInv
<1>1. Init => IInv
  BY TypeInitial, SegmentInitial, NoLostWakeupInitial DEF IInv
<1>2. IInv /\ [Next]_vars => IInv'
  BY TypeStep, SegmentStep, NoLostWakeupStep DEF IInv
<1> QED
  BY <1>1, <1>2, PTL DEF Spec

\* OSA_quePut and OSA_queGet lose no wake-up, whatever the number of threads
\* that share the queue and the order they take its mutex in.
THEOREM WakeupsKept == Spec => []NoLostWakeup
<1>1. IInv => NoLostWakeup
  BY DEF IInv
<1> QED
  BY <1>1, Invariance, PTL

\* When a reader and a writer sleep at once, somebody else is awake to make the
\* next test (OSA_quePut and OSA_queGet waiting for each other).
THEOREM NoStandoff ==
    Spec => [](At("condRd") # {} /\ At("condWr") # {}
                   => At("put") \cup At("get") # {})
<1>1. IInv => (At("condRd") # {} /\ At("condWr") # {}
                   => At("put") \cup At("get") # {})
  <2> SUFFICES ASSUME IInv, At("condRd") # {}, At("condWr") # {},
                      At("put") = {}, At("get") = {}
               PROVE  FALSE
    OBVIOUS
  <2>1. count <= 0 /\ MaxLen - count <= 0
    BY FS_EmptySet DEF IInv, NoLostWakeup
  <2> QED
    BY <2>1, MaxLenAssumption DEF IInv, TypeOK
<1> QED
  BY <1>1, Invariance, PTL

-----------------------------------------------------------------------------

\* What the callers see is a sequence of values, as long as the counter says.
LEMMA ContentsType ==
    ASSUME TypeOK
    PROVE  Contents \in Seq(Values) /\ Len(Contents) = count
<1>1. ASSUME NEW i \in 1 .. count
      PROVE  queue[(curRd + i - 1) % MaxLen] \in Values
  <2>1. curRd + i - 1 \in Nat
    BY DEF TypeOK, Slots
  <2> QED
    BY <2>1, InRing DEF TypeOK
<1> QED
  BY <1>1 DEF Contents, TypeOK

\* Every step of the queue is a step of the bounded FIFO, or none.
LEMMA RefinementStep ==
    TypeOK /\ Segment /\ [Next]_vars => [Fifo!Next]_Fifo!vars
<1> SUFFICES ASSUME TypeOK, Segment, [Next]_vars PROVE [Fifo!Next]_Fifo!vars
  OBVIOUS
<1>0. Contents \in Seq(Values) /\ Len(Contents) = count
  BY ContentsType
<1>n. Contents' = [i \in 1 .. count' |-> queue'[(curRd' + i - 1) % MaxLen]]
  BY DEF Contents
<1>1. ASSUME NEW t \in Threads, Put(t) PROVE Fifo!Enqueue(t, arg[t]) /\ arg[t] \in Values
  <2>1. arg[t] \in Values
    BY <1>1 DEF Put, TypeOK, At
  <2>2. /\ count \in Slots /\ curRd \in Slots /\ curWr \in Slots
        /\ curWr = (curRd + count) % MaxLen
    BY <1>1, MaxLenAssumption DEF Put, TypeOK, Segment, Slots
  <2>3. Contents' = Append(Contents, arg[t])
    <3>1. \A i \in 1 .. count : (curRd + i - 1) % MaxLen # curWr
      BY <2>2, Fresh
    <3>2. \A i \in 1 .. count : (curRd + i - 1) % MaxLen \in Slots
      BY <2>2, InRing DEF Slots
    <3>3. \A i \in 1 .. count : queue'[(curRd + i - 1) % MaxLen] = Contents[i]
      BY <1>1, <3>1, <3>2 DEF Put, TypeOK, Contents
    <3>4. queue'[(curRd + (count + 1) - 1) % MaxLen] = arg[t]
      BY <1>1, <2>2 DEF Put, TypeOK, Slots
    <3> QED
      BY <1>0, <1>n, <1>1, <2>1, <2>2, <3>3, <3>4 DEF Put, Slots
  <2> QED
    BY <1>0, <1>1, <2>1, <2>3 DEF Put, Return, Fifo!Enqueue, Fifo!Result
<1>2. ASSUME NEW t \in Threads, Get(t) PROVE Fifo!Dequeue(t)
  <2>1. /\ count \in 1 .. MaxLen /\ curRd \in Slots
    BY <1>2 DEF Get, TypeOK
  <2>2. queue[curRd] = Head(Contents)
    <3>1. curRd + 1 - 1 = curRd /\ curRd % MaxLen = curRd
      BY <2>1, MaxLenAssumption DEF Slots
    <3>2. Head(Contents) = Contents[1]
      BY <1>0, <2>1
    <3> QED
      BY <2>1, <3>1, <3>2 DEF Contents
  <2>3. Contents' = Tail(Contents)
    <3>1. \A i \in 1 .. count - 1 :
              (((curRd + 1) % MaxLen) + i - 1) % MaxLen = (curRd + (i + 1) - 1) % MaxLen
      BY <2>1, Wrap, MaxLenAssumption DEF Slots
    <3> QED
      BY <1>0, <1>n, <1>2, <2>1, <3>1 DEF Get, Contents
  <2> QED
    BY <1>0, <1>2, <2>1, <2>2, <2>3 DEF Get, Return, Fifo!Dequeue, Fifo!Result
<1>3. ASSUME NEW t \in Threads, PutFull(t) \/ GetEmpty(t)
      PROVE  Fifo!Fail(t) \/ UNCHANGED Fifo!vars
  <2>1. Contents' = Contents
    BY <1>3 DEF PutFull, GetEmpty, Blocked, ring, Contents
  <2>2. CASE PutFull(t)
    <3>1. Len(Contents) = MaxLen
      BY <1>0, <2>2, MaxLenAssumption DEF PutFull, TypeOK
    <3> QED
      BY <2>1, <2>2, <3>1
      DEF PutFull, Blocked, Return, Fifo!Fail, Fifo!Result, Fifo!vars
  <2>3. CASE GetEmpty(t)
    <3>1. Contents = <<>>
      BY <1>0, <2>3 DEF GetEmpty, TypeOK
    <3> QED
      BY <2>1, <2>3, <3>1
      DEF GetEmpty, Blocked, Return, Fifo!Fail, Fifo!Result, Fifo!vars
  <2> QED
    BY <1>3, <2>2, <2>3
<1>4. ASSUME NEW t \in Threads, CallPut(t) \/ CallGet(t) \/ SpuriousWakeup(t)
      PROVE  UNCHANGED Fifo!vars
  BY <1>4 DEF CallPut, CallGet, Call, SpuriousWakeup, ring, Contents, Fifo!vars
<1>5. CASE UNCHANGED vars
  BY <1>5 DEF vars, Contents, Fifo!vars
<1> QED
  BY <1>1, <1>2, <1>3, <1>4, <1>5 DEF Next, Run, Fifo!Next

\* The queue with its ring, mutex and sleeping threads implements the bounded
\* FIFO: each value put is got once, in order, and a call fails only when it
\* would have had to wait.
THEOREM Refinement == Spec => IsFifo
<1>1. Init => Fifo!Init
  BY DEF Init, Fifo!Init, Contents
<1>2. IInv /\ [Next]_vars => [Fifo!Next]_Fifo!vars
  BY RefinementStep DEF IInv
<1> QED
  BY <1>1, <1>2, Invariance, PTL DEF Spec, IsFifo, Fifo!Spec
=============================================================================
