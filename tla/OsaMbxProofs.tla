---------------------------- MODULE OsaMbxProofs ----------------------------
(***************************************************************************)
(* Theorems about the mailboxes, for any clients, tasks and commands, any  *)
(* number of addresses and mailboxes of any length.                        *)
(***************************************************************************)
EXTENDS OsaMbx, SequenceTheorems, TLAPS

-----------------------------------------------------------------------------
(* Places, one relation instead of a set of triples.                       *)

\* The address a is at the place <<k, x, i>>.
At(a, k, x, i) ==
    \/ k = "sender" /\ x \in Clients /\ i = 0 /\ pc[x] = "send" /\ a = pSentMsg[x]
    \/ k = "rcvMbx" /\ x \in Servers /\ i \in 1 .. Len(rcvMbx[x]) /\ a = rcvMbx[x][i]
    \/ k = "hand"   /\ x \in Servers /\ i = 0 /\ hand[x] # None /\ a = hand[x]
    \/ k = "ackMbx" /\ x \in Clients /\ i \in 1 .. Len(ackMbx[x]) /\ a = ackMbx[x][i]

\* No address is at two places,
OnePlace ==
    \A a, k, x, i, l, y, j :
        At(a, k, x, i) /\ At(a, l, y, j) => k = l /\ x = y /\ i = j

\* and those that are somewhere are those that are allocated.
Allocated == \A a \in Addr : heap[a] # None <=> \E k, x, i : At(a, k, x, i)

\* What a client remembers of the message it sent last.
SentKnown ==
    \A c \in Clients :
        /\ pc[c] = "idle" <=> pSentMsg[c] = None
        /\ pc[c] # "idle" => /\ heap[pSentMsg[c]] # None
                             /\ heap[pSentMsg[c]].from = c
        /\ pc[c] = "wait" => heap[pSentMsg[c]].wait

\* Messages get where they are sent to.
Delivered ==
    \A s \in Servers : \A i \in 1 .. Len(rcvMbx[s]) : heap[rcvMbx[s][i]].to = s

\* SenderWaits, by places.
Waiting ==
    /\ \A a, k, x, i :
          At(a, k, x, i) /\ k # "sender" /\ heap[a].wait
              => pc[heap[a].from] = "wait" /\ pSentMsg[heap[a].from] = a
    /\ \A c \in Clients : \A i \in 1 .. Len(ackMbx[c]) : ackMbx[c][i] = pSentMsg[c]

\* While a call is queued, what its sender sent before is queued before it;
\* once it is handled, nothing of its sender is queued any more.
LastInLine ==
    \A c \in Clients :
        pc[c] = "wait" =>
            LET q == rcvMbx[heap[pSentMsg[c]].to]
            IN  \A j \in 1 .. Len(q) :
                    heap[q[j]].from = c => \E i \in j .. Len(q) : q[i] = pSentMsg[c]

OInv ==
    /\ TypeOK /\ ~ fault /\ OnePlace /\ Allocated
    /\ SentKnown /\ Delivered /\ Waiting /\ LastInLine

-----------------------------------------------------------------------------
(* Sequences.                                                              *)

LEMMA Appended ==
    ASSUME NEW S, NEW q \in Seq(S), NEW e \in S
    PROVE  /\ Append(q, e) \in Seq(S)
           /\ Len(q) \in Nat /\ Len(Append(q, e)) = Len(q) + 1
           /\ \A i \in 1 .. Len(q) + 1 :
                  Append(q, e)[i] = IF i = Len(q) + 1 THEN e ELSE q[i]
BY AppendProperties, LenProperties

LEMMA Taken ==
    ASSUME NEW S, NEW q \in Seq(S), q # << >>
    PROVE  /\ Head(q) = q[1] /\ Head(q) \in S
           /\ Tail(q) \in Seq(S)
           /\ Len(q) \in Nat \ {0} /\ Len(Tail(q)) = Len(q) - 1
           /\ \A i \in 1 .. Len(q) - 1 : Tail(q)[i] = q[i + 1]
BY HeadTailProperties, LenProperties, EmptySeq

-----------------------------------------------------------------------------

LEMMA MsgFields ==
    ASSUME NEW m \in Msg
    PROVE  /\ m.from \in Clients /\ m.to \in Servers /\ m.cmd \in Cmds
           /\ m.wait \in BOOLEAN /\ m.status \in Status
           /\ m # None
           /\ \A st \in Status :
                 LET n == [m EXCEPT !.status = st]
                 IN  /\ n \in Msg /\ n # None
                     /\ n.from = m.from /\ n.to = m.to /\ n.cmd = m.cmd
                     /\ n.wait = m.wait /\ n.status = st
BY NoneAssumption DEF Msg

\* At the start no message is anywhere.
LEMMA Initially == Init => OInv
<1> SUFFICES ASSUME Init PROVE OInv
    OBVIOUS
<1>0. << >> \in Seq(Addr) /\ Len(<< >>) = 0
    BY EmptySeq
<1>1. /\ heap \in [Addr -> Msg \cup {None}]
      /\ rcvMbx \in [Servers -> Seq(Addr)] /\ ackMbx \in [Clients -> Seq(Addr)]
      /\ \A s \in Servers : Len(rcvMbx[s]) <= QueLen
      /\ \A c \in Clients : Len(ackMbx[c]) <= QueLen
    BY <1>0, QueLenAssumption DEF Init
<1>2. TypeOK /\ ~ fault
    BY <1>1 DEF Init, TypeOK
<1>3. \A a, k, x, i : ~ At(a, k, x, i)
    BY <1>0 DEF Init, At
<1>4. OnePlace /\ Allocated
    BY <1>3 DEF OnePlace, Allocated, Init
<1>5. SentKnown /\ Delivered /\ Waiting /\ LastInLine
    BY <1>0, <1>3 DEF Init, SentKnown, Delivered, Waiting, LastInLine
<1> QED
    BY <1>2, <1>4, <1>5 DEF OInv

-----------------------------------------------------------------------------
(* The steps.                                                              *)

\* What is at a place is a message.
LEMMA PlacedIsMsg ==
    ASSUME OInv, NEW a, NEW k, NEW x, NEW i, At(a, k, x, i)
    PROVE  a \in Addr /\ heap[a] \in Msg /\ heap[a].from \in Clients /\ heap[a].to \in Servers
<1>1. a \in Addr
    <2>1. CASE k = "sender"
        BY <2>1 DEF OInv, TypeOK, SentKnown, At
    <2>2. CASE k = "hand"
        BY <2>2 DEF OInv, TypeOK, At
    <2>3. CASE k \in {"rcvMbx", "ackMbx"}
        BY <2>3, ElementOfSeq DEF OInv, TypeOK, At
    <2> QED
        BY <2>1, <2>2, <2>3 DEF At
<1>2. heap[a] \in Msg
    BY <1>1 DEF OInv, TypeOK, Allocated
<1> QED
    BY <1>1, <1>2, MsgFields

\* The message a client has sent, while it is not done with it.
LEMMA SentIsMsg ==
    ASSUME OInv, NEW c \in Clients, pc[c] # "idle"
    PROVE  /\ pSentMsg[c] \in Addr /\ heap[pSentMsg[c]] \in Msg
           /\ heap[pSentMsg[c]].from = c /\ heap[pSentMsg[c]].to \in Servers
<1>1. pSentMsg[c] \in Addr /\ heap[pSentMsg[c]] \in Msg
    BY DEF OInv, TypeOK, SentKnown
<1> QED
    BY <1>1, MsgFields DEF OInv, SentKnown

\* An acknowledgement comes to a client that waits for it.
LEMMA AckedWaits ==
    ASSUME OInv, NEW c \in Clients, NEW i \in 1 .. Len(ackMbx[c])
    PROVE  pc[c] = "wait" /\ ackMbx[c][i] = pSentMsg[c]
<1>1. At(ackMbx[c][i], "ackMbx", c, i) /\ ackMbx[c][i] = pSentMsg[c]
    BY DEF At, OInv, Waiting
<1>2. pc[c] # "idle"
    BY <1>1, PlacedIsMsg, NoneAssumption DEF OInv, SentKnown
<1>3. pc[c] # "send"
    <2>1. pc[c] = "send" => At(ackMbx[c][i], "sender", c, 0)
        BY <1>1 DEF At
    <2> QED
        BY <1>1, <2>1 DEF OInv, OnePlace
<1> QED
    BY <1>1, <1>2, <1>3 DEF OInv, TypeOK

\* A new message is at a free address, with its sender.
LEMMA AllocStep ==
    ASSUME OInv, NEW c \in Clients, Alloc(c)
    PROVE  OInv'
<1>1. PICK a \in Addr, m \in Msg :
          /\ heap[a] = None /\ m.from = c
          /\ heap' = [heap EXCEPT ![a] = m]
          /\ pSentMsg' = [pSentMsg EXCEPT ![c] = a]
    <2>1. PICK a \in Addr, s \in Servers, cmd \in Cmds, wait \in BOOLEAN :
              /\ heap[a] = None
              /\ heap' = [heap EXCEPT ![a] = [from |-> c, to |-> s, cmd |-> cmd,
                                              wait |-> wait, status |-> "SOK"]]
              /\ pSentMsg' = [pSentMsg EXCEPT ![c] = a]
        BY DEF Alloc
    <2> DEFINE m == [from |-> c, to |-> s, cmd |-> cmd, wait |-> wait, status |-> "SOK"]
    <2>2. m \in Msg /\ m.from = c
        BY DEF Msg, Status
    <2> QED
        BY <2>1, <2>2
<1>2. /\ pc[c] = "idle" /\ pc' = [pc EXCEPT ![c] = "send"]
      /\ UNCHANGED <<rcvMbx, ackMbx, hand, fault>>
    BY DEF Alloc
<1>3. m # None
    BY NoneAssumption
<1>4. TypeOK' /\ ~ fault'
    BY <1>1, <1>2 DEF OInv, TypeOK
<1>5. \A k, x, i : ~ At(a, k, x, i)
    BY <1>1 DEF OInv, Allocated
<1>6. \A b, k, x, i :
          At(b, k, x, i)' <=> \/ At(b, k, x, i)
                              \/ b = a /\ k = "sender" /\ x = c /\ i = 0
    BY <1>1, <1>2 DEF OInv, TypeOK, At
<1>7. OnePlace'
    BY <1>5, <1>6 DEF OInv, OnePlace
<1>8. Allocated'
    BY <1>1, <1>3, <1>6 DEF OInv, TypeOK, Allocated
<1>9. \A b, k, x, i : At(b, k, x, i) => b # a /\ heap'[b] = heap[b]
    BY <1>1, <1>5 DEF OInv, TypeOK
<1>10. SentKnown'
    <2>1. \A d \in Clients : pc[d] # "idle" => pSentMsg[d] \in Addr /\ pSentMsg[d] # a
        BY <1>1 DEF OInv, TypeOK, SentKnown
    <2> QED
        BY <1>1, <1>2, <1>3, <2>1, NoneAssumption DEF OInv, TypeOK, SentKnown
<1>11. \A s \in Servers : \A i \in 1 .. Len(rcvMbx[s]) :
          heap'[rcvMbx[s][i]] = heap[rcvMbx[s][i]]
    BY <1>9 DEF At
<1>12. Delivered'
    BY <1>2, <1>11 DEF OInv, Delivered
<1>13. \A d \in Clients : pc[d] = "wait" => /\ pc'[d] = "wait" /\ pSentMsg'[d] = pSentMsg[d]
                                          /\ heap'[pSentMsg[d]] = heap[pSentMsg[d]]
    BY <1>1, <1>2 DEF OInv, TypeOK, SentKnown
<1>14. Waiting'
    <2>1. \A b, k, x, i :
              At(b, k, x, i) /\ k # "sender" /\ heap'[b].wait
                  => pc'[heap'[b].from] = "wait" /\ pSentMsg'[heap'[b].from] = b
        BY <1>9, <1>13, PlacedIsMsg DEF OInv, Waiting
    <2>2. \A d \in Clients : \A i \in 1 .. Len(ackMbx[d]) : ackMbx[d][i] = pSentMsg'[d]
        BY <1>13, AckedWaits
    <2> QED
        BY <1>2, <1>6, <2>1, <2>2 DEF Waiting
<1>15. LastInLine'
    <2>1. \A d \in Clients : pc'[d] = "wait" => pc[d] = "wait"
        BY <1>2 DEF OInv, TypeOK
    <2> QED
        BY <1>2, <1>11, <1>13, <2>1, SentIsMsg DEF OInv, LastInLine
<1> QED
    BY <1>4, <1>7, <1>8, <1>10, <1>12, <1>14, <1>15 DEF OInv

\* A message is queued, and its sender waits or goes on.
LEMMA SendStep ==
    ASSUME OInv, NEW c \in Clients, Send(c)
    PROVE  OInv'
<1>0. PICK a, m, s, n : a = pSentMsg[c] /\ m = heap[a] /\ s = m.to /\ n = Len(rcvMbx[s])
    OBVIOUS
<1>1. /\ pc[c] = "send" /\ n < QueLen
      /\ rcvMbx' = [rcvMbx EXCEPT ![s] = Append(@, a)]
      /\ pc' = [pc EXCEPT ![c] = IF m.wait THEN "wait" ELSE "idle"]
      /\ pSentMsg' = [pSentMsg EXCEPT ![c] = IF m.wait THEN a ELSE None]
      /\ UNCHANGED <<heap, ackMbx, hand, fault>>
    BY <1>0 DEF Send
<1>2. a \in Addr /\ m \in Msg /\ m.from = c /\ s \in Servers /\ m.wait \in BOOLEAN /\ m # None
    BY <1>0, <1>1, SentIsMsg, MsgFields
<1>3. /\ rcvMbx[s] \in Seq(Addr) /\ n \in Nat
      /\ rcvMbx'[s] \in Seq(Addr) /\ Len(rcvMbx'[s]) = n + 1
      /\ \A i \in 1 .. n + 1 : rcvMbx'[s][i] = IF i = n + 1 THEN a ELSE rcvMbx[s][i]
      /\ \A t \in Servers \ {s} : rcvMbx'[t] = rcvMbx[t]
    <2>1. rcvMbx[s] \in Seq(Addr)
        BY <1>2 DEF OInv, TypeOK
    <2>2. rcvMbx'[s] = Append(rcvMbx[s], a) /\ \A t \in Servers \ {s} : rcvMbx'[t] = rcvMbx[t]
        BY <1>1, <1>2 DEF OInv, TypeOK
    <2> QED
        BY <1>0, <1>2, <2>1, <2>2, Appended
<1>4. TypeOK' /\ ~ fault'
    <2>1. rcvMbx' \in [Servers -> Seq(Addr)]
        BY <1>1, <1>2, <1>3 DEF OInv, TypeOK
    <2>2. \A t \in Servers : Len(rcvMbx'[t]) <= QueLen
        BY <1>1, <1>3, QueLenAssumption DEF OInv, TypeOK
    <2>3. pSentMsg' \in [Clients -> Addr \cup {None}] /\ pc' \in [Clients -> {"idle", "send", "wait"}]
        BY <1>1, <1>2 DEF OInv, TypeOK
    <2> QED
        BY <1>1, <2>1, <2>2, <2>3 DEF OInv, TypeOK
<1>5. At(a, "sender", c, 0)
    BY <1>0, <1>1 DEF At
<1>6. \A b, k, x, i :
          At(b, k, x, i)' <=> \/ b = a /\ k = "rcvMbx" /\ x = s /\ i = n + 1
                              \/ At(b, k, x, i) /\ ~ (k = "sender" /\ x = c)
    BY <1>0, <1>1, <1>2, <1>3 DEF OInv, TypeOK, At
<1>7. OnePlace'
    BY <1>5, <1>6 DEF OInv, OnePlace
<1>8. Allocated'
    <2>1. \A b, k, x, i : At(b, k, x, i) /\ b # a => At(b, k, x, i)'
        <3>1. \A b, i : At(b, "sender", c, i) => b = a
            BY <1>0 DEF At
        <3> QED
            BY <1>6, <3>1
    <2>2. At(a, "rcvMbx", s, n + 1)'
        BY <1>6
    <2>3. \A b, k, x, i : At(b, k, x, i)' => \E l, y, j : At(b, l, y, j)
        BY <1>5, <1>6
    <2> QED
        BY <1>1, <2>1, <2>2, <2>3 DEF OInv, Allocated
<1>9. SentKnown'
    BY <1>0, <1>1, <1>2, NoneAssumption DEF OInv, TypeOK, SentKnown
<1>10. Delivered'
    <2>1. \A i \in 1 .. Len(rcvMbx'[s]) : heap[rcvMbx'[s][i]].to = s
        <3>1. heap[a].to = s /\ \A i \in 1 .. n : heap[rcvMbx[s][i]].to = s
            BY <1>0, <1>2 DEF OInv, Delivered
        <3> QED
            BY <1>3, <3>1
    <2> QED
        BY <1>1, <1>3, <2>1 DEF OInv, Delivered
<1>11. \A d \in Clients : pc[d] = "wait" => /\ d # c /\ pc'[d] = "wait"
                                            /\ pSentMsg'[d] = pSentMsg[d]
    BY <1>1 DEF OInv, TypeOK
<1>12. Waiting'
    <2>1. m.wait => pc'[c] = "wait" /\ pSentMsg'[c] = a
        BY <1>1 DEF OInv, TypeOK
    <2>2. \A b, k, x, i :
              At(b, k, x, i) /\ k # "sender" /\ heap[b].wait
                  => pc'[heap[b].from] = "wait" /\ pSentMsg'[heap[b].from] = b
        BY <1>11, PlacedIsMsg DEF OInv, Waiting
    <2>3. \A d \in Clients : \A i \in 1 .. Len(ackMbx[d]) : ackMbx[d][i] = pSentMsg'[d]
        BY <1>11, AckedWaits
    <2>4. \A b, k, x, i :
              At(b, k, x, i)' /\ k # "sender" /\ heap[b].wait
                  => pc'[heap[b].from] = "wait" /\ pSentMsg'[heap[b].from] = b
        BY <1>0, <1>2, <1>6, <2>1, <2>2
    <2> QED
        BY <1>1, <2>3, <2>4 DEF Waiting
<1>13. LastInLine'
    <2> SUFFICES ASSUME NEW d \in Clients, pc'[d] = "wait",
                        NEW t, t = heap[pSentMsg'[d]].to,
                        NEW j \in 1 .. Len(rcvMbx'[t]), heap[rcvMbx'[t][j]].from = d
                 PROVE  \E i \in j .. Len(rcvMbx'[t]) : rcvMbx'[t][i] = pSentMsg'[d]
        BY <1>1 DEF LastInLine
    <2>1. CASE d = c
        <3>1. pSentMsg'[c] = a /\ t = s
            BY <1>0, <1>1, <2>1 DEF OInv, TypeOK
        <3>2. n + 1 \in j .. Len(rcvMbx'[t]) /\ rcvMbx'[t][n + 1] = a
            BY <1>3, <3>1
        <3> QED
            BY <2>1, <3>1, <3>2
    <2>2. CASE d # c
        <3>1. pc[d] = "wait" /\ pSentMsg'[d] = pSentMsg[d]
            BY <1>1, <2>2 DEF OInv, TypeOK
        <3>2. t \in Servers
            BY <3>1, SentIsMsg
        <3>3. \A h \in 1 .. Len(rcvMbx[t]) :
                  heap[rcvMbx[t][h]].from = d => \E i \in h .. Len(rcvMbx[t]) :
                                                     rcvMbx[t][i] = pSentMsg[d]
            BY <3>1 DEF OInv, LastInLine
        <3>4. CASE t = s
            <4>1. j \in 1 .. n /\ rcvMbx'[s][j] = rcvMbx[s][j]
                <5>1. rcvMbx'[s][n + 1] = a /\ heap[a].from = c
                    BY <1>0, <1>2, <1>3
                <5>2. j # n + 1
                    BY <2>2, <3>4, <5>1
                <5> QED
                    BY <1>3, <3>4, <5>2
            <4>2. PICK i \in j .. n : rcvMbx[s][i] = pSentMsg[d]
                BY <1>0, <3>3, <3>4, <4>1
            <4>3. i \in j .. Len(rcvMbx'[t]) /\ rcvMbx'[t][i] = rcvMbx[s][i]
                BY <1>3, <3>4, <4>1
            <4> QED
                BY <3>1, <4>2, <4>3
        <3>5. CASE t # s
            BY <1>3, <3>1, <3>2, <3>3, <3>5
        <3> QED
            BY <3>4, <3>5
    <2> QED
        BY <2>1, <2>2
<1> QED
    BY <1>4, <1>7, <1>8, <1>9, <1>10, <1>12, <1>13 DEF OInv

\* The acknowledgement a client takes is for what it sent last.
LEMMA RecvAckStep ==
    ASSUME OInv, NEW c \in Clients, RecvAck(c)
    PROVE  OInv'
<1>0. PICK a, n : a = Head(ackMbx[c]) /\ n = Len(ackMbx[c])
    OBVIOUS
<1>1. /\ ackMbx[c] \in Seq(Addr) /\ a = ackMbx[c][1] /\ a \in Addr
      /\ n \in Nat \ {0} /\ Tail(ackMbx[c]) \in Seq(Addr) /\ Len(Tail(ackMbx[c])) = n - 1
      /\ \A i \in 1 .. n - 1 : Tail(ackMbx[c])[i] = ackMbx[c][i + 1]
    BY <1>0, Taken DEF RecvAck, OInv, TypeOK
<1>2. At(a, "ackMbx", c, 1)
    BY <1>0, <1>1 DEF At
<1>3. a = pSentMsg[c] /\ pc[c] = "wait" /\ heap[a] \in Msg /\ heap[a] # None /\ heap[a].from = c
    BY <1>0, <1>1, <1>2, AckedWaits, PlacedIsMsg, SentIsMsg, NoneAssumption
<1>4. n = 1
    <2>1. n > 1 => At(ackMbx[c][2], "ackMbx", c, 2) /\ ackMbx[c][2] = a
        BY <1>0, <1>1, <1>3, AckedWaits DEF At
    <2> QED
        BY <1>1, <1>2, <2>1 DEF OInv, OnePlace
<1>5. /\ heap' = [heap EXCEPT ![a] = None]
      /\ pc' = [pc EXCEPT ![c] = "idle"]
      /\ pSentMsg' = [pSentMsg EXCEPT ![c] = None]
      /\ ackMbx' = [ackMbx EXCEPT ![c] = Tail(@)]
      /\ fault' = FALSE
      /\ UNCHANGED <<rcvMbx, hand>>
    BY <1>0, <1>3 DEF RecvAck
<1>6. /\ ackMbx'[c] \in Seq(Addr) /\ Len(ackMbx'[c]) = 0
      /\ \A d \in Clients \ {c} : ackMbx'[d] = ackMbx[d]
    BY <1>0, <1>1, <1>4, <1>5 DEF OInv, TypeOK
<1>7. TypeOK' /\ ~ fault'
    <2>1. ackMbx' \in [Clients -> Seq(Addr)]
        BY <1>5, <1>6 DEF OInv, TypeOK
    <2>2. \A d \in Clients : Len(ackMbx'[d]) <= QueLen
        BY <1>6, QueLenAssumption DEF OInv, TypeOK
    <2>3. /\ heap' \in [Addr -> Msg \cup {None}]
          /\ pSentMsg' \in [Clients -> Addr \cup {None}]
          /\ pc' \in [Clients -> {"idle", "send", "wait"}]
        BY <1>5 DEF OInv, TypeOK
    <2> QED
        BY <1>5, <2>1, <2>2, <2>3 DEF OInv, TypeOK
<1>8. \A b, k, x, i : At(b, k, x, i)' <=> At(b, k, x, i) /\ ~ (k = "ackMbx" /\ x = c)
    BY <1>3, <1>5, <1>6 DEF OInv, TypeOK, At
<1>9. \A b, k, x, i : At(b, k, x, i) /\ b # a => At(b, k, x, i)'
    <2>1. \A b, i : At(b, "ackMbx", c, i) => b = a
        BY <1>0, <1>1, <1>4 DEF At
    <2> QED
        BY <1>8, <2>1
<1>10. \A b, k, x, i : At(b, k, x, i)' => At(b, k, x, i) /\ b # a /\ heap'[b] = heap[b]
    <2>1. \A k, x, i : ~ At(a, k, x, i)'
        BY <1>2, <1>8 DEF OInv, OnePlace
    <2> QED
        BY <1>1, <1>5, <1>8, <2>1, PlacedIsMsg DEF OInv, TypeOK
<1>11. OnePlace'
    BY <1>10 DEF OInv, OnePlace
<1>12. Allocated'
    BY <1>1, <1>3, <1>5, <1>9, <1>10, NoneAssumption DEF OInv, TypeOK, Allocated
<1>13. \A d \in Clients : d # c => /\ pc'[d] = pc[d] /\ pSentMsg'[d] = pSentMsg[d]
                                   /\ pc[d] # "idle" => heap'[pSentMsg[d]] = heap[pSentMsg[d]]
    BY <1>3, <1>5, SentIsMsg DEF OInv, TypeOK, SentKnown
<1>14. pc'[c] = "idle" /\ pSentMsg'[c] = None
    BY <1>5 DEF OInv, TypeOK
<1>15. SentKnown'
    BY <1>13, <1>14 DEF OInv, SentKnown
<1>16. \A s \in Servers : \A i \in 1 .. Len(rcvMbx[s]) :
           heap'[rcvMbx[s][i]] = heap[rcvMbx[s][i]]
    <2>1. \A s \in Servers : \A i \in 1 .. Len(rcvMbx[s]) : At(rcvMbx[s][i], "rcvMbx", s, i)'
        BY <1>5 DEF At
    <2> QED
        BY <1>5, <1>10, <2>1
<1>17. Delivered'
    BY <1>5, <1>16 DEF OInv, Delivered
<1>18. Waiting'
    <2>1. \A b, k, x, i :
              At(b, k, x, i)' /\ k # "sender" /\ heap'[b].wait
                  => pc'[heap'[b].from] = "wait" /\ pSentMsg'[heap'[b].from] = b
        BY <1>3, <1>10, <1>13, PlacedIsMsg DEF OInv, Waiting
    <2>2. \A d \in Clients : \A i \in 1 .. Len(ackMbx'[d]) : ackMbx'[d][i] = pSentMsg'[d]
        BY <1>6, <1>13, AckedWaits
    <2> QED
        BY <2>1, <2>2 DEF Waiting
<1>19. LastInLine'
    <2> SUFFICES ASSUME NEW d \in Clients, pc'[d] = "wait",
                        NEW t, t = heap'[pSentMsg'[d]].to,
                        NEW j \in 1 .. Len(rcvMbx[t]), heap'[rcvMbx[t][j]].from = d
                 PROVE  \E i \in j .. Len(rcvMbx[t]) : rcvMbx[t][i] = pSentMsg'[d]
        BY <1>5 DEF LastInLine
    <2>1. /\ pc[d] = "wait" /\ pSentMsg'[d] = pSentMsg[d]
          /\ t = heap[pSentMsg[d]].to /\ t \in Servers
        BY <1>13, <1>14, SentIsMsg
    <2>2. heap[rcvMbx[t][j]].from = d
        BY <1>16, <2>1
    <2> QED
        BY <2>1, <2>2 DEF OInv, LastInLine
<1> QED
    BY <1>7, <1>11, <1>12, <1>15, <1>17, <1>18, <1>19 DEF OInv

\* A task takes the oldest message of its mailbox in hand.
LEMMA WaitMsgStep ==
    ASSUME OInv, NEW s \in Servers, WaitMsg(s)
    PROVE  OInv'
<1>0. PICK a, n : a = Head(rcvMbx[s]) /\ n = Len(rcvMbx[s])
    OBVIOUS
<1>1. /\ rcvMbx[s] \in Seq(Addr) /\ a = rcvMbx[s][1] /\ a \in Addr
      /\ n \in Nat \ {0} /\ Tail(rcvMbx[s]) \in Seq(Addr) /\ Len(Tail(rcvMbx[s])) = n - 1
      /\ \A i \in 1 .. n - 1 : Tail(rcvMbx[s])[i] = rcvMbx[s][i + 1]
    BY <1>0, Taken DEF WaitMsg, OInv, TypeOK
<1>2. /\ hand[s] = None
      /\ hand' = [hand EXCEPT ![s] = a]
      /\ rcvMbx' = [rcvMbx EXCEPT ![s] = Tail(@)]
      /\ heap' = heap /\ pSentMsg' = pSentMsg /\ pc' = pc
      /\ UNCHANGED <<ackMbx, fault>>
    BY <1>0 DEF WaitMsg
<1>3. /\ rcvMbx'[s] \in Seq(Addr) /\ Len(rcvMbx'[s]) = n - 1
      /\ \A i \in 1 .. n - 1 : rcvMbx'[s][i] = rcvMbx[s][i + 1]
      /\ \A t \in Servers \ {s} : rcvMbx'[t] = rcvMbx[t]
    BY <1>1, <1>2 DEF OInv, TypeOK
<1>4. TypeOK' /\ ~ fault'
    <2>1. rcvMbx' \in [Servers -> Seq(Addr)]
        BY <1>2, <1>3 DEF OInv, TypeOK
    <2>2. \A t \in Servers : Len(rcvMbx'[t]) <= QueLen
        BY <1>0, <1>1, <1>3, QueLenAssumption DEF OInv, TypeOK
    <2>3. hand' \in [Servers -> Addr \cup {None}]
        BY <1>1, <1>2 DEF OInv, TypeOK
    <2> QED
        BY <1>2, <2>1, <2>2, <2>3 DEF OInv, TypeOK
<1>5. At(a, "rcvMbx", s, 1)
    BY <1>0, <1>1 DEF At
<1>6. \A b, k, x, i :
          At(b, k, x, i)' <=> \/ b = a /\ k = "hand" /\ x = s /\ i = 0
                              \/ At(b, k, x, i) /\ ~ (k = "rcvMbx" /\ x = s)
                              \/ At(b, k, x, i + 1) /\ k = "rcvMbx" /\ x = s /\ i \in 1 .. n - 1
    <2>1. \A b, k, x, i : ~ (k = "rcvMbx" /\ x = s) =>
              (At(b, k, x, i)' <=> \/ b = a /\ k = "hand" /\ x = s /\ i = 0
                                   \/ At(b, k, x, i))
        BY <1>1, <1>2, <1>3, NoneAssumption DEF OInv, TypeOK, At
    <2>2. \A b, i : At(b, "rcvMbx", s, i)' <=> i \in 1 .. n - 1 /\ At(b, "rcvMbx", s, i + 1)
        <3>1. \A b, i : At(b, "rcvMbx", s, i)' <=> i \in 1 .. n - 1 /\ b = rcvMbx[s][i + 1]
            BY <1>1, <1>3 DEF At
        <3>2. \A b : \A i \in 1 .. n - 1 :
                  At(b, "rcvMbx", s, i + 1) <=> b = rcvMbx[s][i + 1]
            BY <1>0, <1>1 DEF At
        <3> QED
            BY <3>1, <3>2
    <2> QED
        BY <2>1, <2>2
<1>7. OnePlace'
    <2> SUFFICES ASSUME NEW b, NEW k, NEW x, NEW i, NEW l, NEW y, NEW j,
                        At(b, k, x, i)', At(b, l, y, j)'
                 PROVE  k = l /\ x = y /\ i = j
        BY DEF OnePlace
    <2>1. At(b, k, x, i + 1) /\ At(b, l, y, j + 1) => i + 1 = j + 1 /\ k = l /\ x = y
        BY DEF OInv, OnePlace
    <2>2. i \in 1 .. n - 1 /\ j \in 1 .. n - 1 /\ i + 1 = j + 1 => i = j
        BY <1>1
    <2>3. b = a => ~ (k = "rcvMbx" /\ x = s) /\ ~ (l = "rcvMbx" /\ y = s)
        <3>1. \A h \in 1 .. n - 1 : ~ At(a, "rcvMbx", s, h + 1)
            BY <1>1, <1>5 DEF OInv, OnePlace
        <3> QED
            BY <1>6, <3>1
    <2>4. b = a => k = "hand" /\ x = s /\ i = 0 /\ l = "hand" /\ y = s /\ j = 0
        BY <1>5, <1>6, <2>3 DEF OInv, OnePlace
    <2> QED
        BY <1>6, <2>1, <2>2, <2>4 DEF OInv, OnePlace
<1>8. Allocated'
    <2>1. \A b, k, x, i : At(b, k, x, i) => \E l, y, j : At(b, l, y, j)'
        <3> SUFFICES ASSUME NEW b, NEW k, NEW x, NEW i, At(b, k, x, i)
                     PROVE  \E l, y, j : At(b, l, y, j)'
            OBVIOUS
        <3>1. CASE k = "rcvMbx" /\ x = s
            <4>1. i \in 1 .. n /\ b = rcvMbx[s][i]
                BY <1>0, <3>1 DEF At
            <4>2. CASE i = 1
                BY <1>1, <1>6, <4>1, <4>2
            <4>3. CASE i # 1
                <5>1. i - 1 \in 1 .. n - 1 /\ (i - 1) + 1 = i
                    BY <1>1, <4>1, <4>3
                <5> QED
                    BY <1>6, <3>1, <5>1
            <4> QED
                BY <4>2, <4>3
        <3>2. CASE ~ (k = "rcvMbx" /\ x = s)
            BY <1>6, <3>2
        <3> QED
            BY <3>1, <3>2
    <2>2. \A b, k, x, i : At(b, k, x, i)' => \E l, y, j : At(b, l, y, j)
        BY <1>5, <1>6
    <2> QED
        BY <1>2, <2>1, <2>2 DEF OInv, Allocated
<1>9. SentKnown'
    BY <1>2 DEF OInv, SentKnown
<1>10. Delivered'
    <2>1. \A i \in 1 .. n - 1 : heap[rcvMbx[s][i + 1]].to = s
        BY <1>0, <1>1 DEF OInv, Delivered
    <2>2. \A i \in 1 .. Len(rcvMbx'[s]) : heap[rcvMbx'[s][i]].to = s
        BY <1>3, <2>1
    <2> QED
        BY <1>2, <1>3, <2>2 DEF OInv, Delivered
<1>11. Waiting'
    <2>1. \A b, k, x, i : At(b, k, x, i)' /\ k # "sender" =>
              \E l, j : l # "sender" /\ At(b, l, x, j)
        BY <1>5, <1>6
    <2> QED
        BY <1>2, <2>1 DEF OInv, Waiting
<1>12. LastInLine'
    <2> SUFFICES ASSUME NEW d \in Clients, pc'[d] = "wait",
                        NEW t, t = heap'[pSentMsg'[d]].to,
                        NEW j \in 1 .. Len(rcvMbx'[t]), heap'[rcvMbx'[t][j]].from = d
                 PROVE  \E i \in j .. Len(rcvMbx'[t]) : rcvMbx'[t][i] = pSentMsg'[d]
        BY DEF LastInLine
    <2>0. /\ pc[d] = "wait" /\ t = heap[pSentMsg[d]].to /\ pSentMsg'[d] = pSentMsg[d]
          /\ heap[rcvMbx'[t][j]].from = d
        BY <1>2
    <2>1. t \in Servers
        BY <2>0, SentIsMsg
    <2>2. \A h \in 1 .. Len(rcvMbx[t]) :
              heap[rcvMbx[t][h]].from = d => \E i \in h .. Len(rcvMbx[t]) :
                                                 rcvMbx[t][i] = pSentMsg[d]
        BY <2>0 DEF OInv, LastInLine
    <2>3. CASE t = s
        <3>1. j \in 1 .. n - 1 /\ j + 1 \in 1 .. n /\ rcvMbx'[s][j] = rcvMbx[s][j + 1]
            BY <1>1, <1>3, <2>3
        <3>2. PICK i \in j + 1 .. n : rcvMbx[s][i] = pSentMsg[d]
            BY <1>0, <2>0, <2>2, <2>3, <3>1
        <3>3. i - 1 \in j .. Len(rcvMbx'[t]) /\ i - 1 \in 1 .. n - 1 /\ (i - 1) + 1 = i
            BY <1>1, <1>3, <2>3, <3>1
        <3>4. rcvMbx'[t][i - 1] = rcvMbx[s][i]
            BY <1>3, <2>3, <3>3
        <3> QED
            BY <2>0, <3>2, <3>3, <3>4
    <2>4. CASE t # s
        BY <1>3, <2>0, <2>1, <2>2, <2>4
    <2> QED
        BY <2>3, <2>4
<1> QED
    BY <1>4, <1>7, <1>8, <1>9, <1>10, <1>11, <1>12 DEF OInv

\* A handled message goes back to its sender, which waits for it,
LEMMA AckStep ==
    ASSUME OInv, NEW s \in Servers, AckOrFreeMsg(s), heap[hand[s]].wait
    PROVE  OInv'
<1>0. PICK a, m, n : a = hand[s] /\ m = heap[a] /\ n = Len(ackMbx[m.from])
    OBVIOUS
<1>1. At(a, "hand", s, 0)
    BY <1>0 DEF At, AckOrFreeMsg
<1>2. a \in Addr /\ m \in Msg /\ m # None /\ m.from \in Clients /\ m.to \in Servers /\ m.wait
    BY <1>0, <1>1, PlacedIsMsg, MsgFields
<1>3. PICK c \in Clients : c = m.from /\ n = Len(ackMbx[c])
    BY <1>0, <1>2
<1>4. PICK st \in Status : heap' = [heap EXCEPT ![a].status = st]
    BY <1>0, <1>2 DEF AckOrFreeMsg
<1>5. /\ n < QueLen
      /\ ackMbx' = [ackMbx EXCEPT ![c] = Append(@, a)]
      /\ hand' = [hand EXCEPT ![s] = None]
      /\ fault' = FALSE
      /\ UNCHANGED <<rcvMbx, pSentMsg, pc>>
    BY <1>0, <1>2, <1>3 DEF AckOrFreeMsg
<1>6. /\ heap' \in [Addr -> Msg \cup {None}]
      /\ \A b \in Addr : heap[b] = None <=> heap'[b] = None
      /\ \A b \in Addr : heap[b] # None =>
            /\ heap'[b].from = heap[b].from /\ heap'[b].to = heap[b].to
            /\ heap'[b].wait = heap[b].wait
    <2>1. /\ heap' = [heap EXCEPT ![a] = [m EXCEPT !.status = st]]
          /\ [m EXCEPT !.status = st] \in Msg
          /\ [m EXCEPT !.status = st].from = m.from
          /\ [m EXCEPT !.status = st].to = m.to
          /\ [m EXCEPT !.status = st].wait = m.wait
        BY <1>0, <1>2, <1>4, MsgFields
    <2>2. [m EXCEPT !.status = st] # None
        BY <2>1, NoneAssumption
    <2> QED
        BY <1>0, <1>2, <2>1, <2>2 DEF OInv, TypeOK
<1>7. /\ ackMbx[c] \in Seq(Addr) /\ n \in Nat
      /\ ackMbx'[c] \in Seq(Addr) /\ Len(ackMbx'[c]) = n + 1
      /\ \A i \in 1 .. n + 1 : ackMbx'[c][i] = IF i = n + 1 THEN a ELSE ackMbx[c][i]
      /\ \A d \in Clients \ {c} : ackMbx'[d] = ackMbx[d]
    <2>1. ackMbx[c] \in Seq(Addr)
        BY DEF OInv, TypeOK
    <2>2. ackMbx'[c] = Append(ackMbx[c], a) /\ \A d \in Clients \ {c} : ackMbx'[d] = ackMbx[d]
        BY <1>5 DEF OInv, TypeOK
    <2> QED
        BY <1>2, <1>3, <2>1, <2>2, Appended
<1>8. TypeOK' /\ ~ fault'
    <2>1. ackMbx' \in [Clients -> Seq(Addr)]
        BY <1>5, <1>7 DEF OInv, TypeOK
    <2>2. \A d \in Clients : Len(ackMbx'[d]) <= QueLen
        BY <1>5, <1>7, QueLenAssumption DEF OInv, TypeOK
    <2>3. hand' \in [Servers -> Addr \cup {None}]
        BY <1>5 DEF OInv, TypeOK
    <2> QED
        BY <1>5, <1>6, <2>1, <2>2, <2>3 DEF OInv, TypeOK
<1>9. \A b, k, x, i :
          At(b, k, x, i)' <=> \/ b = a /\ k = "ackMbx" /\ x = c /\ i = n + 1
                              \/ At(b, k, x, i) /\ ~ (k = "hand" /\ x = s)
    BY <1>2, <1>3, <1>5, <1>7 DEF OInv, TypeOK, At
<1>10. OnePlace'
    BY <1>1, <1>9 DEF OInv, OnePlace
<1>11. Allocated'
    <2>1. \A b, i : At(b, "hand", s, i) => b = a
        BY <1>0 DEF At
    <2>2. \A b, k, x, i : At(b, k, x, i) /\ b # a => At(b, k, x, i)'
        BY <1>9, <2>1
    <2>3. At(a, "ackMbx", c, n + 1)'
        BY <1>9
    <2>4. \A b, k, x, i : At(b, k, x, i)' => \E l, y, j : At(b, l, y, j)
        BY <1>1, <1>9
    <2> QED
        BY <1>6, <2>2, <2>3, <2>4 DEF OInv, Allocated
<1>12. SentKnown'
    BY <1>5, <1>6, SentIsMsg DEF OInv, SentKnown
<1>13. \A t \in Servers : \A i \in 1 .. Len(rcvMbx[t]) :
           /\ heap'[rcvMbx[t][i]].from = heap[rcvMbx[t][i]].from
           /\ heap'[rcvMbx[t][i]].to = heap[rcvMbx[t][i]].to
    <2>1. \A t \in Servers : \A i \in 1 .. Len(rcvMbx[t]) : At(rcvMbx[t][i], "rcvMbx", t, i)
        BY DEF At
    <2> QED
        BY <1>6, <2>1, PlacedIsMsg, MsgFields
<1>14. Delivered'
    BY <1>5, <1>13 DEF OInv, Delivered
<1>15. pc[c] = "wait" /\ pSentMsg[c] = a
    BY <1>0, <1>1, <1>2, <1>3 DEF OInv, Waiting
<1>16. Waiting'
    <2>1. \A b, k, x, i : At(b, k, x, i) => /\ heap'[b].from = heap[b].from
                                            /\ heap'[b].wait = heap[b].wait
        BY <1>6, PlacedIsMsg, MsgFields
    <2>2. \A b, k, x, i :
              At(b, k, x, i)' /\ k # "sender" => \E l, y, j : l # "sender" /\ At(b, l, y, j)
        BY <1>1, <1>9
    <2>3. \A b, k, x, i :
              At(b, k, x, i)' /\ k # "sender" /\ heap'[b].wait
                  => pc[heap'[b].from] = "wait" /\ pSentMsg[heap'[b].from] = b
        BY <2>1, <2>2 DEF OInv, Waiting
    <2>4. \A d \in Clients : \A i \in 1 .. Len(ackMbx'[d]) : ackMbx'[d][i] = pSentMsg[d]
        <3>1. \A i \in 1 .. n : ackMbx[c][i] = pSentMsg[c]
            BY <1>3 DEF OInv, Waiting
        <3>2. \A i \in 1 .. Len(ackMbx'[c]) : ackMbx'[c][i] = pSentMsg[c]
            BY <1>7, <1>15, <3>1
        <3> QED
            BY <1>7, <3>2 DEF OInv, Waiting
    <2> QED
        BY <1>5, <2>3, <2>4 DEF Waiting
<1>17. LastInLine'
    <2> SUFFICES ASSUME NEW d \in Clients, pc[d] = "wait",
                        NEW t, t = heap'[pSentMsg[d]].to,
                        NEW j \in 1 .. Len(rcvMbx[t]), heap'[rcvMbx[t][j]].from = d
                 PROVE  \E i \in j .. Len(rcvMbx[t]) : rcvMbx[t][i] = pSentMsg[d]
        BY <1>5 DEF LastInLine
    <2>1. t = heap[pSentMsg[d]].to /\ t \in Servers
        BY <1>6, SentIsMsg, MsgFields
    <2>2. heap[rcvMbx[t][j]].from = d
        BY <1>13, <2>1
    <2> QED
        BY <2>1, <2>2 DEF OInv, LastInLine
<1> QED
    BY <1>8, <1>10, <1>11, <1>12, <1>14, <1>16, <1>17 DEF OInv

\* or is freed by the task that handled it, and nobody knows its address.
LEMMA FreeStep ==
    ASSUME OInv, NEW s \in Servers, AckOrFreeMsg(s), ~ heap[hand[s]].wait
    PROVE  OInv'
<1>0. PICK a : a = hand[s]
    OBVIOUS
<1>1. At(a, "hand", s, 0)
    BY <1>0 DEF At, AckOrFreeMsg
<1>2. a \in Addr /\ heap[a] \in Msg /\ heap[a] # None /\ ~ heap[a].wait
    BY <1>0, <1>1, PlacedIsMsg, MsgFields
<1>3. /\ heap' = [heap EXCEPT ![a] = None]
      /\ hand' = [hand EXCEPT ![s] = None]
      /\ fault' = FALSE
      /\ UNCHANGED <<rcvMbx, ackMbx, pSentMsg, pc>>
    BY <1>0, <1>2 DEF AckOrFreeMsg
<1>4. TypeOK' /\ ~ fault'
    BY <1>3 DEF OInv, TypeOK
<1>5. \A b, k, x, i : At(b, k, x, i)' <=> At(b, k, x, i) /\ ~ (k = "hand" /\ x = s)
    BY <1>3 DEF OInv, TypeOK, At
<1>6. \A b, k, x, i : At(b, k, x, i)' => At(b, k, x, i) /\ b # a /\ heap'[b] = heap[b]
    <2>1. \A b, k, x, i : At(b, k, x, i)' => At(b, k, x, i) /\ b # a
        BY <1>1, <1>5 DEF OInv, OnePlace
    <2> QED
        BY <1>3, <2>1, PlacedIsMsg DEF OInv, TypeOK
<1>7. OnePlace'
    BY <1>6 DEF OInv, OnePlace
<1>8. Allocated'
    <2>1. \A b, i : At(b, "hand", s, i) => b = a
        BY <1>0 DEF At
    <2>2. \A b, k, x, i : At(b, k, x, i) /\ b # a => At(b, k, x, i)'
        BY <1>5, <2>1
    <2> QED
        BY <1>2, <1>3, <1>6, <2>2 DEF OInv, TypeOK, Allocated
<1>9. \A d \in Clients : pc[d] # "idle" => heap'[pSentMsg[d]] = heap[pSentMsg[d]]
    <2> SUFFICES ASSUME NEW d \in Clients, pc[d] # "idle", pSentMsg[d] = a PROVE FALSE
        BY <1>3, SentIsMsg DEF OInv, TypeOK
    <2>1. CASE pc[d] = "send"
        <3>1. At(a, "sender", d, 0)
            BY <2>1 DEF At
        <3> QED
            BY <1>1, <3>1 DEF OInv, OnePlace
    <2>2. CASE pc[d] = "wait"
        BY <1>2, <2>2 DEF OInv, SentKnown
    <2> QED
        BY <2>1, <2>2 DEF OInv, TypeOK
<1>10. SentKnown'
    BY <1>3, <1>9 DEF OInv, SentKnown
<1>11. \A t \in Servers : \A i \in 1 .. Len(rcvMbx[t]) :
           heap'[rcvMbx[t][i]] = heap[rcvMbx[t][i]]
    <2>1. \A t \in Servers : \A i \in 1 .. Len(rcvMbx[t]) : At(rcvMbx[t][i], "rcvMbx", t, i)'
        BY <1>3 DEF At
    <2> QED
        BY <1>3, <1>6, <2>1
<1>12. Delivered'
    BY <1>3, <1>11 DEF OInv, Delivered
<1>13. Waiting'
    BY <1>3, <1>6 DEF OInv, Waiting
<1>14. LastInLine'
    <2> SUFFICES ASSUME NEW d \in Clients, pc[d] = "wait",
                        NEW t, t = heap'[pSentMsg[d]].to,
                        NEW j \in 1 .. Len(rcvMbx[t]), heap'[rcvMbx[t][j]].from = d
                 PROVE  \E i \in j .. Len(rcvMbx[t]) : rcvMbx[t][i] = pSentMsg[d]
        BY <1>3 DEF LastInLine
    <2>1. t = heap[pSentMsg[d]].to /\ t \in Servers
        BY <1>9, SentIsMsg
    <2>2. heap[rcvMbx[t][j]].from = d
        BY <1>11, <2>1
    <2> QED
        BY <2>1, <2>2 DEF OInv, LastInLine
<1> QED
    BY <1>4, <1>7, <1>8, <1>10, <1>12, <1>13, <1>14 DEF OInv

LEMMA InvariantStep == OInv /\ [Next]_vars => OInv'
<1> SUFFICES ASSUME OInv, [Next]_vars PROVE OInv'
    OBVIOUS
<1>1. CASE UNCHANGED vars
    BY <1>1 DEF vars, OInv, TypeOK, OnePlace, Allocated, At, SentKnown, Delivered,
                Waiting, LastInLine
<1>2. ASSUME NEW s \in Servers, AckOrFreeMsg(s)
      PROVE  OInv'
    BY <1>2, AckStep, FreeStep
<1> QED
    BY <1>1, <1>2, AllocStep, SendStep, RecvAckStep, WaitMsgStep
    DEF Next, ClientStep, ServerStep

\* The invariant holds in every state.
THEOREM MailboxInvariant == Spec => []OInv
<1> QED
    BY Initially, InvariantStep, PTL DEF Spec

\* Types are kept, and no mailbox gets longer than it was made.
THEOREM TypesKept == Spec => []TypeOK
<1> QED
    BY MailboxInvariant, PTL DEF OInv

-----------------------------------------------------------------------------
(* The properties, which speak of the set of places.                       *)

\* The two ways of naming places agree.
LEMMA PlacesAreAt ==
    ASSUME OInv
    PROVE  /\ \A p \in Places : \E k, x, i : p = <<k, x, i>> /\ At(AddrAt(p), k, x, i)
           /\ \A a, k, x, i : At(a, k, x, i) => /\ <<k, x, i>> \in Places
                                                /\ AddrAt(<<k, x, i>>) = a
<1>0. /\ \A s \in Servers : DOMAIN rcvMbx[s] = 1 .. Len(rcvMbx[s])
      /\ \A c \in Clients : DOMAIN ackMbx[c] = 1 .. Len(ackMbx[c])
    BY LenProperties DEF OInv, TypeOK
<1>1. \A k, x, i : /\ k = "sender" => AddrAt(<<k, x, i>>) = pSentMsg[x]
                   /\ k = "rcvMbx" => AddrAt(<<k, x, i>>) = rcvMbx[x][i]
                   /\ k = "hand" => AddrAt(<<k, x, i>>) = hand[x]
                   /\ k = "ackMbx" => AddrAt(<<k, x, i>>) = ackMbx[x][i]
    BY DEF AddrAt
<1> DEFINE Snd == {<<"sender", c, 0>> : c \in {d \in Clients : pc[d] = "send"}}
           Rcv == UNION {{<<"rcvMbx", s, i>> : i \in DOMAIN rcvMbx[s]} : s \in Servers}
           Hnd == {<<"hand", s, 0>> : s \in {t \in Servers : hand[t] # None}}
           Ack == UNION {{<<"ackMbx", c, i>> : i \in DOMAIN ackMbx[c]} : c \in Clients}
<1>2. Places = Snd \cup Rcv \cup Hnd \cup Ack
    BY DEF Places
<1>3. /\ \A p : p \in Snd <=> \E c \in Clients : pc[c] = "send" /\ p = <<"sender", c, 0>>
      /\ \A p : p \in Hnd <=> \E s \in Servers : hand[s] # None /\ p = <<"hand", s, 0>>
    OBVIOUS
<1>4. \A p : p \in Rcv <=> \E s \in Servers : \E i \in DOMAIN rcvMbx[s] : p = <<"rcvMbx", s, i>>
    OBVIOUS
<1>5. \A p : p \in Ack <=> \E c \in Clients : \E i \in DOMAIN ackMbx[c] : p = <<"ackMbx", c, i>>
    OBVIOUS
<1> HIDE DEF Snd, Rcv, Hnd, Ack
<1>6. ASSUME NEW p \in Places
      PROVE  \E k, x, i : p = <<k, x, i>> /\ At(AddrAt(p), k, x, i)
    <2>1. CASE p \in Snd
        BY <1>1, <1>3, <2>1 DEF At
    <2>2. CASE p \in Rcv
        BY <1>0, <1>1, <1>4, <2>2 DEF At
    <2>3. CASE p \in Hnd
        BY <1>1, <1>3, <2>3 DEF At
    <2>4. CASE p \in Ack
        BY <1>0, <1>1, <1>5, <2>4 DEF At
    <2> QED
        BY <1>2, <2>1, <2>2, <2>3, <2>4
<1>7. ASSUME NEW a, NEW k, NEW x, NEW i, At(a, k, x, i)
      PROVE  <<k, x, i>> \in Places /\ AddrAt(<<k, x, i>>) = a
    <2>1. AddrAt(<<k, x, i>>) = a
        BY <1>1, <1>7 DEF At
    <2>2. <<k, x, i>> \in Snd \/ <<k, x, i>> \in Rcv \/ <<k, x, i>> \in Hnd \/ <<k, x, i>> \in Ack
        BY <1>0, <1>3, <1>4, <1>5, <1>7 DEF At
    <2> QED
        BY <1>2, <2>1, <2>2
<1> QED
    BY <1>6, <1>7

\* A message that is allocated is in one place, and what is in a place is
\* allocated: none leaks and none is touched after it was freed.
THEOREM EveryMessageOwned == Spec => []Ownership
<1>1. OInv => Ownership
    <2> SUFFICES ASSUME OInv PROVE Ownership
        OBVIOUS
    <2>1. \A p, q \in Places : AddrAt(p) = AddrAt(q) => p = q
        BY PlacesAreAt DEF OInv, OnePlace
    <2>2. \A p \in Places : AddrAt(p) \in Addr /\ heap[AddrAt(p)] # None
        BY PlacesAreAt, PlacedIsMsg, NoneAssumption
    <2>3. \A a \in Addr : heap[a] # None => \E p \in Places : a = AddrAt(p)
        BY PlacesAreAt DEF OInv, Allocated
    <2> QED
        BY <2>1, <2>2, <2>3 DEF OInv, Ownership
<1> QED
    BY <1>1, MailboxInvariant, PTL

\* While a call is under way its sender waits for it, and what comes back to
\* a sender is for the message it sent last.
THEOREM SendersWait == Spec => []SenderWaits
<1>1. OInv => SenderWaits
    <2> SUFFICES ASSUME OInv PROVE SenderWaits
        OBVIOUS
    <2>1. \A c \in Clients : DOMAIN ackMbx[c] = 1 .. Len(ackMbx[c])
        BY LenProperties DEF OInv, TypeOK
    <2>2. ASSUME NEW p \in Places, heap[AddrAt(p)].wait, p[1] # "sender"
          PROVE  /\ pc[heap[AddrAt(p)].from] = "wait"
                 /\ pSentMsg[heap[AddrAt(p)].from] = AddrAt(p)
        <3>1. PICK k, x, i : p = <<k, x, i>> /\ At(AddrAt(p), k, x, i)
            BY PlacesAreAt
        <3>2. k # "sender"
            BY <2>2, <3>1
        <3> QED
            BY <2>2, <3>1, <3>2 DEF OInv, Waiting
    <2> QED
        BY <2>1, <2>2 DEF OInv, Waiting, SenderWaits
<1> QED
    BY <1>1, MailboxInvariant, PTL

\* A call is not handled before what its sender sent to the same task earlier
\* without waiting.
THEOREM CallsComeLast == Spec => []CallAfterCasts
<1>1. OInv => CallAfterCasts
    <2> SUFFICES ASSUME OInv, NEW c \in Clients, pc[c] = "wait",
                        NEW q, q = rcvMbx[heap[pSentMsg[c]].to],
                        NEW a \in ToSet(q), heap[a].from = c
                 PROVE  pSentMsg[c] \in ToSet(q)
        BY DEF CallAfterCasts
    <2>1. q \in Seq(Addr)
        BY SentIsMsg DEF OInv, TypeOK
    <2>2. DOMAIN q = 1 .. Len(q) /\ Len(q) \in Nat
        BY <2>1, LenProperties
    <2>3. ToSet(q) = {q[i] : i \in 1 .. Len(q)}
        BY <2>2 DEF ToSet
    <2>4. PICK j \in 1 .. Len(q) : a = q[j]
        BY <2>3
    <2>5. \E i \in j .. Len(q) : q[i] = pSentMsg[c]
        BY <2>4 DEF OInv, LastInLine
    <2> QED
        BY <2>2, <2>3, <2>5
<1> QED
    BY <1>1, MailboxInvariant, PTL

-----------------------------------------------------------------------------
(* The mailboxes implement remote calls.                                   *)

Req == [c \in Clients |->
           IF Calling(c) THEN [to |-> heap[pSentMsg[c]].to, cmd |-> heap[pSentMsg[c]].cmd]
           ELSE None]
Ans == [c \in Clients |->
           IF Calling(c) /\ pSentMsg[c] \in ToSet(ackMbx[c]) THEN heap[pSentMsg[c]].status
           ELSE None]

Acked ==
    \A c \in Clients :
        /\ Len(ackMbx[c]) \in Nat
        /\ Calling(c) /\ pSentMsg[c] \in ToSet(ackMbx[c]) <=> Len(ackMbx[c]) > 0

\* A call has its answer once there is something in the mailbox of its sender.
LEMMA AnsweredIsAcked == OInv => Acked
<1> SUFFICES ASSUME OInv, NEW c \in Clients
             PROVE  /\ Len(ackMbx[c]) \in Nat
                    /\ Calling(c) /\ pSentMsg[c] \in ToSet(ackMbx[c]) <=> Len(ackMbx[c]) > 0
    BY DEF Acked
<1>1. /\ Len(ackMbx[c]) \in Nat
      /\ ToSet(ackMbx[c]) = {ackMbx[c][i] : i \in 1 .. Len(ackMbx[c])}
    <2>1. ackMbx[c] \in Seq(Addr)
        BY DEF OInv, TypeOK
    <2> QED
        BY <2>1, LenProperties DEF ToSet
<1>2. ASSUME Len(ackMbx[c]) > 0
      PROVE  Calling(c) /\ pSentMsg[c] \in ToSet(ackMbx[c])
    <2>1. 1 \in 1 .. Len(ackMbx[c])
        BY <1>1, <1>2
    <2>2. pc[c] = "wait" /\ ackMbx[c][1] = pSentMsg[c]
        BY <2>1, AckedWaits
    <2> QED
        BY <1>1, <2>1, <2>2 DEF Calling, OInv, SentKnown
<1> QED
    BY <1>1, <1>2

LEMMA AnsweredNext == OInv' => Acked'
BY AnsweredIsAcked, PTL

\* When nothing of what a call is made of changes, neither does the call.
LEMMA CallKept ==
    ASSUME OInv, OInv', NEW c \in Clients,
           Calling(c)' <=> Calling(c),
           Len(ackMbx'[c]) = Len(ackMbx[c]),
           Calling(c) => /\ heap'[pSentMsg'[c]].to = heap[pSentMsg[c]].to
                         /\ heap'[pSentMsg'[c]].cmd = heap[pSentMsg[c]].cmd
                         /\ Len(ackMbx[c]) > 0 => heap'[pSentMsg'[c]].status
                                                      = heap[pSentMsg[c]].status
    PROVE  Req'[c] = Req[c] /\ Ans'[c] = Ans[c]
BY AnsweredIsAcked, AnsweredNext DEF Acked, Req, Ans

\* One call changes, the others do not.
LEMMA OneChanges ==
    ASSUME NEW c \in Clients, \A d \in Clients \ {c} : Req'[d] = Req[d] /\ Ans'[d] = Ans[d]
    PROVE  /\ Req' = [Req EXCEPT ![c] = Req'[c]]
           /\ Ans' = [Ans EXCEPT ![c] = Ans'[c]]
<1>1. Req = [d \in Clients |-> Req[d]] /\ Req' = [d \in Clients |-> Req'[d]]
    BY DEF Req
<1>2. Ans = [d \in Clients |-> Ans[d]] /\ Ans' = [d \in Clients |-> Ans'[d]]
    BY DEF Ans
<1> QED
    BY <1>1, <1>2, Zenon

LEMMA NoneChanges ==
    ASSUME \A d \in Clients : Req'[d] = Req[d] /\ Ans'[d] = Ans[d]
    PROVE  Req' = Req /\ Ans' = Ans
<1>1. Req = [d \in Clients |-> Req[d]] /\ Req' = [d \in Clients |-> Req'[d]]
    BY DEF Req
<1>2. Ans = [d \in Clients |-> Ans[d]] /\ Ans' = [d \in Clients |-> Ans'[d]]
    BY DEF Ans
<1> QED
    BY <1>1, <1>2

AskStep(c) ==
    /\ Req[c] = None
    /\ \E r \in Call!Request : Req' = [Req EXCEPT ![c] = r]
    /\ Ans' = Ans
ServeStep(c) ==
    /\ Req[c] # None /\ Ans[c] = None
    /\ \E st \in Status : Ans' = [Ans EXCEPT ![c] = st]
    /\ Req' = Req
ReturnStep(c) ==
    /\ Ans[c] # None
    /\ Req' = [Req EXCEPT ![c] = None]
    /\ Ans' = [Ans EXCEPT ![c] = None]
Stutter == Req' = Req /\ Ans' = Ans

\* Allocating the message of a call is asking, of a cast nothing.
LEMMA AllocAsks ==
    ASSUME OInv, OInv', NEW c \in Clients, Alloc(c)
    PROVE  AskStep(c) \/ Stutter
<1>1. PICK a \in Addr, s \in Servers, cmd \in Cmds, wait \in BOOLEAN :
          /\ heap[a] = None
          /\ heap' = [heap EXCEPT ![a] = [from |-> c, to |-> s, cmd |-> cmd,
                                          wait |-> wait, status |-> "SOK"]]
          /\ pSentMsg' = [pSentMsg EXCEPT ![c] = a]
    BY DEF Alloc
<1>2. pc[c] = "idle" /\ ackMbx' = ackMbx
    BY DEF Alloc
<1>3. /\ pSentMsg[c] = None /\ pSentMsg'[c] = a /\ a # None
      /\ heap'[a] = [from |-> c, to |-> s, cmd |-> cmd, wait |-> wait, status |-> "SOK"]
      /\ ~ Calling(c) /\ (Calling(c)' <=> wait)
    BY <1>1, <1>2, NoneAssumption DEF OInv, TypeOK, SentKnown, Calling
<1>4. \A d \in Clients \ {c} : Req'[d] = Req[d] /\ Ans'[d] = Ans[d]
    <2> SUFFICES ASSUME NEW d \in Clients \ {c}
                 PROVE  Req'[d] = Req[d] /\ Ans'[d] = Ans[d]
        OBVIOUS
    <2>1. /\ pSentMsg'[d] = pSentMsg[d]
          /\ pSentMsg[d] # None => heap'[pSentMsg[d]] = heap[pSentMsg[d]]
        BY <1>1, SentIsMsg DEF OInv, TypeOK, SentKnown
    <2>2. Calling(d)' <=> Calling(d)
        BY <2>1 DEF Calling
    <2> QED
        BY <1>2, <2>1, <2>2, CallKept DEF Calling
<1>5. CASE wait
    <2>1. /\ Req[c] = None /\ Req'[c] = [to |-> s, cmd |-> cmd]
          /\ [to |-> s, cmd |-> cmd] \in Call!Request
        BY <1>3, <1>5 DEF Req, Call!Request
    <2>2. Len(ackMbx[c]) = 0
        BY <1>2, <1>3, AnsweredIsAcked DEF Acked
    <2>3. Ans[c] = None /\ Ans'[c] = None
        BY <1>2, <1>3, <2>2, AnsweredIsAcked, AnsweredNext DEF Acked, Ans
    <2>4. Ans' = Ans
        BY <1>4, <2>3, NoneChanges DEF Ans
    <2> QED
        BY <1>4, <2>1, <2>4, OneChanges DEF AskStep
<1>6. CASE ~ wait
    <2>1. Req'[c] = Req[c] /\ Ans'[c] = Ans[c]
        BY <1>3, <1>6 DEF Req, Ans
    <2> QED
        BY <1>4, <2>1, NoneChanges DEF Stutter
<1> QED
    BY <1>5, <1>6

\* Queueing a message and taking it in hand is neither.
LEMMA SendStutters ==
    ASSUME OInv, OInv', NEW c \in Clients, Send(c)
    PROVE  Stutter
<1>1. /\ pc[c] = "send"
      /\ pSentMsg' = [pSentMsg EXCEPT ![c] = IF heap[pSentMsg[c]].wait THEN pSentMsg[c] ELSE None]
      /\ heap' = heap /\ ackMbx' = ackMbx
    BY DEF Send
<1>2. \A d \in Clients : (Calling(d)' <=> Calling(d)) /\ (Calling(d) => pSentMsg'[d] = pSentMsg[d])
    BY <1>1 DEF OInv, TypeOK, Calling
<1>3. \A d \in Clients : Req'[d] = Req[d] /\ Ans'[d] = Ans[d]
    BY <1>1, <1>2, CallKept
<1> QED
    BY <1>3, NoneChanges DEF Stutter

LEMMA WaitMsgStutters ==
    ASSUME NEW s \in Servers, WaitMsg(s)
    PROVE  Stutter
BY DEF WaitMsg, Stutter, Req, Ans, Calling

\* Taking the acknowledgement is returning.
LEMMA RecvAckReturns ==
    ASSUME OInv, OInv', NEW c \in Clients, RecvAck(c)
    PROVE  ReturnStep(c)
<1>0. PICK a : a = pSentMsg[c]
    OBVIOUS
<1>1. ackMbx[c] \in Seq(Addr) /\ Len(ackMbx[c]) \in Nat \ {0} /\ Head(ackMbx[c]) = ackMbx[c][1]
    BY Taken DEF RecvAck, OInv, TypeOK
<1>2. /\ Head(ackMbx[c]) = a /\ a \in Addr /\ heap[a] \in Msg /\ heap[a].from = c
    BY <1>0, <1>1, AckedWaits, SentIsMsg
<1>3. /\ heap' = [heap EXCEPT ![a] = None]
      /\ pSentMsg' = [pSentMsg EXCEPT ![c] = None]
      /\ \A d \in Clients \ {c} : ackMbx'[d] = ackMbx[d]
    BY <1>0, <1>2 DEF RecvAck, OInv, TypeOK
<1>4. Ans[c] # None
    BY <1>0, <1>1, <1>2, AnsweredIsAcked, MsgFields, NoneAssumption DEF Acked, Ans
<1>5. Req'[c] = None /\ Ans'[c] = None
    BY <1>3 DEF Req, Ans, Calling, OInv, TypeOK
<1>6. \A d \in Clients \ {c} : Req'[d] = Req[d] /\ Ans'[d] = Ans[d]
    <2> SUFFICES ASSUME NEW d \in Clients \ {c}
                 PROVE  Req'[d] = Req[d] /\ Ans'[d] = Ans[d]
        OBVIOUS
    <2>1. /\ pSentMsg'[d] = pSentMsg[d]
          /\ pSentMsg[d] # None => heap'[pSentMsg[d]] = heap[pSentMsg[d]]
        BY <1>2, <1>3, SentIsMsg DEF OInv, TypeOK, SentKnown
    <2>2. Calling(d)' <=> Calling(d)
        BY <2>1 DEF Calling
    <2> QED
        BY <1>3, <2>1, <2>2, CallKept DEF Calling
<1> QED
    BY <1>4, <1>5, <1>6, OneChanges DEF ReturnStep

\* Answering is serving the call of the message in hand,
LEMMA AckServes ==
    ASSUME OInv, OInv', NEW s \in Servers, AckOrFreeMsg(s), heap[hand[s]].wait
    PROVE  \E c \in Clients : ServeStep(c)
<1>0. PICK a, c : a = hand[s] /\ c = heap[a].from
    OBVIOUS
<1>1. At(a, "hand", s, 0)
    BY <1>0 DEF At, AckOrFreeMsg
<1>2. a \in Addr /\ heap[a] \in Msg /\ heap[a] # None /\ c \in Clients /\ heap[a].wait
    BY <1>0, <1>1, PlacedIsMsg, MsgFields
<1>3. pc[c] = "wait" /\ pSentMsg[c] = a /\ Calling(c)
    BY <1>0, <1>1, <1>2, NoneAssumption DEF OInv, Waiting, Calling
<1>4. PICK st \in Status : heap' = [heap EXCEPT ![a].status = st]
    BY <1>0, <1>2 DEF AckOrFreeMsg
<1>5. /\ ackMbx' = [ackMbx EXCEPT ![c] = Append(@, a)]
      /\ pSentMsg' = pSentMsg
    BY <1>0, <1>2 DEF AckOrFreeMsg
<1>6. /\ heap'[a].status = st /\ heap'[a].to = heap[a].to /\ heap'[a].cmd = heap[a].cmd
      /\ heap'[a].wait = heap[a].wait
      /\ \A b \in Addr \ {a} : heap'[b] = heap[b]
    <2>1. heap'[a] = [heap[a] EXCEPT !.status = st] /\ \A b \in Addr \ {a} : heap'[b] = heap[b]
        BY <1>2, <1>4 DEF OInv, TypeOK
    <2>2. PICK m \in Msg : m = heap[a]
        BY <1>2
    <2>3. /\ heap'[a] = [m EXCEPT !.status = st]
          /\ [m EXCEPT !.status = st].to = m.to /\ [m EXCEPT !.status = st].cmd = m.cmd
          /\ [m EXCEPT !.status = st].wait = m.wait /\ [m EXCEPT !.status = st].status = st
        BY <2>1, <2>2, MsgFields
    <2> QED
        BY <2>1, <2>2, <2>3
<1>7. Len(ackMbx[c]) = 0
    <2>1. Len(ackMbx[c]) > 0 => 1 \in 1 .. Len(ackMbx[c])
        BY <1>2, AnsweredIsAcked DEF Acked
    <2>2. 1 \in 1 .. Len(ackMbx[c]) => ackMbx[c][1] = a
        BY <1>2, <1>3, AckedWaits
    <2>3. 1 \in 1 .. Len(ackMbx[c]) => At(a, "ackMbx", c, 1)
        BY <1>2, <2>2 DEF At
    <2> QED
        BY <1>1, <1>2, <2>1, <2>3, AnsweredIsAcked DEF OInv, OnePlace, Acked
<1>8. /\ Len(ackMbx'[c]) > 0
      /\ \A d \in Clients \ {c} : ackMbx'[d] = ackMbx[d]
    <2>1. ackMbx[c] \in Seq(Addr) /\ ackMbx'[c] = Append(ackMbx[c], a)
        BY <1>2, <1>5 DEF OInv, TypeOK
    <2> QED
        BY <1>2, <1>5, <1>7, <2>1, Appended DEF OInv, TypeOK
<1>9. Req[c] # None /\ Ans[c] = None
    <2>1. [to |-> heap[a].to, cmd |-> heap[a].cmd] \in [to : Servers, cmd : Cmds]
        BY <1>2, MsgFields
    <2> QED
        BY <1>2, <1>3, <1>7, <2>1, AnsweredIsAcked, NoneAssumption DEF Acked, Req, Ans
<1>10. Calling(c)'
    BY <1>2, <1>3, <1>5, <1>6, NoneAssumption DEF Calling
<1>11. Req'[c] = Req[c] /\ Ans'[c] = st
    BY <1>2, <1>3, <1>5, <1>6, <1>8, <1>10, AnsweredNext DEF Acked, Req, Ans
<1>12. \A d \in Clients \ {c} : Req'[d] = Req[d] /\ Ans'[d] = Ans[d]
    <2> SUFFICES ASSUME NEW d \in Clients \ {c}
                 PROVE  Req'[d] = Req[d] /\ Ans'[d] = Ans[d]
        OBVIOUS
    <2>1. pSentMsg[d] # None => heap'[pSentMsg[d]] = heap[pSentMsg[d]]
        BY <1>0, <1>6, SentIsMsg DEF OInv, TypeOK, SentKnown
    <2>2. Calling(d)' <=> Calling(d)
        BY <1>5, <2>1 DEF Calling
    <2> QED
        BY <1>5, <1>8, <2>1, <2>2, CallKept DEF Calling
<1>13. Req' = Req
    BY <1>2, <1>11, <1>12 DEF Req
<1>14. Ans' = [Ans EXCEPT ![c] = st]
    BY <1>2, <1>11, <1>12, OneChanges
<1> QED
    BY <1>2, <1>9, <1>13, <1>14 DEF ServeStep

\* freeing a message that nobody waits for is nothing.
LEMMA FreeStutters ==
    ASSUME OInv, OInv', NEW s \in Servers, AckOrFreeMsg(s), ~ heap[hand[s]].wait
    PROVE  Stutter
<1>0. PICK a : a = hand[s]
    OBVIOUS
<1>1. At(a, "hand", s, 0)
    BY <1>0 DEF At, AckOrFreeMsg
<1>2. a \in Addr /\ heap[a] \in Msg /\ heap[a] # None /\ ~ heap[a].wait
    BY <1>0, <1>1, PlacedIsMsg, MsgFields
<1>3. heap' = [heap EXCEPT ![a] = None] /\ ackMbx' = ackMbx /\ pSentMsg' = pSentMsg
    BY <1>0, <1>2 DEF AckOrFreeMsg
<1>4. \A d \in Clients : pSentMsg[d] # None => pSentMsg[d] # a
    <2> SUFFICES ASSUME NEW d \in Clients, pSentMsg[d] = a PROVE FALSE
        OBVIOUS
    <2>1. pc[d] = "send"
        <3>1. pSentMsg[d] # None
            BY <1>2, NoneAssumption
        <3>2. pc[d] # "idle" /\ pc[d] # "wait"
            BY <1>2, <3>1 DEF OInv, SentKnown
        <3> QED
            BY <3>2 DEF OInv, TypeOK
    <2>2. At(a, "sender", d, 0)
        BY <2>1 DEF At
    <2> QED
        BY <1>1, <2>2 DEF OInv, OnePlace
<1>5. \A d \in Clients : pSentMsg[d] # None => heap'[pSentMsg[d]] = heap[pSentMsg[d]]
    BY <1>3, <1>4 DEF OInv, TypeOK
<1>6. \A d \in Clients : Req'[d] = Req[d] /\ Ans'[d] = Ans[d]
    BY <1>3, <1>5, CallKept DEF Calling
<1> QED
    BY <1>6, NoneChanges DEF Stutter

\* Waiting for the acknowledgement amounts to a remote call, which returns
\* with the status of this very command, once.
THEOREM MailboxesAreCalls == Spec => IsRemoteCall
<1>1. Init => Call!Init
    BY DEF Init, Call!Init, Calling
<1>2. OInv /\ OInv' /\ [Next]_vars =>
          Stutter \/ \E c \in Clients : AskStep(c) \/ ServeStep(c) \/ ReturnStep(c)
    <2> SUFFICES ASSUME OInv, OInv', [Next]_vars
                 PROVE  Stutter \/ \E c \in Clients : AskStep(c) \/ ServeStep(c) \/ ReturnStep(c)
        OBVIOUS
    <2>1. CASE UNCHANGED vars
        BY <2>1 DEF vars, Stutter, Req, Ans, Calling
    <2> QED
        BY <2>1, AllocAsks, SendStutters, RecvAckReturns, WaitMsgStutters, AckServes, FreeStutters
        DEF Next, ClientStep, ServerStep
<1>3. Stutter \/ (\E c \in Clients : AskStep(c) \/ ServeStep(c) \/ ReturnStep(c))
          => [Call!Next]_<<Req, Ans>>
    BY DEF Stutter, AskStep, ServeStep, ReturnStep, Call!Next, Call!Ask, Call!Serve,
           Call!Return, Req, Ans
<1> QED
    BY <1>1, <1>2, <1>3, MailboxInvariant, PTL DEF Spec, IsRemoteCall, Call!Spec, Req, Ans
=============================================================================
