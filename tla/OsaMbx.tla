------------------------------- MODULE OsaMbx -------------------------------
(***************************************************************************)
(* The mailboxes through which the tasks of the pipeline command each      *)
(* other (osa_mbx.c on osa_msgq.c and osa_tsk.c).  A message is allocated  *)
(* by its sender and travels as a pointer.  With OSA_MBX_WAIT_ACK it comes *)
(* back to the mailbox of acknowledgements of the sender, which frees it;  *)
(* without, whoever received it frees it.  Nothing but the address of a    *)
(* message tells whose acknowledgement has come, and the allocator is free *)
(* to give an address out again at once.                                   *)
(*                                                                         *)
(* A client sends one message at a time and has an acknowledgement mailbox *)
(* of its own, as each <TASK>_sendCmd with its gX_ctrl.mbxHndl; a server   *)
(* is a task in its loop of OSA_tskWaitMsg.  OsaQue is about the wake-ups  *)
(* inside a queue: here each is a bounded sequence.                        *)
(***************************************************************************)
EXTENDS Integers, SequencesExt

CONSTANTS
    Clients, Servers, Cmds,
    Addr,       \* the addresses OSA_memAlloc may return
    QueLen,     \* OSA_MSGQ_LEN_MAX
    None

ASSUME QueLenAssumption == QueLen \in Nat \ {0}

Status == {"SOK", "EFAIL"}
Msg == [from : Clients, to : Servers, cmd : Cmds, wait : BOOLEAN, status : Status]

ASSUME NoneAssumption ==
    /\ None \notin Addr \cup Status
    /\ None \notin Msg /\ None \notin [to : Servers, cmd : Cmds]

VARIABLES
    heap,       \* heap[a]: the OSA_MsgHndl at a, None if a is free
    rcvMbx,     \* rcvMbx[s], ackMbx[c]: the queued pointers
    ackMbx,
    hand,       \* hand[s]: the message s is handling
    pSentMsg,   \* pSentMsg[c]: the message c sent last, while it is in
                \* OSA_mbxSendMsg
    pc,         \* where c is: "idle", "send" before it is queued, "wait"
    fault       \* was a message touched after it was freed?

vars == <<heap, rcvMbx, ackMbx, hand, pSentMsg, pc, fault>>

-----------------------------------------------------------------------------

Init ==
    /\ heap = [a \in Addr |-> None]
    /\ rcvMbx = [s \in Servers |-> <<>>]
    /\ ackMbx = [c \in Clients |-> <<>>]
    /\ hand = [s \in Servers |-> None]
    /\ pSentMsg = [c \in Clients |-> None]
    /\ pc = [c \in Clients |-> "idle"]
    /\ fault = FALSE

\* OSA_mbxSendMsg, up to the queue: the message is allocated and filled in.
Alloc(c) ==
    /\ pc[c] = "idle"
    /\ \E a \in Addr, s \in Servers, cmd \in Cmds, wait \in BOOLEAN :
          /\ heap[a] = None
          /\ heap' = [heap EXCEPT ![a] = [from |-> c, to |-> s, cmd |-> cmd,
                                          wait |-> wait, status |-> "SOK"]]
          /\ pSentMsg' = [pSentMsg EXCEPT ![c] = a]
    /\ pc' = [pc EXCEPT ![c] = "send"]
    /\ UNCHANGED <<rcvMbx, ackMbx, hand, fault>>

Send_NeverFull(c) ==
    /\ pc[c] = "send"
    /\ LET a == pSentMsg[c]
           m == heap[a]
       IN  /\ rcvMbx' = [rcvMbx EXCEPT ![m.to] = Append(@, a)]
           /\ pc' = [pc EXCEPT ![c] = IF m.wait THEN "wait" ELSE "idle"]
           /\ pSentMsg' = [pSentMsg EXCEPT ![c] = IF m.wait THEN a ELSE None]
    /\ UNCHANGED <<heap, ackMbx, hand, fault>>

Send_WithoutWaiting(c) ==
    /\ pc[c] = "send"
    /\ LET a == pSentMsg[c]
       IN  /\ Len(rcvMbx[heap[a].to]) < QueLen
           /\ rcvMbx' = [rcvMbx EXCEPT ![heap[a].to] = Append(@, a)]
    /\ pc' = [pc EXCEPT ![c] = "idle"]
    /\ pSentMsg' = [pSentMsg EXCEPT ![c] = None]
    /\ UNCHANGED <<heap, ackMbx, hand, fault>>

\* OSA_msgqSend.  Whoever does not wait returns with the message queued, and
\* does not look at it again.
Send(c) ==
    /\ pc[c] = "send"
    /\ LET a == pSentMsg[c]
           m == heap[a]
       IN  /\ Len(rcvMbx[m.to]) < QueLen
           /\ rcvMbx' = [rcvMbx EXCEPT ![m.to] = Append(@, a)]
           /\ pc' = [pc EXCEPT ![c] = IF m.wait THEN "wait" ELSE "idle"]
           /\ pSentMsg' = [pSentMsg EXCEPT ![c] = IF m.wait THEN a ELSE None]
    /\ UNCHANGED <<heap, ackMbx, hand, fault>>

RecvAck_NotFreed(c) ==
    /\ pc[c] = "wait"
    /\ ackMbx[c] # <<>>
    /\ LET a == Head(ackMbx[c])
       IN  /\ fault' = (heap[a] = None)
           /\ pc' = [pc EXCEPT ![c] = IF a = pSentMsg[c] THEN "idle" ELSE "wait"]
           /\ pSentMsg' = [pSentMsg EXCEPT ![c] = IF a = pSentMsg[c] THEN None ELSE @]
    /\ ackMbx' = [ackMbx EXCEPT ![c] = Tail(@)]
    /\ UNCHANGED <<heap, rcvMbx, hand>>

\* One turn of the loop that waits for the acknowledgement: what has come is
\* freed, and it is the end of the wait if it is what was sent.
RecvAck(c) ==
    /\ pc[c] = "wait"
    /\ ackMbx[c] # <<>>
    /\ LET a == Head(ackMbx[c])
       IN  /\ fault' = (heap[a] = None)
           /\ heap' = [heap EXCEPT ![a] = None]
           /\ pc' = [pc EXCEPT ![c] = IF a = pSentMsg[c] THEN "idle" ELSE "wait"]
           /\ pSentMsg' = [pSentMsg EXCEPT ![c] = IF a = pSentMsg[c] THEN None ELSE @]
    /\ ackMbx' = [ackMbx EXCEPT ![c] = Tail(@)]
    /\ UNCHANGED <<rcvMbx, hand>>

WaitMsg_LastFirst(s) ==
    /\ hand[s] = None
    /\ rcvMbx[s] # <<>>
    /\ hand' = [hand EXCEPT ![s] = Last(rcvMbx[s])]
    /\ rcvMbx' = [rcvMbx EXCEPT ![s] = Front(@)]
    /\ UNCHANGED <<heap, ackMbx, pSentMsg, pc, fault>>

\* OSA_tskWaitMsg, or OSA_tskCheckMsg that finds a message.
WaitMsg(s) ==
    /\ hand[s] = None
    /\ rcvMbx[s] # <<>>
    /\ hand' = [hand EXCEPT ![s] = Head(rcvMbx[s])]
    /\ rcvMbx' = [rcvMbx EXCEPT ![s] = Tail(@)]
    /\ UNCHANGED <<heap, ackMbx, pSentMsg, pc, fault>>

AckOrFreeMsg_FlagIgnored(s) ==
    /\ hand[s] # None
    /\ fault' = (heap[hand[s]] = None)
    /\ heap' = [heap EXCEPT ![hand[s]] = None]
    /\ hand' = [hand EXCEPT ![s] = None]
    /\ UNCHANGED <<rcvMbx, ackMbx, pSentMsg, pc>>

\* OSA_tskAckOrFreeMsg(pMsg, status), with any status the command ended in.
AckOrFreeMsg(s) ==
    /\ hand[s] # None
    /\ LET a == hand[s]
           m == heap[a]
       IN  /\ fault' = (m = None)
           /\ IF m # None /\ m.wait
              THEN /\ Len(ackMbx[m.from]) < QueLen
                   /\ \E st \in Status : heap' = [heap EXCEPT ![a].status = st]
                   /\ ackMbx' = [ackMbx EXCEPT ![m.from] = Append(@, a)]
              ELSE heap' = [heap EXCEPT ![a] = None] /\ UNCHANGED ackMbx
    /\ hand' = [hand EXCEPT ![s] = None]
    /\ UNCHANGED <<rcvMbx, pSentMsg, pc>>

-----------------------------------------------------------------------------

ClientStep(c) == Send(c) \/ RecvAck(c)
ServerStep(s) == WaitMsg(s) \/ AckOrFreeMsg(s)

\* After a fault anything may happen, so nothing is said of it.
Next ==
    /\ ~ fault
    /\ \/ \E c \in Clients : Alloc(c) \/ ClientStep(c)
       \/ \E s \in Servers : ServerStep(s)

Spec == Init /\ [][Next]_vars

\* A task comes back to its mailbox and answers, and a client takes the
\* answer.  Nothing makes a client send.
FairSpec ==
    /\ Spec
    /\ \A c \in Clients : WF_vars(~ fault /\ RecvAck(c))
    /\ \A s \in Servers : WF_vars(~ fault /\ ServerStep(s))

-----------------------------------------------------------------------------

TypeOK ==
    /\ heap \in [Addr -> Msg \cup {None}]
    /\ rcvMbx \in [Servers -> Seq(Addr)] /\ ackMbx \in [Clients -> Seq(Addr)]
    /\ \A s \in Servers : Len(rcvMbx[s]) <= QueLen
    /\ \A c \in Clients : Len(ackMbx[c]) <= QueLen
    /\ hand \in [Servers -> Addr \cup {None}]
    /\ pSentMsg \in [Clients -> Addr \cup {None}]
    /\ pc \in [Clients -> {"idle", "send", "wait"}]
    /\ fault \in BOOLEAN

\* Where a message can be: with the sender that is about to queue it, in a
\* receive mailbox, with a handler, in a mailbox of acknowledgements.
Places ==
    {<<"sender", c, 0>> : c \in {d \in Clients : pc[d] = "send"}}
    \cup (UNION {{<<"rcvMbx", s, i>> : i \in DOMAIN rcvMbx[s]} : s \in Servers})
    \cup {<<"hand", s, 0>> : s \in {t \in Servers : hand[t] # None}}
    \cup (UNION {{<<"ackMbx", c, i>> : i \in DOMAIN ackMbx[c]} : c \in Clients})

AddrAt(p) ==
    CASE p[1] = "sender" -> pSentMsg[p[2]]
      [] p[1] = "rcvMbx" -> rcvMbx[p[2]][p[3]]
      [] p[1] = "hand"   -> hand[p[2]]
      [] p[1] = "ackMbx" -> ackMbx[p[2]][p[3]]

\* A message that is allocated is in one place, and what is in a place is
\* allocated: none leaks, none is freed while somebody will still look at it,
\* and none is freed twice.
Ownership ==
    /\ ~ fault
    /\ \A p, q \in Places : AddrAt(p) = AddrAt(q) => p = q
    /\ {AddrAt(p) : p \in Places} = {a \in Addr : heap[a] # None}

\* While a message that is to be acknowledged is on its way or handled, its
\* sender waits for it: its parameters, which MCVIP_start and VIDEO_swosdRun
\* keep on their stacks, are there.  What a client finds in its mailbox of
\* acknowledgements is for the message it sent last, never for an old one,
\* so that an address is never taken for that of an earlier message.
SenderWaits ==
    /\ \A p \in Places :
          LET m == heap[AddrAt(p)]
          IN  m.wait /\ p[1] # "sender"
                  => pc[m.from] = "wait" /\ pSentMsg[m.from] = AddrAt(p)
    /\ \A c \in Clients : \A i \in DOMAIN ackMbx[c] : ackMbx[c][i] = pSentMsg[c]

\* A command is not handled before what its sender sent to the same task
\* earlier without waiting: DELETE does not overtake RUN.
CallAfterCasts ==
    \A c \in Clients :
        pc[c] = "wait" =>
            LET rcv == ToSet(rcvMbx[heap[pSentMsg[c]].to])
            IN  pSentMsg[c] \in rcv \/ \A a \in rcv : heap[a].from # c

\* Whoever waits for an acknowledgement gets it.
CallsReturn == \A c \in Clients : pc[c] = "wait" ~> pc[c] = "idle"

\* Waiting for the acknowledgement amounts to a remote call.
Calling(c) == pSentMsg[c] # None /\ heap[pSentMsg[c]].wait

Call == INSTANCE RemoteCall WITH
    req <- [c \in Clients |->
               IF Calling(c)
               THEN [to |-> heap[pSentMsg[c]].to, cmd |-> heap[pSentMsg[c]].cmd]
               ELSE None],
    ans <- [c \in Clients |->
               IF Calling(c) /\ pSentMsg[c] \in ToSet(ackMbx[c])
               THEN heap[pSentMsg[c]].status
               ELSE None]

IsRemoteCall == Call!Spec
=============================================================================
