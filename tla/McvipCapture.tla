---------------------------- MODULE McvipCapture ----------------------------
(***************************************************************************)
(* The front of the DVR pipeline, from CAPTURE_start to CAPTURE_delete:    *)
(*                                                                         *)
(*   the main thread     UI_sysStart / UI_sysStop, which command           *)
(*   the capture task    CAPTURE_tskMain, which takes filled buffers, and  *)
(*                       commands                                          *)
(*   the MCVIP task      MCVIP_tskMain, which demultiplexes the camera     *)
(*                       bus into one buffer per channel.                  *)
(*                                                                         *)
(* The two tasks share one queue of full buffers and one queue of empty    *)
(* buffers per channel, all with blocking puts and gets.  A command is a   *)
(* mailbox message whose sender waits for the acknowledgement, so each     *)
(* mailbox holds one command at most; OsaMbx is about the mailbox itself.  *)
(*                                                                         *)
(* Before it gives a buffer back, the capture task has a copy of the frame *)
(* pass the OSD task and the mailbox of the encode task; it may wait for   *)
(* each of them, and the encode task for the network in turn.              *)
(*                                                                         *)
(* MCVIP_stop ends the demultiplexer, which may be asleep on an empty      *)
(* queue, by putting the value 0xFF, Poison here, in every empty queue;    *)
(* the MCVIP task in turn leaves one in the full queue when it goes.       *)
(***************************************************************************)
EXTENDS Integers, SequencesExt, FiniteSets

CONSTANTS
    NumCh,          \* MCVIP_getNumCh(videoDecoderMode)
    BufPerCh,       \* MCVIP_BUF_PER_CH_MIN: buffers for each channel
    MissedFrames    \* may the camera lose more than five frames between two
                    \* looks at hndl->missedFrameCount?

ASSUME NumChAssumption == NumCh \in Nat \ {0}
ASSUME BufPerChAssumption == BufPerCh \in Nat \ {0, 1}
ASSUME MissedFramesAssumption == MissedFrames \in BOOLEAN

MCVIP_BUF_MAX == 36      \* MCVIP_CHANNELS_MAX * MCVIP_BUF_PER_CH_MIN

NumBuf   == NumCh * BufPerCh
Buffers  == 0 .. NumBuf - 1
Channels == 0 .. NumCh - 1
Poison   == 255
NoBuf    == -1

\* MCVIP_tskCreate refuses more, so Poison is never a buffer.
ASSUME NumBufAssumption == NumBuf <= MCVIP_BUF_MAX

FullQueLen  == NumBuf     \* createPrm.numBuf, for the queue of full buffers

\* numBufPerCh, for each queue of empty ones.
EmptyQueLen_MissingOne == BufPerCh - 1
EmptyQueLen == BufPerCh

VARIABLES
    emptyQue,   \* emptyQue[ch]: buffers the demultiplexer may take for ch
    fullQue,    \* filled buffers, for the capture task
    curBufId,   \* curBufId[ch]: the buffer ch is being written to
    bufCh,      \* bufInfo[id].chId, -1 before the buffer is first used
    mPc, mMbx, mAck, \* MCVIP task: place, command, answer to the last one
    mRun,       \* the message that ended its run; "START" if none did
    tmpDemuxQue, \* buffers filled in this run of the demultiplexer
    seen,       \* channels that completed a frame in this run
    want,       \* the channel that waits for an empty buffer
    streaming,  \* is the camera interface on?
    cPc, cMbx,  \* capture task: place, command
    cRun, cMain, \* the messages pMsg points to in CAPTURE_tskStartRun and in
                \* CAPTURE_tskMain
    cLive,      \* messages it received and has not acknowledged
    cBuf,       \* the buffer it is processing
    poked,      \* channels whose empty queue it has put Poison in
    uPc, uAck,  \* main thread: place, answer to its last command
    memory,     \* are the capture buffers still allocated?
    fault       \* was a freed message acknowledged, or a buffer used that
                \* is none?

queues == <<emptyQue, fullQue, curBufId, bufCh>>
mcvip  == <<mPc, mRun, tmpDemuxQue, seen, want, streaming>>
cap    == <<cPc, cRun, cMain, cLive, cBuf, poked>>
ui     == <<uPc, memory, fault>>
vars   == <<queues, mcvip, mMbx, mAck, cap, cMbx, ui, uAck>>

-----------------------------------------------------------------------------

\* MCVIP_tskCreate deals the buffers out to the channels in turn, and
\* MCVIP_demuxInit takes the first of each.
Init ==
    /\ emptyQue = [ch \in Channels |->
                      [i \in 1 .. BufPerCh - 1 |-> ch * BufPerCh + i]]
    /\ fullQue = <<>>
    /\ curBufId = [ch \in Channels |-> ch * BufPerCh]
    /\ bufCh = [b \in Buffers |->
                   IF b % BufPerCh = 0 THEN b \div BufPerCh ELSE -1]
    /\ mPc = "main" /\ mMbx = "none" /\ mAck = "none" /\ mRun = "START"
    /\ tmpDemuxQue = <<>> /\ seen = {} /\ want = 0 /\ streaming = FALSE
    /\ cPc = "main" /\ cMbx = "none" /\ cRun = "none" /\ cMain = "none"
    /\ cLive = {} /\ cBuf = NoBuf /\ poked = 0
    /\ uPc = "created" /\ uAck = "none" /\ memory = TRUE /\ fault = FALSE

-----------------------------------------------------------------------------
(* The main thread *)

\* The commands of UI_sysStart and UI_sysStop, each of which waits for its
\* answer: started and then stopped, deleted unstarted because a later stage
\* could not be created, or deleted because it could not start.
UiSend(cmd, next) ==
    /\ cMbx' = cmd
    /\ uPc' = next
    /\ UNCHANGED <<queues, mcvip, mMbx, mAck, cap, uAck, memory, fault>>

UiStart       == uPc = "created" /\ UiSend("START", "starting")
UiGiveUp      == uPc = "created" /\ UiSend("DELETE", "deleting")
UiStop        == uPc = "running" /\ UiSend("STOP", "stopping")
UiDelete      == uPc \in {"startFailed", "stopped"}
                     /\ UiSend("DELETE", "deleting")

UiAnswered ==
    /\ uAck # "none"
    /\ uAck' = "none"
    /\ uPc' = CASE uPc = "starting" /\ uAck = "SOK" -> "running"
                [] uPc = "starting" /\ uAck # "SOK" -> "startFailed"
                [] uPc = "stopping" -> "stopped"
                [] uPc = "deleting" -> "deleted"
    /\ UNCHANGED <<queues, mcvip, mMbx, mAck, cap, cMbx, memory, fault>>

-----------------------------------------------------------------------------
(* The MCVIP task *)

\* MCVIP_CMD_START: the camera interface starts, or it does not.
MStart ==
    /\ mPc = "main" /\ mMbx = "START"
    /\ mMbx' = "none"
    /\ \E st \in {"SOK", "EFAIL"} :
          /\ mAck' = st
          /\ streaming' = (st = "SOK")
          /\ mPc' = IF st = "SOK" THEN "grab" ELSE "main"
    /\ mRun' = "START"
    /\ UNCHANGED <<queues, tmpDemuxQue, seen, want, cap, cMbx, ui, uAck>>

\* MCVIP_CMD_STOP for a task that does not run any more is only answered.
MStopIdle ==
    /\ mPc = "main" /\ mMbx = "STOP"
    /\ mMbx' = "none" /\ mAck' = "SOK"
    /\ UNCHANGED <<queues, mcvip, cap, cMbx, ui, uAck>>

MDelete ==
    /\ mPc = "main" /\ mMbx = "DELETE"
    /\ mMbx' = "none" /\ mAck' = "SOK"
    /\ mPc' = "gone"
    /\ UNCHANGED <<queues, mRun, tmpDemuxQue, seen, want, streaming, cap, cMbx, ui, uAck>>

\* MCVIP_v4l2GetBuf returns a field of the bus, or times out.
MGrab ==
    /\ mPc = "grab"
    /\ mPc' = "demux"
    /\ seen' = {}
    /\ UNCHANGED <<queues, mRun, tmpDemuxQue, want, streaming, mMbx, mAck, cap, cMbx, ui, uAck>>

MTimeout ==
    /\ mPc = "grab"
    /\ mPc' = "check"
    /\ UNCHANGED <<queues, mRun, tmpDemuxQue, seen, want, streaming, mMbx, mAck, cap, cMbx,
                   ui, uAck>>

\* In MCVIP_demuxRun the last line of a good frame of ch arrives.
DemuxDone(ch) ==
    /\ mPc = "demux"
    /\ ch \notin seen
    /\ seen' = seen \cup {ch}
    /\ want' = ch
    /\ mPc' = "getEmpty"
    /\ UNCHANGED <<queues, mRun, tmpDemuxQue, streaming, mMbx, mAck, cap, cMbx, ui, uAck>>

\* What a run of the demultiplexer that returned status st leads to.  In the
\* look for missed frames the same variable status is assigned again, to the
\* result of the last of the fields that are thrown away.
AfterDemux(st) ==
    \E st2 \in (IF MissedFrames THEN {"SOK", "EFAIL"} ELSE {st}) \cup {st} :
        mPc' = IF st2 = "SOK" THEN "check" ELSE "exit"

DemuxGet_PutsTheNewOneAside ==
    /\ mPc = "getEmpty"
    /\ emptyQue[want] # <<>>
    /\ LET new == Head(emptyQue[want])
       IN  /\ emptyQue' = [emptyQue EXCEPT ![want] = Tail(@)]
           /\ curBufId' = [curBufId EXCEPT ![want] = new]
           /\ IF new = Poison
              THEN tmpDemuxQue' = <<>> /\ AfterDemux("EFAIL") /\ UNCHANGED bufCh
              ELSE /\ tmpDemuxQue' = Append(tmpDemuxQue, new)
                   /\ mPc' = "demux"
                   /\ bufCh' = [bufCh EXCEPT ![new] = want]
    /\ fault' = (curBufId[want] = Poison)
    /\ UNCHANGED <<fullQue, mRun, seen, want, streaming, mMbx, mAck, cap, cMbx, uPc, memory,
                   uAck>>

DemuxGet_PoisonPutAside ==
    /\ mPc = "getEmpty"
    /\ emptyQue[want] # <<>>
    /\ LET new == Head(emptyQue[want])
       IN  /\ emptyQue' = [emptyQue EXCEPT ![want] = Tail(@)]
           /\ curBufId' = [curBufId EXCEPT ![want] = new]
           /\ tmpDemuxQue' = Append(tmpDemuxQue, new)
           /\ bufCh' = IF new \in Buffers THEN [bufCh EXCEPT ![new] = want] ELSE bufCh
    /\ mPc' = "demux"
    /\ fault' = (curBufId[want] = Poison)
    /\ UNCHANGED <<fullQue, mRun, seen, want, streaming, mMbx, mAck, cap, cMbx, uPc, memory,
                   uAck>>

\* The channel gets a new buffer and the filled one is put aside, unless the
\* new one is Poison: then the function returns and what was put aside is
\* forgotten.  Poison has no bufInfo to write the time of the frame to.
DemuxGet ==
    /\ mPc = "getEmpty"
    /\ emptyQue[want] # <<>>
    /\ LET new == Head(emptyQue[want])
       IN  /\ emptyQue' = [emptyQue EXCEPT ![want] = Tail(@)]
           /\ curBufId' = [curBufId EXCEPT ![want] = new]
           /\ IF new = Poison
              THEN tmpDemuxQue' = <<>> /\ AfterDemux("EFAIL") /\ UNCHANGED bufCh
              ELSE /\ tmpDemuxQue' = Append(tmpDemuxQue, curBufId[want])
                   /\ mPc' = "demux"
                   /\ bufCh' = [bufCh EXCEPT ![new] = want]
    /\ fault' = (curBufId[want] = Poison)
    /\ UNCHANGED <<fullQue, mRun, seen, want, streaming, mMbx, mAck, cap, cMbx, uPc, memory,
                   uAck>>

\* After the DMA transfer the filled buffers are handed on, one by one.
DemuxEnd ==
    /\ mPc = "demux"
    /\ mPc' = "putFull"
    /\ UNCHANGED <<queues, mRun, tmpDemuxQue, seen, want, streaming, mMbx, mAck, cap, cMbx, ui, uAck>>

DemuxPut ==
    /\ mPc = "putFull"
    /\ tmpDemuxQue # <<>>
    /\ Len(fullQue) < FullQueLen
    /\ fullQue' = Append(fullQue, Head(tmpDemuxQue))
    /\ tmpDemuxQue' = Tail(tmpDemuxQue)
    /\ UNCHANGED <<emptyQue, curBufId, bufCh, mPc, mRun, seen, want, streaming, mMbx, mAck,
                   cap, cMbx, ui, uAck>>

DemuxReturn ==
    /\ mPc = "putFull"
    /\ tmpDemuxQue = <<>>
    /\ AfterDemux("SOK")
    /\ UNCHANGED <<queues, mRun, tmpDemuxQue, seen, want, streaming, mMbx, mAck, cap, cMbx, ui, uAck>>

MCheck ==
    /\ mPc = "check"
    /\ mMbx' = "none"
    /\ mRun' = IF mMbx = "none" THEN mRun ELSE mMbx
    /\ mPc' = IF mMbx = "none" THEN "grab" ELSE "exit"
    /\ UNCHANGED <<queues, tmpDemuxQue, seen, want, streaming, mAck, cap, cMbx, ui, uAck>>

\* MCVIP_tskStop, the sentinel for the capture task, and the answer to STOP
\* if it was STOP that ended the run.
MExit ==
    /\ mPc = "exit"
    /\ Len(fullQue) < FullQueLen
    /\ fullQue' = Append(fullQue, Poison)
    /\ streaming' = FALSE
    /\ mAck' = IF mRun = "STOP" THEN "SOK" ELSE mAck
    /\ mPc' = "main"
    /\ UNCHANGED <<emptyQue, curBufId, bufCh, mRun, tmpDemuxQue, seen, want, mMbx,
                   cap, cMbx, ui, uAck>>

-----------------------------------------------------------------------------
(* The capture task *)

\* OSA_tskAckOrFreeMsg(m, st), for a message that waits for its answer.
AckMsg(m, st) ==
    IF m \in cLive
    THEN cLive' = cLive \ {m} /\ uAck' = st /\ UNCHANGED fault
    ELSE fault' = TRUE /\ UNCHANGED <<cLive, uAck>>

\* CAPTURE_CMD_START up to MCVIP_start, and from its answer on.
CStart ==
    /\ cPc = "main" /\ cMbx = "START"
    /\ cMbx' = "none" /\ mMbx' = "START"
    /\ cMain' = "START" /\ cRun' = "START" /\ cLive' = cLive \cup {"START"}
    /\ cPc' = "starting"
    /\ UNCHANGED <<queues, mcvip, mAck, cBuf, poked, ui, uAck>>

CStarted ==
    /\ cPc = "starting" /\ mAck # "none"
    /\ mAck' = "none"
    /\ AckMsg(cRun, mAck)
    /\ cPc' = IF mAck = "SOK" THEN "getBuf" ELSE "main"
    /\ UNCHANGED <<queues, mcvip, mMbx, cRun, cMain, cBuf, poked, cMbx, uPc, memory>>

\* MCVIP_getBuf fails when what it takes is no buffer.
CGetBuf ==
    /\ cPc = "getBuf"
    /\ fullQue # <<>>
    /\ fullQue' = Tail(fullQue)
    /\ IF Head(fullQue) \in Buffers
       THEN cBuf' = Head(fullQue) /\ cPc' = "process"
       ELSE cPc' = "stop" /\ UNCHANGED cBuf
    /\ UNCHANGED <<emptyQue, curBufId, bufCh, mcvip, mMbx, mAck, cRun, cMain, cLive, poked,
                   cMbx, ui, uAck>>

\* CAPTURE_tskProcessFrame.  If the encoder has an empty buffer for the channel
\* the frame is copied into it, and the copy goes to the OSD task, which has to
\* acknowledge it.
CProcessFrame ==
    /\ cPc = "process"
    /\ cPc' \in {"osd", "putBuf"}
    /\ UNCHANGED <<queues, mcvip, mMbx, mAck, cRun, cMain, cLive, cBuf, poked, cMbx, ui, uAck>>

\* The OSD task has drawn on the copy and acknowledges it.
OsdAnswers ==
    /\ cPc = "osd"
    /\ cPc' = "encode"
    /\ UNCHANGED <<queues, mcvip, mMbx, mAck, cRun, cMain, cLive, cBuf, poked, cMbx, ui, uAck>>

\* The mailbox of the encode task has room for ENCODE_CMD_RUN.
EncodeHasRoom ==
    /\ cPc = "encode"
    /\ cPc' = "putBuf"
    /\ UNCHANGED <<queues, mcvip, mMbx, mAck, cRun, cMain, cLive, cBuf, poked, cMbx, ui, uAck>>

\* MCVIP_putBuf
CPutBuf ==
    /\ cPc = "putBuf"
    /\ Len(emptyQue[bufCh[cBuf]]) < EmptyQueLen
    /\ emptyQue' = [emptyQue EXCEPT ![bufCh[cBuf]] = Append(@, cBuf)]
    /\ cBuf' = NoBuf
    /\ cPc' = "check"
    /\ UNCHANGED <<fullQue, curBufId, bufCh, mcvip, mMbx, mAck, cRun, cMain, cLive, poked,
                   cMbx, ui, uAck>>

\* The local variable pMsg of CAPTURE_tskStartRun moves on to the message
\* read; that of CAPTURE_tskMain does not.
CCheck ==
    /\ cPc = "check"
    /\ cMbx' = "none"
    /\ cPc' = IF cMbx = "none" THEN "getBuf" ELSE "stop"
    /\ cRun' = IF cMbx = "none" THEN cRun ELSE cMbx
    /\ cLive' = IF cMbx = "none" THEN cLive ELSE cLive \cup {cMbx}
    /\ UNCHANGED <<queues, mcvip, mMbx, mAck, cMain, cBuf, poked, ui, uAck>>

\* MCVIP_stop: Poison to every channel in turn, then the command.
CPoke ==
    /\ cPc = "stop"
    /\ poked < NumCh
    /\ Len(emptyQue[poked]) < EmptyQueLen
    /\ emptyQue' = [emptyQue EXCEPT ![poked] = Append(@, Poison)]
    /\ poked' = poked + 1
    /\ UNCHANGED <<fullQue, curBufId, bufCh, mcvip, mMbx, mAck, cPc, cRun, cMain, cLive, cBuf,
                   cMbx, ui, uAck>>

CSendStop_WithoutPoison ==
    /\ cPc = "stop"
    /\ mMbx' = "STOP"
    /\ cPc' = "stopping"
    /\ UNCHANGED <<queues, mcvip, mAck, cRun, cMain, cLive, cBuf, poked, cMbx, ui, uAck>>

CSendStop ==
    /\ cPc = "stop"
    /\ poked = NumCh
    /\ poked' = 0
    /\ mMbx' = "STOP"
    /\ cPc' = "stopping"
    /\ UNCHANGED <<queues, mcvip, mAck, cRun, cMain, cLive, cBuf, cMbx, ui, uAck>>

CStopped_AcksStart ==
    /\ cPc = "stopping" /\ mAck # "none"
    /\ AckMsg(cMain, "SOK")
    /\ mAck' = "none"
    /\ cPc' = "main"
    /\ UNCHANGED <<queues, mcvip, mMbx, cRun, cMain, cBuf, poked, cMbx, uPc, memory>>

\* ackMsg is TRUE whatever ended the run.  After DELETE the task goes on to
\* MCVIP_delete, otherwise back to CAPTURE_tskMain.
CStopped ==
    /\ cPc = "stopping" /\ mAck # "none"
    /\ AckMsg(cRun, "SOK")
    /\ mAck' = "none"
    /\ mMbx' = IF cRun = "DELETE" THEN "DELETE" ELSE mMbx
    /\ cPc' = IF cRun = "DELETE" THEN "deleting" ELSE "main"
    /\ UNCHANGED <<queues, mcvip, cRun, cMain, cBuf, poked, cMbx, uPc, memory>>

CDelete ==
    /\ cPc = "main" /\ cMbx = "DELETE"
    /\ cMbx' = "none" /\ mMbx' = "DELETE"
    /\ cMain' = "DELETE" /\ cLive' = cLive \cup {"DELETE"}
    /\ cPc' = "deleting"
    /\ UNCHANGED <<queues, mcvip, mAck, cRun, cBuf, poked, ui, uAck>>

CDeleted_AtOnce ==
    /\ cPc = "deleting"
    /\ memory' = FALSE
    /\ AckMsg(cMain, "SOK")
    /\ cPc' = "gone"
    /\ UNCHANGED <<queues, mcvip, mMbx, mAck, cRun, cMain, cBuf, poked, cMbx, uPc>>

\* The rest of CAPTURE_tskDelete frees the buffers; then the answer.
CDeleted ==
    /\ cPc = "deleting" /\ mAck # "none"
    /\ mAck' = "none"
    /\ memory' = FALSE
    /\ AckMsg(cMain, "SOK")
    /\ cPc' = "gone"
    /\ UNCHANGED <<queues, mcvip, mMbx, cRun, cMain, cBuf, poked, cMbx, uPc>>

-----------------------------------------------------------------------------

Ui == UiStart \/ UiGiveUp \/ UiStop \/ UiDelete \/ UiAnswered

Mcvip == \/ MStart \/ MStopIdle \/ MDelete \/ MGrab \/ MTimeout
         \/ \E ch \in Channels : DemuxDone(ch)
         \/ DemuxGet \/ DemuxEnd \/ DemuxPut \/ DemuxReturn \/ MCheck \/ MExit

Capture == \/ CStart \/ CStarted \/ CGetBuf \/ CProcessFrame \/ CPutBuf \/ CCheck
           \/ CPoke \/ CSendStop \/ CStopped \/ CDelete \/ CDeleted

LaterStages == OsdAnswers \/ EncodeHasRoom

\* Nothing is said of the program after a fault.  CAPTURE_tskMain also answers
\* a STOP that finds the run ended: that would take a fault first.
Next == ~ fault /\ (Ui \/ Mcvip \/ Capture \/ LaterStages)

Spec == Init /\ [][Next]_vars

\* Both tasks are threads that run when they can; the main thread goes on
\* when it has its answer.  The camera: time and again the bus brings a
\* field, and a field that completes a frame of some channel.  Nothing makes
\* the user start or stop, and nothing the later stages answer.
FairSpec ==
    /\ Spec
    /\ WF_vars(~ fault /\ Mcvip)
    /\ WF_vars(~ fault /\ Capture)
    /\ WF_vars(~ fault /\ UiAnswered)
    /\ SF_vars(~ fault /\ MGrab)
    /\ SF_vars(~ fault /\ \E ch \in Channels : DemuxDone(ch))

-----------------------------------------------------------------------------

TypeOK ==
    /\ emptyQue \in [Channels -> Seq(Buffers \cup {Poison})]
    /\ fullQue \in Seq(Buffers \cup {Poison})
    /\ curBufId \in [Channels -> Buffers \cup {Poison}]
    /\ bufCh \in [Buffers -> Channels \cup {-1}]
    /\ mPc \in {"main", "grab", "demux", "getEmpty", "putFull", "check", "exit", "gone"}
    /\ {mMbx, cMbx} \subseteq {"none", "START", "STOP", "DELETE"}
    /\ {mAck, uAck} \subseteq {"none", "SOK", "EFAIL"}
    /\ mRun \in {"START", "STOP", "DELETE"}
    /\ tmpDemuxQue \in Seq(Buffers)
    /\ seen \subseteq Channels /\ want \in Channels
    /\ {streaming, memory, fault} \subseteq BOOLEAN
    /\ cPc \in {"main", "starting", "getBuf", "process", "osd", "encode", "putBuf", "check", "stop", "stopping",
                "deleting", "gone"}
    /\ {cRun, cMain} \subseteq {"none", "START", "STOP", "DELETE"}
    /\ cLive \subseteq {"START", "STOP", "DELETE"}
    /\ cBuf \in Buffers \cup {NoBuf}
    /\ poked \in 0 .. NumCh
    /\ uPc \in {"created", "starting", "running", "startFailed", "stopping", "stopped",
                "deleting", "deleted"}

\* Where a buffer can be: free, written to by the demultiplexer, put aside by
\* it, waiting for the capture task, processed by it.
Places ==
    (UNION {{<<"emptyQue", ch, i>> : i \in DOMAIN emptyQue[ch]} : ch \in Channels})
    \cup {<<"curBufId", ch, 0>> : ch \in Channels}
    \cup {<<"tmpDemuxQue", 0, i>> : i \in DOMAIN tmpDemuxQue}
    \cup {<<"fullQue", 0, i>> : i \in DOMAIN fullQue}
    \cup {<<"cBuf", 0, 0>>}

BufAt(p) ==
    CASE p[1] = "emptyQue"    -> emptyQue[p[2]][p[3]]
      [] p[1] = "curBufId"    -> curBufId[p[2]]
      [] p[1] = "tmpDemuxQue" -> tmpDemuxQue[p[3]]
      [] p[1] = "fullQue"     -> fullQue[p[3]]
      [] p[1] = "cBuf"        -> cBuf

\* The channel a buffer was dealt to.
ChOf(b) == b \div BufPerCh

\* A buffer is in one place, so that no frame is read while it is overwritten.
\* None is lost until MCVIP_stop ends the demultiplexer in the middle of a
\* run, and none gets into the hands of another channel.
BufferOwnership ==
    /\ \A p, q \in Places : BufAt(p) = BufAt(q) /\ BufAt(p) \in Buffers => p = q
    /\ Poison \notin Range(curBufId) => Buffers \subseteq {BufAt(p) : p \in Places}
    /\ \A ch \in Channels :
          \A b \in (ToSet(emptyQue[ch]) \cup {curBufId[ch]}) \cap Buffers : ChOf(b) = ch
    /\ \A b \in (ToSet(fullQue) \cup ToSet(tmpDemuxQue) \cup {cBuf}) \cap Buffers :
          bufCh[b] = ChOf(b)

\* None of the puts with OSA_TIMEOUT_FOREVER ever waits: the queues are long
\* enough for all the buffers and for the Poison of one MCVIP_stop.
NeverWaitsForRoom ==
    /\ mPc \in {"putFull", "exit"} => Len(fullQue) < FullQueLen
    /\ cPc = "putBuf" => Len(emptyQue[bufCh[cBuf]]) < EmptyQueLen
    /\ cPc = "stop" /\ poked < NumCh => Len(emptyQue[poked]) < EmptyQueLen

\* When frames were missed the MCVIP task may leave its loop unasked, and the
\* capture task after it.  CAPTURE_tskStartRun then answers START once more,
\* although its sender has freed it: a command is acknowledged twice in this
\* case only, when neither task was told to stop, and the value 0xFF is never
\* used as a buffer.
FaultOnlyAtOwnEnd == fault => MissedFrames /\ cRun = "START" /\ mRun = "START"

\* The camera interface is off and the demultiplexer at rest when CAPTURE_stop
\* returns, and the MCVIP task is gone before its buffers are freed.
NoDmaAfterFree ==
    /\ uPc = "stopped" => ~ streaming /\ mPc = "main"
    /\ ~ memory => mPc = "gone" /\ cBuf = NoBuf

\* The OSD task answers and the encode task makes room whenever the capture
\* task waits for it.
LaterStagesAnswer == []<>(cPc \notin {"osd", "encode"})

\* After missed frames the MCVIP task does not go on with a demultiplexer that
\* was stopped: its status is not overwritten with the success of the recovery.
\* Where it is, the next empty queue puts the demultiplexer to sleep for good.
RecoveryHeedsPoison == [](mPc \in {"check", "grab"} => Poison \notin Range(curBufId))

\* CAPTURE_stop returns, if the later stages do not hold up the capture task
\* for ever and the recovery lets the demultiplexer stop: although the capture
\* task looks for messages only after a buffer and the demultiplexer only
\* between two fields of the bus, and may be asleep on an empty queue.
StopCompletes ==
    LaterStagesAnswer /\ RecoveryHeedsPoison
        => (uPc = "stopping" ~> uPc = "stopped" \/ fault)

\* The MCVIP task leaves its loop because CAPTURE_stop is under way, and for
\* no other reason: in particular when it has lost frames and, in the words
\* of mcvip_tsk.c, is "trying to recover".
KeepsCapturing ==
    [][mPc # "exit" /\ mPc' = "exit" => cPc \in {"stop", "stopping"}]_vars
=============================================================================
