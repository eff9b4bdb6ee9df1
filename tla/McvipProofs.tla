----------------------------- MODULE McvipProofs -----------------------------
(***************************************************************************)
(* Theorems about the front of the pipeline, for any number of channels    *)
(* and of buffers for each (that the driver accepts), whether the camera   *)
(* loses frames or not.                                                    *)
(***************************************************************************)
EXTENDS McvipCapture, SequenceTheorems, FiniteSetTheorems, TLAPS

-----------------------------------------------------------------------------
(* Who is where: the commands.                                             *)

\* Places of the two tasks in which they run.
MRunning == {"grab", "demux", "getEmpty", "putFull", "check", "exit"}
Processing == {"process", "osd", "encode", "putBuf"}
CRunning == {"getBuf", "check", "stop", "stopping"} \cup Processing

\* The MCVIP task, as the capture task knows it from where it is itself.
McvipState ==
    /\ mPc \in {"main", "gone"} => ~ streaming
    /\ mRun = "STOP" /\ mPc \in MRunning =>
           mPc = "exit" /\ cPc = "stopping" /\ mMbx = "none" /\ mAck = "none"
    /\ cPc = "main" => mMbx = "none" /\ mAck = "none" /\ mPc = "main"
    /\ cPc = "starting" =>
           \/ mMbx = "START" /\ mAck = "none" /\ mPc = "main"
           \/ mMbx = "none" /\ mAck = "SOK" /\ mPc # "gone"
           \/ mMbx = "none" /\ mAck = "EFAIL" /\ mPc = "main"
    /\ cPc \in {"getBuf", "check", "stop"} \cup Processing =>
           mMbx = "none" /\ mAck = "none" /\ mPc # "gone"
    /\ (cPc = "starting" /\ mAck = "SOK") \/ cPc \in {"getBuf", "check", "stop"} \cup Processing =>
           mRun = "START"
    /\ cPc \in {"stop", "stopping"} /\ cRun = "START" => mPc = "main" /\ mRun = "START"
    /\ cPc = "stopping" =>
           \/ mMbx = "STOP" /\ mAck = "none" /\ mPc # "gone"
           \/ mMbx = "none" /\ mAck = "none" /\ mPc = "exit" /\ mRun = "STOP"
           \/ mMbx = "none" /\ mAck = "SOK" /\ mPc = "main"
    /\ cPc = "deleting" =>
           \/ mMbx = "DELETE" /\ mAck = "none" /\ mPc = "main"
           \/ mMbx = "none" /\ mAck = "SOK" /\ mPc = "gone"
    /\ cPc = "gone" => mMbx = "none" /\ mAck = "none" /\ mPc = "gone"

\* The capture task, as the main thread knows it.
CaptureState ==
    /\ uPc \in {"created", "startFailed", "stopped"} =>
           cMbx = "none" /\ uAck = "none" /\ cLive = {} /\ cPc = "main"
    /\ uPc = "starting" =>
           \/ cMbx = "START" /\ uAck = "none" /\ cLive = {} /\ cPc = "main"
           \/ cMbx = "none" /\ uAck = "none" /\ cLive = {"START"} /\ cRun = "START"
                  /\ cPc = "starting"
           \/ cMbx = "none" /\ uAck = "SOK" /\ cLive = {} /\ cRun = "START"
                  /\ cPc \in CRunning
           \/ cMbx = "none" /\ uAck = "EFAIL" /\ cLive = {} /\ cPc = "main"
    /\ uPc = "running" =>
           cMbx = "none" /\ uAck = "none" /\ cLive = {} /\ cRun = "START" /\ cPc \in CRunning
    /\ uPc = "stopping" =>
           \/ cMbx = "STOP" /\ uAck = "none" /\ cLive = {} /\ cRun = "START"
                  /\ cPc \in CRunning
           \/ cMbx = "none" /\ uAck = "none" /\ cLive = {"STOP"} /\ cRun = "STOP"
                  /\ cPc \in {"stop", "stopping"}
           \/ cMbx = "none" /\ uAck = "SOK" /\ cLive = {} /\ cPc = "main"
    /\ uPc = "deleting" =>
           \/ cMbx = "DELETE" /\ uAck = "none" /\ cLive = {} /\ cPc = "main"
           \/ cMbx = "none" /\ uAck = "none" /\ cLive = {"DELETE"} /\ cMain = "DELETE"
                  /\ cPc = "deleting"
           \/ cMbx = "none" /\ uAck = "SOK" /\ cLive = {} /\ cPc = "gone"
    /\ uPc = "deleted" => cMbx = "none" /\ uAck = "none" /\ cLive = {} /\ cPc = "gone"

MemoryState ==
    /\ ~ memory => cPc = "gone"
    /\ cPc \in Processing <=> cBuf \in Buffers

\* The one fault there can be is the second answer to START, which ends
\* CAPTURE_stop for a run that no command had ended.
Commands ==
    IF fault
    THEN /\ mPc = "main" /\ cPc = "main" /\ memory /\ uPc # "stopped"
         /\ cRun = "START" /\ mRun = "START"
    ELSE McvipState /\ CaptureState /\ MemoryState

\* Without missed frames the MCVIP task leaves its loop last.
Undisturbed ==
    ~ MissedFrames =>
        /\ ~ fault
        /\ cPc \in {"stop", "stopping"} => cRun = "STOP"
        /\ (cPc = "starting" /\ mAck = "SOK") \/ cPc \in {"getBuf", "check"} \cup Processing =>
               mPc \in MRunning \ {"exit"}

-----------------------------------------------------------------------------
(* Poison.                                                                 *)

\* The run of the MCVIP task is still to come.
Unstarted == uPc = "created" \/ cMbx = "START" \/ mMbx = "START"

\* MCVIP_stop has put Poison in the queue of ch.
Poked(ch) ==
    \/ cPc = "stop" /\ ch < poked
    \/ cPc \in {"stopping", "deleting", "gone"}
    \/ cPc = "main" /\ ~ Unstarted

\* Poison is the last thing in a queue of empty buffers, so a channel that
\* took it gets no other buffer.
PoisonLast ==
    \A ch \in Channels :
        /\ \A i \in 1 .. Len(emptyQue[ch]) :
              emptyQue[ch][i] = Poison => Poked(ch) /\ i = Len(emptyQue[ch])
        /\ curBufId[ch] = Poison => Poked(ch) /\ emptyQue[ch] = << >>

\* In the full queue it marks the end of a run.
PoisonEndsRun ==
    mPc \in MRunning \/ Unstarted => \A i \in 1 .. Len(fullQue) : fullQue[i] \in Buffers

-----------------------------------------------------------------------------
(* Where the buffers are: one relation for Places and BufAt.               *)

At(b, k, x, i) ==
    \/ k = "emptyQue" /\ x \in Channels /\ i \in 1 .. Len(emptyQue[x]) /\ b = emptyQue[x][i]
    \/ k = "curBufId" /\ x \in Channels /\ i = 0 /\ b = curBufId[x]
    \/ k = "tmpDemuxQue" /\ x = 0 /\ i \in 1 .. Len(tmpDemuxQue) /\ b = tmpDemuxQue[i]
    \/ k = "fullQue" /\ x = 0 /\ i \in 1 .. Len(fullQue) /\ b = fullQue[i]
    \/ k = "cBuf" /\ x = 0 /\ i = 0 /\ b = cBuf

\* No buffer is at two places,
OnePlace ==
    \A b \in Buffers : \A k, x, i, l, y, j :
        At(b, k, x, i) /\ At(b, l, y, j) => k = l /\ x = y /\ i = j

\* all of them are somewhere until a channel takes Poison,
Covered ==
    Poison \notin Range(curBufId) => \A b \in Buffers : \E k, x, i : At(b, k, x, i)

\* those of a channel stay with it,
Homed ==
    \A b \in Buffers : \A k, x, i :
        At(b, k, x, i) => /\ k \in {"emptyQue", "curBufId"} => ChOf(b) = x
                          /\ k # "emptyQue" => bufCh[b] = ChOf(b)

\* and one at least waits in no queue, so that these have room.
Spare == \E b \in Buffers : \A k, x, i : At(b, k, x, i) => k = "curBufId"

MInv ==
    /\ TypeOK /\ Commands /\ Undisturbed
    /\ ~ fault => PoisonLast /\ PoisonEndsRun
    /\ OnePlace /\ Covered /\ Homed /\ Spare

-----------------------------------------------------------------------------
(* Buffers, channels and queues.                                           *)

LEMMA TimesAdds ==
    ASSUME NEW x \in Int, NEW y \in Int, NEW z \in Int
    PROVE  /\ x * z \in Int /\ (x + y) * z = x * z + y * z /\ (x - y) * z = x * z - y * z
OBVIOUS

LEMMA TimesMono ==
    ASSUME NEW x \in Int, NEW y \in Int, NEW z \in Nat, x <= y
    PROVE  x * z <= y * z
<1>1. (y - x) * z >= 0
    OBVIOUS
<1>2. (y - x) * z = y * z - x * z
    BY TimesAdds
<1>3. x * z \in Int /\ y * z \in Int
    BY TimesAdds
<1> QED
    BY <1>1, <1>2, <1>3

LEMMA Numbers ==
    /\ NumBuf \in Nat \ {0} /\ NumBuf <= MCVIP_BUF_MAX
    /\ Poison \notin Buffers /\ NoBuf \notin Buffers /\ NoBuf # Poison
    /\ 0 \in Channels
    /\ FullQueLen = NumBuf /\ EmptyQueLen = BufPerCh
<1>1. 1 * BufPerCh <= NumCh * BufPerCh /\ NumCh * BufPerCh \in Int
    BY TimesMono, TimesAdds, NumChAssumption, BufPerChAssumption
<1> QED
    BY <1>1, NumChAssumption, BufPerChAssumption, NumBufAssumption
    DEF NumBuf, MCVIP_BUF_MAX, Poison, NoBuf, Buffers, Channels, FullQueLen, EmptyQueLen

\* The buffers dealt to a channel,
LEMMA DealtTo ==
    ASSUME NEW ch \in Channels, NEW i \in 0 .. BufPerCh - 1
    PROVE  /\ ch * BufPerCh + i \in Buffers
           /\ ChOf(ch * BufPerCh + i) = ch
           /\ (ch * BufPerCh + i) % BufPerCh = i
<1>1. /\ 0 * BufPerCh <= ch * BufPerCh /\ ch * BufPerCh \in Int
      /\ (ch + 1) * BufPerCh <= NumCh * BufPerCh /\ NumCh * BufPerCh \in Int
      /\ (ch + 1) * BufPerCh = ch * BufPerCh + 1 * BufPerCh
    BY TimesMono, TimesAdds, NumChAssumption, BufPerChAssumption DEF Channels
<1>2. ch * BufPerCh + i \in Buffers
    BY <1>1, BufPerChAssumption DEF Buffers, NumBuf
<1>3. (ch * BufPerCh + i) \div BufPerCh = ch /\ (ch * BufPerCh + i) % BufPerCh = i
    BY <1>1, BufPerChAssumption DEF Channels
<1> QED
    BY <1>2, <1>3 DEF ChOf

\* and the channel a buffer was dealt to.
LEMMA DealtFrom ==
    ASSUME NEW b \in Buffers
    PROVE  /\ ChOf(b) \in Channels
           /\ b % BufPerCh \in 0 .. BufPerCh - 1
           /\ b = ChOf(b) * BufPerCh + (b % BufPerCh)
<1>1. PICK q \in Int, r \in 0 .. BufPerCh - 1 :
          q = b \div BufPerCh /\ r = b % BufPerCh /\ b = BufPerCh * q + r
    BY BufPerChAssumption DEF Buffers
<1>2. q >= NumCh => NumCh * BufPerCh <= q * BufPerCh
    BY TimesMono, NumChAssumption, BufPerChAssumption
<1>3. q <= -1 => q * BufPerCh <= (-1) * BufPerCh
    BY TimesMono, BufPerChAssumption
<1>4. q * BufPerCh \in Int /\ q * BufPerCh = BufPerCh * q /\ NumCh * BufPerCh \in Int
    BY NumChAssumption, BufPerChAssumption
<1>5. b \in 0 .. NumCh * BufPerCh - 1
    BY DEF Buffers, NumBuf
<1>6. q \in 0 .. NumCh - 1
    <2> HIDE <1>1
    <2>1. b = q * BufPerCh + r
        BY <1>1, <1>4
    <2> QED
        BY <1>2, <1>3, <1>4, <1>5, <2>1, NumChAssumption, BufPerChAssumption
<1> QED
    BY <1>1, <1>4, <1>6 DEF ChOf, Channels

LEMMA Appended ==
    ASSUME NEW S, NEW q \in Seq(S), NEW e \in S
    PROVE  /\ Append(q, e) \in Seq(S)
           /\ Len(q) \in Nat /\ Len(Append(q, e)) = Len(q) + 1
           /\ \A i \in 1 .. Len(q) + 1 :
                  Append(q, e)[i] = IF i = Len(q) + 1 THEN e ELSE q[i]
BY AppendProperties, LenProperties

LEMMA Taken ==
    ASSUME NEW S, NEW q \in Seq(S), q # << >>
    PROVE  /\ Head(q) = q[1] /\ Head(q) \in S
           /\ Tail(q) \in Seq(S)
           /\ Len(q) \in Nat \ {0} /\ Len(Tail(q)) = Len(q) - 1
           /\ \A i \in 1 .. Len(q) - 1 : Tail(q)[i] = q[i + 1]
BY HeadTailProperties, LenProperties, EmptySeq

-----------------------------------------------------------------------------
(* The commands.                                                           *)

\* The actions of the main thread.
LEMMA UiCommands ==
    ASSUME MInv, ~ fault, Ui
    PROVE  Commands' /\ Undisturbed'
<1> USE DEF MInv, Commands, Undisturbed, McvipState, CaptureState, MemoryState, MRunning,
            CRunning, Processing, queues, mcvip, cap
<1>1. CASE UiStart
    BY <1>1 DEF UiStart, UiSend
<1>2. CASE UiGiveUp
    BY <1>2 DEF UiGiveUp, UiSend
<1>3. CASE UiStop
    BY <1>3 DEF UiStop, UiSend
<1>4. CASE UiDelete
    BY <1>4 DEF UiDelete, UiSend
<1>5. CASE UiAnswered
    BY <1>5 DEF UiAnswered, TypeOK
<1> QED
    BY <1>1, <1>2, <1>3, <1>4, <1>5 DEF Ui

\* Those of the MCVIP task.
LEMMA McvipCommands ==
    ASSUME MInv, ~ fault, Mcvip
    PROVE  Commands' /\ Undisturbed'
<1> USE DEF MInv, Commands, Undisturbed, McvipState, CaptureState, MemoryState, MRunning,
            CRunning, Processing, queues, mcvip, cap, ui
<1>1. CASE MStart
    BY <1>1 DEF MStart
<1>2. CASE MStopIdle
    BY <1>2 DEF MStopIdle
<1>3. CASE MDelete
    BY <1>3 DEF MDelete
<1>4. CASE MGrab
    BY <1>4 DEF MGrab
<1>5. CASE MTimeout
    BY <1>5 DEF MTimeout
<1>6. CASE \E ch \in Channels : DemuxDone(ch)
    BY <1>6 DEF DemuxDone
<1>7. CASE DemuxGet
    <2>1. emptyQue[want] \in Seq(Buffers \cup {Poison}) /\ want \in Channels
        BY DEF TypeOK
    <2>2. emptyQue[want] # << >> /\ Head(emptyQue[want]) = emptyQue[want][1]
          /\ 1 \in 1 .. Len(emptyQue[want])
        BY <1>7, <2>1, Taken DEF DemuxGet
    <2>3. curBufId[want] # Poison
        BY <2>1, <2>2 DEF PoisonLast
    <2>4. Head(emptyQue[want]) = Poison => Poked(want)
        BY <2>1, <2>2 DEF PoisonLast
    <2>5. ~ fault'
        BY <1>7, <2>3 DEF DemuxGet
    <2>6. /\ mPc = "getEmpty" /\ mPc' \in {"demux", "check", "exit"}
          /\ mPc' = "exit" => Poked(want)
        BY <1>7, <2>4 DEF DemuxGet, AfterDemux
    <2>7. UNCHANGED <<mRun, streaming, mMbx, mAck, cap, cMbx, uPc, memory, uAck>>
        BY <1>7 DEF DemuxGet
    <2>8. mPc' = "exit" => cPc \in {"stop", "stopping"}
        BY <2>6 DEF Poked
    <2> QED
        BY <2>5, <2>6, <2>7, <2>8
<1>8. CASE DemuxEnd
    BY <1>8 DEF DemuxEnd
<1>9. CASE DemuxPut
    BY <1>9 DEF DemuxPut
<1>10. CASE DemuxReturn
    BY <1>10 DEF DemuxReturn, AfterDemux
<1>11. CASE MCheck
    <2>1. CASE mMbx = "none"
        BY <1>11, <2>1 DEF MCheck
    <2>2. CASE mMbx # "none"
        <3>1. mMbx = "STOP" /\ cPc = "stopping" /\ mAck = "none" /\ mPc = "check"
            BY <1>11, <2>2 DEF MCheck, TypeOK
        <3> QED
            BY <1>11, <2>2, <3>1 DEF MCheck
    <2> QED
        BY <2>1, <2>2
<1>12. CASE MExit
    BY <1>12 DEF MExit
<1> QED
    BY <1>1, <1>2, <1>3, <1>4, <1>5, <1>6, <1>7, <1>8, <1>9, <1>10, <1>11, <1>12 DEF Mcvip

\* Those of the capture task, and of those it waits for.
LEMMA CaptureCommands ==
    ASSUME MInv, ~ fault, Capture \/ LaterStages
    PROVE  Commands' /\ Undisturbed'
<1> USE DEF MInv, Commands, Undisturbed, McvipState, CaptureState, MemoryState, MRunning,
            CRunning, Processing, queues, mcvip, cap, ui, AckMsg
<1>1. CASE CStart
    BY <1>1 DEF CStart
<1>2. CASE CStarted
    BY <1>2 DEF CStarted, TypeOK
<1>3. CASE CGetBuf
    <2>1. fullQue \in Seq(Buffers \cup {Poison}) /\ fullQue # << >>
        BY <1>3 DEF CGetBuf, TypeOK
    <2>2. Head(fullQue) = fullQue[1] /\ 1 \in 1 .. Len(fullQue)
        BY <2>1, Taken
    <2>3. mPc \in MRunning => Head(fullQue) \in Buffers
        BY <2>2 DEF PoisonEndsRun
    <2>4. cPc' \notin Processing => cBuf' \notin Buffers
        BY <1>3, <2>3 DEF CGetBuf
    <2>5. cPc' = "stop" => mPc = "main"
        BY <1>3, <2>3, Numbers DEF CGetBuf, TypeOK
    <2>6. cPc' \in {"process", "stop"} /\ cPc = "getBuf" /\ mRun = "START"
        BY <1>3 DEF CGetBuf
    <2>7. McvipState'
        BY <1>3, <2>5, <2>6 DEF CGetBuf
    <2>8. CaptureState'
        BY <1>3, <2>6 DEF CGetBuf
    <2>9. MemoryState'
        BY <1>3, <2>4, <2>6 DEF CGetBuf
    <2>10. Undisturbed'
        BY <1>3, <2>3, <2>6 DEF CGetBuf
    <2> QED
        BY <1>3, <2>7, <2>8, <2>9, <2>10 DEF CGetBuf
<1>4. CASE CPutBuf
    BY <1>4, Numbers DEF CPutBuf
<1>5. CASE CCheck
    <2>1. cMbx \in {"none", "STOP"} /\ cPc = "check" /\ mRun = "START"
        BY <1>5 DEF CCheck, TypeOK
    <2>2. CASE cMbx = "none"
        BY <1>5, <2>1, <2>2 DEF CCheck
    <2>3. CASE cMbx = "STOP"
        <3>1. uPc = "stopping" /\ uAck = "none" /\ cLive = {}
            BY <2>1, <2>3 DEF TypeOK
        <3>2. cPc' = "stop" /\ cRun' = "STOP" /\ cMbx' = "none" /\ cLive' = {"STOP"}
            BY <1>5, <2>3, <3>1 DEF CCheck
        <3> QED
            BY <1>5, <2>1, <3>1, <3>2 DEF CCheck
    <2> QED
        BY <2>1, <2>2, <2>3
<1>6. CASE CPoke
    BY <1>6 DEF CPoke
<1>7. CASE CSendStop
    BY <1>7 DEF CSendStop
<1>8. CASE CStopped
    <2>1. mMbx = "none" /\ mAck = "SOK" /\ mPc = "main" /\ memory /\ cBuf \notin Buffers
        BY <1>8 DEF CStopped, TypeOK
    <2>2. CASE cLive = {"STOP"} /\ cRun = "STOP" /\ uPc = "stopping"
        <3>1. /\ fault' = fault /\ cLive' = {} /\ uAck' = "SOK"
              /\ cPc' = "main" /\ mMbx' = "none" /\ mAck' = "none"
            BY <1>8, <2>1, <2>2 DEF CStopped
        <3> QED
            BY <1>8, <2>1, <2>2, <3>1 DEF CStopped
    <2>3. CASE cLive = {} /\ cRun = "START" /\ uPc # "stopped"
        <3>1. fault' = TRUE /\ cPc' = "main"
            BY <1>8, <2>3 DEF CStopped
        <3> QED
            BY <1>8, <2>1, <2>3, <3>1 DEF CStopped
    <2> QED
        BY <1>8, <2>2, <2>3 DEF CStopped, TypeOK
<1>9. CASE CDelete
    BY <1>9 DEF CDelete
<1>10. CASE CDeleted
    <2>1. /\ uPc = "deleting" /\ cLive = {"DELETE"} /\ cMain = "DELETE" /\ mPc = "gone"
          /\ cMbx = "none" /\ mMbx = "none" /\ ~ streaming /\ cBuf \notin Buffers
        BY <1>10 DEF CDeleted, TypeOK
    <2>2. /\ fault' = fault /\ cLive' = {} /\ uAck' = "SOK" /\ mAck' = "none" /\ cPc' = "gone"
          /\ UNCHANGED <<uPc, cMbx, mMbx, mPc, mRun, streaming, cBuf>>
        BY <1>10, <2>1 DEF CDeleted
    <2> QED
        BY <2>1, <2>2
<1>11. CASE CProcessFrame \/ OsdAnswers \/ EncodeHasRoom
    BY <1>11 DEF CProcessFrame, OsdAnswers, EncodeHasRoom
<1> QED
    BY <1>1, <1>2, <1>3, <1>4, <1>5, <1>6, <1>7, <1>8, <1>9, <1>10, <1>11 DEF Capture, LaterStages

-----------------------------------------------------------------------------
(* Poison.                                                                 *)

\* What has been poisoned stays so, and no second run begins.
Onward ==
    /\ \A ch \in Channels : Poked(ch) => Poked(ch)'
    /\ mPc' \in MRunning \/ Unstarted' => mPc \in MRunning \/ Unstarted

LEMMA UiOnward ==
    ASSUME MInv, ~ fault, Ui
    PROVE  Onward
<1> USE DEF MInv, Commands, McvipState, CaptureState, MRunning, CRunning, Processing, queues,
            mcvip, cap, Onward, Poked, Unstarted
<1>1. CASE UiStart
    BY <1>1 DEF UiStart, UiSend
<1>2. CASE UiGiveUp
    BY <1>2 DEF UiGiveUp, UiSend
<1>3. CASE UiStop
    BY <1>3 DEF UiStop, UiSend
<1>4. CASE UiDelete
    BY <1>4 DEF UiDelete, UiSend
<1>5. CASE UiAnswered
    BY <1>5 DEF UiAnswered, TypeOK
<1> QED
    BY <1>1, <1>2, <1>3, <1>4, <1>5 DEF Ui

LEMMA McvipOnward ==
    ASSUME MInv, ~ fault, Mcvip
    PROVE  Onward
<1> USE DEF MInv, Commands, McvipState, CaptureState, MRunning, CRunning, Processing, queues,
            mcvip, cap, ui, Onward, Poked, Unstarted
<1>1. CASE MStart
    BY <1>1 DEF MStart
<1>2. CASE MStopIdle
    BY <1>2 DEF MStopIdle
<1>3. CASE MDelete
    BY <1>3 DEF MDelete
<1>4. CASE MGrab
    BY <1>4 DEF MGrab
<1>5. CASE MTimeout
    BY <1>5 DEF MTimeout
<1>6. CASE \E ch \in Channels : DemuxDone(ch)
    BY <1>6 DEF DemuxDone
<1>7. CASE DemuxGet
    BY <1>7 DEF DemuxGet
<1>8. CASE DemuxEnd
    BY <1>8 DEF DemuxEnd
<1>9. CASE DemuxPut
    BY <1>9 DEF DemuxPut
<1>10. CASE DemuxReturn
    BY <1>10 DEF DemuxReturn
<1>11. CASE MCheck
    BY <1>11 DEF MCheck
<1>12. CASE MExit
    BY <1>12 DEF MExit
<1> QED
    BY <1>1, <1>2, <1>3, <1>4, <1>5, <1>6, <1>7, <1>8, <1>9, <1>10, <1>11, <1>12 DEF Mcvip

LEMMA CaptureOnward ==
    ASSUME MInv, ~ fault, Capture \/ LaterStages, ~ fault'
    PROVE  Onward
<1> USE DEF MInv, Commands, McvipState, CaptureState, MRunning, CRunning, Processing, queues,
            mcvip, cap, ui, AckMsg, Onward, Poked, Unstarted
<1>1. CASE CStart
    BY <1>1 DEF CStart
<1>2. CASE CStarted
    BY <1>2 DEF CStarted, TypeOK
<1>3. CASE CGetBuf
    BY <1>3 DEF CGetBuf
<1>4. CASE CPutBuf
    BY <1>4 DEF CPutBuf
<1>5. CASE CCheck
    BY <1>5 DEF CCheck, TypeOK
<1>6. CASE CPoke
    BY <1>6 DEF CPoke, TypeOK, Channels
<1>7. CASE CSendStop
    BY <1>7 DEF CSendStop, Channels
<1>8. CASE CStopped
    <2>1. uPc = "stopping" /\ cRun = "STOP" /\ cMbx = "none" /\ mMbx = "none" /\ mPc = "main"
        BY <1>8 DEF CStopped, TypeOK
    <2>2. /\ cPc' = "main" /\ mMbx' = "none"
          /\ UNCHANGED <<uPc, cMbx, mPc>>
        BY <1>8, <2>1 DEF CStopped
    <2> QED
        BY <2>1, <2>2
<1>9. CASE CDelete
    BY <1>9 DEF CDelete
<1>10. CASE CDeleted
    BY <1>10 DEF CDeleted
<1>11. CASE CProcessFrame \/ OsdAnswers \/ EncodeHasRoom
    BY <1>11 DEF CProcessFrame, OsdAnswers, EncodeHasRoom
<1> QED
    BY <1>1, <1>2, <1>3, <1>4, <1>5, <1>6, <1>7, <1>8, <1>9, <1>10, <1>11 DEF Capture, LaterStages

-----------------------------------------------------------------------------
(* The buffers.                                                            *)

\* What MInv says of queues and buffers.
BuffersInv ==
    /\ ~ fault => PoisonLast /\ PoisonEndsRun
    /\ OnePlace /\ Covered /\ Homed /\ Spare

\* Most steps move no buffer.
LEMMA NothingMoves ==
    ASSUME MInv, UNCHANGED <<queues, tmpDemuxQue, cBuf>>, ~ fault' => ~ fault /\ Onward
    PROVE  BuffersInv'
<1>1. UNCHANGED <<emptyQue, fullQue, curBufId, bufCh, tmpDemuxQue, cBuf>>
    BY DEF queues
<1>2. ~ fault' => PoisonLast' /\ PoisonEndsRun'
    BY <1>1 DEF MInv, PoisonLast, PoisonEndsRun, Onward
<1>3. \A b, k, x, i : At(b, k, x, i)' <=> At(b, k, x, i)
    BY <1>1 DEF At
<1>4. OnePlace' /\ Homed' /\ Spare'
    BY <1>1, <1>3 DEF MInv, OnePlace, Homed, Spare
<1>5. Covered'
    BY <1>1, <1>3 DEF MInv, Covered
<1> QED
    BY <1>2, <1>4, <1>5 DEF BuffersInv

LEMMA DemuxPutStep ==
    ASSUME MInv, ~ fault, DemuxPut, Onward
    PROVE  TypeOK' /\ BuffersInv'
<1>0. PICK b, m, n : b = Head(tmpDemuxQue) /\ m = Len(tmpDemuxQue) /\ n = Len(fullQue)
    OBVIOUS
<1>1. /\ mPc = "putFull" /\ tmpDemuxQue # << >>
      /\ fullQue' = Append(fullQue, b) /\ tmpDemuxQue' = Tail(tmpDemuxQue)
      /\ UNCHANGED <<emptyQue, curBufId, bufCh, mPc, mRun, seen, want, streaming, mMbx, mAck,
                     cPc, cRun, cMain, cLive, cBuf, poked, cMbx, uPc, memory, fault, uAck>>
    BY <1>0 DEF DemuxPut, cap, ui
<1>2. /\ b \in Buffers /\ b = tmpDemuxQue[1] /\ m \in Nat \ {0}
      /\ tmpDemuxQue' \in Seq(Buffers) /\ Len(tmpDemuxQue') = m - 1
      /\ \A i \in 1 .. m - 1 : tmpDemuxQue'[i] = tmpDemuxQue[i + 1]
    BY <1>0, <1>1, Taken DEF MInv, TypeOK
<1>3. /\ n \in Nat /\ fullQue' \in Seq(Buffers \cup {Poison}) /\ Len(fullQue') = n + 1
      /\ \A i \in 1 .. n + 1 : fullQue'[i] = IF i = n + 1 THEN b ELSE fullQue[i]
    <2>1. fullQue \in Seq(Buffers \cup {Poison}) /\ b \in Buffers \cup {Poison}
        BY <1>2 DEF MInv, TypeOK
    <2> QED
        BY <1>0, <1>1, <2>1, Appended
<1>4. TypeOK'
    BY <1>1, <1>2, <1>3 DEF MInv, TypeOK
<1>5. At(b, "tmpDemuxQue", 0, 1)
    BY <1>0, <1>2 DEF At
<1>6. \A c, k, x, i :
          At(c, k, x, i)' <=>
              \/ c = b /\ k = "fullQue" /\ x = 0 /\ i = n + 1
              \/ k = "tmpDemuxQue" /\ i \in Nat \ {0} /\ At(c, k, x, i + 1)
              \/ k # "tmpDemuxQue" /\ At(c, k, x, i)
    BY <1>0, <1>1, <1>2, <1>3 DEF At
<1>7. \A c, x, i : At(c, "tmpDemuxQue", x, i) => i \in 1 .. m /\ (i = 1 => c = b)
    BY <1>0, <1>2 DEF At
<1>8. \A c, x, i : At(c, "fullQue", x, i) => i \in 1 .. n
    BY <1>0 DEF At
<1>9. OnePlace'
    <2>1. \A c \in Buffers : \A k, x, i, l, y, j :
              At(c, k, x, i) /\ At(c, l, y, j) => k = l /\ x = y /\ i = j
        BY DEF MInv, OnePlace
    <2>2. \A k, x, i : At(b, k, x, i)' => k = "fullQue" /\ x = 0 /\ i = n + 1
        BY <1>2, <1>5, <1>6, <2>1
    <2>3. SUFFICES ASSUME NEW c \in Buffers, c # b, NEW k, NEW x, NEW i, NEW l, NEW y, NEW j,
                          At(c, k, x, i)', At(c, l, y, j)'
                   PROVE  k = l /\ x = y /\ i = j
        BY <2>2 DEF OnePlace
    <2>4. \/ k = "tmpDemuxQue" /\ i \in Nat /\ At(c, k, x, i + 1)
          \/ k # "tmpDemuxQue" /\ At(c, k, x, i)
        BY <1>6, <2>3
    <2>5. \/ l = "tmpDemuxQue" /\ j \in Nat /\ At(c, l, y, j + 1)
          \/ l # "tmpDemuxQue" /\ At(c, l, y, j)
        BY <1>6, <2>3
    <2> QED
        BY <2>1, <2>4, <2>5
<1>10. Covered'
    <2>1. \A c \in Buffers : (\E k, x, i : At(c, k, x, i)) => \E k, x, i : At(c, k, x, i)'
        <3> SUFFICES ASSUME NEW c \in Buffers, NEW k, NEW x, NEW i, At(c, k, x, i)
                     PROVE  \E l, y, j : At(c, l, y, j)'
            OBVIOUS
        <3>1. CASE k # "tmpDemuxQue"
            BY <1>6, <3>1
        <3>2. CASE c = b
            BY <1>6, <3>2
        <3>3. CASE k = "tmpDemuxQue" /\ c # b
            <4>1. i \in 1 .. m /\ i # 1
                BY <1>7, <3>3
            <4>2. i - 1 \in Nat \ {0} /\ (i - 1) + 1 = i
                BY <1>2, <4>1
            <4> QED
                BY <1>6, <3>3, <4>2
        <3> QED
            BY <3>1, <3>2, <3>3
    <2> QED
        BY <1>1, <2>1 DEF MInv, Covered
<1>11. Homed'
    BY <1>1, <1>2, <1>5, <1>6 DEF MInv, Homed
<1>12. Spare'
    <2>1. PICK s \in Buffers : \A k, x, i : At(s, k, x, i) => k = "curBufId"
        BY DEF MInv, Spare
    <2>2. s # b
        BY <1>5, <2>1
    <2> QED
        BY <1>6, <2>1, <2>2 DEF Spare
<1>13. PoisonLast'
    BY <1>1 DEF MInv, PoisonLast, Onward
<1>14. PoisonEndsRun'
    <2>1. \A i \in 1 .. n : fullQue[i] \in Buffers
        BY <1>0, <1>1 DEF MInv, PoisonEndsRun, MRunning
    <2> QED
        BY <1>2, <1>3, <2>1 DEF PoisonEndsRun
<1> QED
    BY <1>4, <1>9, <1>10, <1>11, <1>12, <1>13, <1>14 DEF BuffersInv

LEMMA MExitStep ==
    ASSUME MInv, ~ fault, MExit, Onward
    PROVE  TypeOK' /\ BuffersInv'
<1>0. PICK n : n = Len(fullQue)
    OBVIOUS
<1>1. /\ mPc = "exit" /\ mPc' = "main"
      /\ fullQue' = Append(fullQue, Poison)
      /\ streaming' = FALSE /\ mAck' \in {mAck, "SOK"}
      /\ UNCHANGED <<emptyQue, curBufId, bufCh, mRun, tmpDemuxQue, seen, want, mMbx,
                     cPc, cRun, cMain, cLive, cBuf, poked, cMbx, uPc, memory, fault, uAck>>
    BY DEF MExit, cap, ui
<1>2. /\ n \in Nat /\ fullQue' \in Seq(Buffers \cup {Poison}) /\ Len(fullQue') = n + 1
      /\ \A i \in 1 .. n + 1 : fullQue'[i] = IF i = n + 1 THEN Poison ELSE fullQue[i]
    <2>1. fullQue \in Seq(Buffers \cup {Poison}) /\ Poison \in Buffers \cup {Poison}
        BY DEF MInv, TypeOK
    <2> QED
        BY <1>0, <1>1, <2>1, Appended
<1>3. TypeOK'
    BY <1>1, <1>2 DEF MInv, TypeOK
<1>4. \A c \in Buffers : \A k, x, i : At(c, k, x, i)' <=> At(c, k, x, i)
    BY <1>0, <1>1, <1>2, Numbers DEF At
<1>5. OnePlace' /\ Homed' /\ Spare'
    BY <1>1, <1>4 DEF MInv, OnePlace, Homed, Spare
<1>6. Covered'
    BY <1>1, <1>4 DEF MInv, Covered
<1>7. PoisonLast'
    BY <1>1 DEF MInv, PoisonLast, Onward
<1>8. PoisonEndsRun'
    <2>1. ~ Unstarted'
        BY <1>1 DEF MInv, TypeOK, Commands, McvipState, CaptureState, Unstarted, CRunning
    <2> QED
        BY <1>1, <2>1 DEF PoisonEndsRun, MRunning
<1> QED
    BY <1>3, <1>5, <1>6, <1>7, <1>8 DEF BuffersInv

LEMMA CPokeStep ==
    ASSUME MInv, ~ fault, CPoke, Onward
    PROVE  TypeOK' /\ BuffersInv'
<1>0. PICK p, n : p = poked /\ n = Len(emptyQue[p])
    OBVIOUS
<1>1. /\ cPc = "stop" /\ p < NumCh
      /\ emptyQue' = [emptyQue EXCEPT ![p] = Append(@, Poison)]
      /\ poked' = p + 1
      /\ UNCHANGED <<fullQue, curBufId, bufCh, mPc, mRun, tmpDemuxQue, seen, want, streaming, mMbx,
                     mAck, cPc, cRun, cMain, cLive, cBuf, cMbx, uPc, memory, fault, uAck>>
    BY <1>0 DEF CPoke, mcvip, ui
<1>2. p \in Channels
    BY <1>0, <1>1, NumChAssumption DEF MInv, TypeOK, Channels
<1>3. /\ n \in Nat /\ emptyQue'[p] \in Seq(Buffers \cup {Poison}) /\ Len(emptyQue'[p]) = n + 1
      /\ \A i \in 1 .. n + 1 : emptyQue'[p][i] = IF i = n + 1 THEN Poison ELSE emptyQue[p][i]
      /\ \A ch \in Channels \ {p} : emptyQue'[ch] = emptyQue[ch]
    <2>1. emptyQue[p] \in Seq(Buffers \cup {Poison}) /\ Poison \in Buffers \cup {Poison}
        BY <1>2 DEF MInv, TypeOK
    <2>2. emptyQue'[p] = Append(emptyQue[p], Poison)
          /\ \A ch \in Channels \ {p} : emptyQue'[ch] = emptyQue[ch]
        BY <1>1, <1>2 DEF MInv, TypeOK
    <2> QED
        BY <1>0, <2>1, <2>2, Appended
<1>4. TypeOK'
    <2>1. emptyQue' \in [Channels -> Seq(Buffers \cup {Poison})]
        BY <1>1, <1>2, <1>3 DEF MInv, TypeOK
    <2>2. poked' \in 0 .. NumCh
        BY <1>0, <1>1, NumChAssumption DEF MInv, TypeOK
    <2> QED
        BY <1>1, <2>1, <2>2 DEF MInv, TypeOK
<1>5. \A c \in Buffers : \A k, x, i : At(c, k, x, i)' <=> At(c, k, x, i)
    BY <1>0, <1>1, <1>2, <1>3, Numbers DEF At
<1>6. OnePlace' /\ Homed' /\ Spare'
    BY <1>1, <1>5 DEF MInv, OnePlace, Homed, Spare
<1>7. Covered'
    BY <1>1, <1>5 DEF MInv, Covered
<1>8. PoisonLast'
    <2>1. ~ Poked(p) /\ Poked(p)'
        BY <1>0, <1>1, <1>2 DEF Poked, Channels
    <2>2. curBufId'[p] # Poison /\ \A i \in 1 .. n : emptyQue[p][i] # Poison
        BY <1>0, <1>1, <1>2, <2>1 DEF MInv, PoisonLast
    <2>3. \A i \in 1 .. Len(emptyQue'[p]) :
              emptyQue'[p][i] = Poison => Poked(p)' /\ i = Len(emptyQue'[p])
        BY <1>3, <2>1, <2>2
    <2>4. \A ch \in Channels \ {p} :
              /\ \A i \in 1 .. Len(emptyQue'[ch]) :
                    emptyQue'[ch][i] = Poison => Poked(ch)' /\ i = Len(emptyQue'[ch])
              /\ curBufId'[ch] = Poison => Poked(ch)' /\ emptyQue'[ch] = << >>
        BY <1>1, <1>3 DEF MInv, PoisonLast, Onward
    <2> QED
        BY <2>2, <2>3, <2>4 DEF PoisonLast
<1>9. PoisonEndsRun'
    BY <1>1 DEF MInv, PoisonEndsRun, Onward
<1> QED
    BY <1>4, <1>6, <1>7, <1>8, <1>9 DEF BuffersInv

LEMMA CGetBufStep ==
    ASSUME MInv, ~ fault, CGetBuf, Onward
    PROVE  TypeOK' /\ BuffersInv'
<1>0. PICK b, n : b = Head(fullQue) /\ n = Len(fullQue)
    OBVIOUS
<1>1. /\ cPc = "getBuf" /\ fullQue # << >>
      /\ fullQue' = Tail(fullQue)
      /\ IF b \in Buffers THEN cBuf' = b /\ cPc' = "process" ELSE cBuf' = cBuf /\ cPc' = "stop"
      /\ UNCHANGED <<emptyQue, curBufId, bufCh, mPc, mRun, tmpDemuxQue, seen, want, streaming,
                     mMbx, mAck, cRun, cMain, cLive, poked, cMbx, uPc, memory, fault, uAck>>
    BY <1>0 DEF CGetBuf, mcvip, ui
<1>2. /\ b \in Buffers \cup {Poison} /\ b = fullQue[1] /\ n \in Nat \ {0}
      /\ fullQue' \in Seq(Buffers \cup {Poison}) /\ Len(fullQue') = n - 1
      /\ \A i \in 1 .. n - 1 : fullQue'[i] = fullQue[i + 1]
    BY <1>0, <1>1, Taken DEF MInv, TypeOK
<1>3. TypeOK'
    BY <1>1, <1>2 DEF MInv, TypeOK
<1>4. At(b, "fullQue", 0, 1) /\ cBuf \notin Buffers
    BY <1>0, <1>1, <1>2 DEF At, MInv, Commands, MemoryState, Processing
<1>5. \A c \in Buffers : \A k, x, i :
          At(c, k, x, i)' <=>
              \/ c = b /\ k = "cBuf" /\ x = 0 /\ i = 0
              \/ k = "fullQue" /\ i \in Nat \ {0} /\ At(c, k, x, i + 1)
              \/ k # "fullQue" /\ At(c, k, x, i)
    BY <1>0, <1>1, <1>2, <1>4 DEF At
<1>6. \A c, x, i : At(c, "fullQue", x, i) => i \in 1 .. n /\ (i = 1 => c = b)
    BY <1>0, <1>2 DEF At
<1>7. \A c \in Buffers : \A x, i : ~ At(c, "cBuf", x, i)
    BY <1>4 DEF At
<1>8. OnePlace'
    <2>1. \A c \in Buffers : \A k, x, i, l, y, j :
              At(c, k, x, i) /\ At(c, l, y, j) => k = l /\ x = y /\ i = j
        BY DEF MInv, OnePlace
    <2>2. b \in Buffers => \A k, x, i : At(b, k, x, i)' => k = "cBuf" /\ x = 0 /\ i = 0
        BY <1>2, <1>4, <1>5, <2>1
    <2>3. SUFFICES ASSUME NEW c \in Buffers, c # b, NEW k, NEW x, NEW i, NEW l, NEW y, NEW j,
                          At(c, k, x, i)', At(c, l, y, j)'
                   PROVE  k = l /\ x = y /\ i = j
        BY <2>2 DEF OnePlace
    <2>4. \/ k = "fullQue" /\ i \in Nat /\ At(c, k, x, i + 1)
          \/ k # "fullQue" /\ At(c, k, x, i)
        BY <1>5, <2>3
    <2>5. \/ l = "fullQue" /\ j \in Nat /\ At(c, l, y, j + 1)
          \/ l # "fullQue" /\ At(c, l, y, j)
        BY <1>5, <2>3
    <2> QED
        BY <2>1, <2>4, <2>5
<1>9. Covered'
    <2>1. \A c \in Buffers : (\E k, x, i : At(c, k, x, i)) => \E k, x, i : At(c, k, x, i)'
        <3> SUFFICES ASSUME NEW c \in Buffers, NEW k, NEW x, NEW i, At(c, k, x, i)
                     PROVE  \E l, y, j : At(c, l, y, j)'
            OBVIOUS
        <3>1. CASE k # "fullQue"
            BY <1>5, <3>1
        <3>2. CASE c = b
            BY <1>5, <3>2
        <3>3. CASE k = "fullQue" /\ c # b
            <4>1. i \in 1 .. n /\ i # 1
                BY <1>6, <3>3
            <4>2. i - 1 \in Nat \ {0} /\ (i - 1) + 1 = i
                BY <1>2, <4>1
            <4> QED
                BY <1>5, <3>3, <4>2
        <3> QED
            BY <3>1, <3>2, <3>3
    <2> QED
        BY <1>1, <2>1 DEF MInv, Covered
<1>10. Homed'
    BY <1>1, <1>4, <1>5 DEF MInv, Homed
<1>11. Spare'
    <2>1. PICK s \in Buffers : \A k, x, i : At(s, k, x, i) => k = "curBufId"
        BY DEF MInv, Spare
    <2>2. s # b
        BY <1>4, <2>1
    <2> QED
        BY <1>5, <2>1, <2>2 DEF Spare
<1>12. PoisonLast'
    BY <1>1 DEF MInv, PoisonLast, Onward
<1>13. PoisonEndsRun'
    <2>1. SUFFICES ASSUME NEW i \in 1 .. n - 1, mPc' \in MRunning \/ Unstarted'
                   PROVE  fullQue'[i] \in Buffers
        BY <1>2 DEF PoisonEndsRun
    <2>2. \A j \in 1 .. n : fullQue[j] \in Buffers
        BY <1>0, <2>1 DEF MInv, PoisonEndsRun, Onward
    <2>3. i + 1 \in 1 .. n /\ fullQue'[i] = fullQue[i + 1]
        BY <1>2
    <2> QED
        BY <2>2, <2>3
<1> QED
    BY <1>3, <1>8, <1>9, <1>10, <1>11, <1>12, <1>13 DEF BuffersInv

LEMMA CPutBufStep ==
    ASSUME MInv, ~ fault, CPutBuf, Onward
    PROVE  TypeOK' /\ BuffersInv'
<1>0. PICK b, h, n : b = cBuf /\ h = bufCh[b] /\ n = Len(emptyQue[h])
    OBVIOUS
<1>1. /\ cPc = "putBuf" /\ cPc' = "check" /\ cBuf' = NoBuf
      /\ emptyQue' = [emptyQue EXCEPT ![h] = Append(@, b)]
      /\ UNCHANGED <<fullQue, curBufId, bufCh, mPc, mRun, tmpDemuxQue, seen, want, streaming,
                     mMbx, mAck, cRun, cMain, cLive, poked, cMbx, uPc, memory, fault, uAck>>
    BY <1>0 DEF CPutBuf, mcvip, ui
<1>2. b \in Buffers
    BY <1>0, <1>1 DEF MInv, Commands, MemoryState, Processing
<1>3. At(b, "cBuf", 0, 0)
    BY <1>0 DEF At
<1>4. h = ChOf(b) /\ h \in Channels
    BY <1>0, <1>2, <1>3, DealtFrom DEF MInv, Homed
<1>5. /\ n \in Nat /\ emptyQue'[h] \in Seq(Buffers \cup {Poison}) /\ Len(emptyQue'[h]) = n + 1
      /\ \A i \in 1 .. n + 1 : emptyQue'[h][i] = IF i = n + 1 THEN b ELSE emptyQue[h][i]
      /\ \A ch \in Channels \ {h} : emptyQue'[ch] = emptyQue[ch]
    <2>1. emptyQue[h] \in Seq(Buffers \cup {Poison}) /\ b \in Buffers \cup {Poison}
        BY <1>2, <1>4 DEF MInv, TypeOK
    <2>2. emptyQue'[h] = Append(emptyQue[h], b)
          /\ \A ch \in Channels \ {h} : emptyQue'[ch] = emptyQue[ch]
        BY <1>1, <1>4 DEF MInv, TypeOK
    <2> QED
        BY <1>0, <2>1, <2>2, Appended
<1>6. TypeOK'
    <2>1. emptyQue' \in [Channels -> Seq(Buffers \cup {Poison})]
        BY <1>1, <1>4, <1>5 DEF MInv, TypeOK
    <2> QED
        BY <1>1, <2>1 DEF MInv, TypeOK
<1>7. \A c \in Buffers : \A k, x, i :
          At(c, k, x, i)' <=>
              \/ c = b /\ k = "emptyQue" /\ x = h /\ i = n + 1
              \/ k # "cBuf" /\ At(c, k, x, i)
    BY <1>0, <1>1, <1>2, <1>4, <1>5, Numbers DEF At
<1>8. \A c, x, i : At(c, "cBuf", x, i) => c = b
    BY <1>0 DEF At
<1>9. OnePlace'
    <2>1. \A c \in Buffers : \A k, x, i, l, y, j :
              At(c, k, x, i) /\ At(c, l, y, j) => k = l /\ x = y /\ i = j
        BY DEF MInv, OnePlace
    <2>2. \A k, x, i : At(b, k, x, i)' => k = "emptyQue" /\ x = h /\ i = n + 1
        BY <1>2, <1>3, <1>7, <2>1
    <2> QED
        BY <1>7, <2>1, <2>2 DEF OnePlace
<1>10. Covered'
    <2>1. \A c \in Buffers : (\E k, x, i : At(c, k, x, i)) => \E k, x, i : At(c, k, x, i)'
        BY <1>7, <1>8
    <2> QED
        BY <1>1, <2>1 DEF MInv, Covered
<1>11. Homed'
    BY <1>1, <1>4, <1>7 DEF MInv, Homed
<1>12. Spare'
    <2>1. PICK s \in Buffers : \A k, x, i : At(s, k, x, i) => k = "curBufId"
        BY DEF MInv, Spare
    <2>2. s # b
        BY <1>3, <2>1
    <2> QED
        BY <1>7, <2>1, <2>2 DEF Spare
<1>13. PoisonLast'
    <2>1. ~ Poked(h)
        BY <1>1 DEF Poked
    <2>2. curBufId'[h] # Poison /\ \A i \in 1 .. n : emptyQue[h][i] # Poison
        BY <1>0, <1>1, <1>4, <2>1 DEF MInv, PoisonLast
    <2>3. \A i \in 1 .. Len(emptyQue'[h]) : emptyQue'[h][i] # Poison
        BY <1>2, <1>5, <2>2, Numbers
    <2>4. \A ch \in Channels \ {h} :
              /\ \A i \in 1 .. Len(emptyQue'[ch]) :
                    emptyQue'[ch][i] = Poison => Poked(ch)' /\ i = Len(emptyQue'[ch])
              /\ curBufId'[ch] = Poison => Poked(ch)' /\ emptyQue'[ch] = << >>
        BY <1>1, <1>5 DEF MInv, PoisonLast, Onward
    <2> QED
        BY <2>2, <2>3, <2>4 DEF PoisonLast
<1>14. PoisonEndsRun'
    BY <1>1 DEF MInv, PoisonEndsRun, Onward
<1> QED
    BY <1>6, <1>9, <1>10, <1>11, <1>12, <1>13, <1>14 DEF BuffersInv

LEMMA DemuxGetStep ==
    ASSUME MInv, ~ fault, DemuxGet, Onward
    PROVE  TypeOK' /\ BuffersInv'
<1>0. PICK w, new, old, n, m :
          w = want /\ new = Head(emptyQue[w]) /\ old = curBufId[w] /\ n = Len(emptyQue[w])
          /\ m = Len(tmpDemuxQue)
    OBVIOUS
<1>1. /\ mPc = "getEmpty" /\ emptyQue[w] # << >>
      /\ emptyQue' = [emptyQue EXCEPT ![w] = Tail(@)]
      /\ curBufId' = [curBufId EXCEPT ![w] = new]
      /\ IF new = Poison
         THEN tmpDemuxQue' = << >> /\ mPc' \in {"check", "exit"} /\ bufCh' = bufCh
         ELSE /\ tmpDemuxQue' = Append(tmpDemuxQue, old)
              /\ mPc' = "demux"
              /\ bufCh' = [bufCh EXCEPT ![new] = w]
      /\ fault' = (old = Poison)
      /\ UNCHANGED <<fullQue, mRun, seen, want, streaming, mMbx, mAck, cPc, cRun, cMain, cLive,
                     cBuf, poked, cMbx, uPc, memory, uAck>>
    BY <1>0 DEF DemuxGet, AfterDemux, cap
<1>2. w \in Channels /\ old \in Buffers \cup {Poison}
    BY <1>0 DEF MInv, TypeOK
<1>3. /\ new \in Buffers \cup {Poison} /\ new = emptyQue[w][1] /\ n \in Nat \ {0}
      /\ emptyQue'[w] \in Seq(Buffers \cup {Poison}) /\ Len(emptyQue'[w]) = n - 1
      /\ \A i \in 1 .. n - 1 : emptyQue'[w][i] = emptyQue[w][i + 1]
      /\ \A ch \in Channels \ {w} : emptyQue'[ch] = emptyQue[ch]
    <2>1. emptyQue[w] \in Seq(Buffers \cup {Poison})
        BY <1>2 DEF MInv, TypeOK
    <2>2. emptyQue'[w] = Tail(emptyQue[w])
          /\ \A ch \in Channels \ {w} : emptyQue'[ch] = emptyQue[ch]
        BY <1>1, <1>2 DEF MInv, TypeOK
    <2>3. emptyQue[w] # << >>
        BY <1>1
    <2> HIDE <1>1
    <2> QED
        BY <1>0, <2>1, <2>2, <2>3, Taken
<1>4. curBufId'[w] = new /\ \A ch \in Channels \ {w} : curBufId'[ch] = curBufId[ch]
    BY <1>1, <1>2 DEF MInv, TypeOK
<1>5. old # Poison /\ old \in Buffers /\ ~ fault'
    BY <1>0, <1>1, <1>2 DEF MInv, PoisonLast
<1>6. new = Poison => n = 1 /\ Poked(w)
    <2>1. 1 \in 1 .. Len(emptyQue[w]) /\ emptyQue[w][1] = new
        BY <1>0, <1>3
    <2> QED
        BY <1>0, <1>2, <2>1 DEF MInv, PoisonLast
<1>7. At(new, "emptyQue", w, 1) /\ At(old, "curBufId", w, 0)
    BY <1>0, <1>2, <1>3 DEF At
<1>8. \A c, i : /\ At(c, "curBufId", w, i) => c = old /\ i = 0
                /\ At(c, "emptyQue", w, i) => i \in 1 .. n /\ (i = 1 => c = new)
    BY <1>0, <1>3 DEF At
<1>9. emptyQue' \in [Channels -> Seq(Buffers \cup {Poison})]
      /\ curBufId' \in [Channels -> Buffers \cup {Poison}]
    BY <1>1, <1>2, <1>3 DEF MInv, TypeOK
<1>10. PoisonLast'
    <2>1. \A ch \in Channels \ {w} :
              /\ \A i \in 1 .. Len(emptyQue'[ch]) :
                    emptyQue'[ch][i] = Poison => Poked(ch)' /\ i = Len(emptyQue'[ch])
              /\ curBufId'[ch] = Poison => Poked(ch)' /\ emptyQue'[ch] = << >>
        BY <1>3, <1>4 DEF MInv, PoisonLast, Onward
    <2>2. ASSUME NEW i \in 1 .. n - 1, emptyQue'[w][i] = Poison
          PROVE  Poked(w)' /\ i = n - 1
        <3>1. i + 1 \in 1 .. n /\ emptyQue[w][i + 1] = Poison
            BY <1>3, <2>2
        <3>2. Poked(w) /\ i + 1 = n
            BY <1>0, <1>2, <3>1 DEF MInv, PoisonLast
        <3> QED
            BY <1>2, <1>3, <3>2 DEF Onward
    <2>3. curBufId'[w] = Poison => Poked(w)' /\ emptyQue'[w] = << >>
        <3>1. new = Poison => Len(emptyQue'[w]) = 0
            BY <1>3, <1>6
        <3> QED
            BY <1>2, <1>3, <1>4, <1>6, <3>1, EmptySeq DEF Onward
    <2> QED
        BY <1>3, <2>1, <2>2, <2>3 DEF PoisonLast
<1>11. PoisonEndsRun'
    BY <1>1 DEF MInv, PoisonEndsRun, Onward
<1>12. \A c \in Buffers : \A k, x, i, l, y, j :
           At(c, k, x, i) /\ At(c, l, y, j) => k = l /\ x = y /\ i = j
    BY DEF MInv, OnePlace
<1>13. CASE new = Poison
    <2>1. emptyQue'[w] = << >> /\ tmpDemuxQue' = << >> /\ Len(tmpDemuxQue') = 0
        <3>1. Len(emptyQue'[w]) = 0
            BY <1>3, <1>6, <1>13
        <3> QED
            BY <1>1, <1>3, <1>13, <3>1, EmptySeq
    <2>2. TypeOK'
        BY <1>1, <1>5, <1>9, <1>13, EmptySeq DEF MInv, TypeOK
    <2>3. \A c \in Buffers : \A k, x, i :
              At(c, k, x, i)' =>
                  ~ (k \in {"emptyQue", "curBufId"} /\ x = w) /\ At(c, k, x, i)
        BY <1>1, <1>3, <1>4, <1>13, <2>1, Numbers, EmptySeq DEF At
    <2>4. OnePlace' /\ Homed'
        BY <1>1, <1>12, <1>13, <2>3 DEF MInv, OnePlace, Homed
    <2>5. Covered'
        <3>1. Poison \in Range(curBufId')
            BY <1>2, <1>4, <1>9, <1>13 DEF Range
        <3> QED
            BY <3>1 DEF Covered
    <2>6. Spare'
        BY <1>5, <1>7, <1>12, <2>3 DEF Spare
    <2> QED
        BY <1>10, <1>11, <2>2, <2>4, <2>5, <2>6 DEF BuffersInv
<1>14. CASE new # Poison
    <2>1. new \in Buffers /\ tmpDemuxQue' = Append(tmpDemuxQue, old)
        BY <1>1, <1>3, <1>14
    <2>2. /\ m \in Nat /\ tmpDemuxQue' \in Seq(Buffers) /\ Len(tmpDemuxQue') = m + 1
          /\ \A i \in 1 .. m + 1 :
                 tmpDemuxQue'[i] = IF i = m + 1 THEN old ELSE tmpDemuxQue[i]
        BY <1>0, <1>5, <2>1, Appended DEF MInv, TypeOK
    <2>3. TypeOK'
        <3>1. bufCh' \in [Buffers -> Channels \cup {-1}]
            BY <1>1, <1>2, <1>14, <2>1 DEF MInv, TypeOK
        <3>2. mPc' = "demux" /\ fault' = FALSE
            BY <1>1, <1>5, <1>14
        <3> QED
            BY <1>1, <1>9, <2>2, <3>1, <3>2 DEF MInv, TypeOK
    <2>4. \A c \in Buffers : \A k, x, i :
              At(c, k, x, i)' <=>
                  \/ c = new /\ k = "curBufId" /\ x = w /\ i = 0
                  \/ c = old /\ k = "tmpDemuxQue" /\ x = 0 /\ i = m + 1
                  \/ k = "emptyQue" /\ x = w /\ i \in Nat \ {0} /\ At(c, k, x, i + 1)
                  \/ ~ (k \in {"emptyQue", "curBufId"} /\ x = w) /\ At(c, k, x, i)
        <3>1. \A c, x, i : At(c, "emptyQue", x, i)' <=>
                  \/ x = w /\ i \in Nat \ {0} /\ At(c, "emptyQue", x, i + 1)
                  \/ x # w /\ At(c, "emptyQue", x, i)
            BY <1>0, <1>2, <1>3 DEF At
        <3>2. \A c, x, i : At(c, "curBufId", x, i)' <=>
                  \/ c = new /\ x = w /\ i = 0
                  \/ x # w /\ At(c, "curBufId", x, i)
            BY <1>2, <1>4 DEF At
        <3>3. \A c, x, i : At(c, "tmpDemuxQue", x, i)' <=>
                  \/ c = old /\ x = 0 /\ i = m + 1
                  \/ At(c, "tmpDemuxQue", x, i)
            BY <1>0, <2>2 DEF At
        <3>4. \A c, k, x, i : k \notin {"emptyQue", "curBufId", "tmpDemuxQue"} =>
                  (At(c, k, x, i)' <=> At(c, k, x, i))
            BY <1>1 DEF At
        <3> QED
            BY <3>1, <3>2, <3>3, <3>4
    <2>5. old # new
        BY <1>5, <1>7, <1>12
    <2>6. \A k, x, i : /\ At(new, k, x, i)' => k = "curBufId" /\ x = w /\ i = 0
                       /\ At(old, k, x, i)' => k = "tmpDemuxQue" /\ x = 0 /\ i = m + 1
        BY <1>3, <1>5, <1>7, <1>12, <2>1, <2>4, <2>5
    <2>7. OnePlace'
        <3> SUFFICES ASSUME NEW c \in Buffers, c # new, c # old,
                            NEW k, NEW x, NEW i, NEW l, NEW y, NEW j,
                            At(c, k, x, i)', At(c, l, y, j)'
                     PROVE  k = l /\ x = y /\ i = j
            BY <2>6 DEF OnePlace
        <3>1. \/ k = "emptyQue" /\ x = w /\ i \in Nat /\ At(c, k, x, i + 1)
              \/ ~ (k = "emptyQue" /\ x = w) /\ At(c, k, x, i)
            BY <2>4
        <3>2. \/ l = "emptyQue" /\ y = w /\ j \in Nat /\ At(c, l, y, j + 1)
              \/ ~ (l = "emptyQue" /\ y = w) /\ At(c, l, y, j)
            BY <2>4
        <3> QED
            BY <1>12, <3>1, <3>2
    <2>8. Covered'
        <3>1. \A c \in Buffers : (\E k, x, i : At(c, k, x, i)) => \E k, x, i : At(c, k, x, i)'
            <4> SUFFICES ASSUME NEW c \in Buffers, NEW k, NEW x, NEW i, At(c, k, x, i)
                         PROVE  \E l, y, j : At(c, l, y, j)'
                OBVIOUS
            <4>1. CASE c \in {new, old}
                BY <2>4, <4>1
            <4>2. CASE ~ (k \in {"emptyQue", "curBufId"} /\ x = w)
                BY <2>4, <4>2
            <4>3. CASE k = "emptyQue" /\ x = w /\ c # new
                <5>1. i \in 1 .. n /\ i # 1
                    BY <1>8, <4>3
                <5>2. i - 1 \in Nat \ {0} /\ (i - 1) + 1 = i
                    BY <1>3, <5>1
                <5> QED
                    BY <2>4, <4>3, <5>2
            <4>4. CASE k = "curBufId" /\ x = w /\ c # old
                BY <1>8, <4>4
            <4> QED
                BY <4>1, <4>2, <4>3, <4>4
        <3>2. Poison \in Range(curBufId) => Poison \in Range(curBufId')
            <4>1. \A ch \in Channels : curBufId[ch] = Poison => curBufId'[ch] = Poison
                BY <1>0, <1>4, <1>5
            <4>2. DOMAIN curBufId = Channels /\ DOMAIN curBufId' = Channels
                BY <1>9 DEF MInv, TypeOK
            <4> QED
                BY <4>1, <4>2 DEF Range
        <3> QED
            BY <3>1, <3>2 DEF MInv, Covered
    <2>9. Homed'
        <3>1. /\ bufCh'[new] = w /\ ChOf(new) = w
              /\ \A c \in Buffers \ {new} : bufCh'[c] = bufCh[c]
            BY <1>1, <1>7, <1>14, <2>1 DEF MInv, TypeOK, Homed
        <3>2. bufCh[old] = ChOf(old)
            BY <1>5, <1>7 DEF MInv, Homed
        <3>3. SUFFICES ASSUME NEW c \in Buffers, NEW k, NEW x, NEW i, At(c, k, x, i)'
                       PROVE  /\ k \in {"emptyQue", "curBufId"} => ChOf(c) = x
                              /\ k # "emptyQue" => bufCh'[c] = ChOf(c)
            BY DEF Homed
        <3>4. CASE c \in {new, old}
            BY <2>5, <2>6, <3>1, <3>2, <3>3, <3>4
        <3>5. CASE c \notin {new, old}
            BY <2>4, <3>1, <3>3, <3>5 DEF MInv, Homed
        <3> QED
            BY <3>4, <3>5
    <2>10. Spare'
        BY <2>1, <2>6 DEF Spare
    <2> QED
        BY <1>10, <1>11, <2>3, <2>7, <2>8, <2>9, <2>10 DEF BuffersInv
<1> QED
    BY <1>13, <1>14

-----------------------------------------------------------------------------
(* Every step.                                                             *)

LEMMA UiStep ==
    ASSUME MInv, ~ fault, Ui
    PROVE  TypeOK' /\ BuffersInv'
<1> USE DEF MInv, TypeOK, mcvip, cap, queues
<1>1. UNCHANGED <<queues, tmpDemuxQue, cBuf, fault>> /\ TypeOK'
    <2>1. CASE UiStart
        BY <2>1 DEF UiStart, UiSend
    <2>2. CASE UiGiveUp
        BY <2>2 DEF UiGiveUp, UiSend
    <2>3. CASE UiStop
        BY <2>3 DEF UiStop, UiSend
    <2>4. CASE UiDelete
        BY <2>4 DEF UiDelete, UiSend
    <2>5. CASE UiAnswered
        BY <2>5 DEF UiAnswered, Commands, CaptureState
    <2> QED
        BY <2>1, <2>2, <2>3, <2>4, <2>5 DEF Ui
<1> QED
    BY <1>1, UiOnward, NothingMoves

LEMMA McvipStep ==
    ASSUME MInv, ~ fault, Mcvip
    PROVE  TypeOK' /\ BuffersInv'
<1>1. CASE DemuxGet
    BY <1>1, McvipOnward, DemuxGetStep
<1>2. CASE DemuxPut
    BY <1>2, McvipOnward, DemuxPutStep
<1>3. CASE MExit
    BY <1>3, McvipOnward, MExitStep
<1>4. CASE \/ MStart \/ MStopIdle \/ MDelete \/ MGrab \/ MTimeout
           \/ \E ch \in Channels : DemuxDone(ch)
           \/ DemuxEnd \/ DemuxReturn \/ MCheck
    <2> USE DEF MInv, TypeOK, mcvip, cap, queues, ui
    <2>1. UNCHANGED <<queues, tmpDemuxQue, cBuf, fault>> /\ TypeOK'
        <3>1. CASE MStart
            BY <3>1 DEF MStart
        <3>2. CASE MStopIdle
            BY <3>2 DEF MStopIdle
        <3>3. CASE MDelete
            BY <3>3 DEF MDelete
        <3>4. CASE MGrab
            BY <3>4 DEF MGrab
        <3>5. CASE MTimeout
            BY <3>5 DEF MTimeout
        <3>6. CASE \E ch \in Channels : DemuxDone(ch)
            BY <3>6 DEF DemuxDone
        <3>7. CASE DemuxEnd
            BY <3>7 DEF DemuxEnd
        <3>8. CASE DemuxReturn
            BY <3>8 DEF DemuxReturn, AfterDemux
        <3>9. CASE MCheck
            BY <3>9 DEF MCheck
        <3> QED
            BY <1>4, <3>1, <3>2, <3>3, <3>4, <3>5, <3>6, <3>7, <3>8, <3>9
    <2> QED
        BY <2>1, McvipOnward, NothingMoves
<1> QED
    BY <1>1, <1>2, <1>3, <1>4 DEF Mcvip

LEMMA CaptureStep ==
    ASSUME MInv, ~ fault, Capture \/ LaterStages
    PROVE  TypeOK' /\ BuffersInv'
<1>1. CASE CGetBuf
    BY <1>1, CaptureOnward, CGetBufStep DEF CGetBuf, ui
<1>2. CASE CPutBuf
    BY <1>2, CaptureOnward, CPutBufStep DEF CPutBuf, ui
<1>3. CASE CPoke
    BY <1>3, CaptureOnward, CPokeStep DEF CPoke, ui
<1>4. CASE \/ CStart \/ CStarted \/ CProcessFrame \/ CCheck \/ CSendStop \/ CStopped
           \/ CDelete \/ CDeleted \/ LaterStages
    <2> USE DEF MInv, TypeOK, mcvip, cap, queues, ui, AckMsg
    <2>1. UNCHANGED <<queues, tmpDemuxQue, cBuf>> /\ TypeOK'
        <3>1. CASE CStart
            BY <3>1 DEF CStart
        <3>2. CASE CStarted
            BY <3>2 DEF CStarted
        <3>3. CASE CCheck
            BY <3>3 DEF CCheck
        <3>4. CASE CSendStop
            BY <3>4, NumChAssumption DEF CSendStop
        <3>5. CASE CStopped
            BY <3>5 DEF CStopped
        <3>6. CASE CDelete
            BY <3>6 DEF CDelete
        <3>7. CASE CDeleted
            BY <3>7 DEF CDeleted
        <3>8. CASE CProcessFrame \/ LaterStages
            <4>1. CASE CProcessFrame
                BY <4>1 DEF CProcessFrame
            <4>2. CASE OsdAnswers
                BY <4>2 DEF OsdAnswers
            <4>3. CASE EncodeHasRoom
                BY <4>3 DEF EncodeHasRoom
            <4> QED
                BY <3>8, <4>1, <4>2, <4>3 DEF LaterStages
        <3> QED
            BY <1>4, <3>1, <3>2, <3>3, <3>4, <3>5, <3>6, <3>7, <3>8
    <2> QED
        BY <2>1, CaptureOnward, NothingMoves
<1> QED
    BY <1>1, <1>2, <1>3, <1>4 DEF Capture

LEMMA InvariantStep == MInv /\ [Next]_vars => MInv'
<1> SUFFICES ASSUME MInv, [Next]_vars
             PROVE  MInv'
    OBVIOUS
<1>1. CASE Next
    <2>1. TypeOK' /\ BuffersInv'
        BY <1>1, UiStep, McvipStep, CaptureStep DEF Next
    <2>2. Commands' /\ Undisturbed'
        BY <1>1, UiCommands, McvipCommands, CaptureCommands DEF Next
    <2> QED
        BY <2>1, <2>2 DEF MInv, BuffersInv
<1>2. CASE UNCHANGED vars
    <2>1. UNCHANGED <<queues, tmpDemuxQue, cBuf, fault>> /\ Onward
        BY <1>2 DEF vars, mcvip, cap, ui, Onward, Poked, Unstarted
    <2>2. BuffersInv'
        BY <2>1, NothingMoves
    <2>3. TypeOK'
        BY <1>2 DEF MInv, TypeOK, vars, queues, mcvip, cap, ui
    <2>4. Commands' /\ Undisturbed'
        BY <1>2 DEF MInv, vars, queues, mcvip, cap, ui, Commands, Undisturbed, McvipState, CaptureState,
                    MemoryState, Processing
    <2> QED
        BY <2>2, <2>3, <2>4 DEF MInv, BuffersInv
<1> QED
    BY <1>1, <1>2

LEMMA Initially == Init => MInv
<1> SUFFICES ASSUME Init PROVE MInv
    OBVIOUS
<1>1. ASSUME NEW ch \in Channels
      PROVE  /\ emptyQue[ch] = [i \in 1 .. BufPerCh - 1 |-> ch * BufPerCh + i]
             /\ emptyQue[ch] \in Seq(Buffers \cup {Poison}) /\ Len(emptyQue[ch]) = BufPerCh - 1
             /\ \A i \in 1 .. BufPerCh - 1 : /\ emptyQue[ch][i] = ch * BufPerCh + i
                                             /\ emptyQue[ch][i] \in Buffers
                                             /\ ChOf(emptyQue[ch][i]) = ch
                                             /\ emptyQue[ch][i] % BufPerCh = i
    <2>1. emptyQue[ch] = [i \in 1 .. BufPerCh - 1 |-> ch * BufPerCh + i]
        BY DEF Init
    <2>2. \A i \in 1 .. BufPerCh - 1 : /\ ch * BufPerCh + i \in Buffers
                                       /\ ChOf(ch * BufPerCh + i) = ch
                                       /\ (ch * BufPerCh + i) % BufPerCh = i
        BY DealtTo, BufPerChAssumption
    <2>3. BufPerCh - 1 \in Nat
        BY BufPerChAssumption
    <2>4. emptyQue[ch] \in Seq(Buffers \cup {Poison}) /\ Len(emptyQue[ch]) = BufPerCh - 1
        BY <2>1, <2>2, <2>3, IsASeq, LenProperties
    <2> QED
        BY <2>1, <2>2, <2>4
<1>2. ASSUME NEW ch \in Channels
      PROVE  /\ curBufId[ch] = ch * BufPerCh /\ curBufId[ch] \in Buffers
             /\ ChOf(curBufId[ch]) = ch /\ curBufId[ch] % BufPerCh = 0
             /\ bufCh[curBufId[ch]] = ch
    <2>1. /\ ch * BufPerCh + 0 \in Buffers
          /\ ChOf(ch * BufPerCh + 0) = ch
          /\ (ch * BufPerCh + 0) % BufPerCh = 0
        BY DealtTo, BufPerChAssumption
    <2>2. ch * BufPerCh + 0 = ch * BufPerCh
        BY TimesAdds, BufPerChAssumption DEF Channels
    <2> QED
        BY <2>1, <2>2 DEF Init, ChOf
<1>3. TypeOK
    <2>1. emptyQue \in [Channels -> Seq(Buffers \cup {Poison})]
        BY <1>1 DEF Init
    <2>2. curBufId \in [Channels -> Buffers \cup {Poison}]
        BY <1>2 DEF Init
    <2>3. bufCh \in [Buffers -> Channels \cup {-1}]
        BY DealtFrom DEF Init, ChOf
    <2>4. fullQue \in Seq(Buffers \cup {Poison}) /\ tmpDemuxQue \in Seq(Buffers)
        BY EmptySeq DEF Init
    <2>5. want \in Channels /\ poked \in 0 .. NumCh /\ cBuf \in Buffers \cup {NoBuf}
        BY Numbers, NumChAssumption DEF Init
    <2>6. /\ mPc = "main" /\ mMbx = "none" /\ mAck = "none" /\ mRun = "START"
          /\ seen = {} /\ streaming = FALSE /\ memory = TRUE /\ fault = FALSE
          /\ cPc = "main" /\ cMbx = "none" /\ cRun = "none" /\ cMain = "none"
          /\ cLive = {} /\ uPc = "created" /\ uAck = "none"
        BY DEF Init
    <2> QED
        BY <2>1, <2>2, <2>3, <2>4, <2>5, <2>6 DEF TypeOK
<1>4. Commands /\ Undisturbed
    BY Numbers DEF Init, Commands, Undisturbed, McvipState, CaptureState, MemoryState, MRunning,
                   Processing
<1>5. PoisonLast /\ PoisonEndsRun
    <2>1. Len(fullQue) = 0
        BY EmptySeq DEF Init
    <2>2. \A ch \in Channels : /\ \A i \in 1 .. Len(emptyQue[ch]) : emptyQue[ch][i] # Poison
                               /\ curBufId[ch] # Poison
        BY <1>1, <1>2, Numbers
    <2> QED
        BY <2>1, <2>2 DEF PoisonLast, PoisonEndsRun
<1>6. \A b \in Buffers : \A k, x, i :
          At(b, k, x, i) => /\ k \in {"emptyQue", "curBufId"}
                            /\ x = ChOf(b) /\ i = b % BufPerCh
                            /\ k = "curBufId" <=> i = 0
                            /\ k = "curBufId" => bufCh[b] = x
    <2> SUFFICES ASSUME NEW b \in Buffers, NEW k, NEW x, NEW i, At(b, k, x, i)
                 PROVE  /\ k \in {"emptyQue", "curBufId"}
                        /\ x = ChOf(b) /\ i = b % BufPerCh
                        /\ k = "curBufId" <=> i = 0
                        /\ k = "curBufId" => bufCh[b] = x
        OBVIOUS
    <2>1. CASE k = "emptyQue"
        <3>1. x \in Channels /\ i \in 1 .. Len(emptyQue[x]) /\ b = emptyQue[x][i]
            BY <2>1 DEF At
        <3>2. Len(emptyQue[x]) = BufPerCh - 1
            BY <1>1, <3>1
        <3>3. i \in 1 .. BufPerCh - 1 /\ i # 0
            BY <3>1, <3>2, BufPerChAssumption
        <3> QED
            BY <1>1, <2>1, <3>1, <3>3
    <2>2. CASE k = "curBufId"
        <3>1. x \in Channels /\ i = 0 /\ b = curBufId[x]
            BY <2>2 DEF At
        <3> QED
            BY <1>2, <2>2, <3>1
    <2>3. k \in {"emptyQue", "curBufId"}
        BY Numbers, EmptySeq DEF At, Init
    <2> QED
        BY <2>1, <2>2, <2>3
<1>7. OnePlace /\ Homed
    BY <1>6 DEF OnePlace, Homed
<1>8. Covered
    <2> SUFFICES ASSUME NEW b \in Buffers
                 PROVE  \E k, x, i : At(b, k, x, i)
        BY DEF Covered
    <2>1. PICK ch, i : ch = ChOf(b) /\ i = b % BufPerCh
        OBVIOUS
    <2>2. ch \in Channels /\ i \in 0 .. BufPerCh - 1 /\ b = ch * BufPerCh + i
        BY <2>1, DealtFrom
    <2>3. CASE i = 0
        <3>1. b = curBufId[ch]
            BY <1>2, <2>2, <2>3, TimesAdds, BufPerChAssumption DEF Channels
        <3> QED
            BY <2>2, <3>1 DEF At
    <2>4. CASE i # 0
        <3>1. i \in 1 .. BufPerCh - 1
            BY <2>2, <2>4, BufPerChAssumption
        <3>2. b = emptyQue[ch][i] /\ i \in 1 .. Len(emptyQue[ch])
            BY <1>1, <2>2, <3>1
        <3> QED
            BY <2>2, <3>2 DEF At
    <2> QED
        BY <2>3, <2>4
<1>9. Spare
    <2>1. curBufId[0] \in Buffers /\ curBufId[0] % BufPerCh = 0
        BY <1>2, Numbers
    <2> QED
        BY <1>6, <2>1 DEF Spare
<1> QED
    BY <1>3, <1>4, <1>5, <1>7, <1>8, <1>9 DEF MInv

\* The commands of the three threads, Poison and the places of the buffers stay
\* as MInv says in every step of capture_tsk.c, mcvip_tsk.c and mcvip_demux.c.
THEOREM CaptureInvariant == Spec => []MInv
BY Initially, InvariantStep, PTL DEF Spec

\* Every variable keeps its type: in particular the demultiplexer puts no
\* Poison aside as a filled buffer.
THEOREM TypesKept == Spec => []TypeOK
<1>1. MInv => TypeOK
    BY DEF MInv
<1> QED
    BY <1>1, CaptureInvariant, PTL

-----------------------------------------------------------------------------
(* The properties.                                                         *)

\* The two ways of naming places agree.
LEMMA PlacesAreAt ==
    ASSUME MInv
    PROVE  /\ \A p \in Places : \E k, x, i : p = <<k, x, i>> /\ At(BufAt(p), k, x, i)
           /\ \A b, k, x, i : At(b, k, x, i) => /\ <<k, x, i>> \in Places
                                                /\ BufAt(<<k, x, i>>) = b
<1>0. /\ \A ch \in Channels : DOMAIN emptyQue[ch] = 1 .. Len(emptyQue[ch])
      /\ DOMAIN tmpDemuxQue = 1 .. Len(tmpDemuxQue)
      /\ DOMAIN fullQue = 1 .. Len(fullQue)
    BY LenProperties DEF MInv, TypeOK
<1>1. \A k, x, i : /\ k = "emptyQue" => BufAt(<<k, x, i>>) = emptyQue[x][i]
                   /\ k = "curBufId" => BufAt(<<k, x, i>>) = curBufId[x]
                   /\ k = "tmpDemuxQue" => BufAt(<<k, x, i>>) = tmpDemuxQue[i]
                   /\ k = "fullQue" => BufAt(<<k, x, i>>) = fullQue[i]
                   /\ k = "cBuf" => BufAt(<<k, x, i>>) = cBuf
    BY DEF BufAt
<1> DEFINE Emp == UNION {{<<"emptyQue", ch, i>> : i \in DOMAIN emptyQue[ch]} : ch \in Channels}
           Cur == {<<"curBufId", ch, 0>> : ch \in Channels}
           Tmp == {<<"tmpDemuxQue", 0, i>> : i \in DOMAIN tmpDemuxQue}
           Ful == {<<"fullQue", 0, i>> : i \in DOMAIN fullQue}
<1>2. Places = Emp \cup Cur \cup Tmp \cup Ful \cup {<<"cBuf", 0, 0>>}
    BY DEF Places
<1>3. /\ \A p : p \in Cur <=> \E ch \in Channels : p = <<"curBufId", ch, 0>>
      /\ \A p : p \in Tmp <=> \E i \in DOMAIN tmpDemuxQue : p = <<"tmpDemuxQue", 0, i>>
      /\ \A p : p \in Ful <=> \E i \in DOMAIN fullQue : p = <<"fullQue", 0, i>>
    OBVIOUS
<1>4. \A p : p \in Emp <=> \E ch \in Channels : \E i \in DOMAIN emptyQue[ch] : p = <<"emptyQue", ch, i>>
    OBVIOUS
<1> HIDE DEF Emp, Cur, Tmp, Ful
<1>5. ASSUME NEW p \in Places
      PROVE  \E k, x, i : p = <<k, x, i>> /\ At(BufAt(p), k, x, i)
    <2>1. CASE p \in Emp
        BY <1>0, <1>1, <1>4, <2>1 DEF At
    <2>2. CASE p \in Cur
        BY <1>1, <1>3, <2>2 DEF At
    <2>3. CASE p \in Tmp
        BY <1>0, <1>1, <1>3, <2>3 DEF At
    <2>4. CASE p \in Ful
        BY <1>0, <1>1, <1>3, <2>4 DEF At
    <2>5. CASE p = <<"cBuf", 0, 0>>
        BY <1>1, <2>5 DEF At
    <2> QED
        BY <1>2, <2>1, <2>2, <2>3, <2>4, <2>5
<1>6. ASSUME NEW b, NEW k, NEW x, NEW i, At(b, k, x, i)
      PROVE  <<k, x, i>> \in Places /\ BufAt(<<k, x, i>>) = b
    <2>1. BufAt(<<k, x, i>>) = b
        BY <1>1, <1>6 DEF At
    <2>2. \/ <<k, x, i>> \in Emp \/ <<k, x, i>> \in Cur \/ <<k, x, i>> \in Tmp
          \/ <<k, x, i>> \in Ful \/ <<k, x, i>> = <<"cBuf", 0, 0>>
        BY <1>0, <1>3, <1>4, <1>6 DEF At
    <2> QED
        BY <1>2, <2>1, <2>2
<1> QED
    BY <1>5, <1>6

\* A buffer is in one place, so that no frame is read while it is overwritten;
\* none is lost before MCVIP_stop, and each stays with its channel.
THEOREM EveryBufferOwned == Spec => []BufferOwnership
<1>1. MInv => BufferOwnership
    <2> SUFFICES ASSUME MInv PROVE BufferOwnership
        OBVIOUS
    <2>1. \A p, q \in Places : BufAt(p) = BufAt(q) /\ BufAt(p) \in Buffers => p = q
        BY PlacesAreAt DEF MInv, OnePlace
    <2>2. Poison \notin Range(curBufId) => Buffers \subseteq {BufAt(p) : p \in Places}
        BY PlacesAreAt DEF MInv, Covered
    <2>3. ASSUME NEW ch \in Channels, NEW b \in (ToSet(emptyQue[ch]) \cup {curBufId[ch]}) \cap Buffers
          PROVE  ChOf(b) = ch
        <3>1. b \in Buffers /\ \E k \in {"emptyQue", "curBufId"} : \E i : At(b, k, ch, i)
            BY <2>3, LenProperties DEF ToSet, At, MInv, TypeOK
        <3> QED
            BY <3>1 DEF MInv, Homed
    <2>4. ASSUME NEW b \in (ToSet(fullQue) \cup ToSet(tmpDemuxQue) \cup {cBuf}) \cap Buffers
          PROVE  bufCh[b] = ChOf(b)
        <3>1. b \in Buffers /\ \E k \in {"fullQue", "tmpDemuxQue", "cBuf"} : \E i : At(b, k, 0, i)
            BY <2>4, LenProperties DEF ToSet, At, MInv, TypeOK
        <3> QED
            BY <3>1 DEF MInv, Homed
    <2> QED
        BY <2>1, <2>2, <2>3, <2>4 DEF BufferOwnership
<1> QED
    BY <1>1, CaptureInvariant, PTL

\* A queue that holds different things out of m, and not all of them, is
\* shorter than m.
LEMMA HasRoom ==
    ASSUME NEW m \in Nat, NEW n \in Nat, NEW f \in [1 .. n -> 0 .. m - 1], NEW s \in 0 .. m - 1,
           \A i \in 1 .. n : f[i] # s,
           \A i, j \in 1 .. n : f[i] = f[j] => i = j
    PROVE  n < m
<1> SUFFICES ASSUME n >= m PROVE FALSE
    OBVIOUS
<1> DEFINE T == (0 .. m - 1) \ {s}
<1>1. IsFiniteSet(0 .. m - 1) /\ Cardinality(0 .. m - 1) = m
    BY FS_Interval
<1>2. IsFiniteSet(T) /\ Cardinality(T) = m - 1
    BY <1>1, FS_RemoveElement
<1>3. IsFiniteSet(1 .. n) /\ Cardinality(1 .. n) = n
    BY FS_Interval
<1>4. f \in [1 .. n -> T]
    OBVIOUS
<1>5. Cardinality(T) < Cardinality(1 .. n)
    BY <1>2, <1>3
<1> HIDE DEF T
<1>6. PICK i, j \in 1 .. n : i # j /\ f[i] = f[j]
    BY <1>2, <1>3, <1>4, <1>5, FS_PigeonHole
<1> QED
    BY <1>6

\* A channel's queue, when it holds no Poison and a buffer of the channel is
\* elsewhere.
LEMMA EmptyQueHasRoom ==
    ASSUME MInv, NEW ch \in Channels, NEW s \in Buffers, ChOf(s) = ch,
           \A i \in 1 .. Len(emptyQue[ch]) : emptyQue[ch][i] \in Buffers \ {s}
    PROVE  Len(emptyQue[ch]) < EmptyQueLen
<1>0. PICK n, q : n = Len(emptyQue[ch]) /\ q = emptyQue[ch]
    OBVIOUS
<1>1. n \in Nat
    BY <1>0, LenProperties DEF MInv, TypeOK
<1> DEFINE f == [i \in 1 .. n |-> q[i] % BufPerCh]
<1>2. \A i \in 1 .. n : q[i] \in Buffers /\ q[i] # s /\ ChOf(q[i]) = ch /\ At(q[i], "emptyQue", ch, i)
    BY <1>0 DEF At, MInv, Homed
<1>3. \A b, c \in Buffers : ChOf(b) = ChOf(c) /\ b % BufPerCh = c % BufPerCh => b = c
    <2> SUFFICES ASSUME NEW b \in Buffers, NEW c \in Buffers,
                        ChOf(b) = ChOf(c), b % BufPerCh = c % BufPerCh
                 PROVE  b = c
        OBVIOUS
    <2>1. b = ChOf(b) * BufPerCh + (b % BufPerCh) /\ c = ChOf(c) * BufPerCh + (c % BufPerCh)
        BY DealtFrom
    <2> QED
        BY <2>1
<1>4. f \in [1 .. n -> 0 .. BufPerCh - 1] /\ s % BufPerCh \in 0 .. BufPerCh - 1
    BY <1>2, DealtFrom
<1>5. \A i \in 1 .. n : f[i] # s % BufPerCh
    BY <1>2, <1>3
<1>6. \A i, j \in 1 .. n : f[i] = f[j] => i = j
    <2>1. \A i, j \in 1 .. n : q[i] = q[j] => i = j
        BY <1>2 DEF MInv, OnePlace
    <2> QED
        BY <1>2, <1>3, <2>1
<1> HIDE DEF f
<1>7. n < BufPerCh
    BY <1>1, <1>4, <1>5, <1>6, HasRoom, BufPerChAssumption
<1> QED
    BY <1>0, <1>7, Numbers

\* No put with OSA_TIMEOUT_FOREVER waits: there is room for all the buffers
\* and for the Poison of one MCVIP_stop.
THEOREM PutsNeverWait == Spec => []NeverWaitsForRoom
<1>1. MInv => NeverWaitsForRoom
    <2> SUFFICES ASSUME MInv PROVE NeverWaitsForRoom
        OBVIOUS
    <2>1. ASSUME mPc \in {"putFull", "exit"}
          PROVE  Len(fullQue) < FullQueLen
        <3>1. ~ fault /\ \A i \in 1 .. Len(fullQue) : fullQue[i] \in Buffers
            BY <2>1 DEF MInv, Commands, PoisonEndsRun, MRunning
        <3>2. PICK s \in Buffers : \A k, x, i : At(s, k, x, i) => k = "curBufId"
            BY DEF MInv, Spare
        <3>3. \A i \in 1 .. Len(fullQue) : At(fullQue[i], "fullQue", 0, i)
            BY DEF At
        <3>4. \A i \in 1 .. Len(fullQue) : fullQue[i] # s
            BY <3>2, <3>3
        <3>5. \A i, j \in 1 .. Len(fullQue) : fullQue[i] = fullQue[j] => i = j
            BY <3>1, <3>3 DEF MInv, OnePlace
        <3>6. Len(fullQue) \in Nat /\ fullQue \in [1 .. Len(fullQue) -> 0 .. NumBuf - 1]
            BY <3>1, LenProperties DEF MInv, TypeOK, Buffers
        <3> QED
            BY <3>4, <3>5, <3>6, HasRoom, Numbers DEF Buffers
    <2>2. ASSUME NEW ch \in Channels, ~ fault, ~ Poked(ch)
          PROVE  \A i \in 1 .. Len(emptyQue[ch]) : emptyQue[ch][i] \in Buffers
        <3>1. emptyQue[ch] \in Seq(Buffers \cup {Poison})
            BY DEF MInv, TypeOK
        <3>2. \A i \in 1 .. Len(emptyQue[ch]) : emptyQue[ch][i] \in Buffers \cup {Poison}
            BY <3>1, ElementOfSeq
        <3> QED
            BY <2>2, <3>2 DEF MInv, PoisonLast
    <2>3. ASSUME cPc = "putBuf"
          PROVE  Len(emptyQue[bufCh[cBuf]]) < EmptyQueLen
        <3>1. ~ fault /\ cBuf \in Buffers
            BY <2>3 DEF MInv, Commands, MemoryState, Processing
        <3>2. At(cBuf, "cBuf", 0, 0)
            BY DEF At
        <3>3. PICK ch \in Channels : ch = ChOf(cBuf) /\ bufCh[cBuf] = ch
            BY <3>1, <3>2, DealtFrom DEF MInv, Homed
        <3>4. ~ Poked(ch)
            BY <2>3 DEF Poked
        <3>5. \A i \in 1 .. Len(emptyQue[ch]) : emptyQue[ch][i] # cBuf
            <4>1. \A i \in 1 .. Len(emptyQue[ch]) : At(emptyQue[ch][i], "emptyQue", ch, i)
                BY DEF At
            <4> QED
                BY <3>1, <3>2, <4>1 DEF MInv, OnePlace
        <3> QED
            BY <2>2, <3>1, <3>3, <3>4, <3>5, EmptyQueHasRoom
    <2>4. ASSUME cPc = "stop", poked < NumCh
          PROVE  Len(emptyQue[poked]) < EmptyQueLen
        <3>1. PICK ch \in Channels : ch = poked
            BY <2>4, NumChAssumption DEF MInv, TypeOK, Channels
        <3>2. ~ fault /\ ~ Poked(ch)
            BY <2>4, <3>1, NumChAssumption DEF MInv, Commands, Poked, Channels
        <3>3. curBufId[ch] \in Buffers
            BY <3>2 DEF MInv, TypeOK, PoisonLast
        <3>4. At(curBufId[ch], "curBufId", ch, 0)
            BY DEF At
        <3>5. ChOf(curBufId[ch]) = ch
            BY <3>3, <3>4 DEF MInv, Homed
        <3>6. \A i \in 1 .. Len(emptyQue[ch]) : emptyQue[ch][i] # curBufId[ch]
            <4>1. \A i \in 1 .. Len(emptyQue[ch]) : At(emptyQue[ch][i], "emptyQue", ch, i)
                BY DEF At
            <4> QED
                BY <3>3, <3>4, <4>1 DEF MInv, OnePlace
        <3> QED
            BY <2>2, <3>1, <3>2, <3>3, <3>5, <3>6, EmptyQueHasRoom
    <2> QED
        BY <2>1, <2>3, <2>4 DEF NeverWaitsForRoom
<1> QED
    BY <1>1, CaptureInvariant, PTL

\* The camera interface is off when CAPTURE_stop returns, and the buffers are
\* freed when the MCVIP task is gone.
THEOREM BuffersOutliveDma == Spec => []NoDmaAfterFree
<1>1. MInv => NoDmaAfterFree
    BY DEF MInv, TypeOK, Commands, McvipState, CaptureState, MemoryState, NoDmaAfterFree
<1> QED
    BY <1>1, CaptureInvariant, PTL

\* A command is acknowledged twice only after missed frames, when both tasks left
\* their loops unasked, and 0xFF is not used as a buffer even then.
THEOREM AckedTwiceAtOwnEnd == Spec => []FaultOnlyAtOwnEnd
<1>1. MInv => FaultOnlyAtOwnEnd
    BY MissedFramesAssumption DEF MInv, Commands, Undisturbed, FaultOnlyAtOwnEnd
<1> QED
    BY <1>1, CaptureInvariant, PTL

\* If the camera loses no frames the MCVIP task captures until it is stopped.
THEOREM CapturesUntilStopped ==
    ASSUME ~ MissedFrames
    PROVE  Spec => KeepsCapturing
<1>1. MInv /\ MInv' /\ [Next]_vars =>
          [mPc # "exit" /\ mPc' = "exit" => cPc \in {"stop", "stopping"}]_vars
    <2> SUFFICES ASSUME MInv, MInv', Next, mPc # "exit", mPc' = "exit"
                 PROVE  cPc \in {"stop", "stopping"}
        OBVIOUS
    <2>1. CASE Mcvip
        <3>1. cPc' = cPc /\ ~ fault'
            BY <2>1 DEF Mcvip, MStart, MStopIdle, MDelete, MGrab, MTimeout, DemuxDone, DemuxGet,
                        DemuxEnd, DemuxPut, DemuxReturn, MCheck, MExit, cap, MInv, Undisturbed
        <3> QED
            BY <3>1 DEF MInv, TypeOK, Commands, McvipState, Undisturbed, MRunning, Processing
    <2>2. CASE Ui \/ Capture \/ LaterStages
        <3>1. mPc' = mPc
            BY <2>2 DEF Ui, UiStart, UiGiveUp, UiStop, UiDelete, UiSend, UiAnswered, Capture,
                        CStart, CStarted, CGetBuf, CProcessFrame, CPutBuf, CCheck, CPoke, CSendStop,
                        CStopped, CDelete, CDeleted, LaterStages, OsdAnswers, EncodeHasRoom, mcvip
        <3> QED
            BY <3>1
    <2> QED
        BY <2>1, <2>2 DEF Next
<1> QED
    BY <1>1, CaptureInvariant, PTL DEF Spec, KeepsCapturing
=============================================================================
