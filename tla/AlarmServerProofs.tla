------------------------- MODULE AlarmServerProofs -------------------------
(***************************************************************************)
(* Theorems about the alarm server, for every limit, period and scenario.  *)
(***************************************************************************)
EXTENDS AlarmServer, TLAPS

\* The limit of the dispatcher's threads.
DispInv == disp \in Nat /\ DispatchBounded

\* Types of what the argument about recordings is about.
SchedType ==
    [pc : SchedPcs, saw : BOOLEAN, last : BOOLEAN, count : Int, aviRun : BOOLEAN,
     flag : BOOLEAN, state : SUBSET AviFlags, num : Int]

PollType == [pc : PollPcs, state : SUBSET AviFlags, num : Int]

Types ==
    /\ config \in [card : BOOLEAN, intervals : BOOLEAN, pictures : BOOLEAN,
                   alarms : Nat, restarts : Nat, removals : Nat]
    /\ card \in BOOLEAN /\ removals \in Nat
    /\ alarm \in BOOLEAN /\ pause \in BOOLEAN
    /\ avi \in SUBSET AviFlags /\ aviNum \in Nat /\ jpgNum \in Int
    /\ sched \in SchedType
    /\ poll \in PollType

\* The flag and the number change together.
FlagAndNumber == "NO_STOP" \in avi <=> aviNum > 0

\* A card is put in only after one was taken out.
SameCard ==
    removals = 0 => card = config.card /\ poll.pc # "mount"

\* With one card all the time, aviRun is set from the first round of an alarm
\* until the round that ends it, and StopAvi knows of what it has to stop.
StartedPcs == {"jpgcont", "jpgcont2", "show", "show2"}
RunKnown ==
    removals = 0 /\ card =>
        /\ sched.aviRun => \/ sched.last /\ sched.pc \in {"look", "avi", "show", "end", "avistop"}
                           \/ sched.saw /\ sched.pc \in StartedPcs
        /\ sched.pc \in {"avi"} \union StartedPcs => sched.saw
        /\ sched.pc # "jpg"
        /\ sched.pc = "avistop" /\ "NO_STOP" \in avi => "NO_STOP" \in sched.state

OneOwned ==
    removals = 0 => /\ aviNum \in {0, 1}
                    /\ aviNum = 1 => card /\ sched.aviRun

RecInv == Types /\ FlagAndNumber /\ SameCard /\ RunKnown /\ OneOwned

\* The number of the dispatcher's threads and its limit.
THEOREM DispInvariant == Spec => []DispInv
<1>1. Init => DispInv
    BY DispLimitAssumption DEF Init, DispInv, DispatchBounded
<1>2. DispInv /\ [Next]_vars => DispInv'
    <2> SUFFICES ASSUME DispInv, [Next]_vars PROVE DispInv'
        OBVIOUS
    <2> USE DEF DispInv, DispatchBounded
    <2>1. CASE UNCHANGED disp
        BY <2>1
    <2>2. CASE AviDispatch \/ JpgDispatch
        BY <2>2, DispLimitAssumption DEF AviDispatch, JpgDispatch, DoFileDispatch
    <2>3. CASE FileDispatcherThr
        BY <2>3, DispLimitAssumption DEF FileDispatcherThr
    <2>4. \/ UNCHANGED disp
          \/ AviDispatch \/ JpgDispatch
          \/ FileDispatcherThr
        <3>1. CASE UNCHANGED vars
            BY <3>1 DEF vars
        <3>2. CASE AddSchedule \/ AlarmOver
            BY <3>2 DEF AddSchedule, AlarmOver
        <3>3. CASE AlramScheduler
            BY <3>3 DEF AlramScheduler, SchedKeeps, Look, StartAvi, StartNothing,
               StartJpg, CountJpg, StartJpgContinue, ShowAlarm, AlarmShown, EndAvi,
               StopAvi, AviStopped, EndJpg, StopJpg, HideAlarm, AlarmHidden
        <3>4. CASE RestartAll \/ CheckSDCard
            BY <3>4 DEF RestartAll, CheckSDCard, PollKeeps, PauseAll, RestartStopsAvi,
               RestartStoppedAvi, RestartKills, RestartStopsJpg,
               RestartStopsJpgContinue, Resume, CardRemoved, CardInserted, CardMounted
        <3>5. CASE AviMngThr \/ RecorderEnds
            BY <3>5 DEF AviMngThr, RecorderEnds, AviReady, AviStatus, AviWait, AviSave,
               RecorderStarts, AviAgain, AviRecorded
        <3>6. CASE JpgMngThr \/ JpgSelfCmdThr
            BY <3>6 DEF JpgMngThr, JpgSelfCmdThr, JpgReady, JpgStatus, JpgWait,
               JpgSave, JpgShoot
        <3> QED
            BY <3>1, <3>2, <3>3, <3>4, <3>5, <3>6 DEF Next
    <2> QED
        BY <2>1, <2>2, <2>3, <2>4
<1> QED
    BY <1>1, <1>2, PTL DEF Spec

\* Whatever finds room at the dispatcher, it never has more threads than the
\* limit: DoFileDispatch (file_dispatcher.c:586) tests again what both managers
\* looked at before they recorded.
THEOREM DispatcherLimit == Spec => []DispatchBounded
<1>1. DispInv => DispatchBounded
    BY DEF DispInv
<1> QED
    BY <1>1, DispInvariant, PTL

\* Neither manager touches what the scheduler and the polling thread decide.
LEMMA ManagersKeep ==
    ASSUME \/ AddSchedule \/ AlarmOver
           \/ AviStatus \/ AviWait \/ AviSave \/ RecorderStarts \/ RecorderEnds
           \/ AviAgain \/ AviRecorded \/ AviDispatch
           \/ JpgMngThr \/ JpgSelfCmdThr \/ FileDispatcherThr
           \/ UNCHANGED vars
    PROVE  /\ UNCHANGED <<config, card, pause, removals, avi, aviNum, jpgNum, sched, poll>>
           /\ alarm' = alarm \/ alarm' \in BOOLEAN
<1>1. CASE UNCHANGED vars
    BY <1>1 DEF vars, envVars, aviVars, jpgVars
<1>2. CASE AddSchedule \/ AlarmOver
    BY <1>2 DEF AddSchedule, AlarmOver, aviVars, jpgVars
<1>3. CASE \/ AviStatus \/ AviWait \/ AviSave \/ RecorderStarts \/ RecorderEnds
           \/ AviAgain \/ AviRecorded \/ AviDispatch
    BY <1>3 DEF AviStatus, AviWait, AviSave, RecorderStarts, RecorderEnds, AviAgain,
       AviRecorded, AviDispatch, AviKeeps, envVars, jpgVars
<1>4. CASE JpgMngThr \/ JpgSelfCmdThr \/ FileDispatcherThr
    BY <1>4 DEF JpgMngThr, JpgReady, JpgStatus, JpgWait, JpgSave, JpgShoot, JpgDispatch,
       JpgSelfCmdThr, FileDispatcherThr, JpgKeeps, envVars, aviVars
<1> QED
    BY <1>1, <1>2, <1>3, <1>4

\* AviStop with what gAviState was: the number goes down by one at most, and
\* the flag goes with the last one.
LEMMA AviStopCounts ==
    ASSUME avi \in SUBSET AviFlags, aviNum \in Nat, FlagAndNumber,
           NEW state, AviStop(state)
    PROVE  /\ avi' \in SUBSET AviFlags /\ aviNum' \in Nat /\ FlagAndNumber'
           /\ aviNum' <= aviNum
           /\ "NO_STOP" \in avi' => "NO_STOP" \in avi
           /\ "NO_STOP" \in state /\ aviNum \in {0, 1} => aviNum' = 0
           /\ "NO_STOP" \in state /\ aviNum > 0 => aviNum' = aviNum - 1
<1>1. CASE AviStopNoStop(state)
    <2>1. CASE aviNum = 1
        <3>1. avi' = avi \ {"NO_STOP"} /\ aviNum' = 0
            BY <1>1, <2>1 DEF AviStopNoStop
        <3> QED
            BY <3>1, <2>1 DEF FlagAndNumber
    <2>2. CASE aviNum # 1
        <3>1. avi' = avi /\ aviNum' = IF aviNum > 0 THEN aviNum - 1 ELSE 0
            BY <1>1, <2>2 DEF AviStopNoStop
        <3> QED
            BY <3>1, <2>2 DEF FlagAndNumber
    <2> QED
        BY <2>1, <2>2
<1>2. CASE AviStopInterval(state)
    BY <1>2 DEF AviStopInterval, FlagAndNumber
<1> QED
    BY <1>1, <1>2 DEF AviStop

\* AviRun without a card leaves the number, with one it counts.
LEMMA AviRunCounts ==
    ASSUME avi \in SUBSET AviFlags, aviNum \in Nat, FlagAndNumber,
           NEW isNoStop \in BOOLEAN, AviRun(isNoStop)
    PROVE  /\ avi' \in SUBSET AviFlags /\ aviNum' \in Nat /\ FlagAndNumber'
           /\ aviNum' = IF isNoStop THEN aviNum + 1 ELSE aviNum
<1>1. CASE isNoStop /\ aviNum = 0
    <2>1. avi' = avi \union {"RUN", "NO_STOP"} /\ aviNum' = 1
        BY <1>1 DEF AviRun
    <2> QED
        BY <2>1, <1>1 DEF FlagAndNumber, AviFlags
<1>2. CASE isNoStop /\ aviNum # 0
    <2>1. avi' = avi /\ aviNum' = aviNum + 1
        BY <1>2 DEF AviRun
    <2> QED
        BY <2>1, <1>2 DEF FlagAndNumber
<1>3. CASE ~ isNoStop
    <2>1. avi' = avi \union {"RUN"} /\ aviNum' = aviNum
        BY <1>3 DEF AviRun
    <2> QED
        BY <2>1, <1>3 DEF FlagAndNumber, AviFlags
<1> QED
    BY <1>1, <1>2, <1>3

\* The invariant holds when the alarm server starts.
LEMMA RecInit == Init => RecInv
<1> SUFFICES ASSUME Init PROVE RecInv
    OBVIOUS
<1> USE DEF Init
<1>1. Types
    <2>1. config \in [card : BOOLEAN, intervals : BOOLEAN, pictures : BOOLEAN,
                      alarms : Nat, restarts : Nat, removals : Nat]
        BY ScenariosAssumption
    <2>2. sched \in SchedType
        BY DEF SchedType, SchedPcs
    <2>3. card \in BOOLEAN
        BY <2>1
    <2>4. poll \in PollType
        BY DEF PollType, PollPcs
    <2>5. alarm \in BOOLEAN /\ pause \in BOOLEAN
        OBVIOUS
    <2>6. removals \in Nat /\ aviNum \in Nat /\ jpgNum \in Int /\ avi \in SUBSET AviFlags
        OBVIOUS
    <2> HIDE DEF Init
    <2> QED
        BY <2>1, <2>2, <2>3, <2>4, <2>5, <2>6 DEF Types
<1>2. FlagAndNumber /\ SameCard /\ RunKnown /\ OneOwned
    BY DEF FlagAndNumber, SameCard, RunKnown, OneOwned, StartedPcs
<1> QED
    BY <1>1, <1>2 DEF RecInv

\* Where a thread goes and what it notes.
Noting(r, pc, n) == [r EXCEPT !.pc = pc, !.num = n]
Counting(s, pc, n) == [s EXCEPT !.pc = pc, !.count = n]

\* Both threads stay within their types when they go on with a note.
LEMMA NotingTyped ==
    ASSUME NEW s \in SchedType, NEW p \in PollType, NEW n \in Int
    PROVE  /\ \A pc \in SchedPcs : /\ Noting(s, pc, n) \in SchedType
                                   /\ Counting(s, pc, n) \in SchedType
           /\ \A pc \in PollPcs : /\ Noting(p, pc, n) \in PollType
                                  /\ Noting(p, pc, n).pc = pc
<1>1. ASSUME NEW pc \in SchedPcs
      PROVE  Noting(s, pc, n) \in SchedType
    BY DEF SchedType, Noting
<1>2. ASSUME NEW pc \in SchedPcs
      PROVE  Counting(s, pc, n) \in SchedType
    BY DEF SchedType, Counting
<1>3. ASSUME NEW pc \in PollPcs
      PROVE  Noting(p, pc, n) \in PollType /\ Noting(p, pc, n).pc = pc
    BY DEF PollType, Noting
<1> QED
    BY <1>1, <1>2, <1>3

\* The end of a round changes nothing of a recording.
LEMMA RoundIsTyped ==
    ASSUME NEW s \in SchedType
    PROVE  /\ Round(s) \in SchedType
           /\ Started(s) \in SchedType
           /\ Round(s).aviRun = s.aviRun /\ Round(s).last = s.saw /\ Round(s).pc = "look"
           /\ Started(s).aviRun = s.aviRun /\ Started(s).last = s.saw
           /\ Started(s).pc = "look"
<1>1. \A r \in SchedType, b \in BOOLEAN :
          /\ [r EXCEPT !.pc = "look", !.last = b] \in SchedType
          /\ [r EXCEPT !.pc = "look", !.last = b].aviRun = r.aviRun
          /\ [r EXCEPT !.pc = "look", !.last = b].pc = "look"
    BY DEF SchedType, SchedPcs
<1>2. \A r \in SchedType :
          /\ r.saw \in BOOLEAN
          /\ [r EXCEPT !.pc = "look", !.last = r.saw].last = r.saw
    BY DEF SchedType
<1>3. /\ [s EXCEPT !.count = Period - 1] \in SchedType
      /\ [s EXCEPT !.count = Period - 1].aviRun = s.aviRun
      /\ [s EXCEPT !.count = Period - 1].saw = s.saw
    BY PeriodAssumption DEF SchedType
<1> QED
    BY <1>1, <1>2, <1>3 DEF Round, Started

\* The scheduler keeps the invariant: Types and FlagAndNumber for each of its
\* steps from what the step changes, RunKnown and OneOwned from where it goes.
LEMMA SchedulerKeepsRecInv ==
    ASSUME RecInv, AlramScheduler
    PROVE  RecInv'
<1> USE DEF RecInv, RunKnown, OneOwned, StartedPcs
<1>0. UNCHANGED <<config, card, pause, alarm, removals, poll>>
    BY DEF AlramScheduler, SchedKeeps, envVars, Look, StartAvi, StartNothing,
       StartJpg, CountJpg, StartJpgContinue, ShowAlarm, AlarmShown, EndAvi,
       StopAvi, AviStopped, EndJpg, StopJpg, HideAlarm, AlarmHidden
<1>1. SameCard'
    BY <1>0 DEF SameCard
<1>2. sched \in SchedType /\ jpgNum \in Int
    BY DEF Types
<1>3. poll \in PollType
    BY DEF Types
<1>4. ASSUME sched' \in SchedType, jpgNum' \in Int, UNCHANGED <<avi, aviNum>>
      PROVE  Types' /\ FlagAndNumber'
    BY <1>0, <1>4 DEF Types, FlagAndNumber
<1>5. CASE Look
    <2> DEFINE s == [sched EXCEPT !.saw = alarm /\ ~ pause]
    <2>1. /\ s \in SchedType /\ s.pc = "look" /\ s.aviRun = sched.aviRun
          /\ s.last = sched.last
        BY <1>2, <1>5 DEF SchedType, Look
    <2>2. \/ s.saw /\ sched' = [s EXCEPT !.pc = "avi"]
          \/ s.saw /\ sched' = Round([s EXCEPT !.count = @ - 1])
          \/ s.last /\ sched' = [s EXCEPT !.pc = "end", !.count = 0]
          \/ ~ s.saw /\ ~ s.last /\ sched' = Round(s)
        BY <1>5 DEF Look
    <2>3. UNCHANGED <<avi, aviNum, jpgNum>>
        BY <1>5 DEF Look, aviVars, jpgVars
    <2> HIDE DEF s
    <2>4. /\ [s EXCEPT !.count = @ - 1] \in SchedType
          /\ [s EXCEPT !.count = @ - 1].aviRun = s.aviRun
          /\ [s EXCEPT !.count = @ - 1].saw = s.saw
        <3>1. s.count - 1 \in Int
            BY <2>1 DEF SchedType
        <3> QED
            BY <2>1, <3>1 DEF SchedType
    <2>5. /\ sched' \in SchedType /\ sched'.aviRun = sched.aviRun
          /\ \/ sched'.pc = "avi" /\ sched'.saw /\ sched'.last = sched.last
             \/ sched'.pc = "look" /\ sched'.last
             \/ sched'.pc = "end" /\ sched'.last
             \/ sched'.pc = "look" /\ ~ sched.last
        <3>1. CASE s.saw /\ sched' = [s EXCEPT !.pc = "avi"]
            BY <2>1, <3>1 DEF SchedType, SchedPcs
        <3>2. CASE s.saw /\ sched' = Round([s EXCEPT !.count = @ - 1])
            BY <2>1, <2>4, <3>2, RoundIsTyped
        <3>3. CASE s.last /\ sched' = [s EXCEPT !.pc = "end", !.count = 0]
            <4>1. sched' \in SchedType
                <5>1. sched' = Counting(s, "end", 0) /\ "end" \in SchedPcs
                    BY <3>3 DEF Counting, SchedPcs
                <5> QED
                    BY <1>3, <2>1, <5>1, NotingTyped
            <4> QED
                BY <2>1, <3>3, <4>1 DEF SchedType
        <3>4. CASE ~ s.saw /\ ~ s.last /\ sched' = Round(s)
            BY <2>1, <3>4, RoundIsTyped
        <3> QED
            BY <2>2, <3>1, <3>2, <3>3, <3>4
    <2>6. RunKnown' /\ OneOwned'
        BY <1>0, <1>5, <2>3, <2>5 DEF Look
    <2> QED
        BY <1>1, <1>2, <1>4, <2>3, <2>5, <2>6
<1>6. CASE StartAvi
    <2>1. /\ avi' \in SUBSET AviFlags /\ aviNum' \in Nat /\ FlagAndNumber'
          /\ aviNum' = IF card THEN aviNum + 1 ELSE aviNum
        <3> USE DEF Types
        <3>1. CASE card \/ config.intervals
            BY <1>6, <3>1, AviRunCounts DEF StartAvi
        <3>2. CASE ~ (card \/ config.intervals)
            BY <1>6, <3>2 DEF StartAvi, FlagAndNumber
        <3> QED
            BY <3>1, <3>2
    <2>2. Types'
        BY <1>0, <1>6, <2>1 DEF Types, SchedType, SchedPcs, StartAvi, jpgVars
    <2>3. RunKnown' /\ OneOwned'
        BY <1>0, <1>6, <2>1 DEF Types, SchedType, StartAvi
    <2> QED
        BY <1>1, <2>1, <2>2, <2>3
<1>7. CASE StartNothing \/ StartJpg \/ CountJpg \/ StartJpgContinue
    <2>1. UNCHANGED <<avi, aviNum>> /\ jpgNum' \in Int
        <3>1. CASE StartNothing \/ StartJpg
            BY <1>2, <3>1 DEF StartNothing, StartJpg, aviVars, jpgVars
        <3>2. CASE CountJpg \/ StartJpgContinue
            BY <1>2, <3>2 DEF CountJpg, StartJpgContinue, aviVars
        <3> QED
            BY <1>7, <3>1, <3>2
    <2>2. sched' \in SchedType
        <3>1. CASE StartNothing \/ StartJpg
            BY <1>2, <3>1 DEF StartNothing, StartJpg, SchedType, SchedPcs, Types
        <3>2. CASE CountJpg \/ StartJpgContinue
            <4>1. \/ sched' = Noting(sched, "jpgcont2", jpgNum)
                  \/ sched' = Noting(sched, "show", 0)
                BY <3>2 DEF CountJpg, StartJpgContinue, Noting
            <4>2. "jpgcont2" \in SchedPcs /\ "show" \in SchedPcs
                BY DEF SchedPcs
            <4> QED
                BY <1>2, <1>3, <4>1, <4>2, NotingTyped
        <3> QED
            BY <1>7, <3>1, <3>2
    <2>3. RunKnown' /\ OneOwned'
        BY <1>0, <1>2, <1>7, <2>1 DEF StartNothing, StartJpg, CountJpg, StartJpgContinue,
           SchedType
    <2> QED
        BY <1>1, <1>4, <2>1, <2>2, <2>3
<1>8. CASE ShowAlarm \/ AlarmShown
    <2>1. UNCHANGED <<avi, aviNum, jpgNum>>
        BY <1>8 DEF ShowAlarm, AlarmShown, aviVars, jpgVars
    <2>2. \/ sched.pc = "show" /\ sched.last /\ sched' = Started(sched)
          \/ sched.pc = "show2" /\ sched' = Started(sched)
          \/ sched.pc = "show" /\ ~ sched.last /\ sched' = [sched EXCEPT !.pc = "show2"]
        BY <1>8 DEF ShowAlarm, AlarmShown
    <2>3. sched' \in SchedType
        BY <1>2, <2>2, RoundIsTyped DEF SchedType, SchedPcs
    <2>4. RunKnown' /\ OneOwned'
        BY <1>0, <1>2, <2>1, <2>2, RoundIsTyped DEF SchedType
    <2> QED
        BY <1>1, <1>2, <1>4, <2>1, <2>3, <2>4
<1>9. CASE EndAvi
    <2>1. UNCHANGED <<avi, aviNum, jpgNum>>
        BY <1>9 DEF EndAvi, aviVars, jpgVars
    <2>2. sched' \in SchedType
        BY <1>2, <1>9 DEF EndAvi, SchedType, SchedPcs, Types
    <2>3. RunKnown' /\ OneOwned'
        BY <1>0, <1>2, <1>9, <2>1 DEF EndAvi, SchedType
    <2> QED
        BY <1>1, <1>2, <1>4, <2>1, <2>2, <2>3
<1>10. CASE StopAvi
    <2>1. /\ avi' \in SUBSET AviFlags /\ aviNum' \in Nat /\ FlagAndNumber'
          /\ aviNum' <= aviNum
          /\ "NO_STOP" \in sched.state /\ aviNum \in {0, 1} => aviNum' = 0
        BY <1>10, AviStopCounts DEF StopAvi, Types
    <2>2. Types'
        BY <1>0, <1>2, <1>10, <2>1 DEF StopAvi, AfterStop, jpgVars, Types, SchedType, SchedPcs
    <2>3. removals = 0 => aviNum' = 0
        BY <1>10, <2>1 DEF StopAvi, FlagAndNumber, Types
    <2>4. RunKnown' /\ OneOwned'
        BY <1>0, <1>2, <1>10, <2>1, <2>3 DEF StopAvi, AfterStop, SchedType
    <2> QED
        BY <1>1, <2>1, <2>2, <2>4
<1>11. CASE AviStopped
    <2>1. /\ avi' = avi \ {"RUN"} /\ aviNum' = aviNum /\ jpgNum' = jpgNum
          /\ sched' = [sched EXCEPT !.pc = "jpgstop"]
        BY <1>11 DEF AviStopped, ForgetRun, jpgVars
    <2>2. Types' /\ FlagAndNumber'
        BY <1>0, <1>2, <2>1 DEF Types, FlagAndNumber, AviFlags, SchedType, SchedPcs
    <2>3. RunKnown' /\ OneOwned'
        BY <1>0, <1>2, <1>11, <2>1 DEF AviStopped, SchedType
    <2> QED
        BY <1>1, <2>2, <2>3
<1>12. CASE EndJpg \/ StopJpg
    <2>1. UNCHANGED <<avi, aviNum>> /\ jpgNum' \in Int
        <3>1. CASE EndJpg
            BY <1>2, <3>1 DEF EndJpg, aviVars
        <3>2. CASE StopJpg
            BY <1>2, <3>2 DEF StopJpg, JpgStopContinue, aviVars
        <3> QED
            BY <1>12, <3>1, <3>2
    <2>2. sched' \in SchedType
        <3>1. CASE EndJpg
            <4>1. /\ "jpgstop2" \in SchedPcs /\ "hide" \in SchedPcs
                  /\ jpgNum - 1 \in Int
                BY <1>2 DEF SchedPcs
            <4>2. \/ sched' = Noting(sched, "jpgstop2", jpgNum - 1)
                  \/ sched' = [sched EXCEPT !.pc = "hide"]
                BY <3>1 DEF EndJpg, Noting
            <4>3. [sched EXCEPT !.pc = "hide"] \in SchedType
                BY <1>2, <4>1 DEF SchedType
            <4> QED
                BY <1>2, <1>3, <4>1, <4>2, <4>3, NotingTyped
        <3>2. CASE StopJpg
            <4>1. sched' = Noting(sched, "hide", 0) /\ "hide" \in SchedPcs
                BY <3>2 DEF StopJpg, Noting, SchedPcs
            <4> QED
                BY <1>2, <1>3, <4>1, NotingTyped
        <3> QED
            BY <1>12, <3>1, <3>2
    <2>3. RunKnown' /\ OneOwned'
        BY <1>0, <1>2, <1>12, <2>1 DEF EndJpg, StopJpg, SchedType
    <2> QED
        BY <1>1, <1>4, <2>1, <2>2, <2>3
<1>13. CASE HideAlarm \/ AlarmHidden
    <2>1. UNCHANGED <<avi, aviNum, jpgNum>>
        BY <1>13 DEF HideAlarm, AlarmHidden, aviVars, jpgVars
    <2>2. \/ sched.pc = "hide" /\ sched' = [sched EXCEPT !.pc = "hide2"]
          \/ sched.pc = "hide2" /\ sched' = Round(sched)
        BY <1>13 DEF HideAlarm, AlarmHidden
    <2>3. sched' \in SchedType
        BY <1>2, <2>2, RoundIsTyped DEF SchedType, SchedPcs
    <2>4. RunKnown' /\ OneOwned'
        BY <1>0, <1>2, <2>1, <2>2, RoundIsTyped DEF SchedType
    <2> QED
        BY <1>1, <1>2, <1>4, <2>1, <2>3, <2>4
<1> QED
    BY <1>5, <1>6, <1>7, <1>8, <1>9, <1>10, <1>11, <1>12, <1>13 DEF AlramScheduler

\* So do RestartAll and CheckSDCard: AviStop only counts down, and a card is
\* put in only after one was taken out.
LEMMA PollKeepsRecInv ==
    ASSUME RecInv, RestartAll \/ CheckSDCard
    PROVE  RecInv'
<1> USE DEF RecInv, RunKnown, OneOwned
<1>0. UNCHANGED <<config, sched>>
    BY DEF RestartAll, CheckSDCard, PollKeeps, PauseAll, RestartStopsAvi,
       RestartStoppedAvi, RestartKills, RestartStopsJpg, RestartStopsJpgContinue,
       Resume, CardRemoved, CardInserted, CardMounted
<1>1. CASE PauseAll \/ Resume \/ CardRemoved \/ CardInserted \/ CardMounted
    <2>1. UNCHANGED <<avi, aviNum, jpgNum>>
        BY <1>1 DEF PauseAll, Resume, CardRemoved, CardInserted, CardMounted, aviVars, jpgVars
    <2>2. Types'
        <3>1. CASE PauseAll
            BY <1>0, <2>1, <3>1 DEF PauseAll, Types, PollType, PollPcs
        <3>2. CASE Resume
            BY <1>0, <2>1, <3>2 DEF Resume, Types, PollType, PollPcs
        <3>3. CASE CardRemoved
            <4>1. /\ card' = FALSE /\ removals' \in Nat
                  /\ UNCHANGED <<alarm, pause, poll>>
                BY <3>3 DEF CardRemoved, Types
            <4>2. card' \in BOOLEAN
                BY <4>1
            <4> QED
                BY <1>0, <2>1, <4>1, <4>2 DEF Types
        <3>4. CASE CardInserted
            BY <1>0, <2>1, <3>4 DEF CardInserted, Types, PollType, PollPcs
        <3>5. CASE CardMounted
            BY <1>0, <2>1, <3>5 DEF CardMounted, Types, PollType, PollPcs
        <3> QED
            BY <1>1, <3>1, <3>2, <3>3, <3>4, <3>5
    <2>3. CASE PauseAll \/ Resume
        <3>1. UNCHANGED <<card, removals>> /\ poll'.pc # "mount"
            BY <2>3 DEF PauseAll, Resume, Types, PollType
        <3> QED
            BY <1>0, <2>1, <2>2, <3>1 DEF SameCard, FlagAndNumber
    <2>4. CASE CardRemoved \/ CardInserted \/ CardMounted
        <3>1. removals' > 0
            BY <2>4 DEF CardRemoved, CardInserted, CardMounted, SameCard, Types
        <3> QED
            BY <2>1, <2>2, <3>1 DEF SameCard, FlagAndNumber
    <2> QED
        BY <1>1, <2>3, <2>4
<1>2. CASE RestartStopsAvi
    <2>1. /\ avi' \in SUBSET AviFlags /\ aviNum' \in Nat /\ FlagAndNumber'
          /\ aviNum' <= aviNum
          /\ "NO_STOP" \in avi' => "NO_STOP" \in avi
        BY <1>2, AviStopCounts DEF RestartStopsAvi, Types
    <2>2. UNCHANGED <<card, alarm, pause, removals, jpgNum>>
        BY <1>2 DEF RestartStopsAvi, jpgVars
    <2>3. Types' /\ SameCard'
        BY <1>0, <1>2, <2>1, <2>2 DEF RestartStopsAvi, AfterStop, Types, PollType, PollPcs,
           SameCard
    <2>4. RunKnown' /\ OneOwned'
        BY <1>0, <2>1, <2>2 DEF Types
    <2> QED
        BY <2>1, <2>3, <2>4
<1>3. CASE RestartStoppedAvi
    <2>1. avi' = avi \ {"RUN"} /\ UNCHANGED <<card, alarm, pause, removals, aviNum, jpgNum>>
        BY <1>3 DEF RestartStoppedAvi, ForgetRun, jpgVars
    <2>2. Types' /\ SameCard' /\ FlagAndNumber'
        BY <1>0, <1>3, <2>1 DEF RestartStoppedAvi, Types, PollType, PollPcs, SameCard,
           FlagAndNumber
    <2>3. RunKnown' /\ OneOwned'
        BY <1>0, <2>1
    <2> QED
        BY <2>2, <2>3
<1>4. CASE RestartKills
    BY <1>0, <1>4 DEF RestartKills, Types, PollType, PollPcs, SameCard, FlagAndNumber,
       jpgVars
<1>5. CASE RestartStopsJpg \/ RestartStopsJpgContinue
    <2>1. UNCHANGED <<card, alarm, pause, removals, avi, aviNum>>
        BY <1>5 DEF RestartStopsJpg, RestartStopsJpgContinue, aviVars
    <2>2. /\ poll \in PollType /\ sched \in SchedType /\ jpgNum \in Int /\ jpgNum - 1 \in Int
          /\ "jpgstop2" \in PollPcs /\ "resume" \in PollPcs
        BY DEF Types, PollPcs
    <2>3. /\ [poll EXCEPT !.pc = "resume"] \in PollType
          /\ [poll EXCEPT !.pc = "resume"].pc = "resume"
        BY <2>2 DEF PollType
    <2>4. poll' \in PollType /\ poll'.pc # "mount" /\ jpgNum' \in Int
        <3>1. \/ poll' = Noting(poll, "jpgstop2", jpgNum - 1) /\ jpgNum' = jpgNum - 1
              \/ poll' = [poll EXCEPT !.pc = "resume"] /\ jpgNum' = jpgNum
              \/ poll' = Noting(poll, "resume", 0) /\ jpgNum' \in {0, jpgNum}
            BY <1>5 DEF RestartStopsJpg, RestartStopsJpgContinue, JpgStopContinue, Noting
        <3>2. /\ Noting(poll, "jpgstop2", jpgNum - 1) \in PollType
              /\ Noting(poll, "jpgstop2", jpgNum - 1).pc = "jpgstop2"
              /\ Noting(poll, "resume", 0) \in PollType
              /\ Noting(poll, "resume", 0).pc = "resume"
            BY <2>2, NotingTyped
        <3>3. jpgNum' \in Int
            BY <2>2, <3>1
        <3>4. poll' \in PollType
            BY <2>3, <3>1, <3>2
        <3>5. poll'.pc = "jpgstop2" \/ poll'.pc = "resume"
            BY <2>3, <3>1, <3>2
        <3> QED
            BY <3>3, <3>4, <3>5
    <2>5. Types' /\ SameCard'
        BY <1>0, <2>1, <2>4 DEF Types, SameCard
    <2>6. FlagAndNumber' /\ RunKnown' /\ OneOwned'
        BY <1>0, <2>1 DEF FlagAndNumber
    <2> QED
        BY <2>5, <2>6
<1> QED
    BY <1>1, <1>2, <1>3, <1>4, <1>5 DEF RestartAll, CheckSDCard

\* What the scheduler knows of the recordings that do not stop holds for ever.
THEOREM RecordingsInvariant == Spec => []RecInv
<1>1. RecInv /\ [Next]_vars => RecInv'
    <2> SUFFICES ASSUME RecInv, [Next]_vars PROVE RecInv'
        OBVIOUS
    <2>1. CASE AlramScheduler
        BY <2>1, SchedulerKeepsRecInv
    <2>2. CASE RestartAll \/ CheckSDCard
        BY <2>2, PollKeepsRecInv
    <2>3. CASE AviReady
        <3>1. avi' = avi \ {"RUN"}
              /\ UNCHANGED <<config, card, alarm, pause, removals, aviNum, jpgNum, sched, poll>>
            BY <2>3 DEF AviReady, AviKeeps, envVars, jpgVars
        <3> QED
            BY <3>1 DEF RecInv, Types, FlagAndNumber, SameCard, RunKnown, OneOwned
    <2>4. CASE \/ AddSchedule \/ AlarmOver
               \/ AviStatus \/ AviWait \/ AviSave \/ RecorderStarts \/ RecorderEnds
               \/ AviAgain \/ AviRecorded \/ AviDispatch
               \/ JpgMngThr \/ JpgSelfCmdThr \/ FileDispatcherThr
               \/ UNCHANGED vars
        <3>1. /\ UNCHANGED <<config, card, pause, removals, avi, aviNum, jpgNum, sched, poll>>
              /\ alarm' = alarm \/ alarm' \in BOOLEAN
            BY <2>4, ManagersKeep
        <3> QED
            BY <3>1 DEF RecInv, Types, FlagAndNumber, SameCard, RunKnown, OneOwned
    <2> QED
        BY <2>1, <2>2, <2>3, <2>4 DEF Next, AviMngThr
<1> QED
    BY RecInit, <1>1, PTL DEF Spec

\* Whoever calls AviStop, in whatever order with AviRun: the flag AVI_NO_STOP
\* and gAviRunNum (avi_mng.c:509-590) agree, and as long as the card stays,
\* the scheduler owns the one recording that does not stop.
THEOREM NoStopOwnership == Spec => []NoStopOwned
<1>1. RecInv => NoStopOwned
    BY DEF RecInv, FlagAndNumber, OneOwned, NoStopOwned
<1> QED
    BY <1>1, RecordingsInvariant, PTL

\* The types of what alarmstatus is about.
StatusType == [by : {"none", "sched", "AVI", "JPG"}, read : SUBSET Bits]
AviThrType == [pc : ManagerPcs \union {"exec", "rec"}, kind : {"none"} \union Running]
JpgThrType == [pc : ManagerPcs \union {"shoot"}]

StatusTyped ==
    /\ ui \in SUBSET Bits /\ status \in StatusType
    /\ aviThr \in AviThrType /\ jpgThr \in JpgThrType

\* hAlarmStatusSem is held between a thread's reading and its writing, and
\* nothing else writes alarmstatus meanwhile.
Held(w, thr) == status.by = w <=> thr.pc \in {"show2", "hide2"}
Semaphore ==
    /\ Held("sched", sched) /\ Held("AVI", aviThr) /\ Held("JPG", jpgThr)
    /\ status.by # "none" => status.read = ui

\* The bits of a manager follow its loop; an Appro_avi_save has AviMngThr
\* waiting for it in system().
RecordBit == "RECORD" \in ui <=> {"AVI", "JPG"} \intersect ui # {}
Unseen(m, thr) == thr.pc \in {"wait", "asleep"} => m \notin ui
AviSeen ==
    /\ aviThr.pc \in {"save", "exec", "rec"} => "AVI" \in ui
    /\ rec # "none" => aviThr.pc = "rec"
BitsFollow == RecordBit /\ Unseen("AVI", aviThr) /\ Unseen("JPG", jpgThr) /\ AviSeen

StatusInv == StatusTyped /\ Semaphore /\ BitsFollow

\* What RecInv says of the two threads that have their types.
LEMMA ThreadsTyped == RecInv => sched \in SchedType /\ poll \in PollType
BY DEF RecInv, Types

\* A thread that is woken up, or none: alarmstatus still matches.
Stirred(before, after) == after = before \/ after = Woken(before)

LEMMA StirredKeeps ==
    ASSUME NEW thr, NEW next, Stirred(thr, next)
    PROVE  /\ thr \in AviThrType => next \in AviThrType
           /\ thr \in JpgThrType => next \in JpgThrType
           /\ thr \in AviThrType \union JpgThrType =>
              \/ next.pc = thr.pc
              \/ thr.pc = "asleep" /\ next.pc = "ready"
BY DEF Stirred, Woken, AviThrType, JpgThrType, ManagerPcs

LEMMA ElsewhereKeeps ==
    ASSUME StatusInv, UNCHANGED <<ui, status>>,
           sched'.pc \in {"show2", "hide2"} <=> sched.pc \in {"show2", "hide2"},
           Stirred(aviThr, aviThr'), Stirred(jpgThr, jpgThr'), rec' \in {rec, "none"}
    PROVE  StatusInv'
<1>1. PICK a, j : a = aviThr' /\ j = jpgThr'
    OBVIOUS
<1>2. /\ a \in AviThrType /\ j \in JpgThrType
      /\ a.pc = aviThr.pc \/ (aviThr.pc = "asleep" /\ a.pc = "ready")
      /\ j.pc = jpgThr.pc \/ (jpgThr.pc = "asleep" /\ j.pc = "ready")
    BY <1>1, StirredKeeps DEF StatusInv, StatusTyped
<1>3. StatusTyped'
    BY <1>1, <1>2 DEF StatusInv, StatusTyped
<1>4. Semaphore'
    BY <1>1, <1>2 DEF StatusInv, Semaphore, Held
<1>5. BitsFollow'
    BY <1>1, <1>2 DEF StatusInv, BitsFollow, RecordBit, Unseen, AviSeen
<1> QED
    BY <1>3, <1>4, <1>5 DEF StatusInv

LEMMA SchedulerKeepsStatus ==
    ASSUME StatusInv, sched \in SchedType, AlramScheduler
    PROVE  StatusInv'
<1>1. CASE Look \/ StartNothing \/ EndAvi
    <2>1. UNCHANGED <<ui, status, aviVars, jpgVars>>
        BY <1>1 DEF Look, StartNothing, EndAvi
    <2>2. sched.pc \notin {"show2", "hide2"} /\ sched'.pc \notin {"show2", "hide2"}
        BY <1>1 DEF Look, StartNothing, EndAvi, Round, SchedType
    <2> QED
        BY <2>1, <2>2, ElsewhereKeeps DEF aviVars, jpgVars, Stirred
<1>2. CASE StartAvi \/ StopAvi \/ AviStopped
    <2>1. UNCHANGED <<ui, status, jpgVars>> /\ Stirred(aviThr, aviThr') /\ rec' \in {rec, "none"}
        <3>1. CASE StartAvi
            BY <3>1 DEF StartAvi, AviRun, Stirred
        <3>2. CASE StopAvi
            BY <3>2 DEF StopAvi, AviStop, AviStopNoStop, AviStopInterval, KillRecorder, Stirred
        <3>3. CASE AviStopped
            BY <3>3 DEF AviStopped, Stirred
        <3> QED
            BY <1>2, <3>1, <3>2, <3>3
    <2>2. sched.pc \notin {"show2", "hide2"} /\ sched'.pc \notin {"show2", "hide2"}
        BY <1>2 DEF StartAvi, StopAvi, AviStopped, AfterStop, SchedType
    <2> QED
        BY <2>1, <2>2, ElsewhereKeeps DEF jpgVars, Stirred
<1>3. CASE StartJpg \/ CountJpg \/ StartJpgContinue \/ EndJpg \/ StopJpg
    <2>1. UNCHANGED <<ui, status, aviVars>> /\ Stirred(jpgThr, jpgThr')
        BY <1>3 DEF StartJpg, CountJpg, StartJpgContinue, EndJpg, StopJpg, JpgRun,
           JpgRunContinue, Stirred
    <2>2. sched.pc \notin {"show2", "hide2"} /\ sched'.pc \notin {"show2", "hide2"}
        BY <1>3 DEF StartJpg, CountJpg, StartJpgContinue, EndJpg, StopJpg, SchedType
    <2> QED
        BY <2>1, <2>2, ElsewhereKeeps DEF aviVars, Stirred
<1>4. CASE ShowAlarm \/ HideAlarm
    <2>1. UNCHANGED <<ui, aviVars, jpgVars>>
        BY <1>4 DEF ShowAlarm, HideAlarm
    <2>2. CASE UNCHANGED status
        <3>1. ~ ReadStatus("sched")
            BY <2>2 DEF ReadStatus
        <3>2. sched.pc = "show" /\ sched' = Started(sched)
            BY <1>4, <3>1 DEF ShowAlarm, HideAlarm
        <3>3. sched'.pc = "look"
            BY <3>2, RoundIsTyped
        <3> QED
            BY <2>1, <2>2, <3>2, <3>3, ElsewhereKeeps DEF aviVars, jpgVars, Stirred
    <2>3. CASE ReadStatus("sched") /\ sched'.pc \in {"show2", "hide2"}
        <3>1. status.by = "none" /\ status' = [by |-> "sched", read |-> ui]
            BY <2>3 DEF ReadStatus
        <3>2. status' \in StatusType
            BY <3>1 DEF StatusType, StatusInv, StatusTyped
        <3> QED
            BY <2>1, <2>3, <3>1, <3>2 DEF StatusInv, StatusTyped, Semaphore, Held, BitsFollow,
               RecordBit, Unseen, AviSeen, aviVars, jpgVars
    <2> QED
        BY <1>4, <2>2, <2>3 DEF ShowAlarm, HideAlarm, SchedType
<1>5. CASE AlarmShown \/ AlarmHidden
    <2>1. /\ status.by = "sched" /\ status.read = ui /\ UNCHANGED <<aviVars, jpgVars>>
          /\ status' = Free /\ ui' \in {ui \union {"EXT"}, ui \ {"EXT"}}
        BY <1>5 DEF AlarmShown, AlarmHidden, WriteStatus, StatusInv, Semaphore
    <2>2. sched'.pc = "look"
        BY <1>5, RoundIsTyped DEF AlarmShown, AlarmHidden
    <2>3. StatusTyped'
        BY <2>1 DEF StatusInv, StatusTyped, StatusType, Free, Bits, aviVars, jpgVars
    <2>4. Semaphore'
        BY <2>1, <2>2 DEF StatusInv, Semaphore, Held, Free, aviVars, jpgVars
    <2>5. BitsFollow'
        <3>1. \A b \in {"AVI", "JPG", "RECORD"} : b \in ui' <=> b \in ui
            BY <2>1
        <3>2. RecordBit'
            BY <3>1 DEF StatusInv, BitsFollow, RecordBit
        <3> QED
            BY <2>1, <3>1, <3>2 DEF StatusInv, BitsFollow, Unseen, AviSeen, aviVars, jpgVars
    <2> QED
        BY <2>3, <2>4, <2>5 DEF StatusInv
<1> QED
    BY <1>1, <1>2, <1>3, <1>4, <1>5 DEF AlramScheduler

LEMMA PollKeepsStatus ==
    ASSUME StatusInv, RestartAll \/ CheckSDCard \/ AddSchedule \/ AlarmOver \/ UNCHANGED vars
    PROVE  StatusInv'
<1>1. UNCHANGED <<ui, status, sched, aviThr, jpgThr>> /\ rec' \in {rec, "none"}
    <2>1. CASE RestartAll \/ CheckSDCard
        BY <2>1 DEF RestartAll, CheckSDCard, PollKeeps, PauseAll, RestartStopsAvi,
           RestartStoppedAvi, RestartKills, RestartStopsJpg, RestartStopsJpgContinue,
           Resume, CardRemoved, CardInserted, CardMounted, AviStop, AviStopNoStop,
           AviStopInterval, KillRecorder, aviVars, jpgVars
    <2>2. CASE AddSchedule \/ AlarmOver \/ UNCHANGED vars
        BY <2>2 DEF AddSchedule, AlarmOver, vars, aviVars, jpgVars
    <2> QED
        BY <2>1, <2>2
<1> QED
    BY <1>1, ElsewhereKeeps DEF Stirred
\* Both managers take their turn at alarmstatus with the semaphore and put in
\* and take out the bits that are theirs.
LEMMA HiddenShown ==
    ASSUME NEW read \in SUBSET Bits, NEW m \in {"AVI", "JPG"}, status.read = read,
           "RECORD" \in read <=> {"AVI", "JPG"} \intersect read # {}
    PROVE  /\ Hidden(m) \in SUBSET Bits /\ Shown(m) \in SUBSET Bits
           /\ "RECORD" \in Hidden(m) <=> {"AVI", "JPG"} \intersect Hidden(m) # {}
           /\ "RECORD" \in Shown(m) <=> {"AVI", "JPG"} \intersect Shown(m) # {}
           /\ m \notin Hidden(m) /\ m \in Shown(m)
<1>1. Shown(m) = read \union {m, "RECORD"}
    BY DEF Shown
<1>2. CASE (read \ {m}) \intersect {"AVI", "JPG"} = {}
    <2>1. Hidden(m) = (read \ {m}) \ {"RECORD"}
        BY <1>2 DEF Hidden
    <2> QED
        BY <1>1, <1>2, <2>1 DEF Bits
<1>3. CASE (read \ {m}) \intersect {"AVI", "JPG"} # {}
    <2>1. Hidden(m) = read \ {m}
        BY <1>3 DEF Hidden
    <2>2. PICK n \in {"AVI", "JPG"} \ {m} : n \in read
        BY <1>3
    <2> QED
        BY <1>1, <2>1, <2>2 DEF Bits
<1> QED
    BY <1>2, <1>3

LEMMA OthersStay ==
    ASSUME NEW m \in {"AVI", "JPG"}, NEW n \in {"AVI", "JPG"}, n # m
    PROVE  /\ n \in Hidden(m) <=> n \in status.read
           /\ n \in Shown(m) <=> n \in status.read
BY DEF Hidden, Shown

LEMMA StatusStepFollows ==
    ASSUME StatusInv, NEW m \in {"AVI", "JPG"}, NEW thr, StatusStep(m, thr)
    PROVE  /\ ui' \in SUBSET Bits /\ status' \in StatusType /\ RecordBit'
           /\ \A n \in {"AVI", "JPG"} \ {m} : n \in ui' <=> n \in ui
           /\ status'.by # "none" => status'.read = ui'
           /\ \/ thr.pc \in {"hide", "show"} /\ ui' = ui /\ status.by = "none" /\ status'.by = m
              \/ thr.pc = "hide2" /\ m \notin ui' /\ status.by = m /\ status'.by = "none"
              \/ thr.pc = "show2" /\ m \in ui' /\ status.by = m /\ status'.by = "none"
<1> USE DEF StatusInv, StatusTyped, RecordBit, BitsFollow
<1>1. CASE thr.pc \in {"hide", "show"} /\ ReadStatus(m) /\ UNCHANGED ui
    BY <1>1 DEF ReadStatus, StatusType
<1>2. CASE \/ At(thr, "hide2") /\ WriteStatus(m, Hidden(m))
           \/ At(thr, "show2") /\ WriteStatus(m, Shown(m))
    <2>1. status.by = m /\ status.read = ui /\ status' = Free
        BY <1>2 DEF WriteStatus, Semaphore
    <2>2. \/ thr.pc = "hide2" /\ ui' = Hidden(m)
          \/ thr.pc = "show2" /\ ui' = Shown(m)
        BY <1>2 DEF WriteStatus, At
    <2>3. Free \in StatusType /\ Free.by = "none"
        BY DEF Free, StatusType
    <2>4. \A n \in {"AVI", "JPG"} \ {m} : n \in ui' <=> n \in ui
        <3> SUFFICES ASSUME NEW n \in {"AVI", "JPG"} \ {m} PROVE n \in ui' <=> n \in ui
            OBVIOUS
        <3>1. (n \in Hidden(m) <=> n \in ui) /\ (n \in Shown(m) <=> n \in ui)
            BY <2>1, OthersStay
        <3> QED
            BY <2>2, <3>1
    <2>5. ui' \in SUBSET Bits /\ RecordBit'
        BY <2>1, <2>2, HiddenShown
    <2>6. (thr.pc = "hide2" /\ m \notin ui') \/ (thr.pc = "show2" /\ m \in ui')
        BY <2>1, <2>2, HiddenShown
    <2> QED
        BY <2>1, <2>3, <2>4, <2>5, <2>6
<1> QED
    BY <1>1, <1>2 DEF StatusStep

\* AfterStatus goes on where the half that was done says.
LEMMA AfterStatusGoesOn ==
    ASSUME NEW thr, thr.pc \in {"hide", "show", "hide2", "show2"}
    PROVE  /\ thr \in AviThrType => AfterStatus(thr) \in AviThrType
           /\ thr \in JpgThrType => AfterStatus(thr) \in JpgThrType
           /\ thr \in AviThrType \union JpgThrType =>
              AfterStatus(thr).pc = CASE thr.pc = "hide" -> "hide2" [] thr.pc = "show" -> "show2"
                                      [] thr.pc = "hide2" -> "wait" [] thr.pc = "show2" -> "save"
BY DEF AfterStatus, GoTo, AviThrType, JpgThrType, ManagerPcs

LEMMA AviKeepsStatus ==
    ASSUME StatusInv, AviMngThr \/ RecorderEnds
    PROVE  StatusInv'
<1> PICK a : a = aviThr'
    OBVIOUS
<1>0. a = aviThr' /\ UNCHANGED <<sched, jpgThr>> /\ aviThr \in AviThrType
    BY DEF AviMngThr, RecorderEnds, AviReady, AviStatus, AviWait, AviSave, RecorderStarts,
       AviAgain, AviRecorded, AviDispatch, AviKeeps, jpgVars, StatusInv, StatusTyped
<1>1. CASE RecorderEnds
    <2>1. UNCHANGED <<ui, status, aviThr>> /\ rec # "none"
        BY <1>1 DEF RecorderEnds, Running
    <2> QED
        BY <1>0, <2>1 DEF StatusInv, StatusTyped, Semaphore, Held, BitsFollow, RecordBit,
           Unseen, AviSeen
<1>2. CASE AviReady \/ AviWait \/ AviSave \/ RecorderStarts \/ AviAgain \/ AviRecorded
           \/ AviDispatch
    <2>1. UNCHANGED <<ui, status>>
        BY <1>2 DEF AviReady, AviWait, AviSave, RecorderStarts, AviAgain, AviRecorded,
           AviDispatch
    <2>2. /\ a \in AviThrType
          /\ aviThr.pc \notin {"show2", "hide2"} /\ a.pc \notin {"show2", "hide2"}
          /\ a.pc \in {"wait", "asleep"} => aviThr.pc \in {"wait", "asleep"}
          /\ a.pc \in {"save", "exec", "rec"} => aviThr.pc \in {"save", "exec", "rec"}
          /\ rec' # "none" => a.pc = "rec" \/ (rec' = rec /\ a.pc = aviThr.pc)
          /\ a.pc = "rec" \/ rec' = "none" \/ (rec' = rec /\ aviThr.pc # "rec")
        <3> USE <1>0 DEF AviThrType, ManagerPcs, Running, At, GoTo
        <3>1. CASE AviReady \/ AviWait \/ AviDispatch
            BY <3>1 DEF AviReady, AviWait, AviDispatch, StatusInv, BitsFollow, AviSeen
        <3>2. CASE AviSave
            BY <3>2 DEF AviSave, StatusInv, BitsFollow, AviSeen
        <3>3. CASE RecorderStarts \/ AviAgain
            BY <3>3 DEF RecorderStarts, AviAgain
        <3>4. CASE AviRecorded
            BY <3>4 DEF AviRecorded, Kept
        <3> QED
            BY <1>2, <3>1, <3>2, <3>3, <3>4
    <2>3. StatusTyped' /\ Semaphore'
        BY <1>0, <2>1, <2>2 DEF StatusInv, StatusTyped, Semaphore, Held
    <2>4. BitsFollow'
        BY <1>0, <2>1, <2>2 DEF StatusInv, BitsFollow, RecordBit, Unseen, AviSeen
    <2> QED
        BY <2>3, <2>4 DEF StatusInv
<1>3. CASE AviStatus
    <2>1. StatusStep("AVI", aviThr) /\ a = AfterStatus(aviThr) /\ UNCHANGED rec
        BY <1>0, <1>3 DEF AviStatus
    <2>2. aviThr.pc \in {"hide", "show", "hide2", "show2"}
        BY <2>1 DEF StatusStep, At
    <2>3. a \in AviThrType
        BY <1>0, <2>1, <2>2, AfterStatusGoesOn
    <2>4. a.pc = CASE aviThr.pc = "hide" -> "hide2" [] aviThr.pc = "show" -> "show2"
                   [] aviThr.pc = "hide2" -> "wait" [] aviThr.pc = "show2" -> "save"
        BY <1>0, <2>1, <2>2, AfterStatusGoesOn
    <2>5. /\ ui' \in SUBSET Bits /\ status' \in StatusType /\ RecordBit'
          /\ "JPG" \in ui' <=> "JPG" \in ui
          /\ status'.by # "none" => status'.read = ui'
        BY <2>1, StatusStepFollows
    <2>6. \/ aviThr.pc \in {"hide", "show"} /\ ui' = ui /\ status.by = "none" /\ status'.by = "AVI"
          \/ aviThr.pc = "hide2" /\ "AVI" \notin ui' /\ status.by = "AVI" /\ status'.by = "none"
          \/ aviThr.pc = "show2" /\ "AVI" \in ui' /\ status.by = "AVI" /\ status'.by = "none"
        BY <2>1, StatusStepFollows
    <2>7. StatusTyped' /\ Semaphore'
        BY <1>0, <2>3, <2>4, <2>5, <2>6 DEF StatusInv, StatusTyped, Semaphore, Held
    <2>8. BitsFollow'
        BY <1>0, <2>1, <2>4, <2>5, <2>6 DEF StatusInv, BitsFollow, Unseen, AviSeen
    <2> QED
        BY <2>7, <2>8 DEF StatusInv
<1> QED
    BY <1>1, <1>2, <1>3 DEF AviMngThr

LEMMA JpgKeepsStatus ==
    ASSUME StatusInv, JpgMngThr \/ JpgSelfCmdThr \/ FileDispatcherThr
    PROVE  StatusInv'
<1> PICK j : j = jpgThr'
    OBVIOUS
<1>0. j = jpgThr' /\ UNCHANGED <<sched, aviThr, rec>> /\ jpgThr \in JpgThrType
    BY DEF JpgMngThr, JpgSelfCmdThr, FileDispatcherThr, JpgReady, JpgStatus, JpgWait,
       JpgSave, JpgShoot, JpgDispatch, JpgKeeps, aviVars, StatusInv, StatusTyped
<1>1. CASE JpgSelfCmdThr \/ FileDispatcherThr
    <2>1. UNCHANGED <<ui, status>> /\ Stirred(jpgThr, jpgThr')
        BY <1>1 DEF JpgSelfCmdThr, FileDispatcherThr, JpgRun, Stirred
    <2> QED
        BY <1>0, <2>1, ElsewhereKeeps DEF Stirred
<1>2. CASE JpgReady \/ JpgWait \/ JpgSave \/ JpgShoot \/ JpgDispatch
    <2>1. UNCHANGED <<ui, status>>
        BY <1>2 DEF JpgReady, JpgWait, JpgSave, JpgShoot, JpgDispatch
    <2>2. /\ j \in JpgThrType
          /\ jpgThr.pc \notin {"show2", "hide2"} /\ j.pc \notin {"show2", "hide2"}
          /\ j.pc \in {"wait", "asleep"} => jpgThr.pc \in {"wait", "asleep"}
        <3> USE <1>0 DEF JpgThrType, ManagerPcs, At, GoTo
        <3>1. CASE JpgReady
            BY <3>1 DEF JpgReady
        <3>2. CASE JpgWait \/ JpgSave \/ JpgDispatch
            BY <3>2 DEF JpgWait, JpgSave, JpgDispatch
        <3>3. CASE JpgShoot
            BY <3>3 DEF JpgShoot
        <3> QED
            BY <1>2, <3>1, <3>2, <3>3
    <2>3. StatusTyped' /\ Semaphore'
        BY <1>0, <2>1, <2>2 DEF StatusInv, StatusTyped, Semaphore, Held
    <2>4. BitsFollow'
        BY <1>0, <2>1, <2>2 DEF StatusInv, BitsFollow, RecordBit, Unseen, AviSeen
    <2> QED
        BY <2>3, <2>4 DEF StatusInv
<1>3. CASE JpgStatus
    <2>1. StatusStep("JPG", jpgThr) /\ j = AfterStatus(jpgThr)
        BY <1>0, <1>3 DEF JpgStatus
    <2>2. jpgThr.pc \in {"hide", "show", "hide2", "show2"}
        BY <2>1 DEF StatusStep, At
    <2>3. j \in JpgThrType
        BY <1>0, <2>1, <2>2, AfterStatusGoesOn
    <2>4. j.pc = CASE jpgThr.pc = "hide" -> "hide2" [] jpgThr.pc = "show" -> "show2"
                   [] jpgThr.pc = "hide2" -> "wait" [] jpgThr.pc = "show2" -> "save"
        BY <1>0, <2>1, <2>2, AfterStatusGoesOn
    <2>5. /\ ui' \in SUBSET Bits /\ status' \in StatusType /\ RecordBit'
          /\ "AVI" \in ui' <=> "AVI" \in ui
          /\ status'.by # "none" => status'.read = ui'
        BY <2>1, StatusStepFollows
    <2>6. \/ jpgThr.pc \in {"hide", "show"} /\ ui' = ui /\ status.by = "none" /\ status'.by = "JPG"
          \/ jpgThr.pc = "hide2" /\ "JPG" \notin ui' /\ status.by = "JPG" /\ status'.by = "none"
          \/ jpgThr.pc = "show2" /\ "JPG" \in ui' /\ status.by = "JPG" /\ status'.by = "none"
        BY <2>1, StatusStepFollows
    <2>7. StatusTyped' /\ Semaphore'
        BY <1>0, <2>3, <2>4, <2>5, <2>6 DEF StatusInv, StatusTyped, Semaphore, Held
    <2>8. BitsFollow'
        BY <1>0, <2>4, <2>5, <2>6 DEF StatusInv, BitsFollow, Unseen, AviSeen
    <2> QED
        BY <2>7, <2>8 DEF StatusInv
<1> QED
    BY <1>1, <1>2, <1>3 DEF JpgMngThr

\* The argument about alarmstatus is inductive with the types of RecInv.
THEOREM StatusInvariant == Spec => []StatusInv
<1>1. Init => StatusInv
    <2> SUFFICES ASSUME Init PROVE StatusInv
        OBVIOUS
    <2> USE DEF Init
    <2>1. StatusTyped
        BY DEF StatusTyped, StatusType, AviThrType, JpgThrType, ManagerPcs, Bits, Free
    <2>2. Semaphore
        BY DEF Semaphore, Held, Free
    <2>3. BitsFollow
        BY DEF BitsFollow, RecordBit, Unseen, AviSeen
    <2> QED
        BY <2>1, <2>2, <2>3 DEF StatusInv
<1>2. RecInv /\ StatusInv /\ [Next]_vars => StatusInv'
    <2> SUFFICES ASSUME RecInv, StatusInv, [Next]_vars PROVE StatusInv'
        OBVIOUS
    <2>1. CASE AlramScheduler
        BY <2>1, ThreadsTyped, SchedulerKeepsStatus
    <2>2. CASE RestartAll \/ CheckSDCard \/ AddSchedule \/ AlarmOver \/ UNCHANGED vars
        BY <2>2, PollKeepsStatus
    <2>3. CASE AviMngThr \/ RecorderEnds
        BY <2>3, AviKeepsStatus
    <2>4. CASE JpgMngThr \/ JpgSelfCmdThr \/ FileDispatcherThr
        BY <2>4, JpgKeepsStatus
    <2> QED
        BY <2>1, <2>2, <2>3, <2>4 DEF Next
<1> QED
    BY <1>1, <1>2, RecordingsInvariant, PTL DEF Spec

\* AlramScheduler and the two managers each read alarmstatus and write it back
\* in two steps (alarm_schedule.c, avi_mng.c, jpg_mng.c); however they
\* interleave, no bit is lost, RECORD is there with AVI or JPG, and a recording
\* is never made unseen, which AviStop relies on.
THEOREM StatusIsTrue == Spec => []StatusMatches
<1>1. StatusInv => StatusMatches
    BY DEF StatusInv, BitsFollow, RecordBit, Unseen, AviSeen, StatusMatches
<1> QED
    BY <1>1, StatusInvariant, PTL

\* From the start of a recording to the end of its round there is an alarm.
SawAlarm == sched.pc \in {"avi", "jpg"} \union StartedPcs => sched.saw

\* A card that is out stands for a run that nothing may stop any more.  With
\* one run more than cards were taken out, that run is the scheduler's: it is
\* about to be stopped at the end of this alarm.
AviOwed ==
    /\ aviNum <= removals + 1
    /\ ~ card => aviNum <= removals
    /\ aviNum = removals + 1 =>
        /\ sched.aviRun
        /\ \/ sched.last /\ sched.pc \in {"look", "avi", "show", "end", "avistop"}
           \/ sched.pc \in StartedPcs
        /\ sched.pc = "avistop" => "NO_STOP" \in sched.state

\* The same for pictures: JpgRun counts one step after the card was seen, and
\* JpgStop one step after AviStop.
JpgRuns == IF sched.pc = "jpgcont" THEN jpgNum + 1 ELSE jpgNum
JpgOwed ==
    /\ JpgRuns <= removals + 1
    /\ ~ card => JpgRuns <= removals
    /\ JpgRuns = removals + 1 =>
        /\ sched.flag
        /\ \/ sched.last /\ sched.pc \in {"look", "avi", "show", "end", "avistop", "forget", "jpgstop"}
           \/ sched.pc \in StartedPcs
    /\ sched.pc = "jpgcont" => sched.flag /\ (card \/ removals > 0)
    /\ sched.flag => config.pictures

\* Each thread that is about to put gJpgRunNum right allows for one too few.
TooFew(thr) == IF thr.pc = "jpgstop2" /\ thr.num < 0 THEN 1 ELSE 0
JpgLow == jpgNum >= 0 - (TooFew(sched) + TooFew(poll))

\* What the two threads note.
Notes ==
    /\ sched.num \in -2 .. 1 + removals /\ poll.num \in -2 .. 1 + removals
    /\ sched.count \in 0 .. Period - 1

CountInv == SawAlarm /\ AviOwed /\ JpgOwed /\ JpgLow /\ Notes

\* What a round does when it starts.
LEMMA LookGoes ==
    ASSUME sched \in SchedType, Look
    PROVE  /\ sched.pc = "look"
           /\ sched'.aviRun = sched.aviRun /\ sched'.flag = sched.flag
           /\ sched'.num = sched.num
           /\ \/ /\ sched'.pc = "avi" /\ sched'.saw /\ sched'.last = sched.last
                 /\ sched'.count = sched.count
              \/ /\ sched'.pc = "look" /\ sched'.saw /\ sched'.last
                 /\ sched.count # 0 /\ sched'.count = sched.count - 1
              \/ /\ sched'.pc = "end" /\ sched'.last /\ sched.last /\ sched'.count = 0
              \/ /\ sched'.pc = "look" /\ ~ sched.last /\ sched'.count = sched.count
<1>1. PICK b, s : b = (alarm /\ ~ pause) /\ s = [sched EXCEPT !.saw = b]
    OBVIOUS
<1>2. /\ s \in SchedType /\ s.pc = sched.pc /\ s.aviRun = sched.aviRun /\ s.last = sched.last
      /\ s.flag = sched.flag /\ s.num = sched.num /\ s.count = sched.count /\ s.saw = b
    BY <1>1 DEF SchedType
<1>3. /\ sched.pc = "look"
      /\ \/ s.saw /\ s.count = 0 /\ sched' = [s EXCEPT !.pc = "avi"]
         \/ s.saw /\ s.count # 0 /\ sched' = Round([s EXCEPT !.count = @ - 1])
         \/ ~ s.saw /\ s.last /\ sched' = [s EXCEPT !.pc = "end", !.count = 0]
         \/ ~ s.saw /\ ~ s.last /\ sched' = Round(s)
    BY <1>1, <1>2 DEF Look
<1>4. CASE s.saw /\ s.count = 0 /\ sched' = [s EXCEPT !.pc = "avi"]
    BY <1>2, <1>3, <1>4 DEF SchedType
<1>5. CASE s.saw /\ s.count # 0 /\ sched' = Round([s EXCEPT !.count = @ - 1])
    BY <1>2, <1>3, <1>5 DEF SchedType, Round
<1>6. CASE ~ s.saw /\ s.last /\ sched' = [s EXCEPT !.pc = "end", !.count = 0]
    BY <1>2, <1>3, <1>6 DEF SchedType
<1>7. CASE ~ s.saw /\ ~ s.last /\ sched' = Round(s)
    BY <1>2, <1>3, <1>7 DEF SchedType, Round
<1> QED
    BY <1>3, <1>4, <1>5, <1>6, <1>7

\* The scheduler's steps one by one: where each goes and what it counts.
LEMMA SchedulerCounts ==
    ASSUME RecInv, CountInv, AlramScheduler
    PROVE  CountInv'
<1> USE DEF CountInv, SawAlarm, AviOwed, JpgOwed, JpgRuns, JpgLow, TooFew, Notes, StartedPcs
<1>0. UNCHANGED <<config, card, pause, alarm, removals, poll>>
    BY DEF AlramScheduler, SchedKeeps, envVars, Look, StartAvi, StartNothing,
       StartJpg, CountJpg, StartJpgContinue, ShowAlarm, AlarmShown, EndAvi,
       StopAvi, AviStopped, EndJpg, StopJpg, HideAlarm, AlarmHidden
<1>1. /\ sched \in SchedType /\ poll \in PollType /\ jpgNum \in Int /\ aviNum \in Nat
      /\ removals \in Nat /\ card \in BOOLEAN /\ Period \in Nat /\ Period > 0
      /\ poll.num \in Int
    BY PeriodAssumption DEF RecInv, Types, PollType
<1>2. PICK s : s = sched'
    OBVIOUS
<1>3. CASE Look
    <2>1. UNCHANGED <<aviNum, jpgNum>>
        BY <1>3 DEF Look, aviVars, jpgVars
    <2> QED
        BY <1>0, <1>1, <2>1, <1>3, LookGoes DEF SchedType
<1>4. CASE StartAvi
    <2>1. /\ aviNum' = IF card THEN aviNum + 1 ELSE aviNum
          /\ jpgNum' = jpgNum
        <3> USE DEF RecInv, Types
        <3>1. CASE card \/ config.intervals
            BY <1>4, <3>1, AviRunCounts DEF StartAvi, jpgVars
        <3>2. CASE ~ (card \/ config.intervals)
            BY <1>4, <3>2 DEF StartAvi, jpgVars
        <3> QED
            BY <3>1, <3>2
    <2>2. /\ sched.pc = "avi" /\ ~ (card /\ sched.last)
          /\ s.pc = IF ~ config.pictures THEN "show" ELSE IF card THEN "jpgcont" ELSE "jpg"
          /\ s.aviRun = (card \/ config.intervals) /\ s.flag = config.pictures
          /\ s.saw = sched.saw /\ s.last = sched.last /\ s.num = sched.num
          /\ s.count = sched.count
        BY <1>1, <1>2, <1>4 DEF StartAvi, SchedType
    <2> QED
        BY <1>0, <1>1, <1>2, <2>1, <2>2
<1>5. CASE StartNothing \/ StartJpg
    <2>1. /\ UNCHANGED <<aviNum, jpgNum>>
          /\ sched.pc \in {"avi", "jpg"} /\ (sched.pc = "avi" => sched.last)
          /\ s.pc = "show"
          /\ s.flag = sched.flag \/ (sched.pc = "avi" /\ s.flag = config.pictures)
          /\ s.aviRun = sched.aviRun /\ s.saw = sched.saw /\ s.last = sched.last
          /\ s.num = sched.num /\ s.count = sched.count
        BY <1>1, <1>2, <1>5 DEF StartNothing, StartJpg, SchedType, aviVars, jpgVars
    <2> QED
        BY <1>0, <1>1, <1>2, <2>1
<1>6. CASE CountJpg
    <2>1. /\ UNCHANGED aviNum /\ jpgNum' = jpgNum + 1
          /\ sched.pc = "jpgcont" /\ s.pc = "jpgcont2" /\ s.flag = sched.flag
          /\ s.aviRun = sched.aviRun /\ s.saw = sched.saw /\ s.last = sched.last
          /\ s.num = jpgNum /\ s.count = sched.count
        BY <1>1, <1>2, <1>6 DEF CountJpg, SchedType, aviVars
    <2> QED
        BY <1>0, <1>1, <1>2, <2>1
<1>7. CASE StartJpgContinue
    <2>1. /\ UNCHANGED <<aviNum, jpgNum>>
          /\ sched.pc = "jpgcont2" /\ s.pc = "show" /\ s.flag = sched.flag
          /\ s.aviRun = sched.aviRun /\ s.saw = sched.saw /\ s.last = sched.last
          /\ s.num = 0 /\ s.count = sched.count
        BY <1>1, <1>2, <1>7 DEF StartJpgContinue, SchedType, aviVars
    <2> QED
        BY <1>0, <1>1, <1>2, <2>1
<1>8. CASE ShowAlarm \/ AlarmShown
    <2>1. UNCHANGED <<aviNum, jpgNum>>
        BY <1>8 DEF ShowAlarm, AlarmShown, aviVars, jpgVars
    <2>2. \/ sched.pc = "show" /\ sched.last /\ s = Started(sched)
          \/ sched.pc = "show2" /\ s = Started(sched)
          \/ sched.pc = "show" /\ ~ sched.last /\ s = [sched EXCEPT !.pc = "show2"]
        BY <1>2, <1>8 DEF ShowAlarm, AlarmShown
    <2>3. /\ s.flag = sched.flag /\ s.aviRun = sched.aviRun /\ s.num = sched.num
          /\ \/ /\ s.pc = "look" /\ s.last = sched.saw /\ s.count = Period - 1
             \/ /\ s.pc = "show2" /\ s.saw = sched.saw /\ s.count = sched.count
        BY <1>1, <2>2 DEF SchedType, Started, Round
    <2> QED
        BY <1>0, <1>1, <1>2, <2>1, <2>2, <2>3
<1>9. CASE EndAvi
    <2>1. /\ UNCHANGED <<aviNum, jpgNum>>
          /\ sched.pc = "end" /\ s.flag = sched.flag
          /\ s.aviRun = sched.aviRun /\ s.saw = sched.saw /\ s.last = sched.last
          /\ s.num = sched.num /\ s.count = sched.count
          /\ \/ card /\ sched.aviRun /\ s.pc = "avistop" /\ s.state = avi
             \/ card /\ ~ sched.aviRun /\ s.pc = "jpgstop"
             \/ ~ card /\ s.pc = "hide"
        BY <1>1, <1>2, <1>9 DEF EndAvi, SchedType, aviVars, jpgVars
    <2>2. aviNum = removals + 1 => "NO_STOP" \in avi
        BY <1>1 DEF RecInv, FlagAndNumber
    <2> QED
        BY <1>0, <1>1, <1>2, <2>1, <2>2
<1>10. CASE StopAvi
    <2>1. /\ aviNum' \in Nat /\ aviNum' <= aviNum
          /\ "NO_STOP" \in sched.state /\ aviNum > 0 => aviNum' = aviNum - 1
        BY <1>10, AviStopCounts DEF StopAvi, RecInv, Types
    <2>2. /\ sched.pc = "avistop" /\ s.flag = sched.flag /\ jpgNum' = jpgNum
          /\ s.saw = sched.saw /\ s.last = sched.last
          /\ s.num = sched.num /\ s.count = sched.count
          /\ s.pc \in {"jpgstop", "forget"}
        BY <1>1, <1>2, <1>10 DEF StopAvi, AfterStop, SchedType, jpgVars
    <2>3. aviNum' <= removals
        BY <1>1, <2>1, <2>2
    <2> QED
        BY <1>0, <1>1, <1>2, <2>1, <2>2, <2>3
<1>11. CASE AviStopped
    <2>1. /\ UNCHANGED <<aviNum, jpgNum>>
          /\ sched.pc = "forget" /\ s.pc = "jpgstop" /\ s.flag = sched.flag
          /\ s.aviRun = sched.aviRun /\ s.saw = sched.saw /\ s.last = sched.last
          /\ s.num = sched.num /\ s.count = sched.count
        BY <1>1, <1>2, <1>11 DEF AviStopped, SchedType, jpgVars
    <2> QED
        BY <1>0, <1>1, <1>2, <2>1
<1>12. CASE EndJpg
    <2>1. /\ UNCHANGED aviNum
          /\ sched.pc = "jpgstop" /\ s.flag = sched.flag
          /\ s.aviRun = sched.aviRun /\ s.saw = sched.saw /\ s.last = sched.last
          /\ s.count = sched.count
          /\ \/ /\ sched.flag /\ s.pc = "jpgstop2" /\ s.num = jpgNum - 1 /\ jpgNum' = jpgNum - 1
             \/ ~ sched.flag /\ s.pc = "hide" /\ s.num = sched.num /\ jpgNum' = jpgNum
        BY <1>1, <1>2, <1>12 DEF EndJpg, SchedType, aviVars
    <2> QED
        BY <1>0, <1>1, <1>2, <2>1
<1>13. CASE StopJpg
    <2>1. /\ UNCHANGED aviNum
          /\ sched.pc = "jpgstop2" /\ s.flag = sched.flag /\ s.pc = "hide" /\ s.num = 0
          /\ s.aviRun = sched.aviRun /\ s.saw = sched.saw /\ s.last = sched.last
          /\ s.count = sched.count
          /\ jpgNum' = IF sched.num < 0 THEN 0 ELSE jpgNum
        BY <1>1, <1>2, <1>13 DEF StopJpg, JpgStopContinue, SchedType, aviVars
    <2> QED
        BY <1>0, <1>1, <1>2, <2>1
<1>14. CASE HideAlarm \/ AlarmHidden
    <2>1. /\ UNCHANGED <<aviNum, jpgNum>>
          /\ s.flag = sched.flag /\ s.num = sched.num /\ s.count = sched.count
          /\ s.aviRun = sched.aviRun
          /\ sched.pc \in {"hide", "hide2"} /\ s.pc \in {"hide2", "look"}
        BY <1>1, <1>2, <1>14 DEF HideAlarm, AlarmHidden, Round, SchedType, aviVars, jpgVars
    <2> QED
        BY <1>0, <1>1, <1>2, <2>1
<1> QED
    BY <1>3, <1>4, <1>5, <1>6, <1>7, <1>8, <1>9, <1>10, <1>11, <1>12, <1>13, <1>14
    DEF AlramScheduler

\* RestartAll and CheckSDCard: AviStop and JpgStop only count down, and a card
\* that is taken out counts as one more.
LEMMA PollCounts ==
    ASSUME RecInv, CountInv, RestartAll \/ CheckSDCard
    PROVE  CountInv'
<1> USE DEF CountInv, SawAlarm, AviOwed, JpgOwed, JpgRuns, JpgLow, TooFew, Notes, StartedPcs
<1>0. UNCHANGED <<config, sched>>
    BY DEF RestartAll, CheckSDCard, PollKeeps, PauseAll, RestartStopsAvi,
       RestartStoppedAvi, RestartKills, RestartStopsJpg, RestartStopsJpgContinue,
       Resume, CardRemoved, CardInserted, CardMounted
<1>1. /\ sched \in SchedType /\ poll \in PollType /\ jpgNum \in Int /\ aviNum \in Nat
      /\ removals \in Nat /\ card \in BOOLEAN /\ sched.num \in Int
    BY DEF RecInv, Types, SchedType
<1>2. PICK p : p = poll'
    OBVIOUS
<1>3. CASE RestartStopsAvi
    <2>1. aviNum' \in Nat /\ aviNum' <= aviNum
        BY <1>3, AviStopCounts DEF RestartStopsAvi, RecInv, Types
    <2>2. /\ UNCHANGED <<card, removals, jpgNum>>
          /\ poll.pc = "avistop" /\ p.pc \in {"kill", "forget"} /\ p.num = poll.num
        BY <1>1, <1>2, <1>3 DEF RestartStopsAvi, AfterStop, PollType, jpgVars
    <2> QED
        BY <1>0, <1>1, <1>2, <2>1, <2>2
<1>4. CASE RestartStopsJpg
    <2>1. /\ UNCHANGED <<card, removals, aviNum>> /\ poll.pc = "jpgstop"
          /\ \/ p.pc = "jpgstop2" /\ p.num = jpgNum - 1 /\ jpgNum' = jpgNum - 1
             \/ p.pc = "resume" /\ p.num = poll.num /\ jpgNum' = jpgNum
        BY <1>1, <1>2, <1>4 DEF RestartStopsJpg, PollType, aviVars
    <2> QED
        BY <1>0, <1>1, <1>2, <2>1
<1>5. CASE RestartStopsJpgContinue
    <2>1. /\ UNCHANGED <<card, removals, aviNum>>
          /\ poll.pc = "jpgstop2" /\ p.pc = "resume" /\ p.num = 0
          /\ jpgNum' = IF poll.num < 0 THEN 0 ELSE jpgNum
        BY <1>1, <1>2, <1>5 DEF RestartStopsJpgContinue, JpgStopContinue, PollType, aviVars
    <2> QED
        BY <1>0, <1>1, <1>2, <2>1
<1>6. CASE CardRemoved
    <2>1. /\ UNCHANGED <<poll, aviNum, jpgNum>> /\ card /\ ~ card' /\ removals' = removals + 1
        BY <1>6 DEF CardRemoved, aviVars, jpgVars
    <2> QED
        BY <1>0, <1>1, <2>1
<1>7. CASE PauseAll \/ RestartStoppedAvi \/ RestartKills \/ Resume \/ CardInserted \/ CardMounted
    <2>1. /\ UNCHANGED <<removals, aviNum, jpgNum>> /\ (card => card')
          /\ poll.pc # "jpgstop2" /\ p.pc # "jpgstop2" /\ p.num = poll.num
        BY <1>1, <1>2, <1>7 DEF PauseAll, RestartStoppedAvi, RestartKills, Resume,
           CardInserted, CardMounted, PollType, aviVars, jpgVars
    <2> QED
        BY <1>0, <1>1, <1>2, <2>1
<1> QED
    BY <1>3, <1>4, <1>5, <1>6, <1>7 DEF RestartAll, CheckSDCard

\* The rest of TypeOK, which no argument needs.
Bounded ==
    /\ config \in Scenarios
    /\ rec \in {"none", "again"} \union Running
    /\ jpg \in SUBSET {"RUN", "STOP", "CONT"} /\ self \in Nat
    /\ alarms \in 0 .. config.alarms /\ restarts \in 0 .. config.restarts
    /\ removals \in 0 .. config.removals

LEMMA KeepsBounded ==
    ASSUME RecInv, StatusInv, Bounded, [Next]_vars
    PROVE  Bounded'
<1> USE DEF Bounded
<1>0. /\ config.alarms \in Nat /\ config.restarts \in Nat /\ config.removals \in Nat
    BY DEF RecInv, Types
<1>1. UNCHANGED config
    BY DEF Next, vars, envVars, AddSchedule, AlarmOver,
       AlramScheduler, SchedKeeps, Look, StartAvi, StartNothing,
       StartJpg, CountJpg, StartJpgContinue, ShowAlarm, AlarmShown, EndAvi,
       StopAvi, AviStopped, EndJpg, StopJpg, HideAlarm, AlarmHidden,
       RestartAll, CheckSDCard, PollKeeps, PauseAll, RestartStopsAvi,
       RestartStoppedAvi, RestartKills, RestartStopsJpg, RestartStopsJpgContinue,
       Resume, CardRemoved, CardInserted, CardMounted,
       AviMngThr, RecorderEnds, AviReady, AviStatus, AviWait, AviSave, RecorderStarts,
       AviAgain, AviRecorded, AviDispatch, AviKeeps,
       JpgMngThr, JpgSelfCmdThr, FileDispatcherThr, JpgReady, JpgStatus, JpgWait,
       JpgSave, JpgShoot, JpgDispatch, JpgKeeps
<1>2. CASE AlramScheduler
    <2>1. UNCHANGED <<alarms, restarts, removals>> /\ rec' \in {rec, "none"}
        BY <1>2 DEF AlramScheduler, SchedKeeps, envVars, Look, StartAvi, StartNothing,
           StartJpg, CountJpg, StartJpgContinue, ShowAlarm, AlarmShown, EndAvi,
           StopAvi, AviStopped, EndJpg, StopJpg, HideAlarm, AlarmHidden, aviVars,
           AviStop, AviStopNoStop, AviStopInterval, KillRecorder
    <2>2. jpg' \in SUBSET {"RUN", "STOP", "CONT"} /\ self' \in {self, self + 1}
        BY <1>2 DEF AlramScheduler, Look, StartAvi, StartNothing,
           StartJpg, CountJpg, StartJpgContinue, ShowAlarm, AlarmShown, EndAvi,
           StopAvi, AviStopped, EndJpg, StopJpg, HideAlarm, AlarmHidden, jpgVars,
           JpgRun, JpgRunContinue, JpgStopContinue
    <2> QED
        BY <1>1, <2>1, <2>2
<1>3. CASE RestartAll \/ CheckSDCard
    <2>1. UNCHANGED <<alarms, self>> /\ rec' \in {rec, "none"}
        BY <1>3 DEF RestartAll, CheckSDCard, PollKeeps, PauseAll, RestartStopsAvi,
           RestartStoppedAvi, RestartKills, RestartStopsJpg, RestartStopsJpgContinue,
           Resume, CardRemoved, CardInserted, CardMounted, aviVars, jpgVars,
           AviStop, AviStopNoStop, AviStopInterval, KillRecorder
    <2>2. /\ restarts' = restarts \/ (restarts < config.restarts /\ restarts' = restarts + 1)
          /\ removals' = removals \/ (removals < config.removals /\ removals' = removals + 1)
        BY <1>3 DEF RestartAll, CheckSDCard, PauseAll, RestartStopsAvi,
           RestartStoppedAvi, RestartKills, RestartStopsJpg, RestartStopsJpgContinue,
           Resume, CardRemoved, CardInserted, CardMounted
    <2>3. jpg' \in SUBSET {"RUN", "STOP", "CONT"}
        BY <1>3 DEF RestartAll, CheckSDCard, PauseAll, RestartStopsAvi,
           RestartStoppedAvi, RestartKills, RestartStopsJpg, RestartStopsJpgContinue,
           Resume, CardRemoved, CardInserted, CardMounted, jpgVars, JpgStopContinue
    <2> QED
        BY <1>0, <1>1, <2>1, <2>2, <2>3
<1>4. CASE AddSchedule \/ AlarmOver \/ UNCHANGED vars
    <2>1. UNCHANGED <<restarts, removals, rec, jpg, self>>
        BY <1>4 DEF AddSchedule, AlarmOver, vars, envVars, aviVars, jpgVars
    <2>2. alarms' = alarms \/ (alarms < config.alarms /\ alarms' = alarms + 1)
        BY <1>4 DEF AddSchedule, AlarmOver, vars, envVars
    <2> QED
        BY <1>0, <1>1, <2>1, <2>2
<1>5. CASE AviMngThr \/ RecorderEnds
    <2>1. UNCHANGED <<alarms, restarts, removals, jpg, self>>
        BY <1>5 DEF AviMngThr, RecorderEnds, AviReady, AviStatus, AviWait, AviSave,
           RecorderStarts, AviAgain, AviRecorded, AviDispatch, AviKeeps, envVars, jpgVars
    <2>2. rec' \in {rec, "none", "again"} \/ rec' = aviThr.kind
        BY <1>5 DEF AviMngThr, RecorderEnds, AviReady, AviStatus, AviWait, AviSave,
           RecorderStarts, AviAgain, AviRecorded, AviDispatch
    <2>3. aviThr.kind \in {"none"} \union Running
        BY DEF StatusInv, StatusTyped, AviThrType
    <2> QED
        BY <1>1, <2>1, <2>2, <2>3
<1>6. CASE JpgMngThr \/ JpgSelfCmdThr \/ FileDispatcherThr
    <2>1. UNCHANGED <<alarms, restarts, removals, rec>>
        BY <1>6 DEF JpgMngThr, JpgSelfCmdThr, FileDispatcherThr, JpgReady, JpgStatus,
           JpgWait, JpgSave, JpgShoot, JpgDispatch, JpgKeeps, envVars, aviVars
    <2>2. /\ jpg' \in SUBSET {"RUN", "STOP", "CONT"}
          /\ self' = self \/ (self > 0 /\ self' = self - 1)
        BY <1>6 DEF JpgMngThr, JpgSelfCmdThr, FileDispatcherThr, JpgReady, JpgStatus,
           JpgWait, JpgSave, JpgShoot, JpgDispatch, JpgRun
    <2> QED
        BY <1>1, <2>1, <2>2
<1> QED
    BY <1>2, <1>3, <1>4, <1>5, <1>6 DEF Next

\* The counters and the bounds are inductive with what is known of recordings
\* and of alarmstatus.
THEOREM CountersInvariant == Spec => [](CountInv /\ Bounded)
<1>1. Init => CountInv /\ Bounded
    <2> SUFFICES ASSUME Init PROVE CountInv /\ Bounded
        OBVIOUS
    <2> USE DEF Init
    <2>1. CountInv
        BY PeriodAssumption DEF CountInv, SawAlarm, AviOwed, JpgOwed, JpgRuns, JpgLow,
           TooFew, Notes, StartedPcs
    <2>2. Bounded
        BY ScenariosAssumption DEF Bounded
    <2> QED
        BY <2>1, <2>2
<1>2. RecInv /\ StatusInv /\ (CountInv /\ Bounded) /\ [Next]_vars => (CountInv /\ Bounded)'
    <2> SUFFICES ASSUME RecInv, StatusInv, CountInv, Bounded, [Next]_vars
                 PROVE  CountInv' /\ Bounded'
        OBVIOUS
    <2>1. CountInv'
        <3>1. CASE AlramScheduler
            BY <3>1, SchedulerCounts
        <3>2. CASE RestartAll \/ CheckSDCard
            BY <3>2, PollCounts
        <3>3. CASE AviReady
            BY <3>3 DEF AviReady, AviKeeps, envVars, jpgVars, CountInv, SawAlarm, AviOwed,
               JpgOwed, JpgRuns, JpgLow, TooFew, Notes
        <3>4. CASE \/ AddSchedule \/ AlarmOver
                   \/ AviStatus \/ AviWait \/ AviSave \/ RecorderStarts \/ RecorderEnds
                   \/ AviAgain \/ AviRecorded \/ AviDispatch
                   \/ JpgMngThr \/ JpgSelfCmdThr \/ FileDispatcherThr
                   \/ UNCHANGED vars
            <4>1. UNCHANGED <<config, card, removals, aviNum, jpgNum, sched, poll>>
                BY <3>4, ManagersKeep
            <4> QED
                BY <4>1 DEF CountInv, SawAlarm, AviOwed, JpgOwed, JpgRuns, JpgLow, TooFew, Notes
        <3> QED
            BY <3>1, <3>2, <3>3, <3>4 DEF Next, AviMngThr
    <2> QED
        BY <2>1, KeepsBounded
<1> QED
    BY <1>1, <1>2, RecordingsInvariant, StatusInvariant, PTL DEF Spec

\* Every variable keeps its type.  gAviRunNum and gJpgRunNum (avi_mng.c:509,
\* jpg_mng.c) count at most one run more than cards were taken out, although
\* the scheduler forgets a run when it finds the card out, and gJpgRunNum is at
\* least -2 although two threads count it down before they look at it.
THEOREM TypesKept == Spec => []TypeOK
<1>1. RecInv /\ StatusInv /\ DispInv /\ (CountInv /\ Bounded) => TypeOK
    <2> SUFFICES ASSUME RecInv, StatusInv, DispInv, CountInv, Bounded PROVE TypeOK
        OBVIOUS
    <2>1. /\ sched \in [pc : SchedPcs, saw : BOOLEAN, last : BOOLEAN,
                       count : 0 .. Period - 1, aviRun : BOOLEAN, flag : BOOLEAN,
                       state : SUBSET AviFlags, num : -2 .. 1 + removals]
          /\ poll \in [pc : PollPcs, state : SUBSET AviFlags, num : -2 .. 1 + removals]
        BY DEF RecInv, Types, SchedType, PollType, CountInv, Notes
    <2>2. aviNum \in 0 .. 1 + removals /\ jpgNum \in -2 .. 1 + removals
        BY DEF RecInv, Types, CountInv, AviOwed, JpgOwed, JpgRuns, JpgLow, TooFew
    <2>3. /\ card \in BOOLEAN /\ alarm \in BOOLEAN /\ pause \in BOOLEAN
          /\ avi \subseteq AviFlags
        BY DEF RecInv, Types
    <2>4. /\ ui \subseteq Bits
          /\ status \in [by : {"none", "sched", "AVI", "JPG"}, read : SUBSET Bits]
          /\ aviThr \in [pc : ManagerPcs \union {"exec", "rec"},
                         kind : {"none"} \union Running]
          /\ jpgThr \in [pc : ManagerPcs \union {"shoot"}]
        BY DEF StatusInv, StatusTyped, StatusType, AviThrType, JpgThrType
    <2>5. /\ config \in Scenarios /\ rec \in {"none", "again"} \union Running
          /\ jpg \subseteq {"RUN", "STOP", "CONT"} /\ self \in Nat /\ disp \in Nat
          /\ alarms \in 0 .. config.alarms /\ restarts \in 0 .. config.restarts
          /\ removals \in 0 .. config.removals
        BY DEF Bounded, DispInv
    <2> QED
        BY <2>1, <2>2, <2>3, <2>4, <2>5 DEF TypeOK
<1> QED
    BY <1>1, RecordingsInvariant, StatusInvariant, DispInvariant, CountersInvariant, PTL
=============================================================================
