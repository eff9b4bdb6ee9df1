---------------------------- MODULE AlarmServer ----------------------------
(***************************************************************************)
(* The alarm server of the system server: AlramScheduler starts and stops  *)
(* recordings while there is an alarm (alarm_schedule.c), AviMngThr makes  *)
(* them with a process of its own, Appro_avi_save (avi_mng.c), JpgMngThr   *)
(* takes pictures (jpg_mng.c), and both give their files to threads of the *)
(* file dispatcher (file_dispatcher.c).  The polling thread of the system  *)
(* server interferes: RestartAll pauses the scheduler and stops the        *)
(* recordings, CheckSDCard (sd_config.c) sees a card taken out or put in.  *)
(*                                                                         *)
(* The two managers wait on a condition variable with a mutex they do not  *)
(* hold, while their flags are under another one: a signal that comes      *)
(* between the check and the wait is lost.                                 *)
(***************************************************************************)
EXTENDS Integers

CONSTANTS
    DispLimit,  \* FILE_DISP_THR_LIMIT
    Period,     \* rounds of the scheduler between two starts, 49
    Scenarios   \* the settings (card: one is in at the start; intervals: AVIs
                \* are wanted without one, pictures: JPEGs are) with bounds for
                \* the alarms, the calls of RestartAll and the cards taken out

ASSUME DispLimitAssumption == DispLimit \in Nat \ {0}
ASSUME PeriodAssumption == Period \in Nat \ {0}
ASSUME ScenariosAssumption ==
    Scenarios \subseteq [card : BOOLEAN, intervals : BOOLEAN, pictures : BOOLEAN,
                         alarms : Nat, restarts : Nat, removals : Nat]

VARIABLES
    config,     \* the scenario
    card,       \* sdinsert: TRUE for 3, inserted and mounted, FALSE for 0
    alarm,      \* HaveSchedule
    pause,      \* gAS_Pause
    ui,         \* alarmstatus: EXT for an alarm, AVI, JPG, RECORD
    status,     \* hAlarmStatusSem: its holder and what it read
    sched,      \* AlramScheduler
    poll,       \* the polling thread
    avi,        \* gAviState
    aviNum,     \* gAviRunNum
    aviThr,     \* AviMngThr: pc and the kind of recording
    rec,        \* Appro_avi_save
    jpg,        \* gJpgState
    jpgNum,     \* gJpgRunNum
    jpgThr,     \* JpgMngThr: pc
    self,       \* threads JpgSelfCmdThr
    disp,       \* gFileDispCount: threads of the file dispatcher
    alarms, restarts, removals      \* bounds

aviVars == <<avi, aviNum, aviThr, rec>>
jpgVars == <<jpg, jpgNum, jpgThr, self>>
envVars == <<config, card, alarm, pause, alarms, restarts, removals>>
vars == <<envVars, ui, status, sched, poll, aviVars, jpgVars, disp>>

Free == [by |-> "none", read |-> {}]

\* alarmstatus is a setting: it may come from the flash as it was saved.
Init ==
    /\ config \in Scenarios
    /\ card = config.card
    /\ ui \in {{}, {"EXT", "AVI", "RECORD"}}
    /\ alarm = FALSE /\ pause = FALSE
    /\ status = Free
    /\ sched = [pc |-> "look", saw |-> FALSE, last |-> ui # {}, count |-> 0,
                aviRun |-> FALSE, flag |-> FALSE, state |-> {}, num |-> 0]
    /\ poll = [pc |-> "idle", state |-> {}, num |-> 0]
    /\ avi = {} /\ aviNum = 0 /\ rec = "none"
    /\ aviThr = [pc |-> "ready", kind |-> "none"]
    /\ jpg = {} /\ jpgNum = 0 /\ jpgThr = [pc |-> "ready"] /\ self = 0
    /\ disp = 0
    /\ alarms = 0 /\ restarts = 0 /\ removals = 0

-----------------------------------------------------------------------------
(* alarmstatus is read and written back under hAlarmStatusSem.             *)

ReadStatus(w) ==
    /\ status.by = "none"
    /\ status' = [by |-> w, read |-> ui]
WriteStatus(w, value) ==
    /\ status.by = w
    /\ ui' = value
    /\ status' = Free

\* RECORD stays for the other manager.
Hidden(m) ==
    LET left == status.read \ {m} IN
    IF left \intersect {"AVI", "JPG"} = {} THEN left \ {"RECORD"} ELSE left
Shown(m) == status.read \union {m, "RECORD"}

-----------------------------------------------------------------------------
(* An alarm comes and goes: AddSchedule, and its duration.                 *)

AddSchedule ==
    /\ ~ alarm /\ alarms < config.alarms
    /\ alarm' = TRUE /\ alarms' = alarms + 1
    /\ UNCHANGED <<config, card, pause, restarts, removals, ui, status, sched,
                   poll, aviVars, jpgVars, disp>>

AlarmOver ==
    /\ alarm
    /\ alarm' = FALSE
    /\ UNCHANGED <<config, card, pause, alarms, restarts, removals, ui, status, sched,
                   poll, aviVars, jpgVars, disp>>

-----------------------------------------------------------------------------
(* The commands of the managers.                                           *)

\* pthread_cond_signal
Woken(thr) == IF thr.pc = "asleep" THEN [thr EXCEPT !.pc = "ready"] ELSE thr

AviRun_NoSecondSignal(isNoStop) ==
    IF isNoStop
    THEN /\ aviNum' = aviNum + 1
         /\ avi' = IF aviNum = 0 THEN avi \union {"RUN", "NO_STOP"} ELSE avi
         /\ aviThr' = IF aviNum = 0 THEN Woken(aviThr) ELSE aviThr
    ELSE /\ avi' = avi \union {"RUN"}
         /\ aviThr' = IF "RUN" \in avi THEN aviThr ELSE Woken(aviThr)
         /\ UNCHANGED aviNum

AviRun(isNoStop) ==
    IF isNoStop
    THEN /\ aviNum' = aviNum + 1
         /\ avi' = IF aviNum = 0 THEN avi \union {"RUN", "NO_STOP"} ELSE avi
         /\ aviThr' = IF aviNum = 0 THEN Woken(aviThr) ELSE aviThr
    ELSE /\ avi' = avi \union {"RUN"}
         /\ aviThr' = Woken(aviThr)
         /\ UNCHANGED aviNum

\* killall -2 Appro_avi_save: it ends the process, if there is one.
Running == {"interval", "nostop"}
KillRecorder == rec' = IF rec \in Running THEN "none" ELSE rec

\* AviStop reads gAviState first and acts on what it read.
AviStopNoStop_NotRestored(state) ==
    /\ "NO_STOP" \in state
    /\ aviNum' = aviNum - 1
    /\ IF aviNum = 1
       THEN KillRecorder /\ avi' = avi \ {"NO_STOP"}
       ELSE UNCHANGED <<avi, rec>>

AviStopNoStop(state) ==
    /\ "NO_STOP" \in state
    /\ aviNum' = IF aviNum > 0 THEN aviNum - 1 ELSE 0
    /\ IF aviNum = 1
       THEN KillRecorder /\ avi' = avi \ {"NO_STOP"}
       ELSE UNCHANGED <<avi, rec>>

AviStopInterval(state) ==
    /\ "NO_STOP" \notin state
    /\ IF "AVI" \in ui THEN KillRecorder ELSE UNCHANGED rec
    /\ UNCHANGED <<avi, aviNum>>

AviStop(state) == AviStopNoStop(state) \/ AviStopInterval(state)

\* Its last step without AVI_NO_STOP.
ForgetRun == avi' = avi \ {"RUN"}
\* Where a call of AviStop goes on to.
AfterStop(state, next) == IF "NO_STOP" \in state THEN next ELSE "forget"

\* JpgRun(flag, 0)
JpgRun ==
    /\ jpg' = jpg \union {"RUN"}
    /\ jpgThr' = Woken(jpgThr)

\* The second half of JpgRun(flag, 1), with what gJpgRunNum was.  Without
\* memory or a thread nothing is started, and the number stays counted.
JpgRunContinue(was) ==
    \/ /\ was = 0
       /\ self' = self + 1
       /\ jpg' = (jpg \ {"STOP"}) \union {"RUN", "CONT"}
       /\ jpgThr' = Woken(jpgThr)
    \/ UNCHANGED <<self, jpg, jpgThr>>

\* The second half of JpgStop(1), with what it counted gJpgRunNum down to.
JpgStopContinue(is) ==
    /\ jpg' = IF is = 0 THEN (jpg \ {"CONT"}) \union {"STOP"} ELSE jpg
    /\ jpgNum' = IF is < 0 THEN 0 ELSE jpgNum

-----------------------------------------------------------------------------
(* AlramScheduler.                                                         *)

SchedKeeps == UNCHANGED <<envVars, poll, disp>>
Round(s) == [s EXCEPT !.pc = "look", !.last = s.saw]    \* the end of a round
\* While there is an alarm, a round starts recordings or counts down.
Started(s) == Round([s EXCEPT !.count = Period - 1])

Look ==
    /\ sched.pc = "look"
    /\ LET s == [sched EXCEPT !.saw = alarm /\ ~ pause] IN
       sched' = IF s.saw
                THEN IF s.count = 0 THEN [s EXCEPT !.pc = "avi"]
                     ELSE Round([s EXCEPT !.count = @ - 1])
                ELSE IF s.last THEN [s EXCEPT !.pc = "end", !.count = 0]
                     ELSE Round(s)
    /\ SchedKeeps /\ UNCHANGED <<ui, status, aviVars, jpgVars>>

\* sdinsert is read once a round: with a card only the first round of an alarm
\* starts recordings, and they do not stop.
StartAvi ==
    /\ sched.pc = "avi" /\ ~ (card /\ sched.last)
    /\ IF card \/ config.intervals THEN AviRun(card) ELSE UNCHANGED <<avi, aviNum, aviThr>>
    /\ sched' = [sched EXCEPT !.pc = IF ~ config.pictures THEN "show"
                                     ELSE IF card THEN "jpgcont" ELSE "jpg",
                             !.aviRun = card \/ config.intervals,
                             !.flag = config.pictures]
    /\ SchedKeeps /\ UNCHANGED <<ui, status, rec, jpgVars>>

StartNothing ==
    /\ sched.pc = "avi" /\ card /\ sched.last
    /\ sched' = [sched EXCEPT !.pc = "show", !.flag = config.pictures]
    /\ SchedKeeps /\ UNCHANGED <<ui, status, aviVars, jpgVars>>

StartJpg ==
    /\ sched.pc = "jpg"
    /\ JpgRun
    /\ sched' = [sched EXCEPT !.pc = "show"]
    /\ SchedKeeps /\ UNCHANGED <<ui, status, aviVars, jpgNum, self>>

\* JpgRun(flag, 1) counts and then acts on the number it found.
CountJpg ==
    /\ sched.pc = "jpgcont"
    /\ jpgNum' = jpgNum + 1
    /\ sched' = [sched EXCEPT !.pc = "jpgcont2", !.num = jpgNum]
    /\ SchedKeeps /\ UNCHANGED <<ui, status, aviVars, jpg, jpgThr, self>>

StartJpgContinue ==
    /\ sched.pc = "jpgcont2"
    /\ JpgRunContinue(sched.num)
    /\ sched' = [sched EXCEPT !.pc = "show", !.num = 0]
    /\ SchedKeeps /\ UNCHANGED <<ui, status, aviVars, jpgNum>>

ShowAlarm ==
    /\ sched.pc = "show"
    /\ IF sched.last
       THEN sched' = Started(sched) /\ UNCHANGED status
       ELSE sched' = [sched EXCEPT !.pc = "show2"] /\ ReadStatus("sched")
    /\ SchedKeeps /\ UNCHANGED <<ui, aviVars, jpgVars>>

AlarmShown ==
    /\ sched.pc = "show2"
    /\ WriteStatus("sched", status.read \union {"EXT"})
    /\ sched' = Started(sched)
    /\ SchedKeeps /\ UNCHANGED <<aviVars, jpgVars>>

\* The alarm is over; only with a card there is something to stop.
EndAvi ==
    /\ sched.pc = "end"
    /\ sched' = IF card
                THEN IF sched.aviRun THEN [sched EXCEPT !.pc = "avistop", !.state = avi]
                     ELSE [sched EXCEPT !.pc = "jpgstop"]
                ELSE [sched EXCEPT !.pc = "hide"]
    /\ SchedKeeps /\ UNCHANGED <<ui, status, aviVars, jpgVars>>

StopAvi ==
    /\ sched.pc = "avistop"
    /\ AviStop(sched.state)
    /\ sched' = [sched EXCEPT !.pc = AfterStop(sched.state, "jpgstop"),
                             !.aviRun = FALSE, !.state = {}]
    /\ SchedKeeps /\ UNCHANGED <<ui, status, aviThr, jpgVars>>

AviStopped ==
    /\ sched.pc = "forget"
    /\ ForgetRun
    /\ sched' = [sched EXCEPT !.pc = "jpgstop"]
    /\ SchedKeeps /\ UNCHANGED <<ui, status, aviNum, aviThr, rec, jpgVars>>

EndJpg ==
    /\ sched.pc = "jpgstop"
    /\ IF sched.flag
       THEN /\ jpgNum' = jpgNum - 1
            /\ sched' = [sched EXCEPT !.pc = "jpgstop2", !.num = jpgNum - 1]
       ELSE /\ sched' = [sched EXCEPT !.pc = "hide"]
            /\ UNCHANGED jpgNum
    /\ SchedKeeps /\ UNCHANGED <<ui, status, aviVars, jpg, jpgThr, self>>

StopJpg ==
    /\ sched.pc = "jpgstop2"
    /\ JpgStopContinue(sched.num)
    /\ sched' = [sched EXCEPT !.pc = "hide", !.num = 0]
    /\ SchedKeeps /\ UNCHANGED <<ui, status, aviVars, jpgThr, self>>

HideAlarm ==
    /\ sched.pc = "hide"
    /\ ReadStatus("sched")
    /\ sched' = [sched EXCEPT !.pc = "hide2"]
    /\ SchedKeeps /\ UNCHANGED <<ui, aviVars, jpgVars>>

AlarmHidden ==
    /\ sched.pc = "hide2"
    /\ WriteStatus("sched", status.read \ {"EXT"})
    /\ sched' = Round(sched)
    /\ SchedKeeps /\ UNCHANGED <<aviVars, jpgVars>>

AlramScheduler ==
    \/ Look
    \/ StartAvi \/ StartNothing \/ StartJpg \/ CountJpg \/ StartJpgContinue
    \/ ShowAlarm \/ AlarmShown
    \/ EndAvi \/ StopAvi \/ AviStopped \/ EndJpg \/ StopJpg \/ HideAlarm \/ AlarmHidden

-----------------------------------------------------------------------------
(* The polling thread: RestartAll, and CheckSDCard.                         *)

PollKeeps == UNCHANGED <<config, alarms, ui, status, sched, disp>>

PauseAll ==
    /\ poll.pc = "idle" /\ restarts < config.restarts
    /\ alarm' = FALSE /\ pause' = TRUE
    /\ restarts' = restarts + 1
    /\ poll' = [poll EXCEPT !.pc = "avistop", !.state = avi]
    /\ PollKeeps /\ UNCHANGED <<card, removals, aviVars, jpgVars>>

RestartStopsAvi ==
    /\ poll.pc = "avistop"
    /\ AviStop(poll.state)
    /\ poll' = [poll EXCEPT !.pc = AfterStop(poll.state, "kill"), !.state = {}]
    /\ PollKeeps
    /\ UNCHANGED <<card, alarm, pause, restarts, removals, aviThr, jpgVars>>

RestartStoppedAvi ==
    /\ poll.pc = "forget"
    /\ ForgetRun
    /\ poll' = [poll EXCEPT !.pc = "kill"]
    /\ PollKeeps
    /\ UNCHANGED <<card, alarm, pause, restarts, removals, aviNum, aviThr, rec, jpgVars>>

RestartKills ==
    /\ poll.pc = "kill"
    /\ KillRecorder
    /\ poll' = [poll EXCEPT !.pc = "jpgstop"]
    /\ PollKeeps
    /\ UNCHANGED <<card, alarm, pause, restarts, removals, avi, aviNum, aviThr, jpgVars>>

\* JpgStop(1) with a card, JpgStop(0) without.
RestartStopsJpg ==
    /\ poll.pc = "jpgstop"
    /\ IF card
       THEN /\ jpgNum' = jpgNum - 1
            /\ poll' = [poll EXCEPT !.pc = "jpgstop2", !.num = jpgNum - 1]
            /\ UNCHANGED jpg
       ELSE /\ jpg' = jpg \union {"STOP"}
            /\ poll' = [poll EXCEPT !.pc = "resume"]
            /\ UNCHANGED jpgNum
    /\ PollKeeps
    /\ UNCHANGED <<card, alarm, pause, restarts, removals, aviVars, jpgThr, self>>

RestartStopsJpgContinue ==
    /\ poll.pc = "jpgstop2"
    /\ JpgStopContinue(poll.num)
    /\ poll' = [poll EXCEPT !.pc = "resume", !.num = 0]
    /\ PollKeeps
    /\ UNCHANGED <<card, alarm, pause, restarts, removals, aviVars, jpgThr, self>>

\* Both RestartAll and CheckSDCard end with it.
Resume ==
    /\ poll.pc = "resume"
    /\ pause' = FALSE
    /\ poll' = [poll EXCEPT !.pc = "idle"]
    /\ PollKeeps /\ UNCHANGED <<card, alarm, restarts, removals, aviVars, jpgVars>>

\* The card is out, whatever is being recorded on it.
CardRemoved ==
    /\ poll.pc = "idle" /\ card /\ removals < config.removals
    /\ card' = FALSE
    /\ removals' = removals + 1
    /\ PollKeeps /\ UNCHANGED <<alarm, pause, restarts, poll, aviVars, jpgVars>>

\* Another one is in; the scheduler pauses while it is mounted.
CardInserted ==
    /\ poll.pc = "idle" /\ ~ card /\ removals > 0
    /\ pause' = TRUE
    /\ poll' = [poll EXCEPT !.pc = "mount"]
    /\ PollKeeps /\ UNCHANGED <<card, alarm, restarts, removals, aviVars, jpgVars>>

CardMounted ==
    /\ poll.pc = "mount"
    /\ card' = TRUE
    /\ poll' = [poll EXCEPT !.pc = "resume"]
    /\ PollKeeps /\ UNCHANGED <<alarm, pause, restarts, removals, aviVars, jpgVars>>

RestartAll ==
    \/ PauseAll \/ RestartStopsAvi \/ RestartStoppedAvi \/ RestartKills
    \/ RestartStopsJpg \/ RestartStopsJpgContinue \/ Resume

CheckSDCard == CardRemoved \/ CardInserted \/ CardMounted

-----------------------------------------------------------------------------
(* The loop that both managers run.  m is "AVI" or "JPG".                  *)

At(thr, pc) == thr.pc = pc
GoTo(thr, pc) == [thr EXCEPT !.pc = pc]

\* Both halves of the update of alarmstatus, before a sleep and a recording.
StatusStep_NoSemWait(m, thr) ==
    \/ /\ thr.pc \in {"hide", "show"}
       /\ status' = [by |-> m, read |-> ui]
       /\ UNCHANGED ui
    \/ At(thr, "hide2") /\ ui' = Hidden(m) /\ status' = Free
    \/ At(thr, "show2") /\ ui' = Shown(m) /\ status' = Free

StatusStep(m, thr) ==
    \/ thr.pc \in {"hide", "show"} /\ ReadStatus(m) /\ UNCHANGED ui
    \/ At(thr, "hide2") /\ WriteStatus(m, Hidden(m))
    \/ At(thr, "show2") /\ WriteStatus(m, Shown(m))

AfterStatus(thr) ==
    CASE thr.pc = "hide" -> GoTo(thr, "hide2")
      [] thr.pc = "show" -> GoTo(thr, "show2")
      [] thr.pc = "hide2" -> GoTo(thr, "wait")
      [] thr.pc = "show2" -> GoTo(thr, "save")

-----------------------------------------------------------------------------
(* AviMngThr and Appro_avi_save.                                           *)

AviKeeps == UNCHANGED <<envVars, sched, poll, jpgVars>>

\* GetAviState(AVI_RUN | AVI_DST_MASK) takes the flags that it tests.
AviReady ==
    /\ At(aviThr, "ready")
    /\ avi' = avi \ {"RUN"}
    /\ aviThr' = GoTo(aviThr, IF "RUN" \in avi THEN "show" ELSE "hide")
    /\ AviKeeps /\ UNCHANGED <<ui, status, aviNum, rec, disp>>

AviStatus ==
    /\ StatusStep("AVI", aviThr)
    /\ aviThr' = AfterStatus(aviThr)
    /\ AviKeeps /\ UNCHANGED <<avi, aviNum, rec, disp>>

\* pthread_cond_wait; nothing is tested again.
AviWait ==
    /\ At(aviThr, "wait")
    /\ aviThr' = GoTo(aviThr, "asleep")
    /\ AviKeeps /\ UNCHANGED <<ui, status, avi, aviNum, rec, disp>>

\* AviSave up to system(): the number of dispatcher threads is looked at
\* without the semaphore, and memory may be short.
AviSave ==
    /\ At(aviThr, "save")
    /\ \/ /\ "NO_STOP" \in avi
          /\ aviThr' = [pc |-> "exec", kind |-> "nostop"]
       \/ /\ "NO_STOP" \notin avi /\ disp < DispLimit
          /\ aviThr' = [pc |-> "exec", kind |-> "interval"]
       \/ aviThr' = GoTo(aviThr, "ready")
    /\ AviKeeps /\ UNCHANGED <<ui, status, avi, aviNum, rec, disp>>

RecorderStarts ==
    /\ At(aviThr, "exec")
    /\ rec' = aviThr.kind
    /\ aviThr' = GoTo(aviThr, "rec")
    /\ AviKeeps /\ UNCHANGED <<ui, status, avi, aviNum, disp>>

\* The interval is over, the card is full or out, or a file has reached 1 GB:
\* AVI_RUN_AGAIN.
RecorderEnds ==
    /\ rec \in Running
    /\ rec' \in IF rec = "nostop" THEN {"none", "again"} ELSE {"none"}
    /\ AviKeeps /\ UNCHANGED <<ui, status, avi, aviNum, aviThr, disp>>

\* Another file without another look at gAviState.
AviAgain ==
    /\ At(aviThr, "rec") /\ rec = "again"
    /\ rec' = "none"
    /\ aviThr' = GoTo(aviThr, "exec")
    /\ AviKeeps /\ UNCHANGED <<ui, status, avi, aviNum, disp>>

\* Only the file of a recording that worked and was not too short is kept.
Kept(next) ==
    /\ next = "disp" => aviThr.kind = "interval"
    /\ aviThr' = [pc |-> next, kind |-> "none"]

AviRecorded_RunIsOver ==
    /\ At(aviThr, "rec") /\ rec = "none"
    /\ ForgetRun
    /\ \E next \in {"disp", "ready"} : Kept(next)
    /\ AviKeeps /\ UNCHANGED <<ui, status, aviNum, rec, disp>>

AviRecorded ==
    /\ At(aviThr, "rec") /\ rec = "none"
    /\ \E next \in {"disp", "ready"} : Kept(next)
    /\ AviKeeps /\ UNCHANGED <<ui, status, avi, aviNum, rec, disp>>

\* DoFileDispatch: one more thread; over the limit, or without memory, none.
DoFileDispatch_Trusting == disp' \in {disp, disp + 1}
DoFileDispatch == disp' \in {disp} \union {n \in {disp + 1} : n <= DispLimit}

AviDispatch ==
    /\ At(aviThr, "disp")
    /\ DoFileDispatch
    /\ aviThr' = GoTo(aviThr, "ready")
    /\ AviKeeps /\ UNCHANGED <<ui, status, avi, aviNum, rec>>

AviMngThr ==
    AviReady \/ AviStatus \/ AviWait \/ AviSave \/ RecorderStarts
    \/ AviAgain \/ AviRecorded \/ AviDispatch

-----------------------------------------------------------------------------
(* JpgMngThr, JpgSelfCmdThr and FileDispatcherThr.                         *)

JpgKeeps == UNCHANGED <<envVars, sched, poll, aviVars, jpgNum>>

\* Without a JPEG stream the loop goes on at once.
JpgReady ==
    /\ At(jpgThr, "ready")
    /\ jpg' = jpg \ {"RUN", "STOP"}
    /\ \E next \in IF "RUN" \in jpg THEN {"show", "ready"} ELSE {"hide"} :
          jpgThr' = GoTo(jpgThr, next)
    /\ JpgKeeps /\ UNCHANGED <<ui, status, self, disp>>

JpgStatus ==
    /\ StatusStep("JPG", jpgThr)
    /\ jpgThr' = AfterStatus(jpgThr)
    /\ JpgKeeps /\ UNCHANGED <<jpg, self, disp>>

JpgWait ==
    /\ At(jpgThr, "wait")
    /\ jpgThr' = GoTo(jpgThr, "asleep")
    /\ JpgKeeps /\ UNCHANGED <<ui, status, jpg, self, disp>>

\* SaveJpeg, unless there are too many dispatcher threads or no picture.
JpgSave ==
    /\ At(jpgThr, "save")
    /\ \/ disp < DispLimit /\ jpgThr' = GoTo(jpgThr, "shoot")
       \/ jpgThr' = GoTo(jpgThr, "ready")
    /\ JpgKeeps /\ UNCHANGED <<ui, status, jpg, self, disp>>

\* A picture is saved or not; JPG_STOP, a timeout or the last one ends it.
\* Without any picture there is nothing to send.
JpgShoot ==
    /\ At(jpgThr, "shoot")
    /\ \E next \in {"shoot", "disp", "ready"} :
          /\ next = "shoot" => "STOP" \notin jpg
          /\ jpgThr' = GoTo(jpgThr, next)
    /\ jpg' = jpg \ {"STOP"}
    /\ JpgKeeps /\ UNCHANGED <<ui, status, self, disp>>

JpgDispatch ==
    /\ At(jpgThr, "disp")
    /\ DoFileDispatch
    /\ jpgThr' = GoTo(jpgThr, "ready")
    /\ JpgKeeps /\ UNCHANGED <<ui, status, jpg, self>>

JpgMngThr ==
    JpgReady \/ JpgStatus \/ JpgWait \/ JpgSave \/ JpgShoot \/ JpgDispatch

\* Every second while the mode is on; the thread of an earlier time may find
\* the mode on again.
JpgSelfCmdThr ==
    /\ self > 0
    /\ IF "CONT" \in jpg THEN JpgRun /\ UNCHANGED self
       ELSE self' = self - 1 /\ UNCHANGED <<jpg, jpgThr>>
    /\ JpgKeeps /\ UNCHANGED <<ui, status, disp>>

\* FileDispatcherThr has sent its file.
FileDispatcherThr ==
    /\ disp > 0
    /\ disp' = disp - 1
    /\ JpgKeeps /\ UNCHANGED <<ui, status, jpg, jpgThr, self>>

-----------------------------------------------------------------------------
Next ==
    \/ AddSchedule \/ AlarmOver
    \/ AlramScheduler
    \/ RestartAll \/ CheckSDCard
    \/ AviMngThr \/ RecorderEnds
    \/ JpgMngThr \/ JpgSelfCmdThr
    \/ FileDispatcherThr

Spec == Init /\ [][Next]_vars

\* Threads run, the semaphore is given to each that waits for it, recordings
\* of an interval end and files are sent.  Alarms and restarts are up to others.
Fairness ==
    /\ WF_vars(AlramScheduler) /\ WF_vars(JpgMngThr)
    /\ SF_vars(AviMngThr)
    /\ WF_vars(rec = "interval" /\ RecorderEnds)
    /\ WF_vars(FileDispatcherThr)

FairSpec == Spec /\ Fairness

-----------------------------------------------------------------------------
Bits == {"EXT", "AVI", "JPG", "RECORD"}
SchedPcs == {"look", "avi", "jpg", "jpgcont", "jpgcont2", "show", "show2", "end",
             "avistop", "forget", "jpgstop", "jpgstop2", "hide", "hide2"}
PollPcs == {"idle", "avistop", "forget", "kill", "jpgstop", "jpgstop2", "resume", "mount"}
ManagerPcs == {"ready", "hide", "hide2", "wait", "asleep", "show", "show2", "save", "disp"}
AviFlags == {"RUN", "NO_STOP"}

\* Every variable has its type.  gAviRunNum and gJpgRunNum count at most one
\* more than the cards that were taken out, each of which may leave one run
\* that nothing stops any more; gJpgRunNum is below 0 only until each of the two
\* threads that call JpgStop(1) too often has put it right.
TypeOK ==
    /\ config \in Scenarios /\ card \in BOOLEAN
    /\ alarm \in BOOLEAN /\ pause \in BOOLEAN
    /\ ui \subseteq Bits
    /\ status \in [by : {"none", "sched", "AVI", "JPG"}, read : SUBSET Bits]
    /\ sched \in [pc : SchedPcs, saw : BOOLEAN, last : BOOLEAN,
                  count : 0 .. Period - 1, aviRun : BOOLEAN, flag : BOOLEAN,
                  state : SUBSET AviFlags, num : -2 .. 1 + removals]
    /\ poll \in [pc : PollPcs, state : SUBSET AviFlags, num : -2 .. 1 + removals]
    /\ avi \subseteq AviFlags /\ aviNum \in 0 .. 1 + removals
    /\ aviThr \in [pc : ManagerPcs \union {"exec", "rec"},
                   kind : {"none"} \union Running]
    /\ rec \in {"none", "again"} \union Running
    /\ jpg \subseteq {"RUN", "STOP", "CONT"} /\ jpgNum \in -2 .. 1 + removals
    /\ jpgThr \in [pc : ManagerPcs \union {"shoot"}]
    /\ self \in Nat /\ disp \in Nat
    /\ alarms \in 0 .. config.alarms /\ restarts \in 0 .. config.restarts
    /\ removals \in 0 .. config.removals

\* What the user sees is what is going on: the three writers of alarmstatus do
\* not undo each other's bits.  RECORD is on with AVI or JPG and only then, a
\* manager that sleeps shows nothing, and Appro_avi_save never runs unseen,
\* which AviStop relies on.
StatusMatches ==
    status.by = "none" =>
        /\ "RECORD" \in ui <=> {"AVI", "JPG"} \intersect ui # {}
        /\ aviThr.pc \in {"wait", "asleep"} => "AVI" \notin ui
        /\ jpgThr.pc \in {"wait", "asleep"} => "JPG" \notin ui
        /\ rec # "none" => "AVI" \in ui

\* The flag and the number of recordings that do not stop agree, whoever calls
\* AviStop too often; and as long as no card is taken out, there is one at most
\* and the scheduler still means to stop it.
NoStopOwned ==
    /\ "NO_STOP" \in avi <=> aviNum > 0
    /\ removals = 0 => aviNum \in {0, 1} /\ (aviNum = 1 => sched.aviRun)

\* Both managers look at gFileDispCount before they record, minutes before
\* they add a thread; the limit holds all the same.
DispatchBounded == disp <= DispLimit

\* AviRun while a recording of an interval is made: another one is made after
\* it (avi_mng.c:501), unless RestartAll or a new card stops both.
RunsAgain ==
    ("RUN" \in avi /\ rec = "interval") ~>
        (At(aviThr, "show") \/ restarts + removals > 0)

\* A run of an interval that comes between the manager's test of its flags and
\* its pthread_cond_wait wakes nobody, but is not lost while the alarm lasts:
\* the scheduler calls AviRun in later rounds again.  (With a card it does not.)
RunIsSeen ==
    ("RUN" \in avi /\ "NO_STOP" \notin avi) ~>
        (At(aviThr, "show") \/ ~ alarm \/ card \/ restarts + removals > 0)

\* AviRun "will make AVI manager to start recording if there is no AVI
\* recording" (avi_mng.c:501).
RunStartsRecording ==
    [][StartAvi /\ (card \/ config.intervals) /\ At(aviThr, "asleep")
           => "RUN" \in avi']_vars
=============================================================================
