------------------------------- MODULE FileMng ------------------------------
(***************************************************************************)
(* The settings of the camera.  SysInfo lives in shared memory; the file   *)
(* manager of the system server (file_mng_main.c, file_mng.c) keeps a copy *)
(* of it and of the system log in flash.  Other processes change a setting *)
(* by writing its field themselves and then sending a request through the  *)
(* file message driver (file_msg_drv.c), one message queue for requests    *)
(* and answers.  Two threads of the server save: FileMsgThread, when a     *)
(* request says so, and ProcFileThread, when bNeedWrite is set.  Power may *)
(* go at any time; FileMngInit then reads what the flash has.  Opening,    *)
(* reading, writing and closing a file may each fail.                      *)
(*                                                                         *)
(* A file is written through a stdio buffer: the magic number and the      *)
(* start of SysInfo leave the buffer when it is full (part 1), the blocks  *)
(* after it go to the file directly, and the last part stays in the buffer *)
(* until fclose.                                                           *)
(***************************************************************************)
EXTENDS Naturals, Sequences, Functions

CONSTANTS
    Threads,    \* threads of the processes that use the driver
    Proc,       \* Proc[t]: the process of t, its gProcId
    Values,     \* values of a setting
    Default,    \* the value SysInfoDefault gives it
    Zero,       \* what a file holds where nothing was written
    Gone,       \* beyond the end of a file
    None,       \* no thread, no message, no log entry
    NParts,     \* parts of SysInfo, in the order they reach the file
    MaxLog,     \* NUM_LOG_PER_PAGE * MAX_LOG_PAGE_NUM
    ErrorLimit, \* failures after which the driver looks up its queue again
    MaxOps,     \* bound: calls of the driver
    MaxLosses,  \* bound: times the power goes
    MaxErrors   \* bound: times the flash refuses an operation

ASSUME NPartsAssumption == NParts \in Nat /\ NParts >= 2
ASSUME MaxLogAssumption == MaxLog \in Nat
ASSUME ErrorLimitAssumption == ErrorLimit \in Nat \ {0}
ASSUME BoundsAssumption == MaxOps \in Nat /\ MaxLosses \in Nat /\ MaxErrors \in Nat
ASSUME DefaultAssumption == Default \in Values
ASSUME MarkersAssumption == Zero \notin Values /\ Gone \notin Values \union {Zero}
ASSUME NoneAssumption == None \notin Threads \union {Proc[t] : t \in Threads}

Parts == 1 .. NParts
Procs == {Proc[t] : t \in Threads}
Savers == {"msg", "proc"}   \* FileMsgThread and ProcFileThread

VARIABLES
    mem,        \* SysInfo in shared memory
    slot,       \* its tCurLog: the one log entry that is being passed
    file,       \* SYS_FILE
    logFile,    \* LOG_FILE: ok (the magic number is there) and its entries
    log,        \* gLogHead, the newest entry first
    dirty,      \* bNeedWrite
    quit,       \* IsFileQuit
    queue,      \* requests in the queue
    answer,     \* answer[p]: answers in the queue for process p
    gone,       \* the queue was removed
    srv,        \* FileMsgThread: pc and the request it serves
    proc,       \* ProcFileThread
    saver,      \* what each of them is writing
    overlap,    \* history: two saves of SYS_FILE ran into each other, and what
                \* is left of that is in the file or, after a start, in mem
    lost,       \* history: a save of SYS_FILE failed, and none was begun since
    client,     \* each thread's call
    sem,        \* hndlDrvSem of each process: its holder
    eCount,     \* eCount of each process
    orphan,     \* the process has made itself a queue that nobody serves
    ops, losses, errors \* bounds

serverVars == <<queue, answer, gone, srv, proc, saver>>
clientVars == <<client, sem, eCount, orphan, ops>>
vars == <<mem, slot, file, logFile, log, dirty, quit, overlap, lost, losses,
          errors, serverVars, clientVars>>

-----------------------------------------------------------------------------
Settings == [Parts -> Values]
SysInfoDefault == [k \in Parts |-> Default]
EmptyFile == [k \in Parts |-> Gone]
Closed == [at |-> "closed", pos |-> 1, tail |-> None, entries |-> << >>]
Failure == [Closed EXCEPT !.at = "failed"]
Idle == [pc |-> "idle", cmd |-> "NONE", part |-> 0]
Request(p, cmd, t) == [src |-> p, cmd |-> cmd, by |-> t, ok |-> FALSE]

\* A write at part k, wherever the file ends by now.
WriteAt(f, k, v) ==
    [q \in Parts |-> IF q = k THEN v
                     ELSE IF q < k /\ f[q] = Gone THEN Zero ELSE f[q]]

\* ReadGlobal accepts a file by its length and its magic number.
ReadGlobal_AnyLength(f) == f[1] \notin {Zero, Gone}
ReadGlobal(f) == f[NParts] # Gone /\ f[1] \notin {Zero, Gone}

Newest(s) == SubSeq(s, 1, IF Len(s) < MaxLog THEN Len(s) ELSE MaxLog)
\* The entries new written over the start of a file that holds old.
Over(new, old) == new \o SubSeq(old, Len(new) + 1, Len(old))

Init ==
    /\ mem = [k \in Parts |-> Zero]
    /\ slot = None
    /\ file = EmptyFile
    /\ logFile = [ok |-> FALSE, entries |-> << >>]
    /\ log = << >>
    /\ dirty = FALSE /\ quit = FALSE
    /\ queue = << >>
    /\ answer = [p \in Procs |-> << >>]
    /\ gone = FALSE
    /\ srv = [pc |-> "boot", msg |-> None]
    /\ proc = "none"
    /\ saver = [w \in Savers |-> Closed]
    /\ overlap = FALSE /\ lost = FALSE
    /\ client = [t \in Threads |-> Idle]
    /\ sem = [p \in Procs |-> None]
    /\ eCount = [p \in Procs |-> 0]
    /\ orphan = [p \in Procs |-> FALSE]
    /\ ops = 0 /\ losses = 0 /\ errors = 0

-----------------------------------------------------------------------------
(* The driver.  Every client begins with GetSysInfo, which waits for the   *)
(* server, so nothing is called while the server starts.                   *)

Up == srv.pc \notin {"boot", "init", "failed"}

\* The flash refuses an operation.
Error == errors < MaxErrors /\ errors' = errors + 1

\* After ErrorLimit failures Msg_Init once more: it finds the server's queue,
\* or creates one that nobody reads.  fResetSysInfo does not.
Call(t, cmd, k) ==
    LET p == Proc[t]
        again == eCount[p] >= ErrorLimit /\ cmd # "RESET" IN
    /\ Up /\ client[t].pc = "idle" /\ ops < MaxOps
    /\ client' = [client EXCEPT ![t] = [pc |-> "lock", cmd |-> cmd, part |-> k]]
    /\ eCount' = IF again THEN [eCount EXCEPT ![p] = 0] ELSE eCount
    /\ orphan' = IF again /\ gone THEN [orphan EXCEPT ![p] = TRUE] ELSE orphan
    /\ ops' = ops + 1
    /\ UNCHANGED sem

\* fSet...: the field is written without the semaphore, then SetSysInfo(0)
\* or SetSysInfoImmediately tells the file manager.
SetField(t) ==
    /\ \E k \in Parts, v \in Values, cmd \in {"WRITE", "WRITE_I"} :
          /\ Call(t, cmd, k)
          /\ mem' = [mem EXCEPT ![k] = v]
    /\ UNCHANGED <<slot, file, logFile, log, dirty, quit, overlap, lost, losses,
                   errors, serverVars>>

\* fSetSysLog
SetSysLog(t) ==
    /\ Call(t, "WRITE_LOG", 0)
    /\ slot' = t
    /\ UNCHANGED <<mem, file, logFile, log, dirty, quit, overlap, lost, losses,
                   errors, serverVars>>

\* GetSysInfo, GetSysLog, fResetSysInfo
Ask(t) ==
    /\ \E cmd \in {"READ", "READ_LOG", "RESET"} : Call(t, cmd, 0)
    /\ UNCHANGED <<mem, slot, file, logFile, log, dirty, quit, overlap, lost, losses,
                   errors, serverVars>>

\* SemWait and msgsnd.
Send(t) ==
    LET p == Proc[t] IN
    /\ client[t].pc = "lock"
    /\ ~ gone \/ orphan[p]
    /\ sem' = [sem EXCEPT ![p] = t]
    /\ client' = [client EXCEPT ![t].pc = "wait"]
    /\ queue' = IF orphan[p] THEN queue
                ELSE Append(queue, Request(p, client[t].cmd, t))
    /\ UNCHANGED <<mem, slot, file, logFile, log, dirty, quit, overlap, lost, losses, errors,
                   answer, gone, srv, proc, saver, eCount, orphan, ops>>

SendRequest_NoSemaphore(t) == Send(t)
SendRequest(t) == sem[Proc[t]] = None /\ Send(t)

Failed(t) == IF client[t].cmd = "RESET" THEN eCount
             ELSE [eCount EXCEPT ![Proc[t]] = @ + 1]

\* The queue is gone: msgsnd and msgrcv fail, the length stays 0.
SendFails(t) ==
    /\ client[t].pc = "lock" /\ sem[Proc[t]] = None
    /\ gone /\ ~ orphan[Proc[t]]
    /\ client' = [client EXCEPT ![t] = Idle]
    /\ eCount' = Failed(t)
    /\ UNCHANGED <<mem, slot, file, logFile, log, dirty, quit, overlap, lost, losses,
                   errors, serverVars, sem, orphan, ops>>

\* msgrcv of type gProcId and SemRelease.
Receive(t) ==
    LET p == Proc[t] IN
    /\ client[t].pc = "wait" /\ answer[p] # << >>
    /\ answer' = [answer EXCEPT ![p] = Tail(@)]
    /\ sem' = [sem EXCEPT ![p] = None]
    /\ client' = [client EXCEPT ![t] = Idle]
    /\ eCount' = IF Head(answer[p]).ok THEN eCount ELSE Failed(t)
    /\ UNCHANGED <<mem, slot, file, logFile, log, dirty, quit, overlap, lost, losses, errors,
                   queue, gone, srv, proc, saver, orphan, ops>>

\* The queue is removed under a thread that waits in msgrcv.
ReceiveFails(t) ==
    LET p == Proc[t] IN
    /\ client[t].pc = "wait" /\ gone /\ ~ orphan[p]
    /\ sem' = [sem EXCEPT ![p] = None]
    /\ client' = [client EXCEPT ![t] = Idle]
    /\ eCount' = Failed(t)
    /\ UNCHANGED <<mem, slot, file, logFile, log, dirty, quit, overlap, lost, losses,
                   errors, serverVars, orphan, ops>>

\* SendFileQuitCmd: no answer.
QuitRequest == Request(None, "QUIT", None)
SendFileQuitCmd ==
    /\ Up /\ ~ quit /\ ~ gone /\ ops < MaxOps
    /\ QuitRequest \notin Range(queue) \union {srv.msg}
    /\ queue' = Append(queue, QuitRequest)
    /\ ops' = ops + 1
    /\ UNCHANGED <<mem, slot, file, logFile, log, dirty, quit, overlap, lost, losses, errors,
                   answer, gone, srv, proc, saver, client, sem, eCount, orphan>>

-----------------------------------------------------------------------------
(* WriteGlobal, by either thread: create_log_file, then create_sys_file.   *)
(* Nothing keeps the two threads apart.                                    *)

WritesDefaults(w) == w = "msg" /\ srv.pc \in {"init", "reset"}
Source(w) == IF WritesDefaults(w) THEN SysInfoDefault ELSE mem
Other(w) == IF w = "msg" THEN "proc" ELSE "msg"

CreateLog(w) ==
    /\ saver[w].at = "start"
    /\ saver' = [saver EXCEPT ![w].at = "log", ![w].entries = Newest(log)]
    /\ logFile' = [ok |-> FALSE, entries |-> << >>]
    /\ UNCHANGED <<mem, slot, file, log, dirty, quit, overlap, lost, losses, errors,
                   queue, answer, gone, srv, proc, clientVars>>

CloseLog(w) ==
    /\ saver[w].at = "log"
    /\ saver' = [saver EXCEPT ![w].at = "open", ![w].entries = << >>]
    /\ logFile' = [ok |-> TRUE, entries |-> Over(saver[w].entries, logFile.entries)]
    /\ UNCHANGED <<mem, slot, file, log, dirty, quit, overlap, lost, losses, errors,
                   queue, answer, gone, srv, proc, clientVars>>

\* fopen(SYS_FILE, "wb") cuts the file off.
CreateSys(w) ==
    /\ saver[w].at = "open"
    /\ saver' = [saver EXCEPT ![w].at = "sys", ![w].pos = 1]
    /\ file' = EmptyFile
    /\ overlap' = \/ saver[Other(w)].at = "sys"
                  \/ overlap /\ Up /\ mem \notin Settings
    /\ lost' = FALSE
    /\ UNCHANGED <<mem, slot, logFile, log, dirty, quit, losses, errors,
                   queue, answer, gone, srv, proc, clientVars>>

\* fwrite: the last part is only copied into the buffer.
WriteSys(w) ==
    LET k == saver[w].pos IN
    /\ saver[w].at = "sys" /\ k <= NParts
    /\ saver' = [saver EXCEPT ![w].pos = k + 1,
                              ![w].tail = IF k = NParts THEN Source(w)[k] ELSE None]
    /\ file' = IF k = NParts THEN file ELSE WriteAt(file, k, Source(w)[k])
    /\ UNCHANGED <<mem, slot, logFile, log, dirty, quit, overlap, lost, losses, errors,
                   queue, answer, gone, srv, proc, clientVars>>

\* fclose writes it.
CloseSys(w) ==
    /\ saver[w].at = "sys" /\ saver[w].pos > NParts
    /\ saver' = [saver EXCEPT ![w] = Closed]
    /\ file' = WriteAt(file, NParts, saver[w].tail)
    /\ UNCHANGED <<mem, slot, logFile, log, dirty, quit, overlap, lost, losses, errors,
                   queue, answer, gone, srv, proc, clientVars>>

SaverStep(w) ==
    \/ CreateLog(w) \/ CloseLog(w)
    \/ CreateSys(w) \/ WriteSys(w) \/ CloseSys(w)

\* create_log_file fails: at fopen, or with some of the entries written.
\* WriteGlobal calls create_sys_file all the same.
LogFails(w) ==
    /\ Error
    /\ \/ saver[w].at = "start" /\ UNCHANGED logFile
       \/ /\ saver[w].at = "log"
          /\ \/ UNCHANGED logFile
             \/ \E n \in 1 .. Len(saver[w].entries) :
                   logFile' = [ok |-> TRUE,
                               entries |-> Over(SubSeq(saver[w].entries, 1, n - 1),
                                                logFile.entries)]
    /\ saver' = [saver EXCEPT ![w].at = "open", ![w].entries = << >>]
    /\ UNCHANGED <<mem, slot, file, log, dirty, quit, overlap, lost, losses,
                   queue, answer, gone, srv, proc, clientVars>>

\* create_sys_file returns FAIL: fopen fails and the old file stays, or fwrite
\* does; what it had in the full buffer may still be written by fclose.
SysFails(w) ==
    /\ Error
    /\ \/ saver[w].at = "open" /\ UNCHANGED file
       \/ /\ saver[w].at = "sys" /\ saver[w].pos < NParts
          /\ \/ UNCHANGED file
             \/ saver[w].pos = 1 /\ file' = WriteAt(file, 1, Source(w)[1])
    /\ saver' = [saver EXCEPT ![w] = Failure]
    /\ lost' = TRUE
    /\ UNCHANGED <<mem, slot, logFile, log, dirty, quit, overlap, losses,
                   queue, answer, gone, srv, proc, clientVars>>

\* fclose fails: nobody looks at its result, create_sys_file returns SUCCESS.
CloseSysFails(w) ==
    /\ Error
    /\ saver[w].at = "sys" /\ saver[w].pos > NParts
    /\ saver' = [saver EXCEPT ![w] = Closed]
    /\ lost' = TRUE
    /\ UNCHANGED <<mem, slot, file, logFile, log, dirty, quit, overlap, losses,
                   queue, answer, gone, srv, proc, clientVars>>

SaverFails(w) == LogFails(w) \/ SysFails(w) \/ CloseSysFails(w)

\* create_sys_file has returned.
Finished(w) == saver[w].at \in {"closed", "failed"}

-----------------------------------------------------------------------------
(* FileMsgThread.                                                          *)

\* ReadLog, and an empty log file where it finds none.  A read may stop early
\* or find none; fclose of the empty file may fail and nobody looks.
LoadLog ==
    \/ /\ logFile.ok /\ log' = Newest(logFile.entries)
       /\ UNCHANGED <<logFile, errors>>
    \/ /\ ~ logFile.ok /\ log' = << >>
       /\ logFile' = [ok |-> TRUE, entries |-> << >>]
       /\ UNCHANGED errors
    \/ /\ Error
       /\ \/ /\ logFile.ok /\ UNCHANGED logFile
             /\ \E n \in 1 .. Len(logFile.entries) :
                   log' = Newest(SubSeq(logFile.entries, 1, n - 1))
          \/ /\ log' = << >>
             /\ \E ok \in BOOLEAN : logFile' = [ok |-> ok, entries |-> << >>]

\* SetupEnv and FileMngInit with a SYS_FILE that can be read.
Boot ==
    /\ srv.pc = "boot" /\ ReadGlobal(file)
    /\ mem' = file
    /\ LoadLog
    /\ srv' = [srv EXCEPT !.pc = "recv"]
    /\ proc' = "check"
    /\ UNCHANGED <<slot, file, dirty, quit, overlap, lost, losses,
                   queue, answer, gone, saver, clientVars>>

\* Without one, or when reading it fails, create_sys_file with SysInfoDefault
\* first.
BootWithDefaults ==
    /\ srv.pc = "boot"
    /\ IF ReadGlobal(file) THEN Error ELSE UNCHANGED errors
    /\ srv' = [srv EXCEPT !.pc = "init"]
    /\ saver' = [saver EXCEPT !["msg"].at = "open"]
    /\ UNCHANGED <<mem, slot, file, logFile, log, dirty, quit, overlap, lost, losses,
                   queue, answer, gone, proc, clientVars>>

DefaultsWritten ==
    /\ srv.pc = "init" /\ saver["msg"] = Closed
    /\ mem' = SysInfoDefault
    /\ LoadLog
    /\ srv' = [srv EXCEPT !.pc = "recv"]
    /\ proc' = "check"
    /\ UNCHANGED <<slot, file, dirty, quit, overlap, lost, losses,
                   queue, answer, gone, saver, clientVars>>

\* The queue goes, with what is in it.
Msg_Kill ==
    /\ gone' = TRUE
    /\ queue' = << >>
    /\ answer' = [p \in Procs |-> << >>]

\* FileMngInit fails: with create_sys_file, or because LOG_FILE can neither be
\* read nor created, which counts as one error.  SetupEnv removes the queue and
\* the shared memory, and there is no server.
DefaultsFail ==
    /\ srv.pc = "init" /\ saver["msg"] = Failure
    /\ srv' = [srv EXCEPT !.pc = "failed"]
    /\ saver' = [saver EXCEPT !["msg"] = Closed]
    /\ Msg_Kill
    /\ UNCHANGED <<mem, slot, file, logFile, log, dirty, quit, overlap, lost, losses,
                   errors, proc, clientVars>>

EmptyLogFails ==
    /\ Error
    /\ \/ srv.pc = "boot" /\ ReadGlobal(file)
       \/ srv.pc = "init" /\ saver["msg"] = Closed
    /\ srv' = [srv EXCEPT !.pc = "failed"]
    /\ Msg_Kill
    /\ UNCHANGED <<mem, slot, file, logFile, log, dirty, quit, overlap, lost, losses,
                   proc, saver, clientVars>>

\* msgrcv
TakeRequest ==
    /\ srv.pc = "recv" /\ queue # << >>
    /\ srv' = [pc |-> "serve", msg |-> Head(queue)]
    /\ queue' = Tail(queue)
    /\ UNCHANGED <<mem, slot, file, logFile, log, dirty, quit, overlap, lost, losses, errors,
                   answer, gone, proc, saver, clientVars>>

Serving(cmd) == srv.pc = "serve" /\ srv.msg.cmd = cmd
Served(ok) == srv' = [pc |-> "reply", msg |-> [srv.msg EXCEPT !.ok = ok]]

ServeRead ==
    /\ Serving("READ")
    /\ Served(TRUE)
    /\ UNCHANGED <<mem, slot, file, logFile, log, dirty, quit, overlap, lost, losses, errors,
                   queue, answer, gone, proc, saver, clientVars>>

\* GetLog of a page and an item, which may be past the end of the log.
ServeReadLog ==
    /\ Serving("READ_LOG")
    /\ \E i \in 1 .. MaxLog :
          /\ slot' = IF i <= Len(log) THEN log[i] ELSE slot
          /\ Served(i <= Len(log))
    /\ UNCHANGED <<mem, file, logFile, log, dirty, quit, overlap, lost, losses, errors,
                   queue, answer, gone, proc, saver, clientVars>>

ServeWrite_Forgets ==
    /\ Serving("WRITE")
    /\ Served(TRUE)
    /\ UNCHANGED <<mem, slot, file, logFile, log, dirty, quit, overlap, lost, losses, errors,
                   queue, answer, gone, proc, saver, clientVars>>

ServeWrite ==
    /\ Serving("WRITE")
    /\ dirty' = TRUE
    /\ Served(TRUE)
    /\ UNCHANGED <<mem, slot, file, logFile, log, quit, overlap, lost, losses, errors,
                   queue, answer, gone, proc, saver, clientVars>>

\* AddLog
ServeWriteLog ==
    /\ Serving("WRITE_LOG")
    /\ log' = <<slot>> \o log
    /\ dirty' = TRUE
    /\ Served(TRUE)
    /\ UNCHANGED <<mem, slot, file, logFile, quit, overlap, lost, losses, errors,
                   queue, answer, gone, proc, saver, clientVars>>

StartSave ==
    /\ dirty' = FALSE
    /\ srv' = [srv EXCEPT !.pc = "save"]
    /\ saver' = [saver EXCEPT !["msg"].at = "start"]

ServeWriteNow ==
    /\ Serving("WRITE_I")
    /\ StartSave
    /\ UNCHANGED <<mem, slot, file, logFile, log, quit, overlap, lost, losses, errors,
                   queue, answer, gone, proc, clientVars>>

\* FileMngReset writes SysInfoDefault to the file and, when that succeeded, to
\* memory.  WriteGlobal follows in both cases.
ServeReset ==
    /\ Serving("RESET")
    /\ srv' = [srv EXCEPT !.pc = "reset"]
    /\ saver' = [saver EXCEPT !["msg"].at = "open"]
    /\ UNCHANGED <<mem, slot, file, logFile, log, dirty, quit, overlap, lost, losses, errors,
                   queue, answer, gone, proc, clientVars>>

ResetWritten ==
    /\ srv.pc = "reset" /\ Finished("msg")
    /\ mem' = IF saver["msg"] = Closed THEN SysInfoDefault ELSE mem
    /\ StartSave
    /\ UNCHANGED <<slot, file, logFile, log, quit, overlap, lost, losses, errors,
                   queue, answer, gone, proc, clientVars>>

\* Whatever WriteGlobal returned, the answer is a success.
SaveWritten ==
    /\ srv.pc = "save" /\ Finished("msg")
    /\ saver' = [saver EXCEPT !["msg"] = Closed]
    /\ Served(TRUE)
    /\ UNCHANGED <<mem, slot, file, logFile, log, dirty, quit, overlap, lost, losses, errors,
                   queue, answer, gone, proc, clientVars>>

\* msgsnd of the answer.
Reply ==
    /\ srv.pc = "reply"
    /\ answer' = [answer EXCEPT ![srv.msg.src] = Append(@, srv.msg)]
    /\ srv' = [pc |-> "recv", msg |-> None]
    /\ UNCHANGED <<mem, slot, file, logFile, log, dirty, quit, overlap, lost, losses, errors,
                   queue, gone, proc, saver, clientVars>>

\* SetFileQuit; the loop ends.
ServeQuit ==
    /\ Serving("QUIT")
    /\ quit' = TRUE
    /\ srv' = [pc |-> "exit", msg |-> None]
    /\ UNCHANGED <<mem, slot, file, logFile, log, dirty, overlap, lost, losses, errors,
                   queue, answer, gone, proc, saver, clientVars>>

\* CleanupFileEnv: the thread joins ProcFileThread and kills the queue.
CleanupFileEnv ==
    /\ srv.pc = "exit" /\ proc = "exited"
    /\ srv' = [srv EXCEPT !.pc = "down"]
    /\ log' = << >>
    /\ Msg_Kill
    /\ UNCHANGED <<mem, slot, file, logFile, dirty, quit, overlap, lost, losses, errors,
                   proc, saver, clientVars>>

FileMsgThread ==
    \/ Boot \/ BootWithDefaults \/ DefaultsWritten \/ DefaultsFail
    \/ TakeRequest
    \/ ServeRead \/ ServeReadLog \/ ServeWrite \/ ServeWriteLog
    \/ ServeWriteNow \/ ServeReset \/ ResetWritten \/ SaveWritten
    \/ Reply
    \/ ServeQuit \/ CleanupFileEnv

-----------------------------------------------------------------------------
(* ProcFileThread.                                                         *)

CheckQuit ==
    /\ proc = "check"
    /\ proc' = IF quit THEN "exited" ELSE "need"
    /\ UNCHANGED <<mem, slot, file, logFile, log, dirty, quit, overlap, lost, losses, errors,
                   queue, answer, gone, srv, saver, clientVars>>

FileNeedWrite ==
    /\ proc = "need"
    /\ proc' = IF dirty THEN "clear" ELSE "check"
    /\ UNCHANGED <<mem, slot, file, logFile, log, dirty, quit, overlap, lost, losses, errors,
                   queue, answer, gone, srv, saver, clientVars>>

FileUpdated ==
    /\ proc = "clear"
    /\ dirty' = FALSE
    /\ saver' = [saver EXCEPT !["proc"].at = "start"]
    /\ proc' = "save"
    /\ UNCHANGED <<mem, slot, file, logFile, log, quit, overlap, lost, losses, errors,
                   queue, answer, gone, srv, clientVars>>

ProcSaved_ClearsAgain ==
    /\ proc = "save" /\ Finished("proc")
    /\ saver' = [saver EXCEPT !["proc"] = Closed]
    /\ dirty' = FALSE
    /\ proc' = "check"
    /\ UNCHANGED <<mem, slot, file, logFile, log, quit, overlap, lost, losses, errors,
                   queue, answer, gone, srv, clientVars>>

\* WriteGlobal has returned, and its result is dropped.
ProcSaved ==
    /\ proc = "save" /\ Finished("proc")
    /\ saver' = [saver EXCEPT !["proc"] = Closed]
    /\ proc' = "check"
    /\ UNCHANGED <<mem, slot, file, logFile, log, dirty, quit, overlap, lost, losses, errors,
                   queue, answer, gone, srv, clientVars>>

ProcFileThread == CheckQuit \/ FileNeedWrite \/ FileUpdated \/ ProcSaved

-----------------------------------------------------------------------------
\* The camera loses power and starts again; what was written stays.
PowerLoss ==
    /\ losses < MaxLosses
    /\ losses' = losses + 1
    /\ mem' = [k \in Parts |-> Zero] /\ slot' = None
    /\ log' = << >> /\ dirty' = FALSE /\ quit' = FALSE
    /\ queue' = << >> /\ answer' = [p \in Procs |-> << >>] /\ gone' = FALSE
    /\ srv' = [pc |-> "boot", msg |-> None] /\ proc' = "none"
    /\ saver' = [w \in Savers |-> Closed]
    /\ client' = [t \in Threads |-> Idle]
    /\ sem' = [p \in Procs |-> None]
    /\ eCount' = [p \in Procs |-> 0] /\ orphan' = [p \in Procs |-> FALSE]
    /\ lost' = FALSE
    /\ UNCHANGED <<file, logFile, overlap, ops, errors>>

Next ==
    \/ \E t \in Threads :
          \/ SetField(t) \/ SetSysLog(t) \/ Ask(t)
          \/ SendRequest(t) \/ SendFails(t)
          \/ Receive(t) \/ ReceiveFails(t)
    \/ SendFileQuitCmd
    \/ \E w \in Savers : SaverStep(w) \/ SaverFails(w)
    \/ FileMsgThread \/ EmptyLogFails
    \/ ProcFileThread
    \/ PowerLoss

Spec == Init /\ [][Next]_vars

\* Every thread runs; whether somebody calls, quits or pulls the plug, and
\* whether the flash refuses, is open.
Fairness ==
    /\ WF_vars(FileMsgThread) /\ WF_vars(ProcFileThread)
    /\ \A w \in Savers : WF_vars(SaverStep(w))
    /\ \A t \in Threads : /\ WF_vars(SendRequest(t)) /\ WF_vars(SendFails(t))
                          /\ WF_vars(Receive(t)) /\ WF_vars(ReceiveFails(t))

FairSpec == Spec /\ Fairness

-----------------------------------------------------------------------------
Stored == Values \union {Zero, Gone}
Commands == {"READ", "READ_LOG", "WRITE", "WRITE_LOG", "WRITE_I", "RESET", "QUIT"}
Requests == [src : Procs \union {None}, cmd : Commands,
             by : Threads \union {None}, ok : BOOLEAN]

\* Every variable has its type.
TypeOK ==
    /\ mem \in [Parts -> Stored \ {Gone}] /\ file \in [Parts -> Stored]
    /\ slot \in Threads \union {None}
    /\ logFile \in [ok : BOOLEAN, entries : Seq(Threads \union {None})]
    /\ log \in Seq(Threads \union {None})
    /\ dirty \in BOOLEAN /\ quit \in BOOLEAN /\ gone \in BOOLEAN
    /\ overlap \in BOOLEAN /\ lost \in BOOLEAN
    /\ queue \in Seq(Requests) /\ answer \in [Procs -> Seq(Requests)]
    /\ srv \in [pc : {"boot", "init", "recv", "serve", "save", "reset", "reply",
                      "exit", "down", "failed"},
                msg : Requests \union {None}]
    /\ proc \in {"none", "check", "need", "clear", "save", "exited"}
    /\ saver \in [Savers -> [at : {"closed", "start", "log", "open", "sys", "failed"},
                             pos : 1 .. NParts + 1,
                             tail : Stored \union {None},
                             entries : Seq(Threads \union {None})]]
    /\ client \in [Threads -> [pc : {"idle", "lock", "wait"},
                               cmd : Commands \union {"NONE"}, part : Parts \union {0}]]
    /\ sem \in [Procs -> Threads \union {None}]
    /\ eCount \in [Procs -> 0 .. MaxOps] /\ orphan \in [Procs -> BOOLEAN]
    /\ ops \in 0 .. MaxOps /\ losses \in 0 .. MaxLosses /\ errors \in 0 .. MaxErrors

\* A setting that was changed in memory is going to reach the file: its
\* request is on the way, bNeedWrite is set, or a thread has yet to write it.
\* Nothing is lost between SetFileUpdate, FileUpdated and WriteGlobal as long
\* as the two threads do not write the file at the same time, and what a failed
\* save lost is taken up again by the next one that opens the file.
Saving == {"WRITE", "WRITE_I", "WRITE_LOG", "RESET"}
OnTheWay(k) ==
    \/ \E t \in Threads : client[t].pc = "lock" /\ client[t].part = k
    \/ \E i \in DOMAIN queue : queue[i].cmd \in Saving
    \/ srv.pc = "serve" /\ srv.msg.cmd \in Saving
WillBeWritten(w, k) ==
    \/ w = "proc" /\ proc = "clear"
    \/ w = "msg" /\ srv.pc = "reset"
    \/ saver[w].at \in {"start", "log", "open"}
    \/ saver[w].at = "sys" /\ \/ saver[w].pos <= k
                              \/ k = NParts /\ saver[w].tail = mem[k]
UnsavedWillBeSaved ==
    Up /\ ~ quit /\ ~ overlap /\ ~ lost =>
        \A k \in Parts :
            file[k] # mem[k] => \/ dirty
                                \/ OnTheWay(k)
                                \/ \E w \in Savers : WillBeWritten(w, k)

\* A process has one message with the file manager at a time, and it is the
\* one of the thread that holds its semaphore and waits: msgrcv by the number
\* of the process never gives a thread the answer to another thread's request.
Messages(p) ==
    {<<"queue", i, queue[i]>> : i \in {j \in DOMAIN queue : queue[j].src = p}}
    \union {<<"srv", 1, srv.msg>> : x \in {y \in {1} : srv.msg # None /\ srv.msg.src = p}}
    \union {<<"answer", i, answer[p][i]>> : i \in DOMAIN answer[p]}
AnswersMatch ==
    \A p \in Procs : \A m \in Messages(p) :
        /\ Messages(p) = {m}
        /\ sem[p] = m[3].by
        /\ client[sem[p]].pc = "wait" /\ client[sem[p]].cmd = m[3].cmd

\* Whatever a save was at when the power went, the next start finds all
\* settings or takes the defaults, and never a hole or half of them: the end
\* of the file is written last and ReadGlobal looks at the length.  So does one
\* after a save that failed in the middle.
WholeSettings == Up /\ ~ overlap => mem \in Settings

\* Unless the server is told to quit, the threads write at the same time, or
\* the flash refuses the save or the next start, the file has what memory has
\* in the end, across every loss of power.
SettingsReachFlash ==
    (Up /\ file # mem) ~> \/ file = mem
                          \/ quit \/ overlap \/ lost
                          \/ srv.pc = "failed"

\* "Save system information in file manager immediately", 0 for success
\* (file_msg_drv.c:233): with nothing on the way and nobody writing, the file
\* has the settings.
Quiet ==
    /\ srv.pc = "recv" /\ queue = << >> /\ ~ dirty
    /\ proc \in {"check", "need"}
    /\ \A w \in Savers : saver[w] = Closed
    /\ \A t \in Threads : client[t].pc # "lock"
SavedWhenQuiet == Quiet => file = mem
=============================================================================
