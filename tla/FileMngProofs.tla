---------------------------- MODULE FileMngProofs ---------------------------
(***************************************************************************)
(* Theorems about the file manager, for any processes and threads, any     *)
(* number of calls, losses of power and failures of the flash, and         *)
(* settings of any length.                                                 *)
(***************************************************************************)
EXTENDS FileMng, SequenceTheorems, FiniteSetTheorems, TLAPS

-----------------------------------------------------------------------------
(* The invariant.                                                          *)

\* The file as a save leaves it that has written the parts before k.
Partial(f, k) ==
    \A q \in Parts : /\ q < k => f[q] \in Values
                     /\ q >= k => f[q] = Gone

HasParts(f) == f = [q \in Parts |-> f[q]]

Fields == {"at", "pos", "tail", "entries"}
SaverShape ==
    /\ DOMAIN saver = Savers
    /\ \A w \in Savers : /\ DOMAIN saver[w] = Fields
                         /\ saver[w].pos \in 1 .. NParts + 1

Shapes ==
    /\ HasParts(file) /\ HasParts(mem)
    /\ overlap \in BOOLEAN
    /\ DOMAIN srv = {"pc", "msg"}
    /\ SaverShape

\* Who saves when: ProcFileThread only while the server is up, FileMsgThread
\* before that only with the defaults.
SaversKnown ==
    /\ saver["proc"].at # "closed" => proc = "save"
    /\ proc # "none" => Up
    /\ saver["msg"].at # "closed" => srv.pc \in {"init", "save", "reset"}

\* As long as saves do not run into each other, the file is whole up to where
\* the one save that writes it is, or was when the power went.
FileWhole ==
    ~ overlap =>
        /\ \E k \in 1 .. NParts + 1 : Partial(file, k)
        /\ \A w \in Savers : saver[w].at = "sys" =>
              /\ saver[Other(w)].at # "sys"
              /\ saver[w].pos <= NParts => Partial(file, saver[w].pos)
              /\ saver[w].pos > NParts => Partial(file, NParts) /\ saver[w].tail \in Values

WInv == Shapes /\ SaversKnown /\ FileWhole /\ WholeSettings

-----------------------------------------------------------------------------
(* Files.                                                                  *)

LEMMA EmptyIsPartial == Partial(EmptyFile, 1)
BY NPartsAssumption DEF Partial, EmptyFile, Parts

\* The next part of a file.
LEMMA WriteExtends ==
    ASSUME NEW f, HasParts(f), NEW k \in Parts, Partial(f, k),
           NEW v \in Values
    PROVE  Partial(WriteAt(f, k, v), k + 1)
BY NPartsAssumption, MarkersAssumption DEF Partial, WriteAt, Parts

LEMMA WriteHasParts ==
    ASSUME NEW f, NEW k, NEW v
    PROVE  HasParts(WriteAt(f, k, v))
BY DEF WriteAt, HasParts

LEMMA DefaultsAreSettings == SysInfoDefault \in Settings /\ HasParts(SysInfoDefault)
BY DefaultAssumption DEF SysInfoDefault, Settings, HasParts

\* ReadGlobal looks at the length: what is long enough is whole.
LEMMA ReadableIsWhole ==
    ASSUME NEW f, HasParts(f), NEW k \in 1 .. NParts + 1, Partial(f, k),
           ReadGlobal(f)
    PROVE  f \in Settings
<1>1. NParts \in Parts /\ f[NParts] # Gone
    BY NPartsAssumption DEF ReadGlobal, Parts
<1>2. k > NParts
    BY <1>1, NPartsAssumption DEF Partial, Parts
<1>3. \A q \in Parts : f[q] \in Values
    BY <1>2, NPartsAssumption DEF Partial, Parts
<1> QED
    BY <1>3 DEF Settings, HasParts

-----------------------------------------------------------------------------
(* Saves.                                                                  *)

LEMMA OtherSaver ==
    ASSUME NEW w \in Savers
    PROVE  Other(w) \in Savers /\ Other(w) # w /\ \A v \in Savers : v = w \/ v = Other(w)
BY DEF Savers, Other

\* What a thread writes, while no two saves have run into each other.
LEMMA SourceIsSettings ==
    ASSUME WInv, ~ overlap, NEW w \in Savers, saver[w].at # "closed"
    PROVE  Source(w) \in Settings
<1>1. CASE WritesDefaults(w)
    BY <1>1, DefaultsAreSettings DEF Source
<1>2. CASE ~ WritesDefaults(w)
    <2>1. Up
        BY <1>2 DEF WInv, SaversKnown, Savers, WritesDefaults, Up
    <2> QED
        BY <1>2, <2>1 DEF Source, WInv, WholeSettings
<1> QED
    BY <1>1, <1>2

\* The step of one save, and that the other stays as it is.
LEMMA SaverSteps ==
    ASSUME SaverShape, NEW w \in Savers, SaverStep(w)
    PROVE  /\ SaverShape'
           /\ \A v \in Savers : v # w => saver'[v] = saver[v]
           /\ saver[w].at # "closed"
           /\ \/ (CreateLog(w) \/ CloseLog(w)) /\ saver'[w].at # "sys"
              \/ CreateSys(w) /\ saver'[w].at = "sys" /\ saver'[w].pos = 1
              \/ /\ WriteSys(w) /\ saver'[w].at = "sys"
                 /\ saver'[w].pos = saver[w].pos + 1
                 /\ saver[w].pos = NParts =>
                        saver'[w].tail = Source(w)[NParts]
              \/ CloseSys(w) /\ saver'[w].at = "closed"
<1>1. CASE CreateLog(w)
    BY <1>1 DEF SaverShape, Fields, CreateLog
<1>2. CASE CloseLog(w)
    BY <1>2 DEF SaverShape, Fields, CloseLog
<1>3. CASE CreateSys(w)
    BY <1>3, NPartsAssumption DEF SaverShape, Fields, CreateSys
<1>4. CASE WriteSys(w)
    BY <1>4, NPartsAssumption DEF SaverShape, Fields, WriteSys
<1>5. CASE CloseSys(w)
    BY <1>5, NPartsAssumption DEF SaverShape, Fields, CloseSys, Closed
<1> QED
    BY <1>1, <1>2, <1>3, <1>4, <1>5 DEF SaverStep

LEMMA SavesKeepWhole ==
    ASSUME WInv, NEW w \in Savers, SaverStep(w)
    PROVE  WInv'
<1>0. Shapes /\ SaverShape /\ SaversKnown /\ FileWhole /\ WholeSettings
    BY DEF WInv, Shapes
<1>1. UNCHANGED <<mem, srv, proc>>
    BY DEF SaverStep, CreateLog, CloseLog, CreateSys, WriteSys, CloseSys
<1>2. /\ SaverShape'
      /\ \A v \in Savers : v # w => saver'[v] = saver[v]
      /\ saver[w].at # "closed"
    BY <1>0, SaverSteps
<1>3. SaversKnown'
    BY <1>0, <1>1, <1>2 DEF SaversKnown, Savers, Up
<1>4. CASE (CreateLog(w) \/ CloseLog(w)) /\ saver'[w].at # "sys"
    <2>1. UNCHANGED <<file, overlap>>
        BY <1>4 DEF CreateLog, CloseLog
    <2>2. Shapes' /\ WholeSettings'
        BY <1>0, <1>1, <1>2, <2>1 DEF Shapes, WholeSettings, Up, Settings
    <2>3. FileWhole'
        BY <1>0, <1>2, <1>4, <2>1, OtherSaver DEF FileWhole, Partial
    <2> QED
        BY <1>3, <2>2, <2>3 DEF WInv
<1>5. CASE CreateSys(w) /\ saver'[w].at = "sys" /\ saver'[w].pos = 1
    <2>1. /\ file' = EmptyFile
          /\ overlap' = \/ saver[Other(w)].at = "sys"
                        \/ overlap /\ Up /\ mem \notin Settings
        BY <1>5 DEF CreateSys
    <2>2. Shapes'
        BY <1>0, <1>1, <1>2, <2>1 DEF Shapes, EmptyFile, HasParts
    <2>3. WholeSettings'
        BY <1>0, <1>1, <2>1 DEF Shapes, WholeSettings, Up, Settings
    <2>4. FileWhole'
        <3>1. SUFFICES ASSUME ~ overlap' PROVE FileWhole'
            BY DEF FileWhole
        <3>2. Partial(file', 1) /\ 1 \in 1 .. NParts + 1
            BY <2>1, EmptyIsPartial, NPartsAssumption
        <3>3. saver'[Other(w)].at # "sys"
            BY <1>2, <2>1, <3>1, OtherSaver
        <3> QED
            BY <1>5, <3>2, <3>3, OtherSaver, NPartsAssumption DEF FileWhole, Partial
    <2> QED
        BY <1>3, <2>2, <2>3, <2>4 DEF WInv
<1>6. CASE /\ WriteSys(w) /\ saver'[w].at = "sys"
           /\ saver'[w].pos = saver[w].pos + 1
           /\ saver[w].pos = NParts => saver'[w].tail = Source(w)[NParts]
    <2> DEFINE k == saver[w].pos
    <2>1. /\ k \in Parts /\ saver[w].at = "sys" /\ overlap' = overlap
          /\ file' = IF k = NParts THEN file ELSE WriteAt(file, k, Source(w)[k])
        BY <1>0, <1>6, NPartsAssumption DEF WriteSys, SaverShape, Parts
    <2>3. Shapes' /\ WholeSettings'
        BY <1>0, <1>1, <1>2, <2>1, WriteHasParts
        DEF Shapes, WholeSettings, Up, Settings
    <2>4. FileWhole'
        <3>1. SUFFICES ASSUME ~ overlap PROVE FileWhole'
            BY <2>1 DEF FileWhole
        <3>2. Source(w)[k] \in Values
            BY <1>2, <2>1, <3>1, SourceIsSettings DEF Settings
        <3>3. saver'[Other(w)].at # "sys" /\ Partial(file, k)
            BY <1>0, <1>2, <2>1, <3>1, OtherSaver, NPartsAssumption
            DEF FileWhole, Parts
        <3>4. CASE k = NParts
            <4>1. saver'[w].pos > NParts /\ saver'[w].tail \in Values
                BY <1>6, <3>2, <3>4, NPartsAssumption
            <4>2. Partial(file', NParts) /\ NParts \in 1 .. NParts + 1
                BY <2>1, <3>3, <3>4, NPartsAssumption
            <4>3. \A v \in Savers : saver'[v].at = "sys" => v = w
                BY <3>3, OtherSaver
            <4>4. ~ (saver'[w].pos <= NParts)
                BY <1>0, <1>2, <4>1, NPartsAssumption DEF SaverShape
            <4> HIDE DEF k
            <4> QED
                BY <3>3, <4>1, <4>2, <4>3, <4>4 DEF FileWhole
        <3>5. CASE k # NParts
            <4>1. Partial(file', k + 1)
                BY <1>0, <2>1, <3>2, <3>3, <3>5, WriteExtends DEF Shapes
            <4>2. k + 1 \in 1 .. NParts + 1 /\ k + 1 <= NParts
                BY <2>1, <3>5, NPartsAssumption DEF Parts
            <4> QED
                BY <1>6, <3>3, <4>1, <4>2, OtherSaver, NPartsAssumption DEF FileWhole, Partial
        <3> QED
            BY <3>4, <3>5
    <2> QED
        BY <1>3, <2>3, <2>4 DEF WInv
<1>7. CASE CloseSys(w) /\ saver'[w].at = "closed"
    <2>1. /\ file' = WriteAt(file, NParts, saver[w].tail)
          /\ saver[w].at = "sys" /\ saver[w].pos > NParts /\ overlap' = overlap
        BY <1>7 DEF CloseSys
    <2>2. Shapes' /\ WholeSettings'
        BY <1>0, <1>1, <1>2, <2>1, WriteHasParts DEF Shapes, WholeSettings, Up, Settings
    <2>3. FileWhole'
        <3>1. SUFFICES ASSUME ~ overlap PROVE FileWhole'
            BY <2>1 DEF FileWhole
        <3>2. saver[w].tail \in Values /\ Partial(file, NParts)
            BY <1>0, <2>1, <3>1 DEF FileWhole
        <3>3. Partial(file', NParts + 1) /\ NParts + 1 \in 1 .. NParts + 1
            BY <1>0, <2>1, <3>2, WriteExtends, NPartsAssumption DEF Shapes, Parts
        <3>4. \A v \in Savers : saver'[v].at # "sys"
            BY <1>0, <1>2, <1>7, <2>1, <3>1, OtherSaver DEF FileWhole
        <3> QED
            BY <3>3, <3>4 DEF FileWhole
    <2> QED
        BY <1>3, <2>2, <2>3 DEF WInv
<1> QED
    BY <1>0, <1>4, <1>5, <1>6, <1>7, SaverSteps

-----------------------------------------------------------------------------
(* The steps that start and end saves, and those that do not touch them.   *)

\* A save that starts does not write SYS_FILE yet.
LEMMA StartsKeepWhole ==
    ASSUME WInv, NEW w \in Savers, NEW a, a # "sys",
           saver' = [saver EXCEPT ![w].at = a],
           UNCHANGED <<file, overlap>>
    PROVE  /\ FileWhole' /\ SaverShape' /\ saver'[w].at = a
           /\ \A v \in Savers : v # w => saver'[v] = saver[v]
<1>0. SaverShape /\ FileWhole
    BY DEF WInv, Shapes
<1>1. /\ SaverShape' /\ saver'[w].at = a
      /\ \A v \in Savers : v # w => saver'[v] = saver[v]
    BY <1>0 DEF SaverShape, Fields
<1>2. FileWhole'
    BY <1>0, <1>1, OtherSaver DEF FileWhole, Partial
<1> QED
    BY <1>1, <1>2

\* A save that ends, or whose result is taken, leaves the file alone.
LEMMA ReturnsKeepWhole ==
    ASSUME WInv, NEW w \in Savers, NEW c \in {Closed, Failure},
           saver' = [saver EXCEPT ![w] = c],
           UNCHANGED <<file, overlap>>
    PROVE  /\ FileWhole' /\ SaverShape' /\ saver'[w] = c /\ c.at # "sys"
           /\ \A v \in Savers : v # w => saver'[v] = saver[v]
<1>0. SaverShape /\ FileWhole
    BY DEF WInv, Shapes
<1>1. DOMAIN c = Fields /\ c.pos \in 1 .. NParts + 1 /\ c.at # "sys"
    BY NPartsAssumption DEF Closed, Failure, Fields
<1>2. /\ SaverShape' /\ saver'[w] = c
      /\ \A v \in Savers : v # w => saver'[v] = saver[v]
    BY <1>0, <1>1 DEF SaverShape
<1>3. FileWhole'
    BY <1>0, <1>1, <1>2, OtherSaver DEF FileWhole, Partial
<1> QED
    BY <1>1, <1>2, <1>3

\* What a save that fails has written is the start of the file.
LEMMA FailuresKeepWhole ==
    ASSUME WInv, NEW w \in Savers, SaverFails(w)
    PROVE  WInv'
<1>0. Shapes /\ SaverShape /\ SaversKnown /\ FileWhole /\ WholeSettings
    BY DEF WInv, Shapes
<1>1. UNCHANGED <<mem, srv, proc, overlap>> /\ saver[w].at # "closed"
    BY DEF SaverFails, LogFails, SysFails, CloseSysFails
<1>2. WholeSettings'
    BY <1>0, <1>1 DEF WholeSettings, Up, Settings
<1>3. CASE LogFails(w)
    <2>1. /\ saver' = [saver EXCEPT ![w].at = "open", ![w].entries = << >>]
          /\ UNCHANGED file
        BY <1>3 DEF LogFails
    <2>2. /\ SaverShape' /\ saver'[w].at = "open"
          /\ \A v \in Savers : v # w => saver'[v] = saver[v]
        BY <1>0, <2>1 DEF SaverShape, Fields
    <2>3. Shapes' /\ SaversKnown'
        BY <1>0, <1>1, <2>1, <2>2 DEF Shapes, SaversKnown, Savers, Up
    <2>4. FileWhole'
        BY <1>0, <1>1, <2>1, <2>2, OtherSaver DEF FileWhole, Partial
    <2> QED
        BY <1>2, <2>3, <2>4 DEF WInv
<1>4. CASE (SysFails(w) \/ CloseSysFails(w)) /\ UNCHANGED file
    <2>1. PICK c \in {Closed, Failure} : saver' = [saver EXCEPT ![w] = c]
        BY <1>4 DEF SysFails, CloseSysFails
    <2>2. /\ FileWhole' /\ SaverShape'
          /\ \A v \in Savers : v # w => saver'[v] = saver[v]
        BY <1>1, <1>4, <2>1, ReturnsKeepWhole
    <2>3. Shapes' /\ SaversKnown'
        BY <1>0, <1>1, <1>4, <2>2 DEF Shapes, SaversKnown, Savers, Up
    <2> QED
        BY <1>2, <2>2, <2>3 DEF WInv
<1>5. CASE SysFails(w) /\ ~ UNCHANGED file
    <2>1. /\ saver[w].at = "sys" /\ saver[w].pos = 1 /\ 1 < NParts
          /\ file' = WriteAt(file, 1, Source(w)[1])
          /\ saver' = [saver EXCEPT ![w] = Failure]
        BY <1>5, NPartsAssumption DEF SysFails
    <2>2. /\ SaverShape' /\ saver'[w].at = "failed"
          /\ \A v \in Savers : v # w => saver'[v] = saver[v]
        BY <1>0, <2>1, NPartsAssumption DEF SaverShape, Fields, Failure, Closed
    <2>3. Shapes' /\ SaversKnown'
        BY <1>0, <1>1, <2>1, <2>2, WriteHasParts DEF Shapes, SaversKnown, Savers, Up
    <2>4. SUFFICES ASSUME ~ overlap PROVE FileWhole'
        BY <1>1, <1>2, <2>3 DEF WInv, FileWhole
    <2>5. 1 \in Parts /\ Source(w)[1] \in Values
        BY <1>1, <2>4, SourceIsSettings, NPartsAssumption DEF Settings, Parts
    <2>6. Partial(file, 1) /\ saver[Other(w)].at # "sys"
        BY <1>0, <2>1, <2>4, NPartsAssumption DEF FileWhole
    <2>7. Partial(file', 1 + 1) /\ 1 + 1 \in 1 .. NParts + 1
        BY <1>0, <2>1, <2>5, <2>6, WriteExtends, NPartsAssumption DEF Shapes
    <2>8. \A v \in Savers : saver'[v].at # "sys"
        BY <2>2, <2>6, OtherSaver
    <2> QED
        BY <2>7, <2>8 DEF FileWhole
<1> QED
    BY <1>3, <1>4, <1>5 DEF SaverFails, CloseSysFails

LEMMA OthersKeepWhole ==
    ASSUME WInv, UNCHANGED <<file, overlap, saver, proc, srv>>,
           HasParts(mem'), mem \in Settings => mem' \in Settings
    PROVE  WInv'
<1>1. Shapes' /\ SaversKnown' /\ WholeSettings'
    BY DEF WInv, Shapes, SaverShape, SaversKnown, WholeSettings, Up, Settings
<1>2. FileWhole'
    BY DEF WInv, FileWhole, Partial
<1> QED
    BY <1>1, <1>2 DEF WInv

LEMMA ClientsKeepWhole ==
    ASSUME WInv,
           \/ SendFileQuitCmd
           \/ \E t \in Threads : \/ SetField(t) \/ SetSysLog(t) \/ Ask(t)
                                 \/ SendRequest(t) \/ SendFails(t)
                                 \/ Receive(t) \/ ReceiveFails(t)
    PROVE  WInv'
<1>1. UNCHANGED <<file, overlap, saver, proc, srv>>
    BY DEF SendFileQuitCmd, SetField, SetSysLog, Ask, SendRequest, Send, SendFails,
       Receive, ReceiveFails, serverVars
<1>2. \/ mem' = mem
      \/ \E k \in Parts, v \in Values : mem' = [mem EXCEPT ![k] = v]
    BY DEF SendFileQuitCmd, SetField, SetSysLog, Ask, SendRequest, Send, SendFails,
       Receive, ReceiveFails
<1>3. HasParts(mem') /\ (mem \in Settings => mem' \in Settings)
    BY <1>2 DEF WInv, Shapes, HasParts, Settings
<1> QED
    BY <1>1, <1>3, OthersKeepWhole

LEMMA ProcKeepsWhole ==
    ASSUME WInv, ProcFileThread
    PROVE  WInv'
<1>0. Shapes /\ SaversKnown /\ WholeSettings
    BY DEF WInv
<1>1. UNCHANGED <<file, overlap, srv, mem>> /\ proc # "none" /\ proc' # "none"
    BY DEF ProcFileThread, CheckQuit, FileNeedWrite, FileUpdated, ProcSaved
<1>2. CASE FileUpdated
    <2>1. saver' = [saver EXCEPT !["proc"].at = "start"] /\ proc' = "save" /\ "proc" \in Savers
        BY <1>2 DEF FileUpdated, Savers
    <2>2. /\ FileWhole' /\ SaverShape'
          /\ \A v \in Savers : v # "proc" => saver'[v] = saver[v]
        BY <1>1, <2>1, StartsKeepWhole
    <2>3. SaversKnown'
        BY <1>0, <1>1, <2>1, <2>2 DEF SaversKnown, Savers, Up
    <2> QED
        BY <1>0, <1>1, <2>2, <2>3 DEF WInv, Shapes, WholeSettings, Up, Settings
<1>3. CASE ProcSaved
    <2>1. saver' = [saver EXCEPT !["proc"] = Closed] /\ "proc" \in Savers
        BY <1>3 DEF ProcSaved, Savers
    <2>2. /\ FileWhole' /\ SaverShape' /\ saver'["proc"] = Closed
          /\ \A v \in Savers : v # "proc" => saver'[v] = saver[v]
        BY <1>1, <2>1, ReturnsKeepWhole
    <2>3. SaversKnown'
        BY <1>0, <1>1, <2>2 DEF SaversKnown, Savers, Up, Closed
    <2> QED
        BY <1>0, <1>1, <2>2, <2>3 DEF WInv, Shapes, WholeSettings, Up, Settings
<1>4. CASE CheckQuit \/ FileNeedWrite
    <2>1. saver' = saver /\ proc # "save"
        BY <1>4 DEF CheckQuit, FileNeedWrite
    <2>2. SaversKnown'
        BY <1>0, <1>1, <2>1 DEF SaversKnown, Up
    <2>3. FileWhole'
        BY <1>1, <2>1 DEF WInv, FileWhole, Partial
    <2> QED
        BY <1>0, <1>1, <2>1, <2>2, <2>3 DEF WInv, Shapes, SaverShape, WholeSettings, Up, Settings
<1> QED
    BY <1>2, <1>3, <1>4 DEF ProcFileThread

\* The steps of FileMsgThread that are about no file.
Serve ==
    \/ TakeRequest \/ ServeRead \/ ServeReadLog \/ ServeWrite \/ ServeWriteLog
    \/ Reply \/ ServeQuit \/ CleanupFileEnv

LEMMA MsgKeepsWhole ==
    ASSUME WInv, FileMsgThread \/ EmptyLogFails
    PROVE  WInv'
<1>0. Shapes /\ SaversKnown /\ FileWhole /\ WholeSettings /\ "msg" \in Savers
    BY DEF WInv, Savers
<1>1. UNCHANGED <<file, overlap>>
    BY DEF FileMsgThread, Boot, BootWithDefaults, DefaultsWritten, DefaultsFail,
       EmptyLogFails, TakeRequest, ServeRead, ServeReadLog, ServeWrite, ServeWriteLog,
       ServeWriteNow, ServeReset, ResetWritten, SaveWritten, Reply, ServeQuit, CleanupFileEnv
<1>2. CASE Boot
    <2>1. /\ srv.pc = "boot" /\ ReadGlobal(file) /\ mem' = file /\ saver' = saver
          /\ proc' = "check" /\ srv' = [srv EXCEPT !.pc = "recv"]
        BY <1>2 DEF Boot
    <2>2. srv'.pc = "recv" /\ DOMAIN srv' = {"pc", "msg"}
        BY <1>0, <2>1 DEF Shapes
    <2>3. Shapes' /\ SaversKnown'
        BY <1>0, <1>1, <2>1, <2>2 DEF Shapes, SaverShape, SaversKnown, Up
    <2>4. FileWhole'
        BY <1>0, <1>1, <2>1 DEF FileWhole, Partial
    <2>5. WholeSettings'
        BY <1>0, <1>1, <2>1, ReadableIsWhole DEF WholeSettings, FileWhole, Shapes, Settings
    <2> QED
        BY <2>3, <2>4, <2>5 DEF WInv
<1>3. CASE BootWithDefaults
    <2>1. /\ srv.pc = "boot" /\ saver' = [saver EXCEPT !["msg"].at = "open"]
          /\ UNCHANGED <<mem, proc>> /\ srv' = [srv EXCEPT !.pc = "init"]
        BY <1>3 DEF BootWithDefaults
    <2>2. srv'.pc = "init" /\ DOMAIN srv' = {"pc", "msg"}
        BY <1>0, <2>1 DEF Shapes
    <2>3. /\ FileWhole' /\ SaverShape'
          /\ \A v \in Savers : v # "msg" => saver'[v] = saver[v]
        BY <1>0, <1>1, <2>1, StartsKeepWhole
    <2>4. Shapes' /\ SaversKnown' /\ WholeSettings'
        BY <1>0, <1>1, <2>1, <2>2, <2>3
        DEF Shapes, SaversKnown, Savers, Up, WholeSettings
    <2> QED
        BY <2>3, <2>4 DEF WInv
<1>4. CASE DefaultsWritten
    <2>1. /\ srv.pc = "init" /\ saver["msg"].at = "closed" /\ mem' = SysInfoDefault
          /\ saver' = saver /\ proc' = "check" /\ srv' = [srv EXCEPT !.pc = "recv"]
        BY <1>4 DEF DefaultsWritten, Closed
    <2>2. srv'.pc = "recv" /\ DOMAIN srv' = {"pc", "msg"}
        BY <1>0, <2>1 DEF Shapes
    <2>3. Shapes' /\ SaversKnown' /\ WholeSettings'
        BY <1>0, <1>1, <2>1, <2>2, DefaultsAreSettings
        DEF Shapes, SaverShape, SaversKnown, Up, WholeSettings, Settings
    <2>4. FileWhole'
        BY <1>0, <1>1, <2>1 DEF FileWhole, Partial
    <2> QED
        BY <2>3, <2>4 DEF WInv
<1>5. CASE ServeWriteNow \/ ServeReset \/ ResetWritten
    <2>1. \E a \in {"start", "open"} : saver' = [saver EXCEPT !["msg"].at = a]
        BY <1>5 DEF ServeWriteNow, ServeReset, ResetWritten, StartSave
    <2>2. /\ srv' \in {[srv EXCEPT !.pc = "save"], [srv EXCEPT !.pc = "reset"]}
          /\ mem' \in {mem, SysInfoDefault} /\ proc' = proc
          /\ srv.pc \notin {"boot", "init", "failed"}
        BY <1>5 DEF ServeWriteNow, ServeReset, ResetWritten, StartSave, Serving
    <2>3. srv'.pc \in {"save", "reset"} /\ DOMAIN srv' = {"pc", "msg"}
        BY <1>0, <2>2 DEF Shapes
    <2>4. /\ FileWhole' /\ SaverShape'
          /\ \A v \in Savers : v # "msg" => saver'[v] = saver[v]
        BY <1>0, <1>1, <2>1, StartsKeepWhole
    <2>5. Shapes' /\ SaversKnown' /\ WholeSettings'
        BY <1>0, <1>1, <2>2, <2>3, <2>4, DefaultsAreSettings
        DEF Shapes, SaversKnown, Savers, Up, WholeSettings, Settings
    <2> QED
        BY <2>4, <2>5 DEF WInv
<1>6. CASE Serve
    <2>1. UNCHANGED <<mem, saver, proc>> /\ srv.pc \notin {"boot", "init", "reset", "save", "failed"}
        BY <1>6 DEF Serve, TakeRequest, ServeRead, ServeReadLog, ServeWrite, ServeWriteLog,
           Reply, ServeQuit, CleanupFileEnv, Serving
    <2>3. srv'.pc \notin {"boot", "init", "failed"} /\ DOMAIN srv' = {"pc", "msg"}
        BY <1>0, <1>6 DEF Shapes, Serve, TakeRequest, ServeRead, ServeReadLog, ServeWrite,
           ServeWriteLog, Reply, ServeQuit, CleanupFileEnv, Served
    <2>4. Shapes' /\ SaversKnown' /\ WholeSettings'
        BY <1>0, <1>1, <2>1, <2>3
        DEF Shapes, SaverShape, SaversKnown, Up, WholeSettings, Settings
    <2>5. FileWhole'
        BY <1>0, <1>1, <2>1 DEF FileWhole, Partial
    <2> QED
        BY <2>4, <2>5 DEF WInv
<1>7. CASE SaveWritten
    <2>1. /\ saver' = [saver EXCEPT !["msg"] = Closed] /\ srv.pc = "save"
          /\ UNCHANGED <<mem, proc>>
          /\ srv' = [pc |-> "reply", msg |-> [srv.msg EXCEPT !.ok = TRUE]]
        BY <1>7 DEF SaveWritten, Served
    <2>2. /\ FileWhole' /\ SaverShape' /\ saver'["msg"] = Closed
          /\ \A v \in Savers : v # "msg" => saver'[v] = saver[v]
        BY <1>0, <1>1, <2>1, ReturnsKeepWhole
    <2>3. srv'.pc = "reply" /\ DOMAIN srv' = {"pc", "msg"}
        BY <2>1
    <2>4. Shapes' /\ SaversKnown' /\ WholeSettings'
        BY <1>0, <1>1, <2>1, <2>2, <2>3
        DEF Shapes, SaversKnown, Savers, Up, WholeSettings, Settings, Closed
    <2> QED
        BY <2>2, <2>4 DEF WInv
<1>8. CASE DefaultsFail
    <2>1. /\ srv' = [srv EXCEPT !.pc = "failed"] /\ UNCHANGED <<mem, proc>>
          /\ srv.pc = "init" /\ saver' = [saver EXCEPT !["msg"] = Closed]
        BY <1>8 DEF DefaultsFail
    <2>2. srv'.pc = "failed" /\ DOMAIN srv' = {"pc", "msg"}
        BY <1>0, <2>1 DEF Shapes
    <2>3. /\ FileWhole' /\ SaverShape' /\ saver'["msg"] = Closed
          /\ \A v \in Savers : v # "msg" => saver'[v] = saver[v]
        BY <1>0, <1>1, <2>1, ReturnsKeepWhole
    <2>4. proc = "none"
        BY <1>0, <2>1 DEF SaversKnown, Up
    <2>5. Shapes' /\ SaversKnown' /\ WholeSettings'
        BY <1>0, <1>1, <2>1, <2>2, <2>3, <2>4
        DEF Shapes, SaversKnown, Savers, Up, WholeSettings, Closed
    <2> QED
        BY <2>3, <2>5 DEF WInv
<1>9. CASE EmptyLogFails
    <2>1. /\ srv' = [srv EXCEPT !.pc = "failed"] /\ UNCHANGED <<mem, proc, saver>>
          /\ \/ srv.pc = "boot"
             \/ srv.pc = "init" /\ saver["msg"].at = "closed"
        BY <1>9 DEF EmptyLogFails, Closed
    <2>2. srv'.pc = "failed" /\ DOMAIN srv' = {"pc", "msg"}
        BY <1>0, <2>1 DEF Shapes
    <2>3. proc = "none" /\ saver["msg"].at = "closed"
        BY <1>0, <2>1 DEF SaversKnown, Up
    <2>4. Shapes' /\ SaversKnown' /\ WholeSettings'
        BY <1>0, <1>1, <2>1, <2>2, <2>3
        DEF Shapes, SaverShape, SaversKnown, Up, WholeSettings
    <2>5. FileWhole'
        BY <1>0, <1>1, <2>1 DEF FileWhole, Partial
    <2> QED
        BY <2>4, <2>5 DEF WInv
<1> QED
    BY <1>2, <1>3, <1>4, <1>5, <1>6, <1>7, <1>8, <1>9 DEF FileMsgThread, Serve

LEMMA PowerLossKeepsWhole ==
    ASSUME WInv, PowerLoss
    PROVE  WInv'
<1>1. /\ UNCHANGED <<file, overlap>> /\ mem' = [k \in Parts |-> Zero]
      /\ srv' = [pc |-> "boot", msg |-> None] /\ proc' = "none"
      /\ saver' = [w \in Savers |-> Closed]
    BY DEF PowerLoss
<1>2. \A w \in Savers : saver'[w].at = "closed"
    BY <1>1 DEF Closed
<1>3. SaverShape'
    BY <1>1, NPartsAssumption DEF SaverShape, Fields, Closed
<1>4. Shapes' /\ WholeSettings'
    BY <1>1, <1>3 DEF WInv, Shapes, HasParts, WholeSettings, Up
<1>5. SaversKnown'
    BY <1>1, <1>2 DEF SaversKnown, Savers
<1>6. FileWhole'
    BY <1>1, <1>2 DEF WInv, FileWhole, Partial
<1> QED
    BY <1>4, <1>5, <1>6 DEF WInv

\* Saves that do not run into each other keep the file whole up to where the
\* one that writes it is.
THEOREM SavesInvariant == Spec => []WInv
<1>1. Init => WInv
    <2> SUFFICES ASSUME Init PROVE WInv
        OBVIOUS
    <2>1. /\ file = EmptyFile /\ overlap = FALSE /\ mem = [k \in Parts |-> Zero]
          /\ srv = [pc |-> "boot", msg |-> None] /\ proc = "none"
          /\ saver = [w \in Savers |-> Closed]
        BY DEF Init
    <2>2. \A w \in Savers : saver[w].at = "closed"
        BY <2>1 DEF Closed
    <2>3. SaverShape
        BY <2>1, NPartsAssumption DEF SaverShape, Fields, Closed
    <2>4. Shapes /\ WholeSettings
        BY <2>1, <2>3 DEF Shapes, HasParts, EmptyFile, WholeSettings, Up
    <2>5. SaversKnown
        BY <2>1, <2>2 DEF SaversKnown, Savers
    <2>6. FileWhole
        BY <2>1, <2>2, EmptyIsPartial, NPartsAssumption DEF FileWhole
    <2> QED
        BY <2>4, <2>5, <2>6 DEF WInv
<1>2. WInv /\ [Next]_vars => WInv'
    <2> SUFFICES ASSUME WInv, [Next]_vars PROVE WInv'
        OBVIOUS
    <2>1. CASE UNCHANGED vars
        <3>1. UNCHANGED <<mem, file, overlap, saver, proc, srv>>
            BY <2>1 DEF vars, serverVars
        <3> QED
            BY <3>1, OthersKeepWhole DEF WInv, Shapes, HasParts
    <2>2. CASE \E w \in Savers : SaverStep(w)
        BY <2>2, SavesKeepWhole
    <2>3. CASE \E w \in Savers : SaverFails(w)
        BY <2>3, FailuresKeepWhole
    <2> QED
        BY <2>1, <2>2, <2>3, ClientsKeepWhole, MsgKeepsWhole, ProcKeepsWhole,
           PowerLossKeepsWhole DEF Next
<1> QED
    BY <1>1, <1>2, PTL DEF Spec

\* Whatever a save was at when the power went, the next start finds all
\* settings or takes the defaults (FileMngInit, file_mng.c:433): for settings of
\* any length, any threads and any number of losses.
THEOREM StartsWhole == Spec => []WholeSettings
BY SavesInvariant, PTL DEF WInv

-----------------------------------------------------------------------------
(* Answers.                                                                *)

Calls == [pc : {"idle", "lock", "wait"}, cmd : Commands \union {"NONE"},
          part : Parts \union {0}]
Mail == [src : Procs \union {None}, cmd : Commands \union {"NONE"},
         by : Threads \union {None}, ok : BOOLEAN]

\* FileMsgThread has taken a request and has not answered it.
Busy == srv.pc \in {"serve", "save", "reset", "reply"}

MailShape ==
    /\ queue \in Seq(Mail) /\ answer \in [Procs -> Seq(Mail)]
    /\ DOMAIN srv = {"pc", "msg"}
    /\ Busy => srv.msg \in Mail
    /\ ~ Busy => srv.msg = None
    /\ client \in [Threads -> Calls]
    /\ sem \in [Procs -> Threads \union {None}]

\* The thread that holds the semaphore of the process waits for this message.
OwnedIn(m, s, c) ==
    /\ m.by \in Threads /\ Proc[m.by] = m.src /\ s[m.src] = m.by
    /\ c[m.by].pc = "wait" /\ c[m.by].cmd = m.cmd

MailOwned ==
    /\ \A i \in 1 .. Len(queue) : queue[i].src # None => OwnedIn(queue[i], sem, client)
    /\ Busy /\ srv.msg.src # None => OwnedIn(srv.msg, sem, client)
    /\ \A p \in Procs : \A i \in 1 .. Len(answer[p]) :
          answer[p][i].src = p /\ OwnedIn(answer[p][i], sem, client)

\* A process has one message, wherever it is.
MailAlone ==
    /\ \A i, j \in 1 .. Len(queue) :
          queue[i].src = queue[j].src /\ queue[i].src # None => i = j
    /\ \A i \in 1 .. Len(queue) : queue[i].src # None =>
          /\ ~ (Busy /\ srv.msg.src = queue[i].src)
          /\ Len(answer[queue[i].src]) = 0
    /\ Busy /\ srv.msg.src # None => Len(answer[srv.msg.src]) = 0
    /\ \A p \in Procs : Len(answer[p]) <= 1

QueueGone ==
    gone => /\ Len(queue) = 0 /\ srv.pc \in {"down", "failed"}
            /\ \A p \in Procs : Len(answer[p]) = 0

MInv == MailShape /\ MailOwned /\ MailAlone /\ QueueGone

LEMMA NoneIsNobody ==
    /\ \A t \in Threads : t # None /\ Proc[t] \in Procs
    /\ \A p \in Procs : p # None
BY NoneAssumption DEF Procs

\* Every message of a process is the one its semaphore is held for.
LEMMA OneMessage == MInv => AnswersMatch
<1> SUFFICES ASSUME MInv, NEW p \in Procs, NEW m \in Messages(p)
             PROVE  /\ Messages(p) = {m}
                    /\ sem[p] = m[3].by
                    /\ client[sem[p]].pc = "wait" /\ client[sem[p]].cmd = m[3].cmd
    BY DEF AnswersMatch
<1>0. p # None /\ MailShape /\ MailOwned /\ MailAlone
    BY NoneIsNobody DEF MInv
<1> DEFINE InQueue(x) == \E i \in 1 .. Len(queue) :
                             queue[i].src = p /\ x = <<"queue", i, queue[i]>>
           InServer(x) == Busy /\ srv.msg.src = p /\ x = <<"srv", 1, srv.msg>>
           InAnswer(x) == \E i \in 1 .. Len(answer[p]) : x = <<"answer", i, answer[p][i]>>
<1>1. ASSUME NEW x \in Messages(p)
      PROVE  InQueue(x) \/ InServer(x) \/ InAnswer(x)
    <2>1. DOMAIN queue = 1 .. Len(queue) /\ DOMAIN answer[p] = 1 .. Len(answer[p])
        BY <1>0 DEF MailShape
    <2>2. \/ \E i \in DOMAIN queue : queue[i].src = p /\ x = <<"queue", i, queue[i]>>
          \/ srv.msg # None /\ srv.msg.src = p /\ x = <<"srv", 1, srv.msg>>
          \/ \E i \in DOMAIN answer[p] : x = <<"answer", i, answer[p][i]>>
        BY <1>1 DEF Messages
    <2> QED
        BY <1>0, <2>1, <2>2 DEF MailShape
<1>2. ASSUME NEW x, InQueue(x) \/ InServer(x) \/ InAnswer(x)
      PROVE  x[3].src = p /\ OwnedIn(x[3], sem, client)
    BY <1>0, <1>2 DEF MailOwned
<1>3. ASSUME NEW x, NEW y, InQueue(x) \/ InServer(x) \/ InAnswer(x),
             InQueue(y) \/ InServer(y) \/ InAnswer(y)
      PROVE  x = y
    <2>1. InQueue(x) => ~ InServer(y) /\ ~ InAnswer(y)
        BY <1>0 DEF MailAlone
    <2>2. InServer(x) => ~ InQueue(y) /\ ~ InAnswer(y)
        BY <1>0 DEF MailAlone
    <2>3. InAnswer(x) => ~ InQueue(y) /\ ~ InServer(y)
        BY <1>0 DEF MailAlone
    <2>4. InQueue(x) /\ InQueue(y) => x = y
        BY <1>0 DEF MailAlone
    <2>5. InAnswer(x) /\ InAnswer(y) => x = y
        <3>1. Len(answer[p]) \in Nat /\ Len(answer[p]) <= 1
            BY <1>0 DEF MailAlone, MailShape
        <3>2. \A i, j \in 1 .. Len(answer[p]) : i = j
            BY <3>1
        <3> QED
            BY <3>2
    <2> QED
        BY <1>3, <2>1, <2>2, <2>3, <2>4, <2>5
<1>4. m[3].src = p /\ OwnedIn(m[3], sem, client)
    BY <1>1, <1>2
<1>5. \A x \in Messages(p) : x = m
    BY <1>1, <1>3
<1> QED
    BY <1>4, <1>5 DEF OwnedIn

\* A message stays owned as long as its thread waits with the semaphore.
LEMMA OwnedStays ==
    ASSUME NEW m, OwnedIn(m, sem, client), m.src \in Procs, MailShape,
           NEW t \in Threads, NEW r \in Calls,
           client' = [client EXCEPT ![t] = r], m.by # t,
           sem'[m.src] = sem[m.src]
    PROVE  OwnedIn(m, sem', client')
<1>1. client'[m.by] = client[m.by]
    BY DEF OwnedIn, MailShape
<1> QED
    BY <1>1 DEF OwnedIn

\* A thread that is not waiting goes on.
LEMMA NotWaiting ==
    ASSUME MInv, NEW t \in Threads, client[t].pc # "wait", NEW r \in Calls,
           client' = [client EXCEPT ![t] = r],
           UNCHANGED <<sem, queue, answer, srv, gone>>
    PROVE  MInv'
<1>0. MailShape /\ MailOwned /\ MailAlone /\ QueueGone
    BY DEF MInv
<1>1. MailShape' /\ MailAlone' /\ QueueGone' /\ Busy' = Busy
    BY <1>0 DEF MailShape, MailAlone, QueueGone, Busy
<1>2. ASSUME NEW m, OwnedIn(m, sem, client), m.src \in Procs
      PROVE  OwnedIn(m, sem', client')
    <2>1. m.by # t
        BY <1>2 DEF OwnedIn
    <2> QED
        BY <1>0, <1>2, <2>1, OwnedStays
<1>3. \A m : OwnedIn(m, sem, client) => m.src \in Procs
    BY NoneIsNobody DEF OwnedIn
<1>4. MailOwned'
    BY <1>0, <1>1, <1>2, <1>3 DEF MailOwned
<1> QED
    BY <1>1, <1>4 DEF MInv

\* SemWait and msgsnd: the process had no message, so this is its only one.
LEMMA SendKeepsMail ==
    ASSUME MInv, NEW t \in Threads, SendRequest(t)
    PROVE  MInv'
<1>0. MailShape /\ MailOwned /\ MailAlone /\ QueueGone
    BY DEF MInv
<1> DEFINE p == Proc[t]
           new == Request(p, client[t].cmd, t)
<1>1. /\ sem[p] = None /\ client[t].pc = "lock" /\ p \in Procs
      /\ sem' = [sem EXCEPT ![p] = t]
      /\ client' = [client EXCEPT ![t].pc = "wait"]
      /\ UNCHANGED <<answer, srv, gone>>
    BY NoneIsNobody DEF SendRequest, Send
<1>2. \/ queue' = queue
      \/ queue' = Append(queue, new) /\ ~ gone
    BY DEF SendRequest, Send
<1>3. /\ client'[t].pc = "wait" /\ client'[t].cmd = client[t].cmd
      /\ client' \in [Threads -> Calls]
      /\ sem' \in [Procs -> Threads \union {None}]
      /\ sem'[p] = t
    BY <1>0, <1>1 DEF MailShape, Calls
<1>4. new \in Mail /\ new.src = p /\ new.by = t /\ new.cmd = client[t].cmd
    BY <1>0, <1>1 DEF MailShape, Calls, Mail, Request
<1>5. MailShape' /\ Busy' = Busy
    <2> HIDE DEF new
    <2>1. queue' \in Seq(Mail)
        <3>1. queue \in Seq(Mail)
            BY <1>0 DEF MailShape
        <3> QED
            BY <1>2, <1>4, <3>1
    <2>2. Busy' = Busy
        BY <1>1 DEF Busy
    <2> QED
        BY <1>0, <1>1, <1>3, <2>1, <2>2 DEF MailShape
<1>6. OwnedIn(new, sem', client')
    BY <1>3, <1>4 DEF OwnedIn
<1>7. ASSUME NEW m, OwnedIn(m, sem, client) PROVE OwnedIn(m, sem', client') /\ m.src # p
    <2>1. m.src # p /\ m.by # t /\ m.by \in Threads /\ m.src \in Procs
        BY <1>1, <1>7, NoneIsNobody DEF OwnedIn
    <2>2. sem'[m.src] = sem[m.src] /\ client'[m.by] = client[m.by]
        BY <1>0, <1>1, <2>1 DEF MailShape
    <2> QED
        BY <1>7, <2>1, <2>2 DEF OwnedIn
<1>8. Len(answer[p]) = 0 /\ ~ (Busy /\ srv.msg.src = p)
      /\ \A i \in 1 .. Len(queue) : queue[i].src # p
    <2>1. ~ (Busy /\ srv.msg.src = p) /\ \A i \in 1 .. Len(queue) : queue[i].src # p
        BY <1>0, <1>1, <1>7, NoneIsNobody DEF MailOwned
    <2>2. \A i \in 1 .. Len(answer[p]) : FALSE
        BY <1>0, <1>1, <1>7 DEF MailOwned
    <2>3. Len(answer[p]) \in Nat
        BY <1>0, <1>1 DEF MailShape
    <2>4. Len(answer[p]) = 0
        BY <2>2, <2>3
    <2> QED
        BY <2>1, <2>4
<1>9. CASE queue' = queue
    <2>1. MailOwned'
        BY <1>0, <1>1, <1>5, <1>7, <1>9 DEF MailOwned
    <2>2. MailAlone' /\ QueueGone'
        BY <1>0, <1>1, <1>5, <1>9 DEF MailAlone, QueueGone
    <2> QED
        BY <1>5, <2>1, <2>2 DEF MInv
<1>10. CASE queue' = Append(queue, new) /\ ~ gone
    <2>1. /\ Len(queue') = Len(queue) + 1 /\ Len(queue) \in Nat
          /\ queue'[Len(queue) + 1] = new
          /\ \A i \in 1 .. Len(queue) : queue'[i] = queue[i]
        BY <1>0, <1>4, <1>10 DEF MailShape
    <2>2. \A i \in 1 .. Len(queue') : i \in 1 .. Len(queue) \/ i = Len(queue) + 1
        BY <2>1
    <2>3. MailOwned'
        <3>1. \A i \in 1 .. Len(queue') : queue'[i].src # None => OwnedIn(queue'[i], sem', client')
            BY <1>0, <1>6, <1>7, <2>1, <2>2 DEF MailOwned
        <3> QED
            BY <1>0, <1>1, <1>5, <1>7, <3>1 DEF MailOwned
    <2>4. MailAlone'
        <3>1. \A i, j \in 1 .. Len(queue') :
                queue'[i].src = queue'[j].src /\ queue'[i].src # None => i = j
            BY <1>0, <1>4, <1>8, <2>1, <2>2 DEF MailAlone
        <3>2. \A i \in 1 .. Len(queue') : queue'[i].src # None =>
                  /\ ~ (Busy /\ srv.msg.src = queue'[i].src)
                  /\ Len(answer[queue'[i].src]) = 0
            BY <1>0, <1>4, <1>8, <2>1, <2>2 DEF MailAlone
        <3> QED
            BY <1>0, <1>1, <1>5, <3>1, <3>2 DEF MailAlone
    <2> QED
        BY <1>1, <1>5, <1>10, <2>3, <2>4 DEF MInv, QueueGone
<1> QED
    BY <1>2, <1>9, <1>10

LEMMA TailOfOne ==
    ASSUME NEW S, NEW q \in Seq(S), q # << >>, Len(q) <= 1
    PROVE  Tail(q) \in Seq(S) /\ Len(Tail(q)) = 0
<1>1. Len(q) \in Nat /\ Len(q) # 0
    BY EmptySeq
<1>2. Tail(q) \in Seq(S) /\ Len(Tail(q)) = Len(q) - 1
    BY HeadTailProperties
<1> QED
    BY <1>1, <1>2

\* msgrcv, by the answer or by an error, and SemRelease: whatever the process
\* had is taken or was gone with the queue.
LEMMA ReceiveKeepsMail ==
    ASSUME MInv, NEW t \in Threads, Receive(t) \/ ReceiveFails(t)
    PROVE  MInv'
<1>0. MailShape /\ MailOwned /\ MailAlone /\ QueueGone
    BY DEF MInv
<1> DEFINE p == Proc[t]
<1>1. /\ p \in Procs /\ UNCHANGED <<queue, srv, gone>>
      /\ sem' = [sem EXCEPT ![p] = None] /\ client' = [client EXCEPT ![t] = Idle]
      /\ \/ answer[p] # << >> /\ answer' = [answer EXCEPT ![p] = Tail(@)]
         \/ gone /\ answer' = answer
    BY NoneIsNobody DEF Receive, ReceiveFails, serverVars
<1> HIDE DEF p
<1>2. answer[p] \in Seq(Mail) /\ Len(answer[p]) <= 1 /\ Len(answer[p]) \in Nat
    BY <1>0, <1>1 DEF MailShape, MailAlone
<1>3. /\ answer' \in [Procs -> Seq(Mail)] /\ Len(answer'[p]) = 0
      /\ \A q \in Procs : q # p => answer'[q] = answer[q]
    <2>1. CASE answer[p] # << >> /\ answer' = [answer EXCEPT ![p] = Tail(@)]
        <3>1. answer[p] # << >>
            BY <2>1
        <3>2. Tail(answer[p]) \in Seq(Mail) /\ Len(Tail(answer[p])) = 0
            BY <1>2, <3>1, TailOfOne
        <3>3. answer \in [Procs -> Seq(Mail)]
            BY <1>0 DEF MailShape
        <3> HIDE DEF Mail
        <3>4. answer' \in [Procs -> Seq(Mail)] /\ answer'[p] = Tail(answer[p])
            BY <1>1, <2>1, <3>2, <3>3
        <3> QED
            BY <1>1, <2>1, <3>2, <3>3, <3>4
    <2>2. CASE gone /\ answer' = answer
        BY <1>0, <1>1, <2>2 DEF MailShape, QueueGone
    <2> QED
        BY <1>1, <2>1, <2>2
<1>4. Idle \in Calls /\ client' \in [Threads -> Calls]
    BY <1>0, <1>1 DEF MailShape, Calls, Idle
<1>5. sem' \in [Procs -> Threads \union {None}]
    BY <1>0, <1>1 DEF MailShape
<1>6. MailShape' /\ Busy' = Busy
    <2>1. Busy' = Busy
        BY <1>1 DEF Busy
    <2> QED
        BY <1>0, <1>1, <1>3, <1>4, <1>5, <2>1 DEF MailShape
<1>7. ASSUME NEW m, OwnedIn(m, sem, client), m.src # p
      PROVE  OwnedIn(m, sem', client')
    <2>1. m.src # p /\ m.by # t /\ m.by \in Threads /\ m.src \in Procs
        BY <1>1, <1>7, NoneIsNobody DEF OwnedIn, p
    <2>2. sem'[m.src] = sem[m.src] /\ client'[m.by] = client[m.by]
        BY <1>0, <1>1, <2>1 DEF MailShape
    <2> QED
        BY <1>7, <2>1, <2>2 DEF OwnedIn
<1>8. ~ (Busy /\ srv.msg.src = p) /\ \A i \in 1 .. Len(queue) : queue[i].src # p
    <2>1. CASE answer[p] # << >>
        <3>1. Len(answer[p]) # 0
            BY <1>2, <2>1
        <3> QED
            BY <1>0, <1>1, <3>1, NoneIsNobody DEF MailAlone
    <2>2. CASE gone
        BY <1>0, <2>2 DEF QueueGone, Busy
    <2> QED
        BY <1>1, <2>1, <2>2
<1>9. MailOwned'
    <2>1. \A i \in 1 .. Len(queue') : queue'[i].src # None =>
              OwnedIn(queue'[i], sem', client')
        BY <1>0, <1>1, <1>7, <1>8 DEF MailOwned
    <2>2. Busy' /\ srv'.msg.src # None => OwnedIn(srv'.msg, sem', client')
        BY <1>0, <1>1, <1>6, <1>7, <1>8 DEF MailOwned
    <2>3. \A q \in Procs : \A i \in 1 .. Len(answer'[q]) :
              answer'[q][i].src = q /\ OwnedIn(answer'[q][i], sem', client')
        BY <1>0, <1>3, <1>7 DEF MailOwned
    <2> QED
        BY <2>1, <2>2, <2>3 DEF MailOwned
<1>10. MailAlone'
    <2>1. \A q \in Procs : Len(answer'[q]) = 0 \/ answer'[q] = answer[q]
        BY <1>3
    <2>2. \A i \in 1 .. Len(queue) : queue[i].src # None => queue[i].src \in Procs
        BY <1>0, NoneIsNobody DEF MailOwned, OwnedIn
    <2>3. Busy /\ srv.msg.src # None => srv.msg.src \in Procs
        BY <1>0, NoneIsNobody DEF MailOwned, OwnedIn
    <2>4. \A q \in Procs : Len(answer'[q]) <= 1
        BY <1>0, <2>1 DEF MailAlone
    <2> QED
        BY <1>0, <1>1, <1>6, <2>1, <2>2, <2>3, <2>4 DEF MailAlone
<1>11. QueueGone'
    <2>1. \A q \in Procs : Len(answer'[q]) = 0 \/ answer'[q] = answer[q]
        BY <1>3
    <2> QED
        BY <1>0, <1>1, <2>1 DEF QueueGone
<1> QED
    BY <1>6, <1>9, <1>10, <1>11 DEF MInv

\* A request that asks for no answer.
LEMMA QuitKeepsMail ==
    ASSUME MInv, SendFileQuitCmd
    PROVE  MInv'
<1>0. MailShape /\ MailOwned /\ MailAlone /\ QueueGone
    BY DEF MInv
<1>1. /\ queue' = Append(queue, QuitRequest) /\ ~ gone
      /\ UNCHANGED <<answer, gone, srv, client, sem>>
    BY DEF SendFileQuitCmd
<1>2. QuitRequest \in Mail /\ QuitRequest.src = None
    BY DEF QuitRequest, Request, Mail, Commands
<1>3. /\ queue' \in Seq(Mail) /\ Len(queue) \in Nat
      /\ Len(queue') = Len(queue) + 1 /\ queue'[Len(queue) + 1] = QuitRequest
      /\ \A i \in 1 .. Len(queue) : queue'[i] = queue[i]
    <2>1. queue \in Seq(Mail)
        BY <1>0 DEF MailShape
    <2> QED
        BY <1>1, <1>2, <2>1
<1>4. \A i \in 1 .. Len(queue') : queue'[i].src # None =>
          i \in 1 .. Len(queue) /\ queue'[i] = queue[i]
    BY <1>2, <1>3
<1>5. MailShape' /\ Busy' = Busy
    <2>1. Busy' = Busy
        BY <1>1 DEF Busy
    <2> QED
        BY <1>0, <1>1, <1>3, <2>1 DEF MailShape
<1>6. MailOwned'
    BY <1>0, <1>1, <1>4, <1>5 DEF MailOwned
<1>7. MailAlone' /\ QueueGone'
    BY <1>0, <1>1, <1>4, <1>5 DEF MailAlone, QueueGone
<1> QED
    BY <1>5, <1>6, <1>7 DEF MInv

\* FileMsgThread serves the request it has.
LEMMA ServingKeepsMail ==
    ASSUME MInv, Busy, Busy', srv'.msg \in Mail, DOMAIN srv' = {"pc", "msg"},
           srv'.msg.src = srv.msg.src, srv'.msg.by = srv.msg.by,
           srv'.msg.cmd = srv.msg.cmd,
           UNCHANGED <<queue, answer, gone, client, sem>>
    PROVE  MInv'
<1>0. MailShape /\ MailOwned /\ MailAlone /\ QueueGone
    BY DEF MInv
<1>1. MailShape' /\ MailAlone'
    BY <1>0 DEF MailShape, MailAlone
<1>2. MailOwned'
    BY <1>0 DEF MailOwned, OwnedIn
<1>3. QueueGone'
    BY <1>0 DEF QueueGone, Busy
<1> QED
    BY <1>1, <1>2, <1>3 DEF MInv

\* An answer that is written.
LEMMA ServedMail ==
    ASSUME MInv, Busy, NEW ok \in BOOLEAN, Served(ok)
    PROVE  /\ Busy' /\ srv'.msg \in Mail /\ DOMAIN srv' = {"pc", "msg"}
           /\ srv'.msg.src = srv.msg.src /\ srv'.msg.by = srv.msg.by
           /\ srv'.msg.cmd = srv.msg.cmd
<1>1. srv.msg \in Mail
    BY DEF MInv, MailShape
<1>2. /\ srv'.pc = "reply" /\ srv'.msg = [srv.msg EXCEPT !.ok = ok]
      /\ DOMAIN srv' = {"pc", "msg"}
    BY DEF Served
<1> QED
    BY <1>1, <1>2 DEF Mail, Busy

\* FileMsgThread is at no request before and after.
LEMMA FreeKeepsMail ==
    ASSUME MInv, ~ Busy, ~ Busy', srv'.msg = None, DOMAIN srv' = {"pc", "msg"},
           srv.pc \notin {"down", "failed"},
           UNCHANGED <<queue, answer, gone, client, sem>>
    PROVE  MInv'
BY DEF MInv, MailShape, MailOwned, MailAlone, QueueGone

LEMMA TakeKeepsMail ==
    ASSUME MInv, TakeRequest
    PROVE  MInv'
<1>0. MailShape /\ MailOwned /\ MailAlone /\ QueueGone
    BY DEF MInv
<1> DEFINE m == Head(queue)
<1>1. /\ srv.pc = "recv" /\ queue # << >> /\ queue' = Tail(queue)
      /\ srv'.pc = "serve" /\ srv'.msg = m /\ DOMAIN srv' = {"pc", "msg"}
      /\ UNCHANGED <<answer, gone, client, sem>>
    BY DEF TakeRequest, clientVars
<1>2. /\ queue' \in Seq(Mail) /\ m \in Mail /\ m = queue[1]
      /\ Len(queue) \in Nat /\ Len(queue) >= 1 /\ Len(queue') = Len(queue) - 1
      /\ \A i \in 1 .. Len(queue') : queue'[i] = queue[i + 1]
    <2>1. queue \in Seq(Mail)
        BY <1>0 DEF MailShape
    <2> HIDE DEF Mail
    <2> QED
        BY <1>1, <2>1
<1> HIDE DEF m
<1>3. ~ Busy /\ Busy'
    BY <1>1 DEF Busy
<1>4. MailShape'
    BY <1>0, <1>1, <1>2, <1>3 DEF MailShape
<1>5. \A i \in 1 .. Len(queue') : i + 1 \in 1 .. Len(queue) /\ i + 1 # 1
    BY <1>2
<1>6. 1 \in 1 .. Len(queue)
    BY <1>2
<1>7. MailOwned'
    BY <1>0, <1>1, <1>2, <1>3, <1>5, <1>6 DEF MailOwned
<1>8. MailAlone'
    <2>1. \A i, j \in 1 .. Len(queue') :
              queue'[i].src = queue'[j].src /\ queue'[i].src # None => i = j
        <3> SUFFICES ASSUME NEW i \in 1 .. Len(queue'), NEW j \in 1 .. Len(queue'),
                            queue'[i].src = queue'[j].src, queue'[i].src # None
                     PROVE  i = j
            OBVIOUS
        <3>1. i + 1 = j + 1
            BY <1>0, <1>2, <1>5 DEF MailAlone
        <3> QED
            BY <1>2, <3>1
    <2>2. \A i \in 1 .. Len(queue') : queue'[i].src # None =>
              m.src # queue'[i].src /\ Len(answer[queue'[i].src]) = 0
        <3> SUFFICES ASSUME NEW i \in 1 .. Len(queue'), queue'[i].src # None
                     PROVE  m.src # queue'[i].src /\ Len(answer[queue'[i].src]) = 0
            OBVIOUS
        <3>1. i + 1 \in 1 .. Len(queue) /\ i + 1 # 1 /\ queue'[i] = queue[i + 1]
            BY <1>2, <1>5
        <3> QED
            BY <1>0, <1>2, <1>6, <3>1 DEF MailAlone
    <2>3. m.src # None => Len(answer[m.src]) = 0
        BY <1>0, <1>2, <1>6 DEF MailAlone
    <2> QED
        BY <1>0, <1>1, <1>3, <2>1, <2>2, <2>3 DEF MailAlone
<1>9. QueueGone'
    BY <1>0, <1>1 DEF QueueGone
<1> QED
    BY <1>4, <1>7, <1>8, <1>9 DEF MInv

\* msgsnd of the answer: the process had no other.
LEMMA ReplyKeepsMail ==
    ASSUME MInv, Reply
    PROVE  MInv'
<1>0. MailShape /\ MailOwned /\ MailAlone /\ QueueGone
    BY DEF MInv
<1> DEFINE m == srv.msg
           p == srv.msg.src
<1>1. /\ Busy /\ srv.pc = "reply" /\ m \in Mail
      /\ answer' = [answer EXCEPT ![p] = Append(@, m)]
      /\ srv'.pc = "recv" /\ srv'.msg = None /\ DOMAIN srv' = {"pc", "msg"}
      /\ UNCHANGED <<queue, gone, client, sem>>
    BY <1>0 DEF Reply, Busy, MailShape, clientVars
<1>2. p \notin Procs => p = None
    BY <1>1 DEF Mail
<1> HIDE DEF m, p
<1>3. ~ Busy' /\ ~ gone
    BY <1>0, <1>1 DEF Busy, QueueGone
<1>4. CASE p = None
    <2>1. answer' = answer
        BY <1>0, <1>1, <1>4, NoneIsNobody DEF MailShape
    <2>2. MailShape'
        BY <1>0, <1>1, <1>3, <2>1 DEF MailShape
    <2>3. MailOwned' /\ MailAlone'
        BY <1>0, <1>1, <1>3, <2>1 DEF MailOwned, MailAlone
    <2> QED
        BY <1>1, <1>3, <2>2, <2>3 DEF MInv, QueueGone
<1>5. CASE p \in Procs
    <2>1. /\ answer[p] \in Seq(Mail) /\ Len(answer[p]) = 0 /\ OwnedIn(m, sem, client)
          /\ \A i \in 1 .. Len(queue) : queue[i].src # p
        BY <1>0, <1>1, <1>5, NoneIsNobody DEF MailShape, MailAlone, MailOwned, m, p
    <2>2. /\ answer'[p] = Append(answer[p], m) /\ answer' \in [Procs -> Seq(Mail)]
          /\ \A q \in Procs : q # p => answer'[q] = answer[q]
        <3>1. answer \in [Procs -> Seq(Mail)]
            BY <1>0 DEF MailShape
        <3>2. Append(answer[p], m) \in Seq(Mail)
            BY <1>1, <2>1, AppendProperties
        <3> QED
            BY <1>1, <1>5, <3>1, <3>2
    <2>3. Len(answer'[p]) = 1 /\ answer'[p][1] = m
        BY <1>1, <2>1, <2>2, AppendProperties
    <2>4. MailShape'
        BY <1>0, <1>1, <1>3, <2>2 DEF MailShape
    <2>5. MailOwned'
        <3>1. ASSUME NEW q \in Procs, NEW i \in 1 .. Len(answer'[q])
              PROVE  answer'[q][i].src = q /\ OwnedIn(answer'[q][i], sem', client')
            <4>1. CASE q = p
                BY <1>1, <2>1, <2>3, <3>1, <4>1 DEF m, p
            <4>2. CASE q # p
                BY <1>0, <1>1, <2>2, <3>1, <4>2 DEF MailOwned
            <4> QED
                BY <4>1, <4>2
        <3> QED
            BY <1>0, <1>1, <1>3, <3>1 DEF MailOwned
    <2>6. MailAlone'
        <3>1. \A q \in Procs : Len(answer'[q]) <= 1
            BY <1>0, <2>2, <2>3 DEF MailAlone
        <3>2. \A i \in 1 .. Len(queue) : queue[i].src # None =>
                  queue[i].src \in Procs /\ queue[i].src # p
            BY <1>0, <2>1, NoneIsNobody DEF MailOwned, OwnedIn
        <3> QED
            BY <1>0, <1>1, <1>3, <2>2, <3>1, <3>2 DEF MailAlone
    <2> QED
        BY <1>1, <1>3, <2>4, <2>5, <2>6 DEF MInv, QueueGone
<1> QED
    BY <1>2, <1>4, <1>5

LEMMA MsgKeepsMail ==
    ASSUME MInv, FileMsgThread \/ EmptyLogFails
    PROVE  MInv'
<1>0. MailShape /\ MailOwned /\ MailAlone /\ QueueGone
    BY DEF MInv
<1>1. CASE Boot \/ BootWithDefaults \/ DefaultsWritten
    <2>1. /\ srv.pc \in {"boot", "init"}
          /\ srv' \in {[srv EXCEPT !.pc = "recv"], [srv EXCEPT !.pc = "init"]}
          /\ UNCHANGED <<queue, answer, gone, client, sem>>
        BY <1>1 DEF Boot, BootWithDefaults, DefaultsWritten, clientVars
    <2>2. /\ ~ Busy /\ ~ Busy' /\ srv.pc \notin {"down", "failed"}
          /\ srv'.msg = srv.msg /\ DOMAIN srv' = {"pc", "msg"}
        BY <1>0, <2>1 DEF Busy, MailShape
    <2> QED
        BY <1>0, <2>1, <2>2, FreeKeepsMail DEF MailShape
<1>2. CASE ServeRead \/ ServeReadLog \/ ServeWrite \/ ServeWriteLog \/ SaveWritten
    <2>1. /\ Busy /\ UNCHANGED <<queue, answer, gone, client, sem>>
        BY <1>2 DEF ServeRead, ServeReadLog, ServeWrite, ServeWriteLog, SaveWritten, Serving,
           Busy, clientVars
    <2>2. \E ok \in BOOLEAN : Served(ok)
        <3>1. CASE ServeReadLog
            <4>1. PICK i \in 1 .. MaxLog : Served(i <= Len(log))
                BY <3>1 DEF ServeReadLog
            <4>2. CASE i <= Len(log)
                <5>1. (i <= Len(log)) = TRUE
                    BY <4>2
                <5> QED
                    BY <4>1, <5>1
            <4>3. CASE ~ (i <= Len(log))
                <5>1. (i <= Len(log)) = FALSE
                    BY <4>3
                <5> QED
                    BY <4>1, <5>1
            <4> QED
                BY <4>2, <4>3
        <3> QED
            BY <1>2, <3>1 DEF ServeRead, ServeWrite, ServeWriteLog, SaveWritten
    <2> QED
        BY <2>1, <2>2, ServedMail, ServingKeepsMail
<1>3. CASE ServeWriteNow \/ ServeReset \/ ResetWritten
    <2>1. /\ Busy /\ UNCHANGED <<queue, answer, gone, client, sem>>
          /\ srv' \in {[srv EXCEPT !.pc = "save"], [srv EXCEPT !.pc = "reset"]}
        BY <1>3 DEF ServeWriteNow, ServeReset, ResetWritten, StartSave, Serving, Busy, clientVars
    <2>2. Busy' /\ srv'.msg = srv.msg /\ DOMAIN srv' = {"pc", "msg"}
        BY <1>0, <2>1 DEF Busy, MailShape
    <2> QED
        BY <1>0, <2>1, <2>2, ServingKeepsMail DEF MailShape
<1>4. CASE ServeQuit
    <2>1. /\ srv.pc = "serve" /\ srv.msg.cmd = "QUIT" /\ srv'.msg = None
          /\ srv'.pc = "exit" /\ DOMAIN srv' = {"pc", "msg"}
          /\ UNCHANGED <<queue, answer, gone, client, sem>>
        BY <1>4 DEF ServeQuit, Serving, clientVars
    <2>2. Busy /\ ~ Busy' /\ ~ gone
        BY <1>0, <2>1 DEF Busy, QueueGone
    <2> QED
        BY <1>0, <2>1, <2>2 DEF MInv, MailShape, MailOwned, MailAlone, QueueGone
<1>5. CASE CleanupFileEnv \/ DefaultsFail \/ EmptyLogFails
    <2>1. /\ srv.pc \in {"boot", "init", "exit"}
          /\ srv' \in {[srv EXCEPT !.pc = "down"], [srv EXCEPT !.pc = "failed"]}
          /\ queue' = << >> /\ answer' = [p \in Procs |-> << >>]
          /\ UNCHANGED <<client, sem>>
        BY <1>5 DEF CleanupFileEnv, DefaultsFail, EmptyLogFails, Msg_Kill, clientVars
    <2>2. /\ ~ Busy /\ ~ Busy' /\ srv'.msg = None
          /\ srv'.pc \in {"down", "failed"}
          /\ DOMAIN srv' = {"pc", "msg"}
        BY <1>0, <2>1 DEF Busy, MailShape
    <2>3. /\ Len(queue') = 0 /\ queue' \in Seq(Mail) /\ answer' \in [Procs -> Seq(Mail)]
          /\ \A p \in Procs : Len(answer'[p]) = 0
        BY <2>1, EmptySeq
    <2>4. MailShape'
        BY <1>0, <2>1, <2>2, <2>3 DEF MailShape
    <2>5. MailOwned' /\ MailAlone' /\ QueueGone'
        BY <2>2, <2>3 DEF MailOwned, MailAlone, QueueGone
    <2> QED
        BY <2>4, <2>5 DEF MInv
<1> QED
    BY <1>1, <1>2, <1>3, <1>4, <1>5, TakeKeepsMail, ReplyKeepsMail DEF FileMsgThread

\* Every message is the only one of its process and belongs to the thread that
\* holds the semaphore and waits.
THEOREM MailInvariant == Spec => []MInv
<1>1. Init => MInv
    <2> SUFFICES ASSUME Init PROVE MInv
        OBVIOUS
    <2>1. /\ queue = << >> /\ answer = [p \in Procs |-> << >>] /\ gone = FALSE
          /\ srv = [pc |-> "boot", msg |-> None]
          /\ client = [t \in Threads |-> Idle] /\ sem = [p \in Procs |-> None]
        BY DEF Init
    <2> QED
        BY <2>1, EmptySeq
        DEF MInv, MailShape, MailOwned, MailAlone, QueueGone, Busy, Calls, Idle
<1>2. MInv /\ [Next]_vars => MInv'
    <2> SUFFICES ASSUME MInv, [Next]_vars PROVE MInv'
        OBVIOUS
    <2>1. CASE UNCHANGED <<queue, answer, gone, srv, client, sem>>
        <3>1. Busy' = Busy
            BY <2>1 DEF Busy
        <3> QED
            BY <2>1, <3>1 DEF MInv, MailShape, MailOwned, MailAlone, QueueGone
    <2>2. CASE UNCHANGED vars
        BY <2>1, <2>2 DEF vars, serverVars, clientVars
    <2>3. CASE ProcFileThread \/ \E w \in Savers : SaverStep(w) \/ SaverFails(w)
        <3>1. CASE ProcFileThread \/ \E w \in Savers : SaverStep(w)
            BY <2>1, <3>1 DEF ProcFileThread, CheckQuit, FileNeedWrite, FileUpdated, ProcSaved,
               SaverStep, CreateLog, CloseLog, CreateSys, WriteSys, CloseSys, clientVars
        <3>2. CASE \E w \in Savers : SaverFails(w)
            BY <2>1, <3>2 DEF SaverFails, LogFails, SysFails, CloseSysFails, clientVars
        <3> QED
            BY <2>3, <3>1, <3>2
    <2>4. ASSUME NEW t \in Threads, SetField(t) \/ SetSysLog(t) \/ Ask(t) \/ SendFails(t)
          PROVE  MInv'
        <3>1. \/ client' = [client EXCEPT ![t] = Idle]
              \/ \E k \in Parts \union {0}, cmd \in Commands :
                    client' = [client EXCEPT ![t] = [pc |-> "lock", cmd |-> cmd, part |-> k]]
            BY <2>4 DEF SetField, SetSysLog, Ask, SendFails, Call, Commands
        <3>2. client[t].pc # "wait" /\ UNCHANGED <<sem, queue, answer, srv, gone>>
            BY <2>4 DEF SetField, SetSysLog, Ask, SendFails, Call, serverVars
        <3>3. \E r \in Calls : client' = [client EXCEPT ![t] = r]
            BY <3>1 DEF Calls, Idle
        <3> QED
            BY <3>2, <3>3, NotWaiting
    <2>5. CASE PowerLoss
        <3>1. /\ queue' = << >> /\ answer' = [p \in Procs |-> << >>] /\ gone' = FALSE
              /\ srv' = [pc |-> "boot", msg |-> None]
              /\ client' = [t \in Threads |-> Idle] /\ sem' = [p \in Procs |-> None]
            BY <2>5 DEF PowerLoss
        <3> QED
            BY <3>1, EmptySeq
            DEF MInv, MailShape, MailOwned, MailAlone, QueueGone, Busy, Calls, Idle
    <2> QED
        BY <2>2, <2>3, <2>4, <2>5, SendKeepsMail, ReceiveKeepsMail, QuitKeepsMail,
           MsgKeepsMail DEF Next
<1> QED
    BY <1>1, <1>2, PTL DEF Spec

\* A process never has two messages, and the answer it gets is the one to the
\* request of the thread that waits (file_msg_drv.c:221), for any number of
\* processes and threads, across restarts and the end of the server.
THEOREM AnswersToTheirThreads == Spec => []AnswersMatch
BY MailInvariant, OneMessage, PTL

-----------------------------------------------------------------------------
(* Types.                                                                  *)

Entry   == Threads \union {None}
Written == Stored \ {Gone}
Saves   == [at : {"closed", "start", "log", "open", "sys", "failed"},
            pos : 1 .. NParts + 1, tail : Stored \union {None}, entries : Seq(Entry)]

\* A file has no end before its last part, and what a save has in its buffer
\* is part of the settings: a file that ReadGlobal accepts has values to read.
Filled   == \A q, r \in Parts : q < r /\ file[r] # Gone => file[q] # Gone
Buffered == \A w \in Savers :
                saver[w].at = "sys" /\ saver[w].pos > NParts => saver[w].tail \in Written

FlashTyped ==
    /\ mem \in [Parts -> Written] /\ file \in [Parts -> Stored] /\ Filled
    /\ saver \in [Savers -> Saves] /\ Buffered
    /\ overlap \in BOOLEAN

LogTyped ==
    /\ slot \in Entry /\ log \in Seq(Entry)
    /\ logFile \in [ok : BOOLEAN, entries : Seq(Entry)]

ServerTyped ==
    /\ dirty \in BOOLEAN /\ quit \in BOOLEAN /\ gone \in BOOLEAN
    /\ queue \in Seq(Requests) /\ answer \in [Procs -> Seq(Requests)]
    /\ srv \in [pc : {"boot", "init", "recv", "serve", "save", "reset", "reply",
                      "exit", "down", "failed"},
                msg : Requests \union {None}]
    /\ Busy => srv.msg \in Requests
    /\ proc \in {"none", "check", "need", "clear", "save", "exited"}

\* A call under way has a command; one that changed a setting asks for a save.
ClientTyped ==
    /\ client \in [Threads -> Calls] /\ sem \in [Procs -> Entry]
    /\ \A t \in Threads :
          /\ client[t].pc # "idle" => client[t].cmd \in Commands
          /\ client[t].pc = "lock" /\ client[t].part # 0 =>
                client[t].cmd \in {"WRITE", "WRITE_I"}

\* A failure counted belongs to a call that has ended.
Calling(p) == {t \in Threads : Proc[t] = p /\ client[t].pc # "idle"}
CountTyped ==
    /\ ops \in 0 .. MaxOps /\ losses \in 0 .. MaxLosses
    /\ eCount \in [Procs -> Nat] /\ orphan \in [Procs -> BOOLEAN]
    /\ \A p \in Procs :
          IsFiniteSet(Calling(p)) /\ eCount[p] + Cardinality(Calling(p)) <= ops

TInv == FlashTyped /\ LogTyped /\ ServerTyped /\ ClientTyped /\ CountTyped

\* What the flash has refused so far.
FInv == lost \in BOOLEAN /\ errors \in 0 .. MaxErrors

LEMMA TypedIsTypeOK == TInv /\ FInv => TypeOK
<1> SUFFICES ASSUME TInv, FInv PROVE TypeOK
    OBVIOUS
<1>1. eCount \in [Procs -> 0 .. MaxOps]
    <2>1. ASSUME NEW p \in Procs PROVE eCount[p] \in 0 .. MaxOps
        <3>1. /\ eCount[p] \in Nat /\ Cardinality(Calling(p)) \in Nat /\ ops \in 0 .. MaxOps
              /\ eCount[p] + Cardinality(Calling(p)) <= ops
            BY FS_CardinalityType DEF TInv, CountTyped
        <3> QED
            BY <3>1, BoundsAssumption
    <2> QED
        BY <2>1 DEF TInv, CountTyped
<1> QED
    BY <1>1 DEF TInv, FlashTyped, LogTyped, ServerTyped, ClientTyped, CountTyped, TypeOK,
                FInv, Written, Entry, Saves, Calls

-----------------------------------------------------------------------------
(* The log.                                                                *)

LEMMA NewestTyped ==
    ASSUME NEW s \in Seq(Entry)
    PROVE  Newest(s) \in Seq(Entry)
<1>1. PICK n : n = IF Len(s) < MaxLog THEN Len(s) ELSE MaxLog
    OBVIOUS
<1>2. n \in Nat /\ n <= Len(s) /\ Len(s) \in Nat
    BY <1>1, LenProperties, MaxLogAssumption
<1>3. \A i \in 1 .. n : s[i] \in Entry
    BY <1>2, ElementOfSeq
<1> HIDE DEF Entry
<1>4. SubSeq(s, 1, n) \in Seq(Entry)
    BY <1>2, <1>3, SubSeqProperties
<1> QED
    BY <1>1, <1>4 DEF Newest

LEMMA FrontTyped ==
    ASSUME NEW s \in Seq(Entry), NEW n \in 1 .. Len(s)
    PROVE  SubSeq(s, 1, n - 1) \in Seq(Entry)
<1>1. PICK m : m = n - 1
    OBVIOUS
<1>2. m \in Nat /\ m <= Len(s) /\ Len(s) \in Nat
    BY <1>1, LenProperties
<1>3. \A i \in 1 .. m : s[i] \in Entry
    BY <1>2, ElementOfSeq
<1> HIDE DEF Entry
<1>4. SubSeq(s, 1, m) \in Seq(Entry)
    BY <1>2, <1>3, SubSeqProperties
<1> QED
    BY <1>1, <1>4

LEMMA OverTyped ==
    ASSUME NEW new \in Seq(Entry), NEW old \in Seq(Entry)
    PROVE  Over(new, old) \in Seq(Entry)
<1>1. Len(new) \in Nat /\ Len(old) \in Nat
    BY LenProperties
<1>2. PICK m : m = Len(new) + 1
    OBVIOUS
<1>3. m \in Int /\ \A i \in m .. Len(old) : old[i] \in Entry
    BY <1>1, <1>2, ElementOfSeq
<1> HIDE DEF Entry
<1>4. SubSeq(old, m, Len(old)) \in Seq(Entry)
    BY <1>1, <1>3, SubSeqProperties
<1> QED
    BY <1>2, <1>4, ConcatProperties DEF Over

-----------------------------------------------------------------------------
(* What is written: SysInfo and its parts.                                 *)

LEMMA GoneIsNoValue == Gone \notin Values /\ Gone # Zero /\ Default \in Written /\ Zero \in Written
BY MarkersAssumption, DefaultAssumption DEF Written, Stored

LEMMA SourceIsWritten ==
    ASSUME FlashTyped, NEW w, NEW k \in Parts
    PROVE  Source(w)[k] \in Written
BY GoneIsNoValue DEF FlashTyped, Source, SysInfoDefault

LEMMA WriteFills ==
    ASSUME FlashTyped, NEW k \in Parts, NEW v \in Written, file' = WriteAt(file, k, v)
    PROVE  file' \in [Parts -> Stored] /\ Filled'
<1>1. ASSUME NEW q \in Parts
      PROVE  file'[q] = IF q = k THEN v ELSE IF q < k /\ file[q] = Gone THEN Zero ELSE file[q]
    BY DEF WriteAt
<1>2. ASSUME NEW q \in Parts
      PROVE  /\ file'[q] \in Stored
             /\ file'[q] = Gone => file[q] = Gone /\ q # k /\ ~ (q < k)
    BY <1>1, GoneIsNoValue DEF FlashTyped, Written, Stored
<1>3. file' \in [Parts -> Stored]
    BY <1>2 DEF WriteAt
<1>4. ASSUME NEW q \in Parts, NEW r \in Parts, q < r, file'[r] # Gone, file'[q] = Gone
      PROVE  FALSE
    <2>1. file[q] = Gone /\ q # k /\ ~ (q < k)
        BY <1>2, <1>4
    <2>2. file[r] = Gone
        BY <1>4, <2>1 DEF FlashTyped, Filled
    <2>3. r = k \/ r < k
        BY <1>1, <1>4, <2>2
    <2> QED
        BY <1>4, <2>1, <2>3, NPartsAssumption DEF Parts
<1> QED
    BY <1>3, <1>4 DEF Filled

\* One save, at any of its steps.
LEMMA SaverKeepsFlash ==
    ASSUME TInv, NEW w \in Savers, SaverStep(w)
    PROVE  FlashTyped'
<1>0. FlashTyped /\ mem' = mem /\ w \in Savers
    BY DEF TInv, SaverStep, CreateLog, CloseLog, CreateSys, WriteSys, CloseSys
<1>1. PICK s : s = saver[w]
    OBVIOUS
<1>2. /\ s \in Saves /\ s.pos \in 1 .. NParts + 1 /\ NParts \in Nat \ {0}
      /\ s.at = "sys" /\ s.pos > NParts => s.tail \in Written
    BY <1>0, <1>1, NPartsAssumption DEF FlashTyped, Saves, Buffered
<1>3. ASSUME NEW r \in Saves, saver' = [saver EXCEPT ![w] = r],
             r.at = "sys" /\ r.pos > NParts => r.tail \in Written
      PROVE  saver' \in [Savers -> Saves] /\ Buffered'
    BY <1>0, <1>3 DEF FlashTyped, Buffered
<1>4. CASE CreateLog(w)
    <2>1. /\ saver' = [saver EXCEPT ![w] = [s EXCEPT !.at = "log", !.entries = Newest(log)]]
          /\ UNCHANGED <<file, overlap>>
        BY <1>0, <1>1, <1>4 DEF CreateLog, FlashTyped
    <2>2. Newest(log) \in Seq(Entry)
        BY NewestTyped DEF TInv, LogTyped
    <2>3. PICK r : r = [s EXCEPT !.at = "log", !.entries = Newest(log)]
        OBVIOUS
    <2>4. r \in Saves /\ r.at # "sys"
        BY <1>2, <2>2, <2>3 DEF Saves
    <2> QED
        BY <1>0, <1>3, <2>1, <2>3, <2>4 DEF FlashTyped, Filled
<1>5. CASE CloseLog(w)
    <2>1. /\ saver' = [saver EXCEPT ![w] = [s EXCEPT !.at = "open", !.entries = << >>]]
          /\ UNCHANGED <<file, overlap>>
        BY <1>0, <1>1, <1>5 DEF CloseLog, FlashTyped
    <2>2. << >> \in Seq(Entry)
        BY EmptySeq
    <2>3. PICK r : r = [s EXCEPT !.at = "open", !.entries = << >>]
        OBVIOUS
    <2>4. r \in Saves /\ r.at # "sys"
        BY <1>2, <2>2, <2>3 DEF Saves
    <2> QED
        BY <1>0, <1>3, <2>1, <2>3, <2>4 DEF FlashTyped, Filled
<1>6. CASE CreateSys(w)
    <2>1. /\ saver' = [saver EXCEPT ![w] = [s EXCEPT !.at = "sys", !.pos = 1]]
          /\ file' = EmptyFile /\ overlap' \in BOOLEAN
        BY <1>0, <1>1, <1>6 DEF CreateSys, FlashTyped
    <2>2. PICK r : r = [s EXCEPT !.at = "sys", !.pos = 1]
        OBVIOUS
    <2>3. r \in Saves /\ r.pos = 1
        <3>1. 1 \in 1 .. NParts + 1
            BY <1>2
        <3>2. PICK P : P = 1 .. NParts + 1
            OBVIOUS
        <3> QED
            BY <1>2, <2>2, <3>1, <3>2 DEF Saves
    <2>4. ~ (r.pos > NParts)
        BY <1>2, <2>3
    <2>5. file' \in [Parts -> Stored] /\ Filled'
        BY <2>1 DEF EmptyFile, Filled, Stored
    <2> QED
        BY <1>0, <1>3, <2>1, <2>2, <2>3, <2>4, <2>5 DEF FlashTyped
<1>7. CASE WriteSys(w)
    <2>1. PICK k, t : k = s.pos /\ t = IF k = NParts THEN Source(w)[k] ELSE None
        OBVIOUS
    <2>2. /\ saver' = [saver EXCEPT ![w] = [s EXCEPT !.pos = k + 1, !.tail = t]]
          /\ file' = IF k = NParts THEN file ELSE WriteAt(file, k, Source(w)[k])
          /\ overlap' = overlap /\ k <= NParts
        BY <1>0, <1>1, <1>7, <2>1 DEF WriteSys, FlashTyped
    <2>3. k \in Parts /\ k + 1 \in 1 .. NParts + 1
        BY <1>2, <2>1, <2>2 DEF Parts
    <2>4. Source(w)[k] \in Written
        BY <1>0, <2>3, SourceIsWritten
    <2>5. t \in Stored \union {None} /\ (k = NParts => t \in Written)
        BY <2>1, <2>4 DEF Written
    <2>6. PICK r : r = [s EXCEPT !.pos = k + 1, !.tail = t]
        OBVIOUS
    <2>7. r \in Saves /\ r.pos = k + 1 /\ r.tail = t
        BY <1>2, <2>3, <2>5, <2>6 DEF Saves
    <2>8. r.pos > NParts => r.tail \in Written
        BY <1>2, <2>2, <2>3, <2>5, <2>7 DEF Parts
    <2>9. file' \in [Parts -> Stored] /\ Filled'
        <3>1. CASE k = NParts
            BY <1>0, <2>2, <3>1 DEF FlashTyped, Filled
        <3>2. CASE k # NParts
            BY <1>0, <2>2, <2>3, <2>4, <3>2, WriteFills
        <3> QED
            BY <3>1, <3>2
    <2> QED
        BY <1>0, <1>3, <2>2, <2>6, <2>7, <2>8, <2>9 DEF FlashTyped
<1>8. CASE CloseSys(w)
    <2>1. /\ saver' = [saver EXCEPT ![w] = Closed]
          /\ file' = WriteAt(file, NParts, s.tail) /\ overlap' = overlap
          /\ s.at = "sys" /\ s.pos > NParts
        BY <1>0, <1>1, <1>8 DEF CloseSys, FlashTyped
    <2>2. Closed \in Saves /\ Closed.at # "sys"
        BY <1>2, EmptySeq DEF Closed, Saves
    <2>3. file' \in [Parts -> Stored] /\ Filled'
        BY <1>0, <1>2, <2>1, WriteFills DEF Parts
    <2> QED
        BY <1>0, <1>3, <2>1, <2>2, <2>3 DEF FlashTyped
<1> QED
    BY <1>4, <1>5, <1>6, <1>7, <1>8 DEF SaverStep

LEMMA SaverKeepsTypes ==
    ASSUME TInv, NEW w \in Savers, SaverStep(w)
    PROVE  TInv'
<1>1. UNCHANGED <<slot, log, dirty, quit, losses, queue, answer, gone, srv, proc, client, sem,
                  eCount, orphan, ops>>
    BY DEF SaverStep, CreateLog, CloseLog, CreateSys, WriteSys, CloseSys, clientVars
<1>2. logFile' \in [ok : BOOLEAN, entries : Seq(Entry)]
    <2>1. CASE CloseLog(w)
        <3>1. saver[w].entries \in Seq(Entry) /\ logFile.entries \in Seq(Entry)
            BY DEF TInv, FlashTyped, LogTyped, Saves
        <3> QED
            BY <2>1, <3>1, OverTyped DEF CloseLog
    <2>2. CASE CreateLog(w)
        BY <2>2, EmptySeq DEF CreateLog
    <2>3. CASE CreateSys(w) \/ WriteSys(w) \/ CloseSys(w)
        BY <2>3 DEF CreateSys, WriteSys, CloseSys, TInv, LogTyped
    <2> QED
        BY <2>1, <2>2, <2>3 DEF SaverStep
<1>3. LogTyped'
    BY <1>1, <1>2 DEF TInv, LogTyped
<1>4. ServerTyped' /\ ClientTyped'
    BY <1>1 DEF TInv, ServerTyped, Busy, ClientTyped
<1>5. CountTyped'
    BY <1>1 DEF TInv, CountTyped, Calling
<1> QED
    BY <1>3, <1>4, <1>5, SaverKeepsFlash DEF TInv

\* A save that ends, or whose result is taken.
LEMMA ReturnsKeepFlash ==
    ASSUME TInv, NEW w \in Savers, NEW c \in {Closed, Failure},
           saver' = [saver EXCEPT ![w] = c], UNCHANGED <<mem, overlap>>,
           file' \in [Parts -> Stored], Filled'
    PROVE  FlashTyped'
<1>0. FlashTyped
    BY DEF TInv
<1>1. c \in Saves /\ c.at # "sys"
    <2>1. 1 \in 1 .. NParts + 1 /\ << >> \in Seq(Entry)
        BY NPartsAssumption, EmptySeq
    <2>2. Closed \in Saves /\ Closed.at # "sys"
        BY <2>1 DEF Closed, Saves
    <2>3. Failure \in Saves /\ Failure.at # "sys"
        <3>1. PICK d \in Saves : d = Closed
            BY <2>2
        <3>2. Failure = [d EXCEPT !.at = "failed"]
            BY <3>1 DEF Failure
        <3> QED
            BY <3>2 DEF Saves
    <2> QED
        BY <2>2, <2>3
<1>2. saver' \in [Savers -> Saves] /\ saver'[w] = c /\ \A v \in Savers : v # w => saver'[v] = saver[v]
    BY <1>0, <1>1 DEF FlashTyped
<1>3. Buffered'
    BY <1>0, <1>1, <1>2 DEF FlashTyped, Buffered
<1> QED
    BY <1>0, <1>2, <1>3 DEF FlashTyped

\* What create_log_file leaves when it fails.
LEMMA LogFailureTyped ==
    ASSUME TInv, NEW w \in Savers, LogFails(w)
    PROVE  LogTyped'
<1>0. LogTyped /\ saver[w].entries \in Seq(Entry) /\ logFile.entries \in Seq(Entry)
    BY DEF TInv, FlashTyped, LogTyped, Saves
<1>1. CASE logFile' = logFile
    BY <1>0, <1>1 DEF LogFails, LogTyped
<1>2. CASE logFile' # logFile
    <2>1. PICK n \in 1 .. Len(saver[w].entries) :
              logFile' = [ok |-> TRUE, entries |->
                              Over(SubSeq(saver[w].entries, 1, n - 1), logFile.entries)]
        BY <1>2 DEF LogFails
    <2>2. SubSeq(saver[w].entries, 1, n - 1) \in Seq(Entry)
        BY <1>0, <2>1, FrontTyped
    <2>3. Over(SubSeq(saver[w].entries, 1, n - 1), logFile.entries) \in Seq(Entry)
        BY <1>0, <2>2, OverTyped
    <2>4. UNCHANGED <<slot, log>>
        BY DEF LogFails
    <2> QED
        BY <1>0, <2>1, <2>3, <2>4 DEF LogTyped
<1> QED
    BY <1>1, <1>2

LEMMA FailuresKeepTypes ==
    ASSUME TInv, NEW w \in Savers, SaverFails(w)
    PROVE  TInv'
<1>0. FlashTyped /\ LogTyped /\ ServerTyped /\ ClientTyped /\ CountTyped
    BY DEF TInv
<1>1. UNCHANGED <<mem, slot, log, dirty, quit, overlap, losses, queue, answer, gone, srv, proc,
                  client, sem, eCount, orphan, ops>>
    BY DEF SaverFails, LogFails, SysFails, CloseSysFails, clientVars
<1>2. ServerTyped' /\ ClientTyped'
    BY <1>0, <1>1 DEF ServerTyped, Busy, ClientTyped
<1>3. CountTyped'
    BY <1>0, <1>1 DEF CountTyped, Calling
<1>4. CASE LogFails(w)
    <2>0. PICK s : s = saver[w]
        OBVIOUS
    <2>1. PICK r : s = saver[w] /\ r = [s EXCEPT !.at = "open", !.entries = << >>]
        BY <2>0
    <2>2. saver' = [saver EXCEPT ![w] = r] /\ file' = file
        BY <1>0, <1>4, <2>1 DEF LogFails, FlashTyped
    <2>3. s \in Saves /\ << >> \in Seq(Entry)
        BY <1>0, <2>1, EmptySeq DEF FlashTyped
    <2>4. r \in Saves /\ r.at # "sys"
        BY <2>1, <2>3 DEF Saves
    <2>5. saver' \in [Savers -> Saves] /\ saver'[w] = r
          /\ \A v \in Savers : v # w => saver'[v] = saver[v]
        BY <1>0, <2>2, <2>4 DEF FlashTyped
    <2>6. Buffered'
        BY <1>0, <2>4, <2>5 DEF FlashTyped, Buffered
    <2>7. FlashTyped'
        BY <1>0, <1>1, <2>2, <2>5, <2>6 DEF FlashTyped, Filled
    <2> QED
        BY <1>2, <1>3, <1>4, <2>7, LogFailureTyped DEF TInv
<1>5. CASE SysFails(w) \/ CloseSysFails(w)
    <2>1. logFile' = logFile /\ \E c \in {Closed, Failure} : saver' = [saver EXCEPT ![w] = c]
        BY <1>5 DEF SysFails, CloseSysFails
    <2>2. file' \in [Parts -> Stored] /\ Filled'
        <3>1. CASE file' = file
            BY <1>0, <3>1 DEF FlashTyped, Filled
        <3>2. CASE file' # file
            <4>1. file' = WriteAt(file, 1, Source(w)[1])
                BY <1>5, <3>2 DEF SysFails, CloseSysFails
            <4>2. 1 \in Parts
                BY NPartsAssumption DEF Parts
            <4>3. Source(w)[1] \in Written
                BY <1>0, <4>2, SourceIsWritten
            <4> QED
                BY <1>0, <4>1, <4>2, <4>3, WriteFills
        <3> QED
            BY <3>1, <3>2
    <2>3. FlashTyped'
        BY <1>1, <2>1, <2>2, ReturnsKeepFlash
    <2>4. LogTyped'
        BY <1>0, <1>1, <2>1 DEF LogTyped
    <2> QED
        BY <1>2, <1>3, <2>3, <2>4 DEF TInv
<1> QED
    BY <1>4, <1>5 DEF SaverFails

-----------------------------------------------------------------------------
(* The calls of the driver.                                                *)

\* A thread calls: one more call, one more thread that is calling.
LEMMA CallTyped ==
    ASSUME TInv, NEW t \in Threads, NEW cmd \in Commands, NEW k \in Parts \union {0},
           k # 0 => cmd \in {"WRITE", "WRITE_I"}, Call(t, cmd, k), losses' = losses
    PROVE  ClientTyped' /\ CountTyped'
<1>0. ClientTyped /\ CountTyped
    BY DEF TInv
<1>1. PICK p : p = Proc[t]
    OBVIOUS
<1>2. /\ client[t].pc = "idle" /\ ops < MaxOps /\ ops' = ops + 1 /\ sem' = sem /\ p \in Procs
      /\ client' = [client EXCEPT ![t] = [pc |-> "lock", cmd |-> cmd, part |-> k]]
      /\ eCount' \in {eCount, [eCount EXCEPT ![p] = 0]}
      /\ orphan' \in {orphan, [orphan EXCEPT ![p] = TRUE]}
    BY <1>1 DEF Call, Procs
<1>3. [pc |-> "lock", cmd |-> cmd, part |-> k] \in Calls
    BY DEF Calls
<1>4. client' \in [Threads -> Calls] /\ client'[t].pc = "lock" /\ client'[t].cmd = cmd
      /\ client'[t].part = k /\ \A u \in Threads : u # t => client'[u] = client[u]
    BY <1>0, <1>2, <1>3 DEF ClientTyped
<1>5. ClientTyped'
    BY <1>0, <1>2, <1>4 DEF ClientTyped
<1>6. ops \in Nat /\ ops' \in 0 .. MaxOps /\ ops' = ops + 1
    BY <1>0, <1>2, BoundsAssumption DEF CountTyped
<1>7. ASSUME NEW q \in Procs
      PROVE  IsFiniteSet(Calling(q)') /\ eCount'[q] + Cardinality(Calling(q)') <= ops'
    <2>1. PICK c, d : c = Calling(q) /\ d = Calling(q)'
        OBVIOUS
    <2>2. d = c \/ d = c \cup {t}
        <3>1. \A u \in Threads : u # t => (u \in d <=> u \in c)
            BY <1>4, <2>1 DEF Calling
        <3>2. c \subseteq Threads /\ d \subseteq Threads /\ t \notin c
            BY <1>2, <2>1 DEF Calling
        <3> QED
            BY <3>1, <3>2
    <2>3. IsFiniteSet(c) /\ Cardinality(c) \in Nat /\ eCount[q] + Cardinality(c) <= ops
        BY <1>0, <2>1, FS_CardinalityType DEF CountTyped
    <2>4. IsFiniteSet(d) /\ Cardinality(d) \in Nat /\ Cardinality(d) <= Cardinality(c) + 1
        <3>1. /\ IsFiniteSet(c \cup {t})
              /\ Cardinality(c \cup {t}) = IF t \in c THEN Cardinality(c) ELSE Cardinality(c) + 1
            BY <2>3, FS_AddElement
        <3> QED
            BY <2>2, <2>3, <3>1
    <2>5. eCount[q] \in Nat /\ eCount'[q] \in Nat /\ eCount'[q] <= eCount[q]
        BY <1>0, <1>2 DEF CountTyped
    <2> QED
        BY <1>6, <2>1, <2>3, <2>4, <2>5
<1>8. eCount' \in [Procs -> Nat] /\ orphan' \in [Procs -> BOOLEAN] /\ losses' \in 0 .. MaxLosses
    <2>1. eCount' \in [Procs -> Nat]
        BY <1>0, <1>2 DEF CountTyped
    <2>2. orphan' \in [Procs -> BOOLEAN]
        BY <1>0, <1>2 DEF CountTyped
    <2> QED
        BY <1>0, <2>1, <2>2 DEF CountTyped
<1> QED
    BY <1>5, <1>6, <1>7, <1>8 DEF CountTyped

\* A call ends, with a failure counted or without.
LEMMA EndTyped ==
    ASSUME TInv, NEW t \in Threads, client[t].pc # "idle", client' = [client EXCEPT ![t] = Idle],
           eCount' \in {eCount, [eCount EXCEPT ![Proc[t]] = @ + 1]},
           UNCHANGED <<ops, losses, orphan>>
    PROVE  CountTyped'
<1>0. CountTyped /\ client \in [Threads -> Calls]
    BY DEF TInv, ClientTyped
<1>1. PICK p : p = Proc[t]
    OBVIOUS
<1>2. p \in Procs /\ eCount' \in {eCount, [eCount EXCEPT ![p] = @ + 1]} /\ ops \in Nat
    BY <1>0, <1>1, BoundsAssumption DEF Procs, CountTyped
<1>3. client'[t].pc = "idle" /\ \A u \in Threads : u # t => client'[u] = client[u]
    BY <1>0 DEF Idle
<1>4. eCount' \in [Procs -> Nat]
    BY <1>0, <1>2 DEF CountTyped
<1>5. ASSUME NEW q \in Procs
      PROVE  IsFiniteSet(Calling(q)') /\ eCount'[q] + Cardinality(Calling(q)') <= ops'
    <2>1. PICK c, d : c = Calling(q) /\ d = Calling(q)'
        OBVIOUS
    <2>2. IsFiniteSet(c) /\ Cardinality(c) \in Nat /\ eCount[q] + Cardinality(c) <= ops
        BY <1>0, <2>1, FS_CardinalityType DEF CountTyped
    <2>3. eCount[q] \in Nat /\ eCount'[q] \in Nat
        BY <1>0, <1>4 DEF CountTyped
    <2>4. d = c \ {t}
        <3>1. \A u \in Threads : u # t => (u \in d <=> u \in c)
            BY <1>3, <2>1 DEF Calling
        <3>2. c \subseteq Threads /\ d \subseteq Threads /\ t \notin d
            BY <1>3, <2>1 DEF Calling
        <3> QED
            BY <3>1, <3>2
    <2>5. /\ IsFiniteSet(d) /\ Cardinality(d) \in Nat /\ Cardinality(d) <= Cardinality(c)
          /\ t \in c => Cardinality(d) = Cardinality(c) - 1
        <3>1. /\ IsFiniteSet(d)
              /\ Cardinality(d) = IF t \in c THEN Cardinality(c) - 1 ELSE Cardinality(c)
            BY <2>2, <2>4, FS_RemoveElement
        <3>2. Cardinality(d) \in Nat
            BY <3>1, FS_CardinalityType
        <3> QED
            BY <2>2, <3>1, <3>2
    <2>6. CASE q = p
        <3>1. t \in c
            BY <1>1, <2>1, <2>6 DEF Calling
        <3>2. eCount'[q] <= eCount[q] + 1
            BY <1>0, <1>2, <2>3, <2>6 DEF CountTyped
        <3> QED
            BY <1>2, <2>1, <2>2, <2>3, <2>5, <3>1, <3>2
    <2>7. CASE q # p
        <3>1. eCount'[q] = eCount[q]
            BY <1>0, <1>2, <2>7 DEF CountTyped
        <3> QED
            BY <1>2, <2>1, <2>2, <2>3, <2>5, <3>1
    <2> QED
        BY <2>6, <2>7
<1> QED
    BY <1>0, <1>4, <1>5 DEF CountTyped

\* A thread that ends its call, seen by itself.
LEMMA IdleTyped ==
    ASSUME TInv, NEW t \in Threads, client' = [client EXCEPT ![t] = Idle], NEW p \in Procs,
           sem' \in {sem, [sem EXCEPT ![p] = None]}
    PROVE  ClientTyped'
<1>1. Idle \in Calls /\ Idle.pc = "idle"
    BY DEF Idle, Calls
<1>2. /\ client' \in [Threads -> Calls] /\ client'[t].pc = "idle"
      /\ \A u \in Threads : u # t => client'[u] = client[u]
    BY <1>1 DEF TInv, ClientTyped
<1>3. sem' \in [Procs -> Entry]
    BY DEF TInv, ClientTyped, Entry
<1> QED
    BY <1>2, <1>3 DEF TInv, ClientTyped

LEMMA ClientsKeepTypes ==
    ASSUME TInv, NEW t \in Threads,
           \/ SetField(t) \/ SetSysLog(t) \/ Ask(t) \/ SendRequest(t) \/ SendFails(t)
           \/ Receive(t) \/ ReceiveFails(t)
    PROVE  TInv'
<1>0. FlashTyped /\ LogTyped /\ ServerTyped /\ ClientTyped /\ CountTyped
    BY DEF TInv
<1>1. Proc[t] \in Procs
    BY DEF Procs
<1>2. CASE SetField(t)
    <2>1. PICK k \in Parts, v \in Values, cmd \in {"WRITE", "WRITE_I"} :
              Call(t, cmd, k) /\ mem' = [mem EXCEPT ![k] = v]
        BY <1>2 DEF SetField
    <2>2. UNCHANGED <<slot, file, logFile, log, dirty, quit, overlap, losses,
                      queue, answer, gone, srv, proc, saver>>
        BY <1>2 DEF SetField, serverVars
    <2>3. v \in Written /\ cmd \in Commands /\ k \in Parts \union {0}
        BY MarkersAssumption DEF Written, Stored, Commands
    <2>4. FlashTyped'
        BY <1>0, <2>1, <2>2, <2>3 DEF FlashTyped, Filled, Buffered
    <2>5. LogTyped' /\ ServerTyped'
        BY <1>0, <2>2 DEF LogTyped, ServerTyped, Busy
    <2>6. ClientTyped' /\ CountTyped'
        BY <2>1, <2>2, <2>3, CallTyped
    <2> QED
        BY <2>4, <2>5, <2>6 DEF TInv
<1>3. CASE SetSysLog(t) \/ Ask(t)
    <2>1. PICK cmd \in {"WRITE_LOG", "READ", "READ_LOG", "RESET"} : Call(t, cmd, 0)
        BY <1>3 DEF SetSysLog, Ask
    <2>2. /\ UNCHANGED <<mem, file, logFile, log, dirty, quit, overlap, losses,
                         queue, answer, gone, srv, proc, saver>>
          /\ slot' \in {slot, t}
        BY <1>3 DEF SetSysLog, Ask, serverVars
    <2>3. cmd \in Commands
        BY DEF Commands
    <2>4. FlashTyped' /\ ServerTyped'
        BY <1>0, <2>2 DEF FlashTyped, Filled, Buffered, ServerTyped, Busy
    <2>5. LogTyped'
        BY <1>0, <2>2 DEF LogTyped, Entry
    <2>6. ClientTyped' /\ CountTyped'
        BY <2>1, <2>2, <2>3, CallTyped
    <2> QED
        BY <2>4, <2>5, <2>6 DEF TInv
<1>4. CASE SendRequest(t)
    <2>1. PICK m : m = Request(Proc[t], client[t].cmd, t)
        OBVIOUS
    <2>2. /\ client[t].pc = "lock"
          /\ client' = [client EXCEPT ![t].pc = "wait"]
          /\ sem' = [sem EXCEPT ![Proc[t]] = t]
          /\ queue' \in {queue, Append(queue, m)}
          /\ UNCHANGED <<mem, slot, file, logFile, log, dirty, quit, overlap, losses,
                         answer, gone, srv, proc, saver, eCount, orphan, ops>>
        BY <1>4, <2>1 DEF SendRequest, Send
    <2>3. m \in Requests
        BY <1>0, <1>1, <2>1, <2>2 DEF ClientTyped, Request, Requests
    <2>4. queue' \in Seq(Requests)
        <3> HIDE DEF Requests
        <3> QED
            BY <1>0, <2>2, <2>3 DEF ServerTyped
    <2>5. FlashTyped' /\ LogTyped'
        BY <1>0, <2>2 DEF FlashTyped, Filled, Buffered, LogTyped
    <2>6. ServerTyped'
        BY <1>0, <2>2, <2>4 DEF ServerTyped, Busy
    <2>7. /\ client' \in [Threads -> Calls]
          /\ client'[t].pc = "wait" /\ client'[t].cmd = client[t].cmd
          /\ \A u \in Threads : u # t => client'[u] = client[u]
        BY <1>0, <2>2 DEF ClientTyped, Calls
    <2>8. ClientTyped'
        BY <1>0, <1>1, <2>2, <2>7 DEF ClientTyped, Entry
    <2>9. \A q : Calling(q)' = Calling(q)
        BY <2>2, <2>7 DEF Calling
    <2>10. CountTyped'
        BY <1>0, <2>2, <2>9 DEF CountTyped
    <2> QED
        BY <2>5, <2>6, <2>8, <2>10 DEF TInv
<1>5. CASE SendFails(t) \/ Receive(t) \/ ReceiveFails(t)
    <2>1. /\ client[t].pc # "idle" /\ client' = [client EXCEPT ![t] = Idle]
          /\ eCount' \in {eCount, [eCount EXCEPT ![Proc[t]] = @ + 1]}
          /\ sem' \in {sem, [sem EXCEPT ![Proc[t]] = None]}
          /\ UNCHANGED <<mem, slot, file, logFile, log, dirty, quit, overlap, losses,
                         queue, gone, srv, proc, saver, orphan, ops>>
        BY <1>5 DEF SendFails, Receive, ReceiveFails, Failed, serverVars
    <2>2. answer' \in [Procs -> Seq(Requests)]
        <3>1. CASE Receive(t)
            <4>1. /\ answer' = [answer EXCEPT ![Proc[t]] = Tail(@)] /\ answer[Proc[t]] # << >>
                  /\ answer \in [Procs -> Seq(Requests)]
                BY <1>0, <3>1 DEF Receive, ServerTyped
            <4>2. Tail(answer[Proc[t]]) \in Seq(Requests)
                BY <1>1, <4>1, HeadTailProperties
            <4> QED
                BY <1>1, <4>1, <4>2
        <3>2. CASE SendFails(t) \/ ReceiveFails(t)
            BY <1>0, <3>2 DEF SendFails, ReceiveFails, serverVars, ServerTyped
        <3> QED
            BY <1>5, <3>1, <3>2
    <2>3. FlashTyped' /\ LogTyped'
        BY <1>0, <2>1 DEF FlashTyped, Filled, Buffered, LogTyped
    <2>4. ServerTyped'
        BY <1>0, <2>1, <2>2 DEF ServerTyped, Busy
    <2>5. ClientTyped'
        BY <1>1, <2>1, IdleTyped
    <2>6. CountTyped'
        BY <2>1, EndTyped
    <2> QED
        BY <2>3, <2>4, <2>5, <2>6 DEF TInv
<1> QED
    BY <1>2, <1>3, <1>4, <1>5

-----------------------------------------------------------------------------
(* The threads of the server.                                              *)

\* A save that starts, by its first step.
LEMMA StartsKeepFlash ==
    ASSUME TInv, NEW w \in Savers, NEW a \in {"start", "open"},
           saver' = [saver EXCEPT ![w].at = a], UNCHANGED <<file, overlap>>,
           mem' \in [Parts -> Written]
    PROVE  FlashTyped'
<1>0. FlashTyped
    BY DEF TInv
<1>1. PICK r : r = [saver[w] EXCEPT !.at = a]
    OBVIOUS
<1>2. r \in Saves /\ r.at # "sys"
    BY <1>0, <1>1 DEF FlashTyped, Saves
<1>3. saver' = [saver EXCEPT ![w] = r]
    BY <1>0, <1>1 DEF FlashTyped
<1>4. saver' \in [Savers -> Saves] /\ saver'[w] = r /\ \A v \in Savers : v # w => saver'[v] = saver[v]
    BY <1>0, <1>2, <1>3 DEF FlashTyped
<1>5. Buffered'
    BY <1>0, <1>2, <1>4 DEF FlashTyped, Buffered
<1> QED
    BY <1>0, <1>4, <1>5 DEF FlashTyped, Filled

LEMMA ProcKeepsTypes ==
    ASSUME TInv, ProcFileThread
    PROVE  TInv'
<1>0. FlashTyped /\ LogTyped /\ ServerTyped /\ ClientTyped /\ CountTyped
    BY DEF TInv
<1>1. UNCHANGED <<mem, slot, file, logFile, log, quit, overlap, losses, queue, answer, gone, srv,
                  client, sem, eCount, orphan, ops>>
    BY DEF ProcFileThread, CheckQuit, FileNeedWrite, FileUpdated, ProcSaved, clientVars
<1>2. dirty' \in BOOLEAN /\ proc' \in {"none", "check", "need", "clear", "save", "exited"}
    BY <1>0 DEF ProcFileThread, CheckQuit, FileNeedWrite, FileUpdated, ProcSaved, ServerTyped
<1>3. LogTyped' /\ ClientTyped'
    BY <1>0, <1>1 DEF LogTyped, ClientTyped
<1>4. ServerTyped'
    BY <1>0, <1>1, <1>2 DEF ServerTyped, Busy
<1>5. CountTyped'
    BY <1>0, <1>1 DEF CountTyped, Calling
<1>6. FlashTyped'
    <2>1. CASE FileUpdated
        <3>1. saver' = [saver EXCEPT !["proc"].at = "start"] /\ "proc" \in Savers
            BY <2>1 DEF FileUpdated, Savers
        <3> QED
            BY <1>0, <1>1, <3>1, StartsKeepFlash DEF FlashTyped
    <2>2. CASE CheckQuit \/ FileNeedWrite
        <3>1. saver' = saver
            BY <2>2 DEF CheckQuit, FileNeedWrite
        <3> QED
            BY <1>0, <1>1, <3>1 DEF FlashTyped, Filled, Buffered
    <2>3. CASE ProcSaved
        <3>1. saver' = [saver EXCEPT !["proc"] = Closed] /\ "proc" \in Savers
            BY <2>3 DEF ProcSaved, Savers
        <3>2. file' \in [Parts -> Stored] /\ Filled'
            BY <1>0, <1>1 DEF FlashTyped, Filled
        <3> QED
            BY <1>1, <3>1, <3>2, ReturnsKeepFlash
    <2> QED
        BY <2>1, <2>2, <2>3 DEF ProcFileThread
<1> QED
    BY <1>3, <1>4, <1>5, <1>6 DEF TInv

\* What ReadGlobal accepts has a value in every part.
LEMMA ReadableIsWritten ==
    ASSUME FlashTyped, ReadGlobal(file)
    PROVE  file \in [Parts -> Written]
<1>1. NParts \in Parts /\ file[NParts] # Gone
    BY NPartsAssumption DEF ReadGlobal, Parts
<1>2. ASSUME NEW q \in Parts PROVE file[q] # Gone
    <2>1. q = NParts \/ q < NParts
        BY NPartsAssumption DEF Parts
    <2> QED
        BY <1>1, <2>1 DEF FlashTyped, Filled
<1> QED
    BY <1>2 DEF FlashTyped, Written

LEMMA LoadLogTyped ==
    ASSUME LogTyped, LoadLog, slot' = slot
    PROVE  LogTyped'
<1>1. Newest(logFile.entries) \in Seq(Entry) /\ << >> \in Seq(Entry)
    BY NewestTyped, EmptySeq DEF LogTyped
<1>2. CASE logFile' = logFile /\ \E n \in 1 .. Len(logFile.entries) :
                log' = Newest(SubSeq(logFile.entries, 1, n - 1))
    <2>1. PICK n \in 1 .. Len(logFile.entries) : log' = Newest(SubSeq(logFile.entries, 1, n - 1))
        BY <1>2
    <2>2. SubSeq(logFile.entries, 1, n - 1) \in Seq(Entry)
        BY <2>1, FrontTyped DEF LogTyped
    <2>3. log' \in Seq(Entry)
        BY <2>1, <2>2, NewestTyped
    <2> QED
        BY <1>2, <2>3 DEF LogTyped
<1>3. CASE log' = << >> /\ \E ok \in BOOLEAN : logFile' = [ok |-> ok, entries |-> << >>]
    BY <1>1, <1>3 DEF LogTyped
<1>4. CASE logFile' = logFile /\ log' = Newest(logFile.entries)
    BY <1>1, <1>4 DEF LogTyped
<1> QED
    BY <1>2, <1>3, <1>4 DEF LoadLog

\* The thread at its start: srv.msg stays.
LEMMA BootKeepsTypes ==
    ASSUME TInv, Boot \/ BootWithDefaults \/ DefaultsWritten
    PROVE  TInv'
<1>0. FlashTyped /\ LogTyped /\ ServerTyped /\ ClientTyped /\ CountTyped
    BY DEF TInv
<1>1. /\ UNCHANGED <<slot, file, dirty, quit, overlap, losses, queue, answer, gone,
                     client, sem, eCount, orphan, ops>>
      /\ srv' \in {[srv EXCEPT !.pc = "recv"], [srv EXCEPT !.pc = "init"]}
      /\ proc' \in {proc, "check"}
    BY DEF Boot, BootWithDefaults, DefaultsWritten, clientVars
<1>2. ClientTyped'
    BY <1>0, <1>1 DEF ClientTyped
<1>3. CountTyped'
    BY <1>0, <1>1 DEF CountTyped, Calling
<1>4. ServerTyped'
    <2>1. srv'.pc \in {"recv", "init"} /\ srv'.msg = srv.msg
          /\ srv' \in [pc : {"boot", "init", "recv", "serve", "save", "reset", "reply",
                             "exit", "down", "failed"},
                       msg : Requests \union {None}]
        <3> HIDE DEF Requests
        <3> QED
            BY <1>0, <1>1 DEF ServerTyped
    <2> QED
        BY <1>0, <1>1, <2>1 DEF ServerTyped, Busy
<1>5. LogTyped'
    <2>1. CASE BootWithDefaults
        BY <1>0, <1>1, <2>1 DEF BootWithDefaults, LogTyped
    <2>2. CASE Boot \/ DefaultsWritten
        <3>1. LoadLog
            BY <2>2 DEF Boot, DefaultsWritten
        <3> QED
            BY <1>0, <1>1, <3>1, LoadLogTyped
    <2> QED
        BY <2>1, <2>2
<1>6. FlashTyped'
    <2>1. CASE BootWithDefaults
        <3>1. saver' = [saver EXCEPT !["msg"].at = "open"] /\ "msg" \in Savers /\ mem' = mem
            BY <2>1 DEF BootWithDefaults, Savers
        <3> QED
            BY <1>0, <1>1, <3>1, StartsKeepFlash DEF FlashTyped
    <2>2. CASE Boot \/ DefaultsWritten
        <3>1. mem' \in [Parts -> Written] /\ saver' = saver
            <4>1. SysInfoDefault \in [Parts -> Written]
                BY GoneIsNoValue DEF SysInfoDefault
            <4> QED
                BY <1>0, <2>2, <4>1, ReadableIsWritten DEF Boot, DefaultsWritten
        <3> QED
            BY <1>0, <1>1, <3>1 DEF FlashTyped, Filled, Buffered
    <2> QED
        BY <2>1, <2>2
<1> QED
    BY <1>2, <1>3, <1>4, <1>5, <1>6 DEF TInv

ServerPcs == {"boot", "init", "recv", "serve", "save", "reset", "reply", "exit", "down",
              "failed"}

\* The thread at a request.
LEMMA ServeKeepsTypes ==
    ASSUME TInv,
           \/ ServeRead \/ ServeReadLog \/ ServeWrite \/ ServeWriteLog \/ SaveWritten
           \/ ServeWriteNow \/ ServeReset \/ ResetWritten
    PROVE  TInv'
<1>0. FlashTyped /\ LogTyped /\ ServerTyped /\ ClientTyped /\ CountTyped
    BY DEF TInv
<1>1. /\ UNCHANGED <<file, logFile, quit, overlap, losses, queue, answer, gone, proc,
                     client, sem, eCount, orphan, ops>>
      /\ dirty' \in BOOLEAN /\ Busy
    BY <1>0 DEF ServeRead, ServeReadLog, ServeWrite, ServeWriteLog, SaveWritten, ServeWriteNow,
                ServeReset, ResetWritten, StartSave, Serving, Busy, clientVars, ServerTyped
<1>2. ClientTyped'
    BY <1>0, <1>1 DEF ClientTyped
<1>3. CountTyped'
    BY <1>0, <1>1 DEF CountTyped, Calling
<1>4. srv.msg \in Requests
    BY <1>0, <1>1 DEF ServerTyped
<1>5. srv' \in [pc : ServerPcs, msg : Requests]
    <2>1. CASE ServeRead \/ ServeReadLog \/ ServeWrite \/ ServeWriteLog \/ SaveWritten
        <3>1. PICK ok \in BOOLEAN : Served(ok)
            <4>1. CASE ServeReadLog
                <5>1. PICK i \in 1 .. MaxLog : Served(i <= Len(log))
                    BY <4>1 DEF ServeReadLog
                <5>2. CASE i <= Len(log)
                    <6>1. (i <= Len(log)) = TRUE
                        BY <5>2
                    <6> QED
                        BY <5>1, <6>1
                <5>3. CASE ~ (i <= Len(log))
                    <6>1. (i <= Len(log)) = FALSE
                        BY <5>3
                    <6> QED
                        BY <5>1, <6>1
                <5> QED
                    BY <5>2, <5>3
            <4> QED
                BY <2>1, <4>1 DEF ServeRead, ServeWrite, ServeWriteLog, SaveWritten
        <3>2. [srv.msg EXCEPT !.ok = ok] \in Requests
            BY <1>4 DEF Requests
        <3> QED
            BY <3>1, <3>2 DEF Served, ServerPcs
    <2>2. CASE ServeWriteNow \/ ServeReset \/ ResetWritten
        <3>1. srv' \in {[srv EXCEPT !.pc = "save"], [srv EXCEPT !.pc = "reset"]}
            BY <2>2 DEF ServeWriteNow, ServeReset, ResetWritten, StartSave
        <3> HIDE DEF Requests
        <3> QED
            BY <1>0, <1>4, <3>1 DEF ServerTyped, ServerPcs
    <2> QED
        BY <2>1, <2>2
<1>6. ServerTyped'
    <2>1. srv'.msg \in Requests /\ srv' \in [pc : ServerPcs, msg : Requests \union {None}]
        <3> HIDE DEF Requests
        <3> QED
            BY <1>5
    <2> QED
        BY <1>0, <1>1, <2>1 DEF ServerTyped, Busy, ServerPcs
<1>7. LogTyped'
    <2>1. CASE ServeReadLog
        <3>1. PICK i \in 1 .. MaxLog : slot' = IF i <= Len(log) THEN log[i] ELSE slot
            BY <2>1 DEF ServeReadLog
        <3>2. log' = log
            BY <2>1 DEF ServeReadLog
        <3>3. slot' \in Entry
            <4>1. CASE i <= Len(log)
                <5>1. Len(log) \in Nat /\ i \in 1 .. Len(log)
                    BY <1>0, <4>1, LenProperties DEF LogTyped
                <5>2. log[i] \in Entry
                    BY <1>0, <5>1, ElementOfSeq DEF LogTyped
                <5> QED
                    BY <3>1, <4>1, <5>2
            <4> QED
                BY <1>0, <3>1, <4>1 DEF LogTyped
        <3> QED
            BY <1>0, <1>1, <3>2, <3>3 DEF LogTyped
    <2>2. CASE ServeWriteLog
        <3>1. log' = <<slot>> \o log /\ slot' = slot
            BY <2>2 DEF ServeWriteLog
        <3>2. <<slot>> \in Seq(Entry) /\ log \in Seq(Entry)
            BY <1>0 DEF LogTyped
        <3>3. log' \in Seq(Entry)
            BY <3>1, <3>2, ConcatProperties
        <3> QED
            BY <1>0, <1>1, <3>1, <3>3 DEF LogTyped
    <2>3. CASE ~ ServeReadLog /\ ~ ServeWriteLog
        <3>1. UNCHANGED <<slot, log>>
            BY <2>3 DEF ServeRead, ServeWrite, SaveWritten, ServeWriteNow, ServeReset, ResetWritten
        <3> QED
            BY <1>0, <1>1, <3>1 DEF LogTyped
    <2> QED
        BY <2>1, <2>2, <2>3
<1>8. FlashTyped'
    <2>1. CASE ServeRead \/ ServeReadLog \/ ServeWrite \/ ServeWriteLog
        <3>1. UNCHANGED <<mem, saver>>
            BY <2>1 DEF ServeRead, ServeReadLog, ServeWrite, ServeWriteLog
        <3> QED
            BY <1>0, <1>1, <3>1 DEF FlashTyped, Filled, Buffered
    <2>2. CASE ServeWriteNow \/ ServeReset \/ ResetWritten
        <3>1. \E a \in {"start", "open"} : saver' = [saver EXCEPT !["msg"].at = a]
            BY <2>2 DEF ServeWriteNow, ServeReset, ResetWritten, StartSave
        <3>2. mem' \in [Parts -> Written]
            <4>1. SysInfoDefault \in [Parts -> Written]
                BY GoneIsNoValue DEF SysInfoDefault
            <4> QED
                BY <1>0, <2>2, <4>1 DEF ServeWriteNow, ServeReset, ResetWritten, FlashTyped
        <3>3. "msg" \in Savers
            BY DEF Savers
        <3> QED
            BY <1>1, <3>1, <3>2, <3>3, StartsKeepFlash
    <2>3. CASE SaveWritten
        <3>1. saver' = [saver EXCEPT !["msg"] = Closed] /\ "msg" \in Savers /\ mem' = mem
            BY <2>3 DEF SaveWritten, Savers
        <3>2. file' \in [Parts -> Stored] /\ Filled'
            BY <1>0, <1>1 DEF FlashTyped, Filled
        <3> QED
            BY <1>1, <3>1, <3>2, ReturnsKeepFlash
    <2> QED
        BY <2>1, <2>2, <2>3
<1> QED
    BY <1>2, <1>3, <1>6, <1>7, <1>8 DEF TInv

\* Requests and answers go, and the thread ends.
LEMMA MailKeepsTypes ==
    ASSUME TInv, TakeRequest \/ Reply \/ ServeQuit \/ CleanupFileEnv
    PROVE  TInv'
<1>0. FlashTyped /\ LogTyped /\ ServerTyped /\ ClientTyped /\ CountTyped
    BY DEF TInv
<1>1. UNCHANGED <<mem, slot, file, logFile, dirty, overlap, losses, proc, saver,
                  client, sem, eCount, orphan, ops>>
    BY DEF TakeRequest, Reply, ServeQuit, CleanupFileEnv, clientVars
<1>2. FlashTyped' /\ ClientTyped'
    BY <1>0, <1>1 DEF FlashTyped, Filled, Buffered, ClientTyped
<1>3. CountTyped'
    BY <1>0, <1>1 DEF CountTyped, Calling
<1>4. LogTyped'
    <2>1. log' \in {log, << >>} /\ << >> \in Seq(Entry)
        BY EmptySeq DEF TakeRequest, Reply, ServeQuit, CleanupFileEnv
    <2> QED
        BY <1>0, <1>1, <2>1 DEF LogTyped
<1> HIDE DEF Requests
<1>5. CASE TakeRequest
    <2>1. /\ srv' = [pc |-> "serve", msg |-> Head(queue)] /\ queue' = Tail(queue) /\ queue # << >>
          /\ UNCHANGED <<quit, answer, gone>>
        BY <1>5 DEF TakeRequest
    <2>2. Head(queue) \in Requests /\ Tail(queue) \in Seq(Requests)
        BY <1>0, <2>1, HeadTailProperties DEF ServerTyped
    <2> QED
        BY <1>0, <1>1, <1>2, <1>3, <1>4, <2>1, <2>2 DEF ServerTyped, Busy, TInv
<1>6. CASE Reply
    <2>1. /\ srv.pc = "reply" /\ srv' = [pc |-> "recv", msg |-> None]
          /\ answer' = [answer EXCEPT ![srv.msg.src] = Append(@, srv.msg)]
          /\ UNCHANGED <<quit, queue, gone>>
        BY <1>6 DEF Reply
    <2>2. srv.msg \in Requests /\ answer \in [Procs -> Seq(Requests)]
        BY <1>0, <2>1 DEF ServerTyped, Busy
    <2>3. answer' \in [Procs -> Seq(Requests)]
        <3>1. PICK p, m : p = srv.msg.src /\ m = srv.msg
            OBVIOUS
        <3>2. p \in Procs => Append(answer[p], m) \in Seq(Requests)
            BY <2>2, <3>1, AppendProperties
        <3> QED
            BY <2>1, <2>2, <3>1, <3>2
    <2> QED
        BY <1>0, <1>1, <1>2, <1>3, <1>4, <2>1, <2>3 DEF ServerTyped, Busy, TInv
<1>7. CASE ServeQuit
    <2>1. /\ srv' = [pc |-> "exit", msg |-> None] /\ quit' = TRUE
          /\ UNCHANGED <<queue, answer, gone>>
        BY <1>7 DEF ServeQuit
    <2> QED
        BY <1>0, <1>1, <1>2, <1>3, <1>4, <2>1 DEF ServerTyped, Busy, TInv
<1>8. CASE CleanupFileEnv
    <2>1. /\ srv' = [srv EXCEPT !.pc = "down"] /\ quit' = quit /\ gone' = TRUE
          /\ queue' = << >> /\ answer' = [p \in Procs |-> << >>]
        BY <1>8 DEF CleanupFileEnv, Msg_Kill
    <2>2. << >> \in Seq(Requests)
        BY EmptySeq
    <2>3. answer' \in [Procs -> Seq(Requests)]
        BY <2>1, <2>2
    <2>4. srv'.pc = "down" /\ srv' \in [pc : ServerPcs, msg : Requests \union {None}]
        BY <1>0, <2>1 DEF ServerTyped, ServerPcs
    <2> QED
        BY <1>0, <1>1, <1>2, <1>3, <1>4, <2>1, <2>2, <2>3, <2>4 DEF ServerTyped, Busy, TInv, ServerPcs
<1> QED
    BY <1>5, <1>6, <1>7, <1>8

\* The server that does not start.
LEMMA NoStartKeepsTypes ==
    ASSUME TInv, DefaultsFail \/ EmptyLogFails
    PROVE  TInv'
<1>0. FlashTyped /\ LogTyped /\ ServerTyped /\ ClientTyped /\ CountTyped
    BY DEF TInv
<1>1. /\ UNCHANGED <<mem, slot, file, logFile, log, dirty, quit, overlap, losses, proc,
                     client, sem, eCount, orphan, ops>>
      /\ srv' = [srv EXCEPT !.pc = "failed"] /\ srv.pc \in {"boot", "init"}
      /\ gone' = TRUE /\ queue' = << >> /\ answer' = [p \in Procs |-> << >>]
    BY DEF DefaultsFail, EmptyLogFails, Msg_Kill, clientVars
<1>2. LogTyped' /\ ClientTyped'
    BY <1>0, <1>1 DEF LogTyped, ClientTyped
<1>3. CountTyped'
    BY <1>0, <1>1 DEF CountTyped, Calling
<1>4. ServerTyped'
    <2>1. << >> \in Seq(Requests)
        BY EmptySeq
    <2> HIDE DEF Requests
    <2>2. srv'.pc = "failed" /\ srv' \in [pc : ServerPcs, msg : Requests \union {None}]
        BY <1>0, <1>1 DEF ServerTyped, ServerPcs
    <2>3. answer' \in [Procs -> Seq(Requests)]
        BY <1>1, <2>1
    <2> QED
        BY <1>0, <1>1, <2>1, <2>2, <2>3 DEF ServerTyped, Busy, ServerPcs
<1>5. FlashTyped'
    <2>1. file' \in [Parts -> Stored] /\ Filled' /\ "msg" \in Savers
        BY <1>0, <1>1 DEF FlashTyped, Filled, Savers
    <2>2. CASE DefaultsFail
        BY <1>1, <2>1, <2>2, ReturnsKeepFlash DEF DefaultsFail
    <2>3. CASE EmptyLogFails
        BY <1>0, <1>1, <2>3 DEF EmptyLogFails, FlashTyped, Filled, Buffered
    <2> QED
        BY <2>2, <2>3
<1> QED
    BY <1>2, <1>3, <1>4, <1>5 DEF TInv

LEMMA QuitKeepsTypes ==
    ASSUME TInv, SendFileQuitCmd
    PROVE  TInv'
<1>0. FlashTyped /\ LogTyped /\ ServerTyped /\ ClientTyped /\ CountTyped
    BY DEF TInv
<1>1. /\ queue' = Append(queue, QuitRequest) /\ ops' = ops + 1 /\ ops < MaxOps
      /\ UNCHANGED <<mem, slot, file, logFile, log, dirty, quit, overlap, losses,
                     answer, gone, srv, proc, saver, client, sem, eCount, orphan>>
    BY DEF SendFileQuitCmd
<1>2. QuitRequest \in Requests
    BY DEF QuitRequest, Request, Requests, Commands
<1>3. queue' \in Seq(Requests)
    <2> HIDE DEF Requests
    <2> QED
        BY <1>0, <1>1, <1>2, AppendProperties DEF ServerTyped
<1>4. FlashTyped' /\ LogTyped' /\ ClientTyped'
    BY <1>0, <1>1 DEF FlashTyped, Filled, Buffered, LogTyped, ClientTyped
<1>5. ServerTyped'
    BY <1>0, <1>1, <1>3 DEF ServerTyped, Busy
<1>6. ops \in Nat /\ ops' \in 0 .. MaxOps /\ ops' = ops + 1
    BY <1>0, <1>1, BoundsAssumption DEF CountTyped
<1>7. ASSUME NEW p \in Procs
      PROVE  IsFiniteSet(Calling(p)') /\ eCount'[p] + Cardinality(Calling(p)') <= ops'
    <2>1. PICK c : c = Calling(p) /\ c = Calling(p)'
        BY <1>1 DEF Calling
    <2>2. IsFiniteSet(c) /\ Cardinality(c) \in Nat /\ eCount[p] \in Nat /\ eCount[p] + Cardinality(c) <= ops
        BY <1>0, <2>1, FS_CardinalityType DEF CountTyped
    <2> QED
        BY <1>1, <1>6, <2>1, <2>2
<1>8. CountTyped'
    BY <1>0, <1>1, <1>6, <1>7 DEF CountTyped
<1> QED
    BY <1>4, <1>5, <1>8 DEF TInv

\* The state the camera starts in, after whatever it was doing.
JustOn ==
    /\ mem = [k \in Parts |-> Zero] /\ slot = None
    /\ file \in [Parts -> Stored] /\ Filled /\ overlap \in BOOLEAN
    /\ logFile \in [ok : BOOLEAN, entries : Seq(Entry)] /\ log = << >>
    /\ dirty = FALSE /\ quit = FALSE /\ gone = FALSE
    /\ queue = << >> /\ answer = [p \in Procs |-> << >>]
    /\ srv = [pc |-> "boot", msg |-> None] /\ proc = "none"
    /\ saver = [w \in Savers |-> Closed]
    /\ client = [t \in Threads |-> Idle] /\ sem = [p \in Procs |-> None]
    /\ eCount = [p \in Procs |-> 0] /\ orphan = [p \in Procs |-> FALSE]
    /\ ops \in 0 .. MaxOps /\ losses \in 0 .. MaxLosses

LEMMA JustOnTyped == JustOn => TInv
<1> SUFFICES ASSUME JustOn PROVE TInv
    OBVIOUS
<1>1. << >> \in Seq(Entry) /\ << >> \in Seq(Requests)
    BY EmptySeq
<1>2. Closed \in Saves /\ Closed.at = "closed"
    <2>1. 1 \in 1 .. NParts + 1
        BY NPartsAssumption
    <2> QED
        BY <1>1, <2>1 DEF Closed, Saves
<1>3. FlashTyped
    BY <1>2, GoneIsNoValue DEF JustOn, FlashTyped, Buffered
<1>4. LogTyped
    BY <1>1 DEF JustOn, LogTyped, Entry
<1>5. ServerTyped
    <2> HIDE DEF Requests
    <2> QED
        BY <1>1 DEF JustOn, ServerTyped, Busy
<1>6. ClientTyped
    BY DEF JustOn, ClientTyped, Idle, Calls, Entry
<1>7. CountTyped
    <2>1. ASSUME NEW p \in Procs
          PROVE  IsFiniteSet(Calling(p)) /\ eCount[p] + Cardinality(Calling(p)) <= ops
        <3>1. Calling(p) = {} /\ eCount[p] = 0
            BY DEF JustOn, Calling, Idle
        <3>2. IsFiniteSet(Calling(p)) /\ Cardinality(Calling(p)) = 0
            BY <3>1, FS_EmptySet
        <3> QED
            BY <3>1, <3>2, BoundsAssumption DEF JustOn
    <2>2. eCount \in [Procs -> Nat] /\ orphan \in [Procs -> BOOLEAN]
        BY DEF JustOn
    <2> QED
        BY <2>1, <2>2 DEF JustOn, CountTyped
<1> QED
    BY <1>3, <1>4, <1>5, <1>6, <1>7 DEF TInv

LEMMA JustOnTypedNext == JustOn' => TInv'
BY JustOnTyped, PTL

THEOREM TypesInvariant == Spec => []TInv
<1>1. Init => TInv
    <2> SUFFICES ASSUME Init PROVE JustOn
        BY JustOnTyped
    <2>1. file \in [Parts -> Stored] /\ Filled
        BY DEF Init, EmptyFile, Stored, Filled
    <2>2. logFile \in [ok : BOOLEAN, entries : Seq(Entry)]
        BY EmptySeq DEF Init
    <2> QED
        <3>1. ops \in 0 .. MaxOps /\ losses \in 0 .. MaxLosses
            BY BoundsAssumption DEF Init
        <3> QED
            BY <2>1, <2>2, <3>1 DEF Init, JustOn
<1>2. TInv /\ [Next]_vars => TInv'
    <2> SUFFICES ASSUME TInv, [Next]_vars PROVE TInv'
        OBVIOUS
    <2>1. CASE UNCHANGED vars
        BY <2>1 DEF vars, serverVars, clientVars, TInv, FlashTyped, Filled, Buffered, LogTyped,
                    ServerTyped, Busy, ClientTyped, CountTyped, Calling
    <2>2. CASE PowerLoss
        <3>1. Filled' /\ file' \in [Parts -> Stored]
            BY <2>2 DEF PowerLoss, TInv, FlashTyped, Filled
        <3>2. losses' \in 0 .. MaxLosses
            BY <2>2, BoundsAssumption DEF PowerLoss, TInv, CountTyped
        <3>3. JustOn'
            BY <2>2, <3>1, <3>2 DEF PowerLoss, JustOn, TInv, FlashTyped, LogTyped, CountTyped
        <3> QED
            BY <3>3, JustOnTypedNext
    <2>3. CASE FileMsgThread
        BY <2>3, BootKeepsTypes, ServeKeepsTypes, MailKeepsTypes, NoStartKeepsTypes
        DEF FileMsgThread
    <2>4. CASE EmptyLogFails
        BY <2>4, NoStartKeepsTypes
    <2> QED
        BY <2>1, <2>2, <2>3, <2>4, ClientsKeepTypes, QuitKeepsTypes, SaverKeepsTypes,
           FailuresKeepTypes, ProcKeepsTypes DEF Next
<1> QED
    BY <1>1, <1>2, PTL DEF Spec

\* An operation of the flash is refused, or none is.
LEMMA StepsRefuse ==
    ASSUME FInv, [Next]_vars
    PROVE  FInv'
<1>1. SUFFICES /\ lost' \in {lost, TRUE, FALSE}
               /\ errors' = errors \/ Error
    <2>1. errors' \in 0 .. MaxErrors
        BY <1>1, BoundsAssumption DEF FInv, Error
    <2> QED
        BY <1>1, <2>1 DEF FInv
<1>2. CASE \/ UNCHANGED vars \/ SendFileQuitCmd \/ PowerLoss
           \/ \E t \in Threads : \/ SetField(t) \/ SetSysLog(t) \/ Ask(t)
                                 \/ SendRequest(t) \/ SendFails(t)
                                 \/ Receive(t) \/ ReceiveFails(t)
    BY <1>2 DEF vars, SendFileQuitCmd, PowerLoss, SetField, SetSysLog, Ask, SendRequest, Send,
       SendFails, Receive, ReceiveFails
<1>3. CASE ProcFileThread
    BY <1>3 DEF ProcFileThread, CheckQuit, FileNeedWrite, FileUpdated, ProcSaved
<1>4. CASE \E w \in Savers : SaverStep(w) \/ SaverFails(w)
    BY <1>4 DEF SaverStep, CreateLog, CloseLog, CreateSys, WriteSys, CloseSys,
       SaverFails, LogFails, SysFails, CloseSysFails
<1>5. CASE Boot \/ BootWithDefaults \/ DefaultsWritten \/ DefaultsFail \/ EmptyLogFails
    BY <1>5 DEF Boot, BootWithDefaults, DefaultsWritten, DefaultsFail, EmptyLogFails, LoadLog
<1>6. CASE \/ TakeRequest \/ ServeRead \/ ServeReadLog \/ ServeWrite \/ ServeWriteLog
           \/ ServeWriteNow \/ ServeReset \/ ResetWritten \/ SaveWritten
           \/ Reply \/ ServeQuit \/ CleanupFileEnv
    BY <1>6 DEF TakeRequest, ServeRead, ServeReadLog, ServeWrite, ServeWriteLog, ServeWriteNow,
       ServeReset, ResetWritten, SaveWritten, Reply, ServeQuit, CleanupFileEnv
<1> QED
    BY <1>2, <1>3, <1>4, <1>5, <1>6 DEF Next, FileMsgThread

LEMMA FailuresInvariant == Spec => []FInv
<1>1. Init => FInv
    <2>1. 0 \in 0 .. MaxErrors
        BY BoundsAssumption
    <2> QED
        BY <2>1, ZenonT(30) DEF Init, FInv
<1> QED
    BY <1>1, StepsRefuse, PTL DEF Spec

\* Every variable has its type: no file is read back with a hole in it, every
\* request has a command, and no process counts more failures than calls.
THEOREM TypesKept == Spec => []TypeOK
BY TypesInvariant, FailuresInvariant, TypedIsTypeOK, PTL

-----------------------------------------------------------------------------
(* What memory has and the file has not.                                   *)

\* Once the server has ended, or could not start, nothing is promised any more;
\* only then is a process left with a queue of its own.
Ended ==
    /\ (gone /\ srv.pc # "failed") \/ srv.pc \in {"exit", "down"} => quit
    /\ \A p \in Procs : orphan[p] => gone

\* The save of the defaults at the start, part by part, unless it fails.
DefaultsFirst ==
    srv.pc = "init" /\ ~ overlap =>
        LET s == saver["msg"] IN
        \/ s.at = "open"
        \/ /\ s.at = "sys"
           /\ \A q \in Parts : q < s.pos /\ q < NParts => file[q] = Default
           /\ s.pos > NParts => s.tail = Default
        \/ s.at = "closed" /\ (file = SysInfoDefault \/ lost)
        \/ s.at = "failed"

SInv == UnsavedWillBeSaved /\ Ended /\ DefaultsFirst

\* What keeps a part of SysInfo safe.
Safe(k) == dirty \/ OnTheWay(k) \/ \E w \in Savers : WillBeWritten(w, k)

AllSafe ==
    Up /\ ~ quit /\ ~ overlap /\ ~ lost => \A k \in Parts : file[k] # mem[k] => Safe(k)

LEMMA SafeMeans == UnsavedWillBeSaved <=> AllSafe
BY DEF UnsavedWillBeSaved, AllSafe, Safe

LEMMA SafeMeansNext == UnsavedWillBeSaved' <=> AllSafe'
BY SafeMeans, PTL

LEMMA AppendKeeps ==
    ASSUME NEW S, NEW s \in Seq(S), NEW m
    PROVE  /\ \A i \in DOMAIN s : i \in DOMAIN Append(s, m) /\ Append(s, m)[i] = s[i]
           /\ \E i \in DOMAIN Append(s, m) : Append(s, m)[i] = m
<1>1. PICK T : T = S \union {m}
    OBVIOUS
<1>2. s \in Seq(T) /\ m \in T
    BY <1>1, SeqMonotonic
<1>3. PICK r : r = Append(s, m)
    OBVIOUS
<1>4. /\ r \in Seq(T) /\ Len(r) = Len(s) + 1 /\ r[Len(s) + 1] = m
      /\ \A i \in 1 .. Len(s) : r[i] = s[i]
    BY <1>2, <1>3, AppendProperties
<1>5. Len(s) \in Nat /\ DOMAIN s = 1 .. Len(s) /\ DOMAIN r = 1 .. Len(r)
    BY <1>2, <1>4, LenProperties
<1>6. /\ \A i \in DOMAIN s : i \in DOMAIN r /\ r[i] = s[i]
      /\ Len(s) + 1 \in DOMAIN r
    BY <1>4, <1>5
<1> QED
    BY <1>3, <1>4, <1>6

\* A thread's call.
LEMMA ClientsKeepSafe ==
    ASSUME SInv, TInv, NEW t \in Threads,
           \/ SetField(t) \/ SetSysLog(t) \/ Ask(t) \/ SendRequest(t) \/ SendFails(t)
           \/ Receive(t) \/ ReceiveFails(t)
    PROVE  SInv'
<1>0. /\ client \in [Threads -> Calls] /\ mem \in [Parts -> Written]
      /\ queue \in Seq(Requests) /\ Proc[t] \in Procs
    BY DEF TInv, ClientTyped, FlashTyped, ServerTyped, Procs
<1>1. UNCHANGED <<file, dirty, quit, overlap, lost, gone, srv, proc, saver>>
    BY DEF SetField, SetSysLog, Ask, SendRequest, Send, SendFails, Receive, ReceiveFails, serverVars
<1>2. DefaultsFirst'
    BY <1>1 DEF SInv, DefaultsFirst
<1>3. Ended'
    <2>1. orphan' = orphan \/ (gone /\ orphan' = [orphan EXCEPT ![Proc[t]] = TRUE])
        BY DEF SetField, SetSysLog, Ask, Call, SendRequest, Send, SendFails, Receive, ReceiveFails
    <2> QED
        BY <1>1, <2>1 DEF SInv, Ended
<1>4. ASSUME Up', ~ quit', ~ overlap', ~ lost', NEW k \in Parts, file'[k] # mem'[k]
      PROVE  Safe(k)'
    <2>1. Up /\ ~ quit /\ ~ overlap /\ ~ lost /\ ~ gone /\ ~ orphan[Proc[t]]
        BY <1>0, <1>1, <1>4 DEF Up, SInv, Ended
    <2>2. CASE SetField(t) /\ client'[t].part = k
        <3>1. client'[t].pc = "lock"
            BY <1>0, <2>2 DEF SetField, Call
        <3> QED
            BY <2>2, <3>1 DEF Safe, OnTheWay
    <2>3. CASE ~ (SetField(t) /\ client'[t].part = k)
        <3>1. mem'[k] = mem[k]
            <4>1. CASE SetField(t)
                <5>1. PICK j \in Parts, v \in Values, cmd \in {"WRITE", "WRITE_I"} :
                          Call(t, cmd, j) /\ mem' = [mem EXCEPT ![j] = v]
                    BY <4>1 DEF SetField
                <5>2. client'[t].part = j
                    BY <1>0, <5>1 DEF Call
                <5> QED
                    BY <1>0, <2>3, <4>1, <5>1, <5>2
            <4>2. CASE ~ SetField(t)
                BY <4>2 DEF SetSysLog, Ask, SendRequest, Send, SendFails, Receive, ReceiveFails
            <4> QED
                BY <4>1, <4>2
        <3>2. Safe(k)
            BY <1>1, <1>4, <2>1, <3>1, SafeMeans DEF SInv, AllSafe
        <3>3. CASE dirty
            BY <1>1, <3>3 DEF Safe
        <3>4. CASE \E w \in Savers : WillBeWritten(w, k)
            <4>1. \E w \in Savers : WillBeWritten(w, k)'
                BY <1>1, <3>1, <3>4 DEF WillBeWritten
            <4> QED
                BY <4>1 DEF Safe
        <3>5. CASE OnTheWay(k)
            <4>1. CASE srv.pc = "serve" /\ srv.msg.cmd \in Saving
                BY <1>1, <4>1 DEF Safe, OnTheWay
            <4>2. CASE \E i \in DOMAIN queue : queue[i].cmd \in Saving
                <5>1. queue' = queue \/ \E m : queue' = Append(queue, m)
                    BY DEF SetField, SetSysLog, Ask, SendRequest, Send, SendFails, Receive,
                           ReceiveFails, serverVars
                <5>2. \A i \in DOMAIN queue : i \in DOMAIN queue' /\ queue'[i] = queue[i]
                    BY <1>0, <5>1, AppendKeeps
                <5> QED
                    BY <4>2, <5>2 DEF Safe, OnTheWay
            <4>3. ASSUME NEW u \in Threads, client[u].pc = "lock", client[u].part = k
                  PROVE  Safe(k)'
                <5>1. CASE u # t
                    <6>1. client'[u] = client[u]
                        BY <1>0, <5>1 DEF SetField, SetSysLog, Ask, Call, SendRequest, Send, SendFails,
                                          Receive, ReceiveFails
                    <6> QED
                        BY <4>3, <6>1 DEF Safe, OnTheWay
                <5>2. CASE u = t
                    <6>1. SendRequest(t)
                        BY <2>1, <4>3, <5>2 DEF SetField, SetSysLog, Ask, Call, SendFails, Receive,
                                                ReceiveFails
                    <6>2. PICK m : m = Request(Proc[t], client[t].cmd, t)
                        OBVIOUS
                    <6>3. queue' = Append(queue, m) /\ m.cmd = client[t].cmd
                        BY <2>1, <6>1, <6>2 DEF SendRequest, Send, Request
                    <6>4. k # 0
                        BY DEF Parts
                    <6>5. m.cmd \in Saving
                        BY <4>3, <5>2, <6>3, <6>4 DEF TInv, ClientTyped, Saving
                    <6>6. \E i \in DOMAIN queue' : queue'[i] = m
                        BY <1>0, <6>3, AppendKeeps
                    <6> QED
                        BY <6>5, <6>6 DEF Safe, OnTheWay
                <5> QED
                    BY <5>1, <5>2
            <4> QED
                BY <3>5, <4>1, <4>2, <4>3 DEF OnTheWay
        <3> QED
            BY <3>2, <3>3, <3>4, <3>5 DEF Safe
    <2> QED
        BY <2>2, <2>3
<1> QED
    BY <1>2, <1>3, <1>4, SafeMeansNext DEF SInv, AllSafe

LEMMA QuitKeepsSafe ==
    ASSUME SInv, TInv, SendFileQuitCmd
    PROVE  SInv'
<1>1. /\ queue' = Append(queue, QuitRequest) /\ queue \in Seq(Requests)
      /\ UNCHANGED <<mem, file, dirty, quit, overlap, lost, gone, srv, proc, saver, client, orphan>>
    BY DEF SendFileQuitCmd, TInv, ServerTyped
<1>2. \A i \in DOMAIN queue : i \in DOMAIN queue' /\ queue'[i] = queue[i]
    BY <1>1, AppendKeeps
<1>3. ASSUME NEW k \in Parts, Safe(k) PROVE Safe(k)'
    <2>1. OnTheWay(k) => OnTheWay(k)'
        BY <1>1, <1>2 DEF OnTheWay
    <2>2. ASSUME NEW w \in Savers, WillBeWritten(w, k) PROVE WillBeWritten(w, k)'
        BY <1>1, <2>2 DEF WillBeWritten
    <2> QED
        BY <1>1, <1>3, <2>1, <2>2 DEF Safe
<1>4. UnsavedWillBeSaved'
    <2>1. Up' = Up
        BY <1>1 DEF Up
    <2> QED
        BY <1>1, <1>3, <2>1, SafeMeans, SafeMeansNext DEF SInv, AllSafe
<1>5. Ended' /\ DefaultsFirst'
    BY <1>1 DEF SInv, Ended, DefaultsFirst
<1> QED
    BY <1>4, <1>5 DEF SInv

\* What keeps what is safe safe while no file is written.
LEMMA KeptSafe ==
    ASSUME SInv, Up, UNCHANGED <<mem, file, quit, overlap, lost>>,
           \A k \in Parts : Safe(k) => Safe(k)'
    PROVE  UnsavedWillBeSaved'
BY SafeMeans, SafeMeansNext DEF SInv, AllSafe

LEMMA ProcKeepsSafe ==
    ASSUME SInv, WInv, ProcFileThread
    PROVE  SInv'
<1>1. /\ UNCHANGED <<mem, file, quit, overlap, lost, queue, srv, client, gone, orphan>>
      /\ Up /\ saver'["msg"] = saver["msg"]
    BY DEF ProcFileThread, CheckQuit, FileNeedWrite, FileUpdated, ProcSaved, clientVars,
           WInv, SaversKnown, Shapes, SaverShape, Savers
<1>2. Ended' /\ DefaultsFirst'
    BY <1>1 DEF SInv, Ended, DefaultsFirst
<1>3. ASSUME NEW k \in Parts, Safe(k) PROVE Safe(k)'
    <2>1. OnTheWay(k)' = OnTheWay(k)
        BY <1>1 DEF OnTheWay
    <2>2. WillBeWritten("msg", k)' = WillBeWritten("msg", k)
        BY <1>1 DEF WillBeWritten
    <2>3. CASE FileUpdated
        <3>1. saver'["proc"].at = "start"
            BY <2>3 DEF FileUpdated, WInv, Shapes, SaverShape, Savers, Fields
        <3> QED
            BY <3>1 DEF Safe, WillBeWritten, Savers
    <2>4. CASE CheckQuit \/ FileNeedWrite
        <3>1. UNCHANGED <<dirty, saver>>
            BY <2>4 DEF CheckQuit, FileNeedWrite
        <3>2. WillBeWritten("proc", k) => WillBeWritten("proc", k)'
            BY <1>1, <2>4, <3>1 DEF WillBeWritten, CheckQuit, FileNeedWrite
        <3> QED
            BY <1>3, <2>1, <2>2, <3>1, <3>2 DEF Safe, Savers
    <2>5. CASE ProcSaved
        <3>1. dirty' = dirty /\ ~ WillBeWritten("proc", k)
            BY <2>5 DEF ProcSaved, Finished, WillBeWritten
        <3> QED
            BY <1>3, <2>1, <2>2, <3>1 DEF Safe, Savers
    <2> QED
        BY <2>3, <2>4, <2>5 DEF ProcFileThread
<1>4. UnsavedWillBeSaved'
    BY <1>1, <1>3, KeptSafe
<1> QED
    BY <1>2, <1>4 DEF SInv

\* FileMsgThread starts a save: everything will be written.
LEMMA StartedSafe ==
    ASSUME \E w \in Savers : saver'[w].at \in {"start", "log", "open"}
    PROVE  UnsavedWillBeSaved'
BY DEF UnsavedWillBeSaved, WillBeWritten

LEMMA MsgKeepsSafe ==
    ASSUME SInv, WInv, TInv, FileMsgThread \/ EmptyLogFails
    PROVE  SInv'
<1>0. /\ UnsavedWillBeSaved /\ Ended /\ DefaultsFirst /\ "msg" \in Savers
      /\ DOMAIN srv = {"pc", "msg"} /\ SaverShape
    BY DEF SInv, Savers, WInv, Shapes
<1>1. UNCHANGED <<file, overlap, lost, client, orphan>>
    BY DEF FileMsgThread, Boot, BootWithDefaults, DefaultsWritten, DefaultsFail, EmptyLogFails,
           TakeRequest, ServeRead, ServeReadLog, ServeWrite, ServeWriteLog, ServeWriteNow, ServeReset, ResetWritten,
           SaveWritten, Reply, ServeQuit, CleanupFileEnv, clientVars
<1>2. CASE Boot
    <2>1. mem' = file /\ srv'.pc = "recv" /\ UNCHANGED <<quit, gone>> /\ srv.pc = "boot"
        BY <1>0, <1>2 DEF Boot
    <2> QED
        BY <1>0, <1>1, <2>1 DEF SInv, UnsavedWillBeSaved, Ended, DefaultsFirst
<1>3. CASE BootWithDefaults
    <2>1. /\ srv'.pc = "init" /\ UNCHANGED <<quit, gone>> /\ srv.pc = "boot"
          /\ saver'["msg"].at = "open"
        BY <1>0, <1>3 DEF BootWithDefaults, SaverShape, Fields
    <2> QED
        BY <1>0, <1>1, <2>1 DEF SInv, UnsavedWillBeSaved, Up, Ended, DefaultsFirst
<1>4. CASE DefaultsWritten
    <2>1. /\ mem' = SysInfoDefault /\ srv'.pc = "recv" /\ UNCHANGED <<quit, gone>>
          /\ srv.pc = "init" /\ saver["msg"].at = "closed"
        BY <1>0, <1>4 DEF DefaultsWritten, Closed
    <2>2. ~ overlap /\ ~ lost => file' = mem'
        BY <1>0, <1>1, <2>1 DEF DefaultsFirst
    <2> QED
        BY <1>0, <1>1, <2>1, <2>2 DEF SInv, UnsavedWillBeSaved, Ended, DefaultsFirst
<1>5. CASE TakeRequest
    <2>1. /\ srv.pc = "recv" /\ srv'.pc = "serve" /\ srv'.msg = Head(queue) /\ queue # << >>
          /\ queue' = Tail(queue) /\ queue \in Seq(Requests)
          /\ UNCHANGED <<mem, dirty, quit, gone, proc, saver>>
        BY <1>5 DEF TakeRequest, TInv, ServerTyped
    <2>2. PICK n : n = Len(queue)
        OBVIOUS
    <2>3. /\ n \in Nat \ {0} /\ DOMAIN queue = 1 .. n /\ DOMAIN queue' = 1 .. n - 1
          /\ Head(queue) = queue[1] /\ \A i \in 1 .. n - 1 : queue'[i] = queue[i + 1]
        <3> HIDE DEF Requests
        <3>1. Tail(queue) \in Seq(Requests) /\ Len(Tail(queue)) = n - 1 /\ n \in Nat \ {0}
            BY <2>1, <2>2, HeadTailProperties, EmptySeq
        <3> QED
            BY <2>1, <2>2, <3>1, HeadTailProperties, LenProperties
    <2>4. ASSUME NEW i \in DOMAIN queue, queue[i].cmd \in Saving
          PROVE  srv'.msg.cmd \in Saving \/ \E j \in DOMAIN queue' : queue'[j].cmd \in Saving
        <3>1. CASE i = 1
            BY <2>1, <2>3, <2>4, <3>1
        <3>2. CASE i # 1
            <4>1. i - 1 \in DOMAIN queue' /\ queue'[i - 1] = queue[i]
                BY <2>3, <3>2
            <4> QED
                BY <2>4, <4>1
        <3> QED
            BY <3>1, <3>2
    <2>5. ASSUME NEW k \in Parts, Safe(k) PROVE Safe(k)'
        <3>1. OnTheWay(k) => OnTheWay(k)'
            BY <1>1, <2>1, <2>4 DEF OnTheWay
        <3>2. ASSUME NEW w \in Savers, WillBeWritten(w, k) PROVE WillBeWritten(w, k)'
            BY <2>1, <3>2 DEF WillBeWritten
        <3> QED
            BY <2>1, <2>5, <3>1, <3>2 DEF Safe
    <2>6. UnsavedWillBeSaved'
        BY <1>1, <2>1, <2>5, KeptSafe DEF Up
    <2> QED
        BY <1>0, <1>1, <2>1, <2>6 DEF SInv, Ended, DefaultsFirst
<1>6. CASE ServeRead \/ ServeReadLog \/ ServeWrite \/ ServeWriteLog \/ Reply
    <2>1. /\ UNCHANGED <<mem, quit, queue, gone, proc, saver>>
          /\ srv.pc \in {"serve", "reply"} /\ srv'.pc \in {"reply", "recv"}
          /\ dirty => dirty'
          /\ srv.pc = "serve" /\ srv.msg.cmd \in Saving => dirty'
        <3>1. CASE ServeReadLog
            <4>1. \E ok : Served(ok)
                BY <3>1 DEF ServeReadLog
            <4>2. srv'.pc = "reply"
                BY <4>1 DEF Served
            <4> QED
                BY <3>1, <4>2 DEF ServeReadLog, Serving, Saving
        <3>2. CASE ServeRead \/ Reply
            BY <3>2 DEF ServeRead, Reply, Serving, Served, Saving
        <3>3. CASE ServeWrite \/ ServeWriteLog
            BY <3>3 DEF ServeWrite, ServeWriteLog, Serving, Served, Saving
        <3> QED
            BY <1>6, <3>1, <3>2, <3>3
    <2>2. ASSUME NEW k \in Parts, Safe(k) PROVE Safe(k)'
        <3>1. CASE dirty'
            BY <3>1 DEF Safe
        <3>2. CASE ~ dirty'
            <4>1. ~ dirty /\ (OnTheWay(k) => OnTheWay(k)')
                BY <1>1, <2>1, <3>2 DEF OnTheWay
            <4>2. ASSUME NEW w \in Savers, WillBeWritten(w, k) PROVE WillBeWritten(w, k)'
                BY <2>1, <4>2 DEF WillBeWritten
            <4> QED
                BY <2>2, <4>1, <4>2 DEF Safe
        <3> QED
            BY <3>1, <3>2
    <2>3. UnsavedWillBeSaved'
        BY <1>1, <2>1, <2>2, KeptSafe DEF Up
    <2> QED
        BY <1>0, <1>1, <2>1, <2>3 DEF SInv, Ended, DefaultsFirst
<1>7. CASE ServeWriteNow \/ ServeReset \/ ResetWritten
    <2>1. /\ UNCHANGED <<quit, gone>> /\ saver'["msg"].at \in {"start", "open"}
          /\ srv.pc \in {"serve", "reset"} /\ srv'.pc \in {"save", "reset"}
        BY <1>0, <1>7 DEF ServeWriteNow, ServeReset, ResetWritten, StartSave, Serving, SaverShape, Fields
    <2>2. UnsavedWillBeSaved'
        BY <1>0, <2>1, StartedSafe
    <2> QED
        BY <1>0, <1>1, <2>1, <2>2 DEF SInv, Ended, DefaultsFirst
<1>8. CASE ServeQuit \/ CleanupFileEnv
    <2>1. quit' = TRUE /\ srv'.pc \in {"exit", "down"} /\ (gone => gone')
        BY <1>0, <1>8 DEF ServeQuit, CleanupFileEnv, Ended, Msg_Kill
    <2> QED
        BY <1>0, <1>1, <2>1 DEF SInv, UnsavedWillBeSaved, Ended, DefaultsFirst
<1>9. CASE SaveWritten
    <2>1. /\ UNCHANGED <<mem, dirty, quit, queue, gone, proc>> /\ saver'["proc"] = saver["proc"]
          /\ srv.pc = "save" /\ srv'.pc = "reply" /\ Finished("msg")
        BY <1>0, <1>9 DEF SaveWritten, Served, SaverShape, Savers
    <2>2. ASSUME NEW k \in Parts, Safe(k) PROVE Safe(k)'
        <3>1. OnTheWay(k) => OnTheWay(k)'
            BY <1>1, <2>1 DEF OnTheWay
        <3>2. ~ WillBeWritten("msg", k)
            BY <2>1 DEF Finished, WillBeWritten
        <3>3. WillBeWritten("proc", k) => WillBeWritten("proc", k)'
            BY <2>1 DEF WillBeWritten
        <3> QED
            BY <2>1, <2>2, <3>1, <3>2, <3>3 DEF Safe, Savers
    <2>3. UnsavedWillBeSaved'
        BY <1>1, <2>1, <2>2, KeptSafe DEF Up
    <2> QED
        BY <1>0, <1>1, <2>1, <2>3 DEF SInv, Ended, DefaultsFirst
<1>10. CASE DefaultsFail \/ EmptyLogFails
    <2>1. srv'.pc = "failed" /\ gone' = TRUE
        BY <1>0, <1>10 DEF DefaultsFail, EmptyLogFails, Msg_Kill
    <2> QED
        BY <1>0, <1>1, <2>1 DEF SInv, UnsavedWillBeSaved, Up, Ended, DefaultsFirst
<1> QED
    BY <1>2, <1>3, <1>4, <1>5, <1>6, <1>7, <1>8, <1>9, <1>10 DEF FileMsgThread

\* One save.  A part that has been written has what memory has, unless it was
\* changed since.
LEMMA SaverKeepsSafe ==
    ASSUME SInv, WInv, TInv, NEW w \in Savers, SaverStep(w)
    PROVE  SInv'
<1>0. /\ UnsavedWillBeSaved /\ Ended /\ DefaultsFirst
      /\ SaverShape /\ SaversKnown /\ FileWhole /\ WholeSettings
    BY DEF SInv, WInv, Shapes
<1>1. UNCHANGED <<mem, dirty, quit, queue, gone, srv, proc, client, orphan>>
    BY DEF SaverStep, CreateLog, CloseLog, CreateSys, WriteSys, CloseSys, clientVars
<1>2. /\ \A v \in Savers : v # w => saver'[v] = saver[v]
      /\ saver[w].at # "closed" /\ SaverShape'
    BY <1>0, SaverSteps
<1>3. Ended'
    BY <1>0, <1>1 DEF Ended
<1>4. NParts \in Nat /\ NParts >= 2 /\ saver[w].pos \in 1 .. NParts + 1
    BY <1>0, NPartsAssumption DEF SaverShape
<1>5. srv.pc = "init" => w = "msg"
    BY <1>0, <1>2 DEF SaversKnown, Savers, Up
<1>6. CASE CreateLog(w) \/ CloseLog(w)
    <2>1. saver'[w].at \in {"log", "open"} /\ UNCHANGED <<file, overlap>>
        BY <1>0, <1>6 DEF CreateLog, CloseLog, SaverShape, Fields
    <2>2. DefaultsFirst'
        <3>1. srv.pc = "init" /\ ~ overlap => FALSE
            BY <1>0, <1>5, <1>6 DEF DefaultsFirst, CreateLog, CloseLog
        <3> QED
            BY <1>1, <2>1, <3>1 DEF DefaultsFirst
    <2> QED
        BY <1>3, <2>1, <2>2, StartedSafe DEF SInv
<1>7. CASE CreateSys(w)
    <2>1. saver'[w].at = "sys" /\ saver'[w].pos = 1
        BY <1>0, <1>7 DEF CreateSys, SaverShape, Fields
    <2>2. UnsavedWillBeSaved'
        <3>1. \A k \in Parts : WillBeWritten(w, k)'
            BY <2>1 DEF WillBeWritten, Parts
        <3> QED
            BY <3>1 DEF UnsavedWillBeSaved
    <2>3. DefaultsFirst'
        <3>1. \A q \in Parts : ~ (q < 1)
            BY DEF Parts
        <3> QED
            BY <1>1, <1>4, <1>5, <2>1, <3>1 DEF DefaultsFirst
    <2> QED
        BY <1>3, <2>2, <2>3 DEF SInv
<1>8. CASE WriteSys(w)
    <2>1. PICK k, v : k = saver[w].pos /\ v = Source(w)[k]
        OBVIOUS
    <2>2. /\ k \in Parts /\ saver[w].at = "sys" /\ overlap' = overlap /\ lost' = lost
          /\ saver'[w].at = "sys" /\ saver'[w].pos = k + 1
          /\ k = NParts => saver'[w].tail = v
          /\ file' = IF k = NParts THEN file ELSE WriteAt(file, k, v)
        BY <1>0, <1>4, <1>8, <2>1 DEF WriteSys, SaverShape, Parts, Fields
    <2>3. ~ overlap => Partial(file, k)
        BY <1>0, <1>4, <2>1, <2>2 DEF FileWhole, Parts
    <2>4. ASSUME ~ overlap, k # NParts
          PROVE  \A q \in Parts : file'[q] = IF q = k THEN v ELSE file[q]
        BY <2>2, <2>3, <2>4, MarkersAssumption DEF WriteAt, Partial
    <2>5. DefaultsFirst'
        <3> SUFFICES ASSUME srv.pc = "init", ~ overlap PROVE DefaultsFirst'
            BY <1>1, <2>2 DEF DefaultsFirst
        <3>1. w = "msg" /\ v = Default
            BY <1>5, <2>1, <2>2 DEF Source, WritesDefaults, SysInfoDefault
        <3>2. \A q \in Parts : q < k /\ q < NParts => file[q] = Default
            BY <1>0, <2>1, <2>2, <3>1 DEF DefaultsFirst
        <3>3. ASSUME NEW q \in Parts, q < k + 1, q < NParts PROVE file'[q] = Default
            <4>1. q = k \/ q < k
                BY <2>2, <3>3 DEF Parts
            <4>2. CASE k = NParts
                BY <2>2, <3>2, <3>3, <4>1, <4>2
            <4>3. CASE k # NParts
                BY <2>4, <3>1, <3>2, <3>3, <4>1, <4>3
            <4> QED
                BY <4>2, <4>3
        <3>4. k + 1 > NParts => saver'[w].tail = Default
            BY <1>4, <2>2, <3>1 DEF Parts
        <3> QED
            BY <2>2, <3>1, <3>3, <3>4 DEF DefaultsFirst
    <2>6. UnsavedWillBeSaved'
        <3> SUFFICES ASSUME Up, ~ quit, ~ overlap, ~ lost, NEW q \in Parts,
                            file'[q] # mem[q]
                     PROVE  Safe(q)'
            BY <1>1, <2>2, SafeMeansNext DEF AllSafe, Up
        <3>1. CASE w = "msg" /\ srv.pc = "reset"
            BY <1>1, <3>1 DEF Safe, WillBeWritten
        <3>2. CASE ~ (w = "msg" /\ srv.pc = "reset")
            <4>1. v = mem[k]
                BY <2>1, <3>2 DEF Source, WritesDefaults, Up
            <4>2. CASE q = k
                <5>1. k = NParts
                    BY <2>4, <4>1, <4>2
                <5>2. WillBeWritten(w, q)'
                    BY <1>1, <2>2, <4>1, <4>2, <5>1 DEF WillBeWritten
                <5> QED
                    BY <5>2 DEF Safe
            <4>3. CASE q # k
                <5>1. file'[q] = file[q]
                    BY <2>2, <2>4, <4>3
                <5>2. Safe(q)
                    BY <1>0, <5>1, SafeMeans DEF AllSafe
                <5>3. OnTheWay(q)' = OnTheWay(q)
                    BY <1>1 DEF OnTheWay
                <5>4. ASSUME NEW u \in Savers, WillBeWritten(u, q)
                      PROVE  WillBeWritten(u, q)'
                    <6>1. CASE u # w
                        BY <1>1, <1>2, <5>4, <6>1 DEF WillBeWritten
                    <6>2. CASE u = w
                        <7>1. CASE saver[w].pos <= q
                            <8>1. k + 1 <= q
                                BY <2>1, <2>2, <4>3, <7>1 DEF Parts
                            <8> QED
                                BY <1>1, <2>2, <6>2, <8>1 DEF WillBeWritten
                        <7>2. CASE ~ (saver[w].pos <= q)
                            <8>1. ~ (q = NParts)
                                BY <2>1, <2>2, <4>3, <7>2 DEF Parts
                            <8> QED
                                BY <1>1, <2>2, <5>4, <6>2, <7>2, <8>1 DEF WillBeWritten
                        <7> QED
                            BY <7>1, <7>2
                    <6> QED
                        BY <6>1, <6>2
                <5> QED
                    BY <1>1, <5>2, <5>3, <5>4 DEF Safe
            <4> QED
                BY <4>2, <4>3
        <3> QED
            BY <3>1, <3>2
    <2> QED
        BY <1>3, <2>5, <2>6 DEF SInv
<1>9. CASE CloseSys(w)
    <2>1. PICK v : v = saver[w].tail
        OBVIOUS
    <2>2. /\ saver[w].at = "sys" /\ saver[w].pos > NParts
          /\ overlap' = overlap /\ lost' = lost
          /\ saver'[w].at = "closed" /\ file' = WriteAt(file, NParts, v)
        BY <1>0, <1>9, <2>1 DEF CloseSys, SaverShape, Closed
    <2>3. NParts \in Parts
        BY <1>4 DEF Parts
    <2>4. ASSUME ~ overlap
          PROVE  /\ \A q \in Parts : file'[q] = IF q = NParts THEN v ELSE file[q]
                 /\ file[NParts] = Gone
        <3>1. Partial(file, NParts)
            BY <1>0, <2>2, <2>4 DEF FileWhole
        <3> QED
            BY <2>2, <2>3, <3>1, <1>4, MarkersAssumption DEF WriteAt, Partial, Parts
    <2>5. DefaultsFirst'
        <3> SUFFICES ASSUME srv.pc = "init", ~ overlap PROVE DefaultsFirst'
            BY <1>1, <2>2 DEF DefaultsFirst
        <3>1. /\ w = "msg" /\ v = Default
              /\ \A q \in Parts : q < saver["msg"].pos /\ q < NParts => file[q] = Default
            BY <1>0, <1>5, <2>1, <2>2 DEF DefaultsFirst
        <3>2. \A q \in Parts : q # NParts => q < NParts /\ q < saver["msg"].pos
            BY <1>4, <2>2, <3>1 DEF Parts
        <3>3. \A q \in Parts : file'[q] = Default
            BY <2>4, <3>1, <3>2
        <3>4. file' = SysInfoDefault
            BY <2>2, <3>3 DEF WriteAt, SysInfoDefault
        <3> QED
            BY <2>2, <3>1, <3>4 DEF DefaultsFirst
    <2>6. UnsavedWillBeSaved'
        <3> SUFFICES ASSUME Up, ~ quit, ~ overlap, ~ lost, NEW q \in Parts,
                            file'[q] # mem[q]
                     PROVE  Safe(q)'
            BY <1>1, <2>2, SafeMeansNext DEF AllSafe, Up
        <3>1. file[q] # mem[q]
            <4>1. CASE q = NParts
                <5>1. mem[q] # Gone
                    BY GoneIsNoValue DEF TInv, FlashTyped, Written
                <5> QED
                    BY <2>4, <4>1, <5>1
            <4>2. CASE q # NParts
                BY <2>4, <4>2
            <4> QED
                BY <4>1, <4>2
        <3>2. Safe(q)
            BY <1>0, <3>1, SafeMeans DEF AllSafe
        <3>3. OnTheWay(q)' = OnTheWay(q)
            BY <1>1 DEF OnTheWay
        <3>4. ASSUME NEW u \in Savers, WillBeWritten(u, q)
              PROVE  WillBeWritten(u, q)'
            <4>1. CASE u # w
                BY <1>1, <1>2, <3>4, <4>1 DEF WillBeWritten
            <4>2. CASE u = w
                <5>1. ~ (saver[w].pos <= q)
                    BY <1>4, <2>2 DEF Parts
                <5>2. ~ (q = NParts /\ saver[w].tail = mem[q])
                    BY <2>1, <2>4
                <5> QED
                    BY <1>1, <2>2, <3>4, <4>2, <5>1, <5>2 DEF WillBeWritten
            <4> QED
                BY <4>1, <4>2
        <3> QED
            BY <1>1, <3>2, <3>3, <3>4 DEF Safe
    <2> QED
        BY <1>3, <2>5, <2>6 DEF SInv
<1> QED
    BY <1>6, <1>7, <1>8, <1>9 DEF SaverStep

\* A save that fails: without the log it goes on; without SYS_FILE the change
\* is lost until the next one.
LEMMA FailuresKeepSafe ==
    ASSUME SInv, WInv, NEW w \in Savers, SaverFails(w)
    PROVE  SInv'
<1>0. Ended /\ SaverShape /\ SaversKnown /\ "msg" \in Savers
    BY DEF SInv, WInv, Shapes, Savers
<1>1. UNCHANGED <<mem, dirty, quit, overlap, queue, gone, srv, proc, client, orphan>>
    BY DEF SaverFails, LogFails, SysFails, CloseSysFails, clientVars
<1>2. Ended'
    BY <1>0, <1>1 DEF Ended
<1>3. srv.pc = "init" => w = "msg"
    <2>1. saver[w].at # "closed"
        BY DEF SaverFails, LogFails, SysFails, CloseSysFails
    <2> QED
        BY <1>0, <2>1 DEF SaversKnown, Savers, Up
<1>4. CASE LogFails(w)
    <2>1. saver'[w].at = "open"
        BY <1>0, <1>4 DEF LogFails, SaverShape, Fields
    <2>2. DefaultsFirst'
        BY <1>1, <1>3, <2>1 DEF DefaultsFirst
    <2> QED
        BY <1>2, <2>1, <2>2, StartedSafe DEF SInv
<1>5. CASE SysFails(w) \/ CloseSysFails(w)
    <2>1. lost' = TRUE /\ saver'[w].at \in {"closed", "failed"}
        BY <1>0, <1>5 DEF SysFails, CloseSysFails, Closed, Failure, SaverShape
    <2>2. DefaultsFirst'
        BY <1>1, <1>3, <2>1 DEF DefaultsFirst
    <2> QED
        BY <1>2, <2>1, <2>2 DEF SInv, UnsavedWillBeSaved
<1> QED
    BY <1>4, <1>5 DEF SaverFails

\* A setting that was changed is in the file, or its request is on the way,
\* bNeedWrite is set or a save has yet to reach it, whatever the threads of
\* the server and of the other processes do to each other and whatever the
\* flash refuses, as long as no two saves have run into each other and the last
\* save of SYS_FILE has not failed.
THEOREM ChangesAreSaved == Spec => []UnsavedWillBeSaved
<1>1. Init => SInv
    BY DEF Init, SInv, UnsavedWillBeSaved, Up, Ended, DefaultsFirst
<1>2. SInv /\ WInv /\ TInv /\ [Next]_vars => SInv'
    <2> SUFFICES ASSUME SInv, WInv, TInv, [Next]_vars PROVE SInv'
        OBVIOUS
    <2>1. CASE UNCHANGED vars
        BY <2>1 DEF vars, serverVars, clientVars, SInv, UnsavedWillBeSaved, Up, OnTheWay,
                    WillBeWritten, Ended, DefaultsFirst
    <2>2. CASE PowerLoss
        <3>1. srv'.pc = "boot" /\ gone' = FALSE /\ orphan' = [p \in Procs |-> FALSE]
            BY <2>2 DEF PowerLoss
        <3> QED
            BY <3>1 DEF SInv, UnsavedWillBeSaved, Up, Ended, DefaultsFirst
    <2> QED
        BY <2>1, <2>2, ClientsKeepSafe, QuitKeepsSafe, SaverKeepsSafe, FailuresKeepSafe,
           MsgKeepsSafe, ProcKeepsSafe DEF Next
<1>3. SInv => UnsavedWillBeSaved
    BY DEF SInv
<1> QED
    BY <1>1, <1>2, <1>3, SavesInvariant, TypesInvariant, PTL DEF Spec
=============================================================================
