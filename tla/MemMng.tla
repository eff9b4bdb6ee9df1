------------------------------- MODULE MemMng -------------------------------
(***************************************************************************)
(* The frame memory of one H.264/MPEG-4 stream (stream/mem_mng.c, a        *)
(* VIDEO_BLK_INFO whose video_type is VIDEO_MP4).  Frames are written in   *)
(* whole blocks of a circular memory, each in contiguous blocks, and are   *)
(* described by a circular table with as many entries as there are blocks. *)
(* A write frees the oldest frames until the new one fits and fills the    *)
(* end of the memory with a DUMMY frame when the new one would wrap.       *)
(*                                                                         *)
(* stream_write holds the stream's mutex through the whole call.  Each     *)
(* turn of the loop of MemMng_Video_Write is a step here, so that a write  *)
(* has to be shown to end; readers look at the memory between writes only. *)
(* A frame larger than the memory is refused before anything changes, so   *)
(* it is not a step.                                                       *)
(***************************************************************************)
EXTENDS Integers, FiniteSets

CONSTANTS
    BlkNum,     \* blk_num, which Video_Mem_Malloc makes frame_num too
    MaxSerial,  \* bound: the last serial written
    NoJob       \* stands for: no write is going on

ASSUME BlkNumAssumption == BlkNum \in Nat \ {0}
ASSUME MaxSerialAssumption == MaxSerial \in Nat

Frames == 0 .. BlkNum - 1
Blocks == 0 .. BlkNum - 1
Types  == {"I", "P"}            \* what the encoders of such a stream produce

VARIABLES
    frame,      \* frame[]: serial, fram_type, blkindex, blks, flag
    cur_frame, cur_serial, cur_blk, blk_free,
    gop,        \* lastest_I, and last_Start, which decides how it is updated
    job         \* the locals of a MemMng_Video_Write call, or NoJob

pos  == <<cur_frame, cur_serial, cur_blk>>
vars == <<frame, cur_frame, cur_serial, cur_blk, blk_free, gop, job>>

\* Video_Frame_reset
EmptyFrame ==
    [serial |-> -1, type |-> "EMPTY", blkindex |-> -1, blks |-> -1, flag |-> 0]

\* VIDEO_FRAME, and the arguments and the counter of MemMng_Video_Write.
FrameInfo ==
    {EmptyFrame} \cup
    [serial : -1 .. MaxSerial, type : Types \cup {"DUMMY"},
     blkindex : Blocks, blks : 1 .. BlkNum, flag : 0 .. 2]
Jobs == [blks : 1 .. BlkNum, type : Types, free_cnt : 0 .. BlkNum]

ASSUME NoJobAssumption == NoJob \notin Jobs

Init ==
    /\ frame = [i \in Frames |-> EmptyFrame]
    /\ cur_frame = -1 /\ cur_serial = -1 /\ cur_blk = -1
    /\ blk_free = BlkNum
    /\ gop = [last_Start |-> -1, lastest_I |-> -1]
    /\ job = NoJob

-----------------------------------------------------------------------------

VideoWrite(blks, type) ==
    /\ job = NoJob
    /\ cur_serial < MaxSerial
    /\ cur_serial = -1 => type = "I"      \* an encoder starts with an I frame
    /\ job' = [blks |-> blks, type |-> type, free_cnt |-> 0]
    /\ UNCHANGED <<frame, pos, blk_free, gop>>

\* The tests are `> 0', so index 0 is never taken out of gop.
VidFrame_Free(i) ==
    IF frame[i].type = "EMPTY"
    THEN UNCHANGED <<frame, blk_free, gop>>
    ELSE /\ blk_free' = blk_free + frame[i].blks
         /\ LET Kept(j) == IF j > 0 /\ j = i THEN -1 ELSE j
            IN  gop' = [last_Start |-> Kept(gop.last_Start),
                        lastest_I  |-> Kept(gop.lastest_I)]
         /\ frame' = [frame EXCEPT ![i] = EmptyFrame]

\* MemMng_VidFrame_SetFlag on a table in which frame i has just been filled
\* in: the entry before i, if it is a P frame, ends its GOP.
SetFlag(tab, i) ==
    LET last == IF i - 1 > 0 THEN i - 1 ELSE BlkNum - 1
    IN  IF tab[i].type # "I" THEN tab
        ELSE [j \in Frames |->
                 IF j = last /\ tab[j].type = "P" THEN [tab[j] EXCEPT !.flag = 2]
                 ELSE IF j = i THEN [tab[j] EXCEPT !.flag = 1]
                 ELSE tab[j]]

\* MemMng_VidFrame_Insert
Insert(blks, type) ==
    LET i == (cur_frame + 1) % BlkNum
        b == (cur_blk + 1) % BlkNum
        s == IF type = "DUMMY" THEN cur_serial ELSE cur_serial + 1
    IN  /\ frame' = SetFlag([frame EXCEPT ![i] =
                [serial |-> s, type |-> type, blkindex |-> b, blks |-> blks,
                 flag |-> 0]], i)
        /\ cur_frame' = i
        /\ cur_serial' = s
        /\ cur_blk' = (b + blks - 1) % BlkNum
        /\ blk_free' = blk_free - blks
        /\ gop' = IF type # "I" THEN gop
                  ELSE [last_Start |-> IF gop.last_Start < 0 THEN i
                                       ELSE gop.lastest_I,
                        lastest_I  |-> i]

FreeOldest_NotAdvanced ==
    /\ job # NoJob
    /\ job.blks > blk_free
    /\ VidFrame_Free((cur_frame + 1 + job.free_cnt) % BlkNum)
    /\ UNCHANGED <<pos, job>>

\* The loop of MemMng_Video_Write: not enough room, so the next frame in the
\* order of the table goes;
FreeOldest ==
    /\ job # NoJob
    /\ job.blks > blk_free
    /\ VidFrame_Free((cur_frame + 1 + job.free_cnt) % BlkNum)
    /\ job' = [job EXCEPT !.free_cnt = @ + 1]
    /\ UNCHANGED pos

nextblk == (cur_blk + 1) % BlkNum

WouldWrap_OneOver == nextblk + job.blks > BlkNum + 1
WouldWrap == nextblk + job.blks > BlkNum

FillUp_CountKept ==
    /\ job # NoJob
    /\ job.blks <= blk_free
    /\ WouldWrap
    /\ Insert(BlkNum - nextblk, "DUMMY")
    /\ UNCHANGED job

\* no contiguous room before the end of the memory, which is filled up;
FillUp ==
    /\ job # NoJob
    /\ job.blks <= blk_free
    /\ WouldWrap
    /\ Insert(BlkNum - nextblk, "DUMMY")
    /\ job' = [job EXCEPT !.free_cnt = 0]

Store_WithoutRoom ==
    /\ job # NoJob
    /\ ~ WouldWrap
    /\ Insert(job.blks, job.type)
    /\ job' = NoJob

\* or the frame fits.
Store ==
    /\ job # NoJob
    /\ job.blks <= blk_free
    /\ ~ WouldWrap
    /\ Insert(job.blks, job.type)
    /\ job' = NoJob

WriteStep == FreeOldest \/ FillUp \/ Store

Next ==
    \/ \E blks \in 1 .. BlkNum, type \in Types : VideoWrite(blks, type)
    \/ WriteStep

Spec == Init /\ [][Next]_vars

\* The writer holds the mutex and the loop has nothing to wait for.
FairSpec == Spec /\ WF_vars(WriteStep)

-----------------------------------------------------------------------------

Lookup_DummyFound(s) ==
    IF s < 0 \/ s > cur_serial THEN -1
    ELSE IF frame[cur_frame].serial = s THEN cur_frame
    ELSE LET found == {i \in Frames : frame[i].serial = s}
         IN  IF found = {} THEN -1 ELSE CHOOSE i \in found : \A j \in found : i <= j

\* MemMng_GetFrameBySerial: the index of the frame found, or -1 for NULL.
Lookup(s) ==
    IF s < 0 \/ s > cur_serial THEN -1
    ELSE IF frame[cur_frame].serial = s THEN cur_frame
    ELSE LET found == {i \in Frames : /\ frame[i].serial = s
                                      /\ frame[i].type \notin {"DUMMY", "EMPTY"}}
         IN  IF found = {} THEN -1 ELSE CHOOSE i \in found : \A j \in found : i <= j

\* GetLastI_Frame, likewise.
LastI == gop.lastest_I

Used    == {i \in Frames : frame[i].type # "EMPTY"}
Stored  == {i \in Frames : frame[i].type \in Types}
BlksOf(i) == frame[i].blkindex .. frame[i].blkindex + frame[i].blks - 1

-----------------------------------------------------------------------------

TypeOK ==
    /\ frame \in [Frames -> FrameInfo]
    /\ cur_frame \in Frames \cup {-1}
    /\ cur_serial \in -1 .. MaxSerial
    /\ cur_blk \in Blocks \cup {-1}
    /\ blk_free \in 0 .. BlkNum
    /\ gop \in [last_Start : Frames \cup {-1}, lastest_I : Frames \cup {-1}]
    /\ job \in {NoJob} \cup Jobs

\* No two frames share a block, none reaches beyond the memory, and blk_free
\* counts exactly the blocks that are in no frame: a write that believes it
\* has room has it.
BlocksOwned ==
    /\ \A i \in Used : BlksOf(i) \subseteq Blocks
    /\ \A i, j \in Used : i # j => BlksOf(i) \cap BlksOf(j) = {}
    /\ blk_free = BlkNum - Cardinality(UNION {BlksOf(i) : i \in Used})

\* Between writes MemMng_GetFrameBySerial finds the frame with the serial
\* asked for, a real one, if it is in memory, and nothing otherwise, although
\* a DUMMY frame carries the serial of the frame before it.
LookupFinds ==
    job = NoJob =>
        \A s \in 0 .. MaxSerial :
            LET hits == {i \in Stored : frame[i].serial = s}
            IN  IF hits = {} THEN Lookup(s) = -1 ELSE hits = {Lookup(s)}

\* The frames a reader can find, by their serials.
InMemory == [s \in {frame[i].serial : i \in Stored} |->
                 frame[CHOOSE i \in Stored : frame[i].serial = s].type]

\* The memory is a window on the stream: serials without gaps, oldest frames
\* leaving first, no frame overwritten before it was freed.
Window == INSTANCE FrameWindow WITH store <- InMemory, next <- cur_serial + 1
IsFrameWindow == Window!Spec

\* Every write ends: freeing the oldest frames always makes room, also when
\* the end of the memory had to be filled up first.
WriteEnds == job # NoJob ~> job = NoJob

\* The interface (Appro_interface.h) calls flag 2 the last frame of a GOP: a
\* P frame in memory that an I frame follows carries it.
LastFrameFlagged ==
    \A i, j \in Stored :
        /\ frame[i].type = "P" /\ frame[j].type = "I"
        /\ frame[j].serial = frame[i].serial + 1
        => frame[i].flag = 2
=============================================================================
