----------------------------- MODULE MemMngProofs -----------------------------
(***************************************************************************)
(* Theorems about the frame memory, for any number of blocks and frames of *)
(* any sizes.                                                              *)
(***************************************************************************)
EXTENDS MemMng, FiniteSetTheorems, TLAPS

-----------------------------------------------------------------------------
(* The two circles, of frames and of blocks, seen from the last write.     *)

\* How many frames were written after frame i,
Age(i) == IF i <= cur_frame THEN cur_frame - i ELSE cur_frame + BlkNum - i

\* how many blocks after block b, and after the last block of frame i.
BlkBack(b) == IF b <= cur_blk THEN cur_blk - b ELSE cur_blk + BlkNum - b
Back(i)    == BlkBack(frame[i].blkindex + frame[i].blks - 1)

BlkUsed == BlkNum - blk_free

\* No frame reaches beyond the end of the memory,
InBounds == \A i \in Used : frame[i].blkindex + frame[i].blks <= BlkNum

\* nothing is in a memory that was never written,
Fresh ==
    /\ cur_frame = -1 <=> cur_blk = -1
    /\ cur_frame = -1 => Used = {} /\ cur_serial = -1

\* the frames in memory are the youngest of the table,
Youngest == \A i, j \in Frames : j \in Used /\ Age(i) < Age(j) => i \in Used

\* each begins where the one before it ends, and comes later in the stream,
InOrder ==
    \A i, j \in Used :
        Age(i) < Age(j) =>
            /\ Back(i) + frame[i].blks <= Back(j)
            /\ Age(j) = Age(i) + 1 => Back(i) + frame[i].blks = Back(j)
            /\ i \in Stored => frame[i].serial > frame[j].serial

\* from the last block written back to the last one that is not free.
Extent ==
    /\ cur_frame \in Used => Back(cur_frame) = 0
    /\ \A i \in Used :
          /\ Age(i) <= Back(i)
          /\ Back(i) + frame[i].blks <= BlkUsed
          /\ (\A j \in Used : Age(j) <= Age(i)) => Back(i) + frame[i].blks = BlkUsed
          /\ frame[i].serial <= cur_serial
    /\ Used = {} => BlkUsed = 0

\* No block is lost.
Covered ==
    cur_blk # -1 => \A b \in Blocks : BlkBack(b) < BlkUsed => \E i \in Used : b \in BlksOf(i)

Ring == InBounds /\ Fresh /\ Youngest /\ InOrder /\ Extent /\ Covered

\* A write has freed the oldest entries of the table; after it the youngest
\* is the frame written.
Progress ==
    IF job = NoJob
    THEN cur_frame # -1 => cur_frame \in Stored /\ frame[cur_frame].serial = cur_serial
    ELSE cur_serial < MaxSerial /\ \A i \in Used : Age(i) < BlkNum - job.free_cnt

FInv == TypeOK /\ Ring /\ Progress

-----------------------------------------------------------------------------
(* Numbers and records.                                                    *)

LEMMA Multiples ==
    ASSUME NEW n \in Nat, NEW q \in Int
    PROVE  /\ n * q \in Int
           /\ q >= 2 => n * q >= n + n
           /\ q = 1 => n * q = n
           /\ q = 0 => n * q = 0
           /\ q <= -1 => n * q <= -n
<1>1. n * q \in Int /\ (q = 1 => n * q = n) /\ (q = 0 => n * q = 0)
    OBVIOUS
<1>2. q >= 2 => n * (q - 2) >= 0 /\ n * (q - 2) = n * q - (n + n)
    OBVIOUS
<1>3. q <= -1 => n * (-1 - q) >= 0 /\ n * (-1 - q) = -n - n * q
    OBVIOUS
<1> QED
    BY <1>1, <1>2, <1>3

\* The indices are advanced by less than a turn.
LEMMA Modulo ==
    ASSUME NEW x \in 0 .. BlkNum + BlkNum - 1
    PROVE  x % BlkNum = IF x < BlkNum THEN x ELSE x - BlkNum
<1>1. PICK q \in Int, r \in 0 .. BlkNum - 1 : r = x % BlkNum /\ x = BlkNum * q + r
    <2>1. /\ x % BlkNum \in 0 .. BlkNum - 1 /\ x \div BlkNum \in Int
          /\ x = BlkNum * (x \div BlkNum) + (x % BlkNum)
        BY BlkNumAssumption
    <2> QED
        BY <2>1
<1>2. q = 0 \/ q = 1
    BY <1>1, Multiples, BlkNumAssumption
<1> QED
    BY <1>1, <1>2, Multiples, BlkNumAssumption

LEMMA After ==
    ASSUME NEW c \in -1 .. BlkNum - 1
    PROVE  /\ (c + 1) % BlkNum = IF c = BlkNum - 1 THEN 0 ELSE c + 1
           /\ (c + 1) % BlkNum \in 0 .. BlkNum - 1
<1>1. PICK x \in 0 .. BlkNum + BlkNum - 1 : x = c + 1
    BY BlkNumAssumption
<1>2. x % BlkNum = IF x < BlkNum THEN x ELSE x - BlkNum
    BY Modulo
<1> QED
    BY <1>1, <1>2, BlkNumAssumption

LEMMA FrameFields ==
    ASSUME NEW r \in FrameInfo
    PROVE  \/ r = EmptyFrame /\ r.type = "EMPTY" /\ r.serial = -1
           \/ /\ r \in [serial : -1 .. MaxSerial, type : Types \cup {"DUMMY"},
                        blkindex : Blocks, blks : 1 .. BlkNum, flag : 0 .. 2]
              /\ r.serial \in -1 .. MaxSerial /\ r.type \in {"I", "P", "DUMMY"}
              /\ r.blkindex \in Blocks /\ r.blks \in 1 .. BlkNum
BY DEF FrameInfo, EmptyFrame, Types

\* What a frame in memory is.
LEMMA UsedFields ==
    ASSUME TypeOK, NEW i \in Used
    PROVE  /\ i \in Frames /\ i \in Nat /\ i < BlkNum
           /\ frame[i].serial \in Int /\ frame[i].type \in {"I", "P", "DUMMY"}
           /\ frame[i].blkindex \in 0 .. BlkNum - 1 /\ frame[i].blks \in 1 .. BlkNum
BY FrameFields, BlkNumAssumption DEF TypeOK, Used, Frames, Blocks

LEMMA StoredUsed == TypeOK => Stored = {i \in Used : frame[i].type # "DUMMY"}
BY UsedFields DEF Stored, Used, Types

\* The end mark of a GOP changes nothing else.
LEMMA FlagsOnly ==
    ASSUME NEW tab \in [Frames -> FrameInfo], NEW i \in Frames
    PROVE  /\ SetFlag(tab, i) \in [Frames -> FrameInfo]
           /\ \A j \in Frames :
                  /\ SetFlag(tab, i)[j].serial = tab[j].serial
                  /\ SetFlag(tab, i)[j].type = tab[j].type
                  /\ SetFlag(tab, i)[j].blkindex = tab[j].blkindex
                  /\ SetFlag(tab, i)[j].blks = tab[j].blks
<1>1. ASSUME NEW r \in FrameInfo, r.type # "EMPTY", NEW f \in 0 .. 2
      PROVE  /\ [r EXCEPT !.flag = f] \in FrameInfo
             /\ [r EXCEPT !.flag = f].serial = r.serial
             /\ [r EXCEPT !.flag = f].type = r.type
             /\ [r EXCEPT !.flag = f].blkindex = r.blkindex
             /\ [r EXCEPT !.flag = f].blks = r.blks
    <2>1. r \in [serial : -1 .. MaxSerial, type : Types \cup {"DUMMY"},
                 blkindex : Blocks, blks : 1 .. BlkNum, flag : 0 .. 2]
        BY <1>1, FrameFields
    <2> QED
        BY <2>1 DEF FrameInfo
<1>2. CASE tab[i].type # "I"
    BY <1>2 DEF SetFlag
<1>3. CASE tab[i].type = "I"
    <2>1. PICK last : last = IF i - 1 > 0 THEN i - 1 ELSE BlkNum - 1
        OBVIOUS
    <2>2. SetFlag(tab, i) =
              [j \in Frames |->
                 IF j = last /\ tab[j].type = "P" THEN [tab[j] EXCEPT !.flag = 2]
                 ELSE IF j = i THEN [tab[j] EXCEPT !.flag = 1]
                 ELSE tab[j]]
        BY <1>3, <2>1 DEF SetFlag
    <2>3. ASSUME NEW j \in Frames
          PROVE  \/ SetFlag(tab, i)[j] = tab[j]
                 \/ /\ tab[j].type # "EMPTY"
                    /\ \E f \in 0 .. 2 : SetFlag(tab, i)[j] = [tab[j] EXCEPT !.flag = f]
        BY <1>3, <2>2
    <2>4. ASSUME NEW j \in Frames
          PROVE  /\ SetFlag(tab, i)[j] \in FrameInfo
                 /\ SetFlag(tab, i)[j].serial = tab[j].serial
                 /\ SetFlag(tab, i)[j].type = tab[j].type
                 /\ SetFlag(tab, i)[j].blkindex = tab[j].blkindex
                 /\ SetFlag(tab, i)[j].blks = tab[j].blks
        <3>1. CASE SetFlag(tab, i)[j] = tab[j]
            BY <3>1
        <3>2. CASE SetFlag(tab, i)[j] # tab[j]
            <4>1. tab[j] \in FrameInfo /\ tab[j].type # "EMPTY"
                BY <2>3, <3>2
            <4>2. PICK f \in 0 .. 2 : SetFlag(tab, i)[j] = [tab[j] EXCEPT !.flag = f]
                BY <2>3, <3>2
            <4>3. PICK r \in FrameInfo : r = tab[j]
                BY <4>1
            <4>4. r.type # "EMPTY" /\ SetFlag(tab, i)[j] = [r EXCEPT !.flag = f]
                BY <4>1, <4>2, <4>3
            <4>5. /\ [r EXCEPT !.flag = f] \in FrameInfo
                  /\ [r EXCEPT !.flag = f].serial = r.serial
                  /\ [r EXCEPT !.flag = f].type = r.type
                  /\ [r EXCEPT !.flag = f].blkindex = r.blkindex
                  /\ [r EXCEPT !.flag = f].blks = r.blks
                BY <1>1, <4>4
            <4> QED
                BY <4>3, <4>4, <4>5
        <3> QED
            BY <3>1, <3>2
    <2> QED
        BY <2>2, <2>4
<1> QED
    BY <1>2, <1>3

\* A frame of k blocks is inserted at index i with serial s.
Inserted(k, t, i, s) ==
    /\ i \in Frames /\ i = IF cur_frame = BlkNum - 1 THEN 0 ELSE cur_frame + 1
    /\ s \in -1 .. MaxSerial /\ s = IF t = "DUMMY" THEN cur_serial ELSE cur_serial + 1
    /\ cur_frame' = i /\ cur_serial' = s
    /\ cur_blk' = nextblk + k - 1 /\ blk_free' = blk_free - k
    /\ frame' \in [Frames -> FrameInfo]
    /\ gop' \in [last_Start : Frames \cup {-1}, lastest_I : Frames \cup {-1}]
    /\ frame'[i].serial = s /\ frame'[i].type = t
    /\ frame'[i].blkindex = nextblk /\ frame'[i].blks = k
    /\ \A j \in Frames \ {i} :
           /\ frame'[j].serial = frame[j].serial /\ frame'[j].type = frame[j].type
           /\ frame'[j].blkindex = frame[j].blkindex /\ frame'[j].blks = frame[j].blks

LEMMA NextBlk ==
    ASSUME TypeOK
    PROVE  nextblk \in Blocks /\ nextblk = IF cur_blk = BlkNum - 1 THEN 0 ELSE cur_blk + 1
<1>1. cur_blk \in -1 .. BlkNum - 1
    BY BlkNumAssumption DEF TypeOK, Blocks
<1> QED
    BY <1>1, After DEF Blocks, nextblk

LEMMA InsertFacts ==
    ASSUME TypeOK, NEW k \in 1 .. BlkNum, NEW t \in Types \cup {"DUMMY"}, Insert(k, t),
           nextblk + k <= BlkNum, t \in Types => cur_serial < MaxSerial
    PROVE  \E i, s : Inserted(k, t, i, s)
<1>1. PICK i, s : /\ i = (cur_frame + 1) % BlkNum
                  /\ s = IF t = "DUMMY" THEN cur_serial ELSE cur_serial + 1
    OBVIOUS
<1>2. i \in Frames /\ i = IF cur_frame = BlkNum - 1 THEN 0 ELSE cur_frame + 1
    <2>1. cur_frame \in -1 .. BlkNum - 1
        BY BlkNumAssumption DEF TypeOK, Frames
    <2> QED
        BY <1>1, <2>1, After DEF Frames
<1>3. s \in -1 .. MaxSerial
    BY <1>1, MaxSerialAssumption DEF TypeOK, Types
<1>4. nextblk \in Blocks /\ nextblk + k - 1 \in 0 .. BlkNum - 1
    BY NextBlk, BlkNumAssumption DEF Blocks
<1>5. PICK r : r = [serial |-> s, type |-> t, blkindex |-> nextblk, blks |-> k, flag |-> 0]
    OBVIOUS
<1>6. r \in FrameInfo /\ r.serial = s /\ r.type = t /\ r.blkindex = nextblk /\ r.blks = k
    BY <1>3, <1>4, <1>5 DEF FrameInfo
<1>7. PICK tab \in [Frames -> FrameInfo] : tab = [frame EXCEPT ![i] = r]
    BY <1>2, <1>6 DEF TypeOK
<1>8. frame' = SetFlag(tab, i) /\ cur_frame' = i /\ cur_serial' = s /\ blk_free' = blk_free - k
    BY <1>1, <1>5, <1>7 DEF Insert, nextblk
<1>9. cur_blk' = nextblk + k - 1
    <2>1. cur_blk' = (nextblk + k - 1) % BlkNum
        BY DEF Insert, nextblk
    <2> QED
        BY <1>4, <2>1, Modulo, BlkNumAssumption
<1>10. tab[i] = r /\ \A j \in Frames \ {i} : tab[j] = frame[j]
    BY <1>2, <1>7 DEF TypeOK
<1>11. frame' \in [Frames -> FrameInfo] /\
           \A j \in Frames : /\ frame'[j].serial = tab[j].serial
                             /\ frame'[j].type = tab[j].type
                             /\ frame'[j].blkindex = tab[j].blkindex
                             /\ frame'[j].blks = tab[j].blks
    BY <1>2, <1>8, FlagsOnly
<1>12. gop' \in [last_Start : Frames \cup {-1}, lastest_I : Frames \cup {-1}]
    BY <1>1, <1>2 DEF Insert, TypeOK
<1>13. Inserted(k, t, i, s)
    BY <1>1, <1>2, <1>3, <1>6, <1>8, <1>9, <1>10, <1>11, <1>12 DEF Inserted
<1> QED
    BY <1>13

-----------------------------------------------------------------------------
(* A frame is inserted.                                                    *)

LEMMA AgeRange ==
    ASSUME TypeOK, NEW i \in Frames
    PROVE  Age(i) \in 0 .. BlkNum /\ (cur_frame # -1 => Age(i) <= BlkNum - 1)
BY BlkNumAssumption DEF TypeOK, Frames, Age

LEMMA BackRange ==
    ASSUME TypeOK, InBounds, Fresh, NEW i \in Used
    PROVE  /\ Back(i) \in 0 .. BlkNum - 1 /\ cur_frame # -1 /\ cur_blk \in 0 .. BlkNum - 1
           /\ Back(i) = LET l == frame[i].blkindex + frame[i].blks - 1
                        IN  IF l <= cur_blk THEN cur_blk - l ELSE cur_blk + BlkNum - l
           /\ frame[i].blkindex + frame[i].blks - 1 \in 0 .. BlkNum - 1
<1>1. cur_blk \in 0 .. BlkNum - 1 /\ cur_frame # -1
    BY DEF Fresh, TypeOK, Blocks
<1>2. frame[i].blkindex + frame[i].blks - 1 \in 0 .. BlkNum - 1
    BY UsedFields, BlkNumAssumption DEF InBounds
<1> QED
    BY <1>1, <1>2, BlkNumAssumption DEF Back, BlkBack

LEMMA InsertStep ==
    ASSUME TypeOK, Ring, NEW k \in 1 .. BlkNum, NEW t \in Types \cup {"DUMMY"}, NEW i, NEW s,
           Inserted(k, t, i, s), k <= blk_free, nextblk + k <= BlkNum
    PROVE  i \notin Used /\ Used' = Used \cup {i} /\ Ring'
<1>1. /\ i \in Frames /\ i = IF cur_frame = BlkNum - 1 THEN 0 ELSE cur_frame + 1
      /\ s \in Int /\ s = IF t = "DUMMY" THEN cur_serial ELSE cur_serial + 1
      /\ cur_frame' = i /\ cur_serial' = s
      /\ cur_blk' = nextblk + k - 1 /\ blk_free' = blk_free - k
      /\ frame' \in [Frames -> FrameInfo]
      /\ frame'[i].serial = s /\ frame'[i].type = t
      /\ frame'[i].blkindex = nextblk /\ frame'[i].blks = k
      /\ \A j \in Frames \ {i} :
             /\ frame'[j].serial = frame[j].serial /\ frame'[j].type = frame[j].type
             /\ frame'[j].blkindex = frame[j].blkindex /\ frame'[j].blks = frame[j].blks
    BY MaxSerialAssumption DEF Inserted
<1>2. /\ cur_frame \in -1 .. BlkNum - 1 /\ cur_blk \in -1 .. BlkNum - 1
      /\ blk_free \in 0 .. BlkNum /\ cur_serial \in Int
      /\ nextblk = IF cur_blk = BlkNum - 1 THEN 0 ELSE cur_blk + 1
      /\ BlkNum \in Nat \ {0} /\ k \in Nat \ {0} /\ nextblk \in 0 .. BlkNum - 1
    BY BlkNumAssumption, NextBlk DEF TypeOK, Frames, Blocks
<1>3. BlkUsed' = BlkUsed + k /\ BlkUsed \in 0 .. BlkNum - k
    BY <1>1, <1>2 DEF BlkUsed
<1>4. i \notin Used
    <2> SUFFICES ASSUME i \in Used PROVE FALSE
        OBVIOUS
    <2>1. Age(i) = BlkNum - 1
        BY <1>1, <1>2, BackRange DEF Ring, Age
    <2>2. Back(i) \in Int /\ frame[i].blks \in 1 .. BlkNum
        BY BackRange, UsedFields DEF Ring
    <2>3. Age(i) <= Back(i) /\ Back(i) + frame[i].blks <= BlkUsed
        BY DEF Ring, Extent
    <2> QED
        BY <1>2, <1>3, <2>1, <2>2, <2>3
<1>5. Used' = Used \cup {i}
    BY <1>1 DEF Used, Types
<1>6. \A j \in Used :
          /\ j \in Frames /\ j # i
          /\ frame'[j].serial = frame[j].serial /\ frame'[j].type = frame[j].type
          /\ frame'[j].blkindex = frame[j].blkindex /\ frame'[j].blks = frame[j].blks
    BY <1>1, <1>4 DEF Used
<1>7. \A j \in Frames \ {i} : Age(j)' = Age(j) + 1
    <2> SUFFICES ASSUME NEW j \in 0 .. BlkNum - 1, j # i
                 PROVE  Age(j)' = Age(j) + 1
        BY DEF Frames
    <2>1. i = (IF cur_frame = BlkNum - 1 THEN 0 ELSE cur_frame + 1) /\ i \in Int
        BY <1>1, <1>2
    <2>2. Age(j)' = IF j <= i THEN i - j ELSE i + BlkNum - j
        BY <1>1 DEF Age
    <2> QED
        BY <1>2, <2>1, <2>2 DEF Age
<1>8. Age(i)' = 0 /\ Back(i)' = 0
    BY <1>1, <1>2 DEF Age, Back, BlkBack, Frames
<1>9. \A j \in Used : Back(j)' = Back(j) + k
    <2> SUFFICES ASSUME NEW j \in Used PROVE Back(j)' = Back(j) + k
        OBVIOUS
    <2>1. PICK l : l = frame[j].blkindex + frame[j].blks - 1
        OBVIOUS
    <2>2. /\ l \in 0 .. BlkNum - 1 /\ cur_blk \in 0 .. BlkNum - 1 /\ Back(j) \in 0 .. BlkNum - 1
          /\ Back(j) = IF l <= cur_blk THEN cur_blk - l ELSE cur_blk + BlkNum - l
        BY <2>1, BackRange DEF Ring
    <2>3. Back(j) + 1 <= BlkUsed
        <3>1. frame[j].blks \in 1 .. BlkNum
            BY UsedFields
        <3>2. Back(j) + frame[j].blks <= BlkUsed
            BY DEF Ring, Extent
        <3> QED
            BY <1>2, <1>3, <2>2, <3>1, <3>2
    <2>4. Back(j)' = IF l <= cur_blk' THEN cur_blk' - l ELSE cur_blk' + BlkNum - l
        BY <1>6, <2>1 DEF Back, BlkBack
    <2> QED
        BY <1>1, <1>2, <1>3, <2>2, <2>3, <2>4
<1>10. \A j \in Used : Age(j) \in 0 .. BlkNum - 1 /\ Back(j) \in 0 .. BlkNum - 1
                       /\ frame[j].blks \in 1 .. BlkNum /\ frame[j].serial \in Int
    BY <1>6, AgeRange, BackRange, UsedFields, BlkNumAssumption DEF Ring
<1>11. InBounds'
    BY <1>1, <1>5, <1>6 DEF Ring, InBounds
<1>12. Fresh'
    BY <1>1, <1>2 DEF Fresh, Frames
<1>13. Youngest'
    <2> SUFFICES ASSUME NEW a \in Frames, NEW b \in Frames, b \in Used', Age(a)' < Age(b)'
                 PROVE  a \in Used'
        BY DEF Youngest
    <2>1. CASE a = i
        BY <1>5, <2>1
    <2>2. CASE a # i
        <3>1. Age(a)' = Age(a) + 1 /\ Age(a) \in Nat
            BY <1>7, <2>2, AgeRange, BlkNumAssumption
        <3>2. b # i
            BY <1>8, <3>1
        <3>3. b \in Used /\ Age(b)' = Age(b) + 1 /\ Age(b) \in Nat
            BY <1>5, <1>7, <3>2, AgeRange, BlkNumAssumption
        <3> QED
            BY <1>5, <3>1, <3>3 DEF Ring, Youngest
    <2> QED
        BY <2>1, <2>2
<1>14. InOrder'
    <2> SUFFICES ASSUME NEW a \in Used', NEW b \in Used', Age(a)' < Age(b)'
                 PROVE  /\ Back(a)' + frame'[a].blks <= Back(b)'
                        /\ Age(b)' = Age(a)' + 1 => Back(a)' + frame'[a].blks = Back(b)'
                        /\ a \in Stored' => frame'[a].serial > frame'[b].serial
        BY DEF InOrder
    <2>1. b \in Used /\ Age(b)' = Age(b) + 1 /\ Back(b)' = Back(b) + k
        <3>1. b # i
            <4>1. a \in Used => Age(a)' = Age(a) + 1 /\ Age(a) \in Nat
                BY <1>6, <1>7, <1>10, BlkNumAssumption
            <4> QED
                BY <1>5, <1>8, <4>1
        <3> QED
            BY <1>5, <1>6, <1>7, <1>9, <3>1
    <2>2. CASE a = i
        <3>1. i \in Stored' => s = cur_serial + 1
            BY <1>1 DEF Stored, Types
        <3>2. frame[b].serial <= cur_serial /\ Age(b) <= Back(b)
            BY <2>1 DEF Ring, Extent
        <3>3. Age(b) = 0 => Back(b) = 0
            <4>1. Age(b) = 0 => b = cur_frame
                BY <1>2, <1>6, <2>1, BackRange DEF Age, Frames, Ring
            <4> QED
                BY <2>1, <4>1 DEF Ring, Extent
        <3>4. Back(b) \in Nat /\ Age(b) \in Nat /\ frame[b].serial \in Int
            BY <1>10, <2>1, BlkNumAssumption
        <3>5. frame'[b].serial = frame[b].serial
            BY <1>6, <2>1
        <3> QED
            BY <1>1, <1>2, <1>8, <2>1, <2>2, <3>1, <3>2, <3>3, <3>4, <3>5
    <2>3. CASE a # i
        <3>1. a \in Used /\ Age(a)' = Age(a) + 1 /\ Back(a)' = Back(a) + k
            BY <1>5, <1>6, <1>7, <1>9, <2>3
        <3>2. a \in Stored' => a \in Stored
            BY <1>6, <3>1 DEF Stored
        <3>3. /\ Age(a) \in Nat /\ Age(b) \in Nat /\ Back(a) \in Nat /\ Back(b) \in Nat
              /\ frame[a].blks \in Nat
            BY <1>10, <2>1, <3>1, BlkNumAssumption
        <3>4. Age(a) < Age(b)
            BY <2>1, <3>1, <3>3
        <3>5. /\ Back(a) + frame[a].blks <= Back(b)
              /\ Age(b) = Age(a) + 1 => Back(a) + frame[a].blks = Back(b)
              /\ a \in Stored => frame[a].serial > frame[b].serial
            BY <2>1, <3>1, <3>4 DEF Ring, InOrder
        <3>6. frame'[a].blks = frame[a].blks /\ frame'[a].serial = frame[a].serial
              /\ frame'[b].serial = frame[b].serial
            BY <1>6, <2>1, <3>1
        <3> QED
            BY <1>2, <2>1, <3>1, <3>2, <3>3, <3>5, <3>6
    <2> QED
        BY <2>2, <2>3
<1>15. Extent'
    <2>1. \A a \in Used' :
              /\ Age(a)' <= Back(a)'
              /\ Back(a)' + frame'[a].blks <= BlkUsed'
              /\ (\A j \in Used' : Age(j)' <= Age(a)') => Back(a)' + frame'[a].blks = BlkUsed'
              /\ frame'[a].serial <= cur_serial'
        <3> SUFFICES ASSUME NEW a \in Used'
                     PROVE  /\ Age(a)' <= Back(a)'
                            /\ Back(a)' + frame'[a].blks <= BlkUsed'
                            /\ (\A j \in Used' : Age(j)' <= Age(a)')
                                   => Back(a)' + frame'[a].blks = BlkUsed'
                            /\ frame'[a].serial <= cur_serial'
            OBVIOUS
        <3>1. CASE a = i
            <4>1. (\A j \in Used' : Age(j)' <= Age(a)') => Used = {}
                BY <1>5, <1>6, <1>7, <1>8, <1>10, <3>1, BlkNumAssumption
            <4>2. Used = {} => BlkUsed = 0
                BY DEF Ring, Extent
            <4> QED
                BY <1>1, <1>2, <1>3, <1>8, <3>1, <4>1, <4>2
        <3>2. CASE a # i
            <4>1. /\ a \in Used /\ Age(a)' = Age(a) + 1 /\ Back(a)' = Back(a) + k
                  /\ frame'[a].blks = frame[a].blks /\ frame'[a].serial = frame[a].serial
                BY <1>5, <1>6, <1>7, <1>9, <3>2
            <4>2. /\ Age(a) <= Back(a) /\ Back(a) + frame[a].blks <= BlkUsed
                  /\ (\A j \in Used : Age(j) <= Age(a)) => Back(a) + frame[a].blks = BlkUsed
                  /\ frame[a].serial <= cur_serial
                BY <4>1 DEF Ring, Extent
            <4>3. \A j \in Used : Age(j)' <= Age(a)' => Age(j) <= Age(a)
                BY <1>6, <1>7, <1>10, <4>1, BlkNumAssumption
            <4>4. (\A j \in Used' : Age(j)' <= Age(a)') => \A j \in Used : Age(j) <= Age(a)
                BY <1>5, <4>3
            <4>5. Age(a) \in Nat /\ Back(a) \in Nat /\ frame[a].blks \in Nat /\ frame[a].serial \in Int
                BY <1>10, <4>1, BlkNumAssumption
            <4>6. cur_serial <= cur_serial'
                BY <1>1, <1>2
            <4> QED
                BY <1>1, <1>2, <1>3, <4>1, <4>2, <4>4, <4>5, <4>6
        <3> QED
            BY <3>1, <3>2
    <2> QED
        BY <1>1, <1>5, <1>8, <2>1 DEF Extent
<1>16. Covered'
    <2> SUFFICES ASSUME NEW b \in Blocks, BlkBack(b)' < BlkUsed'
                 PROVE  \E j \in Used' : b \in BlksOf(j)'
        BY DEF Covered
    <2>1. CASE b \in nextblk .. nextblk + k - 1
        BY <1>1, <1>5, <2>1 DEF BlksOf
    <2>2. CASE b \notin nextblk .. nextblk + k - 1
        <3>1. b \in 0 .. BlkNum - 1 /\ (b < nextblk \/ b > nextblk + k - 1)
            BY <1>2, <2>2 DEF Blocks
        <3>2. BlkBack(b)' = IF b <= cur_blk' THEN cur_blk' - b ELSE cur_blk' + BlkNum - b
            BY DEF BlkBack
        <3>3. cur_blk # -1
            <4>1. cur_blk = -1 => Used = {} /\ nextblk = 0
                BY <1>2 DEF Ring, Fresh
            <4>2. Used = {} => BlkUsed = 0
                BY DEF Ring, Extent
            <4> QED
                BY <1>1, <1>2, <1>3, <3>1, <3>2, <4>1, <4>2
        <3>4. BlkBack(b)' = BlkBack(b) + k /\ BlkBack(b) \in Int
            BY <1>1, <1>2, <3>1, <3>2, <3>3 DEF BlkBack
        <3>5. BlkBack(b) < BlkUsed
            BY <1>2, <1>3, <3>4
        <3>6. PICK j \in Used : b \in BlksOf(j)
            BY <3>3, <3>5 DEF Ring, Covered
        <3>7. BlksOf(j)' = BlksOf(j)
            BY <1>6 DEF BlksOf
        <3> QED
            BY <1>5, <3>6, <3>7
    <2> QED
        BY <2>1, <2>2
<1> QED
    BY <1>4, <1>5, <1>11, <1>12, <1>13, <1>14, <1>15, <1>16 DEF Ring

-----------------------------------------------------------------------------
(* A frame is freed.                                                       *)

\* The blocks of a frame, seen from the last write.
LEMMA BlksBack ==
    ASSUME TypeOK, Ring, NEW i \in Used, NEW b \in BlksOf(i)
    PROVE  b \in Blocks /\ BlkBack(b) \in Back(i) .. Back(i) + frame[i].blks - 1
<1>1. PICK x, n, l : x = frame[i].blkindex /\ n = frame[i].blks /\ l = x + n - 1
    OBVIOUS
<1>2. /\ x \in 0 .. BlkNum - 1 /\ n \in 1 .. BlkNum /\ l \in 0 .. BlkNum - 1
      /\ Back(i) = (IF l <= cur_blk THEN cur_blk - l ELSE cur_blk + BlkNum - l)
      /\ cur_blk \in 0 .. BlkNum - 1
    BY <1>1, UsedFields, BackRange DEF Ring
<1>3. Back(i) + n <= BlkUsed /\ BlkUsed <= BlkNum
    <2>1. Back(i) + n <= BlkUsed
        BY <1>1 DEF Ring, Extent
    <2> QED
        BY <2>1, BlkNumAssumption DEF BlkUsed, TypeOK
<1>4. b \in x .. l
    BY <1>1 DEF BlksOf
<1>5. BlkUsed \in Int
    BY BlkNumAssumption DEF BlkUsed, TypeOK
<1>6. b \in 0 .. BlkNum - 1 /\ BlkNum \in Nat
    BY <1>2, <1>4, BlkNumAssumption
<1>7. BlkBack(b) = IF b <= cur_blk THEN cur_blk - b ELSE cur_blk + BlkNum - b
    BY DEF BlkBack
<1>8. BlkBack(b) \in Back(i) .. Back(i) + n - 1
    BY <1>1, <1>2, <1>3, <1>4, <1>5, <1>6, <1>7
<1> QED
    BY <1>1, <1>6, <1>8 DEF Blocks

LEMMA AgeInjective ==
    ASSUME TypeOK, cur_frame # -1, NEW i \in Frames, NEW j \in Frames, Age(i) = Age(j)
    PROVE  i = j
BY BlkNumAssumption DEF TypeOK, Frames, Age

\* Every age is that of a frame.
LEMMA AgeOnto ==
    ASSUME TypeOK, cur_frame # -1, NEW m \in 0 .. BlkNum - 1
    PROVE  \E i \in Frames : Age(i) = m
<1>1. cur_frame \in 0 .. BlkNum - 1 /\ BlkNum \in Nat
    BY BlkNumAssumption DEF TypeOK, Frames
<1>2. CASE m <= cur_frame
    <2>1. cur_frame - m \in Frames /\ Age(cur_frame - m) = m
        BY <1>1, <1>2 DEF Frames, Age
    <2> QED
        BY <2>1
<1>3. CASE m > cur_frame
    <2>1. cur_frame + BlkNum - m \in Frames /\ Age(cur_frame + BlkNum - m) = m
        BY <1>1, <1>3 DEF Frames, Age
    <2> QED
        BY <2>1
<1> QED
    BY <1>1, <1>2, <1>3

\* The entry a write frees is the oldest, if there is anything in it.
LEMMA FreedIsOldest ==
    ASSUME FInv, NEW f, f = (cur_frame + 1 + job.free_cnt) % BlkNum, job # NoJob, job.blks > blk_free
    PROVE  /\ f \in Frames /\ job.free_cnt + 1 <= BlkNum
           /\ \A j \in Used : Age(j) <= Age(f) /\ (j # f => Age(j) < Age(f))
           /\ \A j \in Used : j # f => Age(j) < BlkNum - (job.free_cnt + 1)
<1>1. PICK n : n = job.free_cnt
    OBVIOUS
<1>2. n \in 0 .. BlkNum /\ job.blks \in 1 .. BlkNum
    BY <1>1 DEF FInv, TypeOK, Jobs
<1>3. cur_frame \in -1 .. BlkNum - 1 /\ BlkNum \in Nat \ {0} /\ blk_free \in 0 .. BlkNum
    BY BlkNumAssumption DEF FInv, TypeOK, Frames
<1>4. \A j \in Used : j \in Frames /\ Age(j) < BlkNum - n /\ Age(j) \in Nat /\ cur_frame # -1
    <2> SUFFICES ASSUME NEW j \in Used
                 PROVE  j \in Frames /\ Age(j) < BlkNum - n /\ Age(j) \in Nat /\ cur_frame # -1
        OBVIOUS
    <2>1. j \in Frames
        BY DEF Used
    <2> QED
        BY <1>1, <1>3, <2>1, AgeRange DEF FInv, Progress, Ring, Fresh
<1>5. Used # {}
    BY <1>2, <1>3 DEF FInv, Ring, Extent, BlkUsed
<1>6. n < BlkNum
    BY <1>2, <1>3, <1>4, <1>5
<1>7. f = IF cur_frame + 1 + n < BlkNum THEN cur_frame + 1 + n ELSE cur_frame + 1 + n - BlkNum
    <2>1. PICK x \in 0 .. BlkNum + BlkNum - 1 : x = cur_frame + 1 + n
        BY <1>2, <1>3, <1>6
    <2>2. x % BlkNum = IF x < BlkNum THEN x ELSE x - BlkNum
        BY Modulo
    <2>3. x = cur_frame + 1 + job.free_cnt
        BY <1>1, <2>1
    <2>4. f = x % BlkNum
        BY <2>3
    <2>5. f = IF x < BlkNum THEN x ELSE x - BlkNum
        BY <2>2, <2>4
    <2> QED
        BY <1>2, <1>3, <2>1, <2>5
<1>8. f \in Frames /\ f \in 0 .. BlkNum - 1
    BY <1>2, <1>3, <1>6, <1>7 DEF Frames
<1>9. cur_frame # -1 => Age(f) = BlkNum - 1 - n
    BY <1>2, <1>3, <1>6, <1>7, <1>8 DEF Age
<1>10. ASSUME NEW j \in Used
       PROVE  Age(j) <= Age(f) /\ (j # f => Age(j) < Age(f)) /\ Age(f) = BlkNum - 1 - n
    <2>1. j # f => Age(j) # Age(f)
        BY <1>4, <1>8, AgeInjective DEF FInv
    <2> QED
        BY <1>2, <1>3, <1>4, <1>9, <2>1
<1> QED
    BY <1>1, <1>2, <1>3, <1>4, <1>6, <1>8, <1>10

LEMMA FreeOldestStep ==
    ASSUME FInv, FreeOldest
    PROVE  FInv'
<1>1. PICK f, J : f = (cur_frame + 1 + job.free_cnt) % BlkNum /\ J = job
    OBVIOUS
<1>2. /\ J # NoJob /\ J.blks > blk_free
      /\ VidFrame_Free(f)
      /\ job' = [J EXCEPT !.free_cnt = @ + 1]
      /\ UNCHANGED <<cur_frame, cur_serial, cur_blk>>
    BY <1>1 DEF FreeOldest, pos
<1>3. /\ f \in Frames /\ J.free_cnt + 1 <= BlkNum
      /\ \A j \in Used : Age(j) <= Age(f) /\ (j # f => Age(j) < Age(f))
      /\ \A j \in Used : j # f => Age(j) < BlkNum - (J.free_cnt + 1)
    BY <1>1, <1>2, FreedIsOldest
<1>4. J \in Jobs /\ J.free_cnt \in Nat
    BY <1>1, <1>2, BlkNumAssumption DEF FInv, TypeOK, Jobs
<1>5. job' \in Jobs /\ job'.free_cnt = J.free_cnt + 1 /\ job' # NoJob
    BY <1>2, <1>3, <1>4, BlkNumAssumption, NoJobAssumption DEF Jobs
<1>6. cur_serial' < MaxSerial
    BY <1>1, <1>2 DEF FInv, Progress
<1>7. /\ cur_frame \in -1 .. BlkNum - 1 /\ cur_blk \in -1 .. BlkNum - 1
      /\ blk_free \in 0 .. BlkNum /\ BlkNum \in Nat \ {0}
    BY BlkNumAssumption DEF FInv, TypeOK, Frames, Blocks
<1>8. \A i : Age(i)' = Age(i)
    BY <1>2 DEF Age
<1>9. CASE frame[f].type = "EMPTY"
    <2>1. UNCHANGED <<frame, blk_free, gop>>
        BY <1>2, <1>9 DEF VidFrame_Free
    <2>2. TypeOK'
        BY <1>2, <1>5, <2>1 DEF FInv, TypeOK
    <2>3. Ring'
        BY <1>2, <2>1 DEF FInv, Ring, InBounds, Fresh, Youngest, InOrder, Extent, Covered, Used, Stored,
                          Age, BlkBack, Back, BlkUsed, BlksOf
    <2>4. f \notin Used
        BY <1>9 DEF Used
    <2>5. Progress'
        BY <1>3, <1>5, <1>6, <1>8, <2>1, <2>4 DEF Progress, Used
    <2> QED
        BY <2>2, <2>3, <2>5 DEF FInv
<1>10. CASE frame[f].type # "EMPTY"
    <2>1. /\ blk_free' = blk_free + frame[f].blks
          /\ frame' = [frame EXCEPT ![f] = EmptyFrame]
          /\ gop' \in [last_Start : Frames \cup {-1}, lastest_I : Frames \cup {-1}]
        BY <1>2, <1>10 DEF VidFrame_Free, FInv, TypeOK
    <2>2. f \in Used
        BY <1>3, <1>10 DEF Used
    <2>3. frame'[f] = EmptyFrame /\ \A j \in Frames \ {f} : frame'[j] = frame[j]
        BY <1>3, <2>1 DEF FInv, TypeOK
    <2>4. Used' = Used \ {f} /\ Stored' = Stored \ {f}
        BY <1>3, <2>3 DEF Used, Stored, EmptyFrame, Types
    <2>5. \A j \in Used' : /\ j \in Used /\ j # f /\ frame'[j] = frame[j] /\ Back(j)' = Back(j)
                           /\ BlksOf(j)' = BlksOf(j)
        <3>1. \A j \in Used' : j \in Used /\ j # f /\ frame'[j] = frame[j]
            BY <2>3, <2>4 DEF Used
        <3> QED
            BY <1>2, <3>1 DEF Back, BlkBack, BlksOf
    <2>6. \A j \in Used : Age(j) \in 0 .. BlkNum - 1 /\ Back(j) \in 0 .. BlkNum - 1
                          /\ frame[j].blks \in 1 .. BlkNum /\ j \in Frames /\ cur_frame # -1
        <3>1. \A j \in Used : j \in Frames
            BY DEF Used
        <3> QED
            BY <1>7, <3>1, AgeRange, BackRange, UsedFields DEF FInv, Ring
    <2>7. BlkUsed' = Back(f) /\ BlkUsed \in 0 .. BlkNum
        <3>1. Back(f) + frame[f].blks = BlkUsed
            BY <1>3, <2>2 DEF FInv, Ring, Extent
        <3> QED
            BY <1>7, <2>1, <2>2, <2>6, <3>1 DEF BlkUsed
    <2>8. TypeOK'
        <3>1. frame' \in [Frames -> FrameInfo]
            BY <1>3, <2>1 DEF FInv, TypeOK, FrameInfo
        <3>2. blk_free' \in 0 .. BlkNum
            BY <1>7, <2>1, <2>2, <2>6, <2>7 DEF BlkUsed
        <3> QED
            BY <1>2, <1>5, <2>1, <3>1, <3>2 DEF FInv, TypeOK
    <2>9. InBounds' /\ Fresh'
        BY <1>2, <2>2, <2>4, <2>5, <2>6 DEF FInv, Ring, InBounds, Fresh
    <2>10. Youngest'
        <3> SUFFICES ASSUME NEW a \in Frames, NEW b \in Used', Age(a) < Age(b)
                     PROVE  a \in Used'
            BY <1>8 DEF Youngest
        <3>1. b \in Used /\ b \in Frames /\ b # f
            BY <2>5, <2>6
        <3>2. a \in Used
            BY <3>1 DEF FInv, Ring, Youngest
        <3>3. a # f
            BY <1>3, <2>2, <2>6, <3>1
        <3> QED
            BY <2>4, <3>2, <3>3
    <2>11. InOrder'
        BY <1>8, <2>4, <2>5 DEF FInv, Ring, InOrder
    <2>12. Extent'
        <3>1. \A a \in Used' : Age(a) < Age(f) /\ Back(a) + frame[a].blks <= Back(f)
            BY <1>3, <2>2, <2>5 DEF FInv, Ring, InOrder
        <3>2. ASSUME NEW a \in Used', \A j \in Used' : Age(j) <= Age(a)
              PROVE  Back(a) + frame[a].blks = Back(f)
            <4>1. a \in Used /\ Age(a) \in 0 .. BlkNum - 1 /\ Age(f) \in 0 .. BlkNum - 1
                  /\ Age(a) < Age(f) /\ cur_frame # -1
                BY <2>2, <2>5, <2>6, <3>1
            <4>2. PICK g \in Frames : Age(g) = Age(a) + 1
                <5>1. Age(a) + 1 \in 0 .. BlkNum - 1
                    BY <1>7, <4>1
                <5> QED
                    BY <4>1, <5>1, AgeOnto DEF FInv
            <4>3. g = f
                <5>1. Age(g) < Age(f) => g \in Used
                    BY <1>3, <2>2 DEF FInv, Ring, Youngest
                <5>2. g \in Used /\ g # f => g \in Used'
                    BY <2>4
                <5>3. Age(g) = Age(f) => g = f
                    BY <1>3, <4>1, AgeInjective DEF FInv
                <5> QED
                    BY <3>2, <4>1, <4>2, <5>1, <5>2, <5>3
            <4> QED
                BY <2>2, <4>1, <4>2, <4>3 DEF FInv, Ring, InOrder
        <3>3. Used' = {} => Back(f) = 0
            <4>1. cur_frame \in Frames /\ Age(cur_frame) = 0
                BY <1>7, <2>2, <2>6 DEF Age, Frames
            <4>2. Age(f) # 0 => cur_frame \in Used /\ cur_frame # f
                BY <1>3, <2>2, <2>6, <4>1 DEF FInv, Ring, Youngest
            <4>3. Age(f) = 0 => f = cur_frame
                BY <1>3, <2>2, <2>6, <4>1, AgeInjective DEF FInv
            <4> QED
                BY <2>2, <2>4, <4>2, <4>3 DEF FInv, Ring, Extent
        <3>4. cur_frame' \in Used' => Back(cur_frame)' = 0
            <4>1. cur_frame' \in Used' => cur_frame \in Used /\ Back(cur_frame)' = Back(cur_frame)
                BY <1>2, <2>5 DEF Back, BlkBack
            <4> QED
                BY <4>1 DEF FInv, Ring, Extent
        <3>5. \A a \in Used' : Age(a) <= Back(a) /\ frame[a].serial <= cur_serial
            BY <2>5 DEF FInv, Ring, Extent
        <3>6. \A a \in Used' : /\ Age(a)' = Age(a) /\ Back(a)' = Back(a)
                               /\ frame'[a] = frame[a]
            BY <1>8, <2>5
        <3>7. \A a \in Used' :
                  /\ Age(a)' <= Back(a)'
                  /\ Back(a)' + frame'[a].blks <= BlkUsed'
                  /\ (\A j \in Used' : Age(j)' <= Age(a)') => Back(a)' + frame'[a].blks = BlkUsed'
                  /\ frame'[a].serial <= cur_serial'
            BY <1>2, <2>7, <3>1, <3>2, <3>5, <3>6
        <3> QED
            BY <2>7, <3>3, <3>4, <3>7 DEF Extent
    <2>13. Covered'
        <3> SUFFICES ASSUME NEW b \in Blocks, cur_blk # -1, BlkBack(b) < Back(f)
                     PROVE  \E j \in Used' : b \in BlksOf(j)'
            BY <1>2, <2>7 DEF Covered, BlkBack
        <3>1. BlkBack(b) \in Int /\ Back(f) \in Int /\ Back(f) <= BlkUsed
            <4>1. Back(f) + frame[f].blks = BlkUsed
                BY <1>3, <2>2 DEF FInv, Ring, Extent
            <4> QED
                BY <1>7, <2>2, <2>6, <2>7, <4>1 DEF BlkBack, Blocks
        <3>2. PICK j \in Used : b \in BlksOf(j)
            BY <2>7, <3>1 DEF FInv, Ring, Covered
        <3>3. j # f
            BY <2>2, <3>1, <3>2, BlksBack DEF FInv
        <3> QED
            BY <2>4, <2>5, <3>2, <3>3
    <2>14. Progress'
        <3>1. \A j \in Used' : Age(j)' < BlkNum - job'.free_cnt
            BY <1>3, <1>5, <1>8, <2>5
        <3> QED
            BY <1>5, <1>6, <3>1 DEF Progress
    <2> QED
        BY <2>8, <2>9, <2>10, <2>11, <2>12, <2>13, <2>14 DEF FInv, Ring
<1> QED
    BY <1>9, <1>10

-----------------------------------------------------------------------------
(* Every step.                                                             *)

LEMMA Dummy == "DUMMY" \notin Types
BY DEF Types

LEMMA VideoWriteStep ==
    ASSUME FInv, NEW blks \in 1 .. BlkNum, NEW type \in Types, VideoWrite(blks, type)
    PROVE  FInv' /\ UNCHANGED <<frame, cur_frame, cur_serial>>
<1>1. /\ job = NoJob /\ cur_serial < MaxSerial
      /\ job' = [blks |-> blks, type |-> type, free_cnt |-> 0]
      /\ UNCHANGED <<frame, cur_frame, cur_serial, cur_blk, blk_free, gop>>
    BY DEF VideoWrite, pos
<1>2. job' \in Jobs /\ job'.free_cnt = 0 /\ job' # NoJob
    BY <1>1, BlkNumAssumption, NoJobAssumption DEF Jobs
<1>3. TypeOK'
    BY <1>1, <1>2 DEF FInv, TypeOK
<1>4. Ring'
    BY <1>1 DEF FInv, Ring, InBounds, Fresh, Youngest, InOrder, Extent, Covered, Used, Stored,
                Age, BlkBack, Back, BlkUsed, BlksOf
<1>5. \A i \in Used : Age(i) < BlkNum
    <2> SUFFICES ASSUME NEW i \in Used PROVE Age(i) < BlkNum
        OBVIOUS
    <2>1. i \in Frames /\ cur_frame # -1
        BY DEF Used, FInv, Ring, Fresh
    <2> QED
        BY <2>1, AgeRange, BlkNumAssumption DEF FInv
<1>6. Progress'
    BY <1>1, <1>2, <1>5, BlkNumAssumption DEF Progress, Used, Age
<1> QED
    BY <1>1, <1>3, <1>4, <1>6 DEF FInv

\* A write that goes on has a legal size and type.
LEMMA JobFields ==
    ASSUME FInv, job # NoJob
    PROVE  /\ job \in Jobs /\ job.blks \in 1 .. BlkNum /\ job.type \in Types
           /\ cur_serial < MaxSerial
BY DEF FInv, TypeOK, Jobs, Progress

LEMMA FillUpStep ==
    ASSUME FInv, FillUp
    PROVE  /\ FInv'
           /\ \E i, s, k : /\ Inserted(k, "DUMMY", i, s)
                           /\ i \notin Used /\ Used' = Used \cup {i}
<1>1. /\ job # NoJob /\ job.blks <= blk_free /\ nextblk + job.blks > BlkNum
      /\ Insert(BlkNum - nextblk, "DUMMY")
      /\ job' = [job EXCEPT !.free_cnt = 0]
    BY DEF FillUp, WouldWrap
<1>2. nextblk \in 0 .. BlkNum - 1 /\ BlkNum \in Nat \ {0} /\ blk_free \in 0 .. BlkNum
    BY NextBlk, BlkNumAssumption DEF FInv, Blocks, TypeOK
<1>3. PICK k \in 1 .. BlkNum : k = BlkNum - nextblk
    BY <1>2
<1>4. k <= blk_free /\ nextblk + k <= BlkNum
    BY <1>1, <1>2, <1>3, JobFields
<1>5. PICK i, s : Inserted(k, "DUMMY", i, s)
    BY <1>1, <1>3, <1>4, InsertFacts, Dummy DEF FInv
<1>6. i \notin Used /\ Used' = Used \cup {i} /\ Ring'
    BY <1>4, <1>5, InsertStep DEF FInv
<1>7. job' \in Jobs /\ job'.free_cnt = 0 /\ job' # NoJob
    BY <1>1, JobFields, BlkNumAssumption, NoJobAssumption DEF Jobs
<1>8. TypeOK'
    BY <1>2, <1>3, <1>4, <1>5, <1>7 DEF FInv, TypeOK, Inserted, Blocks
<1>9. Progress'
    <2>1. cur_serial' < MaxSerial
        BY <1>1, <1>5, JobFields DEF Inserted
    <2>2. \A j \in Used' : Age(j)' < BlkNum - 0
        <3> SUFFICES ASSUME NEW j \in Used' PROVE Age(j)' < BlkNum
            BY <1>2
        <3>1. j \in Frames /\ cur_frame' # -1
            BY <1>5 DEF Used, Inserted, Frames
        <3>3. cur_frame' \in 0 .. BlkNum - 1 /\ j \in 0 .. BlkNum - 1
            BY <1>5, <3>1 DEF Frames, Inserted
        <3>4. BlkNum \in Nat
            BY <1>2
        <3>5. PICK c \in 0 .. BlkNum - 1 : c = cur_frame'
            BY <3>3
        <3>6. (IF j <= c THEN c - j ELSE c + BlkNum - j) < BlkNum
            BY <3>3, <3>4
        <3>7. Age(j)' = IF j <= c THEN c - j ELSE c + BlkNum - j
            BY <3>5 DEF Age
        <3> QED
            BY <3>6, <3>7
    <2> QED
        BY <1>7, <2>1, <2>2 DEF Progress
<1> QED
    BY <1>5, <1>6, <1>8, <1>9 DEF FInv

LEMMA StoreStep ==
    ASSUME FInv, Store
    PROVE  /\ FInv'
           /\ \E i, s, k : /\ Inserted(k, job.type, i, s)
                           /\ i \notin Used /\ Used' = Used \cup {i}
<1>1. /\ job # NoJob /\ job.blks <= blk_free /\ ~ (nextblk + job.blks > BlkNum)
      /\ Insert(job.blks, job.type)
      /\ job' = NoJob
    BY DEF Store, WouldWrap
<1>2. PICK k, t : k = job.blks /\ t = job.type
    OBVIOUS
<1>3. k \in 1 .. BlkNum /\ t \in Types /\ t # "DUMMY" /\ cur_serial < MaxSerial
    BY <1>1, <1>2, JobFields, Dummy
<1>4. nextblk \in 0 .. BlkNum - 1 /\ BlkNum \in Nat \ {0} /\ blk_free \in 0 .. BlkNum
    BY NextBlk, BlkNumAssumption DEF FInv, Blocks, TypeOK
<1>5. k <= blk_free /\ nextblk + k <= BlkNum
    BY <1>1, <1>2, <1>3, <1>4
<1>6. PICK i, s : Inserted(k, t, i, s)
    BY <1>1, <1>2, <1>3, <1>5, InsertFacts DEF FInv
<1>7. i \notin Used /\ Used' = Used \cup {i} /\ Ring'
    BY <1>3, <1>5, <1>6, InsertStep DEF FInv
<1>8. TypeOK'
    BY <1>1, <1>3, <1>4, <1>5, <1>6 DEF FInv, TypeOK, Inserted, Blocks
<1>9. Progress'
    BY <1>1, <1>3, <1>6 DEF Progress, Inserted, Stored
<1> QED
    BY <1>2, <1>6, <1>7, <1>8, <1>9 DEF FInv

LEMMA InvariantStep == FInv /\ [Next]_vars => FInv'
<1> SUFFICES ASSUME FInv, [Next]_vars PROVE FInv'
    OBVIOUS
<1>1. CASE UNCHANGED vars
    BY <1>1 DEF vars, pos, FInv, TypeOK, Ring, InBounds, Fresh, Youngest, InOrder, Extent, Covered,
                Used, Stored, Age, BlkBack, Back, BlkUsed, BlksOf, Progress
<1> QED
    BY <1>1, VideoWriteStep, FreeOldestStep, FillUpStep, StoreStep DEF Next, WriteStep

LEMMA Initially == Init => FInv
<1> SUFFICES ASSUME Init PROVE FInv
    OBVIOUS
<1>1. frame \in [Frames -> FrameInfo] /\ Used = {} /\ cur_frame = -1 /\ cur_blk = -1 /\ blk_free = BlkNum
      /\ cur_serial = -1 /\ job = NoJob
    BY DEF Init, FrameInfo, Used, EmptyFrame
<1>2. TypeOK
    <2>1. gop \in [last_Start : Frames \cup {-1}, lastest_I : Frames \cup {-1}]
        BY DEF Init
    <2> QED
        BY <1>1, <2>1, BlkNumAssumption, MaxSerialAssumption DEF TypeOK
<1>3. Ring
    BY <1>1, BlkNumAssumption DEF Ring, InBounds, Fresh, Youngest, InOrder, Extent, Covered, BlkUsed,
                                  Frames
<1>4. Progress
    BY <1>1 DEF Progress
<1> QED
    BY <1>2, <1>3, <1>4 DEF FInv

\* The frames in memory and their blocks stay one segment each of their
\* circles, ending at the last write, in every turn of the loop of
\* MemMng_Video_Write (mem_mng.c:917).
THEOREM MemoryInvariant == Spec => []FInv
BY Initially, InvariantStep, PTL DEF Spec

\* Indices, counts and serials stay in range; the loop of a write frees no
\* more frames than there are.
THEOREM TypesKept == Spec => []TypeOK
BY MemoryInvariant, PTL DEF FInv

-----------------------------------------------------------------------------
(* The blocks.                                                             *)

\* The blocks in use are as many as the write has counted.
LEMMA BlocksCounted ==
    ASSUME FInv
    PROVE  Cardinality(UNION {BlksOf(i) : i \in Used}) = BlkUsed
<1> DEFINE U == UNION {BlksOf(i) : i \in Used}
<1>1. BlkUsed \in 0 .. BlkNum /\ BlkNum \in Nat \ {0}
    BY BlkNumAssumption DEF FInv, TypeOK, BlkUsed
<1>2. CASE Used = {}
    <2>1. U = {} /\ BlkUsed = 0
        BY <1>2 DEF FInv, Ring, Extent
    <2> QED
        BY <2>1, FS_EmptySet
<1>3. CASE Used # {}
    <2>1. cur_blk \in 0 .. BlkNum - 1
        BY <1>3, BackRange DEF FInv, Ring
    <2>2. \A b : b \in U <=> b \in Blocks /\ BlkBack(b) < BlkUsed
        <3>1. ASSUME NEW i \in Used, NEW b \in BlksOf(i)
              PROVE  b \in Blocks /\ BlkBack(b) < BlkUsed
            <4>1. b \in Blocks /\ BlkBack(b) \in Back(i) .. Back(i) + frame[i].blks - 1
                BY BlksBack DEF FInv
            <4>2. Back(i) + frame[i].blks <= BlkUsed
                BY DEF FInv, Ring, Extent
            <4>3. Back(i) \in Int /\ frame[i].blks \in Int
                BY BackRange, UsedFields DEF FInv, Ring
            <4> QED
                BY <1>1, <4>1, <4>2, <4>3
        <3>2. ASSUME NEW b \in Blocks, BlkBack(b) < BlkUsed
              PROVE  \E i \in Used : b \in BlksOf(i)
            <4>1. cur_blk # -1
                BY <2>1
            <4> QED
                BY <3>2, <4>1 DEF FInv, Ring, Covered
        <3> QED
            BY <3>1, <3>2
    <2>3. \A b \in 0 .. BlkNum - 1 :
              BlkBack(b) = IF b <= cur_blk THEN cur_blk - b ELSE cur_blk + BlkNum - b
        BY DEF BlkBack
    <2> HIDE DEF U
    <2>4. CASE BlkUsed <= cur_blk + 1
        <3>1. \A b : b \in U <=> b \in cur_blk - BlkUsed + 1 .. cur_blk
            BY <1>1, <2>1, <2>2, <2>3, <2>4 DEF Blocks
        <3>2. U = cur_blk - BlkUsed + 1 .. cur_blk
            BY <3>1
        <3>3. cur_blk - BlkUsed + 1 \in Int /\ cur_blk \in Int
            BY <1>1, <2>1
        <3>4. Cardinality(U) = IF cur_blk - BlkUsed + 1 > cur_blk THEN 0
                               ELSE cur_blk - (cur_blk - BlkUsed + 1) + 1
            BY <3>2, <3>3, FS_Interval
        <3> QED
            BY <1>1, <2>1, <3>4 DEF U
    <2>5. CASE BlkUsed > cur_blk + 1
        <3> DEFINE V == 0 .. cur_blk
                   W == cur_blk + BlkNum - BlkUsed + 1 .. BlkNum - 1
        <3>1. \A b : b \in U <=> b \in V \/ b \in W
            BY <1>1, <2>1, <2>2, <2>3, <2>5 DEF Blocks
        <3>2. V \cap W = {}
            BY <1>1, <2>1, <2>5
        <3>3. IsFiniteSet(V) /\ Cardinality(V) = cur_blk + 1
            BY <2>1, FS_Interval
        <3>4. IsFiniteSet(W) /\ Cardinality(W) = BlkUsed - cur_blk - 1
            <4>1. cur_blk + BlkNum - BlkUsed + 1 \in Int /\ BlkNum - 1 \in Int
                BY <1>1, <2>1
            <4>2. IsFiniteSet(W) /\
                  Cardinality(W) = IF cur_blk + BlkNum - BlkUsed + 1 > BlkNum - 1 THEN 0
                                   ELSE BlkNum - 1 - (cur_blk + BlkNum - BlkUsed + 1) + 1
                BY <4>1, FS_Interval
            <4> QED
                BY <1>1, <2>1, <2>5, <4>2
        <3> HIDE DEF V, W
        <3>5. U = V \cup W
            BY <3>1
        <3>6. Cardinality(U) = Cardinality(V) + Cardinality(W) - Cardinality(V \cap W)
            BY <3>3, <3>4, <3>5, FS_Union
        <3>7. Cardinality(V \cap W) = 0
            BY <3>2, FS_EmptySet
        <3> QED
            BY <1>1, <2>1, <3>3, <3>4, <3>6, <3>7 DEF U
    <2> QED
        BY <1>1, <2>1, <2>4, <2>5
<1> QED
    BY <1>2, <1>3

\* No two frames share a block, none reaches beyond the memory, and blk_free
\* counts the blocks that are in no frame.
THEOREM EveryBlockOwned == Spec => []BlocksOwned
<1>1. FInv => BlocksOwned
    <2> SUFFICES ASSUME FInv PROVE BlocksOwned
        OBVIOUS
    <2>1. \A i \in Used : BlksOf(i) \subseteq Blocks
        BY BlksBack DEF FInv
    <2>2. ASSUME NEW i \in Used, NEW j \in Used, i # j
          PROVE  BlksOf(i) \cap BlksOf(j) = {}
        <3> SUFFICES ASSUME NEW b \in BlksOf(i), b \in BlksOf(j) PROVE FALSE
            OBVIOUS
        <3>1. /\ BlkBack(b) \in Back(i) .. Back(i) + frame[i].blks - 1
              /\ BlkBack(b) \in Back(j) .. Back(j) + frame[j].blks - 1
            BY BlksBack DEF FInv
        <3>2. /\ i \in Frames /\ j \in Frames /\ cur_frame # -1
              /\ Back(i) \in Int /\ Back(j) \in Int /\ frame[i].blks \in Int /\ frame[j].blks \in Int
            BY BackRange, UsedFields DEF FInv, Ring
        <3>3. Age(i) \in Int /\ Age(j) \in Int /\ Age(i) # Age(j)
            BY <2>2, <3>2, AgeRange, AgeInjective, BlkNumAssumption DEF FInv
        <3>4. Age(i) < Age(j) => Back(i) + frame[i].blks <= Back(j)
            BY DEF FInv, Ring, InOrder
        <3>5. Age(j) < Age(i) => Back(j) + frame[j].blks <= Back(i)
            BY DEF FInv, Ring, InOrder
        <3> QED
            BY <3>1, <3>2, <3>3, <3>4, <3>5
    <2>3. blk_free = BlkNum - Cardinality(UNION {BlksOf(i) : i \in Used})
        BY BlocksCounted, BlkNumAssumption DEF FInv, TypeOK, BlkUsed
    <2> QED
        BY <2>1, <2>2, <2>3 DEF BlocksOwned
<1> QED
    BY <1>1, MemoryInvariant, PTL

-----------------------------------------------------------------------------
(* The serials.                                                            *)

\* A serial belongs to one frame, DUMMY frames aside.
LEMMA SerialsUnique ==
    ASSUME FInv, NEW i \in Stored, NEW j \in Stored, frame[i].serial = frame[j].serial
    PROVE  i = j
<1> SUFFICES ASSUME i # j PROVE FALSE
    OBVIOUS
<1>1. i \in Used /\ j \in Used
    BY StoredUsed DEF FInv
<1>2. i \in Frames /\ j \in Frames /\ cur_frame # -1 /\ frame[i].serial \in Int
    BY <1>1, BackRange, UsedFields DEF FInv, Ring
<1>3. Age(i) \in Int /\ Age(j) \in Int /\ Age(i) # Age(j)
    BY <1>2, AgeRange, AgeInjective, BlkNumAssumption DEF FInv
<1>4. Age(i) < Age(j) \/ Age(j) < Age(i)
    BY <1>3
<1> QED
    BY <1>1, <1>2, <1>4 DEF FInv, Ring, InOrder

LEMMA LookupsNow == FInv => LookupFinds
<1> SUFFICES ASSUME FInv, job = NoJob, NEW s \in 0 .. MaxSerial,
                    NEW hits, hits = {i \in Stored : frame[i].serial = s}
             PROVE  IF hits = {} THEN Lookup(s) = -1 ELSE hits = {Lookup(s)}
    BY DEF LookupFinds
<1>1. hits = {i \in Frames : /\ frame[i].serial = s
                             /\ frame[i].type \notin {"DUMMY", "EMPTY"}}
    <2>1. \A i \in Frames : frame[i].type \in Types <=> frame[i].type \notin {"DUMMY", "EMPTY"}
        BY FrameFields DEF FInv, TypeOK, Types
    <2> QED
        BY <2>1 DEF Stored
<1>2. cur_serial \in Int /\ s \in Nat
    BY MaxSerialAssumption DEF FInv, TypeOK
<1>3. s > cur_serial => hits = {}
    <2>1. \A i \in Stored : frame[i].serial <= cur_serial /\ frame[i].serial \in Int
        BY StoredUsed, UsedFields DEF FInv, Ring, Extent
    <2> QED
        BY <1>2, <2>1
<1>4. CASE s > cur_serial
    BY <1>2, <1>3, <1>4 DEF Lookup
<1>5. CASE ~ (s > cur_serial)
    <2>1. cur_frame # -1
        BY <1>2, <1>5 DEF FInv, Ring, Fresh
    <2>2. cur_frame \in Stored
        BY <2>1 DEF FInv, Progress
    <2>3. CASE frame[cur_frame].serial = s
        <3>1. Lookup(s) = cur_frame
            BY <1>2, <1>5, <2>3 DEF Lookup
        <3>2. cur_frame \in hits
            BY <2>2, <2>3
        <3>3. \A i \in hits : i = cur_frame
            BY <2>2, <2>3, SerialsUnique
        <3> QED
            BY <3>1, <3>2, <3>3
    <2>4. CASE frame[cur_frame].serial # s
        <3>1. Lookup(s) = IF hits = {} THEN -1 ELSE CHOOSE i \in hits : \A j \in hits : i <= j
            <4>1. ~ (s < 0 \/ s > cur_serial)
                BY <1>2, <1>5
            <4>2. Lookup(s) =
                      LET found == {i \in Frames : /\ frame[i].serial = s
                                                   /\ frame[i].type \notin {"DUMMY", "EMPTY"}}
                      IN  IF found = {} THEN -1
                          ELSE CHOOSE i \in found : \A j \in found : i <= j
                BY <4>1, <2>4 DEF Lookup
            <4> QED
                BY <4>2, <1>1
        <3>2. CASE hits = {}
            BY <3>1, <3>2
        <3>3. CASE hits # {}
            <4>1. PICK h : h \in hits
                BY <3>3
            <4>2. hits = {h} /\ h \in Int
                BY <4>1, SerialsUnique DEF Stored, Frames
            <4>3. h <= h
                BY <4>2
            <4>4. (CHOOSE i \in hits : \A j \in hits : i <= j) = h
                BY <4>2, <4>3
            <4> QED
                BY <3>1, <3>3, <4>2, <4>4
        <3> QED
            BY <3>2, <3>3
    <2> QED
        BY <2>3, <2>4
<1> QED
    BY <1>4, <1>5

\* MemMng_GetFrameBySerial finds the frame asked for if it is in memory, and
\* nothing otherwise.
THEOREM LookupsFind == Spec => []LookupFinds
BY LookupsNow, MemoryInvariant, PTL

-----------------------------------------------------------------------------
(* The refinement of FrameWindow.                                          *)

\* What the readers see of the frames in memory.
InMemoryIs ==
    /\ InMemory = [s \in DOMAIN InMemory |-> InMemory[s]]
    /\ DOMAIN InMemory = {frame[i].serial : i \in Stored}
    /\ \A i \in Stored : InMemory[frame[i].serial] = frame[i].type

LEMMA InMemoryNow == FInv => InMemoryIs
<1> SUFFICES ASSUME FInv PROVE InMemoryIs
    OBVIOUS
<1>1. /\ InMemory = [s \in DOMAIN InMemory |-> InMemory[s]]
      /\ DOMAIN InMemory = {frame[i].serial : i \in Stored}
    BY DEF InMemory
<1>2. ASSUME NEW i \in Stored
      PROVE  InMemory[frame[i].serial] = frame[i].type
    <2>1. PICK c : c = CHOOSE j \in Stored : frame[j].serial = frame[i].serial
        OBVIOUS
    <2>2. c \in Stored /\ frame[c].serial = frame[i].serial
        BY <2>1
    <2>3. c = i
        BY <2>2, SerialsUnique
    <2>4. InMemory[frame[i].serial] = frame[c].type
        BY <2>1 DEF InMemory
    <2> QED
        BY <2>3, <2>4
<1> QED
    BY <1>1, <1>2 DEF InMemoryIs

LEMMA InMemoryNext == FInv' => InMemoryIs'
BY InMemoryNow, PTL

\* A step that touches no frame of the stream is not seen.
LEMMA NotSeen ==
    ASSUME FInv, FInv', Stored' = Stored,
           \A j \in Stored : frame'[j].serial = frame[j].serial /\ frame'[j].type = frame[j].type
    PROVE  InMemory' = InMemory
<1>1. PICK M, N : M = InMemory /\ N = InMemory'
    OBVIOUS
<1>2. /\ M = [s \in DOMAIN M |-> M[s]]
      /\ DOMAIN M = {frame[i].serial : i \in Stored}
      /\ \A i \in Stored : M[frame[i].serial] = frame[i].type
    BY <1>1, InMemoryNow DEF InMemoryIs
<1>3. /\ N = [s \in DOMAIN N |-> N[s]]
      /\ DOMAIN N = {frame'[i].serial : i \in Stored}
      /\ \A i \in Stored : N[frame'[i].serial] = frame'[i].type
    BY <1>1, InMemoryNext DEF InMemoryIs
<1>4. DOMAIN M = DOMAIN N
    BY <1>2, <1>3
<1>5. \A s \in DOMAIN M : M[s] = N[s]
    BY <1>2, <1>3
<1>6. M = N
    BY <1>2, <1>3, <1>4, <1>5
<1> QED
    BY <1>1, <1>6

\* What an inserted frame leaves alone.
LEMMA InsertedKeeps ==
    ASSUME FInv, FInv', NEW k, NEW t, NEW i, NEW s, Inserted(k, t, i, s),
           i \notin Used, Used' = Used \cup {i}
    PROVE  /\ i \notin Stored
           /\ \A j \in Stored : frame'[j].serial = frame[j].serial /\ frame'[j].type = frame[j].type
           /\ Stored' = IF t \in Types THEN Stored \cup {i} ELSE Stored
<1>1. /\ i \in Frames /\ frame'[i].type = t
      /\ \A j \in Frames \ {i} :
             frame'[j].serial = frame[j].serial /\ frame'[j].type = frame[j].type
    BY DEF Inserted
<1>2. i \notin Stored /\ Stored \subseteq Frames
    BY StoredUsed DEF FInv, Stored
<1>3. Stored' = {j \in Frames : frame'[j].type \in Types}
    BY DEF Stored
<1>4. Stored' = IF t \in Types THEN Stored \cup {i} ELSE Stored
    <2>1. \A j : j \in Stored' <=> j \in Stored \/ (j = i /\ t \in Types)
        BY <1>1, <1>2, <1>3 DEF Stored
    <2> QED
        BY <2>1
<1> QED
    BY <1>1, <1>2, <1>4

\* A write that fills up the end of the memory shows readers nothing new,
LEMMA FillUpNotSeen == ASSUME FInv, FillUp PROVE UNCHANGED <<InMemory, cur_serial + 1>>
<1>1. FInv'
    BY FillUpStep
<1>2. PICK i, s, k : /\ Inserted(k, "DUMMY", i, s)
                     /\ i \notin Used /\ Used' = Used \cup {i}
    BY FillUpStep
<1>3. cur_serial' = cur_serial
    BY <1>2 DEF Inserted
<1>4. /\ Stored' = Stored
      /\ \A j \in Stored : frame'[j].serial = frame[j].serial /\ frame'[j].type = frame[j].type
    BY <1>1, <1>2, InsertedKeeps, Dummy
<1>5. InMemory' = InMemory
    BY <1>1, <1>4, NotSeen
<1> QED
    BY <1>3, <1>5

\* one that stores the frame appends it to the window.
LEMMA StoreAppends == ASSUME FInv, Store PROVE Window!Append(job.type) /\ job.type \in Types
<1>1. FInv'
    BY StoreStep
<1>2. PICK t : t = job.type
    OBVIOUS
<1>3. PICK i, s, k : /\ Inserted(k, t, i, s)
                     /\ i \notin Used /\ Used' = Used \cup {i}
    BY <1>2, StoreStep
<1>4. t \in Types /\ t # "DUMMY"
    BY <1>2, JobFields, Dummy DEF Store
<1>5. /\ s = cur_serial + 1 /\ cur_serial' = s /\ cur_serial \in Int
      /\ frame'[i].serial = s /\ frame'[i].type = t
    BY <1>3, <1>4 DEF Inserted, FInv, TypeOK
<1>6. /\ i \notin Stored /\ Stored' = Stored \cup {i}
      /\ \A j \in Stored : frame'[j].serial = frame[j].serial /\ frame'[j].type = frame[j].type
    BY <1>1, <1>3, <1>4, InsertedKeeps
<1>7. \A j \in Stored : frame[j].serial # s
    <2>1. \A j \in Stored : frame[j].serial <= cur_serial /\ frame[j].serial \in Int
        BY StoredUsed, UsedFields DEF FInv, Ring, Extent
    <2> QED
        BY <1>5, <2>1
<1>8. PICK M, N : M = InMemory /\ N = InMemory'
    OBVIOUS
<1>9. /\ DOMAIN M = {frame[j].serial : j \in Stored}
      /\ \A j \in Stored : M[frame[j].serial] = frame[j].type
    BY <1>8, InMemoryNow DEF InMemoryIs
<1>10. /\ N = [r \in DOMAIN N |-> N[r]]
       /\ DOMAIN N = {frame'[j].serial : j \in Stored \cup {i}}
       /\ \A j \in Stored \cup {i} : N[frame'[j].serial] = frame'[j].type
    BY <1>1, <1>6, <1>8, InMemoryNext DEF InMemoryIs
<1>11. DOMAIN N = DOMAIN M \cup {s}
    BY <1>5, <1>6, <1>9, <1>10
<1>12. N[s] = t
    BY <1>5, <1>10
<1>13. \A r \in DOMAIN M : r # s /\ N[r] = M[r]
    BY <1>6, <1>7, <1>9, <1>10
<1>14. N = [r \in DOMAIN M \cup {s} |-> IF r = s THEN t ELSE M[r]]
    BY <1>10, <1>11, <1>12, <1>13
<1>15. /\ InMemory' = [r \in DOMAIN InMemory \cup {cur_serial + 1} |->
                          IF r = cur_serial + 1 THEN t ELSE InMemory[r]]
       /\ (cur_serial + 1)' = (cur_serial + 1) + 1
    BY <1>5, <1>8, <1>14
<1> QED
    BY <1>2, <1>4, <1>15 DEF Window!Append

\* Freeing the oldest entry of the table drops the oldest frame of the
\* window, or nothing when the entry is empty or a DUMMY frame.
LEMMA FreeOldestDrops ==
    ASSUME FInv, FreeOldest
    PROVE  Window!Drop \/ UNCHANGED <<InMemory, cur_serial + 1>>
<1>1. FInv'
    BY FreeOldestStep
<1>2. PICK f : f = (cur_frame + 1 + job.free_cnt) % BlkNum
    OBVIOUS
<1>3. /\ VidFrame_Free(f) /\ cur_serial' = cur_serial
      /\ f \in Frames /\ \A j \in Used : j # f => Age(j) < Age(f)
    BY <1>2, FreedIsOldest DEF FreeOldest, pos
<1>4. CASE frame[f].type = "EMPTY"
    <2>1. frame' = frame
        BY <1>3, <1>4 DEF VidFrame_Free
    <2>2. Stored' = Stored
        BY <2>1 DEF Stored
    <2>3. InMemory' = InMemory
        BY <1>1, <2>1, <2>2, NotSeen
    <2> QED
        BY <1>3, <2>3
<1>5. CASE frame[f].type # "EMPTY"
    <2>1. frame' = [frame EXCEPT ![f] = EmptyFrame] /\ frame \in [Frames -> FrameInfo]
        BY <1>3, <1>5 DEF VidFrame_Free, FInv, TypeOK
    <2>2. /\ frame'[f].type \notin Types
          /\ \A j \in Frames \ {f} : frame'[j] = frame[j]
        BY <1>3, <2>1 DEF EmptyFrame, Types
    <2>3. Stored' = Stored \ {f}
        <3>1. Stored' = {j \in Frames : frame'[j].type \in Types}
            BY DEF Stored
        <3>2. \A j : j \in Stored' <=> j \in Stored /\ j # f
            BY <2>2, <3>1 DEF Stored
        <3> QED
            BY <3>2
    <2>4. \A j \in Stored \ {f} : frame'[j] = frame[j]
        BY <2>2 DEF Stored
    <2>5. CASE f \notin Stored
        <3>1. Stored' = Stored
            BY <2>3, <2>5
        <3>2. InMemory' = InMemory
            BY <1>1, <2>4, <2>5, <3>1, NotSeen
        <3> QED
            BY <1>3, <3>2
    <2>6. CASE f \in Stored
        <3>1. PICK s : s = frame[f].serial
            OBVIOUS
        <3>2. \A j \in Stored \ {f} : frame[j].serial > s /\ frame[j].serial \in Int
            <4> SUFFICES ASSUME NEW j \in Stored, j # f
                         PROVE  frame[j].serial > s /\ frame[j].serial \in Int
                OBVIOUS
            <4>1. j \in Used /\ f \in Used /\ frame[j].serial \in Int
                BY <2>6, StoredUsed, UsedFields DEF FInv
            <4>2. Age(j) < Age(f)
                BY <1>3, <4>1
            <4> QED
                BY <3>1, <4>1, <4>2 DEF FInv, Ring, InOrder
        <3>3. s \in Int
            BY <2>6, <3>1, StoredUsed, UsedFields DEF FInv
        <3>4. PICK M, N : M = InMemory /\ N = InMemory'
            OBVIOUS
        <3>5. /\ DOMAIN M = {frame[j].serial : j \in Stored}
              /\ \A j \in Stored : M[frame[j].serial] = frame[j].type
            BY <3>4, InMemoryNow DEF InMemoryIs
        <3>6. /\ N = [r \in DOMAIN N |-> N[r]]
              /\ DOMAIN N = {frame'[j].serial : j \in Stored \ {f}}
              /\ \A j \in Stored \ {f} : N[frame'[j].serial] = frame'[j].type
            BY <1>1, <2>3, <3>4, InMemoryNext DEF InMemoryIs
        <3>7. s \in DOMAIN M /\ \A r \in DOMAIN M : s <= r
            <4>1. s \in DOMAIN M
                BY <2>6, <3>1, <3>5
            <4>2. ASSUME NEW j \in Stored PROVE s <= frame[j].serial
                BY <3>1, <3>2, <3>3
            <4> QED
                BY <3>5, <4>1, <4>2
        <3>8. DOMAIN N = DOMAIN M \ {s}
            <4>1. \A j \in Stored \ {f} : frame[j].serial # s
                BY <3>2, <3>3
            <4> QED
                BY <2>4, <2>6, <3>1, <3>5, <3>6, <4>1
        <3>9. \A r \in DOMAIN N : N[r] = M[r]
            BY <2>4, <3>5, <3>6
        <3>10. N = [r \in DOMAIN M \ {s} |-> M[r]]
            BY <3>6, <3>8, <3>9
        <3>11. (cur_serial + 1)' = cur_serial + 1
            BY <1>3
        <3> QED
            BY <3>4, <3>7, <3>10, <3>11 DEF Window!Drop
    <2> QED
        BY <2>5, <2>6
<1> QED
    BY <1>4, <1>5

\* The steps of the frame memory are steps of the window or not seen by its
\* readers: a new frame gets the next serial and keeps its type, and the
\* frames a write makes room with are the oldest.
THEOREM MemoryIsFrameWindow == Spec => IsFrameWindow
<1>1. Init => Window!Init
    <2> SUFFICES ASSUME Init PROVE Window!Init
        OBVIOUS
    <2>1. Stored = {} /\ cur_serial + 1 = 0
        BY DEF Init, Stored, EmptyFrame, Types
    <2>2. DOMAIN InMemory = {} /\ InMemory = [s \in DOMAIN InMemory |-> InMemory[s]]
        BY <2>1 DEF InMemory
    <2>3. InMemory = [s \in {} |-> CHOOSE t \in Types : TRUE]
        BY <2>2
    <2> QED
        BY <2>1, <2>3 DEF Window!Init
<1>2. FInv /\ [Next]_vars => [Window!Next]_<<InMemory, cur_serial + 1>>
    <2> SUFFICES ASSUME FInv, [Next]_vars
                 PROVE  Window!Next \/ UNCHANGED <<InMemory, cur_serial + 1>>
        OBVIOUS
    <2>1. ASSUME NEW blks \in 1 .. BlkNum, NEW type \in Types, VideoWrite(blks, type)
          PROVE  UNCHANGED <<InMemory, cur_serial + 1>>
        <3>1. FInv' /\ frame' = frame /\ cur_serial' = cur_serial
            BY <2>1, VideoWriteStep
        <3>2. Stored' = Stored
            BY <3>1 DEF Stored
        <3>3. InMemory' = InMemory
            BY <3>1, <3>2, NotSeen
        <3> QED
            BY <3>1, <3>3
    <2>2. CASE FreeOldest
        BY <2>2, FreeOldestDrops DEF Window!Next
    <2>3. CASE FillUp
        BY <2>3, FillUpNotSeen
    <2>4. CASE Store
        BY <2>4, StoreAppends DEF Window!Next
    <2>5. CASE UNCHANGED vars
        BY <2>5 DEF vars, pos, InMemory, Stored
    <2> QED
        BY <2>1, <2>2, <2>3, <2>4, <2>5 DEF Next, WriteStep
<1> QED
    BY <1>1, <1>2, MemoryInvariant, PTL DEF Spec, IsFrameWindow, Window!Spec
=============================================================================
