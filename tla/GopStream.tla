----------------------------- MODULE GopStream ------------------------------
(***************************************************************************)
(* One H.264/MPEG-4 stream between its encoder and its readers: the frame  *)
(* memory (MemMng), the cache that keeps frames a reader has locked after  *)
(* the memory has moved on (cache_mng.c), the list of groups of pictures   *)
(* that are locked (gop_lock.c), and the handlers that use them, the       *)
(* encoder's stream_write and the reader's requests served by Msg_CTRL     *)
(* (stream.c).                                                             *)
(*                                                                         *)
(* A reader locks a frame, and with it the whole GOP: the frames of the    *)
(* GOP are copied to the cache, and while the GOP is still being produced  *)
(* (GOP_INCOMPLETE) lockNewFrame makes stream_write copy every further P   *)
(* frame too.  stream_write and each handler run under the stream's mutex, *)
(* so they are serialised, but in any order.                               *)
(***************************************************************************)
EXTENDS MemMng, Sequences, SequencesExt

CONSTANTS
    CacheNum,   \* cache_num, and the blk_num of the cache, which equals it
    Readers,    \* the processes that use the stream through the interface
    MaxHeld     \* bound: the locks a reader holds at once

ASSUME CacheNumAssumption == CacheNum \in Nat \ {0}
ASSUME ReadersAssumption == IsFiniteSet(Readers)
ASSUME MaxHeldAssumption == MaxHeld \in Nat

VARIABLES
    cache,          \* cachemng->cache[]
    blkFree,        \* cachemng->blk[].IsFree
    gops,           \* gGopList[index], its head first
    lockNewFrame,   \* lockNewFrame[index] of STREAM_PARM
    written,        \* stream_write is between MemMng_Video_Write and the end
    held,           \* the serials each reader has locked, oldest first
    dropped         \* history: some GOP was taken from its readers

gopVars == <<cache, blkFree, gops, lockNewFrame, held, dropped>>
allVars == <<vars, gopVars, written>>

CacheIdx == 0 .. CacheNum - 1
EmptyCache ==
    [serial |-> -1, type |-> "EMPTY", blkindex |-> -1, blks |-> -1, cnt |-> 0]

GInit ==
    /\ Init
    /\ cache = [i \in CacheIdx |-> EmptyCache]
    /\ blkFree = [b \in CacheIdx |-> TRUE]
    /\ gops = << >>
    /\ lockNewFrame = FALSE
    /\ written = FALSE
    /\ held = [r \in Readers |-> << >>]
    /\ dropped = FALSE

-----------------------------------------------------------------------------
(* The cache, as a value c of two parts.                                   *)

First(S) == CHOOSE i \in S : \A j \in S : i <= j

\* CacheMng_FindCacheBySerial: all the entries it would accept.
CachedAt(c, s) ==
    {i \in CacheIdx : /\ s <= cur_serial
                      /\ c.cache[i].serial = s
                      /\ c.cache[i].type # "EMPTY"}

\* CacheMng_Find_Freeblk and CacheMng_Find_FreeCache, likewise.
FreeBlksAt(c, blks) ==
    {b \in CacheIdx : /\ b + blks <= CacheNum
                      /\ \A k \in b .. b + blks - 1 : c.free[k]}
FreeCacheAt(c) == {i \in CacheIdx : c.cache[i].type = "EMPTY"}

SetBlks_LastForgotten(c, i, v) ==
    [b \in CacheIdx |->
        IF b \in c.cache[i].blkindex .. c.cache[i].blkindex + c.cache[i].blks - 2
        THEN v ELSE c.free[b]]

SetBlks(c, i, v) ==
    [b \in CacheIdx |->
        IF b \in c.cache[i].blkindex .. c.cache[i].blkindex + c.cache[i].blks - 1
        THEN v ELSE c.free[b]]

\* CacheMng_Video_CacheLock: what it returns and the cache it leaves.
CacheLock(c, s) ==
    LET f == Lookup(s)
        b == FreeBlksAt(c, frame[f].blks)
        i == First(FreeCacheAt(c))
        e == [serial |-> s, type |-> frame[f].type, blkindex |-> First(b),
              blks |-> frame[f].blks, cnt |-> 1]
        d == [c EXCEPT !.cache[i] = e]
    IN  IF CachedAt(c, s) # {}
        THEN [ret |-> "OK",
              c |-> [c EXCEPT !.cache[First(CachedAt(c, s))].cnt = @ + 1]]
        ELSE IF f = -1 THEN [ret |-> "ERR", c |-> c]
        ELSE IF b = {} \/ FreeCacheAt(c) = {} THEN [ret |-> "NOMEM", c |-> c]
        ELSE [ret |-> "OK", c |-> [d EXCEPT !.free = SetBlks(d, i, FALSE)]]

CacheUnlock_ZeroKept(c, s) ==
    LET i == First(CachedAt(c, s))
    IN  IF CachedAt(c, s) = {} THEN c
        ELSE IF c.cache[i].cnt > 0 THEN [c EXCEPT !.cache[i].cnt = @ - 1]
        ELSE [cache |-> [c.cache EXCEPT ![i] = EmptyCache],
              free  |-> SetBlks(c, i, TRUE)]

\* CacheMng_Video_CacheUnlock
CacheUnlock(c, s) ==
    LET i == First(CachedAt(c, s))
    IN  IF CachedAt(c, s) = {} THEN c
        ELSE IF c.cache[i].cnt > 1 THEN [c EXCEPT !.cache[i].cnt = @ - 1]
        ELSE [cache |-> [c.cache EXCEPT ![i] = EmptyCache],
              free  |-> SetBlks(c, i, TRUE)]

\* UnlockGop
UnlockGop(c, s, e) ==
    LET f[k \in s - 1 .. e] == IF k < s THEN c ELSE CacheUnlock(f[k - 1], k)
    IN  IF e < s THEN c ELSE f[e]

LockGop_NotUndone(c, s, e) ==
    LET f[k \in s - 1 .. e] ==
            IF k < s THEN [ret |-> "OK", c |-> c]
            ELSE IF f[k - 1].ret # "OK" THEN f[k - 1]
            ELSE CacheLock(f[k - 1].c, k)
    IN  f[e]

\* LockGop: all the frames from s to e, or none of them.
LockGop(c, s, e) ==
    LET f[k \in s - 1 .. e] ==
            IF k < s THEN [ret |-> "OK", c |-> c]
            ELSE IF f[k - 1].ret # "OK" THEN f[k - 1]
            ELSE LET l == CacheLock(f[k - 1].c, k)
                 IN  IF l.ret = "OK" THEN l
                     ELSE [l EXCEPT !.c = UnlockGop(l.c, s, k - 1)]
    IN  f[e]

theCache == [cache |-> cache, free |-> blkFree]
SetCache(c) == cache' = c.cache /\ blkFree' = c.free

-----------------------------------------------------------------------------
(* The list of locked GOPs.                                                *)

\* GetGopInfoBySerial: the place in the list, 0 for NULL.
FindGop(s) ==
    LET hits == {g \in DOMAIN gops : gops[g].start <= s /\ s <= gops[g].end}
    IN  IF hits = {} THEN 0 ELSE First(hits)

\* GetGopLastPwithStartSerial: the serial before the next I frame, or -1.
LastP(s) ==
    LET next == {k \in s + 1 .. cur_serial : /\ Lookup(k) # -1
                                             /\ frame[Lookup(k)].type = "I"
                                             /\ \A m \in s + 1 .. k : Lookup(m) # -1}
    IN  IF next = {} THEN -1 ELSE First(next) - 1

AddAndLockGop_NotDeleted(s, e, ok) ==
    LET l == LockGop(theCache, s, e)
    IN  [ret  |-> IF l.ret = "OK" THEN ok ELSE "FAIL",
         c    |-> l.c,
         gops |-> <<[start |-> s, end |-> e, lock |-> 1]>> \o gops]

\* AddAndLockGop: the GOP enters the list and, if it could not be locked,
\* leaves it again.
AddAndLockGop(s, e, ok) ==
    LET l == LockGop(theCache, s, e)
    IN  [ret  |-> IF l.ret = "OK" THEN ok ELSE "FAIL",
         c    |-> l.c,
         gops |-> IF l.ret = "OK"
                  THEN <<[start |-> s, end |-> e, lock |-> 1]>> \o gops
                  ELSE gops]

LockGopBySerial_AnyFrame(s) ==
    LET g == FindGop(s)
    IN  IF s < 0 \/ Lookup(s) = -1
        THEN [ret |-> "FAIL", c |-> theCache, gops |-> gops]
        ELSE IF g # 0
        THEN [ret |-> "COMPLETE", c |-> theCache,
              gops |-> [gops EXCEPT ![g].lock = @ + 1]]
        ELSE IF LastP(s) < 0 THEN AddAndLockGop(s, cur_serial, "INCOMPLETE")
                             ELSE AddAndLockGop(s, LastP(s), "COMPLETE")

\* LockGopBySerial: what it returns, and the cache and list it leaves.
LockGopBySerial(s) ==
    LET g    == FindGop(s)
        prev == FindGop(s - 1)
        l    == CacheLock(theCache, s)
        no   == [ret |-> "FAIL", c |-> theCache, gops |-> gops]
    IN  IF s < 0 THEN no
        ELSE IF g # 0
        THEN [ret |-> "COMPLETE", c |-> theCache,
              gops |-> [gops EXCEPT ![g].lock = @ + 1]]
        ELSE IF Lookup(s) = -1 THEN no
        ELSE IF frame[Lookup(s)].type = "I"
        THEN IF LastP(s) < 0 THEN AddAndLockGop(s, cur_serial, "INCOMPLETE")
                             ELSE AddAndLockGop(s, LastP(s), "COMPLETE")
        ELSE IF prev = 0 \/ l.ret # "OK" THEN no
        ELSE [ret |-> "COMPLETE", c |-> l.c,
              gops |-> [gops EXCEPT ![prev].lock = @ + 1, ![prev].end = s]]

UnlockGopBySerial_AtOnce(s) ==
    LET g == FindGop(s)
    IN  IF g = 0 THEN [ret |-> "FAIL", c |-> theCache, gops |-> gops]
        ELSE [ret  |-> IF cur_serial \in gops[g].start .. gops[g].end
                       THEN "INCOMPLETE" ELSE "COMPLETE",
              c    |-> UnlockGop(theCache, gops[g].start, gops[g].end),
              gops |-> RemoveAt(gops, g)]

UnlockGopBySerial_AlwaysComplete(s) ==
    LET g == FindGop(s)
    IN  IF g = 0 THEN [ret |-> "FAIL", c |-> theCache, gops |-> gops]
        ELSE IF gops[g].lock > 1
        THEN [ret |-> "COMPLETE", c |-> theCache,
              gops |-> [gops EXCEPT ![g].lock = @ - 1]]
        ELSE [ret  |-> "COMPLETE",
              c    |-> UnlockGop(theCache, gops[g].start, gops[g].end),
              gops |-> RemoveAt(gops, g)]

\* UnlockGopBySerial, likewise: the last lock of a GOP takes the frames out
\* of the cache.
UnlockGopBySerial(s) ==
    LET g == FindGop(s)
    IN  IF g = 0 THEN [ret |-> "FAIL", c |-> theCache, gops |-> gops]
        ELSE IF gops[g].lock > 1
        THEN [ret |-> "COMPLETE", c |-> theCache,
              gops |-> [gops EXCEPT ![g].lock = @ - 1]]
        ELSE [ret  |-> IF cur_serial \in gops[g].start .. gops[g].end
                       THEN "INCOMPLETE" ELSE "COMPLETE",
              c    |-> UnlockGop(theCache, gops[g].start, gops[g].end),
              gops |-> RemoveAt(gops, g)]

-----------------------------------------------------------------------------
(* The encoder: stream_write.                                              *)

Writing == job # NoJob \/ written

StreamWrite(blks, type) ==
    /\ ~ written
    /\ VideoWrite(blks, type)
    /\ UNCHANGED <<gopVars, written>>

WriteLoop ==
    /\ WriteStep
    /\ written' = (job' = NoJob)
    /\ UNCHANGED gopVars

\* LockCurrentGopP, for a P frame that has just been written while the last
\* GOP locked is incomplete.
FollowGop ==
    LET g == FindGop(cur_serial - 1)
        l == CacheLock(theCache, cur_serial)
    IN  IF g = 0
        THEN /\ lockNewFrame' = FALSE
             /\ UNCHANGED <<cache, blkFree, gops, dropped>>
        ELSE IF l.ret = "OK"
        THEN /\ SetCache(l.c)
             /\ gops' = [gops EXCEPT ![g].end = cur_serial]
             /\ UNCHANGED <<lockNewFrame, dropped>>
        ELSE /\ SetCache(UnlockGop(l.c, gops[g].start, gops[g].end))
             /\ gops' = RemoveAt(gops, g)
             /\ lockNewFrame' = FALSE
             /\ dropped' = TRUE

\* The rest of stream_write; it ends by unlocking the mutex.
PostProcess ==
    /\ written
    /\ written' = FALSE
    /\ IF ~ lockNewFrame
       THEN UNCHANGED <<cache, blkFree, gops, lockNewFrame, dropped>>
       ELSE IF frame[cur_frame].type = "P" THEN FollowGop
       ELSE /\ lockNewFrame' = FALSE
            /\ UNCHANGED <<cache, blkFree, gops, dropped>>
    /\ UNCHANGED <<vars, held>>

-----------------------------------------------------------------------------
(* The readers' requests.                                                  *)

Answer(r, s, l) ==
    /\ SetCache(l.c)
    /\ gops' = l.gops
    /\ lockNewFrame' = (lockNewFrame \/ l.ret = "INCOMPLETE")
    /\ held' = IF l.ret = "FAIL" THEN held
               ELSE [held EXCEPT ![r] = Append(@, s)]
    /\ UNCHANGED <<vars, written, dropped>>

\* MSG_CMD_GET_AND_LOCK_IFRAME
GetAndLockIFrame(r) ==
    /\ ~ Writing
    /\ Len(held[r]) < MaxHeld
    /\ LastI >= 0
    /\ Answer(r, frame[LastI].serial, LockGopBySerial(frame[LastI].serial))

\* MSG_CMD_LOCK_FRAME, of the frame after the last one the reader locked
LockFrame(r) ==
    /\ ~ Writing
    /\ Len(held[r]) \in 1 .. MaxHeld - 1
    /\ Answer(r, Last(held[r]) + 1, LockGopBySerial(Last(held[r]) + 1))

\* MSG_CMD_UNLOCK_FRAME, which is not answered
UnlockFrame(r) ==
    /\ ~ Writing
    /\ held[r] # << >>
    /\ LET u == UnlockGopBySerial(Head(held[r]))
       IN  /\ SetCache(u.c)
           /\ gops' = u.gops
           /\ lockNewFrame' = (lockNewFrame /\ u.ret # "INCOMPLETE")
    /\ held' = [held EXCEPT ![r] = Tail(@)]
    /\ UNCHANGED <<vars, written, dropped>>

GNext ==
    \/ \E blks \in 1 .. BlkNum, type \in Types : StreamWrite(blks, type)
    \/ WriteLoop
    \/ PostProcess
    \/ \E r \in Readers :
           GetAndLockIFrame(r) \/ LockFrame(r) \/ UnlockFrame(r)

GSpec == GInit /\ [][GNext]_allVars

-----------------------------------------------------------------------------

GTypeOK ==
    /\ TypeOK
    /\ cache \in [CacheIdx -> {EmptyCache} \cup
            [serial : 0 .. MaxSerial, type : Types, blkindex : CacheIdx,
             blks : 1 .. CacheNum, cnt : 1 .. Cardinality(Readers) * MaxHeld]]
    /\ blkFree \in [CacheIdx -> BOOLEAN]
    /\ \A g \in DOMAIN gops :
          gops[g] \in [start : 0 .. MaxSerial, end : 0 .. MaxSerial,
                       lock : 1 .. Cardinality(Readers) * MaxHeld]
    /\ lockNewFrame \in BOOLEAN /\ written \in BOOLEAN /\ dropped \in BOOLEAN
    /\ \A r \in Readers : held[r] \in Seq(0 .. MaxSerial) /\ Len(held[r]) <= MaxHeld

InUse == {i \in CacheIdx : cache[i].type # "EMPTY"}
CacheBlks(i) == cache[i].blkindex .. cache[i].blkindex + cache[i].blks - 1

\* The blocks of cached frames are disjoint, and they are exactly the ones
\* that are not free: no copy is overwritten, no block is leaked.
CacheOwned ==
    /\ \A i, j \in InUse : i # j => CacheBlks(i) \cap CacheBlks(j) = {}
    /\ {b \in CacheIdx : ~ blkFree[b]} = UNION {CacheBlks(i) : i \in InUse}

\* A frame is cached exactly while some locked GOP contains it, once, and its
\* count is the number of such GOPs, whatever mixture of whole GOPs, GOPs
\* that were followed and failed attempts has been locked and unlocked.
CacheIsTheGops ==
    /\ \A g \in DOMAIN gops, s \in 0 .. MaxSerial :
          s \in gops[g].start .. gops[g].end
              => \E i \in InUse : cache[i].serial = s
    /\ \A i \in InUse :
          cache[i].cnt = Cardinality({g \in DOMAIN gops :
                             cache[i].serial \in gops[g].start .. gops[g].end})
    /\ \A i, j \in InUse : cache[i].serial = cache[j].serial => i = j

\* Between writes lockNewFrame is set exactly when a locked GOP reaches the
\* newest frame, which is when the next P frame has to be added to it.
FollowsTheLiveGop ==
    ~ Writing => (lockNewFrame <=> FindGop(cur_serial) # 0)

\* The locks on a GOP are the frames of it that readers hold, so no GOP stays
\* locked that no reader will unlock; a GOP taken from its readers and locked
\* again has fewer.
LocksAreHeld ==
    \A g \in DOMAIN gops :
        LET holds == {p \in Readers \X (1 .. MaxHeld) :
                        /\ p[2] <= Len(held[p[1]])
                        /\ held[p[1]][p[2]] \in gops[g].start .. gops[g].end}
        IN  /\ gops[g].lock <= Cardinality(holds)
            /\ dropped \/ gops[g].lock = Cardinality(holds)

\* A frame a reader has locked is in the cache until it unlocks it,
HeldIsCached ==
    \A r \in Readers : \A k \in DOMAIN held[r] :
        \E i \in InUse : cache[i].serial = held[r][k]

\* unless stream_write found no room to follow the GOP.
HeldUnlessDropped == dropped \/ HeldIsCached

\* A reader that asks for an I frame and is answered has locked an I frame.
AskedForAnIFrame ==
    [][\A r \in Readers : GetAndLockIFrame(r) /\ held'[r] # held[r]
                              => frame[LastI].type = "I"]_allVars
=============================================================================
