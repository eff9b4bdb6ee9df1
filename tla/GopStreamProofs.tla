-------------------------- MODULE GopStreamProofs --------------------------
(***************************************************************************)
(* Theorems about one stream, its cache and its list of locked GOPs, for   *)
(* any memory, any cache and any number of readers.                        *)
(***************************************************************************)
EXTENDS GopStream, MemMngProofs

-----------------------------------------------------------------------------
(* The inductive invariant.                                                *)

\* The serials in memory are the most recent ones, without a gap.
Dense ==
    /\ DOMAIN InMemory \subseteq 0 .. cur_serial
    /\ \A s \in DOMAIN InMemory : s .. cur_serial \subseteq DOMAIN InMemory
    /\ \A s \in DOMAIN InMemory : InMemory[s] \in Types

\* The cache, as a value c of two parts: what its entries are,
CachedFrames ==
    [serial : 0 .. MaxSerial, type : Types, blkindex : CacheIdx,
     blks : 1 .. CacheNum, cnt : {1}]
Taken(c)    == {i \in CacheIdx : c.cache[i].type # "EMPTY"}
BlksIn(c, i) == c.cache[i].blkindex .. c.cache[i].blkindex + c.cache[i].blks - 1

\* that they have their blocks to themselves, and serials of their own,
Sound(c) ==
    /\ c = [cache |-> c.cache, free |-> c.free]
    /\ c.cache \in [CacheIdx -> {EmptyCache} \cup CachedFrames]
    /\ c.free \in [CacheIdx -> BOOLEAN]
    /\ \A i \in Taken(c) : BlksIn(c, i) \subseteq CacheIdx
    /\ \A i, j \in Taken(c) : i # j => BlksIn(c, i) \cap BlksIn(c, j) = {}
    /\ \A b \in CacheIdx : c.free[b] <=> \A i \in Taken(c) : b \notin BlksIn(c, i)
    /\ \A i, j \in Taken(c) : c.cache[i].serial = c.cache[j].serial => i = j

\* and which serials are in it.
Serials(c) == {c.cache[i].serial : i \in Taken(c)}

\* The last serial the GOPs can know of: not one that stream_write has stored
\* and not looked at yet.
Newest == IF written THEN cur_serial - 1 ELSE cur_serial

\* A list q of GOPs, and the frames in them.
Gop == [start : 0 .. MaxSerial, end : 0 .. MaxSerial, lock : Nat \ {0}]
Span(x)   == x.start .. x.end
Locked(q) == UNION {Span(q[g]) : g \in DOMAIN q}

\* When n is the last serial looked at and M the frames in memory: no frame
\* is in two GOPs, each begins with an I frame and ends before the next.
GopList(q, n, M) ==
    /\ q \in Seq(Gop)
    /\ \A g \in DOMAIN q : q[g].start <= q[g].end /\ q[g].end <= n
    /\ \A g, h \in DOMAIN q : g # h => Span(q[g]) \cap Span(q[h]) = {}
    /\ \A g \in DOMAIN q : q[g].start \in DOMAIN M => M[q[g].start] = "I"
    /\ \A g \in DOMAIN q :
          q[g].end + 1 \in DOMAIN M /\ q[g].end + 1 <= n => M[q[g].end + 1] = "I"

\* The locks that readers who hold h have on the frames of S,
Holds(h, S) == {p \in Readers \X (1 .. MaxHeld) : p[2] <= Len(h[p[1]]) /\ h[p[1]][p[2]] \in S}

More(h, r, s) == [h EXCEPT ![r] = Append(@, s)]
Less(h, r)    == [h EXCEPT ![r] = Tail(@)]
HeldOK(h) ==
    /\ h \in [Readers -> Seq(0 .. MaxSerial)]
    /\ \A r \in Readers : Len(h[r]) <= MaxHeld
HeldIn(h, L) == \A r \in Readers : \A k \in DOMAIN h[r] : h[r][k] \in L

\* which are the locks on the GOPs, or more when a GOP was taken away.
Locks(q, h, d) ==
    /\ HeldOK(h)
    /\ d \in BOOLEAN
    /\ \A g \in DOMAIN q : q[g].lock <= Cardinality(Holds(h, Span(q[g])))
    /\ ~ d => \A g \in DOMAIN q : q[g].lock = Cardinality(Holds(h, Span(q[g])))
    /\ ~ d => HeldIn(h, Locked(q))

\* Changes of an entry of the list.
Relocked(q, g, k) == [q EXCEPT ![g].lock = k]
Extended(q, g, e) == [q EXCEPT ![g].end = e]
Prefixed(q, x)    == <<x>> \o q

GInv ==
    /\ FInv /\ Dense
    /\ written \in BOOLEAN /\ (written => job = NoJob /\ cur_serial >= 0)
    /\ Sound(theCache)
    /\ Serials(theCache) = Locked(gops)
    /\ GopList(gops, Newest, InMemory)
    /\ lockNewFrame \in BOOLEAN /\ (lockNewFrame <=> Newest \in Locked(gops))
    /\ Locks(gops, held, dropped)

-----------------------------------------------------------------------------
(* Numbers: least elements, and what is handed on from one to the next.    *)

\* A set of integers with a lower bound has a least element.
LEMMA Least ==
    ASSUME NEW lo \in Int, NEW T \in SUBSET Int, T # {}, \A x \in T : lo <= x
    PROVE  \E x \in T : \A y \in T : x <= y
<1> DEFINE R == OpToRel(<, Nat)
           U == {x - lo : x \in T}
<1>1. U \subseteq Nat /\ U # {}
    <2>1. \A x \in T : x - lo \in Nat
        OBVIOUS
    <2> QED
        BY <2>1
<1>2. \E u \in U : \A v \in U : ~ (<<v, u>> \in R)
    <2>1. IsWellFoundedOn(R, Nat)
        BY NatLessThanWellFounded
    <2> HIDE DEF R, U
    <2> QED
        BY <1>1, <2>1, WFMin
<1>3. PICK u \in U : \A v \in U : ~ (<<v, u>> \in R)
    BY <1>2
<1>4. \A v \in U : u <= v
    <2> SUFFICES ASSUME NEW v \in U, v < u PROVE FALSE
        BY <1>1
    <2>1. v \in Nat /\ u \in Nat
        BY <1>1
    <2>2. <<v, u>> \in R
        BY <2>1 DEF OpToRel
    <2> QED
        BY <1>3, <2>2
<1>5. PICK x \in T : u = x - lo
    OBVIOUS
<1>6. \A y \in T : x - lo <= y - lo
    BY <1>4, <1>5
<1>7. x \in Int /\ \A y \in T : y \in Int /\ x <= y
    BY <1>6
<1> QED
    BY <1>7

\* What holds of lo and is handed on to the next number holds up to hi.
LEMMA Climb ==
    ASSUME NEW lo \in Int, NEW hi \in Int, NEW S, lo \in S,
           \A k \in lo .. hi - 1 : k \in S => k + 1 \in S
    PROVE  lo .. hi \subseteq S
<1> SUFFICES ASSUME lo .. hi \ S # {} PROVE FALSE
    OBVIOUS
<1>1. PICK x \in lo .. hi \ S : \A y \in lo .. hi \ S : x <= y
    <2>1. (lo .. hi \ S) \in SUBSET Int /\ \A x \in lo .. hi \ S : lo <= x
        OBVIOUS
    <2> QED
        BY <2>1, Least
<1>2. x # lo /\ x - 1 \in lo .. hi - 1 /\ (x - 1) + 1 = x
    BY <1>1
<1>3. x - 1 \in S
    BY <1>1, <1>2
<1> QED
    BY <1>1, <1>2, <1>3

LEMMA FirstIs ==
    ASSUME NEW lo \in Int, NEW T \in SUBSET Int, T # {}, \A x \in T : lo <= x
    PROVE  First(T) \in T /\ \A y \in T : First(T) <= y
BY Least DEF First

\* UnlockGop is what a run of CacheUnlock over the serials leaves.
LEMMA UnlockGopRuns ==
    ASSUME NEW c, NEW s \in Int, NEW e \in Int, s <= e
    PROVE  \E f : /\ f = [k \in s - 1 .. e |-> IF k < s THEN c ELSE CacheUnlock(f[k - 1], k)]
                  /\ UnlockGop(c, s, e) = f[e]
<1> DEFINE Run(f, n) ==
               f = [k \in s - 1 .. n |-> IF k < s THEN c ELSE CacheUnlock(f[k - 1], k)]
           S == {n \in s - 1 .. e : \E f : Run(f, n)}
<1>1. s - 1 \in S
    <2> DEFINE f == [k \in s - 1 .. s - 1 |-> c]
    <2>1. Run(f, s - 1)
        OBVIOUS
    <2> QED
        BY <2>1
<1>2. ASSUME NEW n \in s - 1 .. e - 1, n \in S PROVE n + 1 \in S
    <2>1. PICK f : Run(f, n)
        BY <1>2
    <2> DEFINE g == [k \in s - 1 .. n + 1 |-> IF k = n + 1 THEN CacheUnlock(f[n], n + 1) ELSE f[k]]
    <2>2. ASSUME NEW k \in s - 1 .. n + 1
          PROVE  g[k] = IF k < s THEN c ELSE CacheUnlock(g[k - 1], k)
        <3>1. CASE k = n + 1
            <4>1. g[n] = f[n] /\ ~ (k < s) /\ k - 1 = n
                BY <3>1
            <4> QED
                BY <3>1, <4>1
        <3>2. CASE k \in s - 1 .. n
            <4>1. g[k] = f[k]
                BY <3>2
            <4>2. f[k] = IF k < s THEN c ELSE CacheUnlock(f[k - 1], k)
                BY <2>1, <3>2
            <4>3. ~ (k < s) => f[k - 1] = g[k - 1]
                BY <3>2
            <4> QED
                BY <4>1, <4>2, <4>3
        <3> QED
            BY <3>1, <3>2
    <2>3. Run(g, n + 1)
        <3> HIDE DEF g
        <3> g = [k \in s - 1 .. n + 1 |-> g[k]]
            BY DEF g
        <3> QED
            BY <2>2
    <2>4. n + 1 \in s - 1 .. e
        OBVIOUS
    <2> HIDE DEF Run, g
    <2> QED
        BY <2>3, <2>4
<1>3. e \in S
    <2>1. \A k \in s - 1 .. e - 1 : k \in S => k + 1 \in S
        BY <1>2
    <2>2. s - 1 .. e \subseteq S
        <3> HIDE DEF S
        <3> QED
            BY <1>1, <2>1, Climb
    <2> QED
        BY <2>2, e \in s - 1 .. e
<1>4. \E f : Run(f, e)
    BY <1>3
<1>5. UnlockGop(c, s, e) = (CHOOSE f : Run(f, e))[e]
    BY DEF UnlockGop
<1> QED
    BY <1>4, <1>5

LEMMA LockGopRuns ==
    ASSUME NEW c, NEW s \in Int, NEW e \in Int, s <= e
    PROVE  \E f : /\ f = [k \in s - 1 .. e |->
                             IF k < s THEN [ret |-> "OK", c |-> c]
                             ELSE IF f[k - 1].ret # "OK" THEN f[k - 1]
                             ELSE LET l == CacheLock(f[k - 1].c, k)
                                  IN  IF l.ret = "OK" THEN l
                                      ELSE [l EXCEPT !.c = UnlockGop(l.c, s, k - 1)]]
                  /\ LockGop(c, s, e) = f[e]
<1> DEFINE Turn(r, k) ==
               IF r.ret # "OK" THEN r
               ELSE LET l == CacheLock(r.c, k)
                    IN  IF l.ret = "OK" THEN l
                        ELSE [l EXCEPT !.c = UnlockGop(l.c, s, k - 1)]
           Run(f, n) ==
               f = [k \in s - 1 .. n |-> IF k < s THEN [ret |-> "OK", c |-> c]
                                         ELSE Turn(f[k - 1], k)]
           S == {n \in s - 1 .. e : \E f : Run(f, n)}
<1>1. s - 1 \in S
    <2> DEFINE f == [k \in s - 1 .. s - 1 |-> [ret |-> "OK", c |-> c]]
    <2> HIDE DEF Turn
    <2>1. Run(f, s - 1)
        OBVIOUS
    <2> QED
        BY <2>1
<1>2. ASSUME NEW n \in s - 1 .. e - 1, n \in S PROVE n + 1 \in S
    <2> HIDE DEF Turn
    <2>1. PICK f : Run(f, n)
        BY <1>2
    <2> DEFINE g == [k \in s - 1 .. n + 1 |-> IF k = n + 1 THEN Turn(f[n], n + 1) ELSE f[k]]
    <2>2. ASSUME NEW k \in s - 1 .. n + 1
          PROVE  g[k] = IF k < s THEN [ret |-> "OK", c |-> c] ELSE Turn(g[k - 1], k)
        <3>1. CASE k = n + 1
            <4>1. g[n] = f[n] /\ ~ (k < s) /\ k - 1 = n
                BY <3>1
            <4> QED
                BY <3>1, <4>1
        <3>2. CASE k \in s - 1 .. n
            <4>1. g[k] = f[k]
                BY <3>2
            <4>2. f[k] = IF k < s THEN [ret |-> "OK", c |-> c] ELSE Turn(f[k - 1], k)
                BY <2>1, <3>2
            <4>3. ~ (k < s) => f[k - 1] = g[k - 1]
                BY <3>2
            <4> QED
                BY <4>1, <4>2, <4>3
        <3> QED
            BY <3>1, <3>2
    <2>3. Run(g, n + 1)
        <3> HIDE DEF g
        <3> g = [k \in s - 1 .. n + 1 |-> g[k]]
            BY DEF g
        <3> QED
            BY <2>2
    <2>4. n + 1 \in s - 1 .. e
        OBVIOUS
    <2> HIDE DEF Run, g
    <2> QED
        BY <2>3, <2>4
<1>3. e \in S
    <2>1. \A k \in s - 1 .. e - 1 : k \in S => k + 1 \in S
        BY <1>2
    <2>2. s - 1 .. e \subseteq S
        <3> HIDE DEF S
        <3> QED
            BY <1>1, <2>1, Climb
    <2> QED
        BY <2>2, e \in s - 1 .. e
<1>4. \E f : Run(f, e)
    BY <1>3
<1>5. LockGop(c, s, e) = (CHOOSE f : Run(f, e))[e]
    BY DEF LockGop
<1> QED
    BY <1>4, <1>5

-----------------------------------------------------------------------------
(* The cache.                                                              *)

LEMMA TakenFields ==
    ASSUME NEW c, Sound(c), NEW i \in Taken(c)
    PROVE  /\ i \in CacheIdx /\ c.cache[i] \in CachedFrames
           /\ c.cache[i].serial \in 0 .. MaxSerial /\ c.cache[i].serial \in Int
           /\ c.cache[i].blkindex \in 0 .. CacheNum - 1 /\ c.cache[i].blks \in 1 .. CacheNum
           /\ c.cache[i].cnt = 1
BY MaxSerialAssumption, CacheNumAssumption DEF Sound, Taken, CachedFrames, EmptyCache, CacheIdx

\* The entry found for a serial.
LEMMA CachedIs ==
    ASSUME NEW c, Sound(c), NEW s \in Int, s <= cur_serial
    PROVE  /\ CachedAt(c, s) = {i \in Taken(c) : c.cache[i].serial = s}
           /\ CachedAt(c, s) = {} <=> s \notin Serials(c)
           /\ CachedAt(c, s) # {} => First(CachedAt(c, s)) \in CachedAt(c, s)
<1>1. CachedAt(c, s) = {i \in Taken(c) : c.cache[i].serial = s}
    BY DEF CachedAt, Taken
<1>2. CachedAt(c, s) \in SUBSET Int /\ \A i \in CachedAt(c, s) : 0 <= i
    BY CacheNumAssumption DEF CachedAt, CacheIdx
<1>3. CachedAt(c, s) # {} => First(CachedAt(c, s)) \in CachedAt(c, s)
    BY <1>2, FirstIs, 0 \in Int
<1> QED
    BY <1>1, <1>3 DEF Serials

\* Taking one frame out of the cache.
LEMMA UnlockOne ==
    ASSUME NEW c, Sound(c), NEW s \in Int, s <= cur_serial
    PROVE  Sound(CacheUnlock(c, s)) /\ Serials(CacheUnlock(c, s)) = Serials(c) \ {s}
<1>1. CASE CachedAt(c, s) = {}
    <2>1. CacheUnlock(c, s) = c
        BY <1>1 DEF CacheUnlock
    <2> QED
        BY <1>1, <2>1, CachedIs
<1>2. CASE CachedAt(c, s) # {}
    <2>1. PICK i : i = First(CachedAt(c, s))
        OBVIOUS
    <2>2. i \in Taken(c) /\ c.cache[i].serial = s
        BY <1>2, <2>1, CachedIs
    <2>3. i \in CacheIdx /\ c.cache[i].cnt = 1
        BY <2>2, TakenFields
    <2>4. PICK d : d = CacheUnlock(c, s)
        OBVIOUS
    <2>5. d = [cache |-> [c.cache EXCEPT ![i] = EmptyCache], free |-> SetBlks(c, i, TRUE)]
        BY <1>2, <2>1, <2>3, <2>4 DEF CacheUnlock
    <2>6. c.cache \in [CacheIdx -> {EmptyCache} \cup CachedFrames] /\ c.free \in [CacheIdx -> BOOLEAN]
        BY DEF Sound
    <2>7. d.cache \in [CacheIdx -> {EmptyCache} \cup CachedFrames]
        BY <2>5, <2>6
    <2>8. Taken(d) = Taken(c) \ {i} /\ \A j \in Taken(d) : d.cache[j] = c.cache[j]
        BY <2>3, <2>5, <2>6 DEF Taken, EmptyCache
    <2>9. \A j \in Taken(d) : BlksIn(d, j) = BlksIn(c, j)
        BY <2>8 DEF BlksIn
    <2>10. d.free = [b \in CacheIdx |-> IF b \in BlksIn(c, i) THEN TRUE ELSE c.free[b]]
        <3>1. /\ c.cache[i].blkindex \in Int /\ c.cache[i].blks \in Int
            BY <2>2, TakenFields, CacheNumAssumption
        <3> QED
            BY <2>5 DEF SetBlks, BlksIn
    <2>11. ASSUME NEW b \in CacheIdx
           PROVE  d.free[b] <=> \A j \in Taken(d) : b \notin BlksIn(d, j)
        <3>1. c.free[b] <=> \A j \in Taken(c) : b \notin BlksIn(c, j)
            BY DEF Sound
        <3>2. b \in BlksIn(c, i) => \A j \in Taken(c) \ {i} : b \notin BlksIn(c, j)
            BY <2>2 DEF Sound
        <3> QED
            BY <2>2, <2>8, <2>9, <2>10, <3>1, <3>2
    <2>12. Sound(d)
        <3>1. d = [cache |-> d.cache, free |-> d.free] /\ d.free \in [CacheIdx -> BOOLEAN]
            BY <2>5, <2>6, <2>10
        <3>2. \A j \in Taken(d) : BlksIn(d, j) \subseteq CacheIdx
            BY <2>8, <2>9 DEF Sound
        <3>3. \A j, k \in Taken(d) : j # k => BlksIn(d, j) \cap BlksIn(d, k) = {}
            BY <2>8, <2>9 DEF Sound
        <3>4. \A j, k \in Taken(d) : d.cache[j].serial = d.cache[k].serial => j = k
            BY <2>8 DEF Sound
        <3> QED
            BY <2>7, <2>11, <3>1, <3>2, <3>3, <3>4 DEF Sound
    <2>13. Serials(d) = Serials(c) \ {s}
        <3>1. \A j \in Taken(c) \ {i} : c.cache[j].serial # s
            BY <2>2 DEF Sound
        <3> QED
            BY <2>2, <2>8, <3>1 DEF Serials
    <2> QED
        BY <2>4, <2>12, <2>13
<1> QED
    BY <1>1, <1>2

\* Taking the frames of a GOP out of the cache.
LEMMA UnlockAll ==
    ASSUME NEW c, Sound(c), cur_serial \in Int, NEW s \in Int, NEW e \in s - 1 .. cur_serial
    PROVE  Sound(UnlockGop(c, s, e)) /\ Serials(UnlockGop(c, s, e)) = Serials(c) \ (s .. e)
<1>1. CASE e < s
    <2>1. UnlockGop(c, s, e) = c /\ s .. e = {}
        BY <1>1 DEF UnlockGop
    <2> QED
        BY <2>1
<1>2. CASE s <= e
    <2>1. PICK f : /\ f = [k \in s - 1 .. e |-> IF k < s THEN c ELSE CacheUnlock(f[k - 1], k)]
                   /\ UnlockGop(c, s, e) = f[e]
        BY <1>2, UnlockGopRuns, e \in Int
    <2> DEFINE S == {n \in s - 1 .. e : Sound(f[n]) /\ Serials(f[n]) = Serials(c) \ (s .. n)}
    <2>2. s - 1 \in S
        <3>1. f[s - 1] = c /\ s .. s - 1 = {} /\ s - 1 \in s - 1 .. e
            BY <1>2, <2>1
        <3> QED
            BY <3>1
    <2>3. ASSUME NEW n \in s - 1 .. e - 1, n \in S PROVE n + 1 \in S
        <3>1. n + 1 \in s - 1 .. e /\ n + 1 \in Int /\ n + 1 <= cur_serial
            BY <2>3
        <3>2. f[n + 1] = CacheUnlock(f[n], n + 1)
            BY <2>1, <2>3, <3>1
        <3>3. Sound(f[n]) /\ Serials(f[n]) = Serials(c) \ (s .. n)
            BY <2>3
        <3>4. Sound(f[n + 1]) /\ Serials(f[n + 1]) = Serials(f[n]) \ {n + 1}
            BY <3>1, <3>2, <3>3, UnlockOne
        <3>5. s .. n + 1 = (s .. n) \cup {n + 1}
            BY <2>3
        <3>6. Serials(f[n + 1]) = Serials(c) \ (s .. n + 1)
            BY <3>3, <3>4, <3>5
        <3> QED
            BY <3>1, <3>4, <3>6
    <2>4. s - 1 .. e \subseteq S
        <3>1. \A k \in s - 1 .. e - 1 : k \in S => k + 1 \in S
            BY <2>3
        <3> HIDE DEF S
        <3> QED
            BY <2>2, <3>1, Climb
    <2>5. e \in S
        BY <1>2, <2>4
    <2> QED
        BY <2>1, <2>5
<1> QED
    BY <1>1, <1>2

\* What MemMng_GetFrameBySerial finds between writes.
LEMMA Look ==
    ASSUME FInv, Dense, job = NoJob, NEW s \in Int
    PROVE  /\ Lookup(s) = -1 <=> s \notin DOMAIN InMemory
           /\ s \in DOMAIN InMemory =>
                  /\ s \in 0 .. MaxSerial /\ s <= cur_serial
                  /\ Lookup(s) \in Stored /\ Lookup(s) \in Frames
                  /\ frame[Lookup(s)].serial = s
                  /\ frame[Lookup(s)].type = InMemory[s] /\ InMemory[s] \in Types
                  /\ frame[Lookup(s)].blks \in 1 .. BlkNum
<1>1. cur_serial \in -1 .. MaxSerial /\ MaxSerial \in Nat
    BY MaxSerialAssumption DEF FInv, TypeOK
<1>2. /\ DOMAIN InMemory = {frame[i].serial : i \in Stored}
      /\ \A i \in Stored : InMemory[frame[i].serial] = frame[i].type
    BY InMemoryNow DEF InMemoryIs
<1>3. CASE s \notin 0 .. cur_serial
    <2>1. Lookup(s) = -1
        BY <1>1, <1>3 DEF Lookup
    <2> QED
        BY <1>3, <2>1 DEF Dense
<1>4. CASE s \in 0 .. cur_serial
    <2>1. s \in 0 .. MaxSerial
        BY <1>1, <1>4
    <2>2. PICK hits : hits = {i \in Stored : frame[i].serial = s}
        OBVIOUS
    <2>3. IF hits = {} THEN Lookup(s) = -1 ELSE hits = {Lookup(s)}
        BY <2>1, <2>2, LookupsNow DEF LookupFinds
    <2>4. s \in DOMAIN InMemory <=> hits # {}
        BY <1>2, <2>2
    <2>5. CASE hits = {}
        BY <2>3, <2>4, <2>5
    <2>6. CASE hits # {}
        <3>1. Lookup(s) \in Stored /\ frame[Lookup(s)].serial = s
            BY <2>2, <2>3, <2>6
        <3>2. Lookup(s) \in Used /\ Lookup(s) \in Frames /\ Lookup(s) # -1
            BY <3>1, StoredUsed, BlkNumAssumption DEF FInv, Used, Frames
        <3>3. frame[Lookup(s)].blks \in 1 .. BlkNum
            BY <3>2, UsedFields DEF FInv
        <3>4. frame[Lookup(s)].type = InMemory[s] /\ InMemory[s] \in Types
            BY <1>2, <2>4, <2>6, <3>1 DEF Dense
        <3>5. s <= cur_serial
            BY <1>1, <1>4
        <3> QED
            BY <2>1, <2>4, <2>6, <3>1, <3>2, <3>3, <3>4, <3>5
    <2> QED
        BY <2>5, <2>6
<1> QED
    BY <1>3, <1>4

LEMMA SoundIs ==
    ASSUME NEW c, Sound(c)
    PROVE  /\ c = [cache |-> c.cache, free |-> c.free]
           /\ c.cache \in [CacheIdx -> {EmptyCache} \cup CachedFrames]
           /\ c.free \in [CacheIdx -> BOOLEAN]
BY DEF Sound

\* Copying one frame to the cache.
LEMMA LockOne ==
    ASSUME FInv, Dense, job = NoJob, NEW c, Sound(c),
           NEW s \in 0 .. cur_serial, s \notin Serials(c), NEW l, l = CacheLock(c, s)
    PROVE  /\ l = [ret |-> l.ret, c |-> l.c] /\ Sound(l.c)
           /\ l.ret = "OK" => Serials(l.c) = Serials(c) \cup {s}
           /\ l.ret # "OK" => l.c = c
<1>1. cur_serial \in Int /\ s \in Int /\ s <= cur_serial
    BY MaxSerialAssumption DEF FInv, TypeOK
<1>2. CachedAt(c, s) = {}
    BY <1>1, CachedIs
<1> DEFINE b == FreeBlksAt(c, frame[Lookup(s)].blks)
           i == First(FreeCacheAt(c))
           e == [serial |-> s, type |-> frame[Lookup(s)].type, blkindex |-> First(b),
                 blks |-> frame[Lookup(s)].blks, cnt |-> 1]
           d == [c EXCEPT !.cache[i] = e]
           z == [d EXCEPT !.free = SetBlks(d, i, FALSE)]
<1>3. l = IF Lookup(s) = -1 THEN [ret |-> "ERR", c |-> c]
          ELSE IF b = {} \/ FreeCacheAt(c) = {} THEN [ret |-> "NOMEM", c |-> c]
          ELSE [ret |-> "OK", c |-> z]
    BY <1>2 DEF CacheLock
<1>4. CASE Lookup(s) = -1 \/ b = {} \/ FreeCacheAt(c) = {}
    <2> HIDE DEF b, z
    <2> QED
        BY <1>3, <1>4
<1>5. CASE ~ (Lookup(s) = -1 \/ b = {} \/ FreeCacheAt(c) = {})
    <2> DEFINE F == Lookup(s)
               n == frame[F].blks
               m == First(b)
    <2>1. s \in 0 .. MaxSerial /\ frame[F].type \in Types /\ n \in 1 .. BlkNum
        BY <1>1, <1>5, Look
    <2>2. n \in Nat /\ n >= 1
        BY <2>1, BlkNumAssumption
    <2>3. m \in CacheIdx /\ m + n <= CacheNum /\ \A k \in m .. m + n - 1 : c.free[k]
        <3>1. b \in SUBSET Int /\ \A x \in b : 0 <= x
            BY CacheNumAssumption DEF FreeBlksAt, CacheIdx
        <3>2. m \in b
            <4> HIDE DEF b
            <4> QED
                BY <1>5, <3>1, FirstIs, 0 \in Int
        <3> QED
            BY <3>2 DEF FreeBlksAt
    <2>4. i \in CacheIdx /\ c.cache[i].type = "EMPTY"
        <3>1. FreeCacheAt(c) \in SUBSET Int /\ \A x \in FreeCacheAt(c) : 0 <= x
            BY CacheNumAssumption DEF FreeCacheAt, CacheIdx
        <3>2. i \in FreeCacheAt(c)
            BY <1>5, <3>1, FirstIs, 0 \in Int
        <3> QED
            BY <3>2 DEF FreeCacheAt
    <2>5. n \in 1 .. CacheNum /\ m \in 0 .. CacheNum - 1 /\ m .. m + n - 1 \subseteq CacheIdx
        BY <2>2, <2>3, CacheNumAssumption DEF CacheIdx
    <2>6. e \in CachedFrames /\ e.serial = s /\ e.type # "EMPTY" /\ e.blkindex = m /\ e.blks = n
        BY <2>1, <2>3, <2>5 DEF CachedFrames, Types
    <2>7. PICK y : y = z
        OBVIOUS
    <2> HIDE DEF e, m, n, F, b
    <2>8. /\ y.cache = [c.cache EXCEPT ![i] = e]
          /\ y.free = [x \in CacheIdx |-> IF x \in m .. m + n - 1 THEN FALSE ELSE c.free[x]]
          /\ y = [cache |-> y.cache, free |-> y.free]
        <3>1. d.cache = [c.cache EXCEPT ![i] = e] /\ d.free = c.free
              /\ d = [cache |-> d.cache, free |-> d.free]
            BY SoundIs
        <3>2. d.cache[i] = e
            BY <2>4, <3>1, SoundIs
        <3>3. SetBlks(d, i, FALSE) = [x \in CacheIdx |-> IF x \in m .. m + n - 1 THEN FALSE ELSE c.free[x]]
            BY <2>6, <3>1, <3>2 DEF SetBlks
        <3> HIDE DEF d
        <3> QED
            BY <2>7, <3>1, <3>3
    <2> HIDE DEF z, d, i
    <2>9. PICK a : a = i
        OBVIOUS
    <2>10. /\ y.cache \in [CacheIdx -> {EmptyCache} \cup CachedFrames] /\ y.free \in [CacheIdx -> BOOLEAN]
           /\ y.cache[a] = e /\ \A j \in CacheIdx \ {a} : y.cache[j] = c.cache[j]
        <3>1. y.cache = [c.cache EXCEPT ![a] = e] /\ a \in CacheIdx
            BY <2>4, <2>8, <2>9
        <3>2. /\ y.cache \in [CacheIdx -> {EmptyCache} \cup CachedFrames]
              /\ y.cache[a] = e /\ \A j \in CacheIdx \ {a} : y.cache[j] = c.cache[j]
            BY <2>6, <3>1, SoundIs
        <3>3. y.free \in [CacheIdx -> BOOLEAN]
            <4>1. \A x \in CacheIdx : (IF x \in m .. m + n - 1 THEN FALSE ELSE c.free[x]) \in BOOLEAN
                BY SoundIs
            <4> QED
                BY <2>8, <4>1
        <3> QED
            BY <3>2, <3>3
    <2>11. a \in CacheIdx /\ a \notin Taken(c) /\ Taken(y) = Taken(c) \cup {a}
        BY <2>4, <2>6, <2>9, <2>10 DEF Taken
    <2>12. /\ BlksIn(y, a) = m .. m + n - 1
           /\ \A j \in Taken(c) : j # a /\ BlksIn(y, j) = BlksIn(c, j) /\ y.cache[j] = c.cache[j]
        BY <2>6, <2>10, <2>11 DEF BlksIn, Taken
    <2>13. \A j \in Taken(c) : BlksIn(c, j) \cap BlksIn(y, a) = {}
        <3> SUFFICES ASSUME NEW j \in Taken(c), NEW x \in BlksIn(c, j), x \in BlksIn(y, a) PROVE FALSE
            OBVIOUS
        <3>1. x \in CacheIdx /\ c.free[x]
            BY <2>3, <2>5, <2>12
        <3> QED
            BY <3>1 DEF Sound
    <2>14. ASSUME NEW x \in CacheIdx
           PROVE  y.free[x] <=> \A j \in Taken(y) : x \notin BlksIn(y, j)
        <3>1. c.free[x] <=> \A j \in Taken(c) : x \notin BlksIn(c, j)
            BY DEF Sound
        <3>2. y.free[x] <=> c.free[x] /\ x \notin BlksIn(y, a)
            BY <2>8, <2>12, SoundIs
        <3> QED
            BY <2>11, <2>12, <3>1, <3>2
    <2>15. Sound(y)
        <3>1. \A j \in Taken(y) : BlksIn(y, j) \subseteq CacheIdx
            BY <2>5, <2>11, <2>12 DEF Sound
        <3>2. \A j, k \in Taken(y) : j # k => BlksIn(y, j) \cap BlksIn(y, k) = {}
            BY <2>11, <2>12, <2>13 DEF Sound
        <3>3. \A j \in Taken(c) : y.cache[j].serial # s
            BY <2>12 DEF Serials
        <3>4. \A j, k \in Taken(y) : y.cache[j].serial = y.cache[k].serial => j = k
            BY <2>6, <2>10, <2>11, <2>12, <3>3 DEF Sound
        <3> QED
            BY <2>8, <2>10, <2>14, <3>1, <3>2, <3>4 DEF Sound
    <2>16. Serials(y) = Serials(c) \cup {s}
        BY <2>6, <2>10, <2>11, <2>12 DEF Serials
    <2>17. l = [ret |-> "OK", c |-> y]
        BY <1>3, <1>5, <2>7
    <2> QED
        BY <2>15, <2>16, <2>17
<1> QED
    BY <1>4, <1>5

\* Copying the frames of a GOP to the cache: all of them or none.
LEMMA LockAll ==
    ASSUME FInv, Dense, job = NoJob, NEW c, Sound(c),
           NEW s \in Nat, NEW e \in s .. cur_serial, (s .. e) \cap Serials(c) = {},
           NEW l, l = LockGop(c, s, e)
    PROVE  /\ Sound(l.c)
           /\ l.ret = "OK" => Serials(l.c) = Serials(c) \cup s .. e
           /\ l.ret # "OK" => Serials(l.c) = Serials(c)
<1>1. cur_serial \in Int /\ e \in Int /\ s \in Int /\ s <= e
    BY MaxSerialAssumption DEF FInv, TypeOK
<1>2. PICK f : /\ f = [k \in s - 1 .. e |->
                          IF k < s THEN [ret |-> "OK", c |-> c]
                          ELSE IF f[k - 1].ret # "OK" THEN f[k - 1]
                          ELSE LET t == CacheLock(f[k - 1].c, k)
                               IN  IF t.ret = "OK" THEN t
                                   ELSE [t EXCEPT !.c = UnlockGop(t.c, s, k - 1)]]
               /\ LockGop(c, s, e) = f[e]
    BY <1>1, LockGopRuns
<1> DEFINE Good(r, n) ==
               /\ Sound(r.c)
               /\ r.ret = "OK" => Serials(r.c) = Serials(c) \cup s .. n
               /\ r.ret # "OK" => Serials(r.c) = Serials(c)
           S == {n \in s - 1 .. e : Good(f[n], n)}
<1>3. s - 1 \in S
    <2>1. f[s - 1] = [ret |-> "OK", c |-> c] /\ s .. s - 1 = {} /\ s - 1 \in s - 1 .. e
        BY <1>1, <1>2
    <2> QED
        BY <2>1
<1>4. ASSUME NEW n \in s - 1 .. e - 1, n \in S PROVE n + 1 \in S
    <2>1. n + 1 \in s - 1 .. e /\ n + 1 \in 0 .. cur_serial /\ n + 1 \in s .. e /\ n \in Int
        BY <1>1, <1>4
    <2>2. PICK r : r = f[n]
        OBVIOUS
    <2>3. Good(r, n)
        BY <1>4, <2>2
    <2>4. PICK t : t = CacheLock(r.c, n + 1)
        OBVIOUS
    <2>5. f[n + 1] = IF r.ret # "OK" THEN r
                     ELSE IF t.ret = "OK" THEN t
                     ELSE [t EXCEPT !.c = UnlockGop(t.c, s, n)]
        <3>1. ~ (n + 1 < s) /\ (n + 1) - 1 = n
            BY <2>1
        <3> QED
            BY <1>2, <2>1, <2>2, <2>4, <3>1
    <2>6. CASE r.ret # "OK"
        BY <2>1, <2>3, <2>5, <2>6
    <2>7. CASE r.ret = "OK"
        <3>1. Sound(r.c) /\ Serials(r.c) = Serials(c) \cup s .. n
            BY <2>3, <2>7
        <3>2. n + 1 \notin Serials(r.c)
            BY <2>1, <3>1
        <3>3. /\ t = [ret |-> t.ret, c |-> t.c] /\ Sound(t.c)
              /\ t.ret = "OK" => Serials(t.c) = Serials(r.c) \cup {n + 1}
              /\ t.ret # "OK" => t.c = r.c
            BY <2>1, <2>4, <3>1, <3>2, LockOne
        <3>4. CASE t.ret = "OK"
            <4>1. f[n + 1] = t
                BY <2>5, <2>7, <3>4
            <4>2. s .. n + 1 = (s .. n) \cup {n + 1}
                BY <2>1
            <4> QED
                BY <2>1, <3>1, <3>3, <3>4, <4>1, <4>2
        <3>5. CASE t.ret # "OK"
            <4>1. f[n + 1] = [t EXCEPT !.c = UnlockGop(r.c, s, n)]
                BY <2>5, <2>7, <3>3, <3>5
            <4>2. f[n + 1].ret = t.ret /\ f[n + 1].c = UnlockGop(r.c, s, n)
                BY <3>3, <4>1
            <4>3. n \in s - 1 .. cur_serial
                BY <1>1, <2>1
            <4>4. /\ Sound(UnlockGop(r.c, s, n))
                  /\ Serials(UnlockGop(r.c, s, n)) = Serials(r.c) \ (s .. n)
                BY <1>1, <3>1, <4>3, UnlockAll
            <4>5. (s .. n) \cap Serials(c) = {}
                BY <1>4
            <4>6. Serials(UnlockGop(r.c, s, n)) = Serials(c)
                BY <3>1, <4>4, <4>5
            <4> QED
                BY <2>1, <3>5, <4>2, <4>4, <4>6
        <3> QED
            BY <3>4, <3>5
    <2> QED
        BY <2>6, <2>7
<1>5. s - 1 .. e \subseteq S
    <2>1. \A k \in s - 1 .. e - 1 : k \in S => k + 1 \in S
        BY <1>4
    <2> HIDE DEF S
    <2> QED
        BY <1>1, <1>3, <2>1, Climb
<1>6. e \in S
    BY <1>1, <1>5
<1> QED
    BY <1>2, <1>6

-----------------------------------------------------------------------------
(* The memory under the cache.                                             *)

\* A step of the window leaves it dense, and what stays in memory as it was.
LEMMA DenseStep ==
    ASSUME FInv, Dense, [Next]_vars
    PROVE  /\ Dense'
           /\ \A s \in DOMAIN InMemory' : s <= cur_serial =>
                  s \in DOMAIN InMemory /\ InMemory'[s] = InMemory[s]
<1>1. cur_serial \in Int /\ cur_serial >= -1
    BY MaxSerialAssumption DEF FInv, TypeOK
<1>2. CASE UNCHANGED <<InMemory, cur_serial>>
    BY <1>2 DEF Dense
<1>3. CASE Window!Append(job.type) /\ job.type \in Types /\ cur_serial' = cur_serial + 1
    <2>1. PICK M, N, t : M = InMemory /\ N = InMemory' /\ t = job.type
        OBVIOUS
    <2>2. /\ N = [r \in DOMAIN M \cup {cur_serial + 1} |->
                     IF r = cur_serial + 1 THEN t ELSE M[r]]
          /\ t \in Types
        BY <1>3, <2>1 DEF Window!Append
    <2>3. /\ DOMAIN M \subseteq 0 .. cur_serial
          /\ \A s \in DOMAIN M : s .. cur_serial \subseteq DOMAIN M
          /\ \A s \in DOMAIN M : M[s] \in Types
        BY <2>1 DEF Dense
    <2>4. cur_serial' = cur_serial + 1
        BY <1>3
    <2>5. DOMAIN N = DOMAIN M \cup {cur_serial + 1}
        BY <2>2
    <2>6. \A s \in DOMAIN M : N[s] = M[s] /\ s <= cur_serial
        BY <1>1, <2>2, <2>3
    <2>7. DOMAIN N \subseteq 0 .. cur_serial + 1
        BY <1>1, <2>3, <2>5
    <2>8. \A s \in DOMAIN N : s .. cur_serial + 1 \subseteq DOMAIN N
        <3> SUFFICES ASSUME NEW s \in DOMAIN N, NEW r \in s .. cur_serial + 1
                     PROVE  r \in DOMAIN N
            OBVIOUS
        <3>1. CASE r = cur_serial + 1
            BY <2>5, <3>1
        <3>2. CASE r # cur_serial + 1
            <4>1. s \in DOMAIN M /\ r \in s .. cur_serial
                BY <1>1, <2>5, <2>7, <3>2
            <4> QED
                BY <2>3, <2>5, <4>1
        <3> QED
            BY <3>1, <3>2
    <2>9. \A s \in DOMAIN N : N[s] \in Types
        BY <2>2, <2>3
    <2>10. Dense'
        BY <2>1, <2>4, <2>7, <2>8, <2>9 DEF Dense
    <2>11. \A s \in DOMAIN N : s <= cur_serial => s \in DOMAIN M /\ N[s] = M[s]
        BY <1>1, <2>5, <2>6
    <2> QED
        BY <2>1, <2>10, <2>11
<1>4. CASE Window!Drop /\ cur_serial' = cur_serial
    <2>1. PICK M, N : M = InMemory /\ N = InMemory'
        OBVIOUS
    <2>2. PICK m \in DOMAIN M : /\ \A r \in DOMAIN M : m <= r
                                /\ N = [r \in DOMAIN M \ {m} |-> M[r]]
        BY <1>4, <2>1 DEF Window!Drop
    <2>3. cur_serial' = cur_serial
        BY <1>4
    <2>4. /\ DOMAIN M \subseteq 0 .. cur_serial
          /\ \A s \in DOMAIN M : s .. cur_serial \subseteq DOMAIN M
          /\ \A s \in DOMAIN M : M[s] \in Types
        BY <2>1 DEF Dense
    <2>5. DOMAIN N = DOMAIN M \ {m} /\ \A s \in DOMAIN N : N[s] = M[s]
        BY <2>2
    <2>6. \A s \in DOMAIN N : s .. cur_serial \subseteq DOMAIN N
        <3> SUFFICES ASSUME NEW s \in DOMAIN N, NEW r \in s .. cur_serial
                     PROVE  r \in DOMAIN N
            OBVIOUS
        <3>1. s \in DOMAIN M /\ s # m /\ m <= s /\ s \in Int /\ m \in Int
            BY <2>2, <2>4, <2>5
        <3>2. r \in DOMAIN M /\ r # m
            BY <2>4, <3>1
        <3> QED
            BY <2>5, <3>2
    <2>7. Dense'
        BY <2>1, <2>3, <2>4, <2>5, <2>6 DEF Dense
    <2> QED
        BY <2>1, <2>5, <2>7
<1>5. \/ UNCHANGED <<InMemory, cur_serial>>
      \/ Window!Append(job.type) /\ job.type \in Types /\ cur_serial' = cur_serial + 1
      \/ Window!Drop /\ cur_serial' = cur_serial
    <2>1. ASSUME NEW blks \in 1 .. BlkNum, NEW type \in Types, VideoWrite(blks, type)
          PROVE  UNCHANGED <<InMemory, cur_serial>>
        <3>1. FInv' /\ frame' = frame /\ cur_serial' = cur_serial
            BY <2>1, VideoWriteStep
        <3>2. Stored' = Stored
            BY <3>1 DEF Stored
        <3> QED
            BY <3>1, <3>2, NotSeen
    <2>2. CASE FreeOldest
        <3>1. cur_serial' = cur_serial
            BY <2>2 DEF FreeOldest, pos
        <3> QED
            BY <2>2, <3>1, FreeOldestDrops
    <2>3. CASE FillUp
        <3>1. cur_serial' = cur_serial
            BY <2>3, FillUpStep DEF Inserted
        <3> QED
            BY <2>3, <3>1, FillUpNotSeen
    <2>4. CASE Store
        <3>1. job.type # "DUMMY"
            BY <2>4, StoreAppends, Dummy
        <3>2. cur_serial' = cur_serial + 1
            BY <2>4, <3>1, StoreStep DEF Inserted
        <3> QED
            BY <2>4, <3>2, StoreAppends
    <2>5. CASE UNCHANGED vars
        BY <2>5 DEF vars, pos, InMemory, Stored
    <2> QED
        BY <2>1, <2>2, <2>3, <2>4, <2>5 DEF Next, WriteStep
<1> QED
    BY <1>2, <1>3, <1>4, <1>5

-----------------------------------------------------------------------------
(* The list of GOPs.                                                       *)

LEMMA ListFields ==
    ASSUME NEW q \in Seq(Gop), NEW g \in DOMAIN q
    PROVE  /\ q[g] \in Gop /\ q[g].start \in 0 .. MaxSerial /\ q[g].end \in 0 .. MaxSerial
           /\ q[g].start \in Int /\ q[g].end \in Int /\ q[g].lock \in Nat /\ q[g].lock >= 1
           /\ g \in 1 .. Len(q) /\ Len(q) \in Nat
<1>1. q[g] \in Gop /\ g \in 1 .. Len(q) /\ Len(q) \in Nat
    OBVIOUS
<1> QED
    BY <1>1, MaxSerialAssumption DEF Gop

\* A change of one entry.
LEMMA Changed ==
    ASSUME NEW q \in Seq(Gop), NEW g \in DOMAIN q, NEW x \in Gop, NEW w, w = [q EXCEPT ![g] = x]
    PROVE  w \in Seq(Gop) /\ DOMAIN w = DOMAIN q /\ w[g] = x /\ \A j \in DOMAIN q \ {g} : w[j] = q[j]
OBVIOUS

\* The entry g leaves the list: the ones after it move up.
LEMMA Removed ==
    ASSUME NEW q \in Seq(Gop), NEW g \in DOMAIN q, NEW w, w = RemoveAt(q, g)
    PROVE  /\ w \in Seq(Gop) /\ DOMAIN w = 1 .. Len(q) - 1
           /\ \A j \in DOMAIN w : w[j] = q[IF j < g THEN j ELSE j + 1]
<1>1. g \in 1 .. Len(q) /\ Len(q) \in Nat
    OBVIOUS
<1>2. PICK a, b : a = SubSeq(q, 1, g - 1) /\ b = SubSeq(q, g + 1, Len(q))
    OBVIOUS
<1>3. /\ a \in Seq(Gop) /\ Len(a) = g - 1 /\ \A j \in 1 .. g - 1 : a[j] = q[j]
    BY <1>1, <1>2
<1>4. /\ b \in Seq(Gop) /\ Len(b) = Len(q) - g /\ \A j \in 1 .. Len(q) - g : b[j] = q[g + j]
    BY <1>1, <1>2
<1>5. w = a \o b
    BY <1>2 DEF RemoveAt
<1>6. /\ w \in Seq(Gop) /\ Len(w) = Len(a) + Len(b)
      /\ \A j \in 1 .. Len(w) : w[j] = IF j <= Len(a) THEN a[j] ELSE b[j - Len(a)]
    <2>1. Len(a) \in Nat /\ Len(b) \in Nat
        BY <1>1, <1>3, <1>4
    <2>2. w \in Seq(Gop) /\ Len(w) = Len(a) + Len(b)
        BY <1>3, <1>4, <1>5
    <2>3. \A j \in 1 .. Len(w) : w[j] = IF j <= Len(a) THEN a[j] ELSE b[j - Len(a)]
        <3> HIDE <1>2
        <3> QED
            BY <1>5, <2>1, <2>2
    <2> QED
        BY <2>2, <2>3
<1>7. DOMAIN w = 1 .. Len(q) - 1 /\ Len(w) = Len(q) - 1
    BY <1>1, <1>3, <1>4, <1>6
<1>8. ASSUME NEW j \in 1 .. Len(q) - 1 PROVE w[j] = q[IF j < g THEN j ELSE j + 1]
    <2>1. CASE j < g
        <3>1. j \in 1 .. g - 1 /\ j <= Len(a) /\ j \in 1 .. Len(w)
            BY <1>1, <1>3, <1>7, <2>1
        <3> QED
            BY <1>3, <1>6, <2>1, <3>1
    <2>2. CASE ~ (j < g)
        <3>1. j - (g - 1) \in 1 .. Len(q) - g /\ ~ (j <= Len(a)) /\ j \in 1 .. Len(w)
            BY <1>1, <1>3, <1>7, <2>2
        <3>2. w[j] = b[j - (g - 1)]
            BY <1>3, <1>6, <3>1
        <3>3. b[j - (g - 1)] = q[g + (j - (g - 1))] /\ g + (j - (g - 1)) = j + 1
            BY <1>1, <1>4, <3>1
        <3> QED
            BY <2>2, <3>2, <3>3
    <2> QED
        BY <2>1, <2>2
<1> QED
    BY <1>6, <1>7, <1>8

\* Where the entries come from.
LEMMA RemovedFrom ==
    ASSUME NEW q \in Seq(Gop), NEW g \in DOMAIN q, NEW w, w = RemoveAt(q, g)
    PROVE  /\ \A j \in DOMAIN w : \E i \in DOMAIN q \ {g} : w[j] = q[i]
           /\ \A i \in DOMAIN q \ {g} : \E j \in DOMAIN w : w[j] = q[i]
           /\ \A j, k \in DOMAIN w : j # k => \E i, h \in DOMAIN q \ {g} : i # h /\ w[j] = q[i] /\ w[k] = q[h]
<1>1. /\ DOMAIN w = 1 .. Len(q) - 1
      /\ \A j \in DOMAIN w : w[j] = q[IF j < g THEN j ELSE j + 1]
    BY Removed
<1>2. g \in 1 .. Len(q) /\ Len(q) \in Nat /\ DOMAIN q = 1 .. Len(q)
    OBVIOUS
<1> DEFINE m(j) == IF j < g THEN j ELSE j + 1
<1>3. ASSUME NEW j \in DOMAIN w PROVE m(j) \in DOMAIN q \ {g} /\ w[j] = q[m(j)]
    BY <1>1, <1>2
<1>4. ASSUME NEW i \in DOMAIN q \ {g} PROVE \E j \in DOMAIN w : w[j] = q[i]
    <2>1. PICK j : j = IF i < g THEN i ELSE i - 1
        OBVIOUS
    <2>2. j \in DOMAIN w /\ m(j) = i
        BY <1>1, <1>2, <2>1
    <2> QED
        BY <1>3, <2>2
<1>5. ASSUME NEW j \in DOMAIN w, NEW k \in DOMAIN w, j # k PROVE m(j) # m(k)
    BY <1>1, <1>2, <1>5
<1> HIDE DEF m
<1>6. \A j \in DOMAIN w : \E i \in DOMAIN q \ {g} : w[j] = q[i]
    BY <1>3
<1>7. \A j, k \in DOMAIN w : j # k => \E i, h \in DOMAIN q \ {g} : i # h /\ w[j] = q[i] /\ w[k] = q[h]
    BY <1>3, <1>5
<1> QED
    BY <1>4, <1>6, <1>7

\* A GOP enters the list at its head.
LEMMA Added ==
    ASSUME NEW q \in Seq(Gop), NEW x \in Gop, NEW w, w = Prefixed(q, x)
    PROVE  /\ w \in Seq(Gop) /\ DOMAIN w = 1 .. Len(q) + 1
           /\ w[1] = x /\ \A j \in DOMAIN q : j + 1 \in DOMAIN w /\ w[j + 1] = q[j]
           /\ \A j \in DOMAIN w : j # 1 => j - 1 \in DOMAIN q /\ w[j] = q[j - 1]
<1>1. Len(q) \in Nat /\ DOMAIN q = 1 .. Len(q)
    OBVIOUS
<1>2. /\ w \in Seq(Gop) /\ Len(w) = Len(q) + 1
      /\ \A j \in 1 .. Len(w) : w[j] = IF j <= 1 THEN <<x>>[j] ELSE q[j - 1]
    BY DEF Prefixed
<1>3. DOMAIN w = 1 .. Len(q) + 1
    BY <1>1, <1>2
<1> QED
    BY <1>1, <1>2, <1>3

\* GetGopInfoBySerial finds the GOP of a locked frame.
LEMMA FoundGop ==
    ASSUME gops \in Seq(Gop), NEW s \in Int
    PROVE  /\ FindGop(s) = 0 <=> s \notin Locked(gops)
           /\ FindGop(s) # 0 => FindGop(s) \in DOMAIN gops /\ s \in Span(gops[FindGop(s)])
<1> DEFINE hits == {g \in DOMAIN gops : gops[g].start <= s /\ s <= gops[g].end}
<1>1. FindGop(s) = IF hits = {} THEN 0 ELSE First(hits)
    BY DEF FindGop
<1>2. hits = {g \in DOMAIN gops : s \in Span(gops[g])}
    BY ListFields DEF Span
<1>3. hits \in SUBSET Int /\ \A g \in hits : 1 <= g
    BY ListFields
<1>4. hits # {} => First(hits) \in hits
    <2> HIDE DEF hits
    <2> QED
        BY <1>3, FirstIs, 1 \in Int
<1>5. hits = {} <=> s \notin Locked(gops)
    BY <1>2 DEF Locked
<1>6. hits # {} => First(hits) # 0
    BY <1>3, <1>4
<1> QED
    BY <1>1, <1>2, <1>4, <1>5, <1>6

LEMMA InLocked == ASSUME NEW q, NEW s PROVE s \in Locked(q) <=> \E g \in DOMAIN q : s \in Span(q[g])
BY DEF Locked

\* A change of a lock.
LEMMA RelockList ==
    ASSUME NEW q, NEW n, NEW M, GopList(q, n, M), NEW g \in DOMAIN q, NEW k \in Nat \ {0},
           NEW w, w = Relocked(q, g, k)
    PROVE  /\ GopList(w, n, M) /\ Locked(w) = Locked(q) /\ DOMAIN w = DOMAIN q
           /\ \A j \in DOMAIN q : Span(w[j]) = Span(q[j])
           /\ w[g].lock = k /\ \A j \in DOMAIN q \ {g} : w[j] = q[j]
<1>1. q \in Seq(Gop) /\ q[g] \in Gop
    BY ListFields DEF GopList
<1>2. PICK x : x = [q[g] EXCEPT !.lock = k]
    OBVIOUS
<1>3. x \in Gop /\ x.lock = k /\ x.start = q[g].start /\ x.end = q[g].end
    BY <1>1, <1>2 DEF Gop
<1>4. w = [q EXCEPT ![g] = x]
    BY <1>2 DEF Relocked
<1>5. w \in Seq(Gop) /\ DOMAIN w = DOMAIN q /\ w[g] = x /\ \A j \in DOMAIN q \ {g} : w[j] = q[j]
    BY <1>1, <1>3, <1>4, Changed
<1>6. \A j \in DOMAIN q : w[j].start = q[j].start /\ w[j].end = q[j].end
    BY <1>3, <1>5
<1>7. \A j \in DOMAIN q : Span(w[j]) = Span(q[j])
    BY <1>6 DEF Span
<1>8. Locked(w) = Locked(q)
    BY <1>5, <1>7 DEF Locked
<1>9. GopList(w, n, M)
    <2>1. \A i, j \in DOMAIN w : i # j => Span(w[i]) \cap Span(w[j]) = {}
        BY <1>5, <1>7 DEF GopList
    <2>2. \A j \in DOMAIN w : w[j].start <= w[j].end /\ w[j].end <= n
        BY <1>5, <1>6 DEF GopList
    <2>3. \A j \in DOMAIN w : w[j].start \in DOMAIN M => M[w[j].start] = "I"
        BY <1>5, <1>6 DEF GopList
    <2>4. \A j \in DOMAIN w :
              w[j].end + 1 \in DOMAIN M /\ w[j].end + 1 <= n => M[w[j].end + 1] = "I"
        BY <1>5, <1>6 DEF GopList
    <2> QED
        BY <1>5, <2>1, <2>2, <2>3, <2>4 DEF GopList
<1> QED
    BY <1>3, <1>5, <1>7, <1>8, <1>9

\* A GOP that was not locked.
LEMMA AddList ==
    ASSUME NEW q, NEW n, NEW M, GopList(q, n, M), NEW x \in Gop,
           x.start <= x.end, x.end <= n, Span(x) \cap Locked(q) = {},
           x.start \in DOMAIN M => M[x.start] = "I",
           x.end + 1 \in DOMAIN M /\ x.end + 1 <= n => M[x.end + 1] = "I",
           NEW w, w = Prefixed(q, x)
    PROVE  GopList(w, n, M) /\ Locked(w) = Locked(q) \cup Span(x)
<1>1. q \in Seq(Gop)
    BY DEF GopList
<1>2. /\ w \in Seq(Gop) /\ 1 \in DOMAIN w
      /\ w[1] = x /\ \A j \in DOMAIN q : j + 1 \in DOMAIN w /\ w[j + 1] = q[j]
      /\ \A j \in DOMAIN w : j # 1 => j - 1 \in DOMAIN q /\ w[j] = q[j - 1]
    <2>1. 1 \in 1 .. Len(q) + 1
        BY <1>1
    <2>2. w \in Seq(Gop)
        BY <1>1, Added
    <2>3. DOMAIN w = 1 .. Len(q) + 1
        BY <1>1, Added
    <2>4. w[1] = x
        BY <1>1 DEF Prefixed
    <2>5. \A j \in DOMAIN q : j + 1 \in DOMAIN w /\ w[j + 1] = q[j]
        BY <1>1, Added
    <2>6. \A j \in DOMAIN w : j # 1 => j - 1 \in DOMAIN q /\ w[j] = q[j - 1]
        BY <1>1, Added
    <2> QED
        BY <2>1, <2>2, <2>3, <2>4, <2>5, <2>6
<1>3. \A j \in DOMAIN w : w[j] = x \/ \E i \in DOMAIN q : w[j] = q[i]
    BY <1>2
<1>4. Locked(w) = Locked(q) \cup Span(x)
    <2>1. ASSUME NEW s PROVE s \in Locked(w) <=> s \in Locked(q) \/ s \in Span(x)
        <3>1. s \in Locked(w) => s \in Locked(q) \/ s \in Span(x)
            <4> SUFFICES ASSUME s \in Locked(w) PROVE s \in Locked(q) \/ s \in Span(x)
                OBVIOUS
            <4>1. PICK j \in DOMAIN w : s \in Span(w[j])
                BY InLocked
            <4>2. CASE w[j] = x
                BY <4>1, <4>2
            <4>3. CASE w[j] # x
                <5>1. PICK i \in DOMAIN q : w[j] = q[i]
                    BY <1>3, <4>3
                <5> QED
                    BY <4>1, <5>1, InLocked
            <4> QED
                BY <4>2, <4>3
        <3>2. s \in Span(x) => s \in Locked(w)
            BY <1>2, InLocked
        <3>3. s \in Locked(q) => s \in Locked(w)
            <4> SUFFICES ASSUME s \in Locked(q) PROVE s \in Locked(w)
                OBVIOUS
            <4>1. PICK i \in DOMAIN q : s \in Span(q[i])
                BY InLocked
            <4>2. i + 1 \in DOMAIN w /\ s \in Span(w[i + 1])
                BY <1>2, <4>1
            <4> QED
                BY <4>2, InLocked
        <3> QED
            BY <3>1, <3>2, <3>3
    <2> QED
        BY <2>1
<1>5. \A i, j \in DOMAIN w : i # j => Span(w[i]) \cap Span(w[j]) = {}
    <2> SUFFICES ASSUME NEW i \in DOMAIN w, NEW j \in DOMAIN w, i # j
                 PROVE  Span(w[i]) \cap Span(w[j]) = {}
        OBVIOUS
    <2>1. \A k \in DOMAIN w : k # 1 => k - 1 \in DOMAIN q /\ Span(w[k]) \subseteq Locked(q)
        BY <1>2 DEF Locked
    <2>2. CASE i = 1 \/ j = 1
        BY <1>2, <2>1, <2>2
    <2>3. CASE i # 1 /\ j # 1
        <3>1. i \in Int /\ j \in Int /\ i - 1 # j - 1
            BY <1>2
        <3> QED
            BY <1>2, <2>3, <3>1 DEF GopList
    <2> QED
        BY <2>2, <2>3
<1>6. \A j \in DOMAIN w : w[j].start <= w[j].end /\ w[j].end <= n
    BY <1>3 DEF GopList
<1>7. \A j \in DOMAIN w : w[j].start \in DOMAIN M => M[w[j].start] = "I"
    BY <1>3 DEF GopList
<1>8. \A j \in DOMAIN w : w[j].end + 1 \in DOMAIN M /\ w[j].end + 1 <= n => M[w[j].end + 1] = "I"
    BY <1>3 DEF GopList
<1> QED
    BY <1>2, <1>4, <1>5, <1>6, <1>7, <1>8 DEF GopList

\* A GOP whose last lock is gone, or that is taken from its readers.
LEMMA RemoveList ==
    ASSUME NEW q, NEW n, NEW M, GopList(q, n, M), NEW g \in DOMAIN q, NEW w, w = RemoveAt(q, g)
    PROVE  GopList(w, n, M) /\ Locked(w) = Locked(q) \ Span(q[g])
<1>1. q \in Seq(Gop)
    BY DEF GopList
<1>2. /\ w \in Seq(Gop)
      /\ \A j \in DOMAIN w : \E i \in DOMAIN q \ {g} : w[j] = q[i]
      /\ \A i \in DOMAIN q \ {g} : \E j \in DOMAIN w : w[j] = q[i]
      /\ \A j, k \in DOMAIN w : j # k => \E i, h \in DOMAIN q \ {g} : i # h /\ w[j] = q[i] /\ w[k] = q[h]
    BY <1>1, Removed, RemovedFrom
<1>3. \A i \in DOMAIN q \ {g} : Span(q[i]) \cap Span(q[g]) = {}
    BY DEF GopList
<1>4. Locked(w) = Locked(q) \ Span(q[g])
    BY <1>2, <1>3 DEF Locked
<1>5. \A j, k \in DOMAIN w : j # k => Span(w[j]) \cap Span(w[k]) = {}
    BY <1>2 DEF GopList
<1>6. \A j \in DOMAIN w : w[j].start <= w[j].end /\ w[j].end <= n
    BY <1>2 DEF GopList
<1>7. \A j \in DOMAIN w : w[j].start \in DOMAIN M => M[w[j].start] = "I"
    BY <1>2 DEF GopList
<1>8. \A j \in DOMAIN w : w[j].end + 1 \in DOMAIN M /\ w[j].end + 1 <= n => M[w[j].end + 1] = "I"
    BY <1>2 DEF GopList
<1> QED
    BY <1>2, <1>4, <1>5, <1>6, <1>7, <1>8 DEF GopList

\* The P frame n + 1 joins the GOP that ends with n.
LEMMA FollowList ==
    ASSUME NEW q, NEW n \in Int, NEW M, GopList(q, n, M), n + 1 \in 0 .. MaxSerial,
           NEW g \in DOMAIN q, n \in Span(q[g]), NEW w, w = Extended(q, g, n + 1)
    PROVE  /\ GopList(w, n + 1, M) /\ Locked(w) = Locked(q) \cup {n + 1} /\ DOMAIN w = DOMAIN q
           /\ \A j \in DOMAIN q : w[j].lock = q[j].lock
           /\ Span(w[g]) = Span(q[g]) \cup {n + 1} /\ \A j \in DOMAIN q \ {g} : w[j] = q[j]
<1>1. q \in Seq(Gop) /\ q[g] \in Gop /\ MaxSerial \in Int
    BY ListFields, MaxSerialAssumption DEF GopList
<1>2. q[g].start \in Int /\ q[g].end \in Int /\ q[g].start <= n /\ q[g].end = n
    BY <1>1, ListFields DEF GopList, Span
<1>3. PICK x : x = [q[g] EXCEPT !.end = n + 1]
    OBVIOUS
<1>4. x \in Gop /\ x.lock = q[g].lock /\ x.start = q[g].start /\ x.end = n + 1
    BY <1>1, <1>3 DEF Gop
<1>5. w = [q EXCEPT ![g] = x]
    BY <1>3 DEF Extended
<1>6. w \in Seq(Gop) /\ DOMAIN w = DOMAIN q /\ w[g] = x /\ \A j \in DOMAIN q \ {g} : w[j] = q[j]
    BY <1>1, <1>4, <1>5, Changed
<1>7. Span(w[g]) = Span(q[g]) \cup {n + 1}
    BY <1>2, <1>4, <1>6 DEF Span
<1>8. Locked(w) = Locked(q) \cup {n + 1}
    <2>1. ASSUME NEW s PROVE s \in Locked(w) <=> s \in Locked(q) \/ s = n + 1
        <3>1. s \in Span(w[g]) <=> s \in Span(q[g]) \/ s = n + 1
            BY <1>7
        <3>2. \A j \in DOMAIN q \ {g} : s \in Span(w[j]) <=> s \in Span(q[j])
            BY <1>6
        <3> QED
            BY <1>6, <3>1, <3>2, InLocked
    <2> QED
        BY <2>1
<1>9. \A j \in DOMAIN q \ {g} : q[j].end \in Int /\ q[j].start \in Int /\ q[j].start <= q[j].end /\ q[j].end < n
    <2> SUFFICES ASSUME NEW j \in DOMAIN q \ {g}
                 PROVE  q[j].end \in Int /\ q[j].start \in Int /\ q[j].start <= q[j].end /\ q[j].end < n
        OBVIOUS
    <2>1. q[j].end \in Int /\ q[j].start \in Int /\ q[j].end <= n /\ q[j].start <= q[j].end
        BY <1>1, ListFields DEF GopList
    <2>2. n \notin Span(q[j])
        BY DEF GopList
    <2> QED
        BY <2>1, <2>2 DEF Span
<1>10. \A i, j \in DOMAIN w : i # j => Span(w[i]) \cap Span(w[j]) = {}
    <2>1. \A j \in DOMAIN q \ {g} : n + 1 \notin Span(w[j]) /\ Span(w[j]) = Span(q[j])
        BY <1>6, <1>9 DEF Span
    <2> QED
        BY <1>6, <1>7, <2>1 DEF GopList
<1>11. \A j \in DOMAIN w : w[j].start <= w[j].end /\ w[j].end <= n + 1
    BY <1>2, <1>4, <1>6, <1>9
<1>12. \A j \in DOMAIN w : w[j].start \in DOMAIN M => M[w[j].start] = "I"
    BY <1>4, <1>6 DEF GopList
<1>13. \A j \in DOMAIN w : w[j].end + 1 \in DOMAIN M /\ w[j].end + 1 <= n + 1 => M[w[j].end + 1] = "I"
    <2>1. ~ (w[g].end + 1 <= n + 1)
        BY <1>4, <1>6
    <2>2. \A j \in DOMAIN q \ {g} : w[j] = q[j] /\ q[j].end + 1 <= n
        BY <1>6, <1>9
    <2> QED
        BY <1>6, <2>1, <2>2 DEF GopList
<1> QED
    BY <1>4, <1>6, <1>7, <1>8, <1>10, <1>11, <1>12, <1>13 DEF GopList

\* The next frame is looked at, and joins no GOP.
LEMMA PassList ==
    ASSUME NEW q, NEW n \in Int, NEW M, GopList(q, n, M),
           n \in Locked(q) => (n + 1 \in DOMAIN M => M[n + 1] = "I")
    PROVE  GopList(q, n + 1, M) /\ n + 1 \notin Locked(q)
<1>1. \A j \in DOMAIN q : q[j].end \in Int /\ q[j].start \in Int /\ q[j].end <= n /\ q[j].start <= q[j].end
    BY ListFields DEF GopList
<1>2. \A j \in DOMAIN q : q[j].start <= q[j].end /\ q[j].end <= n + 1
    BY <1>1
<1>3. \A j \in DOMAIN q : q[j].end + 1 \in DOMAIN M /\ q[j].end + 1 <= n + 1 => M[q[j].end + 1] = "I"
    <2> SUFFICES ASSUME NEW j \in DOMAIN q, q[j].end + 1 \in DOMAIN M, q[j].end + 1 <= n + 1
                 PROVE  M[q[j].end + 1] = "I"
        OBVIOUS
    <2>1. CASE q[j].end = n
        <3>1. n \in Locked(q)
            BY <1>1, <2>1 DEF Locked, Span
        <3> QED
            BY <2>1, <3>1
    <2>2. CASE q[j].end # n
        <3>1. q[j].end + 1 <= n
            BY <1>1, <2>2
        <3> QED
            BY <3>1 DEF GopList
    <2> QED
        BY <2>1, <2>2
<1>4. n + 1 \notin Locked(q)
    BY <1>1 DEF Locked, Span
<1> QED
    BY <1>2, <1>3, <1>4 DEF GopList

\* The memory moves on under the list.
LEMMA MemList ==
    ASSUME NEW q, NEW n \in Int, NEW M, NEW N, GopList(q, n, M),
           \A s \in DOMAIN N : s <= n => s \in DOMAIN M /\ N[s] = M[s]
    PROVE  GopList(q, n, N)
<1>1. \A j \in DOMAIN q : q[j].end \in Int /\ q[j].start \in Int /\ q[j].end <= n /\ q[j].start <= n
    BY ListFields DEF GopList
<1>2. \A j \in DOMAIN q : q[j].start \in DOMAIN N => N[q[j].start] = "I"
    BY <1>1 DEF GopList
<1>3. \A j \in DOMAIN q : q[j].end + 1 \in DOMAIN N /\ q[j].end + 1 <= n => N[q[j].end + 1] = "I"
    BY DEF GopList
<1> QED
    BY <1>2, <1>3 DEF GopList

-----------------------------------------------------------------------------
(* The locks of the readers.                                               *)

LEMMA HoldsFinite ==
    ASSUME NEW h, NEW S
    PROVE  /\ IsFiniteSet(Holds(h, S)) /\ Cardinality(Holds(h, S)) \in Nat
           /\ Cardinality(Holds(h, S)) <= Cardinality(Readers) * MaxHeld
<1>1. IsFiniteSet(1 .. MaxHeld) /\ Cardinality(1 .. MaxHeld) = MaxHeld
    <2>1. MaxHeld \in Int /\ 1 \in Int /\ MaxHeld >= 0
        BY MaxHeldAssumption
    <2> QED
        BY <2>1, FS_Interval
<1>2. /\ IsFiniteSet(Readers \X (1 .. MaxHeld))
      /\ Cardinality(Readers \X (1 .. MaxHeld)) = Cardinality(Readers) * MaxHeld
    BY <1>1, ReadersAssumption, FS_Product
<1>3. Holds(h, S) \in SUBSET (Readers \X (1 .. MaxHeld))
    BY DEF Holds
<1>4. IsFiniteSet(Holds(h, S)) /\ Cardinality(Holds(h, S)) <= Cardinality(Readers \X (1 .. MaxHeld))
    BY <1>2, <1>3, FS_Subset
<1> QED
    BY <1>2, <1>4, FS_CardinalityType

LEMMA HoldsMore ==
    ASSUME NEW h, NEW S, NEW T, S \subseteq T
    PROVE  Cardinality(Holds(h, S)) <= Cardinality(Holds(h, T))
<1>1. Holds(h, S) \in SUBSET Holds(h, T)
    BY DEF Holds
<1> QED
    BY <1>1, HoldsFinite, FS_Subset

\* One lock more for reader r.
LEMMA HoldsAppend ==
    ASSUME NEW h, HeldOK(h), NEW r \in Readers, Len(h[r]) < MaxHeld, NEW s \in 0 .. MaxSerial,
           NEW u, u = More(h, r, s), NEW S
    PROVE  /\ HeldOK(u)
           /\ Cardinality(Holds(u, S)) = Cardinality(Holds(h, S)) + (IF s \in S THEN 1 ELSE 0)
<1>1. \A p \in Readers : h[p] \in Seq(0 .. MaxSerial) /\ Len(h[p]) \in Nat /\ Len(h[p]) <= MaxHeld
    BY DEF HeldOK
<1>2. PICK x, m : x = Append(h[r], s) /\ m = Len(h[r])
    OBVIOUS
<1>3. /\ x \in Seq(0 .. MaxSerial) /\ Len(x) = m + 1 /\ x[m + 1] = s /\ \A k \in 1 .. m : x[k] = h[r][k]
      /\ m \in Nat /\ m + 1 <= MaxHeld
    BY <1>1, <1>2, MaxHeldAssumption
<1>4. u = [h EXCEPT ![r] = x]
    BY <1>2 DEF More, Less
<1>5. u \in [Readers -> Seq(0 .. MaxSerial)] /\ u[r] = x /\ \A p \in Readers \ {r} : u[p] = h[p]
    BY <1>3, <1>4 DEF HeldOK
<1>6. HeldOK(u)
    BY <1>1, <1>3, <1>5 DEF HeldOK
<1>7. \A k \in 1 .. MaxHeld : k <= m + 1 /\ x[k] \in S <=> (k <= m /\ h[r][k] \in S) \/ (k = m + 1 /\ s \in S)
    BY <1>3, MaxHeldAssumption
<1>8. ASSUME NEW p \in Readers, NEW k \in 1 .. MaxHeld
      PROVE  <<p, k>> \in Holds(u, S) <=> <<p, k>> \in Holds(h, S) \/ (<<p, k>> = <<r, m + 1>> /\ s \in S)
    <2>1. <<p, k>> \in Holds(u, S) <=> k <= Len(u[p]) /\ u[p][k] \in S
        BY DEF Holds
    <2>2. <<p, k>> \in Holds(h, S) <=> k <= Len(h[p]) /\ h[p][k] \in S
        BY DEF Holds
    <2>3. CASE p = r
        BY <1>2, <1>3, <1>5, <1>7, <2>1, <2>2, <2>3
    <2>4. CASE p # r
        BY <1>5, <2>1, <2>2, <2>4
    <2> QED
        BY <2>3, <2>4
<1>9. m + 1 \in 1 .. MaxHeld
    BY <1>3, MaxHeldAssumption
<1>10. Holds(u, S) = IF s \in S THEN Holds(h, S) \cup {<<r, m + 1>>} ELSE Holds(h, S)
    <2>1. Holds(u, S) \subseteq Readers \X (1 .. MaxHeld) /\ Holds(h, S) \subseteq Readers \X (1 .. MaxHeld)
        BY DEF Holds
    <2>2. ASSUME NEW a PROVE a \in Holds(u, S) <=> a \in Holds(h, S) \/ (a = <<r, m + 1>> /\ s \in S)
        <3>1. CASE \E p \in Readers, k \in 1 .. MaxHeld : a = <<p, k>>
            BY <1>8, <3>1
        <3>2. CASE ~ \E p \in Readers, k \in 1 .. MaxHeld : a = <<p, k>>
            <4>1. \A b \in Readers \X (1 .. MaxHeld) : \E p \in Readers, k \in 1 .. MaxHeld : b = <<p, k>>
                OBVIOUS
            <4>2. a \notin Holds(u, S) /\ a \notin Holds(h, S)
                BY <2>1, <3>2, <4>1
            <4>3. a # <<r, m + 1>>
                BY <1>9, <3>2
            <4> QED
                BY <4>2, <4>3
        <3> QED
            BY <3>1, <3>2
    <2> QED
        BY <2>2
<1>11. <<r, m + 1>> \notin Holds(h, S)
    <2>1. ~ (m + 1 <= m)
        BY <1>3
    <2> QED
        BY <1>2, <2>1 DEF Holds
<1>12. Cardinality(Holds(u, S)) = Cardinality(Holds(h, S)) + (IF s \in S THEN 1 ELSE 0)
    <2>1. IsFiniteSet(Holds(h, S)) /\ Cardinality(Holds(h, S)) \in Nat
        BY HoldsFinite
    <2>2. Cardinality(Holds(h, S) \cup {<<r, m + 1>>}) = Cardinality(Holds(h, S)) + 1
        BY <1>11, <2>1, FS_AddElement
    <2> QED
        BY <1>10, <2>1, <2>2
<1> QED
    BY <1>6, <1>12

\* The oldest lock of reader r less: the others move up.
LEMMA HoldsTail ==
    ASSUME NEW h, HeldOK(h), NEW r \in Readers, h[r] # << >>,
           NEW u, u = Less(h, r), NEW S
    PROVE  /\ HeldOK(u)
           /\ Cardinality(Holds(h, S)) = Cardinality(Holds(u, S)) + (IF Head(h[r]) \in S THEN 1 ELSE 0)
<1>1. \A p \in Readers : h[p] \in Seq(0 .. MaxSerial) /\ Len(h[p]) \in Nat /\ Len(h[p]) <= MaxHeld
    BY DEF HeldOK
<1>2. PICK x, m : x = Tail(h[r]) /\ m = Len(h[r])
    OBVIOUS
<1>3. /\ x \in Seq(0 .. MaxSerial) /\ Len(x) = m - 1 /\ \A k \in 1 .. m - 1 : x[k] = h[r][k + 1]
      /\ m \in Nat /\ m >= 1 /\ m <= MaxHeld /\ Head(h[r]) = h[r][1]
    <2>1. PICK y : y = h[r]
        OBVIOUS
    <2>2. y \in Seq(0 .. MaxSerial) /\ y # << >> /\ x = Tail(y) /\ m = Len(y) /\ m <= MaxHeld
        BY <1>1, <1>2, <2>1
    <2>3. m \in Nat /\ m >= 1
        BY <2>2
    <2>4. Head(y) = y[1] /\ Len(x) = m - 1 /\ x \in Seq(0 .. MaxSerial)
        BY <2>2
    <2>5. \A k \in 1 .. m - 1 : x[k] = y[k + 1]
        BY <2>2, <2>3
    <2> QED
        BY <2>1, <2>2, <2>3, <2>4, <2>5
<1>4. u = [h EXCEPT ![r] = x]
    BY <1>2 DEF More, Less
<1>5. u \in [Readers -> Seq(0 .. MaxSerial)] /\ u[r] = x /\ \A p \in Readers \ {r} : u[p] = h[p]
    BY <1>3, <1>4 DEF HeldOK
<1>6. HeldOK(u)
    BY <1>1, <1>3, <1>5, MaxHeldAssumption DEF HeldOK
<1> DEFINE A == Holds(u, S)
           B == Holds(h, S) \ {<<r, 1>>}
           f == [p \in A |-> IF p[1] = r THEN <<r, p[2] + 1>> ELSE p]
<1>7. \A p, k : <<p, k>> \in A <=> p \in Readers /\ k \in 1 .. MaxHeld /\ k <= Len(u[p]) /\ u[p][k] \in S
    BY DEF Holds
<1>8. \A p, k : <<p, k>> \in Holds(h, S) <=>
                    p \in Readers /\ k \in 1 .. MaxHeld /\ k <= Len(h[p]) /\ h[p][k] \in S
    BY DEF Holds
<1>9. A \subseteq Readers \X (1 .. MaxHeld) /\ B \subseteq Readers \X (1 .. MaxHeld)
    BY DEF Holds
<1>10. \A k \in Int : <<r, k>> \in A <=> <<r, k + 1>> \in B
    <2> SUFFICES ASSUME NEW k \in Int PROVE <<r, k>> \in A <=> <<r, k + 1>> \in B
        OBVIOUS
    <2>1. <<r, k>> \in A <=> k \in 1 .. MaxHeld /\ k <= m - 1 /\ x[k] \in S
        <3>1. <<r, k>> \in A <=> r \in Readers /\ k \in 1 .. MaxHeld /\ k <= Len(u[r]) /\ u[r][k] \in S
            <4> HIDE DEF A
            <4> QED
                BY <1>7
        <3>2. u[r] = x /\ Len(u[r]) = m - 1
            BY <1>3, <1>5
        <3> HIDE DEF A
        <3> QED
            BY <3>1, <3>2
    <2>2. <<r, k + 1>> \in B <=> k # 0 /\ k + 1 \in 1 .. MaxHeld /\ k + 1 <= m /\ h[r][k + 1] \in S
        <3>1. <<r, k + 1>> = <<r, 1>> <=> k = 0
            OBVIOUS
        <3> QED
            BY <1>2, <1>8, <3>1
    <2>3. k \in 1 .. MaxHeld /\ k <= m - 1 <=> k # 0 /\ k + 1 \in 1 .. MaxHeld /\ k + 1 <= m
        BY <1>3, MaxHeldAssumption
    <2>4. k \in 1 .. MaxHeld /\ k <= m - 1 => x[k] = h[r][k + 1]
        BY <1>3
    <2> QED
        BY <2>1, <2>2, <2>3, <2>4
<1>11. \A p \in Readers \ {r} : \A k : <<p, k>> \in A <=> <<p, k>> \in B
    BY <1>5, <1>7, <1>8
<1>12. \A a \in A : \E p \in Readers, k \in 1 .. MaxHeld : a = <<p, k>> /\ k \in Int
    BY <1>9, MaxHeldAssumption
<1>13. f \in [A -> B]
    <2> SUFFICES ASSUME NEW a \in A PROVE f[a] \in B
        OBVIOUS
    <2>1. PICK p \in Readers, k \in 1 .. MaxHeld : a = <<p, k>> /\ k \in Int
        BY <1>12
    <2> HIDE DEF A, B
    <2>2. CASE p = r
        BY <1>10, <2>1, <2>2
    <2>3. CASE p # r
        BY <1>11, <2>1, <2>3
    <2> QED
        BY <2>2, <2>3
<1>14. ASSUME NEW a \in A, NEW b \in A, f[a] = f[b] PROVE a = b
    <2>1. PICK p \in Readers, k \in 1 .. MaxHeld : a = <<p, k>> /\ k \in Int
        BY <1>12
    <2>2. PICK o \in Readers, l \in 1 .. MaxHeld : b = <<o, l>> /\ l \in Int
        BY <1>12
    <2> HIDE DEF A, B
    <2>3. f[a] = (IF p = r THEN <<r, k + 1>> ELSE <<p, k>>)
        BY <2>1
    <2>4. f[b] = (IF o = r THEN <<r, l + 1>> ELSE <<o, l>>)
        BY <2>2
    <2> QED
        BY <1>14, <2>1, <2>2, <2>3, <2>4
<1>15. ASSUME NEW b \in B PROVE \E a \in A : f[a] = b
    <2>1. PICK p \in Readers, k \in 1 .. MaxHeld : b = <<p, k>> /\ k \in Int
        BY <1>9, MaxHeldAssumption
    <2> HIDE DEF A, B
    <2>2. CASE p = r
        <3>1. <<r, k - 1>> \in A
            <4>1. k - 1 \in Int /\ (k - 1) + 1 = k
                BY <2>1
            <4> QED
                BY <1>10, <2>1, <2>2, <4>1
        <3>2. f[<<r, k - 1>>] = <<r, k>>
            BY <2>1, <3>1
        <3> QED
            BY <2>1, <2>2, <3>1, <3>2
    <2>3. CASE p # r
        <3>1. b \in A
            BY <1>11, <2>1, <2>3
        <3> QED
            BY <2>1, <2>3, <3>1
    <2> QED
        BY <2>2, <2>3
<1>16. ExistsBijection(A, B)
    <2> HIDE DEF A, B, f
    <2>1. f \in Bijection(A, B)
        BY <1>13, <1>14, <1>15 DEF Bijection, Injection, Surjection, IsInjective
    <2> QED
        BY <2>1 DEF ExistsBijection
<1>17. Cardinality(A) = Cardinality(B)
    <2>1. IsFiniteSet(A)
        BY HoldsFinite
    <2> HIDE DEF A, B
    <2> QED
        BY <1>16, <2>1, FS_Bijection
<1>18. <<r, 1>> \in Holds(h, S) <=> Head(h[r]) \in S
    BY <1>2, <1>3, <1>8, MaxHeldAssumption
<1>19. Cardinality(Holds(h, S)) = Cardinality(Holds(u, S)) + (IF Head(h[r]) \in S THEN 1 ELSE 0)
    <2>1. IsFiniteSet(Holds(h, S)) /\ Cardinality(Holds(h, S)) \in Nat
        BY HoldsFinite
    <2>2. Cardinality(B) = IF <<r, 1>> \in Holds(h, S) THEN Cardinality(Holds(h, S)) - 1
                           ELSE Cardinality(Holds(h, S))
        BY <2>1, FS_RemoveElement
    <2> HIDE DEF B
    <2> QED
        BY <1>17, <1>18, <2>1, <2>2
<1> QED
    BY <1>6, <1>19

LEMMA HeldAppend ==
    ASSUME NEW h, HeldOK(h), NEW r \in Readers, Len(h[r]) < MaxHeld, NEW s \in 0 .. MaxSerial
    PROVE  HeldOK(More(h, r, s))
<1>1. PICK u, S : u = More(h, r, s) /\ S = {}
    OBVIOUS
<1>2. HeldOK(u)
    BY <1>1, HoldsAppend
<1> QED
    BY <1>1, <1>2

LEMMA HeldTail ==
    ASSUME NEW h, HeldOK(h), NEW r \in Readers, h[r] # << >>
    PROVE  HeldOK(Less(h, r))
<1>1. PICK u, S : u = Less(h, r) /\ S = {}
    OBVIOUS
<1>2. HeldOK(u)
    BY <1>1, HoldsTail
<1> QED
    BY <1>1, <1>2

LEMMA AppendIn ==
    ASSUME NEW h, HeldOK(h), NEW r \in Readers, NEW s \in 0 .. MaxSerial,
           NEW u, u = More(h, r, s), NEW L, HeldIn(h, L), s \in L
    PROVE  HeldIn(u, L)
<1>1. PICK y, x : y = h[r] /\ x = Append(y, s)
    OBVIOUS
<1>2. y \in Seq(0 .. MaxSerial) /\ u[r] = x /\ \A p \in Readers \ {r} : u[p] = h[p]
    BY <1>1 DEF HeldOK, More, Less
<1>3. \A k \in DOMAIN x : x[k] = s \/ (k \in DOMAIN y /\ x[k] = y[k])
    BY <1>1, <1>2
<1>4. \A k \in DOMAIN x : x[k] \in L
    BY <1>1, <1>3 DEF HeldIn
<1> QED
    BY <1>2, <1>4 DEF HeldIn

LEMMA TailIn ==
    ASSUME NEW h, HeldOK(h), NEW r \in Readers, h[r] # << >>,
           NEW u, u = Less(h, r), NEW L, HeldIn(h, L)
    PROVE  HeldIn(u, L) /\ Head(h[r]) \in 0 .. MaxSerial /\ Head(h[r]) \in L
<1>1. PICK y, x : y = h[r] /\ x = Tail(y)
    OBVIOUS
<1>2. y \in Seq(0 .. MaxSerial) /\ u[r] = x /\ \A p \in Readers \ {r} : u[p] = h[p]
    BY <1>1 DEF HeldOK, More, Less
<1>3. \A k \in DOMAIN x : k + 1 \in DOMAIN y /\ x[k] = y[k + 1]
    BY <1>1, <1>2
<1>4. \A k \in DOMAIN x : x[k] \in L
    BY <1>1, <1>3 DEF HeldIn
<1>5. 1 \in DOMAIN y /\ Head(y) = y[1] /\ y[1] \in 0 .. MaxSerial
    <2>1. y # << >> /\ Len(y) \in Nat
        BY <1>1, <1>2
    <2>2. Len(y) >= 1
        BY <1>2, <2>1
    <2>3. 1 \in DOMAIN y
        BY <1>2, <2>2
    <2>4. Head(y) = y[1]
        BY <1>2, <2>1
    <2>5. y[1] \in 0 .. MaxSerial
        BY <1>2, <2>2, <2>3, MaxSerialAssumption
    <2> QED
        BY <2>3, <2>4, <2>5
<1> QED
    BY <1>1, <1>2, <1>4, <1>5 DEF HeldIn

\* What readers who hold nothing outside L hold of S,
LEMMA HoldsSame ==
    ASSUME NEW h, HeldOK(h), NEW L, HeldIn(h, L), NEW S, NEW T, S \cap L = T \cap L
    PROVE  Holds(h, S) = Holds(h, T)
<1>1. ASSUME NEW p \in Readers, NEW k \in 1 .. MaxHeld, k <= Len(h[p])
      PROVE  h[p][k] \in S <=> h[p][k] \in T
    <2>1. k \in DOMAIN h[p]
        BY <1>1, MaxHeldAssumption DEF HeldOK
    <2> QED
        BY <2>1 DEF HeldIn
<1>2. ASSUME NEW a PROVE a \in Holds(h, S) <=> a \in Holds(h, T)
    <2>1. CASE a \notin Readers \X (1 .. MaxHeld)
        BY <2>1 DEF Holds
    <2>2. CASE a \in Readers \X (1 .. MaxHeld)
        <3>1. PICK p \in Readers, k \in 1 .. MaxHeld : a = <<p, k>>
            BY <2>2
        <3> QED
            BY <1>1, <3>1 DEF Holds
    <2> QED
        BY <2>1, <2>2
<1> QED
    BY <1>2

\* which is nothing when S has nothing of L,
LEMMA HoldsNone ==
    ASSUME NEW h, HeldOK(h), NEW L, HeldIn(h, L), NEW S, S \cap L = {}
    PROVE  Cardinality(Holds(h, S)) = 0
<1>1. ASSUME NEW p \in Readers, NEW k \in 1 .. MaxHeld, k <= Len(h[p]), h[p][k] \in S
      PROVE  FALSE
    <2>1. k \in DOMAIN h[p]
        BY <1>1, MaxHeldAssumption DEF HeldOK
    <2> QED
        BY <1>1, <2>1 DEF HeldIn
<1>2. Holds(h, S) = {}
    BY <1>1 DEF Holds
<1> QED
    BY <1>2, FS_EmptySet

\* and readers without a lock on S hold what is outside S.
LEMMA HeldOutside ==
    ASSUME NEW h, HeldOK(h), NEW L, HeldIn(h, L), NEW S, Cardinality(Holds(h, S)) = 0
    PROVE  HeldIn(h, L \ S)
<1>1. Holds(h, S) = {}
    BY HoldsFinite, FS_EmptySet
<1>2. ASSUME NEW p \in Readers, NEW k \in DOMAIN h[p] PROVE h[p][k] \in L \ S
    <2>1. h[p][k] \in L
        BY DEF HeldIn
    <2>2. k \in 1 .. MaxHeld /\ k <= Len(h[p])
        <3>1. PICK y : y = h[p]
            OBVIOUS
        <3>2. y \in Seq(0 .. MaxSerial) /\ Len(y) <= MaxHeld /\ k \in DOMAIN y
            BY <3>1 DEF HeldOK
        <3>3. k \in 1 .. Len(y) /\ Len(y) \in Nat
            BY <3>2
        <3> QED
            BY <3>1, <3>2, <3>3, MaxHeldAssumption
    <2>3. <<p, k>> \notin Holds(h, S)
        BY <1>1
    <2>4. h[p][k] \notin S
        BY <2>2, <2>3 DEF Holds
    <2> QED
        BY <2>1, <2>4
<1> QED
    BY <1>2 DEF HeldIn

\* A reader locks a GOP that is locked,
LEMMA LockMore ==
    ASSUME NEW q, NEW n, NEW M, GopList(q, n, M), NEW h, NEW d, Locks(q, h, d),
           NEW r \in Readers, Len(h[r]) < MaxHeld, NEW s \in 0 .. MaxSerial,
           NEW g \in DOMAIN q, s \in Span(q[g]),
           NEW w, w = Relocked(q, g, q[g].lock + 1), NEW u, u = More(h, r, s)
    PROVE  GopList(w, n, M) /\ Locked(w) = Locked(q) /\ Locks(w, u, d)
<1>1. q[g].lock \in Nat /\ q[g].lock + 1 \in Nat \ {0}
    BY ListFields DEF GopList
<1>2. /\ GopList(w, n, M) /\ Locked(w) = Locked(q) /\ DOMAIN w = DOMAIN q
      /\ \A j \in DOMAIN q : Span(w[j]) = Span(q[j])
      /\ w[g].lock = q[g].lock + 1 /\ \A j \in DOMAIN q \ {g} : w[j] = q[j]
    <2>1. PICK k : k = q[g].lock + 1
        OBVIOUS
    <2>2. k \in Nat \ {0} /\ w = Relocked(q, g, k)
        BY <1>1, <2>1
    <2> QED
        BY <2>1, <2>2, RelockList
<1>3. HeldOK(h) /\ HeldOK(u)
    BY HeldAppend DEF Locks
<1>4. ASSUME NEW j \in DOMAIN q
      PROVE  /\ Cardinality(Holds(u, Span(w[j]))) = Cardinality(Holds(h, Span(q[j]))) + (IF j = g THEN 1 ELSE 0)
             /\ w[j].lock = q[j].lock + (IF j = g THEN 1 ELSE 0)
             /\ q[j].lock \in Nat /\ Cardinality(Holds(h, Span(q[j]))) \in Nat
    <2>1. s \in Span(q[j]) <=> j = g
        BY DEF GopList
    <2>2. q[j].lock \in Nat
        BY ListFields DEF GopList
    <2>3. Cardinality(Holds(u, Span(q[j]))) = Cardinality(Holds(h, Span(q[j]))) + (IF s \in Span(q[j]) THEN 1 ELSE 0)
        BY <1>3, HoldsAppend
    <2>4. Cardinality(Holds(h, Span(q[j]))) \in Nat
        BY HoldsFinite
    <2>5. w[j].lock = q[j].lock + (IF j = g THEN 1 ELSE 0)
        BY <1>2, <2>2
    <2> QED
        BY <1>2, <2>1, <2>2, <2>3, <2>4, <2>5
<1>5. \A j \in DOMAIN w : w[j].lock <= Cardinality(Holds(u, Span(w[j])))
    <2>1. \A j \in DOMAIN q : q[j].lock <= Cardinality(Holds(h, Span(q[j])))
        BY DEF Locks
    <2> QED
        BY <1>2, <1>4, <2>1
<1>6. ~ d => \A j \in DOMAIN w : w[j].lock = Cardinality(Holds(u, Span(w[j])))
    <2>1. ~ d => \A j \in DOMAIN q : q[j].lock = Cardinality(Holds(h, Span(q[j])))
        BY DEF Locks
    <2> QED
        BY <1>2, <1>4, <2>1
<1>7. ~ d => HeldIn(u, Locked(w))
    BY <1>2, <1>3, AppendIn, InLocked DEF Locks
<1> QED
    BY <1>2, <1>3, <1>5, <1>6, <1>7 DEF Locks

\* or one that was not.
LEMMA LockNew ==
    ASSUME NEW q, NEW n, NEW M, GopList(q, n, M), NEW h, NEW d, Locks(q, h, d),
           NEW r \in Readers, Len(h[r]) < MaxHeld, NEW s \in 0 .. MaxSerial,
           NEW x \in Gop, s \in Span(x), x.lock = 1, Span(x) \cap Locked(q) = {},
           NEW w, w = Prefixed(q, x), Locked(w) = Locked(q) \cup Span(x),
           NEW u, u = More(h, r, s)
    PROVE  Locks(w, u, d)
<1>1. /\ q \in Seq(Gop) /\ w[1] = x
      /\ \A j \in DOMAIN w : j # 1 => j - 1 \in DOMAIN q /\ w[j] = q[j - 1]
    <2>1. q \in Seq(Gop)
        BY DEF GopList
    <2>2. w[1] = x
        BY <2>1 DEF Prefixed
    <2>3. \A j \in DOMAIN w : j # 1 => j - 1 \in DOMAIN q /\ w[j] = q[j - 1]
        BY <2>1, Added
    <2> QED
        BY <2>1, <2>2, <2>3
<1>2. HeldOK(h) /\ HeldOK(u)
    BY HeldAppend DEF Locks
<1>3. ASSUME NEW j \in DOMAIN q
      PROVE  Cardinality(Holds(u, Span(q[j]))) = Cardinality(Holds(h, Span(q[j])))
    <2>1. s \notin Span(q[j])
        BY InLocked
    <2> QED
        BY <1>2, <2>1, HoldsAppend, HoldsFinite
<1>4. Cardinality(Holds(u, Span(x))) = Cardinality(Holds(h, Span(x))) + 1
    BY <1>2, HoldsAppend
<1>5. Cardinality(Holds(h, Span(x))) \in Nat
    BY HoldsFinite
<1>6. ~ d => Cardinality(Holds(h, Span(x))) = 0
    BY <1>2, HoldsNone DEF Locks
<1>7. \A j \in DOMAIN w : w[j].lock <= Cardinality(Holds(u, Span(w[j])))
    <2> SUFFICES ASSUME NEW j \in DOMAIN w PROVE w[j].lock <= Cardinality(Holds(u, Span(w[j])))
        OBVIOUS
    <2>1. CASE j = 1
        BY <1>1, <1>4, <1>5, <2>1
    <2>2. CASE j # 1
        BY <1>1, <1>3, <2>2 DEF Locks
    <2> QED
        BY <2>1, <2>2
<1>8. ~ d => \A j \in DOMAIN w : w[j].lock = Cardinality(Holds(u, Span(w[j])))
    <2> SUFFICES ASSUME ~ d, NEW j \in DOMAIN w PROVE w[j].lock = Cardinality(Holds(u, Span(w[j])))
        OBVIOUS
    <2>1. CASE j = 1
        BY <1>1, <1>4, <1>6, <2>1
    <2>2. CASE j # 1
        BY <1>1, <1>3, <2>2 DEF Locks
    <2> QED
        BY <2>1, <2>2
<1>9. ~ d => HeldIn(u, Locked(w))
    <2>1. ~ d => HeldIn(h, Locked(w)) /\ s \in Locked(w)
        BY DEF Locks, HeldIn
    <2> QED
        BY <1>2, <2>1, AppendIn
<1> QED
    BY <1>2, <1>7, <1>8, <1>9 DEF Locks

\* A reader unlocks a GOP with other locks on it,
LEMMA UnlockLess ==
    ASSUME NEW q, NEW n, NEW M, GopList(q, n, M), NEW h, NEW d, Locks(q, h, d),
           NEW r \in Readers, h[r] # << >>,
           NEW g \in DOMAIN q, Head(h[r]) \in Span(q[g]), q[g].lock > 1,
           NEW w, w = Relocked(q, g, q[g].lock - 1), NEW u, u = Less(h, r)
    PROVE  GopList(w, n, M) /\ Locked(w) = Locked(q) /\ Locks(w, u, d)
<1>1. q[g].lock \in Nat /\ q[g].lock - 1 \in Nat \ {0}
    BY ListFields DEF GopList
<1>2. /\ GopList(w, n, M) /\ Locked(w) = Locked(q) /\ DOMAIN w = DOMAIN q
      /\ \A j \in DOMAIN q : Span(w[j]) = Span(q[j])
      /\ w[g].lock = q[g].lock - 1 /\ \A j \in DOMAIN q \ {g} : w[j] = q[j]
    <2>1. PICK k : k = q[g].lock - 1
        OBVIOUS
    <2>2. k \in Nat \ {0} /\ w = Relocked(q, g, k)
        BY <1>1, <2>1
    <2>3. /\ GopList(w, n, M) /\ Locked(w) = Locked(q) /\ DOMAIN w = DOMAIN q
          /\ \A j \in DOMAIN q : Span(w[j]) = Span(q[j])
          /\ w[g].lock = k /\ \A j \in DOMAIN q \ {g} : w[j] = q[j]
        BY ONLY GopList(q, n, M), g \in DOMAIN q, <2>2, RelockList
    <2> QED
        BY <2>1, <2>3
<1>3. HeldOK(h) /\ HeldOK(u)
    BY HeldTail DEF Locks
<1>4. ASSUME NEW j \in DOMAIN q
      PROVE  /\ Cardinality(Holds(h, Span(q[j]))) = Cardinality(Holds(u, Span(w[j]))) + (IF j = g THEN 1 ELSE 0)
             /\ q[j].lock = w[j].lock + (IF j = g THEN 1 ELSE 0)
             /\ w[j].lock \in Int /\ Cardinality(Holds(u, Span(w[j]))) \in Nat
    <2>1. Head(h[r]) \in Span(q[j]) <=> j = g
        BY DEF GopList
    <2>2. q[j].lock \in Nat
        BY ListFields DEF GopList
    <2>3. Cardinality(Holds(h, Span(q[j]))) = Cardinality(Holds(u, Span(q[j]))) + (IF Head(h[r]) \in Span(q[j]) THEN 1 ELSE 0)
        BY <1>3, HoldsTail
    <2>4. Cardinality(Holds(u, Span(q[j]))) \in Nat
        BY HoldsFinite
    <2>5. q[j].lock = w[j].lock + (IF j = g THEN 1 ELSE 0) /\ w[j].lock \in Int
        BY <1>2, <2>2
    <2> QED
        BY <1>2, <2>1, <2>3, <2>4, <2>5
<1>5. \A j \in DOMAIN w : w[j].lock <= Cardinality(Holds(u, Span(w[j])))
    <2>1. \A j \in DOMAIN q : q[j].lock <= Cardinality(Holds(h, Span(q[j])))
        BY DEF Locks
    <2> QED
        BY <1>2, <1>4, <2>1
<1>6. ~ d => \A j \in DOMAIN w : w[j].lock = Cardinality(Holds(u, Span(w[j])))
    <2>1. ~ d => \A j \in DOMAIN q : q[j].lock = Cardinality(Holds(h, Span(q[j])))
        BY DEF Locks
    <2> QED
        BY <1>2, <1>4, <2>1
<1>7. ~ d => HeldIn(u, Locked(w))
    BY <1>2, <1>3, TailIn DEF Locks
<1> QED
    BY <1>2, <1>3, <1>5, <1>6, <1>7 DEF Locks

\* or with none,
LEMMA UnlockLast ==
    ASSUME NEW q, NEW n, NEW M, GopList(q, n, M), NEW h, NEW d, Locks(q, h, d),
           NEW r \in Readers, h[r] # << >>,
           NEW g \in DOMAIN q, Head(h[r]) \in Span(q[g]), ~ (q[g].lock > 1),
           NEW w, w = RemoveAt(q, g), NEW u, u = Less(h, r)
    PROVE  GopList(w, n, M) /\ Locked(w) = Locked(q) \ Span(q[g]) /\ Locks(w, u, d)
<1>1. q[g].lock = 1
    BY ListFields DEF GopList
<1>2. GopList(w, n, M) /\ Locked(w) = Locked(q) \ Span(q[g])
    BY RemoveList
<1>3. \A j \in DOMAIN w : \E i \in DOMAIN q \ {g} : w[j] = q[i]
    BY RemovedFrom DEF GopList
<1>4. HeldOK(h) /\ HeldOK(u)
    BY HeldTail DEF Locks
<1>5. ASSUME NEW i \in DOMAIN q \ {g}
      PROVE  Cardinality(Holds(u, Span(q[i]))) = Cardinality(Holds(h, Span(q[i])))
    <2>1. Head(h[r]) \notin Span(q[i])
        BY DEF GopList
    <2> QED
        BY <1>4, <2>1, HoldsTail, HoldsFinite
<1>6. \A j \in DOMAIN w : w[j].lock <= Cardinality(Holds(u, Span(w[j])))
    BY <1>3, <1>5 DEF Locks
<1>7. ~ d => \A j \in DOMAIN w : w[j].lock = Cardinality(Holds(u, Span(w[j])))
    BY <1>3, <1>5 DEF Locks
<1>8. ~ d => HeldIn(u, Locked(w))
    <2> SUFFICES ASSUME ~ d PROVE HeldIn(u, Locked(w))
        OBVIOUS
    <2>1. Cardinality(Holds(h, Span(q[g]))) = 1
        BY <1>1 DEF Locks
    <2>2. Cardinality(Holds(h, Span(q[g]))) = Cardinality(Holds(u, Span(q[g]))) + 1
        BY <1>4, HoldsTail
    <2>3. Cardinality(Holds(u, Span(q[g]))) = 0
        BY <2>1, <2>2, HoldsFinite
    <2>4. HeldIn(u, Locked(q))
        BY <1>4, TailIn DEF Locks
    <2>5. HeldIn(u, Locked(q) \ Span(q[g]))
        BY <1>4, <2>3, <2>4, HeldOutside
    <2> QED
        BY <1>2, <2>5
<1> QED
    BY <1>2, <1>4, <1>6, <1>7, <1>8 DEF Locks

\* or a GOP that was taken from it.
LEMMA UnlockNone ==
    ASSUME NEW q, NEW h, NEW d, Locks(q, h, d), NEW r \in Readers, h[r] # << >>,
           Head(h[r]) \notin Locked(q), NEW u, u = Less(h, r)
    PROVE  Locks(q, u, d)
<1>1. HeldOK(h) /\ HeldOK(u) /\ d \in BOOLEAN
    BY HeldTail DEF Locks
<1>2. d
    BY <1>1, TailIn DEF Locks
<1>3. ASSUME NEW i \in DOMAIN q
      PROVE  Cardinality(Holds(u, Span(q[i]))) = Cardinality(Holds(h, Span(q[i])))
    <2>1. Head(h[r]) \notin Span(q[i])
        BY InLocked
    <2> QED
        BY <1>1, <2>1, HoldsTail, HoldsFinite
<1> QED
    BY <1>1, <1>2, <1>3 DEF Locks

\* The GOP that ends with n is followed,
LEMMA FollowLocks ==
    ASSUME NEW q, NEW n \in Int, NEW M, GopList(q, n, M), n + 1 \in 0 .. MaxSerial,
           NEW g \in DOMAIN q, n \in Span(q[g]), NEW w, w = Extended(q, g, n + 1),
           n + 1 \notin Locked(q), NEW h, NEW d, Locks(q, h, d)
    PROVE  Locks(w, h, d)
<1>1. /\ Locked(w) = Locked(q) \cup {n + 1} /\ DOMAIN w = DOMAIN q
      /\ \A j \in DOMAIN q : w[j].lock = q[j].lock
      /\ Span(w[g]) = Span(q[g]) \cup {n + 1} /\ \A j \in DOMAIN q \ {g} : w[j] = q[j]
    BY FollowList
<1>2. \A j \in DOMAIN w : Span(q[j]) \subseteq Span(w[j])
    BY <1>1
<1>3. \A j \in DOMAIN w : w[j].lock <= Cardinality(Holds(h, Span(w[j])))
    <2> SUFFICES ASSUME NEW j \in DOMAIN w PROVE w[j].lock <= Cardinality(Holds(h, Span(w[j])))
        OBVIOUS
    <2>1. q[j].lock \in Nat
        BY <1>1, ListFields DEF GopList
    <2>2. q[j].lock <= Cardinality(Holds(h, Span(q[j])))
        BY <1>1 DEF Locks
    <2>3. Cardinality(Holds(h, Span(q[j]))) <= Cardinality(Holds(h, Span(w[j])))
        BY <1>2, HoldsMore
    <2>4. Cardinality(Holds(h, Span(q[j]))) \in Nat /\ Cardinality(Holds(h, Span(w[j]))) \in Nat
        BY HoldsFinite
    <2> QED
        BY <1>1, <2>1, <2>2, <2>3, <2>4
<1>4. ~ d => \A j \in DOMAIN w : w[j].lock = Cardinality(Holds(h, Span(w[j])))
    <2> SUFFICES ASSUME ~ d, NEW j \in DOMAIN w PROVE w[j].lock = Cardinality(Holds(h, Span(w[j])))
        OBVIOUS
    <2>1. HeldOK(h) /\ HeldIn(h, Locked(q))
        BY DEF Locks
    <2>2. Span(q[j]) \cap Locked(q) = Span(w[j]) \cap Locked(q)
        BY <1>1
    <2>3. Holds(h, Span(q[j])) = Holds(h, Span(w[j]))
        BY <2>1, <2>2, HoldsSame
    <2> QED
        BY <1>1, <2>3 DEF Locks
<1>5. ~ d => HeldIn(h, Locked(w))
    BY <1>1 DEF Locks, HeldIn
<1> QED
    BY <1>3, <1>4, <1>5 DEF Locks

\* or taken from its readers.
LEMMA DropLocks ==
    ASSUME NEW q \in Seq(Gop), NEW h, NEW d, Locks(q, h, d),
           NEW g \in DOMAIN q, NEW w, w = RemoveAt(q, g)
    PROVE  Locks(w, h, TRUE)
<1>1. \A j \in DOMAIN w : \E i \in DOMAIN q \ {g} : w[j] = q[i]
    BY RemovedFrom
<1>2. \A j \in DOMAIN w : w[j].lock <= Cardinality(Holds(h, Span(w[j])))
    BY <1>1 DEF Locks
<1> QED
    BY <1>2 DEF Locks

-----------------------------------------------------------------------------
(* Reading the memory between writes.                                      *)

\* GetGopLastPwithStartSerial finds the end of the GOP that begins with s.
LEMMA NextI ==
    ASSUME FInv, Dense, job = NoJob, NEW s \in DOMAIN InMemory,
           NEW e, e = IF LastP(s) < 0 THEN cur_serial ELSE LastP(s)
    PROVE  /\ s \in Int /\ s >= 0 /\ cur_serial \in Int /\ e \in s .. cur_serial
           /\ LastP(s) < 0 <=> e = cur_serial
           /\ \A k \in s + 1 .. e : InMemory[k] # "I"
           /\ e + 1 <= cur_serial => InMemory[e + 1] = "I"
<1>1. cur_serial \in Int /\ s \in Int /\ s >= 0 /\ s <= cur_serial
    BY MaxSerialAssumption DEF FInv, TypeOK, Dense
<1>2. \A k \in s + 1 .. cur_serial : k \in Int /\ k \in DOMAIN InMemory
    BY <1>1 DEF Dense
<1>3. \A k \in s + 1 .. cur_serial : Lookup(k) # -1 /\ frame[Lookup(k)].type = InMemory[k]
    BY <1>2, Look
<1>4. PICK T : T = {k \in s + 1 .. cur_serial : InMemory[k] = "I"}
    OBVIOUS
<1>5. LastP(s) = IF T = {} THEN -1 ELSE First(T) - 1
    <2>1. T = {k \in s + 1 .. cur_serial : /\ Lookup(k) # -1 /\ frame[Lookup(k)].type = "I"
                                           /\ \A m \in s + 1 .. k : Lookup(m) # -1}
        <3>1. \A k \in s + 1 .. cur_serial : \A m \in s + 1 .. k : m \in s + 1 .. cur_serial
            BY <1>1
        <3> QED
            BY <1>3, <1>4, <3>1
    <2> QED
        BY <2>1 DEF LastP
<1>6. T # {} => First(T) \in T /\ \A k \in T : First(T) <= k
    <2>1. T \in SUBSET Int /\ \A k \in T : 0 <= k
        BY <1>1, <1>4
    <2> QED
        BY <2>1, FirstIs, 0 \in Int
<1>7. CASE T = {}
    <2>1. LastP(s) = -1 /\ e = cur_serial
        BY <1>5, <1>7
    <2> QED
        BY <1>1, <1>4, <1>7, <2>1
<1>8. CASE T # {}
    <2>1. PICK f : f = First(T)
        OBVIOUS
    <2>2. f \in s + 1 .. cur_serial /\ InMemory[f] = "I" /\ f \in Int
        BY <1>1, <1>4, <1>6, <1>8, <2>1
    <2>3. LastP(s) = f - 1 /\ e = f - 1
        BY <1>1, <1>5, <1>8, <2>1, <2>2
    <2>4. \A k \in s + 1 .. e : InMemory[k] # "I"
        <3> SUFFICES ASSUME NEW k \in s + 1 .. e, InMemory[k] = "I" PROVE FALSE
            OBVIOUS
        <3>1. k \in T /\ k < f
            BY <1>1, <1>4, <2>2, <2>3
        <3> QED
            BY <1>1, <1>6, <1>8, <2>1, <2>2, <3>1
    <2>5. e + 1 = f
        BY <2>2, <2>3
    <2> QED
        BY <1>1, <2>2, <2>3, <2>4, <2>5
<1> QED
    BY <1>7, <1>8

\* A GOP that begins with a frame that is in no locked GOP shares none.
LEMMA Apart ==
    ASSUME Dense, cur_serial \in Int, NEW q, NEW n, GopList(q, n, InMemory),
           NEW s \in DOMAIN InMemory, NEW e \in s .. cur_serial, s \notin Locked(q),
           \A k \in s + 1 .. e : InMemory[k] # "I"
    PROVE  (s .. e) \cap Locked(q) = {}
<1> SUFFICES ASSUME NEW t \in s .. e, t \in Locked(q) PROVE FALSE
    OBVIOUS
<1>1. s \in Int /\ e \in Int /\ e <= cur_serial
    BY DEF Dense
<1>2. PICK g \in DOMAIN q : t \in Span(q[g])
    BY InLocked
<1>3. q[g].start \in Int /\ q[g].end \in Int
    BY ListFields DEF GopList
<1>4. s \notin Span(q[g])
    BY InLocked
<1>5. q[g].start \in s + 1 .. e
    BY <1>1, <1>2, <1>3, <1>4 DEF Span
<1>6. q[g].start \in DOMAIN InMemory
    BY <1>1, <1>5 DEF Dense
<1> QED
    BY <1>5, <1>6 DEF GopList

\* A frame after a locked GOP begins the next one.
LEMMA AfterGop ==
    ASSUME NEW q, NEW n \in Int, NEW M, GopList(q, n, M), NEW s \in DOMAIN M, s \in Int, s <= n,
           s \notin Locked(q), s - 1 \in Locked(q)
    PROVE  M[s] = "I"
<1>1. PICK g \in DOMAIN q : s - 1 \in Span(q[g])
    BY InLocked
<1>2. q[g].start \in Int /\ q[g].end \in Int
    BY ListFields DEF GopList
<1>3. s \notin Span(q[g])
    BY InLocked
<1>4. q[g].end + 1 = s
    BY <1>1, <1>2, <1>3 DEF Span
<1> QED
    BY <1>4 DEF GopList

\* The frame that was written last.
LEMMA LastWritten ==
    ASSUME FInv, job = NoJob, cur_serial >= 0
    PROVE  /\ cur_serial \in DOMAIN InMemory /\ cur_serial \in 0 .. MaxSerial
           /\ frame[cur_frame].type = InMemory[cur_serial]
<1>1. cur_frame \in Stored /\ frame[cur_frame].serial = cur_serial /\ cur_serial \in 0 .. MaxSerial
    BY MaxSerialAssumption DEF FInv, TypeOK, Ring, Fresh, Progress
<1>2. /\ DOMAIN InMemory = {frame[i].serial : i \in Stored}
      /\ \A i \in Stored : InMemory[frame[i].serial] = frame[i].type
    BY InMemoryNow DEF InMemoryIs
<1> QED
    BY <1>1, <1>2

-----------------------------------------------------------------------------
(* The requests.                                                           *)

\* What LockGopBySerial and UnlockGopBySerial leave, when the readers then
\* hold h.
Served(l, h) ==
    /\ Sound(l.c)
    /\ Serials(l.c) = Locked(l.gops)
    /\ GopList(l.gops, cur_serial, InMemory)
    /\ Locks(l.gops, h, dropped)

LEMMA Idle ==
    ASSUME GInv, ~ Writing
    PROVE  /\ FInv /\ Dense /\ job = NoJob /\ ~ written /\ Sound(theCache)
           /\ Serials(theCache) = Locked(gops) /\ GopList(gops, cur_serial, InMemory)
           /\ lockNewFrame \in BOOLEAN /\ (lockNewFrame <=> cur_serial \in Locked(gops))
           /\ Locks(gops, held, dropped) /\ gops \in Seq(Gop)
           /\ cur_serial \in Int /\ MaxSerial \in Nat /\ cur_serial <= MaxSerial
<1>1. FInv /\ Dense /\ job = NoJob /\ ~ written /\ Newest = cur_serial
    BY DEF GInv, Writing, Newest
<1>2. cur_serial \in Int /\ MaxSerial \in Nat /\ cur_serial <= MaxSerial
    BY <1>1, MaxSerialAssumption DEF FInv, TypeOK
<1>3. gops \in Seq(Gop)
    BY DEF GInv, GopList
<1> QED
    BY <1>1, <1>2, <1>3 DEF GInv

\* A request that changes nothing but its counts.
LEMMA Unserved ==
    ASSUME GInv, ~ Writing, NEW l, NEW h, l.c = theCache, l.gops = gops, Locks(gops, h, dropped)
    PROVE  Served(l, h)
BY Idle DEF Served

\* The frames of a GOP of the list leave the cache.
LEMMA UnlockGopList ==
    ASSUME NEW c, Sound(c), cur_serial \in Int, NEW q, NEW M, NEW n \in Int, n <= cur_serial,
           GopList(q, n, M), NEW g \in DOMAIN q
    PROVE  /\ Sound(UnlockGop(c, q[g].start, q[g].end))
           /\ Serials(UnlockGop(c, q[g].start, q[g].end)) = Serials(c) \ Span(q[g])
<1>1. PICK s, e : s = q[g].start /\ e = q[g].end
    OBVIOUS
<1>2. s \in Int /\ e \in s - 1 .. cur_serial
    BY <1>1, ListFields DEF GopList
<1>3. Sound(UnlockGop(c, s, e)) /\ Serials(UnlockGop(c, s, e)) = Serials(c) \ (s .. e)
    BY <1>2, UnlockAll
<1> QED
    BY <1>1, <1>3 DEF Span

LEMMA AddGop ==
    ASSUME GInv, ~ Writing, NEW r \in Readers, Len(held[r]) < MaxHeld,
           NEW s \in DOMAIN InMemory, InMemory[s] = "I", s \notin Locked(gops),
           NEW e \in s .. cur_serial, \A k \in s + 1 .. e : InMemory[k] # "I",
           e + 1 <= cur_serial => InMemory[e + 1] = "I",
           NEW ok \in {"COMPLETE", "INCOMPLETE"}, ok = "INCOMPLETE" <=> e = cur_serial,
           NEW l, l = AddAndLockGop(s, e, ok)
    PROVE  /\ Served(l, IF l.ret = "FAIL" THEN held ELSE More(held, r, s))
           /\ lockNewFrame \/ l.ret = "INCOMPLETE" <=> cur_serial \in Locked(l.gops)
<1>1. /\ FInv /\ Dense /\ job = NoJob /\ Sound(theCache)
      /\ Serials(theCache) = Locked(gops) /\ GopList(gops, cur_serial, InMemory)
      /\ (lockNewFrame <=> cur_serial \in Locked(gops))
      /\ Locks(gops, held, dropped)
      /\ cur_serial \in Int /\ MaxSerial \in Nat /\ cur_serial <= MaxSerial
    BY Idle
<1>2. s \in Nat /\ e \in Int /\ s <= e /\ s \in 0 .. MaxSerial /\ e \in 0 .. MaxSerial
    BY <1>1 DEF Dense
<1>3. (s .. e) \cap Locked(gops) = {}
    BY <1>1, Apart
<1>4. PICK m : m = LockGop(theCache, s, e)
    OBVIOUS
<1>5. /\ Sound(m.c)
      /\ m.ret = "OK" => Serials(m.c) = Locked(gops) \cup s .. e
      /\ m.ret # "OK" => Serials(m.c) = Locked(gops)
    <2>1. (s .. e) \cap Serials(theCache) = {} /\ s \in Nat /\ e \in s .. cur_serial
        BY <1>1, <1>2, <1>3
    <2>2. /\ Sound(m.c)
          /\ m.ret = "OK" => Serials(m.c) = Serials(theCache) \cup s .. e
          /\ m.ret # "OK" => Serials(m.c) = Serials(theCache)
        BY <1>1, <1>4, <2>1, LockAll
    <2> QED
        BY <1>1, <2>2
<1>6. PICK x : x = [start |-> s, end |-> e, lock |-> 1]
    OBVIOUS
<1>7. PICK w : w = Prefixed(gops, x)
    OBVIOUS
<1>8. l = [ret  |-> IF m.ret = "OK" THEN ok ELSE "FAIL", c |-> m.c,
           gops |-> IF m.ret = "OK" THEN w ELSE gops]
    BY <1>4, <1>6, <1>7 DEF AddAndLockGop, Prefixed
<1>9. CASE m.ret = "OK"
    <2>1. l.ret = ok /\ l.c = m.c /\ l.gops = w /\ ok # "FAIL"
        BY <1>8, <1>9
    <2>2. /\ x \in Gop /\ x.start = s /\ x.end = e /\ x.lock = 1
          /\ Span(x) = s .. e
        BY <1>2, <1>6 DEF Gop, Span
    <2>3. Span(x) \cap Locked(gops) = {} /\ s \in Span(x)
        BY <1>2, <1>3, <2>2
    <2>4. e <= cur_serial
        BY <1>1, <1>2
    <2>5. GopList(w, cur_serial, InMemory) /\ Locked(w) = Locked(gops) \cup Span(x)
        BY <1>1, <1>2, <1>7, <2>2, <2>3, <2>4, AddList
    <2>6. Locks(w, More(held, r, s), dropped)
        BY <1>1, <1>2, <1>7, <2>2, <2>3, <2>5, LockNew
    <2>7. Served(l, IF l.ret = "FAIL" THEN held ELSE More(held, r, s))
        BY <1>5, <1>9, <2>1, <2>2, <2>5, <2>6 DEF Served
    <2>8. cur_serial \in Span(x) <=> e = cur_serial
        BY <1>1, <1>2, <2>2, <2>4
    <2> QED
        BY <1>1, <2>1, <2>5, <2>7, <2>8
<1>10. CASE m.ret # "OK"
    <2>1. l.ret = "FAIL" /\ l.c = m.c /\ l.gops = gops
        BY <1>8, <1>10
    <2>2. Served(l, IF l.ret = "FAIL" THEN held ELSE More(held, r, s))
        BY <1>1, <1>5, <1>10, <2>1 DEF Served
    <2> QED
        BY <1>1, <2>1, <2>2
<1> QED
    BY <1>9, <1>10

LEMMA LockSerial ==
    ASSUME GInv, ~ Writing, NEW r \in Readers, Len(held[r]) < MaxHeld, NEW s \in Int,
           NEW l, l = LockGopBySerial(s)
    PROVE  /\ Served(l, IF l.ret = "FAIL" THEN held ELSE More(held, r, s))
           /\ lockNewFrame \/ l.ret = "INCOMPLETE" <=> cur_serial \in Locked(l.gops)
<1>1. /\ FInv /\ Dense /\ job = NoJob /\ Sound(theCache)
      /\ Serials(theCache) = Locked(gops) /\ GopList(gops, cur_serial, InMemory)
      /\ (lockNewFrame <=> cur_serial \in Locked(gops))
      /\ Locks(gops, held, dropped) /\ gops \in Seq(Gop)
      /\ cur_serial \in Int /\ MaxSerial \in Nat /\ cur_serial <= MaxSerial
    BY Idle
<1>2. PICK no : no = [ret |-> "FAIL", c |-> theCache, gops |-> gops]
    OBVIOUS
<1>3. CASE l = no
    <2>1. l.ret = "FAIL" /\ l.c = theCache /\ l.gops = gops
        BY <1>2, <1>3
    <2>2. Served(l, held)
        BY <1>1, <2>1, Unserved
    <2> QED
        BY <1>1, <2>1, <2>2
<1>4. PICK g : g = FindGop(s)
    OBVIOUS
<1>5. /\ g = 0 <=> s \notin Locked(gops)
      /\ g # 0 => g \in DOMAIN gops /\ s \in Span(gops[g])
    BY <1>1, <1>4, FoundGop
<1>6. CASE s >= 0 /\ g # 0
    <2>1. PICK w : w = Relocked(gops, g, gops[g].lock + 1)
        OBVIOUS
    <2>2. l = [ret |-> "COMPLETE", c |-> theCache, gops |-> w]
        BY <1>4, <1>6, <2>1 DEF LockGopBySerial, Relocked
    <2>3. l.ret = "COMPLETE" /\ l.c = theCache /\ l.gops = w
        BY <2>2
    <2>4. s \in 0 .. MaxSerial
        BY <1>1, <1>5, <1>6, ListFields DEF Span
    <2>5. /\ GopList(w, cur_serial, InMemory) /\ Locked(w) = Locked(gops)
          /\ Locks(w, More(held, r, s), dropped)
        BY <1>1, <1>5, <1>6, <2>1, <2>4, LockMore
    <2>6. Served(l, More(held, r, s))
        BY <1>1, <2>3, <2>5 DEF Served
    <2> QED
        BY <1>1, <2>3, <2>5, <2>6
<1>7. CASE s >= 0 /\ g = 0 /\ s \in DOMAIN InMemory /\ InMemory[s] = "I"
    <2>1. PICK e : e = IF LastP(s) < 0 THEN cur_serial ELSE LastP(s)
        OBVIOUS
    <2>2. /\ e \in s .. cur_serial
          /\ LastP(s) < 0 <=> e = cur_serial
          /\ \A k \in s + 1 .. e : InMemory[k] # "I"
          /\ e + 1 <= cur_serial => InMemory[e + 1] = "I"
        BY <1>1, <1>7, <2>1, NextI
    <2>3. PICK ok : ok = IF LastP(s) < 0 THEN "INCOMPLETE" ELSE "COMPLETE"
        OBVIOUS
    <2>4. ok \in {"COMPLETE", "INCOMPLETE"} /\ (ok = "INCOMPLETE" <=> e = cur_serial)
        BY <2>2, <2>3
    <2>5. Lookup(s) # -1 /\ frame[Lookup(s)].type = "I"
        BY <1>1, <1>7, Look
    <2>6. l = AddAndLockGop(s, e, ok)
        BY <1>4, <1>7, <2>1, <2>3, <2>5 DEF LockGopBySerial
    <2> QED
        BY <1>5, <1>7, <2>2, <2>4, <2>6, AddGop
<1>8. CASE s < 0 \/ (g = 0 /\ s \notin DOMAIN InMemory)
    <2>1. s < 0 \/ (g = 0 /\ Lookup(s) = -1)
        BY <1>1, <1>8, Look
    <2>2. l = no
        BY <1>2, <1>4, <2>1 DEF LockGopBySerial
    <2> QED
        BY <1>3, <2>2
<1>9. CASE s >= 0 /\ g = 0 /\ s \in DOMAIN InMemory /\ InMemory[s] # "I"
    <2>1. Lookup(s) # -1 /\ frame[Lookup(s)].type # "I" /\ s <= cur_serial
        BY <1>1, <1>9, Look
    <2>2. s - 1 \notin Locked(gops)
        BY <1>1, <1>5, <1>9, <2>1, AfterGop
    <2>3. FindGop(s - 1) = 0
        <3>1. s - 1 \in Int
            OBVIOUS
        <3> QED
            BY <1>1, <2>2, <3>1, FoundGop
    <2>4. l = no
        BY <1>2, <1>4, <1>9, <2>1, <2>3 DEF LockGopBySerial
    <2> QED
        BY <1>3, <2>4
<1> QED
    BY <1>6, <1>7, <1>8, <1>9

LEMMA UnlockSerial ==
    ASSUME GInv, ~ Writing, NEW r \in Readers, held[r] # << >>,
           NEW l, l = UnlockGopBySerial(Head(held[r]))
    PROVE  /\ Served(l, Less(held, r))
           /\ lockNewFrame /\ l.ret # "INCOMPLETE" <=> cur_serial \in Locked(l.gops)
<1>1. /\ FInv /\ Dense /\ job = NoJob /\ Sound(theCache)
      /\ Serials(theCache) = Locked(gops) /\ GopList(gops, cur_serial, InMemory)
      /\ (lockNewFrame <=> cur_serial \in Locked(gops))
      /\ Locks(gops, held, dropped) /\ gops \in Seq(Gop)
      /\ cur_serial \in Int /\ MaxSerial \in Nat /\ cur_serial <= MaxSerial
    BY Idle
<1>2. PICK s, u : s = Head(held[r]) /\ u = Less(held, r)
    OBVIOUS
<1>3. s \in Int
    <2>1. HeldOK(held)
        BY <1>1 DEF Locks
    <2>2. HeldIn(held, 0 .. MaxSerial)
        <3> SUFFICES ASSUME NEW p \in Readers, NEW k \in DOMAIN held[p] PROVE held[p][k] \in 0 .. MaxSerial
            BY DEF HeldIn
        <3>1. PICK y : y = held[p]
            OBVIOUS
        <3>2. y \in Seq(0 .. MaxSerial)
            BY <2>1, <3>1 DEF HeldOK
        <3>3. k \in 1 .. Len(y)
            BY <3>1, <3>2
        <3>4. y[k] \in 0 .. MaxSerial
            BY <3>2, <3>3, MaxSerialAssumption
        <3> QED
            BY <3>1, <3>4
    <2>3. s \in 0 .. MaxSerial
        BY <1>2, <2>1, <2>2, TailIn
    <2> QED
        BY <1>1, <2>3
<1>4. PICK g : g = FindGop(s)
    OBVIOUS
<1>5. /\ g = 0 <=> s \notin Locked(gops)
      /\ g # 0 => g \in DOMAIN gops /\ s \in Span(gops[g])
    BY <1>1, <1>3, <1>4, FoundGop
<1>6. CASE g = 0
    <2>1. l.ret = "FAIL" /\ l.c = theCache /\ l.gops = gops
        BY <1>2, <1>4, <1>6 DEF UnlockGopBySerial
    <2>2. Locks(gops, u, dropped)
        BY <1>1, <1>2, <1>5, <1>6, UnlockNone
    <2>3. Served(l, u)
        BY <1>1, <2>1, <2>2, Unserved
    <2> QED
        BY <1>1, <1>2, <2>1, <2>3
<1>7. CASE g # 0 /\ gops[g].lock > 1
    <2>1. PICK w : w = Relocked(gops, g, gops[g].lock - 1)
        OBVIOUS
    <2>2. l = [ret |-> "COMPLETE", c |-> theCache, gops |-> w]
        BY <1>2, <1>4, <1>7, <2>1 DEF UnlockGopBySerial, Relocked
    <2>3. l.ret = "COMPLETE" /\ l.c = theCache /\ l.gops = w
        BY <2>2
    <2>4. /\ GopList(w, cur_serial, InMemory) /\ Locked(w) = Locked(gops)
          /\ Locks(w, u, dropped)
        BY <1>1, <1>2, <1>5, <1>7, <2>1, UnlockLess
    <2>5. Served(l, u)
        BY <1>1, <2>3, <2>4 DEF Served
    <2> QED
        BY <1>1, <1>2, <2>3, <2>4, <2>5
<1>8. CASE g # 0 /\ ~ (gops[g].lock > 1)
    <2>1. PICK w, c : w = RemoveAt(gops, g) /\ c = UnlockGop(theCache, gops[g].start, gops[g].end)
        OBVIOUS
    <2>2. l.c = c /\ l.gops = w /\ (l.ret = "INCOMPLETE" <=> cur_serial \in Span(gops[g]))
        BY <1>2, <1>4, <1>8, <2>1 DEF UnlockGopBySerial, Span
    <2>3. /\ GopList(w, cur_serial, InMemory) /\ Locked(w) = Locked(gops) \ Span(gops[g])
          /\ Locks(w, u, dropped)
        BY <1>1, <1>2, <1>5, <1>8, <2>1, UnlockLast
    <2>4. Sound(c) /\ Serials(c) = Locked(gops) \ Span(gops[g])
        BY <1>1, <1>5, <1>8, <2>1, UnlockGopList
    <2>5. Served(l, u)
        BY <2>2, <2>3, <2>4 DEF Served
    <2> QED
        BY <1>1, <1>2, <2>2, <2>3, <2>5
<1> QED
    BY <1>6, <1>7, <1>8

-----------------------------------------------------------------------------
(* Every step.                                                             *)

\* The invariant, from its parts in the next state.
LEMMA Assemble ==
    ASSUME FInv', Dense', written' \in BOOLEAN, written' => job' = NoJob /\ cur_serial' >= 0,
           NEW c, c = theCache', Sound(c), NEW q, q = gops', Serials(c) = Locked(q),
           NEW n, n = (IF written' THEN cur_serial' - 1 ELSE cur_serial'),
           NEW M, M = InMemory', GopList(q, n, M),
           lockNewFrame' \in BOOLEAN, lockNewFrame' <=> n \in Locked(q),
           NEW h, h = held', NEW d, d = dropped', Locks(q, h, d)
    PROVE  GInv'
<1>1. n = Newest'
    BY DEF Newest
<1>2. Sound(theCache)'
    BY DEF Sound, Taken, BlksIn, CachedFrames, EmptyCache
<1>3. (Serials(theCache) = Locked(gops))'
    BY DEF Serials, Taken, Locked, Span
<1>4. GopList(gops, Newest, InMemory)'
    BY <1>1 DEF GopList, Span
<1>5. (lockNewFrame \in BOOLEAN /\ (lockNewFrame <=> Newest \in Locked(gops)))'
    BY <1>1 DEF Locked, Span
<1>6. Locks(gops, held, dropped)'
    BY DEF Locks, HeldOK, HeldIn, Holds, Locked, Span
<1> QED
    BY <1>2, <1>3, <1>4, <1>5, <1>6 DEF GInv

LEMMA GInitially == GInit => GInv
<1> SUFFICES ASSUME GInit PROVE GInv
    OBVIOUS
<1>1. FInv /\ job = NoJob /\ cur_serial = -1
    BY Initially DEF GInit, Init
<1>2. Dense
    <2>1. Stored = {}
        BY Dummy DEF GInit, Init, Stored, EmptyFrame, Types
    <2>2. DOMAIN InMemory = {}
        BY <2>1 DEF InMemory
    <2> QED
        BY <2>2 DEF Dense
<1>3. PICK c : c = theCache
    OBVIOUS
<1>4. c = [cache |-> [i \in CacheIdx |-> EmptyCache], free |-> [b \in CacheIdx |-> TRUE]]
    BY <1>3 DEF GInit, theCache
<1>5. Taken(c) = {}
    BY <1>4 DEF Taken, EmptyCache
<1>6. Sound(c) /\ Serials(c) = {}
    <2>1. c.cache \in [CacheIdx -> {EmptyCache} \cup CachedFrames] /\ c.free \in [CacheIdx -> BOOLEAN]
        BY <1>4
    <2>2. c = [cache |-> c.cache, free |-> c.free] /\ \A b \in CacheIdx : c.free[b]
        BY <1>4
    <2> QED
        BY <1>5, <2>1, <2>2 DEF Sound, Serials
<1>7. gops = << >> /\ Locked(gops) = {}
    BY DEF GInit, Locked
<1>8. GopList(gops, Newest, InMemory)
    BY <1>7 DEF GopList
<1>9. Locks(gops, held, dropped)
    <2>1. held = [r \in Readers |-> << >>] /\ dropped = FALSE
        BY DEF GInit
    <2>2. HeldOK(held)
        BY <2>1, MaxHeldAssumption DEF HeldOK
    <2>3. HeldIn(held, Locked(gops))
        BY <2>1 DEF HeldIn
    <2>4. \A g \in DOMAIN gops : FALSE
        BY <1>7
    <2>5. dropped \in BOOLEAN
        BY <2>1
    <2> QED
        BY <2>2, <2>3, <2>4, <2>5 DEF Locks
<1>10. written = FALSE /\ lockNewFrame = FALSE
    BY DEF GInit
<1> QED
    BY <1>1, <1>2, <1>3, <1>6, <1>7, <1>8, <1>9, <1>10 DEF GInv

\* A request that leaves l and h.
LEMMA ServedKept ==
    ASSUME GInv, ~ Writing, UNCHANGED <<vars, written, dropped>>,
           NEW l, NEW h, Served(l, h), SetCache(l.c), gops' = l.gops, held' = h,
           lockNewFrame' \in BOOLEAN, lockNewFrame' <=> cur_serial \in Locked(l.gops)
    PROVE  GInv'
<1>1. FInv /\ Dense /\ ~ written /\ cur_serial' = cur_serial
    BY Idle DEF vars, pos
<1>2. FInv' /\ Dense' /\ InMemory' = InMemory /\ job' = job
    <2>1. FInv'
        BY <1>1, InvariantStep
    <2>2. InMemory' = InMemory
        BY DEF vars, InMemory, Stored
    <2> QED
        BY <1>1, <2>1, <2>2, DenseStep DEF vars
<1>3. PICK c, q, n, M, d :
          c = l.c /\ q = l.gops /\ n = cur_serial /\ M = InMemory /\ d = dropped
    OBVIOUS
<1>4. Sound(c) /\ Serials(c) = Locked(q) /\ GopList(q, n, M) /\ Locks(q, h, d)
    BY <1>3 DEF Served
<1>5. c = theCache'
    <2>1. c = [cache |-> c.cache, free |-> c.free]
        BY <1>4, SoundIs
    <2> QED
        BY <1>3, <2>1 DEF SetCache, theCache
<1>6. q = gops' /\ M = InMemory' /\ d = dropped' /\ ~ written' /\ written' \in BOOLEAN
      /\ n = (IF written' THEN cur_serial' - 1 ELSE cur_serial')
    BY <1>1, <1>2, <1>3 DEF GInv
<1>7. lockNewFrame' <=> n \in Locked(q)
    BY <1>3
<1> QED
    BY <1>2, <1>4, <1>5, <1>6, <1>7, Assemble

LEMMA AnswerStep ==
    ASSUME GInv, NEW r \in Readers, ~ Writing, Len(held[r]) < MaxHeld, NEW s \in Int,
           Answer(r, s, LockGopBySerial(s))
    PROVE  GInv'
<1>1. PICK l : l = LockGopBySerial(s)
    OBVIOUS
<1>2. PICK h : h = IF l.ret = "FAIL" THEN held ELSE More(held, r, s)
    OBVIOUS
<1>3. /\ SetCache(l.c) /\ gops' = l.gops
      /\ lockNewFrame' = (lockNewFrame \/ l.ret = "INCOMPLETE")
      /\ held' = h
      /\ UNCHANGED <<vars, written, dropped>>
    BY <1>1, <1>2 DEF Answer, More
<1>4. /\ Served(l, h)
      /\ lockNewFrame \/ l.ret = "INCOMPLETE" <=> cur_serial \in Locked(l.gops)
    BY <1>1, <1>2, LockSerial
<1>5. lockNewFrame' \in BOOLEAN /\ (lockNewFrame' <=> cur_serial \in Locked(l.gops))
    BY <1>3, <1>4
<1> QED
    BY <1>3, <1>4, <1>5, ServedKept

LEMMA GetAndLockIFrameStep ==
    ASSUME GInv, NEW r \in Readers, GetAndLockIFrame(r)
    PROVE  GInv'
<1>1. ~ Writing /\ Len(held[r]) < MaxHeld /\ LastI >= 0
    BY DEF GetAndLockIFrame
<1>2. PICK s, l : s = frame[LastI].serial /\ l = LockGopBySerial(s)
    OBVIOUS
<1>3. s \in Int
    <2>1. TypeOK /\ LastI \in Frames
        BY <1>1 DEF GInv, FInv, TypeOK, LastI
    <2>2. frame[LastI] \in FrameInfo
        BY <2>1 DEF TypeOK
    <2> QED
        BY <1>2, <2>2, MaxSerialAssumption DEF FrameInfo, EmptyFrame
<1> QED
    BY <1>1, <1>2, <1>3, AnswerStep DEF GetAndLockIFrame

LEMMA LockFrameStep ==
    ASSUME GInv, NEW r \in Readers, LockFrame(r)
    PROVE  GInv'
<1>1. ~ Writing /\ Len(held[r]) \in 1 .. MaxHeld - 1
    BY DEF LockFrame
<1>2. PICK s : s = Last(held[r]) + 1
    OBVIOUS
<1>3. s \in Int /\ Len(held[r]) < MaxHeld
    <2>1. PICK y : y = held[r]
        OBVIOUS
    <2>2. HeldOK(held)
        BY DEF GInv, Locks
    <2>3. y \in Seq(0 .. MaxSerial) /\ Len(y) \in 1 .. MaxHeld - 1
        BY <1>1, <2>1, <2>2 DEF HeldOK
    <2>4. y[Len(y)] \in 0 .. MaxSerial
        BY <2>3, MaxHeldAssumption, MaxSerialAssumption
    <2>5. Last(y) \in Int
        BY <2>4 DEF Last
    <2> QED
        BY <1>2, <2>1, <2>3, <2>5, MaxHeldAssumption
<1> QED
    BY <1>1, <1>2, <1>3, AnswerStep DEF LockFrame

LEMMA UnlockFrameStep ==
    ASSUME GInv, NEW r \in Readers, UnlockFrame(r)
    PROVE  GInv'
<1>1. PICK l, h : l = UnlockGopBySerial(Head(held[r])) /\ h = Less(held, r)
    OBVIOUS
<1>2. /\ ~ Writing /\ held[r] # << >> /\ SetCache(l.c) /\ gops' = l.gops
      /\ lockNewFrame' = (lockNewFrame /\ l.ret # "INCOMPLETE")
      /\ held' = h
      /\ UNCHANGED <<vars, written, dropped>>
    BY <1>1 DEF UnlockFrame, Less
<1>3. /\ Served(l, h)
      /\ lockNewFrame /\ l.ret # "INCOMPLETE" <=> cur_serial \in Locked(l.gops)
    BY <1>1, <1>2, UnlockSerial
<1>4. lockNewFrame' \in BOOLEAN /\ (lockNewFrame' <=> cur_serial \in Locked(l.gops))
    BY <1>2, <1>3
<1> QED
    BY <1>2, <1>3, <1>4, ServedKept

\* The encoder's loop changes what is in memory and nothing else: the frame
\* it stores is the newest one, and still to be looked at.
LEMMA EncoderStep ==
    ASSUME GInv, ~ written, Next, UNCHANGED gopVars,
           NEW b \in BOOLEAN, written' = b,
           b => Store, ~ b => cur_serial' = cur_serial
    PROVE  GInv'
<1>1. /\ FInv /\ Dense /\ Newest = cur_serial /\ Sound(theCache)
      /\ Serials(theCache) = Locked(gops) /\ GopList(gops, cur_serial, InMemory)
      /\ lockNewFrame \in BOOLEAN /\ (lockNewFrame <=> cur_serial \in Locked(gops))
      /\ Locks(gops, held, dropped)
    BY DEF GInv, Newest
<1>2. FInv'
    BY <1>1, InvariantStep
<1>3. /\ Dense'
      /\ \A s \in DOMAIN InMemory' : s <= cur_serial =>
             s \in DOMAIN InMemory /\ InMemory'[s] = InMemory[s]
    BY <1>1, DenseStep
<1>4. PICK c, q, n, M, h, d :
          c = theCache /\ q = gops /\ n = cur_serial /\ M = InMemory' /\ h = held /\ d = dropped
    OBVIOUS
<1>5. n \in Int /\ n >= -1
    BY <1>1, <1>4, MaxSerialAssumption DEF FInv, TypeOK
<1>6. GopList(q, n, M)
    <2>1. \A s \in DOMAIN M : s <= n => s \in DOMAIN InMemory /\ M[s] = InMemory[s]
        BY <1>3, <1>4
    <2>2. GopList(q, n, InMemory)
        BY <1>1, <1>4
    <2> QED
        BY <1>5, <2>1, <2>2, MemList
<1>7. Sound(c) /\ Serials(c) = Locked(q) /\ Locks(q, h, d) /\ (lockNewFrame <=> n \in Locked(q))
    BY <1>1, <1>4
<1>8. /\ c = theCache' /\ q = gops' /\ h = held' /\ d = dropped' /\ lockNewFrame' = lockNewFrame
    BY <1>4 DEF gopVars, theCache
<1>9. CASE b
    <2>1. job' = NoJob
        BY <1>9 DEF Store
    <2>2. cur_serial' = n + 1
        <3>1. FInv /\ Store
            BY <1>1, <1>9
        <3>2. PICK i, s, k : Inserted(k, job.type, i, s)
            BY <3>1, StoreStep
        <3>3. job.type # "DUMMY"
            BY <3>1, JobFields, Dummy DEF Store
        <3> QED
            BY <1>4, <3>2, <3>3 DEF Inserted
    <2>3. n = (IF written' THEN cur_serial' - 1 ELSE cur_serial') /\ cur_serial' >= 0
        BY <1>5, <1>9, <2>2
    <2> QED
        BY <1>1, <1>2, <1>3, <1>4, <1>6, <1>7, <1>8, <2>1, <2>3, Assemble
<1>10. CASE ~ b
    <2>1. n = (IF written' THEN cur_serial' - 1 ELSE cur_serial')
        BY <1>4, <1>10
    <2> QED
        BY <1>1, <1>2, <1>3, <1>4, <1>6, <1>7, <1>8, <1>10, <2>1, Assemble
<1> QED
    BY <1>9, <1>10

\* A write ends by storing its frame.
LEMMA LoopGoesOn ==
    ASSUME FInv, FreeOldest \/ FillUp
    PROVE  job' # NoJob
<1>1. /\ job \in Jobs /\ job # NoJob
      /\ \E k \in {job.free_cnt + 1, 0} : job' = [job EXCEPT !.free_cnt = k]
    BY JobFields DEF FreeOldest, FillUp
<1>2. PICK k \in {job.free_cnt + 1, 0} : job' = [job EXCEPT !.free_cnt = k]
    BY <1>1
<1>3. k \in 0 .. BlkNum
    <2>1. CASE FreeOldest
        <3>1. PICK f : f = (cur_frame + 1 + job.free_cnt) % BlkNum
            OBVIOUS
        <3>2. job.free_cnt + 1 <= BlkNum /\ job.free_cnt \in Nat
            BY <1>1, <2>1, <3>1, FreedIsOldest, BlkNumAssumption DEF FreeOldest, Jobs
        <3> QED
            BY <3>2, BlkNumAssumption
    <2>2. CASE FillUp
        <3>1. job' = [job EXCEPT !.free_cnt = 0]
            BY <2>2 DEF FillUp
        <3>2. k = 0
            BY <1>1, <1>2, <3>1 DEF Jobs
        <3> QED
            BY <3>2, BlkNumAssumption
    <2> QED
        BY <2>1, <2>2
<1>4. job' \in Jobs
    BY <1>1, <1>2, <1>3 DEF Jobs
<1> QED
    BY <1>4, NoJobAssumption

LEMMA StreamWriteStep ==
    ASSUME GInv, NEW blks \in 1 .. BlkNum, NEW type \in Types, StreamWrite(blks, type)
    PROVE  GInv'
<1>1. ~ written /\ VideoWrite(blks, type) /\ UNCHANGED gopVars /\ written' = FALSE
    BY DEF StreamWrite, GInv
<1>2. cur_serial' = cur_serial /\ Next
    BY <1>1 DEF VideoWrite, pos, Next
<1>3. PICK b \in BOOLEAN : b = FALSE
    OBVIOUS
<1> QED
    BY <1>1, <1>2, <1>3, EncoderStep

LEMMA WriteLoopStep ==
    ASSUME GInv, WriteLoop
    PROVE  GInv'
<1>1. WriteStep /\ UNCHANGED gopVars /\ written' = (job' = NoJob) /\ FInv
    BY DEF WriteLoop, GInv
<1>2. job # NoJob /\ Next
    BY <1>1 DEF WriteStep, FreeOldest, FillUp, Store, Next
<1>3. ~ written
    BY <1>2 DEF GInv
<1>4. PICK b \in BOOLEAN : b = (job' = NoJob)
    OBVIOUS
<1>5. CASE Store
    <2>1. b
        BY <1>4, <1>5 DEF Store
    <2> QED
        BY <1>1, <1>2, <1>3, <1>4, <1>5, <2>1, EncoderStep
<1>6. CASE FreeOldest \/ FillUp
    <2>1. job' # NoJob
        BY <1>1, <1>6, LoopGoesOn
    <2>2. cur_serial' = cur_serial
        <3>1. CASE FreeOldest
            BY <3>1 DEF FreeOldest, pos
        <3>2. CASE FillUp
            BY <1>1, <3>2, FillUpStep DEF Inserted
        <3> QED
            BY <1>6, <3>1, <3>2
    <2> QED
        BY <1>1, <1>2, <1>3, <1>4, <2>1, <2>2, EncoderStep
<1> QED
    BY <1>1, <1>5, <1>6 DEF WriteStep

\* The memory is left alone.
LEMMA Kept ==
    ASSUME FInv, Dense, UNCHANGED vars
    PROVE  FInv' /\ Dense' /\ InMemory' = InMemory /\ job' = job /\ cur_serial' = cur_serial
<1>1. FInv'
    BY InvariantStep
<1>2. InMemory' = InMemory
    BY DEF vars, InMemory, Stored
<1>3. Dense'
    BY DenseStep
<1> QED
    BY <1>1, <1>2, <1>3 DEF vars, pos

\* stream_write looks at the frame it has stored: the GOP that ends just
\* before it has been locked and the frame is a P frame,
LEMMA FollowStep ==
    ASSUME GInv, PostProcess, lockNewFrame, frame[cur_frame].type = "P"
    PROVE  GInv'
<1>1. /\ FInv /\ Dense /\ job = NoJob /\ written /\ cur_serial \in Int /\ cur_serial >= 0
      /\ Newest = cur_serial - 1
      /\ Sound(theCache) /\ Serials(theCache) = Locked(gops)
      /\ GopList(gops, Newest, InMemory) /\ Newest \in Locked(gops)
      /\ Locks(gops, held, dropped) /\ gops \in Seq(Gop)
    BY MaxSerialAssumption DEF GInv, PostProcess, Newest, FInv, TypeOK, GopList
<1>2. PICK n : n = cur_serial - 1
    OBVIOUS
<1>3. n \in Int /\ n + 1 = cur_serial /\ n = Newest
    BY <1>1, <1>2
<1>4. PICK g, l : g = FindGop(n) /\ l = CacheLock(theCache, cur_serial)
    OBVIOUS
<1>5. g # 0 /\ g \in DOMAIN gops /\ n \in Span(gops[g])
    BY <1>1, <1>3, <1>4, FoundGop
<1>6. PICK M, h : M = InMemory /\ h = held
    OBVIOUS
<1>7. /\ cur_serial \in DOMAIN M /\ cur_serial \in 0 .. MaxSerial /\ M[cur_serial] = "P"
    BY <1>1, <1>6, LastWritten
<1>8. GopList(gops, n, M) /\ Locks(gops, h, dropped)
    BY <1>1, <1>3, <1>6
<1>9. cur_serial \notin Locked(gops)
    BY <1>1, <1>3, InLocked, ListFields DEF GopList, Span
<1>10. /\ l = [ret |-> l.ret, c |-> l.c] /\ Sound(l.c)
       /\ l.ret = "OK" => Serials(l.c) = Locked(gops) \cup {cur_serial}
       /\ l.ret # "OK" => l.c = theCache
    <2>1. cur_serial \in 0 .. cur_serial /\ cur_serial \notin Serials(theCache)
        BY <1>1, <1>9
    <2> QED
        BY <1>1, <1>4, <2>1, LockOne
<1>11. PICK c : c = IF l.ret = "OK" THEN l.c ELSE UnlockGop(l.c, gops[g].start, gops[g].end)
    OBVIOUS
<1>12. PICK q : q = IF l.ret = "OK" THEN Extended(gops, g, cur_serial) ELSE RemoveAt(gops, g)
    OBVIOUS
<1>13. PICK d : d = IF l.ret = "OK" THEN dropped ELSE TRUE
    OBVIOUS
<1>14. /\ cache' = c.cache /\ blkFree' = c.free /\ gops' = q /\ dropped' = d
       /\ lockNewFrame' = (l.ret = "OK")
       /\ written' = FALSE /\ UNCHANGED <<vars, held>>
    <2>1. FollowGop /\ written' = FALSE /\ UNCHANGED <<vars, held>>
        BY DEF PostProcess
    <2>2. CASE l.ret = "OK"
        BY <1>2, <1>4, <1>5, <1>11, <1>12, <1>13, <2>1, <2>2 DEF FollowGop, SetCache, Extended
    <2>3. CASE l.ret # "OK"
        BY <1>2, <1>4, <1>5, <1>11, <1>12, <1>13, <2>1, <2>3 DEF FollowGop, SetCache, Extended
    <2> QED
        BY <2>2, <2>3
<1>15. /\ Sound(c) /\ Serials(c) = Locked(q) /\ GopList(q, cur_serial, M) /\ Locks(q, h, d)
       /\ l.ret = "OK" <=> cur_serial \in Locked(q)
    <2>1. CASE l.ret = "OK"
        <3>1. c = l.c /\ q = Extended(gops, g, n + 1) /\ d = dropped
            BY <1>3, <1>11, <1>12, <1>13, <2>1
        <3>2. n + 1 \in 0 .. MaxSerial /\ n + 1 \notin Locked(gops)
            BY <1>3, <1>7, <1>9
        <3>3. GopList(q, n + 1, M) /\ Locked(q) = Locked(gops) \cup {n + 1}
            BY <1>3, <1>5, <1>8, <3>1, <3>2, FollowList
        <3>4. Locks(q, h, dropped)
            BY <1>3, <1>5, <1>8, <3>1, <3>2, FollowLocks
        <3> QED
            BY <1>3, <1>10, <2>1, <3>1, <3>3, <3>4
    <2>2. CASE l.ret # "OK"
        <3>1. c = UnlockGop(theCache, gops[g].start, gops[g].end) /\ q = RemoveAt(gops, g) /\ d = TRUE
            BY <1>10, <1>11, <1>12, <1>13, <2>2
        <3>2. GopList(q, n, M) /\ Locked(q) = Locked(gops) \ Span(gops[g])
            BY <1>5, <1>8, <3>1, RemoveList
        <3>3. Locks(q, h, TRUE)
            BY <1>1, <1>5, <1>8, <3>1, DropLocks
        <3>4. Sound(c) /\ Serials(c) = Locked(gops) \ Span(gops[g])
            <4>1. n <= cur_serial
                BY <1>1, <1>2
            <4> QED
                BY <1>1, <1>3, <1>5, <1>8, <3>1, <4>1, UnlockGopList
        <3>5. n \notin Locked(q)
            BY <1>5, <3>2
        <3>6. GopList(q, n + 1, M) /\ n + 1 \notin Locked(q)
            BY <1>3, <3>2, <3>5, PassList
        <3> QED
            BY <1>3, <2>2, <3>1, <3>2, <3>3, <3>4, <3>6
    <2> QED
        BY <2>1, <2>2
<1>16. FInv' /\ Dense' /\ InMemory' = InMemory /\ job' = job /\ cur_serial' = cur_serial
    BY <1>1, <1>14, Kept
<1>17. c = theCache'
    <2>1. c = [cache |-> c.cache, free |-> c.free]
        BY <1>15, SoundIs
    <2> QED
        BY <1>14, <2>1 DEF theCache
<1>18. PICK m : m = cur_serial
    OBVIOUS
<1>19. /\ m = (IF written' THEN cur_serial' - 1 ELSE cur_serial')
       /\ M = InMemory' /\ h = held' /\ q = gops' /\ d = dropped'
       /\ written' \in BOOLEAN /\ ~ written'
       /\ lockNewFrame' \in BOOLEAN
    BY <1>6, <1>14, <1>16, <1>18
<1>20. /\ GopList(q, m, M) /\ (lockNewFrame' <=> m \in Locked(q))
    BY <1>14, <1>15, <1>18
<1> QED
    BY <1>15, <1>16, <1>17, <1>19, <1>20, Assemble

\* or not.
LEMMA PassStep ==
    ASSUME GInv, PostProcess, ~ lockNewFrame \/ frame[cur_frame].type # "P"
    PROVE  GInv'
<1>1. /\ FInv /\ Dense /\ job = NoJob /\ written /\ cur_serial \in Int /\ cur_serial >= 0
      /\ Newest = cur_serial - 1
      /\ Sound(theCache) /\ Serials(theCache) = Locked(gops)
      /\ GopList(gops, Newest, InMemory) /\ (lockNewFrame <=> Newest \in Locked(gops))
      /\ Locks(gops, held, dropped)
    BY MaxSerialAssumption DEF GInv, PostProcess, Newest, FInv, TypeOK
<1>2. PICK c, q, n, m, M, h, d :
          /\ c = theCache /\ q = gops /\ n = cur_serial - 1 /\ m = cur_serial
          /\ M = InMemory /\ h = held /\ d = dropped
    OBVIOUS
<1>3. n \in Int /\ n + 1 = m /\ n = Newest
    BY <1>1, <1>2
<1>4. /\ c = theCache' /\ q = gops' /\ d = dropped' /\ h = held' /\ lockNewFrame' = FALSE
      /\ written' = FALSE /\ UNCHANGED vars
    <2>1. /\ UNCHANGED <<cache, blkFree, gops, dropped>> /\ lockNewFrame' = FALSE
          /\ UNCHANGED <<vars, held>> /\ written' = FALSE
        <3>1. CASE lockNewFrame
            BY <3>1 DEF PostProcess
        <3>2. CASE ~ lockNewFrame
            BY <3>2 DEF PostProcess, GInv
        <3> QED
            BY <3>1, <3>2
    <2> QED
        BY <1>2, <2>1 DEF theCache
<1>5. FInv' /\ Dense' /\ InMemory' = InMemory /\ job' = job /\ cur_serial' = cur_serial
    BY <1>1, <1>4, Kept
<1>6. n \in Locked(q) => M[n + 1] = "I"
    <2> SUFFICES ASSUME n \in Locked(q) PROVE M[n + 1] = "I"
        OBVIOUS
    <2>1. frame[cur_frame].type # "P"
        BY <1>1, <1>2, <1>3
    <2>2. M[m] # "P" /\ m \in DOMAIN M
        BY <1>1, <1>2, <2>1, LastWritten
    <2>3. M[m] \in Types
        BY <1>1, <1>2, <2>2 DEF Dense
    <2> QED
        BY <1>3, <2>2, <2>3 DEF Types
<1>7. GopList(q, m, M) /\ m \notin Locked(q)
    <2>1. GopList(q, n, M)
        BY <1>1, <1>2, <1>3
    <2>2. GopList(q, n + 1, M) /\ n + 1 \notin Locked(q)
        BY <1>3, <1>6, <2>1, PassList
    <2> QED
        BY <1>3, <2>2
<1>8. Sound(c) /\ Serials(c) = Locked(q) /\ Locks(q, h, d)
    BY <1>1, <1>2
<1>9. /\ m = (IF written' THEN cur_serial' - 1 ELSE cur_serial') /\ M = InMemory'
      /\ written' \in BOOLEAN /\ ~ written' /\ lockNewFrame' \in BOOLEAN
      /\ (lockNewFrame' <=> m \in Locked(q))
    BY <1>2, <1>4, <1>5, <1>7
<1> QED
    BY <1>4, <1>5, <1>7, <1>8, <1>9, Assemble

LEMMA GStep == GInv /\ [GNext]_allVars => GInv'
<1> SUFFICES ASSUME GInv, [GNext]_allVars PROVE GInv'
    OBVIOUS
<1>1. CASE UNCHANGED allVars
    <2>1. UNCHANGED vars /\ UNCHANGED <<cache, blkFree, gops, lockNewFrame, held, dropped, written>>
        BY <1>1 DEF allVars, gopVars
    <2>2. FInv' /\ Dense' /\ InMemory' = InMemory /\ job' = job /\ cur_serial' = cur_serial
        BY <2>1, Kept DEF GInv
    <2>3. PICK c, q, n, M, h, d :
              /\ c = theCache /\ q = gops /\ n = Newest
              /\ M = InMemory /\ h = held /\ d = dropped
        OBVIOUS
    <2>4. /\ c = theCache' /\ q = gops' /\ M = InMemory' /\ h = held' /\ d = dropped'
          /\ n = (IF written' THEN cur_serial' - 1 ELSE cur_serial')
        BY <2>1, <2>2, <2>3 DEF theCache, Newest
    <2>5. /\ Sound(c) /\ Serials(c) = Locked(q) /\ GopList(q, n, M) /\ Locks(q, h, d)
          /\ lockNewFrame' \in BOOLEAN /\ (lockNewFrame' <=> n \in Locked(q))
          /\ written' \in BOOLEAN /\ (written' => job' = NoJob /\ cur_serial' >= 0)
        BY <2>1, <2>2, <2>3 DEF GInv
    <2> QED
        BY <2>2, <2>4, <2>5, Assemble
<1>2. CASE \E blks \in 1 .. BlkNum, type \in Types : StreamWrite(blks, type)
    BY <1>2, StreamWriteStep
<1>3. CASE WriteLoop
    BY <1>3, WriteLoopStep
<1>4. CASE PostProcess
    BY <1>4, FollowStep, PassStep
<1>5. ASSUME NEW r \in Readers, GetAndLockIFrame(r) \/ LockFrame(r) \/ UnlockFrame(r)
      PROVE  GInv'
    BY <1>5, GetAndLockIFrameStep, LockFrameStep, UnlockFrameStep
<1> QED
    BY <1>1, <1>2, <1>3, <1>4, <1>5 DEF GNext

\* Whatever the encoder writes and the readers lock and unlock, through every
\* path of gop_lock.c and cache_mng.c: the frames in the cache are those of
\* the locked GOPs, which are disjoint runs from an I frame to before the
\* next, and their locks are the readers'.
THEOREM StreamInvariant == GSpec => []GInv
BY GInitially, GStep, PTL DEF GSpec

-----------------------------------------------------------------------------
(* What follows from it.                                                   *)

\* Indices, counts, serials and locks stay in range.
THEOREM StreamTypes == GSpec => []GTypeOK
<1>1. GInv => GTypeOK
    <2> SUFFICES ASSUME GInv PROVE GTypeOK
        OBVIOUS
    <2>1. TypeOK /\ lockNewFrame \in BOOLEAN /\ written \in BOOLEAN
        BY DEF GInv, FInv
    <2>2. PICK c, N : c = theCache /\ N = Cardinality(Readers) * MaxHeld
        OBVIOUS
    <2>3. c.cache = cache /\ c.free = blkFree /\ Sound(c) /\ Serials(c) = Locked(gops)
        BY <2>2 DEF theCache, GInv
    <2>4. gops \in Seq(Gop) /\ HeldOK(held) /\ dropped \in BOOLEAN
          /\ \A g \in DOMAIN gops : gops[g].lock <= Cardinality(Holds(held, Span(gops[g])))
        BY DEF GInv, GopList, Locks
    <2>5. N \in Nat
        BY <2>2, ReadersAssumption, MaxHeldAssumption, FS_CardinalityType
    <2>6. \A g \in DOMAIN gops : gops[g].lock \in 1 .. N
        <3> SUFFICES ASSUME NEW g \in DOMAIN gops PROVE gops[g].lock \in 1 .. N
            OBVIOUS
        <3>1. gops[g].lock \in Nat /\ gops[g].lock >= 1
            BY <2>4, ListFields
        <3>2. gops[g].lock <= Cardinality(Holds(held, Span(gops[g])))
            BY <2>4
        <3>3. PICK n : n = Cardinality(Holds(held, Span(gops[g])))
            OBVIOUS
        <3>4. n \in Nat /\ n <= N
            BY <2>2, <3>3, HoldsFinite
        <3> QED
            BY <2>5, <3>1, <3>2, <3>3, <3>4
    <2>7. \A g \in DOMAIN gops :
              gops[g] \in [start : 0 .. MaxSerial, end : 0 .. MaxSerial, lock : 1 .. N]
        BY <2>4, <2>6, ListFields DEF Gop
    <2>8. \A i \in Taken(c) : 1 \in 1 .. N
        <3> SUFFICES ASSUME NEW i \in Taken(c) PROVE 1 \in 1 .. N
            OBVIOUS
        <3>1. c.cache[i].serial \in Locked(gops)
            BY <2>3 DEF Serials
        <3>2. PICK g \in DOMAIN gops : c.cache[i].serial \in Span(gops[g])
            BY <3>1, InLocked
        <3> QED
            BY <2>5, <2>6
    <2>9. cache \in [CacheIdx -> {EmptyCache} \cup
              [serial : 0 .. MaxSerial, type : Types, blkindex : CacheIdx,
               blks : 1 .. CacheNum, cnt : 1 .. N]]
        <3>1. cache \in [CacheIdx -> {EmptyCache} \cup CachedFrames]
            BY <2>3, SoundIs
        <3>2. ASSUME NEW i \in CacheIdx
              PROVE  cache[i] \in {EmptyCache} \cup
                         [serial : 0 .. MaxSerial, type : Types, blkindex : CacheIdx,
                          blks : 1 .. CacheNum, cnt : 1 .. N]
            <4>1. CASE cache[i] = EmptyCache
                BY <4>1
            <4>2. CASE cache[i] # EmptyCache
                <5>1. cache[i] \in CachedFrames
                    BY <3>1, <4>2
                <5>2. i \in Taken(c)
                    BY <2>3, <5>1 DEF Taken, CachedFrames, Types
                <5>3. 1 \in 1 .. N
                    BY <2>8, <5>2
                <5> QED
                    BY <5>1, <5>3 DEF CachedFrames
            <4> QED
                BY <4>1, <4>2
        <3> QED
            BY <3>1, <3>2
    <2>10. blkFree \in [CacheIdx -> BOOLEAN]
        BY <2>3, SoundIs
    <2>11. \A r \in Readers : held[r] \in Seq(0 .. MaxSerial) /\ Len(held[r]) <= MaxHeld
        BY <2>4 DEF HeldOK
    <2> QED
        BY <2>1, <2>2, <2>4, <2>7, <2>9, <2>10, <2>11 DEF GTypeOK
<1> QED
    BY <1>1, StreamInvariant, PTL

\* The blocks of the cache are those of the cached frames, each of one frame:
\* SetBlks and FreeBlksAt never overlap nor leak.
THEOREM CacheBlocksOwned == GSpec => []CacheOwned
<1>1. GInv => CacheOwned
    <2> SUFFICES ASSUME GInv PROVE CacheOwned
        OBVIOUS
    <2>1. PICK c : c = theCache
        OBVIOUS
    <2>2. c.cache = cache /\ c.free = blkFree /\ Sound(c)
        BY <2>1 DEF theCache, GInv
    <2>3. InUse = Taken(c) /\ \A i \in InUse : CacheBlks(i) = BlksIn(c, i)
        BY <2>2 DEF InUse, Taken, CacheBlks, BlksIn
    <2>4. \A i, j \in InUse : i # j => CacheBlks(i) \cap CacheBlks(j) = {}
        BY <2>2, <2>3 DEF Sound
    <2>5. \A b \in CacheIdx : blkFree[b] <=> \A i \in InUse : b \notin CacheBlks(i)
        BY <2>2, <2>3 DEF Sound
    <2>6. \A i \in InUse : CacheBlks(i) \subseteq CacheIdx
        BY <2>2, <2>3 DEF Sound
    <2>7. {b \in CacheIdx : ~ blkFree[b]} = UNION {CacheBlks(i) : i \in InUse}
        BY <2>5, <2>6
    <2> QED
        BY <2>4, <2>7 DEF CacheOwned
<1> QED
    BY <1>1, StreamInvariant, PTL

\* A frame is in the cache exactly while a locked GOP has it, once, with the
\* count that UnlockGop will take away: neither a failed LockGop nor a GOP
\* that LockCurrentGopP followed leaves a frame behind.
THEOREM CacheHasTheGops == GSpec => []CacheIsTheGops
<1>1. GInv => CacheIsTheGops
    <2> SUFFICES ASSUME GInv PROVE CacheIsTheGops
        OBVIOUS
    <2>1. PICK c : c = theCache
        OBVIOUS
    <2>2. c.cache = cache /\ Sound(c) /\ Serials(c) = Locked(gops)
        BY <2>1 DEF theCache, GInv
    <2>3. InUse = Taken(c)
        BY <2>2 DEF InUse, Taken
    <2>4. \A g \in DOMAIN gops, s \in 0 .. MaxSerial :
              s \in gops[g].start .. gops[g].end => \E i \in InUse : cache[i].serial = s
        <3> SUFFICES ASSUME NEW g \in DOMAIN gops, NEW s \in gops[g].start .. gops[g].end
                     PROVE  \E i \in InUse : cache[i].serial = s
            OBVIOUS
        <3>1. s \in Serials(c)
            BY <2>2 DEF Locked, Span
        <3> QED
            BY <2>2, <2>3, <3>1 DEF Serials
    <2>5. ASSUME NEW i \in InUse
          PROVE  cache[i].cnt = Cardinality({g \in DOMAIN gops :
                                    cache[i].serial \in gops[g].start .. gops[g].end})
        <3>1. PICK s, T : s = cache[i].serial /\ T = {g \in DOMAIN gops : s \in Span(gops[g])}
            OBVIOUS
        <3>2. s \in Locked(gops)
            BY <2>2, <2>3, <2>5, <3>1 DEF Serials
        <3>3. PICK g \in DOMAIN gops : s \in Span(gops[g])
            BY <3>2, InLocked
        <3>4. \A k \in DOMAIN gops : k # g => s \notin Span(gops[k])
            BY <3>3 DEF GInv, GopList
        <3>5. T = {g}
            BY <3>1, <3>3, <3>4
        <3>6. cache[i].cnt = 1
            BY <2>2, <2>3, TakenFields
        <3>7. Cardinality(T) = 1
            BY <3>5, FS_Singleton
        <3> QED
            BY <3>1, <3>6, <3>7 DEF Span
    <2>6. \A i, j \in InUse : cache[i].serial = cache[j].serial => i = j
        BY <2>2, <2>3 DEF Sound
    <2> QED
        BY <2>4, <2>5, <2>6 DEF CacheIsTheGops
<1> QED
    BY <1>1, StreamInvariant, PTL

\* lockNewFrame tells stream_write the truth: the newest frame is in a locked
\* GOP exactly when it is set.
THEOREM FollowsTheLive == GSpec => []FollowsTheLiveGop
<1>1. GInv => FollowsTheLiveGop
    <2> SUFFICES ASSUME GInv, ~ Writing PROVE lockNewFrame <=> FindGop(cur_serial) # 0
        BY DEF FollowsTheLiveGop
    <2>1. /\ lockNewFrame <=> cur_serial \in Locked(gops)
          /\ gops \in Seq(Gop) /\ cur_serial \in Int
        BY Idle
    <2> QED
        BY <2>1, FoundGop
<1> QED
    BY <1>1, StreamInvariant, PTL

\* No GOP is locked more often than readers hold frames of it, and none less
\* unless stream_write took it away.
THEOREM LocksHeld == GSpec => []LocksAreHeld
<1>1. GInv => LocksAreHeld
    BY DEF GInv, Locks, LocksAreHeld, Holds, Span
<1> QED
    BY <1>1, StreamInvariant, PTL

\* A frame that a reader has locked stays in the cache until the reader
\* unlocks it, unless stream_write had no room to follow its GOP.
THEOREM HeldStays == GSpec => []HeldUnlessDropped
<1>1. GInv => HeldUnlessDropped
    <2> SUFFICES ASSUME GInv, ~ dropped, NEW r \in Readers, NEW k \in DOMAIN held[r]
                 PROVE  \E i \in InUse : cache[i].serial = held[r][k]
        BY DEF HeldUnlessDropped, HeldIsCached
    <2>1. PICK c : c = theCache
        OBVIOUS
    <2>2. c.cache = cache /\ Serials(c) = Locked(gops)
        BY <2>1 DEF theCache, GInv
    <2>3. held[r][k] \in Locked(gops)
        BY DEF GInv, Locks, HeldIn
    <2>4. held[r][k] \in Serials(c)
        BY <2>2, <2>3
    <2> QED
        BY <2>2, <2>4 DEF Serials, InUse, Taken
<1> QED
    BY <1>1, StreamInvariant, PTL

\* The stream moves its frame memory only by the steps of MemMng, so that all
\* that is proved of the memory holds of the stream's,
THEOREM StreamUsesMemory == GSpec => Spec
<1>1. GInit => Init
    BY DEF GInit
<1>2. [GNext]_allVars => [Next]_vars
    <2> SUFFICES ASSUME [GNext]_allVars PROVE [Next]_vars
        OBVIOUS
    <2>1. CASE UNCHANGED allVars
        BY <2>1 DEF allVars
    <2>2. ASSUME NEW blks \in 1 .. BlkNum, NEW type \in Types, StreamWrite(blks, type)
          PROVE  Next
        BY <2>2 DEF StreamWrite, Next
    <2>3. CASE WriteLoop
        BY <2>3 DEF WriteLoop, Next
    <2>4. CASE PostProcess
        BY <2>4 DEF PostProcess
    <2>5. ASSUME NEW r \in Readers, GetAndLockIFrame(r) \/ LockFrame(r) \/ UnlockFrame(r)
          PROVE  UNCHANGED vars
        BY <2>5 DEF GetAndLockIFrame, LockFrame, UnlockFrame, Answer
    <2> QED
        BY <2>1, <2>2, <2>3, <2>4, <2>5 DEF GNext
<1> QED
    BY <1>1, <1>2, PTL DEF GSpec, Spec

\* and a reader that looks a frame up while the encoder is not writing finds
\* that frame, if it is in the memory, and otherwise nothing.
THEOREM StreamLooksUp == GSpec => []LookupFinds
BY StreamUsesMemory, LookupsFind
=============================================================================
