---------------------------- MODULE SurvivalProofs ----------------------------
(***************************************************************************)
(* What a process has found in its RAM cache survives there, for any        *)
(* processes, paths, limits and clocks, and whenever sources are edited.    *)
(***************************************************************************)
EXTENDS CacheSurvival, CacheProofs

\* An item of a was last found in RAM no later than it says itself.  When the
\* file is read for another item, it is gone or younger than that.
HitOK(p, a) ==
  /\ hit[p][a] <= clock
  /\ mem[p][a] = NoItem => hit[p][a] = 0
  /\ mem[p][a] # NoItem =>
       /\ hit[p][a] <= mem[p][a].used
       /\ file[a].mtime > mem[p][a].change => hit[p][a] <= file[a].mtime
       /\ (pc[p] \in {"read", "save"} /\ path[p] = a /\ file[a].present) =>
            hit[p][a] <= file[a].mtime
  /\ (pc[p] \in {"disk", "load"} /\ path[p] = a) => mem[p][a] = NoItem

Inv ==
  /\ TypeOK
  /\ hit \in [Procs -> [Paths -> Nat]]
  /\ FilesSound
  /\ \A p \in Procs, a \in Paths : HitOK(p, a)

-----------------------------------------------------------------------------
LEMMA SurvivalInitInv == SurvivalInit => Inv
<1> SUFFICES ASSUME SurvivalInit PROVE Inv
  OBVIOUS
<1>1. TypeOK
  BY DEF SurvivalInit, Init, TypeOK, PC, EmptyCache
<1>2. hit \in [Procs -> [Paths -> Nat]] /\ \A p \in Procs, a \in Paths : hit[p][a] = 0
  BY DEF SurvivalInit, Never
<1>3. /\ \A p \in Procs : pc[p] = "idle"
      /\ \A p \in Procs, a \in Paths : mem[p][a] = NoItem
      /\ clock = 1 /\ \A a \in Paths : file[a].mtime = 1
  BY DEF SurvivalInit, Init, EmptyCache
<1>4. FilesSound /\ \A p \in Procs, a \in Paths : HitOK(p, a)
  BY <1>2, <1>3 DEF FilesSound, HitOK
<1> QED
  BY <1>1, <1>2, <1>4 DEF Inv

\* The history after a step, and the types.
LEMMA Recorded ==
  ASSUME Inv, SurvivalNext
  PROVE  /\ TypeOK'
         /\ hit' \in [Procs -> [Paths -> Nat]]
         /\ \A p \in Procs, a \in Paths :
              hit'[p][a] = IF mem'[p][a] = NoItem THEN 0
                           ELSE IF FoundInRam(p) /\ path[p] = a THEN clock
                           ELSE hit[p][a]
<1>1. TypeOK'
  BY TypeStep DEF Inv, SurvivalNext
<1>2. hit' = Record
  BY DEF SurvivalNext
<1> QED
  BY <1>1, <1>2 DEF Inv, TypeOK, Record

\* A process finds nothing in RAM and goes on in load_module, reads, or writes
\* its pickle; or it is called or returns.
LEMMA OtherStep ==
  ASSUME Inv, SurvivalNext, NEW p \in Procs,
         \/ StatMissing(p) \/ MemoryOutdated(p) \/ MemoryMiss(p) \/ DiskStat(p)
         \/ LoadTorn(p) \/ LoadDeleted(p) \/ ReadSource(p) \/ ReadMissing(p)
         \/ OpenPickle(p) \/ OpenDenied(p) \/ WritePickle(p) \/ CallFails(p) \/ Return(p)
         \/ \E a \in Paths : Call(p, a)
  PROVE  Inv'
<1>1. /\ UNCHANGED <<clock, file, mem>>
      /\ \A q \in Procs \ {p} : pc'[q] = pc[q] /\ path'[q] = path[q]
      /\ ~(pc[p] = "stat" /\ pc'[p] = "return")
  BY DEF Inv, TypeOK, PC, StatMissing, MemoryOutdated, MemoryMiss, DiskStat, LoadTorn, LoadDeleted,
         ReadSource, ReadMissing, OpenPickle, OpenDenied, WritePickle, CallFails, Return, Call, Goto
<1>2. \A q \in Procs, a \in Paths : hit'[q][a] = hit[q][a]
  BY <1>1, Recorded DEF Inv, HitOK, FoundInRam
<1>3. /\ (pc'[p] \in {"read", "save"} =>
            \/ pc[p] \in {"read", "save"} /\ path'[p] = path[p]
            \/ pc[p] \in {"disk", "load"} /\ path'[p] = path[p]
            \/ path'[p] = path[p] /\ path[p] \in Paths /\ ~file[path[p]].present
            \/ path'[p] = path[p] /\ path[p] \in Paths /\ file[path[p]].mtime > mem[p][path[p]].change)
      /\ (pc'[p] \in {"disk", "load"} =>
            \/ pc[p] \in {"disk", "load"} /\ path'[p] = path[p]
            \/ path'[p] = path[p] /\ mem[p][path[p]] = NoItem)
  BY DEF Inv, TypeOK, PC, StatMissing, MemoryOutdated, MemoryMiss, DiskStat, LoadTorn, LoadDeleted,
         ReadSource, ReadMissing, OpenPickle, OpenDenied, WritePickle, CallFails, Return, Call, Goto,
         SourceFile, Cached
<1>4. ASSUME NEW q \in Procs, NEW a \in Paths PROVE HitOK(q, a)'
  <2>1. HitOK(q, a) /\ hit'[q][a] = hit[q][a]
    BY <1>2 DEF Inv
  <2>2. CASE q # p
    BY <1>1, <2>1, <2>2 DEF HitOK
  <2>3. CASE q = p
    BY <1>1, <1>3, <2>1, <2>3 DEF HitOK
  <2> QED
    BY <2>2, <2>3
<1> QED
  BY <1>1, <1>4, Recorded DEF Inv, FilesSound

LEMMA MemoryHitStep ==
  ASSUME Inv, SurvivalNext, NEW p \in Procs, MemoryHit(p)
  PROVE  Inv'
<1> DEFINE b == path[p]
<1>1. /\ UNCHANGED <<clock, file, path>> /\ b \in Paths /\ mem[p][b] # NoItem
      /\ pc[p] = "stat" /\ pc'[p] = "return" /\ \A q \in Procs \ {p} : pc'[q] = pc[q]
      /\ file[b].mtime <= mem[p][b].change
  BY DEF Inv, TypeOK, PC, MemoryHit, Answer, Goto, SourceFile, Cached
<1>2. mem[p][b] \in Item
  BY <1>1 DEF Inv, TypeOK
<1>3. /\ mem' = [mem EXCEPT ![p] = [mem[p] EXCEPT ![b] = [mem[p][b] EXCEPT !.used = clock]]]
  BY DEF MemoryHit
<1>4. /\ mem'[p][b] = [mem[p][b] EXCEPT !.used = clock]
      /\ \A a \in Paths \ {b} : mem'[p][a] = mem[p][a]
      /\ \A q \in Procs \ {p} : mem'[q] = mem[q]
  BY <1>1, <1>3 DEF Inv, TypeOK
<1>5. mem'[p][b] \in Item /\ mem'[p][b].used = clock /\ mem'[p][b].change = mem[p][b].change
  BY <1>2, <1>4 DEF Inv, TypeOK, Item
<1> HIDE DEF b
<1>6. ASSUME NEW q \in Procs, NEW a \in Paths PROVE HitOK(q, a)'
  <2>1. HitOK(q, a) /\ clock \in Nat
    BY DEF Inv, TypeOK
  <2>2. CASE q # p
    <3>1. mem'[q][a] = mem[q][a] /\ hit'[q][a] = hit[q][a]
      BY <1>1, <1>4, <2>1, <2>2, Recorded DEF HitOK, FoundInRam
    <3> QED
      BY <1>1, <2>1, <2>2, <3>1 DEF HitOK
  <2>3. CASE q = p /\ a # b
    <3>1. mem'[q][a] = mem[q][a] /\ hit'[q][a] = hit[q][a]
      BY <1>1, <1>4, <2>1, <2>3, Recorded DEF HitOK, FoundInRam, b
    <3> QED
      BY <1>1, <2>1, <2>3, <3>1 DEF HitOK
  <2>4. CASE q = p /\ a = b
    <3>1. mem'[p][b] # NoItem
      BY <1>5, SentinelAssumption
    <3>2. hit'[p][b] = clock
      BY <1>1, <3>1, Recorded DEF FoundInRam, b
    <3>3. file[b].mtime \in Nat /\ mem[p][b].change \in Nat
      BY <1>1, <1>2 DEF Inv, TypeOK, Item
    <3> QED
      BY <1>1, <1>5, <2>1, <2>4, <3>1, <3>2, <3>3 DEF HitOK
  <2> QED
    BY <2>2, <2>3, <2>4
<1> QED
  BY <1>1, <1>6, Recorded DEF Inv, FilesSound

\* _set_cache_item throws away only what was last used long ago.
LEMMA Thrown ==
  ASSUME TypeOK, NEW p \in Procs, NEW item, path[p] \in Paths, SetCacheItem(p, item),
         NEW a \in Paths, a # path[p], mem[p][a] # NoItem, mem'[p][a] = NoItem
  PROVE  mem[p][a].used <= clock - Survival
<1> DEFINE items == mem[p]
           full == Cardinality({b \in Paths : items[b] # NoItem}) >= SizeTrigger
           kept == IF full THEN Collected(items) ELSE items
<1>1. mem' = [mem EXCEPT ![p] = [kept EXCEPT ![path[p]] = item]] /\ mem \in [Procs -> [Paths -> Item \cup {NoItem}]]
  BY DEF SetCacheItem, TypeOK
<1>2. kept \in [Paths -> Item \cup {NoItem}]
  BY <1>1 DEF Collected
<1> HIDE DEF full
<1>3. mem'[p][a] = kept[a]
  <2> HIDE DEF kept
  <2> QED
    BY <1>1, <1>2
<1>4. Collected(items)[a] = IF items[a] # NoItem /\ items[a].used <= clock - Survival
                            THEN NoItem ELSE items[a]
  BY DEF Collected
<1> QED
  BY <1>3, <1>4

\* The facts about a step that puts an item of path[p] into RAM.
LEMMA PutStep ==
  ASSUME Inv, SurvivalNext, NEW p \in Procs, NEW item \in Item, path[p] \in Paths,
         SetCacheItem(p, item), UNCHANGED <<clock, file, path>>,
         pc[p] \in {"load", "save"}, pc'[p] \in {"return", "open"},
         \A q \in Procs \ {p} : pc'[q] = pc[q],
         hit[p][path[p]] <= item.used,
         file[path[p]].mtime > item.change => hit[p][path[p]] <= file[path[p]].mtime
  PROVE  Inv'
<1>1. /\ \A q \in Procs : q # p => mem'[q] = mem[q]
      /\ \A a \in Paths : a # path[p] => mem'[p][a] \in {mem[p][a], NoItem}
      /\ mem'[p][path[p]] = item
  BY SetCacheItemSlots DEF Inv
<1>2. item # NoItem
  BY SentinelAssumption
<1>3. ASSUME NEW q \in Procs, NEW a \in Paths PROVE HitOK(q, a)'
  <2>1. HitOK(q, a) /\ clock \in Nat /\ hit[q][a] \in Nat
    BY DEF Inv, TypeOK
  <2>2. hit'[q][a] = IF mem'[q][a] = NoItem THEN 0 ELSE hit[q][a]
    BY <2>1, Recorded DEF FoundInRam
  <2>3. CASE q # p
    BY <1>1, <2>1, <2>2, <2>3 DEF HitOK
  <2>4. CASE q = p /\ a # path[p]
    BY <1>1, <2>1, <2>2, <2>4 DEF HitOK
  <2>5. CASE q = p /\ a = path[p]
    BY <1>1, <1>2, <2>1, <2>2, <2>5 DEF HitOK
  <2> QED
    BY <2>3, <2>4, <2>5
<1> QED
  BY <1>3, Recorded DEF Inv, FilesSound

LEMMA LoadPickleStep ==
  ASSUME Inv, SurvivalNext, NEW p \in Procs, LoadPickle(p)
  PROVE  Inv'
<1> DEFINE item == PickleOf(p).content
<1>1. path[p] \in Paths /\ pc[p] = "load"
  BY DEF Inv, TypeOK, LoadPickle
<1>2. item \in Item
  BY <1>1 DEF Inv, TypeOK, Pickle, LoadPickle, PickleOf
<1>3. /\ SetCacheItem(p, item) /\ UNCHANGED <<clock, file, path>>
      /\ pc'[p] = "return" /\ \A q \in Procs \ {p} : pc'[q] = pc[q]
  BY DEF Inv, TypeOK, LoadPickle, Answer, Goto
<1>4. hit[p][path[p]] = 0
  BY <1>1 DEF Inv, HitOK
<1>5. item.used \in Nat /\ item.change \in Nat /\ file[path[p]].mtime \in Nat
  BY <1>1, <1>2 DEF Inv, TypeOK, Item
<1> HIDE DEF item
<1> QED
  BY <1>1, <1>2, <1>3, <1>4, <1>5, PutStep

\* A save after a hit: the file was changed since, or its time cannot be read.
LEMMA SaveStep ==
  ASSUME Inv, SurvivalNext, NEW p \in Procs, SaveItem(p) \/ SaveItemInRam(p)
  PROVE  Inv'
<1>1. path[p] \in Paths /\ pc[p] = "save"
  BY DEF Inv, TypeOK, SaveItem, SaveItemInRam
<1>2. /\ UNCHANGED <<clock, file, path>>
      /\ pc'[p] \in {"open", "return"} /\ \A q \in Procs \ {p} : pc'[q] = pc[q]
  BY DEF Inv, TypeOK, SaveItem, SaveItemInRam, Goto
<1>3. /\ ChangeTime(p) \in Nat /\ clock \in Nat /\ hit[p][path[p]] \in Nat /\ got[p] \in Nat
      /\ file[path[p]].mtime \in Nat
  BY <1>1 DEF Inv, TypeOK, ChangeTime, SourceFile
<1>4. PICK item \in Item :
        SetCacheItem(p, item) /\ item.used = item.change /\ item.change \in {ChangeTime(p), clock}
  BY <1>3 DEF Item, SaveItem, SaveItemInRam
<1>5. /\ hit[p][path[p]] <= ChangeTime(p) /\ file[path[p]].mtime <= ChangeTime(p)
      /\ hit[p][path[p]] <= clock /\ file[path[p]].mtime <= clock
  BY <1>1, <1>3 DEF Inv, HitOK, FilesSound, ChangeTime, SourceFile
<1> QED
  BY <1>1, <1>2, <1>3, <1>4, <1>5, PutStep

\* A process starts anew, with nothing in RAM.
LEMMA EmptyStep ==
  ASSUME Inv, SurvivalNext, NEW p \in Procs, ClearCache(p) \/ Crash(p)
  PROVE  Inv'
<1>1. /\ UNCHANGED <<clock, file>> /\ pc'[p] = "idle"
      /\ \A q \in Procs \ {p} : pc'[q] = pc[q] /\ path'[q] = path[q] /\ mem'[q] = mem[q]
      /\ \A a \in Paths : mem'[p][a] = NoItem
  <2>1. /\ UNCHANGED <<clock, file>> /\ pc \in [Procs -> PC]
        /\ mem' = [mem EXCEPT ![p] = EmptyCache] /\ mem \in [Procs -> [Paths -> Item \cup {NoItem}]]
        /\ \/ UNCHANGED <<pc, path>> /\ pc[p] = "idle"
           \/ pc' = [pc EXCEPT ![p] = "idle"] /\ path' = [path EXCEPT ![p] = NoPath]
    BY DEF Inv, TypeOK, ClearCache, Crash
  <2>2. \A q \in Procs \ {p} : pc'[q] = pc[q] /\ path'[q] = path[q] /\ mem'[q] = mem[q]
    BY <2>1 DEF Inv, TypeOK
  <2>3. mem'[p] = EmptyCache /\ pc'[p] = "idle"
    BY <2>1
  <2> QED
    BY <2>1, <2>2, <2>3 DEF EmptyCache
<1>2. ASSUME NEW q \in Procs, NEW a \in Paths PROVE HitOK(q, a)'
  <2>1. HitOK(q, a) /\ clock \in Nat
    BY DEF Inv, TypeOK
  <2>2. hit'[q][a] = IF mem'[q][a] = NoItem THEN 0 ELSE hit[q][a]
    BY <1>1, <2>1, Recorded DEF FoundInRam
  <2> QED
    BY <1>1, <2>1, <2>2 DEF HitOK
<1> QED
  BY <1>1, <1>2, Recorded DEF Inv, FilesSound

LEMMA EditStep ==
  ASSUME Inv, SurvivalNext,
         Tick \/ \E a \in Paths : Modify(a) \/ Delete(a) \/ RemoveInactive(a)
  PROVE  Inv'
<1>1. /\ UNCHANGED <<mem, pc, path>> /\ clock \in Nat /\ clock' \in Nat /\ clock <= clock'
      /\ \A a \in Paths : \/ /\ file'[a].mtime = file[a].mtime
                             /\ file'[a].present => file[a].present
                          \/ file'[a].mtime = clock'
  <2>0. /\ clock \in Nat
        /\ file \in [Paths -> [version : Nat, mtime : Nat, present : BOOLEAN]]
    BY DEF Inv, TypeOK
  <2>1. CASE Tick \/ \E a \in Paths : RemoveInactive(a)
    BY <2>0, <2>1 DEF Tick, RemoveInactive
  <2>2. ASSUME NEW b \in Paths, Modify(b)
        PROVE  /\ UNCHANGED <<mem, pc, path>> /\ clock' = clock + 1 /\ file'[b].mtime = clock'
               /\ \A a \in Paths \ {b} : file'[a] = file[a]
    BY <2>0, <2>2 DEF Modify
  <2>3. ASSUME NEW b \in Paths, Delete(b)
        PROVE  /\ UNCHANGED <<mem, pc, path, clock>> /\ file'[b].mtime = file[b].mtime
               /\ file[b].present /\ \A a \in Paths \ {b} : file'[a] = file[a]
    BY <2>0, <2>3 DEF Delete
  <2>4. CASE \E a \in Paths : Modify(a)
    BY <2>0, <2>2, <2>4
  <2>5. CASE \E a \in Paths : Delete(a)
    <3>1. PICK b \in Paths : Delete(b)
      BY <2>5
    <3> QED
      BY <2>0, <2>3, <3>1
  <2> QED
    BY <2>1, <2>4, <2>5
<1>2. \A q \in Procs, a \in Paths : hit'[q][a] = hit[q][a]
  BY <1>1, Recorded DEF Inv, HitOK, FoundInRam
<1>3. ASSUME NEW a \in Paths PROVE file'[a].mtime <= clock' /\ file[a].mtime \in Nat
  <2>1. file[a].mtime \in Nat /\ file[a].mtime <= clock
    BY DEF Inv, TypeOK, FilesSound
  <2> QED
    BY <1>1, <2>1
<1>4. ASSUME NEW q \in Procs, NEW a \in Paths PROVE HitOK(q, a)'
  <2>1. HitOK(q, a) /\ hit[q][a] \in Nat /\ hit'[q][a] = hit[q][a]
    BY <1>2 DEF Inv
  <2>2. hit[q][a] <= clock'
    BY <1>1, <2>1 DEF HitOK
  <2> QED
    BY <1>1, <2>1, <2>2 DEF HitOK
<1> QED
  BY <1>3, <1>4, Recorded DEF Inv, FilesSound

LEMMA SurvivalStep == Inv /\ [SurvivalNext]_survivalVars => Inv'
<1> SUFFICES ASSUME Inv, [SurvivalNext]_survivalVars PROVE Inv'
  OBVIOUS
<1>1. CASE SurvivalNext
  BY <1>1, OtherStep, MemoryHitStep, LoadPickleStep, SaveStep, EmptyStep, EditStep
     DEF SurvivalNext, Next, ParseStep, LoadModule, TryToSaveModule
<1>2. CASE UNCHANGED survivalVars
  BY <1>2 DEF survivalVars, vars, Inv, TypeOK, FilesSound, HitOK
<1> QED
  BY <1>1, <1>2

\* Only a load and a save put an item into RAM.
LEMMA PutBy ==
  ASSUME Inv, SurvivalNext, NEW p \in Procs, PutInRam(p)
  PROVE  LoadPickle(p) \/ SaveItem(p) \/ SaveItemInRam(p)
<1>1. pc \in [Procs -> PC] /\ pc[p] \in {"load", "save"} /\ pc'[p] \in {"return", "open"}
  BY DEF Inv, TypeOK, PutInRam
<1>2. \A q \in Procs, a \in Paths : Call(q, a) => pc'[p] \in {"stat", pc[p]}
  BY <1>1 DEF Call, Goto
<1>3. \A q \in Procs : ParseStep(q) => q = p \/ pc'[p] = pc[p]
  BY <1>1 DEF ParseStep, LoadModule, TryToSaveModule, StatMissing, MemoryHit, MemoryOutdated,
     MemoryMiss, DiskStat, LoadPickle, LoadTorn, LoadDeleted, ReadSource, ReadMissing, SaveItem,
     SaveItemInRam,
     OpenPickle, OpenDenied, WritePickle, CallFails, Return, Goto, Answer
<1>4. \A q \in Procs : ClearCache(q) \/ Crash(q) => pc'[p] \in {"idle", pc[p]}
  BY <1>1 DEF ClearCache, Crash
<1>5. Tick \/ (\E a \in Paths : Modify(a) \/ Delete(a) \/ RemoveInactive(a)) => pc'[p] = pc[p]
  BY DEF Tick, Modify, Delete, RemoveInactive
<1>6. ParseStep(p)
  BY <1>1, <1>2, <1>3, <1>4, <1>5 DEF SurvivalNext, Next
<1> QED
  BY <1>1, <1>6 DEF ParseStep, LoadModule, TryToSaveModule, StatMissing, MemoryHit,
     MemoryOutdated, MemoryMiss, DiskStat, LoadTorn, LoadDeleted, ReadSource, ReadMissing,
     OpenPickle, OpenDenied, WritePickle, CallFails, Return, Goto, Answer

-----------------------------------------------------------------------------
\* The invariant that the next theorem rests on.
THEOREM SurvivalInvariant == SurvivalSpec => []Inv
<1> QED
  BY SurvivalInitInv, SurvivalStep, PTL DEF SurvivalSpec

\* Making room in RAM never takes what the process has found there less than
\* the minimum survival ago (_set_cache_item).
THEOREM HitsAreKept == SurvivalSpec => HitsSurvive
<1> DEFINE Kept == \A p \in Procs : \A a \in Evicted(p) : hit[p][a] <= clock - Survival
<1>1. ASSUME Inv, SurvivalNext PROVE Kept
  <2> SUFFICES ASSUME NEW p \in Procs, NEW a \in Evicted(p) PROVE hit[p][a] <= clock - Survival
    OBVIOUS
  <2>1. PutInRam(p) /\ a \in Paths /\ mem[p][a] # NoItem /\ mem'[p][a] = NoItem
    BY DEF Evicted
  <2>2. \E item \in Item : path[p] \in Paths /\ SetCacheItem(p, item)
    <3>1. LoadPickle(p) \/ SaveItem(p) \/ SaveItemInRam(p)
      BY <1>1, <2>1, PutBy
    <3>2. CASE LoadPickle(p)
      <4>1. path[p] \in Paths /\ PickleOf(p).content \in Item
        BY <1>1, <3>2 DEF Inv, TypeOK, Pickle, LoadPickle, PickleOf
      <4> QED
        BY <3>2, <4>1 DEF LoadPickle
    <3>3. CASE SaveItem(p) \/ SaveItemInRam(p)
      <4>1. path[p] \in Paths
        BY <1>1, <3>3 DEF Inv, TypeOK, SaveItem, SaveItemInRam
      <4>2. ChangeTime(p) \in Nat /\ clock \in Nat /\ got[p] \in Nat
        BY <1>1, <4>1 DEF Inv, TypeOK, ChangeTime, SourceFile
      <4> QED
        BY <3>3, <4>1, <4>2 DEF SaveItem, SaveItemInRam, Item
    <3> QED
      BY <3>1, <3>2, <3>3
  <2>3. PICK item \in Item : path[p] \in Paths /\ SetCacheItem(p, item)
    BY <2>2
  <2>4. a # path[p]
    BY <1>1, <2>1, <2>3, SetCacheItemSlots, SentinelAssumption DEF Inv
  <2>5. mem[p][a].used <= clock - Survival
    BY <1>1, <2>1, <2>3, <2>4, Thrown DEF Inv
  <2>6. hit[p][a] <= mem[p][a].used /\ hit[p][a] \in Nat /\ mem[p][a] \in Item
    BY <1>1, <2>1 DEF Inv, HitOK, TypeOK
  <2>7. mem[p][a].used \in Nat /\ clock - Survival \in Int
    BY <1>1, <2>6, CacheAssumption DEF Item, Inv, TypeOK
  <2> QED
    BY <2>5, <2>6, <2>7
<1>2. UNCHANGED survivalVars => Kept
  BY DEF survivalVars, vars, Evicted, PutInRam
<1> QED
  BY <1>1, <1>2, SurvivalInvariant, PTL DEF SurvivalSpec, HitsSurvive
=============================================================================
