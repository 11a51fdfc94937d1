----------------------------- MODULE CacheProofs -----------------------------
(***************************************************************************)
(* Proofs about Cache: types, and the freshness of what parse returns when  *)
(* files are left alone while they are being parsed.                        *)
(***************************************************************************)
EXTENDS Cache, TLAPS

\* Putting an item into RAM leaves every slot with an item of its type: an old
\* one, none, or the new one (_set_cache_item).
LEMMA SetCacheItemSlots ==
  ASSUME TypeOK, NEW p \in Procs, NEW item, path[p] \in Paths, SetCacheItem(p, item)
  PROVE  /\ mem' \in [Procs -> [Paths -> Item \cup {NoItem, item}]]
         /\ \A q \in Procs : q # p => mem'[q] = mem[q]
         /\ \A a \in Paths : a # path[p] => mem'[p][a] \in {mem[p][a], NoItem}
         /\ mem'[p][path[p]] = item
PROOF
<1> DEFINE items == mem[p]
           full == Cardinality({a \in Paths : items[a] # NoItem}) >= SizeTrigger
           kept == IF full THEN Collected(items) ELSE items
           new == [kept EXCEPT ![path[p]] = item]
<1>1. /\ mem \in [Procs -> [Paths -> Item \cup {NoItem}]]
      /\ mem' = [mem EXCEPT ![p] = new]
  BY DEF TypeOK, SetCacheItem
<1>2. items \in [Paths -> Item \cup {NoItem}]
  BY <1>1
<1>3. /\ kept \in [Paths -> Item \cup {NoItem}]
      /\ \A a \in Paths : kept[a] \in {items[a], NoItem}
  <2>1. CASE full
    <3> HIDE DEF items
    <3>1. /\ Collected(items) \in [Paths -> Item \cup {NoItem}]
          /\ \A a \in Paths : Collected(items)[a] \in {items[a], NoItem}
      BY <1>2 DEF Collected
    <3> QED BY <2>1, <3>1
  <2>2. CASE ~full
    BY <2>2, <1>2
  <2> QED BY <2>1, <2>2
<1> HIDE DEF kept
<1>4. /\ new \in [Paths -> Item \cup {NoItem, item}]
      /\ \A a \in Paths : a # path[p] => new[a] = kept[a]
      /\ new[path[p]] = item
  BY <1>3
<1> HIDE DEF new
<1>5. mem'[p] = new /\ \A q \in Procs : q # p => mem'[q] = mem[q]
  BY <1>1
<1>6. mem' \in [Procs -> [Paths -> Item \cup {NoItem, item}]]
  BY <1>1, <1>4
<1> QED BY <1>3, <1>4, <1>5, <1>6

-----------------------------------------------------------------------------
\* Every step keeps every variable in its type.
LEMMA TypeStep == TypeOK /\ [Next]_vars => TypeOK'
PROOF
<1> SUFFICES ASSUME TypeOK, [Next]_vars PROVE TypeOK'
  OBVIOUS
<1> USE CacheAssumption, SentinelAssumption
<1>1. ASSUME NEW p \in Procs, StatMissing(p) \/ MemoryOutdated(p) \/ LoadTorn(p)
                              \/ LoadDeleted(p) \/ ReadMissing(p) \/ OpenDenied(p)
      PROVE  TypeOK'
  BY <1>1 DEF TypeOK, PC, StatMissing, MemoryOutdated, LoadTorn, LoadDeleted, ReadMissing,
     OpenDenied, Goto
<1>2. ASSUME NEW p \in Procs, MemoryHit(p) PROVE TypeOK'
  <2>1. path[p] \in Paths /\ Cached(p) \in Item
    BY <1>2 DEF TypeOK, MemoryHit, Cached
  <2>2. [Cached(p) EXCEPT !.used = clock] \in Item /\ Cached(p).version \in Nat
    BY <2>1 DEF TypeOK, Item
  <2>3. mem' = [mem EXCEPT ![p] = [mem[p] EXCEPT ![path[p]] = [Cached(p) EXCEPT !.used = clock]]]
    BY <1>2 DEF MemoryHit, Cached
  <2>4. mem' \in [Procs -> [Paths -> Item \cup {NoItem}]]
    BY <2>1, <2>2, <2>3 DEF TypeOK
  <2>5. /\ pc' = [pc EXCEPT ![p] = "return"]
        /\ got' = [got EXCEPT ![p] = Cached(p).version]
        /\ UNCHANGED <<clock, file, disk, path, ptime, seen>>
    BY <1>2 DEF MemoryHit, Answer, Goto
  <2> QED BY <2>1, <2>2, <2>4, <2>5 DEF TypeOK, PC
<1>3. ASSUME NEW p \in Procs, MemoryMiss(p) PROVE TypeOK'
  BY <1>3 DEF TypeOK, PC, MemoryMiss, Goto, Cached, SourceFile
<1>4. ASSUME NEW p \in Procs, DiskStat(p) PROVE TypeOK'
  BY <1>4 DEF TypeOK, PC, DiskStat, Goto
<1>5. ASSUME NEW p \in Procs, LoadPickle(p) PROVE TypeOK'
  <2>1. path[p] \in Paths /\ PickleOf(p).content \in Item
    BY <1>5 DEF TypeOK, LoadPickle, PickleOf, Pickle
  <2>2. mem' \in [Procs -> [Paths -> Item \cup {NoItem}]]
    BY <1>5, <2>1, SetCacheItemSlots DEF LoadPickle
  <2> QED BY <1>5, <2>1, <2>2 DEF TypeOK, PC, LoadPickle, Answer, Goto, Item
<1>6. ASSUME NEW p \in Procs, ReadSource(p) PROVE TypeOK'
  BY <1>6 DEF TypeOK, PC, ReadSource, Goto, SourceFile
<1>7. ASSUME NEW p \in Procs, SaveItem(p) \/ SaveItemInRam(p) PROVE TypeOK'
  <2>1. path[p] \in Paths
    BY <1>7 DEF TypeOK, SaveItem, SaveItemInRam
  <2>2. ChangeTime(p) \in Nat /\ clock \in Nat
    BY <2>1 DEF TypeOK, ChangeTime, SourceFile
  <2>3. PICK item \in Item : SetCacheItem(p, item)
    BY <1>7, <2>2 DEF TypeOK, Item, SaveItem, SaveItemInRam
  <2>4. mem' \in [Procs -> [Paths -> Item \cup {NoItem}]]
    BY <2>1, <2>3, SetCacheItemSlots
  <2> QED BY <1>7, <2>4 DEF TypeOK, PC, SaveItem, SaveItemInRam, Goto
<1>8. ASSUME NEW p \in Procs, OpenPickle(p) PROVE TypeOK'
  <2> DEFINE others == IF PickleOf(p) = NoPickle THEN {} ELSE PickleOf(p).writers
             new == [content |-> NoItem, mtime |-> clock,
                     writers |-> others \cup {p}, shared |-> others \ {p} # {}]
  <2>1. path[p] \in Paths
    BY <1>8 DEF TypeOK, OpenPickle
  <2>2. others \subseteq Procs
    BY <2>1 DEF TypeOK, PickleOf, Pickle
  <2>3. new \in Pickle
    BY <2>2 DEF TypeOK, Pickle
  <2>4. disk' = [disk EXCEPT ![path[p]] = new]
    BY <1>8 DEF OpenPickle
  <2>5. disk' \in [Paths -> Pickle \cup {NoPickle}]
    BY <2>1, <2>3, <2>4 DEF TypeOK
  <2>6. pc' = [pc EXCEPT ![p] = "write"] /\ UNCHANGED <<clock, file, mem, path, ptime, got, seen>>
    BY <1>8 DEF OpenPickle, Goto
  <2> QED BY <2>1, <2>5, <2>6 DEF TypeOK, PC
<1>9. ASSUME NEW p \in Procs, WritePickle(p) PROVE TypeOK'
  <2>1. path[p] \in Paths
    BY <1>9 DEF TypeOK, WritePickle
  <2>2. PICK torn \in BOOLEAN :
          disk' = IF PickleOf(p) = NoPickle \/ p \notin PickleOf(p).writers
                  THEN disk
                  ELSE [disk EXCEPT ![path[p]] =
                          Written(p, IF torn THEN NoItem ELSE Cached(p))]
    BY <1>9 DEF WritePickle
  <2>3. disk' \in [Paths -> Pickle \cup {NoPickle}]
    <3>1. CASE PickleOf(p) = NoPickle \/ p \notin PickleOf(p).writers
      BY <3>1, <2>2 DEF TypeOK
    <3>2. CASE ~(PickleOf(p) = NoPickle \/ p \notin PickleOf(p).writers)
      <4>1. disk[path[p]] \in Pickle
        BY <2>1, <3>2 DEF TypeOK, PickleOf
      <4>2. (IF torn THEN NoItem ELSE Cached(p)) \in Item \cup {NoItem}
        BY <2>1 DEF TypeOK, Cached
      <4> DEFINE new == Written(p, IF torn THEN NoItem ELSE Cached(p))
      <4>3. new \in Pickle
        BY <4>1, <4>2 DEF TypeOK, Pickle, PickleOf, Written
      <4>4. disk' = [disk EXCEPT ![path[p]] = new]
        BY <2>2, <3>2
      <4> HIDE DEF new
      <4> QED BY <2>1, <4>3, <4>4 DEF TypeOK
    <3> QED BY <3>1, <3>2
  <2> QED BY <1>9, <2>3 DEF TypeOK, PC, WritePickle, Goto
<1>10. ASSUME NEW p \in Procs, Return(p) PROVE TypeOK'
  BY <1>10 DEF TypeOK, PC, Return, Goto
<1>11. ASSUME NEW p \in Procs, ClearCache(p) PROVE TypeOK'
  BY <1>11 DEF TypeOK, ClearCache, EmptyCache
<1>12. ASSUME NEW p \in Procs, Crash(p) PROVE TypeOK'
  <2>1. disk' \in [Paths -> Pickle \cup {NoPickle}]
    BY <1>12 DEF TypeOK, Crash, LetGo, Pickle
  <2> QED BY <1>12, <2>1 DEF TypeOK, PC, Crash, EmptyCache
<1>13. ASSUME NEW p \in Procs, NEW a \in Paths, Call(p, a) PROVE TypeOK'
  BY <1>13 DEF TypeOK, PC, Call, Goto
<1>14. ASSUME NEW a \in Paths, Modify(a) \/ Delete(a) PROVE TypeOK'
  <2>1. CASE Modify(a)
    <3> DEFINE new == [version |-> file[a].version + 1, mtime |-> clock + 1, present |-> TRUE]
    <3>1. new \in [version : Nat, mtime : Nat, present : BOOLEAN]
      BY DEF TypeOK
    <3>2. file' = [file EXCEPT ![a] = new] /\ clock' = clock + 1
      BY <2>1 DEF Modify
    <3>3. UNCHANGED <<disk, mem, pc, path, ptime, got, seen>>
      BY <2>1 DEF Modify
    <3> HIDE DEF new
    <3> QED BY <3>1, <3>2, <3>3 DEF TypeOK
  <2>2. CASE Delete(a)
    <3> DEFINE new == [file[a] EXCEPT !.present = FALSE]
    <3>1. new \in [version : Nat, mtime : Nat, present : BOOLEAN]
      BY DEF TypeOK
    <3>2. file' = [file EXCEPT ![a] = new] /\ UNCHANGED <<clock, disk, mem, pc, path, ptime, got, seen>>
      BY <2>2 DEF Delete
    <3> HIDE DEF new
    <3> QED BY <3>1, <3>2 DEF TypeOK
  <2> QED BY <1>14, <2>1, <2>2
<1>15. CASE Tick
  BY <1>15 DEF TypeOK, Tick
<1>18. ASSUME NEW p \in Procs, CallFails(p) PROVE TypeOK'
  <2>1. disk' \in [Paths -> Pickle \cup {NoPickle}]
    BY <1>18 DEF TypeOK, CallFails, LetGo, Pickle
  <2> QED BY <1>18, <2>1 DEF TypeOK, PC, CallFails, Goto
<1>17. ASSUME NEW a \in Paths, RemoveInactive(a) PROVE TypeOK'
  BY <1>17 DEF TypeOK, RemoveInactive
<1>16. CASE UNCHANGED vars
  BY <1>16 DEF TypeOK, vars
<1> QED
  BY <1>1, <1>2, <1>3, <1>4, <1>5, <1>6, <1>7, <1>8, <1>9, <1>10, <1>11, <1>12, <1>13, <1>14,
     <1>15, <1>16, <1>17, <1>18 DEF Next, ParseStep, LoadModule, TryToSaveModule

\* Every variable keeps its type, for any processes, paths and bounds.
THEOREM TypeCorrect == Spec => []TypeOK
PROOF
<1>1. Init => TypeOK
  BY DEF Init, TypeOK, PC, EmptyCache
<1> QED BY <1>1, TypeStep, PTL DEF Spec

-----------------------------------------------------------------------------
(* Freshness.                                                               *)

\* A step of p that only moves p on in parse has to be looked at for p alone.
LEMMA OnlyProcess ==
  ASSUME TypeOK, FreshInv, NEW p \in Procs,
         UNCHANGED <<clock, file, disk, mem>>,
         \A q \in Procs : q # p => /\ pc'[q] = pc[q] /\ path'[q] = path[q]
                                   /\ ptime'[q] = ptime[q]
                                   /\ got'[q] = got[q] /\ seen'[q] = seen[q],
         ProcessSound(p)'
  PROVE  FreshInv'
PROOF
<1>1. FilesSound' /\ (\A q \in Procs : MemorySound(q)') /\ (\A a \in Paths : PickleSound(a)')
  BY DEF FreshInv, FilesSound, MemorySound, PickleSound, ItemSound
<1>2. ASSUME NEW q \in Procs, q # p PROVE ProcessSound(q)'
  BY <1>2 DEF FreshInv, ProcessSound, Cached, PickleOf
<1> QED BY <1>1, <1>2 DEF FreshInv

\* load_module and the reading of the source.
LEMMA ReadingStep ==
  ASSUME TypeOK, FreshInv, NEW p \in Procs,
         \/ StatMissing(p) \/ MemoryOutdated(p) \/ MemoryMiss(p) \/ DiskStat(p)
         \/ LoadTorn(p) \/ LoadDeleted(p) \/ ReadSource(p) \/ ReadMissing(p)
         \/ OpenDenied(p) \/ Return(p)
  PROVE  FreshInv'
PROOF
<1> USE CacheAssumption
<1>1. ProcessSound(p)
  BY DEF FreshInv
<1>2. UNCHANGED <<clock, file, disk, mem, seen>>
  BY DEF StatMissing, MemoryOutdated, MemoryMiss, DiskStat, LoadTorn, LoadDeleted, ReadSource,
     ReadMissing, OpenDenied, Return
<1>3. \A q \in Procs : q # p => /\ pc'[q] = pc[q] /\ path'[q] = path[q]
                                /\ ptime'[q] = ptime[q]
                                /\ got'[q] = got[q] /\ seen'[q] = seen[q]
  BY DEF TypeOK, StatMissing, MemoryOutdated, MemoryMiss, DiskStat, LoadTorn, LoadDeleted,
     ReadSource, ReadMissing, OpenDenied, Return, Goto
<1>4. ProcessSound(p)'
  <2>1. CASE StatMissing(p) \/ MemoryOutdated(p) \/ LoadTorn(p) \/ LoadDeleted(p) \/ ReadMissing(p)
    BY <2>1, <1>1, <1>2 DEF TypeOK, StatMissing, MemoryOutdated, LoadTorn, LoadDeleted,
       ReadMissing, Goto, ProcessSound
  <2>2. CASE MemoryMiss(p)
    <3>1. path[p] \in Paths
      BY <2>2 DEF TypeOK, MemoryMiss
    <3>2. /\ pc'[p] = "disk" /\ pc[p] = "stat" /\ path' = path /\ got' = got
          /\ ptime'[p] = file[path[p]].mtime
      BY <2>2 DEF TypeOK, MemoryMiss, Goto, SourceFile
    <3>3. PickleSound(path[p]) /\ file[path[p]].mtime <= clock
      BY <3>1 DEF FreshInv, FilesSound
    <3>4. seen[p] <= file[path[p]].version
      BY <1>1, <3>2 DEF ProcessSound
    <3> QED BY <1>2, <3>1, <3>2, <3>3, <3>4 DEF ProcessSound, PickleSound, PickleOf
  <2>3. CASE DiskStat(p)
    BY <2>3, <1>1, <1>2 DEF TypeOK, DiskStat, Goto, ProcessSound, PickleOf
  <2>4. CASE ReadSource(p)
    BY <2>4, <1>1, <1>2 DEF TypeOK, ReadSource, Goto, ProcessSound, SourceFile
  <2>5. CASE OpenDenied(p)
    <3>1. path[p] \in Paths
      BY <2>5 DEF TypeOK, OpenDenied
    <3> QED BY <2>5, <1>1, <1>2, <3>1 DEF TypeOK, OpenDenied, Goto, ProcessSound
  <2>6. CASE Return(p)
    BY <2>6, <1>2 DEF TypeOK, Return, Goto, ProcessSound
  <2> QED BY <2>1, <2>2, <2>3, <2>4, <2>5, <2>6
<1> QED BY <1>2, <1>3, <1>4, OnlyProcess

\* An item put into RAM, by _set_cache_item or by a hit: it has to be sound,
\* and p is the only process that notices.
LEMMA MemoryStep ==
  ASSUME TypeOK, FreshInv, NEW p \in Procs,
         UNCHANGED <<clock, file, disk>>,
         \A q \in Procs : q # p => /\ mem'[q] = mem[q]
                                   /\ pc'[q] = pc[q] /\ path'[q] = path[q]
                                   /\ ptime'[q] = ptime[q]
                                   /\ got'[q] = got[q] /\ seen'[q] = seen[q],
         \A a \in Paths : a # path[p] => mem'[p][a] \in {mem[p][a], NoItem},
         ItemSound(mem'[p][path[p]], path[p]),
         ProcessSound(p)'
  PROVE  FreshInv'
PROOF
<1>1. FilesSound' /\ \A a \in Paths : PickleSound(a)'
  BY DEF FreshInv, FilesSound, PickleSound, ItemSound
<1>2. ASSUME NEW q \in Procs, q # p PROVE MemorySound(q)' /\ ProcessSound(q)'
  BY <1>2 DEF FreshInv, MemorySound, ProcessSound, ItemSound, Cached, PickleOf
<1>3. MemorySound(p)'
  <2> SUFFICES ASSUME NEW a \in Paths, mem'[p][a] # NoItem PROVE ItemSound(mem'[p][a], a)
    BY DEF MemorySound, ItemSound
  <2>1. CASE a = path[p]
    BY <2>1
  <2>2. CASE a # path[p]
    BY <2>2 DEF FreshInv, MemorySound
  <2> QED BY <2>1, <2>2
<1> QED BY <1>1, <1>2, <1>3 DEF FreshInv

\* What load_module finds, in RAM or in a pickle, is sound.
LEMMA HitStep ==
  ASSUME TypeOK, FreshInv, NEW p \in Procs, MemoryHit(p) \/ LoadPickle(p)
  PROVE  FreshInv'
PROOF
<1> USE CacheAssumption
<1>0. path[p] \in Paths
  BY DEF TypeOK, MemoryHit, LoadPickle
<1>1. MemorySound(p) /\ PickleSound(path[p]) /\ ProcessSound(p)
  BY <1>0 DEF FreshInv
<1>2. UNCHANGED <<clock, file, disk, path, ptime, seen>>
  BY DEF MemoryHit, LoadPickle
<1>3. CASE MemoryHit(p)
  <2> DEFINE item == [Cached(p) EXCEPT !.used = clock]
  <2>1. Cached(p) \in Item /\ Cached(p) # NoItem /\ file[path[p]].mtime <= Cached(p).change
    BY <1>0, <1>3 DEF TypeOK, MemoryHit, Cached, SourceFile
  <2>2. ItemSound(Cached(p), path[p])
    BY <1>0, <1>1, <2>1 DEF MemorySound, Cached
  <2>3. item.version = Cached(p).version /\ item.change = Cached(p).change
    BY <2>1 DEF Item
  <2>4. ItemSound(item, path[p])
    BY <2>2, <2>3 DEF ItemSound
  <2>5. mem' = [mem EXCEPT ![p] = [mem[p] EXCEPT ![path[p]] = item]]
    BY <1>3 DEF MemoryHit, Cached
  <2>6. /\ pc' = [pc EXCEPT ![p] = "return"]
        /\ got' = [got EXCEPT ![p] = Cached(p).version]
        /\ pc[p] = "stat"
    BY <1>3 DEF MemoryHit, Answer, Goto
  <2> HIDE DEF item
  <2>7. /\ mem'[p][path[p]] = item
        /\ \A a \in Paths : a # path[p] => mem'[p][a] = mem[p][a]
        /\ \A q \in Procs : q # p => mem'[q] = mem[q]
    BY <1>0, <2>5 DEF TypeOK
  <2>8. Cached(p).version = file[path[p]].version
    BY <2>1, <2>2 DEF ItemSound
  <2>9. ProcessSound(p)'
    BY <1>1, <1>2, <2>6, <2>8, <1>0 DEF TypeOK, ProcessSound
  <2>10. \A q \in Procs : q # p => /\ pc'[q] = pc[q] /\ path'[q] = path[q]
                                   /\ ptime'[q] = ptime[q]
                                   /\ got'[q] = got[q] /\ seen'[q] = seen[q]
    BY <1>2, <2>6 DEF TypeOK
  <2> QED BY <1>2, <2>4, <2>7, <2>9, <2>10, MemoryStep
<1>4. CASE LoadPickle(p)
  <2>1. /\ PickleOf(p) \in Pickle /\ PickleOf(p) # NoPickle
        /\ PickleOf(p).content \in Item /\ PickleOf(p).content # NoItem
    BY <1>0, <1>4 DEF TypeOK, LoadPickle, PickleOf, Pickle
  <2>2. ItemSound(PickleOf(p).content, path[p])
    BY <1>1, <2>1 DEF PickleSound, PickleOf
  <2>3. /\ mem'[p][path[p]] = PickleOf(p).content
        /\ \A a \in Paths : a # path[p] => mem'[p][a] \in {mem[p][a], NoItem}
        /\ \A q \in Procs : q # p => mem'[q] = mem[q]
    BY <1>0, <1>4, SetCacheItemSlots DEF LoadPickle
  <2>4. /\ pc' = [pc EXCEPT ![p] = "return"]
        /\ got' = [got EXCEPT ![p] = PickleOf(p).content.version]
        /\ pc[p] = "load"
    BY <1>4 DEF LoadPickle, Answer, Goto
  <2>5. PickleOf(p).content.version >= seen[p]
    BY <1>1, <2>1, <2>4 DEF ProcessSound
  <2>6. ProcessSound(p)'
    BY <1>1, <1>2, <2>4, <2>5 DEF TypeOK, ProcessSound
  <2>7. \A q \in Procs : q # p => /\ pc'[q] = pc[q] /\ path'[q] = path[q]
                                  /\ ptime'[q] = ptime[q]
                                  /\ got'[q] = got[q] /\ seen'[q] = seen[q]
    BY <1>2, <2>4 DEF TypeOK
  <2> QED BY <1>2, <2>2, <2>3, <2>6, <2>7, MemoryStep
<1> QED BY <1>3, <1>4

\* The item of a tree just parsed: what was read is still what is in the file,
\* and its time is that of the file, or now.
LEMMA SaveItemStep ==
  ASSUME TypeOK, FreshInv, NEW p \in Procs, SaveItem(p) \/ SaveItemInRam(p)
  PROVE  FreshInv'
PROOF
<1> USE CacheAssumption, SentinelAssumption
<1>1. path[p] \in Paths
  BY DEF TypeOK, SaveItem, SaveItemInRam
<1>2. ProcessSound(p) /\ file[path[p]].mtime <= clock
  BY <1>1 DEF FreshInv, FilesSound
<1>3. ChangeTime(p) \in Nat /\ ChangeTime(p) <= clock /\ clock \in Nat
  BY <1>1, <1>2 DEF TypeOK, ChangeTime, SourceFile
<1>4. pc[p] = "save" /\ got[p] = file[path[p]].version /\ seen[p] <= file[path[p]].version
  BY <1>2 DEF SaveItem, SaveItemInRam, ProcessSound
<1>5. PICK item \in Item :
        SetCacheItem(p, item) /\ item.version = got[p] /\ item.change \in {ChangeTime(p), clock}
  BY <1>3 DEF TypeOK, Item, SaveItem, SaveItemInRam
<1>6. item # NoItem /\ ItemSound(item, path[p])
  BY <1>1, <1>3, <1>4, <1>5 DEF ItemSound, TypeOK
<1>7. /\ UNCHANGED <<clock, file, disk, path, ptime, got, seen>>
      /\ pc'[p] \in {"open", "return"} /\ \A q \in Procs : q # p => pc'[q] = pc[q]
  BY DEF TypeOK, SaveItem, SaveItemInRam, Goto
<1>8. /\ mem'[p][path[p]] = item
      /\ \A a \in Paths : a # path[p] => mem'[p][a] \in {mem[p][a], NoItem}
      /\ \A q \in Procs : q # p => mem'[q] = mem[q]
  BY <1>1, <1>5, SetCacheItemSlots
<1>9. ProcessSound(p)'
  BY <1>1, <1>4, <1>5, <1>6, <1>7, <1>8 DEF TypeOK, ProcessSound, Cached
<1> QED BY <1>6, <1>7, <1>8, <1>9, MemoryStep

\* A pickle written or truncated: every process that is about to load it, or to
\* look at it, may do so.
LEMMA PickleStep ==
  ASSUME TypeOK, FreshInv, NEW p \in Procs, OpenPickle(p) \/ WritePickle(p)
  PROVE  FreshInv'
PROOF
<1> USE CacheAssumption, SentinelAssumption
<1>1. path[p] \in Paths /\ ProcessSound(p)
  BY DEF FreshInv, TypeOK, OpenPickle, WritePickle
<1>2. UNCHANGED <<clock, file, mem, path, ptime, got, seen>>
  BY DEF OpenPickle, WritePickle
<1>3. /\ pc[p] \in {"open", "write"}
      /\ pc' = [pc EXCEPT ![p] = IF pc[p] = "open" THEN "write" ELSE "return"]
  BY DEF OpenPickle, WritePickle, Goto
<1>4. /\ got[p] = file[path[p]].version /\ seen[p] <= file[path[p]].version
      /\ Cached(p) # NoItem /\ Cached(p).version = got[p]
  BY <1>1, <1>3 DEF ProcessSound
<1>5. ItemSound(Cached(p), path[p])
  BY <1>1, <1>4 DEF FreshInv, MemorySound, Cached
<1>6. disk' = disk \/ \E pickle \in [content : {NoItem, Cached(p)}, mtime : {clock},
                                     writers : SUBSET Procs, shared : BOOLEAN] :
                        disk' = [disk EXCEPT ![path[p]] = pickle]
  <2>1. CASE OpenPickle(p)
    <3> DEFINE others == IF PickleOf(p) = NoPickle THEN {} ELSE PickleOf(p).writers
               new == [content |-> NoItem, mtime |-> clock,
                       writers |-> others \cup {p}, shared |-> others \ {p} # {}]
    <3>1. others \subseteq Procs
      BY <1>1 DEF TypeOK, PickleOf, Pickle
    <3>2. new \in [content : {NoItem, Cached(p)}, mtime : {clock},
                   writers : SUBSET Procs, shared : BOOLEAN]
      BY <3>1
    <3>3. disk' = [disk EXCEPT ![path[p]] = new]
      BY <2>1 DEF OpenPickle
    <3> QED BY <3>2, <3>3
  <2>2. CASE WritePickle(p)
    <3>1. PICK torn \in BOOLEAN :
            disk' = IF PickleOf(p) = NoPickle \/ p \notin PickleOf(p).writers
                    THEN disk
                    ELSE [disk EXCEPT ![path[p]] =
                            Written(p, IF torn THEN NoItem ELSE Cached(p))]
      BY <2>2 DEF WritePickle
    <3>2. CASE PickleOf(p) = NoPickle \/ p \notin PickleOf(p).writers
      BY <3>1, <3>2
    <3>3. CASE ~(PickleOf(p) = NoPickle \/ p \notin PickleOf(p).writers)
      <4> DEFINE new == Written(p, IF torn THEN NoItem ELSE Cached(p))
      <4>1. PickleOf(p) \in Pickle
        BY <1>1, <3>3 DEF TypeOK, PickleOf
      <4>2. new \in [content : {NoItem, Cached(p)}, mtime : {clock},
                     writers : SUBSET Procs, shared : BOOLEAN]
        BY <4>1 DEF Written, Pickle
      <4>3. disk' = [disk EXCEPT ![path[p]] = new]
        BY <3>1, <3>3
      <4> QED BY <4>2, <4>3
    <3> QED BY <3>2, <3>3
  <2> QED BY <2>1, <2>2
<1>7. /\ \A a \in Paths : a # path[p] => disk'[a] = disk[a]
      /\ \/ disk'[path[p]] = disk[path[p]]
         \/ /\ disk'[path[p]].mtime = clock
            /\ disk'[path[p]].content \in {NoItem, Cached(p)}
  BY <1>1, <1>6 DEF TypeOK
<1>8. FilesSound' /\ \A q \in Procs : MemorySound(q)'
  BY <1>2 DEF FreshInv, FilesSound, MemorySound, ItemSound
<1>9. ASSUME NEW a \in Paths PROVE PickleSound(a)'
  <2>1. PickleSound(a)
    BY DEF FreshInv
  <2>2. CASE disk'[a] = disk[a]
    BY <2>1, <2>2, <1>2 DEF PickleSound, ItemSound
  <2>3. CASE disk'[a] # disk[a]
    <3>1. a = path[p] /\ disk'[a].mtime = clock /\ disk'[a].content \in {NoItem, Cached(p)}
      BY <2>3, <1>7
    <3> QED BY <3>1, <1>2, <1>4, <1>5 DEF TypeOK, PickleSound, ItemSound
  <2> QED BY <2>2, <2>3
<1>10. ASSUME NEW q \in Procs, q # p PROVE ProcessSound(q)'
  <2>1. pc'[q] = pc[q] /\ ProcessSound(q)
    BY <1>3, <1>10 DEF TypeOK, FreshInv
  <2>2. Cached(q)' = Cached(q)
    BY <1>2 DEF Cached
  <2>3. CASE disk'[path[q]] = disk[path[q]]
    BY <2>1, <2>2, <2>3, <1>2 DEF ProcessSound, PickleOf
  <2>4. CASE disk'[path[q]] # disk[path[q]] /\ pc[q] \in {"disk", "load"}
    <3>1. path[q] \in Paths
      BY <2>4 DEF TypeOK
    <3>2. /\ path[q] = path[p] /\ disk'[path[q]].mtime = clock
          /\ disk'[path[q]].content \in {NoItem, Cached(p)}
      BY <2>4, <3>1, <1>7
    <3>3. seen[q] <= file[path[q]].version /\ ptime[q] <= clock
      BY <2>1, <2>4 DEF ProcessSound
    <3> QED BY <2>1, <2>4, <3>2, <3>3, <1>2, <1>4 DEF ProcessSound, PickleOf
  <2>5. CASE pc[q] \notin {"disk", "load"}
    BY <2>1, <2>2, <2>5, <1>2 DEF ProcessSound
  <2> QED BY <2>3, <2>4, <2>5
<1>11. ProcessSound(p)'
  BY <1>1, <1>2, <1>3, <1>4 DEF TypeOK, ProcessSound, Cached
<1> QED BY <1>8, <1>9, <1>10, <1>11 DEF FreshInv

\* What one process forgets, or what vanishes from the disk, outdates nothing.
LEMMA ForgetStep ==
  ASSUME TypeOK, FreshInv, NEW p \in Procs, ClearCache(p) \/ Crash(p)
  PROVE  FreshInv'
PROOF
<1>1. UNCHANGED <<clock, file, ptime, got, seen>>
  BY DEF ClearCache, Crash
<1>2. /\ pc'[p] = "idle" /\ mem'[p] = EmptyCache
      /\ \A q \in Procs : q # p => mem'[q] = mem[q] /\ pc'[q] = pc[q] /\ path'[q] = path[q]
  BY DEF TypeOK, ClearCache, Crash
<1>3. \A a \in Paths : disk'[a] = NoPickle
                       \/ /\ disk[a] # NoPickle
                          /\ disk'[a].content = disk[a].content
                          /\ disk'[a].mtime = disk[a].mtime
  BY DEF TypeOK, ClearCache, Crash, LetGo, Pickle
<1>4. FilesSound' /\ \A a \in Paths : PickleSound(a)'
  BY <1>1, <1>3 DEF FreshInv, FilesSound, PickleSound, ItemSound
<1>5. ASSUME NEW q \in Procs PROVE MemorySound(q)'
  BY <1>1, <1>2 DEF FreshInv, MemorySound, ItemSound, EmptyCache
<1>6. ASSUME NEW q \in Procs PROVE ProcessSound(q)'
  <2>1. CASE q = p
    BY <2>1, <1>2 DEF ProcessSound
  <2>2. CASE q # p
    <3>1. ProcessSound(q) /\ (pc[q] # "idle" => path[q] \in Paths)
      BY DEF FreshInv, TypeOK
    <3> QED BY <2>2, <3>1, <1>1, <1>2, <1>3 DEF ProcessSound, Cached, PickleOf
  <2> QED BY <2>1, <2>2
<1> QED BY <1>4, <1>5, <1>6 DEF FreshInv

\* The same of a pickle that a cleanup removes, and of a call that fails.
LEMMA RemoveStep ==
  ASSUME TypeOK, FreshInv,
         (\E a \in Paths : RemoveInactive(a)) \/ (\E p \in Procs : CallFails(p))
  PROVE  FreshInv'
PROOF
<1>1. /\ UNCHANGED <<clock, file, mem, path, ptime, got, seen>>
      /\ \A q \in Procs : pc'[q] = pc[q] \/ (pc[q] # "idle" /\ pc'[q] = "os error")
  BY DEF TypeOK, RemoveInactive, CallFails, Goto
<1>2. \A b \in Paths : disk'[b] = NoPickle
                       \/ /\ disk[b] # NoPickle
                          /\ disk'[b].content = disk[b].content
                          /\ disk'[b].mtime = disk[b].mtime
  <2>1. CASE \E a \in Paths : RemoveInactive(a)
    BY <2>1 DEF TypeOK, RemoveInactive
  <2>2. CASE \E p \in Procs : CallFails(p)
    <3>1. PICK p \in Procs : CallFails(p)
      BY <2>2
    <3>2. disk' = [b \in Paths |-> IF disk[b] = NoPickle THEN NoPickle
                                   ELSE [disk[b] EXCEPT !.writers = @ \ {p}]]
      BY <3>1 DEF CallFails, LetGo
    <3> QED BY <3>2 DEF TypeOK, Pickle
  <2> QED BY <2>1, <2>2
<1>3. FilesSound' /\ \A b \in Paths : PickleSound(b)'
  BY <1>1, <1>2 DEF FreshInv, FilesSound, PickleSound, ItemSound
<1>4. \A q \in Procs : MemorySound(q)'
  BY <1>1 DEF FreshInv, MemorySound, ItemSound
<1>5. ASSUME NEW q \in Procs PROVE ProcessSound(q)'
  <2>1. ProcessSound(q) /\ (pc[q] # "idle" => path[q] \in Paths)
    BY DEF FreshInv, TypeOK
  <2> QED BY <2>1, <1>1, <1>2 DEF ProcessSound, Cached, PickleOf
<1> QED BY <1>3, <1>4, <1>5 DEF FreshInv

\* A file edited or deleted makes every item of it outdated, and no process is
\* between reading it and having written its pickle.
LEMMA SourceStep ==
  ASSUME QuietSources, TypeOK, FreshInv, NEW a \in Paths, Modify(a) \/ Delete(a)
  PROVE  FreshInv'
PROOF
<1> USE CacheAssumption
<1>1. UNCHANGED <<disk, mem, pc, path, ptime, got, seen>> /\ clock' \in Nat /\ clock' >= clock
  BY DEF TypeOK, Modify, Delete
<1>2. \A q \in Procs : ~(path[q] = a /\ pc[q] \in {"save", "open", "write"})
  BY DEF Modify, Delete, MayChange, Parsing
<1>3. /\ \A b \in Paths : b # a => file'[b] = file[b]
      /\ \/ file'[a].version = file[a].version /\ file'[a].mtime = file[a].mtime
         \/ file'[a].version = file[a].version + 1 /\ file'[a].mtime = clock' /\ clock' = clock + 1
  <2>1. CASE Modify(a)
    <3> DEFINE new == [version |-> file[a].version + 1, mtime |-> clock', present |-> TRUE]
    <3>1. file' = [file EXCEPT ![a] = new] /\ clock' = clock + 1
      BY <2>1 DEF Modify
    <3> QED BY <3>1 DEF TypeOK
  <2>2. CASE Delete(a)
    <3>1. file' = [file EXCEPT ![a] = [file[a] EXCEPT !.present = FALSE]]
      BY <2>2 DEF Delete
    <3> DEFINE new == [file[a] EXCEPT !.present = FALSE]
    <3>2. new.version = file[a].version /\ new.mtime = file[a].mtime
      BY DEF TypeOK
    <3> HIDE DEF new
    <3>3. file' = [file EXCEPT ![a] = new]
      BY <3>1 DEF new
    <3> QED BY <3>2, <3>3 DEF TypeOK
  <2> QED BY <2>1, <2>2
<1>4. ASSUME NEW b \in Paths PROVE file'[b].mtime <= clock' /\ file[b].version <= file'[b].version
  <2>1. file[b].mtime <= clock /\ file[b].mtime \in Nat /\ file[b].version \in Nat /\ clock \in Nat
    BY DEF FreshInv, FilesSound, TypeOK
  <2> QED BY <2>1, <1>1, <1>3
<1>5. ASSUME NEW b \in Paths, NEW item \in Item, ItemSound(item, b)
      PROVE  /\ item.version <= file'[b].version
             /\ item.change <= clock'
             /\ (item.change >= file'[b].mtime) => (item.version = file'[b].version)
  <2>1. /\ item.version \in Nat /\ item.change \in Nat /\ clock \in Nat
        /\ file[b].version \in Nat /\ file[b].mtime \in Nat
    BY DEF Item, TypeOK
  <2>2. /\ item.version <= file[b].version /\ item.change <= clock
        /\ (item.change >= file[b].mtime) => (item.version = file[b].version)
    BY <1>5 DEF ItemSound
  <2> QED BY <2>1, <2>2, <1>1, <1>3
<1>6. ASSUME NEW q \in Procs PROVE MemorySound(q)'
  <2> SUFFICES ASSUME NEW b \in Paths, mem[q][b] # NoItem PROVE ItemSound(mem[q][b], b)'
    BY <1>1 DEF MemorySound, ItemSound
  <2>1. mem[q][b] \in Item /\ ItemSound(mem[q][b], b)
    BY DEF TypeOK, FreshInv, MemorySound
  <2> QED BY <2>1, <1>1, <1>5 DEF ItemSound
<1>7. ASSUME NEW b \in Paths PROVE PickleSound(b)'
  <2> SUFFICES ASSUME disk[b] # NoPickle PROVE PickleSound(b)'
    BY <1>1 DEF PickleSound
  <2>1. PickleSound(b) /\ disk[b] \in Pickle /\ disk[b].mtime \in Nat
    BY DEF TypeOK, FreshInv, Pickle
  <2>2. disk[b].mtime <= clock
    BY <2>1 DEF PickleSound
  <2>3. CASE disk[b].content = NoItem
    BY <2>1, <2>2, <2>3, <1>1 DEF TypeOK, PickleSound
  <2>4. CASE disk[b].content # NoItem
    <3>1. disk[b].content \in Item /\ ItemSound(disk[b].content, b)
      BY <2>1, <2>4 DEF Pickle, PickleSound
    <3>2. ItemSound(disk[b].content, b)'
      BY <3>1, <1>1, <1>5 DEF ItemSound
    <3>3. (disk[b].mtime >= file'[b].mtime) => (disk[b].content.version = file'[b].version)
      <4>1. (disk[b].mtime >= file[b].mtime) => (disk[b].content.version = file[b].version)
        BY <2>1, <2>4 DEF PickleSound
      <4>2. disk[b].mtime < clock + 1
        BY <2>1, <2>2 DEF TypeOK
      <4> QED BY <4>1, <4>2, <2>1, <1>3 DEF TypeOK
    <3> QED BY <2>2, <2>1, <3>2, <3>3, <1>1 DEF TypeOK, PickleSound
  <2> QED BY <2>3, <2>4
<1>8. ASSUME NEW q \in Procs PROVE ProcessSound(q)'
  <2>1. ProcessSound(q) /\ (pc[q] # "idle" => path[q] \in Paths)
    BY DEF FreshInv, TypeOK
  <2>2. pc[q] # "idle" => seen[q] <= file'[path[q]].version
    <3> SUFFICES ASSUME pc[q] # "idle" PROVE seen[q] <= file'[path[q]].version
      OBVIOUS
    <3>1. seen[q] <= file[path[q]].version /\ path[q] \in Paths
      BY <2>1 DEF ProcessSound
    <3>2. file[path[q]].version <= file'[path[q]].version
      BY <3>1, <1>4
    <3>3. seen[q] \in Nat /\ file[path[q]].version \in Nat /\ file'[path[q]].version \in Nat
      BY <3>1, <1>3 DEF TypeOK
    <3> QED BY <3>1, <3>2, <3>3
  <2>3. pc[q] \in {"save", "open", "write"} => file'[path[q]] = file[path[q]]
    BY <2>1, <1>2, <1>3
  <2>4. pc[q] \in {"disk", "load"} => ptime[q] <= clock'
    BY <2>1, <1>1 DEF ProcessSound, TypeOK
  <2> QED BY <2>1, <2>2, <2>3, <2>4, <1>1 DEF ProcessSound, Cached, PickleOf
<1>9. FilesSound'
  BY <1>4 DEF FilesSound
<1> QED BY <1>6, <1>7, <1>8, <1>9 DEF FreshInv

LEMMA CallStep ==
  ASSUME TypeOK, FreshInv, NEW p \in Procs, NEW a \in Paths, Call(p, a)
  PROVE  FreshInv'
PROOF
<1>1. /\ UNCHANGED <<clock, file, disk, mem, ptime, got>>
      /\ pc'[p] = "stat" /\ path'[p] = a /\ seen'[p] = file[a].version
      /\ \A q \in Procs : q # p => pc'[q] = pc[q] /\ path'[q] = path[q] /\ seen'[q] = seen[q]
  BY DEF TypeOK, Call, Goto
<1>2. ProcessSound(p)'
  BY <1>1 DEF TypeOK, ProcessSound
<1> QED BY <1>1, <1>2, OnlyProcess

LEMMA FreshStep ==
  ASSUME QuietSources
  PROVE  TypeOK /\ FreshInv /\ [Next]_vars => FreshInv'
PROOF
<1> SUFFICES ASSUME TypeOK, FreshInv, [Next]_vars PROVE FreshInv'
  OBVIOUS
<1>1. ASSUME NEW p \in Procs, ParseStep(p) PROVE FreshInv'
  BY <1>1, ReadingStep, HitStep, SaveItemStep, PickleStep, RemoveStep DEF ParseStep, LoadModule, TryToSaveModule
<1>2. CASE Tick
  <2>1. UNCHANGED <<file, disk, mem, pc, path, ptime, got, seen>> /\ clock' = clock + 1
    BY <1>2 DEF Tick
  <2>2. /\ clock \in Nat /\ \A a \in Paths : file[a].mtime \in Nat
        /\ \A p \in Procs : ptime[p] \in Nat
        /\ \A a \in Paths : disk[a] # NoPickle => disk[a].mtime \in Nat
    BY DEF TypeOK, Pickle
  <2>3. FilesSound'
    BY <2>1, <2>2 DEF FreshInv, FilesSound
  <2>4. ASSUME NEW a \in Paths, NEW item \in Item, ItemSound(item, a) PROVE ItemSound(item, a)'
    BY <2>1, <2>2, <2>4 DEF ItemSound, Item
  <2>5. ASSUME NEW p \in Procs PROVE MemorySound(p)'
    <3> SUFFICES ASSUME NEW a \in Paths, mem[p][a] # NoItem PROVE ItemSound(mem[p][a], a)'
      BY <2>1 DEF MemorySound, ItemSound
    <3>1. mem[p][a] \in Item /\ ItemSound(mem[p][a], a)
      BY DEF TypeOK, FreshInv, MemorySound
    <3> QED BY <3>1, <2>1, <2>4 DEF ItemSound
  <2>6. ASSUME NEW a \in Paths PROVE PickleSound(a)'
    <3>1. PickleSound(a) /\ (disk[a] # NoPickle => disk[a].content \in Item \cup {NoItem})
      BY DEF TypeOK, FreshInv, Pickle
    <3> QED BY <3>1, <2>1, <2>2, <2>4 DEF PickleSound, ItemSound
  <2>7. ASSUME NEW p \in Procs PROVE ProcessSound(p)'
    <3>1. ProcessSound(p)
      BY DEF FreshInv
    <3> QED BY <3>1, <2>1, <2>2 DEF ProcessSound, Cached, PickleOf
  <2> QED BY <2>3, <2>5, <2>6, <2>7 DEF FreshInv
<1>3. CASE UNCHANGED vars
  BY <1>3 DEF vars, FreshInv, FilesSound, MemorySound, PickleSound, ProcessSound, ItemSound,
     Cached, PickleOf
<1> QED BY <1>1, <1>2, <1>3, ForgetStep, RemoveStep, CallStep, SourceStep DEF Next

LEMMA FreshInit == Init => FreshInv
PROOF
<1> SUFFICES ASSUME Init PROVE FreshInv
  OBVIOUS
<1>1. FilesSound
  BY DEF Init, FilesSound
<1>2. \A p \in Procs : MemorySound(p) /\ ProcessSound(p)
  BY DEF Init, EmptyCache, MemorySound, ProcessSound
<1>3. \A a \in Paths : PickleSound(a)
  BY DEF Init, PickleSound
<1> QED BY <1>1, <1>2, <1>3 DEF FreshInv

\* The inductive invariant holds in every reachable state.
THEOREM FreshInvariant == ASSUME QuietSources PROVE Spec => []FreshInv
PROOF
<1> USE FreshInit, FreshStep
<1> QED BY TypeCorrect, PTL DEF Spec

\* parse never returns a tree older than the file was when parse was called, if
\* nobody edits a file between the reading of it and the writing of its pickle:
\* for any number of processes and files, through crashes and clear_cache.
THEOREM FreshTrees == ASSUME QuietSources PROVE Spec => []FreshResult
PROOF
<1>1. FreshInv => FreshResult
  BY DEF FreshInv, ProcessSound, FreshResult
<1> QED BY <1>1, FreshInvariant, PTL

\* Nor is there ever a current item in RAM, or a current pickle on the disk, of
\* a tree that is out of date.
THEOREM FreshCaches == ASSUME QuietSources PROVE Spec => []FreshItems
PROOF
<1>1. FreshInv => FreshItems
  BY DEF FreshInv, MemorySound, PickleSound, ItemSound, FreshItems
<1> QED BY <1>1, FreshInvariant, PTL
=============================================================================
