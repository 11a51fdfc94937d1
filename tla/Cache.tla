-------------------------------- MODULE Cache --------------------------------
(***************************************************************************)
(* Grammar.parse(path=..., cache=True) in several processes that share a    *)
(* cache directory (cache.py, grammar.py, file_io.py).  Every process has   *)
(* its own parser_cache in RAM; the pickles on disk are shared and written  *)
(* in place.  One action per step between which another process, or whoever *)
(* edits the source file, can do something: a call of the file system.      *)
(*                                                                         *)
(* A tree is the version of the source file it was parsed from.             *)
(***************************************************************************)
EXTENDS Integers, FiniteSets

CONSTANTS
  Procs,               \* processes that use parso
  Paths,               \* source files
  SizeTrigger,         \* _CACHED_SIZE_TRIGGER
  Survival,            \* _CACHED_FILE_MINIMUM_SURVIVAL, in clock ticks
  MaxVersion,          \* bound: how often a source file is written
  MaxClock,            \* bound: when the clock stops ticking by itself
  QuietSources,        \* files are left alone while they are being parsed
  NoItem,              \* no cache item, in RAM or in a pickle
  NoPickle,            \* no file in the cache directory
  NoPath               \* of a process that is not parsing

ASSUME CacheAssumption ==
  /\ SizeTrigger \in Nat
  /\ Survival \in Nat
  /\ MaxVersion \in Nat
  /\ MaxClock \in Nat
  /\ QuietSources \in BOOLEAN
  /\ NoPath \notin Paths

Item == [version : Nat, change : Nat, used : Nat]
\* _NodeCacheItem: the tree, change_time and last_used

ASSUME SentinelAssumption ==
  /\ NoItem \notin Item
  /\ NoPickle \notin [content : Item \cup {NoItem}, mtime : Nat,
                      writers : SUBSET Procs, shared : BOOLEAN]

VARIABLES
  clock,               \* time.time()
  file,                \* path -> the source file
  disk,                \* path -> its pickle; a torn one has content NoItem
  mem,                 \* process -> path -> item: parser_cache
  pc,                  \* process -> where it is in Grammar.parse
  path,                \* process -> the path it parses
  ptime,               \* process -> p_time of load_module
  got,                 \* process -> the version it read, or returns
  seen                 \* history: process -> the version when the call began

vars == <<clock, file, disk, mem, pc, path, ptime, got, seen>>

Pickle == [content : Item \cup {NoItem}, mtime : Nat,
           writers : SUBSET Procs, shared : BOOLEAN]

PC == {"idle", "stat", "disk", "load", "read", "save", "open", "write",
       "return", "no file", "load error", "os error"}

TypeOK ==
  /\ clock \in Nat
  /\ file \in [Paths -> [version : Nat, mtime : Nat, present : BOOLEAN]]
  /\ disk \in [Paths -> Pickle \cup {NoPickle}]
  /\ mem \in [Procs -> [Paths -> Item \cup {NoItem}]]
  /\ pc \in [Procs -> PC]
  /\ path \in [Procs -> Paths \cup {NoPath}]
  /\ ptime \in [Procs -> Nat]
  /\ got \in [Procs -> Nat]
  /\ seen \in [Procs -> Nat]
  /\ \A p \in Procs : pc[p] # "idle" => path[p] \in Paths

EmptyCache == [a \in Paths |-> NoItem]

Init ==
  /\ clock = 1
  /\ file = [a \in Paths |-> [version |-> 1, mtime |-> 1, present |-> TRUE]]
  /\ disk = [a \in Paths |-> NoPickle]
  /\ mem = [p \in Procs |-> EmptyCache]
  /\ pc = [p \in Procs |-> "idle"]
  /\ path = [p \in Procs |-> NoPath]
  /\ ptime = [p \in Procs |-> 0]
  /\ got = [p \in Procs |-> 0]
  /\ seen = [p \in Procs |-> 0]

-----------------------------------------------------------------------------
(* The world around the processes.                                          *)

\* Between reading the source and having written the pickle of its tree.
Parsing(p, a) == path[p] = a /\ pc[p] \in {"save", "open", "write"}

MayChange(a) == QuietSources => \A p \in Procs : ~Parsing(p, a)

\* The clock is fine enough to tell a write from all that happened before it.
Modify(a) ==
  /\ file[a].version < MaxVersion
  /\ MayChange(a)
  /\ clock' = clock + 1
  /\ file' = [file EXCEPT ![a] = [version |-> @.version + 1, mtime |-> clock', present |-> TRUE]]
  /\ UNCHANGED <<disk, mem, pc, path, ptime, got, seen>>

Delete(a) ==
  /\ file[a].present
  /\ MayChange(a)
  /\ file' = [file EXCEPT ![a].present = FALSE]
  /\ UNCHANGED <<clock, disk, mem, pc, path, ptime, got, seen>>

Tick ==
  /\ clock < MaxClock
  /\ clock' = clock + 1
  /\ UNCHANGED <<file, disk, mem, pc, path, ptime, got, seen>>

\* The pickle a process was writing stays as it is.
LetGo(p) ==
  disk' = [a \in Paths |-> IF disk[a] = NoPickle
                           THEN NoPickle
                           ELSE [disk[a] EXCEPT !.writers = @ \ {p}]]

\* A process ends, at any step, and another one takes its place.
Crash(p) ==
  /\ mem' = [mem EXCEPT ![p] = EmptyCache]
  /\ LetGo(p)
  /\ pc' = [pc EXCEPT ![p] = "idle"]
  /\ path' = [path EXCEPT ![p] = NoPath]
  /\ UNCHANGED <<clock, file, ptime, got, seen>>

-----------------------------------------------------------------------------
(* load_module                                                              *)

Goto(p, where) == pc' = [pc EXCEPT ![p] = where]

Answer(p, version) ==
  /\ got' = [got EXCEPT ![p] = version]
  /\ Goto(p, "return")

Call(p, a) ==
  /\ pc[p] = "idle"
  /\ path' = [path EXCEPT ![p] = a]
  /\ seen' = [seen EXCEPT ![p] = file[a].version]
  /\ Goto(p, "stat")
  /\ UNCHANGED <<clock, file, disk, mem, ptime, got>>

SourceFile(p) == file[path[p]]
Cached(p) == mem[p][path[p]]
PickleOf(p) == disk[path[p]]

\* p_time is None: load_module gives up, and parse goes on to read the file.
StatMissing(p) ==
  /\ pc[p] = "stat"
  /\ ~SourceFile(p).present
  /\ Goto(p, "read")
  /\ UNCHANGED <<clock, file, disk, mem, path, ptime, got, seen>>

\* Mistake: no look at p_time.
MemoryHitAnyTime(p) ==
  /\ pc[p] = "stat"
  /\ SourceFile(p).present
  /\ Cached(p) # NoItem
  /\ mem' = [mem EXCEPT ![p][path[p]].used = clock]
  /\ Answer(p, Cached(p).version)
  /\ UNCHANGED <<clock, file, disk, path, ptime, seen>>

\* Mistake: last_used is not set.
MemoryHitUnused(p) ==
  /\ pc[p] = "stat"
  /\ SourceFile(p).present
  /\ Cached(p) # NoItem
  /\ SourceFile(p).mtime <= Cached(p).change
  /\ Answer(p, Cached(p).version)
  /\ UNCHANGED <<clock, file, disk, mem, path, ptime, seen>>

MemoryHit(p) ==
  /\ pc[p] = "stat"
  /\ SourceFile(p).present
  /\ Cached(p) # NoItem
  /\ SourceFile(p).mtime <= Cached(p).change
  /\ mem' = [mem EXCEPT ![p][path[p]].used = clock]
  /\ Answer(p, Cached(p).version)
  /\ UNCHANGED <<clock, file, disk, path, ptime, seen>>

\* An outdated item in RAM: None, without a look at the disk.
MemoryOutdated(p) ==
  /\ pc[p] = "stat"
  /\ SourceFile(p).present
  /\ Cached(p) # NoItem
  /\ SourceFile(p).mtime > Cached(p).change
  /\ Goto(p, "read")
  /\ UNCHANGED <<clock, file, disk, mem, path, ptime, got, seen>>

MemoryMiss(p) ==
  /\ pc[p] = "stat"
  /\ SourceFile(p).present
  /\ Cached(p) = NoItem
  /\ ptime' = [ptime EXCEPT ![p] = SourceFile(p).mtime]
  /\ Goto(p, "disk")
  /\ UNCHANGED <<clock, file, disk, mem, path, got, seen>>

\* Mistake: a pickle is good if it exists.
DiskStatExists(p) ==
  /\ pc[p] = "disk"
  /\ Goto(p, IF PickleOf(p) # NoPickle THEN "load" ELSE "read")
  /\ UNCHANGED <<clock, file, disk, mem, path, ptime, got, seen>>

\* p_time > os.path.getmtime(cache_path), or FileNotFoundError
DiskStat(p) ==
  /\ pc[p] = "disk"
  /\ IF PickleOf(p) # NoPickle /\ ptime[p] <= PickleOf(p).mtime
     THEN Goto(p, "load")
     ELSE Goto(p, "read")
  /\ UNCHANGED <<clock, file, disk, mem, path, ptime, got, seen>>

\* _set_cache_item: the garbage collection, then the new item.
Collected(items) ==
  [a \in Paths |-> IF items[a] # NoItem /\ items[a].used <= clock - Survival
                   THEN NoItem
                   ELSE items[a]]

SetCacheItem(p, item) ==
  LET items == mem[p]
      full == Cardinality({a \in Paths : items[a] # NoItem}) >= SizeTrigger
      kept == IF full THEN Collected(items) ELSE items
  IN mem' = [mem EXCEPT ![p] = [kept EXCEPT ![path[p]] = item]]

LoadPickle(p) ==
  /\ pc[p] = "load"
  /\ PickleOf(p) # NoPickle
  /\ PickleOf(p).content # NoItem
  /\ SetCacheItem(p, PickleOf(p).content)
  /\ Answer(p, PickleOf(p).content.version)
  /\ UNCHANGED <<clock, file, disk, path, ptime, seen>>

\* pickle.load on a file that is empty or incomplete: no FileNotFoundError.
LoadTorn(p) ==
  /\ pc[p] = "load"
  /\ PickleOf(p) # NoPickle
  /\ PickleOf(p).content = NoItem
  /\ Goto(p, "load error")
  /\ UNCHANGED <<clock, file, disk, mem, path, ptime, got, seen>>

\* Mistake: look again until it is there.
LoadDeletedRetry(p) ==
  /\ pc[p] = "load"
  /\ PickleOf(p) = NoPickle
  /\ Goto(p, "stat")
  /\ UNCHANGED <<clock, file, disk, mem, path, ptime, got, seen>>

\* The pickle was deleted after its time was read.
LoadDeleted(p) ==
  /\ pc[p] = "load"
  /\ PickleOf(p) = NoPickle
  /\ Goto(p, "read")
  /\ UNCHANGED <<clock, file, disk, mem, path, ptime, got, seen>>

-----------------------------------------------------------------------------
(* Reading, parsing and try_to_save_module                                  *)

ReadSource(p) ==
  /\ pc[p] = "read"
  /\ SourceFile(p).present
  /\ got' = [got EXCEPT ![p] = SourceFile(p).version]
  /\ Goto(p, "save")
  /\ UNCHANGED <<clock, file, disk, mem, path, ptime, seen>>

ReadMissing(p) ==
  /\ pc[p] = "read"
  /\ ~SourceFile(p).present
  /\ Goto(p, "no file")
  /\ UNCHANGED <<clock, file, disk, mem, path, ptime, got, seen>>

\* p_time is read again, after the parse; without it the item counts as new.
ChangeTime(p) == IF SourceFile(p).present THEN SourceFile(p).mtime ELSE clock

SaveItem(p) ==
  /\ pc[p] = "save"
  /\ SetCacheItem(p, [version |-> got[p], change |-> ChangeTime(p), used |-> ChangeTime(p)])
  /\ Goto(p, "open")
  /\ UNCHANGED <<clock, file, disk, path, ptime, got, seen>>

\* OSError of get_last_modified: an item that counts as new, and no pickle.
SaveItemInRam(p) ==
  /\ pc[p] = "save"
  /\ SetCacheItem(p, [version |-> got[p], change |-> clock, used |-> clock])
  /\ Goto(p, "return")
  /\ UNCHANGED <<clock, file, disk, path, ptime, got, seen>>

\* open(..., 'wb') truncates the file in place, whoever else has it open.
OpenPickle(p) ==
  /\ pc[p] = "open"
  /\ LET others == IF PickleOf(p) = NoPickle THEN {} ELSE PickleOf(p).writers
     IN disk' = [disk EXCEPT ![path[p]] =
                   [content |-> NoItem, mtime |-> clock,
                    writers |-> others \cup {p}, shared |-> others \ {p} # {}]]
  /\ Goto(p, "write")
  /\ UNCHANGED <<clock, file, mem, path, ptime, got, seen>>

\* PermissionError: a warning; the tree is in RAM all the same.
OpenDenied(p) ==
  /\ pc[p] = "open"
  /\ Goto(p, "return")
  /\ UNCHANGED <<clock, file, disk, mem, path, ptime, got, seen>>

Written(p, content) ==
  [content |-> content, mtime |-> clock,
   writers |-> PickleOf(p).writers \ {p}, shared |-> PickleOf(p).shared]

\* pickle.dump and close.  What two processes write at once may be a mixture;
\* what is written to a file deleted meanwhile is lost.
WritePickle(p) ==
  /\ pc[p] = "write"
  /\ \E torn \in BOOLEAN :
       /\ torn => PickleOf(p) # NoPickle /\ PickleOf(p).shared
       /\ disk' = IF PickleOf(p) = NoPickle \/ p \notin PickleOf(p).writers
                  THEN disk
                  ELSE [disk EXCEPT ![path[p]] =
                          Written(p, IF torn THEN NoItem ELSE Cached(p))]
  /\ Goto(p, "return")
  /\ UNCHANGED <<clock, file, mem, path, ptime, got, seen>>

\* Any other OSError of a call of the file system leaves parse: a PermissionError
\* of load_module or of the source file, a full disk.
CallFails(p) ==
  /\ pc[p] \in {"stat", "disk", "load", "read", "open", "write"}
  /\ LetGo(p)
  /\ Goto(p, "os error")
  /\ UNCHANGED <<clock, file, mem, path, ptime, got, seen>>

\* parse returns the tree, or lets the exception through.
Return(p) ==
  /\ pc[p] \in {"return", "no file", "load error", "os error"}
  /\ Goto(p, "idle")
  /\ path' = [path EXCEPT ![p] = NoPath]
  /\ UNCHANGED <<clock, file, disk, mem, ptime, got, seen>>

\* clear_cache, between two calls of parse
ClearCache(p) ==
  /\ pc[p] = "idle"
  /\ disk' = [a \in Paths |-> NoPickle]
  /\ mem' = [mem EXCEPT ![p] = EmptyCache]
  /\ UNCHANGED <<clock, file, pc, path, ptime, got, seen>>

\* clear_inactive_cache of any process, for a pickle nobody has read for long;
\* CacheCleanup has its steps.
RemoveInactive(a) ==
  /\ disk[a] # NoPickle
  /\ disk' = [disk EXCEPT ![a] = NoPickle]
  /\ UNCHANGED <<clock, file, mem, pc, path, ptime, got, seen>>

-----------------------------------------------------------------------------
LoadModule(p) ==
  \/ StatMissing(p) \/ MemoryHit(p) \/ MemoryOutdated(p) \/ MemoryMiss(p)
  \/ DiskStat(p) \/ LoadPickle(p) \/ LoadTorn(p) \/ LoadDeleted(p)

TryToSaveModule(p) ==
  SaveItem(p) \/ SaveItemInRam(p) \/ OpenPickle(p) \/ OpenDenied(p) \/ WritePickle(p)

ParseStep(p) ==
  \/ LoadModule(p) \/ ReadSource(p) \/ ReadMissing(p) \/ TryToSaveModule(p)
  \/ CallFails(p) \/ Return(p)

Next ==
  \/ \E p \in Procs : ParseStep(p) \/ ClearCache(p) \/ Crash(p)
  \/ \E p \in Procs, a \in Paths : Call(p, a)
  \/ \E a \in Paths : Modify(a) \/ Delete(a) \/ RemoveInactive(a)
  \/ Tick

Spec == Init /\ [][Next]_vars

\* A process that is in a call goes on with it; nobody has to call or to edit.
FairSpec == Spec /\ \A p \in Procs : WF_vars(ParseStep(p))

-----------------------------------------------------------------------------
\* A tree that parse returns is not older than the file was when parse was
\* called: "Returns the cached trees if the corresponding files on disk have
\* not changed".  Through RAM, through a pickle of any process, after crashes.
FreshResult == \A p \in Procs : pc[p] = "return" => got[p] >= seen[p]

\* What is in RAM and counts as current is current, and so is a pickle no
\* younger than its source file, whichever process wrote it.
FreshItems ==
  \A a \in Paths :
    /\ \A p \in Procs :
         (mem[p][a] # NoItem /\ mem[p][a].change >= file[a].mtime) =>
           mem[p][a].version = file[a].version
    /\ (disk[a] # NoPickle /\ disk[a].content # NoItem /\ disk[a].mtime >= file[a].mtime) =>
         disk[a].content.version = file[a].version

\* Why: nothing is ever newer than the clock; an item that counts as current
\* against the file's mtime is current; what a process has read stays current
\* until its pickle is written; and a pickle young enough for the p_time that
\* a process has in hand is young enough for its call.
ItemSound(item, a) ==
  /\ item.version <= file[a].version
  /\ item.change <= clock
  /\ (item.change >= file[a].mtime) => (item.version = file[a].version)

PickleSound(a) ==
  disk[a] # NoPickle =>
    /\ disk[a].mtime <= clock
    /\ disk[a].content # NoItem =>
         /\ ItemSound(disk[a].content, a)
         /\ (disk[a].mtime >= file[a].mtime) => (disk[a].content.version = file[a].version)

ProcessSound(p) ==
  /\ pc[p] # "idle" => seen[p] <= file[path[p]].version
  /\ pc[p] \in {"save", "open", "write"} => got[p] = file[path[p]].version
  /\ pc[p] \in {"open", "write"} => Cached(p) # NoItem /\ Cached(p).version = got[p]
  /\ (/\ pc[p] \in {"disk", "load"}
      /\ PickleOf(p) # NoPickle
      /\ ptime[p] <= PickleOf(p).mtime
      /\ PickleOf(p).content # NoItem) => PickleOf(p).content.version >= seen[p]
  /\ pc[p] \in {"disk", "load"} => ptime[p] <= clock
  /\ (pc[p] = "load" /\ PickleOf(p) # NoPickle) => ptime[p] <= PickleOf(p).mtime
  /\ pc[p] = "return" => got[p] >= seen[p]

FilesSound == \A a \in Paths : file[a].mtime <= clock

MemorySound(p) == \A a \in Paths : mem[p][a] # NoItem => ItemSound(mem[p][a], a)

FreshInv ==
  /\ FilesSound
  /\ \A p \in Procs : MemorySound(p)
  /\ \A a \in Paths : PickleSound(a)
  /\ \A p \in Procs : ProcessSound(p)

\* A parse that was called ends, however many others run: no process waits
\* for another one.
ParseReturns == \A p \in Procs : pc[p] = "stat" ~> pc[p] = "idle"

\* "Returns a module or None, if it fails."
LoadModuleNeverFails == \A p \in Procs : pc[p] # "load error"
=============================================================================
