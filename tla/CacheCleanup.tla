---------------------------- MODULE CacheCleanup ----------------------------
(***************************************************************************)
(* What a parse does to the directory of the cache: the directory is made,  *)
(* the pickle is read or written and, once a day, the pickles nobody has    *)
(* read for a month are removed.  Several processes share the directory and *)
(* its lock file, any file may be deleted at any time, and every call of    *)
(* the file system, which is one action each, may fail.                     *)
(***************************************************************************)
EXTENDS Naturals, FiniteSets

CONSTANTS
  Procs,               \* processes that use parso
  Pickles,             \* the names a pickle can have
  Threshold,           \* _CACHE_CLEAR_THRESHOLD, in clock ticks
  MaxSurvival,         \* _CACHED_FILE_MAXIMUM_SURVIVAL
  MaxClock,            \* bound: when the clock stops
  Absent               \* no such file, or no such time

ASSUME CleanupAssumption ==
  /\ Threshold \in Nat \ {0}
  /\ MaxSurvival \in Nat \ {0}
  /\ MaxClock \in Nat
  /\ Absent \notin Nat \cup Pickles

VARIABLES
  clock,
  root,                \* whether cache_path exists
  directory,           \* whether its directory of this version exists
  lock,                \* mtime of PARSO-CACHE-LOCK, or Absent
  atime,               \* pickle -> st_atime, or Absent
  pc,                  \* process -> the call of the file system it makes next
  saving,              \* process -> whether it saves or loads a pickle
  todo,                \* process -> entries os.scandir has still to yield
  entry,               \* process -> the entry it is about to remove, or Absent
  began,               \* history: process -> when its clear_inactive_cache began
  kept,                \* history: process -> entries its os.remove failed on
  touched              \* history: process -> when it last called os.utime on a
                       \* lock that has not been deleted since

files == <<root, directory, lock, atime>>
locals == <<saving, todo, entry, began, kept>>
vars == <<clock, files, pc, locals, touched>>

Init ==
  /\ clock = 0
  /\ root = FALSE /\ directory = FALSE
  /\ lock = Absent
  /\ atime = [a \in Pickles |-> Absent]
  /\ pc = [p \in Procs |-> "idle"]
  /\ saving = [p \in Procs |-> FALSE]
  /\ todo = [p \in Procs |-> {}]
  /\ entry = [p \in Procs |-> Absent]
  /\ began = [p \in Procs |-> 0]
  /\ kept = [p \in Procs |-> {}]
  /\ touched = [p \in Procs |-> Absent]

Goto(p, where) == pc' = [pc EXCEPT ![p] = where]

Entries == {a \in Pickles : atime[a] # Absent}

-----------------------------------------------------------------------------
(* _load_from_file_system and _save_to_file_system                          *)

\* A parse asks for a pickle, or has parsed and saves one.
Begin(p) ==
  /\ pc[p] = "idle"
  /\ \E s \in BOOLEAN : saving' = [saving EXCEPT ![p] = s]
  /\ Goto(p, "exists")
  /\ UNCHANGED <<clock, files, todo, entry, began, kept, touched>>

\* _get_cache_directory_path: if not directory.exists()
DirectoryExists(p) ==
  /\ pc[p] = "exists"
  /\ Goto(p, IF directory THEN "open" ELSE "make root")
  /\ UNCHANGED <<clock, files, locals, touched>>

\* os.makedirs makes the parents first and does not mind if they are there.
MakeRoot(p) ==
  /\ pc[p] = "make root"
  /\ root' = TRUE
  /\ Goto(p, "make directory")
  /\ UNCHANGED <<clock, directory, lock, atime, locals, touched>>

\* Then FileExistsError if another process was faster, FileNotFoundError if the
\* parent is gone again.
MakeDirectory(p) ==
  /\ pc[p] = "make directory"
  /\ IF root /\ ~directory
     THEN Goto(p, "open") /\ directory' = TRUE
     ELSE Goto(p, "raised") /\ UNCHANGED directory
  /\ UNCHANGED <<clock, root, lock, atime, locals, touched>>

\* A pickle that is absent or outdated is not read; one that is read gets a new
\* access time, unless the file system is mounted without.
ReadPickle(p) ==
  /\ pc[p] = "open" /\ ~saving[p]
  /\ \/ UNCHANGED atime
     \/ \E a \in Entries : atime' = [atime EXCEPT ![a] = clock]
  /\ Goto(p, "idle")
  /\ UNCHANGED <<clock, root, directory, lock, locals, touched>>

\* open(..., 'wb') and pickle.dump: FileNotFoundError without the directory;
\* when dump fails, the file is there nevertheless.  Writing a file that exists
\* does not count as an access to it.
WritePickle(p) ==
  /\ pc[p] = "open" /\ saving[p]
  /\ IF directory
     THEN /\ \E a \in Pickles :
               atime' = [atime EXCEPT ![a] = IF @ = Absent THEN clock ELSE @]
          /\ \E after \in {"lock", "raised"} : Goto(p, after)
     ELSE Goto(p, "raised") /\ UNCHANGED atime
  /\ UNCHANGED <<clock, root, directory, lock, locals, touched>>

\* PermissionError of a save: a warning, and no cleanup.
SaveDenied(p) ==
  /\ pc[p] \in {"exists", "make root", "make directory", "open"} /\ saving[p]
  /\ Goto(p, "idle")
  /\ UNCHANGED <<clock, files, locals, touched>>

-----------------------------------------------------------------------------
(* _remove_cache_and_update_lock                                            *)

Due == lock = Absent \/ lock + Threshold <= clock

CheckLock(p) ==
  /\ pc[p] = "lock"
  /\ Goto(p, IF Due THEN "utime" ELSE "idle")
  /\ UNCHANGED <<clock, files, locals, touched>>

\* Mistake: only open(path, 'a'), which leaves the time of a lock that exists.
UtimeNever(p) ==
  /\ pc[p] = "utime"
  /\ touched' = [touched EXCEPT ![p] = clock]
  /\ Goto(p, "append")
  /\ UNCHANGED <<clock, files, locals>>

\* _touch: os.utime
Utime(p) ==
  /\ pc[p] = "utime"
  /\ touched' = [touched EXCEPT ![p] = clock]
  /\ IF lock = Absent
     THEN Goto(p, "append") /\ UNCHANGED lock
     ELSE Goto(p, "clear") /\ lock' = clock
  /\ UNCHANGED <<clock, root, directory, atime, locals>>

\* _touch: open(path, 'a') makes a lock, or leaves the time of one that another
\* process has made since.
AppendLock(p) ==
  /\ pc[p] = "append"
  /\ root
  /\ lock' = IF lock = Absent THEN clock ELSE lock
  /\ Goto(p, "clear")
  /\ UNCHANGED <<clock, root, directory, atime, locals, touched>>

\* Any OSError of open, among them that cache_path is gone: no cleanup.
AppendFails(p) ==
  /\ pc[p] = "append"
  /\ touched' = [touched EXCEPT ![p] = Absent]
  /\ Goto(p, "idle")
  /\ UNCHANGED <<clock, files, locals>>

-----------------------------------------------------------------------------
(* clear_inactive_cache                                                     *)

\* if not cache_path.exists(): return False
RootExists(p) ==
  /\ pc[p] = "clear"
  /\ began' = [began EXCEPT ![p] = clock]
  /\ Goto(p, IF root THEN "listdir" ELSE "return")
  /\ UNCHANGED <<clock, files, saving, todo, entry, kept, touched>>

\* os.listdir(cache_path): the lock file, skipped, and what versions there are
ListDir(p) ==
  /\ pc[p] = "listdir"
  /\ Goto(p, IF ~root THEN "raised" ELSE IF directory THEN "is_dir" ELSE "cleared")
  /\ UNCHANGED <<clock, files, locals, touched>>

IsDir(p) ==
  /\ pc[p] = "is_dir"
  /\ Goto(p, IF directory THEN "scandir" ELSE "cleared")
  /\ UNCHANGED <<clock, files, locals, touched>>

\* os.scandir(version_path), which reads the list of names at once
ScanDir(p) ==
  /\ pc[p] = "scandir"
  /\ todo' = [todo EXCEPT ![p] = Entries]
  /\ Goto(p, IF directory THEN "stat" ELSE "raised")
  /\ UNCHANGED <<clock, files, saving, entry, began, kept, touched>>

\* file.stat() is outside the try: FileNotFoundError for an entry that is gone.
StatEntry(p) ==
  /\ pc[p] = "stat"
  /\ \E a \in todo[p] :
       /\ todo' = [todo EXCEPT ![p] = @ \ {a}]
       /\ IF a \in Entries /\ atime[a] + MaxSurvival <= clock
          THEN Goto(p, "remove") /\ entry' = [entry EXCEPT ![p] = a]
          ELSE Goto(p, IF a \in Entries THEN "stat" ELSE "raised") /\ UNCHANGED entry
  /\ UNCHANGED <<clock, files, saving, began, kept, touched>>

\* os.remove; an entry that is gone is one of the failures that are ignored.
RemoveEntry(p) ==
  /\ pc[p] = "remove"
  /\ atime' = [atime EXCEPT ![entry[p]] = Absent]
  /\ entry' = [entry EXCEPT ![p] = Absent]
  /\ Goto(p, "stat")
  /\ UNCHANGED <<clock, root, directory, lock, saving, todo, began, kept, touched>>

\* Mistake: break instead of continue.
RemoveFailsBreak(p) ==
  /\ pc[p] = "remove"
  /\ kept' = [kept EXCEPT ![p] = @ \cup {entry[p]}]
  /\ entry' = [entry EXCEPT ![p] = Absent]
  /\ Goto(p, "cleared")
  /\ UNCHANGED <<clock, files, saving, todo, began, touched>>

\* Every other OSError of os.remove is ignored as well, and the file stays.
RemoveFails(p) ==
  /\ pc[p] = "remove"
  /\ kept' = [kept EXCEPT ![p] = @ \cup {entry[p]}]
  /\ entry' = [entry EXCEPT ![p] = Absent]
  /\ Goto(p, "stat")
  /\ UNCHANGED <<clock, files, saving, todo, began, touched>>

ScanDone(p) ==
  /\ pc[p] = "stat"
  /\ todo[p] = {}
  /\ Goto(p, "cleared")
  /\ UNCHANGED <<clock, files, locals, touched>>

-----------------------------------------------------------------------------
(* What a call does when it fails, unless an action above says so: the      *)
(* OSError leaves parse.                                                    *)

Raises(p) ==
  /\ pc[p] \in {"exists", "make root", "make directory", "open", "lock", "utime", "clear",
                "listdir", "is_dir", "scandir", "stat"}
  /\ Goto(p, "raised")
  /\ UNCHANGED <<clock, files, locals, touched>>

\* The locals of a call that is over are gone.
Return(p) ==
  /\ pc[p] \in {"return", "cleared", "raised"}
  /\ Goto(p, "idle")
  /\ todo' = [todo EXCEPT ![p] = {}]
  /\ kept' = [kept EXCEPT ![p] = {}]
  /\ began' = [began EXCEPT ![p] = 0]
  /\ UNCHANGED <<clock, files, saving, entry, touched>>

-----------------------------------------------------------------------------
(* clear_cache, or the system freeing disk space: the files go one by one,  *)
(* in any order, and a directory when it is empty.                          *)

DeletePickle ==
  /\ \E a \in Entries : atime' = [atime EXCEPT ![a] = Absent]
  /\ UNCHANGED <<clock, root, directory, lock, pc, locals, touched>>

\* History: what was touched is gone, except by who is about to make a new lock.
DeleteLock ==
  /\ lock # Absent
  /\ lock' = Absent
  /\ touched' = [p \in Procs |-> IF pc[p] = "append" THEN touched[p] ELSE Absent]
  /\ UNCHANGED <<clock, root, directory, atime, pc, locals>>

DeleteDirectories ==
  /\ \/ directory /\ Entries = {} /\ directory' = FALSE /\ UNCHANGED root
     \/ root /\ ~directory /\ lock = Absent /\ root' = FALSE /\ UNCHANGED directory
  /\ UNCHANGED <<clock, lock, atime, pc, locals, touched>>

Tick ==
  /\ clock < MaxClock
  /\ clock' = clock + 1
  /\ UNCHANGED <<files, pc, locals, touched>>

Step(p) ==
  \/ Begin(p) \/ DirectoryExists(p) \/ MakeRoot(p) \/ MakeDirectory(p)
  \/ ReadPickle(p) \/ WritePickle(p) \/ SaveDenied(p)
  \/ CheckLock(p) \/ Utime(p) \/ AppendLock(p) \/ AppendFails(p)
  \/ RootExists(p) \/ ListDir(p) \/ IsDir(p) \/ ScanDir(p)
  \/ StatEntry(p) \/ RemoveEntry(p) \/ RemoveFails(p) \/ ScanDone(p)
  \/ Raises(p) \/ Return(p)

Next ==
  \/ \E p \in Procs : Step(p)
  \/ DeletePickle \/ DeleteLock \/ DeleteDirectories
  \/ Tick

Spec == Init /\ [][Next]_vars

-----------------------------------------------------------------------------
\* A process calls os.utime on the lock ("only allow garbage collection once a
\* day") at least the threshold after it did so for its last cleanup, unless the
\* lock was deleted in between: however its steps and those of the others
\* interleave between reading the lock's time and setting it, also when its
\* os.utime finds no lock and its open finds the lock of another process.
CleanupSpacing ==
  [][\A p \in Procs :
       (pc[p] = "utime" /\ pc'[p] \in {"append", "clear"} /\ touched[p] # Absent) =>
         touched[p] + Threshold <= clock]_vars

\* A cleanup that comes to its end leaves no pickle that nobody had read for
\* the maximum survival when it began, except where os.remove failed, whatever
\* was read, saved or removed by others during the scan.
CleanupComplete ==
  \A p \in Procs : pc[p] = "cleared" =>
    \A a \in Entries \ kept[p] : atime[a] + MaxSurvival > began[p]
=============================================================================
