---------------------------- MODULE CleanupProofs ----------------------------
(***************************************************************************)
(* Theorems about CacheCleanup, for any number of processes and pickles,    *)
(* any threshold and any survival.                                          *)
(***************************************************************************)
EXTENDS CacheCleanup, TLAPS

Time == Nat \cup {Absent}

PC == {"idle", "exists", "make root", "make directory", "open", "lock", "utime", "append",
       "clear", "listdir", "is_dir", "scandir", "stat", "remove",
       "return", "cleared", "raised"}

Types ==
  /\ clock \in Nat
  /\ root \in BOOLEAN
  /\ directory \in BOOLEAN
  /\ lock \in Time
  /\ atime \in [Pickles -> Time]
  /\ pc \in [Procs -> PC]
  /\ saving \in [Procs -> BOOLEAN]
  /\ todo \in [Procs -> SUBSET Pickles]
  /\ entry \in [Procs -> Pickles \cup {Absent}]
  /\ began \in [Procs -> Nat]
  /\ kept \in [Procs -> SUBSET Pickles]
  /\ touched \in [Procs -> Time]

-----------------------------------------------------------------------------
(* The inductive invariant.                                                 *)

\* Pickles lie in the directory, and the lock is not of the future.
FilesOK ==
  /\ Entries # {} => directory
  /\ lock # Absent => lock <= clock

\* What a process has touched others can only have made younger; only between
\* its os.utime and its open can there be no lock.
LockKept(p) ==
  touched[p] # Absent =>
    /\ touched[p] <= clock
    /\ lock # Absent => touched[p] <= lock
    /\ lock = Absent => pc[p] = "append"

\* Who is about to touch the lock has seen it old, or not at all.
TouchDue(p) ==
  (pc[p] = "utime" /\ touched[p] # Absent) => touched[p] + Threshold <= clock

\* What the scan of p has looked at and kept, and what has come since, was read
\* recently enough, unless its removal failed.
ScanKept(p) ==
  pc[p] \in {"stat", "remove", "cleared"} =>
    \A a \in Entries \ kept[p] :
      \/ pc[p] # "cleared" /\ a \in todo[p]
      \/ pc[p] = "remove" /\ a = entry[p]
      \/ atime[a] + MaxSurvival > began[p]

\* Only an entry of the listing is removed.
EntryFound(p) == pc[p] = "remove" => entry[p] \in Pickles

ProcessOK(p) ==
  /\ began[p] <= clock /\ EntryFound(p)
  /\ LockKept(p) /\ TouchDue(p) /\ ScanKept(p)

Inv == Types /\ FilesOK /\ \A p \in Procs : ProcessOK(p)

-----------------------------------------------------------------------------
LEMMA InitInv == Init => Inv
<1> SUFFICES ASSUME Init PROVE Inv
  OBVIOUS
<1>1. Types
  BY DEF Init, Types, Time, PC
<1>2. FilesOK
  BY DEF Init, FilesOK, Entries
<1>3. \A p \in Procs : pc[p] = "idle" /\ began[p] = 0 /\ touched[p] = Absent /\ clock = 0
  BY DEF Init
<1>4. \A p \in Procs : ProcessOK(p)
  BY <1>3 DEF ProcessOK, EntryFound, LockKept, TouchDue, ScanKept
<1> QED
  BY <1>1, <1>2, <1>4 DEF Inv

\* What is read or written now is younger than the start of any cleanup.
LEMMA YoungEntry ==
  ASSUME Inv, NEW p \in Procs
  PROVE  clock + MaxSurvival > began[p]
BY CleanupAssumption DEF Inv, Types, ProcessOK

\* What others do to the pickles leaves a process where it was: they are read
\* or written now, or removed.
LEMMA OtherProcess ==
  ASSUME Inv, NEW q \in Procs, UNCHANGED <<clock, lock>>,
         \A a \in Pickles : atime'[a] \in {atime[a], clock, Absent},
         pc'[q] = pc[q], todo'[q] = todo[q], entry'[q] = entry[q],
         began'[q] = began[q], kept'[q] = kept[q], touched'[q] = touched[q]
  PROVE  ProcessOK(q)'
<1>1. began'[q] <= clock' /\ EntryFound(q)' /\ LockKept(q)' /\ TouchDue(q)'
  BY DEF Inv, ProcessOK, EntryFound, LockKept, TouchDue
<1>2. ScanKept(q)'
  BY YoungEntry DEF Inv, ProcessOK, ScanKept, Entries
<1> QED
  BY <1>1, <1>2 DEF ProcessOK

\* The steps that change no pickle and neither touch the lock nor scan.
Quiet(p) ==
  \/ Begin(p) \/ DirectoryExists(p) \/ MakeRoot(p) \/ MakeDirectory(p) \/ SaveDenied(p)
  \/ CheckLock(p) \/ RootExists(p) \/ Raises(p) \/ Return(p)

LEMMA QuietStep ==
  ASSUME Inv, NEW p \in Procs, Quiet(p)
  PROVE  Inv'
<1> USE CleanupAssumption
<1>1. Types'
  <2> USE DEF Inv, Types, PC, Goto, files, locals
  <2>1. CASE Begin(p) \/ DirectoryExists(p) \/ MakeRoot(p) \/ MakeDirectory(p)
    BY <2>1 DEF Begin, DirectoryExists, MakeRoot, MakeDirectory
  <2>2. CASE SaveDenied(p) \/ CheckLock(p) \/ RootExists(p)
    BY <2>2 DEF SaveDenied, CheckLock, RootExists
  <2>3. CASE Raises(p)
    BY <2>3 DEF Raises
  <2>4. CASE Return(p)
    <3>1. todo'[p] = {} /\ kept'[p] = {} /\ began'[p] = 0
      BY <2>4 DEF Return
    <3>2. /\ todo' \in [Procs -> SUBSET Pickles]
          /\ kept' \in [Procs -> SUBSET Pickles]
          /\ began' \in [Procs -> Nat]
      BY <2>4 DEF Return
    <3> QED
      BY <2>4, <3>2 DEF Return
  <2> QED
    BY <2>1, <2>2, <2>3, <2>4 DEF Quiet
<1>2. /\ UNCHANGED <<clock, lock, atime, touched>> /\ (directory => directory')
      /\ pc[p] # "append" /\ pc'[p] \notin {"append", "stat", "remove", "cleared"}
      /\ \A q \in Procs \ {p} : pc'[q] = pc[q] /\ todo'[q] = todo[q] /\ entry'[q] = entry[q]
                                /\ began'[q] = began[q] /\ kept'[q] = kept[q]
      /\ began'[p] \in {began[p], clock, 0}
      /\ pc'[p] = "utime" => Due
  <2> USE DEF Inv, Types, Goto, files, locals
  <2>1. CASE Begin(p) \/ DirectoryExists(p) \/ MakeRoot(p) \/ MakeDirectory(p)
    BY <2>1 DEF Begin, DirectoryExists, MakeRoot, MakeDirectory
  <2>2. CASE SaveDenied(p) \/ CheckLock(p) \/ RootExists(p)
    BY <2>2 DEF SaveDenied, CheckLock, RootExists
  <2>3. CASE Raises(p) \/ Return(p)
    BY <2>3 DEF Raises, Return
  <2> QED
    BY <2>1, <2>2, <2>3 DEF Quiet
<1>3. FilesOK'
  BY <1>2 DEF Inv, FilesOK, Entries
<1>4. ASSUME NEW q \in Procs, q # p PROVE ProcessOK(q)'
  BY <1>2, <1>4, OtherProcess DEF Inv, Types
<1>5. ProcessOK(p)'
  <2>1. began'[p] <= clock' /\ EntryFound(p)'
    BY <1>2 DEF Inv, Types, ProcessOK, EntryFound
  <2>2. LockKept(p)' /\ ScanKept(p)'
    BY <1>2 DEF Inv, ProcessOK, LockKept, ScanKept
  <2>3. TouchDue(p)'
    <3>1. LockKept(p) /\ lock \in Time /\ clock \in Nat /\ touched[p] \in Time /\ pc[p] # "append"
      BY <1>2 DEF Inv, Types, ProcessOK
    <3>2. (Due /\ touched[p] # Absent) => touched[p] + Threshold <= clock
      BY <3>1 DEF Due, LockKept, Time
    <3> QED
      BY <1>2, <3>2 DEF TouchDue
  <2> QED
    BY <2>1, <2>2, <2>3 DEF ProcessOK
<1> QED
  BY <1>1, <1>3, <1>4, <1>5 DEF Inv

\* A pickle that is read or new is as good as just read.
LEMMA PickleStep ==
  ASSUME Inv, NEW p \in Procs, ReadPickle(p) \/ WritePickle(p)
  PROVE  Inv'
<1>1. Types'
  <2>1. CASE ReadPickle(p)
    BY <2>1 DEF Inv, Types, Time, PC, ReadPickle, Entries, Goto, locals
  <2>2. CASE WritePickle(p)
    BY <2>2 DEF Inv, Types, Time, PC, WritePickle, Goto, locals
  <2> QED
    BY <2>1, <2>2
<1>2. /\ UNCHANGED <<clock, directory, lock, locals, touched>> /\ pc[p] = "open"
      /\ pc'[p] \in {"idle", "lock", "raised"} /\ \A q \in Procs \ {p} : pc'[q] = pc[q]
  BY DEF Inv, Types, ReadPickle, WritePickle, Goto
<1>3. \A a \in Pickles : atime'[a] \in {atime[a], clock}
  BY DEF Inv, Types, ReadPickle, WritePickle, Entries
<1>4. FilesOK'
  <2>1. ASSUME Entries' # {} PROVE directory
    <3>1. CASE ReadPickle(p)
      BY <2>1, <3>1 DEF Inv, Types, FilesOK, ReadPickle, Entries
    <3>2. CASE WritePickle(p)
      BY <2>1, <3>2 DEF Inv, Types, FilesOK, WritePickle, Entries
    <3> QED
      BY <3>1, <3>2
  <2> QED
    BY <1>2, <2>1 DEF Inv, FilesOK
<1>5. ASSUME NEW q \in Procs, q # p PROVE ProcessOK(q)'
  BY <1>2, <1>3, <1>5, OtherProcess DEF locals
<1>6. ProcessOK(p)'
  BY <1>2 DEF Inv, ProcessOK, EntryFound, LockKept, TouchDue, ScanKept, locals
<1> QED
  BY <1>1, <1>4, <1>5, <1>6 DEF Inv

\* The lock is touched, or found missing, at a time no lock is younger than.
LEMMA UtimeStep ==
  ASSUME Inv, NEW p \in Procs, Utime(p)
  PROVE  Inv'
<1>1. Types'
  BY DEF Inv, Types, Time, PC, Utime, Goto, locals
<1>2. /\ UNCHANGED <<clock, directory, atime, locals>> /\ touched'[p] = clock
      /\ \A q \in Procs \ {p} : pc'[q] = pc[q] /\ touched'[q] = touched[q]
      /\ \/ lock = Absent /\ UNCHANGED lock /\ pc'[p] = "append"
         \/ lock # Absent /\ lock' = clock /\ pc'[p] = "clear"
  BY DEF Inv, Types, Utime, Goto
<1>3. FilesOK'
  BY <1>2 DEF Inv, Types, FilesOK, Entries
<1>4. ASSUME NEW q \in Procs PROVE ProcessOK(q)'
  <2>1. began'[q] <= clock' /\ EntryFound(q)' /\ ScanKept(q)'
    BY <1>2 DEF Inv, ProcessOK, EntryFound, ScanKept, Entries, locals
  <2>2. LockKept(q)'
    BY <1>2, CleanupAssumption DEF Inv, Types, Time, ProcessOK, LockKept
  <2>3. TouchDue(q)'
    BY <1>2 DEF Inv, ProcessOK, TouchDue
  <2> QED
    BY <2>1, <2>2, <2>3 DEF ProcessOK
<1> QED
  BY <1>1, <1>3, <1>4 DEF Inv

\* The lock that the open makes, or leaves, is not older than the os.utime.
LEMMA AppendStep ==
  ASSUME Inv, NEW p \in Procs, AppendLock(p) \/ AppendFails(p)
  PROVE  Inv'
<1>1. Types'
  BY DEF Inv, Types, Time, PC, AppendLock, AppendFails, Goto, files, locals
<1>2. /\ UNCHANGED <<clock, directory, atime, locals>> /\ pc[p] = "append"
      /\ pc'[p] \in {"clear", "idle"}
      /\ \A q \in Procs \ {p} : pc'[q] = pc[q] /\ touched'[q] = touched[q]
      /\ \/ UNCHANGED lock /\ (lock # Absent \/ touched'[p] = Absent)
         \/ lock = Absent /\ lock' = clock
      /\ touched'[p] \in {touched[p], Absent}
  BY DEF Inv, Types, AppendLock, AppendFails, Goto, files
<1>3. FilesOK'
  BY <1>2 DEF Inv, Types, FilesOK, Entries
<1>4. ASSUME NEW q \in Procs PROVE ProcessOK(q)'
  <2>1. began'[q] <= clock' /\ EntryFound(q)' /\ ScanKept(q)'
    BY <1>2 DEF Inv, ProcessOK, EntryFound, ScanKept, Entries, locals
  <2>2. LockKept(q)'
    BY <1>2, CleanupAssumption DEF Inv, Types, Time, ProcessOK, LockKept
  <2>3. TouchDue(q)'
    BY <1>2 DEF Inv, ProcessOK, TouchDue
  <2> QED
    BY <2>1, <2>2, <2>3 DEF ProcessOK
<1> QED
  BY <1>1, <1>3, <1>4 DEF Inv

\* Up to the list of the entries: where there is no directory there are none.
LEMMA ListStep ==
  ASSUME Inv, NEW p \in Procs, ListDir(p) \/ IsDir(p) \/ ScanDir(p)
  PROVE  Inv'
<1>1. Types'
  BY DEF Inv, Types, PC, ListDir, IsDir, ScanDir, Goto, Entries, files, locals
<1>2. /\ UNCHANGED <<clock, files, entry, began, kept, touched>>
      /\ pc[p] # "append" /\ pc'[p] \notin {"utime", "append", "remove"}
      /\ \A q \in Procs \ {p} : pc'[q] = pc[q] /\ todo'[q] = todo[q]
      /\ pc'[p] = "cleared" => ~directory
      /\ pc'[p] = "stat" => todo'[p] = Entries
  BY DEF Inv, Types, ListDir, IsDir, ScanDir, Goto, files, locals
<1>3. FilesOK'
  BY <1>2 DEF Inv, FilesOK, Entries, files
<1>4. ASSUME NEW q \in Procs, q # p PROVE ProcessOK(q)'
  BY <1>2, <1>4, OtherProcess DEF files
<1>5. ProcessOK(p)'
  <2>1. began'[p] <= clock' /\ EntryFound(p)' /\ LockKept(p)' /\ TouchDue(p)'
    BY <1>2 DEF Inv, ProcessOK, EntryFound, LockKept, TouchDue, files
  <2>2. ScanKept(p)'
    BY <1>2 DEF Inv, FilesOK, ScanKept, Entries, files
  <2> QED
    BY <2>1, <2>2 DEF ProcessOK
<1> QED
  BY <1>1, <1>3, <1>4, <1>5 DEF Inv

\* An entry that is kept is younger than the survival even now.
LEMMA StatEntryStep ==
  ASSUME Inv, NEW p \in Procs, StatEntry(p)
  PROVE  Inv'
<1> USE CleanupAssumption
<1>1. PICK a \in todo[p] :
        /\ todo' = [todo EXCEPT ![p] = @ \ {a}]
        /\ IF a \in Entries /\ atime[a] + MaxSurvival <= clock
           THEN Goto(p, "remove") /\ entry' = [entry EXCEPT ![p] = a]
           ELSE Goto(p, IF a \in Entries THEN "stat" ELSE "raised") /\ UNCHANGED entry
  BY DEF StatEntry
<1>2. Types'
  <2>1. todo' \in [Procs -> SUBSET Pickles]
    BY <1>1 DEF Inv, Types
  <2>2. pc' \in [Procs -> PC] /\ entry' \in [Procs -> Pickles \cup {Absent}]
    BY <1>1 DEF Inv, Types, PC, Goto
  <2> QED
    BY <2>1, <2>2 DEF Inv, Types, StatEntry, files
<1>3. /\ UNCHANGED <<clock, files, began, kept, touched>> /\ pc[p] = "stat"
      /\ \A q \in Procs \ {p} : pc'[q] = pc[q] /\ todo'[q] = todo[q] /\ entry'[q] = entry[q]
      /\ todo'[p] = todo[p] \ {a} /\ a \in Pickles
      /\ \/ pc'[p] = "remove" /\ entry'[p] = a
         \/ pc'[p] = "stat" /\ a \in Entries /\ ~(atime[a] + MaxSurvival <= clock)
         \/ pc'[p] = "raised"
  BY <1>1 DEF Inv, Types, StatEntry, Goto
<1>4. FilesOK'
  BY <1>3 DEF Inv, FilesOK, Entries, files
<1>5. ASSUME NEW q \in Procs, q # p PROVE ProcessOK(q)'
  BY <1>3, <1>5, OtherProcess DEF files
<1>6. ProcessOK(p)'
  <2>1. began'[p] <= clock' /\ EntryFound(p)' /\ LockKept(p)' /\ TouchDue(p)'
    BY <1>3 DEF Inv, ProcessOK, EntryFound, LockKept, TouchDue, files
  <2>2. ScanKept(p)'
    <3> SUFFICES ASSUME pc'[p] \in {"stat", "remove"}, NEW b \in Entries \ kept[p]
                 PROVE  b \in todo'[p] \/ (pc'[p] = "remove" /\ b = entry'[p])
                        \/ atime[b] + MaxSurvival > began[p]
      BY <1>3 DEF ScanKept, Entries, files
    <3>1. b \in todo[p] \/ atime[b] + MaxSurvival > began[p]
      BY <1>3 DEF Inv, ProcessOK, ScanKept
    <3>2. CASE b = a /\ pc'[p] = "stat"
      <4>1. atime[b] \in Nat /\ ~(atime[b] + MaxSurvival <= clock)
        BY <1>3, <3>2 DEF Inv, Types, Time, Entries
      <4> QED
        BY <4>1 DEF Inv, Types, ProcessOK
    <3> QED
      BY <1>3, <3>1, <3>2
  <2> QED
    BY <2>1, <2>2 DEF ProcessOK
<1> QED
  BY <1>2, <1>4, <1>5, <1>6 DEF Inv

\* The entry is gone, or on the list of those whose removal failed.
LEMMA RemoveStep ==
  ASSUME Inv, NEW p \in Procs, RemoveEntry(p) \/ RemoveFails(p)
  PROVE  Inv'
<1>1. Types'
  <2>1. CASE RemoveEntry(p)
    BY <2>1 DEF Inv, Types, Time, PC, RemoveEntry, Goto
  <2>2. CASE RemoveFails(p)
    <3>1. kept' \in [Procs -> SUBSET Pickles]
      BY <2>2 DEF Inv, Types, ProcessOK, EntryFound, RemoveFails
    <3> QED
      BY <2>2, <3>1 DEF Inv, Types, PC, RemoveFails, Goto, files
  <2> QED
    BY <2>1, <2>2
<1>2. /\ UNCHANGED <<clock, directory, lock, todo, began, touched>>
      /\ pc[p] = "remove" /\ pc'[p] = "stat"
      /\ \A q \in Procs \ {p} : pc'[q] = pc[q] /\ entry'[q] = entry[q] /\ kept'[q] = kept[q]
      /\ \A a \in Pickles : atime'[a] \in {atime[a], Absent}
      /\ \A a \in Pickles : a # entry[p] => atime'[a] = atime[a]
      /\ \/ entry[p] \notin Entries' /\ kept'[p] = kept[p]
         \/ kept'[p] = kept[p] \cup {entry[p]}
  BY DEF Inv, Types, RemoveEntry, RemoveFails, Goto, Entries, files
<1>3. FilesOK'
  BY <1>2 DEF Inv, FilesOK, Entries
<1>4. ASSUME NEW q \in Procs, q # p PROVE ProcessOK(q)'
  BY <1>2, <1>4, OtherProcess
<1>5. ProcessOK(p)'
  <2>1. began'[p] <= clock' /\ EntryFound(p)' /\ LockKept(p)' /\ TouchDue(p)'
    BY <1>2 DEF Inv, ProcessOK, EntryFound, LockKept, TouchDue
  <2>2. ScanKept(p)'
    BY <1>2 DEF Inv, ProcessOK, ScanKept, Entries
  <2> QED
    BY <2>1, <2>2 DEF ProcessOK
<1> QED
  BY <1>1, <1>3, <1>4, <1>5 DEF Inv

LEMMA ScanDoneStep ==
  ASSUME Inv, NEW p \in Procs, ScanDone(p)
  PROVE  Inv'
<1>1. Types'
  BY DEF Inv, Types, PC, ScanDone, Goto, files, locals
<1>2. /\ UNCHANGED <<clock, files, locals, touched>> /\ pc[p] = "stat" /\ todo[p] = {}
      /\ pc'[p] = "cleared" /\ \A q \in Procs \ {p} : pc'[q] = pc[q]
  BY DEF Inv, Types, ScanDone, Goto
<1>3. FilesOK'
  BY <1>2 DEF Inv, FilesOK, Entries, files
<1>4. ASSUME NEW q \in Procs, q # p PROVE ProcessOK(q)'
  BY <1>2, <1>4, OtherProcess DEF files, locals
<1>5. ProcessOK(p)'
  BY <1>2 DEF Inv, ProcessOK, EntryFound, LockKept, TouchDue, ScanKept, Entries, files, locals
<1> QED
  BY <1>1, <1>3, <1>4, <1>5 DEF Inv

LEMMA DeleteStep ==
  ASSUME Inv, DeletePickle \/ DeleteLock \/ DeleteDirectories
  PROVE  Inv'
<1> USE CleanupAssumption
<1>1. CASE DeletePickle
  <2>1. Types'
    BY <1>1 DEF Inv, Types, Time, DeletePickle, locals
  <2>2. /\ UNCHANGED <<clock, directory, lock, pc, locals, touched>>
        /\ \A a \in Pickles : atime'[a] \in {atime[a], Absent}
    BY <1>1 DEF Inv, Types, DeletePickle
  <2>3. FilesOK'
    BY <2>2 DEF Inv, FilesOK, Entries
  <2>4. \A q \in Procs : ProcessOK(q)'
    BY <2>2, OtherProcess DEF locals
  <2> QED
    BY <2>1, <2>3, <2>4 DEF Inv
<1>2. CASE DeleteLock
  <2>1. Types'
    BY <1>2 DEF Inv, Types, Time, DeleteLock, locals
  <2>2. /\ UNCHANGED <<clock, directory, atime, pc, locals>> /\ lock' = Absent
        /\ \A q \in Procs : \/ pc[q] = "append" /\ touched'[q] = touched[q]
                            \/ touched'[q] = Absent
    BY <1>2 DEF DeleteLock
  <2>3. FilesOK'
    BY <2>2 DEF Inv, FilesOK, Entries
  <2>4. ASSUME NEW q \in Procs PROVE ProcessOK(q)'
    BY <2>2 DEF Inv, ProcessOK, EntryFound, LockKept, TouchDue, ScanKept, Entries, locals
  <2> QED
    BY <2>1, <2>3, <2>4 DEF Inv
<1>3. CASE DeleteDirectories
  <2>1. Types'
    BY <1>3 DEF Inv, Types, DeleteDirectories, locals
  <2>2. UNCHANGED <<clock, lock, atime, pc, locals, touched>> /\ (directory' = directory \/ Entries = {})
    BY <1>3 DEF DeleteDirectories
  <2>3. FilesOK'
    BY <2>2 DEF Inv, FilesOK, Entries
  <2>4. \A q \in Procs : ProcessOK(q)'
    BY <2>2, OtherProcess DEF locals
  <2> QED
    BY <2>1, <2>3, <2>4 DEF Inv
<1> QED
  BY <1>1, <1>2, <1>3

LEMMA TickStep ==
  ASSUME Inv, Tick
  PROVE  Inv'
<1> USE CleanupAssumption
<1>1. Types'
  BY DEF Inv, Types, Tick, files, locals
<1>2. clock' = clock + 1 /\ UNCHANGED <<files, pc, locals, touched>>
  BY DEF Tick
<1>3. FilesOK'
  BY <1>2 DEF Inv, Types, Time, FilesOK, Entries, files
<1>4. ASSUME NEW q \in Procs PROVE ProcessOK(q)'
  <2>1. began'[q] <= clock' /\ EntryFound(q)' /\ LockKept(q)' /\ TouchDue(q)'
    BY <1>2 DEF Inv, Types, Time, ProcessOK, EntryFound, LockKept, TouchDue, files, locals
  <2>2. ScanKept(q)'
    BY <1>2 DEF Inv, ProcessOK, ScanKept, Entries, files, locals
  <2> QED
    BY <2>1, <2>2 DEF ProcessOK
<1> QED
  BY <1>1, <1>3, <1>4 DEF Inv

LEMMA NextInv == Inv /\ [Next]_vars => Inv'
<1> SUFFICES ASSUME Inv, [Next]_vars PROVE Inv'
  OBVIOUS
<1>1. ASSUME NEW p \in Procs, Step(p) PROVE Inv'
  BY <1>1, QuietStep, PickleStep, UtimeStep, AppendStep, ListStep, StatEntryStep, RemoveStep,
     ScanDoneStep DEF Step, Quiet
<1>2. CASE DeletePickle \/ DeleteLock \/ DeleteDirectories
  BY <1>2, DeleteStep
<1>3. CASE Tick
  BY <1>3, TickStep
<1>4. CASE UNCHANGED vars
  BY <1>4 DEF vars, files, locals, Inv, Types, FilesOK, ProcessOK, EntryFound, LockKept, TouchDue,
              ScanKept, Entries
<1> QED
  BY <1>1, <1>2, <1>3, <1>4 DEF Next

-----------------------------------------------------------------------------
\* The invariant that the theorems below rest on.
THEOREM CleanupInvariant == Spec => []Inv
<1> QED
  BY InitInv, NextInv, PTL DEF Spec

\* Every variable keeps its type.
THEOREM TypeCorrect == Spec => []Types
<1>1. Inv => Types
  BY DEF Inv
<1> QED
  BY <1>1, CleanupInvariant, PTL

\* A cleanup that comes to its end has left no pickle that nobody had read for
\* the maximum survival when it began, except those os.remove failed on
\* (clear_inactive_cache, which ignores every such failure and goes on).
THEOREM CleanupLeavesNoneBehind == Spec => []CleanupComplete
<1>1. Inv => CleanupComplete
  BY DEF Inv, ProcessOK, ScanKept, CleanupComplete
<1> QED
  BY <1>1, CleanupInvariant, PTL

\* From a process's os.utime on the lock to its next it is at least the
\* threshold, in whatever order the processes look at the lock, find it missing,
\* make it and touch it (_remove_cache_and_update_lock, _touch).
THEOREM CleanupOncePerThreshold == Spec => CleanupSpacing
<1> DEFINE Spaced == \A p \in Procs :
             (pc[p] = "utime" /\ pc'[p] \in {"append", "clear"} /\ touched[p] # Absent) =>
               touched[p] + Threshold <= clock
<1>1. Inv => Spaced
  BY DEF Inv, ProcessOK, TouchDue
<1> QED
  BY <1>1, CleanupInvariant, PTL DEF CleanupSpacing
=============================================================================
