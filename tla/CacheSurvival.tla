---------------------------- MODULE CacheSurvival ----------------------------
(***************************************************************************)
(* The garbage collection of parser_cache, with the history of what was     *)
(* really used when: _NodeCacheItem.last_used starts as the change time of  *)
(* the source file, not as the time the item was made.                      *)
(***************************************************************************)
EXTENDS Cache

VARIABLES
  hit                  \* process -> path -> when load_module last found it in RAM

survivalVars == <<vars, hit>>

Never == [p \in Procs |-> [a \in Paths |-> 0]]

SurvivalInit == Init /\ hit = Never

FoundInRam(p) == pc[p] = "stat" /\ pc'[p] = "return"
PutInRam(p) == \/ pc[p] = "load" /\ pc'[p] = "return"
               \/ pc[p] = "save" /\ pc'[p] \in {"open", "return"}

\* The history of an item ends with it.
Record ==
  [p \in Procs |-> [a \in Paths |->
     IF mem'[p][a] = NoItem THEN 0
     ELSE IF FoundInRam(p) /\ path[p] = a THEN clock
     ELSE hit[p][a]]]

SurvivalNext ==
  /\ Next
  /\ hit' = Record

SurvivalSpec == SurvivalInit /\ [][SurvivalNext]_survivalVars

\* The items that putting another one into RAM throws away.
Evicted(p) ==
  {a \in Paths : PutInRam(p) /\ mem[p][a] # NoItem /\ mem'[p][a] = NoItem}

-----------------------------------------------------------------------------
\* What a process found in its RAM cache less than the minimum survival ago is
\* never thrown away to make room: neither the later save of the same file nor
\* the pickle of another process makes it look older than that use.
HitsSurvive ==
  [][\A p \in Procs : \A a \in Evicted(p) : hit[p][a] <= clock - Survival]_survivalVars
=============================================================================
