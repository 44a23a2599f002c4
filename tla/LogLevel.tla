-------------------------------- MODULE LogLevel --------------------------------
(***************************************************************************)
(* The log levels of neng-log, src/src/neng/log/log_core.c:381-443: one    *)
(* level for each module, that of module 0 being the global one.           *)
(*                                                                         *)
(* A level that was set carries the bit 0x1000, which tells it, and level  *)
(* 0 (Emerg) in particular, from one that was not.                         *)
(***************************************************************************)
EXTENDS Integers

CONSTANTS
  ModSize,    \* NENG_LOG_MOD_SIZE
  ModIds,     \* module numbers callers pass, valid or not
  LevelIds,   \* levels callers pass, valid or not
  Words,      \* level words of messages: level, facility, flags
  None        \* no level

Emerg == 0
Info == 6
Debug == 7
Levels == Emerg .. Debug
Mods == 0 .. ModSize - 1

ASSUME LevelAssumption ==
  /\ ModSize \in Nat \ {0}
  /\ ModIds \subseteq Int /\ LevelIds \subseteq Int /\ Words \subseteq Nat
  /\ None \notin Levels

VARIABLES
  modLevel,   \* _log_mod_level
  chosen      \* history: the level last set for each module and not cleared since

vars == <<modLevel, chosen>>

Init == modLevel = [m \in Mods |-> 0] /\ chosen = [m \in Mods |-> None]

BitMask == 4096

Marked(level) == level + BitMask
IsSet(x) == (x \div BitMask) % 2 = 1

\* Mutant: the level is not checked.
MutSetLevel(level, mod) ==
  /\ mod \in Mods
  /\ modLevel' = [modLevel EXCEPT ![mod] = Marked(level)]
  /\ chosen' = [chosen EXCEPT ![mod] = level]

SetLevel(level, mod) ==
  /\ mod \in Mods /\ level \in Levels
  /\ modLevel' = [modLevel EXCEPT ![mod] = Marked(level)]
  /\ chosen' = [chosen EXCEPT ![mod] = level]

\* A number that is no module clears them all.
ClearLevel(mod) ==
  IF mod \in Mods
    THEN /\ modLevel' = [modLevel EXCEPT ![mod] = 0]
         /\ chosen' = [chosen EXCEPT ![mod] = None]
    ELSE /\ modLevel' = [m \in Mods |-> 0]
         /\ chosen' = [m \in Mods |-> None]

Next ==
  \/ \E level \in LevelIds, mod \in ModIds : SetLevel(level, mod)
  \/ \E mod \in ModIds : ClearLevel(mod)

Spec == Init /\ [][Next]_vars

GetLevel(mod) ==
  IF mod \notin Mods THEN -1
  ELSE IF IsSet(modLevel[mod]) THEN modLevel[mod] - BitMask
  ELSE IF mod = 0 THEN Info ELSE -1

\* Mutant: without a level of its own a module is not held back at all.
MutCheckLeve(mod, word) == GetLevel(mod) >= 0 => word % 8 <= GetLevel(mod)

CheckLeve(mod, word) ==
  IF GetLevel(mod) >= 0 THEN word % 8 <= GetLevel(mod)
  ELSE mod = 0 \/ word % 8 <= GetLevel(0)

-----------------------------------------------------------------------------
TypeOK ==
  /\ modLevel \in [Mods -> {0} \union {Marked(l) : l \in Levels}]
  /\ chosen \in [Mods -> Levels \union {None}]

\* The level that counts for a module, as log.h:66-84 describes it.
Threshold(mod) ==
  IF mod \in Mods /\ chosen[mod] # None THEN chosen[mod]
  ELSE IF chosen[0] # None THEN chosen[0] ELSE Info

(* A message passes NengLogCheckLeve exactly when its level is within that of  *)
(* its module or else the global one, after any calls of NengLogSetLevel and   *)
(* NengLogClearLevel, with any facility and flags in its level word, for       *)
(* numbers that are no module and for a module whose level Emerg is the number *)
(* 0 that also stands for none (log_core.c:381-443).                           *)
ChecksThreshold ==
  \A mod \in ModIds, word \in Words : CheckLeve(mod, word) <=> word % 8 <= Threshold(mod)
=============================================================================
