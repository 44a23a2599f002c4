----------------------------- MODULE LogRegistry -----------------------------
(***************************************************************************)
(* The appender lists of neng-log, src/src/neng/log/log_appender.c 11-143, *)
(* and the read-write lock over them.  This module has no next-state       *)
(* relation of its own: LogCore takes its operations as steps of threads.  *)
(*                                                                         *)
(* Writing needs the lock exclusively and the writers keep nothing from    *)
(* one call to the next, so a whole write-locked body is one step that     *)
(* waits until there is no reader.                                         *)
(***************************************************************************)
EXTENDS Naturals, Sequences, SequencesExt

CONSTANTS
  Appenders,     \* every appender the program creates
  DisableAsync   \* those with flags.disable_async

VARIABLES
  syncList,    \* _neng_log_appender_sync_list
  asyncList,   \* _neng_log_appender_list
  readers,     \* threads that hold _neng_log_appender_list_rwlock for reading
  released     \* appenders given to release_fn: their memory is gone

registryVars == <<syncList, asyncList, readers, released>>

RegistryInit ==
  /\ syncList = <<>>
  /\ asyncList = <<>>
  /\ readers = {}
  /\ released = {}

Listed == ToSet(syncList) \union ToSet(asyncList)

ReadLock(t) ==
  /\ readers' = readers \union {t}
  /\ UNCHANGED <<syncList, asyncList, released>>

ReadUnlock(t) ==
  /\ readers' = readers \ {t}
  /\ UNCHANGED <<syncList, asyncList, released>>

\* Mutants: no exclusive lock; a test that looks at one list.
MutWriteLockFree == TRUE
MutRegistered(a) == a \in ToSet(syncList)

\* What pthread_rwlock_wrlock waits for.
WriteLockFree == readers = {}

\* The EEXIST test, over both lists.
Registered(a) == a \in Listed

\* An appender on a list already is refused with EEXIST and nothing changes.
\* A released appender does not exist any more.
AddAppender(a) ==
  /\ WriteLockFree
  /\ ~Registered(a)
  /\ a \notin released
  /\ IF a \in DisableAsync
       THEN syncList' = Append(syncList, a) /\ UNCHANGED asyncList
       ELSE asyncList' = Append(asyncList, a) /\ UNCHANGED syncList
  /\ UNCHANGED <<readers, released>>

\* TAILQ_REMOVE of the entry that holds a; there is one at most (ListedOnce).
Dropped(s, a) ==
  IF Contains(s, a) THEN RemoveAt(s, CHOOSE k \in DOMAIN s : s[k] = a) ELSE s

\* An appender on neither list is refused with ENOENT.
RemoveAppender(a) ==
  /\ WriteLockFree
  /\ Registered(a)
  /\ syncList' = Dropped(syncList, a)
  /\ asyncList' = IF Contains(syncList, a) THEN asyncList ELSE Dropped(asyncList, a)
  /\ released' = released \union {a}
  /\ UNCHANGED readers

ClearAppender ==
  /\ WriteLockFree
  /\ released' = released \union Listed
  /\ syncList' = <<>>
  /\ asyncList' = <<>>
  /\ UNCHANGED readers
=============================================================================
