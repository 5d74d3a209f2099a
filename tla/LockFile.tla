------------------------------- MODULE LockFile -------------------------------
(***************************************************************************)
(* pkg/core/lockfile: the advisory lock in a zero-byte file beside the     *)
(* guarded name.  A step of a process is one system call of TryLock or of  *)
(* the release it returns.  A name refers to a file object (an inode); the *)
(* kernel keeps the lock on the object, never on the name.                 *)
(*                                                                         *)
(* UnlinksOpenFiles tells the two builds apart: TRUE on unix, where remove *)
(* detaches a name whose object others still have open; FALSE on Windows,  *)
(* where CreateFile without FILE_SHARE_DELETE makes that remove fail.      *)
(***************************************************************************)
EXTENDS Naturals

CONSTANTS Procs,            \* processes contending for one name
          Inodes,           \* file objects the name may come to refer to
          Nil,              \* no process, no file
          UnlinksOpenFiles

ASSUME LockFileAssumption ==
  /\ Nil \notin Procs
  /\ Nil \notin Inodes
  /\ UnlinksOpenFiles \in BOOLEAN

VARIABLES
  name,     \* the file the lock's path refers to, or Nil
  owner,    \* owner[i]: the process whose handle holds the lock on i
  handle,   \* handle[p]: the file p has open, or Nil
  step      \* where p stands in TryLock and its release

lockVars == <<name, owner, handle, step>>

LockTypeOK ==
  /\ name \in Inodes \cup {Nil}
  /\ owner \in [Inodes -> Procs \cup {Nil}]
  /\ handle \in [Procs -> Inodes \cup {Nil}]
  /\ step \in [Procs -> {"idle", "opened", "held", "unlocked", "closed"}]
  /\ \A p \in Procs : handle[p] # Nil <=> step[p] \in {"opened", "held", "unlocked"}

LockFileInit ==
  /\ name \in {Nil} \cup Inodes       \* a leftover file is inert and reused
  /\ owner = [i \in Inodes |-> Nil]
  /\ handle = [p \in Procs |-> Nil]
  /\ step = [p \in Procs |-> "idle"]

-----------------------------------------------------------------------------
\* O_CREATE / OPEN_ALWAYS: the named file, or a fresh one under the name.
OpenName(p) ==
  /\ step[p] = "idle"
  /\ \E i \in Inodes :
       /\ IF name # Nil THEN i = name ELSE \A q \in Procs : handle[q] # i
       /\ name' = i
       /\ handle' = [handle EXCEPT ![p] = i]
  /\ step' = [step EXCEPT ![p] = "opened"]
  /\ UNCHANGED owner

\* LOCK_NB / LOCKFILE_FAIL_IMMEDIATELY: taken at once ...
LockHandle(p) ==
  /\ step[p] = "opened"
  /\ owner[handle[p]] = Nil
  /\ owner' = [owner EXCEPT ![handle[p]] = p]
  /\ step' = [step EXCEPT ![p] = "held"]
  /\ UNCHANGED <<name, handle>>

\* ... or refused: the handle is closed and ErrLocked returned, which
\* TryLockBounded answers by trying again from the open.
Refused(p) ==
  /\ step[p] = "opened"
  /\ owner[handle[p]] # Nil
  /\ handle' = [handle EXCEPT ![p] = Nil]
  /\ step' = [step EXCEPT ![p] = "idle"]
  /\ UNCHANGED <<name, owner>>

\* The release: unlock, close, remove the name.
Unlock(p) ==
  /\ step[p] = "held"
  /\ owner' = [owner EXCEPT ![handle[p]] = Nil]
  /\ step' = [step EXCEPT ![p] = "unlocked"]
  /\ UNCHANGED <<name, handle>>

CloseHandle(p) ==
  /\ step[p] = "unlocked"
  /\ handle' = [handle EXCEPT ![p] = Nil]
  /\ step' = [step EXCEPT ![p] = "closed"]
  /\ UNCHANGED <<name, owner>>

Removable_Always == TRUE             \* mutant: the handle shares deletion

\* Best-effort: on Windows an open handle on the named file defeats it.
Removable == UnlinksOpenFiles \/ \A q \in Procs : handle[q] # name

Remove(p) ==
  /\ step[p] = "closed"
  /\ name' = IF Removable THEN Nil ELSE name
  /\ step' = [step EXCEPT ![p] = "idle"]
  /\ UNCHANGED <<owner, handle>>

ProcDies_KeepsLock(p) ==                  \* mutant: a lock that outlives its holder
  /\ step[p] # "idle"
  /\ handle' = [handle EXCEPT ![p] = Nil]
  /\ step' = [step EXCEPT ![p] = "idle"]
  /\ UNCHANGED <<name, owner>>

\* The process dies anywhere: the kernel closes its handle, drops its lock
\* and leaves the name behind.
ProcDies(p) ==
  /\ step[p] # "idle"
  /\ handle' = [handle EXCEPT ![p] = Nil]
  /\ owner' = [i \in Inodes |-> IF owner[i] = p THEN Nil ELSE owner[i]]
  /\ step' = [step EXCEPT ![p] = "idle"]
  /\ UNCHANGED name

LockFileNext == \E p \in Procs : \/ OpenName(p) \/ LockHandle(p) \/ Refused(p)
                         \/ Unlock(p) \/ CloseHandle(p) \/ Remove(p) \/ ProcDies(p)

LockFileSpec == LockFileInit /\ [][LockFileNext]_lockVars

-----------------------------------------------------------------------------
Holders == {p \in Procs : step[p] = "held"}

\* lockfile.go says a lock is held by one process at a time: the profile
\* container and the log sinks rely on nothing else to keep writers apart.
OneHolder == \A p, q \in Holders : p = q

\* Why it holds where names of open files stay: every open handle is on
\* the file the name refers to, and the lock on it is its holder's.
HandlesOnName ==
  \A p \in Procs : handle[p] # Nil => handle[p] = name

HeldIsOwned ==
  /\ \A p \in Procs : step[p] = "held" => owner[handle[p]] = p
  /\ \A i \in Inodes : owner[i] # Nil => step[owner[i]] = "held" /\ handle[owner[i]] = i

LockInv == LockTypeOK /\ HandlesOnName /\ HeldIsOwned

\* The lock seen by its users is the abstract mutex: TryLock and the
\* release are its Acquire and Drop, everything else is invisible.
Holder == IF Holders = {} THEN Nil ELSE CHOOSE p \in Holders : TRUE

Lk == INSTANCE Mutex WITH None <- Nil, holder <- Holder
IsMutex == Lk!Spec

\* ErrLocked is an honest verdict: it is returned only while some other
\* process holds the lock at that very call.
RefusedOnlyWhileHeld ==
  [][\A p \in Procs : Refused(p) => Holders \ {p} # {}]_lockVars
==============================================================================
