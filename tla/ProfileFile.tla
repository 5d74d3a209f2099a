------------------------------ MODULE ProfileFile ------------------------------
(***************************************************************************)
(* The encrypted profile file of a window (pkg/api/sources.go): the open   *)
(* container, the unsaved session sources beside it, and the calls that    *)
(* open, save, re-path and close them, in several windows (processes) that *)
(* share the files.  A call holds pfMu only inside one action; between two *)
(* actions other calls of the window and other windows run.                *)
(*                                                                         *)
(* TryLock on "<path>.lock" is the abstract lock of module Mutex, one per  *)
(* path.  A source is a number, a file or a container the set of its       *)
(* sources; encryption, names and passwords are left out (a missing        *)
(* password is one way for a save to fail).                                *)
(***************************************************************************)
EXTENDS Naturals

CONSTANTS
  Windows, Paths,
  Calls,       \* concurrent calls
  WindowOf,    \* WindowOf[c]: the window call c belongs to
  None,
  Reopens,     \* a window may open the file it already has open
  MaxSources   \* bound: sources ever added

ASSUME ProfileFileAssumption ==
  /\ None \notin Windows \cup Paths
  /\ WindowOf \in [Calls -> Windows]
  /\ Reopens \in BOOLEAN /\ MaxSources \in Nat

Sources == 1..MaxSources
NoContainer == [open |-> FALSE, path |-> None, sources |-> {},
                dirty |-> FALSE, locked |-> FALSE]

VARIABLES
  content,   \* content[p]: the sources in file p
  holder,    \* holder[p]: the window holding p's lock file, or None
  pf,        \* pf[w]: the window's open container
  session,   \* session[w]: its session-only sources
  pc,        \* pc[c]: where call c stands
  arg,       \* arg[c]: its path, what it read, and whether it locked
  added,     \* sources added so far
  saved,     \* history: sources some file was written with
  dropped,   \* history: unsaved sources given up by force or by a crash
  stray      \* history: session sources that a failed Save As took

vars == <<content, holder, pf, session, pc, arg, added, saved, dropped, stray>>
history == <<added, saved, dropped, stray>>

NoArg == [path |-> None, data |-> {}, locked |-> FALSE]

Container == [open : BOOLEAN, path : Paths \cup {None}, sources : SUBSET Sources,
              dirty : BOOLEAN, locked : BOOLEAN]

FilesOK ==
  /\ content \in [Paths -> SUBSET Sources]
  /\ holder \in [Paths -> Windows \cup {None}]
  /\ session \in [Windows -> SUBSET Sources]
  /\ added \in 0..MaxSources /\ saved \subseteq Sources
  /\ dropped \subseteq Sources /\ stray \subseteq Sources

CallsOK ==
  /\ pc \in [Calls -> {"idle", "read", "release", "lock", "install",
                       "saveas-lock", "saveas", "session", "container"}]
  /\ arg \in [Calls -> [path : Paths \cup {None}, data : SUBSET Sources, locked : BOOLEAN]]

TypeOK ==
  /\ pf \in [Windows -> Container] /\ FilesOK /\ CallsOK
  /\ \A w \in Windows : pf[w].locked => holder[pf[w].path] = w

Init ==
  /\ content = [p \in Paths |-> {}] /\ holder = [p \in Paths |-> None]
  /\ pf = [w \in Windows |-> NoContainer] /\ session = [w \in Windows |-> {}]
  /\ pc = [c \in Calls |-> "idle"] /\ arg = [c \in Calls |-> NoArg]
  /\ added = 0 /\ saved = {} /\ dropped = {} /\ stray = {}

Return(c) == /\ pc' = [pc EXCEPT ![c] = "idle"]
             /\ arg' = [arg EXCEPT ![c] = NoArg]

\* The lock goes with the container that carries it.
Unlocked(h, k) == IF k.locked THEN [h EXCEPT ![k.path] = None] ELSE h

-----------------------------------------------------------------------------
(* OpenProfileFile.                                                        *)

NothingUnsaved_Session(w) == session[w] = {}   \* mutant: a dirty container is replaced

NothingUnsaved(w) == session[w] = {} /\ ~pf[w].dirty

Open(c, p) ==
  LET w == WindowOf[c]
  IN  /\ pc[c] = "idle" /\ NothingUnsaved(w)
      /\ Reopens \/ pf[w].path # p
      /\ pc' = [pc EXCEPT ![c] = "read"]
      /\ arg' = [arg EXCEPT ![c].path = p]
      /\ UNCHANGED <<content, holder, pf, session, history>>

\* Read and decrypted with no lock held.
Read(c) ==
  /\ pc[c] = "read"
  /\ pc' = [pc EXCEPT ![c] = "release"]
  /\ arg' = [arg EXCEPT ![c].data = content[arg[c].path]]
  /\ UNCHANGED <<content, holder, pf, session, history>>

ReadFails(c) ==
  /\ pc[c] = "read" /\ Return(c)
  /\ UNCHANGED <<content, holder, pf, session, history>>

\* A same-path reopen gives up its own lock first.
Release(c) ==
  LET w == WindowOf[c]
      own == pf[w].path = arg[c].path /\ pf[w].locked
  IN  /\ pc[c] = "release"
      /\ holder' = IF own THEN Unlocked(holder, pf[w]) ELSE holder
      /\ pf' = IF own THEN [pf EXCEPT ![w].locked = FALSE] ELSE pf
      /\ pc' = [pc EXCEPT ![c] = "lock"]
      /\ UNCHANGED <<content, session, arg, history>>

Free_Always(p) == TRUE                         \* mutant: the lock file is ignored

Free(p) == holder[p] = None

\* lockfile.TryLock: taken at once or refused.
Lock(c) ==
  /\ pc[c] \in {"lock", "saveas-lock"} /\ Free(arg[c].path)
  /\ holder' = [holder EXCEPT ![arg[c].path] = WindowOf[c]]
  /\ pc' = [pc EXCEPT ![c] = IF pc[c] = "lock" THEN "install" ELSE "saveas"]
  /\ arg' = [arg EXCEPT ![c].locked = TRUE]
  /\ UNCHANGED <<content, pf, session, history>>

LockRefused(c) ==
  /\ pc[c] \in {"lock", "saveas-lock"} /\ ~Free(arg[c].path)
  /\ Return(c)
  /\ UNCHANGED <<content, holder, pf, session, history>>

\* Whatever is open by now is replaced, its lock released.
Install(c) ==
  LET w == WindowOf[c]
  IN  /\ pc[c] = "install"
      /\ holder' = Unlocked(holder, pf[w])
      /\ pf' = [pf EXCEPT ![w] = [open |-> TRUE, path |-> arg[c].path,
                  sources |-> arg[c].data, dirty |-> FALSE, locked |-> TRUE]]
      /\ Return(c)
      /\ UNCHANGED <<content, session, history>>

-----------------------------------------------------------------------------
(* NewProfileFile, SaveProfileFile, SaveProfileFileAs, CloseProfileFile.   *)

New(c) ==
  LET w == WindowOf[c]
  IN  /\ pc[c] = "idle" /\ NothingUnsaved(w)
      /\ pf' = [pf EXCEPT ![w] = [NoContainer EXCEPT !.open = TRUE]]
      /\ UNCHANGED <<content, holder, session, pc, arg, history>>

\* The whole file is rewritten.
Save(c) ==
  LET w == WindowOf[c]
  IN  /\ pc[c] = "idle" /\ pf[w].open /\ pf[w].path # None
      /\ content' = [content EXCEPT ![pf[w].path] = pf[w].sources]
      /\ pf' = [pf EXCEPT ![w].dirty = FALSE]
      /\ saved' = saved \cup pf[w].sources
      /\ UNCHANGED <<holder, session, pc, arg, added, dropped, stray>>

\* Onto the open file's own path the lock already held is kept.
SaveAs(c, p) ==
  LET w == WindowOf[c]
  IN  /\ pc[c] = "idle"
      /\ pc' = [pc EXCEPT ![c] = IF pf[w].path = p /\ pf[w].locked
                                 THEN "saveas" ELSE "saveas-lock"]
      /\ arg' = [arg EXCEPT ![c].path = p]
      /\ UNCHANGED <<content, holder, pf, session, history>>

\* Without an open container the session sources become one.
Adopted(w) == IF pf[w].open THEN pf[w]
              ELSE [NoContainer EXCEPT !.open = TRUE, !.sources = session[w]]
SessionLeft(w) == IF pf[w].open THEN session ELSE [session EXCEPT ![w] = {}]

GiveBack(c) == IF arg[c].locked THEN [holder EXCEPT ![arg[c].path] = None] ELSE holder

SaveAsNothing(c) ==
  LET w == WindowOf[c]
  IN  /\ pc[c] = "saveas" /\ ~pf[w].open /\ session[w] = {}
      /\ holder' = GiveBack(c) /\ Return(c)
      /\ UNCHANGED <<content, pf, session, history>>

\* The adoption stands although nothing was written, and nothing calls the
\* container dirty.
SaveAsFails(c) ==
  LET w == WindowOf[c]
  IN  /\ pc[c] = "saveas" /\ (pf[w].open \/ session[w] # {})
      /\ holder' = GiveBack(c) /\ Return(c)
      /\ pf' = [pf EXCEPT ![w] = Adopted(w)]
      /\ session' = SessionLeft(w)
      /\ stray' = IF pf[w].open THEN stray ELSE stray \cup session[w]
      /\ UNCHANGED <<content, added, saved, dropped>>

SaveAsWrites(c) ==
  LET w == WindowOf[c]
      p == arg[c].path
      k == Adopted(w)
  IN  /\ pc[c] = "saveas" /\ (pf[w].open \/ session[w] # {})
      /\ content' = [content EXCEPT ![p] = k.sources]
      /\ saved' = saved \cup k.sources
      /\ holder' = IF arg[c].locked THEN Unlocked(holder, k) ELSE holder
      /\ pf' = [pf EXCEPT ![w] = [k EXCEPT !.path = p, !.dirty = FALSE,
                                           !.locked = @ \/ arg[c].locked]]
      /\ session' = SessionLeft(w)
      /\ Return(c)
      /\ UNCHANGED <<added, dropped, stray>>

\* Refused over unsaved work unless forced; then both go.
Close(c, force) ==
  LET w == WindowOf[c]
      unsaved == IF pf[w].open THEN pf[w].dirty ELSE session[w] # {}
  IN  /\ pc[c] = "idle" /\ (pf[w].open \/ session[w] # {})
      /\ force \/ ~unsaved
      /\ holder' = Unlocked(holder, pf[w])
      /\ dropped' = IF force THEN dropped \cup ((pf[w].sources \cup session[w]) \ saved)
                    ELSE dropped
      /\ pf' = [pf EXCEPT ![w] = NoContainer] /\ session' = [session EXCEPT ![w] = {}]
      /\ UNCHANGED <<content, pc, arg, added, saved, stray>>

-----------------------------------------------------------------------------
(* SaveSource: where to is decided first, stored in a lock hold of its own. *)

AddSource(c) ==
  /\ pc[c] = "idle" /\ added < MaxSources
  /\ pc' = [pc EXCEPT ![c] = IF pf[WindowOf[c]].open THEN "container" ELSE "session"]
  /\ UNCHANGED <<content, holder, pf, session, arg, history>>

StoreSession(c) ==
  /\ pc[c] = "session" /\ added < MaxSources
  /\ added' = added + 1
  /\ session' = [session EXCEPT ![WindowOf[c]] = @ \cup {added + 1}]
  /\ Return(c)
  /\ UNCHANGED <<content, holder, pf, saved, dropped, stray>>

StoreContainer(c) ==
  LET w == WindowOf[c]
  IN  /\ pc[c] = "container" /\ added < MaxSources /\ pf[w].open
      /\ added' = added + 1
      /\ pf' = [pf EXCEPT ![w].sources = @ \cup {added + 1}, ![w].dirty = TRUE]
      /\ Return(c)
      /\ UNCHANGED <<content, holder, session, saved, dropped, stray>>

\* The container is gone, or the source is not accepted.
StoreRefused(c) ==
  /\ pc[c] \in {"session", "container"} /\ Return(c)
  /\ UNCHANGED <<content, holder, pf, session, history>>

\* The process ends: the kernel drops its locks, its memory is gone.
Die(w) ==
  /\ pf[w].open \/ session[w] # {} \/ \E c \in Calls : WindowOf[c] = w /\ pc[c] # "idle"
  /\ holder' = [p \in Paths |-> IF holder[p] = w THEN None ELSE holder[p]]
  /\ dropped' = dropped \cup ((pf[w].sources \cup session[w]) \ saved)
  /\ pf' = [pf EXCEPT ![w] = NoContainer] /\ session' = [session EXCEPT ![w] = {}]
  /\ pc' = [c \in Calls |-> IF WindowOf[c] = w THEN "idle" ELSE pc[c]]
  /\ arg' = [c \in Calls |-> IF WindowOf[c] = w THEN NoArg ELSE arg[c]]
  /\ UNCHANGED <<content, added, saved, stray>>

\* A lock nobody refers to any more (NewProfileFile replaces a container
\* without releasing its lock) goes when the handle is garbage collected.
Collect(p) ==
  /\ holder[p] # None
  /\ ~(pf[holder[p]].locked /\ pf[holder[p]].path = p)
  /\ \A c \in Calls : ~(arg[c].locked /\ arg[c].path = p)
  /\ holder' = [holder EXCEPT ![p] = None]
  /\ UNCHANGED <<content, pf, session, pc, arg, history>>

Call(c) ==
  \/ \E p \in Paths : Open(c, p) \/ SaveAs(c, p)
  \/ Read(c) \/ ReadFails(c) \/ Release(c) \/ Lock(c) \/ LockRefused(c) \/ Install(c)
  \/ New(c) \/ Save(c) \/ SaveAsNothing(c) \/ SaveAsFails(c) \/ SaveAsWrites(c)
  \/ \E force \in BOOLEAN : Close(c, force)
  \/ AddSource(c) \/ StoreSession(c) \/ StoreContainer(c) \/ StoreRefused(c)

Next == \/ \E c \in Calls : Call(c)
        \/ \E w \in Windows : Die(w)
        \/ \E p \in Paths : Collect(p)

Spec == Init /\ [][Next]_vars

-----------------------------------------------------------------------------
(* Properties.                                                             *)

\* A container is open in one window at a time.
OneWindowPerFile ==
  \A v, w \in Windows :
    pf[v].open /\ pf[w].open /\ pf[v].path = pf[w].path /\ pf[v].path # None => v = w

\* A source the window accepted is in its memory or was written to a file;
\* only a forced close (or a crash) gives it up.  The exception is what a Save
\* As took out of the session before it failed: the container it is in then
\* reads clean, and whatever replaces that takes it away.
EditsSurvive ==
  \A s \in 1..added :
    \/ s \in saved \cup dropped \cup stray
    \/ \E w \in Windows : s \in pf[w].sources \cup session[w]

\* The lock file of every path is the abstract lock: taken only when free,
\* never handed from one window to another.
PathLock(p) == INSTANCE Mutex WITH Procs <- Windows, holder <- holder[p]
LocksAreMutexes ==
  /\ \A p \in Paths : PathLock(p)!Init
  /\ [][\A p \in Paths : PathLock(p)!Next \/ UNCHANGED holder[p]]_holder

\* OpenProfileFile: the file is rewritten whole, so a writer that has not
\* seen another window's save would clobber it.
NoClobber ==
  [][\A c \in Calls : Save(c) =>
       \A p \in Paths : p = pf[WindowOf[c]].path => content[p] \subseteq content'[p]]_vars
=============================================================================
