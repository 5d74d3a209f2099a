--------------------------- MODULE ProfileFileProofs ---------------------------
(***************************************************************************)
(* A profile file is open in one window at a time, for any number of       *)
(* windows, files and sources - provided a window makes one of these calls *)
(* at a time and never re-opens the file it has open (Reopens).  The       *)
(* invariant says who holds a path's lock: the container open on it, or    *)
(* the call on its way to install or write one.  On the same terms no      *)
(* accepted source is lost, if a Save As of session sources does not fail. *)
(*                                                                         *)
(* The lock the windows hold a file with is LockFile: on the Windows build *)
(* it has one holder at a time and refuses only while it is held, for any  *)
(* number of processes, and so is the lock that Mutex describes.           *)
(***************************************************************************)
EXTENDS ProfileFile, LockFile, TLAPS

OneCallEach == \A c, d \in Calls : WindowOf[c] = WindowOf[d] => c = d

\* A container with a path holds the lock of that path.
OpenHolds ==
  \A w \in Windows :
    /\ pf[w].path # None => pf[w].open /\ pf[w].locked
    /\ pf[w].locked => pf[w].path # None /\ holder[pf[w].path] = w

\* A call that locked a path holds it, and its window is on another one.
CallHolds ==
  \A c \in Calls :
    /\ arg[c].locked => /\ pc[c] \in {"install", "saveas"}
                        /\ arg[c].path # None
                        /\ holder[arg[c].path] = WindowOf[c]
                        /\ pf[WindowOf[c]].path # arg[c].path
    /\ pc[c] = "install" => arg[c].locked
    /\ pc[c] \in {"read", "release", "lock", "saveas-lock"} =>
         arg[c].path # None /\ pf[WindowOf[c]].path # arg[c].path
    /\ pc[c] = "saveas" /\ ~arg[c].locked =>
         arg[c].path # None /\ pf[WindowOf[c]].path = arg[c].path

FileInv == TypeOK /\ OpenHolds /\ CallHolds

LEMMA FileInit == Init => FileInv
  BY ProfileFileAssumption
  DEF Init, FileInv, TypeOK, FilesOK, CallsOK, Container, OpenHolds, CallHolds, NoContainer, NoArg, Sources

\* Every call and every crash keeps the invariant.
LEMMA FileStep ==
  ASSUME ~Reopens, OneCallEach, FileInv, [Next]_vars
  PROVE  FileInv'
<1> USE ProfileFileAssumption
    DEF FileInv, NoContainer, NoArg, Sources, Return, Unlocked, history
<1>1. ASSUME NEW c \in Calls, NEW p \in Paths, Open(c, p) PROVE FileInv'
  <2>1. (pf \in [Windows -> Container])'
    BY <1>1 DEF TypeOK, Container, FilesOK, CallsOK, Open, NothingUnsaved
  <2>2. FilesOK' /\ CallsOK'
    <3>1. FilesOK'
      BY <1>1 DEF TypeOK, FilesOK, Open
    <3>2. CallsOK'
      BY <1>1 DEF TypeOK, CallsOK, Open, NothingUnsaved
    <3> QED BY <3>1, <3>2
  <2>3. OpenHolds'
    BY <1>1 DEF OneCallEach, TypeOK, Container, FilesOK, CallsOK, OpenHolds,
      CallHolds, Open, NothingUnsaved
  <2>4. CallHolds'
    BY <1>1 DEF OneCallEach, TypeOK, Container, FilesOK, CallsOK, OpenHolds,
      CallHolds, Open, NothingUnsaved
  <2>5. QED
    BY <2>1, <2>2, <2>3, <2>4 DEF TypeOK, OpenHolds
<1>2. ASSUME NEW c \in Calls, NEW p \in Paths, SaveAs(c, p) PROVE FileInv'
  <2>1. (pf \in [Windows -> Container])'
    BY <1>2 DEF TypeOK, Container, FilesOK, CallsOK, SaveAs
  <2>2. FilesOK' /\ CallsOK'
    BY <1>2 DEF TypeOK, Container, FilesOK, CallsOK, SaveAs
  <2>3. OpenHolds'
    BY <1>2 DEF OneCallEach, TypeOK, Container, FilesOK, CallsOK,
      OpenHolds, CallHolds, SaveAs
  <2>4. CallHolds'
    BY <1>2 DEF OneCallEach, TypeOK, Container, FilesOK, CallsOK,
      OpenHolds, CallHolds, SaveAs
  <2>5. QED
    BY <2>1, <2>2, <2>3, <2>4 DEF TypeOK, OpenHolds
<1>3. ASSUME NEW c \in Calls, Read(c) PROVE FileInv'
  <2>1. (pf \in [Windows -> Container])'
    BY <1>3 DEF TypeOK, Container, FilesOK, CallsOK, Read
  <2>2. FilesOK' /\ CallsOK'
    <3>1. FilesOK'
      BY <1>3 DEF TypeOK, FilesOK, Read
    <3>2. pc' \in [Calls -> {"idle", "read", "release", "lock", "install",
                            "saveas-lock", "saveas", "session", "container"}]
      BY <1>3 DEF TypeOK, CallsOK, Read
    <3> DEFINE a == [arg[c] EXCEPT !.data = content[arg[c].path]]
    <3>3. a \in [path : Paths \cup {None}, data : SUBSET Sources, locked : BOOLEAN]
      <4>1. pc[c] = "read" /\ arg[c].path \in Paths
        BY <1>3 DEF Read, CallHolds, TypeOK, CallsOK
      <4> QED BY <4>1 DEF TypeOK, CallsOK, FilesOK
    <3>4. arg' = [arg EXCEPT ![c] = a]
      BY <1>3 DEF Read
    <3> HIDE DEF a
    <3>5. QED
      BY <3>1, <3>2, <3>3, <3>4 DEF TypeOK, CallsOK
  <2>3. OpenHolds'
    BY <1>3 DEF OneCallEach, TypeOK, Container, FilesOK, CallsOK,
      OpenHolds, CallHolds, Read
  <2>4. CallHolds'
    BY <1>3 DEF OneCallEach, TypeOK, Container, FilesOK, CallsOK,
      OpenHolds, CallHolds, Read
  <2>5. QED
    BY <2>1, <2>2, <2>3, <2>4 DEF TypeOK, OpenHolds
<1>4. ASSUME NEW c \in Calls, ReadFails(c) PROVE FileInv'
  <2>1. (pf \in [Windows -> Container])'
    BY <1>4 DEF TypeOK, Container, FilesOK, CallsOK, ReadFails
  <2>2. FilesOK' /\ CallsOK'
    BY <1>4 DEF TypeOK, Container, FilesOK, CallsOK, ReadFails
  <2>3. OpenHolds'
    BY <1>4 DEF OneCallEach, TypeOK, Container, FilesOK, CallsOK,
      OpenHolds, CallHolds, ReadFails
  <2>4. CallHolds'
    BY <1>4 DEF OneCallEach, TypeOK, Container, FilesOK, CallsOK,
      OpenHolds, CallHolds, ReadFails
  <2>5. QED
    BY <2>1, <2>2, <2>3, <2>4 DEF TypeOK, OpenHolds
<1>5. ASSUME NEW c \in Calls, Release(c) PROVE FileInv'
  <2>1. (pf \in [Windows -> Container])'
    <3> DEFINE w == WindowOf[c]
               k == [pf[w] EXCEPT !.locked = FALSE]
    <3>0. pf[w] \in Container
      BY DEF TypeOK
    <3>1. k \in Container
      BY <3>0 DEF Container
    <3>2. pf' = pf \/ pf' = [pf EXCEPT ![w] = k]
      BY <1>5 DEF Release
    <3> HIDE DEF w, k
    <3> QED BY <3>1, <3>2 DEF TypeOK
  <2>2. FilesOK' /\ CallsOK'
    <3>1. holder' \in [Paths -> Windows \cup {None}]
      BY <1>5 DEF TypeOK, Container, FilesOK, Release
    <3>2. FilesOK'
      BY <1>5, <3>1 DEF TypeOK, FilesOK, Release
    <3>3. CallsOK'
      BY <1>5 DEF TypeOK, CallsOK, Release
    <3> QED BY <3>2, <3>3
  <2>3. OpenHolds'
    BY <1>5 DEF OneCallEach, TypeOK, Container, FilesOK, CallsOK,
      OpenHolds, CallHolds, Release
  <2>4. CallHolds'
    BY <1>5 DEF OneCallEach, TypeOK, Container, FilesOK, CallsOK,
      OpenHolds, CallHolds, Release
  <2>5. QED
    BY <2>1, <2>2, <2>3, <2>4 DEF TypeOK, OpenHolds
<1>6. ASSUME NEW c \in Calls, Lock(c) PROVE FileInv'
  <2>1. (pf \in [Windows -> Container])'
    BY <1>6 DEF TypeOK, Container, FilesOK, CallsOK, Lock, Free
  <2>2. FilesOK' /\ CallsOK'
    <3>1. FilesOK'
      BY <1>6 DEF TypeOK, FilesOK, Lock
    <3>2. pc' \in [Calls -> {"idle", "read", "release", "lock", "install",
                            "saveas-lock", "saveas", "session", "container"}]
      BY <1>6 DEF TypeOK, CallsOK, Lock
    <3>3. [arg[c] EXCEPT !.locked = TRUE]
             \in [path : Paths \cup {None}, data : SUBSET Sources, locked : BOOLEAN]
      BY DEF TypeOK, CallsOK
    <3>4. arg' = [arg EXCEPT ![c] = [arg[c] EXCEPT !.locked = TRUE]]
      BY <1>6 DEF Lock
    <3>5. QED
      BY <3>1, <3>2, <3>3, <3>4 DEF TypeOK, CallsOK
  <2>3. OpenHolds'
    BY <1>6 DEF OneCallEach, TypeOK, Container, FilesOK, CallsOK, OpenHolds,
      CallHolds, Lock, Free
  <2>4. CallHolds'
    BY <1>6 DEF OneCallEach, TypeOK, Container, FilesOK, CallsOK, OpenHolds,
      CallHolds, Lock, Free
  <2>5. QED
    BY <2>1, <2>2, <2>3, <2>4 DEF TypeOK, OpenHolds
<1>7. ASSUME NEW c \in Calls, LockRefused(c) PROVE FileInv'
  <2>1. (pf \in [Windows -> Container])'
    BY <1>7 DEF TypeOK, Container, FilesOK, CallsOK, LockRefused
  <2>2. FilesOK' /\ CallsOK'
    BY <1>7 DEF TypeOK, Container, FilesOK, CallsOK, LockRefused
  <2>3. OpenHolds'
    BY <1>7 DEF OneCallEach, TypeOK, Container, FilesOK, CallsOK,
      OpenHolds, CallHolds, LockRefused
  <2>4. CallHolds'
    BY <1>7 DEF OneCallEach, TypeOK, Container, FilesOK, CallsOK,
      OpenHolds, CallHolds, LockRefused
  <2>5. QED
    BY <2>1, <2>2, <2>3, <2>4 DEF TypeOK, OpenHolds
<1>8. ASSUME NEW c \in Calls, Install(c) PROVE FileInv'
  <2>1. (pf \in [Windows -> Container])'
    BY <1>8 DEF TypeOK, Container, FilesOK, CallsOK, Install
  <2>2. FilesOK' /\ CallsOK'
    BY <1>8 DEF TypeOK, Container, FilesOK, CallsOK, Install
  <2>3. OpenHolds'
    BY <1>8 DEF OneCallEach, TypeOK, Container, FilesOK, CallsOK,
      OpenHolds, CallHolds, Install
  <2>4. CallHolds'
    BY <1>8 DEF OneCallEach, TypeOK, Container, FilesOK, CallsOK,
      OpenHolds, CallHolds, Install
  <2>5. QED
    BY <2>1, <2>2, <2>3, <2>4 DEF TypeOK, OpenHolds
<1>9. ASSUME NEW c \in Calls, New(c) PROVE FileInv'
  <2>1. (pf \in [Windows -> Container])'
    BY <1>9 DEF TypeOK, Container, FilesOK, CallsOK, New
  <2>2. FilesOK' /\ CallsOK'
    BY <1>9 DEF TypeOK, Container, FilesOK, CallsOK, New
  <2>3. OpenHolds'
    BY <1>9 DEF OneCallEach, TypeOK, Container, FilesOK, CallsOK, OpenHolds,
      CallHolds, New
  <2>4. CallHolds'
    BY <1>9 DEF OneCallEach, TypeOK, Container, FilesOK, CallsOK, OpenHolds,
      CallHolds, New
  <2>5. QED
    BY <2>1, <2>2, <2>3, <2>4 DEF TypeOK, OpenHolds
<1>10. ASSUME NEW c \in Calls, Save(c) PROVE FileInv'
  <2>1. (pf \in [Windows -> Container])'
    <3>1. PICK w \in Windows : w = WindowOf[c]
      OBVIOUS
    <3>2. pf[w] \in Container
      BY DEF TypeOK
    <3>3. [pf[w] EXCEPT !.dirty = FALSE] \in Container
      BY <1>10, <3>1, <3>2 DEF Save, Container, TypeOK, FilesOK, CallsOK
    <3>4. pf' = [pf EXCEPT ![w] = [pf[w] EXCEPT !.dirty = FALSE]]
      BY <1>10, <3>1 DEF Save
    <3>5. QED
      BY <3>3, <3>4 DEF TypeOK
  <2>2. FilesOK' /\ CallsOK'
    BY <1>10 DEF TypeOK, Container, FilesOK, CallsOK, Save
  <2>3. OpenHolds'
    BY <1>10 DEF OneCallEach, TypeOK, Container, FilesOK, CallsOK,
      OpenHolds, CallHolds, Save
  <2>4. CallHolds'
    BY <1>10 DEF OneCallEach, TypeOK, Container, FilesOK, CallsOK,
      OpenHolds, CallHolds, Save
  <2>5. QED
    BY <2>1, <2>2, <2>3, <2>4 DEF TypeOK, OpenHolds
<1>11. ASSUME NEW c \in Calls, SaveAsNothing(c) PROVE FileInv'
  <2>1. (pf \in [Windows -> Container])'
    BY <1>11 DEF TypeOK, Container, FilesOK, CallsOK, SaveAsNothing, GiveBack
  <2>2. FilesOK' /\ CallsOK'
    BY <1>11 DEF TypeOK, Container, FilesOK, CallsOK, SaveAsNothing, GiveBack
  <2>3. OpenHolds'
    BY <1>11 DEF OneCallEach, TypeOK, Container, FilesOK, CallsOK,
      OpenHolds, CallHolds, SaveAsNothing, GiveBack
  <2>4. CallHolds'
    BY <1>11 DEF OneCallEach, TypeOK, Container, FilesOK, CallsOK,
      OpenHolds, CallHolds, SaveAsNothing, GiveBack
  <2>5. QED
    BY <2>1, <2>2, <2>3, <2>4 DEF TypeOK, OpenHolds
<1>12. ASSUME NEW c \in Calls, SaveAsFails(c) PROVE FileInv'
  <2>1. (pf \in [Windows -> Container])'
    BY <1>12 DEF TypeOK, Container, FilesOK, CallsOK, SaveAsFails, GiveBack,
      Adopted, SessionLeft
  <2>2. FilesOK' /\ CallsOK'
    BY <1>12 DEF TypeOK, Container, FilesOK, CallsOK, SaveAsFails, GiveBack,
      Adopted, SessionLeft
  <2>3. OpenHolds'
    BY <1>12 DEF OneCallEach, TypeOK, Container, FilesOK, CallsOK,
      OpenHolds, CallHolds, SaveAsFails, GiveBack, Adopted, SessionLeft
  <2>4. CallHolds'
    BY <1>12 DEF OneCallEach, TypeOK, Container, FilesOK, CallsOK,
      OpenHolds, CallHolds, SaveAsFails, GiveBack, Adopted, SessionLeft
  <2>5. QED
    BY <2>1, <2>2, <2>3, <2>4 DEF TypeOK, OpenHolds
<1>13. ASSUME NEW c \in Calls, SaveAsWrites(c) PROVE FileInv'
  <2>1. (pf \in [Windows -> Container])'
    <3>1. PICK w \in Windows : w = WindowOf[c]
      OBVIOUS
    <3>2. pf[w] \in Container
      BY DEF TypeOK
    <3>3. [Adopted(w) EXCEPT !.path = arg[c].path, !.dirty = FALSE,
                             !.locked = @ \/ arg[c].locked] \in Container
      <4>1. Adopted(w) \in Container
        BY <3>1, <3>2 DEF Adopted, Container, TypeOK, FilesOK
      <4>2. arg[c].path \in Paths \cup {None}
        BY DEF TypeOK, CallsOK
      <4>3. (Adopted(w).locked \/ arg[c].locked) \in BOOLEAN
        OBVIOUS
      <4>4. QED
        BY <4>1, <4>2, <4>3 DEF Container
    <3>4. pf' = [pf EXCEPT ![w] = [Adopted(w) EXCEPT !.path = arg[c].path, !.dirty = FALSE,
                             !.locked = @ \/ arg[c].locked]]
      BY <1>13, <3>1 DEF SaveAsWrites
    <3>5. QED
      BY <3>3, <3>4 DEF TypeOK
  <2>2. FilesOK' /\ CallsOK'
    BY <1>13 DEF TypeOK, Container, FilesOK, CallsOK, SaveAsWrites, Adopted,
      SessionLeft
  <2>3. OpenHolds'
    BY <1>13 DEF OneCallEach, TypeOK, Container, FilesOK, CallsOK,
      OpenHolds, CallHolds, SaveAsWrites, Adopted, SessionLeft
  <2>4. CallHolds'
    BY <1>13 DEF OneCallEach, TypeOK, Container, FilesOK, CallsOK,
      OpenHolds, CallHolds, SaveAsWrites, Adopted, SessionLeft
  <2>5. QED
    BY <2>1, <2>2, <2>3, <2>4 DEF TypeOK, OpenHolds
<1>14. ASSUME NEW c \in Calls, NEW force \in BOOLEAN, Close(c, force) PROVE FileInv'
  <2>1. (pf \in [Windows -> Container])'
    BY <1>14 DEF TypeOK, Container, FilesOK, CallsOK, Close
  <2>2. FilesOK' /\ CallsOK'
    BY <1>14 DEF TypeOK, Container, FilesOK, CallsOK, Close
  <2>3. OpenHolds'
    BY <1>14 DEF OneCallEach, TypeOK, Container, FilesOK, CallsOK,
      OpenHolds, CallHolds, Close
  <2>4. CallHolds'
    BY <1>14 DEF OneCallEach, TypeOK, Container, FilesOK, CallsOK,
      OpenHolds, CallHolds, Close
  <2>5. QED
    BY <2>1, <2>2, <2>3, <2>4 DEF TypeOK, OpenHolds
<1>15. ASSUME NEW c \in Calls, AddSource(c) PROVE FileInv'
  <2>1. (pf \in [Windows -> Container])'
    BY <1>15 DEF TypeOK, Container, FilesOK, CallsOK, AddSource
  <2>2. FilesOK' /\ CallsOK'
    BY <1>15 DEF TypeOK, Container, FilesOK, CallsOK, AddSource
  <2>3. OpenHolds'
    BY <1>15 DEF OneCallEach, TypeOK, Container, FilesOK, CallsOK,
      OpenHolds, CallHolds, AddSource
  <2>4. CallHolds'
    BY <1>15 DEF OneCallEach, TypeOK, Container, FilesOK, CallsOK,
      OpenHolds, CallHolds, AddSource
  <2>5. QED
    BY <2>1, <2>2, <2>3, <2>4 DEF TypeOK, OpenHolds
<1>16. ASSUME NEW c \in Calls, StoreRefused(c) PROVE FileInv'
  <2>1. (pf \in [Windows -> Container])'
    BY <1>16 DEF TypeOK, Container, FilesOK, CallsOK, StoreRefused
  <2>2. FilesOK' /\ CallsOK'
    BY <1>16 DEF TypeOK, Container, FilesOK, CallsOK, StoreRefused
  <2>3. OpenHolds'
    BY <1>16 DEF OneCallEach, TypeOK, Container, FilesOK, CallsOK,
      OpenHolds, CallHolds, StoreRefused
  <2>4. CallHolds'
    BY <1>16 DEF OneCallEach, TypeOK, Container, FilesOK, CallsOK,
      OpenHolds, CallHolds, StoreRefused
  <2>5. QED
    BY <2>1, <2>2, <2>3, <2>4 DEF TypeOK, OpenHolds
<1>17. ASSUME NEW c \in Calls, StoreSession(c) PROVE FileInv'
  <2>1. (pf \in [Windows -> Container])'
    BY <1>17 DEF TypeOK, Container, FilesOK, CallsOK, StoreSession
  <2>2. FilesOK' /\ CallsOK'
    BY <1>17 DEF TypeOK, Container, FilesOK, CallsOK, StoreSession
  <2>3. OpenHolds'
    BY <1>17 DEF OneCallEach, TypeOK, Container, FilesOK, CallsOK,
      OpenHolds, CallHolds, StoreSession
  <2>4. CallHolds'
    BY <1>17 DEF OneCallEach, TypeOK, Container, FilesOK, CallsOK,
      OpenHolds, CallHolds, StoreSession
  <2>5. QED
    BY <2>1, <2>2, <2>3, <2>4 DEF TypeOK, OpenHolds
<1>18. ASSUME NEW c \in Calls, StoreContainer(c) PROVE FileInv'
  <2>1. (pf \in [Windows -> Container])'
    <3>1. PICK w \in Windows : w = WindowOf[c]
      OBVIOUS
    <3>2. pf[w] \in Container
      BY DEF TypeOK
    <3>3. [pf[w] EXCEPT !.sources = @ \cup {added + 1}, !.dirty = TRUE] \in Container
      <4>1. added + 1 \in Sources
        BY <1>18 DEF StoreContainer, TypeOK, FilesOK
      <4>2. pf[w].sources \cup {added + 1} \in SUBSET Sources
        BY <3>2, <4>1 DEF Container
      <4>3. QED
        BY <3>2, <4>2 DEF Container
    <3>4. pf' = [pf EXCEPT ![w] = [pf[w] EXCEPT !.sources = @ \cup {added + 1}, !.dirty = TRUE]]
      BY <1>18, <3>1 DEF StoreContainer
    <3>5. QED
      BY <3>3, <3>4 DEF TypeOK
  <2>2. FilesOK' /\ CallsOK'
    BY <1>18 DEF TypeOK, Container, FilesOK, CallsOK, StoreContainer
  <2>3. OpenHolds'
    BY <1>18 DEF OneCallEach, TypeOK, Container, FilesOK, CallsOK,
      OpenHolds, CallHolds, StoreContainer
  <2>4. CallHolds'
    BY <1>18 DEF OneCallEach, TypeOK, Container, FilesOK, CallsOK,
      OpenHolds, CallHolds, StoreContainer
  <2>5. QED
    BY <2>1, <2>2, <2>3, <2>4 DEF TypeOK, OpenHolds
<1>19. ASSUME NEW w \in Windows, Die(w) PROVE FileInv'
  <2>1. (pf \in [Windows -> Container])'
    BY <1>19 DEF TypeOK, Container, FilesOK, CallsOK, Die
  <2>2. FilesOK' /\ CallsOK'
    BY <1>19 DEF TypeOK, Container, FilesOK, CallsOK, Die
  <2>3. OpenHolds'
    BY <1>19 DEF OneCallEach, TypeOK, Container, FilesOK, CallsOK,
      OpenHolds, CallHolds, Die
  <2>4. CallHolds'
    BY <1>19 DEF OneCallEach, TypeOK, Container, FilesOK, CallsOK,
      OpenHolds, CallHolds, Die
  <2>5. QED
    BY <2>1, <2>2, <2>3, <2>4 DEF TypeOK, OpenHolds
<1>20. ASSUME NEW p \in Paths, Collect(p) PROVE FileInv'
  <2>1. (pf \in [Windows -> Container])'
    BY <1>20 DEF TypeOK, Container, FilesOK, CallsOK, Collect
  <2>2. FilesOK' /\ CallsOK'
    BY <1>20 DEF TypeOK, Container, FilesOK, CallsOK, Collect
  <2>3. OpenHolds'
    BY <1>20 DEF OneCallEach, TypeOK, Container, FilesOK, CallsOK,
      OpenHolds, CallHolds, Collect
  <2>4. CallHolds'
    BY <1>20 DEF OneCallEach, TypeOK, Container, FilesOK, CallsOK,
      OpenHolds, CallHolds, Collect
  <2>5. QED
    BY <2>1, <2>2, <2>3, <2>4 DEF TypeOK, OpenHolds
<1>21. CASE UNCHANGED vars
  BY <1>21 DEF vars, TypeOK, FilesOK, CallsOK, OpenHolds, CallHolds
<1>22. QED
  BY <1>1, <1>2, <1>3, <1>4, <1>5, <1>6, <1>7, <1>8, <1>9, <1>10, <1>11,
    <1>12, <1>13, <1>14, <1>15, <1>16, <1>17, <1>18, <1>19, <1>20, <1>21 DEF
    Next, Call

\* Two containers on one path would both hold its lock.
THEOREM FileInOneWindow ==
  ASSUME ~Reopens, OneCallEach
  PROVE  Spec => []OneWindowPerFile
<1>1. FileInv /\ [Next]_vars => FileInv'
  BY FileStep
<1>2. FileInv => OneWindowPerFile
  BY DEF FileInv, TypeOK, Container, OpenHolds, OneWindowPerFile
<1>3. QED
  BY <1>1, <1>2, FileInit, PTL DEF Spec

\* What is open, in a file or in flight keeps its shape through every crash, and
\* a window that has a path locked is the one that holds it (pkg/api/sources.go).
THEOREM FileTypeCorrect ==
  ASSUME ~Reopens, OneCallEach
  PROVE  Spec => []TypeOK
<1>1. FileInv /\ [Next]_vars => FileInv'
  BY FileStep
<1>2. FileInv => TypeOK
  BY DEF FileInv
<1>3. QED
  BY <1>1, <1>2, FileInit, PTL DEF Spec

-----------------------------------------------------------------------------
(* Accepted sources are not lost.                                          *)

\* A clean container holds nothing that was not written but what a failed
\* Save As left in it; what is not open holds nothing, and session sources
\* live only beside no container.
Clean ==
  \A w \in Windows :
    /\ ~pf[w].dirty => pf[w].sources \subseteq saved \cup stray
    /\ pf[w].open => session[w] = {}
    /\ ~pf[w].open => pf[w].sources = {} /\ ~pf[w].dirty

\* A call that opens a file has nothing unsaved to replace, and reads what
\* was saved; a source on its way to the session finds no container there.
Safely ==
  \A c \in Calls :
    /\ arg[c].data \subseteq saved
    /\ pc[c] \in {"read", "release", "lock", "install"} =>
         session[WindowOf[c]] = {} /\ ~pf[WindowOf[c]].dirty
    /\ pc[c] = "session" => ~pf[WindowOf[c]].open

Written == \A p \in Paths : content[p] \subseteq saved

KeptInv == Clean /\ Safely /\ Written /\ EditsSurvive

LEMMA KeptInit == Init => KeptInv
  BY ProfileFileAssumption
  DEF Init, KeptInv, Clean, Safely, Written, EditsSurvive, NoContainer, NoArg

\* Every call and every crash keeps it: what a step takes out of a window's
\* memory was saved, is being saved, or is given up in the open.
LEMMA KeptStep ==
  ASSUME OneCallEach, FileInv, KeptInv, [Next]_vars
  PROVE  KeptInv'
<1> USE ProfileFileAssumption
    DEF FileInv, KeptInv, NoContainer, NoArg, Return, history
<1>1. ASSUME NEW c \in Calls, NEW p \in Paths, Open(c, p) PROVE KeptInv'
  <2>1. Clean'
    BY <1>1 DEF TypeOK, Container, FilesOK, CallsOK, Clean, Safely, Open, NothingUnsaved
  <2>2. Safely'
    BY <1>1 DEF OneCallEach, TypeOK, Container, FilesOK, CallsOK, Clean, Safely, Written, Open, NothingUnsaved
  <2>3. Written'
    BY <1>1 DEF TypeOK, Container, FilesOK, CallsOK, Written, Clean, Open, NothingUnsaved
  <2>4. EditsSurvive'
    BY <1>1 DEF TypeOK, Container, FilesOK, CallsOK, EditsSurvive, Clean, Safely, Open, NothingUnsaved
  <2>5. QED
    BY <2>1, <2>2, <2>3, <2>4
<1>2. ASSUME NEW c \in Calls, NEW p \in Paths, SaveAs(c, p) PROVE KeptInv'
  <2>1. Clean'
    BY <1>2 DEF TypeOK, Container, FilesOK, CallsOK, Clean, Safely, SaveAs
  <2>2. Safely'
    BY <1>2 DEF OneCallEach, TypeOK, Container, FilesOK, CallsOK, Clean, Safely, Written, SaveAs
  <2>3. Written'
    BY <1>2 DEF TypeOK, Container, FilesOK, CallsOK, Written, Clean, SaveAs
  <2>4. EditsSurvive'
    BY <1>2 DEF TypeOK, Container, FilesOK, CallsOK, EditsSurvive, Clean, Safely, SaveAs
  <2>5. QED
    BY <2>1, <2>2, <2>3, <2>4
<1>3. ASSUME NEW c \in Calls, Read(c) PROVE KeptInv'
  <2>1. Clean'
    BY <1>3 DEF TypeOK, Container, FilesOK, CallsOK, Clean, Safely, Read
  <2>2. Safely'
    <3>1. arg[c].path \in Paths
      BY <1>3 DEF TypeOK, CallsOK, CallHolds, Read
    <3>2. content[arg[c].path] \subseteq saved
      BY <3>1 DEF Written
    <3>3. QED
      BY <1>3, <3>2 DEF OneCallEach, TypeOK, CallsOK, Safely, Read
  <2>3. Written'
    BY <1>3 DEF TypeOK, Container, FilesOK, CallsOK, Written, Clean, Read
  <2>4. EditsSurvive'
    BY <1>3 DEF TypeOK, Container, FilesOK, CallsOK, EditsSurvive, Clean, Safely, Read
  <2>5. QED
    BY <2>1, <2>2, <2>3, <2>4
<1>4. ASSUME NEW c \in Calls, ReadFails(c) PROVE KeptInv'
  <2>1. Clean'
    BY <1>4 DEF TypeOK, Container, FilesOK, CallsOK, Clean, Safely, ReadFails
  <2>2. Safely'
    BY <1>4 DEF OneCallEach, TypeOK, Container, FilesOK, CallsOK, Clean, Safely, Written, ReadFails
  <2>3. Written'
    BY <1>4 DEF TypeOK, Container, FilesOK, CallsOK, Written, Clean, ReadFails
  <2>4. EditsSurvive'
    BY <1>4 DEF TypeOK, Container, FilesOK, CallsOK, EditsSurvive, Clean, Safely, ReadFails
  <2>5. QED
    BY <2>1, <2>2, <2>3, <2>4
<1>5. ASSUME NEW c \in Calls, Release(c) PROVE KeptInv'
  <2>1. Clean'
    BY <1>5 DEF TypeOK, Container, FilesOK, CallsOK, Clean, Safely, Release
  <2>2. Safely'
    BY <1>5 DEF OneCallEach, TypeOK, Container, FilesOK, CallsOK, Clean, Safely, Written, Release
  <2>3. Written'
    BY <1>5 DEF TypeOK, Container, FilesOK, CallsOK, Written, Clean, Release
  <2>4. EditsSurvive'
    BY <1>5 DEF TypeOK, Container, FilesOK, CallsOK, EditsSurvive, Clean, Safely, Release
  <2>5. QED
    BY <2>1, <2>2, <2>3, <2>4
<1>6. ASSUME NEW c \in Calls, Lock(c) PROVE KeptInv'
  <2>1. Clean'
    BY <1>6 DEF TypeOK, Container, FilesOK, CallsOK, Clean, Safely, Lock
  <2>2. Safely'
    BY <1>6 DEF OneCallEach, TypeOK, Container, FilesOK, CallsOK, Clean, Safely, Written, Lock
  <2>3. Written'
    BY <1>6 DEF TypeOK, Container, FilesOK, CallsOK, Written, Clean, Lock
  <2>4. EditsSurvive'
    BY <1>6 DEF TypeOK, Container, FilesOK, CallsOK, EditsSurvive, Clean, Safely, Lock
  <2>5. QED
    BY <2>1, <2>2, <2>3, <2>4
<1>7. ASSUME NEW c \in Calls, LockRefused(c) PROVE KeptInv'
  <2>1. Clean'
    BY <1>7 DEF TypeOK, Container, FilesOK, CallsOK, Clean, Safely, LockRefused
  <2>2. Safely'
    BY <1>7 DEF OneCallEach, TypeOK, Container, FilesOK, CallsOK, Clean, Safely, Written, LockRefused
  <2>3. Written'
    BY <1>7 DEF TypeOK, Container, FilesOK, CallsOK, Written, Clean, LockRefused
  <2>4. EditsSurvive'
    BY <1>7 DEF TypeOK, Container, FilesOK, CallsOK, EditsSurvive, Clean, Safely, LockRefused
  <2>5. QED
    BY <2>1, <2>2, <2>3, <2>4
<1>8. ASSUME NEW c \in Calls, Install(c) PROVE KeptInv'
  <2>1. Clean'
    BY <1>8 DEF TypeOK, Container, FilesOK, CallsOK, Clean, Safely, Install
  <2>2. Safely'
    BY <1>8 DEF OneCallEach, TypeOK, Container, FilesOK, CallsOK, Clean, Safely, Written, Install
  <2>3. Written'
    BY <1>8 DEF TypeOK, Container, FilesOK, CallsOK, Written, Clean, Install
  <2>4. EditsSurvive'
    BY <1>8 DEF TypeOK, Container, FilesOK, CallsOK, EditsSurvive, Clean, Safely, Install
  <2>5. QED
    BY <2>1, <2>2, <2>3, <2>4
<1>9. ASSUME NEW c \in Calls, New(c) PROVE KeptInv'
  <2>1. Clean'
    BY <1>9 DEF TypeOK, Container, FilesOK, CallsOK, Clean, Safely, New, NothingUnsaved
  <2>2. Safely'
    BY <1>9 DEF OneCallEach, TypeOK, Container, FilesOK, CallsOK, Clean, Safely, Written, New, NothingUnsaved
  <2>3. Written'
    BY <1>9 DEF TypeOK, Container, FilesOK, CallsOK, Written, Clean, New, NothingUnsaved
  <2>4. EditsSurvive'
    BY <1>9 DEF TypeOK, Container, FilesOK, CallsOK, EditsSurvive, Clean, Safely, New, NothingUnsaved
  <2>5. QED
    BY <2>1, <2>2, <2>3, <2>4
<1>10. ASSUME NEW c \in Calls, Save(c) PROVE KeptInv'
  <2>1. Clean'
    BY <1>10 DEF TypeOK, Container, FilesOK, CallsOK, Clean, Safely, Save
  <2>2. Safely'
    BY <1>10 DEF OneCallEach, TypeOK, Container, FilesOK, CallsOK, Clean, Safely, Written, Save
  <2>3. Written'
    BY <1>10 DEF TypeOK, Container, FilesOK, CallsOK, Written, Clean, Save
  <2>4. EditsSurvive'
    BY <1>10 DEF TypeOK, Container, FilesOK, CallsOK, EditsSurvive, Clean, Safely, Save
  <2>5. QED
    BY <2>1, <2>2, <2>3, <2>4
<1>11. ASSUME NEW c \in Calls, SaveAsNothing(c) PROVE KeptInv'
  <2>1. Clean'
    BY <1>11 DEF TypeOK, Container, FilesOK, CallsOK, Clean, Safely, SaveAsNothing
  <2>2. Safely'
    BY <1>11 DEF OneCallEach, TypeOK, Container, FilesOK, CallsOK, Clean, Safely, Written, SaveAsNothing
  <2>3. Written'
    BY <1>11 DEF TypeOK, Container, FilesOK, CallsOK, Written, Clean, SaveAsNothing
  <2>4. EditsSurvive'
    BY <1>11 DEF TypeOK, Container, FilesOK, CallsOK, EditsSurvive, Clean, Safely, SaveAsNothing
  <2>5. QED
    BY <2>1, <2>2, <2>3, <2>4
<1>12. ASSUME NEW c \in Calls, SaveAsFails(c) PROVE KeptInv'
  <2>1. Clean'
    BY <1>12 DEF TypeOK, Container, FilesOK, CallsOK, Clean, Safely, SaveAsFails, Adopted, SessionLeft
  <2>2. Safely'
    BY <1>12 DEF OneCallEach, TypeOK, Container, FilesOK, CallsOK, Clean, Safely, Written, SaveAsFails, Adopted, SessionLeft
  <2>3. Written'
    BY <1>12 DEF TypeOK, Container, FilesOK, CallsOK, Written, Clean, SaveAsFails, Adopted, SessionLeft
  <2>4. EditsSurvive'
    BY <1>12 DEF TypeOK, Container, FilesOK, CallsOK, EditsSurvive, Clean, Safely, SaveAsFails, Adopted, SessionLeft
  <2>5. QED
    BY <2>1, <2>2, <2>3, <2>4
<1>13. ASSUME NEW c \in Calls, SaveAsWrites(c) PROVE KeptInv'
  <2>1. Clean'
    BY <1>13 DEF TypeOK, Container, FilesOK, CallsOK, Clean, Safely, SaveAsWrites, Adopted, SessionLeft
  <2>2. Safely'
    BY <1>13 DEF OneCallEach, TypeOK, Container, FilesOK, CallsOK, Clean, Safely, Written, SaveAsWrites, Adopted, SessionLeft
  <2>3. Written'
    BY <1>13 DEF TypeOK, Container, FilesOK, CallsOK, Written, Clean, SaveAsWrites, Adopted, SessionLeft
  <2>4. EditsSurvive'
    BY <1>13 DEF TypeOK, Container, FilesOK, CallsOK, EditsSurvive, Clean, Safely, SaveAsWrites, Adopted, SessionLeft
  <2>5. QED
    BY <2>1, <2>2, <2>3, <2>4
<1>14. ASSUME NEW c \in Calls, NEW force \in BOOLEAN, Close(c, force) PROVE KeptInv'
  <2>1. Clean'
    BY <1>14 DEF TypeOK, Container, FilesOK, CallsOK, Clean, Safely, Close
  <2>2. Safely'
    BY <1>14 DEF OneCallEach, TypeOK, Container, FilesOK, CallsOK, Clean, Safely, Written, Close
  <2>3. Written'
    BY <1>14 DEF TypeOK, Container, FilesOK, CallsOK, Written, Clean, Close
  <2>4. EditsSurvive'
    BY <1>14 DEF TypeOK, Container, FilesOK, CallsOK, EditsSurvive, Clean, Safely, Close
  <2>5. QED
    BY <2>1, <2>2, <2>3, <2>4
<1>15. ASSUME NEW c \in Calls, AddSource(c) PROVE KeptInv'
  <2>1. Clean'
    BY <1>15 DEF TypeOK, Container, FilesOK, CallsOK, Clean, Safely, AddSource
  <2>2. Safely'
    BY <1>15 DEF OneCallEach, TypeOK, Container, FilesOK, CallsOK, Clean, Safely, Written, AddSource
  <2>3. Written'
    BY <1>15 DEF TypeOK, Container, FilesOK, CallsOK, Written, Clean, AddSource
  <2>4. EditsSurvive'
    BY <1>15 DEF TypeOK, Container, FilesOK, CallsOK, EditsSurvive, Clean, Safely, AddSource
  <2>5. QED
    BY <2>1, <2>2, <2>3, <2>4
<1>16. ASSUME NEW c \in Calls, StoreSession(c) PROVE KeptInv'
  <2>1. Clean'
    BY <1>16 DEF TypeOK, Container, FilesOK, CallsOK, Clean, Safely, StoreSession
  <2>2. Safely'
    BY <1>16 DEF OneCallEach, TypeOK, Container, FilesOK, CallsOK, Clean, Safely, Written, StoreSession
  <2>3. Written'
    BY <1>16 DEF TypeOK, Container, FilesOK, CallsOK, Written, Clean, StoreSession
  <2>4. EditsSurvive'
    BY <1>16 DEF TypeOK, Container, FilesOK, CallsOK, EditsSurvive, Clean, Safely, StoreSession
  <2>5. QED
    BY <2>1, <2>2, <2>3, <2>4
<1>17. ASSUME NEW c \in Calls, StoreContainer(c) PROVE KeptInv'
  <2>1. Clean'
    BY <1>17 DEF TypeOK, Container, FilesOK, CallsOK, Clean, Safely, StoreContainer
  <2>2. Safely'
    BY <1>17 DEF OneCallEach, TypeOK, Container, FilesOK, CallsOK, Clean, Safely, Written, StoreContainer
  <2>3. Written'
    BY <1>17 DEF TypeOK, Container, FilesOK, CallsOK, Written, Clean, StoreContainer
  <2>4. EditsSurvive'
    <3>1. \A w \in Windows : pf[w].sources \subseteq pf'[w].sources
      BY <1>17 DEF TypeOK, Container, StoreContainer
    <3>2. added + 1 \in pf'[WindowOf[c]].sources
      BY <1>17 DEF TypeOK, Container, StoreContainer
    <3>3. \A s \in 1..added' : s \in 1..added \/ s = added + 1
      BY <1>17 DEF TypeOK, FilesOK, StoreContainer
    <3>4. UNCHANGED <<session, saved, dropped, stray>>
      BY <1>17 DEF StoreContainer
    <3>5. QED
      BY <3>1, <3>2, <3>3, <3>4 DEF EditsSurvive
  <2>5. QED
    BY <2>1, <2>2, <2>3, <2>4
<1>18. ASSUME NEW c \in Calls, StoreRefused(c) PROVE KeptInv'
  <2>1. Clean'
    BY <1>18 DEF TypeOK, Container, FilesOK, CallsOK, Clean, Safely, StoreRefused
  <2>2. Safely'
    BY <1>18 DEF OneCallEach, TypeOK, Container, FilesOK, CallsOK, Clean, Safely, Written, StoreRefused
  <2>3. Written'
    BY <1>18 DEF TypeOK, Container, FilesOK, CallsOK, Written, Clean, StoreRefused
  <2>4. EditsSurvive'
    BY <1>18 DEF TypeOK, Container, FilesOK, CallsOK, EditsSurvive, Clean, Safely, StoreRefused
  <2>5. QED
    BY <2>1, <2>2, <2>3, <2>4
<1>19. ASSUME NEW w \in Windows, Die(w) PROVE KeptInv'
  BY <1>19 DEF TypeOK, Container, FilesOK, CallsOK, Clean, Safely, Written, EditsSurvive, Die
<1>20. ASSUME NEW p \in Paths, Collect(p) PROVE KeptInv'
  BY <1>20 DEF Clean, Safely, Written, EditsSurvive, Collect
<1>21. CASE UNCHANGED vars
  BY <1>21 DEF vars, Clean, Safely, Written, EditsSurvive
<1>22. QED
  BY <1>1, <1>2, <1>3, <1>4, <1>5, <1>6, <1>7, <1>8, <1>9, <1>10, <1>11, <1>12, <1>13, <1>14, <1>15, <1>16, <1>17, <1>18, <1>19, <1>20, <1>21 DEF Next, Call

\* Every source a window accepted is in its memory or in a file some call
\* wrote, unless it was given up by force or by a crash, or by a Save As that
\* failed after it had taken the session's sources.
THEOREM AcceptedSourcesSurvive ==
  ASSUME ~Reopens, OneCallEach
  PROVE  Spec => []EditsSurvive
<1>1. FileInv /\ [Next]_vars => FileInv'
  BY FileStep
<1>2. FileInv /\ KeptInv /\ [Next]_vars => KeptInv'
  BY KeptStep
<1>3. KeptInv => EditsSurvive
  BY DEF KeptInv
<1>4. QED
  BY <1>1, <1>2, <1>3, FileInit, KeptInit, PTL DEF Spec

-----------------------------------------------------------------------------
(* Of the lock itself nothing above is needed: whatever the calls do, how   *)
(* many a window makes at a time and what they leave behind.                *)

HoldersOK == holder \in [Paths -> Windows \cup {None}]

\* A step leaves the lock of a path alone, gives it up, or takes it while
\* nobody has it.
LEMMA PathLockSteps ==
  ASSUME HoldersOK, [Next]_vars
  PROVE  /\ HoldersOK'
         /\ \A p \in Paths : \/ holder'[p] \in {holder[p], None}
                             \/ holder[p] = None /\ holder'[p] \in Windows
<1> DEFINE Gone == \A p \in Paths : holder'[p] \in {holder[p], None}
           Onto == holder' \in [Paths -> Windows \cup {None}]
<1> USE DEF HoldersOK
<1>1. ASSUME UNCHANGED holder PROVE Onto /\ Gone
  BY <1>1
<1>2. ASSUME NEW q, holder' = [holder EXCEPT ![q] = None] PROVE Onto /\ Gone
  BY <1>2
<1> HIDE DEF HoldersOK, Onto, Gone
<1>3. ASSUME NEW k, holder' = Unlocked(holder, k) PROVE Onto /\ Gone
  BY <1>1, <1>2, <1>3 DEF Unlocked
<1>4. ASSUME NEW c \in Calls, holder' = GiveBack(c) PROVE Onto /\ Gone
  BY <1>1, <1>2, <1>4 DEF GiveBack
<1>5. ASSUME NEW c \in Calls, Lock(c)
      PROVE  /\ Onto
             /\ \A p \in Paths : \/ holder'[p] = holder[p]
                                 \/ holder[p] = None /\ holder'[p] \in Windows
  <2>1. holder' = [holder EXCEPT ![arg[c].path] = WindowOf[c]] /\ holder[arg[c].path] = None
    BY <1>5 DEF Lock, Free
  <2>2. WindowOf[c] \in Windows
    BY ProfileFileAssumption
  <2> QED BY <2>1, <2>2 DEF HoldersOK, Onto
<1>6. ASSUME NEW c \in Calls, Call(c), ~Lock(c) PROVE Onto /\ Gone
  <2>1. CASE UNCHANGED holder
    BY <1>1, <2>1
  <2>2. CASE Release(c) \/ Install(c) \/ \E force \in BOOLEAN : Close(c, force)
    BY <1>1, <1>3, <2>2 DEF Release, Install, Close
  <2>3. CASE SaveAsNothing(c) \/ SaveAsFails(c)
    BY <1>4, <2>3 DEF SaveAsNothing, SaveAsFails
  <2>4. CASE SaveAsWrites(c)
    BY <1>1, <1>3, <2>4 DEF SaveAsWrites
  <2>5. CASE \E p \in Paths : Open(c, p) \/ SaveAs(c, p)
    BY <1>1, <2>5 DEF Open, SaveAs
  <2>6. CASE Read(c) \/ ReadFails(c) \/ LockRefused(c) \/ New(c) \/ Save(c)
    BY <1>1, <2>6 DEF Read, ReadFails, LockRefused, New, Save
  <2>7. CASE AddSource(c) \/ StoreSession(c) \/ StoreContainer(c) \/ StoreRefused(c)
    BY <1>1, <2>7 DEF AddSource, StoreSession, StoreContainer, StoreRefused
  <2> QED BY <1>6, <2>2, <2>3, <2>4, <2>5, <2>6, <2>7 DEF Call
<1>7. ASSUME NEW w \in Windows, Die(w) PROVE Onto /\ Gone
  <2>1. holder' = [p \in Paths |-> IF holder[p] = w THEN None ELSE holder[p]]
    BY <1>7 DEF Die
  <2> QED BY <2>1 DEF HoldersOK, Onto, Gone
<1>8. ASSUME NEW p \in Paths, Collect(p) PROVE Onto /\ Gone
  BY <1>2, <1>8 DEF Collect
<1>9. CASE UNCHANGED vars
  BY <1>1, <1>9 DEF vars, HoldersOK, Onto, Gone
<1> QED BY <1>5, <1>6, <1>7, <1>8, <1>9 DEF Next, HoldersOK, Onto, Gone

\* lockfile.TryLock, Release, the kernel and the garbage collector: the lock
\* file of every path is the abstract mutex between the windows, taken when
\* free and never handed over.
THEOREM PathLocksAreMutexes == Spec => LocksAreMutexes
<1>1. Init => HoldersOK /\ \A p \in Paths : PathLock(p)!Init
  BY DEF Init, HoldersOK, PathLock!Init
<1>2. ASSUME HoldersOK, [Next]_vars
      PROVE  HoldersOK' /\ [\A p \in Paths : PathLock(p)!Next \/ UNCHANGED holder[p]]_holder
  <2> SUFFICES ASSUME NEW p \in Paths PROVE PathLock(p)!Next \/ UNCHANGED holder[p]
    BY <1>2, PathLockSteps
  <2>1. holder[p] \in Windows \cup {None}
    BY <1>2 DEF HoldersOK
  <2>2. CASE holder'[p] = holder[p]
    BY <2>2
  <2>3. CASE holder[p] # None /\ holder'[p] = None
    BY <2>1, <2>3 DEF PathLock!Next, PathLock!Drop
  <2>4. CASE holder[p] = None /\ holder'[p] \in Windows
    BY <2>4 DEF PathLock!Next, PathLock!Acquire
  <2> QED BY <1>2, <2>2, <2>3, <2>4, PathLockSteps
<1> QED BY <1>1, <1>2, PTL DEF Spec, LocksAreMutexes

-----------------------------------------------------------------------------
(* The lock file that the windows keep apart with.  On the Windows build it *)
(* is a mutex for every number of processes and file objects: every open    *)
(* handle is on the file the name refers to (HandlesOnName), because a name *)
(* with an open handle is never removed, and the kernel's lock on a file    *)
(* belongs to the process that holds (HeldIsOwned).                         *)

\* The initial states have no handle and no lock.
LEMMA LockInit == LockFileInit => LockInv
  BY LockFileAssumption DEF LockFileInit, LockInv, LockTypeOK, HandlesOnName, HeldIsOwned

\* Every system call keeps the invariant where open files keep their name.
LEMMA LockStep ==
  ASSUME ~UnlinksOpenFiles, LockInv, [LockFileNext]_lockVars
  PROVE  LockInv'
<1> USE LockFileAssumption DEF LockInv, LockTypeOK, HandlesOnName, HeldIsOwned
<1>1. ASSUME NEW p \in Procs, OpenName(p) PROVE LockInv'
  BY <1>1 DEF OpenName
<1>2. ASSUME NEW p \in Procs, LockHandle(p) PROVE LockInv'
  BY <1>2 DEF LockHandle
<1>3. ASSUME NEW p \in Procs, Refused(p) PROVE LockInv'
  BY <1>3 DEF Refused
<1>4. ASSUME NEW p \in Procs, Unlock(p) PROVE LockInv'
  BY <1>4 DEF Unlock
<1>5. ASSUME NEW p \in Procs, CloseHandle(p) PROVE LockInv'
  BY <1>5 DEF CloseHandle
<1>6. ASSUME NEW p \in Procs, Remove(p) PROVE LockInv'
  BY <1>6 DEF Remove, Removable
<1>7. ASSUME NEW p \in Procs, ProcDies(p) PROVE LockInv'
  BY <1>7 DEF ProcDies
<1>8. CASE UNCHANGED lockVars
  BY <1>8 DEF lockVars
<1>9. QED
  BY <1>1, <1>2, <1>3, <1>4, <1>5, <1>6, <1>7, <1>8 DEF LockFileNext

\* Two holders would both have the named file open and both own its lock.
LEMMA LockInvOneHolder == LockInv => OneHolder
  BY LockFileAssumption
  DEF LockInv, LockTypeOK, HandlesOnName, HeldIsOwned, OneHolder, Holders

\* TryLock excludes: at most one process holds the lock (Windows build).
THEOREM WindowsOneHolder ==
  ASSUME ~UnlinksOpenFiles
  PROVE  LockFileSpec => []OneHolder
<1>1. LockInv /\ [LockFileNext]_lockVars => LockInv'
  BY LockStep
<1>2. QED
  BY <1>1, LockInit, LockInvOneHolder, PTL DEF LockFileSpec

\* The kernel's bookkeeping alone (no claim about names) is kept by every
\* step of either build.
OwnInv == LockTypeOK /\ HeldIsOwned

LEMMA OwnStep ==
  ASSUME OwnInv, [LockFileNext]_lockVars
  PROVE  OwnInv'
<1> USE LockFileAssumption DEF OwnInv, LockTypeOK, HeldIsOwned
<1>1. ASSUME NEW p \in Procs, OpenName(p) PROVE OwnInv'
  BY <1>1 DEF OpenName
<1>2. ASSUME NEW p \in Procs, LockHandle(p) PROVE OwnInv'
  BY <1>2 DEF LockHandle
<1>3. ASSUME NEW p \in Procs, Refused(p) PROVE OwnInv'
  BY <1>3 DEF Refused
<1>4. ASSUME NEW p \in Procs, Unlock(p) PROVE OwnInv'
  BY <1>4 DEF Unlock
<1>5. ASSUME NEW p \in Procs, CloseHandle(p) \/ Remove(p) PROVE OwnInv'
  BY <1>5 DEF CloseHandle, Remove
<1>6. ASSUME NEW p \in Procs, ProcDies(p) PROVE OwnInv'
  BY <1>6 DEF ProcDies
<1>7. CASE UNCHANGED lockVars
  BY <1>7 DEF lockVars
<1>8. QED
  BY <1>1, <1>2, <1>3, <1>4, <1>5, <1>6, <1>7 DEF LockFileNext

\* The types of the lock file, its handles and its processes, on both builds.
THEOREM LockTypeCorrect == LockFileSpec => []LockTypeOK
<1>1. LockFileInit => OwnInv
  BY LockFileAssumption DEF LockFileInit, OwnInv, LockTypeOK, HeldIsOwned
<1>2. OwnInv => LockTypeOK
  BY DEF OwnInv
<1> QED BY <1>1, <1>2, OwnStep, PTL DEF LockFileSpec

\* ErrLocked is honest on both builds: a try is refused only while another
\* process holds the lock, so a dead holder never wedges the file.
THEOREM RefusalIsHonest == LockFileSpec => RefusedOnlyWhileHeld
<1>1. LockFileInit => OwnInv
  BY LockFileAssumption DEF LockFileInit, OwnInv, LockTypeOK, HeldIsOwned
<1>2. OwnInv /\ [LockFileNext]_lockVars => OwnInv'
  BY OwnStep
<1>3. OwnInv /\ [LockFileNext]_lockVars
        => [\A p \in Procs : Refused(p) => Holders \ {p} # {}]_lockVars
  <2> SUFFICES ASSUME OwnInv, NEW p \in Procs, Refused(p)
               PROVE  Holders \ {p} # {}
    OBVIOUS
  <2>1. owner[handle[p]] \in Procs /\ step[owner[handle[p]]] = "held"
    BY LockFileAssumption DEF OwnInv, LockTypeOK, HeldIsOwned, Refused
  <2>2. QED
    BY <2>1 DEF Refused, Holders
<1>4. QED
  BY <1>1, <1>2, <1>3, PTL DEF LockFileSpec, RefusedOnlyWhileHeld

-----------------------------------------------------------------------------
\* With one holder at most, Holder names it or nobody.
LEMMA HolderIs ==
  ASSUME OneHolder, NEW p \in Holders
  PROVE  Holder = p
  BY DEF OneHolder, Holder

\* A step of the lock file is a step of the mutex or invisible to it.
LEMMA MutexStep ==
  ASSUME LockInv, OneHolder, OneHolder', [LockFileNext]_lockVars
  PROVE  [Lk!Next]_Holder
<1> USE LockFileAssumption DEF LockInv, LockTypeOK
<1>a. \A p \in Holders : Holder = p
  BY HolderIs
<1>b. \A p \in Holders' : Holder' = p
  BY DEF OneHolder, Holder
<1>c. /\ Holders = {} => Holder = Nil
      /\ Holders' = {} => Holder' = Nil
  BY DEF Holder
<1>1. ASSUME NEW p \in Procs, LockHandle(p) PROVE Lk!Acquire(p)
  <2>1. p \in Holders' /\ p \notin Holders /\ Holders \subseteq Holders'
    BY <1>1 DEF LockHandle, Holders
  <2>2. Holders = {}
    BY <2>1 DEF OneHolder
  <2>3. QED
    BY <2>1, <2>2, <1>b, <1>c DEF Lk!Acquire
<1>2. ASSUME NEW p \in Procs, Unlock(p) \/ ProcDies(p), p \in Holders PROVE Lk!Drop(p)
  <2>1. Holders' = Holders \ {p}
    BY <1>2 DEF Unlock, ProcDies, Holders
  <2>2. Holders' = {}
    BY <2>1, <1>2 DEF OneHolder
  <2>3. QED
    BY <2>2, <1>2, <1>a, <1>c DEF Lk!Drop
<1>3. ASSUME Holders' = Holders PROVE Holder' = Holder
  BY <1>3, <1>a, <1>b, <1>c
<1>4. ASSUME NEW p \in Procs,
             OpenName(p) \/ Refused(p) \/ CloseHandle(p) \/ Remove(p) \/ (ProcDies(p) /\ p \notin Holders)
      PROVE  Holders' = Holders
  BY <1>4 DEF OpenName, Refused, CloseHandle, Remove, ProcDies, Holders
<1>5. CASE UNCHANGED lockVars
  <2>1. Holders' = Holders
    BY <1>5 DEF lockVars, Holders
  <2>2. QED
    BY <2>1, <1>3
<1>6. ASSUME NEW p \in Procs, Unlock(p) PROVE p \in Holders
  BY <1>6 DEF Unlock, Holders
<1>7. ASSUME NEW p \in Procs,
             \/ OpenName(p) \/ LockHandle(p) \/ Refused(p)
             \/ Unlock(p) \/ CloseHandle(p) \/ Remove(p) \/ ProcDies(p)
      PROVE  [Lk!Next]_Holder
  <2>1. CASE LockHandle(p)
    BY <2>1, <1>1 DEF Lk!Next
  <2>2. CASE (Unlock(p) \/ ProcDies(p)) /\ p \in Holders
    BY <2>2, <1>2 DEF Lk!Next
  <2>3. CASE OpenName(p) \/ Refused(p) \/ CloseHandle(p) \/ Remove(p) \/ (ProcDies(p) /\ p \notin Holders)
    BY <2>3, <1>3, <1>4
  <2>4. QED
    BY <1>7, <1>6, <2>1, <2>2, <2>3
<1>8. QED
  BY <1>5, <1>7 DEF LockFileNext

\* On the Windows build the lock file implements the abstract mutex.
THEOREM WindowsIsMutex ==
  ASSUME ~UnlinksOpenFiles
  PROVE  LockFileSpec => IsMutex
<1>1. LockFileInit => Lk!Init
  BY DEF LockFileInit, Lk!Init, Holder, Holders
<1>2. LockInv /\ [LockFileNext]_lockVars => LockInv'
  BY LockStep
<1>3. LockInv /\ OneHolder /\ OneHolder' /\ [LockFileNext]_lockVars => [Lk!Next]_Holder
  BY MutexStep
<1>4. LockInv => OneHolder
  BY LockInvOneHolder
<1>5. QED
  BY <1>1, <1>2, <1>3, <1>4, LockInit, PTL DEF LockFileSpec, IsMutex, Lk!Spec
==============================================================================
