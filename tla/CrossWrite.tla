------------------------------ MODULE CrossWrite ------------------------------
(***************************************************************************)
(* The writers of RemoteWrite among copies that go the other way: every    *)
(* file of a transfer holds the locks of both its engines (runXfer over    *)
(* lockSrcs), one after the other, and gives them back on every path out   *)
(* but a panic: guardJob catches it, and the locks stay locked for ever.   *)
(* RemoteWrite's lock is the destination's.                                *)
(***************************************************************************)
EXTENDS RemoteWrite

CONSTANTS
  Src, Dst,    \* the two engines, by the order of their ids
  Fed,         \* jobs that read Src; the others are fed by S3 or a local path
  Crossing     \* copies from Dst to Src

ASSUME CrossWriteAssumption ==
  /\ Src \in Nat /\ Dst \in Nat /\ Src # Dst
  /\ Fed \subseteq Jobs /\ Crossing \cap Jobs = {}

VARIABLES
  calls, holds, kept,    \* the locks, see SrcLocks
  over                   \* crossing copies that have ended

Ops == Jobs \cup Crossing
Ids == [o \in Ops |-> IF o \in Fed THEN <<Src, Dst>>
                      ELSE IF o \in Crossing THEN <<Dst, Src>> ELSE <<Dst>>]

INSTANCE SrcLocks

crossVars == <<vars, calls, holds, kept, over>>

CrossInit == Init /\ LocksInit /\ over = {}

\* runXfer asks for its context before the locks and not while it waits.
Enter(o) ==
  /\ o \in Jobs => pc[o] = "idle" /\ o \notin ctx
  /\ o \notin over /\ Call(o)
  /\ UNCHANGED <<vars, over>>

Acquire(o) == Take(o) /\ UNCHANGED <<vars, over>>

Begin(j) == Has(j) /\ Start(j) /\ UNCHANGED <<calls, holds, kept, over>>

GiveUp(j) == j \notin calls /\ CanceledIdle(j) /\ UNCHANGED <<calls, holds, kept, over>>

\* Whichever way the file ends, its locks go with it, unless it panics.
Proceed(j) ==
  /\ Work(j) /\ UNCHANGED over
  /\ IF held' = None THEN Unlock(j) ELSE UNCHANGED <<calls, holds, kept>>

Breaks(j) == Panic(j) /\ Lose(j) /\ UNCHANGED over

\* The deletion takes the source's lock for itself.
Delete(j) ==
  /\ j \in Fed => Unlocked(Src)
  /\ DeleteSource(j) /\ UNCHANGED <<calls, holds, kept, over>>

DeleteBreaks(j) ==
  /\ j \in Fed => Unlocked(Src)
  /\ DeletePanics(j) /\ UNCHANGED <<calls, holds, over>>
  /\ kept' = kept \cup IF j \in Fed THEN {Src} ELSE {}

\* A crossing copy writes names of the other engine, and may fail or panic
\* as well.
Cross(x) == Has(x) /\ Unlock(x) /\ over' = over \cup {x} /\ UNCHANGED vars

CrossBreaks(x) == Has(x) /\ Lose(x) /\ over' = over \cup {x} /\ UNCHANGED vars

Copy(j) == Enter(j) \/ Begin(j) \/ GiveUp(j) \/ Proceed(j)

CrossNext ==
  \/ \E o \in Ops : Acquire(o)
  \/ \E j \in Jobs : \/ Copy(j) \/ Breaks(j) \/ Delete(j) \/ DeleteBreaks(j)
                     \/ Cancel(j) /\ UNCHANGED <<calls, holds, kept, over>>
  \/ \E x \in Crossing : Enter(x) \/ Cross(x) \/ CrossBreaks(x)

CrossSpec == CrossInit /\ [][CrossNext]_crossVars

\* Every command returns, and sync.Mutex starves nobody for ever.
CrossFairSpec ==
  /\ CrossSpec
  /\ \A o \in Ops : SF_crossVars(Acquire(o))
  /\ \A j \in Jobs : WF_crossVars(Copy(j))
  /\ \A x \in Crossing : WF_crossVars(Enter(x) \/ Cross(x))

-----------------------------------------------------------------------------
\* lockSrcs comes before a copy's first command and is given back after its
\* last: who writes has the lock of every engine it reads or writes.
WritesUnderLocks == held # None => \/ Has(held)
                                   \/ pc[held] = "panicked" /\ Needs(held) \subseteq kept

\* Copies in both directions come to an end, whatever became of the ones
\* before them: no two wait on each other, and none that ends keeps a lock.
\* The exception is a panic: guardJob ends the job that had it, and who needs
\* a lock that job had waits for ever.
EveryCopyEnds ==
  /\ \A j \in Jobs : <>(pc[j] \in Ended \cup {"panicked"} \/ Stuck(j))
  /\ \A x \in Crossing : <>(x \in over \/ Stuck(x))
==============================================================================
