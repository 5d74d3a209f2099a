-------------------------------- MODULE SrcLocks --------------------------------
(***************************************************************************)
(* lockSrcs of pkg/api/remote.go: an operation takes the locks of every    *)
(* engine it touches before its first command and gives them back          *)
(* together.  A source is a number, its order that of the sorted ids; S3   *)
(* and local sides have no id here.  srcLock makes a lock at its first use *)
(* and never drops one, so the locks simply are.                           *)
(***************************************************************************)
EXTENDS Naturals

CONSTANTS
  Ops,      \* operations
  Ids       \* Ids[o]: the ids o passes (numbers), in its own order, repeats and all

VARIABLES
  calls,    \* operations inside lockSrcs or past it
  holds,    \* holds[o]: the sources whose locks o has
  kept      \* sources whose lock an operation that panicked never gave back

LocksInit == calls = {} /\ holds = [o \in Ops |-> {}] /\ kept = {}

Needs(o) == {Ids[o][i] : i \in DOMAIN Ids[o]}
Missing(o) == Needs(o) \ holds[o]
Waits(o) == o \in calls /\ Missing(o) # {}
Has(o) == o \in calls /\ Missing(o) = {}

Unlocked(s) == s \notin kept /\ \A o \in Ops : s \notin holds[o]

\* mutant: the locks are taken as they were passed
Turn_Passed(o) == Ids[o][CHOOSE i \in DOMAIN Ids[o] :
                           /\ Ids[o][i] \in Missing(o)
                           /\ \A k \in 1..(i - 1) : Ids[o][k] \notin Missing(o)]

\* The next lock in sorted order.
Turn(o) == CHOOSE s \in Missing(o) : \A t \in Missing(o) : s <= t

Call(o) == o \notin calls /\ calls' = calls \cup {o} /\ UNCHANGED <<holds, kept>>

Take(o) ==
  /\ Waits(o) /\ Unlocked(Turn(o))
  /\ holds' = [holds EXCEPT ![o] = @ \cup {Turn(o)}]
  /\ UNCHANGED <<calls, kept>>

Leave(o) == calls' = calls \ {o} /\ holds' = [holds EXCEPT ![o] = {}]

\* The function lockSrcs returned.
Unlock(o) == Leave(o) /\ UNCHANGED kept

\* It is called, not deferred: a panic goes past it.
Lose(o) == Leave(o) /\ kept' = kept \cup holds[o]

-----------------------------------------------------------------------------
\* lockSrcs: operations that span several sources never wait on each other.
NoneWaitOnEachOther ==
  \A o, p \in Ops : ~(/\ Waits(o) /\ Turn(o) \in holds[p]
                      /\ Waits(p) /\ Turn(p) \in holds[o])

\* A source's lock is with one operation at a time, or with none for ever.
OneHolderEach == \A o, p \in Ops : /\ o # p => holds[o] \cap holds[p] = {}
                                   /\ holds[o] \cap kept = {}

\* Of operations that wait, one may take its lock now or waits for one that
\* has all of its own, or for a lock a panic kept: however many there are,
\* they do not wait in a circle.
SomeoneGoesOn ==
  (\E o \in Ops : Waits(o)) =>
     \E p \in Ops : Has(p) \/ (Waits(p) /\ (Unlocked(Turn(p)) \/ Turn(p) \in kept))

\* It waits for a lock a panic kept, or for one whose holder does.
Stuck(o) ==
  /\ Waits(o)
  /\ \/ Turn(o) \in kept
     \/ \E p \in Ops : Turn(o) \in holds[p] /\ Waits(p) /\ Turn(p) \in kept
================================================================================
