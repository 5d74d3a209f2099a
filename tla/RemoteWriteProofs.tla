--------------------------- MODULE RemoteWriteProofs ---------------------------
(***************************************************************************)
(* What an engine that never issues Create again (CreateTries = 1) makes   *)
(* of the staged write, for any jobs, payloads, attempts and faults: the   *)
(* final name is whole, a copied file is there, the skip policy replaces   *)
(* nothing.  All of it holds among copies that go the other way, and no    *)
(* two of those wait on each other's locks.                                *)
(***************************************************************************)
EXTENDS CrossWrite, TLAPS

Places == {"idle"} \cup Inside \cup Ended
Staging == {"commit", "clear", "recommit"}

TypedFiles == final \in Names /\ stage \in Names
TypedJobs ==
  /\ held \in Jobs \cup {None}
  /\ pc \in [Jobs -> Places]
  /\ source \subseteq Jobs /\ ctx \subseteq Jobs /\ free \subseteq Skips
Counted ==
  /\ pos \in [Jobs -> 0..Pieces] /\ try \in [Jobs -> Nat \ {0}]
  /\ round \in [Jobs -> 1..Rounds] /\ faults \in 0..MaxFaults

\* The lock is with the one job that stands between Start and End.
Owner == \A j \in Jobs : pc[j] \in Inside <=> held = j

\* Before the stream the reader is untouched, and nothing is promised.
Fresh(j) == /\ pc[j] \in {"idle", "probe", "create"} => pos[j] = 0
            /\ pc[j] \in {"idle", "probe"} => j \notin free

\* During it the stage holds what the reader gave, after it all that it
\* read, until a rename takes it away.
Staged(j) == /\ pc[j] = "stream" => stage = {j} \X (1..pos[j])
             /\ pc[j] \in Staging => stage \in {Absent} \cup Whole(j)

\* A name the probe found free stays free until this job's rename.
Unspoiled(j) ==
  j \in free => /\ pc[j] \in {"create", "stream"} => final = Absent
                /\ pc[j] \in Staging => final = Absent \/ stage = Absent

Sound(j) == Fresh(j) /\ Staged(j) /\ Unspoiled(j)

IInv == /\ TypedFiles /\ TypedJobs /\ Counted /\ Owner
        /\ WholeOrNothing /\ \A j \in Jobs : Sound(j)

USE RemoteWriteAssumption

-----------------------------------------------------------------------------
LEMMA InitIInv == Init => IInv
<1> SUFFICES ASSUME Init PROVE IInv
  OBVIOUS
<1>1. {} \in Contents /\ Old \in Names
  BY DEF Contents, Names, Old
<1>2. TypedFiles /\ WholeOrNothing
  BY <1>1 DEF Init, TypedFiles, Names, WholeOrNothing, Old
<1>3. TypedJobs
  BY DEF Init, TypedJobs, Places
<1>4. Counted
  BY DEF Init, Counted, Rounds
<1>5. Owner
  BY DEF Init, Owner, Inside, AtWork
<1>6. \A j \in Jobs : Sound(j)
  BY DEF Init, Sound, Fresh, Staged, Unspoiled, Staging
<1> QED BY <1>2, <1>3, <1>4, <1>5, <1>6 DEF IInv

-----------------------------------------------------------------------------
(* How little a step disturbs.                                             *)

\* One job moves; the lock stays, comes to it or is given back by it.
Steps(j) ==
  /\ pc' \in [Jobs -> Places]
  /\ \A k \in Jobs \ {j} : pc'[k] = pc[k] /\ pos'[k] = pos[k] /\ (k \in free' <=> k \in free)
  /\ \/ held' = held /\ (pc'[j] \in Inside <=> pc[j] \in Inside)
     \/ held = None /\ held' = j /\ pc'[j] \in Inside
     \/ pc[j] \in Inside /\ held' = None /\ pc'[j] \notin Inside

\* The files change only in the hands of the lock's holder.
Holds(j) == pc[j] \in Inside \/ UNCHANGED <<final, stage>>

\* The owner is still the one job inside after a step of one job.
LEMMA OwnerStep ==
  ASSUME TypedJobs, Owner, NEW j \in Jobs, Steps(j)
  PROVE  Owner'
<1>1. CASE held' = held /\ (pc'[j] \in Inside <=> pc[j] \in Inside)
  BY <1>1 DEF Steps, Owner
<1>2. CASE held = None /\ held' = j /\ pc'[j] \in Inside
  BY <1>2 DEF Steps, Owner
<1>3. CASE pc[j] \in Inside /\ held' = None /\ pc'[j] \notin Inside
  BY <1>3 DEF Steps, Owner
<1> QED BY <1>1, <1>2, <1>3 DEF Steps

\* What holds of a job holds on through the steps of the others.
LEMMA OthersKeep ==
  ASSUME Owner, NEW j \in Jobs, Steps(j), Holds(j), NEW k \in Jobs \ {j}, Sound(k)
  PROVE  Sound(k)'
<1>1. pc'[k] = pc[k] /\ pos'[k] = pos[k] /\ (k \in free' <=> k \in free)
  BY DEF Steps
<1>2. Fresh(k)'
  BY <1>1 DEF Sound, Fresh
<1>3. CASE pc[j] \in Inside
  <2>1. pc'[k] \notin Inside
    BY <1>1, <1>3 DEF Owner
  <2>2. Staged(k)' /\ Unspoiled(k)'
    BY <2>1 DEF Staged, Unspoiled, Inside, AtWork, Staging
  <2> QED BY <1>2, <2>2 DEF Sound
<1>4. CASE UNCHANGED <<final, stage>>
  <2>1. Staged(k)' /\ Unspoiled(k)'
    BY <1>1, <1>4 DEF Sound, Staged, Unspoiled
  <2> QED BY <1>2, <2>1 DEF Sound
<1> QED BY <1>3, <1>4 DEF Holds

-----------------------------------------------------------------------------
(* Every action, one at a time.                                            *)

\* Every action moves one job, and only the holder of the lock moves files.
LEMMA OneJobSteps ==
  ASSUME TypedJobs, NEW j \in Jobs,
         Write(j) \/ Upset(j)
  PROVE  Steps(j) /\ Holds(j)
<1>1. CASE Start(j)
  BY <1>1 DEF Start, Go, TypedJobs, Steps, Holds, Places, Inside, AtWork, Ended
<1>2. CASE CanceledIdle(j)
  BY <1>2 DEF CanceledIdle, Go, TypedJobs, Steps, Holds, Places, Inside, AtWork, Ended
<1>3. CASE Probe(j)
  BY <1>3 DEF Probe, Go, End, Dies, Again, Fault, TypedJobs, Steps, Holds,
              Places, Inside, AtWork, Ended
<1>4. CASE Open(j)
  BY <1>4 DEF Open, TypedJobs, Steps, Holds, Places, Inside, AtWork, Ended
<1>5. CASE Stream(j)
  BY <1>5 DEF Stream, TypedJobs, Steps, Holds, Places, Inside, AtWork, Ended
<1>6. CASE Created(j)
  BY <1>6 DEF Created, Go, TypedJobs, Steps, Holds, Places, Inside, AtWork, Ended
<1>7. CASE Rename(j)
  BY <1>7 DEF Rename, Committing, Go, End, TypedJobs, Steps, Holds, Places,
              Inside, AtWork, Ended
<1>8. CASE RenameRefused(j)
  BY <1>8 DEF RenameRefused, Committing, OnRefusal, Go, TypedJobs, Steps,
              Holds, Places, Inside, AtWork, Ended
<1>9. CASE Clear(j)
  BY <1>9 DEF Clear, Go, TypedJobs, Steps, Holds, Places, Inside, AtWork, Ended
<1>10. CASE Discard(j)
  BY <1>10 DEF Discard, Verdict, Go, End, TypedJobs, Steps, Holds, Places,
               Inside, AtWork, Ended
<1>11. ASSUME NEW b \in BOOLEAN, CreateDies(j, b) PROVE Steps(j) /\ Holds(j)
  BY <1>11 DEF CreateDies, Go, Fault, TypedJobs, Steps, Holds, Places, Inside, AtWork, Ended
<1>12. ASSUME NEW b \in BOOLEAN, RenameDies(j, b) PROVE Steps(j) /\ Holds(j)
  BY <1>12 DEF RenameDies, Committing, OnRefusal, Dies, Again, Fault, Go,
               TypedJobs, Steps, Holds, Places, Inside, AtWork, Ended
<1>13. ASSUME NEW b \in BOOLEAN, ClearDies(j, b) PROVE Steps(j) /\ Holds(j)
  BY <1>13 DEF ClearDies, Dies, Again, Fault, Go, TypedJobs, Steps, Holds,
               Places, Inside, AtWork, Ended
<1>14. ASSUME NEW b \in BOOLEAN, DiscardDies(j, b) PROVE Steps(j) /\ Holds(j)
  BY <1>14 DEF DiscardDies, Tried, Verdict, Fault, Go, End, TypedJobs, Steps,
               Holds, Places, Inside, AtWork, Ended
<1>15. CASE DeleteSource(j)
  BY <1>15 DEF DeleteSource, Go, TypedJobs, Steps, Holds, Places, Inside, AtWork, Ended
<1>16. CASE Cancel(j)
  BY <1>16 DEF Cancel, TypedJobs, Steps, Holds, Places, Inside, AtWork, Ended
<1>17. CASE DeletePanics(j)
  BY <1>17 DEF DeletePanics, Go, TypedJobs, Steps, Holds, Places, Inside, AtWork, Ended
<1>18. CASE Panic(j)
  BY <1>18 DEF Panic, Go, TypedJobs, Steps, Holds, Places, Inside, AtWork, Ended
<1> QED
  BY <1>1, <1>2, <1>3, <1>4, <1>5, <1>6, <1>7, <1>8,
     <1>9, <1>10, <1>11, <1>12, <1>13, <1>14, <1>15, <1>16, <1>17, <1>18
  DEF Write, Work, Upset

\* The files stay files.
LEMMA FilesStep ==
  ASSUME TypedFiles, Counted, NEW j \in Jobs,
         Write(j) \/ Upset(j)
  PROVE  TypedFiles'
<1>1. CASE Start(j)
  BY <1>1 DEF Start, TypedFiles
<1>2. CASE CanceledIdle(j)
  BY <1>2 DEF CanceledIdle, TypedFiles
<1>3. CASE Probe(j)
  BY <1>3 DEF Probe, TypedFiles
<1>4. CASE Open(j)
  BY <1>4 DEF Open, TypedFiles, Names, Contents
<1>5. CASE Stream(j)
  BY <1>5 DEF Stream, TypedFiles, Names, Contents, Counted
<1>6. CASE Created(j)
  BY <1>6 DEF Created, TypedFiles
<1>7. CASE Rename(j)
  BY <1>7 DEF Rename, Committing, TypedFiles, Names
<1>8. CASE RenameRefused(j)
  BY <1>8 DEF RenameRefused, TypedFiles
<1>9. CASE Clear(j)
  BY <1>9 DEF Clear, TypedFiles, Names
<1>10. CASE Discard(j)
  BY <1>10 DEF Discard, TypedFiles, Names
<1>11. ASSUME NEW b \in BOOLEAN, CreateDies(j, b) PROVE TypedFiles'
  BY <1>11 DEF CreateDies, TypedFiles
<1>12. ASSUME NEW b \in BOOLEAN, RenameDies(j, b) PROVE TypedFiles'
  BY <1>12 DEF RenameDies, Committing, TypedFiles, Names, Lands
<1>13. ASSUME NEW b \in BOOLEAN, ClearDies(j, b) PROVE TypedFiles'
  BY <1>13 DEF ClearDies, TypedFiles, Names, Lands
<1>14. ASSUME NEW b \in BOOLEAN, DiscardDies(j, b) PROVE TypedFiles'
  BY <1>14 DEF DiscardDies, TypedFiles, Names, Lands
<1>15. CASE DeleteSource(j)
  BY <1>15 DEF DeleteSource, TypedFiles
<1>16. CASE Cancel(j)
  BY <1>16 DEF Cancel, TypedFiles
<1>17. CASE DeletePanics(j)
  BY <1>17 DEF DeletePanics, TypedFiles
<1>18. CASE Panic(j)
  BY <1>18 DEF Panic, TypedFiles
<1> QED
  BY <1>1, <1>2, <1>3, <1>4, <1>5, <1>6, <1>7, <1>8,
     <1>9, <1>10, <1>11, <1>12, <1>13, <1>14, <1>15, <1>16, <1>17, <1>18
  DEF Write, Work, Upset

\* The sets of jobs stay sets of jobs.
LEMMA JobsStep ==
  ASSUME TypedJobs, NEW j \in Jobs,
         Write(j) \/ Upset(j)
  PROVE  source' \subseteq Jobs /\ ctx' \subseteq Jobs /\ free' \subseteq Skips
<1>1. CASE Start(j)
  BY <1>1 DEF Start, TypedJobs
<1>2. CASE CanceledIdle(j)
  BY <1>2 DEF CanceledIdle, TypedJobs
<1>3. CASE Probe(j)
  BY <1>3 DEF Probe, TypedJobs
<1>4. CASE Open(j)
  BY <1>4 DEF Open, TypedJobs
<1>5. CASE Stream(j)
  BY <1>5 DEF Stream, TypedJobs
<1>6. CASE Created(j)
  BY <1>6 DEF Created, TypedJobs
<1>7. CASE Rename(j)
  BY <1>7 DEF Rename, TypedJobs
<1>8. CASE RenameRefused(j)
  BY <1>8 DEF RenameRefused, TypedJobs
<1>9. CASE Clear(j)
  BY <1>9 DEF Clear, TypedJobs
<1>10. CASE Discard(j)
  BY <1>10 DEF Discard, TypedJobs
<1>11. ASSUME NEW b \in BOOLEAN, CreateDies(j, b)
       PROVE  source' \subseteq Jobs /\ ctx' \subseteq Jobs /\ free' \subseteq Skips
  BY <1>11 DEF CreateDies, TypedJobs
<1>12. ASSUME NEW b \in BOOLEAN, RenameDies(j, b)
       PROVE  source' \subseteq Jobs /\ ctx' \subseteq Jobs /\ free' \subseteq Skips
  BY <1>12 DEF RenameDies, TypedJobs
<1>13. ASSUME NEW b \in BOOLEAN, ClearDies(j, b)
       PROVE  source' \subseteq Jobs /\ ctx' \subseteq Jobs /\ free' \subseteq Skips
  BY <1>13 DEF ClearDies, TypedJobs
<1>14. ASSUME NEW b \in BOOLEAN, DiscardDies(j, b)
       PROVE  source' \subseteq Jobs /\ ctx' \subseteq Jobs /\ free' \subseteq Skips
  BY <1>14 DEF DiscardDies, TypedJobs
<1>15. CASE DeleteSource(j)
  BY <1>15 DEF DeleteSource, TypedJobs
<1>16. CASE Cancel(j)
  BY <1>16 DEF Cancel, TypedJobs
<1>17. CASE DeletePanics(j)
  BY <1>17 DEF DeletePanics, TypedJobs
<1>18. CASE Panic(j)
  BY <1>18 DEF Panic, TypedJobs
<1> QED
  BY <1>1, <1>2, <1>3, <1>4, <1>5, <1>6, <1>7, <1>8,
     <1>9, <1>10, <1>11, <1>12, <1>13, <1>14, <1>15, <1>16, <1>17, <1>18
  DEF Write, Work, Upset

\* Counters stay in their ranges.
LEMMA CountedStep ==
  ASSUME Counted, NEW j \in Jobs,
         Write(j) \/ Upset(j)
  PROVE  Counted'
<1>1. CASE Start(j)
  BY <1>1 DEF Start, Go, Counted
<1>2. CASE CanceledIdle(j)
  BY <1>2 DEF CanceledIdle, Go, Counted
<1>3. CASE Probe(j)
  BY <1>3 DEF Probe, Go, End, Dies, Again, Fault, Counted
<1>4. CASE Open(j)
  BY <1>4 DEF Open, Counted
<1>5. CASE Stream(j)
  BY <1>5 DEF Stream, Counted
<1>6. CASE Created(j)
  BY <1>6 DEF Created, Go, Counted
<1>7. CASE Rename(j)
  BY <1>7 DEF Rename, Go, End, Counted
<1>8. CASE RenameRefused(j)
  BY <1>8 DEF RenameRefused, Go, Counted
<1>9. CASE Clear(j)
  BY <1>9 DEF Clear, Go, Counted
<1>10. CASE Discard(j)
  BY <1>10 DEF Discard, Go, End, Counted
<1>11. ASSUME NEW b \in BOOLEAN, CreateDies(j, b) PROVE Counted'
  BY <1>11 DEF CreateDies, Go, Fault, Counted
<1>12. ASSUME NEW b \in BOOLEAN, RenameDies(j, b) PROVE Counted'
  BY <1>12 DEF RenameDies, Dies, Again, Fault, Go, Counted
<1>13. ASSUME NEW b \in BOOLEAN, ClearDies(j, b) PROVE Counted'
  BY <1>13 DEF ClearDies, Dies, Again, Fault, Go, Counted
<1>14. ASSUME NEW b \in BOOLEAN, DiscardDies(j, b) PROVE Counted'
  BY <1>14 DEF DiscardDies, Tried, Fault, Go, End, Counted, Rounds
<1>15. CASE DeleteSource(j)
  BY <1>15 DEF DeleteSource, Go, Counted
<1>16. CASE Cancel(j)
  BY <1>16 DEF Cancel, Counted
<1>17. CASE DeletePanics(j)
  BY <1>17 DEF DeletePanics, Go, Counted
<1>18. CASE Panic(j)
  BY <1>18 DEF Panic, Go, Counted
<1> QED
  BY <1>1, <1>2, <1>3, <1>4, <1>5, <1>6, <1>7, <1>8,
     <1>9, <1>10, <1>11, <1>12, <1>13, <1>14, <1>15, <1>16, <1>17, <1>18
  DEF Write, Work, Upset

\* The final name stays whole: a rename moves the stage, and the stage of
\* a job that commits holds its payload.
LEMMA WholeStep ==
  ASSUME WholeOrNothing, NEW j \in Jobs, Sound(j),
         Write(j) \/ Upset(j)
  PROVE  WholeOrNothing'
<1>1. CASE Start(j)
  BY <1>1 DEF Start, WholeOrNothing
<1>2. CASE CanceledIdle(j)
  BY <1>2 DEF CanceledIdle, WholeOrNothing
<1>3. CASE Probe(j)
  BY <1>3 DEF Probe, WholeOrNothing
<1>4. CASE Open(j)
  BY <1>4 DEF Open, WholeOrNothing
<1>5. CASE Stream(j)
  BY <1>5 DEF Stream, WholeOrNothing
<1>6. CASE Created(j)
  BY <1>6 DEF Created, WholeOrNothing
<1>7. CASE Rename(j)
  BY <1>7 DEF Rename, Committing, WholeOrNothing, Sound, Staged, Staging
<1>8. CASE RenameRefused(j)
  BY <1>8 DEF RenameRefused, WholeOrNothing
<1>9. CASE Clear(j)
  BY <1>9 DEF Clear, WholeOrNothing
<1>10. CASE Discard(j)
  BY <1>10 DEF Discard, WholeOrNothing
<1>11. ASSUME NEW b \in BOOLEAN, CreateDies(j, b) PROVE WholeOrNothing'
  BY <1>11 DEF CreateDies, WholeOrNothing
<1>12. ASSUME NEW b \in BOOLEAN, RenameDies(j, b) PROVE WholeOrNothing'
  BY <1>12 DEF RenameDies, Committing, WholeOrNothing, Sound, Staged, Staging, Lands
<1>13. ASSUME NEW b \in BOOLEAN, ClearDies(j, b) PROVE WholeOrNothing'
  BY <1>13 DEF ClearDies, WholeOrNothing, Lands
<1>14. ASSUME NEW b \in BOOLEAN, DiscardDies(j, b) PROVE WholeOrNothing'
  BY <1>14 DEF DiscardDies, WholeOrNothing
<1>15. CASE DeleteSource(j)
  BY <1>15 DEF DeleteSource, WholeOrNothing
<1>16. CASE Cancel(j)
  BY <1>16 DEF Cancel, WholeOrNothing
<1>17. CASE DeletePanics(j)
  BY <1>17 DEF DeletePanics, WholeOrNothing
<1>18. CASE Panic(j)
  BY <1>18 DEF Panic, WholeOrNothing
<1> QED
  BY <1>1, <1>2, <1>3, <1>4, <1>5, <1>6, <1>7, <1>8,
     <1>9, <1>10, <1>11, <1>12, <1>13, <1>14, <1>15, <1>16, <1>17, <1>18
  DEF Write, Work, Upset

\* The job's own promises, once Create is issued at most once.
LEMMA OwnStep ==
  ASSUME CreateTries = 1, TypedJobs, Counted, NEW j \in Jobs, Sound(j),
         Write(j) \/ Upset(j)
  PROVE  Sound(j)'
<1>1. CASE Start(j)
  BY <1>1 DEF Start, Go, TypedJobs, Counted, Sound, Fresh, Staged, Unspoiled,
              Staging
<1>2. CASE CanceledIdle(j)
  BY <1>2 DEF CanceledIdle, Go, TypedJobs, Counted, Sound, Fresh, Staged,
              Unspoiled, Staging
<1>3. CASE Probe(j)
  BY <1>3 DEF Probe, Go, End, Dies, Again, Fault, TypedJobs, Counted, Sound,
              Fresh, Staged, Unspoiled, Staging
<1>4. CASE Open(j)
  BY <1>4 DEF Open, TypedJobs, Counted, Sound, Fresh, Staged, Unspoiled, Staging
<1>5. CASE Stream(j)
  <2>1. stage = {j} \X (1..pos[j]) /\ stage # Absent
    <3>1. {j} \X (1..pos[j]) \in Contents
      BY DEF Contents, Counted
    <3> QED BY <3>1, <1>5 DEF Stream, Sound, Staged
  <2>2. {j} \X (1..(pos[j] + 1)) = ({j} \X (1..pos[j])) \cup {<<j, pos[j] + 1>>}
    BY DEF Counted
  <2>3. pos'[j] = pos[j] + 1 /\ stage' = {j} \X (1..pos'[j])
    BY <1>5, <2>1, <2>2 DEF Stream, Counted
  <2>4. Fresh(j)' /\ Staged(j)'
    BY <1>5, <2>3 DEF Stream, Fresh, Staged, Staging
  <2>5. Unspoiled(j)'
    BY <1>5 DEF Stream, Sound, Unspoiled, Staging
  <2> QED BY <2>4, <2>5 DEF Sound
<1>6. CASE Created(j)
  <2>1. stage = Head(j, pos[j]) /\ pos[j] \in 0..Pieces
    BY <1>6 DEF Created, Sound, Staged, Head, Counted
  <2>2. stage \in Whole(j)
    BY <1>6, <2>1 DEF Created, Drained, Whole, Head, Payload
  <2>3. Fresh(j)' /\ Staged(j)'
    BY <1>6, <2>2 DEF Created, Go, TypedJobs, Sound, Fresh, Staged, Staging
  <2>4. Unspoiled(j)'
    BY <1>6 DEF Created, Go, TypedJobs, Sound, Unspoiled, Staging
  <2> QED BY <2>3, <2>4 DEF Sound
<1>7. CASE Rename(j)
  BY <1>7 DEF Rename, Committing, Go, End, TypedJobs, Counted, Sound, Fresh,
              Staged, Unspoiled, Staging
<1>8. CASE RenameRefused(j)
  BY <1>8 DEF RenameRefused, Committing, OnRefusal, Go, TypedJobs, Counted,
              Sound, Fresh, Staged, Unspoiled, Staging
<1>9. CASE Clear(j)
  BY <1>9 DEF Clear, Go, TypedJobs, Counted, Sound, Fresh, Staged, Unspoiled,
              Staging
<1>10. CASE Discard(j)
  BY <1>10 DEF Discard, Verdict, Go, End, TypedJobs, Counted, Sound, Fresh,
               Staged, Unspoiled, Staging
<1>11. ASSUME NEW b \in BOOLEAN, CreateDies(j, b) PROVE Sound(j)'
  BY <1>11 DEF CreateDies, Go, Fault, TypedJobs, Counted, Sound, Fresh,
               Staged, Unspoiled, Staging
<1>12. ASSUME NEW b \in BOOLEAN, RenameDies(j, b) PROVE Sound(j)'
  BY <1>12 DEF RenameDies, Committing, OnRefusal, Dies, Again, Fault, Go,
               TypedJobs, Counted, Sound, Fresh, Staged, Unspoiled, Staging,
               Lands
<1>13. ASSUME NEW b \in BOOLEAN, ClearDies(j, b) PROVE Sound(j)'
  BY <1>13 DEF ClearDies, Dies, Again, Fault, Go, TypedJobs, Counted, Sound,
               Fresh, Staged, Unspoiled, Staging, Lands
<1>14. ASSUME NEW b \in BOOLEAN, DiscardDies(j, b) PROVE Sound(j)'
  BY <1>14 DEF DiscardDies, Tried, Verdict, Fault, Go, End, TypedJobs,
               Counted, Sound, Fresh, Staged, Unspoiled, Staging, Lands
<1>15. CASE DeleteSource(j)
  BY <1>15 DEF DeleteSource, Go, TypedJobs, Counted, Sound, Fresh, Staged,
               Unspoiled, Staging
<1>16. CASE Cancel(j)
  BY <1>16 DEF Cancel, TypedJobs, Counted, Sound, Fresh, Staged, Unspoiled, Staging
<1>17. CASE DeletePanics(j)
  BY <1>17 DEF DeletePanics, Go, TypedJobs, Counted, Sound, Fresh, Staged,
               Unspoiled, Staging
<1>18. CASE Panic(j)
  BY <1>18 DEF Panic, Go, TypedJobs, Counted, Sound, Fresh, Staged,
               Unspoiled, Staging
<1> QED
  BY <1>1, <1>2, <1>3, <1>4, <1>5, <1>6, <1>7, <1>8,
     <1>9, <1>10, <1>11, <1>12, <1>13, <1>14, <1>15, <1>16, <1>17, <1>18
  DEF Write, Work, Upset

-----------------------------------------------------------------------------
(* The theorems.                                                           *)

LEMMA StepIInv ==
  ASSUME CreateTries = 1, IInv, [Next]_vars
  PROVE  IInv'
<1> USE DEF IInv
<1>1. CASE UNCHANGED vars
  BY <1>1 DEF vars, TypedFiles, TypedJobs, Counted, Owner, WholeOrNothing,
              Sound, Fresh, Staged, Unspoiled
<1>2. ASSUME NEW j \in Jobs, Write(j) \/ Upset(j) PROVE IInv'
  <2>1. Steps(j) /\ Holds(j)
    BY <1>2, OneJobSteps
  <2>2. TypedFiles' /\ Counted' /\ WholeOrNothing'
    BY <1>2, FilesStep, CountedStep, WholeStep
  <2>3. Owner'
    BY <2>1, OwnerStep
  <2>4. TypedJobs'
    BY <1>2, <2>1, JobsStep DEF TypedJobs, Steps
  <2>5. Sound(j)'
    BY <1>2, OwnStep
  <2>6. \A k \in Jobs \ {j} : Sound(k)'
    BY <2>1, OthersKeep
  <2> QED BY <2>2, <2>3, <2>4, <2>5, <2>6
<1> QED BY <1>1, <1>2 DEF Next

\* An engine that issues Create once keeps all of it, for ever.
LEMMA Inductive ==
  ASSUME CreateTries = 1
  PROVE  Spec => []IInv
<1>1. Init => IInv
  BY InitIInv
<1>2. IInv /\ [Next]_vars => IInv'
  BY StepIInv
<1> QED BY <1>1, <1>2, PTL DEF Spec

\* xferRemoteCreate never leaves a partial of a known size or a mix of two
\* writers at the final name, whatever dies or panics on the way.
THEOREM FinalIsWhole ==
  ASSUME CreateTries = 1
  PROVE  Spec => []WholeOrNothing
<1>1. IInv => WholeOrNothing
  BY DEF IInv
<1> QED BY <1>1, Inductive, PTL

\* A job that reports a copy, and may then remove its source, has put what it
\* read to the end at the final name in that very step: its whole payload,
\* wherever it was told the size.
THEOREM CopyIsDelivered ==
  ASSUME CreateTries = 1
  PROVE  Spec => CopiedIsThere
<1>1. ASSUME IInv, [Next]_vars
      PROVE  [\A j \in Jobs :
                pc[j] # "copied" /\ pc'[j] = "copied" => final' \in Whole(j)]_vars
  <2> SUFFICES ASSUME Next, NEW j \in Jobs, pc[j] # "copied", pc'[j] = "copied"
               PROVE  final' \in Whole(j)
    BY <1>1
  <2>1. PICK k \in Jobs : Write(k) \/ Upset(k)
    BY DEF Next
  <2>2. Steps(k)
    BY <1>1, <2>1, OneJobSteps DEF IInv
  <2>3. k = j
    BY <2>2 DEF Steps
  <2>4. Rename(j)
    BY <1>1, <2>1, <2>3 DEF IInv, TypedJobs, Write, Work, Start, CanceledIdle, Probe, Open, Stream,
       Created, Rename, RenameRefused, Clear, Discard, CreateDies, RenameDies, ClearDies,
       DiscardDies, Upset, DeleteSource, DeletePanics, Panic, Cancel,
       Go, End, Dies, Again, OnRefusal, Verdict
  <2> QED BY <1>1, <2>4 DEF IInv, Sound, Staged, Staging, Rename, Committing, Renamable
<1> QED BY <1>1, Inductive, PTL DEF Spec, CopiedIsThere

\* A probe that found the name free and the rename that takes it are far
\* apart, yet under the lock nothing is replaced in between.
THEOREM SkipIsKept ==
  ASSUME CreateTries = 1
  PROVE  Spec => SkipReplacesNothing
<1>1. ASSUME IInv, [Next]_vars
     
       PROVE   [\A j \in free : Committing(j) /\ final' # final => final = Absent]_vars
  <2> SUFFICES ASSUME Next, NEW j \in free, Committing(j), final' # final
               PROVE  final = Absent
    BY <1>1
  <2>1. PICK k \in Jobs : Write(k) \/ Upset(k)
    BY DEF Next
  <2>2. pc[k] \in Inside
    BY <1>1, <2>1, OneJobSteps DEF IInv, Holds
  <2>3. j \in Jobs
    BY <1>1 DEF IInv, TypedJobs
  <2>4. k = j
    BY <1>1, <2>2, <2>3 DEF IInv, Owner, Committing, Inside, AtWork
  <2>5. stage # Absent
    BY <2>1, <2>4 DEF Write, Work, Start, CanceledIdle, Probe, Open, Stream, Created, Rename,
       RenameRefused, Clear, Discard, CreateDies, RenameDies, ClearDies, DiscardDies,
       Upset, DeleteSource, DeletePanics, Panic, Cancel, Committing, Renamable, Lands
  <2> QED BY <1>1, <2>3, <2>5 DEF IInv, Sound, Unspoiled, Staging, Committing
<1> QED BY <1>1, Inductive, PTL DEF Spec, SkipReplacesNothing

-----------------------------------------------------------------------------
(* What needs no such engine.                                              *)

\* The shape of the state: the lock is with the one job between its first
\* command and its last.
Typed == TypedFiles /\ TypedJobs /\ Counted /\ Owner

LEMMA TypedStep ==
  ASSUME Typed, [Next]_vars
  PROVE  Typed'
<1> USE DEF Typed
<1>1. CASE UNCHANGED vars
  BY <1>1 DEF vars, TypedFiles, TypedJobs, Counted, Owner
<1>2. ASSUME NEW j \in Jobs, Write(j) \/ Upset(j) PROVE Typed'
  <2>1. Steps(j)
    BY <1>2, OneJobSteps
  <2>2. TypedFiles' /\ Counted'
    BY <1>2, FilesStep, CountedStep
  <2>3. Owner'
    BY <2>1, OwnerStep
  <2>4. TypedJobs'
    BY <1>2, <2>1, JobsStep DEF TypedJobs, Steps
  <2> QED BY <2>2, <2>3, <2>4
<1> QED BY <1>1, <1>2 DEF Next

LEMMA TypedAlways == Spec => []Typed
<1>1. Init => Typed
  BY InitIInv DEF IInv, Typed
<1> QED BY <1>1, TypedStep, PTL DEF Spec

\* Every reachable state is well formed, whatever the engine does of its
\* own; one job at a time stands between its probe and its verdict.
THEOREM WriteTypeCorrect == Spec => []TypeOK
<1>1. Typed => TypeOK
  BY DEF Typed, TypedFiles, TypedJobs, Counted, Owner, TypeOK, Places
<1> QED BY <1>1, TypedAlways, PTL

\* A stage is there only in the hands of the lock's holder, from its Create
\* on; every round of a discard that was given up cost a dead command.  One
\* that panicked has the lock for ever, and its stage with it.
Kept(j) == /\ pc[j] = "probe" => stage = Absent
           /\ round[j] <= faults + 1
           /\ pc[j] \in {"idle"} \cup (AtWork \ {"discard"}) => round[j] = 1
StageInv == Typed /\ NoStrandedStage /\ \A j \in Jobs : Kept(j)

LEMMA InitStaged == Init => StageInv
<1> SUFFICES ASSUME Init PROVE StageInv
  OBVIOUS
<1>1. Typed
  BY InitIInv DEF IInv, Typed
<1>2. NoStrandedStage /\ \A j \in Jobs : Kept(j)
  BY DEF Init, NoStrandedStage, Kept
<1> QED BY <1>1, <1>2 DEF StageInv

LEMMA StageStep ==
  ASSUME MaxFaults < Rounds, StageInv, NEW j \in Jobs,
         Write(j) \/ Upset(j)
  PROVE  Kept(j)' /\ NoStrandedStage'
<1> USE DEF StageInv, Typed, TypedJobs, Counted, Owner, Kept, NoStrandedStage
<1>1. CASE Start(j)
  BY <1>1 DEF Start, Go, Ended, Inside, AtWork
<1>2. CASE CanceledIdle(j)
  BY <1>2 DEF CanceledIdle, Go, Ended, Inside, AtWork
<1>3. CASE Probe(j)
  BY <1>3 DEF Probe, Go, End, Dies, Again, Fault, Ended, Inside, AtWork
<1>4. CASE Open(j)
  BY <1>4 DEF Open, Ended, Inside, AtWork
<1>5. CASE Stream(j)
  BY <1>5 DEF Stream, Ended, Inside, AtWork
<1>6. CASE Created(j)
  BY <1>6 DEF Created, Go, Ended, Inside, AtWork
<1>7. CASE Rename(j)
  BY <1>7 DEF Rename, Committing, Go, End, Ended, Inside, AtWork
<1>8. CASE RenameRefused(j)
  BY <1>8 DEF RenameRefused, Committing, OnRefusal, Go, Ended, Inside, AtWork
<1>9. CASE Clear(j)
  BY <1>9 DEF Clear, Go, Ended, Inside, AtWork
<1>10. CASE Discard(j)
  BY <1>10 DEF Discard, Verdict, Go, End, Ended, Inside, AtWork
<1>11. ASSUME NEW b \in BOOLEAN, CreateDies(j, b) PROVE Kept(j)' /\ NoStrandedStage'
  BY <1>11 DEF CreateDies, Go, Fault, Ended, Inside, AtWork
<1>12. ASSUME NEW b \in BOOLEAN, RenameDies(j, b) PROVE Kept(j)' /\ NoStrandedStage'
  BY <1>12 DEF RenameDies, Committing, OnRefusal, Dies, Again, Fault, Go, Lands,
               Ended, Inside, AtWork
<1>13. ASSUME NEW b \in BOOLEAN, ClearDies(j, b) PROVE Kept(j)' /\ NoStrandedStage'
  BY <1>13 DEF ClearDies, Dies, Again, Fault, Go, Ended, Inside, AtWork
<1>14. ASSUME NEW b \in BOOLEAN, DiscardDies(j, b) PROVE Kept(j)' /\ NoStrandedStage'
  BY <1>14 DEF DiscardDies, Tried, Verdict, Fault, Go, End, Rounds, Lands,
               Ended, Inside, AtWork
<1>15. CASE DeleteSource(j)
  BY <1>15 DEF DeleteSource, Go, Ended, Inside, AtWork
<1>16. CASE Cancel(j)
  BY <1>16 DEF Cancel, Ended, Inside, AtWork
<1>17. CASE DeletePanics(j)
  BY <1>17 DEF DeletePanics, Go, Ended, Inside, AtWork
<1>18. CASE Panic(j)
  BY <1>18 DEF Panic, Go, Ended, Inside, AtWork
<1> QED
  BY <1>1, <1>2, <1>3, <1>4, <1>5, <1>6, <1>7, <1>8,
     <1>9, <1>10, <1>11, <1>12, <1>13, <1>14, <1>15, <1>16, <1>17, <1>18
  DEF Write, Work, Upset

\* The others keep their rounds, and a stage is not put under a probe.
LEMMA OthersKeptStage ==
  ASSUME StageInv, NEW j \in Jobs, NEW k \in Jobs \ {j},
         Write(j) \/ Upset(j)
  PROVE  Kept(k)'
<1>1. Steps(j) /\ Holds(j)
  BY OneJobSteps DEF StageInv, Typed
<1>2. pc'[k] = pc[k]
  BY <1>1 DEF Steps
<1>3. pc'[k] = "probe" => stage' = Absent
  BY <1>1, <1>2 DEF Holds, StageInv, Typed, Owner, Kept, Inside, AtWork
<1>4. round'[k] = round[k] /\ faults' >= faults /\ faults' \in Nat
  <2>1. round' = round \/ round' = [round EXCEPT ![j] = round'[j]]
    BY DEF Write, Upset, DeleteSource, DeletePanics, Panic, Cancel, Start, CanceledIdle,
           Work, Probe, Open, Stream, Created, Rename, RenameRefused, Clear, Discard,
           CreateDies, RenameDies, ClearDies, DiscardDies,
           StageInv, Typed, Counted
  <2>2. round'[k] = round[k]
    BY <2>1 DEF StageInv, Typed, Counted
  <2>3. faults' = faults \/ faults' = faults + 1
    BY DEF Write, Upset, DeleteSource, DeletePanics, Panic, Cancel, Start, CanceledIdle,
           Work, Probe, Open, Stream, Created, Rename, RenameRefused, Clear, Discard,
           CreateDies, RenameDies, ClearDies, DiscardDies,
           Dies, Fault
  <2> QED BY <2>2, <2>3 DEF StageInv, Typed, Counted
<1> QED BY <1>2, <1>3, <1>4 DEF StageInv, Typed, Counted, Kept

\* The discard of a failed or canceled write: while fewer commands die than
\* it has rounds, no stage is left behind by any job but one that panicked
\* (and has the lock for ever), wherever those commands die and whether or
\* not they took effect.
THEOREM NoStageIsStranded ==
  ASSUME MaxFaults < Rounds
  PROVE  Spec => []NoStrandedStage
<1>1. StageInv /\ [Next]_vars => StageInv'
  <2> SUFFICES ASSUME StageInv, [Next]_vars PROVE StageInv'
    OBVIOUS
  <2>1. Typed'
    BY TypedStep DEF StageInv
  <2>2. CASE UNCHANGED vars
    BY <2>1, <2>2 DEF vars, StageInv, NoStrandedStage, Kept
  <2>3. ASSUME NEW j \in Jobs, Write(j) \/ Upset(j) PROVE StageInv'
    BY <2>1, <2>3, StageStep, OthersKeptStage DEF StageInv
  <2> QED BY <2>2, <2>3 DEF Next
<1>2. StageInv => NoStrandedStage
  BY DEF StageInv
<1> QED BY <1>1, <1>2, InitStaged, PTL DEF Spec

-----------------------------------------------------------------------------
(* Among copies that go the other way (CrossWrite).                        *)

\* An operation that waits has the lower locks only, and asks for the next.
InOrder ==
  /\ holds \in [Ops -> SUBSET {Src, Dst}]
  /\ \A o \in Ops : \A s \in holds[o], t \in Missing(o) : s < t

LEMMA InOrderInit == CrossInit => InOrder
  BY DEF CrossInit, LocksInit, InOrder

\* Two engines: what an operation needs is both or the destination.
LEMMA NeedsOf == \A o \in Ops : Needs(o) \in {{Src, Dst}, {Dst}}
  BY DEF Needs, Ids, Ops

\* The next lock is missing, and the lowest that is.
LEMMA TurnIsLowest ==
  ASSUME NEW o \in Ops, Missing(o) # {}
  PROVE  Turn(o) \in Missing(o) /\ \A t \in Missing(o) : Turn(o) <= t
<1>1. Missing(o) \subseteq {Src, Dst}
  BY NeedsOf DEF Missing
<1>2. \E s \in Missing(o) : \A t \in Missing(o) : s <= t
  <2>1. CASE Src \in Missing(o) /\ (Dst \notin Missing(o) \/ Src <= Dst)
    BY <1>1, <2>1, CrossWriteAssumption
  <2>2. CASE ~(Src \in Missing(o) /\ (Dst \notin Missing(o) \/ Src <= Dst))
    BY <1>1, <2>2, CrossWriteAssumption
  <2> QED BY <2>1, <2>2
<1> QED BY <1>2 DEF Turn

LEMMA InOrderTake ==
  ASSUME InOrder, NEW o \in Ops, Take(o)
  PROVE  InOrder'
<1>1. Turn(o) \in Missing(o) /\ \A t \in Missing(o) : Turn(o) <= t
  BY TurnIsLowest DEF Take, Waits
<1>2. Missing(o) \subseteq {Src, Dst} /\ Turn(o) \in {Src, Dst}
  BY <1>1, NeedsOf DEF Missing
<1>3. holds' = [holds EXCEPT ![o] = @ \cup {Turn(o)}]
  BY DEF Take
<1>4. holds' \in [Ops -> SUBSET {Src, Dst}]
  BY <1>2, <1>3 DEF InOrder
<1>5. ASSUME NEW p \in Ops, NEW s \in holds'[p], NEW t \in Missing(p)' PROVE s < t
  <2>1. CASE p = o
    <3>1. t \in Missing(o) /\ t # Turn(o)
      BY <1>3, <1>5, <2>1 DEF Missing, InOrder, Needs, Ids
    <3>2. s \in holds[o] \/ s = Turn(o)
      BY <1>3, <1>5, <2>1 DEF InOrder
    <3>3. Turn(o) <= t /\ Turn(o) \in Nat /\ t \in Nat
      BY <1>1, <1>2, <3>1, CrossWriteAssumption
    <3> QED BY <3>1, <3>2, <3>3 DEF InOrder
  <2>2. CASE p # o
    BY <1>3, <1>5, <2>2 DEF Missing, InOrder, Needs, Ids
  <2> QED BY <2>1, <2>2
<1> QED BY <1>4, <1>5 DEF InOrder

LEMMA InOrderLeave ==
  ASSUME InOrder, NEW o \in Ops, Leave(o)
  PROVE  InOrder'
  BY DEF InOrder, Leave, Missing, Needs, Ids

LEMMA InOrderStep ==
  ASSUME InOrder, [CrossNext]_crossVars
  PROVE  InOrder'
<1>1. CASE UNCHANGED holds
  BY <1>1 DEF InOrder, Missing, Needs, Ids
<1>2. ASSUME NEW o \in Ops, Acquire(o) PROVE InOrder'
  BY <1>2, InOrderTake DEF Acquire
<1>3. ASSUME NEW j \in Jobs, Copy(j) \/ Breaks(j) PROVE InOrder'
  <2>1. j \in Ops
    BY DEF Ops
  <2>2. UNCHANGED holds \/ Leave(j)
    BY <1>3 DEF Copy, Enter, Call, Begin, GiveUp, Proceed, Breaks, Unlock, Lose
  <2> QED BY <1>1, <2>1, <2>2, InOrderLeave
<1>4. ASSUME NEW x \in Crossing, Enter(x) \/ Cross(x) \/ CrossBreaks(x) PROVE InOrder'
  <2>1. x \in Ops
    BY DEF Ops
  <2>2. UNCHANGED holds \/ Leave(x)
    BY <1>4 DEF Enter, Call, Cross, CrossBreaks, Unlock, Lose
  <2> QED BY <1>1, <2>1, <2>2, InOrderLeave
<1> QED BY <1>1, <1>2, <1>3, <1>4 DEF CrossNext, Delete, DeleteBreaks, crossVars

\* lockSrcs: of any number of copies between two engines, in both directions,
\* no two wait on each other, in whatever order they pass the ids.
THEOREM CopiesNeverCross == CrossSpec => []NoneWaitOnEachOther
<1>1. InOrder => NoneWaitOnEachOther
  <2> SUFFICES ASSUME InOrder, NEW o \in Ops, NEW p \in Ops,
                      Waits(o), Turn(o) \in holds[p],
                      Waits(p), Turn(p) \in holds[o]
               PROVE  FALSE
    BY DEF NoneWaitOnEachOther
  <2>1. Turn(o) \in Missing(o) /\ Turn(p) \in Missing(p)
    BY TurnIsLowest DEF Waits
  <2>2. Turn(o) < Turn(p) /\ Turn(p) < Turn(o)
    BY <2>1 DEF InOrder
  <2>3. Turn(o) \in Nat /\ Turn(p) \in Nat
    BY <2>1, CrossWriteAssumption DEF InOrder
  <2> QED BY <2>2, <2>3
<1> QED BY <1>1, InOrderInit, InOrderStep, PTL DEF CrossSpec

\* A step among crossing copies is a writer's, or leaves the writers alone.
LEMMA CrossIsWrite ==
  ASSUME [CrossNext]_crossVars
  PROVE  [Next]_vars
  BY DEF CrossNext, crossVars, Acquire, Copy, Enter, Begin, GiveUp, Proceed, Breaks, Delete,
         DeleteBreaks, Cross, CrossBreaks, Next, Write, Upset

\* Locks are with calls, each with one or kept for ever, and the writer has
\* all of its own.
Locked == /\ OneHolderEach /\ WritesUnderLocks
          /\ calls \subseteq Ops /\ \A o \in Ops : holds[o] # {} => o \in calls
LockInv == InOrder /\ Typed /\ Locked

LEMMA LockInit == CrossInit => LockInv
<1> SUFFICES ASSUME CrossInit PROVE LockInv
  OBVIOUS
<1>1. InOrder /\ Typed
  BY InOrderInit, InitIInv DEF CrossInit, IInv, Typed
<1>2. held = None /\ calls = {} /\ holds = [o \in Ops |-> {}] /\ kept = {}
  BY DEF CrossInit, Init, LocksInit
<1> QED BY <1>1, <1>2 DEF LockInv, Locked, OneHolderEach, WritesUnderLocks

\* A lock is taken by one that misses it: the writer misses none.
LEMMA LockTake ==
  ASSUME LockInv, NEW o \in Ops, Take(o), held' = held, pc' = pc
  PROVE  Locked'
<1> DEFINE s == Turn(o)
<1>1. /\ o \in calls /\ Missing(o) # {} /\ calls' = calls /\ kept' = kept /\ s \notin kept
      /\ holds' = [holds EXCEPT ![o] = holds[o] \cup {s}] /\ \A p \in Ops : s \notin holds[p]
  BY DEF Take, Waits, Unlocked
<1> HIDE DEF s
<1>2. holds'[o] = holds[o] \cup {s} /\ \A p \in Ops \ {o} : holds'[p] = holds[p]
  BY <1>1 DEF LockInv, InOrder
<1>3. OneHolderEach'
  BY <1>1, <1>2 DEF LockInv, Locked, OneHolderEach
<1>4. ASSUME held # None, Has(held) PROVE Has(held)'
  <2>1. held \in Ops
    BY <1>4 DEF LockInv, Typed, TypedJobs, Ops
  <2>2. held # o
    BY <1>1, <1>4 DEF Has
  <2> QED BY <1>1, <1>2, <1>4, <2>1, <2>2 DEF Has, Missing, Needs, Ids
<1>5. WritesUnderLocks'
  BY <1>1, <1>4 DEF LockInv, Locked, WritesUnderLocks, Needs, Ids
<1>6. \A p \in Ops : holds'[p] # {} => p \in calls'
  BY <1>1, <1>2 DEF LockInv, Locked
<1> QED BY <1>1, <1>3, <1>5, <1>6 DEF LockInv, Locked

\* They are given back, or lost, by one that does not write on.
LEMMA LockLeave ==
  ASSUME LockInv, NEW o \in Ops, Leave(o), kept' \in {kept, kept \cup holds[o]},
         held' # None => \/ held' = held /\ held # o /\ pc'[held] = pc[held]
                         \/ held' = o /\ pc'[o] = "panicked" /\ Needs(o) \subseteq kept'
  PROVE  Locked'
<1>1. /\ calls' = calls \ {o} /\ holds'[o] = {}
      /\ \A p \in Ops \ {o} : holds'[p] = holds[p]
  BY DEF Leave, LockInv, InOrder
<1>2. OneHolderEach'
  BY <1>1 DEF LockInv, Locked, OneHolderEach
<1>3. ASSUME held' # None, held' = held, held # o, pc'[held] = pc[held], Has(held)
      PROVE  Has(held)'
  <2>1. held \in Ops \ {o}
    BY <1>3 DEF LockInv, Typed, TypedJobs, Ops
  <2> QED BY <1>1, <1>3, <2>1 DEF Has, Missing, Needs, Ids
<1>4. WritesUnderLocks'
  BY <1>3 DEF LockInv, Locked, WritesUnderLocks, Needs, Ids
<1>5. \A p \in Ops : holds'[p] # {} => p \in calls'
  BY <1>1 DEF LockInv, Locked
<1> QED BY <1>1, <1>2, <1>4, <1>5 DEF LockInv, Locked

\* Otherwise calls only come, and who begins to write has what it needs; a
\* deletion may lose the lock nobody has.
LEMMA LockKeep ==
  ASSUME LockInv, holds' = holds, calls \subseteq calls', calls' \subseteq Ops,
         kept \subseteq kept', \A s \in kept' \ kept : Unlocked(s),
         held' = None \/ Has(held') \/ (held' = held /\ pc'[held] = pc[held])
  PROVE  Locked'
<1>1. ASSUME held' # None
      PROVE  Has(held)' \/ (pc'[held'] = "panicked" /\ Needs(held)' \subseteq kept')
  <2>1. CASE Has(held')
    BY <2>1 DEF Has, Missing, Needs, Ids
  <2>2. CASE ~Has(held')
    <3>1. held' = held /\ pc'[held] = pc[held]
      BY <1>1, <2>2
    <3>2. Has(held) \/ (pc[held] = "panicked" /\ Needs(held) \subseteq kept)
      BY <1>1, <3>1 DEF LockInv, Locked, WritesUnderLocks
    <3>3. CASE Has(held)
      BY <3>1, <3>3 DEF Has, Missing, Needs, Ids
    <3>4. CASE pc[held] = "panicked" /\ Needs(held) \subseteq kept
      BY <3>1, <3>4 DEF Needs, Ids
    <3> QED BY <3>2, <3>3, <3>4
  <2> QED BY <2>1, <2>2
<1>2. OneHolderEach'
  BY DEF LockInv, Locked, OneHolderEach, Unlocked
<1> QED BY <1>1, <1>2 DEF LockInv, Locked, WritesUnderLocks

\* A command is the holder's.
LEMMA WorkersHold ==
  ASSUME LockInv, NEW j \in Jobs, Work(j) \/ Panic(j)
  PROVE  Steps(j) /\ held = j /\ pc[j] \in AtWork /\ Has(j)
<1>1. Steps(j)
  BY OneJobSteps DEF LockInv, Typed, Write, Upset
<1>2. pc[j] \in AtWork
  BY DEF Work, Probe, Open, Stream, Created, Rename, RenameRefused, Clear, Discard, CreateDies,
         RenameDies, ClearDies, DiscardDies, Panic, Committing, AtWork
<1>3. held = j
  BY <1>2 DEF LockInv, Typed, Owner, Inside
<1>4. Has(j)
  BY <1>2, <1>3 DEF LockInv, Locked, WritesUnderLocks, AtWork
<1> QED BY <1>1, <1>2, <1>3, <1>4

LEMMA LockStep ==
  ASSUME LockInv, [CrossNext]_crossVars
  PROVE  LockInv'
<1>1. InOrder'
  BY InOrderStep DEF LockInv
<1>2. Typed'
  BY CrossIsWrite, TypedStep DEF LockInv
<1>3. ASSUME UNCHANGED <<held, calls, holds, kept>>, held # None => pc'[held] = pc[held]
      PROVE  Locked'
  BY <1>3, LockKeep DEF LockInv, Locked
<1>4. ASSUME NEW o \in Ops, Acquire(o) PROVE Locked'
  BY <1>4, LockTake DEF Acquire, vars
<1>5. ASSUME NEW o \in Ops, Enter(o) PROVE Locked'
  BY <1>5, LockKeep DEF Enter, Call, vars, LockInv, Locked
<1>6. ASSUME NEW j \in Jobs, Copy(j) PROVE Locked'
  <2>1. j \in Ops /\ j # None
    BY DEF Ops
  <2>2. CASE Enter(j)
    BY <1>5, <2>1, <2>2
  <2>3. CASE Begin(j)
    BY <2>3, LockKeep DEF Begin, Start, LockInv, Locked
  <2>4. CASE GiveUp(j)
    BY <2>4, <1>3 DEF GiveUp, CanceledIdle, Go, LockInv, Typed, TypedJobs, Owner, Inside, AtWork
  <2>5. CASE Proceed(j)
    <3>1. Work(j) /\ IF held' = None THEN Unlock(j) ELSE UNCHANGED <<calls, holds, kept>>
      BY <2>5 DEF Proceed
    <3>2. Steps(j) /\ held = j /\ Has(j)
      BY <3>1, WorkersHold
    <3>3. CASE held' = None
      BY <2>1, <3>1, <3>3, LockLeave DEF Unlock
    <3>4. CASE held' # None
      <4>1. held' = held
        BY <2>1, <3>2, <3>4 DEF Steps
      <4> QED BY <3>1, <3>2, <3>4, <4>1, LockKeep DEF LockInv, Locked
    <3> QED BY <3>3, <3>4
  <2> QED BY <1>6, <2>2, <2>3, <2>4, <2>5 DEF Copy
<1>7. ASSUME NEW j \in Jobs, Breaks(j) PROVE Locked'
  <2>1. Panic(j) /\ Lose(j) /\ j \in Ops
    BY <1>7 DEF Breaks, Ops
  <2>2. held = j /\ Has(j)
    BY <2>1, WorkersHold
  <2>3. held' = j /\ pc'[j] = "panicked"
    BY <2>1, <2>2 DEF Panic, Go, LockInv, Typed, TypedJobs
  <2>4. kept' = kept \cup holds[j] /\ Needs(j) \subseteq kept' /\ Leave(j)
    BY <2>1, <2>2 DEF Lose, Has, Missing
  <2> QED BY <2>1, <2>3, <2>4, LockLeave
<1>8. ASSUME NEW j \in Jobs, Cancel(j) /\ UNCHANGED <<calls, holds, kept, over>> PROVE Locked'
  BY <1>3, <1>8 DEF Cancel
<1>9. ASSUME NEW j \in Jobs, Delete(j) \/ DeleteBreaks(j) PROVE Locked'
  <2>1. UNCHANGED <<held, calls, holds>>
    BY <1>9 DEF Delete, DeleteBreaks, DeleteSource, DeletePanics
  <2>2. held # None => pc'[held] = pc[held]
    BY <1>9 DEF Delete, DeleteBreaks, DeleteSource, DeletePanics, Go, LockInv, Typed, TypedJobs,
       Owner, Inside, AtWork
  <2>3. kept \subseteq kept' /\ \A s \in kept' \ kept : Unlocked(s)
    BY <1>9 DEF Delete, DeleteBreaks
  <2> QED BY <2>1, <2>2, <2>3, LockKeep DEF LockInv, Locked
<1>10. ASSUME NEW x \in Crossing, Cross(x) \/ CrossBreaks(x) PROVE Locked'
  <2>1. x \in Ops /\ held' = held /\ pc' = pc /\ (held # None => held # x)
    BY <1>10, CrossWriteAssumption DEF Cross, CrossBreaks, vars, Ops, LockInv, Typed, TypedJobs
  <2>2. Leave(x) /\ kept' \in {kept, kept \cup holds[x]}
    BY <1>10 DEF Cross, CrossBreaks, Unlock, Lose
  <2> QED BY <2>1, <2>2, LockLeave
<1>11. Locked'
  <2>1. CASE UNCHANGED crossVars
    BY <1>3, <2>1 DEF crossVars, vars
  <2>2. CASE CrossNext
    BY <1>4, <1>5, <1>6, <1>7, <1>8, <1>9, <1>10, <2>2 DEF CrossNext, Ops
  <2> QED BY <2>1, <2>2
<1> QED BY <1>1, <1>2, <1>11 DEF LockInv

LEMMA LocksAlways == CrossSpec => []LockInv
  BY LockInit, LockStep, PTL DEF CrossSpec

\* srcLock, lockSrcs: the commands of one source are those of one copy at a
\* time, and a copy that writes has the locks of both its sources, however
\* many copies there are and in whatever order they pass the ids; one that
\* panicked keeps them from everyone.
THEOREM CopiesExclude == CrossSpec => [](OneHolderEach /\ WritesUnderLocks)
<1>1. LockInv => OneHolderEach /\ WritesUnderLocks
  BY DEF LockInv, Locked
<1> QED BY <1>1, LocksAlways, PTL

\* The copies never stop in a circle: one of them has what it needs, may take
\* it, or asks for a lock a panic kept.
THEOREM SomeCopyGoesOn == CrossSpec => []SomeoneGoesOn
<1>1. LockInv => SomeoneGoesOn
  <2> SUFFICES ASSUME LockInv, NEW o \in Ops, Waits(o)
               PROVE  \E p \in Ops : Has(p) \/ (Waits(p) /\ (Unlocked(Turn(p)) \/ Turn(p) \in kept))
    BY DEF SomeoneGoesOn
  <2>1. ASSUME NEW p \in Ops, Waits(p), ~(Unlocked(Turn(p)) \/ Turn(p) \in kept)
        PROVE  \E q \in Ops : Has(q) \/ (Waits(q) /\ Turn(p) < Turn(q))
    <3>1. PICK q \in Ops : Turn(p) \in holds[q]
      BY <2>1 DEF Unlocked
    <3>2. q \in calls
      BY <3>1 DEF LockInv, Locked
    <3>3. CASE Missing(q) = {}
      BY <3>2, <3>3 DEF Has
    <3>4. CASE Missing(q) # {}
      <4>1. Waits(q) /\ Turn(q) \in Missing(q)
        BY <3>2, <3>4, TurnIsLowest DEF Waits
      <4> QED BY <3>1, <4>1 DEF LockInv, InOrder
    <3> QED BY <3>3, <3>4
  <2>2. \A p \in Ops : Waits(p) => Turn(p) \in {Src, Dst}
    <3> TAKE p \in Ops
    <3> HAVE Waits(p)
    <3>1. Turn(p) \in Needs(p)
      BY TurnIsLowest DEF Waits, Missing
    <3> QED BY <3>1, NeedsOf
  <2>3. CASE Unlocked(Turn(o)) \/ Turn(o) \in kept
    BY <2>3
  <2>4. CASE ~(Unlocked(Turn(o)) \/ Turn(o) \in kept)
    <3>1. PICK p \in Ops : Has(p) \/ (Waits(p) /\ Turn(o) < Turn(p))
      BY <2>1, <2>4
    <3>2. CASE Has(p) \/ Unlocked(Turn(p)) \/ Turn(p) \in kept
      BY <3>1, <3>2
    <3>3. CASE ~Has(p) /\ ~(Unlocked(Turn(p)) \/ Turn(p) \in kept)
      <4>1. PICK q \in Ops : Has(q) \/ (Waits(q) /\ Turn(p) < Turn(q))
        BY <2>1, <3>1, <3>3
      <4>2. ~(Waits(q) /\ Turn(p) < Turn(q))
        BY <2>2, <3>1, <3>3, CrossWriteAssumption
      <4> QED BY <4>1, <4>2
    <3> QED BY <3>2, <3>3
  <2> QED BY <2>3, <2>4
<1> QED BY <1>1, LocksAlways, PTL

\* What holds of the writers of one name holds of them among the crossing
\* copies: the locks only say when a writer may begin.
THEOREM CrossingWritersAreWriters == CrossSpec => Spec
<1>1. CrossInit => Init
  BY DEF CrossInit
<1>2. [CrossNext]_crossVars => [Next]_vars
  BY CrossIsWrite
<1> QED BY <1>1, <1>2, PTL DEF CrossSpec, Spec
==============================================================================
