------------------------------ MODULE RemoteWrite ------------------------------
(***************************************************************************)
(* Transfer jobs that write one file of a remote engine (FTP, SFTP,        *)
(* WebDAV): xferRemoteCreate in pkg/api/xfer.go under the source's lock,   *)
(* through the healing wrapper of pkg/api/engineheal.go and the engines'   *)
(* own retry.  The payload is staged beside the final name and renamed     *)
(* into place; all jobs here write the same final name, so they share the  *)
(* stage name too.                                                         *)
(*                                                                         *)
(* A command can die with its connection, before or after it took effect   *)
(* on the server; the wrapper redials and issues it again.  A file is the  *)
(* set of pieces it holds, each <<whose, which>>.  The rename policy (it   *)
(* picks another name) and the spool between two paths of one engine are   *)
(* left out.                                                               *)
(***************************************************************************)
EXTENDS Naturals

CONSTANTS
  Jobs,
  Skips,         \* jobs under the skip policy; the others overwrite
  Sized,         \* jobs whose source told how long the payload is
  None,          \* no job; also the owner of the file that was there before
  Absent,        \* no such file
  Pieces,        \* pieces of every payload
  Tries,         \* attempts behind one command: 2 healed, 4 healed over FTP
  CreateTries,   \* attempts behind Create: 1, and 2 over FTP
  Overwrites,    \* Rename replaces an existing target
  MaxFaults      \* bound: commands that die with their connection

Payload(j) == {j} \X (1..Pieces)
Head(j, n) == {j} \X (1..n)    \* its first n pieces
Old == {<<None, 1>>}
Contents == SUBSET ((Jobs \cup {None}) \X (1..Pieces))
Names == Contents \cup {Absent}

ASSUME RemoteWriteAssumption ==
  /\ None \notin Jobs /\ Skips \subseteq Jobs /\ Sized \subseteq Jobs
  /\ Pieces \in Nat \ {0} /\ Tries \in Nat \ {0} /\ CreateTries \in Nat \ {0}
  /\ Overwrites \in BOOLEAN /\ MaxFaults \in Nat
  /\ \A c \in Contents : c # Absent

Rounds == 3      \* attempts of the discard

VARIABLES
  final,     \* the destination name
  stage,     \* its staging name, s3b-part-...
  held,      \* the job holding the source's lock, or the one whose panic kept it
  source,    \* jobs whose source still stands
  pc,        \* pc[j]: where job j stands
  pos,       \* pos[j]: pieces its reader has consumed
  try,       \* try[j]: attempt of the command under way
  round,     \* round[j]: attempt of its discard
  ctx,       \* jobs whose context is canceled
  free,      \* skip jobs whose probe answered "not there"
  faults     \* commands that died so far

vars == <<final, stage, held, source, pc, pos, try, round, ctx, free, faults>>

Ended == {"copied", "moved", "skipped", "failed", "canceled"}
AtWork == {"probe", "create", "stream", "commit", "clear", "recommit", "discard"}
Inside == AtWork \cup {"panicked"}

TypeOK ==
  /\ final \in Names /\ stage \in Names
  /\ held \in Jobs \cup {None} /\ source \subseteq Jobs
  /\ pc \in [Jobs -> {"idle"} \cup Inside \cup Ended]
  /\ \A j \in Jobs : pc[j] \in Inside <=> held = j
  /\ pos \in [Jobs -> 0..Pieces] /\ try \in [Jobs -> Nat \ {0}] /\ round \in [Jobs -> 1..Rounds]
  /\ ctx \subseteq Jobs /\ free \subseteq Skips /\ faults \in 0..MaxFaults

Init ==
  /\ final \in {Absent, Old} /\ stage = Absent /\ held = None /\ source = Jobs
  /\ pc = [j \in Jobs |-> "idle"] /\ pos = [j \in Jobs |-> 0]
  /\ try = [j \in Jobs |-> 1] /\ round = [j \in Jobs |-> 1]
  /\ ctx = {} /\ free = {} /\ faults = 0

-----------------------------------------------------------------------------
(* What a command answers.                                                 *)

Go(j, l) == pc' = [pc EXCEPT ![j] = l] /\ try' = [try EXCEPT ![j] = 1]

\* The file is over, one way or the other; the lock goes with it.
End(j, l) == Go(j, l) /\ held' = None

Fault == faults < MaxFaults /\ faults' = faults + 1

\* healingFS: a dead connection is redialed and the command issued again,
\* unless the caller is gone.
Again(j) == /\ try[j] < Tries /\ j \notin ctx
            /\ try' = [try EXCEPT ![j] = @ + 1] /\ UNCHANGED pc

\* The command fails: its connection died and was not (or not again) to be
\* replaced, or its context ended.
Dies(j, onError) == \/ Fault /\ (Again(j) \/ Go(j, onError))
                    \/ j \in ctx /\ Go(j, onError) /\ UNCHANGED faults

Lands(landed, effect, none) == IF landed THEN effect ELSE none

-----------------------------------------------------------------------------
(* runXfer: the lock, the policy's probe.                                  *)

\* A cancel that comes while the job waits for the lock is met behind it.
Start(j) ==
  /\ pc[j] = "idle" /\ held = None
  /\ held' = j /\ Go(j, "probe")
  /\ UNCHANGED <<final, stage, source, pos, round, ctx, free, faults>>

CanceledIdle(j) ==
  /\ pc[j] = "idle" /\ j \in ctx
  /\ Go(j, "canceled")
  /\ UNCHANGED <<final, stage, held, source, pos, round, ctx, free, faults>>

\* mutant: the probe has a lock hold of its own
Probe_Alone(j) ==
  /\ pc[j] = "probe" /\ final = Absent
  /\ Go(j, "create") /\ free' = free \cup ({j} \cap Skips) /\ held' = None
  /\ UNCHANGED <<final, stage, source, pos, round, ctx, faults>>

\* xferDestExists is advisory: a probe without an answer reads as free.
Probe(j) ==
  /\ pc[j] = "probe"
  /\ UNCHANGED <<final, stage, source, pos, round, ctx>>
  /\ \/ j \in Skips /\ final # Absent /\ End(j, "skipped") /\ UNCHANGED <<free, faults>>
     \/ /\ j \in Skips /\ final = Absent
        /\ Go(j, "create") /\ free' = free \cup {j} /\ UNCHANGED <<held, faults>>
     \/ j \in Skips /\ Dies(j, "create") /\ UNCHANGED <<held, free>>
     \/ j \notin Skips /\ Go(j, "create") /\ UNCHANGED <<held, free, faults>>

-----------------------------------------------------------------------------
(* Create: the stage is truncated and takes what the reader still has.     *)

Open(j) ==
  /\ pc[j] = "create"
  /\ stage' = {}
  /\ pc' = [pc EXCEPT ![j] = "stream"]
  /\ UNCHANGED <<final, held, source, pos, try, round, ctx, free, faults>>

Stream(j) ==
  /\ pc[j] = "stream" /\ pos[j] < Pieces
  /\ pos' = [pos EXCEPT ![j] = @ + 1]
  /\ stage' = (IF stage = Absent THEN {} ELSE stage) \cup {<<j, pos[j] + 1>>}
  /\ UNCHANGED <<final, held, source, pc, try, round, ctx, free, faults>>

Drained_Short(j) == TRUE                             \* mutant: a short source ends clean

\* VerifiedStream: a reader of known size ends clean only past its last byte.
\* One of unknown size is not wrapped: wherever it ends counts as its end.
Drained(j) == pos[j] = Pieces \/ j \notin Sized

Created(j) ==
  /\ pc[j] = "stream" /\ Drained(j)
  /\ Go(j, "commit")
  /\ UNCHANGED <<final, stage, held, source, pos, round, ctx, free, faults>>

\* The wire or the source dies mid-stream.  What the reader gave may be
\* lost on the way, and an engine that issues Create again continues with
\* the SAME reader.
CreateDies(j, eaten) ==
  /\ pc[j] \in {"create", "stream"}
  /\ eaten => pc[j] = "stream" /\ pos[j] < Pieces
  /\ pos' = IF eaten THEN [pos EXCEPT ![j] = @ + 1] ELSE pos
  /\ \/ /\ Fault /\ try[j] < CreateTries /\ j \notin ctx
        /\ pc' = [pc EXCEPT ![j] = "create"] /\ try' = [try EXCEPT ![j] = @ + 1]
     \/ Fault /\ Go(j, "discard")
     \/ j \in ctx /\ Go(j, "discard") /\ UNCHANGED faults
  /\ UNCHANGED <<final, stage, held, source, round, ctx, free>>

-----------------------------------------------------------------------------
(* The commit: Rename; on any error Remove the target and Rename again.    *)

OnRefusal(j) == IF pc[j] = "commit" THEN "clear" ELSE "discard"
Committing(j) == pc[j] \in {"commit", "recommit"}
Renamable == stage # Absent /\ (Overwrites \/ final = Absent)

Rename(j) ==
  /\ Committing(j) /\ Renamable
  /\ final' = stage /\ stage' = Absent
  /\ End(j, "copied")
  /\ UNCHANGED <<source, pos, round, ctx, free, faults>>

RenameRefused(j) ==
  /\ Committing(j) /\ ~Renamable
  /\ Go(j, OnRefusal(j))
  /\ UNCHANGED <<final, stage, held, source, pos, round, ctx, free, faults>>

RenameDies(j, landed) ==
  /\ Committing(j) /\ (landed => Renamable)
  /\ final' = Lands(landed, stage, final)
  /\ stage' = Lands(landed, Absent, stage)
  /\ Dies(j, OnRefusal(j))
  /\ UNCHANGED <<held, source, pos, round, ctx, free>>

\* Removing what is not there is an error as well.
Clear(j) ==
  /\ pc[j] = "clear"
  /\ final' = Absent
  /\ Go(j, IF final = Absent THEN "discard" ELSE "recommit")
  /\ UNCHANGED <<stage, held, source, pos, round, ctx, free, faults>>

ClearDies(j, landed) ==
  /\ pc[j] = "clear"
  /\ final' = Lands(landed, Absent, final)
  /\ Dies(j, "discard")
  /\ UNCHANGED <<stage, held, source, pos, round, ctx, free>>

-----------------------------------------------------------------------------
(* The discard of the stage, on a context of its own.                      *)

Verdict(j) == IF j \in ctx THEN "canceled" ELSE "failed"

Discard(j) ==
  /\ pc[j] = "discard"
  /\ stage' = Absent
  /\ End(j, Verdict(j))
  /\ UNCHANGED <<final, source, pos, round, ctx, free, faults>>

Tried(j) == round[j] = Rounds

DiscardDies(j, landed) ==
  /\ pc[j] = "discard" /\ Fault
  /\ stage' = Lands(landed, Absent, stage)
  /\ \/ /\ try[j] < Tries /\ try' = [try EXCEPT ![j] = @ + 1]
        /\ UNCHANGED <<pc, held, round>>
     \/ /\ ~Tried(j) /\ round' = [round EXCEPT ![j] = @ + 1]
        /\ Go(j, "discard") /\ UNCHANGED held
     \/ Tried(j) /\ End(j, Verdict(j)) /\ UNCHANGED round
  /\ UNCHANGED <<final, source, pos, ctx, free>>

-----------------------------------------------------------------------------
\* A move removes the source of a file that was copied.
DeleteSource(j) ==
  /\ pc[j] = "copied" /\ j \notin ctx
  /\ source' = source \ {j} /\ Go(j, "moved")
  /\ UNCHANGED <<final, stage, held, pos, round, ctx, free, faults>>

\* The deletion panics, before or after the source went.
DeletePanics(j) ==
  /\ pc[j] = "copied" /\ j \notin ctx
  /\ source' \in {source, source \ {j}} /\ Go(j, "failed")
  /\ UNCHANGED <<final, stage, held, pos, round, ctx, free, faults>>

\* A panic under way: guardJob settles the job, but nothing unlocks.
Panic(j) ==
  /\ pc[j] \in AtWork
  /\ Go(j, "panicked")
  /\ UNCHANGED <<final, stage, held, source, pos, round, ctx, free, faults>>

Cancel(j) ==
  /\ pc[j] \in {"idle", "copied"} \cup AtWork /\ j \notin ctx
  /\ ctx' = ctx \cup {j}
  /\ UNCHANGED <<final, stage, held, source, pc, pos, try, round, free, faults>>

Work(j) ==
  \/ Probe(j) \/ Open(j) \/ Stream(j) \/ Created(j)
  \/ Rename(j) \/ RenameRefused(j) \/ Clear(j) \/ Discard(j)
  \/ \E b \in BOOLEAN : \/ CreateDies(j, b) \/ RenameDies(j, b)
                        \/ ClearDies(j, b) \/ DiscardDies(j, b)

Write(j) == Start(j) \/ CanceledIdle(j) \/ Work(j)

Upset(j) == DeleteSource(j) \/ DeletePanics(j) \/ Panic(j) \/ Cancel(j)

Next == \E j \in Jobs : Write(j) \/ Upset(j)

Spec == Init /\ [][Next]_vars

-----------------------------------------------------------------------------
(* Properties.                                                             *)

\* What a job may leave at the final name: its whole payload, or, of a source
\* that did not tell its size, the head of it that was read.
Whole(j) == IF j \in Sized THEN {Payload(j)} ELSE {Head(j, n) : n \in 0..Pieces}

\* xferRemoteCreate: the final name holds the old file, nothing, or what one
\* job read to the end - never a partial of a known size, never a mix of two
\* writers.
WholeOrNothing == final \in {Absent, Old} \cup UNION {Whole(j) : j \in Jobs}

\* A file counts as copied (and its source as removable) only when what the
\* job read to the end stands at the final name at that moment, and that is
\* the whole payload wherever the size was known.
CopiedIsThere ==
  [][\A j \in Jobs :
       pc[j] # "copied" /\ pc'[j] = "copied" => final' \in Whole(j)]_vars

\* The skip policy: a job whose probe answered replaces nothing, although
\* probe and commit are commands of their own.
SkipReplacesNothing ==
  [][\A j \in free : Committing(j) /\ final' # final => final = Absent]_vars

\* With at most two dead commands no stage outlives its job; a job that
\* panicked has the lock for ever, and its stage with it.
NoStrandedStage == held = None => stage = Absent
==============================================================================
