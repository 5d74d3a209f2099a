------------------------------ MODULE TransferJob ------------------------------
(***************************************************************************)
(* One transfer job (pkg/api/transfer.go): its walker goroutine, the part  *)
(* streams of the file in flight, and the verbs the window may press at    *)
(* any moment - pause, resume, cancel, clear, retry.  The job handle's     *)
(* mutex makes each action below one step; everything between two of them  *)
(* can interleave.  A retry is a fresh job over the kept rows, so the same *)
(* variables describe the latest job of the chain.                         *)
(*                                                                         *)
(* Byte counters, speed, ETA and the event throttle are left out: a file   *)
(* is in flight or settled with one of three outcomes.                     *)
(***************************************************************************)
EXTENDS Naturals

CONSTANTS
  N,            \* planned files, walked in order 1..N
  Items,        \* top-level items: the rows of the job
  ItemOf,       \* ItemOf[f]: the item a planned file belongs to
  RowOf,        \* RowOf[i]: the row the planner books item i on: its own,
                \* but the first local path's for every local path of planXfer
  Parts,        \* concurrent part streams of one file
  StreamPark,   \* upload/download park mid-stream; the cross walker does not
  Move,         \* delete the sources of fully transferred items
  MayPanic,     \* the walker may panic (guardJob catches it)
  MaxPauses,    \* bound: pauses per chain of jobs
  MaxRetries    \* bound: retries per chain of jobs

ASSUME TransferJobAssumption ==
  /\ N \in Nat \ {0}
  /\ ItemOf \in [1..N -> Items] /\ RowOf \in [Items -> Items]
  /\ StreamPark \in BOOLEAN /\ Move \in BOOLEAN /\ MayPanic \in BOOLEAN
  /\ MaxPauses \in Nat /\ MaxRetries \in Nat

Files == 1..N
NoGate == 0
Gates == 0..MaxPauses

VARIABLES
  status,    \* JobInfo.Status
  phase,     \* JobInfo.Phase
  outcome,   \* outcome[f]: how file f settled in this job, "none" until it did
  hold,      \* the pause gate: NoGate while the job flows
  canceled,  \* the job's context is done
  pc,        \* where the walker stands
  cur,       \* the file in flight
  gate,      \* the gate channel awaitPause captured
  parked,    \* parked[s]: the gate part stream s is parked on, or NoGate
  woke,      \* part streams released from a park, their row not relabelled yet
  todo,      \* the files this job was submitted with
  verb,      \* a pause or resume between the manager's match and its effect
  listed,    \* the job is in the manager's list
  retries,   \* jobs of the chain before this one
  pauses,    \* gates made so far
  taken,     \* destination names that exist
  copied,    \* files some job of the chain wrote there
  deleted,   \* items whose source the cleanup removed
  late       \* history: files started since the latest pause or cancel

job == <<status, phase, outcome, hold, canceled, todo>>
walker == <<pc, cur, gate, parked, woke>>
manager == <<verb, listed, retries, pauses>>
world == <<taken, copied, deleted>>
vars == <<job, walker, manager, world, late>>

Unparked == [s \in Parts |-> NoGate]

JobOK ==
  /\ status \in {"running", "done", "error", "canceled"}
  /\ phase \in {"transfer", "paused", "cleanup"}
  /\ outcome \in [Files -> {"none", "done", "failed", "skipped"}]
  /\ hold \in Gates /\ todo \subseteq Files

WalkerOK ==
  /\ pc \in {"head", "gate", "waiting", "woken", "start", "work",
             "cleanup", "canceling", "tail", "exited"}
  /\ cur \in Files /\ gate \in Gates
  /\ parked \in [Parts -> Gates] /\ woke \subseteq Parts
  /\ pc # "work" => parked = Unparked /\ woke = {}

ManagerOK ==
  /\ verb \in {"none", "pause", "resume"}
  /\ pauses \in Gates /\ (verb = "pause" => pauses < MaxPauses)
  /\ retries \in 0..MaxRetries

WorldOK ==
  /\ taken \subseteq Files /\ copied \subseteq Files /\ deleted \subseteq Items
  /\ late \in Nat

FlagsOK == canceled \in BOOLEAN /\ listed \in BOOLEAN

TypeOK == JobOK /\ WalkerOK /\ ManagerOK /\ WorldOK /\ FlagsOK

Init ==
  /\ status = "running" /\ phase = "transfer"
  /\ outcome = [f \in Files |-> "none"]
  /\ hold = NoGate /\ canceled = FALSE
  /\ pc = "head" /\ cur = 1 /\ gate = NoGate
  /\ parked = Unparked /\ woke = {}
  /\ todo = Files /\ retries = 0 /\ verb = "none" /\ listed = TRUE
  /\ pauses = 0 /\ copied = {} /\ deleted = {} /\ late = 0
  /\ taken \in SUBSET Files

-----------------------------------------------------------------------------
(* The walker: runUpload, runDownload, runXfer.                            *)

Remaining == {f \in todo : outcome[f] = "none"}
Failures == {f \in todo : outcome[f] = "failed"}

Rows(fs) == {RowOf[ItemOf[f]] : f \in fs}

Tainted_FailedOnly == Rows(Failures)                 \* mutant: a skip is success

\* An item some file of which failed or was skipped keeps its source.
Tainted == Rows({f \in todo : outcome[f] # "done"})
Deletable == {i \in {ItemOf[f] : f \in todo} : RowOf[i] \notin Tainted} \ deleted

Finish_Always(st) == status' = st                    \* mutant: finishing is not checked

\* finishJob: the first settle stands.
Finish(st) == status' = IF status = "running" THEN st ELSE status

Exit(st) == /\ Finish(st)
            /\ pc' = "tail"
            /\ UNCHANGED <<phase, outcome, hold, canceled, todo,
                           cur, gate, parked, woke, manager, world, late>>

\* Top of the loop: the cancellation check, then the gate; past the last
\* file a move goes on to its cleanup.
Head ==
  /\ pc = "head"
  /\ \/ canceled /\ Remaining # {} /\ pc' = "canceling" /\ UNCHANGED phase
     \/ ~canceled /\ Remaining # {} /\ pc' = "gate" /\ UNCHANGED phase
     \/ /\ Remaining = {}
        /\ pc' = "cleanup"
        /\ phase' = IF Move THEN "cleanup" ELSE phase
  /\ UNCHANGED <<status, outcome, hold, canceled, todo,
                 cur, gate, parked, woke, manager, world, late>>

Gate_Open ==                                         \* mutant: the walker skips the gate
  /\ pc = "gate" /\ pc' = "start"
  /\ UNCHANGED <<job, cur, gate, parked, woke, manager, world, late>>

\* awaitPause: nothing is touched when no gate is up.
Gate ==
  /\ pc = "gate"
  /\ IF hold = NoGate
     THEN pc' = "start" /\ UNCHANGED <<phase, gate>>
     ELSE pc' = "waiting" /\ phase' = "paused" /\ gate' = hold
  /\ UNCHANGED <<status, outcome, hold, canceled, todo,
                 cur, parked, woke, manager, world, late>>

Closed_Never(g) == FALSE                             \* mutant: resume forgets the close

\* resume closes the channel and forgets it, so a gate is closed exactly
\* when it is no longer the job's.
Closed(g) == hold # g

GateWake ==
  /\ pc = "waiting" /\ Closed(gate)
  /\ pc' = "woken"
  /\ UNCHANGED <<job, cur, gate, parked, woke, manager, world, late>>

GateCancel_Never == FALSE /\ UNCHANGED vars          \* mutant: only a resume wakes

GateCancel ==
  /\ pc = "waiting" /\ canceled
  /\ pc' = "canceling"
  /\ UNCHANGED <<job, cur, gate, parked, woke, manager, world, late>>

GateRelabel ==
  /\ pc = "woken"
  /\ phase' = "transfer"
  /\ pc' = "start"
  /\ UNCHANGED <<status, outcome, hold, canceled, todo,
                 cur, gate, parked, woke, manager, world, late>>

StartFile(f) ==
  /\ pc = "start"
  /\ f \in Remaining /\ \A g \in Remaining : f <= g
  /\ cur' = f /\ pc' = "work" /\ late' = late + 1
  /\ UNCHANGED <<job, gate, parked, woke, manager, world>>

\* progress: a stream-parking job parks each part at its own next read (a
\* park under a done context returns at once and shows nothing).
PartPark(s) ==
  /\ pc = "work" /\ StreamPark /\ ~canceled
  /\ parked[s] = NoGate /\ s \notin woke /\ hold # NoGate
  /\ parked' = [parked EXCEPT ![s] = hold]
  /\ UNCHANGED <<job, pc, cur, gate, woke, manager, world, late>>

PartWake(s) ==
  /\ parked[s] # NoGate /\ Closed(parked[s])
  /\ parked' = [parked EXCEPT ![s] = NoGate]
  /\ woke' = woke \cup {s}
  /\ UNCHANGED <<job, pc, cur, gate, manager, world, late>>

PartCancel(s) ==
  /\ parked[s] # NoGate /\ canceled
  /\ parked' = [parked EXCEPT ![s] = NoGate]
  /\ UNCHANGED <<job, pc, cur, gate, woke, manager, world, late>>

PartRelabel(s) ==
  /\ s \in woke
  /\ phase' = "transfer"
  /\ woke' = woke \ {s}
  /\ UNCHANGED <<status, outcome, hold, canceled, todo, pc, cur, gate, parked,
                 manager, world, late>>

\* fileDone: the file in flight settles and the loop goes on.
FileDone(o) ==
  /\ outcome' = [outcome EXCEPT ![cur] = o]
  /\ pc' = "head"
  /\ UNCHANGED <<status, phase, hold, canceled, todo,
                 cur, gate, parked, woke, manager, deleted, late>>

InFlight == pc = "work" /\ parked = Unparked /\ woke = {}

\* Policy skip keeps a taken name; a retry always runs under it, a first
\* job where the policy or the dialog's decision says so.
SkipTaken ==
  /\ InFlight /\ cur \in taken
  /\ FileDone("skipped")
  /\ UNCHANGED <<taken, copied>>

\* Where the skip probe of an upload or download says taken, nothing is
\* written; the cross walker's probe is advisory and may miss.
MayWrite == retries > 0 /\ StreamPark => cur \notin taken

Copied ==
  /\ InFlight /\ MayWrite
  /\ taken' = taken \cup {cur} /\ copied' = copied \cup {cur}
  /\ FileDone("done")

\* A destination probe that cannot answer (upload, download) fails the
\* file whether or not the job was canceled meanwhile.
ProbeFails ==
  /\ InFlight /\ StreamPark
  /\ FileDone("failed")
  /\ UNCHANGED <<taken, copied>>

\* The engine call fails: nothing was written, or the answer to a write
\* that landed was lost.
Lands(lost) == IF lost
               THEN taken' = taken \cup {cur} /\ copied' = copied \cup {cur}
               ELSE UNCHANGED <<taken, copied>>

CallFails(lost) ==
  /\ InFlight /\ ~canceled /\ MayWrite
  /\ Lands(lost)
  /\ FileDone("failed")

CallCanceled(lost) ==
  /\ InFlight /\ canceled /\ (lost => MayWrite)
  /\ Lands(lost)
  /\ pc' = "canceling"
  /\ UNCHANGED <<job, cur, gate, parked, woke, manager, deleted, late>>

\* The move's cleanup deletes one source item after another; an error is
\* logged and the item stays.
DeleteSource(i) ==
  /\ pc = "cleanup" /\ Move /\ ~canceled
  /\ i \in Deletable
  /\ deleted' = deleted \cup {i}
  /\ UNCHANGED <<job, walker, manager, taken, copied, late>>

\* The tally: any failed file makes the job an error.
Tally == pc = "cleanup" /\ Exit(IF Failures # {} THEN "error" ELSE "done")

SettleCanceled == pc = "canceling" /\ Exit("canceled")

\* What the worker still does after settling (change events), and its end.
Return ==
  /\ pc = "tail"
  /\ pc' = "exited"
  /\ UNCHANGED <<job, cur, gate, parked, woke, manager, world, late>>

\* A panic anywhere in the worker: guardJob settles the job as failed.
Panic ==
  /\ MayPanic /\ (InFlight \/ pc \in {"head", "start", "cleanup", "tail"})
  /\ Finish("error")
  /\ pc' = "exited"
  /\ UNCHANGED <<phase, outcome, hold, canceled, todo,
                 cur, gate, parked, woke, manager, world, late>>

Walk == \/ Head \/ Gate \/ GateWake \/ GateCancel \/ GateRelabel
        \/ (\E f \in Files : StartFile(f))
        \/ SkipTaken \/ Copied \/ ProbeFails
        \/ (\E lost \in BOOLEAN : CallFails(lost) \/ CallCanceled(lost))
        \/ (\E i \in Items : DeleteSource(i))
        \/ Tally \/ SettleCanceled \/ Return

Stream(s) == PartPark(s) \/ PartWake(s) \/ PartCancel(s) \/ PartRelabel(s)

-----------------------------------------------------------------------------
(* The verbs: jobManager under m.mu, so one at a time; the walker runs on. *)

PauseMatch ==
  /\ verb = "none" /\ listed /\ pauses < MaxPauses
  /\ status = "running" /\ hold = NoGate
  /\ verb' = "pause"
  /\ UNCHANGED <<job, walker, listed, retries, pauses, world, late>>

Pause ==
  /\ verb = "pause" /\ verb' = "none"
  /\ IF status = "running" /\ hold = NoGate
     THEN /\ hold' = pauses + 1 /\ pauses' = pauses + 1
          /\ phase' = "paused" /\ late' = 0
     ELSE UNCHANGED <<hold, pauses, phase, late>>
  /\ UNCHANGED <<status, outcome, canceled, todo, walker, listed, retries, world>>

ResumeMatch ==
  /\ verb = "none" /\ listed /\ hold # NoGate
  /\ verb' = "resume"
  /\ UNCHANGED <<job, walker, listed, retries, pauses, world, late>>

Resume ==
  /\ verb = "resume" /\ verb' = "none"
  /\ hold' = NoGate
  /\ UNCHANGED <<status, phase, outcome, canceled, todo, walker, listed,
                 retries, pauses, world, late>>

\* CancelTransfer, cancelAll and the app's shutdown end the context.
Cancel ==
  /\ verb = "none" /\ listed /\ status = "running" /\ ~canceled
  /\ canceled' = TRUE /\ late' = 0
  /\ UNCHANGED <<status, phase, outcome, hold, todo, walker, manager, world>>

\* ClearFinishedTransfers.
Clear ==
  /\ verb = "none" /\ listed /\ status # "running"
  /\ listed' = FALSE
  /\ UNCHANGED <<job, walker, verb, retries, pauses, world, late>>

Kept_FailedOnly == Rows(Failures)                    \* mutant: a canceled job keeps failures only

\* The rows RetryTransfer resubmits: those with a failed file and, of a
\* canceled job, those that never finished.
Kept == Rows(Failures) \cup (IF status = "canceled" THEN Rows(Remaining) ELSE {})

Retry ==
  /\ verb = "none" /\ listed /\ status # "running" /\ Kept # {}
  /\ pc = "exited" /\ retries < MaxRetries
  /\ status' = "running" /\ phase' = "transfer"
  /\ outcome' = [f \in Files |-> "none"]
  /\ hold' = NoGate /\ canceled' = FALSE
  /\ pc' = "head" /\ cur' = 1 /\ gate' = NoGate
  /\ parked' = Unparked /\ woke' = {}
  /\ todo' = {f \in todo : ItemOf[f] \in Kept}
  /\ retries' = retries + 1 /\ late' = 0
  /\ UNCHANGED <<verb, listed, pauses, world>>

Verbs == PauseMatch \/ Pause \/ ResumeMatch \/ Resume \/ Cancel \/ Clear \/ Retry

Next == Walk \/ (\E s \in Parts : Stream(s)) \/ Panic \/ Verbs

Spec == Init /\ [][Next]_vars

\* The goroutines run whenever they can; every engine call returns (the
\* transports carry budgets); a verb that matched completes.  The user
\* owes nothing.
Fairness ==
  /\ WF_vars(Walk)
  /\ \A s \in Parts : WF_vars(PartWake(s) \/ PartCancel(s) \/ PartRelabel(s))
  /\ WF_vars(Pause \/ Resume)

FairSpec == Spec /\ Fairness

-----------------------------------------------------------------------------
(* Safety.                                                                 *)

\* A job that reads "done" moved every file of the ORIGINAL request, in
\* itself or through the jobs it retried: the rows RetryTransfer keeps miss
\* nothing that still has to go (Kept against outcome, across jobs).
DoneMeansAllThere == status = "done" => Files \subseteq taken

\* A canceled job's retry covers every file that is not at its destination.
CanceledKeepsUnfinished ==
  status = "canceled" => \A f \in todo \ taken : ItemOf[f] \in Kept

\* The move's cleanup removes a source only when every file of the item was
\* written to the destination - never one that was skipped or failed.
DeletedWasCopied == \A f \in Files : ItemOf[f] \in deleted => f \in copied

\* Pause and cancel bite: under one of them at most one more file starts
\* (the one whose gate was already passed), whatever the walker and the
\* verbs race.
AtMostOneMore == hold # NoGate \/ canceled => late <= 1

\* The first settle stands: a panic or an error after it rewrites neither
\* the verdict nor a file's outcome; only a retry starts over.
SettleStands ==
  [][status # "running" =>
       Retry \/ (status' = status /\ outcome' = outcome)]_vars

(* Liveness.                                                               *)

\* A canceled job settles, parked or not.
CancelSettles == (canceled /\ status = "running") ~> status # "running"

\* A job nobody holds for ever settles: a resume always reaches the walker
\* and every parked part stream.
FlowingSettles == <>[](hold = NoGate) => <>[](status # "running")
==============================================================================
