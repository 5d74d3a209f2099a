--------------------------- MODULE TransferJobProofs ---------------------------
(***************************************************************************)
(* What one transfer job and its retries promise, for every number of      *)
(* files, items, part streams, pauses and retries.                         *)
(*                                                                         *)
(* Four facts make the invariant JobInv.  Ledger ties a file's outcome to  *)
(* the two ends of the transfer; Whole says a job is submitted with whole  *)
(* rows; Stages says which verdict goes with which place of the walker;    *)
(* Gated remembers how a walker got past the gate after a pause or cancel. *)
(***************************************************************************)
EXTENDS TransferJob, TLAPS

\* A file that settled as done was written, and one that settled as done or
\* skipped has its name taken.
Ledger ==
  /\ copied \subseteq taken
  /\ \A f \in Files : outcome[f] = "done" => f \in copied
  /\ \A f \in Files : outcome[f] = "skipped" => f \in taken

\* A job holds every planned file of the rows it was submitted with.
Whole == \A f \in todo, g \in Files : ItemOf[g] = ItemOf[f] => g \in todo

\* The verdict is in exactly when the walker is past its settle.
Stages ==
  /\ status = "running" <=> pc \notin {"tail", "exited"}
  /\ pc = "work" => cur \in Remaining

\* Under a gate or a cancel a file that has started since is the last one:
\* the walker stands in front of that gate, or will not reach one.
Gated ==
  (hold # NoGate \/ canceled) =>
    \/ late = 0
    \/ /\ late = 1
       /\ pc \notin {"start", "woken"}
       /\ pc = "waiting" => gate = hold /\ hold # NoGate
       /\ canceled => pc \notin {"gate", "waiting"}

JobInv == TypeOK /\ Ledger /\ Whole /\ Stages /\ Gated

\* A fresh job has settled nothing.
LEMMA JobInit == Init => JobInv
<1> SUFFICES ASSUME Init PROVE JobInv
  OBVIOUS
<1> USE TransferJobAssumption DEF Init, NoGate, Files
<1>1. TypeOK
  <2>1. JobOK
    BY DEF JobOK, Gates
  <2>2. WalkerOK
    BY DEF WalkerOK, Unparked, Gates
  <2>3. ManagerOK
    BY DEF ManagerOK, Gates
  <2>4. WorldOK
    BY DEF WorldOK
  <2>5. FlagsOK
    BY DEF FlagsOK
  <2>6. QED
    BY <2>1, <2>2, <2>3, <2>4, <2>5 DEF TypeOK
<1>2. Ledger
  BY DEF Ledger
<1>3. Whole
  BY DEF Whole
<1>4. Stages
  BY DEF Stages
<1>5. Gated
  BY DEF Gated
<1>6. QED
  BY <1>1, <1>2, <1>3, <1>4, <1>5 DEF JobInv

\* Every step of the walker, the streams and the verbs keeps the invariant.
LEMMA JobStep ==
  ASSUME JobInv, [Next]_vars
  PROVE  JobInv'
<1> USE TransferJobAssumption DEF JobInv, TypeOK, NoGate, Gates, Files
<1>1. ASSUME Head PROVE JobInv'
  BY <1>1 DEF JobOK, WalkerOK, ManagerOK, WorldOK, FlagsOK, Ledger, Whole,
      Stages, Gated, Unparked, job, walker, manager, world, Head
<1>2. ASSUME Gate PROVE JobInv'
  BY <1>2 DEF JobOK, WalkerOK, ManagerOK, WorldOK, FlagsOK, Ledger, Whole,
      Stages, Gated, Unparked, job, walker, manager, world, Gate
<1>3. ASSUME GateWake PROVE JobInv'
  BY <1>3 DEF JobOK, WalkerOK, ManagerOK, WorldOK, FlagsOK, Ledger, Whole,
      Stages, Gated, Unparked, job, walker, manager, world, GateWake, Closed
<1>4. ASSUME GateCancel PROVE JobInv'
  BY <1>4 DEF JobOK, WalkerOK, ManagerOK, WorldOK, FlagsOK, Ledger, Whole,
      Stages, Gated, Unparked, job, walker, manager, world, GateCancel
<1>5. ASSUME GateRelabel PROVE JobInv'
  BY <1>5 DEF JobOK, WalkerOK, ManagerOK, WorldOK, FlagsOK, Ledger, Whole,
      Stages, Gated, Unparked, job, walker, manager, world, GateRelabel
<1>6. ASSUME NEW f \in Files, StartFile(f) PROVE JobInv'
  BY <1>6 DEF JobOK, WalkerOK, ManagerOK, WorldOK, FlagsOK, Ledger, Whole,
      Stages, Gated, Unparked, job, walker, manager, world, StartFile,
      Remaining
<1>7. ASSUME SkipTaken PROVE JobInv'
  BY <1>7 DEF JobOK, WalkerOK, ManagerOK, WorldOK, FlagsOK, Ledger, Whole,
      Stages, Gated, Unparked, job, walker, manager, world, SkipTaken,
      FileDone, InFlight
<1>8. ASSUME Copied PROVE JobInv'
  BY <1>8 DEF JobOK, WalkerOK, ManagerOK, WorldOK, FlagsOK, Ledger, Whole,
      Stages, Gated, Unparked, job, walker, manager, world, Copied,
      FileDone, InFlight
<1>9. ASSUME ProbeFails PROVE JobInv'
  BY <1>9 DEF JobOK, WalkerOK, ManagerOK, WorldOK, FlagsOK, Ledger, Whole,
      Stages, Gated, Unparked, job, walker, manager, world, ProbeFails,
      FileDone, InFlight
<1>10. ASSUME NEW lost \in BOOLEAN, CallFails(lost) PROVE JobInv'
  BY <1>10 DEF JobOK, WalkerOK, ManagerOK, WorldOK, FlagsOK, Ledger, Whole,
      Stages, Gated, Unparked, job, walker, manager, world, CallFails,
      FileDone, InFlight, Lands
<1>11. ASSUME NEW lost \in BOOLEAN, CallCanceled(lost) PROVE JobInv'
  BY <1>11 DEF JobOK, WalkerOK, ManagerOK, WorldOK, FlagsOK, Ledger, Whole,
      Stages, Gated, Unparked, job, walker, manager, world, CallCanceled,
      InFlight, Lands
<1>12. ASSUME NEW i \in Items, DeleteSource(i) PROVE JobInv'
  BY <1>12 DEF JobOK, WalkerOK, ManagerOK, WorldOK, FlagsOK, Ledger, Whole,
      Stages, Gated, Unparked, job, walker, manager, world, DeleteSource
<1>13. ASSUME Tally \/ SettleCanceled PROVE JobInv'
  <2>1. JobOK'
    BY <1>13 DEF JobOK, job, Tally, SettleCanceled, Exit, Finish
  <2>2. WalkerOK'
    BY <1>13 DEF WalkerOK, Unparked, walker, Tally, SettleCanceled, Exit,
        Finish
  <2>3. ManagerOK'
    BY <1>13 DEF ManagerOK, manager, Tally, SettleCanceled, Exit, Finish
  <2>4. WorldOK'
    BY <1>13 DEF WorldOK, world, Tally, SettleCanceled, Exit, Finish
  <2>5. FlagsOK'
    BY <1>13 DEF FlagsOK, job, manager, Tally, SettleCanceled, Exit, Finish
  <2>6. Ledger'
    BY <1>13 DEF Ledger, job, world, Tally, SettleCanceled, Exit, Finish
  <2>7. Whole'
    BY <1>13 DEF Whole, job, Tally, SettleCanceled, Exit, Finish
  <2>8. Stages'
    BY <1>13 DEF Stages, job, walker, Tally, SettleCanceled, Exit, Finish
  <2>9. Gated'
    BY <1>13 DEF Gated, job, walker, Tally, SettleCanceled, Exit, Finish
  <2>10. QED
    BY <2>1, <2>2, <2>3, <2>4, <2>5, <2>6, <2>7, <2>8, <2>9
<1>14. ASSUME Return PROVE JobInv'
  BY <1>14 DEF JobOK, WalkerOK, ManagerOK, WorldOK, FlagsOK, Ledger, Whole,
      Stages, Gated, Unparked, job, walker, manager, world, Return
<1>15. ASSUME Panic PROVE JobInv'
  BY <1>15 DEF JobOK, WalkerOK, ManagerOK, WorldOK, FlagsOK, Ledger, Whole,
      Stages, Gated, Unparked, job, walker, manager, world, Panic, Finish,
      InFlight
<1>16. ASSUME NEW s \in Parts, PartPark(s) PROVE JobInv'
  BY <1>16 DEF JobOK, WalkerOK, ManagerOK, WorldOK, FlagsOK, Ledger, Whole,
      Stages, Gated, Unparked, job, walker, manager, world, PartPark,
      Remaining
<1>17. ASSUME NEW s \in Parts, PartWake(s) PROVE JobInv'
  <2>1. JobOK'
    BY <1>17 DEF JobOK, job, PartWake, Remaining, Closed
  <2>2. WalkerOK'
    BY <1>17 DEF WalkerOK, Unparked, walker, PartWake, Remaining, Closed
  <2>3. ManagerOK'
    BY <1>17 DEF ManagerOK, manager, PartWake, Remaining, Closed
  <2>4. WorldOK'
    BY <1>17 DEF WorldOK, world, PartWake, Remaining, Closed
  <2>5. FlagsOK'
    BY <1>17 DEF FlagsOK, job, manager, PartWake, Remaining, Closed
  <2>6. Ledger'
    BY <1>17 DEF Ledger, job, world, PartWake, Remaining, Closed
  <2>7. Whole'
    BY <1>17 DEF Whole, job, PartWake, Remaining, Closed
  <2>8. Stages'
    BY <1>17 DEF Stages, job, walker, PartWake, Remaining, Closed
  <2>9. Gated'
    BY <1>17 DEF Gated, job, walker, PartWake, Remaining, Closed
  <2>10. QED
    BY <2>1, <2>2, <2>3, <2>4, <2>5, <2>6, <2>7, <2>8, <2>9
<1>18. ASSUME NEW s \in Parts, PartCancel(s) PROVE JobInv'
  <2>1. JobOK'
    BY <1>18 DEF JobOK, job, PartCancel, Remaining
  <2>2. WalkerOK'
    BY <1>18 DEF WalkerOK, Unparked, walker, PartCancel, Remaining
  <2>3. ManagerOK'
    BY <1>18 DEF ManagerOK, manager, PartCancel, Remaining
  <2>4. WorldOK'
    BY <1>18 DEF WorldOK, world, PartCancel, Remaining
  <2>5. FlagsOK'
    BY <1>18 DEF FlagsOK, job, manager, PartCancel, Remaining
  <2>6. Ledger'
    BY <1>18 DEF Ledger, job, world, PartCancel, Remaining
  <2>7. Whole'
    BY <1>18 DEF Whole, job, PartCancel, Remaining
  <2>8. Stages'
    BY <1>18 DEF Stages, job, walker, PartCancel, Remaining
  <2>9. Gated'
    BY <1>18 DEF Gated, job, walker, PartCancel, Remaining
  <2>10. QED
    BY <2>1, <2>2, <2>3, <2>4, <2>5, <2>6, <2>7, <2>8, <2>9
<1>19. ASSUME NEW s \in Parts, PartRelabel(s) PROVE JobInv'
  BY <1>19 DEF JobOK, WalkerOK, ManagerOK, WorldOK, FlagsOK, Ledger, Whole,
      Stages, Gated, Unparked, job, walker, manager, world, PartRelabel,
      Remaining
<1>20. ASSUME PauseMatch PROVE JobInv'
  BY <1>20 DEF JobOK, WalkerOK, ManagerOK, WorldOK, FlagsOK, Ledger, Whole,
      Stages, Gated, Unparked, job, walker, manager, world, PauseMatch,
      Remaining
<1>21. ASSUME Pause PROVE JobInv'
  <2>1. JobOK'
    BY <1>21 DEF JobOK, ManagerOK, job, Pause
  <2>2. WalkerOK'
    BY <1>21 DEF WalkerOK, Unparked, walker, Pause, Remaining
  <2>3. ManagerOK'
    BY <1>21 DEF ManagerOK, manager, Pause, Remaining
  <2>4. WorldOK'
    BY <1>21 DEF WorldOK, world, Pause, Remaining
  <2>5. FlagsOK'
    BY <1>21 DEF FlagsOK, job, manager, Pause, Remaining
  <2>6. Ledger'
    BY <1>21 DEF Ledger, job, world, Pause, Remaining
  <2>7. Whole'
    BY <1>21 DEF Whole, job, Pause, Remaining
  <2>8. Stages'
    BY <1>21 DEF Stages, job, walker, Pause, Remaining
  <2>9. Gated'
    BY <1>21 DEF Gated, job, walker, Pause, Remaining
  <2>10. QED
    BY <2>1, <2>2, <2>3, <2>4, <2>5, <2>6, <2>7, <2>8, <2>9
<1>22. ASSUME ResumeMatch PROVE JobInv'
  BY <1>22 DEF JobOK, WalkerOK, ManagerOK, WorldOK, FlagsOK, Ledger, Whole,
      Stages, Gated, Unparked, job, walker, manager, world, ResumeMatch,
      Remaining
<1>23. ASSUME Resume PROVE JobInv'
  <2>1. JobOK'
    BY <1>23 DEF JobOK, job, Resume, Remaining
  <2>2. WalkerOK'
    BY <1>23 DEF WalkerOK, Unparked, walker, Resume, Remaining
  <2>3. ManagerOK'
    BY <1>23 DEF ManagerOK, manager, Resume, Remaining
  <2>4. WorldOK'
    BY <1>23 DEF WorldOK, world, Resume, Remaining
  <2>5. FlagsOK'
    BY <1>23 DEF FlagsOK, job, manager, Resume, Remaining
  <2>6. Ledger'
    BY <1>23 DEF Ledger, job, world, Resume, Remaining
  <2>7. Whole'
    BY <1>23 DEF Whole, job, Resume, Remaining
  <2>8. Stages'
    BY <1>23 DEF Stages, job, walker, Resume, Remaining
  <2>9. Gated'
    BY <1>23 DEF Gated, job, walker, Resume, Remaining
  <2>10. QED
    BY <2>1, <2>2, <2>3, <2>4, <2>5, <2>6, <2>7, <2>8, <2>9
<1>24. ASSUME Cancel PROVE JobInv'
  BY <1>24 DEF JobOK, WalkerOK, ManagerOK, WorldOK, FlagsOK, Ledger, Whole,
      Stages, Gated, Unparked, job, walker, manager, world, Cancel,
      Remaining
<1>25. ASSUME Clear PROVE JobInv'
  BY <1>25 DEF JobOK, WalkerOK, ManagerOK, WorldOK, FlagsOK, Ledger, Whole,
      Stages, Gated, Unparked, job, walker, manager, world, Clear, Remaining
<1>26. ASSUME Retry PROVE JobInv'
  <2>1. JobOK'
    BY <1>26 DEF JobOK, job, Retry, Kept, Rows, Failures
  <2>2. WalkerOK'
    BY <1>26 DEF WalkerOK, Unparked, walker, Retry
  <2>3. ManagerOK'
    BY <1>26 DEF ManagerOK, manager, Retry, Remaining
  <2>4. WorldOK'
    BY <1>26 DEF WorldOK, world, Retry, Remaining
  <2>5. FlagsOK'
    BY <1>26 DEF FlagsOK, job, manager, Retry, Remaining
  <2>6. Ledger'
    BY <1>26 DEF Ledger, job, world, Retry, Remaining
  <2>7. Whole'
    BY <1>26 DEF Whole, job, Retry, Remaining
  <2>8. Stages'
    BY <1>26 DEF Stages, job, walker, Retry, Remaining
  <2>9. Gated'
    BY <1>26 DEF Gated, job, walker, Retry, Remaining
  <2>10. QED
    BY <2>1, <2>2, <2>3, <2>4, <2>5, <2>6, <2>7, <2>8, <2>9
<1>27. CASE UNCHANGED vars
  BY <1>27 DEF JobOK, WalkerOK, ManagerOK, WorldOK, FlagsOK, Ledger, Whole,
      Stages, Gated, Unparked, Remaining, job, walker, manager, world, vars
<1>28. QED
  BY <1>1, <1>2, <1>3, <1>4, <1>5, <1>6, <1>7, <1>8, <1>9, <1>10, <1>11,
      <1>12, <1>13, <1>14, <1>15, <1>16, <1>17, <1>18, <1>19, <1>20, <1>21,
      <1>22, <1>23, <1>24, <1>25, <1>26, <1>27 DEF Next, Walk, Stream, Verbs

LEMMA JobInvariant == Spec => []JobInv
  BY JobInit, JobStep, PTL DEF Spec

-----------------------------------------------------------------------------
(* What follows.                                                           *)

\* The record of the job is well formed at every moment.
THEOREM JobTypeCorrect == Spec => []TypeOK
<1>1. JobInv => TypeOK
  BY DEF JobInv
<1>2. QED
  BY <1>1, JobInvariant, PTL

\* Every item is booked on a row of its own: uploads, downloads, S3 and
\* remote items, and at most one local path per cross-source transfer.
OwnRows == \A i \in Items : RowOf[i] = i

\* The retry of a canceled job (RetryTransfer's kept rows) covers every file
\* that is not at its destination.
THEOREM CanceledRetryMissesNothing ==
  ASSUME OwnRows
  PROVE  Spec => []CanceledKeepsUnfinished
<1>1. JobInv => CanceledKeepsUnfinished
  BY TransferJobAssumption
  DEF JobInv, TypeOK, JobOK, Ledger, CanceledKeepsUnfinished, Kept, Rows,
      Failures, Remaining, OwnRows, Files
<1>2. QED
  BY <1>1, JobInvariant, PTL

\* Pause and cancel let at most one more file start, whatever interleaving
\* of verbs and walker leads there (awaitPause and the loop's ctx check).
THEOREM PauseAndCancelBite == Spec => []AtMostOneMore
<1>1. JobInv => AtMostOneMore
  BY DEF JobInv, Gated, AtMostOneMore
<1>2. QED
  BY <1>1, JobInvariant, PTL

\* A move deletes the source of an item only when this chain of jobs wrote
\* every planned file of the item (xferCleanup against the tainted items).
THEOREM MoveDeletesOnlyCopied == Spec => []DeletedWasCopied
<1>1. Init => DeletedWasCopied
  BY DEF Init, DeletedWasCopied
<1>2. JobInv /\ DeletedWasCopied /\ [Next]_vars => DeletedWasCopied'
  <2> SUFFICES ASSUME JobInv, DeletedWasCopied, [Next]_vars
               PROVE  DeletedWasCopied'
    OBVIOUS
  <2>1. copied \subseteq copied'
    BY DEF Next, Walk, Stream, Verbs, vars, world, Head, Gate, GateWake,
           GateCancel, GateRelabel, StartFile, SkipTaken, Copied, ProbeFails,
           CallFails, CallCanceled, Lands, DeleteSource, Tally, SettleCanceled,
           Exit, Return, Panic, PartPark, PartWake, PartCancel, PartRelabel,
           PauseMatch, Pause, ResumeMatch, Resume, Cancel, Clear, Retry
  <2>2. CASE deleted' = deleted
    BY <2>1, <2>2 DEF DeletedWasCopied
  <2>3. ASSUME NEW i \in Items, DeleteSource(i) PROVE DeletedWasCopied'
    <3>1. PICK g \in todo : ItemOf[g] = i
      BY <2>3 DEF DeleteSource, Deletable
    <3>2. ASSUME NEW f \in Files, ItemOf[f] = i PROVE f \in copied
      <4>1. f \in todo
        BY <3>1, <3>2 DEF JobInv, Whole
      <4>2. outcome[f] = "done"
        BY <2>3, <3>2, <4>1 DEF DeleteSource, Deletable, Tainted, Rows
      <4>3. QED
        BY <4>2 DEF JobInv, Ledger
    <3>3. QED
      BY <2>1, <2>3, <3>2 DEF DeletedWasCopied, DeleteSource
  <2>4. deleted' = deleted \/ \E i \in Items : DeleteSource(i)
    BY DEF Next, Walk, Stream, Verbs, vars, world, FileDone, Head, Gate,
           GateWake, GateCancel, GateRelabel, StartFile, SkipTaken, Copied,
           ProbeFails, CallFails, CallCanceled, Tally, SettleCanceled, Exit,
           Return, Panic, PartPark, PartWake, PartCancel, PartRelabel,
           PauseMatch, Pause, ResumeMatch, Resume, Cancel, Clear, Retry
  <2>5. QED
    BY <2>2, <2>3, <2>4
<1>3. QED
  BY <1>1, <1>2, JobInvariant, PTL DEF Spec

\* The first verdict stands (finishJob): once settled, only a retry changes
\* the verdict or an outcome.
THEOREM FirstSettleStands == Spec => SettleStands
<1>1. JobInv /\ [Next]_vars =>
        [status # "running" =>
           Retry \/ (status' = status /\ outcome' = outcome)]_vars
  BY DEF JobInv, Stages, Next, Walk, Stream, Verbs, vars, job, Finish,
         InFlight, FileDone, Head, Gate, GateWake, GateCancel, GateRelabel,
         StartFile, SkipTaken, Copied, ProbeFails, CallFails, CallCanceled,
         DeleteSource, Tally, SettleCanceled, Exit, Return, Panic, PartPark,
         PartWake, PartCancel, PartRelabel, PauseMatch, Pause, ResumeMatch,
         Resume, Cancel, Clear
<1>2. QED
  BY <1>1, JobInvariant, PTL DEF Spec, SettleStands

\* What a job of the chain no longer carries is at its destination already;
\* without panics a job that reads error or done has settled every file.
Delivered ==
  /\ \A f \in Files \ todo : f \in taken
  /\ pc = "cleanup" \/ status \in {"done", "error"} => Remaining = {}
  /\ status = "done" => Failures = {}

LEMMA DeliveredStep ==
  ASSUME OwnRows, ~MayPanic, JobInv, Delivered, [Next]_vars
  PROVE  Delivered'
<1> USE TransferJobAssumption
    DEF JobInv, JobOK, TypeOK, Delivered, Remaining, Failures, job, walker, world
<1>1. ASSUME Tally \/ SettleCanceled PROVE Delivered'
  BY <1>1 DEF Tally, SettleCanceled, Exit, Finish, Stages
<1>2. ASSUME SkipTaken \/ Copied \/ ProbeFails PROVE Delivered'
  BY <1>2 DEF SkipTaken, Copied, ProbeFails, FileDone, InFlight, Stages
<1>3. ASSUME NEW lost \in BOOLEAN, CallFails(lost) \/ CallCanceled(lost)
      PROVE Delivered'
  BY <1>3 DEF CallFails, CallCanceled, Lands, FileDone, InFlight, Stages
<1>4. ASSUME Retry PROVE Delivered'
  <2>1. ASSUME NEW f \in Files, f \notin todo' PROVE f \in taken
    BY <1>4, <2>1 DEF Retry, Kept, Rows, OwnRows, Files, Ledger, Stages
  <2>2. QED
    BY <1>4, <2>1 DEF Retry
<1>5. ASSUME Head \/ Gate \/ GateWake \/ GateCancel \/ GateRelabel \/ Return
      PROVE Delivered'
  BY <1>5 DEF Head, Gate, GateWake, GateCancel, GateRelabel, Return, Stages
<1>6. ASSUME \/ \E f \in Files : StartFile(f)
             \/ \E i \in Items : DeleteSource(i)
             \/ \E s \in Parts : Stream(s)
      PROVE Delivered'
  BY <1>6 DEF StartFile, DeleteSource, Stream, PartPark, PartWake, PartCancel,
              PartRelabel
<1>7. ASSUME PauseMatch \/ Pause \/ ResumeMatch \/ Resume \/ Cancel \/ Clear
      PROVE Delivered'
  BY <1>7 DEF PauseMatch, Pause, ResumeMatch, Resume, Cancel, Clear
<1>8. CASE UNCHANGED vars
  BY <1>8 DEF vars
<1>9. QED
  BY <1>1, <1>2, <1>3, <1>4, <1>5, <1>6, <1>7, <1>8
  DEF Next, Walk, Verbs, Panic

\* A walker that does not panic reads "done" only with every file of the
\* original request at its destination, through any chain of retries, if
\* the items have rows of their own.
THEOREM DoneIsDelivered ==
  ASSUME OwnRows, ~MayPanic
  PROVE  Spec => []DoneMeansAllThere
<1>1. Init => Delivered
  BY DEF Init, Delivered
<1>2. JobInv /\ Delivered /\ [Next]_vars => Delivered'
  BY DeliveredStep
<1>3. JobInv /\ Delivered => DoneMeansAllThere
  BY DEF JobInv, TypeOK, JobOK, Ledger, Delivered, DoneMeansAllThere,
         Remaining, Failures
<1>4. QED
  BY <1>1, <1>2, <1>3, JobInvariant, PTL DEF Spec
=============================================================================
