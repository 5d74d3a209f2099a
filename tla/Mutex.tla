-------------------------------- MODULE Mutex --------------------------------
(***************************************************************************)
(* What an exclusive cross-process lock promises: one holder at a time,    *)
(* whoever drops it (the release, or the kernel when the holder dies).     *)
(***************************************************************************)
CONSTANTS Procs,    \* the contenders: app windows, CLI runs
          None      \* stands for "nobody"

VARIABLE holder

Init == holder = None

Acquire(p) == /\ holder = None
              /\ holder' = p

Drop(p) == /\ holder = p
           /\ holder' = None

Next == \E p \in Procs : Acquire(p) \/ Drop(p)

Spec == Init /\ [][Next]_holder
==============================================================================
