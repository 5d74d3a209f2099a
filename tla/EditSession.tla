------------------------------ MODULE EditSession ------------------------------
(***************************************************************************)
(* In-place editing of one remote file (pkg/api/editor.go): the Edit calls *)
(* that pull it into the staged file, the watcher goroutine of every       *)
(* session, and the window's PushEdit and StopEdit calls, against an       *)
(* editor that saves and a world that writes the same remote file.         *)
(*                                                                         *)
(* A file's bytes are a number: 0 the original, then the editor's saves in *)
(* order, then the foreign writes.  Bytes identify themselves, the way an  *)
(* ETag (or size and mtime) does.  Backoff is left out: a failed push may  *)
(* be retried at any poll.  A write that fails leaves the remote file as it *)
(* was or whole.                                                           *)
(***************************************************************************)
EXTENDS Integers, FiniteSets

CONSTANTS
  Callers,      \* concurrent PushEdit / StopEdit calls
  Editors,      \* concurrent Edit calls
  Verbs,        \* what Callers may ask for
  Leg,          \* "s3" (conditional PUT) or "remote" (stat, then Create)
  LostAnswers,  \* a write may land and its answer be lost
  Retires,      \* the removal timer of a stopped session's file may ring
  MaxSessions,  \* bound: sessions opened
  MaxSaves,     \* bound: saves of the editor
  MaxForeign    \* bound: foreign writes

ASSUME EditSessionAssumption ==
  /\ Leg \in {"s3", "remote"}
  /\ Verbs \subseteq {"push", "force", "stop", "discard"}
  /\ LostAnswers \in BOOLEAN /\ Retires \in BOOLEAN
  /\ MaxSessions \in Nat /\ MaxSaves \in Nat /\ MaxForeign \in Nat
  /\ Callers \cap (1..MaxSessions) = {}     \* a watcher is not a call

Gone == -1        \* no staged file
NoGuard == -1     \* no identity to compare
Saves == 1..MaxSaves
Foreign == MaxSaves + 1 .. MaxSaves + MaxForeign
Bodies == 0 .. MaxSaves + MaxForeign
Sessions == 1..MaxSessions
Pushers == Sessions \cup Callers      \* a watcher goes by its session

VARIABLES
  remote,    \* the remote file
  disk,      \* the staged file
  saves,     \* saves so far
  writes,    \* foreign writes so far
  open,      \* the registered session (editors map), 0 when none
  opened,    \* sessions opened so far
  sess,      \* sess[s]: the session's base, orig, last, dirty, stale, done
  pc,        \* pc[p]: where pusher p stands
  work,      \* work[p]: its session, mode, guard and the bytes it opened
  pull,      \* pull[e]: where Edit call e stands and what it pulled
  timers,    \* sessions whose removal timer runs
  landed,    \* history: bytes this app wrote to the remote file
  seen,      \* history: bytes this app pulled, wrote or took the identity of
  after,     \* after[s]: watcher pushes that landed since the session ended
  swept      \* history: saves a PushEdit marked clean that it had not sent

file == <<remote, disk, saves, writes>>
registry == <<open, opened, timers>>
history == <<landed, seen, after, swept>>
vars == <<file, registry, sess, pc, work, pull, history>>

Blank == [base |-> NoGuard, orig |-> 0, last |-> 0,
          dirty |-> FALSE, stale |-> FALSE, done |-> FALSE]
Idle == [of |-> 0, mode |-> "auto", guard |-> NoGuard, body |-> 0, newest |-> FALSE,
         asked |-> Gone]
\* What a pusher keeps when its push returns: whose it was.
Rest(p) == [Idle EXCEPT !.of = work[p].of]
NoPull == [at |-> "idle", body |-> 0, base |-> NoGuard]

TypeOK ==
  /\ remote \in Bodies /\ disk \in Bodies \cup {Gone}
  /\ saves \in 0..MaxSaves /\ writes \in 0..MaxForeign
  /\ open \in 0..opened /\ opened \in 0..MaxSessions
  /\ sess \in [Sessions -> [base : Bodies \cup {NoGuard}, orig : Bodies, last : Bodies,
                            dirty : BOOLEAN, stale : BOOLEAN, done : BOOLEAN]]
  /\ pc \in [Pushers -> {"off", "poll", "push", "put", "create", "answer", "landed", "end"}]
  /\ \A p \in Pushers :
       /\ work[p].of \in 0..opened /\ (pc[p] # "off" => work[p].of # 0)
       /\ work[p].mode \in {"auto", "push", "force", "stop", "discard"}
       /\ work[p].guard \in Bodies \cup {NoGuard} /\ work[p].body \in Bodies
       /\ p \in Callers => pc[p] # "poll"
  /\ pull \in [Editors -> [at : {"idle", "pull", "head", "register"},
                           body : Bodies, base : Bodies \cup {NoGuard}]]
  /\ timers \subseteq Sessions
  /\ landed \subseteq Saves /\ landed \subseteq seen /\ seen \subseteq Bodies
  /\ swept \subseteq Bodies
  /\ after \in [Sessions -> Nat]

Init ==
  /\ remote = 0 /\ disk = Gone /\ saves = 0 /\ writes = 0
  /\ open = 0 /\ opened = 0 /\ timers = {}
  /\ sess = [s \in Sessions |-> Blank]
  /\ pc = [p \in Pushers |-> "off"] /\ work = [p \in Pushers |-> Idle]
  /\ pull = [e \in Editors |-> NoPull]
  /\ landed = {} /\ seen = {} /\ after = [s \in Sessions |-> 0] /\ swept = {}

-----------------------------------------------------------------------------
(* The editor and the world.                                               *)

Save ==
  /\ open # 0 /\ saves < MaxSaves
  /\ saves' = saves + 1 /\ disk' = saves + 1
  /\ UNCHANGED <<remote, writes, registry, sess, pc, work, pull, history>>

ForeignWrite ==
  /\ writes < MaxForeign
  /\ writes' = writes + 1 /\ remote' = MaxSaves + writes + 1
  /\ UNCHANGED <<disk, saves, registry, sess, pc, work, pull, history>>

\* retireEditFile: the path is removed whoever holds it by then.
Retire(s) ==
  /\ Retires /\ s \in timers
  /\ timers' = timers \ {s} /\ disk' = Gone
  /\ UNCHANGED <<remote, saves, writes, open, opened, sess, pc, work, pull, history>>

-----------------------------------------------------------------------------
(* EditObject / EditFile: look up, pull, identify, register.               *)

\* lockSrcs: on an engine one pull with its identity, or one push from its
\* Stat to the next, at a time.  Foreign writers ask for no lock.
Locked == /\ Leg = "remote"
          /\ \/ \E e \in Editors : pull[e].at = "head"
             \/ \E p \in Pushers : pc[p] \in {"create", "answer"}

\* A live session is refocused, nothing is pulled.
Edit(e) ==
  /\ pull[e].at = "idle" /\ open = 0 /\ opened < MaxSessions
  /\ pull' = [pull EXCEPT ![e].at = "pull"]
  /\ UNCHANGED <<file, registry, sess, pc, work, history>>

Download(e) ==
  /\ pull[e].at = "pull" /\ ~Locked
  /\ disk' = remote /\ seen' = seen \cup {remote}
  /\ pull' = [pull EXCEPT ![e].at = "head", ![e].body = remote]
  /\ UNCHANGED <<remote, saves, writes, registry, sess, pc, work, landed, after, swept>>

PullFails(e) ==
  /\ pull[e].at = "pull"
  /\ pull' = [pull EXCEPT ![e].at = "idle"]
  /\ UNCHANGED <<file, registry, sess, pc, work, history>>

\* The identity comes from a request of its own (HeadObject, Stat), of what is
\* there by then.  One that fails, or names none, leaves no guard.
Head(e) ==
  /\ pull[e].at = "head"
  /\ \E id \in {remote, NoGuard} :
       /\ pull' = [pull EXCEPT ![e].at = "register", ![e].base = id]
       /\ seen' = seen \cup ({id} \ {NoGuard})
  /\ UNCHANGED <<file, registry, sess, pc, work, landed, after, swept>>

Register(e) ==
  /\ pull[e].at = "register"
  /\ pull' = [pull EXCEPT ![e] = NoPull]
  /\ IF open # 0 \/ opened = MaxSessions
     THEN UNCHANGED <<open, opened, sess, pc, work>>
     ELSE LET s == opened + 1
          IN  /\ opened' = s /\ open' = s
              /\ sess' = [sess EXCEPT ![s] =
                   [Blank EXCEPT !.base = pull[e].base, !.orig = pull[e].body,
                                 !.last = pull[e].body]]
              /\ pc' = [pc EXCEPT ![s] = "poll"]
              /\ work' = [work EXCEPT ![s].of = s]
  /\ UNCHANGED <<file, timers, history>>

-----------------------------------------------------------------------------
(* watchEditor: one poll.                                                  *)

PollDone(s) ==
  /\ pc[s] = "poll" /\ sess[s].done
  /\ pc' = [pc EXCEPT ![s] = "off"]
  /\ UNCHANGED <<file, registry, sess, work, pull, history>>

\* The staged file is gone: the session is over.
PollGone(s) ==
  /\ pc[s] = "poll" /\ ~sess[s].done /\ disk = Gone
  /\ open' = IF open = s THEN 0 ELSE open
  /\ pc' = [pc EXCEPT ![s] = "off"]
  /\ UNCHANGED <<file, opened, timers, sess, work, pull, history>>

PollChanged_Clean(s) ==                        \* mutant: the change is not marked
  /\ pc[s] = "poll" /\ ~sess[s].done /\ disk \notin {Gone, sess[s].last}
  /\ sess' = [sess EXCEPT ![s].last = disk]
  /\ UNCHANGED <<file, registry, pc, work, pull, history>>

PollChanged(s) ==
  /\ pc[s] = "poll" /\ ~sess[s].done /\ disk \notin {Gone, sess[s].last}
  /\ sess' = [sess EXCEPT ![s].last = disk, ![s].dirty = TRUE]
  /\ UNCHANGED <<file, registry, pc, work, pull, history>>

PollStable_Done(s) ==                          \* mutant: the watcher outlives its session
  /\ pc[s] = "poll" /\ disk = sess[s].last /\ disk # sess[s].orig /\ ~sess[s].stale
  /\ pc' = [pc EXCEPT ![s] = "push"]
  /\ work' = [work EXCEPT ![s].mode = "auto"]
  /\ UNCHANGED <<file, registry, sess, pull, history>>

\* Unchanged for a poll, dirty and not stale: push it.
PollStable(s) ==
  /\ pc[s] = "poll" /\ ~sess[s].done
  /\ disk = sess[s].last /\ disk # sess[s].orig
  /\ sess[s].dirty /\ ~sess[s].stale
  /\ pc' = [pc EXCEPT ![s] = "push"]
  /\ work' = [work EXCEPT ![s].mode = "auto"]
  /\ UNCHANGED <<file, registry, sess, pull, history>>

Watch(s) == PollDone(s) \/ PollGone(s) \/ PollChanged(s) \/ PollStable(s)

-----------------------------------------------------------------------------
(* PushEdit and StopEdit: what is on disk is the verdict.                  *)

Noticed_Flag(s) == sess[s].dirty               \* mutant: the disk is not looked at

Noticed(s) == sess[s].dirty \/ disk \notin {Gone, sess[s].last}

Ask(c, v) ==
  /\ pc[c] = "off" /\ open # 0
  /\ LET s == open
         pending == IF v = "discard" THEN sess[s].dirty ELSE Noticed(s)
         ends == v = "discard" \/ (v = "stop" /\ ~pending)
     IN  /\ sess' = [sess EXCEPT ![s] = [sess[s] EXCEPT !.dirty = pending, !.done = ends \/ @]]
         /\ pc' = [pc EXCEPT ![c] = IF ends THEN "end"
                                    ELSE IF pending THEN "push" ELSE "off"]
         /\ work' = IF ~ends /\ ~pending THEN work
                    ELSE [work EXCEPT ![c] =
                           [Idle EXCEPT !.of = s, !.mode = v, !.asked = disk]]
  /\ UNCHANGED <<file, registry, pull, history>>

\* The session leaves the registry and its file's removal is scheduled.
End(c) ==
  /\ pc[c] = "end"
  /\ open' = IF open = work[c].of THEN 0 ELSE open
  /\ timers' = timers \cup {work[c].of}
  /\ pc' = [pc EXCEPT ![c] = "off"]
  /\ work' = [work EXCEPT ![c] = Rest(c)]
  /\ UNCHANGED <<file, opened, sess, pull, history>>

-----------------------------------------------------------------------------
(* pushSession, the one push leg of the watcher and of both calls.         *)

Turn(p) == IF p \in Callers THEN "off" ELSE "poll"   \* where a push returns to

\* The S3 leg reads its guard and opens the file; the engine leg opens the
\* file and only then waits for the source's lock.
Begin(p) ==
  /\ pc[p] = "push" /\ disk # Gone
  /\ pc' = [pc EXCEPT ![p] = "put"]
  /\ work' = [work EXCEPT ![p].body = disk, ![p].newest = (disk = saves),
                          ![p].guard = sess[work[p].of].base]
  /\ UNCHANGED <<file, registry, sess, pull, history>>

\* The identity a push is held to.
Guard(p) == IF work[p].mode = "force" THEN NoGuard
            ELSE IF Leg = "s3" THEN work[p].guard
            ELSE sess[work[p].of].base

Matches_Always(p) == TRUE                      \* mutant: an unconditional write

Matches(p) == Guard(p) \in {NoGuard, remote}

\* Engines: a Stat under the source's lock, before the Create.
Check(p) ==
  /\ Leg = "remote" /\ pc[p] = "put" /\ ~Locked /\ Matches(p)
  /\ pc' = [pc EXCEPT ![p] = "create"]
  /\ UNCHANGED <<file, registry, sess, work, pull, history>>

\* The server judges a conditional PUT as it writes; an engine's Create
\* takes what comes.
Writes(p) == IF Leg = "s3" THEN pc[p] = "put" /\ Matches(p) ELSE pc[p] = "create"

Write(p) ==
  /\ Writes(p)
  /\ remote' = work[p].body
  /\ landed' = landed \cup ({work[p].body} \cap Saves)
  /\ seen' = seen \cup {work[p].body}
  /\ after' = IF p \in Sessions /\ sess[work[p].of].done
              THEN [after EXCEPT ![p] = @ + 1] ELSE after
  /\ UNCHANGED <<disk, saves, writes, registry, sess, pull, swept>>

Lands(p) ==
  /\ Write(p)
  /\ pc' = [pc EXCEPT ![p] = "answer"]
  /\ UNCHANGED work

LandsUnanswered(p) ==
  /\ LostAnswers /\ Write(p)
  /\ pc' = [pc EXCEPT ![p] = Turn(p)]
  /\ work' = [work EXCEPT ![p] = Rest(p)]

\* No budget runs out while a push waits for the source's lock.
PushFails(p) ==
  /\ pc[p] \in {"push", "put", "create"} /\ (pc[p] = "put" => ~Locked)
  /\ pc' = [pc EXCEPT ![p] = Turn(p)]
  /\ work' = [work EXCEPT ![p] = Rest(p)]
  /\ UNCHANGED <<file, registry, sess, pull, history>>

\* markEditStale.
Refused(p) ==
  /\ pc[p] = "put" /\ ~Locked /\ ~Matches(p)
  /\ sess' = [sess EXCEPT ![work[p].of].stale = TRUE]
  /\ pc' = [pc EXCEPT ![p] = Turn(p)]
  /\ work' = [work EXCEPT ![p] = Rest(p)]
  /\ UNCHANGED <<file, registry, pull, history>>

\* The new identity: the answer of a PUT names what was written, a Stat of an
\* engine what is there by then, for a session that has an identity.  An
\* answer that names none, or a Stat that fails, leaves the old one.
Found(p) == IF Leg = "s3" THEN work[p].body ELSE remote
Rebase(p) ==
  /\ pc[p] = "answer"
  /\ pc' = [pc EXCEPT ![p] = "landed"]
  /\ \/ /\ Leg = "s3" \/ sess[work[p].of].base # NoGuard
        /\ sess' = [sess EXCEPT ![work[p].of].base = Found(p)]
        /\ seen' = seen \cup {Found(p)}
     \/ UNCHANGED <<sess, seen>>
  /\ UNCHANGED <<file, registry, work, pull, landed, after, swept>>

\* An auto or explicit push settles the dirty flag, whatever was noticed
\* meanwhile; a stop ends the session.
Settle(p) ==
  /\ pc[p] = "landed"
  /\ LET m == work[p].mode
         s == work[p].of
     IN  /\ sess' = [sess EXCEPT ![s] =
              [sess[s] EXCEPT !.dirty = @ /\ m = "stop",
                              !.stale = @ /\ m \notin {"push", "force"},
                              !.done = @ \/ m = "stop"]]
         /\ swept' = IF m \in {"push", "force"} /\ sess[s].last # work[p].body
                     THEN swept \cup {sess[s].last} ELSE swept
         /\ pc' = [pc EXCEPT ![p] = IF m = "stop" THEN "end" ELSE Turn(p)]
         /\ work' = [work EXCEPT ![p] = IF m = "stop" THEN @ ELSE Rest(p)]
  /\ UNCHANGED <<file, registry, pull, landed, seen, after>>

Push(p) == \/ Begin(p) \/ Check(p) \/ Lands(p) \/ LandsUnanswered(p)
           \/ PushFails(p) \/ Refused(p) \/ Rebase(p) \/ Settle(p)

Next ==
  \/ Save \/ ForeignWrite \/ (\E s \in Sessions : Retire(s))
  \/ \E e \in Editors : Edit(e) \/ Download(e) \/ PullFails(e) \/ Head(e) \/ Register(e)
  \/ \E s \in Sessions : Watch(s)
  \/ \E c \in Callers : End(c) \/ \E v \in Verbs : Ask(c, v)
  \/ \E p \in Pushers : Push(p)

Spec == Init /\ [][Next]_vars

\* The watcher ticks for ever, a push it began always returns (its budget),
\* and an endpoint that is asked again and again answers at last.
FairSpec ==
  /\ Spec
  /\ \A s \in Sessions : /\ WF_vars(Watch(s)) /\ WF_vars(Push(s))
                         /\ SF_vars(Begin(s)) /\ SF_vars(Check(s) \/ Refused(s))
                         /\ SF_vars(Lands(s) \/ Refused(s))
  /\ \A c \in Callers : WF_vars(End(c) \/ Push(c))

-----------------------------------------------------------------------------
(* Properties.                                                             *)

\* When the guard of a push is judged.
Judged(p) == IF Leg = "s3" THEN Write(p) ELSE Check(p)

\* The lost-update guard: a push of a session that has an identity passes its
\* guard only over bytes this app pulled, wrote or took the identity of,
\* whichever pushers overlap, and a session that has an identity keeps one.
\* Bytes it took the identity of and never pulled are those of a foreign
\* write between a pull (or an engine's Create) and the request that names
\* them.
NoLostUpdate ==
  [][/\ \A p \in Pushers : Judged(p) /\ Guard(p) # NoGuard => remote \in seen
     /\ \A s \in 1..opened : sess[s].base # NoGuard => sess'[s].base # NoGuard]_vars

\* A push that opened the newest save never puts it over a later one, however
\* long it was under way (conditional PUTs only).  A forced push may, and one
\* of a session without an identity; and what a pull put in the place of the
\* newest save is older from the start.
NeverBackwards ==
  [][\A p \in Pushers :
       Write(p) /\ work[p].newest /\ Guard(p) # NoGuard /\ remote \in Saves
         => work[p].body >= remote]_vars

\* A session nobody is pushing for that reads clean, with the disk as the
\* watcher last saw it, has its save on the server: no save is forgotten, but
\* one the watcher noticed while a PushEdit was sending an older one, whose
\* answer then calls it clean.
NothingForgotten ==
  \A s \in Sessions :
    /\ open = s /\ ~sess[s].dirty /\ disk = sess[s].last /\ disk \in Saves
    /\ \A p \in Pushers : pc[p] \in {"off", "poll"} \/ work[p].of # s
    => disk \in landed \cup swept

\* Stop & upload is a save request: the session ends only when the bytes on
\* disk at the call, or later ones, have landed, unless a PushEdit had swept
\* them before.
StopSavesFirst ==
  \A c \in Callers :
    pc[c] = "end" /\ work[c].mode = "stop" /\ work[c].asked \in Saves
      => work[c].asked \in swept \/ \E b \in landed : b >= work[c].asked

\* A session that ended takes at most the one automatic push already on its
\* way; the watcher never begins another.
EndedStopsPushing == \A s \in Sessions : after[s] <= 1

==============================================================================
