--------------------------- MODULE EditSessionProofs ---------------------------
(***************************************************************************)
(* Promises of the edit sessions, for any number of sessions, calls, saves *)
(* and foreign writes, lost answers and removal timers, on both legs: a    *)
(* session that ended sends at most the push already on its way; a guarded *)
(* push never overwrites bytes this app has not seen (SeenInv); a session  *)
(* that reads clean has its save on the server unless a PushEdit swept it  *)
(* (KeepInv), and so has one that stop & upload ends (StopInv, for one     *)
(* window and one call at a time); no conditional PUT of the newest save   *)
(* goes over a later one (OrderInv).                                       *)
(***************************************************************************)
EXTENDS EditSession, TLAPS

Places == {"off", "poll", "push", "put", "create", "answer", "landed", "end"}
Modes  == {"auto", "push", "force", "stop", "discard"}
Guards == Bodies \cup {NoGuard}

TypedFile == /\ remote \in Bodies /\ disk \in Bodies \cup {Gone}
             /\ saves \in 0..MaxSaves /\ writes \in 0..MaxForeign
             /\ seen \subseteq Bodies
TypedPulls == pull \in [Editors -> [at : {"idle", "pull", "head", "register"},
                                    body : Bodies, base : Guards]]
States == [base : Guards, orig : Bodies, last : Bodies,
           dirty : BOOLEAN, stale : BOOLEAN, done : BOOLEAN]
TypedSessions ==
  /\ open \in 0..MaxSessions /\ opened \in 0..MaxSessions
  /\ open <= opened
  /\ sess \in [Sessions -> States]
Errands == [of : Nat, mode : Modes, guard : Guards, body : Bodies, newest : BOOLEAN,
            asked : Bodies \cup {Gone}]
TypedWork ==
  /\ pc \in [Pushers -> Places]
  /\ work \in [Pushers -> Errands]
  /\ after \in [Sessions -> Nat]

Typed == TypedFile /\ TypedPulls /\ TypedSessions /\ TypedWork

\* A pusher that stands anywhere works for a session that was opened, and a
\* watcher for its own.
Employed ==
  /\ \A p \in Pushers : pc[p] # "off" => work[p].of \in 1..opened
  /\ \A s \in Sessions : pc[s] # "off" => work[s].of = s

\* Every identity a push may be guarded by is of bytes this app has seen.
SeenIds   == seen \cup {NoGuard}
SeenPulls == \A e \in Editors : pull[e].at = "register" => pull[e].base \in SeenIds
SeenBases == \A s \in 1..opened : sess[s].base \in SeenIds
SeenWork  == \A p \in Pushers : pc[p] = "put" => work[p].guard \in SeenIds
Known == SeenPulls /\ SeenBases /\ SeenWork

\* What a watcher may still send for a session that ended.
Spent(s) ==
  /\ ~sess[s].done => after[s] = 0
  /\ pc[s] \in {"push", "put", "create"} => after[s] = 0
  /\ after[s] <= 1
  /\ s > opened => pc[s] = "off" /\ after[s] = 0
Bounded == \A s \in Sessions : Spent(s)

EndInv  == Typed /\ Employed /\ Bounded
SeenInv == Typed /\ Employed /\ Known

USE EditSessionAssumption

-----------------------------------------------------------------------------
(* The constants.                                                          *)

LEMMA Constants ==
  /\ 0 \in Bodies /\ Gone \notin Bodies /\ NoGuard \notin Bodies
  /\ Gone \in Int /\ Bodies \subseteq Int /\ Saves \subseteq Bodies
  /\ Sessions \subseteq Nat \ {0} /\ Sessions \cap Callers = {}
  /\ Sessions \subseteq Pushers /\ Callers \subseteq Pushers /\ Pushers = Sessions \cup Callers
BY DEF Bodies, Gone, NoGuard, Saves, Sessions, Pushers

LEMMA InitTyped == Init => Typed /\ Employed /\ Bounded /\ Known
<1> SUFFICES ASSUME Init PROVE Typed /\ Employed /\ Bounded /\ Known
  OBVIOUS
<1>1. TypedFile
  BY Constants DEF Init, TypedFile
<1>2. TypedPulls
  BY Constants DEF Init, TypedPulls, Guards, NoPull
<1>3. TypedSessions
  BY Constants DEF Init, TypedSessions, Blank, Guards, States
<1>4. TypedWork
  BY Constants DEF Init, TypedWork, Places, Modes, Guards, Idle, Errands
<1>5. Employed
  BY Constants DEF Init, Employed
<1>6. Bounded
  BY Constants DEF Init, Bounded, Spent
<1>7. Known
  BY Constants DEF Init, Known, SeenPulls, SeenBases, SeenWork, NoPull
<1> QED BY <1>1, <1>2, <1>3, <1>4, <1>5, <1>6, <1>7 DEF Typed

-----------------------------------------------------------------------------
(* Types, one lemma per part of the state.                                 *)

LEMMA AskLeaves ==
  ASSUME NEW c, NEW v, Ask(c, v) PROVE UNCHANGED <<file, registry, pull, history>>
BY DEF Ask

LEMMA FileTyped == ASSUME Typed, [Next]_vars PROVE TypedFile'
<1> USE Constants DEF Typed, TypedFile
<1>1. CASE Save
  BY <1>1 DEF Save, history, Bodies, Gone
<1>2. CASE ForeignWrite
  BY <1>2 DEF ForeignWrite, history, Bodies
<1>3. ASSUME NEW s \in Sessions, Retire(s) PROVE TypedFile'
  BY <1>3 DEF Retire, history
<1>4. ASSUME NEW e \in Editors, Edit(e) \/ PullFails(e) \/ Head(e) \/ Register(e) PROVE TypedFile'
  BY <1>4 DEF Edit, PullFails, Head, Register, file, history, NoGuard
<1>5. ASSUME NEW e \in Editors, Download(e) PROVE TypedFile'
  BY <1>5 DEF Download
<1>6. ASSUME NEW s \in Sessions, Watch(s) PROVE TypedFile'
  BY <1>6 DEF Watch, PollDone, PollGone, PollChanged, PollStable, file, history
<1>7. ASSUME NEW c \in Callers, End(c) \/ \E w \in Verbs : Ask(c, w) PROVE TypedFile'
  <2>1. UNCHANGED <<file, history>>
    BY <1>7, AskLeaves DEF End
  <2> QED BY <2>1 DEF file, history
<1>8. ASSUME NEW p \in Pushers, Begin(p) \/ Check(p) \/ PushFails(p) \/ Refused(p) \/ Settle(p)
      PROVE  TypedFile'
  BY <1>8 DEF Begin, Check, PushFails, Refused, Settle, file, history
<1>9. ASSUME NEW p \in Pushers, Lands(p) \/ LandsUnanswered(p) \/ Rebase(p) PROVE TypedFile'
  <2>1. work[p].body \in Bodies
    BY DEF TypedWork, Errands
  <2>2. CASE Write(p)
    BY <2>1, <2>2 DEF Write
  <2>3. CASE Rebase(p)
    <3>1. Found(p) \in Bodies
      BY <2>1 DEF Found
    <3> QED BY <2>3, <3>1 DEF Rebase, file
  <2> QED BY <1>9, <2>2, <2>3 DEF Lands, LandsUnanswered
<1>10. CASE UNCHANGED vars
  BY <1>10 DEF vars, file, history
<1> QED BY <1>1, <1>2, <1>3, <1>4, <1>5, <1>6, <1>7, <1>8, <1>9, <1>10 DEF Next, Push

LEMMA PullsTyped == ASSUME Typed, [Next]_vars PROVE TypedPulls'
<1> USE Constants DEF Typed, TypedFile, TypedPulls
<1>1. CASE Save \/ ForeignWrite \/ UNCHANGED vars
  BY <1>1 DEF Save, ForeignWrite, vars
<1>2. ASSUME NEW s \in Sessions, Retire(s) \/ Watch(s) PROVE TypedPulls'
  BY <1>2 DEF Retire, Watch, PollDone, PollGone, PollChanged, PollStable
<1>3. ASSUME NEW e \in Editors, Edit(e) \/ PullFails(e) \/ Register(e) PROVE TypedPulls'
  BY <1>3 DEF Edit, PullFails, Register, NoPull, Guards
<1>4. ASSUME NEW e \in Editors, Download(e) \/ Head(e) PROVE TypedPulls'
  BY <1>4 DEF Download, Head, Guards
<1>5. ASSUME NEW c \in Callers, End(c) \/ \E w \in Verbs : Ask(c, w) PROVE TypedPulls'
  <2>1. pull' = pull
    BY <1>5, AskLeaves DEF End
  <2> QED BY <2>1
<1>6. ASSUME NEW p \in Pushers, Push(p) PROVE TypedPulls'
  BY <1>6 DEF Push, Begin, Check, PushFails, Refused, Rebase, Settle, Lands, LandsUnanswered,
              Write
<1> QED BY <1>1, <1>2, <1>3, <1>4, <1>5, <1>6 DEF Next

\* Register opens the next session or does nothing.
Opens(e, s) ==
  /\ s \in Sessions /\ s = opened + 1 /\ opened' = s /\ open' = s
  /\ sess' = [sess EXCEPT ![s] = [Blank EXCEPT !.base = pull[e].base, !.orig = pull[e].body,
                                               !.last = pull[e].body]]
  /\ pc' = [pc EXCEPT ![s] = "poll"]
  /\ work' = [work EXCEPT ![s].of = s]

LEMMA Registered ==
  ASSUME Typed, NEW e \in Editors, Register(e)
  PROVE  UNCHANGED <<open, opened, sess, pc, work>> \/ \E s \in Sessions : Opens(e, s)
<1>1. CASE open # 0 \/ opened = MaxSessions
  BY <1>1 DEF Register
<1>2. CASE ~(open # 0 \/ opened = MaxSessions)
  <2>1. opened + 1 \in Sessions
    BY <1>2 DEF Typed, TypedSessions, Sessions
  <2>2. Opens(e, opened + 1)
    BY <1>2, <2>1 DEF Register, Opens
  <2> QED BY <2>1, <2>2
<1> QED BY <1>1, <1>2

LEMMA SessionsTyped == ASSUME Typed, Employed, [Next]_vars PROVE TypedSessions'
<1> USE Constants DEF Typed, TypedFile, TypedPulls, TypedSessions
<1>1. CASE Save \/ ForeignWrite \/ UNCHANGED vars
  BY <1>1 DEF Save, ForeignWrite, vars, registry
<1>2. ASSUME NEW s \in Sessions, Retire(s) \/ PollDone(s) \/ PollStable(s) PROVE TypedSessions'
  BY <1>2 DEF Retire, PollDone, PollStable, registry
<1>3. ASSUME NEW s \in Sessions, PollGone(s) \/ PollChanged(s) PROVE TypedSessions'
  BY <1>3 DEF PollGone, PollChanged, registry, States
<1>4. ASSUME NEW e \in Editors, Edit(e) \/ PullFails(e) \/ Download(e) \/ Head(e) PROVE TypedSessions'
  BY <1>4 DEF Edit, PullFails, Download, Head, registry
<1>5. ASSUME NEW e \in Editors, Register(e) PROVE TypedSessions'
  <2>1. CASE UNCHANGED <<open, opened, sess, pc, work>>
    BY <2>1
  <2>2. ASSUME NEW s \in Sessions, Opens(e, s) PROVE TypedSessions'
    <3> DEFINE r == [Blank EXCEPT !.base = pull[e].base, !.orig = pull[e].body,
                                  !.last = pull[e].body]
    <3>1. r \in States
      BY DEF Blank, States
    <3>2. sess' = [sess EXCEPT ![s] = r] /\ open' = s /\ opened' = s
      BY <2>2 DEF Opens
    <3> HIDE DEF r
    <3> QED BY <3>1, <3>2 DEF Sessions
  <2> QED BY <1>5, <2>1, <2>2, Registered
<1>6. ASSUME NEW c \in Callers, End(c) PROVE TypedSessions'
  BY <1>6 DEF End
<1>7. ASSUME NEW c \in Callers, NEW w \in Verbs, Ask(c, w) PROVE TypedSessions'
  <2>1. open \in Sessions /\ open' = open /\ opened' = opened
    BY <1>7 DEF Ask, Sessions, registry
  <2> DEFINE pending == IF w = "discard" THEN sess[open].dirty ELSE Noticed(open)
             ends == w = "discard" \/ (w = "stop" /\ ~pending)
             r == [sess[open] EXCEPT !.dirty = pending, !.done = ends \/ sess[open].done]
  <2>2. sess[open] \in States
    BY <2>1
  <2>3. sess' = [sess EXCEPT ![open] = r]
    BY <1>7 DEF Ask
  <2>4. r \in States
    <3>1. pending \in BOOLEAN
      BY <2>2 DEF Noticed, States
    <3> HIDE DEF pending
    <3> QED BY <2>2, <3>1 DEF States
  <2> HIDE DEF r
  <2>5. sess' \in [Sessions -> States]
    BY <2>1, <2>3, <2>4
  <2> QED BY <2>1, <2>5
<1>8. ASSUME NEW p \in Pushers, Begin(p) \/ Check(p) \/ PushFails(p) \/ Lands(p)
                                \/ LandsUnanswered(p)
      PROVE  TypedSessions'
  BY <1>8 DEF Begin, Check, PushFails, Lands, LandsUnanswered, Write, registry
<1>9. ASSUME NEW p \in Pushers, Refused(p) \/ Rebase(p) \/ Settle(p) PROVE TypedSessions'
  <2> DEFINE s == work[p].of
  <2>1. s \in Sessions /\ work[p].body \in Bodies
    BY <1>9 DEF Refused, Rebase, Settle, Employed, TypedWork, Errands, Sessions
  <2>2. sess[s] \in States /\ UNCHANGED <<open, opened>>
    BY <1>9, <2>1 DEF Refused, Rebase, Settle, registry
  <2>3. CASE Refused(p)
    <3>1. sess' = [sess EXCEPT ![s] = [sess[s] EXCEPT !.stale = TRUE]]
      BY <2>3 DEF Refused
    <3>2. [sess[s] EXCEPT !.stale = TRUE] \in States
      BY <2>2 DEF States
    <3> QED BY <2>1, <2>2, <3>1, <3>2
  <2>4. CASE Rebase(p)
    <3>1. Found(p) \in Guards
      BY <2>1 DEF Found, Guards
    <3>2. sess' = sess \/ sess' = [sess EXCEPT ![s] = [sess[s] EXCEPT !.base = Found(p)]]
      BY <2>4 DEF Rebase
    <3>3. [sess[s] EXCEPT !.base = Found(p)] \in States
      BY <2>2, <3>1 DEF States
    <3> QED BY <2>1, <2>2, <3>2, <3>3
  <2>5. CASE Settle(p)
    <3> DEFINE m == work[p].mode
               dirty == sess[s].dirty /\ m = "stop"
               stale == sess[s].stale /\ m \notin {"push", "force"}
               done == sess[s].done \/ m = "stop"
               r == [sess[s] EXCEPT !.dirty = dirty, !.stale = stale, !.done = done]
    <3>1. sess' = [sess EXCEPT ![s] = r]
      BY <2>5 DEF Settle
    <3>2. r \in States
      <4>1. dirty \in BOOLEAN /\ stale \in BOOLEAN /\ done \in BOOLEAN
        BY <2>2 DEF States
      <4> HIDE DEF dirty, stale, done
      <4> QED BY <2>2, <4>1 DEF States
    <3> HIDE DEF r
    <3> QED BY <2>1, <2>2, <3>1, <3>2
  <2> QED BY <1>9, <2>3, <2>4, <2>5
<1> QED BY <1>1, <1>2, <1>3, <1>4, <1>5, <1>6, <1>7, <1>8, <1>9 DEF Next, Watch, Push

\* A pusher that returns keeps whose it is.
LEMMA RestTyped ==
  ASSUME Typed, NEW p \in Pushers
  PROVE  /\ Rest(p) \in Errands /\ Rest(p).of = work[p].of /\ Rest(p).mode = "auto"
         /\ Rest(p).body = 0 /\ Rest(p).asked = Gone
<1>1. work[p].of \in Nat
  BY DEF Typed, TypedWork, Errands
<1> QED BY <1>1, Constants DEF Rest, Idle, Errands, Modes, Guards

LEMMA WorkTyped == ASSUME Typed, Employed, [Next]_vars PROVE TypedWork'
<1> USE Constants DEF Typed, TypedFile, TypedWork, Places, Errands
<1>1. CASE Save \/ ForeignWrite \/ UNCHANGED vars
  BY <1>1 DEF Save, ForeignWrite, vars, history
<1>2. ASSUME NEW s \in Sessions, Retire(s) \/ PollChanged(s) PROVE TypedWork'
  BY <1>2 DEF Retire, PollChanged, history
<1>3. ASSUME NEW s \in Sessions, PollDone(s) \/ PollGone(s) \/ PollStable(s) PROVE TypedWork'
  BY <1>3 DEF PollDone, PollGone, PollStable, Modes, history
<1>4. ASSUME NEW e \in Editors, Edit(e) \/ PullFails(e) \/ Download(e) \/ Head(e) PROVE TypedWork'
  BY <1>4 DEF Edit, PullFails, Download, Head, history
<1>5. ASSUME NEW e \in Editors, Register(e) PROVE TypedWork'
  <2>1. after' = after
    BY <1>5 DEF Register, history
  <2>2. CASE UNCHANGED <<open, opened, sess, pc, work>>
    BY <2>1, <2>2
  <2>3. ASSUME NEW s \in Sessions, Opens(e, s) PROVE TypedWork'
    BY <2>1, <2>3 DEF Opens
  <2> QED BY <1>5, <2>2, <2>3, Registered
<1>6. ASSUME NEW c \in Callers, End(c) PROVE TypedWork'
  BY <1>6, RestTyped DEF End, history
<1>7. ASSUME NEW c \in Callers, NEW w \in Verbs, Ask(c, w) PROVE TypedWork'
  <2>1. after' = after
    BY <1>7 DEF Ask, history
  <2>2. pc' \in [Pushers -> Places]
    BY <1>7 DEF Ask
  <2> DEFINE r == [Idle EXCEPT !.of = open, !.mode = w, !.asked = disk]
  <2>3. r \in Errands
    <3>1. open \in Nat /\ w \in Modes /\ disk \in Bodies \cup {Gone}
      BY DEF Modes, TypedSessions
    <3>2. NoGuard \in Guards /\ 0 \in Bodies
      BY DEF Guards
    <3> QED BY <3>1, <3>2 DEF Idle
  <2>4. work' = work \/ work' = [work EXCEPT ![c] = r]
    BY <1>7 DEF Ask
  <2> HIDE DEF r
  <2> QED BY <2>1, <2>2, <2>3, <2>4
<1>8. ASSUME NEW p \in Pushers, Check(p) \/ PushFails(p) \/ Refused(p) \/ Rebase(p) \/ Settle(p)
      PROVE  TypedWork'
  <2>1. after' = after
    BY <1>8 DEF Check, PushFails, Refused, Rebase, Settle, history
  <2>2. pc' \in [Pushers -> Places]
    BY <1>8 DEF Check, PushFails, Refused, Rebase, Settle, Turn
  <2>3. work' = work \/ work' = [work EXCEPT ![p] = Rest(p)]
    BY <1>8 DEF Check, PushFails, Refused, Rebase, Settle
  <2>4. work' \in [Pushers -> Errands]
    BY <2>3, RestTyped
  <2> QED BY <2>1, <2>2, <2>4
<1>9. ASSUME NEW p \in Pushers, Begin(p) PROVE TypedWork'
  <2>1. sess[work[p].of].base \in Guards
    BY <1>9 DEF Begin, Employed, TypedSessions, Sessions, States
  <2> QED BY <1>9, <2>1 DEF Begin, history
<1>10. ASSUME NEW p \in Pushers, Lands(p) \/ LandsUnanswered(p) PROVE TypedWork'
  <2>1. after' \in [Sessions -> Nat]
    BY <1>10 DEF Lands, LandsUnanswered, Write
  <2>2. work' = work \/ work' = [work EXCEPT ![p] = Rest(p)]
    BY <1>10 DEF Lands, LandsUnanswered
  <2>3. work' \in [Pushers -> Errands]
    BY <2>2, RestTyped
  <2> QED BY <1>10, <2>1, <2>3 DEF Lands, LandsUnanswered, Turn
<1> QED BY <1>1, <1>2, <1>3, <1>4, <1>5, <1>6, <1>7, <1>8, <1>9, <1>10 DEF Next, Watch, Push

LEMMA PushKeeps ==
  ASSUME Typed, NEW p \in Pushers, Push(p)
  PROVE  /\ pc[p] \in {"push", "put", "create", "answer", "landed"}
         /\ pc'[p] \in {"put", "create", "answer", "landed", "end", Turn(p)}
         /\ UNCHANGED <<disk, saves, registry, pull>>
         /\ \A q \in Pushers \ {p} : pc'[q] = pc[q] /\ work'[q] = work[q]
<1> USE DEF Typed, TypedWork
<1>1. /\ pc[p] \in {"push", "put", "create", "answer", "landed"}
      /\ \/ pc' = [pc EXCEPT ![p] = Turn(p)]
         \/ \E t \in {"put", "create", "answer", "landed", "end"} : pc' = [pc EXCEPT ![p] = t]
  BY DEF Push, Begin, Check, Lands, LandsUnanswered, Write, Writes, PushFails, Refused, Rebase,
         Settle
<1>2. UNCHANGED <<disk, saves, registry, pull>>
  BY DEF Push, Begin, Check, Lands, LandsUnanswered, Write, PushFails, Refused, Rebase, Settle,
         file
<1>3. \A q \in Pushers \ {p} : work'[q] = work[q]
  <2>1. work' = work \/ work' = [work EXCEPT ![p] = work'[p]]
    BY DEF Push, Begin, Check, Lands, LandsUnanswered, PushFails, Refused, Rebase, Settle
  <2> QED BY <2>1
<1> QED BY <1>1, <1>2, <1>3

LEMMA PushWork ==
  ASSUME Typed, NEW p \in Pushers, Push(p)
  PROVE  /\ \A q \in Pushers : work'[q].of = work[q].of
         /\ \A q \in Pushers : work'[q].mode \in {work[q].mode, "auto"}
         /\ \A q \in Pushers : work'[q].asked \in {work[q].asked, Gone}
         /\ pc'[p] # Turn(p) => work'[p].mode = work[p].mode /\ work'[p].asked = work[p].asked
         /\ work'[p].body \in {work[p].body, 0} \/ Begin(p)
<1> USE DEF Typed, TypedWork, Errands
<1>1. \A q \in Pushers \ {p} : work'[q] = work[q]
  BY PushKeeps
<1>2. CASE Begin(p)
  BY <1>1, <1>2 DEF Begin
<1>3. CASE work' = work
  BY <1>3
<1>4. CASE work' = [work EXCEPT ![p] = Rest(p)] /\ pc'[p] = Turn(p)
  BY <1>1, <1>4, RestTyped
<1>5. CASE Settle(p)
  BY <1>3, <1>4, <1>5 DEF Settle
<1> QED BY <1>2, <1>3, <1>4, <1>5 DEF Push, Check, Lands, LandsUnanswered, PushFails, Refused, Rebase

\* A watcher or a call takes up a session that is there, and keeps to it.
LEMMA StaysEmployed == ASSUME Typed, Employed, [Next]_vars PROVE Employed'
<1> USE Constants DEF Typed, TypedSessions, TypedWork, Employed
<1>1. CASE Save \/ ForeignWrite \/ UNCHANGED vars
  BY <1>1 DEF Save, ForeignWrite, vars, registry
<1>2. ASSUME NEW s \in Sessions, Retire(s) \/ PollChanged(s) PROVE Employed'
  BY <1>2 DEF Retire, PollChanged, registry
<1>3. ASSUME NEW s \in Sessions, PollDone(s) \/ PollGone(s) \/ PollStable(s) PROVE Employed'
  <2>1. /\ pc[s] # "off" /\ opened' = opened
        /\ \A q \in Pushers : work'[q].of = work[q].of /\ (q # s => pc'[q] = pc[q])
    BY <1>3 DEF PollDone, PollGone, PollStable, registry, Errands
  <2> QED BY <2>1
<1>4. ASSUME NEW e \in Editors, Edit(e) \/ PullFails(e) \/ Download(e) \/ Head(e) PROVE Employed'
  BY <1>4 DEF Edit, PullFails, Download, Head, registry
<1>5. ASSUME NEW e \in Editors, Register(e) PROVE Employed'
  <2>1. CASE UNCHANGED <<open, opened, sess, pc, work>>
    BY <2>1
  <2>2. ASSUME NEW s \in Sessions, Opens(e, s) PROVE Employed'
    <3>1. /\ s \in 1..opened' /\ work'[s].of = s
          /\ \A q \in Pushers \ {s} : work'[q] = work[q] /\ pc'[q] = pc[q]
      BY <2>2 DEF Opens, Sessions
    <3>2. 1..opened \subseteq 1..opened'
      BY <2>2 DEF Opens
    <3> QED BY <3>1, <3>2
  <2> QED BY <1>5, <2>1, <2>2, Registered
<1>6. ASSUME NEW c \in Callers, End(c) PROVE Employed'
  <2>1. /\ pc' = [pc EXCEPT ![c] = "off"] /\ opened' = opened
        /\ \A q \in Pushers : work'[q].of = work[q].of
    BY <1>6, RestTyped DEF End
  <2> QED BY <2>1
<1>7. ASSUME NEW c \in Callers, NEW w \in Verbs, Ask(c, w) PROVE Employed'
  <2>1. /\ pc' = [pc EXCEPT ![c] = pc'[c]] /\ opened' = opened
        /\ \A q \in Pushers \ {c} : work'[q] = work[q]
        /\ pc'[c] # "off" => work'[c].of = open
    BY <1>7 DEF Ask, Idle, registry
  <2>2. open \in 1..opened
    BY <1>7 DEF Ask
  <2> QED BY <2>1, <2>2
<1>8. ASSUME NEW p \in Pushers, Push(p) PROVE Employed'
  <2>1. /\ pc[p] # "off" /\ opened' = opened
        /\ \A q \in Pushers : work'[q].of = work[q].of /\ (q # p => pc'[q] = pc[q])
    BY <1>8, PushKeeps, PushWork DEF registry
  <2> QED BY <2>1
<1> QED BY <1>1, <1>2, <1>3, <1>4, <1>5, <1>6, <1>7, <1>8 DEF Next, Watch

LEMMA StaysTyped ==
  ASSUME Typed, Employed, [Next]_vars PROVE Typed' /\ Employed'
BY FileTyped, PullsTyped, SessionsTyped, WorkTyped, StaysEmployed DEF Typed

\* What the types leave to say: what landed was a save this app has seen, only
\* sessions have removal timers and pushers, and a call does not poll.
Fitting == /\ landed \subseteq Saves \cap seen /\ timers \subseteq Sessions
           /\ swept \subseteq Bodies
           /\ \A p \in Pushers : work[p].of <= opened
           /\ \A c \in Callers : pc[c] # "poll"

LEMMA StaysFitting ==
  ASSUME Typed, Employed, Fitting, [Next]_vars
  PROVE  Fitting'
<1> USE Constants DEF Typed, TypedSessions
<1>1. ASSUME UNCHANGED <<landed, swept, opened>>, seen \subseteq seen', timers' \subseteq Sessions,
             \A p \in Pushers : work'[p].of \in {work[p].of, open},
             \A c \in Callers : pc'[c] # "poll"
      PROVE  Fitting'
  <2>1. \A p \in Pushers : work'[p].of <= opened
    BY <1>1 DEF Fitting
  <2>2. landed' \subseteq Saves \cap seen'
    BY <1>1 DEF Fitting
  <2> QED BY <1>1, <2>1, <2>2 DEF Fitting
<1>2. CASE Save \/ ForeignWrite \/ UNCHANGED vars
  BY <1>1, <1>2 DEF Save, ForeignWrite, vars, registry, history, Fitting
<1>3. ASSUME NEW s \in Sessions, Retire(s) PROVE Fitting'
  BY <1>1, <1>3 DEF Retire, history, Fitting
<1>4. ASSUME NEW e \in Editors, Edit(e) \/ PullFails(e) \/ Head(e) PROVE Fitting'
  BY <1>1, <1>4 DEF Edit, PullFails, Head, registry, history, Fitting
<1>5. ASSUME NEW e \in Editors, Download(e) PROVE Fitting'
  BY <1>1, <1>5 DEF Download, registry, Fitting
<1>6. ASSUME NEW e \in Editors, Register(e) PROVE Fitting'
  <2>1. UNCHANGED <<landed, seen, swept, timers>>
    BY <1>6 DEF Register, history
  <2>2. ASSUME NEW t \in Sessions, Opens(e, t) PROVE Fitting'
    <3>1. opened' = opened + 1 /\ t = opened'
      BY <2>2 DEF Opens
    <3>2. /\ \A p \in Pushers : work'[p].of \in {work[p].of, t}
          /\ \A c \in Callers : pc'[c] = pc[c]
      BY <2>2 DEF Opens, TypedWork
    <3>3. \A p \in Pushers : work'[p].of <= opened'
      <4>1. \A p \in Pushers : work[p].of \in Nat
        BY DEF TypedWork, Errands
      <4> QED BY <3>1, <3>2, <4>1 DEF Fitting
    <3>4. /\ landed' \subseteq Saves \cap seen' /\ timers' \subseteq Sessions
          /\ swept' \subseteq Bodies
      BY <2>1 DEF Fitting
    <3> QED BY <3>2, <3>3, <3>4 DEF Fitting
  <2>3. CASE UNCHANGED <<open, opened, sess, pc, work>>
    BY <1>1, <2>1, <2>3 DEF Fitting
  <2> QED BY <1>6, <2>2, <2>3, Registered
<1>7. ASSUME NEW s \in Sessions, Watch(s) PROVE Fitting'
  <2>1. UNCHANGED <<landed, seen, swept, opened, timers>>
    BY <1>7 DEF Watch, PollDone, PollGone, PollChanged, PollStable, registry, history
  <2>2. \A p \in Pushers : work'[p].of = work[p].of
    BY <1>7 DEF Watch, PollDone, PollGone, PollChanged, PollStable, TypedWork, Errands
  <2>3. \A c \in Callers : pc'[c] = pc[c]
    <3>1. \A c \in Callers : c # s
      OBVIOUS
    <3> QED BY <1>7, <3>1 DEF Watch, PollDone, PollGone, PollChanged, PollStable, TypedWork
  <2> QED BY <1>1, <2>1, <2>2, <2>3 DEF Fitting
<1>8. ASSUME NEW c \in Callers, End(c) PROVE Fitting'
  <2>1. work[c].of \in Sessions
    BY <1>8 DEF End, Employed, Sessions
  <2>2. \A d \in Callers : pc'[d] \in {pc[d], "off"}
    BY <1>8 DEF End, TypedWork
  <2>3. \A p \in Pushers : work'[p].of = work[p].of
    BY <1>8, RestTyped DEF End, TypedWork
  <2> QED BY <1>1, <1>8, <2>1, <2>2, <2>3 DEF End, history, Fitting
<1>9. ASSUME NEW c \in Callers, NEW v \in Verbs, Ask(c, v) PROVE Fitting'
  <2>1. \A p \in Pushers : work'[p].of \in {work[p].of, open}
    BY <1>9 DEF Ask, Idle, TypedWork
  <2>2. \A d \in Callers : pc'[d] \in {pc[d], "end", "push", "off"}
    BY <1>9 DEF Ask, TypedWork
  <2> QED BY <1>1, <1>9, <2>1, <2>2 DEF Ask, registry, history, Fitting
<1>10. ASSUME NEW p \in Pushers, Push(p) PROVE Fitting'
  <2>1. UNCHANGED <<opened, timers>>
    BY <1>10, PushKeeps DEF registry
  <2>2. \A q \in Pushers : work'[q].of = work[q].of
    BY <1>10, PushWork
  <2>3. \A c \in Callers : pc'[c] # "poll"
    <3>1. p \in Callers => Turn(p) = "off"
      BY DEF Turn
    <3> QED BY <1>10, <3>1, PushKeeps DEF Fitting
  <2>4. landed' \subseteq Saves \cap seen' /\ swept' \subseteq Bodies
    <3>1. CASE Write(p)
      BY <3>1 DEF Write, Fitting
    <3>2. CASE Rebase(p)
      BY <3>2 DEF Rebase, Fitting
    <3>3. CASE Settle(p)
      <4>1. work[p].of \in Sessions /\ sess[work[p].of].last \in Bodies
        BY <3>3 DEF Settle, Employed, Sessions, States
      <4> QED BY <3>3, <4>1 DEF Settle, Fitting
    <3>4. CASE UNCHANGED history
      BY <3>4 DEF history, Fitting
    <3> QED BY <1>10, <3>1, <3>2, <3>3, <3>4
            DEF Push, Begin, Check, PushFails, Refused, Lands, LandsUnanswered
  <2> QED BY <2>1, <2>2, <2>3, <2>4 DEF Fitting
<1> QED BY <1>2, <1>3, <1>4, <1>5, <1>6, <1>7, <1>8, <1>9, <1>10 DEF Next

\* The types of the sessions, their pushers and the pulls, for any number of
\* them and on both legs.
THEOREM EditTypeCorrect == Spec => []TypeOK
<1>1. Init => Fitting
  BY Constants DEF Init, Idle, Fitting
<1>2. Typed /\ Employed /\ Fitting /\ [Next]_vars => Typed' /\ Employed' /\ Fitting'
  BY StaysTyped, StaysFitting
<1>3. Typed /\ Employed /\ Fitting => TypeOK
  <2> SUFFICES ASSUME Typed, Employed, Fitting PROVE TypeOK
    OBVIOUS
  <2>1. /\ remote \in Bodies /\ disk \in Bodies \cup {Gone}
        /\ saves \in 0..MaxSaves /\ writes \in 0..MaxForeign
        /\ open \in 0..opened /\ opened \in 0..MaxSessions
    BY DEF Typed, TypedFile, TypedSessions
  <2>2. /\ sess \in [Sessions -> [base : Bodies \cup {NoGuard}, orig : Bodies, last : Bodies,
                                  dirty : BOOLEAN, stale : BOOLEAN, done : BOOLEAN]]
        /\ pull \in [Editors -> [at : {"idle", "pull", "head", "register"},
                                 body : Bodies, base : Bodies \cup {NoGuard}]]
    BY DEF Typed, TypedSessions, TypedPulls, States, Guards
  <2>3. /\ pc \in [Pushers -> {"off", "poll", "push", "put", "create", "answer", "landed", "end"}]
        /\ after \in [Sessions -> Nat]
    BY DEF Typed, TypedWork, Places
  <2>4. ASSUME NEW p \in Pushers
        PROVE  /\ work[p].of \in 0..opened /\ (pc[p] # "off" => work[p].of # 0)
               /\ work[p].mode \in {"auto", "push", "force", "stop", "discard"}
               /\ work[p].guard \in Bodies \cup {NoGuard} /\ work[p].body \in Bodies
               /\ p \in Callers => pc[p] # "poll"
    <3>1. work[p] \in Errands
      BY DEF Typed, TypedWork
    <3>2. work[p].of \in 0..opened
      <4>1. work[p].of \in Nat /\ work[p].of <= opened
        BY <3>1 DEF Errands, Fitting
      <4> QED BY <2>1, <4>1
    <3>3. pc[p] # "off" => work[p].of # 0
      BY DEF Employed
    <3> QED BY <3>1, <3>2, <3>3 DEF Errands, Modes, Guards, Fitting
  <2>5. /\ landed \subseteq Saves /\ landed \subseteq seen /\ seen \subseteq Bodies
        /\ timers \subseteq Sessions /\ swept \subseteq Bodies
    BY DEF Typed, TypedFile, Fitting
  <2> QED BY <2>1, <2>2, <2>3, <2>4, <2>5 DEF TypeOK
<1> QED BY <1>1, <1>2, <1>3, InitTyped, PTL DEF Spec

LEMMA PushSession ==
  ASSUME Typed, Employed, NEW p \in Pushers, Push(p)
  PROVE  /\ work[p].of \in 1..opened /\ work[p].of \in Sessions
         /\ \A s \in Sessions \ {work[p].of} : sess'[s] = sess[s]
         /\ \A s \in Sessions : sess'[s].last = sess[s].last
         /\ \A s \in Sessions : sess[s].done => sess'[s].done
         /\ \A s \in Sessions : sess'[s].dirty = sess[s].dirty \/ Settle(p)
<1> USE Constants
<1>1. work[p].of \in 1..opened /\ work[p].of \in Sessions
  BY PushKeeps DEF Employed, Sessions, Typed, TypedSessions
<1> DEFINE of == work[p].of
<1>2. of \in Sessions /\ sess[of] \in States /\ sess \in [Sessions -> States]
  BY <1>1 DEF Typed, TypedSessions
<1> HIDE DEF of
<1>3. CASE sess' = sess
  BY <1>1, <1>3
<1>4. CASE Refused(p)
  <2>1. sess' = [sess EXCEPT ![of] = [sess[of] EXCEPT !.stale = TRUE]]
    BY <1>4 DEF Refused, of
  <2> QED BY <1>1, <1>2, <2>1 DEF States, of
<1>5. CASE Settle(p)
  <2>1. sess' = [sess EXCEPT ![of] = sess'[of]]
        /\ sess'[of].last = sess[of].last /\ (sess[of].done => sess'[of].done)
    BY <1>2, <1>5 DEF Settle, States, of
  <2> QED BY <1>1, <1>2, <1>5, <2>1 DEF of
<1>6. CASE sess' = [sess EXCEPT ![of].base = Found(p)]
  BY <1>1, <1>2, <1>6 DEF States, of
<1> QED BY <1>3, <1>4, <1>5, <1>6
        DEF Push, Begin, Check, PushFails, Lands, LandsUnanswered, Write, Rebase, of

\* Identities: a push changes only its own session's, to what it finds there.
LEMMA PushRebases ==
  ASSUME Typed, Employed, NEW p \in Pushers, Push(p), NEW s \in Sessions
  PROVE  sess'[s].base = sess[s].base \/ (Rebase(p) /\ sess'[s].base = Found(p))
<1>1. work[p].of \in Sessions /\ sess \in [Sessions -> States]
  BY PushSession DEF Typed, TypedSessions
<1>2. CASE Settle(p)
  BY <1>1, <1>2 DEF Settle, States
<1>3. CASE Refused(p)
  BY <1>1, <1>3 DEF Refused, States
<1>4. CASE Rebase(p)
  BY <1>1, <1>4 DEF Rebase, States
<1>5. CASE sess' = sess
  BY <1>5
<1> QED BY <1>2, <1>3, <1>4, <1>5
        DEF Push, Begin, Check, PushFails, Lands, LandsUnanswered, Write

-----------------------------------------------------------------------------
(* A session that ended.                                                   *)

\* A step of a push costs the watcher of an ended session its turn.
LEMMA PushSpends ==
  ASSUME Typed, Employed, Bounded, NEW p \in Pushers, Push(p)
  PROVE  Bounded'
<1> USE Constants DEF Typed, TypedWork, TypedSessions
<1>1. /\ pc[p] \in {"push", "put", "create", "answer", "landed"} /\ opened' = opened
      /\ \A q \in Pushers \ {p} : pc'[q] = pc[q]
  BY PushKeeps DEF registry
<1>3. \A s \in Sessions : sess[s].done => sess'[s].done
  BY PushSession
<1>4. \A s \in Sessions : s # p => after'[s] = after[s]
  BY DEF Push, Begin, Check, PushFails, Refused, Rebase, Settle, Lands, LandsUnanswered, Write,
         history
<1>5. ASSUME NEW s \in Sessions, s # p PROVE Spent(s)'
  BY <1>1, <1>3, <1>4, <1>5 DEF Bounded, Spent
<1>6. ASSUME p \in Sessions PROVE Spent(p)'
  <2>1. work[p].of = p /\ p <= opened
    BY <1>1, <1>6 DEF Bounded, Spent, Employed
  <2>2. CASE Begin(p) \/ Check(p)
    BY <1>6, <2>1, <2>2, <1>1, <1>3 DEF Begin, Check, history, Bounded, Spent
  <2>3. CASE PushFails(p) \/ Refused(p) \/ Rebase(p) \/ Settle(p)
    <3>1. after' = after /\ pc'[p] \in {"poll", "landed", "end"}
      BY <1>6, <2>3 DEF PushFails, Refused, Rebase, Settle, Turn, history
    <3> QED BY <1>6, <2>1, <3>1, <1>1, <1>3 DEF Bounded, Spent
  <2>4. CASE Lands(p) \/ LandsUnanswered(p)
    <3>1. pc[p] \in {"put", "create"} /\ pc'[p] \in {"poll", "answer"} /\ after[p] = 0
      BY <1>6, <2>4 DEF Lands, LandsUnanswered, Write, Writes, Turn, Bounded, Spent
    <3>2. after'[p] = IF sess[p].done THEN 1 ELSE 0
      BY <1>6, <2>1, <2>4, <3>1 DEF Lands, LandsUnanswered, Write
    <3> QED BY <1>6, <2>1, <3>1, <3>2, <1>1, <1>3 DEF Bounded, Spent
  <2> QED BY <2>2, <2>3, <2>4 DEF Push
<1> QED BY <1>5, <1>6 DEF Bounded

LEMMA StaysBounded == ASSUME Typed, Employed, Bounded, [Next]_vars PROVE Bounded'
<1> USE Constants DEF Typed, TypedWork, TypedSessions
<1>1. CASE Save \/ ForeignWrite \/ UNCHANGED vars
  BY <1>1 DEF Save, ForeignWrite, vars, registry, history, Bounded, Spent
<1>2. ASSUME NEW t \in Sessions, Retire(t) PROVE Bounded'
  BY <1>2 DEF Retire, history, Bounded, Spent
<1>3. ASSUME NEW t \in Sessions, PollDone(t) \/ PollGone(t) PROVE Bounded'
  BY <1>3 DEF PollDone, PollGone, registry, history, Bounded, Spent
<1>4. ASSUME NEW t \in Sessions, PollChanged(t) PROVE Bounded'
  <2>1. /\ pc' = pc /\ after' = after /\ opened' = opened
        /\ \A s \in Sessions : sess'[s].done = sess[s].done
    BY <1>4 DEF PollChanged, registry, history, States
  <2> QED BY <2>1 DEF Bounded, Spent
<1>5. ASSUME NEW t \in Sessions, PollStable(t) PROVE Bounded'
  BY <1>5 DEF PollStable, registry, history, Bounded, Spent
<1>6. ASSUME NEW e \in Editors, Edit(e) \/ PullFails(e) \/ Download(e) \/ Head(e) PROVE Bounded'
  BY <1>6 DEF Edit, PullFails, Download, Head, registry, history, Bounded, Spent
<1>7. ASSUME NEW e \in Editors, Register(e) PROVE Bounded'
  <2>1. after' = after
    BY <1>7 DEF Register, history
  <2>2. CASE UNCHANGED <<open, opened, sess, pc, work>>
    BY <2>1, <2>2 DEF Bounded, Spent
  <2>3. ASSUME NEW t \in Sessions, Opens(e, t) PROVE Bounded'
    <3>1. /\ t = opened + 1 /\ opened' = t /\ pc'[t] = "poll" /\ after[t] = 0
          /\ \A s \in Sessions \ {t} : sess'[s] = sess[s] /\ pc'[s] = pc[s]
      BY <2>3 DEF Opens, Bounded, Spent
    <3>2. Spent(t)'
      BY <2>1, <3>1 DEF Spent
    <3>3. ASSUME NEW s \in Sessions, s # t PROVE Spent(s)'
      BY <2>1, <3>1, <3>3 DEF Bounded, Spent
    <3> QED BY <3>2, <3>3 DEF Bounded
  <2> QED BY <1>7, <2>2, <2>3, Registered
<1>8. ASSUME NEW c \in Callers, End(c) PROVE Bounded'
  BY <1>8 DEF End, history, Bounded, Spent
<1>9. ASSUME NEW c \in Callers, NEW w \in Verbs, Ask(c, w) PROVE Bounded'
  <2>1. open \in Sessions /\ sess[open] \in States
    BY <1>9 DEF Ask, Sessions
  <2>2. \A s \in Sessions : pc'[s] = pc[s] /\ (sess[s].done => sess'[s].done)
    BY <1>9, <2>1 DEF Ask, States
  <2>3. after' = after /\ opened' = opened
    BY <1>9 DEF Ask, registry, history
  <2> QED BY <2>2, <2>3 DEF Bounded, Spent
<1>10. ASSUME NEW p \in Pushers, Push(p) PROVE Bounded'
  BY <1>10, PushSpends
<1> QED BY <1>1, <1>2, <1>3, <1>4, <1>5, <1>6, <1>7, <1>8, <1>9, <1>10 DEF Next, Watch

\* A session that was stopped or discarded sends at most the push that its
\* watcher was already sending, however polls, calls and answers interleave.
THEOREM EndedSessionStops == Spec => []EndedStopsPushing
<1>1. Init => EndInv
  BY InitTyped DEF EndInv
<1>2. EndInv /\ [Next]_vars => EndInv'
  BY StaysTyped, StaysBounded DEF EndInv
<1>3. EndInv => EndedStopsPushing
  BY DEF EndInv, Bounded, Spent, EndedStopsPushing
<1> QED BY <1>1, <1>2, <1>3, PTL DEF Spec

-----------------------------------------------------------------------------
(* What the steps of a call and a watcher leave alone.                     *)

LEMMA AskKeeps ==
  ASSUME Typed, NEW c \in Callers, NEW v \in Verbs, Ask(c, v)
  PROVE  /\ UNCHANGED <<disk, saves, remote, landed, seen, open, opened, pull>>
         /\ pc[c] = "off" /\ open \in Sessions /\ open \in 1..opened
         /\ \A q \in Pushers \ {c} : pc'[q] = pc[q] /\ work'[q] = work[q]
         /\ \/ work'[c] = work[c] /\ pc'[c] = "off"
            \/ /\ work'[c].of = open /\ work'[c].mode = v /\ work'[c].asked = disk
               /\ work'[c].body = 0
BY Constants DEF Ask, Idle, Errands, Sessions, Typed, TypedWork, TypedSessions, file, registry, history

\* What a call finds, and whether it ends the session at once.
Pending(v) == IF v = "discard" THEN sess[open].dirty ELSE Noticed(open)
EndsNow(v) == v = "discard" \/ (v = "stop" /\ ~Pending(v))

LEMMA AskTurn ==
  ASSUME Typed, NEW c \in Callers, NEW v \in Verbs, Ask(c, v)
  PROVE  pc'[c] = IF EndsNow(v) THEN "end" ELSE IF Pending(v) THEN "push" ELSE "off"
BY Constants DEF Ask, EndsNow, Pending, Typed, TypedWork

LEMMA AskSession ==
  ASSUME Typed, NEW c \in Callers, NEW v \in Verbs, Ask(c, v)
  PROVE  /\ \A s \in Sessions \ {open} : sess'[s] = sess[s]
         /\ \A s \in Sessions : sess'[s].base = sess[s].base /\ sess'[s].last = sess[s].last
         /\ \A s \in Sessions : sess[s].done => sess'[s].done
         /\ sess'[open].dirty = Pending(v)
         /\ EndsNow(v) => sess'[open].done
<1> DEFINE r == [sess[open] EXCEPT !.dirty = Pending(v), !.done = EndsNow(v) \/ sess[open].done]
<1>1. sess' = [sess EXCEPT ![open] = r]
  BY DEF Ask, EndsNow, Pending
<1>2. open \in Sessions /\ sess \in [Sessions -> States]
  BY AskKeeps DEF Typed, TypedSessions
<1>3. /\ r.base = sess[open].base /\ r.last = sess[open].last
      /\ r.dirty = Pending(v) /\ r.done = (EndsNow(v) \/ sess[open].done)
  BY <1>2 DEF States
<1> HIDE DEF r
<1> QED BY <1>1, <1>2, <1>3

LEMMA WatchKeeps ==
  ASSUME Typed, NEW s \in Sessions, Watch(s)
  PROVE  /\ UNCHANGED <<disk, saves, remote, landed, seen, opened, pull>>
         /\ pc[s] = "poll" /\ pc'[s] \in {"off", "poll", "push"}
         /\ \A q \in Pushers \ {s} : pc'[q] = pc[q] /\ work'[q] = work[q]
BY Constants DEF Watch, PollDone, PollGone, PollChanged, PollStable, Typed, TypedWork,
                 file, registry, history

LEMMA WatchWork ==
  ASSUME Typed, NEW s \in Sessions, Watch(s), NEW q \in Pushers
  PROVE  /\ work'[q].of = work[q].of /\ work'[q].body = work[q].body
         /\ work'[q].guard = work[q].guard /\ work'[q].asked = work[q].asked
         /\ work'[q].mode \in {work[q].mode, "auto"}
BY Constants DEF Watch, PollDone, PollGone, PollChanged, PollStable, Typed, TypedWork, Errands

LEMMA WatchSession ==
  ASSUME Typed, NEW s \in Sessions, Watch(s)
  PROVE  /\ \A t \in Sessions \ {s} : sess'[t] = sess[t]
         /\ \A t \in Sessions : sess'[t].base = sess[t].base /\ sess'[t].done = sess[t].done
         /\ sess' = sess \/ PollChanged(s)
<1>1. CASE PollChanged(s)
  BY <1>1 DEF PollChanged, States, Typed, TypedSessions
<1>2. CASE PollDone(s) \/ PollGone(s) \/ PollStable(s)
  BY <1>2 DEF PollDone, PollGone, PollStable
<1> QED BY <1>1, <1>2 DEF Watch

-----------------------------------------------------------------------------
(* Foreign writes.                                                         *)

LEMMA StaysKnown ==
  ASSUME Typed, Employed, Known, [Next]_vars
  PROVE  Known'
<1> USE Constants DEF Typed, TypedWork, Errands, TypedSessions, TypedPulls
<1>a. ASSUME UNCHANGED <<opened, pull>>, seen \subseteq seen',
             \A t \in 1..opened : sess'[t].base \in SeenIds',
             \A q \in Pushers : pc'[q] = "put" => work'[q].guard \in SeenIds'
      PROVE  Known'
  BY <1>a DEF Known, SeenPulls, SeenBases, SeenWork, SeenIds
<1>b. /\ \A t \in 1..opened : sess[t].base \in SeenIds
      /\ \A q \in Pushers : pc[q] = "put" => work[q].guard \in SeenIds
  BY DEF Known, SeenBases, SeenWork
<1>1. CASE Save \/ ForeignWrite \/ UNCHANGED vars
  BY <1>a, <1>b, <1>1 DEF Save, ForeignWrite, vars, registry, history, SeenIds
<1>3. ASSUME NEW s \in Sessions, Retire(s) PROVE Known'
  BY <1>a, <1>b, <1>3 DEF Retire, history, SeenIds
<1>4. ASSUME NEW s \in Sessions, Watch(s) PROVE Known'
  <2>1. UNCHANGED <<pull, seen, opened>> /\ \A t \in Sessions : sess'[t].base = sess[t].base
    BY <1>4, WatchKeeps, WatchSession
  <2>2. \A q \in Pushers : pc'[q] = "put" => pc[q] = "put" /\ work'[q].guard = work[q].guard
    BY <1>4, WatchKeeps, WatchWork
  <2>3. \A t \in 1..opened : t \in Sessions
    BY DEF Sessions
  <2> QED BY <1>a, <1>b, <2>1, <2>2, <2>3 DEF SeenIds
<1>5. ASSUME NEW e \in Editors, Edit(e) \/ PullFails(e) \/ Download(e) PROVE Known'
  <2>1. /\ UNCHANGED <<opened, sess, pc, work>> /\ seen \subseteq seen'
        /\ \A f \in Editors : pull'[f].at = "register" => pull'[f] = pull[f]
    BY <1>5 DEF Edit, PullFails, Download, registry, history
  <2> QED BY <2>1 DEF Known, SeenPulls, SeenBases, SeenWork, SeenIds
<1>7. ASSUME NEW e \in Editors, Head(e) PROVE Known'
  <2>1. PICK id \in {remote, NoGuard} :
          /\ pull' = [pull EXCEPT ![e].at = "register", ![e].base = id]
          /\ seen' = seen \cup ({id} \ {NoGuard})
    BY <1>7 DEF Head
  <2>2. UNCHANGED <<opened, sess, pc, work>>
    BY <1>7 DEF Head, registry
  <2>3. pull'[e].base \in SeenIds' /\ \A f \in Editors \ {e} : pull'[f] = pull[f]
    BY <2>1 DEF SeenIds
  <2> QED BY <2>1, <2>2, <2>3 DEF Known, SeenPulls, SeenBases, SeenWork, SeenIds
<1>8. ASSUME NEW e \in Editors, Register(e) PROVE Known'
  <2>1. /\ seen' = seen /\ pull[e].base \in SeenIds
        /\ \A f \in Editors : pull'[f].at = "register" => pull'[f] = pull[f]
    BY <1>8 DEF Register, history, NoPull, Known, SeenPulls
  <2>2. SeenPulls'
    BY <2>1 DEF Known, SeenPulls, SeenIds
  <2>3. CASE UNCHANGED <<open, opened, sess, pc, work>>
    BY <2>1, <2>2, <2>3 DEF Known, SeenBases, SeenWork, SeenIds
  <2>4. ASSUME NEW s \in Sessions, Opens(e, s) PROVE Known'
    <3>1. /\ sess'[s].base = pull[e].base
          /\ \A t \in Sessions \ {s} : sess'[t] = sess[t]
      BY <2>4 DEF Opens, Blank
    <3>2. 1..opened' \subseteq (1..opened) \cup {s} /\ 1..opened' \subseteq Sessions
      BY <2>4 DEF Opens, Sessions
    <3>3. SeenBases'
      BY <2>1, <3>1, <3>2 DEF Known, SeenBases, SeenIds
    <3>4. \A q \in Pushers : work'[q].guard = work[q].guard /\ pc'[q] \in {"poll", pc[q]}
      BY <2>4 DEF Opens
    <3>5. SeenWork'
      BY <2>1, <3>4 DEF Known, SeenWork, SeenIds
    <3> QED BY <2>2, <3>3, <3>5 DEF Known
  <2> QED BY <1>8, <2>3, <2>4, Registered
<1>9. ASSUME NEW c \in Callers, End(c) PROVE Known'
  <2>1. /\ UNCHANGED <<opened, sess, pull, seen>> /\ pc'[c] = "off"
        /\ \A q \in Pushers \ {c} : pc'[q] = pc[q] /\ work'[q] = work[q]
    BY <1>9 DEF End, history
  <2> QED BY <1>a, <1>b, <2>1 DEF SeenIds
<1>10. ASSUME NEW c \in Callers, NEW w \in Verbs, Ask(c, w) PROVE Known'
  <2>1. /\ UNCHANGED <<pull, seen, opened>> /\ \A t \in Sessions : sess'[t].base = sess[t].base
        /\ \A q \in Pushers \ {c} : pc'[q] = pc[q] /\ work'[q] = work[q]
    BY <1>10, AskKeeps, AskSession
  <2>2. pc'[c] # "put"
    BY <1>10, AskTurn
  <2>3. \A t \in 1..opened : t \in Sessions
    BY DEF Sessions
  <2> QED BY <1>a, <1>b, <2>1, <2>2, <2>3 DEF SeenIds
<1>11. ASSUME NEW p \in Pushers, Push(p) PROVE Known'
  <2>1. /\ UNCHANGED <<pull, opened>>
        /\ \A q \in Pushers \ {p} : pc'[q] = pc[q] /\ work'[q] = work[q]
    BY <1>11, PushKeeps DEF registry
  <2>2. seen \subseteq seen' /\ (Rebase(p) => sess' = sess \/ Found(p) \in seen')
    BY <1>11 DEF Push, Begin, Check, PushFails, Refused, Rebase, Settle, Lands,
                 LandsUnanswered, Write, history
  <2>3. \A t \in 1..opened : sess'[t].base \in SeenIds'
    <3>1. \A t \in 1..opened : t \in Sessions
      BY DEF Sessions
    <3> QED BY <1>b, <1>11, <2>2, <3>1, PushRebases DEF SeenIds
  <2>4. pc'[p] = "put" => work'[p].guard \in SeenIds'
    <3>1. CASE Begin(p)
      <4>1. work'[p].guard = sess[work[p].of].base /\ work[p].of \in 1..opened
        BY <1>11, <3>1, PushSession DEF Begin
      <4> QED BY <1>b, <2>2, <4>1 DEF SeenIds
    <3>2. CASE ~Begin(p)
      BY <1>11, <3>2 DEF Push, Check, PushFails, Refused, Rebase, Settle, Lands,
                         LandsUnanswered, Turn
    <3> QED BY <3>1, <3>2
  <2> QED BY <1>a, <1>b, <2>1, <2>2, <2>3, <2>4 DEF SeenIds
<1> QED BY <1>1, <1>3, <1>4, <1>5, <1>7, <1>8, <1>9, <1>10, <1>11 DEF Next

\* A session that has an identity does not lose it.
LEMMA KeepsIdentity ==
  ASSUME Typed, Employed, [Next]_vars, NEW s \in 1..opened, sess[s].base # NoGuard
  PROVE  sess'[s].base # NoGuard
<1> USE Constants DEF Typed, TypedSessions
<1>0. s \in Sessions
  BY DEF Sessions
<1>1. ASSUME sess'[s].base = sess[s].base PROVE sess'[s].base # NoGuard
  BY <1>1
<1>2. CASE Save \/ ForeignWrite \/ UNCHANGED vars
  BY <1>2 DEF Save, ForeignWrite, vars
<1>3. ASSUME NEW t \in Sessions, Retire(t) \/ Watch(t) PROVE sess'[s].base = sess[s].base
  BY <1>0, <1>3, WatchSession DEF Retire
<1>4. ASSUME NEW e \in Editors, Edit(e) \/ PullFails(e) \/ Download(e) \/ Head(e)
      PROVE  sess'[s].base = sess[s].base
  BY <1>4 DEF Edit, PullFails, Download, Head
<1>5. ASSUME NEW e \in Editors, Register(e) PROVE sess'[s].base = sess[s].base
  <2>1. ASSUME NEW t \in Sessions, Opens(e, t) PROVE sess'[s] = sess[s]
    BY <1>0, <2>1 DEF Opens
  <2> QED BY <1>5, <2>1, Registered
<1>6. ASSUME NEW c \in Callers, End(c) \/ \E v \in Verbs : Ask(c, v)
      PROVE  sess'[s].base = sess[s].base
  BY <1>0, <1>6, AskSession DEF End
<1>7. ASSUME NEW p \in Pushers, Push(p) PROVE sess'[s].base # NoGuard
  <2>1. Found(p) \in Bodies
    BY DEF Found, TypedFile, TypedWork, Errands
  <2> QED BY <1>0, <1>7, <2>1, PushRebases
<1> QED BY <1>1, <1>2, <1>3, <1>4, <1>5, <1>6, <1>7 DEF Next

\* A push of a session that has an identity passes its guard only over bytes
\* this app pulled, wrote or took the identity of, and no session loses one,
\* on both legs and whichever pulls, pushers and foreign writes overlap.
THEOREM UpdatesAreSeen == Spec => NoLostUpdate
<1>1. Init => SeenInv
  BY InitTyped DEF SeenInv
<1>2. SeenInv /\ [Next]_vars => SeenInv'
  BY StaysTyped, StaysKnown DEF SeenInv
<1>3. ASSUME SeenInv, NEW p \in Pushers, Judged(p), Guard(p) # NoGuard PROVE remote \in seen
  <2>1. pc[p] = "put" /\ Guard(p) = remote
    BY <1>3 DEF Judged, Check, Write, Writes, Matches
  <2>2. Guard(p) \in SeenIds
    <3>1. work[p].guard \in SeenIds /\ sess[work[p].of].base \in SeenIds
      BY <1>3, <2>1 DEF SeenInv, Known, SeenWork, SeenBases, Employed
    <3> QED BY <3>1 DEF Guard, SeenIds
  <2> QED BY <1>3, <2>1, <2>2 DEF SeenIds
<1>4. SeenInv /\ [Next]_vars =>
        [/\ \A p \in Pushers : Judged(p) /\ Guard(p) # NoGuard => remote \in seen
         /\ \A s \in 1..opened : sess[s].base # NoGuard => sess'[s].base # NoGuard]_vars
  BY <1>3, KeepsIdentity DEF SeenInv
<1> QED BY <1>1, <1>2, <1>4, PTL DEF Spec, NoLostUpdate

-----------------------------------------------------------------------------
(* No save is forgotten.                                                   *)

\* Bytes that can be told to be old: no save, or one that was made; and safe:
\* no save, or one that landed.
Past(n, b) == b \in Bodies /\ (b \in Saves => b <= n)
Safe(L, b) == b \in Bodies /\ (b \in Saves => b \in L)

\* Whatever is held anywhere was made before; what was pulled is safe.
Dated ==
  /\ landed \subseteq 1..saves
  /\ Safe(landed, remote) /\ (disk = Gone \/ Past(saves, disk))
  /\ \A e \in Editors : Safe(landed, pull[e].body)
  /\ \A s \in Sessions : Past(saves, sess[s].last)
  /\ \A p \in Pushers : /\ Past(saves, work[p].body)
                        /\ work[p].asked = Gone \/ Past(saves, work[p].asked)
                        /\ pc[p] \in {"answer", "landed"} => Safe(landed, work[p].body)

\* Watchers push on their own behalf, calls for what was asked.
Pushing == {"push", "put", "create", "answer", "landed"}
Manned ==
  /\ \A s \in Sessions : work[s].mode = "auto"
  /\ \A c \in Callers : pc[c] \in Pushing => work[c].mode \in {"push", "force", "stop"}

\* The disk as the watcher last saw it is on the server, or was swept: so in a
\* session that is clean, and in one whose watcher is about to make it so.
Kept == landed \cup swept
OnServer(s) == disk = sess[s].last /\ disk \in Saves => disk \in Kept
Remembered(s) ==
  /\ ~sess[s].dirty => OnServer(s)
  /\ pc[s] \in {"put", "create"} => work[s].body = sess[s].last \/ OnServer(s)
  /\ pc[s] \in {"answer", "landed"} => OnServer(s)
Remembers == \A s \in Sessions : Remembered(s)

KeepInv == Typed /\ Employed /\ Dated /\ Manned /\ Remembers

LEMMA SafeIsPast == ASSUME Typed, Dated, NEW b, Safe(landed, b) PROVE Past(saves, b)
<1>1. saves \in Nat /\ \A c \in landed : c \in Int /\ c <= saves
  BY DEF Typed, TypedFile, Dated
<1>2. b \in Bodies /\ (b \in Saves => b \in landed)
  BY DEF Safe
<1> QED BY <1>1, <1>2 DEF Past

\* What is old, safe or kept stays so.
LEMMA TimePasses ==
  ASSUME Typed, Employed, [Next]_vars
  PROVE  /\ \A b : Past(saves, b) => Past(saves', b)
         /\ \A b : Safe(landed, b) => Safe(landed', b)
         /\ landed \subseteq landed' /\ swept \subseteq swept' /\ Kept \subseteq Kept'
         /\ saves \in Int /\ saves' \in Int /\ saves <= saves'
<1>1. saves' \in {saves, saves + 1} /\ landed \subseteq landed' /\ swept \subseteq swept'
  <2>1. CASE Save \/ ForeignWrite \/ UNCHANGED vars
    BY <2>1 DEF Save, ForeignWrite, vars, file, history
  <2>2. ASSUME NEW s \in Sessions, Retire(s) \/ Watch(s)
        PROVE  saves' = saves /\ landed' = landed /\ swept' = swept
    BY <2>2 DEF Retire, Watch, PollDone, PollGone, PollChanged, PollStable, file, history
  <2>3. ASSUME NEW e \in Editors, Edit(e) \/ Download(e) \/ PullFails(e) \/ Head(e) \/ Register(e)
        PROVE  saves' = saves /\ landed' = landed /\ swept' = swept
    BY <2>3 DEF Edit, Download, PullFails, Head, Register, file, history
  <2>4. ASSUME NEW c \in Callers, End(c) \/ \E v \in Verbs : Ask(c, v)
        PROVE  saves' = saves /\ landed' = landed /\ swept' = swept
    BY <2>4, AskLeaves DEF End, file, history
  <2>5. ASSUME NEW p \in Pushers, Push(p)
        PROVE  saves' = saves /\ landed \subseteq landed' /\ swept \subseteq swept'
    <3>1. CASE Write(p)
      BY <3>1 DEF Write
    <3>2. CASE Rebase(p) \/ Settle(p)
      BY <3>2 DEF Rebase, Settle, file
    <3> QED BY <2>5, <3>1, <3>2
            DEF Push, Begin, Check, PushFails, Refused, Lands, LandsUnanswered, file, history
  <2> QED BY <2>1, <2>2, <2>3, <2>4, <2>5 DEF Next
<1>2. saves \in Int /\ saves' \in Int /\ saves <= saves'
  BY <1>1 DEF Typed, TypedFile
<1>3. ASSUME NEW b, Past(saves, b) PROVE Past(saves', b)
  BY <1>2, <1>3, Constants DEF Past
<1>4. ASSUME NEW b, Safe(landed, b) PROVE Safe(landed', b)
  BY <1>1, <1>4 DEF Safe
<1> QED BY <1>1, <1>2, <1>3, <1>4 DEF Kept

LEMMA StaysDated == ASSUME Typed, Employed, Dated, [Next]_vars PROVE Dated'
<1>a. (\A b : Past(saves, b) => Past(saves', b)) /\ (\A b : Safe(landed, b) => Safe(landed', b))
  BY TimePasses
<1>b. \A b : Safe(landed, b) => Past(saves, b)
  BY SafeIsPast
<1>c. Past(saves, 0)
  BY Constants DEF Past, Saves
<1>1. CASE Save
  <2>1. saves' = saves + 1 /\ landed' = landed /\ disk' = saves + 1 /\ saves + 1 \in Saves
        /\ UNCHANGED <<remote, pull, sess, work, pc>>
    BY <1>1 DEF Save, history, Saves, Typed, TypedFile
  <2>2. Past(saves', disk')
    BY <2>1, Constants DEF Past, Typed, TypedFile
  <2>3. landed' \subseteq 1..saves'
    BY <2>1 DEF Dated, Typed, TypedFile
  <2> QED BY <1>a, <2>1, <2>2, <2>3 DEF Dated
<1>2. CASE ForeignWrite
  <2>1. remote' = MaxSaves + writes + 1 /\ writes < MaxForeign
        /\ UNCHANGED <<disk, saves, landed, pull, sess, work, pc>>
    BY <1>2 DEF ForeignWrite, history
  <2>2. remote' \in Bodies /\ remote' \notin Saves
    BY <2>1 DEF Saves, Bodies, Typed, TypedFile
  <2>3. Safe(landed', remote')
    BY <2>2 DEF Safe
  <2> QED BY <1>a, <2>1, <2>3 DEF Dated
<1>3. ASSUME NEW s \in Sessions, Retire(s) PROVE Dated'
  BY <1>a, <1>3 DEF Retire, history, Dated
<1>4. ASSUME NEW e \in Editors, Edit(e) \/ PullFails(e) \/ Head(e) PROVE Dated'
  <2>1. /\ UNCHANGED <<disk, remote, saves, landed, sess, work, pc>>
        /\ \A f \in Editors : pull'[f].body = pull[f].body
    BY <1>4 DEF Edit, PullFails, Head, file, history, Typed, TypedPulls
  <2> QED BY <1>a, <2>1 DEF Dated
<1>5. ASSUME NEW e \in Editors, Download(e) PROVE Dated'
  <2>1. /\ UNCHANGED <<remote, saves, landed, sess, work, pc>> /\ disk' = remote
        /\ \A f \in Editors : pull'[f].body \in {pull[f].body, remote}
    BY <1>5 DEF Download, Typed, TypedPulls
  <2> QED BY <1>a, <1>b, <2>1 DEF Dated
<1>6. ASSUME NEW e \in Editors, Register(e) PROVE Dated'
  <2>1. /\ UNCHANGED <<disk, remote, saves, landed>>
        /\ \A f \in Editors : pull'[f].body \in {pull[f].body, 0}
    BY <1>6 DEF Register, file, history, NoPull, Typed, TypedPulls
  <2>0. Safe(landed, 0)
    BY Constants DEF Safe, Saves
  <2>2. CASE UNCHANGED <<open, opened, sess, pc, work>>
    BY <1>a, <2>0, <2>1, <2>2 DEF Dated
  <2>3. ASSUME NEW s \in Sessions, Opens(e, s) PROVE Dated'
    <3>1. /\ \A t \in Sessions : sess'[t].last \in {sess[t].last, pull[e].body}
          /\ \A q \in Pushers : /\ work'[q].body = work[q].body /\ work'[q].asked = work[q].asked
                                /\ pc'[q] \in {"answer", "landed"} => pc[q] = pc'[q]
      BY <2>3 DEF Opens, Blank, Typed, TypedWork, Errands, TypedSessions
    <3>2. Past(saves, pull[e].body)
      BY <1>b DEF Dated
    <3> QED BY <1>a, <2>0, <2>1, <3>1, <3>2 DEF Dated
  <2> QED BY <1>6, <2>2, <2>3, Registered
<1>7. ASSUME NEW s \in Sessions, Watch(s) PROVE Dated'
  <2>1. /\ UNCHANGED <<disk, saves, remote, landed, pull>>
        /\ \A q \in Pushers : pc'[q] \in {"answer", "landed"} => pc[q] = pc'[q]
    BY <1>7, WatchKeeps
  <2>3. \A q \in Pushers : work'[q].body = work[q].body /\ work'[q].asked = work[q].asked
    BY <1>7, WatchWork
  <2>2. \A t \in Sessions : Past(saves, sess'[t].last)
    <3>1. CASE sess' = sess
      BY <3>1 DEF Dated
    <3>2. CASE PollChanged(s)
      <4>1. \A t \in Sessions : sess'[t].last \in {sess[t].last, disk}
        BY <3>2 DEF PollChanged, Typed, TypedSessions, States
      <4>2. disk # Gone
        BY <3>2 DEF PollChanged
      <4> QED BY <4>1, <4>2 DEF Dated
    <3> QED BY <1>7, <3>1, <3>2, WatchSession
  <2> QED BY <1>a, <2>1, <2>2, <2>3 DEF Dated
<1>8. ASSUME NEW c \in Callers, End(c) PROVE Dated'
  <2>1. /\ UNCHANGED <<disk, saves, remote, landed, pull, sess>>
        /\ \A q \in Pushers : pc'[q] \in {"answer", "landed"} => q # c /\ pc[q] = pc'[q]
        /\ \A q \in Pushers \ {c} : work'[q] = work[q]
    BY <1>8 DEF End, file, history, Typed, TypedWork
  <2>2. work'[c].body = 0 /\ work'[c].asked = Gone
    BY <1>8, RestTyped, Constants DEF End, Typed, TypedWork
  <2> QED BY <1>a, <1>c, <2>1, <2>2 DEF Dated
<1>9. ASSUME NEW c \in Callers, NEW v \in Verbs, Ask(c, v) PROVE Dated'
  <2>1. /\ UNCHANGED <<disk, saves, remote, landed, pull>>
        /\ \A q \in Pushers \ {c} : pc'[q] = pc[q] /\ work'[q] = work[q]
        /\ work'[c] = work[c] \/ (work'[c].body = 0 /\ work'[c].asked = disk)
    BY <1>9, AskKeeps
  <2>2. pc'[c] \notin {"answer", "landed"}
    BY <1>9, AskTurn
  <2>3. \A t \in Sessions : sess'[t].last = sess[t].last
    BY <1>9, AskSession
  <2> QED BY <1>a, <1>c, <2>1, <2>2, <2>3 DEF Dated
<1>10. ASSUME NEW p \in Pushers, Push(p) PROVE Dated'
  <2>1. /\ UNCHANGED <<disk, saves, pull>>
        /\ \A q \in Pushers \ {p} : pc'[q] = pc[q] /\ work'[q] = work[q]
    BY <1>10, PushKeeps
  <2>2. /\ \A s \in Sessions : sess'[s].last = sess[s].last
        /\ work'[p].asked \in {work[p].asked, Gone}
    BY <1>10, PushSession, PushWork
  <2>3. Past(saves, work'[p].body)
    <3>1. CASE Begin(p)
      <4>1. work'[p].body = disk /\ disk # Gone
        BY <3>1 DEF Begin, Typed, TypedWork, Errands
      <4> QED BY <4>1 DEF Dated
    <3>2. CASE ~Begin(p)
      BY <1>10, <1>c, <3>2, PushWork DEF Dated
    <3> QED BY <3>1, <3>2
  <2>4. CASE ~Write(p)
    <3>1. UNCHANGED <<remote, landed>>
      BY <1>10, <2>4 DEF Push, Begin, Check, Lands, LandsUnanswered, PushFails, Refused,
                         Rebase, Settle, file, history
    <3>2. pc'[p] \in {"answer", "landed"} => pc[p] = "answer" /\ work'[p] = work[p]
      BY <1>10, <2>4 DEF Push, Begin, Check, Lands, LandsUnanswered, PushFails, Refused,
                         Rebase, Settle, Turn, Typed, TypedWork
    <3> QED BY <1>a, <2>1, <2>2, <2>3, <3>1, <3>2 DEF Dated
  <2>5. CASE Write(p)
    <3>1. /\ remote' = work[p].body
          /\ landed' = landed \cup ({work[p].body} \cap Saves)
      BY <2>5 DEF Write
    <3>2. Past(saves, work[p].body) /\ landed \subseteq 1..saves
      BY DEF Dated
    <3>3. Safe(landed', work[p].body)
      BY <3>1, <3>2 DEF Past, Safe
    <3>4. landed' \subseteq 1..saves'
      <4>1. work[p].body \in Saves => work[p].body \in 1..saves
        BY <3>2 DEF Past, Saves, Typed, TypedFile
      <4> QED BY <2>1, <3>1, <3>2, <4>1
    <3>5. pc'[p] \in {"answer", "landed"} => work'[p] = work[p]
      BY <1>10, <2>5 DEF Push, Begin, Check, Lands, LandsUnanswered, PushFails, Refused, Write,
                         Writes, Rebase, Settle, Turn, Typed, TypedWork
    <3> QED BY <1>a, <2>1, <2>2, <2>3, <3>1, <3>3, <3>4, <3>5 DEF Dated
  <2> QED BY <2>4, <2>5
<1>11. CASE UNCHANGED vars
  BY <1>a, <1>11 DEF vars, file, history, Dated
<1> QED BY <1>1, <1>2, <1>3, <1>4, <1>5, <1>6, <1>7, <1>8, <1>9, <1>10, <1>11 DEF Next

LEMMA StaysManned == ASSUME Typed, Employed, Manned, [Next]_vars PROVE Manned'
<1> USE Constants
<1>1. CASE Save \/ ForeignWrite \/ UNCHANGED vars
  BY <1>1 DEF Save, ForeignWrite, vars, Manned
<1>2. ASSUME NEW s \in Sessions, Retire(s) PROVE Manned'
  BY <1>2 DEF Retire, Manned
<1>3. ASSUME NEW e \in Editors, Edit(e) \/ PullFails(e) \/ Download(e) \/ Head(e) PROVE Manned'
  BY <1>3 DEF Edit, PullFails, Download, Head, Manned
<1>4. ASSUME NEW e \in Editors, Register(e) PROVE Manned'
  <2>1. CASE UNCHANGED <<open, opened, sess, pc, work>>
    BY <2>1 DEF Manned
  <2>2. ASSUME NEW s \in Sessions, Opens(e, s) PROVE Manned'
    BY <2>2, Constants DEF Opens, Manned, Typed, TypedWork, Errands
  <2> QED BY <1>4, <2>1, <2>2, Registered
<1>5. ASSUME NEW s \in Sessions, Watch(s) PROVE Manned'
  <2>1. \A t \in Sessions : work'[t].mode = "auto"
    BY <1>5, WatchWork DEF Manned
  <2>2. \A c \in Callers : pc'[c] = pc[c] /\ work'[c] = work[c]
    BY <1>5, WatchKeeps
  <2> QED BY <2>1, <2>2 DEF Manned
<1>6. ASSUME NEW c \in Callers, End(c) PROVE Manned'
  <2>1. pc'[c] = "off" /\ \A q \in Pushers \ {c} : pc'[q] = pc[q] /\ work'[q] = work[q]
    BY <1>6 DEF End, Typed, TypedWork
  <2> QED BY <2>1 DEF Manned, Pushing
<1>7. ASSUME NEW c \in Callers, NEW v \in Verbs, Ask(c, v) PROVE Manned'
  <2>1. /\ \A q \in Pushers \ {c} : pc'[q] = pc[q] /\ work'[q] = work[q]
        /\ pc'[c] = "off" \/ work'[c].mode = v
    BY <1>7, AskKeeps
  <2>2. pc'[c] = "push" => v # "discard"
    BY <1>7, AskTurn DEF EndsNow
  <2>3. pc'[c] \in {"end", "push", "off"}
    BY <1>7, AskTurn
  <2> QED BY <2>1, <2>2, <2>3 DEF Manned, Pushing
<1>8. ASSUME NEW p \in Pushers, Push(p) PROVE Manned'
  <2>1. \A t \in Sessions : work'[t].mode = "auto"
    BY <1>8, PushWork DEF Manned
  <2>2. ASSUME NEW c \in Callers, pc'[c] \in Pushing PROVE work'[c].mode \in {"push", "force", "stop"}
    <3>1. Turn(c) = "off"
      BY DEF Turn
    <3>2. pc[c] \in Pushing
      BY <1>8, <2>2, PushKeeps DEF Pushing
    <3>3. work'[c].mode = work[c].mode
      BY <1>8, <2>2, <3>1, PushKeeps, PushWork DEF Pushing
    <3> QED BY <3>2, <3>3 DEF Manned
  <2> QED BY <2>1, <2>2 DEF Manned
<1> QED BY <1>1, <1>2, <1>3, <1>4, <1>5, <1>6, <1>7, <1>8 DEF Next

\* What keeps a session's turn, its bytes and the disk keeps what is on the
\* server there; so does anything that leaves the disk with safe bytes.
LEMMA StillOnServer ==
  ASSUME NEW s \in Sessions, disk' = disk, sess'[s].last = sess[s].last, Kept \subseteq Kept'
  PROVE  OnServer(s) => OnServer(s)'
BY DEF OnServer

LEMMA SafeOnServer ==
  ASSUME NEW s \in Sessions, disk' = Gone \/ Safe(landed', disk')
  PROVE  OnServer(s)'
BY Constants DEF OnServer, Safe, Kept

LEMMA SaveRemembers ==
  ASSUME Typed, Employed, Dated, Save, NEW s \in Sessions
  PROVE  OnServer(s)'
<1>1. disk' = saves + 1 /\ sess' = sess
  BY DEF Save
<1>2. Past(saves, sess[s].last) /\ saves \in Int
  BY DEF Dated, Typed, TypedFile
<1>3. sess[s].last = saves + 1 => sess[s].last \notin Saves
  BY <1>2 DEF Past
<1> QED BY <1>1, <1>3 DEF OnServer

\* The watcher of the session pushes: it settles only what has landed.
LEMMA OwnPushRemembers ==
  ASSUME Typed, Employed, Dated, Manned, Remembers, NEW s \in Sessions, Push(s),
         Kept \subseteq Kept'
  PROVE  Remembered(s)'
<1>1. /\ disk' = disk /\ s \in Pushers /\ s \notin Callers /\ Remembered(s) /\ Turn(s) = "poll"
  BY PushKeeps, Constants DEF Remembers, Turn
<1>2. sess'[s].last = sess[s].last /\ (sess'[s].dirty = sess[s].dirty \/ Settle(s))
  BY <1>1, PushSession
<1>3. OnServer(s) => OnServer(s)'
  BY <1>1, <1>2, StillOnServer
<1> USE DEF Typed, TypedWork
<1>4. CASE Begin(s)
  <2>1. /\ pc'[s] = "put" /\ work'[s].body = disk /\ sess' = sess
    BY <1>1, <1>4 DEF Begin, Errands
  <2> QED BY <1>1, <1>3, <2>1 DEF Remembered, OnServer
<1>5. CASE Check(s)
  <2>1. pc[s] = "put" /\ pc'[s] = "create" /\ sess' = sess /\ work' = work
    BY <1>1, <1>5 DEF Check
  <2> QED BY <1>1, <1>3, <2>1 DEF Remembered
<1>6. CASE PushFails(s) \/ Refused(s)
  <2>1. pc'[s] = "poll" /\ ~Settle(s)
    BY <1>1, <1>6 DEF PushFails, Refused, Settle
  <2> QED BY <1>1, <1>2, <1>3, <2>1 DEF Remembered
<1>7. CASE Lands(s) \/ LandsUnanswered(s)
  <2>1. /\ pc[s] \in {"put", "create"} /\ pc'[s] \in {"answer", "poll"} /\ ~Settle(s)
        /\ landed' = landed \cup ({work[s].body} \cap Saves)
    BY <1>1, <1>7 DEF Lands, LandsUnanswered, Write, Writes, Settle
  <2>2. OnServer(s)'
    BY <1>1, <1>2, <1>3, <2>1 DEF Remembered, OnServer, Kept
  <2> QED BY <2>1, <2>2 DEF Remembered
<1>8. CASE Rebase(s) \/ Settle(s)
  <2>1. pc[s] \in {"answer", "landed"} /\ pc'[s] \notin {"put", "create"}
    BY <1>1, <1>8 DEF Rebase, Settle, Turn
  <2>2. OnServer(s)'
    BY <1>1, <1>3, <2>1 DEF Remembered
  <2> QED BY <2>1, <2>2 DEF Remembered
<1> QED BY <1>4, <1>5, <1>6, <1>7, <1>8 DEF Push

\* A stop beside it leaves the session dirty; a PushEdit sweeps what it has not
\* sent itself.
LEMMA OtherPushRemembers ==
  ASSUME Typed, Employed, Dated, Manned, Remembers,
         NEW s \in Sessions, NEW p \in Pushers, p # s, Push(p), Kept \subseteq Kept'
  PROVE  Remembered(s)'
<1>1. /\ disk' = disk /\ pc'[s] = pc[s] /\ work'[s] = work[s] /\ s \in Pushers /\ Remembered(s)
  BY PushKeeps, Constants DEF Remembers
<1>2. sess'[s].last = sess[s].last
  BY PushSession
<1>3. OnServer(s) => OnServer(s)'
  BY <1>1, <1>2, StillOnServer
<1>4. ASSUME ~sess'[s].dirty PROVE sess[s].dirty => OnServer(s)'
  <2> SUFFICES ASSUME sess[s].dirty PROVE OnServer(s)'
    OBVIOUS
  <2>1. Settle(p) /\ work[p].of = s
    BY <1>4, PushSession
  <2>2. p \in Callers
    BY <2>1, Constants DEF Settle, Employed
  <2>3. pc[p] = "landed" /\ Safe(landed, work[p].body) /\ landed' = landed
    BY <2>1 DEF Settle, Dated
  <2>4. /\ work[p].mode # "stop"
        /\ work[p].mode \in {"push", "force"} /\ sess[s].last # work[p].body => sess[s].last \in swept'
    <3>1. sess \in [Sessions -> States]
      BY DEF Typed, TypedSessions
    <3> QED BY <1>4, <2>1, <3>1 DEF Settle, States
  <2>5. work[p].mode \in {"push", "force"}
    BY <2>2, <2>3, <2>4 DEF Manned, Pushing
  <2>6. sess[s].last \in Saves => sess[s].last \in Kept'
    BY <2>3, <2>4, <2>5 DEF Safe, Kept
  <2> QED BY <1>2, <2>6 DEF OnServer
<1> QED BY <1>1, <1>2, <1>3, <1>4 DEF Remembered

LEMMA StaysRemembered ==
  ASSUME Typed, Employed, Dated, Dated', Manned, Remembers, [Next]_vars, NEW s \in Sessions
  PROVE  Remembered(s)'
<1>0. Remembered(s) /\ Kept \subseteq Kept'
  BY TimePasses DEF Remembers
<1>1. CASE Save
  BY <1>1, SaveRemembers DEF Remembered
<1>2. CASE ForeignWrite \/ UNCHANGED vars
  BY <1>0, <1>2, StillOnServer DEF ForeignWrite, vars, file, Remembered
<1>3. ASSUME NEW t \in Sessions, Retire(t) PROVE Remembered(s)'
  BY <1>3, SafeOnServer DEF Retire, Remembered
<1>4. ASSUME NEW e \in Editors, Edit(e) \/ PullFails(e) \/ Head(e) PROVE Remembered(s)'
  BY <1>0, <1>4, StillOnServer DEF Edit, PullFails, Head, file, Remembered
<1>5. ASSUME NEW e \in Editors, Download(e) PROVE Remembered(s)'
  <2>1. Safe(landed', disk')
    BY <1>5 DEF Download, Dated
  <2> QED BY <2>1, SafeOnServer DEF Remembered
<1>6. ASSUME NEW e \in Editors, Register(e) PROVE Remembered(s)'
  <2>1. disk' = disk
    BY <1>6 DEF Register, file
  <2>2. CASE UNCHANGED <<open, opened, sess, pc, work>>
    BY <1>0, <2>1, <2>2, StillOnServer DEF Remembered
  <2>3. ASSUME NEW t \in Sessions, Opens(e, t) PROVE Remembered(s)'
    <3>1. CASE t # s
      <4>1. sess'[s] = sess[s] /\ pc'[s] = pc[s] /\ work'[s] = work[s]
        BY <2>3, <3>1, Constants DEF Opens, Typed, TypedSessions, TypedWork
      <4> QED BY <1>0, <2>1, <4>1, StillOnServer DEF Remembered
    <3>2. CASE t = s
      <4>1. sess'[s].last = pull[e].body /\ pc'[s] = "poll"
        BY <2>3, <3>2, Constants DEF Opens, Blank, Typed, TypedSessions, TypedWork
      <4>2. Safe(landed, pull[e].body)
        BY DEF Dated
      <4>3. OnServer(s)'
        BY <1>0, <2>1, <4>1, <4>2 DEF OnServer, Safe, Kept
      <4> QED BY <4>1, <4>3 DEF Remembered
    <3> QED BY <3>1, <3>2
  <2> QED BY <1>6, <2>2, <2>3, Registered
<1>7. ASSUME NEW t \in Sessions, Watch(t) PROVE Remembered(s)'
  <2>1. /\ disk' = disk /\ pc'[t] \in {"off", "poll", "push"}
        /\ t # s => pc'[s] = pc[s] /\ work'[s] = work[s]
    BY <1>7, WatchKeeps, Constants
  <2>2. (t # s => sess'[s] = sess[s]) /\ (sess' = sess \/ PollChanged(t))
    BY <1>7, WatchSession
  <2>3. PollChanged(t) => sess'[t].dirty
    BY DEF PollChanged, Typed, TypedSessions, States
  <2>4. CASE sess' = sess
    BY <1>0, <2>1, <2>4, StillOnServer DEF Remembered
  <2>5. CASE PollChanged(t) /\ t = s
    BY <1>0, <2>1, <2>3, <2>5 DEF Remembered
  <2>6. CASE t # s
    BY <1>0, <2>1, <2>2, <2>6, StillOnServer DEF Remembered
  <2> QED BY <2>2, <2>4, <2>5, <2>6
<1>8. ASSUME NEW c \in Callers, End(c) PROVE Remembered(s)'
  <2>1. UNCHANGED <<disk, sess>> /\ pc'[s] = pc[s] /\ work'[s] = work[s]
    BY <1>8, Constants DEF End, file, Typed, TypedWork
  <2> QED BY <1>0, <2>1, StillOnServer DEF Remembered
<1>9. ASSUME NEW c \in Callers, NEW v \in Verbs, Ask(c, v) PROVE Remembered(s)'
  <2>1. disk' = disk /\ pc'[s] = pc[s] /\ work'[s] = work[s]
    BY <1>9, AskKeeps, Constants
  <2>2. sess'[s].last = sess[s].last
    BY <1>9, AskSession
  <2>3. sess[s].dirty => sess'[s].dirty
    BY <1>9, AskSession DEF Pending, Noticed
  <2> QED BY <1>0, <2>1, <2>2, <2>3, StillOnServer DEF Remembered
<1>10. ASSUME NEW p \in Pushers, Push(p) PROVE Remembered(s)'
  BY <1>0, <1>10, OwnPushRemembers, OtherPushRemembers
<1> QED BY <1>1, <1>2, <1>3, <1>4, <1>5, <1>6, <1>7, <1>8, <1>9, <1>10 DEF Next

LEMMA InitKept == Init => KeepInv
<1> SUFFICES ASSUME Init PROVE KeepInv
  OBVIOUS
<1>1. Typed /\ Employed
  BY InitTyped
<1>2. Past(saves, 0) /\ Safe(landed, 0)
  BY Constants DEF Past, Safe, Saves
<1>3. Dated
  BY <1>2, Constants DEF Init, Dated, Idle, Blank, NoPull
<1>4. Manned /\ Remembers
  BY Constants DEF Init, Manned, Pushing, Remembers, Remembered, OnServer, Idle, Blank
<1> QED BY <1>1, <1>3, <1>4 DEF KeepInv

LEMMA StaysKept ==
  ASSUME KeepInv, [Next]_vars
  PROVE  KeepInv'
<1>1. Typed' /\ Employed'
  BY StaysTyped DEF KeepInv
<1>2. Dated' /\ Manned'
  BY StaysDated, StaysManned DEF KeepInv
<1>3. Remembers'
  BY <1>2, StaysRemembered DEF KeepInv, Remembers
<1> QED BY <1>1, <1>2, <1>3 DEF KeepInv

\* A session that reads clean has its save on the server, on both legs,
\* however polls, saves, pushes, stops, pulls, removals and lost answers
\* interleave, unless the answer of a PushEdit that sent an older one swept it.
THEOREM NoSaveForgotten == Spec => []NothingForgotten
<1>1. Init => KeepInv
  BY InitKept
<1>2. KeepInv /\ [Next]_vars => KeepInv'
  BY StaysKept
<1>3. KeepInv => NothingForgotten
  BY DEF KeepInv, Remembers, Remembered, OnServer, Kept, NothingForgotten
<1> QED BY <1>1, <1>2, <1>3, PTL DEF Spec

-----------------------------------------------------------------------------
(* Stop & upload.                                                          *)

\* No pull puts its bytes on the disk while a stop is about to open it: so with
\* one window, one call at a time and no timer that outlives its session.
PullsWait ==
  \A e \in Editors, c \in Callers :
    Download(e) => ~(pc[c] = "push" /\ work[c].mode = "stop")

\* A stop that was asked for a save has that save, or a later one, before it:
\* on the disk, in the open file, and at last on the server, unless it was swept.
Delivered(c) ==
  work[c].mode = "stop" /\ work[c].asked \in Saves =>
    /\ pc[c] = "push" => disk = Gone \/ (disk \in Saves /\ disk >= work[c].asked)
    /\ pc[c] \in {"put", "create"} => work[c].body \in Saves /\ work[c].body >= work[c].asked
    /\ pc[c] \in {"answer", "landed", "end"} =>
         work[c].asked \in swept \/ \E b \in landed : b >= work[c].asked

StopInv == KeepInv /\ \A c \in Callers : Delivered(c)

\* A call that keeps its turn keeps what it has, if the disk does.
LEMMA StillDelivered ==
  ASSUME NEW c \in Callers, Delivered(c), disk' = disk \/ pc[c] # "push",
         landed \subseteq landed', swept \subseteq swept', pc'[c] = pc[c], work'[c] = work[c]
  PROVE  Delivered(c)'
BY DEF Delivered

LEMMA PushDelivers ==
  ASSUME KeepInv, NEW c \in Callers, Delivered(c), Push(c)
  PROVE  Delivered(c)'
<1>1. /\ c \in Pushers /\ Turn(c) = "off"
      /\ pc'[c] # "off" => work'[c].mode = work[c].mode /\ work'[c].asked = work[c].asked
  BY PushWork, Constants DEF KeepInv, Turn
<1> USE DEF KeepInv, Typed, TypedWork, Errands
<1>2. CASE Begin(c)
  <2>1. pc[c] = "push" /\ pc'[c] = "put" /\ work'[c].body = disk /\ disk # Gone
    BY <1>1, <1>2 DEF Begin
  <2> QED BY <1>1, <2>1 DEF Delivered
<1>3. CASE PushFails(c) \/ Refused(c) \/ LandsUnanswered(c)
  <2>1. pc'[c] = "off"
    BY <1>1, <1>3 DEF PushFails, Refused, LandsUnanswered
  <2> QED BY <2>1 DEF Delivered
<1>4. CASE Lands(c)
  <2>1. /\ pc[c] \in {"put", "create"} /\ pc'[c] = "answer" /\ work' = work
        /\ landed' = landed \cup ({work[c].body} \cap Saves)
    BY <1>1, <1>4 DEF Lands, Write, Writes
  <2> QED BY <1>1, <2>1 DEF Delivered
<1>5. CASE Check(c)
  <2>1. pc[c] = "put" /\ pc'[c] = "create" /\ work' = work
    BY <1>1, <1>5 DEF Check
  <2> QED BY <1>1, <2>1 DEF Delivered
<1>6. CASE Rebase(c) \/ Settle(c)
  <2>1. /\ pc[c] \in {"answer", "landed"} /\ pc'[c] \in {"landed", "end", "off"}
        /\ landed' = landed /\ swept \subseteq swept'
    BY <1>1, <1>6 DEF Rebase, Settle
  <2> QED BY <1>1, <2>1 DEF Delivered
<1> QED BY <1>2, <1>3, <1>4, <1>5, <1>6 DEF Push

\* A stop ends at once only on a session that is clean and a disk its watcher
\* has seen.
LEMMA AskDelivers ==
  ASSUME KeepInv, NEW c \in Callers, NEW v \in Verbs, Ask(c, v)
  PROVE  Delivered(c)'
<1>1. /\ UNCHANGED <<disk, landed, swept>> /\ open \in Sessions
      /\ pc'[c] = "off" \/ (work'[c].mode = v /\ work'[c].asked = disk)
  BY AskKeeps, AskLeaves DEF KeepInv, history
<1>2. pc'[c] = IF EndsNow(v) THEN "end" ELSE IF Pending(v) THEN "push" ELSE "off"
  BY AskTurn DEF KeepInv
<1>3. ASSUME v = "stop", disk \in Saves, EndsNow(v) PROVE disk \in Kept
  <2>1. ~sess[open].dirty /\ disk = sess[open].last
    BY <1>3, Constants DEF EndsNow, Pending, Noticed
  <2>2. Remembered(open)
    BY <1>1 DEF KeepInv, Remembers
  <2> QED BY <1>3, <2>1, <2>2 DEF Remembered, OnServer
<1>4. disk \in Saves => disk \in Int
  BY Constants
<1>5. CASE EndsNow(v)
  <2>1. v = "stop" /\ disk \in Saves => disk \in swept' \/ \E b \in landed' : b >= disk
    BY <1>1, <1>3, <1>4, <1>5 DEF Kept
  <2> QED BY <1>1, <1>2, <1>5, <2>1 DEF Delivered
<1>6. CASE ~EndsNow(v)
  BY <1>1, <1>2, <1>4, <1>6 DEF Delivered
<1> QED BY <1>5, <1>6

LEMMA StaysDelivered ==
  ASSUME KeepInv, PullsWait, [Next]_vars, NEW c \in Callers, Delivered(c)
  PROVE  Delivered(c)'
<1> USE DEF KeepInv
<1>0. /\ c \in Pushers /\ (work[c].asked = Gone \/ Past(saves, work[c].asked))
      /\ landed \subseteq landed' /\ swept \subseteq swept'
  <2>1. landed \subseteq landed' /\ swept \subseteq swept'
    BY TimePasses
  <2> QED BY <2>1, Constants DEF Dated
<1>1. CASE Save
  <2>1. disk' = saves + 1 /\ saves + 1 \in Saves /\ UNCHANGED <<pc, work>>
    BY <1>1 DEF Save, Saves, Typed, TypedFile
  <2>2. ASSUME work[c].asked \in Saves PROVE saves + 1 >= work[c].asked
    <3>1. work[c].asked <= saves
      BY <1>0, <2>2, Constants DEF Past
    <3>2. work[c].asked \in Int
      BY <2>2, Constants
    <3>3. saves \in Int
      BY DEF Typed, TypedFile
    <3> QED BY <3>1, <3>2, <3>3
  <2> QED BY <1>0, <2>1, <2>2 DEF Delivered
<1>2. CASE ForeignWrite \/ UNCHANGED vars
  BY <1>0, <1>2, StillDelivered DEF ForeignWrite, vars, file
<1>3. ASSUME NEW t \in Sessions, Retire(t) PROVE Delivered(c)'
  BY <1>0, <1>3 DEF Retire, Delivered
<1>4. ASSUME NEW e \in Editors, Edit(e) \/ PullFails(e) \/ Head(e) PROVE Delivered(c)'
  BY <1>0, <1>4, StillDelivered DEF Edit, PullFails, Head, file
<1>5. ASSUME NEW e \in Editors, Download(e) PROVE Delivered(c)'
  BY <1>0, <1>5 DEF PullsWait, Download, Delivered
<1>6. ASSUME NEW e \in Editors, Register(e) PROVE Delivered(c)'
  <2>1. disk' = disk
    BY <1>6 DEF Register, file
  <2>2. pc'[c] = pc[c] /\ work'[c] = work[c]
    <3>1. ASSUME NEW t \in Sessions, Opens(e, t) PROVE pc'[c] = pc[c] /\ work'[c] = work[c]
      BY <3>1, Constants DEF Opens, Typed, TypedWork
    <3> QED BY <1>6, <3>1, Registered
  <2> QED BY <1>0, <2>1, <2>2, StillDelivered
<1>7. ASSUME NEW t \in Sessions, Watch(t) PROVE Delivered(c)'
  <2>1. disk' = disk /\ pc'[c] = pc[c] /\ work'[c] = work[c]
    BY <1>7, WatchKeeps, Constants
  <2> QED BY <1>0, <2>1, StillDelivered
<1>8. ASSUME NEW d \in Callers, End(d) PROVE Delivered(c)'
  <2>1. disk' = disk /\ pc'[d] = "off" /\ (c # d => pc'[c] = pc[c] /\ work'[c] = work[c])
    BY <1>8, Constants DEF End, file, Typed, TypedWork
  <2> QED BY <1>0, <2>1, StillDelivered DEF Delivered
<1>9. ASSUME NEW d \in Callers, NEW v \in Verbs, Ask(d, v) PROVE Delivered(c)'
  <2>1. CASE d = c
    BY <1>9, <2>1, AskDelivers
  <2>2. CASE d # c
    <3>1. disk' = disk /\ pc'[c] = pc[c] /\ work'[c] = work[c]
      BY <1>9, <2>2, AskKeeps, Constants
    <3> QED BY <1>0, <3>1, StillDelivered
  <2> QED BY <2>1, <2>2
<1>10. ASSUME NEW p \in Pushers, Push(p) PROVE Delivered(c)'
  <2>1. CASE p = c
    BY <1>10, <2>1, PushDelivers
  <2>2. CASE p # c
    <3>1. disk' = disk /\ pc'[c] = pc[c] /\ work'[c] = work[c]
      BY <1>10, <2>2, PushKeeps, Constants
    <3> QED BY <1>0, <3>1, StillDelivered
  <2> QED BY <2>1, <2>2
<1> QED BY <1>1, <1>2, <1>3, <1>4, <1>5, <1>6, <1>7, <1>8, <1>9, <1>10 DEF Next

LEMMA DeliveredStopsSaved ==
  StopInv => StopSavesFirst
BY DEF StopInv, Delivered, StopSavesFirst

LEMMA InitDelivered == Init => StopInv
BY InitKept, Constants DEF Init, StopInv, Delivered

\* With one window that opens the file, one call at a time and no timer of an
\* older session that rings over a newer one, no pull ever comes between a
\* stop and its bytes.
OneEdit == \A e, f \in Editors : e = f
OneCall == \A c, d \in Callers : c = d
RemovalsWait ==
  \A s \in Sessions : Retire(s) => /\ open = 0
                                  /\ \A e \in Editors : pull[e].at \in {"idle", "pull"}

Solo ==
  /\ \A e \in Editors : pull[e].at # "idle" => open = 0
  /\ \A e \in Editors : pull[e].at \in {"head", "register"} => disk # Gone
  /\ open # 0 => disk # Gone
  /\ \A c \in Callers : pc[c] = "push" => open = work[c].of

LEMMA SoloWaits == ASSUME KeepInv, Solo PROVE PullsWait
<1> SUFFICES ASSUME NEW e \in Editors, NEW c \in Callers, Download(e), pc[c] = "push"
             PROVE  FALSE
  BY DEF PullsWait
<1>1. open = 0
  BY DEF Download, Solo
<1>2. work[c].of \in 1..opened
  BY Constants DEF KeepInv, Employed
<1> QED BY <1>1, <1>2 DEF Solo

LEMMA StaysSolo ==
  ASSUME OneEdit, OneCall, RemovalsWait, KeepInv, Solo, [Next]_vars
  PROVE  Solo'
<1> USE DEF KeepInv
<1>1. CASE Save
  BY <1>1 DEF Save, registry, Solo, Typed, TypedFile, Gone
<1>2. CASE ForeignWrite \/ UNCHANGED vars
  BY <1>2 DEF ForeignWrite, vars, file, registry, Solo
<1>3. ASSUME NEW s \in Sessions, Retire(s) PROVE Solo'
  <2>1. open' = 0 /\ \A e \in Editors : pull'[e].at \in {"idle", "pull"}
    BY <1>3 DEF RemovalsWait, Retire
  <2>2. UNCHANGED <<open, pc, work>>
    BY <1>3 DEF Retire
  <2> QED BY <2>1, <2>2 DEF Solo
<1>4. ASSUME NEW e \in Editors, Edit(e) \/ PullFails(e) \/ Head(e) PROVE Solo'
  BY <1>4 DEF OneEdit, Edit, PullFails, Head, file, registry, Solo, Typed, TypedPulls
<1>5. ASSUME NEW e \in Editors, Download(e) PROVE Solo'
  BY <1>5, Constants DEF OneEdit, Download, registry, Solo, Typed, TypedFile, TypedPulls
<1>6. ASSUME NEW e \in Editors, Register(e) PROVE Solo'
  <2>1. /\ disk' = disk /\ disk # Gone /\ open = 0
        /\ \A f \in Editors : pull'[f].at = "idle"
    BY <1>6 DEF OneEdit, Register, NoPull, file, Solo, Typed, TypedPulls
  <2>2. \A c \in Callers : pc[c] # "push"
    BY <2>1, Constants DEF Solo, Employed
  <2>3. \A c \in Callers : pc'[c] = pc[c]
    <3>1. ASSUME NEW t \in Sessions, Opens(e, t) PROVE \A c \in Callers : pc'[c] = pc[c]
      BY <3>1, Constants DEF Opens, Typed, TypedWork
    <3> QED BY <1>6, <3>1, Registered
  <2> QED BY <2>1, <2>2, <2>3 DEF Solo
<1>7. ASSUME NEW s \in Sessions, Watch(s) PROVE Solo'
  <2>1. /\ disk' = disk /\ pull' = pull
        /\ \A c \in Callers : pc'[c] = pc[c] /\ work'[c] = work[c]
    BY <1>7, WatchKeeps, Constants
  <2>2. open' = open
    BY <1>7 DEF Watch, PollDone, PollGone, PollChanged, PollStable, registry, Solo
  <2> QED BY <2>1, <2>2 DEF Solo
<1>8. ASSUME NEW c \in Callers, End(c) PROVE Solo'
  <2>1. /\ UNCHANGED <<disk, pull>> /\ open' \in {0, open} /\ pc'[c] = "off"
    BY <1>8, Constants DEF End, file, Typed, TypedWork
  <2> QED BY <2>1 DEF OneCall, Solo
<1>9. ASSUME NEW c \in Callers, NEW v \in Verbs, Ask(c, v) PROVE Solo'
  <2>1. /\ UNCHANGED <<disk, open, pull>> /\ (pc'[c] = "off" \/ work'[c].of = open)
    BY <1>9, AskKeeps
  <2>2. \A d \in Callers : d = c
    BY DEF OneCall
  <2>3. \A d \in Callers : pc'[d] = "push" => open' = work'[d].of
    BY <2>1, <2>2
  <2> QED BY <2>1, <2>3 DEF Solo
<1>10. ASSUME NEW p \in Pushers, Push(p) PROVE Solo'
  <2>1. /\ UNCHANGED <<disk, pull, open>>
        /\ \A q \in Pushers \ {p} : pc'[q] = pc[q] /\ work'[q] = work[q]
    BY <1>10, PushKeeps DEF registry
  <2>2. pc'[p] # "push"
    BY <1>10, PushKeeps DEF Turn
  <2> QED BY <2>1, <2>2, Constants DEF OneCall, Solo
<1> QED BY <1>1, <1>2, <1>3, <1>4, <1>5, <1>6, <1>7, <1>8, <1>9, <1>10 DEF Next

SoloInv == StopInv /\ Solo

LEMMA InitSolo == Init => SoloInv
  <1>1. Init => Solo
    BY Constants DEF Init, Solo, NoPull
  <1> QED BY <1>1, InitDelivered DEF SoloInv

LEMMA SoloStep ==
  ASSUME OneEdit, OneCall, RemovalsWait, SoloInv, [Next]_vars
  PROVE  SoloInv'
<1>1. KeepInv'
  BY StaysKept DEF SoloInv, StopInv
<1>2. Solo'
  BY StaysSolo DEF SoloInv, StopInv
<1>3. ASSUME NEW c \in Callers PROVE Delivered(c)'
  BY StaysDelivered, SoloWaits DEF SoloInv, StopInv
<1> QED BY <1>1, <1>2, <1>3 DEF SoloInv, StopInv

\* With one session at most a timer runs only when it is over, and no pull is
\* on its way by then.
AfterTheOne ==
  MaxSessions <= 1 => /\ timers # {} => open = 0 /\ opened # 0
                      /\ opened # 0 => \A e \in Editors : pull[e].at = "idle"

LEMMA AfterWaits ==
  ASSUME ~Retires \/ MaxSessions <= 1, AfterTheOne
  PROVE  RemovalsWait
BY DEF AfterTheOne, RemovalsWait, Retire

LEMMA StaysAfter ==
  ASSUME OneEdit, KeepInv, AfterTheOne, [Next]_vars
  PROVE  AfterTheOne'
<1> SUFFICES ASSUME MaxSessions <= 1
             PROVE  /\ timers' # {} => open' = 0 /\ opened' # 0
                    /\ opened' # 0 => \A e \in Editors : pull'[e].at = "idle"
  BY DEF AfterTheOne
<1> DEFINE Then == /\ timers' # {} => open' = 0 /\ opened' # 0
                   /\ opened' # 0 => \A e \in Editors : pull'[e].at = "idle"
<1>0. /\ opened \in 0..MaxSessions /\ open \in 0..opened
      /\ \A e \in Editors : pull' = [pull EXCEPT ![e] = NoPull] => pull'[e].at = "idle"
  BY Constants DEF KeepInv, Typed, TypedSessions, TypedPulls, NoPull
<1>1. ASSUME timers' \subseteq timers, open' \in {0, open}, opened' = opened, pull' = pull
      PROVE  Then
  BY <1>1 DEF AfterTheOne
<1> HIDE DEF Then
<1>2. ASSUME Save \/ ForeignWrite \/ UNCHANGED vars PROVE Then
  BY <1>1, <1>2 DEF Save, ForeignWrite, vars, registry, Then
<1>3. ASSUME NEW s \in Sessions, Retire(s) PROVE Then
  BY <1>1, <1>3 DEF Retire
<1>4. ASSUME NEW e \in Editors, Edit(e) PROVE Then
  <2>1. opened' = opened /\ timers' = timers /\ opened < MaxSessions
    BY <1>4 DEF Edit, registry
  <2> QED BY <1>0, <2>1, Constants DEF Then, AfterTheOne
<1>5. ASSUME NEW e \in Editors, Download(e) \/ PullFails(e) \/ Head(e) PROVE Then
  <2>1. opened' = opened /\ timers' = timers /\ pull[e].at # "idle"
    BY <1>5 DEF Download, PullFails, Head, registry
  <2> QED BY <2>1 DEF Then, AfterTheOne
<1>6. ASSUME NEW e \in Editors, Register(e) PROVE Then
  <2>1. \A f \in Editors : pull'[f].at = "idle"
    BY <1>0, <1>6 DEF OneEdit, Register
  <2>2. opened = 0 /\ timers' = timers
    BY <1>6 DEF Register, AfterTheOne
  <2> QED BY <2>1, <2>2 DEF Then, AfterTheOne
<1>7. ASSUME NEW s \in Sessions, Watch(s) PROVE Then
  BY <1>1, <1>7 DEF Watch, PollDone, PollGone, PollChanged, PollStable, registry
<1>8. ASSUME NEW c \in Callers, End(c) PROVE Then
  <2>1. work[c].of \in 1..opened
    BY <1>8, Constants DEF End, KeepInv, Employed
  <2>2. open' = 0 /\ opened' = opened /\ opened # 0 /\ pull' = pull
    <3>1. open \in {0, work[c].of} /\ opened # 0
      BY <1>0, <2>1, Constants
    <3> QED BY <1>8, <3>1 DEF End
  <2> QED BY <2>2 DEF Then, AfterTheOne
<1>9. ASSUME NEW c \in Callers, NEW v \in Verbs, Ask(c, v) PROVE Then
  BY <1>1, <1>9 DEF Ask, registry
<1>10. ASSUME NEW p \in Pushers, Push(p) PROVE Then
  BY <1>1, <1>10, PushKeeps DEF KeepInv, registry
<1>11. Then
  BY <1>2, <1>3, <1>4, <1>5, <1>6, <1>7, <1>8, <1>9, <1>10 DEF Next
<1> QED BY <1>11 DEF Then

\* A stop & upload ends its session only once the bytes on disk at the call, or
\* later ones, have landed, or a PushEdit has swept them: on both legs, for one
\* window that opens the file and one call at a time, whatever the watcher,
\* foreign writes and lost answers do, where no timer outlives its session
\* into another one: none rings, or the file is edited once.
THEOREM SoloStopSaves ==
  ASSUME ~Retires \/ MaxSessions <= 1, OneEdit, OneCall
  PROVE  Spec => []StopSavesFirst
<1>1. Init => AfterTheOne
  BY DEF Init, AfterTheOne
<1>2. SoloInv /\ AfterTheOne /\ [Next]_vars => SoloInv' /\ AfterTheOne'
  BY SoloStep, StaysAfter, AfterWaits DEF SoloInv, StopInv
<1>3. SoloInv => StopSavesFirst
  BY DeliveredStopsSaved DEF SoloInv
<1> QED BY <1>1, <1>2, <1>3, InitSolo, PTL DEF Spec

-----------------------------------------------------------------------------
(* The order of the saves on the remote file, on the S3 leg.               *)

\* Every identity was made before, and the newest save is not older than the
\* guard it goes with.
Made(n, b) == b \in Saves => b <= n
Based ==
  /\ \A s \in 1..opened : Made(saves, sess[s].base)
  /\ \A e \in Editors : Made(saves, pull[e].base)
  /\ \A p \in Pushers : pc[p] = "put" /\ work[p].newest /\ work[p].guard \in Saves
                          => work[p].body >= work[p].guard

OrderInv == Typed /\ Employed /\ Dated /\ Based

LEMMA StaysBased ==
  ASSUME Typed, Employed, Dated, Based, [Next]_vars PROVE Based'
<1> USE Constants DEF Typed, TypedWork, Errands, TypedSessions, TypedPulls
<1>a. /\ \A b : Made(saves, b) => Made(saves', b)
      /\ \A b : Past(saves, b) \/ Safe(landed, b) \/ b = NoGuard => Made(saves, b)
  <2>1. saves \in Int /\ saves' \in Int /\ saves <= saves'
    BY TimePasses
  <2>2. \A b : Made(saves, b) => Made(saves', b)
    BY <2>1 DEF Made
  <2>3. \A b : Safe(landed, b) => Past(saves, b)
    BY SafeIsPast
  <2> QED BY <2>2, <2>3 DEF Made, Past
<1>b. ASSUME UNCHANGED <<opened, pull>>,
             \A t \in 1..opened : Made(saves', sess'[t].base),
             \A q \in Pushers : pc'[q] = "put" => pc[q] = "put" /\ work'[q] = work[q]
      PROVE  Based'
  BY <1>a, <1>b DEF Based
<1>1. CASE Save \/ ForeignWrite \/ UNCHANGED vars
  BY <1>a, <1>b, <1>1 DEF Save, ForeignWrite, vars, registry, Based
<1>2. ASSUME NEW s \in Sessions, Retire(s) PROVE Based'
  BY <1>a, <1>b, <1>2 DEF Retire, Based
<1>3. ASSUME NEW s \in Sessions, Watch(s) PROVE Based'
  <2>1. UNCHANGED <<pull, opened>> /\ \A t \in Sessions : sess'[t].base = sess[t].base
    BY <1>3, WatchKeeps, WatchSession
  <2>2. \A q \in Pushers : pc'[q] = "put" => pc[q] = "put" /\ work'[q] = work[q]
    BY <1>3, WatchKeeps
  <2>3. \A t \in 1..opened : t \in Sessions
    BY DEF Sessions
  <2> QED BY <1>a, <1>b, <2>1, <2>2, <2>3 DEF Based
<1>4. ASSUME NEW e \in Editors, Edit(e) \/ PullFails(e) \/ Download(e) \/ Head(e) PROVE Based'
  <2>1. /\ UNCHANGED <<opened, sess, pc, work>>
        /\ \A f \in Editors : pull'[f].base \in {pull[f].base, remote, NoGuard}
    BY <1>4 DEF Edit, PullFails, Download, Head, registry
  <2>2. \A f \in Editors : Made(saves', pull'[f].base)
    BY <1>a, <2>1 DEF Based, Dated
  <2> QED BY <1>a, <2>1, <2>2 DEF Based
<1>5. ASSUME NEW e \in Editors, Register(e) PROVE Based'
  <2>1. \A f \in Editors : pull'[f].base \in {pull[f].base, NoGuard}
    BY <1>5 DEF Register, NoPull
  <2>2. \A f \in Editors : Made(saves', pull'[f].base)
    BY <1>a, <2>1 DEF Based
  <2>3. CASE UNCHANGED <<open, opened, sess, pc, work>>
    BY <1>a, <2>2, <2>3 DEF Based
  <2>4. ASSUME NEW s \in Sessions, Opens(e, s) PROVE Based'
    <3>1. /\ sess'[s].base = pull[e].base
          /\ \A t \in Sessions \ {s} : sess'[t] = sess[t]
      BY <2>4 DEF Opens, Blank
    <3>2. 1..opened' \subseteq (1..opened) \cup {s} /\ 1..opened' \subseteq Sessions
      BY <2>4 DEF Opens, Sessions
    <3>3. \A t \in 1..opened' : Made(saves', sess'[t].base)
      BY <1>a, <3>1, <3>2 DEF Based
    <3>4. \A q \in Pushers :
            /\ pc'[q] = "put" => pc[q] = "put"
            /\ work'[q].guard = work[q].guard /\ work'[q].body = work[q].body
            /\ work'[q].newest = work[q].newest
      BY <2>4 DEF Opens
    <3> QED BY <2>2, <3>3, <3>4 DEF Based
  <2> QED BY <1>5, <2>3, <2>4, Registered
<1>6. ASSUME NEW c \in Callers, End(c) PROVE Based'
  <2>1. /\ UNCHANGED <<opened, sess, pull>> /\ pc'[c] = "off"
        /\ \A q \in Pushers \ {c} : pc'[q] = pc[q] /\ work'[q] = work[q]
    BY <1>6 DEF End
  <2> QED BY <1>a, <1>b, <2>1 DEF Based
<1>7. ASSUME NEW c \in Callers, NEW v \in Verbs, Ask(c, v) PROVE Based'
  <2>1. /\ UNCHANGED <<pull, opened>> /\ \A t \in Sessions : sess'[t].base = sess[t].base
        /\ \A q \in Pushers \ {c} : pc'[q] = pc[q] /\ work'[q] = work[q]
    BY <1>7, AskKeeps, AskSession
  <2>2. pc'[c] # "put"
    BY <1>7, AskTurn
  <2>3. \A t \in 1..opened : t \in Sessions
    BY DEF Sessions
  <2> QED BY <1>a, <1>b, <2>1, <2>2, <2>3 DEF Based
<1>8. ASSUME NEW p \in Pushers, Push(p) PROVE Based'
  <2>1. /\ UNCHANGED <<pull, opened>>
        /\ \A q \in Pushers \ {p} : pc'[q] = pc[q] /\ work'[q] = work[q]
    BY <1>8, PushKeeps DEF registry
  <2>2. \A t \in 1..opened : Made(saves', sess'[t].base)
    <3>1. Made(saves, Found(p))
      BY <1>a DEF Found, Dated
    <3>2. \A t \in 1..opened : t \in Sessions
      BY DEF Sessions
    <3> QED BY <1>8, <1>a, <3>1, <3>2, PushRebases DEF Based
  <2>3. CASE Begin(p)
    <3>1. /\ work'[p].guard = sess[work[p].of].base /\ work[p].of \in 1..opened
          /\ work'[p].body = disk /\ work'[p].newest = (disk = saves)
      BY <1>8, <2>3, PushSession DEF Begin
    <3>2. work'[p].guard \in Saves => saves >= work'[p].guard
      BY <3>1 DEF Based, Made, TypedFile, Saves
    <3>3. work'[p].newest => work'[p].body = saves
      BY <3>1
    <3>4. work'[p].newest /\ work'[p].guard \in Saves => work'[p].body >= work'[p].guard
      BY <3>2, <3>3
    <3> QED BY <1>a, <2>1, <2>2, <3>4 DEF Based
  <2>4. CASE ~Begin(p)
    <3>1. pc'[p] # "put"
      BY <1>8, <2>4 DEF Push, Check, PushFails, Refused, Rebase, Settle, Lands,
                        LandsUnanswered, Turn
    <3> QED BY <1>b, <2>1, <2>2, <3>1
  <2> QED BY <2>3, <2>4
<1> QED BY <1>1, <1>2, <1>3, <1>4, <1>5, <1>6, <1>7, <1>8 DEF Next

\* On the S3 leg a push that opened the newest save, and holds an identity,
\* never puts it over a later one, however many pulls, saves, sessions, calls,
\* foreign writes, lost answers and removal timers overlap it.
THEOREM SavesInOrder == ASSUME Leg = "s3" PROVE Spec => NeverBackwards
<1>1. Init => OrderInv
  <2> SUFFICES ASSUME Init PROVE OrderInv
    OBVIOUS
  <2>1. Typed /\ Employed /\ Dated
    BY InitKept DEF KeepInv
  <2>2. Based
    BY Constants DEF Init, Based, Made, NoPull, Saves, NoGuard
  <2> QED BY <2>1, <2>2 DEF OrderInv
<1>2. OrderInv /\ [Next]_vars => OrderInv'
  BY StaysTyped, StaysDated, StaysBased DEF OrderInv
<1>3. ASSUME OrderInv, NEW p \in Pushers, Write(p), work[p].newest, Guard(p) # NoGuard,
             remote \in Saves
      PROVE  work[p].body >= remote
  <2>1. pc[p] = "put" /\ Guard(p) = remote
    BY <1>3 DEF Write, Writes, Matches
  <2>2. work[p].guard = remote
    BY <1>3, <2>1 DEF Guard
  <2> QED BY <1>3, <2>1, <2>2 DEF OrderInv, Based
<1>4. OrderInv => [\A p \in Pushers :
                     Write(p) /\ work[p].newest /\ Guard(p) # NoGuard /\ remote \in Saves
                       => work[p].body >= remote]_vars
  BY <1>3
<1> QED BY <1>1, <1>2, <1>4, PTL DEF Spec, NeverBackwards
=============================================================================
