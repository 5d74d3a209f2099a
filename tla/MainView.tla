------------------------------ MODULE MainView ------------------------------
(***************************************************************************)
(* The main view of the window (frontend/js/main.js): navigation, the      *)
(* listings it starts, the rows it shows, and the connection monitor.      *)
(*                                                                         *)
(* A load is one call of loadView.  Buckets, remote and local folders are  *)
(* one call that answers once; a folder of objects is a stream of pages,   *)
(* which the backend starts to send before the call that opened it has     *)
(* returned.  Any number of loads may be under way, since a new one never  *)
(* waits for an old one: what keeps them apart is viewSeq, the count of    *)
(* loads, listSeq, the count of object listings, and the slot listStream.  *)
(*                                                                         *)
(* JavaScript runs a handler to its next await without interruption, so an *)
(* action is one event: a call of the user or a timer, an answer, a page.  *)
(* A row stands for a page of rows.  The continuation of a parked listing  *)
(* is GridWindow.                                                          *)
(***************************************************************************)
EXTENDS Integers, FiniteSets, History

CONSTANTS
    Places,    \* what can be opened
    Home,      \* where the window opens
    PagesOf,   \* PagesOf[loc]: pages of a folder of objects
    First,     \* pages the first window seats before it parks
    MaxLoads,  \* bound: loads
    MaxFails   \* bound: answers that fail

ASSUME MainViewAssumption ==
    /\ Home \in Places
    /\ \A loc \in Places : PagesOf[loc] \in Nat \ {0}
    /\ First \in Nat \ {0} /\ MaxLoads \in Nat \ {0} /\ MaxFails \in Nat

NoSource == ""
Remote   == {"remote", "local"}
S3       == {loc \in Places : loc.kind \notin Remote}
Sources  == {loc.source : loc \in Places} \ {NoSource}

VARIABLES
    nav,    \* the history
    v,      \* the view: see Blank
    probe,  \* the sources the monitor and a reconnect are probing, if any
    fails   \* failures so far

vars == <<nav, v, probe, fails>>

(* The view before anything was opened.                                     *)
Blank ==
    [src     |-> NoSource,   \* viewSource
     lseq    |-> 0,          \* listSeq
     token   |-> 0,          \* listStream.token: the load whose stream it is
     off     |-> 0,          \* listStream.off: the load it would unsubscribe
     rows    |-> {},         \* the rows of the grid, and currentEntries
     grid    |-> "folded",   \* no session, a session that is open, or done
     overlay |-> "none",     \* the panel over the grid
     streak  |-> 0,          \* conn.streak up to 2, where conn.flagged is set
     banner  |-> NoSource,   \* the source the banner names
     load    |-> <<>>]       \* the loads; viewSeq is their number

Fresh(loc, silent, at) ==
    [loc |-> loc, silent |-> silent, at |-> at,
     lseq  |-> 0,        \* the listSeq it took
     walk  |-> "none",   \* the backend's listing: none, running or over
     sent  |-> 0,        \* pages sent
     live  |-> FALSE,    \* subscribed
     early |-> <<>>,     \* pages that came before the token
     held  |-> 0]        \* pages a silent refresh keeps aside

Error == 0               \* a page that carries an error
Newest(h, i) == i = Len(h.load)
Pages(loc)   == {<<loc, p>> : p \in 1..PagesOf[loc]}
NameOf(h, loc) ==
    LET known == {loc2.source : loc2 \in S3} \ {NoSource}
    IN  IF loc.source # NoSource THEN loc.source
        ELSE IF h.src # NoSource THEN h.src
        ELSE IF known # {} THEN CHOOSE name \in known : TRUE ELSE NoSource

-----------------------------------------------------------------------------
(* The connection streak and its banner *)

Failed(h, name, silent) ==
    IF name = NoSource THEN h
    ELSE [h EXCEPT !.streak = IF @ = 0 THEN 1 ELSE 2,
                   !.banner = IF h.streak > 0 /\ silent THEN name ELSE @]

Healthy(h) == [h EXCEPT !.streak = 0, !.banner = NoSource]

-----------------------------------------------------------------------------
(* The slot of the one object listing *)

Over(h, i)  == [h EXCEPT !.load[i].walk = IF @ = "running" THEN "over" ELSE @]
CancelList(h) == IF h.token = 0 THEN h ELSE [Over(h, h.token) EXCEPT !.token = 0]
Off(h, i)   == [h EXCEPT !.load[i].live = FALSE, !.load[i].early = <<>>]

CancelListStream(h) ==
    LET h1 == CancelList(h)
        h2 == IF h.off = 0 THEN h1 ELSE Off(h1, h.off)
        h3 == IF h.off # 0 /\ h.load[h.off].at = "stream"
              THEN [h2 EXCEPT !.load[h.off].at = "gone"] ELSE h2
    IN  [h3 EXCEPT !.off = 0]

DetachStream(h, i) ==
    [Off(CancelList(h), i) EXCEPT !.load[i].at = "gone",
                                  !.off = IF @ = i THEN 0 ELSE @]

(* An object listing begins: it takes the slot and a new listSeq.  A silent *)
(* refresh leaves a deep view as it is, but only after that.                *)
Begin(h, i) ==
    LET silent == h.load[i].silent
        deep   == (h.grid = "open") \/ (h.grid = "folded" /\ Cardinality(h.rows) > First)
        h1     == [CancelListStream(h) EXCEPT !.lseq = @ + 1, !.load[i].lseq = h.lseq + 1]
        h2     == IF silent THEN h1 ELSE [h1 EXCEPT !.rows = {}, !.grid = "open"]
    IN  IF silent /\ deep THEN [h1 EXCEPT !.load[i].at = "gone"]
        ELSE [h2 EXCEPT !.off = i, !.load[i].at = "begin", !.load[i].live = TRUE,
                        !.load[i].walk = "running"]

(* A listing that ended, or parked its window. *)
Finish(h, done) ==
    Healthy([h EXCEPT !.grid = IF @ = "open" /\ done THEN "done" ELSE @])

(* A page reaches the acceptor of a load that stands on the screen.         *)
Seat(h, i, p) ==
    LET loc   == h.load[i].loc
        done  == p = PagesOf[loc]
        room  == h.grid # "folded" /\ Cardinality(h.rows) < First
        h1    == [h EXCEPT !.overlay = "none",
                           !.rows = IF room \/ done THEN @ \cup {<<loc, p>>} ELSE @]
        full  == (h1.grid = "folded") \/ (Cardinality(h1.rows) >= First)
    IN  IF done \/ full THEN Finish(DetachStream(h1, i), done) ELSE h1

(* A silent refresh keeps its pages aside and swaps the rows once, or gives *)
(* up on a folder that outgrew the first window.                            *)
Keep(h, i, p) ==
    LET loc  == h.load[i].loc
        done == p = PagesOf[loc]
    IN  IF done THEN Finish([DetachStream(h, i) EXCEPT !.rows = Pages(loc), !.grid = "folded"], TRUE)
        ELSE IF h.load[i].held >= First THEN DetachStream(h, i)
        ELSE [h EXCEPT !.load[i].held = @ + 1]

(* A page of a walk that failed ends it: rows stay, the panel covers them.  *)
Broken(h, i) ==
    LET silent == h.load[i].silent
        h1     == Failed([h EXCEPT !.load[i].at = "gone"], h.load[i].loc.source, silent)
    IN  IF silent THEN h1 ELSE [h1 EXCEPT !.overlay = "error"]

Handle(h, i, p) ==
    IF h.load[i].lseq # h.lseq THEN h
    ELSE IF p = Error THEN Broken(h, i)
    ELSE IF h.load[i].silent THEN Keep(h, i, p)
    ELSE Seat(h, i, p)

(* The pages that came early are replayed until the handler is detached. *)
Flush(h, i, pages) ==
    LET seen[n \in 0..Len(pages)] ==
            IF n = 0 THEN h
            ELSE IF seen[n - 1].load[i].live THEN Handle(seen[n - 1], i, pages[n])
            ELSE seen[n - 1]
    IN  seen[Len(pages)]

-----------------------------------------------------------------------------
(* loadView up to its first await *)

(* Once the view source is settled: a folder of objects is listed for the   *)
(* newest load only, a list of buckets is asked for in any case.            *)
Sourced(h, i) ==
    IF h.load[i].loc.kind = "buckets" THEN [h EXCEPT !.load[i].at = "lists"]
    ELSE IF Newest(h, i) THEN Begin(h, i)
    ELSE [h EXCEPT !.load[i].at = "gone"]

LoadView(h, loc, silent) ==
    LET i     == Len(h.load) + 1
        moves == loc.kind \notin Remote /\ loc.source # h.src
        h1    == [h EXCEPT !.overlay = IF silent THEN "none" ELSE "loading",
                           !.load = Append(@, Fresh(loc, silent, IF moves THEN "set" ELSE "lists"))]
    IN  IF loc.kind \in Remote \/ moves THEN h1 ELSE Sourced(h1, i)

Init ==
    /\ nav = Opened(Home)
    /\ v = LoadView(Blank, Home, FALSE)
    /\ probe = [tick |-> NoSource, busy |-> NoSource]
    /\ fails = 0

-----------------------------------------------------------------------------
(* The user and the background *)

MayLoad == Len(v.load) < MaxLoads

Goes(next) ==
    /\ MayLoad
    /\ nav' = next
    /\ v' = LoadView(v, next.current, FALSE)
    /\ UNCHANGED <<probe, fails>>

Navigate(loc) == Goes(To(nav, loc))
GoBack        == nav.stack # <<>> /\ Goes(Back(nav))
GoForward     == nav.forward # <<>> /\ Goes(ForwardGo(nav))

(* A timer, the focus, or a change the backend announces. *)
RefreshSilently ==
    /\ MayLoad
    /\ v' = LoadView(v, nav.current, TRUE)
    /\ UNCHANGED <<nav, probe, fails>>

Dismiss ==
    /\ v.banner # NoSource
    /\ v' = [v EXCEPT !.banner = NoSource]
    /\ UNCHANGED <<nav, probe, fails>>

-----------------------------------------------------------------------------
(* Answers *)

Fails == fails < MaxFails /\ fails' = fails + 1
Keeps == UNCHANGED <<nav, probe>>

(* SetViewSource returns; the name is taken even when it failed. *)
SetReply(i) ==
    /\ v.load[i].at = "set"
    /\ v' = Sourced([v EXCEPT !.src = v.load[i].loc.source], i)
    /\ Keeps /\ UNCHANGED fails

\* mutant: the answer of an older load is shown
Dropped_Never(h, i) == FALSE

(* A newer navigation started. *)
Dropped(h, i) == ~Newest(h, i)

(* ListBuckets, RemoteList or ListLocal returns. *)
Reply(i) ==
    LET gone == [v EXCEPT !.load[i].at = "gone"]
        loc  == v.load[i].loc
    IN  /\ v.load[i].at = "lists"
        /\ v' = IF Dropped(v, i) THEN gone
                ELSE Healthy([gone EXCEPT !.rows = Pages(loc), !.grid = "folded", !.overlay = "none"])
        /\ Keeps /\ UNCHANGED fails

ReplyFails(i) ==
    LET gone == [v EXCEPT !.load[i].at = "gone"]
        loc  == v.load[i].loc
        name == IF loc.kind = "local" THEN NoSource ELSE loc.source
        shown == [gone EXCEPT !.rows = {}, !.grid = "folded", !.overlay = "error"]
    IN  /\ v.load[i].at = "lists"
        /\ Fails
        /\ v' = IF Dropped(v, i) THEN gone
                ELSE IF v.load[i].silent THEN Failed(gone, name, TRUE)
                ELSE Failed(shown, name, FALSE)
        /\ Keeps

\* mutant: the walk of a listing that was superseded while it opened goes on
BeginReply_NoCancel(i) ==
    LET early == v.load[i].early
        h1 == [v EXCEPT !.token = i, !.load[i].at = "stream", !.load[i].early = <<>>]
    IN  /\ v.load[i].at = "begin"
        /\ v' = IF v.load[i].lseq # v.lseq THEN [v EXCEPT !.load[i].at = "gone"]
                ELSE Flush(h1, i, early)
        /\ Keeps /\ UNCHANGED fails

(* The stream is open: the token takes the slot and the early pages are     *)
(* replayed, unless another listing began.                                  *)
BeginReply(i) ==
    LET early == v.load[i].early
        h1 == [v EXCEPT !.token = i, !.load[i].at = "stream", !.load[i].early = <<>>]
    IN  /\ v.load[i].at = "begin"
        /\ v' = IF v.load[i].lseq # v.lseq THEN [Over(v, i) EXCEPT !.load[i].at = "gone"]
                ELSE Flush(h1, i, early)
        /\ Keeps /\ UNCHANGED fails

BeginFails(i) ==
    LET h1 == [Off(v, i) EXCEPT !.load[i].at = "gone", !.load[i].walk = "none",
                                !.off = IF @ = i THEN 0 ELSE @]
    IN  /\ v.load[i].at = "begin" /\ v.load[i].sent = 0 /\ v.load[i].early = <<>>
        /\ Fails
        /\ v' = IF v.load[i].lseq # v.lseq THEN h1 ELSE Broken(h1, i)
        /\ Keeps

\* mutant: a page that beats the token is lost
Deliver_NotEarly(h, i, p) ==
    IF h.load[i].live /\ h.load[i].at = "stream" THEN Handle(h, i, p) ELSE h

(* A page is dispatched to the subscription. *)
Deliver(h, i, p) ==
    IF ~h.load[i].live THEN h
    ELSE IF h.load[i].at = "begin" THEN [h EXCEPT !.load[i].early = Append(@, p)]
    ELSE Handle(h, i, p)

Page(i) ==
    LET p == v.load[i].sent + 1
        last == p = PagesOf[v.load[i].loc]
    IN  /\ v.load[i].walk = "running"
        /\ v' = Deliver([v EXCEPT !.load[i].sent = p,
                                  !.load[i].walk = IF last THEN "over" ELSE @], i, p)
        /\ Keeps /\ UNCHANGED fails

PageFails(i) ==
    /\ v.load[i].walk = "running"
    /\ Fails
    /\ v' = Deliver(Over(v, i), i, Error)
    /\ Keeps

-----------------------------------------------------------------------------
(* The connectivity monitor and the reconnect *)

Tick ==
    LET name == NameOf(v, nav.current)
    IN  /\ probe.tick = NoSource /\ probe.busy = NoSource
        /\ probe' = [probe EXCEPT !.tick = name]
        /\ UNCHANGED <<nav, v, fails>>

(* The view still belongs to the source that was probed. *)
Relevant == probe.tick = NameOf(v, nav.current)

(* A source that answers after a flagged outage gets its view refreshed. *)
TickOk ==
    LET heals == Relevant /\ v.streak = 2
    IN  /\ probe.tick # NoSource
        /\ heals => MayLoad
        /\ v' = IF heals THEN LoadView(Healthy(v), nav.current, TRUE)
                ELSE IF Relevant /\ v.streak > 0 THEN Healthy(v)
                ELSE v
        /\ probe' = [probe EXCEPT !.tick = NoSource]
        /\ UNCHANGED <<nav, fails>>

TickFails ==
    /\ probe.tick # NoSource
    /\ Fails
    /\ v' = IF Relevant THEN Failed(v, probe.tick, TRUE) ELSE v
    /\ probe' = [probe EXCEPT !.tick = NoSource]
    /\ UNCHANGED nav

(* From the banner or the error panel. *)
Reconnect(name) ==
    /\ \/ name = v.banner
       \/ v.overlay = "error" /\ name = NameOf(v, nav.current)
    /\ probe.busy = NoSource
    /\ probe' = [probe EXCEPT !.busy = name]
    /\ UNCHANGED <<nav, v, fails>>

Reconnected ==
    LET reloads == probe.busy = NameOf(v, nav.current)
    IN  /\ probe.busy # NoSource
        /\ reloads => MayLoad
        /\ v' = IF reloads THEN LoadView(Healthy(v), nav.current, FALSE) ELSE Healthy(v)
        /\ probe' = [probe EXCEPT !.busy = NoSource]
        /\ UNCHANGED <<nav, fails>>

ReconnectFails ==
    /\ probe.busy # NoSource
    /\ Fails
    /\ probe' = [probe EXCEPT !.busy = NoSource]
    /\ UNCHANGED <<nav, v>>

-----------------------------------------------------------------------------
Answer(i) ==
    \/ SetReply(i)
    \/ Reply(i) \/ ReplyFails(i)
    \/ BeginReply(i) \/ BeginFails(i)
    \/ Page(i) \/ PageFails(i)

Next ==
    \/ \E loc \in Places : Navigate(loc)
    \/ GoBack \/ GoForward
    \/ RefreshSilently
    \/ Dismiss
    \/ \E i \in DOMAIN v.load : Answer(i)
    \/ Tick \/ TickOk \/ TickFails
    \/ \E name \in Sources : Reconnect(name)
    \/ Reconnected \/ ReconnectFails

Spec == Init /\ [][Next]_vars

(* A call returns and a walk goes on: weak fairness of Answer(i), with the   *)
(* states that enable it written out.                                       *)
Owed(i) ==
    /\ i \in DOMAIN v.load
    /\ v.load[i].at \in {"set", "lists", "begin"} \/ v.load[i].walk = "running"

FairSpec == Spec /\ \A i \in 1..MaxLoads : []<>(~Owed(i)) \/ []<><<Owed(i) /\ Answer(i)>>_vars

-----------------------------------------------------------------------------
Loads == DOMAIN v.load

TypeOK ==
    /\ nav.current \in Places
    /\ \A r \in {"stack", "forward"} : nav[r] \in Seq(Places)
    /\ v.src \in Sources \cup {NoSource} /\ v.banner \in Sources \cup {NoSource}
    /\ v.lseq \in 0..Len(v.load) /\ v.token \in 0..Len(v.load) /\ v.off \in 0..Len(v.load)
    /\ v.rows \subseteq UNION {Pages(loc) : loc \in Places}
    /\ v.grid \in {"folded", "open", "done"} /\ v.overlay \in {"none", "loading", "error"}
    /\ v.streak \in 0..2
    /\ \A i \in Loads :
          /\ v.load[i].loc \in Places /\ v.load[i].silent \in BOOLEAN
          /\ v.load[i].at \in {"set", "lists", "begin", "stream", "gone"}
          /\ v.load[i].walk \in {"none", "running", "over"}
          /\ v.load[i].live \in BOOLEAN
          /\ v.load[i].sent \in 0..PagesOf[v.load[i].loc]
          /\ v.load[i].held \in 0..First
          /\ v.load[i].early \in Seq(0..PagesOf[v.load[i].loc])
    /\ probe.tick \in Sources \cup {NoSource} /\ probe.busy \in Sources \cup {NoSource}

(* The backend walks a folder only for a window that listens: the walk is   *)
(* the one the slot can cancel, or its token is still to come and will be   *)
(* judged then.  A walk nobody can cancel would page a folder of millions.  *)
NoLeakedWalk ==
    \A i \in Loads : v.load[i].walk = "running" =>
        \/ v.load[i].at = "begin"
        \/ v.token = i /\ v.off = i /\ v.load[i].live /\ v.load[i].lseq = v.lseq

(* The newest load has its answer, or the first of it, on the screen.       *)
Landed == \E i \in Loads : /\ Newest(v, i) /\ ~v.load[i].silent
                           /\ v.load[i].at \in {"stream", "gone"}

(* Once a place that was opened has answered, no row of another place is on *)
(* the screen, but for pages of the object listing that was begun last:     *)
(* viewSeq keeps every older answer out, and listSeq older listings.        *)
OwnRows ==
    Landed => \A r \in v.rows :
        \/ r[1] = nav.current
        \/ \E i \in Loads : v.load[i].lseq = v.lseq /\ v.load[i].lseq # 0 /\ r[1] = v.load[i].loc

(* ... and not even those: loadView drops "a response that resolves after a *)
(* NEWER navigation started".                                               *)
NewestWins == Landed => \A r \in v.rows : r[1] = nav.current

(* Neither arrow leads to the place that is open, now or after any number   *)
(* of presses: no place stands next to itself on either stack.              *)
NoDeadArrow ==
    /\ NoRepeat(Append(nav.stack, nav.current))
    /\ NoRepeat(Append(nav.forward, nav.current))

(* A place that was opened and not left or refreshed meanwhile ends with an *)
(* error or with its rows, a first window of them at least: never with a    *)
(* skeleton, and never with a panel that reads as an empty folder.  Places  *)
(* that are no folder of objects are promised this only while no older      *)
(* listing of objects is attached, for it is not canceled (see NewestWins). *)
Shown(i) ==
    \/ v.overlay = "error"
    \/ /\ v.overlay = "none" /\ v.load[i].at = "gone"
       /\ \A p \in 1..PagesOf[v.load[i].loc] : p <= First => <<v.load[i].loc, p>> \in v.rows

Unhindered(i) ==
    \/ v.load[i].loc.kind = "objects"
    \/ v.load[i].at \in {"set", "lists"} /\ v.off = 0

Answered ==
    \A i \in 1..MaxLoads :
        (i \in Loads /\ Newest(v, i) /\ ~v.load[i].silent /\ Unhindered(i))
            ~> (~Newest(v, i) \/ Shown(i))
==============================================================================
