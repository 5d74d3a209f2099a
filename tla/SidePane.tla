------------------------------ MODULE SidePane ------------------------------
(***************************************************************************)
(* The second pane of the window (frontend/js/local.js): the source it is  *)
(* bound to, its history, and the listings it starts.                      *)
(*                                                                         *)
(* Unlike the main view the pane may hold any kind of source, and keeps    *)
(* two counts: navSeq of local and remote listings, s3Seq of everything    *)
(* S3.  A load is one call that lists: a folder, or a step that first asks *)
(* the backend for a path and then lists.  What comes back is judged by    *)
(* the count of its kind, while the binding may have changed.              *)
(*                                                                         *)
(* A place is [src, bucket, dir]: dir is the sequence of its segments,     *)
(* <<>> of the workstation is its list of drives, and S3 without a bucket  *)
(* is its list of buckets.  A row stands for a page of rows.               *)
(***************************************************************************)
EXTENDS Integers, FiniteSets, Sequences, SequencesExt

CONSTANTS
    Places,    \* what can be opened
    BucketOf,  \* BucketOf[src]: the bucket an S3 source opens, or NoBucket
    HomeDir,   \* the workstation's home folder
    PagesOf,   \* PagesOf[place]: pages of a folder of objects
    First,     \* pages of a window
    MaxLoads,  \* bound: loads
    MaxFails   \* bound: answers that fail

NoBucket == ""
Local    == "local"
(* What the places, the buckets of the sources and the home folder name. *)
Sources  == {e.src : e \in Places} \cup {Local}
Buckets  == {e.bucket : e \in Places} \cup {BucketOf[src] : src \in DOMAIN BucketOf} \cup {NoBucket}
Dirs     == Seq(UNION {ToSet(e.dir) : e \in Places} \cup ToSet(HomeDir))
Entries  == [src : Sources, bucket : Buckets, dir : Dirs]
Kind(src) == CASE src = Local -> "local" [] src \in DOMAIN BucketOf -> "s3" [] OTHER -> "remote"

ASSUME SidePaneAssumption ==
    /\ Places \subseteq Entries /\ HomeDir \in Dirs
    /\ DOMAIN BucketOf \subseteq Sources \ {Local}
    /\ \A e \in Places : PagesOf[e] \in Nat \ {0} /\ (Kind(e.src) # "s3" => e.bucket = NoBucket)
    /\ HomeDir # <<>>
    /\ First \in Nat \ {0} /\ MaxLoads \in Nat \ {0} /\ MaxFails \in Nat

Place(src, bucket, dir) == [src |-> src, bucket |-> bucket, dir |-> dir]
Drives   == Place(Local, NoBucket, <<>>)
(* A folder nobody made is listed as empty: one page. *)
Pages(e) == IF e \in Places THEN PagesOf[e] ELSE 1
Rows(e)  == {<<e, n>> : n \in 1..Pages(e)}

VARIABLES
    p,     \* the pane: see Closed
    fails  \* failures so far

vars == <<p, fails>>

Closed ==
    [bound   |-> FALSE,
     src     |-> Local,      \* binding.source
     bucket  |-> NoBucket,
     dir     |-> <<>>,
     listed  |-> FALSE,      \* hasListed: a listing has landed for the binding
     hist    |-> <<>>,
     futr    |-> <<>>,
     nav     |-> 0,          \* navSeq
     s3      |-> 0,          \* s3Seq
     token   |-> 0,          \* s3Token: the load whose stream it is
     off     |-> 0,          \* s3Off: the load it would unsubscribe
     rows    |-> {},         \* the rows of the grid
     grid    |-> "folded",   \* no session, a session that is open, or done
     target  |-> 0,          \* the grid's winTarget
     need    |-> FALSE,      \* the grid's needDown
     wired   |-> FALSE,      \* grid.on.needRows is set
     skel    |-> FALSE,      \* the skeleton of setLoading
     load    |-> <<>>,       \* the loads
     last    |-> 0]          \* the navigation that was begun last

Error == 0                   \* a page that carries an error

(* A load: what it is about, where it stands, the count it took. *)
Fresh(at, e) ==
    [at |-> at, e |-> e, seq |-> 0,
     demand |-> FALSE,       \* extendS3: one more window
     walk   |-> "none",      \* the backend's listing: none, running or over
     from   |-> 0,           \* page it walks on from
     sent   |-> 0,           \* last page sent
     live   |-> FALSE,       \* subscribed
     early  |-> <<>>]        \* pages that came before the token

Count(h, i) == IF Kind(h.load[i].e.src) = "s3" THEN h.s3 ELSE h.nav
Superseded(h, i) == h.load[i].seq # Count(h, i)
Leave(h, i, how) == [h EXCEPT !.load[i].at = how]

-----------------------------------------------------------------------------
(* The slot of the one S3 listing *)

Over(h, i) == [h EXCEPT !.load[i].walk = IF @ = "running" THEN "over" ELSE @]
Off(h, i)  == [h EXCEPT !.load[i].live = FALSE, !.load[i].early = <<>>]

CancelS3Stream(h) ==
    LET h1 == IF h.token = 0 THEN h ELSE Over(h, h.token)
        h2 == IF h.off = 0 THEN h1 ELSE Off(h1, h.off)
        h3 == IF h.token = 0 THEN h2 ELSE Leave(h2, h.token, "gone")
    IN  [h3 EXCEPT !.s3 = @ + 1, !.token = 0, !.off = 0]

\* mutant: the stream of the binding that is left goes on
BindTo_KeepsStream(h, src) ==
    LET bucket == CASE Kind(src) = "s3" -> BucketOf[src]
                    [] src = Local -> NoBucket
                    [] OTHER -> h.bucket
    IN  [h EXCEPT !.src = src, !.bucket = bucket, !.dir = <<>>, !.bound = TRUE, !.listed = FALSE]

(* The binding changes at once; the rows stay until something lands. *)
BindTo(h, src) ==
    LET bucket == CASE Kind(src) = "s3" -> BucketOf[src]
                    [] src = Local -> NoBucket
                    [] OTHER -> h.bucket
    IN  [CancelS3Stream(h) EXCEPT !.src = src, !.bucket = bucket, !.dir = <<>>,
                                  !.bound = TRUE, !.listed = FALSE]

-----------------------------------------------------------------------------
(* Listings.  Load i begins one, up to its first await. *)

Settled(h, rows) ==
    [h EXCEPT !.rows = rows, !.grid = "folded", !.target = 0, !.need = FALSE,
              !.skel = FALSE, !.listed = TRUE]

ListFail(h) == [h EXCEPT !.skel = FALSE]

(* setRows and settled at once: the drives are known. *)
ShowRoots(h, i) ==
    [Settled(h, Rows(Drives)) EXCEPT !.dir = <<>>, !.load[i] = Fresh("gone", Drives), !.last = i]

Begins(h, i, load) == [h EXCEPT !.load[i] = load, !.last = i, !.skel = TRUE]

(* navigate of the workstation, and navigateRemote. *)
NavigateCall(h, i, dir) ==
    LET load == [Fresh("lists", Place(h.src, NoBucket, dir)) EXCEPT !.seq = h.nav + 1]
    IN  [Begins(h, i, load) EXCEPT !.nav = @ + 1, !.wired = FALSE]

Subscribed(h, i, load) ==
    [h EXCEPT !.off = i,
              !.load[i] = [load EXCEPT !.at = "begin", !.seq = h.s3, !.live = TRUE, !.walk = "running"]]

\* mutant: the pane is where it is going before anything has landed
NavigateS3_Early(h, i, bucket, dir) ==
    LET h1   == [CancelS3Stream(h) EXCEPT !.bucket = bucket, !.dir = dir]
        load == [Fresh("lists", Place(h.src, bucket, dir)) EXCEPT !.seq = h1.s3]
    IN  IF bucket = NoBucket THEN Begins(h1, i, load)
        ELSE [Subscribed(Begins(h1, i, load), i, load) EXCEPT !.wired = TRUE]

NavigateS3(h, i, bucket, dir) ==
    LET h1   == CancelS3Stream(h)
        load == [Fresh("lists", Place(h.src, bucket, dir)) EXCEPT !.seq = h1.s3]
    IN  IF bucket = NoBucket THEN Begins(h1, i, load)
        ELSE [Subscribed(Begins(h1, i, load), i, load) EXCEPT !.wired = TRUE]

(* By the binding there is now. *)
Navigate(h, i, dir) ==
    IF Kind(h.src) = "s3" THEN NavigateS3(h, i, h.bucket, dir) ELSE NavigateCall(h, i, dir)

NavEntry(h, i, e) ==
    LET h1 == IF e.src = h.src THEN h ELSE BindTo(h, e.src)
    IN  CASE Kind(e.src) = "s3" -> NavigateS3(h1, i, e.bucket, e.dir)
          [] e = Drives         -> ShowRoots(h1, i)
          [] OTHER              -> NavigateCall(h1, i, e.dir)

(* The opening view of the binding; home must be asked for. *)
Start(h, i) ==
    CASE Kind(h.src) = "s3"     -> NavigateS3(h, i, BucketOf[h.src], <<>>)
      [] Kind(h.src) = "remote" -> NavigateCall(h, i, h.dir)
      [] OTHER                  -> [h EXCEPT !.load[i] = Fresh("start", Drives)]

-----------------------------------------------------------------------------
(* History *)

Snapshot(h) == Place(h.src, IF Kind(h.src) = "s3" THEN h.bucket ELSE NoBucket, h.dir)

PathOf(e) == IF e.bucket = NoBucket THEN e.dir ELSE <<e.bucket>> \o e.dir
EntryAncestorOf(up, e) == up.src = e.src /\ IsStrictPrefix(PathOf(up), PathOf(e))

Went(h, e) ==
    LET from == Snapshot(h)
    IN  IF ~(h.bound /\ h.listed) THEN [h EXCEPT !.futr = <<>>]
        ELSE IF from = e THEN h
        ELSE [h EXCEPT !.hist = Append(@, from),
                       !.futr = IF EntryAncestorOf(e, from) THEN Append(@, from) ELSE <<>>]

GoTo(h, i, e) == NavEntry(Went(h, e), i, e)

-----------------------------------------------------------------------------
(* Pages of a stream *)

(* The window of the grid takes a page while it has room; the last page of  *)
(* a folder lands in any case.                                              *)
Seat(h, i, n) ==
    LET e     == h.load[i].e
        done  == n = Pages(e)
        room  == Cardinality(h.rows) < h.target
        h1    == [h EXCEPT !.rows = IF room \/ done THEN @ \cup {<<e, n>>} ELSE @]
        h2    == IF h.load[i].demand THEN h1 ELSE [h1 EXCEPT !.skel = FALSE, !.listed = TRUE]
        full  == Cardinality(h1.rows) >= h1.target
    IN  IF done \/ full
        THEN [CancelS3Stream(h2) EXCEPT !.need = FALSE,
                 !.grid = IF done /\ @ = "open" THEN "done" ELSE @]
        ELSE h2

Handle(h, i, n) ==
    IF Superseded(h, i) THEN h
    ELSE IF n = Error THEN Leave([CancelS3Stream(ListFail(h)) EXCEPT !.need = FALSE], i, "failed")
    ELSE Seat(h, i, n)

\* mutant: what came before the token is not replayed
Flush_Drops(h, i, pages) == h

(* The pages that came early are replayed until the handler is detached. *)
Flush(h, i, pages) ==
    LET seen[n \in 0..Len(pages)] ==
            IF n = 0 THEN h
            ELSE IF seen[n - 1].load[i].live THEN Handle(seen[n - 1], i, pages[n])
            ELSE seen[n - 1]
    IN  seen[Len(pages)]

Deliver(h, i, n) ==
    IF ~h.load[i].live THEN h
    ELSE IF h.load[i].at = "begin" THEN [h EXCEPT !.load[i].early = Append(@, n)]
    ELSE Handle(h, i, n)

-----------------------------------------------------------------------------
(* The user and the background *)

Init == p = Closed /\ fails = 0

(* A call that takes a new load, which starts as nothing. *)
Calls(F(_, _)) ==
    /\ Len(p.load) < MaxLoads
    /\ p' = F([p EXCEPT !.load = Append(@, Fresh("gone", Drives))], Len(p.load) + 1)
    /\ UNCHANGED fails

(* A row, the crumb, the tree, the picker: a fresh pane binds first. *)
Open(e) ==
    LET opened(h, i) ==
            IF h.bound THEN GoTo(h, i, e)
            ELSE GoTo([BindTo(h, e.src) EXCEPT !.hist = <<>>, !.futr = <<>>], i, e)
    IN  Calls(opened)

GoBack ==
    LET back(h, i) == NavEntry([h EXCEPT !.futr = Append(@, Snapshot(h)), !.hist = Front(@)],
                               i, Last(h.hist))
    IN  p.hist # <<>> /\ Calls(back)

GoForward ==
    LET forward(h, i) == NavEntry([h EXCEPT !.hist = Append(@, Snapshot(h)), !.futr = Front(@)],
                                  i, Last(h.futr))
    IN  p.futr # <<>> /\ Calls(forward)

(* One hop up; the workstation must ask for the parent first. *)
Up ==
    LET above == IF p.dir # <<>> THEN Place(p.src, Snapshot(p).bucket, Front(p.dir))
                 ELSE Place(p.src, NoBucket, <<>>)
        climbs(h, i) == IF p.src = Local THEN [h EXCEPT !.load[i] = Fresh("up", above)]
                        ELSE GoTo(h, i, above)
    IN  /\ \/ p.dir # <<>>
           \/ Kind(p.src) = "s3" /\ p.bucket # NoBucket /\ BucketOf[p.src] = NoBucket
        /\ Calls(climbs)

Refresh ==
    LET again(h, i) ==
            CASE Kind(h.src) = "s3"          -> NavigateS3(h, i, h.bucket, h.dir)
              [] h.src = Local /\ h.dir = <<>> -> [h EXCEPT !.load[i] = Fresh("roots", Drives)]
              [] OTHER                       -> NavigateCall(h, i, h.dir)
    IN  p.bound /\ Calls(again)

Rebind(src) ==
    LET anew(h, i) == Start([BindTo(h, src) EXCEPT !.hist = <<>>, !.futr = <<>>], i)
    IN  Calls(anew)

(* The pane is shown: it opens what is remembered, or its opening view. *)
Show(e) ==
    LET restore(h, i) == NavEntry(BindTo(h, e.src), i, e)
        start(h, i)   == Start(IF h.bound THEN h ELSE BindTo(h, Local), i)
    IN  \/ ~p.bound /\ p.load = <<>> /\ e # Drives /\ Calls(restore)
        \/ ~(p.bound /\ p.listed) /\ Calls(start)

(* The source of the binding is gone, or the session is cleared. *)
Reset ==
    /\ p.bound
    /\ p' = [Settled(CancelS3Stream(p), {}) EXCEPT
                 !.bound = FALSE, !.listed = FALSE, !.hist = <<>>, !.futr = <<>>]
    /\ UNCHANGED fails

(* A pick of the search window opens its folder; for a file of the          *)
(* workstation it must be asked for first.                                  *)
GotoHit(e) ==
    LET jumps(h, i) == NavEntry(h, i, e)
        asks(h, i)  == [h EXCEPT !.load[i] = Fresh("hit", e)]
    IN  /\ p.bound /\ e # Drives
        /\ Calls(jumps) \/ (e.src = Local /\ Calls(asks))

(* The grid wants the next window: the viewport is at the edge of its rows. *)
ExtendS3 ==
    LET load == [Fresh("begin", Snapshot(p)) EXCEPT !.demand = TRUE,
                                             !.from = Cardinality(p.rows), !.sent = Cardinality(p.rows)]
        more(h, i) == Subscribed([CancelS3Stream(h) EXCEPT
                          !.need = TRUE, !.target = Cardinality(h.rows) + First], i, load)
    IN  /\ p.wired /\ p.grid = "open" /\ ~p.need
        /\ Kind(p.src) = "s3" /\ p.bucket # NoBucket
        /\ Cardinality(p.rows) < Pages(Snapshot(p))
        /\ Calls(more)

-----------------------------------------------------------------------------
(* Answers *)

Fails == fails < MaxFails /\ fails' = fails + 1

(* LocalHome, LocalParent or LocalRoots returns, whatever the pane shows.   *)
PathReply(i) ==
    LET e == p.load[i].e
    IN  /\ p' = CASE p.load[i].at = "start" -> Navigate(p, i, HomeDir)
                  [] p.load[i].at = "up"    -> GoTo(p, i, e)
                  [] p.load[i].at = "hit"   -> NavEntry(p, i, e)
                  [] p.load[i].at = "roots" -> ShowRoots(p, i)
        /\ UNCHANGED fails

StartFails(i) ==
    /\ p.load[i].at = "start"
    /\ Fails
    /\ p' = Leave(ListFail(p), i, "failed")

(* ListLocal, RemoteList or ListSourceBuckets returns. *)
ListReply(i) ==
    LET e == p.load[i].e
        landed == [Settled(p, Rows(e)) EXCEPT
                      !.dir = e.dir,
                      !.bucket = IF Kind(e.src) = "s3" THEN NoBucket ELSE @,
                      !.wired = IF Kind(e.src) = "s3" THEN FALSE ELSE @]
    IN  /\ p.load[i].at = "lists"
        /\ p' = Leave(IF Superseded(p, i) THEN p ELSE landed, i, "gone")
        /\ UNCHANGED fails

ListFails(i) ==
    /\ p.load[i].at = "lists"
    /\ Fails
    /\ p' = Leave(IF Superseded(p, i) THEN p ELSE ListFail(p), i, "failed")

\* mutant: the walk of a listing that was superseded while it opened goes on
BeginReply_NoCancel(i) ==
    LET load == p.load[i]
        h1   == [p EXCEPT !.token = i, !.load[i].at = "stream", !.load[i].early = <<>>]
        h2   == [h1 EXCEPT !.bucket = load.e.bucket, !.dir = load.e.dir, !.rows = {},
                           !.grid = "open", !.target = First, !.need = TRUE]
    IN  /\ load.at = "begin"
        /\ p' = IF Superseded(p, i) THEN Leave(p, i, "gone")
                ELSE Flush(IF load.demand THEN h1 ELSE h2, i, load.early)
        /\ UNCHANGED fails

(* The stream is open: now the pane moves, its rows go, and the pages that  *)
(* came early are replayed.                                                 *)
BeginReply(i) ==
    LET load == p.load[i]
        h1   == [p EXCEPT !.token = i, !.load[i].at = "stream", !.load[i].early = <<>>]
        h2   == [h1 EXCEPT !.bucket = load.e.bucket, !.dir = load.e.dir, !.rows = {},
                           !.grid = "open", !.target = First, !.need = TRUE]
    IN  /\ load.at = "begin"
        /\ p' = IF Superseded(p, i) THEN Leave(Over(p, i), i, "gone")
                ELSE Flush(IF load.demand THEN h1 ELSE h2, i, load.early)
        /\ UNCHANGED fails

BeginFails(i) ==
    LET h1 == [Off(p, i) EXCEPT !.load[i].at = "failed", !.load[i].walk = "none",
                                !.off = IF @ = i THEN 0 ELSE @]
    IN  /\ p.load[i].at = "begin" /\ p.load[i].walk = "running"
        /\ p.load[i].sent = p.load[i].from
        /\ Fails
        /\ p' = IF Superseded(p, i) THEN h1 ELSE [ListFail(h1) EXCEPT !.need = FALSE]

Page(i) ==
    LET n == p.load[i].sent + 1
        last == n = Pages(p.load[i].e)
    IN  /\ p.load[i].walk = "running"
        /\ p' = Deliver([p EXCEPT !.load[i].sent = n,
                                  !.load[i].walk = IF last THEN "over" ELSE @], i, n)
        /\ UNCHANGED fails

PageFails(i) ==
    /\ p.load[i].walk = "running"
    /\ Fails
    /\ p' = Deliver(Over(p, i), i, Error)

-----------------------------------------------------------------------------
Paths == {"start", "up", "hit", "roots"}

Answer(i) ==
    \/ p.load[i].at \in Paths /\ PathReply(i)
    \/ StartFails(i)
    \/ ListReply(i) \/ ListFails(i)
    \/ BeginReply(i) \/ BeginFails(i)
    \/ Page(i) \/ PageFails(i)

Next ==
    \/ \E e \in Places : Open(e) \/ Show(e) \/ GotoHit(e)
    \/ GoBack \/ GoForward \/ Up
    \/ Refresh
    \/ \E src \in Sources : Rebind(src)
    \/ Reset
    \/ ExtendS3
    \/ \E i \in DOMAIN p.load : Answer(i)

Spec == Init /\ [][Next]_vars

(* Calls return and walks go on: weak fairness of Answer(i), with the       *)
(* states that enable it written out.                                       *)
Owed(i) ==
    /\ i \in DOMAIN p.load
    /\ p.load[i].at \in Paths \cup {"lists", "begin"} \/ p.load[i].walk = "running"

FairSpec == Spec /\ \A i \in 1..MaxLoads : []<>(~Owed(i)) \/ []<><<Owed(i) /\ Answer(i)>>_vars

-----------------------------------------------------------------------------
Loads == DOMAIN p.load

TypeOK ==
    /\ p.bound \in BOOLEAN /\ p.listed \in BOOLEAN /\ p.need \in BOOLEAN
    /\ p.wired \in BOOLEAN /\ p.skel \in BOOLEAN
    /\ Snapshot(p) \in Entries /\ p.hist \in Seq(Entries) /\ p.futr \in Seq(Entries)
    /\ p.nav \in 0..Len(p.load) /\ p.s3 \in Nat
    /\ p.token \in 0..Len(p.load) /\ p.off \in 0..Len(p.load) /\ p.last \in 0..Len(p.load)
    /\ \A r \in p.rows : r[1] \in Entries /\ r[2] \in 1..Pages(r[1])
    /\ p.grid \in {"folded", "open", "done"} /\ p.target \in Nat
    /\ \A i \in Loads :
          /\ p.load[i].at \in Paths \cup {"lists", "begin", "stream", "gone", "failed"}
          /\ p.load[i].e \in Entries /\ p.load[i].seq \in 0..Count(p, i)
          /\ p.load[i].demand \in BOOLEAN /\ p.load[i].live \in BOOLEAN
          /\ p.load[i].walk \in {"none", "running", "over"}
          /\ p.load[i].from <= p.load[i].sent /\ p.load[i].sent \in 0..Pages(p.load[i].e)
          /\ p.load[i].early \in Seq(0..Pages(p.load[i].e))
    /\ fails \in 0..MaxFails

(* The backend pages a folder only for a pane that listens and can cancel   *)
(* it, or that will learn the token and judge it then.                      *)
NoLeakedWalk ==
    \A i \in Loads : p.load[i].walk = "running" =>
        \/ p.load[i].at = "begin"
        \/ p.token = i /\ p.off = i /\ p.load[i].live /\ ~Superseded(p, i)

(* No page of an S3 listing lands in a pane that was bound to another       *)
(* source meanwhile: once anything has landed for a binding, S3 rows are of *)
(* that binding.  (Local and remote answers are not kept out like this.)    *)
S3RowsAreBound ==
    p.bound /\ p.listed => \A r \in p.rows : Kind(r[1].src) = "s3" => r[1].src = p.src

(* Drops, new folders and refreshes go by bucket and dir, the eye by the    *)
(* rows: while the rows are of the binding both name one place.             *)
ActsOnShown ==
    (p.bound /\ p.listed /\ \A r \in p.rows : r[1].src = p.src)
        => \A r \in p.rows : r[1] = Snapshot(p)

(* What is put on the screen was listed by the newest listing of its count, *)
(* which is still under way, or it is the drives: older answers of the same *)
(* kind are dropped, and so are pages after the end of their stream.        *)
FromNewest ==
    \A r \in p'.rows \ p.rows :
        \/ r[1] = Drives
        \/ \E i \in Loads : /\ p.load[i].e = r[1] /\ ~Superseded(p, i)
                             /\ p.load[i].at \in {"lists", "begin", "stream"}

NewestOfItsKind == [][FromNewest]_vars

(* A folder that was opened ends with its rows or with a failure that was   *)
(* told, and not under the skeleton, unless the user left it: navigated     *)
(* again, bound the pane to another source or cleared it.  Of folders of    *)
(* objects there are two exceptions, where the code leaves the skeleton up. *)
(* Nothing is promised while a local or remote listing is still expected,   *)
(* whose answer would not be kept out; and a window that the grid asks for  *)
(* after the folder was opened takes the slot of the listing that opens it. *)
Shown(i) ==
    /\ ~p.skel
    /\ \/ p.load[i].at = "failed"
       \/ p.load[i].at = "gone" /\ \A n \in 1..Pages(p.load[i].e) :
              n <= First => <<p.load[i].e, n>> \in p.rows

Unhindered(i) ==
    Kind(p.load[i].e.src) = "s3" =>
        \A j \in Loads : p.load[j].at = "lists" /\ Kind(p.load[j].e.src) # "s3" => Superseded(p, j)

Overtaken(i) == \E j \in Loads : j > i /\ p.load[j].demand

Left(i) == p.last # i \/ ~p.bound \/ p.src # p.load[i].e.src

Answered ==
    \A i \in 1..MaxLoads :
        (/\ i \in Loads /\ p.last = i /\ p.load[i].at \in {"lists", "begin"}
         /\ p.bound /\ Unhindered(i))
            ~> (Left(i) \/ Overtaken(i) \/ Shown(i))
==============================================================================
