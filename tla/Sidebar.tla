------------------------------- MODULE Sidebar -------------------------------
(***************************************************************************)
(* The tree of data sources (frontend/js/tree.js): folders are listed when *)
(* they are first needed, by a twist, a reveal of the view that was opened,*)
(* the filter's preload of the sources, or its deep walk of everything;    *)
(* and the main view feeds the folders it lists.  Any number of listings   *)
(* is under way at once, and any click may come between them.              *)
(*                                                                         *)
(* The folders themselves do not change here.  A deep walk visits them in  *)
(* Order, parents first, which is how its recursion runs; it is resumed by *)
(* the listing it waits for, so its place is the node of that listing.     *)
(***************************************************************************)
EXTENDS Integers, Sequences, FiniteSets, SequencesExt

CONSTANTS
    Order,     \* the nodes, depth first, sources in the order they are walked
    Parent,    \* Parent[n]: the folder above, or n itself for a source
    Buckets,   \* sources that are S3 buckets
    MaxTurns,  \* bound: what the user and the view do
    MaxFails   \* bound: listings that fail

Nodes   == Range(Order)
Sources == {n \in Nodes : Parent[n] = n}

ASSUME SidebarAssumption ==
    /\ Order \in Seq(Nodes)
    /\ Parent \in [Nodes -> Nodes] /\ Buckets \subseteq Sources
    /\ MaxTurns \in Nat /\ MaxFails \in Nat

\* A folder hangs below its source: the order has every parent before its rows.
ASSUME ParentsFirst ==
    \A i \in DOMAIN Order :
        Parent[Order[i]] = Order[i] \/ \E j \in 1..(i - 1) : Order[j] = Parent[Order[i]]

VARIABLES
    t,      \* the tree: see Closed
    turns,  \* turns taken
    fails   \* listings that failed

vars == <<t, turns, fails>>

Kids(n) == {k \in Nodes \ {n} : Parent[k] = n}
Path[n \in Nodes] == IF Parent[n] = n THEN <<n>> ELSE Append(Path[Parent[n]], n)
Above(n) == Range(Path[n]) \ {n}
Place(n) == CHOOSE i \in DOMAIN Order : Order[i] = n

(* A listing under way: of which node, who asked, and what a reveal opens   *)
(* next.  An "aborted" walk is one whose generation is over.                *)
Listing(n, by, rest) == [node |-> n, by |-> by, rest |-> rest]
Callers == {"expand", "reveal", "preload", "walk", "aborted"}

Closed ==
    [known    |-> [n \in Nodes |-> n \in Sources],   \* in the nodes map
     expanded |-> [n \in Nodes |-> FALSE],
     loaded   |-> [n \in Nodes |-> FALSE],
     kids     |-> [n \in Nodes |-> FALSE],           \* its rows hang below it
     calls    |-> {},                                \* listings under way
     filter   |-> FALSE,
     deep     |-> FALSE,                             \* the deep walk is wanted
     active   |-> FALSE]                             \* walkActive

Init == t = Closed /\ turns = 0 /\ fails = 0

Loading(h) == {c.node : c \in h.calls}

-----------------------------------------------------------------------------
(* Listing *)

\* mutant: a node may be listed twice at a time
LoadChildren_Again(h, n, by, rest) ==
    IF h.loaded[n] THEN h ELSE [h EXCEPT !.calls = @ \cup {Listing(n, by, rest)}]

(* A node that is loaded or being listed is not listed again, and the       *)
(* caller goes on at once.                                                  *)
LoadChildren(h, n, by, rest) ==
    IF h.loaded[n] \/ n \in Loading(h) THEN h
    ELSE [h EXCEPT !.calls = @ \cup {Listing(n, by, rest)}]

Expanded(h, n) ==
    IF h.known[n] THEN LoadChildren([h EXCEPT !.expanded[n] = TRUE], n, "expand", <<>>) ELSE h

(* A reveal opens the path from the top and waits for every listing it      *)
(* starts, for none that another has under way.                             *)
Waits(h, n) == h.known[n] /\ ~h.loaded[n] /\ n \notin Loading(h)

RevealPath(h, path) ==
    LET stops == {i \in DOMAIN path : Waits(h, path[i])}
        stop  == IF stops = {} THEN Len(path) ELSE CHOOSE i \in stops : \A j \in stops : i <= j
        opens == {n \in Range(SubSeq(path, 1, stop)) : h.known[n]}
        h1    == [h EXCEPT !.expanded = [n \in Nodes |-> @[n] \/ n \in opens]]
    IN  IF stops = {} THEN h1
        ELSE LoadChildren(h1, path[stop], "reveal", SubSeq(path, stop + 1, Len(path)))

\* mutant: the rows that stay open are not listed again
Rebuilt_Shut(h, n) ==
    [h EXCEPT !.known  = [k \in Nodes |-> @[k] \/ k \in Kids(n)],
              !.loaded = [k \in Nodes |-> IF k \in Kids(n) THEN FALSE ELSE @[k] \/ k = n],
              !.kids[n] = TRUE]

(* The rows of a node are built from a listing: rows that survive keep      *)
(* their state but must be listed again, the open ones at once.             *)
Rebuilt(h, n) ==
    LET again == {k \in Kids(n) : h.expanded[k] /\ k \notin Loading(h)}
    IN  [h EXCEPT !.known  = [k \in Nodes |-> @[k] \/ k \in Kids(n)],
                  !.loaded = [k \in Nodes |-> IF k \in Kids(n) THEN FALSE ELSE @[k] \/ k = n],
                  !.kids[n] = TRUE,
                  !.calls  = @ \cup {Listing(k, "expand", <<>>) : k \in again}]

-----------------------------------------------------------------------------
(* The deep walk *)

\* mutant: the generation is not raised
AbortWalk_SameGen(h) == [h EXCEPT !.active = FALSE]

Outdated(h)  == [h EXCEPT !.calls = {IF c.by = "walk" THEN [c EXCEPT !.by = "aborted"] ELSE c : c \in @}]
AbortWalk(h) == [Outdated(h) EXCEPT !.active = FALSE]

\* mutant: the end of the walk is not told
WalkOn_NeverEnds(h, i, skip) ==
    LET next == {j \in (i + 1)..Len(Order) :
                    /\ ~h.loaded[Order[j]] /\ Order[j] \notin Loading(h)
                    /\ \A m \in Above(Order[j]) : h.kids[m] /\ m \notin skip}
    IN  IF next = {} THEN h
        ELSE LoadChildren(h, Order[CHOOSE j \in next : \A k \in next : j <= k], "walk", <<>>)

(* It goes on to the next node that hangs in the tree and must be listed,   *)
(* from place i; skip is the node whose rows it leaves out.                 *)
WalkOn(h, i, skip) ==
    LET next == {j \in (i + 1)..Len(Order) :
                    /\ ~h.loaded[Order[j]] /\ Order[j] \notin Loading(h)
                    /\ \A m \in Above(Order[j]) : h.kids[m] /\ m \notin skip}
    IN  IF next = {} THEN [h EXCEPT !.active = FALSE]
        ELSE LoadChildren(h, Order[CHOOSE j \in next : \A k \in next : j <= k], "walk", <<>>)

StartWalk(h) == WalkOn([Outdated(h) EXCEPT !.active = TRUE], 0, {})

-----------------------------------------------------------------------------
(* Answers *)

Answered(c) == [t EXCEPT !.calls = @ \ {c}]

Lands(c) ==
    LET h == Rebuilt(Answered(c), c.node)
    IN  /\ t' = CASE c.by = "walk"   -> WalkOn(h, Place(c.node), {})
                  [] c.by = "reveal" -> RevealPath(h, c.rest)
                  [] OTHER           -> h
        /\ UNCHANGED <<turns, fails>>

LandsNot(c) ==
    LET h    == Answered(c)
        shut == [h EXCEPT !.expanded[c.node] = FALSE]
    IN  /\ fails < MaxFails
        /\ fails' = fails + 1
        /\ t' = CASE c.by = "walk"   -> WalkOn(h, Place(c.node), {c.node})
                  [] c.by = "reveal" -> RevealPath(shut, c.rest)
                  [] c.by = "expand" -> shut
                  [] OTHER           -> h
        /\ UNCHANGED turns

-----------------------------------------------------------------------------
(* The user and the main view *)

Turn(h) == turns < MaxTurns /\ turns' = turns + 1 /\ t' = h /\ UNCHANGED fails

Expand(n)   == t.known[n] /\ ~t.expanded[n] /\ Turn(Expanded(t, n))
Collapse(n) == t.expanded[n] /\ Turn([t EXCEPT !.expanded[n] = FALSE])
CollapseAll == Turn([t EXCEPT !.expanded = [n \in Nodes |-> FALSE]])

(* Under a filter a twist lists the folder without opening it for later. *)
Twist(n) == t.filter /\ Waits(t, n) /\ Turn(LoadChildren(t, n, "preload", <<>>))

Reload(n) ==
    /\ t.known[n]
    /\ Turn(Expanded([t EXCEPT !.loaded[n] = FALSE, !.kids[n] = FALSE], n))

(* The view that was opened: a bucket is looked for under its source first. *)
(* The keys made for the folders of a remote place lack the slash that those *)
(* of its nodes begin with: below the source none is found, none is opened. *)
Reveal(n) ==
    LET top  == <<Path[n][1]>>
        path == IF Path[n][1] \in Buckets THEN top \o Path[n] ELSE top
    IN  Turn(RevealPath(t, path))

(* The view has listed a folder.  A bucket's folder is left alone when its  *)
(* rows are those it has.                                                   *)
UpdateDir(n) ==
    /\ t.known[n]
    /\ ~(Path[n][1] \in Buckets /\ t.loaded[n])
    /\ Turn([Rebuilt(t, n) EXCEPT !.expanded[n] = TRUE])

SetSources ==
    LET open == {n \in Sources : t.expanded[n] /\ Waits(t, n)}
        h == [Outdated(t) EXCEPT !.calls = @ \cup {Listing(n, "expand", <<>>) : n \in open}]
    IN  Turn(IF t.filter /\ t.deep THEN StartWalk(h) ELSE h)

(* A pattern, a cleared one, or the same pattern applied again. *)
SetFilter(on, changed) ==
    LET h1 == [IF changed THEN AbortWalk(t) ELSE t
                  EXCEPT !.filter = on, !.deep = t.deep /\ on]
        h2 == [h1 EXCEPT !.calls = @ \cup
                  {Listing(n, "preload", <<>>) : n \in {m \in Sources : Waits(h1, m)}}]
    IN  /\ changed \/ on = t.filter
        /\ on \/ t.filter
        /\ Turn(IF ~on THEN h1 ELSE IF h2.deep /\ ~h2.active THEN StartWalk(h2) ELSE h2)

SetDeep(on) ==
    /\ t.filter /\ t.deep # on
    /\ Turn(IF ~on THEN AbortWalk([t EXCEPT !.deep = FALSE])
            ELSE IF t.active THEN [t EXCEPT !.deep = TRUE]
            ELSE StartWalk([t EXCEPT !.deep = TRUE]))

-----------------------------------------------------------------------------
Next ==
    \/ \E c \in t.calls : Lands(c) \/ LandsNot(c)
    \/ \E n \in Nodes : Expand(n) \/ Collapse(n) \/ Twist(n) \/ Reload(n) \/ Reveal(n) \/ UpdateDir(n)
    \/ CollapseAll \/ SetSources
    \/ \E on, changed \in BOOLEAN : SetFilter(on, changed)
    \/ \E on \in BOOLEAN : SetDeep(on)

Spec == Init /\ [][Next]_vars

(* Every listing is answered: weak fairness of the answers for a node.      *)
Answers(n) == \E c \in t.calls : c.node = n /\ (Lands(c) \/ LandsNot(c))
FairSpec == Spec /\ \A n \in Nodes : []<>(n \notin Loading(t)) \/ []<><<Answers(n)>>_vars

-----------------------------------------------------------------------------
TypeOK ==
    /\ \A f \in {"known", "expanded", "loaded", "kids"} : t[f] \in [Nodes -> BOOLEAN]
    /\ \A f \in {"filter", "deep", "active"} : t[f] \in BOOLEAN
    /\ \A c \in t.calls : c.node \in Nodes /\ c.by \in Callers /\ c.rest \in Seq(Nodes)
    /\ \A n \in Nodes : t.loaded[n] => t.kids[n]
    /\ \A n \in Nodes : t.kids[n] => \A k \in Kids(n) : t.known[k]

(* No folder is listed by two callers at once, whatever they are. *)
ListedOnce == \A c, d \in t.calls : c.node = d.node => c = d

(* The tree says it is walking exactly while one walk goes on, and that for  *)
(* a pattern that stands: a walk that was stopped, or overtaken by a new     *)
(* pattern or other sources, is over, and nobody walks for a search that was *)
(* cleared.                                                                  *)
Walks   == {c \in t.calls : c.by = "walk"}
OneWalk ==
    /\ Cardinality(Walks) = IF t.active THEN 1 ELSE 0
    /\ t.active => t.filter /\ t.deep

(* A walk ends, though rows are rebuilt, reloaded and opened under it. *)
WalkEnds == t.active ~> ~t.active

(* A row that stands open gets its rows, unless a listing failed: through   *)
(* reloads, through a view that feeds its parent, through listings that     *)
(* others began and nobody repeats.                                         *)
OpenFills ==
    \A n \in Nodes : t.expanded[n] ~> (~t.expanded[n] \/ t.loaded[n] \/ fails > 0)
==============================================================================
