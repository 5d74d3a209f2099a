---------------------------- MODULE SidebarProofs ----------------------------
(***************************************************************************)
(* No folder of the sidebar is listed by two callers at once, and the tree *)
(* says it is walking exactly while one wanted walk goes on, for any tree  *)
(* of sources and any number of clicks.  Every listing is begun by one of  *)
(* a few operators on the tree, each of which looks at what is under way;  *)
(* lemmas for each show that it keeps the listings apart and the walk as   *)
(* it is, and the steps are made of them.                                  *)
(***************************************************************************)
EXTENDS Sidebar, FiniteSetTheorems, WellFoundedInduction, TLAPS

Fields == {"known", "expanded", "loaded", "kids", "calls", "filter", "deep", "active"}

(* A tree with its fields, and listings that are listings. *)
Shape(h) == /\ h = [f \in Fields |-> h[f]]
            /\ \A c \in h.calls : c = Listing(c.node, c.by, c.rest)

Once(h) == Shape(h) /\ \A c, d \in h.calls : c.node = d.node => c = d

-----------------------------------------------------------------------------
(* What is no listing may change. *)
LEMMA SameCalls ==
    ASSUME NEW h, NEW g, Once(h), g = [f \in Fields |-> g[f]], g.calls \subseteq h.calls
    PROVE  Once(g)
BY DEF Once, Shape

LEMMA ListingFields ==
    ASSUME NEW n, NEW by, NEW rest
    PROVE  LET c == Listing(n, by, rest)
           IN  c.node = n /\ c.by = by /\ c.rest = rest /\ c = Listing(c.node, c.by, c.rest)
BY DEF Listing

(* The calls of h, and listings of the nodes of S. *)
Joins(g, h, S, by) ==
    \A c \in g.calls : c \in h.calls \/ \E n \in S : c = Listing(n, by, <<>>)

LEMMA CallsJoin ==
    ASSUME NEW h, NEW g, NEW S, NEW by,
           g.calls = h.calls \cup {Listing(n, by, <<>>) : n \in S}
    PROVE  Joins(g, h, S, by)
BY DEF Joins

(* New listings of nodes that nobody is listing. *)
LEMMA NewCalls ==
    ASSUME NEW h, NEW g, NEW S, NEW by, Once(h), g = [f \in Fields |-> g[f]],
           S \cap Loading(h) = {}, Joins(g, h, S, by)
    PROVE  Once(g)
<1> USE DEF Joins
<1>1. ASSUME NEW c \in g.calls PROVE c = Listing(c.node, c.by, c.rest)
  <2>1. CASE c \in h.calls
    BY <2>1 DEF Once, Shape
  <2>2. ASSUME NEW n \in S, c = Listing(n, by, <<>>) PROVE c = Listing(c.node, c.by, c.rest)
    <3>1. c.node = n /\ c.by = by /\ c.rest = <<>>
      BY <2>2, ListingFields
    <3> QED BY <2>2, <3>1
  <2> QED BY <2>1, <2>2
<1>2. ASSUME NEW c \in g.calls, NEW d \in g.calls, c.node = d.node PROVE c = d
  <2>1. \A e \in g.calls : e \in h.calls \/ \E n \in S : e = Listing(n, by, <<>>)
    OBVIOUS
  <2>2. \A e \in h.calls : e.node \in Loading(h)
    BY DEF Loading
  <2>3. \A n \in S : Listing(n, by, <<>>).node = n /\ n \notin Loading(h)
    BY ListingFields
  <2> QED BY <1>2, <2>1, <2>2, <2>3 DEF Once
<1> QED BY <1>1, <1>2 DEF Once, Shape

LEMMA LoadChildrenOnce ==
    ASSUME NEW h, NEW n, NEW by, NEW rest, Once(h)
    PROVE  Once(LoadChildren(h, n, by, rest))
<1>1. CASE h.loaded[n] \/ n \in Loading(h)
  BY <1>1 DEF LoadChildren
<1>2. CASE ~(h.loaded[n] \/ n \in Loading(h))
  <2> DEFINE g == [h EXCEPT !.calls = @ \cup {Listing(n, by, rest)}]
  <2>1. g = [f \in Fields |-> g[f]] /\ g.calls = h.calls \cup {Listing(n, by, rest)}
    BY DEF Once, Shape, Fields
  <2> HIDE DEF g
  <2>2. Once(g)
    <3>1. \A c \in g.calls : c = Listing(c.node, c.by, c.rest)
      <4>1. Listing(n, by, rest) = Listing(Listing(n, by, rest).node, Listing(n, by, rest).by,
                                           Listing(n, by, rest).rest)
        BY ListingFields
      <4>2. \A c \in h.calls : c = Listing(c.node, c.by, c.rest)
        BY DEF Once, Shape
      <4>3. \A c \in g.calls : c \in h.calls \/ c = Listing(n, by, rest)
        BY <2>1
      <4> QED BY <4>1, <4>2, <4>3
    <3>2. \A c, d \in g.calls : c.node = d.node => c = d
      <4>1. Listing(n, by, rest).node = n
        BY ListingFields
      <4>2. \A c \in h.calls : c.node # n
        BY <1>2 DEF Loading
      <4> QED BY <2>1, <4>1, <4>2 DEF Once
    <3> QED BY <2>1, <3>1, <3>2 DEF Once, Shape
  <2> QED BY <1>2, <2>2 DEF LoadChildren, g
<1> QED BY <1>1, <1>2

LEMMA ExpandedOnce ==
    ASSUME NEW h, NEW n, Once(h)
    PROVE  Once(Expanded(h, n))
<1> DEFINE g == [h EXCEPT !.expanded[n] = TRUE]
<1>1. g = [f \in Fields |-> g[f]] /\ g.calls = h.calls
  BY DEF Once, Shape, Fields
<1> HIDE DEF g
<1>2. Once(g)
  BY <1>1, SameCalls
<1> QED BY <1>2, LoadChildrenOnce DEF Expanded, g

LEMMA RevealPathOnce ==
    ASSUME NEW h, NEW path, Once(h)
    PROVE  Once(RevealPath(h, path))
<1> DEFINE stops == {i \in DOMAIN path : Waits(h, path[i])}
           stop  == IF stops = {} THEN Len(path) ELSE CHOOSE i \in stops : \A j \in stops : i <= j
           opens == {n \in Range(SubSeq(path, 1, stop)) : h.known[n]}
           g     == [h EXCEPT !.expanded = [n \in Nodes |-> @[n] \/ n \in opens]]
<1>1. g = [f \in Fields |-> g[f]] /\ g.calls = h.calls
  <2> HIDE DEF opens
  <2> QED BY DEF Once, Shape, Fields
<1>2. RevealPath(h, path) = IF stops = {} THEN g
         ELSE LoadChildren(g, path[stop], "reveal", SubSeq(path, stop + 1, Len(path)))
  BY DEF RevealPath
<1> HIDE DEF g, stops, stop
<1>3. Once(g)
  BY <1>1, SameCalls
<1>4. Once(LoadChildren(g, path[stop], "reveal", SubSeq(path, stop + 1, Len(path))))
  BY <1>3, LoadChildrenOnce
<1> QED BY <1>2, <1>3, <1>4

LEMMA RebuiltOnce ==
    ASSUME NEW h, NEW n, Once(h)
    PROVE  Once(Rebuilt(h, n))
<1> DEFINE again == {k \in Kids(n) : h.expanded[k] /\ k \notin Loading(h)}
           g     == Rebuilt(h, n)
<1>1. g = [f \in Fields |-> g[f]]
      /\ g.calls = h.calls \cup {Listing(k, "expand", <<>>) : k \in again}
  <2> HIDE DEF again
  <2>1. g = [h EXCEPT !.known  = [k \in Nodes |-> @[k] \/ k \in Kids(n)],
                      !.loaded = [k \in Nodes |-> IF k \in Kids(n) THEN FALSE ELSE @[k] \/ k = n],
                      !.kids[n] = TRUE,
                      !.calls  = @ \cup {Listing(k, "expand", <<>>) : k \in again}]
    BY DEF Rebuilt, again
  <2> HIDE DEF g
  <2> QED BY <2>1 DEF Once, Shape, Fields
<1>2. again \cap Loading(h) = {}
  OBVIOUS
<1> HIDE DEF g, again
<1>3. Joins(g, h, again, "expand")
  BY <1>1, CallsJoin
<1>4. Once(g)
  BY <1>1, <1>2, <1>3, NewCalls
<1> QED BY <1>4 DEF g

(* A walk whose generation is over keeps its listing. *)
LEMMA OutdatedOnce ==
    ASSUME NEW h, Once(h)
    PROVE  Once(Outdated(h)) /\ Loading(Outdated(h)) = Loading(h)
           /\ Outdated(h).expanded = h.expanded
<1> DEFINE F(c) == IF c.by = "walk" THEN [c EXCEPT !.by = "aborted"] ELSE c
           g    == Outdated(h)
<1>1. g = [f \in Fields |-> g[f]] /\ g.calls = {F(c) : c \in h.calls} /\ g.expanded = h.expanded
  BY DEF Outdated, Once, Shape, Fields
<1>2. ASSUME NEW c \in h.calls
      PROVE  F(c).node = c.node /\ F(c) = Listing(F(c).node, F(c).by, F(c).rest)
  <2>1. c = [node |-> c.node, by |-> c.by, rest |-> c.rest]
    BY DEF Once, Shape, Listing
  <2>2. CASE c.by = "walk"
    <3>1. F(c) = [node |-> c.node, by |-> "aborted", rest |-> c.rest]
      BY <2>1, <2>2
    <3> HIDE DEF F
    <3> QED BY <3>1 DEF Listing
  <2>3. CASE c.by # "walk"
    BY <2>1, <2>3 DEF Listing
  <2> QED BY <2>2, <2>3
<1> HIDE DEF F, g
<1>3. \A c, d \in g.calls : c.node = d.node => c = d
  BY <1>1, <1>2 DEF Once
<1>4. \A c \in g.calls : c = Listing(c.node, c.by, c.rest)
  BY <1>1, <1>2
<1>5. Loading(g) = Loading(h)
  BY <1>1, <1>2 DEF Loading
<1> QED BY <1>1, <1>3, <1>4, <1>5 DEF g, Once, Shape

LEMMA AbortWalkOnce ==
    ASSUME NEW h, Once(h)
    PROVE  Once(AbortWalk(h))
<1> DEFINE o == Outdated(h)  g == [o EXCEPT !.active = FALSE]
<1>1. Once(o)
  BY OutdatedOnce
<1> HIDE DEF o
<1>2. g = [f \in Fields |-> g[f]] /\ g.calls = o.calls
  BY <1>1 DEF Once, Shape, Fields
<1> HIDE DEF g
<1>3. Once(g)
  BY <1>1, <1>2, SameCalls
<1> QED BY <1>3 DEF AbortWalk, g, o

LEMMA WalkOnOnce ==
    ASSUME NEW h, NEW i, NEW skip, Once(h)
    PROVE  Once(WalkOn(h, i, skip))
<1> DEFINE next == {j \in (i + 1)..Len(Order) :
                       /\ ~h.loaded[Order[j]] /\ Order[j] \notin Loading(h)
                       /\ \A m \in Above(Order[j]) : h.kids[m] /\ m \notin skip}
           node == Order[CHOOSE j \in next : \A k \in next : j <= k]
           g    == [h EXCEPT !.active = FALSE]
<1>1. WalkOn(h, i, skip) = IF next = {} THEN g ELSE LoadChildren(h, node, "walk", <<>>)
  BY DEF WalkOn
<1>2. g = [f \in Fields |-> g[f]] /\ g.calls = h.calls
  BY DEF Once, Shape, Fields
<1> HIDE DEF g, next, node
<1>3. Once(g)
  BY <1>2, SameCalls
<1>4. Once(LoadChildren(h, node, "walk", <<>>))
  BY LoadChildrenOnce
<1> QED BY <1>1, <1>3, <1>4

LEMMA StartWalkOnce ==
    ASSUME NEW h, Once(h)
    PROVE  Once(StartWalk(h))
<1> DEFINE o == Outdated(h)  g == [o EXCEPT !.active = TRUE]
<1>1. Once(o)
  BY OutdatedOnce
<1> HIDE DEF o
<1>2. g = [f \in Fields |-> g[f]] /\ g.calls = o.calls
  BY <1>1 DEF Once, Shape, Fields
<1> HIDE DEF g
<1>3. Once(g)
  BY <1>1, <1>2, SameCalls
<1> QED BY <1>3, WalkOnOnce DEF StartWalk, g, o

-----------------------------------------------------------------------------
(* An answer takes its listing off and goes on. *)
LEMMA AnswersKeepOnce ==
    ASSUME Once(t), NEW c \in t.calls, Lands(c) \/ LandsNot(c)
    PROVE  Once(t')
<1> DEFINE a == Answered(c)  shut == [a EXCEPT !.expanded[c.node] = FALSE]
<1>1. a = [f \in Fields |-> a[f]] /\ a.calls = t.calls \ {c}
  BY DEF Answered, Once, Shape, Fields
<1> HIDE DEF a
<1>2. Once(a)
  BY <1>1, SameCalls
<1>3. shut = [f \in Fields |-> shut[f]] /\ shut.calls = a.calls
  BY <1>2 DEF Once, Shape, Fields
<1> HIDE DEF shut
<1>4. Once(shut)
  BY <1>2, <1>3, SameCalls
<1>5. CASE Lands(c)
  <2> DEFINE r == Rebuilt(a, c.node)
  <2>1. Once(r)
    BY <1>2, RebuiltOnce
  <2>2. t' = r \/ t' = WalkOn(r, Place(c.node), {}) \/ t' = RevealPath(r, c.rest)
    BY <1>5 DEF Lands, a
  <2> HIDE DEF r
  <2> QED BY <2>1, <2>2, WalkOnOnce, RevealPathOnce
<1>6. CASE LandsNot(c)
  <2>1. \/ t' = WalkOn(a, Place(c.node), {c.node})
        \/ t' = RevealPath(shut, c.rest)
        \/ t' = shut \/ t' = a
    BY <1>6 DEF LandsNot, a, shut
  <2> QED BY <1>2, <1>4, <2>1, WalkOnOnce, RevealPathOnce
<1> QED BY <1>5, <1>6

(* What is done to one folder. *)
LEMMA FoldersKeepOnce ==
    ASSUME Once(t), NEW n \in Nodes,
           Expand(n) \/ Collapse(n) \/ Twist(n) \/ Reload(n) \/ Reveal(n) \/ UpdateDir(n)
    PROVE  Once(t')
<1>1. CASE Expand(n)
  BY <1>1, ExpandedOnce DEF Expand, Turn
<1>2. CASE Collapse(n)
  <2> DEFINE g == [t EXCEPT !.expanded[n] = FALSE]
  <2>1. g = [f \in Fields |-> g[f]] /\ g.calls = t.calls
    BY DEF Once, Shape, Fields
  <2>2. t' = g
    BY <1>2 DEF Collapse, Turn
  <2> HIDE DEF g
  <2> QED BY <2>1, <2>2, SameCalls
<1>3. CASE Twist(n)
  BY <1>3, LoadChildrenOnce DEF Twist, Turn
<1>4. CASE Reload(n)
  <2> DEFINE g == [t EXCEPT !.loaded[n] = FALSE, !.kids[n] = FALSE]
  <2>1. g = [f \in Fields |-> g[f]] /\ g.calls = t.calls
    BY DEF Once, Shape, Fields
  <2>2. t' = Expanded(g, n)
    BY <1>4 DEF Reload, Turn
  <2> HIDE DEF g
  <2>3. Once(g)
    BY <2>1, SameCalls
  <2> QED BY <2>2, <2>3, ExpandedOnce
<1>5. CASE Reveal(n)
  BY <1>5, RevealPathOnce DEF Reveal, Turn
<1>6. CASE UpdateDir(n)
  <2> DEFINE r == Rebuilt(t, n)  g == [r EXCEPT !.expanded[n] = TRUE]
  <2>1. Once(r)
    BY RebuiltOnce
  <2>2. t' = g
    BY <1>6 DEF UpdateDir, Turn
  <2> HIDE DEF r
  <2>3. g = [f \in Fields |-> g[f]] /\ g.calls = r.calls
    BY <2>1 DEF Once, Shape, Fields
  <2> HIDE DEF g
  <2> QED BY <2>1, <2>2, <2>3, SameCalls
<1> QED BY <1>1, <1>2, <1>3, <1>4, <1>5, <1>6

(* What is done to the whole tree. *)
LEMMA SourcesKeepOnce ==
    ASSUME Once(t), CollapseAll \/ SetSources
    PROVE  Once(t')
<1>1. CASE CollapseAll
  <2> DEFINE g == [t EXCEPT !.expanded = [n \in Nodes |-> FALSE]]
  <2>1. g = [f \in Fields |-> g[f]] /\ g.calls = t.calls
    BY DEF Once, Shape, Fields
  <2>2. t' = g
    BY <1>1 DEF CollapseAll, Turn
  <2> HIDE DEF g
  <2> QED BY <2>1, <2>2, SameCalls
<1>2. CASE SetSources
  <2> DEFINE open == {n \in Sources : t.expanded[n] /\ Waits(t, n)}
             o == Outdated(t)
             h == [o EXCEPT !.calls = @ \cup {Listing(n, "expand", <<>>) : n \in open}]
  <2>1. t' = h \/ t' = StartWalk(h)
    BY <1>2 DEF SetSources, Turn
  <2>2. open \cap Loading(t) = {}
    BY DEF Waits
  <2>3. Once(o) /\ Loading(o) = Loading(t)
    BY OutdatedOnce
  <2> HIDE DEF o, open
  <2>4. h = [f \in Fields |-> h[f]] /\ h.calls = o.calls \cup {Listing(n, "expand", <<>>) : n \in open}
    BY <2>3 DEF Once, Shape, Fields
  <2> HIDE DEF h
  <2>5. Once(h)
    <3>1. Joins(h, o, open, "expand")
      BY <2>4, CallsJoin
    <3>2. h = [f \in Fields |-> h[f]] /\ open \cap Loading(o) = {}
      BY <2>2, <2>3, <2>4
    <3> QED BY <2>3, <3>1, <3>2, NewCalls
  <2> QED BY <2>1, <2>5, StartWalkOnce
<1> QED BY <1>1, <1>2

LEMMA FilterKeepsOnce ==
    ASSUME Once(t), NEW on \in BOOLEAN, NEW changed \in BOOLEAN, SetFilter(on, changed)
    PROVE  Once(t')
<1> DEFINE h0 == IF changed THEN AbortWalk(t) ELSE t
           h1 == [h0 EXCEPT !.filter = on, !.deep = t.deep /\ on]
           S  == {m \in Sources : Waits(h1, m)}
           h2 == [h1 EXCEPT !.calls = @ \cup {Listing(n, "preload", <<>>) : n \in S}]
<1>1. t' = h1 \/ t' = h2 \/ t' = StartWalk(h2)
  BY DEF SetFilter, Turn
<1>2. S \cap Loading(h1) = {}
  <2> HIDE DEF h1
  <2> QED BY DEF Waits
<1>3. Once(h0)
  BY AbortWalkOnce
<1> HIDE DEF h0
<1>4. h1 = [f \in Fields |-> h1[f]] /\ h1.calls = h0.calls
  BY <1>3 DEF Once, Shape, Fields
<1> HIDE DEF S, h1
<1>5. Once(h1)
  BY <1>3, <1>4, SameCalls
<1>6. h2 = [f \in Fields |-> h2[f]] /\ h2.calls = h1.calls \cup {Listing(n, "preload", <<>>) : n \in S}
  BY <1>5 DEF Once, Shape, Fields
<1> HIDE DEF h2
<1>7. Once(h2)
  <2>1. Joins(h2, h1, S, "preload")
    BY <1>6, CallsJoin
  <2>2. h2 = [f \in Fields |-> h2[f]]
    BY <1>6
  <2> QED BY <1>2, <1>5, <2>1, <2>2, NewCalls
<1> QED BY <1>1, <1>5, <1>7, StartWalkOnce

LEMMA DeepKeepsOnce ==
    ASSUME Once(t), NEW on \in BOOLEAN, SetDeep(on)
    PROVE  Once(t')
<1> DEFINE h(b) == [t EXCEPT !.deep = b]
<1>1. t' = AbortWalk(h(FALSE)) \/ t' = h(TRUE) \/ t' = StartWalk(h(TRUE))
  BY DEF SetDeep, Turn
<1>2. ASSUME NEW b PROVE Once(h(b))
  <2>1. h(b) = [f \in Fields |-> h(b)[f]] /\ h(b).calls = t.calls
    BY DEF Once, Shape, Fields
  <2> HIDE DEF h
  <2> QED BY <2>1, SameCalls
<1> HIDE DEF h
<1> QED BY <1>1, <1>2, AbortWalkOnce, StartWalkOnce

LEMMA InitOnce == Init => Once(t)
<1>1. Closed = [f \in Fields |-> Closed[f]] /\ Closed.calls = {}
  BY DEF Closed, Fields
<1> QED BY <1>1 DEF Init, Once, Shape

LEMMA StaysOnce ==
    ASSUME Once(t), [Next]_vars
    PROVE  Once(t')
<1>1. ASSUME NEW c \in t.calls, Lands(c) \/ LandsNot(c) PROVE Once(t')
  BY <1>1, AnswersKeepOnce
<1>2. ASSUME NEW n \in Nodes,
             Expand(n) \/ Collapse(n) \/ Twist(n) \/ Reload(n) \/ Reveal(n) \/ UpdateDir(n)
      PROVE  Once(t')
  BY <1>2, FoldersKeepOnce
<1>3. CASE CollapseAll \/ SetSources
  BY <1>3, SourcesKeepOnce
<1>4. ASSUME NEW on \in BOOLEAN, NEW changed \in BOOLEAN, SetFilter(on, changed) PROVE Once(t')
  BY <1>4, FilterKeepsOnce
<1>5. ASSUME NEW on \in BOOLEAN, SetDeep(on) PROVE Once(t')
  BY <1>5, DeepKeepsOnce
<1>6. CASE UNCHANGED vars
  BY <1>6 DEF vars
<1> QED BY <1>1, <1>2, <1>3, <1>4, <1>5, <1>6 DEF Next

-----------------------------------------------------------------------------
(* Twists, reveals, reloads, the filter, the deep walk and the main view    *)
(* never have one folder listed twice at a time                             *)
(* (frontend/js/tree.js: loadChildren and its callers).                     *)
THEOREM FoldersListedOnce == Spec => []ListedOnce
<1>1. Init => Once(t)
  BY InitOnce
<1>2. Once(t) /\ [Next]_vars => Once(t)'
  BY StaysOnce DEF Once, Shape
<1>3. Once(t) => ListedOnce
  BY DEF Once, ListedOnce
<1> QED BY <1>1, <1>2, <1>3, PTL DEF Spec

-----------------------------------------------------------------------------
(* The deep walk: the listings it has under way, and a tree that says it is *)
(* walking exactly while there is one, for a search that stands.            *)
WalksOf(h) == {c \in h.calls : c.by = "walk"}

Walking(h) ==
    /\ \A c, d \in WalksOf(h) : c = d
    /\ h.active \in BOOLEAN /\ (h.active = TRUE <=> WalksOf(h) # {})
    /\ h.active = TRUE => h.filter = TRUE /\ h.deep = TRUE
    /\ \A c \in WalksOf(h) : c.node \in Nodes

WalkInv == Once(t) /\ Walking(t)

(* What changes no part of the walk. *)
Calm(h, g) ==
    /\ Once(g)
    /\ WalksOf(g) = WalksOf(h)
    /\ g.active = h.active /\ g.filter = h.filter /\ g.deep = h.deep

LEMMA CalmWalk ==
    ASSUME NEW h, NEW g, Walking(h), Calm(h, g)
    PROVE  Walking(g)
BY DEF Walking, Calm

LEMMA LoadChildrenCalm ==
    ASSUME NEW h, NEW n, NEW by, NEW rest, Once(h), by # "walk"
    PROVE  Calm(h, LoadChildren(h, n, by, rest))
<1>1. CASE h.loaded[n] \/ n \in Loading(h)
  BY <1>1 DEF LoadChildren, Calm
<1>2. CASE ~(h.loaded[n] \/ n \in Loading(h))
  <2> DEFINE g == [h EXCEPT !.calls = @ \cup {Listing(n, by, rest)}]
  <2>1. /\ g.calls = h.calls \cup {Listing(n, by, rest)}
        /\ g.active = h.active /\ g.filter = h.filter /\ g.deep = h.deep
    BY DEF Once, Shape, Fields
  <2>2. LoadChildren(h, n, by, rest) = g
    BY <1>2 DEF LoadChildren
  <2> HIDE DEF g
  <2>3. WalksOf(g) = WalksOf(h)
    BY <2>1, ListingFields DEF WalksOf
  <2> QED BY <2>1, <2>2, <2>3, LoadChildrenOnce DEF Calm
<1> QED BY <1>1, <1>2

LEMMA SameCallsCalm ==
    ASSUME NEW h, NEW g, Once(h), g = [f \in Fields |-> g[f]], g.calls = h.calls,
           g.active = h.active, g.filter = h.filter, g.deep = h.deep
    PROVE  Calm(h, g)
BY SameCalls DEF Calm, WalksOf

LEMMA CalmTwice ==
    ASSUME NEW h, NEW g, NEW k, Calm(h, g), Calm(g, k)
    PROVE  Calm(h, k)
BY DEF Calm

LEMMA ExpandedCalm ==
    ASSUME NEW h, NEW n, Once(h)
    PROVE  Calm(h, Expanded(h, n))
<1> DEFINE g == [h EXCEPT !.expanded[n] = TRUE]
<1>1. Calm(h, h)
  BY DEF Calm
<1>2. /\ g = [f \in Fields |-> g[f]] /\ g.calls = h.calls
      /\ g.active = h.active /\ g.filter = h.filter /\ g.deep = h.deep
  BY DEF Once, Shape, Fields
<1>3. Expanded(h, n) = h \/ Expanded(h, n) = LoadChildren(g, n, "expand", <<>>)
  BY DEF Expanded
<1> HIDE DEF g
<1>4. Calm(h, g)
  BY <1>2, SameCallsCalm
<1>5. Calm(g, LoadChildren(g, n, "expand", <<>>))
  BY <1>4, LoadChildrenCalm DEF Calm
<1> QED BY <1>1, <1>3, <1>4, <1>5, CalmTwice

LEMMA RevealPathCalm ==
    ASSUME NEW h, NEW path, Once(h)
    PROVE  Calm(h, RevealPath(h, path))
<1> DEFINE stops == {i \in DOMAIN path : Waits(h, path[i])}
           stop  == IF stops = {} THEN Len(path) ELSE CHOOSE i \in stops : \A j \in stops : i <= j
           opens == {n \in Range(SubSeq(path, 1, stop)) : h.known[n]}
           g     == [h EXCEPT !.expanded = [n \in Nodes |-> @[n] \/ n \in opens]]
           k     == LoadChildren(g, path[stop], "reveal", SubSeq(path, stop + 1, Len(path)))
<1>1. /\ g = [f \in Fields |-> g[f]] /\ g.calls = h.calls
      /\ g.active = h.active /\ g.filter = h.filter /\ g.deep = h.deep
  <2> HIDE DEF opens
  <2> QED BY DEF Once, Shape, Fields
<1>2. RevealPath(h, path) = IF stops = {} THEN g ELSE k
  BY DEF RevealPath
<1> HIDE DEF g, stops, stop
<1>3. Calm(h, g)
  BY <1>1, SameCallsCalm
<1>4. Calm(g, k)
  BY <1>3, LoadChildrenCalm DEF Calm
<1> HIDE DEF k
<1>5. Calm(h, k)
  BY <1>3, <1>4, CalmTwice
<1> QED BY <1>2, <1>3, <1>5

LEMMA RebuiltCalm ==
    ASSUME NEW h, NEW n, Once(h)
    PROVE  Calm(h, Rebuilt(h, n))
<1> DEFINE again == {k \in Kids(n) : h.expanded[k] /\ k \notin Loading(h)}
           g     == Rebuilt(h, n)
<1>1. /\ g.calls = h.calls \cup {Listing(k, "expand", <<>>) : k \in again}
      /\ g.active = h.active /\ g.filter = h.filter /\ g.deep = h.deep
  <2> HIDE DEF again
  <2>1. g = [h EXCEPT !.known  = [k \in Nodes |-> @[k] \/ k \in Kids(n)],
                      !.loaded = [k \in Nodes |-> IF k \in Kids(n) THEN FALSE ELSE @[k] \/ k = n],
                      !.kids[n] = TRUE,
                      !.calls  = @ \cup {Listing(k, "expand", <<>>) : k \in again}]
    BY DEF Rebuilt, again
  <2> HIDE DEF g
  <2> QED BY <2>1 DEF Once, Shape, Fields
<1> HIDE DEF again
<1>2. Once(g)
  BY RebuiltOnce
<1> HIDE DEF g
<1>3. WalksOf(g) = WalksOf(h)
  <2>1. g.calls = h.calls \cup {Listing(k, "expand", <<>>) : k \in again}
    BY <1>1
  <2>2. \A k \in again : Listing(k, "expand", <<>>).by = "expand"
    BY ListingFields
  <2> QED BY <2>1, <2>2 DEF WalksOf
<1>4. Calm(h, g)
  BY <1>1, <1>2, <1>3 DEF Calm
<1> QED BY <1>4 DEF g

(* An overtaken walk has no listing, and nothing else changes. *)
LEMMA OutdatedRests ==
    ASSUME NEW h, Once(h)
    PROVE  LET g == Outdated(h)
           IN  /\ Once(g) /\ WalksOf(g) = {}
               /\ g.active = h.active /\ g.filter = h.filter /\ g.deep = h.deep
<1> DEFINE F(c) == IF c.by = "walk" THEN [c EXCEPT !.by = "aborted"] ELSE c
           g    == Outdated(h)
<1>1. /\ g.calls = {F(c) : c \in h.calls}
      /\ g.active = h.active /\ g.filter = h.filter /\ g.deep = h.deep
  BY DEF Outdated, Once, Shape, Fields
<1>2. ASSUME NEW c \in h.calls PROVE F(c).by # "walk"
  <2>1. c = [node |-> c.node, by |-> c.by, rest |-> c.rest]
    BY DEF Once, Shape, Listing
  <2>2. CASE c.by = "walk"
    <3>1. F(c) = [node |-> c.node, by |-> "aborted", rest |-> c.rest]
      BY <2>1, <2>2
    <3> HIDE DEF F
    <3> QED BY <3>1
  <2> QED BY <2>2
<1>3. Once(g)
  BY OutdatedOnce
<1> HIDE DEF F, g
<1>4. WalksOf(g) = {}
  BY <1>1, <1>2 DEF WalksOf
<1> QED BY <1>1, <1>3, <1>4 DEF g

LEMMA AbortWalkRests ==
    ASSUME NEW h, Once(h)
    PROVE  LET g == AbortWalk(h)
           IN  /\ Once(g) /\ WalksOf(g) = {}
               /\ g.active = FALSE /\ g.filter = h.filter /\ g.deep = h.deep
<1> DEFINE o == Outdated(h)  g == [o EXCEPT !.active = FALSE]
<1>1. Once(o) /\ WalksOf(o) = {} /\ o.filter = h.filter /\ o.deep = h.deep
  BY OutdatedRests
<1>2. AbortWalk(h) = g
  BY DEF AbortWalk
<1> HIDE DEF o
<1>3. g.calls = o.calls /\ g.active = FALSE /\ g.filter = o.filter /\ g.deep = o.deep
  BY <1>1 DEF Once, Shape, Fields
<1>4. Once(g)
  BY <1>2, AbortWalkOnce DEF o
<1> HIDE DEF g
<1>5. WalksOf(g) = {}
  BY <1>1, <1>3 DEF WalksOf
<1> QED BY <1>1, <1>2, <1>3, <1>4, <1>5

LEMMA RestsWalking ==
    ASSUME NEW h, WalksOf(h) = {}, h.active = FALSE
    PROVE  Walking(h)
BY DEF Walking

LEMMA LeastPlace ==
    ASSUME NEW S, S \subseteq Nat, S # {}
    PROVE  LET i == CHOOSE j \in S : \A k \in S : j <= k IN i \in S
<1>1. PICK j \in S : \A k \in S : <<k, j>> \notin OpToRel(<, Nat)
  BY WFMin, NatLessThanWellFounded, Zenon
<1>2. \A k \in S : ~(k < j)
  BY <1>1, Zenon DEF OpToRel
<1>3. \A k \in S : j <= k
  BY <1>2
<1> QED BY <1>3

(* A walk whose listing has been answered goes on with one other, or ends. *)
LEMMA WalkOnWalks ==
    ASSUME NEW h, NEW i \in Nat, NEW skip, Once(h), WalksOf(h) = {},
           h.active = TRUE, h.filter = TRUE, h.deep = TRUE
    PROVE  Walking(WalkOn(h, i, skip))
<1> DEFINE next == {j \in (i + 1)..Len(Order) :
                       /\ ~h.loaded[Order[j]] /\ Order[j] \notin Loading(h)
                       /\ \A m \in Above(Order[j]) : h.kids[m] /\ m \notin skip}
           place == CHOOSE j \in next : \A k \in next : j <= k
           node == Order[place]
           g    == [h EXCEPT !.active = FALSE]
           k    == [h EXCEPT !.calls = @ \cup {Listing(node, "walk", <<>>)}]
<1>1. WalkOn(h, i, skip) = IF next = {} THEN g ELSE LoadChildren(h, node, "walk", <<>>)
  BY DEF WalkOn
<1>2. Len(Order) \in Nat /\ \A j \in 1..Len(Order) : Order[j] \in Nodes
  BY SidebarAssumption
<1>3. next \subseteq Nat
  BY <1>2
<1>4. next # {} => place \in next
  <2> HIDE DEF next
  <2> QED BY <1>3, LeastPlace
<1>5. next # {} => /\ node \in Nodes /\ ~h.loaded[node] /\ node \notin Loading(h)
  <2> HIDE DEF place
  <2> QED BY <1>2, <1>4
<1>6. g.calls = h.calls /\ g.active = FALSE
  BY DEF Once, Shape, Fields
<1> HIDE DEF next, place, node
<1>7. /\ k.calls = h.calls \cup {Listing(node, "walk", <<>>)}
      /\ k.active = h.active /\ k.filter = h.filter /\ k.deep = h.deep
  BY DEF Once, Shape, Fields
<1> HIDE DEF g
<1>8. CASE next = {}
  <2>1. WalksOf(g) = {}
    BY <1>6 DEF WalksOf
  <2> QED BY <1>1, <1>6, <1>8, <2>1, RestsWalking
<1>9. CASE next # {}
  <2>1. LoadChildren(h, node, "walk", <<>>) = k
    BY <1>5, <1>9 DEF LoadChildren
  <2> HIDE DEF k
  <2>2. WalksOf(k) = {Listing(node, "walk", <<>>)}
    BY <1>7, ListingFields DEF WalksOf
  <2>3. Listing(node, "walk", <<>>).node \in Nodes
    BY <1>5, <1>9, ListingFields
  <2>4. Walking(k)
    BY <1>7, <2>2, <2>3 DEF Walking
  <2> QED BY <1>1, <1>9, <2>1, <2>4
<1> QED BY <1>8, <1>9

LEMMA StartWalkWalks ==
    ASSUME NEW h, Once(h), h.filter = TRUE, h.deep = TRUE
    PROVE  Walking(StartWalk(h))
<1> DEFINE o == Outdated(h)  g == [o EXCEPT !.active = TRUE]
<1>1. Once(o) /\ WalksOf(o) = {} /\ o.filter = h.filter /\ o.deep = h.deep
  BY OutdatedRests
<1>2. StartWalk(h) = WalkOn(g, 0, {})
  BY DEF StartWalk
<1> HIDE DEF o
<1>3. /\ g = [f \in Fields |-> g[f]] /\ g.calls = o.calls
      /\ g.active = TRUE /\ g.filter = o.filter /\ g.deep = o.deep
  BY <1>1 DEF Once, Shape, Fields
<1> HIDE DEF g
<1>4. Once(g) /\ WalksOf(g) = {}
  BY <1>1, <1>3, SameCalls DEF WalksOf
<1> QED BY <1>1, <1>2, <1>3, <1>4, WalkOnWalks


(* The steps. *)
LEMMA AnswersKeepWalk ==
    ASSUME WalkInv, NEW c \in t.calls, Lands(c) \/ LandsNot(c)
    PROVE  Walking(t')
<1> DEFINE a == Answered(c)  shut == [a EXCEPT !.expanded[c.node] = FALSE]
<1>1. /\ a = [f \in Fields |-> a[f]] /\ a.calls = t.calls \ {c}
      /\ a.active = t.active /\ a.filter = t.filter /\ a.deep = t.deep
  BY DEF WalkInv, Answered, Once, Shape, Fields
<1> HIDE DEF a
<1>2. Once(a)
  BY <1>1, SameCalls DEF WalkInv
<1>3. /\ shut = [f \in Fields |-> shut[f]] /\ shut.calls = a.calls
      /\ shut.active = a.active /\ shut.filter = a.filter /\ shut.deep = a.deep
  BY <1>2 DEF Once, Shape, Fields
<1> HIDE DEF shut
<1>4. Calm(a, shut) /\ Once(shut)
  BY <1>2, <1>3, SameCallsCalm DEF Calm
<1> DEFINE r == Rebuilt(a, c.node)
<1>5. Calm(a, r) /\ Once(r)
  BY <1>2, RebuiltCalm DEF Calm
<1>6. CASE c.by = "walk"
  <2>1. /\ WalksOf(a) = {} /\ a.active = TRUE /\ a.filter = TRUE /\ a.deep = TRUE
        /\ c.node \in Nodes
    BY <1>1, <1>6 DEF WalkInv, Walking, WalksOf
  <2>2. Place(c.node) \in Nat
    <3>1. \E i \in DOMAIN Order : Order[i] = c.node
      BY <2>1 DEF Nodes, Range
    <3>2. DOMAIN Order \subseteq Nat
      BY SidebarAssumption
    <3> QED BY <3>1, <3>2 DEF Place
  <2>3. CASE Lands(c)
    <3>1. t' = WalkOn(r, Place(c.node), {})
      BY <1>6, <2>3 DEF Lands, a
    <3> HIDE DEF r
    <3>2. /\ WalksOf(r) = {} /\ r.active = TRUE /\ r.filter = TRUE /\ r.deep = TRUE
      BY <1>5, <2>1 DEF Calm
    <3> QED BY <1>5, <2>2, <3>1, <3>2, WalkOnWalks
  <2>4. CASE LandsNot(c)
    <3>1. t' = WalkOn(a, Place(c.node), {c.node})
      BY <1>6, <2>4 DEF LandsNot, a
    <3> QED BY <1>2, <2>1, <2>2, <3>1, WalkOnWalks
  <2> QED BY <2>3, <2>4
<1>7. CASE c.by # "walk"
  <2>1. WalksOf(a) = WalksOf(t)
    BY <1>1, <1>7 DEF WalksOf
  <2>2. Walking(a)
    BY <1>1, <1>2, <2>1, CalmWalk DEF Calm, WalkInv
  <2>3. \/ t' = r \/ t' = RevealPath(r, c.rest)
        \/ t' = RevealPath(shut, c.rest) \/ t' = shut \/ t' = a
    BY <1>7 DEF Lands, LandsNot, a, shut
  <2> HIDE DEF r
  <2>4. Walking(r) /\ Walking(shut)
    BY <1>4, <1>5, <2>2, CalmWalk
  <2>5. Calm(r, RevealPath(r, c.rest)) /\ Calm(shut, RevealPath(shut, c.rest))
    BY <1>4, <1>5, RevealPathCalm
  <2> QED BY <2>2, <2>3, <2>4, <2>5, CalmWalk
<1> QED BY <1>6, <1>7

LEMMA FoldersKeepWalk ==
    ASSUME WalkInv, NEW n \in Nodes,
           Expand(n) \/ Collapse(n) \/ Twist(n) \/ Reload(n) \/ Reveal(n) \/ UpdateDir(n)
    PROVE  Walking(t')
<1> SUFFICES Calm(t, t')
  BY CalmWalk DEF WalkInv
<1>0. Once(t)
  BY DEF WalkInv
<1>1. CASE Expand(n)
  BY <1>0, <1>1, ExpandedCalm DEF Expand, Turn
<1>2. CASE Collapse(n)
  <2> DEFINE g == [t EXCEPT !.expanded[n] = FALSE]
  <2>1. /\ g = [f \in Fields |-> g[f]] /\ g.calls = t.calls
        /\ g.active = t.active /\ g.filter = t.filter /\ g.deep = t.deep
    BY <1>0 DEF Once, Shape, Fields
  <2>2. t' = g
    BY <1>2 DEF Collapse, Turn
  <2> HIDE DEF g
  <2> QED BY <1>0, <2>1, <2>2, SameCallsCalm
<1>3. CASE Twist(n)
  BY <1>0, <1>3, LoadChildrenCalm DEF Twist, Turn
<1>4. CASE Reload(n)
  <2> DEFINE g == [t EXCEPT !.loaded[n] = FALSE, !.kids[n] = FALSE]
  <2>1. /\ g = [f \in Fields |-> g[f]] /\ g.calls = t.calls
        /\ g.active = t.active /\ g.filter = t.filter /\ g.deep = t.deep
    BY <1>0 DEF Once, Shape, Fields
  <2>2. t' = Expanded(g, n)
    BY <1>4 DEF Reload, Turn
  <2> HIDE DEF g
  <2>3. Calm(t, g) /\ Once(g)
    BY <1>0, <2>1, SameCallsCalm DEF Calm
  <2> QED BY <2>2, <2>3, ExpandedCalm, CalmTwice
<1>5. CASE Reveal(n)
  BY <1>0, <1>5, RevealPathCalm DEF Reveal, Turn
<1>6. CASE UpdateDir(n)
  <2> DEFINE r == Rebuilt(t, n)  g == [r EXCEPT !.expanded[n] = TRUE]
  <2>1. Calm(t, r) /\ Once(r)
    BY <1>0, RebuiltCalm DEF Calm
  <2>2. t' = g
    BY <1>6 DEF UpdateDir, Turn
  <2> HIDE DEF r
  <2>3. /\ g = [f \in Fields |-> g[f]] /\ g.calls = r.calls
        /\ g.active = r.active /\ g.filter = r.filter /\ g.deep = r.deep
    BY <2>1 DEF Once, Shape, Fields
  <2> HIDE DEF g
  <2> QED BY <2>1, <2>2, <2>3, SameCallsCalm, CalmTwice
<1> QED BY <1>1, <1>2, <1>3, <1>4, <1>5, <1>6

LEMMA SourcesKeepWalk ==
    ASSUME WalkInv, CollapseAll \/ SetSources
    PROVE  Walking(t')
<1>0. Once(t) /\ Walking(t)
  BY DEF WalkInv
<1>1. CASE CollapseAll
  <2> DEFINE g == [t EXCEPT !.expanded = [n \in Nodes |-> FALSE]]
  <2>1. /\ g = [f \in Fields |-> g[f]] /\ g.calls = t.calls
        /\ g.active = t.active /\ g.filter = t.filter /\ g.deep = t.deep
    BY <1>0 DEF Once, Shape, Fields
  <2>2. t' = g
    BY <1>1 DEF CollapseAll, Turn
  <2> HIDE DEF g
  <2> QED BY <1>0, <2>1, <2>2, SameCallsCalm, CalmWalk
<1>2. CASE SetSources
  <2> DEFINE open == {n \in Sources : t.expanded[n] /\ Waits(t, n)}
             o == Outdated(t)
             h == [o EXCEPT !.calls = @ \cup {Listing(n, "expand", <<>>) : n \in open}]
  <2>1. t' = IF t.filter /\ t.deep THEN StartWalk(h) ELSE h
    BY <1>2 DEF SetSources, Turn
  <2>2. open \cap Loading(t) = {}
    BY DEF Waits
  <2>3. /\ Once(o) /\ Loading(o) = Loading(t) /\ WalksOf(o) = {}
        /\ o.active = t.active /\ o.filter = t.filter /\ o.deep = t.deep
    BY <1>0, OutdatedOnce, OutdatedRests
  <2> HIDE DEF o, open
  <2>4. /\ h = [f \in Fields |-> h[f]]
        /\ h.calls = o.calls \cup {Listing(n, "expand", <<>>) : n \in open}
        /\ h.active = o.active /\ h.filter = o.filter /\ h.deep = o.deep
    BY <2>3 DEF Once, Shape, Fields
  <2> HIDE DEF h
  <2>a. h.calls = o.calls \cup {Listing(n, "expand", <<>>) : n \in open}
    BY <2>4
  <2>b. Once(o) /\ open \cap Loading(o) = {} /\ h = [f \in Fields |-> h[f]]
    BY <2>2, <2>3, <2>4
  <2>5. Once(h)
    <3>1. Joins(h, o, open, "expand")
      BY <2>a, CallsJoin
    <3> QED BY <2>b, <3>1, NewCalls
  <2>6. WalksOf(h) = {}
    <3>1. \A n \in open : Listing(n, "expand", <<>>).by = "expand"
      BY ListingFields
    <3>2. WalksOf(h) = WalksOf(o)
      BY <2>a, <3>1 DEF WalksOf
    <3> QED BY <2>3, <3>2
  <2>7. CASE t.filter /\ t.deep
    BY <2>1, <2>3, <2>4, <2>5, <2>7, StartWalkWalks
  <2>8. CASE ~(t.filter /\ t.deep)
    <3>1. h.active = FALSE
      BY <1>0, <2>3, <2>4, <2>8 DEF WalkInv, Walking
    <3> QED BY <2>1, <2>6, <2>8, <3>1, RestsWalking
  <2> QED BY <2>7, <2>8
<1> QED BY <1>1, <1>2

LEMMA FilterKeepsWalk ==
    ASSUME WalkInv, NEW on \in BOOLEAN, NEW changed \in BOOLEAN, SetFilter(on, changed)
    PROVE  Walking(t')
<1> DEFINE h0 == IF changed THEN AbortWalk(t) ELSE t
           h1 == [h0 EXCEPT !.filter = on, !.deep = t.deep /\ on]
           S  == {m \in Sources : Waits(h1, m)}
           h2 == [h1 EXCEPT !.calls = @ \cup {Listing(n, "preload", <<>>) : n \in S}]
<1>0. Once(t) /\ Walking(t)
  BY DEF WalkInv
<1>1. /\ t' = IF ~on THEN h1 ELSE IF h2.deep /\ ~h2.active THEN StartWalk(h2) ELSE h2
      /\ changed \/ on = t.filter
      /\ on \/ t.filter
  BY DEF SetFilter, Turn
<1>2. S \cap Loading(h1) = {}
  <2> HIDE DEF h1
  <2> QED BY DEF Waits
<1>3. /\ Once(h0)
      /\ changed => WalksOf(h0) = {} /\ h0.active = FALSE
      /\ ~changed => h0 = t
  BY <1>0, AbortWalkRests
<1> HIDE DEF h0
<1>4. /\ h1 = [f \in Fields |-> h1[f]] /\ h1.calls = h0.calls
      /\ h1.active = h0.active /\ h1.filter = on /\ h1.deep = (t.deep /\ on)
  BY <1>3 DEF Once, Shape, Fields
<1> HIDE DEF S, h1
<1>5. Once(h1) /\ WalksOf(h1) = WalksOf(h0)
  BY <1>3, <1>4, SameCalls DEF WalksOf
<1>6. /\ h2 = [f \in Fields |-> h2[f]]
      /\ h2.calls = h1.calls \cup {Listing(n, "preload", <<>>) : n \in S}
      /\ h2.active = h1.active /\ h2.filter = h1.filter /\ h2.deep = h1.deep
  BY <1>5 DEF Once, Shape, Fields
<1> HIDE DEF h2
<1>7. Once(h2)
  <2>1. Joins(h2, h1, S, "preload")
    BY <1>6, CallsJoin
  <2>2. h2 = [f \in Fields |-> h2[f]]
    BY <1>6
  <2> QED BY <1>2, <1>5, <2>1, <2>2, NewCalls
<1>8. WalksOf(h2) = WalksOf(h0)
  <2>1. h2.calls = h1.calls \cup {Listing(n, "preload", <<>>) : n \in S}
    BY <1>6
  <2>2. \A n \in S : Listing(n, "preload", <<>>).by = "preload"
    BY ListingFields
  <2>3. WalksOf(h2) = WalksOf(h1)
    BY <2>1, <2>2 DEF WalksOf
  <2> QED BY <1>5, <2>3
<1>9. CASE changed
  <2>1. Walking(h1) /\ Walking(h2)
    BY <1>3, <1>4, <1>5, <1>6, <1>8, <1>9, RestsWalking
  <2>2. CASE on /\ h2.deep /\ ~h2.active
    <3>1. h2.filter = TRUE /\ h2.deep = TRUE
      BY <1>4, <1>6, <2>2
    <3> QED BY <1>1, <1>7, <2>2, <3>1, StartWalkWalks
  <2> QED BY <1>1, <2>1, <2>2
<1>10. CASE ~changed
  <2>1. on = TRUE /\ t.filter = TRUE
    BY <1>1, <1>10
  <2>2. CASE h2.deep /\ ~h2.active
    <3>1. h2.filter = TRUE /\ h2.deep = TRUE
      BY <1>4, <1>6, <2>1, <2>2
    <3> QED BY <1>1, <1>7, <2>1, <2>2, <3>1, StartWalkWalks
  <2>3. CASE ~(h2.deep /\ ~h2.active)
    <3>1. t' = h2
      BY <1>1, <2>1, <2>3
    <3>2. h2.active = t.active /\ h2.filter = TRUE /\ (t.deep = TRUE => h2.deep = TRUE)
      BY <1>3, <1>4, <1>6, <1>10, <2>1
    <3>3. WalksOf(h2) = WalksOf(t)
      BY <1>3, <1>8, <1>10
    <3> QED BY <1>0, <3>1, <3>2, <3>3 DEF Walking
  <2> QED BY <2>2, <2>3
<1> QED BY <1>9, <1>10

LEMMA DeepKeepsWalk ==
    ASSUME WalkInv, NEW on \in BOOLEAN, SetDeep(on)
    PROVE  Walking(t')
<1> DEFINE h(b) == [t EXCEPT !.deep = b]
<1>0. Once(t) /\ Walking(t)
  BY DEF WalkInv
<1>1. /\ t.filter /\ t.deep # on
      /\ t' = IF ~on THEN AbortWalk(h(FALSE))
              ELSE IF t.active THEN h(TRUE) ELSE StartWalk(h(TRUE))
  BY DEF SetDeep, Turn
<1>2. ASSUME NEW b
      PROVE  /\ h(b) = [f \in Fields |-> h(b)[f]] /\ h(b).calls = t.calls
             /\ h(b).filter = t.filter /\ h(b).deep = b /\ h(b).active = t.active
  BY <1>0 DEF Once, Shape, Fields
<1> HIDE DEF h
<1>3. \A b : Once(h(b))
  BY <1>0, <1>2, SameCalls
<1>4. CASE on = FALSE
  <2>1. WalksOf(t') = {} /\ t'.active = FALSE
    BY <1>1, <1>3, <1>4, AbortWalkRests
  <2> QED BY <2>1, RestsWalking
<1>5. CASE on = TRUE
  <2>1. ~t.active /\ t' = StartWalk(h(TRUE))
    BY <1>0, <1>1, <1>5 DEF WalkInv, Walking
  <2>2. h(TRUE).filter = TRUE /\ h(TRUE).deep = TRUE
    BY <1>1, <1>2
  <2> QED BY <1>3, <2>1, <2>2, StartWalkWalks
<1> QED BY <1>4, <1>5


LEMMA StepsKeepWalk ==
    ASSUME WalkInv, [Next]_vars
    PROVE  Walking(t')
<1>1. ASSUME NEW c \in t.calls, Lands(c) \/ LandsNot(c) PROVE Walking(t')
  BY <1>1, AnswersKeepWalk
<1>2. ASSUME NEW n \in Nodes,
             Expand(n) \/ Collapse(n) \/ Twist(n) \/ Reload(n) \/ Reveal(n) \/ UpdateDir(n)
      PROVE  Walking(t')
  BY <1>2, FoldersKeepWalk
<1>3. CASE CollapseAll \/ SetSources
  BY <1>3, SourcesKeepWalk
<1>4. ASSUME NEW on \in BOOLEAN, NEW changed \in BOOLEAN, SetFilter(on, changed) PROVE Walking(t')
  BY <1>4, FilterKeepsWalk
<1>5. ASSUME NEW on \in BOOLEAN, SetDeep(on) PROVE Walking(t')
  BY <1>5, DeepKeepsWalk
<1>6. CASE UNCHANGED vars
  BY <1>6 DEF vars, WalkInv
<1> QED BY <1>1, <1>2, <1>3, <1>4, <1>5, <1>6 DEF Next

(* The tree says it is walking exactly while one walk goes on, and that for *)
(* a filter that stands with the deep search on, whatever is clicked, fed,  *)
(* reloaded or answered between its listings                                *)
(* (frontend/js/tree.js: startWalk, walkNode, abortWalk).                   *)
THEOREM OneWalkGoesOn == Spec => []OneWalk
<1>1. Init => WalkInv
  <2> SUFFICES ASSUME Init PROVE Walking(t)
    BY InitOnce DEF WalkInv
  <2> QED BY RestsWalking DEF Init, Closed, WalksOf
<1>2. WalkInv /\ [Next]_vars => WalkInv'
  <2> SUFFICES ASSUME WalkInv, [Next]_vars PROVE Once(t') /\ Walking(t')
    BY DEF WalkInv, Once, Shape, Walking, WalksOf
  <2> QED BY StaysOnce, StepsKeepWalk DEF WalkInv
<1>3. WalkInv => OneWalk
  <2> SUFFICES ASSUME Walking(t) PROVE OneWalk
    BY DEF WalkInv
  <2>1. Walks = WalksOf(t)
    BY DEF Walks, WalksOf
  <2>2. CASE t.active = FALSE
    <3>1. Walks = {}
      BY <2>1, <2>2 DEF Walking
    <3> QED BY <2>2, <3>1, FS_EmptySet DEF OneWalk
  <2>3. CASE t.active = TRUE
    <3>1. PICK c \in Walks : Walks = {c}
      BY <2>1, <2>3 DEF Walking
    <3>2. t.filter /\ t.deep
      BY <2>3 DEF Walking
    <3> QED BY <2>3, <3>1, <3>2, FS_Singleton DEF OneWalk
  <2> QED BY <2>2, <2>3 DEF Walking
<1> QED BY <1>1, <1>2, <1>3, PTL DEF Spec
-----------------------------------------------------------------------------
(* The types, and the rows: a folder is loaded only while its rows hang     *)
(* below it, and rows that hang are in the map of nodes, where clicks look  *)
(* for them.  The path to a folder is recursive; it is there because every  *)
(* parent comes before its rows, by the least place at which it would not.  *)
LEMMA LeastOf ==
    ASSUME NEW S, S \subseteq Nat, S # {}
    PROVE  \E i \in S : \A j \in Nat : j < i => j \notin S
<1>1. PICK i \in S : \A k \in S : <<k, i>> \notin OpToRel(<, Nat)
  BY WFMin, NatLessThanWellFounded, Zenon
<1>2. \A k \in S : ~(k < i)
  BY <1>1, Zenon DEF OpToRel
<1> QED BY <1>1, <1>2

Upto(k)     == {Order[i] : i \in 1..k}
Paths(f, k) == f = [n \in Upto(k) |-> IF Parent[n] = n THEN <<n>> ELSE Append(f[Parent[n]], n)]

LEMMA ParentUpto ==
    ASSUME NEW k \in 0..Len(Order), NEW n \in Upto(k)
    PROVE  n \in Nodes /\ Parent[n] \in Upto(k)
<1>1. PICK i \in 1..k : n = Order[i]
  BY DEF Upto
<1>2. i \in DOMAIN Order /\ n \in Nodes
  BY <1>1, SidebarAssumption
<1>3. CASE Parent[n] = n
  BY <1>2, <1>3
<1>4. ASSUME NEW j \in 1..(i - 1), Order[j] = Parent[n] PROVE Parent[n] \in Upto(k)
  <2>1. j \in 1..k
    BY <1>1
  <2> QED BY <1>4, <2>1 DEF Upto
<1> QED BY <1>1, <1>2, <1>3, <1>4, ParentsFirst

LEMMA PathsExist == \E f : Paths(f, Len(Order))
<1> DEFINE B == {k \in 0..Len(Order) : ~\E f : Paths(f, k)}
<1>0. Len(Order) \in Nat
  BY SidebarAssumption
<1> SUFFICES ASSUME B # {} PROVE FALSE
  BY <1>0 DEF B
<1>1. PICK k \in B : \A j \in Nat : j < k => j \notin B
  <2>1. B \subseteq Nat
    BY <1>0 DEF B
  <2> HIDE DEF B
  <2> QED BY <2>1, LeastOf
<1>2. k \in 0..Len(Order) /\ k \in Nat /\ ~\E f : Paths(f, k)
  BY <1>0, <1>1 DEF B
<1>3. CASE k = 0
  <2> DEFINE e == [n \in {} |-> <<>>]
  <2>1. Upto(0) = {}
    BY DEF Upto
  <2>2. Paths(e, 0)
    BY <2>1 DEF Paths
  <2> QED BY <1>2, <1>3, <2>2
<1>4. CASE k # 0
  <2>1. k - 1 \in 0..Len(Order) /\ k - 1 \in Nat /\ k - 1 < k
    BY <1>0, <1>2, <1>4
  <2>2. PICK f : Paths(f, k - 1)
    BY <1>1, <2>1 DEF B
  <2> DEFINE U    == Upto(k - 1)
             V    == Upto(k)
             R(g, n) == IF Parent[n] = n THEN <<n>> ELSE Append(g[Parent[n]], n)
             e    == [n \in V |-> IF n \in U THEN f[n] ELSE R(f, n)]
  <2>3. f = [n \in U |-> R(f, n)]
    BY <2>2 DEF Paths
  <2>4. \A n \in U : Parent[n] \in U
    BY <2>1, ParentUpto
  <2>5. \A n \in V : n \in U \/ n = Order[k]
    BY <1>2 DEF Upto
  <2>6. U \subseteq V
    BY <1>2 DEF Upto
  <2>7. Parent[Order[k]] = Order[k] \/ Parent[Order[k]] \in U
    <3>1. k \in DOMAIN Order
      BY <1>2, <1>4, SidebarAssumption
    <3> QED BY <3>1, ParentsFirst DEF Upto
  <2> HIDE DEF U, V
  <2>8. \A n \in U : e[n] = f[n]
    BY <2>6
  <2>9. ASSUME NEW n \in V PROVE e[n] = R(e, n)
    <3>1. CASE n \in U
      <4>1. e[n] = f[n] /\ f[n] = R(f, n)
        BY <2>3, <2>8, <3>1
      <4>2. e[Parent[n]] = f[Parent[n]]
        BY <2>4, <2>8, <3>1
      <4> HIDE DEF e
      <4> QED BY <4>1, <4>2
    <3>2. CASE n \notin U
      <4>1. e[n] = R(f, n)
        BY <3>2
      <4>2. Parent[n] # n => e[Parent[n]] = f[Parent[n]]
        BY <2>5, <2>7, <2>8, <3>2
      <4> HIDE DEF e
      <4> QED BY <4>1, <4>2
    <3> QED BY <3>1, <3>2
  <2>10. e = [n \in V |-> R(e, n)]
    <3>1. e = [n \in V |-> e[n]]
      OBVIOUS
    <3> HIDE DEF e, R
    <3> QED BY <2>9, <3>1
  <2>11. Paths(e, k)
    <3> HIDE DEF e
    <3> QED BY <2>10 DEF Paths, V
  <2> QED BY <1>2, <2>11
<1> QED BY <1>3, <1>4

LEMMA PathIs ==
    ASSUME NEW n \in Nodes
    PROVE  Path[n] = IF Parent[n] = n THEN <<n>> ELSE Append(Path[Parent[n]], n)
<1>1. Upto(Len(Order)) = Nodes
  BY SidebarAssumption DEF Upto, Nodes, Range
<1>2. Path = CHOOSE f : Paths(f, Len(Order))
  BY <1>1 DEF Path, Paths
<1>3. Paths(Path, Len(Order))
  BY <1>2, PathsExist
<1> QED BY <1>1, <1>3 DEF Paths

LEMMA PathType ==
    ASSUME NEW n \in Nodes
    PROVE  Path[n] \in Seq(Nodes) /\ Path[n][1] \in Nodes
<1> DEFINE Good(m) == Path[m] \in Seq(Nodes) /\ Path[m] # <<>>
           B == {i \in 1..Len(Order) : ~Good(Order[i])}
<1>1. Len(Order) \in Nat /\ \A i \in 1..Len(Order) : Order[i] \in Nodes
  BY SidebarAssumption
<1>2. B = {}
  <2> SUFFICES ASSUME B # {} PROVE FALSE
    OBVIOUS
  <2>1. PICK i \in B : \A j \in Nat : j < i => j \notin B
    <3>1. B \subseteq Nat
      BY <1>1
    <3> HIDE DEF B
    <3> QED BY <3>1, LeastOf
  <2> DEFINE m == Order[i]
  <2>2. i \in 1..Len(Order) /\ m \in Nodes /\ ~Good(m)
    BY <1>1, <2>1
  <2>3. Path[m] = IF Parent[m] = m THEN <<m>> ELSE Append(Path[Parent[m]], m)
    BY <2>2, PathIs
  <2>4. PICK j \in 1..(i - 1) : Order[j] = Parent[m]
    <3>1. i \in DOMAIN Order
      BY <2>2, SidebarAssumption
    <3>2. Parent[m] # m
      BY <2>2, <2>3
    <3> QED BY <3>1, <3>2, ParentsFirst
  <2>5. Good(Parent[m])
    BY <1>1, <2>1, <2>2, <2>4
  <2> QED BY <2>2, <2>3, <2>4, <2>5
<1>3. PICK i \in 1..Len(Order) : n = Order[i]
  BY SidebarAssumption DEF Nodes, Range
<1>4. Good(n)
  BY <1>2, <1>3
<1> QED BY <1>4

(* A tree well typed, the listings in it, and its rows. *)
Flags(h) == /\ h.known \in [Nodes -> BOOLEAN] /\ h.expanded \in [Nodes -> BOOLEAN]
            /\ h.loaded \in [Nodes -> BOOLEAN] /\ h.kids \in [Nodes -> BOOLEAN]
            /\ h.filter \in BOOLEAN /\ h.deep \in BOOLEAN /\ h.active \in BOOLEAN
Asked(c) == c.node \in Nodes /\ c.by \in Callers /\ c.rest \in Seq(Nodes)
Hangs(h) == \A n \in Nodes : /\ h.loaded[n] => h.kids[n]
                             /\ h.kids[n] => \A k \in Kids(n) : h.known[k]
Tree(h)  == Shape(h) /\ Flags(h) /\ Hangs(h) /\ \A c \in h.calls : Asked(c)

(* What leaves the rows alone, and may begin listings. *)
SameRows(h, g) == g.known = h.known /\ g.loaded = h.loaded /\ g.kids = h.kids
Adds(h, g) ==
    \A c \in g.calls : c \in h.calls \/ \E n \in Nodes, by \in Callers, rest \in Seq(Nodes) :
                                            c = Listing(n, by, rest)

LEMMA TypedListing ==
    ASSUME NEW n \in Nodes, NEW by \in Callers, NEW rest \in Seq(Nodes),
           NEW c, c = Listing(n, by, rest)
    PROVE  Asked(c) /\ c = Listing(c.node, c.by, c.rest)
<1>1. c.node = n /\ c.by = by /\ c.rest = rest
  BY ListingFields
<1> QED BY <1>1 DEF Asked

LEMMA AddsTyped ==
    ASSUME NEW h, NEW g, Tree(h), Adds(h, g)
    PROVE  \A c \in g.calls : Asked(c) /\ c = Listing(c.node, c.by, c.rest)
<1> SUFFICES ASSUME NEW c \in g.calls PROVE Asked(c) /\ c = Listing(c.node, c.by, c.rest)
  OBVIOUS
<1>1. CASE c \in h.calls
  BY <1>1 DEF Tree, Shape
<1>2. CASE c \notin h.calls
  BY <1>2, TypedListing DEF Adds
<1> QED BY <1>1, <1>2

LEMMA JoinsAdds ==
    ASSUME NEW h, NEW g, NEW S \in SUBSET Nodes, NEW by \in Callers, Joins(g, h, S, by)
    PROVE  Adds(h, g)
<1>1. <<>> \in Seq(Nodes)
  OBVIOUS
<1> QED BY <1>1 DEF Joins, Adds

LEMMA SameTree ==
    ASSUME NEW h, NEW g, Tree(h), g = [f \in Fields |-> g[f]], SameRows(h, g), Adds(h, g),
           g.expanded \in [Nodes -> BOOLEAN],
           g.filter \in BOOLEAN, g.deep \in BOOLEAN, g.active \in BOOLEAN
    PROVE  Tree(g)
<1>1. \A c \in g.calls : Asked(c) /\ c = Listing(c.node, c.by, c.rest)
  BY AddsTyped
<1>2. Flags(g) /\ Hangs(g)
  BY DEF Tree, Flags, Hangs, SameRows
<1> QED BY <1>1, <1>2 DEF Tree, Shape

LEMMA LoadChildrenTree ==
    ASSUME NEW h, NEW n \in Nodes, NEW by \in Callers, NEW rest \in Seq(Nodes), Tree(h)
    PROVE  Tree(LoadChildren(h, n, by, rest))
<1> DEFINE g == [h EXCEPT !.calls = @ \cup {Listing(n, by, rest)}]
<1>1. LoadChildren(h, n, by, rest) \in {h, g}
  BY DEF LoadChildren
<1>2. /\ g = [f \in Fields |-> g[f]] /\ SameRows(h, g) /\ g.expanded = h.expanded
      /\ g.filter = h.filter /\ g.deep = h.deep /\ g.active = h.active
      /\ g.calls = h.calls \cup {Listing(n, by, rest)}
  BY DEF Tree, Shape, Fields, SameRows
<1> HIDE DEF g
<1>3. Adds(h, g)
  BY <1>2 DEF Adds
<1>4. Tree(g)
  BY <1>2, <1>3, SameTree DEF Tree, Flags
<1> QED BY <1>1, <1>4

(* A row opened or shut. *)
LEMMA OpenedTree ==
    ASSUME NEW h, NEW n, NEW b \in BOOLEAN, Tree(h)
    PROVE  Tree([h EXCEPT !.expanded[n] = b])
<1> DEFINE g == [h EXCEPT !.expanded[n] = b]
<1>1. /\ g = [f \in Fields |-> g[f]] /\ SameRows(h, g) /\ g.calls = h.calls
      /\ g.expanded = [h.expanded EXCEPT ![n] = b]
      /\ g.filter = h.filter /\ g.deep = h.deep /\ g.active = h.active
  BY DEF Tree, Shape, Fields, SameRows
<1> HIDE DEF g
<1>2. Adds(h, g)
  BY <1>1 DEF Adds
<1>3. Tree(g)
  BY <1>1, <1>2, SameTree DEF Tree, Flags
<1> QED BY <1>3 DEF g

LEMMA ExpandedTree ==
    ASSUME NEW h, NEW n \in Nodes, Tree(h)
    PROVE  Tree(Expanded(h, n))
<1> DEFINE g == [h EXCEPT !.expanded[n] = TRUE]
<1>1. Tree(g)
  BY OpenedTree
<1>2. Expanded(h, n) \in {h, LoadChildren(g, n, "expand", <<>>)}
  BY DEF Expanded
<1> HIDE DEF g
<1>3. "expand" \in Callers /\ <<>> \in Seq(Nodes)
  BY DEF Callers
<1>4. Tree(LoadChildren(g, n, "expand", <<>>))
  BY <1>1, <1>3, LoadChildrenTree
<1> QED BY <1>1, <1>2, <1>4

LEMMA RevealPathTree ==
    ASSUME NEW h, NEW path \in Seq(Nodes), Tree(h)
    PROVE  Tree(RevealPath(h, path))
<1> DEFINE stops == {i \in DOMAIN path : Waits(h, path[i])}
           stop  == IF stops = {} THEN Len(path) ELSE CHOOSE i \in stops : \A j \in stops : i <= j
           opens == {n \in Range(SubSeq(path, 1, stop)) : h.known[n]}
           g     == [h EXCEPT !.expanded = [n \in Nodes |-> @[n] \/ n \in opens]]
           rest  == SubSeq(path, stop + 1, Len(path))
<1>1. RevealPath(h, path) = IF stops = {} THEN g ELSE LoadChildren(g, path[stop], "reveal", rest)
  BY DEF RevealPath
<1>2. stops # {} => stop \in stops
  <2>1. stops \subseteq Nat
    OBVIOUS
  <2> HIDE DEF stops
  <2> QED BY <2>1, LeastPlace
<1>3. stops # {} => path[stop] \in Nodes /\ rest \in Seq(Nodes)
  <2>1. stops # {} => stop \in 1..Len(path)
    BY <1>2
  <2> HIDE DEF stop, stops
  <2> QED BY <2>1
<1>4. Tree(g)
  <2> HIDE DEF opens
  <2>1. /\ g = [f \in Fields |-> g[f]] /\ SameRows(h, g) /\ g.calls = h.calls
        /\ g.expanded = [n \in Nodes |-> h.expanded[n] \/ n \in opens]
        /\ g.filter = h.filter /\ g.deep = h.deep /\ g.active = h.active
    BY DEF Tree, Shape, Fields, SameRows
  <2> HIDE DEF g
  <2>2. Adds(h, g)
    BY <2>1 DEF Adds
  <2>3. h.expanded \in [Nodes -> BOOLEAN] /\ Flags(h)
    BY DEF Tree, Flags
  <2>4. g.expanded \in [Nodes -> BOOLEAN]
    <3>1. \A n \in Nodes : h.expanded[n] \in BOOLEAN
      BY <2>3
    <3> QED BY <2>1, <3>1
  <2>5. g.filter \in BOOLEAN /\ g.deep \in BOOLEAN /\ g.active \in BOOLEAN
    BY <2>1, <2>3 DEF Flags
  <2> QED BY <2>1, <2>2, <2>4, <2>5, SameTree
<1> HIDE DEF stops, stop, g, rest
<1>5. stops # {} => Tree(LoadChildren(g, path[stop], "reveal", rest))
  <2>1. "reveal" \in Callers
    BY DEF Callers
  <2> QED BY <1>3, <1>4, <2>1, LoadChildrenTree
<1> QED BY <1>1, <1>4, <1>5

(* The rows that are built anew hang, and are known; those below them that  *)
(* were loaded are loaded no more.                                          *)
LEMMA RebuiltTree ==
    ASSUME NEW h, NEW n \in Nodes, Tree(h)
    PROVE  Tree(Rebuilt(h, n))
<1> DEFINE again == {k \in Kids(n) : h.expanded[k] /\ k \notin Loading(h)}
           g     == Rebuilt(h, n)
<1>1. /\ g = [f \in Fields |-> g[f]]
      /\ g.known = [k \in Nodes |-> h.known[k] \/ k \in Kids(n)]
      /\ g.loaded = [k \in Nodes |-> IF k \in Kids(n) THEN FALSE ELSE h.loaded[k] \/ k = n]
      /\ g.kids = [h.kids EXCEPT ![n] = TRUE] /\ g.expanded = h.expanded
      /\ g.filter = h.filter /\ g.deep = h.deep /\ g.active = h.active
      /\ g.calls = h.calls \cup {Listing(k, "expand", <<>>) : k \in again}
  <2> HIDE DEF again
  <2>1. g = [h EXCEPT !.known  = [k \in Nodes |-> @[k] \/ k \in Kids(n)],
                      !.loaded = [k \in Nodes |-> IF k \in Kids(n) THEN FALSE ELSE @[k] \/ k = n],
                      !.kids[n] = TRUE,
                      !.calls  = @ \cup {Listing(k, "expand", <<>>) : k \in again}]
    BY DEF Rebuilt, again
  <2> HIDE DEF g
  <2> QED BY <2>1 DEF Tree, Shape, Fields
<1>2. again \subseteq Nodes
  BY DEF Kids
<1> HIDE DEF g, again
<1>3. Adds(h, g)
  <2>1. "expand" \in Callers
    BY DEF Callers
  <2>2. Joins(g, h, again, "expand")
    BY <1>1, CallsJoin
  <2> QED BY <1>2, <2>1, <2>2, JoinsAdds
<1>4. Flags(g)
  BY <1>1 DEF Tree, Flags
<1>5. ASSUME NEW m \in Nodes
      PROVE  /\ g.loaded[m] => g.kids[m]
             /\ g.kids[m] => \A k \in Kids(m) : g.known[k]
  <2>1. /\ h.loaded[m] => h.kids[m]
        /\ h.kids[m] => \A k \in Kids(m) : h.known[k]
    BY DEF Tree, Hangs
  <2>2. h.kids \in [Nodes -> BOOLEAN] /\ \A k \in Kids(m) : k \in Nodes
    BY DEF Tree, Flags, Kids
  <2>3. g.kids[m] <=> h.kids[m] \/ m = n
    BY <1>1, <2>2
  <2>4. g.loaded[m] => h.loaded[m] \/ m = n
    BY <1>1
  <2>5. \A k \in Nodes : g.known[k] <=> h.known[k] \/ k \in Kids(n)
    BY <1>1
  <2> QED BY <2>1, <2>2, <2>3, <2>4, <2>5
<1>6. Hangs(g)
  BY <1>5 DEF Hangs
<1>7. \A c \in g.calls : Asked(c) /\ c = Listing(c.node, c.by, c.rest)
  BY <1>3, AddsTyped
<1>8. Tree(g)
  BY <1>1, <1>4, <1>6, <1>7 DEF Tree, Shape
<1> QED BY <1>8 DEF g

LEMMA OutdatedTree ==
    ASSUME NEW h, Tree(h)
    PROVE  Tree(Outdated(h))
<1> DEFINE F(c) == IF c.by = "walk" THEN [c EXCEPT !.by = "aborted"] ELSE c
           g    == Outdated(h)
<1>1. /\ g = [f \in Fields |-> g[f]] /\ SameRows(h, g) /\ g.calls = {F(c) : c \in h.calls}
      /\ g.expanded = h.expanded /\ g.filter = h.filter /\ g.deep = h.deep
      /\ g.active = h.active
  BY DEF Outdated, Tree, Shape, Fields, SameRows
<1>2. ASSUME NEW c \in h.calls
      PROVE  F(c) = c \/ F(c) = Listing(c.node, "aborted", c.rest)
  <2>1. c = [node |-> c.node, by |-> c.by, rest |-> c.rest]
    BY DEF Tree, Shape, Listing
  <2>2. CASE c.by = "walk"
    <3>1. F(c) = [node |-> c.node, by |-> "aborted", rest |-> c.rest]
      BY <2>1, <2>2
    <3> HIDE DEF F
    <3> QED BY <3>1 DEF Listing
  <2>3. CASE c.by # "walk"
    BY <2>3
  <2> QED BY <2>2, <2>3
<1> HIDE DEF F, g
<1>3. Adds(h, g)
  <2> SUFFICES ASSUME NEW d \in g.calls
               PROVE  d \in h.calls \/ \E n \in Nodes, by \in Callers, rest \in Seq(Nodes) :
                                          d = Listing(n, by, rest)
    BY DEF Adds
  <2>1. PICK c \in h.calls : d = F(c)
    BY <1>1
  <2>2. c.node \in Nodes /\ "aborted" \in Callers /\ c.rest \in Seq(Nodes)
    BY DEF Tree, Asked, Callers
  <2>3. d = c \/ d = Listing(c.node, "aborted", c.rest)
    BY <1>2, <2>1
  <2> QED BY <2>2, <2>3
<1>4. h.expanded \in [Nodes -> BOOLEAN] /\ h.filter \in BOOLEAN /\ h.deep \in BOOLEAN
      /\ h.active \in BOOLEAN
  BY DEF Tree, Flags
<1>5. Tree(g)
  BY <1>1, <1>3, <1>4, SameTree
<1> QED BY <1>5 DEF g

(* The three flags of the search are set. *)
Searches(h, g) ==
    /\ g = [f \in Fields |-> g[f]] /\ SameRows(h, g) /\ g.calls = h.calls
    /\ g.expanded = h.expanded
    /\ g.filter \in BOOLEAN /\ g.deep \in BOOLEAN /\ g.active \in BOOLEAN

LEMMA SearchesTree ==
    ASSUME NEW h, NEW g, Tree(h), Searches(h, g)
    PROVE  Tree(g)
<1>1. Adds(h, g)
  BY DEF Adds, Searches
<1>2. g.expanded \in [Nodes -> BOOLEAN]
  BY DEF Searches, Tree, Flags
<1> QED BY <1>1, <1>2, SameTree DEF Searches

LEMMA ActiveTree ==
    ASSUME NEW h, NEW b \in BOOLEAN, Tree(h)
    PROVE  Tree([h EXCEPT !.active = b])
<1> DEFINE g == [h EXCEPT !.active = b]
<1>1. Searches(h, g)
  <2>1. /\ g = [f \in Fields |-> g[f]] /\ SameRows(h, g) /\ g.calls = h.calls
        /\ g.expanded = h.expanded /\ g.filter = h.filter /\ g.deep = h.deep /\ g.active = b
    BY DEF Tree, Shape, Fields, SameRows
  <2> HIDE DEF g
  <2> QED BY <2>1 DEF Searches, Tree, Flags
<1> HIDE DEF g
<1>2. Tree(g)
  BY <1>1, SearchesTree
<1> QED BY <1>2 DEF g

LEMMA AbortWalkTree ==
    ASSUME NEW h, Tree(h)
    PROVE  Tree(AbortWalk(h))
BY OutdatedTree, ActiveTree DEF AbortWalk

LEMMA WalkOnTree ==
    ASSUME NEW h, NEW i \in Nat, NEW skip, Tree(h)
    PROVE  Tree(WalkOn(h, i, skip))
<1> DEFINE next == {j \in (i + 1)..Len(Order) :
                       /\ ~h.loaded[Order[j]] /\ Order[j] \notin Loading(h)
                       /\ \A m \in Above(Order[j]) : h.kids[m] /\ m \notin skip}
           place == CHOOSE j \in next : \A k \in next : j <= k
           node == Order[place]
           g    == [h EXCEPT !.active = FALSE]
<1>1. WalkOn(h, i, skip) = IF next = {} THEN g ELSE LoadChildren(h, node, "walk", <<>>)
  BY DEF WalkOn
<1>2. Len(Order) \in Nat /\ \A j \in 1..Len(Order) : Order[j] \in Nodes
  BY SidebarAssumption
<1>3. next \subseteq Nat /\ next \subseteq 1..Len(Order)
  BY <1>2
<1>4. next # {} => place \in next
  <2> HIDE DEF next
  <2> QED BY <1>3, LeastPlace
<1>5. Tree(g)
  BY ActiveTree
<1> HIDE DEF next, place, g
<1>6. next # {} => node \in Nodes
  BY <1>2, <1>3, <1>4
<1> HIDE DEF node
<1>7. next # {} => Tree(LoadChildren(h, node, "walk", <<>>))
  <2>1. "walk" \in Callers /\ <<>> \in Seq(Nodes)
    BY DEF Callers
  <2> QED BY <1>6, <2>1, LoadChildrenTree
<1> QED BY <1>1, <1>5, <1>7

LEMMA StartWalkTree ==
    ASSUME NEW h, Tree(h)
    PROVE  Tree(StartWalk(h))
<1>1. Tree([Outdated(h) EXCEPT !.active = TRUE])
  BY OutdatedTree, ActiveTree
<1> QED BY <1>1, WalkOnTree DEF StartWalk

(* Sources begin listings. *)
LEMMA SourcesListed ==
    ASSUME NEW h, NEW S \in SUBSET Nodes, NEW by \in Callers, Tree(h)
    PROVE  Tree([h EXCEPT !.calls = @ \cup {Listing(n, by, <<>>) : n \in S}])
<1> DEFINE g == [h EXCEPT !.calls = @ \cup {Listing(n, by, <<>>) : n \in S}]
<1>1. /\ g = [f \in Fields |-> g[f]] /\ SameRows(h, g) /\ g.expanded = h.expanded
      /\ g.filter = h.filter /\ g.deep = h.deep /\ g.active = h.active
      /\ g.calls = h.calls \cup {Listing(n, by, <<>>) : n \in S}
  BY DEF Tree, Shape, Fields, SameRows
<1> HIDE DEF g
<1>2. Adds(h, g)
  BY <1>1, CallsJoin, JoinsAdds
<1>3. Tree(g)
  BY <1>1, <1>2, SameTree DEF Tree, Flags
<1> QED BY <1>3 DEF g

LEMMA AnswersKeepTree ==
    ASSUME Tree(t), NEW c \in t.calls, Lands(c) \/ LandsNot(c)
    PROVE  Tree(t')
<1> DEFINE a == Answered(c)  shut == [a EXCEPT !.expanded[c.node] = FALSE]
<1>1. c.node \in Nodes /\ c.rest \in Seq(Nodes)
  BY DEF Tree, Asked
<1>2. Place(c.node) \in Nat
  <2>1. PICK i \in DOMAIN Order : Order[i] = c.node
    BY <1>1, SidebarAssumption DEF Nodes, Range
  <2>2. Place(c.node) \in DOMAIN Order
    BY <2>1 DEF Place
  <2> QED BY <2>2, SidebarAssumption
<1>3. Tree(a)
  <2>1. /\ a = [f \in Fields |-> a[f]] /\ SameRows(t, a) /\ a.calls = t.calls \ {c}
        /\ a.expanded = t.expanded /\ a.filter = t.filter /\ a.deep = t.deep
        /\ a.active = t.active
    BY DEF Answered, Tree, Shape, Fields, SameRows
  <2> HIDE DEF a
  <2>2. Adds(t, a)
    BY <2>1 DEF Adds
  <2> QED BY <2>1, <2>2, SameTree DEF Tree, Flags
<1>4. Tree(shut)
  <2> HIDE DEF a
  <2> QED BY <1>3, OpenedTree
<1>5. CASE Lands(c)
  <2> DEFINE r == Rebuilt(a, c.node)
  <2>1. Tree(r)
    <3> HIDE DEF a
    <3> QED BY <1>1, <1>3, RebuiltTree
  <2>2. t' = r \/ t' = WalkOn(r, Place(c.node), {}) \/ t' = RevealPath(r, c.rest)
    BY <1>5 DEF Lands
  <2> HIDE DEF r
  <2> QED BY <1>1, <1>2, <2>1, <2>2, WalkOnTree, RevealPathTree
<1>6. CASE LandsNot(c)
  <2>1. \/ t' = WalkOn(a, Place(c.node), {c.node})
        \/ t' = RevealPath(shut, c.rest)
        \/ t' = shut \/ t' = a
    BY <1>6 DEF LandsNot
  <2> HIDE DEF shut, a
  <2> QED BY <1>1, <1>2, <1>3, <1>4, <2>1, WalkOnTree, RevealPathTree
<1> QED BY <1>5, <1>6

LEMMA FoldersKeepTree ==
    ASSUME Tree(t), NEW n \in Nodes,
           Expand(n) \/ Collapse(n) \/ Twist(n) \/ Reload(n) \/ Reveal(n) \/ UpdateDir(n)
    PROVE  Tree(t')
<1>1. CASE Expand(n)
  BY <1>1, ExpandedTree DEF Expand, Turn
<1>2. CASE Collapse(n)
  BY <1>2, OpenedTree DEF Collapse, Turn
<1>3. CASE Twist(n)
  <2>1. "preload" \in Callers /\ <<>> \in Seq(Nodes)
    BY DEF Callers
  <2>2. t' = LoadChildren(t, n, "preload", <<>>)
    BY <1>3 DEF Twist, Turn
  <2> QED BY <2>1, <2>2, LoadChildrenTree
<1>4. CASE Reload(n)
  <2> DEFINE g == [t EXCEPT !.loaded[n] = FALSE, !.kids[n] = FALSE]
  <2>1. /\ g = [f \in Fields |-> g[f]] /\ g.known = t.known /\ g.expanded = t.expanded
        /\ g.loaded = [t.loaded EXCEPT ![n] = FALSE] /\ g.kids = [t.kids EXCEPT ![n] = FALSE]
        /\ g.filter = t.filter /\ g.deep = t.deep /\ g.active = t.active
        /\ g.calls = t.calls
    BY DEF Tree, Shape, Fields
  <2>2. t' = Expanded(g, n)
    BY <1>4 DEF Reload, Turn
  <2> HIDE DEF g
  <2>3. Flags(g)
    BY <2>1 DEF Tree, Flags
  <2>4. Hangs(g)
    <3>1. ASSUME NEW m \in Nodes
          PROVE  /\ g.loaded[m] => t.loaded[m] /\ m # n
                 /\ g.kids[m] <=> t.kids[m] /\ m # n
      BY <2>1 DEF Tree, Flags
    <3> QED BY <2>1, <3>1 DEF Tree, Hangs
  <2>5. Tree(g)
    BY <2>1, <2>3, <2>4 DEF Tree, Shape
  <2> QED BY <2>2, <2>5, ExpandedTree
<1>5. CASE Reveal(n)
  <2> DEFINE top  == <<Path[n][1]>>
             path == IF Path[n][1] \in Buckets THEN top \o Path[n] ELSE top
  <2>1. path \in Seq(Nodes)
    <3>1. Path[n] \in Seq(Nodes)
      BY PathType
    <3>2. top \in Seq(Nodes)
      BY PathType
    <3> QED BY <3>1, <3>2
  <2>2. t' = RevealPath(t, path)
    BY <1>5 DEF Reveal, Turn
  <2> HIDE DEF path
  <2> QED BY <2>1, <2>2, RevealPathTree
<1>6. CASE UpdateDir(n)
  <2> DEFINE r == Rebuilt(t, n)
  <2>1. Tree(r)
    BY RebuiltTree
  <2>2. t' = [r EXCEPT !.expanded[n] = TRUE]
    BY <1>6 DEF UpdateDir, Turn
  <2> HIDE DEF r
  <2> QED BY <2>1, <2>2, OpenedTree
<1> QED BY <1>1, <1>2, <1>3, <1>4, <1>5, <1>6

LEMMA SourcesKeepTree ==
    ASSUME Tree(t), CollapseAll \/ SetSources
    PROVE  Tree(t')
<1>1. CASE CollapseAll
  <2> DEFINE g == [t EXCEPT !.expanded = [n \in Nodes |-> FALSE]]
  <2>1. /\ g = [f \in Fields |-> g[f]] /\ SameRows(t, g) /\ g.calls = t.calls
        /\ g.expanded = [n \in Nodes |-> FALSE]
        /\ g.filter = t.filter /\ g.deep = t.deep /\ g.active = t.active
    BY DEF Tree, Shape, Fields, SameRows
  <2>2. t' = g
    BY <1>1 DEF CollapseAll, Turn
  <2> HIDE DEF g
  <2>3. Adds(t, g)
    BY <2>1 DEF Adds
  <2>4. g.expanded \in [Nodes -> BOOLEAN]
    BY <2>1
  <2>5. g.filter \in BOOLEAN /\ g.deep \in BOOLEAN /\ g.active \in BOOLEAN
    BY <2>1 DEF Tree, Flags
  <2> QED BY <2>1, <2>2, <2>3, <2>4, <2>5, SameTree
<1>2. CASE SetSources
  <2> DEFINE open == {n \in Sources : t.expanded[n] /\ Waits(t, n)}
             h == [Outdated(t) EXCEPT !.calls = @ \cup {Listing(n, "expand", <<>>) : n \in open}]
  <2>1. t' = h \/ t' = StartWalk(h)
    BY <1>2 DEF SetSources, Turn
  <2>2. open \in SUBSET Nodes /\ "expand" \in Callers
    BY DEF Sources, Callers
  <2> HIDE DEF open
  <2>3. Tree(h)
    BY <2>2, OutdatedTree, SourcesListed
  <2> QED BY <2>1, <2>3, StartWalkTree
<1> QED BY <1>1, <1>2

LEMMA FilterKeepsTree ==
    ASSUME Tree(t), NEW on \in BOOLEAN, NEW changed \in BOOLEAN, SetFilter(on, changed)
    PROVE  Tree(t')
<1> DEFINE h0 == IF changed THEN AbortWalk(t) ELSE t
           h1 == [h0 EXCEPT !.filter = on, !.deep = t.deep /\ on]
           S  == {m \in Sources : Waits(h1, m)}
           h2 == [h1 EXCEPT !.calls = @ \cup {Listing(n, "preload", <<>>) : n \in S}]
<1>1. t' = h1 \/ t' = h2 \/ t' = StartWalk(h2)
  BY DEF SetFilter, Turn
<1>2. S \in SUBSET Nodes /\ "preload" \in Callers
  BY DEF Sources, Callers
<1>3. Tree(h0)
  BY AbortWalkTree
<1> HIDE DEF h0
<1>4. Searches(h0, h1)
  <2>1. /\ h1 = [f \in Fields |-> h1[f]] /\ SameRows(h0, h1) /\ h1.calls = h0.calls
        /\ h1.expanded = h0.expanded /\ h1.filter = on /\ h1.deep = (t.deep /\ on)
        /\ h1.active = h0.active
    BY <1>3 DEF Tree, Shape, Fields, SameRows
  <2> HIDE DEF h1
  <2>2. h0.active \in BOOLEAN /\ (t.deep /\ on) \in BOOLEAN
    BY <1>3 DEF Tree, Flags
  <2> QED BY <2>1, <2>2 DEF Searches
<1> HIDE DEF S, h1
<1>5. Tree(h1)
  BY <1>3, <1>4, SearchesTree
<1>6. Tree(h2)
  BY <1>2, <1>5, SourcesListed
<1> QED BY <1>1, <1>5, <1>6, StartWalkTree

LEMMA DeepKeepsTree ==
    ASSUME Tree(t), NEW on \in BOOLEAN, SetDeep(on)
    PROVE  Tree(t')
<1> DEFINE h(b) == [t EXCEPT !.deep = b]
<1>1. t' = AbortWalk(h(FALSE)) \/ t' = h(TRUE) \/ t' = StartWalk(h(TRUE))
  BY DEF SetDeep, Turn
<1>2. ASSUME NEW b \in BOOLEAN PROVE Tree(h(b))
  <2>1. /\ h(b) = [f \in Fields |-> h(b)[f]] /\ SameRows(t, h(b)) /\ h(b).calls = t.calls
        /\ h(b).expanded = t.expanded /\ h(b).filter = t.filter /\ h(b).deep = b
        /\ h(b).active = t.active
    BY DEF Tree, Shape, Fields, SameRows
  <2> HIDE DEF h
  <2>2. Searches(t, h(b))
    BY <2>1 DEF Searches, Tree, Flags
  <2> QED BY <2>2, SearchesTree
<1> HIDE DEF h
<1> QED BY <1>1, <1>2, AbortWalkTree, StartWalkTree

LEMMA InitTree == Init => Tree(t)
<1> SUFFICES Tree(Closed)
  BY DEF Init
<1>1. Closed = [f \in Fields |-> Closed[f]]
  BY DEF Closed, Fields
<1>2. /\ Closed.calls = {} /\ Closed.filter = FALSE /\ Closed.deep = FALSE
      /\ Closed.active = FALSE /\ Closed.known = [n \in Nodes |-> n \in Sources]
      /\ Closed.expanded = [n \in Nodes |-> FALSE] /\ Closed.loaded = [n \in Nodes |-> FALSE]
      /\ Closed.kids = [n \in Nodes |-> FALSE]
  BY DEF Closed
<1>3. Flags(Closed)
  <2>1. [n \in Nodes |-> n \in Sources] \in [Nodes -> BOOLEAN]
    <3>1. \A n \in Nodes : (n \in Sources) \in BOOLEAN
      OBVIOUS
    <3> QED BY <3>1, Zenon
  <2>2. [n \in Nodes |-> FALSE] \in [Nodes -> BOOLEAN]
    OBVIOUS
  <2> QED BY <1>2, <2>1, <2>2, Zenon DEF Flags
<1>4. Hangs(Closed)
  BY <1>2 DEF Hangs
<1> QED BY <1>1, <1>2, <1>3, <1>4 DEF Tree, Shape

(* Whatever is opened, shut, fed, reloaded or searched, a folder that is    *)
(* loaded has its rows below it and every row that hangs is in the map of   *)
(* nodes; a reveal that waits holds a path of folders still to open         *)
(* (frontend/js/tree.js: buildRemoteChildren, reload, reveal).              *)
THEOREM TreeTypeCorrect == Spec => []TypeOK
<1>1. Init => Tree(t)
  BY InitTree
<1>2. Tree(t) /\ [Next]_vars => Tree(t)'
  <2> SUFFICES ASSUME Tree(t), [Next]_vars PROVE Tree(t')
    BY DEF Tree, Shape, Flags, Hangs, Asked
  <2>1. ASSUME NEW c \in t.calls, Lands(c) \/ LandsNot(c) PROVE Tree(t')
    BY <2>1, AnswersKeepTree
  <2>2. ASSUME NEW n \in Nodes,
               Expand(n) \/ Collapse(n) \/ Twist(n) \/ Reload(n) \/ Reveal(n) \/ UpdateDir(n)
        PROVE  Tree(t')
    BY <2>2, FoldersKeepTree
  <2>3. CASE CollapseAll \/ SetSources
    BY <2>3, SourcesKeepTree
  <2>4. ASSUME NEW on \in BOOLEAN, NEW changed \in BOOLEAN, SetFilter(on, changed)
        PROVE  Tree(t')
    BY <2>4, FilterKeepsTree
  <2>5. ASSUME NEW on \in BOOLEAN, SetDeep(on) PROVE Tree(t')
    BY <2>5, DeepKeepsTree
  <2>6. CASE UNCHANGED vars
    BY <2>6 DEF vars
  <2> QED BY <2>1, <2>2, <2>3, <2>4, <2>5, <2>6 DEF Next
<1>3. Tree(t) => TypeOK
  BY DEF Tree, Flags, Hangs, Asked, TypeOK
<1> QED BY <1>1, <1>2, <1>3, PTL DEF Spec
================================================================================
