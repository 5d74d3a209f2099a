--------------------------- MODULE SidePaneProofs ---------------------------
(***************************************************************************)
(* The promises of the side pane, for any sources and folders, any number  *)
(* of loads and whatever fails: every walk of the backend can be canceled, *)
(* S3 rows are of the binding, what the user acts on is the place on the   *)
(* screen, what a step puts there is of the newest listing, and the pane   *)
(* keeps its shape.                                                        *)
(*                                                                         *)
(* The first three follow from PaneInv, a predicate on the record of the   *)
(* pane: what each load needs to be (View), who holds the slot of the one  *)
(* S3 listing (Slots), and of which place the rows and the loads of the    *)
(* newest count are (OfBinding).  The handlers are compositions of a few   *)
(* operators on the record, and each operator has a lemma that says that   *)
(* it keeps Good; CancelS3Stream leaves in addition a slot that is Free.   *)
(* The fourth is about the steps under PaneInv.  The last follows from     *)
(* TypeInv, kept by the same operators: which pages each load has and      *)
(* which counts were taken.                                                *)
(***************************************************************************)
EXTENDS SidePane, FiniteSetTheorems, FunctionTheorems, SequenceTheorems,
        WellFoundedInduction, TLAPS

-----------------------------------------------------------------------------
(* A load of the S3 sources, and the fields of a pane and of a load.        *)
IsS3(l) == Kind(l.e.src) = "s3"

PaneFields == {"bound", "src", "bucket", "dir", "listed", "hist", "futr", "nav", "s3",
               "token", "off", "rows", "grid", "target", "need", "wired", "skel",
               "load", "last"}
LoadFields == {"at", "e", "seq", "demand", "walk", "from", "sent", "live", "early"}

(* What the argument needs of the types: a load that lists or streams names *)
(* a place, and only S3 streams.                                            *)
Busy == {"begin", "stream"}

IsLoad(l) ==
    /\ l = [f \in LoadFields |-> l[f]]
    /\ l.live \in BOOLEAN /\ l.demand \in BOOLEAN
    /\ \E S : l.early \in Seq(S)
    /\ IsS3(l) => l.seq \in Nat
    /\ l.at \in Busy => IsS3(l)
    /\ l.at \in Busy \cup {"lists"} => l.e = Place(l.e.src, l.e.bucket, l.e.dir)
    /\ l.at = "lists" => l.e.bucket = NoBucket

View(h) ==
    /\ h = [f \in PaneFields |-> h[f]]
    /\ \E S : h.load \in Seq(S)
    /\ \A i \in DOMAIN h.load : IsLoad(h.load[i])
    /\ h.s3 \in Nat
    /\ h.token \in {0} \cup DOMAIN h.load /\ h.off \in {0} \cup DOMAIN h.load

(* The load of the current count of S3, of which there is at most one.      *)
Current(h, i) == IsS3(h.load[i]) /\ h.load[i].seq = h.s3

(* Who holds the slot: the token is of the one stream, the subscription of  *)
(* the one load that listens, and both of the current count.                *)
InSlot(h, i) ==
    /\ IsS3(h.load[i]) => h.load[i].seq <= h.s3
    /\ h.load[i].walk = "running" => h.load[i].at = "begin" \/ h.token = i
    /\ h.off = i <=> h.load[i].live
    /\ h.load[i].live => h.load[i].at \in Busy /\ Current(h, i)
    /\ h.token = i <=> h.load[i].at = "stream"
    /\ h.token = i => h.load[i].live
    /\ h.load[i].at = "begin" /\ Current(h, i) => h.load[i].live

Slots(h) ==
    /\ \A i \in DOMAIN h.load : InSlot(h, i)
    /\ \A i, j \in DOMAIN h.load : Current(h, i) /\ Current(h, j) => i = j

(* The rows stand for the binding once something has landed for it, or the  *)
(* stream that emptied them for it is open.                                 *)
Stands(h)  == h.listed \/ (h.token # 0 /\ ~h.load[h.token].demand)
Foreign(h) == \E r \in h.rows : r[1].src # h.src

(* What may seat its pages goes by the place of the pane, unless a local or *)
(* remote answer got in between, which is seen in the rows.                 *)
OfBinding(h) ==
    /\ \A i \in DOMAIN h.load : Current(h, i) =>
         /\ h.load[i].e.src = h.src
         /\ h.load[i].at = "stream" \/ (h.load[i].at = "begin" /\ h.load[i].demand)
              => Foreign(h) \/ h.load[i].e = Snapshot(h)
    /\ Stands(h) =>
         /\ \A r \in h.rows : Kind(r[1].src) = "s3" => r[1].src = h.src
         /\ Foreign(h) \/ \A r \in h.rows : r[1] = Snapshot(h)

Good(h) == View(h) /\ Slots(h) /\ OfBinding(h)
PaneInv == Good(p)

-----------------------------------------------------------------------------
(* g is h but for load i, which is l. *)
Only(g, h, i, l) ==
    /\ View(g)
    /\ g.src = h.src /\ g.bucket = h.bucket /\ g.dir = h.dir /\ g.listed = h.listed
    /\ g.s3 = h.s3 /\ g.token = h.token /\ g.off = h.off /\ g.rows = h.rows
    /\ DOMAIN g.load = DOMAIN h.load
    /\ g.load[i] = l /\ \A j \in DOMAIN h.load \ {i} : g.load[j] = h.load[j]

(* g is h but for what no promise is about: counts and looks. *)
Same(g, h) ==
    /\ g = [f \in PaneFields |-> g[f]]
    /\ g.src = h.src /\ g.bucket = h.bucket /\ g.dir = h.dir /\ g.listed = h.listed
    /\ g.s3 = h.s3 /\ g.token = h.token /\ g.off = h.off /\ g.rows = h.rows
    /\ g.load = h.load

LEMMA SameGood ==
    ASSUME NEW h, NEW g, Same(g, h), Good(h)
    PROVE  Good(g)
<1>1. View(g)
  BY DEF Same, Good, View
<1>5. \A i \in DOMAIN g.load : i \in DOMAIN h.load /\ InSlot(g, i)
  <2> TAKE i \in DOMAIN g.load
  <2>1. i \in DOMAIN h.load /\ InSlot(h, i) /\ g.load[i] = h.load[i]
    BY DEF Same, Good, Slots
  <2> QED BY <2>1 DEF Same, InSlot, Current
<1>2. Snapshot(g) = Snapshot(h) /\ Foreign(g) = Foreign(h) /\ Stands(g) = Stands(h)
  BY DEF Same, Snapshot, Foreign, Stands
<1>3. \A i \in DOMAIN h.load : Current(g, i) <=> Current(h, i)
  BY DEF Same, Current
<1>4. OfBinding(g)
  BY <1>2, <1>3 DEF Same, Good, OfBinding
<1> QED BY <1>1, <1>3, <1>4, <1>5 DEF Good, Slots

LEMMA LoadFacts ==
    ASSUME NEW h, View(h)
    PROVE  /\ Len(h.load) \in Nat /\ DOMAIN h.load = 1..Len(h.load)
           /\ \A i \in DOMAIN h.load :
                /\ i \in Nat /\ i # 0 /\ IsLoad(h.load[i])
                /\ h.load[i] = [f \in LoadFields |-> h.load[i][f]]
<1>1. Len(h.load) \in Nat /\ DOMAIN h.load = 1..Len(h.load)
  <2>1. PICK S : h.load \in Seq(S)
    BY DEF View
  <2> QED BY <2>1
<1>2. \A i \in DOMAIN h.load : i \in Nat /\ i # 0
  BY <1>1
<1> QED BY <1>1, <1>2 DEF View, IsLoad

LEMMA ViewFacts ==
    ASSUME NEW h, View(h)
    PROVE  h = [f \in PaneFields |-> h[f]] /\ h.s3 \in Nat
BY DEF View

LEMMA SettledFacts ==
    ASSUME NEW h, h = [f \in PaneFields |-> h[f]], NEW rows, NEW g, g = Settled(h, rows)
    PROVE  /\ g = [f \in PaneFields |-> g[f]]
           /\ g.src = h.src /\ g.bucket = h.bucket /\ g.dir = h.dir /\ g.rows = rows
           /\ g.s3 = h.s3 /\ g.token = h.token /\ g.off = h.off /\ g.load = h.load
BY DEF Settled, PaneFields

LEMMA SetLoad ==
    ASSUME NEW h, View(h), NEW i \in DOMAIN h.load, NEW l, IsLoad(l)
    PROVE  Only([h EXCEPT !.load[i] = l], h, i, l)
<1> DEFINE s == [h.load EXCEPT ![i] = l]
           g == [h EXCEPT !.load = s]
<1>1. PICK S : h.load \in Seq(S)
  BY DEF View
<1>2. h.load \in Seq(S \cup {l}) /\ l \in S \cup {l}
  BY <1>1
<1>3. s \in Seq(S \cup {l}) /\ DOMAIN s = DOMAIN h.load
      /\ s[i] = l /\ \A j \in DOMAIN h.load \ {i} : s[j] = h.load[j]
  BY <1>2
<1> HIDE DEF s
<1>4. g = [f \in PaneFields |-> g[f]] /\ g.load = s
      /\ g.src = h.src /\ g.bucket = h.bucket /\ g.dir = h.dir /\ g.listed = h.listed
      /\ g.s3 = h.s3 /\ g.token = h.token /\ g.off = h.off /\ g.rows = h.rows
  BY DEF View, PaneFields
<1> HIDE DEF g
<1>5. \A j \in DOMAIN s : IsLoad(s[j])
  BY <1>3 DEF View
<1>6. Only(g, h, i, l)
  BY <1>3, <1>4, <1>5 DEF Only, View
<1>7. [h EXCEPT !.load[i] = l] = g
  BY DEF g, s
<1> QED BY <1>6, <1>7

(* One more load. *)
LEMMA AddLoad ==
    ASSUME NEW h, View(h), NEW l, IsLoad(l),
           NEW g, g = [h EXCEPT !.load = Append(@, l)]
    PROVE  /\ View(g)
           /\ g.src = h.src /\ g.bucket = h.bucket /\ g.dir = h.dir /\ g.listed = h.listed
           /\ g.s3 = h.s3 /\ g.token = h.token /\ g.off = h.off /\ g.rows = h.rows
           /\ DOMAIN g.load = DOMAIN h.load \cup {Len(h.load) + 1}
           /\ g.load[Len(h.load) + 1] = l
           /\ \A j \in DOMAIN h.load : g.load[j] = h.load[j] /\ j # Len(h.load) + 1
<1> DEFINE s == Append(h.load, l)
<1>1. PICK S : h.load \in Seq(S)
  BY DEF View
<1>2. h.load \in Seq(S \cup {l}) /\ l \in S \cup {l}
  BY <1>1
<1>3. s \in Seq(S \cup {l}) /\ DOMAIN s = DOMAIN h.load \cup {Len(h.load) + 1}
      /\ s[Len(h.load) + 1] = l
      /\ \A j \in DOMAIN h.load : s[j] = h.load[j] /\ j # Len(h.load) + 1
  BY <1>2
<1>4. g = [h EXCEPT !.load = s]
  OBVIOUS
<1> HIDE DEF s
<1>5. g = [f \in PaneFields |-> g[f]] /\ g.load = s
      /\ g.src = h.src /\ g.bucket = h.bucket /\ g.dir = h.dir /\ g.listed = h.listed
      /\ g.s3 = h.s3 /\ g.token = h.token /\ g.off = h.off /\ g.rows = h.rows
  BY <1>4 DEF View, PaneFields
<1>6. \A j \in DOMAIN s : IsLoad(s[j])
  BY <1>3 DEF View
<1> QED BY <1>3, <1>5, <1>6 DEF View

LEMMA KindFacts ==
    /\ Kind(Local) = "local" /\ Drives.src = Local /\ Drives.bucket = NoBucket
    /\ Drives = Place(Drives.src, Drives.bucket, Drives.dir)
<1>1. Local \notin DOMAIN BucketOf
  BY SidePaneAssumption
<1> QED BY <1>1 DEF Kind, Drives, Place

(* What a load may be while it has no slot. *)
Idle(l) == ~l.live /\ l.walk # "running" /\ l.at \notin Busy

LEMMA FreshIsLoad ==
    ASSUME NEW at, NEW e, at \notin Busy, ~(Kind(e.src) = "s3"),
           at = "lists" => e.bucket = NoBucket /\ e = Place(e.src, e.bucket, e.dir)
    PROVE  IsLoad(Fresh(at, e)) /\ Idle(Fresh(at, e)) /\ ~IsS3(Fresh(at, e))
           /\ Fresh(at, e).e = e /\ Fresh(at, e).at = at
<1> DEFINE l == Fresh(at, e)
<1>1. l = [f \in LoadFields |-> l[f]] /\ l.live = FALSE /\ l.demand = FALSE /\ l.early = <<>>
      /\ l.at = at /\ l.e = e /\ l.walk = "none"
  BY DEF Fresh, LoadFields
<1> HIDE DEF l
<1>2. <<>> \in Seq({})
  OBVIOUS
<1>3. IsLoad(l)
  BY <1>1, <1>2 DEF IsLoad, IsS3, Busy
<1> QED BY <1>1, <1>3 DEF l, Idle, IsS3

-----------------------------------------------------------------------------
(* The walk of a load ends, its subscription ends, it goes. *)
LEMMA OverOnly ==
    ASSUME NEW h, View(h), NEW i \in DOMAIN h.load
    PROVE  Only(Over(h, i), h, i, [h.load[i] EXCEPT !.walk =
                    IF h.load[i].walk = "running" THEN "over" ELSE h.load[i].walk])
<1> DEFINE w == IF h.load[i].walk = "running" THEN "over" ELSE h.load[i].walk
           l == [h.load[i] EXCEPT !.walk = w]
<1>1. IsLoad(h.load[i])
  BY DEF View
<1>2. Over(h, i) = [h EXCEPT !.load[i] = l]
  BY DEF Over
<1> HIDE DEF w
<1>3. l = [f \in LoadFields |-> l[f]] /\ l.live = h.load[i].live /\ l.demand = h.load[i].demand
      /\ l.early = h.load[i].early /\ l.seq = h.load[i].seq /\ l.at = h.load[i].at
      /\ l.e = h.load[i].e
  BY <1>1 DEF IsLoad, LoadFields
<1> HIDE DEF l
<1>4. IsLoad(l)
  BY <1>1, <1>3 DEF IsLoad, IsS3
<1>5. Only([h EXCEPT !.load[i] = l], h, i, l)
  BY <1>4, SetLoad
<1> QED BY <1>2, <1>5 DEF l, w

LEMMA OffOnly ==
    ASSUME NEW h, View(h), NEW i \in DOMAIN h.load
    PROVE  Only(Off(h, i), h, i, [h.load[i] EXCEPT !.live = FALSE, !.early = <<>>])
<1> DEFINE l == [h.load[i] EXCEPT !.live = FALSE, !.early = <<>>]
<1>1. IsLoad(h.load[i])
  BY DEF View
<1>2. Off(h, i) = [h EXCEPT !.load[i] = l]
  BY DEF Off
<1>3. l = [f \in LoadFields |-> l[f]] /\ l.live = FALSE /\ l.demand = h.load[i].demand
      /\ l.early = <<>> /\ l.seq = h.load[i].seq /\ l.at = h.load[i].at
      /\ l.e = h.load[i].e
  BY <1>1 DEF IsLoad, LoadFields
<1> HIDE DEF l
<1>4. <<>> \in Seq({})
  OBVIOUS
<1>5. IsLoad(l)
  BY <1>1, <1>3, <1>4 DEF IsLoad, IsS3
<1>6. Only([h EXCEPT !.load[i] = l], h, i, l)
  BY <1>5, SetLoad
<1> QED BY <1>2, <1>6 DEF l

LEMMA LeaveOnly ==
    ASSUME NEW h, View(h), NEW i \in DOMAIN h.load, NEW how \in {"gone", "failed"}
    PROVE  Only(Leave(h, i, how), h, i, [h.load[i] EXCEPT !.at = how])
<1> DEFINE l == [h.load[i] EXCEPT !.at = how]
<1>1. IsLoad(h.load[i])
  BY DEF View
<1>2. Leave(h, i, how) = [h EXCEPT !.load[i] = l]
  BY DEF Leave
<1>3. l = [f \in LoadFields |-> l[f]] /\ l.live = h.load[i].live /\ l.demand = h.load[i].demand
      /\ l.early = h.load[i].early /\ l.seq = h.load[i].seq /\ l.at = how
      /\ l.e = h.load[i].e
  BY <1>1 DEF IsLoad, LoadFields
<1> HIDE DEF l
<1>4. IsLoad(l)
  BY <1>1, <1>3 DEF IsLoad, IsS3, Busy
<1>5. Only([h EXCEPT !.load[i] = l], h, i, l)
  BY <1>4, SetLoad
<1> QED BY <1>2, <1>5 DEF l

(* What cancelS3Stream leaves: an empty slot, and a count nobody has yet.   *)
Canceled(g, h) ==
    /\ View(g)
    /\ g.src = h.src /\ g.bucket = h.bucket /\ g.dir = h.dir /\ g.listed = h.listed
    /\ g.rows = h.rows
    /\ g.s3 = h.s3 + 1 /\ g.token = 0 /\ g.off = 0
    /\ DOMAIN g.load = DOMAIN h.load
    /\ \A j \in DOMAIN h.load :
         /\ g.load[j].e = h.load[j].e /\ g.load[j].seq = h.load[j].seq
         /\ g.load[j].demand = h.load[j].demand
         /\ g.load[j].live => h.load[j].live /\ j # h.off
         /\ g.load[j].at = IF j = h.token THEN "gone" ELSE h.load[j].at
         /\ g.load[j].walk = "running" => h.load[j].walk = "running" /\ j # h.token

LEMMA CancelLeaves ==
    ASSUME NEW h, View(h)
    PROVE  Canceled(CancelS3Stream(h), h)
<1> DEFINE h1 == IF h.token = 0 THEN h ELSE Over(h, h.token)
           h2 == IF h.off = 0 THEN h1 ELSE Off(h1, h.off)
           h3 == IF h.token = 0 THEN h2 ELSE Leave(h2, h.token, "gone")
           Kept(g) == /\ View(g)
                      /\ g.src = h.src /\ g.bucket = h.bucket /\ g.dir = h.dir
                      /\ g.listed = h.listed /\ g.rows = h.rows /\ g.s3 = h.s3
                      /\ g.token = h.token /\ g.off = h.off
                      /\ DOMAIN g.load = DOMAIN h.load
                      /\ \A j \in DOMAIN h.load :
                            /\ g.load[j].e = h.load[j].e /\ g.load[j].seq = h.load[j].seq
                            /\ g.load[j].demand = h.load[j].demand
           Done(g)  == \A j \in DOMAIN h.load : g.load[j].walk = "running" =>
                           h.load[j].walk = "running" /\ j # h.token
<1>0. 0 \notin DOMAIN h.load /\ h.token \in {0} \cup DOMAIN h.load
      /\ h.off \in {0} \cup DOMAIN h.load
  BY LoadFacts DEF View
<1>1. Kept(h1) /\ Done(h1)
      /\ \A j \in DOMAIN h.load : /\ h1.load[j].live = h.load[j].live
                                  /\ h1.load[j].at = h.load[j].at
  <2>1. CASE h.token = 0
    BY <1>0, <2>1
  <2>2. CASE h.token # 0
    <3> DEFINE l == [h.load[h.token] EXCEPT !.walk =
                       IF h.load[h.token].walk = "running" THEN "over" ELSE h.load[h.token].walk]
    <3>1. h.token \in DOMAIN h.load /\ h1 = Over(h, h.token)
      BY <1>0, <2>2
    <3>2. Only(h1, h, h.token, l)
      BY <3>1, OverOnly
    <3>3. h.load[h.token] = [f \in LoadFields |-> h.load[h.token][f]]
      BY <3>1, LoadFacts
    <3>4. /\ l.e = h.load[h.token].e /\ l.seq = h.load[h.token].seq
          /\ l.demand = h.load[h.token].demand /\ l.live = h.load[h.token].live
          /\ l.at = h.load[h.token].at /\ l.walk # "running"
      BY <3>3 DEF LoadFields
    <3> HIDE DEF l, h1
    <3> QED BY <3>1, <3>2, <3>4 DEF Only
  <2> QED BY <2>1, <2>2
<1> HIDE DEF h1
<1>2. Kept(h2) /\ Done(h2)
      /\ \A j \in DOMAIN h.load : /\ h2.load[j].live => h.load[j].live /\ j # h.off
                                  /\ h2.load[j].at = h.load[j].at
  <2>1. CASE h.off = 0
    BY <1>0, <1>1, <2>1
  <2>2. CASE h.off # 0
    <3> DEFINE l == [h1.load[h.off] EXCEPT !.live = FALSE, !.early = <<>>]
    <3>1. h.off \in DOMAIN h.load /\ h.off \in DOMAIN h1.load /\ h2 = Off(h1, h.off)
      BY <1>0, <1>1, <2>2
    <3>2. Only(h2, h1, h.off, l)
      BY <1>1, <3>1, OffOnly
    <3>3. h1.load[h.off] = [f \in LoadFields |-> h1.load[h.off][f]]
      BY <1>1, <3>1, LoadFacts
    <3>4. /\ l.e = h1.load[h.off].e /\ l.seq = h1.load[h.off].seq
          /\ l.demand = h1.load[h.off].demand /\ l.live = FALSE
          /\ l.at = h1.load[h.off].at /\ l.walk = h1.load[h.off].walk
      BY <3>3 DEF LoadFields
    <3> HIDE DEF l, h2
    <3>5. h2.load[h.off] = l /\ DOMAIN h2.load = DOMAIN h1.load
          /\ \A j \in DOMAIN h1.load : j # h.off => h2.load[j] = h1.load[j]
      BY <3>1, <3>2 DEF Only
    <3>6. Kept(h2)
      BY <1>1, <3>1, <3>2, <3>4, <3>5 DEF Only
    <3>7. Done(h2)
      BY <1>1, <3>1, <3>4, <3>5
    <3>8. \A j \in DOMAIN h.load : /\ h2.load[j].live => h.load[j].live /\ j # h.off
                                   /\ h2.load[j].at = h.load[j].at
      <4> TAKE j \in DOMAIN h.load
      <4>1. /\ j \in DOMAIN h1.load
            /\ h1.load[j].live = h.load[j].live /\ h1.load[j].at = h.load[j].at
        BY <1>1
      <4>2. CASE j = h.off
        BY <3>4, <3>5, <4>1, <4>2
      <4>3. CASE j # h.off
        BY <3>5, <4>1, <4>3
      <4> QED BY <4>2, <4>3
    <3> QED BY <3>6, <3>7, <3>8
  <2> QED BY <2>1, <2>2
<1> HIDE DEF h2
<1>3. Kept(h3) /\ Done(h3)
      /\ \A j \in DOMAIN h.load :
           /\ h3.load[j].live => h.load[j].live /\ j # h.off
           /\ h3.load[j].at = IF j = h.token THEN "gone" ELSE h.load[j].at
  <2>1. CASE h.token = 0
    BY <1>0, <1>2, <2>1
  <2>2. CASE h.token # 0
    <3> DEFINE l == [h2.load[h.token] EXCEPT !.at = "gone"]
    <3>1. h.token \in DOMAIN h.load /\ h.token \in DOMAIN h2.load
          /\ h3 = Leave(h2, h.token, "gone")
      BY <1>0, <1>2, <2>2
    <3>0. View(h2) /\ "gone" \in {"gone", "failed"}
      BY <1>2
    <3> HIDE DEF h3
    <3>2. Only(h3, h2, h.token, l)
      BY <3>0, <3>1, LeaveOnly
    <3>3. h2.load[h.token] = [f \in LoadFields |-> h2.load[h.token][f]]
      BY <3>0, <3>1, LoadFacts
    <3>4. /\ l.e = h2.load[h.token].e /\ l.seq = h2.load[h.token].seq
          /\ l.demand = h2.load[h.token].demand /\ l.live = h2.load[h.token].live
          /\ l.at = "gone" /\ l.walk = h2.load[h.token].walk
      BY <3>3 DEF LoadFields
    <3> HIDE DEF l, h3
    <3>5. h3.load[h.token] = l /\ DOMAIN h3.load = DOMAIN h2.load
          /\ \A j \in DOMAIN h2.load : j # h.token => h3.load[j] = h2.load[j]
      BY <3>1, <3>2 DEF Only
    <3>6. Kept(h3)
      BY <1>2, <3>1, <3>2, <3>4, <3>5 DEF Only
    <3>7. Done(h3)
      BY <1>2, <3>1, <3>4, <3>5
    <3>8. \A j \in DOMAIN h.load :
            /\ h3.load[j].live => h.load[j].live /\ j # h.off
            /\ h3.load[j].at = IF j = h.token THEN "gone" ELSE h.load[j].at
      <4> TAKE j \in DOMAIN h.load
      <4>1. /\ j \in DOMAIN h2.load /\ h2.load[j].at = h.load[j].at
            /\ h2.load[j].live => h.load[j].live /\ j # h.off
        BY <1>2
      <4>2. CASE j = h.token
        BY <3>4, <3>5, <4>1, <4>2
      <4>3. CASE j # h.token
        BY <3>5, <4>1, <4>3
      <4> QED BY <4>2, <4>3
    <3> QED BY <3>6, <3>7, <3>8
  <2> QED BY <2>1, <2>2
<1>4. CancelS3Stream(h) = [h3 EXCEPT !.s3 = @ + 1, !.token = 0, !.off = 0]
  BY DEF CancelS3Stream, h1, h2
<1> HIDE DEF h3
<1> DEFINE n == h3.s3 + 1
           g == CancelS3Stream(h)
<1>5. n \in Nat /\ n = h.s3 + 1
  BY <1>3 DEF View
<1>6. g = [h3 EXCEPT !.s3 = n, !.token = 0, !.off = 0]
  BY <1>4
<1> HIDE DEF n, g
<1>7. /\ View(g) /\ g.s3 = n /\ g.token = 0 /\ g.off = 0 /\ g.load = h3.load
      /\ g.src = h3.src /\ g.bucket = h3.bucket /\ g.dir = h3.dir /\ g.listed = h3.listed
      /\ g.rows = h3.rows
  <2>1. View(h3) /\ 0 \in {0} \cup DOMAIN h3.load
    BY <1>3
  <2>2. /\ g = [f \in PaneFields |-> g[f]] /\ g.s3 = n /\ g.token = 0 /\ g.off = 0
        /\ g.load = h3.load /\ g.src = h3.src /\ g.bucket = h3.bucket /\ g.dir = h3.dir
        /\ g.listed = h3.listed /\ g.rows = h3.rows
    BY <2>1, <1>6 DEF View, PaneFields
  <2> QED BY <2>1, <2>2, <1>5 DEF View
<1>8. Canceled(g, h)
  BY <1>3, <1>5, <1>7 DEF Canceled
<1> QED BY <1>8 DEF g

-----------------------------------------------------------------------------
(* The slot is empty and the count is new. *)
Free(g) ==
    /\ g.token = 0 /\ g.off = 0
    /\ \A j \in DOMAIN g.load : IsS3(g.load[j]) => g.load[j].seq < g.s3

LEMMA CancelGood ==
    ASSUME NEW h, Good(h), NEW g, Canceled(g, h)
    PROVE  Good(g) /\ Free(g)
<1>1. ASSUME NEW j \in DOMAIN g.load
      PROVE  ~g.load[j].live /\ g.load[j].at # "stream" /\ ~Current(g, j) /\ InSlot(g, j)
             /\ (IsS3(g.load[j]) => g.load[j].seq < g.s3)
  <2>0. j \in DOMAIN h.load /\ View(h) /\ InSlot(h, j)
    BY DEF Good, Slots, Canceled
  <2>1. j \in DOMAIN h.load /\ InSlot(h, j) /\ IsLoad(h.load[j]) /\ h.s3 \in Nat
        /\ (h.load[j].live <=> h.off = j) /\ j # 0
    <3>1. IsLoad(h.load[j]) /\ j # 0
      BY <2>0, LoadFacts
    <3>2. h.s3 \in Nat
      BY <2>0, ViewFacts
    <3>3. h.load[j].live <=> h.off = j
      BY <2>0 DEF InSlot
    <3> QED BY <2>0, <3>1, <3>2, <3>3
  <2>2. ~g.load[j].live
    BY <2>1 DEF Canceled
  <2>3. g.load[j].at # "stream"
    BY <2>1 DEF Canceled, InSlot
  <2>4. IsS3(g.load[j]) => /\ g.load[j].seq < g.s3 /\ g.load[j].seq # g.s3
                           /\ g.load[j].seq <= g.s3
    BY <2>1 DEF Canceled, InSlot, IsS3, IsLoad
  <2>5. ~Current(g, j)
    BY <2>4 DEF Current
  <2>6. g.load[j].walk = "running" => g.load[j].at = "begin"
    BY <2>1 DEF Canceled, InSlot
  <2>7. InSlot(g, j)
    <3>1. g.token = 0 /\ g.off = 0
      BY DEF Canceled
    <3> QED BY <2>1, <2>2, <2>3, <2>4, <2>5, <2>6, <3>1 DEF InSlot
  <2> QED BY <2>2, <2>3, <2>4, <2>5, <2>7
<1>2. Slots(g)
  BY <1>1 DEF Slots
<1>3. g.src = h.src /\ g.rows = h.rows /\ g.listed = h.listed /\ g.token = 0
      /\ Snapshot(g) = Snapshot(h)
  BY DEF Canceled, Snapshot
<1>4. OfBinding(g)
  <2>1. Stands(g) => Stands(h)
    BY <1>3 DEF Stands
  <2> QED BY <1>1, <1>3, <2>1 DEF Good, OfBinding, Foreign
<1> QED BY <1>1, <1>2, <1>4 DEF Good, Free, Canceled

(* The binding changes: nothing stands for it yet. *)
LEMMA BindGood ==
    ASSUME NEW h, Good(h), NEW src
    PROVE  /\ Good(BindTo(h, src)) /\ Free(BindTo(h, src))
           /\ BindTo(h, src).src = src /\ BindTo(h, src).rows = h.rows
           /\ DOMAIN BindTo(h, src).load = DOMAIN h.load
           /\ \A j \in DOMAIN h.load :
                 Idle(h.load[j]) => Idle(BindTo(h, src).load[j])
<1> DEFINE c == CancelS3Stream(h)
           bucket == CASE Kind(src) = "s3" -> BucketOf[src]
                       [] src = Local -> NoBucket
                       [] OTHER -> h.bucket
           g == [c EXCEPT !.src = src, !.bucket = bucket, !.dir = <<>>,
                          !.bound = TRUE, !.listed = FALSE]
<1>1. BindTo(h, src) = g
  BY DEF BindTo
<1>2. Canceled(c, h)
  BY CancelLeaves DEF Good
<1> HIDE DEF c, bucket
<1>3. Good(c) /\ Free(c)
  BY <1>2, CancelGood
<1>4. /\ g = [f \in PaneFields |-> g[f]]
      /\ g.src = src /\ g.listed = FALSE /\ g.s3 = c.s3 /\ g.token = c.token /\ g.off = c.off
      /\ g.load = c.load /\ g.rows = c.rows
  BY <1>3 DEF Good, View, PaneFields
<1> HIDE DEF g
<1>5. View(g) /\ Free(g)
  BY <1>3, <1>4 DEF Good, View, Free
<1>6. ASSUME NEW j \in DOMAIN g.load PROVE InSlot(g, j) /\ ~Current(g, j)
  <2>1. InSlot(c, j) /\ j \in DOMAIN c.load /\ IsLoad(c.load[j]) /\ c.s3 \in Nat
    BY <1>3, <1>4 DEF Good, Slots, View
  <2>2. ~Current(c, j)
    BY <1>3, <2>1 DEF Free, Current, IsLoad
  <2> QED BY <1>4, <2>1, <2>2 DEF InSlot, Current
<1>7. Slots(g) /\ OfBinding(g)
  BY <1>4, <1>5, <1>6 DEF Slots, OfBinding, Stands, Free
<1>8. \A j \in DOMAIN h.load : Idle(h.load[j]) => Idle(g.load[j])
  BY <1>2, <1>4 DEF Canceled, Idle, Busy
<1> QED BY <1>1, <1>2, <1>4, <1>5, <1>7, <1>8 DEF Good, Canceled

-----------------------------------------------------------------------------
(* A load without a slot becomes another such load. *)
LEMMA PutIdle ==
    ASSUME NEW h, Good(h), NEW i \in DOMAIN h.load, Idle(h.load[i]),
           NEW l, IsLoad(l), Idle(l),
           \/ ~IsS3(l)
           \/ l.e = h.load[i].e /\ l.seq = h.load[i].seq
           \/ Free(h) /\ IsS3(l) /\ l.seq = h.s3 /\ l.e.src = h.src,
           NEW g, Only(g, h, i, l)
    PROVE  Good(g)
<1>1. h.token # i /\ h.off # i /\ h.s3 \in Nat /\ h.load[i].at # "stream" /\ i # 0
      /\ InSlot(h, i) /\ IsLoad(h.load[i])
  BY LoadFacts DEF Good, View, Slots, InSlot, Idle, Busy
<1>2. \A j \in DOMAIN h.load \ {i} : (Current(g, j) <=> Current(h, j)) /\ InSlot(g, j)
  <2> TAKE j \in DOMAIN h.load \ {i}
  <2>1. /\ g.load[j] = h.load[j] /\ InSlot(h, j)
        /\ g.s3 = h.s3 /\ g.token = h.token /\ g.off = h.off
    BY DEF Only, Good, Slots
  <2>2. Current(g, j) <=> Current(h, j)
    BY <2>1 DEF Current
  <2> QED BY <2>1, <2>2 DEF InSlot
<1>3. g.load[i] = l /\ l.at \notin Busy /\ ~l.live /\ l.walk # "running"
  BY DEF Only, Idle
<1>4. IsS3(l) => l.seq <= h.s3
  BY <1>1 DEF InSlot, IsS3, IsLoad
<1>5. InSlot(g, i)
  BY <1>1, <1>3, <1>4 DEF Only, InSlot, Busy
<1>6. \A j \in DOMAIN h.load \ {i} : Current(g, i) => ~Current(g, j)
  <2> SUFFICES ASSUME NEW j \in DOMAIN h.load \ {i}, Current(g, i), Current(h, j)
               PROVE  FALSE
    BY <1>2
  <2>1. IsS3(l) /\ l.seq = h.s3
    BY <1>3 DEF Current, Only
  <2>2. CASE l.e = h.load[i].e /\ l.seq = h.load[i].seq
    BY <2>1, <2>2 DEF Current, IsS3, Good, Slots
  <2>3. CASE Free(h)
    BY <1>1, <2>3 DEF Free, Current
  <2> QED BY <2>1, <2>2, <2>3
<1>7. Slots(g)
  <2>1. DOMAIN g.load = DOMAIN h.load
    BY DEF Only
  <2>2. \A j, k \in DOMAIN h.load \ {i} : Current(g, j) /\ Current(g, k) => j = k
    BY <1>2 DEF Good, Slots
  <2> QED BY <1>2, <1>5, <1>6, <2>1, <2>2 DEF Slots
<1>8. Snapshot(g) = Snapshot(h) /\ Foreign(g) = Foreign(h) /\ g.src = h.src /\ g.rows = h.rows
  BY DEF Only, Snapshot, Foreign
<1>9. Stands(g) <=> Stands(h)
  <2>1. h.token # 0 => g.load[h.token] = h.load[h.token]
    BY <1>1 DEF Only, Good, View
  <2> QED BY <2>1 DEF Stands, Only
<1>10. Current(g, i) => l.e.src = h.src
  BY <1>3 DEF Current, IsS3, Only, Good, OfBinding
<1>11. OfBinding(g)
  <2>1. ASSUME NEW j \in DOMAIN h.load, Current(g, j)
        PROVE  /\ g.load[j].e.src = g.src
               /\ g.load[j].at = "stream" \/ (g.load[j].at = "begin" /\ g.load[j].demand)
                    => Foreign(g) \/ g.load[j].e = Snapshot(g)
    <3>1. CASE j = i
      BY <1>3, <1>8, <1>10, <2>1, <3>1 DEF Busy
    <3>2. CASE j # i
      <4>1. Current(h, j) /\ g.load[j] = h.load[j]
        BY <1>2, <2>1, <3>2 DEF Only
      <4> QED BY <1>8, <4>1 DEF Good, OfBinding
    <3> QED BY <3>1, <3>2
  <2> QED BY <1>8, <1>9, <2>1 DEF OfBinding, Only, Good
<1> QED BY <1>7, <1>11 DEF Good, Only

(* An S3 listing of the binding takes the slot. *)
LEMMA PutBegin ==
    ASSUME NEW h, Good(h), Free(h), NEW i \in DOMAIN h.load, Idle(h.load[i]),
           NEW l, IsLoad(l), IsS3(l), l.seq = h.s3, l.e.src = h.src,
           l.at = "begin", l.live, l.demand => l.e = Snapshot(h),
           NEW g, View(g), DOMAIN g.load = DOMAIN h.load,
           g.load[i] = l, \A j \in DOMAIN h.load \ {i} : g.load[j] = h.load[j],
           g.src = h.src, g.bucket = h.bucket, g.dir = h.dir, g.listed = h.listed,
           g.s3 = h.s3, g.token = h.token, g.off = i, g.rows = h.rows
    PROVE  Good(g)
<1>1. h.s3 \in Nat /\ i # 0 /\ h.token = 0 /\ h.off = 0 /\ 0 \notin DOMAIN h.load
  BY LoadFacts DEF Good, View, Free
<1>2. ASSUME NEW j \in DOMAIN h.load \ {i} PROVE ~Current(g, j) /\ InSlot(g, j)
  <2>1. ~Current(h, j) /\ InSlot(h, j) /\ g.load[j] = h.load[j]
    BY <1>1 DEF Free, Current, Good, Slots
  <2>2. ~h.load[j].live
    BY <2>1 DEF InSlot
  <2> QED BY <1>1, <2>1, <2>2 DEF Current, InSlot
<1>3. Current(g, i)
  BY DEF Current
<1>4. InSlot(g, i)
  BY <1>1, <1>3 DEF InSlot, Busy
<1>5. Slots(g)
  BY <1>2, <1>3, <1>4 DEF Slots
<1>6. Snapshot(g) = Snapshot(h) /\ Foreign(g) = Foreign(h) /\ Stands(g) = Stands(h)
  BY <1>1 DEF Snapshot, Foreign, Stands
<1>7. OfBinding(g)
  BY <1>2, <1>3, <1>6 DEF OfBinding, Good
<1> QED BY <1>5, <1>7 DEF Good

-----------------------------------------------------------------------------
(* An answer lands: another source's, or the binding's own place while      *)
(* nothing of S3 is under way.                                              *)
LEMMA RowsFacts ==
    ASSUME NEW e
    PROVE  Rows(e) # {} /\ \A r \in Rows(e) : r[1] = e
<1>1. Pages(e) \in Nat \ {0}
  BY SidePaneAssumption DEF Pages
<1>2. <<e, 1>> \in Rows(e)
  BY <1>1 DEF Rows
<1>3. ASSUME NEW r \in Rows(e) PROVE r[1] = e
  <2>1. PICK n \in 1..Pages(e) : r = <<e, n>>
    BY DEF Rows
  <2> QED BY <2>1
<1> QED BY <1>2, <1>3

LEMMA Lands ==
    ASSUME NEW h, Good(h), NEW e, NEW g, View(g), g.src = h.src,
           g.s3 = h.s3, g.token = h.token, g.off = h.off, g.load = h.load, g.rows = Rows(e),
           \/ e.src # h.src /\ Kind(e.src) # "s3"
           \/ /\ e.src = h.src /\ Snapshot(g) = e
              /\ \A i \in DOMAIN h.load : Current(h, i) => h.load[i].at \notin Busy
    PROVE  Good(g)
<1>1. Rows(e) # {} /\ \A r \in Rows(e) : r[1] = e
  BY RowsFacts
<1>2. \A i \in DOMAIN h.load : Current(g, i) <=> Current(h, i)
  BY DEF Current
<1>3. Slots(g)
  <2>1. \A i \in DOMAIN h.load : InSlot(g, i)
    BY <1>2 DEF Good, Slots, InSlot
  <2> QED BY <1>2, <2>1 DEF Good, Slots
<1>4. \A i \in DOMAIN h.load : Current(g, i) => g.load[i].e.src = g.src
  BY <1>2 DEF Good, OfBinding
<1>5. OfBinding(g)
  <2>1. CASE e.src # h.src /\ Kind(e.src) # "s3"
    BY <1>1, <1>4, <2>1 DEF OfBinding, Foreign
  <2>2. CASE /\ e.src = h.src /\ Snapshot(g) = e
             /\ \A i \in DOMAIN h.load : Current(h, i) => h.load[i].at \notin Busy
    BY <1>1, <1>2, <1>4, <2>2 DEF OfBinding, Busy
  <2> QED BY <2>1, <2>2
<1> QED BY <1>3, <1>5 DEF Good

LEMMA RootsGood ==
    ASSUME NEW h, Good(h), NEW i \in DOMAIN h.load, Idle(h.load[i])
    PROVE  Good(ShowRoots(h, i)) /\ ShowRoots(h, i).rows = Rows(Drives)
<1> DEFINE l == Fresh("gone", Drives)
           k == [h EXCEPT !.load[i] = l]
           g == ShowRoots(h, i)
<1>1. IsLoad(l) /\ Idle(l) /\ ~IsS3(l)
  BY KindFacts, FreshIsLoad DEF Busy
<1> HIDE DEF l
<1>2. Only(k, h, i, l)
  BY <1>1, SetLoad DEF Good
<1>3. Good(k)
  BY <1>1, <1>2, PutIdle
<1>4. /\ g = [f \in PaneFields |-> g[f]] /\ g.src = k.src /\ g.dir = <<>>
      /\ g.s3 = k.s3 /\ g.token = k.token /\ g.off = k.off /\ g.load = k.load
      /\ g.rows = Rows(Drives) /\ g.bucket = k.bucket
  <2>1. h = [f \in PaneFields |-> h[f]]
    BY ViewFacts DEF Good
  <2> DEFINE d == Settled(h, Rows(Drives))
  <2>2. /\ d = [f \in PaneFields |-> d[f]] /\ d.src = h.src /\ d.rows = Rows(Drives)
        /\ d.bucket = h.bucket /\ d.s3 = h.s3 /\ d.token = h.token /\ d.off = h.off
        /\ d.load = h.load
    BY <2>1, SettledFacts
  <2>3. g = [d EXCEPT !.dir = <<>>, !.load[i] = l, !.last = i]
    BY DEF ShowRoots, l
  <2> HIDE DEF d, g
  <2>4. /\ k.src = h.src /\ k.bucket = h.bucket /\ k.s3 = h.s3 /\ k.token = h.token
        /\ k.off = h.off /\ k.load = [h.load EXCEPT ![i] = l]
    BY <2>1 DEF PaneFields
  <2>5. /\ g = [f \in PaneFields |-> g[f]] /\ g.src = d.src /\ g.dir = <<>>
        /\ g.bucket = d.bucket /\ g.s3 = d.s3 /\ g.token = d.token /\ g.off = d.off
        /\ g.load = [d.load EXCEPT ![i] = l] /\ g.rows = d.rows
    BY <2>2, <2>3 DEF PaneFields
  <2> QED BY <2>2, <2>4, <2>5
<1> HIDE DEF g, k
<1>5. View(g)
  BY <1>3, <1>4 DEF Good, View
<1>6. CASE k.src # Local
  <2>1. Drives.src # k.src /\ Kind(Drives.src) # "s3"
    BY <1>6, KindFacts
  <2> QED BY <1>3, <1>4, <1>5, <2>1, Lands DEF g
<1>7. CASE k.src = Local
  <2>1. Snapshot(g) = Drives
    BY <1>4, <1>7, KindFacts DEF Snapshot, Drives
  <2>2. \A j \in DOMAIN k.load : ~Current(k, j)
    BY <1>3, <1>7, KindFacts DEF Good, OfBinding, Current, IsS3
  <2> QED BY <1>3, <1>4, <1>5, <1>7, <2>1, <2>2, KindFacts, Lands DEF g
<1> QED BY <1>4, <1>6, <1>7 DEF g

(* A listing of a local or remote folder. *)
LEMMA CallGood ==
    ASSUME NEW h, Good(h), NEW i \in DOMAIN h.load, Idle(h.load[i]), Kind(h.src) # "s3", NEW dir
    PROVE  Good(NavigateCall(h, i, dir)) /\ NavigateCall(h, i, dir).rows = h.rows
<1> DEFINE e == Place(h.src, NoBucket, dir)
           f0 == Fresh("lists", e)
           l == [f0 EXCEPT !.seq = h.nav + 1]
           k == [h EXCEPT !.load[i] = l]
           g == NavigateCall(h, i, dir)
<1>1. e.src = h.src /\ e.bucket = NoBucket /\ e = Place(e.src, e.bucket, e.dir)
  BY DEF Place
<1>2. g = [Begins(h, i, l) EXCEPT !.nav = @ + 1, !.wired = FALSE]
  BY DEF NavigateCall
<1> HIDE DEF e
<1>3. IsLoad(f0) /\ Idle(f0) /\ ~IsS3(f0)
  BY <1>1, FreshIsLoad DEF Busy
<1> HIDE DEF f0
<1> DEFINE n == h.nav + 1
<1> HIDE DEF n
<1>4. IsLoad(l) /\ Idle(l) /\ ~IsS3(l)
  <2>1. l = [f \in LoadFields |-> l[f]] /\ l.live = f0.live /\ l.demand = f0.demand
        /\ l.early = f0.early /\ l.at = f0.at /\ l.e = f0.e /\ l.walk = f0.walk
    BY <1>3 DEF IsLoad, LoadFields
  <2> HIDE DEF l
  <2> QED BY <1>3, <2>1 DEF IsLoad, IsS3, Idle
<1> HIDE DEF l
<1>5. Only(k, h, i, l)
  BY <1>4, SetLoad DEF Good
<1>6. Good(k)
  BY <1>4, <1>5, PutIdle
<1>7. Same(g, k)
  BY <1>2 DEF Begins, Good, View, PaneFields, Same
<1>8. g.rows = h.rows
  BY <1>5, <1>7 DEF Only, Same
<1> QED BY <1>6, <1>7, <1>8, SameGood DEF g

(* An S3 listing: of the buckets, or a stream of a folder. *)
LEMMA S3Good ==
    ASSUME NEW h, Good(h), NEW i \in DOMAIN h.load, Idle(h.load[i]), Kind(h.src) = "s3",
           NEW bucket, NEW dir
    PROVE  Good(NavigateS3(h, i, bucket, dir)) /\ NavigateS3(h, i, bucket, dir).rows = h.rows
<1> DEFINE c == CancelS3Stream(h)
           e == Place(h.src, bucket, dir)
           l == [Fresh("lists", e) EXCEPT !.seq = c.s3]
           m == [l EXCEPT !.at = "begin", !.seq = c.s3, !.live = TRUE, !.walk = "running"]
           b == Begins(c, i, l)
           s == [Subscribed(b, i, l) EXCEPT !.wired = TRUE]
<1>0. NavigateS3(h, i, bucket, dir) = IF bucket = NoBucket THEN b ELSE s
  BY DEF NavigateS3
<1>1. Canceled(c, h)
  BY CancelLeaves DEF Good
<1>2. Good(c) /\ Free(c) /\ i \in DOMAIN c.load /\ c.src = h.src /\ c.s3 \in Nat
      /\ c.rows = h.rows
  <2> HIDE DEF c
  <2>1. Good(c) /\ Free(c)
    BY <1>1, CancelGood
  <2>2. c.s3 \in Nat
    BY <2>1, ViewFacts DEF Good
  <2> QED BY <1>1, <2>1, <2>2 DEF Canceled
<1>3. Idle(c.load[i])
  BY <1>1 DEF Canceled, Idle, Busy
<1> HIDE DEF c
<1>4. e.src = h.src /\ e.bucket = bucket /\ e = Place(e.src, e.bucket, e.dir)
  BY DEF Place
<1> HIDE DEF e
<1>5. /\ l = [f \in LoadFields |-> l[f]] /\ l.live = FALSE /\ l.demand = FALSE
      /\ l.early = <<>> /\ l.at = "lists" /\ l.e = e /\ l.walk = "none" /\ l.seq = c.s3
  BY DEF Fresh, LoadFields
<1>6. /\ m = [f \in LoadFields |-> m[f]] /\ m.live = TRUE /\ m.demand = FALSE
      /\ m.early = <<>> /\ m.at = "begin" /\ m.e = e /\ m.walk = "running" /\ m.seq = c.s3
  BY DEF Fresh, LoadFields
<1> HIDE DEF l, m
<1>7. <<>> \in Seq({})
  OBVIOUS
<1>8. CASE bucket = NoBucket
  <2> DEFINE k == [c EXCEPT !.load[i] = l]
  <2>1. IsLoad(l) /\ Idle(l) /\ IsS3(l)
    BY <1>2, <1>4, <1>5, <1>7, <1>8 DEF IsLoad, Idle, IsS3, Busy
  <2>2. Only(k, c, i, l)
    BY <1>2, <2>1, SetLoad DEF Good
  <2>3. Good(k)
    BY <1>2, <1>3, <1>4, <1>5, <2>1, <2>2, PutIdle
  <2>4. Same(b, k)
    BY <1>2 DEF Begins, Good, View, PaneFields, Same
  <2>5. b.rows = h.rows
    BY <1>2, <2>2, <2>4 DEF Only, Same
  <2> HIDE DEF b, k
  <2> QED BY <1>0, <1>8, <2>3, <2>4, <2>5, SameGood
<1>9. CASE bucket # NoBucket
  <2> DEFINE k == [c EXCEPT !.load[i] = m]
  <2>1. IsLoad(m) /\ IsS3(m)
    BY <1>2, <1>4, <1>6, <1>7 DEF IsLoad, IsS3, Busy
  <2>2. Only(k, c, i, m)
    BY <1>2, <2>1, SetLoad DEF Good
  <2>3. /\ s = [f \in PaneFields |-> s[f]]
        /\ s.src = k.src /\ s.bucket = k.bucket /\ s.dir = k.dir /\ s.listed = k.listed
        /\ s.s3 = k.s3 /\ s.token = k.token /\ s.off = i /\ s.rows = k.rows
        /\ s.load = k.load
    <3>1. /\ b = [f \in PaneFields |-> b[f]]
          /\ b.src = c.src /\ b.bucket = c.bucket /\ b.dir = c.dir /\ b.listed = c.listed
          /\ b.s3 = c.s3 /\ b.token = c.token /\ b.rows = c.rows
          /\ b.load = [c.load EXCEPT ![i] = l]
      BY <1>2 DEF Begins, Good, View, PaneFields
    <3> HIDE DEF b
    <3>2. s = [b EXCEPT !.off = i, !.load[i] = m, !.wired = TRUE]
      BY <3>1 DEF Subscribed, m
    <3> HIDE DEF s
    <3>3. /\ s = [f \in PaneFields |-> s[f]]
          /\ s.src = b.src /\ s.bucket = b.bucket /\ s.dir = b.dir /\ s.listed = b.listed
          /\ s.s3 = b.s3 /\ s.token = b.token /\ s.off = i /\ s.rows = b.rows
          /\ s.load = [b.load EXCEPT ![i] = m]
      BY <3>1, <3>2 DEF PaneFields
    <3>4. k.load = [c.load EXCEPT ![i] = m] /\ k.src = c.src /\ k.bucket = c.bucket
          /\ k.dir = c.dir /\ k.listed = c.listed /\ k.s3 = c.s3 /\ k.token = c.token
          /\ k.rows = c.rows
      BY <1>2 DEF Good, View, PaneFields
    <3> HIDE DEF k
    <3>5. [[c.load EXCEPT ![i] = l] EXCEPT ![i] = m] = [c.load EXCEPT ![i] = m]
      OBVIOUS
    <3> QED BY <3>1, <3>3, <3>4, <3>5
  <2> HIDE DEF k, s
  <2>4. View(s)
    BY <1>2, <2>2, <2>3 DEF Only, View
  <2>5. Good(s)
    BY <1>2, <1>3, <1>4, <1>6, <2>1, <2>2, <2>3, <2>4, PutBegin DEF Only
  <2>6. s.rows = h.rows
    BY <1>2, <2>2, <2>3 DEF Only
  <2> QED BY <1>0, <1>9, <2>5, <2>6
<1> QED BY <1>8, <1>9

-----------------------------------------------------------------------------
(* The calls that navigate. *)
LEMMA NavigateGood ==
    ASSUME NEW h, Good(h), NEW i \in DOMAIN h.load, Idle(h.load[i]), NEW dir
    PROVE  Good(Navigate(h, i, dir)) /\ Navigate(h, i, dir).rows = h.rows
  BY S3Good, CallGood DEF Navigate

LEMMA NavEntryGood ==
    ASSUME NEW h, Good(h), NEW i \in DOMAIN h.load, Idle(h.load[i]), NEW e
    PROVE  Good(NavEntry(h, i, e)) /\ NavEntry(h, i, e).rows \in {h.rows, Rows(Drives)}
<1> DEFINE h1 == IF e.src = h.src THEN h ELSE BindTo(h, e.src)
<1>1. Good(h1) /\ i \in DOMAIN h1.load /\ Idle(h1.load[i]) /\ h1.src = e.src
      /\ h1.rows = h.rows
  BY BindGood
<1>2. \/ Kind(e.src) = "s3" /\ NavEntry(h, i, e) = NavigateS3(h1, i, e.bucket, e.dir)
      \/ NavEntry(h, i, e) = ShowRoots(h1, i)
      \/ Kind(e.src) # "s3" /\ NavEntry(h, i, e) = NavigateCall(h1, i, e.dir)
  <2> HIDE DEF h1
  <2>1. NavEntry(h, i, e) = CASE Kind(e.src) = "s3" -> NavigateS3(h1, i, e.bucket, e.dir)
                              [] e = Drives         -> ShowRoots(h1, i)
                              [] OTHER              -> NavigateCall(h1, i, e.dir)
    BY DEF NavEntry, h1
  <2>2. e = Drives => Kind(e.src) # "s3"
    BY KindFacts
  <2> QED BY <2>1, <2>2
<1> HIDE DEF h1
<1> QED BY <1>1, <1>2, S3Good, CallGood, RootsGood

LEMMA StartGood ==
    ASSUME NEW h, Good(h), NEW i \in DOMAIN h.load, Idle(h.load[i])
    PROVE  Good(Start(h, i)) /\ Start(h, i).rows = h.rows
<1>1. CASE Kind(h.src) = "s3"
  <2>1. Start(h, i) = NavigateS3(h, i, BucketOf[h.src], <<>>)
    BY <1>1 DEF Start
  <2> QED BY <1>1, <2>1, S3Good
<1>2. CASE Kind(h.src) = "remote"
  <2>1. Start(h, i) = NavigateCall(h, i, h.dir) /\ Kind(h.src) # "s3"
    BY <1>2 DEF Start
  <2> QED BY <2>1, CallGood
<1>3. CASE Kind(h.src) \notin {"s3", "remote"}
  <2> DEFINE l == Fresh("start", Drives)
             k == [h EXCEPT !.load[i] = l]
  <2>1. Start(h, i) = k
    BY <1>3 DEF Start
  <2>2. IsLoad(l) /\ Idle(l) /\ ~IsS3(l)
    BY KindFacts, FreshIsLoad DEF Busy
  <2> HIDE DEF l
  <2>3. Only(k, h, i, l)
    BY <2>2, SetLoad DEF Good
  <2>4. Good(k) /\ k.rows = h.rows
    BY <2>2, <2>3, PutIdle DEF Only
  <2> QED BY <2>1, <2>4
<1> QED BY <1>1, <1>2, <1>3

LEMMA WentSame ==
    ASSUME NEW h, Good(h), NEW e
    PROVE  Same(Went(h, e), h)
  BY DEF Went, Good, View, PaneFields, Same

LEMMA GoToGood ==
    ASSUME NEW h, Good(h), NEW i \in DOMAIN h.load, Idle(h.load[i]), NEW e
    PROVE  Good(GoTo(h, i, e)) /\ GoTo(h, i, e).rows \in {h.rows, Rows(Drives)}
<1>1. Good(Went(h, e)) /\ Went(h, e).load = h.load /\ Went(h, e).rows = h.rows
  BY WentSame, SameGood DEF Same
<1> QED BY <1>1, NavEntryGood DEF GoTo

(* A call takes a new load, which starts as nothing. *)
Added(h) == [h EXCEPT !.load = Append(@, Fresh("gone", Drives))]

LEMMA AddedGood ==
    ASSUME NEW h, Good(h)
    PROVE  /\ Good(Added(h)) /\ Len(h.load) + 1 \in DOMAIN Added(h).load
           /\ Idle(Added(h).load[Len(h.load) + 1]) /\ Added(h).rows = h.rows
<1> DEFINE l == Fresh("gone", Drives)
           g == Added(h)
           n == Len(h.load) + 1
<1>1. IsLoad(l) /\ Idle(l) /\ ~IsS3(l) /\ l.at = "gone"
  BY KindFacts, FreshIsLoad DEF Busy
<1>2. g = [h EXCEPT !.load = Append(@, l)]
  BY DEF Added
<1> HIDE DEF l, g
<1>3. /\ View(g)
      /\ g.src = h.src /\ g.bucket = h.bucket /\ g.dir = h.dir /\ g.listed = h.listed
      /\ g.s3 = h.s3 /\ g.token = h.token /\ g.off = h.off /\ g.rows = h.rows
      /\ DOMAIN g.load = DOMAIN h.load \cup {n} /\ g.load[n] = l
      /\ \A j \in DOMAIN h.load : g.load[j] = h.load[j] /\ j # n
  BY <1>1, <1>2, AddLoad DEF Good
<1> HIDE DEF n
<1>4. h.token # n /\ h.off # n /\ h.token \in {0} \cup DOMAIN h.load
  <2>1. n # 0
    BY LoadFacts DEF n, Good
  <2>2. h.token \in {0} \cup DOMAIN h.load /\ h.off \in {0} \cup DOMAIN h.load
    BY DEF Good, View
  <2> QED BY <1>3, <2>1, <2>2
<1>5. ~Current(g, n) /\ InSlot(g, n)
  BY <1>1, <1>3, <1>4 DEF Current, InSlot, Idle, Busy
<1>6. \A j \in DOMAIN h.load : (Current(g, j) <=> Current(h, j)) /\ InSlot(g, j)
  BY <1>3 DEF Current, InSlot, Good, Slots
<1>7. Slots(g)
  BY <1>3, <1>5, <1>6 DEF Slots, Good
<1>8. Snapshot(g) = Snapshot(h) /\ Foreign(g) = Foreign(h)
  BY <1>3 DEF Snapshot, Foreign
<1>9. Stands(g) <=> Stands(h)
  BY <1>3, <1>4 DEF Stands
<1>10. OfBinding(g)
  BY <1>3, <1>5, <1>6, <1>8, <1>9 DEF OfBinding, Good
<1> QED BY <1>1, <1>3, <1>7, <1>10 DEF Good, g, n

-----------------------------------------------------------------------------
(* The user's calls: they show the drives, nothing, or what was there.      *)
NoNews == p'.rows \in {p.rows, {}, Rows(Drives)}

LEMMA OpenGood ==
    ASSUME PaneInv, NEW e, Open(e)
    PROVE  PaneInv' /\ NoNews
<1> DEFINE h == Added(p)
           i == Len(p.load) + 1
           b == BindTo(h, e.src)
           c == [b EXCEPT !.hist = <<>>, !.futr = <<>>]
<1>1. p' = IF h.bound THEN GoTo(h, i, e) ELSE GoTo(c, i, e)
  BY DEF Open, Calls, Added
<1>2. Good(h) /\ i \in DOMAIN h.load /\ Idle(h.load[i]) /\ h.rows = p.rows
  BY AddedGood DEF PaneInv
<1>3. Good(b) /\ i \in DOMAIN b.load /\ Idle(b.load[i]) /\ b.rows = h.rows
  BY <1>2, BindGood
<1> HIDE DEF h, b
<1>4. Same(c, b)
  BY <1>3 DEF Good, View, PaneFields, Same
<1>5. Good(c) /\ c.load = b.load /\ c.rows = b.rows
  BY <1>3, <1>4, SameGood DEF Same
<1> HIDE DEF i, c
<1> QED BY <1>1, <1>2, <1>3, <1>5, GoToGood DEF PaneInv, NoNews

LEMMA HistoryGood ==
    ASSUME PaneInv, GoBack \/ GoForward
    PROVE  PaneInv' /\ NoNews
<1> DEFINE h == Added(p)
           i == Len(p.load) + 1
           b == [h EXCEPT !.futr = Append(@, Snapshot(h)), !.hist = Front(@)]
           f == [h EXCEPT !.hist = Append(@, Snapshot(h)), !.futr = Front(@)]
<1>1. p' = NavEntry(b, i, Last(h.hist)) \/ p' = NavEntry(f, i, Last(h.futr))
  BY DEF GoBack, GoForward, Calls, Added
<1>2. Good(h) /\ i \in DOMAIN h.load /\ Idle(h.load[i]) /\ h.rows = p.rows
  BY AddedGood DEF PaneInv
<1> HIDE DEF h
<1>3. Same(b, h) /\ Same(f, h)
  BY <1>2 DEF Good, View, PaneFields, Same
<1> HIDE DEF b, f, i
<1>4. /\ Good(b) /\ b.load = h.load /\ b.rows = h.rows
      /\ Good(f) /\ f.load = h.load /\ f.rows = h.rows
  BY <1>2, <1>3, SameGood DEF Same
<1> QED BY <1>1, <1>2, <1>4, NavEntryGood DEF PaneInv, NoNews

LEMMA UpGood ==
    ASSUME PaneInv, Up
    PROVE  PaneInv' /\ NoNews
<1> DEFINE h == Added(p)
           i == Len(p.load) + 1
           above == IF p.dir # <<>> THEN Place(p.src, Snapshot(p).bucket, Front(p.dir))
                    ELSE Place(p.src, NoBucket, <<>>)
           l == Fresh("up", above)
           k == [h EXCEPT !.load[i] = l]
<1>1. p' = IF p.src = Local THEN k ELSE GoTo(h, i, above)
  BY DEF Up, Calls, Added
<1>2. Good(h) /\ i \in DOMAIN h.load /\ Idle(h.load[i]) /\ h.rows = p.rows
  BY AddedGood DEF PaneInv
<1>3. above.src = p.src
  BY DEF Place
<1> HIDE DEF h, i, above
<1>4. CASE p.src = Local
  <2>1. IsLoad(l) /\ Idle(l) /\ ~IsS3(l)
    BY <1>3, <1>4, KindFacts, FreshIsLoad DEF Busy
  <2> HIDE DEF l
  <2>2. Only(k, h, i, l)
    BY <1>2, <2>1, SetLoad DEF Good
  <2>3. Good(k) /\ k.rows = h.rows
    BY <1>2, <2>1, <2>2, PutIdle DEF Only
  <2> QED BY <1>1, <1>2, <1>4, <2>3 DEF PaneInv, NoNews
<1>5. CASE p.src # Local
  BY <1>1, <1>2, <1>5, GoToGood DEF PaneInv, NoNews
<1> QED BY <1>4, <1>5

LEMMA RefreshGood ==
    ASSUME PaneInv, Refresh
    PROVE  PaneInv' /\ NoNews
<1> DEFINE h == Added(p)
           i == Len(p.load) + 1
           l == Fresh("roots", Drives)
           k == [h EXCEPT !.load[i] = l]
<1>1. p' = CASE Kind(h.src) = "s3"          -> NavigateS3(h, i, h.bucket, h.dir)
             [] h.src = Local /\ h.dir = <<>> -> k
             [] OTHER                       -> NavigateCall(h, i, h.dir)
  BY DEF Refresh, Calls, Added
<1>2. Good(h) /\ i \in DOMAIN h.load /\ Idle(h.load[i]) /\ h.rows = p.rows
  BY AddedGood DEF PaneInv
<1> HIDE DEF h, i
<1>3. IsLoad(l) /\ Idle(l) /\ ~IsS3(l)
  BY KindFacts, FreshIsLoad DEF Busy
<1> HIDE DEF l
<1>4. Only(k, h, i, l)
  BY <1>2, <1>3, SetLoad DEF Good
<1>5. Good(k) /\ k.rows = h.rows
  BY <1>2, <1>3, <1>4, PutIdle DEF Only
<1> HIDE DEF k
<1>6. h.src = Local => Kind(h.src) # "s3"
  BY KindFacts
<1>7. \/ Kind(h.src) = "s3" /\ p' = NavigateS3(h, i, h.bucket, h.dir)
      \/ p' = k
      \/ Kind(h.src) # "s3" /\ p' = NavigateCall(h, i, h.dir)
  BY <1>1, <1>6
<1> QED BY <1>2, <1>5, <1>7, S3Good, CallGood DEF PaneInv, NoNews

LEMMA BindsGood ==
    ASSUME PaneInv, (\E src \in Sources : Rebind(src)) \/ (\E e \in Places : Show(e))
    PROVE  PaneInv' /\ NoNews
<1> DEFINE h == Added(p)
           i == Len(p.load) + 1
<1>1. Good(h) /\ i \in DOMAIN h.load /\ Idle(h.load[i]) /\ h.rows = p.rows
  BY AddedGood DEF PaneInv
<1>2. \/ \E src : p' = Start([BindTo(h, src) EXCEPT !.hist = <<>>, !.futr = <<>>], i)
      \/ \E e : p' = NavEntry(BindTo(h, e.src), i, e)
      \/ p' = Start(IF h.bound THEN h ELSE BindTo(h, Local), i)
  BY DEF Rebind, Show, Calls, Added
<1> HIDE DEF h, i
<1>3. \A src : /\ Good(BindTo(h, src)) /\ i \in DOMAIN BindTo(h, src).load
               /\ Idle(BindTo(h, src).load[i]) /\ BindTo(h, src).rows = h.rows
  BY <1>1, BindGood
<1> DEFINE Fine(g) == Good(g) /\ g.rows \in {h.rows, Rows(Drives)}
<1>4. ASSUME NEW src PROVE Fine(Start([BindTo(h, src) EXCEPT !.hist = <<>>, !.futr = <<>>], i))
  <2> DEFINE b == BindTo(h, src)
             c == [b EXCEPT !.hist = <<>>, !.futr = <<>>]
  <2>1. Good(b) /\ i \in DOMAIN b.load /\ Idle(b.load[i]) /\ b.rows = h.rows
    BY <1>3
  <2> HIDE DEF b
  <2>2. Same(c, b)
    BY <2>1 DEF Good, View, PaneFields, Same
  <2> HIDE DEF c
  <2>3. Good(c) /\ c.load = b.load /\ c.rows = b.rows
    BY <2>1, <2>2, SameGood DEF Same
  <2>4. Fine(Start(c, i))
    BY <2>1, <2>3, StartGood
  <2> QED BY <2>4 DEF c, b
<1>5. ASSUME NEW e PROVE Fine(NavEntry(BindTo(h, e.src), i, e))
  BY <1>3, NavEntryGood
<1>6. Fine(Start(IF h.bound THEN h ELSE BindTo(h, Local), i))
  BY <1>1, <1>3, StartGood
<1> QED BY <1>1, <1>2, <1>4, <1>5, <1>6 DEF PaneInv, NoNews

LEMMA ResetGood ==
    ASSUME PaneInv, Reset
    PROVE  PaneInv' /\ NoNews
<1> DEFINE c == CancelS3Stream(p)
<1>1. p' = [Settled(c, {}) EXCEPT !.bound = FALSE, !.listed = FALSE, !.hist = <<>>, !.futr = <<>>]
  BY DEF Reset
<1>2. Good(c) /\ Free(c)
  BY CancelLeaves, CancelGood DEF PaneInv, Good
<1> HIDE DEF c
<1>3. /\ p' = [f \in PaneFields |-> p'[f]] /\ p'.src = c.src /\ p'.listed = FALSE
      /\ p'.s3 = c.s3 /\ p'.token = c.token /\ p'.off = c.off /\ p'.load = c.load
      /\ p'.rows = {}
  BY <1>1, <1>2 DEF Settled, Good, View, PaneFields
<1>4. View(p')
  BY <1>2, <1>3 DEF Good, View
<1>5. ASSUME NEW j \in DOMAIN c.load PROVE ~Current(c, j) /\ InSlot(c, j)
  <2>1. InSlot(c, j) /\ IsLoad(c.load[j]) /\ c.s3 \in Nat
    BY <1>2 DEF Good, Slots, View
  <2>2. IsS3(c.load[j]) => c.load[j].seq < c.s3 /\ c.load[j].seq \in Nat
    BY <1>2, <2>1 DEF Free, IsLoad
  <2>3. ~Current(c, j)
    BY <2>1, <2>2 DEF Current
  <2> QED BY <2>1, <2>3
<1>6. \A j \in DOMAIN c.load : ~Current(p', j) /\ InSlot(p', j)
  BY <1>3, <1>5 DEF Current, InSlot
<1>7. Slots(p') /\ OfBinding(p')
  BY <1>2, <1>3, <1>6 DEF Slots, OfBinding, Stands, Free
<1> QED BY <1>3, <1>4, <1>7 DEF PaneInv, Good, NoNews

LEMMA GotoHitGood ==
    ASSUME PaneInv, NEW e, GotoHit(e)
    PROVE  PaneInv' /\ NoNews
<1> DEFINE h == Added(p)
           i == Len(p.load) + 1
           l == Fresh("hit", e)
           k == [h EXCEPT !.load[i] = l]
<1>1. p' = NavEntry(h, i, e) \/ (e.src = Local /\ p' = k)
  BY DEF GotoHit, Calls, Added
<1>2. Good(h) /\ i \in DOMAIN h.load /\ Idle(h.load[i]) /\ h.rows = p.rows
  BY AddedGood DEF PaneInv
<1> HIDE DEF h, i
<1>3. CASE e.src = Local
  <2>1. IsLoad(l) /\ Idle(l) /\ ~IsS3(l)
    BY <1>3, KindFacts, FreshIsLoad DEF Busy
  <2> HIDE DEF l
  <2>2. Only(k, h, i, l)
    BY <1>2, <2>1, SetLoad DEF Good
  <2>3. Good(k) /\ k.rows = h.rows
    BY <1>2, <2>1, <2>2, PutIdle DEF Only
  <2> HIDE DEF k
  <2> QED BY <1>1, <1>2, <2>3, NavEntryGood DEF PaneInv, NoNews
<1> QED BY <1>1, <1>2, <1>3, NavEntryGood DEF PaneInv, NoNews

(* Another window: a load of the pane's own place takes the slot. *)
LEMMA ExtendGood ==
    ASSUME PaneInv, ExtendS3
    PROVE  PaneInv' /\ NoNews
<1> DEFINE h == Added(p)
           i == Len(p.load) + 1
           c == CancelS3Stream(h)
           target == Cardinality(h.rows) + First
           b == [c EXCEPT !.need = TRUE, !.target = target]
           q == Cardinality(p.rows)
           e == Snapshot(p)
           l == [Fresh("begin", e) EXCEPT !.demand = TRUE, !.from = q, !.sent = q]
           m == [l EXCEPT !.at = "begin", !.seq = b.s3, !.live = TRUE, !.walk = "running"]
           g == [b EXCEPT !.off = i, !.load[i] = m]
           k == [b EXCEPT !.load[i] = m]
<1>1. p' = g /\ Kind(p.src) = "s3"
  BY DEF ExtendS3, Calls, Added, Subscribed
<1>2. Good(h) /\ i \in DOMAIN h.load /\ Idle(h.load[i]) /\ h.rows = p.rows
  BY AddedGood DEF PaneInv
<1>3. h.src = p.src /\ h.bucket = p.bucket /\ h.dir = p.dir
  BY DEF Added, PaneInv, Good, View, PaneFields
<1> HIDE DEF h, target
<1>4. Canceled(c, h)
  BY <1>2, CancelLeaves DEF Good
<1> HIDE DEF c
<1>5. Good(c) /\ Free(c) /\ i \in DOMAIN c.load /\ Idle(c.load[i])
  <2>1. Good(c) /\ Free(c)
    BY <1>2, <1>4, CancelGood
  <2> QED BY <1>2, <1>4, <2>1 DEF Canceled, Idle, Busy
<1>6. Same(b, c)
  BY <1>5 DEF Good, View, PaneFields, Same
<1> HIDE DEF b
<1>7. Good(b) /\ Free(b) /\ i \in DOMAIN b.load /\ Idle(b.load[i])
  <2>1. Good(b)
    BY <1>5, <1>6, SameGood
  <2> QED BY <1>5, <1>6, <2>1 DEF Same, Free
<1>8. e = Snapshot(b) /\ e.src = b.src /\ Kind(b.src) = "s3"
      /\ e = Place(e.src, e.bucket, e.dir)
  BY <1>1, <1>3, <1>4, <1>6 DEF Same, Canceled, Snapshot, Place
<1> HIDE DEF e, q, i
<1>9. /\ m = [f \in LoadFields |-> m[f]] /\ m.live = TRUE /\ m.demand = TRUE
      /\ m.early = <<>> /\ m.at = "begin" /\ m.e = e /\ m.seq = b.s3
  BY DEF Fresh, LoadFields
<1> HIDE DEF m
<1>10. <<>> \in Seq({})
  OBVIOUS
<1>11. IsLoad(m) /\ IsS3(m)
  <2>1. b.s3 \in Nat
    BY <1>7, ViewFacts DEF Good
  <2>2. IsS3(m)
    BY <1>8, <1>9 DEF IsS3
  <2> QED BY <1>8, <1>9, <1>10, <2>1, <2>2 DEF IsLoad, Busy
<1>12. Only(k, b, i, m)
  BY <1>7, <1>11, SetLoad DEF Good
<1>13. /\ g = [f \in PaneFields |-> g[f]] /\ g.off = i /\ g.load = k.load
       /\ g.src = k.src /\ g.bucket = k.bucket /\ g.dir = k.dir /\ g.listed = k.listed
       /\ g.s3 = k.s3 /\ g.token = k.token /\ g.rows = k.rows
  BY <1>7 DEF Good, View, PaneFields
<1> HIDE DEF g, k
<1>14. View(g)
  BY <1>7, <1>12, <1>13 DEF Only, View
<1>15. Good(g)
  BY <1>7, <1>8, <1>9, <1>11, <1>12, <1>13, <1>14, PutBegin DEF Only
<1>16. g.rows = p.rows
  BY <1>2, <1>4, <1>6, <1>12, <1>13 DEF Only, Same, Canceled
<1> QED BY <1>1, <1>15, <1>16 DEF PaneInv, NoNews

-----------------------------------------------------------------------------
(* A load changes in what its slot does not know, or leaves without one.    *)
LEMMA NotBusyIsIdle ==
    ASSUME NEW h, Good(h), NEW i \in DOMAIN h.load, h.load[i].at \notin Busy
    PROVE  Idle(h.load[i])
  BY DEF Good, Slots, InSlot, Idle, Busy

LEMMA Touched ==
    ASSUME NEW h, Good(h), NEW i \in DOMAIN h.load, NEW l,
           l.at = h.load[i].at, l.e = h.load[i].e, l.seq = h.load[i].seq,
           l.demand = h.load[i].demand, l.live = h.load[i].live,
           l.walk = "running" => h.load[i].walk = "running",
           NEW g, Only(g, h, i, l)
    PROVE  Good(g)
<1>1. \A j \in DOMAIN h.load :
         /\ g.load[j].at = h.load[j].at /\ g.load[j].e = h.load[j].e
         /\ g.load[j].seq = h.load[j].seq /\ g.load[j].demand = h.load[j].demand
         /\ g.load[j].live = h.load[j].live
         /\ g.load[j].walk = "running" => h.load[j].walk = "running"
  BY DEF Only
<1>2. \A j \in DOMAIN h.load : Current(g, j) <=> Current(h, j)
  BY <1>1 DEF Current, IsS3, Only
<1>3. \A j \in DOMAIN h.load : InSlot(g, j)
  <2> TAKE j \in DOMAIN h.load
  <2>1. InSlot(h, j)
    BY DEF Good, Slots
  <2> QED BY <1>1, <1>2, <2>1 DEF InSlot, IsS3, Only
<1>4. Slots(g)
  BY <1>2, <1>3 DEF Slots, Good, Only
<1>5. Snapshot(g) = Snapshot(h) /\ Foreign(g) = Foreign(h)
  BY DEF Only, Snapshot, Foreign
<1>6. Stands(g) <=> Stands(h)
  BY <1>1 DEF Stands, Only, Good, View
<1>7. OfBinding(g)
  BY <1>1, <1>2, <1>5, <1>6 DEF OfBinding, Good, Only
<1> QED BY <1>4, <1>7 DEF Good, Only

LEMMA Dropped ==
    ASSUME NEW h, Good(h), NEW i \in DOMAIN h.load, h.load[i].at # "stream",
           NEW l, Idle(l), l.e = h.load[i].e, l.seq = h.load[i].seq,
           NEW g, View(g), DOMAIN g.load = DOMAIN h.load,
           g.load[i] = l, \A j \in DOMAIN h.load \ {i} : g.load[j] = h.load[j],
           g.src = h.src, g.bucket = h.bucket, g.dir = h.dir, g.listed = h.listed,
           g.s3 = h.s3, g.token = h.token, g.rows = h.rows,
           g.off = IF h.off = i THEN 0 ELSE h.off
    PROVE  Good(g)
<1>1. i # 0 /\ h.token # i /\ InSlot(h, i) /\ 0 \notin DOMAIN h.load
  BY LoadFacts DEF Good, View, Slots, InSlot
<1>2. \A j \in DOMAIN h.load : Current(g, j) <=> Current(h, j)
  BY DEF Current, IsS3
<1>3. g.off # i /\ \A j \in DOMAIN h.load \ {i} : g.off = j <=> h.off = j
  BY <1>1
<1>4. \A j \in DOMAIN h.load : InSlot(g, j)
  <2> TAKE j \in DOMAIN h.load
  <2>1. CASE j = i
    BY <1>1, <1>2, <1>3, <2>1 DEF InSlot, IsS3, Idle, Busy
  <2>2. CASE j # i
    <3>1. InSlot(h, j) /\ g.load[j] = h.load[j]
      BY <2>2 DEF Good, Slots
    <3> QED BY <1>2, <1>3, <2>2, <3>1 DEF InSlot
  <2> QED BY <2>1, <2>2
<1>5. Slots(g)
  BY <1>2, <1>4 DEF Slots, Good
<1>6. Snapshot(g) = Snapshot(h) /\ Foreign(g) = Foreign(h)
  BY DEF Snapshot, Foreign
<1>7. Stands(g) <=> Stands(h)
  BY <1>1 DEF Stands, Good, View
<1>8. ASSUME NEW j \in DOMAIN h.load, Current(g, j)
      PROVE  /\ g.load[j].e.src = g.src
             /\ g.load[j].at = "stream" \/ (g.load[j].at = "begin" /\ g.load[j].demand)
                  => Foreign(g) \/ g.load[j].e = Snapshot(g)
  <2>1. Current(h, j) /\ g.load[j].e = h.load[j].e
    BY <1>2, <1>8
  <2>2. j = i => g.load[j].at \notin Busy
    BY DEF Idle
  <2> QED BY <1>6, <2>1, <2>2 DEF Good, OfBinding, Busy
<1>9. OfBinding(g)
  BY <1>6, <1>7, <1>8 DEF OfBinding, Good
<1> QED BY <1>5, <1>9 DEF Good

LEMMA LeaveGood ==
    ASSUME NEW h, Good(h), NEW i \in DOMAIN h.load, NEW how \in {"gone", "failed"},
           h.load[i].at # "stream", ~h.load[i].live, h.load[i].walk # "running"
    PROVE  Good(Leave(h, i, how)) /\ Leave(h, i, how).rows = h.rows
<1> DEFINE l == [h.load[i] EXCEPT !.at = how]
           g == Leave(h, i, how)
<1>1. Only(g, h, i, l)
  BY LeaveOnly DEF Good
<1>2. h.load[i] = [f \in LoadFields |-> h.load[i][f]] /\ i # 0
  BY LoadFacts DEF Good
<1>3. /\ l.at = how /\ l.e = h.load[i].e /\ l.seq = h.load[i].seq
      /\ l.live = h.load[i].live /\ l.walk = h.load[i].walk
  BY <1>2 DEF LoadFields
<1> HIDE DEF l, g
<1>4. Idle(l)
  BY <1>3 DEF Idle, Busy
<1>5. h.off # i
  BY DEF Good, Slots, InSlot
<1>6. Good(g)
  BY <1>1, <1>3, <1>4, <1>5, Dropped DEF Only
<1>7. g.rows = h.rows
  BY <1>1 DEF Only
<1> QED BY <1>6, <1>7 DEF g

LEMMA OverGood ==
    ASSUME NEW h, Good(h), NEW i \in DOMAIN h.load
    PROVE  LET g == Over(h, i)
           IN  /\ Good(g) /\ DOMAIN g.load = DOMAIN h.load /\ g.load[i].walk # "running"
               /\ g.load[i].at = h.load[i].at /\ g.load[i].live = h.load[i].live
               /\ g.load[i].e = h.load[i].e /\ g.load[i].seq = h.load[i].seq
               /\ g.s3 = h.s3 /\ g.off = h.off /\ g.token = h.token /\ g.rows = h.rows
<1> DEFINE w == IF h.load[i].walk = "running" THEN "over" ELSE h.load[i].walk
           l == [h.load[i] EXCEPT !.walk = w]
           g == Over(h, i)
<1>1. Only(g, h, i, l)
  BY OverOnly DEF Good
<1>2. h.load[i] = [f \in LoadFields |-> h.load[i][f]]
  BY LoadFacts DEF Good
<1>3. w # "running"
  OBVIOUS
<1> HIDE DEF w
<1>4. /\ l.at = h.load[i].at /\ l.e = h.load[i].e /\ l.seq = h.load[i].seq
      /\ l.live = h.load[i].live /\ l.walk = w /\ l.demand = h.load[i].demand
  BY <1>2 DEF LoadFields
<1> HIDE DEF l, g
<1>5. Good(g)
  BY <1>1, <1>3, <1>4, Touched
<1> QED BY <1>1, <1>3, <1>4, <1>5 DEF Only, g

-----------------------------------------------------------------------------
(* Pages *)

(* Load i has its answer: what comes now is handled at once. *)
Begun(h, i) == Good(h) /\ i \in DOMAIN h.load /\ h.load[i].at # "begin"

(* g has rows of h and of the folder of load i, which is what it was.       *)
Feeds(g, h, i) ==
    g.load[i].e = h.load[i].e /\ \A r \in g.rows : r \in h.rows \/ r[1] = h.load[i].e

(* A load that listens after its answer is the stream of the newest count. *)
LEMMA StreamFacts ==
    ASSUME NEW h, NEW i, Begun(h, i), h.load[i].live
    PROVE  /\ h.token = i /\ h.off = i /\ h.load[i].at = "stream" /\ Current(h, i)
           /\ h.load[i].e.src = h.src /\ IsLoad(h.load[i])
           /\ Foreign(h) \/ h.load[i].e = Snapshot(h)
<1>1. InSlot(h, i) /\ IsLoad(h.load[i])
  BY DEF Begun, Good, Slots, View
<1>2. h.token = i /\ h.off = i /\ h.load[i].at = "stream" /\ Current(h, i)
  BY <1>1 DEF InSlot, Begun, Busy
<1> QED BY <1>1, <1>2 DEF Begun, Good, OfBinding

LEMMA SeatGood ==
    ASSUME NEW h, NEW i, NEW n, Begun(h, i), h.load[i].live
    PROVE  Begun(Seat(h, i, n), i) /\ Feeds(Seat(h, i, n), h, i)
<1> DEFINE e     == h.load[i].e
           done  == n = Pages(e)
           room  == Cardinality(h.rows) < h.target
           r1    == IF room \/ done THEN h.rows \cup {<<e, n>>} ELSE h.rows
           h1    == [h EXCEPT !.rows = r1]
           h2    == IF h.load[i].demand THEN h1 ELSE [h1 EXCEPT !.skel = FALSE, !.listed = TRUE]
           c     == CancelS3Stream(h2)
           need  == FALSE
           grid  == IF done /\ c.grid = "open" THEN "done" ELSE c.grid
           g     == [c EXCEPT !.need = need, !.grid = grid]
<1>1. Seat(h, i, n) \in {h2, g}
  BY DEF Seat
<1>2. /\ h.token = i /\ h.off = i /\ h.load[i].at = "stream" /\ Current(h, i)
      /\ e.src = h.src /\ (Foreign(h) \/ e = Snapshot(h))
  BY StreamFacts
<1>3. r1 = h.rows \/ r1 = h.rows \cup {<<e, n>>}
  OBVIOUS
<1> HIDE DEF r1, done, room
<1>4. /\ h2 = [f \in PaneFields |-> h2[f]]
      /\ h2.src = h.src /\ h2.bucket = h.bucket /\ h2.dir = h.dir
      /\ h2.s3 = h.s3 /\ h2.token = h.token /\ h2.off = h.off /\ h2.rows = r1
      /\ h2.load = h.load
      /\ h2.listed = h.listed \/ (h2.listed = TRUE /\ ~h.load[i].demand)
  BY DEF Begun, Good, View, PaneFields
<1> HIDE DEF h2
<1>5. View(h2)
  BY <1>4 DEF Begun, Good, View
<1>6. Slots(h2)
  <2>1. \A j \in DOMAIN h.load : (Current(h2, j) <=> Current(h, j)) /\ InSlot(h, j)
    BY <1>4 DEF Current, Begun, Good, Slots
  <2>2. \A j \in DOMAIN h.load : InSlot(h2, j)
    BY <1>4, <2>1 DEF InSlot
  <2> QED BY <1>4, <2>1, <2>2 DEF Slots, Begun, Good
<1>7. \A r \in h2.rows : r \in h.rows \/ r[1] = e
  BY <1>3, <1>4
<1>8. h.rows \subseteq h2.rows /\ (Foreign(h) => Foreign(h2)) /\ Snapshot(h2) = Snapshot(h)
  BY <1>3, <1>4 DEF Foreign, Snapshot
<1>9. Stands(h2) => Stands(h)
  <2>1. i # 0
    BY LoadFacts DEF Begun, Good
  <2> QED BY <1>2, <1>4, <2>1 DEF Stands
<1>10. OfBinding(h2)
  <2>1. \A j \in DOMAIN h.load : Current(h2, j) <=> Current(h, j)
    BY <1>4 DEF Current
  <2>2. ASSUME NEW j \in DOMAIN h2.load, Current(h2, j)
        PROVE  /\ h2.load[j].e.src = h2.src
               /\ h2.load[j].at = "stream" \/ (h2.load[j].at = "begin" /\ h2.load[j].demand)
                    => Foreign(h2) \/ h2.load[j].e = Snapshot(h2)
    BY <1>4, <1>8, <2>1, <2>2 DEF OfBinding, Begun, Good
  <2>3. ASSUME Stands(h2)
        PROVE  /\ \A r \in h2.rows : Kind(r[1].src) = "s3" => r[1].src = h2.src
               /\ Foreign(h2) \/ \A r \in h2.rows : r[1] = Snapshot(h2)
    <3>1. /\ \A r \in h.rows : Kind(r[1].src) = "s3" => r[1].src = h.src
          /\ Foreign(h) \/ \A r \in h.rows : r[1] = Snapshot(h)
      BY <1>9, <2>3 DEF OfBinding, Begun, Good
    <3> QED BY <1>2, <1>4, <1>7, <1>8, <3>1
  <2> QED BY <2>2, <2>3 DEF OfBinding
<1>11. Good(h2)
  BY <1>5, <1>6, <1>10 DEF Good
<1>12. Begun(h2, i) /\ Feeds(h2, h, i)
  BY <1>4, <1>7, <1>11 DEF Begun, Feeds
<1>13. Begun(g, i) /\ Feeds(g, h, i)
  <2>1. Canceled(c, h2)
    BY <1>5, CancelLeaves
  <2> HIDE DEF c, need, grid
  <2>2. Good(c)
    BY <1>11, <2>1, CancelGood
  <2>3. Same(g, c)
    BY <2>2 DEF Good, View, PaneFields, Same
  <2> HIDE DEF g
  <2>4. Good(g)
    BY <2>2, <2>3, SameGood
  <2>5. i \in DOMAIN c.load /\ c.load[i].at # "begin"
    BY <1>2, <1>4, <1>12, <2>1 DEF Canceled, Begun
  <2>6. g.load[i].e = h2.load[i].e /\ g.rows = h2.rows
    BY <1>12, <2>1, <2>3 DEF Canceled, Begun, Same
  <2>7. Feeds(g, h, i)
    BY <1>12, <2>6 DEF Feeds
  <2> QED BY <2>3, <2>4, <2>5, <2>7 DEF Begun, Same
<1> QED BY <1>1, <1>12, <1>13

LEMMA HandleGood ==
    ASSUME NEW h, NEW i, NEW n, Begun(h, i), h.load[i].live
    PROVE  Begun(Handle(h, i, n), i) /\ Feeds(Handle(h, i, n), h, i)
<1> DEFINE l == ListFail(h)
           c == CancelS3Stream(l)
           d == [c EXCEPT !.need = FALSE]
           b == Leave(d, i, "failed")
<1>1. Handle(h, i, n) \in {h, b, Seat(h, i, n)}
  BY DEF Handle
<1>2. h.token = i /\ h.off = i
  BY StreamFacts
<1>3. Same(l, h)
  BY DEF ListFail, Same, Begun, Good, View, PaneFields
<1> HIDE DEF l
<1>4. Good(l) /\ l.load = h.load /\ l.token = i /\ l.off = i /\ l.rows = h.rows
  BY <1>2, <1>3, SameGood DEF Begun, Same
<1>5. Canceled(c, l)
  BY <1>4, CancelLeaves DEF Good
<1> HIDE DEF c
<1>6. Good(c) /\ i \in DOMAIN c.load /\ c.load[i].at = "gone" /\ ~c.load[i].live
      /\ c.load[i].walk # "running" /\ c.rows = h.rows /\ c.load[i].e = h.load[i].e
  <2>1. Good(c)
    BY <1>4, <1>5, CancelGood
  <2>2. i \in DOMAIN l.load
    BY <1>4 DEF Begun
  <2> QED BY <1>4, <1>5, <2>1, <2>2 DEF Canceled
<1>7. Same(d, c)
  BY <1>6 DEF Good, View, PaneFields, Same
<1> HIDE DEF d
<1>8. Good(d) /\ d.load = c.load /\ d.rows = c.rows
  BY <1>6, <1>7, SameGood DEF Same
<1>9. Good(b)
  BY <1>6, <1>8, LeaveGood
<1>10. Only(b, d, i, [d.load[i] EXCEPT !.at = "failed"])
  BY <1>6, <1>8, LeaveOnly DEF Good
<1>11. d.load[i] = [f \in LoadFields |-> d.load[i][f]]
  BY <1>6, <1>8, LoadFacts DEF Good
<1>12. b.load[i].at # "begin" /\ i \in DOMAIN b.load
       /\ b.load[i].e = d.load[i].e /\ b.rows = d.rows
  <2> HIDE DEF b
  <2> QED BY <1>6, <1>8, <1>10, <1>11 DEF Only, LoadFields
<1>13. Begun(b, i) /\ Feeds(b, h, i)
  <2> HIDE DEF b
  <2> QED BY <1>6, <1>8, <1>9, <1>12 DEF Begun, Feeds
<1>14. Feeds(h, h, i)
  BY DEF Feeds
<1> HIDE DEF b
<1> QED BY <1>1, <1>13, <1>14, SeatGood

(* Induction over the early pages, by the least counterexample. *)
LEMMA LeastOf ==
    ASSUME NEW S, S \subseteq Nat, S # {}
    PROVE  \E i \in S : i = 0 \/ (i - 1 \in Nat /\ i - 1 \notin S)
<1>1. PICK j \in S : \A k \in S : <<k, j>> \notin OpToRel(<, Nat)
  BY WFMin, NatLessThanWellFounded, Zenon
<1>2. \A k \in S : ~(k < j)
  BY <1>1, Zenon DEF OpToRel
<1>3. j \in Nat
  BY <1>1
<1>4. j # 0 => j - 1 \in Nat /\ j - 1 < j
  BY <1>3
<1> QED BY <1>1, <1>2, <1>4

Replayed(h, i, page) == IF h.load[i].live THEN Handle(h, i, page) ELSE h
Replays(f, h, i, pages, m) ==
    f = [n \in 0..m |-> IF n = 0 THEN h ELSE Replayed(f[n - 1], i, pages[n])]

LEMMA ReplayExists ==
    ASSUME NEW h, NEW i, NEW pages, NEW m \in Nat
    PROVE  \E f : Replays(f, h, i, pages, m)
<1> DEFINE S == {k \in Nat : ~\E f : Replays(f, h, i, pages, k)}
<1> SUFFICES ASSUME S # {} PROVE FALSE
  BY DEF S
<1>1. PICK k \in S : k = 0 \/ (k - 1 \in Nat /\ k - 1 \notin S)
  BY LeastOf
<1>2. k \in Nat /\ ~\E f : Replays(f, h, i, pages, k)
  BY <1>1
<1>3. CASE k = 0
  <2> DEFINE f == [n \in 0..0 |-> h]
  <2>1. \A n \in 0..0 : n = 0
    OBVIOUS
  <2>2. Replays(f, h, i, pages, 0)
    BY <2>1 DEF Replays
  <2> QED BY <1>2, <1>3, <2>2
<1>4. CASE k # 0
  <2>1. k - 1 \in Nat /\ \E f : Replays(f, h, i, pages, k - 1)
    BY <1>1, <1>4
  <2>2. PICK f : Replays(f, h, i, pages, k - 1)
    BY <2>1
  <2> DEFINE g == [n \in 0..k |-> IF n = k THEN Replayed(f[k - 1], i, pages[k]) ELSE f[n]]
  <2>3. \A n \in 0..(k - 1) : f[n] = IF n = 0 THEN h ELSE Replayed(f[n - 1], i, pages[n])
    BY <2>2 DEF Replays
  <2>4. \A n \in 0..k : n # k => n \in 0..(k - 1)
    BY <1>2
  <2>5. \A n \in 0..k : n # 0 => n - 1 \in 0..k /\ n - 1 # k /\ n - 1 \in 0..(k - 1)
    BY <1>2
  <2>6. \A n \in 0..k : g[n] = IF n = 0 THEN h ELSE Replayed(g[n - 1], i, pages[n])
    <3> SUFFICES ASSUME NEW n \in 0..k
                 PROVE  g[n] = IF n = 0 THEN h ELSE Replayed(g[n - 1], i, pages[n])
      OBVIOUS
    <3>1. n # 0 => g[n - 1] = f[n - 1]
      BY <2>5
    <3>2. CASE n = k
      BY <1>4, <3>1, <3>2
    <3>3. CASE n # k
      BY <2>3, <2>4, <3>1, <3>3
    <3> QED BY <3>2, <3>3
  <2>7. g = [n \in 0..k |-> IF n = 0 THEN h ELSE Replayed(g[n - 1], i, pages[n])]
    <3>1. g = [n \in 0..k |-> g[n]]
      OBVIOUS
    <3> HIDE DEF g
    <3> QED BY <2>6, <3>1
  <2> QED BY <1>2, <2>7 DEF Replays
<1> QED BY <1>3, <1>4

LEMMA FlushGood ==
    ASSUME NEW h, NEW i, NEW S, NEW pages \in Seq(S), Begun(h, i)
    PROVE  Begun(Flush(h, i, pages), i) /\ Feeds(Flush(h, i, pages), h, i)
<1> DEFINE m == Len(pages)
           f == CHOOSE f : Replays(f, h, i, pages, m)
           T == {k \in Nat : k \in 0..m /\ ~(Begun(f[k], i) /\ Feeds(f[k], h, i))}
<1>1. m \in Nat /\ m \in 0..m
  OBVIOUS
<1>2. Flush(h, i, pages) = f[m]
  BY DEF Flush, Replays, Replayed
<1>3. Replays(f, h, i, pages, m)
  BY <1>1, ReplayExists
<1> HIDE DEF f, m
<1>4. \A n \in 0..m : f[n] = IF n = 0 THEN h ELSE Replayed(f[n - 1], i, pages[n])
  BY <1>3 DEF Replays
<1>5. ASSUME T # {} PROVE FALSE
  <2>1. PICK k \in T : k = 0 \/ (k - 1 \in Nat /\ k - 1 \notin T)
    BY <1>5, LeastOf
  <2>2. k \in 0..m /\ ~(Begun(f[k], i) /\ Feeds(f[k], h, i))
    BY <2>1
  <2>3. CASE k = 0
    BY <1>4, <2>2, <2>3 DEF Feeds
  <2>4. CASE k # 0
    <3> DEFINE g == f[k - 1]
    <3>1. k - 1 \in 0..m /\ k - 1 \notin T
      BY <1>1, <2>1, <2>2, <2>4
    <3>2. Begun(g, i) /\ Feeds(g, h, i)
      BY <3>1
    <3>3. f[k] = Replayed(g, i, pages[k])
      BY <1>4, <2>2, <2>4
    <3> HIDE DEF g
    <3>4. CASE g.load[i].live
      <4>1. f[k] = Handle(g, i, pages[k])
        BY <3>3, <3>4 DEF Replayed
      <4>2. Begun(f[k], i) /\ Feeds(f[k], g, i)
        BY <3>2, <3>4, <4>1, HandleGood
      <4> QED BY <2>2, <3>2, <4>2 DEF Feeds
    <3>5. CASE ~g.load[i].live
      BY <2>2, <3>2, <3>3, <3>5 DEF Replayed
    <3> QED BY <3>4, <3>5
  <2> QED BY <2>3, <2>4
<1> QED BY <1>1, <1>2, <1>5

LEMMA DeliverGood ==
    ASSUME NEW h, Good(h), NEW i \in DOMAIN h.load, NEW n
    PROVE  /\ Good(Deliver(h, i, n)) /\ Feeds(Deliver(h, i, n), h, i)
           /\ ~h.load[i].live \/ h.load[i].at = "begin" => Deliver(h, i, n).rows = h.rows
<1>1. CASE ~h.load[i].live
  BY <1>1 DEF Deliver, Feeds
<1>2. CASE h.load[i].live /\ h.load[i].at = "begin"
  <2> DEFINE early == Append(h.load[i].early, n)
             l == [h.load[i] EXCEPT !.early = early]
             g == [h EXCEPT !.load[i] = l]
  <2>1. Deliver(h, i, n) = g
    BY <1>2 DEF Deliver
  <2>2. IsLoad(h.load[i])
    BY DEF Good, View
  <2>3. PICK S : h.load[i].early \in Seq(S)
    BY <2>2 DEF IsLoad
  <2>4. h.load[i].early \in Seq(S \cup {n}) /\ n \in S \cup {n}
    BY <2>3
  <2>5. early \in Seq(S \cup {n})
    BY <2>4
  <2> HIDE DEF early
  <2>6. /\ l = [f \in LoadFields |-> l[f]] /\ l.live = h.load[i].live
        /\ l.demand = h.load[i].demand /\ l.early = early /\ l.seq = h.load[i].seq
        /\ l.at = h.load[i].at /\ l.e = h.load[i].e /\ l.walk = h.load[i].walk
    BY <2>2 DEF IsLoad, LoadFields
  <2> HIDE DEF l
  <2>7. IsLoad(l)
    BY <2>2, <2>5, <2>6 DEF IsLoad, IsS3
  <2>8. Only(g, h, i, l)
    BY <2>7, SetLoad DEF Good
  <2>9. Good(g)
    BY <2>6, <2>8, Touched
  <2>10. g.rows = h.rows /\ g.load[i].e = h.load[i].e
    BY <2>6, <2>8 DEF Only
  <2> HIDE DEF g
  <2> QED BY <2>1, <2>9, <2>10 DEF Feeds
<1>3. CASE h.load[i].live /\ h.load[i].at # "begin"
  <2>1. Begun(h, i) /\ Deliver(h, i, n) = Handle(h, i, n)
    BY <1>3 DEF Begun, Deliver
  <2> QED BY <1>3, <2>1, HandleGood DEF Begun
<1> QED BY <1>1, <1>2, <1>3

-----------------------------------------------------------------------------
(* Answers *)
LEMMA PathReplyGood ==
    ASSUME PaneInv, NEW i \in DOMAIN p.load, p.load[i].at \in Paths, PathReply(i)
    PROVE  PaneInv' /\ NoNews
<1>1. Idle(p.load[i])
  BY NotBusyIsIdle DEF Paths, Busy, PaneInv
<1>2. p' \in {Navigate(p, i, HomeDir), GoTo(p, i, p.load[i].e), NavEntry(p, i, p.load[i].e),
              ShowRoots(p, i)}
  BY DEF PathReply, Paths
<1> QED BY <1>1, <1>2, NavigateGood, GoToGood, NavEntryGood, RootsGood DEF PaneInv, NoNews

LEMMA StartFailsGood ==
    ASSUME PaneInv, NEW i \in DOMAIN p.load, StartFails(i)
    PROVE  PaneInv' /\ NoNews
<1> DEFINE l == ListFail(p)
<1>1. p' = Leave(l, i, "failed") /\ p.load[i].at = "start"
  BY DEF StartFails
<1>2. Same(l, p)
  BY DEF ListFail, Same, PaneInv, Good, View, PaneFields
<1> HIDE DEF l
<1>3. Good(l) /\ l.load = p.load /\ l.rows = p.rows
  BY <1>2, SameGood DEF PaneInv, Same
<1>4. Idle(l.load[i])
  BY <1>1, <1>3, NotBusyIsIdle DEF Busy
<1> QED BY <1>1, <1>3, <1>4, LeaveGood DEF PaneInv, Idle, NoNews

LEMMA ListReplyGood ==
    ASSUME PaneInv, NEW i \in DOMAIN p.load, ListReply(i)
    PROVE  PaneInv' /\ FromNewest
<1> DEFINE e == p.load[i].e
           bucket == IF Kind(e.src) = "s3" THEN NoBucket ELSE p.bucket
           wired == IF Kind(e.src) = "s3" THEN FALSE ELSE p.wired
           g == [Settled(p, Rows(e)) EXCEPT !.dir = e.dir, !.bucket = bucket, !.wired = wired]
<1>1. p.load[i].at = "lists" /\ p' = Leave(IF Superseded(p, i) THEN p ELSE g, i, "gone")
  BY DEF ListReply, Settled
<1>2. Idle(p.load[i])
  BY <1>1, NotBusyIsIdle DEF Busy, PaneInv
<1>3. CASE Superseded(p, i)
  BY <1>1, <1>2, <1>3, LeaveGood DEF PaneInv, Idle, FromNewest
<1>4. CASE ~Superseded(p, i)
  <2>0. \A r \in Rows(e) : r[1] = p.load[i].e
    BY RowsFacts
  <2>1. e = Place(e.src, e.bucket, e.dir) /\ e.bucket = NoBucket
    BY <1>1 DEF PaneInv, Good, View, IsLoad
  <2> HIDE DEF wired
  <2>2. /\ g = [f \in PaneFields |-> g[f]] /\ g.src = p.src /\ g.dir = e.dir
        /\ g.bucket = bucket /\ g.s3 = p.s3 /\ g.token = p.token /\ g.off = p.off
        /\ g.load = p.load /\ g.rows = Rows(e)
    <3>1. p = [f \in PaneFields |-> p[f]]
      BY ViewFacts DEF PaneInv, Good
    <3> DEFINE d == Settled(p, Rows(e))
    <3>2. /\ d = [f \in PaneFields |-> d[f]] /\ d.src = p.src /\ d.rows = Rows(e)
          /\ d.s3 = p.s3 /\ d.token = p.token /\ d.off = p.off /\ d.load = p.load
      BY <3>1, SettledFacts
    <3>3. g = [d EXCEPT !.dir = e.dir, !.bucket = bucket, !.wired = wired]
      OBVIOUS
    <3> HIDE DEF d, g
    <3> QED BY <3>2, <3>3 DEF PaneFields
  <2> HIDE DEF g
  <2>3. View(g)
    BY <2>2 DEF PaneInv, Good, View
  <2>4. Kind(e.src) = "s3" => Current(p, i)
    BY <1>4 DEF Superseded, Count, Current, IsS3
  <2>5. \A j \in DOMAIN p.load : Current(p, j) => IsS3(p.load[j]) /\ p.load[j].e.src = p.src
    BY DEF PaneInv, Good, OfBinding, Current
  <2>6. e.src = p.src => Snapshot(g) = e
    BY <2>1, <2>2 DEF Snapshot
  <2>7. e.src = p.src => \A j \in DOMAIN p.load : Current(p, j) => p.load[j].at \notin Busy
    <3>1. CASE Kind(e.src) = "s3"
      BY <1>1, <2>4, <3>1 DEF PaneInv, Good, Slots, Busy
    <3>2. CASE Kind(e.src) # "s3"
      BY <2>5, <3>2 DEF IsS3
    <3> QED BY <3>1, <3>2
  <2>8. e.src # p.src => Kind(e.src) # "s3"
    BY <2>4, <2>5
  <2> HIDE DEF e
  <2>9. Good(g)
    BY <2>2, <2>3, <2>6, <2>7, <2>8, Lands DEF PaneInv
  <2>10. p' = Leave(g, i, "gone") /\ i \in DOMAIN g.load /\ Idle(g.load[i])
    BY <1>1, <1>2, <1>4, <2>2
  <2>11. g.load[i].at # "stream"
    BY <2>10 DEF Idle, Busy
  <2>12. PaneInv' /\ p'.rows = Rows(e)
    BY <2>2, <2>9, <2>10, <2>11, LeaveGood DEF PaneInv, Idle
  <2> QED BY <1>1, <1>4, <2>0, <2>12 DEF FromNewest, Loads
<1> QED BY <1>3, <1>4

LEMMA ListFailsGood ==
    ASSUME PaneInv, NEW i \in DOMAIN p.load, ListFails(i)
    PROVE  PaneInv' /\ NoNews
<1> DEFINE l == ListFail(p)
<1>1. p' = Leave(IF Superseded(p, i) THEN p ELSE l, i, "failed") /\ p.load[i].at = "lists"
  BY DEF ListFails
<1>2. Same(l, p)
  BY DEF ListFail, Same, PaneInv, Good, View, PaneFields
<1> HIDE DEF l
<1>3. Good(l) /\ l.load = p.load /\ l.rows = p.rows
  BY <1>2, SameGood DEF PaneInv, Same
<1>4. Idle(l.load[i]) /\ Idle(p.load[i])
  BY <1>1, <1>3, NotBusyIsIdle DEF Busy
<1> QED BY <1>1, <1>3, <1>4, LeaveGood DEF PaneInv, Idle, NoNews

LEMMA BeginReplyGood ==
    ASSUME PaneInv, NEW i \in DOMAIN p.load, BeginReply(i)
    PROVE  PaneInv' /\ FromNewest
<1> DEFINE load == p.load[i]
           e  == load.e
           l  == [load EXCEPT !.at = "stream", !.early = <<>>]
           k  == [p EXCEPT !.load[i] = l]
           h1 == [p EXCEPT !.token = i, !.load[i] = l]
           h2 == [h1 EXCEPT !.bucket = e.bucket, !.dir = e.dir, !.rows = {},
                            !.grid = "open", !.target = First, !.need = TRUE]
           h  == IF load.demand THEN h1 ELSE h2
<1>1. load.at = "begin"
      /\ p' = IF Superseded(p, i) THEN Leave(Over(p, i), i, "gone") ELSE Flush(h, i, load.early)
  <2> DEFINE h0 == [p EXCEPT !.token = i, !.load[i].at = "stream", !.load[i].early = <<>>]
             s == [load EXCEPT !.at = "stream"]
  <2>1. load = [f \in LoadFields |-> load[f]]
    BY LoadFacts DEF PaneInv, Good
  <2>2. h0 = [p EXCEPT !.token = i, !.load = [[p.load EXCEPT ![i] = s] EXCEPT ![i] = l]]
    BY <2>1 DEF PaneInv, Good, View, PaneFields, LoadFields
  <2>3. [[p.load EXCEPT ![i] = s] EXCEPT ![i] = l] = [p.load EXCEPT ![i] = l]
    OBVIOUS
  <2>4. h0 = h1
    BY <2>2, <2>3
  <2>5. load.at = "begin"
        /\ p' = IF Superseded(p, i) THEN Leave(Over(p, i), i, "gone")
                ELSE Flush(IF load.demand THEN h0 ELSE
                           [h0 EXCEPT !.bucket = e.bucket, !.dir = e.dir, !.rows = {},
                                      !.grid = "open", !.target = First, !.need = TRUE], i, load.early)
    BY DEF BeginReply
  <2> HIDE DEF h0
  <2> QED BY <2>4, <2>5
<1>2. InSlot(p, i) /\ IsLoad(load) /\ i # 0 /\ p.token # i
  BY <1>1, LoadFacts DEF PaneInv, Good, Slots, View, InSlot
<1>3. IsS3(load) /\ e = Place(e.src, e.bucket, e.dir)
  BY <1>1, <1>2 DEF IsLoad, Busy
<1>4. Superseded(p, i) <=> ~Current(p, i)
  BY <1>3 DEF Superseded, Count, Current, IsS3
<1>5. CASE Superseded(p, i)
  <2> DEFINE o == Over(p, i)
  <2>1. ~load.live
    BY <1>2, <1>4, <1>5 DEF InSlot
  <2>2. /\ Good(o) /\ i \in DOMAIN o.load /\ o.load[i].walk # "running"
        /\ o.load[i].at = "begin" /\ ~o.load[i].live /\ o.rows = p.rows
    BY <1>1, <2>1, OverGood DEF PaneInv
  <2>3. p' = Leave(o, i, "gone")
    BY <1>1, <1>5
  <2> HIDE DEF o
  <2>4. PaneInv' /\ p'.rows = p.rows
    BY <2>2, <2>3, LeaveGood DEF PaneInv
  <2> QED BY <2>4 DEF FromNewest
<1>6. CASE ~Superseded(p, i)
  <2>1. Current(p, i) /\ load.live /\ p.off = i /\ e.src = p.src /\ p.s3 \in Nat
    BY <1>1, <1>2, <1>4, <1>6 DEF InSlot, PaneInv, Good, OfBinding, View
  <2>2. p.token = 0 /\ 0 \notin DOMAIN p.load
    <3>1. 0 \notin DOMAIN p.load /\ p.token \in {0} \cup DOMAIN p.load
      BY LoadFacts DEF PaneInv, Good, View
    <3>2. p.token \in DOMAIN p.load => p.off = p.token
      BY DEF PaneInv, Good, Slots, InSlot
    <3> QED BY <1>2, <2>1, <3>1, <3>2
  <2>3. /\ l = [f \in LoadFields |-> l[f]] /\ l.live = load.live /\ l.demand = load.demand
        /\ l.early = <<>> /\ l.seq = load.seq /\ l.at = "stream" /\ l.e = e
        /\ l.walk = load.walk
    BY <1>2 DEF IsLoad, LoadFields
  <2>4. <<>> \in Seq({})
    OBVIOUS
  <2> HIDE DEF l
  <2>5. IsLoad(l)
    BY <1>2, <1>3, <2>3, <2>4 DEF IsLoad, IsS3, Busy
  <2>6. Only(k, p, i, l)
    BY <2>5, SetLoad DEF PaneInv, Good
  <2>7. /\ h = [f \in PaneFields |-> h[f]] /\ h.src = p.src /\ h.listed = p.listed
        /\ h.s3 = p.s3 /\ h.token = i /\ h.off = p.off /\ h.load = k.load
    <3>1. p = [f \in PaneFields |-> p[f]]
      BY ViewFacts DEF PaneInv, Good
    <3>2. /\ h1 = [f \in PaneFields |-> h1[f]] /\ h1.src = p.src /\ h1.listed = p.listed
          /\ h1.s3 = p.s3 /\ h1.token = i /\ h1.off = p.off /\ h1.load = [p.load EXCEPT ![i] = l]
      BY <3>1 DEF PaneFields
    <3>3. k.load = [p.load EXCEPT ![i] = l]
      BY <3>1 DEF PaneFields
    <3> HIDE DEF h1, k
    <3>4. /\ h2 = [f \in PaneFields |-> h2[f]] /\ h2.src = h1.src /\ h2.listed = h1.listed
          /\ h2.s3 = h1.s3 /\ h2.token = h1.token /\ h2.off = h1.off /\ h2.load = h1.load
      <4>1. h1 = [f \in PaneFields |-> h1[f]]
        BY <3>2
      <4>2. /\ h2.src = h1.src /\ h2.listed = h1.listed /\ h2.s3 = h1.s3
        BY <4>1 DEF PaneFields
      <4>3. h2.token = h1.token /\ h2.off = h1.off /\ h2.load = h1.load
        BY <4>1 DEF PaneFields
      <4>4. h2 = [f \in PaneFields |-> h2[f]]
        BY <4>1 DEF PaneFields
      <4> QED BY <4>2, <4>3, <4>4
    <3> HIDE DEF h2
    <3>5. /\ h2.src = p.src /\ h2.listed = p.listed
          /\ h2.s3 = p.s3 /\ h2.token = i /\ h2.off = p.off /\ h2.load = k.load
      BY <3>2, <3>3, <3>4
    <3> QED BY <3>2, <3>3, <3>4, <3>5
  <2>8. \/ /\ load.demand
           /\ h.bucket = p.bucket /\ h.dir = p.dir /\ h.rows = p.rows
        \/ /\ ~load.demand
           /\ h.bucket = e.bucket /\ h.dir = e.dir /\ h.rows = {}
    BY DEF PaneInv, Good, View, PaneFields
  <2> HIDE DEF h, k
  <2>9. /\ DOMAIN h.load = DOMAIN p.load /\ h.load[i] = l
        /\ \A j \in DOMAIN p.load \ {i} : h.load[j] = p.load[j]
    BY <2>6, <2>7 DEF Only
  <2>10. View(h)
    BY <2>6, <2>7, <2>9 DEF PaneInv, Good, View, Only
  <2>11. \A j \in DOMAIN p.load : Current(h, j) <=> j = i
    BY <2>1, <2>3, <2>7, <2>9 DEF Current, IsS3, PaneInv, Good, Slots
  <2>12. ASSUME NEW j \in DOMAIN p.load PROVE InSlot(h, j)
    <3>1. CASE j = i
      BY <1>2, <2>1, <2>3, <2>7, <2>9, <2>11, <3>1 DEF InSlot, IsS3, Busy
    <3>2. CASE j # i
      <4>1. InSlot(p, j) /\ h.load[j] = p.load[j]
        BY <2>9, <3>2 DEF PaneInv, Good, Slots
      <4>2. ~Current(p, j) /\ j # 0
        BY <2>1, <2>2, <3>2 DEF PaneInv, Good, Slots
      <4> QED BY <2>2, <2>7, <2>11, <3>2, <4>1, <4>2 DEF InSlot
    <3> QED BY <3>1, <3>2
  <2>13. Slots(h)
    BY <2>9, <2>11, <2>12 DEF Slots
  <2>14. OfBinding(h)
    <3>1. h.load[i].e.src = h.src /\ (Stands(h) => ~load.demand \/ p.listed)
      BY <2>1, <2>3, <2>7, <2>9 DEF Stands
    <3>2. CASE load.demand
      <4>1. Snapshot(h) = Snapshot(p) /\ Foreign(h) = Foreign(p)
        BY <2>7, <2>8, <3>2 DEF Snapshot, Foreign
      <4>2. Foreign(p) \/ e = Snapshot(p)
        BY <1>1, <2>1, <3>2 DEF PaneInv, Good, OfBinding
      <4>3. Stands(h) => Stands(p)
        BY <3>1, <3>2 DEF Stands
      <4>4. Foreign(h) \/ e = Snapshot(h)
        BY <4>1, <4>2
      <4>5. ASSUME NEW j \in DOMAIN h.load, Current(h, j)
            PROVE  h.load[j].e.src = h.src /\ (Foreign(h) \/ h.load[j].e = Snapshot(h))
        <5>1. j = i
          BY <2>9, <2>11, <4>5
        <5> QED BY <2>3, <2>9, <3>1, <4>4, <5>1
      <4>6. ASSUME Stands(h)
            PROVE  /\ \A r \in h.rows : Kind(r[1].src) = "s3" => r[1].src = h.src
                   /\ Foreign(h) \/ \A r \in h.rows : r[1] = Snapshot(h)
        <5>1. /\ \A r \in p.rows : Kind(r[1].src) = "s3" => r[1].src = p.src
              /\ Foreign(p) \/ \A r \in p.rows : r[1] = Snapshot(p)
          BY <4>3, <4>6 DEF OfBinding, PaneInv, Good
        <5>2. h.rows = p.rows /\ h.src = p.src
          BY <2>7, <2>8, <3>2
        <5> QED BY <4>1, <5>1, <5>2
      <4> QED BY <4>5, <4>6 DEF OfBinding
    <3>3. CASE ~load.demand
      <4>1. e = Snapshot(h) /\ h.rows = {}
        BY <1>3, <2>1, <2>7, <2>8, <3>3 DEF Snapshot, IsS3
      <4> QED BY <2>3, <2>9, <2>11, <3>1, <4>1 DEF OfBinding
    <3> QED BY <3>2, <3>3
  <2>15. Begun(h, i)
    BY <2>3, <2>9, <2>10, <2>13, <2>14 DEF Good, Begun
  <2>16. PICK S : load.early \in Seq(S)
    BY <1>2 DEF IsLoad
  <2>17. Begun(Flush(h, i, load.early), i) /\ Feeds(Flush(h, i, load.early), h, i)
    BY <2>15, <2>16, FlushGood
  <2>18. h.load[i].e = p.load[i].e /\ h.rows \subseteq p.rows
    BY <2>3, <2>8, <2>9
  <2>19. p' = Flush(h, i, load.early)
    BY <1>1, <1>6
  <2> HIDE DEF load
  <2>20. \A r \in p'.rows : r \in p.rows \/ r[1] = p.load[i].e
    BY <2>17, <2>18, <2>19 DEF Feeds
  <2>21. FromNewest
    BY <1>1, <1>6, <2>20 DEF FromNewest, Loads, load
  <2> QED BY <2>17, <2>19, <2>21 DEF Begun, PaneInv
<1> QED BY <1>5, <1>6

LEMMA BeginFailsGood ==
    ASSUME PaneInv, NEW i \in DOMAIN p.load, BeginFails(i)
    PROVE  PaneInv' /\ NoNews
<1> DEFINE load == p.load[i]
           off == IF p.off = i THEN 0 ELSE p.off
           l == [load EXCEPT !.live = FALSE, !.early = <<>>, !.at = "failed", !.walk = "none"]
           k == [p EXCEPT !.load[i] = l]
           h == [p EXCEPT !.load[i] = l, !.off = off]
           g == [ListFail(h) EXCEPT !.need = FALSE]
<1>1. load.at = "begin"
  BY DEF BeginFails
<1>2. IsLoad(load) /\ i # 0
  BY LoadFacts DEF PaneInv, Good, View
<1>3. p' \in {h, g}
  <2> DEFINE o == Off(p, i)
             h1 == [o EXCEPT !.load[i].at = "failed", !.load[i].walk = "none",
                             !.off = IF o.off = i THEN 0 ELSE o.off]
  <2>1. p' \in {h1, [ListFail(h1) EXCEPT !.need = FALSE]}
    BY DEF BeginFails
  <2>2. h1 = h
    <3> DEFINE s == [load EXCEPT !.live = FALSE, !.early = <<>>]
               t == [s EXCEPT !.at = "failed"]
               ol == [p.load EXCEPT ![i] = s]
    <3>1. o = [p EXCEPT !.load[i] = s]
      BY DEF Off
    <3> HIDE DEF o
    <3>2. o = [f \in PaneFields |-> o[f]] /\ o = [p EXCEPT !.load = ol]
          /\ o.load = ol /\ o.off = p.off
      BY <3>1 DEF PaneInv, Good, View, PaneFields
    <3>3. ol[i] = s /\ DOMAIN ol = DOMAIN p.load
      OBVIOUS
    <3>4. l = [t EXCEPT !.walk = "none"]
      BY <1>2 DEF IsLoad, LoadFields
    <3> HIDE DEF s, ol
    <3>5. h1 = [o EXCEPT !.load = [[ol EXCEPT ![i] = t] EXCEPT ![i] = l], !.off = off]
      <4>1. o.load[i] = s
        BY <3>2, <3>3
      <4> HIDE DEF l
      <4> QED BY <3>2, <3>3, <3>4, <4>1 DEF PaneFields
    <3>6. [[ol EXCEPT ![i] = t] EXCEPT ![i] = l] = [p.load EXCEPT ![i] = l]
      <4> HIDE DEF t, l
      <4> QED BY DEF ol
    <3> DEFINE new == [p.load EXCEPT ![i] = l]
    <3>7. h1 = [o EXCEPT !.load = new, !.off = off]
      BY <3>5, <3>6
    <3>8. h = [p EXCEPT !.load = new, !.off = off]
      OBVIOUS
    <3> HIDE DEF new, h1, h, off
    <3> QED BY <3>2, <3>7, <3>8 DEF PaneInv, Good, View, PaneFields
  <2> QED BY <2>1, <2>2
<1>4. /\ l = [f \in LoadFields |-> l[f]] /\ l.live = FALSE /\ l.demand = load.demand
      /\ l.early = <<>> /\ l.seq = load.seq /\ l.at = "failed" /\ l.e = load.e
      /\ l.walk = "none"
  BY <1>2 DEF IsLoad, LoadFields
<1> HIDE DEF l
<1>5. <<>> \in Seq({})
  OBVIOUS
<1>6. IsLoad(l) /\ Idle(l)
  BY <1>2, <1>4, <1>5 DEF IsLoad, IsS3, Idle, Busy
<1>7. Only(k, p, i, l)
  BY <1>6, SetLoad DEF PaneInv, Good
<1> HIDE DEF off
<1>8. /\ h = [f \in PaneFields |-> h[f]] /\ h.off = off /\ h.load = k.load
      /\ h.src = k.src /\ h.bucket = k.bucket /\ h.dir = k.dir /\ h.listed = k.listed
      /\ h.s3 = k.s3 /\ h.token = k.token /\ h.rows = k.rows
  BY DEF PaneInv, Good, View, PaneFields
<1> HIDE DEF h, k
<1>9. View(h)
  BY <1>7, <1>8 DEF PaneInv, Good, View, Only, off
<1>10. Good(h)
  BY <1>1, <1>4, <1>6, <1>7, <1>8, <1>9, Dropped DEF PaneInv, Only, off
<1>11. Good(g) /\ g.rows = h.rows
  <2>1. Same(g, h)
    BY <1>10 DEF ListFail, Same, Good, View, PaneFields
  <2> HIDE DEF g
  <2> QED BY <1>10, <2>1, SameGood DEF Same
<1>12. h.rows = p.rows
  BY <1>7, <1>8 DEF Only
<1> HIDE DEF g
<1> QED BY <1>3, <1>10, <1>11, <1>12 DEF PaneInv, NoNews

(* A page is delivered to a load that is but for its walk what it was: what *)
(* that puts on the screen is of the newest listing.                        *)
LEMMA DeliveredIsNew ==
    ASSUME PaneInv, NEW i \in DOMAIN p.load, NEW n, NEW g, Good(g), i \in DOMAIN g.load,
           g.rows = p.rows, g.load[i].e = p.load[i].e, g.load[i].at = p.load[i].at,
           g.load[i].live = p.load[i].live, p' = Deliver(g, i, n)
    PROVE  PaneInv' /\ FromNewest
<1>1. Good(p') /\ Feeds(p', g, i)
      /\ (~g.load[i].live \/ g.load[i].at = "begin" => p'.rows = g.rows)
  BY DeliverGood
<1>2. CASE ~p.load[i].live \/ p.load[i].at = "begin"
  BY <1>1, <1>2 DEF PaneInv, FromNewest
<1>3. CASE p.load[i].live /\ p.load[i].at # "begin"
  <2>1. Begun(p, i)
    BY <1>3 DEF PaneInv, Begun
  <2>2. p.load[i].at = "stream" /\ ~Superseded(p, i)
    BY <1>3, <2>1, StreamFacts DEF Current, IsS3, Superseded, Count
  <2>3. \A r \in p'.rows : r \in p.rows \/ r[1] = p.load[i].e
    BY <1>1 DEF Feeds
  <2> QED BY <1>1, <2>2, <2>3 DEF PaneInv, FromNewest, Loads
<1> QED BY <1>2, <1>3

LEMMA PagesGood ==
    ASSUME PaneInv, NEW i \in DOMAIN p.load, Page(i) \/ PageFails(i)
    PROVE  PaneInv' /\ FromNewest
<1>1. CASE Page(i)
  <2> DEFINE n == p.load[i].sent + 1
             walk == IF n = Pages(p.load[i].e) THEN "over" ELSE p.load[i].walk
             l == [p.load[i] EXCEPT !.sent = n, !.walk = walk]
             g == [p EXCEPT !.load[i] = l]
  <2>1. p' = Deliver(g, i, n)
    <3> DEFINE s == [p.load[i] EXCEPT !.sent = n]
               h == [p EXCEPT !.load[i].sent = n, !.load[i].walk =
                                   IF n = Pages(p.load[i].e) THEN "over" ELSE @]
    <3>1. p' = Deliver(h, i, n)
      BY <1>1 DEF Page
    <3>2. h = [p EXCEPT !.load = [[p.load EXCEPT ![i] = s] EXCEPT ![i] = l]]
      BY DEF PaneInv, Good, View, PaneFields, IsLoad, LoadFields
    <3>3. [[p.load EXCEPT ![i] = s] EXCEPT ![i] = l] = [p.load EXCEPT ![i] = l]
      OBVIOUS
    <3> QED BY <3>1, <3>2, <3>3
  <2>2. walk = "running" => p.load[i].walk = "running"
    OBVIOUS
  <2>3. IsLoad(p.load[i])
    BY DEF PaneInv, Good, View
  <2> HIDE DEF n, walk
  <2>4. /\ l = [f \in LoadFields |-> l[f]] /\ l.live = p.load[i].live
        /\ l.demand = p.load[i].demand /\ l.early = p.load[i].early
        /\ l.seq = p.load[i].seq /\ l.at = p.load[i].at /\ l.e = p.load[i].e
        /\ l.walk = walk
    BY <2>3 DEF IsLoad, LoadFields
  <2> HIDE DEF l
  <2>5. IsLoad(l)
    BY <2>3, <2>4 DEF IsLoad, IsS3
  <2>6. Only(g, p, i, l)
    BY <2>5, SetLoad DEF PaneInv, Good
  <2> HIDE DEF g
  <2>7. Good(g) /\ i \in DOMAIN g.load
    BY <2>2, <2>4, <2>6, Touched DEF PaneInv, Only
  <2>8. /\ g.rows = p.rows /\ g.load[i].e = p.load[i].e /\ g.load[i].at = p.load[i].at
        /\ g.load[i].live = p.load[i].live
    BY <2>4, <2>6 DEF Only
  <2> QED BY <2>1, <2>7, <2>8, DeliveredIsNew
<1>2. CASE PageFails(i)
  <2> DEFINE o == Over(p, i)
  <2>1. p' = Deliver(o, i, Error)
    BY <1>2 DEF PageFails
  <2>2. /\ Good(o) /\ i \in DOMAIN o.load /\ o.rows = p.rows
        /\ o.load[i].e = p.load[i].e /\ o.load[i].at = p.load[i].at
        /\ o.load[i].live = p.load[i].live
    BY OverGood DEF PaneInv
  <2> HIDE DEF o
  <2> QED BY <2>1, <2>2, DeliveredIsNew
<1> QED BY <1>1, <1>2

-----------------------------------------------------------------------------
LEMMA InitGood == Init => PaneInv
<1> SUFFICES ASSUME p = Closed PROVE Good(p)
  BY DEF Init, PaneInv
<1>1. /\ p = [f \in PaneFields |-> p[f]] /\ p.load = <<>> /\ p.s3 = 0 /\ p.token = 0
      /\ p.off = 0 /\ p.listed = FALSE
  BY DEF Closed, PaneFields
<1>2. <<>> \in Seq({}) /\ DOMAIN p.load = {}
  BY <1>1
<1>3. View(p)
  <2>0. p.load \in Seq({})
    BY <1>1, <1>2, Zenon
  <2>1. p.load \in Seq({}) /\ p.s3 \in Nat
    BY <1>1, <2>0
  <2>2. p.token \in {0} \cup DOMAIN p.load /\ p.off \in {0} \cup DOMAIN p.load
    BY <1>1
  <2>3. \A i \in DOMAIN p.load : IsLoad(p.load[i])
    BY <1>2
  <2> QED BY <1>1, <2>1, <2>2, <2>3 DEF View
<1>4. Slots(p)
  BY <1>2 DEF Slots
<1>5. OfBinding(p)
  BY <1>1, <1>2 DEF OfBinding, Stands
<1> QED BY <1>3, <1>4, <1>5 DEF Good

LEMMA OldOrDrives ==
    ASSUME NoNews PROVE FromNewest
  BY RowsFacts DEF NoNews, FromNewest

LEMMA PaneSteps ==
    ASSUME PaneInv, [Next]_vars
    PROVE  PaneInv' /\ FromNewest
<1>1. ASSUME NEW e \in Places, Open(e) \/ Show(e) \/ GotoHit(e) PROVE PaneInv' /\ NoNews
  BY <1>1, OpenGood, BindsGood, GotoHitGood
<1>2. CASE GoBack \/ GoForward
  BY <1>2, HistoryGood, OldOrDrives
<1>3. CASE Up
  BY <1>3, UpGood, OldOrDrives
<1>4. CASE Refresh
  BY <1>4, RefreshGood, OldOrDrives
<1>5. CASE \E src \in Sources : Rebind(src)
  BY <1>5, BindsGood, OldOrDrives
<1>6. CASE Reset
  BY <1>6, ResetGood, OldOrDrives
<1>7. CASE ExtendS3
  BY <1>7, ExtendGood, OldOrDrives
<1>8. ASSUME NEW i \in DOMAIN p.load, Answer(i) PROVE PaneInv' /\ FromNewest
  BY <1>8, PathReplyGood, StartFailsGood, ListReplyGood, ListFailsGood,
     BeginReplyGood, BeginFailsGood, PagesGood, OldOrDrives DEF Answer
<1>9. CASE UNCHANGED vars
  BY <1>9 DEF vars, PaneInv, FromNewest
<1> QED BY <1>1, <1>2, <1>3, <1>4, <1>5, <1>6, <1>7, <1>8, <1>9, OldOrDrives DEF Next

LEMMA PaneInvariant == Spec => []PaneInv
  BY InitGood, PaneSteps, PTL DEF Spec

(* The backend pages a folder only for a pane that listens and can cancel   *)
(* it, or that will learn the token and judge it then: neither a rebind in  *)
(* the middle of a page, nor a superseded begin, nor a failed one leaves a  *)
(* walk behind (cancelS3Stream, navigateS3, extendS3 of local.js).          *)
THEOREM PaneWalksCanBeCanceled == Spec => []NoLeakedWalk
<1>1. PaneInv => NoLeakedWalk
  <2> SUFFICES ASSUME PaneInv, NEW i \in DOMAIN p.load, p.load[i].walk = "running",
                      p.load[i].at # "begin"
               PROVE  p.token = i /\ p.off = i /\ p.load[i].live /\ ~Superseded(p, i)
    BY DEF NoLeakedWalk, Loads
  <2>1. InSlot(p, i)
    BY DEF PaneInv, Good, Slots
  <2>2. p.token = i /\ p.off = i /\ p.load[i].live /\ Current(p, i)
    BY <2>1 DEF InSlot
  <2> QED BY <2>2 DEF Current, Superseded, Count, IsS3
<1> QED BY PaneInvariant, <1>1, PTL

(* Once anything has landed for a binding, S3 rows are of that binding: an  *)
(* S3 listing that answers late lands nowhere, because binding takes a new  *)
(* s3Seq (bindTo of local.js).                                              *)
THEOREM S3RowsAreOfTheBinding == Spec => []S3RowsAreBound
<1>1. PaneInv => S3RowsAreBound
  BY DEF PaneInv, Good, OfBinding, Stands, S3RowsAreBound
<1> QED BY PaneInvariant, <1>1, PTL

(* Drops, new folders and refreshes act on the bucket and directory that    *)
(* the rows on the screen were listed from, while these are of the binding. *)
THEOREM PaneActsOnWhatItShows == Spec => []ActsOnShown
<1>1. PaneInv => ActsOnShown
  BY DEF PaneInv, Good, OfBinding, Stands, Foreign, ActsOnShown
<1> QED BY PaneInvariant, <1>1, PTL

(* What a step puts on the screen is the drives or comes from the listing   *)
(* of the newest count, which is still under way: an answer that navSeq or  *)
(* s3Seq has left behind, and a page after the end of its stream, put       *)
(* nothing there (navigate, navigateRemote, onPage of local.js).            *)
THEOREM PaneShowsTheNewest == Spec => NewestOfItsKind
  BY PaneInvariant, PaneSteps, PTL DEF Spec, NewestOfItsKind

-----------------------------------------------------------------------------
(* The types of the pane.  A walk under way has a page to come, a load that *)
(* waits for a path has no count, a load has no count that its kind has not *)
(* given out, and every count of navSeq was taken by some load.             *)

AllRows == UNION {Rows(e) : e \in Entries}
Load == [at : Paths \cup {"lists", "begin", "stream", "gone", "failed"}, e : Entries,
         seq : Nat, demand : BOOLEAN, walk : {"none", "running", "over"}, from : Nat,
         sent : Nat, live : BOOLEAN, early : Seq(Nat)]
Panes == [bound : BOOLEAN, src : Sources, bucket : Buckets, dir : Dirs, listed : BOOLEAN,
          hist : Seq(Entries), futr : Seq(Entries), nav : Nat, s3 : Nat, token : Nat,
          off : Nat, rows : SUBSET AllRows, grid : {"folded", "open", "done"},
          target : Nat, need : BOOLEAN, wired : BOOLEAN, skel : BOOLEAN,
          load : Seq(Load), last : Nat]

Bounded(l) ==
    /\ l.from <= l.sent /\ l.sent <= Pages(l.e)
    /\ \A n \in DOMAIN l.early : l.early[n] <= Pages(l.e)
    /\ l.walk = "running" => l.sent < Pages(l.e)
    /\ l.at \in Paths => l.seq = 0
Fits(h) ==
    /\ h \in Panes /\ IsFiniteSet(h.rows)
    /\ h.token \in {0} \cup DOMAIN h.load /\ h.off \in {0} \cup DOMAIN h.load
    /\ h.last \in {0} \cup DOMAIN h.load
    /\ \A i \in DOMAIN h.load : Bounded(h.load[i]) /\ h.load[i].seq <= Count(h, i)

(* A fitting pane of the loads of h, which keep what they are about and the *)
(* count they took.                                                         *)
Stays(g, h) ==
    /\ Fits(g) /\ DOMAIN g.load = DOMAIN h.load /\ g.nav = h.nav /\ h.s3 <= g.s3
    /\ \A j \in DOMAIN h.load : g.load[j].e = h.load[j].e /\ g.load[j].seq = h.load[j].seq

LEMMA PlaceFacts ==
    /\ Places \subseteq Entries /\ Drives \in Entries /\ HomeDir \in Dirs
    /\ NoBucket \in Buckets /\ <<>> \in Dirs /\ Local \in Sources
    /\ \A src \in DOMAIN BucketOf : BucketOf[src] \in Buckets
    /\ \A src \in Sources, b \in Buckets, d \in Dirs : Place(src, b, d) \in Entries
    /\ \A e \in Entries : /\ e.src \in Sources /\ e.bucket \in Buckets /\ e.dir \in Dirs
                          /\ e = Place(e.src, e.bucket, e.dir)
    /\ \A d \in Dirs : d # <<>> => Front(d) \in Dirs
<1>1. Places \subseteq Entries /\ HomeDir \in Dirs
  BY SidePaneAssumption
<1>2. NoBucket \in Buckets /\ <<>> \in Dirs /\ Local \in Sources
      /\ \A src \in DOMAIN BucketOf : BucketOf[src] \in Buckets
  BY DEF Buckets, Dirs, Sources
<1>3. \A src \in Sources, b \in Buckets, d \in Dirs : Place(src, b, d) \in Entries
  BY DEF Place, Entries
<1>4. \A e \in Entries : /\ e.src \in Sources /\ e.bucket \in Buckets /\ e.dir \in Dirs
                         /\ e = Place(e.src, e.bucket, e.dir)
  BY DEF Place, Entries
<1>5. ASSUME NEW d \in Dirs, d # <<>> PROVE Front(d) \in Dirs
  BY <1>5 DEF Dirs, Front
<1> QED BY <1>1, <1>2, <1>3, <1>4, <1>5 DEF Drives

LEMMA PagesFacts ==
    ASSUME NEW e \in Entries
    PROVE  /\ Pages(e) \in Nat \ {0} /\ Rows(e) \subseteq AllRows /\ IsFiniteSet(Rows(e))
           /\ \A n \in 1..Pages(e) : <<e, n>> \in AllRows
<1>1. Pages(e) \in Nat \ {0}
  BY SidePaneAssumption DEF Pages
<1>2. Rows(e) \subseteq AllRows
  BY DEF AllRows
<1>3. \A n \in 1..Pages(e) : <<e, n>> \in Rows(e)
  BY DEF Rows
<1>4. IsFiniteSet(Rows(e))
  <2> DEFINE S == 1..Pages(e)
  <2>1. IsFiniteSet(S)
    BY <1>1, FS_Interval
  <2> DEFINE f == [n \in S |-> <<e, n>>]
  <2>2. f \in [S -> Rows(e)] /\ \A r \in Rows(e) : \E n \in S : f[n] = r
    BY DEF Rows
  <2> HIDE DEF S
  <2>3. f \in Surjection(S, Rows(e))
    BY <2>2, Fun_IsSurj
  <2> QED BY <2>1, <2>3, FS_Surjection
<1> QED BY <1>1, <1>2, <1>3, <1>4

LEMMA FitsFields ==
    ASSUME NEW h, Fits(h)
    PROVE  /\ h \in Panes /\ h = [f \in PaneFields |-> h[f]] /\ h.load \in Seq(Load)
           /\ Len(h.load) \in Nat /\ DOMAIN h.load = 1..Len(h.load)
           /\ IsFiniteSet(h.rows) /\ h.nav \in Nat /\ h.s3 \in Nat /\ h.src \in Sources
           /\ h.bucket \in Buckets /\ h.dir \in Dirs /\ Snapshot(h) \in Entries
<1>1. h \in Panes /\ IsFiniteSet(h.rows)
  BY DEF Fits
<1>2. h = [f \in PaneFields |-> h[f]]
  BY <1>1 DEF Panes, PaneFields
<1>3. h.load \in Seq(Load) /\ h.nav \in Nat /\ h.s3 \in Nat /\ h.src \in Sources
      /\ h.bucket \in Buckets /\ h.dir \in Dirs
  BY <1>1 DEF Panes
<1>4. Len(h.load) \in Nat /\ DOMAIN h.load = 1..Len(h.load)
  BY <1>3
<1>5. Snapshot(h) \in Entries
  BY <1>3, PlaceFacts DEF Snapshot
<1> QED BY <1>1, <1>2, <1>3, <1>4, <1>5

LEMMA FitsLoad ==
    ASSUME NEW h, Fits(h), NEW i \in DOMAIN h.load
    PROVE  /\ i \in Nat /\ i # 0 /\ h.load[i] \in Load /\ Bounded(h.load[i]) /\ h.load[i].e \in Entries
           /\ h.load[i].seq <= Count(h, i) /\ h.load[i].seq \in Nat /\ h.load[i].sent \in Nat
           /\ h.load[i] = [f \in LoadFields |-> h.load[i][f]]
<1>1. h.load \in Seq(Load) /\ i \in 1..Len(h.load)
  BY FitsFields
<1>2. h.load[i] \in Load
  BY <1>1
<1>3. /\ h.load[i].e \in Entries /\ h.load[i].seq \in Nat /\ h.load[i].sent \in Nat
      /\ h.load[i] = [f \in LoadFields |-> h.load[i][f]]
  BY <1>2 DEF Load, LoadFields
<1> QED BY <1>1, <1>2, <1>3 DEF Fits

LEMMA StaysTwice ==
    ASSUME NEW h, NEW g, NEW k, h.s3 \in Nat, Stays(g, h), Stays(k, g)
    PROVE  Stays(k, h)
<1>1. g.s3 \in Nat /\ k.s3 \in Nat
  BY FitsFields DEF Stays
<1> QED BY <1>1 DEF Stays

LEMMA StaysFits ==
    ASSUME NEW h, NEW g, Stays(g, h)
    PROVE  /\ Fits(g) /\ DOMAIN g.load = DOMAIN h.load /\ g.nav = h.nav /\ h.s3 <= g.s3
           /\ \A j \in DOMAIN h.load : g.load[j].e = h.load[j].e /\ g.load[j].seq = h.load[j].seq
  BY DEF Stays

LEMMA StaysItself ==
    ASSUME NEW h, Fits(h)
    PROVE  Stays(h, h)
  BY FitsFields DEF Stays

(* Another pane of the same loads. *)
LEMMA FieldsStay ==
    ASSUME NEW h, Fits(h), NEW g \in Panes, g.load = h.load, g.nav = h.nav, h.s3 <= g.s3,
           IsFiniteSet(g.rows), g.token \in {0} \cup DOMAIN h.load,
           g.off \in {0} \cup DOMAIN h.load, g.last \in {0} \cup DOMAIN h.load
    PROVE  Stays(g, h)
<1>1. \A i \in DOMAIN h.load : Bounded(g.load[i]) /\ g.load[i].seq <= Count(g, i)
  <2> TAKE i \in DOMAIN h.load
  <2>1. /\ Bounded(h.load[i]) /\ h.load[i].seq <= Count(h, i) /\ h.load[i].seq \in Nat
    BY FitsLoad
  <2>2. h.s3 \in Nat /\ h.nav \in Nat /\ g.s3 \in Nat
    BY FitsFields DEF Panes
  <2>3. g.load[i].seq <= Count(g, i)
    BY <2>1, <2>2 DEF Count
  <2> QED BY <2>1, <2>3
<1> QED BY <1>1 DEF Stays, Fits

LEMMA LoadStays ==
    ASSUME NEW h, Fits(h), NEW i \in DOMAIN h.load, NEW l \in Load, Bounded(l),
           l.e = h.load[i].e, l.seq = h.load[i].seq
    PROVE  Stays([h EXCEPT !.load[i] = l], h) /\ [h EXCEPT !.load[i] = l].load[i] = l
<1> DEFINE s == [h.load EXCEPT ![i] = l]  g == [h EXCEPT !.load = s]
<1>1. h.load \in Seq(Load) /\ h \in Panes /\ h.s3 \in Nat
  BY FitsFields
<1>2. /\ s \in Seq(Load) /\ Len(s) = Len(h.load) /\ DOMAIN s = DOMAIN h.load
      /\ s[i] = l /\ \A j \in DOMAIN h.load : j # i => s[j] = h.load[j]
  BY <1>1
<1> HIDE DEF s
<1>3. g \in Panes /\ g.load = s
  BY <1>1, <1>2 DEF Panes
<1>4. /\ g.nav = h.nav /\ g.s3 = h.s3 /\ g.token = h.token /\ g.off = h.off
      /\ g.last = h.last /\ g.rows = h.rows
  BY <1>1 DEF Panes
<1> HIDE DEF g
<1>5. ASSUME NEW j \in DOMAIN h.load
      PROVE  Bounded(g.load[j]) /\ g.load[j].seq <= Count(g, j)
  <2>1. Bounded(h.load[j]) /\ h.load[j].seq <= Count(h, j)
    BY FitsLoad
  <2>2. g.load[j].e = h.load[j].e /\ g.load[j].seq = h.load[j].seq
    BY <1>2, <1>3
  <2>3. Count(g, j) = Count(h, j)
    BY <1>4, <2>2 DEF Count
  <2> QED BY <1>2, <1>3, <2>1, <2>2, <2>3
<1>6. Fits(g)
  BY <1>2, <1>3, <1>4, <1>5 DEF Fits
<1>7. [h EXCEPT !.load[i] = l] = g
  BY DEF g, s
<1>8. \A j \in DOMAIN h.load : g.load[j].e = h.load[j].e /\ g.load[j].seq = h.load[j].seq
  BY <1>2, <1>3
<1>9. Stays(g, h)
  BY <1>1, <1>2, <1>3, <1>4, <1>6, <1>8 DEF Stays
<1> QED BY <1>2, <1>3, <1>7, <1>9

LEMMA OverStays ==
    ASSUME NEW h, Fits(h), NEW i \in DOMAIN h.load
    PROVE  Stays(Over(h, i), h)
<1> DEFINE w == IF h.load[i].walk = "running" THEN "over" ELSE h.load[i].walk
           l == [h.load[i] EXCEPT !.walk = w]
<1>1. h.load[i] \in Load /\ Bounded(h.load[i])
  BY FitsLoad
<1>2. w \in {"none", "running", "over"} /\ w # "running"
  BY <1>1 DEF Load
<1> HIDE DEF w
<1>3. /\ l \in Load /\ l.e = h.load[i].e /\ l.seq = h.load[i].seq /\ Bounded(l)
  BY <1>1, <1>2 DEF Load, Bounded
<1>4. Over(h, i) = [h EXCEPT !.load[i] = l]
  BY DEF Over, w
<1> HIDE DEF l
<1> QED BY <1>3, <1>4, LoadStays

LEMMA OffStays ==
    ASSUME NEW h, Fits(h), NEW i \in DOMAIN h.load
    PROVE  Stays(Off(h, i), h)
<1> DEFINE e == <<>>  l == [h.load[i] EXCEPT !.live = FALSE, !.early = e]
<1>1. h.load[i] \in Load /\ Bounded(h.load[i]) /\ h \in Panes
  BY FitsLoad DEF Fits
<1>2. e \in Seq(Nat) /\ DOMAIN e = {}
  OBVIOUS
<1>3. Off(h, i) = [h EXCEPT !.load[i] = l]
  BY DEF Off
<1> HIDE DEF e
<1>4. /\ l \in Load /\ l.e = h.load[i].e /\ l.seq = h.load[i].seq /\ Bounded(l)
  BY <1>1, <1>2 DEF Load, Bounded
<1> HIDE DEF l
<1> QED BY <1>3, <1>4, LoadStays

LEMMA LeaveStays ==
    ASSUME NEW h, Fits(h), NEW i \in DOMAIN h.load, NEW how \in {"gone", "failed"}
    PROVE  Stays(Leave(h, i, how), h)
<1> DEFINE l == [h.load[i] EXCEPT !.at = how]
<1>1. h.load[i] \in Load /\ Bounded(h.load[i])
  BY FitsLoad
<1>2. /\ l \in Load /\ l.e = h.load[i].e /\ l.seq = h.load[i].seq /\ Bounded(l)
  BY <1>1 DEF Load, Bounded, Paths
<1>3. Leave(h, i, how) = [h EXCEPT !.load[i] = l]
  BY DEF Leave
<1> HIDE DEF l
<1> QED BY <1>2, <1>3, LoadStays

LEMMA CancelStays ==
    ASSUME NEW h, Fits(h)
    PROVE  Stays(CancelS3Stream(h), h)
<1> DEFINE h1 == IF h.token = 0 THEN h ELSE Over(h, h.token)
           h2 == IF h.off = 0 THEN h1 ELSE Off(h1, h.off)
           h3 == IF h.token = 0 THEN h2 ELSE Leave(h2, h.token, "gone")
           n  == h3.s3 + 1
           g  == [h3 EXCEPT !.s3 = n, !.token = 0, !.off = 0]
<1>1. h.token \in {0} \cup DOMAIN h.load /\ h.off \in {0} \cup DOMAIN h.load /\ h.s3 \in Nat
  BY FitsFields DEF Fits
<1>2. CancelS3Stream(h) = g
  BY DEF CancelS3Stream
<1>3. Stays(h1, h)
  BY <1>1, OverStays, StaysItself
<1> HIDE DEF h1
<1>4. Stays(h2, h1) /\ h1.s3 \in Nat
  <2>1. Fits(h1) /\ DOMAIN h1.load = DOMAIN h.load
    BY <1>3, StaysFits
  <2> QED BY <1>1, <2>1, OffStays, StaysItself, FitsFields
<1> HIDE DEF h2
<1>5. Stays(h2, h)
  BY <1>1, <1>3, <1>4, StaysTwice
<1>6. Stays(h3, h2) /\ h2.s3 \in Nat
  <2>1. Fits(h2) /\ DOMAIN h2.load = DOMAIN h.load
    BY <1>5, StaysFits
  <2> QED BY <1>1, <2>1, LeaveStays, StaysItself, FitsFields
<1> HIDE DEF h3
<1>7. Fits(h3) /\ h3 \in Panes /\ n \in Nat /\ h3.s3 <= n /\ h3.last \in {0} \cup DOMAIN h3.load
      /\ IsFiniteSet(h3.rows)
  <2>1. Fits(h3) /\ h3.s3 \in Nat
    BY <1>6, StaysFits, FitsFields
  <2> QED BY <2>1 DEF Fits
<1> HIDE DEF n
<1>8. /\ g \in Panes /\ g.load = h3.load /\ g.nav = h3.nav /\ g.s3 = n /\ g.token = 0
      /\ g.off = 0 /\ g.last = h3.last /\ g.rows = h3.rows
  BY <1>7 DEF Panes
<1> HIDE DEF g
<1>9. Stays(g, h3)
  BY <1>7, <1>8, FieldsStay
<1>10. Stays(g, h2)
  BY <1>6, <1>9, StaysTwice
<1> QED BY <1>1, <1>2, <1>5, <1>10, StaysTwice

LEMMA BindStays ==
    ASSUME NEW h, Fits(h), NEW src \in Sources
    PROVE  Stays(BindTo(h, src), h) /\ BindTo(h, src).src = src
<1> DEFINE c == CancelS3Stream(h)
           bucket == CASE Kind(src) = "s3" -> BucketOf[src]
                       [] src = Local -> NoBucket
                       [] OTHER -> h.bucket
           d == <<>>
           g == [c EXCEPT !.src = src, !.bucket = bucket, !.dir = d, !.bound = TRUE, !.listed = FALSE]
<1>1. BindTo(h, src) = g
  BY DEF BindTo
<1>2. Stays(c, h) /\ h.s3 \in Nat
  BY CancelStays, FitsFields
<1> HIDE DEF c
<1>3. Fits(c) /\ c \in Panes /\ c.s3 \in Nat /\ IsFiniteSet(c.rows)
      /\ c.token \in {0} \cup DOMAIN c.load /\ c.off \in {0} \cup DOMAIN c.load
      /\ c.last \in {0} \cup DOMAIN c.load
  BY <1>2, StaysFits, FitsFields DEF Fits
<1>4. bucket \in Buckets /\ d \in Dirs
  <2>1. Kind(src) = "s3" => src \in DOMAIN BucketOf
    BY DEF Kind
  <2>2. h.bucket \in Buckets
    BY FitsFields
  <2> QED BY <2>1, <2>2, PlaceFacts
<1> HIDE DEF bucket, d
<1>5. /\ g \in Panes /\ g.load = c.load /\ g.nav = c.nav /\ g.s3 = c.s3 /\ g.token = c.token
      /\ g.off = c.off /\ g.last = c.last /\ g.rows = c.rows /\ g.src = src
  BY <1>3, <1>4 DEF Panes
<1> HIDE DEF g
<1>6. Stays(g, c)
  BY <1>3, <1>5, FieldsStay
<1> QED BY <1>1, <1>2, <1>5, <1>6, StaysTwice

LEMMA SettledStays ==
    ASSUME NEW h, Fits(h), NEW rows \in SUBSET AllRows, IsFiniteSet(rows)
    PROVE  Stays(Settled(h, rows), h)
<1> DEFINE g == Settled(h, rows)
<1>1. h \in Panes /\ 0 \in Nat
  BY DEF Fits
<1>2. /\ g \in Panes /\ g.load = h.load /\ g.nav = h.nav /\ g.s3 = h.s3 /\ g.token = h.token
      /\ g.off = h.off /\ g.last = h.last /\ g.rows = rows
  BY <1>1 DEF Panes, Settled
<1>3. h.s3 \in Nat
  BY FitsFields
<1> HIDE DEF g
<1>4. Stays(g, h)
  BY <1>2, <1>3, FieldsStay DEF Fits
<1> QED BY <1>4 DEF g

LEMMA ListFailStays ==
    ASSUME NEW h, Fits(h)
    PROVE  Stays(ListFail(h), h)
<1> DEFINE g == ListFail(h)
<1>1. h \in Panes
  BY DEF Fits
<1>2. /\ g \in Panes /\ g.load = h.load /\ g.nav = h.nav /\ g.s3 = h.s3 /\ g.token = h.token
      /\ g.off = h.off /\ g.last = h.last /\ g.rows = h.rows
  BY <1>1 DEF Panes, ListFail
<1>3. h.s3 \in Nat
  BY FitsFields
<1> HIDE DEF g
<1>4. Stays(g, h)
  BY <1>2, <1>3, FieldsStay DEF Fits
<1> QED BY <1>4 DEF g

LEMMA GridStays ==
    ASSUME NEW h, Fits(h), NEW session \in {"folded", "open", "done"}, NEW need \in BOOLEAN
    PROVE  Stays([h EXCEPT !.need = need, !.grid = session], h)
<1> DEFINE g == [h EXCEPT !.need = need, !.grid = session]
<1>1. h \in Panes
  BY DEF Fits
<1>2. /\ g \in Panes /\ g.load = h.load /\ g.nav = h.nav /\ g.s3 = h.s3 /\ g.token = h.token
      /\ g.off = h.off /\ g.last = h.last /\ g.rows = h.rows
  BY <1>1 DEF Panes
<1>3. h.s3 \in Nat
  BY FitsFields
<1> HIDE DEF g
<1>4. Stays(g, h)
  BY <1>2, <1>3, FieldsStay DEF Fits
<1> QED BY <1>4 DEF g

LEMMA HistoryStays ==
    ASSUME NEW h, Fits(h), NEW hist \in Seq(Entries), NEW futr \in Seq(Entries)
    PROVE  /\ Stays([h EXCEPT !.hist = hist, !.futr = futr], h)
           /\ [h EXCEPT !.hist = hist, !.futr = futr].src = h.src
<1> DEFINE g == [h EXCEPT !.hist = hist, !.futr = futr]
<1>1. h \in Panes
  BY DEF Fits
<1>2. /\ g \in Panes /\ g.load = h.load /\ g.nav = h.nav /\ g.s3 = h.s3 /\ g.token = h.token
      /\ g.off = h.off /\ g.last = h.last /\ g.rows = h.rows /\ g.src = h.src
  BY <1>1 DEF Panes
<1>3. h.s3 \in Nat
  BY FitsFields
<1> HIDE DEF g
<1>4. Stays(g, h)
  BY <1>2, <1>3, FieldsStay DEF Fits
<1> QED BY <1>2, <1>4 DEF g

-----------------------------------------------------------------------------
(* Pages reach a load. *)
LEMMA SeatStays ==
    ASSUME NEW h, Fits(h), NEW i \in DOMAIN h.load, NEW n \in 1..Pages(h.load[i].e)
    PROVE  Stays(Seat(h, i, n), h)
<1> DEFINE e    == h.load[i].e
           done == n = Pages(e)
           room == Cardinality(h.rows) < h.target
           rows == IF room \/ done THEN h.rows \cup {<<e, n>>} ELSE h.rows
           h1   == [h EXCEPT !.rows = rows]
           h2   == IF h.load[i].demand THEN h1 ELSE [h1 EXCEPT !.skel = FALSE, !.listed = TRUE]
           c    == CancelS3Stream(h2)
           session == IF done /\ c.grid = "open" THEN "done" ELSE c.grid
           k    == [c EXCEPT !.need = FALSE, !.grid = session]
<1>1. h \in Panes /\ h.s3 \in Nat /\ IsFiniteSet(h.rows) /\ e \in Entries
  BY FitsFields, FitsLoad
<1>2. Seat(h, i, n) \in {h2, k}
  BY DEF Seat
<1>3. rows \in SUBSET AllRows /\ IsFiniteSet(rows)
  <2>1. <<e, n>> \in AllRows
    BY <1>1, PagesFacts
  <2>2. IsFiniteSet(h.rows \cup {<<e, n>>})
    BY <1>1, FS_AddElement
  <2>3. h.rows \in SUBSET AllRows
    BY <1>1 DEF Panes
  <2> HIDE DEF e, room, done
  <2> QED BY <1>1, <2>1, <2>2, <2>3
<1> HIDE DEF rows, done, room
<1>4. /\ h1 \in Panes /\ h1.load = h.load /\ h1.nav = h.nav /\ h1.s3 = h.s3
      /\ h1.token = h.token /\ h1.off = h.off /\ h1.last = h.last /\ h1.rows = rows
  BY <1>1, <1>3 DEF Panes
<1> HIDE DEF h1
<1>5. /\ h2 \in Panes /\ h2.load = h.load /\ h2.nav = h.nav /\ h2.s3 = h.s3
      /\ h2.token = h.token /\ h2.off = h.off /\ h2.last = h.last /\ h2.rows = rows
  <2> DEFINE g == [h1 EXCEPT !.skel = FALSE, !.listed = TRUE]
  <2>1. /\ g \in Panes /\ g.load = h1.load /\ g.nav = h1.nav /\ g.s3 = h1.s3
        /\ g.token = h1.token /\ g.off = h1.off /\ g.last = h1.last /\ g.rows = h1.rows
    BY <1>4 DEF Panes
  <2>2. h2 \in {h1, g}
    OBVIOUS
  <2> HIDE DEF g, h2
  <2> QED BY <1>4, <2>1, <2>2
<1> HIDE DEF h2
<1>6. Stays(h2, h)
  BY <1>1, <1>3, <1>5, FieldsStay DEF Fits
<1>7. Stays(c, h2)
  BY <1>6, StaysFits, CancelStays
<1> HIDE DEF c
<1>8. session \in {"folded", "open", "done"}
  <2>1. c \in Panes
    BY <1>7, StaysFits, FitsFields
  <2> QED BY <2>1 DEF Panes
<1> HIDE DEF session
<1>9. Stays(k, c)
  BY <1>7, <1>8, StaysFits, GridStays
<1>10. Stays(k, h)
  BY <1>1, <1>5, <1>6, <1>7, <1>9, StaysTwice
<1> QED BY <1>2, <1>6, <1>10

LEMMA HandleStays ==
    ASSUME NEW h, Fits(h), NEW i \in DOMAIN h.load, NEW n \in 0..Pages(h.load[i].e)
    PROVE  Stays(Handle(h, i, n), h)
<1> DEFINE f == ListFail(h)  c == CancelS3Stream(f)  k == [c EXCEPT !.need = FALSE]
           g == Leave(k, i, "failed")
<1>1. h.s3 \in Nat /\ Pages(h.load[i].e) \in Nat
  BY FitsFields, FitsLoad, PagesFacts
<1>2. Handle(h, i, n) \in {h, g, Seat(h, i, n)} /\ (n = Error => Handle(h, i, n) \in {h, g})
  BY DEF Handle
<1>3. Stays(f, h) /\ f.s3 \in Nat
  <2>1. Stays(f, h)
    BY ListFailStays
  <2> QED BY <2>1, StaysFits, FitsFields
<1> HIDE DEF f
<1>4. Stays(c, f) /\ c.s3 \in Nat
  <2>1. Stays(c, f)
    BY <1>3, StaysFits, CancelStays
  <2> QED BY <2>1, StaysFits, FitsFields
<1> HIDE DEF c
<1>5. Stays(k, c)
  <2>1. Fits(c) /\ c \in Panes
    BY <1>4, StaysFits, FitsFields
  <2>2. c.grid \in {"folded", "open", "done"}
    BY <2>1 DEF Panes
  <2>3. Stays([c EXCEPT !.need = FALSE, !.grid = c.grid], c)
    BY <2>1, <2>2, GridStays
  <2>4. k = [c EXCEPT !.need = FALSE, !.grid = c.grid]
    BY <2>1 DEF Panes
  <2> QED BY <2>3, <2>4
<1>6. Stays(k, h)
  BY <1>1, <1>3, <1>4, <1>5, StaysTwice
<1> HIDE DEF k
<1>7. Stays(g, k)
  BY <1>6, StaysFits, LeaveStays
<1>8. Stays(g, h)
  BY <1>1, <1>6, <1>7, StaysTwice
<1> HIDE DEF g
<1>9. n # Error => n \in 1..Pages(h.load[i].e)
  BY <1>1 DEF Error
<1> QED BY <1>2, <1>8, <1>9, SeatStays, StaysItself

LEMMA FlushStays ==
    ASSUME NEW h, Fits(h), NEW i \in DOMAIN h.load, NEW pages \in Seq(Nat),
           \A n \in DOMAIN pages : pages[n] <= Pages(h.load[i].e)
    PROVE  Stays(Flush(h, i, pages), h)
<1> DEFINE m == Len(pages)
           f == CHOOSE f : Replays(f, h, i, pages, m)
           S == {k \in Nat : k \in 0..m /\ ~Stays(f[k], h)}
<1>1. m \in Nat /\ m \in 0..m
  OBVIOUS
<1>2. Flush(h, i, pages) = f[m]
  BY DEF Flush, Replays, Replayed
<1>3. Replays(f, h, i, pages, m)
  BY <1>1, ReplayExists
<1>4. ASSUME NEW k \in 1..m PROVE pages[k] \in 0..Pages(h.load[i].e)
  <2>1. Pages(h.load[i].e) \in Nat
    BY FitsLoad, PagesFacts
  <2>2. pages[k] \in Nat /\ k \in DOMAIN pages
    OBVIOUS
  <2>3. pages[k] <= Pages(h.load[i].e)
    BY <2>2
  <2> QED BY <2>1, <2>2, <2>3
<1> HIDE DEF f, m
<1>5. \A n \in 0..m : f[n] = IF n = 0 THEN h ELSE Replayed(f[n - 1], i, pages[n])
  BY <1>3 DEF Replays
<1>6. ASSUME S # {} PROVE FALSE
  <2>1. PICK k \in S : k = 0 \/ (k - 1 \in Nat /\ k - 1 \notin S)
    BY <1>6, LeastOf
  <2>2. k \in 0..m /\ ~Stays(f[k], h)
    BY <2>1
  <2>3. CASE k = 0
    BY <1>5, <2>2, <2>3, StaysItself
  <2>4. CASE k # 0
    <3> DEFINE g == f[k - 1]
    <3>1. k - 1 \in 0..m /\ k - 1 \notin S /\ k \in 1..m
      BY <1>1, <2>1, <2>2, <2>4
    <3>2. Stays(g, h) /\ h.s3 \in Nat
      BY <3>1, FitsFields
    <3>3. f[k] = Replayed(g, i, pages[k])
      BY <1>5, <2>2, <2>4
    <3> HIDE DEF g
    <3>4. Fits(g) /\ i \in DOMAIN g.load /\ g.load[i].e = h.load[i].e
      BY <3>2, StaysFits
    <3>5. Stays(Handle(g, i, pages[k]), g)
      BY <1>4, <3>1, <3>4, HandleStays
    <3>6. Stays(f[k], h)
      BY <3>2, <3>3, <3>5, StaysTwice DEF Replayed
    <3> QED BY <2>2, <3>6
  <2> QED BY <2>3, <2>4
<1> QED BY <1>1, <1>2, <1>6

LEMMA DeliverStays ==
    ASSUME NEW h, Fits(h), NEW i \in DOMAIN h.load, NEW n \in 0..Pages(h.load[i].e)
    PROVE  Stays(Deliver(h, i, n), h)
<1> DEFINE e == Append(h.load[i].early, n)
           l == [h.load[i] EXCEPT !.early = e]
           k == [h EXCEPT !.load[i] = l]
<1>1. h.load[i] \in Load /\ Bounded(h.load[i]) /\ h.load[i].early \in Seq(Nat)
      /\ Pages(h.load[i].e) \in Nat /\ n \in Nat /\ n <= Pages(h.load[i].e)
  <2>1. h.load[i] \in Load /\ Bounded(h.load[i]) /\ h.load[i].e \in Entries
    BY FitsLoad
  <2>2. Pages(h.load[i].e) \in Nat
    BY <2>1, PagesFacts
  <2> QED BY <2>1, <2>2 DEF Load
<1>2. Deliver(h, i, n) \in {h, k, Handle(h, i, n)}
  BY DEF Deliver
<1>3. /\ e \in Seq(Nat)
      /\ \A m \in DOMAIN e : e[m] = n \/ (m \in DOMAIN h.load[i].early /\ e[m] = h.load[i].early[m])
  BY <1>1
<1> HIDE DEF e
<1>4. /\ l \in Load /\ Bounded(l) /\ l.e = h.load[i].e /\ l.seq = h.load[i].seq
  <2>1. /\ l \in Load /\ l.early = e /\ l.e = h.load[i].e /\ l.seq = h.load[i].seq
        /\ l.sent = h.load[i].sent /\ l.at = h.load[i].at
        /\ l.walk = h.load[i].walk /\ l.from = h.load[i].from
    BY <1>1, <1>3 DEF Load
  <2> HIDE DEF l
  <2>2. \A m \in DOMAIN l.early : l.early[m] <= Pages(l.e)
    BY <1>1, <1>3, <2>1 DEF Bounded
  <2> QED BY <1>1, <2>1, <2>2 DEF Bounded
<1> HIDE DEF l
<1>5. Stays(k, h)
  BY <1>4, LoadStays
<1> QED BY <1>2, <1>5, HandleStays, StaysItself

-----------------------------------------------------------------------------
(* Every count of navSeq was taken by some load, so there are as many loads *)
(* at least.                                                                *)
Counts(h) == \A n \in 1..h.nav : \E j \in DOMAIN h.load : ~IsS3(h.load[j]) /\ h.load[j].seq = n
Typed(h)  == Fits(h) /\ Counts(h)

LEMMA StaysTyped ==
    ASSUME NEW h, NEW g, Typed(h), Stays(g, h)
    PROVE  Typed(g)
<1>1. Counts(g)
  BY StaysFits DEF Typed, Counts, IsS3
<1> QED BY <1>1, StaysFits DEF Typed

LEMMA Upto ==
    ASSUME NEW n \in Nat
    PROVE  IsFiniteSet(1..n) /\ Cardinality(1..n) = n
<1>1. 1 \in Int /\ n \in Int
  OBVIOUS
<1>2. IsFiniteSet(1..n) /\ Cardinality(1..n) = IF 1 > n THEN 0 ELSE n - 1 + 1
  BY <1>1, FS_Interval
<1>3. n = IF 1 > n THEN 0 ELSE n - 1 + 1
  OBVIOUS
<1> QED BY <1>2, <1>3

LEMMA CountsFew ==
    ASSUME NEW h, Typed(h)
    PROVE  h.nav \in 0..Len(h.load)
<1> DEFINE S == DOMAIN h.load  T == 1..h.nav
           f == [j \in S |-> IF h.load[j].seq \in T THEN h.load[j].seq ELSE 1]
<1>1. S = 1..Len(h.load) /\ Len(h.load) \in Nat /\ h.nav \in Nat
  BY FitsFields DEF Typed
<1>2. CASE h.nav = 0
  BY <1>1, <1>2
<1>3. CASE h.nav # 0
  <2>1. f \in [S -> T]
    <3>1. 1 \in T
      BY <1>1, <1>3
    <3> HIDE DEF S, T
    <3> QED BY <3>1
  <2>2. \A n \in T : \E j \in S : f[j] = n
    <3> HIDE DEF S
    <3> QED BY DEF Typed, Counts, S
  <2>3. f \in Surjection(S, T)
    BY <2>1, <2>2, Fun_IsSurj
  <2>4. /\ IsFiniteSet(S) /\ Cardinality(S) = Len(h.load)
        /\ IsFiniteSet(T) /\ Cardinality(T) = h.nav
    BY <1>1, Upto
  <2>5. Cardinality(T) <= Cardinality(S)
    BY <2>3, <2>4, FS_Surjection
  <2> QED BY <1>1, <2>4, <2>5
<1> QED BY <1>2, <1>3

(* A load that had no count begins anew: with none, with the current count  *)
(* of S3, or with the next one of the other kinds.                          *)
Waits(h, i) == i \in DOMAIN h.load /\ h.load[i].seq = 0

LEMMA StaysWaits ==
    ASSUME NEW h, NEW g, Stays(g, h), NEW i, Typed(h), Waits(h, i)
    PROVE  Typed(g) /\ Waits(g, i) /\ Fits(g)
  BY StaysTyped, StaysFits DEF Waits

LEMMA PutTyped ==
    ASSUME NEW h, Typed(h), NEW i, Waits(h, i), NEW l \in Load, Bounded(l),
           NEW g \in Panes, g.load = [h.load EXCEPT ![i] = l], g.s3 = h.s3, IsFiniteSet(g.rows),
           g.token = h.token, g.off \in {h.off, i}, g.last \in {h.last, i},
           \/ g.nav = h.nav /\ (l.seq = 0 \/ (IsS3(l) /\ l.seq = h.s3))
           \/ g.nav = h.nav + 1 /\ l.seq = h.nav + 1 /\ ~IsS3(l)
    PROVE  Typed(g)
<1> DEFINE s == [h.load EXCEPT ![i] = l]
<1>1. /\ h.load \in Seq(Load) /\ h.nav \in Nat /\ h.s3 \in Nat /\ i \in DOMAIN h.load
      /\ h.load[i].seq = 0 /\ g.load = s
  BY FitsFields DEF Typed, Waits
<1>2. /\ DOMAIN s = DOMAIN h.load
      /\ s[i] = l /\ \A j \in DOMAIN h.load : j # i => s[j] = h.load[j]
  BY <1>1
<1> HIDE DEF s
<1>3. g.nav \in Nat /\ h.nav <= g.nav /\ g.s3 = h.s3
  BY <1>1
<1>4. ASSUME NEW j \in DOMAIN h.load
      PROVE  Bounded(g.load[j]) /\ g.load[j].seq <= Count(g, j)
  <2>1. CASE j = i
    <3>1. g.load[j] = l
      BY <1>1, <1>2, <2>1
    <3> QED BY <1>1, <1>3, <3>1 DEF Count, IsS3
  <2>2. CASE j # i
    <3>1. g.load[j] = h.load[j]
      BY <1>1, <1>2, <2>2
    <3>2. Bounded(h.load[j]) /\ h.load[j].seq <= Count(h, j) /\ h.load[j].seq \in Nat
      BY FitsLoad DEF Typed
    <3> QED BY <1>1, <1>3, <3>1, <3>2 DEF Count
  <2> QED BY <2>1, <2>2
<1>5. Fits(g)
  BY <1>1, <1>2, <1>4 DEF Typed, Fits
<1>6. ASSUME NEW n \in 1..g.nav
      PROVE  \E j \in DOMAIN g.load : ~IsS3(g.load[j]) /\ g.load[j].seq = n
  <2>1. CASE n \in 1..h.nav
    <3>1. PICK j \in DOMAIN h.load : ~IsS3(h.load[j]) /\ h.load[j].seq = n
      BY <2>1 DEF Typed, Counts
    <3>2. j # i
      BY <1>1, <2>1, <3>1
    <3> QED BY <1>1, <1>2, <3>1, <3>2
  <2>2. CASE n \notin 1..h.nav
    <3>1. g.nav = h.nav + 1 /\ n = h.nav + 1
      BY <1>1, <2>2
    <3>2. l.seq = n /\ ~IsS3(l)
      BY <1>1, <3>1
    <3> QED BY <1>1, <1>2, <3>2
  <2> QED BY <2>1, <2>2
<1> QED BY <1>5, <1>6 DEF Typed, Counts

LEMMA FreshTyped ==
    ASSUME NEW e \in Entries, NEW at \in Paths \cup {"lists", "begin", "stream", "gone", "failed"}
    PROVE  /\ Fresh(at, e) \in Load /\ Bounded(Fresh(at, e))
           /\ Fresh(at, e) = [f \in LoadFields |-> Fresh(at, e)[f]]
           /\ Fresh(at, e).e = e /\ Fresh(at, e).seq = 0 /\ Fresh(at, e).sent = 0
           /\ Fresh(at, e).at = at /\ Fresh(at, e).walk = "none" /\ Fresh(at, e).from = 0
           /\ Fresh(at, e).early \in Seq(Nat) /\ DOMAIN Fresh(at, e).early = {}
<1> DEFINE n == <<>>  l == Fresh(at, e)
<1>1. n \in Seq(Nat) /\ DOMAIN n = {} /\ 0 <= Pages(e)
  <2>1. Pages(e) \in Nat
    BY PagesFacts
  <2> QED BY <2>1
<1>2. l = [at |-> at, e |-> e, seq |-> 0, demand |-> FALSE, walk |-> "none", from |-> 0,
           sent |-> 0, live |-> FALSE, early |-> n]
  BY DEF Fresh
<1> HIDE DEF n, l
<1>3. l = [f \in LoadFields |-> l[f]]
  BY <1>2 DEF LoadFields
<1>4. l \in Load /\ Bounded(l)
  BY <1>1, <1>2 DEF Load, Bounded
<1>5. /\ l.e = e /\ l.seq = 0 /\ l.sent = 0 /\ l.at = at /\ l.walk = "none" /\ l.from = 0
      /\ l.early = n
  BY <1>2
<1> QED BY <1>1, <1>3, <1>4, <1>5 DEF l

(* A load that first asks for a path. *)
LEMMA AskTyped ==
    ASSUME NEW h, Typed(h), NEW i, Waits(h, i), NEW e \in Entries, NEW at \in Paths
    PROVE  Typed([h EXCEPT !.load[i] = Fresh(at, e)])
<1> DEFINE l == Fresh(at, e)  s == [h.load EXCEPT ![i] = l]  g == [h EXCEPT !.load = s]
<1>1. l \in Load /\ Bounded(l) /\ l.seq = 0
  BY FreshTyped
<1>2. h \in Panes /\ h.load \in Seq(Load) /\ IsFiniteSet(h.rows) /\ i \in DOMAIN h.load
  BY FitsFields DEF Typed, Waits
<1> HIDE DEF l
<1>3. s \in Seq(Load)
  BY <1>1, <1>2
<1> HIDE DEF s
<1>4. /\ g \in Panes /\ g.load = s /\ g.nav = h.nav /\ g.s3 = h.s3 /\ g.token = h.token
      /\ g.off = h.off /\ g.last = h.last /\ g.rows = h.rows
  BY <1>2, <1>3 DEF Panes
<1> HIDE DEF g
<1>5. Typed(g)
  BY <1>1, <1>2, <1>4, PutTyped DEF s
<1> QED BY <1>5 DEF g, s, l

LEMMA RootsTyped ==
    ASSUME NEW h, Typed(h), NEW i, Waits(h, i)
    PROVE  Typed(ShowRoots(h, i))
<1> DEFINE d == Settled(h, Rows(Drives))  l == Fresh("gone", Drives)
           e == <<>>  s == [d.load EXCEPT ![i] = l]
           g == [d EXCEPT !.dir = e, !.load = s, !.last = i]
<1>1. ShowRoots(h, i) = g
  BY DEF ShowRoots
<1>2. Drives \in Entries /\ e \in Dirs
  BY PlaceFacts
<1>3. l \in Load /\ Bounded(l) /\ l.seq = 0
  BY <1>2, FreshTyped
<1>4. Stays(d, h)
  BY <1>2, PagesFacts, SettledStays DEF Typed
<1> HIDE DEF d, l, e
<1>5. /\ Typed(d) /\ Waits(d, i) /\ d \in Panes /\ d.load \in Seq(Load) /\ IsFiniteSet(d.rows)
      /\ i \in Nat /\ i \in DOMAIN d.load
  <2>1. Typed(d) /\ Waits(d, i) /\ Fits(d)
    BY <1>4, StaysWaits
  <2> QED BY <2>1, FitsFields, FitsLoad DEF Waits
<1>6. s \in Seq(Load)
  BY <1>3, <1>5
<1> HIDE DEF s
<1>7. /\ g \in Panes /\ g.load = s /\ g.nav = d.nav /\ g.s3 = d.s3 /\ g.token = d.token
      /\ g.off = d.off /\ g.last = i /\ g.rows = d.rows
  BY <1>2, <1>5, <1>6 DEF Panes
<1> HIDE DEF g
<1>8. Typed(g)
  BY <1>3, <1>5, <1>7, PutTyped DEF s
<1> QED BY <1>1, <1>8

LEMMA CallTyped ==
    ASSUME NEW h, Typed(h), NEW i, Waits(h, i), Kind(h.src) # "s3", NEW dir \in Dirs
    PROVE  Typed(NavigateCall(h, i, dir))
<1> DEFINE e == Place(h.src, NoBucket, dir)
           f == Fresh("lists", e)
           n == h.nav + 1
           l == [f EXCEPT !.seq = n]
           s == [h.load EXCEPT ![i] = l]
           g == [h EXCEPT !.load = s, !.last = i, !.skel = TRUE, !.nav = n, !.wired = FALSE]
<1>1. /\ h \in Panes /\ h.load \in Seq(Load) /\ IsFiniteSet(h.rows) /\ i \in Nat /\ n \in Nat
      /\ h.src \in Sources /\ i \in DOMAIN h.load
  BY FitsFields, FitsLoad DEF Waits, Typed
<1>2. NavigateCall(h, i, dir) = g
  BY <1>1 DEF NavigateCall, Begins, Panes
<1>3. e \in Entries /\ e.src = h.src
  BY <1>1, PlaceFacts DEF Place
<1> HIDE DEF e
<1>4. /\ f \in Load /\ Bounded(f) /\ f.e = e /\ f.at = "lists"
  BY <1>3, FreshTyped
<1> HIDE DEF f, n
<1>5. l \in Load /\ Bounded(l) /\ l.seq = n /\ ~IsS3(l)
  BY <1>1, <1>3, <1>4 DEF Load, Bounded, Paths, IsS3
<1> HIDE DEF l
<1>6. s \in Seq(Load)
  BY <1>1, <1>5
<1> HIDE DEF s
<1>7. /\ g \in Panes /\ g.load = s /\ g.nav = n /\ g.s3 = h.s3 /\ g.token = h.token
      /\ g.off = h.off /\ g.last = i /\ g.rows = h.rows
  BY <1>1, <1>6 DEF Panes
<1> HIDE DEF g
<1>8. Typed(g)
  BY <1>1, <1>5, <1>7, PutTyped DEF s, n
<1> QED BY <1>2, <1>8

LEMMA S3Typed ==
    ASSUME NEW h, Typed(h), NEW i, Waits(h, i), Kind(h.src) = "s3",
           NEW bucket \in Buckets, NEW dir \in Dirs
    PROVE  Typed(NavigateS3(h, i, bucket, dir))
<1> DEFINE c == CancelS3Stream(h)
           e == Place(h.src, bucket, dir)
           f == Fresh("lists", e)
           n == c.s3
           l == [f EXCEPT !.seq = n]
           m == [l EXCEPT !.at = "begin", !.seq = n, !.live = TRUE, !.walk = "running"]
           s == [c.load EXCEPT ![i] = l]
           t == [c.load EXCEPT ![i] = m]
           b == [c EXCEPT !.load = s, !.last = i, !.skel = TRUE]
           g == [c EXCEPT !.load = t, !.last = i, !.skel = TRUE, !.off = i, !.wired = TRUE]
<1>1. Stays(c, h) /\ h.src \in Sources
  BY CancelStays, FitsFields DEF Typed
<1>2. NavigateS3(h, i, bucket, dir) \in {b, [Subscribed(b, i, l) EXCEPT !.wired = TRUE]}
  BY DEF NavigateS3, Begins
<1> HIDE DEF c
<1>3. /\ Typed(c) /\ Waits(c, i) /\ c \in Panes /\ c.load \in Seq(Load) /\ IsFiniteSet(c.rows)
      /\ i \in Nat /\ i \in DOMAIN c.load /\ n \in Nat
  <2>1. Typed(c) /\ Waits(c, i) /\ Fits(c)
    BY <1>1, StaysWaits
  <2> QED BY <2>1, FitsFields, FitsLoad DEF Waits
<1>4. e \in Entries /\ e.src = h.src
  BY <1>1, PlaceFacts DEF Place
<1> HIDE DEF e
<1>5. /\ f \in Load /\ Bounded(f) /\ f.e = e /\ f.at = "lists" /\ f.sent = 0
  BY <1>4, FreshTyped
<1> HIDE DEF f
<1>6. 0 < Pages(e)
  <2>1. Pages(e) \in Nat \ {0}
    BY <1>4, PagesFacts
  <2> QED BY <2>1
<1>7. l \in Load /\ Bounded(l) /\ l.seq = n /\ IsS3(l) /\ l.e = e /\ l.sent = 0
  BY <1>3, <1>4, <1>5 DEF Load, Bounded, Paths, IsS3
<1> HIDE DEF l
<1>8. m \in Load /\ Bounded(m) /\ m.seq = n /\ IsS3(m)
  <2>1. /\ m \in Load /\ m.e = l.e /\ m.sent = l.sent /\ m.from = l.from /\ m.early = l.early
        /\ m.at = "begin" /\ m.seq = n
    BY <1>3, <1>7 DEF Load
  <2> HIDE DEF m
  <2>2. "begin" \notin Paths
    BY DEF Paths
  <2> QED BY <1>6, <1>7, <2>1, <2>2 DEF Bounded, IsS3
<1>9. s \in Seq(Load) /\ t \in Seq(Load) /\ [s EXCEPT ![i] = m] = t /\ s[i] = l
  <2> HIDE DEF m
  <2> QED BY <1>3, <1>7, <1>8
<1>10. [Subscribed(b, i, l) EXCEPT !.wired = TRUE] = g
  <2>1. b.s3 = n
    BY <1>3 DEF Panes
  <2>2. Subscribed(b, i, l) = [b EXCEPT !.off = i, !.load[i] = m]
    BY <2>1 DEF Subscribed
  <2> HIDE DEF m, s, t
  <2>3. b = [k \in PaneFields |-> b[k]] /\ b.load = s /\ c = [k \in PaneFields |-> c[k]]
    BY <1>3 DEF Panes, PaneFields
  <2>4. Subscribed(b, i, l) = [b EXCEPT !.off = i, !.load = t]
    <3> HIDE DEF b
    <3> QED BY <1>9, <2>2, <2>3
  <2>5. [b EXCEPT !.off = i, !.load = t] = [c EXCEPT !.load = t, !.last = i, !.skel = TRUE, !.off = i]
    BY <2>3 DEF PaneFields
  <2>6. [[c EXCEPT !.load = t, !.last = i, !.skel = TRUE, !.off = i] EXCEPT !.wired = TRUE] = g
    BY <2>3 DEF PaneFields
  <2> HIDE DEF g, b
  <2> QED BY <2>4, <2>5, <2>6
<1> HIDE DEF m, s, t, n
<1>11. /\ b \in Panes /\ b.load = s /\ b.nav = c.nav /\ b.s3 = c.s3 /\ b.token = c.token
       /\ b.off = c.off /\ b.last = i /\ b.rows = c.rows
  BY <1>3, <1>9 DEF Panes
<1>12. /\ g \in Panes /\ g.load = t /\ g.nav = c.nav /\ g.s3 = c.s3 /\ g.token = c.token
       /\ g.off = i /\ g.last = i /\ g.rows = c.rows
  BY <1>3, <1>9 DEF Panes
<1>13. Typed(b)
  <2> HIDE DEF b
  <2> QED BY <1>3, <1>7, <1>11, PutTyped DEF s, n
<1>14. Typed(g)
  <2> HIDE DEF g
  <2> QED BY <1>3, <1>8, <1>12, PutTyped DEF t, n
<1> HIDE DEF b, g
<1> QED BY <1>2, <1>10, <1>13, <1>14

-----------------------------------------------------------------------------
(* The calls that navigate. *)
LEMMA NavigateTyped ==
    ASSUME NEW h, Typed(h), NEW i, Waits(h, i), NEW dir \in Dirs
    PROVE  Typed(Navigate(h, i, dir))
<1>1. h.bucket \in Buckets
  BY FitsFields DEF Typed
<1> QED BY <1>1, S3Typed, CallTyped DEF Navigate

LEMMA NavEntryTyped ==
    ASSUME NEW h, Typed(h), NEW i, Waits(h, i), NEW e \in Entries
    PROVE  Typed(NavEntry(h, i, e))
<1> DEFINE h1 == IF e.src = h.src THEN h ELSE BindTo(h, e.src)
<1>1. e.src \in Sources /\ e.bucket \in Buckets /\ e.dir \in Dirs
  BY PlaceFacts
<1>2. Typed(h1) /\ Waits(h1, i) /\ h1.src = e.src
  <2>1. Stays(BindTo(h, e.src), h) /\ BindTo(h, e.src).src = e.src
    BY <1>1, BindStays DEF Typed
  <2>2. Typed(BindTo(h, e.src)) /\ Waits(BindTo(h, e.src), i)
    BY <2>1, StaysWaits
  <2> QED BY <2>1, <2>2
<1>3. \/ Kind(e.src) = "s3" /\ NavEntry(h, i, e) = NavigateS3(h1, i, e.bucket, e.dir)
      \/ NavEntry(h, i, e) = ShowRoots(h1, i)
      \/ Kind(e.src) # "s3" /\ NavEntry(h, i, e) = NavigateCall(h1, i, e.dir)
  <2> HIDE DEF h1
  <2>1. NavEntry(h, i, e) = CASE Kind(e.src) = "s3" -> NavigateS3(h1, i, e.bucket, e.dir)
                              [] e = Drives         -> ShowRoots(h1, i)
                              [] OTHER              -> NavigateCall(h1, i, e.dir)
    BY DEF NavEntry, h1
  <2>2. e = Drives => Kind(e.src) # "s3"
    BY KindFacts
  <2> QED BY <2>1, <2>2
<1> HIDE DEF h1
<1> QED BY <1>1, <1>2, <1>3, S3Typed, RootsTyped, CallTyped

LEMMA StartTyped ==
    ASSUME NEW h, Typed(h), NEW i, Waits(h, i)
    PROVE  Typed(Start(h, i))
<1>1. h.dir \in Dirs /\ <<>> \in Dirs /\ Drives \in Entries
  BY FitsFields, PlaceFacts DEF Typed
<1>2. CASE Kind(h.src) = "s3"
  <2>1. BucketOf[h.src] \in Buckets
    BY <1>2, PlaceFacts DEF Kind
  <2>2. Start(h, i) = NavigateS3(h, i, BucketOf[h.src], <<>>)
    BY <1>2 DEF Start
  <2> QED BY <1>1, <1>2, <2>1, <2>2, S3Typed
<1>3. CASE Kind(h.src) = "remote"
  <2>1. Start(h, i) = NavigateCall(h, i, h.dir) /\ Kind(h.src) # "s3"
    BY <1>3 DEF Start
  <2> QED BY <1>1, <2>1, CallTyped
<1>4. CASE Kind(h.src) \notin {"s3", "remote"}
  <2>1. Start(h, i) = [h EXCEPT !.load[i] = Fresh("start", Drives)] /\ "start" \in Paths
    BY <1>4 DEF Start, Paths
  <2> QED BY <1>1, <2>1, AskTyped
<1> QED BY <1>2, <1>3, <1>4

LEMMA WentStays ==
    ASSUME NEW h, Fits(h), NEW e
    PROVE  Stays(Went(h, e), h)
<1> DEFINE from == Snapshot(h)
           none == <<>>
           hist == Append(h.hist, from)
           futr == IF EntryAncestorOf(e, from) THEN Append(h.futr, from) ELSE none
<1>1. /\ h \in Panes /\ h.hist \in Seq(Entries) /\ h.futr \in Seq(Entries)
      /\ from \in Entries /\ none \in Seq(Entries)
  BY FitsFields DEF Panes
<1>2. Went(h, e) \in {h, [h EXCEPT !.futr = none], [h EXCEPT !.hist = hist, !.futr = futr]}
  BY DEF Went
<1> HIDE DEF from, none
<1>3. hist \in Seq(Entries) /\ Append(h.futr, from) \in Seq(Entries)
  BY <1>1
<1>4. futr \in Seq(Entries)
  BY <1>1, <1>3
<1> HIDE DEF hist, futr
<1>5. [h EXCEPT !.futr = none] = [h EXCEPT !.hist = h.hist, !.futr = none]
  BY <1>1 DEF Panes
<1>6. Stays([h EXCEPT !.futr = none], h)
  BY <1>1, <1>5, HistoryStays
<1>7. Stays([h EXCEPT !.hist = hist, !.futr = futr], h)
  BY <1>3, <1>4, HistoryStays
<1>8. Stays(h, h)
  BY StaysItself
<1> QED BY <1>2, <1>6, <1>7, <1>8

LEMMA TrailWaits ==
    ASSUME NEW h, Typed(h), NEW i, Waits(h, i),
           NEW hist \in Seq(Entries), NEW futr \in Seq(Entries)
    PROVE  /\ Typed([h EXCEPT !.hist = hist, !.futr = futr])
           /\ Waits([h EXCEPT !.hist = hist, !.futr = futr], i)
<1> DEFINE g == [h EXCEPT !.hist = hist, !.futr = futr]
<1>1. Stays(g, h)
  BY HistoryStays DEF Typed
<1> HIDE DEF g
<1>2. Typed(g) /\ Waits(g, i)
  BY <1>1, StaysWaits
<1> QED BY <1>2 DEF g

LEMMA GoToTyped ==
    ASSUME NEW h, Typed(h), NEW i, Waits(h, i), NEW e \in Entries
    PROVE  Typed(GoTo(h, i, e))
<1>1. Typed(Went(h, e)) /\ Waits(Went(h, e), i)
  BY WentStays, StaysWaits DEF Typed
<1> QED BY <1>1, NavEntryTyped DEF GoTo

LEMMA AddedTyped ==
    ASSUME NEW h, Typed(h)
    PROVE  /\ Typed(Added(h)) /\ Waits(Added(h), Len(h.load) + 1)
           /\ Added(h).hist = h.hist /\ Added(h).futr = h.futr /\ Added(h).rows = h.rows
           /\ Snapshot(Added(h)) = Snapshot(h) /\ Added(h).src = h.src
<1> DEFINE n == Len(h.load)  l == Fresh("gone", Drives)
           s == Append(h.load, l)  g == [h EXCEPT !.load = s]
<1>1. /\ h \in Panes /\ h.load \in Seq(Load) /\ n \in Nat /\ DOMAIN h.load = 1..n
      /\ IsFiniteSet(h.rows) /\ h.nav \in Nat /\ h.s3 \in Nat
  BY FitsFields DEF Typed
<1>2. l \in Load /\ Bounded(l) /\ l.seq = 0
  BY FreshTyped, PlaceFacts
<1>3. Added(h) = g
  BY DEF Added
<1> HIDE DEF l
<1>4. /\ s \in Seq(Load) /\ DOMAIN s = 1..(n + 1) /\ s[n + 1] = l
      /\ \A j \in 1..n : s[j] = h.load[j]
  BY <1>1, <1>2
<1> HIDE DEF s, n
<1>5. /\ g \in Panes /\ g.load = s /\ g.nav = h.nav /\ g.s3 = h.s3 /\ g.token = h.token
      /\ g.off = h.off /\ g.last = h.last /\ g.rows = h.rows
  BY <1>1, <1>4 DEF Panes
<1>6. g.hist = h.hist /\ g.futr = h.futr /\ g.src = h.src /\ g.bucket = h.bucket /\ g.dir = h.dir
  BY <1>1 DEF Panes
<1> HIDE DEF g
<1>7. \A k \in {0} \cup 1..n : k \in {0} \cup 1..(n + 1)
  BY <1>1
<1>8. ASSUME NEW j \in 1..(n + 1)
      PROVE  Bounded(g.load[j]) /\ g.load[j].seq <= Count(g, j)
  <2>1. CASE j = n + 1
    BY <1>1, <1>2, <1>4, <1>5, <2>1 DEF Count
  <2>2. CASE j \in 1..n
    <3>1. g.load[j] = h.load[j] /\ Bounded(h.load[j]) /\ h.load[j].seq <= Count(h, j)
      BY <1>1, <1>4, <1>5, <2>2 DEF Typed, Fits
    <3> QED BY <1>5, <3>1 DEF Count
  <2> QED BY <1>1, <2>1, <2>2
<1>9. Fits(g)
  BY <1>1, <1>4, <1>5, <1>7, <1>8 DEF Typed, Fits
<1>10. Counts(g)
  BY <1>1, <1>4, <1>5, <1>7 DEF Typed, Counts
<1>11. n + 1 \in DOMAIN g.load /\ g.load[n + 1].seq = 0
  BY <1>1, <1>2, <1>4, <1>5
<1> QED BY <1>3, <1>5, <1>6, <1>9, <1>10, <1>11 DEF Typed, Waits, Snapshot, n

-----------------------------------------------------------------------------
(* ... event by event. *)
TypeInv == Typed(p)

LEMMA OpenTyped ==
    ASSUME TypeInv, NEW e \in Places, Open(e)
    PROVE  TypeInv'
<1> DEFINE h == Added(p)
           i == Len(p.load) + 1
           b == BindTo(h, e.src)
           n == <<>>
           c == [b EXCEPT !.hist = n, !.futr = n]
<1>1. p' = IF h.bound THEN GoTo(h, i, e) ELSE GoTo(c, i, e)
  BY DEF Open, Calls, Added
<1>2. Typed(h) /\ Waits(h, i)
  BY AddedTyped DEF TypeInv
<1> HIDE DEF h, i
<1>3. e \in Entries /\ e.src \in Sources /\ n \in Seq(Entries)
  BY PlaceFacts
<1>4. Typed(b) /\ Waits(b, i)
  BY <1>2, <1>3, BindStays, StaysWaits DEF Typed
<1> HIDE DEF b, n
<1>5. Typed(c) /\ Waits(c, i)
  BY <1>3, <1>4, TrailWaits
<1> HIDE DEF c
<1> QED BY <1>1, <1>2, <1>3, <1>5, GoToTyped DEF TypeInv

LEMMA HistoryTyped ==
    ASSUME TypeInv, GoBack \/ GoForward
    PROVE  TypeInv'
<1> DEFINE h == Added(p)
           i == Len(p.load) + 1
           b == [h EXCEPT !.hist = Front(h.hist), !.futr = Append(h.futr, Snapshot(h))]
           f == [h EXCEPT !.hist = Append(h.hist, Snapshot(h)), !.futr = Front(h.futr)]
<1>1. \/ p' = NavEntry(b, i, Last(h.hist)) /\ p.hist # <<>>
      \/ p' = NavEntry(f, i, Last(h.futr)) /\ p.futr # <<>>
  <2>1. h \in Panes
    BY AddedTyped, FitsFields DEF TypeInv, Typed
  <2>2. CASE GoBack
    <3>1. p' = NavEntry([h EXCEPT !.futr = Append(@, Snapshot(h)), !.hist = Front(@)], i, Last(h.hist))
          /\ p.hist # <<>>
      BY <2>2 DEF GoBack, Calls, Added
    <3>2. [h EXCEPT !.futr = Append(@, Snapshot(h)), !.hist = Front(@)] = b
      <4> HIDE DEF h
      <4> QED BY <2>1 DEF Panes
    <3> QED BY <3>1, <3>2
  <2>3. CASE GoForward
    BY <2>3 DEF GoForward, Calls, Added
  <2> QED BY <2>2, <2>3
<1>2. /\ Typed(h) /\ Waits(h, i) /\ Snapshot(h) \in Entries /\ h.hist = p.hist /\ h.futr = p.futr
      /\ h.hist \in Seq(Entries) /\ h.futr \in Seq(Entries)
  <2>1. Typed(h) /\ Waits(h, i) /\ h.hist = p.hist /\ h.futr = p.futr
    BY AddedTyped DEF TypeInv
  <2>2. h \in Panes /\ Snapshot(h) \in Entries
    BY <2>1, FitsFields DEF Typed
  <2> HIDE DEF h
  <2> QED BY <2>1, <2>2 DEF Panes
<1> HIDE DEF h, i
<1>3. ASSUME NEW s \in Seq(Entries), s # <<>> PROVE Front(s) \in Seq(Entries) /\ Last(s) \in Entries
  BY <1>3 DEF Front, Last
<1>4. CASE p' = NavEntry(b, i, Last(h.hist)) /\ p.hist # <<>>
  <2>1. /\ Front(h.hist) \in Seq(Entries) /\ Last(h.hist) \in Entries
        /\ Append(h.futr, Snapshot(h)) \in Seq(Entries)
    BY <1>2, <1>3, <1>4
  <2>2. Typed(b) /\ Waits(b, i)
    BY <1>2, <2>1, TrailWaits
  <2> QED BY <1>4, <2>1, <2>2, NavEntryTyped DEF TypeInv
<1>5. CASE p' = NavEntry(f, i, Last(h.futr)) /\ p.futr # <<>>
  <2>1. /\ Front(h.futr) \in Seq(Entries) /\ Last(h.futr) \in Entries
        /\ Append(h.hist, Snapshot(h)) \in Seq(Entries)
    BY <1>2, <1>3, <1>5
  <2>2. Typed(f) /\ Waits(f, i)
    BY <1>2, <2>1, TrailWaits
  <2> QED BY <1>5, <2>1, <2>2, NavEntryTyped DEF TypeInv
<1> QED BY <1>1, <1>4, <1>5

LEMMA UpTyped ==
    ASSUME TypeInv, Up
    PROVE  TypeInv'
<1> DEFINE h == Added(p)
           i == Len(p.load) + 1
           above == IF p.dir # <<>> THEN Place(p.src, Snapshot(p).bucket, Front(p.dir))
                    ELSE Place(p.src, NoBucket, <<>>)
<1>1. p' = IF p.src = Local THEN [h EXCEPT !.load[i] = Fresh("up", above)] ELSE GoTo(h, i, above)
  BY DEF Up, Calls, Added
<1>2. Typed(h) /\ Waits(h, i)
  BY AddedTyped DEF TypeInv
<1>3. above \in Entries
  <2>1. p.src \in Sources /\ p.dir \in Dirs /\ Snapshot(p) \in Entries
    BY FitsFields DEF TypeInv, Typed
  <2>2. Snapshot(p).bucket \in Buckets
    BY <2>1, PlaceFacts
  <2> QED BY <2>1, <2>2, PlaceFacts
<1> HIDE DEF h, i, above
<1> QED BY <1>1, <1>2, <1>3, AskTyped, GoToTyped DEF TypeInv, Paths

LEMMA RefreshTyped ==
    ASSUME TypeInv, Refresh
    PROVE  TypeInv'
<1> DEFINE h == Added(p)
           i == Len(p.load) + 1
           k == [h EXCEPT !.load[i] = Fresh("roots", Drives)]
<1>1. p' = CASE Kind(h.src) = "s3"          -> NavigateS3(h, i, h.bucket, h.dir)
             [] h.src = Local /\ h.dir = <<>> -> k
             [] OTHER                       -> NavigateCall(h, i, h.dir)
  BY DEF Refresh, Calls, Added
<1>2. Typed(h) /\ Waits(h, i)
  BY AddedTyped DEF TypeInv
<1> HIDE DEF h, i
<1>3. h.bucket \in Buckets /\ h.dir \in Dirs /\ Drives \in Entries /\ "roots" \in Paths
  BY <1>2, FitsFields, PlaceFacts DEF Typed, Paths
<1>4. Typed(k)
  BY <1>2, <1>3, AskTyped
<1> HIDE DEF k
<1>5. h.src = Local => Kind(h.src) # "s3"
  BY KindFacts
<1>6. \/ Kind(h.src) = "s3" /\ p' = NavigateS3(h, i, h.bucket, h.dir)
      \/ p' = k
      \/ Kind(h.src) # "s3" /\ p' = NavigateCall(h, i, h.dir)
  BY <1>1, <1>5
<1> QED BY <1>2, <1>3, <1>4, <1>6, S3Typed, CallTyped DEF TypeInv

LEMMA BindsTyped ==
    ASSUME TypeInv, (\E src \in Sources : Rebind(src)) \/ (\E e \in Places : Show(e))
    PROVE  TypeInv'
<1> DEFINE h == Added(p)
           i == Len(p.load) + 1
           n == <<>>
<1>1. Typed(h) /\ Waits(h, i)
  BY AddedTyped DEF TypeInv
<1>2. \/ \E src \in Sources : p' = Start([BindTo(h, src) EXCEPT !.hist = n, !.futr = n], i)
      \/ \E e \in Places : p' = NavEntry(BindTo(h, e.src), i, e)
      \/ p' = Start(IF h.bound THEN h ELSE BindTo(h, Local), i)
  BY DEF Rebind, Show, Calls, Added
<1>3. n \in Seq(Entries) /\ Local \in Sources
  BY PlaceFacts
<1> HIDE DEF h, i, n
<1>4. ASSUME NEW src \in Sources PROVE Typed(BindTo(h, src)) /\ Waits(BindTo(h, src), i)
  BY <1>1, BindStays, StaysWaits DEF Typed
<1>5. ASSUME NEW src \in Sources
      PROVE  Typed(Start([BindTo(h, src) EXCEPT !.hist = n, !.futr = n], i))
  <2> DEFINE b == BindTo(h, src)
             c == [b EXCEPT !.hist = n, !.futr = n]
  <2>1. Typed(b) /\ Waits(b, i)
    BY <1>4
  <2> HIDE DEF b
  <2>2. Typed(c) /\ Waits(c, i)
    BY <1>3, <2>1, TrailWaits
  <2> HIDE DEF c
  <2>3. Typed(Start(c, i))
    BY <2>2, StartTyped
  <2> QED BY <2>3 DEF c, b
<1>6. ASSUME NEW e \in Places PROVE Typed(NavEntry(BindTo(h, e.src), i, e))
  <2>1. e \in Entries /\ e.src \in Sources
    BY PlaceFacts
  <2> QED BY <1>4, <2>1, NavEntryTyped
<1>7. Typed(Start(IF h.bound THEN h ELSE BindTo(h, Local), i))
  <2>1. Typed(Start(h, i)) /\ Typed(Start(BindTo(h, Local), i))
    BY <1>1, <1>3, <1>4, StartTyped
  <2> QED BY <2>1
<1> QED BY <1>2, <1>5, <1>6, <1>7 DEF TypeInv

LEMMA ResetTyped ==
    ASSUME TypeInv, Reset
    PROVE  TypeInv'
<1> DEFINE c == CancelS3Stream(p)  d == Settled(c, {})  n == <<>>
           g == [d EXCEPT !.bound = FALSE, !.listed = FALSE, !.hist = n, !.futr = n]
<1>1. p' = g
  BY DEF Reset
<1>2. Typed(c)
  BY CancelStays, StaysTyped DEF TypeInv, Typed
<1> HIDE DEF c
<1>3. Typed(d)
  <2>1. {} \in SUBSET AllRows /\ IsFiniteSet({})
    BY FS_EmptySet
  <2> QED BY <1>2, <2>1, SettledStays, StaysTyped DEF Typed
<1> HIDE DEF d
<1>4. Fits(d) /\ d \in Panes /\ n \in Seq(Entries) /\ d.s3 \in Nat
  BY <1>3, FitsFields DEF Typed
<1> HIDE DEF n
<1>5. /\ g \in Panes /\ g.load = d.load /\ g.nav = d.nav /\ g.s3 = d.s3 /\ g.token = d.token
      /\ g.off = d.off /\ g.last = d.last /\ g.rows = d.rows
  BY <1>4 DEF Panes
<1> HIDE DEF g
<1>6. Stays(g, d)
  BY <1>4, <1>5, FieldsStay DEF Fits
<1> QED BY <1>1, <1>3, <1>6, StaysTyped DEF TypeInv

LEMMA GotoHitTyped ==
    ASSUME TypeInv, NEW e \in Places, GotoHit(e)
    PROVE  TypeInv'
<1> DEFINE h == Added(p)
           i == Len(p.load) + 1
<1>1. p' = NavEntry(h, i, e) \/ p' = [h EXCEPT !.load[i] = Fresh("hit", e)]
  BY DEF GotoHit, Calls, Added
<1>2. Typed(h) /\ Waits(h, i) /\ e \in Entries /\ "hit" \in Paths
  BY AddedTyped, PlaceFacts DEF TypeInv, Paths
<1> HIDE DEF h, i
<1> QED BY <1>1, <1>2, NavEntryTyped, AskTyped DEF TypeInv

(* Another window: what was walked so far is less than the folder has.      *)
LEMMA ExtendTyped ==
    ASSUME TypeInv, ExtendS3
    PROVE  TypeInv'
<1> DEFINE h == Added(p)
           i == Len(p.load) + 1
           c == CancelS3Stream(h)
           target == Cardinality(h.rows) + First
           b == [c EXCEPT !.need = TRUE, !.target = target]
           q == Cardinality(p.rows)
           e == Snapshot(p)
           f == Fresh("begin", e)
           n == c.s3
           l == [f EXCEPT !.demand = TRUE, !.from = q, !.sent = q]
           m == [l EXCEPT !.at = "begin", !.seq = n, !.live = TRUE, !.walk = "running"]
           s == [c.load EXCEPT ![i] = m]
           g == [c EXCEPT !.need = TRUE, !.target = target, !.off = i, !.load = s]
<1>1. p' = Subscribed(b, i, l) /\ Kind(p.src) = "s3" /\ q < Pages(e)
  BY DEF ExtendS3, Calls, Added
<1>2. Typed(h) /\ Waits(h, i) /\ h.rows = p.rows
  BY AddedTyped DEF TypeInv
<1>3. e \in Entries /\ e.src = p.src /\ q \in Nat
  <2>1. e \in Entries /\ IsFiniteSet(p.rows)
    BY FitsFields DEF TypeInv, Typed
  <2> QED BY <2>1, FS_CardinalityType DEF Snapshot, Place
<1>4. target \in Nat
  <2>1. h.rows = p.rows /\ First \in Nat
    BY <1>2, SidePaneAssumption
  <2> HIDE DEF h
  <2> QED BY <1>3, <2>1
<1> HIDE DEF h, i, target, q
<1>5. Stays(c, h)
  BY <1>2, CancelStays DEF Typed
<1> HIDE DEF c
<1>6. /\ Typed(c) /\ Waits(c, i) /\ c \in Panes /\ c.load \in Seq(Load) /\ IsFiniteSet(c.rows)
      /\ i \in Nat /\ i \in DOMAIN c.load /\ n \in Nat
  <2>1. Typed(c) /\ Waits(c, i) /\ Fits(c)
    BY <1>2, <1>5, StaysWaits
  <2> QED BY <2>1, FitsFields, FitsLoad DEF Waits
<1>7. /\ f \in Load /\ Bounded(f) /\ f.e = e /\ f.early \in Seq(Nat) /\ DOMAIN f.early = {}
  BY <1>3, FreshTyped
<1> HIDE DEF f, n, e
<1>8. m \in Load /\ Bounded(m) /\ m.seq = n /\ IsS3(m)
  <2>1. /\ m \in Load /\ m.e = e /\ m.sent = q /\ m.from = q /\ m.early = f.early
        /\ m.at = "begin" /\ m.seq = n
    BY <1>3, <1>6, <1>7 DEF Load
  <2> HIDE DEF m
  <2>2. "begin" \notin Paths /\ q <= q /\ q <= Pages(e)
    <3>1. Pages(e) \in Nat
      BY <1>3, PagesFacts
    <3> QED BY <1>1, <1>3, <3>1 DEF Paths
  <2> QED BY <1>1, <1>3, <1>7, <2>1, <2>2 DEF Bounded, IsS3
<1>9. Subscribed(b, i, l) = g
  <2>1. /\ b.s3 = n /\ b.load = c.load /\ b = [k \in PaneFields |-> b[k]]
        /\ c = [k \in PaneFields |-> c[k]]
    BY <1>6 DEF Panes, PaneFields, n
  <2>2. Subscribed(b, i, l) = [b EXCEPT !.off = i, !.load[i] = m]
    BY <2>1 DEF Subscribed
  <2> HIDE DEF m
  <2>3. [b EXCEPT !.off = i, !.load[i] = m] = [b EXCEPT !.off = i, !.load = s]
    <3> HIDE DEF b
    <3> QED BY <2>1
  <2> HIDE DEF s
  <2>4. [b EXCEPT !.off = i, !.load = s] = g
    BY <2>1 DEF PaneFields
  <2> QED BY <2>2, <2>3, <2>4
<1> HIDE DEF m, l
<1>10. s \in Seq(Load)
  BY <1>6, <1>8
<1> HIDE DEF s
<1>11. /\ g \in Panes /\ g.load = s /\ g.nav = c.nav /\ g.s3 = c.s3 /\ g.token = c.token
       /\ g.off = i /\ g.last = c.last /\ g.rows = c.rows
  BY <1>4, <1>6, <1>10 DEF Panes
<1> HIDE DEF g
<1>12. Typed(g)
  BY <1>6, <1>8, <1>11, PutTyped DEF s, n
<1> QED BY <1>1, <1>9, <1>12 DEF TypeInv

LEMMA PathReplyTyped ==
    ASSUME TypeInv, NEW i \in DOMAIN p.load, p.load[i].at \in Paths, PathReply(i)
    PROVE  TypeInv'
<1>1. Waits(p, i) /\ p.load[i].e \in Entries /\ HomeDir \in Dirs
  <2>1. Bounded(p.load[i]) /\ p.load[i].e \in Entries
    BY FitsLoad DEF TypeInv, Typed
  <2> QED BY <2>1, PlaceFacts DEF Waits, Bounded
<1>2. p' \in {Navigate(p, i, HomeDir), GoTo(p, i, p.load[i].e), NavEntry(p, i, p.load[i].e),
              ShowRoots(p, i)}
  BY DEF PathReply, Paths
<1> QED BY <1>1, <1>2, NavigateTyped, GoToTyped, NavEntryTyped, RootsTyped DEF TypeInv

LEMMA FailsTyped ==
    ASSUME TypeInv, NEW i \in DOMAIN p.load, StartFails(i) \/ ListFails(i)
    PROVE  TypeInv'
<1> DEFINE l == ListFail(p)
<1>1. p' \in {Leave(l, i, "failed"), Leave(p, i, "failed")}
  BY DEF StartFails, ListFails
<1>2. Stays(l, p)
  BY ListFailStays DEF TypeInv, Typed
<1> HIDE DEF l
<1>3. Typed(l) /\ i \in DOMAIN l.load
  BY <1>2, StaysTyped, StaysFits DEF TypeInv
<1>4. Typed(Leave(l, i, "failed")) /\ Typed(Leave(p, i, "failed"))
  BY <1>3, LeaveStays, StaysTyped DEF TypeInv, Typed
<1> QED BY <1>1, <1>4 DEF TypeInv

LEMMA ListReplyTyped ==
    ASSUME TypeInv, NEW i \in DOMAIN p.load, ListReply(i)
    PROVE  TypeInv'
<1> DEFINE e == p.load[i].e
           d == Settled(p, Rows(e))
           b == IF Kind(e.src) = "s3" THEN NoBucket ELSE d.bucket
           w == IF Kind(e.src) = "s3" THEN FALSE ELSE d.wired
           g == [d EXCEPT !.dir = e.dir, !.bucket = b, !.wired = w]
<1>1. p' \in {Leave(p, i, "gone"), Leave(g, i, "gone")}
  BY DEF ListReply
<1>2. e \in Entries
  BY FitsLoad DEF TypeInv, Typed
<1>3. Stays(d, p)
  BY <1>2, PagesFacts, SettledStays DEF TypeInv, Typed
<1> HIDE DEF d
<1>4. Fits(d) /\ d \in Panes /\ d.s3 \in Nat /\ i \in DOMAIN d.load
  BY <1>3, StaysFits, FitsFields
<1>5. e.dir \in Dirs /\ b \in Buckets /\ w \in BOOLEAN
  <2>1. d.bucket \in Buckets /\ d.wired \in BOOLEAN
    BY <1>4 DEF Panes
  <2> QED BY <1>2, <2>1, PlaceFacts
<1> HIDE DEF e, b, w
<1>6. /\ g \in Panes /\ g.load = d.load /\ g.nav = d.nav /\ g.s3 = d.s3 /\ g.token = d.token
      /\ g.off = d.off /\ g.last = d.last /\ g.rows = d.rows
  BY <1>4, <1>5 DEF Panes
<1> HIDE DEF g
<1>7. Stays(g, d)
  BY <1>4, <1>6, FieldsStay DEF Fits
<1>8. Typed(g) /\ i \in DOMAIN g.load
  BY <1>3, <1>4, <1>7, StaysTyped, StaysFits DEF TypeInv
<1>9. Typed(Leave(g, i, "gone")) /\ Typed(Leave(p, i, "gone"))
  BY <1>8, LeaveStays, StaysTyped DEF TypeInv, Typed
<1> QED BY <1>1, <1>9 DEF TypeInv

LEMMA BeginReplyTyped ==
    ASSUME TypeInv, NEW i \in DOMAIN p.load, BeginReply(i)
    PROVE  TypeInv'
<1> DEFINE early == p.load[i].early
           o  == Over(p, i)
           z  == <<>>
           h1 == [p EXCEPT !.token = i, !.load[i].at = "stream", !.load[i].early = z]
           l  == [p.load[i] EXCEPT !.at = "stream", !.early = z]
           k  == [p EXCEPT !.load[i] = l]
           k1 == [k EXCEPT !.token = i]
           e  == p.load[i].e
           h2 == [h1 EXCEPT !.bucket = e.bucket, !.dir = e.dir, !.rows = {},
                            !.grid = "open", !.target = First, !.need = TRUE]
           k2 == [k1 EXCEPT !.bucket = e.bucket, !.dir = e.dir, !.rows = {},
                            !.grid = "open", !.target = First, !.need = TRUE]
<1>1. /\ Fits(p) /\ p.load[i] \in Load /\ Bounded(p.load[i]) /\ early \in Seq(Nat)
      /\ \A n \in DOMAIN early : early[n] <= Pages(e)
  <2>1. Fits(p) /\ p.load[i] \in Load /\ Bounded(p.load[i])
    BY FitsLoad DEF TypeInv, Typed
  <2> QED BY <2>1 DEF Load, Bounded
<1>2. e \in Entries /\ p \in Panes /\ i \in Nat
  BY <1>1, FitsLoad, FitsFields
<1>3. p' \in {Leave(o, i, "gone"), Flush(h1, i, early), Flush(h2, i, early)}
  BY DEF BeginReply
<1>4. Typed(Leave(o, i, "gone"))
  <2>1. Stays(o, p)
    BY <1>1, OverStays
  <2> HIDE DEF o
  <2>2. Typed(o) /\ i \in DOMAIN o.load
    BY <2>1, StaysTyped, StaysFits DEF TypeInv
  <2> QED BY <2>2, LeaveStays, StaysTyped DEF Typed
<1>5. h1 = k1
  BY <1>2 DEF Panes
<1>6. z \in Seq(Nat) /\ DOMAIN z = {}
  OBVIOUS
<1> HIDE DEF z, h1, early
<1>7. l \in Load /\ Bounded(l) /\ l.e = e /\ l.seq = p.load[i].seq
  BY <1>1, <1>6 DEF Load, Bounded, Paths
<1> HIDE DEF l, o
<1>8. Stays(k, p)
  BY <1>1, <1>7, LoadStays
<1> HIDE DEF k
<1>9. Fits(k) /\ k \in Panes /\ k.s3 \in Nat /\ i \in DOMAIN k.load /\ p.s3 \in Nat
  BY <1>1, <1>8, StaysFits, FitsFields
<1>10. /\ k1 \in Panes /\ k1.load = k.load /\ k1.nav = k.nav /\ k1.s3 = k.s3 /\ k1.token = i
       /\ k1.off = k.off /\ k1.last = k.last /\ k1.rows = k.rows
  BY <1>2, <1>9 DEF Panes
<1> HIDE DEF k1
<1>11. Stays(k1, k)
  BY <1>9, <1>10, FieldsStay DEF Fits
<1>12. e.bucket \in Buckets /\ e.dir \in Dirs /\ First \in Nat /\ IsFiniteSet({})
  BY <1>2, PlaceFacts, SidePaneAssumption, FS_EmptySet
<1>13. Fits(k1) /\ k1.s3 \in Nat /\ Stays(k1, p)
  BY <1>8, <1>9, <1>11, StaysTwice, StaysFits, FitsFields
<1>14. /\ k2 \in Panes /\ k2.load = k1.load /\ k2.nav = k1.nav /\ k2.s3 = k1.s3
       /\ k2.token = k1.token /\ k2.off = k1.off /\ k2.last = k1.last /\ k2.rows = {}
  <2> HIDE DEF e
  <2> QED BY <1>10, <1>12 DEF Panes
<1>15. h2 = k2
  BY <1>5
<1> HIDE DEF k2, h2
<1>16. Stays(k2, k1)
  <2>1. IsFiniteSet(k2.rows) /\ k1.s3 <= k2.s3
    BY <1>12, <1>13, <1>14
  <2>2. /\ k2.token \in {0} \cup DOMAIN k1.load /\ k2.off \in {0} \cup DOMAIN k1.load
        /\ k2.last \in {0} \cup DOMAIN k1.load
    BY <1>13, <1>14 DEF Fits
  <2> QED BY <1>13, <1>14, <2>1, <2>2, FieldsStay
<1>17. Stays(k2, p)
  BY <1>9, <1>13, <1>16, StaysTwice
<1>18. ASSUME NEW h, Stays(h, p) PROVE Typed(Flush(h, i, early))
  <2>1. Typed(h) /\ Fits(h) /\ i \in DOMAIN h.load /\ h.load[i].e = e
    BY <1>18, StaysTyped, StaysFits DEF TypeInv
  <2>2. Stays(Flush(h, i, early), h)
    BY <1>1, <2>1, FlushStays
  <2> QED BY <2>1, <2>2, StaysTyped
<1>19. Typed(Flush(h1, i, early)) /\ Typed(Flush(h2, i, early))
  BY <1>5, <1>13, <1>15, <1>17, <1>18
<1> QED BY <1>3, <1>4, <1>19 DEF TypeInv

LEMMA BeginFailsTyped ==
    ASSUME TypeInv, NEW i \in DOMAIN p.load, BeginFails(i)
    PROVE  TypeInv'
<1> DEFINE o  == Off(p, i)
           n  == IF o.off = i THEN 0 ELSE o.off
           h1 == [o EXCEPT !.load[i].at = "failed", !.load[i].walk = "none", !.off = n]
           l  == [o.load[i] EXCEPT !.at = "failed", !.walk = "none"]
           k  == [o EXCEPT !.load[i] = l]
           k1 == [k EXCEPT !.off = n]
           f  == ListFail(h1)
           g  == [f EXCEPT !.need = FALSE]
<1>1. p' \in {h1, g}
  BY DEF BeginFails
<1>2. Stays(o, p)
  BY OffStays DEF TypeInv, Typed
<1> HIDE DEF o
<1>3. Fits(o) /\ i \in DOMAIN o.load /\ Typed(o) /\ o \in Panes
  BY <1>2, StaysFits, StaysTyped, FitsFields DEF TypeInv
<1>4. o.load[i] \in Load /\ Bounded(o.load[i])
  BY <1>3, FitsLoad
<1> HIDE DEF n
<1>5. h1 = k1
  BY <1>3 DEF Panes
<1>6. l \in Load /\ Bounded(l) /\ l.e = o.load[i].e /\ l.seq = o.load[i].seq
  BY <1>4 DEF Load, Bounded, Paths
<1> HIDE DEF l, h1
<1>7. Stays(k, o)
  BY <1>3, <1>6, LoadStays
<1> HIDE DEF k
<1>8. /\ Fits(k) /\ k \in Panes /\ k.s3 \in Nat /\ n \in {0} \cup DOMAIN k.load
      /\ Typed(k) /\ i \in Nat
  <2>1. Fits(k) /\ Typed(k) /\ DOMAIN k.load = DOMAIN o.load
    BY <1>3, <1>7, StaysFits, StaysTyped
  <2>2. n \in {0} \cup DOMAIN o.load
    BY <1>3 DEF n, Fits
  <2> QED BY <1>3, <2>1, <2>2, FitsFields, FitsLoad
<1>9. n \in Nat
  BY <1>3 DEF n, Panes
<1>10. /\ k1 \in Panes /\ k1.load = k.load /\ k1.nav = k.nav /\ k1.s3 = k.s3
       /\ k1.token = k.token /\ k1.off = n /\ k1.last = k.last /\ k1.rows = k.rows
  BY <1>8, <1>9 DEF Panes
<1> HIDE DEF k1
<1>11. Stays(k1, k)
  BY <1>8, <1>10, FieldsStay DEF Fits
<1>12. Typed(h1)
  BY <1>5, <1>8, <1>11, StaysTyped
<1>13. Typed(f)
  BY <1>12, ListFailStays, StaysTyped DEF Typed
<1> HIDE DEF f
<1>14. Typed(g)
  <2>1. Fits(f) /\ f \in Panes
    BY <1>13, FitsFields DEF Typed
  <2>2. f.grid \in {"folded", "open", "done"} /\ g = [f EXCEPT !.need = FALSE, !.grid = f.grid]
    BY <2>1 DEF Panes
  <2>3. Stays(g, f)
    BY <2>1, <2>2, GridStays
  <2> QED BY <1>13, <2>3, StaysTyped
<1> QED BY <1>1, <1>12, <1>14 DEF TypeInv

LEMMA PagesTyped ==
    ASSUME TypeInv, NEW i \in DOMAIN p.load, Page(i) \/ PageFails(i)
    PROVE  TypeInv'
<1> DEFINE n == p.load[i].sent + 1
           w == IF n = Pages(p.load[i].e) THEN "over" ELSE p.load[i].walk
           l == [p.load[i] EXCEPT !.sent = n, !.walk = w]
           k == [p EXCEPT !.load[i] = l]
           o == Over(p, i)
<1>1. /\ Fits(p) /\ p.load[i] \in Load /\ Bounded(p.load[i]) /\ p \in Panes
      /\ Pages(p.load[i].e) \in Nat
  BY FitsLoad, FitsFields, PagesFacts DEF TypeInv, Typed
<1>2. CASE Page(i)
  <2>1. p' = Deliver(k, i, n) /\ p.load[i].walk = "running"
    BY <1>2 DEF Page
  <2>2. n \in Nat /\ n <= Pages(p.load[i].e) /\ p.load[i].from <= n
        /\ n \in 0..Pages(p.load[i].e)
    BY <1>1, <2>1 DEF Load, Bounded
  <2>3. w \in {"none", "running", "over"} /\ (w = "running" => n < Pages(p.load[i].e))
    BY <1>1, <2>1, <2>2
  <2> HIDE DEF n, w
  <2>4. l \in Load /\ Bounded(l) /\ l.e = p.load[i].e /\ l.seq = p.load[i].seq
    BY <1>1, <2>2, <2>3 DEF Load, Bounded
  <2> HIDE DEF l
  <2>5. Stays(k, p)
    BY <1>1, <2>4, LoadStays
  <2> HIDE DEF k
  <2>6. Typed(k) /\ Fits(k) /\ i \in DOMAIN k.load /\ k.load[i].e = p.load[i].e
    BY <2>5, StaysTyped, StaysFits DEF TypeInv
  <2> QED BY <2>1, <2>2, <2>6, DeliverStays, StaysTyped DEF TypeInv
<1>3. CASE PageFails(i)
  <2>1. p' = Deliver(o, i, Error)
    BY <1>3 DEF PageFails
  <2>2. Stays(o, p)
    BY <1>1, OverStays
  <2> HIDE DEF o
  <2>3. Typed(o) /\ Fits(o) /\ i \in DOMAIN o.load /\ o.load[i].e = p.load[i].e
    BY <2>2, StaysTyped, StaysFits DEF TypeInv
  <2>4. Error \in 0..Pages(o.load[i].e)
    BY <1>1, <2>3 DEF Error
  <2> QED BY <2>1, <2>3, <2>4, DeliverStays, StaysTyped DEF TypeInv
<1> QED BY <1>2, <1>3

Failing == fails \in 0..MaxFails

LEMMA TypeInvariant == Spec => [](TypeInv /\ Failing)
<1>1. Init => TypeInv /\ Failing
  <2> SUFFICES ASSUME Init PROVE TypeInv /\ Failing
    OBVIOUS
  <2> DEFINE z == <<>>
  <2>1. p = [bound |-> FALSE, src |-> Local, bucket |-> NoBucket, dir |-> z, listed |-> FALSE,
             hist |-> z, futr |-> z, nav |-> 0, s3 |-> 0, token |-> 0, off |-> 0, rows |-> {},
             grid |-> "folded", target |-> 0, need |-> FALSE, wired |-> FALSE, skel |-> FALSE,
             load |-> z, last |-> 0]
    BY DEF Init, Closed
  <2>2. /\ z \in Seq(Load) /\ z \in Seq(Entries) /\ z \in Dirs /\ DOMAIN z = {}
        /\ NoBucket \in Buckets /\ Local \in Sources /\ IsFiniteSet({})
    BY PlaceFacts, FS_EmptySet
  <2> HIDE DEF z
  <2>3. /\ p \in Panes /\ p.load = z /\ p.nav = 0 /\ p.token = 0 /\ p.off = 0 /\ p.last = 0
        /\ p.rows = {}
    BY <2>1, <2>2 DEF Panes
  <2>4. Fits(p)
    <3>1. IsFiniteSet(p.rows)
      BY <2>2, <2>3
    <3> QED BY <2>2, <2>3, <3>1 DEF Fits
  <2>5. Counts(p)
    BY <2>3 DEF Counts
  <2>6. Failing
    BY SidePaneAssumption DEF Init, Failing
  <2> QED BY <2>4, <2>5, <2>6 DEF TypeInv, Typed
<1>2. TypeInv /\ [Next]_vars => TypeInv'
  <2> SUFFICES ASSUME TypeInv, [Next]_vars PROVE TypeInv'
    OBVIOUS
  <2>1. CASE UNCHANGED vars
    BY <2>1 DEF vars, TypeInv
  <2>2. ASSUME NEW e \in Places, Open(e) \/ Show(e) \/ GotoHit(e) PROVE TypeInv'
    BY <2>2, OpenTyped, BindsTyped, GotoHitTyped
  <2>3. CASE GoBack \/ GoForward \/ Up
    BY <2>3, HistoryTyped, UpTyped
  <2>4. CASE Refresh \/ Reset \/ ExtendS3
    BY <2>4, RefreshTyped, ResetTyped, ExtendTyped
  <2>5. CASE \E src \in Sources : Rebind(src)
    BY <2>5, BindsTyped
  <2>6. ASSUME NEW i \in DOMAIN p.load, Answer(i) PROVE TypeInv'
    BY <2>6, PathReplyTyped, FailsTyped, ListReplyTyped, BeginReplyTyped, BeginFailsTyped,
       PagesTyped DEF Answer
  <2> QED BY <2>1, <2>2, <2>3, <2>4, <2>5, <2>6 DEF Next
<1>3. Failing /\ [Next]_vars => Failing'
  <2> SUFFICES ASSUME Failing, [Next]_vars PROVE Failing'
    OBVIOUS
  <2>1. UNCHANGED fails \/ (fails < MaxFails /\ fails' = fails + 1)
    BY DEF Next, vars, Open, Show, GotoHit, GoBack, GoForward, Up, Refresh, Rebind, Reset,
       ExtendS3, Calls, Answer, PathReply, StartFails, ListReply, ListFails, BeginReply,
       BeginFails, Page, PageFails, Fails
  <2>2. MaxFails \in Nat
    BY SidePaneAssumption
  <2> QED BY <2>1, <2>2 DEF Failing
<1> QED BY <1>1, <1>2, <1>3, PTL DEF Spec

(* Through any order of answers, pages, binds and failures the pane keeps   *)
(* its shape: no load sends, keeps or replays a page its folder does not    *)
(* have, none has a count its kind has not given out, no more counts of     *)
(* navSeq are taken than there are loads, and what the history and the      *)
(* binding name is a place (local.js: navigate, navigateS3, bindTo, onPage).*)
THEOREM PaneTypeCorrect == Spec => []TypeOK
<1>1. TypeInv /\ Failing => TypeOK
  <2> SUFFICES ASSUME TypeInv, Failing PROVE TypeOK
    OBVIOUS
  <2>1. /\ Typed(p) /\ Fits(p) /\ p \in Panes /\ p.load \in Seq(Load) /\ Len(p.load) \in Nat
        /\ DOMAIN p.load = 1..Len(p.load) /\ Snapshot(p) \in Entries
    BY FitsFields DEF TypeInv, Typed
  <2>2. /\ p.bound \in BOOLEAN /\ p.listed \in BOOLEAN /\ p.need \in BOOLEAN
        /\ p.wired \in BOOLEAN /\ p.skel \in BOOLEAN
        /\ p.hist \in Seq(Entries) /\ p.futr \in Seq(Entries)
        /\ p.s3 \in Nat /\ p.grid \in {"folded", "open", "done"} /\ p.target \in Nat
        /\ p.rows \in SUBSET AllRows
    BY <2>1 DEF Panes
  <2>3. p.nav \in 0..Len(p.load)
    BY <2>1, CountsFew
  <2>4. p.token \in 0..Len(p.load) /\ p.off \in 0..Len(p.load) /\ p.last \in 0..Len(p.load)
    BY <2>1 DEF Fits
  <2>5. ASSUME NEW r \in p.rows PROVE r[1] \in Entries /\ r[2] \in 1..Pages(r[1])
    <3>1. PICK e \in Entries : r \in Rows(e)
      BY <2>2 DEF AllRows
    <3>2. PICK n \in 1..Pages(e) : r = <<e, n>>
      BY <3>1 DEF Rows
    <3> QED BY <3>2
  <2>6. ASSUME NEW i \in Loads
        PROVE  /\ p.load[i].at \in Paths \cup {"lists", "begin", "stream", "gone", "failed"}
               /\ p.load[i].e \in Entries /\ p.load[i].seq \in 0..Count(p, i)
               /\ p.load[i].demand \in BOOLEAN /\ p.load[i].live \in BOOLEAN
               /\ p.load[i].walk \in {"none", "running", "over"}
               /\ p.load[i].from <= p.load[i].sent /\ p.load[i].sent \in 0..Pages(p.load[i].e)
               /\ p.load[i].early \in Seq(0..Pages(p.load[i].e))
    <3>1. /\ p.load[i] \in Load /\ Bounded(p.load[i]) /\ p.load[i].e \in Entries
          /\ p.load[i].seq <= Count(p, i)
      BY <2>1, FitsLoad DEF Loads
    <3>2. Pages(p.load[i].e) \in Nat /\ Count(p, i) \in Nat
      <4>1. p.nav \in Nat /\ p.s3 \in Nat
        BY <2>1, FitsFields
      <4> QED BY <3>1, <4>1, PagesFacts DEF Count
    <3>3. /\ p.load[i].at \in Paths \cup {"lists", "begin", "stream", "gone", "failed"}
          /\ p.load[i].seq \in Nat /\ p.load[i].demand \in BOOLEAN /\ p.load[i].live \in BOOLEAN
          /\ p.load[i].walk \in {"none", "running", "over"} /\ p.load[i].sent \in Nat
          /\ p.load[i].early \in Seq(Nat)
      BY <3>1 DEF Load
    <3>4. p.load[i].early \in Seq(0..Pages(p.load[i].e))
      <4> DEFINE s == p.load[i].early  m == Pages(p.load[i].e)
      <4>1. s \in Seq(Nat) /\ m \in Nat /\ \A n \in DOMAIN s : s[n] <= m
        BY <3>1, <3>2, <3>3 DEF Bounded
      <4> HIDE DEF s, m
      <4>2. s \in Seq(0..m)
        BY <4>1
      <4> QED BY <4>2 DEF s, m
    <3>5. /\ p.load[i].from <= p.load[i].sent /\ p.load[i].sent \in 0..Pages(p.load[i].e)
          /\ p.load[i].seq \in 0..Count(p, i)
      BY <3>1, <3>2, <3>3 DEF Bounded
    <3> QED BY <3>1, <3>3, <3>4, <3>5
  <2> QED BY <2>1, <2>2, <2>3, <2>4, <2>5, <2>6 DEF TypeOK, Failing
<1> QED BY TypeInvariant, <1>1, PTL
=============================================================================
