--------------------------- MODULE MainViewProofs ---------------------------
(***************************************************************************)
(* Three promises of the main view, for any places and folders, any number *)
(* of loads and whatever fails: neither arrow leads to the place that is   *)
(* open, every walk of the backend can be canceled, and every row on the   *)
(* screen is of the place that is open or of the newest object listing.    *)
(* Then three of the window over a big folder, which shows what such a     *)
(* listing brought: no demand dangles, the host's mirror is the grid, and  *)
(* what is in view is never cut.                                           *)
(*                                                                         *)
(* The first is inductive once the history is known to hold places.  The   *)
(* next two follow from ViewInv, which says of every load where it stands, *)
(* which listSeq it took and whether the slot is its own.  The handlers    *)
(* call each other, so the argument follows the calls: Kin relates a view  *)
(* to one with the same loads, Follows to one that shows no other rows but *)
(* of the current listing, and each operator of MainView has a lemma that  *)
(* says which of the two it keeps.  That the view keeps its type follows   *)
(* from TypeInv, of the same calls: which pages each load has and how many *)
(* counts were taken.                                                      *)
(*                                                                         *)
(* The last three follow from WindowInv: the grid is Sound, and Served by  *)
(* exactly the wire its demand opened.  Here too every operator has a      *)
(* lemma: Like, Behind and Turned say what it keeps, Lands and HoldsOn     *)
(* what becomes of the slots.                                              *)
(***************************************************************************)
EXTENDS MainView, GridWindow, FiniteSetTheorems, FunctionTheorems, SequenceTheorems,
        WellFoundedInduction, TLAPS

Histories == [stack : Seq(Places), current : Places, forward : Seq(Places)]

HistoryInv == nav \in Histories /\ NoDeadArrow

-----------------------------------------------------------------------------
(* A place other than the last may follow. *)
LEMMA AppendNoRepeat ==
    ASSUME NEW S, NEW s \in Seq(S), NEW x \in S, NEW y \in S,
           NoRepeat(Append(s, x)), x # y
    PROVE  NoRepeat(Append(Append(s, x), y))
<1> DEFINE t == Append(s, x)  u == Append(t, y)
<1>1. t \in Seq(S) /\ Len(t) = Len(s) + 1 /\ Len(u) = Len(s) + 2 /\ Len(s) \in Nat
      /\ t[Len(s) + 1] = x /\ u[Len(s) + 2] = y
  OBVIOUS
<1>2. \A i \in 1..(Len(s) + 1) : u[i] = t[i]
  BY <1>1
<1>3. \A i \in 1..Len(s) : ~SameLoc(t[i], t[i + 1])
  BY <1>1 DEF NoRepeat
<1> HIDE DEF t, u
<1>4. ASSUME NEW i \in 1..(Len(u) - 1) PROVE ~SameLoc(u[i], u[i + 1])
  <2>1. CASE i \in 1..Len(s)
    BY <1>1, <1>2, <1>3, <2>1
  <2>2. CASE i = Len(s) + 1
    BY <1>1, <1>2, <2>2 DEF SameLoc
  <2> QED BY <1>1, <2>1, <2>2
<1> QED BY <1>4 DEF NoRepeat, u, t

(* The last place comes off. *)
LEMMA FrontNoRepeat ==
    ASSUME NEW S, NEW s \in Seq(S), NEW x \in S, s # <<>>, NoRepeat(Append(s, x))
    PROVE  /\ Front(s) \in Seq(S) /\ Last(s) \in S
           /\ NoRepeat(Append(Front(s), Last(s)))
           /\ Last(s) # x
<1> DEFINE t == Append(s, x)  f == Append(Front(s), Last(s))
<1>1. Len(s) \in Nat \ {0} /\ Len(t) = Len(s) + 1 /\ t[Len(s) + 1] = x
      /\ \A i \in 1..Len(s) : t[i] = s[i]
  OBVIOUS
<1>2. Front(s) \in Seq(S) /\ Last(s) \in S /\ Len(Front(s)) = Len(s) - 1
      /\ \A i \in 1..(Len(s) - 1) : Front(s)[i] = s[i]
  <2>1. Front(s) = SubSeq(s, 1, Len(s) - 1) /\ Last(s) = s[Len(s)]
    BY DEF Front, Last
  <2>2. Len(s) \in 1..Len(s) /\ \A i \in 1..Len(s) : s[i] \in S
    BY <1>1
  <2>3. SubSeq(s, 1, Len(s) - 1) \in Seq(S) /\ Len(SubSeq(s, 1, Len(s) - 1)) = Len(s) - 1
        /\ \A i \in 1..(Len(s) - 1) : SubSeq(s, 1, Len(s) - 1)[i] = s[i]
    <3> DEFINE n == Len(s) - 1  q == SubSeq(s, 1, n)
    <3>1. n \in Nat /\ n \in Int /\ 1 \in Int /\ \A i \in 1..n : s[i] \in S
      BY <1>1, <2>2
    <3> HIDE DEF n
    <3>2. /\ q \in Seq(S)
          /\ Len(q) = IF 1 <= n THEN n - 1 + 1 ELSE 0
          /\ \A i \in 1..(n - 1 + 1) : q[i] = s[1 + i - 1]
      BY <3>1, SubSeqProperties
    <3> HIDE DEF q
    <3>3. q \in Seq(S) /\ Len(q) = n /\ \A i \in 1..n : q[i] = s[i]
      BY <3>1, <3>2
    <3> QED BY <3>3 DEF q, n
  <2> QED BY <2>1, <2>2, <2>3
<1>3. Len(f) = Len(s) /\ \A i \in 1..Len(s) : f[i] = s[i]
  BY <1>1, <1>2 DEF Last
<1>4. \A i \in 1..Len(s) : ~SameLoc(t[i], t[i + 1])
  BY <1>1 DEF NoRepeat
<1> HIDE DEF t, f
<1>5. NoRepeat(f)
  BY <1>1, <1>3, <1>4 DEF NoRepeat
<1>6. Last(s) # x
  BY <1>1, <1>4 DEF Last, SameLoc
<1> QED BY <1>2, <1>5, <1>6 DEF f

-----------------------------------------------------------------------------
(* Nothing but a navigation touches the history. *)
LEMMA OthersKeepHistory ==
    ASSUME Next
    PROVE  \/ \E loc \in Places : Navigate(loc)
           \/ GoBack \/ GoForward
           \/ UNCHANGED nav
<1>1. CASE \E i \in DOMAIN v.load : Answer(i)
  BY <1>1 DEF Answer, SetReply, Reply, ReplyFails, BeginReply, BeginFails, Page, PageFails, Keeps
<1>2. CASE RefreshSilently \/ Dismiss
  BY <1>2 DEF RefreshSilently, Dismiss
<1>3. CASE Tick \/ TickOk \/ TickFails
  BY <1>3 DEF Tick, TickOk, TickFails
<1>4. CASE (\E name \in Sources : Reconnect(name)) \/ Reconnected \/ ReconnectFails
  BY <1>4 DEF Reconnect, Reconnected, ReconnectFails
<1> QED BY <1>1, <1>2, <1>3, <1>4 DEF Next

(* A new place: it goes on no stack itself, and the place that is left      *)
(* differs from it.                                                         *)
LEMMA ToKeepsInv ==
    ASSUME HistoryInv, NEW loc \in Places, Navigate(loc)
    PROVE  HistoryInv'
<1>1. nav' = To(nav, loc)
  BY DEF Navigate, Goes
<1>2. nav.stack \in Seq(Places) /\ nav.current \in Places /\ nav.forward \in Seq(Places)
  BY DEF HistoryInv, Histories
<1>3. CASE loc = nav.current
  <2>1. nav' = nav
    BY <1>1, <1>3 DEF To, SameLoc, HistoryInv, Histories
  <2> QED BY <2>1 DEF HistoryInv, NoDeadArrow
<1>4. CASE loc # nav.current
  <2>1. nav' = [stack   |-> Append(nav.stack, nav.current),
                current |-> loc,
                forward |-> IF IsAncestorLoc(loc, nav.current)
                            THEN Append(nav.forward, nav.current) ELSE <<>>]
    BY <1>1, <1>4 DEF To, SameLoc
  <2>2. nav'.stack = Append(nav.stack, nav.current) /\ nav'.current = loc
        /\ \/ nav'.forward = Append(nav.forward, nav.current)
           \/ nav'.forward = <<>>
    BY <2>1
  <2>3. nav' \in Histories
    BY <1>2, <2>1 DEF Histories
  <2>4. NoRepeat(Append(nav'.stack, nav'.current))
    BY <1>2, <1>4, <2>2, AppendNoRepeat DEF HistoryInv, NoDeadArrow
  <2>5. NoRepeat(Append(nav'.forward, nav'.current))
    <3>1. CASE nav'.forward = Append(nav.forward, nav.current)
      BY <1>2, <1>4, <2>2, <3>1, AppendNoRepeat DEF HistoryInv, NoDeadArrow
    <3>2. CASE nav'.forward = <<>>
      BY <3>2 DEF NoRepeat
    <3> QED BY <2>2, <3>1, <3>2
  <2> QED BY <2>3, <2>4, <2>5 DEF HistoryInv, NoDeadArrow
<1> QED BY <1>3, <1>4

(* Back and Forward move one place across the place that is open. *)
LEMMA BackKeepsInv ==
    ASSUME HistoryInv, GoBack
    PROVE  HistoryInv'
<1>1. nav.stack # <<>> /\ nav' = Back(nav)
  BY DEF GoBack, Goes
<1>2. nav.stack \in Seq(Places) /\ nav.current \in Places /\ nav.forward \in Seq(Places)
      /\ NoRepeat(Append(nav.stack, nav.current)) /\ NoRepeat(Append(nav.forward, nav.current))
  BY DEF HistoryInv, Histories, NoDeadArrow
<1>3. Front(nav.stack) \in Seq(Places) /\ Last(nav.stack) \in Places
      /\ NoRepeat(Append(Front(nav.stack), Last(nav.stack)))
      /\ Last(nav.stack) # nav.current
  BY <1>1, <1>2, FrontNoRepeat
<1>4. nav'.stack = Front(nav.stack) /\ nav'.current = Last(nav.stack)
      /\ nav'.forward = Append(nav.forward, nav.current)
  BY <1>1 DEF Back
<1>5. nav' \in Histories
  BY <1>1, <1>2, <1>3 DEF Back, Histories
<1>6. NoRepeat(Append(nav'.forward, nav'.current))
  BY <1>2, <1>3, <1>4, AppendNoRepeat
<1> QED BY <1>3, <1>4, <1>5, <1>6 DEF HistoryInv, NoDeadArrow

LEMMA ForwardKeepsInv ==
    ASSUME HistoryInv, GoForward
    PROVE  HistoryInv'
<1>1. nav.forward # <<>> /\ nav' = ForwardGo(nav)
  BY DEF GoForward, Goes
<1>2. nav.stack \in Seq(Places) /\ nav.current \in Places /\ nav.forward \in Seq(Places)
      /\ NoRepeat(Append(nav.stack, nav.current)) /\ NoRepeat(Append(nav.forward, nav.current))
  BY DEF HistoryInv, Histories, NoDeadArrow
<1>3. Front(nav.forward) \in Seq(Places) /\ Last(nav.forward) \in Places
      /\ NoRepeat(Append(Front(nav.forward), Last(nav.forward)))
      /\ Last(nav.forward) # nav.current
  BY <1>1, <1>2, FrontNoRepeat
<1>4. nav'.forward = Front(nav.forward) /\ nav'.current = Last(nav.forward)
      /\ nav'.stack = Append(nav.stack, nav.current)
  BY <1>1 DEF ForwardGo
<1>5. nav' \in Histories
  BY <1>1, <1>2, <1>3 DEF ForwardGo, Histories
<1>6. NoRepeat(Append(nav'.stack, nav'.current))
  BY <1>2, <1>3, <1>4, AppendNoRepeat
<1> QED BY <1>3, <1>4, <1>5, <1>6 DEF HistoryInv, NoDeadArrow

-----------------------------------------------------------------------------
(* Every step keeps the history. *)
LEMMA HistoryInvariant == Spec => []HistoryInv
<1>1. Init => HistoryInv
  BY MainViewAssumption DEF Init, Opened, HistoryInv, Histories, NoDeadArrow, NoRepeat
<1>2. HistoryInv /\ [Next]_vars => HistoryInv'
  <2> SUFFICES ASSUME HistoryInv, [Next]_vars PROVE HistoryInv'
    OBVIOUS
  <2>1. ASSUME NEW loc \in Places, Navigate(loc) PROVE HistoryInv'
    BY <2>1, ToKeepsInv
  <2>2. CASE GoBack
    BY <2>2, BackKeepsInv
  <2>3. CASE GoForward
    BY <2>3, ForwardKeepsInv
  <2>4. CASE UNCHANGED nav
    BY <2>4 DEF HistoryInv, NoDeadArrow
  <2>5. CASE UNCHANGED vars
    BY <2>4, <2>5 DEF vars
  <2> QED BY <2>1, <2>2, <2>3, <2>4, <2>5, OthersKeepHistory
<1> QED BY <1>1, <1>2, PTL DEF Spec

(* Neither arrow of the main view ever leads to the place that is open      *)
(* (frontend/js/state.js: nav.to, back, forwardGo).                         *)
THEOREM ArrowsLeadSomewhere == Spec => []NoDeadArrow
<1>1. HistoryInv => NoDeadArrow
  BY DEF HistoryInv
<1> QED BY <1>1, HistoryInvariant, PTL

-----------------------------------------------------------------------------
(* The walks of the backend and the rows on the screen.                    *)

Progress   == {"set", "lists", "begin", "stream", "gone"}
ViewFields == {"src", "lseq", "token", "off", "rows", "grid", "overlay", "streak",
               "banner", "load"}
Load == [loc : Places, silent : BOOLEAN, at : Progress, lseq : Nat,
         walk : {"none", "running", "over"}, sent : Nat, live : BOOLEAN,
         early : Seq(Nat), held : Nat]

(* What the argument needs of the types. *)
View(h) ==
    /\ h = [f \in ViewFields |-> h[f]]
    /\ h.load \in Seq(Load) /\ h.lseq \in Nat
    /\ h.token \in {0} \cup DOMAIN h.load /\ h.off \in {0} \cup DOMAIN h.load

(* A load that opens or listens took a listSeq, and has it to itself.      *)
Begun == {"begin", "stream", "gone"}
Open  == {"stream", "gone"}
OwnCount(h) ==
    /\ \A i \in DOMAIN h.load :
         /\ h.load[i].lseq <= h.lseq
         /\ h.load[i].lseq # 0 => h.load[i].at \in Begun
         /\ h.load[i].at = "begin" \/ h.load[i].live => h.load[i].lseq # 0
    /\ \A i, j \in DOMAIN h.load :
         h.load[i].lseq = h.load[j].lseq /\ h.load[i].lseq # 0 => i = j

(* A walk is in the slot or its load still opens; the load that opens under *)
(* the current count has the slot to come, and the token is of that count.  *)
InSlot(h, i) ==
    /\ h.load[i].walk = "running" =>
         \/ h.load[i].at = "begin"
         \/ h.token = i /\ h.off = i /\ h.load[i].live /\ h.load[i].lseq = h.lseq
    /\ h.load[i].at = "begin" /\ h.load[i].lseq = h.lseq => h.off = i /\ h.load[i].live
    /\ h.token = i => h.load[i].at \in Open /\ h.load[i].lseq = h.lseq

Walks(h) == View(h) /\ OwnCount(h) /\ \A i \in DOMAIN h.load : InSlot(h, i)

(* A row is of the place of the newest load, or of the current listing. *)
Current(h, loc) ==
    \E j \in DOMAIN h.load : /\ h.load[j].lseq = h.lseq /\ h.load[j].lseq # 0
                             /\ loc = h.load[j].loc
Newly(h) == h.load[Len(h.load)]
Own(h) ==
    ~Newly(h).silent /\ Newly(h).at \in Begun
        => \A r \in h.rows : r[1] = Newly(h).loc \/ Current(h, r[1])

(* What a handler does to the loads: it names them, and it changes no      *)
(* place, count or kind of any.                                            *)
Alike(g, h) ==
    /\ Len(g.load) = Len(h.load) /\ DOMAIN g.load = DOMAIN h.load
    /\ \A j \in DOMAIN h.load : /\ g.load[j].loc = h.load[j].loc
                                /\ g.load[j].silent = h.load[j].silent
                                /\ g.load[j].lseq = h.load[j].lseq

(* g is h but for load i, which is l. *)
Only(g, h, i, l) ==
    /\ View(g)
    /\ g.lseq = h.lseq /\ g.token = h.token /\ g.off = h.off /\ g.rows = h.rows
    /\ Len(g.load) = Len(h.load) /\ DOMAIN g.load = DOMAIN h.load
    /\ g.load[i] = l /\ \A j \in DOMAIN h.load \ {i} : g.load[j] = h.load[j]

(* g is h but for the rows and the panels. *)
Panels(g, h) ==
    /\ View(g) /\ g.lseq = h.lseq /\ g.token = h.token /\ g.off = h.off /\ g.load = h.load

LEMMA LoadFacts ==
    ASSUME NEW h, View(h)
    PROVE  /\ Len(h.load) \in Nat /\ DOMAIN h.load = 1..Len(h.load)
           /\ \A i \in DOMAIN h.load :
                /\ i \in Nat /\ i # 0 /\ h.load[i] \in Load
                /\ h.load[i].lseq \in Nat /\ h.load[i].live \in BOOLEAN
                /\ h.load[i].silent \in BOOLEAN /\ h.load[i].at \in Progress
<1>1. h.load \in Seq(Load)
  BY DEF View
<1>2. Len(h.load) \in Nat /\ DOMAIN h.load = 1..Len(h.load)
      /\ \A i \in DOMAIN h.load : h.load[i] \in Load
  BY <1>1
<1>3. \A i \in DOMAIN h.load : i \in Nat /\ i # 0
  BY <1>2
<1> QED BY <1>2, <1>3 DEF Load

LEMMA SetLoad ==
    ASSUME NEW h, View(h), NEW i \in DOMAIN h.load, NEW l \in Load
    PROVE  Only([h EXCEPT !.load[i] = l], h, i, l)
<1> DEFINE s == [h.load EXCEPT ![i] = l]
           g == [h EXCEPT !.load = s]
<1>1. s \in Seq(Load) /\ Len(s) = Len(h.load) /\ DOMAIN s = DOMAIN h.load
      /\ s[i] = l /\ \A j \in DOMAIN h.load \ {i} : s[j] = h.load[j]
  BY DEF View
<1> HIDE DEF s
<1>2. g = [f \in ViewFields |-> g[f]] /\ g.load = s
      /\ g.lseq = h.lseq /\ g.token = h.token /\ g.off = h.off /\ g.rows = h.rows
  BY DEF View, ViewFields
<1> HIDE DEF g
<1>3. Only(g, h, i, l)
  BY <1>1, <1>2 DEF Only, View
<1>4. [h EXCEPT !.load[i] = l] = g
  BY DEF g, s
<1> QED BY <1>3, <1>4

LEMMA SetAt ==
    ASSUME NEW h, View(h), NEW i \in DOMAIN h.load, NEW at \in Progress
    PROVE  Only([h EXCEPT !.load[i].at = at], h, i, [h.load[i] EXCEPT !.at = at])
<1>1. [h.load[i] EXCEPT !.at = at] \in Load
  <2>1. h.load[i] \in Load
    BY LoadFacts
  <2> QED BY <2>1 DEF Load
<1>2. [h EXCEPT !.load[i].at = at] = [h EXCEPT !.load[i] = [h.load[i] EXCEPT !.at = at]]
  OBVIOUS
<1> QED BY <1>1, <1>2, SetLoad

LEMMA SetOver ==
    ASSUME NEW h, View(h), NEW i \in DOMAIN h.load
    PROVE  Only(Over(h, i), h, i, [h.load[i] EXCEPT !.walk =
                    IF h.load[i].walk = "running" THEN "over" ELSE h.load[i].walk])
<1> DEFINE l == [h.load[i] EXCEPT !.walk =
                    IF h.load[i].walk = "running" THEN "over" ELSE h.load[i].walk]
<1>1. l \in Load
  <2>1. h.load[i] \in Load
    BY LoadFacts
  <2> QED BY <2>1 DEF Load
<1>2. Over(h, i) = [h EXCEPT !.load[i] = l]
  BY DEF Over
<1> QED BY <1>1, <1>2, SetLoad

LEMMA SetOff ==
    ASSUME NEW h, View(h), NEW i \in DOMAIN h.load
    PROVE  Only(Off(h, i), h, i, [h.load[i] EXCEPT !.live = FALSE, !.early = <<>>])
<1> DEFINE l == [h.load[i] EXCEPT !.live = FALSE, !.early = <<>>]
<1>1. l \in Load
  <2>1. h.load[i] \in Load
    BY LoadFacts
  <2>2. <<>> \in Seq(Nat)
    OBVIOUS
  <2> DEFINE x == h.load[i]  e == <<>>
  <2>3. x \in Load /\ e \in Seq(Nat) /\ l = [x EXCEPT !.live = FALSE, !.early = e]
    BY <2>1, <2>2
  <2> HIDE DEF x, e, l
  <2>4. l = [x EXCEPT !.live = FALSE, !.early = e] /\ [x EXCEPT !.live = FALSE, !.early = e] \in Load
    BY <2>3 DEF Load
  <2> QED BY <2>4
<1>2. Off(h, i) = [h EXCEPT !.load[i] = l]
  BY DEF Off, View, ViewFields
<1> QED BY <1>1, <1>2, SetLoad

(* The slot without its token, and without its subscription. *)
LEMMA SetToken ==
    ASSUME NEW h, View(h), NEW n \in {0} \cup DOMAIN h.load
    PROVE  /\ View([h EXCEPT !.token = n]) /\ [h EXCEPT !.token = n].token = n
           /\ [h EXCEPT !.token = n].lseq = h.lseq /\ [h EXCEPT !.token = n].off = h.off
           /\ [h EXCEPT !.token = n].rows = h.rows /\ [h EXCEPT !.token = n].load = h.load
  BY DEF View, ViewFields

LEMMA SetSlot ==
    ASSUME NEW h, View(h), NEW n \in {0} \cup DOMAIN h.load
    PROVE  /\ View([h EXCEPT !.off = n]) /\ [h EXCEPT !.off = n].off = n
           /\ [h EXCEPT !.off = n].lseq = h.lseq /\ [h EXCEPT !.off = n].token = h.token
           /\ [h EXCEPT !.off = n].rows = h.rows /\ [h EXCEPT !.off = n].load = h.load
  BY DEF View, ViewFields

LEMMA FailedPanels ==
    ASSUME NEW h, View(h), NEW name, NEW silent
    PROVE  Panels(Failed(h, name, silent), h) /\ Failed(h, name, silent).rows = h.rows
  BY DEF Failed, Panels, View, ViewFields

LEMMA HealthyPanels ==
    ASSUME NEW h, View(h)
    PROVE  Panels(Healthy(h), h) /\ Healthy(h).rows = h.rows
  BY DEF Healthy, Panels, View, ViewFields

LEMMA FinishPanels ==
    ASSUME NEW h, View(h), NEW done
    PROVE  Panels(Finish(h, done), h) /\ Finish(h, done).rows = h.rows
<1> DEFINE g == [h EXCEPT !.grid = IF @ = "open" /\ done THEN "done" ELSE @]
<1>1. Panels(g, h) /\ g.rows = h.rows
  BY DEF Panels, View, ViewFields
<1> HIDE DEF g
<1>2. Panels(Healthy(g), g) /\ Healthy(g).rows = g.rows
  BY <1>1, HealthyPanels DEF Panels
<1> QED BY <1>1, <1>2 DEF Finish, g, Panels

(* The walk of the token is over, and the token is gone. *)
Freed(g, h) ==
    /\ View(g) /\ Alike(g, h)
    /\ g.lseq = h.lseq /\ g.rows = h.rows /\ g.token = 0
    /\ \A j \in DOMAIN h.load :
         g.load[j].walk = "running" => h.load[j].walk = "running" /\ j # h.token

LEMMA CancelListFrees ==
    ASSUME NEW h, View(h)
    PROVE  /\ Freed(CancelList(h), h) /\ CancelList(h).off = h.off
           /\ \A j \in DOMAIN h.load : /\ CancelList(h).load[j].at = h.load[j].at
                                       /\ CancelList(h).load[j].live = h.load[j].live
<1>1. CASE h.token = 0
  BY <1>1, LoadFacts DEF CancelList, Freed, Alike
<1>2. CASE h.token # 0
  <2> DEFINE t == h.token  o == Over(h, t)  g == [o EXCEPT !.token = 0]
             l == [h.load[t] EXCEPT !.walk =
                      IF h.load[t].walk = "running" THEN "over" ELSE h.load[t].walk]
  <2>1. t \in DOMAIN h.load /\ Only(o, h, t, l)
    BY <1>2, SetOver DEF View
  <2>2. h.load[t] \in Load
    BY <2>1, LoadFacts
  <2>3. /\ l.loc = h.load[t].loc /\ l.silent = h.load[t].silent /\ l.lseq = h.load[t].lseq
        /\ l.walk # "running" /\ l.at = h.load[t].at /\ l.live = h.load[t].live
    BY <2>2 DEF Load
  <2> HIDE DEF o, l
  <2>4. View(g) /\ g.token = 0 /\ g.lseq = o.lseq /\ g.off = o.off /\ g.rows = o.rows
        /\ g.load = o.load
    <3>1. View(o) /\ 0 \in {0} \cup DOMAIN o.load
      BY <2>1 DEF Only
    <3> QED BY <3>1, SetToken
  <2>5. CancelList(h) = g
    BY <1>2 DEF CancelList, o
  <2> HIDE DEF g, t
  <2>6. \A j \in DOMAIN h.load : j # t => g.load[j] = h.load[j]
    BY <2>1, <2>4 DEF Only
  <2>7. g.load[t] = l
    BY <2>1, <2>4 DEF Only
  <2>8. Freed(g, h)
    BY <2>1, <2>3, <2>4, <2>6, <2>7 DEF Freed, Alike, Only, t
  <2> QED BY <2>1, <2>3, <2>4, <2>5, <2>6, <2>7, <2>8 DEF Only
<1> QED BY <1>1, <1>2

(* A change of load i that leaves its place, kind, count and walk. *)
LEMMA FreedOnly ==
    ASSUME NEW h, NEW g, NEW k, View(h), Freed(g, h), NEW i \in DOMAIN h.load, NEW l,
           Only(k, g, i, l),
           l.loc = g.load[i].loc, l.silent = g.load[i].silent,
           l.lseq = g.load[i].lseq, l.walk = g.load[i].walk
    PROVE  Freed(k, h)
<1>1. /\ View(k) /\ k.lseq = h.lseq /\ k.rows = h.rows /\ k.token = 0
      /\ Len(k.load) = Len(h.load) /\ DOMAIN k.load = DOMAIN h.load
  BY DEF Freed, Only, Alike
<1>2. ASSUME NEW j \in DOMAIN h.load
      PROVE  /\ k.load[j].loc = h.load[j].loc /\ k.load[j].silent = h.load[j].silent
             /\ k.load[j].lseq = h.load[j].lseq /\ k.load[j].walk = g.load[j].walk
  <2>1. g.load[j].loc = h.load[j].loc /\ g.load[j].silent = h.load[j].silent
        /\ g.load[j].lseq = h.load[j].lseq
    BY DEF Freed, Alike
  <2>2. k.load[i] = l /\ (j # i => k.load[j] = g.load[j])
    BY DEF Only, Freed, Alike
  <2> QED BY <2>1, <2>2
<1> QED BY <1>1, <1>2 DEF Freed, Alike

Detached(g, h, i) ==
    /\ Freed(g, h) /\ g.off = (IF h.off = i THEN 0 ELSE h.off)
    /\ g.load[i].at = "gone" /\ g.load[i].live = FALSE
    /\ \A j \in DOMAIN h.load : j # i => /\ g.load[j].at = h.load[j].at
                                         /\ g.load[j].live = h.load[j].live

LEMMA DetachFrees ==
    ASSUME NEW h, View(h), NEW i \in DOMAIN h.load
    PROVE  Detached(DetachStream(h, i), h, i)
<1> DEFINE c == CancelList(h)  o == Off(c, i)  a == [o EXCEPT !.load[i].at = "gone"]
           n == IF h.off = i THEN 0 ELSE h.off
           g == [a EXCEPT !.off = n]
           lo == [c.load[i] EXCEPT !.live = FALSE, !.early = <<>>]
           la == [o.load[i] EXCEPT !.at = "gone"]
<1>1. /\ Freed(c, h) /\ c.off = h.off
      /\ \A j \in DOMAIN h.load : c.load[j].at = h.load[j].at /\ c.load[j].live = h.load[j].live
  BY CancelListFrees
<1> HIDE DEF c
<1>2. View(c) /\ i \in DOMAIN c.load /\ DOMAIN c.load = DOMAIN h.load
  BY <1>1 DEF Freed, Alike
<1>3. Only(o, c, i, lo)
  BY <1>2, SetOff
<1>4. /\ lo.loc = c.load[i].loc /\ lo.silent = c.load[i].silent
      /\ lo.lseq = c.load[i].lseq /\ lo.walk = c.load[i].walk /\ lo.live = FALSE
  <2>1. c.load[i] \in Load
    BY <1>2, LoadFacts
  <2> QED BY <2>1 DEF Load
<1> HIDE DEF o, lo
<1>5. Freed(o, h)
  BY <1>1, <1>3, <1>4, FreedOnly
<1>6. View(o) /\ i \in DOMAIN o.load /\ o.load[i] = lo /\ o.off = h.off
  BY <1>1, <1>2, <1>3 DEF Only
<1>7. Only(a, o, i, la)
  BY <1>6, SetAt DEF Progress
<1>8. /\ la.loc = o.load[i].loc /\ la.silent = o.load[i].silent /\ la.at = "gone"
      /\ la.lseq = o.load[i].lseq /\ la.walk = o.load[i].walk /\ la.live = o.load[i].live
  <2>1. o.load[i] \in Load
    BY <1>6, LoadFacts
  <2> QED BY <2>1 DEF Load
<1>9. DetachStream(h, i) = g
  <2>1. DetachStream(h, i) = [o EXCEPT !.load[i].at = "gone", !.off = IF o.off = i THEN 0 ELSE o.off]
    BY DEF DetachStream, o, c
  <2> QED BY <1>6, <2>1 DEF View, ViewFields
<1> HIDE DEF a, la
<1>10. Freed(a, h)
  BY <1>5, <1>7, <1>8, FreedOnly
<1>11. View(a) /\ n \in {0} \cup DOMAIN a.load
  BY <1>10 DEF Freed, Alike, View
<1> HIDE DEF n
<1>12. View(g) /\ g.off = n /\ g.token = a.token /\ g.lseq = a.lseq /\ g.rows = a.rows
       /\ g.load = a.load
  BY <1>11, SetSlot
<1> HIDE DEF g
<1>13. Freed(g, h)
  BY <1>10, <1>12 DEF Freed, Alike
<1>14. g.load[i].at = "gone" /\ g.load[i].live = FALSE
  BY <1>4, <1>6, <1>7, <1>8, <1>12 DEF Only
<1>15. ASSUME NEW j \in DOMAIN h.load \ {i} PROVE g.load[j].at = h.load[j].at /\ g.load[j].live = h.load[j].live
  <2>1. g.load[j] = c.load[j]
    BY <1>2, <1>3, <1>7, <1>12 DEF Only
  <2> QED BY <1>1, <2>1
<1> QED BY <1>9, <1>12, <1>13, <1>14, <1>15 DEF n, Detached

Canceled(g, h) ==
    /\ Freed(g, h) /\ g.off = 0
    /\ \A j \in DOMAIN h.load : /\ g.load[j].at = "begin" <=> h.load[j].at = "begin"
                                /\ g.load[j].at \in {h.load[j].at, "gone"}
                                /\ g.load[j].live => h.load[j].live

LEMMA CancelStreamFrees ==
    ASSUME NEW h, View(h)
    PROVE  Canceled(CancelListStream(h), h)
<1> DEFINE c == CancelList(h)
           o == IF h.off = 0 THEN c ELSE Off(c, h.off)
           a == IF h.off # 0 /\ h.load[h.off].at = "stream"
                THEN [o EXCEPT !.load[h.off].at = "gone"] ELSE o
           g == [a EXCEPT !.off = 0]
           Tame(k) == /\ Freed(k, h) /\ k.off = h.off
                      /\ \A j \in DOMAIN h.load : /\ k.load[j].at = "begin" <=> h.load[j].at = "begin"
                                                  /\ k.load[j].at \in {h.load[j].at, "gone"}
                                                  /\ k.load[j].live => h.load[j].live
<1>1. /\ Freed(c, h) /\ c.off = h.off
      /\ \A j \in DOMAIN h.load : c.load[j].at = h.load[j].at /\ c.load[j].live = h.load[j].live
  BY CancelListFrees
<1>2. CancelListStream(h) = g
  BY DEF CancelListStream
<1> HIDE DEF c
<1>3. View(c) /\ DOMAIN c.load = DOMAIN h.load
  BY <1>1 DEF Freed, Alike
<1>4. Tame(o) /\ \A j \in DOMAIN h.load : o.load[j].at = h.load[j].at
  <2>1. CASE h.off = 0
    BY <1>1, <2>1
  <2>2. CASE h.off # 0
    <3> DEFINE i == h.off  l == [c.load[i] EXCEPT !.live = FALSE, !.early = <<>>]
    <3>1. i \in DOMAIN c.load
      BY <1>3, <2>2 DEF View
    <3>2. Only(Off(c, i), c, i, l)
      BY <1>3, <3>1, SetOff
    <3>3. /\ l.loc = c.load[i].loc /\ l.silent = c.load[i].silent /\ l.at = c.load[i].at
          /\ l.lseq = c.load[i].lseq /\ l.walk = c.load[i].walk /\ l.live = FALSE
      <4>1. c.load[i] \in Load
        BY <1>3, <3>1, LoadFacts
      <4> QED BY <4>1 DEF Load
    <3>4. o = Off(c, i)
      BY <2>2
    <3> HIDE DEF l, o, i
    <3>5. Freed(o, h)
      BY <1>1, <1>3, <3>1, <3>2, <3>3, <3>4, FreedOnly
    <3>6. /\ o.off = h.off
          /\ o.load[i] = l /\ \A j \in DOMAIN h.load \ {i} : o.load[j] = c.load[j]
      BY <1>1, <1>3, <3>2, <3>4 DEF Only
    <3> QED BY <1>1, <3>3, <3>5, <3>6
  <2> QED BY <2>1, <2>2
<1> HIDE DEF o
<1>5. Tame(a)
  <2>1. CASE ~(h.off # 0 /\ h.load[h.off].at = "stream")
    BY <1>4, <2>1
  <2>2. CASE h.off # 0 /\ h.load[h.off].at = "stream"
    <3> DEFINE i == h.off  l == [o.load[i] EXCEPT !.at = "gone"]
    <3>1. i \in DOMAIN h.load /\ View(o) /\ DOMAIN o.load = DOMAIN h.load
      BY <1>4, <2>2 DEF View, Freed, Alike
    <3>2. Only([o EXCEPT !.load[i].at = "gone"], o, i, l)
      BY <3>1, SetAt DEF Progress
    <3>3. /\ l.loc = o.load[i].loc /\ l.silent = o.load[i].silent /\ l.at = "gone"
          /\ l.lseq = o.load[i].lseq /\ l.walk = o.load[i].walk /\ l.live = o.load[i].live
      <4>1. o.load[i] \in Load
        BY <3>1, LoadFacts
      <4> QED BY <4>1 DEF Load
    <3>4. a = [o EXCEPT !.load[i].at = "gone"] /\ h.load[i].at = "stream"
      BY <2>2
    <3> HIDE DEF l, a, i
    <3>5. Freed(a, h)
      BY <1>4, <3>1, <3>2, <3>3, <3>4, FreedOnly
    <3>6. /\ a.off = o.off
          /\ a.load[i] = l /\ \A j \in DOMAIN h.load \ {i} : a.load[j] = o.load[j]
      BY <3>1, <3>2, <3>4 DEF Only
    <3> QED BY <1>4, <3>3, <3>4, <3>5, <3>6
  <2> QED BY <2>1, <2>2
<1> HIDE DEF a
<1>6. /\ View(g) /\ g.off = 0 /\ g.token = a.token /\ g.lseq = a.lseq /\ g.rows = a.rows
      /\ g.load = a.load
  <2>1. View(a)
    BY <1>5 DEF Freed
  <2> QED BY <2>1, SetSlot
<1> HIDE DEF g
<1>7. Freed(g, h)
  BY <1>5, <1>6 DEF Freed, Alike
<1> QED BY <1>2, <1>5, <1>6, <1>7 DEF Canceled

-----------------------------------------------------------------------------
(* What an event does to the loads and the rows of a view.                 *)

Follows(g, h) ==
    /\ Walks(g) /\ Alike(g, h) /\ g.lseq = h.lseq
    /\ Newly(g).at \in Begun => Newly(h).at \in Begun
    /\ \A j \in DOMAIN h.load : h.load[j].at \in Open => g.load[j].at \in Open
    /\ \A r \in g.rows : r \in h.rows \/ Current(h, r[1])

LEMMA AlikeCurrent ==
    ASSUME NEW g, NEW h, Alike(g, h), g.lseq = h.lseq, NEW loc
    PROVE  Current(g, loc) <=> Current(h, loc)
  BY DEF Alike, Current

LEMMA NewlyIsLoad ==
    ASSUME NEW h, View(h), h.load # <<>>
    PROVE  Len(h.load) \in DOMAIN h.load /\ Newly(h) \in Load
<1>1. Len(h.load) \in DOMAIN h.load
  BY DEF View
<1> QED BY <1>1, LoadFacts DEF Newly

LEMMA FollowsOwn ==
    ASSUME NEW h, NEW g, View(h), h.load # <<>>, Own(h), Follows(g, h)
    PROVE  Own(g)
<1>1. Newly(g).silent = Newly(h).silent /\ Newly(g).loc = Newly(h).loc
  BY NewlyIsLoad DEF Follows, Alike, Newly
<1>2. \A r : Current(h, r[1]) <=> Current(g, r[1])
  BY AlikeCurrent DEF Follows
<1> QED BY <1>1, <1>2 DEF Own, Follows

LEMMA FollowsTwice ==
    ASSUME NEW h, NEW g, NEW k, Follows(g, h), Follows(k, g)
    PROVE  Follows(k, h)
<1>1. /\ Alike(k, h) /\ k.lseq = h.lseq
      /\ \A j \in DOMAIN h.load : h.load[j].at \in Open => k.load[j].at \in Open
  BY DEF Follows, Alike
<1>2. ASSUME NEW r \in k.rows PROVE r \in h.rows \/ Current(h, r[1])
  <2>1. r \in g.rows \/ Current(g, r[1])
    BY DEF Follows
  <2>2. Current(g, r[1]) => Current(h, r[1])
    BY AlikeCurrent DEF Follows
  <2> QED BY <2>1, <2>2 DEF Follows
<1> QED BY <1>1, <1>2 DEF Follows

(* Other panels, and rows of the current listing or none. *)
LEMMA PanelsFollow ==
    ASSUME NEW h, NEW g, Walks(h), Panels(g, h)
    PROVE  /\ Walks(g) /\ Alike(g, h)
           /\ (\A r \in g.rows : r \in h.rows \/ Current(h, r[1])) => Follows(g, h)
<1>1. Alike(g, h)
  BY DEF Panels, Alike
<1>2. Walks(g)
  BY DEF Walks, Panels, OwnCount, InSlot
<1> QED BY <1>1, <1>2 DEF Follows, Panels, Newly

(* A load that goes on by itself, in step with the slot. *)
LEMMA OnlyFollows ==
    ASSUME NEW h, NEW g, Walks(h), NEW i \in DOMAIN h.load, NEW l \in Load, Only(g, h, i, l),
           l.loc = h.load[i].loc, l.silent = h.load[i].silent, l.lseq = h.load[i].lseq,
           l.lseq # 0 => l.at \in Begun,
           l.at = "begin" \/ l.live => l.lseq # 0,
           InSlot(g, i), h.load[i].at \in Open => l.at \in Open
    PROVE  /\ Walks(g) /\ Alike(g, h)
           /\ (i = Len(h.load) /\ l.at \in Begun => h.load[i].at \in Begun) => Follows(g, h)
<1>1. /\ View(g) /\ g.lseq = h.lseq /\ g.token = h.token /\ g.off = h.off /\ g.rows = h.rows
      /\ Len(g.load) = Len(h.load) /\ DOMAIN g.load = DOMAIN h.load
      /\ g.load[i] = l /\ \A j \in DOMAIN h.load : j # i => g.load[j] = h.load[j]
  BY DEF Only
<1>2. Alike(g, h)
  BY <1>1 DEF Alike
<1>3. OwnCount(g)
  <2>1. \A j \in DOMAIN h.load : g.load[j].lseq = h.load[j].lseq
    BY <1>1
  <2>2. \A j \in DOMAIN h.load : /\ g.load[j].lseq # 0 => g.load[j].at \in Begun
                                 /\ g.load[j].at = "begin" \/ g.load[j].live => g.load[j].lseq # 0
    BY <1>1 DEF Walks, OwnCount
  <2> QED BY <1>1, <2>1, <2>2 DEF Walks, OwnCount
<1>4. \A j \in DOMAIN g.load : InSlot(g, j)
  BY <1>1 DEF Walks, InSlot
<1>5. Walks(g)
  BY <1>1, <1>3, <1>4 DEF Walks
<1>6. ASSUME i = Len(h.load) /\ l.at \in Begun => h.load[i].at \in Begun
      PROVE  Newly(g).at \in Begun => Newly(h).at \in Begun
  <2>1. h.load # <<>>
    BY LoadFacts DEF Walks
  <2>2. Len(h.load) \in DOMAIN h.load
    BY <2>1, NewlyIsLoad DEF Walks
  <2> QED BY <1>1, <1>6, <2>2 DEF Newly
<1>7. \A j \in DOMAIN h.load : h.load[j].at \in Open => g.load[j].at \in Open
  BY <1>1
<1> QED BY <1>1, <1>2, <1>5, <1>6, <1>7 DEF Follows

(* A listing that detaches frees the slot. *)
LEMMA DetachFollows ==
    ASSUME NEW h, Walks(h), NEW i \in DOMAIN h.load,
           h.load[i].at \in Open, h.load[i].lseq = h.lseq, h.lseq # 0
    PROVE  Follows(DetachStream(h, i), h)
<1> DEFINE g == DetachStream(h, i)
<1>1. /\ Freed(g, h)
      /\ g.load[i].at = "gone" /\ g.load[i].live = FALSE
      /\ \A j \in DOMAIN h.load : j # i => /\ g.load[j].at = h.load[j].at
                                           /\ g.load[j].live = h.load[j].live
      /\ g.off = IF h.off = i THEN 0 ELSE h.off
  <2>1. View(h)
    BY DEF Walks
  <2> QED BY <2>1, DetachFrees DEF Detached
<1> HIDE DEF g
<1>2. View(g) /\ Alike(g, h) /\ g.lseq = h.lseq /\ g.rows = h.rows /\ g.token = 0
      /\ DOMAIN g.load = DOMAIN h.load /\ Len(g.load) = Len(h.load)
      /\ \A j \in DOMAIN h.load : g.load[j].lseq = h.load[j].lseq
  BY <1>1 DEF Freed, Alike
<1>3. OwnCount(g)
  <2>1. \A j \in DOMAIN h.load : /\ g.load[j].lseq # 0 => g.load[j].at \in Begun
                                 /\ g.load[j].at = "begin" \/ g.load[j].live => g.load[j].lseq # 0
    BY <1>1, <1>2 DEF Walks, OwnCount, Begun
  <2> QED BY <1>2, <2>1 DEF Walks, OwnCount
<1>4. ASSUME NEW j \in DOMAIN g.load PROVE InSlot(g, j)
  <2>1. g.load[j].walk = "running" => g.load[j].at = "begin"
    <3> SUFFICES ASSUME g.load[j].walk = "running" PROVE g.load[j].at = "begin"
      OBVIOUS
    <3>1. h.load[j].walk = "running" /\ j # h.token
      BY <1>1, <1>2 DEF Freed
    <3>2. h.load[j].at = "begin"
      BY <1>2, <3>1 DEF Walks, InSlot
    <3> QED BY <1>1, <1>2, <3>2 DEF Open
  <2>2. ~(g.load[j].at = "begin" /\ g.load[j].lseq = g.lseq)
    <3> SUFFICES ASSUME g.load[j].at = "begin", g.load[j].lseq = g.lseq PROVE FALSE
      OBVIOUS
    <3>1. j # i
      BY <1>1
    <3>2. h.load[j].lseq = h.load[i].lseq /\ h.load[j].lseq # 0
      BY <1>2
    <3> QED BY <1>2, <3>1, <3>2 DEF Walks, OwnCount
  <2>3. g.token # j
    BY <1>2, LoadFacts
  <2> QED BY <2>1, <2>2, <2>3 DEF InSlot
<1>5. Newly(g).at \in Begun => Newly(h).at \in Begun
  <2>1. h.load # <<>>
    BY LoadFacts DEF Walks
  <2>2. Len(h.load) \in DOMAIN h.load
    BY <2>1, NewlyIsLoad DEF Walks
  <2> QED BY <1>1, <1>2, <2>2 DEF Newly, Begun, Open
<1>6. \A j \in DOMAIN h.load : h.load[j].at \in Open => g.load[j].at \in Open
  BY <1>1 DEF Open
<1> QED BY <1>2, <1>3, <1>4, <1>5, <1>6 DEF Follows, Walks, g

-----------------------------------------------------------------------------
(* Pages.                                                                  *)

Listens(h, i) ==
    Walks(h) /\ i \in DOMAIN h.load /\ h.load[i].live /\ h.load[i].at \in Open

(* A page of the current listing that reaches the grid. *)
LEMMA RowsFollow ==
    ASSUME NEW h, NEW g, NEW i, Listens(h, i), h.load[i].lseq = h.lseq, Panels(g, h),
           \A r \in g.rows : r \in h.rows \/ r[1] = h.load[i].loc
    PROVE  Follows(g, h)
<1>1. h.load[i].lseq # 0
  BY DEF Listens, Walks, OwnCount
<1>2. Current(h, h.load[i].loc)
  BY <1>1 DEF Current, Listens
<1> QED BY <1>2, PanelsFollow DEF Listens

LEMMA SameRowsFollow ==
    ASSUME NEW h, NEW g, Walks(h), Panels(g, h), g.rows = h.rows
    PROVE  Follows(g, h)
  BY PanelsFollow

LEMMA SeatFollows ==
    ASSUME NEW h, NEW i, NEW p, Listens(h, i), h.load[i].lseq = h.lseq
    PROVE  Follows(Seat(h, i, p), h)
<1> DEFINE loc  == h.load[i].loc
           done == p = PagesOf[loc]
           room == h.grid # "folded" /\ Cardinality(h.rows) < First
           h1   == [h EXCEPT !.overlay = "none",
                             !.rows = IF room \/ done THEN @ \cup {<<loc, p>>} ELSE @]
           full == (h1.grid = "folded") \/ (Cardinality(h1.rows) >= First)
           d    == DetachStream(h1, i)
<1>1. Seat(h, i, p) = IF done \/ full THEN Finish(d, done) ELSE h1
  BY DEF Seat
<1>2. View(h) /\ i \in DOMAIN h.load /\ h.load[i].lseq # 0
  BY DEF Listens, Walks, OwnCount
<1>3. Panels(h1, h) /\ \A r \in h1.rows : r \in h.rows \/ r[1] = loc
  <2> HIDE DEF room, done, loc
  <2>1. h1.rows \subseteq h.rows \cup {<<loc, p>>}
    BY <1>2 DEF View, ViewFields
  <2>2. Panels(h1, h)
    BY <1>2 DEF Panels, View, ViewFields
  <2> QED BY <2>1, <2>2
<1> HIDE DEF h1, full, done
<1>4. Follows(h1, h)
  BY <1>3, RowsFollow
<1>5. Walks(h1) /\ i \in DOMAIN h1.load /\ h1.load[i] = h.load[i] /\ h1.lseq = h.lseq
  BY <1>2, <1>3, <1>4 DEF Follows, Panels
<1>6. Follows(d, h1)
  BY <1>2, <1>5, DetachFollows DEF Listens
<1> HIDE DEF d
<1>7. Follows(Finish(d, done), d)
  <2>1. Walks(d) /\ View(d)
    BY <1>6 DEF Follows, Walks
  <2> QED BY <2>1, FinishPanels, SameRowsFollow
<1> QED BY <1>1, <1>4, <1>6, <1>7, FollowsTwice

LEMMA KeepFollows ==
    ASSUME NEW h, NEW i, NEW p, Listens(h, i), h.load[i].lseq = h.lseq
    PROVE  Follows(Keep(h, i, p), h)
<1> DEFINE loc == h.load[i].loc
           d   == DetachStream(h, i)
           k   == [d EXCEPT !.rows = Pages(loc), !.grid = "folded"]
           l   == [h.load[i] EXCEPT !.held = h.load[i].held + 1]
           m   == [h EXCEPT !.load[i].held = @ + 1]
<1>1. View(h) /\ i \in DOMAIN h.load /\ h.load[i].lseq # 0 /\ h.load[i] \in Load
  BY LoadFacts DEF Listens, Walks, OwnCount
<1>2. Follows(d, h)
  BY <1>1, DetachFollows DEF Listens
<1>3. Keep(h, i, p) \in {Finish(k, TRUE), d, m}
  BY DEF Keep
<1>4. Follows(m, h)
  <2>1. m = [h EXCEPT !.load[i] = l]
    OBVIOUS
  <2>2. /\ l \in Load /\ l.loc = h.load[i].loc /\ l.silent = h.load[i].silent
        /\ l.lseq = h.load[i].lseq /\ l.at = h.load[i].at /\ l.live = h.load[i].live
        /\ l.walk = h.load[i].walk
    <3> DEFINE g == h.load[i]
               n == g.held + 1
    <3>1. g \in Load /\ l = [g EXCEPT !.held = n]
      BY <1>1
    <3> HIDE DEF g, l
    <3>2. n \in Nat
      BY <3>1 DEF Load
    <3> HIDE DEF n
    <3>3. l \in Load
      BY <3>1, <3>2 DEF Load
    <3>4. /\ l.loc = g.loc /\ l.silent = g.silent /\ l.lseq = g.lseq
          /\ l.at = g.at /\ l.live = g.live /\ l.walk = g.walk
      BY <3>1 DEF Load
    <3> QED BY <3>3, <3>4 DEF g
  <2> HIDE DEF l, m
  <2>3. Only(m, h, i, l)
    BY <1>1, <2>1, <2>2, SetLoad
  <2>4. InSlot(m, i)
    BY <1>1, <2>2, <2>3 DEF Listens, Walks, InSlot, Only
  <2>5. l.lseq # 0 /\ l.at \in Begun
    BY <1>1, <2>2 DEF Listens, Open, Begun
  <2> QED BY <1>1, <2>2, <2>3, <2>4, <2>5, OnlyFollows DEF Listens
<1>5. Follows(Finish(k, TRUE), h)
  <2> HIDE DEF d
  <2>1. Walks(d) /\ View(d) /\ Alike(d, h) /\ d.lseq = h.lseq
    BY <1>2 DEF Follows, Walks
  <2>2. Panels(k, d) /\ k.rows = Pages(loc)
    BY <2>1 DEF Panels, View, ViewFields
  <2> HIDE DEF k
  <2>3. \A r \in k.rows : Current(d, r[1])
    <3>1. Current(h, loc)
      BY <1>1 DEF Current
    <3>2. Current(d, loc)
      BY <2>1, <3>1, AlikeCurrent
    <3> QED BY <2>2, <3>2 DEF Pages
  <2>4. Follows(k, d)
    BY <2>1, <2>2, <2>3, PanelsFollow
  <2>5. Follows(Finish(k, TRUE), k)
    <3>1. Walks(k) /\ View(k)
      BY <2>4 DEF Follows, Walks
    <3> QED BY <3>1, FinishPanels, SameRowsFollow
  <2> QED BY <1>2, <2>4, <2>5, FollowsTwice
<1> QED BY <1>2, <1>3, <1>4, <1>5

LEMMA BrokenFollows ==
    ASSUME NEW h, NEW i \in DOMAIN h.load, Walks(h), h.load[i].at \in Open
    PROVE  Follows(Broken(h, i), h)
<1> DEFINE l == [h.load[i] EXCEPT !.at = "gone"]
           a == [h EXCEPT !.load[i].at = "gone"]
           f == Failed(a, h.load[i].loc.source, h.load[i].silent)
           o == [f EXCEPT !.overlay = "error"]
<1>1. View(h) /\ h.load[i] \in Load
  BY LoadFacts DEF Walks
<1>2. /\ l \in Load /\ l.loc = h.load[i].loc /\ l.silent = h.load[i].silent
      /\ l.lseq = h.load[i].lseq /\ l.at = "gone" /\ l.live = h.load[i].live
      /\ l.walk = h.load[i].walk
  BY <1>1 DEF Load, Progress
<1>3. Only(a, h, i, l)
  BY <1>1, SetAt DEF Progress
<1>4. Broken(h, i) \in {f, o}
  BY DEF Broken
<1> HIDE DEF l, a
<1>5. InSlot(a, i)
  BY <1>2, <1>3 DEF Walks, InSlot, Only, Open
<1>6. Follows(a, h)
  <2>1. /\ l.lseq # 0 => l.at \in Begun
        /\ l.at = "begin" \/ l.live => l.lseq # 0
        /\ l.at \in Open /\ h.load[i].at \in Begun
    BY <1>2 DEF Walks, OwnCount, Open, Begun
  <2> QED BY <1>2, <1>3, <1>5, <2>1, OnlyFollows
<1>7. Follows(f, a)
  <2>1. Walks(a) /\ View(a)
    BY <1>6 DEF Follows, Walks
  <2> QED BY <2>1, FailedPanels, SameRowsFollow
<1> HIDE DEF f
<1>8. Follows(o, f)
  <2>1. Walks(f) /\ View(f)
    BY <1>7 DEF Follows, Walks
  <2>2. Panels(o, f) /\ o.rows = f.rows
    BY <2>1 DEF Panels, View, ViewFields
  <2> QED BY <2>1, <2>2, SameRowsFollow
<1> QED BY <1>4, <1>6, <1>7, <1>8, FollowsTwice

LEMMA HandleFollows ==
    ASSUME NEW h, NEW i, NEW p, Listens(h, i)
    PROVE  Follows(Handle(h, i, p), h)
<1>1. CASE h.load[i].lseq # h.lseq
  <2>1. Handle(h, i, p) = h
    BY <1>1 DEF Handle
  <2> QED BY <2>1 DEF Listens, Follows, Alike
<1>2. CASE h.load[i].lseq = h.lseq
  <2>1. Handle(h, i, p) \in {Broken(h, i), Keep(h, i, p), Seat(h, i, p)}
    BY <1>2 DEF Handle
  <2> QED BY <1>2, <2>1, BrokenFollows, KeepFollows, SeatFollows DEF Listens
<1> QED BY <1>1, <1>2

(* Induction over the early pages, by the least counterexample. *)
LEMMA LeastOf ==
    ASSUME NEW S, S \subseteq Nat, S # {}
    PROVE  \E i \in S : i = 0 \/ (i - 1 \in Nat /\ i - 1 \notin S)
<1>1. PICK j \in S : \A k \in S : <<k, j>> \notin OpToRel(<, Nat)
  BY WFMin, NatLessThanWellFounded, Zenon
<1>2. \A k \in S : ~(k < j)
  BY <1>1, Zenon DEF OpToRel
<1>3. j \in Nat
  BY <1>1
<1>4. j # 0 => j - 1 \in Nat /\ j - 1 < j
  BY <1>3
<1> QED BY <1>1, <1>2, <1>4

Replayed(h, i, page) == IF h.load[i].live THEN Handle(h, i, page) ELSE h
Replays(f, h, i, pages, m) ==
    f = [n \in 0..m |-> IF n = 0 THEN h ELSE Replayed(f[n - 1], i, pages[n])]

LEMMA ReplayExists ==
    ASSUME NEW h, NEW i, NEW pages, NEW m \in Nat
    PROVE  \E f : Replays(f, h, i, pages, m)
<1> DEFINE S == {k \in Nat : ~\E f : Replays(f, h, i, pages, k)}
<1> SUFFICES ASSUME S # {} PROVE FALSE
  BY DEF S
<1>1. PICK k \in S : k = 0 \/ (k - 1 \in Nat /\ k - 1 \notin S)
  BY LeastOf
<1>2. k \in Nat /\ ~\E f : Replays(f, h, i, pages, k)
  BY <1>1
<1>3. CASE k = 0
  <2> DEFINE f == [n \in 0..0 |-> h]
  <2>1. \A n \in 0..0 : n = 0
    OBVIOUS
  <2>2. Replays(f, h, i, pages, 0)
    BY <2>1 DEF Replays
  <2> QED BY <1>2, <1>3, <2>2
<1>4. CASE k # 0
  <2>1. k - 1 \in Nat /\ \E f : Replays(f, h, i, pages, k - 1)
    BY <1>1, <1>4
  <2>2. PICK f : Replays(f, h, i, pages, k - 1)
    BY <2>1
  <2> DEFINE g == [n \in 0..k |-> IF n = k THEN Replayed(f[k - 1], i, pages[k]) ELSE f[n]]
  <2>3. \A n \in 0..(k - 1) : f[n] = IF n = 0 THEN h ELSE Replayed(f[n - 1], i, pages[n])
    BY <2>2 DEF Replays
  <2>4. \A n \in 0..k : n # k => n \in 0..(k - 1)
    BY <1>2
  <2>5. \A n \in 0..k : n # 0 => n - 1 \in 0..k /\ n - 1 # k /\ n - 1 \in 0..(k - 1)
    BY <1>2
  <2>6. \A n \in 0..k : g[n] = IF n = 0 THEN h ELSE Replayed(g[n - 1], i, pages[n])
    <3> SUFFICES ASSUME NEW n \in 0..k
                 PROVE  g[n] = IF n = 0 THEN h ELSE Replayed(g[n - 1], i, pages[n])
      OBVIOUS
    <3>1. n # 0 => g[n - 1] = f[n - 1]
      BY <2>5
    <3>2. CASE n = k
      BY <1>4, <3>1, <3>2
    <3>3. CASE n # k
      BY <2>3, <2>4, <3>1, <3>3
    <3> QED BY <3>2, <3>3
  <2>7. g = [n \in 0..k |-> IF n = 0 THEN h ELSE Replayed(g[n - 1], i, pages[n])]
    <3>1. g = [n \in 0..k |-> g[n]]
      OBVIOUS
    <3> HIDE DEF g
    <3> QED BY <2>6, <3>1
  <2> QED BY <1>2, <2>7 DEF Replays
<1> QED BY <1>3, <1>4

LEMMA FlushFollows ==
    ASSUME NEW h, NEW i \in DOMAIN h.load, NEW pages \in Seq(Nat),
           Walks(h), h.load[i].at \in Open
    PROVE  Follows(Flush(h, i, pages), h)
<1> DEFINE m == Len(pages)
           f == CHOOSE f : Replays(f, h, i, pages, m)
           S == {k \in Nat : k \in 0..m /\ ~Follows(f[k], h)}
<1>1. m \in Nat /\ m \in 0..m
  OBVIOUS
<1>2. Flush(h, i, pages) = f[m]
  BY DEF Flush, Replays, Replayed
<1>3. Replays(f, h, i, pages, m)
  BY <1>1, ReplayExists
<1> HIDE DEF f, m
<1>4. \A n \in 0..m : f[n] = IF n = 0 THEN h ELSE Replayed(f[n - 1], i, pages[n])
  BY <1>3 DEF Replays
<1>5. ASSUME S # {} PROVE FALSE
  <2>1. PICK k \in S : k = 0 \/ (k - 1 \in Nat /\ k - 1 \notin S)
    BY <1>5, LeastOf
  <2>2. k \in 0..m /\ ~Follows(f[k], h)
    BY <2>1
  <2>3. CASE k = 0
    <3>1. f[0] = h
      BY <1>4, <2>2, <2>3
    <3> QED BY <2>2, <2>3, <3>1 DEF Follows, Alike
  <2>4. CASE k # 0
    <3> DEFINE g == f[k - 1]
    <3>1. k - 1 \in 0..m /\ k - 1 \notin S
      BY <1>1, <2>1, <2>2, <2>4
    <3>2. Follows(g, h)
      BY <3>1
    <3>3. f[k] = Replayed(g, i, pages[k])
      BY <1>4, <2>2, <2>4
    <3> HIDE DEF g
    <3>4. Walks(g) /\ i \in DOMAIN g.load /\ g.load[i].at \in Open
      BY <3>2 DEF Follows, Alike
    <3>5. CASE g.load[i].live
      <4>1. Follows(Handle(g, i, pages[k]), g)
        BY <3>4, <3>5, HandleFollows DEF Listens
      <4>2. Follows(f[k], h)
        BY <3>2, <3>3, <3>5, <4>1, FollowsTwice DEF Replayed
      <4> QED BY <2>2, <4>2
    <3>6. CASE ~g.load[i].live
      BY <2>2, <3>2, <3>3, <3>6 DEF Replayed
    <3> QED BY <3>5, <3>6
  <2> QED BY <2>3, <2>4
<1> QED BY <1>1, <1>2, <1>5

-----------------------------------------------------------------------------
(* A load begins.                                                          *)

(* The same loads, wherever they stand. *)
Kin(g, h) ==
    /\ Walks(g) /\ Len(g.load) = Len(h.load) /\ DOMAIN g.load = DOMAIN h.load
    /\ \A j \in DOMAIN h.load : /\ g.load[j].loc = h.load[j].loc
                                /\ g.load[j].silent = h.load[j].silent

LEMMA FollowsKin ==
    ASSUME NEW h, NEW g, Follows(g, h)
    PROVE  Kin(g, h)
  BY DEF Follows, Alike, Kin

(* A load that has not begun has no walk, no listSeq and no subscription. *)
LEMMA Unbegun ==
    ASSUME NEW h, Walks(h), NEW i \in DOMAIN h.load, h.load[i].at \notin Begun
    PROVE  /\ h.load[i].walk # "running" /\ h.load[i].lseq = 0
           /\ h.load[i].live = FALSE /\ h.token # i
<1>1. h.load[i].lseq = 0 /\ ~h.load[i].live
  BY DEF Walks, OwnCount
<1>2. h.load[i].live = FALSE
  BY <1>1, LoadFacts DEF Walks
<1> QED BY <1>1, <1>2 DEF Walks, InSlot, Begun, Open

(* A new count: what was in the slot is canceled, and nobody else has it. *)
LEMMA NewCountWalks ==
    ASSUME NEW h, Walks(h), NEW c, Canceled(c, h), NEW i \in DOMAIN h.load,
           h.load[i].at \notin Begun,
           NEW g, View(g), DOMAIN g.load = DOMAIN h.load,
           g.lseq = h.lseq + 1, g.token = 0,
           \A j \in DOMAIN h.load : j # i => g.load[j] = c.load[j],
           g.load[i].lseq = h.lseq + 1,
           \/ g.load[i].at = "gone" /\ g.load[i].walk # "running"
           \/ g.load[i].at = "begin" /\ g.off = i /\ g.load[i].live
    PROVE  Walks(g)
<1>1. /\ h.lseq \in Nat /\ \A j \in DOMAIN h.load : h.load[j].lseq \in Nat /\ j # 0
      /\ \A j \in DOMAIN h.load : c.load[j].lseq = h.load[j].lseq
      /\ \A j \in DOMAIN h.load : c.load[j].walk = "running" => h.load[j].walk = "running" /\ j # h.token
  <2>1. h.lseq \in Nat /\ \A j \in DOMAIN h.load : h.load[j].lseq \in Nat /\ j # 0
    BY LoadFacts DEF Walks, View
  <2> QED BY <2>1 DEF Canceled, Freed, Alike
<1>2. \A j \in DOMAIN h.load : j # i => g.load[j].lseq = h.load[j].lseq /\ g.load[j].lseq <= h.lseq
  BY <1>1 DEF Walks, OwnCount
<1>3. OwnCount(g)
  <2>1. \A j \in DOMAIN h.load : g.load[j].lseq <= g.lseq
    BY <1>1, <1>2
  <2>2. ASSUME NEW j \in DOMAIN h.load
        PROVE  /\ g.load[j].lseq # 0 => g.load[j].at \in Begun
               /\ g.load[j].at = "begin" \/ g.load[j].live => g.load[j].lseq # 0
    <3>1. CASE j = i
      BY <1>1, <3>1 DEF Begun
    <3>2. CASE j # i
      <4>1. g.load[j] = c.load[j]
        BY <3>2
      <4> QED BY <1>1, <4>1 DEF Walks, OwnCount, Canceled, Begun
    <3> QED BY <3>1, <3>2
  <2>3. \A j, k \in DOMAIN h.load : g.load[j].lseq = g.load[k].lseq /\ g.load[j].lseq # 0 => j = k
    <3>1. \A j \in DOMAIN h.load : j # i => g.load[j].lseq # g.load[i].lseq
      BY <1>1, <1>2
    <3> QED BY <1>2, <3>1 DEF Walks, OwnCount
  <2> QED BY <2>1, <2>2, <2>3 DEF OwnCount
<1>4. ASSUME NEW j \in DOMAIN g.load PROVE InSlot(g, j)
  <2>1. g.token # j
    BY <1>1
  <2>2. CASE j = i
    BY <2>1, <2>2 DEF InSlot
  <2>3. CASE j # i
    <3>1. g.load[j] = c.load[j] /\ g.load[j].lseq # g.lseq
      BY <1>1, <1>2, <2>3
    <3>2. g.load[j].walk = "running" => g.load[j].at = "begin"
      BY <1>1, <3>1 DEF Canceled, Walks, InSlot
    <3> QED BY <2>1, <3>1, <3>2 DEF InSlot
  <2> QED BY <2>2, <2>3
<1> QED BY <1>3, <1>4 DEF Walks

LEMMA BeginBegins ==
    ASSUME NEW h, Walks(h), h.load # <<>>, Newly(h).at \notin Begun
    PROVE  Kin(Begin(h, Len(h.load)), h) /\ Own(Begin(h, Len(h.load)))
<1> DEFINE i  == Len(h.load)
           c  == CancelListStream(h)
           n  == h.lseq + 1
           l1 == [c.load[i] EXCEPT !.lseq = n]
           h1 == [c EXCEPT !.lseq = n, !.load[i].lseq = n]
           ha == [h1 EXCEPT !.load[i].at = "gone"]
           la == [h1.load[i] EXCEPT !.at = "gone"]
           h2 == [h1 EXCEPT !.rows = {}, !.grid = "open"]
           Opens(k) == [k EXCEPT !.off = i, !.load[i].at = "begin", !.load[i].live = TRUE,
                                 !.load[i].walk = "running"]
           Built(k) == /\ View(k) /\ k.lseq = n /\ k.token = 0
                       /\ DOMAIN k.load = DOMAIN h.load /\ Len(k.load) = Len(h.load)
                       /\ k.load[i].lseq = n /\ k.load[i].loc = h.load[i].loc
                       /\ k.load[i].silent = h.load[i].silent
                       /\ \A j \in DOMAIN h.load : j # i => k.load[j] = c.load[j]
<1>1. i \in DOMAIN h.load /\ View(h) /\ h.load[i].at \notin Begun
  BY NewlyIsLoad DEF Walks, Newly
<1>2. Canceled(c, h)
  BY <1>1, CancelStreamFrees
<1>3. Begin(h, i) \in {ha, Opens(h1), Opens(h2)} /\ (h.load[i].silent \/ Begin(h, i) = Opens(h2))
  <2>1. c.lseq = h.lseq
    BY <1>2 DEF Canceled, Freed
  <2>2. h1 = [c EXCEPT !.lseq = @ + 1, !.load[i].lseq = h.lseq + 1]
    BY <2>1
  <2> HIDE DEF i, h1
  <2> QED BY <2>2 DEF Begin
<1> HIDE DEF i
<1>4. View(c) /\ DOMAIN c.load = DOMAIN h.load /\ Len(c.load) = Len(h.load)
      /\ c.lseq = h.lseq /\ c.token = 0 /\ c.off = 0 /\ c.load[i] \in Load /\ n \in Nat
      /\ \A j \in DOMAIN h.load : /\ c.load[j].loc = h.load[j].loc
                                  /\ c.load[j].silent = h.load[j].silent
  <2>1. View(c) /\ DOMAIN c.load = DOMAIN h.load
    BY <1>2 DEF Canceled, Freed, Alike
  <2>2. c.load[i] \in Load
    BY <1>1, <2>1, LoadFacts
  <2>3. n \in Nat
    BY <1>1 DEF View
  <2> QED BY <1>2, <2>1, <2>2, <2>3 DEF Canceled, Freed, Alike
<1> HIDE DEF n, c
<1>5. /\ l1 \in Load /\ l1.lseq = n /\ l1.loc = c.load[i].loc
      /\ l1.silent = c.load[i].silent /\ l1.walk = c.load[i].walk
  BY <1>4 DEF Load
<1> DEFINE s1 == [c.load EXCEPT ![i] = l1]
<1>6. Built(h1) /\ h1.load[i] = l1
  <2>1. /\ s1 \in Seq(Load) /\ Len(s1) = Len(c.load) /\ DOMAIN s1 = DOMAIN c.load
        /\ s1[i] = l1 /\ \A j \in DOMAIN c.load : j # i => s1[j] = c.load[j]
    BY <1>1, <1>4, <1>5 DEF View
  <2>2. h1 = [c EXCEPT !.lseq = n, !.load = s1]
    BY <1>4 DEF View, ViewFields
  <2> HIDE DEF s1, l1, h1
  <2>3. h1 = [f \in ViewFields |-> h1[f]] /\ h1.load = s1 /\ h1.lseq = n
        /\ h1.token = 0 /\ h1.off = 0
    BY <1>4, <2>2 DEF View, ViewFields
  <2>4. View(h1)
    BY <1>4, <2>1, <2>3 DEF View
  <2> QED BY <1>1, <1>4, <1>5, <2>1, <2>3, <2>4
<1> HIDE DEF h1, l1, s1
<1>7. Built(ha) /\ ha.load[i].at = "gone" /\ ha.load[i].walk = c.load[i].walk
  <2>1. View(h1) /\ i \in DOMAIN h1.load
    BY <1>1, <1>6
  <2>2. Only(ha, h1, i, la)
    BY <2>1, SetAt DEF Progress
  <2>3. la.lseq = l1.lseq /\ la.loc = l1.loc /\ la.silent = l1.silent /\ la.walk = l1.walk /\ la.at = "gone"
    BY <1>5, <1>6 DEF Load
  <2> HIDE DEF la, ha
  <2> QED BY <1>1, <1>4, <1>5, <1>6, <2>2, <2>3 DEF Only
<1> HIDE DEF ha
<1>8. Built(h2) /\ h2.load[i] = l1 /\ h2.rows = {}
  <2>1. View(h1) /\ h2 = [h1 EXCEPT !.rows = {}, !.grid = "open"]
    BY <1>6
  <2>2. View(h2) /\ h2.load = h1.load /\ h2.lseq = h1.lseq /\ h2.token = h1.token /\ h2.rows = {}
    BY <2>1 DEF View, ViewFields
  <2> QED BY <1>6, <2>2
<1> HIDE DEF h2
<1>9. ASSUME NEW k, Built(k), k.load[i] = l1
      PROVE  /\ Built(Opens(k)) /\ Opens(k).rows = k.rows /\ Opens(k).off = i
             /\ Opens(k).load[i].at = "begin" /\ Opens(k).load[i].live
  <2> DEFINE lb == [k.load[i] EXCEPT !.at = "begin", !.live = TRUE, !.walk = "running"]
             kb == [k EXCEPT !.load[i] = lb]
             ko == [kb EXCEPT !.off = i]
  <2>1. View(k) /\ i \in DOMAIN k.load /\ k.load[i] \in Load
    BY <1>1, <1>5, <1>9
  <2>2. /\ lb \in Load /\ lb.lseq = k.load[i].lseq /\ lb.loc = k.load[i].loc
        /\ lb.silent = k.load[i].silent /\ lb.at = "begin" /\ lb.live = TRUE
    BY <2>1 DEF Load, Progress
  <2>3. Only(kb, k, i, lb)
    BY <2>1, <2>2, SetLoad
  <2>4. Opens(k) = ko
    BY <2>1 DEF View, ViewFields
  <2> HIDE DEF kb, lb
  <2>5. View(kb) /\ i \in {0} \cup DOMAIN kb.load
    BY <2>1, <2>3 DEF Only
  <2>6. View(ko) /\ ko.off = i /\ ko.lseq = kb.lseq /\ ko.token = kb.token /\ ko.rows = kb.rows
        /\ ko.load = kb.load
    BY <2>5, SetSlot
  <2> HIDE DEF ko, Opens
  <2> QED BY <1>1, <1>9, <2>2, <2>3, <2>4, <2>6 DEF Only
<1> HIDE DEF Opens
<1>10. ASSUME NEW k, Built(k),
              \/ k.load[i].at = "gone" /\ k.load[i].walk # "running"
              \/ k.load[i].at = "begin" /\ k.off = i /\ k.load[i].live
       PROVE  Kin(k, h)
  <2>1. Walks(k)
    BY <1>1, <1>2, <1>10, NewCountWalks DEF n
  <2> QED BY <1>1, <1>4, <1>10, <2>1 DEF Kin
<1>11. c.load[i].walk # "running"
  BY <1>1, <1>2, Unbegun DEF Canceled, Freed
<1>12. Kin(Begin(h, i), h)
  <2>1. Kin(ha, h)
    BY <1>7, <1>10, <1>11
  <2>2. Kin(Opens(h1), h)
    BY <1>6, <1>9, <1>10
  <2>3. Kin(Opens(h2), h)
    BY <1>8, <1>9, <1>10
  <2> QED BY <1>3, <2>1, <2>2, <2>3
<1>13. Own(Begin(h, i))
  <2>1. CASE h.load[i].silent
    <3>1. Newly(Begin(h, i)).silent
      BY <1>1, <1>12, <2>1 DEF Kin, Newly, i
    <3> QED BY <3>1 DEF Own
  <2>2. CASE ~h.load[i].silent
    <3>1. Begin(h, i) = Opens(h2) /\ Opens(h2).rows = {}
      BY <1>3, <1>8, <1>9, <2>2
    <3> QED BY <3>1 DEF Own
  <2> QED BY <2>1, <2>2
<1> QED BY <1>12, <1>13 DEF i

(* A load that has not begun moves on, or is dropped. *)
LEMMA UnbegunFollows ==
    ASSUME NEW h, Walks(h), NEW i \in DOMAIN h.load, h.load[i].at \notin Begun,
           NEW at \in Progress \ {"begin"}
    PROVE  /\ Kin([h EXCEPT !.load[i].at = at], h)
           /\ at \notin Begun \/ i # Len(h.load) => Follows([h EXCEPT !.load[i].at = at], h)
<1> DEFINE g == [h EXCEPT !.load[i].at = at]
           l == [h.load[i] EXCEPT !.at = at]
<1>1. Only(g, h, i, l)
  BY SetAt DEF Walks
<1>2. h.load[i] \in Load
  BY LoadFacts DEF Walks
<1>3. /\ l \in Load /\ l.loc = h.load[i].loc /\ l.silent = h.load[i].silent
      /\ l.lseq = h.load[i].lseq /\ l.at = at /\ l.live = h.load[i].live
      /\ l.walk = h.load[i].walk
  BY <1>2 DEF Load
<1>4. /\ h.load[i].walk # "running" /\ h.load[i].lseq = 0
      /\ h.load[i].live = FALSE /\ h.token # i
  BY Unbegun
<1> HIDE DEF g, l
<1>5. InSlot(g, i)
  BY <1>1, <1>3, <1>4 DEF InSlot, Only
<1>6. h.load[i].at \in Open => l.at \in Open
  BY DEF Open, Begun
<1>7. Walks(g) /\ Alike(g, h) /\ (at \notin Begun \/ i # Len(h.load) => Follows(g, h))
  BY <1>1, <1>3, <1>4, <1>5, <1>6, OnlyFollows
<1>8. Kin(g, h)
  BY <1>7 DEF Kin, Alike
<1> QED BY <1>7, <1>8 DEF g

LEMMA SourcedKin ==
    ASSUME NEW h, Walks(h), NEW i \in DOMAIN h.load, h.load[i].at \notin Begun
    PROVE  Kin(Sourced(h, i), h) /\ (Own(h) => Own(Sourced(h, i)))
<1> DEFINE a == [h EXCEPT !.load[i].at = "lists"]
           b == [h EXCEPT !.load[i].at = "gone"]
<1>1. View(h) /\ h.load # <<>>
  BY LoadFacts DEF Walks
<1>2. Sourced(h, i) = IF h.load[i].loc.kind = "buckets" THEN a
                      ELSE IF i = Len(h.load) THEN Begin(h, i) ELSE b
  BY DEF Sourced, Newest
<1>3. Follows(a, h)
  BY UnbegunFollows DEF Progress, Begun
<1>4. i # Len(h.load) => Follows(b, h)
  BY UnbegunFollows DEF Progress
<1>5. i = Len(h.load) => Kin(Begin(h, i), h) /\ Own(Begin(h, i))
  BY <1>1, BeginBegins DEF Newly
<1> HIDE DEF a, b
<1> QED BY <1>1, <1>2, <1>3, <1>4, <1>5, FollowsKin, FollowsOwn

(* loadView: the view is then of the place that was asked for. *)
Shows(g, loc) == Walks(g) /\ g.load # <<>> /\ Newly(g).loc = loc /\ Own(g)

LEMMA LoadViewShows ==
    ASSUME NEW h, Walks(h), NEW loc \in Places, NEW silent \in BOOLEAN
    PROVE  Shows(LoadView(h, loc, silent), loc)
<1> DEFINE n     == Len(h.load)
           moves == loc.kind \notin Remote /\ loc.source # h.src
           at    == IF moves THEN "set" ELSE "lists"
           new   == Fresh(loc, silent, at)
           s     == Append(h.load, new)
           g     == [h EXCEPT !.overlay = IF silent THEN "none" ELSE "loading", !.load = s]
<1>1. View(h) /\ n \in Nat /\ DOMAIN h.load = 1..n /\ h.load \in Seq(Load)
  BY LoadFacts DEF Walks, View
<1>2. LoadView(h, loc, silent) \in {g, Sourced(g, n + 1)}
  BY DEF LoadView
<1>3. /\ new \in Load /\ new.lseq = 0 /\ new.walk = "none" /\ new.live = FALSE
      /\ new.loc = loc /\ new.at \notin Begun
  <2>1. <<>> \in Seq(Nat) /\ at \in Progress /\ at \notin Begun
    BY DEF Progress, Begun
  <2> DEFINE e == <<>>
  <2>2. new = [loc |-> loc, silent |-> silent, at |-> at, lseq |-> 0, walk |-> "none",
               sent |-> 0, live |-> FALSE, early |-> e, held |-> 0]
    BY DEF Fresh
  <2>3. e \in Seq(Nat)
    BY <2>1
  <2> HIDE DEF e, at, new
  <2> QED BY <2>1, <2>2, <2>3 DEF Load
<1> HIDE DEF new
<1>4. /\ s \in Seq(Load) /\ Len(s) = n + 1 /\ DOMAIN s = 1..(n + 1) /\ s[n + 1] = new
      /\ \A j \in 1..n : s[j] = h.load[j]
  BY <1>1, <1>3
<1> HIDE DEF s, n
<1>5. /\ g = [f \in ViewFields |-> g[f]] /\ g.load = s /\ g.lseq = h.lseq
      /\ g.token = h.token /\ g.off = h.off
  BY <1>1 DEF View, ViewFields
<1> HIDE DEF g
<1>6. /\ View(g) /\ DOMAIN g.load = 1..(n + 1) /\ Len(g.load) = n + 1
      /\ \A j \in 1..(n + 1) : j \in 1..n \/ j = n + 1
      /\ h.lseq \in Nat /\ h.token # n + 1
  <2>1. h.token \in 0..n /\ h.off \in 0..n /\ h.lseq \in Nat
    BY <1>1 DEF View
  <2>2. View(g)
    BY <1>1, <1>4, <1>5, <2>1 DEF View
  <2> QED BY <1>1, <1>4, <1>5, <2>1, <2>2
<1>7. OwnCount(g)
  <2>1. ASSUME NEW j \in 1..(n + 1)
        PROVE  /\ g.load[j].lseq <= g.lseq
               /\ g.load[j].lseq # 0 => g.load[j].at \in Begun
               /\ g.load[j].at = "begin" \/ g.load[j].live => g.load[j].lseq # 0
    <3>1. CASE j = n + 1
      BY <1>3, <1>4, <1>5, <1>6, <3>1 DEF Begun
    <3>2. CASE j \in 1..n
      BY <1>1, <1>4, <1>5, <3>2 DEF Walks, OwnCount
    <3> QED BY <1>6, <3>1, <3>2
  <2>2. ASSUME NEW j \in 1..(n + 1), NEW k \in 1..(n + 1),
               g.load[j].lseq = g.load[k].lseq, g.load[j].lseq # 0
        PROVE  j = k
    <3>1. j \in 1..n /\ k \in 1..n
      BY <1>3, <1>4, <1>5, <1>6, <2>2
    <3> QED BY <1>1, <1>4, <1>5, <2>2, <3>1 DEF Walks, OwnCount
  <2> QED BY <1>6, <2>1, <2>2 DEF OwnCount
<1>8. ASSUME NEW j \in DOMAIN g.load PROVE InSlot(g, j)
  <2>1. CASE j = n + 1
    BY <1>3, <1>4, <1>5, <1>6, <2>1 DEF InSlot, Begun
  <2>2. CASE j \in 1..n
    BY <1>1, <1>4, <1>5, <2>2 DEF Walks, InSlot
  <2> QED BY <1>6, <2>1, <2>2
<1>9. Walks(g)
  BY <1>6, <1>7, <1>8 DEF Walks
<1>10. n + 1 \in DOMAIN g.load /\ g.load # <<>> /\ Newly(g) = new /\ Newly(g).at \notin Begun
  BY <1>1, <1>3, <1>4, <1>5, <1>6 DEF Newly
<1>11. Own(g)
  BY <1>10 DEF Own
<1>12. Kin(Sourced(g, n + 1), g) /\ Own(Sourced(g, n + 1))
  BY <1>6, <1>9, <1>10, <1>11, SourcedKin DEF Newly
<1>13. Shows(g, loc)
  BY <1>3, <1>9, <1>10, <1>11 DEF Shows
<1>14. Shows(Sourced(g, n + 1), loc)
  <2> DEFINE k == Sourced(g, n + 1)
  <2>1. Kin(k, g)
    BY <1>12
  <2> HIDE DEF k
  <2>2. Len(k.load) = n + 1 /\ n + 1 \in DOMAIN k.load /\ Newly(k).loc = loc /\ Walks(k)
    BY <1>3, <1>6, <1>10, <2>1 DEF Kin, Newly
  <2>3. k.load # <<>>
    BY <2>2
  <2> QED BY <1>12, <2>2, <2>3 DEF Shows, k
<1> QED BY <1>2, <1>13, <1>14

-----------------------------------------------------------------------------
(* The invariant of the view, event by event.                              *)

ViewInv == Shows(v, nav.current)

LEMMA FollowsShows ==
    ASSUME NEW h, NEW loc, Shows(h, loc), NEW g, Follows(g, h)
    PROVE  Shows(g, loc)
<1>1. Own(g)
  BY FollowsOwn DEF Shows, Walks
<1>2. Walks(g) /\ Len(g.load) = Len(h.load) /\ Newly(g).loc = Newly(h).loc
  BY NewlyIsLoad DEF Follows, Alike, Newly, Shows, Walks
<1>3. g.load # <<>>
  BY <1>2, LoadFacts DEF Shows, Walks
<1> QED BY <1>1, <1>2, <1>3 DEF Shows

LEMMA KinShows ==
    ASSUME NEW h, NEW loc, Shows(h, loc), NEW g, Kin(g, h), Own(g)
    PROVE  Shows(g, loc)
<1>1. Walks(g) /\ Len(g.load) = Len(h.load) /\ Newly(g).loc = Newly(h).loc
  BY NewlyIsLoad DEF Kin, Newly, Shows, Walks
<1>2. g.load # <<>>
  BY <1>1, LoadFacts DEF Shows, Walks
<1> QED BY <1>1, <1>2 DEF Shows

(* A change of a load that opens, or is open, in step with the slot. *)
LEMMA BegunFollows ==
    ASSUME NEW h, NEW g, Walks(h), NEW i \in DOMAIN h.load, NEW l \in Load, Only(g, h, i, l),
           l.loc = h.load[i].loc, l.silent = h.load[i].silent, l.lseq = h.load[i].lseq,
           l.at = h.load[i].at, l.live = h.load[i].live,
           l.walk = "running" => h.load[i].walk = "running"
    PROVE  Follows(g, h)
<1>1. InSlot(g, i)
  BY DEF Walks, InSlot, Only
<1>2. l.lseq # 0 => l.at \in Begun
  BY DEF Walks, OwnCount
<1>3. l.at = "begin" \/ l.live => l.lseq # 0
  BY DEF Walks, OwnCount
<1> QED BY <1>1, <1>2, <1>3, OnlyFollows

LEMMA OverFollows ==
    ASSUME NEW h, Walks(h), NEW i \in DOMAIN h.load
    PROVE  Follows(Over(h, i), h) /\ Over(h, i).load[i].walk # "running"
           /\ Over(h, i).load[i].at = h.load[i].at
<1> DEFINE l == [h.load[i] EXCEPT !.walk =
                    IF h.load[i].walk = "running" THEN "over" ELSE h.load[i].walk]
<1>1. View(h) /\ h.load[i] \in Load
  BY LoadFacts DEF Walks
<1>2. Only(Over(h, i), h, i, l)
  BY <1>1, SetOver
<1>3. /\ l \in Load /\ l.loc = h.load[i].loc /\ l.silent = h.load[i].silent
      /\ l.lseq = h.load[i].lseq /\ l.at = h.load[i].at /\ l.live = h.load[i].live
      /\ l.walk # "running"
  BY <1>1 DEF Load
<1> HIDE DEF l
<1> QED BY <1>2, <1>3, BegunFollows DEF Only

LEMMA DeliverFollows ==
    ASSUME NEW h, Walks(h), NEW i \in DOMAIN h.load, NEW p \in Nat
    PROVE  Follows(Deliver(h, i, p), h)
<1>1. View(h) /\ h.load[i] \in Load
  BY LoadFacts DEF Walks
<1>2. CASE ~h.load[i].live
  <2>1. Deliver(h, i, p) = h
    BY <1>2 DEF Deliver
  <2> QED BY <2>1 DEF Follows, Alike
<1>3. CASE h.load[i].live /\ h.load[i].at = "begin"
  <2> DEFINE e == Append(h.load[i].early, p)
             l == [h.load[i] EXCEPT !.early = e]
             g == [h EXCEPT !.load[i].early = Append(@, p)]
  <2>1. Deliver(h, i, p) = g
    BY <1>3 DEF Deliver
  <2>2. e \in Seq(Nat)
    <3>1. h.load[i].early \in Seq(Nat)
      BY <1>1 DEF Load
    <3> QED BY <3>1
  <2>3. g = [h EXCEPT !.load[i] = l]
    OBVIOUS
  <2> HIDE DEF e, g
  <2>4. /\ l \in Load /\ l.loc = h.load[i].loc /\ l.silent = h.load[i].silent
        /\ l.lseq = h.load[i].lseq /\ l.at = h.load[i].at /\ l.live = h.load[i].live
        /\ l.walk = h.load[i].walk
    BY <1>1, <2>2 DEF Load
  <2> HIDE DEF l
  <2>5. Only(g, h, i, l)
    BY <1>1, <2>3, <2>4, SetLoad
  <2> QED BY <2>1, <2>4, <2>5, BegunFollows
<1>4. CASE h.load[i].live /\ h.load[i].at # "begin"
  <2>1. Deliver(h, i, p) = Handle(h, i, p)
    BY <1>4 DEF Deliver
  <2>2. h.load[i].at \in Open
    BY <1>4 DEF Walks, OwnCount, Begun, Open
  <2> QED BY <1>4, <2>1, <2>2, HandleFollows DEF Listens
<1> QED BY <1>2, <1>3, <1>4

-----------------------------------------------------------------------------
LEMMA SetReplyShows ==
    ASSUME ViewInv, NEW i \in DOMAIN v.load, SetReply(i)
    PROVE  Shows(v', nav.current)
<1> DEFINE h == [v EXCEPT !.src = v.load[i].loc.source]
<1>1. v' = Sourced(h, i) /\ v.load[i].at = "set"
  BY DEF SetReply
<1>2. Walks(v) /\ View(v)
  BY DEF ViewInv, Shows, Walks
<1>3. Panels(h, v) /\ h.rows = v.rows
  BY <1>2 DEF Panels, View, ViewFields
<1> HIDE DEF h
<1>4. Follows(h, v)
  BY <1>2, <1>3, SameRowsFollow
<1>5. Shows(h, nav.current)
  BY <1>4, FollowsShows DEF ViewInv
<1>6. Walks(h) /\ Own(h) /\ i \in DOMAIN h.load /\ h.load[i].at \notin Begun
  BY <1>1, <1>3, <1>5 DEF Shows, Panels, Begun
<1>7. Kin(Sourced(h, i), h) /\ Own(Sourced(h, i))
  BY <1>6, SourcedKin
<1> QED BY <1>1, <1>5, <1>7, KinShows

LEMMA ReplyShows ==
    ASSUME ViewInv, NEW i \in DOMAIN v.load, Reply(i)
    PROVE  Shows(v', nav.current)
<1> DEFINE gone == [v EXCEPT !.load[i].at = "gone"]
           loc  == v.load[i].loc
           k    == [gone EXCEPT !.rows = Pages(loc), !.grid = "folded", !.overlay = "none"]
<1>1. /\ v.load[i].at = "lists"
      /\ v' = IF i # Len(v.load) THEN gone ELSE Healthy(k)
  BY DEF Reply, Dropped, Newest
<1>2. Walks(v) /\ v.load # <<>>
  BY DEF ViewInv, Shows
<1>3. Kin(gone, v) /\ (i # Len(v.load) => Follows(gone, v))
  BY <1>1, <1>2, UnbegunFollows DEF Progress, Begun
<1> HIDE DEF gone
<1>4. CASE i # Len(v.load)
  BY <1>1, <1>3, <1>4, FollowsShows DEF ViewInv
<1>5. CASE i = Len(v.load)
  <2>1. View(gone) /\ Walks(gone)
    BY <1>3 DEF Kin, Walks
  <2>2. Panels(k, gone) /\ k.rows = Pages(loc)
    BY <2>1 DEF Panels, View, ViewFields
  <2> HIDE DEF k
  <2>3. Panels(Healthy(k), k) /\ Healthy(k).rows = k.rows
    BY <2>2, HealthyPanels DEF Panels
  <2>4. Panels(Healthy(k), gone) /\ Healthy(k).rows = Pages(loc)
    BY <2>2, <2>3 DEF Panels
  <2>5. Walks(Healthy(k)) /\ Alike(Healthy(k), gone)
    BY <2>1, <2>4, PanelsFollow
  <2>6. Kin(Healthy(k), v)
    BY <1>3, <2>5 DEF Kin, Alike
  <2>7. Newly(Healthy(k)).loc = loc
    BY <1>5, <2>6 DEF Kin, Newly
  <2>8. Own(Healthy(k))
    BY <2>4, <2>7 DEF Own, Pages
  <2> QED BY <1>1, <1>5, <2>6, <2>8, KinShows DEF ViewInv
<1> QED BY <1>4, <1>5

LEMMA ReplyFailsShows ==
    ASSUME ViewInv, NEW i \in DOMAIN v.load, ReplyFails(i)
    PROVE  Shows(v', nav.current)
<1> DEFINE gone  == [v EXCEPT !.load[i].at = "gone"]
           name  == IF v.load[i].loc.kind = "local" THEN NoSource ELSE v.load[i].loc.source
           shown == [gone EXCEPT !.rows = {}, !.grid = "folded", !.overlay = "error"]
           Told(k) == Kin(k, v) /\ (k.rows = {} \/ v.load[i].silent)
<1>1. /\ v.load[i].at = "lists"
      /\ v' = IF i # Len(v.load) THEN gone
              ELSE IF v.load[i].silent THEN Failed(gone, name, TRUE)
              ELSE Failed(shown, name, FALSE)
  BY DEF ReplyFails, Dropped, Newest
<1>2. Walks(v) /\ v.load # <<>>
  BY DEF ViewInv, Shows
<1>3. Kin(gone, v) /\ (i # Len(v.load) => Follows(gone, v))
  BY <1>1, <1>2, UnbegunFollows DEF Progress, Begun
<1> HIDE DEF gone, name
<1>4. View(gone) /\ Walks(gone)
  BY <1>3 DEF Kin, Walks
<1>5. Panels(shown, gone) /\ shown.rows = {}
  BY <1>4 DEF Panels, View, ViewFields
<1> HIDE DEF shown
<1>6. Panels(Failed(shown, name, FALSE), gone) /\ Failed(shown, name, FALSE).rows = {}
  <2>1. View(shown)
    BY <1>5 DEF Panels
  <2>2. /\ Panels(Failed(shown, name, FALSE), shown)
        /\ Failed(shown, name, FALSE).rows = shown.rows
    BY <2>1, FailedPanels
  <2> QED BY <1>5, <2>2 DEF Panels
<1>7. Panels(Failed(gone, name, TRUE), gone)
  BY <1>4, FailedPanels
<1>8. ASSUME NEW k, Panels(k, gone) PROVE Kin(k, v)
  <2>1. Walks(k) /\ Alike(k, gone)
    BY <1>4, <1>8, PanelsFollow
  <2> QED BY <1>3, <2>1 DEF Kin, Alike
<1>9. CASE i # Len(v.load)
  BY <1>1, <1>3, <1>9, FollowsShows DEF ViewInv
<1>10. CASE i = Len(v.load)
  <2>1. Kin(v', v) /\ (v'.rows = {} \/ v.load[i].silent)
    BY <1>1, <1>6, <1>7, <1>8, <1>10
  <2>2. Newly(v').silent = v.load[i].silent
    BY <1>10, <2>1 DEF Kin, Newly
  <2>3. Own(v')
    BY <2>1, <2>2 DEF Own
  <2> QED BY <2>1, <2>3, KinShows DEF ViewInv
<1> QED BY <1>9, <1>10

LEMMA BeginReplyShows ==
    ASSUME ViewInv, NEW i \in DOMAIN v.load, BeginReply(i)
    PROVE  Shows(v', nav.current)
<1> DEFINE early == v.load[i].early
           o  == Over(v, i)
           h  == [o EXCEPT !.load[i].at = "gone"]
           lh == [o.load[i] EXCEPT !.at = "gone"]
           h1 == [v EXCEPT !.token = i, !.load[i].at = "stream", !.load[i].early = <<>>]
<1>1. /\ v.load[i].at = "begin"
      /\ v' = IF v.load[i].lseq # v.lseq THEN h ELSE Flush(h1, i, early)
  BY DEF BeginReply
<1>2. Walks(v) /\ View(v) /\ v.load[i] \in Load /\ InSlot(v, i)
  BY LoadFacts DEF ViewInv, Shows, Walks
<1>3. v.load[i].lseq # 0 /\ v.token # i
  BY <1>1, <1>2 DEF Walks, OwnCount, InSlot, Open
<1>4. CASE v.load[i].lseq # v.lseq
  <2>1. Follows(o, v) /\ o.load[i].walk # "running" /\ o.load[i].at = "begin"
    BY <1>1, <1>2, OverFollows
  <2> HIDE DEF o
  <2>2. Walks(o) /\ View(o) /\ i \in DOMAIN o.load /\ o.load[i] \in Load
    BY <2>1, LoadFacts DEF Follows, Alike, Walks
  <2>3. Only(h, o, i, lh)
    BY <2>2, SetAt DEF Progress
  <2>4. /\ lh \in Load /\ lh.loc = o.load[i].loc /\ lh.silent = o.load[i].silent
        /\ lh.lseq = o.load[i].lseq /\ lh.at = "gone" /\ lh.live = o.load[i].live
        /\ lh.walk = o.load[i].walk
    BY <2>2 DEF Load, Progress
  <2> HIDE DEF h, lh
  <2>5. o.token # i /\ o.load[i].lseq # 0
    BY <2>1, <2>2 DEF Walks, InSlot, OwnCount, Open
  <2>6. InSlot(h, i)
    BY <2>1, <2>3, <2>4, <2>5 DEF InSlot, Only
  <2>7. Follows(h, o)
    BY <2>1, <2>2, <2>3, <2>4, <2>5, <2>6, OnlyFollows DEF Open, Begun
  <2> QED BY <1>1, <1>4, <2>1, <2>7, FollowsTwice, FollowsShows DEF ViewInv
<1>5. CASE v.load[i].lseq = v.lseq
  <2> DEFINE e  == <<>>
             l  == [v.load[i] EXCEPT !.at = "stream", !.early = e]
             k  == [v EXCEPT !.load[i] = l]
             k1 == [k EXCEPT !.token = i]
  <2>1. /\ l \in Load /\ l.loc = v.load[i].loc /\ l.silent = v.load[i].silent
        /\ l.lseq = v.load[i].lseq /\ l.at = "stream" /\ l.live = v.load[i].live
        /\ l.walk = v.load[i].walk
    <3>1. e \in Seq(Nat)
      OBVIOUS
    <3> HIDE DEF e
    <3> QED BY <1>2, <3>1 DEF Load, Progress
  <2>2. h1 = k1
    BY <1>2 DEF View, ViewFields
  <2>3. Only(k, v, i, l)
    BY <1>2, <2>1, SetLoad
  <2> HIDE DEF e, l, k
  <2>4. View(k) /\ i \in {0} \cup DOMAIN k.load
    BY <2>3 DEF Only
  <2>5. View(k1) /\ k1.token = i /\ k1.lseq = k.lseq /\ k1.off = k.off /\ k1.rows = k.rows
        /\ k1.load = k.load
    BY <2>4, SetToken
  <2> HIDE DEF k1, h1
  <2>6. /\ View(h1) /\ h1.token = i /\ h1.lseq = v.lseq /\ h1.off = v.off /\ h1.rows = v.rows
        /\ Len(h1.load) = Len(v.load) /\ DOMAIN h1.load = DOMAIN v.load
        /\ h1.load[i] = l /\ \A j \in DOMAIN v.load : j # i => h1.load[j] = v.load[j]
    BY <2>2, <2>3, <2>5 DEF Only
  <2>7. Alike(h1, v)
    BY <2>1, <2>6 DEF Alike
  <2>8. OwnCount(h1)
    <3>1. \A j \in DOMAIN v.load : h1.load[j].lseq = v.load[j].lseq
      BY <2>1, <2>6
    <3>2. \A j \in DOMAIN v.load : /\ h1.load[j].lseq # 0 => h1.load[j].at \in Begun
                                   /\ h1.load[j].at = "begin" \/ h1.load[j].live => h1.load[j].lseq # 0
      BY <1>2, <1>3, <2>1, <2>6 DEF Walks, OwnCount, Begun
    <3> QED BY <1>2, <2>6, <3>1, <3>2 DEF Walks, OwnCount
  <2>9. ASSUME NEW j \in DOMAIN h1.load PROVE InSlot(h1, j)
    <3>1. CASE j = i
      BY <1>1, <1>2, <1>5, <2>1, <2>6, <3>1 DEF InSlot, Open
    <3>2. CASE j # i
      <4>1. v.token # j
        <5>1. v.token = j => v.load[j].lseq = v.load[i].lseq
          BY <1>2, <1>5, <2>6 DEF Walks, InSlot
        <5> QED BY <1>2, <1>3, <2>6, <3>2, <5>1 DEF Walks, OwnCount
      <4> QED BY <1>2, <2>6, <3>2, <4>1 DEF Walks, InSlot
    <3> QED BY <3>1, <3>2
  <2>10. Walks(h1)
    BY <2>6, <2>8, <2>9 DEF Walks
  <2>11. Follows(h1, v)
    <3>1. Newly(h1).at \in Begun => Newly(v).at \in Begun
      <4>1. Len(v.load) \in DOMAIN v.load
        BY <1>2, NewlyIsLoad DEF ViewInv, Shows
      <4> QED BY <1>1, <2>6, <4>1 DEF Newly, Begun
    <3>2. \A j \in DOMAIN v.load : v.load[j].at \in Open => h1.load[j].at \in Open
      BY <2>1, <2>6 DEF Open
    <3> QED BY <2>6, <2>7, <2>10, <3>1, <3>2 DEF Follows
  <2>12. Follows(Flush(h1, i, early), h1)
    <3>1. early \in Seq(Nat)
      BY <1>2 DEF Load
    <3>2. i \in DOMAIN h1.load /\ h1.load[i].at \in Open
      BY <2>1, <2>6 DEF Open
    <3> HIDE DEF early
    <3> QED BY <2>10, <3>1, <3>2, FlushFollows
  <2> QED BY <1>1, <1>5, <2>11, <2>12, FollowsTwice, FollowsShows DEF ViewInv
<1> QED BY <1>4, <1>5

LEMMA BeginFailsShows ==
    ASSUME ViewInv, NEW i \in DOMAIN v.load, BeginFails(i)
    PROVE  Shows(v', nav.current)
<1> DEFINE h1 == [Off(v, i) EXCEPT !.load[i].at = "gone", !.load[i].walk = "none",
                                   !.off = IF @ = i THEN 0 ELSE @]
           o  == Off(v, i)
           lo == [v.load[i] EXCEPT !.live = FALSE, !.early = <<>>]
           n  == IF v.off = i THEN 0 ELSE v.off
           l  == [o.load[i] EXCEPT !.at = "gone", !.walk = "none"]
           k  == [o EXCEPT !.load[i] = l]
           k1 == [k EXCEPT !.off = n]
<1>1. v.load[i].at = "begin" /\ v' \in {h1, Broken(h1, i)}
  BY DEF BeginFails
<1>2. Walks(v) /\ View(v) /\ v.load[i] \in Load /\ InSlot(v, i)
      /\ Len(v.load) \in DOMAIN v.load
  BY LoadFacts, NewlyIsLoad DEF ViewInv, Shows, Walks
<1>3. v.load[i].lseq # 0 /\ v.token # i
  BY <1>1, <1>2 DEF Walks, OwnCount, InSlot, Open
<1>4. Only(o, v, i, lo)
  BY <1>2, SetOff
<1>5. /\ lo.loc = v.load[i].loc /\ lo.silent = v.load[i].silent
      /\ lo.lseq = v.load[i].lseq /\ lo.live = FALSE
  BY <1>2 DEF Load
<1>6. h1 = [o EXCEPT !.load[i].at = "gone", !.load[i].walk = "none",
                     !.off = IF o.off = i THEN 0 ELSE o.off]
  BY <1>4 DEF Only, View, ViewFields
<1> HIDE DEF o, lo
<1>7. View(o) /\ i \in DOMAIN o.load /\ o.load[i] \in Load /\ o.load[i] = lo /\ o.off = v.off
  BY <1>2, <1>4, LoadFacts DEF Only
<1>8. /\ l \in Load /\ l.loc = lo.loc /\ l.silent = lo.silent /\ l.lseq = lo.lseq
      /\ l.live = FALSE /\ l.at = "gone" /\ l.walk = "none"
  BY <1>5, <1>7 DEF Load, Progress
<1>9. h1 = k1
  <2>1. h1 = [o EXCEPT !.load[i].at = "gone", !.load[i].walk = "none", !.off = n]
    BY <1>6, <1>7
  <2> HIDE DEF h1, n
  <2>2. k1 = [o EXCEPT !.load[i].at = "gone", !.load[i].walk = "none", !.off = n]
    BY <1>7 DEF View, ViewFields, Load
  <2> QED BY <2>1, <2>2
<1>10. Only(k, o, i, l)
  BY <1>7, <1>8, SetLoad
<1> HIDE DEF l, k, h1
<1>11. View(k) /\ n \in {0} \cup DOMAIN k.load
  BY <1>2, <1>4, <1>10 DEF Only, View
<1> HIDE DEF n
<1>12. View(k1) /\ k1.off = n /\ k1.lseq = k.lseq /\ k1.token = k.token /\ k1.rows = k.rows
       /\ k1.load = k.load
  BY <1>11, SetSlot
<1> HIDE DEF k1
<1>13. /\ View(h1) /\ h1.token = v.token /\ h1.lseq = v.lseq /\ h1.off = n /\ h1.rows = v.rows
       /\ Len(h1.load) = Len(v.load) /\ DOMAIN h1.load = DOMAIN v.load
       /\ h1.load[i] = l /\ \A j \in DOMAIN v.load : j # i => h1.load[j] = v.load[j]
  BY <1>4, <1>9, <1>10, <1>12 DEF Only
<1>14. Alike(h1, v)
  BY <1>5, <1>8, <1>13 DEF Alike
<1>15. OwnCount(h1)
  <2>1. \A j \in DOMAIN v.load : h1.load[j].lseq = v.load[j].lseq
    BY <1>13, <1>14 DEF Alike
  <2>2. \A j \in DOMAIN v.load : /\ h1.load[j].lseq # 0 => h1.load[j].at \in Begun
                                 /\ h1.load[j].at = "begin" \/ h1.load[j].live => h1.load[j].lseq # 0
    BY <1>2, <1>3, <1>8, <1>13 DEF Walks, OwnCount, Begun
  <2> QED BY <1>2, <1>13, <2>1, <2>2 DEF Walks, OwnCount
<1>16. ASSUME NEW j \in DOMAIN h1.load PROVE InSlot(h1, j)
  <2>1. CASE j = i
    BY <1>3, <1>8, <1>13, <2>1 DEF InSlot
  <2>2. CASE j # i
    <3>1. InSlot(v, j) /\ h1.load[j] = v.load[j] /\ (v.off = j => n = j)
      BY <1>2, <1>13, <2>2 DEF Walks, n
    <3> QED BY <1>13, <3>1 DEF InSlot
  <2> QED BY <2>1, <2>2
<1>17. Follows(h1, v)
  <2>1. Walks(h1)
    BY <1>13, <1>15, <1>16 DEF Walks
  <2>2. Newly(h1).at \in Begun => Newly(v).at \in Begun
    BY <1>1, <1>2, <1>13 DEF Newly, Begun
  <2>3. \A j \in DOMAIN v.load : v.load[j].at \in Open => h1.load[j].at \in Open
    BY <1>8, <1>13 DEF Open
  <2> QED BY <1>13, <1>14, <2>1, <2>2, <2>3 DEF Follows
<1>18. Follows(Broken(h1, i), h1)
  <2>1. Walks(h1) /\ i \in DOMAIN h1.load /\ h1.load[i].at \in Open
    BY <1>8, <1>13, <1>17 DEF Follows, Open
  <2> QED BY <2>1, BrokenFollows
<1> QED BY <1>1, <1>17, <1>18, FollowsTwice, FollowsShows DEF ViewInv

LEMMA PagesShow ==
    ASSUME ViewInv, NEW i \in DOMAIN v.load, Page(i) \/ PageFails(i)
    PROVE  Shows(v', nav.current)
<1>1. Walks(v) /\ View(v) /\ v.load[i] \in Load
  BY LoadFacts DEF ViewInv, Shows, Walks
<1>2. CASE Page(i)
  <2> DEFINE p == v.load[i].sent + 1
             w == IF p = PagesOf[v.load[i].loc] THEN "over" ELSE v.load[i].walk
             l == [v.load[i] EXCEPT !.sent = p, !.walk = w]
             h == [v EXCEPT !.load[i] = l]
  <2>1. v' = Deliver(h, i, p)
    <3>1. v' = Deliver([v EXCEPT !.load[i].sent = p,
                                 !.load[i].walk = IF p = PagesOf[v.load[i].loc] THEN "over" ELSE @], i, p)
      BY <1>2 DEF Page
    <3>2. [v EXCEPT !.load[i].sent = p,
                    !.load[i].walk = IF p = PagesOf[v.load[i].loc] THEN "over" ELSE @] = h
      BY <1>1 DEF View, ViewFields, Load
    <3> QED BY <3>1, <3>2
  <2>2. p \in Nat /\ w \in {"over", v.load[i].walk}
    BY <1>1 DEF Load
  <2> HIDE DEF p, w
  <2>3. /\ l \in Load /\ l.loc = v.load[i].loc /\ l.silent = v.load[i].silent
        /\ l.lseq = v.load[i].lseq /\ l.at = v.load[i].at /\ l.live = v.load[i].live
        /\ l.walk = w
    BY <1>1, <2>2 DEF Load
  <2> HIDE DEF l
  <2>4. Only(h, v, i, l)
    BY <1>1, <2>3, SetLoad
  <2> HIDE DEF h
  <2>5. Follows(h, v)
    BY <1>1, <2>2, <2>3, <2>4, BegunFollows
  <2>6. Follows(Deliver(h, i, p), h)
    BY <2>2, <2>5, DeliverFollows DEF Follows, Alike
  <2> QED BY <2>1, <2>5, <2>6, FollowsTwice, FollowsShows DEF ViewInv
<1>3. CASE PageFails(i)
  <2>1. v' = Deliver(Over(v, i), i, Error)
    BY <1>3 DEF PageFails
  <2>2. Follows(Over(v, i), v)
    BY <1>1, OverFollows
  <2>3. Follows(Deliver(Over(v, i), i, Error), Over(v, i))
    BY <2>2, DeliverFollows DEF Follows, Alike, Error
  <2> QED BY <2>1, <2>2, <2>3, FollowsTwice, FollowsShows DEF ViewInv
<1> QED BY <1>2, <1>3

-----------------------------------------------------------------------------
(* Every step keeps the invariant. *)

LEMMA AnswerShows ==
    ASSUME ViewInv, NEW i \in DOMAIN v.load, Answer(i)
    PROVE  ViewInv'
<1>1. UNCHANGED nav
  BY DEF Answer, SetReply, Reply, ReplyFails, BeginReply, BeginFails, Page, PageFails, Keeps
<1>2. Shows(v', nav.current)
  <2>1. CASE SetReply(i)
    BY <2>1, SetReplyShows
  <2>2. CASE Reply(i)
    BY <2>2, ReplyShows
  <2>3. CASE ReplyFails(i)
    BY <2>3, ReplyFailsShows
  <2>4. CASE BeginReply(i)
    BY <2>4, BeginReplyShows
  <2>5. CASE BeginFails(i)
    BY <2>5, BeginFailsShows
  <2>6. CASE Page(i) \/ PageFails(i)
    BY <2>6, PagesShow
  <2> QED BY <2>1, <2>2, <2>3, <2>4, <2>5, <2>6 DEF Answer
<1> QED BY <1>1, <1>2 DEF ViewInv

(* A navigation and a refresh load the place the history stands on. *)
LEMMA LoadsShow ==
    ASSUME HistoryInv', ViewInv, NEW silent \in BOOLEAN, NEW h, Follows(h, v),
           v' = LoadView(h, nav'.current, silent)
    PROVE  ViewInv'
<1>1. nav'.current \in Places
  BY DEF HistoryInv, Histories
<1>2. Walks(h)
  BY DEF Follows
<1> QED BY <1>1, <1>2, LoadViewShows DEF ViewInv

LEMMA Itself ==
    ASSUME ViewInv
    PROVE  Follows(v, v)
  BY DEF ViewInv, Shows, Follows, Alike

LEMMA PanelStepShows ==
    ASSUME ViewInv, Follows(v', v), UNCHANGED nav
    PROVE  ViewInv'
  BY FollowsShows DEF ViewInv

LEMMA HealthyFollows ==
    ASSUME ViewInv
    PROVE  Follows(Healthy(v), v)
  BY HealthyPanels, SameRowsFollow DEF ViewInv, Shows, Walks

LEMMA FailedFollows ==
    ASSUME ViewInv, NEW name, NEW silent
    PROVE  Follows(Failed(v, name, silent), v)
  BY FailedPanels, SameRowsFollow DEF ViewInv, Shows, Walks

LEMMA UserShows ==
    ASSUME HistoryInv', ViewInv,
           \/ \E loc \in Places : Navigate(loc)
           \/ GoBack \/ GoForward \/ RefreshSilently \/ Dismiss
    PROVE  ViewInv'
<1>1. CASE (\E loc \in Places : Navigate(loc)) \/ GoBack \/ GoForward
  <2>1. v' = LoadView(v, nav'.current, FALSE)
    BY <1>1 DEF Navigate, GoBack, GoForward, Goes
  <2> QED BY <2>1, Itself, LoadsShow
<1>2. CASE RefreshSilently
  <2>1. v' = LoadView(v, nav'.current, TRUE)
    BY <1>2 DEF RefreshSilently
  <2> QED BY <2>1, Itself, LoadsShow
<1>3. CASE Dismiss
  <2>1. v' = [v EXCEPT !.banner = NoSource] /\ UNCHANGED nav
    BY <1>3 DEF Dismiss
  <2>2. Walks(v) /\ View(v)
    BY DEF ViewInv, Shows, Walks
  <2>3. Panels(v', v) /\ v'.rows = v.rows
    BY <2>1, <2>2 DEF Panels, View, ViewFields
  <2> QED BY <2>1, <2>2, <2>3, SameRowsFollow, PanelStepShows
<1> QED BY <1>1, <1>2, <1>3

LEMMA MonitorShows ==
    ASSUME HistoryInv', ViewInv,
           \/ Tick \/ TickOk \/ TickFails
           \/ \E name \in Sources : Reconnect(name)
           \/ Reconnected \/ ReconnectFails
    PROVE  ViewInv'
<1>1. UNCHANGED nav
  BY DEF Tick, TickOk, TickFails, Reconnect, Reconnected, ReconnectFails
<1>2. CASE v' = v
  BY <1>1, <1>2 DEF ViewInv
<1>3. CASE \E silent \in BOOLEAN : v' = LoadView(Healthy(v), nav.current, silent)
  BY <1>1, <1>3, HealthyFollows, LoadsShow
<1>4. CASE v' = Healthy(v)
  BY <1>1, <1>4, HealthyFollows, PanelStepShows
<1>5. CASE \E name, silent : v' = Failed(v, name, silent)
  BY <1>1, <1>5, FailedFollows, PanelStepShows
<1>6. \/ v' = v
      \/ \E silent \in BOOLEAN : v' = LoadView(Healthy(v), nav.current, silent)
      \/ v' = Healthy(v)
      \/ \E name, silent : v' = Failed(v, name, silent)
  BY DEF Tick, TickOk, TickFails, Reconnect, Reconnected, ReconnectFails
<1> QED BY <1>2, <1>3, <1>4, <1>5, <1>6

LEMMA ViewInvariant == Spec => []ViewInv
<1>1. Init => ViewInv
  <2> SUFFICES ASSUME Init PROVE ViewInv
    OBVIOUS
  <2>1. v = LoadView(Blank, Home, FALSE) /\ nav.current = Home /\ Home \in Places
    BY MainViewAssumption DEF Init, Opened
  <2>2. Blank.load = <<>> /\ Blank.lseq = 0 /\ Blank.token = 0 /\ Blank.off = 0
        /\ Blank = [f \in ViewFields |-> Blank[f]]
    BY DEF Blank, ViewFields
  <2>3. <<>> \in Seq(Load) /\ DOMAIN Blank.load = {}
    BY <2>2
  <2> HIDE DEF Blank
  <2>4. Walks(Blank)
    BY <2>2, <2>3 DEF Walks, View, OwnCount
  <2> QED BY <2>1, <2>4, LoadViewShows DEF ViewInv
<1>2. HistoryInv' /\ ViewInv /\ [Next]_vars => ViewInv'
  <2> SUFFICES ASSUME HistoryInv', ViewInv, [Next]_vars PROVE ViewInv'
    OBVIOUS
  <2>1. CASE UNCHANGED vars
    BY <2>1 DEF vars, ViewInv
  <2>2. CASE \E i \in DOMAIN v.load : Answer(i)
    BY <2>2, AnswerShows
  <2>3. CASE \/ \E loc \in Places : Navigate(loc)
             \/ GoBack \/ GoForward \/ RefreshSilently \/ Dismiss
    BY <2>3, UserShows
  <2>4. CASE \/ Tick \/ TickOk \/ TickFails
             \/ \E name \in Sources : Reconnect(name)
             \/ Reconnected \/ ReconnectFails
    BY <2>4, MonitorShows
  <2> QED BY <2>1, <2>2, <2>3, <2>4 DEF Next
<1> QED BY <1>1, <1>2, HistoryInvariant, PTL DEF Spec

(* The backend walks a folder of objects only for a window that listens:    *)
(* every walk under way can still be canceled, by the slot or when the call *)
(* that opens it returns (loadView, detachListStream and cancelListStream   *)
(* of frontend/js/main.js), for any places, folders and failures.           *)
THEOREM WalksCanBeCanceled == Spec => []NoLeakedWalk
<1>1. ViewInv => NoLeakedWalk
  BY DEF ViewInv, Shows, Walks, InSlot, NoLeakedWalk, Loads
<1> QED BY <1>1, ViewInvariant, PTL

(* Once a place that was opened has answered, every row on the screen is of *)
(* that place or of the object listing that was begun last: no older answer *)
(* passes viewSeq, and no page of an older listing passes listSeq.          *)
THEOREM RowsAreItsOwn == Spec => []OwnRows
<1>1. ViewInv => OwnRows
  <2> SUFFICES ASSUME ViewInv, Landed PROVE OwnRows
    BY DEF OwnRows
  <2>1. ~Newly(v).silent /\ Newly(v).at \in Begun
    BY DEF Landed, Newest, Newly, Begun
  <2>2. Newly(v).loc = nav.current /\ Own(v)
    BY DEF ViewInv, Shows
  <2>3. \A r \in v.rows : r[1] = nav.current \/ Current(v, r[1])
    BY <2>1, <2>2 DEF Own
  <2> QED BY <2>3 DEF OwnRows, Current, Loads
<1> QED BY <1>1, ViewInvariant, PTL

-----------------------------------------------------------------------------
(* The types of the view.  A walk under way has a page to come, a load that *)
(* has not begun has sent none, and every count was taken by some load.     *)

Names == Sources \cup {NoSource}
Views == [src : Names, lseq : Nat, token : Nat, off : Nat,
          rows : SUBSET UNION {Pages(loc) : loc \in Places},
          grid : {"folded", "open", "done"}, overlay : {"none", "loading", "error"},
          streak : 0..2, banner : Names, load : Seq(Load)]
Waits == {"set", "lists"}
Bounded(l) ==
    /\ l.sent <= PagesOf[l.loc] /\ l.held <= First
    /\ \A n \in DOMAIN l.early : l.early[n] <= PagesOf[l.loc]
    /\ l.walk = "running" => l.sent < PagesOf[l.loc]
    /\ l.at \in Waits => l.walk = "none" /\ l.sent = 0 /\ l.lseq = 0
Fits(h) ==
    /\ h \in Views
    /\ h.token \in {0} \cup DOMAIN h.load /\ h.off \in {0} \cup DOMAIN h.load
    /\ \A i \in DOMAIN h.load : Bounded(h.load[i])

(* A fitting view of the loads of h under the count of h, and no page more. *)
Stays(g, h) ==
    /\ Fits(g) /\ Alike(g, h) /\ g.lseq = h.lseq
    /\ \A j \in DOMAIN h.load : g.load[j].sent = h.load[j].sent

LEMMA FitsLoad ==
    ASSUME NEW h, Fits(h), NEW i \in DOMAIN h.load
    PROVE  /\ i \in 1..Len(h.load) /\ Len(h.load) \in Nat /\ DOMAIN h.load = 1..Len(h.load)
           /\ h.load[i] \in Load /\ Bounded(h.load[i])
<1>1. h.load \in Seq(Load)
  BY DEF Fits, Views
<1> QED BY <1>1 DEF Fits

LEMMA StaysTwice ==
    ASSUME NEW h, NEW g, NEW k, Stays(g, h), Stays(k, g)
    PROVE  Stays(k, h)
  BY DEF Stays, Alike

LEMMA StaysFits ==
    ASSUME NEW h, NEW g, Stays(g, h)
    PROVE  /\ Fits(g) /\ DOMAIN g.load = DOMAIN h.load /\ g.lseq = h.lseq
           /\ \A j \in DOMAIN h.load : /\ g.load[j].loc = h.load[j].loc
                                       /\ g.load[j].silent = h.load[j].silent
                                       /\ g.load[j].lseq = h.load[j].lseq
                                       /\ g.load[j].sent = h.load[j].sent
  BY DEF Stays, Alike

LEMMA StaysItself ==
    ASSUME NEW h, Fits(h)
    PROVE  Stays(h, h)
  BY DEF Stays, Alike

LEMMA LoadStays ==
    ASSUME NEW h, Fits(h), NEW i \in DOMAIN h.load, NEW l \in Load, Bounded(l),
           l.loc = h.load[i].loc, l.silent = h.load[i].silent, l.lseq = h.load[i].lseq,
           l.sent = h.load[i].sent
    PROVE  Stays([h EXCEPT !.load[i] = l], h) /\ [h EXCEPT !.load[i] = l].load[i] = l
<1> DEFINE s == [h.load EXCEPT ![i] = l]  g == [h EXCEPT !.load = s]
<1>1. h.load \in Seq(Load) /\ h \in Views
  BY DEF Fits, Views
<1>2. /\ s \in Seq(Load) /\ Len(s) = Len(h.load) /\ DOMAIN s = DOMAIN h.load
      /\ s[i] = l /\ \A j \in DOMAIN h.load : j # i => s[j] = h.load[j]
  BY <1>1
<1> HIDE DEF s
<1>3. g \in Views /\ g.load = s /\ g.lseq = h.lseq /\ g.token = h.token /\ g.off = h.off
  BY <1>1, <1>2 DEF Views
<1> HIDE DEF g
<1>4. Fits(g)
  BY <1>2, <1>3 DEF Fits
<1>5. Alike(g, h)
  BY <1>2, <1>3 DEF Alike
<1>6. [h EXCEPT !.load[i] = l] = g
  BY DEF g, s
<1> QED BY <1>2, <1>3, <1>4, <1>5, <1>6 DEF Stays

LEMMA AtStays ==
    ASSUME NEW h, Fits(h), NEW i \in DOMAIN h.load, NEW at \in Progress,
           at \in Begun \/ h.load[i].at \in Waits
    PROVE  Stays([h EXCEPT !.load[i].at = at], h)
<1> DEFINE l == [h.load[i] EXCEPT !.at = at]
<1>1. h.load[i] \in Load /\ Bounded(h.load[i])
  BY FitsLoad
<1>2. /\ l \in Load /\ l.loc = h.load[i].loc /\ l.silent = h.load[i].silent
      /\ l.lseq = h.load[i].lseq /\ l.sent = h.load[i].sent /\ Bounded(l)
  BY <1>1 DEF Load, Progress, Begun, Bounded, Waits
<1>3. [h EXCEPT !.load[i].at = at] = [h EXCEPT !.load[i] = l]
  OBVIOUS
<1> QED BY <1>2, <1>3, LoadStays

LEMMA OverStays ==
    ASSUME NEW h, Fits(h), NEW i \in DOMAIN h.load
    PROVE  Stays(Over(h, i), h) /\ Over(h, i).load[i].walk # "running"
<1> DEFINE w == IF h.load[i].walk = "running" THEN "over" ELSE h.load[i].walk
           l == [h.load[i] EXCEPT !.walk = w]
<1>1. h.load[i] \in Load /\ Bounded(h.load[i])
  BY FitsLoad
<1>2. w \in {"none", "running", "over"} /\ w # "running"
  BY <1>1 DEF Load
<1>3. /\ l \in Load /\ l.loc = h.load[i].loc /\ l.silent = h.load[i].silent
      /\ l.lseq = h.load[i].lseq /\ l.sent = h.load[i].sent /\ l.walk = w /\ Bounded(l)
  BY <1>1, <1>2 DEF Load, Bounded
<1>4. Over(h, i) = [h EXCEPT !.load[i] = l]
  BY DEF Over
<1> HIDE DEF w, l
<1> QED BY <1>2, <1>3, <1>4, LoadStays

LEMMA OffStays ==
    ASSUME NEW h, Fits(h), NEW i \in DOMAIN h.load
    PROVE  Stays(Off(h, i), h)
<1> DEFINE e == <<>>  l == [h.load[i] EXCEPT !.live = FALSE, !.early = e]
<1>1. h.load[i] \in Load /\ Bounded(h.load[i]) /\ h \in Views
  BY FitsLoad DEF Fits
<1>2. e \in Seq(Nat) /\ DOMAIN e = {}
  OBVIOUS
<1>3. Off(h, i) = [h EXCEPT !.load[i] = l]
  BY <1>1 DEF Off, Views
<1> HIDE DEF e
<1>4. /\ l \in Load /\ l.loc = h.load[i].loc /\ l.silent = h.load[i].silent
      /\ l.lseq = h.load[i].lseq /\ l.sent = h.load[i].sent /\ Bounded(l)
  BY <1>1, <1>2 DEF Load, Bounded
<1> HIDE DEF l
<1> QED BY <1>3, <1>4, LoadStays

LEMMA SlotStays ==
    ASSUME NEW h, Fits(h), NEW n \in {0} \cup DOMAIN h.load
    PROVE  Stays([h EXCEPT !.token = n], h) /\ Stays([h EXCEPT !.off = n], h)
<1>1. n \in Nat
  <2>1. h.load \in Seq(Load)
    BY DEF Fits, Views
  <2> QED BY <2>1
<1> QED BY <1>1 DEF Stays, Alike, Fits, Views

(* Rows of some place, and panels. *)
LEMMA PanelsStay ==
    ASSUME NEW h, Fits(h), NEW R \in SUBSET UNION {Pages(loc) : loc \in Places},
           NEW session \in {"folded", "open", "done"}, NEW panel \in {"none", "loading", "error"}
    PROVE  /\ Stays([h EXCEPT !.rows = R, !.grid = session, !.overlay = panel], h)
           /\ Stays([h EXCEPT !.overlay = panel, !.rows = R], h)
           /\ Stays([h EXCEPT !.rows = R, !.grid = session], h)
           /\ Stays([h EXCEPT !.overlay = panel], h)
           /\ Stays([h EXCEPT !.grid = session], h)
  BY DEF Stays, Alike, Fits, Views

LEMMA SourceStays ==
    ASSUME NEW h, Fits(h), NEW name \in Names
    PROVE  Stays([h EXCEPT !.src = name], h) /\ Stays([h EXCEPT !.banner = name], h)
  BY DEF Stays, Alike, Fits, Views

LEMMA StreakStays ==
    ASSUME NEW h, Fits(h), NEW n \in 0..2, NEW name \in Names
    PROVE  Stays([h EXCEPT !.streak = n, !.banner = name], h)
  BY DEF Stays, Alike, Fits, Views

LEMMA FailedStays ==
    ASSUME NEW h, Fits(h), NEW name \in Names, NEW silent
    PROVE  Stays(Failed(h, name, silent), h)
<1> DEFINE n == IF h.streak = 0 THEN 1 ELSE 2
           b == IF h.streak > 0 /\ silent THEN name ELSE h.banner
<1>1. n \in 0..2 /\ b \in Names
  BY DEF Fits, Views
<1>2. Failed(h, name, silent) = IF name = NoSource THEN h ELSE [h EXCEPT !.streak = n, !.banner = b]
  BY DEF Failed
<1> HIDE DEF n, b
<1> QED BY <1>1, <1>2, StreakStays, StaysItself

LEMMA HealthyStays ==
    ASSUME NEW h, Fits(h)
    PROVE  Stays(Healthy(h), h)
<1>1. NoSource \in Names /\ 0 \in 0..2
  BY DEF Names
<1> QED BY <1>1, StreakStays DEF Healthy

LEMMA FinishStays ==
    ASSUME NEW h, Fits(h), NEW done
    PROVE  Stays(Finish(h, done), h)
<1> DEFINE n == IF h.grid = "open" /\ done THEN "done" ELSE h.grid
           g == [h EXCEPT !.grid = n]
<1>1. h \in Views /\ n \in {"folded", "open", "done"}
  BY DEF Fits, Views
<1>2. Finish(h, done) = Healthy(g)
  BY DEF Finish
<1> HIDE DEF n
<1>3. Stays(g, h)
  <2>1. {} \in SUBSET UNION {Pages(loc) : loc \in Places} /\ "none" \in {"none", "loading", "error"}
    OBVIOUS
  <2> QED BY <1>1, <2>1, PanelsStay
<1> QED BY <1>2, <1>3, HealthyStays, StaysTwice, StaysFits

LEMMA CancelListStays ==
    ASSUME NEW h, Fits(h)
    PROVE  Stays(CancelList(h), h)
<1>1. CASE h.token = 0
  BY <1>1, StaysItself DEF CancelList
<1>2. CASE h.token # 0
  <2> DEFINE o == Over(h, h.token)
  <2>1. h.token \in DOMAIN h.load
    BY <1>2 DEF Fits
  <2>2. Stays(o, h)
    BY <2>1, OverStays
  <2>3. CancelList(h) = [o EXCEPT !.token = 0]
    BY <1>2 DEF CancelList
  <2> HIDE DEF o
  <2>4. Stays([o EXCEPT !.token = 0], o)
    BY <2>2, SlotStays, StaysFits
  <2> QED BY <2>2, <2>3, <2>4, StaysTwice
<1> QED BY <1>1, <1>2

LEMMA DetachStays ==
    ASSUME NEW h, Fits(h), NEW i \in DOMAIN h.load
    PROVE  Stays(DetachStream(h, i), h)
<1> DEFINE c == CancelList(h)  o == Off(c, i)  a == [o EXCEPT !.load[i].at = "gone"]
           n == IF o.off = i THEN 0 ELSE o.off
<1>1. Stays(c, h)
  BY CancelListStays
<1> HIDE DEF c
<1>2. Fits(c) /\ i \in DOMAIN c.load
  BY <1>1, StaysFits
<1>3. Stays(o, c)
  BY <1>2, OffStays
<1>4. DetachStream(h, i) = [a EXCEPT !.off = n]
  <2>1. DetachStream(h, i) = [o EXCEPT !.load[i].at = "gone", !.off = n]
    BY DEF DetachStream, c
  <2>2. o \in Views
    BY <1>3, StaysFits DEF Fits
  <2> HIDE DEF o
  <2> QED BY <2>1, <2>2 DEF Views
<1> HIDE DEF o
<1>5. Fits(o) /\ i \in DOMAIN o.load /\ "gone" \in Begun /\ "gone" \in Progress
  BY <1>2, <1>3, StaysFits DEF Begun, Progress
<1>6. Stays(a, o)
  BY <1>5, AtStays
<1> HIDE DEF a
<1>7. Fits(a) /\ n \in {0} \cup DOMAIN a.load
  BY <1>5, <1>6, StaysFits DEF Fits
<1> HIDE DEF n
<1>8. Stays([a EXCEPT !.off = n], a)
  BY <1>7, SlotStays
<1> QED BY <1>1, <1>3, <1>4, <1>6, <1>8, StaysTwice

LEMMA CancelStreamStays ==
    ASSUME NEW h, Fits(h)
    PROVE  Stays(CancelListStream(h), h)
<1> DEFINE c == CancelList(h)
           o == IF h.off = 0 THEN c ELSE Off(c, h.off)
           a == IF h.off # 0 /\ h.load[h.off].at = "stream"
                THEN [o EXCEPT !.load[h.off].at = "gone"] ELSE o
<1>1. Stays(c, h)
  BY CancelListStays
<1>2. CancelListStream(h) = [a EXCEPT !.off = 0]
  BY DEF CancelListStream
<1> HIDE DEF c
<1>3. h.off # 0 => h.off \in DOMAIN c.load
  BY <1>1, StaysFits DEF Fits
<1>4. Stays(o, c)
  <2>1. Fits(c)
    BY <1>1, StaysFits
  <2> QED BY <1>3, <2>1, OffStays, StaysItself
<1> HIDE DEF o
<1>5. Stays(a, o)
  <2>1. Fits(o) /\ (h.off # 0 => h.off \in DOMAIN o.load) /\ "gone" \in Begun /\ "gone" \in Progress
    BY <1>3, <1>4, StaysFits DEF Begun, Progress
  <2> QED BY <2>1, AtStays, StaysItself
<1> HIDE DEF a
<1>6. Stays([a EXCEPT !.off = 0], a)
  BY <1>5, SlotStays, StaysFits
<1> QED BY <1>1, <1>2, <1>4, <1>5, <1>6, StaysTwice

(* Pages reach a load that is fed. *)
LEMMA NamesOfPlaces ==
    ASSUME NEW loc \in Places
    PROVE  /\ loc.source \in Names /\ PagesOf[loc] \in Nat \ {0}
           /\ Pages(loc) \in SUBSET UNION {Pages(l) : l \in Places}
           /\ \A n \in 1..PagesOf[loc] : <<loc, n>> \in Pages(loc)
  BY MainViewAssumption DEF Names, Sources, Pages

LEMMA BrokenStays ==
    ASSUME NEW h, Fits(h), NEW i \in DOMAIN h.load
    PROVE  Stays(Broken(h, i), h)
<1> DEFINE silent == h.load[i].silent  name == h.load[i].loc.source
           a == [h EXCEPT !.load[i].at = "gone"]  f == Failed(a, name, silent)
<1>1. h.load[i].loc \in Places
  BY FitsLoad DEF Load
<1>2. name \in Names
  BY <1>1, NamesOfPlaces
<1>3. Stays(a, h)
  BY AtStays DEF Begun, Progress
<1>4. Broken(h, i) = IF silent THEN f ELSE [f EXCEPT !.overlay = "error"]
  BY DEF Broken
<1> HIDE DEF a, name, silent
<1>5. Stays(f, a)
  BY <1>2, <1>3, FailedStays, StaysFits
<1> HIDE DEF f
<1>6. Stays([f EXCEPT !.overlay = "error"], f)
  <2>1. Fits(f) /\ "error" \in {"none", "loading", "error"} /\ "open" \in {"folded", "open", "done"}
        /\ {} \in SUBSET UNION {Pages(loc) : loc \in Places}
    BY <1>5, StaysFits
  <2> QED BY <2>1, PanelsStay
<1> QED BY <1>3, <1>4, <1>5, <1>6, StaysTwice

LEMMA SeatStays ==
    ASSUME NEW h, Fits(h), NEW i \in DOMAIN h.load, NEW p \in 1..PagesOf[h.load[i].loc]
    PROVE  Stays(Seat(h, i, p), h)
<1> DEFINE loc  == h.load[i].loc
           done == p = PagesOf[loc]
           room == h.grid # "folded" /\ Cardinality(h.rows) < First
           rows == IF room \/ done THEN h.rows \cup {<<loc, p>>} ELSE h.rows
           a    == [h EXCEPT !.overlay = "none", !.rows = rows]
           d    == DetachStream(a, i)
<1>1. loc \in Places /\ h \in Views
  BY FitsLoad DEF Load, Fits
<1>2. rows \in SUBSET UNION {Pages(l) : l \in Places}
  <2>1. <<loc, p>> \in UNION {Pages(l) : l \in Places}
    BY <1>1, NamesOfPlaces
  <2>2. h.rows \in SUBSET UNION {Pages(l) : l \in Places}
    BY <1>1 DEF Views
  <2> HIDE DEF loc, room, done
  <2> QED BY <2>1, <2>2
<1>3. Seat(h, i, p) \in {Finish(d, done), a}
  BY DEF Seat
<1> HIDE DEF rows
<1>4. Stays(a, h)
  <2>1. "none" \in {"none", "loading", "error"} /\ "open" \in {"folded", "open", "done"}
    OBVIOUS
  <2> QED BY <1>2, <2>1, PanelsStay
<1> HIDE DEF a, done
<1>5. Fits(a) /\ i \in DOMAIN a.load
  BY <1>4, StaysFits
<1>6. Stays(d, a)
  BY <1>5, DetachStays
<1> HIDE DEF d
<1>7. Stays(Finish(d, done), d)
  BY <1>6, FinishStays, StaysFits
<1> QED BY <1>3, <1>4, <1>6, <1>7, StaysTwice

LEMMA KeepStays ==
    ASSUME NEW h, Fits(h), NEW i \in DOMAIN h.load, NEW p
    PROVE  Stays(Keep(h, i, p), h)
<1> DEFINE loc == h.load[i].loc
           d   == DetachStream(h, i)
           a   == [d EXCEPT !.rows = Pages(loc), !.grid = "folded"]
           l   == [h.load[i] EXCEPT !.held = h.load[i].held + 1]
           k   == [h EXCEPT !.load[i] = l]
<1>1. h.load[i] \in Load /\ Bounded(h.load[i]) /\ loc \in Places
  BY FitsLoad DEF Load
<1>2. \/ Keep(h, i, p) = Finish(a, TRUE)
      \/ Keep(h, i, p) = d
      \/ ~(h.load[i].held >= First) /\ Keep(h, i, p) = k
  BY DEF Keep
<1>3. Stays(d, h)
  BY DetachStays
<1> HIDE DEF d
<1>4. Stays(a, d)
  <2>1. /\ Fits(d) /\ Pages(loc) \in SUBSET UNION {Pages(x) : x \in Places}
        /\ "folded" \in {"folded", "open", "done"} /\ "none" \in {"none", "loading", "error"}
    BY <1>1, <1>3, NamesOfPlaces, StaysFits
  <2> HIDE DEF loc
  <2> QED BY <2>1, PanelsStay
<1> HIDE DEF a
<1>5. Stays(Finish(a, TRUE), a)
  BY <1>4, FinishStays, StaysFits
<1>6. ~(h.load[i].held >= First) => Stays(k, h)
  <2> SUFFICES ASSUME ~(h.load[i].held >= First) PROVE Stays(k, h)
    OBVIOUS
  <2>1. h.load[i].held + 1 \in Nat /\ h.load[i].held + 1 <= First
    BY <1>1, MainViewAssumption DEF Load
  <2>2. /\ l \in Load /\ Bounded(l) /\ l.loc = h.load[i].loc /\ l.silent = h.load[i].silent
        /\ l.lseq = h.load[i].lseq /\ l.sent = h.load[i].sent
    BY <1>1, <2>1 DEF Load, Bounded
  <2> HIDE DEF l
  <2> QED BY <2>2, LoadStays
<1> HIDE DEF k
<1>7. Stays(Finish(a, TRUE), h)
  BY <1>3, <1>4, <1>5, StaysTwice
<1> QED BY <1>2, <1>3, <1>6, <1>7

LEMMA HandleStays ==
    ASSUME NEW h, Fits(h), NEW i \in DOMAIN h.load, NEW p \in 0..PagesOf[h.load[i].loc]
    PROVE  Stays(Handle(h, i, p), h)
<1>1. PagesOf[h.load[i].loc] \in Nat
  BY FitsLoad, NamesOfPlaces DEF Load
<1>2. p # Error => p \in 1..PagesOf[h.load[i].loc]
  BY <1>1 DEF Error
<1> QED BY <1>2, BrokenStays, KeepStays, SeatStays, StaysItself DEF Handle

LEMMA FlushStays ==
    ASSUME NEW h, Fits(h), NEW i \in DOMAIN h.load, NEW pages \in Seq(Nat),
           \A n \in DOMAIN pages : pages[n] <= PagesOf[h.load[i].loc]
    PROVE  Stays(Flush(h, i, pages), h)
<1> DEFINE m == Len(pages)
           f == CHOOSE f : Replays(f, h, i, pages, m)
           S == {k \in Nat : k \in 0..m /\ ~Stays(f[k], h)}
<1>1. m \in Nat /\ m \in 0..m
  OBVIOUS
<1>2. Flush(h, i, pages) = f[m]
  BY DEF Flush, Replays, Replayed
<1>3. Replays(f, h, i, pages, m)
  BY <1>1, ReplayExists
<1>4. ASSUME NEW k \in 1..m PROVE pages[k] \in 0..PagesOf[h.load[i].loc]
  <2>1. PagesOf[h.load[i].loc] \in Nat
    <3>1. h.load[i].loc \in Places
      BY FitsLoad DEF Load
    <3> QED BY <3>1, NamesOfPlaces
  <2>2. pages[k] \in Nat /\ k \in DOMAIN pages
    OBVIOUS
  <2>3. pages[k] <= PagesOf[h.load[i].loc]
    BY <2>2
  <2> QED BY <2>1, <2>2, <2>3
<1> HIDE DEF f, m
<1>5. \A n \in 0..m : f[n] = IF n = 0 THEN h ELSE Replayed(f[n - 1], i, pages[n])
  BY <1>3 DEF Replays
<1>6. ASSUME S # {} PROVE FALSE
  <2>1. PICK k \in S : k = 0 \/ (k - 1 \in Nat /\ k - 1 \notin S)
    BY <1>6, LeastOf
  <2>2. k \in 0..m /\ ~Stays(f[k], h)
    BY <2>1
  <2>3. CASE k = 0
    BY <1>5, <2>2, <2>3, StaysItself
  <2>4. CASE k # 0
    <3> DEFINE g == f[k - 1]
    <3>1. k - 1 \in 0..m /\ k - 1 \notin S /\ k \in 1..m
      BY <1>1, <2>1, <2>2, <2>4
    <3>2. Stays(g, h)
      BY <3>1
    <3>3. f[k] = Replayed(g, i, pages[k])
      BY <1>5, <2>2, <2>4
    <3> HIDE DEF g
    <3>4. Fits(g) /\ i \in DOMAIN g.load /\ g.load[i].loc = h.load[i].loc
      BY <3>2, StaysFits
    <3>5. Stays(Handle(g, i, pages[k]), g)
      BY <1>4, <3>1, <3>4, HandleStays
    <3>6. Stays(f[k], h)
      BY <3>2, <3>3, <3>5, StaysTwice DEF Replayed
    <3> QED BY <2>2, <3>6
  <2> QED BY <2>3, <2>4
<1> QED BY <1>1, <1>2, <1>6

(* Every count was taken by some load, so there are as many loads at least. *)
Counts(h) == \A n \in 1..h.lseq : \E j \in DOMAIN h.load : h.load[j].lseq = n
Typed(h)  == Fits(h) /\ Counts(h)

LEMMA StaysTyped ==
    ASSUME NEW h, NEW g, Typed(h), Stays(g, h)
    PROVE  Typed(g)
<1>1. Counts(g)
  BY StaysFits DEF Typed, Counts
<1> QED BY <1>1, StaysFits DEF Typed

LEMMA Upto ==
    ASSUME NEW n \in Nat
    PROVE  IsFiniteSet(1..n) /\ Cardinality(1..n) = n
<1>1. 1 \in Int /\ n \in Int
  OBVIOUS
<1>2. IsFiniteSet(1..n) /\ Cardinality(1..n) = IF 1 > n THEN 0 ELSE n - 1 + 1
  BY <1>1, FS_Interval
<1>3. n = IF 1 > n THEN 0 ELSE n - 1 + 1
  OBVIOUS
<1> QED BY <1>2, <1>3

LEMMA CountsFew ==
    ASSUME NEW h, Typed(h)
    PROVE  h.lseq \in 0..Len(h.load)
<1> DEFINE S == DOMAIN h.load  T == 1..h.lseq
           f == [j \in S |-> IF h.load[j].lseq \in T THEN h.load[j].lseq ELSE 1]
<1>1. h.load \in Seq(Load) /\ h.lseq \in Nat
  BY DEF Typed, Fits, Views
<1>2. S = 1..Len(h.load) /\ Len(h.load) \in Nat
  BY <1>1
<1>3. CASE h.lseq = 0
  BY <1>2, <1>3
<1>4. CASE h.lseq # 0
  <2>1. f \in [S -> T]
    <3>1. 1 \in T
      BY <1>1, <1>4
    <3> HIDE DEF S, T
    <3> QED BY <3>1
  <2>2. \A n \in T : \E j \in S : f[j] = n
    <3> HIDE DEF S
    <3> QED BY DEF Typed, Counts, S
  <2>3. f \in Surjection(S, T)
    BY <2>1, <2>2, Fun_IsSurj
  <2>4. IsFiniteSet(S) /\ Cardinality(S) = Len(h.load) /\ IsFiniteSet(T) /\ Cardinality(T) = h.lseq
    BY <1>1, <1>2, Upto
  <2>5. Cardinality(T) <= Cardinality(S)
    BY <2>3, <2>4, FS_Surjection
  <2> QED BY <1>1, <1>2, <2>4, <2>5
<1> QED BY <1>3, <1>4

(* The next count goes to load i, which had none. *)
LEMMA CountTyped ==
    ASSUME NEW h, Typed(h), NEW i \in DOMAIN h.load, h.load[i].lseq = 0,
           NEW l \in Load, Bounded(l), l.lseq = h.lseq + 1,
           NEW g \in Views, g.load = [h.load EXCEPT ![i] = l], g.lseq = h.lseq + 1,
           g.token = h.token, g.off \in {h.off, i}
    PROVE  Typed(g)
<1> DEFINE s == [h.load EXCEPT ![i] = l]  n == h.lseq + 1
<1>1. h.load \in Seq(Load) /\ h.lseq \in Nat /\ n \in Nat /\ l.lseq = n /\ g.load = s /\ g.lseq = n
  BY DEF Typed, Fits, Views
<1>2. /\ s \in Seq(Load) /\ Len(s) = Len(h.load) /\ DOMAIN s = DOMAIN h.load
      /\ s[i] = l /\ \A j \in DOMAIN h.load : j # i => s[j] = h.load[j]
  BY <1>1
<1>3. \A m \in 1..n : m = n \/ m \in 1..h.lseq
  BY <1>1
<1> HIDE DEF s, n
<1>4. Fits(g)
  BY <1>1, <1>2 DEF Fits, Typed
<1>5. ASSUME NEW m \in 1..n PROVE \E j \in DOMAIN g.load : g.load[j].lseq = m
  <2>1. CASE m = n
    BY <1>1, <1>2, <2>1
  <2>2. CASE m \in 1..h.lseq
    <3>1. PICK j \in DOMAIN h.load : h.load[j].lseq = m
      BY <2>2 DEF Typed, Counts
    <3>2. m # 0
      BY <1>1, <2>2
    <3> QED BY <1>1, <1>2, <3>1, <3>2
  <2> QED BY <1>3, <2>1, <2>2
<1> QED BY <1>1, <1>4, <1>5 DEF Typed, Counts

LEMMA BeginTyped ==
    ASSUME NEW h, Typed(h), NEW i \in DOMAIN h.load, h.load[i].at \in Waits
    PROVE  Typed(Begin(h, i))
<1> DEFINE c  == CancelListStream(h)
           n  == h.lseq + 1
           h1 == [c EXCEPT !.lseq = n, !.load[i].lseq = n]
           h2 == [h1 EXCEPT !.rows = {}, !.grid = "open"]
           Opens(k) == [k EXCEPT !.off = i, !.load[i].at = "begin", !.load[i].live = TRUE,
                                 !.load[i].walk = "running"]
           ha == [h1 EXCEPT !.load[i].at = "gone"]
           l1 == [c.load[i] EXCEPT !.lseq = n]
           la == [l1 EXCEPT !.at = "gone"]
           lb == [l1 EXCEPT !.at = "begin", !.live = TRUE, !.walk = "running"]
           s1 == [c.load EXCEPT ![i] = l1]
           Next1(k, s) == k \in Views /\ k.load = s /\ k.lseq = n /\ k.token = c.token
<1>1. Stays(c, h)
  BY CancelStreamStays DEF Typed
<1>2. Begin(h, i) \in {ha, Opens(h1), Opens(h2)}
  <2>1. h1 = [c EXCEPT !.lseq = @ + 1, !.load[i].lseq = h.lseq + 1]
    BY <1>1, StaysFits
  <2> HIDE DEF h1
  <2> QED BY <2>1 DEF Begin
<1>3. /\ Typed(c) /\ Fits(c) /\ i \in DOMAIN c.load /\ n = c.lseq + 1 /\ n \in Nat
      /\ c.load[i].lseq = 0 /\ c.load[i].sent = 0
  <2>1. Bounded(h.load[i]) /\ h.lseq \in Nat
    BY FitsLoad DEF Typed, Fits, Views
  <2> HIDE DEF c
  <2> QED BY <1>1, <2>1, StaysFits, StaysTyped DEF Bounded
<1>4. c \in Views /\ c.load \in Seq(Load) /\ c.load[i] \in Load /\ Bounded(c.load[i])
  BY <1>3, FitsLoad DEF Fits, Views
<1> HIDE DEF c, n
<1>5. 0 < PagesOf[c.load[i].loc]
  <2>1. c.load[i].loc \in Places
    BY <1>4 DEF Load
  <2>2. PagesOf[c.load[i].loc] \in Nat \ {0}
    BY <2>1, NamesOfPlaces
  <2> QED BY <2>2
<1>6. l1 \in Load
  BY <1>3, <1>4 DEF Load
<1>7. la \in Load /\ Bounded(la) /\ la.lseq = n
  BY <1>3, <1>4 DEF Load, Bounded, Progress, Waits
<1>8. lb \in Load /\ Bounded(lb) /\ lb.lseq = n
  BY <1>3, <1>4, <1>5 DEF Load, Bounded, Progress, Waits
<1>9. /\ s1 \in Seq(Load) /\ DOMAIN s1 = DOMAIN c.load /\ s1[i] = l1
      /\ \A l \in Load : /\ [s1 EXCEPT ![i] = l] = [c.load EXCEPT ![i] = l]
                         /\ [s1 EXCEPT ![i] = l] \in Seq(Load)
  <2>1. s1 \in Seq(Load) /\ DOMAIN s1 = DOMAIN c.load /\ s1[i] = l1
    BY <1>3, <1>4, <1>6
  <2>2. \A l : [s1 EXCEPT ![i] = l] = [c.load EXCEPT ![i] = l]
    BY <1>3, <1>4
  <2> HIDE DEF s1
  <2>3. \A l \in Load : [s1 EXCEPT ![i] = l] \in Seq(Load)
    <3> SUFFICES ASSUME NEW l \in Load PROVE [s1 EXCEPT ![i] = l] \in Seq(Load)
      OBVIOUS
    <3>1. i \in 1..Len(s1)
      BY <1>3, <2>1
    <3> QED BY <2>1, <3>1, ExceptSeq
  <2> QED BY <2>1, <2>2, <2>3
<1>10. Next1(h1, s1) /\ h1.off = c.off
  BY <1>3, <1>4, <1>9 DEF Views
<1> HIDE DEF h1, s1, l1
<1>11. Next1(h2, s1)
  BY <1>10 DEF Views
<1>12. Next1(ha, [s1 EXCEPT ![i] = la]) /\ ha.off = c.off
  BY <1>7, <1>9, <1>10 DEF Views
<1>13. ASSUME NEW k, Next1(k, s1)
       PROVE  Next1(Opens(k), [s1 EXCEPT ![i] = lb]) /\ Opens(k).off = i
  <2> DEFINE kb == [k EXCEPT !.load = [s1 EXCEPT ![i] = lb]]
  <2>1. k \in Views /\ i \in Nat
    BY <1>3, <1>4, <1>13
  <2>2. Next1(kb, [s1 EXCEPT ![i] = lb])
    BY <1>8, <1>9, <1>13 DEF Views
  <2>3. Opens(k) = [kb EXCEPT !.off = i]
    <3> DEFINE lk == [k.load[i] EXCEPT !.at = "begin", !.live = TRUE, !.walk = "running"]
               kk == [k EXCEPT !.load[i] = lk]
    <3>1. i \in DOMAIN k.load /\ k.load[i] = l1 /\ l1 \in Load
      BY <1>3, <1>6, <1>9, <1>13
    <3>2. Opens(k) = [kk EXCEPT !.off = i]
      BY <2>1, <3>1 DEF Views
    <3>3. kk = kb
      BY <1>13, <3>1
    <3> HIDE DEF kk
    <3> QED BY <3>2, <3>3
  <2> HIDE DEF kb, Opens
  <2> QED BY <2>1, <2>2, <2>3 DEF Views
<1> HIDE DEF ha, Opens, h2
<1>14. ASSUME NEW k, NEW l \in {la, lb}, Next1(k, [s1 EXCEPT ![i] = l]), k.off \in {c.off, i}
       PROVE  Typed(k)
  <2>1. l \in Load /\ Bounded(l) /\ l.lseq = c.lseq + 1
    BY <1>3, <1>7, <1>8
  <2>2. k \in Views /\ k.load = [c.load EXCEPT ![i] = l] /\ k.lseq = c.lseq + 1 /\ k.token = c.token
    BY <1>3, <1>9, <1>14, <2>1
  <2> QED BY <1>3, <1>14, <2>1, <2>2, CountTyped
<1> HIDE DEF Next1, la, lb
<1> QED BY <1>2, <1>10, <1>11, <1>12, <1>13, <1>14

LEMMA SourcedTyped ==
    ASSUME NEW h, Typed(h), NEW i \in DOMAIN h.load, h.load[i].at \in Waits
    PROVE  Typed(Sourced(h, i))
<1>1. Stays([h EXCEPT !.load[i].at = "lists"], h) /\ Stays([h EXCEPT !.load[i].at = "gone"], h)
  BY AtStays DEF Typed, Progress
<1> QED BY <1>1, StaysTyped, BeginTyped DEF Sourced

LEMMA LoadViewTyped ==
    ASSUME NEW h, Typed(h), NEW loc \in Places, NEW silent \in BOOLEAN
    PROVE  Typed(LoadView(h, loc, silent))
<1> DEFINE n     == Len(h.load)
           moves == loc.kind \notin Remote /\ loc.source # h.src
           at    == IF moves THEN "set" ELSE "lists"
           new   == Fresh(loc, silent, at)
           s     == Append(h.load, new)
           o     == IF silent THEN "none" ELSE "loading"
           g     == [h EXCEPT !.overlay = o, !.load = s]
<1>1. /\ h \in Views /\ n \in Nat /\ DOMAIN h.load = 1..n /\ h.load \in Seq(Load)
      /\ h.lseq \in Nat /\ h.token \in 0..n /\ h.off \in 0..n
  BY DEF Typed, Fits, Views
<1>2. LoadView(h, loc, silent) \in {g, Sourced(g, n + 1)}
  BY DEF LoadView
<1>3. new \in Load /\ Bounded(new) /\ new.at \in Waits
  <2> DEFINE e == <<>>
  <2>1. new = [loc |-> loc, silent |-> silent, at |-> at, lseq |-> 0, walk |-> "none",
               sent |-> 0, live |-> FALSE, early |-> e, held |-> 0]
    BY DEF Fresh
  <2>2. e \in Seq(Nat) /\ DOMAIN e = {} /\ at \in Waits /\ at \in Progress
    BY DEF Waits, Progress
  <2>3. 0 <= PagesOf[loc] /\ 0 <= First
    BY MainViewAssumption
  <2> HIDE DEF e, at, new
  <2>4. new \in Load
    BY <2>1, <2>2 DEF Load
  <2> QED BY <2>1, <2>2, <2>3, <2>4 DEF Bounded
<1>4. o \in {"none", "loading", "error"}
  OBVIOUS
<1> HIDE DEF new, o
<1>5. /\ s \in Seq(Load) /\ Len(s) = n + 1 /\ DOMAIN s = 1..(n + 1) /\ s[n + 1] = new
      /\ \A j \in 1..n : s[j] = h.load[j]
  BY <1>1, <1>3
<1> HIDE DEF s, n
<1>6. g \in Views /\ g.load = s /\ g.lseq = h.lseq /\ g.token = h.token /\ g.off = h.off
  BY <1>1, <1>4, <1>5 DEF Views
<1> HIDE DEF g
<1>7. Fits(g)
  <2>1. ASSUME NEW j \in DOMAIN g.load PROVE Bounded(g.load[j])
    <3>1. CASE j = n + 1
      BY <1>3, <1>5, <1>6, <3>1
    <3>2. CASE j \in 1..n
      BY <1>1, <1>5, <1>6, <3>2 DEF Typed, Fits
    <3> QED BY <1>1, <1>5, <1>6, <3>1, <3>2
  <2>2. \A k \in 0..n : k \in {0} \cup 1..(n + 1)
    BY <1>1
  <2> QED BY <1>1, <1>5, <1>6, <2>1, <2>2 DEF Fits
<1>8. Counts(g)
  <2>1. 1..n \subseteq 1..(n + 1)
    BY <1>1
  <2> QED BY <1>1, <1>5, <1>6, <2>1 DEF Typed, Counts
<1>9. n + 1 \in DOMAIN g.load /\ g.load[n + 1].at \in Waits
  BY <1>1, <1>3, <1>5, <1>6
<1> QED BY <1>2, <1>7, <1>8, <1>9, SourcedTyped DEF Typed

-----------------------------------------------------------------------------
(* ... event by event. *)
Probing == probe \in [tick : Names, busy : Names]
TypeInv == Typed(v) /\ Probing

LEMMA NameIsKnown ==
    ASSUME NEW h, Fits(h), NEW loc \in Places
    PROVE  NameOf(h, loc) \in Names
<1>1. loc.source \in Names /\ h.src \in Names
  BY NamesOfPlaces DEF Fits, Views
<1>2. {loc2.source : loc2 \in S3} \ {NoSource} \subseteq Names /\ NoSource \in Names
  BY DEF S3, Names, Sources
<1> HIDE DEF Names, S3
<1> QED BY <1>1, <1>2 DEF NameOf

LEMMA DeliverStays ==
    ASSUME NEW h, Fits(h), NEW i \in DOMAIN h.load, NEW p \in 0..PagesOf[h.load[i].loc]
    PROVE  Stays(Deliver(h, i, p), h)
<1> DEFINE e == Append(h.load[i].early, p)
           l == [h.load[i] EXCEPT !.early = e]
           k == [h EXCEPT !.load[i] = l]
<1>1. h.load[i] \in Load /\ Bounded(h.load[i]) /\ h.load[i].early \in Seq(Nat)
      /\ PagesOf[h.load[i].loc] \in Nat /\ p \in Nat /\ p <= PagesOf[h.load[i].loc]
  <2>1. h.load[i] \in Load /\ Bounded(h.load[i]) /\ h.load[i].early \in Seq(Nat) /\ h.load[i].loc \in Places
    BY FitsLoad DEF Load
  <2>2. PagesOf[h.load[i].loc] \in Nat
    BY <2>1, NamesOfPlaces
  <2> QED BY <2>1, <2>2
<1>2. Deliver(h, i, p) \in {h, k, Handle(h, i, p)}
  BY DEF Deliver
<1>3. /\ e \in Seq(Nat)
      /\ \A n \in DOMAIN e : e[n] = p \/ (n \in DOMAIN h.load[i].early /\ e[n] = h.load[i].early[n])
  BY <1>1
<1> HIDE DEF e
<1>4. /\ l \in Load /\ Bounded(l) /\ l.loc = h.load[i].loc /\ l.silent = h.load[i].silent
      /\ l.lseq = h.load[i].lseq /\ l.sent = h.load[i].sent
  <2>1. /\ l \in Load /\ l.early = e /\ l.loc = h.load[i].loc /\ l.silent = h.load[i].silent
        /\ l.lseq = h.load[i].lseq /\ l.sent = h.load[i].sent /\ l.at = h.load[i].at
        /\ l.walk = h.load[i].walk /\ l.held = h.load[i].held
    BY <1>1, <1>3 DEF Load
  <2> HIDE DEF l
  <2>2. \A n \in DOMAIN l.early : l.early[n] <= PagesOf[l.loc]
    BY <1>1, <1>3, <2>1 DEF Bounded
  <2> QED BY <1>1, <2>1, <2>2 DEF Bounded
<1> HIDE DEF l
<1>5. Stays(k, h)
  BY <1>4, LoadStays
<1> QED BY <1>2, <1>5, HandleStays, StaysItself

LEMMA SetReplyTyped ==
    ASSUME TypeInv, NEW i \in DOMAIN v.load, SetReply(i)
    PROVE  Typed(v')
<1> DEFINE name == v.load[i].loc.source  g == [v EXCEPT !.src = name]
<1>1. Fits(v) /\ v.load[i].loc \in Places /\ v.load[i].at = "set" /\ v' = Sourced(g, i)
  BY FitsLoad DEF TypeInv, Typed, Load, SetReply
<1>2. name \in Names
  BY <1>1, NamesOfPlaces
<1> HIDE DEF name
<1>3. Stays(g, v)
  BY <1>1, <1>2, SourceStays
<1>4. i \in DOMAIN g.load /\ g.load[i].at \in Waits
  BY <1>1 DEF Fits, Views, Waits
<1> HIDE DEF g
<1> QED BY <1>1, <1>3, <1>4, StaysTyped, SourcedTyped DEF TypeInv

LEMMA ReplyTyped ==
    ASSUME TypeInv, NEW i \in DOMAIN v.load, Reply(i) \/ ReplyFails(i)
    PROVE  Typed(v')
<1> DEFINE gone == [v EXCEPT !.load[i].at = "gone"]
           loc  == v.load[i].loc
           name == IF loc.kind = "local" THEN NoSource ELSE loc.source
           a    == [gone EXCEPT !.rows = Pages(loc), !.grid = "folded", !.overlay = "none"]
           b    == [gone EXCEPT !.rows = {}, !.grid = "folded", !.overlay = "error"]
<1>1. Fits(v) /\ loc \in Places
  BY FitsLoad DEF TypeInv, Typed, Load
<1>2. Stays(gone, v)
  BY <1>1, AtStays DEF Begun, Progress
<1>3. name \in Names /\ Pages(loc) \in SUBSET UNION {Pages(x) : x \in Places}
      /\ {} \in SUBSET UNION {Pages(x) : x \in Places}
  BY <1>1, NamesOfPlaces DEF Names
<1>4. v' \in {gone, Healthy(a), Failed(gone, name, TRUE), Failed(b, name, FALSE)}
  BY DEF Reply, ReplyFails
<1> HIDE DEF gone, name, loc
<1>5. Fits(gone) /\ "folded" \in {"folded", "open", "done"} /\ "none" \in {"none", "loading", "error"}
      /\ "error" \in {"none", "loading", "error"}
  BY <1>2, StaysFits
<1>6. Stays(a, gone) /\ Stays(b, gone)
  BY <1>3, <1>5, PanelsStay
<1> HIDE DEF a, b
<1>7. Stays(Healthy(a), a) /\ Stays(Failed(b, name, FALSE), b) /\ Stays(Failed(gone, name, TRUE), gone)
  BY <1>3, <1>5, <1>6, HealthyStays, FailedStays, StaysFits
<1>8. Stays(Healthy(a), v) /\ Stays(Failed(b, name, FALSE), v) /\ Stays(Failed(gone, name, TRUE), v)
  BY <1>2, <1>6, <1>7, StaysTwice
<1> QED BY <1>2, <1>4, <1>8, StaysTyped DEF TypeInv

LEMMA BeginReplyTyped ==
    ASSUME TypeInv, NEW i \in DOMAIN v.load, BeginReply(i)
    PROVE  Typed(v')
<1> DEFINE early == v.load[i].early
           o  == Over(v, i)
           h  == [o EXCEPT !.load[i].at = "gone"]
           h1 == [v EXCEPT !.token = i, !.load[i].at = "stream", !.load[i].early = <<>>]
           e  == <<>>
           l  == [v.load[i] EXCEPT !.at = "stream", !.early = e]
           k  == [v EXCEPT !.load[i] = l]
           k1 == [k EXCEPT !.token = i]
<1>1. /\ Fits(v) /\ v.load[i] \in Load /\ Bounded(v.load[i]) /\ early \in Seq(Nat)
      /\ \A n \in DOMAIN early : early[n] <= PagesOf[v.load[i].loc]
  BY FitsLoad DEF TypeInv, Typed, Load, Bounded
<1>2. v' \in {h, Flush(h1, i, early)}
  BY DEF BeginReply
<1>3. Stays(o, v)
  BY <1>1, OverStays
<1> HIDE DEF o
<1>4. Stays(h, o)
  <2>1. Fits(o) /\ i \in DOMAIN o.load /\ "gone" \in Begun /\ "gone" \in Progress
    BY <1>3, StaysFits DEF Begun, Progress
  <2> QED BY <2>1, AtStays
<1> HIDE DEF h
<1>5. h1 = k1
  BY <1>1 DEF Fits, Views
<1>6. e \in Seq(Nat) /\ DOMAIN e = {}
  OBVIOUS
<1> HIDE DEF e, h1, early
<1>7. /\ l \in Load /\ Bounded(l) /\ l.loc = v.load[i].loc /\ l.silent = v.load[i].silent
      /\ l.lseq = v.load[i].lseq /\ l.sent = v.load[i].sent
  BY <1>1, <1>6 DEF Load, Bounded, Progress, Waits
<1> HIDE DEF l
<1>8. Stays(k, v)
  BY <1>1, <1>7, LoadStays
<1> HIDE DEF k
<1>9. Stays(k1, k)
  BY <1>8, SlotStays, StaysFits
<1> HIDE DEF k1
<1>10. Stays(k1, v)
  BY <1>8, <1>9, StaysTwice
<1>11. Stays(Flush(k1, i, early), k1)
  BY <1>1, <1>10, FlushStays, StaysFits
<1>12. Stays(h, v) /\ Stays(Flush(h1, i, early), v)
  BY <1>3, <1>4, <1>5, <1>10, <1>11, StaysTwice
<1> QED BY <1>2, <1>12, StaysTyped DEF TypeInv

LEMMA BeginFailsTyped ==
    ASSUME TypeInv, NEW i \in DOMAIN v.load, BeginFails(i)
    PROVE  Typed(v')
<1> DEFINE o  == Off(v, i)
           n  == IF o.off = i THEN 0 ELSE o.off
           h1 == [o EXCEPT !.load[i].at = "gone", !.load[i].walk = "none", !.off = n]
           l  == [o.load[i] EXCEPT !.at = "gone", !.walk = "none"]
           k  == [o EXCEPT !.load[i] = l]
           k1 == [k EXCEPT !.off = n]
<1>1. v' \in {h1, Broken(h1, i)}
  BY DEF BeginFails
<1>2. Fits(v)
  BY DEF TypeInv, Typed
<1>3. Stays(o, v)
  BY <1>2, OffStays
<1> HIDE DEF o
<1>4. Fits(o) /\ i \in DOMAIN o.load
  BY <1>3, StaysFits
<1>5. o.load[i] \in Load /\ Bounded(o.load[i]) /\ o \in Views
  BY <1>4, FitsLoad DEF Fits
<1> HIDE DEF n
<1>6. h1 = k1
  BY <1>5 DEF Views
<1>7. /\ l \in Load /\ Bounded(l) /\ l.loc = o.load[i].loc /\ l.silent = o.load[i].silent
      /\ l.lseq = o.load[i].lseq /\ l.sent = o.load[i].sent
  BY <1>5 DEF Load, Bounded, Progress, Waits
<1> HIDE DEF l, h1
<1>8. Stays(k, o)
  BY <1>4, <1>7, LoadStays
<1> HIDE DEF k
<1>9. Fits(k) /\ n \in {0} \cup DOMAIN k.load
  BY <1>4, <1>8, StaysFits DEF n, Fits
<1>10. Stays(k1, k)
  BY <1>9, SlotStays
<1> HIDE DEF k1
<1>11. Stays(h1, v)
  BY <1>3, <1>6, <1>8, <1>10, StaysTwice
<1>12. Stays(Broken(h1, i), h1)
  BY <1>11, BrokenStays, StaysFits
<1>13. Stays(Broken(h1, i), v)
  BY <1>11, <1>12, StaysTwice
<1> QED BY <1>1, <1>11, <1>13, StaysTyped DEF TypeInv

LEMMA PagesTyped ==
    ASSUME TypeInv, NEW i \in DOMAIN v.load, Page(i) \/ PageFails(i)
    PROVE  Typed(v')
<1> DEFINE p == v.load[i].sent + 1
           w == IF p = PagesOf[v.load[i].loc] THEN "over" ELSE v.load[i].walk
           l == [v.load[i] EXCEPT !.sent = p, !.walk = w]
           k == [v EXCEPT !.load[i] = l]
           o == Over(v, i)
<1>1. /\ Fits(v) /\ Typed(v) /\ v.load[i] \in Load /\ Bounded(v.load[i]) /\ v.load[i].loc \in Places
      /\ v.load[i].walk = "running" /\ v \in Views
  BY FitsLoad DEF TypeInv, Typed, Load, Page, PageFails, Fits
<1>2. PagesOf[v.load[i].loc] \in Nat
  BY <1>1, NamesOfPlaces
<1>3. p \in Nat /\ p <= PagesOf[v.load[i].loc] /\ p \in 0..PagesOf[v.load[i].loc]
  BY <1>1, <1>2 DEF Load, Bounded
<1>4. CASE Page(i)
  <2>1. v' = Deliver(k, i, p)
    BY <1>4 DEF Page
  <2>2. w \in {"none", "running", "over"} /\ (w = "running" => p < PagesOf[v.load[i].loc])
    BY <1>1, <1>2, <1>3
  <2> HIDE DEF p, w
  <2>3. /\ l \in Load /\ Bounded(l) /\ l.loc = v.load[i].loc /\ l.lseq = v.load[i].lseq
        /\ l.silent = v.load[i].silent
    BY <1>1, <1>3, <2>2 DEF Load, Bounded, Waits
  <2> HIDE DEF l
  <2>4. /\ k \in Views /\ k.lseq = v.lseq /\ k.token = v.token /\ k.off = v.off
        /\ DOMAIN k.load = DOMAIN v.load /\ k.load[i] = l
        /\ \A j \in DOMAIN v.load : j # i => k.load[j] = v.load[j]
    <3> DEFINE s == [v.load EXCEPT ![i] = l]
    <3>1. /\ v.load \in Seq(Load) /\ s \in Seq(Load) /\ DOMAIN s = DOMAIN v.load /\ s[i] = l
          /\ \A j \in DOMAIN v.load : j # i => s[j] = v.load[j]
      BY <1>1, <2>3 DEF Views
    <3> HIDE DEF s
    <3>2. [v EXCEPT !.load = s] \in Views /\ [v EXCEPT !.load = s].load = s
      BY <1>1, <3>1 DEF Views
    <3>3. k = [v EXCEPT !.load = s]
      BY DEF s
    <3>4. k.lseq = v.lseq /\ k.token = v.token /\ k.off = v.off
      BY <1>1 DEF Views
    <3> HIDE DEF k
    <3> QED BY <3>1, <3>2, <3>3, <3>4
  <2> HIDE DEF k
  <2>5. Typed(k)
    <3>1. Fits(k)
      BY <1>1, <2>3, <2>4 DEF Fits
    <3>2. Counts(k)
      BY <1>1, <2>3, <2>4 DEF Typed, Counts
    <3> QED BY <3>1, <3>2 DEF Typed
  <2>6. p \in 0..PagesOf[k.load[i].loc] /\ i \in DOMAIN k.load /\ Fits(k)
    BY <1>3, <2>3, <2>4, <2>5 DEF Typed
  <2> QED BY <2>1, <2>5, <2>6, DeliverStays, StaysTyped
<1>5. CASE PageFails(i)
  <2>1. v' = Deliver(o, i, Error)
    BY <1>5 DEF PageFails
  <2>2. Stays(o, v)
    BY <1>1, OverStays
  <2> HIDE DEF o
  <2>3. Fits(o) /\ i \in DOMAIN o.load /\ Error \in 0..PagesOf[o.load[i].loc]
    BY <1>2, <2>2, StaysFits DEF Error
  <2>4. Stays(Deliver(o, i, Error), o)
    BY <2>3, DeliverStays
  <2> QED BY <1>1, <2>1, <2>2, <2>4, StaysTyped
<1> QED BY <1>4, <1>5

LEMMA UserTyped ==
    ASSUME HistoryInv', TypeInv,
           \/ \E loc \in Places : Navigate(loc)
           \/ GoBack \/ GoForward \/ RefreshSilently \/ Dismiss
    PROVE  TypeInv'
<1>1. UNCHANGED probe
  BY DEF Navigate, GoBack, GoForward, Goes, RefreshSilently, Dismiss
<1>2. \/ \E silent \in BOOLEAN : v' = LoadView(v, nav'.current, silent)
      \/ v' = [v EXCEPT !.banner = NoSource]
  BY DEF Navigate, GoBack, GoForward, Goes, RefreshSilently, Dismiss
<1>3. nav'.current \in Places /\ Typed(v) /\ NoSource \in Names
  BY DEF HistoryInv, Histories, TypeInv, Names
<1>4. Stays([v EXCEPT !.banner = NoSource], v)
  BY <1>3, SourceStays DEF Typed
<1>5. Typed(v')
  BY <1>2, <1>3, <1>4, LoadViewTyped, StaysTyped
<1> QED BY <1>1, <1>5 DEF TypeInv, Probing

LEMMA MonitorTyped ==
    ASSUME HistoryInv, TypeInv,
           \/ Tick \/ TickOk \/ TickFails
           \/ \E name \in Sources : Reconnect(name)
           \/ Reconnected \/ ReconnectFails
    PROVE  TypeInv'
<1>1. nav.current \in Places /\ Typed(v) /\ Fits(v) /\ Probing
  BY DEF HistoryInv, Histories, TypeInv, Typed
<1>2. \/ v' = v
      \/ \E silent \in BOOLEAN : v' = LoadView(Healthy(v), nav.current, silent)
      \/ v' = Healthy(v)
      \/ v' = Failed(v, probe.tick, TRUE)
  BY DEF Tick, TickOk, TickFails, Reconnect, Reconnected, ReconnectFails
<1>3. Typed(Healthy(v)) /\ Typed(Failed(v, probe.tick, TRUE))
  BY <1>1, HealthyStays, FailedStays, StaysTyped DEF Probing
<1>4. Typed(v')
  BY <1>1, <1>2, <1>3, LoadViewTyped
<1>5. \E name \in Names : probe' \in {probe, [probe EXCEPT !.tick = name], [probe EXCEPT !.busy = name]}
  <2>1. NameOf(v, nav.current) \in Names /\ NoSource \in Names /\ Sources \subseteq Names
    BY <1>1, NameIsKnown DEF Names
  <2> QED BY <2>1 DEF Tick, TickOk, TickFails, Reconnect, Reconnected, ReconnectFails
<1>6. Probing'
  BY <1>1, <1>5 DEF Probing
<1> QED BY <1>4, <1>6 DEF TypeInv

LEMMA TypeInvariant == Spec => []TypeInv
<1>1. Init => TypeInv
  <2> SUFFICES ASSUME Init PROVE TypeInv
    OBVIOUS
  <2> DEFINE e == <<>>
  <2>1. v = LoadView(Blank, Home, FALSE) /\ Home \in Places
    BY MainViewAssumption DEF Init
  <2>2. e \in Seq(Load) /\ DOMAIN e = {} /\ NoSource \in Names
    BY DEF Names
  <2>3. Blank = [src |-> NoSource, lseq |-> 0, token |-> 0, off |-> 0, rows |-> {}, grid |-> "folded",
                 overlay |-> "none", streak |-> 0, banner |-> NoSource, load |-> e]
    BY DEF Blank
  <2> HIDE DEF e
  <2>4. Blank \in Views /\ Blank.load = e /\ Blank.lseq = 0 /\ Blank.token = 0 /\ Blank.off = 0
    BY <2>2, <2>3 DEF Views
  <2>5. Typed(Blank)
    BY <2>2, <2>4 DEF Typed, Fits, Counts
  <2>6. Probing
    BY <2>2 DEF Init, Probing
  <2> QED BY <2>1, <2>5, <2>6, LoadViewTyped DEF TypeInv
<1>2. HistoryInv /\ HistoryInv' /\ TypeInv /\ [Next]_vars => TypeInv'
  <2> SUFFICES ASSUME HistoryInv, HistoryInv', TypeInv, [Next]_vars PROVE TypeInv'
    OBVIOUS
  <2>1. CASE UNCHANGED vars
    BY <2>1 DEF vars, TypeInv, Probing
  <2>2. ASSUME NEW i \in DOMAIN v.load, Answer(i) PROVE TypeInv'
    <3>1. Typed(v')
      BY <2>2, SetReplyTyped, ReplyTyped, BeginReplyTyped, BeginFailsTyped, PagesTyped DEF Answer
    <3>2. UNCHANGED probe
      BY <2>2 DEF Answer, SetReply, Reply, ReplyFails, BeginReply, BeginFails, Page, PageFails, Keeps
    <3> QED BY <3>1, <3>2 DEF TypeInv, Probing
  <2>3. CASE \/ \E loc \in Places : Navigate(loc)
             \/ GoBack \/ GoForward \/ RefreshSilently \/ Dismiss
    BY <2>3, UserTyped
  <2>4. CASE \/ Tick \/ TickOk \/ TickFails
             \/ \E name \in Sources : Reconnect(name)
             \/ Reconnected \/ ReconnectFails
    BY <2>4, MonitorTyped
  <2> QED BY <2>1, <2>2, <2>3, <2>4 DEF Next
<1> QED BY <1>1, <1>2, HistoryInvariant, PTL DEF Spec

(* Through any order of answers, pages and failures the view keeps its      *)
(* shape: no load sends, keeps or replays a page its folder does not have,  *)
(* no more counts are taken than there are loads, what the slot names is a  *)
(* load, and what a probe or the banner names is a source of some place     *)
(* (frontend/js/main.js: loadView, its handlers, connTick).                 *)
THEOREM ViewTypeCorrect == Spec => []TypeOK
<1>1. HistoryInv /\ TypeInv => TypeOK
  <2> SUFFICES ASSUME HistoryInv, TypeInv PROVE TypeOK
    OBVIOUS
  <2>1. Typed(v) /\ Fits(v) /\ v \in Views /\ v.load \in Seq(Load) /\ nav \in Histories
    BY DEF TypeInv, Typed, Fits, Views, HistoryInv
  <2>2. nav.current \in Places /\ \A r \in {"stack", "forward"} : nav[r] \in Seq(Places)
    BY <2>1 DEF Histories
  <2>3. v.token \in 0..Len(v.load) /\ v.off \in 0..Len(v.load) /\ v.lseq \in 0..Len(v.load)
    BY <2>1, CountsFew DEF Fits
  <2>4. ASSUME NEW i \in Loads
        PROVE  /\ v.load[i].loc \in Places /\ v.load[i].silent \in BOOLEAN
               /\ v.load[i].at \in {"set", "lists", "begin", "stream", "gone"}
               /\ v.load[i].walk \in {"none", "running", "over"}
               /\ v.load[i].live \in BOOLEAN
               /\ v.load[i].sent \in 0..PagesOf[v.load[i].loc]
               /\ v.load[i].held \in 0..First
               /\ v.load[i].early \in Seq(0..PagesOf[v.load[i].loc])
    <3> DEFINE l == v.load[i]  e == l.early  m == PagesOf[l.loc]
    <3>1. l \in Load /\ Bounded(l)
      BY <2>1, FitsLoad DEF Loads
    <3> HIDE DEF l
    <3>2. l.loc \in Places /\ e \in Seq(Nat) /\ \A n \in DOMAIN e : e[n] <= m
      BY <3>1 DEF Load, Bounded
    <3>3. m \in Nat /\ First \in Nat
      BY <3>2, NamesOfPlaces, MainViewAssumption
    <3>4. l.sent \in 0..m /\ l.held \in 0..First
      BY <3>1, <3>3 DEF Load, Bounded
    <3>5. e \in Seq(0..m)
      <4> HIDE DEF e, m
      <4>1. Len(e) \in Nat /\ DOMAIN e = 1..Len(e) /\ \A n \in 1..Len(e) : e[n] \in Nat /\ e[n] <= m
        BY <3>2
      <4>2. \A n \in 1..Len(e) : e[n] \in 0..m
        BY <3>3, <4>1
      <4>3. e = [n \in 1..Len(e) |-> e[n]]
        BY <3>2
      <4>4. e \in [1..Len(e) -> 0..m]
        BY <4>2, <4>3
      <4> QED BY <4>1, <4>4, SeqDef
    <3>6. l.silent \in BOOLEAN /\ l.at \in Progress /\ l.walk \in {"none", "running", "over"} /\ l.live \in BOOLEAN
      BY <3>1 DEF Load
    <3> QED BY <3>2, <3>4, <3>5, <3>6 DEF Progress, l
  <2>5. /\ v.src \in Names /\ v.banner \in Names /\ v.rows \subseteq UNION {Pages(loc) : loc \in Places}
        /\ v.grid \in {"folded", "open", "done"} /\ v.overlay \in {"none", "loading", "error"}
        /\ v.streak \in 0..2
    BY <2>1 DEF Views
  <2>6. probe.tick \in Names /\ probe.busy \in Names
    BY DEF TypeInv, Probing
  <2> QED BY <2>2, <2>3, <2>4, <2>5, <2>6 DEF TypeOK, Names
<1> QED BY <1>1, HistoryInvariant, TypeInvariant, PTL

-----------------------------------------------------------------------------
(* The window over a big folder (GridWindow).  Kept, the filter of an       *)
(* array, is recursive; its facts are by the least counterexample too.      *)
KeptOne(s, S, q, n) == IF s[n] \in S THEN Append(q, s[n]) ELSE q
Filters(f, s, S, m) ==
    f = [n \in 0..m |-> IF n = 0 THEN <<>> ELSE KeptOne(s, S, f[n - 1], n)]

LEMMA FiltersExist ==
    ASSUME NEW s, NEW S, NEW m \in Nat
    PROVE  \E f : Filters(f, s, S, m)
<1> DEFINE B == {k \in Nat : ~\E f : Filters(f, s, S, k)}
<1> SUFFICES ASSUME B # {} PROVE FALSE
  BY DEF B
<1>1. PICK k \in B : k = 0 \/ (k - 1 \in Nat /\ k - 1 \notin B)
  BY LeastOf
<1>2. k \in Nat /\ ~\E f : Filters(f, s, S, k)
  BY <1>1
<1>3. CASE k = 0
  <2> DEFINE f == [n \in 0..0 |-> <<>>]
  <2>1. \A n \in 0..0 : n = 0
    OBVIOUS
  <2>2. Filters(f, s, S, 0)
    BY <2>1 DEF Filters
  <2> QED BY <1>2, <1>3, <2>2
<1>4. CASE k # 0
  <2>1. k - 1 \in Nat /\ \E f : Filters(f, s, S, k - 1)
    BY <1>1, <1>4
  <2>2. PICK f : Filters(f, s, S, k - 1)
    BY <2>1
  <2> DEFINE e == [n \in 0..k |-> IF n = k THEN KeptOne(s, S, f[k - 1], k) ELSE f[n]]
  <2>3. \A n \in 0..(k - 1) : f[n] = IF n = 0 THEN <<>> ELSE KeptOne(s, S, f[n - 1], n)
    BY <2>2 DEF Filters
  <2>4. \A n \in 0..k : n # k => n \in 0..(k - 1)
    BY <1>2
  <2>5. \A n \in 0..k : n # 0 => n - 1 \in 0..k /\ n - 1 # k /\ n - 1 \in 0..(k - 1)
    BY <1>2
  <2>6. ASSUME NEW n \in 0..k
        PROVE  e[n] = IF n = 0 THEN <<>> ELSE KeptOne(s, S, e[n - 1], n)
    <3>1. n # 0 => e[n - 1] = f[n - 1]
      BY <2>5
    <3>2. CASE n = k
      BY <1>4, <3>1, <3>2
    <3>3. CASE n # k
      BY <2>3, <2>4, <3>1, <3>3
    <3> QED BY <3>2, <3>3
  <2>7. e = [n \in 0..k |-> IF n = 0 THEN <<>> ELSE KeptOne(s, S, e[n - 1], n)]
    <3>1. e = [n \in 0..k |-> e[n]]
      OBVIOUS
    <3> HIDE DEF e
    <3> QED BY <2>6, <3>1
  <2> QED BY <1>2, <2>7 DEF Filters
<1> QED BY <1>3, <1>4

(* What Kept computes, prefix by prefix. *)
KeptPrefixes(f, s, S, m) ==
    /\ Kept(s, S) = f[m] /\ f[0] = <<>>
    /\ \A n \in 1..m : f[n] = KeptOne(s, S, f[n - 1], n)

LEMMA KeptIs ==
    ASSUME NEW s, NEW S, NEW m \in Nat, Len(s) = m
    PROVE  \E f : KeptPrefixes(f, s, S, m)
<1> DEFINE f == CHOOSE f : Filters(f, s, S, m)
<1>1. Kept(s, S) = f[m]
  BY DEF Kept, Filters, KeptOne
<1>2. Filters(f, s, S, m)
  BY FiltersExist
<1> HIDE DEF f
<1>3. \A n \in 0..m : f[n] = IF n = 0 THEN <<>> ELSE KeptOne(s, S, f[n - 1], n)
  BY <1>2 DEF Filters
<1>4. f[0] = <<>> /\ \A n \in 1..m : f[n] = KeptOne(s, S, f[n - 1], n)
  BY <1>3
<1> QED BY <1>1, <1>4 DEF KeptPrefixes

(* It keeps members of S, and no more of them than there were. *)
LEMMA KeptType ==
    ASSUME NEW T, NEW s \in Seq(T), NEW S
    PROVE  Kept(s, S) \in Seq(S)
<1> DEFINE m == Len(s)
<1>1. m \in Nat
  OBVIOUS
<1> HIDE DEF m
<1>2. PICK f : KeptPrefixes(f, s, S, m)
  BY <1>1, KeptIs DEF m
<1> DEFINE B == {k \in Nat : k \in 0..m /\ f[k] \notin Seq(S)}
<1>3. ASSUME B # {} PROVE FALSE
  <2>1. PICK k \in B : k = 0 \/ (k - 1 \in Nat /\ k - 1 \notin B)
    BY <1>3, LeastOf
  <2>2. <<>> \in Seq(S)
    OBVIOUS
  <2>3. k # 0
    BY <1>2, <2>1, <2>2 DEF KeptPrefixes
  <2>4. k \in 1..m /\ k - 1 \in 0..m /\ f[k - 1] \in Seq(S)
    BY <1>1, <2>1, <2>3
  <2>5. f[k] = KeptOne(s, S, f[k - 1], k)
    BY <1>2, <2>4 DEF KeptPrefixes
  <2>6. f[k] \in Seq(S)
    <3> DEFINE q == f[k - 1]
    <3> HIDE DEF q
    <3>1. q \in Seq(S)
      BY <2>4 DEF q
    <3>2. KeptOne(s, S, q, k) \in Seq(S)
      BY <3>1 DEF KeptOne
    <3> QED BY <2>5, <3>2 DEF q
  <2> QED BY <2>1, <2>6
<1> QED BY <1>1, <1>2, <1>3 DEF KeptPrefixes

LEMMA KeptEmpty ==
    ASSUME NEW S
    PROVE  Kept(<<>>, S) = <<>>
<1>1. 0 \in Nat /\ Len(<<>>) = 0
  OBVIOUS
<1> QED BY <1>1, KeptIs DEF KeptPrefixes

(* What a longer sequence keeps. *)
LEMMA KeptConcat ==
    ASSUME NEW T, NEW s \in Seq(T), NEW t \in Seq(T), NEW S
    PROVE  Kept(s \o t, S) = Kept(s, S) \o Kept(t, S)
<1> DEFINE a == Len(s)
           b == Len(t)
           u == s \o t
<1>1. /\ a \in Nat /\ b \in Nat /\ u \in Seq(T) /\ Len(u) = a + b
      /\ Len(s) = a /\ Len(t) = b
      /\ \A i \in 1..a : u[i] = s[i]
      /\ \A i \in 1..b : u[a + i] = t[i]
  BY ConcatProperties
<1> HIDE DEF a, b, u
<1>a. a \in Nat /\ b \in Nat /\ a + b \in Nat /\ Len(s) = a /\ Len(t) = b /\ Len(u) = a + b
  BY <1>1
<1>2. PICK f : KeptPrefixes(f, s, S, a)
  BY <1>a, KeptIs
<1>3. PICK g1 : KeptPrefixes(g1, t, S, b)
  BY <1>a, KeptIs
<1>4. PICK e : KeptPrefixes(e, u, S, a + b)
  BY <1>a, KeptIs
<1> DEFINE A == {k \in Nat : k \in 0..a /\ ~(f[k] \in Seq(S) /\ e[k] = f[k])}
<1>5. ASSUME A # {} PROVE FALSE
  <2>1. PICK k \in A : k = 0 \/ (k - 1 \in Nat /\ k - 1 \notin A)
    BY <1>5, LeastOf
  <2>2. <<>> \in Seq(S)
    OBVIOUS
  <2>3. k # 0
    BY <1>2, <1>4, <2>1, <2>2 DEF KeptPrefixes
  <2>4. k \in 1..a /\ k \in 1..(a + b) /\ k - 1 \in 0..a /\ f[k - 1] \in Seq(S) /\ e[k - 1] = f[k - 1]
    BY <1>1, <2>1, <2>3
  <2>5. f[k] = KeptOne(s, S, f[k - 1], k) /\ e[k] = KeptOne(u, S, f[k - 1], k) /\ u[k] = s[k]
    BY <1>1, <1>2, <1>4, <2>4 DEF KeptPrefixes
  <2> DEFINE q == f[k - 1]
  <2> HIDE DEF q
  <2>6. q \in Seq(S)
    BY <2>4 DEF q
  <2>7. KeptOne(s, S, q, k) \in Seq(S)
    BY <2>6 DEF KeptOne
  <2>8. KeptOne(u, S, q, k) = KeptOne(s, S, q, k)
    BY <2>5 DEF KeptOne
  <2>9. f[k] \in Seq(S) /\ e[k] = f[k]
    BY <2>5, <2>7, <2>8 DEF q
  <2> QED BY <2>1, <2>9
<1>6. f[a] \in Seq(S) /\ e[a] = f[a]
  BY <1>1, <1>5
<1> DEFINE B == {k \in Nat : k \in 0..b /\ ~(g1[k] \in Seq(S) /\ e[a + k] = f[a] \o g1[k])}
<1>7. ASSUME B # {} PROVE FALSE
  <2>1. PICK k \in B : k = 0 \/ (k - 1 \in Nat /\ k - 1 \notin B)
    BY <1>7, LeastOf
  <2>2. <<>> \in Seq(S) /\ f[a] \o <<>> = f[a]
    BY <1>6, ConcatEmptySeq
  <2>3. k # 0
    <3>1. a + 0 = a /\ g1[0] \in Seq(S) /\ e[a + 0] = f[a] \o g1[0]
      BY <1>1, <1>3, <1>6, <2>2 DEF KeptPrefixes
    <3> QED BY <2>1, <3>1
  <2>4. /\ k \in 1..b /\ a + k \in 1..(a + b) /\ k - 1 \in 0..b
        /\ g1[k - 1] \in Seq(S) /\ e[a + (k - 1)] = f[a] \o g1[k - 1] /\ (a + k) - 1 = a + (k - 1)
    <3>1. k \in 1..b /\ a + k \in 1..(a + b) /\ k - 1 \in 0..b /\ (a + k) - 1 = a + (k - 1)
      BY <1>1, <2>1, <2>3
    <3>2. k - 1 \in Nat /\ k - 1 \notin B
      BY <2>1, <2>3
    <3> QED BY <3>1, <3>2
  <2> DEFINE q == g1[k - 1]
             p == f[a]
  <2> HIDE DEF q, p
  <2>5. g1[k] = KeptOne(t, S, q, k) /\ e[a + k] = KeptOne(u, S, p \o q, a + k) /\ u[a + k] = t[k]
    BY <1>1, <1>3, <1>4, <2>4 DEF KeptPrefixes, p, q
  <2>6. q \in Seq(S) /\ p \in Seq(S) /\ p \o q \in Seq(S)
    BY <1>6, <2>4, ConcatProperties DEF p, q
  <2>7. KeptOne(t, S, q, k) \in Seq(S)
    BY <2>6 DEF KeptOne
  <2>8. KeptOne(u, S, p \o q, a + k) = p \o KeptOne(t, S, q, k)
    <3>1. CASE t[k] \in S
      <4> DEFINE x == t[k]
      <4> HIDE DEF x
      <4>1. x \in S
        BY <3>1 DEF x
      <4>2. Append(p \o q, x) = (p \o q) \o <<x>> /\ Append(q, x) = q \o <<x>> /\ <<x>> \in Seq(S)
        <5>1. <<x>> \in Seq(S)
          BY <4>1
        <5> QED BY <4>1, <5>1, <2>6, AppendIsConcat
      <4>3. (p \o q) \o <<x>> = p \o (q \o <<x>>)
        <5>1. p \in Seq(S) /\ q \in Seq(S) /\ <<x>> \in Seq(S)
          BY <2>6, <4>2
        <5> QED BY <5>1, ConcatAssociative
      <4>4. KeptOne(t, S, q, k) = Append(q, x)
        BY <3>1 DEF x, KeptOne
      <4>5. KeptOne(u, S, p \o q, a + k) = Append(p \o q, x)
        BY <2>5, <3>1 DEF x, KeptOne
      <4> DEFINE l == KeptOne(t, S, q, k)
                 r == KeptOne(u, S, p \o q, a + k)
      <4>6. l = q \o <<x>> /\ r = (p \o q) \o <<x>>
        BY <4>2, <4>4, <4>5
      <4> HIDE DEF l, r
      <4>7. r = p \o l
        BY <4>3, <4>6
      <4> QED BY <4>7 DEF l, r
    <3>2. CASE t[k] \notin S
      BY <2>5, <3>2 DEF KeptOne
    <3> QED BY <3>1, <3>2
  <2>9. g1[k] \in Seq(S) /\ e[a + k] = f[a] \o g1[k]
    BY <2>5, <2>7, <2>8 DEF p
  <2> QED BY <2>1, <2>9
<1>8. e[a + b] = f[a] \o g1[b]
  <2>1. B = {}
    BY <1>7
  <2>2. b \in Nat /\ b \in 0..b
    BY <1>1
  <2> QED BY <2>1, <2>2
<1> QED BY <1>2, <1>3, <1>4, <1>8 DEF KeptPrefixes, u

(* Nothing is left of strangers, all is left of members. *)
LEMMA KeptNone ==
    ASSUME NEW T, NEW s \in Seq(T), NEW S, \A i \in 1..Len(s) : s[i] \notin S
    PROVE  Kept(s, S) = <<>>
<1> DEFINE m == Len(s)
<1>1. m \in Nat
  OBVIOUS
<1> HIDE DEF m
<1>2. PICK f : KeptPrefixes(f, s, S, m)
  BY <1>1, KeptIs DEF m
<1> DEFINE B == {k \in Nat : k \in 0..m /\ f[k] # <<>>}
<1>3. ASSUME B # {} PROVE FALSE
  <2>1. PICK k \in B : k = 0 \/ (k - 1 \in Nat /\ k - 1 \notin B)
    BY <1>3, LeastOf DEF KeptPrefixes
  <2>2. k \in 1..m /\ k - 1 \in 0..m /\ f[k - 1] = <<>>
    BY <1>1, <1>2, <2>1 DEF KeptPrefixes
  <2>3. f[k] = f[k - 1]
    BY <1>2, <2>2 DEF KeptPrefixes, KeptOne, m
  <2> QED BY <2>1, <2>2, <2>3
<1> QED BY <1>1, <1>2, <1>3 DEF KeptPrefixes

LEMMA KeptAll ==
    ASSUME NEW S, NEW s \in Seq(S)
    PROVE  Kept(s, S) = s
<1> DEFINE m == Len(s)
<1>1. m \in Nat
  OBVIOUS
<1> HIDE DEF m
<1>2. PICK f : KeptPrefixes(f, s, S, m)
  BY <1>1, KeptIs DEF m
<1> DEFINE Is(q, k) == q \in Seq(S) /\ Len(q) = k /\ \A i \in 1..k : q[i] = s[i]
           B == {k \in Nat : k \in 0..m /\ ~Is(f[k], k)}
<1>3. ASSUME B # {} PROVE FALSE
  <2>1. PICK k \in B : k = 0 \/ (k - 1 \in Nat /\ k - 1 \notin B)
    BY <1>3, LeastOf DEF KeptPrefixes
  <2>2. Is(<<>>, 0)
    OBVIOUS
  <2>3. k # 0
    BY <1>2, <2>1, <2>2 DEF KeptPrefixes
  <2>4. k \in 1..m /\ k - 1 \in 0..m /\ Is(f[k - 1], k - 1)
    BY <1>1, <2>1, <2>3
  <2> DEFINE q == f[k - 1]
             x == s[k]
  <2>5. x \in S /\ f[k] = Append(q, x)
    <3>1. x \in S
      BY <2>4 DEF m
    <3> QED BY <1>2, <2>4, <3>1 DEF KeptPrefixes, KeptOne
  <2>6. Is(q, k - 1)
    BY <2>4
  <2> HIDE DEF q
  <2>7. Is(Append(q, x), k)
    <3>1. q \in Seq(S) /\ Len(q) = k - 1 /\ \A i \in 1..(k - 1) : q[i] = s[i]
      BY <2>6
    <3>2. Append(q, x) \in Seq(S) /\ Len(Append(q, x)) = k
      BY <2>5, <3>1, <2>4
    <3>3. \A i \in 1..k : Append(q, x)[i] = s[i]
      BY <2>5, <3>1, <2>4
    <3> QED BY <3>2, <3>3
  <2> QED BY <2>1, <2>5, <2>7
<1>4. Is(f[m], m)
  BY <1>1, <1>3 DEF KeptPrefixes
<1> QED BY <1>2, <1>4, SeqEqual DEF KeptPrefixes, m

-----------------------------------------------------------------------------
LEMMA Joined ==
    ASSUME NEW S, NEW s \in Seq(S), NEW t \in Seq(S)
    PROVE  /\ s \o t \in Seq(S) /\ Len(s \o t) = Len(s) + Len(t)
           /\ \A i \in 1..Len(s) : (s \o t)[i] = s[i]
  OBVIOUS

(* The grid is well typed, and its oldest checkpoint is the listing's head. *)
Checkpoints == [after : Nat, index : Nat]

Grids ==
    [all : Seq(0..Rows), base : Nat, rows : Seq(1..Rows), top : Nat,
     tops : Seq(Checkpoints), target : Int, from : Nat,
     needDown : BOOLEAN, needUp : BOOLEAN, done : BOOLEAN, universe : Int,
     buf : Seq(1..Rows), start : Nat, head : BOOLEAN, hit : BOOLEAN, scanned : Nat,
     grew : BOOLEAN, calm : BOOLEAN, filter : BOOLEAN, dirty : BOOLEAN]

ListingHead == [after |-> 0, index |-> 0]
Anchored(t) == t # <<>> /\ t[1] = ListingHead /\ Len(t) <= Ring
Sound(h)    == h \in Grids /\ Anchored(h.tops)

LEMMA Constants ==
    /\ Rows \in Nat /\ PageSize \in Nat /\ FirstStep \in Nat /\ WinStep \in Nat /\ MaxHeld \in Nat
    /\ Prefetch \in Nat /\ Screen \in Nat /\ Ring \in Nat
    /\ Rows > 0 /\ PageSize > 0 /\ WinStep > 0 /\ MaxHeld > 0 /\ Ring > 0 /\ Screen > 0
    /\ Match \subseteq 1..Rows
  BY GridAssumption

LEMMA MaxOf ==
    ASSUME NEW S, NEW n \in Nat, S \subseteq 0..n, S # {}
    PROVE  Max(S) \in S /\ \A y \in S : y <= Max(S)
<1> DEFINE B == {k \in Nat : k <= n /\ n - k \in S}
<1>1. B # {}
  <2>1. PICK x \in S : TRUE
    OBVIOUS
  <2>2. x \in 0..n
    BY <2>1
  <2>3. n - x \in Nat /\ n - x <= n /\ n - (n - x) = x
    BY <2>2
  <2> QED BY <2>1, <2>3
<1>2. PICK k \in B : \A j \in B : <<j, k>> \notin OpToRel(<, Nat)
  BY <1>1, WFMin, NatLessThanWellFounded, Zenon
<1>3. \A j \in B : ~(j < k)
  BY <1>2, Zenon DEF OpToRel
<1>4. k \in Nat /\ n - k \in S
  <2>1. k \in B
    BY <1>2, Zenon
  <2> QED BY <2>1
<1>5. ASSUME NEW y \in S PROVE y <= n - k
  <2>1. y \in 0..n /\ n - y \in Nat /\ n - y <= n /\ n - (n - y) = y
    OBVIOUS
  <2>2. ~(n - y < k)
    BY <2>1, <1>3
  <2>3. k \in Nat
    OBVIOUS
  <2> QED BY <2>1, <2>2, <2>3
<1>6. \A y \in S : n - k >= y
  <2>1. n - k \in Int /\ \A y \in S : y \in Int
    BY <1>4
  <2> QED BY <1>5, <2>1
<1>7. Max(S) \in S /\ \A y \in S : Max(S) >= y
  BY <1>4, <1>6, Zenon DEF Max
<1> DEFINE m == Max(S)
<1> HIDE DEF m
<1>8. m \in S /\ \A y \in S : m >= y
  BY <1>7 DEF m
<1>9. \A y \in S : y <= m
  <2>1. m \in Int /\ \A y \in S : y \in Int
    BY <1>8
  <2> QED BY <1>8, <2>1
<1> QED BY <1>8, <1>9 DEF m

(* The host asks for rows from a checkpoint of the ring. *)
LEMMA TopBelowIs ==
    ASSUME NEW h, Sound(h), NEW n \in Nat
    PROVE  TopBelow(h, n) \in Checkpoints
<1> DEFINE t == h.tops
           low == {i \in DOMAIN t : t[i].index <= n}
           high == Max({t[i].index : i \in low})
           best == {i \in low : t[i].index = high}
<1>1. t \in Seq(Checkpoints) /\ t # <<>> /\ t[1].index = 0
  BY DEF Sound, Anchored, Grids, ListingHead
<1>2. Len(t) \in Nat /\ DOMAIN t = 1..Len(t) /\ 1 \in DOMAIN t
      /\ \A i \in DOMAIN t : t[i] \in Checkpoints /\ t[i].index \in Nat
  <2> HIDE DEF t
  <2>1. Len(t) \in Nat /\ DOMAIN t = 1..Len(t) /\ 1 \in DOMAIN t /\ \A i \in DOMAIN t : t[i] \in Checkpoints
    BY <1>1
  <2> QED BY <2>1 DEF Checkpoints
<1> HIDE DEF t
<1>3. {t[i].index : i \in low} \subseteq 0..n /\ {t[i].index : i \in low} # {}
  <2>1. 1 \in low
    BY <1>1, <1>2
  <2>2. \A i \in low : t[i].index \in 0..n
    BY <1>2
  <2> HIDE DEF low
  <2>3. t[1].index \in {t[i].index : i \in low}
    BY <2>1
  <2>4. {t[i].index : i \in low} \subseteq 0..n
    BY <2>2
  <2> QED BY <2>3, <2>4
<1>4. high \in {t[i].index : i \in low}
  <2> DEFINE N == {t[i].index : i \in low}
  <2> HIDE DEF N
  <2>1. N \subseteq 0..n /\ N # {}
    BY <1>3 DEF N
  <2>2. Max(N) \in N
    BY <2>1, MaxOf
  <2> QED BY <2>2 DEF N
<1> HIDE DEF high
<1>5. best # {} /\ best \subseteq 0..Len(t)
  <2>1. PICK i \in low : t[i].index = high
    BY <1>4
  <2>2. i \in best
    BY <2>1
  <2>3. low \subseteq 0..Len(t)
    BY <1>2
  <2> QED BY <2>2, <2>3
<1>6. Max(best) \in best
  <2> HIDE DEF best
  <2> QED BY <1>2, <1>5, MaxOf
<1>7. t[Max(best)] \in Checkpoints
  BY <1>2, <1>6
<1> QED BY <1>7 DEF TopBelow, t, high

(* A checkpoint more: the ring keeps its head and changes nothing else. *)
Seats(g1, h) == g1 = [h EXCEPT !.tops = g1.tops] /\ g1.tops \in Seq(Checkpoints) /\ Anchored(g1.tops)

LEMMA SeatsSound ==
    ASSUME NEW h, Sound(h), NEW g1, Seats(g1, h)
    PROVE  Sound(g1)
<1> DEFINE t == g1.tops
<1>1. t \in Seq(Checkpoints) /\ Anchored(t) /\ g1 = [h EXCEPT !.tops = t]
  BY DEF Seats
<1> HIDE DEF t
<1>2. g1 \in Grids
  BY <1>1 DEF Sound, Grids
<1> QED BY <1>1, <1>2 DEF Sound, t

LEMMA Thinning ==
    ASSUME NEW n \in Nat, n >= 1, NEW half \in Int, half = (n + 1) \div 2,
           NEW out \in Int, out = half \div 2
    PROVE  /\ half \in 1..n /\ out \in Nat /\ half - out >= 1 /\ n + 1 - out >= 1
           /\ half % 2 \in {0, 1}
           /\ \A j \in 1..(n + 1 - out) :
                 (IF j > half - out THEN j + out ELSE Most(1, 2 * j - 1 - (half % 2))) \in 1..(n + 1)
           /\ Most(1, 2 * 1 - 1 - (half % 2)) = 1
<1>1. half % 2 \in {0, 1} /\ half = 2 * out + (half % 2)
  OBVIOUS
<1>2. n + 1 = 2 * half \/ n + 1 = 2 * half + 1
  OBVIOUS
<1> DEFINE b == half % 2
<1> HIDE DEF b
<1>3. b \in {0, 1} /\ half = 2 * out + b
  BY <1>1 DEF b
<1>4. half \in 1..n /\ out \in Nat /\ half - out >= 1 /\ n + 1 - out >= 1
  BY <1>2, <1>3
<1>5. ASSUME NEW j \in 1..(n + 1 - out)
      PROVE  (IF j > half - out THEN j + out ELSE Most(1, 2 * j - 1 - b)) \in 1..(n + 1)
  BY <1>2, <1>3, <1>4 DEF Most
<1>6. Most(1, 2 * 1 - 1 - b) = 1
  BY <1>3 DEF Most
<1> QED BY <1>3, <1>4, <1>5, <1>6 DEF b

LEMMA PushTopSeats ==
    ASSUME NEW h, Sound(h), NEW after \in Nat, NEW index \in Nat \ {0}
    PROVE  Seats(PushTop(h, after, index), h)
<1> DEFINE t == h.tops
           n == Len(t)
           c == [after |-> after, index |-> index]
           more == Append(t, c)
           half == (n + 1) \div 2
           out == half \div 2
           from(j) == IF j > half - out THEN j + out ELSE Most(1, 2 * j - 1 - (half % 2))
           thin == [j \in 1..(n + 1 - out) |-> more[from(j)]]
           last == <<Head(thin)>> \o SubSeq(thin, Len(thin) - Ring + 2, Len(thin))
           after1 == [t EXCEPT ![n].after = after]
           Fine(u) == u \in Seq(Checkpoints) /\ Anchored(u)
<1>1. /\ t \in Seq(Checkpoints) /\ t # <<>> /\ t[1] = ListingHead /\ Len(t) <= Ring
      /\ h \in Grids /\ c \in Checkpoints
  BY DEF Sound, Anchored, Grids, Checkpoints
<1> HIDE DEF t, c
<1>2. n \in Nat /\ n >= 1 /\ n <= Ring /\ DOMAIN t = 1..n
      /\ \A i \in 1..n : t[i] \in Checkpoints
  BY <1>1
<1>3. ASSUME t[n].index = index PROVE Fine(after1)
  <2>0. n # 1
    BY <1>1, <1>3 DEF ListingHead
  <2>1. t[n] \in Checkpoints /\ [t[n] EXCEPT !.after = after] \in Checkpoints
        /\ [t[n] EXCEPT !.after = after].index = t[n].index
    BY <1>2 DEF Checkpoints
  <2> DEFINE x == [t[n] EXCEPT !.after = after]
  <2> HIDE DEF x
  <2>2. x \in Checkpoints /\ x.index = t[n].index
    BY <2>1 DEF x
  <2>3. after1 = [t EXCEPT ![n] = x]
    BY DEF x
  <2>4. [t EXCEPT ![n] = x] \in Seq(Checkpoints) /\ Len([t EXCEPT ![n] = x]) = n
    BY <1>1, <1>2, <2>2
  <2>5. [t EXCEPT ![n] = x][1] = ListingHead
    BY <1>1, <1>2, <2>0
  <2>6. [t EXCEPT ![n] = x] # <<>>
    BY <1>2, <2>4
  <2> QED BY <1>2, <2>3, <2>4, <2>5, <2>6 DEF Anchored
<1>4. more \in Seq(Checkpoints) /\ Len(more) = n + 1 /\ more[1] = ListingHead
      /\ (n < Ring => Fine(more))
      /\ \A i \in 1..(n + 1) : more[i] \in Checkpoints
  <2>1. more \in Seq(Checkpoints) /\ Len(more) = n + 1 /\ more[1] = t[1]
    BY <1>1, <1>2, AppendProperties
  <2> HIDE DEF more
  <2>2. more # <<>> /\ \A i \in 1..(n + 1) : more[i] \in Checkpoints
    BY <1>2, <2>1
  <2>3. n < Ring => n + 1 <= Ring
    BY <1>2, Constants
  <2> QED BY <1>1, <2>1, <2>2, <2>3 DEF Anchored
<1>5. /\ half \in 1..n /\ out \in Nat /\ half - out >= 1 /\ n + 1 - out >= 1
      /\ \A j \in 1..(n + 1 - out) : from(j) \in 1..(n + 1)
      /\ from(1) = 1
  <2>1. n \in Nat /\ n >= 1
    BY <1>2
  <2> HIDE DEF n
  <2>2. half \in Int /\ half = (n + 1) \div 2
    BY <2>1
  <2> HIDE DEF half
  <2>3. out \in Int /\ out = half \div 2
    BY <2>2
  <2> HIDE DEF out
  <2>4. /\ half \in 1..n /\ out \in Nat /\ half - out >= 1 /\ n + 1 - out >= 1
        /\ \A j \in 1..(n + 1 - out) :
              (IF j > half - out THEN j + out ELSE Most(1, 2 * j - 1 - (half % 2))) \in 1..(n + 1)
        /\ Most(1, 2 * 1 - 1 - (half % 2)) = 1
    BY <2>1, <2>2, <2>3, Thinning, Zenon
  <2>5. from(1) = 1
    BY <2>2, <2>3, <2>4
  <2> QED BY <2>4, <2>5
<1> HIDE DEF more, n, half, out, from
<1>6. thin \in Seq(Checkpoints) /\ Len(thin) = n + 1 - out /\ thin # <<>> /\ thin[1] = ListingHead
  <2>1. \A j \in 1..(n + 1 - out) : more[from(j)] \in Checkpoints
    BY <1>4, <1>5
  <2>2. n + 1 - out \in Nat
    BY <1>2, <1>5
  <2>3. thin \in Seq(Checkpoints) /\ Len(thin) = n + 1 - out
    BY <2>1, <2>2
  <2>4. thin[1] = more[1]
    BY <1>5, <2>2
  <2> HIDE DEF thin
  <2>5. thin # <<>>
    BY <1>5, <2>3
  <2> QED BY <1>4, <2>3, <2>4, <2>5
<1> HIDE DEF thin
<1>7. Len(thin) <= Ring => Fine(thin)
  BY <1>6 DEF Anchored
<1>8. ASSUME n + 1 - out > Ring PROVE Fine(last)
  <2>1. Head(thin) = thin[1] /\ thin[1] \in Checkpoints
    BY <1>6, <1>5
  <2>2. <<Head(thin)>> \in Seq(Checkpoints) /\ Len(<<Head(thin)>>) = 1 /\ <<Head(thin)>>[1] = thin[1]
    BY <2>1
  <2> DEFINE m == Len(thin)
             a == m - Ring + 2
             q == SubSeq(thin, a, m)
             w == <<Head(thin)>>
  <2>3. m \in Nat /\ a \in Int /\ a >= 1
    BY <1>2, <1>5, <1>6, <1>8, Constants
  <2>4. \A i \in a..m : thin[i] \in Checkpoints
    BY <1>6, <2>3
  <2> HIDE DEF m, a
  <2>5. q \in Seq(Checkpoints) /\ Len(q) = m - a + 1
    <3>1. a <= m + 1 /\ m - a + 1 \in Nat
      BY <2>3, Constants DEF a
    <3> QED BY <2>3, <2>4, <3>1, SubSeqProperties
  <2>10. 1 + (m - a + 1) = Ring
    BY <2>3, Constants DEF a
  <2> HIDE DEF q, w
  <2>6. w \in Seq(Checkpoints) /\ Len(w) = 1 /\ w[1] = thin[1]
    BY <2>2 DEF w
  <2>7. w \o q \in Seq(Checkpoints) /\ Len(w \o q) = 1 + Len(q) /\ (w \o q)[1] = thin[1]
    <3> DEFINE x == w \o q
    <3>1. x \in Seq(Checkpoints) /\ Len(x) = Len(w) + Len(q) /\ \A i \in 1..Len(w) : x[i] = w[i]
      BY <2>5, <2>6, Joined
    <3> HIDE DEF x
    <3>2. 1 \in 1..Len(w)
      BY <2>6
    <3>3. x \in Seq(Checkpoints) /\ Len(x) = 1 + Len(q) /\ x[1] = thin[1]
      BY <2>6, <3>1, <3>2
    <3> QED BY <3>3 DEF x
  <2>8. w \o q # <<>>
    BY <2>5, <2>7
  <2>9. last = w \o q
    BY DEF w, q, a, m
  <2>11. Len(w \o q) = Ring
    BY <2>5, <2>7, <2>10
  <2>12. (w \o q)[1] = ListingHead
    BY <1>6, <2>7
  <2>13. Len(w \o q) <= Ring
    BY <2>11, Constants
  <2> DEFINE x == w \o q
  <2> HIDE DEF x
  <2>14. x \in Seq(Checkpoints) /\ x # <<>> /\ x[1] = ListingHead /\ Len(x) <= Ring
    BY <2>7, <2>8, <2>12, <2>13 DEF x
  <2>15. Fine(x)
    BY <2>14 DEF Anchored
  <2> QED BY <2>9, <2>15 DEF x
<1> DEFINE u == IF t[n].index = index THEN after1
                ELSE IF n < Ring THEN more
                ELSE IF Len(thin) <= Ring THEN thin ELSE last
<1>9. Fine(u)
  <2>1. CASE t[n].index = index
    BY <1>3, <2>1
  <2>2. CASE t[n].index # index /\ n < Ring
    BY <1>4, <2>2
  <2>3. CASE t[n].index # index /\ ~(n < Ring) /\ Len(thin) <= Ring
    BY <1>7, <2>3
  <2>4. CASE t[n].index # index /\ ~(n < Ring) /\ ~(Len(thin) <= Ring)
    <3>1. n + 1 - out > Ring
      BY <1>2, <1>5, <1>6, <2>4, Constants
    <3> QED BY <1>8, <2>4, <3>1
  <2> QED BY <2>1, <2>2, <2>3, <2>4
<1>10. PushTop(h, after, index) = [h EXCEPT !.tops = u]
  BY DEF PushTop, t, c, more, n, half, out, from, thin
<1> HIDE DEF u
<1>11. [h EXCEPT !.tops = u].tops = u
  BY <1>1 DEF Grids
<1> QED BY <1>9, <1>10, <1>11 DEF Seats

-----------------------------------------------------------------------------
(* What the operators keep of a grid: its demands, its filter, its buffer.  *)
Like(g1, h) ==
    /\ Sound(g1)
    /\ g1.needDown = h.needDown /\ g1.needUp = h.needUp
    /\ g1.filter = h.filter /\ g1.calm = h.calm /\ g1.buf = h.buf

LEMMA LikeTwice ==
    ASSUME NEW h, NEW g1, NEW g2, Like(g1, h), Like(g2, g1)
    PROVE  Like(g2, h)
  BY DEF Like

LEMMA SeqFacts ==
    ASSUME NEW S, NEW s \in Seq(S)
    PROVE  Len(s) \in Nat /\ \A i \in 1..Len(s) : s[i] \in S
  BY LenProperties, ElementOfSeq

LEMMA GridFacts ==
    ASSUME NEW h, Sound(h)
    PROVE  /\ h \in Grids /\ Like(h, h)
           /\ h.all \in Seq(0..Rows) /\ h.base \in Nat /\ h.rows \in Seq(1..Rows) /\ h.top \in Nat
           /\ h.target \in Int /\ h.buf \in Seq(1..Rows) /\ h.start \in Nat /\ h.scanned \in Nat
           /\ h.from \in Nat /\ h.universe \in Int /\ h.tops \in Seq(Checkpoints)
           /\ h.needDown \in BOOLEAN /\ h.needUp \in BOOLEAN /\ h.filter \in BOOLEAN
           /\ Len(h.all) \in Nat /\ Len(h.rows) \in Nat /\ Len(h.buf) \in Nat
           /\ Edge(h) \in Nat /\ Edge(h) = h.base + Len(h.all)
           /\ \A i \in 1..Len(h.all) : h.all[i] \in 0..Rows
<1>1. /\ h \in Grids
      /\ h.all \in Seq(0..Rows) /\ h.base \in Nat /\ h.rows \in Seq(1..Rows) /\ h.top \in Nat
      /\ h.target \in Int /\ h.buf \in Seq(1..Rows) /\ h.start \in Nat /\ h.scanned \in Nat
      /\ h.from \in Nat /\ h.universe \in Int /\ h.tops \in Seq(Checkpoints)
      /\ h.needDown \in BOOLEAN /\ h.needUp \in BOOLEAN /\ h.filter \in BOOLEAN
  BY DEF Sound, Grids
<1> DEFINE a == h.all
<1> HIDE DEF a
<1>2. a \in Seq(0..Rows)
  BY <1>1 DEF a
<1>3. Len(a) \in Nat /\ \A i \in 1..Len(a) : a[i] \in 0..Rows
  BY <1>2, SeqFacts, Zenon
<1>4. Len(h.rows) \in Nat /\ Len(h.buf) \in Nat
  BY <1>1, SeqFacts, Zenon
<1>5. Edge(h) \in Nat /\ Edge(h) = h.base + Len(h.all)
  BY <1>1, <1>3 DEF Edge, a
<1> QED BY <1>1, <1>3, <1>4, <1>5 DEF Like, a

LEMMA FilteredType ==
    ASSUME NEW h, h.all \in Seq(0..Rows)
    PROVE  Filtered(h) \in Seq(1..Rows) /\ Real(h.all) \in Seq(1..Rows)
<1>1. Kept(h.all, Match) \in Seq(Match) /\ Real(h.all) \in Seq(1..Rows)
  BY KeptType DEF Real
<1>2. Seq(Match) \subseteq Seq(1..Rows)
  BY Constants, SeqMonotonic
<1> QED BY <1>1, <1>2 DEF Filtered

(* The scroll position the canvas allows: there it stays without a filter.  *)
Lies(h) == ~h.filter /\ h.top <= Most(0, Edge(h) - Screen)

LEMMA ClampLike ==
    ASSUME NEW h, Sound(h)
    PROVE  /\ Like(Clamp(h), h)
           /\ Clamp(h).all = h.all /\ Clamp(h).base = h.base /\ Clamp(h).start = h.start
           /\ Clamp(h).top <= h.top
           /\ ~h.filter => Lies(Clamp(h))
           /\ Lies(h) => Clamp(h).top = h.top
<1>1. h.top \in Nat /\ Extent(h) \in Int /\ h \in Grids
  BY GridFacts DEF Extent
<1> DEFINE x == Least(h.top, Most(0, Extent(h) - Screen))
<1>2. x \in Nat /\ x <= h.top /\ x <= Most(0, Extent(h) - Screen)
  BY <1>1, Constants DEF Least, Most
<1>3. h.top <= Most(0, Extent(h) - Screen) => x = h.top
  BY <1>1, <1>2 DEF Least
<1> HIDE DEF x
<1>4. Clamp(h) = [h EXCEPT !.top = x]
  BY DEF Clamp, x
<1>5. [h EXCEPT !.top = x] \in Grids /\ [h EXCEPT !.top = x].top = x
  BY <1>1, <1>2 DEF Grids
<1> DEFINE c == Clamp(h)
<1>6. /\ c \in Grids /\ c.top = x /\ c.all = h.all /\ c.base = h.base /\ c.start = h.start
      /\ c.filter = h.filter /\ c.tops = h.tops /\ Like(c, h)
  BY <1>1, <1>4, <1>5 DEF Like, Sound, Grids
<1> HIDE DEF c
<1>7. Edge(c) = Edge(h) /\ (~h.filter => Extent(h) = Edge(h))
  BY <1>6 DEF Edge, Extent
<1> QED BY <1>2, <1>3, <1>6, <1>7 DEF Lies, c

LEMMA MostIs ==
    ASSUME NEW x \in Int
    PROVE  Most(0, x) \in Nat /\ Most(0, x) >= x /\ (x >= 0 => Most(0, x) = x) /\ (x < 0 => Most(0, x) = 0)
  BY DEF Most

(* The trim at the head: a prefix goes, never past the screen above the view. *)
LEMMA TopCutIs ==
    ASSUME NEW h, Sound(h)
    PROVE  /\ TopCut(h) \in 0..Len(h.all)
           /\ TopCut(h) <= Most(0, Len(h.all) - MaxHeld)
           /\ ~h.filter => TopCut(h) <= Most(0, h.top - Screen - h.base)
<1>1. Len(h.all) \in Nat /\ h.top \in Nat /\ h.base \in Nat
  BY GridFacts
<1> DEFINE safe == IF h.filter THEN Most(0, h.top - 2) ELSE Most(0, h.top - Screen - h.base)
           over == Len(h.all) - MaxHeld
<1>2. safe \in Nat /\ (~h.filter => safe = Most(0, h.top - Screen - h.base))
  <2>1. Most(0, h.top - 2) \in Nat /\ Most(0, h.top - Screen - h.base) \in Nat
    <3>1. h.top - 2 \in Int /\ h.top - Screen - h.base \in Int
      BY <1>1, Constants
    <3> QED BY <3>1, MostIs
  <2>2. CASE h.filter
    BY <2>1, <2>2
  <2>3. CASE ~h.filter
    BY <2>1, <2>3
  <2> QED BY <2>2, <2>3
<1>3. TopCut(h) = Most(0, Least(over, safe))
  BY DEF TopCut
<1> HIDE DEF safe
<1>4. over \in Int /\ over <= Len(h.all)
  BY <1>1, Constants
<1>5. Most(0, Least(over, safe)) \in Nat /\ Most(0, Least(over, safe)) <= safe
      /\ Most(0, Least(over, safe)) <= Most(0, over) /\ Most(0, over) <= Len(h.all)
  <2> HIDE DEF over
  <2> QED BY <1>1, <1>2, <1>4 DEF Most, Least
<1>6. TopCut(h) \in Nat /\ TopCut(h) <= safe /\ TopCut(h) <= Most(0, over) /\ Most(0, over) <= Len(h.all)
  BY <1>3, <1>5
<1>7. TopCut(h) \in 0..Len(h.all)
  <2> HIDE DEF over
  <2>1. Most(0, over) \in Int
    BY <1>4 DEF Most
  <2> QED BY <1>1, <1>6, <2>1
<1> QED BY <1>2, <1>6, <1>7

LEMMA TrimTopIs ==
    ASSUME NEW h, Sound(h)
    PROVE  /\ Like(TrimTop(h), h)
           /\ TrimTop(h).all = SubSeq(h.all, TopCut(h) + 1, Len(h.all))
           /\ TrimTop(h).base = h.base + TopCut(h)
           /\ ~h.filter => TrimTop(h).top = Most(0, h.top - TopCut(h))
<1> DEFINE cut == TopCut(h)
           n == Len(h.all)
           gone == SubSeq(h.all, 1, cut)
           real == {i \in 1..cut : gone[i] # Tombstone}
           h1 == IF real = {} THEN h
                 ELSE PushTop(h, gone[Max(real)], h.base + Max(real))
           back == IF h.filter THEN Len(Kept(gone, Match)) ELSE cut
           a == SubSeq(h.all, cut + 1, n)
           r == Kept(h1.rows, (1..Rows) \ Range(gone))
<1>1. /\ cut \in 0..n /\ n \in Nat /\ h.all \in Seq(0..Rows) /\ h.base \in Nat /\ h.top \in Nat
      /\ \A i \in 1..n : h.all[i] \in 0..Rows
  BY GridFacts, TopCutIs
<1> HIDE DEF cut, n
<1>2. /\ gone \in Seq(0..Rows) /\ Len(gone) = cut
      /\ \A i \in 1..cut : gone[i] \in 0..Rows
  <2>1. \A i \in 1..cut : h.all[i] \in 0..Rows
    BY <1>1
  <2>2. 1 \in Int /\ cut \in Int
    BY <1>1
  <2>3. /\ gone \in Seq(0..Rows) /\ Len(gone) = IF 1 <= cut THEN cut - 1 + 1 ELSE 0
    BY <2>1, <2>2, SubSeqProperties
  <2> HIDE DEF gone
  <2>4. Len(gone) = cut
    BY <1>1, <2>3
  <2> QED BY <2>3, <2>4, SeqFacts
<1>3. a \in Seq(0..Rows)
  <2>1. \A i \in (cut + 1)..n : h.all[i] \in 0..Rows
    BY <1>1
  <2> QED BY <1>1, <2>1, SubSeqProperties
<1> HIDE DEF gone, a
<1>4. back \in Nat /\ (~h.filter => back = cut)
  <2>1. Len(Kept(gone, Match)) \in Nat /\ cut \in Nat
    BY <1>1, <1>2, KeptType
  <2>2. CASE h.filter
    BY <2>1, <2>2
  <2>3. CASE ~h.filter
    BY <2>1, <2>3
  <2> QED BY <2>2, <2>3
<1> HIDE DEF back
<1>5. Sound(h1) /\ h1 = [h EXCEPT !.tops = h1.tops]
  <2>1. CASE real = {}
    <3>1. h1 = h
      BY <2>1
    <3> HIDE DEF h1
    <3> QED BY <3>1 DEF Sound, Grids
  <2>2. CASE real # {}
    <3>1. Max(real) \in real
      <4>1. real \subseteq 0..cut /\ cut \in Nat
        BY <1>1
      <4> HIDE DEF real
      <4> QED BY <2>2, <4>1, MaxOf
    <3>2. Max(real) \in 1..cut
      BY <3>1
    <3>3. gone[Max(real)] \in Nat /\ h.base + Max(real) \in Nat \ {0}
      <4> DEFINE m == Max(real)
      <4> HIDE DEF m
      <4>1. m \in 1..cut /\ cut \in Nat /\ gone[m] \in 0..Rows
        BY <1>1, <1>2, <3>2 DEF m
      <4>2. gone[m] \in Nat /\ h.base + m \in Nat \ {0}
        BY <1>1, <4>1, Constants
      <4> QED BY <4>2 DEF m
    <3>4. Seats(h1, h)
      BY <2>2, <3>3, PushTopSeats
    <3> HIDE DEF h1
    <3> QED BY <3>4, SeatsSound DEF Seats
  <2> QED BY <2>1, <2>2
<1> HIDE DEF h1, real
<1>6. r \in Seq(1..Rows)
  <2>1. h1.rows \in Seq(1..Rows)
    BY <1>5, GridFacts
  <2>2. r \in Seq((1..Rows) \ Range(gone))
    BY <2>1, KeptType
  <2>3. Seq((1..Rows) \ Range(gone)) \subseteq Seq(1..Rows)
    BY SeqMonotonic
  <2> QED BY <2>2, <2>3
<1> HIDE DEF r
<1> DEFINE b == h.base + cut
           p == Most(0, h.top - back)
<1>7. b \in Nat /\ p \in Nat /\ (~h.filter => p = Most(0, h.top - cut))
  BY <1>1, <1>4 DEF Most
<1>8. h1.base = h.base /\ h1.top = h.top /\ h1.all = h.all
      /\ h1.needDown = h.needDown /\ h1.needUp = h.needUp /\ h1.filter = h.filter /\ h1.buf = h.buf
      /\ h1.calm = h.calm
  <2> DEFINE t == h1.tops
  <2>1. h1 = [h EXCEPT !.tops = t] /\ h \in Grids
    BY <1>5, GridFacts
  <2> HIDE DEF t
  <2> QED BY <2>1 DEF Grids
<1>9. cut # 0 => TrimTop(h) = [h1 EXCEPT !.all = a, !.base = b, !.rows = r, !.top = p]
  <2>1. TrimTop(h) = IF cut = 0 THEN h ELSE [h1 EXCEPT !.all = SubSeq(@, cut + 1, Len(@)),
                        !.base = @ + cut,
                        !.rows = Kept(@, (1..Rows) \ Range(gone)),
                        !.top = Most(0, @ - back)]
    BY DEF TrimTop, cut, gone, real, h1, back
  <2> QED BY <1>8, <2>1 DEF a, r, n
<1> HIDE DEF b, p
<1>10. CASE cut # 0
  <2>1. [h1 EXCEPT !.all = a, !.base = b, !.rows = r, !.top = p] \in Grids
    BY <1>3, <1>5, <1>6, <1>7 DEF Sound, Grids
  <2> DEFINE k == [h1 EXCEPT !.all = a, !.base = b, !.rows = r, !.top = p]
  <2>2. /\ k.all = a /\ k.base = b /\ k.tops = h1.tops /\ k.top = p /\ k.calm = h1.calm
        /\ k.needDown = h1.needDown /\ k.needUp = h1.needUp /\ k.filter = h1.filter /\ k.buf = h1.buf
    BY <1>5 DEF Sound, Grids
  <2> HIDE DEF k
  <2>3. Sound(k)
    BY <1>5, <2>1, <2>2 DEF Sound, k
  <2>4. TrimTop(h) = k
    BY <1>9, <1>10 DEF k
  <2> QED BY <1>7, <1>8, <2>2, <2>3, <2>4 DEF Like, a, b, cut, n
<1>11. CASE cut = 0
  <2>1. TrimTop(h) = h
    BY <1>11 DEF TrimTop, cut
  <2>2. SubSeq(h.all, 1, n) = h.all
    BY <1>1 DEF n
  <2>3. Most(0, h.top - 0) = h.top
    BY <1>1 DEF Most
  <2> QED BY <1>1, <1>11, <2>1, <2>2, <2>3, GridFacts DEF cut, n
<1> QED BY <1>1, <1>10, <1>11

(* The two parts of a concatenation. *)
LEMMA ConcatFacts ==
    ASSUME NEW S, NEW s \in Seq(S), NEW t \in Seq(S)
    PROVE  /\ s \o t \in Seq(S) /\ Len(s \o t) = Len(s) + Len(t)
           /\ \A i \in 1..Len(s) : (s \o t)[i] = s[i]
           /\ \A i \in 1..Len(t) : (s \o t)[Len(s) + i] = t[i]
  OBVIOUS

(* An array cut in two. *)
LEMMA Split ==
    ASSUME NEW S, NEW s \in Seq(S), NEW k \in 0..Len(s)
    PROVE  /\ SubSeq(s, 1, k) \in Seq(S) /\ SubSeq(s, k + 1, Len(s)) \in Seq(S)
           /\ Len(SubSeq(s, 1, k)) = k /\ Len(SubSeq(s, k + 1, Len(s))) = Len(s) - k
           /\ \A i \in 1..k : SubSeq(s, 1, k)[i] = s[i]
           /\ \A i \in 1..(Len(s) - k) : SubSeq(s, k + 1, Len(s))[i] = s[k + i]
           /\ s = SubSeq(s, 1, k) \o SubSeq(s, k + 1, Len(s))
<1> DEFINE n == Len(s)
           p == SubSeq(s, 1, k)
           q == SubSeq(s, k + 1, n)
<1>1. n \in Nat /\ \A i \in 1..n : s[i] \in S
  BY SeqFacts, Zenon
<1> HIDE DEF n
<1>2. k \in Nat /\ k <= n
  BY <1>1 DEF n
<1>3. p \in Seq(S) /\ Len(p) = k /\ \A i \in 1..k : p[i] = s[i]
  <2>1. \A i \in 1..k : s[i] \in S
    BY <1>1, <1>2
  <2>2. /\ p \in Seq(S) /\ Len(p) = (IF 1 <= k THEN k - 1 + 1 ELSE 0)
        /\ \A i \in 1..(k - 1 + 1) : p[i] = s[1 + i - 1]
    BY <1>2, <2>1, SubSeqProperties
  <2> HIDE DEF p
  <2> QED BY <1>2, <2>2
<1>4. q \in Seq(S) /\ Len(q) = n - k /\ \A i \in 1..(n - k) : q[i] = s[k + i]
  <2>1. \A i \in (k + 1)..n : s[i] \in S
    BY <1>1, <1>2
  <2>2. /\ q \in Seq(S) /\ Len(q) = (IF k + 1 <= n THEN n - (k + 1) + 1 ELSE 0)
        /\ \A i \in 1..(n - (k + 1) + 1) : q[i] = s[(k + 1) + i - 1]
    BY <1>1, <1>2, <2>1, SubSeqProperties
  <2> HIDE DEF q
  <2> QED BY <1>1, <1>2, <2>2
<1> HIDE DEF p, q
<1>5. s = p \o q
  <2>1. /\ p \o q \in Seq(S) /\ Len(p \o q) = k + (n - k)
        /\ \A i \in 1..k : (p \o q)[i] = p[i]
        /\ \A i \in 1..(n - k) : (p \o q)[k + i] = q[i]
    <3>1. /\ p \o q \in Seq(S) /\ Len(p \o q) = Len(p) + Len(q)
          /\ \A i \in 1..Len(p) : (p \o q)[i] = p[i]
          /\ \A i \in 1..Len(q) : (p \o q)[Len(p) + i] = q[i]
      <4>1. p \in Seq(S) /\ q \in Seq(S)
        BY <1>3, <1>4
      <4> QED BY <4>1, ConcatFacts, SMT
    <3> QED BY <3>1, <1>3, <1>4, Zenon
  <2> DEFINE u == p \o q
  <2> HIDE DEF u
  <2>2. Len(u) = n
    BY <1>1, <1>2, <2>1 DEF u
  <2>3. \A i \in 1..n : u[i] = s[i]
    <3>1. ASSUME NEW i \in 1..n, i <= k PROVE u[i] = s[i]
      <4>1. i \in 1..k
        BY <1>1, <1>2, <3>1
      <4> QED BY <4>1, <2>1, <1>3 DEF u
    <3>2. ASSUME NEW i \in 1..n, ~(i <= k) PROVE u[i] = s[i]
      <4>1. i - k \in 1..(n - k) /\ k + (i - k) = i
        BY <1>1, <1>2, <3>2
      <4> QED BY <4>1, <2>1, <1>4 DEF u
    <3> QED BY <3>1, <3>2
  <2>4. u \in Seq(S)
    BY <2>1 DEF u
  <2> QED BY <2>2, <2>3, <2>4, SeqEqual DEF n, u
<1> QED BY <1>3, <1>4, <1>5 DEF p, q, n

(* The same of names for the two parts. *)
Halves(s, k, p, q) == p = SubSeq(s, 1, k) /\ q = SubSeq(s, k + 1, Len(s))

LEMMA HalvesAre ==
    ASSUME NEW S, NEW s \in Seq(S), NEW k \in 0..Len(s), NEW p, NEW q, Halves(s, k, p, q)
    PROVE  /\ p \in Seq(S) /\ q \in Seq(S) /\ Len(p) = k /\ Len(q) = Len(s) - k
           /\ \A i \in 1..k : p[i] = s[i]
           /\ \A i \in 1..(Len(s) - k) : q[i] = s[k + i]
           /\ s = p \o q
<1>1. p = SubSeq(s, 1, k) /\ q = SubSeq(s, k + 1, Len(s))
  BY DEF Halves
<1>2. /\ SubSeq(s, 1, k) \in Seq(S) /\ SubSeq(s, k + 1, Len(s)) \in Seq(S)
      /\ Len(SubSeq(s, 1, k)) = k /\ Len(SubSeq(s, k + 1, Len(s))) = Len(s) - k
      /\ \A i \in 1..k : SubSeq(s, 1, k)[i] = s[i]
      /\ \A i \in 1..(Len(s) - k) : SubSeq(s, k + 1, Len(s))[i] = s[k + i]
      /\ s = SubSeq(s, 1, k) \o SubSeq(s, k + 1, Len(s))
  BY Split
<1> DEFINE f == SubSeq(s, 1, k)
           g == SubSeq(s, k + 1, Len(s))
<1>3. p = f /\ q = g
  BY <1>1
<1>4. /\ f \in Seq(S) /\ g \in Seq(S) /\ Len(f) = k /\ Len(g) = Len(s) - k
      /\ \A i \in 1..k : f[i] = s[i]
      /\ \A i \in 1..(Len(s) - k) : g[i] = s[k + i]
      /\ s = f \o g
  BY <1>2
<1> HIDE DEF f, g
<1> QED BY <1>3, <1>4

(* The trim at the tail: a suffix goes, never what is in view or the screen  *)
(* below it.                                                                *)
LEMMA BottomCutIs ==
    ASSUME NEW h, Sound(h)
    PROVE  /\ BottomCut(h) \in 0..Len(h.all)
           /\ BottomCut(h) <= Most(0, Len(h.all) - (h.top + Screen - h.base) - Screen)
<1> DEFINE n == Len(h.all)
<1>1. n \in Nat /\ h.top \in Nat /\ h.base \in Nat
  BY GridFacts
<1> DEFINE under == n - (h.top + Screen - h.base) - Screen
           safe == Most(0, under)
           over == n - MaxHeld
<1> HIDE DEF n
<1>2. under \in Int /\ over \in Int /\ over <= n /\ n \in Nat
  BY <1>1, Constants
<1>3. safe \in Nat
  <2> HIDE DEF under
  <2> QED BY <1>2, MostIs
<1>4. BottomCut(h) = Most(0, Least(over, safe))
  BY DEF BottomCut, n
<1> HIDE DEF safe, over
<1>5. Most(0, Least(over, safe)) \in 0..n /\ Most(0, Least(over, safe)) <= safe
  BY <1>2, <1>3 DEF Most, Least
<1> QED BY <1>4, <1>5 DEF safe, n

LEMMA TrimBottomIs ==
    ASSUME NEW h, Sound(h)
    PROVE  /\ Like(TrimBottom(h), h)
           /\ TrimBottom(h).all = SubSeq(h.all, 1, Len(h.all) - BottomCut(h))
           /\ TrimBottom(h).base = h.base /\ TrimBottom(h).top = h.top
<1> DEFINE n == Len(h.all)
           keep == n - BottomCut(h)
           gone == SubSeq(h.all, keep + 1, n)
           a == SubSeq(h.all, 1, keep)
           r == Kept(h.rows, (1..Rows) \ Range(gone))
<1>1. /\ n \in Nat /\ keep \in 0..n /\ h.all \in Seq(0..Rows) /\ h.rows \in Seq(1..Rows) /\ h \in Grids
  <2>1. n \in Nat /\ BottomCut(h) \in 0..n /\ h.all \in Seq(0..Rows) /\ h.rows \in Seq(1..Rows) /\ h \in Grids
    BY GridFacts, BottomCutIs
  <2> HIDE DEF n
  <2> QED BY <2>1
<1> HIDE DEF keep
<1>2. a \in Seq(0..Rows)
  BY <1>1, Split
<1>3. r \in Seq(1..Rows)
  <2>1. r \in Seq((1..Rows) \ Range(gone))
    BY <1>1, KeptType
  <2>2. Seq((1..Rows) \ Range(gone)) \subseteq Seq(1..Rows)
    BY SeqMonotonic
  <2> QED BY <2>1, <2>2
<1>4. TrimBottom(h) = [h EXCEPT !.all = a, !.rows = r]
  <2>1. TrimBottom(h) = [h EXCEPT !.all = SubSeq(@, 1, keep), !.rows = Kept(@, (1..Rows) \ Range(gone))]
    BY DEF TrimBottom, keep
  <2> QED BY <1>1, <2>1 DEF Grids
<1> HIDE DEF a, r
<1>5. [h EXCEPT !.all = a, !.rows = r] \in Grids
  BY <1>1, <1>2, <1>3 DEF Grids
<1> DEFINE k == [h EXCEPT !.all = a, !.rows = r]
<1>6. /\ k.all = a /\ k.base = h.base /\ k.top = h.top /\ k.tops = h.tops
      /\ k.needDown = h.needDown /\ k.needUp = h.needUp /\ k.filter = h.filter /\ k.buf = h.buf
      /\ k.calm = h.calm
  BY <1>1 DEF Grids
<1> HIDE DEF k
<1>7. Sound(k)
  BY <1>5, <1>6 DEF Sound, k
<1> QED BY <1>4, <1>6, <1>7 DEF Like, a, k, keep, n

(* Rows from below land behind the held ones, or in the tombstones they end  *)
(* in.                                                                      *)
Lands(b, a, new) ==
    \E k \in 0..Len(a) :
        /\ b = SubSeq(a, 1, k) \o new
        /\ \A i \in (k + 1)..Len(a) : a[i] = Tombstone
        /\ Len(a) <= k + Len(new)

LEMMA AppendRowsIs ==
    ASSUME NEW h, Sound(h), NEW new \in Seq(1..Rows)
    PROVE  /\ Like(AppendRows(h, new), h)
           /\ AppendRows(h, new).base = h.base /\ AppendRows(h, new).top <= h.top
           /\ Lands(AppendRows(h, new).all, h.all, new)
           /\ Lies(h) => AppendRows(h, new).top = h.top /\ Lies(AppendRows(h, new))
<1> DEFINE a == h.all
           n == Len(a)
           m == Len(new)
           q == Least(n, m)
           Trail(b) == /\ \A i \in (n - b + 1)..n : a[i] = Tombstone
                       /\ b = q \/ a[n - b] # Tombstone
           trail == CHOOSE b \in 0..q : Trail(b)
           x == SubSeq(a, 1, n - trail) \o new
           h1 == [h EXCEPT !.all = x]
<1>1. /\ a \in Seq(0..Rows) /\ n \in Nat /\ m \in Nat /\ h \in Grids /\ h.filter \in BOOLEAN
      /\ h.rows \in Seq(1..Rows) /\ h.top \in Nat
  BY GridFacts, SeqFacts
<1> HIDE DEF a, n, m
<1>2. q \in Nat /\ q <= n /\ q <= m
  BY <1>1 DEF Least
<1> HIDE DEF q
<1>3. \E b \in 0..q : Trail(b)
  <2> DEFINE B == {d \in Nat : d <= q /\ \A i \in (n - (q - d) + 1)..n : a[i] = Tombstone}
  <2>1. q \in B
    <3>1. \A i \in (n - (q - q) + 1)..n : FALSE
      BY <1>1, <1>2
    <3> QED BY <1>2, <3>1
  <2>2. PICK d \in B : d = 0 \/ (d - 1 \in Nat /\ d - 1 \notin B)
    BY <2>1, LeastOf
  <2> DEFINE b == q - d
  <2>3. b \in 0..q /\ \A i \in (n - b + 1)..n : a[i] = Tombstone
    BY <1>2, <2>2
  <2>4. b = q \/ a[n - b] # Tombstone
    <3>1. CASE d = 0
      BY <1>2, <3>1
    <3>2. CASE d # 0
      <4>1. d - 1 \in Nat /\ d - 1 <= q /\ d - 1 \notin B
        BY <1>2, <2>2, <3>2
      <4>2. PICK i \in (n - (q - (d - 1)) + 1)..n : a[i] # Tombstone
        BY <4>1
      <4>3. n - (q - (d - 1)) + 1 = n - b /\ (i = n - b \/ i \in (n - b + 1)..n)
        BY <1>1, <1>2, <2>2, <4>2
      <4> QED BY <2>3, <4>2, <4>3
    <3> QED BY <3>1, <3>2
  <2> QED BY <2>3, <2>4
<1>4. trail \in 0..q /\ \A i \in (n - trail + 1)..n : a[i] = Tombstone
  <2>1. trail \in 0..q /\ Trail(trail)
    <3> HIDE DEF Trail
    <3> QED BY <1>3
  <2> QED BY <2>1
<1> HIDE DEF trail
<1> DEFINE k == n - trail
<1>5. k \in 0..n /\ n <= k + m /\ \A i \in (k + 1)..n : a[i] = Tombstone
  BY <1>1, <1>2, <1>4
<1> HIDE DEF k
<1>6. x \in Seq(0..Rows)
  <2>1. SubSeq(a, 1, k) \in Seq(0..Rows)
    BY <1>1, <1>5, Split DEF n
  <2>2. new \in Seq(0..Rows)
    BY SeqMonotonic, Constants
  <2> QED BY <2>1, <2>2, ConcatProperties DEF k
<1>7. Lands(x, a, new)
  BY <1>5 DEF Lands, k, n, m
<1>12. Len(x) = k + m
  <2>1. SubSeq(a, 1, k) \in Seq(0..Rows) /\ Len(SubSeq(a, 1, k)) = k
    BY <1>1, <1>5, Split DEF n
  <2>2. new \in Seq(0..Rows)
    BY SeqMonotonic, Constants
  <2> QED BY <2>1, <2>2, ConcatProperties DEF k, m
<1> HIDE DEF x
<1>8. AppendRows(h, new) = IF new = <<>> THEN h
        ELSE IF h.filter THEN [h1 EXCEPT !.dirty = TRUE]
        ELSE Clamp([h1 EXCEPT !.rows = @ \o new])
  BY DEF AppendRows, trail, x, q, n, m, a
<1>9. CASE new = <<>>
  <2>1. AppendRows(h, new) = h
    BY <1>8, <1>9
  <2>2. n \in 0..n /\ SubSeq(a, 1, n) \o <<>> = a /\ Len(<<>>) = 0
        /\ \A i \in (n + 1)..n : a[i] = Tombstone
    BY <1>1 DEF n
  <2>3. n <= n + Len(new) /\ a = SubSeq(a, 1, n) \o new
    BY <1>1, <1>9, <2>2
  <2>4. \E j \in 0..n : a = SubSeq(a, 1, j) \o new /\ (\A i \in (j + 1)..n : a[i] = Tombstone) /\ n <= j + Len(new)
    BY <2>2, <2>3
  <2>5. Lands(a, a, new)
    BY <2>4 DEF Lands, n
  <2> QED BY <1>1, <2>1, <2>5, GridFacts DEF a
<1>10. CASE new # <<>> /\ h.filter
  <2> DEFINE e == [h EXCEPT !.all = x, !.dirty = TRUE]
  <2>1. AppendRows(h, new) = e
    BY <1>8, <1>10, <1>1 DEF Grids
  <2>2. e \in Grids /\ e.all = x /\ e.base = h.base /\ e.top = h.top /\ e.tops = h.tops
        /\ e.needDown = h.needDown /\ e.needUp = h.needUp /\ e.filter = h.filter /\ e.buf = h.buf
        /\ e.calm = h.calm
    BY <1>1, <1>6 DEF Grids
  <2> HIDE DEF e
  <2> QED BY <1>1, <1>7, <1>10, <2>1, <2>2 DEF Like, Sound, Lies, a
<1>11. CASE new # <<>> /\ ~h.filter
  <2> DEFINE r == h.rows \o new
             e == [h EXCEPT !.all = x, !.rows = r]
  <2>1. AppendRows(h, new) = Clamp(e)
    BY <1>8, <1>11, <1>1 DEF Grids
  <2>2. r \in Seq(1..Rows)
    BY <1>1, ConcatProperties
  <2> HIDE DEF r
  <2>3. e \in Grids /\ e.all = x /\ e.base = h.base /\ e.top = h.top /\ e.tops = h.tops
        /\ e.needDown = h.needDown /\ e.needUp = h.needUp /\ e.filter = h.filter /\ e.buf = h.buf
        /\ e.calm = h.calm
    BY <1>1, <1>6, <2>2 DEF Grids
  <2> HIDE DEF e
  <2>4. Sound(e) /\ Like(e, h)
    BY <2>3 DEF Sound, Like
  <2>5. /\ Like(Clamp(e), e) /\ Clamp(e).all = e.all /\ Clamp(e).base = e.base /\ Clamp(e).top <= e.top
        /\ Lies(Clamp(e)) /\ (Lies(e) => Clamp(e).top = e.top)
    BY <1>11, <2>3, <2>4, ClampLike
  <2>6. Like(Clamp(e), h)
    BY <2>4, <2>5, LikeTwice
  <2>7. Lies(h) => Lies(e)
    <3>1. Edge(e) \in Nat /\ Edge(h) \in Nat /\ Edge(h) <= Edge(e)
      <4>1. Len(x) \in Nat /\ n <= Len(x)
        BY <1>1, <1>5, <1>6, <1>12
      <4> QED BY <1>1, <2>3, <4>1, GridFacts DEF Edge, a, n
    <3>2. Most(0, Edge(h) - Screen) <= Most(0, Edge(e) - Screen) /\ Most(0, Edge(h) - Screen) \in Nat
      BY <3>1, Constants DEF Most
    <3>3. Most(0, Edge(e) - Screen) \in Nat
      BY <3>1, Constants DEF Most
    <3> QED BY <1>1, <2>3, <3>2, <3>3 DEF Lies
  <2> QED BY <1>7, <2>1, <2>3, <2>5, <2>6, <2>7 DEF a
<1> QED BY <1>1, <1>9, <1>10, <1>11

LEMMA MostGrows ==
    ASSUME NEW x \in Int, NEW y \in Int, x <= y
    PROVE  Most(0, x) <= Most(0, y)
  BY DEF Most

LEMMA LastKeyIs ==
    ASSUME NEW h, Sound(h)
    PROVE  LastKey(h) \in Nat
<1> DEFINE a == h.all
           R == Range(a)
<1>1. a \in Seq(0..Rows)
  BY GridFacts
<1>2. Len(a) \in Nat /\ \A i \in 1..Len(a) : a[i] \in 0..Rows
  BY <1>1, SeqFacts, Zenon
<1>3. DOMAIN a = 1..Len(a)
  BY <1>1
<1> HIDE DEF a
<1>4. CASE Real(a) = <<>>
  BY <1>4 DEF LastKey, a
<1>5. CASE Real(a) # <<>>
  <2>1. a # <<>>
    BY <1>5, KeptEmpty DEF Real
  <2>2. Len(a) # 0
    BY <1>1, <2>1, EmptySeq
  <2>3. 1 \in DOMAIN a
    BY <1>2, <1>3, <2>2
  <2>4. R # {} /\ R \subseteq 0..Rows
    BY <1>2, <1>3, <2>3 DEF Range
  <2> HIDE DEF R
  <2>5. Max(R) \in R
    BY <2>4, Constants, MaxOf
  <2> DEFINE x == Max(R)
  <2> HIDE DEF x
  <2>6. x \in 0..Rows
    BY <2>4, <2>5 DEF x
  <2>7. x \in Nat
    BY <2>6, Constants
  <2> QED BY <1>5, <2>7 DEF LastKey, a, R, x
<1> QED BY <1>4, <1>5

(* A demand takes a prefix of the page. *)
LEMMA AcceptedIs ==
    ASSUME NEW h, Sound(h), NEW page \in Seq(1..Rows)
    PROVE  /\ Accepted(h, page) \in Seq(1..Rows)
           /\ SubSeq(page, Len(Accepted(h, page)) + 1, Len(page)) \in Seq(1..Rows)
           /\ Len(Accepted(h, page)) <= Len(page)
<1> DEFINE n == Len(page)
           room == h.target - Edge(h)
           k == Most(0, Least(n, room))
<1>1. n \in Nat /\ room \in Int
  <2>1. n \in Nat
    BY SeqFacts
  <2>2. h.target \in Int /\ Edge(h) \in Nat
    BY GridFacts
  <2> HIDE DEF n
  <2> QED BY <2>1, <2>2
<1>2. Accepted(h, page) = SubSeq(page, 1, k)
  BY DEF Accepted
<1> HIDE DEF room
<1>3. k \in 0..n
  <2> HIDE DEF n
  <2> QED BY <1>1 DEF Most, Least
<1> HIDE DEF k
<1>4. SubSeq(page, 1, k) \in Seq(1..Rows) /\ Len(SubSeq(page, 1, k)) = k
      /\ SubSeq(page, k + 1, n) \in Seq(1..Rows)
  <2> DEFINE p == SubSeq(page, 1, k)
             q == SubSeq(page, k + 1, Len(page))
  <2>1. Halves(page, k, p, q)
    BY DEF Halves
  <2>2. k \in 0..Len(page)
    BY <1>3
  <2> HIDE DEF p, q
  <2>3. p \in Seq(1..Rows) /\ q \in Seq(1..Rows) /\ Len(p) = k
    BY <2>1, <2>2, HalvesAre
  <2> QED BY <2>3 DEF p, q
<1>5. k <= n
  <2> HIDE DEF n
  <2> QED BY <1>1, <1>3
<1> QED BY <1>2, <1>4, <1>5

(* A page of the stream: its rows land, and the head of the window goes. *)
(* The viewport moves by what goes at the head, and the canvas allows that.  *)
Rolls(g1, h) ==
    Lies(h) => Lies(g1) /\ g1.top = Most(0, h.top - Most(0, g1.base - h.base))

LEMMA RollsNot ==
    ASSUME NEW h, NEW g1, h.top \in Nat, h.base \in Nat, g1.base \in Nat, g1.base <= h.base,
           Lies(h) => Lies(g1) /\ g1.top = h.top
    PROVE  Rolls(g1, h)
<1> DEFINE u == h.top
           d == h.base
           e == g1.base
<1>1. u \in Nat /\ d \in Nat /\ e \in Nat /\ e <= d
  OBVIOUS
<1> HIDE DEF u, d, e
<1>2. Most(0, u - Most(0, e - d)) = u
  BY <1>1 DEF Most
<1> QED BY <1>2 DEF Rolls, u, d, e

LEMMA TrimTopRolls ==
    ASSUME NEW h, Sound(h)
    PROVE  Rolls(TrimTop(h), h)
<1> SUFFICES ASSUME Lies(h) PROVE Rolls(TrimTop(h), h)
  BY DEF Rolls
<1> DEFINE g1 == TrimTop(h)
           c == TopCut(h)
           n == Len(h.all)
           a == SubSeq(h.all, c + 1, n)
           u == h.top
           d == h.base
<1>1. /\ c \in 0..n /\ g1.all = a /\ g1.base = d + c /\ g1.top = Most(0, u - c)
      /\ g1.filter = h.filter
  BY TopCutIs, TrimTopIs DEF Lies, Like
<1>2. n \in Nat /\ u \in Nat /\ d \in Nat /\ h.all \in Seq(0..Rows) /\ Edge(h) = d + n
  BY GridFacts
<1>3. Len(a) = n - c
  BY <1>1, <1>2, Split
<1>4. u <= Most(0, Edge(h) - Screen) /\ ~h.filter
  BY DEF Lies
<1> HIDE DEF g1, c, n, a, u, d
<1>5. Edge(g1) = d + n
  BY <1>1, <1>2, <1>3 DEF Edge
<1>6. Most(0, u - c) <= Most(0, d + n - Screen)
  BY <1>1, <1>2, <1>4, Constants DEF Most
<1>7. Most(0, d + c - d) = c
  BY <1>1, <1>2 DEF Most
<1>8. ~g1.filter
  BY <1>1, <1>4
<1> DEFINE lo == Most(0, u - c)
           w == d + n - Screen
           y == g1.base
<1>9. g1.top = lo /\ lo <= Most(0, w)
  BY <1>1, <1>6
<1>10. Edge(g1) - Screen = w
  <2> DEFINE e == Edge(g1)
  <2>1. e = d + n
    BY <1>5
  <2> HIDE DEF e
  <2>2. e - Screen = d + n - Screen
    BY <1>2, <2>1, Constants
  <2> QED BY <2>2 DEF e, w
<1> HIDE DEF lo, w
<1>11. Lies(g1)
  BY <1>8, <1>9, <1>10 DEF Lies
<1>12. y - d = c /\ y = d + c
  BY <1>1, <1>2
<1>13. g1.top = Most(0, u - Most(0, y - d))
  <2>1. Most(0, c) = c
    BY <1>1, <1>2 DEF Most
  <2> HIDE DEF y
  <2> QED BY <1>9, <1>12, <2>1 DEF lo
<1> QED BY <1>11, <1>13 DEF Rolls, g1, u, d

LEMMA AppendStreamIs ==
    ASSUME NEW h, Sound(h), NEW page \in Seq(1..Rows)
    PROVE  /\ Like(AppendStreamRows(h, page), h)
           /\ \E A \in {AppendRows(h, Accepted(h, page)).all} : \E c \in 0..Len(A) :
                 /\ Lands(A, h.all, Accepted(h, page))
                 /\ AppendStreamRows(h, page).all = SubSeq(A, c + 1, Len(A))
                 /\ AppendStreamRows(h, page).base = h.base + c
                 /\ c <= Most(0, Len(A) - MaxHeld)
                 /\ ~h.filter => c <= Most(0, h.top - Screen - h.base)
           /\ Rolls(AppendStreamRows(h, page), h)
<1> DEFINE acc == Accepted(h, page)
           h1 == AppendRows(h, acc)
           A == h1.all
           g1 == AppendStreamRows(h, page)
           Cut(c) == /\ g1.all = SubSeq(A, c + 1, Len(A))
                     /\ g1.base = h.base + c
                     /\ c <= Most(0, Len(A) - MaxHeld)
                     /\ ~h.filter => c <= Most(0, h.top - Screen - h.base)
<1>1. acc \in Seq(1..Rows)
  BY AcceptedIs
<1> HIDE DEF acc
<1>2. /\ Like(h1, h) /\ h1.base = h.base /\ h1.top <= h.top /\ Lands(A, h.all, acc)
      /\ Lies(h) => h1.top = h.top /\ Lies(h1)
  BY <1>1, AppendRowsIs
<1>3. g1 = IF acc = <<>> THEN h ELSE TrimTop(PushTop(h1, LastKey(h1), Edge(h1)))
  BY DEF AppendStreamRows, acc
<1> HIDE DEF g1
<1>4. CASE acc = <<>>
  <2> HIDE DEF Cut
  <2>1. h1 = h
    BY <1>4 DEF AppendRows
  <2>2. A \in Seq(0..Rows) /\ Len(A) \in Nat /\ h.base \in Nat /\ h.top \in Nat
    BY <2>1, GridFacts
  <2> HIDE DEF A
  <2>3. SubSeq(A, 0 + 1, Len(A)) = A /\ h.base + 0 = h.base /\ 0 \in 0..Len(A)
    BY <2>2
  <2>4. 0 <= Most(0, Len(A) - MaxHeld) /\ 0 <= Most(0, h.top - Screen - h.base)
    <3>1. Len(A) - MaxHeld \in Int /\ h.top - Screen - h.base \in Int
      BY <2>2, Constants
    <3>2. Most(0, Len(A) - MaxHeld) \in Nat /\ Most(0, h.top - Screen - h.base) \in Nat
      BY <3>1, MostIs
    <3> QED BY <3>2
  <2>5. Cut(0)
    BY <1>3, <1>4, <2>1, <2>3, <2>4 DEF Cut, A
  <2>6. Like(g1, h)
    BY <1>3, <1>4, GridFacts
  <2>7. Rolls(g1, h)
    <3>1. g1 = h /\ h.top \in Nat /\ h.base \in Nat
      BY <1>3, <1>4, GridFacts
    <3> HIDE DEF g1
    <3> QED BY <3>1, RollsNot
  <2> QED BY <1>2, <2>3, <2>5, <2>6, <2>7 DEF Cut, A, acc, g1
<1>5. CASE acc # <<>>
  <2> DEFINE k == PushTop(h1, LastKey(h1), Edge(h1))
             c == TopCut(k)
  <2>1. Sound(h1) /\ h1.base \in Nat /\ h1.top \in Nat /\ Edge(h1) \in Nat /\ LastKey(h1) \in Nat
        /\ h.top \in Nat
    BY <1>2, GridFacts, LastKeyIs DEF Like
  <2>2. Seats(k, h1)
    <3>1. Len(A) \in Nat /\ Len(A) # 0
      <4>1. h.all \in Seq(0..Rows) /\ acc \in Seq(0..Rows) /\ Len(acc) \in Nat /\ Len(acc) # 0
        <5>1. h.all \in Seq(0..Rows)
          BY GridFacts
        <5>2. Len(acc) \in Nat /\ Len(acc) # 0
          BY <1>1, <1>5, SeqFacts, EmptySeq
        <5>3. acc \in Seq(0..Rows)
          BY <1>1, SeqMonotonic, Constants
        <5> QED BY <5>1, <5>2, <5>3
      <4>2. PICK j \in 0..Len(h.all) : A = SubSeq(h.all, 1, j) \o acc
        BY <1>2 DEF Lands
      <4> DEFINE q == SubSeq(h.all, 1, j)
      <4>3. q \in Seq(0..Rows) /\ Len(q) \in Nat
        <5> DEFINE s == h.all
        <5>1. s \in Seq(0..Rows) /\ j \in 0..Len(s)
          BY <4>1
        <5> DEFINE w == SubSeq(s, j + 1, Len(s))
        <5>2. Halves(s, j, q, w)
          BY DEF Halves
        <5> HIDE DEF s, q, w
        <5>3. q \in Seq(0..Rows)
          BY <5>1, <5>2, HalvesAre
        <5> QED BY <5>3, SeqFacts
      <4> HIDE DEF q
      <4>4. Len(q \o acc) = Len(q) + Len(acc)
        BY <4>1, <4>3, Joined
      <4> QED BY <4>1, <4>2, <4>3, <4>4 DEF q
    <3>2. Edge(h1) # 0
      BY <2>1, <3>1 DEF Edge, A
    <3> QED BY <2>1, <3>2, PushTopSeats
  <2>3. Sound(k)
    BY <2>1, <2>2, SeatsSound
  <2> HIDE DEF k
  <2>4. /\ k.all = A /\ k.base = h1.base /\ k.top = h1.top /\ Like(k, h1)
    <3> DEFINE t == k.tops
    <3>1. k = [h1 EXCEPT !.tops = t] /\ h1 \in Grids
      BY <2>1, <2>2, GridFacts DEF Seats
    <3> HIDE DEF t
    <3> QED BY <2>3, <3>1 DEF Like, Grids
  <2>5. g1 = TrimTop(k)
    BY <1>3, <1>5 DEF k
  <2>6. /\ c \in 0..Len(A) /\ c <= Most(0, Len(A) - MaxHeld)
        /\ ~k.filter => c <= Most(0, k.top - Screen - k.base)
    BY <2>3, <2>4, TopCutIs
  <2>7. Like(g1, k) /\ g1.all = SubSeq(A, c + 1, Len(A)) /\ g1.base = h.base + c
    BY <1>2, <2>3, <2>4, <2>5, TrimTopIs
  <2> HIDE DEF c
  <2>8. Like(g1, h) /\ k.filter = h.filter
    BY <1>2, <2>4, <2>7, LikeTwice DEF Like
  <2>9. ~h.filter => c <= Most(0, h.top - Screen - h.base)
    <3>1. ~h.filter => c <= Most(0, h1.top - Screen - h.base)
      BY <1>2, <2>4, <2>6, <2>8
    <3>2. h1.top - Screen - h.base \in Int /\ h.top - Screen - h.base \in Int
          /\ h1.top - Screen - h.base <= h.top - Screen - h.base
      <4> DEFINE u == h1.top
                 d == h.top
                 b == h.base
      <4>1. u \in Nat /\ d \in Nat /\ b \in Nat /\ u <= d
        BY <1>2, <2>1
      <4> HIDE DEF u, d, b
      <4>2. u - Screen - b \in Int /\ d - Screen - b \in Int /\ u - Screen - b <= d - Screen - b
        BY <4>1, Constants
      <4> QED BY <4>2 DEF u, d, b
    <3>3. Most(0, h1.top - Screen - h.base) <= Most(0, h.top - Screen - h.base)
      BY <3>2, MostGrows
    <3>4. Most(0, h1.top - Screen - h.base) \in Nat /\ Most(0, h.top - Screen - h.base) \in Nat
      BY <3>2, MostIs
    <3>5. c \in Int
      <4>1. Len(A) \in Nat
        BY <1>2, GridFacts DEF Like
      <4> HIDE DEF A
      <4> QED BY <2>6, <4>1
    <3> DEFINE u == Most(0, h1.top - Screen - h.base)
               d == Most(0, h.top - Screen - h.base)
    <3> HIDE DEF u, d
    <3>6. u \in Nat /\ d \in Nat /\ u <= d /\ (~h.filter => c <= u)
      BY <3>1, <3>3, <3>4 DEF u, d
    <3>7. ~h.filter => c <= d
      BY <3>5, <3>6
    <3> QED BY <3>7 DEF d
  <2>10. Cut(c)
    BY <2>6, <2>7, <2>9
  <2>11. Rolls(g1, h)
    <3>1. Rolls(g1, k)
      BY <2>3, <2>5, TrimTopRolls
    <3>2. Lies(h) => Lies(k) /\ k.top = h.top
      BY <1>2, <2>4 DEF Lies, Like, Edge
    <3>3. k.base = h.base
      BY <1>2, <2>4
    <3> QED BY <3>1, <3>2, <3>3 DEF Rolls
  <2> HIDE DEF Cut
  <2> QED BY <1>2, <2>6, <2>8, <2>10, <2>11 DEF Cut, acc, g1
<1> QED BY <1>4, <1>5

-----------------------------------------------------------------------------
(* What a refill has collected starts below the end of the window, and is no *)
(* more than one step.                                                      *)
Buffers(h) == Len(h.buf) <= WinStep /\ (h.buf # <<>> => h.start < Edge(h))

(* What a refill leaves alone while it collects. *)
Behind(g1, h) ==
    /\ Sound(g1)
    /\ g1.all = h.all /\ g1.base = h.base /\ g1.top = h.top
    /\ g1.needDown = h.needDown /\ g1.needUp = h.needUp
    /\ g1.filter = h.filter /\ g1.calm = h.calm

LEMMA SeatsLike ==
    ASSUME NEW h, Sound(h), NEW g1, Seats(g1, h)
    PROVE  Behind(g1, h) /\ g1.buf = h.buf /\ g1.start = h.start
<1>1. Sound(g1)
  BY SeatsSound
<1> DEFINE t == g1.tops
<1>2. g1 = [h EXCEPT !.tops = t] /\ h \in Grids
  BY GridFacts DEF Seats
<1> HIDE DEF t
<1> QED BY <1>1, <1>2 DEF Behind, Grids

LEMMA AppendBackIs ==
    ASSUME NEW h, Sound(h), Buffers(h), NEW page \in Seq(1..Rows), NEW cp \in Checkpoints,
           NEW done \in BOOLEAN
    PROVE  /\ Behind(AppendBackRows(h, page, cp, done), h)
           /\ Buffers(AppendBackRows(h, page, cp, done))
<1> DEFINE n == Len(page)
           rel(k)   == cp.index + k - 1 - h.base
           Seated(k) == HeldSlot(h, rel(k))
           Pass     == {p \in 0..n : \A k \in 1..p : Seated(k)}
           pass     == Max(Pass)
           tired    == pass > 0 /\ h.scanned + pass >= FirstStep
           room     == WinStep - Len(h.buf)
           Run      == {r \in 0..Least(room, n - pass) :
                                \A k \in (pass + 1)..(pass + r) :
                                    ~Seated(k) /\ rel(k) < Len(h.all)}
           run      == IF tired THEN 0 ELSE Max(Run)
           met      == run < room /\ pass + run < n
           Head1    == h.head \/ done
           Hit1     == h.hit \/ tired \/ met
           Scan1    == h.scanned + pass
           Start1   == IF h.buf = <<>> /\ run > 0 THEN cp.index + pass ELSE h.start
           Buf1     == h.buf \o SubSeq(page, pass + 1, pass + run)
           h1       == [h EXCEPT !.head = Head1, !.scanned = Scan1, !.hit = Hit1,
                                 !.start = Start1, !.buf = Buf1]
<1>1. /\ h \in Grids /\ h.base \in Nat /\ h.scanned \in Nat /\ h.start \in Nat
      /\ h.buf \in Seq(1..Rows) /\ Len(h.buf) \in Nat /\ Len(h.all) \in Nat
      /\ Edge(h) = h.base + Len(h.all) /\ cp.index \in Nat
  BY GridFacts DEF Checkpoints
<1>2. n \in Nat
  BY SeqFacts
<1>3. room \in Nat /\ room = WinStep - Len(h.buf)
  <2> DEFINE l == Len(h.buf)
  <2>1. l \in Nat /\ l <= WinStep
    BY <1>1 DEF Buffers
  <2> HIDE DEF l
  <2>2. WinStep - l \in Nat
    BY <2>1, Constants
  <2> QED BY <2>2 DEF l
<1> HIDE DEF n, room, Seated
<1>4. pass \in 0..n
  <2>1. 0 \in Pass
    BY <1>2
  <2>2. Pass \subseteq 0..n /\ Pass # {}
    BY <2>1
  <2> HIDE DEF Pass
  <2>3. Max(Pass) \in Pass
    BY <1>2, <2>2, MaxOf
  <2> QED BY <2>2, <2>3
<1> HIDE DEF pass
<1>5. /\ run \in Nat /\ run <= room /\ pass + run <= n
      /\ run > 0 => cp.index + pass - h.base < Len(h.all)
  <2>1. CASE tired
    BY <1>2, <1>3, <1>4, <2>1
  <2>2. CASE ~tired
    <3> DEFINE q == Least(room, n - pass)
    <3>1. q \in Nat /\ q <= room /\ pass + q <= n
      BY <1>2, <1>3, <1>4 DEF Least
    <3> HIDE DEF q
    <3>2. 0 \in Run
      <4>1. \A k \in (pass + 1)..(pass + 0) : FALSE
        BY <1>4
      <4> QED BY <3>1, <4>1 DEF q
    <3>3. Run \subseteq 0..q
      BY DEF q
    <3>4. Max(Run) \in Run
      <4> HIDE DEF Run
      <4> QED BY <3>1, <3>2, <3>3, MaxOf
    <3> DEFINE r == Max(Run)
    <3> HIDE DEF r
    <3>5. r \in 0..q /\ \A k \in (pass + 1)..(pass + r) : rel(k) < Len(h.all)
      BY <3>3, <3>4 DEF r
    <3>6. r > 0 => pass + 1 \in (pass + 1)..(pass + r)
      BY <1>4, <3>1, <3>5
    <3>7. r > 0 => rel(pass + 1) < Len(h.all)
      <4> HIDE DEF rel
      <4> QED BY <3>5, <3>6
    <3>8. rel(pass + 1) = cp.index + pass - h.base
      BY <1>1, <1>2, <1>4
    <3>9. run = r
      BY <2>2 DEF r
    <3> HIDE DEF run, rel
    <3>10. r \in Nat /\ r <= room /\ pass + r <= n
      BY <1>2, <1>3, <1>4, <3>1, <3>5
    <3> QED BY <3>7, <3>8, <3>9, <3>10
  <2> QED BY <2>1, <2>2
<1> HIDE DEF run
<1>6. Head1 \in BOOLEAN /\ Hit1 \in BOOLEAN
  OBVIOUS
<1>7. Scan1 \in Nat /\ Start1 \in Nat
  <2>1. pass \in Nat
    BY <1>2, <1>4
  <2>2. h.scanned + pass \in Nat /\ cp.index + pass \in Nat
    <3> DEFINE c == h.scanned
               i == cp.index
    <3> HIDE DEF c, i
    <3>1. c \in Nat /\ i \in Nat
      BY <1>1 DEF c, i
    <3>2. c + pass \in Nat /\ i + pass \in Nat
      BY <2>1, <3>1
    <3> QED BY <3>2 DEF c, i
  <2> QED BY <1>1, <2>2
<1>8. Buf1 \in Seq(1..Rows) /\ Len(Buf1) = Len(h.buf) + run
  <2> DEFINE s == SubSeq(page, pass + 1, pass + run)
  <2>1. s \in Seq(1..Rows) /\ Len(s) = run
    <3>1. pass + 1 \in Nat /\ pass + 1 >= 1 /\ pass + run \in Nat /\ pass + run <= Len(page)
      BY <1>2, <1>4, <1>5 DEF n
    <3> DEFINE u == pass + 1
               d == pass + run
    <3> HIDE DEF u, d
    <3>2. u \in Nat /\ u >= 1 /\ d \in Nat /\ d <= Len(page)
      BY <3>1 DEF u, d
    <3>3. SubSeq(page, u, d) \in Seq(1..Rows) /\ Len(SubSeq(page, u, d)) = IF u <= d THEN d - u + 1 ELSE 0
      <4>1. \A i \in 1..Len(page) : page[i] \in 1..Rows
        BY SeqFacts
      <4>2. \A i \in u..d : page[i] \in 1..Rows
        <5>1. Len(page) \in Nat
          BY SeqFacts
        <5> QED BY <3>2, <4>1, <5>1
      <4>3. u \in Int /\ d \in Int
        BY <3>2
      <4> QED BY <4>2, <4>3, SubSeqProperties
    <3>4. s = SubSeq(page, u, d)
      BY DEF u, d
    <3> HIDE DEF s
    <3>5. u = pass + 1 /\ d = pass + run /\ pass \in Nat
      BY <1>2, <1>4 DEF u, d
    <3>6. (IF u <= d THEN d - u + 1 ELSE 0) = run
      BY <1>5, <3>5
    <3> QED BY <3>3, <3>4, <3>6
  <2> HIDE DEF s
  <2>2. h.buf \o s \in Seq(1..Rows) /\ Len(h.buf \o s) = Len(h.buf) + Len(s)
    BY <1>1, <2>1, ConcatProperties
  <2> QED BY <2>1, <2>2 DEF s
<1>9. Buf1 # <<>> => Start1 < Edge(h)
  <2>1. CASE h.buf = <<>> /\ run > 0
    <3>1. Start1 = cp.index + pass
      BY <2>1
    <3> DEFINE e == Edge(h)
               l == Len(h.all)
               b == h.base
               i == cp.index
    <3>2. e = b + l /\ b \in Nat /\ l \in Nat /\ i \in Nat /\ i + pass - b < l
      BY <1>1, <1>5, <2>1
    <3> HIDE DEF e, l, b, i
    <3>3. i + pass < e
      BY <1>2, <1>4, <3>2
    <3> QED BY <3>1, <3>3 DEF e, i
  <2>2. CASE h.buf # <<>>
    BY <2>2 DEF Buffers
  <2>3. CASE h.buf = <<>> /\ ~(run > 0)
    <3>1. run = 0 /\ Len(h.buf) = 0
      BY <1>5, <2>3
    <3>2. Len(Buf1) = 0
      BY <1>8, <3>1
    <3>3. Buf1 = <<>>
      BY <1>8, <3>2, EmptySeq
    <3> QED BY <3>3
  <2> QED BY <2>1, <2>2, <2>3
<1>10. Len(Buf1) <= WinStep
  <2> DEFINE l == Len(h.buf)
  <2>1. l \in Nat /\ run <= WinStep - l /\ Len(Buf1) = l + run
    BY <1>1, <1>3, <1>5, <1>8
  <2> HIDE DEF l
  <2>2. l + run <= WinStep
    BY <1>5, <2>1, Constants
  <2> QED BY <2>1, <2>2
<1>11. AppendBackRows(h, page, cp, done)
        = IF page = <<>> THEN h1 ELSE PushTop(h1, Last(page), cp.index + Len(page))
  <2>1. AppendBackRows(h, page, cp, done)
        = LET k1 == [h EXCEPT !.head = @ \/ done, !.scanned = @ + pass, !.hit = @ \/ tired \/ met,
                              !.start = IF h.buf = <<>> /\ run > 0 THEN cp.index + pass ELSE @,
                              !.buf = @ \o SubSeq(page, pass + 1, pass + run)]
          IN  IF page = <<>> THEN k1 ELSE PushTop(k1, Last(page), cp.index + Len(page))
    BY DEF AppendBackRows, run, pass, Seated, room, n
  <2> QED BY <1>1, <2>1 DEF Grids
<1> HIDE DEF Head1, Hit1, Scan1, Start1, Buf1
<1>12. /\ h1 \in Grids /\ h1.all = h.all /\ h1.base = h.base /\ h1.top = h.top /\ h1.tops = h.tops
       /\ h1.needDown = h.needDown /\ h1.needUp = h.needUp
       /\ h1.filter = h.filter /\ h1.calm = h.calm
       /\ h1.buf = Buf1 /\ h1.start = Start1
  <2>1. /\ h \in Grids /\ Head1 \in BOOLEAN /\ Scan1 \in Nat /\ Hit1 \in BOOLEAN
        /\ Start1 \in Nat /\ Buf1 \in Seq(1..Rows)
    BY <1>1, <1>6, <1>7, <1>8
  <2>2. h1 = [h EXCEPT !.head = Head1, !.scanned = Scan1, !.hit = Hit1,
                       !.start = Start1, !.buf = Buf1]
    OBVIOUS
  <2> HIDE DEF h1
  <2>3. h1 \in Grids
    <3> DEFINE g == [h EXCEPT !.head = Head1, !.scanned = Scan1, !.hit = Hit1]
    <3>1. g \in Grids
      BY <2>1 DEF Grids
    <3>2. h1 = [g EXCEPT !.start = Start1, !.buf = Buf1]
      BY <2>2
    <3> HIDE DEF g
    <3> QED BY <2>1, <3>1, <3>2 DEF Grids
  <2>4. /\ h1.all = h.all /\ h1.base = h.base /\ h1.top = h.top /\ h1.tops = h.tops
        /\ h1.needDown = h.needDown /\ h1.needUp = h.needUp
        /\ h1.filter = h.filter /\ h1.calm = h.calm
    BY <2>1, <2>2 DEF Grids
  <2>5. h1.buf = Buf1 /\ h1.start = Start1
    BY <2>1, <2>2 DEF Grids
  <2> QED BY <2>3, <2>4, <2>5
<1> HIDE DEF h1
<1>13. Behind(h1, h) /\ Buffers(h1)
  BY <1>9, <1>10, <1>12 DEF Behind, Buffers, Sound, Edge
<1>14. CASE page = <<>>
  BY <1>11, <1>13, <1>14
<1>15. CASE page # <<>>
  <2> DEFINE e == PushTop(h1, Last(page), cp.index + Len(page))
  <2>1. Last(page) \in Nat /\ cp.index + Len(page) \in Nat \ {0}
    <3>1. Len(page) \in Nat /\ Len(page) # 0 /\ \A i \in 1..Len(page) : page[i] \in 1..Rows
      BY <1>15, SeqFacts, EmptySeq
    <3> DEFINE l == Len(page)
    <3> HIDE DEF l
    <3>2. l \in Nat /\ l # 0 /\ \A i \in 1..l : page[i] \in 1..Rows
      BY <3>1 DEF l
    <3>3. page[l] \in Nat /\ cp.index + l \in Nat \ {0}
      <4>1. l \in 1..l
        BY <3>2
      <4>2. page[l] \in 1..Rows
        BY <3>2, <4>1
      <4> DEFINE x == page[l]
      <4> HIDE DEF x
      <4>3. x \in 1..Rows
        BY <4>2 DEF x
      <4>4. x \in Nat
        BY <4>3, Constants
      <4> DEFINE i == cp.index
      <4> HIDE DEF i
      <4>5. i \in Nat
        BY <1>1 DEF i
      <4>6. i + l \in Nat \ {0}
        BY <3>2, <4>5
      <4> QED BY <4>4, <4>6 DEF x, i
    <3> QED BY <3>3 DEF Last, l
  <2>2. Seats(e, h1)
    BY <1>13, <2>1, PushTopSeats DEF Behind
  <2> HIDE DEF e
  <2>3. Behind(e, h1) /\ e.buf = h1.buf /\ e.start = h1.start
    BY <1>13, <2>2, SeatsLike DEF Behind
  <2>4. Behind(e, h) /\ Buffers(e)
    BY <1>13, <2>3 DEF Behind, Buffers, Edge
  <2> QED BY <1>11, <1>15, <2>4 DEF e
<1> QED BY <1>14, <1>15

(* What is left of an array past its first k, and three arrays in a row. *)
LEMMA Tails ==
    ASSUME NEW S, NEW s \in Seq(S), NEW k \in Nat
    PROVE  /\ SubSeq(s, k + 1, Len(s)) \in Seq(S)
           /\ Len(SubSeq(s, k + 1, Len(s))) = Most(0, Len(s) - k)
           /\ \A i \in 1..(Len(s) - k) : SubSeq(s, k + 1, Len(s))[i] = s[k + i]
<1> DEFINE n == Len(s)
           q == SubSeq(s, k + 1, n)
<1>1. n \in Nat /\ \A i \in 1..n : s[i] \in S
  BY SeqFacts, Zenon
<1> HIDE DEF n
<1>2. \A i \in (k + 1)..n : s[i] \in S
  BY <1>1
<1>3. /\ q \in Seq(S) /\ Len(q) = (IF k + 1 <= n THEN n - (k + 1) + 1 ELSE 0)
      /\ \A i \in 1..(n - (k + 1) + 1) : q[i] = s[(k + 1) + i - 1]
  BY <1>1, <1>2, SubSeqProperties
<1> HIDE DEF q
<1>4. Len(q) = Most(0, n - k) /\ \A i \in 1..(n - k) : q[i] = s[k + i]
  BY <1>1, <1>3 DEF Most
<1> QED BY <1>3, <1>4 DEF q, n

InARow(x, u, d, w) == x = u \o d \o w

LEMMA Triples ==
    ASSUME NEW S, NEW u \in Seq(S), NEW d \in Seq(S), NEW w \in Seq(S), NEW x, InARow(x, u, d, w)
    PROVE  /\ x \in Seq(S) /\ Len(x) = Len(u) + Len(d) + Len(w)
           /\ \A i \in 1..Len(u) : x[i] = u[i]
           /\ \A i \in 1..Len(d) : x[Len(u) + i] = d[i]
           /\ \A i \in 1..Len(w) : x[Len(u) + Len(d) + i] = w[i]
<1> DEFINE a == Len(u)
           b == Len(d)
           c == Len(w)
<1>0. a \in Nat /\ b \in Nat /\ c \in Nat
  BY SeqFacts
<1> HIDE DEF a, b, c
<1> DEFINE y == u \o d
<1>1. /\ y \in Seq(S) /\ Len(y) = a + b
      /\ \A i \in 1..a : y[i] = u[i]
      /\ \A i \in 1..b : y[a + i] = d[i]
  BY ConcatFacts, SMT DEF a, b
<1> HIDE DEF y
<1>2. /\ x \in Seq(S) /\ Len(x) = a + b + c
      /\ \A i \in 1..(a + b) : x[i] = y[i]
      /\ \A i \in 1..c : x[a + b + i] = w[i]
  <2>1. /\ y \o w \in Seq(S) /\ Len(y \o w) = Len(y) + Len(w)
        /\ \A i \in 1..Len(y) : (y \o w)[i] = y[i]
        /\ \A i \in 1..Len(w) : (y \o w)[Len(y) + i] = w[i]
    <3>1. y \in Seq(S)
      BY <1>1
    <3> QED BY <3>1, ConcatFacts, SMT
  <2>2. x = y \o w
    BY DEF y, InARow
  <2>3. /\ x \in Seq(S) /\ Len(x) = Len(y) + Len(w)
        /\ \A i \in 1..Len(y) : x[i] = y[i]
        /\ \A i \in 1..Len(w) : x[Len(y) + i] = w[i]
    BY <2>1, <2>2, Zenon
  <2> QED BY <1>1, <2>3 DEF c
<1>3. \A i \in 1..a : i \in 1..(a + b)
  BY <1>0
<1>4. \A i \in 1..b : a + i \in 1..(a + b)
  BY <1>0
<1>5. /\ \A i \in 1..a : x[i] = u[i]
      /\ \A i \in 1..b : x[a + i] = d[i]
  BY <1>1, <1>2, <1>3, <1>4
<1> QED BY <1>2, <1>5 DEF a, b, c

LEMMA BlanksAre ==
    ASSUME NEW m \in Nat
    PROVE  Blanks(m) \in Seq(0..Rows) /\ Len(Blanks(m)) = m
<1>1. \A i \in 1..m : Tombstone \in 0..Rows
  BY Constants DEF Tombstone
<1>2. [i \in 1..m |-> Tombstone] \in Seq(0..Rows) /\ Len([i \in 1..m |-> Tombstone]) = m
  BY <1>1
<1> QED BY <1>2 DEF Blanks

LEMMA OneGap ==
    ASSUME NEW p \in Int, NEW q \in Int
    PROVE  \/ Most(0, p - q) = 0 /\ Most(0, q - p) = q - p /\ q >= p
           \/ Most(0, p - q) = p - q /\ Most(0, q - p) = 0 /\ q < p
  BY DEF Most

(* A refill lands: no held row is lost by it.  The positions first. *)
Above(x, a, b, base, start, n) ==
    x = b \o Blanks(Most(0, base - (start + n))) \o SubSeq(a, Most(0, start + n - base) + 1, Len(a))

LEMMA SeatsAbove ==
    ASSUME NEW a \in Seq(0..Rows), NEW b \in Seq(1..Rows),
           NEW base \in Nat, NEW start \in Nat, start <= base,
           NEW n \in Nat, n = Len(b), NEW x, Above(x, a, b, base, start, n)
    PROVE  /\ x \in Seq(0..Rows) /\ base + Len(a) <= start + Len(x)
           /\ \A i \in (base + 1)..(base + Len(a)) : a[i - base] # Tombstone
                => i \in (start + 1)..(start + Len(x)) /\ x[i - start] # Tombstone
<1> DEFINE l == Len(a)
           m == Most(0, base - (start + n))
           over == Most(0, start + n - base)
           t == SubSeq(a, over + 1, l)
           c == Most(0, l - over)
<1>1. l \in Nat
  BY SeqFacts
<1>2. m \in Nat /\ over \in Nat
  BY MostIs
<1>3. t \in Seq(0..Rows) /\ Len(t) = c /\ \A i \in 1..(l - over) : t[i] = a[over + i]
  <2> HIDE DEF over
  <2> QED BY <1>2, Tails
<1> HIDE DEF l
<1>4. c \in Nat
  <2>1. l - over \in Int
    <3> HIDE DEF over
    <3> QED BY <1>1, <1>2
  <2> QED BY <2>1, MostIs
<1>5. b \in Seq(0..Rows) /\ \A i \in 1..n : b[i] # Tombstone
  <2>1. b \in Seq(0..Rows)
    BY SeqMonotonic, Constants
  <2>2. \A i \in 1..n : b[i] \in 1..Rows
    BY SeqFacts
  <2> QED BY <2>1, <2>2 DEF Tombstone
<1>6. Blanks(m) \in Seq(0..Rows) /\ Len(Blanks(m)) = m
  BY <1>2, BlanksAre
<1> HIDE DEF t
<1>7. x = b \o Blanks(m) \o t
  BY DEF t, l, Above
<1>8. /\ x \in Seq(0..Rows) /\ Len(x) = n + m + c
      /\ \A i \in 1..n : x[i] = b[i]
      /\ \A i \in 1..c : x[n + m + i] = t[i]
  <2> HIDE DEF m, c
  <2> DEFINE k == Blanks(m)
  <2> HIDE DEF k
  <2>1. k \in Seq(0..Rows) /\ m = Len(k) /\ x = b \o k \o t
    BY <1>6, <1>7 DEF k
  <2>2. b \in Seq(0..Rows) /\ t \in Seq(0..Rows) /\ Len(t) = c /\ Len(b) = n /\ Len(k) = m
    BY <1>2, <1>3, <1>4, <1>5, <2>1
  <2>3. /\ x \in Seq(0..Rows) /\ Len(x) = Len(b) + Len(k) + Len(t)
        /\ \A i \in 1..Len(b) : x[i] = b[i]
        /\ \A i \in 1..Len(t) : x[Len(b) + Len(k) + i] = t[i]
    <3>1. b \in Seq(0..Rows) /\ t \in Seq(0..Rows) /\ k \in Seq(0..Rows) /\ InARow(x, b, k, t)
      BY <2>1, <2>2 DEF InARow
    <3> QED BY <3>1, Triples, SMT
  <2> QED BY <2>2, <2>3, Zenon
<1> DEFINE z == Len(x)
<1>z. z = n + m + c
  BY <1>8
<1> HIDE DEF z
<1>9. ASSUME NEW i \in (base + 1)..(base + l), a[i - base] # Tombstone
      PROVE  i \in (start + 1)..(start + z) /\ x[i - start] # Tombstone
  <2>1. CASE i <= start + n
    <3>1. i - start \in 1..n
      BY <1>1, <2>1
    <3>2. x[i - start] # Tombstone
      BY <1>5, <1>8, <3>1
    <3>3. i \in (start + 1)..(start + z)
      <4> HIDE DEF m, c
      <4> QED BY <1>1, <1>2, <1>4, <1>z, <3>1
    <3> QED BY <3>2, <3>3
  <2>2. CASE ~(i <= start + n)
    <3> DEFINE j == i - start - n - m
    <3>1. \/ m = 0 /\ over = start + n - base /\ start + n >= base
          \/ m = base - (start + n) /\ over = 0 /\ start + n < base
      <4>1. base \in Int /\ start + n \in Int
        OBVIOUS
      <4> DEFINE q == start + n
      <4> HIDE DEF q
      <4>2. q \in Int
        BY <4>1 DEF q
      <4>3. \/ Most(0, base - q) = 0 /\ Most(0, q - base) = q - base /\ q >= base
            \/ Most(0, base - q) = base - q /\ Most(0, q - base) = 0 /\ q < base
        BY <4>1, <4>2, OneGap, Zenon
      <4>4. start + n - base = q - base
        BY DEF q
      <4> QED BY <4>3, <4>4 DEF q
    <3>2. l - over >= 0 => c = l - over
      <4> HIDE DEF over
      <4> QED BY <1>1, <1>2, MostIs
    <3> HIDE DEF m, c, over
    <3>3. j \in 1..(l - over) /\ over + j = i - base /\ i - start = n + m + j /\ l - over >= 0
      <4>1. i \in Int /\ i >= base + 1 /\ i <= base + l /\ i > start + n
        BY <1>1, <2>2
      <4>2. CASE m = 0 /\ over = start + n - base /\ start + n >= base
        BY <1>1, <4>1, <4>2
      <4>3. CASE m = base - (start + n) /\ over = 0 /\ start + n < base
        BY <1>1, <4>1, <4>3
      <4> QED BY <3>1, <4>2, <4>3
    <3>4. j \in 1..c
      BY <3>2, <3>3
    <3> HIDE DEF j
    <3>5. x[n + m + j] = t[j] /\ t[j] = a[over + j]
      BY <1>3, <1>8, <3>3, <3>4
    <3>6. i \in (start + 1)..(start + z)
      BY <1>1, <1>2, <1>4, <1>z, <3>3, <3>4
    <3> QED BY <1>9, <3>3, <3>5, <3>6
  <2> QED BY <2>1, <2>2
<1>10. base + l <= start + z
  <2>1. base \in Int /\ start + n \in Int
    OBVIOUS
  <2> DEFINE q == start + n
  <2> HIDE DEF q
  <2>2. q \in Int
    BY <2>1 DEF q
  <2>3. \/ Most(0, base - q) = 0 /\ Most(0, q - base) = q - base /\ q >= base
        \/ Most(0, base - q) = base - q /\ Most(0, q - base) = 0 /\ q < base
    BY <2>1, <2>2, OneGap, Zenon
  <2>4. m = Most(0, base - q) /\ over = Most(0, q - base)
    BY DEF q
  <2>5. c >= l - over
    <3>1. l - over \in Int
      <4> HIDE DEF over
      <4> QED BY <1>1, <1>2
    <3> QED BY <3>1, MostIs
  <2>6. start + z = q + m + c
    <3> HIDE DEF m, c
    <3> QED BY <1>2, <1>4, <1>z DEF q
  <2> HIDE DEF m, c, over
  <2> HIDE DEF q
  <2>7. \/ m = 0 /\ over = q - base
        \/ m = base - q /\ over = 0
    BY <2>3, <2>4
  <2>8. base + l <= q + m + c
    <3>0. m \in Int /\ c \in Int /\ over \in Int /\ q \in Int /\ l \in Int
      BY <1>1, <1>2, <1>4, <2>2
    <3>1. CASE m = 0 /\ over = q - base
      BY <3>0, <3>1, <2>5
    <3>2. CASE m = base - q /\ over = 0
      BY <3>0, <3>2, <2>5
    <3> QED BY <2>7, <3>1, <3>2
  <2> QED BY <2>6, <2>8
<1> QED BY <1>8, <1>9, <1>10 DEF l, z

Within(x, a, b, r, n) == x = SubSeq(a, 1, r) \o b \o SubSeq(a, r + n + 1, Len(a))

LEMMA SeatsWithin ==
    ASSUME NEW a \in Seq(0..Rows), NEW b \in Seq(1..Rows),
           NEW r \in Nat, r <= Len(a), NEW n \in Nat, n = Len(b), NEW x, Within(x, a, b, r, n)
    PROVE  /\ x \in Seq(0..Rows) /\ Len(a) <= Len(x)
           /\ \A j \in 1..Len(a) : a[j] # Tombstone
                => j \in 1..Len(x) /\ x[j] # Tombstone
<1> DEFINE l == Len(a)
           s == SubSeq(a, 1, r)
           o == r + n
           t == SubSeq(a, o + 1, l)
           c == Most(0, l - o)
<1>1. l \in Nat /\ r \in 0..l /\ o \in Nat
  BY SeqFacts
<1>2. s \in Seq(0..Rows) /\ Len(s) = r /\ \A i \in 1..r : s[i] = a[i]
  <2> DEFINE w == SubSeq(a, r + 1, Len(a))
  <2>1. r \in 0..Len(a)
    BY <1>1
  <2>2. Halves(a, r, s, w)
    BY DEF Halves
  <2> HIDE DEF s, w
  <2> QED BY <2>1, <2>2, HalvesAre
<1>3. t \in Seq(0..Rows) /\ Len(t) = c /\ \A i \in 1..(l - o) : t[i] = a[o + i]
  <2> HIDE DEF o
  <2> QED BY <1>1, Tails
<1> HIDE DEF l
<1>4. c \in Nat
  <2>1. l - o \in Int
    BY <1>1
  <2> QED BY <2>1, MostIs
<1>5. b \in Seq(0..Rows) /\ \A i \in 1..n : b[i] # Tombstone
  <2>1. b \in Seq(0..Rows)
    BY SeqMonotonic, Constants
  <2>2. \A i \in 1..n : b[i] \in 1..Rows
    BY SeqFacts
  <2> QED BY <2>1, <2>2 DEF Tombstone
<1> HIDE DEF s, t
<1>7. x = s \o b \o t
  BY DEF s, t, l, Within
<1>8. /\ x \in Seq(0..Rows) /\ Len(x) = r + n + c
      /\ \A i \in 1..r : x[i] = s[i]
      /\ \A i \in 1..n : x[r + i] = b[i]
      /\ \A i \in 1..c : x[r + n + i] = t[i]
  <2> HIDE DEF c
  <2>1. b \in Seq(0..Rows) /\ s \in Seq(0..Rows) /\ t \in Seq(0..Rows) /\ Len(s) = r /\ Len(t) = c /\ Len(b) = n
    BY <1>2, <1>3, <1>4, <1>5
  <2>2. /\ x \in Seq(0..Rows) /\ Len(x) = Len(s) + Len(b) + Len(t)
        /\ \A i \in 1..Len(s) : x[i] = s[i]
        /\ \A i \in 1..Len(b) : x[Len(s) + i] = b[i]
        /\ \A i \in 1..Len(t) : x[Len(s) + Len(b) + i] = t[i]
    <3>1. b \in Seq(0..Rows) /\ t \in Seq(0..Rows) /\ s \in Seq(0..Rows) /\ InARow(x, s, b, t)
      BY <1>7, <2>1 DEF InARow
    <3> QED BY <3>1, Triples, SMT
  <2> QED BY <2>1, <2>2, Zenon
<1>9. ASSUME NEW j \in 1..l, a[j] # Tombstone
      PROVE  j \in 1..Len(x) /\ x[j] # Tombstone
  <2>1. CASE j <= r
    <3>1. j \in 1..r /\ j \in 1..(r + n + c)
      BY <1>1, <1>4, <2>1
    <3> QED BY <1>2, <1>8, <1>9, <3>1
  <2>2. CASE ~(j <= r) /\ j <= o
    <3> DEFINE k == j - r
    <3>1. k \in 1..n /\ r + k = j /\ j \in 1..(r + n + c)
      BY <1>1, <1>4, <2>2
    <3> HIDE DEF k
    <3>2. x[r + k] = b[k] /\ b[k] # Tombstone
      BY <1>5, <1>8, <3>1
    <3>3. Len(x) = r + n + c
      BY <1>8
    <3> QED BY <3>1, <3>2, <3>3
  <2>3. CASE ~(j <= o)
    <3>1. l - o \in Int /\ l - o > 0 /\ j - o \in 1..(l - o) /\ r + n + (j - o) = j /\ o + (j - o) = j
      BY <1>1, <2>3
    <3>2. c = l - o
      BY <3>1, MostIs
    <3> DEFINE k == j - o
    <3>3. k \in 1..c /\ k \in 1..(l - o) /\ r + n + k = j /\ o + k = j /\ j \in 1..(r + n + c)
      BY <1>1, <3>1, <3>2
    <3> HIDE DEF c, o, k
    <3>4. x[r + n + k] = t[k] /\ t[k] = a[o + k]
      BY <1>3, <1>8, <3>3
    <3> QED BY <1>8, <1>9, <3>3, <3>4
  <2> QED BY <2>1, <2>2, <2>3
<1>10. l <= r + n + c
  <2>1. l - o \in Int
    BY <1>1
  <2>2. c >= l - o
    BY <2>1, MostIs
  <2> HIDE DEF c
  <2> QED BY <1>1, <1>4, <2>2
<1> QED BY <1>8, <1>9, <1>10 DEF l

HoldsOn(g1, h) == \A i \in Int : Holds(h, i) => Holds(g1, i)

LEMMA SeatBufferIs ==
    ASSUME NEW h, Sound(h), Buffers(h)
    PROVE  /\ Sound(SeatBuffer(h)) /\ SeatBuffer(h).top = h.top
           /\ SeatBuffer(h).needDown = h.needDown /\ SeatBuffer(h).needUp = h.needUp
           /\ SeatBuffer(h).filter = h.filter /\ SeatBuffer(h).buf = <<>>
           /\ SeatBuffer(h).calm = h.calm
           /\ HoldsOn(SeatBuffer(h), h)
           /\ SeatBuffer(h).base <= h.base /\ Edge(h) <= Edge(SeatBuffer(h))
<1> DEFINE n == Len(h.buf)
           hi == h.start + n
           rel == h.start - h.base
           over == Most(0, hi - h.base)
           all1 == IF rel <= 0
                   THEN h.buf \o Blanks(Most(0, h.base - hi)) \o SubSeq(h.all, over + 1, Len(h.all))
                   ELSE SubSeq(h.all, 1, rel) \o h.buf \o SubSeq(h.all, rel + n + 1, Len(h.all))
           base1 == IF rel <= 0 THEN h.start ELSE h.base
           h1 == [h EXCEPT !.all = all1, !.base = base1, !.buf = <<>>]
<1>1. /\ h \in Grids /\ h.all \in Seq(0..Rows) /\ h.base \in Nat /\ h.start \in Nat
      /\ h.buf \in Seq(1..Rows) /\ n \in Nat /\ Len(h.all) \in Nat /\ Edge(h) = h.base + Len(h.all)
  BY GridFacts
<1>2. SeatBuffer(h) = IF n = 0 THEN h ELSE PushTop(h1, Last(h.buf), hi)
  BY DEF SeatBuffer
<1>3. CASE n = 0
  <2>1. h.buf = <<>>
    BY <1>1, <1>3, EmptySeq
  <2>2. SeatBuffer(h) = h
    BY <1>2, <1>3
  <2> QED BY <1>1, <2>1, <2>2 DEF HoldsOn
<1>4. CASE n # 0
  <2>1. h.start < Edge(h)
    <3>1. h.buf # <<>>
      BY <1>4
    <3> QED BY <3>1 DEF Buffers
  <2>2. /\ all1 \in Seq(0..Rows) /\ base1 \in Nat
        /\ \A i \in (h.base + 1)..(h.base + Len(h.all)) : h.all[i - h.base] # Tombstone
              => i \in (base1 + 1)..(base1 + Len(all1)) /\ all1[i - base1] # Tombstone
        /\ base1 <= h.base /\ h.base + Len(h.all) <= base1 + Len(all1)
    <3> DEFINE a == h.all
               b == h.buf
               c == h.base
               s == h.start
    <3>1. a \in Seq(0..Rows) /\ b \in Seq(1..Rows) /\ c \in Nat /\ s \in Nat /\ n \in Nat /\ n = Len(b)
          /\ Len(a) \in Nat /\ s < c + Len(a)
      BY <1>1, <2>1
    <3>2. CASE s <= c
      <4>1. rel <= 0
        <5> HIDE DEF s, c
        <5>1. s - c <= 0
          BY <3>1, <3>2
        <5> QED BY <5>1 DEF s, c
      <4>2. base1 = s
        BY <4>1
      <4>3. all1 = h.buf \o Blanks(Most(0, h.base - hi)) \o SubSeq(h.all, over + 1, Len(h.all))
        BY <4>1
      <4>4. hi - c = s + n - c
        <5> HIDE DEF s, c, n
        <5>1. s + n - c = (s + n) - c
          BY <3>1
        <5> QED BY <5>1 DEF s
      <4>5. Above(all1, a, b, c, s, n)
        <5>1. all1 = b \o Blanks(Most(0, c - (s + n))) \o SubSeq(a, Most(0, s + n - c) + 1, Len(a))
          BY <4>3, <4>4
        <5> HIDE DEF all1, a, b, c, s, n
        <5> QED BY <5>1 DEF Above
      <4> HIDE DEF a, b, c, s, n, all1, base1
      <4>6. /\ all1 \in Seq(0..Rows) /\ c + Len(a) <= s + Len(all1)
            /\ \A i \in (c + 1)..(c + Len(a)) : a[i - c] # Tombstone
                => i \in (s + 1)..(s + Len(all1)) /\ all1[i - s] # Tombstone
        BY <3>1, <3>2, <4>5, SeatsAbove
      <4> QED BY <3>1, <3>2, <4>2, <4>6 DEF a, b, c, s
    <3>3. CASE ~(s <= c)
      <4>1. ~(rel <= 0) /\ rel \in Nat /\ rel <= Len(a)
        <5> DEFINE l == Len(a)
        <5> HIDE DEF s, c, l
        <5>1. s \in Nat /\ c \in Nat /\ l \in Nat /\ s < c + l
          BY <3>1 DEF l
        <5>2. ~(s - c <= 0) /\ s - c \in Nat /\ s - c <= l
          BY <5>1, <3>3
        <5> QED BY <5>2 DEF s, c, l
      <4>2. base1 = c
        BY <4>1
      <4>3. all1 = SubSeq(h.all, 1, rel) \o h.buf \o SubSeq(h.all, rel + n + 1, Len(h.all))
        BY <4>1
      <4>4. Within(all1, a, b, rel, n)
        BY <4>3 DEF Within
      <4> HIDE DEF a, b, c, s, n, all1, base1, rel
      <4>5. /\ all1 \in Seq(0..Rows) /\ Len(a) <= Len(all1)
            /\ \A j \in 1..Len(a) : a[j] # Tombstone
                => j \in 1..Len(all1) /\ all1[j] # Tombstone
        BY <3>1, <4>1, <4>4, SeatsWithin
      <4>6. ASSUME NEW i \in (c + 1)..(c + Len(a)), a[i - c] # Tombstone
            PROVE  i \in (c + 1)..(c + Len(all1)) /\ all1[i - c] # Tombstone
        <5>1. i - c \in 1..Len(a)
          BY <3>1
        <5>2. i - c \in 1..Len(all1) /\ all1[i - c] # Tombstone
          BY <4>5, <4>6, <5>1
        <5>3. Len(all1) \in Nat
          BY <4>5, SeqFacts, Zenon
        <5> QED BY <3>1, <5>2, <5>3
      <4>7. c + Len(a) <= c + Len(all1) /\ c <= c
        <5>1. Len(all1) \in Nat
          BY <4>5, SeqFacts, Zenon
        <5> QED BY <3>1, <4>5, <5>1
      <4> QED BY <3>1, <4>2, <4>5, <4>6, <4>7 DEF a, c
    <3> QED BY <3>2, <3>3
  <2> HIDE DEF all1, base1
  <2>3. <<>> \in Seq(1..Rows)
    OBVIOUS
  <2>4. /\ h1 \in Grids /\ h1.all = all1 /\ h1.base = base1 /\ h1.top = h.top /\ h1.tops = h.tops
        /\ h1.needDown = h.needDown /\ h1.needUp = h.needUp /\ h1.filter = h.filter /\ h1.buf = <<>>
        /\ h1.calm = h.calm
    BY <1>1, <2>2, <2>3 DEF Grids
  <2> HIDE DEF h1
  <2>5. Sound(h1)
    BY <2>4 DEF Sound
  <2> DEFINE e == PushTop(h1, Last(h.buf), hi)
  <2>6. Last(h.buf) \in Nat /\ hi \in Nat \ {0}
    <3> DEFINE b == h.buf
               s == h.start
    <3>1. n \in Nat /\ s \in Nat /\ \A i \in 1..n : b[i] \in 1..Rows
      BY <1>1, SeqFacts
    <3>2. s + n \in Nat \ {0}
      <4> HIDE DEF s, n
      <4> QED BY <1>4, <3>1
    <3>3. n \in 1..n
      <4> HIDE DEF n
      <4> QED BY <1>4, <3>1
    <3> HIDE DEF b
    <3> DEFINE x == b[n]
    <3>4. x \in 1..Rows
      BY <3>1, <3>3
    <3> HIDE DEF x
    <3>5. x \in Nat
      BY <3>4, Constants
    <3>6. Last(b) = x
      BY DEF Last, x, b
    <3> QED BY <3>2, <3>5, <3>6 DEF b
  <2>7. Seats(e, h1)
    <3> HIDE DEF hi
    <3> QED BY <2>5, <2>6, PushTopSeats
  <2> HIDE DEF e
  <2>8. Behind(e, h1) /\ e.buf = h1.buf
    BY <2>5, <2>7, SeatsLike
  <2>9. HoldsOn(e, h)
    <3>1. e.all = all1 /\ e.base = base1 /\ Edge(e) = base1 + Len(all1) /\ Edge(h) = h.base + Len(h.all)
      BY <2>4, <2>8 DEF Behind, Edge
    <3>2. ASSUME NEW i \in Int, Holds(h, i) PROVE Holds(e, i)
      <4>1. i \in (h.base + 1)..(h.base + Len(h.all)) /\ h.all[i - h.base] # Tombstone
        BY <3>1, <3>2 DEF Holds
      <4>2. i \in (base1 + 1)..(base1 + Len(all1)) /\ all1[i - base1] # Tombstone
        BY <2>2, <4>1
      <4> QED BY <3>1, <4>2 DEF Holds
    <3> QED BY <3>2 DEF HoldsOn
  <2>10. SeatBuffer(h) = e
    BY <1>2, <1>4 DEF e, h1, base1, all1
  <2>11. e.base <= h.base /\ Edge(h) <= Edge(e)
    BY <1>1, <2>2, <2>4, <2>8 DEF Behind, Edge
  <2> QED BY <2>4, <2>8, <2>9, <2>10, <2>11 DEF Behind
<1> QED BY <1>3, <1>4

(* The end of a refill: what the viewport shows of the window stays held.    *)
LEMMA SettleUpIs ==
    ASSUME NEW h, Sound(h), Buffers(h)
    PROVE  /\ Sound(SettleUp(h)) /\ SettleUp(h).buf = <<>>
           /\ ~SettleUp(h).needUp /\ SettleUp(h).needDown = h.needDown
           /\ SettleUp(h).filter = h.filter /\ SettleUp(h).calm = h.calm
           /\ Rolls(SettleUp(h), h)
           /\ h.buf = <<>> => SettleUp(h).all = h.all
           /\ \A i \in InView(h) : Holds(SettleUp(h), i)
<1> DEFINE s == SeatBuffer(h)
           h1 == TrimBottom(s)
           r == Filtered(h1)
           c == [h1 EXCEPT !.rows = r]
           h2 == IF h.buf = <<>> THEN h ELSE Clamp(c)
           e == [h2 EXCEPT !.needUp = FALSE, !.hit = FALSE, !.scanned = 0]
<1>1. /\ Sound(s) /\ s.top = h.top /\ s.needDown = h.needDown /\ s.needUp = h.needUp
      /\ s.filter = h.filter /\ s.buf = <<>> /\ HoldsOn(s, h)
      /\ s.calm = h.calm /\ s.base <= h.base /\ Edge(h) <= Edge(s)
  BY SeatBufferIs
<1>2. SettleUp(h) = e
  BY DEF SettleUp
<1> HIDE DEF s
<1>3. /\ Like(h1, s) /\ h1.all = SubSeq(s.all, 1, Len(s.all) - BottomCut(s))
      /\ h1.base = s.base /\ h1.top = s.top
  BY <1>1, TrimBottomIs
<1> HIDE DEF h1
<1>4. /\ h1 \in Grids /\ Sound(h1) /\ h1.buf = <<>> /\ h1.needDown = h.needDown /\ h1.filter = h.filter
      /\ h1.calm = h.calm /\ h1.base <= h.base /\ h1.top = h.top
  BY <1>1, <1>3, GridFacts DEF Like
<1>5. (\A i \in InView(h) : Holds(h1, i)) /\ (Lies(h) => Lies(h1))
  <2> DEFINE n == Len(s.all)
             b == s.base
             t == s.top
             k == BottomCut(s)
  <2>1. /\ n \in Nat /\ b \in Nat /\ t \in Nat /\ k \in 0..n /\ s.all \in Seq(0..Rows)
        /\ k <= Most(0, n - (t + Screen - b) - Screen) /\ Edge(s) = b + n
    BY <1>1, GridFacts, BottomCutIs
  <2>2. /\ SubSeq(s.all, 1, n - k) \in Seq(0..Rows)
        /\ Len(SubSeq(s.all, 1, n - k)) = n - k
        /\ \A j \in 1..(n - k) : SubSeq(s.all, 1, n - k)[j] = s.all[j]
    <3>1. n - k \in 0..n
      <4> HIDE DEF n, k
      <4> QED BY <2>1
    <3> DEFINE m == n - k
    <3> HIDE DEF m
    <3>2. m \in 0..Len(s.all) /\ s.all \in Seq(0..Rows)
      BY <2>1, <3>1 DEF m
    <3>3. /\ SubSeq(s.all, 1, m) \in Seq(0..Rows)
          /\ Len(SubSeq(s.all, 1, m)) = m
          /\ \A j \in 1..m : SubSeq(s.all, 1, m)[j] = s.all[j]
      <4> DEFINE u == s.all
                 p == SubSeq(u, 1, m)
                 q == SubSeq(u, m + 1, Len(u))
      <4>1. Halves(u, m, p, q)
        BY DEF Halves
      <4> HIDE DEF p, q, u
      <4>2. u \in Seq(0..Rows) /\ m \in 0..Len(u)
        BY <3>2 DEF u
      <4>3. p \in Seq(0..Rows) /\ Len(p) = m /\ \A j \in 1..m : p[j] = u[j]
        BY <4>1, <4>2, HalvesAre
      <4> QED BY <4>3 DEF p, u
    <3> QED BY <3>3 DEF m
  <2>3. Len(h1.all) = n - k /\ h1.base = b /\ \A j \in 1..(n - k) : h1.all[j] = s.all[j]
    BY <1>3, <2>2
  <2>4. Edge(h1) = b + (n - k)
    BY <2>3 DEF Edge
  <2>5. ASSUME NEW i \in InView(h) PROVE Holds(h1, i)
    <3>1. i \in Int /\ Holds(h, i) /\ i <= h.top + Screen
      <4>1. i \in (Most(h.top, h.base) + 1)..Least(h.top + Screen, Edge(h)) /\ Holds(h, i)
        BY DEF InView
      <4> DEFINE u == h.top
                 d == h.base
                 w == Edge(h)
      <4>2. u \in Nat /\ d \in Nat /\ w \in Nat
        BY GridFacts
      <4> HIDE DEF u, d, w
      <4>3. i \in (Most(u, d) + 1)..Least(u + Screen, w)
        BY <4>1 DEF u, d, w
      <4>4. i \in Int /\ i <= u + Screen
        BY <4>2, <4>3, Constants DEF Most, Least
      <4> QED BY <4>1, <4>4 DEF u
    <3>2. Holds(s, i)
      BY <1>1, <3>1 DEF HoldsOn
    <3>3. i \in (b + 1)..(b + n) /\ s.all[i - b] # Tombstone /\ i <= t + Screen
      BY <1>1, <2>1, <3>1, <3>2 DEF Holds
    <3> DEFINE x == s.all
    <3> HIDE DEF n, b, t, k, x
    <3>4. i - b <= n - k /\ i - b \in 1..(n - k) /\ i \in (b + 1)..(b + (n - k))
      <4>1. n - (t + Screen - b) - Screen \in Int
        BY <2>1, Constants
      <4>2. CASE n - (t + Screen - b) - Screen < 0
        <5>1. k <= 0
          BY <4>1, <4>2, <2>1, MostIs
        <5> QED BY <2>1, <3>3, <5>1
      <4>3. CASE ~(n - (t + Screen - b) - Screen < 0)
        <5>1. k <= n - (t + Screen - b) - Screen
          <6>1. n - (t + Screen - b) - Screen >= 0
            BY <4>1, <4>3
          <6> QED BY <4>1, <6>1, <2>1, MostIs
        <5> QED BY <2>1, <3>3, <5>1, Constants
      <4> QED BY <4>2, <4>3
    <3>5. h1.all[i - b] = s.all[i - b]
      BY <2>3, <3>4
    <3> QED BY <2>3, <2>4, <3>3, <3>4, <3>5 DEF Holds, x
  <2>6. ASSUME Lies(h) PROVE Lies(h1)
    <3> DEFINE w == Edge(h)
               y == h.top
    <3>1. w \in Nat /\ y \in Nat /\ y = t /\ w <= b + n /\ y <= Most(0, w - Screen) /\ ~h1.filter
      BY <1>1, <1>4, <2>1, <2>6, GridFacts DEF Lies
    <3> HIDE DEF n, b, t, k, w, y
    <3>2. t <= Most(0, b + (n - k) - Screen)
      BY <2>1, <3>1, Constants DEF Most
    <3> DEFINE x == b + (n - k) - Screen
               z == Edge(h1)
    <3>3. z = b + (n - k) /\ b + (n - k) \in Int
      BY <2>1, <2>4
    <3> HIDE DEF z
    <3>4. z - Screen = x
      BY <2>1, <3>3, Constants
    <3>5. h1.top = t
      BY <1>3 DEF t
    <3> HIDE DEF x
    <3>6. t <= Most(0, x)
      BY <3>2 DEF x
    <3>7. h1.top <= Most(0, Edge(h1) - Screen)
      BY <3>4, <3>5, <3>6 DEF z
    <3> QED BY <3>1, <3>7 DEF Lies
  <2> QED BY <2>5, <2>6
<1>6. r \in Seq(1..Rows)
  <2>1. h1.all \in Seq(0..Rows)
    BY <1>4 DEF Grids
  <2> QED BY <2>1, FilteredType
<1> HIDE DEF r
<1>7. /\ c \in Grids /\ c.all = h1.all /\ c.base = h1.base /\ c.tops = h1.tops /\ c.buf = <<>>
      /\ c.needDown = h.needDown /\ c.filter = h.filter /\ c.calm = h.calm /\ c.top = h1.top
  BY <1>4, <1>6 DEF Grids
<1> HIDE DEF c
<1>8. Sound(c)
  BY <1>4, <1>7 DEF Sound
<1>9. Like(Clamp(c), c) /\ Clamp(c).all = c.all /\ Clamp(c).base = c.base
      /\ (~c.filter => Lies(Clamp(c))) /\ (Lies(c) => Clamp(c).top = c.top)
  BY <1>8, ClampLike
<1>10. /\ Sound(h2) /\ h2.buf = <<>> /\ h2.needDown = h.needDown /\ h2.filter = h.filter
       /\ h.buf = <<>> => h2.all = h.all
       /\ \A i \in InView(h) : Holds(h2, i)
       /\ h2.calm = h.calm /\ h2.base <= h.base /\ (Lies(h) => Lies(h2) /\ h2.top = h.top)
  <2>1. CASE h.buf = <<>>
    <3>1. h2 = h
      BY <2>1
    <3>2. \A i \in InView(h) : Holds(h, i)
      BY DEF InView
    <3>3. h.base \in Nat
      BY GridFacts
    <3> QED BY <2>1, <3>1, <3>2, <3>3
  <2>2. CASE h.buf # <<>>
    <3>1. h2 = Clamp(c)
      BY <2>2
    <3>2. Edge(h2) = Edge(h1) /\ h2.all = h1.all /\ h2.base = h1.base
      BY <3>1, <1>7, <1>9 DEF Edge
    <3>3. \A i : Holds(h1, i) => Holds(h2, i)
      BY <3>2 DEF Holds
    <3>4. Lies(h) => Lies(h2) /\ h2.top = h.top
      <4> SUFFICES ASSUME Lies(h) PROVE Lies(h2) /\ h2.top = h.top
        OBVIOUS
      <4>1. Edge(c) = Edge(h1)
        BY <1>7 DEF Edge
      <4>2. Lies(c) /\ ~c.filter
        BY <1>4, <1>5, <1>7, <4>1 DEF Lies
      <4> QED BY <1>4, <1>7, <1>9, <3>1, <4>2
    <3>5. h2.calm = h.calm /\ h2.base <= h.base
      BY <1>4, <1>7, <1>9, <3>1, <3>2 DEF Like
    <3> QED BY <2>2, <3>1, <3>3, <3>4, <3>5, <1>5, <1>7, <1>9 DEF Like
  <2> QED BY <2>1, <2>2
<1> HIDE DEF h2
<1>11. /\ e \in Grids /\ e.all = h2.all /\ e.base = h2.base /\ e.tops = h2.tops /\ e.buf = h2.buf
       /\ e.needDown = h2.needDown /\ e.filter = h2.filter /\ ~e.needUp
       /\ e.calm = h2.calm /\ e.top = h2.top
  BY <1>10 DEF Sound, Grids
<1> HIDE DEF e
<1>12. Sound(e) /\ \A i : Holds(h2, i) => Holds(e, i)
  BY <1>10, <1>11 DEF Sound, Holds, Edge
<1>13. Rolls(e, h)
  <2>1. h.top \in Nat /\ h.base \in Nat /\ e.base \in Nat /\ e.base <= h.base
    BY <1>10, <1>11, <1>12, GridFacts
  <2>2. ASSUME Lies(h) PROVE Lies(e) /\ e.top = h.top
    <3>1. Edge(e) = Edge(h2)
      BY <1>11 DEF Edge
    <3> QED BY <1>10, <1>11, <2>2, <3>1 DEF Lies
  <2> QED BY <2>1, <2>2, RollsNot
<1> QED BY <1>2, <1>10, <1>11, <1>12, <1>13

(* The end of a page's fetch. *)
LEMMA SettleDownIs ==
    ASSUME NEW h, Sound(h), NEW done \in BOOLEAN, NEW error \in BOOLEAN
    PROVE  /\ Sound(SettleDown(h, done, error))
           /\ SettleDown(h, done, error).all = h.all /\ SettleDown(h, done, error).base = h.base
           /\ ~SettleDown(h, done, error).needDown
           /\ SettleDown(h, done, error).needUp = h.needUp
           /\ SettleDown(h, done, error).buf = h.buf
           /\ SettleDown(h, done, error).filter = h.filter
           /\ SettleDown(h, done, error).calm = error
           /\ Lies(h) => /\ Lies(SettleDown(h, done, error))
                         /\ SettleDown(h, done, error).top = h.top
<1> DEFINE grew == ~h.filter \/ Len(h.rows) > h.from
           done1 == h.done \/ done
           universe == IF done THEN Edge(h) ELSE h.universe
           h1 == [h EXCEPT !.needDown = FALSE, !.calm = error, !.grew = grew,
                           !.done = done1, !.universe = universe]
           r == Filtered(h1)
           c == [h1 EXCEPT !.rows = r]
<1>1. h \in Grids
  BY GridFacts
<1>2. grew \in BOOLEAN /\ done1 \in BOOLEAN
  OBVIOUS
<1>3. universe \in Int
  <2>1. Edge(h) \in Nat /\ h.universe \in Int
    BY GridFacts
  <2> DEFINE x == Edge(h)
  <2> HIDE DEF x
  <2>2. x \in Int
    BY <2>1 DEF x
  <2> QED BY <2>1, <2>2 DEF x
<1>4. SettleDown(h, done, error) = Clamp(c)
  BY <1>1 DEF SettleDown, Grids
<1> HIDE DEF grew, done1, universe
<1>5. /\ h1 \in Grids /\ h1.all = h.all /\ h1.base = h.base /\ h1.tops = h.tops /\ h1.buf = h.buf
      /\ ~h1.needDown /\ h1.needUp = h.needUp
      /\ h1.filter = h.filter /\ h1.calm = error /\ h1.top = h.top
  <2> DEFINE no == FALSE
             k1 == [h EXCEPT !.needDown = no]
             k2 == [k1 EXCEPT !.calm = error, !.grew = grew]
             k3 == [k2 EXCEPT !.done = done1, !.universe = universe]
  <2>1. no \in BOOLEAN /\ ~no
    OBVIOUS
  <2> HIDE DEF no
  <2>2. /\ k1 \in Grids /\ k1.all = h.all /\ k1.base = h.base /\ k1.tops = h.tops /\ k1.buf = h.buf
        /\ k1.needDown = no /\ k1.needUp = h.needUp
        /\ k1.filter = h.filter /\ k1.top = h.top
    BY <1>1, <2>1 DEF Grids
  <2> HIDE DEF k1
  <2>3. /\ k2 \in Grids /\ k2.all = h.all /\ k2.base = h.base /\ k2.tops = h.tops /\ k2.buf = h.buf
        /\ k2.needDown = no /\ k2.needUp = h.needUp
        /\ k2.filter = h.filter /\ k2.top = h.top /\ k2.calm = error
    BY <1>2, <2>2 DEF Grids
  <2> HIDE DEF k2
  <2>4. /\ k3 \in Grids /\ k3.all = h.all /\ k3.base = h.base /\ k3.tops = h.tops /\ k3.buf = h.buf
        /\ k3.needDown = no /\ k3.needUp = h.needUp
        /\ k3.filter = h.filter /\ k3.top = h.top /\ k3.calm = error
    BY <1>2, <1>3, <2>3 DEF Grids
  <2> HIDE DEF k3
  <2>5. h1 = k3
    BY DEF k3, k2, k1, no
  <2> QED BY <2>1, <2>4, <2>5
<1> HIDE DEF h1
<1>6. r \in Seq(1..Rows)
  <2>1. h1.all \in Seq(0..Rows)
    BY <1>5 DEF Grids
  <2> QED BY <2>1, FilteredType
<1> HIDE DEF r
<1>7. /\ c \in Grids /\ c.all = h.all /\ c.base = h.base /\ c.tops = h.tops /\ c.buf = h.buf
      /\ ~c.needDown /\ c.needUp = h.needUp
      /\ c.filter = h.filter /\ c.calm = error /\ c.top = h.top
  BY <1>5, <1>6 DEF Grids
<1> HIDE DEF c
<1>8. Sound(c)
  BY <1>7 DEF Sound
<1>9. /\ Like(Clamp(c), c) /\ Clamp(c).all = c.all /\ Clamp(c).base = c.base
      /\ (~c.filter => Lies(Clamp(c))) /\ (Lies(c) => Clamp(c).top = c.top)
  BY <1>8, ClampLike
<1>10. ASSUME Lies(h) PROVE Lies(Clamp(c)) /\ Clamp(c).top = h.top
  <2>1. Edge(c) = Edge(h)
    BY <1>7 DEF Edge
  <2>2. Lies(c) /\ ~c.filter
    BY <1>7, <1>10, <2>1 DEF Lies
  <2> QED BY <1>7, <1>9, <2>2
<1> QED BY <1>4, <1>7, <1>9, <1>10 DEF Like

-----------------------------------------------------------------------------
(* The demand of the grid and the wire that serves it are one.              *)
Wires ==
    {None} \cup [dir : {"down"}, next : Nat, cp : {None}]
           \cup [dir : {"up"}, next : Nat, cp : Checkpoints]

Served(h, w) ==
    /\ Sound(h) /\ w \in Wires
    /\ h.needDown <=> w.dir = "down"
    /\ h.needUp <=> w.dir = "up"
    /\ Buffers(h) /\ (w.dir # "up" => h.buf = <<>>)

LEMMA WireFacts ==
    ASSUME NEW w \in Wires
    PROVE  /\ w = None <=> (w.dir # "down" /\ w.dir # "up")
           /\ w.dir = "down" => w \in [dir : {"down"}, next : Nat, cp : {None}] /\ w.next \in Nat
           /\ w.dir = "up" => w \in [dir : {"up"}, next : Nat, cp : Checkpoints]
                              /\ w.next \in Nat /\ w.cp \in Checkpoints
  BY DEF Wires, None

LEMMA NoneIs == None \in Wires /\ None.dir = "none"
  BY DEF Wires, None

LEMMA NextPageIs ==
    ASSUME wire.next \in Nat
    PROVE  NextPage \in Seq(1..Rows) /\ Len(NextPage) <= PageSize
<1> DEFINE x == wire.next
           k == Least(PageSize, Rows - x)
           s == [i \in 1..k |-> x + i]
<1>1. k \in Int /\ k <= PageSize /\ k <= Rows - x
  BY Constants DEF Least
<1> HIDE DEF k, x
<1>2. \A i \in 1..k : x + i \in 1..Rows
  BY <1>1, Constants DEF x
<1>3. CASE k >= 0
  <2>1. k \in Nat
    BY <1>1, <1>3
  <2>2. s \in Seq(1..Rows) /\ Len(s) = k
    BY <1>2, <2>1
  <2> QED BY <1>1, <2>2 DEF NextPage, k, x
<1>4. CASE k < 0
  <2>1. 1..k = 1..0
    BY <1>1, <1>4
  <2>2. s = [i \in 1..0 |-> x + i]
    BY <2>1
  <2>3. [i \in 1..0 |-> x + i] \in Seq(1..Rows) /\ Len([i \in 1..0 |-> x + i]) = 0
    OBVIOUS
  <2>4. s \in Seq(1..Rows) /\ Len(s) = 0
    BY <2>2, <2>3
  <2> HIDE DEF s
  <2>5. Len(s) <= PageSize
    BY <2>4, Constants
  <2> QED BY <2>4, <2>5 DEF s, NextPage, k, x
<1> QED BY <1>1, <1>3, <1>4

LEMMA AdvanceIs ==
    ASSUME wire \in Wires, wire.dir \in {"down", "up"}
    PROVE  Advance \in Wires /\ Advance.dir = wire.dir
<1>1. wire.next \in Nat
  BY WireFacts
<1> DEFINE x == wire.next + Len(NextPage)
<1>2. x \in Nat
  <2>1. Len(NextPage) \in Nat
    BY <1>1, NextPageIs, SeqFacts
  <2> QED BY <1>1, <2>1
<1> HIDE DEF x
<1>3. Advance = [wire EXCEPT !.next = x]
  <2>1. wire.dir = "down" \/ wire.dir = "up"
    OBVIOUS
  <2>2. CASE wire.dir = "down"
    BY <2>2, WireFacts DEF Advance, x
  <2>3. CASE wire.dir = "up"
    BY <2>3, WireFacts DEF Advance, x
  <2> QED BY <2>1, <2>2, <2>3
<1>4. CASE wire.dir = "down"
  BY <1>2, <1>3, <1>4, WireFacts DEF Wires
<1>5. CASE wire.dir = "up"
  BY <1>2, <1>3, <1>5, WireFacts DEF Wires
<1> QED BY <1>4, <1>5

(* A demand is fired only where none is out. *)
LEMMA FireDownIs ==
    ASSUME NEW h, Sound(h)
    PROVE  /\ Sound(FireDown(h)) /\ FireDown(h).needDown /\ FireDown(h).needUp = h.needUp
           /\ FireDown(h).all = h.all /\ FireDown(h).base = h.base /\ FireDown(h).buf = h.buf
           /\ FireDown(h).top = h.top /\ FireDown(h).filter = h.filter /\ FireDown(h).calm = h.calm
<1> DEFINE x == Edge(h) + WinStep
           y == Len(h.rows)
           z == TRUE
<1>1. h \in Grids /\ y \in Nat
  BY GridFacts
<1>2. x \in Int
  <2> DEFINE e == Edge(h)
  <2>1. e \in Nat
    BY GridFacts
  <2> HIDE DEF e
  <2>2. e + WinStep \in Int
    BY <2>1, Constants
  <2> QED BY <2>2 DEF e
<1>3. z \in BOOLEAN /\ z
  OBVIOUS
<1>4. FireDown(h) = [h EXCEPT !.needDown = z, !.target = x, !.from = y]
  BY DEF FireDown
<1> HIDE DEF x, y, z
<1> DEFINE k == [h EXCEPT !.needDown = z, !.target = x, !.from = y]
<1>5. /\ k \in Grids /\ k.tops = h.tops /\ k.needDown = z /\ k.needUp = h.needUp
      /\ k.all = h.all /\ k.base = h.base /\ k.buf = h.buf
      /\ k.top = h.top /\ k.filter = h.filter /\ k.calm = h.calm
  BY <1>1, <1>2, <1>3 DEF Grids
<1> HIDE DEF k
<1> QED BY <1>3, <1>4, <1>5 DEF Sound, k

LEMMA FireUpIs ==
    ASSUME NEW h, Sound(h)
    PROVE  /\ Sound(FireUp(h)) /\ FireUp(h).needUp /\ FireUp(h).needDown = h.needDown
           /\ FireUp(h).all = h.all /\ FireUp(h).base = h.base /\ FireUp(h).buf = h.buf
           /\ FireUp(h).top = h.top /\ FireUp(h).filter = h.filter /\ FireUp(h).calm = h.calm
<1> DEFINE z == TRUE
<1>1. h \in Grids
  BY GridFacts
<1>2. z \in BOOLEAN /\ z
  OBVIOUS
<1>3. FireUp(h) = [h EXCEPT !.needUp = z, !.scanned = 0]
  BY DEF FireUp
<1> HIDE DEF z
<1> DEFINE k == [h EXCEPT !.needUp = z, !.scanned = 0]
<1>4. /\ k \in Grids /\ k.tops = h.tops /\ k.needUp = z /\ k.needDown = h.needDown
      /\ k.all = h.all /\ k.base = h.base /\ k.buf = h.buf /\ k.top = h.top
      /\ k.filter = h.filter /\ k.calm = h.calm
  BY <1>1, <1>2 DEF Grids
<1> HIDE DEF k
<1> QED BY <1>2, <1>3, <1>4 DEF Sound, k

LEMMA EmptyBuffers ==
    ASSUME NEW h, h.buf = <<>>
    PROVE  Buffers(h)
<1>1. Len(<<>>) <= WinStep
  BY Constants
<1> QED BY <1>1 DEF Buffers

(* What is not missed is in sight. *)
LEMMA SeesUnlessMissed ==
    ASSUME NEW h, Sound(h), ~Miss(h)
    PROVE  Sees(h)
<1> DEFINE t == h.top
           b == h.base
           a == h.all
           n == Len(a)
           from == Most(0, t - Prefetch) - b
           to == Least(n - 1, t + Screen - b)
<1>1. t \in Nat /\ b \in Nat /\ n \in Nat /\ Edge(h) = b + n
  BY GridFacts
<1>2. ~(from < 0) /\ \A i \in from..to : a[i + 1] # Tombstone
  BY DEF Miss
<1> HIDE DEF t, b, a, n
<1>3. from \in Int /\ from <= Most(0, t - b) /\ to \in Int
  BY <1>1, Constants DEF Most, Least
<1>4. from <= t - b /\ t - b \in Int /\ t - b >= 0
  BY <1>1, <1>2, Constants DEF Most
<1>5. ASSUME NEW i \in (t + 1)..Least(t + Screen, b + n)
      PROVE  i > b /\ a[i - b] # Tombstone
  <2> DEFINE k == i - b - 1
  <2>1. i \in Int /\ i > t /\ i <= t + Screen /\ i <= b + n
    BY <1>1, Constants DEF Least
  <2>2. k \in Int /\ k + 1 = i - b /\ k >= t - b /\ k <= n - 1 /\ k <= t + Screen - b
    BY <1>1, <2>1, Constants
  <2> HIDE DEF k
  <2>3. k <= to
    BY <2>2 DEF Least
  <2> HIDE DEF from, to
  <2>4. k \in from..to
    BY <1>3, <1>4, <2>2, <2>3
  <2>5. a[k + 1] # Tombstone
    BY <1>2, <2>4
  <2>6. i > b
    BY <1>1, <1>4, <2>1
  <2> QED BY <2>2, <2>5, <2>6
<1> QED BY <1>1, <1>5 DEF Sees, t, b, a

(* A render keeps the held slots, and the wire it leaves serves what it      *)
(* demands.  Without a filter it leaves the view where the canvas allows it, *)
(* and where that shows a slot that is owed there is a demand or a backoff.  *)
LEMMA RenderIs ==
    ASSUME NEW h, NEW w, Served(h, w), Render(h, w)
    PROVE  /\ Served(grid', wire') /\ grid'.all = h.all /\ grid'.base = h.base
           /\ grid'.filter = h.filter /\ grid'.calm = h.calm
           /\ Lies(h) => grid'.top = h.top
           /\ ~h.filter => Lies(grid')
           /\ ~h.filter /\ ~h.calm /\ wire' = None => Sees(grid')
<1> DEFINE k == Clamp(h)
           h1 == CheckNeed(k)
           up == h1.needUp /\ ~h.needUp
           down == h1.needDown /\ ~h.needDown
           cp == TopBelow(h1, h1.top)
<1>1. /\ Sound(h) /\ w \in Wires /\ Buffers(h)
      /\ h.needDown <=> w.dir = "down"
      /\ h.needUp <=> w.dir = "up"
      /\ w.dir # "up" => h.buf = <<>>
  BY DEF Served
<1>2. /\ grid' = h1
      /\ wire' = IF up THEN Wire("up", cp.after, cp)
                 ELSE IF down THEN Wire("down", LastKey(h1), None) ELSE w
  BY DEF Render
<1>3. /\ Like(k, h) /\ k.all = h.all /\ k.base = h.base /\ k.start = h.start
      /\ ~h.filter => Lies(k)
      /\ Lies(h) => k.top = h.top
  BY <1>1, ClampLike
<1> HIDE DEF k
<1>4. /\ Sound(k) /\ k.needDown = h.needDown /\ k.needUp = h.needUp /\ k.buf = h.buf
      /\ h.needDown \in BOOLEAN /\ h.needUp \in BOOLEAN
      /\ k.filter = h.filter /\ k.calm = h.calm
  BY <1>1, <1>3, GridFacts DEF Like
<1>5. /\ \/ h1 = k
         \/ ~k.needDown /\ ~k.needUp /\ h1 = FireUp(k)
         \/ ~k.needDown /\ ~k.needUp /\ h1 = FireDown(k)
      /\ ~k.needDown /\ ~k.needUp /\ ~k.calm /\ ~k.filter /\ Miss(k) => h1 = FireUp(k)
  BY DEF CheckNeed
<1> HIDE DEF h1
<1>6. CASE h1 = k
  <2>1. up = FALSE /\ down = FALSE
    BY <1>4, <1>6
  <2>2. wire' = w
    BY <1>2, <2>1
  <2>3. Buffers(k)
    BY <1>1, <1>3, <1>4 DEF Buffers, Edge
  <2>4. Served(grid', wire')
    BY <1>1, <1>2, <1>3, <1>4, <1>6, <2>2, <2>3 DEF Served
  <2>5. ASSUME ~h.filter, ~h.calm, wire' = None PROVE Sees(grid')
    <3>1. ~k.needDown /\ ~k.needUp
      BY <1>1, <1>4, <2>2, <2>5, NoneIs
    <3>2. ~Miss(k)
      <4>1. FireUp(k).needUp
        BY <1>4, FireUpIs
      <4> QED BY <1>4, <1>5, <1>6, <2>5, <3>1, <4>1
    <3> QED BY <1>2, <1>4, <1>6, <3>2, SeesUnlessMissed
  <2> QED BY <1>2, <1>3, <1>4, <1>6, <2>4, <2>5
<1>7. CASE ~k.needDown /\ ~k.needUp /\ h1 = FireUp(k)
  <2>1. /\ Sound(h1) /\ h1.needUp /\ h1.needDown = k.needDown /\ h1.top \in Nat
        /\ h1.all = k.all /\ h1.base = k.base /\ h1.buf = k.buf
        /\ h1.top = k.top /\ h1.filter = k.filter /\ h1.calm = k.calm
    <3>1. /\ Sound(h1) /\ h1.needUp /\ h1.needDown = k.needDown
          /\ h1.all = k.all /\ h1.base = k.base /\ h1.buf = k.buf
          /\ h1.top = k.top /\ h1.filter = k.filter /\ h1.calm = k.calm
      BY <1>4, <1>7, FireUpIs
    <3> QED BY <3>1, GridFacts
  <2>2. up
    BY <1>4, <1>7, <2>1
  <2>3. cp \in Checkpoints /\ cp.after \in Nat
    <3>1. cp \in Checkpoints
      BY <2>1, TopBelowIs
    <3> HIDE DEF cp
    <3> QED BY <3>1 DEF Checkpoints
  <2>4. wire' = Wire("up", cp.after, cp)
    BY <1>2, <2>2
  <2> HIDE DEF cp
  <2>5. wire' \in Wires /\ wire'.dir = "up"
    BY <2>3, <2>4 DEF Wires, Wire
  <2>6. h1.buf = <<>>
    BY <1>1, <1>4, <1>7, <2>1
  <2>7. Buffers(h1)
    BY <2>6, EmptyBuffers
  <2>8. Served(grid', wire') /\ wire' # None
    BY <1>2, <1>3, <1>7, <2>1, <2>5, <2>6, <2>7, NoneIs DEF Served
  <2>9. Edge(h1) = Edge(k)
    BY <2>1 DEF Edge
  <2>10. Lies(k) => Lies(h1)
    BY <2>1, <2>9 DEF Lies
  <2> QED BY <1>2, <1>3, <1>4, <2>1, <2>8, <2>10
<1>8. CASE ~k.needDown /\ ~k.needUp /\ h1 = FireDown(k)
  <2>1. /\ Sound(h1) /\ h1.needDown /\ h1.needUp = k.needUp
        /\ h1.all = k.all /\ h1.base = k.base /\ h1.buf = k.buf
        /\ h1.top = k.top /\ h1.filter = k.filter /\ h1.calm = k.calm
    BY <1>4, <1>8, FireDownIs
  <2>2. down /\ ~up
    BY <1>4, <1>8, <2>1
  <2>3. LastKey(h1) \in Nat
    BY <2>1, LastKeyIs
  <2>4. wire' = Wire("down", LastKey(h1), None)
    BY <1>2, <2>2
  <2>5. wire' \in Wires /\ wire'.dir = "down"
    BY <2>3, <2>4 DEF Wires, Wire
  <2>6. h1.buf = <<>>
    BY <1>1, <1>4, <1>8, <2>1
  <2>7. Buffers(h1)
    BY <2>6, EmptyBuffers
  <2>8. Served(grid', wire') /\ wire' # None
    BY <1>2, <1>3, <1>8, <2>1, <2>5, <2>6, <2>7, NoneIs DEF Served
  <2>9. Edge(h1) = Edge(k)
    BY <2>1 DEF Edge
  <2>10. Lies(k) => Lies(h1)
    BY <2>1, <2>9 DEF Lies
  <2> QED BY <1>2, <1>3, <1>4, <2>1, <2>8, <2>10
<1> QED BY <1>5, <1>6, <1>7, <1>8

(* What a step leaves: the view lies on the canvas, and what is owed in it is *)
(* asked for, but for the backoff after a failure.                          *)
Displays == ~grid'.filter => Lies(grid') /\ (~grid'.calm /\ wire' = None => Sees(grid'))

LEMMA RenderShows ==
    ASSUME NEW h, NEW w, Served(h, w), Render(h, w)
    PROVE  Displays /\ grid'.filter = h.filter /\ grid'.calm = h.calm /\ (Lies(h) => grid'.top = h.top)
  BY RenderIs DEF Displays

(* The parts of a concatenation are its own. *)
LEMMA CutConcat ==
    ASSUME NEW S, NEW u \in Seq(S), NEW d \in Seq(S)
    PROVE  /\ SubSeq(u \o d, 1, Len(u)) = u
           /\ SubSeq(u \o d, Len(u) + 1, Len(u \o d)) = d
<1> DEFINE a == Len(u)
           b == Len(d)
           x == u \o d
<1>1. /\ x \in Seq(S) /\ Len(x) = a + b /\ a \in Nat /\ b \in Nat
      /\ \A i \in 1..a : x[i] = u[i]
      /\ \A i \in 1..b : x[a + i] = d[i]
  BY ConcatFacts, SMT
<1> HIDE DEF x
<1>2. a \in 0..Len(x)
  <2> HIDE DEF a, b
  <2> QED BY <1>1
<1> DEFINE p == SubSeq(x, 1, a)
           q == SubSeq(x, a + 1, Len(x))
<1>3. /\ p \in Seq(S) /\ q \in Seq(S) /\ Len(p) = a /\ Len(q) = Len(x) - a
      /\ \A i \in 1..a : p[i] = x[i]
      /\ \A i \in 1..(Len(x) - a) : q[i] = x[a + i]
  <2> HIDE DEF a
  <2>1. x \in Seq(S) /\ a \in 0..Len(x)
    BY <1>1, <1>2
  <2> QED BY <2>1, Split
<1> HIDE DEF p, q
<1>4. p = u
  <2>1. Len(p) = Len(u) /\ \A i \in 1..Len(p) : p[i] = u[i]
    <3> HIDE DEF a, b
    <3>1. \A i \in 1..a : p[i] = u[i]
      BY <1>1, <1>3
    <3> QED BY <1>3, <3>1 DEF a
  <2> QED BY <1>3, <2>1, SeqEqual
<1>5. q = d
  <2>1. Len(q) = Len(d) /\ \A i \in 1..Len(q) : q[i] = d[i]
    <3> HIDE DEF a, b
    <3>1. Len(x) - a = b
      BY <1>1
    <3>2. \A i \in 1..b : q[i] = d[i]
      BY <1>1, <1>3, <3>1
    <3>3. Len(q) = b
      BY <1>3, <3>1
    <3> QED BY <3>2, <3>3 DEF b
  <2> QED BY <1>3, <2>1, SeqEqual
<1> QED BY <1>4, <1>5 DEF p, q, x

(* What lands leaves the held rows where they are, and reads after them.     *)
LEMMA LandsHolds ==
    ASSUME NEW a \in Seq(0..Rows), NEW new \in Seq(1..Rows), NEW b, Lands(b, a, new)
    PROVE  /\ b \in Seq(0..Rows)
           /\ \A j \in 1..Len(a) : a[j] # Tombstone => j \in 1..Len(b) /\ b[j] = a[j]
<1> DEFINE n == Len(a)
           Here(k) == /\ b = SubSeq(a, 1, k) \o new
                      /\ \A i \in (k + 1)..n : a[i] = Tombstone
<1>1. \E k \in 0..n : Here(k)
  BY DEF Lands
<1> HIDE DEF Here
<1>2. PICK k \in 0..n : Here(k)
  BY <1>1
<1>3. b = SubSeq(a, 1, k) \o new /\ \A i \in (k + 1)..n : a[i] = Tombstone
  BY <1>2 DEF Here
<1> DEFINE p == SubSeq(a, 1, k)
<1>4. p \in Seq(0..Rows) /\ Len(p) = k /\ \A i \in 1..k : p[i] = a[i]
  <2> DEFINE q == SubSeq(a, k + 1, Len(a))
  <2>1. Halves(a, k, p, q)
    BY DEF Halves
  <2>2. k \in 0..Len(a)
    OBVIOUS
  <2> HIDE DEF p, q
  <2> QED BY <2>1, <2>2, HalvesAre
<1> HIDE DEF p
<1>5. new \in Seq(0..Rows)
  BY SeqMonotonic, Constants
<1>6. /\ b \in Seq(0..Rows) /\ Len(b) = Len(p) + Len(new)
      /\ \A i \in 1..Len(p) : b[i] = p[i]
  <2>1. /\ p \o new \in Seq(0..Rows) /\ Len(p \o new) = Len(p) + Len(new)
        /\ \A i \in 1..Len(p) : (p \o new)[i] = p[i]
    <3>1. p \in Seq(0..Rows)
      BY <1>4
    <3> QED BY <1>5, <3>1, ConcatFacts, SMT
  <2>2. b = p \o new
    BY <1>3 DEF p
  <2> QED BY <2>1, <2>2
<1>7. Len(new) \in Nat /\ n \in Nat
  BY SeqFacts
<1> HIDE DEF n
<1>8. ASSUME NEW j \in 1..n, a[j] # Tombstone PROVE j \in 1..Len(b) /\ b[j] = a[j]
  <2>1. j \in 1..k
    BY <1>3, <1>7, <1>8
  <2> QED BY <1>4, <1>6, <1>7, <2>1
<1> QED BY <1>6, <1>8 DEF n

LEMMA RealConcat ==
    ASSUME NEW s \in Seq(0..Rows), NEW t \in Seq(0..Rows)
    PROVE  Real(s \o t) = Real(s) \o Real(t)
  BY KeptConcat DEF Real

LEMMA RealIs ==
    ASSUME NEW s \in Seq(0..Rows)
    PROVE  Real(s) \in Seq(1..Rows) /\ Len(Real(s)) \in Nat
<1>1. Real(s) \in Seq(1..Rows)
  BY KeptType DEF Real
<1> QED BY <1>1, SeqFacts

LEMMA RowsAssociate ==
    ASSUME NEW u \in Seq(0..Rows), NEW d \in Seq(0..Rows), NEW w \in Seq(0..Rows)
    PROVE  (u \o d) \o w = u \o (d \o w)
BY ConcatAssociative

(* The host cuts as many rows from its mirror as the trim cuts from the grid, *)
(* which is in what was held before the page.                               *)
LEMMA LandsReal ==
    ASSUME NEW a \in Seq(0..Rows), NEW new \in Seq(1..Rows), NEW b, Lands(b, a, new),
           NEW c \in 0..Len(b), c + Len(new) <= Len(b)
    PROVE  Real(SubSeq(b, c + 1, Len(b)))
            = SubSeq(Real(a), Len(Real(SubSeq(b, 1, c))) + 1, Len(Real(a))) \o new
<1> DEFINE n == Len(a)
           Here(k) == /\ b = SubSeq(a, 1, k) \o new
                      /\ \A i \in (k + 1)..n : a[i] = Tombstone
<1>1. \E k \in 0..n : Here(k)
  BY DEF Lands
<1> HIDE DEF Here
<1>2. PICK k \in 0..n : Here(k)
  BY <1>1
<1>3. b = SubSeq(a, 1, k) \o new /\ \A i \in (k + 1)..n : a[i] = Tombstone
  BY <1>2 DEF Here
<1> DEFINE p == SubSeq(a, 1, k)
           q == SubSeq(a, k + 1, n)
<1>4. /\ p \in Seq(0..Rows) /\ q \in Seq(0..Rows) /\ Len(p) = k /\ a = p \o q
      /\ Len(q) = n - k /\ \A i \in 1..(n - k) : q[i] = a[k + i]
  <2>1. Halves(a, k, p, q)
    BY DEF Halves
  <2>2. k \in 0..Len(a)
    OBVIOUS
  <2> HIDE DEF p, q
  <2>3. /\ p \in Seq(0..Rows) /\ q \in Seq(0..Rows) /\ Len(p) = k /\ Len(q) = Len(a) - k
        /\ \A i \in 1..(Len(a) - k) : q[i] = a[k + i]
        /\ a = p \o q
    BY <2>1, <2>2, HalvesAre
  <2> QED BY <2>3
<1>5. new \in Seq(0..Rows) /\ Len(new) \in Nat /\ n \in Nat
  BY SeqMonotonic, Constants, SeqFacts
<1> HIDE DEF p, q, n
<1>6. Real(q) = <<>>
  <2>1. \A i \in 1..(n - k) : k + i \in (k + 1)..n
    BY <1>5
  <2>2. \A i \in 1..Len(q) : q[i] \notin 1..Rows
    <3>1. \A i \in 1..(n - k) : q[i] = Tombstone
      BY <1>3, <1>4, <2>1
    <3>2. Tombstone \notin 1..Rows
      BY DEF Tombstone
    <3> QED BY <1>4, <3>1, <3>2
  <2> QED BY <1>4, <2>2, KeptNone DEF Real
<1>7. Real(a) = Real(p)
  <2>1. Real(a) = Real(p) \o Real(q)
    BY <1>4, RealConcat
  <2>2. Real(p) \in Seq(1..Rows)
    BY <1>4, RealIs
  <2>3. Real(p) \o <<>> = Real(p)
    BY <2>2, ConcatEmptySeq
  <2> QED BY <1>6, <2>1, <2>3
<1>8. Real(new) = new
  BY KeptAll DEF Real
<1>9. c <= k
  <2>1. Len(b) = k + Len(new)
    <3>1. b = p \o new
      BY <1>3 DEF p
    <3>2. Len(p \o new) = Len(p) + Len(new)
      <4>1. p \in Seq(0..Rows)
        BY <1>4
      <4> QED BY <1>5, <4>1, ConcatFacts, SMT
    <3> QED BY <1>4, <3>1, <3>2
  <2> QED BY <1>5, <2>1
<1> DEFINE p1 == SubSeq(p, 1, c)
           p2 == SubSeq(p, c + 1, Len(p))
<1>10. p1 \in Seq(0..Rows) /\ p2 \in Seq(0..Rows) /\ Len(p1) = c /\ p = p1 \o p2
  <2>1. c \in 0..Len(p)
    <3>1. Len(p) = k /\ c \in Nat /\ k \in Nat
      BY <1>4, <1>5
    <3> QED BY <1>9, <3>1
  <2> QED BY <1>4, <2>1, Split
<1> HIDE DEF p1, p2
<1>11. p2 \o new \in Seq(0..Rows) /\ b = p1 \o (p2 \o new)
  <2>1. p2 \o new \in Seq(0..Rows)
    BY <1>5, <1>10, ConcatFacts, SMT
  <2>2. (p1 \o p2) \o new = p1 \o (p2 \o new)
    <3>1. p1 \in Seq(0..Rows) /\ p2 \in Seq(0..Rows) /\ new \in Seq(0..Rows)
      BY <1>5, <1>10
    <3> QED BY <3>1, RowsAssociate
  <2> QED BY <1>3, <1>10, <2>1, <2>2 DEF p
<1> DEFINE r == p2 \o new
<1> HIDE DEF r
<1>12. r \in Seq(0..Rows) /\ b = p1 \o r
  BY <1>11 DEF r
<1>13. SubSeq(b, 1, c) = p1 /\ SubSeq(b, c + 1, Len(b)) = r
  <2>1. SubSeq(p1 \o r, 1, Len(p1)) = p1 /\ SubSeq(p1 \o r, Len(p1) + 1, Len(p1 \o r)) = r
    BY <1>10, <1>12, CutConcat
  <2> QED BY <1>10, <1>12, <2>1
<1>14. Real(r) = Real(p2) \o new
  <2>1. Real(p2 \o new) = Real(p2) \o Real(new)
    BY <1>5, <1>10, RealConcat
  <2> QED BY <1>8, <2>1 DEF r
<1> DEFINE s1 == Real(p1)
           s2 == Real(p2)
<1>15. s1 \in Seq(1..Rows) /\ s2 \in Seq(1..Rows) /\ Real(p) = s1 \o s2
  <2>1. Real(p1 \o p2) = Real(p1) \o Real(p2)
    BY <1>10, RealConcat
  <2> QED BY <1>10, <2>1, RealIs
<1> HIDE DEF s1, s2
<1>16. SubSeq(s1 \o s2, Len(s1) + 1, Len(s1 \o s2)) = s2
  BY <1>15, CutConcat
<1>17. SubSeq(Real(a), Len(Real(p1)) + 1, Len(Real(a))) = Real(p2)
  BY <1>7, <1>15, <1>16 DEF s1, s2
<1> QED BY <1>13, <1>14, <1>17

LEMMA InViewIs ==
    ASSUME NEW h, Sound(h), NEW i \in InView(h)
    PROVE  /\ i \in (h.base + 1)..(h.base + Len(h.all)) /\ h.all[i - h.base] # Tombstone
           /\ Holds(h, i) /\ i > h.top
<1> DEFINE u == h.top
           d == h.base
           w == Edge(h)
<1>1. i \in (Most(u, d) + 1)..Least(u + Screen, w) /\ Holds(h, i)
  BY DEF InView
<1>2. u \in Nat /\ d \in Nat /\ w \in Nat /\ w = h.base + Len(h.all)
  BY GridFacts
<1> HIDE DEF u, d, w
<1>3. i > u
  BY <1>1, <1>2, Constants DEF Most, Least
<1> QED BY <1>1, <1>2, <1>3 DEF Holds, u, d, w

(* A whole downward page: what it does to the slots, and to the mirror.     *)
LEMMA PageSlots ==
    ASSUME NEW h, Sound(h), NEW page \in Seq(1..Rows), NEW rest \in Seq(1..Rows), NEW h1, NEW D,
           h1 = AppendStreamRows(h, page), D = AppendRows(h1, rest).all
    PROVE  /\ ~h.filter => \A i \in InView(h) :
                 /\ i \in (h1.base + 1)..(h1.base + Len(D))
                 /\ D[i - h1.base] # Tombstone /\ D[i - h1.base] = h.all[i - h.base]
           /\ Len(page) <= MaxHeld =>
                 Real(D) = SubSeq(Real(h.all),
                                  Len(Real(SubSeq(AppendRows(h, Accepted(h, page)).all, 1, h1.base - h.base))) + 1,
                                  Len(Real(h.all))) \o Accepted(h, page) \o rest
<1> DEFINE a == h.all
           acc == Accepted(h, page)
           A == AppendRows(h, acc).all
           b == h.base
           l == Len(A)
           B == h1.all
           Cut(c) == /\ Lands(A, a, acc)
                     /\ B = SubSeq(A, c + 1, l)
                     /\ h1.base = b + c
                     /\ c <= Most(0, l - MaxHeld)
                     /\ ~h.filter => c <= Most(0, h.top - Screen - b)
<1>1. a \in Seq(0..Rows) /\ b \in Nat /\ h.top \in Nat
  BY GridFacts
<1>2. acc \in Seq(1..Rows) /\ Len(acc) <= Len(page)
  BY AcceptedIs
<1>3. Sound(h1) /\ \E c \in 0..l : Cut(c)
  <2>1. /\ Like(h1, h)
        /\ \E X \in {AppendRows(h, Accepted(h, page)).all} : \E c \in 0..Len(X) :
                 /\ Lands(X, h.all, Accepted(h, page))
                 /\ h1.all = SubSeq(X, c + 1, Len(X))
                 /\ h1.base = h.base + c
                 /\ c <= Most(0, Len(X) - MaxHeld)
                 /\ ~h.filter => c <= Most(0, h.top - Screen - h.base)
    BY AppendStreamIs
  <2> QED BY <2>1 DEF Like
<1> HIDE DEF Cut
<1>4. PICK c \in 0..l : Cut(c)
  BY <1>3
<1>5. /\ Lands(A, a, acc) /\ B = SubSeq(A, c + 1, l) /\ h1.base = b + c /\ c <= Most(0, l - MaxHeld)
      /\ ~h.filter => c <= Most(0, h.top - Screen - b)
  BY <1>4 DEF Cut
<1>6. Lands(D, B, rest)
  BY <1>3, AppendRowsIs
<1> HIDE DEF a, A, B, b, acc
<1>7. A \in Seq(0..Rows) /\ \A j \in 1..Len(a) : a[j] # Tombstone => j \in 1..l /\ A[j] = a[j]
  BY <1>1, <1>2, <1>5, LandsHolds
<1>8. l \in Nat
  BY <1>7, SeqFacts
<1>9. /\ B \in Seq(0..Rows) /\ Len(B) = l - c /\ \A i \in 1..(l - c) : B[i] = A[c + i]
  <2>1. /\ SubSeq(A, c + 1, l) \in Seq(0..Rows) /\ Len(SubSeq(A, c + 1, l)) = l - c
        /\ \A i \in 1..(l - c) : SubSeq(A, c + 1, l)[i] = A[c + i]
    BY <1>7, Split
  <2> HIDE DEF l
  <2> QED BY <1>5, <2>1
<1>10. D \in Seq(0..Rows) /\ \A j \in 1..Len(B) : B[j] # Tombstone => j \in 1..Len(D) /\ D[j] = B[j]
  BY <1>6, <1>9, LandsHolds
<1>11. Len(D) \in Nat
  BY <1>10, SeqFacts
<1>12. ASSUME ~h.filter, NEW i \in InView(h)
       PROVE  /\ i \in (h1.base + 1)..(h1.base + Len(D))
              /\ D[i - h1.base] # Tombstone /\ D[i - h1.base] = a[i - b]
  <2>1. i \in (b + 1)..(b + Len(a)) /\ a[i - b] # Tombstone /\ i > h.top
    BY InViewIs DEF a, b
  <2> DEFINE j == i - b
             t == h.top
             z == Len(a)
             e == Len(D)
  <2>2. j \in 1..z /\ j \in Int /\ i = b + j
    <3>1. z \in Nat
      BY <1>1, SeqFacts
    <3> HIDE DEF z
    <3> QED BY <1>1, <2>1, <3>1 DEF z
  <2>3. j \in 1..l /\ A[j] = a[j]
    <3> HIDE DEF j, l
    <3>1. a[j] # Tombstone
      BY <2>1 DEF j
    <3> QED BY <1>7, <2>2, <3>1
  <2> HIDE DEF j, t, z, l, e
  <2>4. c < j
    <3>1. t \in Nat /\ c <= Most(0, t - Screen - b) /\ i > t /\ t - Screen - b \in Int
      <4>1. t \in Nat /\ c <= Most(0, t - Screen - b) /\ i > t
        BY <1>1, <1>5, <1>12, <2>1 DEF t
      <4> QED BY <1>1, <4>1, Constants
    <3>2. CASE t - Screen - b < 0
      BY <1>8, <2>3, <3>1, <3>2, MostIs
    <3>3. CASE ~(t - Screen - b < 0)
      <4>1. t - Screen - b >= 0
        BY <3>1, <3>3
      <4>2. c <= t - Screen - b
        BY <3>1, <4>1, MostIs
      <4> QED BY <1>1, <1>8, <2>2, <3>1, <4>2, Constants
    <3> QED BY <3>2, <3>3
  <2>5. j - c \in 1..(l - c) /\ c + (j - c) = j
    BY <1>8, <2>3, <2>4
  <2>6. B[j - c] = A[j] /\ j - c \in 1..Len(B)
    BY <1>9, <2>5
  <2>7. a[j] # Tombstone
    BY <2>1 DEF j
  <2>8. j - c \in 1..e /\ D[j - c] = B[j - c]
    BY <1>10, <2>3, <2>6, <2>7 DEF e
  <2>9. i - h1.base = j - c /\ i \in (h1.base + 1)..(h1.base + e) /\ i - b = j
    <3> DEFINE y == h1.base
    <3>1. y = b + c
      BY <1>5
    <3> HIDE DEF y
    <3>2. i - y = j - c /\ i \in (y + 1)..(y + e) /\ i - b = j
      <4>1. e \in Nat /\ c \in Nat
        BY <1>8, <1>11 DEF e
      <4>2. i - y = j - c /\ i - b = j
        BY <1>1, <2>2, <3>1, <4>1
      <4>3. j - c \in 1..e
        BY <2>8
      <4>4. i = y + (j - c) /\ y \in Nat
        BY <1>1, <2>2, <3>1, <4>1
      <4> QED BY <4>1, <4>2, <4>3, <4>4
    <3> QED BY <3>2 DEF y
  <2> QED BY <2>3, <2>6, <2>7, <2>8, <2>9 DEF e
<1>13. ASSUME Len(page) <= MaxHeld
       PROVE  Real(D) = SubSeq(Real(a), Len(Real(SubSeq(A, 1, h1.base - b))) + 1, Len(Real(a))) \o acc \o rest
  <2>1. Real(B) = SubSeq(Real(a), Len(Real(SubSeq(A, 1, c))) + 1, Len(Real(a))) \o acc
    <3>1. c + Len(acc) <= l
      <4> DEFINE m == Len(acc)
                 k == Len(page)
      <4>1. m \in Nat /\ k \in Nat /\ m <= k /\ k <= MaxHeld
        BY <1>2, <1>13, SeqFacts
      <4>2. m <= l
        <5>1. \E k1 \in 0..Len(a) : A = SubSeq(a, 1, k1) \o acc
          BY <1>5 DEF Lands
        <5>2. PICK k1 \in 0..Len(a) : A = SubSeq(a, 1, k1) \o acc
          BY <5>1
        <5> DEFINE p == SubSeq(a, 1, k1)
        <5>3. p \in Seq(0..Rows)
          BY <1>1, Split
        <5>4. acc \in Seq(0..Rows)
          BY <1>2, SeqMonotonic, Constants
        <5> HIDE DEF p
        <5>5. Len(p \o acc) = Len(p) + m
          BY <5>3, <5>4, ConcatFacts, SMT
        <5>6. Len(p) \in Nat /\ l = Len(p) + m
          <6>1. A = p \o acc
            BY <5>2 DEF p
          <6> QED BY <5>3, <5>5, <6>1, SeqFacts
        <5> HIDE DEF l, m
        <5> QED BY <4>1, <5>6
      <4> HIDE DEF l, m, k
      <4>3. l - MaxHeld \in Int
        BY <1>8, Constants
      <4>4. CASE l - MaxHeld < 0
        <5>1. c <= 0
          BY <1>5, <4>3, <4>4, MostIs
        <5>2. c = 0
          BY <1>8, <5>1
        <5> QED BY <4>1, <4>2, <5>2 DEF m
      <4>5. CASE ~(l - MaxHeld < 0)
        <5>1. l - MaxHeld >= 0
          BY <4>3, <4>5
        <5>2. c <= l - MaxHeld
          BY <1>5, <4>3, <5>1, MostIs
        <5>3. c + m <= l
          BY <1>8, <4>1, <5>2, Constants
        <5> QED BY <5>3 DEF m
      <4> QED BY <4>4, <4>5
    <3>2. Real(SubSeq(A, c + 1, l)) = SubSeq(Real(a), Len(Real(SubSeq(A, 1, c))) + 1, Len(Real(a))) \o acc
      BY <1>1, <1>2, <1>5, <3>1, LandsReal
    <3> QED BY <1>5, <3>2
  <2>2. Real(D) = Real(B) \o rest
    <3>1. 0 \in 0..Len(D) /\ 0 + Len(rest) <= Len(D)
      <4>1. \E k1 \in 0..Len(B) : D = SubSeq(B, 1, k1) \o rest
        BY <1>6 DEF Lands
      <4>2. PICK k1 \in 0..Len(B) : D = SubSeq(B, 1, k1) \o rest
        BY <4>1
      <4> DEFINE p == SubSeq(B, 1, k1)
      <4>3. p \in Seq(0..Rows)
        BY <1>9, Split
      <4>4. rest \in Seq(0..Rows)
        BY SeqMonotonic, Constants
      <4> HIDE DEF p
      <4>5. Len(p \o rest) = Len(p) + Len(rest)
        BY <4>3, <4>4, ConcatFacts, SMT
      <4>6. Len(p) \in Nat /\ Len(rest) \in Nat /\ Len(D) = Len(p) + Len(rest)
        <5>1. D = p \o rest
          BY <4>2 DEF p
        <5> QED BY <4>3, <4>5, <5>1, SeqFacts
      <4> QED BY <1>11, <4>6
    <3>2. Real(SubSeq(D, 0 + 1, Len(D))) = SubSeq(Real(B), Len(Real(SubSeq(D, 1, 0))) + 1, Len(Real(B))) \o rest
      BY <1>6, <1>9, <3>1, LandsReal
    <3>3. SubSeq(D, 0 + 1, Len(D)) = D /\ SubSeq(D, 1, 0) = <<>>
      BY <1>10
    <3>4. Real(<<>>) = <<>> /\ Len(<<>>) = 0
      BY KeptEmpty DEF Real
    <3> DEFINE q == Real(B)
    <3>5. q \in Seq(1..Rows)
      BY <1>9, RealIs
    <3> HIDE DEF q
    <3>6. SubSeq(q, 0 + 1, Len(q)) = q
      BY <3>5
    <3> QED BY <3>2, <3>3, <3>4, <3>6 DEF q
  <2>3. h1.base - b = c
    <3> DEFINE y == h1.base
    <3>1. y = b + c
      BY <1>5
    <3> HIDE DEF y, l
    <3>2. y - b = c
      BY <1>1, <1>8, <3>1
    <3> QED BY <3>2 DEF y
  <2> QED BY <2>1, <2>2, <2>3
<1> QED BY <1>12, <1>13 DEF a, A, b, acc

-----------------------------------------------------------------------------
(* The steps.  A page from below first: it serves its demand, or settles it. *)
SameRow(i) == Holds(grid', i) /\ grid'.all[i - grid'.base] = grid.all[i - grid.base]

LEMMA LandedIs ==
    ASSUME NEW h, Sound(h), ~h.needUp, h.buf = <<>>, NEW new \in Seq(1..Rows)
    PROVE  Served(SettleDown(AppendRows(h, new), TRUE, FALSE), None)
<1> DEFINE k == AppendRows(h, new)
           e == SettleDown(k, TRUE, FALSE)
<1>1. Like(k, h)
  BY AppendRowsIs
<1> HIDE DEF k
<1>2. Sound(k) /\ TRUE \in BOOLEAN /\ FALSE \in BOOLEAN
  BY <1>1 DEF Like
<1>3. Sound(e) /\ ~e.needDown /\ e.needUp = k.needUp /\ e.buf = k.buf
  BY <1>2, SettleDownIs
<1> HIDE DEF e
<1>4. Buffers(e) /\ ~e.needUp /\ e.buf = <<>>
  BY <1>1, <1>3, EmptyBuffers DEF Like
<1>5. None \in Wires /\ None.dir # "down" /\ None.dir # "up"
  BY NoneIs
<1>6. Served(e, None)
  BY <1>3, <1>4, <1>5 DEF Served
<1> QED BY <1>6 DEF e, k

LEMMA SettledIs ==
    ASSUME NEW h, Sound(h), ~h.needUp, h.buf = <<>>, NEW error \in BOOLEAN
    PROVE  Served(SettleDown(h, FALSE, error), None)
<1> DEFINE e == SettleDown(h, FALSE, error)
<1>1. Sound(e) /\ ~e.needDown /\ e.needUp = h.needUp /\ e.buf = h.buf
  <2>1. FALSE \in BOOLEAN
    OBVIOUS
  <2> QED BY <2>1, SettleDownIs
<1> HIDE DEF e
<1>2. Buffers(e) /\ ~e.needUp /\ e.buf = <<>>
  BY <1>1, EmptyBuffers
<1>3. None \in Wires /\ None.dir # "down" /\ None.dir # "up"
  BY NoneIs
<1>4. Served(e, None)
  BY <1>1, <1>2, <1>3 DEF Served
<1> QED BY <1>4 DEF e

LEMMA DownPageIs ==
    ASSUME Served(grid, wire), DownPage
    PROVE  /\ Served(grid', wire')
           /\ ~grid.filter => \A i \in InView(grid) : SameRow(i)
           /\ PageSize <= MaxHeld /\ mirror = Real(grid.all) => mirror' = Real(grid'.all)
           /\ Rolls(grid', grid) /\ Displays /\ (grid'.calm => grid.calm)
<1> DEFINE page == NextPage
           acc == Accepted(grid, page)
           h1 == AppendStreamRows(grid, page)
           rest == IF LastPage THEN SubSeq(page, Len(acc) + 1, Len(page)) ELSE <<>>
           cut == Len(Real(SubSeq(AppendRows(grid, acc).all, 1, h1.base - grid.base)))
           D == AppendRows(h1, rest).all
<1>1. /\ wire.dir = "down"
      /\ mirror' = SubSeq(mirror, cut + 1, Len(mirror)) \o acc \o rest
      /\ IF LastPage THEN Render(SettleDown(AppendRows(h1, rest), TRUE, FALSE), None)
         ELSE IF WindowFull(h1) THEN Render(SettleDown(h1, FALSE, FALSE), None)
         ELSE Render(h1, Advance)
  BY DEF DownPage
<1>2. Sound(grid) /\ wire \in Wires /\ grid.needDown /\ ~grid.needUp /\ grid.buf = <<>>
  BY <1>1 DEF Served
<1>3. page \in Seq(1..Rows) /\ Len(page) <= PageSize /\ Advance \in Wires /\ Advance.dir = "down"
  BY <1>1, <1>2, NextPageIs, AdvanceIs, WireFacts
<1> HIDE DEF page
<1>4. rest \in Seq(1..Rows)
  <2>1. SubSeq(page, Len(acc) + 1, Len(page)) \in Seq(1..Rows)
    BY <1>2, <1>3, AcceptedIs
  <2>2. <<>> \in Seq(1..Rows)
    OBVIOUS
  <2> QED BY <2>1, <2>2
<1>5. Like(h1, grid) /\ Rolls(h1, grid)
  BY <1>2, <1>3, AppendStreamIs
<1>6. ~LastPage => rest = <<>>
  OBVIOUS
<1> HIDE DEF rest
<1> DEFINE X == Len(Real(SubSeq(AppendRows(grid, Accepted(grid, page)).all, 1, h1.base - grid.base)))
<1>7. /\ ~grid.filter => \A i \in InView(grid) :
            /\ i \in (h1.base + 1)..(h1.base + Len(D))
            /\ D[i - h1.base] # Tombstone /\ D[i - h1.base] = grid.all[i - grid.base]
      /\ Len(page) <= MaxHeld =>
            Real(D) = SubSeq(Real(grid.all), X + 1, Len(Real(grid.all))) \o Accepted(grid, page) \o rest
  BY <1>2, <1>3, <1>4, PageSlots
<1>8. X = cut /\ acc = Accepted(grid, page)
  OBVIOUS
<1> HIDE DEF X, cut, acc, h1
<1>9. /\ Sound(h1) /\ h1.needDown /\ ~h1.needUp /\ h1.buf = <<>>
  BY <1>2, <1>5 DEF Like
<1> DEFINE A1 == AppendRows(h1, rest)
<1>10. Like(A1, h1) /\ A1.base = h1.base /\ (Lies(h1) => Lies(A1) /\ A1.top = h1.top)
  BY <1>4, <1>9, AppendRowsIs
<1>11. /\ Served(grid', wire') /\ grid'.all = D /\ grid'.base = h1.base
       /\ Displays /\ (Lies(h1) => grid'.top = h1.top) /\ grid'.filter = h1.filter
       /\ grid'.calm => h1.calm
  <2>1. CASE LastPage
    <3> DEFINE e == SettleDown(A1, TRUE, FALSE)
    <3>1. Served(e, None)
      BY <1>4, <1>9, LandedIs
    <3>2. /\ e.all = D /\ e.base = h1.base /\ ~e.calm /\ e.filter = h1.filter
          /\ Lies(h1) => Lies(e) /\ e.top = h1.top
      <4>1. Sound(A1) /\ TRUE \in BOOLEAN /\ FALSE \in BOOLEAN
        BY <1>10 DEF Like
      <4> HIDE DEF A1
      <4>2. /\ e.all = A1.all /\ e.base = A1.base /\ ~e.calm /\ e.filter = A1.filter
            /\ Lies(A1) => Lies(e) /\ e.top = A1.top
        BY <4>1, SettleDownIs
      <4> QED BY <1>10, <4>2 DEF A1, Like
    <3>3. Render(e, None)
      BY <1>1, <2>1
    <3> HIDE DEF e, D
    <3>4. Served(grid', wire') /\ grid'.all = e.all /\ grid'.base = e.base
      BY <3>1, <3>3, RenderIs
    <3>5. Displays /\ grid'.filter = e.filter /\ grid'.calm = e.calm /\ (Lies(e) => grid'.top = e.top)
      BY <3>1, <3>3, RenderShows
    <3> QED BY <3>2, <3>4, <3>5
  <2>2. ~LastPage => D = h1.all
    BY <1>6 DEF AppendRows
  <2>3. CASE ~LastPage /\ WindowFull(h1)
    <3> DEFINE e == SettleDown(h1, FALSE, FALSE)
    <3>0. FALSE \in BOOLEAN
      OBVIOUS
    <3>1. Served(e, None)
      BY <1>9, <3>0, SettledIs
    <3>2. /\ e.all = h1.all /\ e.base = h1.base /\ ~e.calm /\ e.filter = h1.filter
          /\ Lies(h1) => Lies(e) /\ e.top = h1.top
      BY <1>9, <3>0, SettleDownIs
    <3>3. Render(e, None)
      BY <1>1, <2>3
    <3> HIDE DEF e, D
    <3>4. Served(grid', wire') /\ grid'.all = e.all /\ grid'.base = e.base
      BY <3>1, <3>3, RenderIs
    <3>5. Displays /\ grid'.filter = e.filter /\ grid'.calm = e.calm /\ (Lies(e) => grid'.top = e.top)
      BY <3>1, <3>3, RenderShows
    <3> QED BY <2>2, <2>3, <3>2, <3>4, <3>5
  <2>4. CASE ~LastPage /\ ~WindowFull(h1)
    <3>1. Served(h1, Advance)
      BY <1>3, <1>9, EmptyBuffers DEF Served
    <3>2. Render(h1, Advance)
      BY <1>1, <2>4
    <3> DEFINE w == Advance
    <3> HIDE DEF w, D
    <3>3. Served(h1, w) /\ Render(h1, w)
      BY <3>1, <3>2 DEF w
    <3>4. Served(grid', wire') /\ grid'.all = h1.all /\ grid'.base = h1.base
      BY <3>3, RenderIs
    <3>5. Displays /\ grid'.filter = h1.filter /\ grid'.calm = h1.calm /\ (Lies(h1) => grid'.top = h1.top)
      BY <3>3, RenderShows
    <3> QED BY <2>2, <2>4, <3>4, <3>5
  <2> QED BY <2>1, <2>3, <2>4
<1> HIDE DEF D
<1>12. ASSUME ~grid.filter, NEW i \in InView(grid) PROVE SameRow(i)
  <2>1. /\ i \in (grid'.base + 1)..(grid'.base + Len(grid'.all))
        /\ grid'.all[i - grid'.base] # Tombstone /\ grid'.all[i - grid'.base] = grid.all[i - grid.base]
    BY <1>7, <1>11, <1>12
  <2> QED BY <2>1 DEF SameRow, Holds, Edge
<1>13. ASSUME PageSize <= MaxHeld, mirror = Real(grid.all) PROVE mirror' = Real(grid'.all)
  <2>1. Len(page) <= MaxHeld
    <3>1. Len(page) \in Nat
      BY <1>3, SeqFacts
    <3> DEFINE k == Len(page)
    <3> HIDE DEF k
    <3>2. k \in Nat /\ k <= PageSize
      BY <1>3, <3>1 DEF k
    <3>3. k <= MaxHeld
      BY <1>13, <3>2, Constants
    <3> QED BY <3>3 DEF k
  <2>2. Real(D) = SubSeq(mirror, cut + 1, Len(mirror)) \o acc \o rest
    BY <1>7, <1>8, <1>13, <2>1
  <2> QED BY <1>1, <1>11, <2>2
<1>14. Rolls(grid', grid)
  <2> SUFFICES ASSUME Lies(grid) PROVE Rolls(grid', grid)
    BY DEF Rolls
  <2>1. Lies(h1) /\ h1.top = Most(0, grid.top - Most(0, h1.base - grid.base)) /\ ~h1.filter
    BY <1>5 DEF Rolls, Lies
  <2>2. Lies(grid')
    BY <1>11, <2>1 DEF Displays
  <2> QED BY <1>11, <2>1, <2>2 DEF Rolls
<1>15. h1.calm = grid.calm
  BY <1>5 DEF Like
<1> QED BY <1>11, <1>12, <1>13, <1>14, <1>15

LEMMA DownFailsIs ==
    ASSUME Served(grid, wire), DownFails
    PROVE  /\ Served(grid', wire') /\ grid'.all = grid.all /\ grid'.base = grid.base
           /\ Rolls(grid', grid) /\ Displays
<1> DEFINE e == SettleDown(grid, FALSE, TRUE)
<1>1. wire.dir = "down" /\ Render(e, None)
  BY DEF DownFails
<1>2. Sound(grid) /\ ~grid.needUp /\ grid.buf = <<>>
  BY <1>1 DEF Served
<1>3. FALSE \in BOOLEAN /\ TRUE \in BOOLEAN
  OBVIOUS
<1>4. /\ Served(e, None) /\ e.all = grid.all /\ e.base = grid.base /\ e.filter = grid.filter
      /\ Lies(grid) => Lies(e) /\ e.top = grid.top
  BY <1>2, <1>3, SettledIs, SettleDownIs
<1> HIDE DEF e
<1>5. Served(grid', wire') /\ grid'.all = grid.all /\ grid'.base = grid.base
  BY <1>1, <1>4, RenderIs
<1>6. Displays /\ grid'.filter = e.filter /\ (Lies(e) => grid'.top = e.top)
  BY <1>1, <1>4, RenderShows
<1>7. Rolls(grid', grid)
  <2>1. grid.top \in Nat /\ grid.base \in Nat /\ grid'.base \in Nat /\ grid'.base <= grid.base
    BY <1>2, <1>5, GridFacts
  <2>2. Lies(grid) => Lies(grid') /\ grid'.top = grid.top
    BY <1>4, <1>6 DEF Displays, Lies
  <2> QED BY <2>1, <2>2, RollsNot
<1> QED BY <1>5, <1>6, <1>7

(* The end of a refill settles its demand.                                  *)
LEMMA RefilledIs ==
    ASSUME NEW h, Sound(h), Buffers(h), ~h.needDown
    PROVE  Served(SettleUp(h), None)
<1> DEFINE e == SettleUp(h)
<1>1. Sound(e) /\ e.buf = <<>> /\ ~e.needUp /\ e.needDown = h.needDown
  BY SettleUpIs
<1> HIDE DEF e
<1>2. Buffers(e) /\ ~e.needDown
  BY <1>1, EmptyBuffers
<1>3. None \in Wires /\ None.dir # "down" /\ None.dir # "up"
  BY NoneIs
<1>4. Served(e, None)
  BY <1>1, <1>2, <1>3 DEF Served
<1> QED BY <1>4 DEF e

LEMMA UpPageIs ==
    ASSUME Served(grid, wire), UpPage
    PROVE  /\ Served(grid', wire')
           /\ \A i \in InView(grid) : Holds(grid', i)
           /\ mirror = Real(grid.all) => mirror' = Real(grid'.all)
           /\ Rolls(grid', grid) /\ Displays /\ (grid'.calm => grid.calm)
<1> DEFINE h1 == AppendBackRows(grid, NextPage, wire.cp, LastPage)
           h2 == SettleUp(h1)
<1>1. /\ wire.dir = "up"
      /\ IF LastPage \/ BackfillDone(h1)
         THEN /\ mirror' = IF h1.buf = <<>> THEN mirror ELSE Real(h2.all)
              /\ Render(h2, None)
         ELSE /\ UNCHANGED mirror
              /\ Render(h1, Advance)
  BY DEF UpPage
<1>2. Sound(grid) /\ wire \in Wires /\ ~grid.needDown /\ grid.needUp /\ Buffers(grid)
  BY <1>1 DEF Served
<1>3. /\ NextPage \in Seq(1..Rows) /\ wire.cp \in Checkpoints /\ Advance \in Wires /\ Advance.dir = "up"
      /\ LastPage \in BOOLEAN
  BY <1>1, <1>2, NextPageIs, AdvanceIs, WireFacts DEF LastPage
<1>4. Behind(h1, grid) /\ Buffers(h1)
  BY <1>2, <1>3, AppendBackIs
<1> HIDE DEF h1
<1>5. /\ Sound(h1) /\ ~h1.needDown /\ h1.needUp /\ h1.all = grid.all /\ h1.base = grid.base
      /\ InView(h1) = InView(grid)
      /\ h1.top = grid.top /\ h1.calm = grid.calm /\ (Lies(grid) <=> Lies(h1))
  <2>1. /\ Sound(h1) /\ ~h1.needDown /\ h1.needUp /\ h1.all = grid.all /\ h1.base = grid.base /\ h1.top = grid.top
        /\ h1.filter = grid.filter /\ h1.calm = grid.calm
    BY <1>2, <1>4 DEF Behind
  <2>2. Edge(h1) = Edge(grid)
    BY <2>1 DEF Edge
  <2>3. \A i : Holds(h1, i) <=> Holds(grid, i)
    BY <2>1, <2>2 DEF Holds
  <2> QED BY <2>1, <2>2, <2>3 DEF InView, Lies
<1>6. CASE LastPage \/ BackfillDone(h1)
  <2>1. /\ Served(h2, None) /\ \A i \in InView(h1) : Holds(h2, i)
        /\ h1.buf = <<>> => h2.all = h1.all
        /\ Rolls(h2, h1) /\ h2.calm = h1.calm /\ h2.filter = h1.filter
    BY <1>4, <1>5, RefilledIs, SettleUpIs
  <2>2. Render(h2, None) /\ mirror' = IF h1.buf = <<>> THEN mirror ELSE Real(h2.all)
    BY <1>1, <1>6
  <2> HIDE DEF h2
  <2>3. Served(grid', wire') /\ grid'.all = h2.all /\ grid'.base = h2.base
    BY <2>1, <2>2, RenderIs
  <2>4. \A i : Holds(h2, i) => Holds(grid', i)
    BY <2>3 DEF Holds, Edge
  <2>5. Displays /\ grid'.filter = h2.filter /\ grid'.calm = h2.calm /\ (Lies(h2) => grid'.top = h2.top)
    BY <2>1, <2>2, RenderShows
  <2>6. Rolls(grid', grid)
    <3> SUFFICES ASSUME Lies(grid) PROVE Rolls(grid', grid)
      BY DEF Rolls
    <3>1. Lies(h2) /\ h2.top = Most(0, h1.top - Most(0, h2.base - h1.base)) /\ ~h2.filter
      BY <1>5, <2>1 DEF Rolls, Lies
    <3>2. Lies(grid')
      BY <2>5, <3>1 DEF Displays
    <3> QED BY <1>5, <2>3, <2>5, <3>1, <3>2 DEF Rolls
  <2> QED BY <1>5, <2>1, <2>2, <2>3, <2>4, <2>5, <2>6
<1>7. CASE ~(LastPage \/ BackfillDone(h1))
  <2> DEFINE w == Advance
  <2>1. Served(h1, w)
    BY <1>3, <1>4, <1>5 DEF Served
  <2>2. Render(h1, w) /\ mirror' = mirror
    BY <1>1, <1>7
  <2> HIDE DEF w
  <2>3. Served(grid', wire') /\ grid'.all = h1.all /\ grid'.base = h1.base
    BY <2>1, <2>2, RenderIs
  <2>4. \A i : Holds(grid, i) => Holds(grid', i)
    BY <1>5, <2>3 DEF Holds, Edge
  <2>5. \A i \in InView(grid) : Holds(grid, i)
    BY DEF InView
  <2>6. Displays /\ grid'.filter = h1.filter /\ grid'.calm = h1.calm /\ (Lies(h1) => grid'.top = h1.top)
    BY <2>1, <2>2, RenderShows
  <2>7. Rolls(grid', grid)
    <3>1. grid.top \in Nat /\ grid.base \in Nat /\ grid'.base \in Nat /\ grid'.base <= grid.base
      BY <1>2, <1>5, <2>3, GridFacts
    <3>2. Lies(grid) => Lies(grid') /\ grid'.top = grid.top
      BY <1>5, <2>6 DEF Displays, Lies
    <3> QED BY <3>1, <3>2, RollsNot
  <2> QED BY <1>5, <2>2, <2>3, <2>4, <2>5, <2>6, <2>7
<1> QED BY <1>6, <1>7

LEMMA UpFailsIs ==
    ASSUME Served(grid, wire), UpFails
    PROVE  /\ Served(grid', wire') /\ \A i \in InView(grid) : Holds(grid', i)
           /\ Rolls(grid', grid) /\ Displays
<1> DEFINE h == SettleUp(grid)
<1>1. wire.dir = "up" /\ Render(h, None)
  BY DEF UpFails
<1>2. Sound(grid) /\ ~grid.needDown /\ Buffers(grid)
  BY <1>1 DEF Served
<1>3. /\ Served(h, None) /\ \A i \in InView(grid) : Holds(h, i)
      /\ Rolls(h, grid) /\ h.filter = grid.filter
  BY <1>2, RefilledIs, SettleUpIs
<1> HIDE DEF h
<1>4. Served(grid', wire') /\ grid'.all = h.all /\ grid'.base = h.base
  BY <1>1, <1>3, RenderIs
<1>5. \A i : Holds(h, i) => Holds(grid', i)
  BY <1>4 DEF Holds, Edge
<1>6. Displays /\ grid'.filter = h.filter /\ (Lies(h) => grid'.top = h.top)
  BY <1>1, <1>3, RenderShows
<1>7. Rolls(grid', grid)
  <2> SUFFICES ASSUME Lies(grid) PROVE Rolls(grid', grid)
    BY DEF Rolls
  <2>1. Lies(h) /\ h.top = Most(0, grid.top - Most(0, h.base - grid.base)) /\ ~h.filter
    BY <1>3 DEF Rolls, Lies
  <2>2. Lies(grid')
    BY <1>6, <2>1 DEF Displays
  <2> QED BY <1>4, <1>6, <2>1, <2>2 DEF Rolls
<1> QED BY <1>3, <1>4, <1>5, <1>6, <1>7

(* What the user does moves the view, and no slot.                          *)
Turned(k, h) ==
    /\ k \in Grids /\ k.all = h.all /\ k.base = h.base /\ k.tops = h.tops /\ k.buf = h.buf
    /\ k.start = h.start /\ k.needDown = h.needDown /\ k.needUp = h.needUp /\ k.calm = h.calm

LEMMA TurnedIs ==
    ASSUME NEW h, NEW w, Served(h, w), NEW k, Turned(k, h)
    PROVE  Served(k, w)
  BY DEF Turned, Served, Sound, Buffers, Edge

LEMMA ScrollIs ==
    ASSUME Served(grid, wire), NEW t \in 0..(Extent(grid) - Screen), Scroll(t)
    PROVE  /\ Served(grid', wire') /\ grid'.all = grid.all /\ grid'.base = grid.base
           /\ Displays /\ (grid'.calm => grid.calm)
<1> DEFINE k == [grid EXCEPT !.top = t]
<1>1. Render(k, wire)
  BY DEF Scroll
<1>2. t \in Nat
  <2>1. Extent(grid) \in Nat
    BY GridFacts DEF Extent, Served
  <2> QED BY <2>1, Constants
<1>3. grid \in Grids
  BY DEF Served, Sound
<1>4. Turned(k, grid)
  BY <1>2, <1>3 DEF Turned, Grids
<1>5. Served(k, wire) /\ k.all = grid.all /\ k.base = grid.base /\ k.calm = grid.calm
  BY <1>4, TurnedIs DEF Turned
<1> HIDE DEF k
<1> QED BY <1>1, <1>5, RenderIs, RenderShows

LEMMA FilterIs ==
    ASSUME Served(grid, wire), SetFilter \/ Apply
    PROVE  /\ Served(grid', wire') /\ grid'.all = grid.all /\ grid'.base = grid.base
           /\ Displays /\ (grid'.calm => grid.calm) /\ (Apply => Rolls(grid', grid))
<1>1. grid \in Grids
  BY DEF Served, Sound
<1>2. ASSUME NEW h, Turned(h, grid), Render([h EXCEPT !.rows = Filtered(h)], wire)
      PROVE  /\ Served(grid', wire') /\ grid'.all = grid.all /\ grid'.base = grid.base
             /\ Displays /\ grid'.calm = grid.calm
             /\ h.top = grid.top /\ h.filter = grid.filter => Rolls(grid', grid)
  <2> DEFINE r == Filtered(h)
             k == [h EXCEPT !.rows = r]
  <2>1. r \in Seq(1..Rows)
    <3>1. h.all \in Seq(0..Rows)
      BY <1>2 DEF Turned, Grids
    <3> QED BY <3>1, FilteredType
  <2> HIDE DEF r
  <2>2. Turned(k, grid) /\ k.top = h.top /\ k.filter = h.filter
    BY <1>2, <2>1 DEF Turned, Grids
  <2>3. Served(k, wire) /\ k.all = grid.all /\ k.base = grid.base /\ k.calm = grid.calm
    BY <2>2, TurnedIs DEF Turned
  <2>4. Render(k, wire)
    BY <1>2 DEF r
  <2> HIDE DEF k
  <2>5. Served(grid', wire') /\ grid'.all = grid.all /\ grid'.base = grid.base
    BY <2>3, <2>4, RenderIs
  <2>6. Displays /\ grid'.filter = k.filter /\ grid'.calm = k.calm /\ (Lies(k) => grid'.top = k.top)
    BY <2>3, <2>4, RenderShows
  <2>7. ASSUME h.top = grid.top, h.filter = grid.filter PROVE Rolls(grid', grid)
    <3>1. grid.top \in Nat /\ grid.base \in Nat /\ grid'.base \in Nat /\ grid'.base <= grid.base
      BY <2>5, GridFacts DEF Served
    <3>2. Lies(grid) => Lies(k) /\ ~k.filter
      BY <2>2, <2>3, <2>7 DEF Lies, Edge
    <3>3. Lies(grid) => Lies(grid') /\ grid'.top = grid.top
      BY <2>2, <2>6, <2>7, <3>2 DEF Displays
    <3> QED BY <3>1, <3>3, RollsNot
  <2> QED BY <2>3, <2>5, <2>6, <2>7
<1>3. CASE SetFilter /\ ~Apply
  <2> DEFINE f == ~grid.filter
             u == TRUE
             h == [grid EXCEPT !.filter = f, !.grew = u]
  <2>1. f \in BOOLEAN /\ u \in BOOLEAN
    OBVIOUS
  <2>2. Render([h EXCEPT !.rows = Filtered(h)], wire)
    BY <1>1, <1>3 DEF SetFilter
  <2> HIDE DEF f, u
  <2>3. Turned(h, grid)
    BY <1>1, <2>1 DEF Turned, Grids
  <2> HIDE DEF h
  <2> QED BY <1>2, <1>3, <2>2, <2>3
<1>4. CASE Apply
  <2> DEFINE f == FALSE
             h == [grid EXCEPT !.dirty = f]
  <2>1. f \in BOOLEAN
    OBVIOUS
  <2>2. Render([h EXCEPT !.rows = Filtered(h)], wire)
    BY <1>4 DEF Apply
  <2> HIDE DEF f
  <2>3. Turned(h, grid) /\ h.top = grid.top /\ h.filter = grid.filter
    BY <1>1, <2>1 DEF Turned, Grids
  <2> HIDE DEF h
  <2> QED BY <1>2, <2>2, <2>3
<1> QED BY <1>3, <1>4

LEMMA CalmIs ==
    ASSUME Served(grid, wire), Calm
    PROVE  /\ Served(grid', wire') /\ grid'.all = grid.all /\ grid'.base = grid.base
           /\ grid'.top = grid.top /\ grid'.filter = grid.filter /\ (Lies(grid) => Lies(grid'))
<1> DEFINE f == FALSE
           k == [grid EXCEPT !.calm = f]
<1>1. f \in BOOLEAN /\ grid \in Grids
  BY DEF Served, Sound
<1>2. grid' = k /\ wire' = wire
  BY DEF Calm
<1> HIDE DEF f
<1>3. /\ k \in Grids /\ k.all = grid.all /\ k.base = grid.base /\ k.tops = grid.tops /\ k.buf = grid.buf
      /\ k.start = grid.start /\ k.needDown = grid.needDown /\ k.needUp = grid.needUp
      /\ k.top = grid.top /\ k.filter = grid.filter
  BY <1>1 DEF Grids
<1> HIDE DEF k
<1>4. Served(k, wire) /\ (Lies(grid) => Lies(k))
  BY <1>3 DEF Served, Sound, Buffers, Edge, Lies
<1> QED BY <1>2, <1>3, <1>4

LEMMA OpensServed ==
    ASSUME GridInit
    PROVE  Served(grid, wire) /\ faults \in Nat /\ mirror = Real(grid.all)
<1> DEFINE s == <<[after |-> 0, index |-> 0]>>
           e == BeginStream
<1>1. grid = e /\ wire = Wire("down", 0, None) /\ mirror = <<>> /\ faults = 0
  BY DEF GridInit
<1>2. s \in Seq(Checkpoints) /\ Anchored(s)
  BY Constants DEF Checkpoints, Anchored, ListingHead
<1>3. <<>> \in Seq(0..Rows) /\ <<>> \in Seq(1..Rows) /\ FirstStep \in Int /\ Unknown \in Int
      /\ TRUE \in BOOLEAN /\ FALSE \in BOOLEAN
  BY Constants DEF Unknown
<1>4. /\ e \in Grids /\ e.tops = s /\ e.needDown = TRUE /\ e.needUp = FALSE /\ e.buf = <<>> /\ e.all = <<>>
  <2> DEFINE no == FALSE
             yes == TRUE
             nil == <<>>
  <2>1. /\ no \in BOOLEAN /\ yes \in BOOLEAN /\ nil \in Seq(0..Rows) /\ nil \in Seq(1..Rows)
    BY <1>3
  <2>2. e = [all |-> nil, base |-> 0, rows |-> nil, top |-> 0,
     tops |-> s, target |-> FirstStep, from |-> 0,
     needDown |-> yes, needUp |-> no, done |-> no, universe |-> Unknown,
     buf |-> nil, start |-> 0, head |-> no, hit |-> no, scanned |-> 0,
     grew |-> yes, calm |-> no, filter |-> no, dirty |-> no]
    BY DEF BeginStream
  <2> HIDE DEF e, s
  <2>3. nil = <<>> /\ no = FALSE /\ yes = TRUE
    OBVIOUS
  <2> HIDE DEF no, yes, nil
  <2>4. e \in Grids
    BY <1>2, <1>3, <2>1, <2>2 DEF Grids
  <2>5. e.tops = s /\ e.needDown = yes /\ e.needUp = no /\ e.buf = nil /\ e.all = nil
    BY <2>2
  <2> QED BY <2>3, <2>4, <2>5
<1> HIDE DEF e, s
<1>5. Buffers(e)
  BY <1>4, EmptyBuffers
<1>6. wire \in Wires /\ wire.dir = "down"
  BY <1>1 DEF Wires, Wire
<1>7. Served(grid, wire)
  BY <1>1, <1>2, <1>4, <1>5, <1>6 DEF Served, Sound
<1>8. Real(grid.all) = <<>>
  BY <1>1, <1>4, KeptEmpty DEF Real
<1> QED BY <1>1, <1>7, <1>8

(* The invariant of the window, and what a step does to the slots.          *)
WindowInv == Served(grid, wire) /\ faults \in Nat

LEMMA WindowStep ==
    ASSUME WindowInv, [GridNext]_gridVars
    PROVE  WindowInv'
<1>1. Served(grid, wire) /\ faults \in Nat
  BY DEF WindowInv
<1>2. CASE DownPage
  BY <1>1, <1>2, DownPageIs DEF WindowInv, DownPage
<1>3. CASE DownFails
  BY <1>1, <1>3, DownFailsIs DEF WindowInv, DownFails
<1>4. CASE UpPage
  BY <1>1, <1>4, UpPageIs DEF WindowInv, UpPage
<1>5. CASE UpFails
  BY <1>1, <1>5, UpFailsIs DEF WindowInv, UpFails
<1>6. ASSUME NEW t \in 0..(Extent(grid) - Screen), Scroll(t)
      PROVE  WindowInv'
  BY <1>1, <1>6, ScrollIs DEF WindowInv, Scroll
<1>7. CASE SetFilter \/ Apply
  BY <1>1, <1>7, FilterIs DEF WindowInv, SetFilter, Apply
<1>8. CASE Calm
  BY <1>1, <1>8, CalmIs DEF WindowInv, Calm
<1>9. CASE UNCHANGED gridVars
  BY <1>1, <1>9 DEF WindowInv, gridVars
<1> QED BY <1>2, <1>3, <1>4, <1>5, <1>6, <1>7, <1>8, <1>9 DEF GridNext

LEMMA WindowSafe == GridSpec => []WindowInv
<1>1. GridInit => WindowInv
  BY OpensServed DEF WindowInv
<1> QED BY <1>1, WindowStep, PTL DEF GridSpec

(* A demand is in flight exactly while a wire feeds it, whatever fails.      *)
THEOREM NoDemandDangles == GridSpec => []NoDangling
<1>1. WindowInv => NoDangling
  <2> SUFFICES ASSUME WindowInv PROVE NoDangling
    OBVIOUS
  <2>1. /\ wire \in Wires /\ (grid.needDown <=> wire.dir = "down") /\ (grid.needUp <=> wire.dir = "up")
    BY DEF WindowInv, Served
  <2>2. wire = None <=> (wire.dir # "down" /\ wire.dir # "up")
    BY <2>1, WireFacts
  <2> QED BY <2>1, <2>2 DEF NoDangling
<1> QED BY <1>1, WindowSafe, PTL

(* The window stays well formed and its ring of checkpoints bounded, and     *)
(* however it is thinned out it keeps the head of the listing, from which a *)
(* refill can always start (frontend/js/grid.js: pushTop).                  *)
THEOREM RingKeepsTheHead == GridSpec => []GridTypeOK
<1>1. WindowInv => GridTypeOK
  <2> SUFFICES ASSUME WindowInv PROVE GridTypeOK
    OBVIOUS
  <2>1. Sound(grid) /\ wire \in Wires
    BY DEF WindowInv, Served
  <2>2. /\ grid.all \in Seq(0..Rows) /\ grid.rows \in Seq(1..Rows) /\ grid.buf \in Seq(1..Rows)
        /\ grid.base \in Nat /\ grid.top \in Nat /\ grid.tops \in Seq(Checkpoints)
    BY <2>1 DEF Sound, Grids
  <2>3. Len(grid.tops) <= Ring /\ Head(grid.tops) = [after |-> 0, index |-> 0]
    BY <2>1, <2>2 DEF Sound, Anchored, ListingHead
  <2>4. wire.dir \in {"none", "down", "up"}
    BY <2>1 DEF Wires, None
  <2> QED BY <2>2, <2>3, <2>4 DEF GridTypeOK
<1> QED BY <1>1, WindowSafe, PTL

(* Without a failure the host's rows are the grid's, if a page is no more    *)
(* than the window holds: a trim at the head then cuts only rows the mirror  *)
(* has, never rows of the page it has not taken yet.                        *)
THEOREM HostMirrorsGrid ==
    ASSUME PageSize <= MaxHeld
    PROVE  GridSpec => []MirrorIsGrid
<1>1. GridInit => MirrorIsGrid
  BY OpensServed DEF MirrorIsGrid
<1>2. WindowInv /\ MirrorIsGrid /\ [GridNext]_gridVars => MirrorIsGrid'
  <2> SUFFICES ASSUME WindowInv, MirrorIsGrid, [GridNext]_gridVars, faults' = 0
               PROVE  mirror' = Real(grid'.all)
    BY DEF MirrorIsGrid
  <2>1. Served(grid, wire) /\ faults \in Nat
    BY DEF WindowInv
  <2>2. ASSUME faults' = faults PROVE mirror = Real(grid.all)
    BY <2>2 DEF MirrorIsGrid
  <2>3. CASE DownPage
    <3>1. mirror = Real(grid.all)
      BY <2>2, <2>3 DEF DownPage
    <3> QED BY <2>1, <2>3, <3>1, DownPageIs
  <2>4. CASE UpPage
    <3>1. mirror = Real(grid.all)
      BY <2>2, <2>4 DEF UpPage
    <3> QED BY <2>1, <2>4, <3>1, UpPageIs
  <2>5. CASE DownFails \/ UpFails
    <3>1. faults' = faults + 1
      BY <2>5 DEF DownFails, UpFails
    <3> QED BY <2>1, <3>1
  <2>6. ASSUME grid'.all = grid.all, mirror' = mirror, faults' = faults
        PROVE  mirror' = Real(grid'.all)
    BY <2>2, <2>6
  <2>7. ASSUME NEW t \in 0..(Extent(grid) - Screen), Scroll(t)
        PROVE  mirror' = Real(grid'.all)
    BY <2>1, <2>6, <2>7, ScrollIs DEF Scroll
  <2>8. CASE SetFilter \/ Apply
    BY <2>1, <2>6, <2>8, FilterIs DEF SetFilter, Apply
  <2>9. CASE Calm
    BY <2>1, <2>6, <2>9, CalmIs DEF Calm
  <2>10. CASE UNCHANGED gridVars
    BY <2>6, <2>10 DEF gridVars
  <2> QED BY <2>3, <2>4, <2>5, <2>7, <2>8, <2>9, <2>10 DEF GridNext
<1> QED BY <1>1, <1>2, WindowSafe, PTL DEF GridSpec

(* What the viewport shows of the unfiltered listing no trim takes away.     *)
ViewHeld == ~grid.filter => \A i \in InView(grid) :
                /\ Holds(grid', i)
                /\ wire.dir # "up" => grid'.all[i - grid'.base] = grid.all[i - grid.base]

LEMMA ViewIsHeld ==
    ASSUME WindowInv, [GridNext]_gridVars
    PROVE  ViewHeld
<1> USE DEF ViewHeld
<1>1. Served(grid, wire)
  BY DEF WindowInv
<1>2. \A i \in InView(grid) : Holds(grid, i)
  BY DEF InView
<1>3. ASSUME grid'.all = grid.all, grid'.base = grid.base
      PROVE  ViewHeld
  <2>1. \A i : Holds(grid, i) => Holds(grid', i)
    BY <1>3 DEF Holds, Edge
  <2> QED BY <1>2, <1>3, <2>1
<1>4. CASE DownPage
  <2>1. ~grid.filter => \A i \in InView(grid) : SameRow(i)
    BY <1>1, <1>4, DownPageIs
  <2> QED BY <2>1 DEF SameRow
<1>5. CASE UpPage
  <2>1. wire.dir = "up" /\ \A i \in InView(grid) : Holds(grid', i)
    BY <1>1, <1>5, UpPageIs DEF UpPage
  <2> QED BY <2>1
<1>6. CASE UpFails
  <2>1. wire.dir = "up" /\ \A i \in InView(grid) : Holds(grid', i)
    BY <1>1, <1>6, UpFailsIs DEF UpFails
  <2> QED BY <2>1
<1>7. CASE DownFails
  <2>1. grid'.all = grid.all /\ grid'.base = grid.base
    BY <1>1, <1>7, DownFailsIs
  <2> QED BY <1>3, <2>1
<1>8. ASSUME NEW t \in 0..(Extent(grid) - Screen), Scroll(t)
      PROVE  ViewHeld
  <2>1. grid'.all = grid.all /\ grid'.base = grid.base
    BY <1>1, <1>8, ScrollIs
  <2> QED BY <1>3, <2>1
<1>9. CASE SetFilter \/ Apply
  <2>1. grid'.all = grid.all /\ grid'.base = grid.base
    BY <1>1, <1>9, FilterIs
  <2> QED BY <1>3, <2>1
<1>10. CASE Calm
  <2>1. grid'.all = grid.all /\ grid'.base = grid.base
    BY <1>1, <1>10, CalmIs
  <2> QED BY <1>3, <2>1
<1>11. CASE UNCHANGED gridVars
  BY <1>3, <1>11 DEF gridVars
<1> QED BY <1>4, <1>5, <1>6, <1>7, <1>8, <1>9, <1>10, <1>11 DEF GridNext

(* Where the view lies, and why a backoff runs.                             *)
LiesInv ==
    /\ WindowInv /\ turns \in Nat
    /\ ~grid.filter => Lies(grid)
    /\ grid.calm => faults > 0

(* A step of the fetches moves the view by what it trims at the head; where  *)
(* that shows a slot that is owed, it is asked for or a fetch has failed.    *)
ViewRolls ==
    ~grid.filter =>
        /\ grid'.top = Most(0, grid.top - Most(0, grid'.base - grid.base))
        /\ faults' = 0 /\ ~Sees(grid') => wire' # None

LEMMA ViewStepIs ==
    ASSUME LiesInv, [GridNext]_gridVars
    PROVE  LiesInv' /\ (turns' = turns => ViewRolls \/ UNCHANGED gridVars)
<1>1. /\ Served(grid, wire) /\ faults \in Nat /\ WindowInv' /\ (grid.calm => faults > 0)
      /\ ~grid.filter => Lies(grid)
      /\ turns \in Nat
  BY WindowStep DEF LiesInv, WindowInv
<1>2. ASSUME Displays, grid'.calm => faults' > 0, turns' \in {turns, turns + 1}
      PROVE  LiesInv'
  <2>1. turns' \in Nat
    BY <1>1, <1>2
  <2> QED BY <1>1, <1>2, <2>1 DEF LiesInv, Displays
<1>3. ASSUME Displays, Rolls(grid', grid), grid'.calm => faults' > 0
      PROVE  ViewRolls
  <2> SUFFICES ASSUME ~grid.filter PROVE ViewRolls
    BY DEF ViewRolls
  <2>1. Lies(grid') /\ grid'.top = Most(0, grid.top - Most(0, grid'.base - grid.base))
    BY <1>1, <1>3 DEF Rolls
  <2>2. ASSUME faults' = 0, wire' = None PROVE Sees(grid')
    <3>1. ~grid'.calm
      BY <1>3, <2>2
    <3> QED BY <1>3, <2>1, <2>2, <3>1 DEF Displays, Lies
  <2> QED BY <2>1, <2>2 DEF ViewRolls
<1>4. CASE DownPage
  <2>1. /\ Displays /\ Rolls(grid', grid) /\ (grid'.calm => grid.calm)
        /\ faults' = faults /\ turns' = turns
    BY <1>1, <1>4, DownPageIs DEF DownPage
  <2> QED BY <1>1, <1>2, <1>3, <2>1
<1>5. CASE DownFails
  <2>1. Displays /\ Rolls(grid', grid) /\ faults' = faults + 1 /\ turns' = turns
    BY <1>1, <1>5, DownFailsIs DEF DownFails
  <2>2. faults' > 0
    BY <1>1, <2>1
  <2> QED BY <1>2, <1>3, <2>1, <2>2
<1>6. CASE UpPage
  <2>1. /\ Displays /\ Rolls(grid', grid) /\ (grid'.calm => grid.calm)
        /\ faults' = faults /\ turns' = turns
    BY <1>1, <1>6, UpPageIs DEF UpPage
  <2> QED BY <1>1, <1>2, <1>3, <2>1
<1>7. CASE UpFails
  <2>1. Displays /\ Rolls(grid', grid) /\ faults' = faults + 1 /\ turns' = turns
    BY <1>1, <1>7, UpFailsIs DEF UpFails
  <2>2. faults' > 0
    BY <1>1, <2>1
  <2> QED BY <1>2, <1>3, <2>1, <2>2
<1>8. ASSUME Displays, grid'.calm => grid.calm, faults' = faults, turns' = turns + 1
      PROVE  LiesInv' /\ turns' # turns
  <2>1. turns' # turns
    BY <1>1, <1>8
  <2> QED BY <1>1, <1>2, <1>8, <2>1
<1>9. ASSUME NEW t \in 0..(Extent(grid) - Screen), Scroll(t)
      PROVE  LiesInv' /\ turns' # turns
  <2>1. Displays /\ (grid'.calm => grid.calm) /\ faults' = faults /\ turns' = turns + 1
    BY <1>1, <1>9, ScrollIs DEF Scroll
  <2> QED BY <1>8, <2>1
<1>10. CASE SetFilter
  <2>1. Displays /\ (grid'.calm => grid.calm) /\ faults' = faults /\ turns' = turns + 1
    BY <1>1, <1>10, FilterIs DEF SetFilter
  <2> QED BY <1>8, <2>1
<1>11. CASE Apply
  <2>1. /\ Displays /\ Rolls(grid', grid) /\ (grid'.calm => grid.calm)
        /\ faults' = faults /\ turns' = turns
    BY <1>1, <1>11, FilterIs DEF Apply
  <2> QED BY <1>1, <1>2, <1>3, <2>1
<1>12. CASE Calm
  <2>1. /\ grid'.top = grid.top /\ grid'.base = grid.base /\ grid'.filter = grid.filter
        /\ Lies(grid) => Lies(grid')
        /\ faults' = faults /\ turns' = turns /\ grid.calm
    BY <1>1, <1>12, CalmIs DEF Calm
  <2>2. faults' > 0 /\ faults' # 0
    BY <1>1, <2>1
  <2>3. LiesInv'
    BY <1>1, <2>1, <2>2 DEF LiesInv
  <2>4. Rolls(grid', grid)
    <3>1. grid.top \in Nat /\ grid.base \in Nat /\ grid'.base \in Nat /\ grid'.base <= grid.base
      BY <1>1, <2>1, GridFacts DEF Served
    <3> QED BY <2>1, <3>1, RollsNot
  <2>5. ViewRolls
    BY <1>1, <2>2, <2>4 DEF ViewRolls, Rolls
  <2> QED BY <2>3, <2>5
<1>13. CASE UNCHANGED gridVars
  <2>1. LiesInv'
    BY <1>1, <1>13 DEF LiesInv, gridVars
  <2> QED BY <1>13, <2>1
<1> QED BY <1>4, <1>5, <1>6, <1>7, <1>9, <1>10, <1>11, <1>12, <1>13 DEF GridNext

(* While the user neither scrolls nor filters, what the viewport shows of    *)
(* the listing stays held, and the viewport lies where it did less what a    *)
(* trim cuts at the head, whatever arrives and fails (trimTop, trimBottom,  *)
(* settleUp); there, until a fetch fails, what is owed is demanded          *)
(* (checkNeed).                                                             *)
THEOREM ViewMoves == GridSpec => ViewMovesByTheCut
<1>1. GridInit => LiesInv
  <2> SUFFICES ASSUME GridInit PROVE LiesInv
    OBVIOUS
  <2>1. /\ Served(grid, wire) /\ faults \in Nat /\ turns \in Nat
        /\ grid.top = 0 /\ ~grid.calm
    BY OpensServed DEF GridInit, BeginStream
  <2> DEFINE e == Edge(grid) - Screen
  <2>2. e \in Int
    <3>1. Edge(grid) \in Nat
      BY <2>1, GridFacts DEF Served
    <3> DEFINE x == Edge(grid)
    <3> HIDE DEF x
    <3>2. x - Screen \in Int
      BY <3>1, Constants DEF x
    <3> QED BY <3>2 DEF x
  <2> HIDE DEF e
  <2>3. 0 <= Most(0, e)
    BY <2>2, MostIs
  <2>4. ~grid.filter => Lies(grid)
    BY <2>1, <2>3 DEF Lies, e
  <2> QED BY <2>1, <2>4 DEF LiesInv, WindowInv
<1>2. LiesInv /\ [GridNext]_gridVars =>
        [~grid.filter /\ turns' = turns =>
            /\ \A i \in InView(grid) :
                  /\ Holds(grid', i)
                  /\ wire.dir # "up" => grid'.all[i - grid'.base] = grid.all[i - grid.base]
            /\ grid'.top = Most(0, grid.top - HeadCut)
            /\ faults' = 0 /\ ~Sees(grid') => wire' # None]_gridVars
  BY ViewIsHeld, ViewStepIs DEF LiesInv, ViewHeld, ViewRolls, HeadCut
<1>3. LiesInv /\ [GridNext]_gridVars => LiesInv'
  BY ViewStepIs
<1> QED BY <1>1, <1>2, <1>3, PTL DEF GridSpec, ViewMovesByTheCut
=============================================================================
