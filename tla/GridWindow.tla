----------------------------- MODULE GridWindow -----------------------------
(***************************************************************************)
(* The sliding window of a big folder: the streaming session of the grid   *)
(* (frontend/js/grid.js) and the two wires the main view feeds it by       *)
(* (extendObjectStream and backfillObjectStream of frontend/js/main.js).   *)
(*                                                                         *)
(* The folder is a fixed listing of the rows 1..Rows, and a row is its own *)
(* key: "start after k" is "rows from k + 1 on".  A slot of the grid holds *)
(* a row, or the tombstone of a row the window owes.  The grid is one      *)
(* record, because every handler is one synchronous run of JavaScript: an  *)
(* action is one event (a page, a failure, a scroll, a timer, a filter)    *)
(* with the render and the demand that end it.                             *)
(***************************************************************************)
EXTENDS Integers, Sequences, SequencesExt, FiniteSetsExt

CONSTANTS
    Rows,      \* length of the listing
    PageSize,  \* rows of a listing page (listPageSize of pkg/api/stream.go)
    FirstStep, \* rows the first walk seats before it pauses (FIRST_STEP)
    WinStep,   \* rows one demand adds (WIN_STEP)
    MaxHeld,   \* slots past which the far edge is trimmed (MAX_HELD)
    Prefetch,  \* how near to an edge the viewport arms a fetch (PREFETCH_ROWS)
    Screen,    \* rows the viewport shows
    Ring,      \* checkpoints kept (192 in the code)
    Match,     \* rows that pass the filter
    MaxTurns,  \* scrolls and filter changes of the user
    MaxFaults  \* fetches that fail

ASSUME GridAssumption ==
    /\ {Rows, PageSize, FirstStep, WinStep, MaxHeld, Prefetch, Screen, Ring} \subseteq Nat \ {0}
    /\ {MaxTurns, MaxFaults} \subseteq Nat
    /\ Match \subseteq 1..Rows

Tombstone == 0
Unknown   == -1

VARIABLES
    grid,    \* the grid
    wire,    \* the listing stream that feeds it, or None
    odd,     \* whether listSeq, which counts the streams, is odd
    mirror,  \* currentEntries of the host
    turns,   \* scrolls and filter changes so far
    faults   \* failures so far

gridVars == <<grid, wire, odd, mirror, turns, faults>>

None == [dir |-> "none"]
Wire(dir, after, cp) == [dir |-> dir, next |-> after, cp |-> cp]

-----------------------------------------------------------------------------
(* Helpers *)

Least(a, b) == IF a < b THEN a ELSE b
Most(a, b)  == IF a > b THEN a ELSE b
Blanks(n)   == [i \in 1..n |-> Tombstone]
Edge(h)     == h.base + Len(h.all)

(* The elements of s that are in S, in their order (Array.filter), and its   *)
(* rows without the tombstones.                                             *)
Kept(s, S) ==
    LET f[n \in 0..Len(s)] ==
            IF n = 0 THEN <<>>
            ELSE IF s[n] \in S THEN Append(f[n - 1], s[n]) ELSE f[n - 1]
    IN  f[Len(s)]
Real(s) == Kept(s, 1..Rows)

(* The display rows: the held rows that pass the filter. *)
Filtered(h) == IF h.filter THEN Kept(h.all, Match) ELSE Real(h.all)

(* The key the next window starts after. *)
LastKey(h) == IF Real(h.all) = <<>> THEN 0 ELSE Max(Range(h.all))

(* The slots the canvas spans, and the scroll position it allows. *)
Extent(h)   == IF h.filter THEN Len(h.rows) ELSE Edge(h)
Clamp(h)    == [h EXCEPT !.top = Least(@, Most(0, Extent(h) - Screen))]

(* A start-after checkpoint; a full ring drops every other one of its older *)
(* half, never the first.                                                   *)
PushTop(h, after, index) ==
    LET n    == Len(h.tops)
        more == Append(h.tops, [after |-> after, index |-> index])
        half == (n + 1) \div 2
        out  == half \div 2          \* half, half - 2, ... down to 2 or 3
        thin == [j \in 1..(n + 1 - out) |->
                    more[IF j > half - out THEN j + out ELSE Most(1, 2 * j - 1 - (half % 2))]]
    IN  [h EXCEPT !.tops =
            IF h.tops[n].index = index THEN [@ EXCEPT ![n].after = after]
            ELSE IF n < Ring THEN more
            ELSE IF Len(thin) <= Ring THEN thin
            ELSE <<Head(thin)>> \o SubSeq(thin, Len(thin) - Ring + 2, Len(thin))]

(* The tightest checkpoint at or below a slot, the latest of equals. *)
TopBelow(h, index) ==
    LET low  == {i \in DOMAIN h.tops : h.tops[i].index <= index}
        high == Max({h.tops[i].index : i \in low})
    IN  h.tops[Max({i \in low : h.tops[i].index = high})]

-----------------------------------------------------------------------------
(* The far edge is trimmed past MaxHeld, never into the viewport, and the      *)
(* host's mirror follows.                                                   *)

\* mutant: the trim keeps no screen of headroom
TopCut_IntoView(h) == Most(0, Len(h.all) - MaxHeld)

TopCut(h) ==
    LET safe == IF h.filter THEN Most(0, h.top - 2)
                ELSE Most(0, h.top - Screen - h.base)
    IN  Most(0, Least(Len(h.all) - MaxHeld, safe))

TrimTop(h) ==
    LET cut  == TopCut(h)
        gone == SubSeq(h.all, 1, cut)
        real == {i \in 1..cut : gone[i] # Tombstone}
        h1   == IF real = {} THEN h
                ELSE PushTop(h, gone[Max(real)], h.base + Max(real))
        back == IF h.filter THEN Len(Kept(gone, Match)) ELSE cut
    IN  IF cut = 0 THEN h
        ELSE [h1 EXCEPT !.all = SubSeq(@, cut + 1, Len(@)),
                        !.base = @ + cut,
                        !.rows = Kept(@, (1..Rows) \ Range(gone)),
                        !.top = Most(0, @ - back)]

BottomCut(h) ==
    LET safe == Most(0, Len(h.all) - (h.top + Screen - h.base) - Screen)
    IN  Most(0, Least(Len(h.all) - MaxHeld, safe))

TrimBottom(h) ==
    LET keep == Len(h.all) - BottomCut(h)
        gone == SubSeq(h.all, keep + 1, Len(h.all))
    IN  [h EXCEPT !.all = SubSeq(@, 1, keep),
                  !.rows = Kept(@, (1..Rows) \ Range(gone))]

-----------------------------------------------------------------------------
(* Rows that arrive from below.  A band of tombstones at the end is filled  *)
(* before anything is added past it.                                        *)

AppendRows(h, new) ==
    LET n     == Len(h.all)
        trail == CHOOSE b \in 0..Least(n, Len(new)) :
                    /\ \A i \in (n - b + 1)..n : h.all[i] = Tombstone
                    /\ b = Least(n, Len(new)) \/ h.all[n - b] # Tombstone
        h1    == [h EXCEPT !.all = SubSeq(@, 1, n - trail) \o new]
    IN  IF new = <<>> THEN h
        ELSE IF h.filter THEN [h1 EXCEPT !.dirty = TRUE]
        ELSE Clamp([h1 EXCEPT !.rows = @ \o new])

(* What a page may still add to the current fetch. *)
Accepted(h, page) == SubSeq(page, 1, Most(0, Least(Len(page), h.target - Edge(h))))

AppendStreamRows(h, page) ==
    LET acc == Accepted(h, page)
        h1  == AppendRows(h, acc)
    IN  IF acc = <<>> THEN h ELSE TrimTop(PushTop(h1, LastKey(h1), Edge(h1)))

WindowFull(h) == Edge(h) >= h.target

\* mutant: an error settles nothing
SettleDown_Dangles(h, done, error) ==
    IF error THEN [h EXCEPT !.calm = TRUE] ELSE [h EXCEPT !.needDown = FALSE, !.done = @ \/ done, !.rows = Filtered(h)]

(* The end of a downward fetch: paused, failed or at the listing's end. *)
SettleDown(h, done, error) ==
    LET h1 == [h EXCEPT !.needDown = FALSE,
                        !.calm = error,
                        !.grew = ~h.filter \/ Len(h.rows) > h.from,
                        !.done = @ \/ done,
                        !.universe = IF done THEN Edge(h) ELSE @]
    IN  Clamp([h1 EXCEPT !.rows = Filtered(h1)])

-----------------------------------------------------------------------------
(* Rows that arrive from above: each is seated in the slot the checkpoint   *)
(* gives it, where the grid has none.                                       *)

HeldSlot(h, rel) == rel \in 0..(Len(h.all) - 1) /\ h.all[rel + 1] # Tombstone

AppendBackRows(h, page, cp, done) ==
    LET rel(k)   == cp.index + k - 1 - h.base
        Seated(k) == HeldSlot(h, rel(k))
        pass     == Max({p \in 0..Len(page) : \A k \in 1..p : Seated(k)})
        tired    == pass > 0 /\ h.scanned + pass >= FirstStep
        room     == WinStep - Len(h.buf)
        run      == IF tired THEN 0
                    ELSE Max({r \in 0..Least(room, Len(page) - pass) :
                                \A k \in (pass + 1)..(pass + r) :
                                    ~Seated(k) /\ rel(k) < Len(h.all)})
        met      == run < room /\ pass + run < Len(page)
        h1       == [h EXCEPT !.head = @ \/ done,
                              !.scanned = @ + pass,
                              !.hit = @ \/ tired \/ met,
                              !.start = IF h.buf = <<>> /\ run > 0 THEN cp.index + pass ELSE @,
                              !.buf = @ \o SubSeq(page, pass + 1, pass + run)]
    IN  IF page = <<>> THEN h1
        ELSE PushTop(h1, Last(page), cp.index + Len(page))

BackfillDone(h) == h.head \/ h.hit \/ Len(h.buf) >= WinStep

(* The buffered rows land at once: before the held ones, the span between   *)
(* as tombstones, or in the band they were asked for.                       *)
SeatBuffer(h) ==
    LET n    == Len(h.buf)
        hi   == h.start + n
        rel  == h.start - h.base
        over == Most(0, hi - h.base)
        all1 == IF rel <= 0
                THEN h.buf \o Blanks(Most(0, h.base - hi)) \o SubSeq(h.all, over + 1, Len(h.all))
                ELSE SubSeq(h.all, 1, rel) \o h.buf \o SubSeq(h.all, rel + n + 1, Len(h.all))
        h1   == [h EXCEPT !.all = all1, !.base = IF rel <= 0 THEN h.start ELSE @, !.buf = <<>>]
    IN  IF n = 0 THEN h ELSE PushTop(h1, Last(h.buf), hi)

SettleUp(h) ==
    LET h1 == TrimBottom(SeatBuffer(h))
        h2 == IF h.buf = <<>> THEN h ELSE Clamp([h1 EXCEPT !.rows = Filtered(h1)])
    IN  [h2 EXCEPT !.needUp = FALSE, !.hit = FALSE, !.scanned = 0]

-----------------------------------------------------------------------------
(* The demand engine at the end of every render.                            *)

\* mutant: only the head of the window is looked at, never a band of tombstones
Miss_HeadOnly(h) == Most(0, h.top - Prefetch) < h.base

(* The viewport sees, or is near above, a slot the window owes. *)
Miss(h) ==
    LET from == Most(0, h.top - Prefetch) - h.base
        to   == Least(Len(h.all) - 1, h.top + Screen - h.base)
    IN  from < 0 \/ \E i \in from..to : h.all[i + 1] = Tombstone

AtEdge(h) ==
    IF h.filter
    THEN /\ ~(h.done /\ Len(h.rows) >= h.universe)
         /\ Len(h.rows) - (h.top + Screen) < Prefetch
         /\ h.grew
    ELSE /\ ~(h.done /\ Edge(h) >= h.universe)
         /\ h.top + Screen + Prefetch >= Edge(h)

FireDown(h) == [h EXCEPT !.needDown = TRUE, !.target = Edge(h) + WinStep, !.from = Len(h.rows)]
FireUp(h)   == [h EXCEPT !.needUp = TRUE, !.scanned = 0]

CheckNeed(h) ==
    IF h.needDown \/ h.needUp \/ h.calm THEN h
    ELSE IF ~h.filter /\ Miss(h) THEN FireUp(h)
    ELSE IF AtEdge(h) THEN FireDown(h)
    ELSE h

(* The grid after a render of h, and the wire a demand opens. *)
Render(h, w) ==
    LET h1   == CheckNeed(Clamp(h))
        up   == h1.needUp /\ ~h.needUp
        down == h1.needDown /\ ~h.needDown
        cp   == TopBelow(h1, h1.top)
    IN  /\ grid' = h1
        /\ wire' = IF up THEN Wire("up", cp.after, cp)
                   ELSE IF down THEN Wire("down", LastKey(h1), None) ELSE w
        /\ odd' = (odd # (up \/ down))

-----------------------------------------------------------------------------
(* beginStream of a folder that was just opened. *)
BeginStream ==
    [all |-> <<>>, base |-> 0, rows |-> <<>>, top |-> 0,
     tops |-> <<[after |-> 0, index |-> 0]>>, target |-> FirstStep, from |-> 0,
     needDown |-> TRUE, needUp |-> FALSE, done |-> FALSE, universe |-> Unknown,
     buf |-> <<>>, start |-> 0, head |-> FALSE, hit |-> FALSE, scanned |-> 0,
     grew |-> TRUE, calm |-> FALSE, filter |-> FALSE, dirty |-> FALSE]

GridInit ==
    /\ grid = BeginStream
    /\ wire = Wire("down", 0, None)
    /\ odd = TRUE
    /\ mirror = <<>>
    /\ turns = 0
    /\ faults = 0

(* The next page of the wire: full, or short and the last. *)
NextPage == [i \in 1..Least(PageSize, Rows - wire.next) |-> wire.next + i]
LastPage == Rows - wire.next < PageSize
Advance  == [wire EXCEPT !.next = @ + Len(NextPage)]

DownPage ==
    /\ wire.dir = "down"
    /\ \E acc \in {Accepted(grid, NextPage)}, h1 \in {AppendStreamRows(grid, NextPage)} :
       LET rest == IF LastPage THEN SubSeq(NextPage, Len(acc) + 1, Len(NextPage)) ELSE <<>>
           cut  == Len(Real(SubSeq(AppendRows(grid, acc).all, 1, h1.base - grid.base)))
       IN  /\ mirror' = SubSeq(mirror, cut + 1, Len(mirror)) \o acc \o rest
           /\ IF LastPage THEN Render(SettleDown(AppendRows(h1, rest), TRUE, FALSE), None)
              ELSE IF WindowFull(h1) THEN Render(SettleDown(h1, FALSE, FALSE), None)
              ELSE Render(h1, Advance)
    /\ UNCHANGED <<turns, faults>>

DownFails ==
    /\ wire.dir = "down" /\ faults < MaxFaults
    /\ faults' = faults + 1
    /\ Render(SettleDown(grid, FALSE, TRUE), None)
    /\ UNCHANGED <<mirror, turns>>

\* mutant: a refill is not handed to the host
UpPage_NoMirror ==
    /\ wire.dir = "up"
    /\ LET h1 == AppendBackRows(grid, NextPage, wire.cp, LastPage)
       IN  IF LastPage \/ BackfillDone(h1) THEN Render(SettleUp(h1), None) ELSE Render(h1, Advance)
    /\ UNCHANGED <<mirror, turns, faults>>

UpPage ==
    /\ wire.dir = "up"
    /\ \E h1 \in {AppendBackRows(grid, NextPage, wire.cp, LastPage)} :
       \E h2 \in {SettleUp(h1)} :
          IF LastPage \/ BackfillDone(h1)
          THEN /\ mirror' = IF h1.buf = <<>> THEN mirror ELSE Real(h2.all)
               /\ Render(h2, None)
          ELSE /\ UNCHANGED mirror
               /\ Render(h1, Advance)
    /\ UNCHANGED <<turns, faults>>

(* What was buffered before the failure lands, and the host is not told:    *)
(* its mirror only loses what the trim cuts.                                *)
UpFails ==
    /\ wire.dir = "up" /\ faults < MaxFaults
    /\ faults' = faults + 1
    /\ LET h   == SettleUp(grid)
           cut == Len(Real(SeatBuffer(grid).all)) - Len(Real(h.all))
       IN  /\ Render(h, None)
           /\ mirror' = SubSeq(mirror, 1, Len(mirror) - cut)
    /\ UNCHANGED turns

Scroll(t) ==
    /\ turns < MaxTurns /\ t # grid.top
    /\ turns' = turns + 1
    /\ Render([grid EXCEPT !.top = t], wire)
    /\ UNCHANGED <<mirror, faults>>

SetFilter ==
    /\ turns < MaxTurns
    /\ turns' = turns + 1
    /\ LET h == [grid EXCEPT !.filter = ~@, !.grew = TRUE]
       IN  Render([h EXCEPT !.rows = Filtered(h)], wire)
    /\ UNCHANGED <<mirror, faults>>

(* The coalesced apply of a filtered stream. *)
Apply ==
    /\ grid.dirty
    /\ LET h == [grid EXCEPT !.dirty = FALSE]
       IN  Render([h EXCEPT !.rows = Filtered(h)], wire)
    /\ UNCHANGED <<mirror, turns, faults>>

(* The backoff after a failure is over; only the next render tries again. *)
Calm ==
    /\ grid.calm
    /\ grid' = [grid EXCEPT !.calm = FALSE]
    /\ UNCHANGED <<wire, odd, mirror, turns, faults>>

GridNext ==
    \/ DownPage \/ DownFails \/ UpPage \/ UpFails
    \/ \E t \in 0..(Extent(grid) - Screen) : Scroll(t)
    \/ SetFilter \/ Apply \/ Calm

GridSpec == GridInit /\ [][GridNext]_gridVars

(* A stream that is open delivers, fails or is settled, and the timer of a   *)
(* filtered stream rings: the weak fairness of pages and of Apply, written   *)
(* without ENABLED (odd makes every reopened stream a step that is seen).    *)
GridFairSpec ==
    /\ GridSpec
    /\ []<>(wire = None) \/ []<><<TRUE>>_gridVars
    /\ []<>(~grid.dirty) \/ []<><<TRUE>>_gridVars

-----------------------------------------------------------------------------
(* The shape of the window; the ring of checkpoints stays bounded and never  *)
(* loses the head of the listing (pushTop), from which a refill can always   *)
(* start.                                                                   *)
GridTypeOK ==
    /\ grid.all \in Seq(0..Rows) /\ grid.rows \in Seq(1..Rows) /\ grid.buf \in Seq(1..Rows)
    /\ grid.base \in Nat /\ grid.top \in Nat
    /\ Len(grid.tops) <= Ring /\ Head(grid.tops) = [after |-> 0, index |-> 0]
    /\ wire.dir \in {"none", "down", "up"}

(* A demand is in flight exactly while a wire feeds it: every end of a      *)
(* stream settles its demand (settleDown, settleUp), and no demand is lost  *)
(* or left to starve the next one.                                          *)
NoDangling == (grid.needDown \/ grid.needUp) <=> wire # None

(* The host's rows (currentEntries of the main view, what a selection and    *)
(* the status bar are read from) are the grid's own, in order, however       *)
(* pages, trims at either end, refills, scrolls and filters fall, as long as *)
(* no fetch has failed: a failed refill hands over what it had unmirrored.   *)
MirrorIsGrid == faults = 0 => mirror = Real(grid.all)

(* A slot of the listing shows its own row or a tombstone: appendBackRows   *)
(* and settleUp seat every refilled row where it belongs.                   *)
TrueSlots == \A i \in DOMAIN grid.all : grid.all[i] \in {Tombstone, grid.base + i}

(* Row i of the listing is held, not owed; the held rows in the viewport;    *)
(* whether it shows nothing that is owed.                                   *)
Holds(h, i) == i \in (h.base + 1)..Edge(h) /\ h.all[i - h.base] # Tombstone
InView(h)   == {i \in (Most(h.top, h.base) + 1)..Least(h.top + Screen, Edge(h)) : Holds(h, i)}

Sees(h)     == \A i \in (h.top + 1)..Least(h.top + Screen, Edge(h)) :
                  i > h.base /\ h.all[i - h.base] # Tombstone

(* While the user neither scrolls nor filters, trims and refills never reach *)
(* into the viewport: where a row is seen it stays held, and only a refill   *)
(* may put another one there.  The viewport itself moves in one case: a trim *)
(* at the head takes it up by the slots it cuts (trimTop), though the canvas *)
(* begins at the head of the listing and no slot has moved.  Wherever it     *)
(* comes to lie, a slot that is owed there is asked for or awaited, as long  *)
(* as no fetch has failed (checkNeed).                                      *)
HeadCut == Most(0, grid'.base - grid.base)

ViewMovesByTheCut ==
    [][~grid.filter /\ turns' = turns =>
          /\ \A i \in InView(grid) :
                /\ Holds(grid', i)
                /\ wire.dir # "up" => grid'.all[i - grid'.base] = grid.all[i - grid.base]
          /\ grid'.top = Most(0, grid.top - HeadCut)
          /\ faults' = 0 /\ ~Sees(grid') => wire' # None]_gridVars

(* The count of rows a finished listing reports is the length of the folder, *)
(* though the window in memory is only part of it (settleDown).             *)
UniverseTrue == grid.universe \in {Unknown, Rows}

(* What the user scrolled to is shown: without a filter and without a       *)
(* failure the viewport does not stay on tombstones (checkNeed, fireDown).  *)
IsShown == []<>(grid.filter \/ faults > 0 \/ Sees(grid))
=============================================================================
