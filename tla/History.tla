------------------------------- MODULE History -------------------------------
(***************************************************************************)
(* The Back and Forward stacks of the main view (frontend/js/state.js).    *)
(*                                                                         *)
(* A place is a record [kind, source, path].  A path is the sequence of    *)
(* its segments: the bucket first for "objects", the drive or root first   *)
(* for "local", nothing for the root of a "remote" source.  Spellings that *)
(* differ in slashes only are one place, which is what sameLoc makes them. *)
(***************************************************************************)
EXTENDS Integers, Sequences, SequencesExt

SameLoc(a, b) == a = b

(* One hop up; NoPlace above the top of a source. *)
NoPlace == [kind |-> "none"]

ParentOf(loc) ==
    CASE loc.kind = "buckets" -> NoPlace
      [] loc.kind = "objects" /\ Len(loc.path) = 1 ->
            [kind |-> "buckets", source |-> loc.source, path |-> <<>>]
      [] loc.kind = "local" /\ Len(loc.path) = 1 -> NoPlace
      [] loc.kind = "remote" /\ loc.path = <<>> -> NoPlace
      [] OTHER -> [loc EXCEPT !.path = Front(@)]

(* up is reached from loc by climbing: isAncestorLoc walks the chain of     *)
(* parents, at most one hop per segment of the path.                        *)
IsAncestorLoc(up, loc) ==
    LET chain[n \in 0..(Len(loc.path) + 1)] ==
            IF n = 0 \/ chain[n - 1] = NoPlace THEN (IF n = 0 THEN loc ELSE NoPlace)
            ELSE ParentOf(chain[n - 1])
    IN  \E n \in 1..(Len(loc.path) + 1) : chain[n] # NoPlace /\ SameLoc(chain[n], up)

Opened(loc) == [stack |-> <<>>, current |-> loc, forward |-> <<>>]

\* mutant: listing the place again pushes it
To_Again(nav, loc) ==
    [stack   |-> Append(nav.stack, nav.current),
     current |-> loc,
     forward |-> IF IsAncestorLoc(loc, nav.current) THEN Append(nav.forward, nav.current)
                 ELSE <<>>]

(* A new place.  The same place again is a refresh; a climb keeps Forward   *)
(* and puts the place left on it.                                           *)
To(nav, loc) ==
    IF SameLoc(loc, nav.current) THEN [nav EXCEPT !.current = loc]
    ELSE [stack   |-> Append(nav.stack, nav.current),
          current |-> loc,
          forward |-> IF IsAncestorLoc(loc, nav.current)
                      THEN Append(nav.forward, nav.current) ELSE <<>>]

Back(nav) ==
    [stack   |-> Front(nav.stack),
     current |-> Last(nav.stack),
     forward |-> Append(nav.forward, nav.current)]

ForwardGo(nav) ==
    [stack   |-> Append(nav.stack, nav.current),
     current |-> Last(nav.forward),
     forward |-> Front(nav.forward)]

(* No place of s is followed by itself. *)
NoRepeat(s) == \A i \in 1..(Len(s) - 1) : ~SameLoc(s[i], s[i + 1])
==============================================================================
