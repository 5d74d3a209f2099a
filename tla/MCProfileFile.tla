----------------------------- MODULE MCProfileFile -----------------------------
(* Two windows with one call each, and one window with two calls.          *)
EXTENDS ProfileFile, TLC
CONSTANTS c1, c2, w1, w2
MCOneEach == c1 :> w1 @@ c2 :> w2
MCTwoInOne == c1 :> w1 @@ c2 :> w1
==============================================================================
