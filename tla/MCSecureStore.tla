--------------------------- MODULE MCSecureStore ---------------------------
(* SecureStore for TLC: two hosts with a keyring and one without.          *)
EXTENDS SecureStore, TLC

CONSTANTS here, there, headless

MCProcs    == {here, there, headless}
MCRingless == {headless}

(* The hosts with a keyring, the names and the keys are alike.             *)
Alike == Permutations(MCProcs \ MCRingless) \cup Permutations(Names)
         \cup Permutations(Keys)
=============================================================================
