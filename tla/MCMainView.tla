----------------------------- MODULE MCMainView -----------------------------
(* A source with a small folder, another with one that outgrows a window,   *)
(* and places that answer in one piece.                                     *)
EXTENDS MainView

P(kind, source, path) == [kind |-> kind, source |-> source, path |-> path]

small   == P("objects", "s1", <<"b">>)
large   == P("objects", "s2", <<"c">>)
buckets == P("buckets", "s1", <<>>)
remote  == P("remote", "r", <<>>)
local   == P("local", "", <<"root">>)

MCPlaces  == {small, large, buckets, local}
MCTwo     == {small, remote}
MCPagesOf == [loc \in MCPlaces \cup MCTwo |-> CASE loc = small -> 2 [] loc = large -> 4 [] OTHER -> 1]
==============================================================================
