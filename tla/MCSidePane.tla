----------------------------- MODULE MCSidePane -----------------------------
(* The workstation, a remote source, an S3 source of a whole account, and   *)
(* one that opens its bucket.                                               *)
EXTENDS SidePane

home    == Place("local", "", <<"h">>)
remote  == Place("r", "", <<>>)
account == Place("s", "", <<>>)
large   == Place("s", "b", <<>>)
scoped  == Place("a", "c", <<>>)

MCPlaces   == {home, remote, account, large, scoped}
MCBucketOf == [src \in {"s", "a"} |-> IF src = "a" THEN "c" ELSE NoBucket]
MCPagesOf  == [e \in MCPlaces |-> IF e = large THEN 3 ELSE 1]
MCHomeDir  == <<"h">>
==============================================================================
