------------------------------ MODULE MCSidebar ------------------------------
(* A remote source two folders deep and a bucket with one folder. *)
EXTENDS Sidebar
CONSTANTS src, dir, sub, bkt, pre
MCOrder  == <<src, dir, sub, bkt, pre>>
MCParent == [n \in {src, dir, sub, bkt, pre} |->
                CASE n = dir -> src [] n = sub -> dir [] n = pre -> bkt [] OTHER -> n]
==============================================================================
