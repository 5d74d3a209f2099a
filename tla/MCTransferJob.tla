----------------------------- MODULE MCTransferJob -----------------------------
(* Three files in two items: a folder of two files and a single file.      *)
EXTENDS TransferJob
CONSTANTS folder, single
MCItemOf == <<folder, folder, single>>

\* Every item has a row of its own ...
MCOwnRows == [i \in Items |-> i]
\* ... or both are local paths of a cross-source transfer.
MCOneRow == [i \in Items |-> folder]
==============================================================================
