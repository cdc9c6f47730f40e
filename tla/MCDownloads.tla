---------------------------- MODULE MCDownloads ----------------------------
(* Instances of Downloads: two downloads of one file; the process may be      *)
(* started with this file or another one.                                    *)
EXTENDS Downloads

CONSTANTS f1, f2, d1, d2

MCFileOf == [d \in {d1, d2} |-> f1]
=============================================================================
