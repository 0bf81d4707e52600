---- MODULE MCScanners ----
(* Scanners with one record in each read request: one that EPICS writes to *)
(* and one that it only reads.                                             *)
EXTENDS Scanners, TLC

CONSTANTS r1, r2

MCrequestNum == (r1 :> 0) @@ (r2 :> 1)
====
