---- MODULE MCProcWrite ----
(* ProcWrite for TLC: records whose lengths agree may be exchanged. *)
EXTENDS ProcWrite, TLC

Symmetry == Permutations(Records \ Mismatched)
====
