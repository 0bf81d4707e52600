-------------------------- MODULE MCRecordExchange --------------------------
(* Safety runs of RecordExchange: the values a client, or the PLC program, *)
(* can write are alike.                                                    *)
EXTENDS RecordExchange, TLC

Symmetry == Permutations(Values)
=============================================================================
