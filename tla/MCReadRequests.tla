--------------------------- MODULE MCReadRequests ---------------------------
(* ReadRequests with a small memory, and one symbol of another group that  *)
(* the sort may leave anywhere in the list.                                *)
EXTENDS ReadRequests

CONSTANTS MemorySize, Sizes

MCSymbols ==
  {s \in [group : {1}, offset : 0..MemorySize, size : Sizes] :
     SymbolEnd(s) <= MemorySize}
  \cup {[group |-> 2, offset |-> 1, size |-> 1]}
=============================================================================
