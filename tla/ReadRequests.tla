---------------------------- MODULE ReadRequests ----------------------------
(***************************************************************************)
(* TcPLC::optimizeRequests: the symbols of a PLC, sorted by index group    *)
(* and offset, are cut into read requests.  A request is one window of     *)
(* PLC memory; a symbol is read at its distance from the start of the      *)
(* window.  One action is one iteration of the loop over the sorted list.  *)
(***************************************************************************)
EXTENDS Integers, FiniteSets

CONSTANTS Symbols,       \* records [group, offset, size] a PLC may have
          Overlaps,      \* may two symbols of a list share memory?
          MaxReqSize,    \* MAX_REQ_SIZE
          MaxSingleGap,  \* MAX_SINGLE_GAP_SIZE
          MinRelGap,     \* MIN_REL_GAP_SIZE
          RelGap,        \* 1 / MAX_REL_GAP
          MaxSymbols     \* bound: symbols in a list

ASSUME SymbolsAssumption == Symbols \subseteq [group : Nat, offset : Nat, size : Nat \ {0}]
ASSUME LimitsAssumption ==
  /\ Overlaps \in BOOLEAN
  /\ MaxReqSize \in Nat /\ MaxSingleGap \in Nat
  /\ MinRelGap \in Nat /\ RelGap \in Nat

VARIABLES
  placed,    \* the iterated part of the list: symbols with their requestNum
  last,      \* the symbol placed last
  requests,  \* adsGroupReadRequestVector, with the open request at the end
  nRequest,  \* index of the open request
  totalGap   \* bytes of the open request that belong to no symbol

vars == <<placed, last, requests, nRequest, totalGap>>

End(w) == w.offset + w.length
SymbolEnd(s) == s.offset + s.size

(* compByOffset is not an order when there are several groups; what sort   *)
(* guarantees of its result is that no neighbours are out of order.        *)
compByOffset(a, b) == a.group <= b.group /\ a.offset < b.offset

Disjoint(a, b) ==
  a.group = b.group => SymbolEnd(a) <= b.offset \/ SymbolEnd(b) <= a.offset

MayFollow(s) ==
  /\ ~compByOffset(s, last)
  /\ ~Overlaps => \A p \in placed : Disjoint(s, p.symbol)

(* The first symbol opens a request of length 0 and is then treated like   *)
(* every other.                                                            *)
Init ==
  /\ last \in Symbols
  /\ placed = {}
  /\ requests = [n \in {0} |-> [group |-> last.group, offset |-> last.offset, length |-> 0]]
  /\ nRequest = 0
  /\ totalGap = 0

NextGap(s) == s.offset - End(requests[nRequest])
(* Fault: a request grows by its symbols and not by the gaps between them. *)
LengthWithoutGap(s) == requests[nRequest].length + s.size

NextLength(s) == requests[nRequest].length + s.size + NextGap(s)

(* Fault: the gap before the symbol is not yet part of the sum.            *)
GapsWereTooLarge(s) ==
  totalGap > MinRelGap /\ RelGap * totalGap > requests[nRequest].length

(* relGap > MAX_REL_GAP, for a nextLength that is not negative.            *)
GapsTooLarge(s) ==
  /\ totalGap + NextGap(s) > MinRelGap
  /\ NextLength(s) >= 0
  /\ RelGap * (totalGap + NextGap(s)) > NextLength(s)

NeedsRequest(s) ==
  \/ NextGap(s) > MaxSingleGap
  \/ GapsTooLarge(s)
  \/ s.group # requests[nRequest].group
  \/ requests[nRequest].length + s.size > MaxReqSize

CanPlace(s) ==
  /\ Cardinality(placed) < MaxSymbols
  /\ IF placed = {} THEN s = last ELSE MayFollow(s)

NewRequest(s) ==
  /\ CanPlace(s)
  /\ NeedsRequest(s)
  /\ nRequest' = nRequest + 1
  /\ requests' = [n \in 0..nRequest + 1 |->
                    IF n <= nRequest THEN requests[n]
                    ELSE [group |-> s.group, offset |-> s.offset, length |-> s.size]]
  /\ totalGap' = 0
  /\ placed' = placed \cup {[symbol |-> s, num |-> nRequest + 1]}
  /\ last' = s

ExtendRequest(s) ==
  /\ CanPlace(s)
  /\ ~NeedsRequest(s)
  /\ requests' = [requests EXCEPT ![nRequest].length = NextLength(s)]
  /\ totalGap' = totalGap + NextGap(s)
  /\ placed' = placed \cup {[symbol |-> s, num |-> nRequest]}
  /\ last' = s
  /\ UNCHANGED nRequest

Next == \E s \in Symbols : NewRequest(s) \/ ExtendRequest(s)

Spec == Init /\ [][Next]_vars

---------------------------------------------------------------------------
Requests == [group : Nat, offset : Nat, length : Int]

TypeOK ==
  /\ placed \subseteq [symbol : Symbols, num : 0..nRequest]
  /\ last \in Symbols
  /\ nRequest \in Nat
  /\ requests \in [0..nRequest -> Requests]
  /\ totalGap \in Int

(* A symbol whose bytes are all in the response to its own request.        *)
InWindow(p) ==
  LET w == requests[p.num] IN
  /\ w.group = p.symbol.group
  /\ w.offset <= p.symbol.offset
  /\ SymbolEnd(p.symbol) <= End(w)

(* The read scanner copies size bytes at requestOffs for every symbol: no  *)
(* symbol may reach out of the buffer of its request, whatever comes later *)
(* in the list.  It needs symbols that do not share memory.                *)
Covered == ~Overlaps => \A p \in placed : InWindow(p)

(* A request grows past the limit only by the gap before its last symbol   *)
(* or because a single symbol is that large.                               *)
SizeBounded ==
  ~Overlaps =>
    \A n \in 0..nRequest :
      \/ requests[n].length <= MaxReqSize + MaxSingleGap
      \/ \E p \in placed : p.num = n /\ requests[n].length = p.symbol.size

Memory(s) == s.offset..SymbolEnd(s) - 1

(* What a request reads for nothing: the bytes of its window in none of    *)
(* its symbols.                                                            *)
Waste(n) ==
  {byte \in requests[n].offset..End(requests[n]) - 1 :
     \A p \in placed : p.num = n => byte \notin Memory(p.symbol)}

(* However the gaps of a request add up, it reads at most MIN_REL_GAP_SIZE *)
(* bytes, or a quarter of its length, for nothing.                         *)
WasteBounded ==
  ~Overlaps =>
    \A n \in 0..nRequest :
      \/ Cardinality(Waste(n)) <= MinRelGap
      \/ RelGap * Cardinality(Waste(n)) <= requests[n].length

(* The requests are as the limits in tcComms.h mean them, in spite of      *)
(* tests that look at the length before or after the gap.                  *)
RequestsBounded == SizeBounded /\ WasteBounded
=============================================================================
