\* Three records and two per request: a pass fills a request and opens another.
\* A block has 16 cells, 6 for headers: a symbol of 11 cells makes it grow.
\* r3 stands for an enumeration of four bytes, whose data value has two.
CONSTANTS
  Records = {r1, r2, r3}
  Values = {a, b}
  Initial = a
  Sizes = {1, 11}
  Mismatched = {r3}
  maxrec = 2
  MaxWrites = 4
  MaxErrors = 1
  MaxAllocFailures = 1
SPECIFICATION Spec
SYMMETRY Symmetry
INVARIANTS
  WithinBlock
  OwnDatum
  NothingLost
