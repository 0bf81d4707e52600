-------------------------- MODULE ProcWriteProofs --------------------------
(***************************************************************************)
(* The passes of the write scanner: for every number of records, all sizes *)
(* of symbols and every maxrec, header and data stay inside the block that *)
(* was allocated for them (WithinBlock), and as long as memory does not    *)
(* run out the PLC takes for each symbol a datum of its own record         *)
(* (OwnDatum), and no value whose flag was cleared is forgotten            *)
(* (NothingLost).                                                          *)
(*                                                                         *)
(* Two things are computed by recursion: the size of the block, and where  *)
(* in the data the PLC looks for the n-th datum.  What they are is proved  *)
(* by induction over the numbers 0..N (AllNumbers), which follows from the *)
(* order of the natural numbers being well founded.                        *)
(***************************************************************************)
EXTENDS ProcWrite, WellFoundedInduction, FiniteSetTheorems, TLAPS

(* Every set of numbers that holds 0 and with n also n + 1 holds them all. *)
LEMMA LeastNumber ==
  ASSUME NEW T \in SUBSET Nat, T # {}
  PROVE  \E m \in T : \A n \in T : m <= n
<1> DEFINE R == OpToRel(<, Nat)
<1>1. IsWellFoundedOn(R, Nat)
  BY NatLessThanWellFounded DEF OpToRel
<1> HIDE DEF R
<1>2. PICK m \in T : \A n \in T : ~(<<n, m>> \in R)
  BY <1>1, WFMin
<1>3. \A n \in T : <<n, m>> \in R \/ m <= n
  <2> TAKE n \in T
  <2>1. n \in Nat /\ m \in Nat
    OBVIOUS
  <2>2. n < m => <<n, m>> \in R
    BY <2>1 DEF R, OpToRel
  <2> QED BY <2>1, <2>2
<1> QED BY <1>2, <1>3

LEMMA AllNumbers ==
  ASSUME NEW N \in Nat, NEW T \in SUBSET (0..N),
         0 \in T, \A n \in 0..N : n + 1 \in 0..N /\ n \in T => n + 1 \in T
  PROVE  T = 0..N
<1> SUFFICES ASSUME T # 0..N PROVE FALSE
  OBVIOUS
<1> DEFINE U == (0..N) \ T
<1>1. U \in SUBSET Nat /\ U # {}
  <2>1. PICK n : ~(n \in T <=> n \in 0..N)
    OBVIOUS
  <2>2. n \in U
    BY <2>1
  <2> QED BY <2>2
<1>2. PICK m \in U : \A n \in U : m <= n
  BY <1>1, LeastNumber
<1>3. m # 0 /\ m - 1 \in 0..N /\ m - 1 \notin U /\ (m - 1) + 1 = m
  BY <1>1, <1>2
<1> QED BY <1>2, <1>3

---------------------------------------------------------------------------
(* A function on 0..N is defined by its first value and its steps.         *)
Follows(g, N, b, step) == \A k \in 0..N : g[k] = IF k = 0 THEN b ELSE step[g[k - 1]]

LEMMA Recursion ==
  ASSUME NEW N \in Nat, NEW S, NEW b \in S, NEW step \in [S -> S]
  PROVE  \E g \in [0..N -> S] : Follows(g, N, b, step)
<1> DEFINE G(n, g) == Follows(g, n, b, step)
           T == {n \in 0..N : \E g \in [0..n -> S] : G(n, g)}
<1>1. 0 \in T
  <2> DEFINE g == [k \in 0..0 |-> b]
  <2>1. g \in [0..0 -> S] /\ G(0, g)
    BY DEF Follows
  <2>2. \E h \in [0..0 -> S] : G(0, h)
    BY <2>1
  <2> QED BY <2>2
<1>2. ASSUME NEW n \in 0..N, n + 1 \in 0..N, n \in T PROVE n + 1 \in T
  <2>1. PICK g \in [0..n -> S] : G(n, g)
    BY <1>2
  <2> DEFINE h == [k \in 0..n + 1 |-> IF k <= n THEN g[k] ELSE step[g[n]]]
  <2>2. h \in [0..n + 1 -> S]
    OBVIOUS
  <2>3. G(n + 1, h)
    BY <2>1 DEF Follows
  <2> QED BY <1>2, <2>2, <2>3
<1> HIDE DEF G
<1>3. T = 0..N
  BY <1>1, <1>2, AllNumbers
<1>4. \E g \in [0..N -> S] : G(N, g)
  BY <1>3
<1> QED BY <1>4 DEF G

(* The loop of check_alloc ends with a block that is large enough.         *)
LEMMA DoubledIs ==
  ASSUME NEW least \in Nat \ {0}, NEW needed \in Nat
  PROVE  /\ Doubled(least, needed) \in Nat
         /\ Doubled(least, needed) >= least /\ Doubled(least, needed) >= needed
<1> DEFINE turns == needed \div least
           Step(a) == IF needed > a THEN 2 * a ELSE a
           alloc == CHOOSE f : f = [k \in 0..turns |-> IF k = 0 THEN least ELSE Step(f[k - 1])]
<1>1. turns \in Nat /\ needed < (turns + 1) * least
  OBVIOUS
<1>2. Doubled(least, needed) = alloc[turns]
  BY DEF Doubled
<1> HIDE DEF turns
<1>3. PICK g \in [0..turns -> Nat] : \A k \in 0..turns : g[k] = IF k = 0 THEN least ELSE Step(g[k - 1])
  <2> DEFINE step == [a \in Nat |-> Step(a)]
  <2>1. step \in [Nat -> Nat]
    OBVIOUS
  <2> HIDE DEF step
  <2>2. PICK g \in [0..turns -> Nat] : Follows(g, turns, least, step)
    <3>1. turns \in Nat /\ least \in Nat
      BY <1>1
    <3> QED BY <2>1, <3>1, Recursion
  <2>3. \A k \in 0..turns : k # 0 => g[k - 1] \in Nat
    BY <1>1
  <2>4. \A k \in 0..turns : g[k] = IF k = 0 THEN least ELSE Step(g[k - 1])
    BY <2>2, <2>3 DEF step, Follows
  <2> QED BY <2>4
<1>4. g = [k \in 0..turns |-> IF k = 0 THEN least ELSE Step(g[k - 1])]
  BY <1>3
<1>5. alloc = [k \in 0..turns |-> IF k = 0 THEN least ELSE Step(alloc[k - 1])]
  BY <1>4
<1> HIDE DEF alloc
<1>6. \A k \in 0..turns : alloc[k] = IF k = 0 THEN least ELSE Step(alloc[k - 1])
  BY <1>5
<1> DEFINE Enough(k) == /\ alloc[k] \in Nat /\ alloc[k] >= least
                        /\ alloc[k] >= needed \/ alloc[k] >= (k + 1) * least
           T == {k \in 0..turns : Enough(k)}
<1>7. 0 \in T
  BY <1>1, <1>6
<1>8. ASSUME NEW k \in 0..turns, k + 1 \in 0..turns, k \in T PROVE k + 1 \in T
  <2>1. alloc[k + 1] = Step(alloc[k]) /\ Enough(k)
    BY <1>1, <1>6, <1>8
  <2>2. (k + 2) * least = (k + 1) * least + least /\ (k + 1) * least \in Nat /\ (k + 1) * least >= least
    BY <1>1
  <2>3. Enough(k + 1)
    BY <2>1, <2>2
  <2> QED BY <1>8, <2>3
<1> HIDE DEF Enough
<1>9. T = 0..turns
  BY <1>1, <1>7, <1>8, AllNumbers
<1>10. Enough(turns)
  BY <1>1, <1>9
<1> QED BY <1>1, <1>2, <1>10 DEF Enough

---------------------------------------------------------------------------
(* The shape of a request, and that what is in its block fits.             *)
IsBlock(q) ==
  /\ q = [cells |-> q.cells, alloc |-> q.alloc, size |-> q.size, count |-> q.count]
  /\ q.alloc \in Nat /\ q.size \in Nat /\ q.count \in 0..maxrec
  /\ DOMAIN q.cells = 0..q.alloc - 1
  /\ q.alloc = 0 => q.count = 0 /\ q.size = 0

Fits(q) == q.alloc > 0 => HeaderArea + q.size <= q.alloc

(* What the assumption says of the constants that are used below.          *)
LEMMA ConstantsAre == maxrec \in Nat \ {0} /\ HeaderArea \in Nat /\ HeaderArea = 3 * maxrec
BY ConstantsAssumption DEF HeaderArea

LEMMA EmptyIs == IsBlock(Empty) /\ Fits(Empty) /\ Empty.count = 0 /\ Empty.size = 0
<1>1. DOMAIN <<>> = 0..0 - 1
  OBVIOUS
<1> QED BY <1>1, ConstantsAre DEF Empty, IsBlock, Fits

(* Two of the fields of a record take other values.                        *)
LEMMA Fields ==
  ASSUME NEW q, q = [cells |-> q.cells, alloc |-> q.alloc, size |-> q.size, count |-> q.count],
         NEW c, NEW x
  PROVE  /\ [q EXCEPT !.alloc = x, !.cells = c]
              = [cells |-> c, alloc |-> x, size |-> q.size, count |-> q.count]
         /\ [q EXCEPT !.count = x, !.cells = c]
              = [cells |-> c, alloc |-> q.alloc, size |-> q.size, count |-> x]
         /\ [q EXCEPT !.size = x, !.cells = c]
              = [cells |-> c, alloc |-> q.alloc, size |-> x, count |-> q.count]
<1>1. PICK a, s, k, e : /\ q = [cells |-> e, alloc |-> a, size |-> s, count |-> k]
                        /\ q.alloc = a /\ q.size = s /\ q.count = k
  OBVIOUS
<1>2. [q EXCEPT !.alloc = x, !.cells = c] = [cells |-> c, alloc |-> x, size |-> s, count |-> k]
  <2>1. PICK p : p = [q EXCEPT !.alloc = x]
    OBVIOUS
  <2>2. p = [cells |-> e, alloc |-> x, size |-> s, count |-> k]
    BY <1>1, <2>1
  <2>3. [p EXCEPT !.cells = c] = [cells |-> c, alloc |-> x, size |-> s, count |-> k]
    BY <2>2
  <2> QED BY <2>1, <2>3
<1>3. [q EXCEPT !.count = x, !.cells = c] = [cells |-> c, alloc |-> a, size |-> s, count |-> x]
  <2>1. PICK p : p = [q EXCEPT !.count = x]
    OBVIOUS
  <2>2. p = [cells |-> e, alloc |-> a, size |-> s, count |-> x]
    BY <1>1, <2>1
  <2>3. [p EXCEPT !.cells = c] = [cells |-> c, alloc |-> a, size |-> s, count |-> x]
    BY <2>2
  <2> QED BY <2>1, <2>3
<1>4. [q EXCEPT !.size = x, !.cells = c] = [cells |-> c, alloc |-> a, size |-> x, count |-> k]
  <2>1. PICK p : p = [q EXCEPT !.size = x]
    OBVIOUS
  <2>2. p = [cells |-> e, alloc |-> a, size |-> x, count |-> k]
    BY <1>1, <2>1
  <2>3. [p EXCEPT !.cells = c] = [cells |-> c, alloc |-> a, size |-> x, count |-> k]
    BY <2>2
  <2> QED BY <2>1, <2>3
<1> QED BY <1>1, <1>2, <1>3, <1>4

(* check_alloc keeps what is in the block and makes room for extra cells.  *)
LEMMA GrownIs ==
  ASSUME NEW q, IsBlock(q), NEW extra \in Nat
  PROVE  LET g == Grown(q, extra) IN
         /\ IsBlock(g) /\ g.size = q.size /\ g.count = q.count
         /\ g.alloc > 0 /\ g.alloc >= q.alloc /\ HeaderArea + q.size + extra <= g.alloc
         /\ \A i \in 0..q.alloc - 1 : g.cells[i] = q.cells[i]
<1> DEFINE g == Grown(q, extra)
           n == NewAlloc(q, extra)
           least == IF q.alloc < 8 * maxrec THEN 8 * maxrec ELSE q.alloc
           needed == Needed(q, extra)
<1>1. q.alloc \in Nat /\ q.size \in Nat /\ DOMAIN q.cells = 0..q.alloc - 1
  BY DEF IsBlock
<1>2. least \in Nat \ {0} /\ least >= q.alloc
  BY <1>1, ConstantsAre
<1>3. needed \in Nat /\ needed = HeaderArea + q.size + extra
  BY <1>1, ConstantsAre DEF Needed
<1>4. n = Doubled(least, needed)
  BY DEF NewAlloc
<1> HIDE DEF least, needed, n
<1>5. n \in Nat /\ n >= least /\ n >= needed
  BY <1>2, <1>3, <1>4, DoubledIs
<1> DEFINE cells == [i \in 0..n - 1 |-> IF i < q.alloc THEN q.cells[i] ELSE Junk]
<1>0. g = [q EXCEPT !.alloc = n, !.cells = cells]
  BY DEF Grown, n
<1> HIDE DEF cells
<1>6. g = [cells |-> cells, alloc |-> n, size |-> q.size, count |-> q.count]
  BY <1>0, Fields DEF IsBlock
<1> USE DEF cells
<1> HIDE DEF g
<1>7. IsBlock(g)
  BY <1>2, <1>5, <1>6 DEF IsBlock
<1>8. \A i \in 0..q.alloc - 1 : g.cells[i] = q.cells[i]
  BY <1>1, <1>2, <1>5, <1>6
<1> QED BY <1>1, <1>2, <1>3, <1>5, <1>6, <1>7, <1>8 DEF g

(* A header is put behind the headers.                                     *)
LEMMA WithHeaderIs ==
  ASSUME NEW q, IsBlock(q), q.count < maxrec, q.alloc > 0, NEW r
  PROVE  LET h == WithHeader(q, r) IN
         /\ IsBlock(h) /\ h.size = q.size /\ h.count = q.count + 1 /\ h.alloc = q.alloc
         /\ \A i \in 0..q.alloc - 1 :
              h.cells[i] = IF i \in 3 * q.count..3 * q.count + 2 THEN Header(r) ELSE q.cells[i]
<1> DEFINE h == WithHeader(q, r)
<1> DEFINE cells == [i \in DOMAIN q.cells |-> IF i \in 3 * q.count..3 * q.count + 2
                                               THEN Header(r) ELSE q.cells[i]]
<1>0. h = [q EXCEPT !.count = q.count + 1, !.cells = cells]
  BY DEF WithHeader
<1> HIDE DEF cells
<1>1. h = [cells |-> cells, alloc |-> q.alloc, size |-> q.size, count |-> q.count + 1]
  BY <1>0, Fields DEF IsBlock
<1> USE DEF cells
<1> HIDE DEF h
<1>2. IsBlock(h)
  BY <1>1, ConstantsAre DEF IsBlock
<1>3. DOMAIN q.cells = 0..q.alloc - 1
  BY DEF IsBlock
<1> QED BY <1>1, <1>2, <1>3 DEF h

(* A datum is put behind the data, unless the lengths differ.              *)
LEMMA WithDatumIs ==
  ASSUME NEW q, IsBlock(q), NEW r, length[r] \in Nat, HeaderArea + q.size + length[r] <= q.alloc
  PROVE  LET d == WithDatum(q, r) IN
         /\ IsBlock(d) /\ Fits(d) /\ d.size = q.size + length[r]
         /\ d.count = q.count /\ d.alloc = q.alloc
         /\ \A i \in 0..q.alloc - 1 :
              d.cells[i] = IF /\ i \in HeaderArea + q.size..HeaderArea + q.size + length[r] - 1
                              /\ r \notin Mismatched
                           THEN Datum(r, value[r]) ELSE q.cells[i]
<1> DEFINE d == WithDatum(q, r)
<1> DEFINE cells == [i \in DOMAIN q.cells |->
                      IF i \in HeaderArea + q.size..HeaderArea + q.size + length[r] - 1
                         /\ r \notin Mismatched
                      THEN Datum(r, value[r]) ELSE q.cells[i]]
<1>0. d = [q EXCEPT !.size = q.size + length[r], !.cells = cells]
  BY DEF WithDatum
<1> HIDE DEF cells
<1>1. d = [cells |-> cells, alloc |-> q.alloc, size |-> q.size + length[r], count |-> q.count]
  BY <1>0, Fields DEF IsBlock
<1> USE DEF cells
<1> HIDE DEF d
<1>2. IsBlock(d) /\ Fits(d)
  BY SMTT(30), <1>1, ConstantsAre DEF IsBlock, Fits
<1>3. DOMAIN q.cells = 0..q.alloc - 1
  BY DEF IsBlock
<1> QED BY <1>1, <1>2, <1>3 DEF d

---------------------------------------------------------------------------
(* The block of every request is sound, whatever was refused or failed.    *)
Types ==
  /\ length \in [Records -> Sizes] /\ todo \subseteq Records
  /\ req \in Seq(Requests)

BlocksInv == Types /\ \A q \in Requests : IsBlock(q) /\ Fits(q)

(* No symbol is empty.                                                     *)
LEMMA LengthIs == ASSUME Types, NEW r \in Records PROVE length[r] \in Nat \ {0}
BY ConstantsAssumption DEF Types

(* What d has of q, and what it has of the symbol r.                       *)
Added(d, q, r) ==
  /\ IsBlock(d) /\ Fits(d) /\ d.count = q.count + 1 /\ d.size = q.size + length[r]
  /\ \A i \in 3 * q.count..3 * q.count + 2 : d.cells[i] = Header(r)
  /\ \A i \in 0..3 * q.count - 1 : d.cells[i] = q.cells[i]
  /\ \A i \in 0..q.size - 1 : d.cells[HeaderArea + i] = q.cells[HeaderArea + i]
  /\ r \notin Mismatched =>
       \A i \in q.size..q.size + length[r] - 1 : d.cells[HeaderArea + i] = Datum(r, value[r])

(* A record that is collected is added to the request, and of one whose    *)
(* datum was refused the header is.                                        *)
LEMMA AddedIs ==
  ASSUME Types, NEW q, IsBlock(q), Fits(q), q.count < maxrec, NEW r \in Records
  PROVE  LET h == WithHeader(Grown(q, 0), r)
         IN  IsBlock(h) /\ Fits(h) /\ Added(WithDatum(Grown(h, length[r]), r), q, r)
<1> DEFINE a == Grown(q, 0)
           h == WithHeader(a, r)
           b == Grown(h, length[r])
           d == WithDatum(b, r)
<1> HIDE DEF a, h, b, d
<1>1. /\ IsBlock(a) /\ a.size = q.size /\ a.count = q.count
      /\ a.alloc > 0 /\ a.alloc >= q.alloc /\ HeaderArea + q.size <= a.alloc
      /\ \A i \in 0..q.alloc - 1 : a.cells[i] = q.cells[i]
  <2>1. HeaderArea + q.size + 0 = HeaderArea + q.size
    BY ConstantsAre DEF IsBlock
  <2> QED BY <2>1, GrownIs DEF a
<1>2. /\ IsBlock(h) /\ h.size = a.size /\ h.count = a.count + 1 /\ h.alloc = a.alloc
      /\ \A i \in 0..a.alloc - 1 :
           h.cells[i] = IF i \in 3 * a.count..3 * a.count + 2 THEN Header(r) ELSE a.cells[i]
  BY <1>1, WithHeaderIs DEF h
<1>3. length[r] \in Nat \ {0}
  BY LengthIs
<1>4. /\ IsBlock(b) /\ b.size = h.size /\ b.count = h.count
      /\ b.alloc >= h.alloc /\ HeaderArea + h.size + length[r] <= b.alloc
      /\ \A i \in 0..h.alloc - 1 : b.cells[i] = h.cells[i]
  BY <1>2, <1>3, GrownIs DEF b
<1>5. /\ IsBlock(d) /\ Fits(d) /\ d.size = b.size + length[r]
      /\ d.count = b.count /\ d.alloc = b.alloc
      /\ \A i \in 0..b.alloc - 1 :
           d.cells[i] = IF /\ i \in HeaderArea + b.size..HeaderArea + b.size + length[r] - 1
                           /\ r \notin Mismatched
                        THEN Datum(r, value[r]) ELSE b.cells[i]
  BY <1>3, <1>4, WithDatumIs DEF d
<1>6. /\ q.alloc \in Nat /\ q.size \in Nat /\ q.count \in Nat /\ q.count + 1 <= maxrec
      /\ a.alloc \in Nat /\ b.alloc \in Nat
      /\ q.alloc = 0 => q.count = 0 /\ q.size = 0
      /\ q.alloc > 0 => HeaderArea + q.size <= q.alloc
  <2>1. /\ q.alloc \in Nat /\ q.size \in Nat /\ q.count \in 0..maxrec
        /\ q.alloc = 0 => q.count = 0 /\ q.size = 0
    BY DEF IsBlock
  <2>2. a.alloc \in Nat
    BY <1>1 DEF IsBlock
  <2>3. b.alloc \in Nat
    BY <1>4 DEF IsBlock
  <2> QED BY <2>1, <2>2, <2>3, ConstantsAre DEF Fits
<1>7. Fits(h)
  BY <1>1, <1>2, <1>6 DEF Fits
<1>8. ASSUME NEW i \in 3 * q.count..3 * q.count + 2 PROVE d.cells[i] = Header(r)
  <2>1. i \in 0..HeaderArea - 1
    BY <1>6, ConstantsAre
  <2>2. i \in 0..a.alloc - 1 /\ i \in 0..b.alloc - 1
    BY <1>1, <1>2, <1>4, <1>6, <2>1, ConstantsAre
  <2>3. h.cells[i] = Header(r)
    BY <1>1, <1>2, <2>2
  <2>4. b.cells[i] = Header(r)
    BY <1>2, <1>4, <2>2, <2>3
  <2>5. ~(i \in HeaderArea + b.size..HeaderArea + b.size + length[r] - 1)
    BY <1>1, <1>2, <1>4, <1>6, <2>1, ConstantsAre
  <2> QED BY <1>5, <2>2, <2>4, <2>5
<1>9. \A i \in 0..3 * q.count - 1 : d.cells[i] = q.cells[i]
  BY <1>1, <1>2, <1>3, <1>4, <1>5, <1>6, ConstantsAre
<1>10. ASSUME NEW i \in 0..q.size - 1 PROVE d.cells[HeaderArea + i] = q.cells[HeaderArea + i]
  <2> DEFINE j == HeaderArea + i
  <2>1. j \in 0..q.alloc - 1 /\ j >= HeaderArea /\ j < HeaderArea + q.size /\ j \in Nat
    BY <1>6, ConstantsAre
  <2> HIDE DEF j
  <2>2. j \in 0..a.alloc - 1 /\ j \in 0..b.alloc - 1
    BY <1>1, <1>2, <1>4, <1>6, <2>1
  <2>3. ~(j \in 3 * a.count..3 * a.count + 2)
    BY <1>1, <1>6, <2>1, ConstantsAre
  <2>4. h.cells[j] = q.cells[j]
    BY <1>1, <1>2, <2>1, <2>2, <2>3
  <2>5. b.cells[j] = q.cells[j]
    BY <1>2, <1>4, <2>2, <2>4
  <2>6. ~(j \in HeaderArea + b.size..HeaderArea + b.size + length[r] - 1)
    BY <1>1, <1>2, <1>4, <1>6, <2>1, ConstantsAre
  <2>7. d.cells[j] = q.cells[j]
    BY <1>5, <2>2, <2>5, <2>6
  <2> QED BY <2>7 DEF j
<1>11. ASSUME r \notin Mismatched, NEW i \in q.size..q.size + length[r] - 1
       PROVE  d.cells[HeaderArea + i] = Datum(r, value[r])
  <2> DEFINE j == HeaderArea + i
  <2>1. j \in 0..b.alloc - 1 /\ j \in HeaderArea + b.size..HeaderArea + b.size + length[r] - 1
    BY <1>1, <1>2, <1>3, <1>4, <1>6, ConstantsAre
  <2> HIDE DEF j
  <2>2. d.cells[j] = Datum(r, value[r])
    BY <1>5, <1>11, <2>1
  <2> QED BY <2>2 DEF j
<1>12. Added(d, q, r)
  BY <1>1, <1>2, <1>4, <1>5, <1>8, <1>9, <1>10, <1>11 DEF Added
<1> QED BY <1>2, <1>7, <1>12 DEF a, h, b, d

---------------------------------------------------------------------------
(* A sequence of elements of T.                                            *)
LEMMA Elements ==
  ASSUME NEW S, NEW s \in Seq(S), NEW T, \A n \in 1..Len(s) : s[n] \in T
  PROVE  s \in Seq(T)
OBVIOUS

(* What is queued before a record is collected, and what it is added to.   *)
LEMMA OpenIs ==
  ASSUME BlocksInv
  PROVE  /\ IsBlock(Open) /\ Fits(Open) /\ Open.count < maxrec
         /\ ~Full => Open = proc
<1>1. IsBlock(proc) /\ Fits(proc)
  BY DEF BlocksInv, Requests
<1> QED BY <1>1, EmptyIs, ConstantsAre DEF Open, Full, IsBlock

(* Queueing loses no request and brings none but the one being built.      *)
LEMMA QueuedIs ==
  ASSUME BlocksInv, req' = Queued
  PROVE  /\ Requests' \subseteq Requests \cup {proc'}
         /\ Requests \subseteq Requests' \cup (IF Full THEN {} ELSE {proc})
         /\ req' \in Seq(Requests')
<1>1. proc \in Requests /\ req \in Seq(Requests) /\ DOMAIN req = 1..Len(req) /\ Len(req) \in Nat
  BY DEF BlocksInv, Types, Requests
<1>2. CASE Full
  <2>1. req' = Append(req, proc)
    BY <1>2 DEF Queued
  <2>2. /\ req' \in Seq(Requests) /\ DOMAIN req' = 1..Len(req) + 1 /\ req'[Len(req) + 1] = proc
        /\ Len(req') = Len(req) + 1 /\ \A n \in 1..Len(req) : req'[n] = req[n]
    BY <1>1, <2>1
  <2>3. Requests' = {proc'} \cup {req'[n] : n \in 1..Len(req) + 1}
    BY <2>2 DEF Requests
  <2>4. \A n \in 1..Len(req) + 1 : n = Len(req) + 1 \/ n \in 1..Len(req)
    BY <1>1
  <2>5. {req'[n] : n \in 1..Len(req) + 1} = {req[n] : n \in 1..Len(req)} \cup {proc}
    BY <1>1, <2>2, <2>4
  <2>6. Requests = {proc} \cup {req[n] : n \in 1..Len(req)}
    BY <1>1 DEF Requests
  <2>7. Requests' = Requests \cup {proc'}
    BY <2>3, <2>5, <2>6
  <2>8. req' \in Seq(Requests')
    <3>1. \A n \in 1..Len(req') : req'[n] \in Requests'
      BY <2>2, <2>3
    <3> QED BY <2>2, <3>1, Elements
  <2> QED BY <1>2, <2>7, <2>8
<1>3. CASE ~Full
  <2>1. req' = req
    BY <1>3 DEF Queued
  <2>2. req' \in Seq(Requests')
    <3>1. \A n \in 1..Len(req') : req'[n] \in Requests'
      BY <1>1, <2>1 DEF Requests
    <3>2. req' \in Seq(Requests)
      BY <1>1, <2>1
    <3> QED BY <3>1, <3>2, Elements
  <2> QED BY <1>3, <2>1, <2>2 DEF Requests
<1> QED BY <1>2, <1>3

(* What is sent was in the queue, and goes.                                *)
LEMMA SentIs ==
  ASSUME BlocksInv, Sent
  PROVE  /\ Sending \in Requests
         /\ Requests' \subseteq Requests \cup {Empty}
         /\ Requests \subseteq Requests' \cup {Sending}
         /\ req' \in Seq(Requests')
         /\ req = <<>> => req' = <<>> /\ proc' = Empty /\ phase' = "idle"
         /\ req # <<>> => phase' = phase
<1>1. proc \in Requests /\ req \in Seq(Requests) /\ DOMAIN req = 1..Len(req) /\ Len(req) \in Nat
  BY DEF BlocksInv, Types, Requests
<1>2. CASE req = <<>>
  <2>1. req' = <<>> /\ proc' = Empty /\ phase' = "idle" /\ Sending = proc
    BY <1>2 DEF Sent, Sending
  <2>2. Requests' = {Empty} /\ Requests = {proc}
    BY <1>2, <2>1 DEF Requests
  <2> QED BY <1>2, <2>1, <2>2
<1>3. CASE req # <<>>
  <2>1. req' = Tail(req) /\ proc' = proc /\ phase' = phase /\ Sending = Head(req)
    BY <1>3 DEF Sent, Sending
  <2>2. /\ Len(req) > 0 /\ Head(req) = req[1]
        /\ Tail(req) \in Seq(Requests) /\ Len(Tail(req)) = Len(req) - 1
        /\ DOMAIN Tail(req) = 1..Len(req) - 1
        /\ \A n \in 1..Len(req) - 1 : Tail(req)[n] = req[n + 1]
    BY <1>1, <1>3
  <2>3. Requests' = {proc} \cup {req'[n] : n \in 1..Len(req) - 1}
    BY <2>1, <2>2 DEF Requests
  <2>4. Requests = {proc} \cup {req[n] : n \in 1..Len(req)}
    BY <1>1 DEF Requests
  <2>5. \A n \in 1..Len(req) - 1 : n + 1 \in 1..Len(req)
    BY <1>1
  <2>6. \A n \in 1..Len(req) : n = 1 \/ (n - 1 \in 1..Len(req) - 1 /\ (n - 1) + 1 = n)
    BY <1>1
  <2>7. Requests' \subseteq Requests
    BY <2>1, <2>2, <2>3, <2>4, <2>5
  <2>8. Requests \subseteq Requests' \cup {Sending}
    <3>1. ASSUME NEW n \in 1..Len(req) PROVE req[n] \in Requests' \cup {Sending}
      <4>1. CASE n = 1
        BY <2>1, <2>2, <4>1
      <4>2. CASE n - 1 \in 1..Len(req) - 1 /\ (n - 1) + 1 = n
        BY <2>1, <2>2, <2>3, <4>2
      <4> QED BY <2>6, <4>1, <4>2
    <3> QED BY <2>3, <2>4, <3>1
  <2>9. req' \in Seq(Requests')
    <3>1. \A n \in 1..Len(req') : req'[n] \in Requests'
      BY <2>1, <2>2, <2>3
    <3> QED BY <2>1, <2>2, <3>1, Elements
  <2> QED BY <1>1, <1>3, <2>1, <2>2, <2>4, <2>7, <2>8, <2>9
<1> QED BY <1>2, <1>3

---------------------------------------------------------------------------
(* The blocks are sound in the beginning ...                               *)
LEMMA BlocksInit == Init => BlocksInv
<1> SUFFICES ASSUME Init PROVE BlocksInv
  OBVIOUS
<1>1. Requests = {Empty} /\ req = <<>>
  BY DEF Init, Requests
<1> QED BY <1>1, EmptyIs DEF BlocksInv, Types, Init

(* ... and stay so, because nothing is put into a block before check_alloc. *)
LEMMA BlocksNext == BlocksInv /\ [Next]_vars => BlocksInv'
<1> SUFFICES ASSUME BlocksInv, [Next]_vars PROVE BlocksInv'
  OBVIOUS
<1>1. Types' \/ ~(req' \in Seq(Requests'))
  BY DEF BlocksInv, Types, Next, vars, UserWrite, PassBegins, Visit, Skip, Collect, HeaderRefused,
         DatumRefused, PassSends, Send, SendFails, NoResult
<1>2. CASE UNCHANGED <<proc, req>>
  <2>1. Requests' = Requests /\ req' \in Seq(Requests')
    BY <1>2 DEF Requests, BlocksInv, Types
  <2> QED BY <1>1, <2>1 DEF BlocksInv
<1>3. CASE Sent
  BY <1>1, <1>3, SentIs, EmptyIs DEF BlocksInv
<1>4. ASSUME req' = Queued, IsBlock(proc'), Fits(proc') PROVE BlocksInv'
  BY <1>1, <1>4, QueuedIs DEF BlocksInv
<1>5. ASSUME NEW r \in Records, Collect(r) \/ HeaderRefused(r) \/ DatumRefused(r) PROVE BlocksInv'
  <2>1. IsBlock(Open) /\ Fits(Open)
    BY OpenIs
  <2>2. /\ IsBlock(WithHeader(Grown(Open, 0), r)) /\ Fits(WithHeader(Grown(Open, 0), r))
        /\ Added(WithDatum(Grown(WithHeader(Grown(Open, 0), r), length[r]), r), Open, r)
    BY OpenIs, AddedIs DEF BlocksInv
  <2> QED BY <1>4, <1>5, <2>1, <2>2 DEF Collect, HeaderRefused, DatumRefused, Added
<1> QED
  BY <1>2, <1>3, <1>5
  DEF Next, vars, UserWrite, PassBegins, Skip, PassSends, Send, SendFails, NoResult

(* Header and data never leave the block that was allocated for them, also *)
(* when a request was refused memory half way, for every maxrec, any number *)
(* of records and all sizes (tcProcWrite::add, read_ptr, check_alloc).     *)
THEOREM BlocksHold == Spec => []WithinBlock
<1>1. BlocksInv => WithinBlock
  BY DEF BlocksInv, WithinBlock, IsBlock, Fits
<1> QED BY <1>1, BlocksInit, BlocksNext, PTL DEF Spec

---------------------------------------------------------------------------
(* off[n] is where the data of the symbols up to the n-th ends.  A datum   *)
(* is still the record's value, or the record is dirty again.              *)
Placed(q, off, n) ==
  /\ Target(q, n) \in Records
  /\ off[n] = off[n - 1] + length[Target(q, n)] /\ off[n] <= q.size
  /\ Target(q, n) \in Mismatched => Target(q, n) \in dirty
  /\ Target(q, n) \notin Mismatched =>
       \E v \in Values :
         /\ Target(q, n) \notin dirty => v = value[Target(q, n)]
         /\ \A i \in off[n - 1]..off[n] - 1 : q.cells[HeaderArea + i] = Datum(Target(q, n), v)

Layout(q, off) ==
  /\ off \in [0..q.count -> Nat] /\ off[0] = 0 /\ off[q.count] = q.size
  /\ \A n \in 1..q.count : Placed(q, off, n)

Sound(q) == (\E off : Layout(q, off)) /\ Targets(q) \cap todo = {}

(* Nothing is misplaced in a request without symbols.                      *)
LEMMA EmptySound == Sound(Empty)
<1> DEFINE off == [n \in 0..0 |-> 0]
<1>1. Empty.count = 0 /\ Empty.size = 0
  BY EmptyIs
<1>2. Layout(Empty, off)
  BY <1>1 DEF Layout
<1>3. Targets(Empty) = {}
  BY <1>1 DEF Targets
<1> QED BY <1>2, <1>3 DEF Sound

(* The layout is the one the PLC computes from the headers.                *)
LEMMA DataBeforeIs ==
  ASSUME NEW q, IsBlock(q), NEW off, Layout(q, off)
  PROVE  \A n \in 0..q.count : DataBefore(q)[n] = off[n]
<1> DEFINE N == q.count
           len(n) == length[Target(q, n)]
           sum == CHOOSE f : f = [n \in 0..N |-> IF n = 0 THEN 0 ELSE f[n - 1] + len(n)]
<1>1. DataBefore(q) = sum
  BY DEF DataBefore
<1>2. N \in Nat /\ off \in [0..N -> Nat] /\ off[0] = 0 /\ \A n \in 1..N : off[n] = off[n - 1] + len(n)
  BY ConstantsAre DEF IsBlock, Layout, Placed
<1> HIDE DEF N, len
<1>3. off = [n \in 0..N |-> IF n = 0 THEN 0 ELSE off[n - 1] + len(n)]
  <2>1. \A n \in 0..N : off[n] = IF n = 0 THEN 0 ELSE off[n - 1] + len(n)
    BY <1>2
  <2> QED BY <1>2, <2>1
<1>4. sum = [n \in 0..N |-> IF n = 0 THEN 0 ELSE sum[n - 1] + len(n)]
  BY <1>3
<1> HIDE DEF sum
<1>5. \A n \in 0..N : sum[n] = IF n = 0 THEN 0 ELSE sum[n - 1] + len(n)
  BY <1>4
<1> DEFINE T == {n \in 0..N : sum[n] = off[n]}
<1>6. 0 \in T
  BY <1>2, <1>5
<1>7. ASSUME NEW n \in 0..N, n + 1 \in 0..N, n \in T PROVE n + 1 \in T
  <2>1. (n + 1) - 1 = n /\ n + 1 \in 1..N
    BY <1>2, <1>7
  <2>2. sum[n + 1] = sum[n] + len(n + 1) /\ off[n + 1] = off[n] + len(n + 1)
    BY <1>2, <1>5, <2>1
  <2> QED BY <1>7, <2>2
<1>8. T = 0..N
  BY <1>2, <1>6, <1>7, AllNumbers
<1> QED BY <1>1, <1>8 DEF N

(* A cell of a datum, before and after the data is moved.                  *)
LEMMA Positions ==
  ASSUME NEW c \in Nat, NEW from \in Nat, NEW L \in Nat, NEW size \in Nat, from + L <= size,
         NEW area \in Nat, c <= area, NEW alloc \in Nat, area + size <= alloc,
         NEW i \in c + from..c + from + L - 1
  PROVE  /\ i - c \in from..from + L - 1 /\ i \in c..c + size - 1
         /\ i < c + size /\ i \in 0..alloc - 1
         /\ i = c + (i - c)
OBVIOUS

(* What the PLC takes for the n-th symbol is the datum of its record.      *)
LEMMA ReceivedIs ==
  ASSUME Types, NEW q, IsBlock(q), Fits(q), NEW off, Layout(q, off), NEW n \in 1..q.count,
         Target(q, n) \notin Mismatched
  PROVE  \E v \in Values : /\ Received(q, n) = Datum(Target(q, n), v)
                           /\ Target(q, n) \notin dirty => v = value[Target(q, n)]
<1> DEFINE r == Target(q, n)
           L == length[r]
           from == 3 * q.count + DataBefore(q)[n - 1]
           cell(i) == IF i < 3 * q.count + q.size THEN Wire(q)[i] ELSE Junk
           cells == {cell(i) : i \in from..from + L - 1}
<1>1. /\ r \in Records /\ off[n] = off[n - 1] + L /\ off[n] <= q.size
      /\ off \in [0..q.count -> Nat]
  BY DEF Layout, Placed
<1>2. PICK v \in Values : /\ r \notin dirty => v = value[r]
                          /\ \A i \in off[n - 1]..off[n] - 1 : q.cells[HeaderArea + i] = Datum(r, v)
  BY DEF Layout, Placed
<1>3. L \in Nat \ {0}
  BY <1>1, LengthIs
<1>4. /\ q.count \in Nat /\ n \in Nat \ {0} /\ n - 1 \in 0..q.count /\ n \in 0..q.count
      /\ q.count <= maxrec /\ q.size \in Nat /\ q.alloc \in Nat
      /\ HeaderArea + q.size <= q.alloc /\ DOMAIN q.cells = 0..q.alloc - 1
  BY ConstantsAre DEF IsBlock, Fits
<1>5. from = 3 * q.count + off[n - 1] /\ off[n - 1] \in Nat /\ off[n] \in Nat
  BY SMTT(30), <1>1, <1>4, DataBeforeIs
<1> HIDE DEF from, r, L
<1>6. ASSUME NEW i \in from..from + L - 1 PROVE cell(i) = Datum(r, v)
  <2> DEFINE j == i - 3 * q.count
  <2>1. /\ j \in off[n - 1]..off[n - 1] + L - 1 /\ i \in 3 * q.count..3 * q.count + q.size - 1
        /\ i < 3 * q.count + q.size /\ i \in 0..q.alloc - 1
        /\ i = 3 * q.count + j
    <3>1. /\ 3 * q.count \in Nat /\ 3 * q.count <= HeaderArea /\ HeaderArea \in Nat
      BY SMTT(30), <1>4, ConstantsAre
    <3>2. off[n - 1] \in Nat /\ off[n - 1] + L <= q.size /\ q.size \in Nat /\ q.alloc \in Nat
          /\ HeaderArea + q.size <= q.alloc /\ L \in Nat /\ i \in from..from + L - 1
          /\ from = 3 * q.count + off[n - 1]
      BY <1>1, <1>3, <1>4, <1>5, <1>6
    <3>3. i \in 3 * q.count + off[n - 1]..3 * q.count + off[n - 1] + L - 1
      BY <3>2
    <3> QED BY <3>1, <3>2, <3>3, Positions
  <2> HIDE DEF j
  <2>2. i \in DOMAIN q.cells /\ j \in off[n - 1]..off[n] - 1
    <3>1. i \in DOMAIN q.cells
      BY <1>4, <2>1
    <3>2. off[n - 1]..off[n - 1] + L - 1 = off[n - 1]..off[n] - 1
      BY <1>1, <1>3, <1>5
    <3> QED BY <2>1, <3>1, <3>2
  <2>3. q.count = maxrec => HeaderArea + j = i
    BY <1>4, <2>1, ConstantsAre
  <2>4. Wire(q)[i] = q.cells[HeaderArea + j]
    <3>1. CASE q.count < maxrec
      <4>1. Wire(q)[i] = IF i \in 3 * q.count..3 * q.count + q.size - 1
                         THEN q.cells[HeaderArea + i - 3 * q.count] ELSE q.cells[i]
        BY <2>2, <3>1 DEF Wire
      <4>2. Wire(q)[i] = q.cells[HeaderArea + i - 3 * q.count]
        BY <2>1, <4>1
      <4>3. HeaderArea + i - 3 * q.count = HeaderArea + j
        BY DEF j
      <4> QED BY <4>2, <4>3
    <3>2. CASE q.count = maxrec
      BY <2>3, <3>2, ConstantsAre DEF Wire
    <3> QED BY SMTT(30), <1>4, <3>1, <3>2, ConstantsAre
  <2> QED BY <1>2, <2>1, <2>2, <2>4
<1>7. from \in from..from + L - 1
  BY SMTT(30), <1>3, <1>4, <1>5
<1> HIDE DEF cell
<1>8. cells = {Datum(r, v)}
  BY <1>6, <1>7
<1>9. Received(q, n) = IF Cardinality(cells) = 1 THEN CHOOSE c \in cells : TRUE ELSE Junk
  BY DEF Received, cell, from, r, L
<1> HIDE DEF cells
<1>10. Cardinality(cells) = 1
  BY <1>8, FS_Singleton
<1>11. Received(q, n) = Datum(r, v)
  BY <1>8, <1>9, <1>10
<1> QED BY <1>2, <1>11 DEF r

---------------------------------------------------------------------------
(* A request stays sound while the records in it are not visited again, and *)
(* their flags are only cleared with the value that is in it.              *)
LEMMA StillSound ==
  ASSUME NEW q, Sound(q), length' = length, Targets(q) \cap todo' = {},
         \A r \in Targets(q) : /\ r \in dirty => r \in dirty'
                               /\ r \notin dirty' => value'[r] = value[r]
  PROVE  Sound(q)'
<1>1. PICK off : Layout(q, off)
  BY DEF Sound
<1>2. ASSUME NEW n \in 1..q.count PROVE Placed(q, off, n)'
  <2>1. Placed(q, off, n) /\ Target(q, n) \in Targets(q)
    BY <1>1 DEF Layout, Targets
  <2> QED BY <2>1 DEF Placed, Target
<1>3. Layout(q, off)'
  BY <1>1, <1>2 DEF Layout
<1> QED BY <1>3 DEF Sound, Targets, Target

(* The symbols of a request to which a record was added.                   *)
LEMMA AddedTargets ==
  ASSUME NEW q, IsBlock(q), NEW d, NEW r, Added(d, q, r)
  PROVE  /\ \A n \in 1..q.count : Target(d, n) = Target(q, n)
         /\ Target(d, q.count + 1) = r
         /\ Targets(d) = Targets(q) \cup {r}
<1>1. q.count \in Nat /\ d.count = q.count + 1
  BY ConstantsAre DEF IsBlock, Added
<1>2. ASSUME NEW n \in 1..q.count PROVE Target(d, n) = Target(q, n)
  <2>1. 3 * (n - 1) \in 0..3 * q.count - 1
    BY <1>1
  <2> QED BY <2>1 DEF Added, Target
<1>3. Target(d, q.count + 1) = r
  <2>1. 3 * ((q.count + 1) - 1) = 3 * q.count /\ 3 * q.count \in 3 * q.count..3 * q.count + 2
    BY <1>1
  <2> QED BY <2>1 DEF Added, Target, Header
<1>4. \A n : n \in 1..d.count <=> n \in 1..q.count \/ n = q.count + 1
  BY <1>1
<1>5. Targets(d) = Targets(q) \cup {r}
  BY <1>2, <1>3, <1>4 DEF Targets
<1> QED BY <1>2, <1>3, <1>5

(* A request in which a record is collected is as sound as it was.         *)
LEMMA AddedSound ==
  ASSUME Types, value \in [Records -> Values],
         NEW q, IsBlock(q), Fits(q), Sound(q), NEW d, NEW r \in todo, r \in dirty, Added(d, q, r),
         length' = length, value' = value, todo' = todo \ {r}, dirty' = dirty \ ({r} \ Mismatched)
  PROVE  Sound(d)'
<1>1. PICK off : Layout(q, off)
  BY DEF Sound
<1>2. /\ q.count \in Nat /\ q.size \in Nat /\ d.count = q.count + 1 /\ d.size = q.size + length[r]
      /\ r \in Records /\ length[r] \in Nat \ {0}
  BY SMTT(30), ConstantsAre, LengthIs DEF IsBlock, Added, Types
<1>3. PICK off2 : off2 = [n \in 0..q.count + 1 |-> IF n <= q.count THEN off[n] ELSE d.size]
  OBVIOUS
<1>4. /\ off2 \in [0..d.count -> Nat] /\ off2[0] = 0 /\ off2[d.count] = d.size
      /\ off2[q.count] = q.size
      /\ \A n \in 1..q.count : off2[n] = off[n] /\ off2[n - 1] = off[n - 1]
  <2>1. off \in [0..q.count -> Nat] /\ off[0] = 0 /\ off[q.count] = q.size
    BY <1>1 DEF Layout
  <2> QED BY SMTT(30), <1>2, <1>3, <2>1
<1>5. /\ \A n \in 1..q.count : Target(d, n) = Target(q, n)
      /\ Target(d, q.count + 1) = r /\ Targets(d) = Targets(q) \cup {r}
  BY AddedTargets
<1>6. ASSUME NEW n \in 1..q.count PROVE Placed(d, off2, n)'
  <2>1. Placed(q, off, n) /\ Target(q, n) \in Targets(q) /\ Target(q, n) # r
    BY <1>1 DEF Layout, Targets, Sound
  <2>2. off[n] \in Nat /\ off[n - 1] \in Nat /\ off[n] <= q.size
    <3>1. n \in 0..q.count /\ n - 1 \in 0..q.count
      BY <1>2
    <3> QED BY <1>1, <2>1, <3>1 DEF Layout, Placed
  <2>3. \A i \in off[n - 1]..off[n] - 1 : d.cells[HeaderArea + i] = q.cells[HeaderArea + i]
    <3>1. \A i \in off[n - 1]..off[n] - 1 : i \in 0..q.size - 1
      BY <1>2, <2>2
    <3> QED BY <3>1 DEF Added
  <2>4. off2[n] <= d.size
    BY <1>2, <1>4, <2>2
  <2>5. Placed(d, off2, n)
    BY <1>4, <1>5, <2>1, <2>3, <2>4 DEF Placed
  <2>6. Target(d, n) \in dirty' <=> Target(d, n) \in dirty
    BY <1>5, <2>1
  <2> QED BY <2>5, <2>6 DEF Placed, Target
<1>7. Placed(d, off2, q.count + 1)'
  <2>1. /\ (q.count + 1) - 1 = q.count /\ off2[q.count + 1] = off2[q.count] + length[r]
        /\ off2[q.count + 1] <= d.size
    BY <1>2, <1>4
  <2>2. \A i \in off2[q.count]..off2[q.count + 1] - 1 :
          r \notin Mismatched => d.cells[HeaderArea + i] = Datum(r, value[r])
    <3>1. /\ off2[q.count] = q.size /\ off2[q.count + 1] = q.size + length[r]
          /\ off2[q.count + 1] - 1 = q.size + length[r] - 1
      BY <1>2, <1>4
    <3> QED BY <3>1 DEF Added
  <2>3. Target(d, q.count + 1)' = r
    BY <1>5 DEF Target
  <2>4. r \in Mismatched => r \in dirty'
    OBVIOUS
  <2>5. value'[r] \in Values
    BY <1>2
  <2> QED BY <1>2, <2>1, <2>2, <2>3, <2>4, <2>5 DEF Placed
<1>8. Layout(d, off2)'
  <2>1. \A n \in 1..d.count : n \in 1..q.count \/ n = q.count + 1
    BY <1>2
  <2> QED BY <1>4, <1>6, <1>7, <2>1 DEF Layout
<1>9. Targets(d)' \cap todo' = {}
  BY <1>5 DEF Sound, Targets, Target
<1> QED BY <1>8, <1>9 DEF Sound

---------------------------------------------------------------------------
(* The inductive invariant.  What is in a request is not visited again in  *)
(* the pass, so that a request never holds an older value of a record whose *)
(* flag was cleared with a newer one: Sound says so of each request.       *)
PassInv ==
  /\ BlocksInv
  /\ value \in [Records -> Values] /\ failures \in Nat
  /\ phase = "idle" => req = <<>> /\ proc = Empty
  /\ failures = 0 => \A q \in Requests : Sound(q)
  /\ OwnDatum /\ NothingLost

(* The invariant holds in the beginning.                                   *)
LEMMA PassInit == Init => PassInv
<1> SUFFICES ASSUME Init PROVE PassInv
  OBVIOUS
<1>1. Requests = {Empty}
  BY DEF Init, Requests
<1>2. OwnDatum /\ NothingLost
  BY DEF Init, OwnDatum, NothingLost, Datum
<1> QED BY <1>1, <1>2, EmptySound, BlocksInit, ConstantsAssumption DEF PassInv, Init

(* What the PLC does not refuse, it has.                                   *)
LEMMA Executed ==
  ASSUME PassInv, failures = 0, NEW refused, Execute(refused), Sending \in Requests,
         NEW r \in Records
  PROVE  /\ r \in Targets(Sending) \ refused =>
              /\ r \in Mismatched => r \in dirty
              /\ r \notin Mismatched =>
                   \E v \in Values : symbols'[r] = Datum(r, v) /\ (r \notin dirty => v = value[r])
         /\ r \notin Targets(Sending) \ refused => symbols'[r] = symbols[r]
<1> DEFINE q == Sending
           n == CHOOSE m \in 1..q.count : Target(q, m) = r
<1>1. /\ IsBlock(q) /\ Fits(q) /\ Types /\ Sound(q)
  BY DEF PassInv, BlocksInv
<1>2. r \notin Targets(q) \ refused => symbols'[r] = symbols[r]
  BY DEF Execute
<1>3. ASSUME r \in Targets(q) \ refused
      PROVE  /\ r \in Mismatched => r \in dirty
             /\ r \notin Mismatched =>
                  \E v \in Values : symbols'[r] = Datum(r, v) /\ (r \notin dirty => v = value[r])
  <2>1. symbols'[r] = Received(q, n)
    BY <1>3 DEF Execute
  <2>2. n \in 1..q.count /\ Target(q, n) = r
    BY <1>3 DEF Targets
  <2> HIDE DEF n, q
  <2>3. PICK off : Layout(q, off)
    BY <1>1 DEF Sound
  <2>4. r \in Mismatched => r \in dirty
    BY <2>2, <2>3 DEF Layout, Placed
  <2>5. ASSUME r \notin Mismatched
        PROVE  \E v \in Values : symbols'[r] = Datum(r, v) /\ (r \notin dirty => v = value[r])
    BY <1>1, <2>1, <2>2, <2>3, <2>5, ReceivedIs
  <2> QED BY <2>4, <2>5
<1> QED BY <1>2, <1>3

(* Sending a request keeps the promise for its symbols, refused or not.    *)
LEMMA SendKeeps ==
  ASSUME PassInv, failures = 0, failures' = 0, NEW refused \in SUBSET Targets(Sending),
         Execute(refused), Sent, UNCHANGED <<length, epicsVars, dirty, todo>>
  PROVE  (\A q \in Requests : Sound(q))' /\ OwnDatum' /\ NothingLost'
<1>1. /\ Sending \in Requests /\ Requests' \subseteq Requests \cup {Empty}
      /\ Requests \subseteq Requests' \cup {Sending}
  BY SentIs DEF PassInv
<1>2. ASSUME NEW q \in Requests' PROVE Sound(q)'
  <2>1. Sound(q)
    BY <1>1, EmptySound DEF PassInv
  <2> QED BY <2>1, StillSound DEF epicsVars, Sound
<1>3. OwnDatum'
  <2>1. ASSUME NEW r \in Records \ Mismatched PROVE symbols'[r].rec = r
    <3>1. symbols[r].rec = r
      BY DEF PassInv, OwnDatum
    <3>2. \A v : Datum(r, v).rec = r
      BY DEF Datum
    <3>3. symbols'[r] = symbols[r] \/ \E v \in Values : symbols'[r] = Datum(r, v)
      BY <1>1, Executed
    <3> QED BY <3>1, <3>2, <3>3
  <2> QED BY <2>1 DEF OwnDatum
<1>4. NothingLost'
  <2> SUFFICES ASSUME NEW r \in Records, r \notin dirty, r \notin lost'
               PROVE  \/ \E q \in Requests' : r \in Targets(q)
                      \/ symbols'[r] = Datum(r, value[r])
    BY DEF NothingLost, Targets, Target, epicsVars
  <2>1. r \notin refused /\ (r \notin Targets(Sending) => r \notin lost)
    BY DEF Execute
  <2>2. CASE r \in Targets(Sending)
    BY <1>1, <2>1, <2>2, Executed
  <2>3. CASE r \notin Targets(Sending)
    <3>1. symbols'[r] = symbols[r]
      BY <1>1, <2>3, Executed
    <3>2. (\E q \in Requests : r \in Targets(q)) \/ symbols[r] = Datum(r, value[r])
      BY <2>1, <2>3 DEF PassInv, NothingLost
    <3>3. \A q \in Requests : r \in Targets(q) => q \in Requests'
      BY <1>1, <2>3
    <3> QED BY <3>1, <3>2, <3>3
  <2> QED BY <2>2, <2>3
<1> QED BY <1>2, <1>3, <1>4

(* Collecting a record clears its flag with its value in the request.      *)
LEMMA CollectKeeps ==
  ASSUME PassInv, failures = 0, failures' = 0, NEW r \in Records, Collect(r)
  PROVE  (\A q \in Requests : Sound(q))' /\ OwnDatum' /\ NothingLost'
<1>1. PICK d : d = proc'
  OBVIOUS
<1>2. /\ r \in todo /\ r \in dirty /\ todo' = todo \ {r} /\ dirty' = dirty \ ({r} \ Mismatched)
      /\ req' = Queued /\ symbols' = symbols /\ lost' = lost
      /\ length' = length /\ value' = value
  BY DEF Collect, Visit, epicsVars
<1>3. BlocksInv /\ Types
  BY DEF PassInv, BlocksInv
<1>4. IsBlock(Open) /\ Fits(Open) /\ Open.count < maxrec /\ (~Full => Open = proc)
  BY <1>3, OpenIs
<1>5. Added(d, Open, r)
  BY <1>1, <1>3, <1>4, AddedIs DEF Collect
<1>6. /\ Requests' \subseteq Requests \cup {d}
      /\ Requests \subseteq Requests' \cup (IF Full THEN {} ELSE {proc})
      /\ d \in Requests'
  BY <1>1, <1>2, <1>3, QueuedIs DEF Requests
<1>7. Sound(Open)
  BY EmptySound DEF PassInv, Open, Requests
<1>8. Sound(d)'
  BY <1>2, <1>3, <1>4, <1>5, <1>7, AddedSound DEF PassInv
<1>9. ASSUME NEW q \in Requests PROVE Sound(q)'
  <2>1. Sound(q)
    BY DEF PassInv
  <2>2. r \notin Targets(q) /\ Targets(q) \cap todo' = {}
    BY <1>2, <2>1 DEF Sound
  <2> QED BY <1>2, <2>1, <2>2, StillSound
<1>10. OwnDatum'
  BY <1>2 DEF PassInv, OwnDatum
<1>11. Targets(d) = Targets(Open) \cup {r}
  BY <1>4, <1>5, AddedTargets
<1>12. NothingLost'
  <2> SUFFICES ASSUME NEW s \in Records, s \notin dirty', s \notin lost
               PROVE  (\E q \in Requests' : s \in Targets(q)) \/ symbols[s] = Datum(s, value[s])
    BY <1>2 DEF NothingLost, Targets, Target
  <2>1. CASE s = r
    BY <1>6, <1>11, <2>1
  <2>2. CASE s # r
    <3>1. (\E q \in Requests : s \in Targets(q)) \/ symbols[s] = Datum(s, value[s])
      BY <1>2, <2>2 DEF PassInv, NothingLost
    <3>2. \A q \in Requests : q \in Requests' \/ (q = proc /\ ~Full)
      BY <1>6
    <3>3. ~Full => Targets(proc) \subseteq Targets(d)
      BY <1>4, <1>11
    <3> QED BY <1>6, <3>1, <3>2, <3>3
  <2> QED BY <2>1, <2>2
<1> QED BY <1>6, <1>8, <1>9, <1>10, <1>12

(* Steps that leave the requests alone, and clear no flag.                 *)
LEMMA QuietKeeps ==
  ASSUME PassInv, failures = 0, failures' = 0, UNCHANGED <<length, proc, req, symbols, lost>>,
         \A r \in Records : /\ r \in dirty => r \in dirty'
                            /\ r \notin dirty' => value'[r] = value[r],
         \A q \in Requests : Targets(q) \cap todo' = {}
  PROVE  (\A q \in Requests : Sound(q))' /\ OwnDatum' /\ NothingLost'
<1>1. Requests' = Requests
  BY DEF Requests
<1>2. ASSUME NEW q \in Requests PROVE Sound(q)'
  <2>1. Sound(q)
    BY DEF PassInv
  <2>2. Targets(q) \subseteq Records
    BY <2>1 DEF Sound, Layout, Placed, Targets
  <2> QED BY <2>1, <2>2, StillSound
<1>3. OwnDatum'
  BY DEF PassInv, OwnDatum
<1>4. NothingLost'
  BY <1>1 DEF PassInv, NothingLost, Targets, Target
<1> QED BY <1>1, <1>2, <1>3, <1>4

(* Every step keeps the invariant; a failed allocation ends what it says.  *)
LEMMA PassNext == PassInv /\ [Next]_vars => PassInv'
<1> SUFFICES ASSUME PassInv, [Next]_vars PROVE PassInv'
  OBVIOUS
<1> DEFINE Kept == (\A q \in Requests : Sound(q))' /\ OwnDatum' /\ NothingLost'
<1>1. BlocksInv'
  BY BlocksNext DEF PassInv
<1>2. value' \in [Records -> Values]
  BY DEF PassInv, Next, vars, epicsVars, UserWrite, PassBegins, Visit, Skip, Collect, HeaderRefused,
         DatumRefused, PassSends, Send, SendFails, NoResult
<1>3. failures' \in Nat /\ (failures' = 0 => failures = 0)
  BY DEF PassInv, Next, vars, epicsVars, UserWrite, PassBegins, Visit, Skip, Collect, HeaderRefused,
         DatumRefused, PassSends, Send, SendFails, NoResult, AllocFails
<1>4. phase' = "idle" => req' = <<>> /\ proc' = Empty
  <2>1. CASE Sent
    BY <2>1, SentIs DEF PassInv
  <2> QED
    BY <2>1 DEF PassInv, Next, vars, UserWrite, PassBegins, Visit, Skip, Collect, HeaderRefused,
                DatumRefused, PassSends, Send, SendFails, NoResult
<1>5. ASSUME failures' = 0 PROVE Kept
  <2>1. failures = 0 /\ ~AllocFails
    BY <1>3, <1>5 DEF AllocFails, PassInv
  <2>2. \A q \in Requests : Targets(q) \cap todo = {}
    BY <2>1 DEF PassInv, Sound
  <2>3. ASSUME NEW r \in Records, NEW v \in Values, UserWrite(r, v) PROVE Kept
    BY <1>5, <2>1, <2>2, <2>3, QuietKeeps DEF UserWrite, PassInv
  <2>4. CASE PassBegins
    <3>1. Requests = {Empty}
      BY <2>4 DEF PassInv, PassBegins, Requests
    <3>2. Targets(Empty) = {}
      BY EmptyIs DEF Targets
    <3> QED BY <1>5, <2>1, <2>4, <3>1, <3>2, QuietKeeps DEF PassBegins, epicsVars
  <2>5. ASSUME NEW r \in Records, Skip(r) PROVE Kept
    BY <1>5, <2>1, <2>2, <2>5, QuietKeeps DEF Skip, Visit, epicsVars
  <2>6. ASSUME NEW r \in Records, Collect(r) PROVE Kept
    BY <1>5, <2>1, <2>6, CollectKeeps
  <2>7. CASE PassSends
    BY <1>5, <2>1, <2>2, <2>7, QuietKeeps DEF PassSends, epicsVars
  <2>8. CASE Send
    BY <1>5, <2>1, <2>8, SendKeeps DEF Send
  <2>9. CASE SendFails
    BY <1>5, <2>1, <2>9, SendKeeps DEF SendFails
  <2>10. CASE UNCHANGED vars
    BY <1>5, <2>1, <2>2, <2>10, QuietKeeps DEF vars, epicsVars
  <2> QED
    BY <2>1, <2>3, <2>4, <2>5, <2>6, <2>7, <2>8, <2>9, <2>10
    DEF Next, HeaderRefused, DatumRefused, NoResult
<1>6. failures' # 0 => OwnDatum' /\ NothingLost'
  BY DEF OwnDatum, NothingLost
<1> QED BY <1>1, <1>2, <1>3, <1>4, <1>5, <1>6 DEF PassInv

(* A symbol only ever receives data of its own record, however the block   *)
(* was doubled, moved up and cut into requests, as long as memory does not *)
(* run out (operator(), add, read_ptr and tcwrite of tcProcWrite).         *)
THEOREM DataArrive == Spec => []OwnDatum
<1>1. PassInv => OwnDatum
  BY DEF PassInv
<1> QED BY <1>1, PassInit, PassNext, PTL DEF Spec

(* A record that is not dirty has its value in a request or in the PLC, if *)
(* the PLC took it: clearing myplcdirty never loses the last value written, *)
(* also when EPICS writes between the visit and the sending.               *)
THEOREM NoneLost == Spec => []NothingLost
<1>1. PassInv => NothingLost
  BY DEF PassInv
<1> QED BY <1>1, PassInit, PassNext, PTL DEF Spec
=============================================================================
