--------------------------- MODULE ParserProofs ---------------------------
(***************************************************************************)
(* What the parser callbacks read of a substitution file and of a tpy      *)
(* file, for every document with elements where ParseUtil.cpp and          *)
(* ParseTpy.cpp look for them, whatever unknown elements, text and CDATA   *)
(* sections stand around and between them.  A document is a tree of        *)
(* places, an element in the elements around it, and the path of a place   *)
(* is how the stack looks when the parser is there.  The first part says   *)
(* what a step of the document does to the place; the second, what the     *)
(* callbacks of a substitution file know in each place.                    *)
(*                                                                         *)
(* The third part does the same for the tpy file.  A tpy file has 48       *)
(* places and parserinfo_type 27 fields, so what the document says is      *)
(* first brought into one record, the view from a place; how a step        *)
(* changes the view does not depend on the callbacks, and what the         *)
(* callbacks do to what the parser Knows of a view not on the document.    *)
(* An entry is stored in time because the two agree on what the element    *)
(* that ends has told.                                                     *)
(***************************************************************************)
EXTENDS SubstParser, TpyParser, SequenceTheorems, TLAPS

\* p begins s.
Prefix(p, s) == Len(p) <= Len(s) /\ \A i \in 1..Len(p) : s[i] = p[i]

(***************************************************************************)
(* The places P of a document over the element names E: the place around   *)
(* each, the name of its own element and its path.  Elements within one    *)
(* that is skipped have no place.                                          *)
(***************************************************************************)
IsTree(P, up, own, path, skips, E) ==
  /\ Root \in P /\ path[Root] = <<>> /\ own[Root] = Root
  /\ path \in [P -> Seq(E)] /\ own \in [P -> E] /\ up \in [P -> P]
  /\ \A k \in P \ {Root} : path[k] = Append(path[up[k]], own[k])
  /\ \A k \in P : \A i \in 1..Len(path[k]) :
        path[k][i] # Unknown /\ (path[k][i] \in skips => i = Len(path[k]))
  /\ \A j, k \in P : path[j] = path[k] => j = k

\* Where the grammar allows an element there is a place for it.
GrammarFits(P, up, own) ==
  \A k \in P : own[k] \in DOMAIN grammar =>
    \A n \in grammar[own[k]] : \E c \in P \ {Root} : up[c] = k /\ own[c] = n

(* The parser is in place k, or deeper, in an element without a place.     *)
(* Opened are the elements around k, the ones that ended in them and no    *)
(* other, and there is text of these only.                                 *)
At(P, up, own, path, skips, E, k) ==
  /\ stack \in Seq(E) /\ Prefix(path[k], stack)
  /\ Len(stack) > Len(path[k]) =>
       stack[Len(path[k]) + 1] = Unknown \/ (k # Root /\ own[k] \in skips)
  /\ \A p \in opened : \E j \in P \ {Root} : p = path[j] /\ Prefix(path[up[j]], path[k])
  /\ \A j \in P \ {Root} : Prefix(path[j], path[k]) => path[j] \in opened
  /\ \A t \in given : /\ t = <<t[1], t[2]>> /\ t[1] \in opened
                      /\ t[2] = "cdata" => <<t[1], "section">> \in given
  /\ inCData /\ stack \in opened => <<stack, "section">> \in given

(* Sequences.                                                              *)
LEMMA Appended ==
  ASSUME NEW S, NEW s \in Seq(S), NEW n \in S
  PROVE  /\ Append(s, n) \in Seq(S) /\ Len(Append(s, n)) = Len(s) + 1
         /\ \A i \in 1..Len(s) : Append(s, n)[i] = s[i]
         /\ Append(s, n)[Len(s) + 1] = n
OBVIOUS

LEMMA AllButLast ==
  ASSUME NEW S, NEW s \in Seq(S), s # <<>>
  PROVE  /\ Len(s) \in Nat /\ Len(s) >= 1
         /\ Front(s) \in Seq(S) /\ Len(Front(s)) = Len(s) - 1
         /\ \A i \in 1..Len(s) - 1 : Front(s)[i] = s[i]
<1>1. Len(s) \in Nat /\ Len(s) >= 1
  OBVIOUS
<1>2. /\ SubSeq(s, 1, Len(s) - 1) \in Seq(S)
      /\ Len(SubSeq(s, 1, Len(s) - 1)) = Len(s) - 1
      /\ \A i \in 1..Len(s) - 1 : SubSeq(s, 1, Len(s) - 1)[i] = s[i]
  <2>1. 1 \in Int /\ Len(s) - 1 \in Int /\ \A i \in 1..Len(s) - 1 : s[i] \in S
    BY <1>1
  <2> DEFINE m == Len(s) - 1
             f == SubSeq(s, 1, m)
  <2>2. m \in Int /\ 1 \in Int /\ \A i \in 1..m : s[i] \in S
    BY <2>1
  <2>3. m \in Nat /\ m = Len(s) - 1
    BY <1>1
  <2> HIDE DEF m
  <2>4. /\ f \in Seq(S) /\ Len(f) = (IF 1 <= m THEN m - 1 + 1 ELSE 0)
        /\ \A i \in 1..m - 1 + 1 : f[i] = s[1 + i - 1]
    BY <2>2, SubSeqProperties
  <2> HIDE DEF f
  <2>5. f \in Seq(S) /\ Len(f) = m /\ \A i \in 1..m : f[i] = s[i]
    BY <2>3, <2>4
  <2> QED BY <2>3, <2>5 DEF f, m
<1> QED BY <1>1, <1>2 DEF Front

LEMMA PrefixFacts ==
  ASSUME NEW E, NEW p \in Seq(E), NEW s \in Seq(E)
  PROVE  /\ IsPrefix(p, s) <=> Prefix(p, s)
         /\ Prefix(p, s) /\ Len(p) = Len(s) => p = s
         /\ Prefix(p, p)
         /\ \A n \in E : Prefix(p, s) => Prefix(p, Append(s, n))
<1>1. Prefix(p, p)
  BY DEF Prefix
<1>2. Prefix(p, s) /\ Len(p) = Len(s) => p = s
  BY DEF Prefix
<1>3. ASSUME NEW n \in E, Prefix(p, s) PROVE Prefix(p, Append(s, n))
  <2> DEFINE t == Append(s, n)
  <2>1. Len(t) = Len(s) + 1 /\ \A i \in 1..Len(s) : t[i] = s[i]
    BY Appended
  <2>2. Len(p) \in Nat /\ Len(s) \in Nat
    OBVIOUS
  <2> HIDE DEF t
  <2>3. Prefix(p, t)
    BY <1>3, <2>1, <2>2 DEF Prefix
  <2> QED BY <2>3 DEF t
<1>4. ASSUME Len(p) <= Len(s)
      PROVE  (SubSeq(p, 1, Len(p)) = SubSeq(s, 1, Len(p))) <=> (\A i \in 1..Len(p) : s[i] = p[i])
  <2> DEFINE a == SubSeq(p, 1, Len(p))
             b == SubSeq(s, 1, Len(p))
  <2>1. a \in Seq(E) /\ Len(a) = Len(p) /\ \A i \in 1..Len(p) : a[i] = p[i]
    OBVIOUS
  <2>2. b \in Seq(E) /\ Len(b) = Len(p) /\ \A i \in 1..Len(p) : b[i] = s[i]
    BY <1>4
  <2> HIDE DEF a, b
  <2>3. (a = b) <=> (\A i \in 1..Len(p) : s[i] = p[i])
    BY <2>1, <2>2, SMTT(30)
  <2> QED BY <2>3 DEF a, b
<1>5. IsPrefix(p, s) <=> Prefix(p, s)
  BY <1>4 DEF IsPrefix, Prefix
<1> QED BY <1>1, <1>2, <1>3, <1>5

LEMMA StackFacts ==
  ASSUME NEW E, stack \in Seq(E), NEW n \in E
  PROVE  /\ Append(stack, n) \in Seq(E) /\ Len(Append(stack, n)) = Len(stack) + 1
         /\ \A i \in 1..Len(stack) : Append(stack, n)[i] = stack[i]
         /\ Append(stack, n)[Len(stack) + 1] = n
         /\ stack # <<>> =>
              /\ Len(stack) >= 1 /\ Inner = stack[Len(stack)]
              /\ Front(stack) \in Seq(E) /\ Len(Front(stack)) = Len(stack) - 1
              /\ \A i \in 1..Len(stack) - 1 : Front(stack)[i] = stack[i]
         /\ stack = <<>> => Inner = Root
         /\ \A tag : Within(tag) <=> \E i \in 1..Len(stack) : stack[i] = tag
<1>1. /\ Append(stack, n) \in Seq(E) /\ Len(Append(stack, n)) = Len(stack) + 1
      /\ \A i \in 1..Len(stack) : Append(stack, n)[i] = stack[i]
      /\ Append(stack, n)[Len(stack) + 1] = n
  BY Appended
<1>2. ASSUME stack # <<>>
      PROVE  /\ Len(stack) >= 1 /\ Inner = stack[Len(stack)]
             /\ Front(stack) \in Seq(E) /\ Len(Front(stack)) = Len(stack) - 1
             /\ \A i \in 1..Len(stack) - 1 : Front(stack)[i] = stack[i]
  <2> QED BY <1>2, AllButLast DEF Inner, Last
<1>3. stack = <<>> => Inner = Root
  BY DEF Inner
<1>4. \A tag : Within(tag) <=> \E i \in 1..Len(stack) : stack[i] = tag
  BY DEF Within, ToSet
<1> QED BY <1>1, <1>2, <1>3, <1>4

\* A place and the place around it.
LEMMA TreeFacts ==
  ASSUME NEW P, NEW up, NEW own, NEW path, NEW skips, NEW E, IsTree(P, up, own, path, skips, E),
         NEW k \in P
  PROVE  /\ path[k] \in Seq(E) /\ Len(path[k]) \in Nat
         /\ k = Root => path[k] = <<>>
         /\ k # Root =>
              /\ up[k] \in P /\ path[up[k]] \in Seq(E) /\ own[k] \in E
              /\ Len(path[k]) = Len(path[up[k]]) + 1 /\ path[k][Len(path[k])] = own[k]
              /\ \A i \in 1..Len(path[up[k]]) : path[k][i] = path[up[k]][i]
              /\ Prefix(path[up[k]], path[k])
              /\ own[k] # Unknown /\ (own[up[k]] \in skips => up[k] = Root)
<1>1. path[k] \in Seq(E) /\ Len(path[k]) \in Nat /\ (k = Root => path[k] = <<>>)
  BY DEF IsTree
<1>2. ASSUME k # Root
      PROVE  /\ up[k] \in P /\ path[up[k]] \in Seq(E) /\ own[k] \in E
             /\ Len(path[k]) = Len(path[up[k]]) + 1 /\ path[k][Len(path[k])] = own[k]
             /\ \A i \in 1..Len(path[up[k]]) : path[k][i] = path[up[k]][i]
  <2>1. up[k] \in P /\ path[up[k]] \in Seq(E) /\ own[k] \in E
        /\ path[k] = Append(path[up[k]], own[k])
    BY <1>2 DEF IsTree
  <2> QED BY <2>1
<1>3. ASSUME k # Root PROVE own[k] # Unknown /\ Prefix(path[up[k]], path[k])
  <2>1. Len(path[k]) \in 1..Len(path[k])
    BY <1>1, <1>2, <1>3
  <2>2. own[k] # Unknown
    BY <1>2, <1>3, <2>1 DEF IsTree
  <2> QED BY <1>1, <1>2, <1>3, <2>2 DEF Prefix
<1>4. ASSUME k # Root, own[up[k]] \in skips, up[k] # Root PROVE FALSE
  <2> DEFINE u == up[k]
  <2>1. u \in P /\ Len(path[u]) = Len(path[up[u]]) + 1 /\ path[u][Len(path[u])] = own[u]
        /\ Len(path[up[u]]) \in Nat
    <3>1. u \in P /\ u # Root
      BY <1>2, <1>4
    <3>2. up[u] \in P /\ path[up[u]] \in Seq(E) /\ path[u] = Append(path[up[u]], own[u])
          /\ own[u] \in E
      BY <3>1 DEF IsTree
    <3> HIDE DEF u
    <3> QED BY <3>1, <3>2
  <2>2. /\ Len(path[k]) = Len(path[u]) + 1 /\ \A i \in 1..Len(path[u]) : path[k][i] = path[u][i]
        /\ own[u] \in skips
    BY <1>2, <1>4
  <2> HIDE DEF u
  <2>3. Len(path[u]) \in 1..Len(path[u]) /\ Len(path[u]) \in 1..Len(path[k])
    BY <1>1, <2>1, <2>2
  <2>4. path[k][Len(path[u])] \in skips
    BY <2>1, <2>2, <2>3
  <2>5. Len(path[u]) = Len(path[k])
    BY <2>3, <2>4 DEF IsTree
  <2> QED BY <2>1, <2>2, <2>3, <2>5
<1> QED BY <1>1, <1>2, <1>3, <1>4

LEMMA PrefixOrder ==
  ASSUME NEW E, NEW p \in Seq(E), NEW q \in Seq(E), NEW s \in Seq(E)
  PROVE  /\ Prefix(p, q) /\ Prefix(q, s) => Prefix(p, s)
         /\ Prefix(p, s) /\ Prefix(q, s) /\ Len(p) <= Len(q) => Prefix(p, q)
<1>1. Len(p) \in Nat /\ Len(q) \in Nat /\ Len(s) \in Nat
  OBVIOUS
<1> QED BY <1>1 DEF Prefix

\* The text of an element is as it was.
Kept(q) == TextAt(q)' = TextAt(q) /\ ValueAt(q)' = ValueAt(q)

\* It is when no piece of it is new or gone.
LEMMA KeptIs ==
  ASSUME NEW q, \A x : <<q, x>> \in given' <=> <<q, x>> \in given,
         \A t \in given \cup given' : t = <<t[1], t[2]>>
  PROVE  Kept(q)
<1>1. TextAt(q)' = TextAt(q)
  <2>1. \A t : t \in TextAt(q)' <=> t \in TextAt(q)
    BY DEF TextAt
  <2> QED BY <2>1
<1> QED BY <1>1 DEF Kept, ValueAt

(* An element starts: one without a place, deeper in place k, or the one    *)
(* of a place in k.                                                        *)
LEMMA OpenStep ==
  ASSUME NEW P, NEW up, NEW own, NEW path, NEW skips, NEW E, IsTree(P, up, own, path, skips, E),
         GrammarFits(P, up, own), NEW k \in P, At(P, up, own, path, skips, E, k),
         NEW n \in E, DocOpen(skips, n)
  PROVE  /\ given' = given /\ grammar' = grammar /\ stack' = Append(stack, n)
         /\ \/ /\ \/ n = Unknown
                  \/ n \in Hidden /\ (Len(stack) > Len(path[k]) \/ (k # Root /\ own[k] \in skips))
               /\ opened' = opened /\ At(P, up, own, path, skips, E, k)'
            \/ \E c \in P \ {Root} :
                 /\ stack = path[k] /\ up[c] = k /\ own[c] = n /\ stack' = path[c]
                 /\ IsLeaf(n) => path[c] \notin opened
                 /\ opened' = opened \cup {path[c]} /\ At(P, up, own, path, skips, E, c)'
<1> DEFINE open == Append(stack, n)
<1>1. /\ given' = given /\ grammar' = grammar /\ stack' = open /\ ~inCData /\ inCData' = inCData
      /\ opened' = IF Skipped(skips) \/ n = Unknown THEN opened ELSE opened \cup {open}
  BY DEF DocOpen
<1>2. /\ stack \in Seq(E) /\ Len(stack) \in Nat
      /\ open \in Seq(E) /\ Len(open) = Len(stack) + 1
      /\ \A i \in 1..Len(stack) : open[i] = stack[i]
      /\ open[Len(stack) + 1] = n
  BY StackFacts DEF At
<1>3. path[k] \in Seq(E) /\ Len(path[k]) \in Nat /\ Prefix(path[k], stack)
      /\ Len(path[k]) <= Len(stack)
  BY TreeFacts DEF At, Prefix
<1>4. Prefix(path[k], open)
  BY <1>2, <1>3, PrefixFacts
<1> HIDE DEF open
<1>5. CASE Skipped(skips) \/ n = Unknown
  <2>1. n = Unknown \/ (Skipped(skips) /\ n \in Hidden)
    BY <1>5 DEF DocOpen
  <2>2. Skipped(skips) => Len(stack) > Len(path[k]) \/ (k # Root /\ own[k] \in skips)
    <3>1. SUFFICES ASSUME Skipped(skips), Len(stack) = Len(path[k])
                   PROVE  k # Root /\ own[k] \in skips
      BY <1>2, <1>3
    <3>2. stack = path[k]
      BY <1>2, <1>3, <3>1, PrefixFacts
    <3>3. PICK tag \in skips \cup {Unknown} : Within(tag)
      BY <3>1 DEF Skipped
    <3>4. PICK i \in 1..Len(path[k]) : path[k][i] = tag
      BY <1>2, <3>2, <3>3, StackFacts
    <3>5. tag \in skips /\ i = Len(path[k])
      BY <3>3, <3>4 DEF IsTree
    <3>6. k # Root
      <4>1. SUFFICES ASSUME k = Root PROVE FALSE
        OBVIOUS
      <4>2. path[k] = <<>>
        BY <4>1, TreeFacts
      <4> QED BY <3>4, <4>2
    <3> QED BY <3>4, <3>5, <3>6, TreeFacts
  <2>3. Len(open) > Len(path[k])
    BY <1>2, <1>3
  <2>4. open[Len(path[k]) + 1] = Unknown \/ (k # Root /\ own[k] \in skips)
    <3>1. CASE Len(stack) > Len(path[k])
      <4>1. Len(path[k]) + 1 \in 1..Len(stack)
        BY <1>2, <1>3, <3>1
      <4> QED BY <1>2, <3>1, <4>1 DEF At
    <3>2. CASE Len(stack) = Len(path[k])
      <4>1. stack = path[k]
        BY <1>2, <1>3, <3>2, PrefixFacts
      <4>2. CASE n = Unknown
        BY <1>2, <4>1, <4>2
      <4>3. CASE Skipped(skips)
        BY <2>2, <3>2, <4>3
      <4> QED BY <1>5, <4>2, <4>3
    <3> QED BY <1>2, <1>3, <3>1, <3>2
  <2>5. opened' = opened
    BY <1>1, <1>5
  <2>6. At(P, up, own, path, skips, E, k)'
    BY <1>1, <1>2, <1>4, <2>3, <2>4, <2>5 DEF At
  <2> QED BY <1>1, <2>1, <2>5, <2>6, <2>2 DEF open
<1>6. CASE ~Skipped(skips) /\ n # Unknown
  <2>1. \A i \in 1..Len(stack) : stack[i] # Unknown /\ stack[i] \notin skips
    BY <1>2, <1>6, StackFacts DEF Skipped
  <2>2. Len(stack) = Len(path[k])
    <3>1. SUFFICES ASSUME Len(stack) > Len(path[k]) PROVE FALSE
      BY <1>2, <1>3
    <3>2. Len(path[k]) + 1 \in 1..Len(stack)
      BY <1>2, <1>3, <3>1
    <3>3. k # Root /\ own[k] \in skips
      BY <2>1, <3>1, <3>2 DEF At
    <3>4. Len(path[k]) \in 1..Len(stack) /\ path[k][Len(path[k])] = own[k]
      <4>1. Len(path[k]) = Len(path[up[k]]) + 1 /\ path[k][Len(path[k])] = own[k]
            /\ Len(path[up[k]]) \in Nat
        BY <3>3, TreeFacts DEF IsTree
      <4> QED BY <1>2, <3>1, <4>1
    <3> QED BY <1>3, <2>1, <3>3, <3>4 DEF Prefix
  <2>3. stack = path[k]
    BY <1>2, <1>3, <2>2, PrefixFacts
  <2>4. Inner = own[k]
    <3>1. CASE k = Root
      BY <2>3, <3>1, StackFacts, TreeFacts DEF IsTree, At
    <3>2. CASE k # Root
      <4>1. Len(path[k]) = Len(path[up[k]]) + 1 /\ path[k][Len(path[k])] = own[k]
            /\ Len(path[up[k]]) \in Nat
        BY <3>2, TreeFacts DEF IsTree
      <4>2. stack # <<>>
        BY <1>2, <2>2, <4>1
      <4> QED BY <1>2, <2>3, <4>1, <4>2, StackFacts
    <3> QED BY <3>1, <3>2
  <2>5. own[k] \in DOMAIN grammar /\ n \in grammar[own[k]]
    BY <1>6, <2>4 DEF DocOpen
  <2>6. PICK c \in P \ {Root} : up[c] = k /\ own[c] = n
    BY <2>5 DEF GrammarFits
  <2>7. path[c] = open /\ path[c] \in Seq(E) /\ Prefix(path[k], path[c])
    BY <2>3, <2>6, TreeFacts, ZenonT(40) DEF IsTree, open
  <2>8. IsLeaf(n) => path[c] \notin opened
    BY <2>7 DEF DocOpen, open
  <2>9. opened' = opened \cup {path[c]}
    BY <1>1, <1>6, <2>7
  <2>10. At(P, up, own, path, skips, E, c)'
    <3>1. stack' \in Seq(E) /\ Prefix(path[c], stack') /\ ~(Len(stack') > Len(path[c]))
      <4>1. Prefix(path[c], path[c])
        BY <2>7, PrefixFacts
      <4> QED BY <1>1, <1>2, <2>7, <4>1
    <3>2. \A p \in opened' : \E j \in P \ {Root} : p = path[j] /\ Prefix(path[up[j]], path[c])
      <4>1. TAKE p \in opened'
      <4>2. CASE p = path[c]
        BY <2>6, <2>7, <4>2
      <4>3. CASE p \in opened
        <5>1. PICK j \in P \ {Root} : p = path[j] /\ Prefix(path[up[j]], path[k])
          BY <4>3 DEF At
        <5>2. path[up[j]] \in Seq(E)
          BY <5>1, TreeFacts
        <5>3. Prefix(path[up[j]], path[c])
          BY <1>3, <2>7, <5>1, <5>2, PrefixOrder
        <5> QED BY <5>1, <5>3
      <4> QED BY <2>9, <4>1, <4>2, <4>3
    <3>3. \A j \in P \ {Root} : Prefix(path[j], path[c]) => path[j] \in opened'
      <4>1. SUFFICES ASSUME NEW j \in P \ {Root}, Prefix(path[j], path[c])
                     PROVE  path[j] \in opened'
        OBVIOUS
      <4>2. path[j] \in Seq(E) /\ Len(path[j]) \in Nat /\ Len(path[c]) = Len(path[k]) + 1
        BY <1>2, <2>2, <2>7, TreeFacts
      <4>3. CASE Len(path[j]) = Len(path[c])
        BY <2>7, <2>9, <4>1, <4>2, <4>3, PrefixFacts
      <4>4. CASE Len(path[j]) <= Len(path[k])
        BY <1>3, <2>7, <2>9, <4>1, <4>2, <4>4, PrefixOrder DEF At
      <4> QED BY <1>3, <4>1, <4>2, <4>3, <4>4 DEF Prefix
    <3>4. \A t \in given' : /\ t = <<t[1], t[2]>> /\ t[1] \in opened'
                            /\ t[2] = "cdata" => <<t[1], "section">> \in given'
      BY <1>1, <2>9 DEF At
    <3> QED BY <1>1, <3>1, <3>2, <3>3, <3>4 DEF At
  <2> QED BY <1>1, <2>3, <2>6, <2>7, <2>8, <2>9, <2>10 DEF open
<1> QED BY <1>5, <1>6

(* An element ends: one without a place, and the parser stays in k, or the  *)
(* one of k.  The text of the elements that ended in k is forgotten then.   *)
LEMMA CloseStep ==
  ASSUME NEW P, NEW up, NEW own, NEW path, NEW skips, NEW E, IsTree(P, up, own, path, skips, E),
         NEW k \in P, At(P, up, own, path, skips, E, k), DocClose
  PROVE  /\ stack # <<>> /\ stack' = Front(stack) /\ grammar' = grammar
         /\ \/ /\ Len(stack) > Len(path[k]) /\ stack \notin opened /\ given' = given
               /\ opened' = opened /\ At(P, up, own, path, skips, E, k)'
            \/ /\ stack = path[k] /\ k # Root /\ stack \in opened /\ Inner = own[k]
               /\ stack' = path[up[k]] /\ At(P, up, own, path, skips, E, up[k])'
               /\ \A j \in P \ {Root} : j = k \/ ~Prefix(path[k], path[j]) =>
                    /\ Kept(path[j]) /\ (path[j] \in opened' <=> path[j] \in opened)
                    /\ <<path[j], "section">> \in given' <=> <<path[j], "section">> \in given
<1> DEFINE rest == Front(stack)
<1>1. /\ stack # <<>> /\ stack' = rest /\ ~inCData /\ inCData' = inCData /\ grammar' = grammar
      /\ opened' = {p \in opened : ~IsStrictPrefix(stack, p)}
      /\ given' = {t \in given : ~IsStrictPrefix(stack, t[1])}
  BY DEF DocClose
<1>2. /\ stack \in Seq(E) /\ Len(stack) \in Nat /\ Len(stack) >= 1
      /\ rest \in Seq(E) /\ Len(rest) = Len(stack) - 1 /\ Inner = stack[Len(stack)]
      /\ \A i \in 1..Len(stack) - 1 : rest[i] = stack[i]
  BY <1>1, StackFacts DEF At
<1>3. path[k] \in Seq(E) /\ Len(path[k]) \in Nat /\ Prefix(path[k], stack)
      /\ Len(path[k]) <= Len(stack)
  BY TreeFacts DEF At, Prefix
<1>4. \A j \in P : path[j] \in Seq(E) /\ Len(path[j]) \in Nat
  BY TreeFacts
<1>5. \A j \in P : IsStrictPrefix(stack, path[j]) <=> Prefix(stack, path[j]) /\ stack # path[j]
  <2>1. TAKE j \in P
  <2>2. IsPrefix(stack, path[j]) <=> Prefix(stack, path[j])
    BY <1>2, <1>4, PrefixFacts
  <2> QED BY <2>2 DEF IsStrictPrefix
<1>6. \A t \in given : t = <<t[1], t[2]>> /\ t[1] \in opened
                       /\ (t[2] = "cdata" => <<t[1], "section">> \in given)
  BY DEF At
<1>7. \A t \in given' : /\ t = <<t[1], t[2]>> /\ t[1] \in opened'
                        /\ t[2] = "cdata" => <<t[1], "section">> \in given'
  BY <1>1, <1>6
<1> HIDE DEF rest
<1>8. CASE Len(stack) > Len(path[k])
  <2>1. PICK e \in 1..Len(stack) :
          stack[e] = Unknown \/ (stack[e] \in skips /\ e < Len(stack) )
    <3>1. stack[Len(path[k]) + 1] = Unknown \/ (k # Root /\ own[k] \in skips)
      BY <1>8 DEF At
    <3>2. CASE stack[Len(path[k]) + 1] = Unknown
      <4>1. Len(path[k]) + 1 \in 1..Len(stack)
        BY <1>2, <1>3, <1>8
      <4> QED BY <3>2, <4>1
    <3>3. CASE k # Root /\ own[k] \in skips
      <4>1. Len(path[k]) = Len(path[up[k]]) + 1 /\ path[k][Len(path[k])] = own[k]
            /\ Len(path[up[k]]) \in Nat
        BY <3>3, TreeFacts DEF IsTree
      <4>2. /\ Len(path[k]) \in 1..Len(stack) /\ Len(path[k]) < Len(stack)
            /\ Len(path[k]) \in 1..Len(path[k])
        BY <1>2, <1>3, <1>8, <4>1
      <4>3. stack[Len(path[k])] = own[k]
        BY <1>3, <4>1, <4>2 DEF Prefix
      <4> QED BY <3>3, <4>2, <4>3
    <3> QED BY <3>1, <3>2, <3>3
  <2>2. \A j \in P : ~Prefix(stack, path[j])
    <3>1. SUFFICES ASSUME NEW j \in P, Prefix(stack, path[j]) PROVE FALSE
      OBVIOUS
    <3>2. e \in 1..Len(path[j]) /\ path[j][e] = stack[e] /\ Len(stack) <= Len(path[j])
      BY <1>2, <1>4, <2>1, <3>1 DEF Prefix
    <3>3. path[j][e] # Unknown /\ (path[j][e] \in skips => e = Len(path[j]))
      BY <3>2 DEF IsTree
    <3> QED BY <1>2, <1>4, <2>1, <3>2, <3>3
  <2>3. \A p \in opened : ~IsStrictPrefix(stack, p) /\ p # stack
    <3>1. SUFFICES ASSUME NEW p \in opened PROVE ~IsStrictPrefix(stack, p) /\ p # stack
      OBVIOUS
    <3>2. PICK j \in P : p = path[j]
      BY DEF At
    <3>3. Prefix(path[j], path[j])
      BY <1>4, PrefixFacts
    <3> QED BY <1>5, <2>2, <3>2, <3>3
  <2>4. opened' = opened /\ given' = given /\ stack \notin opened
    BY <1>1, <1>6, <2>3
  <2>5. Prefix(path[k], rest)
    BY <1>2, <1>3, <1>8 DEF Prefix
  <2>6. Len(rest) > Len(path[k]) =>
          rest[Len(path[k]) + 1] = Unknown \/ (k # Root /\ own[k] \in skips)
    <3>1. SUFFICES ASSUME Len(rest) > Len(path[k])
                   PROVE  rest[Len(path[k]) + 1] = Unknown \/ (k # Root /\ own[k] \in skips)
      OBVIOUS
    <3>2. Len(path[k]) + 1 \in 1..Len(stack) - 1
      BY <1>2, <1>3, <3>1
    <3> QED BY <1>2, <1>8, <3>2 DEF At
  <2>7. At(P, up, own, path, skips, E, k)'
    BY <1>1, <1>2, <2>4, <2>5, <2>6 DEF At
  <2> QED BY <1>1, <1>8, <2>4, <2>7 DEF rest
<1>9. CASE Len(stack) = Len(path[k])
  <2> DEFINE u == up[k]
  <2>1. stack = path[k]
    BY <1>2, <1>3, <1>9, PrefixFacts
  <2>2. k # Root
    <3>1. SUFFICES ASSUME k = Root PROVE FALSE
      OBVIOUS
    <3>2. path[k] = <<>>
      BY <3>1, TreeFacts
    <3> QED BY <1>1, <2>1, <3>2
  <2>3. /\ u \in P /\ Len(path[k]) = Len(path[u]) + 1 /\ path[k][Len(path[k])] = own[k]
        /\ Prefix(path[u], path[k]) /\ path[u] \in Seq(E) /\ Len(path[u]) \in Nat
        /\ \A i \in 1..Len(path[u]) : path[k][i] = path[u][i]
    BY <1>4, <2>2, TreeFacts
  <2> HIDE DEF u
  <2>4. Inner = own[k]
    BY <1>2, <2>1, <2>3
  <2>5. rest = path[u]
    <3>1. Len(rest) = Len(path[u]) /\ \A i \in 1..Len(path[u]) : rest[i] = path[u][i]
      BY <1>2, <2>1, <2>3
    <3>2. Prefix(path[u], rest)
      BY <2>3, <3>1 DEF Prefix
    <3> QED BY <1>2, <2>3, <3>1, <3>2, PrefixFacts
  <2>6. stack \in opened
    <3>1. Prefix(path[k], path[k])
      BY <1>3, PrefixFacts
    <3> QED BY <2>1, <2>2, <3>1 DEF At
  <2>7. Prefix(path[u], rest) /\ ~(Len(rest) > Len(path[u]))
    <3>1. Prefix(path[u], path[u])
      BY <2>3, PrefixFacts
    <3> QED BY <2>3, <2>5, <3>1
  <2>8. \A p \in opened' : \E j \in P \ {Root} : p = path[j] /\ Prefix(path[up[j]], path[u])
    <3>1. SUFFICES ASSUME NEW p \in opened'
                   PROVE  \E j \in P \ {Root} : p = path[j] /\ Prefix(path[up[j]], path[u])
      OBVIOUS
    <3>2. p \in opened /\ ~IsStrictPrefix(stack, p)
      BY <1>1
    <3>3. PICK j \in P \ {Root} : p = path[j] /\ Prefix(path[up[j]], path[k])
      BY <3>2 DEF At
    <3>4. /\ up[j] \in P /\ Len(path[j]) = Len(path[up[j]]) + 1
          /\ Prefix(path[up[j]], path[j])
          /\ path[up[j]] \in Seq(E) /\ Len(path[up[j]]) \in Nat
      BY TreeFacts
    <3>5. path[up[j]] # path[k]
      <4>1. SUFFICES ASSUME path[up[j]] = path[k] PROVE FALSE
        OBVIOUS
      <4>2. Prefix(stack, path[j]) /\ stack # path[j]
        BY <1>9, <2>1, <3>4, <4>1
      <4> QED BY <1>5, <3>2, <3>3, <4>2
    <3>6. Len(path[up[j]]) <= Len(path[u])
      <4>1. Len(path[up[j]]) <= Len(path[k])
        BY <3>3 DEF Prefix
      <4>2. Len(path[up[j]]) # Len(path[k])
        BY <1>3, <3>3, <3>4, <3>5, PrefixFacts
      <4> QED BY <2>3, <3>4, <4>1, <4>2
    <3>7. Prefix(path[up[j]], path[u])
      BY <1>3, <2>3, <3>3, <3>4, <3>6, PrefixOrder
    <3> QED BY <3>3, <3>7
  <2>9. \A j \in P \ {Root} : Prefix(path[j], path[u]) => path[j] \in opened'
    <3>1. SUFFICES ASSUME NEW j \in P \ {Root}, Prefix(path[j], path[u])
                   PROVE  path[j] \in opened'
      OBVIOUS
    <3>2. Prefix(path[j], path[k])
      BY <1>3, <1>4, <2>3, <3>1, PrefixOrder
    <3>3. path[j] \in opened
      BY <3>2 DEF At
    <3>4. ~Prefix(stack, path[j])
      BY <1>3, <1>4, <1>9, <2>3, <3>1 DEF Prefix
    <3> QED BY <1>1, <1>5, <3>3, <3>4
  <2>10. At(P, up, own, path, skips, E, u)'
    BY <1>1, <1>2, <1>7, <2>7, <2>8, <2>9 DEF At
  <2>11. \A j \in P \ {Root} : j = k \/ ~Prefix(path[k], path[j]) =>
           /\ Kept(path[j]) /\ (path[j] \in opened' <=> path[j] \in opened)
           /\ <<path[j], "section">> \in given' <=> <<path[j], "section">> \in given
    <3>1. SUFFICES ASSUME NEW j \in P \ {Root}, j = k \/ ~Prefix(path[k], path[j])
                   PROVE  /\ Kept(path[j]) /\ (path[j] \in opened' <=> path[j] \in opened)
                          /\ <<path[j], "section">> \in given' <=> <<path[j], "section">> \in given
      OBVIOUS
    <3>2. ~IsStrictPrefix(stack, path[j])
      BY <1>5, <2>1, <3>1
    <3>3. \A x : <<path[j], x>> \in given' <=> <<path[j], x>> \in given
      BY <1>1, <3>2
    <3>4. Kept(path[j])
      BY <1>6, <1>7, <3>3, KeptIs
    <3>5. path[j] \in opened' <=> path[j] \in opened
      BY <1>1, <3>2
    <3> QED BY <3>3, <3>4, <3>5
  <2> QED BY <1>1, <2>1, <2>2, <2>4, <2>5, <2>6, <2>10, <2>11 DEF rest, u
<1> QED BY <1>2, <1>3, <1>8, <1>9

\* Where text can be: in an element of the tree, or deeper.
LEMMA Standing ==
  ASSUME NEW P, NEW up, NEW own, NEW path, NEW skips, NEW E, IsTree(P, up, own, path, skips, E),
         NEW k \in P, At(P, up, own, path, skips, E, k)
  PROVE  \/ Len(stack) > Len(path[k]) /\ stack \notin opened
         \/ stack = path[k] /\ (k = Root \/ stack \in opened)
<1>1. /\ stack \in Seq(E) /\ Len(stack) \in Nat /\ path[k] \in Seq(E)
      /\ Len(path[k]) \in Nat /\ Prefix(path[k], stack) /\ Len(path[k]) <= Len(stack)
  BY TreeFacts DEF At, Prefix
<1>2. CASE Len(stack) = Len(path[k])
  <2>1. stack = path[k] /\ Prefix(path[k], path[k])
    BY <1>1, <1>2, PrefixFacts
  <2> QED BY <2>1 DEF At
<1>3. CASE Len(stack) > Len(path[k])
  <2>1. SUFFICES ASSUME stack \in opened PROVE FALSE
    BY <1>3
  <2>2. PICK j \in P \ {Root} : stack = path[j]
    BY <2>1 DEF At
  <2>3. \A i \in 1..Len(stack) : stack[i] # Unknown /\ (stack[i] \in skips => i = Len(stack))
    BY <2>2 DEF IsTree
  <2>4. stack[Len(path[k]) + 1] = Unknown \/ (k # Root /\ own[k] \in skips)
    BY <1>3 DEF At
  <2>5. Len(path[k]) + 1 \in 1..Len(stack)
    BY <1>1, <1>3
  <2>6. k # Root /\ own[k] \in skips
    BY <2>3, <2>4, <2>5
  <2>7. Len(path[k]) = Len(path[up[k]]) + 1 /\ path[k][Len(path[k])] = own[k]
        /\ Len(path[up[k]]) \in Nat
    BY <2>6, TreeFacts DEF IsTree
  <2>8. Len(path[k]) \in 1..Len(path[k]) /\ Len(path[k]) \in 1..Len(stack)
    BY <1>1, <2>7
  <2>9. stack[Len(path[k])] = own[k]
    BY <1>1, <2>7, <2>8 DEF Prefix
  <2> QED BY <1>1, <1>3, <2>3, <2>6, <2>8, <2>9
<1> QED BY <1>1, <1>2, <1>3

\* What one piece more is to the text of its element and of all others.
LEMMA PieceAdded ==
  ASSUME NEW p, NEW x \in {"text", "cdata", "section"}, given' = given \cup {<<p, x>>},
         \A t \in given : t = <<t[1], t[2]>> /\ (t[2] = "cdata" => <<t[1], "section">> \in given),
         x = "cdata" => <<p, "section">> \in given
  PROVE  /\ \A q : q # p => Kept(q)
         /\ x # "section" => TextAt(p)' = TextAt(p) \cup {<<p, x>>}
         /\ x = "cdata" => ValueAt(p)' = ValueAt(p) \cup {<<p, x>>}
         /\ x = "text" => ValueAt(p)' = IF <<p, "section">> \in given THEN ValueAt(p)
                                        ELSE ValueAt(p) \cup {<<p, x>>}
         /\ x = "section" => /\ TextAt(p)' = TextAt(p)
                             /\ <<p, x>> \notin given => ValueAt(p)' = {}
<1>1. \A t \in given \cup given' : t = <<t[1], t[2]>>
  <2>1. TAKE t \in given \cup given'
  <2>2. CASE t = <<p, x>>
    BY <2>2
  <2> QED BY <2>1, <2>2
<1>2. ASSUME NEW q, q # p PROVE Kept(q)
  <2>1. \A y : <<q, y>> \in given' <=> <<q, y>> \in given
    BY <1>2
  <2> QED BY <1>1, <2>1, KeptIs
<1>3. x # "section" => TextAt(p)' = TextAt(p) \cup {<<p, x>>}
  <2>1. \A t : x # "section" => (t \in TextAt(p)' <=> t \in TextAt(p) \cup {<<p, x>>})
    BY DEF TextAt
  <2> QED BY <2>1
<1>4. x = "section" => TextAt(p)' = TextAt(p)
  <2>1. \A t : x = "section" => (t \in TextAt(p)' <=> t \in TextAt(p))
    BY DEF TextAt
  <2> QED BY <2>1
<1>5. x # "section" => (<<p, "section">> \in given' <=> <<p, "section">> \in given)
  OBVIOUS
<1>6. x = "cdata" => ValueAt(p)' = ValueAt(p) \cup {<<p, x>>}
  BY <1>3, <1>5 DEF ValueAt
<1>7. x = "text" => ValueAt(p)' = IF <<p, "section">> \in given THEN ValueAt(p)
                                  ELSE ValueAt(p) \cup {<<p, x>>}
  <2>1. ASSUME x = "text", <<p, "section">> \in given PROVE ValueAt(p)' = ValueAt(p)
    <3>1. TextAt(p)' \cap {<<p, "cdata">>} = TextAt(p) \cap {<<p, "cdata">>}
      BY <1>3, <2>1
    <3> QED BY <1>5, <2>1, <3>1 DEF ValueAt
  <2>2. ASSUME x = "text", <<p, "section">> \notin given
        PROVE  ValueAt(p)' = ValueAt(p) \cup {<<p, x>>}
    BY <1>3, <1>5, <2>2 DEF ValueAt
  <2> QED BY <2>1, <2>2
<1>8. ASSUME x = "section", <<p, x>> \notin given PROVE ValueAt(p)' = {}
  <2>1. <<p, "section">> \in given' /\ TextAt(p)' = TextAt(p)
    BY <1>4, <1>8
  <2>2. TextAt(p) \cap {<<p, "cdata">>} = {}
    <3>1. SUFFICES ASSUME <<p, "cdata">> \in given PROVE FALSE
      BY DEF TextAt
    <3> QED BY <1>8, <3>1
  <2> QED BY <2>1, <2>2 DEF ValueAt
<1> QED BY <1>2, <1>3, <1>4, <1>6, <1>7, <1>8

\* Text is given: it is a piece of the element the parser is in.
LEMMA TextStep ==
  ASSUME NEW P, NEW up, NEW own, NEW path, NEW skips, NEW E, IsTree(P, up, own, path, skips, E),
         NEW k \in P, At(P, up, own, path, skips, E, k), DocText
  PROVE  /\ At(P, up, own, path, skips, E, k)' /\ stack' = stack /\ grammar' = grammar
         /\ inCData' = inCData
         /\ given' = IF stack \in opened THEN given \cup {Piece} ELSE given
         /\ stack \in opened => /\ \A q : q # stack => Kept(q)
                                /\ TextAt(stack)' = TextAt(stack) \cup {Piece}
                                /\ ValueAt(stack)' = IF ~inCData /\ <<stack, "section">> \in given
                                                     THEN ValueAt(stack)
                                                     ELSE ValueAt(stack) \cup {Piece}
<1>1. /\ UNCHANGED <<grammar, stack, opened, inCData>>
      /\ given' = IF stack \in opened THEN given \cup {Piece} ELSE given
  BY DEF DocText
<1>2. \A t \in given : /\ t = <<t[1], t[2]>> /\ t[1] \in opened
                       /\ t[2] = "cdata" => <<t[1], "section">> \in given
  BY DEF At
<1>3. \A t \in given' : /\ t = <<t[1], t[2]>> /\ t[1] \in opened'
                        /\ t[2] = "cdata" => <<t[1], "section">> \in given'
  <2>1. SUFFICES ASSUME NEW t \in given'
                 PROVE  /\ t = <<t[1], t[2]>> /\ t[1] \in opened'
                        /\ t[2] = "cdata" => <<t[1], "section">> \in given'
    OBVIOUS
  <2>2. CASE t \in given
    BY <1>1, <1>2, <2>2
  <2>3. CASE stack \in opened /\ t = Piece
    BY <1>1, <2>3 DEF At, Piece
  <2> QED BY <1>1, <2>1, <2>2, <2>3
<1>4. At(P, up, own, path, skips, E, k)'
  BY <1>1, <1>3 DEF At
<1>5. ASSUME stack \in opened
      PROVE  /\ \A q : q # stack => Kept(q)
             /\ TextAt(stack)' = TextAt(stack) \cup {Piece}
             /\ ValueAt(stack)' = IF ~inCData /\ <<stack, "section">> \in given
                                  THEN ValueAt(stack) ELSE ValueAt(stack) \cup {Piece}
  <2>1. PICK p : p = stack
    OBVIOUS
  <2>2. PICK x \in {"text", "cdata", "section"} : x = IF inCData THEN "cdata" ELSE "text"
    OBVIOUS
  <2>3. Piece = <<p, x>> /\ given' = given \cup {<<p, x>>} /\ (x = "cdata" <=> inCData)
        /\ x # "section" /\ (x = "text" <=> ~inCData)
    BY <1>1, <1>5, <2>1, <2>2 DEF Piece
  <2>4. x = "cdata" => <<p, "section">> \in given
    BY <1>5, <2>1, <2>3 DEF At
  <2>5. /\ \A q : q # p => Kept(q)
        /\ TextAt(p)' = TextAt(p) \cup {<<p, x>>}
        /\ x = "cdata" => ValueAt(p)' = ValueAt(p) \cup {<<p, x>>}
        /\ x = "text" => ValueAt(p)' = IF <<p, "section">> \in given THEN ValueAt(p)
                                       ELSE ValueAt(p) \cup {<<p, x>>}
    BY <1>2, <2>3, <2>4, PieceAdded
  <2>6. stack' = p
    BY <1>1, <2>1
  <2> QED BY <2>1, <2>3, <2>5, <2>6, ZenonT(40) DEF TextAt, ValueAt
<1> QED BY <1>1, <1>4, <1>5

\* A CDATA section starts: the element has no value but what it will hold.
LEMMA CDataStep ==
  ASSUME NEW P, NEW up, NEW own, NEW path, NEW skips, NEW E, IsTree(P, up, own, path, skips, E),
         NEW k \in P, At(P, up, own, path, skips, E, k), DocStartCData
  PROVE  /\ At(P, up, own, path, skips, E, k)' /\ stack' = stack /\ grammar' = grammar
         /\ inCData' = TRUE /\ ~inCData
         /\ stack \notin opened => given' = given
         /\ stack \in opened => /\ \A q : q # stack => Kept(q)
                                /\ TextAt(stack)' = TextAt(stack)
                                /\ given' = given \cup {<<stack, "section">>}
                                /\ ValueAt(stack)' = {}
<1>1. /\ UNCHANGED <<grammar, stack, opened>> /\ ~inCData /\ inCData' = TRUE
      /\ <<stack, "section">> \notin given
      /\ given' = IF stack \in opened THEN given \cup {<<stack, "section">>} ELSE given
  BY DEF DocStartCData
<1>2. \A t \in given : /\ t = <<t[1], t[2]>> /\ t[1] \in opened
                       /\ t[2] = "cdata" => <<t[1], "section">> \in given
  BY DEF At
<1>3. \A t \in given' : /\ t = <<t[1], t[2]>> /\ t[1] \in opened'
                        /\ t[2] = "cdata" => <<t[1], "section">> \in given'
  <2>1. SUFFICES ASSUME NEW t \in given'
                 PROVE  /\ t = <<t[1], t[2]>> /\ t[1] \in opened'
                        /\ t[2] = "cdata" => <<t[1], "section">> \in given'
    OBVIOUS
  <2>2. CASE t \in given
    BY <1>1, <1>2, <2>2
  <2>3. CASE stack \in opened /\ t = <<stack, "section">>
    BY <1>1, <2>3
  <2> QED BY <1>1, <2>1, <2>2, <2>3
<1>4. At(P, up, own, path, skips, E, k)'
  BY <1>1, <1>3 DEF At
<1>5. ASSUME stack \in opened
      PROVE  /\ \A q : q # stack => Kept(q)
             /\ TextAt(stack)' = TextAt(stack) /\ ValueAt(stack)' = {}
  <2>1. PICK p : p = stack
    OBVIOUS
  <2>2. PICK x \in {"text", "cdata", "section"} : x = "section"
    OBVIOUS
  <2>3. given' = given \cup {<<p, x>>} /\ x # "cdata" /\ <<p, x>> \notin given
    BY <1>1, <1>5, <2>1, <2>2
  <2>4. (\A q : q # p => Kept(q)) /\ TextAt(p)' = TextAt(p) /\ ValueAt(p)' = {}
    BY <1>2, <2>2, <2>3, PieceAdded
  <2>5. stack' = p
    BY <1>1, <2>1
  <2> QED BY <2>1, <2>4, <2>5 DEF TextAt, ValueAt
<1> QED BY <1>1, <1>4, <1>5

(***************************************************************************)
(* The substitution file: its places, by name, and for each the place      *)
(* around it, its element's name and its path.                             *)
(***************************************************************************)
SubstSpec == SubstInit /\ [][SubstNext]_substVars

PropertyPlaces == {"Property", "PropertyName", "PropertyValue"}
OpcPlaces == {"Properties"} \cup PropertyPlaces
SymbolPlaces == {"Symbol", "Name", "Alias"} \cup OpcPlaces
SubstPlaces == {"Document", "Substitution"} \cup SymbolPlaces

substUp == [k \in SubstPlaces |->
  CASE k \in {"Document", "Substitution"} -> "Document"
    [] k = "Symbol" -> "Substitution"
    [] k \in {"Name", "Alias", "Properties"} -> "Symbol"
    [] k = "Property" -> "Properties"
    [] k \in {"PropertyName", "PropertyValue"} -> "Property"]
substOwn == [k \in SubstPlaces |->
  CASE k = "PropertyName" -> "Name"
    [] k = "PropertyValue" -> "Value"
    [] k \notin {"PropertyName", "PropertyValue"} -> k]
substPath == [k \in SubstPlaces |->
  CASE k = "Document" -> <<>>
    [] k = "Substitution" -> <<"Substitution">>
    [] k = "Symbol" -> <<"Substitution", "Symbol">>
    [] k = "Name" -> <<"Substitution", "Symbol", "Name">>
    [] k = "Alias" -> <<"Substitution", "Symbol", "Alias">>
    [] k = "Properties" -> <<"Substitution", "Symbol", "Properties">>
    [] k = "Property" -> <<"Substitution", "Symbol", "Properties", "Property">>
    [] k = "PropertyName" -> <<"Substitution", "Symbol", "Properties", "Property", "Name">>
    [] k = "PropertyValue" -> <<"Substitution", "Symbol", "Properties", "Property", "Value">>]

SubstNames ==
  SubstPlaces \cup {"Value", Unknown} \cup Hidden

LEMMA SubstNamed ==
  /\ "Document" \in SubstNames /\ "Substitution" \in SubstNames /\ "Symbol" \in SubstNames
  /\ "Name" \in SubstNames /\ "Alias" \in SubstNames /\ "Properties" \in SubstNames
  /\ "Property" \in SubstNames /\ "Value" \in SubstNames /\ Unknown \in SubstNames
  /\ SubstPlaces \subseteq SubstNames /\ Hidden \subseteq SubstNames
BY DEF SubstNames, SubstPlaces, SymbolPlaces, OpcPlaces, PropertyPlaces

LEMMA SubstPaths ==
  /\ substPath["Document"] = <<>>
  /\ substPath["Substitution"] = <<"Substitution">>
  /\ substPath["Symbol"] = <<"Substitution", "Symbol">>
  /\ substPath["Name"] = <<"Substitution", "Symbol", "Name">>
  /\ substPath["Alias"] = <<"Substitution", "Symbol", "Alias">>
  /\ substPath["Properties"] = <<"Substitution", "Symbol", "Properties">>
  /\ substPath["Property"] = <<"Substitution", "Symbol", "Properties", "Property">>
  /\ substPath["PropertyName"]
       = <<"Substitution", "Symbol", "Properties", "Property", "Name">>
  /\ substPath["PropertyValue"]
       = <<"Substitution", "Symbol", "Properties", "Property", "Value">>
BY DEF substPath, SubstPlaces, SymbolPlaces, OpcPlaces, PropertyPlaces

LEMMA SubstOwns ==
  /\ \A k \in SubstPlaces \ {"PropertyName", "PropertyValue"} : substOwn[k] = k
  /\ substOwn["PropertyName"] = "Name" /\ substOwn["PropertyValue"] = "Value"
BY DEF substOwn, SubstPlaces, SymbolPlaces, OpcPlaces, PropertyPlaces

LEMMA SubstUps ==
  /\ substUp["Document"] = "Document" /\ substUp["Substitution"] = "Document"
  /\ substUp["Symbol"] = "Substitution"
  /\ \A k \in {"Name", "Alias", "Properties"} : substUp[k] = "Symbol"
  /\ substUp["Property"] = "Properties"
  /\ \A k \in {"PropertyName", "PropertyValue"} : substUp[k] = "Property"
BY DEF substUp, SubstPlaces, SymbolPlaces, OpcPlaces, PropertyPlaces

\* How deep a place is.
Depth(k) == Len(substPath[k])

LEMMA SubstDepths ==
  /\ \A k \in SubstPlaces : substPath[k] \in Seq(SubstNames)
  /\ Depth("Document") = 0 /\ Depth("Substitution") = 1
  /\ Depth("Symbol") = 2 /\ Depth("Property") = 4
  /\ \A k \in {"Name", "Alias", "Properties"} : Depth(k) = 3
  /\ \A k \in {"PropertyName", "PropertyValue"} : Depth(k) = 5
<1>1. substPath["Document"] \in Seq(SubstNames) /\ Depth("Document") = 0
  BY SubstPaths, SubstNamed DEF Depth
<1>2. substPath["Substitution"] \in Seq(SubstNames) /\ Depth("Substitution") = 1
  BY SubstPaths, SubstNamed DEF Depth
<1>3. substPath["Symbol"] \in Seq(SubstNames) /\ Depth("Symbol") = 2
  BY SubstPaths, SubstNamed DEF Depth
<1>4. substPath["Name"] \in Seq(SubstNames) /\ Depth("Name") = 3
  BY SubstPaths, SubstNamed DEF Depth
<1>5. substPath["Alias"] \in Seq(SubstNames) /\ Depth("Alias") = 3
  BY SubstPaths, SubstNamed DEF Depth
<1>6. substPath["Properties"] \in Seq(SubstNames) /\ Depth("Properties") = 3
  BY SubstPaths, SubstNamed DEF Depth
<1>7. substPath["Property"] \in Seq(SubstNames) /\ Depth("Property") = 4
  BY SubstPaths, SubstNamed DEF Depth
<1>8. substPath["PropertyName"] \in Seq(SubstNames) /\ Depth("PropertyName") = 5
  BY SubstPaths, SubstNamed DEF Depth
<1>9. substPath["PropertyValue"] \in Seq(SubstNames) /\ Depth("PropertyValue") = 5
  BY SubstPaths, SubstNamed DEF Depth
<1> QED BY <1>1, <1>2, <1>3, <1>4, <1>5, <1>6, <1>7, <1>8, <1>9
       DEF SubstPlaces, SymbolPlaces, OpcPlaces, PropertyPlaces

\* The places are those of a tree.
LEMMA SubstTree == IsTree(SubstPlaces, substUp, substOwn, substPath, {}, SubstNames)
<1>1. Root \in SubstPlaces /\ substPath[Root] = <<>> /\ substOwn[Root] = Root
  BY SubstPaths, SubstOwns DEF Root, SubstPlaces
<1>2. substPath \in [SubstPlaces -> Seq(SubstNames)]
  BY SubstDepths DEF substPath
<1>3. substOwn \in [SubstPlaces -> SubstNames]
  <2>1. \A k \in SubstPlaces : substOwn[k] \in SubstNames
    BY SubstNamed, SubstOwns
  <2> QED BY <2>1 DEF substOwn
<1>4. substUp \in [SubstPlaces -> SubstPlaces]
  BY DEF substUp, SubstPlaces, SymbolPlaces, OpcPlaces, PropertyPlaces
<1>5. \A k \in SubstPlaces \ {Root} : substPath[k] = Append(substPath[substUp[k]], substOwn[k])
  <2>1. TAKE k \in SubstPlaces \ {Root}
  <2>2. CASE k = "Substitution"
    <3>1. substUp[k] = "Document" /\ substOwn[k] = "Substitution"
      BY <2>2, SubstOwns, SubstUps DEF SubstPlaces, SymbolPlaces, OpcPlaces, PropertyPlaces
    <3> QED BY <2>2, <3>1, SubstPaths
  <2>3. CASE k = "Symbol"
    <3>1. substUp[k] = "Substitution" /\ substOwn[k] = "Symbol"
      BY <2>3, SubstOwns, SubstUps DEF SubstPlaces, SymbolPlaces, OpcPlaces, PropertyPlaces
    <3> QED BY <2>3, <3>1, SubstPaths
  <2>4. CASE k = "Name"
    <3>1. substUp[k] = "Symbol" /\ substOwn[k] = "Name"
      BY <2>4, SubstOwns, SubstUps DEF SubstPlaces, SymbolPlaces, OpcPlaces, PropertyPlaces
    <3> QED BY <2>4, <3>1, SubstPaths
  <2>5. CASE k = "Alias"
    <3>1. substUp[k] = "Symbol" /\ substOwn[k] = "Alias"
      BY <2>5, SubstOwns, SubstUps DEF SubstPlaces, SymbolPlaces, OpcPlaces, PropertyPlaces
    <3> QED BY <2>5, <3>1, SubstPaths
  <2>6. CASE k = "Properties"
    <3>1. substUp[k] = "Symbol" /\ substOwn[k] = "Properties"
      BY <2>6, SubstOwns, SubstUps DEF SubstPlaces, SymbolPlaces, OpcPlaces, PropertyPlaces
    <3> QED BY <2>6, <3>1, SubstPaths
  <2>7. CASE k = "Property"
    <3>1. substUp[k] = "Properties" /\ substOwn[k] = "Property"
      BY <2>7, SubstOwns, SubstUps DEF SubstPlaces, SymbolPlaces, OpcPlaces, PropertyPlaces
    <3> QED BY <2>7, <3>1, SubstPaths
  <2>8. CASE k = "PropertyName"
    <3>1. substUp[k] = "Property" /\ substOwn[k] = "Name"
      BY <2>8, SubstOwns, SubstUps DEF SubstPlaces, SymbolPlaces, OpcPlaces, PropertyPlaces
    <3> QED BY <2>8, <3>1, SubstPaths
  <2>9. CASE k = "PropertyValue"
    <3>1. substUp[k] = "Property" /\ substOwn[k] = "Value"
      BY <2>9, SubstOwns, SubstUps DEF SubstPlaces, SymbolPlaces, OpcPlaces, PropertyPlaces
    <3> QED BY <2>9, <3>1, SubstPaths
  <2> QED BY <2>2, <2>3, <2>4, <2>5, <2>6, <2>7, <2>8, <2>9
         DEF Root, SubstPlaces, SymbolPlaces, OpcPlaces, PropertyPlaces
<1>6. \A k \in SubstPlaces : \A i \in 1..Len(substPath[k]) :
        substPath[k][i] # Unknown /\ (substPath[k][i] \in {} => i = Len(substPath[k]))
  BY SubstPaths DEF Unknown, SubstPlaces, SymbolPlaces, OpcPlaces, PropertyPlaces
<1>7. \A j, k \in SubstPlaces : substPath[j] = substPath[k] => j = k
  <2>1. SUFFICES ASSUME NEW j \in SubstPlaces, NEW k \in SubstPlaces,
                        substPath[j] = substPath[k]
                 PROVE  j = k
    OBVIOUS
  <2>2. Depth(j) = Depth(k)
    BY <2>1 DEF Depth
  <2>3. CASE j \in {"Name", "Alias", "Properties"} /\ k \in {"Name", "Alias", "Properties"}
    BY <2>1, <2>3, SubstPaths
  <2>4. CASE j \in {"PropertyName", "PropertyValue"} /\ k \in {"PropertyName", "PropertyValue"}
    BY <2>1, <2>4, SubstPaths
  <2>5. \A i \in SubstPlaces :
          /\ Depth(i) \in 0..5
          /\ Depth(i) = 0 => i = "Document"
          /\ Depth(i) = 1 => i = "Substitution"
          /\ Depth(i) = 2 => i = "Symbol"
          /\ Depth(i) = 3 => i \in {"Name", "Alias", "Properties"}
          /\ Depth(i) = 4 => i = "Property"
          /\ Depth(i) = 5 => i \in {"PropertyName", "PropertyValue"}
    BY SubstDepths, SMTT(30) DEF SubstPlaces, SymbolPlaces, OpcPlaces, PropertyPlaces
  <2> QED BY <2>2, <2>3, <2>4, <2>5
<1> QED BY <1>1, <1>2, <1>3, <1>4, <1>5, <1>6, <1>7 DEF IsTree

\* The elements stand where SubstElements has them, if they are there at all.
GrammarKnown ==
  /\ DOMAIN grammar \subseteq DOMAIN SubstElements
  /\ \A tag \in DOMAIN grammar : grammar[tag] \subseteq SubstElements[tag]

\* Every element of a grammar of these has its place.
LEMMA SubstFits ==
  ASSUME GrammarKnown
  PROVE  /\ GrammarFits(SubstPlaces, substUp, substOwn)
         /\ IsLeaf("Name") /\ IsLeaf("Alias") /\ IsLeaf("Value")
         /\ Tags \subseteq SubstNames
<1>1. DOMAIN SubstElements = {"Document", "Substitution", "Symbol", "Properties", "Property"}
      /\ \A tag \in DOMAIN SubstElements : SubstElements[tag] \in SUBSET SubstNames
  <2>1. DOMAIN SubstElements = {"Document", "Substitution", "Symbol", "Properties", "Property"}
    BY DEF SubstElements
  <2>2. \A tag \in {"Document", "Substitution", "Symbol", "Properties", "Property"} :
          SubstElements[tag] \in SUBSET SubstNames
    BY SubstNamed DEF SubstElements
  <2> QED BY <2>1, <2>2
<1>2. IsLeaf("Name") /\ IsLeaf("Alias") /\ IsLeaf("Value")
  BY <1>1 DEF GrammarKnown, IsLeaf, Unknown
<1>3. Tags \subseteq SubstNames
  <2>1. \A tag \in DOMAIN grammar : grammar[tag] \in SUBSET SubstNames
    BY <1>1 DEF GrammarKnown
  <2> QED BY <2>1, SubstNamed DEF Tags
<1>4. ASSUME NEW k \in SubstPlaces, substOwn[k] \in DOMAIN grammar,
             NEW n \in grammar[substOwn[k]]
      PROVE  \E c \in SubstPlaces \ {Root} : substUp[c] = k /\ substOwn[c] = n
  <2>1. substOwn[k] \in DOMAIN SubstElements /\ n \in SubstElements[substOwn[k]]
    BY <1>4 DEF GrammarKnown
  <2>2. CASE k = "Document"
    <3>1. n = "Substitution"
      BY <2>1, <2>2, SubstOwns DEF SubstElements, SubstPlaces, SymbolPlaces, OpcPlaces, PropertyPlaces
    <3> QED BY <2>2, <3>1, SubstOwns, SubstUps DEF Root, SubstPlaces
  <2>3. CASE k = "Substitution"
    <3>1. n = "Symbol"
      BY <2>1, <2>3, SubstOwns DEF SubstElements, SubstPlaces, SymbolPlaces, OpcPlaces, PropertyPlaces
    <3> QED BY <2>3, <3>1, SubstOwns, SubstUps DEF Root, SubstPlaces, SymbolPlaces
  <2>4. CASE k = "Symbol"
    <3>1. n \in {"Name", "Alias", "Properties"}
      BY <2>1, <2>4, SubstOwns DEF SubstElements, SubstPlaces, SymbolPlaces, OpcPlaces, PropertyPlaces
    <3> QED BY <2>4, <3>1, SubstOwns, SubstUps
               DEF Root, SubstPlaces, SymbolPlaces, OpcPlaces, PropertyPlaces
  <2>5. CASE k = "Properties"
    <3>1. n = "Property"
      BY <2>1, <2>5, SubstOwns DEF SubstElements, SubstPlaces, SymbolPlaces, OpcPlaces, PropertyPlaces
    <3> QED BY <2>5, <3>1, SubstOwns, SubstUps
               DEF Root, SubstPlaces, SymbolPlaces, OpcPlaces, PropertyPlaces
  <2>6. CASE k = "Property"
    <3>1. n \in {"Name", "Value"}
      BY <2>1, <2>6, SubstOwns DEF SubstElements, SubstPlaces, SymbolPlaces, OpcPlaces, PropertyPlaces
    <3>2. CASE n = "Name"
      <4>1. "PropertyName" \in SubstPlaces \ {Root} /\ substUp["PropertyName"] = k
            /\ substOwn["PropertyName"] = n
        BY <2>6, <3>2, SubstOwns, SubstUps
           DEF Root, SubstPlaces, SymbolPlaces, OpcPlaces, PropertyPlaces
      <4> QED BY <4>1
    <3>3. CASE n = "Value"
      <4>1. "PropertyValue" \in SubstPlaces \ {Root} /\ substUp["PropertyValue"] = k
            /\ substOwn["PropertyValue"] = n
        BY <2>6, <3>3, SubstOwns, SubstUps
           DEF Root, SubstPlaces, SymbolPlaces, OpcPlaces, PropertyPlaces
      <4> QED BY <4>1
    <3> QED BY <3>1, <3>2, <3>3
  <2>7. CASE k \in {"Name", "Alias", "PropertyName", "PropertyValue"}
    BY <1>1, <2>1, <2>7, SubstOwns DEF SubstPlaces, SymbolPlaces, OpcPlaces, PropertyPlaces
  <2> QED BY <2>2, <2>3, <2>4, <2>5, <2>6, <2>7 DEF SubstPlaces, SymbolPlaces, OpcPlaces, PropertyPlaces
<1>5. GrammarFits(SubstPlaces, substUp, substOwn)
  BY <1>4 DEF GrammarFits
<1> QED BY <1>2, <1>3, <1>5

(***************************************************************************)
(* What the parser knows in each place of the document.                    *)
(***************************************************************************)
Pieces == Seq(SubstNames) \X {"text", "cdata"}
Record == [known : BOOLEAN, value : SUBSET Pieces]
SInfo ==
  [ignore : Nat, tag : Nat, subst : [name : SUBSET Pieces, alias : SUBSET Pieces],
   opc : Record, opc_prop : Record, opc_parse : Nat, opc_data : SUBSET Pieces,
   opc_cdata : BOOLEAN, made : [name : SUBSET Pieces, alias : SUBSET Pieces]]

\* What parserinfo_type has in .tag and .opc_parse in each place.
substTag == [k \in SubstPlaces |->
  CASE k \in {"Document", "Substitution"} -> 0
    [] k = "Symbol" -> 1
    [] k = "Name" -> 2
    [] k = "Alias" -> 3
    [] k \in OpcPlaces -> 4]
substParse == [k \in SubstPlaces |->
  CASE k \notin OpcPlaces -> 0
    [] k = "Properties" -> 1
    [] k = "Property" -> 2
    [] k = "PropertyName" -> 3
    [] k = "PropertyValue" -> 4]

SubstAt(k) == At(SubstPlaces, substUp, substOwn, substPath, {}, SubstNames, k)
Deeper(k) == Len(stack) - Depth(k)

(* Where the parser takes itself to be; only among properties does it      *)
(* count the elements it does not know.                                    *)
Control(k) ==
  /\ sinfo.tag = substTag[k] /\ sinfo.opc_parse = substParse[k]
  /\ sinfo.ignore = IF k \in OpcPlaces THEN Deeper(k) ELSE 0
  /\ k = "Symbol" => Deeper(k) <= 1
  /\ k \in {"Name", "Alias"} => Deeper(k) = 0

(* What it has read of the elements that are open or ended.                *)
Data(k) ==
  /\ propSaid = NoProperty \/ (propSaid.known = TRUE /\ k \in SymbolPlaces)
  /\ k \in SymbolPlaces =>
       /\ sinfo.subst.name = TextAt(substPath["Name"])
       /\ sinfo.subst.alias = TextAt(substPath["Alias"])
       /\ sinfo.opc = propSaid
  /\ k \in PropertyPlaces \ {"PropertyName"} =>
       sinfo.opc_prop.known = (ValueAt(substPath["PropertyName"]) # {})
  /\ k \in PropertyPlaces \ {"PropertyValue"} =>
       sinfo.opc_prop.value = ValueAt(substPath["PropertyValue"])
  /\ k \in {"PropertyName", "PropertyValue"} =>
       /\ sinfo.opc_data = ValueAt(substPath[k])
       /\ sinfo.opc_cdata = \/ <<substPath[k], "section">> \notin given
                            \/ stack = substPath[k] /\ inCData

(* The inductive invariant: the document is in some place, and the parser  *)
(* knows it and has read what is there.                                    *)
SubstInv ==
  /\ GrammarKnown /\ sinfo \in SInfo /\ propSaid \in Record
  /\ \E k \in SubstPlaces : SubstAt(k) /\ Control(k) /\ Data(k)

LEMMA SubstTags ==
  /\ substTag["Document"] = 0 /\ substTag["Substitution"] = 0 /\ substTag["Symbol"] = 1
  /\ substTag["Name"] = 2 /\ substTag["Alias"] = 3 /\ \A k \in OpcPlaces : substTag[k] = 4
  /\ \A k \in SubstPlaces \ OpcPlaces : substParse[k] = 0
  /\ substParse["Properties"] = 1 /\ substParse["Property"] = 2
  /\ substParse["PropertyName"] = 3 /\ substParse["PropertyValue"] = 4
BY DEF substTag, substParse, SubstPlaces, SymbolPlaces, OpcPlaces, PropertyPlaces

\* An element that is not open has no text.
LEMMA Unopened ==
  ASSUME NEW k \in SubstPlaces, SubstAt(k), NEW j \in SubstPlaces \ {Root},
         substPath[j] \notin opened
  PROVE  TextAt(substPath[j]) = {} /\ ValueAt(substPath[j]) = {}
         /\ <<substPath[j], "section">> \notin given
<1>1. \A t \in given : t[1] \in opened
  BY DEF SubstAt, At
<1>2. TextAt(substPath[j]) = {}
  BY <1>1 DEF TextAt
<1>3. <<substPath[j], "section">> \notin given
  BY <1>1
<1> QED BY <1>2, <1>3 DEF ValueAt

\* Nor can it be open where the element around it is not.
LEMMA NotYet ==
  ASSUME NEW k \in SubstPlaces, SubstAt(k), NEW j \in SubstPlaces \ {Root},
         Depth(substUp[j]) > Depth(k)
  PROVE  substPath[j] \notin opened
<1>1. SUFFICES ASSUME substPath[j] \in opened PROVE FALSE
  OBVIOUS
<1>2. PICK c \in SubstPlaces \ {Root} :
        substPath[j] = substPath[c] /\ Prefix(substPath[substUp[c]], substPath[k])
  BY <1>1 DEF SubstAt, At
<1>3. c = j
  BY <1>2, SubstTree DEF IsTree
<1>4. Depth(substUp[j]) <= Depth(k)
  BY <1>2, <1>3 DEF Prefix, Depth
<1>5. substUp[j] \in SubstPlaces
  BY SubstTree DEF IsTree
<1>6. \A i \in SubstPlaces : Depth(i) \in Nat
  BY SubstDepths DEF Root, SubstPlaces, SymbolPlaces, OpcPlaces, PropertyPlaces
<1> QED BY <1>4, <1>5, <1>6

LEMMA SubstGrammarKnown ==
  ASSUME SubstInit
  PROVE  GrammarKnown
BY SubstFileAssumption DEF SubstInit, DocInit, GrammarKnown

\* It holds before the first callback.
LEMMA SubstInitInv ==
  ASSUME SubstInit
  PROVE  SubstInv /\ SubstitutedAsWritten
<1>1. /\ stack = <<>> /\ opened = {} /\ given = {} /\ inCData = FALSE
      /\ sinfo = sparserinfo /\ swant = NoSubst /\ propSaid = NoProperty
  BY DEF SubstInit, DocInit
<1>2. sinfo \in SInfo /\ propSaid \in Record
  BY <1>1 DEF SInfo, Record, sparserinfo, NoSubst, NoProperty
<1>3. SubstitutedAsWritten
  BY <1>1 DEF SubstitutedAsWritten, sparserinfo
<1>4. "Document" \in SubstPlaces \ SymbolPlaces /\ "Document" = Root
  BY DEF SubstPlaces, SymbolPlaces, OpcPlaces, PropertyPlaces, Root
<1>5. substPath["Document"] = <<>>
  BY SubstPaths
<1>6. SubstAt("Document")
  <2>1. \A j \in SubstPlaces \ {Root} : ~Prefix(substPath[j], <<>>)
    <3>1. TAKE j \in SubstPlaces \ {Root}
    <3>2. ~(Depth(j) <= 0)
      BY SubstDepths, SMTT(30) DEF Root, SubstPlaces, SymbolPlaces, OpcPlaces, PropertyPlaces
    <3> QED BY <3>2 DEF Prefix, Depth
  <2>2. <<>> \in Seq(SubstNames) /\ Prefix(<<>>, <<>>)
    BY DEF Prefix
  <2> QED BY <1>1, <1>4, <1>5, <2>1, <2>2 DEF SubstAt, At
<1>7. Control("Document")
  BY <1>1, <1>4, SubstDepths, SubstTags DEF Control, Deeper, sparserinfo, SymbolPlaces
<1>8. Data("Document")
  BY <1>1, <1>4 DEF Data, SymbolPlaces, OpcPlaces, PropertyPlaces
<1> QED BY <1>2, <1>3, <1>4, <1>6, <1>7, <1>8, SubstGrammarKnown DEF SubstInv

LEMMA SameGiven ==
  ASSUME given' = given
  PROVE  \A q : Kept(q)
BY DEF Kept, TextAt, ValueAt

\* A callback takes the substitution that was just added for gone.
LEMMA Plainly ==
  ASSUME sinfo \in SInfo
  PROVE  /\ Plain \in SInfo /\ Plain.made = NoSubst
         /\ Plain.ignore = sinfo.ignore /\ Plain.tag = sinfo.tag /\ Plain.subst = sinfo.subst
         /\ Plain.opc = sinfo.opc /\ Plain.opc_prop = sinfo.opc_prop
         /\ Plain.opc_parse = sinfo.opc_parse /\ Plain.opc_data = sinfo.opc_data
         /\ Plain.opc_cdata = sinfo.opc_cdata
BY DEF SInfo, Plain, NoSubst

LEMMA GrammarStays ==
  ASSUME GrammarKnown, grammar' = grammar
  PROVE  GrammarKnown'
BY DEF GrammarKnown

LEMMA DepthsNat ==
  \A k \in SubstPlaces : Depth(k) \in Nat /\ substPath[k] \in Seq(SubstNames)
<1>1. \A k \in SubstPlaces : Depth(k) \in Nat
  BY SubstDepths DEF SubstPlaces, SymbolPlaces, OpcPlaces, PropertyPlaces
<1> QED BY <1>1, SubstDepths

\* How deep the parser is in an element.
LEMMA Standpoint ==
  ASSUME NEW k \in SubstPlaces, SubstAt(k)
  PROVE  /\ stack \in Seq(SubstNames) /\ Len(stack) \in Nat /\ Deeper(k) \in Nat
         /\ Deeper(k) = 0 <=> stack = substPath[k]
         /\ Deeper(k) > 0 => stack[Depth(k) + 1] = Unknown /\ stack \notin opened
         /\ stack = substPath[k] => k = Root \/ stack \in opened
<1>1. stack \in Seq(SubstNames) /\ Len(stack) \in Nat /\ Prefix(substPath[k], stack)
  BY DEF SubstAt, At
<1>2. Depth(k) \in Nat /\ Depth(k) <= Len(stack)
  BY <1>1, DepthsNat DEF Depth, Prefix
<1>3. Depth(k) = Len(stack) => substPath[k] = stack
  BY <1>1, DepthsNat, PrefixFacts DEF Depth
<1>4. stack = substPath[k] => Depth(k) = Len(stack)
  BY DEF Depth
<1>5. \/ Len(stack) > Depth(k) /\ stack \notin opened
      \/ stack = substPath[k] /\ (k = Root \/ stack \in opened)
  BY Standing, SubstTree DEF SubstAt, Depth
<1>6. Len(stack) > Depth(k) => stack[Depth(k) + 1] = Unknown
  BY DEF SubstAt, At, Depth
<1> QED BY <1>1, <1>2, <1>3, <1>4, <1>5, <1>6 DEF Deeper

\* In a symbol, but not among its properties.
LEMMA InSymbol ==
  ASSUME NEW k \in {"Symbol", "Name", "Alias"}, SubstAt(k), Control(k)
  PROVE  /\ Within("Symbol") /\ ~Within("Properties")
         /\ Deeper(k) = 0 => Inner = k
         /\ Deeper(k) = 1 => Inner = Unknown /\ k = "Symbol"
         /\ Deeper(k) \in {0, 1}
<1>1. k \in SubstPlaces
  BY DEF SubstPlaces, SymbolPlaces
<1>2. /\ stack \in Seq(SubstNames) /\ Len(stack) \in Nat /\ Deeper(k) \in Nat
      /\ Deeper(k) = 0 <=> stack = substPath[k]
      /\ Deeper(k) > 0 => stack[Depth(k) + 1] = Unknown
  BY <1>1, Standpoint
<1>3. Deeper(k) \in {0, 1} /\ (Deeper(k) = 1 => k = "Symbol")
  BY <1>2 DEF Control
<1>4. CASE k = "Symbol"
  <2>1. Depth(k) = 2
    BY <1>4, SubstDepths
  <2>2. Prefix(<<"Substitution", "Symbol">>, stack)
    BY <1>4, SubstPaths DEF SubstAt, At
  <2>3. Len(stack) >= 2 /\ stack[1] = "Substitution" /\ stack[2] = "Symbol"
    BY <2>2 DEF Prefix
  <2>4. (Deeper(k) = 0 => Len(stack) = 2) /\ (Deeper(k) = 1 => Len(stack) = 3)
    BY <1>2, <2>1 DEF Deeper
  <2>5. Deeper(k) = 1 => stack[3] = Unknown
    BY <1>2, <2>1
  <2>6. stack # <<>>
    BY <1>2, <2>3
  <2>7. Inner = stack[Len(stack)] /\ \A tag : Within(tag) <=> \E i \in 1..Len(stack) : stack[i] = tag
    BY <1>2, <2>6, SubstNamed, StackFacts
  <2>8. CASE Len(stack) = 2
    BY <1>3, <1>4, <2>3, <2>4, <2>7, <2>8
  <2>9. CASE Len(stack) = 3
    BY <1>3, <1>4, <2>3, <2>4, <2>5, <2>7, <2>9 DEF Unknown
  <2> QED BY <1>3, <2>4, <2>8, <2>9
<1>5. CASE k \in {"Name", "Alias"}
  <2>1. stack = substPath[k] /\ Deeper(k) = 0
    BY <1>2, <1>3, <1>5
  <2>2. stack[1] = "Substitution" /\ stack[2] = "Symbol" /\ stack[3] = k
    BY <1>5, <2>1, SubstPaths
  <2>3. Len(stack) = 3
    <3>1. Depth(k) = 3 /\ Deeper(k) = 0
      BY <1>5, <2>1, SubstDepths
    <3> QED BY <1>2, <3>1 DEF Deeper
  <2>4. stack # <<>>
    BY <1>2, <2>3
  <2>5. Inner = stack[Len(stack)] /\ \A tag : Within(tag) <=> \E i \in 1..Len(stack) : stack[i] = tag
    BY <1>2, <2>4, SubstNamed, StackFacts
  <2> QED BY <1>5, <2>1, <2>2, <2>3, <2>5
<1> QED BY <1>4, <1>5

\* A deeper element is opened: it is only counted, among properties.
LEMMA DeeperOpened ==
  ASSUME SubstInv, NEW n \in Tags, SubstStart(n), NEW k \in SubstPlaces,
         SubstAt(k), Control(k), Data(k), SubstAt(k)',
         given' = given, grammar' = grammar, stack' = Append(stack, n),
         n = Unknown \/ (n \in Hidden /\ Deeper(k) > 0)
  PROVE  SubstInv' /\ SubstitutedAsWritten'
<1>1. /\ sinfo' = sStartElement(Plain, n) /\ swant' = NoSubst /\ propSaid' = propSaid
      /\ ~inCData /\ inCData' = inCData
      /\ Within("Symbol") /\ ~Within("Properties") =>
           Inner # Unknown /\ (n = Unknown => Inner = "Symbol")
  BY DEF SubstStart, DocOpen
<1>2. PICK p : p = Plain
  OBVIOUS
<1>3. /\ p \in SInfo /\ p.made = NoSubst /\ p.ignore = sinfo.ignore /\ p.tag = sinfo.tag
      /\ p.subst = sinfo.subst /\ p.opc = sinfo.opc /\ p.opc_prop = sinfo.opc_prop
      /\ p.opc_parse = sinfo.opc_parse /\ p.opc_data = sinfo.opc_data
      /\ p.opc_cdata = sinfo.opc_cdata
  BY <1>2, Plainly DEF SubstInv
<1>4. /\ stack \in Seq(SubstNames) /\ Deeper(k) \in Nat /\ Depth(k) \in Nat
      /\ Deeper(k)' = Deeper(k) + 1
  <2>1. n \in SubstNames
    BY SubstFits DEF SubstInv
  <2>2. Len(stack') = Len(stack) + 1 /\ stack \in Seq(SubstNames) /\ Len(stack) \in Nat
    BY <2>1, Standpoint, StackFacts
  <2>3. Depth(k)' = Depth(k) /\ Depth(k) \in Nat
    BY DepthsNat DEF Depth
  <2> QED BY <2>2, <2>3, Standpoint DEF Deeper
<1>5. stack' # substPath[k] /\ ~inCData'
  <2>1. Deeper(k)' # 0
    BY <1>4
  <2>2. stack' = substPath[k] => Deeper(k)' = 0
    BY <1>4 DEF Deeper, Depth
  <2> QED BY <1>1, <2>1, <2>2
<1>6. CASE k \in OpcPlaces
  <2>1. p.tag = 4 /\ p.opc_parse = substParse[k] /\ p.ignore = Deeper(k) /\ p.opc_parse \in 1..4
    BY <1>3, <1>6, SubstTags DEF Control, OpcPlaces, PropertyPlaces
  <2>2. sStartElement(p, n) = sIgnore(p)
    <3>1. CASE p.ignore > 0
      BY <3>1 DEF sStartElement
    <3>2. CASE p.ignore = 0
      <4>1. n = Unknown
        BY <2>1, <3>2
      <4> QED BY <2>1, <3>2, <4>1 DEF sStartElement, Unknown
    <3> QED BY <1>3, <3>1, <3>2 DEF SInfo
  <2>3. /\ sinfo' \in SInfo /\ sinfo'.made = NoSubst /\ sinfo'.ignore = p.ignore + 1
        /\ sinfo'.tag = p.tag /\ sinfo'.subst = p.subst /\ sinfo'.opc = p.opc
        /\ sinfo'.opc_prop = p.opc_prop /\ sinfo'.opc_parse = p.opc_parse
        /\ sinfo'.opc_data = p.opc_data /\ sinfo'.opc_cdata = p.opc_cdata
    <3>1. PICK q : q = sIgnore(p)
      OBVIOUS
    <3>2. /\ q.made = p.made /\ q.ignore = p.ignore + 1 /\ q.tag = p.tag /\ q.subst = p.subst
          /\ q.opc = p.opc /\ q.opc_prop = p.opc_prop /\ q.opc_parse = p.opc_parse
          /\ q.opc_data = p.opc_data /\ q.opc_cdata = p.opc_cdata
      BY <1>3, <3>1 DEF SInfo, sIgnore
    <3>3. q \in SInfo
      <4>1. p.ignore + 1 \in Nat
        BY <1>3 DEF SInfo
      <4>2. q = [p EXCEPT !.ignore = p.ignore + 1]
        BY <3>1 DEF sIgnore
      <4> QED BY <1>3, <4>1, <4>2 DEF SInfo
    <3> QED BY <1>1, <1>2, <1>3, <2>2, <3>1, <3>2, <3>3
  <2>4. Control(k)'
    BY <1>3, <1>4, <1>6, <2>1, <2>3 DEF Control, OpcPlaces, PropertyPlaces
  <2>5. Data(k)'
    BY <1>1, <1>3, <1>5, <2>3, SameGiven, ZenonT(40) DEF Data, Kept
  <2> QED BY <1>1, <2>3, <2>4, <2>5, GrammarStays DEF SubstInv, SubstitutedAsWritten
<1>7. CASE k \notin OpcPlaces
  <2>1. p.ignore = 0 /\ p.opc_parse = 0
    BY <1>3, <1>7, SubstTags DEF Control
  <2>2. k \notin {"Name", "Alias"} /\ (k = "Symbol" => Deeper(k) = 0)
    <3>1. SUFFICES ASSUME k \in {"Symbol", "Name", "Alias"}
                   PROVE  k = "Symbol" /\ Deeper(k) = 0
      OBVIOUS
    <3>2. Inner # Unknown /\ (n = Unknown => Inner = "Symbol")
      BY <1>1, <3>1, InSymbol
    <3>3. Deeper(k) = 0
      BY <1>4, <3>1, <3>2, InSymbol DEF Control
    <3> QED BY <3>1, <3>2, <3>3, InSymbol
  <2>3. sStartElement(p, n) = p
    <3>1. CASE k \in {"Document", "Substitution"}
      BY <1>3, <2>1, <3>1, SubstTags, SubstFileAssumption DEF sStartElement, Control, Unknown
    <3>2. CASE k = "Symbol"
      BY <1>3, <2>1, <2>2, <3>2, SubstTags DEF sStartElement, Control, Unknown
    <3> QED BY <1>7, <2>2, <3>1, <3>2 DEF SubstPlaces, SymbolPlaces
  <2>4. sinfo' = p
    BY <1>1, <1>2, <2>3
  <2>5. Control(k)'
    BY <1>3, <1>4, <1>7, <2>1, <2>2, <2>4 DEF Control
  <2>6. Data(k)'
    BY <1>1, <1>3, <1>5, <1>7, <2>4, SameGiven DEF Data, Kept, OpcPlaces, PropertyPlaces
  <2> QED BY <1>1, <1>3, <2>4, <2>5, <2>6, GrammarStays DEF SubstInv, SubstitutedAsWritten
<1> QED BY <1>6, <1>7

\* An element is opened in its place.
LEMMA PlaceOpened ==
  ASSUME SubstInv, NEW n \in Tags, SubstStart(n), NEW k \in SubstPlaces,
         SubstAt(k), Control(k), Data(k), NEW c \in SubstPlaces \ {Root},
         substUp[c] = k, substOwn[c] = n, stack = substPath[k], stack' = substPath[c],
         given' = given, grammar' = grammar, SubstAt(c)',
         IsLeaf(n) => substPath[c] \notin opened
  PROVE  SubstInv' /\ SubstitutedAsWritten'
<1>1. /\ sinfo' = sStartElement(Plain, n) /\ swant' = NoSubst /\ propSaid' = propSaid
      /\ inCData = FALSE /\ inCData' = FALSE
  BY DEF SubstStart, DocOpen
<1>2. PICK p : p = Plain
  OBVIOUS
<1>3. /\ p \in SInfo /\ p.made = NoSubst /\ p.ignore = sinfo.ignore /\ p.tag = sinfo.tag
      /\ p.subst = sinfo.subst /\ p.opc = sinfo.opc /\ p.opc_prop = sinfo.opc_prop
      /\ p.opc_parse = sinfo.opc_parse /\ p.opc_data = sinfo.opc_data
      /\ p.opc_cdata = sinfo.opc_cdata
  BY <1>2, Plainly DEF SubstInv
<1>4. Deeper(k) = 0 /\ Deeper(c)' = 0
  <2>1. Deeper(k) = 0
    BY Standpoint
  <2>2. Depth(c)' = Depth(c) /\ Depth(c) \in Nat /\ Len(stack') = Depth(c)
    BY DepthsNat DEF Depth
  <2> QED BY <2>1, <2>2 DEF Deeper
<1>5. \A q : Kept(q)
  BY SameGiven
<1>6. \A j \in SubstPlaces \ {Root} : substPath[j] \notin opened =>
        TextAt(substPath[j]) = {} /\ ValueAt(substPath[j]) = {}
        /\ <<substPath[j], "section">> \notin given
  BY Unopened
<1>7. CASE c = "Substitution"
  <2>1. k = "Document" /\ n = "Substitution" /\ p.ignore = 0 /\ p.tag = 0 /\ p.opc_parse = 0
    BY <1>3, <1>4, <1>7, SubstUps, SubstOwns, SubstTags
       DEF Control, SubstPlaces, SymbolPlaces, OpcPlaces, PropertyPlaces
  <2>2. sStartElement(p, n) = p
    BY <2>1 DEF sStartElement
  <2>3. sinfo' = p
    BY <1>1, <1>2, <2>2
  <2>4. Control(c)'
    BY <1>4, <1>7, <2>1, <2>3, SubstTags
       DEF Control, SubstPlaces, SymbolPlaces, OpcPlaces, PropertyPlaces
  <2>5. Data(c)'
    BY <1>1, <1>7, <2>1 DEF Data, SubstPlaces, SymbolPlaces, OpcPlaces, PropertyPlaces
  <2> QED BY <1>1, <1>3, <2>3, <2>4, <2>5, GrammarStays DEF SubstInv, SubstitutedAsWritten
<1>8. CASE c = "Symbol"
  <2>1. k = "Substitution" /\ n = "Symbol" /\ p.ignore = 0 /\ p.tag = 0 /\ p.opc_parse = 0
    BY <1>3, <1>4, <1>8, SubstUps, SubstOwns, SubstTags
       DEF Control, SubstPlaces, SymbolPlaces, OpcPlaces, PropertyPlaces
  <2>2. PICK q : q = sStartSymbol(p)
    OBVIOUS
  <2>3. sStartElement(p, n) = q
    BY <2>1, <2>2 DEF sStartElement
  <2>4. /\ q.ignore = p.ignore /\ q.tag = 1 /\ q.subst = NoSubst
        /\ q.opc = NoProperty /\ q.opc_prop = p.opc_prop /\ q.opc_parse = p.opc_parse
        /\ q.opc_data = p.opc_data /\ q.opc_cdata = p.opc_cdata /\ q.made = p.made
    BY <1>3, <2>2 DEF SInfo, sStartSymbol
  <2>5. q \in SInfo
    BY <1>3, <2>2 DEF SInfo, Record, NoSubst, NoProperty, sStartSymbol
  <2>6. sinfo' = q
    BY <1>1, <1>2, <2>3
  <2>7. Control(c)'
    BY <1>4, <1>8, <2>1, <2>4, <2>6, SubstTags
       DEF Control, SubstPlaces, SymbolPlaces, OpcPlaces, PropertyPlaces
  <2>8. \A j \in {"Name", "Alias"} : TextAt(substPath[j]) = {} /\ ValueAt(substPath[j]) = {}
    <3>1. TAKE j \in {"Name", "Alias"}
    <3>2. j \in SubstPlaces \ {Root} /\ Depth(substUp[j]) > Depth(k)
      BY <2>1, SubstUps, SubstDepths DEF Root, SubstPlaces, SymbolPlaces, OpcPlaces, PropertyPlaces
    <3> QED BY <1>6, <3>2, NotYet
  <2>9. Data(c)'
    BY <1>1, <1>3, <1>5, <1>8, <2>1, <2>4, <2>6, <2>8
       DEF Data, NoSubst, Kept, SubstPlaces, SymbolPlaces, OpcPlaces, PropertyPlaces
  <2> QED BY <1>1, <2>5, <2>6, <2>7, <2>9, <2>4, <1>3, GrammarStays DEF SubstInv, SubstitutedAsWritten
<1>9. CASE c = "Name"
  <2>1. k = "Symbol" /\ n = "Name" /\ p.ignore = 0 /\ p.tag = 1 /\ p.opc_parse = 0
    BY <1>3, <1>4, <1>9, SubstUps, SubstOwns, SubstTags
       DEF Control, SubstPlaces, SymbolPlaces, OpcPlaces, PropertyPlaces
  <2>2. PICK q : q = [p EXCEPT !.subst.name = {}, !.tag = 2]
    OBVIOUS
  <2>3. sStartElement(p, n) = q
    BY <2>1, <2>2 DEF sStartElement
  <2>4. /\ q.ignore = p.ignore /\ q.tag = 2 /\ q.subst = [p.subst EXCEPT !.name = {}]
        /\ q.opc = p.opc /\ q.opc_prop = p.opc_prop /\ q.opc_parse = p.opc_parse
        /\ q.opc_data = p.opc_data /\ q.opc_cdata = p.opc_cdata /\ q.made = p.made
    BY <1>3, <2>2 DEF SInfo
  <2>5. q \in SInfo
    BY <1>3, <2>2 DEF SInfo, Record, NoSubst, NoProperty
  <2>6. sinfo' = q
    BY <1>1, <1>2, <2>3
  <2>7. Control(c)'
    BY <1>4, <1>9, <2>1, <2>4, <2>6, SubstTags
       DEF Control, SubstPlaces, SymbolPlaces, OpcPlaces, PropertyPlaces
  <2>8. TextAt(substPath[c]) = {} /\ ValueAt(substPath[c]) = {}
        /\ <<substPath[c], "section">> \notin given
    BY <1>6, <2>1, SubstFits DEF SubstInv
  <2>9. q.subst.name = {} /\ q.subst.alias = p.subst.alias
    BY <1>3, <2>2 DEF SInfo
  <2>10. q.opc = p.opc
    BY <2>4
  <2>11. sinfo'.subst.name = TextAt(substPath["Name"])'
         /\ sinfo'.subst.alias = TextAt(substPath["Alias"])'
    BY <1>3, <1>5, <1>9, <2>1, <2>6, <2>8, <2>9 DEF Data, Kept, SymbolPlaces
  <2>12. Data(c)'
    BY <1>1, <1>3, <1>9, <2>1, <2>6, <2>10, <2>11
       DEF Data, SubstPlaces, SymbolPlaces, OpcPlaces, PropertyPlaces
  <2> QED BY <1>1, <2>5, <2>6, <2>7, <2>12, <2>4, <1>3, GrammarStays DEF SubstInv, SubstitutedAsWritten
<1>10. CASE c = "Alias"
  <2>1. k = "Symbol" /\ n = "Alias" /\ p.ignore = 0 /\ p.tag = 1 /\ p.opc_parse = 0
    BY <1>3, <1>4, <1>10, SubstUps, SubstOwns, SubstTags
       DEF Control, SubstPlaces, SymbolPlaces, OpcPlaces, PropertyPlaces
  <2>2. PICK q : q = [p EXCEPT !.subst.alias = {}, !.tag = 3]
    OBVIOUS
  <2>3. sStartElement(p, n) = q
    BY <2>1, <2>2 DEF sStartElement
  <2>4. /\ q.ignore = p.ignore /\ q.tag = 3
        /\ q.subst = [p.subst EXCEPT !.alias = {}] /\ q.opc = p.opc
        /\ q.opc_prop = p.opc_prop /\ q.opc_parse = p.opc_parse
        /\ q.opc_data = p.opc_data /\ q.opc_cdata = p.opc_cdata /\ q.made = p.made
    BY <1>3, <2>2 DEF SInfo
  <2>5. q \in SInfo
    BY <1>3, <2>2 DEF SInfo, Record, NoSubst, NoProperty
  <2>6. sinfo' = q
    BY <1>1, <1>2, <2>3
  <2>7. Control(c)'
    BY <1>4, <1>10, <2>1, <2>4, <2>6, SubstTags
       DEF Control, SubstPlaces, SymbolPlaces, OpcPlaces, PropertyPlaces
  <2>8. TextAt(substPath[c]) = {} /\ ValueAt(substPath[c]) = {}
        /\ <<substPath[c], "section">> \notin given
    BY <1>6, <2>1, SubstFits DEF SubstInv
  <2>9. q.subst.alias = {} /\ q.subst.name = p.subst.name
    BY <1>3, <2>2 DEF SInfo
  <2>10. q.opc = p.opc
    BY <2>4
  <2>11. sinfo'.subst.name = TextAt(substPath["Name"])'
         /\ sinfo'.subst.alias = TextAt(substPath["Alias"])'
    BY <1>3, <1>5, <1>10, <2>1, <2>6, <2>8, <2>9 DEF Data, Kept, SymbolPlaces
  <2>12. Data(c)'
    BY <1>1, <1>3, <1>10, <2>1, <2>6, <2>10, <2>11
       DEF Data, SubstPlaces, SymbolPlaces, OpcPlaces, PropertyPlaces
  <2> QED BY <1>1, <2>5, <2>6, <2>7, <2>12, <2>4, <1>3, GrammarStays DEF SubstInv, SubstitutedAsWritten
<1>11. CASE c = "Properties"
  <2>1. k = "Symbol" /\ n = "Properties" /\ p.ignore = 0 /\ p.tag = 1 /\ p.opc_parse = 0
    BY <1>3, <1>4, <1>11, SubstUps, SubstOwns, SubstTags
       DEF Control, SubstPlaces, SymbolPlaces, OpcPlaces, PropertyPlaces
  <2>2. PICK q : q = [p EXCEPT !.tag = 4, !.opc_parse = 1]
    OBVIOUS
  <2>3. sStartElement(p, n) = q
    BY <2>1, <2>2 DEF sStartElement
  <2>4. /\ q.ignore = p.ignore /\ q.tag = 4 /\ q.subst = p.subst /\ q.opc = p.opc
        /\ q.opc_prop = p.opc_prop /\ q.opc_parse = 1 /\ q.opc_data = p.opc_data
        /\ q.opc_cdata = p.opc_cdata /\ q.made = p.made
    BY <1>3, <2>2 DEF SInfo
  <2>5. q \in SInfo
    BY <1>3, <2>2 DEF SInfo, Record, NoSubst, NoProperty
  <2>6. sinfo' = q
    BY <1>1, <1>2, <2>3
  <2>7. Control(c)'
    BY <1>4, <1>11, <2>1, <2>4, <2>6, SubstTags
       DEF Control, SubstPlaces, SymbolPlaces, OpcPlaces, PropertyPlaces
  <2>8. Data(c)'
    BY <1>1, <1>3, <1>5, <1>11, <2>1, <2>4, <2>6
       DEF Data, Kept, SubstPlaces, SymbolPlaces, OpcPlaces, PropertyPlaces
  <2> QED BY <1>1, <2>5, <2>6, <2>7, <2>8, <2>4, <1>3, GrammarStays DEF SubstInv, SubstitutedAsWritten
<1>12. CASE c = "Property"
  <2>1. k = "Properties" /\ n = "Property" /\ p.ignore = 0 /\ p.tag = 4 /\ p.opc_parse = 1
    BY <1>3, <1>4, <1>12, SubstUps, SubstOwns, SubstTags
       DEF Control, SubstPlaces, SymbolPlaces, OpcPlaces, PropertyPlaces
  <2>2. PICK q : q = [p EXCEPT !.opc_parse = 2, !.opc_prop = NoProperty]
    OBVIOUS
  <2>3. sStartElement(p, n) = q
    BY <2>1, <2>2 DEF sStartElement
  <2>4. /\ q.ignore = p.ignore /\ q.tag = p.tag /\ q.subst = p.subst /\ q.opc = p.opc
        /\ q.opc_prop = NoProperty /\ q.opc_parse = 2 /\ q.opc_data = p.opc_data
        /\ q.opc_cdata = p.opc_cdata /\ q.made = p.made
    BY <1>3, <2>2 DEF SInfo
  <2>5. q \in SInfo
    BY <1>3, <2>2 DEF SInfo, Record, NoSubst, NoProperty
  <2>6. sinfo' = q
    BY <1>1, <1>2, <2>3
  <2>7. Control(c)'
    BY <1>4, <1>12, <2>1, <2>4, <2>6, SubstTags
       DEF Control, SubstPlaces, SymbolPlaces, OpcPlaces, PropertyPlaces
  <2>8. \A j \in {"PropertyName", "PropertyValue"} :
          TextAt(substPath[j]) = {} /\ ValueAt(substPath[j]) = {}
    <3>1. TAKE j \in {"PropertyName", "PropertyValue"}
    <3>2. j \in SubstPlaces \ {Root} /\ Depth(substUp[j]) > Depth(k)
      BY <2>1, SubstUps, SubstDepths DEF Root, SubstPlaces, SymbolPlaces, OpcPlaces, PropertyPlaces
    <3> QED BY <1>6, <3>2, NotYet
  <2>9. q.opc_prop.known = FALSE /\ q.opc_prop.value = {}
    BY <2>4 DEF NoProperty
  <2>10. Data(c)'
    BY <1>1, <1>3, <1>5, <1>12, <2>1, <2>4, <2>6, <2>8, <2>9
       DEF Data, Kept, SubstPlaces, SymbolPlaces, OpcPlaces, PropertyPlaces
  <2> QED BY <1>1, <2>5, <2>6, <2>7, <2>10, <2>4, <1>3, GrammarStays DEF SubstInv, SubstitutedAsWritten
<1>13. CASE c = "PropertyName"
  <2>1. k = "Property" /\ n = "Name" /\ p.ignore = 0 /\ p.tag = 4 /\ p.opc_parse = 2
    BY <1>3, <1>4, <1>13, SubstUps, SubstOwns, SubstTags
       DEF Control, SubstPlaces, SymbolPlaces, OpcPlaces, PropertyPlaces
  <2>2. PICK q : q = sStartPart(p, 3)
    OBVIOUS
  <2>3. sStartElement(p, n) = q
    BY <2>1, <2>2 DEF sStartElement
  <2>4. /\ q.ignore = p.ignore /\ q.tag = p.tag /\ q.subst = p.subst /\ q.opc = p.opc
        /\ q.opc_prop = p.opc_prop /\ q.opc_parse = 3 /\ q.opc_data = {}
        /\ q.opc_cdata = TRUE /\ q.made = p.made
    BY <1>3, <2>2 DEF SInfo, sStartPart
  <2>5. q \in SInfo
    BY <1>3, <2>2 DEF SInfo, Record, NoSubst, NoProperty, sStartPart
  <2>6. sinfo' = q
    BY <1>1, <1>2, <2>3
  <2>7. Control(c)'
    BY <1>4, <1>13, <2>1, <2>4, <2>6, SubstTags
       DEF Control, SubstPlaces, SymbolPlaces, OpcPlaces, PropertyPlaces
  <2>8. TextAt(substPath[c]) = {} /\ ValueAt(substPath[c]) = {}
        /\ <<substPath[c], "section">> \notin given
    BY <1>6, <2>1, SubstFits DEF SubstInv
  <2>9. Data(c)'
    BY <1>1, <1>3, <1>5, <1>13, <2>1, <2>4, <2>6, <2>8
       DEF Data, Kept, SubstPlaces, SymbolPlaces, OpcPlaces, PropertyPlaces
  <2> QED BY <1>1, <2>5, <2>6, <2>7, <2>9, <2>4, <1>3, GrammarStays DEF SubstInv, SubstitutedAsWritten
<1>14. CASE c = "PropertyValue"
  <2>1. k = "Property" /\ n = "Value" /\ p.ignore = 0 /\ p.tag = 4 /\ p.opc_parse = 2
    BY <1>3, <1>4, <1>14, SubstUps, SubstOwns, SubstTags
       DEF Control, SubstPlaces, SymbolPlaces, OpcPlaces, PropertyPlaces
  <2>2. PICK q : q = sStartPart(p, 4)
    OBVIOUS
  <2>3. sStartElement(p, n) = q
    BY <2>1, <2>2 DEF sStartElement
  <2>4. /\ q.ignore = p.ignore /\ q.tag = p.tag /\ q.subst = p.subst /\ q.opc = p.opc
        /\ q.opc_prop = p.opc_prop /\ q.opc_parse = 4 /\ q.opc_data = {}
        /\ q.opc_cdata = TRUE /\ q.made = p.made
    BY <1>3, <2>2 DEF SInfo, sStartPart
  <2>5. q \in SInfo
    BY <1>3, <2>2 DEF SInfo, Record, NoSubst, NoProperty, sStartPart
  <2>6. sinfo' = q
    BY <1>1, <1>2, <2>3
  <2>7. Control(c)'
    BY <1>4, <1>14, <2>1, <2>4, <2>6, SubstTags
       DEF Control, SubstPlaces, SymbolPlaces, OpcPlaces, PropertyPlaces
  <2>8. TextAt(substPath[c]) = {} /\ ValueAt(substPath[c]) = {}
        /\ <<substPath[c], "section">> \notin given
    BY <1>6, <2>1, SubstFits DEF SubstInv
  <2>9. Data(c)'
    BY <1>1, <1>3, <1>5, <1>14, <2>1, <2>4, <2>6, <2>8
       DEF Data, Kept, SubstPlaces, SymbolPlaces, OpcPlaces, PropertyPlaces
  <2> QED BY <1>1, <2>5, <2>6, <2>7, <2>9, <2>4, <1>3, GrammarStays DEF SubstInv, SubstitutedAsWritten
<1> QED BY <1>7, <1>8, <1>9, <1>10, <1>11, <1>12, <1>13, <1>14
       DEF Root, SubstPlaces, SymbolPlaces, OpcPlaces, PropertyPlaces

\* An element starts.
LEMMA SubstStartKeeps ==
  ASSUME SubstInv, NEW n \in Tags, SubstStart(n)
  PROVE  SubstInv' /\ SubstitutedAsWritten'
<1>1. PICK k \in SubstPlaces : SubstAt(k) /\ Control(k) /\ Data(k)
  BY DEF SubstInv
<1>2. DocOpen({}, n) /\ n \in SubstNames
  BY SubstFits DEF SubstStart, SubstInv
<1>3. /\ given' = given /\ grammar' = grammar /\ stack' = Append(stack, n)
      /\ \/ (n = Unknown \/ (n \in Hidden /\ Deeper(k) > 0)) /\ SubstAt(k)'
         \/ \E c \in SubstPlaces \ {Root} :
              /\ stack = substPath[k] /\ substUp[c] = k /\ substOwn[c] = n
              /\ stack' = substPath[c] /\ (IsLeaf(n) => substPath[c] \notin opened)
              /\ SubstAt(c)'
  <2>1. /\ IsTree(SubstPlaces, substUp, substOwn, substPath, {}, SubstNames)
        /\ GrammarFits(SubstPlaces, substUp, substOwn)
        /\ At(SubstPlaces, substUp, substOwn, substPath, {}, SubstNames, k)
    BY <1>1, SubstTree, SubstFits DEF SubstInv, SubstAt
  <2>2. /\ given' = given /\ grammar' = grammar /\ stack' = Append(stack, n)
        /\ \/ /\ \/ n = Unknown
                 \/ n \in Hidden /\ (Len(stack) > Len(substPath[k])
                                     \/ (k # Root /\ substOwn[k] \in {}))
              /\ At(SubstPlaces, substUp, substOwn, substPath, {}, SubstNames, k)'
           \/ \E c \in SubstPlaces \ {Root} :
                /\ stack = substPath[k] /\ substUp[c] = k /\ substOwn[c] = n
                /\ stack' = substPath[c]
                /\ IsLeaf(n) => substPath[c] \notin opened
                /\ opened' = opened \cup {substPath[c]}
                /\ At(SubstPlaces, substUp, substOwn, substPath, {}, SubstNames, c)'
    BY <1>2, <2>1, OpenStep
  <2>3. Len(stack) > Len(substPath[k]) => Deeper(k) > 0
    <3>1. Len(stack) \in Nat /\ Depth(k) \in Nat
      BY <1>1, Standpoint, DepthsNat
    <3>2. Len(stack) > Depth(k) => Deeper(k) > 0
      BY <3>1 DEF Deeper
    <3> QED BY <3>2 DEF Depth
  <2> QED BY <2>2, <2>3 DEF SubstAt
<1>4. CASE (n = Unknown \/ (n \in Hidden /\ Deeper(k) > 0)) /\ SubstAt(k)'
  BY <1>1, <1>3, <1>4, DeeperOpened
<1>5. ASSUME NEW c \in SubstPlaces \ {Root},
             stack = substPath[k], substUp[c] = k, substOwn[c] = n, stack' = substPath[c],
             IsLeaf(n) => substPath[c] \notin opened, SubstAt(c)'
      PROVE  SubstInv' /\ SubstitutedAsWritten'
  BY <1>1, <1>3, <1>5, PlaceOpened
<1> QED BY <1>3, <1>4, <1>5

\* A deeper element is closed.
LEMMA DeeperClosed ==
  ASSUME SubstInv, SubstEnd, NEW k \in SubstPlaces, SubstAt(k), Control(k), Data(k),
         SubstAt(k)', given' = given, grammar' = grammar, stack' = Front(stack), stack # <<>>,
         Deeper(k) > 0, stack \notin opened
  PROVE  SubstInv' /\ SubstitutedAsWritten'
<1>1. /\ sinfo' = sEndElement(Plain, Inner) /\ swant' = SubstSaid /\ propSaid' = PropSaid
      /\ inCData = FALSE /\ inCData' = FALSE
  BY DEF SubstEnd, DocClose, SubstInv
<1>2. PICK p : p = Plain
  OBVIOUS
<1>3. /\ p \in SInfo /\ p.made = NoSubst /\ p.ignore = sinfo.ignore /\ p.tag = sinfo.tag
      /\ p.subst = sinfo.subst /\ p.opc = sinfo.opc /\ p.opc_prop = sinfo.opc_prop
      /\ p.opc_parse = sinfo.opc_parse /\ p.opc_data = sinfo.opc_data
      /\ p.opc_cdata = sinfo.opc_cdata
  BY <1>2, Plainly DEF SubstInv
<1>4. swant' = NoSubst /\ propSaid' = propSaid
  BY <1>1 DEF SubstSaid, PropSaid
<1>5. Deeper(k) \in Nat /\ Deeper(k)' = Deeper(k) - 1
  <2>1. Len(stack') = Len(stack) - 1 /\ Len(stack) \in Nat /\ Deeper(k) \in Nat
    BY Standpoint, AllButLast
  <2>2. Depth(k)' = Depth(k) /\ Depth(k) \in Nat
    BY DepthsNat DEF Depth
  <2> QED BY <2>1, <2>2 DEF Deeper
<1>6. \A q : Kept(q)
  BY SameGiven
<1>7. CASE k \in OpcPlaces
  <2>1. p.tag = 4 /\ p.opc_parse = substParse[k] /\ p.ignore = Deeper(k)
    BY <1>3, <1>7, SubstTags DEF Control
  <2>2. PICK q : q = [p EXCEPT !.ignore = @ - 1]
    OBVIOUS
  <2>3. sinfo' = q
    BY <1>1, <1>2, <2>1, <2>2 DEF sEndElement
  <2>4. /\ q.made = p.made /\ q.ignore = p.ignore - 1 /\ q.tag = p.tag /\ q.subst = p.subst
        /\ q.opc = p.opc /\ q.opc_prop = p.opc_prop /\ q.opc_parse = p.opc_parse
        /\ q.opc_data = p.opc_data /\ q.opc_cdata = p.opc_cdata
    BY <1>3, <2>2 DEF SInfo
  <2>5. q \in SInfo
    <3>1. p.ignore - 1 \in Nat
      BY <1>5, <2>1
    <3>2. q = [p EXCEPT !.ignore = p.ignore - 1]
      BY <2>2
    <3> QED BY <1>3, <3>1, <3>2 DEF SInfo
  <2>6. Control(k)'
    BY <1>3, <1>5, <1>7, <2>1, <2>3, <2>4 DEF Control, OpcPlaces, PropertyPlaces
  <2>7. Data(k)'
    <3>1. <<substPath[k], "section">> \in given' <=> <<substPath[k], "section">> \in given
      OBVIOUS
    <3> QED BY <1>1, <1>3, <1>4, <1>6, <2>3, <2>4, <3>1 DEF Data, Kept
  <2> QED BY <1>3, <1>4, <2>3, <2>4, <2>5, <2>6, <2>7, GrammarStays
         DEF SubstInv, SubstitutedAsWritten
<1>8. CASE k \notin OpcPlaces
  <2>1. p.ignore = 0 /\ p.opc_parse = 0
    BY <1>3, <1>8, SubstTags DEF Control
  <2>2. k \notin {"Name", "Alias"}
    BY <1>5 DEF Control
  <2>3. sEndElement(p, Inner) = p
    <3>1. CASE k \in {"Document", "Substitution"}
      BY <1>3, <2>1, <3>1, SubstTags DEF sEndElement, Control
    <3>2. CASE k = "Symbol"
      <4>1. Deeper(k) = 1
        BY <1>5, <3>2 DEF Control
      <4>2. Inner = "Other"
        BY <3>2, <4>1, InSymbol DEF Unknown
      <4> QED BY <1>3, <2>1, <3>2, <4>2, SubstTags DEF sEndElement, Control
    <3> QED BY <1>8, <2>2, <3>1, <3>2 DEF SubstPlaces, SymbolPlaces
  <2>4. sinfo' = p
    BY <1>1, <1>2, <2>3
  <2>5. Control(k)'
    BY <1>3, <1>5, <1>8, <2>1, <2>2, <2>4 DEF Control
  <2>6. Data(k)'
    BY <1>1, <1>3, <1>4, <1>6, <1>8, <2>4 DEF Data, Kept, OpcPlaces, PropertyPlaces
  <2> QED BY <1>3, <1>4, <2>4, <2>5, <2>6, GrammarStays DEF SubstInv, SubstitutedAsWritten
<1> QED BY <1>7, <1>8

\* An element is closed in its place.
LEMMA PlaceClosed ==
  ASSUME SubstInv, SubstEnd, NEW k \in SubstPlaces \ {Root},
         SubstAt(k), Control(k), Data(k),
         stack = substPath[k], Inner = substOwn[k], stack \in opened, grammar' = grammar,
         stack' = substPath[substUp[k]], SubstAt(substUp[k])',
         \A j \in SubstPlaces \ {Root} :
           j = k \/ ~Prefix(substPath[k], substPath[j]) => Kept(substPath[j])
  PROVE  SubstInv' /\ SubstitutedAsWritten'
<1>1. /\ sinfo' = sEndElement(Plain, Inner) /\ swant' = SubstSaid /\ propSaid' = PropSaid
      /\ inCData = FALSE /\ inCData' = FALSE
  BY DEF SubstEnd, DocClose, SubstInv
<1>2. PICK p : p = Plain
  OBVIOUS
<1>3. /\ p \in SInfo /\ p.made = NoSubst /\ p.ignore = sinfo.ignore /\ p.tag = sinfo.tag
      /\ p.subst = sinfo.subst /\ p.opc = sinfo.opc /\ p.opc_prop = sinfo.opc_prop
      /\ p.opc_parse = sinfo.opc_parse /\ p.opc_data = sinfo.opc_data
      /\ p.opc_cdata = sinfo.opc_cdata
  BY <1>2, Plainly DEF SubstInv
<1>4. /\ Deeper(k) = 0 /\ Deeper(substUp[k])' = 0 /\ substUp[k] \in SubstPlaces
      /\ GrammarKnown
  <2>1. Deeper(k) = 0
    BY Standpoint
  <2>2. substUp[k] \in SubstPlaces
    BY SubstTree DEF IsTree
  <2>3. PICK u \in SubstPlaces : u = substUp[k]
    BY <2>2
  <2>4. Depth(u)' = Depth(u) /\ Depth(u) \in Nat /\ Len(stack') = Depth(u)
    BY <2>3, DepthsNat DEF Depth
  <2>5. Deeper(u)' = 0
    BY <2>4 DEF Deeper
  <2> QED BY <2>1, <2>2, <2>3, <2>5 DEF SubstInv
<1>5. \A j \in SubstPlaces \ {Root} : Depth(j) <= Depth(k) => Kept(substPath[j])
  <2>1. SUFFICES ASSUME NEW j \in SubstPlaces \ {Root}, Depth(j) <= Depth(k),
                        Prefix(substPath[k], substPath[j])
                 PROVE  j = k
    OBVIOUS
  <2>2. Depth(k) <= Depth(j)
    BY <2>1 DEF Prefix, Depth
  <2>3. Depth(k) = Depth(j)
    BY <2>1, <2>2, DepthsNat
  <2>4. substPath[k] = substPath[j]
    BY <2>1, <2>3, DepthsNat, PrefixFacts DEF Depth
  <2> QED BY <2>1, <2>4, SubstTree DEF IsTree
<1>6. \A j \in SubstPlaces \ {Root} : substPath[j] = Append(substPath[substUp[j]], substOwn[j])
  BY SubstTree DEF IsTree
<1>7. CASE k = "Substitution"
  <2>1. /\ substUp[k] = "Document" /\ Inner = "Substitution" /\ p.ignore = 0 /\ p.tag = 0
        /\ p.opc_parse = 0
    BY <1>3, <1>4, <1>7, SubstUps, SubstOwns, SubstTags
       DEF Control, SubstPlaces, SymbolPlaces, OpcPlaces, PropertyPlaces
  <2>2. swant' = NoSubst /\ propSaid' = propSaid
    BY <1>1, <2>1 DEF SubstSaid, PropSaid
  <2>3. PICK q : q = p
    OBVIOUS
  <2>4. sinfo' = q
    BY <1>1, <1>2, <2>1, <2>3 DEF sEndElement
  <2>5. /\ q.ignore = p.ignore /\ q.tag = p.tag /\ q.subst = p.subst /\ q.opc = p.opc
        /\ q.opc_prop = p.opc_prop /\ q.opc_parse = p.opc_parse
        /\ q.opc_data = p.opc_data /\ q.opc_cdata = p.opc_cdata /\ q.made = p.made
    BY <2>3
  <2>6. q \in SInfo
    BY <1>3, <2>3
  <2>7. Control(substUp[k])'
    BY <1>4, <2>1, <2>4, <2>5, SubstTags
       DEF Control, SubstPlaces, SymbolPlaces, OpcPlaces, PropertyPlaces
  <2>8. Data(substUp[k])'
    BY <1>3, <1>7, <2>1, <2>2 DEF Data, SubstPlaces, SymbolPlaces, OpcPlaces, PropertyPlaces
  <2> QED BY <1>3, <1>4, <2>2, <2>4, <2>5, <2>6, <2>7, <2>8, GrammarStays
         DEF SubstInv, SubstitutedAsWritten
<1>8. CASE k = "Symbol"
  <2>1. /\ substUp[k] = "Substitution" /\ Inner = "Symbol" /\ p.ignore = 0 /\ p.tag = 1
        /\ p.opc_parse = 0
    BY <1>3, <1>4, <1>8, SubstUps, SubstOwns, SubstTags
       DEF Control, SubstPlaces, SymbolPlaces, OpcPlaces, PropertyPlaces
  <2>2. propSaid' = NoProperty
    BY <1>1, <2>1 DEF PropSaid
  <2>3. PICK q : q = sEndSymbol(p)
    OBVIOUS
  <2>4. sinfo' = q
    BY <1>1, <1>2, <2>1, <2>3 DEF sEndElement
  <2>5. /\ q.ignore = p.ignore /\ q.tag = 0 /\ q.opc = p.opc
        /\ q.opc_prop = p.opc_prop /\ q.opc_parse = p.opc_parse
        /\ q.opc_data = p.opc_data /\ q.opc_cdata = p.opc_cdata
    BY <1>3, <2>3, SMTT(30) DEF SInfo, sEndSymbol
  <2>6. q \in SInfo
    BY <1>3, <2>3, ZenonT(40) DEF SInfo, Record, NoSubst, NoProperty, sEndSymbol
  <2>7. Control(substUp[k])'
    BY <1>4, <2>1, <2>4, <2>5, SubstTags
       DEF Control, SubstPlaces, SymbolPlaces, OpcPlaces, PropertyPlaces
  <2>8. /\ Append(stack, "Name") = substPath["Name"] /\ Append(stack, "Alias") = substPath["Alias"]
    <3>1. "Name" \in SubstPlaces \ {Root} /\ "Alias" \in SubstPlaces \ {Root}
      BY DEF Root, SubstPlaces, SymbolPlaces
    <3>2. substUp["Name"] = k /\ substUp["Alias"] = k
      BY <1>8, SubstUps
    <3>3. substOwn["Name"] = "Name" /\ substOwn["Alias"] = "Alias"
      BY <3>1, SubstOwns
    <3> QED BY <1>6, <3>1, <3>2, <3>3
  <2>9. /\ p.subst.name = TextAt(substPath["Name"]) /\ p.subst.alias = TextAt(substPath["Alias"])
        /\ p.opc = propSaid
    BY <1>3, <1>8 DEF Data, SymbolPlaces
  <2>10. p.opc.known = FALSE => p.opc.value = {}
    BY <2>9 DEF Data, NoProperty
  <2>11. q.made = swant'
    <3>1. p.subst.alias = {} /\ p.opc.known =>
            [p.subst EXCEPT !.alias = p.opc.value] = [name |-> p.subst.name, alias |-> p.opc.value]
      BY <1>3 DEF SInfo
    <3>2. p.subst = [name |-> p.subst.name, alias |-> p.subst.alias] /\ p.opc.known \in BOOLEAN
      BY <1>3 DEF SInfo, Record
    <3>3. swant' = LET alias == IF p.subst.alias # {} THEN p.subst.alias ELSE p.opc.value
                   IN IF p.subst.name # {} /\ alias # {}
                      THEN [name |-> p.subst.name, alias |-> alias] ELSE NoSubst
      BY <1>1, <2>1, <2>8, <2>9 DEF SubstSaid
    <3>4. q.made = LET s == IF p.subst.alias = {} /\ p.opc.known
                            THEN [p.subst EXCEPT !.alias = p.opc.value] ELSE p.subst
                   IN IF s.name # {} /\ s.alias # {} THEN s ELSE NoSubst
      BY <1>3, <2>3 DEF sEndSymbol, SInfo
    <3>5. CASE p.subst.alias = {} /\ p.opc.known
      BY <3>1, <3>3, <3>4, <3>5
    <3>6. CASE p.subst.alias # {}
      BY <3>2, <3>3, <3>4, <3>6
    <3>7. CASE p.subst.alias = {} /\ ~p.opc.known
      BY <2>10, <3>2, <3>3, <3>4, <3>7
    <3> QED BY <3>5, <3>6, <3>7
  <2>12. Data(substUp[k])'
    BY <2>1, <2>2 DEF Data, SymbolPlaces, OpcPlaces, PropertyPlaces
  <2> QED BY <1>4, <2>2, <2>4, <2>6, <2>7, <2>11, <2>12, GrammarStays
         DEF SubstInv, SubstitutedAsWritten, Record, NoProperty
<1>9. CASE k = "Name"
  <2>1. /\ substUp[k] = "Symbol" /\ Inner = "Name" /\ p.ignore = 0 /\ p.tag = 2
        /\ p.opc_parse = 0
    BY <1>3, <1>4, <1>9, SubstUps, SubstOwns, SubstTags
       DEF Control, SubstPlaces, SymbolPlaces, OpcPlaces, PropertyPlaces
  <2>2. swant' = NoSubst /\ propSaid' = propSaid
    BY <1>1, <2>1 DEF SubstSaid, PropSaid
  <2>3. PICK q : q = [p EXCEPT !.tag = 1]
    OBVIOUS
  <2>4. sinfo' = q
    BY <1>1, <1>2, <2>1, <2>3 DEF sEndElement
  <2>5. /\ q.ignore = p.ignore /\ q.tag = 1 /\ q.subst = p.subst /\ q.opc = p.opc
        /\ q.opc_prop = p.opc_prop /\ q.opc_parse = p.opc_parse
        /\ q.opc_data = p.opc_data /\ q.opc_cdata = p.opc_cdata /\ q.made = p.made
    BY <1>3, <2>3 DEF SInfo
  <2>6. q \in SInfo
    BY <1>3, <2>3 DEF SInfo, Record, NoSubst, NoProperty
  <2>7. Control(substUp[k])'
    BY <1>4, <2>1, <2>4, <2>5, SubstTags
       DEF Control, SubstPlaces, SymbolPlaces, OpcPlaces, PropertyPlaces
  <2>8. \A j \in {"Name", "Alias"} : Kept(substPath[j])
    BY <1>5, <1>9, SubstDepths DEF Root, SubstPlaces, SymbolPlaces, OpcPlaces, PropertyPlaces
  <2>9. Data(substUp[k])'
    BY <1>1, <1>3, <1>9, <2>1, <2>2, <2>4, <2>5, <2>8
       DEF Data, Kept, SubstPlaces, SymbolPlaces, OpcPlaces, PropertyPlaces
  <2> QED BY <1>3, <1>4, <2>2, <2>4, <2>5, <2>6, <2>7, <2>9, GrammarStays
         DEF SubstInv, SubstitutedAsWritten
<1>10. CASE k = "Alias"
  <2>1. /\ substUp[k] = "Symbol" /\ Inner = "Alias" /\ p.ignore = 0 /\ p.tag = 3
        /\ p.opc_parse = 0
    BY <1>3, <1>4, <1>10, SubstUps, SubstOwns, SubstTags
       DEF Control, SubstPlaces, SymbolPlaces, OpcPlaces, PropertyPlaces
  <2>2. swant' = NoSubst /\ propSaid' = propSaid
    BY <1>1, <2>1 DEF SubstSaid, PropSaid
  <2>3. PICK q : q = [p EXCEPT !.tag = 1]
    OBVIOUS
  <2>4. sinfo' = q
    BY <1>1, <1>2, <2>1, <2>3 DEF sEndElement
  <2>5. /\ q.ignore = p.ignore /\ q.tag = 1 /\ q.subst = p.subst /\ q.opc = p.opc
        /\ q.opc_prop = p.opc_prop /\ q.opc_parse = p.opc_parse
        /\ q.opc_data = p.opc_data /\ q.opc_cdata = p.opc_cdata /\ q.made = p.made
    BY <1>3, <2>3 DEF SInfo
  <2>6. q \in SInfo
    BY <1>3, <2>3 DEF SInfo, Record, NoSubst, NoProperty
  <2>7. Control(substUp[k])'
    BY <1>4, <2>1, <2>4, <2>5, SubstTags
       DEF Control, SubstPlaces, SymbolPlaces, OpcPlaces, PropertyPlaces
  <2>8. \A j \in {"Name", "Alias"} : Kept(substPath[j])
    BY <1>5, <1>10, SubstDepths DEF Root, SubstPlaces, SymbolPlaces, OpcPlaces, PropertyPlaces
  <2>9. Data(substUp[k])'
    BY <1>1, <1>3, <1>10, <2>1, <2>2, <2>4, <2>5, <2>8
       DEF Data, Kept, SubstPlaces, SymbolPlaces, OpcPlaces, PropertyPlaces
  <2> QED BY <1>3, <1>4, <2>2, <2>4, <2>5, <2>6, <2>7, <2>9, GrammarStays
         DEF SubstInv, SubstitutedAsWritten
<1>11. CASE k = "Properties"
  <2>1. /\ substUp[k] = "Symbol" /\ Inner = "Properties" /\ p.ignore = 0 /\ p.tag = 4
        /\ p.opc_parse = 1
    BY <1>3, <1>4, <1>11, SubstUps, SubstOwns, SubstTags
       DEF Control, SubstPlaces, SymbolPlaces, OpcPlaces, PropertyPlaces
  <2>2. swant' = NoSubst /\ propSaid' = propSaid
    BY <1>1, <2>1 DEF SubstSaid, PropSaid
  <2>3. PICK q : q = [p EXCEPT !.opc_parse = 0, !.tag = 1]
    OBVIOUS
  <2>4. sinfo' = q
    BY <1>1, <1>2, <2>1, <2>3 DEF sEndElement
  <2>5. /\ q.ignore = p.ignore /\ q.tag = 1 /\ q.subst = p.subst /\ q.opc = p.opc
        /\ q.opc_prop = p.opc_prop /\ q.opc_parse = 0 /\ q.opc_data = p.opc_data
        /\ q.opc_cdata = p.opc_cdata /\ q.made = p.made
    BY <1>3, <2>3 DEF SInfo
  <2>6. q \in SInfo
    BY <1>3, <2>3 DEF SInfo, Record, NoSubst, NoProperty
  <2>7. Control(substUp[k])'
    BY <1>4, <2>1, <2>4, <2>5, SubstTags
       DEF Control, SubstPlaces, SymbolPlaces, OpcPlaces, PropertyPlaces
  <2>8. \A j \in {"Name", "Alias"} : Kept(substPath[j])
    BY <1>5, <1>11, SubstDepths DEF Root, SubstPlaces, SymbolPlaces, OpcPlaces, PropertyPlaces
  <2>9. Data(substUp[k])'
    BY <1>1, <1>3, <1>11, <2>1, <2>2, <2>4, <2>5, <2>8
       DEF Data, Kept, SubstPlaces, SymbolPlaces, OpcPlaces, PropertyPlaces
  <2> QED BY <1>3, <1>4, <2>2, <2>4, <2>5, <2>6, <2>7, <2>9, GrammarStays
         DEF SubstInv, SubstitutedAsWritten
<1>12. CASE k = "Property"
  <2>1. /\ substUp[k] = "Properties" /\ Inner = "Property" /\ p.ignore = 0 /\ p.tag = 4
        /\ p.opc_parse = 2
    BY <1>3, <1>4, <1>12, SubstUps, SubstOwns, SubstTags
       DEF Control, SubstPlaces, SymbolPlaces, OpcPlaces, PropertyPlaces
  <2>2. swant' = NoSubst
    BY <1>1, <2>1 DEF SubstSaid
  <2>3. PICK q : q = sEndProperty(p)
    OBVIOUS
  <2>4. sinfo' = q
    BY <1>1, <1>2, <2>1, <2>3 DEF sEndElement
  <2>5. /\ q.ignore = p.ignore /\ q.tag = p.tag /\ q.subst = p.subst
        /\ q.opc_prop = p.opc_prop /\ q.opc_parse = 1 /\ q.opc_data = p.opc_data
        /\ q.opc_cdata = p.opc_cdata /\ q.made = p.made
    BY <1>3, <2>3 DEF SInfo, sEndProperty
  <2>6. q \in SInfo
    BY <1>3, <2>3 DEF SInfo, Record, NoSubst, NoProperty, sEndProperty
  <2>7. Control(substUp[k])'
    BY <1>4, <2>1, <2>4, <2>5, SubstTags
       DEF Control, SubstPlaces, SymbolPlaces, OpcPlaces, PropertyPlaces
  <2>8. \A j \in {"Name", "Alias"} : Kept(substPath[j])
    BY <1>5, <1>12, SubstDepths DEF Root, SubstPlaces, SymbolPlaces, OpcPlaces, PropertyPlaces
  <2>9. /\ Append(stack, "Name") = substPath["PropertyName"]
        /\ Append(stack, "Value") = substPath["PropertyValue"]
    BY <1>6, <1>12, SubstUps, SubstOwns DEF Root, SubstPlaces, SymbolPlaces, OpcPlaces, PropertyPlaces
  <2>10. /\ p.opc = propSaid /\ p.opc_prop.known = (ValueAt(substPath["PropertyName"]) # {})
         /\ p.opc_prop.value = ValueAt(substPath["PropertyValue"])
    BY <1>3, <1>12 DEF Data, SubstPlaces, SymbolPlaces, OpcPlaces, PropertyPlaces
  <2>11. p.opc_prop = [known |-> p.opc_prop.known, value |-> p.opc_prop.value]
         /\ p.opc.known \in BOOLEAN /\ p.opc_prop.known \in BOOLEAN
    BY <1>3 DEF SInfo, Record
  <2>12. q.opc = IF p.opc_prop.known /\ ~p.opc.known THEN p.opc_prop ELSE p.opc
    BY <1>3, <2>3 DEF sEndProperty, SInfo
  <2>13. CASE p.opc_prop.known /\ ~p.opc.known
    <3>1. propSaid' = [known |-> TRUE, value |-> p.opc_prop.value]
      BY <1>1, <2>1, <2>9, <2>10, <2>13 DEF PropSaid
    <3>2. q.opc = propSaid' /\ propSaid'.known = TRUE /\ propSaid' \in Record
      BY <1>3, <2>11, <2>12, <2>13, <3>1 DEF SInfo, Record
    <3>3. Data(substUp[k])'
      BY <1>3, <1>12, <2>1, <2>4, <2>5, <2>8, <3>2
         DEF Data, Kept, SubstPlaces, SymbolPlaces, OpcPlaces, PropertyPlaces
    <3> QED BY <1>3, <1>4, <2>2, <2>4, <2>5, <2>6, <2>7, <3>2, <3>3, GrammarStays
           DEF SubstInv, SubstitutedAsWritten
  <2>14. CASE ~(p.opc_prop.known /\ ~p.opc.known)
    <3>1. propSaid' = propSaid
      BY <1>1, <2>1, <2>9, <2>10, <2>14 DEF PropSaid
    <3>2. q.opc = p.opc
      BY <2>12, <2>14
    <3>3. Data(substUp[k])'
      BY <1>3, <1>12, <2>1, <2>4, <2>5, <2>8, <3>1, <3>2
         DEF Data, Kept, SubstPlaces, SymbolPlaces, OpcPlaces, PropertyPlaces
    <3> QED BY <1>3, <1>4, <2>2, <2>4, <2>5, <2>6, <2>7, <3>1, <3>3, GrammarStays
           DEF SubstInv, SubstitutedAsWritten
  <2> QED BY <2>13, <2>14
<1>13. CASE k = "PropertyName"
  <2>1. /\ substUp[k] = "Property" /\ Inner = "Name" /\ p.ignore = 0 /\ p.tag = 4
        /\ p.opc_parse = 3
    BY <1>3, <1>4, <1>13, SubstUps, SubstOwns, SubstTags
       DEF Control, SubstPlaces, SymbolPlaces, OpcPlaces, PropertyPlaces
  <2>2. swant' = NoSubst /\ propSaid' = propSaid
    BY <1>1, <2>1 DEF SubstSaid, PropSaid
  <2>3. PICK q : q = [p EXCEPT !.opc_parse = 2, !.opc_prop.known = p.opc_data # {}]
    BY ZenonT(40)
  <2>4. sinfo' = q
    BY <1>1, <1>2, <2>1, <2>3, SMTT(30) DEF sEndElement
  <2>5. /\ q.ignore = p.ignore /\ q.tag = p.tag /\ q.subst = p.subst /\ q.opc = p.opc
        /\ q.opc_parse = 2 /\ q.opc_data = p.opc_data /\ q.opc_cdata = p.opc_cdata
        /\ q.made = p.made
    BY <1>3, <2>3, SMTT(30) DEF SInfo
  <2>6. q \in SInfo
    BY <1>3, <2>3 DEF SInfo, Record, NoSubst, NoProperty
  <2>7. Control(substUp[k])'
    BY <1>4, <2>1, <2>4, <2>5, SubstTags
       DEF Control, SubstPlaces, SymbolPlaces, OpcPlaces, PropertyPlaces
  <2>8. q.opc_prop.known = (p.opc_data # {}) /\ q.opc_prop.value = p.opc_prop.value
    BY <1>3, <2>3 DEF SInfo, Record
  <2>9. \A j \in {"Name", "Alias", "PropertyName", "PropertyValue"} : Kept(substPath[j])
    BY <1>5, <1>13, SubstDepths DEF Root, SubstPlaces, SymbolPlaces, OpcPlaces, PropertyPlaces
  <2>10. Data(substUp[k])'
    BY <1>1, <1>3, <1>13, <2>1, <2>2, <2>4, <2>5, <2>9, <2>8
       DEF Data, Kept, SubstPlaces, SymbolPlaces, OpcPlaces, PropertyPlaces
  <2> QED BY <1>3, <1>4, <2>2, <2>4, <2>5, <2>6, <2>7, <2>10, GrammarStays
         DEF SubstInv, SubstitutedAsWritten
<1>14. CASE k = "PropertyValue"
  <2>1. /\ substUp[k] = "Property" /\ Inner = "Value" /\ p.ignore = 0 /\ p.tag = 4
        /\ p.opc_parse = 4
    BY <1>3, <1>4, <1>14, SubstUps, SubstOwns, SubstTags
       DEF Control, SubstPlaces, SymbolPlaces, OpcPlaces, PropertyPlaces
  <2>2. swant' = NoSubst /\ propSaid' = propSaid
    BY <1>1, <2>1 DEF SubstSaid, PropSaid
  <2>3. PICK q : q = [p EXCEPT !.opc_parse = 2, !.opc_prop.value = p.opc_data]
    OBVIOUS
  <2>4. sinfo' = q
    BY <1>1, <1>2, <2>1, <2>3 DEF sEndElement
  <2>5. /\ q.ignore = p.ignore /\ q.tag = p.tag /\ q.subst = p.subst /\ q.opc = p.opc
        /\ q.opc_parse = 2 /\ q.opc_data = p.opc_data /\ q.opc_cdata = p.opc_cdata
        /\ q.made = p.made
    BY <1>3, <2>3 DEF SInfo
  <2>6. q \in SInfo
    BY <1>3, <2>3 DEF SInfo, Record, NoSubst, NoProperty
  <2>7. Control(substUp[k])'
    BY <1>4, <2>1, <2>4, <2>5, SubstTags
       DEF Control, SubstPlaces, SymbolPlaces, OpcPlaces, PropertyPlaces
  <2>8. q.opc_prop.value = p.opc_data /\ q.opc_prop.known = p.opc_prop.known
    BY <1>3, <2>3 DEF SInfo, Record
  <2>9. \A j \in {"Name", "Alias", "PropertyName", "PropertyValue"} : Kept(substPath[j])
    BY <1>5, <1>14, SubstDepths DEF Root, SubstPlaces, SymbolPlaces, OpcPlaces, PropertyPlaces
  <2>10. Data(substUp[k])'
    BY <1>1, <1>3, <1>14, <2>1, <2>2, <2>4, <2>5, <2>9, <2>8
       DEF Data, Kept, SubstPlaces, SymbolPlaces, OpcPlaces, PropertyPlaces
  <2> QED BY <1>3, <1>4, <2>2, <2>4, <2>5, <2>6, <2>7, <2>10, GrammarStays
         DEF SubstInv, SubstitutedAsWritten
<1> QED BY <1>7, <1>8, <1>9, <1>10, <1>11, <1>12, <1>13, <1>14
       DEF Root, SubstPlaces, SymbolPlaces, OpcPlaces, PropertyPlaces

\* An element ends.
LEMMA SubstEndKeeps ==
  ASSUME SubstInv, SubstEnd
  PROVE  SubstInv' /\ SubstitutedAsWritten'
<1>1. PICK k \in SubstPlaces : SubstAt(k) /\ Control(k) /\ Data(k)
  BY DEF SubstInv
<1>2. DocClose
  BY DEF SubstEnd
<1>3. /\ IsTree(SubstPlaces, substUp, substOwn, substPath, {}, SubstNames)
      /\ At(SubstPlaces, substUp, substOwn, substPath, {}, SubstNames, k)
  BY <1>1, SubstTree DEF SubstAt
<1>4. /\ stack # <<>> /\ stack' = Front(stack) /\ grammar' = grammar
      /\ \/ /\ Len(stack) > Len(substPath[k]) /\ stack \notin opened /\ given' = given
            /\ At(SubstPlaces, substUp, substOwn, substPath, {}, SubstNames, k)'
         \/ /\ stack = substPath[k] /\ k # Root /\ stack \in opened /\ Inner = substOwn[k]
            /\ stack' = substPath[substUp[k]]
            /\ At(SubstPlaces, substUp, substOwn, substPath, {}, SubstNames, substUp[k])'
            /\ \A j \in SubstPlaces \ {Root} :
                 j = k \/ ~Prefix(substPath[k], substPath[j]) => Kept(substPath[j])
  <2>1. /\ stack # <<>> /\ stack' = Front(stack) /\ grammar' = grammar
        /\ \/ /\ Len(stack) > Len(substPath[k]) /\ stack \notin opened /\ given' = given
              /\ opened' = opened
              /\ At(SubstPlaces, substUp, substOwn, substPath, {}, SubstNames, k)'
           \/ /\ stack = substPath[k] /\ k # Root /\ stack \in opened /\ Inner = substOwn[k]
              /\ stack' = substPath[substUp[k]]
              /\ At(SubstPlaces, substUp, substOwn, substPath, {}, SubstNames, substUp[k])'
              /\ \A j \in SubstPlaces \ {Root} :
                   j = k \/ ~Prefix(substPath[k], substPath[j]) =>
                     /\ Kept(substPath[j])
                     /\ (substPath[j] \in opened' <=> substPath[j] \in opened)
                     /\ <<substPath[j], "section">> \in given'
                          <=> <<substPath[j], "section">> \in given
    BY <1>2, <1>3, CloseStep
  <2> QED BY <2>1, Zenon
<1>5. CASE Len(stack) > Len(substPath[k]) /\ stack \notin opened /\ given' = given
           /\ At(SubstPlaces, substUp, substOwn, substPath, {}, SubstNames, k)'
  <2>1. Deeper(k) > 0
    <3>1. stack # substPath[k] => Deeper(k) > 0
      BY <1>1, Standpoint
    <3>2. stack # substPath[k]
      <4>1. Len(stack) \in Nat
        BY <1>1, Standpoint
      <4> QED BY <1>5, <4>1
    <3> QED BY <3>1, <3>2
  <2> QED BY <1>1, <1>4, <1>5, <2>1, DeeperClosed DEF SubstAt
<1>6. CASE /\ stack = substPath[k] /\ k # Root /\ stack \in opened /\ Inner = substOwn[k]
           /\ stack' = substPath[substUp[k]]
           /\ At(SubstPlaces, substUp, substOwn, substPath, {}, SubstNames, substUp[k])'
           /\ \A j \in SubstPlaces \ {Root} :
                j = k \/ ~Prefix(substPath[k], substPath[j]) => Kept(substPath[j])
  BY <1>1, <1>4, <1>6, PlaceClosed DEF SubstAt
<1> QED BY <1>4, <1>5, <1>6

\* Text and CDATA sections leave the places as they are.
LEMMA ControlStays ==
  ASSUME NEW k \in SubstPlaces, Control(k), stack' = stack, sinfo'.tag = sinfo.tag,
         sinfo'.opc_parse = sinfo.opc_parse, sinfo'.ignore = sinfo.ignore
  PROVE  Control(k)'
BY DEF Control, Deeper, Depth

\* Text is given.
LEMMA SubstTextKeeps ==
  ASSUME SubstInv, SubstText
  PROVE  SubstInv' /\ SubstitutedAsWritten'
<1>1. /\ sinfo' = sDataElement(Plain, {Piece}) /\ swant' = NoSubst /\ propSaid' = propSaid
  BY DEF SubstText
<1>2. PICK p : p = Plain
  OBVIOUS
<1>3. /\ p \in SInfo /\ p.made = NoSubst /\ p.ignore = sinfo.ignore /\ p.tag = sinfo.tag
      /\ p.subst = sinfo.subst /\ p.opc = sinfo.opc /\ p.opc_prop = sinfo.opc_prop
      /\ p.opc_parse = sinfo.opc_parse /\ p.opc_data = sinfo.opc_data
      /\ p.opc_cdata = sinfo.opc_cdata
  BY <1>2, Plainly DEF SubstInv
<1>4. PICK k \in SubstPlaces : SubstAt(k) /\ Control(k) /\ Data(k)
  BY DEF SubstInv
<1>5. DocText /\ IsTree(SubstPlaces, substUp, substOwn, substPath, {}, SubstNames)
      /\ At(SubstPlaces, substUp, substOwn, substPath, {}, SubstNames, k)
  BY <1>4, SubstTree DEF SubstAt, SubstText
<1>6. /\ SubstAt(k)' /\ stack' = stack /\ grammar' = grammar /\ inCData' = inCData
      /\ given' = IF stack \in opened THEN given \cup {Piece} ELSE given
      /\ stack \in opened => /\ \A q : q # stack => Kept(q)
                             /\ TextAt(stack)' = TextAt(stack) \cup {Piece}
                             /\ ValueAt(stack)' = IF ~inCData /\ <<stack, "section">> \in given
                                                  THEN ValueAt(stack)
                                                  ELSE ValueAt(stack) \cup {Piece}
  BY <1>5, TextStep DEF SubstAt
<1>7. /\ stack \in Seq(SubstNames) /\ Deeper(k) \in Nat
      /\ Deeper(k) = 0 <=> stack = substPath[k]
      /\ Deeper(k) > 0 => stack \notin opened
      /\ stack = substPath[k] => k = Root \/ stack \in opened
  BY <1>4, Standpoint
<1>8. GrammarKnown' /\ Piece \in Pieces
  BY <1>6, <1>7, GrammarStays DEF SubstInv, Pieces, Piece
<1>9. \A j, i \in SubstPlaces : substPath[j] = substPath[i] => j = i
  BY SubstTree DEF IsTree
<1>10. \A q : <<q, "section">> \in given' <=> <<q, "section">> \in given
  BY <1>6 DEF Piece
<1>11. /\ p.tag = substTag[k] /\ p.opc_parse = substParse[k]
       /\ (Deeper(k) > 0 /\ k \in OpcPlaces => p.ignore > 0)
       /\ (Deeper(k) = 0 \/ k \notin OpcPlaces => p.ignore = 0)
       /\ (k \in {"Name", "Alias"} => Deeper(k) = 0)
  BY <1>3, <1>4, <1>7 DEF Control
<1>12. CASE Deeper(k) > 0 \/ k = Root
  <2>1. given' = given
    <3>1. k = Root => stack \notin opened
      <4>1. SUFFICES ASSUME k = Root, stack \in opened PROVE FALSE
        OBVIOUS
      <4>2. Deeper(k) = 0 /\ stack = substPath[k]
        BY <1>7, <4>1
      <4>3. PICK j \in SubstPlaces \ {Root} : stack = substPath[j]
        BY <1>4, <4>1 DEF SubstAt, At
      <4> QED BY <1>9, <4>1, <4>2, <4>3
    <3> QED BY <1>6, <1>7, <1>12, <3>1
  <2>2. sDataElement(p, {Piece}) = p
    <3>1. CASE k \in OpcPlaces
      <4>1. p.ignore > 0
        BY <1>11, <1>12, <3>1 DEF Root, OpcPlaces, PropertyPlaces
      <4> QED BY <4>1 DEF sDataElement, sInOpcText
    <3>2. CASE k \notin OpcPlaces
      <4>1. p.tag \in {0, 1}
        BY <1>11, <1>12, <3>2, SubstTags DEF Root, SubstPlaces, SymbolPlaces, OpcPlaces, PropertyPlaces
      <4> QED BY <4>1 DEF sDataElement, sInOpcText
    <3> QED BY <3>1, <3>2
  <2>3. sinfo' = p
    BY <1>1, <1>2, <2>2
  <2>4. Control(k)'
    BY <1>3, <1>4, <1>6, <2>3, ControlStays
  <2>5. Data(k)'
    <3>1. \A q : Kept(q)
      BY <2>1, SameGiven
    <3> QED BY <1>1, <1>3, <1>4, <1>6, <1>10, <2>3, <3>1 DEF Data, Kept
  <2> QED BY <1>1, <1>3, <1>6, <1>8, <2>3, <2>4, <2>5 DEF SubstInv, SubstitutedAsWritten
<1>13. CASE Deeper(k) = 0 /\ k # Root
  <2>1. /\ stack = substPath[k] /\ stack \in opened /\ p.ignore = 0
        /\ \A j \in SubstPlaces \ {k} : Kept(substPath[j])
        /\ TextAt(substPath[k])' = TextAt(substPath[k]) \cup {Piece}
        /\ ValueAt(substPath[k])' = IF ~inCData /\ <<substPath[k], "section">> \in given
                                    THEN ValueAt(substPath[k])
                                    ELSE ValueAt(substPath[k]) \cup {Piece}
    <3>1. stack = substPath[k] /\ stack \in opened /\ p.ignore = 0
      BY <1>7, <1>11, <1>13
    <3>2. PICK q : q = substPath[k]
      OBVIOUS
    <3>3. stack = q /\ stack' = q
      BY <1>6, <3>1, <3>2
    <3>4. /\ TextAt(q)' = TextAt(q) \cup {Piece}
          /\ ValueAt(q)' = IF ~inCData /\ <<q, "section">> \in given THEN ValueAt(q)
                           ELSE ValueAt(q) \cup {Piece}
      BY <1>6, <3>1, <3>3 DEF TextAt, ValueAt
    <3> QED BY <1>6, <1>9, <3>1, <3>2, <3>4
  <2>2. CASE k \in {"Substitution", "Symbol", "Properties", "Property"}
    <3>1. p.tag \in {0, 1, 4} /\ p.opc_parse \in {0, 1, 2}
      BY <1>11, <2>2, SubstTags DEF SubstPlaces, SymbolPlaces, OpcPlaces, PropertyPlaces
    <3>2. sDataElement(p, {Piece}) = p
      BY <2>1, <3>1 DEF sDataElement, sInOpcText
    <3>3. sinfo' = p
      BY <1>1, <1>2, <3>2
    <3>4. Control(k)'
      BY <1>3, <1>4, <1>6, <3>3, ControlStays
    <3>5. \A j \in {"Name", "Alias", "PropertyName", "PropertyValue"} : Kept(substPath[j])
      BY <2>1, <2>2 DEF SubstPlaces, SymbolPlaces, OpcPlaces, PropertyPlaces
    <3>6. Data(k)'
      BY <1>1, <1>3, <1>4, <2>2, <3>3, <3>5
         DEF Data, Kept, SubstPlaces, SymbolPlaces, OpcPlaces, PropertyPlaces
    <3> QED BY <1>1, <1>3, <1>6, <1>8, <3>3, <3>4, <3>6 DEF SubstInv, SubstitutedAsWritten
  <2>3. CASE k = "Name"
    <3>1. PICK q : q = [p EXCEPT !.subst.name = @ \cup {Piece}]
      OBVIOUS
    <3>2. sinfo' = q
      BY <1>1, <1>2, <1>11, <2>1, <2>3, <3>1, SubstTags DEF sDataElement, sInOpcText
    <3>3. /\ q.made = p.made /\ q.ignore = p.ignore /\ q.tag = p.tag /\ q.opc = p.opc
          /\ q.opc_parse = p.opc_parse
          /\ q.subst.name = p.subst.name \cup {Piece} /\ q.subst.alias = p.subst.alias
      BY <1>3, <3>1 DEF SInfo
    <3>4. q \in SInfo
      <4>1. p.subst.name \cup {Piece} \in SUBSET Pieces
        BY <1>3, <1>8 DEF SInfo
      <4>2. q = [p EXCEPT !.subst.name = p.subst.name \cup {Piece}]
        BY <3>1
      <4> QED BY <1>3, <4>1, <4>2 DEF SInfo
    <3>5. Control(k)'
      BY <1>3, <1>4, <1>6, <3>2, <3>3, ControlStays
    <3>6. sinfo'.subst.name = TextAt(substPath["Name"])'
          /\ sinfo'.subst.alias = TextAt(substPath["Alias"])'
      <4>1. Kept(substPath["Alias"])
        BY <2>1, <2>3 DEF SubstPlaces, SymbolPlaces
      <4> QED BY <1>3, <1>4, <2>1, <2>3, <3>2, <3>3, <4>1 DEF Data, Kept, SymbolPlaces
    <3>7. Data(k)'
      BY <1>1, <1>3, <1>4, <2>3, <3>2, <3>3, <3>6
         DEF Data, SubstPlaces, SymbolPlaces, OpcPlaces, PropertyPlaces
    <3> QED BY <1>1, <1>3, <1>6, <1>8, <3>2, <3>3, <3>4, <3>5, <3>7
           DEF SubstInv, SubstitutedAsWritten
  <2>4. CASE k = "Alias"
    <3>1. PICK q : q = [p EXCEPT !.subst.alias = @ \cup {Piece}]
      OBVIOUS
    <3>2. sinfo' = q
      BY <1>1, <1>2, <1>11, <2>1, <2>4, <3>1, SubstTags DEF sDataElement, sInOpcText
    <3>3. /\ q.made = p.made /\ q.ignore = p.ignore /\ q.tag = p.tag /\ q.opc = p.opc
          /\ q.opc_parse = p.opc_parse
          /\ q.subst.alias = p.subst.alias \cup {Piece} /\ q.subst.name = p.subst.name
      BY <1>3, <3>1 DEF SInfo
    <3>4. q \in SInfo
      <4>1. p.subst.alias \cup {Piece} \in SUBSET Pieces
        BY <1>3, <1>8 DEF SInfo
      <4>2. q = [p EXCEPT !.subst.alias = p.subst.alias \cup {Piece}]
        BY <3>1
      <4> QED BY <1>3, <4>1, <4>2 DEF SInfo
    <3>5. Control(k)'
      BY <1>3, <1>4, <1>6, <3>2, <3>3, ControlStays
    <3>6. sinfo'.subst.name = TextAt(substPath["Name"])'
          /\ sinfo'.subst.alias = TextAt(substPath["Alias"])'
      <4>1. Kept(substPath["Name"])
        BY <2>1, <2>4 DEF SubstPlaces, SymbolPlaces
      <4> QED BY <1>3, <1>4, <2>1, <2>4, <3>2, <3>3, <4>1 DEF Data, Kept, SymbolPlaces
    <3>7. Data(k)'
      BY <1>1, <1>3, <1>4, <2>4, <3>2, <3>3, <3>6
         DEF Data, SubstPlaces, SymbolPlaces, OpcPlaces, PropertyPlaces
    <3> QED BY <1>1, <1>3, <1>6, <1>8, <3>2, <3>3, <3>4, <3>5, <3>7
           DEF SubstInv, SubstitutedAsWritten
  <2>5. CASE k \in {"PropertyName", "PropertyValue"}
    <3>1. p.tag = 4 /\ p.opc_parse \in {3, 4}
      BY <1>11, <2>5, SubstTags DEF OpcPlaces, PropertyPlaces
    <3>2. PICK q : q = IF p.opc_cdata THEN [p EXCEPT !.opc_data = @ \cup {Piece}] ELSE p
      OBVIOUS
    <3>3. sinfo' = q
      BY <1>1, <1>2, <2>1, <3>1, <3>2 DEF sDataElement, sInOpcText
    <3>4. /\ q.made = p.made /\ q.ignore = p.ignore /\ q.tag = p.tag /\ q.opc = p.opc
          /\ q.opc_parse = p.opc_parse /\ q.subst = p.subst /\ q.opc_prop = p.opc_prop
          /\ q.opc_cdata = p.opc_cdata
          /\ q.opc_data = IF p.opc_cdata THEN p.opc_data \cup {Piece} ELSE p.opc_data
      BY <1>3, <3>2 DEF SInfo
    <3>5. q \in SInfo
      <4>1. p.opc_data \cup {Piece} \in SUBSET Pieces
        BY <1>3, <1>8 DEF SInfo
      <4> QED BY <1>3, <3>2, <4>1 DEF SInfo
    <3>6. Control(k)'
      BY <1>3, <1>4, <1>6, <3>3, <3>4, ControlStays
    <3>7. /\ p.opc_data = ValueAt(substPath[k])
          /\ p.opc_cdata = (<<substPath[k], "section">> \notin given \/ inCData)
      BY <1>3, <1>4, <2>1, <2>5 DEF Data
    <3>8. q.opc_data = ValueAt(substPath[k])'
      <4>1. p.opc_cdata <=> ~(~inCData /\ <<substPath[k], "section">> \in given)
        BY <3>7
      <4> QED BY <2>1, <3>4, <3>7, <4>1
    <3>9. \A j \in SubstPlaces \ {k} : Kept(substPath[j])
      BY <2>1
    <3>10. \A j \in {"Name", "Alias"} : Kept(substPath[j])
      BY <2>5, <3>9 DEF SubstPlaces, SymbolPlaces, OpcPlaces, PropertyPlaces
    <3>11. <<substPath[k], "section">> \in given' <=> <<substPath[k], "section">> \in given
      BY <1>10
    <3>12. q.opc_cdata = (\/ <<substPath[k], "section">> \notin given'
                          \/ (stack' = substPath[k] /\ inCData'))
      BY <1>6, <2>1, <3>4, <3>7, <3>11
    <3>13. CASE k = "PropertyName"
      <4>1. Kept(substPath["PropertyValue"])
        BY <3>9, <3>13 DEF SubstPlaces, SymbolPlaces, OpcPlaces, PropertyPlaces
      <4>2. Data(k)'
        BY <1>1, <1>3, <1>4, <3>3, <3>4, <3>8, <3>10, <3>12, <3>13, <4>1
           DEF Data, Kept, SubstPlaces, SymbolPlaces, OpcPlaces, PropertyPlaces
      <4> QED BY <1>1, <1>3, <1>6, <1>8, <3>3, <3>4, <3>5, <3>6, <4>2 DEF SubstInv, SubstitutedAsWritten
    <3>14. CASE k = "PropertyValue"
      <4>1. Kept(substPath["PropertyName"])
        BY <3>9, <3>14 DEF SubstPlaces, SymbolPlaces, OpcPlaces, PropertyPlaces
      <4>2. Data(k)'
        BY <1>1, <1>3, <1>4, <3>3, <3>4, <3>8, <3>10, <3>12, <3>14, <4>1
           DEF Data, Kept, SubstPlaces, SymbolPlaces, OpcPlaces, PropertyPlaces
      <4> QED BY <1>1, <1>3, <1>6, <1>8, <3>3, <3>4, <3>5, <3>6, <4>2 DEF SubstInv, SubstitutedAsWritten
    <3> QED BY <2>5, <3>13, <3>14
  <2> QED BY <1>13, <2>2, <2>3, <2>4, <2>5
             DEF Root, SubstPlaces, SymbolPlaces, OpcPlaces, PropertyPlaces
<1> QED BY <1>7, <1>12, <1>13

\* A CDATA section starts.
LEMMA SubstStartCDataKeeps ==
  ASSUME SubstInv, SubstStartCData
  PROVE  SubstInv' /\ SubstitutedAsWritten'
<1>1. /\ sinfo' = sStartCData(Plain) /\ swant' = NoSubst /\ propSaid' = propSaid
  BY DEF SubstStartCData
<1>2. PICK p : p = Plain
  OBVIOUS
<1>3. /\ p \in SInfo /\ p.made = NoSubst /\ p.ignore = sinfo.ignore /\ p.tag = sinfo.tag
      /\ p.subst = sinfo.subst /\ p.opc = sinfo.opc /\ p.opc_prop = sinfo.opc_prop
      /\ p.opc_parse = sinfo.opc_parse /\ p.opc_data = sinfo.opc_data
      /\ p.opc_cdata = sinfo.opc_cdata
  BY <1>2, Plainly DEF SubstInv
<1>4. PICK k \in SubstPlaces : SubstAt(k) /\ Control(k) /\ Data(k)
  BY DEF SubstInv
<1>5. DocStartCData /\ IsTree(SubstPlaces, substUp, substOwn, substPath, {}, SubstNames)
      /\ At(SubstPlaces, substUp, substOwn, substPath, {}, SubstNames, k)
  BY <1>4, SubstTree DEF SubstAt, SubstStartCData
<1>6. /\ SubstAt(k)' /\ stack' = stack /\ grammar' = grammar /\ inCData' = TRUE /\ ~inCData
      /\ stack \notin opened => given' = given
      /\ stack \in opened => /\ \A q : q # stack => Kept(q)
                             /\ TextAt(stack)' = TextAt(stack)
                             /\ given' = given \cup {<<stack, "section">>}
                             /\ ValueAt(stack)' = {}
  BY <1>5, CDataStep DEF SubstAt
<1>7. /\ stack \in Seq(SubstNames) /\ Deeper(k) \in Nat
      /\ Deeper(k) = 0 <=> stack = substPath[k]
      /\ Deeper(k) > 0 => stack \notin opened
      /\ stack = substPath[k] => k = Root \/ stack \in opened
  BY <1>4, Standpoint
<1>8. GrammarKnown'
  BY <1>6, GrammarStays DEF SubstInv
<1>9. \A j, i \in SubstPlaces : substPath[j] = substPath[i] => j = i
  BY SubstTree DEF IsTree
<1>10. /\ p.tag = substTag[k] /\ p.opc_parse = substParse[k]
       /\ (k \in OpcPlaces => p.ignore = Deeper(k))
  BY <1>3, <1>4 DEF Control
<1>11. sInOpcText(p) <=> k \in {"PropertyName", "PropertyValue"} /\ Deeper(k) = 0
  <2>1. CASE k \in OpcPlaces
    <3>1. p.opc_parse \in 1..4
          /\ (p.opc_parse >= 3 <=> k \in {"PropertyName", "PropertyValue"})
      BY <1>10, <2>1, SubstTags DEF OpcPlaces, PropertyPlaces
    <3> QED BY <1>7, <1>10, <2>1, <3>1, SubstTags DEF sInOpcText
  <2>2. CASE k \notin OpcPlaces
    <3>1. p.opc_parse = 0 /\ k \notin {"PropertyName", "PropertyValue"}
      BY <1>10, <2>2, SubstTags DEF OpcPlaces, PropertyPlaces
    <3> QED BY <3>1 DEF sInOpcText
  <2> QED BY <2>1, <2>2
<1>12. CASE stack \notin opened
  <2>1. ~sInOpcText(p)
    BY <1>7, <1>11, <1>12 DEF Root
  <2>2. sinfo' = p
    BY <1>1, <1>2, <2>1 DEF sStartCData
  <2>3. Control(k)'
    BY <1>3, <1>4, <1>6, <2>2, ControlStays
  <2>4. \A q : Kept(q)
    BY <1>6, <1>12, SameGiven
  <2>5. k \in {"PropertyName", "PropertyValue"} => stack # substPath[k]
    BY <1>7, <1>12 DEF Root
  <2>6. given' = given
    BY <1>6, <1>12
  <2>7. Data(k)'
    BY <1>1, <1>3, <1>4, <1>6, <2>2, <2>4, <2>5, <2>6 DEF Data, Kept
  <2> QED BY <1>1, <1>3, <1>6, <1>8, <2>2, <2>3, <2>7 DEF SubstInv, SubstitutedAsWritten
<1>13. CASE stack \in opened
  <2>1. /\ stack = substPath[k] /\ Deeper(k) = 0
        /\ \A j \in SubstPlaces \ {k} : Kept(substPath[j])
        /\ TextAt(substPath[k])' = TextAt(substPath[k])
        /\ ValueAt(substPath[k])' = {} /\ <<substPath[k], "section">> \in given'
    <3>1. stack = substPath[k] /\ Deeper(k) = 0
      BY <1>7, <1>13
    <3>2. PICK q : q = substPath[k]
      OBVIOUS
    <3>3. stack = q /\ stack' = q
      BY <1>6, <3>1, <3>2
    <3>4. TextAt(q)' = TextAt(q) /\ ValueAt(q)' = {} /\ <<q, "section">> \in given'
      BY <1>6, <1>13, <3>3 DEF TextAt, ValueAt
    <3> QED BY <1>6, <1>9, <1>13, <3>1, <3>2, <3>4
  <2>2. CASE k \notin {"PropertyName", "PropertyValue"}
    <3>1. sinfo' = p
      BY <1>1, <1>2, <1>11, <2>2 DEF sStartCData
    <3>2. Control(k)'
      BY <1>3, <1>4, <1>6, <3>1, ControlStays
    <3>3. \A j \in {"Name", "Alias"} : TextAt(substPath[j])' = TextAt(substPath[j])
      BY <2>1 DEF Kept, SubstPlaces, SymbolPlaces, OpcPlaces, PropertyPlaces
    <3>4. \A j \in {"PropertyName", "PropertyValue"} :
            ValueAt(substPath[j])' = ValueAt(substPath[j])
      BY <2>1, <2>2 DEF Kept, SubstPlaces, SymbolPlaces, OpcPlaces, PropertyPlaces
    <3>5. Data(k)'
      BY <1>1, <1>3, <1>4, <2>2, <3>1, <3>3, <3>4
         DEF Data, SubstPlaces, SymbolPlaces, OpcPlaces, PropertyPlaces
    <3> QED BY <1>1, <1>3, <1>6, <1>8, <3>1, <3>2, <3>5 DEF SubstInv, SubstitutedAsWritten
  <2>3. CASE k \in {"PropertyName", "PropertyValue"}
    <3>1. PICK q : q = [p EXCEPT !.opc_data = {}, !.opc_cdata = TRUE]
      OBVIOUS
    <3>2. sinfo' = q
      BY <1>1, <1>2, <1>11, <2>1, <2>3, <3>1 DEF sStartCData
    <3>3. /\ q.made = p.made /\ q.ignore = p.ignore /\ q.tag = p.tag /\ q.opc = p.opc
          /\ q.opc_parse = p.opc_parse /\ q.subst = p.subst /\ q.opc_prop = p.opc_prop
          /\ q.opc_cdata = TRUE /\ q.opc_data = {}
      BY <1>3, <3>1 DEF SInfo
    <3>4. q \in SInfo
      BY <1>3, <3>1 DEF SInfo
    <3>5. Control(k)'
      BY <1>3, <1>4, <1>6, <3>2, <3>3, ControlStays
    <3>6. \A j \in {"Name", "Alias"} : Kept(substPath[j])
      BY <2>1, <2>3 DEF SubstPlaces, SymbolPlaces, OpcPlaces, PropertyPlaces
    <3>7. stack' = substPath[k] /\ inCData' = TRUE
      BY <1>6, <2>1
    <3>8. CASE k = "PropertyName"
      <4>1. Kept(substPath["PropertyValue"])
        BY <2>1, <3>8 DEF SubstPlaces, SymbolPlaces, OpcPlaces, PropertyPlaces
      <4>2. Data(k)'
        BY <1>1, <1>3, <1>4, <2>1, <3>2, <3>3, <3>6, <3>7, <3>8, <4>1
           DEF Data, Kept, SubstPlaces, SymbolPlaces, OpcPlaces, PropertyPlaces
      <4> QED BY <1>1, <1>3, <1>6, <1>8, <3>2, <3>3, <3>4, <3>5, <4>2
             DEF SubstInv, SubstitutedAsWritten
    <3>9. CASE k = "PropertyValue"
      <4>1. Kept(substPath["PropertyName"])
        BY <2>1, <3>9 DEF SubstPlaces, SymbolPlaces, OpcPlaces, PropertyPlaces
      <4>2. Data(k)'
        BY <1>1, <1>3, <1>4, <2>1, <3>2, <3>3, <3>6, <3>7, <3>9, <4>1
           DEF Data, Kept, SubstPlaces, SymbolPlaces, OpcPlaces, PropertyPlaces
      <4> QED BY <1>1, <1>3, <1>6, <1>8, <3>2, <3>3, <3>4, <3>5, <4>2
             DEF SubstInv, SubstitutedAsWritten
    <3> QED BY <2>3, <3>8, <3>9
  <2> QED BY <2>2, <2>3
<1> QED BY <1>12, <1>13

\* A CDATA section ends.
LEMMA SubstEndCDataKeeps ==
  ASSUME SubstInv, SubstEndCData
  PROVE  SubstInv' /\ SubstitutedAsWritten'
<1>1. /\ sinfo' = sEndCData(Plain) /\ swant' = NoSubst /\ propSaid' = propSaid
  BY DEF SubstEndCData
<1>2. PICK p : p = Plain
  OBVIOUS
<1>3. /\ p \in SInfo /\ p.made = NoSubst /\ p.ignore = sinfo.ignore /\ p.tag = sinfo.tag
      /\ p.subst = sinfo.subst /\ p.opc = sinfo.opc /\ p.opc_prop = sinfo.opc_prop
      /\ p.opc_parse = sinfo.opc_parse /\ p.opc_data = sinfo.opc_data
      /\ p.opc_cdata = sinfo.opc_cdata
  BY <1>2, Plainly DEF SubstInv
<1>4. PICK k \in SubstPlaces : SubstAt(k) /\ Control(k) /\ Data(k)
  BY DEF SubstInv
<1>5. UNCHANGED <<grammar, stack, opened, given>> /\ inCData = TRUE /\ inCData' = FALSE
  BY DEF SubstEndCData, DocEndCData, SubstAt, At
<1>6. SubstAt(k)' /\ stack' = stack /\ grammar' = grammar /\ \A q : Kept(q)
  <2>1. SubstAt(k)'
    BY <1>4, <1>5 DEF SubstAt, At
  <2> QED BY <1>5, <2>1, SameGiven
<1>7. /\ stack \in Seq(SubstNames) /\ Deeper(k) \in Nat
      /\ Deeper(k) = 0 <=> stack = substPath[k]
      /\ Deeper(k) > 0 => stack \notin opened
      /\ stack = substPath[k] => k = Root \/ stack \in opened
  BY <1>4, Standpoint
<1>8. GrammarKnown'
  BY <1>6, GrammarStays DEF SubstInv
<1>9. \A j, i \in SubstPlaces : substPath[j] = substPath[i] => j = i
  BY SubstTree DEF IsTree
<1>10. /\ p.tag = substTag[k] /\ p.opc_parse = substParse[k]
       /\ (k \in OpcPlaces => p.ignore = Deeper(k))
  BY <1>3, <1>4 DEF Control
<1>11. sInOpcText(p) <=> k \in {"PropertyName", "PropertyValue"} /\ Deeper(k) = 0
  <2>1. CASE k \in OpcPlaces
    <3>1. p.opc_parse \in 1..4
          /\ (p.opc_parse >= 3 <=> k \in {"PropertyName", "PropertyValue"})
      BY <1>10, <2>1, SubstTags DEF OpcPlaces, PropertyPlaces
    <3> QED BY <1>7, <1>10, <2>1, <3>1, SubstTags DEF sInOpcText
  <2>2. CASE k \notin OpcPlaces
    <3>1. p.opc_parse = 0 /\ k \notin {"PropertyName", "PropertyValue"}
      BY <1>10, <2>2, SubstTags DEF OpcPlaces, PropertyPlaces
    <3> QED BY <3>1 DEF sInOpcText
  <2> QED BY <2>1, <2>2
<1>12. CASE ~sInOpcText(p)
  <2>1. sinfo' = p
    BY <1>1, <1>2, <1>12 DEF sEndCData
  <2>2. Control(k)'
    BY <1>3, <1>4, <1>6, <2>1, ControlStays
  <2>3. k \in {"PropertyName", "PropertyValue"} => stack # substPath[k]
    BY <1>7, <1>11, <1>12
  <2>4. Data(k)'
    BY <1>1, <1>3, <1>4, <1>5, <1>6, <2>1, <2>3 DEF Data, Kept
  <2> QED BY <1>1, <1>3, <1>6, <1>8, <2>1, <2>2, <2>4 DEF SubstInv, SubstitutedAsWritten
<1>13. CASE sInOpcText(p)
  <2>1. k \in {"PropertyName", "PropertyValue"} /\ Deeper(k) = 0
    BY <1>11, <1>13
  <2>2. <<substPath[k], "section">> \in given
    <3>1. stack = substPath[k] /\ stack \in opened
      BY <1>7, <2>1 DEF Root
    <3> QED BY <1>4, <1>5, <3>1 DEF SubstAt, At
  <2>3. PICK q : q = [p EXCEPT !.opc_cdata = FALSE]
    OBVIOUS
  <2>4. sinfo' = q
    BY <1>1, <1>2, <1>13, <2>3 DEF sEndCData
  <2>5. /\ q.made = p.made /\ q.ignore = p.ignore /\ q.tag = p.tag /\ q.opc = p.opc
        /\ q.opc_parse = p.opc_parse /\ q.subst = p.subst /\ q.opc_prop = p.opc_prop
        /\ q.opc_data = p.opc_data /\ q.opc_cdata = FALSE
    BY <1>3, <2>3 DEF SInfo
  <2>6. q \in SInfo
    BY <1>3, <2>3 DEF SInfo
  <2>7. Control(k)'
    BY <1>3, <1>4, <1>6, <2>4, <2>5, ControlStays
  <2>8. Data(k)'
    BY <1>1, <1>3, <1>4, <1>5, <1>6, <2>1, <2>2, <2>4, <2>5 DEF Data, Kept
  <2> QED BY <1>1, <1>3, <1>6, <1>8, <2>4, <2>5, <2>6, <2>7, <2>8
         DEF SubstInv, SubstitutedAsWritten
<1> QED BY <1>12, <1>13

(* Every symbol of a substitution file that names a variable and a record  *)
(* is added when its element ends (ParseUtil.cpp:786-917), with the text   *)
(* of its own name and alias, or of its first alias property, whatever     *)
(* else the file holds.                                                    *)
THEOREM SubstitutionsAsWritten == SubstSpec => []SubstitutedAsWritten
<1>1. SubstInit => SubstInv /\ SubstitutedAsWritten
  BY SubstInitInv
<1>2. SubstInv /\ SubstitutedAsWritten /\ [SubstNext]_substVars
      => SubstInv' /\ SubstitutedAsWritten'
  <2>1. SUFFICES ASSUME SubstInv, SubstitutedAsWritten, [SubstNext]_substVars
                 PROVE  SubstInv' /\ SubstitutedAsWritten'
    OBVIOUS
  <2>2. ASSUME NEW n \in Tags, SubstStart(n) PROVE SubstInv' /\ SubstitutedAsWritten'
    BY <2>1, <2>2, SubstStartKeeps
  <2>3. CASE SubstEnd
    BY <2>1, <2>3, SubstEndKeeps
  <2>4. CASE SubstText
    BY <2>1, <2>4, SubstTextKeeps
  <2>5. CASE SubstStartCData
    BY <2>1, <2>5, SubstStartCDataKeeps
  <2>6. CASE SubstEndCData
    BY <2>1, <2>6, SubstEndCDataKeeps
  <2>7. CASE UNCHANGED substVars
    <3>1. UNCHANGED <<grammar, stack, opened, given, inCData, sinfo, swant, propSaid>>
      BY <2>7 DEF substVars, docVars
    <3>2. GrammarKnown'
      BY <2>1, <3>1, GrammarStays DEF SubstInv
    <3>3. PICK k \in SubstPlaces : SubstAt(k) /\ Control(k) /\ Data(k)
      BY <2>1 DEF SubstInv
    <3>4. SubstAt(k)'
      BY <3>1, <3>3 DEF SubstAt, At
    <3>5. Control(k)'
      BY <3>1, <3>3, ControlStays
    <3>6. \A q : Kept(q)
      BY <3>1, SameGiven
    <3>7. Data(k)'
      BY <3>1, <3>3, <3>6 DEF Data, Kept
    <3> QED BY <2>1, <3>1, <3>2, <3>4, <3>5, <3>7 DEF SubstInv, SubstitutedAsWritten
  <2> QED BY <2>1, <2>2, <2>3, <2>4, <2>5, <2>6, <2>7 DEF SubstNext
<1> QED BY <1>1, <1>2, PTL DEF SubstSpec

(***************************************************************************)
(* The tpy file: its places, by name, and for each the place around it,    *)
(* its element's name, its path and how deep it is.                        *)
(***************************************************************************)
TpySpec == TpyInit /\ [][TpyNext]_tpyVars

tpyUp ==
  [Document |-> "Document", PlcProjectInfo |-> "Document",
   RoutingInfo |-> "PlcProjectInfo", CompilerInfo |-> "PlcProjectInfo",
   Symbols |-> "PlcProjectInfo", DataTypes |-> "PlcProjectInfo",
   AdsInfo |-> "RoutingInfo", NetId |-> "AdsInfo", Port |-> "AdsInfo",
   TargetName |-> "AdsInfo", CompilerVersion |-> "CompilerInfo",
   TwinCATVersion |-> "CompilerInfo", CpuFamily |-> "CompilerInfo",
   Symbol |-> "Symbols", SymbolName |-> "Symbol", SymbolType |-> "Symbol",
   IGroup |-> "Symbol", IOffset |-> "Symbol", SymbolBitSize |-> "Symbol",
   SymbolProperties |-> "Symbol", SymbolProperty |-> "SymbolProperties",
   SymbolPropertyName |-> "SymbolProperty", SymbolPropertyValue |-> "SymbolProperty",
   DataType |-> "DataTypes", TypeName |-> "DataType", TypeType |-> "DataType",
   TypeBitSize |-> "DataType", ArrayInfo |-> "DataType", EnumInfo |-> "DataType",
   SubItem |-> "DataType", FbInfo |-> "DataType", TypeProperties |-> "DataType",
   LBound |-> "ArrayInfo", Elements |-> "ArrayInfo", Enum |-> "EnumInfo",
   Text |-> "EnumInfo", Comment |-> "EnumInfo", ItemName |-> "SubItem",
   ItemType |-> "SubItem", ItemBitSize |-> "SubItem", BitOffs |-> "SubItem",
   ItemProperties |-> "SubItem", ItemProperty |-> "ItemProperties",
   ItemPropertyName |-> "ItemProperty", ItemPropertyValue |-> "ItemProperty",
   TypeProperty |-> "TypeProperties", TypePropertyName |-> "TypeProperty",
   TypePropertyValue |-> "TypeProperty"]
\* The elements whose name another one has as well.
SharedTag ==
  [SymbolName |-> "Name", SymbolType |-> "Type", SymbolBitSize |-> "BitSize",
   SymbolProperties |-> "Properties", SymbolProperty |-> "Property",
   SymbolPropertyName |-> "Name", SymbolPropertyValue |-> "Value", TypeName |-> "Name",
   TypeType |-> "Type", TypeBitSize |-> "BitSize", TypeProperties |-> "Properties",
   ItemName |-> "Name", ItemType |-> "Type", ItemBitSize |-> "BitSize",
   ItemProperties |-> "Properties", ItemProperty |-> "Property",
   ItemPropertyName |-> "Name", ItemPropertyValue |-> "Value",
   TypeProperty |-> "Property", TypePropertyName |-> "Name",
   TypePropertyValue |-> "Value"]

TpyPlaces == DOMAIN tpyUp
tpyOwn == [k \in TpyPlaces |-> IF k \in DOMAIN SharedTag THEN SharedTag[k] ELSE k]
TpyNames == TpyPlaces \cup {"Name", "Type", "BitSize", "Properties", "Property", "Value", Unknown}

\* The path of an element in another one.
Inside(p, n) == Append(p, n)
ProjectPath == Inside(<<>>, "PlcProjectInfo")
RoutingPath == Inside(ProjectPath, "RoutingInfo")
CompilerPath == Inside(ProjectPath, "CompilerInfo")
SymbolsPath == Inside(ProjectPath, "Symbols")
TypesPath == Inside(ProjectPath, "DataTypes")
AdsPath == Inside(RoutingPath, "AdsInfo")
SymbolPath == Inside(SymbolsPath, "Symbol")
SymbolPropertiesPath == Inside(SymbolPath, "Properties")
SymbolPropertyPath == Inside(SymbolPropertiesPath, "Property")
TypePath == Inside(TypesPath, "DataType")
ArrayPath == Inside(TypePath, "ArrayInfo")
EnumPath == Inside(TypePath, "EnumInfo")
ItemPath == Inside(TypePath, "SubItem")
TypePropertiesPath == Inside(TypePath, "Properties")
ItemPropertiesPath == Inside(ItemPath, "Properties")
ItemPropertyPath == Inside(ItemPropertiesPath, "Property")
TypePropertyPath == Inside(TypePropertiesPath, "Property")
tpyPath ==
  [Document |-> <<>>, PlcProjectInfo |-> ProjectPath, RoutingInfo |-> RoutingPath,
   CompilerInfo |-> CompilerPath, Symbols |-> SymbolsPath, DataTypes |-> TypesPath,
   AdsInfo |-> AdsPath, NetId |-> Inside(AdsPath, "NetId"),
   Port |-> Inside(AdsPath, "Port"), TargetName |-> Inside(AdsPath, "TargetName"),
   CompilerVersion |-> Inside(CompilerPath, "CompilerVersion"),
   TwinCATVersion |-> Inside(CompilerPath, "TwinCATVersion"),
   CpuFamily |-> Inside(CompilerPath, "CpuFamily"), Symbol |-> SymbolPath,
   SymbolName |-> Inside(SymbolPath, "Name"), SymbolType |-> Inside(SymbolPath, "Type"),
   IGroup |-> Inside(SymbolPath, "IGroup"), IOffset |-> Inside(SymbolPath, "IOffset"),
   SymbolBitSize |-> Inside(SymbolPath, "BitSize"),
   SymbolProperties |-> SymbolPropertiesPath, SymbolProperty |-> SymbolPropertyPath,
   SymbolPropertyName |-> Inside(SymbolPropertyPath, "Name"),
   SymbolPropertyValue |-> Inside(SymbolPropertyPath, "Value"), DataType |-> TypePath,
   TypeName |-> Inside(TypePath, "Name"), TypeType |-> Inside(TypePath, "Type"),
   TypeBitSize |-> Inside(TypePath, "BitSize"), ArrayInfo |-> ArrayPath,
   EnumInfo |-> EnumPath, SubItem |-> ItemPath, FbInfo |-> Inside(TypePath, "FbInfo"),
   TypeProperties |-> TypePropertiesPath, LBound |-> Inside(ArrayPath, "LBound"),
   Elements |-> Inside(ArrayPath, "Elements"), Enum |-> Inside(EnumPath, "Enum"),
   Text |-> Inside(EnumPath, "Text"), Comment |-> Inside(EnumPath, "Comment"),
   ItemName |-> Inside(ItemPath, "Name"), ItemType |-> Inside(ItemPath, "Type"),
   ItemBitSize |-> Inside(ItemPath, "BitSize"), BitOffs |-> Inside(ItemPath, "BitOffs"),
   ItemProperties |-> ItemPropertiesPath, ItemProperty |-> ItemPropertyPath,
   ItemPropertyName |-> Inside(ItemPropertyPath, "Name"),
   ItemPropertyValue |-> Inside(ItemPropertyPath, "Value"),
   TypeProperty |-> TypePropertyPath,
   TypePropertyName |-> Inside(TypePropertyPath, "Name"),
   TypePropertyValue |-> Inside(TypePropertyPath, "Value")]
tpyDepth ==
  [Document |-> 0, PlcProjectInfo |-> 1, RoutingInfo |-> 2, CompilerInfo |-> 2,
   Symbols |-> 2, DataTypes |-> 2, AdsInfo |-> 3, NetId |-> 4, Port |-> 4,
   TargetName |-> 4, CompilerVersion |-> 3, TwinCATVersion |-> 3, CpuFamily |-> 3,
   Symbol |-> 3, SymbolName |-> 4, SymbolType |-> 4, IGroup |-> 4, IOffset |-> 4,
   SymbolBitSize |-> 4, SymbolProperties |-> 4, SymbolProperty |-> 5,
   SymbolPropertyName |-> 6, SymbolPropertyValue |-> 6, DataType |-> 3, TypeName |-> 4,
   TypeType |-> 4, TypeBitSize |-> 4, ArrayInfo |-> 4, EnumInfo |-> 4, SubItem |-> 4,
   FbInfo |-> 4, TypeProperties |-> 4, LBound |-> 5, Elements |-> 5, Enum |-> 5,
   Text |-> 5, Comment |-> 5, ItemName |-> 5, ItemType |-> 5, ItemBitSize |-> 5,
   BitOffs |-> 5, ItemProperties |-> 5, ItemProperty |-> 6, ItemPropertyName |-> 7,
   ItemPropertyValue |-> 7, TypeProperty |-> 5, TypePropertyName |-> 6,
   TypePropertyValue |-> 6]

\* The tables above, one entry after the other.
LEMMA TpyPlacesAre ==
  TpyPlaces = {"Document", "PlcProjectInfo", "RoutingInfo", "CompilerInfo", "Symbols",
    "DataTypes", "AdsInfo", "NetId", "Port", "TargetName", "CompilerVersion", "TwinCATVersion",
    "CpuFamily", "Symbol", "SymbolName", "SymbolType", "IGroup", "IOffset", "SymbolBitSize",
    "SymbolProperties", "SymbolProperty", "SymbolPropertyName", "SymbolPropertyValue",
    "DataType", "TypeName", "TypeType", "TypeBitSize", "ArrayInfo", "EnumInfo", "SubItem",
    "FbInfo", "TypeProperties", "LBound", "Elements", "Enum", "Text", "Comment", "ItemName",
    "ItemType", "ItemBitSize", "BitOffs", "ItemProperties", "ItemProperty", "ItemPropertyName",
    "ItemPropertyValue", "TypeProperty", "TypePropertyName", "TypePropertyValue"}
BY DEF TpyPlaces, tpyUp

\* The place around each.
LEMMA TpyUpsAre ==
  /\ tpyUp["Document"] = "Document" /\ tpyUp["PlcProjectInfo"] = "Document"
  /\ tpyUp["RoutingInfo"] = "PlcProjectInfo" /\ tpyUp["CompilerInfo"] = "PlcProjectInfo"
  /\ tpyUp["Symbols"] = "PlcProjectInfo" /\ tpyUp["DataTypes"] = "PlcProjectInfo"
  /\ tpyUp["AdsInfo"] = "RoutingInfo" /\ tpyUp["NetId"] = "AdsInfo"
  /\ tpyUp["Port"] = "AdsInfo" /\ tpyUp["TargetName"] = "AdsInfo"
  /\ tpyUp["CompilerVersion"] = "CompilerInfo" /\ tpyUp["TwinCATVersion"] = "CompilerInfo"
  /\ tpyUp["CpuFamily"] = "CompilerInfo" /\ tpyUp["Symbol"] = "Symbols"
  /\ tpyUp["SymbolName"] = "Symbol" /\ tpyUp["SymbolType"] = "Symbol"
  /\ tpyUp["IGroup"] = "Symbol" /\ tpyUp["IOffset"] = "Symbol"
  /\ tpyUp["SymbolBitSize"] = "Symbol" /\ tpyUp["SymbolProperties"] = "Symbol"
  /\ tpyUp["SymbolProperty"] = "SymbolProperties"
  /\ tpyUp["SymbolPropertyName"] = "SymbolProperty"
  /\ tpyUp["SymbolPropertyValue"] = "SymbolProperty" /\ tpyUp["DataType"] = "DataTypes"
  /\ tpyUp["TypeName"] = "DataType" /\ tpyUp["TypeType"] = "DataType"
  /\ tpyUp["TypeBitSize"] = "DataType" /\ tpyUp["ArrayInfo"] = "DataType"
  /\ tpyUp["EnumInfo"] = "DataType" /\ tpyUp["SubItem"] = "DataType"
  /\ tpyUp["FbInfo"] = "DataType" /\ tpyUp["TypeProperties"] = "DataType"
  /\ tpyUp["LBound"] = "ArrayInfo" /\ tpyUp["Elements"] = "ArrayInfo"
  /\ tpyUp["Enum"] = "EnumInfo" /\ tpyUp["Text"] = "EnumInfo" /\ tpyUp["Comment"] = "EnumInfo"
  /\ tpyUp["ItemName"] = "SubItem" /\ tpyUp["ItemType"] = "SubItem"
  /\ tpyUp["ItemBitSize"] = "SubItem" /\ tpyUp["BitOffs"] = "SubItem"
  /\ tpyUp["ItemProperties"] = "SubItem" /\ tpyUp["ItemProperty"] = "ItemProperties"
  /\ tpyUp["ItemPropertyName"] = "ItemProperty" /\ tpyUp["ItemPropertyValue"] = "ItemProperty"
  /\ tpyUp["TypeProperty"] = "TypeProperties" /\ tpyUp["TypePropertyName"] = "TypeProperty"
  /\ tpyUp["TypePropertyValue"] = "TypeProperty"
BY DEF tpyUp

\* The name of each element.
LEMMA TpyOwnsAre ==
  /\ DOMAIN tpyOwn = TpyPlaces
  /\ tpyOwn["Document"] = "Document" /\ tpyOwn["PlcProjectInfo"] = "PlcProjectInfo"
  /\ tpyOwn["RoutingInfo"] = "RoutingInfo" /\ tpyOwn["CompilerInfo"] = "CompilerInfo"
  /\ tpyOwn["Symbols"] = "Symbols" /\ tpyOwn["DataTypes"] = "DataTypes"
  /\ tpyOwn["AdsInfo"] = "AdsInfo" /\ tpyOwn["NetId"] = "NetId" /\ tpyOwn["Port"] = "Port"
  /\ tpyOwn["TargetName"] = "TargetName" /\ tpyOwn["CompilerVersion"] = "CompilerVersion"
  /\ tpyOwn["TwinCATVersion"] = "TwinCATVersion" /\ tpyOwn["CpuFamily"] = "CpuFamily"
  /\ tpyOwn["Symbol"] = "Symbol" /\ tpyOwn["SymbolName"] = "Name"
  /\ tpyOwn["SymbolType"] = "Type" /\ tpyOwn["IGroup"] = "IGroup"
  /\ tpyOwn["IOffset"] = "IOffset" /\ tpyOwn["SymbolBitSize"] = "BitSize"
  /\ tpyOwn["SymbolProperties"] = "Properties" /\ tpyOwn["SymbolProperty"] = "Property"
  /\ tpyOwn["SymbolPropertyName"] = "Name" /\ tpyOwn["SymbolPropertyValue"] = "Value"
  /\ tpyOwn["DataType"] = "DataType" /\ tpyOwn["TypeName"] = "Name"
  /\ tpyOwn["TypeType"] = "Type" /\ tpyOwn["TypeBitSize"] = "BitSize"
  /\ tpyOwn["ArrayInfo"] = "ArrayInfo" /\ tpyOwn["EnumInfo"] = "EnumInfo"
  /\ tpyOwn["SubItem"] = "SubItem" /\ tpyOwn["FbInfo"] = "FbInfo"
  /\ tpyOwn["TypeProperties"] = "Properties" /\ tpyOwn["LBound"] = "LBound"
  /\ tpyOwn["Elements"] = "Elements" /\ tpyOwn["Enum"] = "Enum" /\ tpyOwn["Text"] = "Text"
  /\ tpyOwn["Comment"] = "Comment" /\ tpyOwn["ItemName"] = "Name"
  /\ tpyOwn["ItemType"] = "Type" /\ tpyOwn["ItemBitSize"] = "BitSize"
  /\ tpyOwn["BitOffs"] = "BitOffs" /\ tpyOwn["ItemProperties"] = "Properties"
  /\ tpyOwn["ItemProperty"] = "Property" /\ tpyOwn["ItemPropertyName"] = "Name"
  /\ tpyOwn["ItemPropertyValue"] = "Value" /\ tpyOwn["TypeProperty"] = "Property"
  /\ tpyOwn["TypePropertyName"] = "Name" /\ tpyOwn["TypePropertyValue"] = "Value"
BY TpyPlacesAre DEF tpyOwn, SharedTag

\* How deep each place is.
LEMMA TpyDepthsAre ==
  /\ \A k \in {"Document"} :
       tpyDepth[k] = 0
  /\ \A k \in {"PlcProjectInfo"} :
       tpyDepth[k] = 1
  /\ \A k \in {"RoutingInfo", "CompilerInfo", "Symbols", "DataTypes"} :
       tpyDepth[k] = 2
  /\ \A k \in {"AdsInfo", "CompilerVersion", "TwinCATVersion", "CpuFamily", "Symbol", "DataType"} :
       tpyDepth[k] = 3
  /\ \A k \in {"NetId", "Port", "TargetName", "SymbolName", "SymbolType", "IGroup", "IOffset",
         "SymbolBitSize", "SymbolProperties", "TypeName", "TypeType", "TypeBitSize",
         "ArrayInfo", "EnumInfo", "SubItem", "FbInfo", "TypeProperties"} :
       tpyDepth[k] = 4
  /\ \A k \in {"SymbolProperty", "LBound", "Elements", "Enum", "Text", "Comment", "ItemName",
         "ItemType", "ItemBitSize", "BitOffs", "ItemProperties", "TypeProperty"} :
       tpyDepth[k] = 5
  /\ \A k \in {"SymbolPropertyName", "SymbolPropertyValue", "ItemProperty", "TypePropertyName",
         "TypePropertyValue"} :
       tpyDepth[k] = 6
  /\ \A k \in {"ItemPropertyName", "ItemPropertyValue"} :
       tpyDepth[k] = 7
BY DEF tpyDepth

\* A path is the one of the place around it and the name of the element.
LEMMA TpyPathsAre ==
  /\ DOMAIN tpyPath = TpyPlaces /\ tpyPath["Document"] = <<>>
  /\ tpyPath["PlcProjectInfo"] = Inside(tpyPath["Document"], "PlcProjectInfo")
  /\ tpyPath["RoutingInfo"] = Inside(tpyPath["PlcProjectInfo"], "RoutingInfo")
  /\ tpyPath["CompilerInfo"] = Inside(tpyPath["PlcProjectInfo"], "CompilerInfo")
  /\ tpyPath["Symbols"] = Inside(tpyPath["PlcProjectInfo"], "Symbols")
  /\ tpyPath["DataTypes"] = Inside(tpyPath["PlcProjectInfo"], "DataTypes")
  /\ tpyPath["AdsInfo"] = Inside(tpyPath["RoutingInfo"], "AdsInfo")
  /\ tpyPath["NetId"] = Inside(tpyPath["AdsInfo"], "NetId")
  /\ tpyPath["Port"] = Inside(tpyPath["AdsInfo"], "Port")
  /\ tpyPath["TargetName"] = Inside(tpyPath["AdsInfo"], "TargetName")
  /\ tpyPath["CompilerVersion"] = Inside(tpyPath["CompilerInfo"], "CompilerVersion")
  /\ tpyPath["TwinCATVersion"] = Inside(tpyPath["CompilerInfo"], "TwinCATVersion")
  /\ tpyPath["CpuFamily"] = Inside(tpyPath["CompilerInfo"], "CpuFamily")
  /\ tpyPath["Symbol"] = Inside(tpyPath["Symbols"], "Symbol")
  /\ tpyPath["SymbolName"] = Inside(tpyPath["Symbol"], "Name")
  /\ tpyPath["SymbolType"] = Inside(tpyPath["Symbol"], "Type")
  /\ tpyPath["IGroup"] = Inside(tpyPath["Symbol"], "IGroup")
  /\ tpyPath["IOffset"] = Inside(tpyPath["Symbol"], "IOffset")
  /\ tpyPath["SymbolBitSize"] = Inside(tpyPath["Symbol"], "BitSize")
  /\ tpyPath["SymbolProperties"] = Inside(tpyPath["Symbol"], "Properties")
  /\ tpyPath["SymbolProperty"] = Inside(tpyPath["SymbolProperties"], "Property")
  /\ tpyPath["SymbolPropertyName"] = Inside(tpyPath["SymbolProperty"], "Name")
  /\ tpyPath["SymbolPropertyValue"] = Inside(tpyPath["SymbolProperty"], "Value")
  /\ tpyPath["DataType"] = Inside(tpyPath["DataTypes"], "DataType")
  /\ tpyPath["TypeName"] = Inside(tpyPath["DataType"], "Name")
  /\ tpyPath["TypeType"] = Inside(tpyPath["DataType"], "Type")
  /\ tpyPath["TypeBitSize"] = Inside(tpyPath["DataType"], "BitSize")
  /\ tpyPath["ArrayInfo"] = Inside(tpyPath["DataType"], "ArrayInfo")
  /\ tpyPath["EnumInfo"] = Inside(tpyPath["DataType"], "EnumInfo")
  /\ tpyPath["SubItem"] = Inside(tpyPath["DataType"], "SubItem")
  /\ tpyPath["FbInfo"] = Inside(tpyPath["DataType"], "FbInfo")
  /\ tpyPath["TypeProperties"] = Inside(tpyPath["DataType"], "Properties")
  /\ tpyPath["LBound"] = Inside(tpyPath["ArrayInfo"], "LBound")
  /\ tpyPath["Elements"] = Inside(tpyPath["ArrayInfo"], "Elements")
  /\ tpyPath["Enum"] = Inside(tpyPath["EnumInfo"], "Enum")
  /\ tpyPath["Text"] = Inside(tpyPath["EnumInfo"], "Text")
  /\ tpyPath["Comment"] = Inside(tpyPath["EnumInfo"], "Comment")
  /\ tpyPath["ItemName"] = Inside(tpyPath["SubItem"], "Name")
  /\ tpyPath["ItemType"] = Inside(tpyPath["SubItem"], "Type")
  /\ tpyPath["ItemBitSize"] = Inside(tpyPath["SubItem"], "BitSize")
  /\ tpyPath["BitOffs"] = Inside(tpyPath["SubItem"], "BitOffs")
  /\ tpyPath["ItemProperties"] = Inside(tpyPath["SubItem"], "Properties")
  /\ tpyPath["ItemProperty"] = Inside(tpyPath["ItemProperties"], "Property")
  /\ tpyPath["ItemPropertyName"] = Inside(tpyPath["ItemProperty"], "Name")
  /\ tpyPath["ItemPropertyValue"] = Inside(tpyPath["ItemProperty"], "Value")
  /\ tpyPath["TypeProperty"] = Inside(tpyPath["TypeProperties"], "Property")
  /\ tpyPath["TypePropertyName"] = Inside(tpyPath["TypeProperty"], "Name")
  /\ tpyPath["TypePropertyValue"] = Inside(tpyPath["TypeProperty"], "Value")
<1>1. DOMAIN tpyPath = TpyPlaces
  BY TpyPlacesAre DEF tpyPath
<1>2. /\ tpyPath["Document"] = <<>>
      /\ tpyPath["PlcProjectInfo"] = ProjectPath
      /\ tpyPath["RoutingInfo"] = RoutingPath
      /\ tpyPath["CompilerInfo"] = CompilerPath
      /\ tpyPath["Symbols"] = SymbolsPath
      /\ tpyPath["DataTypes"] = TypesPath
      /\ tpyPath["AdsInfo"] = AdsPath
      /\ tpyPath["NetId"] = Inside(AdsPath, "NetId")
      /\ tpyPath["Port"] = Inside(AdsPath, "Port")
      /\ tpyPath["TargetName"] = Inside(AdsPath, "TargetName")
      /\ tpyPath["CompilerVersion"] = Inside(CompilerPath, "CompilerVersion")
      /\ tpyPath["TwinCATVersion"] = Inside(CompilerPath, "TwinCATVersion")
      /\ tpyPath["CpuFamily"] = Inside(CompilerPath, "CpuFamily")
      /\ tpyPath["Symbol"] = SymbolPath
      /\ tpyPath["SymbolName"] = Inside(SymbolPath, "Name")
      /\ tpyPath["SymbolType"] = Inside(SymbolPath, "Type")
      /\ tpyPath["IGroup"] = Inside(SymbolPath, "IGroup")
      /\ tpyPath["IOffset"] = Inside(SymbolPath, "IOffset")
      /\ tpyPath["SymbolBitSize"] = Inside(SymbolPath, "BitSize")
      /\ tpyPath["SymbolProperties"] = SymbolPropertiesPath
      /\ tpyPath["SymbolProperty"] = SymbolPropertyPath
      /\ tpyPath["SymbolPropertyName"] = Inside(SymbolPropertyPath, "Name")
      /\ tpyPath["SymbolPropertyValue"] = Inside(SymbolPropertyPath, "Value")
      /\ tpyPath["DataType"] = TypePath
      /\ tpyPath["TypeName"] = Inside(TypePath, "Name")
      /\ tpyPath["TypeType"] = Inside(TypePath, "Type")
      /\ tpyPath["TypeBitSize"] = Inside(TypePath, "BitSize")
      /\ tpyPath["ArrayInfo"] = ArrayPath
      /\ tpyPath["EnumInfo"] = EnumPath
      /\ tpyPath["SubItem"] = ItemPath
      /\ tpyPath["FbInfo"] = Inside(TypePath, "FbInfo")
      /\ tpyPath["TypeProperties"] = TypePropertiesPath
      /\ tpyPath["LBound"] = Inside(ArrayPath, "LBound")
      /\ tpyPath["Elements"] = Inside(ArrayPath, "Elements")
      /\ tpyPath["Enum"] = Inside(EnumPath, "Enum")
      /\ tpyPath["Text"] = Inside(EnumPath, "Text")
      /\ tpyPath["Comment"] = Inside(EnumPath, "Comment")
      /\ tpyPath["ItemName"] = Inside(ItemPath, "Name")
      /\ tpyPath["ItemType"] = Inside(ItemPath, "Type")
      /\ tpyPath["ItemBitSize"] = Inside(ItemPath, "BitSize")
      /\ tpyPath["BitOffs"] = Inside(ItemPath, "BitOffs")
      /\ tpyPath["ItemProperties"] = ItemPropertiesPath
      /\ tpyPath["ItemProperty"] = ItemPropertyPath
      /\ tpyPath["ItemPropertyName"] = Inside(ItemPropertyPath, "Name")
      /\ tpyPath["ItemPropertyValue"] = Inside(ItemPropertyPath, "Value")
      /\ tpyPath["TypeProperty"] = TypePropertyPath
      /\ tpyPath["TypePropertyName"] = Inside(TypePropertyPath, "Name")
      /\ tpyPath["TypePropertyValue"] = Inside(TypePropertyPath, "Value")
  BY DEF tpyPath
<1>3. /\ ProjectPath = Inside(<<>>, "PlcProjectInfo")
      /\ RoutingPath = Inside(ProjectPath, "RoutingInfo")
      /\ CompilerPath = Inside(ProjectPath, "CompilerInfo")
      /\ SymbolsPath = Inside(ProjectPath, "Symbols")
      /\ TypesPath = Inside(ProjectPath, "DataTypes")
      /\ AdsPath = Inside(RoutingPath, "AdsInfo")
      /\ SymbolPath = Inside(SymbolsPath, "Symbol")
      /\ SymbolPropertiesPath = Inside(SymbolPath, "Properties")
      /\ SymbolPropertyPath = Inside(SymbolPropertiesPath, "Property")
      /\ TypePath = Inside(TypesPath, "DataType")
      /\ ArrayPath = Inside(TypePath, "ArrayInfo")
      /\ EnumPath = Inside(TypePath, "EnumInfo")
      /\ ItemPath = Inside(TypePath, "SubItem")
      /\ TypePropertiesPath = Inside(TypePath, "Properties")
      /\ ItemPropertiesPath = Inside(ItemPath, "Properties")
      /\ ItemPropertyPath = Inside(ItemPropertiesPath, "Property")
      /\ TypePropertyPath = Inside(TypePropertiesPath, "Property")
  BY DEF ProjectPath, RoutingPath, CompilerPath, SymbolsPath, TypesPath, AdsPath, SymbolPath,
         SymbolPropertiesPath, SymbolPropertyPath, TypePath, ArrayPath, EnumPath,
         ItemPath, TypePropertiesPath, ItemPropertiesPath, ItemPropertyPath,
         TypePropertyPath
<1> QED BY <1>1, <1>2, <1>3

\* Each place is one step from the place around it.
LEMMA TpySteps == \A k \in TpyPlaces \ {Root} :
  /\ tpyUp[k] \in TpyPlaces /\ tpyOwn[k] \in TpyNames /\ tpyOwn[k] # Unknown
  /\ tpyOwn[tpyUp[k]] # "FbInfo" /\ tpyDepth[k] = tpyDepth[tpyUp[k]] + 1
  /\ tpyPath[k] = Append(tpyPath[tpyUp[k]], tpyOwn[k])
<1>1. \A k \in TpyPlaces \ {Root} :
        /\ tpyUp[k] \in TpyPlaces /\ tpyOwn[k] \in TpyNames /\ tpyOwn[k] # Unknown
        /\ tpyOwn[tpyUp[k]] # "FbInfo"
  BY TpyPlacesAre, TpyUpsAre, TpyOwnsAre DEF Root, Unknown, TpyNames
<1>2. \A k \in TpyPlaces \ {Root} : tpyDepth[k] = tpyDepth[tpyUp[k]] + 1
  BY TpyPlacesAre, TpyUpsAre, TpyDepthsAre DEF Root
<1>3. \A k \in TpyPlaces \ {Root} : tpyPath[k] = Inside(tpyPath[tpyUp[k]], tpyOwn[k])
  BY TpyPlacesAre, TpyUpsAre, TpyOwnsAre, TpyPathsAre DEF Root
<1> QED BY <1>1, <1>2, <1>3 DEF Inside

\* Two elements in one place differ in their names.
LEMMA TpySiblings ==
  \A j, k \in TpyPlaces \ {Root} : tpyUp[j] = tpyUp[k] /\ tpyOwn[j] = tpyOwn[k] => j = k
BY TpyPlacesAre, TpyUpsAre, TpyOwnsAre DEF Root

(* A place is one deeper than the place around it, and has its own name    *)
(* there; no other is in one that is skipped.                              *)
Nested(P, up, own, path, depth, skips, E) ==
  /\ Root \in P /\ depth[Root] = 0 /\ path[Root] = <<>>
  /\ \A k \in P : depth[k] \in Nat /\ (depth[k] = 0 => k = Root)
  /\ \A k \in P \ {Root} :
       /\ up[k] \in P /\ own[k] \in E /\ own[k] # Unknown /\ own[up[k]] \notin skips
       /\ depth[k] = depth[up[k]] + 1 /\ path[k] = Append(path[up[k]], own[k])
  /\ \A j, k \in P \ {Root} : up[j] = up[k] /\ own[j] = own[k] => j = k

(* The places that are d deep have paths of this length, each its own.     *)
Level(P, own, path, depth, skips, E, d) ==
  /\ \A k \in P : depth[k] = d =>
       /\ path[k] \in Seq(E) /\ Len(path[k]) = d /\ (k # Root => path[k][d] = own[k])
       /\ \A i \in 1..d : path[k][i] # Unknown /\ (path[k][i] \in skips => i = d)
  /\ \A j, k \in P : depth[j] = d /\ depth[k] = d /\ path[j] = path[k] => j = k

\* So have then the places in them.
LEMMA LevelBelow ==
  ASSUME NEW P, NEW up, NEW own, NEW path, NEW depth, NEW skips, NEW E, NEW d \in Nat,
         Nested(P, up, own, path, depth, skips, E),
         Level(P, own, path, depth, skips, E, d)
  PROVE  Level(P, own, path, depth, skips, E, d + 1)
<1>1. ASSUME NEW k \in P, depth[k] = d + 1
      PROVE  /\ k # Root /\ up[k] \in P /\ depth[up[k]] = d
             /\ path[up[k]] \in Seq(E) /\ Len(path[up[k]]) = d /\ own[k] \in E
             /\ path[k] = Append(path[up[k]], own[k])
             /\ path[k] \in Seq(E) /\ Len(path[k]) = d + 1
             /\ \A i \in 1..d : path[k][i] = path[up[k]][i]
             /\ path[k][d + 1] = own[k]
  <2>1. k # Root /\ up[k] \in P /\ depth[up[k]] = d /\ own[k] \in E
        /\ path[k] = Append(path[up[k]], own[k])
    BY <1>1 DEF Nested
  <2>2. path[up[k]] \in Seq(E) /\ Len(path[up[k]]) = d
    BY <2>1 DEF Level
  <2> QED BY <2>1, <2>2, Appended
<1>2. ASSUME NEW k \in P, depth[k] = d + 1, NEW i \in 1..d + 1
      PROVE  path[k][i] # Unknown /\ (path[k][i] \in skips => i = d + 1)
  <2>1. CASE i = d + 1
    BY <1>1, <1>2, <2>1 DEF Nested
  <2>2. CASE i \in 1..d
    <3>1. path[k][i] = path[up[k]][i] /\ up[k] \in P /\ depth[up[k]] = d /\ k # Root
      BY <1>1, <1>2, <2>2
    <3>2. path[k][i] # Unknown /\ (path[k][i] \in skips => i = d)
      BY <2>2, <3>1 DEF Level
    <3>3. CASE i = d
      <4>1. d # 0 /\ up[k] # Root /\ path[up[k]][d] = own[up[k]]
        BY <2>2, <3>1, <3>3 DEF Level, Nested
      <4> QED BY <3>1, <3>2, <3>3, <4>1 DEF Nested
    <3> QED BY <3>2, <3>3
  <2> QED BY <1>2, <2>1, <2>2
<1>3. ASSUME NEW j \in P, NEW k \in P, depth[j] = d + 1, depth[k] = d + 1, path[j] = path[k]
      PROVE  j = k
  <2>1. own[j] = own[k]
    BY <1>1, <1>3
  <2>2. path[up[j]] = path[up[k]]
    <3>1. PICK s \in Seq(E) : s = path[up[j]]
      BY <1>1, <1>3
    <3>2. PICK t \in Seq(E) : t = path[up[k]]
      BY <1>1, <1>3
    <3>3. Len(s) = d /\ Len(t) = d
      BY <1>1, <1>3, <3>1, <3>2
    <3>4. \A i \in 1..d : s[i] = path[j][i] /\ t[i] = path[k][i]
      BY <1>1, <1>3, <3>1, <3>2
    <3> QED BY <1>3, <3>1, <3>2, <3>3, <3>4
  <2>3. up[j] = up[k]
    BY <1>1, <1>3, <2>2 DEF Level
  <2> QED BY <1>1, <1>3, <2>1, <2>3 DEF Nested
<1> QED BY <1>1, <1>2, <1>3 DEF Level

\* The tables are over the places, and the document itself is the outermost.
LEMMA TpyFunctions ==
  /\ tpyOwn \in [TpyPlaces -> TpyNames] /\ tpyUp \in [TpyPlaces -> TpyPlaces]
  /\ Root \in TpyPlaces /\ tpyPath[Root] = <<>> /\ tpyOwn[Root] = Root /\ tpyDepth[Root] = 0
  /\ \A k \in TpyPlaces : tpyDepth[k] \in 0..7 /\ (tpyDepth[k] = 0 => k = Root)
<1>1. /\ Root \in TpyPlaces /\ tpyPath[Root] = <<>> /\ tpyOwn[Root] = Root
      /\ tpyDepth[Root] = 0 /\ tpyUp[Root] = Root
  BY TpyPlacesAre, TpyUpsAre, TpyPathsAre, TpyOwnsAre, TpyDepthsAre DEF Root
<1>2. \A k \in TpyPlaces : tpyUp[k] \in TpyPlaces /\ tpyOwn[k] \in TpyNames
  BY <1>1, TpySteps DEF TpyNames, Root
<1>3. tpyUp = [k \in TpyPlaces |-> tpyUp[k]]
  BY DEF TpyPlaces, tpyUp
<1>4. \A k \in TpyPlaces : tpyDepth[k] \in 0..7 /\ (tpyDepth[k] = 0 => k = Root)
  BY TpyPlacesAre, TpyDepthsAre DEF Root
<1> QED BY <1>1, <1>2, <1>3, <1>4 DEF tpyOwn

\* What the paths of the places are at each depth, from the outside in.
LEMMA TpyLevels ==
  \A d \in 0..7 : Level(TpyPlaces, tpyOwn, tpyPath, tpyDepth, {"FbInfo"}, TpyNames, d)
<1> DEFINE Depths(d) == Level(TpyPlaces, tpyOwn, tpyPath, tpyDepth, {"FbInfo"}, TpyNames, d)
<1>1. Nested(TpyPlaces, tpyUp, tpyOwn, tpyPath, tpyDepth, {"FbInfo"}, TpyNames)
  <2>1. \A k \in TpyPlaces : tpyDepth[k] \in Nat /\ (tpyDepth[k] = 0 => k = Root)
    BY TpyFunctions
  <2>2. \A k \in TpyPlaces \ {Root} :
          /\ tpyUp[k] \in TpyPlaces /\ tpyOwn[k] \in TpyNames /\ tpyOwn[k] # Unknown
          /\ tpyOwn[tpyUp[k]] \notin {"FbInfo"} /\ tpyDepth[k] = tpyDepth[tpyUp[k]] + 1
          /\ tpyPath[k] = Append(tpyPath[tpyUp[k]], tpyOwn[k])
    BY TpySteps, Zenon
  <2> QED BY <2>1, <2>2, TpyFunctions, TpySiblings DEF Nested
<1>2. Depths(0)
  <2>1. tpyPath[Root] \in Seq(TpyNames) /\ Len(tpyPath[Root]) = 0
    BY TpyFunctions
  <2>2. \A k \in TpyPlaces : tpyDepth[k] = 0 => k = Root
    BY TpyFunctions
  <2>3. \A i \in 1..0 : FALSE
    OBVIOUS
  <2> QED BY <2>1, <2>2, <2>3 DEF Level
<1>3. \A d \in 0..6 : Depths(d) => Depths(d + 1)
  BY <1>1, LevelBelow
<1> HIDE DEF Depths
<1>4. Depths(1) /\ Depths(2) /\ Depths(3)
  BY <1>2, <1>3
<1>5. Depths(4) /\ Depths(5)
  BY <1>3, <1>4
<1>6. Depths(6) /\ Depths(7)
  BY <1>3, <1>5
<1>7. \A d \in 0..7 : Depths(d)
  BY <1>2, <1>4, <1>5, <1>6
<1> QED BY <1>7 DEF Depths

\* A path is as long as the place is deep, and leads through no unknown element.
LEMMA TpyLen == \A k \in TpyPlaces :
  /\ tpyDepth[k] \in Nat /\ tpyPath[k] \in Seq(TpyNames) /\ Len(tpyPath[k]) = tpyDepth[k]
  /\ \A i \in 1..Len(tpyPath[k]) :
       tpyPath[k][i] # Unknown /\ (tpyPath[k][i] \in {"FbInfo"} => i = Len(tpyPath[k]))
<1>1. TAKE k \in TpyPlaces
<1>2. PICK d \in 0..7 : d = tpyDepth[k]
  BY TpyFunctions
<1>3. /\ tpyPath[k] \in Seq(TpyNames) /\ Len(tpyPath[k]) = d
      /\ \A i \in 1..d : tpyPath[k][i] # Unknown /\ (tpyPath[k][i] \in {"FbInfo"} => i = d)
  BY <1>2, TpyLevels DEF Level
<1> QED BY <1>2, <1>3

\* The places of a tpy file are a tree.
LEMMA TpyTree == IsTree(TpyPlaces, tpyUp, tpyOwn, tpyPath, {"FbInfo"}, TpyNames)
<1>1. ASSUME NEW j \in TpyPlaces, NEW k \in TpyPlaces, tpyPath[j] = tpyPath[k]
      PROVE  j = k
  <2>1. tpyDepth[j] = tpyDepth[k]
    BY <1>1, TpyLen
  <2> QED BY <1>1, <2>1, TpyFunctions, TpyLevels DEF Level
<1>2. tpyPath \in [TpyPlaces -> Seq(TpyNames)]
  <2>1. tpyPath = [k \in TpyPlaces |-> tpyPath[k]]
    BY TpyPlacesAre DEF tpyPath
  <2> QED BY <2>1, TpyLen
<1> QED BY <1>1, <1>2, TpyFunctions, TpyLen, TpySteps DEF IsTree

\* The elements stand where TpyElements has them, if they are there at all.
TpyGrammarKnown ==
  /\ DOMAIN grammar \subseteq DOMAIN TpyElements
  /\ \A tag \in DOMAIN grammar : grammar[tag] \subseteq TpyElements[tag]

\* The elements in each element.
LEMMA TpyElementsAre ==
  /\ DOMAIN TpyElements = {"Document", "PlcProjectInfo", "RoutingInfo", "AdsInfo",
       "CompilerInfo", "Symbols", "Symbol", "DataTypes", "DataType", "ArrayInfo", "EnumInfo",
       "SubItem", "Properties", "Property"}
  /\ TpyElements["Document"] = {"PlcProjectInfo"}
  /\ TpyElements["PlcProjectInfo"] = {"RoutingInfo", "CompilerInfo", "Symbols", "DataTypes"}
  /\ TpyElements["RoutingInfo"] = {"AdsInfo"}
  /\ TpyElements["AdsInfo"] = {"NetId", "Port", "TargetName"}
  /\ TpyElements["CompilerInfo"] = {"CompilerVersion", "TwinCATVersion", "CpuFamily"}
  /\ TpyElements["Symbols"] = {"Symbol"}
  /\ TpyElements["Symbol"] = {"Name", "Type", "IGroup", "IOffset", "BitSize", "Properties"}
  /\ TpyElements["DataTypes"] = {"DataType"}
  /\ TpyElements["DataType"] = {"Name", "Type", "BitSize", "ArrayInfo", "EnumInfo", "SubItem",
                                "FbInfo", "Properties"}
  /\ TpyElements["ArrayInfo"] = {"LBound", "Elements"}
  /\ TpyElements["EnumInfo"] = {"Enum", "Text", "Comment"}
  /\ TpyElements["SubItem"] = {"Name", "Type", "BitSize", "BitOffs", "Properties"}
  /\ TpyElements["Properties"] = {"Property"} /\ TpyElements["Property"] = {"Name", "Value"}
BY DEF TpyElements

\* Every element that may stand in a place has a place of its own.
LEMMA TpyChildren ==
  ASSUME NEW k \in TpyPlaces, tpyOwn[k] \in DOMAIN TpyElements, NEW n \in TpyElements[tpyOwn[k]]
  PROVE  n \in TpyNames /\ \E c \in TpyPlaces \ {Root} : tpyUp[c] = k /\ tpyOwn[c] = n
<1>1. CASE k \in {"Document", "PlcProjectInfo", "RoutingInfo", "AdsInfo", "CompilerInfo", "Symbols",
                  "DataTypes"}
  BY <1>1, TpyElementsAre, TpyUpsAre, TpyOwnsAre, TpyPlacesAre DEF TpyNames, Root
<1>2. CASE k \in {"Symbol", "DataType"}
  BY <1>2, TpyElementsAre, TpyUpsAre, TpyOwnsAre, TpyPlacesAre DEF TpyNames, Root
<1>3. CASE k \in {"ArrayInfo", "EnumInfo", "SubItem", "SymbolProperties", "ItemProperties",
                  "TypeProperties", "SymbolProperty", "ItemProperty", "TypeProperty"}
  BY <1>3, TpyElementsAre, TpyUpsAre, TpyOwnsAre, TpyPlacesAre DEF TpyNames, Root
<1>4. CASE k \in {"NetId", "Port", "TargetName", "CompilerVersion", "TwinCATVersion",
    "CpuFamily", "SymbolName", "SymbolType", "IGroup", "IOffset", "SymbolBitSize", "SymbolPropertyName",
    "SymbolPropertyValue", "TypeName", "TypeType", "TypeBitSize",
    "FbInfo", "LBound", "Elements", "Enum", "Text", "Comment", "ItemName",
    "ItemType", "ItemBitSize", "BitOffs", "ItemPropertyName",
    "ItemPropertyValue", "TypePropertyName", "TypePropertyValue"}
  BY <1>4, TpyElementsAre, TpyOwnsAre
<1> QED BY <1>1, <1>2, <1>3, <1>4, TpyPlacesAre

TpyLeaves == {k \in TpyPlaces : tpyOwn[k] \notin DOMAIN TpyElements}
AddressLeaves == DOMAIN RoutingLevel \cup DOMAIN CompilerLevel
AddressPlaces == {"AdsInfo", "CompilerInfo"} \cup AddressLeaves

TpyAt(k) == At(TpyPlaces, tpyUp, tpyOwn, tpyPath, {"FbInfo"}, TpyNames, k)

(* What there is to know of the document when the parser is in place k, or *)
(* so many elements deeper: which elements there are, the text and the     *)
(* value of each and whether there is a CDATA section in it.               *)
TpyView(k) ==
  [at |-> k, deeper |-> Len(stack) - tpyDepth[k], cdata |-> inCData /\ stack = tpyPath[k],
   seen |-> {j \in TpyPlaces : tpyPath[j] \in opened},
   text |-> [j \in TpyPlaces |-> TextAt(tpyPath[j])],
   value |-> [j \in TpyPlaces |-> ValueAt(tpyPath[j])],
   section |-> {j \in TpyPlaces : <<tpyPath[j], "section">> \in given}]

(* An element further in than those of the place is not there yet, and an  *)
(* element that is not there has no text.  In an address there is at most  *)
(* one unknown element around the parser, and none in a value.             *)
IsView(v) ==
  /\ v.at \in TpyPlaces /\ v.deeper \in Nat /\ (v.at # Root => v.at \in v.seen)
  /\ \A j \in v.seen : j \in TpyPlaces \ {Root} /\ tpyDepth[j] <= tpyDepth[v.at] + 1
  /\ \A j \in TpyPlaces \ v.seen : v.text[j] = {} /\ v.value[j] = {} /\ j \notin v.section
  /\ v.cdata => v.deeper = 0 /\ (v.at # Root => v.at \in v.section)
Shallow(v) == v.at \in AddressPlaces => v.deeper <= IF v.at \in TpyLeaves THEN 0 ELSE 1

\* Wherever the parser is, what there is to know is consistent.
LEMMA TpyViewed ==
  ASSUME NEW k \in TpyPlaces, TpyAt(k)
  PROVE  IsView(TpyView(k))
<1>1. /\ stack \in Seq(TpyNames) /\ Prefix(tpyPath[k], stack) /\ Len(stack) \in Nat
      /\ \A p \in opened : \E j \in TpyPlaces \ {Root} :
           p = tpyPath[j] /\ Prefix(tpyPath[tpyUp[j]], tpyPath[k])
      /\ \A j \in TpyPlaces \ {Root} : Prefix(tpyPath[j], tpyPath[k]) => tpyPath[j] \in opened
      /\ \A t \in given : t[1] \in opened
      /\ inCData /\ stack \in opened => <<stack, "section">> \in given
  <2>1. stack \in Seq(TpyNames) /\ Prefix(tpyPath[k], stack)
    BY DEF TpyAt, At
  <2>2. /\ \A p \in opened : \E j \in TpyPlaces \ {Root} :
             p = tpyPath[j] /\ Prefix(tpyPath[tpyUp[j]], tpyPath[k])
        /\ \A j \in TpyPlaces \ {Root} : Prefix(tpyPath[j], tpyPath[k]) => tpyPath[j] \in opened
    BY DEF TpyAt, At
  <2>3. /\ \A t \in given : t[1] \in opened
        /\ inCData /\ stack \in opened => <<stack, "section">> \in given
    BY DEF TpyAt, At
  <2> QED BY <2>1, <2>2, <2>3
<1>2. \A j \in TpyPlaces : tpyPath[j] \in Seq(TpyNames)
  BY TpyTree, TreeFacts
<1>3. Len(stack) - tpyDepth[k] \in Nat
  BY <1>1, TpyLen DEF Prefix
<1>4. ASSUME k # Root PROVE tpyPath[k] \in opened
  BY <1>1, <1>2, <1>4, PrefixFacts
<1>5. ASSUME NEW j \in TpyPlaces, tpyPath[j] \in opened
      PROVE  j # Root /\ tpyDepth[j] <= tpyDepth[k] + 1
  <2>1. PICK i \in TpyPlaces \ {Root} :
          tpyPath[j] = tpyPath[i] /\ Prefix(tpyPath[tpyUp[i]], tpyPath[k])
    BY <1>1, <1>5
  <2>2. i = j
    BY <2>1, TpyTree DEF IsTree
  <2>3. tpyUp[j] \in TpyPlaces /\ tpyDepth[j] = tpyDepth[tpyUp[j]] + 1
    BY <2>1, <2>2, TpySteps
  <2> QED BY <2>1, <2>2, <2>3, TpyLen DEF Prefix
<1>6. ASSUME NEW j \in TpyPlaces, tpyPath[j] \notin opened
      PROVE  /\ TextAt(tpyPath[j]) = {} /\ ValueAt(tpyPath[j]) = {}
             /\ <<tpyPath[j], "section">> \notin given
  <2>1. TextAt(tpyPath[j]) = {}
    BY <1>1, <1>6 DEF TextAt
  <2>2. <<tpyPath[j], "section">> \notin given
    BY <1>1, <1>6
  <2> QED BY <2>1, <2>2 DEF ValueAt
<1>7. ASSUME inCData, stack = tpyPath[k]
      PROVE  Len(stack) - tpyDepth[k] = 0 /\ (k # Root => <<tpyPath[k], "section">> \in given)
  BY <1>1, <1>4, <1>7, TpyLen
<1> QED BY <1>3, <1>4, <1>5, <1>6, <1>7 DEF IsView, TpyView

\* A grammar of some of the elements fits the places.
LEMMA TpyFits ==
  ASSUME TpyGrammarKnown
  PROVE  /\ GrammarFits(TpyPlaces, tpyUp, tpyOwn) /\ Tags \subseteq TpyNames
         /\ \A k \in TpyLeaves : IsLeaf(tpyOwn[k]) /\ tpyOwn[k] \notin DOMAIN grammar
         /\ Unknown \notin DOMAIN grammar
<1>1. GrammarFits(TpyPlaces, tpyUp, tpyOwn)
  BY TpyChildren DEF GrammarFits, TpyGrammarKnown
<1>2. Unknown \notin DOMAIN TpyElements
  BY TpyElementsAre DEF Unknown
<1>3. \A k \in TpyLeaves : IsLeaf(tpyOwn[k]) /\ tpyOwn[k] \notin DOMAIN grammar
  <2>1. \A k \in TpyPlaces \ {Root} : tpyOwn[k] # Unknown
    BY TpySteps
  <2>2. Root \notin TpyLeaves
    BY TpyElementsAre, TpyFunctions DEF TpyLeaves, Root
  <2> QED BY <2>1, <2>2 DEF TpyLeaves, TpyGrammarKnown, IsLeaf
<1>4. Tags \subseteq TpyNames
  <2>1. \A tag \in DOMAIN TpyElements : \E k \in TpyPlaces : tpyOwn[k] = tag
    BY TpyElementsAre, TpyOwnsAre, TpyPlacesAre
  <2>2. \A tag \in DOMAIN TpyElements : TpyElements[tag] \subseteq TpyNames
    BY <2>1, TpyChildren
  <2> QED BY <2>2 DEF Tags, TpyGrammarKnown, TpyNames
<1> QED BY <1>1, <1>2, <1>3, <1>4 DEF TpyGrammarKnown

SameText(v, w) == w.text = v.text /\ w.value = v.value /\ w.section = v.section

(* An element starts: deeper in the place, or the one of a place in it.    *)
StartsDeeper(v, w, n) ==
  /\ w.at = v.at /\ w.deeper = v.deeper + 1 /\ w.seen = v.seen /\ SameText(v, w)
  /\ n = Unknown \/ v.deeper > 0 \/ v.at = "FbInfo"
  /\ v.at \in AddressPlaces => n = Unknown
  /\ Shallow(w)
StartsPlace(v, w, n, c) ==
  /\ c \in TpyPlaces \ {Root} /\ tpyUp[c] = v.at /\ tpyOwn[c] = n /\ w.at = c
  /\ v.deeper = 0 /\ w.deeper = 0
  /\ w.seen = v.seen \cup {c} /\ (c \in TpyLeaves => c \notin v.seen) /\ SameText(v, w)

\* The parser is within an address where the document says so.
LEMMA InAddress ==
  ASSUME NEW k \in AddressPlaces, TpyAt(k), TpyGrammarKnown
  PROVE  /\ k \in TpyPlaces /\ k # Root /\ AddressPart
         /\ Len(stack) \in Nat
         /\ Len(stack) = tpyDepth[k] => stack = tpyPath[k] /\ Inner = tpyOwn[k]
         /\ Len(stack) = tpyDepth[k] + 1 => Inner = Unknown
<1>1. k \in TpyPlaces /\ k # Root /\ k # "FbInfo"
  BY TpyPlacesAre DEF AddressPlaces, AddressLeaves, RoutingLevel, CompilerLevel, Root
<1>2. \E j \in {"AdsInfo", "CompilerInfo"} : j = k \/ j = tpyUp[k]
  BY TpyUpsAre DEF AddressPlaces, AddressLeaves, RoutingLevel, CompilerLevel
<1>3. /\ stack \in Seq(TpyNames) /\ Prefix(tpyPath[k], stack)
      /\ Len(stack) > Len(tpyPath[k]) =>
           stack[Len(tpyPath[k]) + 1] = Unknown \/ (k # Root /\ tpyOwn[k] \in {"FbInfo"})
  BY DEF TpyAt, At
<1>4. /\ tpyPath[k] \in Seq(TpyNames) /\ Len(tpyPath[k]) = tpyDepth[k] /\ tpyDepth[k] \in Nat
      /\ tpyUp[k] \in TpyPlaces /\ tpyDepth[k] = tpyDepth[tpyUp[k]] + 1
      /\ tpyPath[k][tpyDepth[k]] = tpyOwn[k]
      /\ \A i \in 1..tpyDepth[tpyUp[k]] : tpyPath[k][i] = tpyPath[tpyUp[k]][i]
  BY <1>1, TpySteps, TpyLen, TpyTree, TreeFacts
<1>5. tpyOwn[k] # "FbInfo"
  BY TpyOwnsAre DEF AddressPlaces, AddressLeaves, RoutingLevel, CompilerLevel
<1>6. /\ Len(stack) \in Nat /\ stack # <<>> /\ Inner = stack[Len(stack)]
      /\ \A tag : Within(tag) <=> \E i \in 1..Len(stack) : stack[i] = tag
  <2>1. Len(stack) \in Nat /\ Len(stack) >= 1
    BY <1>1, <1>3, <1>4, TpySteps, TpyLen DEF Prefix
  <2>2. Unknown \in TpyNames
    BY DEF TpyNames
  <2> QED BY <1>3, <2>1, <2>2, StackFacts
<1>7. AddressPart
  <2>1. PICK j \in {"AdsInfo", "CompilerInfo"} : j = k \/ j = tpyUp[k]
    BY <1>2
  <2>2. /\ j \in TpyPlaces /\ tpyOwn[j] = j /\ tpyDepth[j] \in 1..tpyDepth[j]
        /\ j # Root
    BY <1>1, TpyOwnsAre, TpyDepthsAre, TpyPlacesAre DEF Root
  <2>3. tpyPath[j][tpyDepth[j]] = j
    BY <2>2, TpyLen, TpyTree, TreeFacts
  <2>4. tpyDepth[j] \in 1..Len(tpyPath[k]) /\ tpyPath[k][tpyDepth[j]] = j
    BY <1>4, <2>1, <2>2, <2>3
  <2>5. tpyDepth[j] \in 1..Len(stack) /\ stack[tpyDepth[j]] = j
    BY <1>3, <1>4, <1>6, <2>4 DEF Prefix
  <2> QED BY <1>6, <2>5 DEF AddressPart
<1>8. ASSUME Len(stack) = tpyDepth[k] PROVE stack = tpyPath[k] /\ Inner = tpyOwn[k]
  BY <1>3, <1>4, <1>6, <1>8, PrefixFacts
<1>9. ASSUME Len(stack) = tpyDepth[k] + 1 PROVE Inner = Unknown
  BY <1>3, <1>4, <1>5, <1>6, <1>9
<1> QED BY <1>1, <1>6, <1>7, <1>8, <1>9

\* What the view says of the text.
LEMMA ViewSame ==
  ASSUME NEW k \in TpyPlaces, NEW c \in TpyPlaces, given' = given
  PROVE  SameText(TpyView(k), TpyView(c)')
BY DEF SameText, TpyView, TextAt, ValueAt

(* How an element that starts changes what there is to know: the parser goes *)
(* deeper into an unknown one, or to the place of a new one.               *)
LEMMA TpyStartSeen ==
  ASSUME NEW k \in TpyPlaces, TpyAt(k), TpyGrammarKnown, Shallow(TpyView(k)), NEW n \in Tags,
         DocOpen({"FbInfo"}, n), AddressPart => Inner \in DOMAIN grammar
  PROVE  /\ TpyGrammarKnown' /\ ~TpyView(k).cdata /\ ~(inCData')
         /\ \E c \in TpyPlaces :
              /\ TpyAt(c)'
              /\ \/ StartsDeeper(TpyView(k), TpyView(c)', n)
                 \/ StartsPlace(TpyView(k), TpyView(c)', n, c)
<1>1. /\ given' = given /\ grammar' = grammar /\ stack' = Append(stack, n)
      /\ \/ /\ \/ n = Unknown
               \/ /\ n \in Hidden
                  /\ Len(stack) > Len(tpyPath[k]) \/ (k # Root /\ tpyOwn[k] \in {"FbInfo"})
            /\ opened' = opened /\ TpyAt(k)'
         \/ \E c \in TpyPlaces \ {Root} :
              /\ stack = tpyPath[k] /\ tpyUp[c] = k /\ tpyOwn[c] = n /\ stack' = tpyPath[c]
              /\ IsLeaf(n) => tpyPath[c] \notin opened
              /\ opened' = opened \cup {tpyPath[c]} /\ TpyAt(c)'
  <2>1. n \in TpyNames /\ GrammarFits(TpyPlaces, tpyUp, tpyOwn)
    BY TpyFits
  <2> QED BY <2>1, TpyTree, OpenStep DEF TpyAt
<1>2. TpyGrammarKnown' /\ ~inCData /\ ~inCData'
  BY <1>1 DEF TpyGrammarKnown, DocOpen
<1>3. /\ Len(stack) \in Nat /\ Len(stack') = Len(stack) + 1 /\ Len(stack) >= tpyDepth[k]
      /\ Len(tpyPath[k]) = tpyDepth[k] /\ tpyDepth[k] \in Nat
  <2>1. stack \in Seq(TpyNames) /\ Prefix(tpyPath[k], stack)
    BY DEF TpyAt, At
  <2>2. n \in TpyNames
    BY TpyFits
  <2> QED BY <1>1, <2>1, <2>2, TpyLen DEF Prefix
<1>4. CASE /\ \/ n = Unknown
              \/ /\ n \in Hidden
                 /\ Len(stack) > Len(tpyPath[k]) \/ (k # Root /\ tpyOwn[k] \in {"FbInfo"})
           /\ opened' = opened /\ TpyAt(k)'
  <2> DEFINE v == TpyView(k)
             w == TpyView(k)'
  <2>1. /\ v.at = k /\ w.at = k /\ v.deeper = Len(stack) - tpyDepth[k]
        /\ w.deeper = Len(stack') - tpyDepth[k] /\ w.seen = v.seen
    BY <1>4 DEF TpyView
  <2>2. SameText(v, w)
    BY <1>1, ViewSame
  <2>3. tpyOwn[k] = "FbInfo" => k = "FbInfo"
    BY TpyOwnsAre, TpyPlacesAre
  <2>4. n = Unknown \/ v.deeper > 0 \/ v.at = "FbInfo"
    BY <1>3, <1>4, <2>1, <2>3
  <2>5. ASSUME k \in AddressPlaces PROVE n = Unknown /\ v.deeper = 0 /\ k \notin TpyLeaves
    <3>1. v.deeper <= 1
      BY <1>3, <2>1, <2>5 DEF Shallow
    <3>2. Inner \in DOMAIN grammar /\ Inner # Unknown
      BY <2>5, InAddress, TpyFits
    <3>3. v.deeper = 0
      BY <1>3, <2>1, <2>5, <3>1, <3>2, InAddress
    <3>4. Inner = tpyOwn[k]
      BY <1>3, <2>1, <2>5, <3>3, InAddress
    <3>5. k # "FbInfo"
      BY <2>5 DEF AddressPlaces, AddressLeaves, RoutingLevel, CompilerLevel
    <3> QED BY <2>1, <2>4, <3>2, <3>3, <3>4, <3>5, TpyFits
  <2>6. Shallow(w)
    BY <1>3, <2>1, <2>5 DEF Shallow
  <2> HIDE DEF v, w
  <2>7. StartsDeeper(v, w, n)
    BY <1>3, <2>1, <2>2, <2>4, <2>5, <2>6 DEF StartsDeeper
  <2> QED BY <1>2, <1>4, <2>7 DEF v, w, TpyView
<1>5. CASE \E c \in TpyPlaces \ {Root} :
              /\ stack = tpyPath[k] /\ tpyUp[c] = k /\ tpyOwn[c] = n /\ stack' = tpyPath[c]
              /\ IsLeaf(n) => tpyPath[c] \notin opened
              /\ opened' = opened \cup {tpyPath[c]} /\ TpyAt(c)'
  <2>1. PICK c \in TpyPlaces \ {Root} :
              /\ stack = tpyPath[k] /\ tpyUp[c] = k /\ tpyOwn[c] = n /\ stack' = tpyPath[c]
              /\ IsLeaf(n) => tpyPath[c] \notin opened
              /\ opened' = opened \cup {tpyPath[c]} /\ TpyAt(c)'
    BY <1>5
  <2> DEFINE v == TpyView(k)
             w == TpyView(c)'
  <2>2. /\ v.at = k /\ w.at = c /\ v.deeper = Len(stack) - tpyDepth[k]
        /\ w.deeper = Len(stack') - tpyDepth[c]
    BY DEF TpyView
  <2>3. SameText(v, w)
    BY <1>1, ViewSame
  <2>4. v.deeper = 0 /\ w.deeper = 0
    BY <1>3, <2>1, <2>2, TpyLen
  <2>5. w.seen = v.seen \cup {c}
    <3>1. \A j \in TpyPlaces : tpyPath[j] = tpyPath[c] => j = c
      BY TpyTree DEF IsTree
    <3> QED BY <2>1, <3>1 DEF TpyView
  <2>6. c \in TpyLeaves => c \notin v.seen
    BY <2>1, TpyFits DEF TpyView
  <2> HIDE DEF v, w
  <2>7. StartsPlace(v, w, n, c)
    BY <2>1, <2>2, <2>3, <2>4, <2>5, <2>6 DEF StartsPlace
  <2> QED BY <1>2, <2>1, <2>7 DEF v, w, TpyView
<1> QED BY <1>1, <1>4, <1>5

(* An element ends: deeper in the place, or the one of the place.          *)
EndsDeeper(v, w, n) ==
  /\ w.at = v.at /\ v.deeper > 0 /\ w.deeper = v.deeper - 1 /\ w.seen = v.seen /\ SameText(v, w)
  /\ v.at \in AddressPlaces => n = Unknown
EndsPlace(v, w, n) ==
  /\ v.at \in TpyPlaces \ {Root} /\ w.at = tpyUp[v.at] /\ tpyOwn[v.at] = n
  /\ v.deeper = 0 /\ w.deeper = 0
  /\ \A j \in TpyPlaces \ {Root} : tpyDepth[j] <= tpyDepth[v.at] =>
       /\ w.text[j] = v.text[j] /\ w.value[j] = v.value[j]
       /\ (j \in w.seen <=> j \in v.seen) /\ (j \in w.section <=> j \in v.section)

(* How one that ends does: the parser comes back from an unknown element, or *)
(* to the place around the one that ended, and what stood outside remains. *)
LEMMA TpyEndSeen ==
  ASSUME NEW k \in TpyPlaces, TpyAt(k), TpyGrammarKnown, Shallow(TpyView(k)), DocClose
  PROVE  /\ TpyGrammarKnown' /\ ~TpyView(k).cdata /\ ~(inCData')
         /\ \E c \in TpyPlaces :
              /\ TpyAt(c)'
              /\ \/ EndsDeeper(TpyView(k), TpyView(c)', Inner)
                 \/ EndsPlace(TpyView(k), TpyView(c)', Inner)
<1>1. /\ stack # <<>> /\ stack' = Front(stack) /\ grammar' = grammar
      /\ \/ /\ Len(stack) > Len(tpyPath[k]) /\ stack \notin opened /\ given' = given
            /\ opened' = opened /\ TpyAt(k)'
         \/ /\ stack = tpyPath[k] /\ k # Root /\ stack \in opened /\ Inner = tpyOwn[k]
            /\ stack' = tpyPath[tpyUp[k]] /\ TpyAt(tpyUp[k])'
            /\ \A j \in TpyPlaces \ {Root} : j = k \/ ~Prefix(tpyPath[k], tpyPath[j]) =>
                 /\ Kept(tpyPath[j]) /\ (tpyPath[j] \in opened' <=> tpyPath[j] \in opened)
                 /\ <<tpyPath[j], "section">> \in given' <=> <<tpyPath[j], "section">> \in given
  BY TpyTree, CloseStep DEF TpyAt
<1>2. TpyGrammarKnown' /\ ~inCData /\ ~inCData'
  BY <1>1 DEF TpyGrammarKnown, DocClose
<1>3. /\ Len(stack) \in Nat /\ Len(stack') = Len(stack) - 1 /\ Len(stack) >= tpyDepth[k]
      /\ Len(tpyPath[k]) = tpyDepth[k] /\ tpyDepth[k] \in Nat
  <2>1. stack \in Seq(TpyNames) /\ Prefix(tpyPath[k], stack)
    BY DEF TpyAt, At
  <2> QED BY <1>1, <2>1, AllButLast, TpyLen DEF Prefix
<1>4. CASE /\ Len(stack) > Len(tpyPath[k]) /\ stack \notin opened /\ given' = given
           /\ opened' = opened /\ TpyAt(k)'
  <2> DEFINE v == TpyView(k)
             w == TpyView(k)'
  <2>1. /\ v.at = k /\ w.at = k /\ v.deeper = Len(stack) - tpyDepth[k]
        /\ w.deeper = Len(stack') - tpyDepth[k] /\ w.seen = v.seen
    BY <1>4 DEF TpyView
  <2>2. SameText(v, w)
    BY <1>4, ViewSame
  <2>3. ASSUME k \in AddressPlaces PROVE Inner = Unknown
    <3>1. v.deeper <= 1
      BY <1>3, <2>1, <2>3 DEF Shallow
    <3>2. Len(stack) = tpyDepth[k] + 1
      BY <1>3, <1>4, <2>1, <3>1
    <3> QED BY <2>3, <3>2, InAddress
  <2> HIDE DEF v, w
  <2>4. EndsDeeper(v, w, Inner)
    BY <1>3, <1>4, <2>1, <2>2, <2>3 DEF EndsDeeper
  <2> QED BY <1>2, <1>4, <2>4 DEF v, w, TpyView
<1>5. CASE /\ stack = tpyPath[k] /\ k # Root /\ stack \in opened /\ Inner = tpyOwn[k]
           /\ stack' = tpyPath[tpyUp[k]] /\ TpyAt(tpyUp[k])'
           /\ \A j \in TpyPlaces \ {Root} : j = k \/ ~Prefix(tpyPath[k], tpyPath[j]) =>
                /\ Kept(tpyPath[j]) /\ (tpyPath[j] \in opened' <=> tpyPath[j] \in opened)
                /\ <<tpyPath[j], "section">> \in given' <=> <<tpyPath[j], "section">> \in given
  <2>1. PICK c \in TpyPlaces : c = tpyUp[k] /\ tpyDepth[k] = tpyDepth[c] + 1
    BY <1>5, TpySteps
  <2> DEFINE v == TpyView(k)
             w == TpyView(c)'
  <2>2. /\ v.at = k /\ w.at = c /\ v.deeper = Len(stack) - tpyDepth[k]
        /\ w.deeper = Len(stack') - tpyDepth[c]
    BY DEF TpyView
  <2>3. v.deeper = 0 /\ w.deeper = 0
    BY <1>3, <1>5, <2>1, <2>2, TpyLen
  <2>4. ASSUME NEW j \in TpyPlaces \ {Root}, tpyDepth[j] <= tpyDepth[k]
        PROVE  /\ w.text[j] = v.text[j] /\ w.value[j] = v.value[j]
               /\ (j \in w.seen <=> j \in v.seen) /\ (j \in w.section <=> j \in v.section)
    <3>1. j = k \/ ~Prefix(tpyPath[k], tpyPath[j])
      <4>1. SUFFICES ASSUME Prefix(tpyPath[k], tpyPath[j]) PROVE j = k
        OBVIOUS
      <4>2. tpyPath[j] \in Seq(TpyNames) /\ tpyPath[k] \in Seq(TpyNames)
            /\ Len(tpyPath[j]) = Len(tpyPath[k])
        BY <2>4, <4>1, TpyLen DEF Prefix
      <4> QED BY <4>1, <4>2, PrefixFacts, TpyTree DEF IsTree
    <3>2. /\ Kept(tpyPath[j]) /\ (tpyPath[j] \in opened' <=> tpyPath[j] \in opened)
          /\ <<tpyPath[j], "section">> \in given' <=> <<tpyPath[j], "section">> \in given
      BY <1>5, <2>4, <3>1
    <3> QED BY <3>2 DEF Kept, TpyView
  <2> HIDE DEF v, w
  <2>5. EndsPlace(v, w, Inner)
    BY <1>5, <2>1, <2>2, <2>3, <2>4 DEF EndsPlace
  <2> QED BY <1>2, <1>5, <2>1, <2>5 DEF v, w, TpyView
<1> QED BY <1>1, <1>4, <1>5

(* Text is given, or a CDATA section starts or ends.                       *)
Stays(v, w) == w.at = v.at /\ w.deeper = v.deeper /\ w.seen = v.seen
GivesText(v, w, t) ==
  /\ Stays(v, w) /\ w.cdata = v.cdata /\ w.section = v.section
  /\ v.deeper > 0 \/ v.at = Root => SameText(v, w)
  /\ v.deeper = 0 /\ v.at # Root => \A j \in TpyPlaces :
       /\ w.text[j] = IF j = v.at THEN v.text[j] \cup t ELSE v.text[j]
       /\ w.value[j] = IF j = v.at /\ (v.cdata \/ j \notin v.section)
                       THEN v.value[j] \cup t ELSE v.value[j]
StartsSection(v, w) ==
  /\ Stays(v, w) /\ w.text = v.text /\ ~v.cdata /\ w.cdata = (v.deeper = 0)
  /\ v.deeper > 0 \/ v.at = Root => SameText(v, w)
  /\ v.deeper = 0 /\ v.at # Root =>
       /\ w.section = v.section \cup {v.at}
       /\ \A j \in TpyPlaces : w.value[j] = IF j = v.at THEN {} ELSE v.value[j]
EndsSection(v, w) == Stays(v, w) /\ SameText(v, w) /\ v.cdata = (v.deeper = 0) /\ ~w.cdata

\* The parser is at its place or in an unknown element.
LEMMA TpyStanding ==
  ASSUME NEW k \in TpyPlaces, TpyAt(k)
  PROVE  \/ TpyView(k).deeper > 0 /\ stack # tpyPath[k] /\ stack \notin opened
         \/ TpyView(k).deeper = 0 /\ stack = tpyPath[k] /\ (k = Root <=> stack \notin opened)
<1>1. \/ Len(stack) > Len(tpyPath[k]) /\ stack \notin opened
      \/ stack = tpyPath[k] /\ (k = Root \/ stack \in opened)
  BY TpyTree, Standing DEF TpyAt
<1>2. stack \in Seq(TpyNames) /\ Len(stack) \in Nat
  BY DEF TpyAt, At
<1>3. Root \notin TpyView(Root).seen \/ k # Root
  BY TpyViewed DEF IsView, TpyView
<1>4. k = Root => tpyPath[k] \notin opened
  BY <1>3, TpyFunctions DEF TpyView
<1> QED BY <1>1, <1>2, <1>4, TpyLen DEF TpyView

\* Text belongs to the element the parser is in.
LEMMA TpyTextSeen ==
  ASSUME NEW k \in TpyPlaces, TpyAt(k), DocText
  PROVE  TpyAt(k)' /\ grammar' = grammar /\ GivesText(TpyView(k), TpyView(k)', {Piece})
<1>1. /\ TpyAt(k)' /\ stack' = stack /\ grammar' = grammar /\ inCData' = inCData
      /\ given' = IF stack \in opened THEN given \cup {Piece} ELSE given
      /\ stack \in opened => /\ \A q : q # stack => Kept(q)
                             /\ TextAt(stack)' = TextAt(stack) \cup {Piece}
                             /\ ValueAt(stack)' = IF ~inCData /\ <<stack, "section">> \in given
                                                  THEN ValueAt(stack)
                                                  ELSE ValueAt(stack) \cup {Piece}
  BY TpyTree, TextStep DEF TpyAt
<1>2. opened' = opened
  BY DEF DocText
<1> DEFINE v == TpyView(k)
           w == TpyView(k)'
<1>3. /\ v.at = k /\ w.at = k /\ w.deeper = v.deeper /\ w.seen = v.seen /\ w.cdata = v.cdata
      /\ v.cdata = (inCData /\ stack = tpyPath[k])
  BY <1>1, <1>2 DEF TpyView
<1>4. w.section = v.section
  <2>1. \A q : <<q, "section">> # Piece
    BY DEF Piece
  <2> QED BY <1>1, <2>1 DEF TpyView
<1>5. ASSUME v.deeper > 0 \/ v.at = Root PROVE SameText(v, w)
  <2>1. given' = given
    BY <1>1, <1>3, <1>5, TpyStanding DEF TpyView
  <2> QED BY <2>1, ViewSame
<1>6. ASSUME v.deeper = 0, v.at # Root, NEW j \in TpyPlaces
      PROVE  /\ w.text[j] = IF j = v.at THEN v.text[j] \cup {Piece} ELSE v.text[j]
             /\ w.value[j] = IF j = v.at /\ (v.cdata \/ j \notin v.section)
                             THEN v.value[j] \cup {Piece} ELSE v.value[j]
  <2>1. stack = tpyPath[k] /\ stack \in opened
    BY <1>3, <1>6, TpyStanding
  <2>2. CASE j # k
    <3>1. Kept(tpyPath[j])
      BY <1>1, <2>1, <2>2, TpyTree DEF IsTree
    <3> QED BY <1>3, <2>2, <3>1 DEF TpyView, Kept
  <2>3. CASE j = k
    <3>1. /\ TextAt(tpyPath[k])' = TextAt(tpyPath[k]) \cup {Piece}
          /\ ValueAt(tpyPath[k])' = IF ~inCData /\ <<tpyPath[k], "section">> \in given
                               THEN ValueAt(tpyPath[k]) ELSE ValueAt(tpyPath[k]) \cup {Piece}
      <4>1. PICK q : q = stack
        OBVIOUS
      <4>2. q = tpyPath[k] /\ TextAt(q)' = TextAt(stack)' /\ ValueAt(q)' = ValueAt(stack)'
        BY <1>1, <2>1, <4>1 DEF TextAt, ValueAt
      <4> QED BY <1>1, <2>1, <4>1, <4>2
    <3>2. (v.cdata <=> inCData) /\ (k \in v.section <=> <<tpyPath[k], "section">> \in given)
      BY <1>3, <2>1 DEF TpyView
    <3>3. /\ w.text[k] = TextAt(tpyPath[k])' /\ v.text[k] = TextAt(tpyPath[k])
          /\ w.value[k] = ValueAt(tpyPath[k])' /\ v.value[k] = ValueAt(tpyPath[k])
      BY DEF TpyView
    <3> HIDE DEF v, w
    <3> QED BY <1>3, <2>3, <3>1, <3>2, <3>3
  <2> QED BY <2>2, <2>3
<1> HIDE DEF v, w
<1>7. GivesText(v, w, {Piece})
  BY <1>3, <1>4, <1>5, <1>6 DEF GivesText, Stays
<1> QED BY <1>1, <1>7 DEF v, w

\* A section takes the place of the text before it.
LEMMA TpySectionSeen ==
  ASSUME NEW k \in TpyPlaces, TpyAt(k), DocStartCData
  PROVE  TpyAt(k)' /\ grammar' = grammar /\ StartsSection(TpyView(k), TpyView(k)')
<1>1. /\ TpyAt(k)' /\ stack' = stack /\ grammar' = grammar /\ inCData' = TRUE /\ ~inCData
      /\ stack \notin opened => given' = given
      /\ stack \in opened => /\ \A q : q # stack => Kept(q)
                             /\ TextAt(stack)' = TextAt(stack)
                             /\ given' = given \cup {<<stack, "section">>}
                             /\ ValueAt(stack)' = {}
  BY TpyTree, CDataStep DEF TpyAt
<1>2. opened' = opened
  BY DEF DocStartCData
<1> DEFINE v == TpyView(k)
           w == TpyView(k)'
<1>3. /\ v.at = k /\ w.at = k /\ w.deeper = v.deeper /\ w.seen = v.seen
      /\ ~v.cdata /\ w.cdata = (stack = tpyPath[k])
  BY <1>1, <1>2 DEF TpyView
<1>4. w.cdata = (v.deeper = 0)
  BY <1>3, TpyStanding
<1>5. ASSUME v.deeper > 0 \/ v.at = Root PROVE SameText(v, w)
  <2>1. given' = given
    BY <1>1, <1>3, <1>5, TpyStanding DEF TpyView
  <2> QED BY <2>1, ViewSame
<1>6. ASSUME v.deeper = 0, v.at # Root
      PROVE  /\ w.section = v.section \cup {v.at} /\ w.text = v.text
             /\ \A j \in TpyPlaces : w.value[j] = IF j = v.at THEN {} ELSE v.value[j]
  <2>1. stack = tpyPath[k] /\ stack \in opened
    BY <1>3, <1>6, TpyStanding
  <2>2. \A j \in TpyPlaces \ {k} : tpyPath[j] # stack
    BY <2>1, TpyTree DEF IsTree
  <2>3. w.section = v.section \cup {v.at}
    BY <1>1, <1>3, <2>1, <2>2 DEF TpyView
  <2>4. \A j \in TpyPlaces \ {k} : w.text[j] = v.text[j] /\ w.value[j] = v.value[j]
    <3>1. \A j \in TpyPlaces \ {k} : Kept(tpyPath[j])
      BY <1>1, <2>1, <2>2
    <3> QED BY <3>1 DEF TpyView, Kept
  <2>5. w.text[k] = v.text[k] /\ w.value[k] = {}
    <3>1. PICK q : q = stack
      OBVIOUS
    <3>2. q = tpyPath[k] /\ TextAt(q)' = TextAt(stack)' /\ ValueAt(q)' = ValueAt(stack)'
      BY <1>1, <2>1, <3>1 DEF TextAt, ValueAt
    <3>3. TextAt(tpyPath[k])' = TextAt(tpyPath[k]) /\ ValueAt(tpyPath[k])' = {}
      BY <1>1, <2>1, <3>1, <3>2
    <3> QED BY <3>3 DEF TpyView
  <2>6. w.text = v.text
    <3>1. w.text = [j \in TpyPlaces |-> w.text[j]] /\ v.text = [j \in TpyPlaces |-> v.text[j]]
      BY DEF TpyView
    <3> HIDE DEF v, w
    <3>2. \A j \in TpyPlaces : w.text[j] = v.text[j]
      BY <2>4, <2>5
    <3> QED BY <3>1, <3>2
  <2> HIDE DEF v, w
  <2> QED BY <1>3, <2>3, <2>4, <2>5, <2>6
<1> HIDE DEF v, w
<1>7. w.text = v.text
  <2>1. v.deeper \in Nat
    BY TpyViewed DEF IsView, v
  <2> QED BY <1>5, <1>6, <2>1 DEF SameText
<1>8. StartsSection(v, w)
  BY <1>3, <1>4, <1>5, <1>6, <1>7 DEF StartsSection, Stays
<1> QED BY <1>1, <1>8 DEF v, w

\* When it is over nothing else changes.
LEMMA TpySectionOver ==
  ASSUME NEW k \in TpyPlaces, TpyAt(k), DocEndCData
  PROVE  TpyAt(k)' /\ grammar' = grammar /\ EndsSection(TpyView(k), TpyView(k)')
<1>1. UNCHANGED <<grammar, stack, opened, given>> /\ inCData /\ inCData' = FALSE
  BY DEF DocEndCData
<1>2. TpyAt(k)'
  BY <1>1 DEF TpyAt, At
<1> DEFINE v == TpyView(k)
           w == TpyView(k)'
<1>3. /\ w.at = v.at /\ w.deeper = v.deeper /\ w.seen = v.seen
      /\ ~w.cdata /\ v.cdata = (stack = tpyPath[k])
  BY <1>1 DEF TpyView
<1>4. v.cdata = (v.deeper = 0)
  BY <1>3, TpyStanding
<1>5. SameText(v, w)
  BY <1>1, ViewSame
<1> HIDE DEF v, w
<1>6. EndsSection(v, w)
  BY <1>3, <1>4, <1>5 DEF EndsSection, Stays
<1> QED BY <1>1, <1>2, <1>6 DEF v, w

TpySymbolPlaces == {"Symbol", "SymbolName", "SymbolType", "IGroup", "IOffset", "SymbolBitSize",
  "SymbolProperties", "SymbolProperty", "SymbolPropertyName", "SymbolPropertyValue"}
ItemPlaces == {"SubItem", "ItemName", "ItemType", "ItemBitSize", "BitOffs", "ItemProperties",
  "ItemProperty", "ItemPropertyName", "ItemPropertyValue"}
TypePlaces == {"DataType", "TypeName", "TypeType", "TypeBitSize", "ArrayInfo", "LBound",
  "Elements", "EnumInfo", "Enum", "Text", "Comment", "FbInfo", "TypeProperties", "TypeProperty",
  "TypePropertyName", "TypePropertyValue"} \cup ItemPlaces

\* Where the values of a symbol, a type and an item stand.
SymbolPart == [Name |-> "SymbolName", Type |-> "SymbolType", IGroup |-> "IGroup",
               IOffset |-> "IOffset", BitSize |-> "SymbolBitSize"]
TypePart == [Name |-> "TypeName", Type |-> "TypeType", BitSize |-> "TypeBitSize"]
ItemPart == [Name |-> "ItemName", Type |-> "ItemType", BitSize |-> "ItemBitSize",
             BitOffs |-> "BitOffs"]

InfoFields == DOMAIN Fresh \cup DOMAIN Outside
IsOver(f, fields) == f = [x \in fields |-> f[x]]
IsInfo(p) ==
  /\ IsOver(p, InfoFields) /\ IsOver(p.sym, SymbolFields) /\ IsOver(p.rec, TypeFields)
  /\ IsOver(p.number_parse, Numbers) /\ IsOver(p.opc_prop, PropertyFields)
  /\ IsOver(p.array_bounds, BoundFields) /\ IsOver(p.enum_element, EnumFields)
  /\ IsOver(p.struct_element, ItemFields)

(* Where the parser takes itself to be.                                    *)
Whereabouts(p, v) ==
  /\ p.ignore = IF v.at \in AddressPlaces THEN 0
                ELSE IF v.at = "FbInfo" THEN v.deeper + 1 ELSE v.deeper
  /\ p.projects = (v.at # Root)
  /\ p.routing = IF v.at = "RoutingInfo" THEN 1 ELSE IF v.at = "AdsInfo" THEN 2
                 ELSE IF v.at \in DOMAIN RoutingLevel THEN RoutingLevel[v.at] ELSE 0
  /\ p.compiler = IF v.at = "CompilerInfo" THEN 1
                  ELSE IF v.at \in DOMAIN CompilerLevel THEN CompilerLevel[v.at] ELSE 0
  /\ p.symbols = IF v.at = "Symbols" THEN 1 ELSE IF v.at \in TpySymbolPlaces THEN 2 ELSE 0
  /\ p.types = IF v.at = "DataTypes" THEN 1 ELSE IF v.at \in TypePlaces THEN 2 ELSE 0

\* 2 in the element, 1 when it ended, 0 before.
Reading(k, v) == IF v.at = k THEN 2 ELSE IF k \in v.seen THEN 1 ELSE 0
OpcLevel(k) ==
  IF k \in {"SymbolProperties", "TypeProperties", "ItemProperties"} THEN 1
  ELSE IF k \in {"SymbolProperty", "TypeProperty", "ItemProperty"} THEN 2
  ELSE IF k \in {"SymbolPropertyName", "TypePropertyName", "ItemPropertyName"} THEN 3
  ELSE IF k \in {"SymbolPropertyValue", "TypePropertyValue", "ItemPropertyValue"} THEN 4
  ELSE 0

SymbolLevels(p, v) ==
  /\ p.name_parse = Reading("SymbolName", v) /\ p.type_parse = Reading("SymbolType", v)
  /\ \A n \in Numbers : p.number_parse[n] = Reading(SymbolPart[n], v)
  /\ p.opc_cur = "none" /\ p.opc_parse = OpcLevel(v.at)
SymbolRead(p, v) ==
  /\ p.sym["Name"] = v.text["SymbolName"] /\ p.sym["Type"] = v.text["SymbolType"]
  /\ \A n \in Numbers : IF v.at = SymbolPart[n] THEN p.data = v.text[SymbolPart[n]]
                        ELSE p.sym[n] = v.text[SymbolPart[n]]

TypeLevels(p, v) ==
  /\ p.name_parse = Reading("TypeName", v) /\ p.type_parse = Reading("TypeType", v)
  /\ p.number_parse["BitSize"] = Reading("TypeBitSize", v)
  /\ p.array_parse = IF v.at \in BoundFields THEN 3 ELSE Reading("ArrayInfo", v)
  /\ p.enum_parse = IF v.at \in {"Enum", "Text", "Comment"} THEN 3 ELSE Reading("EnumInfo", v)
  /\ p.struct_parse = IF v.at = "ItemName" THEN 3 ELSE IF v.at = "ItemType" THEN 4
                      ELSE IF v.at \in {"ItemBitSize", "BitOffs"} THEN 5
                      ELSE IF v.at \in ItemPlaces THEN 2
                      ELSE IF "SubItem" \in v.seen THEN 1 ELSE 0
  /\ p.fb_parse = ("FbInfo" \in v.seen)
  /\ p.opc_cur = IF OpcLevel(v.at) = 0 THEN "none"
                 ELSE IF v.at \in ItemPlaces THEN "SubItem" ELSE "DataType"
  /\ p.opc_parse = OpcLevel(v.at)
TypeRead(p, v) ==
  /\ p.rec["Name"] = v.text["TypeName"] /\ p.rec["Type"] = v.text["TypeType"]
  /\ IF v.at = "TypeBitSize" THEN p.data = v.text["TypeBitSize"]
     ELSE p.rec["BitSize"] = v.text["TypeBitSize"]
ArrayRead(p, v) == v.at \in {"ArrayInfo"} \cup BoundFields =>
  \A n \in BoundFields : IF v.at = n THEN p.array_data = v.text[n]
                         ELSE p.array_bounds[n] = v.text[n]
EnumRead(p, v) == v.at \in {"EnumInfo", "Comment"} \cup EnumFields =>
  \A n \in EnumFields : IF v.at = n THEN p.enum_data = v.text[n]
                        ELSE p.enum_element[n] = v.text[n]
ItemRead(p, v) == v.at \in ItemPlaces =>
  /\ p.struct_element["Name"] = v.text["ItemName"]
  /\ p.struct_element["Type"] = v.text["ItemType"]
  /\ \A n \in {"BitSize", "BitOffs"} :
       IF v.at = ItemPart[n] THEN p.data = v.text[ItemPart[n]]
       ELSE p.struct_element[n] = v.text[ItemPart[n]]

(* A property, the name and the value in it.                               *)
PropertyRead(p, v, k, name, val) ==
  /\ v.at \in {k, val} => p.opc_prop["Name"] = v.value[name]
  /\ v.at \in {k, name} => p.opc_prop["Value"] = v.value[val]
  /\ v.at \in {name, val} =>
       /\ p.opc_data = v.value[v.at] /\ (p.opc_cdata <=> v.cdata \/ v.at \notin v.section)
KnowsSymbol(p, v) ==
  /\ SymbolLevels(p, v) /\ SymbolRead(p, v)
  /\ PropertyRead(p, v, "SymbolProperty", "SymbolPropertyName", "SymbolPropertyValue")
KnowsType(p, v) ==
  /\ TypeLevels(p, v) /\ TypeRead(p, v) /\ ArrayRead(p, v) /\ EnumRead(p, v) /\ ItemRead(p, v)
  /\ PropertyRead(p, v, "TypeProperty", "TypePropertyName", "TypePropertyValue")
  /\ PropertyRead(p, v, "ItemProperty", "ItemPropertyName", "ItemPropertyValue")

Knows(p, v) ==
  /\ IsInfo(p) /\ Whereabouts(p, v) /\ Shallow(v)
  /\ v.at \in AddressLeaves => p.data = v.text[v.at]
  /\ v.at \in TpySymbolPlaces => KnowsSymbol(p, v)
  /\ v.at \in TypePlaces => KnowsType(p, v)

\* The fields of parserinfo_type.
LEMMA InfoNames == InfoFields = {"sym", "rec", "name_parse", "type_parse", "number_parse",
  "opc_cur", "opc_prop", "opc_parse", "opc_data", "opc_cdata", "data", "array_parse",
  "array_data", "array_bounds", "enum_parse", "enum_data", "enum_element", "struct_parse",
  "struct_element", "fb_parse", "ignore", "projects", "routing", "compiler", "types",
  "symbols", "made"}
BY DEF InfoFields, Fresh, Outside

\* What changes when fields of parserinfo_type are set, and what does not.
Only(F, p, q) == IsOver(q, InfoFields) /\ \A f \in InfoFields \ F : q[f] = p[f]
PropertyPart(p, q, level) ==
  /\ IsInfo(q) /\ Only({"opc_parse", "opc_data", "opc_cdata"}, p, q)
  /\ q.opc_parse = level /\ q.opc_data = {} /\ q.opc_cdata = TRUE
\* What the parser does when the name or the value of a property starts.
LEMMA StartPropertyPart ==
  ASSUME NEW p, IsInfo(p), NEW level
  PROVE  PropertyPart(p, startPropertyPart(p, level), level)
<1> DEFINE q == startPropertyPart(p, level)
<1>1. q = [f \in InfoFields |-> IF f = "opc_parse" THEN level ELSE IF f = "opc_data" THEN {}
                                ELSE IF f = "opc_cdata" THEN TRUE ELSE p[f]]
  BY InfoNames DEF startPropertyPart, IsInfo, IsOver
<1> HIDE DEF q
<1>2. PropertyPart(p, q, level)
  BY <1>1, InfoNames DEF PropertyPart, Only, IsInfo, IsOver
<1> QED BY <1>2 DEF q

PropertyNew(p, q) ==
  /\ IsInfo(q) /\ Only({"opc_parse", "opc_prop"}, p, q)
  /\ q.opc_parse = 2 /\ q.opc_prop["Name"] = {} /\ q.opc_prop["Value"] = {}
\* What it does when a property starts.
LEMMA StartProperty ==
  ASSUME NEW p, IsInfo(p)
  PROVE  PropertyNew(p, startProperty(p))
<1> DEFINE q == startProperty(p)
<1>1. q = [f \in InfoFields |-> IF f = "opc_parse" THEN 2
                                ELSE IF f = "opc_prop" THEN Empty(PropertyFields) ELSE p[f]]
  BY InfoNames DEF startProperty, IsInfo, IsOver
<1> HIDE DEF q
<1>2. PropertyNew(p, q)
  BY <1>1, InfoNames DEF PropertyNew, Only, IsInfo, IsOver, Empty, PropertyFields
<1> QED BY <1>2 DEF q

NumberNew(p, q, n) ==
  /\ IsInfo(q) /\ Only({"number_parse", "data"}, p, q) /\ q.data = {}
  /\ q.number_parse[n] = 2 /\ \A m \in Numbers \ {n} : q.number_parse[m] = p.number_parse[m]
\* What it does when a number starts.
LEMMA StartNumber ==
  ASSUME NEW p, IsInfo(p), NEW n \in Numbers
  PROVE  NumberNew(p, [p EXCEPT !.number_parse[n] = 2, !.data = {}], n)
<1> DEFINE q == [p EXCEPT !.number_parse[n] = 2, !.data = {}]
<1>1. q = [f \in InfoFields |-> IF f = "number_parse" THEN [p["number_parse"] EXCEPT ![n] = 2]
                                ELSE IF f = "data" THEN {} ELSE p[f]]
  BY InfoNames DEF IsInfo, IsOver
<1> HIDE DEF q
<1>2. NumberNew(p, q, n)
  BY <1>1, InfoNames DEF NumberNew, Only, IsInfo, IsOver
<1> QED BY <1>2 DEF q

\* The places are those of an address, a symbol, a type or around them.
LEMMA TpyParts ==
  /\ AddressLeaves = {"NetId", "Port", "TargetName", "CompilerVersion", "TwinCATVersion",
                       "CpuFamily"}
  /\ AddressPlaces = {"AdsInfo", "CompilerInfo"} \cup AddressLeaves
  /\ AddressPlaces \cap (TpySymbolPlaces \cup TypePlaces) = {}
  /\ TpySymbolPlaces \cap TypePlaces = {}
  /\ \A k \in TpySymbolPlaces \cup TypePlaces :
       k \notin {Root, "RoutingInfo", "AdsInfo", "CompilerInfo", "Symbols", "DataTypes"}
BY DEF AddressLeaves, AddressPlaces, RoutingLevel, CompilerLevel, TpySymbolPlaces, TypePlaces,
       ItemPlaces, Root

(* What does not change while the parser stays in a symbol or a type.      *)
SameOutside(p, q) ==
  /\ IsInfo(q) /\ q.ignore = p.ignore /\ q.projects = p.projects /\ q.routing = p.routing
  /\ q.compiler = p.compiler /\ q.symbols = p.symbols /\ q.types = p.types

\* Then it takes itself to be where it is.
LEMMA StaysInside ==
  ASSUME NEW p, NEW q, NEW v, NEW w, Knows(p, v), SameOutside(p, q), v.deeper = 0, w.deeper = 0,
         \/ v.at \in TpySymbolPlaces /\ w.at \in TpySymbolPlaces
         \/ v.at \in TypePlaces \ {"FbInfo"} /\ w.at \in TypePlaces \ {"FbInfo"}
  PROVE  /\ Whereabouts(q, w) /\ Shallow(w) /\ w.at \notin AddressLeaves
         /\ p.ignore = 0 /\ p.projects = TRUE /\ p.routing = 0 /\ p.compiler = 0
         /\ v.at \in TpySymbolPlaces => p.symbols = 2 /\ p.types = 0
         /\ v.at \in TypePlaces => p.symbols = 0 /\ p.types = 2
<1>1. /\ v.at \notin DOMAIN RoutingLevel \cup DOMAIN CompilerLevel
      /\ w.at \notin DOMAIN RoutingLevel \cup DOMAIN CompilerLevel
      /\ w.at \notin AddressPlaces /\ v.at \notin AddressPlaces /\ w.at \notin AddressLeaves
  BY TpyParts DEF AddressLeaves
<1>2. /\ p.ignore = 0 /\ p.projects = TRUE /\ p.routing = 0 /\ p.compiler = 0
      /\ v.at \in TpySymbolPlaces => p.symbols = 2 /\ p.types = 0
      /\ v.at \in TypePlaces => p.symbols = 0 /\ p.types = 2
      /\ v.at # "FbInfo" /\ w.at # "FbInfo"
  BY <1>1, TpyParts DEF Knows, Whereabouts, TpySymbolPlaces
<1>3. Whereabouts(q, w)
  BY <1>1, <1>2, TpyParts DEF Whereabouts, SameOutside
<1> QED BY <1>1, <1>2, <1>3 DEF Shallow

(* In a symbol and in a type the section elements do not occur.            *)
SectionTags == {"PlcProjectInfo", "RoutingInfo", "AdsInfo", "CompilerInfo", "Symbols", "Symbol",
                "DataTypes", "DataType"}

\* What starts in a symbol or a type is left to the part of the callback for it.
LEMMA StartedInside ==
  ASSUME NEW p, NEW n, n \notin SectionTags, p.ignore = 0, p.routing = 0, p.compiler = 0
  PROVE  /\ p.symbols = 2 => startElement(p, n) = startInSymbol(p, n)
         /\ p.symbols = 0 /\ p.types = 2 => startElement(p, n) = startInType(p, n)
BY DEF startElement, verytop, outside, SectionTags

\* So is what ends there.
LEMMA EndedInside ==
  ASSUME NEW p, NEW n, n \notin SectionTags, p.ignore = 0, p.routing = 0, p.compiler = 0
  PROVE  /\ p.symbols = 2 => endElement(p, n) = endInSymbol(p, n)
         /\ p.symbols = 0 /\ p.types = 2 => endElement(p, n) = endInType(p, n)
BY DEF endElement, SectionTags

\* An element starts in a symbol.
LEMMA StartsInSymbol ==
  ASSUME NEW p, NEW v, NEW w, NEW n, NEW c, IsView(v), ~v.cdata, ~w.cdata, Knows(p, v),
         StartsPlace(v, w, n, c), v.at \in TpySymbolPlaces
  PROVE  Knows(startElement(p, n), w) /\ startElement(p, n).made = p.made
<1>1. /\ w.at = c /\ v.deeper = 0 /\ w.deeper = 0 /\ tpyUp[c] = v.at /\ tpyOwn[c] = n
      /\ w.seen = v.seen \cup {c} /\ (c \in TpyLeaves => c \notin v.seen)
      /\ w.text = v.text /\ w.value = v.value /\ w.section = v.section
      /\ c \in TpyPlaces \ {Root}
  BY DEF StartsPlace, SameText
<1>2. /\ c \in TpySymbolPlaces \ {"Symbol"} /\ n \notin SectionTags
      /\ c \in {"SymbolName", "SymbolType", "IGroup", "IOffset", "SymbolBitSize"} => v.at = "Symbol"
      /\ c = "SymbolProperties" => v.at = "Symbol"
      /\ c = "SymbolProperty" => v.at = "SymbolProperties"
      /\ c \in {"SymbolPropertyName", "SymbolPropertyValue"} => v.at = "SymbolProperty"
  BY <1>1, TpyUpsAre, TpyOwnsAre, TpyPlacesAre DEF TpySymbolPlaces, SectionTags, Root
<1>3. /\ p.ignore = 0 /\ p.routing = 0 /\ p.compiler = 0 /\ p.symbols = 2
      /\ IsInfo(p) /\ SymbolLevels(p, v) /\ SymbolRead(p, v)
      /\ PropertyRead(p, v, "SymbolProperty", "SymbolPropertyName", "SymbolPropertyValue")
  <2>1. SameOutside(p, p)
    BY DEF SameOutside, Knows
  <2> QED BY <1>1, <1>2, <2>1, StaysInside DEF Knows, KnowsSymbol
<1>4. PICK q : q = startInSymbol(p, n)
  OBVIOUS
<1>5. startElement(p, n) = q
  BY <1>2, <1>3, <1>4, StartedInside
<1>6. SUFFICES /\ SameOutside(p, q) /\ q.made = p.made /\ SymbolLevels(q, w) /\ SymbolRead(q, w)
               /\ PropertyRead(q, w, "SymbolProperty", "SymbolPropertyName", "SymbolPropertyValue")
  <2>1. Whereabouts(q, w) /\ Shallow(w) /\ w.at \notin AddressLeaves
    BY <1>1, <1>2, <1>6, StaysInside
  <2> QED BY <1>1, <1>2, <1>5, <1>6, <2>1, TpyParts
          DEF Knows, SameOutside, KnowsSymbol
<1>7. CASE c \in {"SymbolName", "SymbolType"}
  <2>1. c \notin v.seen
    BY <1>1, <1>7, TpyOwnsAre, TpyElementsAre DEF TpyLeaves
  <2>2. CASE c = "SymbolName"
    <3>1. n = "Name" /\ q = [p EXCEPT !.name_parse = 2]
      BY <1>1, <1>2, <1>3, <1>4, <2>1, <2>2, TpyOwnsAre
         DEF startInSymbol, SymbolLevels, Reading, OpcLevel, Numbers
    <3> QED BY <1>1, <1>2, <1>3, <2>2, <3>1, InfoNames
            DEF SameOutside, IsInfo, IsOver, SymbolLevels, SymbolRead, PropertyRead, Reading, OpcLevel,
                Numbers, SymbolPart
  <2>3. CASE c = "SymbolType"
    <3>1. n = "Type" /\ q = [p EXCEPT !.type_parse = 2]
      BY <1>1, <1>2, <1>3, <1>4, <2>1, <2>3, TpyOwnsAre
         DEF startInSymbol, SymbolLevels, Reading, OpcLevel, Numbers
    <3> QED BY <1>1, <1>2, <1>3, <2>3, <3>1, InfoNames
            DEF SameOutside, IsInfo, IsOver, SymbolLevels, SymbolRead, PropertyRead, Reading, OpcLevel,
                Numbers, SymbolPart
  <2> QED BY <1>7, <2>2, <2>3
<1>8. CASE c \in {"IGroup", "IOffset", "SymbolBitSize"}
  <2>1. c \notin v.seen /\ n \in Numbers /\ SymbolPart[n] = c
    BY <1>1, <1>8, TpyOwnsAre, TpyElementsAre DEF TpyLeaves, Numbers, SymbolPart
  <2>2. q = [p EXCEPT !.number_parse[n] = 2, !.data = {}]
    BY <1>1, <1>2, <1>3, <1>4, <1>8, <2>1, TpyOwnsAre
       DEF startInSymbol, SymbolLevels, Reading, OpcLevel, Numbers
  <2>3. NumberNew(p, q, n) /\ v.text[c] = {}
    BY <1>1, <1>3, <2>1, <2>2, StartNumber DEF IsView
  <2> QED BY <1>1, <1>2, <1>3, <1>8, <2>1, <2>3, InfoNames
          DEF NumberNew, SameOutside, Only, SymbolLevels, SymbolRead, PropertyRead, Reading, OpcLevel,
              Numbers,
               SymbolPart
<1>9. CASE c = "SymbolProperties"
  <2>1. q = [p EXCEPT !.opc_parse = 1]
    BY <1>1, <1>2, <1>3, <1>4, <1>9, TpyOwnsAre
       DEF startInSymbol, SymbolLevels, Reading, OpcLevel, Numbers
  <2> QED BY <1>1, <1>2, <1>3, <1>9, <2>1, InfoNames
            DEF SameOutside, IsInfo, IsOver, SymbolLevels, SymbolRead, PropertyRead, Reading, OpcLevel,
                Numbers, SymbolPart
<1>10. CASE c = "SymbolProperty"
  <2>1. q = startProperty(p)
    BY <1>1, <1>2, <1>3, <1>4, <1>10, TpyOwnsAre
       DEF startInSymbol, SymbolLevels, Reading, OpcLevel, Numbers
  <2>2. v.value["SymbolPropertyName"] = {} /\ v.value["SymbolPropertyValue"] = {}
    BY <1>1, <1>2, <1>10, TpyDepthsAre, TpyPlacesAre DEF IsView
  <2>3. PropertyNew(p, q)
    BY <1>3, <2>1, StartProperty
  <2> QED BY <1>1, <1>2, <1>3, <1>10, <2>2, <2>3, InfoNames
          DEF PropertyNew, SameOutside, Only, SymbolLevels, SymbolRead, PropertyRead, Reading, OpcLevel,
              Numbers,
               SymbolPart
<1>11. CASE c \in {"SymbolPropertyName", "SymbolPropertyValue"}
  <2>1. v.value[c] = {} /\ c \notin v.section
    BY <1>1, <1>11, TpyOwnsAre, TpyElementsAre DEF TpyLeaves, IsView
  <2>2. q = startPropertyPart(p, OpcLevel(c))
    <3>1. CASE c = "SymbolPropertyName"
      BY <1>1, <1>2, <1>3, <1>4, <3>1, TpyOwnsAre
         DEF startInSymbol, SymbolLevels, Reading, OpcLevel, Numbers
    <3>2. CASE c = "SymbolPropertyValue"
      BY <1>1, <1>2, <1>3, <1>4, <3>2, TpyOwnsAre
         DEF startInSymbol, SymbolLevels, Reading, OpcLevel, Numbers
    <3> QED BY <1>11, <3>1, <3>2
  <2>3. PropertyPart(p, q, OpcLevel(c))
    BY <1>3, <2>2, StartPropertyPart
  <2> QED BY <1>1, <1>2, <1>3, <1>11, <2>1, <2>3, InfoNames
          DEF PropertyPart, SameOutside, Only, SymbolLevels, SymbolRead, PropertyRead, Reading, OpcLevel,
              Numbers,
               SymbolPart
<1> QED BY <1>2, <1>7, <1>8, <1>9, <1>10, <1>11 DEF TpySymbolPlaces

\* An element starts in a type.
LEMMA StartsInType ==
  ASSUME NEW p, NEW v, NEW w, NEW n, NEW c, IsView(v), ~v.cdata, ~w.cdata, Knows(p, v),
         StartsPlace(v, w, n, c), v.at \in TypePlaces
  PROVE  Knows(startElement(p, n), w) /\ startElement(p, n).made = p.made
<1>1. /\ w.at = c /\ v.deeper = 0 /\ w.deeper = 0 /\ tpyUp[c] = v.at /\ tpyOwn[c] = n
      /\ w.seen = v.seen \cup {c} /\ (c \in TpyLeaves => c \notin v.seen)
      /\ w.text = v.text /\ w.value = v.value /\ w.section = v.section
      /\ c \in TpyPlaces \ {Root}
  BY DEF StartsPlace, SameText
<1>2. /\ c \in TypePlaces \ {"DataType"} /\ n \notin SectionTags /\ v.at # "FbInfo"
      /\ c \in {"TypeName", "TypeType", "TypeBitSize", "ArrayInfo", "EnumInfo", "SubItem",
                "FbInfo", "TypeProperties"} => v.at = "DataType"
      /\ c \in BoundFields => v.at = "ArrayInfo"
      /\ c \in {"Enum", "Text", "Comment"} => v.at = "EnumInfo"
      /\ c \in {"ItemName", "ItemType", "ItemBitSize", "BitOffs", "ItemProperties"} =>
           v.at = "SubItem"
      /\ c = "ItemProperty" => v.at = "ItemProperties"
      /\ c \in {"ItemPropertyName", "ItemPropertyValue"} => v.at = "ItemProperty"
      /\ c = "TypeProperty" => v.at = "TypeProperties"
      /\ c \in {"TypePropertyName", "TypePropertyValue"} => v.at = "TypeProperty"
  BY <1>1, TpyUpsAre, TpyOwnsAre, TpyPlacesAre
     DEF TypePlaces, ItemPlaces, SectionTags, Root, BoundFields
<1>3. /\ p.ignore = 0 /\ p.routing = 0 /\ p.compiler = 0 /\ p.symbols = 0 /\ p.types = 2
      /\ IsInfo(p) /\ KnowsType(p, v) /\ p.projects = TRUE
  <2>1. SameOutside(p, p)
    BY DEF SameOutside, Knows
  <2>2. v.at \notin TpySymbolPlaces
    BY TpyParts
  <2>3. /\ IsInfo(p) /\ KnowsType(p, v)
    BY DEF Knows
  <2>4. Whereabouts(p, v)
    BY DEF Knows
  <2> QED BY <1>1, <1>2, <2>2, <2>3, <2>4, TpyParts DEF Whereabouts, AddressLeaves
<1>4. PICK q : q = startInType(p, n)
  OBVIOUS
<1>5. startElement(p, n) = q
  BY <1>2, <1>3, <1>4, StartedInside
<1>6. ASSUME c # "FbInfo", SameOutside(p, q), q.made = p.made, KnowsType(q, w)
      PROVE  Knows(startElement(p, n), w) /\ startElement(p, n).made = p.made
  <2>1. Whereabouts(q, w) /\ Shallow(w) /\ w.at \notin AddressLeaves
    BY <1>1, <1>2, <1>6, StaysInside
  <2> QED BY <1>1, <1>2, <1>5, <1>6, <2>1, TpyParts DEF Knows, SameOutside
<1>7. CASE c = "TypeName"
  <2>1. c \notin v.seen
    BY <1>1, <1>7, TpyOwnsAre, TpyElementsAre DEF TpyLeaves
  <2>2. n = "Name" /\ p.name_parse = 0 /\ p.struct_parse \in {0, 1} /\ p.opc_cur = "none"
    BY <1>1, <1>2, <1>3, <1>7, <2>1, TpyOwnsAre
       DEF KnowsType, TypeLevels, Reading, OpcLevel, ItemPlaces, BoundFields
  <2>3. q = [p EXCEPT !.name_parse = 2]
    BY <1>4, <2>2 DEF startInType, BoundFields
  <2>4. q = [f \in InfoFields |-> IF f = "name_parse" THEN 2 ELSE p[f]]
    BY <1>3, <2>3, InfoNames DEF IsInfo, IsOver
  <2>5. SameOutside(p, q) /\ q.made = p.made
    BY <1>3, <2>4, InfoNames DEF SameOutside, IsInfo, IsOver, Empty
  <2>6. KnowsType(q, w)
    BY <1>1, <1>2, <1>3, <1>7, <2>1, <2>4, InfoNames
       DEF KnowsType, TypeLevels, TypeRead, ArrayRead, EnumRead, ItemRead, PropertyRead, Reading,
           OpcLevel, ItemPlaces, BoundFields, EnumFields
  <2> QED BY <1>6, <1>7, <2>5, <2>6
<1>8. CASE c = "TypeType"
  <2>1. c \notin v.seen
    BY <1>1, <1>8, TpyOwnsAre, TpyElementsAre DEF TpyLeaves
  <2>2. n = "Type" /\ p.type_parse = 0 /\ p.struct_parse \in {0, 1}
    BY <1>1, <1>2, <1>3, <1>8, <2>1, TpyOwnsAre
       DEF KnowsType, TypeLevels, Reading, OpcLevel, ItemPlaces, BoundFields
  <2>3. q = [p EXCEPT !.type_parse = 2]
    BY <1>4, <2>2 DEF startInType, BoundFields
  <2>4. q = [f \in InfoFields |-> IF f = "type_parse" THEN 2 ELSE p[f]]
    BY <1>3, <2>3, InfoNames DEF IsInfo, IsOver
  <2>5. SameOutside(p, q) /\ q.made = p.made
    BY <1>3, <2>4, InfoNames DEF SameOutside, IsInfo, IsOver, Empty
  <2>6. KnowsType(q, w)
    BY <1>1, <1>2, <1>3, <1>8, <2>1, <2>4, InfoNames
       DEF KnowsType, TypeLevels, TypeRead, ArrayRead, EnumRead, ItemRead, PropertyRead, Reading,
           OpcLevel, ItemPlaces, BoundFields, EnumFields
  <2> QED BY <1>6, <1>8, <2>5, <2>6
<1>9. CASE c = "TypeBitSize"
  <2>1. c \notin v.seen /\ v.text[c] = {}
    BY <1>1, <1>9, TpyOwnsAre, TpyElementsAre DEF TpyLeaves, IsView
  <2>2. n = "BitSize" /\ p.number_parse[n] = 0 /\ p.struct_parse \in {0, 1}
    BY <1>1, <1>2, <1>3, <1>9, <2>1, TpyOwnsAre
       DEF KnowsType, TypeLevels, Reading, OpcLevel, ItemPlaces, BoundFields
  <2>3. q = [p EXCEPT !.number_parse["BitSize"] = 2, !.data = {}]
    BY <1>4, <2>2 DEF startInType, BoundFields
  <2>4. q = [f \in InfoFields |-> IF f = "number_parse" THEN [p["number_parse"] EXCEPT !["BitSize"] = 2]
                                  ELSE IF f = "data" THEN {} ELSE p[f]]
    BY <1>3, <2>3, InfoNames DEF IsInfo, IsOver
  <2>5. SameOutside(p, q) /\ q.made = p.made
    BY <1>3, <2>4, InfoNames DEF SameOutside, IsInfo, IsOver, Empty
  <2>6. KnowsType(q, w)
    BY <1>1, <1>2, <1>3, <1>9, <2>1, <2>4, InfoNames
       DEF KnowsType, TypeLevels, TypeRead, ArrayRead, EnumRead, ItemRead, PropertyRead, Reading,
           OpcLevel, ItemPlaces, BoundFields, EnumFields, IsInfo, IsOver, Numbers
  <2> QED BY <1>6, <1>9, <2>5, <2>6
<1>10. CASE c = "ArrayInfo"
  <2>1. \A k \in BoundFields : v.text[k] = {}
    BY <1>1, <1>2, <1>10, TpyDepthsAre, TpyPlacesAre DEF IsView, BoundFields
  <2>2. q = [p EXCEPT !.array_parse = 2, !.array_bounds = Empty(BoundFields)]
    <3>1. n = "ArrayInfo"
      BY <1>1, <1>10, TpyOwnsAre
    <3> QED BY <1>4, <3>1 DEF startInType, BoundFields
  <2>3. q = [f \in InfoFields |-> IF f = "array_parse" THEN 2
                                  ELSE IF f = "array_bounds" THEN Empty(BoundFields) ELSE p[f]]
    BY <1>3, <2>2, InfoNames DEF IsInfo, IsOver
  <2>4. SameOutside(p, q) /\ q.made = p.made
    BY <1>3, <2>3, InfoNames DEF SameOutside, IsInfo, IsOver, Empty
  <2>5. KnowsType(q, w)
    BY <1>1, <1>2, <1>3, <1>10, <2>1, <2>3, InfoNames
       DEF KnowsType, TypeLevels, TypeRead, ArrayRead, EnumRead, ItemRead, PropertyRead, Reading,
           OpcLevel, ItemPlaces, BoundFields, EnumFields, Empty
  <2> QED BY <1>6, <1>10, <2>4, <2>5
<1>11. CASE c \in BoundFields
  <2>1. n = c
    BY <1>1, <1>11, TpyOwnsAre DEF BoundFields
  <2>2. c \notin v.seen /\ v.text[c] = {}
    BY <1>1, <1>11, TpyOwnsAre, TpyElementsAre DEF TpyLeaves, IsView, BoundFields
  <2>3. q = [p EXCEPT !.array_parse = 3, !.array_data = {}]
    <3>1. v.at = "ArrayInfo"
      BY <1>1, <1>11, TpyUpsAre DEF BoundFields
    <3>2. p.array_parse = 2
      BY <1>3, <3>1 DEF KnowsType, TypeLevels, Reading, BoundFields
    <3> QED BY <1>4, <1>11, <2>1, <3>2 DEF startInType, BoundFields
  <2>4. q = [f \in InfoFields |-> IF f = "array_parse" THEN 3 ELSE IF f = "array_data" THEN {} ELSE p[f]]
    BY <1>3, <2>3, InfoNames DEF IsInfo, IsOver
  <2>5. SameOutside(p, q) /\ q.made = p.made
    BY <1>3, <2>4, InfoNames DEF SameOutside, IsInfo, IsOver, Empty
  <2>6. KnowsType(q, w)
    BY <1>1, <1>2, <1>3, <1>11, <2>1, <2>2, <2>4, InfoNames
       DEF KnowsType, TypeLevels, TypeRead, ArrayRead, EnumRead, ItemRead, PropertyRead, Reading,
           OpcLevel, ItemPlaces, BoundFields, EnumFields
  <2> QED BY <1>6, <1>11, <2>5, <2>6 DEF BoundFields
<1>12. CASE c = "EnumInfo"
  <2>1. \A k \in EnumFields : v.text[k] = {}
    BY <1>1, <1>2, <1>12, TpyDepthsAre, TpyPlacesAre DEF IsView, EnumFields
  <2>2. q = [p EXCEPT !.enum_parse = 2, !.enum_element = Empty(EnumFields)]
    <3>1. n = "EnumInfo"
      BY <1>1, <1>12, TpyOwnsAre
    <3> QED BY <1>4, <3>1 DEF startInType, BoundFields
  <2>3. q = [f \in InfoFields |-> IF f = "enum_parse" THEN 2
                                  ELSE IF f = "enum_element" THEN Empty(EnumFields) ELSE p[f]]
    BY <1>3, <2>2, InfoNames DEF IsInfo, IsOver
  <2>4. SameOutside(p, q) /\ q.made = p.made
    BY <1>3, <2>3, InfoNames DEF SameOutside, IsInfo, IsOver, Empty
  <2>5. KnowsType(q, w)
    BY <1>1, <1>2, <1>3, <1>12, <2>1, <2>3, InfoNames
       DEF KnowsType, TypeLevels, TypeRead, ArrayRead, EnumRead, ItemRead, PropertyRead, Reading,
           OpcLevel, ItemPlaces, BoundFields, EnumFields, Empty
  <2> QED BY <1>6, <1>12, <2>4, <2>5
<1>13. CASE c \in {"Enum", "Text", "Comment"}
  <2>1. n = c
    BY <1>1, <1>13, TpyOwnsAre
  <2>2. c \notin v.seen /\ v.text[c] = {}
    BY <1>1, <1>13, TpyOwnsAre, TpyElementsAre DEF TpyLeaves, IsView
  <2>3. q = [p EXCEPT !.enum_parse = 3, !.enum_data = {}]
    <3>1. v.at = "EnumInfo"
      BY <1>1, <1>13, TpyUpsAre
    <3>2. p.enum_parse = 2
      BY <1>3, <3>1 DEF KnowsType, TypeLevels, Reading, BoundFields
    <3> QED BY <1>4, <1>13, <2>1, <3>2 DEF startInType, BoundFields
  <2>4. q = [f \in InfoFields |-> IF f = "enum_parse" THEN 3 ELSE IF f = "enum_data" THEN {} ELSE p[f]]
    BY <1>3, <2>3, InfoNames DEF IsInfo, IsOver
  <2>5. SameOutside(p, q) /\ q.made = p.made
    BY <1>3, <2>4, InfoNames DEF SameOutside, IsInfo, IsOver, Empty
  <2>6. KnowsType(q, w)
    BY <1>1, <1>2, <1>3, <1>13, <2>1, <2>2, <2>4, InfoNames
       DEF KnowsType, TypeLevels, TypeRead, ArrayRead, EnumRead, ItemRead, PropertyRead, Reading,
           OpcLevel, ItemPlaces, BoundFields, EnumFields
  <2> QED BY <1>6, <1>13, <2>5, <2>6
<1>14. CASE c = "SubItem"
  <2>1. \A k \in ItemFields : v.text[ItemPart[k]] = {}
    BY <1>1, <1>2, <1>14, TpyDepthsAre, TpyPlacesAre DEF IsView, ItemFields, ItemPart
  <2>2. q = [p EXCEPT !.struct_parse = 2, !.struct_element = Empty(ItemFields)]
    <3>1. n = "SubItem"
      BY <1>1, <1>14, TpyOwnsAre
    <3> QED BY <1>4, <3>1 DEF startInType, BoundFields
  <2>3. q = [f \in InfoFields |-> IF f = "struct_parse" THEN 2
                                  ELSE IF f = "struct_element" THEN Empty(ItemFields) ELSE p[f]]
    BY <1>3, <2>2, InfoNames DEF IsInfo, IsOver
  <2>4. SameOutside(p, q) /\ q.made = p.made
    BY <1>3, <2>3, InfoNames DEF SameOutside, IsInfo, IsOver, Empty
  <2>5. KnowsType(q, w)
    BY <1>1, <1>2, <1>3, <1>14, <2>1, <2>3, InfoNames
       DEF KnowsType, TypeLevels, TypeRead, ArrayRead, EnumRead, ItemRead, PropertyRead, Reading,
           OpcLevel, ItemPlaces, BoundFields, EnumFields, Empty, ItemFields, ItemPart
  <2> QED BY <1>6, <1>14, <2>4, <2>5
<1>15. CASE c = "ItemName"
  <2>1. n = "Name" /\ p.struct_parse = 2 /\ p.opc_cur = "none"
    BY <1>1, <1>2, <1>3, <1>15, TpyOwnsAre
       DEF KnowsType, TypeLevels, Reading, OpcLevel, ItemPlaces, BoundFields
  <2>2. q = [p EXCEPT !.struct_parse = 3]
    BY <1>4, <2>1 DEF startInType, BoundFields
  <2>3. q = [f \in InfoFields |-> IF f = "struct_parse" THEN 3 ELSE p[f]]
    BY <1>3, <2>2, InfoNames DEF IsInfo, IsOver
  <2>4. SameOutside(p, q) /\ q.made = p.made
    BY <1>3, <2>3, InfoNames DEF SameOutside, IsInfo, IsOver, Empty
  <2>5. KnowsType(q, w)
    BY <1>1, <1>2, <1>3, <1>15, <2>3, InfoNames
       DEF KnowsType, TypeLevels, TypeRead, ArrayRead, EnumRead, ItemRead, PropertyRead, Reading,
           OpcLevel, ItemPlaces, BoundFields, EnumFields, ItemPart
  <2> QED BY <1>6, <1>15, <2>4, <2>5
<1>16. CASE c = "ItemType"
  <2>1. n = "Type" /\ p.struct_parse = 2 /\ p.opc_cur = "none"
    BY <1>1, <1>2, <1>3, <1>16, TpyOwnsAre
       DEF KnowsType, TypeLevels, Reading, OpcLevel, ItemPlaces, BoundFields
  <2>2. q = [p EXCEPT !.struct_parse = 4]
    BY <1>4, <2>1 DEF startInType, BoundFields
  <2>3. q = [f \in InfoFields |-> IF f = "struct_parse" THEN 4 ELSE p[f]]
    BY <1>3, <2>2, InfoNames DEF IsInfo, IsOver
  <2>4. SameOutside(p, q) /\ q.made = p.made
    BY <1>3, <2>3, InfoNames DEF SameOutside, IsInfo, IsOver, Empty
  <2>5. KnowsType(q, w)
    BY <1>1, <1>2, <1>3, <1>16, <2>3, InfoNames
       DEF KnowsType, TypeLevels, TypeRead, ArrayRead, EnumRead, ItemRead, PropertyRead, Reading,
           OpcLevel, ItemPlaces, BoundFields, EnumFields, ItemPart
  <2> QED BY <1>6, <1>16, <2>4, <2>5
<1>17. CASE c \in {"ItemBitSize", "BitOffs"}
  <2>1. c \notin v.seen /\ v.text[c] = {}
    BY <1>1, <1>17, TpyOwnsAre, TpyElementsAre DEF TpyLeaves, IsView
  <2>2. n \in {"BitSize", "BitOffs"} /\ p.struct_parse = 2 /\ p.opc_cur = "none"
    BY <1>1, <1>2, <1>3, <1>17, <2>1, TpyOwnsAre
       DEF KnowsType, TypeLevels, Reading, OpcLevel, ItemPlaces, BoundFields
  <2>3. q = [p EXCEPT !.struct_parse = 5, !.data = {}]
    BY <1>4, <2>2 DEF startInType, BoundFields
  <2>4. q = [f \in InfoFields |-> IF f = "struct_parse" THEN 5 ELSE IF f = "data" THEN {} ELSE p[f]]
    BY <1>3, <2>3, InfoNames DEF IsInfo, IsOver
  <2>5. SameOutside(p, q) /\ q.made = p.made
    BY <1>3, <2>4, InfoNames DEF SameOutside, IsInfo, IsOver, Empty
  <2>6. KnowsType(q, w)
    BY <1>1, <1>2, <1>3, <1>17, <2>1, <2>4, InfoNames
       DEF KnowsType, TypeLevels, TypeRead, ArrayRead, EnumRead, ItemRead, PropertyRead, Reading,
           OpcLevel, ItemPlaces, BoundFields, EnumFields, ItemPart
  <2> QED BY <1>6, <1>17, <2>5, <2>6
<1>18. CASE c = "TypeProperties"
  <2>1. /\ n = "Properties" /\ p.opc_cur = "none" /\ p.name_parse \in {0, 1}
        /\ p.type_parse \in {0, 1} /\ p.array_parse \in {0, 1} /\ p.enum_parse \in {0, 1}
        /\ p.struct_parse \in {0, 1}
    BY <1>1, <1>2, <1>3, <1>18, TpyOwnsAre
       DEF KnowsType, TypeLevels, Reading, OpcLevel, ItemPlaces, BoundFields
  <2>2. q = [p EXCEPT !.opc_parse = 1,
                      !.opc_cur = IF p.struct_parse = 2 THEN "SubItem" ELSE "DataType"]
    BY <1>4, <2>1 DEF startInType, BoundFields
  <2>3. q = [f \in InfoFields |-> IF f = "opc_parse" THEN 1
                                  ELSE IF f = "opc_cur" THEN (IF p.struct_parse = 2 THEN "SubItem"
                                  ELSE "DataType") ELSE p[f]]
    BY <1>3, <2>2, InfoNames DEF IsInfo, IsOver
  <2>4. SameOutside(p, q) /\ q.made = p.made
    BY <1>3, <2>3, InfoNames DEF SameOutside, IsInfo, IsOver, Empty
  <2>5. KnowsType(q, w)
    BY <1>1, <1>2, <1>3, <1>18, <2>1, <2>3, InfoNames
       DEF KnowsType, TypeLevels, TypeRead, ArrayRead, EnumRead, ItemRead, PropertyRead, Reading,
           OpcLevel, ItemPlaces, BoundFields, EnumFields
  <2> QED BY <1>6, <1>18, <2>4, <2>5
<1>19. CASE c = "ItemProperties"
  <2>1. /\ n = "Properties" /\ p.opc_cur = "none" /\ p.name_parse \in {0, 1}
        /\ p.type_parse \in {0, 1} /\ p.array_parse \in {0, 1} /\ p.enum_parse \in {0, 1}
        /\ p.struct_parse \in {2}
    BY <1>1, <1>2, <1>3, <1>19, TpyOwnsAre
       DEF KnowsType, TypeLevels, Reading, OpcLevel, ItemPlaces, BoundFields
  <2>2. q = [p EXCEPT !.opc_parse = 1,
                      !.opc_cur = IF p.struct_parse = 2 THEN "SubItem" ELSE "DataType"]
    BY <1>4, <2>1 DEF startInType, BoundFields
  <2>3. q = [f \in InfoFields |-> IF f = "opc_parse" THEN 1
                                  ELSE IF f = "opc_cur" THEN (IF p.struct_parse = 2 THEN "SubItem"
                                  ELSE "DataType") ELSE p[f]]
    BY <1>3, <2>2, InfoNames DEF IsInfo, IsOver
  <2>4. SameOutside(p, q) /\ q.made = p.made
    BY <1>3, <2>3, InfoNames DEF SameOutside, IsInfo, IsOver, Empty
  <2>5. KnowsType(q, w)
    BY <1>1, <1>2, <1>3, <1>19, <2>1, <2>3, InfoNames
       DEF KnowsType, TypeLevels, TypeRead, ArrayRead, EnumRead, ItemRead, PropertyRead, Reading,
           OpcLevel, ItemPlaces, BoundFields, EnumFields, ItemPart
  <2> QED BY <1>6, <1>19, <2>4, <2>5
<1>20. CASE c = "TypeProperty"
  <2>1. v.value["TypePropertyName"] = {} /\ v.value["TypePropertyValue"] = {}
    BY <1>1, <1>2, <1>20, TpyDepthsAre, TpyPlacesAre DEF IsView
  <2>2. n = "Property" /\ p.opc_cur # "none" /\ p.opc_parse = 1
    BY <1>1, <1>2, <1>3, <1>20, <2>1, TpyOwnsAre
       DEF KnowsType, TypeLevels, Reading, OpcLevel, ItemPlaces, BoundFields
  <2>3. q = [p EXCEPT !.opc_parse = 2, !.opc_prop = Empty(PropertyFields)]
    BY <1>4, <2>2 DEF startInType, BoundFields, startProperty
  <2>4. q = [f \in InfoFields |-> IF f = "opc_parse" THEN 2
                                  ELSE IF f = "opc_prop" THEN Empty(PropertyFields) ELSE p[f]]
    BY <1>3, <2>3, InfoNames DEF IsInfo, IsOver
  <2>5. SameOutside(p, q) /\ q.made = p.made
    BY <1>3, <2>4, InfoNames DEF SameOutside, IsInfo, IsOver, Empty
  <2>6. KnowsType(q, w)
    BY <1>1, <1>2, <1>3, <1>20, <2>1, <2>4, InfoNames
       DEF KnowsType, TypeLevels, TypeRead, ArrayRead, EnumRead, ItemRead, PropertyRead, Reading,
           OpcLevel, ItemPlaces, BoundFields, EnumFields, ItemPart, Empty, PropertyFields
  <2> QED BY <1>6, <1>20, <2>5, <2>6
<1>21. CASE c = "ItemProperty"
  <2>1. v.value["ItemPropertyName"] = {} /\ v.value["ItemPropertyValue"] = {}
    BY <1>1, <1>2, <1>21, TpyDepthsAre, TpyPlacesAre DEF IsView
  <2>2. n = "Property" /\ p.opc_cur # "none" /\ p.opc_parse = 1
    BY <1>1, <1>2, <1>3, <1>21, <2>1, TpyOwnsAre
       DEF KnowsType, TypeLevels, Reading, OpcLevel, ItemPlaces, BoundFields
  <2>3. q = [p EXCEPT !.opc_parse = 2, !.opc_prop = Empty(PropertyFields)]
    BY <1>4, <2>2 DEF startInType, BoundFields, startProperty
  <2>4. q = [f \in InfoFields |-> IF f = "opc_parse" THEN 2
                                  ELSE IF f = "opc_prop" THEN Empty(PropertyFields) ELSE p[f]]
    BY <1>3, <2>3, InfoNames DEF IsInfo, IsOver
  <2>5. SameOutside(p, q) /\ q.made = p.made
    BY <1>3, <2>4, InfoNames DEF SameOutside, IsInfo, IsOver, Empty
  <2>6. KnowsType(q, w)
    BY <1>1, <1>2, <1>3, <1>21, <2>1, <2>4, InfoNames
       DEF KnowsType, TypeLevels, TypeRead, ArrayRead, EnumRead, ItemRead, PropertyRead, Reading,
           OpcLevel, ItemPlaces, BoundFields, EnumFields, ItemPart, Empty, PropertyFields
  <2> QED BY <1>6, <1>21, <2>5, <2>6
<1>22. CASE c = "TypePropertyName"
  <2>1. v.value[c] = {} /\ c \notin v.section
    BY <1>1, <1>22, TpyOwnsAre, TpyElementsAre DEF TpyLeaves, IsView
  <2>2. n = "Name" /\ p.opc_cur # "none" /\ p.opc_parse = 2
    BY <1>1, <1>2, <1>3, <1>22, <2>1, TpyOwnsAre
       DEF KnowsType, TypeLevels, Reading, OpcLevel, ItemPlaces, BoundFields
  <2>3. q = [p EXCEPT !.opc_parse = 3, !.opc_data = {}, !.opc_cdata = TRUE]
    BY <1>4, <2>2 DEF startInType, BoundFields, startPropertyPart
  <2>4. q = [f \in InfoFields |-> IF f = "opc_parse" THEN 3
                                  ELSE IF f = "opc_data" THEN {}
                                  ELSE IF f = "opc_cdata" THEN TRUE ELSE p[f]]
    BY <1>3, <2>3, InfoNames DEF IsInfo, IsOver
  <2>5. SameOutside(p, q) /\ q.made = p.made
    BY <1>3, <2>4, InfoNames DEF SameOutside, IsInfo, IsOver, Empty
  <2>6. KnowsType(q, w)
    BY <1>1, <1>2, <1>3, <1>22, <2>1, <2>4, InfoNames
       DEF KnowsType, TypeLevels, TypeRead, ArrayRead, EnumRead, ItemRead, PropertyRead, Reading,
           OpcLevel, ItemPlaces, BoundFields, EnumFields, ItemPart
  <2> QED BY <1>6, <1>22, <2>5, <2>6
<1>23. CASE c = "TypePropertyValue"
  <2>1. v.value[c] = {} /\ c \notin v.section
    BY <1>1, <1>23, TpyOwnsAre, TpyElementsAre DEF TpyLeaves, IsView
  <2>2. n = "Value" /\ p.opc_cur # "none" /\ p.opc_parse = 2
    BY <1>1, <1>2, <1>3, <1>23, <2>1, TpyOwnsAre
       DEF KnowsType, TypeLevels, Reading, OpcLevel, ItemPlaces, BoundFields
  <2>3. q = [p EXCEPT !.opc_parse = 4, !.opc_data = {}, !.opc_cdata = TRUE]
    BY <1>4, <2>2 DEF startInType, BoundFields, startPropertyPart
  <2>4. q = [f \in InfoFields |-> IF f = "opc_parse" THEN 4
                                  ELSE IF f = "opc_data" THEN {}
                                  ELSE IF f = "opc_cdata" THEN TRUE ELSE p[f]]
    BY <1>3, <2>3, InfoNames DEF IsInfo, IsOver
  <2>5. SameOutside(p, q) /\ q.made = p.made
    BY <1>3, <2>4, InfoNames DEF SameOutside, IsInfo, IsOver, Empty
  <2>6. KnowsType(q, w)
    BY <1>1, <1>2, <1>3, <1>23, <2>1, <2>4, InfoNames
       DEF KnowsType, TypeLevels, TypeRead, ArrayRead, EnumRead, ItemRead, PropertyRead, Reading,
           OpcLevel, ItemPlaces, BoundFields, EnumFields, ItemPart
  <2> QED BY <1>6, <1>23, <2>5, <2>6
<1>24. CASE c = "ItemPropertyName"
  <2>1. v.value[c] = {} /\ c \notin v.section
    BY <1>1, <1>24, TpyOwnsAre, TpyElementsAre DEF TpyLeaves, IsView
  <2>2. n = "Name" /\ p.opc_cur # "none" /\ p.opc_parse = 2
    BY <1>1, <1>2, <1>3, <1>24, <2>1, TpyOwnsAre
       DEF KnowsType, TypeLevels, Reading, OpcLevel, ItemPlaces, BoundFields
  <2>3. q = [p EXCEPT !.opc_parse = 3, !.opc_data = {}, !.opc_cdata = TRUE]
    BY <1>4, <2>2 DEF startInType, BoundFields, startPropertyPart
  <2>4. q = [f \in InfoFields |-> IF f = "opc_parse" THEN 3
                                  ELSE IF f = "opc_data" THEN {}
                                  ELSE IF f = "opc_cdata" THEN TRUE ELSE p[f]]
    BY <1>3, <2>3, InfoNames DEF IsInfo, IsOver
  <2>5. SameOutside(p, q) /\ q.made = p.made
    BY <1>3, <2>4, InfoNames DEF SameOutside, IsInfo, IsOver, Empty
  <2>6. KnowsType(q, w)
    BY <1>1, <1>2, <1>3, <1>24, <2>1, <2>4, InfoNames
       DEF KnowsType, TypeLevels, TypeRead, ArrayRead, EnumRead, ItemRead, PropertyRead, Reading,
           OpcLevel, ItemPlaces, BoundFields, EnumFields, ItemPart
  <2> QED BY <1>6, <1>24, <2>5, <2>6
<1>25. CASE c = "ItemPropertyValue"
  <2>1. v.value[c] = {} /\ c \notin v.section
    BY <1>1, <1>25, TpyOwnsAre, TpyElementsAre DEF TpyLeaves, IsView
  <2>2. n = "Value" /\ p.opc_cur # "none" /\ p.opc_parse = 2
    BY <1>1, <1>2, <1>3, <1>25, <2>1, TpyOwnsAre
       DEF KnowsType, TypeLevels, Reading, OpcLevel, ItemPlaces, BoundFields
  <2>3. q = [p EXCEPT !.opc_parse = 4, !.opc_data = {}, !.opc_cdata = TRUE]
    BY <1>4, <2>2 DEF startInType, BoundFields, startPropertyPart
  <2>4. q = [f \in InfoFields |-> IF f = "opc_parse" THEN 4
                                  ELSE IF f = "opc_data" THEN {}
                                  ELSE IF f = "opc_cdata" THEN TRUE ELSE p[f]]
    BY <1>3, <2>3, InfoNames DEF IsInfo, IsOver
  <2>5. SameOutside(p, q) /\ q.made = p.made
    BY <1>3, <2>4, InfoNames DEF SameOutside, IsInfo, IsOver, Empty
  <2>6. KnowsType(q, w)
    BY <1>1, <1>2, <1>3, <1>25, <2>1, <2>4, InfoNames
       DEF KnowsType, TypeLevels, TypeRead, ArrayRead, EnumRead, ItemRead, PropertyRead, Reading,
           OpcLevel, ItemPlaces, BoundFields, EnumFields, ItemPart
  <2> QED BY <1>6, <1>25, <2>5, <2>6
<1>26. CASE c = "FbInfo"
  <2>1. n = "FbInfo" /\ v.at = "DataType"
    BY <1>1, <1>2, <1>26, TpyOwnsAre
  <2>2. q = [[p EXCEPT !.ignore = @ + 1] EXCEPT !.fb_parse = TRUE]
    BY <1>4, <2>1 DEF startInType, BoundFields, Ignore
  <2>3. q = [f \in InfoFields |-> IF f = "ignore" THEN p.ignore + 1
                                  ELSE IF f = "fb_parse" THEN TRUE ELSE p[f]]
    BY <1>3, <2>2, InfoNames DEF IsInfo, IsOver
  <2>4. /\ IsInfo(q) /\ q.made = p.made /\ q.ignore = 1 /\ q.projects = p.projects
        /\ q.routing = p.routing /\ q.compiler = p.compiler /\ q.symbols = p.symbols
        /\ q.types = p.types
    BY <1>3, <2>3, InfoNames DEF IsInfo, IsOver
  <2>5. KnowsType(q, w)
    BY <1>1, <1>2, <1>3, <1>26, <2>3, InfoNames
       DEF KnowsType, TypeLevels, TypeRead, ArrayRead, EnumRead, ItemRead, PropertyRead, Reading,
           OpcLevel, ItemPlaces, BoundFields, EnumFields
  <2>6. w.at \notin AddressPlaces \cup TpySymbolPlaces \cup AddressLeaves
    BY <1>1, <1>2, TpyParts
  <2>7. Whereabouts(q, w)
    <3>1. /\ w.at = "FbInfo" /\ w.deeper + 1 = 1 /\ w.at # Root /\ w.at \in TypePlaces
          /\ w.at \notin DOMAIN RoutingLevel \cup DOMAIN CompilerLevel
      BY <1>1, <1>26, <2>6 DEF TypePlaces, Root, AddressLeaves
    <3> QED BY <1>3, <2>4, <2>6, <3>1 DEF Whereabouts
  <2> QED BY <1>5, <2>4, <2>5, <2>6, <2>7 DEF Knows, Shallow
<1> QED BY <1>2, <1>7, <1>8, <1>9, <1>10, <1>11, <1>12, <1>13, <1>14, <1>15, <1>16, <1>17, <1>18, <1>19,
           <1>20, <1>21, <1>22, <1>23, <1>24, <1>25, <1>26
       DEF TypePlaces, ItemPlaces, BoundFields

\* Where the parser is outside of symbols, types and addresses, and where not.
LEMMA NotAmongThese ==
  /\ AddressLeaves \cap {Root, "PlcProjectInfo", "RoutingInfo", "CompilerInfo", "Symbols",
       "DataTypes", "AdsInfo", "Symbol", "DataType"} = {}
  /\ (TpySymbolPlaces \cup TypePlaces) \cap {Root, "PlcProjectInfo", "RoutingInfo",
       "CompilerInfo", "Symbols", "DataTypes", "AdsInfo"} = {}
  /\ AddressLeaves \cap (TpySymbolPlaces \cup TypePlaces) = {}
BY TpyParts DEF TpySymbolPlaces, TypePlaces, ItemPlaces, Root

\* A section of the project, a symbol, a type or a value of the address starts.
LEMMA StartsAround ==
  ASSUME NEW p, NEW v, NEW w, NEW n, NEW c, IsView(v), ~v.cdata, ~w.cdata, Knows(p, v),
         StartsPlace(v, w, n, c), v.at \notin TpySymbolPlaces \cup TypePlaces
  PROVE  Knows(startElement(p, n), w) /\ startElement(p, n).made = p.made
<1>1. /\ w.at = c /\ v.deeper = 0 /\ w.deeper = 0 /\ tpyUp[c] = v.at /\ tpyOwn[c] = n
      /\ w.seen = v.seen \cup {c} /\ (c \in TpyLeaves => c \notin v.seen)
      /\ w.text = v.text /\ w.value = v.value /\ w.section = v.section
      /\ c \in TpyPlaces \ {Root}
  BY DEF StartsPlace, SameText
<1>2. /\ n = c
      /\ \/ c = "PlcProjectInfo" /\ v.at = Root
         \/ c \in {"RoutingInfo", "CompilerInfo", "Symbols", "DataTypes"} /\ v.at = "PlcProjectInfo"
         \/ c = "AdsInfo" /\ v.at = "RoutingInfo"
         \/ c \in DOMAIN RoutingLevel /\ v.at = "AdsInfo"
         \/ c \in DOMAIN CompilerLevel /\ v.at = "CompilerInfo"
         \/ c = "Symbol" /\ v.at = "Symbols"
         \/ c = "DataType" /\ v.at = "DataTypes"
  BY <1>1, TpyUpsAre, TpyOwnsAre, TpyPlacesAre
     DEF TpySymbolPlaces, TypePlaces, ItemPlaces, Root, RoutingLevel, CompilerLevel
<1>3. IsInfo(p) /\ Whereabouts(p, v) /\ Shallow(w)
  BY <1>1 DEF Knows, Shallow
<1>4. PICK q : q = startElement(p, n)
  OBVIOUS
<1>5. ASSUME IsInfo(q), Whereabouts(q, w), q.made = p.made,
             c \in AddressLeaves => q.data = {},
             c \in TpySymbolPlaces => c = "Symbol" /\ KnowsSymbol(q, w),
             c \in TypePlaces => c = "DataType" /\ KnowsType(q, w)
      PROVE  Knows(startElement(p, n), w) /\ startElement(p, n).made = p.made
  <2>1. c \in AddressLeaves => w.text[c] = {}
    <3>1. c \in AddressLeaves => c \in TpyLeaves
      BY <1>1, <1>2, TpyOwnsAre, TpyElementsAre, TpyParts DEF TpyLeaves
    <3> QED BY <1>1, <3>1 DEF IsView
  <2> QED BY <1>1, <1>3, <1>4, <1>5, <2>1 DEF Knows
<1>6. CASE c = "PlcProjectInfo"
  <2>1. /\ v.at = Root /\ c \notin TpySymbolPlaces \cup TypePlaces
        /\ p.ignore = 0 /\ p.projects = FALSE /\ p.routing = 0 /\ p.compiler = 0
        /\ p.symbols = 0 /\ p.types = 0
    BY <1>1, <1>2, <1>3, <1>6, NotAmongThese, TpyParts
       DEF Whereabouts, Root, RoutingLevel, CompilerLevel
  <2>2. q = [p EXCEPT !.projects = TRUE]
    BY <1>2, <1>4, <1>6, <2>1 DEF startElement, verytop, outside
  <2>3. q = [f \in InfoFields |-> IF f = "projects" THEN TRUE ELSE p[f]]
    BY <1>3, <2>1, <2>2, InfoNames DEF IsInfo, IsOver
  <2>4. IsInfo(q) /\ q.made = p.made
    BY <1>3, <2>3, InfoNames DEF IsInfo, IsOver
  <2>5. Whereabouts(q, w)
    BY <1>1, <1>6, <2>1, <2>3, InfoNames, TpyParts DEF Whereabouts, Root, RoutingLevel, CompilerLevel
  <2> QED BY <1>5, <1>6, <2>1, <2>4, <2>5, NotAmongThese
<1>7. CASE c = "RoutingInfo"
  <2>1. /\ v.at = "PlcProjectInfo" /\ c \notin TpySymbolPlaces \cup TypePlaces
        /\ p.ignore = 0 /\ p.projects = TRUE /\ p.routing = 0 /\ p.compiler = 0
        /\ p.symbols = 0 /\ p.types = 0
    BY <1>1, <1>2, <1>3, <1>7, NotAmongThese, TpyParts
       DEF Whereabouts, Root, RoutingLevel, CompilerLevel
  <2>2. q = [p EXCEPT !.routing = @ + 1]
    BY <1>2, <1>4, <1>7, <2>1 DEF startElement, startSection, top, verytop, outside
  <2>3. q = [f \in InfoFields |-> IF f = "routing" THEN 1 ELSE p[f]]
    BY <1>3, <2>1, <2>2, InfoNames DEF IsInfo, IsOver
  <2>4. IsInfo(q) /\ q.made = p.made
    BY <1>3, <2>3, InfoNames DEF IsInfo, IsOver
  <2>5. Whereabouts(q, w)
    BY <1>1, <1>7, <2>1, <2>3, InfoNames, TpyParts DEF Whereabouts, Root, RoutingLevel, CompilerLevel
  <2> QED BY <1>5, <1>7, <2>1, <2>4, <2>5, NotAmongThese
<1>8. CASE c = "CompilerInfo"
  <2>1. /\ v.at = "PlcProjectInfo" /\ c \notin TpySymbolPlaces \cup TypePlaces
        /\ p.ignore = 0 /\ p.projects = TRUE /\ p.routing = 0 /\ p.compiler = 0
        /\ p.symbols = 0 /\ p.types = 0
    BY <1>1, <1>2, <1>3, <1>8, NotAmongThese, TpyParts
       DEF Whereabouts, Root, RoutingLevel, CompilerLevel
  <2>2. q = [p EXCEPT !.compiler = @ + 1]
    BY <1>2, <1>4, <1>8, <2>1 DEF startElement, startSection, top, verytop, outside
  <2>3. q = [f \in InfoFields |-> IF f = "compiler" THEN 1 ELSE p[f]]
    BY <1>3, <2>1, <2>2, InfoNames DEF IsInfo, IsOver
  <2>4. IsInfo(q) /\ q.made = p.made
    BY <1>3, <2>3, InfoNames DEF IsInfo, IsOver
  <2>5. Whereabouts(q, w)
    BY <1>1, <1>8, <2>1, <2>3, InfoNames, TpyParts DEF Whereabouts, Root, RoutingLevel, CompilerLevel
  <2> QED BY <1>5, <1>8, <2>1, <2>4, <2>5, NotAmongThese
<1>9. CASE c = "Symbols"
  <2>1. /\ v.at = "PlcProjectInfo" /\ c \notin TpySymbolPlaces \cup TypePlaces
        /\ p.ignore = 0 /\ p.projects = TRUE /\ p.routing = 0 /\ p.compiler = 0
        /\ p.symbols = 0 /\ p.types = 0
    BY <1>1, <1>2, <1>3, <1>9, NotAmongThese, TpyParts
       DEF Whereabouts, Root, RoutingLevel, CompilerLevel
  <2>2. q = [p EXCEPT !.symbols = @ + 1]
    BY <1>2, <1>4, <1>9, <2>1 DEF startElement, startSection, top, verytop, outside
  <2>3. q = [f \in InfoFields |-> IF f = "symbols" THEN 1 ELSE p[f]]
    BY <1>3, <2>1, <2>2, InfoNames DEF IsInfo, IsOver
  <2>4. IsInfo(q) /\ q.made = p.made
    BY <1>3, <2>3, InfoNames DEF IsInfo, IsOver
  <2>5. Whereabouts(q, w)
    BY <1>1, <1>9, <2>1, <2>3, InfoNames, TpyParts DEF Whereabouts, Root, RoutingLevel, CompilerLevel
  <2> QED BY <1>5, <1>9, <2>1, <2>4, <2>5, NotAmongThese
<1>10. CASE c = "DataTypes"
  <2>1. /\ v.at = "PlcProjectInfo" /\ c \notin TpySymbolPlaces \cup TypePlaces
        /\ p.ignore = 0 /\ p.projects = TRUE /\ p.routing = 0 /\ p.compiler = 0
        /\ p.symbols = 0 /\ p.types = 0
    BY <1>1, <1>2, <1>3, <1>10, NotAmongThese, TpyParts
       DEF Whereabouts, Root, RoutingLevel, CompilerLevel
  <2>2. q = [p EXCEPT !.types = @ + 1]
    BY <1>2, <1>4, <1>10, <2>1 DEF startElement, startSection, top, verytop, outside
  <2>3. q = [f \in InfoFields |-> IF f = "types" THEN 1 ELSE p[f]]
    BY <1>3, <2>1, <2>2, InfoNames DEF IsInfo, IsOver
  <2>4. IsInfo(q) /\ q.made = p.made
    BY <1>3, <2>3, InfoNames DEF IsInfo, IsOver
  <2>5. Whereabouts(q, w)
    BY <1>1, <1>10, <2>1, <2>3, InfoNames, TpyParts DEF Whereabouts, Root, RoutingLevel, CompilerLevel
  <2> QED BY <1>5, <1>10, <2>1, <2>4, <2>5, NotAmongThese
<1>11. CASE c = "AdsInfo"
  <2>1. /\ v.at = "RoutingInfo" /\ c \notin TpySymbolPlaces \cup TypePlaces
        /\ p.ignore = 0 /\ p.projects = TRUE /\ p.routing = 1 /\ p.compiler = 0
        /\ p.symbols = 0 /\ p.types = 0
    BY <1>1, <1>2, <1>3, <1>11, NotAmongThese, TpyParts
       DEF Whereabouts, Root, RoutingLevel, CompilerLevel
  <2>2. q = [p EXCEPT !.routing = 2]
    BY <1>2, <1>4, <1>11, <2>1 DEF startElement, verytop, outside
  <2>3. q = [f \in InfoFields |-> IF f = "routing" THEN 2 ELSE p[f]]
    BY <1>3, <2>1, <2>2, InfoNames DEF IsInfo, IsOver
  <2>4. IsInfo(q) /\ q.made = p.made
    BY <1>3, <2>3, InfoNames DEF IsInfo, IsOver
  <2>5. Whereabouts(q, w)
    BY <1>1, <1>11, <2>1, <2>3, InfoNames, TpyParts DEF Whereabouts, Root, RoutingLevel, CompilerLevel
  <2> QED BY <1>5, <1>11, <2>1, <2>4, <2>5, NotAmongThese
<1>12. CASE c \in DOMAIN RoutingLevel
  <2>0. c \in DOMAIN RoutingLevel \cup DOMAIN CompilerLevel /\ n = c
        /\ c \notin {Root, "RoutingInfo", "AdsInfo", "CompilerInfo", "Symbols", "DataTypes"}
        /\ DOMAIN RoutingLevel \cap DOMAIN CompilerLevel = {} /\ c # "FbInfo"
    BY <1>2, <1>12 DEF RoutingLevel, CompilerLevel, Root
  <2>1. /\ v.at = "AdsInfo" /\ c \notin TpySymbolPlaces \cup TypePlaces
        /\ p.ignore = 0 /\ p.projects = TRUE /\ p.routing = 2 /\ p.compiler = 0
        /\ p.symbols = 0 /\ p.types = 0
    BY <1>1, <1>2, <1>3, <1>12, NotAmongThese, TpyParts
       DEF Whereabouts, Root, RoutingLevel, CompilerLevel
  <2>2. q = [p EXCEPT !.data = {}, !.routing = RoutingLevel[n]]
    BY <1>2, <1>4, <1>12, <2>1 DEF startElement, startRouting, RoutingLevel, verytop, outside
  <2>3. q = [f \in InfoFields |-> IF f = "data" THEN {}
                                  ELSE IF f = "routing" THEN RoutingLevel[n] ELSE p[f]]
    BY <1>3, <2>1, <2>2, InfoNames DEF IsInfo, IsOver
  <2>4. IsInfo(q) /\ q.made = p.made /\ q.data = {}
    BY <1>3, <2>3, InfoNames DEF IsInfo, IsOver
  <2>5. Whereabouts(q, w)
    BY <1>1, <1>12, <2>1, <2>3, InfoNames, TpyParts, NotAmongThese, <2>0
    DEF Whereabouts, Root, RoutingLevel, CompilerLevel
  <2> QED BY <1>5, <1>12, <2>1, <2>4, <2>5
<1>13. CASE c \in DOMAIN CompilerLevel
  <2>0. c \in DOMAIN RoutingLevel \cup DOMAIN CompilerLevel /\ n = c
        /\ c \notin {Root, "RoutingInfo", "AdsInfo", "CompilerInfo", "Symbols", "DataTypes"}
        /\ DOMAIN RoutingLevel \cap DOMAIN CompilerLevel = {} /\ c # "FbInfo"
    BY <1>2, <1>13 DEF RoutingLevel, CompilerLevel, Root
  <2>1. /\ v.at = "CompilerInfo" /\ c \notin TpySymbolPlaces \cup TypePlaces
        /\ p.ignore = 0 /\ p.projects = TRUE /\ p.routing = 0 /\ p.compiler = 1
        /\ p.symbols = 0 /\ p.types = 0
    BY <1>1, <1>2, <1>3, <1>13, NotAmongThese, TpyParts
       DEF Whereabouts, Root, RoutingLevel, CompilerLevel
  <2>2. q = [p EXCEPT !.data = {}, !.compiler = CompilerLevel[n]]
    BY <1>2, <1>4, <1>13, <2>1 DEF startElement, startCompiler, CompilerLevel, verytop, outside
  <2>3. q = [f \in InfoFields |-> IF f = "data" THEN {}
                                  ELSE IF f = "compiler" THEN CompilerLevel[n] ELSE p[f]]
    BY <1>3, <2>1, <2>2, InfoNames DEF IsInfo, IsOver
  <2>4. IsInfo(q) /\ q.made = p.made /\ q.data = {}
    BY <1>3, <2>3, InfoNames DEF IsInfo, IsOver
  <2>5. Whereabouts(q, w)
    BY <1>1, <1>13, <2>1, <2>3, InfoNames, TpyParts, NotAmongThese, <2>0
    DEF Whereabouts, Root, RoutingLevel, CompilerLevel
  <2> QED BY <1>5, <1>13, <2>1, <2>4, <2>5
<1>14. CASE c = "Symbol"
  <2>1. /\ v.at = "Symbols"
        /\ p.ignore = 0 /\ p.projects = TRUE /\ p.routing = 0 /\ p.compiler = 0
        /\ p.symbols = 1 /\ p.types = 0
    BY <1>1, <1>2, <1>3, <1>14, NotAmongThese, TpyParts
       DEF Whereabouts, Root, RoutingLevel, CompilerLevel
  <2>2. q = init([p EXCEPT !.symbols = 2])
    BY <1>2, <1>4, <1>14, <2>1 DEF startElement, verytop, outside
  <2>3. q = [f \in InfoFields |-> IF f \in DOMAIN Fresh THEN Fresh[f]
                                  ELSE IF f = "symbols" THEN 2 ELSE p[f]]
    BY <1>3, <2>2, InfoNames DEF init, Cleared, IsInfo, IsOver, Fresh
  <2>4. /\ IsInfo(q) /\ q.made = p.made /\ q.ignore = 0 /\ q.projects = TRUE
        /\ q.routing = 0 /\ q.compiler = 0 /\ q.symbols = 2 /\ q.types = 0
    BY <1>3, <2>1, <2>3, InfoNames DEF IsInfo, IsOver, Fresh, Empty
  <2>5. \A k \in TpySymbolPlaces \ {c} : k \notin w.seen /\ v.text[k] = {}
    BY <1>1, <1>14, <2>1, TpyDepthsAre, TpyPlacesAre DEF IsView, TpySymbolPlaces
  <2>6. KnowsSymbol(q, w)
    <3>1. /\ q.name_parse = 0 /\ q.type_parse = 0 /\ q.opc_cur = "none" /\ q.opc_parse = 0
          /\ q.number_parse = [k \in Numbers |-> 0]
          /\ q.sym = Empty(SymbolFields)
      BY <2>3, InfoNames DEF Fresh
    <3>2. /\ w.at = "Symbol" /\ OpcLevel(w.at) = 0 /\ \A k \in TpySymbolPlaces \ {c} : Reading(k, w) = 0
          /\ w.text = v.text /\ \A k \in TpySymbolPlaces \ {c} : v.text[k] = {} /\ k \notin w.seen
      BY <1>1, <1>14, <2>5 DEF Reading, OpcLevel
    <3> HIDE <2>3, <2>5
    <3> QED BY <1>14, <3>1, <3>2
            DEF KnowsSymbol, SymbolLevels, SymbolRead, PropertyRead, Reading, OpcLevel,
           SymbolPart, Numbers, SymbolFields, Empty,
           TpySymbolPlaces
  <2>7. Whereabouts(q, w)
    BY <1>1, <1>14, <2>4, TpyParts
       DEF Whereabouts, Root, RoutingLevel, CompilerLevel, TpySymbolPlaces, TypePlaces, ItemPlaces
  <2> QED BY <1>5, <1>14, <2>4, <2>6, <2>7, NotAmongThese, TpyParts
          DEF TpySymbolPlaces, TypePlaces
<1>15. CASE c = "DataType"
  <2>1. /\ v.at = "DataTypes"
        /\ p.ignore = 0 /\ p.projects = TRUE /\ p.routing = 0 /\ p.compiler = 0
        /\ p.symbols = 0 /\ p.types = 1
    BY <1>1, <1>2, <1>3, <1>15, NotAmongThese, TpyParts
       DEF Whereabouts, Root, RoutingLevel, CompilerLevel
  <2>2. q = init([p EXCEPT !.types = 2])
    BY <1>2, <1>4, <1>15, <2>1 DEF startElement, verytop, outside
  <2>3. q = [f \in InfoFields |-> IF f \in DOMAIN Fresh THEN Fresh[f]
                                  ELSE IF f = "types" THEN 2 ELSE p[f]]
    BY <1>3, <2>2, InfoNames DEF init, Cleared, IsInfo, IsOver, Fresh
  <2>4. /\ IsInfo(q) /\ q.made = p.made /\ q.ignore = 0 /\ q.projects = TRUE
        /\ q.routing = 0 /\ q.compiler = 0 /\ q.symbols = 0 /\ q.types = 2
    BY <1>3, <2>1, <2>3, InfoNames DEF IsInfo, IsOver, Fresh, Empty
  <2>5. \A k \in TypePlaces \ {c} : k \notin w.seen /\ v.text[k] = {}
    BY <1>1, <1>15, <2>1, TpyDepthsAre, TpyPlacesAre DEF IsView, TypePlaces, ItemPlaces
  <2>6. KnowsType(q, w)
    <3>1. /\ q.name_parse = 0 /\ q.type_parse = 0 /\ q.opc_cur = "none" /\ q.opc_parse = 0
          /\ q.number_parse = [k \in Numbers |-> 0]
          /\ q.rec = Empty(TypeFields) /\ q.array_parse = 0 /\ q.enum_parse = 0
          /\ q.struct_parse = 0 /\ q.fb_parse = FALSE
      BY <2>3, InfoNames DEF Fresh
    <3>2. /\ w.at = "DataType" /\ OpcLevel(w.at) = 0 /\ \A k \in TypePlaces \ {c} : Reading(k, w) = 0
          /\ w.text = v.text /\ \A k \in TypePlaces \ {c} : v.text[k] = {} /\ k \notin w.seen
      BY <1>1, <1>15, <2>5 DEF Reading, OpcLevel
    <3> HIDE <2>3, <2>5
    <3>3. TypeLevels(q, w)
      <4>1. /\ Reading("TypeName", w) = 0 /\ Reading("TypeType", w) = 0
            /\ Reading("TypeBitSize", w) = 0 /\ Reading("ArrayInfo", w) = 0
            /\ Reading("EnumInfo", w) = 0 /\ "SubItem" \notin w.seen
            /\ ("FbInfo" \in w.seen) = FALSE
        BY <1>15, <3>2 DEF TypePlaces, ItemPlaces
      <4> QED BY <3>1, <3>2, <4>1 DEF TypeLevels, ItemPlaces, BoundFields, Numbers
    <3>4. TypeRead(q, w)
      BY <1>15, <3>1, <3>2
      DEF TypeRead, Reading, OpcLevel, ItemPlaces, BoundFields, EnumFields, TypeFields, Numbers, Empty,
          TypePlaces
    <3>5. ArrayRead(q, w)
      BY <1>15, <3>1, <3>2
      DEF ArrayRead, Reading, OpcLevel, ItemPlaces, BoundFields, EnumFields, TypeFields, Numbers, Empty,
          TypePlaces
    <3>6. EnumRead(q, w)
      BY <1>15, <3>1, <3>2
      DEF EnumRead, Reading, OpcLevel, ItemPlaces, BoundFields, EnumFields, TypeFields, Numbers, Empty,
          TypePlaces
    <3>7. ItemRead(q, w)
      BY <1>15, <3>1, <3>2
      DEF ItemRead, Reading, OpcLevel, ItemPlaces, BoundFields, EnumFields, TypeFields, Numbers, Empty,
          TypePlaces
    <3>8. /\ PropertyRead(q, w, "TypeProperty", "TypePropertyName", "TypePropertyValue")
          /\ PropertyRead(q, w, "ItemProperty", "ItemPropertyName", "ItemPropertyValue")
      BY <1>15, <3>1, <3>2 DEF PropertyRead
    <3> QED BY <3>3, <3>4,<3>5,<3>6,<3>7,<3>8 DEF KnowsType
  <2>7. Whereabouts(q, w)
    BY <1>1, <1>15, <2>4, TpyParts
       DEF Whereabouts, Root, RoutingLevel, CompilerLevel, TpySymbolPlaces, TypePlaces, ItemPlaces
  <2> QED BY <1>5, <1>15, <2>4, <2>6, <2>7, NotAmongThese, TpyParts
          DEF TpySymbolPlaces, TypePlaces
<1> QED BY <1>2, <1>6, <1>7, <1>8, <1>9, <1>10, <1>11, <1>12, <1>13, <1>14, <1>15

\* An element without a place starts: the parser counts it, or is in an address.
LEMMA StartsInPlace ==
  ASSUME NEW p, NEW v, NEW w, NEW n, IsView(v), ~v.cdata, ~w.cdata, Knows(p, v),
         StartsDeeper(v, w, n)
  PROVE  Knows(startElement(p, n), w) /\ startElement(p, n).made = p.made
<1>1. /\ w.at = v.at /\ w.deeper = v.deeper + 1 /\ w.seen = v.seen /\ Shallow(w)
      /\ w.text = v.text /\ w.value = v.value /\ w.section = v.section
      /\ n = Unknown \/ v.deeper > 0 \/ v.at = "FbInfo"
      /\ v.at \in AddressPlaces => n = Unknown
  BY DEF StartsDeeper, SameText
<1>2. IsInfo(p) /\ Whereabouts(p, v) /\ v.deeper \in Nat
  BY DEF Knows, IsView
<1>3. CASE v.at \in AddressPlaces
  <2>1. n = Unknown /\ v.at \in {"AdsInfo", "CompilerInfo"}
    <3>1. v.at \notin TpyLeaves
      BY <1>1, <1>2, <1>3 DEF Shallow
    <3> QED BY <1>1, <1>3, <3>1, TpyOwnsAre, TpyElementsAre, TpyParts, TpyPlacesAre DEF TpyLeaves
  <2>2. /\ p.ignore = 0 /\ p.projects = TRUE
        /\ v.at = "AdsInfo" => p.routing = 2
        /\ v.at = "CompilerInfo" => p.routing = 0 /\ p.compiler = 1
    BY <1>2, <1>3, <2>1 DEF Whereabouts, Root, RoutingLevel, CompilerLevel
  <2>3. startElement(p, n) = p
    <3>1. CASE v.at = "AdsInfo"
      BY <2>1, <2>2, <3>1
         DEF startElement, verytop, outside, Unknown, startRouting, RoutingLevel
    <3>2. CASE v.at = "CompilerInfo"
      BY <2>1, <2>2, <3>2
         DEF startElement, verytop, outside, Unknown, startCompiler, CompilerLevel
    <3> QED BY <2>1, <3>1, <3>2
  <2>4. Whereabouts(p, w)
    BY <1>1, <1>2, <1>3 DEF Whereabouts
  <2>5. Knows(p, w)
    BY <1>1, <2>1, <2>4, NotAmongThese DEF Knows
  <2> QED BY <2>3, <2>5
<1>4. CASE v.at \notin AddressPlaces
  <2>1. p.routing \in {0, 1} /\ p.compiler = 0 /\ p.ignore \in Nat
        /\ (p.ignore = 0 => n = Unknown /\ v.deeper = 0 /\ v.at # "FbInfo")
    BY <1>1, <1>2, <1>4, TpyParts DEF Whereabouts, AddressLeaves
  <2>2. startElement(p, n) = [p EXCEPT !.ignore = @ + 1]
    BY <2>1 DEF startElement, verytop, outside, Unknown, Ignore, startInSymbol, startInType,
                Numbers, BoundFields
  <2>3. PICK q : q = [f \in InfoFields |-> IF f = "ignore" THEN p.ignore + 1 ELSE p[f]]
    OBVIOUS
  <2>4. q = startElement(p, n)
    BY <1>2, <2>2, <2>3, InfoNames DEF IsInfo, IsOver
  <2>5. IsInfo(q) /\ q.made = p.made /\ q.ignore = p.ignore + 1
    BY <1>2, <2>3, InfoNames DEF IsInfo, IsOver
  <2>6. Whereabouts(q, w)
    BY <1>1, <1>2, <1>4, <2>3, InfoNames DEF Whereabouts
  <2>7. v.at \in TpySymbolPlaces => KnowsSymbol(q, w)
    BY <1>1, <2>3, InfoNames DEF Knows, KnowsSymbol, SymbolLevels, SymbolRead, PropertyRead, Reading
  <2>8. v.at \in TypePlaces => KnowsType(q, w)
    BY <1>1, <2>3, InfoNames
       DEF Knows, KnowsType, TypeLevels, TypeRead, ArrayRead, EnumRead, ItemRead, PropertyRead, Reading
  <2>9. Knows(q, w)
    BY <1>1, <1>4, <2>5, <2>6, <2>7, <2>8, TpyParts DEF Knows
  <2> QED BY <2>4, <2>5, <2>9
<1> QED BY <1>3, <1>4

(* What the element that ends describes, in terms of the view.             *)
KindTold(v) ==
  IF "TypeName" \notin v.seen THEN "unknown"
  ELSE IF "ArrayInfo" \in v.seen /\ "TypeType" \in v.seen THEN "arraytype"
  ELSE IF "EnumInfo" \in v.seen THEN "enumtype"
  ELSE IF "SubItem" \in v.seen THEN IF "FbInfo" \in v.seen THEN "functionblock" ELSE "structtype"
  ELSE IF "TypeType" \in v.seen THEN "simple" ELSE "unknown"
TextsTold(v, part) == [f \in DOMAIN part |-> v.text[part[f]]]
PropertyTold(v, owner, name, val) ==
  IF v.value[name] = {} THEN Nothing
  ELSE Stored(OpcItem[owner], [f \in PropertyFields |-> v.value[IF f = "Name" THEN name ELSE val]])
BoundPart == [f \in BoundFields |-> f]
EnumPart == [f \in EnumFields |-> f]
Told(v) ==
  IF v.deeper > 0 THEN Nothing
  ELSE IF v.at \in AddressLeaves THEN Stored(v.at, v.text[v.at])
  ELSE IF v.at = "Symbol"
       THEN IF v.text["SymbolName"] = {} THEN Nothing ELSE Stored(v.at, TextsTold(v, SymbolPart))
  ELSE IF v.at = "DataType"
       THEN IF KindTold(v) # "simple" \/ v.text["TypeName"] # v.text["TypeType"]
            THEN Stored(v.at, <<KindTold(v), TextsTold(v, TypePart)>>) ELSE Nothing
  ELSE IF v.at = "ArrayInfo"
       THEN IF v.text["Elements"] = {} THEN Nothing ELSE Stored(v.at, TextsTold(v, BoundPart))
  ELSE IF v.at = "EnumInfo" THEN Stored(v.at, TextsTold(v, EnumPart))
  ELSE IF v.at = "SubItem" THEN Stored(v.at, TextsTold(v, ItemPart))
  ELSE IF v.at = "SymbolProperty"
       THEN PropertyTold(v, "Symbol", "SymbolPropertyName", "SymbolPropertyValue")
  ELSE IF v.at = "TypeProperty"
       THEN PropertyTold(v, "DataType", "TypePropertyName", "TypePropertyValue")
  ELSE IF v.at = "ItemProperty"
       THEN PropertyTold(v, "SubItem", "ItemPropertyName", "ItemPropertyValue")
  ELSE Nothing
Telling == AddressLeaves \cup {"Symbol", "DataType", "ArrayInfo", "EnumInfo", "SubItem",
                               "SymbolProperty", "TypeProperty", "ItemProperty"}

\* Storing a property or not.
LEMMA EndProperty ==
  ASSUME NEW p, NEW v, IsInfo(p), p.made = Nothing, NEW owner, NEW name, NEW val,
         p.opc_prop["Name"] = v.value[name], p.opc_prop["Value"] = v.value[val]
  PROVE  /\ endProperty(p, owner).made = PropertyTold(v, owner, name, val)
         /\ endProperty(p, owner) =
              [f \in InfoFields |-> IF f = "opc_parse" THEN 1
                 ELSE IF f = "made" THEN endProperty(p, owner).made ELSE p[f]]
<1>1. p.opc_prop = [f \in PropertyFields |-> v.value[IF f = "Name" THEN name ELSE val]]
  BY DEF IsInfo, IsOver, PropertyFields
<1>2. p = [f \in InfoFields |-> p[f]]
  BY DEF IsInfo, IsOver
<1>3. CASE p.opc_prop["Name"] = {}
  <2>1. endProperty(p, owner) = [f \in InfoFields |-> IF f = "opc_parse" THEN 1 ELSE p[f]]
    BY <1>2, <1>3, InfoNames DEF endProperty
  <2> QED BY <1>3, <2>1, InfoNames DEF PropertyTold
<1>4. CASE p.opc_prop["Name"] # {}
  <2>1. endProperty(p, owner) =
          [f \in InfoFields |-> IF f = "opc_parse" THEN 1
             ELSE IF f = "made" THEN Stored(OpcItem[owner], p.opc_prop) ELSE p[f]]
    BY <1>2, <1>4, InfoNames DEF endProperty, Store
  <2> QED BY <1>1, <1>4, <2>1, InfoNames DEF PropertyTold
<1> QED BY <1>3, <1>4

\* Elsewhere the end of an element says nothing.
LEMMA ToldNothing ==
  ASSUME NEW v, v.deeper > 0 \/ v.at \notin Telling
  PROVE  Told(v) = Nothing
BY DEF Told, Telling

\* An element ends in a symbol.
LEMMA EndsInSymbol ==
  ASSUME NEW p, NEW v, NEW w, NEW n, IsView(v), ~v.cdata, ~w.cdata, Knows(p, v),
         p.made = Nothing, EndsPlace(v, w, n), v.at \in TpySymbolPlaces \ {"Symbol"}
  PROVE  Knows(endElement(p, n), w) /\ endElement(p, n).made = Told(v)
<1>1. /\ w.at = tpyUp[v.at] /\ tpyOwn[v.at] = n /\ v.deeper = 0 /\ w.deeper = 0
      /\ \A j \in TpyPlaces \ {Root} : tpyDepth[j] <= tpyDepth[v.at] =>
           /\ w.text[j] = v.text[j] /\ w.value[j] = v.value[j]
           /\ (j \in w.seen <=> j \in v.seen) /\ (j \in w.section <=> j \in v.section)
      /\ v.at \in v.seen
  BY DEF EndsPlace, IsView
<1>2. /\ w.at \in TpySymbolPlaces /\ n \notin SectionTags
      /\ v.at \in {"SymbolName", "SymbolType", "IGroup", "IOffset", "SymbolBitSize"} => w.at = "Symbol"
      /\ v.at = "SymbolProperties" => w.at = "Symbol"
      /\ v.at = "SymbolProperty" => w.at = "SymbolProperties"
      /\ v.at \in {"SymbolPropertyName", "SymbolPropertyValue"} => w.at = "SymbolProperty"
  BY <1>1, TpyUpsAre, TpyOwnsAre DEF TpySymbolPlaces, SectionTags
<1>3. /\ \A j \in {"SymbolName", "SymbolType", "IGroup", "IOffset", "SymbolBitSize"} :
           w.text[j] = v.text[j] /\ (j \in w.seen <=> j \in v.seen)
      /\ v.at \in {"SymbolPropertyName", "SymbolPropertyValue"} =>
           \A j \in {"SymbolPropertyName", "SymbolPropertyValue"} : w.value[j] = v.value[j]
  <2>1. v.at \in {"SymbolName", "SymbolType", "IGroup", "IOffset", "SymbolBitSize",
          "SymbolProperties", "SymbolProperty", "SymbolPropertyName", "SymbolPropertyValue"}
    BY DEF TpySymbolPlaces
  <2> QED BY <1>1, <2>1, TpyDepthsAre, TpyPlacesAre DEF Root
<1>4. /\ p.ignore = 0 /\ p.routing = 0 /\ p.compiler = 0 /\ p.symbols = 2
      /\ IsInfo(p) /\ SymbolLevels(p, v) /\ SymbolRead(p, v)
      /\ PropertyRead(p, v, "SymbolProperty", "SymbolPropertyName", "SymbolPropertyValue")
  <2>1. SameOutside(p, p)
    BY DEF SameOutside, Knows
  <2> QED BY <1>1, <1>2, <2>1, StaysInside DEF Knows, KnowsSymbol
<1>5. PICK q : q = endInSymbol(p, n)
  OBVIOUS
<1>6. ASSUME SameOutside(p, q), q.made = Told(v), KnowsSymbol(q, w)
      PROVE  Knows(endElement(p, n), w) /\ endElement(p, n).made = Told(v)
  <2>1. Whereabouts(q, w) /\ Shallow(w) /\ w.at \notin AddressLeaves
    BY <1>1, <1>2, <1>6, StaysInside
  <2>2. endElement(p, n) = q
    BY <1>2, <1>4, <1>5, EndedInside
  <2> QED BY <1>2, <1>6, <2>1, <2>2, TpyParts DEF Knows, SameOutside
<1>7. CASE v.at = "SymbolName"
  <2>1. n = "Name" /\ p.name_parse = 2 /\ p.opc_parse = 0
    BY <1>1, <1>2, <1>4, <1>7, TpyOwnsAre
       DEF SymbolLevels, Reading, OpcLevel, Numbers, SymbolPart
  <2>2. q = [p EXCEPT !.name_parse = 1]
    BY <1>5, <2>1 DEF endInSymbol, Numbers
  <2>3. q = [f \in InfoFields |-> IF f = "name_parse" THEN 1 ELSE p[f]]
    BY <1>4, <2>2, InfoNames DEF IsInfo, IsOver
  <2>4. SameOutside(p, q) /\ q.made = Told(v)
    <3>1. Told(v) = Nothing
      BY <1>7, TpyParts, ToldNothing DEF Telling
    <3> QED BY <1>4, <2>3, <3>1, InfoNames DEF SameOutside, IsInfo, IsOver
  <2>5. KnowsSymbol(q, w)
    BY <1>1, <1>2, <1>3, <1>4, <1>7, <2>3, InfoNames
       DEF KnowsSymbol, SymbolLevels, SymbolRead, PropertyRead, Reading, OpcLevel, Numbers,
           SymbolPart, IsInfo, IsOver, SymbolFields, PropertyFields
  <2> QED BY <1>6, <2>4, <2>5
<1>8. CASE v.at = "SymbolType"
  <2>1. n = "Type" /\ p.type_parse = 2
    BY <1>1, <1>2, <1>4, <1>8, TpyOwnsAre
       DEF SymbolLevels, Reading, OpcLevel, Numbers, SymbolPart
  <2>2. q = [p EXCEPT !.type_parse = 1]
    BY <1>5, <2>1 DEF endInSymbol, Numbers
  <2>3. q = [f \in InfoFields |-> IF f = "type_parse" THEN 1 ELSE p[f]]
    BY <1>4, <2>2, InfoNames DEF IsInfo, IsOver
  <2>4. SameOutside(p, q) /\ q.made = Told(v)
    <3>1. Told(v) = Nothing
      BY <1>8, TpyParts, ToldNothing DEF Telling
    <3> QED BY <1>4, <2>3, <3>1, InfoNames DEF SameOutside, IsInfo, IsOver
  <2>5. KnowsSymbol(q, w)
    BY <1>1, <1>2, <1>3, <1>4, <1>8, <2>3, InfoNames
       DEF KnowsSymbol, SymbolLevels, SymbolRead, PropertyRead, Reading, OpcLevel, Numbers,
           SymbolPart, IsInfo, IsOver, SymbolFields, PropertyFields
  <2> QED BY <1>6, <2>4, <2>5
<1>9. CASE v.at = "IGroup"
  <2>1. n = "IGroup" /\ p.number_parse[n] = 2
    BY <1>1, <1>2, <1>4, <1>9, TpyOwnsAre
       DEF SymbolLevels, Reading, OpcLevel, Numbers, SymbolPart
  <2>2. q = [p EXCEPT !.number_parse["IGroup"] = 1, !.sym["IGroup"] = p.data]
    BY <1>5, <2>1 DEF endInSymbol, Numbers
  <2>3. q = [f \in InfoFields |-> IF f = "number_parse" THEN [p["number_parse"] EXCEPT !["IGroup"] = 1]
                                  ELSE IF f = "sym" THEN [p["sym"] EXCEPT !["IGroup"] = p.data] ELSE p[f]]
    BY <1>4, <2>2, InfoNames DEF IsInfo, IsOver
  <2>4. SameOutside(p, q) /\ q.made = Told(v)
    <3>1. Told(v) = Nothing
      BY <1>9, TpyParts, ToldNothing DEF Telling
    <3> QED BY <1>4, <2>3, <3>1, InfoNames DEF SameOutside, IsInfo, IsOver
  <2>5. KnowsSymbol(q, w)
    BY <1>1, <1>2, <1>3, <1>4, <1>9, <2>3, InfoNames
       DEF KnowsSymbol, SymbolLevels, SymbolRead, PropertyRead, Reading, OpcLevel, Numbers,
           SymbolPart, IsInfo, IsOver, SymbolFields, PropertyFields
  <2> QED BY <1>6, <2>4, <2>5
<1>10. CASE v.at = "IOffset"
  <2>1. n = "IOffset" /\ p.number_parse[n] = 2
    BY <1>1, <1>2, <1>4, <1>10, TpyOwnsAre
       DEF SymbolLevels, Reading, OpcLevel, Numbers, SymbolPart
  <2>2. q = [p EXCEPT !.number_parse["IOffset"] = 1, !.sym["IOffset"] = p.data]
    BY <1>5, <2>1 DEF endInSymbol, Numbers
  <2>3. q = [f \in InfoFields |-> IF f = "number_parse" THEN [p["number_parse"] EXCEPT !["IOffset"] = 1]
                                  ELSE IF f = "sym" THEN [p["sym"] EXCEPT !["IOffset"] = p.data]
                                  ELSE p[f]]
    BY <1>4, <2>2, InfoNames DEF IsInfo, IsOver
  <2>4. SameOutside(p, q) /\ q.made = Told(v)
    <3>1. Told(v) = Nothing
      BY <1>10, TpyParts, ToldNothing DEF Telling
    <3> QED BY <1>4, <2>3, <3>1, InfoNames DEF SameOutside, IsInfo, IsOver
  <2>5. KnowsSymbol(q, w)
    BY <1>1, <1>2, <1>3, <1>4, <1>10, <2>3, InfoNames
       DEF KnowsSymbol, SymbolLevels, SymbolRead, PropertyRead, Reading, OpcLevel, Numbers,
           SymbolPart, IsInfo, IsOver, SymbolFields, PropertyFields
  <2> QED BY <1>6, <2>4, <2>5
<1>11. CASE v.at = "SymbolBitSize"
  <2>1. n = "BitSize" /\ p.number_parse[n] = 2
    BY <1>1, <1>2, <1>4, <1>11, TpyOwnsAre
       DEF SymbolLevels, Reading, OpcLevel, Numbers, SymbolPart
  <2>2. q = [p EXCEPT !.number_parse["BitSize"] = 1, !.sym["BitSize"] = p.data]
    BY <1>5, <2>1 DEF endInSymbol, Numbers
  <2>3. q = [f \in InfoFields |-> IF f = "number_parse" THEN [p["number_parse"] EXCEPT !["BitSize"] = 1]
                                  ELSE IF f = "sym" THEN [p["sym"] EXCEPT !["BitSize"] = p.data]
                                  ELSE p[f]]
    BY <1>4, <2>2, InfoNames DEF IsInfo, IsOver
  <2>4. SameOutside(p, q) /\ q.made = Told(v)
    <3>1. Told(v) = Nothing
      BY <1>11, TpyParts, ToldNothing DEF Telling
    <3> QED BY <1>4, <2>3, <3>1, InfoNames DEF SameOutside, IsInfo, IsOver
  <2>5. KnowsSymbol(q, w)
    BY <1>1, <1>2, <1>3, <1>4, <1>11, <2>3, InfoNames
       DEF KnowsSymbol, SymbolLevels, SymbolRead, PropertyRead, Reading, OpcLevel, Numbers,
           SymbolPart, IsInfo, IsOver, SymbolFields, PropertyFields
  <2> QED BY <1>6, <2>4, <2>5
<1>12. CASE v.at = "SymbolProperties"
  <2>1. n = "Properties" /\ p.opc_parse = 1
    BY <1>1, <1>2, <1>4, <1>12, TpyOwnsAre
       DEF SymbolLevels, Reading, OpcLevel, Numbers, SymbolPart
  <2>2. q = [p EXCEPT !.opc_parse = 0]
    BY <1>5, <2>1 DEF endInSymbol, Numbers
  <2>3. q = [f \in InfoFields |-> IF f = "opc_parse" THEN 0 ELSE p[f]]
    BY <1>4, <2>2, InfoNames DEF IsInfo, IsOver
  <2>4. SameOutside(p, q) /\ q.made = Told(v)
    <3>1. Told(v) = Nothing
      BY <1>12, TpyParts, ToldNothing DEF Telling
    <3> QED BY <1>4, <2>3, <3>1, InfoNames DEF SameOutside, IsInfo, IsOver
  <2>5. KnowsSymbol(q, w)
    BY <1>1, <1>2, <1>3, <1>4, <1>12, <2>3, InfoNames
       DEF KnowsSymbol, SymbolLevels, SymbolRead, PropertyRead, Reading, OpcLevel, Numbers,
           SymbolPart, IsInfo, IsOver, SymbolFields, PropertyFields
  <2> QED BY <1>6, <2>4, <2>5
<1>13. CASE v.at = "SymbolPropertyName"
  <2>1. n = "Name" /\ p.opc_parse = 3 /\ p.name_parse \in {0, 1}
    BY <1>1, <1>2, <1>4, <1>13, TpyOwnsAre
       DEF SymbolLevels, Reading, OpcLevel, Numbers, SymbolPart
  <2>2. q = [p EXCEPT !.opc_parse = 2, !.opc_prop["Name"] = p.opc_data]
    BY <1>5, <2>1 DEF endInSymbol, Numbers, endPropertyPart
  <2>3. q = [f \in InfoFields |->
                IF f = "opc_parse" THEN 2
                ELSE IF f = "opc_prop" THEN [p["opc_prop"] EXCEPT !["Name"] = p.opc_data] ELSE p[f]]
    BY <1>4, <2>2, InfoNames DEF IsInfo, IsOver
  <2>4. SameOutside(p, q) /\ q.made = Told(v)
    <3>1. Told(v) = Nothing
      BY <1>13, TpyParts, ToldNothing DEF Telling
    <3> QED BY <1>4, <2>3, <3>1, InfoNames DEF SameOutside, IsInfo, IsOver
  <2>5. KnowsSymbol(q, w)
    BY <1>1, <1>2, <1>3, <1>4, <1>13, <2>3, InfoNames
       DEF KnowsSymbol, SymbolLevels, SymbolRead, PropertyRead, Reading, OpcLevel, Numbers,
           SymbolPart, IsInfo, IsOver, SymbolFields, PropertyFields
  <2> QED BY <1>6, <2>4, <2>5
<1>14. CASE v.at = "SymbolPropertyValue"
  <2>1. n = "Value" /\ p.opc_parse = 4 /\ p.name_parse \in {0, 1}
    BY <1>1, <1>2, <1>4, <1>14, TpyOwnsAre
       DEF SymbolLevels, Reading, OpcLevel, Numbers, SymbolPart
  <2>2. q = [p EXCEPT !.opc_parse = 2, !.opc_prop["Value"] = p.opc_data]
    BY <1>5, <2>1 DEF endInSymbol, Numbers, endPropertyPart
  <2>3. q = [f \in InfoFields |->
                IF f = "opc_parse" THEN 2
                ELSE IF f = "opc_prop" THEN [p["opc_prop"] EXCEPT !["Value"] = p.opc_data] ELSE p[f]]
    BY <1>4, <2>2, InfoNames DEF IsInfo, IsOver
  <2>4. SameOutside(p, q) /\ q.made = Told(v)
    <3>1. Told(v) = Nothing
      BY <1>14, TpyParts, ToldNothing DEF Telling
    <3> QED BY <1>4, <2>3, <3>1, InfoNames DEF SameOutside, IsInfo, IsOver
  <2>5. KnowsSymbol(q, w)
    BY <1>1, <1>2, <1>3, <1>4, <1>14, <2>3, InfoNames
       DEF KnowsSymbol, SymbolLevels, SymbolRead, PropertyRead, Reading, OpcLevel, Numbers,
           SymbolPart, IsInfo, IsOver, SymbolFields, PropertyFields
  <2> QED BY <1>6, <2>4, <2>5
<1>15. CASE v.at = "SymbolProperty"
  <2>1. n = "Property" /\ p.opc_parse = 2
    BY <1>1, <1>2, <1>4, <1>15, TpyOwnsAre DEF SymbolLevels, OpcLevel
  <2>2. q = endProperty(p, "Symbol")
    BY <1>5, <2>1 DEF endInSymbol, Numbers
  <2>3. /\ p.opc_prop["Name"] = v.value["SymbolPropertyName"]
        /\ p.opc_prop["Value"] = v.value["SymbolPropertyValue"]
    BY <1>4, <1>15 DEF PropertyRead
  <2>4. Told(v) = PropertyTold(v, "Symbol", "SymbolPropertyName", "SymbolPropertyValue")
    BY <1>1, <1>15, TpyParts DEF Told
  <2>5. /\ q.made = Told(v)
        /\ q = [f \in InfoFields |-> IF f = "opc_parse" THEN 1
                                     ELSE IF f = "made" THEN q.made ELSE p[f]]
    BY <1>4, <2>2, <2>3, <2>4, EndProperty
  <2>6. SameOutside(p, q)
    BY <1>4, <2>5, InfoNames DEF SameOutside, IsInfo, IsOver
  <2>7. KnowsSymbol(q, w)
    BY <1>1, <1>2, <1>3, <1>4, <1>15, <2>5, InfoNames
       DEF KnowsSymbol, SymbolLevels, SymbolRead, PropertyRead, Reading, OpcLevel, Numbers,
           SymbolPart
  <2> QED BY <1>6, <2>5, <2>6, <2>7
<1> QED BY <1>7, <1>8, <1>9, <1>10, <1>11, <1>12, <1>13, <1>14, <1>15 DEF TpySymbolPlaces

TypeTexts == {"TypeName", "TypeType", "TypeBitSize"}
ItemTexts == {"ItemName", "ItemType", "ItemBitSize", "BitOffs"}

\* An element ends in a type.
LEMMA EndsInType ==
  ASSUME NEW p, NEW v, NEW w, NEW n, IsView(v), ~v.cdata, ~w.cdata, Knows(p, v),
         p.made = Nothing, EndsPlace(v, w, n), v.at \in TypePlaces \ {"DataType"}
  PROVE  Knows(endElement(p, n), w) /\ endElement(p, n).made = Told(v)
<1>1. /\ w.at = tpyUp[v.at] /\ tpyOwn[v.at] = n /\ v.deeper = 0 /\ w.deeper = 0
      /\ \A j \in TpyPlaces \ {Root} : tpyDepth[j] <= tpyDepth[v.at] =>
           /\ w.text[j] = v.text[j] /\ w.value[j] = v.value[j]
           /\ (j \in w.seen <=> j \in v.seen) /\ (j \in w.section <=> j \in v.section)
      /\ v.at \in v.seen
  BY DEF EndsPlace, IsView
<1>2. /\ w.at \in TypePlaces \ {"FbInfo"} /\ n \notin SectionTags
      /\ v.at \in {"TypeName", "TypeType", "TypeBitSize", "ArrayInfo", "EnumInfo", "SubItem",
                   "FbInfo", "TypeProperties"} => w.at = "DataType"
      /\ v.at \in {"LBound", "Elements"} => w.at = "ArrayInfo"
      /\ v.at \in {"Enum", "Text", "Comment"} => w.at = "EnumInfo"
      /\ v.at \in {"ItemName", "ItemType", "ItemBitSize", "BitOffs", "ItemProperties"} =>
           w.at = "SubItem"
      /\ v.at = "ItemProperty" => w.at = "ItemProperties"
      /\ v.at \in {"ItemPropertyName", "ItemPropertyValue"} => w.at = "ItemProperty"
      /\ v.at = "TypeProperty" => w.at = "TypeProperties"
      /\ v.at \in {"TypePropertyName", "TypePropertyValue"} => w.at = "TypeProperty"
  BY <1>1, TpyUpsAre, TpyOwnsAre DEF TypePlaces, ItemPlaces, SectionTags
<1>3. /\ \A j \in TypeTexts \cup {"ArrayInfo", "EnumInfo", "SubItem", "FbInfo"} :
           w.text[j] = v.text[j] /\ (j \in w.seen <=> j \in v.seen)
      /\ v.at \in BoundFields => \A j \in BoundFields : w.text[j] = v.text[j]
      /\ v.at \in {"Enum", "Text", "Comment"} => \A j \in EnumFields : w.text[j] = v.text[j]
      /\ v.at \in ItemPlaces \ {"SubItem"} => \A j \in ItemTexts : w.text[j] = v.text[j]
      /\ v.at \in {"TypePropertyName", "TypePropertyValue"} =>
           \A j \in {"TypePropertyName", "TypePropertyValue"} : w.value[j] = v.value[j]
      /\ v.at \in {"ItemPropertyName", "ItemPropertyValue"} =>
           \A j \in {"ItemPropertyName", "ItemPropertyValue"} : w.value[j] = v.value[j]
  <2>1. /\ tpyDepth[v.at] >= 4
        /\ (v.at \in BoundFields \cup {"Enum", "Text", "Comment"} => tpyDepth[v.at] = 5)
        /\ v.at \in ItemPlaces \ {"SubItem"} => tpyDepth[v.at] >= 5
        /\ v.at \in {"TypePropertyName", "TypePropertyValue"} => tpyDepth[v.at] = 6
        /\ v.at \in {"ItemPropertyName", "ItemPropertyValue"} => tpyDepth[v.at] = 7
    BY TpyDepthsAre DEF TypePlaces, ItemPlaces, BoundFields
  <2>2. ASSUME NEW j \in TpyPlaces \ {Root}, tpyDepth[j] <= tpyDepth[v.at]
        PROVE  w.text[j] = v.text[j] /\ w.value[j] = v.value[j] /\ (j \in w.seen <=> j \in v.seen)
    BY <1>1, <2>2
  <2>3. \A j \in TypeTexts \cup {"ArrayInfo", "EnumInfo", "SubItem", "FbInfo"} :
           j \in TpyPlaces \ {Root} /\ tpyDepth[j] = 4
    BY TpyDepthsAre, TpyPlacesAre DEF Root, TypeTexts
  <2>4. \A j \in BoundFields \cup EnumFields \cup ItemTexts :
          j \in TpyPlaces \ {Root} /\ tpyDepth[j] = 5
    BY TpyDepthsAre, TpyPlacesAre DEF Root, ItemTexts, BoundFields, EnumFields
  <2>5. \A j \in {"TypePropertyName", "TypePropertyValue"} : j \in TpyPlaces \ {Root} /\ tpyDepth[j] = 6
    BY TpyDepthsAre, TpyPlacesAre DEF Root
  <2>6. \A j \in {"ItemPropertyName", "ItemPropertyValue"} : j \in TpyPlaces \ {Root} /\ tpyDepth[j] = 7
    BY TpyDepthsAre, TpyPlacesAre DEF Root
  <2>7. /\ v.at \in TpyPlaces /\ tpyDepth[v.at] \in Nat
    BY TpyFunctions DEF IsView
  <2> QED BY <2>1, <2>2, <2>3, <2>4, <2>5, <2>6, <2>7
<1>4. /\ p.ignore = (IF v.at = "FbInfo" THEN 1 ELSE 0) /\ p.routing = 0 /\ p.compiler = 0
      /\ p.symbols = 0 /\ p.types = 2 /\ IsInfo(p) /\ KnowsType(p, v) /\ p.projects = TRUE
  <2>1. v.at \notin TpySymbolPlaces
    BY TpyParts
  <2>2. IsInfo(p) /\ KnowsType(p, v) /\ Whereabouts(p, v)
    BY DEF Knows
  <2>3. /\ v.at \notin AddressPlaces \cup DOMAIN RoutingLevel \cup DOMAIN CompilerLevel
        /\ v.at \notin {Root, "RoutingInfo", "AdsInfo", "CompilerInfo", "Symbols", "DataTypes"}
    BY TpyParts DEF AddressLeaves
  <2>4. v.at \in TypePlaces /\ v.deeper = 0
    BY <1>1
  <2>5. p.ignore = (IF v.at = "FbInfo" THEN 1 ELSE 0)
    BY <2>2, <2>3, <2>4 DEF Whereabouts
  <2>6. p.routing = 0 /\ p.compiler = 0 /\ p.projects = TRUE
    BY <2>2, <2>3 DEF Whereabouts
  <2>7. p.symbols = 0 /\ p.types = 2
    BY <2>1, <2>2, <2>3, <2>4 DEF Whereabouts
  <2> QED BY <2>2, <2>5, <2>6, <2>7
<1>5. PICK q : q = endInType(p, n)
  OBVIOUS
<1>6. ASSUME v.at # "FbInfo", SameOutside(p, q), q.made = Told(v), KnowsType(q, w)
      PROVE  Knows(endElement(p, n), w) /\ endElement(p, n).made = Told(v)
  <2>1. Whereabouts(q, w) /\ Shallow(w) /\ w.at \notin AddressLeaves
    BY <1>1, <1>2, <1>6, StaysInside
  <2>2. endElement(p, n) = q
    BY <1>2, <1>4, <1>5, <1>6, EndedInside
  <2> QED BY <1>2, <1>6, <2>1, <2>2, TpyParts DEF Knows, SameOutside
<1>7. CASE v.at = "TypeName"
  <2>1. n = "Name" /\ p.name_parse = 2 /\ p.struct_parse \in {0, 1} /\ p.opc_parse = 0
    BY <1>1, <1>2, <1>4, <1>7, TpyOwnsAre
       DEF KnowsType, TypeLevels, Reading, OpcLevel, ItemPlaces, BoundFields
  <2>2. q = [p EXCEPT !.name_parse = 1]
    BY <1>5, <2>1 DEF endInType, BoundFields, EnumFields
  <2>3. q = [f \in InfoFields |-> IF f = "name_parse" THEN 1 ELSE p[f]]
    BY <1>4, <2>2, InfoNames DEF IsInfo, IsOver
  <2>4. Told(v) = Nothing
    BY <1>7, TpyParts, ToldNothing DEF Telling
  <2>5. SameOutside(p, q) /\ q.made = Told(v)
    BY <1>4, <2>3, <2>4, InfoNames DEF SameOutside, IsInfo, IsOver
  <2>6. KnowsType(q, w)
    BY <1>1, <1>2, <1>3, <1>4, <1>7, <2>1, <2>3, InfoNames
       DEF KnowsType, TypeLevels, TypeRead, ArrayRead, EnumRead, ItemRead, PropertyRead, Reading,
           OpcLevel, ItemPlaces, BoundFields, EnumFields, TypeTexts, ItemTexts, ItemPart
  <2> QED BY <1>6, <1>7, <2>5, <2>6
<1>8. CASE v.at = "TypeType"
  <2>1. n = "Type" /\ p.type_parse = 2 /\ p.struct_parse \in {0, 1}
    BY <1>1, <1>2, <1>4, <1>8, TpyOwnsAre
       DEF KnowsType, TypeLevels, Reading, OpcLevel, ItemPlaces, BoundFields
  <2>2. q = [p EXCEPT !.type_parse = 1]
    BY <1>5, <2>1 DEF endInType, BoundFields, EnumFields
  <2>3. q = [f \in InfoFields |-> IF f = "type_parse" THEN 1 ELSE p[f]]
    BY <1>4, <2>2, InfoNames DEF IsInfo, IsOver
  <2>4. Told(v) = Nothing
    BY <1>8, TpyParts, ToldNothing DEF Telling
  <2>5. SameOutside(p, q) /\ q.made = Told(v)
    BY <1>4, <2>3, <2>4, InfoNames DEF SameOutside, IsInfo, IsOver
  <2>6. KnowsType(q, w)
    BY <1>1, <1>2, <1>3, <1>4, <1>8, <2>1, <2>3, InfoNames
       DEF KnowsType, TypeLevels, TypeRead, ArrayRead, EnumRead, ItemRead, PropertyRead, Reading,
           OpcLevel, ItemPlaces, BoundFields, EnumFields, TypeTexts, ItemTexts, ItemPart
  <2> QED BY <1>6, <1>8, <2>5, <2>6
<1>9. CASE v.at = "TypeBitSize"
  <2>1. n = "BitSize" /\ p.number_parse[n] = 2 /\ p.struct_parse \in {0, 1}
    BY <1>1, <1>2, <1>4, <1>9, TpyOwnsAre
       DEF KnowsType, TypeLevels, Reading, OpcLevel, ItemPlaces, BoundFields
  <2>2. q = [p EXCEPT !.number_parse["BitSize"] = 1, !.rec["BitSize"] = p.data]
    BY <1>5, <2>1 DEF endInType, BoundFields, EnumFields
  <2>3. q = [f \in InfoFields |-> IF f = "number_parse" THEN [p["number_parse"] EXCEPT !["BitSize"] = 1]
                                  ELSE IF f = "rec" THEN [p["rec"] EXCEPT !["BitSize"] = p.data]
                                  ELSE p[f]]
    BY <1>4, <2>2, InfoNames DEF IsInfo, IsOver
  <2>4. Told(v) = Nothing
    BY <1>9, TpyParts, ToldNothing DEF Telling
  <2>5. SameOutside(p, q) /\ q.made = Told(v)
    BY <1>4, <2>3, <2>4, InfoNames DEF SameOutside, IsInfo, IsOver
  <2>6. KnowsType(q, w)
    BY <1>1, <1>2, <1>3, <1>4, <1>9, <2>1, <2>3, InfoNames
       DEF KnowsType, TypeLevels, TypeRead, ArrayRead, EnumRead, ItemRead, PropertyRead, Reading,
           OpcLevel, ItemPlaces, BoundFields, EnumFields, TypeTexts, ItemTexts, ItemPart, IsInfo, IsOver,
           Numbers, TypeFields
  <2> QED BY <1>6, <1>9, <2>5, <2>6
<1>10. CASE v.at = "ArrayInfo"
  <2>1. n = "ArrayInfo" /\ p.array_parse = 2
    BY <1>1, <1>2, <1>4, <1>10, TpyOwnsAre
       DEF KnowsType, TypeLevels, Reading, OpcLevel, ItemPlaces, BoundFields
  <2>2. p.array_bounds = TextsTold(v, BoundPart)
    BY <1>4, <1>10 DEF KnowsType, ArrayRead, IsInfo, IsOver, TextsTold, BoundPart, BoundFields
  <2>3. q = [f \in InfoFields |-> IF f = "array_parse" THEN 1
                                 ELSE IF f = "made" THEN q.made ELSE p[f]]
        /\ q.made = Told(v)
    <3>1. p.array_bounds["Elements"] = v.text["Elements"]
      BY <2>2 DEF TextsTold, BoundPart, BoundFields
    <3>2. CASE p.array_bounds["Elements"] # {}
      <4>1. q = Store([p EXCEPT !.array_parse = 1], n, p.array_bounds)
        BY <1>5, <2>1, <3>2 DEF endInType, BoundFields, EnumFields
      <4>2. q = [f \in InfoFields |-> IF f = "array_parse" THEN 1
                  ELSE IF f = "made" THEN Stored(n, p.array_bounds) ELSE p[f]]
        BY <1>4, <4>1, InfoNames DEF IsInfo, IsOver, Store
      <4>3. Told(v) = Stored(n, p.array_bounds)
        BY <1>1, <1>10, <2>1, <2>2, <3>1, <3>2, TpyParts DEF Told
      <4> QED BY <4>2, <4>3, InfoNames
    <3>3. CASE p.array_bounds["Elements"] = {}
      <4>1. q = [p EXCEPT !.array_parse = 1]
        BY <1>5, <2>1, <3>3 DEF endInType, BoundFields, EnumFields
      <4>2. q = [f \in InfoFields |-> IF f = "array_parse" THEN 1 ELSE p[f]]
        BY <1>4, <4>1, InfoNames DEF IsInfo, IsOver
      <4>3. Told(v) = Nothing
        BY <1>1, <1>10, <2>1, <2>2, <3>1, <3>3, TpyParts DEF Told
      <4> QED BY <4>2, <4>3, InfoNames
    <3> QED BY <3>2, <3>3
  <2>4. SameOutside(p, q)
    BY <1>4, <2>3, InfoNames DEF SameOutside, IsInfo, IsOver
  <2>6. KnowsType(q, w)
    BY <1>1, <1>2, <1>3, <1>4, <1>10, <2>1, <2>3, InfoNames
       DEF KnowsType, TypeLevels, TypeRead, ArrayRead, EnumRead, ItemRead, PropertyRead, Reading,
           OpcLevel, ItemPlaces, BoundFields, EnumFields, TypeTexts, ItemTexts, ItemPart
  <2> QED BY <1>6, <1>10, <2>3, <2>4, <2>6
<1>11. CASE v.at = "LBound"
  <2>1. n = "LBound" /\ p.array_parse = 3
    BY <1>1, <1>2, <1>4, <1>11, TpyOwnsAre
       DEF KnowsType, TypeLevels, Reading, OpcLevel, ItemPlaces, BoundFields
  <2>2. q = [p EXCEPT !.array_bounds["LBound"] = p.array_data, !.array_parse = 2]
    BY <1>5, <2>1 DEF endInType, BoundFields, EnumFields
  <2>3. q = [f \in InfoFields |->
                IF f = "array_bounds" THEN [p["array_bounds"] EXCEPT !["LBound"] = p.array_data]
                ELSE IF f = "array_parse" THEN 2 ELSE p[f]]
    BY <1>4, <2>2, InfoNames DEF IsInfo, IsOver
  <2>4. Told(v) = Nothing
    BY <1>11, TpyParts, ToldNothing DEF Telling
  <2>5. SameOutside(p, q) /\ q.made = Told(v)
    BY <1>4, <2>3, <2>4, InfoNames DEF SameOutside, IsInfo, IsOver
  <2>6. KnowsType(q, w)
    BY <1>1, <1>2, <1>3, <1>4, <1>11, <2>1, <2>3, InfoNames
       DEF KnowsType, TypeLevels, TypeRead, ArrayRead, EnumRead, ItemRead, PropertyRead, Reading,
           OpcLevel, ItemPlaces, BoundFields, EnumFields, TypeTexts, ItemTexts, ItemPart, IsInfo, IsOver
  <2> QED BY <1>6, <1>11, <2>5, <2>6
<1>12. CASE v.at = "Elements"
  <2>1. n = "Elements" /\ p.array_parse = 3
    BY <1>1, <1>2, <1>4, <1>12, TpyOwnsAre
       DEF KnowsType, TypeLevels, Reading, OpcLevel, ItemPlaces, BoundFields
  <2>2. q = [p EXCEPT !.array_bounds["Elements"] = p.array_data, !.array_parse = 2]
    BY <1>5, <2>1 DEF endInType, BoundFields, EnumFields
  <2>3. q = [f \in InfoFields |->
                IF f = "array_bounds" THEN [p["array_bounds"] EXCEPT !["Elements"] = p.array_data]
                ELSE IF f = "array_parse" THEN 2 ELSE p[f]]
    BY <1>4, <2>2, InfoNames DEF IsInfo, IsOver
  <2>4. Told(v) = Nothing
    BY <1>12, TpyParts, ToldNothing DEF Telling
  <2>5. SameOutside(p, q) /\ q.made = Told(v)
    BY <1>4, <2>3, <2>4, InfoNames DEF SameOutside, IsInfo, IsOver
  <2>6. KnowsType(q, w)
    BY <1>1, <1>2, <1>3, <1>4, <1>12, <2>1, <2>3, InfoNames
       DEF KnowsType, TypeLevels, TypeRead, ArrayRead, EnumRead, ItemRead, PropertyRead, Reading,
           OpcLevel, ItemPlaces, BoundFields, EnumFields, TypeTexts, ItemTexts, ItemPart, IsInfo, IsOver
  <2> QED BY <1>6, <1>12, <2>5, <2>6
<1>13. CASE v.at = "EnumInfo"
  <2>1. n = "EnumInfo" /\ p.enum_parse = 2
    BY <1>1, <1>2, <1>4, <1>13, TpyOwnsAre
       DEF KnowsType, TypeLevels, Reading, OpcLevel, ItemPlaces, BoundFields
  <2>1e. p.enum_element = TextsTold(v, EnumPart)
    BY <1>4, <1>13 DEF KnowsType, EnumRead, IsInfo, IsOver, TextsTold, EnumPart, EnumFields
  <2>2. q = Store([p EXCEPT !.enum_parse = 1], n, p.enum_element)
    BY <1>5, <2>1, <2>1e DEF endInType, BoundFields, EnumFields, Store
  <2>3. q = [f \in InfoFields |-> IF f = "enum_parse" THEN 1
                                  ELSE IF f = "made" THEN Stored(n, p.enum_element) ELSE p[f]]
    BY <1>4, <2>2, InfoNames DEF IsInfo, IsOver, Store
  <2>4. Told(v) = Stored(n, p.enum_element)
    BY <1>1, <1>4, <1>13, <2>1, <2>1e, TpyParts DEF Told
  <2>5. SameOutside(p, q) /\ q.made = Told(v)
    BY <1>4, <2>1, <2>3, <2>4, <2>1e, InfoNames DEF SameOutside, IsInfo, IsOver
  <2>6. KnowsType(q, w)
    BY <1>1, <1>2, <1>3, <1>4, <1>13, <2>1, <2>3, InfoNames
       DEF KnowsType, TypeLevels, TypeRead, ArrayRead, EnumRead, ItemRead, PropertyRead, Reading,
           OpcLevel, ItemPlaces, BoundFields, EnumFields, TypeTexts, ItemTexts, ItemPart
  <2> QED BY <1>6, <1>13, <2>5, <2>6
<1>14. CASE v.at = "Enum"
  <2>1. n = "Enum" /\ p.enum_parse = 3
    BY <1>1, <1>2, <1>4, <1>14, TpyOwnsAre
       DEF KnowsType, TypeLevels, Reading, OpcLevel, ItemPlaces, BoundFields
  <2>2. q = [p EXCEPT !.enum_element["Enum"] = p.enum_data, !.enum_parse = 2]
    BY <1>5, <2>1 DEF endInType, BoundFields, EnumFields
  <2>3. q = [f \in InfoFields |->
                IF f = "enum_element" THEN [p["enum_element"] EXCEPT !["Enum"] = p.enum_data]
                ELSE IF f = "enum_parse" THEN 2 ELSE p[f]]
    BY <1>4, <2>2, InfoNames DEF IsInfo, IsOver
  <2>4. Told(v) = Nothing
    BY <1>14, TpyParts, ToldNothing DEF Telling
  <2>5. SameOutside(p, q) /\ q.made = Told(v)
    BY <1>4, <2>3, <2>4, InfoNames DEF SameOutside, IsInfo, IsOver
  <2>6. KnowsType(q, w)
    BY <1>1, <1>2, <1>3, <1>4, <1>14, <2>1, <2>3, InfoNames
       DEF KnowsType, TypeLevels, TypeRead, ArrayRead, EnumRead, ItemRead, PropertyRead, Reading,
           OpcLevel, ItemPlaces, BoundFields, EnumFields, TypeTexts, ItemTexts, ItemPart, IsInfo, IsOver
  <2> QED BY <1>6, <1>14, <2>5, <2>6
<1>15. CASE v.at = "Text"
  <2>1. n = "Text" /\ p.enum_parse = 3
    BY <1>1, <1>2, <1>4, <1>15, TpyOwnsAre
       DEF KnowsType, TypeLevels, Reading, OpcLevel, ItemPlaces, BoundFields
  <2>2. q = [p EXCEPT !.enum_element["Text"] = p.enum_data, !.enum_parse = 2]
    BY <1>5, <2>1 DEF endInType, BoundFields, EnumFields
  <2>3. q = [f \in InfoFields |->
                IF f = "enum_element" THEN [p["enum_element"] EXCEPT !["Text"] = p.enum_data]
                ELSE IF f = "enum_parse" THEN 2 ELSE p[f]]
    BY <1>4, <2>2, InfoNames DEF IsInfo, IsOver
  <2>4. Told(v) = Nothing
    BY <1>15, TpyParts, ToldNothing DEF Telling
  <2>5. SameOutside(p, q) /\ q.made = Told(v)
    BY <1>4, <2>3, <2>4, InfoNames DEF SameOutside, IsInfo, IsOver
  <2>6. KnowsType(q, w)
    BY <1>1, <1>2, <1>3, <1>4, <1>15, <2>1, <2>3, InfoNames
       DEF KnowsType, TypeLevels, TypeRead, ArrayRead, EnumRead, ItemRead, PropertyRead, Reading,
           OpcLevel, ItemPlaces, BoundFields, EnumFields, TypeTexts, ItemTexts, ItemPart, IsInfo, IsOver
  <2> QED BY <1>6, <1>15, <2>5, <2>6
<1>16. CASE v.at = "Comment"
  <2>1. n = "Comment" /\ p.enum_parse = 3
    BY <1>1, <1>2, <1>4, <1>16, TpyOwnsAre
       DEF KnowsType, TypeLevels, Reading, OpcLevel, ItemPlaces, BoundFields
  <2>2. q = [p EXCEPT !.enum_parse = 2]
    BY <1>5, <2>1 DEF endInType, BoundFields, EnumFields
  <2>3. q = [f \in InfoFields |-> IF f = "enum_parse" THEN 2 ELSE p[f]]
    BY <1>4, <2>2, InfoNames DEF IsInfo, IsOver
  <2>4. Told(v) = Nothing
    BY <1>16, TpyParts, ToldNothing DEF Telling
  <2>5. SameOutside(p, q) /\ q.made = Told(v)
    BY <1>4, <2>3, <2>4, InfoNames DEF SameOutside, IsInfo, IsOver
  <2>6. KnowsType(q, w)
    BY <1>1, <1>2, <1>3, <1>4, <1>16, <2>1, <2>3, InfoNames
       DEF KnowsType, TypeLevels, TypeRead, ArrayRead, EnumRead, ItemRead, PropertyRead, Reading,
           OpcLevel, ItemPlaces, BoundFields, EnumFields, TypeTexts, ItemTexts, ItemPart
  <2> QED BY <1>6, <1>16, <2>5, <2>6
<1>17. CASE v.at = "SubItem"
  <2>1. n = "SubItem" /\ p.struct_parse = 2
    BY <1>1, <1>2, <1>4, <1>17, TpyOwnsAre
       DEF KnowsType, TypeLevels, Reading, OpcLevel, ItemPlaces, BoundFields
  <2>1e. p.struct_element = TextsTold(v, ItemPart)
    BY <1>4, <1>17 DEF KnowsType, ItemRead, IsInfo, IsOver, TextsTold, ItemPart, ItemFields, ItemPlaces
  <2>2. q = Store([p EXCEPT !.struct_parse = 1], n, p.struct_element)
    BY <1>5, <2>1, <2>1e DEF endInType, BoundFields, EnumFields, Store
  <2>3. q = [f \in InfoFields |-> IF f = "struct_parse" THEN 1
                                  ELSE IF f = "made" THEN Stored(n, p.struct_element) ELSE p[f]]
    BY <1>4, <2>2, InfoNames DEF IsInfo, IsOver, Store
  <2>4. Told(v) = Stored(n, p.struct_element)
    BY <1>1, <1>4, <1>17, <2>1, <2>1e, TpyParts DEF Told
  <2>5. SameOutside(p, q) /\ q.made = Told(v)
    BY <1>4, <2>1, <2>3, <2>4, <2>1e, InfoNames DEF SameOutside, IsInfo, IsOver
  <2>6. KnowsType(q, w)
    BY <1>1, <1>2, <1>3, <1>4, <1>17, <2>1, <2>3, InfoNames
       DEF KnowsType, TypeLevels, TypeRead, ArrayRead, EnumRead, ItemRead, PropertyRead, Reading,
           OpcLevel, ItemPlaces, BoundFields, EnumFields, TypeTexts, ItemTexts, ItemPart
  <2> QED BY <1>6, <1>17, <2>5, <2>6
<1>18. CASE v.at = "ItemName"
  <2>1. n = "Name" /\ p.struct_parse = 3 /\ p.name_parse \in {0, 1} /\ p.opc_parse = 0
    BY <1>1, <1>2, <1>4, <1>18, TpyOwnsAre
       DEF KnowsType, TypeLevels, Reading, OpcLevel, ItemPlaces, BoundFields
  <2>2. q = [p EXCEPT !.struct_parse = 2]
    BY <1>5, <2>1 DEF endInType, BoundFields, EnumFields
  <2>3. q = [f \in InfoFields |-> IF f = "struct_parse" THEN 2 ELSE p[f]]
    BY <1>4, <2>2, InfoNames DEF IsInfo, IsOver
  <2>4. Told(v) = Nothing
    BY <1>18, TpyParts, ToldNothing DEF Telling
  <2>5. SameOutside(p, q) /\ q.made = Told(v)
    BY <1>4, <2>3, <2>4, InfoNames DEF SameOutside, IsInfo, IsOver
  <2>6. KnowsType(q, w)
    BY <1>1, <1>2, <1>3, <1>4, <1>18, <2>1, <2>3, InfoNames
       DEF KnowsType, TypeLevels, TypeRead, ArrayRead, EnumRead, ItemRead, PropertyRead, Reading,
           OpcLevel, ItemPlaces, BoundFields, EnumFields, TypeTexts, ItemTexts, ItemPart
  <2> QED BY <1>6, <1>18, <2>5, <2>6
<1>19. CASE v.at = "ItemType"
  <2>1. n = "Type" /\ p.struct_parse = 4 /\ p.type_parse \in {0, 1}
    BY <1>1, <1>2, <1>4, <1>19, TpyOwnsAre
       DEF KnowsType, TypeLevels, Reading, OpcLevel, ItemPlaces, BoundFields
  <2>2. q = [p EXCEPT !.struct_parse = 2]
    BY <1>5, <2>1 DEF endInType, BoundFields, EnumFields
  <2>3. q = [f \in InfoFields |-> IF f = "struct_parse" THEN 2 ELSE p[f]]
    BY <1>4, <2>2, InfoNames DEF IsInfo, IsOver
  <2>4. Told(v) = Nothing
    BY <1>19, TpyParts, ToldNothing DEF Telling
  <2>5. SameOutside(p, q) /\ q.made = Told(v)
    BY <1>4, <2>3, <2>4, InfoNames DEF SameOutside, IsInfo, IsOver
  <2>6. KnowsType(q, w)
    BY <1>1, <1>2, <1>3, <1>4, <1>19, <2>1, <2>3, InfoNames
       DEF KnowsType, TypeLevels, TypeRead, ArrayRead, EnumRead, ItemRead, PropertyRead, Reading,
           OpcLevel, ItemPlaces, BoundFields, EnumFields, TypeTexts, ItemTexts, ItemPart
  <2> QED BY <1>6, <1>19, <2>5, <2>6
<1>20. CASE v.at = "ItemBitSize"
  <2>1. n = "BitSize" /\ p.struct_parse = 5 /\ p.number_parse["BitSize"] \in {0, 1}
    BY <1>1, <1>2, <1>4, <1>20, TpyOwnsAre
       DEF KnowsType, TypeLevels, Reading, OpcLevel, ItemPlaces, BoundFields
  <2>2. q = [p EXCEPT !.struct_element["BitSize"] = p.data, !.struct_parse = 2]
    BY <1>5, <2>1 DEF endInType, BoundFields, EnumFields
  <2>3. q = [f \in InfoFields |->
                IF f = "struct_element" THEN [p["struct_element"] EXCEPT !["BitSize"] = p.data]
                ELSE IF f = "struct_parse" THEN 2 ELSE p[f]]
    BY <1>4, <2>2, InfoNames DEF IsInfo, IsOver
  <2>4. Told(v) = Nothing
    BY <1>20, TpyParts, ToldNothing DEF Telling
  <2>5. SameOutside(p, q) /\ q.made = Told(v)
    BY <1>4, <2>3, <2>4, InfoNames DEF SameOutside, IsInfo, IsOver
  <2>6. KnowsType(q, w)
    BY <1>1, <1>2, <1>3, <1>4, <1>20, <2>1, <2>3, InfoNames
       DEF KnowsType, TypeLevels, TypeRead, ArrayRead, EnumRead, ItemRead, PropertyRead, Reading,
           OpcLevel, ItemPlaces, BoundFields, EnumFields, TypeTexts, ItemTexts, ItemPart, IsInfo, IsOver,
           ItemFields
  <2> QED BY <1>6, <1>20, <2>5, <2>6
<1>21. CASE v.at = "BitOffs"
  <2>1. n = "BitOffs" /\ p.struct_parse = 5 /\ p.number_parse["BitSize"] \in {0, 1}
    BY <1>1, <1>2, <1>4, <1>21, TpyOwnsAre
       DEF KnowsType, TypeLevels, Reading, OpcLevel, ItemPlaces, BoundFields
  <2>2. q = [p EXCEPT !.struct_element["BitOffs"] = p.data, !.struct_parse = 2]
    BY <1>5, <2>1 DEF endInType, BoundFields, EnumFields
  <2>3. q = [f \in InfoFields |->
                IF f = "struct_element" THEN [p["struct_element"] EXCEPT !["BitOffs"] = p.data]
                ELSE IF f = "struct_parse" THEN 2 ELSE p[f]]
    BY <1>4, <2>2, InfoNames DEF IsInfo, IsOver
  <2>4. Told(v) = Nothing
    BY <1>21, TpyParts, ToldNothing DEF Telling
  <2>5. SameOutside(p, q) /\ q.made = Told(v)
    BY <1>4, <2>3, <2>4, InfoNames DEF SameOutside, IsInfo, IsOver
  <2>6. KnowsType(q, w)
    BY <1>1, <1>2, <1>3, <1>4, <1>21, <2>1, <2>3, InfoNames
       DEF KnowsType, TypeLevels, TypeRead, ArrayRead, EnumRead, ItemRead, PropertyRead, Reading,
           OpcLevel, ItemPlaces, BoundFields, EnumFields, TypeTexts, ItemTexts, ItemPart, IsInfo, IsOver,
           ItemFields
  <2> QED BY <1>6, <1>21, <2>5, <2>6
<1>22. CASE v.at = "TypeProperties"
  <2>1. n = "Properties" /\ p.opc_parse = 1
    BY <1>1, <1>2, <1>4, <1>22, TpyOwnsAre
       DEF KnowsType, TypeLevels, Reading, OpcLevel, ItemPlaces, BoundFields
  <2>2. q = [p EXCEPT !.opc_parse = 0, !.opc_cur = "none"]
    BY <1>5, <2>1 DEF endInType, BoundFields, EnumFields
  <2>3. q = [f \in InfoFields |-> IF f = "opc_parse" THEN 0 ELSE IF f = "opc_cur" THEN "none" ELSE p[f]]
    BY <1>4, <2>2, InfoNames DEF IsInfo, IsOver
  <2>4. Told(v) = Nothing
    BY <1>22, TpyParts, ToldNothing DEF Telling
  <2>5. SameOutside(p, q) /\ q.made = Told(v)
    BY <1>4, <2>3, <2>4, InfoNames DEF SameOutside, IsInfo, IsOver
  <2>6. KnowsType(q, w)
    BY <1>1, <1>2, <1>3, <1>4, <1>22, <2>1, <2>3, InfoNames
       DEF KnowsType, TypeLevels, TypeRead, ArrayRead, EnumRead, ItemRead, PropertyRead, Reading,
           OpcLevel, ItemPlaces, BoundFields, EnumFields, TypeTexts, ItemTexts, ItemPart
  <2> QED BY <1>6, <1>22, <2>5, <2>6
<1>23. CASE v.at = "TypePropertyName"
  <2>1. n = "Name" /\ p.opc_parse = 3 /\ p.name_parse \in {0, 1} /\ p.struct_parse \in {0, 1, 2}
    BY <1>1, <1>2, <1>4, <1>23, TpyOwnsAre
       DEF KnowsType, TypeLevels, Reading, OpcLevel, ItemPlaces, BoundFields
  <2>2. q = [p EXCEPT !.opc_parse = 2, !.opc_prop["Name"] = p.opc_data]
    BY <1>5, <2>1 DEF endInType, BoundFields, EnumFields, endPropertyPart
  <2>3. q = [f \in InfoFields |->
                IF f = "opc_parse" THEN 2
                ELSE IF f = "opc_prop" THEN [p["opc_prop"] EXCEPT !["Name"] = p.opc_data] ELSE p[f]]
    BY <1>4, <2>2, InfoNames DEF IsInfo, IsOver
  <2>4. Told(v) = Nothing
    BY <1>23, TpyParts, ToldNothing DEF Telling
  <2>5. SameOutside(p, q) /\ q.made = Told(v)
    BY <1>4, <2>3, <2>4, InfoNames DEF SameOutside, IsInfo, IsOver
  <2>6. KnowsType(q, w)
    BY <1>1, <1>2, <1>3, <1>4, <1>23, <2>1, <2>3, InfoNames
       DEF KnowsType, TypeLevels, TypeRead, ArrayRead, EnumRead, ItemRead, PropertyRead, Reading,
           OpcLevel, ItemPlaces, BoundFields, EnumFields, TypeTexts, ItemTexts, ItemPart, IsInfo, IsOver,
           PropertyFields
  <2> QED BY <1>6, <1>23, <2>5, <2>6
<1>24. CASE v.at = "TypePropertyValue"
  <2>1. n = "Value" /\ p.opc_parse = 4 /\ p.name_parse \in {0, 1} /\ p.struct_parse \in {0, 1, 2}
    BY <1>1, <1>2, <1>4, <1>24, TpyOwnsAre
       DEF KnowsType, TypeLevels, Reading, OpcLevel, ItemPlaces, BoundFields
  <2>2. q = [p EXCEPT !.opc_parse = 2, !.opc_prop["Value"] = p.opc_data]
    BY <1>5, <2>1 DEF endInType, BoundFields, EnumFields, endPropertyPart
  <2>3. q = [f \in InfoFields |->
                IF f = "opc_parse" THEN 2
                ELSE IF f = "opc_prop" THEN [p["opc_prop"] EXCEPT !["Value"] = p.opc_data] ELSE p[f]]
    BY <1>4, <2>2, InfoNames DEF IsInfo, IsOver
  <2>4. Told(v) = Nothing
    BY <1>24, TpyParts, ToldNothing DEF Telling
  <2>5. SameOutside(p, q) /\ q.made = Told(v)
    BY <1>4, <2>3, <2>4, InfoNames DEF SameOutside, IsInfo, IsOver
  <2>6. KnowsType(q, w)
    BY <1>1, <1>2, <1>3, <1>4, <1>24, <2>1, <2>3, InfoNames
       DEF KnowsType, TypeLevels, TypeRead, ArrayRead, EnumRead, ItemRead, PropertyRead, Reading,
           OpcLevel, ItemPlaces, BoundFields, EnumFields, TypeTexts, ItemTexts, ItemPart, IsInfo, IsOver,
           PropertyFields
  <2> QED BY <1>6, <1>24, <2>5, <2>6
<1>25. CASE v.at = "TypeProperty"
  <2>1. n = "Property" /\ p.opc_parse = 2 /\ p.opc_cur = "DataType"
    BY <1>1, <1>2, <1>4, <1>25, TpyOwnsAre DEF KnowsType, TypeLevels, OpcLevel, ItemPlaces
  <2>2. q = endProperty(p, "DataType")
    BY <1>5, <2>1 DEF endInType, BoundFields, EnumFields
  <2>3. /\ p.opc_prop["Name"] = v.value["TypePropertyName"]
        /\ p.opc_prop["Value"] = v.value["TypePropertyValue"]
    BY <1>4, <1>25 DEF KnowsType, PropertyRead
  <2>4. Told(v) = PropertyTold(v, "DataType", "TypePropertyName", "TypePropertyValue")
    BY <1>1, <1>25, TpyParts DEF Told
  <2>5. /\ q.made = Told(v)
        /\ q = [f \in InfoFields |-> IF f = "opc_parse" THEN 1
                                     ELSE IF f = "made" THEN q.made ELSE p[f]]
    BY <1>4, <2>2, <2>3, <2>4, EndProperty
  <2>6. SameOutside(p, q)
    BY <1>4, <2>5, InfoNames DEF SameOutside, IsInfo, IsOver
  <2>7. KnowsType(q, w)
    BY <1>1, <1>2, <1>3, <1>4, <1>25, <2>1, <2>5, InfoNames
       DEF KnowsType, TypeLevels, TypeRead, ArrayRead, EnumRead, ItemRead, PropertyRead, Reading,
           OpcLevel, ItemPlaces, BoundFields, EnumFields, TypeTexts, ItemTexts, ItemPart
  <2> QED BY <1>6, <1>25, <2>5, <2>6, <2>7
<1>26. CASE v.at = "ItemProperties"
  <2>1. n = "Properties" /\ p.opc_parse = 1
    BY <1>1, <1>2, <1>4, <1>26, TpyOwnsAre
       DEF KnowsType, TypeLevels, Reading, OpcLevel, ItemPlaces, BoundFields
  <2>2. q = [p EXCEPT !.opc_parse = 0, !.opc_cur = "none"]
    BY <1>5, <2>1 DEF endInType, BoundFields, EnumFields
  <2>3. q = [f \in InfoFields |-> IF f = "opc_parse" THEN 0 ELSE IF f = "opc_cur" THEN "none" ELSE p[f]]
    BY <1>4, <2>2, InfoNames DEF IsInfo, IsOver
  <2>4. Told(v) = Nothing
    BY <1>26, TpyParts, ToldNothing DEF Telling
  <2>5. SameOutside(p, q) /\ q.made = Told(v)
    BY <1>4, <2>3, <2>4, InfoNames DEF SameOutside, IsInfo, IsOver
  <2>6. KnowsType(q, w)
    BY <1>1, <1>2, <1>3, <1>4, <1>26, <2>1, <2>3, InfoNames
       DEF KnowsType, TypeLevels, TypeRead, ArrayRead, EnumRead, ItemRead, PropertyRead, Reading,
           OpcLevel, ItemPlaces, BoundFields, EnumFields, TypeTexts, ItemTexts, ItemPart
  <2> QED BY <1>6, <1>26, <2>5, <2>6
<1>27. CASE v.at = "ItemPropertyName"
  <2>1. n = "Name" /\ p.opc_parse = 3 /\ p.name_parse \in {0, 1} /\ p.struct_parse \in {0, 1, 2}
    BY <1>1, <1>2, <1>4, <1>27, TpyOwnsAre
       DEF KnowsType, TypeLevels, Reading, OpcLevel, ItemPlaces, BoundFields
  <2>2. q = [p EXCEPT !.opc_parse = 2, !.opc_prop["Name"] = p.opc_data]
    BY <1>5, <2>1 DEF endInType, BoundFields, EnumFields, endPropertyPart
  <2>3. q = [f \in InfoFields |->
                IF f = "opc_parse" THEN 2
                ELSE IF f = "opc_prop" THEN [p["opc_prop"] EXCEPT !["Name"] = p.opc_data] ELSE p[f]]
    BY <1>4, <2>2, InfoNames DEF IsInfo, IsOver
  <2>4. Told(v) = Nothing
    BY <1>27, TpyParts, ToldNothing DEF Telling
  <2>5. SameOutside(p, q) /\ q.made = Told(v)
    BY <1>4, <2>3, <2>4, InfoNames DEF SameOutside, IsInfo, IsOver
  <2>6. KnowsType(q, w)
    BY <1>1, <1>2, <1>3, <1>4, <1>27, <2>1, <2>3, InfoNames
       DEF KnowsType, TypeLevels, TypeRead, ArrayRead, EnumRead, ItemRead, PropertyRead, Reading,
           OpcLevel, ItemPlaces, BoundFields, EnumFields, TypeTexts, ItemTexts, ItemPart, IsInfo, IsOver,
           PropertyFields
  <2> QED BY <1>6, <1>27, <2>5, <2>6
<1>28. CASE v.at = "ItemPropertyValue"
  <2>1. n = "Value" /\ p.opc_parse = 4 /\ p.name_parse \in {0, 1} /\ p.struct_parse \in {0, 1, 2}
    BY <1>1, <1>2, <1>4, <1>28, TpyOwnsAre
       DEF KnowsType, TypeLevels, Reading, OpcLevel, ItemPlaces, BoundFields
  <2>2. q = [p EXCEPT !.opc_parse = 2, !.opc_prop["Value"] = p.opc_data]
    BY <1>5, <2>1 DEF endInType, BoundFields, EnumFields, endPropertyPart
  <2>3. q = [f \in InfoFields |->
                IF f = "opc_parse" THEN 2
                ELSE IF f = "opc_prop" THEN [p["opc_prop"] EXCEPT !["Value"] = p.opc_data] ELSE p[f]]
    BY <1>4, <2>2, InfoNames DEF IsInfo, IsOver
  <2>4. Told(v) = Nothing
    BY <1>28, TpyParts, ToldNothing DEF Telling
  <2>5. SameOutside(p, q) /\ q.made = Told(v)
    BY <1>4, <2>3, <2>4, InfoNames DEF SameOutside, IsInfo, IsOver
  <2>6. KnowsType(q, w)
    BY <1>1, <1>2, <1>3, <1>4, <1>28, <2>1, <2>3, InfoNames
       DEF KnowsType, TypeLevels, TypeRead, ArrayRead, EnumRead, ItemRead, PropertyRead, Reading,
           OpcLevel, ItemPlaces, BoundFields, EnumFields, TypeTexts, ItemTexts, ItemPart, IsInfo, IsOver,
           PropertyFields
  <2> QED BY <1>6, <1>28, <2>5, <2>6
<1>29. CASE v.at = "ItemProperty"
  <2>1. n = "Property" /\ p.opc_parse = 2 /\ p.opc_cur = "SubItem"
    BY <1>1, <1>2, <1>4, <1>29, TpyOwnsAre DEF KnowsType, TypeLevels, OpcLevel, ItemPlaces
  <2>2. q = endProperty(p, "SubItem")
    BY <1>5, <2>1 DEF endInType, BoundFields, EnumFields
  <2>3. /\ p.opc_prop["Name"] = v.value["ItemPropertyName"]
        /\ p.opc_prop["Value"] = v.value["ItemPropertyValue"]
    BY <1>4, <1>29 DEF KnowsType, PropertyRead
  <2>4. Told(v) = PropertyTold(v, "SubItem", "ItemPropertyName", "ItemPropertyValue")
    BY <1>1, <1>29, TpyParts DEF Told
  <2>5. /\ q.made = Told(v)
        /\ q = [f \in InfoFields |-> IF f = "opc_parse" THEN 1
                                     ELSE IF f = "made" THEN q.made ELSE p[f]]
    BY <1>4, <2>2, <2>3, <2>4, EndProperty
  <2>6. SameOutside(p, q)
    BY <1>4, <2>5, InfoNames DEF SameOutside, IsInfo, IsOver
  <2>7. KnowsType(q, w)
    BY <1>1, <1>2, <1>3, <1>4, <1>29, <2>1, <2>5, InfoNames
       DEF KnowsType, TypeLevels, TypeRead, ArrayRead, EnumRead, ItemRead, PropertyRead, Reading,
           OpcLevel, ItemPlaces, BoundFields, EnumFields, TypeTexts, ItemTexts, ItemPart
  <2> QED BY <1>6, <1>29, <2>5, <2>6, <2>7
<1>30. CASE v.at = "FbInfo"
  <2>1. p.ignore = 1
    BY <1>4, <1>30
  <2>2. PICK r : r = endElement(p, n)
    OBVIOUS
  <2>3. r = [p EXCEPT !.ignore = @ - 1]
    BY <2>1, <2>2 DEF endElement
  <2>4. r = [f \in InfoFields |-> IF f = "ignore" THEN 0 ELSE p[f]]
    BY <1>4, <2>1, <2>3, InfoNames DEF IsInfo, IsOver
  <2>5. /\ IsInfo(r) /\ r.made = p.made /\ r.ignore = 0 /\ r.projects = p.projects
        /\ r.routing = p.routing /\ r.compiler = p.compiler /\ r.symbols = p.symbols
        /\ r.types = p.types
    BY <1>4, <2>4, InfoNames DEF IsInfo, IsOver
  <2>6. KnowsType(r, w)
    BY <1>1, <1>2, <1>3, <1>4, <1>30, <2>4, InfoNames
       DEF KnowsType, TypeLevels, TypeRead, ArrayRead, EnumRead, ItemRead, PropertyRead, Reading,
           OpcLevel, ItemPlaces, BoundFields, EnumFields, TypeTexts, ItemTexts, ItemPart
  <2>7. w.at = "DataType" /\ w.at \notin AddressPlaces \cup TpySymbolPlaces \cup AddressLeaves
    BY <1>2, <1>30, TpyParts
  <2>8. Whereabouts(r, w)
    <3>1. /\ w.at # Root /\ w.at \in TypePlaces
          /\ w.at \notin DOMAIN RoutingLevel \cup DOMAIN CompilerLevel
      BY <2>7 DEF TypePlaces, Root, AddressLeaves
    <3> QED BY <1>1, <1>4, <2>5, <2>7, <3>1 DEF Whereabouts
  <2>9. Told(v) = Nothing
    BY <1>30, TpyParts, ToldNothing DEF Telling
  <2> QED BY <2>2, <2>5, <2>6, <2>7, <2>8, <2>9 DEF Knows, Shallow
<1> QED BY <1>7, <1>8, <1>9, <1>10, <1>11, <1>12, <1>13, <1>14, <1>15, <1>16, <1>17, <1>18, <1>19, <1>20,
           <1>21, <1>22, <1>23, <1>24, <1>25, <1>26, <1>27, <1>28, <1>29, <1>30 DEF TypePlaces, ItemPlaces

\* get_type_description says what the elements of the type say.
LEMMA KindRead ==
  ASSUME NEW p, NEW v,
      /\ p.name_parse = 1 <=> "TypeName" \in v.seen
      /\ p.type_parse = 1 <=> "TypeType" \in v.seen
      /\ p.array_parse = 1 <=> "ArrayInfo" \in v.seen
      /\ p.enum_parse = 1 <=> "EnumInfo" \in v.seen
      /\ p.struct_parse = 1 <=> "SubItem" \in v.seen
      /\ p.fb_parse = ("FbInfo" \in v.seen)
  PROVE get_type_description(p) = KindTold(v)
<1>1. CASE "TypeName" \notin v.seen
  BY <1>1 DEF get_type_description, KindTold
<1>2. CASE "TypeName" \in v.seen /\ "ArrayInfo" \in v.seen /\ "TypeType" \in v.seen
  BY <1>2 DEF get_type_description, KindTold
<1>3. CASE "TypeName" \in v.seen /\ ~("ArrayInfo" \in v.seen /\ "TypeType" \in v.seen)
  <2>1. CASE "EnumInfo" \in v.seen
    BY <1>3, <2>1 DEF get_type_description, KindTold
  <2>2. CASE "EnumInfo" \notin v.seen /\ "SubItem" \notin v.seen
    BY <1>3, <2>2 DEF get_type_description, KindTold
  <2>3. CASE "EnumInfo" \notin v.seen /\ "SubItem" \in v.seen
    <3>1. CASE "FbInfo" \in v.seen
      BY <1>3, <2>3, <3>1 DEF get_type_description, KindTold
    <3>2. CASE "FbInfo" \notin v.seen
      BY <1>3, <2>3, <3>2 DEF get_type_description, KindTold
    <3> QED BY <3>1, <3>2
  <2> QED BY <2>1, <2>2, <2>3
<1> QED BY <1>1, <1>2, <1>3

\* A section of the project, a symbol, a type or a value of the address ends.
LEMMA EndsAround ==
  ASSUME NEW p, NEW v, NEW w, NEW n, IsView(v), ~v.cdata, ~w.cdata, Knows(p, v),
         p.made = Nothing, EndsPlace(v, w, n),
         v.at \notin (TpySymbolPlaces \cup TypePlaces) \ {"Symbol", "DataType"}
  PROVE  Knows(endElement(p, n), w) /\ endElement(p, n).made = Told(v)
<1>1. /\ w.at = tpyUp[v.at] /\ tpyOwn[v.at] = n /\ v.deeper = 0 /\ w.deeper = 0
      /\ v.at \in TpyPlaces \ {Root}
  BY DEF EndsPlace
<1>2. /\ n = v.at
      /\ \/ v.at = "PlcProjectInfo" /\ w.at = Root
         \/ v.at \in {"RoutingInfo", "CompilerInfo", "Symbols", "DataTypes"} /\ w.at = "PlcProjectInfo"
         \/ v.at = "AdsInfo" /\ w.at = "RoutingInfo"
         \/ v.at \in DOMAIN RoutingLevel /\ w.at = "AdsInfo"
         \/ v.at \in DOMAIN CompilerLevel /\ w.at = "CompilerInfo"
         \/ v.at = "Symbol" /\ w.at = "Symbols"
         \/ v.at = "DataType" /\ w.at = "DataTypes"
  BY <1>1, TpyUpsAre, TpyOwnsAre, TpyPlacesAre
     DEF TpySymbolPlaces, TypePlaces, ItemPlaces, Root, RoutingLevel, CompilerLevel
<1>3. IsInfo(p) /\ Whereabouts(p, v) /\ Shallow(w)
  BY <1>1 DEF Knows, Shallow
<1>4. PICK q : q = endElement(p, n)
  OBVIOUS
<1>5. ASSUME IsInfo(q), Whereabouts(q, w), q.made = Told(v)
      PROVE  Knows(endElement(p, n), w) /\ endElement(p, n).made = Told(v)
  <2>1. w.at \notin AddressLeaves \cup TpySymbolPlaces \cup TypePlaces
    BY <1>2, NotAmongThese
  <2> QED BY <1>3, <1>4, <1>5, <2>1 DEF Knows
<1>6. CASE v.at = "PlcProjectInfo"
  <2>1. /\ w.at = Root
        /\ p.ignore = 0 /\ p.projects = TRUE /\ p.routing = 0 /\ p.compiler = 0
        /\ p.symbols = 0 /\ p.types = 0
    BY <1>1, <1>2, <1>3, <1>6, NotAmongThese, TpyParts
       DEF Whereabouts, Root, RoutingLevel, CompilerLevel
  <2>2. q = [p EXCEPT !.projects = FALSE]
    BY <1>2, <1>4, <1>6, <2>1 DEF endElement, top, outside
  <2>3. q = [f \in InfoFields |-> IF f = "projects" THEN FALSE ELSE p[f]]
    BY <1>3, <2>1, <2>2, InfoNames DEF IsInfo, IsOver
  <2>4. Told(v) = Nothing
    BY <1>6, TpyParts, ToldNothing DEF Telling
  <2>5. IsInfo(q) /\ q.made = Told(v)
    BY <1>3, <2>3, <2>4, InfoNames DEF IsInfo, IsOver
  <2>6. Whereabouts(q, w)
    BY <1>1, <1>6, <2>1, <2>3, NotAmongThese, InfoNames, TpyParts
       DEF Whereabouts, Root, RoutingLevel, CompilerLevel
  <2> QED BY <1>5, <2>5, <2>6
<1>7. CASE v.at = "RoutingInfo"
  <2>1. /\ w.at = "PlcProjectInfo"
        /\ p.ignore = 0 /\ p.projects = TRUE /\ p.routing = 1 /\ p.compiler = 0
        /\ p.symbols = 0 /\ p.types = 0
    BY <1>1, <1>2, <1>3, <1>7, NotAmongThese, TpyParts
       DEF Whereabouts, Root, RoutingLevel, CompilerLevel
  <2>2. q = [p EXCEPT !.routing = 0]
    BY <1>2, <1>4, <1>7, <2>1 DEF endElement, endSection
  <2>3. q = [f \in InfoFields |-> IF f = "routing" THEN 0 ELSE p[f]]
    BY <1>3, <2>1, <2>2, InfoNames DEF IsInfo, IsOver
  <2>4. Told(v) = Nothing
    BY <1>7, TpyParts, ToldNothing DEF Telling
  <2>5. IsInfo(q) /\ q.made = Told(v)
    BY <1>3, <2>3, <2>4, InfoNames DEF IsInfo, IsOver
  <2>6. Whereabouts(q, w)
    BY <1>1, <1>7, <2>1, <2>3, NotAmongThese, InfoNames, TpyParts
       DEF Whereabouts, Root, RoutingLevel, CompilerLevel
  <2> QED BY <1>5, <2>5, <2>6
<1>8. CASE v.at = "CompilerInfo"
  <2>1. /\ w.at = "PlcProjectInfo"
        /\ p.ignore = 0 /\ p.projects = TRUE /\ p.routing = 0 /\ p.compiler = 1
        /\ p.symbols = 0 /\ p.types = 0
    BY <1>1, <1>2, <1>3, <1>8, NotAmongThese, TpyParts
       DEF Whereabouts, Root, RoutingLevel, CompilerLevel
  <2>2. q = [p EXCEPT !.compiler = 0]
    BY <1>2, <1>4, <1>8, <2>1 DEF endElement, endSection
  <2>3. q = [f \in InfoFields |-> IF f = "compiler" THEN 0 ELSE p[f]]
    BY <1>3, <2>1, <2>2, InfoNames DEF IsInfo, IsOver
  <2>4. Told(v) = Nothing
    BY <1>8, TpyParts, ToldNothing DEF Telling
  <2>5. IsInfo(q) /\ q.made = Told(v)
    BY <1>3, <2>3, <2>4, InfoNames DEF IsInfo, IsOver
  <2>6. Whereabouts(q, w)
    BY <1>1, <1>8, <2>1, <2>3, NotAmongThese, InfoNames, TpyParts
       DEF Whereabouts, Root, RoutingLevel, CompilerLevel
  <2> QED BY <1>5, <2>5, <2>6
<1>9. CASE v.at = "Symbols"
  <2>1. /\ w.at = "PlcProjectInfo"
        /\ p.ignore = 0 /\ p.projects = TRUE /\ p.routing = 0 /\ p.compiler = 0
        /\ p.symbols = 1 /\ p.types = 0
    BY <1>1, <1>2, <1>3, <1>9, NotAmongThese, TpyParts
       DEF Whereabouts, Root, RoutingLevel, CompilerLevel
  <2>2. q = [p EXCEPT !.symbols = 0]
    BY <1>2, <1>4, <1>9, <2>1 DEF endElement, endSection
  <2>3. q = [f \in InfoFields |-> IF f = "symbols" THEN 0 ELSE p[f]]
    BY <1>3, <2>1, <2>2, InfoNames DEF IsInfo, IsOver
  <2>4. Told(v) = Nothing
    BY <1>9, TpyParts, ToldNothing DEF Telling
  <2>5. IsInfo(q) /\ q.made = Told(v)
    BY <1>3, <2>3, <2>4, InfoNames DEF IsInfo, IsOver
  <2>6. Whereabouts(q, w)
    BY <1>1, <1>9, <2>1, <2>3, NotAmongThese, InfoNames, TpyParts
       DEF Whereabouts, Root, RoutingLevel, CompilerLevel
  <2> QED BY <1>5, <2>5, <2>6
<1>10. CASE v.at = "DataTypes"
  <2>1. /\ w.at = "PlcProjectInfo"
        /\ p.ignore = 0 /\ p.projects = TRUE /\ p.routing = 0 /\ p.compiler = 0
        /\ p.symbols = 0 /\ p.types = 1
    BY <1>1, <1>2, <1>3, <1>10, NotAmongThese, TpyParts
       DEF Whereabouts, Root, RoutingLevel, CompilerLevel
  <2>2. q = [p EXCEPT !.types = 0]
    BY <1>2, <1>4, <1>10, <2>1 DEF endElement, endSection
  <2>3. q = [f \in InfoFields |-> IF f = "types" THEN 0 ELSE p[f]]
    BY <1>3, <2>1, <2>2, InfoNames DEF IsInfo, IsOver
  <2>4. Told(v) = Nothing
    BY <1>10, TpyParts, ToldNothing DEF Telling
  <2>5. IsInfo(q) /\ q.made = Told(v)
    BY <1>3, <2>3, <2>4, InfoNames DEF IsInfo, IsOver
  <2>6. Whereabouts(q, w)
    BY <1>1, <1>10, <2>1, <2>3, NotAmongThese, InfoNames, TpyParts
       DEF Whereabouts, Root, RoutingLevel, CompilerLevel
  <2> QED BY <1>5, <2>5, <2>6
<1>11. CASE v.at = "AdsInfo"
  <2>1. /\ w.at = "RoutingInfo"
        /\ p.ignore = 0 /\ p.projects = TRUE /\ p.routing = 2 /\ p.compiler = 0
        /\ p.symbols = 0 /\ p.types = 0
    BY <1>1, <1>2, <1>3, <1>11, NotAmongThese, TpyParts
       DEF Whereabouts, Root, RoutingLevel, CompilerLevel
  <2>2. q = [p EXCEPT !.routing = 1]
    BY <1>2, <1>4, <1>11, <2>1 DEF endElement
  <2>3. q = [f \in InfoFields |-> IF f = "routing" THEN 1 ELSE p[f]]
    BY <1>3, <2>1, <2>2, InfoNames DEF IsInfo, IsOver
  <2>4. Told(v) = Nothing
    BY <1>11, TpyParts, ToldNothing DEF Telling
  <2>5. IsInfo(q) /\ q.made = Told(v)
    BY <1>3, <2>3, <2>4, InfoNames DEF IsInfo, IsOver
  <2>6. Whereabouts(q, w)
    BY <1>1, <1>11, <2>1, <2>3, NotAmongThese, InfoNames, TpyParts
       DEF Whereabouts, Root, RoutingLevel, CompilerLevel
  <2> QED BY <1>5, <2>5, <2>6
<1>12. CASE v.at \in DOMAIN RoutingLevel
  <2>0. /\ v.at \in AddressLeaves /\ v.at \notin DOMAIN CompilerLevel /\ n \notin SectionTags
        /\ v.at \notin {Root, "RoutingInfo", "AdsInfo", "CompilerInfo", "Symbols", "DataTypes", "FbInfo"}
    BY <1>2, <1>12 DEF RoutingLevel, CompilerLevel, Root, AddressLeaves, SectionTags
  <2>1. /\ w.at = "AdsInfo"
        /\ p.ignore = 0 /\ p.projects = TRUE /\ p.routing = RoutingLevel[n] /\ p.compiler = 0
        /\ p.symbols = 0 /\ p.types = 0
    BY <1>1, <1>2, <1>3, <1>12, <2>0, NotAmongThese, TpyParts
       DEF Whereabouts, Root, RoutingLevel, CompilerLevel
  <2>2. q = Store([p EXCEPT !.routing = 2], n, p.data)
    BY <1>2, <1>4, <1>12, <2>1, <2>0 DEF endElement, endRouting, RoutingLevel, SectionTags
  <2>3. q = [f \in InfoFields |-> IF f = "routing" THEN 2
                                  ELSE IF f = "made" THEN Stored(n, p.data) ELSE p[f]]
    BY <1>3, <2>1, <2>2, InfoNames DEF IsInfo, IsOver, Store
  <2>4. Told(v) = Stored(n, p.data)
    BY <1>1, <1>2, <2>0 DEF Told, Knows
  <2>5. IsInfo(q) /\ q.made = Told(v)
    BY <1>3, <2>3, <2>4, InfoNames DEF IsInfo, IsOver
  <2>6. Whereabouts(q, w)
    BY <1>1, <1>12, <2>1, <2>3, <2>0, NotAmongThese, InfoNames, TpyParts
       DEF Whereabouts, Root, RoutingLevel, CompilerLevel
  <2> QED BY <1>5, <2>5, <2>6
<1>13. CASE v.at \in DOMAIN CompilerLevel
  <2>0. /\ v.at \in AddressLeaves /\ v.at \notin DOMAIN RoutingLevel /\ n \notin SectionTags
        /\ v.at \notin {Root, "RoutingInfo", "AdsInfo", "CompilerInfo", "Symbols", "DataTypes", "FbInfo"}
    BY <1>2, <1>13 DEF RoutingLevel, CompilerLevel, Root, AddressLeaves, SectionTags
  <2>1. /\ w.at = "CompilerInfo"
        /\ p.ignore = 0 /\ p.projects = TRUE /\ p.routing = 0 /\ p.compiler = CompilerLevel[n]
        /\ p.symbols = 0 /\ p.types = 0
    BY <1>1, <1>2, <1>3, <1>13, <2>0, NotAmongThese, TpyParts
       DEF Whereabouts, Root, RoutingLevel, CompilerLevel
  <2>2. q = Store([p EXCEPT !.compiler = 1], n, p.data)
    BY <1>2, <1>4, <1>13, <2>1, <2>0 DEF endElement, endCompiler, CompilerLevel, SectionTags
  <2>3. q = [f \in InfoFields |-> IF f = "compiler" THEN 1
                                  ELSE IF f = "made" THEN Stored(n, p.data) ELSE p[f]]
    BY <1>3, <2>1, <2>2, InfoNames DEF IsInfo, IsOver, Store
  <2>4. Told(v) = Stored(n, p.data)
    BY <1>1, <1>2, <2>0 DEF Told, Knows
  <2>5. IsInfo(q) /\ q.made = Told(v)
    BY <1>3, <2>3, <2>4, InfoNames DEF IsInfo, IsOver
  <2>6. Whereabouts(q, w)
    BY <1>1, <1>13, <2>1, <2>3, <2>0, NotAmongThese, InfoNames, TpyParts
       DEF Whereabouts, Root, RoutingLevel, CompilerLevel
  <2> QED BY <1>5, <2>5, <2>6
<1>14. CASE v.at = "Symbol"
  <2>1. /\ w.at = "Symbols"
        /\ p.ignore = 0 /\ p.projects = TRUE /\ p.routing = 0 /\ p.compiler = 0
        /\ p.symbols = 2 /\ p.types = 0
    BY <1>1, <1>2, <1>3, <1>14, NotAmongThese, TpyParts
       DEF Whereabouts, Root, RoutingLevel, CompilerLevel, TpySymbolPlaces, TypePlaces, ItemPlaces
  <2>2. p.sym = TextsTold(v, SymbolPart)
    <3>1. KnowsSymbol(p, v)
      BY <1>14 DEF Knows, TpySymbolPlaces
    <3>2. p.sym = [f \in SymbolFields |-> p.sym[f]]
      BY <1>3 DEF IsInfo, IsOver
    <3>3. \A f \in SymbolFields : p.sym[f] = v.text[SymbolPart[f]]
      BY <1>14, <3>1 DEF KnowsSymbol, SymbolRead, SymbolPart, SymbolFields, Numbers
    <3>4. DOMAIN SymbolPart = SymbolFields
      BY DEF SymbolPart, SymbolFields
    <3> QED BY <3>2, <3>3, <3>4 DEF TextsTold
  <2>2a. p.sym["Name"] = v.text["SymbolName"] /\ v.at \notin AddressLeaves
    BY <1>14, <2>2, TpyParts DEF TextsTold, SymbolPart
  <2>2b. q = endSymbol(p)
    BY <1>2, <1>4, <1>14, <2>1 DEF endElement
  <2>3. /\ q = [f \in InfoFields |-> IF f = "symbols" THEN 1 ELSE IF f = "made" THEN q.made ELSE p[f]]
        /\ q.made = Told(v)
    <3>1. CASE p.sym["Name"] = {}
      <4>1. q = [f \in InfoFields |-> IF f = "symbols" THEN 1 ELSE p[f]]
        BY <1>3, <2>2b, <3>1, InfoNames DEF IsInfo, IsOver, endSymbol
      <4>2. Told(v) = Nothing
        BY <1>1, <1>14, <2>2a, <3>1 DEF Told
      <4> QED BY <4>1, <4>2, InfoNames
    <3>2. CASE p.sym["Name"] # {}
      <4>1. q = [f \in InfoFields |-> IF f = "symbols" THEN 1
                   ELSE IF f = "made" THEN Stored("Symbol", p.sym) ELSE p[f]]
        BY <1>3, <2>2b, <3>2, InfoNames DEF IsInfo, IsOver, endSymbol, Store
      <4>2. Told(v) = Stored("Symbol", p.sym)
        BY <1>1, <1>14, <2>2, <2>2a, <3>2 DEF Told
      <4> QED BY <4>1, <4>2, InfoNames
    <3> QED BY <3>1, <3>2
  <2>5. IsInfo(q) /\ q.made = Told(v)
    BY <1>3, <2>3, InfoNames DEF IsInfo, IsOver
  <2>6. Whereabouts(q, w)
    BY <1>1, <1>14, <2>1, <2>3, NotAmongThese, InfoNames, TpyParts
       DEF Whereabouts, Root, RoutingLevel, CompilerLevel
  <2> QED BY <1>5, <2>5, <2>6
<1>15. CASE v.at = "DataType"
  <2>1. /\ w.at = "DataTypes"
        /\ p.ignore = 0 /\ p.projects = TRUE /\ p.routing = 0 /\ p.compiler = 0
        /\ p.symbols = 0 /\ p.types = 2
    BY <1>1, <1>2, <1>3, <1>15, NotAmongThese, TpyParts
       DEF Whereabouts, Root, RoutingLevel, CompilerLevel, TpySymbolPlaces, TypePlaces, ItemPlaces
  <2>1a. KnowsType(p, v)
    BY <1>15 DEF Knows, TypePlaces
  <2>2. p.rec = TextsTold(v, TypePart)
    <3>2. p.rec = [f \in TypeFields |-> p.rec[f]]
      BY <1>3 DEF IsInfo, IsOver
    <3>3. \A f \in TypeFields : p.rec[f] = v.text[TypePart[f]]
      BY <1>15, <2>1a DEF KnowsType, TypeRead, TypePart, TypeFields
    <3>4. DOMAIN TypePart = TypeFields
      BY DEF TypePart, TypeFields
    <3> QED BY <3>2, <3>3, <3>4 DEF TextsTold
  <2>2a. /\ p.rec["Name"] = v.text["TypeName"] /\ p.rec["Type"] = v.text["TypeType"]
         /\ v.at \notin AddressLeaves
    BY <1>15, <2>2, TpyParts DEF TextsTold, TypePart
  <2>2b. q = endDataType(p)
    BY <1>2, <1>4, <1>15, <2>1 DEF endElement
  <2>2c. get_type_description(p) = KindTold(v)
    <3>1. /\ p.name_parse = 1 <=> "TypeName" \in v.seen
          /\ p.type_parse = 1 <=> "TypeType" \in v.seen
          /\ p.array_parse = 1 <=> "ArrayInfo" \in v.seen
          /\ p.enum_parse = 1 <=> "EnumInfo" \in v.seen
          /\ p.struct_parse = 1 <=> "SubItem" \in v.seen
      BY <1>15, <2>1a DEF KnowsType, TypeLevels, Reading, BoundFields, ItemPlaces
    <3>2. p.fb_parse = ("FbInfo" \in v.seen)
      BY <2>1a DEF KnowsType, TypeLevels
    <3> QED BY <3>1, <3>2, KindRead
  <2>3. /\ q = [f \in InfoFields |-> IF f = "types" THEN 1 ELSE IF f = "made" THEN q.made ELSE p[f]]
        /\ q.made = Told(v)
    <3>1. CASE ~(KindTold(v) # "simple" \/ p.rec["Name"] # p.rec["Type"])
      <4>1. q = [f \in InfoFields |-> IF f = "types" THEN 1 ELSE p[f]]
        BY <1>3, <2>2b, <2>2c, <3>1, InfoNames DEF IsInfo, IsOver, endDataType
      <4>2. Told(v) = Nothing
        BY <1>1, <1>15, <2>2a, <3>1 DEF Told
      <4> QED BY <4>1, <4>2, InfoNames
    <3>2. CASE KindTold(v) # "simple" \/ p.rec["Name"] # p.rec["Type"]
      <4>1. q = [f \in InfoFields |-> IF f = "types" THEN 1
                   ELSE IF f = "made" THEN Stored("DataType", <<KindTold(v), p.rec>>) ELSE p[f]]
        BY <1>3, <2>2b, <2>2c, <3>2, InfoNames DEF IsInfo, IsOver, endDataType, Store
      <4>2. Told(v) = Stored("DataType", <<KindTold(v), p.rec>>)
        BY <1>1, <1>15, <2>2, <2>2a, <3>2 DEF Told
      <4> QED BY <4>1, <4>2, InfoNames
    <3> QED BY <3>1, <3>2
  <2>5. IsInfo(q) /\ q.made = Told(v)
    BY <1>3, <2>3, InfoNames DEF IsInfo, IsOver
  <2>6. Whereabouts(q, w)
    BY <1>1, <1>15, <2>1, <2>3, NotAmongThese, InfoNames, TpyParts
       DEF Whereabouts, Root, RoutingLevel, CompilerLevel
  <2> QED BY <1>5, <2>5, <2>6
<1> QED BY <1>2, <1>6, <1>7, <1>8, <1>9, <1>10, <1>11, <1>12, <1>13, <1>14, <1>15

\* An element without a place ends.
LEMMA EndsInPlace ==
  ASSUME NEW p, NEW v, NEW w, NEW n, IsView(v), ~v.cdata, ~w.cdata, Knows(p, v),
         p.made = Nothing, EndsDeeper(v, w, n)
  PROVE  Knows(endElement(p, n), w) /\ endElement(p, n).made = Told(v)
<1>1. /\ w.at = v.at /\ v.deeper > 0 /\ w.deeper = v.deeper - 1 /\ w.seen = v.seen
      /\ w.text = v.text /\ w.value = v.value /\ w.section = v.section
      /\ v.at \in AddressPlaces => n = Unknown
  BY DEF EndsDeeper, SameText
<1>2. IsInfo(p) /\ Whereabouts(p, v) /\ v.deeper \in Nat /\ Shallow(v) /\ Shallow(w)
  BY <1>1 DEF Knows, IsView, Shallow
<1>3. Told(v) = Nothing
  BY <1>1, ToldNothing
<1>4. CASE v.at \in AddressPlaces
  <2>1. n = Unknown /\ v.at \in {"AdsInfo", "CompilerInfo"}
    <3>1. v.at \notin TpyLeaves
      BY <1>1, <1>2, <1>4 DEF Shallow
    <3> QED BY <1>1, <1>4, <3>1, TpyOwnsAre, TpyElementsAre, TpyParts, TpyPlacesAre DEF TpyLeaves
  <2>2. /\ p.ignore = 0 /\ p.projects = TRUE
        /\ v.at = "AdsInfo" => p.routing = 2
        /\ v.at = "CompilerInfo" => p.routing = 0 /\ p.compiler = 1
    BY <1>2, <1>4, <2>1 DEF Whereabouts, Root, RoutingLevel, CompilerLevel
  <2>3. endElement(p, n) = p
    <3>1. CASE v.at = "AdsInfo"
      BY <2>1, <2>2, <3>1 DEF endElement, Unknown, endRouting, RoutingLevel
    <3>2. CASE v.at = "CompilerInfo"
      BY <2>1, <2>2, <3>2 DEF endElement, Unknown, endCompiler, CompilerLevel
    <3> QED BY <2>1, <3>1, <3>2
  <2>4. Whereabouts(p, w)
    BY <1>1, <1>2, <1>4 DEF Whereabouts
  <2>5. Knows(p, w)
    BY <1>1, <1>2, <2>1, <2>4, NotAmongThese, TpyParts DEF Knows
  <2> QED BY <1>3, <2>3, <2>5
<1>5. CASE v.at \notin AddressPlaces
  <2>1. p.ignore \in Nat /\ p.ignore > 0
    BY <1>1, <1>2, <1>5 DEF Whereabouts
  <2>2. endElement(p, n) = [p EXCEPT !.ignore = @ - 1]
    BY <2>1 DEF endElement
  <2>3. PICK q : q = [f \in InfoFields |-> IF f = "ignore" THEN p.ignore - 1 ELSE p[f]]
    OBVIOUS
  <2>4. q = endElement(p, n)
    BY <1>2, <2>2, <2>3, InfoNames DEF IsInfo, IsOver
  <2>5. IsInfo(q) /\ q.made = p.made /\ q.ignore = p.ignore - 1
    BY <1>2, <2>3, InfoNames DEF IsInfo, IsOver
  <2>6. Whereabouts(q, w)
    BY <1>1, <1>2, <1>5, <2>3, InfoNames DEF Whereabouts
  <2>7. v.at \in TpySymbolPlaces => KnowsSymbol(q, w)
    BY <1>1, <2>3, InfoNames DEF Knows, KnowsSymbol, SymbolLevels, SymbolRead, PropertyRead, Reading
  <2>8. v.at \in TypePlaces => KnowsType(q, w)
    BY <1>1, <2>3, InfoNames
       DEF Knows, KnowsType, TypeLevels, TypeRead, ArrayRead, EnumRead, ItemRead, PropertyRead, Reading
  <2>9. Knows(q, w)
    BY <1>1, <1>2, <1>5, <2>5, <2>6, <2>7, <2>8, TpyParts DEF Knows
  <2> QED BY <1>3, <2>4, <2>5, <2>9
<1> QED BY <1>4, <1>5

\* Where the parser keeps text, and where the text of a property stands.
PropertyParts == {"SymbolPropertyName", "SymbolPropertyValue", "TypePropertyName",
                  "TypePropertyValue", "ItemPropertyName", "ItemPropertyValue"}
TextPlaces == AddressLeaves \cup {"SymbolName", "SymbolType", "IGroup", "IOffset", "SymbolBitSize",
  "TypeName", "TypeType", "TypeBitSize", "LBound", "Elements", "Enum", "Text", "ItemName",
  "ItemType", "ItemBitSize", "BitOffs"}

\* As long as no text or value has changed the parser knows what it knew.
LEMMA Untouched ==
  ASSUME NEW p, NEW v, NEW w, Knows(p, v), Stays(v, w),
         \A j \in TextPlaces : w.text[j] = v.text[j],
         \A j \in PropertyParts : w.value[j] = v.value[j],
         v.at \in PropertyParts =>
           (w.cdata \/ v.at \notin w.section <=> v.cdata \/ v.at \notin v.section)
  PROVE  Knows(p, w)
<1>1. w.at = v.at /\ w.deeper = v.deeper /\ w.seen = v.seen
  BY DEF Stays
<1>2. Whereabouts(p, w) /\ Shallow(w) /\ IsInfo(p)
  BY <1>1 DEF Knows, Whereabouts, Shallow
<1>3. w.at \in AddressLeaves => p.data = w.text[w.at]
  BY <1>1 DEF Knows, TextPlaces
<1>4. ASSUME w.at \in TpySymbolPlaces PROVE KnowsSymbol(p, w)
  <2>1. KnowsSymbol(p, v)
    BY <1>1, <1>4 DEF Knows
  <2>2. SymbolLevels(p, w)
    BY <1>1, <2>1 DEF KnowsSymbol, SymbolLevels, Reading
  <2>3. SymbolRead(p, w)
    BY <1>1, <2>1 DEF KnowsSymbol, SymbolRead, SymbolPart, Numbers, TextPlaces
  <2>4. PropertyRead(p, w, "SymbolProperty", "SymbolPropertyName", "SymbolPropertyValue")
    BY <1>1, <2>1 DEF KnowsSymbol, PropertyRead, PropertyParts
  <2> QED BY <2>2, <2>3, <2>4 DEF KnowsSymbol
<1>5. ASSUME w.at \in TypePlaces PROVE KnowsType(p, w)
  <2>1. KnowsType(p, v)
    BY <1>1, <1>5 DEF Knows
  <2>2. TypeLevels(p, w)
    BY <1>1, <2>1 DEF KnowsType, TypeLevels, Reading
  <2>3. TypeRead(p, w)
    BY <1>1, <2>1 DEF KnowsType, TypeRead, TextPlaces
  <2>4. ArrayRead(p, w)
    BY <1>1, <2>1 DEF KnowsType, ArrayRead, BoundFields, TextPlaces
  <2>5. EnumRead(p, w)
    BY <1>1, <2>1 DEF KnowsType, EnumRead, EnumFields, TextPlaces
  <2>6. ItemRead(p, w)
    BY <1>1, <2>1 DEF KnowsType, ItemRead, ItemPart, TextPlaces
  <2>7. PropertyRead(p, w, "TypeProperty", "TypePropertyName", "TypePropertyValue")
    BY <1>1, <2>1 DEF KnowsType, PropertyRead, PropertyParts
  <2>8. PropertyRead(p, w, "ItemProperty", "ItemPropertyName", "ItemPropertyValue")
    BY <1>1, <2>1 DEF KnowsType, PropertyRead, PropertyParts
  <2> QED BY <2>2, <2>3, <2>4, <2>5, <2>6, <2>7, <2>8 DEF KnowsType
<1> QED BY <1>2, <1>3, <1>4, <1>5 DEF Knows

\* Text where the parser takes none.
LEMMA GivenAside ==
  ASSUME NEW p, NEW v, NEW w, NEW t, IsView(v), Knows(p, v), GivesText(v, w, t),
         v.at \notin AddressPlaces,
         v.deeper > 0 \/ v.at \notin TextPlaces \cup PropertyParts \cup {"Comment"}
  PROVE  Knows(dataElement(p, t), w) /\ dataElement(p, t).made = p.made
<1>1. /\ v.at \in TpyPlaces /\ v.deeper \in Nat /\ Stays(v, w) /\ w.cdata = v.cdata
      /\ w.section = v.section
  BY DEF IsView, GivesText
<1>2. Whereabouts(p, v)
  BY DEF Knows
<1>3. Knows(p, w)
  <2>1. CASE v.deeper > 0 \/ v.at = Root
    BY <1>1, <2>1, Untouched DEF GivesText, SameText
  <2>2. CASE v.deeper = 0 /\ v.at # Root
    <3>1. \A j \in TextPlaces \cup PropertyParts : j \in TpyPlaces /\ j # v.at
      BY <2>2, TpyPlacesAre DEF TextPlaces, PropertyParts, AddressLeaves, RoutingLevel, CompilerLevel
    <3>2. /\ \A j \in TextPlaces : w.text[j] = v.text[j]
          /\ \A j \in PropertyParts : w.value[j] = v.value[j]
      BY <2>2, <3>1 DEF GivesText
    <3> QED BY <1>1, <3>2, Untouched
  <2> QED BY <1>1, <2>1, <2>2
<1>4. dataElement(p, t) = p
  <2>1. /\ p.routing \in {0, 1} /\ p.compiler = 0 /\ p.ignore \in Nat
        /\ v.deeper > 0 => p.ignore > 0
        /\ v.at = "FbInfo" => p.ignore > 0
    BY <1>1, <1>2, TpyParts DEF Whereabouts, AddressLeaves
  <2>2. CASE p.ignore > 0
    BY <2>2 DEF dataElement
  <2>3. CASE p.ignore = 0
    <3>1. v.deeper = 0 /\ v.at # "FbInfo" /\ v.at \notin TextPlaces \cup PropertyParts \cup {"Comment"}
      BY <1>1, <2>1, <2>3
    <3>2. CASE v.at \in TpySymbolPlaces
      <4>1. v.at \in {"Symbol", "SymbolProperties", "SymbolProperty"}
        BY <3>1, <3>2 DEF TpySymbolPlaces, TextPlaces, PropertyParts
      <4>2. /\ p.symbols = 2 /\ p.name_parse \in {0, 1} /\ p.type_parse \in {0, 1}
            /\ p.opc_parse \in {0, 1, 2}
            /\ \A n \in Numbers : p.number_parse[n] \in {0, 1}
        BY <1>2, <3>2, <4>1, TpyParts
           DEF Whereabouts, Knows, KnowsSymbol, SymbolLevels, Reading, OpcLevel, Numbers, SymbolPart
      <4> QED BY <2>1, <2>3, <4>2 DEF dataElement, dataInSymbol
    <3>3. CASE v.at \in TypePlaces
      <4>1. v.at \in {"DataType", "ArrayInfo", "EnumInfo", "TypeProperties", "TypeProperty",
                      "SubItem", "ItemProperties", "ItemProperty"}
        BY <3>1, <3>3 DEF TypePlaces, ItemPlaces, TextPlaces, PropertyParts
      <4>2. /\ p.symbols = 0 /\ p.types = 2
        BY <1>2, <3>3, <4>1, TpyParts DEF Whereabouts
      <4>3. /\ p.name_parse \in {0, 1} /\ p.type_parse \in {0, 1} /\ p.opc_parse \in {0, 1, 2}
            /\ p.number_parse["BitSize"] \in {0, 1} /\ p.array_parse \in {0, 1, 2}
            /\ p.enum_parse \in {0, 1, 2} /\ p.struct_parse \in {0, 1, 2}
        BY <3>3, <4>1 DEF Knows, KnowsType, TypeLevels, Reading, OpcLevel, ItemPlaces, BoundFields
      <4> QED BY <2>1, <2>3, <4>2, <4>3 DEF dataElement, dataInType, opcData
    <3>4. CASE v.at \notin TpySymbolPlaces \cup TypePlaces
      <4>1. p.symbols \in {0, 1} /\ p.types \in {0, 1}
        BY <1>2, <3>4 DEF Whereabouts
      <4> QED BY <2>1, <2>3, <4>1 DEF dataElement
    <3> QED BY <3>2, <3>3, <3>4
  <2> QED BY <2>1, <2>2, <2>3
<1> QED BY <1>3, <1>4

\* Text in an address.
LEMMA GivenInAddress ==
  ASSUME NEW p, NEW v, NEW w, NEW t, IsView(v), Knows(p, v), GivesText(v, w, t),
         v.at \in AddressPlaces
  PROVE  Knows(dataElement(p, t), w) /\ dataElement(p, t).made = p.made
<1>1. /\ v.at \in TpyPlaces \ {Root} /\ w.at = v.at /\ w.deeper = v.deeper /\ w.seen = v.seen
      /\ v.at \notin TpySymbolPlaces \cup TypePlaces
      /\ IsInfo(p) /\ Whereabouts(p, v) /\ Shallow(w)
  BY TpyParts DEF IsView, GivesText, Stays, Knows, Shallow, Root
<1>2. PICK q : q = dataElement(p, t)
  OBVIOUS
<1>3. q = [p EXCEPT !.data = @ \cup t]
  <2>1. /\ p.ignore = 0
        /\ v.at = "AdsInfo" => p.routing = 2
        /\ v.at \in DOMAIN RoutingLevel => p.routing >= 2
        /\ v.at = "CompilerInfo" => p.routing = 0 /\ p.compiler = 1
        /\ v.at \in DOMAIN CompilerLevel => p.routing = 0 /\ p.compiler >= 1
    BY <1>1, TpyParts DEF Whereabouts, RoutingLevel, CompilerLevel
  <2>2. p.routing >= 2 \/ p.compiler >= 1
    BY <2>1 DEF AddressPlaces, AddressLeaves
  <2> QED BY <1>2, <2>1, <2>2 DEF dataElement
<1>4. q = [f \in InfoFields |-> IF f = "data" THEN p["data"] \cup t ELSE p[f]]
  BY <1>1, <1>3, InfoNames DEF IsInfo, IsOver
<1>5. IsInfo(q) /\ q.made = p.made /\ q.data = p.data \cup t
  BY <1>1, <1>4, InfoNames DEF IsInfo, IsOver
<1>6. Whereabouts(q, w)
  BY <1>1, <1>4, InfoNames DEF Whereabouts
<1>7. ASSUME v.at \in AddressLeaves PROVE q.data = w.text[w.at]
  <2>1. v.deeper = 0
    <3>1. v.at \in TpyLeaves
      BY <1>1, <1>7, TpyOwnsAre, TpyElementsAre, TpyParts DEF TpyLeaves
    <3> QED BY <1>1, <3>1 DEF Knows, Shallow, IsView
  <2> QED BY <1>1, <1>5, <1>7, <2>1 DEF Knows, GivesText
<1> QED BY <1>1, <1>2, <1>5, <1>6, <1>7 DEF Knows

\* Text in a symbol.
LEMMA GivenInSymbol ==
  ASSUME NEW p, NEW v, NEW w, NEW t, IsView(v), Knows(p, v), GivesText(v, w, t), v.deeper = 0,
         v.at \in TpySymbolPlaces, v.at \in TextPlaces \cup PropertyParts
  PROVE  Knows(dataElement(p, t), w) /\ dataElement(p, t).made = p.made
<1>1. /\ v.at \in TpyPlaces \ {Root} /\ w.at = v.at /\ w.deeper = 0 /\ w.seen = v.seen
      /\ w.cdata = v.cdata /\ w.section = v.section
  BY TpyParts DEF IsView, GivesText, Stays, Root, TextPlaces, PropertyParts
<1>2. \A j \in TpyPlaces :
       /\ w.text[j] = IF j = v.at THEN v.text[j] \cup t ELSE v.text[j]
       /\ w.value[j] = IF j = v.at /\ (v.cdata \/ j \notin v.section)
                       THEN v.value[j] \cup t ELSE v.value[j]
  BY <1>1 DEF GivesText
<1>3. /\ \A j \in {"SymbolName", "SymbolType", "IGroup", "IOffset", "SymbolBitSize"} :
           w.text[j] = IF j = v.at THEN v.text[j] \cup t ELSE v.text[j]
      /\ \A j \in {"SymbolPropertyName", "SymbolPropertyValue"} :
           j # v.at => w.value[j] = v.value[j]
  <2>1. {"SymbolName", "SymbolType", "IGroup", "IOffset", "SymbolBitSize",
          "SymbolPropertyName", "SymbolPropertyValue"} \subseteq TpyPlaces
    BY TpyPlacesAre
  <2> QED BY <1>2, <2>1
<1>4. /\ p.ignore = 0 /\ p.routing = 0 /\ p.compiler = 0 /\ p.symbols = 2
      /\ IsInfo(p) /\ KnowsSymbol(p, v)
  <2>1. SameOutside(p, p)
    BY DEF SameOutside, Knows
  <2> QED BY <1>1, <2>1, StaysInside DEF Knows
<1>5. PICK q : q = dataInSymbol(p, t)
  OBVIOUS
<1>6. dataElement(p, t) = q
  BY <1>4, <1>5 DEF dataElement
<1>7. ASSUME SameOutside(p, q), q.made = p.made, KnowsSymbol(q, w)
      PROVE  Knows(dataElement(p, t), w) /\ dataElement(p, t).made = p.made
  <2>1. Whereabouts(q, w) /\ Shallow(w) /\ w.at \notin AddressLeaves
    BY <1>1, <1>7, StaysInside
  <2> QED BY <1>1, <1>6, <1>7, <2>1, TpyParts DEF Knows, SameOutside
<1>8. CASE v.at = "SymbolName"
  <2>1. p.name_parse = 2
    BY <1>4, <1>8 DEF KnowsSymbol, SymbolLevels, Reading, OpcLevel, Numbers, SymbolPart
  <2>2. q = [p EXCEPT !.sym["Name"] = @ \cup t]
    BY <1>5, <2>1 DEF dataInSymbol, Numbers
  <2>3. q = [f \in InfoFields |-> IF f = "sym" THEN [p["sym"] EXCEPT !["Name"] = p["sym"]["Name"] \cup t]
                                  ELSE p[f]]
    BY <1>4, <2>2, InfoNames DEF IsInfo, IsOver
  <2>4. SameOutside(p, q) /\ q.made = p.made
    BY <1>4, <2>3, InfoNames DEF SameOutside, IsInfo, IsOver
  <2>4a. /\ q.sym["Name"] = w.text["SymbolName"]
         /\ \A f \in SymbolFields \ {"Name"} : q.sym[f] = p.sym[f]
         /\ q = [f \in InfoFields |-> IF f = "sym" THEN q.sym ELSE p[f]]
    <3>1. q.sym = [p["sym"] EXCEPT !["Name"] = p["sym"]["Name"] \cup t]
      BY <2>3, InfoNames
    <3>2. p.sym["Name"] = v.text["SymbolName"] /\ p.sym = [f \in SymbolFields |-> p.sym[f]]
      BY <1>4, <1>8 DEF IsInfo, IsOver, KnowsSymbol, SymbolRead
    <3>3. w.text["SymbolName"] = v.text["SymbolName"] \cup t
      BY <1>3, <1>8
    <3> QED BY <2>3, <3>1, <3>2, <3>3, InfoNames DEF SymbolFields
  <2>5. KnowsSymbol(q, w)
    BY <1>1, <1>3, <1>4, <1>8, <2>4a, InfoNames
       DEF KnowsSymbol, SymbolLevels, SymbolRead, PropertyRead, Reading, Numbers, SymbolPart,
           IsInfo, IsOver, SymbolFields, TpySymbolPlaces
  <2> QED BY <1>7, <2>4, <2>5
<1>9. CASE v.at = "SymbolType"
  <2>1. p.name_parse \in {0, 1} /\ p.type_parse = 2
    BY <1>4, <1>9 DEF KnowsSymbol, SymbolLevels, Reading, OpcLevel, Numbers, SymbolPart
  <2>2. q = [p EXCEPT !.sym["Type"] = @ \cup t]
    BY <1>5, <2>1 DEF dataInSymbol, Numbers
  <2>3. q = [f \in InfoFields |-> IF f = "sym" THEN [p["sym"] EXCEPT !["Type"] = p["sym"]["Type"] \cup t]
                                  ELSE p[f]]
    BY <1>4, <2>2, InfoNames DEF IsInfo, IsOver
  <2>4. SameOutside(p, q) /\ q.made = p.made
    BY <1>4, <2>3, InfoNames DEF SameOutside, IsInfo, IsOver
  <2>4a. /\ q.sym["Type"] = w.text["SymbolType"]
         /\ \A f \in SymbolFields \ {"Type"} : q.sym[f] = p.sym[f]
         /\ q = [f \in InfoFields |-> IF f = "sym" THEN q.sym ELSE p[f]]
    <3>1. q.sym = [p["sym"] EXCEPT !["Type"] = p["sym"]["Type"] \cup t]
      BY <2>3, InfoNames
    <3>2. p.sym["Type"] = v.text["SymbolType"] /\ p.sym = [f \in SymbolFields |-> p.sym[f]]
      BY <1>4, <1>9 DEF IsInfo, IsOver, KnowsSymbol, SymbolRead
    <3>3. w.text["SymbolType"] = v.text["SymbolType"] \cup t
      BY <1>3, <1>9
    <3> QED BY <2>3, <3>1, <3>2, <3>3, InfoNames DEF SymbolFields
  <2>5. KnowsSymbol(q, w)
    BY <1>1, <1>3, <1>4, <1>9, <2>4a, InfoNames
       DEF KnowsSymbol, SymbolLevels, SymbolRead, PropertyRead, Reading, Numbers, SymbolPart,
           IsInfo, IsOver, SymbolFields, TpySymbolPlaces
  <2> QED BY <1>7, <2>4, <2>5
<1>10. CASE v.at = "IGroup"
  <2>1. /\ p.name_parse \in {0, 1} /\ p.type_parse \in {0, 1} /\ p.opc_parse = 0
        /\ p.number_parse["IGroup"] = 2
    BY <1>4, <1>10 DEF KnowsSymbol, SymbolLevels, Reading, OpcLevel, Numbers, SymbolPart
  <2>2. q = [p EXCEPT !.data = @ \cup t]
    BY <1>5, <2>1 DEF dataInSymbol, Numbers
  <2>3. q = [f \in InfoFields |-> IF f = "data" THEN p["data"] \cup t ELSE p[f]]
    BY <1>4, <2>2, InfoNames DEF IsInfo, IsOver
  <2>4. SameOutside(p, q) /\ q.made = p.made
    BY <1>4, <2>3, InfoNames DEF SameOutside, IsInfo, IsOver
  <2>5. KnowsSymbol(q, w)
    BY <1>1, <1>3, <1>4, <1>10, <2>3, InfoNames
       DEF KnowsSymbol, SymbolLevels, SymbolRead, PropertyRead, Reading, Numbers, SymbolPart,
           IsInfo, IsOver, SymbolFields, TpySymbolPlaces
  <2> QED BY <1>7, <2>4, <2>5
<1>11. CASE v.at = "IOffset"
  <2>1. /\ p.name_parse \in {0, 1} /\ p.type_parse \in {0, 1} /\ p.opc_parse = 0
        /\ p.number_parse["IOffset"] = 2
    BY <1>4, <1>11 DEF KnowsSymbol, SymbolLevels, Reading, OpcLevel, Numbers, SymbolPart
  <2>2. q = [p EXCEPT !.data = @ \cup t]
    BY <1>5, <2>1 DEF dataInSymbol, Numbers
  <2>3. q = [f \in InfoFields |-> IF f = "data" THEN p["data"] \cup t ELSE p[f]]
    BY <1>4, <2>2, InfoNames DEF IsInfo, IsOver
  <2>4. SameOutside(p, q) /\ q.made = p.made
    BY <1>4, <2>3, InfoNames DEF SameOutside, IsInfo, IsOver
  <2>5. KnowsSymbol(q, w)
    BY <1>1, <1>3, <1>4, <1>11, <2>3, InfoNames
       DEF KnowsSymbol, SymbolLevels, SymbolRead, PropertyRead, Reading, Numbers, SymbolPart,
           IsInfo, IsOver, SymbolFields, TpySymbolPlaces
  <2> QED BY <1>7, <2>4, <2>5
<1>12. CASE v.at = "SymbolBitSize"
  <2>1. /\ p.name_parse \in {0, 1} /\ p.type_parse \in {0, 1} /\ p.opc_parse = 0
        /\ p.number_parse["BitSize"] = 2
    BY <1>4, <1>12 DEF KnowsSymbol, SymbolLevels, Reading, OpcLevel, Numbers, SymbolPart
  <2>2. q = [p EXCEPT !.data = @ \cup t]
    BY <1>5, <2>1 DEF dataInSymbol, Numbers
  <2>3. q = [f \in InfoFields |-> IF f = "data" THEN p["data"] \cup t ELSE p[f]]
    BY <1>4, <2>2, InfoNames DEF IsInfo, IsOver
  <2>4. SameOutside(p, q) /\ q.made = p.made
    BY <1>4, <2>3, InfoNames DEF SameOutside, IsInfo, IsOver
  <2>5. KnowsSymbol(q, w)
    BY <1>1, <1>3, <1>4, <1>12, <2>3, InfoNames
       DEF KnowsSymbol, SymbolLevels, SymbolRead, PropertyRead, Reading, Numbers, SymbolPart,
           IsInfo, IsOver, SymbolFields, TpySymbolPlaces
  <2> QED BY <1>7, <2>4, <2>5
<1>13. CASE v.at = "SymbolPropertyName"
  <2>1. /\ p.opc_parse = 3 /\ p.name_parse \in {0, 1} /\ p.type_parse \in {0, 1}
    BY <1>4, <1>13 DEF KnowsSymbol, SymbolLevels, Reading, OpcLevel, Numbers, SymbolPart
  <2>2. q = opcData(p, t)
    BY <1>5, <2>1 DEF dataInSymbol, opcData
  <2>3. /\ p.opc_cdata <=> v.cdata \/ v.at \notin v.section
        /\ p.opc_data = v.value["SymbolPropertyName"]
    BY <1>4, <1>13 DEF KnowsSymbol, PropertyRead
  <2>4. q = [f \in InfoFields |-> IF f = "opc_data" THEN w.value["SymbolPropertyName"] ELSE p[f]]
    <3>1. "SymbolPropertyName" \in TpyPlaces
      BY TpyPlacesAre
    <3>2. CASE v.cdata \/ v.at \notin v.section
      <4>1. q = [p EXCEPT !.opc_data = @ \cup t]
        BY <2>1, <2>2, <2>3, <3>2 DEF opcData
      <4>2. w.value["SymbolPropertyName"] = p.opc_data \cup t
        BY <1>2, <1>13, <2>3, <3>1, <3>2
      <4> QED BY <1>4, <4>1, <4>2, InfoNames DEF IsInfo, IsOver
    <3>3. CASE ~(v.cdata \/ v.at \notin v.section)
      <4>1. q = p
        BY <2>1, <2>2, <2>3, <3>3 DEF opcData
      <4>2. w.value["SymbolPropertyName"] = p.opc_data
        BY <1>2, <1>13, <2>3, <3>1, <3>3
      <4> QED BY <1>4, <4>1, <4>2, InfoNames DEF IsInfo, IsOver
    <3> QED BY <3>2, <3>3
  <2>5. SameOutside(p, q) /\ q.made = p.made
    BY <1>4, <2>4, InfoNames DEF SameOutside, IsInfo, IsOver
  <2>6. KnowsSymbol(q, w)
    BY <1>1, <1>3, <1>4, <1>13, <2>4, InfoNames
       DEF KnowsSymbol, SymbolLevels, SymbolRead, PropertyRead, Reading, Numbers, SymbolPart,
           TpySymbolPlaces
  <2> QED BY <1>7, <2>5, <2>6
<1>14. CASE v.at = "SymbolPropertyValue"
  <2>1. /\ p.opc_parse = 4 /\ p.name_parse \in {0, 1} /\ p.type_parse \in {0, 1}
    BY <1>4, <1>14 DEF KnowsSymbol, SymbolLevels, Reading, OpcLevel, Numbers, SymbolPart
  <2>2. q = opcData(p, t)
    BY <1>5, <2>1 DEF dataInSymbol, opcData
  <2>3. /\ p.opc_cdata <=> v.cdata \/ v.at \notin v.section
        /\ p.opc_data = v.value["SymbolPropertyValue"]
    BY <1>4, <1>14 DEF KnowsSymbol, PropertyRead
  <2>4. q = [f \in InfoFields |-> IF f = "opc_data" THEN w.value["SymbolPropertyValue"] ELSE p[f]]
    <3>1. "SymbolPropertyValue" \in TpyPlaces
      BY TpyPlacesAre
    <3>2. CASE v.cdata \/ v.at \notin v.section
      <4>1. q = [p EXCEPT !.opc_data = @ \cup t]
        BY <2>1, <2>2, <2>3, <3>2 DEF opcData
      <4>2. w.value["SymbolPropertyValue"] = p.opc_data \cup t
        BY <1>2, <1>14, <2>3, <3>1, <3>2
      <4> QED BY <1>4, <4>1, <4>2, InfoNames DEF IsInfo, IsOver
    <3>3. CASE ~(v.cdata \/ v.at \notin v.section)
      <4>1. q = p
        BY <2>1, <2>2, <2>3, <3>3 DEF opcData
      <4>2. w.value["SymbolPropertyValue"] = p.opc_data
        BY <1>2, <1>14, <2>3, <3>1, <3>3
      <4> QED BY <1>4, <4>1, <4>2, InfoNames DEF IsInfo, IsOver
    <3> QED BY <3>2, <3>3
  <2>5. SameOutside(p, q) /\ q.made = p.made
    BY <1>4, <2>4, InfoNames DEF SameOutside, IsInfo, IsOver
  <2>6. KnowsSymbol(q, w)
    BY <1>1, <1>3, <1>4, <1>14, <2>4, InfoNames
       DEF KnowsSymbol, SymbolLevels, SymbolRead, PropertyRead, Reading, Numbers, SymbolPart,
           TpySymbolPlaces
  <2> QED BY <1>7, <2>5, <2>6
<1> QED BY <1>8, <1>9, <1>10, <1>11, <1>12, <1>13, <1>14
       DEF TpySymbolPlaces, TextPlaces, PropertyParts, AddressLeaves, RoutingLevel, CompilerLevel

\* Text in a type.
LEMMA GivenInType ==
  ASSUME NEW p, NEW v, NEW w, NEW t, IsView(v), Knows(p, v), GivesText(v, w, t), v.deeper = 0,
         v.at \in TypePlaces, v.at \in TextPlaces \cup PropertyParts \cup {"Comment"}
  PROVE  Knows(dataElement(p, t), w) /\ dataElement(p, t).made = p.made
<1>1. /\ v.at \in TpyPlaces \ {Root} /\ w.at = v.at /\ w.deeper = 0 /\ w.seen = v.seen
      /\ w.cdata = v.cdata /\ w.section = v.section /\ v.at # "FbInfo"
  BY TpyParts DEF IsView, GivesText, Stays, Root, TextPlaces, PropertyParts
<1>2. \A j \in TpyPlaces :
       /\ w.text[j] = IF j = v.at THEN v.text[j] \cup t ELSE v.text[j]
       /\ w.value[j] = IF j = v.at /\ (v.cdata \/ j \notin v.section)
                       THEN v.value[j] \cup t ELSE v.value[j]
  BY <1>1 DEF GivesText
<1>3. /\ \A j \in {"TypeName", "TypeType", "TypeBitSize", "LBound", "Elements", "Enum", "Text",
                "ItemName", "ItemType", "ItemBitSize", "BitOffs"} :
           w.text[j] = IF j = v.at THEN v.text[j] \cup t ELSE v.text[j]
      /\ \A j \in {"TypePropertyName", "TypePropertyValue", "ItemPropertyName",
                   "ItemPropertyValue"} : j # v.at => w.value[j] = v.value[j]
  <2>1. {"TypeName", "TypeType", "TypeBitSize", "LBound", "Elements", "Enum", "Text",
          "ItemName", "ItemType", "ItemBitSize", "BitOffs", "TypePropertyName",
          "TypePropertyValue", "ItemPropertyName", "ItemPropertyValue"} \subseteq TpyPlaces
    BY TpyPlacesAre
  <2> QED BY <1>2, <2>1
<1>4. /\ p.ignore = 0 /\ p.routing = 0 /\ p.compiler = 0 /\ p.symbols = 0 /\ p.types = 2
      /\ IsInfo(p) /\ KnowsType(p, v)
  <2>1. SameOutside(p, p)
    BY DEF SameOutside, Knows
  <2> QED BY <1>1, <2>1, StaysInside DEF Knows
<1>5. PICK q : q = dataInType(p, t)
  OBVIOUS
<1>6. dataElement(p, t) = q
  BY <1>4, <1>5 DEF dataElement
<1>7. ASSUME SameOutside(p, q), q.made = p.made, KnowsType(q, w)
      PROVE  Knows(dataElement(p, t), w) /\ dataElement(p, t).made = p.made
  <2>1. Whereabouts(q, w) /\ Shallow(w) /\ w.at \notin AddressLeaves
    BY <1>1, <1>7, StaysInside
  <2> QED BY <1>1, <1>6, <1>7, <2>1, TpyParts DEF Knows, SameOutside
<1>8. CASE v.at = "TypeName"
  <2>1. p.name_parse = 2
    BY <1>4, <1>8 DEF KnowsType, TypeLevels, Reading, OpcLevel, ItemPlaces, BoundFields
  <2>2. q = [p EXCEPT !.rec["Name"] = @ \cup t]
    BY <1>5, <2>1 DEF dataInType
  <2>3. q = [f \in InfoFields |-> IF f = "rec" THEN [p["rec"] EXCEPT !["Name"] = p["rec"]["Name"] \cup t]
                                  ELSE p[f]]
    BY <1>4, <2>2, InfoNames DEF IsInfo, IsOver
  <2>4. SameOutside(p, q) /\ q.made = p.made
    BY <1>4, <2>3, InfoNames DEF SameOutside, IsInfo, IsOver
  <2>4a. /\ q.rec["Name"] = w.text["TypeName"]
         /\ \A f \in TypeFields \ {"Name"} : q.rec[f] = p.rec[f]
         /\ q = [f \in InfoFields |-> IF f = "rec" THEN q.rec ELSE p[f]]
    <3>1. q.rec = [p["rec"] EXCEPT !["Name"] = p["rec"]["Name"] \cup t]
      BY <2>3, InfoNames
    <3>2. p.rec["Name"] = v.text["TypeName"] /\ p.rec = [f \in TypeFields |-> p.rec[f]]
      BY <1>4, <1>8 DEF IsInfo, IsOver, KnowsType, TypeRead, ItemRead, ItemPlaces
    <3>3. w.text["TypeName"] = v.text["TypeName"] \cup t
      BY <1>3, <1>8
    <3> QED BY <2>3, <3>1, <3>2, <3>3, InfoNames DEF TypeFields
  <2>5. KnowsType(q, w)
    BY <1>1, <1>3, <1>4, <1>8, <2>4a, InfoNames
       DEF KnowsType, TypeLevels, TypeRead, ArrayRead, EnumRead, ItemRead, PropertyRead, Reading,
           OpcLevel, ItemPlaces, BoundFields, EnumFields, ItemPart, IsInfo, IsOver, TypeFields,
           ItemFields, TypePlaces
  <2> QED BY <1>7, <2>4, <2>5
<1>9. CASE v.at = "TypeType"
  <2>1. p.name_parse \in {0, 1} /\ p.type_parse = 2
    BY <1>4, <1>9 DEF KnowsType, TypeLevels, Reading, OpcLevel, ItemPlaces, BoundFields
  <2>2. q = [p EXCEPT !.rec["Type"] = @ \cup t]
    BY <1>5, <2>1 DEF dataInType
  <2>3. q = [f \in InfoFields |-> IF f = "rec" THEN [p["rec"] EXCEPT !["Type"] = p["rec"]["Type"] \cup t]
                                  ELSE p[f]]
    BY <1>4, <2>2, InfoNames DEF IsInfo, IsOver
  <2>4. SameOutside(p, q) /\ q.made = p.made
    BY <1>4, <2>3, InfoNames DEF SameOutside, IsInfo, IsOver
  <2>4a. /\ q.rec["Type"] = w.text["TypeType"]
         /\ \A f \in TypeFields \ {"Type"} : q.rec[f] = p.rec[f]
         /\ q = [f \in InfoFields |-> IF f = "rec" THEN q.rec ELSE p[f]]
    <3>1. q.rec = [p["rec"] EXCEPT !["Type"] = p["rec"]["Type"] \cup t]
      BY <2>3, InfoNames
    <3>2. p.rec["Type"] = v.text["TypeType"] /\ p.rec = [f \in TypeFields |-> p.rec[f]]
      BY <1>4, <1>9 DEF IsInfo, IsOver, KnowsType, TypeRead, ItemRead, ItemPlaces
    <3>3. w.text["TypeType"] = v.text["TypeType"] \cup t
      BY <1>3, <1>9
    <3> QED BY <2>3, <3>1, <3>2, <3>3, InfoNames DEF TypeFields
  <2>5. KnowsType(q, w)
    BY <1>1, <1>3, <1>4, <1>9, <2>4a, InfoNames
       DEF KnowsType, TypeLevels, TypeRead, ArrayRead, EnumRead, ItemRead, PropertyRead, Reading,
           OpcLevel, ItemPlaces, BoundFields, EnumFields, ItemPart, IsInfo, IsOver, TypeFields,
           ItemFields, TypePlaces
  <2> QED BY <1>7, <2>4, <2>5
<1>10. CASE v.at = "TypeBitSize"
  <2>1. p.name_parse \in {0, 1} /\ p.type_parse \in {0, 1} /\ p.number_parse["BitSize"] = 2
    BY <1>4, <1>10 DEF KnowsType, TypeLevels, Reading, OpcLevel, ItemPlaces, BoundFields
  <2>2. q = [p EXCEPT !.data = @ \cup t]
    BY <1>5, <2>1 DEF dataInType
  <2>3. q = [f \in InfoFields |-> IF f = "data" THEN p["data"] \cup t ELSE p[f]]
    BY <1>4, <2>2, InfoNames DEF IsInfo, IsOver
  <2>4. SameOutside(p, q) /\ q.made = p.made
    BY <1>4, <2>3, InfoNames DEF SameOutside, IsInfo, IsOver
  <2>5. KnowsType(q, w)
    BY <1>1, <1>3, <1>4, <1>10, <2>3, InfoNames
       DEF KnowsType, TypeLevels, TypeRead, ArrayRead, EnumRead, ItemRead, PropertyRead, Reading,
           OpcLevel, ItemPlaces, BoundFields, EnumFields, ItemPart, IsInfo, IsOver, TypeFields,
           ItemFields, TypePlaces
  <2> QED BY <1>7, <2>4, <2>5
<1>11. CASE v.at = "LBound"
  <2>1. /\ p.name_parse \in {0, 1} /\ p.type_parse \in {0, 1} /\ p.number_parse["BitSize"] \in {0, 1}
        /\ p.array_parse = 3
    BY <1>4, <1>11 DEF KnowsType, TypeLevels, Reading, OpcLevel, ItemPlaces, BoundFields
  <2>2. q = [p EXCEPT !.array_data = @ \cup t]
    BY <1>5, <2>1 DEF dataInType
  <2>3. q = [f \in InfoFields |-> IF f = "array_data" THEN p["array_data"] \cup t ELSE p[f]]
    BY <1>4, <2>2, InfoNames DEF IsInfo, IsOver
  <2>4. SameOutside(p, q) /\ q.made = p.made
    BY <1>4, <2>3, InfoNames DEF SameOutside, IsInfo, IsOver
  <2>5. KnowsType(q, w)
    BY <1>1, <1>3, <1>4, <1>11, <2>3, InfoNames
       DEF KnowsType, TypeLevels, TypeRead, ArrayRead, EnumRead, ItemRead, PropertyRead, Reading,
           OpcLevel, ItemPlaces, BoundFields, EnumFields, ItemPart, IsInfo, IsOver, TypeFields,
           ItemFields, TypePlaces
  <2> QED BY <1>7, <2>4, <2>5
<1>12. CASE v.at = "Elements"
  <2>1. /\ p.name_parse \in {0, 1} /\ p.type_parse \in {0, 1} /\ p.number_parse["BitSize"] \in {0, 1}
        /\ p.array_parse = 3
    BY <1>4, <1>12 DEF KnowsType, TypeLevels, Reading, OpcLevel, ItemPlaces, BoundFields
  <2>2. q = [p EXCEPT !.array_data = @ \cup t]
    BY <1>5, <2>1 DEF dataInType
  <2>3. q = [f \in InfoFields |-> IF f = "array_data" THEN p["array_data"] \cup t ELSE p[f]]
    BY <1>4, <2>2, InfoNames DEF IsInfo, IsOver
  <2>4. SameOutside(p, q) /\ q.made = p.made
    BY <1>4, <2>3, InfoNames DEF SameOutside, IsInfo, IsOver
  <2>5. KnowsType(q, w)
    BY <1>1, <1>3, <1>4, <1>12, <2>3, InfoNames
       DEF KnowsType, TypeLevels, TypeRead, ArrayRead, EnumRead, ItemRead, PropertyRead, Reading,
           OpcLevel, ItemPlaces, BoundFields, EnumFields, ItemPart, IsInfo, IsOver, TypeFields,
           ItemFields, TypePlaces
  <2> QED BY <1>7, <2>4, <2>5
<1>13. CASE v.at = "Enum"
  <2>1. /\ p.name_parse \in {0, 1} /\ p.type_parse \in {0, 1} /\ p.number_parse["BitSize"] \in {0, 1}
        /\ p.array_parse \in {0, 1, 2} /\ p.enum_parse = 3
    BY <1>4, <1>13 DEF KnowsType, TypeLevels, Reading, OpcLevel, ItemPlaces, BoundFields
  <2>2. q = [p EXCEPT !.enum_data = @ \cup t]
    BY <1>5, <2>1 DEF dataInType
  <2>3. q = [f \in InfoFields |-> IF f = "enum_data" THEN p["enum_data"] \cup t ELSE p[f]]
    BY <1>4, <2>2, InfoNames DEF IsInfo, IsOver
  <2>4. SameOutside(p, q) /\ q.made = p.made
    BY <1>4, <2>3, InfoNames DEF SameOutside, IsInfo, IsOver
  <2>5. KnowsType(q, w)
    BY <1>1, <1>3, <1>4, <1>13, <2>3, InfoNames
       DEF KnowsType, TypeLevels, TypeRead, ArrayRead, EnumRead, ItemRead, PropertyRead, Reading,
           OpcLevel, ItemPlaces, BoundFields, EnumFields, ItemPart, IsInfo, IsOver, TypeFields,
           ItemFields, TypePlaces
  <2> QED BY <1>7, <2>4, <2>5
<1>14. CASE v.at = "Text"
  <2>1. /\ p.name_parse \in {0, 1} /\ p.type_parse \in {0, 1} /\ p.number_parse["BitSize"] \in {0, 1}
        /\ p.array_parse \in {0, 1, 2} /\ p.enum_parse = 3
    BY <1>4, <1>14 DEF KnowsType, TypeLevels, Reading, OpcLevel, ItemPlaces, BoundFields
  <2>2. q = [p EXCEPT !.enum_data = @ \cup t]
    BY <1>5, <2>1 DEF dataInType
  <2>3. q = [f \in InfoFields |-> IF f = "enum_data" THEN p["enum_data"] \cup t ELSE p[f]]
    BY <1>4, <2>2, InfoNames DEF IsInfo, IsOver
  <2>4. SameOutside(p, q) /\ q.made = p.made
    BY <1>4, <2>3, InfoNames DEF SameOutside, IsInfo, IsOver
  <2>5. KnowsType(q, w)
    BY <1>1, <1>3, <1>4, <1>14, <2>3, InfoNames
       DEF KnowsType, TypeLevels, TypeRead, ArrayRead, EnumRead, ItemRead, PropertyRead, Reading,
           OpcLevel, ItemPlaces, BoundFields, EnumFields, ItemPart, IsInfo, IsOver, TypeFields,
           ItemFields, TypePlaces
  <2> QED BY <1>7, <2>4, <2>5
<1>15. CASE v.at = "Comment"
  <2>1. /\ p.name_parse \in {0, 1} /\ p.type_parse \in {0, 1} /\ p.number_parse["BitSize"] \in {0, 1}
        /\ p.array_parse \in {0, 1, 2} /\ p.enum_parse = 3
    BY <1>4, <1>15 DEF KnowsType, TypeLevels, Reading, OpcLevel, ItemPlaces, BoundFields
  <2>2. q = [p EXCEPT !.enum_data = @ \cup t]
    BY <1>5, <2>1 DEF dataInType
  <2>3. q = [f \in InfoFields |-> IF f = "enum_data" THEN p["enum_data"] \cup t ELSE p[f]]
    BY <1>4, <2>2, InfoNames DEF IsInfo, IsOver
  <2>4. SameOutside(p, q) /\ q.made = p.made
    BY <1>4, <2>3, InfoNames DEF SameOutside, IsInfo, IsOver
  <2>5. KnowsType(q, w)
    BY <1>1, <1>3, <1>4, <1>15, <2>3, InfoNames
       DEF KnowsType, TypeLevels, TypeRead, ArrayRead, EnumRead, ItemRead, PropertyRead, Reading,
           OpcLevel, ItemPlaces, BoundFields, EnumFields, ItemPart, IsInfo, IsOver, TypeFields,
           ItemFields, TypePlaces
  <2> QED BY <1>7, <2>4, <2>5
<1>16. CASE v.at = "ItemName"
  <2>1. /\ p.name_parse \in {0, 1} /\ p.type_parse \in {0, 1} /\ p.number_parse["BitSize"] \in {0, 1}
        /\ p.array_parse \in {0, 1, 2} /\ p.enum_parse \in {0, 1, 2} /\ p.struct_parse = 3
    BY <1>4, <1>16 DEF KnowsType, TypeLevels, Reading, OpcLevel, ItemPlaces, BoundFields
  <2>2. q = [p EXCEPT !.struct_element["Name"] = @ \cup t]
    BY <1>5, <2>1 DEF dataInType
  <2>3. q = [f \in InfoFields |->
                IF f = "struct_element" THEN [p["struct_element"]
                                               EXCEPT !["Name"] = p["struct_element"]["Name"] \cup t]
                ELSE p[f]]
    BY <1>4, <2>2, InfoNames DEF IsInfo, IsOver
  <2>4. SameOutside(p, q) /\ q.made = p.made
    BY <1>4, <2>3, InfoNames DEF SameOutside, IsInfo, IsOver
  <2>4a. /\ q.struct_element["Name"] = w.text["ItemName"]
         /\ \A f \in ItemFields \ {"Name"} : q.struct_element[f] = p.struct_element[f]
         /\ q = [f \in InfoFields |-> IF f = "struct_element" THEN q.struct_element ELSE p[f]]
    <3>1. q.struct_element = [p["struct_element"] EXCEPT !["Name"] = p["struct_element"]["Name"] \cup t]
      BY <2>3, InfoNames
    <3>2. /\ p.struct_element["Name"] = v.text["ItemName"]
          /\ p.struct_element = [f \in ItemFields |-> p.struct_element[f]]
      BY <1>4, <1>16 DEF IsInfo, IsOver, KnowsType, TypeRead, ItemRead, ItemPlaces
    <3>3. w.text["ItemName"] = v.text["ItemName"] \cup t
      BY <1>3, <1>16
    <3> QED BY <2>3, <3>1, <3>2, <3>3, InfoNames DEF ItemFields
  <2>5. KnowsType(q, w)
    BY <1>1, <1>3, <1>4, <1>16, <2>4a, InfoNames
       DEF KnowsType, TypeLevels, TypeRead, ArrayRead, EnumRead, ItemRead, PropertyRead, Reading,
           OpcLevel, ItemPlaces, BoundFields, EnumFields, ItemPart, IsInfo, IsOver, TypeFields,
           ItemFields, TypePlaces
  <2> QED BY <1>7, <2>4, <2>5
<1>17. CASE v.at = "ItemType"
  <2>1. /\ p.name_parse \in {0, 1} /\ p.type_parse \in {0, 1} /\ p.number_parse["BitSize"] \in {0, 1}
        /\ p.array_parse \in {0, 1, 2} /\ p.enum_parse \in {0, 1, 2} /\ p.struct_parse = 4
    BY <1>4, <1>17 DEF KnowsType, TypeLevels, Reading, OpcLevel, ItemPlaces, BoundFields
  <2>2. q = [p EXCEPT !.struct_element["Type"] = @ \cup t]
    BY <1>5, <2>1 DEF dataInType
  <2>3. q = [f \in InfoFields |->
                IF f = "struct_element" THEN [p["struct_element"]
                                               EXCEPT !["Type"] = p["struct_element"]["Type"] \cup t]
                ELSE p[f]]
    BY <1>4, <2>2, InfoNames DEF IsInfo, IsOver
  <2>4. SameOutside(p, q) /\ q.made = p.made
    BY <1>4, <2>3, InfoNames DEF SameOutside, IsInfo, IsOver
  <2>4a. /\ q.struct_element["Type"] = w.text["ItemType"]
         /\ \A f \in ItemFields \ {"Type"} : q.struct_element[f] = p.struct_element[f]
         /\ q = [f \in InfoFields |-> IF f = "struct_element" THEN q.struct_element ELSE p[f]]
    <3>1. q.struct_element = [p["struct_element"] EXCEPT !["Type"] = p["struct_element"]["Type"] \cup t]
      BY <2>3, InfoNames
    <3>2. /\ p.struct_element["Type"] = v.text["ItemType"]
          /\ p.struct_element = [f \in ItemFields |-> p.struct_element[f]]
      BY <1>4, <1>17 DEF IsInfo, IsOver, KnowsType, TypeRead, ItemRead, ItemPlaces
    <3>3. w.text["ItemType"] = v.text["ItemType"] \cup t
      BY <1>3, <1>17
    <3> QED BY <2>3, <3>1, <3>2, <3>3, InfoNames DEF ItemFields
  <2>5. KnowsType(q, w)
    BY <1>1, <1>3, <1>4, <1>17, <2>4a, InfoNames
       DEF KnowsType, TypeLevels, TypeRead, ArrayRead, EnumRead, ItemRead, PropertyRead, Reading,
           OpcLevel, ItemPlaces, BoundFields, EnumFields, ItemPart, IsInfo, IsOver, TypeFields,
           ItemFields, TypePlaces
  <2> QED BY <1>7, <2>4, <2>5
<1>18. CASE v.at = "ItemBitSize"
  <2>1. /\ p.name_parse \in {0, 1} /\ p.type_parse \in {0, 1} /\ p.number_parse["BitSize"] \in {0, 1}
        /\ p.array_parse \in {0, 1, 2} /\ p.enum_parse \in {0, 1, 2} /\ p.struct_parse = 5
    BY <1>4, <1>18 DEF KnowsType, TypeLevels, Reading, OpcLevel, ItemPlaces, BoundFields
  <2>2. q = [p EXCEPT !.data = @ \cup t]
    BY <1>5, <2>1 DEF dataInType
  <2>3. q = [f \in InfoFields |-> IF f = "data" THEN p["data"] \cup t ELSE p[f]]
    BY <1>4, <2>2, InfoNames DEF IsInfo, IsOver
  <2>4. SameOutside(p, q) /\ q.made = p.made
    BY <1>4, <2>3, InfoNames DEF SameOutside, IsInfo, IsOver
  <2>5. KnowsType(q, w)
    BY <1>1, <1>3, <1>4, <1>18, <2>3, InfoNames
       DEF KnowsType, TypeLevels, TypeRead, ArrayRead, EnumRead, ItemRead, PropertyRead, Reading,
           OpcLevel, ItemPlaces, BoundFields, EnumFields, ItemPart, IsInfo, IsOver, TypeFields,
           ItemFields, TypePlaces
  <2> QED BY <1>7, <2>4, <2>5
<1>19. CASE v.at = "BitOffs"
  <2>1. /\ p.name_parse \in {0, 1} /\ p.type_parse \in {0, 1} /\ p.number_parse["BitSize"] \in {0, 1}
        /\ p.array_parse \in {0, 1, 2} /\ p.enum_parse \in {0, 1, 2} /\ p.struct_parse = 5
    BY <1>4, <1>19 DEF KnowsType, TypeLevels, Reading, OpcLevel, ItemPlaces, BoundFields
  <2>2. q = [p EXCEPT !.data = @ \cup t]
    BY <1>5, <2>1 DEF dataInType
  <2>3. q = [f \in InfoFields |-> IF f = "data" THEN p["data"] \cup t ELSE p[f]]
    BY <1>4, <2>2, InfoNames DEF IsInfo, IsOver
  <2>4. SameOutside(p, q) /\ q.made = p.made
    BY <1>4, <2>3, InfoNames DEF SameOutside, IsInfo, IsOver
  <2>5. KnowsType(q, w)
    BY <1>1, <1>3, <1>4, <1>19, <2>3, InfoNames
       DEF KnowsType, TypeLevels, TypeRead, ArrayRead, EnumRead, ItemRead, PropertyRead, Reading,
           OpcLevel, ItemPlaces, BoundFields, EnumFields, ItemPart, IsInfo, IsOver, TypeFields,
           ItemFields, TypePlaces
  <2> QED BY <1>7, <2>4, <2>5
<1>20. CASE v.at = "TypePropertyName"
  <2>1. /\ p.opc_parse = 3 /\ p.name_parse \in {0, 1} /\ p.type_parse \in {0, 1}
        /\ p.number_parse["BitSize"] \in {0, 1}
        /\ p.array_parse \in {0, 1, 2} /\ p.enum_parse \in {0, 1, 2} /\ p.struct_parse \in {0, 1, 2}
    BY <1>4, <1>20 DEF KnowsType, TypeLevels, Reading, OpcLevel, ItemPlaces, BoundFields
  <2>2. q = opcData(p, t)
    BY <1>5, <2>1 DEF dataInType, opcData
  <2>3. /\ p.opc_cdata <=> v.cdata \/ v.at \notin v.section
        /\ p.opc_data = v.value["TypePropertyName"]
    BY <1>4, <1>20 DEF KnowsType, PropertyRead
  <2>4. q = [f \in InfoFields |-> IF f = "opc_data" THEN w.value["TypePropertyName"] ELSE p[f]]
    <3>1. "TypePropertyName" \in TpyPlaces
      BY TpyPlacesAre
    <3>2. CASE v.cdata \/ v.at \notin v.section
      <4>1. q = [p EXCEPT !.opc_data = @ \cup t]
        BY <2>1, <2>2, <2>3, <3>2 DEF opcData
      <4>2. w.value["TypePropertyName"] = p.opc_data \cup t
        BY <1>2, <1>20, <2>3, <3>1, <3>2
      <4> QED BY <1>4, <4>1, <4>2, InfoNames DEF IsInfo, IsOver
    <3>3. CASE ~(v.cdata \/ v.at \notin v.section)
      <4>1. q = p
        BY <2>1, <2>2, <2>3, <3>3 DEF opcData
      <4>2. w.value["TypePropertyName"] = p.opc_data
        BY <1>2, <1>20, <2>3, <3>1, <3>3
      <4> QED BY <1>4, <4>1, <4>2, InfoNames DEF IsInfo, IsOver
    <3> QED BY <3>2, <3>3
  <2>5. SameOutside(p, q) /\ q.made = p.made
    BY <1>4, <2>4, InfoNames DEF SameOutside, IsInfo, IsOver
  <2>6. KnowsType(q, w)
    BY <1>1, <1>3, <1>4, <1>20, <2>4, InfoNames
       DEF KnowsType, TypeLevels, TypeRead, ArrayRead, EnumRead, ItemRead, PropertyRead, Reading,
           ItemPlaces, BoundFields, EnumFields, ItemPart, TypePlaces
  <2> QED BY <1>7, <2>5, <2>6
<1>21. CASE v.at = "TypePropertyValue"
  <2>1. /\ p.opc_parse = 4 /\ p.name_parse \in {0, 1} /\ p.type_parse \in {0, 1}
        /\ p.number_parse["BitSize"] \in {0, 1}
        /\ p.array_parse \in {0, 1, 2} /\ p.enum_parse \in {0, 1, 2} /\ p.struct_parse \in {0, 1, 2}
    BY <1>4, <1>21 DEF KnowsType, TypeLevels, Reading, OpcLevel, ItemPlaces, BoundFields
  <2>2. q = opcData(p, t)
    BY <1>5, <2>1 DEF dataInType, opcData
  <2>3. /\ p.opc_cdata <=> v.cdata \/ v.at \notin v.section
        /\ p.opc_data = v.value["TypePropertyValue"]
    BY <1>4, <1>21 DEF KnowsType, PropertyRead
  <2>4. q = [f \in InfoFields |-> IF f = "opc_data" THEN w.value["TypePropertyValue"] ELSE p[f]]
    <3>1. "TypePropertyValue" \in TpyPlaces
      BY TpyPlacesAre
    <3>2. CASE v.cdata \/ v.at \notin v.section
      <4>1. q = [p EXCEPT !.opc_data = @ \cup t]
        BY <2>1, <2>2, <2>3, <3>2 DEF opcData
      <4>2. w.value["TypePropertyValue"] = p.opc_data \cup t
        BY <1>2, <1>21, <2>3, <3>1, <3>2
      <4> QED BY <1>4, <4>1, <4>2, InfoNames DEF IsInfo, IsOver
    <3>3. CASE ~(v.cdata \/ v.at \notin v.section)
      <4>1. q = p
        BY <2>1, <2>2, <2>3, <3>3 DEF opcData
      <4>2. w.value["TypePropertyValue"] = p.opc_data
        BY <1>2, <1>21, <2>3, <3>1, <3>3
      <4> QED BY <1>4, <4>1, <4>2, InfoNames DEF IsInfo, IsOver
    <3> QED BY <3>2, <3>3
  <2>5. SameOutside(p, q) /\ q.made = p.made
    BY <1>4, <2>4, InfoNames DEF SameOutside, IsInfo, IsOver
  <2>6. KnowsType(q, w)
    BY <1>1, <1>3, <1>4, <1>21, <2>4, InfoNames
       DEF KnowsType, TypeLevels, TypeRead, ArrayRead, EnumRead, ItemRead, PropertyRead, Reading,
           ItemPlaces, BoundFields, EnumFields, ItemPart, TypePlaces
  <2> QED BY <1>7, <2>5, <2>6
<1>22. CASE v.at = "ItemPropertyName"
  <2>1. /\ p.opc_parse = 3 /\ p.name_parse \in {0, 1} /\ p.type_parse \in {0, 1}
        /\ p.number_parse["BitSize"] \in {0, 1}
        /\ p.array_parse \in {0, 1, 2} /\ p.enum_parse \in {0, 1, 2} /\ p.struct_parse \in {0, 1, 2}
    BY <1>4, <1>22 DEF KnowsType, TypeLevels, Reading, OpcLevel, ItemPlaces, BoundFields
  <2>2. q = opcData(p, t)
    BY <1>5, <2>1 DEF dataInType, opcData
  <2>3. /\ p.opc_cdata <=> v.cdata \/ v.at \notin v.section
        /\ p.opc_data = v.value["ItemPropertyName"]
    BY <1>4, <1>22 DEF KnowsType, PropertyRead
  <2>4. q = [f \in InfoFields |-> IF f = "opc_data" THEN w.value["ItemPropertyName"] ELSE p[f]]
    <3>1. "ItemPropertyName" \in TpyPlaces
      BY TpyPlacesAre
    <3>2. CASE v.cdata \/ v.at \notin v.section
      <4>1. q = [p EXCEPT !.opc_data = @ \cup t]
        BY <2>1, <2>2, <2>3, <3>2 DEF opcData
      <4>2. w.value["ItemPropertyName"] = p.opc_data \cup t
        BY <1>2, <1>22, <2>3, <3>1, <3>2
      <4> QED BY <1>4, <4>1, <4>2, InfoNames DEF IsInfo, IsOver
    <3>3. CASE ~(v.cdata \/ v.at \notin v.section)
      <4>1. q = p
        BY <2>1, <2>2, <2>3, <3>3 DEF opcData
      <4>2. w.value["ItemPropertyName"] = p.opc_data
        BY <1>2, <1>22, <2>3, <3>1, <3>3
      <4> QED BY <1>4, <4>1, <4>2, InfoNames DEF IsInfo, IsOver
    <3> QED BY <3>2, <3>3
  <2>5. SameOutside(p, q) /\ q.made = p.made
    BY <1>4, <2>4, InfoNames DEF SameOutside, IsInfo, IsOver
  <2>6. KnowsType(q, w)
    BY <1>1, <1>3, <1>4, <1>22, <2>4, InfoNames
       DEF KnowsType, TypeLevels, TypeRead, ArrayRead, EnumRead, ItemRead, PropertyRead, Reading,
           ItemPlaces, BoundFields, EnumFields, ItemPart, TypePlaces
  <2> QED BY <1>7, <2>5, <2>6
<1>23. CASE v.at = "ItemPropertyValue"
  <2>1. /\ p.opc_parse = 4 /\ p.name_parse \in {0, 1} /\ p.type_parse \in {0, 1}
        /\ p.number_parse["BitSize"] \in {0, 1}
        /\ p.array_parse \in {0, 1, 2} /\ p.enum_parse \in {0, 1, 2} /\ p.struct_parse \in {0, 1, 2}
    BY <1>4, <1>23 DEF KnowsType, TypeLevels, Reading, OpcLevel, ItemPlaces, BoundFields
  <2>2. q = opcData(p, t)
    BY <1>5, <2>1 DEF dataInType, opcData
  <2>3. /\ p.opc_cdata <=> v.cdata \/ v.at \notin v.section
        /\ p.opc_data = v.value["ItemPropertyValue"]
    BY <1>4, <1>23 DEF KnowsType, PropertyRead
  <2>4. q = [f \in InfoFields |-> IF f = "opc_data" THEN w.value["ItemPropertyValue"] ELSE p[f]]
    <3>1. "ItemPropertyValue" \in TpyPlaces
      BY TpyPlacesAre
    <3>2. CASE v.cdata \/ v.at \notin v.section
      <4>1. q = [p EXCEPT !.opc_data = @ \cup t]
        BY <2>1, <2>2, <2>3, <3>2 DEF opcData
      <4>2. w.value["ItemPropertyValue"] = p.opc_data \cup t
        BY <1>2, <1>23, <2>3, <3>1, <3>2
      <4> QED BY <1>4, <4>1, <4>2, InfoNames DEF IsInfo, IsOver
    <3>3. CASE ~(v.cdata \/ v.at \notin v.section)
      <4>1. q = p
        BY <2>1, <2>2, <2>3, <3>3 DEF opcData
      <4>2. w.value["ItemPropertyValue"] = p.opc_data
        BY <1>2, <1>23, <2>3, <3>1, <3>3
      <4> QED BY <1>4, <4>1, <4>2, InfoNames DEF IsInfo, IsOver
    <3> QED BY <3>2, <3>3
  <2>5. SameOutside(p, q) /\ q.made = p.made
    BY <1>4, <2>4, InfoNames DEF SameOutside, IsInfo, IsOver
  <2>6. KnowsType(q, w)
    BY <1>1, <1>3, <1>4, <1>23, <2>4, InfoNames
       DEF KnowsType, TypeLevels, TypeRead, ArrayRead, EnumRead, ItemRead, PropertyRead, Reading,
           ItemPlaces, BoundFields, EnumFields, ItemPart, TypePlaces
  <2> QED BY <1>7, <2>5, <2>6
<1> QED BY <1>8, <1>9, <1>10, <1>11, <1>12, <1>13, <1>14, <1>15, <1>16, <1>17, <1>18, <1>19, <1>20,
           <1>21, <1>22, <1>23
       DEF TypePlaces, ItemPlaces, TextPlaces, PropertyParts, AddressLeaves, RoutingLevel,
           CompilerLevel

\* The text of a property changes, or whether it is taken.
LEMMA PartChanged ==
  ASSUME NEW p, NEW q, NEW v, NEW w, IsView(v), Knows(p, v), Stays(v, w), v.deeper = 0,
         v.at \in PropertyParts, w.text = v.text,
         \A j \in PropertyParts \ {v.at} : w.value[j] = v.value[j],
         q = [f \in InfoFields |-> IF f = "opc_data" THEN w.value[v.at]
                                   ELSE IF f = "opc_cdata" THEN q.opc_cdata ELSE p[f]],
         q.opc_cdata <=> w.cdata \/ v.at \notin w.section
  PROVE  Knows(q, w) /\ q.made = p.made
<1>1. w.at = v.at /\ w.deeper = 0 /\ w.seen = v.seen /\ v.at # "FbInfo"
  BY DEF Stays, PropertyParts
<1>2. \/ v.at \in TpySymbolPlaces /\ v.at \in {"SymbolPropertyName", "SymbolPropertyValue"}
      \/ v.at \in TypePlaces /\ v.at \in {"TypePropertyName", "TypePropertyValue",
                                          "ItemPropertyName", "ItemPropertyValue"}
  BY DEF PropertyParts, TpySymbolPlaces, TypePlaces, ItemPlaces
<1>3. SameOutside(p, q) /\ q.made = p.made
  <2>1. IsInfo(p)
    BY DEF Knows
  <2> QED BY <2>1, InfoNames DEF SameOutside, IsInfo, IsOver
<1>4. Whereabouts(q, w) /\ Shallow(w) /\ w.at \notin AddressLeaves
  BY <1>1, <1>2, <1>3, StaysInside
<1>5. CASE v.at \in TpySymbolPlaces /\ v.at \in {"SymbolPropertyName", "SymbolPropertyValue"}
  <2>1. KnowsSymbol(p, v)
    BY <1>5 DEF Knows
  <2>2. KnowsSymbol(q, w)
    BY <1>1, <1>5, <2>1, InfoNames
       DEF KnowsSymbol, SymbolLevels, SymbolRead, PropertyRead, Reading, Numbers, SymbolPart,
           PropertyParts
  <2> QED BY <1>1, <1>3, <1>4, <1>5, <2>2, TpyParts DEF Knows, SameOutside
<1>6. CASE v.at \in TypePlaces /\ v.at \in {"TypePropertyName", "TypePropertyValue",
                                            "ItemPropertyName", "ItemPropertyValue"}
  <2>1. KnowsType(p, v)
    BY <1>6 DEF Knows
  <2>2. KnowsType(q, w)
    BY <1>1, <1>6, <2>1, InfoNames
       DEF KnowsType, TypeLevels, TypeRead, ArrayRead, EnumRead, ItemRead, PropertyRead, Reading,
           ItemPlaces, BoundFields, EnumFields, ItemPart, PropertyParts
  <2> QED BY <1>1, <1>3, <1>4, <1>6, <2>2, TpyParts DEF Knows, SameOutside
<1> QED BY <1>2, <1>5, <1>6

\* The parser takes sections for text where a property has text.
LEMMA InPropertyPart ==
  ASSUME NEW p, NEW v, IsView(v), Knows(p, v)
  PROVE  InOpcText(p) <=> v.deeper = 0 /\ v.at \in PropertyParts
<1>1. v.deeper \in Nat /\ v.at \in TpyPlaces /\ Whereabouts(p, v)
  BY DEF IsView, Knows
<1>2. CASE v.at \in TpySymbolPlaces
  <2>1. p.ignore = v.deeper /\ p.symbols = 2
    BY <1>1, <1>2, TpyParts DEF Whereabouts, TpySymbolPlaces
  <2>2. p.opc_parse = OpcLevel(v.at)
    BY <1>2 DEF Knows, KnowsSymbol, SymbolLevels
  <2>3. OpcLevel(v.at) >= 3 <=> v.at \in PropertyParts
    BY <1>2 DEF OpcLevel, PropertyParts, TpySymbolPlaces
  <2> QED BY <2>1, <2>2, <2>3 DEF InOpcText
<1>3. CASE v.at \in TypePlaces
  <2>1. /\ v.at # "FbInfo" => p.ignore = v.deeper
        /\ v.at = "FbInfo" => p.ignore # 0
        /\ p.types = 2
    BY <1>1, <1>3, TpyParts DEF Whereabouts
  <2>2. p.opc_parse = OpcLevel(v.at)
    BY <1>3 DEF Knows, KnowsType, TypeLevels
  <2>3. OpcLevel(v.at) >= 3 <=> v.at \in PropertyParts
    BY <1>3 DEF OpcLevel, PropertyParts, TypePlaces, ItemPlaces
  <2>4. "FbInfo" \notin PropertyParts
    BY DEF PropertyParts
  <2> QED BY <2>1, <2>2, <2>3, <2>4 DEF InOpcText
<1>4. CASE v.at \notin TpySymbolPlaces \cup TypePlaces
  <2>1. p.symbols # 2 /\ p.types # 2
    BY <1>1, <1>4 DEF Whereabouts
  <2>2. v.at \notin PropertyParts
    BY <1>4 DEF PropertyParts, TpySymbolPlaces, TypePlaces, ItemPlaces
  <2> QED BY <2>1, <2>2 DEF InOpcText
<1> QED BY <1>2, <1>3, <1>4

\* A section starts.
LEMMA SectionStarts ==
  ASSUME NEW p, NEW v, NEW w, IsView(v), Knows(p, v), StartsSection(v, w)
  PROVE  Knows(startCData(p), w) /\ startCData(p).made = p.made
<1>1. /\ Stays(v, w) /\ w.text = v.text /\ ~v.cdata /\ w.cdata = (v.deeper = 0)
      /\ v.deeper \in Nat /\ v.at \in TpyPlaces
  BY DEF StartsSection, IsView
<1>2. Root \notin PropertyParts /\ PropertyParts \subseteq TpyPlaces
  BY TpyPlacesAre DEF PropertyParts, Root
<1>3. CASE InOpcText(p)
  <2>1. v.deeper = 0 /\ v.at \in PropertyParts
    BY <1>3, InPropertyPart
  <2>2. PICK q : q = startCData(p)
    OBVIOUS
  <2>3. q = [f \in InfoFields |-> IF f = "opc_data" THEN {}
                                  ELSE IF f = "opc_cdata" THEN TRUE ELSE p[f]]
    <3>1. p = [f \in InfoFields |-> p[f]]
      BY DEF Knows, IsInfo, IsOver
    <3> QED BY <1>3, <2>2, <3>1, InfoNames DEF startCData
  <2>4. /\ w.value[v.at] = {} /\ \A j \in PropertyParts \ {v.at} : w.value[j] = v.value[j]
    BY <1>2, <2>1 DEF StartsSection
  <2>5. q.opc_cdata = TRUE
    BY <2>3, InfoNames
  <2>6. q = [f \in InfoFields |-> IF f = "opc_data" THEN w.value[v.at]
                                  ELSE IF f = "opc_cdata" THEN q.opc_cdata ELSE p[f]]
    BY <2>3, <2>4, <2>5
  <2>7. Knows(q, w) /\ q.made = p.made
    BY <1>1, <2>1, <2>4, <2>5, <2>6, PartChanged
  <2> QED BY <2>2, <2>7
<1>4. CASE ~InOpcText(p)
  <2>1. ~(v.deeper = 0 /\ v.at \in PropertyParts)
    BY <1>4, InPropertyPart
  <2>2. \A j \in PropertyParts : w.value[j] = v.value[j]
    BY <1>1, <1>2, <2>1 DEF StartsSection, SameText
  <2>3. v.at \in PropertyParts => w.section = v.section /\ ~w.cdata
    <3>1. SUFFICES ASSUME v.at \in PropertyParts PROVE w.section = v.section /\ ~w.cdata
      OBVIOUS
    <3>2. v.deeper > 0 /\ (v.deeper = 0) = FALSE
      BY <1>1, <2>1, <3>1
    <3>3. SameText(v, w) /\ w.cdata = FALSE
      BY <1>1, <3>2 DEF StartsSection
    <3> QED BY <3>3 DEF SameText
  <2>4. Knows(p, w)
    BY <1>1, <2>2, <2>3, Untouched
  <2> QED BY <1>4, <2>4 DEF startCData
<1> QED BY <1>3, <1>4

\* A section ends.
LEMMA SectionEnds ==
  ASSUME NEW p, NEW v, NEW w, IsView(v), Knows(p, v), EndsSection(v, w)
  PROVE  Knows(endCData(p), w) /\ endCData(p).made = p.made
<1>1. /\ Stays(v, w) /\ w.text = v.text /\ w.value = v.value /\ w.section = v.section
      /\ v.cdata = (v.deeper = 0) /\ ~w.cdata
  BY DEF EndsSection, SameText
<1>2. CASE InOpcText(p)
  <2>1. v.deeper = 0 /\ v.at \in PropertyParts /\ v.at # Root
    BY <1>2, InPropertyPart DEF PropertyParts, Root
  <2>2. PICK q : q = endCData(p)
    OBVIOUS
  <2>3. p = [f \in InfoFields |-> p[f]]
    BY DEF Knows, IsInfo, IsOver
  <2>4. p.opc_data = v.value[v.at]
    BY <2>1 DEF Knows, KnowsSymbol, KnowsType, PropertyRead, PropertyParts, TpySymbolPlaces,
                TypePlaces, ItemPlaces
  <2>5. q.opc_cdata = FALSE /\ v.at \in v.section
    <3>1. v.at \in v.section
      BY <1>1, <2>1 DEF IsView
    <3> QED BY <1>2, <2>2, <2>3, <3>1, InfoNames DEF endCData
  <2>6. q = [f \in InfoFields |-> IF f = "opc_data" THEN w.value[v.at]
                                  ELSE IF f = "opc_cdata" THEN q.opc_cdata ELSE p[f]]
    BY <1>1, <1>2, <2>2, <2>3, <2>4, <2>5, InfoNames DEF endCData
  <2>7. Knows(q, w) /\ q.made = p.made
    BY <1>1, <2>1, <2>5, <2>6, PartChanged
  <2> QED BY <2>2, <2>7
<1>3. CASE ~InOpcText(p)
  <2>1. ~(v.deeper = 0 /\ v.at \in PropertyParts)
    BY <1>3, InPropertyPart
  <2>2. v.at \in PropertyParts => ~v.cdata
    BY <1>1, <2>1
  <2>3. Knows(p, w)
    BY <1>1, <2>2, Untouched
  <2> QED BY <1>3, <2>3 DEF endCData
<1> QED BY <1>2, <1>3

\* Text is given.
LEMMA TextIsGiven ==
  ASSUME NEW p, NEW v, NEW w, NEW t, IsView(v), Knows(p, v), GivesText(v, w, t)
  PROVE  Knows(dataElement(p, t), w) /\ dataElement(p, t).made = p.made
<1>1. v.at \in TpyPlaces /\ v.deeper \in Nat
  BY DEF IsView
<1>2. CASE v.at \in AddressPlaces
  BY <1>2, GivenInAddress
<1>3. CASE /\ v.at \notin AddressPlaces
           /\ (v.deeper > 0 \/ v.at \notin TextPlaces \cup PropertyParts \cup {"Comment"})
  BY <1>3, GivenAside
<1>4. CASE /\ v.at \notin AddressPlaces /\ v.deeper = 0
           /\ v.at \in TextPlaces \cup PropertyParts \cup {"Comment"}
  <2>1. v.at \notin AddressLeaves
    BY <1>4, TpyParts
  <2>2. v.at \in TpySymbolPlaces \/ v.at \in TypePlaces
    BY <1>4, <2>1 DEF TextPlaces, PropertyParts, TpySymbolPlaces, TypePlaces, ItemPlaces
  <2>3. v.at \in TpySymbolPlaces => v.at # "Comment"
    BY DEF TpySymbolPlaces
  <2> QED BY <1>4, <2>2, <2>3, GivenInSymbol, GivenInType
<1> QED BY <1>1, <1>2, <1>3, <1>4

\* An element starts, wherever the parser is.
LEMMA ElementStarts ==
  ASSUME NEW p, NEW v, NEW w, NEW n, IsView(v), ~v.cdata, ~w.cdata, Knows(p, v),
         StartsDeeper(v, w, n) \/ \E c : StartsPlace(v, w, n, c)
  PROVE  Knows(startElement(p, n), w) /\ startElement(p, n).made = p.made
<1>1. CASE StartsDeeper(v, w, n)
  BY <1>1, StartsInPlace
<1>2. ASSUME NEW c, StartsPlace(v, w, n, c)
      PROVE  Knows(startElement(p, n), w) /\ startElement(p, n).made = p.made
  BY <1>2, StartsAround, StartsInSymbol, StartsInType
<1> QED BY <1>1, <1>2

\* An element ends, and what is stored is what the document told.
LEMMA ElementEnds ==
  ASSUME NEW p, NEW v, NEW w, NEW n, IsView(v), ~v.cdata, ~w.cdata, Knows(p, v),
         p.made = Nothing, EndsDeeper(v, w, n) \/ EndsPlace(v, w, n)
  PROVE  Knows(endElement(p, n), w) /\ endElement(p, n).made = Told(v)
BY EndsInPlace, EndsAround, EndsInSymbol, EndsInType

\* The elements on the way to a place, itself included.
WayTo(k) == {tpyPath[k][i] : i \in 1..tpyDepth[k]}

\* They are those on the way to the place around it and its own.
LEMMA WayUp ==
  /\ WayTo(Root) = {}
  /\ \A k \in TpyPlaces \ {Root} : WayTo(k) = WayTo(tpyUp[k]) \cup {tpyOwn[k]}
<1>1. WayTo(Root) = {}
  BY TpyFunctions DEF WayTo
<1>2. ASSUME NEW k \in TpyPlaces \ {Root} PROVE WayTo(k) = WayTo(tpyUp[k]) \cup {tpyOwn[k]}
  <2>1. /\ tpyUp[k] \in TpyPlaces /\ tpyDepth[k] = tpyDepth[tpyUp[k]] + 1
        /\ tpyDepth[tpyUp[k]] \in Nat /\ Len(tpyPath[tpyUp[k]]) = tpyDepth[tpyUp[k]]
        /\ Len(tpyPath[k]) = tpyDepth[k]
    BY TpySteps, TpyLen
  <2>2. /\ tpyPath[k][tpyDepth[k]] = tpyOwn[k]
        /\ \A i \in 1..tpyDepth[tpyUp[k]] : tpyPath[k][i] = tpyPath[tpyUp[k]][i]
    BY <2>1, TpyTree, TreeFacts
  <2>3. 1..tpyDepth[k] = (1..tpyDepth[tpyUp[k]]) \cup {tpyDepth[k]}
    BY <2>1
  <2> QED BY <2>2, <2>3 DEF WayTo
<1> QED BY <1>1, <1>2

\* The item or type that a property stands in.
LEMMA PropertyWays ==
  /\ "SubItem" \notin WayTo("SymbolProperty") /\ "DataType" \notin WayTo("SymbolProperty")
  /\ "SubItem" \notin WayTo("TypeProperty") /\ "DataType" \in WayTo("TypeProperty")
  /\ "SubItem" \in WayTo("ItemProperty")
<1>1. /\ WayTo("PlcProjectInfo") = {"PlcProjectInfo"}
      /\ WayTo("Symbols") = WayTo("PlcProjectInfo") \cup {"Symbols"}
      /\ WayTo("Symbol") = WayTo("Symbols") \cup {"Symbol"}
      /\ WayTo("SymbolProperties") = WayTo("Symbol") \cup {"Properties"}
      /\ WayTo("SymbolProperty") = WayTo("SymbolProperties") \cup {"Property"}
  BY WayUp, TpyUpsAre, TpyOwnsAre, TpyPlacesAre DEF Root
<1>2. /\ WayTo("DataTypes") = WayTo("PlcProjectInfo") \cup {"DataTypes"}
      /\ WayTo("DataType") = WayTo("DataTypes") \cup {"DataType"}
      /\ WayTo("TypeProperties") = WayTo("DataType") \cup {"Properties"}
      /\ WayTo("TypeProperty") = WayTo("TypeProperties") \cup {"Property"}
  BY WayUp, TpyUpsAre, TpyOwnsAre, TpyPlacesAre DEF Root
<1>3. /\ WayTo("SubItem") = WayTo("DataType") \cup {"SubItem"}
      /\ WayTo("ItemProperties") = WayTo("SubItem") \cup {"Properties"}
      /\ WayTo("ItemProperty") = WayTo("ItemProperties") \cup {"Property"}
  BY WayUp, TpyUpsAre, TpyOwnsAre, TpyPlacesAre DEF Root
<1> QED BY <1>1, <1>2, <1>3

\* What the document says of an element in the place, and the view of it.
Says(k, f, c) ==
  /\ TextAt(Child(f)) = TpyView(k).text[c] /\ ValueAt(Child(f)) = TpyView(k).value[c]
  /\ Has(f) <=> c \in TpyView(k).seen
\* What the document says of an element in the one that ends.
LEMMA ChildSays ==
  ASSUME NEW k \in TpyPlaces, stack = tpyPath[k], NEW c \in TpyPlaces \ {Root}, tpyUp[c] = k
  PROVE  Says(k, tpyOwn[c], c)
<1>1. Child(tpyOwn[c]) = tpyPath[c]
  BY TpySteps DEF Child
<1> QED BY <1>1 DEF Says, Has, TpyView

\* What the document says, by its places.
LEMMA SaidIsTold ==
  ASSUME NEW k \in TpyPlaces, TpyAt(k), DocClose
  PROVE  Said = Told(TpyView(k))
<1> DEFINE v == TpyView(k)
<1>1. CASE stack \notin opened
  <2>1. v.deeper > 0
    <3>1. k = Root => stack # tpyPath[k]
      BY TpyFunctions DEF DocClose
    <3> QED BY <1>1, <3>1, TpyStanding
  <2> QED BY <1>1, <2>1, ToldNothing DEF Said
<1>2. CASE stack \in opened
  <2>1. /\ v.deeper = 0 /\ stack = tpyPath[k] /\ k # Root /\ v.at = k
    BY <1>2, TpyStanding DEF TpyView
  <2>2. Inner = tpyOwn[k]
    BY <1>2, <2>1, TpyTree, CloseStep DEF TpyAt, DocClose
  <2>3. TextAt(stack) = v.text[k]
    BY <2>1 DEF TpyView
  <2>4. \A tag : Within(tag) <=> tag \in WayTo(k)
    <3>1. stack \in Seq(TpyNames) /\ Unknown \in TpyNames
      BY DEF TpyAt, At, TpyNames
    <3>2. \A tag : Within(tag) <=> \E i \in 1..Len(stack) : stack[i] = tag
      BY <3>1, StackFacts
    <3> QED BY <2>1, <3>2, TpyLen DEF WayTo
  <2>5. \A c \in TpyPlaces \ {Root} : tpyUp[c] = k => Says(k, tpyOwn[c], c)
    BY <2>1, ChildSays
  <2>6. CASE k \in AddressLeaves
    <3>1. Inner = k /\ k \in DOMAIN RoutingLevel \cup DOMAIN CompilerLevel
      BY <2>2, <2>6, TpyOwnsAre, TpyParts DEF AddressLeaves
    <3>2. Said = Stored(Inner, TextAt(stack))
      BY <1>2, <3>1 DEF Said, RoutingLevel, CompilerLevel
    <3>3. Told(v) = Stored(k, v.text[k])
      BY <2>1, <2>6 DEF Told
    <3> QED BY <2>3, <3>1, <3>2, <3>3
  <2>7. CASE k = "Symbol"
    <3>1. Inner = "Symbol"
      BY <2>2, <2>7, TpyOwnsAre
    <3>2. Texts(SymbolFields) = TextsTold(v, SymbolPart)
      <4>1. \A f \in SymbolFields : TextAt(Child(f)) = v.text[SymbolPart[f]]
        BY <2>5, <2>7, TpyUpsAre, TpyOwnsAre, TpyPlacesAre DEF Says, SymbolFields, SymbolPart, Root
      <4>2. DOMAIN SymbolPart = SymbolFields
        BY DEF SymbolPart, SymbolFields
      <4> HIDE DEF v
      <4> QED BY <4>1, <4>2 DEF Texts, TextsTold
    <3>3. TextsTold(v, SymbolPart)["Name"] = v.text["SymbolName"]
      BY DEF TextsTold, SymbolPart
    <3>4. Said = IF v.text["SymbolName"] = {} THEN Nothing
                 ELSE Stored("Symbol", TextsTold(v, SymbolPart))
      <4> HIDE DEF v
      <4> QED BY <1>2, <3>1, <3>2, <3>3 DEF Said, RoutingLevel, CompilerLevel
    <3> QED BY <2>1, <2>7, <3>4, TpyParts DEF Told
  <2>8. CASE k = "DataType"
    <3>1. Inner = "DataType"
      BY <2>2, <2>8, TpyOwnsAre
    <3>2. /\ Texts(TypeFields) = TextsTold(v, TypePart)
      <4>1. \A f \in TypeFields : TextAt(Child(f)) = v.text[TypePart[f]]
        BY <2>5, <2>8, TpyUpsAre, TpyOwnsAre, TpyPlacesAre DEF Says, TypeFields, TypePart, Root
      <4>2. DOMAIN TypePart = TypeFields
        BY DEF TypePart, TypeFields
      <4> HIDE DEF v
      <4> QED BY <4>1, <4>2 DEF Texts, TextsTold
    <3>3. /\ TextsTold(v, TypePart)["Name"] = v.text["TypeName"]
          /\ TextsTold(v, TypePart)["Type"] = v.text["TypeType"]
      BY DEF TextsTold, TypePart
    <3>4. KindSaid = KindTold(v)
      <4>1. /\ Has("Name") <=> "TypeName" \in v.seen
            /\ Has("Type") <=> "TypeType" \in v.seen
            /\ Has("ArrayInfo") <=> "ArrayInfo" \in v.seen
            /\ Has("EnumInfo") <=> "EnumInfo" \in v.seen
            /\ Has("SubItem") <=> "SubItem" \in v.seen
            /\ Has("FbInfo") <=> "FbInfo" \in v.seen
        BY <2>5, <2>8, TpyUpsAre, TpyOwnsAre, TpyPlacesAre DEF Says, Root
      <4> HIDE DEF v
      <4> QED BY <4>1, Zenon DEF KindSaid, KindTold
    <3>5. Said = IF KindTold(v) # "simple" \/ v.text["TypeName"] # v.text["TypeType"]
                 THEN Stored("DataType", <<KindTold(v), TextsTold(v, TypePart)>>) ELSE Nothing
      <4> HIDE DEF v
      <4> QED BY <1>2, <3>1, <3>2, <3>3, <3>4 DEF Said, RoutingLevel, CompilerLevel
    <3> QED BY <2>1, <2>8, <3>5, TpyParts DEF Told
  <2>9. CASE k = "ArrayInfo"
    <3>1. Inner = "ArrayInfo"
      BY <2>2, <2>9, TpyOwnsAre
    <3>2. Texts(BoundFields) = TextsTold(v, BoundPart)
      <4>1. \A f \in BoundFields : TextAt(Child(f)) = v.text[BoundPart[f]]
        BY <2>5, <2>9, TpyUpsAre, TpyOwnsAre, TpyPlacesAre DEF Says, BoundFields, BoundPart, Root
      <4>2. DOMAIN BoundPart = BoundFields
        BY DEF BoundPart
      <4> HIDE DEF v
      <4> QED BY <4>1, <4>2 DEF Texts, TextsTold
    <3>3. TextsTold(v, BoundPart)["Elements"] = v.text["Elements"]
      BY DEF TextsTold, BoundPart, BoundFields
    <3>4. Said = IF v.text["Elements"] = {} THEN Nothing
                 ELSE Stored("ArrayInfo", TextsTold(v, BoundPart))
      <4> HIDE DEF v
      <4> QED BY <1>2, <3>1, <3>2, <3>3 DEF Said, RoutingLevel, CompilerLevel
    <3> QED BY <2>1, <2>9, <3>4, TpyParts DEF Told
  <2>10. CASE k = "EnumInfo"
    <3>1. Inner = "EnumInfo"
      BY <2>2, <2>10, TpyOwnsAre
    <3>2. Texts(EnumFields) = TextsTold(v, EnumPart)
      <4>1. \A f \in EnumFields : TextAt(Child(f)) = v.text[EnumPart[f]]
        BY <2>5, <2>10, TpyUpsAre, TpyOwnsAre, TpyPlacesAre DEF Says, EnumFields, EnumPart, Root
      <4>2. DOMAIN EnumPart = EnumFields
        BY DEF EnumPart
      <4> HIDE DEF v
      <4> QED BY <4>1, <4>2 DEF Texts, TextsTold
    <3>3. Said = Stored("EnumInfo", TextsTold(v, EnumPart))
      <4> HIDE DEF v
      <4> QED BY <1>2, <3>1, <3>2 DEF Said, RoutingLevel, CompilerLevel
    <3> QED BY <2>1, <2>10, <3>3, TpyParts DEF Told
  <2>11. CASE k = "SubItem"
    <3>1. Inner = "SubItem"
      BY <2>2, <2>11, TpyOwnsAre
    <3>2. Texts(ItemFields) = TextsTold(v, ItemPart)
      <4>1. \A f \in ItemFields : TextAt(Child(f)) = v.text[ItemPart[f]]
        BY <2>5, <2>11, TpyUpsAre, TpyOwnsAre, TpyPlacesAre DEF Says, ItemFields, ItemPart, Root
      <4>2. DOMAIN ItemPart = ItemFields
        BY DEF ItemPart, ItemFields
      <4> HIDE DEF v
      <4> QED BY <4>1, <4>2 DEF Texts, TextsTold
    <3>3. Said = Stored("SubItem", TextsTold(v, ItemPart))
      <4> HIDE DEF v
      <4> QED BY <1>2, <3>1, <3>2 DEF Said, RoutingLevel, CompilerLevel
    <3> QED BY <2>1, <2>11, <3>3, TpyParts DEF Told
  <2>12. ASSUME NEW owner, NEW name \in TpyPlaces \ {Root}, NEW val \in TpyPlaces \ {Root},
                Inner = "Property", PropertyOwner = owner,
                tpyUp[name] = k, tpyOwn[name] = "Name", tpyUp[val] = k, tpyOwn[val] = "Value"
         PROVE  Said = PropertyTold(v, owner, name, val)
    <3>1. ValueAt(Child("Name")) = v.value[name] /\ ValueAt(Child("Value")) = v.value[val]
      BY <2>5, <2>12 DEF Says
    <3>2. /\ PropertyTexts = [f \in PropertyFields |-> v.value[IF f = "Name" THEN name ELSE val]]
          /\ PropertyTexts["Name"] = v.value[name]
      <4> HIDE DEF v
      <4> QED BY <3>1 DEF PropertyTexts, PropertyFields
    <3> HIDE DEF v
    <3> QED BY <1>2, <2>12, <3>2 DEF Said, PropertyTold, RoutingLevel, CompilerLevel
  <2>13. CASE k = "SymbolProperty"
    <3>1. Inner = "Property" /\ PropertyOwner = "Symbol"
      BY <2>2, <2>4, <2>13, TpyOwnsAre, PropertyWays DEF PropertyOwner
    <3>2. Said = PropertyTold(v, "Symbol", "SymbolPropertyName", "SymbolPropertyValue")
      BY <2>12, <2>13, <3>1, TpyUpsAre, TpyOwnsAre, TpyPlacesAre DEF Root
    <3> QED BY <2>1, <2>13, <3>2, TpyParts DEF Told
  <2>14. CASE k = "TypeProperty"
    <3>1. Inner = "Property" /\ PropertyOwner = "DataType"
      BY <2>2, <2>4, <2>14, TpyOwnsAre, PropertyWays DEF PropertyOwner
    <3>2. Said = PropertyTold(v, "DataType", "TypePropertyName", "TypePropertyValue")
      BY <2>12, <2>14, <3>1, TpyUpsAre, TpyOwnsAre, TpyPlacesAre DEF Root
    <3> QED BY <2>1, <2>14, <3>2, TpyParts DEF Told
  <2>15. CASE k = "ItemProperty"
    <3>1. Inner = "Property" /\ PropertyOwner = "SubItem"
      BY <2>2, <2>4, <2>15, TpyOwnsAre, PropertyWays DEF PropertyOwner
    <3>2. Said = PropertyTold(v, "SubItem", "ItemPropertyName", "ItemPropertyValue")
      BY <2>12, <2>15, <3>1, TpyUpsAre, TpyOwnsAre, TpyPlacesAre DEF Root
    <3> QED BY <2>1, <2>15, <3>2, TpyParts DEF Told
  <2>16. CASE k \notin Telling
    <3>1. Inner \notin DOMAIN RoutingLevel \cup DOMAIN CompilerLevel \cup
            {"Symbol", "DataType", "ArrayInfo", "EnumInfo", "SubItem", "Property"}
      BY <2>1, <2>2, <2>16, TpyOwnsAre, TpyPlacesAre
         DEF Telling, AddressLeaves, RoutingLevel, CompilerLevel, Root
    <3>2. Said = Nothing
      BY <3>1 DEF Said
    <3> QED BY <2>1, <2>16, <3>2, ToldNothing
  <2> QED BY <2>6, <2>7, <2>8, <2>9, <2>10, <2>11, <2>13, <2>14, <2>15, <2>16 DEF Telling
<1> QED BY <1>1, <1>2

TpyInv == TpyGrammarKnown /\ \E k \in TpyPlaces : TpyAt(k) /\ Knows(info, TpyView(k))

\* What the parser knows before the first callback.
LEMMA KnowsNothing ==
  ASSUME NEW v, v.at = Root, v.deeper = 0
  PROVE  Knows(parserinfo, v) /\ parserinfo.made = Nothing
<1>1. PICK p : p = parserinfo
  OBVIOUS
<1>2. /\ p = [f \in InfoFields |-> p[f]]
      /\ p.ignore = 0 /\ p.projects = FALSE /\ p.routing = 0 /\ p.compiler = 0
      /\ p.types = 0 /\ p.symbols = 0 /\ p.made = Nothing
      /\ p.sym = Empty(SymbolFields) /\ p.rec = Empty(TypeFields)
      /\ p.number_parse = [n \in Numbers |-> 0] /\ p.opc_prop = Empty(PropertyFields)
      /\ p.array_bounds = Empty(BoundFields) /\ p.enum_element = Empty(EnumFields)
      /\ p.struct_element = Empty(ItemFields)
  BY <1>1 DEF parserinfo, InfoFields, Fresh, Outside
<1>3. IsInfo(p)
  BY <1>2 DEF IsInfo, IsOver, Empty
<1>4. v.at \notin AddressPlaces \cup AddressLeaves \cup TpySymbolPlaces \cup TypePlaces
      /\ v.at \notin {"RoutingInfo", "AdsInfo", "CompilerInfo", "Symbols", "DataTypes", "FbInfo"}
      /\ v.at \notin DOMAIN RoutingLevel \cup DOMAIN CompilerLevel
  BY TpyParts DEF AddressLeaves, Root, TypePlaces, TpySymbolPlaces, ItemPlaces
<1>5. Whereabouts(p, v)
  BY <1>2, <1>4 DEF Whereabouts
<1> QED BY <1>1, <1>2, <1>3, <1>4, <1>5 DEF Knows, Shallow

\* It holds before the first callback.
LEMMA TpyInitInv ==
  ASSUME TpyInit
  PROVE  TpyInv /\ StoredAsWritten
<1>1. /\ stack = <<>> /\ opened = {} /\ given = {} /\ inCData = FALSE
      /\ info = parserinfo /\ want = Nothing
  BY DEF TpyInit, DocInit
<1>2. TpyGrammarKnown
  BY TpyFileAssumption DEF TpyInit, DocInit, TpyGrammarKnown
<1>3. Root \in TpyPlaces /\ tpyPath[Root] = <<>> /\ tpyDepth[Root] = 0
  BY TpyFunctions
<1>4. TpyAt(Root)
  <2>1. \A j \in TpyPlaces \ {Root} : ~Prefix(tpyPath[j], <<>>)
    <3>1. \A j \in TpyPlaces \ {Root} : tpyDepth[j] \in 0..7 /\ tpyDepth[j] # 0
      BY TpyFunctions
    <3>2. \A j \in TpyPlaces \ {Root} : Len(tpyPath[j]) = tpyDepth[j]
      BY TpyLen
    <3> QED BY <3>1, <3>2 DEF Prefix
  <2>2. <<>> \in Seq(TpyNames) /\ Prefix(<<>>, <<>>)
    BY DEF Prefix
  <2> QED BY <1>1, <1>3, <2>1, <2>2 DEF TpyAt, At
<1>5. TpyView(Root).at = Root /\ TpyView(Root).deeper = 0
  BY <1>1, <1>3 DEF TpyView
<1> QED BY <1>1, <1>2, <1>3, <1>4, <1>5, KnowsNothing DEF TpyInv, StoredAsWritten

\* A callback takes the entry that was stored last for gone.
LEMMA KnowsStill ==
  ASSUME NEW p, NEW q, NEW v, Knows(p, v), q = [p EXCEPT !.made = Nothing]
  PROVE  Knows(q, v) /\ q.made = Nothing
<1>1. p = [f \in InfoFields |-> p[f]] /\ IsInfo(p)
  BY DEF Knows, IsInfo, IsOver
<1>2. q = [f \in InfoFields |-> IF f = "made" THEN Nothing ELSE p[f]]
  BY <1>1, InfoNames
<1>3. /\ q = [f \in InfoFields |-> q[f]] /\ q.made = Nothing
      /\ \A f \in InfoFields \ {"made"} : q[f] = p[f]
  BY <1>2, InfoNames
<1>4. /\ q.sym = p.sym /\ q.rec = p.rec /\ q.name_parse = p.name_parse
      /\ q.type_parse = p.type_parse /\ q.number_parse = p.number_parse
      /\ q.opc_cur = p.opc_cur /\ q.opc_prop = p.opc_prop /\ q.opc_parse = p.opc_parse
      /\ q.opc_data = p.opc_data /\ q.opc_cdata = p.opc_cdata /\ q.data = p.data
      /\ q.array_parse = p.array_parse /\ q.array_data = p.array_data
      /\ q.array_bounds = p.array_bounds /\ q.enum_parse = p.enum_parse
      /\ q.enum_data = p.enum_data /\ q.enum_element = p.enum_element
      /\ q.struct_parse = p.struct_parse /\ q.struct_element = p.struct_element
      /\ q.fb_parse = p.fb_parse /\ q.ignore = p.ignore /\ q.projects = p.projects
      /\ q.routing = p.routing /\ q.compiler = p.compiler /\ q.types = p.types
      /\ q.symbols = p.symbols
  BY <1>3, InfoNames
<1>5. IsInfo(q)
  BY <1>1, <1>3, <1>4 DEF IsInfo, IsOver
<1>6. Whereabouts(q, v)
  BY <1>4 DEF Knows, Whereabouts
<1>7. KnowsSymbol(p, v) => KnowsSymbol(q, v)
  BY <1>4 DEF KnowsSymbol, SymbolLevels, SymbolRead, PropertyRead
<1>8. KnowsType(p, v) => KnowsType(q, v)
  BY <1>4 DEF KnowsType, TypeLevels, TypeRead, ArrayRead, EnumRead, ItemRead, PropertyRead
<1> QED BY <1>3, <1>4, <1>5, <1>6, <1>7, <1>8 DEF Knows

\* Where a callback finds the parser.
LEMMA Found ==
  ASSUME TpyInv, NEW q, q = [info EXCEPT !.made = Nothing]
  PROVE  \E k \in TpyPlaces :
           /\ TpyAt(k) /\ IsView(TpyView(k)) /\ Shallow(TpyView(k))
           /\ Knows(q, TpyView(k)) /\ q.made = Nothing
<1>1. PICK k \in TpyPlaces : TpyAt(k) /\ Knows(info, TpyView(k))
  BY DEF TpyInv
<1>2. PICK v : v = TpyView(k)
  OBVIOUS
<1>3. Knows(q, v) /\ q.made = Nothing /\ Shallow(v)
  BY <1>1, <1>2, KnowsStill DEF Knows
<1> QED BY <1>1, <1>2, <1>3, TpyViewed

\* An element starts.
LEMMA TpyStartKeeps ==
  ASSUME TpyInv, NEW n \in Tags, TpyStart(n)
  PROVE  TpyInv' /\ StoredAsWritten'
<1>1. PICK q : q = [info EXCEPT !.made = Nothing]
  OBVIOUS
<1>2. PICK k \in TpyPlaces : /\ TpyAt(k) /\ IsView(TpyView(k)) /\ Shallow(TpyView(k))
                             /\ Knows(q, TpyView(k)) /\ q.made = Nothing
  BY <1>1, Found
<1>3. /\ DocOpen({"FbInfo"}, n) /\ (AddressPart => Inner \in DOMAIN grammar)
      /\ info' = startElement(q, n) /\ want' = Nothing
  BY <1>1 DEF TpyStart
<1>4. PICK c \in TpyPlaces :
        /\ TpyGrammarKnown' /\ ~TpyView(k).cdata /\ ~(inCData') /\ TpyAt(c)'
        /\ \/ StartsDeeper(TpyView(k), TpyView(c)', n)
           \/ StartsPlace(TpyView(k), TpyView(c)', n, c)
  BY <1>2, <1>3, TpyStartSeen DEF TpyInv
<1>5. PICK v, w : v = TpyView(k) /\ w = TpyView(c)'
  OBVIOUS
<1>6. ~w.cdata
  BY <1>4, <1>5 DEF TpyView
<1>7. Knows(startElement(q, n), w) /\ startElement(q, n).made = Nothing
  BY <1>2, <1>4, <1>5, <1>6, ElementStarts
<1>8. Knows(info, TpyView(c))'
  BY <1>3, <1>5, <1>7
<1> QED BY <1>3, <1>4, <1>7, <1>8 DEF TpyInv, StoredAsWritten

\* An element ends.
LEMMA TpyEndKeeps ==
  ASSUME TpyInv, TpyEnd
  PROVE  TpyInv' /\ StoredAsWritten'
<1>1. PICK q, n : q = [info EXCEPT !.made = Nothing] /\ n = Inner
  OBVIOUS
<1>2. PICK k \in TpyPlaces : /\ TpyAt(k) /\ IsView(TpyView(k)) /\ Shallow(TpyView(k))
                             /\ Knows(q, TpyView(k)) /\ q.made = Nothing
  BY <1>1, Found
<1>3. DocClose /\ info' = endElement(q, n) /\ want' = Told(TpyView(k))
  BY <1>1, <1>2, SaidIsTold DEF TpyEnd
<1>4. PICK c \in TpyPlaces :
        /\ TpyGrammarKnown' /\ ~TpyView(k).cdata /\ ~(inCData') /\ TpyAt(c)'
        /\ \/ EndsDeeper(TpyView(k), TpyView(c)', n) \/ EndsPlace(TpyView(k), TpyView(c)', n)
  BY <1>1, <1>2, <1>3, TpyEndSeen DEF TpyInv
<1>5. PICK v, w : v = TpyView(k) /\ w = TpyView(c)'
  OBVIOUS
<1>6. ~w.cdata
  BY <1>4, <1>5 DEF TpyView
<1>7. Knows(endElement(q, n), w) /\ endElement(q, n).made = Told(v)
  BY <1>2, <1>4, <1>5, <1>6, ElementEnds
<1>8. Knows(info, TpyView(c))'
  BY <1>3, <1>5, <1>7
<1> QED BY <1>3, <1>4, <1>5, <1>7, <1>8 DEF TpyInv, StoredAsWritten

\* Text.
LEMMA TpyTextKeeps ==
  ASSUME TpyInv, TpyText
  PROVE  TpyInv' /\ StoredAsWritten'
<1>1. PICK q, t : q = [info EXCEPT !.made = Nothing] /\ t = {Piece}
  OBVIOUS
<1>2. PICK k \in TpyPlaces : /\ TpyAt(k) /\ IsView(TpyView(k)) /\ Shallow(TpyView(k))
                             /\ Knows(q, TpyView(k)) /\ q.made = Nothing
  BY <1>1, Found
<1>3. DocText /\ info' = dataElement(q, t) /\ want' = Nothing
  BY <1>1 DEF TpyText
<1>4. TpyAt(k)' /\ grammar' = grammar /\ GivesText(TpyView(k), TpyView(k)', t)
  BY <1>1, <1>2, <1>3, TpyTextSeen
<1>5. PICK v, w : v = TpyView(k) /\ w = TpyView(k)'
  OBVIOUS
<1>6. Knows(dataElement(q, t), w) /\ dataElement(q, t).made = Nothing
  BY <1>2, <1>4, <1>5, TextIsGiven
<1>7. Knows(info, TpyView(k))'
  BY <1>3, <1>5, <1>6
<1> QED BY <1>3, <1>4, <1>6, <1>7 DEF TpyInv, StoredAsWritten, TpyGrammarKnown

\* A CDATA section starts.
LEMMA TpyStartCDataKeeps ==
  ASSUME TpyInv, TpyStartCData
  PROVE  TpyInv' /\ StoredAsWritten'
<1>1. PICK q : q = [info EXCEPT !.made = Nothing]
  OBVIOUS
<1>2. PICK k \in TpyPlaces : /\ TpyAt(k) /\ IsView(TpyView(k)) /\ Shallow(TpyView(k))
                             /\ Knows(q, TpyView(k)) /\ q.made = Nothing
  BY <1>1, Found
<1>3. DocStartCData /\ info' = startCData(q) /\ want' = Nothing
  BY <1>1 DEF TpyStartCData
<1>4. TpyAt(k)' /\ grammar' = grammar /\ StartsSection(TpyView(k), TpyView(k)')
  BY <1>2, <1>3, TpySectionSeen
<1>5. PICK v, w : v = TpyView(k) /\ w = TpyView(k)'
  OBVIOUS
<1>6. Knows(startCData(q), w) /\ startCData(q).made = Nothing
  BY <1>2, <1>4, <1>5, SectionStarts
<1>7. Knows(info, TpyView(k))'
  BY <1>3, <1>5, <1>6
<1> QED BY <1>3, <1>4, <1>6, <1>7 DEF TpyInv, StoredAsWritten, TpyGrammarKnown

\* A CDATA section ends.
LEMMA TpyEndCDataKeeps ==
  ASSUME TpyInv, TpyEndCData
  PROVE  TpyInv' /\ StoredAsWritten'
<1>1. PICK q : q = [info EXCEPT !.made = Nothing]
  OBVIOUS
<1>2. PICK k \in TpyPlaces : /\ TpyAt(k) /\ IsView(TpyView(k)) /\ Shallow(TpyView(k))
                             /\ Knows(q, TpyView(k)) /\ q.made = Nothing
  BY <1>1, Found
<1>3. DocEndCData /\ info' = endCData(q) /\ want' = Nothing
  BY <1>1 DEF TpyEndCData
<1>4. TpyAt(k)' /\ grammar' = grammar /\ EndsSection(TpyView(k), TpyView(k)')
  BY <1>2, <1>3, TpySectionOver
<1>5. PICK v, w : v = TpyView(k) /\ w = TpyView(k)'
  OBVIOUS
<1>6. Knows(endCData(q), w) /\ endCData(q).made = Nothing
  BY <1>2, <1>4, <1>5, SectionEnds
<1>7. Knows(info, TpyView(k))'
  BY <1>3, <1>5, <1>6
<1> QED BY <1>3, <1>4, <1>6, <1>7 DEF TpyInv, StoredAsWritten, TpyGrammarKnown

(* Whatever a tpy file holds, the parser stores an entry when the element  *)
(* that describes it ends, at no other callback, and with exactly the text *)
(* that stands in its own elements (ParseTpy.cpp).                         *)
THEOREM EntriesAsWritten == TpySpec => []StoredAsWritten
<1>1. TpyInit => TpyInv /\ StoredAsWritten
  BY TpyInitInv
<1>2. TpyInv /\ StoredAsWritten /\ [TpyNext]_tpyVars => TpyInv' /\ StoredAsWritten'
  <2>1. SUFFICES ASSUME TpyInv, StoredAsWritten, [TpyNext]_tpyVars
                 PROVE  TpyInv' /\ StoredAsWritten'
    OBVIOUS
  <2>2. ASSUME NEW n \in Tags, TpyStart(n) PROVE TpyInv' /\ StoredAsWritten'
    BY <2>1, <2>2, TpyStartKeeps
  <2>3. CASE TpyEnd
    BY <2>1, <2>3, TpyEndKeeps
  <2>4. CASE TpyText
    BY <2>1, <2>4, TpyTextKeeps
  <2>5. CASE TpyStartCData
    BY <2>1, <2>5, TpyStartCDataKeeps
  <2>6. CASE TpyEndCData
    BY <2>1, <2>6, TpyEndCDataKeeps
  <2>7. CASE UNCHANGED tpyVars
    <3>1. UNCHANGED <<grammar, stack, opened, given, inCData, info, want>>
      BY <2>7 DEF tpyVars, docVars
    <3>2. PICK k \in TpyPlaces : TpyAt(k) /\ Knows(info, TpyView(k))
      BY <2>1 DEF TpyInv
    <3>3. TpyAt(k)'
      BY <3>1, <3>2 DEF TpyAt, At
    <3>4. TpyView(k)' = TpyView(k)
      BY <3>1 DEF TpyView, TextAt, ValueAt
    <3>5. Knows(info, TpyView(k))'
      BY <3>1, <3>2, <3>4
    <3> QED BY <2>1, <3>1, <3>3, <3>5 DEF TpyInv, StoredAsWritten, TpyGrammarKnown
  <2> QED BY <2>1, <2>2, <2>3, <2>4, <2>5, <2>6, <2>7 DEF TpyNext
<1> QED BY <1>1, <1>2, PTL DEF TpySpec
===========================================================================
