---------------------------- MODULE XmlDocument ----------------------------
(***************************************************************************)
(* What Expat tells the parsers of tpy and substitution files about one    *)
(* well-formed document (external): which element begins or ends, where    *)
(* there is text, and where a CDATA section.  The elements a parser knows  *)
(* stand where TwinCAT writes them, in any order; elements it does not     *)
(* know stand anywhere.  Text is identified by the element it stands in,   *)
(* so that a parser that mixes the text of two elements is noticed; the    *)
(* white space between elements, which every parser trims, is left out.    *)
(***************************************************************************)
EXTENDS Naturals, Sequences, FiniteSets, SequencesExt

CONSTANTS MaxLeaves,   \* bound: values given in the elements that are open
          MayBeEmpty,  \* bound: the values that may be without text
          CDataIn,     \* bound: the elements that have a CDATA section
          UnknownIn,   \* bound: the elements in which there are unknown ones
          Hidden       \* bound: known elements inside of what is skipped

VARIABLES grammar,     \* the known children of each element that has some
          stack,       \* the tags of the open elements, the outermost first
          opened,      \* history: the paths opened in the elements still open
          given,       \* history: text that stands in them
          inCData

docVars == <<grammar, stack, opened, given, inCData>>

Root == "Document"
Unknown == "Other"
Inner == IF stack = <<>> THEN Root ELSE Last(stack)
Within(tag) == tag \in ToSet(stack)

Tags == (UNION {grammar[t] : t \in DOMAIN grammar}) \cup {Unknown}

\* Elements with a value, which have no known children.
IsLeaf(tag) == tag \notin DOMAIN grammar /\ tag # Unknown
\* What a parser skips may hold any element.
Skipped(skips) == \E tag \in skips \cup {Unknown} : Within(tag)

DocInit(grammars) ==
  grammar \in grammars /\ stack = <<>> /\ opened = {} /\ given = {} /\ inCData = FALSE

DocOpen(skips, n) ==
  LET path == Append(stack, n)
      leaves == {p \in opened : IsLeaf(Last(p))}
  IN /\ ~inCData
     /\ IF Skipped(skips) THEN Inner \in skips \cup {Unknown} /\ n \in Hidden
        ELSE n \in (IF Inner \in DOMAIN grammar THEN grammar[Inner] ELSE {})
                   \cup (IF Inner \in UnknownIn THEN {Unknown} ELSE {})
     /\ (IsLeaf(n) \/ stack = <<>>) => path \notin opened
     /\ IsLeaf(n) /\ ~Skipped(skips)
          => Cardinality(leaves) < MaxLeaves
     /\ stack' = path
     /\ opened' = IF Skipped(skips) \/ n = Unknown THEN opened
                  ELSE opened \cup {path}
     /\ UNCHANGED <<grammar, given, inCData>>

\* The text in the element at a path.
TextAt(path) == {t \in given : t[1] = path /\ t[2] # "section"}
DocClose ==
  /\ stack # <<>> /\ ~inCData
  /\ stack \in opened /\ IsLeaf(Inner) /\ Inner \notin MayBeEmpty => TextAt(stack) # {}
  /\ stack' = Front(stack)
  /\ opened' = {p \in opened : ~IsStrictPrefix(stack, p)}
  /\ given' = {t \in given : ~IsStrictPrefix(stack, t[1])}
  /\ UNCHANGED <<grammar, inCData>>

Piece == <<stack, IF inCData THEN "cdata" ELSE "text">>
DocText ==
  /\ Inner \notin DOMAIN grammar
  /\ given' = IF stack \in opened THEN given \cup {Piece} ELSE given
  /\ UNCHANGED <<grammar, stack, opened, inCData>>

DocStartCData ==
  /\ Inner \in CDataIn /\ ~inCData
  /\ <<stack, "section">> \notin given   \* bound: one section in an element
  /\ inCData' = TRUE
  /\ given' = IF stack \in opened THEN given \cup {<<stack, "section">>} ELSE given
  /\ UNCHANGED <<grammar, stack, opened>>
DocEndCData == inCData /\ inCData' = FALSE /\ UNCHANGED <<grammar, stack, opened, given>>

\* A CDATA section takes the place of the text around it.
ValueAt(path) == IF <<path, "section">> \in given
                 THEN TextAt(path) \cap {<<path, "cdata">>} ELSE TextAt(path)
=============================================================================
