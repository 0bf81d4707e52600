---------------------------- MODULE SubstParser ----------------------------
(***************************************************************************)
(* The callbacks of ParseUtil.cpp, which read a substitution file: for a   *)
(* variable of the PLC the name of its EPICS record and OPC properties     *)
(* that take the place of those in the tpy file.  Unlike TpyParser they do *)
(* not skip an element they do not know, unless it is among properties.    *)
(* Text is a set of pieces, as in TpyParser.                               *)
(***************************************************************************)
EXTENDS XmlDocument

CONSTANT SubstGrammars   \* bound: which elements there are

\* Where the elements that are looked at stand in a substitution file.
SubstElements ==
  [Document |-> {"Substitution"}, Substitution |-> {"Symbol"},
   Symbol |-> {"Name", "Alias", "Properties"},
   Properties |-> {"Property"}, Property |-> {"Name", "Value"}]

ASSUME SubstFileAssumption ==
  /\ \A g \in SubstGrammars :
       /\ DOMAIN g \subseteq DOMAIN SubstElements
       /\ \A tag \in DOMAIN g : g[tag] \subseteq SubstElements[tag]
  /\ Hidden \subseteq STRING /\ "Symbol" \notin Hidden

VARIABLES
  sinfo,       \* parserinfo_type; .made is the substitution just added
  swant,       \* history: the substitution the document has just completed
  propSaid     \* history: the first alias property of the symbol

substVars == <<docVars, sinfo, swant, propSaid>>

NoSubst == [name |-> {}, alias |-> {}]
NoProperty == [known |-> FALSE, value |-> {}]

\* .opc is the property 8620, the alias, the only one looked at here.
sparserinfo ==
  [ignore |-> 0, tag |-> 0, subst |-> NoSubst, opc |-> NoProperty,
   opc_prop |-> NoProperty, opc_parse |-> 0, opc_data |-> {}, opc_cdata |-> FALSE,
   made |-> NoSubst]

sIgnore(p) == [p EXCEPT !.ignore = @ + 1]
sStartPart(p, level) ==
  [p EXCEPT !.opc_parse = level, !.opc_data = {}, !.opc_cdata = TRUE]

(* Fault: the record of the previous symbol is kept.                       *)
sStartSymbolKeeps(p) == [p EXCEPT !.tag = 1]
sStartSymbol(p) ==
  [p EXCEPT !.subst = NoSubst, !.opc = NoProperty, !.tag = 1]

sStartElement(p, n) ==
  CASE p.ignore > 0 -> sIgnore(p)
    [] p.ignore = 0 /\ p.tag = 0 /\ n = "Symbol" -> sStartSymbol(p)
    [] p.ignore = 0 /\ p.tag = 1 /\ n = "Name" ->
         [p EXCEPT !.subst.name = {}, !.tag = 2]
    [] p.ignore = 0 /\ p.tag = 1 /\ n = "Alias" ->
         [p EXCEPT !.subst.alias = {}, !.tag = 3]
    [] p.ignore = 0 /\ p.tag = 1 /\ n = "Properties" ->
         [p EXCEPT !.tag = 4, !.opc_parse = 1]
    [] p.ignore = 0 /\ p.opc_parse = 1 /\ n = "Property" ->
         [p EXCEPT !.opc_parse = 2, !.opc_prop = NoProperty]
    [] p.ignore = 0 /\ p.opc_parse = 2 /\ n = "Name" -> sStartPart(p, 3)
    [] p.ignore = 0 /\ p.opc_parse = 2 /\ n = "Value" -> sStartPart(p, 4)
    [] OTHER -> IF p.opc_parse = 0 THEN p ELSE sIgnore(p)

\* The alias property stands in for an alias that is not given, and a
\* substitution without either name is not added.
sEndSymbol(p) ==
  LET s == IF p.subst.alias = {} /\ p.opc.known
           THEN [p.subst EXCEPT !.alias = p.opc.value] ELSE p.subst
  IN [p EXCEPT !.subst = s, !.tag = 0,
               !.made = IF s.name # {} /\ s.alias # {} THEN s ELSE NoSubst]

\* insert keeps the property that is there already.
sEndProperty(p) ==
  [p EXCEPT !.opc_parse = 1,
            !.opc = IF p.opc_prop.known /\ ~p.opc.known THEN p.opc_prop ELSE @]

sEndElement(p, n) ==
  CASE p.ignore > 0 -> [p EXCEPT !.ignore = @ - 1]
    [] p.ignore = 0 /\ p.tag = 1 /\ n = "Symbol" -> sEndSymbol(p)
    [] p.ignore = 0 /\ p.tag = 2 /\ n = "Name" -> [p EXCEPT !.tag = 1]
    [] p.ignore = 0 /\ p.tag = 3 /\ n = "Alias" -> [p EXCEPT !.tag = 1]
    [] p.ignore = 0 /\ p.opc_parse = 1 /\ n = "Properties" ->
         [p EXCEPT !.opc_parse = 0, !.tag = 1]
    [] p.ignore = 0 /\ p.opc_parse = 2 /\ n = "Property" -> sEndProperty(p)
    [] p.ignore = 0 /\ p.opc_parse = 3 /\ n = "Name" ->
         [p EXCEPT !.opc_parse = 2, !.opc_prop.known = p.opc_data # {}]
    [] p.ignore = 0 /\ p.opc_parse = 4 /\ n = "Value" ->
         [p EXCEPT !.opc_parse = 2, !.opc_prop.value = p.opc_data]
    [] OTHER -> p

sInOpcText(p) == p.ignore = 0 /\ p.tag = 4 /\ p.opc_parse >= 3
sStartCData(p) == IF sInOpcText(p) THEN [p EXCEPT !.opc_data = {}, !.opc_cdata = TRUE] ELSE p
sEndCData(p) == IF sInOpcText(p) THEN [p EXCEPT !.opc_cdata = FALSE] ELSE p

sDataElement(p, t) ==
  CASE p.ignore = 0 /\ p.tag = 2 -> [p EXCEPT !.subst.name = @ \cup t]
    [] p.ignore = 0 /\ p.tag = 3 -> [p EXCEPT !.subst.alias = @ \cup t]
    [] sInOpcText(p) /\ p.opc_cdata -> [p EXCEPT !.opc_data = @ \cup t]
    [] OTHER -> p

(***************************************************************************)
(* The callbacks.  An unknown element around symbols is transparent, one   *)
(* in a symbol has no elements in it, and a name or alias none at all.     *)
(***************************************************************************)
SubstSaid ==
  LET sub(f) == TextAt(Append(stack, f))
      alias == IF sub("Alias") # {} THEN sub("Alias") ELSE propSaid.value
  IN IF Inner = "Symbol" /\ stack \in opened /\ sub("Name") # {} /\ alias # {}
     THEN [name |-> sub("Name"), alias |-> alias] ELSE NoSubst

PropSaid ==
  CASE Inner = "Symbol" /\ stack \in opened -> NoProperty
    [] /\ Inner = "Property" /\ stack \in opened /\ ~propSaid.known
       /\ ValueAt(Append(stack, "Name")) # {} ->
         [known |-> TRUE, value |-> ValueAt(Append(stack, "Value"))]
    [] OTHER -> propSaid

SubstInit ==
  DocInit(SubstGrammars) /\ sinfo = sparserinfo /\ swant = NoSubst /\ propSaid = NoProperty

Plain == [sinfo EXCEPT !.made = NoSubst]
SubstStart(n) ==
  /\ DocOpen({}, n)
  /\ Within("Symbol") /\ ~Within("Properties") =>
       Inner # Unknown /\ (n = Unknown => Inner = "Symbol")
  /\ sinfo' = sStartElement(Plain, n)
  /\ swant' = NoSubst /\ UNCHANGED propSaid
SubstEnd ==
  /\ DocClose
  /\ sinfo' = sEndElement(Plain, Inner)
  /\ swant' = SubstSaid /\ propSaid' = PropSaid
SubstText ==
  DocText /\ sinfo' = sDataElement(Plain, {Piece}) /\ swant' = NoSubst /\ UNCHANGED propSaid
SubstStartCData ==
  DocStartCData /\ sinfo' = sStartCData(Plain) /\ swant' = NoSubst /\ UNCHANGED propSaid
SubstEndCData ==
  DocEndCData /\ sinfo' = sEndCData(Plain) /\ swant' = NoSubst /\ UNCHANGED propSaid

SubstNext == \/ \E n \in Tags : SubstStart(n)
             \/ SubstEnd \/ SubstText \/ SubstStartCData \/ SubstEndCData

(***************************************************************************)
(* Every symbol of the file that names a variable and a record is added    *)
(* once, when its element ends, with exactly the text of its own name and  *)
(* alias, or of its first alias property where it has no alias; no other   *)
(* substitution is added.                                                  *)
(***************************************************************************)
SubstitutedAsWritten == sinfo.made = swant
=============================================================================
