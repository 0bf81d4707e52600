----------------------------- MODULE TpyParser -----------------------------
(***************************************************************************)
(* The callbacks of ParseTpy.cpp, which read a tpy file as Expat goes      *)
(* through it.  There is no tree: a set of levels and flags says where the *)
(* parser is, several elements share one buffer for their text, and an     *)
(* element may be unknown or come in any order.                            *)
(*                                                                         *)
(* Text is the set of pieces it was put together from (XmlDocument), so    *)
(* trimming and the conversion to numbers do not change it; an element     *)
(* without text is a name that is empty or the number 0.  The attributes   *)
(* of Name and Type are left out.                                          *)
(***************************************************************************)
EXTENDS XmlDocument

CONSTANT TpyGrammars   \* bound: which elements there are, some at a time

\* Where the elements that are looked at stand in a tpy file.
TpyElements ==
  [Document |-> {"PlcProjectInfo"},
   PlcProjectInfo |-> {"RoutingInfo", "CompilerInfo", "Symbols", "DataTypes"},
   RoutingInfo |-> {"AdsInfo"}, AdsInfo |-> {"NetId", "Port", "TargetName"},
   CompilerInfo |-> {"CompilerVersion", "TwinCATVersion", "CpuFamily"},
   Symbols |-> {"Symbol"},
   Symbol |-> {"Name", "Type", "IGroup", "IOffset", "BitSize", "Properties"},
   DataTypes |-> {"DataType"},
   DataType |-> {"Name", "Type", "BitSize", "ArrayInfo", "EnumInfo", "SubItem", "FbInfo",
                 "Properties"},
   ArrayInfo |-> {"LBound", "Elements"}, EnumInfo |-> {"Enum", "Text", "Comment"},
   SubItem |-> {"Name", "Type", "BitSize", "BitOffs", "Properties"},
   Properties |-> {"Property"}, Property |-> {"Name", "Value"}]

ASSUME TpyFileAssumption ==
  \A g \in TpyGrammars :
    /\ DOMAIN g \subseteq DOMAIN TpyElements
    /\ \A tag \in DOMAIN g : g[tag] \subseteq TpyElements[tag]

VARIABLES
  info,        \* parserinfo_type; .made is the entry it has just stored
  want         \* history: the entry the document has just completed

tpyVars == <<docVars, info, want>>

Nothing == [item |-> "nothing"]
Stored(item, fields) == [item |-> item, fields |-> fields]
Empty(names) == [f \in names |-> {}]

SymbolFields == {"Name", "Type", "IGroup", "IOffset", "BitSize"}
TypeFields == {"Name", "Type", "BitSize"}
ItemFields == {"Name", "Type", "BitSize", "BitOffs"}
BoundFields == {"LBound", "Elements"}
EnumFields == {"Enum", "Text"}
PropertyFields == {"Name", "Value"}
OpcItem == [Symbol |-> "opc of Symbol", DataType |-> "opc of DataType",
            SubItem |-> "opc of SubItem"]

Numbers == {"IGroup", "IOffset", "BitSize"}   \* igroup_parse, ioffset_parse ...
RoutingLevel == [NetId |-> 3, Port |-> 4, TargetName |-> 5]
CompilerLevel == [CompilerVersion |-> 2, TwinCATVersion |-> 3, CpuFamily |-> 4]

(***************************************************************************)
(* parserinfo_type                                                         *)
(***************************************************************************)
\* What init clears, and what it leaves alone.
Fresh ==
  [sym |-> Empty(SymbolFields), rec |-> Empty(TypeFields),
   name_parse |-> 0, type_parse |-> 0, number_parse |-> [n \in Numbers |-> 0],
   opc_cur |-> "none", opc_prop |-> Empty(PropertyFields), opc_parse |-> 0,
   opc_data |-> {}, opc_cdata |-> FALSE, data |-> {},
   array_parse |-> 0, array_data |-> {}, array_bounds |-> Empty(BoundFields),
   enum_parse |-> 0, enum_data |-> {}, enum_element |-> Empty(EnumFields),
   struct_parse |-> 0, struct_element |-> Empty(ItemFields), fb_parse |-> FALSE]

Outside == [ignore |-> 0, projects |-> FALSE, routing |-> 0, compiler |-> 0, types |-> 0,
            symbols |-> 0, made |-> Nothing]

Cleared(p, fields) == [f \in DOMAIN p |-> IF f \in fields THEN Fresh[f] ELSE p[f]]
(* Fault: the numbers of the previous symbol or type still count as read.  *)
initKeepsNumbers(p) == Cleared(p, DOMAIN Fresh \ {"number_parse"})
init(p) == Cleared(p, DOMAIN Fresh)

parserinfo == [f \in DOMAIN Fresh \cup DOMAIN Outside |->
                 IF f \in DOMAIN Fresh THEN Fresh[f] ELSE Outside[f]]

outside(p) == p.ignore = 0 /\ p.routing = 0 /\ p.compiler = 0 /\ p.types = 0 /\ p.symbols = 0
verytop(p) == outside(p) /\ ~p.projects
top(p) == outside(p) /\ p.projects

get_type_description(p) ==
  IF p.name_parse # 1 THEN "unknown"
  ELSE IF p.array_parse = 1 /\ p.type_parse = 1 THEN "arraytype"
  ELSE IF p.enum_parse = 1 THEN "enumtype"
  ELSE IF p.struct_parse = 1 THEN IF p.fb_parse THEN "functionblock" ELSE "structtype"
  ELSE IF p.type_parse = 1 THEN "simple" ELSE "unknown"

(***************************************************************************)
(* startElement                                                            *)
(***************************************************************************)
Ignore(p) == [p EXCEPT !.ignore = @ + 1]

startRouting(p, n) ==
  IF n \in DOMAIN RoutingLevel /\ p.routing = 2
  THEN [p EXCEPT !.data = {}, !.routing = RoutingLevel[n]] ELSE p
startCompiler(p, n) ==
  IF n \in DOMAIN CompilerLevel /\ p.compiler = 1
  THEN [p EXCEPT !.data = {}, !.compiler = CompilerLevel[n]] ELSE p

startProperty(p) == [p EXCEPT !.opc_parse = 2, !.opc_prop = Empty(PropertyFields)]
startPropertyPart(p, level) ==
  [p EXCEPT !.opc_parse = level, !.opc_data = {}, !.opc_cdata = TRUE]

startInSymbol(p, n) ==
  CASE n = "Name" /\ p.name_parse = 0 /\ p.opc_parse = 0 -> [p EXCEPT !.name_parse = 2]
    [] n = "Type" /\ p.type_parse = 0 -> [p EXCEPT !.type_parse = 2]
    [] n = "Properties" /\ p.opc_parse = 0 /\ p.name_parse <= 1 /\ p.type_parse <= 1 ->
         [p EXCEPT !.opc_parse = 1]
    [] n = "Property" /\ p.opc_parse = 1 -> startProperty(p)
    [] n = "Name" /\ p.opc_parse = 2 -> startPropertyPart(p, 3)
    [] n = "Value" /\ p.opc_parse = 2 -> startPropertyPart(p, 4)
    [] n \in Numbers /\ p.number_parse[n] = 0 ->
         [p EXCEPT !.number_parse[n] = 2, !.data = {}]
    [] OTHER -> Ignore(p)

startInType(p, n) ==
  LET own == p.struct_parse <= 1                          \* not in a SubItem
      ofItem == p.struct_parse = 2 /\ p.opc_cur = "none"
  IN CASE n = "Name" /\ p.name_parse = 0 /\ own /\ p.opc_cur = "none" ->
            [p EXCEPT !.name_parse = 2]
       [] n = "Type" /\ p.type_parse = 0 /\ own -> [p EXCEPT !.type_parse = 2]
       [] n = "BitSize" /\ p.number_parse[n] = 0 /\ own ->
            [p EXCEPT !.number_parse[n] = 2, !.data = {}]
       [] n = "ArrayInfo" ->
            [p EXCEPT !.array_parse = 2, !.array_bounds = Empty(BoundFields)]
       [] n \in BoundFields /\ p.array_parse = 2 ->
            [p EXCEPT !.array_parse = 3, !.array_data = {}]
       [] n = "EnumInfo" ->
            [p EXCEPT !.enum_parse = 2, !.enum_element = Empty(EnumFields)]
       [] n \in {"Enum", "Text", "Comment"} /\ p.enum_parse = 2 ->
            [p EXCEPT !.enum_parse = 3, !.enum_data = {}]
       [] n = "SubItem" -> [p EXCEPT !.struct_parse = 2, !.struct_element = Empty(ItemFields)]
       [] n = "Name" /\ ofItem -> [p EXCEPT !.struct_parse = 3]
       [] n = "Type" /\ ofItem -> [p EXCEPT !.struct_parse = 4]
       [] n \in {"BitSize", "BitOffs"} /\ ofItem ->
            [p EXCEPT !.struct_parse = 5, !.data = {}]
       [] n = "FbInfo" -> [Ignore(p) EXCEPT !.fb_parse = TRUE]
       [] /\ n = "Properties" /\ p.opc_cur = "none" /\ p.name_parse <= 1
          /\ p.type_parse <= 1 /\ p.enum_parse <= 1 /\ p.array_parse <= 1
          /\ p.struct_parse <= 2 ->
            [p EXCEPT !.opc_parse = 1,
                      !.opc_cur = IF p.struct_parse = 2 THEN "SubItem" ELSE "DataType"]
       [] n = "Property" /\ p.opc_cur # "none" /\ p.opc_parse = 1 -> startProperty(p)
       [] n = "Name" /\ p.opc_cur # "none" /\ p.opc_parse = 2 -> startPropertyPart(p, 3)
       [] n = "Value" /\ p.opc_cur # "none" /\ p.opc_parse = 2 -> startPropertyPart(p, 4)
       [] OTHER -> Ignore(p)

\* The sections of the project are entered from its top only.
startSection(p, level) == IF top(p) THEN [p EXCEPT ![level] = @ + 1] ELSE Ignore(p)

startElement(p, n) ==
  IF p.ignore > 0 THEN Ignore(p)
  ELSE IF verytop(p) /\ n = "PlcProjectInfo" THEN [p EXCEPT !.projects = TRUE]
  ELSE IF n = "RoutingInfo" THEN startSection(p, "routing")
  ELSE IF n = "AdsInfo" THEN IF p.routing = 1 THEN [p EXCEPT !.routing = 2] ELSE Ignore(p)
  ELSE IF p.routing >= 2 THEN startRouting(p, n)
  ELSE IF n = "CompilerInfo" THEN startSection(p, "compiler")
  ELSE IF p.compiler >= 1 THEN startCompiler(p, n)
  ELSE IF n = "Symbols" THEN startSection(p, "symbols")
  ELSE IF n = "Symbol" THEN IF p.symbols = 1 THEN init([p EXCEPT !.symbols = 2]) ELSE Ignore(p)
  ELSE IF p.symbols = 2 THEN startInSymbol(p, n)
  ELSE IF n = "DataTypes" THEN startSection(p, "types")
  ELSE IF n = "DataType" THEN IF p.types = 1 THEN init([p EXCEPT !.types = 2]) ELSE Ignore(p)
  ELSE IF p.types = 2 THEN startInType(p, n)
  ELSE Ignore(p)

(***************************************************************************)
(* endElement                                                              *)
(***************************************************************************)
Store(p, item, fields) == [p EXCEPT !.made = Stored(item, fields)]

endRouting(p, n) ==
  IF n \in DOMAIN RoutingLevel /\ p.routing = RoutingLevel[n]
  THEN Store([p EXCEPT !.routing = 2], n, p.data) ELSE p
endCompiler(p, n) ==
  IF n \in DOMAIN CompilerLevel /\ p.compiler = CompilerLevel[n]
  THEN Store([p EXCEPT !.compiler = 1], n, p.data) ELSE p

\* A property without the name of an OPC property is dropped.
endProperty(p, owner) ==
  LET q == [p EXCEPT !.opc_parse = 1]
  IN IF p.opc_prop["Name"] = {} THEN q ELSE Store(q, OpcItem[owner], p.opc_prop)
endPropertyPart(p, f) == [p EXCEPT !.opc_parse = 2, !.opc_prop[f] = p.opc_data]

endSymbol(p) ==
  LET q == [p EXCEPT !.symbols = 1]
  IN IF p.sym["Name"] = {} THEN q ELSE Store(q, "Symbol", p.sym)

endInSymbol(p, n) ==
  CASE n = "Name" /\ p.name_parse = 2 -> [p EXCEPT !.name_parse = 1]
    [] n = "Type" /\ p.type_parse = 2 -> [p EXCEPT !.type_parse = 1]
    [] n = "Properties" /\ p.opc_parse = 1 -> [p EXCEPT !.opc_parse = 0]
    [] n = "Property" /\ p.opc_parse = 2 -> endProperty(p, "Symbol")
    [] n = "Name" /\ p.opc_parse = 3 -> endPropertyPart(p, "Name")
    [] n = "Value" /\ p.opc_parse = 4 -> endPropertyPart(p, "Value")
    [] n \in Numbers /\ p.number_parse[n] = 2 ->
         [p EXCEPT !.number_parse[n] = 1, !.sym[n] = p.data]
    [] OTHER -> p

\* A simple type that is named like its base type is an alias and dropped;
\* here this is the one without either name.
endDataType(p) ==
  LET q == [p EXCEPT !.types = 1]
      kind == get_type_description(p)
  IN IF kind # "simple" \/ p.rec["Name"] # p.rec["Type"]
     THEN Store(q, "DataType", <<kind, p.rec>>) ELSE q

endInType(p, n) ==
  CASE n = "Name" /\ p.name_parse = 2 -> [p EXCEPT !.name_parse = 1]
    [] n = "Type" /\ p.type_parse = 2 -> [p EXCEPT !.type_parse = 1]
    [] n = "BitSize" /\ p.number_parse[n] = 2 ->
         [p EXCEPT !.number_parse[n] = 1, !.rec[n] = p.data]
    [] n = "ArrayInfo" /\ p.array_parse = 2 ->
         IF p.array_bounds["Elements"] # {}
         THEN Store([p EXCEPT !.array_parse = 1], n, p.array_bounds)
         ELSE [p EXCEPT !.array_parse = 1]
    [] n \in BoundFields /\ p.array_parse = 3 ->
         [p EXCEPT !.array_bounds[n] = p.array_data, !.array_parse = 2]
    [] n = "EnumInfo" /\ p.enum_parse = 2 ->
         Store([p EXCEPT !.enum_parse = 1], n, p.enum_element)
    [] n \in EnumFields /\ p.enum_parse = 3 ->
         [p EXCEPT !.enum_element[n] = p.enum_data, !.enum_parse = 2]
    [] n = "Comment" /\ p.enum_parse = 3 -> [p EXCEPT !.enum_parse = 2]
    [] n = "SubItem" /\ p.struct_parse = 2 ->
         Store([p EXCEPT !.struct_parse = 1], n, p.struct_element)
    [] n = "Name" /\ p.struct_parse = 3 -> [p EXCEPT !.struct_parse = 2]
    [] n = "Type" /\ p.struct_parse = 4 -> [p EXCEPT !.struct_parse = 2]
    [] n \in {"BitSize", "BitOffs"} /\ p.struct_parse = 5 ->
         [p EXCEPT !.struct_element[n] = p.data, !.struct_parse = 2]
    [] n = "Properties" /\ p.opc_parse = 1 ->
         [p EXCEPT !.opc_parse = 0, !.opc_cur = "none"]
    [] n = "Property" /\ p.opc_parse = 2 -> endProperty(p, p.opc_cur)
    [] n = "Name" /\ p.opc_parse = 3 -> endPropertyPart(p, "Name")
    [] n = "Value" /\ p.opc_parse = 4 -> endPropertyPart(p, "Value")
    [] OTHER -> p

endSection(p, level) == IF p[level] = 1 THEN [p EXCEPT ![level] = 0] ELSE p

endElement(p, n) ==
  IF p.ignore > 0 THEN [p EXCEPT !.ignore = @ - 1]
  ELSE IF n = "PlcProjectInfo" THEN IF top(p) THEN [p EXCEPT !.projects = FALSE] ELSE p
  ELSE IF n = "RoutingInfo" THEN endSection(p, "routing")
  ELSE IF n = "AdsInfo" THEN IF p.routing = 2 THEN [p EXCEPT !.routing = 1] ELSE p
  ELSE IF p.routing >= 2 THEN endRouting(p, n)
  ELSE IF n = "CompilerInfo" THEN endSection(p, "compiler")
  ELSE IF p.compiler >= 1 THEN endCompiler(p, n)
  ELSE IF n = "Symbols" THEN endSection(p, "symbols")
  ELSE IF n = "Symbol" THEN IF p.symbols = 2 THEN endSymbol(p) ELSE p
  ELSE IF p.symbols = 2 THEN endInSymbol(p, n)
  ELSE IF n = "DataTypes" THEN endSection(p, "types")
  ELSE IF n = "DataType" THEN IF p.types = 2 THEN endDataType(p) ELSE p
  ELSE IF p.types = 2 THEN endInType(p, n)
  ELSE p

(***************************************************************************)
(* Text and CDATA                                                          *)
(***************************************************************************)
InOpcText(p) == p.ignore = 0 /\ (p.symbols = 2 \/ p.types = 2) /\ p.opc_parse >= 3
startCData(p) == IF InOpcText(p) THEN [p EXCEPT !.opc_data = {}, !.opc_cdata = TRUE] ELSE p
endCData(p) == IF InOpcText(p) THEN [p EXCEPT !.opc_cdata = FALSE] ELSE p

opcData(p, t) == IF p.opc_parse >= 3 /\ p.opc_cdata THEN [p EXCEPT !.opc_data = @ \cup t] ELSE p
dataInSymbol(p, t) ==
  IF p.name_parse = 2 THEN [p EXCEPT !.sym["Name"] = @ \cup t]
  ELSE IF p.type_parse = 2 THEN [p EXCEPT !.sym["Type"] = @ \cup t]
  ELSE IF p.opc_parse >= 3 THEN opcData(p, t)
  ELSE IF \E n \in Numbers : p.number_parse[n] = 2 THEN [p EXCEPT !.data = @ \cup t]
  ELSE p
dataInType(p, t) ==
  IF p.name_parse = 2 THEN [p EXCEPT !.rec["Name"] = @ \cup t]
  ELSE IF p.type_parse = 2 THEN [p EXCEPT !.rec["Type"] = @ \cup t]
  ELSE IF p.number_parse["BitSize"] = 2 THEN [p EXCEPT !.data = @ \cup t]
  ELSE IF p.array_parse = 3 THEN [p EXCEPT !.array_data = @ \cup t]
  ELSE IF p.enum_parse = 3 THEN [p EXCEPT !.enum_data = @ \cup t]
  ELSE IF p.struct_parse = 3 THEN [p EXCEPT !.struct_element["Name"] = @ \cup t]
  ELSE IF p.struct_parse = 4 THEN [p EXCEPT !.struct_element["Type"] = @ \cup t]
  ELSE IF p.struct_parse = 5 THEN [p EXCEPT !.data = @ \cup t]
  ELSE opcData(p, t)

dataElement(p, t) ==
  IF p.ignore > 0 THEN p
  ELSE IF p.routing >= 2 \/ p.compiler >= 1 THEN [p EXCEPT !.data = @ \cup t]
  ELSE IF p.symbols = 2 THEN dataInSymbol(p, t)
  ELSE IF p.types = 2 THEN dataInType(p, t)
  ELSE p

(***************************************************************************)
(* What the document says.  Elements below an unknown one say nothing.     *)
(***************************************************************************)
Child(f) == Append(stack, f)
Texts(names) == [f \in names |-> TextAt(Child(f))]
PropertyTexts == [f \in PropertyFields |-> ValueAt(Child(f))]
Has(f) == Child(f) \in opened

KindSaid ==
  IF ~Has("Name") THEN "unknown"
  ELSE IF Has("ArrayInfo") /\ Has("Type") THEN "arraytype"
  ELSE IF Has("EnumInfo") THEN "enumtype"
  ELSE IF Has("SubItem") THEN IF Has("FbInfo") THEN "functionblock" ELSE "structtype"
  ELSE IF Has("Type") THEN "simple" ELSE "unknown"

PropertyOwner == IF Within("SubItem") THEN "SubItem"
                 ELSE IF Within("DataType") THEN "DataType" ELSE "Symbol"

\* The entry that the element which ends now describes; in a CDATA section
\* stands the text of a property only.
Said ==
  LET texts == Texts(CASE Inner = "Symbol" -> SymbolFields
                       [] Inner = "DataType" -> TypeFields
                       [] Inner = "SubItem" -> ItemFields
                       [] Inner = "ArrayInfo" -> BoundFields
                       [] OTHER -> EnumFields)
  IN IF stack \notin opened THEN Nothing
     ELSE CASE Inner \in DOMAIN RoutingLevel \cup DOMAIN CompilerLevel ->
                 Stored(Inner, TextAt(stack))
            [] Inner = "Symbol" /\ texts["Name"] # {} -> Stored(Inner, texts)
            [] /\ Inner = "DataType"
               /\ KindSaid = "simple" => texts["Name"] # texts["Type"] ->
                 Stored(Inner, <<KindSaid, texts>>)
            [] Inner = "ArrayInfo" /\ texts["Elements"] # {} -> Stored(Inner, texts)
            [] Inner \in {"EnumInfo", "SubItem"} -> Stored(Inner, texts)
            [] Inner = "Property" /\ PropertyTexts["Name"] # {} ->
                 Stored(OpcItem[PropertyOwner], PropertyTexts)
            [] OTHER -> Nothing

(***************************************************************************)
(* Expat calls one callback after the other.  Below AdsInfo and            *)
(* CompilerInfo the parser does not skip what it does not know; there an   *)
(* unknown element has no elements in it, and a value no elements at all.  *)
(***************************************************************************)
AddressPart == Within("AdsInfo") \/ Within("CompilerInfo")

TpyInit == DocInit(TpyGrammars) /\ info = parserinfo /\ want = Nothing

TpyStart(n) ==
  /\ DocOpen({"FbInfo"}, n)
  /\ AddressPart => Inner \in DOMAIN grammar
  /\ info' = startElement([info EXCEPT !.made = Nothing], n)
  /\ want' = Nothing

TpyEnd ==
  /\ DocClose
  /\ info' = endElement([info EXCEPT !.made = Nothing], Inner)
  /\ want' = Said

TpyText ==
  /\ DocText
  /\ info' = dataElement([info EXCEPT !.made = Nothing], {Piece})
  /\ want' = Nothing

TpyStartCData ==
  /\ DocStartCData
  /\ info' = startCData([info EXCEPT !.made = Nothing])
  /\ want' = Nothing
TpyEndCData ==
  /\ DocEndCData
  /\ info' = endCData([info EXCEPT !.made = Nothing])
  /\ want' = Nothing

TpyNext == \/ \E n \in Tags : TpyStart(n)
           \/ TpyEnd \/ TpyText \/ TpyStartCData \/ TpyEndCData

(***************************************************************************)
(* Every symbol, type, item, dimension, enumeration value, property and    *)
(* address value of the document is stored once, when its element ends,    *)
(* with exactly the text that stands in its own elements: nothing of a     *)
(* neighbour, of an unknown element or of the previous symbol, and a       *)
(* property with the symbol, type or item it stands in.                    *)
(***************************************************************************)
StoredAsWritten == info.made = want
=============================================================================
