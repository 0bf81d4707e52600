----------------------------- MODULE MCLoading -----------------------------
(***************************************************************************)
(* What happens before the scanners scan, in one run: a tpy file and a     *)
(* substitution file are parsed, records are generated and carry values,   *)
(* the shell loads PLCs and links records, and read requests are cut.  The *)
(* parts share nothing here; `part` says which of them a behaviour is      *)
(* about, and the others stay as they start.                               *)
(***************************************************************************)
EXTENDS MCReadRequests, IocLifecycle, TpyParser, SubstParser, TypeTree, DbOutput, RecordValue

VARIABLE part

requestVars == vars
parserVars == <<docVars, info, want, sinfo, swant, propSaid>>
loadingVars == <<part, requestVars, iocVars, parserVars, outVars, valueVars>>

\* IocLifecycle -----------------------------------------------------------

File(addr, exports, unknown, parses) ==
  [addr |-> addr, exports |-> exports, unknown |-> unknown, parses |-> parses]
MCFiles ==
  { File("a", {"x"}, {}, TRUE), File("a", {"x", "y"}, {"x"}, TRUE), File("b", {}, {}, TRUE),
    File(None, {"x"}, {}, TRUE), File("b", {"x"}, {}, FALSE) }
MCRates == { [value |-> 20000, junk |-> FALSE], [value |-> 1, junk |-> FALSE],
             [value |-> 0, junk |-> TRUE] }

\* TpyParser and SubstParser ----------------------------------------------

Doc(elements) ==
  [Document |-> {"PlcProjectInfo"}, Properties |-> {"Property"}, Property |-> {"Name", "Value"}]
    @@ elements
MCTpyGrammars ==
  { Doc([PlcProjectInfo |-> {"RoutingInfo", "CompilerInfo"},
         RoutingInfo |-> {"AdsInfo"}, AdsInfo |-> {"NetId", "Port", "TargetName"},
         CompilerInfo |-> {"CompilerVersion", "TwinCATVersion", "CpuFamily"}]),
    Doc([PlcProjectInfo |-> {"RoutingInfo", "Symbols"},
         RoutingInfo |-> {"AdsInfo"}, AdsInfo |-> {"NetId"}, Symbols |-> {"Symbol"},
         Symbol |-> {"Name", "Type", "IGroup", "IOffset", "BitSize", "Properties"}]),
    Doc([PlcProjectInfo |-> {"DataTypes"}, DataTypes |-> {"DataType"},
         DataType |-> {"Name", "Type", "ArrayInfo", "EnumInfo", "FbInfo"},
         ArrayInfo |-> {"LBound", "Elements"}, EnumInfo |-> {"Enum", "Text", "Comment"}]),
    Doc([PlcProjectInfo |-> {"DataTypes"}, DataTypes |-> {"DataType"},
         DataType |-> {"Name", "BitSize", "SubItem", "Properties"},
         SubItem |-> {"Name", "Type", "BitSize", "BitOffs", "Properties"}]) }
MCSubstGrammars == {SubstElements}

\* DbOutput: two libraries with a type U each, an alias, an array of arrays
\* that is not called one and a structure that is, two error structures, an
\* enum, arrays without elements, gaps, and a symbol at the end of another
\* one's memory -------------------------------------------------------------

Set(state, rights) == [state |-> state, rights |-> rights, inout |-> "none"]
NotSet == Set("none", "none")
Published == Set("publish", "none")
ReadPublished == Set("publish", "read")
Silent == Set("silent", "none")

Type(id, name, kind, bits) ==
  [id |-> id, name |-> name, kind |-> kind, bits |-> bits, opc |-> NotSet, base |-> <<>>,
   base_id |-> 0, dims |-> <<>>, implicit |-> FALSE, items |-> <<>>, values |-> {}]
Item(name, type, id, offs, bits, opc) ==
  [name |-> name, type |-> type, id |-> id, offs |-> offs, bits |-> bits, opc |-> opc]
PlcSymbol(name, type, id, offset, bytes, opc) ==
  [name |-> name, type |-> type, id |-> id, offset |-> offset, bytes |-> bytes,
   pointer |-> FALSE, opc |-> opc]
Dim(first, count) == [first |-> first, count |-> count]

MCTypes ==
  << [Type(0, <<"ARRAY2">>, "array", 48) EXCEPT
        !.base = <<"Lib", "U">>, !.base_id = 7, !.dims = <<Dim(1, 2)>>, !.implicit = TRUE,
        !.opc = Silent],
     [Type(0, <<"E">>, "enum", 16) EXCEPT !.base = <<"INT">>, !.values = {0, 1}],
     [Type(0, <<"EMPTY">>, "array", 0) EXCEPT !.base = <<"INT">>, !.dims = <<Dim(0, 0)>>],
     [Type(0, <<"NEGATIVE">>, "array", 0) EXCEPT !.base = <<"INT">>, !.dims = <<Dim(2, -1)>>],
     [Type(0, <<"M">>, "array", 32) EXCEPT
        !.base = <<"BYTE">>, !.dims = <<Dim(0, 2), Dim(-1, 2)>>],
     [Type(5, <<"U">>, "struct", 16) EXCEPT !.items = <<Item("x", <<"INT">>, 0, 0, 16, NotSet)>>],
     [Type(7, <<"U">>, "struct", 24) EXCEPT
        !.items = <<Item("x", <<"E">>, 0, 0, 16, ReadPublished),
                    Item("b", <<"BOOL">>, 0, 16, 1, NotSet),
                    Item("y", <<"BYTE">>, 0, 16, 8, Silent)>>],
     [Type(9, <<"S">>, "struct", 128) EXCEPT
        !.items = <<Item("m", <<"M">>, 0, 0, 32, NotSet),
                    Item("u", <<"U">>, 5, 32, 16, ReadPublished),
                    Item("v", <<"ARRAY2">>, 0, 64, 48, NotSet),
                    Item("k", <<"A">>, 11, 112, 16, NotSet)>>],
     [Type(11, <<"A">>, "simple", 16) EXCEPT !.base = <<"SUBARRAY">>, !.base_id = 17],
     [Type(13, <<"W">>, "functionblock", 32) EXCEPT
        !.opc = [NotSet EXCEPT !.inout = "output"],
        !.items = <<Item("u", <<"Lib", "U">>, 5, 0, 16, ReadPublished),
                    Item("e", <<"ErrorStruct">>, 15, 16, 8, NotSet),
                    Item("f", <<"ErrorStruct">>, 15, 24, 8, NotSet)>>],
     [Type(15, <<"Lib", "ErrorStruct">>, "struct", 8) EXCEPT
        !.items = <<Item("code", <<"BYTE">>, 0, 0, 8, NotSet)>>],
     [Type(17, <<"SUBARRAY">>, "struct", 16) EXCEPT
        !.items = <<Item("x", <<"INT">>, 0, 0, 16, NotSet)>>] >>
MCPlcSymbols ==
  << PlcSymbol("g", <<"S">>, 9, 100, 16, Published),
     PlcSymbol("w", <<"W">>, 13, 130, 4, Published),
     PlcSymbol("n", <<"EMPTY">>, 0, 134, 0, Published),
     PlcSymbol("o", <<"NEGATIVE">>, 0, 134, 0, Published),
     PlcSymbol("h", <<"INT">>, 0, 116, 2, Silent),
     [PlcSymbol("p", <<"S">>, 9, 120, 8, ReadPublished) EXCEPT !.pointer = TRUE] >>

\* Records are made of variables, macro files of structures, too.
Project(types, symbols, gaps, export_all, substs) ==
  [types |-> types, symbols |-> symbols, gaps |-> gaps, substs |-> substs,
   calls |-> [db |-> process_symbols(types, "atomic", symbols, export_all),
              macro |-> process_symbols(types, "all", symbols, export_all)]]
PlainProject == Project(MCTypes, MCPlcSymbols, {106, 107}, FALSE, <<>>)
ListedProject ==
  Project(MCTypes, MCPlcSymbols, {106, 107}, TRUE,
          (<<"h">> :> [alias |-> <<"H">>, valid |-> TRUE, opc |-> Published])
            @@ (<<"g", "k", "x">> :> [alias |-> <<"K">>, valid |-> FALSE, opc |-> NotSet]))
ShortProject == Project(MCTypes, SubSeq(MCPlcSymbols, 2, 3), {}, FALSE, <<>>)
NoProject == Project(<<>>, <<>>, {}, FALSE, <<>>)
MCProjects == {PlainProject, ListedProject, ShortProject, NoProject}

Option(mode, processing, split_io, split_n) ==
  [mode |-> mode, processing |-> processing, split_io |-> split_io, split_n |-> split_n]
(* With aliases, arrays of structures and several types of one name        *)
(* resolved, no two variables of a project read the same memory, and every *)
(* byte but those in the gaps is read.  (A single bit has no variable.)    *)
LaidOut == Partitioned(project.types, project.symbols, project.gaps)

PlainOption == Option("macro", "all", FALSE, 0)
MCOptions ==
  {Option("db", p, io, n) : p \in {"standard", "onlydefined", "all", "ignore"},
                            io \in BOOLEAN, n \in {0, 1, 2}}
  \cup {Option("macro", p, FALSE, 0) : p \in {"standard", "all"}}

\* RecordValue ------------------------------------------------------------

Declared(type, ptype, bytes, length, readonly, props) ==
  [type |-> type, ptype |-> ptype, bytes |-> bytes, length |-> length, readonly |-> readonly,
   props |-> props]
Plainly(type, ptype, bytes) == Declared(type, ptype, bytes, 0, FALSE, <<>>)
Limits(type, ptype, bytes) ==
  { Declared(type, ptype, bytes, 0, TRUE, props) :
      props \in { "ALMHH" :> "9" @@ "ALMH" :> "8" @@ "ALMHSV" :> "MINOR" @@ "UNIT" :> "m",
                  "ALMLL" :> "0" @@ "ALML" :> "1" @@ "ALMLLSV" :> "loud" @@ "ALMDB" :> "2",
                  "ALMHHSV" :> "MAJOR" @@ "DESC" :> "d" @@ "TSE" :> "-1" @@ "ALMHH" :> "9",
                  "ALML" :> "1" @@ "FIELD" :> <<"LSV", "MAJOR">> } }
MCDeclarations ==
  { Plainly(t, "int", 1) : t \in {"SINT", "BYTE"} }
    \cup { Plainly(t, "int", 2) : t \in {"INT", "WORD"} }
    \cup { Plainly(t, "int", 4) : t \in {"DINT", "TIME"} }
    \cup { Plainly(t, "int", 8) : t \in {"LINT", "LWORD"} }
    \cup { Plainly("REAL", "real", 4), Plainly("LREAL", "real", 8), Plainly("BOOL", "bool", 1) }
    \cup { Plainly("INT", "enum", 2), Plainly("DINT", "enum", 4) }
    \cup { Declared("STRING", "string", n + 1, n, FALSE, <<>>) : n \in 1..5 }
    \cup { Plainly("STRING", "string", 4) }
    \cup Limits("DINT", "int", 4) \cup Limits("STRING", "string", 3)
    \cup { Declared("INT", "int", 2, 0, FALSE, "RECTYPE" :> "mbbo" @@ "ZRST" :> "zero"
                                               @@ "ALMZRSV" :> "MAJOR" @@ "ALMUNSV" :> "loud"),
           Declared("INT", "int", 2, 0, FALSE, "RECTYPE" :> "stringout"),
           Declared("WORD", "int", 2, 0, FALSE, "RECTYPE" :> "mbboDirect"),
           Declared("LREAL", "real", 8, 0, FALSE, "DTYP" :> "tcat"),
           Declared("LREAL", "real", 8, 0, TRUE, "DTYP" :> "tcat raw") }
MCFloats == {-4, 0, 5, 6}
MCPuts == {-128, -2, -1, 0, 1, 2, 3, 5, 127}
Support(ints, strings) == [ints |-> ints, strings |-> strings]
MCSupports == { Support("auto", "vary"), Support("32", "short"), Support("64", "long") }

---------------------------------------------------------------------------

RequestsStay == Init /\ last = [group |-> 2, offset |-> 1, size |-> 1]
ParsersStart == info = parserinfo /\ want = Nothing
                /\ sinfo = sparserinfo /\ swant = NoSubst /\ propSaid = NoProperty
ParsersStay == ParsersStart /\ DocInit(MCSubstGrammars)
OutputStays == OutInit /\ project = NoProject /\ option = PlainOption /\ ~error
ValueStays == decl = Plainly("BOOL", "bool", 1) /\ support = Support("auto", "vary")
              /\ stage = "start" /\ held = 0 /\ dv = NoValue /\ val = NoValue /\ origin = {}

LoadingInit ==
  /\ IocInit
  /\ \/ part = "requests" /\ Init /\ ParsersStay /\ OutputStays /\ ValueStays
     \/ part = "ioc" /\ RequestsStay /\ ParsersStay /\ OutputStays /\ ValueStays
     \/ part = "tpy" /\ RequestsStay /\ ParsersStart /\ TpyInit /\ OutputStays /\ ValueStays
     \/ part = "subst" /\ RequestsStay /\ ParsersStart /\ SubstInit /\ OutputStays /\ ValueStays
     \/ part = "output" /\ RequestsStay /\ ParsersStay /\ OutInit /\ ValueStays
     \/ part = "value" /\ RequestsStay /\ ParsersStay /\ OutputStays /\ ValueInit

LoadingNext ==
  /\ UNCHANGED part
  /\ \/ part = "requests" /\ Next /\ UNCHANGED <<iocVars, parserVars, outVars, valueVars>>
     \/ part = "ioc" /\ IocNext /\ UNCHANGED <<requestVars, parserVars, outVars, valueVars>>
     \/ /\ part = "tpy" /\ TpyNext
        /\ UNCHANGED <<requestVars, iocVars, sinfo, swant, propSaid, outVars, valueVars>>
     \/ /\ part = "subst" /\ SubstNext
        /\ UNCHANGED <<requestVars, iocVars, info, want, outVars, valueVars>>
     \/ part = "output" /\ OutNext /\ UNCHANGED <<requestVars, iocVars, parserVars, valueVars>>
     \/ part = "value" /\ ValueNext /\ UNCHANGED <<requestVars, iocVars, parserVars, outVars>>

Timer(id, kind) == part = "ioc" /\ id \in DOMAIN plcs /\ ScannerProc(id, kind)

\* The timers of the scanner threads fire for ever, and time passes.
LoadingSpec ==
  /\ LoadingInit /\ [][LoadingNext]_loadingVars
  /\ WF_iocVars(part = "ioc" /\ Later)
  /\ \A id \in 1..MaxLoads, kind \in Kinds : WF_iocVars(Timer(id, kind))
============================================================================
