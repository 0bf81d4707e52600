---------------------------- MODULE RecordValue ----------------------------
(***************************************************************************)
(* The EPICS record that is generated for a symbol (epics_db_processing::  *)
(* operator(), TpyToEpics.cpp), the data value it is linked to (epics_tc_  *)
(* db_processing::operator(), drvTc.cpp), and what becomes of a value on   *)
(* its way from the PLC through the data value into the record and back    *)
(* (plcBase.cpp, plcBaseTemplate.h and the record traits of                *)
(* devTcTemplate.h).                                                       *)
(*                                                                         *)
(* A byte has Byte values, a REAL is a multiple of 2 where an LREAL is any *)
(* integer, and a text is told by its length.  What EPICS does between     *)
(* RVAL and VAL is left out.                                               *)
(***************************************************************************)
EXTENDS Integers, FiniteSets, Sequences, TLC

CONSTANTS
  Declarations, \* .type, .ptype, .length (of a string), .bytes, .readonly and
                \* .props, a function from OPC properties to their values
  Supports,     \* .ints "auto", "32" or "64", .strings "vary", "short" or "long"
  Byte,         \* the number of values of a byte
  Floats, Puts, \* bound: floating point values, and values operators put
  MaxString, MaxLongString

VARIABLES
  decl, support,
  stage,   \* what happened last
  held,    \* what the PLC has
  dv,      \* the data value
  val,     \* VAL or RVAL of the record
  origin   \* history: what the PLC had when val was read from it, or nothing
valueVars == <<decl, support, stage, held, dv, val, origin>>

NoValue == "no value"
Junk == "junk"
Given(p) == p \in DOMAIN decl.props
Smaller(a, b) == IF a <= b THEN a ELSE b

(***************************************************************************)
(* The record.                                                             *)
(***************************************************************************)
OneByte == {"SINT", "USINT", "BYTE"}
TwoBytes == {"INT", "UINT", "WORD"}
FourBytes == {"DINT", "UDINT", "DWORD", "TIME", "TOD", "DATE", "DT", "TIME_OF_DAY",
              "DATE_AND_TIME"}
EightBytes == {"LINT", "ULINT", "LWORD", "LTIME"}

(* process_type_tree sets ptype by the type, but for an enumeration.       *)
ASSUME DeclarationsAssumption ==
  \A d \in Declarations :
    /\ d.bytes \in Nat \ {0} /\ d.length \in Nat /\ d.readonly \in BOOLEAN
    /\ \/ d.ptype = "int" /\ d.type \in OneByte \cup TwoBytes \cup FourBytes \cup EightBytes
       \/ d.ptype = "real" /\ d.type \in {"REAL", "LREAL"}
       \/ d.ptype = "bool" /\ d.type = "BOOL"
       \/ d.ptype = "string" /\ d.type = "STRING"
       \/ d.ptype = "enum"
ASSUME SupportsAssumption ==
  \A s \in Supports : s.ints \in {"auto", "32", "64"} /\ s.strings \in {"vary", "short", "long"}
ASSUME SizesAssumption ==
  /\ Byte \in Nat \ {0} /\ Byte % 2 = 0
  /\ MaxString \in Nat \ {0} /\ MaxLongString \in Nat \ {0}
  /\ Floats \subseteq Int /\ Puts \subseteq Int

\* process_arg: what the size of a variable is by its type.
deduce_size ==
  CASE decl.ptype = "string" -> decl.length
    [] decl.ptype = "int" /\ decl.type \in OneByte -> 1
    [] decl.ptype = "int" /\ decl.type \in TwoBytes -> 2
    [] decl.ptype = "int" /\ decl.type \in FourBytes -> 4
    [] decl.ptype = "int" /\ decl.type \in EightBytes -> 8
    [] OTHER -> 0

\* Fault: a string that fills the field, without room for the end.
LongStringTooLate ==
  \/ support.strings = "vary" /\ deduce_size > MaxString
  \/ support.strings = "long"
LongString ==
  \/ support.strings = "vary" /\ deduce_size >= MaxString
  \/ support.strings = "long"
LongInt == support.ints = "64" \/ (support.ints = "auto" /\ deduce_size = 8)

Direction(in, out) == IF decl.readonly THEN in ELSE out
DefaultType ==
  CASE decl.ptype = "int" /\ LongInt -> Direction("int64in", "int64out")
    [] decl.ptype = "int" /\ ~LongInt -> Direction("longin", "longout")
    [] decl.ptype = "real" -> Direction("ai", "ao")
    [] decl.ptype = "bool" -> Direction("bi", "bo")
    [] decl.ptype = "string" /\ LongString -> Direction("lsi", "lso")
    [] decl.ptype = "string" /\ ~LongString -> Direction("stringin", "stringout")
    [] decl.ptype = "enum" -> Direction("mbbi", "mbbo")
tname == IF Given("RECTYPE") THEN decl.props["RECTYPE"] ELSE DefaultType

SIZV == Smaller(deduce_size + 1, MaxLongString)
\* The device support is the raw one when the property does not ask for it.
Raw == Given("DTYP") /\ decl.props["DTYP"] # "tcat raw"

(***************************************************************************)
(* The fields that the properties of a symbol give its record, each with   *)
(* the property it comes from.  The sixteen states are one here, and so    *)
(* are the properties that hold a field and its value; they come last.     *)
(***************************************************************************)
Analog == {"ai", "ao", "longin", "longout", "int64in", "int64out"}
Binary == {"bi", "bo"}
States == {"mbbi", "mbbo"}

PlainField ==
  [UNIT |-> "EGU", HIEU |-> "HOPR", LOEU |-> "LOPR", HIRANGE |-> "DRVH", LORANGE |-> "DRVL",
   CLOSE |-> "ONAM", OPEN |-> "ZNAM", PREC |-> "PREC"]
Severity(field, types) == [field |-> field, types |-> types]
SeverityField ==
  [ALMOSV |-> Severity("OSV", Binary), ALMZSV |-> Severity("ZSV", Binary),
   ALMCOSV |-> Severity("COSV", Binary \cup States), ALMUNSV |-> Severity("UNSV", States),
   ALMZRSV |-> Severity("ZRSV", States),
   ALMHHSV |-> Severity("HHSV", Analog), ALMHSV |-> Severity("HSV", Analog),
   ALMLSV |-> Severity("LSV", Analog), ALMLLSV |-> Severity("LLSV", Analog)]
Limit(field, sev, default) == [field |-> field, sev |-> sev, default |-> default]
LimitField ==
  [ALMHH |-> Limit("HIHI", "ALMHHSV", "MAJOR"), ALMH |-> Limit("HIGH", "ALMHSV", "MINOR"),
   ALML |-> Limit("LOW", "ALMLSV", "MINOR"), ALMLL |-> Limit("LOLO", "ALMLLSV", "MAJOR")]

Field(p, field, value) == [from |-> p, field |-> field, value |-> value]

\* A severity that EPICS does not know is left out.
process_field_alarm(p, field, severity) ==
  IF severity \in {"NO_ALARM", "MINOR", "MAJOR"} THEN {Field(p, field, severity)} ELSE {}

\* Fault: looks for the property that is about the limit, not its severity.
DefaultSeverityByLimit(p) ==
  IF Given(p) THEN {}
  ELSE process_field_alarm(p, SeverityField[LimitField[p].sev].field, LimitField[p].default)
DefaultSeverity(p) ==
  IF Given(LimitField[p].sev) THEN {}
  ELSE process_field_alarm(p, SeverityField[LimitField[p].sev].field, LimitField[p].default)

FieldsOf(p) ==
  LET v == decl.props[p]
  IN CASE p \in DOMAIN PlainField -> {Field(p, PlainField[p], v)}
       [] p = "ZRST" /\ tname \in States -> {Field(p, "ZRVL", "0"), Field(p, "ZRST", v)}
       [] p \in DOMAIN SeverityField /\ tname \in SeverityField[p].types ->
            process_field_alarm(p, SeverityField[p].field, v)
       [] p \in DOMAIN LimitField /\ tname \in Analog ->
            {Field(p, LimitField[p].field, v)} \cup DefaultSeverity(p)
       [] p = "FIELD" /\ Len(v) = 2 -> {Field(p, v[1], v[2])}
       [] p = "ALMDB" /\ tname \in Analog -> {Field(p, "HYST", v)}
       [] OTHER -> {}

\* The fields every record has.  PINI is 0 whatever the property says, which
\* replaces the time stamp event after that was written.
Header ==
  (IF tname \in {"lsi", "lso"} THEN {Field("", "SIZV", ToString(SIZV))} ELSE {})
    \cup (IF Given("DESC") THEN {Field("DESC", "DESC", decl.props["DESC"])} ELSE {})
    \cup {Field("", "SCAN", Direction("I/O Intr", "Passive")),
          Field("", "DTYP", IF Raw THEN "tcat raw" ELSE "tcat"),
          Field("", Direction("INP", "OUT"), decl.type),
          Field("", "TSE", IF Given("TSE") THEN decl.props["TSE"] ELSE "-2"),
          Field("", "PINI", "0")}
Fields == Header \cup UNION {FieldsOf(p) : p \in DOMAIN decl.props}

(***************************************************************************)
(* The data value.  An enumeration has two bytes, whatever its type says.  *)
(***************************************************************************)
Number(kind, size) == [kind |-> kind, size |-> size]
DataType ==
  LET enum == decl.ptype = "enum" /\ decl.type \notin OneByte \cup {"BOOL"}
  IN CASE decl.type = "BOOL" -> Number("bool", 1)
       [] decl.type = "SINT" -> Number("signed", 1)
       [] decl.type \in {"USINT", "BYTE"} -> Number("unsigned", 1)
       [] enum \/ decl.type = "INT" -> Number("signed", 2)
       [] ~enum /\ decl.type \in {"UINT", "WORD"} -> Number("unsigned", 2)
       [] ~enum /\ decl.type = "DINT" -> Number("signed", 4)
       [] ~enum /\ decl.type \in FourBytes \ {"DINT"} -> Number("unsigned", 4)
       [] ~enum /\ decl.type = "LINT" -> Number("signed", 8)
       [] ~enum /\ decl.type \in EightBytes \ {"LINT"} -> Number("unsigned", 8)
       [] ~enum /\ decl.type = "REAL" -> Number("float", 4)
       [] ~enum /\ decl.type = "LREAL" -> Number("float", 8)
       [] ~enum /\ decl.type = "STRING" -> Number("string", decl.bytes)
SizeFits == DataType.size = decl.bytes

\* How many values so many bytes have.
Square(n) == n * n
Codes(size) ==
  CASE size = 1 -> Byte
    [] size = 2 -> Square(Byte)
    [] size = 4 -> Square(Square(Byte))
    [] size = 8 -> Square(Square(Square(Byte)))

\* A value of C++ converted to another type.
ToWidth(v, kind, size) ==
  LET codes == Codes(size)
  IN CASE kind = "unsigned" -> v % codes
       [] kind = "signed" -> IF v % codes < codes \div 2 THEN v % codes ELSE (v % codes) - codes
       [] kind = "bool" -> IF v = 0 THEN 0 ELSE 1
       [] kind = "float" -> IF size = 8 THEN v ELSE 2 * (v \div 2)
InDataValue(v) == ToWidth(v, DataType.kind, DataType.size)

\* The type of VAL, or of RVAL, in the traits of the records.
AnalogValue == IF Raw THEN Number("signed", 4) ELSE Number("float", 8)
BinaryValue == Number("unsigned", IF Raw THEN 4 ELSE 2)
IntegerValue == Number("signed", IF tname \in {"int64in", "int64out"} THEN 8 ELSE 4)
StatesValue == Number("unsigned", IF Raw THEN 4 ELSE 2)
TextValue == Number("string", IF tname \in {"lsi", "lso"} THEN SIZV ELSE MaxString)
ValueType ==
  CASE tname \in {"ai", "ao"} -> AnalogValue
    [] tname \in Binary -> BinaryValue
    [] tname \in {"longin", "longout", "int64in", "int64out"} -> IntegerValue
    [] tname \in States \cup {"mbbiDirect", "mbboDirect"} -> StatesValue
    [] tname \in {"stringin", "stringout", "lsi", "lso"} -> TextValue

\* A text is cut to leave room for the end when it is read, and not when it
\* is written.
ReadValue(v, type) ==
  IF type.kind = "string" THEN Smaller(v, type.size - 1) ELSE ToWidth(v, type.kind, type.size)
WriteValue(v, type) == IF type.kind = "string" THEN Smaller(v, type.size) ELSE InDataValue(v)
TypesAgree == (DataType.kind = "string") <=> (ValueType.kind = "string")

\* What a variable or a record of a type can hold.
ValuesOf(type) ==
  CASE type.kind = "string" -> 0..type.size - 1
    [] type.kind = "float" -> {v \in Floats : type.size = 8 \/ v % 2 = 0}
    [] type.kind = "bool" -> {0, 1}
    [] type.kind = "unsigned" -> 0..Codes(type.size) - 1
    [] type.kind = "signed" -> -(Codes(type.size) \div 2)..(Codes(type.size) \div 2) - 1
HeldType == [DataType EXCEPT !.size = decl.bytes]

ValueInit ==
  /\ decl \in Declarations /\ support \in Supports
  /\ stage = "start" /\ held \in ValuesOf(HeldType)
  /\ dv = NoValue /\ val = NoValue /\ origin = {}

\* read_scanner: WriteBinary takes a value of the right size only.
PlcWriteBinary ==
  /\ stage \in {"start", "sent"} /\ SizeFits
  /\ dv' = (IF DataType.kind = "string" THEN Smaller(held, decl.bytes) ELSE InDataValue(held))
  /\ stage' = "read"
  /\ UNCHANGED <<decl, support, held, val, origin>>
\* The record's read fails when only one of the two is a text.
RecordRead ==
  /\ stage = "read" /\ TypesAgree
  /\ val' = ReadValue(dv, ValueType) /\ origin' = {held}
  /\ stage' = "shown"
  /\ UNCHANGED <<decl, support, held, dv>>
\* An operator puts a value into the record.
OperatorPut ==
  /\ stage \in {"start", "shown"} /\ ~decl.readonly /\ TypesAgree
  /\ val' \in ValuesOf(ValueType) \cap Puts /\ origin' = {}
  /\ stage' = "put"
  /\ UNCHANGED <<decl, support, held, dv>>
RecordWrite ==
  /\ stage \in {"shown", "put"} /\ ~decl.readonly
  /\ dv' = WriteValue(val, ValueType)
  /\ stage' = "written"
  /\ UNCHANGED <<decl, support, held, val, origin>>
\* write_scanner: ReadBinary gives nothing if the sizes differ, and what was
\* in the buffer is sent.
PlcReadBinary ==
  /\ stage = "written"
  /\ held' = (CASE ~SizeFits -> Junk
                [] SizeFits /\ DataType.kind = "string" -> Smaller(dv, decl.bytes - 1)
                [] OTHER -> dv)
  /\ stage' = (IF SizeFits THEN "sent" ELSE "spoilt")
  /\ UNCHANGED <<decl, support, dv, val, origin>>

ValueNext == PlcWriteBinary \/ RecordRead \/ OperatorPut \/ RecordWrite \/ PlcReadBinary

(***************************************************************************)
(* The record was left to the generator, the user did not ask for records  *)
(* that are too small, and a text is as long as its type says.             *)
(***************************************************************************)
AsGenerated ==
  /\ SizeFits /\ ~Given("RECTYPE") /\ ~Raw
  /\ support.ints # "32" \/ deduce_size < 8
  /\ decl.ptype = "string" =>
       /\ decl.bytes <= deduce_size + 1 /\ deduce_size < MaxLongString
       /\ support.strings # "short" \/ deduce_size < MaxString

(***************************************************************************)
(* A record that writes back what it shows (devTcDefOut::write does, when  *)
(* its record is processed twice) leaves the PLC with the value it has,    *)
(* for every type of variable: no conversion on the way loses a bit or a   *)
(* character.                                                              *)
(***************************************************************************)
EchoIsHarmless == stage = "sent" /\ AsGenerated => origin \subseteq {held}

(***************************************************************************)
(* A record with a limit has a severity for it, from one property only: an *)
(* operator is told when the value crosses the limit.  A severity that     *)
(* EPICS does not know is not replaced by the default.  What the user      *)
(* writes as a field and its value is the user's own.                      *)
(***************************************************************************)
LimitsAlarm ==
  \A p \in DOMAIN decl.props \cap DOMAIN LimitField :
    LET sev == LimitField[p].sev
        of(field) == {f \in Fields : f.field = field /\ f.from # "FIELD"}
        known == Given(sev) => decl.props[sev] \in {"NO_ALARM", "MINOR", "MAJOR"}
    IN of(LimitField[p].field) # {} =>
         Cardinality(of(SeverityField[sev].field)) = IF known THEN 1 ELSE 0
=============================================================================
