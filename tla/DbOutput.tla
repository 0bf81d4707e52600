------------------------------ MODULE DbOutput ------------------------------
(***************************************************************************)
(* What TpyToEpics.cpp makes of the variables of a PLC: EPICS database     *)
(* files, split by direction and after a number of records                 *)
(* (split_io_support), or a macro file for every structure, which a stack  *)
(* puts together from the calls as they come (epics_macrofiles_            *)
(* processing).  A step of the model is one call of the processing         *)
(* function.                                                               *)
(*                                                                         *)
(* What is in a record, and the conversion of names to EPICS, are left     *)
(* out; a name is too long if it has more than MaxName parts.  No part of  *)
(* a name is the beginning of another part.                                *)
(***************************************************************************)
EXTENDS Integers, FiniteSets, SequencesExt, OpcList

CONSTANTS
  Projects,    \* .calls: per mode the calls of the processing function, .substs: per
               \* name .alias and .opc, which counts if .valid
  Options,     \* .mode "db" or "macro", .processing, .split_io, .split_n
  MaxName,
  ArrayParts,  \* what types are called that have ARRAY in their name
  MaxFailures  \* bound: files that can not be opened

(***************************************************************************)
(* What a call is for is told by the name of its type.  An array declared  *)
(* in place has a type whose name begins with ARRAY, and is left out as a  *)
(* whole; so is anything else with ARRAY in the name of its type, and an   *)
(* array type of another name is as good as a structure.                   *)
(***************************************************************************)
Ignored(c) == ~c.atomic /\ ToSet(c.type) \cap ArrayParts # {}
\* The error structure of the one around it.
IsError(c) == c.type # <<>> /\ Last(c.type) = "ErrorStruct"

(***************************************************************************)
(* What the walk through the types promises of its calls: nothing comes    *)
(* twice, a structure comes before its members, and these come together.   *)
(***************************************************************************)
IsPreorder(list) ==
  /\ \A i \in DOMAIN list : list[i].name # <<>>
  /\ \A j \in DOMAIN list : \A i \in 1..j - 1 : ~IsPrefix(list[j].name, list[i].name)
  /\ \A k \in DOMAIN list : \A i \in 1..k - 1 :
       ~list[i].atomic /\ IsPrefix(list[i].name, list[k].name) =>
         \A j \in i..k : IsPrefix(list[i].name, list[j].name)

ASSUME CallsAssumption ==
  \A p \in Projects : \A mode \in {"db", "macro"} :
    /\ p.calls[mode] \in Seq(ToSet(p.calls[mode]))
    /\ \A c \in ToSet(p.calls[mode]) : c.name \in Seq(ToSet(c.name)) /\ c.atomic \in BOOLEAN
    /\ \A c \in ToSet(p.calls[mode]) : IsError(c) => ~c.atomic
    /\ IsPreorder(p.calls[mode])
ASSUME OptionsAssumption ==
  \A o \in Options : o.mode \in {"db", "macro"} /\ o.split_io \in BOOLEAN /\ o.split_n \in Nat

VARIABLES
  project, option,
  calls,       \* the calls to come
  written,     \* the records in the database files and on the console
  open_in, open_io,   \* the number of the file, 0 if it is not open
  rec_num, rec_num_in, rec_num_io, file_num_in, file_num_io, error,
  procstack,   \* structures being put together, the innermost last
  macros,      \* the macro files
  file_failures

fileVars == <<open_in, open_io, rec_num, rec_num_in, rec_num_io, file_num_in,
              file_num_io, error, file_failures>>
outVars == <<project, option, calls, written, fileVars, procstack, macros>>

AllCalls(p, o) == p.calls[o.mode]

\* set_filename: the files are opened, io first; one that can not be opened is
\* the end of splitting, as is the console, which is not split.
OutInit ==
  /\ project \in Projects /\ option \in Options
  /\ calls = AllCalls(project, option)
  /\ written = <<>>
  /\ rec_num = 0 /\ rec_num_in = 0 /\ rec_num_io = 0
  /\ file_num_in = 1 /\ file_num_io = 1
  /\ open_io \in {0, 1} /\ open_in \in {0, 1}
  /\ open_in = 1 => option.split_io /\ open_io = 1
  /\ error = (open_io = 0 \/ (option.split_io /\ open_in = 0))
  /\ file_failures = (IF error THEN 1 ELSE 0) /\ file_failures <= MaxFailures
  /\ procstack = <<>> /\ macros = {}

(***************************************************************************)
(* to_epics and query_substitution: which variables get a record, under    *)
(* which name and with which settings.                                     *)
(***************************************************************************)
Listed(c) == c.name \in DOMAIN project.substs
query_substitution(c) ==
  \/ option.processing \in {"ignore", "all"}
  \/ Listed(c)
  \/ option.processing = "standard" /\ is_published(c.opc)
Substituted(c) == option.processing # "ignore" /\ Listed(c)
to_epics(c) == IF Substituted(c) THEN project.substs[c.name].alias ELSE c.name
OpcOf(c) == IF Substituted(c) /\ project.substs[c.name].valid
            THEN project.substs[c.name].opc ELSE c.opc

HasRecord(c) ==
  c.atomic /\ query_substitution(c) /\ Len(to_epics(c)) <= MaxName /\ is_published(OpcOf(c))

(***************************************************************************)
(* split_io_support.  A file that can not be opened is the end of          *)
(* splitting; what would go there goes to the console.                     *)
(***************************************************************************)
Entry(dir, number, c) == [dir |-> dir, number |-> number, record |-> to_epics(c)]
dir(readonly) == IF ~option.split_io THEN "all" ELSE IF readonly THEN "in" ELSE "io"

(* Fault: the records of both directions are counted together.             *)
FullAll(readonly) == option.split_n > 0 /\ rec_num > 0 /\ rec_num % option.split_n = 0
Full(readonly) ==
  LET num == IF ~option.split_io THEN rec_num
             ELSE IF readonly THEN rec_num_in ELSE rec_num_io
  IN option.split_n > 0 /\ num > 0 /\ num % option.split_n = 0

\* The file of this direction is replaced by the next one.
NextFile(readonly, opens) ==
  /\ file_failures' = file_failures + (IF opens THEN 0 ELSE 1)
  /\ IF option.split_io /\ readonly
     THEN /\ file_num_in' = file_num_in + 1
          /\ open_in' = IF opens THEN file_num_in + 1 ELSE 0
          /\ UNCHANGED <<file_num_io, open_io>>
     ELSE /\ file_num_io' = file_num_io + 1
          /\ open_io' = IF opens THEN file_num_io + 1 ELSE 0
          /\ UNCHANGED <<file_num_in, open_in>>

isOpen(readonly) == (IF option.split_io /\ readonly THEN open_in ELSE open_io) # 0
SameFiles == UNCHANGED <<open_in, open_io, file_num_in, file_num_io, file_failures>>

increment(readonly, c) ==
  /\ IF ~error /\ Full(readonly) /\ isOpen(readonly)
     THEN \E opens \in BOOLEAN : /\ opens \/ file_failures < MaxFailures
                                 /\ NextFile(readonly, opens)
     ELSE SameFiles
  /\ LET outf == IF option.split_io /\ readonly THEN open_in' ELSE open_io'
     IN /\ error' = (error \/ outf = 0)
        /\ written' = Append(written, Entry(IF outf = 0 THEN "stdout" ELSE dir(readonly), outf, c))
        /\ IF error' THEN UNCHANGED <<rec_num, rec_num_in, rec_num_io>>
           ELSE /\ rec_num' = rec_num + 1
                /\ rec_num_in' = rec_num_in + (IF readonly THEN 1 ELSE 0)
                /\ rec_num_io' = rec_num_io + (IF readonly THEN 0 ELSE 1)

\* epics_db_processing::operator()
DbProcess ==
  /\ option.mode = "db" /\ calls # <<>>
  /\ calls' = Tail(calls)
  /\ LET c == Head(calls)
     IN IF HasRecord(c) THEN increment(is_readonly(OpcOf(c)), c)
        ELSE UNCHANGED <<written, fileVars>>
  /\ UNCHANGED <<project, option, procstack, macros>>

(***************************************************************************)
(* epics_macrofiles_processing.  The structure on top is finished when a   *)
(* name comes that does not begin with its name.  `erroridx` is the place  *)
(* of its error structure among its fields, 0 if it has none.              *)
(***************************************************************************)
Top == [name |-> <<>>, fields |-> <<>>, back |-> <<>>, iserror |-> FALSE, erroridx |-> 0]
(* Fault: one structure at most is finished.                               *)
KeptOne(stack, name) ==
  IF Len(stack) > 1 /\ ~IsPrefix(Last(stack).name, name) THEN Len(stack) - 1 ELSE Len(stack)
Kept(stack, name) == Max({1} \cup {k \in DOMAIN stack : IsPrefix(stack[k].name, name)})

Finished(stack, k) == {stack[j] : j \in k + 1..Len(stack)}
process_record(records) == {m \in records : ~m.iserror}
IsField(c) == ~c.atomic \/ is_published(OpcOf(c))

AddField(top, c) ==
  LET fields == IF IsField(c) THEN Append(top.fields, to_epics(c)) ELSE top.fields
  IN [top EXCEPT !.fields = fields, !.erroridx = IF IsError(c) THEN Len(fields) ELSE @]
NewRecord(top, c) ==
  [name |-> to_epics(c), fields |-> <<>>, back |-> top.name, iserror |-> IsError(c), erroridx |-> 0]

MacroProcess ==
  /\ option.mode = "macro" /\ calls # <<>>
  /\ calls' = Tail(calls)
  /\ LET c == Head(calls)
         stack == IF procstack = <<>> THEN <<Top>> ELSE procstack
         k == Kept(stack, to_epics(c))
     IN CASE Ignored(c) -> UNCHANGED <<procstack, macros>>
          [] ~Ignored(c) /\ ~query_substitution(c) -> procstack' = stack /\ UNCHANGED macros
          [] OTHER ->
               /\ macros' = macros \cup process_record(Finished(stack, k))
               /\ procstack' = SubSeq(stack, 1, k - 1) \o <<AddField(stack[k], c)>>
                    \o (IF c.atomic THEN <<>> ELSE <<NewRecord(stack[k], c)>>)
  /\ UNCHANGED <<project, option, written, fileVars>>

\* The destructor finishes what is left; the bottom is not a structure.
Flush ==
  /\ option.mode = "macro" /\ calls = <<>> /\ procstack # <<>>
  /\ macros' = macros \cup process_record(Finished(procstack, 1))
  /\ procstack' = <<>>
  /\ UNCHANGED <<project, option, calls, written, fileVars>>

OutNext == DbProcess \/ MacroProcess \/ Flush

(***************************************************************************)
(* Properties                                                              *)
(***************************************************************************)
Calls == AllCalls(project, option)
Processed == Len(Calls) - Len(calls)

\* The place of i among the numbers of I.
Rank(i, I) == Cardinality({j \in I : j <= i})

(***************************************************************************)
(* The records come in the order of the variables, each once, and stay so  *)
(* when a file can not be opened: then what belongs there is on the        *)
(* console.  Until that happens every file but the last of its direction   *)
(* has split_n records, and a record is in a file of its direction.        *)
(***************************************************************************)
Due == {i \in 1..Processed : HasRecord(Calls[i])}
direction(i) == dir(is_readonly(OpcOf(Calls[i])))
Before(i, due) == {j \in due : j < i /\ direction(j) = direction(i)}
Filed(w, i, due) ==
  /\ w.record = to_epics(Calls[i])
  /\ w.dir \in {direction(i), "stdout"}
  /\ ~error =>
       /\ w.dir = direction(i)
       /\ w.number = IF option.split_n = 0 THEN 1
                     ELSE Cardinality(Before(i, due)) \div option.split_n + 1

SplitInOrder ==
  option.mode = "db" =>
    LET due == Due
    IN /\ Len(written) = Cardinality(due)
       /\ \A i \in due : Filed(written[Rank(i, due)], i, due)

(***************************************************************************)
(* After the last call there is one macro file for every structure that is *)
(* not left out by the substitution list, not called an array and not an   *)
(* error structure, and its fields are the members of just this structure, *)
(* in their order: those of a nested one are in the file of that, to which *)
(* it has a link, and `back` names the structure around it.  The errors it *)
(* shows are those of the last error structure among its members.  (A      *)
(* substitution that renames a member takes it out of its structure.)      *)
(***************************************************************************)
Renamed == \E i \in DOMAIN Calls : to_epics(Calls[i]) # Calls[i].name

Chosen == {i \in DOMAIN Calls : ~Ignored(Calls[i]) /\ query_substitution(Calls[i])}
Structures == {Calls[i].name : i \in {j \in Chosen : ~Calls[j].atomic}}
MacroFiles == {Calls[i].name : i \in {j \in Chosen : ~Calls[j].atomic /\ ~IsError(Calls[j])}}
Around(name) == {s \in Structures \cup {<<>>} : IsStrictPrefix(s, name)}
Parent(name) == CHOOSE s \in Around(name) : \A t \in Around(name) : Len(t) <= Len(s)
Members(s) == {i \in Chosen : IsField(Calls[i]) /\ Parent(Calls[i].name) = s}
Lists(fields, I) ==
  /\ Len(fields) = Cardinality(I)
  /\ \A i \in I : fields[Rank(i, I)] = Calls[i].name
LastError(place, I) ==
  LET errors == {i \in I : IsError(Calls[i])}
  IN place = IF errors = {} THEN 0 ELSE Rank(Max(errors), I)

MembersOfTheirOwn ==
  option.mode = "macro" /\ calls = <<>> /\ procstack = <<>> /\ ~Renamed =>
    /\ {m.name : m \in macros} = MacroFiles
    /\ \A m \in macros :
         LET own == Members(m.name)
         IN m.back = Parent(m.name) /\ Lists(m.fields, own) /\ LastError(m.erroridx, own)
=============================================================================
