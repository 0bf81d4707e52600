------------------------------ MODULE TypeTree ------------------------------
(***************************************************************************)
(* From the symbols and types of a tpy file to the variables of the PLC:   *)
(* the recursion of ParseTpyTemplate.h through structures, arrays, enums   *)
(* and aliases, which gives every element its name, its place in memory    *)
(* and its OPC settings, and the lookup of types in ParseTpy.cpp.          *)
(*                                                                         *)
(* A name is a sequence of its parts, an index being one.  The decoration  *)
(* of a type is `id`, 0 if it has none.  The igroup, which all of a symbol *)
(* shares, is left out, and so is the alias property of items.             *)
(***************************************************************************)
EXTENDS Integers, Sequences, FiniteSets, TLC, OpcList
LOCAL INSTANCE SequencesExt
LOCAL INSTANCE FiniteSetsExt

\* Elementary types and what they are processed as (the ones looked at).
Elementary == [BYTE |-> "int", INT |-> "int", UDINT |-> "int", ULINT |-> "int",
               LREAL |-> "real", BOOL |-> "bool", STRING |-> "string"]
IsElementary(typ) == Len(typ) = 1 /\ typ[1] \in DOMAIN Elementary
NoType == [kind |-> "none"]

(***************************************************************************)
(* memory_location::set_section: a part of whole bytes inside of `loc`.    *)
(***************************************************************************)
Sectionable(loc, el) ==
  /\ el.offs >= 0 /\ el.bits > 0 /\ loc.size > 0
  /\ el.offs % 8 = 0 /\ el.bits % 8 = 0
  /\ el.offs + el.bits <= 8 * loc.size
set_section(loc, el) == [offset |-> loc.offset + el.offs \div 8, size |-> el.bits \div 8]

(***************************************************************************)
(* type_map: types ordered by their id.  A name may carry a namespace on   *)
(* one side only.                                                          *)
(***************************************************************************)
compareNamesWoNamespace(p, q) == IsSuffix(p, q) \/ IsSuffix(q, p)

(* Fault: a type of the same name is taken whatever its id.                *)
findAny(list, id, typ) ==
  LET named == {i \in DOMAIN list : compareNamesWoNamespace(list[i].name, typ)}
  IN IF named = {} THEN NoType ELSE list[Min(named)]
find(list, id, typ) ==
  LET named == {i \in DOMAIN list : compareNamesWoNamespace(list[i].name, typ)}
      own == {i \in named : list[i].id = id}
  IN IF own # {} THEN list[Min(own)]
     ELSE IF id = 0 /\ named # {} THEN list[Min(named)] ELSE NoType

\* An array without a decoration takes the one of its elements' type.
patch_type_decorators(list) ==
  LET patched(t) ==
        IF t.base_id = 0 /\ t.kind = "array" /\ ~IsElementary(t.base)
        THEN LET e == find(list, 0, t.base)
             IN IF e # NoType /\ e.id # 0 THEN [t EXCEPT !.base_id = e.id] ELSE t
        ELSE t
  IN [i \in DOMAIN list |-> patched(list[i])]

(***************************************************************************)
(* process_type_tree.  The calls of `process`, in their order; `tags` is   *)
(* "atomic" or "all".                                                      *)
(***************************************************************************)
Call(loc, name, ptype, opc, type, atomic) ==
  [loc |-> loc, name |-> name, ptype |-> ptype, opc |-> opc, type |-> type, atomic |-> atomic]
\* A structure, an array or a row of one as a whole: its type's name is all
\* that tells which of them it is.
Whole(tags, loc, name, type, opc) ==
  IF tags = "all" THEN <<Call(loc, name, "binary", opc, type, FALSE)>> ELSE <<>>

\* An array that is declared in place shares its type, and must not share
\* the settings of the first one declared so.
OwnSettings(t) == t.kind # "array" \/ ~t.implicit
EnumProcess(values) == IF \A v \in values : v \in 0..15 THEN "enum" ELSE "int"

Index(i) == "[" \o ToString(i) \o "]"

RECURSIVE process_type(_, _, _, _, _, _, _), process_typerec(_, _, _, _, _, _, _),
          process_array(_, _, _, _, _, _, _, _)

\* By the name of the type.  `list` and `tags` stay the same all the way.
process_type(list, tags, typ, opc, loc, name, level) ==
  IF IsElementary(typ.name) THEN <<Call(loc, name, Elementary[typ.name[1]], opc, typ.name, TRUE)>>
  ELSE LET t == find(list, typ.id, typ.name)
       IN IF t = NoType THEN <<>> ELSE process_typerec(list, tags, t, opc, loc, name, level)

process_typerec(list, tags, t, defopc, loc, name, level) ==
  LET opc == IF OwnSettings(t) THEN opc_add(defopc, t.opc) ELSE defopc
      base == [name |-> t.base, id |-> t.base_id]
      element(i) ==
        LET o == opc_add(opc, i.opc)
        IN IF ~Sectionable(loc, i) THEN <<>>
           ELSE process_type(list, tags, [name |-> i.type, id |-> i.id], o,
                             set_section(loc, i), Append(name, i.name), level + 1)
  IN IF level > 100 THEN <<>>
     ELSE CASE t.kind = "simple" -> process_type(list, tags, base, opc, loc, name, level)
            [] t.kind = "array" ->
                 process_array(list, tags, t, t.dims, opc, loc, name, level)
            [] t.kind = "enum" -> <<Call(loc, name, EnumProcess(t.values), opc, t.base, TRUE)>>
            [] t.kind \in {"struct", "functionblock"} ->
                 Whole(tags, loc, name, t.name, opc)
                   \o FlattenSeq([i \in DOMAIN t.items |-> element(t.items[i])])
            [] OTHER -> <<>>

\* One dimension after the other; `t` has the size of what is left.
process_array(list, tags, t, dims, opc, loc, name, level) ==
  IF dims = <<>>
  THEN process_type(list, tags, [name |-> t.base, id |-> t.base_id], opc, loc, name, level)
  ELSE LET d == Head(dims)
           bits == t.bits \div d.count
           row(k) ==
             LET el == [offs |-> (k - 1) * bits, bits |-> bits]
             IN IF ~Sectionable(loc, el) THEN <<>>
                ELSE process_array(list, tags, [t EXCEPT !.bits = bits], Tail(dims), opc,
                                   set_section(loc, el), Append(name, Index(d.first + k - 1)), level)
           whole == Whole(tags, loc, name, t.name, opc)
       IN IF d.count < 0 THEN <<>>
          ELSE IF d.count = 0 THEN whole
          ELSE IF t.bits % d.count # 0 THEN whole
          ELSE whole \o FlattenSeq([k \in 1..d.count |-> row(k)])

\* A symbol; a pointer is not followed.
process_symbol(list, tags, s) ==
  LET loc == [offset |-> s.offset, size |-> s.bytes]
      typ == IF s.pointer THEN [name |-> <<IF s.bytes = 8 THEN "ULINT" ELSE "UDINT">>, id |-> 0]
             ELSE [name |-> s.type, id |-> s.id]
  IN process_type(list, tags, typ, s.opc, loc, <<s.name>>, 0)

process_symbols(list, tags, symbols, export_all) ==
  FlattenSeq([i \in DOMAIN symbols |->
    IF export_all \/ is_published(symbols[i].opc)
    THEN process_symbol(patch_type_decorators(list), tags, symbols[i]) ELSE <<>>])

---------------------------------------------------------------------------
(* The variables lie in the symbols as TwinCAT laid them out: every byte   *)
(* of a symbol but those in `gaps` belongs to exactly one variable.        *)
Partitioned(list, symbols, gaps) ==
  LET all == process_symbols(list, "atomic", symbols, TRUE)
      bytes(loc) == loc.offset..loc.offset + loc.size - 1
      within(s) == {i \in DOMAIN all : Head(all[i].name) = s.name}
  IN \A s \in ToSet(symbols) :
       \A b \in s.offset..s.offset + s.bytes - 1 :
         Cardinality({i \in within(s) : b \in bytes(all[i].loc)}) = (IF b \in gaps THEN 0 ELSE 1)
=============================================================================
