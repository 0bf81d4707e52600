------------------------------ MODULE OpcList ------------------------------
(***************************************************************************)
(* The OPC settings of a variable.  There are the three that decide what   *)
(* is generated: the export state, the access rights, and the property     *)
(* INOUT, which goes before the rights wherever each of them comes from.   *)
(***************************************************************************)

(***************************************************************************)
(* opc_list::add: what is set in `o` replaces what was there.              *)
(***************************************************************************)
opc_add(opc, o) == [f \in DOMAIN opc |-> IF o[f] = "none" THEN opc[f] ELSE o[f]]
is_published(opc) == opc.state = "publish"
is_readonly(opc) ==
  opc.inout = "input" \/ (opc.inout # "output" /\ opc.rights = "read")
=============================================================================
