-------------------------------- MODULE Json ---------------------------------
(***************************************************************************)
(* JSON values as the firewall and the parser meet them: records tagged    *)
(* with their kind.  A text is a sequence of atoms, up to case: an atom is *)
(* a word or part of one, "shy" is the soft hyphen, "zw" any other of the  *)
(* invisible code points.                                                  *)
(***************************************************************************)
EXTENDS Integers, SequencesExt

Null == [is |-> "null"]
Num(n) == [is |-> "num", num |-> n]
Text(atoms) == [is |-> "text", atoms |-> atoms]
List(values) == [is |-> "list", values |-> values]
Object(fields) == [is |-> "object", fields |-> fields]
=============================================================================
