-------------------------- MODULE MCIntegerParser ---------------------------
(***************************************************************************)
(* Every text of up to three digits, in both bases, for a type of six      *)
(* bits: 63 = 6 * 10 + 3 = 3 * 16 + 15, so that both checks have their     *)
(* boundary within two digits.                                             *)
(***************************************************************************)
EXTENDS IntegerParser, SequencesExt

MCTexts ==
  [matches : {TRUE}, negative : BOOLEAN, base : {10, 16},
   digits : BoundedSeq({0, 1, 3, 4, 6, 7, 9, 10, 15, 16, 35}, 3) \ {<<>>}]
    \cup [matches : {FALSE}, negative : {FALSE}, base : {10}, digits : {<<>>}]
=============================================================================
