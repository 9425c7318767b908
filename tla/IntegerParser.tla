--------------------------- MODULE IntegerParser ----------------------------
(***************************************************************************)
(* integer_parser<size_t> (src/src/Utils/cxxopts.hpp:940-1008), by which   *)
(* the values of --clients and --messages are read.  The result is kept in *)
(* the width of the type, so that it could wrap; two checks before each    *)
(* digit are to prevent that.                                              *)
(*                                                                         *)
(* A text is what SplitInteger makes of it: whether it matches the pattern *)
(* of an integer, its sign, its base and the values of its letters and     *)
(* digits (0 to 35, of which the base may not know all).                   *)
(***************************************************************************)
EXTENDS Integers, Sequences

CONSTANTS
  MaxValue,     \* numeric_limits<T>::max(), for an unsigned T
  Texts         \* the texts that may be parsed

Text == [matches : BOOLEAN, negative : BOOLEAN, base : {10, 16}, digits : Seq(0..35)]

ASSUME ParserAssumption ==
  /\ MaxValue \in Nat
  /\ MaxValue >= 15
  /\ Texts \subseteq Text

VARIABLES
  text,         \* the argument
  pc,           \* where the parser is
  k,            \* the index of the loop over the digits
  result,       \* the digits so far, in the width of T
  value,        \* what the caller gets
  exact         \* history: the number that the digits so far stand for

parserVars == <<text, pc, k, result, value, exact>>

(* Arithmetic in the width of T.                                           *)
Wrap(n) == n % (MaxValue + 1)

digit == text.digits[k]

(* min() of an unsigned type is 0, and no digit of a negative number fits, *)
(* but for one: limit - digit wraps where limit is 0.                      *)
limit == IF text.negative THEN 0 ELSE MaxValue

ParserInit ==
  /\ text \in Texts
  /\ pc = "split"
  /\ k = 1
  /\ result = 0
  /\ value = 0
  /\ exact = 0

(* SplitInteger: text that does not match is an error.                     *)
Split ==
  /\ pc = "split"
  /\ pc' = IF text.matches THEN "scan" ELSE "thrown"
  /\ UNCHANGED <<text, k, result, value, exact>>

(* Mutant: the product is not checked against the digit.                   *)
Fits_NoSum ==
  /\ digit < text.base
  /\ result =< limit \div text.base

(* Mutant: the largest quotient is refused.                                *)
Fits_Strict ==
  /\ digit < text.base
  /\ result < limit \div text.base
  /\ Wrap(result * text.base) =< Wrap(limit - digit)

(* The digit is one of the base, and neither check throws.                 *)
Fits ==
  /\ digit < text.base
  /\ result =< limit \div text.base
  /\ Wrap(result * text.base) =< Wrap(limit - digit)

ScanDigit ==
  /\ pc = "scan"
  /\ k =< Len(text.digits)
  /\ Fits
  /\ result' = Wrap(result * text.base + digit)
  /\ exact' = exact * text.base + digit
  /\ k' = k + 1
  /\ UNCHANGED <<text, pc, value>>

ScanThrows ==
  /\ pc = "scan"
  /\ k =< Len(text.digits)
  /\ ~ Fits
  /\ pc' = "thrown"
  /\ UNCHANGED <<text, k, result, value, exact>>

(* checked_negate of an unsigned type throws, also for -0.                 *)
NegateThrows ==
  /\ pc = "scan"
  /\ k > Len(text.digits)
  /\ text.negative
  /\ pc' = "thrown"
  /\ UNCHANGED <<text, k, result, value, exact>>

StoreValue ==
  /\ pc = "scan"
  /\ k > Len(text.digits)
  /\ ~ text.negative
  /\ value' = result
  /\ pc' = "stored"
  /\ UNCHANGED <<text, k, result, exact>>

Finished ==
  /\ pc \in {"stored", "thrown"}
  /\ UNCHANGED parserVars

ParserNext ==
  \/ Split
  \/ ScanDigit
  \/ ScanThrows
  \/ NegateThrows
  \/ StoreValue
  \/ Finished

ParserSpec == ParserInit /\ [][ParserNext]_parserVars

-----------------------------------------------------------------------------
(* Properties.                                                             *)

(* Every variable keeps its type, and the index stays within the text.     *)
ParserTypeOK ==
  /\ text \in Text
  /\ pc \in {"split", "scan", "stored", "thrown"}
  /\ k \in 1..(Len(text.digits) + 1)
  /\ result \in 0..MaxValue
  /\ value \in 0..MaxValue
  /\ exact \in Nat

(* A value that is accepted is the number written: nothing wrapped, and    *)
(* nothing negative was read as a large one.                               *)
StoredIsExact == pc = "stored" => value = exact /\ ~ text.negative

(* A text that is refused is no number, is negative, or is a number that   *)
(* does not fit: the checks refuse no more than they have to.              *)
ThrownIsRight ==
  pc = "thrown" =>
    \/ ~ text.matches
    \/ text.negative
    \/ /\ k =< Len(text.digits)
       /\ digit >= text.base \/ exact * text.base + digit > MaxValue

(* The inductive invariant: what was scanned of a number without a sign is *)
(* exact.                                                                  *)
ParserInv ==
  /\ ParserTypeOK
  /\ ~ text.negative => result = exact
  /\ StoredIsExact
  /\ ThrownIsRight
=============================================================================
