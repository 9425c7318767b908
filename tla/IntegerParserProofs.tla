------------------------ MODULE IntegerParserProofs -------------------------
(***************************************************************************)
(* integer_parser is exact for every width and every text.                 *)
(***************************************************************************)
EXTENDS IntegerParser, TLAPS

USE ParserAssumption

(* The two checks of a digit, without a sign: they hold of exactly the     *)
(* numbers that fit, and then nothing wraps.                               *)
LEMMA ChecksAreExact ==
  ASSUME NEW r \in 0..MaxValue, NEW b \in {10, 16}, NEW d \in 0..(b - 1)
  PROVE  /\ r * b + d =< MaxValue <=>
              r =< MaxValue \div b /\ Wrap(r * b) =< Wrap(MaxValue - d)
         /\ r * b + d =< MaxValue => Wrap(r * b + d) = r * b + d
<1>1. \A n \in 0..MaxValue : Wrap(n) = n
  BY DEF Wrap
<1>2. MaxValue - d \in 0..MaxValue
  OBVIOUS
<1>3. r * b + d \in Nat /\ r * b \in Nat
  OBVIOUS
<1>4. r =< MaxValue \div b <=> r * b =< MaxValue
  <2>1. CASE b = 10
    BY <2>1
  <2>2. CASE b = 16
    BY <2>2
  <2> QED BY <2>1, <2>2
<1>5. CASE r * b =< MaxValue
  <2>1. Wrap(r * b) = r * b /\ Wrap(MaxValue - d) = MaxValue - d
    BY <1>1, <1>2, <1>3, <1>5
  <2>2. r * b + d =< MaxValue => Wrap(r * b + d) = r * b + d
    BY <1>1, <1>3
  <2>3. r * b + d =< MaxValue <=> r * b =< MaxValue - d
    BY <1>3
  <2> QED BY <1>4, <1>5, <2>1, <2>2, <2>3
<1>6. CASE ~ (r * b =< MaxValue)
  BY <1>3, <1>4, <1>6
<1> QED BY <1>5, <1>6

(* What the texts are made of.                                             *)
LEMMA TextParts ==
  ASSUME ParserTypeOK
  PROVE  /\ text.base \in {10, 16}
         /\ text.negative \in BOOLEAN
         /\ text.digits \in Seq(0..35)
         /\ Len(text.digits) \in Nat
         /\ k =< Len(text.digits) => digit \in 0..35
<1>1. text \in Text /\ k \in 1..(Len(text.digits) + 1)
  BY DEF ParserTypeOK
<1>2. text.base \in {10, 16} /\ text.negative \in BOOLEAN /\ text.digits \in Seq(0..35)
  BY <1>1 DEF Text
<1>3. Len(text.digits) \in Nat
  BY <1>2
<1>4. ASSUME NEW S, NEW s \in Seq(S), NEW j \in 1..Len(s)
      PROVE  s[j] \in S
  OBVIOUS
<1>5. k =< Len(text.digits) => digit \in 0..35
  <2> SUFFICES ASSUME k =< Len(text.digits)
               PROVE  text.digits[k] \in 0..35
    BY DEF digit
  <2>1. k \in 1..Len(text.digits)
    BY <1>1, <1>3
  <2> QED BY <1>2, <1>4, <2>1
<1> QED BY <1>2, <1>3, <1>5

(* A digit that fits.                                                      *)
LEMMA ScanDigitInv ==
  ASSUME ParserInv, ScanDigit
  PROVE  ParserInv'
<1>1. /\ text.base \in {10, 16} /\ digit \in 0..(text.base - 1)
      /\ Len(text.digits) \in Nat
  <2>1. /\ text.base \in {10, 16} /\ Len(text.digits) \in Nat
        /\ digit \in 0..35 /\ digit < text.base
    BY TextParts DEF ParserInv, ScanDigit, Fits
  <2> QED BY <2>1
<1>2. k \in 1..(Len(text.digits) + 1) /\ k =< Len(text.digits)
      /\ result \in 0..MaxValue /\ exact \in Nat
  BY DEF ParserInv, ParserTypeOK, ScanDigit
<1>3. result' \in 0..MaxValue
  <2>1. result * text.base + digit \in Int
    BY <1>1, <1>2
  <2> QED BY <2>1 DEF ScanDigit, Wrap
<1>4. exact' \in Nat
  BY <1>1, <1>2 DEF ScanDigit
<1>5. k' \in 1..(Len(text'.digits) + 1)
  BY <1>1, <1>2 DEF ScanDigit
<1>6. ParserTypeOK'
  BY <1>3, <1>4, <1>5 DEF ParserInv, ParserTypeOK, ScanDigit
<1>7. ~ text.negative => result' = exact'
  <2> SUFFICES ASSUME ~ text.negative
               PROVE  result' = exact'
    OBVIOUS
  <2>1. result = exact /\ limit = MaxValue
    BY DEF ParserInv, limit
  <2>2. result * text.base + digit =< MaxValue
    BY <1>1, <1>2, <2>1, ChecksAreExact DEF ScanDigit, Fits
  <2>3. Wrap(result * text.base + digit) = result * text.base + digit
    BY <1>1, <1>2, <2>2, ChecksAreExact
  <2> QED BY <2>1, <2>3 DEF ScanDigit
<1>8. pc' = "scan" /\ text' = text
  BY DEF ScanDigit
<1> QED BY <1>6, <1>7, <1>8 DEF ParserInv, StoredIsExact, ThrownIsRight

(* A digit that does not fit, or is none.                                  *)
LEMMA ScanThrowsInv ==
  ASSUME ParserInv, ScanThrows
  PROVE  ParserInv'
<1>1. ParserTypeOK' /\ UNCHANGED <<text, k, result, exact>> /\ pc' = "thrown"
  BY DEF ParserInv, ParserTypeOK, ScanThrows
<1>2. text.negative \/ digit >= text.base \/ exact * text.base + digit > MaxValue
  <2> SUFFICES ASSUME ~ text.negative, ~ (digit >= text.base)
               PROVE  exact * text.base + digit > MaxValue
    OBVIOUS
  <2>1. text.base \in {10, 16} /\ digit \in 0..35
    BY TextParts DEF ParserInv, ScanThrows
  <2>2. digit \in 0..(text.base - 1) /\ digit < text.base
    BY <2>1
  <2>3. result = exact /\ limit = MaxValue /\ result \in 0..MaxValue
    BY DEF ParserInv, ParserTypeOK, limit
  <2>4. ~ (result * text.base + digit =< MaxValue)
    BY <2>1, <2>2, <2>3, ChecksAreExact DEF ScanThrows, Fits
  <2> QED BY <2>1, <2>3, <2>4
<1>3. digit' = digit
  BY <1>1 DEF digit
<1> QED BY <1>1, <1>2, <1>3 DEF ParserInv, StoredIsExact, ThrownIsRight, ScanThrows

(* The invariant holds always.                                             *)
THEOREM ParserCorrect == ParserSpec => []ParserInv
<1>1. ParserInit => ParserInv
  <2> SUFFICES ASSUME ParserInit
               PROVE  ParserInv
    OBVIOUS
  <2>1. text \in Text /\ text.digits \in Seq(0..35)
    BY DEF ParserInit, Text
  <2>2. 1 \in 1..(Len(text.digits) + 1)
    BY <2>1
  <2> QED BY <2>1, <2>2 DEF ParserInit, ParserInv, ParserTypeOK, StoredIsExact, ThrownIsRight
<1>2. ParserInv /\ [ParserNext]_parserVars => ParserInv'
  <2> SUFFICES ASSUME ParserInv, [ParserNext]_parserVars
               PROVE  ParserInv'
    OBVIOUS
  <2>1. CASE Split
    BY <2>1 DEF Split, ParserInv, ParserTypeOK, StoredIsExact, ThrownIsRight
  <2>2. CASE ScanDigit
    BY <2>2, ScanDigitInv
  <2>3. CASE ScanThrows
    BY <2>3, ScanThrowsInv
  <2>4. CASE NegateThrows
    BY <2>4 DEF NegateThrows, ParserInv, ParserTypeOK, StoredIsExact, ThrownIsRight
  <2>5. CASE StoreValue
    BY <2>5 DEF StoreValue, ParserInv, ParserTypeOK, StoredIsExact, ThrownIsRight
  <2>6. CASE UNCHANGED parserVars
    BY <2>6 DEF parserVars, ParserInv, ParserTypeOK, StoredIsExact, ThrownIsRight, digit
  <2> QED BY <2>1, <2>2, <2>3, <2>4, <2>5, <2>6 DEF ParserNext, Finished
<1> QED BY <1>1, <1>2, PTL DEF ParserSpec

(* A value that is accepted is the number written (cxxopts.hpp:986-993).   *)
THEOREM ParserExact == ParserSpec => []StoredIsExact
<1>1. ParserInv => StoredIsExact
  BY DEF ParserInv
<1> QED BY <1>1, ParserCorrect, PTL

(* Only what is no such number is refused.                                 *)
THEOREM ParserComplete == ParserSpec => []ThrownIsRight
<1>1. ParserInv => ThrownIsRight
  BY DEF ParserInv
<1> QED BY <1>1, ParserCorrect, PTL
=============================================================================
