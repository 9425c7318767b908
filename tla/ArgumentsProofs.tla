--------------------------- MODULE ArgumentsProofs --------------------------
(***************************************************************************)
(* processArguments does what its arguments mean, for argument lists of    *)
(* any length.  ArgumentsInv is inductive: it says of the arguments that   *)
(* the loop has passed what OutcomeAsMeant says of all of them.            *)
(***************************************************************************)
EXTENDS Arguments, TLAPS

(* The arguments are what ParseArgument can make of them.                  *)
LEMMA ArgumentParts ==
  ASSUME ArgumentsTypeOK
  PROVE  /\ Len(argv) \in Nat
         /\ current \in 1..(Len(argv) + 1)
         /\ \A p \in 1..Len(argv) :
              /\ argv[p].kind \in Kinds
              /\ argv[p].name \in Options \cup {"other"}
              /\ argv[p].number \in Numbers \cup {Invalid, Absent}
<1>1. argv \in Seq(Argument) /\ current \in 1..(Len(argv) + 1)
  BY DEF ArgumentsTypeOK
<1>2. \A p \in 1..Len(argv) : argv[p] \in Argument
  BY <1>1
<1> QED
  BY <1>1, <1>2 DEF Argument

(* No option is given behind the index when it stands at the first one.    *)
LEMMA InitArgumentsInv == ArgumentsInit => ArgumentsInv
<1> SUFFICES ASSUME ArgumentsInit PROVE ArgumentsInv
  OBVIOUS
<1> USE ArgumentsAssumption DEF ArgumentsInit
<1>1. argv \in Seq(Argument)
  OBVIOUS
<1>2. ArgumentsTypeOK
  <2>1. Len(argv) \in Nat
    BY <1>1
  <2>2. current \in 1..(Len(argv) + 1)
    BY <2>1
  <2>3. parsed \in [Options -> Nat] /\ size \in [Options -> Nat]
    BY DEF gl_msgNumberLimit
  <2> QED
    BY <1>1, <2>2, <2>3 DEF ArgumentsTypeOK
<1>3. \A p \in Before : p \in Int /\ ~ (p < current)
  BY DEF Before
<1>4. SensibleSoFar
  BY <1>3 DEF SensibleSoFar
<1>5. LastValueStored
  BY <1>3 DEF LastValueStored, GivenSoFar, Given
<1> QED
  BY <1>2, <1>4, <1>5 DEF ArgumentsInv, Decided

(* The argument at the index is before any --, unless it is one.           *)
LEMMA IndexIsBefore ==
  ASSUME ArgumentsInv, at = "parse", current =< Len(argv), arg.kind # "end"
  PROVE  current \in Before
<1>1. Len(argv) \in Nat /\ current \in 1..Len(argv)
  BY ArgumentParts DEF ArgumentsInv
<1>2. \A q \in 1..(current - 1) : argv[q].kind # "end"
  BY <1>1 DEF ArgumentsInv, SensibleSoFar
<1>3. \A q \in 1..current : q = current \/ q \in 1..(current - 1)
  BY <1>1
<1> QED
  BY <1>1, <1>2, <1>3 DEF Before, arg

(* The argument list does not change, nor what it means.                   *)
LEMMA SameMeaning ==
  ASSUME argv' = argv
  PROVE  /\ Before' = Before
         /\ \A o \in Options : Given(o)' = Given(o)
         /\ \A p \in Before : (Sensible(p)' <=> Sensible(p)) /\ Value(p)' = Value(p)
  BY DEF Before, Given, Sensible, Value

(* A step of the loop over arguments that do not count: those up to the    *)
(* next index are before no --, or what is left comes after one.           *)
LEMMA PassOver ==
  ASSUME ArgumentsInv, at = "parse", NEW to \in Nat,
         current < to, to =< Len(argv) + 1,
         \A p \in Before : current =< p /\ p < to =>
                             argv[p].kind # "option" /\ Sensible(p),
         to =< Len(argv) => \A q \in current..(to - 1) : argv[q].kind # "end",
         current' = to,
         UNCHANGED <<argv, at, parsed, size, bResult>>
  PROVE  ArgumentsInv'
<1>1. /\ Len(argv) \in Nat /\ current \in 1..(Len(argv) + 1)
      /\ \A p \in Before : p \in Nat
  BY ArgumentParts DEF ArgumentsInv, Before
<1>2. ArgumentsTypeOK'
  BY <1>1 DEF ArgumentsInv, ArgumentsTypeOK
<1>3. SensibleSoFar'
  <2>1. \A p \in Before : p < to => Sensible(p)
    BY <1>1 DEF ArgumentsInv, SensibleSoFar
  <2>2. ASSUME to =< Len(argv), NEW q \in 1..(to - 1)
        PROVE  argv[q].kind # "end"
    <3>1. q \in 1..(current - 1) \/ q \in current..(to - 1)
      BY <1>1
    <3> QED
      BY <1>1, <2>2, <3>1 DEF ArgumentsInv, SensibleSoFar
  <2> QED
    BY <2>1, <2>2, SameMeaning DEF SensibleSoFar
<1>4. LastValueStored'
  <2>1. ASSUME NEW o \in Options
        PROVE  GivenSoFar(o)' = GivenSoFar(o)
    <3>1. Given(o) \subseteq Before /\ \A p \in Given(o) : argv[p].kind = "option"
      BY DEF Given
    <3>2. \A p \in Given(o) : p < to <=> p < current
      BY <1>1, <3>1
    <3> QED
      BY <3>2, SameMeaning DEF GivenSoFar
  <2>2. \A o \in Options : GivenSoFar(o) \subseteq Before
    BY DEF GivenSoFar, Given
  <2> QED
    BY <2>1, <2>2, SameMeaning DEF ArgumentsInv, LastValueStored
<1>5. Decided'
  BY DEF ArgumentsInv, Decided
<1> QED
  BY <1>2, <1>3, <1>4, <1>5 DEF ArgumentsInv

(* What comes after -- is not before it.                                   *)
LEMMA EndOfOptionsInv ==
  ASSUME ArgumentsInv, EndOfOptions
  PROVE  ArgumentsInv'
<1>1. /\ Len(argv) \in Nat /\ current \in 1..Len(argv)
      /\ at = "parse" /\ argv[current].kind = "end"
  BY ArgumentParts DEF ArgumentsInv, EndOfOptions, Parsing, arg
<1>2. \A p \in Before : ~ (current =< p)
  BY <1>1 DEF Before
<1> QED
  BY <1>1, <1>2, PassOver DEF EndOfOptions

(* A word that is no value is sensible and no option.                      *)
LEMMA IgnoreWordInv ==
  ASSUME ArgumentsInv, IgnoreWord
  PROVE  ArgumentsInv'
<1>1. /\ Len(argv) \in Nat /\ current \in 1..Len(argv)
      /\ at = "parse" /\ argv[current].kind = "word"
  BY ArgumentParts DEF ArgumentsInv, IgnoreWord, Parsing, arg
<1>2. \A p \in current..((current + 1) - 1) : p = current
  BY <1>1
<1>3. \A p \in Before : current =< p /\ p < current + 1 => p = current
  BY <1>1 DEF Before
<1>4. Sensible(current)
  BY <1>1 DEF Sensible
<1> QED
  BY <1>1, <1>2, <1>3, <1>4, PassOver DEF IgnoreWord

(* An option with a number for a value, and the word that is its value if  *)
(* none is attached: the option is the last one given so far.              *)
LEMMA ParseOptionInv ==
  ASSUME ArgumentsInv, at = "parse", NEW to \in Nat, NEW o \in Options,
         current =< Len(argv), arg.kind = "option", arg.name = o,
         current < to, to =< Len(argv) + 1,
         \A p \in 1..Len(argv) : current < p /\ p < to => argv[p].kind = "word",
         ParseOption(o, Value(current)),
         current' = to,
         UNCHANGED <<argv, at, bResult>>
  PROVE  ArgumentsInv'
<1>1. /\ Len(argv) \in Nat /\ current \in 1..Len(argv)
      /\ \A p \in Before : p \in 1..Len(argv)
  BY ArgumentParts DEF ArgumentsInv, Before
<1>2. current \in Before
  BY IndexIsBefore
<1>3. /\ Value(current) \in Nat
      /\ parsed' = [parsed EXCEPT ![o] = @ + 1]
      /\ size' = [size EXCEPT ![o] = Value(current)]
  BY DEF ParseOption
<1>4. parsed \in [Options -> Nat] /\ size \in [Options -> Nat]
  BY DEF ArgumentsInv, ArgumentsTypeOK
<1>5. ArgumentsTypeOK'
  BY <1>1, <1>3, <1>4 DEF ArgumentsInv, ArgumentsTypeOK
<1>6. SensibleSoFar'
  <2>1. Sensible(current)
    BY <1>3 DEF Sensible, arg
  <2>2. ASSUME NEW p \in Before, p < to
        PROVE  Sensible(p)
    <3>1. CASE p < current
      BY <3>1 DEF ArgumentsInv, SensibleSoFar
    <3>2. CASE p = current
      BY <2>1, <3>2
    <3>3. CASE current < p
      BY <1>1, <2>2, <3>3 DEF Sensible
    <3> QED
      BY <1>1, <3>1, <3>2, <3>3
  <2>3. ASSUME to =< Len(argv), NEW q \in 1..(to - 1)
        PROVE  argv[q].kind # "end"
    <3>1. CASE q =< current
      BY <1>2, <3>1 DEF Before
    <3>2. CASE current < q
      BY <1>1, <2>3, <3>2
    <3> QED
      BY <1>1, <3>1, <3>2
  <2> QED
    BY <2>2, <2>3, SameMeaning DEF SensibleSoFar
<1>7. LastValueStored'
  <2>1. \A u \in Options : Given(u) \subseteq Before
    BY DEF Given
  <2>2. ASSUME NEW u \in Options, NEW p \in Given(u)
        PROVE  p < to <=> p < current \/ (u = o /\ p = current)
    <3>1. p \in 1..Len(argv) /\ argv[p].kind = "option" /\ argv[p].name = u
      BY <1>1, <2>1 DEF Given
    <3>2. p = current => u = o
      BY <3>1 DEF arg
    <3>3. current < p => ~ (p < to)
      BY <3>1
    <3> QED
      BY <1>1, <3>1, <3>2, <3>3
  <2>3. current \in Given(o)
    BY <1>2 DEF Given, arg
  <2>4. GivenSoFar(o)' = GivenSoFar(o) \cup {current}
    <3>1. GivenSoFar(o)' = {p \in Given(o) : p < to}
      BY SameMeaning DEF GivenSoFar
    <3> QED
      BY <2>2, <2>3, <3>1 DEF GivenSoFar
  <2>5. ASSUME NEW u \in Options, u # o
        PROVE  GivenSoFar(u)' = GivenSoFar(u)
    <3>1. GivenSoFar(u)' = {p \in Given(u) : p < to}
      BY SameMeaning DEF GivenSoFar
    <3> QED
      BY <2>2, <2>5, <3>1 DEF GivenSoFar
  <2>6. parsed'[o] = parsed[o] + 1 /\ parsed'[o] > 0 /\ size'[o] = Value(current)
    <3>1. parsed[o] \in Nat
      BY <1>4
    <3> QED
      BY <1>3, <1>4, <3>1
  <2>7. \A q \in GivenSoFar(o)' : q =< current
    BY <1>1, <2>1, <2>4 DEF GivenSoFar
  <2>8. PICK last \in Before : last = current
    BY <1>2
  <2>9. ASSUME NEW u \in Options, u # o
        PROVE  parsed'[u] = parsed[u] /\ size'[u] = size[u]
    BY <1>3, <1>4, <2>9
  <2>10. \A u \in Options : \A p \in GivenSoFar(u) : Value(p)' = Value(p)
    BY <2>1, SameMeaning DEF GivenSoFar
  <2>11. ASSUME NEW u \in Options
         PROVE  \/ /\ GivenSoFar(u)' = {}
                   /\ parsed'[u] = 0
                   /\ size'[u] = IF u = "clients" THEN 0 ELSE gl_msgNumberLimit
                \/ /\ parsed'[u] > 0
                   /\ \E p \in GivenSoFar(u)' :
                        /\ \A q \in GivenSoFar(u)' : q =< p
                        /\ size'[u] = Value(p)'
    <3>1. CASE u = o
      <4>1. last \in GivenSoFar(u)' /\ \A q \in GivenSoFar(u)' : q =< last
        BY <2>4, <2>7, <2>8, <3>1
      <4>2. size'[u] = Value(last)'
        BY <2>6, <2>8, <3>1, SameMeaning
      <4> QED
        BY <2>6, <3>1, <4>1, <4>2
    <3>2. CASE u # o
      BY <2>5, <2>9, <2>10, <3>2 DEF ArgumentsInv, LastValueStored
    <3> QED
      BY <3>1, <3>2
  <2> QED
    BY <2>11 DEF LastValueStored, gl_msgNumberLimit
<1>8. Decided'
  BY DEF ArgumentsInv, Decided
<1> QED
  BY <1>5, <1>6, <1>7, <1>8 DEF ArgumentsInv

(* The value is attached.                                                  *)
LEMMA ParseAttachedInv ==
  ASSUME ArgumentsInv, ParseAttached
  PROVE  ArgumentsInv'
<1>1. /\ Len(argv) \in Nat /\ current \in 1..Len(argv) /\ at = "parse"
      /\ arg.kind = "option" /\ arg.name \in Options /\ arg.number \in Nat
  BY ArgumentParts DEF ArgumentsInv, ParseAttached, ParseOption, Parsing
<1>2. Value(current) = arg.number
  BY <1>1, ArgumentsAssumption DEF Value, arg
<1>3. \A p \in 1..Len(argv) : ~ (current < p /\ p < current + 1)
  BY <1>1
<1> QED
  BY <1>1, <1>2, <1>3, ParseOptionInv DEF ParseAttached

(* The value is the next argument.                                         *)
LEMMA ParseNextInv ==
  ASSUME ArgumentsInv, ParseNext
  PROVE  ArgumentsInv'
<1>1. /\ Len(argv) \in Nat /\ current \in 1..Len(argv) /\ at = "parse"
      /\ arg.kind = "option" /\ arg.name \in Options /\ arg.number = Absent
      /\ current + 1 =< Len(argv) /\ argv[current + 1].kind = "word"
  BY ArgumentParts DEF ArgumentsInv, ParseNext, Parsing
<1>2. Value(current) = argv[current + 1].number
  BY <1>1 DEF Value, arg
<1>3. \A p \in 1..Len(argv) : current < p /\ p < current + 2 => p = current + 1
  BY <1>1
<1> QED
  BY <1>1, <1>2, <1>3, ParseOptionInv DEF ParseNext

(* The parser throws at an argument that makes no sense.                   *)
LEMMA ParseThrowsInv ==
  ASSUME ArgumentsInv, ParseThrows
  PROVE  ArgumentsInv'
<1>1. /\ Len(argv) \in Nat /\ current \in 1..Len(argv) /\ at = "parse"
      /\ arg.kind \in {"syntax", "option"}
  BY ArgumentParts DEF ArgumentsInv, ParseThrows, Parsing
<1>2. current \in Before
  BY <1>1, IndexIsBefore
<1>3. Invalid \notin Nat /\ Absent # Invalid
  BY ArgumentsAssumption
<1>4. ~ Sensible(current)
  <2>1. CASE arg.kind = "syntax"
    BY <2>1 DEF Sensible, arg
  <2>2. CASE arg.kind # "syntax"
    <3>1. arg.kind = "option"
      BY <1>1, <2>2
    <3>2. CASE arg.name \notin Options
      BY <3>1, <3>2 DEF Sensible, arg
    <3>3. CASE arg.name \in Options
      <4>1. \/ arg.number = Invalid
            \/ /\ arg.number = Absent
               /\ \/ current + 1 > Len(argv)
                  \/ /\ current + 1 =< Len(argv)
                     /\ argv[current + 1].kind # "word" \/ argv[current + 1].number = Invalid
        BY <2>2, <3>3 DEF ParseThrows
      <4>2. Value(current) = Invalid
        BY <1>1, <1>3, <4>1 DEF Value, arg
      <4> QED
        BY <1>3, <3>1, <4>2 DEF Sensible, arg
    <3> QED
      BY <3>2, <3>3
  <2> QED
    BY <2>1, <2>2
<1>5. at' = "done" /\ UNCHANGED <<argv, current, parsed, size, bResult>>
  BY DEF ParseThrows
<1>6. ArgumentsTypeOK' /\ SensibleSoFar'
  BY <1>5 DEF ArgumentsInv, ArgumentsTypeOK, SensibleSoFar
<1>7. LastValueStored'
  BY <1>5 DEF ArgumentsInv, LastValueStored, GivenSoFar, Given, Before, Value
<1>8. Decided'
  BY <1>1, <1>2, <1>4, <1>5, SameMeaning DEF ArgumentsInv, Decided
<1> QED
  BY <1>6, <1>7, <1>8 DEF ArgumentsInv

(* The decision, when every argument has been passed.                      *)
LEMMA DecideInv ==
  ASSUME ArgumentsInv, Decide
  PROVE  ArgumentsInv'
<1>1. /\ at = "parse" /\ current = Len(argv) + 1
      /\ at' = "done" /\ UNCHANGED <<argv, current, parsed, size>>
      /\ bResult' = (parsed["clients"] # 0 /\ MAX_CLIENTS >= size["clients"])
  BY DEF Decide
<1>2. \A p \in Before : p < current
  BY <1>1, ArgumentParts DEF ArgumentsInv, Before
<1>3. ArgumentsTypeOK' /\ SensibleSoFar'
  BY <1>1 DEF ArgumentsInv, ArgumentsTypeOK, SensibleSoFar
<1>4. LastValueStored'
  BY <1>1 DEF ArgumentsInv, LastValueStored, GivenSoFar, Given, Before, Value
<1>5. \A p \in Before : Sensible(p)
  BY <1>1, <1>2 DEF ArgumentsInv, SensibleSoFar
<1>6. Decided'
  BY <1>1, <1>5, SameMeaning DEF Decided
<1> QED
  BY <1>3, <1>4, <1>6 DEF ArgumentsInv

(* ArgumentsInv is inductive.                                              *)
LEMMA StepArgumentsInv ==
  ArgumentsInv /\ [ArgumentsNext]_argumentVars => ArgumentsInv'
<1> SUFFICES ASSUME ArgumentsInv, [ArgumentsNext]_argumentVars
             PROVE  ArgumentsInv'
  OBVIOUS
<1>1. CASE EndOfOptions \/ IgnoreWord
  BY <1>1, EndOfOptionsInv, IgnoreWordInv
<1>2. CASE ParseAttached \/ ParseNext
  BY <1>2, ParseAttachedInv, ParseNextInv
<1>3. CASE ParseThrows \/ Decide
  BY <1>3, ParseThrowsInv, DecideInv
<1>4. CASE UNCHANGED argumentVars
  BY <1>4 DEF argumentVars, ArgumentsInv, ArgumentsTypeOK, SensibleSoFar,
     LastValueStored, Decided, GivenSoFar, Given, Before, Sensible, Value
<1> QED
  BY <1>1, <1>2, <1>3, <1>4 DEF ArgumentsNext, Done

-----------------------------------------------------------------------------
(* The last one of the options given is the only one that none follows.    *)
LEMMA LastGivenIs ==
  ASSUME NEW o \in Options, NEW p \in Given(o), \A q \in Given(o) : q =< p
  PROVE  LastGiven(o) = p
<1>1. \A q \in Given(o) : q \in Int
  BY DEF Given, Before
<1>2. \A q \in Given(o) : (\A r \in Given(o) : r =< q) => q = p
  BY <1>1
<1> QED
  BY <1>2 DEF LastGiven

(* What processArguments and the parser keep up, whatever the arguments.   *)
THEOREM ArgumentsCorrect == ArgumentsSpec => []ArgumentsInv
  BY InitArgumentsInv, StepArgumentsInv, PTL DEF ArgumentsSpec

(* Every variable keeps its type; the loop never reads past the last       *)
(* argument, although an option may take the next one for its value.       *)
THEOREM ArgumentsTypeCorrect == ArgumentsSpec => []ArgumentsTypeOK
  BY ArgumentsCorrect, PTL DEF ArgumentsInv

(* processArguments returns TRUE exactly for the arguments that make       *)
(* sense, with clients among them and within the limit, and leaves the     *)
(* numbers they mean: the last one of each option that is given.           *)
THEOREM OutcomeIsAsMeant == ArgumentsSpec => []OutcomeAsMeant
<1>1. ArgumentsInv => OutcomeAsMeant
  <2> SUFFICES ASSUME ArgumentsInv, at = "done"
               PROVE  /\ bResult <=> /\ \A p \in Before : Sensible(p)
                                     /\ Given("clients") # {}
                                     /\ Value(LastGiven("clients")) =< MAX_CLIENTS
                      /\ bResult =>
                           /\ size["clients"] = Value(LastGiven("clients"))
                           /\ size["messages"] =
                                IF Given("messages") = {} THEN gl_msgNumberLimit
                                ELSE Value(LastGiven("messages"))
    BY DEF OutcomeAsMeant
  <2>1. CASE ~ bResult /\ \E p \in Before : ~ Sensible(p)
    BY <2>1
  <2>2. CASE /\ current = Len(argv) + 1
             /\ \A p \in Before : Sensible(p)
             /\ bResult = (parsed["clients"] # 0 /\ MAX_CLIENTS >= size["clients"])
    <3>1. \A p \in Before : p < current
      BY <2>2, ArgumentParts DEF ArgumentsInv, Before
    <3>2. \A o \in Options : GivenSoFar(o) = Given(o)
      BY <3>1 DEF GivenSoFar, Given
    <3>3. ASSUME NEW o \in Options
          PROVE  \/ /\ Given(o) = {} /\ parsed[o] = 0
                    /\ size[o] = IF o = "clients" THEN 0 ELSE gl_msgNumberLimit
                 \/ /\ Given(o) # {} /\ parsed[o] # 0
                    /\ size[o] = Value(LastGiven(o))
      <4>1. CASE GivenSoFar(o) = {} /\ parsed[o] = 0
                 /\ size[o] = IF o = "clients" THEN 0 ELSE gl_msgNumberLimit
        BY <3>2, <4>1
      <4>2. ASSUME parsed[o] > 0, NEW p \in GivenSoFar(o),
                   \A q \in GivenSoFar(o) : q =< p, size[o] = Value(p)
            PROVE  Given(o) # {} /\ parsed[o] # 0 /\ size[o] = Value(LastGiven(o))
        <5>1. p \in Given(o) /\ LastGiven(o) = p
          BY <3>2, <4>2, LastGivenIs
        <5> QED
          BY <4>2, <5>1
      <4> QED
        BY <4>1, <4>2 DEF ArgumentsInv, LastValueStored
    <3>4. "clients" \in Options /\ "messages" \in Options /\ size \in [Options -> Nat]
      BY DEF Options, ArgumentsInv, ArgumentsTypeOK
    <3>5. /\ bResult <=> Given("clients") # {} /\ size["clients"] =< MAX_CLIENTS
          /\ Given("clients") # {} => size["clients"] = Value(LastGiven("clients"))
      BY <2>2, <3>3, <3>4 DEF MAX_CLIENTS, ArgumentsInv, ArgumentsTypeOK
    <3>6. size["messages"] = IF Given("messages") = {} THEN gl_msgNumberLimit
                             ELSE Value(LastGiven("messages"))
      BY <3>3, <3>4
    <3> QED
      BY <2>2, <3>5, <3>6
  <2> QED
    BY <2>1, <2>2 DEF ArgumentsInv, Decided
<1> QED
  BY <1>1, ArgumentsCorrect, PTL
=============================================================================
