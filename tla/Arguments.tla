----------------------------- MODULE Arguments ------------------------------
(***************************************************************************)
(* processArguments (src/src/main.cpp:100-144) and the loop of             *)
(* OptionParser::parse (src/src/Utils/cxxopts.hpp) for the two options it  *)
(* declares.  Neither option has an implicit or a default value, unknown   *)
(* options are not allowed, and no option is positional.                   *)
(*                                                                         *)
(* An argument is what ParseArgument makes of it:                          *)
(*   end     --                                                            *)
(*   word    not an option; only as a value does it count                  *)
(*   syntax  begins with - and is not an option                            *)
(*   option  -c, -c5, --clients or --clients=5, with the value attached to *)
(*           it, if any                                                    *)
(* number is what integer_parser (see IntegerParser) makes of the word or  *)
(* of the value attached.  It makes nothing of a text that begins with -.  *)
(***************************************************************************)
EXTENDS Integers, Sequences

CONSTANTS
  Numbers,      \* the numbers that appear in arguments
  Invalid,      \* text that is no size_t
  Absent,       \* no value attached
  Argv          \* the argument lists, without the program's name

Options == {"clients", "messages"}
Kinds == {"end", "word", "syntax", "option"}

Argument ==
  [kind : Kinds, name : Options \cup {"other"}, number : Numbers \cup {Invalid, Absent}]

ASSUME ArgumentsAssumption ==
  /\ Numbers \subseteq Nat
  /\ {Invalid, Absent} \cap Nat = {} /\ Invalid # Absent
  /\ Argv \subseteq Seq(Argument)
  /\ \A list \in Argv : \A p \in 1..Len(list) :
       list[p].kind = "word" => list[p].number # Absent

VARIABLES
  argv,         \* the arguments
  current,      \* the index of the loop
  at,           \* where the main thread is
  parsed,       \* m_parsed: how often each option was given
  size,         \* c_clients and c_msgs, which the parser writes directly
  bResult       \* what processArguments returns

argumentVars == <<argv, current, at, parsed, size, bResult>>

MAX_CLIENTS == 50
gl_msgNumberLimit == 1000

ArgumentsInit ==
  /\ argv \in Argv
  /\ current = 1
  /\ at = "parse"
  /\ parsed = [o \in Options |-> 0]
  /\ size = [o \in Options |-> IF o = "clients" THEN 0 ELSE gl_msgNumberLimit]
  /\ bResult = FALSE

arg == argv[current]

Parsing(kinds) ==
  /\ at = "parse"
  /\ current =< Len(argv)
  /\ arg.kind \in kinds

(* parse_option: count the option and parse its value, in this order.      *)
ParseOption(o, number) ==
  /\ number \in Nat
  /\ parsed' = [parsed EXCEPT ![o] = @ + 1]
  /\ size' = [size EXCEPT ![o] = number]

(* Mutant: -- is skipped like a word.                                      *)
EndOfOptions_Skipped ==
  /\ Parsing({"end"})
  /\ current' = current + 1
  /\ UNCHANGED <<argv, at, parsed, size, bResult>>

(* What follows -- is left for positional options, of which there are none. *)
EndOfOptions ==
  /\ Parsing({"end"})
  /\ current' = Len(argv) + 1
  /\ UNCHANGED <<argv, at, parsed, size, bResult>>

(* consume_positional takes no word: it is ignored.                        *)
IgnoreWord ==
  /\ Parsing({"word"})
  /\ current' = current + 1
  /\ UNCHANGED <<argv, at, parsed, size, bResult>>

ParseAttached ==
  /\ Parsing({"option"})
  /\ arg.name \in Options
  /\ ParseOption(arg.name, arg.number)
  /\ current' = current + 1
  /\ UNCHANGED <<argv, at, bResult>>

(* Mutant: the value is looked for after the index has moved.              *)
ParseNext_Moves ==
  /\ Parsing({"option"})
  /\ arg.name \in Options /\ arg.number = Absent
  /\ current + 1 =< Len(argv)
  /\ argv[current + 1].kind = "word"
  /\ ParseOption(arg.name, argv[current + 1].number)
  /\ current' = current + 3
  /\ UNCHANGED <<argv, at, bResult>>

(* checked_parse_arg: the next argument, whatever it looks like, is the    *)
(* value.                                                                  *)
ParseNext ==
  /\ Parsing({"option"})
  /\ arg.name \in Options /\ arg.number = Absent
  /\ current + 1 =< Len(argv)
  /\ argv[current + 1].kind = "word"
  /\ ParseOption(arg.name, argv[current + 1].number)
  /\ current' = current + 2
  /\ UNCHANGED <<argv, at, bResult>>

(* An exception: the parser goes with its counts, what was stored before   *)
(* stays, and nobody will read it.                                         *)
ParseThrows ==
  /\ Parsing({"syntax", "option"})
  /\ \/ arg.kind = "syntax"
     \/ arg.name \notin Options
     \/ arg.number = Invalid
     \/ arg.number = Absent /\ current + 1 > Len(argv)
     \/ /\ arg.number = Absent
        /\ current + 1 =< Len(argv)
        /\ argv[current + 1].kind # "word" \/ argv[current + 1].number = Invalid
  /\ at' = "done"
  /\ UNCHANGED <<argv, current, parsed, size, bResult>>

(* Without clients, or with too many, the usage is shown.                  *)
Decide ==
  /\ at = "parse"
  /\ current = Len(argv) + 1
  /\ at' = "done"
  /\ bResult' = (parsed["clients"] # 0 /\ MAX_CLIENTS >= size["clients"])
  /\ UNCHANGED <<argv, current, parsed, size>>

Done ==
  /\ at = "done"
  /\ UNCHANGED argumentVars

ArgumentsNext ==
  \/ EndOfOptions
  \/ IgnoreWord
  \/ ParseAttached
  \/ ParseNext
  \/ ParseThrows
  \/ Decide
  \/ Done

ArgumentsSpec == ArgumentsInit /\ [][ArgumentsNext]_argumentVars

-----------------------------------------------------------------------------
(* What a list of arguments means, as a whole and not step by step.        *)

(* The arguments before the first --.                                      *)
Before == {p \in 1..Len(argv) : \A q \in 1..p : argv[q].kind # "end"}

Given(o) == {p \in Before : argv[p].kind = "option" /\ argv[p].name = o}

LastGiven(o) == CHOOSE p \in Given(o) : \A q \in Given(o) : q =< p

(* The value of the option at p: the text attached to it, or the word that *)
(* follows it.                                                             *)
Value(p) ==
  IF argv[p].number # Absent THEN argv[p].number
  ELSE IF p < Len(argv) /\ argv[p + 1].kind = "word" THEN argv[p + 1].number
  ELSE Invalid

Sensible(p) ==
  /\ argv[p].kind # "syntax"
  /\ argv[p].kind = "option" => argv[p].name \in Options /\ Value(p) \in Nat

(* Properties.                                                             *)

(* Every variable keeps its type; the index does not pass argc.            *)
ArgumentsTypeOK ==
  /\ argv \in Seq(Argument)
  /\ current \in 1..(Len(argv) + 1)
  /\ at \in {"parse", "done"}
  /\ parsed \in [Options -> Nat]
  /\ size \in [Options -> Nat]
  /\ bResult \in BOOLEAN

(* The program starts if the arguments make sense, clients is among them   *)
(* and within its limit; and with the numbers they mean: the last one      *)
(* given of each, or 1000 messages.                                        *)
OutcomeAsMeant ==
  at = "done" =>
    /\ bResult <=> /\ \A p \in Before : Sensible(p)
                   /\ Given("clients") # {}
                   /\ Value(LastGiven("clients")) =< MAX_CLIENTS
    /\ bResult =>
         /\ size["clients"] = Value(LastGiven("clients"))
         /\ size["messages"] = IF Given("messages") = {} THEN gl_msgNumberLimit
                               ELSE Value(LastGiven("messages"))

-----------------------------------------------------------------------------
(* The inductive invariant.                                                *)

GivenSoFar(o) == {p \in Given(o) : p < current}

(* The loop goes on only after arguments that make sense, and -- ends it.  *)
SensibleSoFar ==
  at = "parse" =>
    /\ \A p \in Before : p < current => Sensible(p)
    /\ current =< Len(argv) => \A q \in 1..(current - 1) : argv[q].kind # "end"

(* An option was counted if it was given, and then its last value stored.  *)
LastValueStored ==
  \A o \in Options :
    \/ /\ GivenSoFar(o) = {}
       /\ parsed[o] = 0
       /\ size[o] = IF o = "clients" THEN 0 ELSE gl_msgNumberLimit
    \/ /\ parsed[o] > 0
       /\ \E p \in GivenSoFar(o) :
            /\ \A q \in GivenSoFar(o) : q =< p
            /\ size[o] = Value(p)

(* The loop ends at an argument that makes no sense, or after the last one *)
(* with a decision on the number of clients.                               *)
Decided ==
  \/ at = "parse" /\ ~ bResult
  \/ at = "done" /\ ~ bResult /\ \E p \in Before : ~ Sensible(p)
  \/ /\ at = "done"
     /\ current = Len(argv) + 1
     /\ \A p \in Before : Sensible(p)
     /\ bResult = (parsed["clients"] # 0 /\ MAX_CLIENTS >= size["clients"])

ArgumentsInv ==
  /\ ArgumentsTypeOK
  /\ SensibleSoFar
  /\ LastValueStored
  /\ Decided
=============================================================================
