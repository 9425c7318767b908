---------------------------- MODULE MCArguments -----------------------------
(***************************************************************************)
(* Every list of up to four of the arguments that the loop tells apart,    *)
(* with numbers on both sides of the limit of clients.                     *)
(***************************************************************************)
EXTENDS Arguments, SequencesExt

MCNumbers == {0, 50, 51}

MCArgument ==
  [kind : {"end", "syntax"}, name : {"other"}, number : {Absent}]
    \cup [kind : {"word"}, name : {"other"}, number : {50, 51, Invalid}]
    \cup [kind : {"option"}, name : {"clients"}, number : {50, 51, Invalid, Absent}]
    \cup [kind : {"option"}, name : {"messages"}, number : {0, Absent}]
    \cup [kind : {"option"}, name : {"other"}, number : {Absent}]

MCArgv == BoundedSeq(MCArgument, 4)
=============================================================================
