---------------------------- MODULE CommandLine ----------------------------
(***************************************************************************)
(* main (src/src/main.cpp) turns the command line into the globals the     *)
(* engine reads.  An option is << >> when it is absent and <<v>> when it   *)
(* is given with the text of the integer v: stoi/stol of that text is v    *)
(* (the text is not modelled; an option given as the last word, whose      *)
(* getCmdOption is NULL, is left out, see README).                         *)
(***************************************************************************)
EXTENDS Integers, Sequences

\* An option as main can see it: absent, or given with an integer.
IsArg(a) == a = << >> \/ (Len(a) = 1 /\ a[1] \in Int)

\* cmdOptionExists then stoi(getCmdOption(...)) (utils.h), else the
\* global's initialiser.
OptionValue(arg, default) == IF arg = << >> THEN default ELSE arg[1]

\* --max-clq, main.cpp 80; int max_clq_size = -1 (line 32).
MaxClqSize(arg) == OptionValue(arg, -1)

\* -s, main.cpp 81-84; int subgraphBased = 0 (line 33).  Line 83 is
\* `subgraphBased == 0;`, a comparison whose result is dropped, so a value
\* outside 0..2 is kept as given.
SubgraphBased(arg) == OptionValue(arg, 0)
=============================================================================
