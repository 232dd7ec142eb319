-------------------------- MODULE MCConsoleRecord --------------------------
(* Two processes, each with either option, and two files.                   *)
EXTENDS ConsoleRecord, TLC
CONSTANTS p1, p2, i1, i2

MCTerminal == <<"rc", "fence">>
MCTexts == {MCTerminal, <<"rc", "bad">>, <<"rc", "fence", "rc">>}

(* The processes may change places, and so may the files. *)
Symmetric == Permutations({p1, p2}) \cup Permutations({i1, i2})
=============================================================================
