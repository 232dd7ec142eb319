----------------------------- MODULE MCShellParse -----------------------------
(* Quotes and escapes in longer lines, operators in longer lines, and both    *)
(* together in short ones.                                                    *)
EXTENDS ShellParse

MCKeyboards ==
    {[keys |-> {"a", " ", "'", "\"", "\\"}, len |-> 7],
     [keys |-> {"'", "\\", "|", " "}, len |-> 8],
     [keys |-> {"a", "|", ";", "&", "<", ">", "(", ")"}, len |-> 6],
     [keys |-> {"a", " ", "'", "\"", "\\", "|", ";", "&", ">", "("}, len |-> 5]}
=============================================================================
