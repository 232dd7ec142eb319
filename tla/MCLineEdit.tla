------------------------------ MODULE MCLineEdit ------------------------------
(* Lines of a few characters; names that share no letter, one, or all but the *)
(* last.                                                                      *)
EXTENDS LineEdit

CONSTANTS ch_a, ch_b

SomeNames == {<<ch_a, ch_a>>, <<ch_a, ch_b>>, <<ch_b, ch_a, ch_b>>}
NoNames == {}
=============================================================================
