------------------------------ MODULE ShellParse ------------------------------
(***************************************************************************)
(* The parser of src/programs/sh/sh.c: gettoken() finds where a word ends, *)
(* the parse functions build the tree, nulterminate() cuts the words out   *)
(* and dequote() takes their quotes off, in a scan of its own;             *)
(* line_has_control_operator(), a third scan, decides whether a line may be *)
(* run as a built-in.  All three are compared with one reading of the      *)
(* quoting rules (sh.c:2747-2765) and of the grammar.                      *)
(*                                                                         *)
(* A character is a string of length one.  The line is typed one character *)
(* at a time; run_line() ends it with a newline.  A tree is                *)
(*   <<"EXEC", words>>, <<"REDIR", tree, token, word>>, <<"PIPE", l, r>>,  *)
(*   <<"LIST", l, r>> or <<"BACK", tree>>.                                 *)
(***************************************************************************)
EXTENDS Integers, Sequences, FiniteSetsExt

CONSTANTS
    Keyboards,      \* bound: [keys, len]: which characters are typed, and how many
    MaxArgs         \* MAXARGS

VARIABLES keyboard, line
vars == <<keyboard, line>>

NL == "\n"
Blank == {" ", "\t", NL}
Symbol == {"<", "|", ">", "&", ";", "(", ")"}
Single == "'"
Double == "\""
Esc == "\\"

ASSUME ParseAssumption ==
    /\ MaxArgs \in Nat \ {0}
    /\ \A k \in Keyboards : k.len \in Nat /\ NL \notin k.keys

Init == keyboard \in Keyboards /\ line = <<>>
Type(c) == Len(line) < keyboard.len /\ line' = Append(line, c) /\ UNCHANGED keyboard
Next == \E c \in keyboard.keys : Type(c)
Spec == Init /\ [][Next]_vars

\* What parsecmd() gets.
text == Append(line, NL)

-----------------------------------------------------------------------------
(* Scans of the line t; position es is one past its end. *)

End(t) == Len(t) + 1
Skip(t, s) == Min({i \in s .. End(t) : i = End(t) \/ t[i] \notin Blank})

\* Where a quote that was opened before s is closed.  Mutant: escapes are overlooked.
QuoteEndPlain(t, s, q) == Min({i \in s .. End(t) : i = End(t) \/ t[i] = q})
QuoteEnd(t, s, q) ==
    LET skips(i) == /\ t[i] = Esc /\ i + 1 < End(t)
                    /\ q = Single => t[i + 1] = Single
        e[i \in 1 .. End(t)] ==
            IF i = End(t) \/ t[i] = q THEN i
            ELSE IF skips(i) THEN e[i + 2] ELSE e[i + 1]
    IN e[s]

\* Where the word that begins at s ends.
WordEnd(t, s) ==
    LET w[i \in 1 .. End(t)] ==
            IF i = End(t) \/ t[i] \in Blank \cup Symbol THEN i
            ELSE IF t[i] = Esc /\ i + 1 < End(t) THEN w[i + 2]
            ELSE IF t[i] \in {Single, Double}
                 THEN LET e == QuoteEnd(t, i + 1, t[i]) IN w[IF e < End(t) THEN e + 1 ELSE e]
            ELSE w[i + 1]
    IN w[s]

\* gettoken: its answer, the token from q up to eq, and where the scan goes on.
Answer(t, tok, q, eq) == [tok |-> tok, q |-> q, eq |-> eq, s |-> Skip(t, eq)]
TokenAt(t, q) ==
    IF q = End(t) THEN Answer(t, "eof", q, q)
    ELSE IF t[q] = ">" /\ q + 1 < End(t) /\ t[q + 1] = ">" THEN Answer(t, "+", q, q + 2)
    ELSE IF t[q] \in Symbol THEN Answer(t, t[q], q, q + 1)
    ELSE Answer(t, "a", q, WordEnd(t, q))
GetToken(t, s) == TokenAt(t, Skip(t, s))

Peek(t, s, toks) == LET i == Skip(t, s) IN i < End(t) /\ t[i] \in toks

\* dequote on the word from q up to eq, where nulterminate has put the end.  Mutant: every backslash in quotes is an escape.
EscapesAll(c, q) == TRUE
Escapes(c, q) == c \in {q, Esc}
Dequote(t, q, eq) ==
    LET \* mode is the quote that is open, or "none"
        d[i \in q .. eq] == [mode \in {"none", Single, Double} |->
            IF i = eq THEN <<>>
            ELSE IF mode = "none"
                 THEN IF t[i] = Esc /\ i + 1 < eq THEN <<t[i + 1]>> \o d[i + 2][mode]
                      ELSE IF t[i] \in {Single, Double} THEN d[i + 1][t[i]]
                      ELSE <<t[i]>> \o d[i + 1][mode]
            ELSE IF t[i] = mode THEN d[i + 1]["none"]
            ELSE IF t[i] = Esc /\ i + 1 < eq /\ Escapes(t[i + 1], mode)
                 THEN <<t[i + 1]>> \o d[i + 2][mode]
            ELSE <<t[i]>> \o d[i + 1][mode]]
    IN d[q]["none"]

\* line_has_control_operator.  Mutant: a backslash escapes nothing inside quotes.
HasControlQuoted(t) ==
    LET h[i \in 1 .. End(t)] == [quote \in {"none", Single, Double} |->
            IF i = End(t) THEN FALSE
            ELSE IF quote # "none" THEN h[i + 1][IF t[i] = quote THEN "none" ELSE quote]
            ELSE IF t[i] = Esc /\ i + 1 < End(t) THEN h[i + 2][quote]
            ELSE IF t[i] \in {Single, Double} THEN h[i + 1][t[i]]
            ELSE t[i] \in Symbol \/ h[i + 1][quote]]
    IN h[1]["none"]
HasControl(t) ==
    LET h[i \in 1 .. End(t)] == [quote \in {"none", Single, Double} |->
            IF i = End(t) THEN FALSE
            ELSE IF t[i] = Esc /\ i + 1 < End(t) THEN h[i + 2][quote]
            ELSE IF quote # "none" THEN h[i + 1][IF t[i] = quote THEN "none" ELSE quote]
            ELSE IF t[i] \in {Single, Double} THEN h[i + 1][t[i]]
            ELSE t[i] \in Symbol \/ h[i + 1][quote]]
    IN h[1]["none"]

-----------------------------------------------------------------------------
(* The parse functions: the tree and where they stopped, or no tree when one *)
(* of them has called panic().                                               *)

Panic == <<"PANIC">>
Got(cmd, s) == [cmd |-> cmd, s |-> s]

\* nulterminate, for the word of one token.
Word(t, g) == Dequote(t, g.q, g.eq)

\* parseredirs: reads the redirections at x.s, if ok, and appends them to those
\* read before, innermost first.
OneRedir(t, x) ==
    LET op == GetToken(t, x.s)
        file == GetToken(t, op.s)
    IN IF ~x.ok \/ ~Peek(t, x.s, {"<", ">"}) THEN x
       ELSE IF file.tok # "a" THEN [x EXCEPT !.ok = FALSE]
       ELSE [x EXCEPT !.redirs = Append(@, <<op.tok, Word(t, file)>>), !.s = file.s]
ParseRedirs(t, x) ==
    LET r[n \in 0 .. Len(t)] == IF n = 0 THEN [x EXCEPT !.s = Skip(t, @)] ELSE OneRedir(t, r[n - 1])
    IN r[Len(t)]
Nothing(s) == [ok |-> TRUE, words |-> <<>>, redirs |-> <<>>, s |-> s]

\* The words of a command and the redirections between them.  The EXEC node is filled
\* in while redirections already hold it, so these are put around it last.
OneArg(t, x) ==
    LET g == GetToken(t, x.s)
    IN IF ~x.ok \/ Peek(t, x.s, {"|", ")", "&", ";"}) \/ g.tok = "eof" THEN x
       ELSE IF g.tok # "a" \/ Len(x.words) + 1 >= MaxArgs THEN [x EXCEPT !.ok = FALSE]
       ELSE ParseRedirs(t, [x EXCEPT !.words = Append(@, Word(t, g)), !.s = g.s])
ParseArgs(t, x) ==
    LET a[n \in 0 .. Len(t)] == IF n = 0 THEN x ELSE OneArg(t, a[n - 1])
    IN a[Len(t)]
Around(cmd, redirs) ==
    LET c[n \in 0 .. Len(redirs)] ==
            IF n = 0 THEN cmd ELSE <<"REDIR", c[n - 1], redirs[n][1], redirs[n][2]>>
    IN c[Len(redirs)]
Redirected(cmd, x) == IF x.ok THEN Got(Around(cmd, x.redirs), x.s) ELSE Got(Panic, x.s)

\* In these p["line"][s] and p["pipe"][s] are what parseline() and parsepipe() answer
\* when they are called again, at s.
EndBlock(t, b) ==
    IF b.cmd = Panic \/ ~Peek(t, b.s, {")"}) THEN Got(Panic, b.s)
    ELSE Redirected(b.cmd, ParseRedirs(t, Nothing(GetToken(t, b.s).s)))
ParseBlock(t, p, s) == EndBlock(t, p["line"][GetToken(t, s).s])
EndExec(x) == Redirected(<<"EXEC", x.words>>, x)
ParseExec(t, p, s) ==
    IF Peek(t, s, {"("}) THEN ParseBlock(t, p, s)
    ELSE EndExec(ParseArgs(t, ParseRedirs(t, Nothing(s))))

Joined(op, l, r) == IF r.cmd = Panic THEN r ELSE Got(<<op, l, r.cmd>>, r.s)
EndPipe(t, p, l) ==
    IF l.cmd = Panic \/ ~Peek(t, l.s, {"|"}) THEN l
    ELSE Joined("PIPE", l.cmd, p["pipe"][GetToken(t, l.s).s])
ParsePipe(t, p, s) == EndPipe(t, p, ParseExec(t, p, s))

\* The loop over "&" of parseline, while no line begins after it.
OneAmp(t, x) ==
    LET n == GetToken(t, x.s).s
    IN IF x.cmd # Panic /\ Peek(t, x.s, {"&"}) /\ (n = End(t) \/ Peek(t, n, {";", "&"}))
       THEN Got(<<"BACK", x.cmd>>, n) ELSE x
Background(t, x) ==
    LET b[n \in 0 .. Len(t)] == IF n = 0 THEN x ELSE OneAmp(t, b[n - 1])
    IN b[Len(t)]
EndLine(t, p, x) ==
    LET rest == p["line"][GetToken(t, x.s).s]
    IN IF x.cmd = Panic THEN x
       ELSE IF Peek(t, x.s, {"&"}) THEN Joined("LIST", <<"BACK", x.cmd>>, rest)
       ELSE IF Peek(t, x.s, {";"}) THEN Joined("LIST", x.cmd, rest)
       ELSE x
ParseLine(t, p, s) == EndLine(t, p, Background(t, ParsePipe(t, p, s)))

\* The answers of calls nested less than n deep.  Each call starts further on than
\* the one that made it, so no line needs more than End(t).
Calls(t) ==
    LET c[n \in 0 .. End(t)] ==
            [f \in {"line", "pipe"} |-> [s \in 1 .. End(t) |->
                IF n = 0 THEN Got(Panic, s)
                ELSE IF f = "line" THEN ParseLine(t, c[n - 1], s) ELSE ParsePipe(t, c[n - 1], s)]]
    IN c[End(t)]

\* parsecmd; what is left over is reported, and there is no tree either.
EndCmd(t, r) == IF r.cmd # Panic /\ Skip(t, r.s) = End(t) THEN r.cmd ELSE Panic
ParseCmd(t) == EndCmd(t, Calls(t)["line"][1])

-----------------------------------------------------------------------------
(* The reference: words and operators in one pass by the rules of sh.c:2747,  *)
(* then a grammar on them that splits at the operators that bind least.       *)

Start == [quote |-> "none", esc |-> FALSE, open |-> FALSE, word |-> <<>>,
          toks |-> <<>>, gt |-> FALSE, pair |-> FALSE, odd |-> FALSE]
Op(c) == [op |-> c, word |-> <<>>]
Close(st) == IF st.open
             THEN [st EXCEPT !.toks = Append(@, [op |-> "a", word |-> st.word]),
                             !.open = FALSE, !.word = <<>>]
             ELSE st
Add(st, cs) == [st EXCEPT !.word = @ \o cs, !.open = TRUE, !.esc = FALSE,
                          !.pair = FALSE, !.gt = FALSE]

Read(st, c) ==
    IF st.quote # "none"
    THEN IF st.esc THEN IF c \in {st.quote, Esc}
                        THEN [Add(st, <<c>>) EXCEPT !.pair = (c = Esc)]
                        ELSE Add(st, <<Esc, c>>)
         ELSE IF c = Esc THEN [st EXCEPT !.esc = TRUE]
         ELSE IF c = st.quote
              THEN [st EXCEPT !.quote = "none", !.pair = FALSE,
                              !.odd = @ \/ (st.pair /\ c = Single)]
         ELSE Add(st, <<c>>)
    ELSE IF st.esc THEN Add(st, <<c>>)
    ELSE IF c = Esc THEN [st EXCEPT !.esc = TRUE, !.open = TRUE, !.gt = FALSE]
    ELSE IF c \in {Single, Double} THEN [st EXCEPT !.quote = c, !.open = TRUE, !.gt = FALSE]
    ELSE IF c \in Blank THEN [Close(st) EXCEPT !.gt = FALSE]
    ELSE IF c = ">" /\ st.gt
         THEN [st EXCEPT !.toks = [@ EXCEPT ![Len(@)] = Op("+")], !.gt = FALSE]
    ELSE IF c \in Symbol THEN [Close(st) EXCEPT !.toks = Append(@, Op(c)), !.gt = (c = ">")]
    ELSE Add(st, <<c>>)

\* The reading after each character of t.
Reading(t) == LET st[i \in 0 .. Len(t)] == IF i = 0 THEN Start ELSE Read(st[i - 1], t[i]) IN st
Lexed(t) == LET st == Reading(t)[Len(t)] IN [toks |-> Close(st).toks, odd |-> st.odd]

\* Of the words and operators w these are about the part from i up to, not including, j.
Depth(w) ==
    LET d[i \in 0 .. Len(w)] ==
            IF i = 0 THEN 0
            ELSE IF w[i].op = "(" THEN d[i - 1] + 1 ELSE IF w[i].op = ")" THEN d[i - 1] - 1
            ELSE d[i - 1]
    IN d
Balanced(w) == Depth(w)[Len(w)] = 0 /\ \A i \in DOMAIN w : Depth(w)[i] >= 0
AtTop(w, i, j, cs) == {k \in i .. (j - 1) : w[k].op \in cs /\ Depth(w)[k] = Depth(w)[i - 1]}
Redirection == {"<", ">", "+"}
Redirs(w, i, j) == {k \in i .. (j - 1) : w[k].op \in Redirection}
Args(w, i, j) == {k \in i .. (j - 1) : w[k].op = "a" /\ k - 1 \notin Redirs(w, i, j)}

\* Words and redirections only, and every redirection operator is followed by its file.
Plain(w, i, j) ==
    /\ \A k \in i .. (j - 1) : w[k].op \in Redirection \cup {"a"}
    /\ \A k \in Redirs(w, i, j) : k + 1 < j /\ w[k + 1].op = "a"
Words(w, i, j) ==
    LET a[k \in (i - 1) .. (j - 1)] ==
            IF k = i - 1 THEN <<>>
            ELSE IF k \in Args(w, i, j) THEN Append(a[k - 1], w[k].word) ELSE a[k - 1]
    IN a[j - 1]
Files(w, i, j) ==
    LET r[k \in (i - 1) .. (j - 1)] ==
            IF k = i - 1 THEN <<>>
            ELSE IF k \in Redirs(w, i, j) THEN Append(r[k - 1], <<w[k].op, w[k + 1].word>>)
            ELSE r[k - 1]
    IN r[j - 1]

\* In these g["line"][i][j] and g["pipe"][i][j] are the trees of parts of w.
RefSimple(w, i, j) ==
    IF ~Plain(w, i, j) \/ Len(Words(w, i, j)) >= MaxArgs THEN Panic
    ELSE Around(<<"EXEC", Words(w, i, j)>>, Files(w, i, j))
RefBlock(w, g, i, j) ==
    LET k == Min(AtTop(w, i, j, {")"}))
        cmd == g["line"][i + 1][k]
    IN IF cmd = Panic \/ ~Plain(w, k + 1, j) \/ Args(w, k + 1, j) # {} THEN Panic
       ELSE Around(cmd, Files(w, k + 1, j))
RefExec(w, g, i, j) ==
    IF i < j /\ w[i].op = "(" THEN RefBlock(w, g, i, j) ELSE RefSimple(w, i, j)

Both(op, l, r) == IF l = Panic \/ r = Panic THEN Panic ELSE <<op, l, r>>
RefPipe(w, g, i, j) ==
    LET bars == AtTop(w, i, j, {"|"})
        k == Min(bars)
    IN IF bars = {} THEN RefExec(w, g, i, j)
       ELSE Both("PIPE", RefExec(w, g, i, k), g["pipe"][k + 1][j])

\* Each "&" puts what is before it in the background; what follows the last of them
\* is a line again, if only an empty one, unless nothing follows at all.
Backed(cmd, n) == LET b[m \in 0 .. n] == IF m = 0 THEN cmd ELSE <<"BACK", b[m - 1]>> IN b[n]
RefRest(w, g, cmd, k, j) ==
    LET m == Min({x \in k .. j : x = j \/ w[x].op # "&"})
        from == IF m < j /\ w[m].op = ";" THEN m + 1 ELSE m
    IN IF cmd = Panic THEN Panic
       ELSE IF m = Len(w) + 1 THEN Backed(cmd, m - k)
       ELSE Both("LIST", Backed(cmd, m - k), g["line"][from][j])
RefLine(w, g, i, j) ==
    LET ends == AtTop(w, i, j, {";", "&"})
        k == Min(ends)
    IN IF ends = {} THEN RefPipe(w, g, i, j) ELSE RefRest(w, g, RefPipe(w, g, i, k), k, j)

\* The trees of the parts of w, nested less than n deep.
Trees(w) ==
    LET g[n \in 0 .. Len(w) + 1] ==
            [f \in {"line", "pipe"} |-> [i \in 1 .. Len(w) + 1 |-> [j \in 1 .. Len(w) + 1 |->
                IF n = 0 THEN Panic
                ELSE IF f = "line" THEN RefLine(w, g[n - 1], i, j) ELSE RefPipe(w, g[n - 1], i, j)]]]
    IN g[Len(w) + 1]

Reference(t) ==
    LET w == Lexed(t).toks
    IN IF Balanced(w) THEN Trees(w)["line"][1][Len(w) + 1] ELSE Panic

-----------------------------------------------------------------------------
(* Properties *)

\* gettoken() and dequote() disagree about a backslash that an escaped one
\* precedes at the end of a single-quoted string (README, What disagrees).
Agreed == ~Lexed(text).odd

\* Two scans that do not know of each other, gettoken() for where a word ends and
\* dequote() for what is in it, and the recursive descent between them, build the
\* tree and the words that the quoting rules and the grammar give the line, and
\* reject every other line (sh.c:2547-2857).
TreeIsGrammatical == Agreed => ParseCmd(text) = Reference(text)

\* Whether gettoken() finds anything but words.
SeesOperator(t) ==
    LET sees[s \in 1 .. End(t)] ==
            LET g == GetToken(t, s) IN g.tok # "eof" /\ (g.tok # "a" \/ sees[g.s])
    IN sees[1]

\* run_line() may take a line for a built-in or an assignment exactly when the
\* parser finds no operator in it, so no pipe, list or file is lost to a built-in,
\* and no quoted operator keeps one from running (sh.c:2011-2032, 2107).
BuiltinMeansSimple == Agreed => (HasControl(text) <=> SeesOperator(text))
=============================================================================
