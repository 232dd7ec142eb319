------------------------------ MODULE MCFsUtil ------------------------------
EXTENDS FsUtil, TLC

F(x) == [kind |-> "file", body |-> <<x, x>>]
L(p) == [kind |-> "link", body |-> p]

MCName == {"s", "m", "o", "x", "y", "z", "d", "t", "gone", "nothing"}
MCChunk == {"s", "m", "o", "x", "z"}

S == <<"s">>
M == <<"m">>
O == <<"o">>
Outside == (<<"o">> :> Dir) @@ (<<"o", "x">> :> F("o"))
Base == (<<>> :> Dir) @@ (M :> Dir) @@ Outside

\* What stands at s: a file, links, and directories of two levels.
Links == {L(<<"o", "x">>), L(O), L(<<"s", "x">>), L(<<"gone">>)}
Inner == {(<<"s", "y">> :> Dir) @@ (<<"s", "y", "z">> :> o) : o \in {F("z"), L(O), L(S)}}
    \cup {<<"s", "y">> :> o : o \in Links}
Sources == {S :> o : o \in {F("s"), L(O), L(<<"o", "x">>), L(<<"gone">>)}}
    \cup {S :> Dir}
    \cup {(S :> Dir) @@ (<<"s", "x">> :> F("x")) @@ t : t \in Inner}
    \cup {(S :> Dir) @@ (<<"s", "d">> :> [kind |-> "dev", body |-> <<>>])}

\* What stands in the way below the destination m.
Ways == {<<>> :> Dir, <<"m", "s">> :> F("m"), <<"m", "s">> :> Dir, <<"m", "s">> :> L(O),
         <<"m", "s">> :> L(<<"o", "x">>), <<"m", "s">> :> L(<<"gone">>),
         (<<"m", "s">> :> Dir) @@ (<<"m", "s", "y">> :> F("m")),
         (<<"m", "s">> :> Dir) @@ (<<"m", "s", "x">> :> L(<<"o", "x">>)) @@ (<<"m", "s", "y">> :> Dir)}
Trees == {Base @@ s @@ w : s \in Sources, w \in Ways}

Job(c, a, d, r, f, t, m) ==
    [cmd |-> c, args |-> a, dst |-> d, r |-> r, f |-> f, tree |-> t, mount |-> m]

Two == {<<S, <<"o", "x">>>>, <<O, <<"nothing">>, S>>}
ToMount == {Job(c, a, M, TRUE, FALSE, t, M) :
               c \in {"cp", "mv"}, a \in {<<S>>} \cup Two, t \in Trees}
SameDevice == {Job("mv", <<S>>, M, FALSE, FALSE, t, O) : t \in Trees}
PlainCopy == {Job("cp", <<S>>, <<"m", "t">>, FALSE, FALSE, Base @@ s, M) : s \in Sources}
Removals == {Job("rm", a, <<>>, r, f, Base @@ s, m) :
               a \in {<<S>>, <<<<"nothing">>, S>>, <<<<"s", ".">>>>}, r \in BOOLEAN, f \in BOOLEAN,
               s \in Sources, m \in {M, <<"s", "y">>}}
\* Into itself; a device mounted below what is moved.
Directories == {s \in Sources : s[S].kind = "dir"}
Itself == {Job("cp", <<S>>, d, TRUE, FALSE, Base @@ s, M) : d \in {S, <<"s", "y">>}, s \in Directories}
    \cup {Job("mv", <<S>>, <<"s", "y">>, TRUE, FALSE, Base @@ s, <<"s", "y">>) : s \in Directories}

\* A link in the way names nothing that is read, neither a source nor what a
\* link among the sources names (but see AliasJobs).
ReadRoots(j) == ToSet(j.args) \cup {j.tree[q].body :
    q \in {q \in DOMAIN j.tree : /\ \E i \in DOMAIN j.args : IsPrefix(j.args[i], q)
                                 /\ j.tree[q].kind = "link"}}
NoAlias(j) == \A q \in DOMAIN j.tree : \A p \in ReadRoots(j) :
                 IsPrefix(M, q) /\ j.tree[q].kind = "link" => ~IsPrefix(p, j.tree[q].body)

MCJobs == {j \in ToMount \cup SameDevice \cup PlainCopy \cup Removals \cup Itself :
               /\ j.mount \in DOMAIN j.tree /\ j.tree[j.mount].kind = "dir"
               /\ NoAlias(j)}

\* The destination is a link to the source.
AliasJobs == {Job(c, <<<<"s", "x">>>>, M, FALSE, FALSE,
                  Base @@ (S :> Dir) @@ (<<"s", "x">> :> F("x")) @@ (<<"m", "x">> :> L(<<"s", "x">>)), M) :
                 c \in {"cp", "mv"}}
=============================================================================
