----------------------------- MODULE MCShellExec -----------------------------
(* Command lines of two levels of operators, each run with fork() or vfork(). *)
EXTENDS ShellExec

MCNode == {Root, <<"left">>, <<"right">>, <<"left", "left">>, <<"left", "right">>,
           <<"right", "left">>, <<"right", "right">>}

Leaves(progs) == [k : progs, l : {"none"}, r : {"none"}]
Subs(progs) ==
    Leaves(progs) \cup [k : Binary, l : progs, r : progs]
                  \cup [k : Unary, l : progs, r : {"none"}]
Nothing == [k |-> "none", l |-> "none", r |-> "none"]

Line(top, x, y) ==
    [n \in Node |-> CASE n = Root -> top
                      [] n = <<"left">> -> x.k
                      [] n = <<"left", "left">> -> x.l
                      [] n = <<"left", "right">> -> x.r
                      [] n = <<"right">> -> y.k
                      [] n = <<"right", "left">> -> y.l
                      [] n = <<"right", "right">> -> y.r]

LinesOver(progs) ==
    {Line(top, x, y) : top \in Binary, x \in Subs(progs), y \in Subs(progs)}
    \cup {Line(top, x, Nothing) : top \in Unary, x \in Subs(progs)}

Under(trees, builds) == [tree : trees, vfork : builds]

(* Generators only on the left, so that they have a reader in a pipe, and     *)
(* head only on the right.                                                   *)
Sided(trees) == {l \in trees : \A n \in Node : /\ l[n] = "gen" => n # Root /\ IsLeft(n)
                                               /\ l[n] = "head" => n # Root /\ ~IsLeft(n)}

(* fork() lets more processes run at once than vfork() does. *)
SafetyLines == Under(LinesOver({"gen", "cat", "head"}), {TRUE})
    \cup Under(Sided(LinesOver({"gen", "cat", "head"})) \cup LinesOver({"cat", "head"}), {FALSE})

FailingTrees == Sided(LinesOver({"gen", "cat"}))
    \cup {Line(top, x, y) : top \in Binary, x, y \in Leaves({"gen", "noexec"})}

(* Trees in which no pipe has a pipe, a list or a background command below it. *)
FlatTrees == {l \in FailingTrees : \A n \in Node : l[n] = "PIPE" =>
                  \A m \in {Left(n), Right(n)} : l[m] \notin {"PIPE", "LIST", "BACK"}}

(* With vfork() the other pipelines do not end: see PipelineLines. *)
FailingLines == Under(FailingTrees, {FALSE}) \cup Under(FlatTrees, {TRUE})

(* Pipelines alone, of up to four generators and copiers, with vfork(). *)
PipelineLines ==
    LET S == Leaves({"gen", "cat"}) \cup [k : {"PIPE"}, l : {"gen", "cat"}, r : {"cat"}]
    IN  Under({Line("PIPE", x, y) : x \in S, y \in S}, {TRUE})
=============================================================================
