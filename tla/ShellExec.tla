------------------------------ MODULE ShellExec ------------------------------
(* runcmd() of src/programs/sh/sh.c: the recursive walk of a parse tree by   *)
(* processes that share pipes, over the kernel's fork, vfork, exec, wait,    *)
(* pipe, dup, close and exit.                                                *)
(*                                                                           *)
(* A node of a tree is the path that leads to it: the command line is <<>>,  *)
(* and a pipe, list, background or redirected command has its commands on    *)
(* its left and right.  Every fork in runcmd() is made to run one node, so a *)
(* process is named by that node.                                            *)
(* The calls one process makes on its own descriptors between two calls      *)
(* others can notice are one step.                                           *)
EXTENDS Integers, SequencesExt

CONSTANTS Node,       \* the nodes of the trees
          Lines,      \* command lines, each with the build that runs it
          PipeCap,    \* chunks a pipe holds
          Chunks,     \* bound: chunks a generator writes
          MaxFails    \* bound: fork() and open() calls that fail

Root == <<>>
Left(n)  == Append(n, "left")
Right(n) == Append(n, "right")

Programs == {"gen", "cat", "head"}           \* what a command line may run
Binary == {"PIPE", "LIST"}
Unary  == {"BACK", "OUT", "IN"}
Kinds == Programs \cup Binary \cup Unary \cup {"noexec", "none"}

ASSUME ShellExecAssumption ==
    /\ Node \subseteq Seq({"left", "right"}) /\ Root \in Node
    /\ Lines \subseteq [tree : [Node -> Kinds], vfork : BOOLEAN]
    /\ \A l \in Lines : \A n \in Node :
          /\ l.tree[n] \in Binary \cup Unary => Left(n) \in Node
          /\ l.tree[n] \in Binary => Right(n) \in Node
    /\ PipeCap \in Nat \ {0} /\ Chunks \in Nat /\ MaxFails \in Nat

Shell == <<"shell">>
InitProc == <<"init">>
Proc == {Shell} \cup Node
Fd == 0 .. 6

(* What a descriptor refers to: the terminal, a file named on node n, or an  *)
(* end of the pipe made by node n.                                           *)
Closed == <<"closed", Root>>
Tty    == <<"tty", Root>>
RdEnd(n) == <<"rd", n>>
WrEnd(n) == <<"wr", n>>
File(n) == <<"file", n>>

VARIABLES
    line,      \* the command line
    state,     \* "none", "run", "vforking" (in vfork), "zombie", "gone"
    parent,
    at,        \* the node a process is at
    pc,        \* the statement of runcmd(), or "prog" after exec
    fd,        \* descriptor tables
    p,         \* runcmd()'s local `int p[2]`
    pipe,      \* chunks in the pipe of a node
    todo,      \* chunks a program has still to write
    fails

(* The kind of each node, and what shell_fork() is: vfork() unless the build *)
(* defines USE_NCURSES_SHELL.                                                *)
kind == line.tree
UseVfork == line.vfork

vars == <<line, state, parent, at, pc, fd, p, pipe, todo, fails>>

Init ==
    /\ line \in Lines
    /\ state = [q \in Proc |-> IF q = Shell THEN "run" ELSE "none"]
    /\ parent = [q \in Proc |-> InitProc]
    /\ at = [q \in Proc |-> Root]
    /\ pc = [q \in Proc |-> "run_line"]
    /\ fd = [q \in Proc |-> [i \in Fd |-> IF q = Shell /\ i \in 0 .. 2
                                          THEN Tty ELSE Closed]]
    /\ p = [q \in Proc |-> [rd |-> 0, wr |-> 0]]
    /\ pipe = [n \in Node |-> 0]
    /\ todo = [q \in Proc |-> 0]
    /\ fails = 0

-----------------------------------------------------------------------------
(* The kernel *)

Lowest(table) == CHOOSE i \in Fd : /\ table[i] = Closed
                                   /\ \A j \in Fd : j < i => table[j] # Closed
OpenAt(table, d) == [table EXCEPT ![Lowest(table)] = d]
CloseFd(table, i) == [table EXCEPT ![i] = Closed]

Alive(q) == state[q] \in {"run", "vforking"}
Holds(q, d) == \E i \in Fd : fd[q][i] = d
SomeoneHolds(d) == \E q \in Proc : Alive(q) /\ Holds(q, d)

(* A vfork parent sleeps until its child execs or exits. *)
Awake(s, q) == IF UseVfork /\ parent[q] # InitProc /\ s[parent[q]] = "vforking"
               THEN [s EXCEPT ![parent[q]] = "run"] ELSE s

(* fork or vfork of process q to run node n; the parent's call may fail.     *)
Fork(q, n, childPc, parentPc, vforks) ==
    /\ state[q] = "run" /\ state[n] = "none"
    /\ state' = [state EXCEPT ![n] = "run", ![q] = IF vforks THEN "vforking" ELSE "run"]
    /\ parent' = [parent EXCEPT ![n] = q]
    /\ at' = [at EXCEPT ![n] = n]
    /\ pc' = [pc EXCEPT ![n] = childPc, ![q] = parentPc]
    /\ fd' = [fd EXCEPT ![n] = fd[q]]
    /\ p' = [p EXCEPT ![n] = p[q]]
    /\ UNCHANGED <<line, pipe, todo, fails>>

(* exit(): descriptors close, children go to init, a vfork parent wakes.     *)
Exit(q) ==
    /\ state' = [c \in Proc |->
                   CASE c = q -> IF parent[q] = InitProc THEN "gone" ELSE "zombie"
                     [] parent[c] = q /\ state[c] = "zombie" -> "gone"
                     [] OTHER -> Awake(state, q)[c]]
    /\ parent' = [c \in Proc |-> IF parent[c] = q THEN InitProc ELSE parent[c]]
    /\ fd' = [fd EXCEPT ![q] = [i \in Fd |-> Closed]]
    /\ pc' = [pc EXCEPT ![q] = "exited"]
    /\ todo' = [todo EXCEPT ![q] = 0]
    /\ UNCHANGED <<line, at, p>>

(* wait(0): any child that has exited, and -1 at once without children.      *)
Wait(q, next) ==
    /\ state[q] = "run"
    /\ \/ \E c \in Proc : /\ parent[c] = q /\ state[c] = "zombie"
                          /\ state' = [state EXCEPT ![c] = "gone"]
       \/ /\ \A c \in Proc : parent[c] = q => state[c] \in {"none", "gone"}
          /\ UNCHANGED state
    /\ pc' = [pc EXCEPT ![q] = next]
    /\ UNCHANGED <<line, parent, at, fd, p, pipe, todo, fails>>

-----------------------------------------------------------------------------
(* runcmd() *)

Running(q, stmt) == state[q] = "run" /\ pc[q] = stmt
Meets(q, k) == Running(q, "runcmd") /\ kind[at[q]] = k

(* A system call of runcmd() fails: panic(), or a message and exit(1).       *)
Dies(q) == /\ fails < MaxFails /\ fails' = fails + 1
           /\ Exit(q) /\ UNCHANGED pipe

SetFds(q, table) == fd' = [fd EXCEPT ![q] = table]
Goto(q, stmt) == pc' = [pc EXCEPT ![q] = stmt]

(* run_pipe_left, run_pipe_right: put one end on descriptor 1 or 0.          *)
(* Mutant: the write end stays open. *)
AfterPipeSetupLeak(table, i, ends, end) ==
    CloseFd(OpenAt(CloseFd(table, i), table[end]), ends.rd)

AfterPipeSetup(table, i, ends, end) ==
    CloseFd(CloseFd(OpenAt(CloseFd(table, i), table[end]), ends.rd), ends.wr)

(* Mutant: the ends are closed before one is duplicated. *)
RunPipeLeftCloseFirst(q) ==
    /\ Running(q, "run_pipe_left")
    /\ SetFds(q, CloseFd(CloseFd(CloseFd(fd[q], 1), p[q].rd), p[q].wr))
    /\ Goto(q, "runcmd")
    /\ UNCHANGED <<line, state, parent, at, p, pipe, todo, fails>>

RunPipeLeft(q) ==
    /\ Running(q, "run_pipe_left")
    /\ SetFds(q, AfterPipeSetup(fd[q], 1, p[q], p[q].wr))
    /\ Goto(q, "runcmd")
    /\ UNCHANGED <<line, state, parent, at, p, pipe, todo, fails>>

RunPipeRight(q) ==
    /\ Running(q, "run_pipe_right")
    /\ SetFds(q, AfterPipeSetup(fd[q], 0, p[q], p[q].rd))
    /\ Goto(q, "runcmd")
    /\ UNCHANGED <<line, state, parent, at, p, pipe, todo, fails>>

(* REDIR: close the descriptor and count on open() to give it back.          *)
Redirect(q) ==
    /\ Meets(q, "OUT") \/ Meets(q, "IN")
    /\ LET n == at[q]
           i == IF kind[n] = "OUT" THEN 1 ELSE 0
       IN \/ /\ SetFds(q, OpenAt(CloseFd(fd[q], i), File(n)))
             /\ at' = [at EXCEPT ![q] = Left(n)]
             /\ UNCHANGED <<line, state, parent, pc, p, pipe, todo, fails>>
          \/ Dies(q)

(* Mutant: the left command is not waited for. *)
ListNoWait(q) ==
    \/ Meets(q, "LIST") /\ Fork(q, Left(at[q]), "runcmd", "list_right", UseVfork)
    \/ /\ Running(q, "list_right")
       /\ at' = [at EXCEPT ![q] = Right(at[q])] /\ Goto(q, "runcmd")
       /\ UNCHANGED <<line, state, parent, fd, p, pipe, todo, fails>>

List(q) ==
    \/ Meets(q, "LIST") /\ Fork(q, Left(at[q]), "runcmd", "list_wait", UseVfork)
    \/ Meets(q, "LIST") /\ Dies(q)
    \/ Running(q, "list_wait") /\ Wait(q, "list_right")
    \/ /\ Running(q, "list_right")
       /\ at' = [at EXCEPT ![q] = Right(at[q])] /\ Goto(q, "runcmd")
       /\ UNCHANGED <<line, state, parent, fd, p, pipe, todo, fails>>

MakePipe(q) ==
    /\ Meets(q, "PIPE")
    /\ LET n == at[q]
           t == OpenAt(fd[q], RdEnd(n))
       IN /\ SetFds(q, OpenAt(t, WrEnd(n)))
          /\ p' = [p EXCEPT ![q] = [rd |-> Lowest(fd[q]), wr |-> Lowest(t)]]
    /\ Goto(q, "fork_left")
    /\ UNCHANGED <<line, state, parent, at, pipe, todo, fails>>

ForkLeft(q) ==
    /\ Running(q, "fork_left")
    /\ Fork(q, Left(at[q]), "run_pipe_left", "fork_right", UseVfork) \/ Dies(q)

ForkRight(q) ==
    /\ Running(q, "fork_right")
    /\ Fork(q, Right(at[q]), "run_pipe_right", "close_ends", UseVfork) \/ Dies(q)


CloseEnds(q) ==
    /\ Running(q, "close_ends")
    /\ SetFds(q, CloseFd(CloseFd(fd[q], p[q].rd), p[q].wr))
    /\ Goto(q, "wait1")
    /\ UNCHANGED <<line, state, parent, at, p, pipe, todo, fails>>

(* Mutant: one wait for two children. *)
PipeWaitOnce(q) == Running(q, "wait1") /\ Wait(q, "return")

PipeWait(q) == \/ Running(q, "wait1") /\ Wait(q, "wait2")
               \/ Running(q, "wait2") /\ Wait(q, "return")

Back(q) ==
    /\ Meets(q, "BACK")
    /\ Fork(q, Left(at[q]), "runcmd", "return", UseVfork) \/ Dies(q)

(* Mutant: a child returns into the loop of the shell. *)
ReturnToMain(q) ==
    /\ Running(q, "return") /\ Goto(q, "run_line")
    /\ UNCHANGED <<line, state, parent, at, fd, p, pipe, todo, fails>>

(* The end of runcmd(): exit(0). *)
Return(q) == Running(q, "return") /\ Exit(q) /\ UNCHANGED <<pipe, fails>>

(* EXEC: the program replaces the shell, or exit(127). *)
Exec(q) ==
    \/ /\ Running(q, "runcmd") /\ kind[at[q]] \in Programs
       /\ Goto(q, "prog")
       /\ state' = Awake(state, q)
       /\ todo' = [todo EXCEPT ![q] = IF kind[at[q]] = "gen" THEN Chunks ELSE 0]
       /\ UNCHANGED <<line, parent, at, fd, p, pipe, fails>>
    \/ Meets(q, "noexec") /\ Exit(q) /\ UNCHANGED <<pipe, fails>>

-----------------------------------------------------------------------------
(* The programs, which only read descriptor 0 and write descriptor 1: gen    *)
(* writes Chunks chunks, cat copies until end of file, head copies one.      *)

IsProg(q) == Running(q, "prog")
ProgExit(q) == Exit(q) /\ UNCHANGED <<pipe, fails>>

Write(q) ==
    LET d == fd[q][1] IN
    /\ IsProg(q) /\ todo[q] > 0
    /\ \/ /\ d[1] = "wr" /\ SomeoneHolds(RdEnd(d[2])) /\ pipe[d[2]] < PipeCap
          /\ pipe' = [pipe EXCEPT ![d[2]] = @ + 1]
       \/ d[1] # "wr" /\ UNCHANGED pipe
    /\ IF kind[at[q]] = "head"
       THEN Exit(q) /\ UNCHANGED fails
       ELSE /\ todo' = [todo EXCEPT ![q] = @ - 1]
            /\ UNCHANGED <<line, state, parent, at, pc, fd, p, fails>>

(* No reader is left: SIGPIPE. *)
BrokenPipe(q) ==
    LET d == fd[q][1] IN
    /\ IsProg(q) /\ todo[q] > 0
    /\ d[1] = "wr" /\ ~SomeoneHolds(RdEnd(d[2]))
    /\ ProgExit(q)

Read(q) ==
    LET d == fd[q][0] IN
    /\ IsProg(q) /\ todo[q] = 0 /\ kind[at[q]] \in {"cat", "head"}
    /\ d[1] = "rd" /\ pipe[d[2]] > 0
    /\ pipe' = [pipe EXCEPT ![d[2]] = @ - 1]
    /\ todo' = [todo EXCEPT ![q] = 1]
    /\ UNCHANGED <<line, state, parent, at, pc, fd, p, fails>>

(* End of file: an empty pipe without writers; terminals and files are empty *)
EndOfFile(q) ==
    LET d == fd[q][0] IN
    /\ IsProg(q) /\ todo[q] = 0 /\ kind[at[q]] \in {"cat", "head"}
    /\ d[1] = "rd" => pipe[d[2]] = 0 /\ ~SomeoneHolds(WrEnd(d[2]))
    /\ ProgExit(q)

GenDone(q) == /\ IsProg(q) /\ todo[q] = 0 /\ kind[at[q]] = "gen"
              /\ ProgExit(q)

-----------------------------------------------------------------------------
(* run_line(): the shell forks for the whole line and waits for that child.  *)

(* Mutant: the shell prompts without waiting. *)
RunLineNoWait ==
    /\ Running(Shell, "run_line")
    /\ Fork(Shell, Root, "runcmd", "prompt", FALSE)

RunLine ==
    \/ /\ Running(Shell, "run_line")
       /\ Fork(Shell, Root, "runcmd", "waitpid", FALSE)
    \/ /\ Running(Shell, "waitpid") /\ state[Root] = "zombie"
       /\ state' = [state EXCEPT ![Root] = "gone"]
       /\ Goto(Shell, "prompt")
       /\ UNCHANGED <<line, parent, at, fd, p, pipe, todo, fails>>

Step(q) ==
    \/ RunPipeLeft(q) \/ RunPipeRight(q) \/ Redirect(q) \/ List(q)
    \/ MakePipe(q) \/ ForkLeft(q) \/ ForkRight(q) \/ CloseEnds(q) \/ PipeWait(q)
    \/ Back(q) \/ Return(q) \/ Exec(q)
    \/ Write(q) \/ BrokenPipe(q) \/ Read(q) \/ EndOfFile(q) \/ GenDone(q)

Next == RunLine \/ \E q \in Node : Step(q)

Spec == Init /\ [][Next]_vars

(* The kernel schedules every process that can take a step. *)
FairSpec == Spec /\ WF_vars(RunLine) /\ \A q \in Node : WF_vars(Step(q))

-----------------------------------------------------------------------------
(* What the command line means, read off the tree and not off the processes. *)

Ancestors(n) == {m \in Node : IsPrefix(m, n)}        \* with n itself
Subtree(n) == {m \in Node : n \in Ancestors(m)}
Above(n) == kind[Front(n)]
IsLeft(n) == Last(n) = "left"

Binds(n, i) == \/ i = 1 /\ Above(n) = "OUT"
               \/ i = 0 /\ Above(n) = "IN"
               \/ i = 1 /\ Above(n) = "PIPE" /\ IsLeft(n)
               \/ i = 0 /\ Above(n) = "PIPE" /\ ~IsLeft(n)

Bound(n, i) == IF Above(n) # "PIPE" THEN File(Front(n))
               ELSE IF i = 1 THEN WrEnd(Front(n)) ELSE RdEnd(Front(n))

(* The innermost redirection or pipe around a node gives it descriptor i. *)
Expected(n, i) ==
    LET B == {a \in Ancestors(n) \ {Root} : Binds(a, i)}
    IN  IF B = {} THEN Tty ELSE Bound(CHOOSE a \in B : B \subseteq Ancestors(a), i)

(* Some BACK strictly inside node m puts n into the background. *)
InBackground(n, m) == \E a \in Ancestors(n) : a # m /\ m \in Ancestors(a) /\ Above(a) = "BACK"

TypeOK ==
    /\ line \in [tree : [Node -> Kinds], vfork : BOOLEAN]
    /\ state \in [Proc -> {"none", "run", "vforking", "zombie", "gone"}]
    /\ parent \in [Proc -> Proc \cup {InitProc}]
    /\ at \in [Proc -> Node]
    /\ pipe \in [Node -> 0 .. PipeCap]
    /\ todo \in [Proc -> 0 .. (Chunks + 1)]
    /\ p \in [Proc -> [rd : Fd, wr : Fd]]
    /\ pc[Shell] \in {"run_line", "waitpid", "prompt"}
    /\ \A q \in Node : Alive(q) =>
          pc[q] \in {"runcmd", "run_pipe_left", "run_pipe_right", "list_wait",
                    "list_right", "fork_left", "fork_right", "close_ends",
                    "wait1", "wait2", "return", "prog"}

(* When a program starts, whatever pipes and redirections nest around it,    *)
(* its descriptors 0 and 1 are the innermost ones the line gives it, 2 is    *)
(* the terminal and no pipe end is left open beside them (sh.c:1855-1872,    *)
(* 1940-1948, 1961-1979).                                                    *)
Wired ==
    \A q \in Node : IsProg(q) =>
        fd[q] = [i \in Fd |-> CASE i \in {0, 1} -> Expected(at[q], i)
                               [] i = 2 -> Tty
                               [] OTHER -> Closed]

(* The shell comes back to its prompt only when every command of the line    *)
(* that is not in the background has ended; a failed fork or open may leave  *)
(* some behind (sh.c:1950-1988, 2280-2290).                                  *)
LineFinished ==
    pc[Shell] = "prompt" /\ fails = 0 =>
        \A q \in Node : Alive(q) => InBackground(at[q], Root)

(* `a ; b': b starts only when all of a that is not in the background has    *)
(* ended, whatever the tree of a (sh.c:1950-1959).                           *)
ListInOrder ==
    \A n \in Node : \A q, r \in Node :
        /\ kind[n] = "LIST" /\ fails = 0
        /\ state[q] # "none" /\ at[q] \in Subtree(Right(n))
        /\ Alive(r) /\ at[r] \in Subtree(Left(n))
        => InBackground(at[r], Left(n))

(* A reader sees end of file only when no process that writes to its pipe,   *)
(* or that will start one, is left; a writer is stopped by SIGPIPE only when *)
(* the readers of its pipe have all ended, never because they have not       *)
(* started yet (sh.c:1961-1979).                                             *)
NoWriterLeft(q) ==
    \A r, n \in Node : Alive(r) /\ fd[q][0] = RdEnd(n) =>
        /\ Expected(at[r], 1) # WrEnd(n)
        /\ at[r] = n => pc[r] \notin {"fork_left", "fork_right", "close_ends"}
NoReaderLeft(q) ==
    \A r, n \in Node : Alive(r) /\ fd[q][1] = WrEnd(n) => Expected(at[r], 0) # RdEnd(n)
PipesEndInTime ==
    [][\A q \in Node : /\ EndOfFile(q) => NoWriterLeft(q)
                       /\ BrokenPipe(q) => NoReaderLeft(q)]_vars

(* The line ends: the shell prompts again, and in the end every process has  *)
(* been waited for (sh.c:1892-1988; "vfork-safe wrappers", sh.c:1851).       *)
Terminates == <>(pc[Shell] = "prompt")
AllReaped == <>[](\A q \in Node : state[q] \in {"none", "gone"})
=============================================================================
