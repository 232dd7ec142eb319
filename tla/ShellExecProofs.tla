--------------------------- MODULE ShellExecProofs ---------------------------
(* The safety of runcmd(), for every command line and every depth of its      *)
(* tree: what each process has open, and which commands have ended.           *)
EXTENDS ShellExec, SequenceTheorems, TLAPS

-----------------------------------------------------------------------------
(* The invariant *)

Started(q) == state[q] # "none"
Ended(q)   == state[q] \in {"zombie", "gone"}
Pending(q, c) == parent[c] = q /\ state[c] \notin {"none", "gone"}

Statements == {"run_line", "waitpid", "prompt", "runcmd", "run_pipe_left",
               "run_pipe_right", "list_wait", "list_right", "fork_left", "fork_right",
               "close_ends", "wait1", "wait2", "return", "prog", "exited"}

Types ==
    /\ line \in Lines
    /\ state \in [Proc -> {"none", "run", "vforking", "zombie", "gone"}]
    /\ parent \in [Proc -> Proc \cup {InitProc}]
    /\ at \in [Proc -> Node]
    /\ pc \in [Proc -> Statements]
    /\ fd \in [Proc -> [Fd -> {"closed", "tty", "rd", "wr", "file"} \X Node]]
    /\ p \in [Proc -> [rd : Fd, wr : Fd]]
    /\ pipe \in [Node -> 0 .. PipeCap]
    /\ todo \in [Proc -> 0 .. (Chunks + 1)]
    /\ fails \in Nat

(* A process moves down from the node it was made for, through nodes nobody   *)
(* is made for, and every node above it has been passed by someone.           *)
Placed ==
    \A q \in Node : Started(q) =>
        /\ q \in Ancestors(at[q])
        /\ \A m \in Ancestors(at[q]) : q \in Ancestors(m) /\ m # q => ~Started(m)
        /\ \A m \in Ancestors(q) \ {q} :
              \E o \in Ancestors(m) : Started(o) /\ m \in Ancestors(at[o])

(* The commands of its node that a process has still to start.                *)
Ahead ==
    \A q \in Node : Alive(q) =>
        /\ pc[q] \in {"runcmd", "run_pipe_left", "run_pipe_right", "fork_left"} =>
              \A c \in Node \cap {Left(at[q]), Right(at[q])} : ~Started(c)
        /\ pc[q] \in {"list_wait", "list_right", "fork_right"} =>
              \A c \in Node \cap {Right(at[q])} : ~Started(c)

(* Where a process is in runcmd(), and the kind of its node there.            *)
InPlace(q) ==
    /\ pc[q] \in {"runcmd", "run_pipe_left", "run_pipe_right", "list_wait",
                  "list_right", "fork_left", "fork_right", "close_ends",
                  "wait1", "wait2", "return", "prog"}
    /\ pc[q] = "run_pipe_left" =>
          at[q] = q /\ \E n \in Node : q = Left(n) /\ kind[n] = "PIPE"
    /\ pc[q] = "run_pipe_right" =>
          at[q] = q /\ \E n \in Node : q = Right(n) /\ kind[n] = "PIPE"
    /\ pc[q] \in {"list_wait", "list_right"} => kind[at[q]] = "LIST"
    /\ pc[q] \in {"fork_left", "fork_right", "close_ends", "wait1", "wait2"} =>
          kind[at[q]] = "PIPE"
    /\ pc[q] = "return" => kind[at[q]] \in {"PIPE", "BACK"}

ShellInPlace ==
    /\ pc[Shell] \in {"run_line", "waitpid", "prompt"}
    /\ state[Shell] = "run"
    /\ pc[Shell] = "run_line" => ~Started(Root)
    /\ pc[Shell] = "waitpid" => Started(Root)
    /\ pc[Shell] = "prompt" => Ended(Root)

Located == ShellInPlace /\ \A q \in Node : Alive(q) => InPlace(q)

(* The children a process has still to wait for are the ones of its node.     *)
WaitsFor(q) ==
    /\ \A c \in Node : Pending(q, c) =>
          /\ \/ c = Left(at[q]) /\ pc[q] \in {"list_wait", "fork_right"}
             \/ /\ c \in {Left(at[q]), Right(at[q])}
                /\ pc[q] \in {"close_ends", "wait1", "wait2"}
             \/ c = Left(at[q]) /\ pc[q] = "return" /\ kind[at[q]] = "BACK"
          /\ pc[q] = "wait2" => \A d \in Node : Pending(q, d) => d = c
    /\ pc[q] = "list_wait" => parent[Left(at[q])] = q /\ Started(Left(at[q]))
    /\ pc[q] = "list_right" => Ended(Left(at[q]))

ParentsLive == \A c \in Node : parent[c] \in Node => Alive(parent[c])

Waiting == ParentsLive /\ \A q \in Node : Alive(q) => WaitsFor(q)

(* `a ; b': who is in b finds a ended.                                        *)
LeftFirst ==
    \A n, q \in Node : kind[n] = "LIST" /\ Started(q) /\ Right(n) \in Ancestors(at[q])
        => Ended(Left(n))

(* Below a process run only what it has still to wait for and what a BACK     *)
(* has detached from it; once it has ended, the latter alone.                 *)
Nested ==
    fails = 0 => \A q, r \in Node :
        Started(q) /\ Alive(r) /\ q \in Ancestors(r) /\ q # r =>
            \/ InBackground(r, q)
            \/ Alive(q) /\ \E c \in Ancestors(r) : Pending(q, c)

(* The descriptors at a node, and with both ends of its pipe beside them.     *)
Plain(n) == [i \in Fd |-> CASE i \in {0, 1} -> Expected(n, i)
                            [] i = 2 -> Tty
                            [] OTHER -> Closed]
Piped(n) == [Plain(n) EXCEPT ![3] = RdEnd(n), ![4] = WrEnd(n)]

WellOpen(q) ==
    /\ pc[q] \in {"fork_left", "fork_right", "close_ends"} => fd[q] = Piped(at[q])
    /\ pc[q] \in {"run_pipe_left", "run_pipe_right"} => fd[q] = Piped(Front(q))
    /\ pc[q] \in {"fork_left", "fork_right", "close_ends", "run_pipe_left", "run_pipe_right"}
          => p[q] = [rd |-> 3, wr |-> 4]
    /\ pc[q] \in {"runcmd", "list_wait", "list_right", "wait1", "wait2", "return", "prog"}
          => fd[q] = Plain(at[q])

Opened ==
    /\ fd[Shell] = Plain(Root)
    /\ \A q \in Node : Alive(q) => WellOpen(q)

(* All but the types and the descriptors.                                     *)
Walked == Placed /\ Ahead /\ Located /\ Waiting /\ LeftFirst /\ Nested

IInv == Types /\ Walked /\ Opened

-----------------------------------------------------------------------------
(* The order of the nodes *)

Side == {"left", "right"}

LEMMA Prefix ==
    ASSUME NEW s \in Seq(Side), NEW t \in Seq(Side)
    PROVE  IsPrefix(s, t) <=> Len(s) <= Len(t) /\ \A i \in 1 .. Len(s) : s[i] = t[i]
  <1> DEFINE u == SubSeq(s, 1, Len(s))
             v == SubSeq(t, 1, Len(s))
  <1>1. Len(s) \in Nat /\ Len(t) \in Nat OBVIOUS
  <1>2. SUFFICES ASSUME Len(s) <= Len(t)
                 PROVE  u = v <=> \A i \in 1 .. Len(s) : s[i] = t[i]
    BY DEF IsPrefix
  <1>3. u \in Seq(Side) /\ Len(u) = Len(s) /\ \A i \in 1 .. Len(s) : u[i] = s[i]
    BY <1>1, SubSeqProperties
  <1>4. v \in Seq(Side) /\ Len(v) = Len(s) /\ \A i \in 1 .. Len(s) : v[i] = t[i]
    BY <1>1, <1>2, SubSeqProperties
  <1> HIDE DEF u, v
  <1>5. (\A i \in 1 .. Len(s) : s[i] = t[i]) => u = v
    BY <1>3, <1>4, SeqEqual
  <1>6. QED BY <1>3, <1>4, <1>5

LEMMA NodeIsSeq == Node \subseteq Seq(Side) /\ Root \in Node
  BY ShellExecAssumption DEF Side

LEMMA AncestorOf ==
    ASSUME NEW m \in Node, NEW n \in Node
    PROVE  m \in Ancestors(n) <=> Len(m) <= Len(n) /\ \A i \in 1 .. Len(m) : m[i] = n[i]
  BY NodeIsSeq, Prefix DEF Ancestors

LEMMA AncestorsAreNodes ==
    ASSUME NEW n, NEW m \in Ancestors(n)
    PROVE  m \in Node
  BY DEF Ancestors

LEMMA AncestorSelf ==
    ASSUME NEW n \in Node
    PROVE  n \in Ancestors(n)
  BY AncestorOf, NodeIsSeq

LEMMA AncestorTrans ==
    ASSUME NEW n \in Node, NEW m \in Ancestors(n), NEW a \in Ancestors(m)
    PROVE  a \in Ancestors(n)
  <1>1. a \in Node /\ m \in Node BY AncestorsAreNodes
  <1>2. Len(a) \in Nat /\ Len(m) \in Nat /\ Len(n) \in Nat BY <1>1, NodeIsSeq
  <1>3. QED BY <1>1, <1>2, AncestorOf

LEMMA AncestorAntisym ==
    ASSUME NEW n \in Node, NEW m \in Ancestors(n), n \in Ancestors(m)
    PROVE  m = n
  <1>1. m \in Node /\ m \in Seq(Side) /\ n \in Seq(Side) BY AncestorsAreNodes, NodeIsSeq
  <1>2. Len(m) = Len(n) /\ \A i \in 1 .. Len(m) : m[i] = n[i] BY <1>1, AncestorOf
  <1>3. QED BY <1>1, <1>2, SeqEqual

LEMMA AncestorsInLine ==
    ASSUME NEW n \in Node, NEW a \in Ancestors(n), NEW b \in Ancestors(n)
    PROVE  a \in Ancestors(b) \/ b \in Ancestors(a)
  <1>1. a \in Node /\ b \in Node BY AncestorsAreNodes
  <1>2. Len(a) \in Nat /\ Len(b) \in Nat /\ Len(n) \in Nat BY <1>1, NodeIsSeq
  <1>3. QED BY <1>1, <1>2, AncestorOf

LEMMA AncestorRoot ==
    ASSUME NEW n \in Node
    PROVE  Root \in Ancestors(n) /\ Ancestors(Root) = {Root}
  <1>1. Len(Root) = 0 BY DEF Root
  <1>2. Root \in Ancestors(n) /\ Root \in Ancestors(Root)
    BY <1>1, AncestorOf, NodeIsSeq
  <1>3. ASSUME NEW m \in Ancestors(Root) PROVE m = Root
    <2>1. m \in Node BY AncestorsAreNodes
    <2>2. Root \in Ancestors(m) BY <1>1, <2>1, AncestorOf, NodeIsSeq
    <2>3. QED BY <1>3, <2>1, <2>2, AncestorAntisym, NodeIsSeq
  <1>4. QED BY <1>2, <1>3

LEMMA Longer ==
    ASSUME NEW n \in Node, NEW c \in Node,
           Len(c) = Len(n) + 1, \A i \in 1 .. Len(n) : c[i] = n[i]
    PROVE  /\ c \notin Ancestors(n)
           /\ Ancestors(c) = Ancestors(n) \cup {c}
  <1>1. Len(n) \in Nat /\ n \in Seq(Side) /\ c \in Seq(Side) BY NodeIsSeq
  <1>2. c \notin Ancestors(n) BY <1>1, AncestorOf
  <1>3. ASSUME NEW m \in Ancestors(c) PROVE m \in Ancestors(n) \/ m = c
    <2>1. m \in Node /\ m \in Seq(Side) /\ Len(m) \in Nat BY AncestorsAreNodes, NodeIsSeq
    <2>2. Len(m) <= Len(c) /\ \A i \in 1 .. Len(m) : m[i] = c[i] BY <2>1, AncestorOf
    <2>3. CASE Len(m) = Len(c) BY <1>1, <2>1, <2>2, <2>3, SeqEqual
    <2>4. CASE Len(m) <= Len(n)
      <3>1. \A i \in 1 .. Len(m) : i \in 1 .. Len(n) BY <1>1, <2>1, <2>4
      <3>2. \A i \in 1 .. Len(m) : m[i] = n[i] BY <2>2, <3>1
      <3>3. QED BY <2>1, <2>4, <3>2, AncestorOf
    <2>5. QED BY <1>1, <2>1, <2>2, <2>3, <2>4
  <1>4. n \in Ancestors(c) BY <1>1, AncestorOf
  <1>5. Ancestors(n) \subseteq Ancestors(c) BY <1>4, AncestorTrans
  <1>6. QED BY <1>2, <1>3, <1>5, AncestorSelf

(* One step down: the left and the right command of a node.                   *)
LEMMA Child ==
    ASSUME NEW n \in Node, NEW s \in Side, NEW c \in Node, c = Append(n, s)
    PROVE  /\ Front(c) = n /\ Last(c) = s /\ c # Root
           /\ c \notin Ancestors(n)
           /\ Ancestors(c) = Ancestors(n) \cup {c}
  <1>1. n \in Seq(Side) /\ c \in Seq(Side) /\ Len(n) \in Nat BY NodeIsSeq
  <1>2. Len(c) = Len(n) + 1 /\ (\A i \in 1 .. Len(n) : c[i] = n[i]) /\ c[Len(n) + 1] = s
    BY <1>1, AppendProperties
  <1>3. Front(c) = n
    <2>1. Front(c) = SubSeq(c, 1, Len(n)) BY <1>1, <1>2 DEF Front
    <2>2. /\ Front(c) \in Seq(Side) /\ Len(Front(c)) = Len(n)
          /\ \A i \in 1 .. Len(n) : Front(c)[i] = n[i]
      BY <1>1, <1>2, <2>1, SubSeqProperties
    <2>3. QED BY <1>1, <2>2, SeqEqual
  <1>4. Last(c) = s BY <1>2 DEF Last
  <1>5. c # Root BY <1>2, <1>1 DEF Root
  <1>6. QED BY <1>2, <1>3, <1>4, <1>5, Longer

LEMMA Children ==
    ASSUME NEW n \in Node, line \in Lines
    PROVE  /\ kind[n] \in Binary \cup Unary => Left(n) \in Node
           /\ kind[n] \in Binary => Right(n) \in Node
           /\ \A c \in Node \cap {Left(n), Right(n)} :
                 /\ Front(c) = n /\ c # Root /\ n \in Ancestors(c) /\ n # c
                 /\ c \notin Ancestors(n) /\ Ancestors(c) = Ancestors(n) \cup {c}
                 /\ IsLeft(c) <=> c = Left(n)
  <1>1. \A c \in Node : c = Left(n) =>
            /\ Front(c) = n /\ c # Root /\ c \notin Ancestors(n)
            /\ Ancestors(c) = Ancestors(n) \cup {c} /\ IsLeft(c)
    BY Child DEF Left, Side, IsLeft
  <1>2. \A c \in Node : c = Right(n) =>
            /\ Front(c) = n /\ c # Root /\ c \notin Ancestors(n)
            /\ Ancestors(c) = Ancestors(n) \cup {c} /\ ~IsLeft(c)
    <2>1. ASSUME NEW c \in Node, c = Right(n) PROVE Last(c) = "right"
      BY <2>1, Child DEF Right, Side
    <2>2. QED BY <2>1, Child DEF Right, Side, IsLeft
  <1>3. n \in Ancestors(n) BY AncestorSelf
  <1>4. kind[n] \in Binary \cup Unary => Left(n) \in Node BY ShellExecAssumption DEF kind
  <1>5. kind[n] \in Binary => Right(n) \in Node BY ShellExecAssumption DEF kind
  <1>6. \A c \in Node \cap {Left(n), Right(n)} : n \in Ancestors(c) /\ n # c
    BY <1>1, <1>2, <1>3
  <1>7. \A c \in Node \cap {Left(n), Right(n)} : IsLeft(c) <=> c = Left(n)
    BY <1>1, <1>2
  <1>8. QED BY <1>1, <1>2, <1>4, <1>5, <1>6, <1>7

LEMMA Sides ==
    ASSUME NEW n \in Node
    PROVE  Left(n) # Right(n)
  <1>1. n \in Seq(Side) BY NodeIsSeq
  <1>2. Append(n, "left")[Len(n) + 1] = "left" /\ Append(n, "right")[Len(n) + 1] = "right"
    BY <1>1, AppendProperties DEF Side
  <1>3. QED BY <1>2 DEF Left, Right

LEMMA NotNodes == Shell \notin Node /\ InitProc \notin Node /\ Shell # InitProc
  <1>1. ASSUME NEW s \in Seq(Side), Len(s) = 1 PROVE s[1] \in Side
    BY <1>1
  <1>2. Len(Shell) = 1 /\ Shell[1] = "shell" BY DEF Shell
  <1>3. Len(InitProc) = 1 /\ InitProc[1] = "init" BY DEF InitProc
  <1>4. "shell" \notin Side /\ "init" \notin Side /\ "shell" # "init" BY DEF Side
  <1>5. Shell # InitProc BY <1>2, <1>3, <1>4
  <1>6. QED BY <1>1, <1>2, <1>3, <1>4, <1>5, NodeIsSeq

-----------------------------------------------------------------------------
(* Background commands *)

LEMMA BackgroundDown ==
    ASSUME NEW m, NEW r \in Node, NEW x \in Node, r \in Ancestors(x), InBackground(r, m)
    PROVE  InBackground(x, m)
  BY AncestorTrans DEF InBackground

LEMMA BackgroundUp ==
    ASSUME NEW r \in Node, NEW c \in Node, NEW q \in Ancestors(c), InBackground(r, c)
    PROVE  InBackground(r, q)
  <1>1. PICK a \in Ancestors(r) : a # c /\ c \in Ancestors(a) /\ Above(a) = "BACK"
    BY DEF InBackground
  <1>2. a \in Node /\ q \in Node BY AncestorsAreNodes
  <1>3. q \in Ancestors(a) BY <1>1, <1>2, AncestorTrans
  <1>4. a # q BY <1>1, <1>2, AncestorAntisym
  <1>5. QED BY <1>1, <1>3, <1>4 DEF InBackground

LEMMA BackgroundHere ==
    ASSUME NEW n \in Node, NEW r \in Node, NEW q \in Ancestors(n), line \in Lines,
           kind[n] = "BACK", Left(n) \in Ancestors(r)
    PROVE  InBackground(r, q)
  <1>1. Left(n) \in Node BY AncestorsAreNodes
  <1>2. /\ Front(Left(n)) = n /\ n \in Ancestors(Left(n)) /\ Left(n) \notin Ancestors(n)
    BY <1>1, Children
  <1>3. Above(Left(n)) = "BACK" BY <1>2 DEF Above
  <1>4. q \in Ancestors(Left(n)) BY <1>1, <1>2, AncestorTrans
  <1>5. Left(n) # q BY <1>2
  <1>6. QED BY <1>3, <1>4, <1>5 DEF InBackground

-----------------------------------------------------------------------------
(* Descriptors *)

LEMMA Descriptors ==
    ASSUME NEW n, NEW m
    PROVE  /\ Tty # Closed /\ RdEnd(n) # Closed /\ WrEnd(n) # Closed /\ File(n) # Closed
           /\ RdEnd(n) # Tty /\ WrEnd(n) # Tty /\ File(n) # RdEnd(m) /\ File(n) # WrEnd(m)
           /\ RdEnd(n) # WrEnd(m)
           /\ RdEnd(n) = RdEnd(m) => n = m
           /\ WrEnd(n) = WrEnd(m) => n = m
  BY DEF Closed, Tty, RdEnd, WrEnd, File

LEMMA BoundIsOpen ==
    ASSUME NEW n, NEW i
    PROVE  Bound(n, i) # Closed
  BY Descriptors DEF Bound

LEMMA ExpectedIsOpen ==
    ASSUME NEW n, NEW i
    PROVE  Expected(n, i) # Closed
  BY Descriptors, BoundIsOpen DEF Expected

LEMMA ExpectedAtRoot ==
    ASSUME NEW i
    PROVE  Expected(Root, i) = Tty
  <1>1. Ancestors(Root) \ {Root} = {} BY AncestorRoot, NodeIsSeq
  <1>2. QED BY <1>1 DEF Expected

(* What a node adds to what its parent has.                                   *)
LEMMA ExpectedBelow ==
    ASSUME NEW n \in Node, NEW c \in Node, NEW i, line \in Lines,
           c \in {Left(n), Right(n)}
    PROVE  Expected(c, i) = IF Binds(c, i) THEN Bound(c, i) ELSE Expected(n, i)
  <1> DEFINE B == {a \in Ancestors(c) \ {Root} : Binds(a, i)}
             A == {a \in Ancestors(n) \ {Root} : Binds(a, i)}
  <1> DEFINE inner(S) == IF S = {} THEN Tty
                         ELSE Bound(CHOOSE a \in S : S \subseteq Ancestors(a), i)
  <1>0. Expected(c, i) = inner(B) /\ Expected(n, i) = inner(A) BY DEF Expected
  <1>1. Ancestors(c) = Ancestors(n) \cup {c} /\ c # Root /\ c \in Ancestors(c)
    BY Children, AncestorSelf
  <1>2. CASE ~Binds(c, i)
    <2>1. B = A BY <1>1, <1>2
    <2> HIDE DEF A, B, inner
    <2>2. QED BY <1>0, <1>2, <2>1
  <1>3. CASE Binds(c, i)
    <2>1. c \in B /\ B \subseteq Ancestors(c) BY <1>1, <1>3
    <2>2. ASSUME NEW a \in B, B \subseteq Ancestors(a) PROVE a = c
      BY <2>1, <2>2, AncestorAntisym
    <2> HIDE DEF B
    <2>3. (CHOOSE a \in B : B \subseteq Ancestors(a)) = c BY <2>1, <2>2
    <2>4. inner(B) = Bound(c, i) BY <2>1, <2>3
    <2> HIDE DEF inner
    <2>5. QED BY <1>0, <1>3, <2>4
  <1> HIDE DEF A, B, inner
  <1>4. QED BY <1>2, <1>3

LEMMA LowestIs ==
    ASSUME NEW table, NEW i \in Fd, table[i] = Closed,
           \A j \in Fd : j < i => table[j] # Closed
    PROVE  Lowest(table) = i
  <1>1. ASSUME NEW k \in Fd, table[k] = Closed, \A j \in Fd : j < k => table[j] # Closed
        PROVE  k = i
    BY <1>1 DEF Fd
  <1>2. QED BY <1>1 DEF Lowest

(* close() and then open() or dup() gives a low descriptor back.              *)
LEMMA Reopened ==
    ASSUME NEW n, NEW i \in {0, 1}, NEW d, NEW f \in {Plain(n), Piped(n)}
    PROVE  OpenAt(CloseFd(f, i), d) = [f EXCEPT ![i] = d]
  <1>1. DOMAIN f = Fd /\ f[0] # Closed
    <2>1. DOMAIN Plain(n) = Fd /\ Plain(n)[0] = Expected(n, 0) BY DEF Plain, Fd
    <2>2. DOMAIN Piped(n) = Fd /\ Piped(n)[0] = Expected(n, 0) BY <2>1 DEF Piped, Fd
    <2>3. QED BY <2>1, <2>2, ExpectedIsOpen
  <1>2. f = [j \in Fd |-> f[j]]
    BY DEF Plain, Piped
  <1>3. Lowest(CloseFd(f, i)) = i
    <2> DEFINE g == CloseFd(f, i)
    <2>1. /\ \A j \in Fd : g[j] = IF j = i THEN Closed ELSE f[j]
          /\ i \in Fd
      BY <1>2 DEF CloseFd, Fd
    <2> HIDE DEF g
    <2>2. \A j \in Fd : j < i => g[j] # Closed
      BY <1>1, <2>1 DEF Fd
    <2>3. QED BY <2>1, <2>2, LowestIs DEF g
  <1>4. QED BY <1>2, <1>3 DEF OpenAt, CloseFd

LEMMA PlainTable ==
    ASSUME NEW n
    PROVE  /\ Plain(n) = [i \in Fd |-> Plain(n)[i]]
           /\ Plain(n)[0] = Expected(n, 0) /\ Plain(n)[1] = Expected(n, 1) /\ Plain(n)[2] = Tty
           /\ \A i \in Fd : i > 2 => Plain(n)[i] = Closed
  BY DEF Plain, Fd

(* pipe() gives descriptors 3 and 4.                                          *)
LEMMA PipeOpens ==
    ASSUME NEW n
    PROVE  /\ Lowest(Plain(n)) = 3
           /\ Lowest(OpenAt(Plain(n), RdEnd(n))) = 4
           /\ OpenAt(OpenAt(Plain(n), RdEnd(n)), WrEnd(n)) = Piped(n)
  <1> DEFINE f == Plain(n)
             g == [f EXCEPT ![3] = RdEnd(n)]
  <1>1. /\ f = [i \in Fd |-> f[i]] /\ f[0] # Closed /\ f[1] # Closed /\ f[2] # Closed
        /\ \A i \in Fd : i > 2 => f[i] = Closed
    BY PlainTable, ExpectedIsOpen, Descriptors
  <1> HIDE DEF f
  <1>2. \A j \in Fd : j < 3 => f[j] # Closed BY <1>1 DEF Fd
  <1>3. Lowest(f) = 3 BY <1>1, <1>2, LowestIs DEF Fd
  <1>4. /\ g[3] = RdEnd(n) /\ \A j \in Fd : j # 3 => g[j] = f[j]
        /\ OpenAt(f, RdEnd(n)) = g
    <2>1. 3 \in DOMAIN f BY <1>1 DEF Fd
    <2>2. g[3] = RdEnd(n) /\ \A j \in Fd : j # 3 => g[j] = f[j] BY <1>1, <2>1
    <2>3. OpenAt(f, RdEnd(n)) = g BY <1>3 DEF OpenAt
    <2>4. QED BY <2>2, <2>3
  <1> HIDE DEF g
  <1>5. \A j \in Fd : j < 4 => g[j] # Closed BY <1>1, <1>2, <1>4, Descriptors DEF Fd
  <1>6. Lowest(g) = 4 BY <1>1, <1>4, <1>5, LowestIs DEF Fd
  <1>7. OpenAt(g, WrEnd(n)) = Piped(n) BY <1>6 DEF OpenAt, Piped, g, f
  <1>8. QED BY <1>3, <1>4, <1>6, <1>7 DEF f

LEMMA PipeCloses ==
    ASSUME NEW n
    PROVE  CloseFd(CloseFd(Piped(n), 3), 4) = Plain(n)
  <1> DEFINE f == Plain(n)
  <1>1. f = [i \in Fd |-> f[i]] /\ \A i \in Fd : i > 2 => f[i] = Closed BY PlainTable
  <1> HIDE DEF f
  <1>2. CloseFd(CloseFd([f EXCEPT ![3] = RdEnd(n), ![4] = WrEnd(n)], 3), 4) = f
    <2> DEFINE h == CloseFd(CloseFd([f EXCEPT ![3] = RdEnd(n), ![4] = WrEnd(n)], 3), 4)
    <2>1. h = [i \in Fd |-> h[i]] BY <1>1 DEF CloseFd
    <2>2. \A i \in Fd : h[i] = f[i] BY <1>1 DEF CloseFd, Fd
    <2> HIDE DEF h
    <2>3. h = f BY <1>1, <2>1, <2>2
    <2>4. QED BY <2>3 DEF h
  <1>3. QED BY <1>2 DEF Piped, f

(* What run_pipe_left() and run_pipe_right() leave open.                      *)
LEMMA PipeSetup ==
    ASSUME NEW n, NEW i \in {0, 1}, NEW end \in {3, 4}, end = 3 + i
    PROVE  AfterPipeSetup(Piped(n), i, [rd |-> 3, wr |-> 4], end)
             = [Plain(n) EXCEPT ![i] = IF i = 1 THEN WrEnd(n) ELSE RdEnd(n)]
  <1> DEFINE f == Plain(n)
             g == Piped(n)
             d == IF i = 1 THEN WrEnd(n) ELSE RdEnd(n)
  <1>1. f = [j \in Fd |-> f[j]] /\ \A j \in Fd : j > 2 => f[j] = Closed BY PlainTable
  <1> HIDE DEF f
  <1>2. g = [f EXCEPT ![3] = RdEnd(n), ![4] = WrEnd(n)] BY DEF Piped, f
  <1>3. g[end] = d BY <1>1, <1>2 DEF Fd
  <1>4. OpenAt(CloseFd(g, i), g[end]) = [g EXCEPT ![i] = d]
    BY <1>3, Reopened
  <1> HIDE DEF g, d
  <1>5. CloseFd(CloseFd([g EXCEPT ![i] = d], 3), 4) = [f EXCEPT ![i] = d]
    <2> DEFINE h == CloseFd(CloseFd([g EXCEPT ![i] = d], 3), 4)
               k == [f EXCEPT ![i] = d]
    <2>1. g = [j \in Fd |-> g[j]] /\ \A j \in Fd : j \notin {3, 4} => g[j] = f[j]
      BY <1>1, <1>2
    <2>2. h = [j \in Fd |-> h[j]] /\ k = [j \in Fd |-> k[j]] BY <1>1, <2>1 DEF CloseFd
    <2>3. \A j \in Fd : h[j] = k[j] BY <1>1, <2>1 DEF CloseFd, Fd
    <2> HIDE DEF h, k
    <2>4. h = k BY <2>2, <2>3
    <2>5. QED BY <2>4 DEF h, k
  <1>6. QED BY <1>4, <1>5 DEF AfterPipeSetup, f, g, d

LEMMA PipeSetups ==
    ASSUME NEW n
    PROVE  /\ AfterPipeSetup(Piped(n), 1, [rd |-> 3, wr |-> 4], 4)
                = [Plain(n) EXCEPT ![1] = WrEnd(n)]
           /\ AfterPipeSetup(Piped(n), 0, [rd |-> 3, wr |-> 4], 3)
                = [Plain(n) EXCEPT ![0] = RdEnd(n)]
  <1> DEFINE new(i) == IF i = 1 THEN WrEnd(n) ELSE RdEnd(n)
  <1>1. ASSUME NEW i \in {0, 1}, NEW end \in {3, 4}, end = 3 + i
        PROVE  AfterPipeSetup(Piped(n), i, [rd |-> 3, wr |-> 4], end)
                 = [Plain(n) EXCEPT ![i] = new(i)]
    BY <1>1, PipeSetup
  <1>2. new(1) = WrEnd(n) /\ new(0) = RdEnd(n) OBVIOUS
  <1> HIDE DEF new
  <1>3. /\ 1 \in {0, 1} /\ 4 \in {3, 4} /\ 4 = 3 + 1
        /\ 0 \in {0, 1} /\ 3 \in {3, 4} /\ 3 = 3 + 0
    OBVIOUS
  <1>4. QED BY <1>1, <1>2, <1>3

(* The descriptors of the commands of a node, by its kind.                    *)
LEMMA PlainBelow ==
    ASSUME NEW n \in Node, NEW c \in Node, line \in Lines, c \in {Left(n), Right(n)}
    PROVE  /\ kind[n] \in {"LIST", "BACK"} => Plain(c) = Plain(n)
           /\ kind[n] = "OUT" => Plain(c) = [Plain(n) EXCEPT ![1] = File(n)]
           /\ kind[n] = "IN" => Plain(c) = [Plain(n) EXCEPT ![0] = File(n)]
           /\ kind[n] = "PIPE" /\ c = Left(n) => Plain(c) = [Plain(n) EXCEPT ![1] = WrEnd(n)]
           /\ kind[n] = "PIPE" /\ c # Left(n) => Plain(c) = [Plain(n) EXCEPT ![0] = RdEnd(n)]
  <1> DEFINE f == Plain(n)
             g == Plain(c)
  <1>1. Above(c) = kind[n] /\ Front(c) = n /\ (IsLeft(c) <=> c = Left(n))
    BY Children DEF Above
  <1>2. /\ f = [j \in Fd |-> f[j]] /\ g = [j \in Fd |-> g[j]]
        /\ \A j \in Fd : j > 1 => g[j] = f[j]
    BY PlainTable DEF Fd
  <1>3. \A i \in {0, 1} : /\ f[i] = Expected(n, i)
                          /\ g[i] = IF Binds(c, i) THEN Bound(c, i) ELSE Expected(n, i)
    BY PlainTable, ExpectedBelow
  <1> HIDE DEF f, g
  <1>4. ASSUME kind[n] \in {"LIST", "BACK"} PROVE g = f
    <2>1. \A i \in {0, 1} : ~Binds(c, i) BY <1>1, <1>4 DEF Binds
    <2>2. QED BY <1>2, <1>3, <2>1 DEF Fd
  <1>5. ASSUME kind[n] = "OUT" PROVE g = [f EXCEPT ![1] = File(n)]
    <2>1. Binds(c, 1) /\ ~Binds(c, 0) /\ Bound(c, 1) = File(n) BY <1>1, <1>5 DEF Binds, Bound
    <2>2. QED BY <1>2, <1>3, <2>1 DEF Fd
  <1>6. ASSUME kind[n] = "IN" PROVE g = [f EXCEPT ![0] = File(n)]
    <2>1. Binds(c, 0) /\ ~Binds(c, 1) /\ Bound(c, 0) = File(n) BY <1>1, <1>6 DEF Binds, Bound
    <2>2. QED BY <1>2, <1>3, <2>1 DEF Fd
  <1>7. ASSUME kind[n] = "PIPE", c = Left(n) PROVE g = [f EXCEPT ![1] = WrEnd(n)]
    <2>1. Binds(c, 1) /\ ~Binds(c, 0) /\ Bound(c, 1) = WrEnd(n) BY <1>1, <1>7 DEF Binds, Bound
    <2>2. QED BY <1>2, <1>3, <2>1 DEF Fd
  <1>8. ASSUME kind[n] = "PIPE", c # Left(n) PROVE g = [f EXCEPT ![0] = RdEnd(n)]
    <2>1. Binds(c, 0) /\ ~Binds(c, 1) /\ Bound(c, 0) = RdEnd(n) BY <1>1, <1>8 DEF Binds, Bound
    <2>2. QED BY <1>2, <1>3, <2>1 DEF Fd
  <1>9. QED BY <1>4, <1>5, <1>6, <1>7, <1>8 DEF f, g

-----------------------------------------------------------------------------
(* What the steps do to the processes *)

LEMMA SameLine ==
    ASSUME line' = line
    PROVE  /\ kind' = kind
           /\ \A n : Above(n)' = Above(n)
           /\ \A x, y : InBackground(x, y)' <=> InBackground(x, y)
           /\ \A n : Plain(n)' = Plain(n) /\ Piped(n)' = Piped(n)
  <1>1. kind' = kind BY DEF kind
  <1>2. \A n : Above(n)' = Above(n) BY <1>1 DEF Above
  <1>3. \A x, y : InBackground(x, y)' <=> InBackground(x, y)
    BY <1>2 DEF InBackground
  <1>4. \A n, i : Binds(n, i)' <=> Binds(n, i) BY <1>2 DEF Binds
  <1>5. \A n, i : Bound(n, i)' = Bound(n, i) BY <1>2 DEF Bound
  <1>6. ASSUME NEW n, NEW i PROVE Expected(n, i)' = Expected(n, i)
    BY DEF Expected, Binds, Bound, Above, kind
  <1>7. \A n : Plain(n)' = Plain(n) BY <1>6 DEF Plain
  <1>8. \A n : Piped(n)' = Piped(n) BY <1>7 DEF Piped
  <1>9. QED BY <1>1, <1>2, <1>3, <1>7, <1>8

(* fork(): q gets the child c.                                                *)
LEMMA ForkFrame ==
    ASSUME Types, NEW q \in Proc, NEW c \in Node, NEW mine, NEW yours, NEW v,
           Fork(q, c, mine, yours, v)
    PROVE  /\ q # c /\ state[q] = "run" /\ ~Started(c)
           /\ line' = line /\ fails' = fails
           /\ \A x \in Proc :
                 /\ at'[x] = IF x = c THEN c ELSE at[x]
                 /\ parent'[x] = IF x = c THEN q ELSE parent[x]
                 /\ pc'[x] = IF x = q THEN yours ELSE IF x = c THEN mine ELSE pc[x]
                 /\ fd'[x] = IF x = c THEN fd[q] ELSE fd[x]
                 /\ p'[x] = IF x = c THEN p[q] ELSE p[x]
                 /\ Started(x)' <=> Started(x) \/ x = c
                 /\ Alive(x)' <=> Alive(x) \/ x = c
                 /\ Ended(x)' <=> Ended(x)
           /\ \A x \in Proc, y \in Node : Pending(x, y)' <=> Pending(x, y) \/ (x = q /\ y = c)
           /\ state'[Shell] = IF q = Shell /\ v THEN "vforking" ELSE state[Shell]
  <1> USE DEF Types, Fork, Proc
  <1>1. q # c /\ state[q] = "run" /\ ~Started(c) /\ line' = line /\ fails' = fails
    BY DEF Started
  <1>2. \A x \in Proc : /\ at'[x] = IF x = c THEN c ELSE at[x]
                        /\ parent'[x] = IF x = c THEN q ELSE parent[x]
    OBVIOUS
  <1>3. \A x \in Proc : pc'[x] = IF x = q THEN yours ELSE IF x = c THEN mine ELSE pc[x]
    BY <1>1
  <1>4. \A x \in Proc : /\ fd'[x] = IF x = c THEN fd[q] ELSE fd[x]
                        /\ p'[x] = IF x = c THEN p[q] ELSE p[x]
    OBVIOUS
  <1>5. \A x \in Proc : state'[x] = IF x = q THEN IF v THEN "vforking" ELSE "run"
                                    ELSE IF x = c THEN "run" ELSE state[x]
    BY <1>1
  <1>6. \A x \in Proc : /\ Started(x)' <=> Started(x) \/ x = c
                        /\ Alive(x)' <=> Alive(x) \/ x = c
                        /\ Ended(x)' <=> Ended(x)
    BY <1>1, <1>5 DEF Started, Alive, Ended
  <1>7. \A x \in Proc, y \in Node : Pending(x, y)' <=> Pending(x, y) \/ (x = q /\ y = c)
    BY <1>1, <1>2, <1>5 DEF Pending, Started
  <1>8. state'[Shell] = IF q = Shell /\ v THEN "vforking" ELSE state[Shell]
    BY <1>1, <1>5, NotNodes
  <1>9. QED BY <1>1, <1>2, <1>3, <1>4, <1>6, <1>7, <1>8

(* exit() of a process other than the shell.                                  *)
LEMMA ExitFrame ==
    ASSUME Types, NEW q \in Node, Exit(q), state[q] = "run", state[Shell] = "run"
    PROVE  /\ line' = line /\ Ended(q)' /\ ~Alive(q)' /\ state'[Shell] = "run"
           /\ \A x \in Proc :
                 /\ at'[x] = at[x]
                 /\ parent'[x] = IF parent[x] = q THEN InitProc ELSE parent[x]
                 /\ x # q => pc'[x] = pc[x] /\ fd'[x] = fd[x] /\ p'[x] = p[x]
                 /\ Started(x)' <=> Started(x)
                 /\ Ended(x) => Ended(x)'
                 /\ x # q => (Alive(x)' <=> Alive(x)) /\ (Ended(x)' <=> Ended(x))
           /\ \A x \in Proc, y \in Node :
                 /\ x # q => (Pending(x, y)' <=> Pending(x, y))
                 /\ x # q /\ parent[y] = x => parent'[y] = x
  <1> USE DEF Types, Exit, Proc
  <1>1. /\ q # Shell /\ InitProc \notin Proc BY NotNodes
  <1>2. /\ line' = line
        /\ \A x \in Proc : at'[x] = at[x]
        /\ \A x \in Proc : x # q => pc'[x] = pc[x] /\ fd'[x] = fd[x] /\ p'[x] = p[x]
    OBVIOUS
  <1>3. \A x \in Proc : parent'[x] = IF parent[x] = q THEN InitProc ELSE parent[x]
    OBVIOUS
  <1> DEFINE woken == Awake(state, q)
  <1>4. \A x \in Proc : /\ woken[x] \in {state[x], "run"}
                        /\ woken[x] # state[x] => state[x] = "vforking"
    BY DEF Awake
  <1>5. \A x \in Proc : state'[x] = CASE x = q -> IF parent[q] = InitProc THEN "gone" ELSE "zombie"
                                     [] parent[x] = q /\ state[x] = "zombie" -> "gone"
                                     [] OTHER -> woken[x]
    OBVIOUS
  <1> HIDE DEF woken
  <1>6. state'[q] \in {"gone", "zombie"}
    <2>1. ~(parent[q] = q /\ state[q] = "zombie") OBVIOUS
    <2>2. QED BY <1>5, <2>1
  <1>7. \A x \in Proc : x # q => state'[x] = IF parent[x] = q /\ state[x] = "zombie" THEN "gone"
                                             ELSE woken[x]
    BY <1>5
  <1> HIDE DEF Exit
  <1>8. \A x \in Proc : /\ Started(x)' <=> Started(x)
                        /\ Ended(x) => Ended(x)'
                        /\ x # q => (Alive(x)' <=> Alive(x)) /\ (Ended(x)' <=> Ended(x))
    BY <1>4, <1>6, <1>7 DEF Started, Ended, Alive
  <1>9. Ended(q)' /\ ~Alive(q)' BY <1>6 DEF Ended, Alive
  <1>10. state'[Shell] = "run" BY <1>1, <1>4, <1>7
  <1>11. ASSUME NEW x \in Proc, NEW y \in Node, x # q
         PROVE  /\ Pending(x, y)' <=> Pending(x, y)
                /\ parent[y] = x => parent'[y] = x
    <2>1. y \in Proc /\ x # InitProc BY <1>1
    <2>2. parent'[y] = x <=> parent[y] = x BY <1>3, <1>11, <2>1
    <2>3. parent[y] = x => (state'[y] \notin {"none", "gone"} <=> state[y] \notin {"none", "gone"})
      <3>1. CASE y = q
        <4>1. parent[y] = x => state'[q] = "zombie" BY <1>1, <1>5, <2>1, <3>1
        <4>2. QED BY <3>1, <4>1
      <3>2. CASE y # q BY <1>4, <1>7, <1>11, <2>1, <3>2
      <3>3. QED BY <3>1, <3>2
    <2>4. QED BY <2>2, <2>3 DEF Pending
  <1>12. QED BY <1>2, <1>3, <1>8, <1>9, <1>10, <1>11

-----------------------------------------------------------------------------
(* Every node has one process that comes by it *)

LEMMA OneOwner ==
    ASSUME Placed, NEW q \in Node, NEW r \in Node, Started(q), Started(r), NEW m \in Node,
           q \in Ancestors(m), m \in Ancestors(at[q]), at[q] \in Node,
           r \in Ancestors(m), m \in Ancestors(at[r]), at[r] \in Node
    PROVE  q = r
  <1>1. ASSUME q \in Ancestors(r), q # r PROVE FALSE
    <2>1. r \in Ancestors(at[q]) BY AncestorTrans
    <2>2. QED BY <1>1, <2>1 DEF Placed
  <1>2. ASSUME r \in Ancestors(q), q # r PROVE FALSE
    <2>1. q \in Ancestors(at[r]) BY AncestorTrans
    <2>2. QED BY <1>2, <2>1 DEF Placed
  <1>3. QED BY <1>1, <1>2, AncestorsInLine

LEMMA OneAtANode ==
    ASSUME Types, Placed, NEW q \in Node, NEW r \in Node, Started(q), Started(r), at[q] = at[r]
    PROVE  q = r
  <1>1. at[q] \in Node /\ at[r] \in Node BY DEF Types, Proc
  <1>2. q \in Ancestors(at[q]) /\ r \in Ancestors(at[r]) BY DEF Placed
  <1>3. at[q] \in Ancestors(at[q]) BY <1>1, AncestorSelf
  <1>4. QED BY <1>1, <1>2, <1>3, OneOwner

(* Below a node that nobody was made for, next to the node of q, is nobody.   *)
LEMMA Untouched ==
    ASSUME Types, Placed, NEW q \in Node, Started(q),
           NEW c \in Node \cap {Left(at[q]), Right(at[q])}, ~Started(c),
           NEW r \in Node, Started(r)
    PROVE  c \notin Ancestors(r) /\ c \notin Ancestors(at[r])
  <1>1. /\ at[q] \in Node /\ at[r] \in Node /\ line \in Lines BY DEF Types, Proc
  <1>2. /\ Ancestors(c) = Ancestors(at[q]) \cup {c} /\ c \notin Ancestors(at[q])
        /\ at[q] \in Ancestors(c)
    BY <1>1, Children
  <1>3. q \in Ancestors(at[q]) BY DEF Placed
  <1>4. at[q] \in Ancestors(at[q]) BY <1>1, AncestorSelf
  <1>5. ASSUME NEW o \in Ancestors(c), Started(o), o \in Node, c \in Ancestors(at[o])
        PROVE  FALSE
    <2>1. at[o] \in Node BY <1>5 DEF Types, Proc
    <2>2. o \in Ancestors(at[q]) BY <1>2, <1>5
    <2>3. at[q] \in Ancestors(at[o]) BY <1>2, <1>5, <2>1, AncestorTrans
    <2>4. o = q BY <1>1, <1>3, <1>4, <1>5, <2>1, <2>2, <2>3, OneOwner
    <2>5. QED BY <1>2, <1>5, <2>4
  <1>6. ASSUME c \in Ancestors(r) PROVE FALSE
    <2>1. c # r BY <1>6
    <2>2. PICK o \in Ancestors(c) : Started(o) /\ c \in Ancestors(at[o])
      BY <1>6, <2>1 DEF Placed
    <2>3. o \in Node BY AncestorsAreNodes
    <2>4. QED BY <1>5, <2>2, <2>3
  <1>7. ASSUME c \in Ancestors(at[r]) PROVE FALSE
    <2>1. r \in Ancestors(at[r]) BY DEF Placed
    <2>2. r \in Ancestors(c) \/ c \in Ancestors(r) BY <1>1, <1>7, <2>1, AncestorsInLine
    <2>3. QED BY <1>5, <1>6, <1>7, <2>2
  <1>8. QED BY <1>6, <1>7

-----------------------------------------------------------------------------
(* Placed *)

LEMMA PlacedSame ==
    ASSUME Placed, \A x \in Node : at'[x] = at[x] /\ (Started(x)' <=> Started(x))
    PROVE  Placed'
  <1> SUFFICES ASSUME NEW x \in Node, Started(x)'
               PROVE  /\ x \in Ancestors(at'[x])
                      /\ \A m \in Ancestors(at'[x]) : x \in Ancestors(m) /\ m # x => ~Started(m)'
                      /\ \A m \in Ancestors(x) \ {x} :
                            \E o \in Ancestors(m) : Started(o)' /\ m \in Ancestors(at'[o])
    BY DEF Placed
  <1>1. at'[x] = at[x] /\ Started(x) OBVIOUS
  <1>2. x \in Ancestors(at'[x]) BY <1>1 DEF Placed
  <1>3. ASSUME NEW m \in Ancestors(at'[x]), x \in Ancestors(m), m # x PROVE ~Started(m)'
    <2>1. m \in Node BY AncestorsAreNodes
    <2>2. QED BY <1>1, <1>3, <2>1 DEF Placed
  <1>4. ASSUME NEW m \in Ancestors(x) \ {x}
        PROVE  \E o \in Ancestors(m) : Started(o)' /\ m \in Ancestors(at'[o])
    <2>1. PICK o \in Ancestors(m) : Started(o) /\ m \in Ancestors(at[o])
      BY <1>1 DEF Placed
    <2>2. o \in Node BY AncestorsAreNodes
    <2>3. QED BY <2>1, <2>2
  <1>5. QED BY <1>2, <1>3, <1>4

LEMMA PlacedFork ==
    ASSUME Types, Placed, NEW q \in Node, Started(q),
           NEW c \in Node \cap {Left(at[q]), Right(at[q])}, ~Started(c),
           \A x \in Node : /\ at'[x] = IF x = c THEN c ELSE at[x]
                           /\ Started(x)' <=> Started(x) \/ x = c
    PROVE  Placed'
  <1>1. at[q] \in Node /\ line \in Lines BY DEF Types, Proc
  <1>2. Ancestors(c) = Ancestors(at[q]) \cup {c} BY <1>1, Children
  <1>3. c \in Ancestors(c) BY AncestorSelf
  <1>4. q \in Ancestors(at[q]) BY DEF Placed
  <1> SUFFICES ASSUME NEW x \in Node, Started(x)'
               PROVE  /\ x \in Ancestors(at'[x])
                      /\ \A m \in Ancestors(at'[x]) : x \in Ancestors(m) /\ m # x => ~Started(m)'
                      /\ \A m \in Ancestors(x) \ {x} :
                            \E o \in Ancestors(m) : Started(o)' /\ m \in Ancestors(at'[o])
    BY DEF Placed
  <1>5. x \in Ancestors(at'[x]) BY <1>3 DEF Placed
  <1>6. ASSUME NEW m \in Ancestors(at'[x]), x \in Ancestors(m), m # x PROVE ~Started(m)'
    <2>1. m \in Node BY AncestorsAreNodes
    <2>2. CASE x = c
      <3>1. m \in Ancestors(c) /\ c \in Ancestors(m) BY <1>6, <2>2
      <3>2. QED BY <1>6, <2>2, <3>1, AncestorAntisym
    <2>3. CASE x # c
      <3>1. Started(x) /\ at'[x] = at[x] BY <2>3
      <3>2. ~Started(m) BY <1>6, <3>1 DEF Placed
      <3>3. m # c BY <1>6, <3>1, Untouched
      <3>4. QED BY <2>1, <3>2, <3>3
    <2>4. QED BY <2>2, <2>3
  <1>7. ASSUME NEW m \in Ancestors(x) \ {x}
        PROVE  \E o \in Ancestors(m) : Started(o)' /\ m \in Ancestors(at'[o])
    <2>1. m \in Node BY AncestorsAreNodes
    <2>2. ASSUME NEW o \in Ancestors(m), Started(o), m \in Ancestors(at[o])
          PROVE  \E o1 \in Ancestors(m) : Started(o1)' /\ m \in Ancestors(at'[o1])
      <3>1. o \in Node BY AncestorsAreNodes
      <3>2. o # c BY <2>2
      <3>3. QED BY <2>2, <3>1, <3>2
    <2>3. CASE x = c
      <3>1. m \in Ancestors(at[q]) BY <1>2, <2>3
      <3>2. CASE q \in Ancestors(m) BY <2>2, <3>1, <3>2
      <3>3. CASE m \in Ancestors(q) /\ m # q
        <4>1. PICK o \in Ancestors(m) : Started(o) /\ m \in Ancestors(at[o])
          BY <3>3 DEF Placed
        <4>2. QED BY <2>2, <4>1
      <3>4. QED BY <1>1, <1>4, <2>1, <3>1, <3>2, <3>3, AncestorsInLine, AncestorSelf
    <2>4. CASE x # c
      <3>1. PICK o \in Ancestors(m) : Started(o) /\ m \in Ancestors(at[o])
        BY <2>4 DEF Placed
      <3>2. QED BY <2>2, <3>1
    <2>5. QED BY <2>3, <2>4
  <1>8. QED BY <1>5, <1>6, <1>7

LEMMA PlacedMove ==
    ASSUME Types, Placed, NEW q \in Node, Started(q),
           NEW c \in Node \cap {Left(at[q]), Right(at[q])}, ~Started(c),
           \A x \in Node : /\ at'[x] = IF x = q THEN c ELSE at[x]
                           /\ Started(x)' <=> Started(x)
    PROVE  Placed'
  <1>1. at[q] \in Node /\ line \in Lines BY DEF Types, Proc
  <1>2. Ancestors(c) = Ancestors(at[q]) \cup {c} BY <1>1, Children
  <1>3. q \in Ancestors(at[q]) BY DEF Placed
  <1> SUFFICES ASSUME NEW x \in Node, Started(x)'
               PROVE  /\ x \in Ancestors(at'[x])
                      /\ \A m \in Ancestors(at'[x]) : x \in Ancestors(m) /\ m # x => ~Started(m)'
                      /\ \A m \in Ancestors(x) \ {x} :
                            \E o \in Ancestors(m) : Started(o)' /\ m \in Ancestors(at'[o])
    BY DEF Placed
  <1>4. Started(x) OBVIOUS
  <1>5. x \in Ancestors(at'[x]) BY <1>2, <1>3, <1>4 DEF Placed
  <1>6. ASSUME NEW m \in Ancestors(at'[x]), x \in Ancestors(m), m # x PROVE ~Started(m)'
    <2>1. m \in Node BY AncestorsAreNodes
    <2>2. CASE m \in Ancestors(at[x]) BY <1>4, <1>6, <2>1, <2>2 DEF Placed
    <2>3. CASE m \notin Ancestors(at[x])
      <3>1. m = c BY <1>2, <1>6, <2>3
      <3>2. QED BY <3>1
    <2>4. QED BY <2>2, <2>3
  <1>7. ASSUME NEW m \in Ancestors(x) \ {x}
        PROVE  \E o \in Ancestors(m) : Started(o)' /\ m \in Ancestors(at'[o])
    <2>1. PICK o \in Ancestors(m) : Started(o) /\ m \in Ancestors(at[o])
      BY <1>4 DEF Placed
    <2>2. o \in Node BY AncestorsAreNodes
    <2>3. m \in Ancestors(at'[o]) BY <1>2, <2>1, <2>2
    <2>4. QED BY <2>1, <2>2, <2>3
  <1>8. QED BY <1>5, <1>6, <1>7

(* Nobody is made for a node before the command line itself.                  *)
LEMMA RootFirst ==
    ASSUME Placed, ~Started(Root), NEW x \in Node
    PROVE  ~Started(x)
  <1>1. SUFFICES ASSUME Started(x), x # Root PROVE FALSE OBVIOUS
  <1>2. Root \in Ancestors(x) \ {x} BY <1>1, AncestorRoot
  <1>3. PICK o \in Ancestors(Root) : Started(o) BY <1>1, <1>2 DEF Placed
  <1>4. QED BY <1>3, AncestorRoot, NodeIsSeq

LEMMA PlacedRoot ==
    ASSUME Placed, ~Started(Root),
           \A x \in Node : /\ at'[x] = IF x = Root THEN Root ELSE at[x]
                           /\ Started(x)' <=> Started(x) \/ x = Root
    PROVE  Placed'
  <1>1. Ancestors(Root) = {Root} BY AncestorRoot, NodeIsSeq
  <1>2. \A x \in Node : Started(x)' <=> x = Root BY RootFirst
  <1>3. at'[Root] = Root BY NodeIsSeq
  <1>4. QED BY <1>1, <1>2, <1>3 DEF Placed

-----------------------------------------------------------------------------
(* fork() *)

(* The forks of runcmd(): the child, where it starts and where q goes on.     *)
Forking(q, c, mine, yours) ==
    /\ Alive(q) /\ c \in Node
    /\ \/ /\ c = Left(at[q]) /\ kind[at[q]] = "LIST" /\ pc[q] = "runcmd"
          /\ mine = "runcmd" /\ yours = "list_wait"
       \/ /\ c = Left(at[q]) /\ kind[at[q]] = "BACK" /\ pc[q] = "runcmd"
          /\ mine = "runcmd" /\ yours = "return"
       \/ /\ c = Left(at[q]) /\ kind[at[q]] = "PIPE" /\ pc[q] = "fork_left"
          /\ mine = "run_pipe_left" /\ yours = "fork_right"
       \/ /\ c = Right(at[q]) /\ kind[at[q]] = "PIPE" /\ pc[q] = "fork_right"
          /\ mine = "run_pipe_right" /\ yours = "close_ends"

(* What ForkFrame says of the nodes.                                          *)
Forked(q, c, mine, yours) ==
    /\ q # c /\ ~Started(c) /\ line' = line /\ fails' = fails
    /\ \A x \in Node :
          /\ at'[x] = IF x = c THEN c ELSE at[x]
          /\ parent'[x] = IF x = c THEN q ELSE parent[x]
          /\ pc'[x] = IF x = q THEN yours ELSE IF x = c THEN mine ELSE pc[x]
          /\ Started(x)' <=> Started(x) \/ x = c
          /\ Alive(x)' <=> Alive(x) \/ x = c
          /\ Ended(x)' <=> Ended(x)
    /\ \A x \in Node, y \in Node : Pending(x, y)' <=> Pending(x, y) \/ (x = q /\ y = c)

LEMMA AliveStarted ==
    ASSUME NEW q, Alive(q)
    PROVE  Started(q) /\ ~Ended(q)
  BY DEF Alive, Started, Ended

LEMMA ForkWhere ==
    ASSUME Types, Placed, NEW q \in Node, NEW c, NEW mine, NEW yours,
           Forking(q, c, mine, yours), ~Started(c)
    PROVE  /\ line \in Lines /\ at[q] \in Node /\ Started(q) /\ q \in Ancestors(at[q])
           /\ c \in Node \cap {Left(at[q]), Right(at[q])}
           /\ Front(c) = at[q] /\ c # Root /\ at[q] \in Ancestors(c) /\ c \notin Ancestors(at[q])
           /\ Ancestors(c) = Ancestors(at[q]) \cup {c}
           /\ (IsLeft(c) <=> c = Left(at[q]))
           /\ \A x \in Node : Started(x) => c \notin Ancestors(x) /\ c \notin Ancestors(at[x])
           /\ \A x \in Node : Started(x) /\ x # q => at[x] # at[q]
  <1>1. line \in Lines /\ at[q] \in Node BY DEF Types, Proc
  <1>2. Started(q) BY AliveStarted DEF Forking
  <1>3. c \in Node \cap {Left(at[q]), Right(at[q])} BY DEF Forking
  <1>4. q \in Ancestors(at[q]) BY <1>2 DEF Placed
  <1>5. \A x \in Node : Started(x) => c \notin Ancestors(x) /\ c \notin Ancestors(at[x])
    BY <1>2, <1>3, Untouched
  <1>6. \A x \in Node : Started(x) /\ x # q => at[x] # at[q]
    BY <1>2, OneAtANode
  <1>7. QED BY <1>1, <1>2, <1>3, <1>4, <1>5, <1>6, Children

LEMMA ForkAhead ==
    ASSUME Types, Placed, Ahead, NEW q \in Node, NEW c, NEW mine, NEW yours,
           Forking(q, c, mine, yours), Forked(q, c, mine, yours)
    PROVE  Ahead'
  <1>1. ~Started(c) /\ q # c BY DEF Forked
  <1>2. /\ at[q] \in Node /\ c \in Node /\ c \in {Left(at[q]), Right(at[q])} /\ line \in Lines
        /\ Front(c) = at[q] /\ (IsLeft(c) <=> c = Left(at[q]))
        /\ \A x \in Node : Started(x) => c \notin Ancestors(x)
        /\ \A x \in Node : Started(x) /\ x # q => at[x] # at[q]
    BY <1>1, ForkWhere
  <1> SUFFICES ASSUME NEW x \in Node, Alive(x)', NEW d \in Node, Started(d)'
               PROVE  /\ pc'[x] \in {"runcmd", "run_pipe_left", "run_pipe_right", "fork_left"} =>
                            d \notin {Left(at'[x]), Right(at'[x])}
                      /\ pc'[x] \in {"list_wait", "list_right", "fork_right"} => d # Right(at'[x])
    BY DEF Ahead
  <1>3. /\ at'[x] = IF x = c THEN c ELSE at[x]
        /\ pc'[x] = IF x = q THEN yours ELSE IF x = c THEN mine ELSE pc[x]
        /\ Started(d) \/ d = c
        /\ Alive(x) \/ x = c
    BY DEF Forked
  <1>4. CASE x = c
    <2>1. ASSUME d \in {Left(c), Right(c)} PROVE FALSE
      <3>1. c \in Ancestors(d) /\ c # d BY <1>2, <2>1, Children
      <3>2. QED BY <1>2, <1>3, <3>1
    <2>2. QED BY <1>3, <1>4, <2>1
  <1>5. CASE x = q
    <2>1. at'[x] = at[q] /\ pc'[x] = yours /\ yours \in {"list_wait", "return", "fork_right", "close_ends"}
      BY <1>1, <1>3, <1>5 DEF Forking
    <2>2. ASSUME yours \in {"list_wait", "fork_right"}, d = Right(at[q]) PROVE FALSE
      <3>1. c = Left(at[q]) /\ pc[q] \in {"runcmd", "fork_left"} /\ Alive(q)
        BY <2>2 DEF Forking
      <3>2. ~Started(d) BY <2>2, <3>1 DEF Ahead
      <3>3. d = c BY <1>3, <3>2
      <3>4. at[q] \in Node BY <1>2
      <3>5. QED BY <2>2, <3>1, <3>3, <3>4, Sides
    <2>3. QED BY <2>1, <2>2
  <1>6. CASE x # c /\ x # q
    <2>1. Alive(x) /\ at'[x] = at[x] /\ pc'[x] = pc[x] BY <1>3, <1>6
    <2>2. at[x] \in Node /\ at[x] # at[q]
      BY <1>2, <1>6, <2>1, AliveStarted DEF Types, Proc
    <2>3. d \in {Left(at[x]), Right(at[x])} => d # c BY <1>2, <2>2, Children
    <2>4. QED BY <1>3, <2>1, <2>3 DEF Ahead
  <1>7. QED BY <1>4, <1>5, <1>6


(* A process that a step leaves where it is.                                  *)
LEMMA WaitsSame ==
    ASSUME Types, NEW x \in Node, WaitsFor(x), InPlace(x),
           line' = line, at'[x] = at[x], pc'[x] = pc[x],
           \A d \in Node : /\ Pending(x, d)' => Pending(x, d)
                           /\ Started(d) /\ parent[d] = x => parent'[d] = x
                           /\ Started(d) => Started(d)'
                           /\ Ended(d) => Ended(d)'
    PROVE  WaitsFor(x)'
  <1>1. at[x] \in Node /\ line \in Lines BY DEF Types, Proc
  <1>2. kind' = kind BY DEF kind
  <1>3. ASSUME NEW d \in Node, Pending(x, d)'
        PROVE  /\ \/ d = Left(at[x]) /\ pc[x] \in {"list_wait", "fork_right"}
                  \/ /\ d \in {Left(at[x]), Right(at[x])}
                     /\ pc[x] \in {"close_ends", "wait1", "wait2"}
                  \/ d = Left(at[x]) /\ pc[x] = "return" /\ kind[at[x]] = "BACK"
               /\ pc[x] = "wait2" => \A e \in Node : Pending(x, e)' => e = d
    BY <1>3 DEF WaitsFor
  <1>4. pc[x] \in {"list_wait", "list_right"} => Left(at[x]) \in Node
    BY <1>1, Children DEF InPlace, Binary
  <1>5. pc[x] = "list_wait" => parent'[Left(at[x])] = x /\ (Started(Left(at[x])))'
    <2>1. HAVE pc[x] = "list_wait"
    <2>2. Started(Left(at[x])) /\ parent[Left(at[x])] = x BY <2>1 DEF WaitsFor
    <2>3. parent'[Left(at[x])] = x BY <1>4, <2>1, <2>2
    <2>4. state[Left(at[x])] # "none" => state'[Left(at[x])] # "none"
      BY <1>4, <2>1 DEF Started
    <2>5. QED BY <2>2, <2>3, <2>4 DEF Started
  <1>6. pc[x] = "list_right" => state'[Left(at[x])] \in {"zombie", "gone"}
    BY <1>4 DEF WaitsFor, Ended
  <1>7. QED BY <1>2, <1>3, <1>5, <1>6 DEF WaitsFor, Ended, Started

LEMMA InPlaceSame ==
    ASSUME NEW x, InPlace(x), line' = line, at'[x] = at[x], pc'[x] = pc[x]
    PROVE  InPlace(x)'
  <1>1. kind' = kind /\ \A n : Above(n)' = Above(n) BY SameLine
  <1>2. QED BY <1>1 DEF InPlace

LEMMA ForkLocated ==
    ASSUME Types, Placed, Located, NEW q \in Node, NEW c, NEW mine, NEW yours,
           Forking(q, c, mine, yours), Forked(q, c, mine, yours),
           state'[Shell] = "run", pc'[Shell] = pc[Shell]
    PROVE  Located'
  <1>1. ~Started(c) /\ q # c /\ line' = line /\ kind' = kind /\ \A n : Above(n)' = Above(n)
    BY SameLine DEF Forked
  <1>2. at[q] \in Node /\ c \in Node /\ c # Root BY <1>1, ForkWhere
  <1>3. ShellInPlace'
    <2>1. (Started(Root)' <=> Started(Root)) /\ (Ended(Root)' <=> Ended(Root))
      BY <1>2, NodeIsSeq DEF Forked
    <2>2. QED BY <2>1 DEF Located, ShellInPlace
  <1>4. ASSUME NEW x \in Node, Alive(x)' PROVE InPlace(x)'
    <2>1. /\ at'[x] = IF x = c THEN c ELSE at[x]
          /\ pc'[x] = IF x = q THEN yours ELSE IF x = c THEN mine ELSE pc[x]
          /\ Alive(x) \/ x = c
      BY <1>4 DEF Forked
    <2>2. CASE x = c
      <3>1. at'[x] = x /\ pc'[x] = mine BY <1>1, <2>1, <2>2
      <3>2. \/ mine = "runcmd"
            \/ mine = "run_pipe_left" /\ \E n \in Node : c = Left(n) /\ kind[n] = "PIPE"
            \/ mine = "run_pipe_right" /\ \E n \in Node : c = Right(n) /\ kind[n] = "PIPE"
        BY <1>2 DEF Forking
      <3>3. QED BY <1>1, <2>2, <3>1, <3>2 DEF InPlace
    <2>3. CASE x = q
      <3>1. at'[x] = at[x] /\ pc'[x] = yours BY <1>1, <2>1, <2>3
      <3>2. \/ yours = "list_wait" /\ kind[at[x]] = "LIST"
            \/ yours = "return" /\ kind[at[x]] = "BACK"
            \/ yours \in {"fork_right", "close_ends"} /\ kind[at[x]] = "PIPE"
        BY <2>3 DEF Forking
      <3>3. QED BY <1>1, <3>1, <3>2 DEF InPlace
    <2>4. CASE x # c /\ x # q BY <1>1, <2>1, <2>4, InPlaceSame DEF Located
    <2>5. QED BY <2>2, <2>3, <2>4
  <1>5. QED BY <1>3, <1>4 DEF Located

LEMMA ForkWaiting ==
    ASSUME Types, Placed, Located, Waiting, NEW q \in Node, NEW c, NEW mine, NEW yours,
           Forking(q, c, mine, yours), Forked(q, c, mine, yours)
    PROVE  Waiting'
  <1>1. ~Started(c) /\ q # c /\ line' = line /\ kind' = kind /\ Alive(q)
    BY SameLine DEF Forked, Forking
  <1>2. c \in Node /\ at[q] \in Node BY <1>1, ForkWhere
  <1>3. \A x \in Node : /\ at'[x] = IF x = c THEN c ELSE at[x]
                        /\ parent'[x] = IF x = c THEN q ELSE parent[x]
                        /\ pc'[x] = IF x = q THEN yours ELSE IF x = c THEN mine ELSE pc[x]
                        /\ Started(x)' <=> Started(x) \/ x = c
                        /\ Alive(x)' <=> Alive(x) \/ x = c
                        /\ Ended(x)' <=> Ended(x)
    BY DEF Forked
  <1>4. \A x \in Node, y \in Node : Pending(x, y)' <=> Pending(x, y) \/ (x = q /\ y = c)
    BY DEF Forked
  <1>5. ParentsLive'
    <2>1. \A y \in Node : Alive(y) => state'[y] \in {"run", "vforking"}
      BY <1>3 DEF Alive
    <2>2. SUFFICES ASSUME NEW x \in Node, parent'[x] \in Node
                   PROVE  state'[parent'[x]] \in {"run", "vforking"}
      BY DEF ParentsLive, Alive
    <2>3. Alive(parent'[x])
      <3>1. CASE x = c BY <1>1, <1>3, <3>1
      <3>2. CASE x # c BY <1>3, <2>2, <3>2 DEF Waiting, ParentsLive
      <3>3. QED BY <3>1, <3>2
    <2>4. QED BY <2>1, <2>2, <2>3
  <1>6. ASSUME NEW x \in Node, Alive(x)' PROVE WaitsFor(x)'
    <2>1. CASE x = c
      <3>1. mine \in {"runcmd", "run_pipe_left", "run_pipe_right"} BY DEF Forking
      <3>2. ~Alive(c) BY <1>1, AliveStarted
      <3>3. \A d \in Node : ~Pending(c, d)
        BY <1>2, <3>2 DEF Waiting, ParentsLive, Pending
      <3>4. pc'[x] = mine /\ \A d \in Node : ~Pending(x, d)' BY <1>1, <1>3, <1>4, <2>1, <3>3
      <3>5. QED BY <3>1, <3>4 DEF WaitsFor
    <2>2. CASE x = q
      <3>1. at'[q] = at[q] /\ pc'[q] = yours BY <1>1, <1>3
      <3>2. \A d \in Node : Pending(q, d) =>
               d = Left(at[q]) /\ pc[q] = "fork_right"
        BY <1>1 DEF Waiting, WaitsFor, Forking
      <3>3. yours = "list_wait" => parent'[Left(at[q])] = q /\ state'[Left(at[q])] # "none"
        <4>1. yours = "list_wait" => c = Left(at[q]) BY DEF Forking
        <4>2. QED BY <1>2, <1>3, <4>1 DEF Started
      <3>4. yours # "list_right" /\ yours # "wait2" BY DEF Forking
      <3>5. ASSUME NEW d \in Node, Pending(q, d)'
            PROVE  \/ d = Left(at[q]) /\ yours \in {"list_wait", "fork_right"}
                   \/ d \in {Left(at[q]), Right(at[q])} /\ yours \in {"close_ends", "wait1", "wait2"}
                   \/ d = Left(at[q]) /\ yours = "return" /\ kind[at[q]] = "BACK"
        <4>1. CASE d = c BY <4>1 DEF Forking
        <4>2. CASE Pending(q, d) BY <3>2, <4>2 DEF Forking
        <4>3. QED BY <1>4, <3>5, <4>1, <4>2
      <3>6. QED BY <1>1, <2>2, <3>1, <3>3, <3>4, <3>5 DEF WaitsFor, Started
    <2>3. CASE x # c /\ x # q
      <3>1. Alive(x) /\ at'[x] = at[x] /\ pc'[x] = pc[x] BY <1>3, <1>6, <2>3
      <3>2. \A d \in Node : /\ Pending(x, d)' => Pending(x, d)
                            /\ Started(d) /\ parent[d] = x => parent'[d] = x
                            /\ Started(d) => Started(d)'
                            /\ Ended(d) => Ended(d)'
        BY <1>1, <1>3, <1>4, <2>3
      <3>3. QED BY <1>1, <3>1, <3>2, WaitsSame DEF Waiting, Located
    <2>4. QED BY <2>1, <2>2, <2>3
  <1>7. QED BY <1>5, <1>6 DEF Waiting

LEMMA ForkLeftFirst ==
    ASSUME Types, Placed, LeftFirst, NEW q \in Node, NEW c, NEW mine, NEW yours,
           Forking(q, c, mine, yours), Forked(q, c, mine, yours)
    PROVE  LeftFirst'
  <1>1. ~Started(c) /\ q # c /\ line' = line /\ kind' = kind
    BY SameLine DEF Forked
  <1>2. /\ line \in Lines /\ at[q] \in Node /\ c \in Node /\ Started(q) /\ Front(c) = at[q]
        /\ Ancestors(c) = Ancestors(at[q]) \cup {c}
    BY <1>1, ForkWhere
  <1> SUFFICES ASSUME NEW n \in Node, NEW x \in Node, kind[n] = "LIST", Started(x)',
                      Right(n) \in Ancestors(at'[x])
               PROVE  state'[Left(n)] \in {"zombie", "gone"}
    BY <1>1 DEF LeftFirst, Ended
  <1>3. /\ at'[x] = IF x = c THEN c ELSE at[x]
        /\ Started(x) \/ x = c
    BY DEF Forked
  <1>4. Ended(Left(n)) => state'[Left(n)] \in {"zombie", "gone"}
    <2>1. Left(n) \in Node BY <1>2, Children DEF Binary
    <2>2. QED BY <2>1 DEF Forked, Ended
  <1>5. CASE x # c BY <1>3, <1>4, <1>5 DEF LeftFirst
  <1>6. CASE x = c
    <2>1. CASE Right(n) \in Ancestors(at[q]) BY <1>2, <1>4, <2>1 DEF LeftFirst
    <2>2. CASE Right(n) = c
      <3>1. n = at[q] /\ ~IsLeft(c) BY <1>2, <2>2, Children, Sides
      <3>2. c = Left(at[q]) BY <3>1 DEF Forking
      <3>3. QED BY <2>2, <3>1, <3>2, Sides
    <2>3. QED BY <1>2, <1>3, <1>6, <2>1, <2>2
  <1>7. QED BY <1>5, <1>6

LEMMA ForkNested ==
    ASSUME Types, Placed, Nested, NEW q \in Node, NEW c, NEW mine, NEW yours,
           Forking(q, c, mine, yours), Forked(q, c, mine, yours)
    PROVE  Nested'
  <1>1. ~Started(c) /\ q # c /\ line' = line /\ fails' = fails /\ Alive(q) /\ c \in Node
    BY DEF Forked, Forking
  <1>2. /\ at[q] \in Node /\ Started(q) /\ q \in Ancestors(at[q])
        /\ Ancestors(c) = Ancestors(at[q]) \cup {c}
        /\ \A x \in Node : Started(x) => c \notin Ancestors(x)
    BY <1>1, ForkWhere
  <1>3. \A x \in Node : (Started(x)' <=> Started(x) \/ x = c) /\ (Alive(x)' <=> Alive(x) \/ x = c)
    BY DEF Forked
  <1>4. \A x \in Node, y \in Node : Pending(x, y)' <=> Pending(x, y) \/ (x = q /\ y = c)
    BY DEF Forked
  <1> SUFFICES ASSUME fails = 0, NEW x \in Node, NEW r \in Node,
                      Started(x)', Alive(r)', x \in Ancestors(r), x # r
               PROVE  \/ InBackground(r, x)
                      \/ Alive(x)' /\ \E d \in Ancestors(r) : Pending(x, d)'
    <2>1. \A x, y : InBackground(x, y)' <=> InBackground(x, y) BY <1>1, SameLine
    <2>2. QED BY <1>1, <2>1 DEF Nested
  <1>5. ASSUME NEW d \in Ancestors(r), Pending(x, d), Alive(x)
        PROVE  Alive(x)' /\ \E e \in Ancestors(r) : Pending(x, e)'
    BY <1>3, <1>4, <1>5, AncestorsAreNodes
  <1>6. CASE r # c
    <2>1. Alive(r) /\ Started(r) BY <1>3, <1>6, AliveStarted
    <2>2. x # c BY <1>2, <2>1
    <2>3. Started(x) BY <1>3, <2>2
    <2>4. QED BY <1>5, <2>1, <2>3 DEF Nested
  <1>7. CASE r = c
    <2>1. x # c /\ Started(x) /\ x \in Ancestors(at[q]) BY <1>2, <1>3, <1>7
    <2>2. CASE x = q
      <3>1. c \in Ancestors(r) BY <1>7, AncestorSelf
      <3>2. Pending(x, c)' /\ Alive(x)' BY <1>1, <1>3, <1>4, <2>2
      <3>3. QED BY <3>1, <3>2
    <2>3. CASE x # q
      <3>1. x \in Ancestors(q)
        <4>1. x \in Ancestors(q) \/ q \in Ancestors(x) BY <1>2, <2>1, AncestorsInLine
        <4>2. q \notin Ancestors(x) BY <1>2, <2>1, <2>3 DEF Placed
        <4>3. QED BY <4>1, <4>2
      <3>2. q \in Ancestors(r) BY <1>2, <1>7
      <3>3. InBackground(q, x) \/ (Alive(x) /\ \E d \in Ancestors(q) : Pending(x, d))
        BY <1>1, <2>1, <2>3, <3>1 DEF Nested
      <3>4. CASE InBackground(q, x) BY <3>2, <3>4, BackgroundDown
      <3>5. CASE Alive(x) /\ \E d \in Ancestors(q) : Pending(x, d)
        <4>1. PICK d \in Ancestors(q) : Pending(x, d) BY <3>5
        <4>2. d \in Ancestors(r) BY <3>2, <4>1, AncestorTrans
        <4>3. QED BY <1>5, <3>5, <4>1, <4>2
      <3>6. QED BY <3>3, <3>4, <3>5
    <2>4. QED BY <2>2, <2>3
  <1>8. QED BY <1>6, <1>7

LEMMA ForkWalked ==
    ASSUME Types, Walked, NEW q \in Node, NEW c, NEW mine, NEW yours, NEW v,
           Forking(q, c, mine, yours), Fork(q, c, mine, yours, v)
    PROVE  Walked'
  <1>1. q \in Proc /\ Shell \in Proc /\ q # Shell /\ c # Shell /\ c \in Node
    BY NotNodes DEF Proc, Forking
  <1>2. Forked(q, c, mine, yours) /\ state'[Shell] = "run" /\ pc'[Shell] = pc[Shell]
    BY <1>1, ForkFrame DEF Forked, Walked, Located, ShellInPlace, Proc
  <1>3. Started(q) /\ ~Started(c) /\ c \in Node \cap {Left(at[q]), Right(at[q])}
    BY <1>2, AliveStarted DEF Forking, Forked
  <1>4. Placed'
    <2>1. \A x \in Node : /\ at'[x] = IF x = c THEN c ELSE at[x]
                          /\ Started(x)' <=> Started(x) \/ x = c
      BY <1>2 DEF Forked
    <2>2. QED BY <1>3, <2>1, PlacedFork DEF Walked
  <1>5. Ahead' /\ Located' BY <1>2, ForkAhead, ForkLocated DEF Walked
  <1>6. Waiting' /\ LeftFirst' /\ Nested'
    BY <1>2, ForkWaiting, ForkLeftFirst, ForkNested DEF Walked
  <1>7. QED BY <1>4, <1>5, <1>6 DEF Walked

-----------------------------------------------------------------------------
(* exit() *)

LEMMA LeftFirstSame ==
    ASSUME Types, LeftFirst, line' = line,
           \A x \in Node : /\ at'[x] = at[x]
                           /\ Started(x)' <=> Started(x)
                           /\ Ended(x) => Ended(x)'
    PROVE  LeftFirst'
  <1>1. kind' = kind /\ line \in Lines BY DEF kind, Types
  <1> SUFFICES ASSUME NEW n \in Node, NEW x \in Node, kind[n] = "LIST", Started(x)',
                      Right(n) \in Ancestors(at'[x])
               PROVE  state'[Left(n)] \in {"zombie", "gone"}
    BY <1>1 DEF LeftFirst, Ended
  <1>2. Left(n) \in Node BY <1>1, Children DEF Binary
  <1>3. Ended(Left(n)) BY DEF LeftFirst
  <1>4. QED BY <1>2, <1>3 DEF Ended

LEMMA ExitNested ==
    ASSUME Types, Placed, Located, Waiting, Nested, NEW q \in Node, Exit(q),
           state[q] = "run",
           (pc[q] \in {"runcmd", "return", "prog"} /\ fails' = fails) \/ fails' # 0
    PROVE  Nested'
  <1>1. CASE fails' # 0 BY <1>1 DEF Nested
  <1>2. CASE pc[q] \in {"runcmd", "return", "prog"} /\ fails' = fails
    <2>1. /\ line' = line
          /\ \A x \in Node : /\ Started(x)' <=> Started(x)
                             /\ Alive(x)' <=> Alive(x) /\ x # q
          /\ \A x \in Node, y \in Node : x # q => (Pending(x, y)' <=> Pending(x, y))
      BY ExitFrame DEF Proc, Located, ShellInPlace
    <2>2. \A x, y : InBackground(x, y)' <=> InBackground(x, y) BY <2>1, SameLine
    <2> SUFFICES ASSUME fails = 0, NEW x \in Node, NEW r \in Node,
                        Started(x)', Alive(r)', x \in Ancestors(r), x # r
                 PROVE  \/ InBackground(r, x)
                        \/ Alive(x)' /\ \E d \in Ancestors(r) : Pending(x, d)'
      BY <1>2, <2>2 DEF Nested
    <2>3. InBackground(r, x) \/ (Alive(x) /\ \E d \in Ancestors(r) : Pending(x, d))
      BY <2>1 DEF Nested
    <2>4. CASE x # q
      BY <2>1, <2>3, <2>4, AncestorsAreNodes
    <2>5. CASE x = q
      <3>1. ASSUME NEW d \in Ancestors(r), Pending(q, d) PROVE InBackground(r, q)
        <4>1. d \in Node /\ Alive(q) /\ at[q] \in Node /\ line \in Lines
          BY AncestorsAreNodes DEF Alive, Types, Proc
        <4>2. d = Left(at[q]) /\ kind[at[q]] = "BACK"
          BY <1>2, <3>1, <4>1 DEF Waiting, WaitsFor
        <4>3. q \in Ancestors(at[q]) BY <4>1, AliveStarted DEF Placed
        <4>4. QED BY <3>1, <4>1, <4>2, <4>3, BackgroundHere
      <3>2. QED BY <2>3, <2>5, <3>1
    <2>6. QED BY <2>4, <2>5
  <1>3. QED BY <1>1, <1>2

LEMMA ExitWalked ==
    ASSUME Types, Walked, NEW q \in Node, Exit(q), state[q] = "run",
           (pc[q] \in {"runcmd", "return", "prog"} /\ fails' = fails) \/ fails' # 0
    PROVE  Walked'
  <1>1. /\ line' = line /\ state'[Shell] = "run" /\ ~Alive(q)'
        /\ \A x \in Proc :
              /\ at'[x] = at[x]
              /\ parent'[x] = IF parent[x] = q THEN InitProc ELSE parent[x]
              /\ x # q => pc'[x] = pc[x]
              /\ Started(x)' <=> Started(x)
              /\ Ended(x) => Ended(x)'
              /\ x # q => (Alive(x)' <=> Alive(x))
        /\ \A x \in Proc, y \in Node :
              /\ x # q => (Pending(x, y)' <=> Pending(x, y))
              /\ x # q /\ parent[y] = x => parent'[y] = x
    BY ExitFrame DEF Walked, Located, ShellInPlace
  <1>2. Node \subseteq Proc /\ Shell \in Proc /\ q # Shell /\ InitProc \notin Node
    BY NotNodes DEF Proc
  <1>3. Placed' BY <1>1, <1>2, PlacedSame DEF Walked
  <1>4. Ahead'
    <2>1. \A x \in Node : Alive(x)' => Alive(x) /\ at'[x] = at[x] /\ pc'[x] = pc[x]
      BY <1>1, <1>2
    <2>2. QED BY <1>1, <1>2, <2>1 DEF Walked, Ahead
  <1>5. Located'
    <2>1. ShellInPlace'
      <3>1. pc'[Shell] = pc[Shell] BY <1>1, <1>2
      <3>2. (Started(Root)' <=> Started(Root)) /\ (Ended(Root) => Ended(Root)')
        BY <1>1, <1>2, NodeIsSeq
      <3>3. QED BY <1>1, <3>1, <3>2 DEF Walked, Located, ShellInPlace
    <2>2. ASSUME NEW x \in Node, Alive(x)' PROVE InPlace(x)'
      <3>1. x # q /\ InPlace(x) BY <1>1, <1>2, <2>2 DEF Walked, Located
      <3>2. QED BY <1>1, <1>2, <3>1, InPlaceSame
    <2>3. QED BY <2>1, <2>2 DEF Located
  <1>6. Waiting'
    <2>1. ParentsLive'
      <3>1. SUFFICES ASSUME NEW x \in Node, parent'[x] \in Node
                     PROVE  state'[parent'[x]] \in {"run", "vforking"}
        BY DEF ParentsLive, Alive
      <3>2. parent'[x] = parent[x] /\ parent[x] # q BY <1>1, <1>2, <3>1
      <3>3. Alive(parent[x]) BY <3>1, <3>2 DEF Walked, Waiting, ParentsLive
      <3>4. \A y \in Node : Alive(y) /\ y # q => state'[y] \in {"run", "vforking"}
        BY <1>1, <1>2 DEF Alive
      <3>5. QED BY <3>1, <3>2, <3>3, <3>4
    <2>2. ASSUME NEW x \in Node, Alive(x)' PROVE WaitsFor(x)'
      <3>1. x # q /\ Alive(x) BY <1>1, <1>2, <2>2
      <3>2. WaitsFor(x) /\ InPlace(x) BY <3>1 DEF Walked, Located, Waiting
      <3>3. /\ at'[x] = at[x] /\ pc'[x] = pc[x]
            /\ \A d \in Node : /\ Pending(x, d)' => Pending(x, d)
                               /\ Started(d) /\ parent[d] = x => parent'[d] = x
                               /\ Started(d) => Started(d)'
                               /\ Ended(d) => Ended(d)'
        BY <1>1, <1>2, <3>1
      <3>4. QED BY <1>1, <3>2, <3>3, WaitsSame
    <2>3. QED BY <2>1, <2>2 DEF Waiting
  <1>7. LeftFirst' BY <1>1, <1>2, LeftFirstSame DEF Walked
  <1>8. Nested' BY ExitNested DEF Walked
  <1>9. QED BY <1>3, <1>4, <1>5, <1>6, <1>7, <1>8 DEF Walked

-----------------------------------------------------------------------------
(* Steps that neither start nor end a process *)

LEMMA OthersStay ==
    ASSUME Types, Located, Waiting, NEW q \in Node, line' = line,
           state'[Shell] = "run", pc'[Shell] = pc[Shell],
           \A x \in Node : /\ x # q => at'[x] = at[x] /\ pc'[x] = pc[x]
                           /\ parent'[x] = parent[x]
                           /\ Started(x)' <=> Started(x)
                           /\ Alive(x)' <=> Alive(x)
                           /\ Ended(x)' <=> Ended(x),
           \A x \in Node, d \in Node : Pending(x, d)' => Pending(x, d),
           Alive(q) => InPlace(q)' /\ WaitsFor(q)'
    PROVE  Located' /\ Waiting'
  <1>1. ShellInPlace'
    <2>1. (Started(Root)' <=> Started(Root)) /\ (Ended(Root)' <=> Ended(Root))
      BY NodeIsSeq
    <2>2. QED BY <2>1 DEF Located, ShellInPlace
  <1>2. ParentsLive'
    <2>1. \A x \in Node : Alive(x) => state'[x] \in {"run", "vforking"} BY DEF Alive
    <2>2. QED BY <2>1 DEF Waiting, ParentsLive, Alive
  <1>3. ASSUME NEW x \in Node, Alive(x)' PROVE InPlace(x)' /\ WaitsFor(x)'
    <2>1. Alive(x) BY <1>3
    <2>2. CASE x = q BY <2>1, <2>2
    <2>3. CASE x # q
      <3>1. WaitsFor(x) /\ InPlace(x) BY <2>1 DEF Waiting, Located
      <3>2. /\ at'[x] = at[x] /\ pc'[x] = pc[x]
            /\ \A d \in Node : /\ Pending(x, d)' => Pending(x, d)
                               /\ Started(d) /\ parent[d] = x => parent'[d] = x
                               /\ Started(d) => Started(d)'
                               /\ Ended(d) => Ended(d)'
        BY <2>3
      <3>3. QED BY <3>1, <3>2, WaitsSame, InPlaceSame
    <2>4. QED BY <2>2, <2>3
  <1>4. QED BY <1>1, <1>2, <1>3 DEF Located, Waiting

-----------------------------------------------------------------------------
(* wait() *)

(* wait() leaves the processes, or takes one that has exited.                 *)
LEMMA WaitFrame ==
    ASSUME Types, NEW q \in Node, NEW next, Wait(q, next), state[Shell] = "run"
    PROVE  /\ line' = line /\ fails' = fails /\ at' = at /\ parent' = parent /\ Alive(q)
           /\ state'[Shell] = "run"
           /\ \A x \in Proc :
                 /\ pc'[x] = IF x = q THEN next ELSE pc[x]
                 /\ Started(x)' <=> Started(x)
                 /\ Alive(x)' <=> Alive(x)
                 /\ Ended(x)' <=> Ended(x)
           /\ \/ /\ \A d \in Node : ~Pending(q, d)
                 /\ state' = state
              \/ \E c \in Node :
                    /\ Pending(q, c) /\ Ended(c)
                    /\ \A x \in Node, y \in Node : Pending(x, y)' <=> Pending(x, y) /\ y # c
  <1> USE DEF Types, Proc
  <1>1. /\ line' = line /\ fails' = fails /\ at' = at /\ parent' = parent /\ Alive(q)
        /\ \A x \in Proc : pc'[x] = IF x = q THEN next ELSE pc[x]
    BY DEF Wait, Alive
  <1>2. CASE state' = state /\ \A c \in Proc : parent[c] = q => state[c] \in {"none", "gone"}
    <2>1. \A d \in Node : ~Pending(q, d) BY <1>2 DEF Pending
    <2>2. \A x \in Proc : /\ Started(x)' <=> Started(x)
                          /\ Alive(x)' <=> Alive(x)
                          /\ Ended(x)' <=> Ended(x)
      BY <1>2 DEF Started, Alive, Ended
    <2>3. QED BY <1>1, <1>2, <2>1, <2>2
  <1>3. ASSUME NEW c \in Proc, parent[c] = q, state[c] = "zombie",
               state' = [state EXCEPT ![c] = "gone"]
        PROVE  /\ state'[Shell] = "run" /\ c \in Node
               /\ \A x \in Proc : /\ Started(x)' <=> Started(x)
                                  /\ Alive(x)' <=> Alive(x)
                                  /\ Ended(x)' <=> Ended(x)
               /\ Pending(q, c) /\ Ended(c)
               /\ \A x \in Node, y \in Node : Pending(x, y)' <=> Pending(x, y) /\ y # c
    <2>1. \A x \in Proc : state'[x] = IF x = c THEN "gone" ELSE state[x] BY <1>3
    <2>2. \A x \in Proc : /\ Started(x)' <=> Started(x)
                          /\ Alive(x)' <=> Alive(x)
                          /\ Ended(x)' <=> Ended(x)
      BY <1>3, <2>1 DEF Started, Alive, Ended
    <2>3. Pending(q, c) /\ Ended(c) BY <1>3 DEF Pending, Ended
    <2>4. \A x \in Node, y \in Node : Pending(x, y)' <=> Pending(x, y) /\ y # c
      BY <1>1, <2>1 DEF Pending
    <2>5. QED BY <1>3, <2>1, <2>2, <2>3, <2>4
  <1>4. \/ \E c \in Proc : /\ parent[c] = q /\ state[c] = "zombie"
                           /\ state' = [state EXCEPT ![c] = "gone"]
        \/ /\ \A c \in Proc : parent[c] = q => state[c] \in {"none", "gone"}
           /\ state' = state
    BY DEF Wait
  <1>5. QED BY <1>1, <1>2, <1>3, <1>4

(* The waits of runcmd().                                                     *)
Waited(q, next) ==
    \/ pc[q] = "list_wait" /\ next = "list_right"
    \/ pc[q] = "wait1" /\ next = "wait2"
    \/ pc[q] = "wait2" /\ next = "return"

LEMMA WaitWaits ==
    ASSUME Types, Located, Waiting, NEW q \in Node, NEW next, Wait(q, next), Waited(q, next)
    PROVE  WaitsFor(q)'
  <1> DEFINE L == Left(at[q])
             R == Right(at[q])
  <1>1. /\ line' = line /\ at' = at /\ parent' = parent /\ Alive(q) /\ pc'[q] = next
        /\ \A x \in Node : Ended(x)' <=> Ended(x)
        /\ \/ \A d \in Node : ~Pending(q, d) /\ ~Pending(q, d)'
           \/ \E c \in Node :
                 /\ Pending(q, c) /\ Ended(c)
                 /\ \A d \in Node : Pending(q, d)' <=> Pending(q, d) /\ d # c
    <2>1. state' = state /\ parent' = parent => \A d \in Node : Pending(q, d)' <=> Pending(q, d)
      BY DEF Pending
    <2>2. QED BY <2>1, WaitFrame DEF Located, ShellInPlace, Proc
  <1>2. InPlace(q) /\ WaitsFor(q) /\ kind' = kind
    BY <1>1, SameLine DEF Located, Waiting
  <1>3. CASE pc[q] = "list_wait" /\ next = "list_right"
    <2>1. \A d \in Node : Pending(q, d) => d = L
      BY <1>2, <1>3 DEF WaitsFor
    <2>2. L \in Node
      <3>1. at[q] \in Node /\ line \in Lines BY DEF Types, Proc
      <3>2. QED BY <1>2, <1>3, <3>1, Children DEF InPlace, Binary
    <2>3. parent[L] = q /\ Started(L) BY <1>2, <1>3 DEF WaitsFor
    <2>4. ~Pending(q, L) => Ended(L)
      BY <2>2, <2>3 DEF Pending, Started, Ended, Types, Proc
    <2>5. Ended(L) BY <1>1, <2>1, <2>2, <2>4
    <2>6. \A d \in Node : ~Pending(q, d)' BY <1>1, <2>1
    <2>7. state'[L] \in {"zombie", "gone"} BY <1>1, <2>2, <2>5 DEF Ended
    <2>8. QED BY <1>1, <1>3, <2>6, <2>7 DEF WaitsFor, Ended
  <1>4. CASE pc[q] = "wait1" /\ next = "wait2"
    <2>1. \A d \in Node : Pending(q, d) => d \in {L, R}
      BY <1>2, <1>4 DEF WaitsFor
    <2>2. \A d \in Node, e \in Node : Pending(q, d)' /\ Pending(q, e)' => d = e
      BY <1>1, <2>1
    <2>3. \A d \in Node : Pending(q, d)' => Pending(q, d) BY <1>1
    <2>4. QED BY <1>1, <1>4, <2>1, <2>2, <2>3 DEF WaitsFor
  <1>5. CASE pc[q] = "wait2" /\ next = "return"
    <2>1. \A d \in Node, e \in Node : Pending(q, d) /\ Pending(q, e) => d = e
      BY <1>2, <1>5 DEF WaitsFor
    <2>2. \A d \in Node : ~Pending(q, d)' BY <1>1, <2>1
    <2>3. QED BY <1>1, <1>5, <2>2 DEF WaitsFor
  <1>6. QED BY <1>3, <1>4, <1>5 DEF Waited

LEMMA WaitNested ==
    ASSUME Types, Walked, NEW q \in Node, NEW next, Wait(q, next)
    PROVE  Nested'
  <1>1. /\ line' = line /\ fails' = fails /\ Alive(q)
        /\ \A x \in Node : (Started(x)' <=> Started(x)) /\ (Alive(x)' <=> Alive(x))
        /\ \/ \A x \in Node, d \in Node : Pending(x, d)' <=> Pending(x, d)
           \/ \E c \in Node :
                 /\ Pending(q, c) /\ Ended(c)
                 /\ \A x \in Node, d \in Node : Pending(x, d)' <=> Pending(x, d) /\ d # c
    <2>1. state' = state /\ parent' = parent =>
             \A x \in Node, d \in Node : Pending(x, d)' <=> Pending(x, d)
      BY DEF Pending
    <2>2. QED BY <2>1, WaitFrame DEF Walked, Located, ShellInPlace, Proc
  <1>2. \A x, y : InBackground(x, y)' <=> InBackground(x, y) BY <1>1, SameLine
  <1> SUFFICES ASSUME fails = 0, NEW x \in Node, NEW r \in Node,
                      Started(x), Alive(r), x \in Ancestors(r), x # r
               PROVE  \/ InBackground(r, x)
                      \/ Alive(x) /\ \E d \in Ancestors(r) : Pending(x, d)'
    BY <1>1, <1>2 DEF Nested
  <1>3. InBackground(r, x) \/ (Alive(x) /\ \E d \in Ancestors(r) : Pending(x, d))
    BY DEF Walked, Nested
  <1>4. ASSUME NEW c \in Ancestors(r), Pending(q, c), Ended(c), x = q
        PROVE  InBackground(r, x)
    <2>1. c \in Node /\ at[q] \in Node /\ line \in Lines BY AncestorsAreNodes DEF Types, Proc
    <2>2. c # r /\ Started(c) /\ ~Alive(c) BY <1>4 DEF Ended, Alive, Started
    <2>3. InBackground(r, c) BY <2>1, <2>2 DEF Walked, Nested
    <2>4. c \in {Left(at[q]), Right(at[q])} BY <1>1, <1>4, <2>1 DEF Walked, Waiting, WaitsFor
    <2>5. q \in Ancestors(c)
      <3>1. q \in Ancestors(at[q]) BY <1>4 DEF Walked, Placed
      <3>2. QED BY <2>1, <2>4, <3>1, Children
    <2>6. QED BY <1>4, <2>1, <2>3, <2>5, BackgroundUp
  <1>5. \A d \in Node : Pending(x, d) /\ Pending(q, d) => x = q BY DEF Pending
  <1>6. QED BY <1>1, <1>3, <1>4, <1>5, AncestorsAreNodes

LEMMA WaitWalked ==
    ASSUME Types, Walked, NEW q \in Node, NEW next, Wait(q, next), Waited(q, next)
    PROVE  Walked'
  <1>1. /\ line' = line /\ at' = at /\ parent' = parent /\ state'[Shell] = "run"
        /\ \A x \in Proc :
              /\ pc'[x] = IF x = q THEN next ELSE pc[x]
              /\ Started(x)' <=> Started(x)
              /\ Alive(x)' <=> Alive(x)
              /\ Ended(x)' <=> Ended(x)
        /\ \A x \in Node, d \in Node : Pending(x, d)' => Pending(x, d)
    <2>1. state' = state /\ parent' = parent =>
             \A x \in Node, d \in Node : Pending(x, d)' <=> Pending(x, d)
      BY DEF Pending
    <2>2. QED BY <2>1, WaitFrame DEF Walked, Located, ShellInPlace, Proc
  <1>2. Node \subseteq Proc /\ Shell \in Proc /\ q # Shell
    BY NotNodes DEF Proc
  <1>3. Placed' BY <1>1, <1>2, PlacedSame DEF Walked
  <1>4. Ahead' BY <1>1, <1>2 DEF Walked, Ahead, Waited
  <1>5. Located' /\ Waiting'
    <2>1. pc'[Shell] = pc[Shell] BY <1>1, <1>2
    <2>2. ASSUME Alive(q) PROVE InPlace(q)'
      <3>1. InPlace(q) /\ pc'[q] = next BY <1>1, <1>2, <2>2 DEF Walked, Located
      <3>2. kind' = kind /\ at'[q] = at[q] BY <1>1, SameLine
      <3>3. QED BY <3>1, <3>2 DEF InPlace, Waited
    <2>3. WaitsFor(q)' BY WaitWaits DEF Walked
    <2>4. QED BY <1>1, <1>2, <2>1, <2>2, <2>3, OthersStay DEF Walked
  <1>6. LeftFirst' BY <1>1, <1>2, LeftFirstSame DEF Walked
  <1>7. Nested' BY WaitNested
  <1>8. QED BY <1>3, <1>4, <1>5, <1>6, <1>7 DEF Walked


-----------------------------------------------------------------------------
(* The other statements of runcmd() *)

(* From one statement to the next, at the same node.                          *)
Called(q, next) ==
    \/ pc[q] \in {"run_pipe_left", "run_pipe_right"} /\ next = "runcmd"
    \/ pc[q] = "runcmd" /\ kind[at[q]] = "PIPE" /\ next = "fork_left"
    \/ pc[q] = "close_ends" /\ next = "wait1"
    \/ pc[q] = "runcmd" /\ next = "prog"
    \/ pc[q] = next

LEMMA CallWalked ==
    ASSUME Types, Walked, NEW q \in Node, NEW next, Called(q, next),
           line' = line, fails' = fails, at' = at, parent' = parent, state'[Shell] = "run",
           \A x \in Proc : /\ pc'[x] = IF x = q THEN next ELSE pc[x]
                           /\ Started(x)' <=> Started(x)
                           /\ Alive(x)' <=> Alive(x)
                           /\ Ended(x)' <=> Ended(x),
           \A x \in Node, d \in Node : Pending(x, d)' <=> Pending(x, d)
    PROVE  Walked'
  <1>1. Node \subseteq Proc /\ Shell \in Proc /\ q # Shell
    BY NotNodes DEF Proc
  <1>2. Placed' BY <1>1, PlacedSame DEF Walked
  <1>3. Ahead' BY <1>1 DEF Walked, Ahead, Called
  <1>4. Located' /\ Waiting'
    <2>1. pc'[Shell] = pc[Shell] BY <1>1
    <2>2. ASSUME Alive(q) PROVE InPlace(q)' /\ WaitsFor(q)'
      <3>1. InPlace(q) /\ WaitsFor(q) BY <2>2 DEF Walked, Located, Waiting
      <3>2. /\ kind' = kind /\ at'[q] = at[q] /\ pc'[q] = next
            /\ \A n : Above(n)' = Above(n)
        BY <1>1, SameLine
      <3>3. InPlace(q)' BY <3>1, <3>2 DEF InPlace, Called
      <3>4. WaitsFor(q)'
        <4>1. CASE pc[q] = next
          <5>1. /\ pc'[q] = pc[q]
                /\ \A d \in Node : /\ Pending(q, d)' => Pending(q, d)
                                   /\ Started(d) /\ parent[d] = q => parent'[d] = q
                                   /\ Started(d) => Started(d)'
                                   /\ Ended(d) => Ended(d)'
            BY <1>1, <3>2, <4>1
          <5>2. QED BY <3>1, <3>2, <5>1, WaitsSame
        <4>2. CASE pc[q] = "close_ends" /\ next = "wait1"
          <5>1. \A d \in Node : Pending(q, d) => d \in {Left(at[q]), Right(at[q])}
            BY <3>1, <4>2 DEF WaitsFor
          <5>2. QED BY <3>2, <4>2, <5>1 DEF WaitsFor
        <4>3. CASE /\ pc[q] \in {"run_pipe_left", "run_pipe_right", "runcmd"}
                   /\ next \in {"runcmd", "fork_left", "prog"}
          <5>1. \A d \in Node : ~Pending(q, d) BY <3>1, <4>3 DEF WaitsFor
          <5>2. QED BY <3>2, <4>3, <5>1 DEF WaitsFor
        <4>4. QED BY <4>1, <4>2, <4>3 DEF Called
      <3>5. QED BY <3>3, <3>4
    <2>3. QED BY <1>1, <2>1, <2>2, OthersStay DEF Walked
  <1>5. LeftFirst' BY <1>1, LeftFirstSame DEF Walked
  <1>6. Nested'
    <2>1. \A x, y : InBackground(x, y)' <=> InBackground(x, y) BY SameLine
    <2>2. ASSUME fails = 0, NEW x \in Node, NEW r \in Node,
                 Started(x)', Alive(r)', x \in Ancestors(r), x # r
          PROVE  \/ InBackground(r, x)
                 \/ Alive(x)' /\ \E d \in Ancestors(r) : Pending(x, d)'
      <3>1. Started(x) /\ Alive(r) /\ (Alive(x)' <=> Alive(x)) BY <1>1, <2>2
      <3>2. InBackground(r, x) \/ (Alive(x) /\ \E d \in Ancestors(r) : Pending(x, d))
        BY <2>2, <3>1 DEF Walked, Nested
      <3>3. QED BY <3>1, <3>2, AncestorsAreNodes
    <2>3. QED BY <2>1, <2>2 DEF Nested
  <1>7. QED BY <1>2, <1>3, <1>4, <1>5, <1>6 DEF Walked

(* A process goes on with the command of a redirection, or with the right     *)
(* command of a list.                                                         *)
Moved(q, c) ==
    \/ c = Left(at[q]) /\ kind[at[q]] \in {"OUT", "IN"} /\ pc[q] = "runcmd"
    \/ c = Right(at[q]) /\ kind[at[q]] = "LIST" /\ pc[q] = "list_right"

LEMMA MoveWalked ==
    ASSUME Types, Walked, NEW q \in Node, Alive(q), NEW c, Moved(q, c),
           line' = line, fails' = fails, state' = state, parent' = parent,
           \A x \in Proc : /\ at'[x] = IF x = q THEN c ELSE at[x]
                           /\ pc'[x] = IF x = q THEN "runcmd" ELSE pc[x]
    PROVE  Walked'
  <1>1. Node \subseteq Proc /\ Shell \in Proc /\ q # Shell
    BY NotNodes DEF Proc
  <1>2. \A x \in Proc : /\ Started(x)' <=> Started(x)
                        /\ Alive(x)' <=> Alive(x)
                        /\ Ended(x)' <=> Ended(x)
    BY DEF Started, Alive, Ended
  <1>3. \A x, d : Pending(x, d)' <=> Pending(x, d) BY DEF Pending
  <1>4. at[q] \in Node /\ line \in Lines /\ kind' = kind BY <1>1, SameLine DEF Types
  <1>5. c \in Node \cap {Left(at[q]), Right(at[q])}
    BY <1>4, Children DEF Moved, Binary, Unary
  <1>6. Started(q) /\ ~Started(c)
    <2>1. CASE pc[q] = "runcmd" BY <1>5, <2>1, AliveStarted DEF Walked, Ahead
    <2>2. CASE c = Right(at[q]) /\ pc[q] = "list_right"
      BY <1>5, <2>2, AliveStarted DEF Walked, Ahead
    <2>3. QED BY <2>1, <2>2 DEF Moved
  <1>7. /\ Front(c) = at[q] /\ Ancestors(c) = Ancestors(at[q]) \cup {c}
        /\ IsLeft(c) <=> c = Left(at[q])
    BY <1>4, <1>5, Children
  <1>8. Placed' BY <1>1, <1>2, <1>5, <1>6, PlacedMove DEF Walked
  <1>9. Ahead'
    <2>1. SUFFICES ASSUME NEW x \in Node, Alive(x), NEW d \in Node, Started(d)
                   PROVE  /\ pc'[x] \in {"runcmd", "run_pipe_left", "run_pipe_right", "fork_left"} =>
                                d \notin {Left(at'[x]), Right(at'[x])}
                          /\ pc'[x] \in {"list_wait", "list_right", "fork_right"} =>
                                d # Right(at'[x])
      BY <1>1, <1>2 DEF Ahead
    <2>2. CASE x = q
      <3>1. c \notin Ancestors(d) BY <1>5, <1>6, <2>1, Untouched DEF Walked
      <3>2. d \notin {Left(c), Right(c)} BY <1>4, <1>5, <3>1, Children
      <3>3. QED BY <1>1, <2>2, <3>2
    <2>3. CASE x # q BY <1>1, <2>1, <2>3 DEF Walked, Ahead
    <2>4. QED BY <2>2, <2>3
  <1>10. Located' /\ Waiting'
    <2>1. pc'[Shell] = pc[Shell] /\ state'[Shell] = "run"
      BY <1>1 DEF Walked, Located, ShellInPlace
    <2>2. pc'[q] = "runcmd" BY <1>1
    <2>3. \A d \in Node : ~Pending(q, d)' BY <1>3 DEF Walked, Waiting, WaitsFor, Moved
    <2>4. InPlace(q)' /\ WaitsFor(q)' BY <2>2, <2>3 DEF InPlace, WaitsFor
    <2>5. QED BY <1>1, <1>2, <1>3, <2>1, <2>4, OthersStay DEF Walked
  <1>11. LeftFirst'
    <2>1. SUFFICES ASSUME NEW n \in Node, NEW x \in Node, kind[n] = "LIST", Started(x),
                          Right(n) \in Ancestors(at'[x])
                   PROVE  Ended(Left(n))
      BY <1>1, <1>2, <1>4 DEF LeftFirst, Ended
    <2>2. CASE Right(n) \in Ancestors(at[x]) BY <2>1, <2>2 DEF Walked, LeftFirst
    <2>3. CASE x = q /\ Right(n) = c
      <3>1. n = at[q] /\ c = Right(at[q])
        BY <1>4, <1>5, <1>7, <2>1, <2>3, Children, Sides
      <3>2. pc[q] = "list_right" BY <1>4, <3>1, Sides DEF Moved
      <3>3. QED BY <3>1, <3>2 DEF Walked, Waiting, WaitsFor
    <2>4. QED BY <1>1, <1>7, <2>1, <2>2, <2>3
  <1>12. Nested'
    <2>1. \A x, y : InBackground(x, y)' <=> InBackground(x, y) BY SameLine
    <2>2. QED BY <1>1, <1>2, <1>3, <2>1 DEF Walked, Nested
  <1>13. QED BY <1>8, <1>9, <1>10, <1>11, <1>12 DEF Walked

-----------------------------------------------------------------------------
(* run_line() *)

LEMMA ForkRoot ==
    ASSUME Types, Walked, pc[Shell] = "run_line",
           Fork(Shell, Root, "runcmd", "waitpid", FALSE)
    PROVE  Walked'
  <1>1. Root \in Node /\ Node \subseteq Proc /\ Shell \in Proc /\ Shell \notin Node /\ line \in Lines
    BY NodeIsSeq, NotNodes DEF Proc, Types
  <1>2. /\ line' = line /\ ~Started(Root) /\ state'[Shell] = "run"
        /\ pc'[Shell] = "waitpid" /\ pc'[Root] = "runcmd"
        /\ \A x \in Node :
              /\ at'[x] = IF x = Root THEN Root ELSE at[x]
              /\ parent'[x] = IF x = Root THEN Shell ELSE parent[x]
              /\ Started(x)' <=> Started(x) \/ x = Root
              /\ Alive(x)' <=> Alive(x) \/ x = Root
        /\ \A x \in Node, y \in Node : Pending(x, y)' <=> Pending(x, y)
    <2> DEFINE v == FALSE
    <2>0. Fork(Shell, Root, "runcmd", "waitpid", v) OBVIOUS
    <2> HIDE DEF v
    <2>1. /\ line' = line /\ ~Started(Root)
          /\ state'[Shell] = IF Shell = Shell /\ v THEN "vforking" ELSE state[Shell]
          /\ \A x \in Proc :
                /\ at'[x] = IF x = Root THEN Root ELSE at[x]
                /\ parent'[x] = IF x = Root THEN Shell ELSE parent[x]
                /\ pc'[x] = IF x = Shell THEN "waitpid"
                            ELSE IF x = Root THEN "runcmd" ELSE pc[x]
                /\ Started(x)' <=> Started(x) \/ x = Root
                /\ Alive(x)' <=> Alive(x) \/ x = Root
          /\ \A x \in Proc, y \in Node :
                Pending(x, y)' <=> Pending(x, y) \/ (x = Shell /\ y = Root)
      BY <1>1, <2>0, ForkFrame
    <2>2. state[Shell] = "run" BY DEF Walked, Located, ShellInPlace
    <2>3. QED BY <1>1, <2>1, <2>2 DEF v
  <1>3. \A x \in Node : ~Started(x) /\ ~Alive(x) BY <1>2, RootFirst, AliveStarted DEF Walked
  <1>4. Placed' BY <1>2, PlacedRoot DEF Walked
  <1>5. \A x \in Node : /\ Started(x)' => x = Root
                        /\ Alive(x)' => x = Root
                        /\ parent'[x] \notin Node
    BY <1>1, <1>2, <1>3 DEF Walked, Waiting, ParentsLive
  <1>6. \A c \in Node \cap {Left(Root), Right(Root)} : c # Root BY <1>1, Children
  <1>7. at'[Root] = Root BY <1>1, <1>2
  <1>8. Ahead' BY <1>2, <1>5, <1>6, <1>7 DEF Ahead
  <1>9. Located' BY <1>1, <1>2, <1>5 DEF Located, ShellInPlace, InPlace
  <1>10. Waiting'
    <2>1. \A x \in Node, y \in Node : ~Pending(x, y)' BY <1>5 DEF Pending
    <2>2. QED BY <1>2, <1>5, <2>1 DEF Waiting, ParentsLive, WaitsFor
  <1>11. LeftFirst'
    <2>1. SUFFICES ASSUME NEW n \in Node, kind[n] = "LIST", Right(n) \in Ancestors(Root)
                   PROVE  FALSE
      BY <1>1, <1>2, <1>5, <1>7, SameLine DEF LeftFirst
    <2>2. Right(n) \in Node /\ Right(n) # Root BY <1>1, <2>1, Children DEF Binary
    <2>3. QED BY <1>1, <2>1, <2>2, AncestorRoot
  <1>12. Nested' BY <1>1, <1>5, AncestorRoot DEF Nested
  <1>13. QED BY <1>4, <1>8, <1>9, <1>10, <1>11, <1>12 DEF Walked

LEMMA ReapRoot ==
    ASSUME Types, Walked, pc[Shell] = "waitpid", state[Root] = "zombie",
           state' = [state EXCEPT ![Root] = "gone"], Goto(Shell, "prompt"),
           UNCHANGED <<line, parent, at, fd, p, pipe, todo, fails>>
    PROVE  Walked'
  <1>1. Root \in Node /\ Node \subseteq Proc /\ Shell \in Proc /\ Shell \notin Node /\ line \in Lines
    BY NodeIsSeq, NotNodes DEF Proc, Types
  <1>2. /\ state'[Shell] = "run" /\ pc'[Shell] = "prompt" /\ Ended(Root)'
        /\ \A x \in Node : /\ pc'[x] = pc[x]
                           /\ state'[x] = IF x = Root THEN "gone" ELSE state[x]
    BY <1>1 DEF Types, Goto, Walked, Located, ShellInPlace, Ended
  <1>3. \A x \in Node : /\ Started(x)' <=> Started(x)
                        /\ Alive(x)' <=> Alive(x)
                        /\ Ended(x)' <=> Ended(x)
    BY <1>1, <1>2 DEF Started, Alive, Ended
  <1>4. \A x \in Node, y \in Node : Pending(x, y)' <=> Pending(x, y)
    <2>1. ASSUME NEW x \in Node, Pending(x, Root) PROVE FALSE
      <3>1. Alive(x) /\ at[x] \in Node
        BY <1>1, <2>1 DEF Walked, Waiting, ParentsLive, Pending, Types
      <3>2. Root \in {Left(at[x]), Right(at[x])}
        BY <1>1, <2>1, <3>1 DEF Walked, Waiting, WaitsFor
      <3>3. QED BY <1>1, <3>1, <3>2, Children
    <2>2. \A x \in Node, y \in Node : y # Root => (Pending(x, y)' <=> Pending(x, y))
      BY <1>2 DEF Pending
    <2>3. ~ \E x \in Node : Pending(x, Root)' BY <1>1, <1>2 DEF Pending
    <2>4. QED BY <2>1, <2>2, <2>3
  <1>5. Placed' BY <1>3, PlacedSame DEF Walked
  <1>6. Ahead' BY <1>2, <1>3 DEF Walked, Ahead
  <1>7. Located'
    <2>1. \A x \in Node : Alive(x)' => InPlace(x)' BY <1>2, <1>3, InPlaceSame DEF Walked, Located
    <2>2. QED BY <1>2, <2>1 DEF Located, ShellInPlace
  <1>8. Waiting'
    <2>1. ASSUME NEW x \in Node, Alive(x)' PROVE WaitsFor(x)'
      <3>1. WaitsFor(x) /\ InPlace(x) BY <1>3, <2>1 DEF Walked, Waiting, Located
      <3>2. \A d \in Node : /\ Pending(x, d)' => Pending(x, d)
                            /\ Started(d) /\ parent[d] = x => parent'[d] = x
                            /\ Started(d) => Started(d)'
                            /\ Ended(d) => Ended(d)'
        BY <1>3, <1>4
      <3>3. QED BY <1>2, <3>1, <3>2, WaitsSame
    <2>2. ParentsLive'
      <3>1. \A x \in Node : Alive(x) => state'[x] \in {"run", "vforking"} BY <1>3 DEF Alive
      <3>2. QED BY <3>1 DEF Walked, Waiting, ParentsLive, Alive
    <2>3. QED BY <2>1, <2>2 DEF Waiting
  <1>9. LeftFirst'
    <2>1. line' = line /\ \A x \in Node : at'[x] = at[x] OBVIOUS
    <2>2. QED BY <1>3, <2>1, LeftFirstSame DEF Walked
  <1>10. Nested'
    <2>1. \A x, y : InBackground(x, y)' <=> InBackground(x, y) BY SameLine
    <2>2. ASSUME fails = 0, NEW x \in Node, NEW r \in Node,
                 Started(x)', Alive(r)', x \in Ancestors(r), x # r
          PROVE  \/ InBackground(r, x)
                 \/ Alive(x)' /\ \E d \in Ancestors(r) : Pending(x, d)'
      <3>1. InBackground(r, x) \/ (Alive(x) /\ \E d \in Ancestors(r) : Pending(x, d))
        BY <1>3, <2>2 DEF Walked, Nested
      <3>2. QED BY <1>3, <1>4, <2>2, <3>1, AncestorsAreNodes
    <2>3. QED BY <2>1, <2>2 DEF Nested
  <1>11. QED BY <1>5, <1>6, <1>7, <1>8, <1>9, <1>10 DEF Walked

-----------------------------------------------------------------------------
(* Every step of a process *)


LEMMA GoesOn ==
    ASSUME Types, Walked, NEW q \in Node, NEW next, Called(q, next),
           UNCHANGED <<line, state, parent, at, fails>>, pc' = [pc EXCEPT ![q] = next]
    PROVE  Walked'
  <1>1. state'[Shell] = "run" BY DEF Walked, Located, ShellInPlace
  <1>2. \A x \in Proc : /\ pc'[x] = IF x = q THEN next ELSE pc[x]
                        /\ Started(x)' <=> Started(x)
                        /\ Alive(x)' <=> Alive(x)
                        /\ Ended(x)' <=> Ended(x)
    BY DEF Types, Started, Alive, Ended, Proc
  <1>3. \A x \in Node, d \in Node : Pending(x, d)' <=> Pending(x, d) BY DEF Pending
  <1>4. QED BY <1>1, <1>2, <1>3, CallWalked

LEMMA DiesWalked ==
    ASSUME Types, Walked, NEW q \in Node, state[q] = "run", Dies(q)
    PROVE  Walked'
  <1>1. Exit(q) /\ fails' # 0 BY DEF Dies, Types
  <1>2. QED BY <1>1, ExitWalked

LEMMA ExecWalked ==
    ASSUME Types, Walked, NEW q \in Node, Exec(q)
    PROVE  Walked'
  <1>1. CASE Meets(q, "noexec") /\ Exit(q) /\ UNCHANGED <<pipe, fails>>
    BY <1>1, ExitWalked DEF Meets, Running
  <1>2. CASE /\ Running(q, "runcmd") /\ kind[at[q]] \in Programs
             /\ Goto(q, "prog")
             /\ state' = Awake(state, q)
             /\ UNCHANGED <<line, parent, at, fd, p, pipe, fails>>
    <2>1. \A x \in Proc : /\ state'[x] \in {state[x], "run"}
                          /\ state'[x] # state[x] => state[x] = "vforking"
      BY <1>2 DEF Awake, Types
    <2>2. \A x \in Proc : /\ pc'[x] = IF x = q THEN "prog" ELSE pc[x]
                          /\ Started(x)' <=> Started(x)
                          /\ Alive(x)' <=> Alive(x)
                          /\ Ended(x)' <=> Ended(x)
      <3>1. \A x \in Proc : pc'[x] = IF x = q THEN "prog" ELSE pc[x]
        BY <1>2 DEF Goto, Types, Proc
      <3>2. QED BY <2>1, <3>1 DEF Started, Alive, Ended
    <2>3. state'[Shell] = "run" BY <2>1 DEF Walked, Located, ShellInPlace, Proc
    <2>4. \A x \in Node, d \in Node : Pending(x, d)' <=> Pending(x, d)
      BY <1>2, <2>1 DEF Pending, Proc
    <2>5. Called(q, "prog") BY <1>2 DEF Called, Running
    <2>6. QED BY <1>2, <2>2, <2>3, <2>4, <2>5, CallWalked
  <1>3. QED BY <1>1, <1>2 DEF Exec

LEMMA RedirectWalked ==
    ASSUME Types, Walked, NEW q \in Node, Redirect(q)
    PROVE  Walked'
  <1>1. state[q] = "run" /\ Alive(q) /\ pc[q] = "runcmd" /\ kind[at[q]] \in {"OUT", "IN"}
    BY DEF Redirect, Meets, Running, Alive
  <1>2. CASE at' = [at EXCEPT ![q] = Left(at[q])] /\ UNCHANGED <<line, state, parent, pc, fails>>
    <2>1. Moved(q, Left(at[q])) BY <1>1 DEF Moved
    <2>2. \A x \in Proc : /\ at'[x] = IF x = q THEN Left(at[q]) ELSE at[x]
                          /\ pc'[x] = IF x = q THEN "runcmd" ELSE pc[x]
      BY <1>1, <1>2 DEF Types, Proc
    <2>3. QED BY <1>1, <1>2, <2>1, <2>2, MoveWalked
  <1>3. CASE Dies(q) BY <1>1, <1>3, DiesWalked
  <1>4. QED BY <1>2, <1>3 DEF Redirect

LEMMA ListWalked ==
    ASSUME Types, Walked, NEW q \in Node, List(q)
    PROVE  Walked'
  <1>1. at[q] \in Node /\ line \in Lines BY DEF Types, Proc
  <1>2. ASSUME Meets(q, "LIST"), Fork(q, Left(at[q]), "runcmd", "list_wait", UseVfork)
        PROVE  Walked'
    <2>1. Left(at[q]) \in Node BY <1>1, <1>2, Children DEF Meets, Binary
    <2>2. Forking(q, Left(at[q]), "runcmd", "list_wait")
      BY <1>2, <2>1 DEF Meets, Running, Forking, Alive
    <2>3. QED BY <1>2, <2>2, ForkWalked
  <1>3. ASSUME Meets(q, "LIST"), Dies(q) PROVE Walked'
    BY <1>3, DiesWalked DEF Meets, Running
  <1>4. ASSUME Running(q, "list_wait"), Wait(q, "list_right") PROVE Walked'
    BY <1>4, WaitWalked DEF Running, Waited
  <1>5. ASSUME Running(q, "list_right"), at' = [at EXCEPT ![q] = Right(at[q])],
               Goto(q, "runcmd"), UNCHANGED <<line, state, parent, fd, p, pipe, todo, fails>>
        PROVE  Walked'
    <2>1. Alive(q) /\ Moved(q, Right(at[q]))
      BY <1>5 DEF Running, Alive, Moved, Walked, Located, InPlace
    <2>2. \A x \in Proc : /\ at'[x] = IF x = q THEN Right(at[q]) ELSE at[x]
                          /\ pc'[x] = IF x = q THEN "runcmd" ELSE pc[x]
      BY <1>5 DEF Types, Proc, Goto
    <2>3. QED BY <1>5, <2>1, <2>2, MoveWalked
  <1>6. QED BY <1>2, <1>3, <1>4, <1>5 DEF List

LEMMA ForkLeftWalked ==
    ASSUME Types, Walked, NEW q \in Node, ForkLeft(q)
    PROVE  Walked'
  <1>1. Alive(q) /\ state[q] = "run" /\ pc[q] = "fork_left" /\ at[q] \in Node /\ line \in Lines
    BY DEF ForkLeft, Running, Alive, Types, Proc
  <1>2. kind[at[q]] = "PIPE" BY <1>1 DEF Walked, Located, InPlace
  <1>3. Left(at[q]) \in Node BY <1>1, <1>2, Children DEF Binary
  <1>4. Forking(q, Left(at[q]), "run_pipe_left", "fork_right")
    BY <1>1, <1>2, <1>3 DEF Forking
  <1>5. QED BY <1>1, <1>4, ForkWalked, DiesWalked DEF ForkLeft

LEMMA ForkRightWalked ==
    ASSUME Types, Walked, NEW q \in Node, ForkRight(q)
    PROVE  Walked'
  <1>1. Alive(q) /\ state[q] = "run" /\ pc[q] = "fork_right" /\ at[q] \in Node /\ line \in Lines
    BY DEF ForkRight, Running, Alive, Types, Proc
  <1>2. kind[at[q]] = "PIPE" BY <1>1 DEF Walked, Located, InPlace
  <1>3. Right(at[q]) \in Node BY <1>1, <1>2, Children DEF Binary
  <1>4. Forking(q, Right(at[q]), "run_pipe_right", "close_ends")
    BY <1>1, <1>2, <1>3 DEF Forking
  <1>5. QED BY <1>1, <1>4, ForkWalked, DiesWalked DEF ForkRight

LEMMA BackWalked ==
    ASSUME Types, Walked, NEW q \in Node, Back(q)
    PROVE  Walked'
  <1>1. /\ Alive(q) /\ state[q] = "run" /\ pc[q] = "runcmd" /\ kind[at[q]] = "BACK"
        /\ at[q] \in Node /\ line \in Lines
    BY DEF Back, Meets, Running, Alive, Types, Proc
  <1>2. Left(at[q]) \in Node BY <1>1, Children DEF Unary
  <1>3. Forking(q, Left(at[q]), "runcmd", "return") BY <1>1, <1>2 DEF Forking
  <1>4. QED BY <1>1, <1>3, ForkWalked, DiesWalked DEF Back

LEMMA ProgramWalked ==
    ASSUME Types, Walked, NEW q \in Node,
           Write(q) \/ BrokenPipe(q) \/ Read(q) \/ EndOfFile(q) \/ GenDone(q)
    PROVE  Walked'
  <1>1. state[q] = "run" /\ pc[q] = "prog"
    BY DEF Write, BrokenPipe, Read, EndOfFile, GenDone, IsProg, Running
  <1>2. CASE Exit(q) /\ UNCHANGED fails BY <1>1, <1>2, ExitWalked
  <1>3. CASE UNCHANGED <<line, state, parent, at, pc, fails>>
    <2>1. pc' = [pc EXCEPT ![q] = pc[q]] BY <1>3 DEF Types, Proc
    <2>2. QED BY <1>3, <2>1, GoesOn DEF Called
  <1>4. QED BY <1>2, <1>3 DEF Write, BrokenPipe, Read, EndOfFile, GenDone, ProgExit

LEMMA StepWalked ==
    ASSUME Types, Walked, NEW q \in Node, Step(q)
    PROVE  Walked'
  <1>1. CASE RunPipeLeft(q)
    BY <1>1, GoesOn DEF RunPipeLeft, Running, Goto, Called
  <1>2. CASE RunPipeRight(q)
    BY <1>2, GoesOn DEF RunPipeRight, Running, Goto, Called
  <1>3. CASE Redirect(q) BY <1>3, RedirectWalked
  <1>4. CASE List(q) BY <1>4, ListWalked
  <1>5. CASE MakePipe(q)
    BY <1>5, GoesOn DEF MakePipe, Meets, Running, Goto, Called
  <1>6. CASE ForkLeft(q) BY <1>6, ForkLeftWalked
  <1>7. CASE ForkRight(q) BY <1>7, ForkRightWalked
  <1>8. CASE CloseEnds(q)
    BY <1>8, GoesOn DEF CloseEnds, Running, Goto, Called
  <1>9. CASE PipeWait(q) BY <1>9, WaitWalked DEF PipeWait, Running, Waited
  <1>10. CASE Back(q) BY <1>10, BackWalked
  <1>11. CASE Return(q) BY <1>11, ExitWalked DEF Return, Running
  <1>12. CASE Exec(q) BY <1>12, ExecWalked
  <1>13. CASE Write(q) \/ BrokenPipe(q) \/ Read(q) \/ EndOfFile(q) \/ GenDone(q)
    BY <1>13, ProgramWalked
  <1>14. QED
    BY <1>1, <1>2, <1>3, <1>4, <1>5, <1>6, <1>7, <1>8, <1>9, <1>10, <1>11, <1>12, <1>13
    DEF Step

LEMMA NextWalked ==
    ASSUME Types, Walked, [Next]_vars
    PROVE  Walked'
  <1>1. CASE RunLine
    BY <1>1, ForkRoot, ReapRoot DEF RunLine, Running
  <1>2. CASE \E q \in Node : Step(q) BY <1>2, StepWalked
  <1>3. CASE UNCHANGED vars
    <2>1. PICK q \in Node : TRUE BY NodeIsSeq
    <2>2. pc' = [pc EXCEPT ![q] = pc[q]] BY <1>3 DEF vars, Types, Proc
    <2>3. QED BY <1>3, <2>2, GoesOn DEF vars, Called
  <1>4. QED BY <1>1, <1>2, <1>3 DEF Next

-----------------------------------------------------------------------------
(* Types *)

Target == {"closed", "tty", "rd", "wr", "file"} \X Node
Table  == [Fd -> Target]

LEMMA Targets ==
    /\ Closed \in Target /\ Tty \in Target
    /\ \A n \in Node : RdEnd(n) \in Target /\ WrEnd(n) \in Target /\ File(n) \in Target
  BY NodeIsSeq DEF Target, Closed, Tty, RdEnd, WrEnd, File

LEMMA TableTypes ==
    ASSUME NEW t \in Table, NEW d \in Target, NEW i
    PROVE  OpenAt(t, d) \in Table /\ CloseFd(t, i) \in Table
  BY Targets DEF OpenAt, CloseFd, Table

LEMMA SetupTypes ==
    ASSUME NEW t \in Table, NEW i, NEW ends, NEW end \in Fd
    PROVE  AfterPipeSetup(t, i, ends, end) \in Table
  <1>1. t[end] \in Target BY DEF Table
  <1>2. CloseFd(t, i) \in Table BY <1>1, TableTypes
  <1>3. OpenAt(CloseFd(t, i), t[end]) \in Table BY <1>1, <1>2, TableTypes
  <1>4. QED BY <1>1, <1>3, TableTypes DEF AfterPipeSetup

LEMMA ForkTypes ==
    ASSUME Types, NEW q \in Proc, NEW c \in Node, NEW mine \in Statements, NEW yours \in Statements, NEW v,
           Fork(q, c, mine, yours, v)
    PROVE  Types'
  <1> USE DEF Fork, Types, Proc
  <1>1. (IF v THEN "vforking" ELSE "run") \in {"vforking", "run"} OBVIOUS
  <1>2. state' \in [Proc -> {"none", "run", "vforking", "zombie", "gone"}] BY <1>1
  <1>3. parent' \in [Proc -> Proc \cup {InitProc}] OBVIOUS
  <1>4. at' \in [Proc -> Node] /\ pc' \in [Proc -> Statements] OBVIOUS
  <1>5. fd' \in [Proc -> Table] /\ p' \in [Proc -> [rd : Fd, wr : Fd]] BY DEF Table, Target
  <1>6. QED BY <1>2, <1>3, <1>4, <1>5 DEF Table, Target

LEMMA ExitTypes ==
    ASSUME Types, NEW q \in Node, Exit(q), pipe' \in [Node -> 0 .. PipeCap], fails' \in Nat
    PROVE  Types'
  <1> USE DEF Exit, Types, Proc
  <1> DEFINE woken == Awake(state, q)
             States == {"none", "run", "vforking", "zombie", "gone"}
  <1>1. \A c \in Proc : woken[c] \in States BY DEF Awake
  <1>2. state' = [c \in Proc |-> CASE c = q -> IF parent[q] = InitProc THEN "gone" ELSE "zombie"
                                   [] parent[c] = q /\ state[c] = "zombie" -> "gone"
                                   [] OTHER -> woken[c]]
    OBVIOUS
  <1> HIDE DEF woken
  <1>3. state' \in [Proc -> States]
    <2>1. SUFFICES ASSUME NEW c \in Proc PROVE state'[c] \in States
      BY <1>2
    <2>2. CASE c = q
      <3>1. ~(parent[q] = q /\ state[q] = "zombie") \/ parent[q] # InitProc
        BY NotNodes
      <3>2. state'[c] \in {"gone", "zombie"} BY <1>2, <2>2, <3>1
      <3>3. QED BY <3>2
    <2>3. CASE c # q BY <1>1, <1>2, <2>3
    <2>4. QED BY <2>2, <2>3
  <1>4. parent' \in [Proc -> Proc \cup {InitProc}] OBVIOUS
  <1>5. fd' \in [Proc -> Table]
    <2>1. [i \in Fd |-> Closed] \in Table BY Targets DEF Table
    <2>2. QED BY <2>1 DEF Table, Target
  <1>6. pc' \in [Proc -> Statements] /\ todo' \in [Proc -> 0 .. (Chunks + 1)]
    <2>1. 0 \in 0 .. (Chunks + 1) BY ShellExecAssumption
    <2>2. pc' = [pc EXCEPT ![q] = "exited"] /\ todo' = [todo EXCEPT ![q] = 0] OBVIOUS
    <2>3. pc \in [Proc -> Statements] /\ todo \in [Proc -> 0 .. (Chunks + 1)] OBVIOUS
    <2> HIDE DEF Exit, Types, Proc
    <2>4. pc' \in [Proc -> Statements] BY <2>2, <2>3 DEF Statements
    <2>5. todo' \in [Proc -> 0 .. (Chunks + 1)] BY <2>1, <2>2, <2>3
    <2>6. QED BY <2>4, <2>5
  <1>7. QED BY <1>3, <1>4, <1>5, <1>6 DEF Table, Target

LEMMA CallTypes ==
    ASSUME Types, NEW q \in Node, NEW t \in Table, NEW next \in Statements, NEW n \in Node,
           NEW ends \in [rd : Fd, wr : Fd],
           UNCHANGED <<line, state, parent, pipe, todo, fails>>,
           fd' = [fd EXCEPT ![q] = t], pc' = [pc EXCEPT ![q] = next],
           at' = [at EXCEPT ![q] = n], p' = [p EXCEPT ![q] = ends]
    PROVE  Types'
  <1>1. fd' \in [Proc -> Table] BY DEF Types, Table, Target
  <1>2. QED BY <1>1 DEF Types, Table, Target

(* The steps that fork, wait or change descriptors.                           *)
LEMMA WaitTypes ==
    ASSUME Types, NEW q \in Node, NEW next \in Statements, Wait(q, next)
    PROVE  Types'
  <1>1. state' \in [Proc -> {"none", "run", "vforking", "zombie", "gone"}]
    BY DEF Wait, Types
  <1>2. pc' \in [Proc -> Statements] BY DEF Wait, Types
  <1>3. UNCHANGED <<line, parent, at, fd, p, pipe, todo, fails>> BY DEF Wait
  <1>4. QED BY <1>1, <1>2, <1>3 DEF Types

LEMMA DiesTypes ==
    ASSUME Types, NEW q \in Node, Dies(q)
    PROVE  Types'
  <1>1. Exit(q) /\ pipe' \in [Node -> 0 .. PipeCap] /\ fails' \in Nat
    BY DEF Dies, Types
  <1>2. QED BY <1>1, ExitTypes

LEMMA ProgramTypes ==
    ASSUME Types, Walked, NEW q \in Node,
           Write(q) \/ BrokenPipe(q) \/ Read(q) \/ EndOfFile(q) \/ GenDone(q) \/ Exec(q)
    PROVE  Types'
  <1>1. /\ pipe \in [Node -> 0 .. PipeCap] /\ todo \in [Proc -> 0 .. (Chunks + 1)]
        /\ fails \in Nat /\ q \in Proc
        /\ PipeCap \in Nat /\ Chunks \in Nat
    BY ShellExecAssumption DEF Types, Proc
  <1>2. ASSUME NEW i \in Fd PROVE fd[q][i][2] \in Node
    BY <1>1 DEF Types
  <1>3. ASSUME Exit(q), UNCHANGED <<pipe, fails>> PROVE Types'
    BY <1>1, <1>3, ExitTypes
  <1>4. ASSUME UNCHANGED <<line, state, parent, at, pc, fd, p, fails>>,
               pipe' \in [Node -> 0 .. PipeCap], todo' \in [Proc -> 0 .. (Chunks + 1)]
        PROVE  Types'
    BY <1>4 DEF Types
  <1>5. CASE Write(q)
    <2>1. pipe' \in [Node -> 0 .. PipeCap]
      <3>1. fd[q][1][2] \in Node BY <1>2 DEF Fd
      <3>2. QED BY <1>1, <1>5, <3>1 DEF Write
    <2>2. CASE Exit(q) /\ UNCHANGED fails BY <1>1, <2>1, <2>2, ExitTypes
    <2>3. CASE /\ todo' = [todo EXCEPT ![q] = @ - 1] /\ todo[q] > 0
               /\ UNCHANGED <<line, state, parent, at, pc, fd, p, fails>>
      <3>1. todo[q] - 1 \in 0 .. (Chunks + 1) BY <1>1, <2>3
      <3>2. QED BY <1>1, <1>4, <2>1, <2>3, <3>1
    <2>4. QED BY <1>5, <2>2, <2>3 DEF Write
  <1>6. CASE Read(q)
    <2>1. pipe' \in [Node -> 0 .. PipeCap]
      <3>1. fd[q][0][2] \in Node BY <1>2 DEF Fd
      <3>2. pipe[fd[q][0][2]] - 1 \in 0 .. PipeCap BY <1>1, <1>6, <3>1 DEF Read
      <3>3. QED BY <1>1, <1>6, <3>1, <3>2 DEF Read
    <2>2. todo' \in [Proc -> 0 .. (Chunks + 1)] BY <1>1, <1>6 DEF Read
    <2>3. QED BY <1>4, <1>6, <2>1, <2>2 DEF Read
  <1>7. CASE BrokenPipe(q) \/ EndOfFile(q) \/ GenDone(q)
    BY <1>3, <1>7 DEF BrokenPipe, EndOfFile, GenDone, ProgExit
  <1>8. CASE Exec(q)
    <2>1. CASE Exit(q) /\ UNCHANGED <<pipe, fails>> BY <1>3, <2>1
    <2>2. CASE /\ Goto(q, "prog") /\ state' = Awake(state, q)
               /\ todo' = [todo EXCEPT ![q] = IF kind[at[q]] = "gen" THEN Chunks ELSE 0]
               /\ UNCHANGED <<line, parent, at, fd, p, pipe, fails>>
      <3>1. state' \in [Proc -> {"none", "run", "vforking", "zombie", "gone"}]
        BY <2>2 DEF Awake, Types
      <3>2. pc' \in [Proc -> Statements] BY <2>2 DEF Goto, Types, Statements
      <3>3. (IF kind[at[q]] = "gen" THEN Chunks ELSE 0) \in 0 .. (Chunks + 1) BY <1>1
      <3>4. todo' \in [Proc -> 0 .. (Chunks + 1)] BY <1>1, <2>2, <3>3
      <3>5. QED BY <2>2, <3>1, <3>2, <3>4 DEF Types
    <2>3. QED BY <1>8, <2>1, <2>2 DEF Exec
  <1>9. QED BY <1>5, <1>6, <1>7, <1>8

LEMMA SetFdsTypes ==
    ASSUME Types, Opened, NEW q \in Node,
           RunPipeLeft(q) \/ RunPipeRight(q) \/ MakePipe(q) \/ CloseEnds(q)
    PROVE  Types'
  <1>1. /\ fd[q] \in Table /\ p[q] \in [rd : Fd, wr : Fd] /\ at[q] \in Node
        /\ p[q].rd \in Fd /\ p[q].wr \in Fd
    BY DEF Types, Table, Target, Proc
  <1>2. at' = [at EXCEPT ![q] = at[q]] /\ UNCHANGED <<line, state, parent, pipe, todo, fails>>
    BY DEF Types, RunPipeLeft, RunPipeRight, MakePipe, CloseEnds
  <1>3. ASSUME NEW t \in Table, fd' = [fd EXCEPT ![q] = t], UNCHANGED p,
               NEW next \in Statements, pc' = [pc EXCEPT ![q] = next]
        PROVE  Types'
    <2>1. p' = [p EXCEPT ![q] = p[q]] BY <1>3 DEF Types
    <2>2. QED BY <1>1, <1>2, <1>3, <2>1, CallTypes
  <1>4. "runcmd" \in Statements /\ "wait1" \in Statements /\ "fork_left" \in Statements
    BY DEF Statements
  <1>5. CASE RunPipeLeft(q)
    BY <1>1, <1>3, <1>4, <1>5, SetupTypes DEF RunPipeLeft, SetFds, Goto
  <1>6. CASE RunPipeRight(q)
    BY <1>1, <1>3, <1>4, <1>6, SetupTypes DEF RunPipeRight, SetFds, Goto
  <1>7. CASE CloseEnds(q)
    BY <1>1, <1>3, <1>4, <1>7, TableTypes, Targets DEF CloseEnds, SetFds, Goto
  <1>8. CASE MakePipe(q)
    <2>1. fd[q] = Plain(at[q])
      BY <1>8 DEF MakePipe, Meets, Running, Opened, WellOpen, Alive
    <2>2. /\ Lowest(fd[q]) = 3 /\ Lowest(OpenAt(fd[q], RdEnd(at[q]))) = 4
      BY <2>1, PipeOpens
    <2>3. OpenAt(OpenAt(fd[q], RdEnd(at[q])), WrEnd(at[q])) \in Table
      BY <1>1, TableTypes, Targets
    <2>4. p' = [p EXCEPT ![q] = [rd |-> 3, wr |-> 4]] BY <1>8, <2>2 DEF MakePipe
    <2>5. [rd |-> 3, wr |-> 4] \in [rd : Fd, wr : Fd] BY DEF Fd
    <2>6. fd' = [fd EXCEPT ![q] = OpenAt(OpenAt(fd[q], RdEnd(at[q])), WrEnd(at[q]))]
      BY <1>8 DEF MakePipe, SetFds
    <2>7. pc' = [pc EXCEPT ![q] = "fork_left"] BY <1>8 DEF MakePipe, Goto
    <2> DEFINE t == OpenAt(OpenAt(fd[q], RdEnd(at[q])), WrEnd(at[q]))
               ends == [rd |-> 3, wr |-> 4]
    <2>8. t \in Table /\ ends \in [rd : Fd, wr : Fd] BY <2>3, <2>5
    <2>9. fd' = [fd EXCEPT ![q] = t] /\ p' = [p EXCEPT ![q] = ends] BY <2>4, <2>6
    <2> HIDE DEF t, ends
    <2>10. QED BY <1>1, <1>2, <1>4, <2>7, <2>8, <2>9, CallTypes
  <1>9. QED BY <1>5, <1>6, <1>7, <1>8

LEMMA RedirectTypes ==
    ASSUME Types, NEW q \in Node, Redirect(q)
    PROVE  Types'
  <1>1. CASE Dies(q) BY <1>1, DiesTypes
  <1>2. ASSUME NEW i, SetFds(q, OpenAt(CloseFd(fd[q], i), File(at[q]))),
               at' = [at EXCEPT ![q] = Left(at[q])],
               UNCHANGED <<line, state, parent, pc, p, pipe, todo, fails>>
        PROVE  Types'
    <2>1. fd[q] \in Table /\ p[q] \in [rd : Fd, wr : Fd] /\ at[q] \in Node /\ line \in Lines
      BY DEF Types, Table, Target, Proc
    <2>2. Left(at[q]) \in Node BY <2>1, Children DEF Redirect, Meets, Unary
    <2>3. OpenAt(CloseFd(fd[q], i), File(at[q])) \in Table BY <2>1, TableTypes, Targets
    <2>4. p' = [p EXCEPT ![q] = p[q]] /\ pc' = [pc EXCEPT ![q] = pc[q]] /\ pc[q] \in Statements
      BY <1>2 DEF Types, Proc
    <2> DEFINE t == OpenAt(CloseFd(fd[q], i), File(at[q]))
    <2>5. fd' = [fd EXCEPT ![q] = t] /\ t \in Table BY <1>2, <2>3 DEF SetFds
    <2>6. at' = [at EXCEPT ![q] = Left(at[q])] /\ UNCHANGED <<line, state, parent, pipe, todo, fails>>
      BY <1>2
    <2> HIDE DEF t
    <2>7. QED BY <2>1, <2>2, <2>4, <2>5, <2>6, CallTypes
  <1>3. QED BY <1>1, <1>2 DEF Redirect

LEMMA StepTypes ==
    ASSUME Types, Walked, Opened, NEW q \in Node, Step(q)
    PROVE  Types'
  <1>1. q \in Proc /\ at[q] \in Node /\ line \in Lines BY DEF Types, Proc
  <1>2. CASE RunPipeLeft(q) \/ RunPipeRight(q) \/ MakePipe(q) \/ CloseEnds(q)
    BY <1>2, SetFdsTypes
  <1>3. CASE Redirect(q) BY <1>3, RedirectTypes
  <1>4. CASE List(q)
    <2>1. CASE Meets(q, "LIST") /\ Fork(q, Left(at[q]), "runcmd", "list_wait", UseVfork)
      <3>1. Left(at[q]) \in Node BY <1>1, <2>1, Children DEF Meets, Binary
      <3>2. QED BY <1>1, <2>1, <3>1, ForkTypes DEF Statements
    <2>2. CASE Dies(q) BY <2>2, DiesTypes
    <2>3. CASE Wait(q, "list_right") BY <2>3, WaitTypes DEF Statements
    <2>4. CASE /\ Running(q, "list_right") /\ at' = [at EXCEPT ![q] = Right(at[q])]
               /\ Goto(q, "runcmd")
               /\ UNCHANGED <<line, state, parent, fd, p, pipe, todo, fails>>
      <3>1. kind[at[q]] = "LIST" BY <2>4 DEF Running, Alive, Walked, Located, InPlace
      <3>2. Right(at[q]) \in Node BY <1>1, <3>1, Children DEF Binary
      <3>3. pc' \in [Proc -> Statements] BY <2>4 DEF Goto, Types, Statements
      <3>4. at' \in [Proc -> Node] BY <2>4, <3>2 DEF Types
      <3>5. QED BY <2>4, <3>3, <3>4 DEF Types
    <2>5. QED BY <1>4, <2>1, <2>2, <2>3, <2>4 DEF List
  <1>5. CASE ForkLeft(q)
    <2>1. kind[at[q]] = "PIPE" BY <1>5 DEF ForkLeft, Running, Alive, Walked, Located, InPlace
    <2>2. Left(at[q]) \in Node BY <1>1, <2>1, Children DEF Binary
    <2>3. QED BY <1>1, <1>5, <2>2, ForkTypes, DiesTypes DEF ForkLeft, Statements
  <1>6. CASE ForkRight(q)
    <2>1. kind[at[q]] = "PIPE" BY <1>6 DEF ForkRight, Running, Alive, Walked, Located, InPlace
    <2>2. Right(at[q]) \in Node BY <1>1, <2>1, Children DEF Binary
    <2>3. QED BY <1>1, <1>6, <2>2, ForkTypes, DiesTypes DEF ForkRight, Statements
  <1>7. CASE PipeWait(q) BY <1>7, WaitTypes DEF PipeWait, Statements
  <1>8. CASE Back(q)
    <2>1. Left(at[q]) \in Node BY <1>1, <1>8, Children DEF Back, Meets, Unary
    <2>2. QED BY <1>1, <1>8, <2>1, ForkTypes, DiesTypes DEF Back, Statements
  <1>9. CASE Return(q)
    <2>1. Exit(q) /\ pipe' \in [Node -> 0 .. PipeCap] /\ fails' \in Nat
      BY <1>9 DEF Return, Types
    <2>2. QED BY <2>1, ExitTypes
  <1>10. CASE Write(q) \/ BrokenPipe(q) \/ Read(q) \/ EndOfFile(q) \/ GenDone(q) \/ Exec(q)
    BY <1>10, ProgramTypes
  <1>11. QED BY <1>2, <1>3, <1>4, <1>5, <1>6, <1>7, <1>8, <1>9, <1>10 DEF Step

LEMMA NextTypes ==
    ASSUME Types, Walked, Opened, [Next]_vars
    PROVE  Types'
  <1>1. CASE RunLine
    <2>1. CASE Fork(Shell, Root, "runcmd", "waitpid", FALSE)
      BY <2>1, NodeIsSeq, ForkTypes DEF Proc, Statements
    <2>2. CASE /\ state' = [state EXCEPT ![Root] = "gone"] /\ Goto(Shell, "prompt")
               /\ UNCHANGED <<line, parent, at, fd, p, pipe, todo, fails>>
      <3>1. state' \in [Proc -> {"none", "run", "vforking", "zombie", "gone"}]
        BY <2>2 DEF Types
      <3>2. pc' \in [Proc -> Statements] BY <2>2 DEF Goto, Types, Statements
      <3>3. QED BY <2>2, <3>1, <3>2 DEF Types
    <2>3. QED BY <1>1, <2>1, <2>2 DEF RunLine
  <1>2. CASE \E q \in Node : Step(q) BY <1>2, StepTypes
  <1>3. CASE UNCHANGED vars BY <1>3 DEF vars, Types
  <1>4. QED BY <1>1, <1>2, <1>3 DEF Next

-----------------------------------------------------------------------------
(* Descriptors along the way *)

LEMMA PlainThere ==
    ASSUME NEW x, NEW n, line' = line, at'[x] = n
    PROVE  Plain(at[x])' = Plain(n) /\ Piped(at[x])' = Piped(n)
  <1>1. ASSUME NEW i PROVE Expected(at[x], i)' = Expected(n, i)
    BY DEF Expected, Binds, Bound, Above, kind
  <1>2. Plain(at[x])' = Plain(n) BY <1>1 DEF Plain
  <1>3. QED BY <1>2 DEF Piped

LEMMA OpenStays ==
    ASSUME Types, Opened, line' = line, fd'[Shell] = fd[Shell],
           \A x \in Node : Alive(x)' =>
              \/ WellOpen(x)'
              \/ /\ Alive(x) /\ at'[x] = at[x] /\ pc'[x] = pc[x]
                 /\ fd'[x] = fd[x] /\ p'[x] = p[x]
    PROVE  Opened'
  <1>1. \A n : Plain(n)' = Plain(n) /\ Piped(n)' = Piped(n) BY SameLine
  <1>2. ASSUME NEW x \in Node, Alive(x), at'[x] = at[x], pc'[x] = pc[x],
               fd'[x] = fd[x], p'[x] = p[x]
        PROVE  WellOpen(x)'
    <2>1. WellOpen(x) BY <1>2 DEF Opened
    <2>2. Plain(at[x])' = Plain(at[x]) /\ Piped(at[x])' = Piped(at[x])
      BY <1>2, PlainThere
    <2>3. QED BY <1>1, <1>2, <2>1, <2>2 DEF WellOpen
  <1>3. (fd[Shell] = Plain(Root))' BY <1>1 DEF Opened
  <1>4. QED BY <1>2, <1>3 DEF Opened

LEMMA WellOpenThere ==
    ASSUME NEW x, NEW n, line' = line, at'[x] = n,
           \/ /\ pc'[x] \in {"runcmd", "list_wait", "list_right", "wait1", "wait2", "return", "prog"}
              /\ fd'[x] = Plain(n)
           \/ /\ pc'[x] \in {"fork_left", "fork_right", "close_ends"}
              /\ fd'[x] = Piped(n) /\ p'[x] = [rd |-> 3, wr |-> 4]
           \/ /\ pc'[x] \in {"run_pipe_left", "run_pipe_right"}
              /\ fd'[x] = Piped(Front(x)) /\ p'[x] = [rd |-> 3, wr |-> 4]
    PROVE  WellOpen(x)'
  <1>1. Plain(at[x])' = Plain(n) /\ Piped(at[x])' = Piped(n) BY PlainThere
  <1>2. Piped(Front(x))' = Piped(Front(x)) BY SameLine
  <1>3. QED BY <1>1, <1>2 DEF WellOpen

LEMMA ForkOpened ==
    ASSUME Types, Walked, Opened, NEW q \in Node, NEW c, NEW mine, NEW yours, NEW v,
           Forking(q, c, mine, yours), Fork(q, c, mine, yours, v)
    PROVE  Opened'
  <1>1. /\ c \in Node /\ at[q] \in Node /\ line \in Lines /\ Node \subseteq Proc
        /\ Shell \in Proc /\ c # Shell
    BY NotNodes DEF Forking, Types, Proc
  <1>2. /\ line' = line /\ q # c
        /\ \A x \in Proc :
              /\ at'[x] = IF x = c THEN c ELSE at[x]
              /\ pc'[x] = IF x = q THEN yours ELSE IF x = c THEN mine ELSE pc[x]
              /\ fd'[x] = IF x = c THEN fd[q] ELSE fd[x]
              /\ p'[x] = IF x = c THEN p[q] ELSE p[x]
              /\ Alive(x)' <=> Alive(x) \/ x = c
    BY <1>1, ForkFrame
  <1>3. WellOpen(q) /\ Alive(q) BY DEF Forking, Opened
  <1>4. WellOpen(q)'
    <2>1. at'[q] = at[q] /\ pc'[q] = yours /\ fd'[q] = fd[q] /\ p'[q] = p[q]
      BY <1>1, <1>2
    <2>2. \/ yours \in {"list_wait", "return"} /\ fd[q] = Plain(at[q])
          \/ /\ yours \in {"fork_right", "close_ends"}
             /\ fd[q] = Piped(at[q]) /\ p[q] = [rd |-> 3, wr |-> 4]
      BY <1>3 DEF Forking, WellOpen
    <2>3. QED BY <1>2, <2>1, <2>2, WellOpenThere
  <1>5. WellOpen(c)'
    <2>1. at'[c] = c /\ pc'[c] = mine /\ fd'[c] = fd[q] /\ p'[c] = p[q]
      BY <1>1, <1>2
    <2>2. CASE mine = "runcmd"
      <3>1. kind[at[q]] \in {"LIST", "BACK"} /\ c = Left(at[q]) /\ pc[q] = "runcmd"
        BY <2>2 DEF Forking
      <3>2. fd[q] = Plain(at[q]) BY <1>3, <3>1 DEF WellOpen
      <3>3. Plain(c) = Plain(at[q]) BY <1>1, <3>1, PlainBelow
      <3>4. QED BY <1>2, <2>1, <2>2, <3>2, <3>3, WellOpenThere
    <2>3. CASE mine \in {"run_pipe_left", "run_pipe_right"}
      <3>1. c \in {Left(at[q]), Right(at[q])} /\ pc[q] \in {"fork_left", "fork_right"}
        BY <2>3 DEF Forking
      <3>2. fd[q] = Piped(at[q]) /\ p[q] = [rd |-> 3, wr |-> 4]
        BY <1>3, <3>1 DEF WellOpen
      <3>3. Front(c) = at[q] BY <1>1, <3>1, Children
      <3>4. QED BY <1>2, <2>1, <2>3, <3>2, <3>3, WellOpenThere
    <2>4. QED BY <2>2, <2>3 DEF Forking
  <1>6. QED BY <1>1, <1>2, <1>4, <1>5, OpenStays

LEMMA ExitOpened ==
    ASSUME Types, Walked, Opened, NEW q \in Node, Exit(q), state[q] = "run"
    PROVE  Opened'
  <1>1. Node \subseteq Proc /\ Shell \in Proc /\ q # Shell BY NotNodes DEF Proc
  <1>2. /\ line' = line /\ ~Alive(q)'
        /\ \A x \in Proc : at'[x] = at[x]
        /\ \A x \in Proc : x # q => /\ pc'[x] = pc[x] /\ fd'[x] = fd[x] /\ p'[x] = p[x]
                                    /\ Alive(x)' <=> Alive(x)
    <2>1. state[Shell] = "run" BY DEF Walked, Located, ShellInPlace
    <2>2. QED BY <2>1, ExitFrame
  <1>3. QED BY <1>1, <1>2, OpenStays

(* The other steps of one process.                                            *)
LEMMA CallOpened ==
    ASSUME Types, Opened, NEW q \in Node, line' = line,
           \A x \in Proc : /\ x # q => /\ at'[x] = at[x] /\ pc'[x] = pc[x]
                                       /\ fd'[x] = fd[x] /\ p'[x] = p[x]
                           /\ Alive(x)' <=> Alive(x),
           Alive(q) => WellOpen(q)'
    PROVE  Opened'
  <1>1. Node \subseteq Proc /\ Shell \in Proc /\ q # Shell BY NotNodes DEF Proc
  <1>2. QED BY <1>1, OpenStays

LEMMA WaitOpened ==
    ASSUME Types, Walked, Opened, NEW q \in Node, NEW next, Wait(q, next), Waited(q, next)
    PROVE  Opened'
  <1>1. /\ line' = line /\ at' = at /\ fd' = fd /\ p' = p /\ q \in Proc
        /\ \A x \in Proc : /\ pc'[x] = IF x = q THEN next ELSE pc[x]
                           /\ Alive(x)' <=> Alive(x)
    <2>1. state[Shell] = "run" BY DEF Walked, Located, ShellInPlace
    <2>2. fd' = fd /\ p' = p /\ q \in Proc BY DEF Wait, Proc
    <2>3. QED BY <2>1, <2>2, WaitFrame
  <1>2. ASSUME Alive(q) PROVE WellOpen(q)'
    <2>1. fd[q] = Plain(at[q]) BY <1>2 DEF Opened, WellOpen, Waited
    <2>2. pc'[q] \in {"list_right", "wait2", "return"} BY <1>1 DEF Waited
    <2>3. QED BY <1>1, <2>1, <2>2, WellOpenThere
  <1>3. QED BY <1>1, <1>2, CallOpened

LEMMA PipeRunOpened ==
    ASSUME Types, Walked, Opened, NEW q \in Node, RunPipeLeft(q) \/ RunPipeRight(q)
    PROVE  Opened'
  <1>1. /\ line' = line /\ at' = at /\ Alive(q) /\ WellOpen(q) /\ InPlace(q) /\ line \in Lines
        /\ pc[q] \in {"run_pipe_left", "run_pipe_right"} /\ pc'[q] = "runcmd"
        /\ \A x \in Proc : /\ x # q => /\ at'[x] = at[x] /\ pc'[x] = pc[x]
                                       /\ fd'[x] = fd[x] /\ p'[x] = p[x]
                           /\ Alive(x)' <=> Alive(x)
    <2>1. Alive(q) BY DEF RunPipeLeft, RunPipeRight, Running, Alive
    <2>2. WellOpen(q) /\ InPlace(q) BY <2>1 DEF Opened, Walked, Located
    <2>3. QED BY <2>1, <2>2
      DEF RunPipeLeft, RunPipeRight, Running, Alive, Goto, SetFds, Types, Proc
  <1>2. fd[q] = Piped(Front(q)) /\ p[q] = [rd |-> 3, wr |-> 4] BY <1>1 DEF WellOpen
  <1>3. at'[q] = q BY <1>1 DEF InPlace
  <1>4. fd'[q] = Plain(q)
    <2>1. CASE RunPipeLeft(q)
      <3>1. PICK n \in Node : q = Left(n) /\ kind[n] = "PIPE"
        BY <2>1, <1>1 DEF InPlace, RunPipeLeft, Running
      <3>2. Front(q) = n BY <1>1, <3>1, Children
      <3>3. fd'[q] = AfterPipeSetup(Piped(n), 1, [rd |-> 3, wr |-> 4], 4)
        <4>1. fd'[q] = AfterPipeSetup(fd[q], 1, p[q], p[q].wr)
          BY <2>1 DEF RunPipeLeft, SetFds, Types, Proc
        <4>2. p[q].wr = 4 BY <1>2
        <4>3. QED BY <1>2, <3>2, <4>1, <4>2
      <3>4. AfterPipeSetup(Piped(n), 1, [rd |-> 3, wr |-> 4], 4) = [Plain(n) EXCEPT ![1] = WrEnd(n)]
        BY PipeSetups
      <3>5. Plain(q) = [Plain(n) EXCEPT ![1] = WrEnd(n)] BY <1>1, <3>1, PlainBelow
      <3>6. QED BY <3>3, <3>4, <3>5
    <2>2. CASE RunPipeRight(q)
      <3>1. PICK n \in Node : q = Right(n) /\ kind[n] = "PIPE"
        BY <2>2, <1>1 DEF InPlace, RunPipeRight, Running
      <3>2. Front(q) = n /\ q # Left(n) BY <1>1, <3>1, Children, Sides
      <3>3. fd'[q] = AfterPipeSetup(Piped(n), 0, [rd |-> 3, wr |-> 4], 3)
        <4>1. fd'[q] = AfterPipeSetup(fd[q], 0, p[q], p[q].rd)
          BY <2>2 DEF RunPipeRight, SetFds, Types, Proc
        <4>2. p[q].rd = 3 BY <1>2
        <4>3. QED BY <1>2, <3>2, <4>1, <4>2
      <3>4. AfterPipeSetup(Piped(n), 0, [rd |-> 3, wr |-> 4], 3) = [Plain(n) EXCEPT ![0] = RdEnd(n)]
        BY PipeSetups
      <3>5. Plain(q) = [Plain(n) EXCEPT ![0] = RdEnd(n)] BY <1>1, <3>1, <3>2, PlainBelow
      <3>6. QED BY <3>3, <3>4, <3>5
    <2>3. QED BY <2>1, <2>2
  <1>5. WellOpen(q)' BY <1>1, <1>3, <1>4, WellOpenThere
  <1>6. QED BY <1>1, <1>5, CallOpened

LEMMA MakePipeOpened ==
    ASSUME Types, Walked, Opened, NEW q \in Node, MakePipe(q) \/ CloseEnds(q)
    PROVE  Opened'
  <1>1. /\ line' = line /\ at' = at /\ Alive(q) /\ WellOpen(q)
        /\ \A x \in Proc : /\ x # q => /\ at'[x] = at[x] /\ pc'[x] = pc[x]
                                       /\ fd'[x] = fd[x] /\ p'[x] = p[x]
                           /\ Alive(x)' <=> Alive(x)
    <2>1. Alive(q) BY DEF MakePipe, CloseEnds, Meets, Running, Alive
    <2>2. WellOpen(q) BY <2>1 DEF Opened
    <2>3. QED BY <2>1, <2>2 DEF MakePipe, CloseEnds, Alive, Goto, SetFds, Types, Proc
  <1>2. CASE MakePipe(q)
    <2>1. fd[q] = Plain(at[q]) BY <1>1, <1>2 DEF WellOpen, MakePipe, Meets, Running
    <2>2. Lowest(fd[q]) = 3 /\ Lowest(OpenAt(fd[q], RdEnd(at[q]))) = 4 BY <2>1, PipeOpens
    <2>3. fd'[q] = Piped(at[q])
      <3>1. fd'[q] = OpenAt(OpenAt(fd[q], RdEnd(at[q])), WrEnd(at[q]))
        BY <1>2 DEF MakePipe, SetFds, Types, Proc
      <3>2. QED BY <2>1, <3>1, PipeOpens
    <2>4. p'[q] = [rd |-> 3, wr |-> 4] BY <1>2, <2>2 DEF MakePipe, Types, Proc
    <2>5. pc'[q] = "fork_left" BY <1>2 DEF MakePipe, Goto, Types, Proc
    <2>6. WellOpen(q)' BY <1>1, <2>3, <2>4, <2>5, WellOpenThere
    <2>7. QED BY <1>1, <2>6, CallOpened
  <1>3. CASE CloseEnds(q)
    <2>1. fd[q] = Piped(at[q]) /\ p[q] = [rd |-> 3, wr |-> 4]
      BY <1>1, <1>3 DEF WellOpen, CloseEnds, Running
    <2>2. fd'[q] = CloseFd(CloseFd(Piped(at[q]), 3), 4)
      BY <1>3, <2>1 DEF CloseEnds, SetFds, Types, Proc
    <2>3. fd'[q] = Plain(at[q]) BY <2>2, PipeCloses
    <2>4. pc'[q] = "wait1" BY <1>3 DEF CloseEnds, Goto, Types, Proc
    <2>5. WellOpen(q)' BY <1>1, <2>3, <2>4, WellOpenThere
    <2>6. QED BY <1>1, <2>5, CallOpened
  <1>4. QED BY <1>2, <1>3

LEMMA RedirectOpened ==
    ASSUME Types, Walked, Opened, NEW q \in Node, Redirect(q)
    PROVE  Opened'
  <1>1. /\ Alive(q) /\ state[q] = "run" /\ pc[q] = "runcmd" /\ kind[at[q]] \in {"OUT", "IN"}
        /\ at[q] \in Node /\ line \in Lines /\ fd[q] = Plain(at[q])
    BY DEF Redirect, Meets, Running, Alive, Opened, WellOpen, Types, Proc
  <1>2. CASE Dies(q) BY <1>1, <1>2, ExitOpened DEF Dies
  <1>3. CASE /\ SetFds(q, OpenAt(CloseFd(fd[q], IF kind[at[q]] = "OUT" THEN 1 ELSE 0), File(at[q])))
             /\ at' = [at EXCEPT ![q] = Left(at[q])]
             /\ UNCHANGED <<line, state, parent, pc, p, pipe, todo, fails>>
    <2> DEFINE i == IF kind[at[q]] = "OUT" THEN 1 ELSE 0
    <2>1. Left(at[q]) \in Node BY <1>1, Children DEF Unary
    <2>2. fd'[q] = OpenAt(CloseFd(Plain(at[q]), i), File(at[q]))
      BY <1>1, <1>3 DEF SetFds, Types, Proc
    <2>3. fd'[q] = [Plain(at[q]) EXCEPT ![i] = File(at[q])] BY <2>2, Reopened
    <2>4. fd'[q] = Plain(Left(at[q])) BY <1>1, <2>1, <2>3, PlainBelow
    <2>5. at'[q] = Left(at[q]) /\ pc'[q] = "runcmd" BY <1>1, <1>3 DEF Types, Proc
    <2>6. WellOpen(q)' BY <1>3, <2>4, <2>5, WellOpenThere
    <2>7. \A x \in Proc : /\ x # q => /\ at'[x] = at[x] /\ pc'[x] = pc[x]
                                      /\ fd'[x] = fd[x] /\ p'[x] = p[x]
                          /\ Alive(x)' <=> Alive(x)
      BY <1>3 DEF SetFds, Types, Proc, Alive
    <2>8. QED BY <1>3, <2>6, <2>7, CallOpened
  <1>4. QED BY <1>2, <1>3 DEF Redirect

LEMMA ListOpened ==
    ASSUME Types, Walked, Opened, NEW q \in Node, List(q)
    PROVE  Opened'
  <1>1. at[q] \in Node /\ line \in Lines BY DEF Types, Proc
  <1>2. ASSUME Meets(q, "LIST"), Fork(q, Left(at[q]), "runcmd", "list_wait", UseVfork)
        PROVE  Opened'
    <2>1. Left(at[q]) \in Node BY <1>1, <1>2, Children DEF Meets, Binary
    <2>2. Forking(q, Left(at[q]), "runcmd", "list_wait")
      BY <1>2, <2>1 DEF Meets, Running, Forking, Alive
    <2>3. QED BY <1>2, <2>2, ForkOpened
  <1>3. ASSUME Meets(q, "LIST"), Dies(q) PROVE Opened'
    BY <1>3, ExitOpened DEF Meets, Running, Dies
  <1>4. ASSUME Running(q, "list_wait"), Wait(q, "list_right") PROVE Opened'
    BY <1>4, WaitOpened DEF Running, Waited
  <1>5. ASSUME Running(q, "list_right"), at' = [at EXCEPT ![q] = Right(at[q])],
               Goto(q, "runcmd"), UNCHANGED <<line, state, parent, fd, p, pipe, todo, fails>>
        PROVE  Opened'
    <2>1. Alive(q) BY <1>5 DEF Running, Alive
    <2>2. kind[at[q]] = "LIST" /\ fd[q] = Plain(at[q])
      BY <1>5, <2>1 DEF Running, Walked, Located, InPlace, Opened, WellOpen
    <2>3. Right(at[q]) \in Node BY <1>1, <2>2, Children DEF Binary
    <2>4. fd'[q] = Plain(Right(at[q])) BY <1>1, <1>5, <2>2, <2>3, PlainBelow
    <2>5. at'[q] = Right(at[q]) /\ pc'[q] = "runcmd" BY <1>5 DEF Goto, Types, Proc
    <2>6. WellOpen(q)' BY <1>5, <2>4, <2>5, WellOpenThere
    <2>7. \A x \in Proc : /\ x # q => /\ at'[x] = at[x] /\ pc'[x] = pc[x]
                                      /\ fd'[x] = fd[x] /\ p'[x] = p[x]
                          /\ Alive(x)' <=> Alive(x)
      BY <1>5 DEF Goto, Types, Proc, Alive
    <2>8. QED BY <1>5, <2>6, <2>7, CallOpened
  <1>6. QED BY <1>2, <1>3, <1>4, <1>5 DEF List

LEMMA ForksOpened ==
    ASSUME Types, Walked, Opened, NEW q \in Node, ForkLeft(q) \/ ForkRight(q) \/ Back(q)
    PROVE  Opened'
  <1>1. Alive(q) /\ state[q] = "run" /\ at[q] \in Node /\ line \in Lines /\ InPlace(q)
    BY DEF ForkLeft, ForkRight, Back, Meets, Running, Alive, Types, Proc, Walked, Located
  <1>2. CASE Dies(q) BY <1>1, <1>2, ExitOpened DEF Dies
  <1>3. CASE pc[q] = "fork_left" /\ Fork(q, Left(at[q]), "run_pipe_left", "fork_right", UseVfork)
    <2>1. kind[at[q]] = "PIPE" BY <1>1, <1>3 DEF InPlace
    <2>2. Left(at[q]) \in Node BY <1>1, <2>1, Children DEF Binary
    <2>3. Forking(q, Left(at[q]), "run_pipe_left", "fork_right")
      BY <1>1, <1>3, <2>1, <2>2 DEF Forking
    <2>4. QED BY <1>3, <2>3, ForkOpened
  <1>4. CASE pc[q] = "fork_right" /\ Fork(q, Right(at[q]), "run_pipe_right", "close_ends", UseVfork)
    <2>1. kind[at[q]] = "PIPE" BY <1>1, <1>4 DEF InPlace
    <2>2. Right(at[q]) \in Node BY <1>1, <2>1, Children DEF Binary
    <2>3. Forking(q, Right(at[q]), "run_pipe_right", "close_ends")
      BY <1>1, <1>4, <2>1, <2>2 DEF Forking
    <2>4. QED BY <1>4, <2>3, ForkOpened
  <1>5. CASE Meets(q, "BACK") /\ Fork(q, Left(at[q]), "runcmd", "return", UseVfork)
    <2>1. Left(at[q]) \in Node BY <1>1, <1>5, Children DEF Meets, Unary
    <2>2. Forking(q, Left(at[q]), "runcmd", "return")
      BY <1>1, <1>5, <2>1 DEF Forking, Meets, Running
    <2>3. QED BY <1>5, <2>2, ForkOpened
  <1>6. QED BY <1>2, <1>3, <1>4, <1>5 DEF ForkLeft, ForkRight, Back, Running

LEMMA ProgramOpened ==
    ASSUME Types, Walked, Opened, NEW q \in Node,
           \/ Write(q) \/ BrokenPipe(q) \/ Read(q) \/ EndOfFile(q) \/ GenDone(q)
           \/ Exec(q) \/ Return(q)
    PROVE  Opened'
  <1>1. state[q] = "run" /\ Alive(q)
    BY DEF Write, BrokenPipe, Read, EndOfFile, GenDone, IsProg, Exec, Return, Meets, Running, Alive
  <1>2. CASE Exit(q) BY <1>1, <1>2, ExitOpened
  <1>3. CASE UNCHANGED <<line, state, at, pc, fd, p>>
    <2>1. \A x : Alive(x)' <=> Alive(x) BY <1>3 DEF Alive
    <2>2. QED BY <1>3, <2>1, OpenStays
  <1>4. CASE /\ Running(q, "runcmd") /\ Goto(q, "prog") /\ state' = Awake(state, q)
             /\ UNCHANGED <<line, at, fd, p>>
    <2>1. fd[q] = Plain(at[q]) BY <1>1, <1>4 DEF Running, Opened, WellOpen
    <2>2. \A x \in Proc : /\ pc'[x] = IF x = q THEN "prog" ELSE pc[x]
                          /\ Alive(x)' <=> Alive(x)
      BY <1>4 DEF Goto, Awake, Alive, Types
    <2>3. WellOpen(q)' BY <1>4, <2>1, <2>2, WellOpenThere DEF Proc
    <2>4. QED BY <1>4, <2>2, <2>3, CallOpened
  <1>5. QED BY <1>2, <1>3, <1>4
    DEF Write, BrokenPipe, Read, EndOfFile, GenDone, ProgExit, Exec, Return

LEMMA NextOpened ==
    ASSUME Types, Walked, Opened, [Next]_vars
    PROVE  Opened'
  <1>1. CASE RunLine
    <2>1. Root \in Node /\ Node \subseteq Proc /\ Shell \in Proc /\ Shell \notin Node
      BY NodeIsSeq, NotNodes DEF Proc
    <2>2. CASE Fork(Shell, Root, "runcmd", "waitpid", FALSE)
      <3> DEFINE v == FALSE
      <3>1. Fork(Shell, Root, "runcmd", "waitpid", v) BY <2>2
      <3> HIDE DEF v
      <3>2. /\ line' = line
            /\ \A x \in Proc :
                  /\ at'[x] = IF x = Root THEN Root ELSE at[x]
                  /\ pc'[x] = IF x = Shell THEN "waitpid"
                              ELSE IF x = Root THEN "runcmd" ELSE pc[x]
                  /\ fd'[x] = IF x = Root THEN fd[Shell] ELSE fd[x]
                  /\ p'[x] = IF x = Root THEN p[Shell] ELSE p[x]
                  /\ Alive(x)' <=> Alive(x) \/ x = Root
        BY <2>1, <3>1, ForkFrame
      <3>3. at'[Root] = Root /\ pc'[Root] = "runcmd" /\ fd'[Root] = Plain(Root)
        BY <2>1, <3>2 DEF Opened
      <3>4. WellOpen(Root)' BY <3>2, <3>3, WellOpenThere
      <3>5. QED BY <2>1, <3>2, <3>4, OpenStays
    <2>3. CASE /\ state[Root] = "zombie" /\ state' = [state EXCEPT ![Root] = "gone"]
               /\ Goto(Shell, "prompt")
               /\ UNCHANGED <<line, parent, at, fd, p, pipe, todo, fails>>
      <3>1. \A x \in Node : (Alive(x)' <=> Alive(x)) /\ pc'[x] = pc[x]
        BY <2>1, <2>3 DEF Goto, Types, Alive
      <3>2. QED BY <2>3, <3>1, OpenStays
    <2>4. QED BY <1>1, <2>2, <2>3 DEF RunLine
  <1>2. ASSUME NEW q \in Node, Step(q) PROVE Opened'
    <2>1. CASE RunPipeLeft(q) \/ RunPipeRight(q) BY <2>1, PipeRunOpened
    <2>2. CASE MakePipe(q) \/ CloseEnds(q) BY <2>2, MakePipeOpened
    <2>3. CASE Redirect(q) BY <2>3, RedirectOpened
    <2>4. CASE List(q) BY <2>4, ListOpened
    <2>5. CASE ForkLeft(q) \/ ForkRight(q) \/ Back(q) BY <2>5, ForksOpened
    <2>6. CASE PipeWait(q) BY <2>6, WaitOpened DEF PipeWait, Running, Waited
    <2>7. CASE \/ Write(q) \/ BrokenPipe(q) \/ Read(q) \/ EndOfFile(q) \/ GenDone(q)
               \/ Exec(q) \/ Return(q)
      BY <2>7, ProgramOpened
    <2>8. QED BY <1>2, <2>1, <2>2, <2>3, <2>4, <2>5, <2>6, <2>7 DEF Step
  <1>3. CASE UNCHANGED vars
    <2>1. \A x : Alive(x)' <=> Alive(x) BY <1>3 DEF vars, Alive
    <2>2. QED BY <1>3, <2>1, OpenStays DEF vars
  <1>4. QED BY <1>1, <1>2, <1>3 DEF Next

-----------------------------------------------------------------------------
(* The theorems *)

LEMMA InitInv ==
    ASSUME Init
    PROVE  IInv
  <1>1. Root \in Node /\ Shell \in Proc /\ Shell \notin Node /\ InitProc \notin Node /\ Node \subseteq Proc
    BY NodeIsSeq, NotNodes DEF Proc
  <1>2. \A x \in Node : ~Started(x) /\ ~Alive(x) /\ parent[x] \notin Node
    BY <1>1 DEF Init, Started, Alive, Proc
  <1>3. Types
    <2>1. fd \in [Proc -> Table]
      <3>1. \A q \in Proc : [i \in Fd |-> IF q = Shell /\ i \in 0 .. 2 THEN Tty ELSE Closed] \in Table
        BY Targets DEF Table
      <3>2. QED BY <3>1 DEF Init
    <2>2. 0 \in Fd /\ 0 \in 0 .. PipeCap /\ 0 \in 0 .. (Chunks + 1) BY ShellExecAssumption DEF Fd
    <2>3. p \in [Proc -> [rd : Fd, wr : Fd]] BY <2>2 DEF Init
    <2>4. pipe \in [Node -> 0 .. PipeCap] /\ todo \in [Proc -> 0 .. (Chunks + 1)]
      BY <2>2 DEF Init
    <2>5. state \in [Proc -> {"none", "run", "vforking", "zombie", "gone"}] BY DEF Init
    <2>6. pc \in [Proc -> Statements] /\ at \in [Proc -> Node] /\ parent \in [Proc -> Proc \cup {InitProc}]
      BY <1>1 DEF Init, Statements
    <2>7. line \in Lines /\ fails \in Nat BY DEF Init
    <2>8. QED BY <2>1, <2>3, <2>4, <2>5, <2>6, <2>7 DEF Types, Table, Target
  <1>4. Walked
    <2>1. Placed /\ Ahead /\ LeftFirst /\ Nested BY <1>2 DEF Placed, Ahead, LeftFirst, Nested
    <2>2. Located
      <3>1. pc[Shell] = "run_line" /\ state[Shell] = "run" BY <1>1 DEF Init
      <3>2. QED BY <1>1, <1>2, <3>1 DEF Located, ShellInPlace
    <2>3. Waiting BY <1>2 DEF Waiting, ParentsLive
    <2>4. QED BY <2>1, <2>2, <2>3 DEF Walked
  <1>5. Opened
    <2> DEFINE f == Plain(Root)
    <2>1. fd[Shell] = [i \in Fd |-> IF i \in 0 .. 2 THEN Tty ELSE Closed] BY <1>1 DEF Init
    <2>2. f = [i \in Fd |-> f[i]] /\ f[0] = Tty /\ f[1] = Tty /\ f[2] = Tty
          /\ \A i \in Fd : i > 2 => f[i] = Closed
      BY PlainTable, ExpectedAtRoot
    <2> HIDE DEF f
    <2>3. \A i \in Fd : f[i] = IF i \in 0 .. 2 THEN Tty ELSE Closed BY <2>2 DEF Fd
    <2>4. fd[Shell] = f BY <2>1, <2>2, <2>3
    <2>5. QED BY <1>2, <2>4 DEF Opened, f
  <1>6. QED BY <1>3, <1>4, <1>5 DEF IInv

LEMMA NextInv ==
    ASSUME IInv, [Next]_vars
    PROVE  IInv'
  BY NextTypes, NextWalked, NextOpened DEF IInv

LEMMA Invariance == Spec => []IInv
  BY InitInv, NextInv, PTL DEF Spec

(* Every variable keeps its type for every tree and every number of failed    *)
(* calls; a process that lives is at a statement of runcmd() (sh.c:1892-1988).*)
THEOREM TypeCorrect == Spec => []TypeOK
  <1>1. IInv => TypeOK
    <2>1. SUFFICES ASSUME IInv PROVE TypeOK OBVIOUS
    <2>2. Types /\ Located BY <2>1 DEF IInv, Walked
    <2>3. line \in [tree : [Node -> Kinds], vfork : BOOLEAN]
      BY <2>2, ShellExecAssumption DEF Types
    <2>4. /\ pc[Shell] \in {"run_line", "waitpid", "prompt"}
          /\ \A q \in Node : Alive(q) =>
                pc[q] \in {"runcmd", "run_pipe_left", "run_pipe_right", "list_wait",
                          "list_right", "fork_left", "fork_right", "close_ends",
                          "wait1", "wait2", "return", "prog"}
      BY <2>2 DEF Located, ShellInPlace, InPlace
    <2>5. QED BY <2>2, <2>3, <2>4 DEF Types, TypeOK
  <1>2. QED BY <1>1, Invariance, PTL

(* Whatever pipes and redirections nest around a command, and whoever closes  *)
(* what before, its program starts with the descriptors the line gives it and *)
(* no other (sh.c:1855-1872, 1940-1948, 1961-1979).                           *)
THEOREM ProgramsAreWired == Spec => []Wired
  <1>1. IInv => Wired
    <2>1. ASSUME IInv, NEW q \in Node, IsProg(q) PROVE fd[q] = Plain(at[q])
      BY <2>1 DEF IInv, IsProg, Running, Opened, WellOpen, Alive
    <2>2. QED BY <2>1 DEF Wired, Plain
  <1>2. QED BY <1>1, Invariance, PTL

(* The shell prompts only when every command of the line that no `&' detached *)
(* has ended, if no call failed on the way (sh.c:1950-1988, 2280-2290).       *)
THEOREM LineFinishes == Spec => []LineFinished
  <1>1. ASSUME IInv, pc[Shell] = "prompt", fails = 0, NEW q \in Node, Alive(q)
        PROVE  InBackground(at[q], Root)
    <2>1. Ended(Root) /\ Root \in Node /\ at[q] \in Node
      BY <1>1, NodeIsSeq DEF IInv, Walked, Located, ShellInPlace, Types, Proc
    <2>2. Started(Root) /\ ~Alive(Root) BY <2>1 DEF Ended, Alive, Started
    <2>3. Root \in Ancestors(q) /\ Root # q BY <1>1, <2>2, AncestorRoot
    <2>4. InBackground(q, Root) BY <1>1, <2>1, <2>2, <2>3 DEF IInv, Walked, Nested
    <2>5. q \in Ancestors(at[q]) BY <1>1, AliveStarted DEF IInv, Walked, Placed
    <2>6. QED BY <2>1, <2>4, <2>5, BackgroundDown
  <1>2. IInv => LineFinished BY <1>1 DEF LineFinished
  <1>3. QED BY <1>2, Invariance, PTL

(* In `a ; b' nothing of b is ever at work while a command of a that no `&'   *)
(* detached is (sh.c:1950-1959).                                              *)
THEOREM ListsInOrder == Spec => []ListInOrder
  <1>1. ASSUME IInv, NEW n \in Node, NEW q \in Node, NEW r \in Node,
               kind[n] = "LIST", fails = 0,
               Started(q), at[q] \in Subtree(Right(n)),
               Alive(r), at[r] \in Subtree(Left(n))
        PROVE  InBackground(at[r], Left(n))
    <2>1. /\ line \in Lines /\ at[r] \in Node
          /\ Right(n) \in Ancestors(at[q]) /\ Left(n) \in Ancestors(at[r]) /\ Left(n) \in Node
      BY <1>1, Children DEF IInv, Types, Subtree, Binary, Proc
    <2>2. Ended(Left(n)) BY <1>1, <2>1 DEF IInv, Walked, LeftFirst
    <2>3. Started(Left(n)) /\ ~Alive(Left(n)) BY <2>2 DEF Ended, Alive, Started
    <2>4. r \in Ancestors(at[r]) /\ Started(r)
      BY <1>1, AliveStarted DEF IInv, Walked, Placed
    <2>5. CASE Left(n) \in Ancestors(r)
      <3>1. InBackground(r, Left(n)) BY <1>1, <2>1, <2>3, <2>5 DEF IInv, Walked, Nested
      <3>2. QED BY <2>1, <2>4, <3>1, BackgroundDown
    <2>6. CASE r \in Ancestors(Left(n))
      <3>1. Left(n) # r BY <1>1, <2>3
      <3>2. ~Started(Left(n)) BY <1>1, <2>1, <2>4, <2>6, <3>1 DEF IInv, Walked, Placed
      <3>3. QED BY <2>3, <3>2
    <2>7. QED BY <2>1, <2>4, <2>5, <2>6, AncestorsInLine
  <1>2. IInv => ListInOrder BY <1>1 DEF ListInOrder, Started
  <1>3. QED BY <1>2, Invariance, PTL

(* Whoever is to write or to read at a node has that end open already.        *)
LEMMA HoldsExpected ==
    ASSUME IInv, NEW r \in Node, Alive(r), NEW i \in {0, 1}
    PROVE  /\ Holds(r, Expected(at[r], i))
           /\ pc[r] \in {"fork_left", "fork_right", "close_ends"} => Holds(r, WrEnd(at[r]))
  <1>1. WellOpen(r) /\ InPlace(r) /\ line \in Lines /\ at[r] \in Node /\ i \in Fd
    BY DEF IInv, Opened, Walked, Located, Types, Proc, Fd
  <1>2. \A n : /\ Plain(n)[i] = Expected(n, i) /\ Piped(n)[i] = Expected(n, i)
               /\ Piped(n)[3] = RdEnd(n) /\ Piped(n)[4] = WrEnd(n)
    <2>1. ASSUME NEW n, NEW f, f = Plain(n), f = [j \in Fd |-> f[j]]
          PROVE  LET g == [f EXCEPT ![3] = RdEnd(n), ![4] = WrEnd(n)]
                 IN  g[0] = f[0] /\ g[1] = f[1] /\ g[3] = RdEnd(n) /\ g[4] = WrEnd(n)
      BY <2>1 DEF Fd
    <2>2. QED BY <2>1, PlainTable DEF Piped
  <1>3. CASE pc[r] \in {"runcmd", "list_wait", "list_right", "wait1", "wait2", "return", "prog"}
    BY <1>1, <1>2, <1>3 DEF WellOpen, Holds
  <1>4. CASE pc[r] \in {"fork_left", "fork_right", "close_ends"}
    <2>1. fd[r] = Piped(at[r]) /\ 4 \in Fd BY <1>1, <1>4 DEF WellOpen, Fd
    <2>2. QED BY <1>1, <1>2, <2>1 DEF Holds
  <1>5. CASE pc[r] \in {"run_pipe_left", "run_pipe_right"}
    <2>1. PICK n \in Node : /\ r \in {Left(n), Right(n)} /\ kind[n] = "PIPE"
                            /\ pc[r] = "run_pipe_left" <=> r = Left(n)
      BY <1>1, <1>5, Sides DEF InPlace
    <2>2. /\ Front(r) = n /\ Above(r) = "PIPE" /\ (IsLeft(r) <=> r = Left(n)) /\ at[r] = r
      BY <1>1, <1>5, <2>1, Children DEF InPlace, Above
    <2>3. fd[r] = Piped(n) BY <1>1, <1>5, <2>2 DEF WellOpen
    <2>4. Expected(r, i) = IF Binds(r, i) THEN Bound(r, i) ELSE Expected(n, i)
      BY <1>1, <2>1, ExpectedBelow
    <2>5. Expected(r, i) \in {RdEnd(n), WrEnd(n), Expected(n, i)}
      BY <2>2, <2>4 DEF Bound
    <2>6. 3 \in Fd /\ 4 \in Fd BY DEF Fd
    <2>7. QED BY <1>1, <1>2, <1>5, <2>2, <2>3, <2>5, <2>6 DEF Holds
  <1>6. QED BY <1>1, <1>3, <1>4, <1>5 DEF InPlace

(* A read meets the end of a pipe, and a write is killed, only when everyone  *)
(* who is to write to it, or to read from it, has ended (sh.c:1961-1979).     *)
THEOREM PipesEnd == Spec => PipesEndInTime
  <1>1. ASSUME IInv, NEW q \in Node, EndOfFile(q) PROVE NoWriterLeft(q)
    <2>1. SUFFICES ASSUME NEW r \in Node, NEW n \in Node, Alive(r), fd[q][0] = RdEnd(n)
                   PROVE  ~Holds(r, WrEnd(n))
      BY <1>1, HoldsExpected DEF NoWriterLeft
    <2>2. fd[q][0][1] = "rd" /\ fd[q][0][2] = n BY <2>1 DEF RdEnd
    <2>3. ~SomeoneHolds(WrEnd(n)) BY <1>1, <2>2 DEF EndOfFile
    <2>4. QED BY <2>1, <2>3 DEF SomeoneHolds, Proc
  <1>2. ASSUME IInv, NEW q \in Node, BrokenPipe(q) PROVE NoReaderLeft(q)
    <2>1. SUFFICES ASSUME NEW r \in Node, NEW n \in Node, Alive(r), fd[q][1] = WrEnd(n)
                   PROVE  ~Holds(r, RdEnd(n))
      BY <1>2, HoldsExpected DEF NoReaderLeft
    <2>2. fd[q][1][1] = "wr" /\ fd[q][1][2] = n BY <2>1 DEF WrEnd
    <2>3. ~SomeoneHolds(RdEnd(n)) BY <1>2, <2>2 DEF BrokenPipe
    <2>4. QED BY <2>1, <2>3 DEF SomeoneHolds, Proc
  <1>3. IInv => [\A q \in Node : /\ EndOfFile(q) => NoWriterLeft(q)
                                 /\ BrokenPipe(q) => NoReaderLeft(q)]_vars
    BY <1>1, <1>2
  <1>4. QED BY <1>3, Invariance, PTL DEF PipesEndInTime
=============================================================================
