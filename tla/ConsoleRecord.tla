--------------------------- MODULE ConsoleRecord ---------------------------
(***************************************************************************)
(* programs/consolerecord: several processes, each told to send the file   *)
(* at one path to the console, while other programs of the same user move, *)
(* link, replace, rewrite or chmod that file between any two of their      *)
(* system calls.  With --terminal-batch-file the file is consumed: read,   *)
(* checked, unlinked, and committed once.  With --batch-file it stays.     *)
(*                                                                         *)
(* A text is a sequence of records; "bad" is one that the console's        *)
(* grammar rejects.  read() may return as little as one record.            *)
(***************************************************************************)
EXTENDS Integers, Sequences

CONSTANTS
    Procs,          \* the processes
    Inodes,         \* files; one of them is at the path at first
    None,           \* no file at the path
    Texts,          \* what a file may hold
    Terminal,       \* the one text that commits the terminal: RC, then FENCE
    MaxBatch,       \* CONSOLE_RECORD_BATCH_MAX_LOGICAL_BYTES
    MaxLinks,       \* names a file may have
    MaxOthers,      \* steps of the other programs
    InWindow        \* whether others may put a file at the path while it is unlinked

ASSUME RecordAssumption ==
    /\ None \notin Inodes
    /\ Texts \subseteq Seq({"rc", "fence", "bad"}) /\ Terminal \in Seq({"rc", "fence", "bad"})
    /\ MaxBatch \in Nat /\ MaxLinks \in Nat \ {0} /\ MaxOthers \in Nat
    /\ InWindow \in BOOLEAN

VARIABLES
    mode,           \* mode[p]: "terminal" or "batch", as the command line says
    path,           \* the inode at the path, or None
    nlink, text,    \* st_nlink and contents of every inode
    kind,           \* "private": regular, mode 0600; "shared": regular; "other"
    pc, status,     \* where each process is; its exit status
    src,            \* the inode behind input_fd
    st,             \* path_stat
    data,           \* what has been read so far
    others          \* steps the other programs have made

disk == <<mode, path, nlink, text, kind>>
vars == <<disk, pc, status, src, st, data, others>>

Stat(i) == [ino |-> i, kind |-> kind[i], size |-> Len(text[i]), nlink |-> nlink[i]]

\* terminal_private_source_valid; with --batch-file the file need only be regular.
Valid(p, s, links) ==
    IF mode[p] = "terminal" THEN s.kind = "private" /\ s.nlink = links ELSE s.kind # "other"

\* terminal_source_identity_matches; with --batch-file the mode is not compared.
Same(p, a, b) == /\ a.ino = b.ino /\ a.size = b.size
                 /\ mode[p] = "terminal" => a.kind = b.kind

SizeOK(p, n) == IF mode[p] = "terminal" THEN n = Len(Terminal) ELSE n \in 1 .. MaxBatch
\* Mutant: the text is taken as it is.
TextUnchecked(p, t) == t # <<>>
TextOK(p, t) == IF mode[p] = "terminal" THEN t = Terminal
                ELSE t # <<>> /\ \A k \in DOMAIN t : t[k] # "bad"

Init ==
    /\ mode \in [Procs -> {"terminal", "batch"}]
    /\ path \in Inodes
    /\ nlink = [i \in Inodes |-> 1]
    /\ text \in [Inodes -> Texts]
    /\ kind \in [Inodes -> {"private", "shared", "other"}]
    /\ pc = [p \in Procs |-> "lstat"] /\ status = [p \in Procs |-> 2]
    /\ src = [p \in Procs |-> None]
    /\ st = [p \in Procs |-> Stat(path)]
    /\ data = [p \in Procs |-> <<>>]
    /\ others = 0

-----------------------------------------------------------------------------
Goto(p, l) == pc' = [pc EXCEPT ![p] = l]

\* Exit with what status is then; a check that holds goes on to l.
Exit(p) == Goto(p, "done") /\ UNCHANGED status
ExitWith(p, s) == Goto(p, "done") /\ status' = [status EXCEPT ![p] = s]
Check(p, ok, l) == (IF ok THEN Goto(p, l) ELSE Goto(p, "done")) /\ UNCHANGED status

Lstat(p) ==
    /\ pc[p] = "lstat"
    /\ IF path = None THEN Exit(p) /\ UNCHANGED st
       ELSE /\ st' = [st EXCEPT ![p] = Stat(path)]
            /\ Check(p, Valid(p, Stat(path), 1) /\ SizeOK(p, Len(text[path])), "open")
    /\ UNCHANGED <<disk, src, data, others>>

\* O_NOFOLLOW: a link at the path is not opened; a fifo or directory is not regular.
Open(p) ==
    /\ pc[p] = "open"
    /\ IF path = None THEN Exit(p) /\ UNCHANGED src
       ELSE src' = [src EXCEPT ![p] = path] /\ Goto(p, "fstat") /\ UNCHANGED status
    /\ UNCHANGED <<disk, st, data, others>>

\* Mutant: what was opened is not compared with what lstat() saw.
FstatUncompared(p) ==
    /\ pc[p] = "fstat"
    /\ Check(p, Valid(p, Stat(src[p]), 1),
             IF mode[p] = "terminal" THEN "console" ELSE "read")
    /\ UNCHANGED <<disk, src, st, data, others>>
Fstat(p) ==
    /\ pc[p] = "fstat"
    /\ Check(p, Valid(p, Stat(src[p]), 1) /\ Same(p, st[p], Stat(src[p])),
             IF mode[p] = "terminal" THEN "console" ELSE "read")
    /\ UNCHANGED <<disk, src, st, data, others>>

\* open("/dev/console"): before the source is read, or after a batch is checked.
Console(p) ==
    /\ pc[p] = "console"
    /\ \/ Goto(p, IF mode[p] = "terminal" THEN "read" ELSE "ioctl") /\ UNCHANGED status
       \/ ExitWith(p, 3)
    /\ UNCHANGED <<disk, src, st, data, others>>

\* One read(); when it returns 0 too early the file has shrunk.
Read(p) ==
    /\ pc[p] = "read" /\ Len(data[p]) < st[p].size
    /\ \/ /\ Len(data[p]) < Len(text[src[p]])
          /\ data' = [data EXCEPT ![p] = Append(@, text[src[p]][Len(@) + 1])]
          /\ UNCHANGED <<pc, status>>
       \/ Len(data[p]) >= Len(text[src[p]]) /\ Exit(p) /\ UNCHANGED data
    /\ UNCHANGED <<disk, src, st, others>>

\* One byte more must be the end of the file; then the text is checked.
ReadExtra(p) ==
    /\ pc[p] = "read" /\ Len(data[p]) = st[p].size
    /\ LET eof == Len(text[src[p]]) <= Len(data[p])
           ok == mode[p] = "terminal" \/ Same(p, st[p], Stat(src[p]))
       IN Check(p, eof /\ ok /\ TextOK(p, data[p]),
                IF mode[p] = "terminal" THEN "verify" ELSE "console")
    /\ UNCHANGED <<disk, src, st, data, others>>

\* Mutant: any private file at the path will do.
VerifyAny(p) ==
    /\ pc[p] = "verify"
    /\ Check(p, path # None /\ Valid(p, Stat(path), 1), "verifyfd")
    /\ UNCHANGED <<disk, src, st, data, others>>
Verify(p) ==
    /\ pc[p] = "verify"
    /\ Check(p, path # None /\ Valid(p, Stat(path), 1) /\ Same(p, st[p], Stat(path)), "verifyfd")
    /\ UNCHANGED <<disk, src, st, data, others>>

VerifyFd(p) ==
    /\ pc[p] = "verifyfd"
    /\ Check(p, Valid(p, Stat(src[p]), 1) /\ Same(p, st[p], Stat(src[p])), "unlink")
    /\ UNCHANGED <<disk, src, st, data, others>>

Unlink(p) ==
    /\ pc[p] = "unlink"
    /\ IF path = None THEN Exit(p) /\ UNCHANGED <<path, nlink>>
       ELSE /\ path' = None /\ nlink' = [nlink EXCEPT ![path] = @ - 1]
            /\ Goto(p, "gone") /\ UNCHANGED status
    /\ UNCHANGED <<mode, text, kind, src, st, data, others>>

LstatGone(p) ==
    /\ pc[p] = "gone"
    /\ Check(p, path = None, "gonefd")
    /\ UNCHANGED <<disk, src, st, data, others>>

\* Mutant: the link count after unlink() is not looked at.
NoNames(p) == Same(p, st[p], Stat(src[p]))
Gone(p) == Valid(p, Stat(src[p]), 0) /\ Same(p, st[p], Stat(src[p]))

FstatGone(p) ==
    /\ pc[p] = "gonefd"
    /\ Check(p, Gone(p), "close")
    /\ UNCHANGED <<disk, src, st, data, others>>

Close(p) ==
    /\ pc[p] = "close"
    /\ Goto(p, "ioctl") /\ UNCHANGED status
    /\ UNCHANGED <<disk, src, st, data, others>>

Ioctl(p) ==
    /\ pc[p] = "ioctl"
    /\ ExitWith(p, 0) \/ ExitWith(p, 4)
    /\ UNCHANGED <<disk, src, st, data, others>>

\* Any call may fail for reasons of its own; what others have done stays.
CallFails(p) ==
    /\ pc[p] \notin {"console", "ioctl", "done"}
    /\ Exit(p)
    /\ UNCHANGED <<disk, src, st, data, others>>

Step(p) == \/ Lstat(p) \/ Open(p) \/ Fstat(p) \/ Console(p) \/ Read(p) \/ ReadExtra(p)
           \/ Verify(p) \/ VerifyFd(p) \/ Unlink(p) \/ LstatGone(p) \/ FstatGone(p)
           \/ Close(p) \/ Ioctl(p) \/ CallFails(p)

-----------------------------------------------------------------------------
(* Other programs of the same user *)

Elsewhere(i) == nlink[i] > (IF path = i THEN 1 ELSE 0)
Other == others < MaxOthers /\ others' = others + 1 /\ UNCHANGED <<mode, pc, status, src, st, data>>

MoveAway == Other /\ path # None /\ path' = None /\ UNCHANGED <<nlink, text, kind>>

\* A process has verified the path with its last lstat() and not unlinked it yet,
\* or i is what it unlinked and it has not counted the names that are left.
Busy(i) == \E p \in Procs : \/ pc[p] \in {"verifyfd", "unlink"}
                            \/ pc[p] \in {"gone", "gonefd"} /\ src[p] = i

\* rename() puts a file that has another name at the path.
Replace(i) ==
    /\ Other /\ i # path /\ Elsewhere(i)
    /\ InWindow \/ ~Busy(i)
    /\ path' = i
    /\ nlink' = IF path = None THEN nlink ELSE [nlink EXCEPT ![path] = @ - 1]
    /\ UNCHANGED <<text, kind>>

Link == /\ Other /\ path # None /\ nlink[path] < MaxLinks
        /\ nlink' = [nlink EXCEPT ![path] = @ + 1]
        /\ UNCHANGED <<path, text, kind>>

Remove == /\ Other /\ path # None
          /\ path' = None /\ nlink' = [nlink EXCEPT ![path] = @ - 1]
          /\ UNCHANGED <<text, kind>>

RemoveElsewhere(i) ==
    /\ Other /\ Elsewhere(i)
    /\ nlink' = [nlink EXCEPT ![i] = @ - 1]
    /\ UNCHANGED <<path, text, kind>>

Rewrite(i) == \E t \in Texts : /\ Other /\ text' = [text EXCEPT ![i] = t]
                               /\ UNCHANGED <<path, nlink, kind>>

Chmod(i) == /\ Other /\ kind[i] # "other"
            /\ kind' = [kind EXCEPT ![i] = IF @ = "private" THEN "shared" ELSE "private"]
            /\ UNCHANGED <<path, nlink, text>>

OtherStep == \/ MoveAway \/ Link \/ Remove
             \/ \E i \in Inodes : Replace(i) \/ RemoveElsewhere(i) \/ Rewrite(i) \/ Chmod(i)

Next == (\E p \in Procs : Step(p)) \/ OtherStep
Spec == Init /\ [][Next]_vars

-----------------------------------------------------------------------------
(* Properties *)

Labels == {"lstat", "open", "fstat", "console", "read", "verify", "verifyfd", "unlink",
           "gone", "gonefd", "close", "ioctl", "done"}

\* Every link count, text and local of every process stays in its type.
TypeOK ==
    /\ mode \in [Procs -> {"terminal", "batch"}]
    /\ path \in Inodes \cup {None}
    /\ nlink \in [Inodes -> Nat]
    /\ text \in [Inodes -> Seq({"rc", "fence", "bad"})]
    /\ kind \in [Inodes -> {"private", "shared", "other"}]
    /\ pc \in [Procs -> Labels] /\ status \in [Procs -> {0, 2, 3, 4}]
    /\ src \in [Procs -> Inodes \cup {None}]
    /\ st \in [Procs -> [ino : Inodes, kind : {"private", "shared", "other"}, size : Nat, nlink : Nat]]
    /\ data \in [Procs -> Seq({"rc", "fence", "bad"})]
    /\ others \in 0 .. MaxOthers
    /\ path # None => nlink[path] > 0

Committed(p) == pc[p] = "done" /\ status[p] = 0

\* A terminal batch that is past its checks on the open file, past those on the
\* text, past unlink(), and past counting the names that are left.
Opened(p) == pc[p] \in {"console", "read", "verify", "verifyfd", "unlink",
                        "gone", "gonefd", "close", "ioctl"} \/ Committed(p)
Checked(p) == pc[p] \in {"verify", "verifyfd", "unlink", "gone", "gonefd", "close", "ioctl"}
                 \/ Committed(p)
Unlinked(p) == pc[p] \in {"gone", "gonefd", "close", "ioctl"} \/ Committed(p)
Consumed(p) == pc[p] \in {"close", "ioctl"} \/ Committed(p)

\* What each check has established stays true until the console has the text,
\* whatever the other processes and programs do.
Held(p) ==
    /\ pc[p] # "done" => status[p] = 2
    /\ pc[p] = "fstat" \/ Opened(p) => src[p] # None
    /\ pc[p] \in {"verify", "verifyfd", "unlink", "gone", "gonefd", "close"} => mode[p] = "terminal"
    /\ mode[p] = "terminal" =>
          /\ Opened(p) => st[p].ino = src[p]
          /\ Checked(p) => data[p] = Terminal
          /\ pc[p] \in {"verifyfd", "unlink"} => path \in {None, src[p]}
          /\ Unlinked(p) => path # src[p]
          /\ Consumed(p) => nlink[src[p]] = 0

\* No two of them have unlinked the same file.
Apart == \A p, q \in Procs :
            p # q /\ mode[p] = "terminal" /\ mode[q] = "terminal" /\ Unlinked(p) /\ Unlinked(q)
                => src[p] # src[q]

\* The inductive invariant of these checks (consolerecord.c:60-139).
IInv == TypeOK /\ (\A p \in Procs : Held(p)) /\ Apart

\* However many processes are given the same path, and whatever others do with the
\* file, its text commits the terminal once: a second process finds the file
\* unlinked, or no longer its own (consolerecord.c:102-119).
OncePerSource ==
    \A p, q \in Procs :
        p # q /\ Committed(p) /\ Committed(q) /\ mode[p] = "terminal" /\ mode[q] = "terminal"
            => src[p] # src[q]

\* What commits the terminal is the expected text, and its source has no name
\* left under which anybody could submit it again (consolerecord.c:98-119).
CommittedIsConsumed ==
    \A p \in Procs :
        Committed(p) /\ mode[p] = "terminal" => data[p] = Terminal /\ nlink[src[p]] = 0

\* A process only ever unlinks the file it has read and found valid
\* (consolerecord.c:102-111): a record that has replaced it is left alone.
UnlinksOwnSource ==
    [][\A p \in Procs : pc[p] = "unlink" /\ pc'[p] = "gone" =>
           path = src[p] /\ data[p] = Terminal]_vars
=============================================================================
