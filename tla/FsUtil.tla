------------------------------- MODULE FsUtil -------------------------------
(***************************************************************************)
(* lib/fsutil.c with its callers cp, mv and rm: recursive copy, move       *)
(* across devices and recursive removal, over a tree of files, links and   *)
(* directories.  The C recursion is a stack of frames; a frame's pc says   *)
(* which call comes next.  Any call may fail, MaxFails times.              *)
(*                                                                         *)
(* A path is a sequence of names.  No file has two names, so a path also   *)
(* stands for what st_dev and st_ino identify.  Contents are sequences of  *)
(* chunks.  Modes are left out: chmod is one more call that can fail at    *)
(* the end of a copy.                                                      *)
(***************************************************************************)
EXTENDS Naturals, Sequences, SequencesExt

CONSTANTS
    Name,       \* names of directory entries
    Chunk,      \* what one read() of a file returns
    Jobs,       \* [cmd, args, dst, r, f, tree, mount]: a command, the tree it meets and
                \* the path where a second device is mounted
    MaxPath,    \* names in the longest path that fits MAXPATH
    MaxFails    \* how many calls may fail

Dir == [kind |-> "dir", body |-> <<>>]
Kind(t, p) == IF p \in DOMAIN t THEN t[p].kind ELSE "none"
Dots == {".", ".."}

\* A link holds the path it leads to.
Object == [kind : {"file"}, body : Seq(Chunk)] \cup [kind : {"link"}, body : Seq(Name)]
              \cup [kind : {"dir", "dev"}, body : {<<>>}]
\* Every name is in a directory.
IsTree(t) ==
    \A p \in DOMAIN t : /\ p \in Seq(Name) /\ t[p] \in Object
                        /\ p # <<>> => Kind(t, Front(p)) = "dir"

\* An operand names something below the root, in a path lstat() takes.
ASSUME FsAssumption ==
    /\ MaxPath \in Nat /\ MaxFails \in Nat /\ Name \cap Dots = {}
    /\ \A j \in Jobs : /\ j.cmd \in {"cp", "mv", "rm"} /\ j.args # <<>>
                       /\ j.args \in Seq(Seq(Name \cup Dots) \ {<<>>})
                       /\ \A i \in DOMAIN j.args : Len(j.args[i]) <= MaxPath
                       /\ j.dst \in Seq(Name \cup Dots)
                       /\ IsTree(j.tree) /\ Kind(j.tree, <<>>) = "dir"
                       /\ Kind(j.tree, j.mount) = "dir"

VARIABLES
    job,        \* the command line, and the tree as it found it
    fs,         \* path -> [kind, body]
    arg,        \* i of main's loop
    final,      \* final_dst of main
    stack,      \* the calls in progress, innermost first
    ret,        \* what the last call returned
    status,     \* status of main
    fails       \* calls that failed so far

vars == <<job, fs, arg, final, stack, ret, status, fails>>

Follow(t, p) == IF Kind(t, p) = "link" THEN t[p].body ELSE p

\* The name lstat() looks at: links on the way are followed, the last name is not.
Enter(t, q, n) ==
    LET d == Follow(t, q)
    IN IF n = "." THEN d
       ELSE IF n = ".." THEN IF d = <<>> THEN d ELSE Front(d)
       ELSE Append(d, n)
Walk(t, p) ==
    LET at[i \in 0 .. Len(p)] == IF i = 0 THEN <<>> ELSE Enter(t, at[i - 1], p[i])
    IN at[Len(p)]

\* What stat() and open() look at.
Real(t, p) == Follow(t, Walk(t, p))

Entries(t, p) == {Last(q) : q \in {q \in DOMAIN t : /\ Len(q) = Len(p) + 1
                                                    /\ IsPrefix(p, q)}}
Put(t, p, o) == [q \in DOMAIN t \cup {p} |-> IF q = p THEN o ELSE t[q]]
Without(t, p) == [q \in DOMAIN t \ {p} |-> t[q]]
CanHold(t, p) == p # <<>> /\ Kind(t, Front(p)) = "dir"

top == stack[1]
At(pc) == stack # <<>> /\ top.pc = pc
Frame(pc, s, d) == [pc |-> pc, src |-> s, dst |-> d, in |-> s, out |-> d,
                    off |-> 0, text |-> <<>>, must |-> {}, seen |-> {}]
Become(f) == stack' = <<f>> \o Tail(stack) /\ UNCHANGED ret
Call(f, callee) == stack' = <<callee, f>> \o Tail(stack) /\ UNCHANGED ret
Return(v) == stack' = Tail(stack) /\ ret' = v
Reject(v) == Return(v) /\ UNCHANGED fs

Recursive == job.r \/ job.cmd = "mv"
Forced == job.f /\ job.cmd = "rm"

\* fsutil_join_path; mutant: the terminator is not counted.
TooLongUncounted(p) == Len(p) > MaxPath
TooLong(p) == Len(p) + 1 > MaxPath

Init ==
    /\ job \in Jobs
    /\ fs = job.tree
    /\ arg = 1 /\ final = <<>> /\ stack = <<>> /\ ret = "call" /\ status = 0 /\ fails = 0

-----------------------------------------------------------------------------
(* fsutil_copy_path *)

\* The copy at the top is of a file, a directory or a link that is still to be
\* copied as a link; after copy_symlink() has failed, of what the link names.
Source == IF top.pc = "follow" THEN Real(fs, top.src) ELSE Walk(fs, top.src)
Copying(kind) == stack # <<>> /\ top.pc \in {"copy", "follow"} /\ Kind(fs, Source) = kind

CopyNothing ==
    /\ \/ Copying("none") /\ Reject(IF top.pc = "copy" THEN "ENOENT" ELSE "EIO")
       \/ Copying("dev") /\ Reject(IF top.pc = "copy" THEN "EOPNOTSUPP" ELSE "EIO")
       \/ Copying("link") /\ top.pc = "follow" /\ Reject("EIO")
    /\ UNCHANGED <<job, arg, final, status, fails>>

SameFile(s, d) == s = d

\* fsutil_copy_regular up to the second open(), which empties the destination.
CopyRegular ==
    /\ Copying("file")
    /\ LET out == Real(fs, top.dst)
       IN IF SameFile(Source, Walk(fs, top.dst)) THEN Reject("EINVAL")
          ELSE IF Kind(fs, out) \notin {"none", "file"} \/ ~CanHold(fs, out) THEN Reject("EISDIR")
          ELSE /\ fs' = Put(fs, out, [kind |-> "file", body |-> <<>>])
               /\ Become([top EXCEPT !.pc = "data", !.in = Source, !.out = out])
    /\ UNCHANGED <<job, arg, final, status, fails>>

\* Mutant: the loop ends when one buffer has been written.
MoreOnce == top.off = 0 /\ fs[top.in].body # <<>>
More == top.off < Len(fs[top.in].body)

CopyChunk ==
    /\ At("data") /\ More
    /\ fs' = [fs EXCEPT ![top.out].body = Append(@, fs[top.in].body[top.off + 1])]
    /\ Become([top EXCEPT !.off = @ + 1])
    /\ UNCHANGED <<job, arg, final, status, fails>>

CopyEof ==
    /\ At("data") /\ ~More
    /\ Reject("ok")
    /\ UNCHANGED <<job, arg, final, status, fails>>

\* fsutil_copy_symlink: what is in the way is unlinked first.
CopySymlink ==
    /\ Copying("link") /\ top.pc = "copy"
    /\ LET d == Walk(fs, top.dst)
       IN IF Kind(fs, d) = "dir" THEN Become([top EXCEPT !.pc = "follow"]) /\ UNCHANGED fs
          ELSE /\ fs' = Without(fs, d)
               /\ Become([top EXCEPT !.pc = "symlink", !.out = d, !.text = fs[Source].body])
    /\ UNCHANGED <<job, arg, final, status, fails>>

Symlink ==
    /\ At("symlink")
    /\ IF CanHold(fs, top.out)
       THEN /\ fs' = Put(fs, top.out, [kind |-> "link", body |-> top.text])
            /\ Return("ok")
       ELSE Become([top EXCEPT !.pc = "follow"]) /\ UNCHANGED fs
    /\ UNCHANGED <<job, arg, final, status, fails>>

\* fsutil_copy_directory up to the first getdents().
CopyDirectory ==
    /\ Copying("dir")
    /\ LET d == Walk(fs, top.dst)
           new == IF Kind(fs, d) = "none" THEN Put(fs, d, Dir) ELSE fs
       IN IF ~Recursive THEN Reject("EISDIR")
          ELSE IF SameFile(Source, d) THEN Reject("EINVAL")
          ELSE IF Kind(fs, d) \notin {"none", "dir"} THEN Reject("ENOTDIR")
          ELSE IF ~CanHold(fs, d) THEN Reject("ENOENT")
          ELSE /\ fs' = new
               /\ Become([top EXCEPT !.pc = "list", !.in = Source,
                                     !.must = Entries(new, Source)])
    /\ UNCHANGED <<job, arg, final, status, fails>>

\* The directory is read while entries are made in it: those that were there at
\* the start are all returned, later ones may be.
CopyEntry ==
    /\ At("list") /\ ret = "call"
    /\ \E n \in Entries(fs, top.in) \ top.seen :
          IF TooLong(top.src) \/ TooLong(top.dst) THEN Reject("ENAMETOOLONG")
          ELSE /\ Call([top EXCEPT !.seen = @ \cup {n}],
                       Frame("copy", Append(top.src, n), Append(top.dst, n)))
               /\ UNCHANGED fs
    /\ UNCHANGED <<job, arg, final, status, fails>>

EntryCopied ==
    /\ At("list") /\ ret # "call"
    /\ IF ret = "ok" THEN ret' = "call" /\ UNCHANGED <<stack, fs>> ELSE Reject(ret)
    /\ UNCHANGED <<job, arg, final, status, fails>>

DirectoryCopied ==
    /\ At("list") /\ ret = "call" /\ top.must \subseteq top.seen
    /\ Reject("ok")
    /\ UNCHANGED <<job, arg, final, status, fails>>

-----------------------------------------------------------------------------
(* fsutil_remove_path *)

\* Mutant: the path is looked up with stat(), so a link is taken for its target.
LookupFollow(p) == Real(fs, p)
Lookup(p) == Walk(fs, p)

RemoveLeaf ==
    /\ At("remove")
    /\ LET p == Lookup(top.src)
           k == Kind(fs, p)
       IN IF k = "none" THEN Reject(IF Forced THEN "ok" ELSE "ENOENT")
          ELSE IF Last(top.src) \in Dots THEN Reject("EINVAL")
          ELSE IF k # "dir" THEN fs' = Without(fs, p) /\ Return("ok")
          ELSE IF ~Recursive THEN Reject("EISDIR")
          ELSE Become([top EXCEPT !.pc = "scan", !.in = p]) /\ UNCHANGED fs
    /\ UNCHANGED <<job, arg, final, status, fails>>

\* One entry is removed, then the directory is read again from the start.
RemoveEntry ==
    /\ At("scan") /\ ret = "call"
    /\ \E n \in Entries(fs, top.in) :
          IF TooLong(top.src) THEN Reject("ENAMETOOLONG")
          ELSE /\ Call(top, Frame("remove", Append(top.src, n), <<>>))
               /\ UNCHANGED fs
    /\ UNCHANGED <<job, arg, final, status, fails>>

\* Mutant: an error in a subdirectory is passed over.
RemovedAnyway ==
    /\ At("scan") /\ ret # "call"
    /\ ret' = "call" /\ UNCHANGED <<stack, fs>>
    /\ UNCHANGED <<job, arg, final, status, fails>>
EntryRemoved ==
    /\ At("scan") /\ ret # "call"
    /\ IF ret = "ok" THEN ret' = "call" /\ UNCHANGED <<stack, fs>> ELSE Reject(ret)
    /\ UNCHANGED <<job, arg, final, status, fails>>

\* unlink() takes an empty directory, but not one where a device is mounted.
DirectoryRemoved ==
    /\ At("scan") /\ ret = "call" /\ Entries(fs, top.in) = {}
    /\ IF top.in = job.mount THEN Reject("EBUSY")
       ELSE fs' = Without(fs, top.in) /\ Return("ok")
    /\ UNCHANGED <<job, arg, final, status, fails>>

-----------------------------------------------------------------------------
(* fsutil_move_path *)

Moved(t, s, d) ==
    LET kept == {q \in DOMAIN t : ~IsPrefix(s, q) /\ ~IsPrefix(d, q)}
        New(q) == d \o SubSeq(q, Len(s) + 1, Len(q))
        from == {q \in DOMAIN t : IsPrefix(s, q)}
    IN [q \in kept \cup {New(p) : p \in from} |->
            IF q \in kept THEN t[q] ELSE t[s \o SubSeq(q, Len(d) + 1, Len(q))]]

\* What rename() answers.
RenameError(s, d) ==
    IF Kind(fs, s) = "none" \/ ~CanHold(fs, d) THEN "ENOENT"
    ELSE IF IsPrefix(job.mount, s) # IsPrefix(job.mount, d) THEN "EXDEV"
    ELSE IF s # d /\ (IsPrefix(s, d) \/ IsPrefix(d, s)) THEN "EINVAL"
    ELSE IF (Kind(fs, d) = "dir") # (Kind(fs, s) = "dir") /\ Kind(fs, d) # "none" THEN "ENOTDIR"
    ELSE IF s # d /\ Entries(fs, d) # {} THEN "ENOTEMPTY"
    ELSE "ok"

Rename ==
    /\ At("move")
    /\ LET s == Walk(fs, top.src)
           d == Walk(fs, top.dst)
           e == RenameError(s, d)
       IN CASE e = "ok" -> fs' = (IF s = d THEN fs ELSE Moved(fs, s, d)) /\ Return("ok")
            [] e = "EXDEV" -> /\ Call([top EXCEPT !.pc = "copied", !.in = s],
                                      Frame("copy", top.src, top.dst))
                              /\ UNCHANGED fs
            [] OTHER -> Reject(e)
    /\ UNCHANGED <<job, arg, final, status, fails>>

\* Mutant: the source goes whatever the copy returned.
UnlinkAlways ==
    /\ At("copied")
    /\ IF Kind(fs, top.in) = "dir"
       THEN stack' = <<Frame("remove", top.src, <<>>)>> \o Tail(stack) /\ ret' = "call" /\ UNCHANGED fs
       ELSE fs' = Without(fs, top.in) /\ Return("ok")
    /\ UNCHANGED <<job, arg, final, status, fails>>
RemoveSource ==
    /\ At("copied")
    /\ IF ret # "ok" THEN Reject(ret)
       ELSE IF Kind(fs, top.in) = "dir"
       THEN stack' = <<Frame("remove", top.src, <<>>)>> \o Tail(stack) /\ ret' = "call" /\ UNCHANGED fs
       ELSE fs' = Without(fs, top.in) /\ Return("ok")
    /\ UNCHANGED <<job, arg, final, status, fails>>

-----------------------------------------------------------------------------
(* Calls that fail, and main *)

\* A failing call makes its function return the error, at once.
CallFails ==
    /\ stack # <<>> /\ fails < MaxFails
    /\ ret = "call" \/ (top.pc = "copied" /\ ret = "ok")
    /\ Reject("EIO")
    /\ fails' = fails + 1
    /\ UNCHANGED <<job, arg, final, status>>

\* But an error of copy_symlink() makes copy_path() try what the link names.
CopySymlinkFails ==
    /\ (Copying("link") /\ top.pc = "copy") \/ At("symlink")
    /\ fails < MaxFails
    /\ Become([top EXCEPT !.pc = "follow"])
    /\ fails' = fails + 1
    /\ UNCHANGED <<job, fs, arg, final, status>>

Done == arg > Len(job.args)
Source1 == job.args[arg]
Many == Len(job.args) > 1

\* fsutil_resolve_target: into a directory under the source's own name.  An
\* lstat() that fails is taken for a name that does not exist yet.
Target(seen) == IF seen THEN Append(job.dst, Last(Source1)) ELSE job.dst

Begin(seen) ==
    LET d == Target(seen /\ Kind(fs, Walk(fs, job.dst)) = "dir")
        bad == \/ Many /\ ~(seen /\ Kind(fs, Walk(fs, job.dst)) = "dir")
               \/ Len(d) > MaxPath
    IN /\ stack = <<>> /\ ~Done /\ ret = "call"
       /\ fails' = IF seen THEN fails ELSE fails + 1
       /\ IF job.cmd = "rm" THEN /\ stack' = <<Frame("remove", Source1, <<>>)>>
                                 /\ UNCHANGED <<final, ret>>
          ELSE IF bad THEN ret' = "ENOTDIR" /\ UNCHANGED <<stack, final>>
          ELSE /\ final' = d
               /\ stack' = <<Frame(IF job.cmd = "mv" THEN "move" ELSE "copy", Source1, d)>>
               /\ UNCHANGED ret
       /\ UNCHANGED <<job, fs, arg, status>>

BeginArg == Begin(TRUE)
BeginBlind == job.cmd # "rm" /\ fails < MaxFails /\ Begin(FALSE)

Answered == stack = <<>> /\ ret # "call"
ArgDone ==
    /\ Answered
    /\ arg' = arg + 1 /\ ret' = "call"
    /\ status' = IF ret = "ok" THEN status ELSE 1
    /\ UNCHANGED <<job, fs, final, stack, fails>>

CopyStep == \/ CopyNothing \/ CopyRegular \/ CopyChunk \/ CopyEof \/ CopySymlink \/ Symlink
            \/ CopyDirectory \/ CopyEntry \/ EntryCopied \/ DirectoryCopied
RemoveStep == RemoveLeaf \/ RemoveEntry \/ EntryRemoved \/ DirectoryRemoved
Next == \/ CopyStep \/ RemoveStep \/ Rename \/ RemoveSource
        \/ CallFails \/ CopySymlinkFails \/ BeginArg \/ BeginBlind \/ ArgDone

Spec == Init /\ [][Next]_vars
FairSpec == Spec /\ WF_vars(Next)

-----------------------------------------------------------------------------
(* Properties *)

Below(t, p) == {q \in DOMAIN t : IsPrefix(p, q)}
Finished == Done /\ stack = <<>> /\ ret = "call"

\* The tree is a tree, no path outgrows its buffer, and the recursion, which
\* keeps three path buffers per call on the stack, is no deeper than a path.
TypeOK ==
    /\ arg \in 1 .. Len(job.args) + 1
    /\ status \in {0, 1} /\ fails \in 0 .. MaxFails
    /\ IsTree(fs)
    /\ \A i \in DOMAIN stack : Len(stack[i].src) <= MaxPath /\ Len(stack[i].dst) <= MaxPath
    /\ Len(stack) <= MaxPath + 1

\* At every step of cp and mv, also after a call has failed halfway through
\* fsutil_copy_path() or fsutil_remove_path(), every file of the sources is still
\* whole: for cp where it was, for mv in the source or at the destination,
\* and with cp so is every link.
SourceSafe ==
    job.cmd # "rm" =>
        \A i \in DOMAIN job.args :
            \A p \in Below(job.tree, Walk(job.tree, job.args[i])) :
                LET o == job.tree[p]
                IN o.kind = "file" \/ (o.kind = "link" /\ job.cmd = "cp") =>
                       \/ p \in DOMAIN fs /\ fs[p] = o
                       \/ job.cmd = "mv" /\ \E q \in DOMAIN fs : fs[q] = o

\* What the command may write: the destination, or a file through a link that
\* stands there; what mv and rm may remove: the source, never through a link.
MayTouch(p) ==
    \/ job.cmd # "cp" /\ IsPrefix(Walk(fs, Source1), p)
    \/ /\ job.cmd # "rm"
       /\ \/ IsPrefix(Walk(fs, final), p)
          \/ \E q \in Below(fs, Walk(fs, final)) : fs[q].kind = "link" /\ fs[q].body = p

\* The recursions of fsutil_copy_path() and fsutil_remove_path() change nothing
\* outside the path they were called with: links met on the way are copied or
\* removed as links and nothing below their targets is touched.
TouchesOnly ==
    [][\A p \in DOMAIN fs \cup DOMAIN fs' :
          \/ p \in DOMAIN fs \cap DOMAIN fs' /\ fs[p] = fs'[p]
          \/ MayTouch(p)]_fs

Rest(p, s) == SubSeq(p, Len(s) + 1, Len(p))
Copied(p, q) ==
    LET o == job.tree[p]
    IN CASE o.kind = "dir" -> Kind(fs, q) = "dir"
         [] o.kind = "file" -> Kind(fs, Follow(fs, q)) = "file" /\ fs[Follow(fs, q)] = o
         [] o.kind = "link" -> \/ q \in DOMAIN fs /\ fs[q] = o
                               \/ q \in DOMAIN fs /\ Kind(fs, Follow(fs, q)) = Kind(job.tree, o.body)
         [] OTHER -> q \in DOMAIN fs /\ fs[q] = o

\* When cp, mv or rm reports success for an argument (no message, status left
\* alone), all of it is at the destination with all its contents, and with mv and
\* rm none of it is left where it was.
SuccessIsComplete ==
    Answered /\ ret = "ok" =>
        LET s == Walk(job.tree, Source1)
            d == Walk(fs, final)
        IN \A p \in Below(job.tree, s) :
               /\ job.cmd # "rm" => Copied(p, d \o Rest(p, s))
               /\ job.cmd = "rm" \/ (job.cmd = "mv" /\ d # s) => p \notin DOMAIN fs

\* Every command ends: copying a directory into itself runs into MAXPATH, and
\* fsutil_remove_path(), which starts over after each entry, gives up on an error.
Ends == <>Finished
=============================================================================
