# v6-user: a verification project

v6-user is the user space of an xv6-like kernel: a small C library, `init`, a
shell with job control and a line editor, file utilities, and a large number of
programs that test or probe the kernel. The kernel is not in this repository.
The modules here model the programs whose own logic is hard to test, and treat
the kernel as the environment they run in.

## Inventory

| part | state it keeps | operations | talks to |
|---|---|---|---|
| `lib/umalloc.c` | headers in the heap, `base`, `freep` | `malloc`, `free`, `morecore` | `sbrk`, shared with programs that call it themselves |
| `sh.c`, `runcmd` | processes, descriptors, pipes; local `p[2]` | one case per node of the parse tree | `fork` or `vfork`, `exec`, `wait`, `pipe`, `dup`, `close`, `open` |
| `sh.c`, `run_line` (interactive) | foreground group, terminal mode, `raw_mode`, the job's pid | fork a job, wait for it, take the terminal back | jobs, terminal, signals |
| `sh.c`, `do_readline` | `line_buf`, `cursor_pos`, the history ring, the terminal row | one per key, completion | terminal, directories |
| `sh.c`, parser | position in the line, the tree | `gettoken`, `parse*`, `dequote`, `nulterminate` | `runcmd` |
| `sh.c`, variables | `env_vars[64]` and libc's `environ` | set, unset, assignment words, expansion | `exec`, completion |
| `init/init.c` | `pid` of the console shell | start services, start the shell, wait | every process that loses its parent |
| `lib/fsutil.c` with `cp`, `mv`, `rm` | the file system | recursive copy, move, remove | other users of the files |
| `consolerecord` | one file, one console | check, read, unlink, commit | others that change the file |
| `mkfs_xv6fs` | a disk image | lay out, allocate, append | nobody while it runs |
| `primes`, `wakestorm`, `pingpong` | pipes, futex words | a chain or a pool of processes | each other |
| `grep`, `dd`, `wc`, `cat` ... | one buffer | read and write loops | short reads and writes |
| `lib/printf.c`, `lib/ulib.c` | none | formatting, strings | |
| kernel tests, graphics probes | none of their own | call sequences with expected results | kernel and drivers |

What is hard in each is listed, with lines, under `hazards` in `PROJECT.json`:
orders of processes and signals nobody wrote a test for (the shell, `init`),
long sequences of calls over one structure (malloc, the line editor), failures
halfway (fork, copy across devices), files that change between two looks at them
(`consolerecord`), three scans of one line that must agree (the parser), loops
that must end (malloc, wait loops, recursive removal).

## Modules

| module | what it is |
|---|---|
| `HeapSpec` | what malloc and free promise: disjoint blocks inside memory obtained from sbrk, large enough, unchanged until returned |
| `Umalloc` | `lib/umalloc.c`, one step per turn of its loops |
| `UmallocInv` | its type invariant, properties, inductive invariant, and the refinement mapping to `HeapSpec` |
| `UmallocProofs` | type correctness, disjoint blocks, the sorted ring, nothing leaks, neighbours merge, the search sees all, `HeapSpec` is implemented, proved |
| `ShellExec`, `ShellExecProofs` | `runcmd` as processes over a small kernel |
| `ShellParse`, `ShellParseProofs` | the parser as functions of a line that is being typed, and a reference lexer and grammar |
| `JobControl`, `JobControlProofs` | the interactive shell, its jobs and their terminal |
| `EditSpec` | what the line editor promises: text left and right of a cursor, a list of remembered lines |
| `LineEdit`, `LineEditProofs` | `do_readline`, one action per key, with the terminal row; refines `EditSpec` |
| `InitReaper`, `InitReaperProofs` | `init`'s loops over the kernel's process table |
| `FsUtil`, `FsUtilProofs` | `lib/fsutil.c` and the loops of `cp`, `mv` and `rm` over a tree of files |
| `ConsoleRecord`, `ConsoleRecordProofs` | processes that check, read, unlink and commit one file others may change |
| `MC*` | instances for TLC: small constants, sets of command lines and of file trees |

The definition after a comment beginning "Mutant:" is one of the deliberately
wrong variants of a definition that follows it. No specification uses them; each
shows that some property would notice that mistake in the code.

### Umalloc

Memory is counted in units of `sizeof(Header)` and a block is named by the unit
address of its header; `base` is unit 1, below the heap. `ptr` and `size` are the
header fields, `pc` says whether the process is in malloc's loop (`scan`), in
free's loop (`free`) or outside; `p`, `prevp`, `bp` and `fp` are the C locals
(`fp` is free's `p`). `caller` tells `FreeReturns` whether free was called by the
program or by morecore, after which malloc goes on with the successor of `freep`
without rereading anything else. `Malloc`/`MallocFirst`, `ScanNext`, `TakeWhole`,
`TakeTail`, `Grow` and `GrowFails` are the branches of `malloc` and `morecore`;
`Free`, `FreeNext` and `FreeLink` those of `free`. `OtherSbrk` is any other user
of `sbrk` in the same program (`waitreapstorm.c:39`, which takes thread stacks
that way), so the heap has gaps that must not be merged across. `ring` and
`live` are history: which headers are on the ring, which blocks the program
holds. The code has no locks and the library no threads of its own; allocation
from several threads at once, or of a block not held, is a misuse the code says
nothing about and is not modelled. Sizes are natural numbers: the C arithmetic is
64-bit after the first addition (`nbytes` is widened by `sizeof`), and `sbrk`
takes an `int64`.

### ShellExec

A tree is a function from nodes to kinds; a node is the path of `left` and `right`
that leads to it, and `Node`, the paths considered, is a constant. A process is named by
the node it was forked for, since every fork in `runcmd` runs one node. The
kernel operators (`Fork`, `Exit`, `Wait`, descriptor allocation, pipe reads and
writes) are external. What one process does to its own descriptors between two
calls others can notice is one step. Programs are generators, copiers and
`head`, which is all a pipe can tell of a program; `noexec` is a command
that cannot be executed. A line comes with the build that runs it, and `UseVfork`
is which body `shell_fork` (`sh.c:1761`) has there: the build in this repository
has `vfork`, a build with `USE_NCURSES_SHELL` has `fork`. `fork` and `open` may fail `MaxFails` times.
Not modelled: that a vfork child runs on its parent's stack (the C standard
leaves the parent's locals undefined; the child here is in a deeper frame when
it writes its own), and `waitgdb`.

### JobControl

The shell's statements around readline and in `run_line`, the child's statements
before `runcmd`, and the events that come from outside: ^C and ^Z reach the
foreground group while the mode has ISIG, SIGCONT and SIGKILL reach any job. A
foreground program may leave the terminal in any mode. The shell has no signal
handlers, so ^C or ^Z that finds the shell itself in the foreground with ISIG on
ends or stops it; `PromptComesBack` excuses it for that, and the hazard list
names the window. Setting the foreground group from the background is taken to
succeed, as the shell's own use of it in the child requires. `late` is a history
variable: the jobs that were stopped on their way to `runcmd`, given up by the
shell for that, and continued later. Such a job still makes its claims to the
terminal, so the properties name those that have made one (`Claimed`) as the only
other possible owner; see "What disagrees".

### LineEdit and EditSpec

A C operation on the buffer is an operator on the record `ed` of line, cursor
and terminal: it yields the new line *and* replays what the code writes to the
terminal (characters, cursor moves, clear to end of line). The row begins where the prompt
ends and does not wrap. History is the ring of the code with its three indices.
Completion gets any set of names that begin with the word at the cursor, so it
does not matter which directories were read; MAX_MATCHES and NAME_MAX are not
bounds here. ^C keeps `history_idx`, as in the code. Other processes writing on
the same terminal are not modelled; they disturb the row until ^L.

`EditSpec` says the same without buffer, ring or terminal: two sequences around
the cursor, a list of the last lines without empty ones and immediate repeats,
and a position in it. `ImplementsEditSpec` maps one to the other.

### InitReaper

Pids are a small set of slots, free again when waited for. Any process may fork,
wait and exit; orphans go to init. `WaitInterrupted` is a negative answer of
`wait`, which goes round at once (`-EINTR`) or sleeps first. Mounting, the
network configuration and the parsing of `/etc/startup` run once, before, and
are left out; how many services start is open.

### FsUtil

The C recursion is a stack of frames, and each system call that can be told from
its neighbours is an action: the two opens of a copy, each chunk read and
written, `unlink` and `symlink`, `mkdir`, the directory reads, `rename`. A path
is a sequence of names, and since no file has two names it also stands for what
`st_dev` and `st_ino` identify. `Walk` is what `lstat` looks at, `Real` what
`stat` and `open` do. A directory that is read while entries are made in it
yields all that were there at the start and any of the later ones. `CallFails`
makes any call fail, and its function return at once; `CopySymlinkFails` is the
one place where the code carries on (`fsutil.c:299-310`), by copying what the
link names. `Begin` is the loop of `main` with `fsutil_resolve_target`, whose
`lstat` may fail as well (`BeginBlind`). Left out: modes (`chmod` is one more
call that may fail at the end of a copy), hard links, and other users of the same
files. The instances leave out a link copied onto itself and two sources of
the same name, where what "complete" should mean is nobody's promise.

### ConsoleRecord

One action per system call of a process, and one per thing another program of the
same user may do to the file between two of them: move it away, link it, replace
it by renaming another file over it, remove a name, rewrite it, change its mode.
`Held` collects what each check has established; `IInv` says it stays true until
the console has the text. `InWindow` says whether others may put a file at the
path between the last `lstat` of a process and its `unlink`, or link the same file
back before the remaining names are counted. System calls cannot close
that window, so the properties are claimed for `InWindow = FALSE`; with TRUE, TLC
finds a process that unlinks a file it has not read, and one file committed twice
by way of a second link renamed back to the path. A record given on the command
line is two steps and is left out.

### ShellParse

A line is typed character by character, and in each state the parser's functions
are applied to it: `GetToken`, `Peek`, the `Parse*` functions and `Dequote` follow
the code scan by scan, with positions for pointers; `panic()` is the tree
`Panic`. The loops of `parseredirs`, `parseexec` and `parseline` are `ParseRedirs`,
`ParseArgs` and `Background`, whose turns are `OneRedir`, `OneArg` and `OneAmp`. `parseline`
and `parsepipe` call themselves and each other: `Calls(t)` is what they answer at every
position, by how deep the calls may nest, and a line never needs more than one level for
each of its characters, since every call starts further on than its caller.

The reference reads the line once, by the quoting rules in the comment
at `sh.c:2747-2765`, into words and operators (`Reading`, the state after each character),
and a grammar splits those at the operators that bind least. It refuses what is not
balanced, more words than fit, a redirection without a file; what follows the last `&` of
several commands is a command again, if only an empty one, unless nothing follows at all,
as `parseline` has it. `Agreed` leaves out the lines on which `gettoken` and
`dequote` are known to disagree (below). `HasControl` is the scan by which
`run_line` decides whether a line may be a built-in.

## Runs

| run | question | bounds |
|---|---|---|
| `umalloc` (MCUmalloc.cfg) | do malloc and free keep the heap and implement `HeapSpec`, and do their loops end? | seven heap units, requests of 0, 16 and 33 bytes with a 16-byte header (1, 2 and 4 units), morecore minimum 3, foreign gaps of one unit |
| `shell_pipes` (MCShellExec.cfg) | are descriptors, end of file, SIGPIPE and waiting right? | all lines of two levels of operators, with `vfork` over three programs, with `fork` over copiers and `head` and over generators that stand on the left; pipes of one chunk, generators of two |
| `shell_failures` (MCShellExecLive.cfg) | does every line end, and is everything waited for, when a call fails? | one failure of fork or open; lines over two programs, all with `fork`, and with `vfork` those whose pipes have only commands and redirections below them |
| `shell_vfork` (MCShellExecVfork.cfg) | does `a \| b \| c` end with `vfork`? It does not | pipelines of two to four commands |
| `job_control` (MCJobControl.cfg) | who owns the terminal, in which mode, and does the prompt come back? | three jobs |
| `line_editor` (MCLineEdit.cfg) | does the row always show the line? what does completion insert? | lines of three characters from two letters, a space and a slash, one remembered line, three names |
| `line_history` (MCLineEditHistory.cfg) | do buffer and ring implement `EditSpec`? | lines of two characters, three remembered lines |
| `init_reaper` (MCInitReaper.cfg) | one shell, and the right one? does it come back, are orphans reaped? | four processes, two interruptions |
| `fsutil` (MCFsUtil.cfg) | do cp, mv and rm lose nothing, do all they report, touch nothing else, and end? | a source of up to three levels (file, links to a file, a directory, the source itself or nothing, a device), eight things that stand in its way, one or several arguments, within a device and across; one failing call; paths of five names; files of two chunks |
| `fsutil_alias` (MCFsUtilAlias.cfg) | what if the destination is a link to the source? It is emptied | one file, `cp` and `mv` across devices |
| `console_record` (MCConsoleRecord.cfg) | is one text committed once, and only the file that was read removed? | two processes with either option, two files, three steps of others, two names per file; processes and files are symmetric |
| `shell_parse` (MCShellParse.cfg) | do the three scans and the recursive descent agree with the reference? | every line of up to seven characters from a letter, blank, quotes and backslash; up to eight from quote, backslash, bar and blank; up to six from a letter and all operators; up to five from ten of them together; two words at most |

Why these bounds are enough to be interesting. Seven units hold a ring of base and
two or three free blocks with held blocks and gaps between them, so that a
freed block meets none, either or both of its neighbours, and a request may be
an exact fit, a split that leaves one unit, or larger than the minimum of
morecore. A pipe of one chunk and generators of two make writers block and die
by SIGPIPE. Two levels of operators give a pipe in a pipe, a list in a pipe, redirections
around both. Three jobs allow one stopped for good, one running and one ended.
Three remembered lines wrap the ring more than once. Four pids allow an orphan
to get the pid an earlier shell had while a service and a new shell run. A source
directory with a directory in it makes every recursion return through itself,
with every answer; two chunks make the copy loop go round; five names let a copy
into itself reach the limit. Two processes and three steps of others suffice for
a file to be linked, removed and put back between any two checks. Lines of seven
characters hold a quoted backslash before a quote, with something after it.

Deadlock is not checked: a program need not call malloc, a line ends, a user may
stop typing, init exits when fork fails, a command or a process of
`consolerecord` ends. What must go on is stated as liveness.

## Fairness

`umalloc`: a call that has begun runs on; nothing obliges the program to
call. `fsutil`: one process, which runs. `shell_failures`, `shell_vfork`: the kernel schedules
each process that can take a step (weak fairness per process). `job_control`: shell
and children run; keys, signals, typing and the end of a program are up to
others, and the property speaks only of jobs that have ended or stopped.
`init_reaper`: init runs, and `wait` does not pass over the same zombie for ever
(strong fairness per child), since a kernel that did would starve any program;
interruptions of `wait` are bounded by `MaxInterrupts`.

## What disagrees

* `shell_vfork`: with `vfork` a pipeline of three commands hangs. Its right command
  is itself a pipe, run by a vfork child that never execs; the parent sleeps with
  the outer pipe's write end open, so the middle command never sees end of file.
  The helpers are headed "Pipe helpers (vfork-safe wrappers)" (`sh.c:1851`).
* `fsutil_alias`: `cp a l`, or `mv a l` across devices, where `l` is a symbolic link
  to `a`, empties `a`. The guard of `fsutil_copy_regular` against copying a file
  onto itself (`fsutil.c:127-130`) looks at `l` with `lstat`, which sees a link,
  and `open(dst, ... O_TRUNC)` (`fsutil.c:137`) then follows it. The instances of
  `fsutil` leave such links out (`NoAlias`).

Observed while modelling, and kept out of what the properties claim:

* Where a single-quoted string ends in an even run of two or more backslashes,
  `gettoken` (`sh.c:2587`) takes the last one for an escape of the quote, and
  `dequote`, which follows the rules at `sh.c:2754`, does not. The token then runs
  on: `'\\'|` loses its operator. `Agreed` excludes such lines.
* A child stopped by ^Z before its own `TIOCSPGRP` (`sh.c:2241`) is given up by the
  shell; when something continues it, it takes the foreground although "Restore
  shell as foreground" (`sh.c:2266`) is long done. `late` and `Claimed` name these jobs.
* `mv` across devices of a link that has a directory in its way copies what the link
  names, and reports success; `SuccessIsComplete` accepts the copy for the link.

## Proofs

The theorems hold for every value of the constants that the named assumptions
allow. Each rests on an inductive invariant.

**The allocator** (`UmallocAssumption`: any header size, request sizes, morecore
minimum, heap size, sizes of foreign gaps). `UmallocProofs` proves `TypeCorrect`
(`TypeOK`), `BlocksDisjoint` (`NoOverlap`) and `RingStaysSorted` (`RingSorted`).
None of the three is inductive alone. That a merged block does not overlap its
successor needs the ring to be sorted, since only then is `ptr[fp]` the *next*
block; that the ring stays sorted needs the walk to be on the ring and the freed
block to be on neither side (`Walking`, `NoOverlap`); that the walk starts on
the ring needs `freep` and `base` to be anchored there whenever any call is
under way (`Anchored`); that fresh memory is disjoint from everything needs
foreign memory to lie below the break (`BelowBreak`). `IInv` is their
conjunction. One lemma per action shows it is kept; the lemmas on sorted rings
are stated on arbitrary sets and functions and used by `FreeLink`, `TakeWhole`
and `Grow`.

The second half proves `NothingLeaks` (`NoLeak`), `NeighboursMerge` (`Coalesced`) and
`SearchSeesAll` (`SearchIsThorough`). What `FreeLink` does to the four cases of
neighbours is put once, in `LinkSizes`: the block `First` grows to where `Final` ended and no
other header changes its size. The last theorem needs an invariant of
its own, `Searched`: the free blocks from the one after `freep` to `prevp`, in ring
order, are all too small. A step of the walk extends that segment by one block,
and when the walk is back at `freep` the segment is the whole ring, because a
sorted ring has no member between a block and its successor.

It also proves `Implements` (`ImplementsHeapSpec`). `Malloc` is `Ask`,
`TakeWhole` and `TakeTail` are `Serve`, `Grow` is `Extend`, `GrowFails` is `Refuse`, `Free` is `Return`, and
the turns of both loops, `FreeLink` and `OtherSbrk` are steps the caller does not see,
since none of them changes the size of a live block (`UnseenRefines`). That a block has room
for the bytes is the rounding lemma `RoundsUp`.

**runcmd** (`ShellExecAssumption`: any set of lines over any finite or infinite
set of tree nodes, any pipe capacity, any number of chunks and of failing calls,
`fork` and `vfork` alike). `ShellExecProofs` proves `TypeCorrect` (`TypeOK`),
`ProgramsAreWired` (`Wired`), `ListsInOrder` (`ListInOrder`), `PipesEnd`
(`PipesEndInTime`) and `LineFinishes` (`LineFinished`). That a process which
prints has the right descriptors, or that nothing outlives its line, says
nothing of how the descriptors and the processes got there, so none of them is
inductive. `IInv` is `Types /\ Walked /\ Opened`:

* `Placed`: a process only moves down from the node it was forked for, and no node is
  run by two. This is what lets a node name a process, although `runcmd` calls itself
  for the right side of a list and for every redirection without forking.
* `Ahead`: which sides of its node a process has still to start is told by its
  statement and nothing else, so a fork never meets a process already there.
* `Located` and `Waiting`: the children a process has still to wait for are those of
  the node it stands at, on the sides it has started. `wait` takes any child,
  so the second `wait` of a pipe is right only because nothing else can be left.
* `LeftFirst`: while the right side of a list runs, nothing that ran on the left does.
* `Nested`: as long as no call failed, what runs below a process is below a child it still waits
  for, or was detached by `&`. `LineFinished` is this for the whole line.
* `Opened`: at every statement the descriptor table is the one that statement
  expects, below a pipe and below a redirection. It rests on two lemmas: closing a descriptor
  and opening gives back that descriptor, and `pipe` on a table with three descriptors gives 3 and 4.

Each kind of step (fork, exit, wait, a recursive call, a step on its own
descriptors) has one lemma for what it leaves alone and one per group
of conjuncts. TLC found `IInv` to hold on the lines of
`shell_failures` before it was proved.

**consolerecord** (`RecordAssumption`, any number of processes, files, names and
steps of others; `~InWindow`). `ChecksHold` proves `IInv` itself: what an `lstat`, an `fstat` or a
`read` has established is true until the text is committed, whatever others do. `CommittedOnce` (`OncePerSource`), `CommittedAndGone`
(`CommittedIsConsumed`) and `UnlinksOwn` (`UnlinksOwnSource`) follow from `IInv`, which the run
also checks. From its last `lstat` to `unlink` a process knows that the path is
empty or names its own file; once it has unlinked, the path does not name it; once
it has counted the names, there are none, and none can come back. Two processes
past `unlink` are `Apart`, since the second would have had to find at the path
what the first had taken away.

**Job control** (any number of jobs). `TypeCorrect`, `PromptKeepsTerminal`
(`PromptOwnsTerminal`), `JobGetsTerminal` (`WaitsForForeground`), `CommandStartsInFront` (`StartsInForeground`). The invariant says
who may hold the terminal at each statement of `run_line` (`Owner`); that only the
watched job or a late one can move on towards `runcmd` (`Abandoned`, from which
`MovesOn`), because `waitpid` gives up only a job that has ended or stopped; and
that what a late job has claimed stays claimed (`ClaimsStay`).

**init** (any number of processes and interruptions). `TypeCorrect`, `NeverTwoShells`
(`OneConsoleShell`), `WaitsForShell` (`WaitsForItsShell`) follow from `ItsShell`: a console shell exists
exactly while init waits, its slot is taken, so no `fork` is given its pid, and it
stays init's child, so nobody else can wait for it.

**The line editor** (`LineEditAssumption`: any letters and names, any buffer of two
bytes or more, any history of one line or more). `LineEditProofs` proves
`TypeCorrect` (`TypeOK`), `RowShowsLine` (`ScreenMatches`), `TabAddsShared`
(`TabCompletes`) and `Implements` (`ImplementsEditSpec`). `Shown(l, n)` is the line `l`
with the cursor at `n`, correctly drawn. One lemma per buffer operation says that
it turns one such picture into another and which: `InsertShows` ..
`RedisplayShows` are the eight repaints of the code, each of which touches only part of the row
and relies on what the others left there. `IInv` says that between keys the
editor is such a picture, that every slot of the ring holds a line that fits the buffer (recall
copies it there), and that the oldest line is in slot 0 until the ring is full.

Completion types a string through `line_insert_char`, which drops characters
when the buffer is full. `Grown` describes the line after `i` characters: a beginning
of them stands at the cursor, all of them unless the buffer is full, and nothing
else moved. It is shown for every `i` by `Induction`, stated for a set of natural
numbers, so that it needs no operator for parameter; `TypedExists` shows in the same way that the
recursive function of `InsertAll` is there. `TabAdds` then compares what was typed with the
common prefix, and only a single match is followed by its space or slash.

For the refinement, `entriesBar` reads the ring from its oldest slot: `ListGrows` and
`ListShifts` show that `history_add` appends to that list, and drops its first line
when it wraps. Each key is one operation of `EditSpec`, except those that change nothing
(`ClearScreen`, a deletion at either end, recall at either end, completion without a
match).

**The file utilities** (`FsAssumption`: any tree, any operands and destination
made of names and dots, any limit on a path and on failing calls). `FsUtilProofs` proves
`TypeCorrect` (`TypeOK`), for a job that is `PlainJob` `WritesWhereTold` (`TouchesOnly`), for
a `cp` that is `Apart` `SourcesKept` (`SourceSafe`), for an `mv` that is `Clear`
`MovedOrKept` (`SourceSafe`), and for a `cp` or `mv` that is `Clear` and an `rm` that is `PlainJob`
`SuccessComplete` (`SuccessIsComplete`).

That the files stay a tree is not inductive: `Symlink` and `CopyChunk` write to a path that was
looked up some steps before, and `DirectoryRemoved` removes a name because it had
no entries. `OnTop` keeps what was found: what the call on top copies to is a file, or a
name in a directory; `Deep` says that a call with `n` calls below it has paths longer
than `n` names, which bounds the recursion. The lemmas about `Walk`, a recursive function, are
shown for every path by `Induction` on a set of lengths; `MovedIs` says what `rename` of
a directory leaves, and `MovedKeepsTree` that it is a tree.

`PlainJob` asks that operands and destination are reached without links and without dots, that
no operand is in another one, and that the destination is in none; 680 of the 765
jobs of `fsutil` are such (TLC checks `TouchesOnly` on all). The tree may hold
any links below the operands and at or below the destination, and the theorem is about those.
Its invariant `PInv` says that such a path still leads where it says
(`Direct`) although the command itself removes and renames directories, that a
call that copies works below `final` and one that removes below the operand (`OnCourse`),
and that directories on the way to what is being removed are themselves being
scanned, so that none of them has gone (`Inside`). `MovedDirs` and
`WaysKept` show that neither `rename` nor the removal of one operand takes away the way to
the next one.

`Apart` asks further that no two operands have the same last name, that no operand is at or below a
place where a copy is put, and that no link standing at such a place or below it leads into an
operand; 238 of the 256 `cp` jobs of `fsutil` are such. The last is needed because `open()`
follows such a link and would truncate the source. Copying makes links of its own, which may well lead
into a source, so the invariant `SInv` says more than that sources are untouched: where something
is still to be written there are no links but old ones (`OldLinks`), and since an entry is
copied once, a call works below a name its caller has read (`Nested`) and never goes back to one.
It holds for `mv` as well, of the operands that are not yet renamed or being removed (`Intact`).

`Clear` asks further that no link stands at a place where a copy is put or below it, and that
no link in an operand leads to such a place or below it; 377 of the 573 `cp` and `mv` jobs of `fsutil` are
such, and TLC checks both properties on all. A link in the way may be replaced, kept, or written through, each with success, depending
on what it leads to, and one in an operand that leads to the copy may lead elsewhere by the time it is read. Both
properties then rest on one invariant, `CInv`: every operand is as it was, or all of it is
where it was to be put (`Kept`); and while a call copies, it has a chain of callers (`Chain`) of which
each one's directory is copied as far as it was read, except for the entry the call on top is in (`Ready`), while of a
file the copy holds a prefix (`Progress`). Nothing is removed before the chain has been answered with
success all the way down (`InProgress`), which is why a failure halfway through
`fsutil_copy_path` leaves the source, and one halfway through `fsutil_remove_path` a complete
copy. Reading a directory once is enough because `SInv` keeps the source from changing under
the copy: the names that were there when reading began (`must`) are all there ever were. For `rm` the invariant `RInv` says only
that the first call is for the operand, since that one can only answer success when the operand is gone.
TLC checked the copy's invariant on the jobs of `fsutil` that are `Clear` before it was proved.

**The parser** (`ParseAssumption`: any keyboards and any number of words that fit). `BuiltinMeansSimpleHolds`
(`BuiltinMeansSimple`) compares two scans with the reading, which serves as their common
measure, and `TreeIsGrammaticalHolds` (`TreeIsGrammatical`) the recursive descent with the
grammar. `Typed` is the only invariant; everything else is about one line, which `IsLine` says
ends with a newline, so that no escape is its last character. Each recursive function is
first shown to exist and to satisfy its equation (`ClosingExists`, `QuoteEndIs`, `CallsAre` and
the others), by induction over a number, where `Induction` is the well-foundedness
of the naturals put for sets. `QuoteEndMeans` and `WordEndMeans` say that `gettoken` leaves a
quote and a word where the reading does; it is here that the line must be `Even`, free of the
disagreement, because inside single quotes the scan may stand on the second of two backslashes
that the reading takes for one. `HasControlMeans` and `SeesMeans` then say that each scan
finds something exactly when an operator of the reading is there.

For the tree, `WordText` says that `dequote` leaves the word of the reading, and `Scans`, what
`gettoken` and `peek` answer anywhere between two words or operators (`Bound`), in terms of the
list the reading makes. From there on the line is that list. Where a parse
function must stop is its `Extent`: the first operator at the level of parentheses it
began at that does not belong to it, or the end of the line. A parse function `Agrees` with the grammar when, whenever it returns a
tree and stands on such an operator or at the end, it is at its `Extent`, the parentheses in
between match (`Closed`) and the tree is the one the grammar gives that part; and when the
grammar gives a tree, it does so. That it may also return a tree before anything else, a stray
parenthesis say, is what makes the second half of the definition necessary: whoever called it
then calls `panic`. `Split` says that the operator at which the grammar splits a part is the
`Extent` of its first operand, so that each parse function agrees if those it calls do
(`ExecAgrees`, `PipeAgrees`, `LineAgrees`; the loop over `&` is `BackgroundIs` against `RestIs`).
`CallsAgree` closes the recursion, by induction over the nesting of calls: every call
takes a word or an operator and there are no more of them than characters (`Fewer`), so the
depth allowed to the model's functions is never what ends them.

Only model-checked: `SourceSafe` and `SuccessIsComplete` for the jobs that links keep from being `Apart` or `Clear`.
Out of the prover's reach is liveness (`CallsReturn`, `Terminates`, `AllReaped`, `PromptComesBack`,
`ShellComesBack`, `OrphansReaped`, `Ends`).

## Not modelled

* Shell variables and expansion: one table of fixed slots, changed by one process
  at a time, nearly all of it copying of bounded strings; the two defects met
  there are in the hazard list.
* Built-ins, scripts and options of the shell: sequential, one system call or one
  print each. A script line goes through the parser and `runcmd` modelled here.
* `mkfs_xv6fs`: one pass of writes over an image nobody else has open. What a stop
  in between leaves is read only by the kernel, which is not here.
* `primes`, `wakestorm`, `pingpong` and their like: exercises of the kernel's pipes, futexes
  and scheduler; whether they end is a question to the kernel.
* `grep`, `dd`, `wc`, `cat` and other filters: one loop over read and write each.
* `lib/printf.c`, `lib/ulib.c`, system call stubs, start-up code: no state, or generated.
* Kernel tests, graphics, input and network probes, dumps: straight-line calls
  whose expected results lie in a kernel and in drivers that are not here. They
  are by far most of the repository's lines, so the share of lines these modules
  stand for is small whatever else is modelled.
