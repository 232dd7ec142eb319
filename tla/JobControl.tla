------------------------------ MODULE JobControl ------------------------------
(* The interactive shell of src/programs/sh/sh.c, its jobs and the terminal  *)
(* they share: who is in the foreground and in which mode the terminal is,   *)
(* while shell and child both set them after fork() and keys send signals.   *)
(* A job is the child run_line() forks, in a process group of its own; what  *)
(* it runs is of no interest here.                                           *)
EXTENDS Integers, FiniteSets

NoJob == "none"

CONSTANTS Job,         \* bound: the jobs the shell may start, one per line
          Shell        \* the shell, and its process group

ASSUME JobControlAssumption == Shell \notin Job /\ NoJob \notin Job

(* Terminal modes: as the shell found it, readline's, what a child sets, and *)
(* anything a program leaves behind.                                         *)
Modes == {"orig", "raw", "sane", "program"}
Signalling == {"orig", "sane"}         \* ISIG is on

VARIABLES
    fgpg, mode,        \* the terminal: foreground group and mode
    shell,             \* "alive", "stopped" or "dead"
    pc,                \* statement of the shell
    raw_mode,          \* the shell's flag
    pid,               \* run_line()'s pid
    job,               \* statement of each job, "unborn", "zombie" or "reaped"
    pgrp, stopped,     \* of each job
    reported,          \* waitpid() has told of this stop
    late               \* history: jobs continued before they had reached runcmd()
                       \* and after the shell had given them up

vars == <<fgpg, mode, shell, pc, raw_mode, pid, job, pgrp, stopped, reported, late>>
tty == <<fgpg, mode>>
shellVars == <<shell, pc, raw_mode, pid>>
jobVars == <<job, pgrp, stopped, reported, late>>

Init ==
    /\ fgpg = Shell /\ mode = "orig"
    /\ shell = "alive" /\ pc = "prompt" /\ raw_mode = FALSE /\ pid = NoJob
    /\ job = [j \in Job |-> "unborn"] /\ pgrp = [j \in Job |-> Shell]
    /\ stopped = [j \in Job |-> FALSE] /\ reported = [j \in Job |-> FALSE]
    /\ late = {}

At(stmt) == shell = "alive" /\ pc = stmt

-----------------------------------------------------------------------------
(* The shell *)

(* do_readline(): raw mode, unless the flag says it is on. *)
EnableRaw ==
    /\ At("prompt") /\ pc' = "readline"
    /\ raw_mode' = TRUE
    /\ mode' = IF raw_mode THEN mode ELSE "raw"
    /\ UNCHANGED <<fgpg, shell, pid, jobVars>>

(* A line is complete; a ^C at the prompt switches the mode off and on.      *)
ReadLine ==
    /\ At("readline")
    /\ mode' = IF raw_mode THEN "orig" ELSE mode
    /\ raw_mode' = FALSE
    /\ pc' \in {"fork", "prompt"}
    /\ UNCHANGED <<fgpg, shell, pid, jobVars>>

(* Mutant: the pid of the child is not kept. *)
ForkJobForget ==
    /\ At("fork") /\ pc' = "setpgid"
    /\ \E j \in Job : job[j] = "unborn" /\ job' = [job EXCEPT ![j] = "setpgid"]
    /\ UNCHANGED <<tty, raw_mode, shell, pid, pgrp, stopped, reported, late>>

(* A failed fork panics, and the shell exits. *)
ForkJob ==
    /\ At("fork")
    /\ \/ \E j \in Job :
            /\ job[j] = "unborn"
            /\ job' = [job EXCEPT ![j] = "setpgid"]
            /\ pid' = j /\ pc' = "setpgid"
            /\ UNCHANGED <<shell, pgrp, stopped, reported, late>>
       \/ shell' = "dead" /\ UNCHANGED <<pid, pc, jobVars>>
    /\ UNCHANGED <<tty, raw_mode, late>>

Exists(j) == job[j] \notin {"unborn", "reaped"}
Runs(j) == Exists(j) /\ job[j] # "zombie" /\ ~stopped[j]

(* Mutant: left to the child. *)
ParentNoSetpgid ==
    /\ At("setpgid") /\ pc' = "tiocspgrp"
    /\ UNCHANGED <<tty, shell, raw_mode, pid, jobVars>>

ParentSetpgid ==
    /\ At("setpgid") /\ pc' = "tiocspgrp"
    /\ pgrp' = [pgrp EXCEPT ![pid] = pid]
    /\ UNCHANGED <<tty, shell, raw_mode, pid, job, stopped, reported, late>>

ParentForeground ==
    /\ At("tiocspgrp") /\ pc' = "waitpid"
    /\ fgpg' = pid
    /\ UNCHANGED <<mode, shell, raw_mode, pid, jobVars>>

(* Mutant: without WUNTRACED. *)
WaitPidExited ==
    /\ At("waitpid") /\ pc' = "restore_pgrp"
    /\ job[pid] = "zombie" /\ job' = [job EXCEPT ![pid] = "reaped"]
    /\ UNCHANGED <<tty, shell, raw_mode, pid, pgrp, stopped, reported, late>>

(* waitpid(pid, WUNTRACED): the job has exited, or has stopped. *)
WaitPid ==
    /\ At("waitpid") /\ pc' = "restore_pgrp"
    /\ \/ /\ job[pid] = "zombie"
          /\ job' = [job EXCEPT ![pid] = "reaped"] /\ UNCHANGED reported
       \/ /\ job[pid] # "zombie" /\ stopped[pid] /\ ~reported[pid]
          /\ reported' = [reported EXCEPT ![pid] = TRUE] /\ UNCHANGED job
    /\ UNCHANGED <<tty, shell, raw_mode, pid, pgrp, stopped, late>>

(* Mutant: the terminal is taken back only from a job that ended. *)
RestoreAfterExit ==
    /\ At("restore_pgrp") /\ pc' = "restore_termios"
    /\ fgpg' = IF job[pid] = "reaped" THEN Shell ELSE fgpg
    /\ UNCHANGED <<mode, shell, raw_mode, pid, jobVars>>

RestoreForeground ==
    /\ At("restore_pgrp") /\ pc' = "restore_termios"
    /\ fgpg' = Shell
    /\ UNCHANGED <<mode, shell, raw_mode, pid, jobVars>>

RestoreTermios ==
    /\ At("restore_termios") /\ pc' = "prompt"
    /\ mode' = "orig" /\ pid' = NoJob
    /\ UNCHANGED <<fgpg, shell, raw_mode, jobVars>>

-----------------------------------------------------------------------------
(* A job: the child's part of run_line(), then runcmd(). *)

ChildSetpgid(j) ==
    /\ Runs(j) /\ job[j] = "setpgid"
    /\ job' = [job EXCEPT ![j] = "tiocspgrp"] /\ pgrp' = [pgrp EXCEPT ![j] = j]
    /\ UNCHANGED <<tty, shellVars, stopped, reported, late>>

(* Mutant: left to the shell. *)
ChildNoForeground(j) ==
    /\ Runs(j) /\ job[j] = "tiocspgrp"
    /\ job' = [job EXCEPT ![j] = "tcsetattr"]
    /\ UNCHANGED <<tty, shellVars, pgrp, stopped, reported, late>>

ChildForeground(j) ==
    /\ Runs(j) /\ job[j] = "tiocspgrp"
    /\ job' = [job EXCEPT ![j] = "tcsetattr"] /\ fgpg' = pgrp[j]
    /\ UNCHANGED <<mode, shellVars, pgrp, stopped, reported, late>>

ChildTermios(j) ==
    /\ Runs(j) /\ job[j] = "tcsetattr"
    /\ job' = [job EXCEPT ![j] = "runcmd"] /\ mode' = "sane"
    /\ UNCHANGED <<fgpg, shellVars, pgrp, stopped, reported, late>>

(* A program in the foreground may leave the terminal in any mode. *)
ProgramSetsMode(j) ==
    /\ Runs(j) /\ job[j] = "runcmd" /\ fgpg = pgrp[j]
    /\ mode' \in {"program", "sane"} /\ mode' # mode
    /\ UNCHANGED <<fgpg, shellVars, jobVars>>

JobExits(j) ==
    /\ Runs(j) /\ job[j] = "runcmd"
    /\ job' = [job EXCEPT ![j] = "zombie"]
    /\ UNCHANGED <<tty, shellVars, pgrp, stopped, reported, late>>

-----------------------------------------------------------------------------
(* Signals: keys reach the foreground group while the mode has ISIG; the     *)
(* shell has no handlers.  Any process may send SIGCONT or SIGKILL.          *)

InForeground == {j \in Job : Exists(j) /\ job[j] # "zombie" /\ pgrp[j] = fgpg}

CtrlC ==
    /\ mode \in Signalling
    /\ job' = [j \in Job |-> IF j \in InForeground THEN "zombie" ELSE job[j]]
    /\ shell' = IF fgpg = Shell THEN "dead" ELSE shell
    /\ UNCHANGED <<tty, pc, raw_mode, pid, pgrp, stopped, reported, late>>

CtrlZ ==
    /\ mode \in Signalling
    /\ stopped' = [j \in Job |-> stopped[j] \/ j \in InForeground]
    /\ shell' = IF fgpg = Shell /\ shell = "alive" THEN "stopped" ELSE shell
    /\ UNCHANGED <<tty, pc, raw_mode, pid, job, pgrp, reported, late>>

Starting(j) == job[j] \in {"setpgid", "tiocspgrp", "tcsetattr"}
GivenUp(j) == pid # j \/ pc \in {"restore_pgrp", "restore_termios"}

Continue(j) ==
    /\ Exists(j) /\ stopped[j]
    /\ stopped' = [stopped EXCEPT ![j] = FALSE]
    /\ reported' = [reported EXCEPT ![j] = FALSE]
    /\ late' = IF Starting(j) /\ GivenUp(j) THEN late \cup {j} ELSE late
    /\ UNCHANGED <<tty, shellVars, job, pgrp>>

Kill(j) ==
    /\ Exists(j) /\ job[j] # "zombie"
    /\ job' = [job EXCEPT ![j] = "zombie"]
    /\ UNCHANGED <<tty, shellVars, pgrp, stopped, reported, late>>

-----------------------------------------------------------------------------

ShellStep ==
    \/ EnableRaw \/ ParentSetpgid \/ ParentForeground
    \/ WaitPid \/ RestoreForeground \/ RestoreTermios

ChildStep(j) == ChildSetpgid(j) \/ ChildForeground(j) \/ ChildTermios(j)

Next ==
    \/ ShellStep \/ ReadLine \/ ForkJob
    \/ CtrlC \/ CtrlZ
    \/ \E j \in Job : \/ ChildStep(j) \/ ProgramSetsMode(j) \/ JobExits(j)
                      \/ Continue(j) \/ Kill(j)

Spec == Init /\ [][Next]_vars

(* Shell and children run; keys, signals, typing and the end of a program    *)
(* are up to others.                                                         *)
FairSpec == Spec /\ WF_vars(ShellStep) /\ \A j \in Job : WF_vars(ChildStep(j))

-----------------------------------------------------------------------------

TypeOK ==
    /\ fgpg \in Job \cup {Shell} /\ mode \in Modes
    /\ shell \in {"alive", "stopped", "dead"} /\ raw_mode \in BOOLEAN
    /\ pid \in Job \cup {NoJob}
    /\ pc \in {"prompt", "readline", "fork", "setpgid", "tiocspgrp", "waitpid",
               "restore_pgrp", "restore_termios"}
    /\ job \in [Job -> {"unborn", "setpgid", "tiocspgrp", "tcsetattr", "runcmd",
                        "zombie", "reaped"}]
    /\ pgrp \in [Job -> Job \cup {Shell}]
    /\ stopped \in [Job -> BOOLEAN] /\ reported \in [Job -> BOOLEAN]
    /\ late \subseteq Job
    /\ pc \in {"setpgid", "tiocspgrp", "waitpid"} => pid \in Job

(* A late job still makes the claims of sh.c:2241-2254 when it runs again.    *)
Claimed == {j \in late : job[j] # "setpgid"}

(* While the shell reads a line the terminal is its own and raw, whatever    *)
(* jobs were stopped, continued or killed before ("Restore shell as          *)
(* foreground", sh.c:2266; "guaranteed", sh.c:2272-2275); only a late job    *)
(* can take it away.                                                         *)
PromptOwnsTerminal ==
    At("readline") => /\ fgpg \in {Shell} \cup Claimed
                      /\ mode = "raw" \/ Claimed # {}

(* While the shell waits for a job that can run, the job is in a group of    *)
(* its own and that group is in the foreground, whichever of the two         *)
(* processes came first ("to avoid race", sh.c:2257-2261).                   *)
WaitsForForeground ==
    At("waitpid") /\ job[pid] # "reaped" => pgrp[pid] = pid /\ fgpg \in {pid} \cup Claimed

(* A command starts in the foreground, in a group of its own, however far    *)
(* the shell has come (sh.c:2236-2254).                                      *)
StartsInForeground ==
    [][\A j \in Job \ late : job[j] # "runcmd" /\ job'[j] = "runcmd" /\ shell = "alive"
         => pgrp[j] = j /\ fgpg' \in {j} \cup Claimed]_vars

(* A job that ends or stops brings the shell back to its prompt, unless a    *)
(* key has stopped or killed the shell (sh.c:2263-2275).                     *)
PromptComesBack ==
    \A j \in Job :
        pid = j /\ (job[j] = "zombie" \/ (stopped[j] /\ ~reported[j]))
            ~> \/ pc = "readline" \/ shell # "alive"
               \/ (Exists(j) /\ job[j] # "zombie" /\ ~stopped[j])
=============================================================================
