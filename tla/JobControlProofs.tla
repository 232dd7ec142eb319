--------------------------- MODULE JobControlProofs ---------------------------
(* For any number of jobs: the terminal is the shell's while it reads a line *)
(* and the job's while it waits for one, but for the claims of late jobs.    *)
EXTENDS JobControl, TLAPS

(* A job that has come past its own setpgid() is in a group of its own, and  *)
(* so is the one the shell has put into one (sh.c:2236-2262).                *)
Groups ==
    /\ \A j \in Job : job[j] \in {"tiocspgrp", "tcsetattr", "runcmd"} => pgrp[j] = j
    /\ pc \in {"tiocspgrp", "waitpid", "restore_pgrp", "restore_termios"} => pgrp[pid] = pid

(* run_line()'s pid is the job it started and has not yet given up.          *)
Watched ==
    /\ pc \in {"prompt", "readline", "fork"} => pid = NoJob
    /\ pc \in {"setpgid", "tiocspgrp", "waitpid"} =>
           pid \in Job /\ pid \notin late /\ job[pid] \notin {"unborn", "reaped"}
    /\ pc \in {"restore_pgrp", "restore_termios"} => pid \in Job
    /\ \A j \in late : job[j] # "unborn"
    /\ raw_mode <=> pc = "readline"

(* The shell gives up a job that is still on its way to runcmd() only when   *)
(* it has stopped, and then only SIGCONT, which makes it late, moves it on.  *)
Abandoned == \A j \in Job : Starting(j) /\ GivenUp(j) => stopped[j] \/ j \in late

(* Who may hold the terminal at each statement of run_line().                *)
Owner ==
    IF pc \in {"prompt", "readline", "fork", "restore_termios"} THEN {Shell}
    ELSE IF pc \in {"setpgid", "tiocspgrp"} /\ job[pid] \notin {"tcsetattr", "runcmd"}
    THEN {Shell, pid}
    ELSE {pid}
Held == fgpg \in Owner \cup Claimed

Raw == pc = "readline" => mode = "raw" \/ Claimed # {}

IInv == TypeOK /\ Groups /\ Watched /\ Abandoned /\ Held /\ Raw

LEMMA InitIInv == Init => IInv
  BY JobControlAssumption
  DEF Init, IInv, TypeOK, Modes, Groups, Watched, Abandoned, Starting, Held, Owner, Raw

LEMMA Types == ASSUME IInv, [Next]_vars PROVE TypeOK'
  <1> USE DEF IInv, TypeOK, tty, shellVars, jobVars, At, Modes
  <1>1. CASE ShellStep
    <2>1. CASE EnableRaw \/ ParentForeground \/ RestoreForeground \/ RestoreTermios
      BY <2>1 DEF EnableRaw, ParentForeground, RestoreForeground, RestoreTermios, Watched
    <2>2. CASE ParentSetpgid BY <2>2 DEF ParentSetpgid
    <2>3. CASE WaitPid BY <2>3 DEF WaitPid
    <2>4. QED BY <1>1, <2>1, <2>2, <2>3 DEF ShellStep
  <1>2. CASE ReadLine BY <1>2 DEF ReadLine
  <1>3. CASE ForkJob BY <1>3 DEF ForkJob
  <1>4. CASE CtrlC BY <1>4 DEF CtrlC
  <1>5. CASE CtrlZ BY <1>5 DEF CtrlZ
  <1>6. ASSUME NEW j \in Job, ChildStep(j) PROVE TypeOK'
    BY <1>6 DEF ChildStep, ChildSetpgid, ChildForeground, ChildTermios
  <1>7. ASSUME NEW j \in Job, ProgramSetsMode(j) \/ JobExits(j) PROVE TypeOK'
    BY <1>7 DEF ProgramSetsMode, JobExits
  <1>8. ASSUME NEW j \in Job, Continue(j) \/ Kill(j) PROVE TypeOK'
    BY <1>8, ZenonT(40) DEF Continue, Kill
  <1>9. CASE UNCHANGED vars BY <1>9 DEF vars
  <1>10. QED BY <1>1, <1>2, <1>3, <1>4, <1>5, <1>6, <1>7, <1>8, <1>9 DEF Next

(* What a job has claimed stays claimed.                                     *)
LEMMA ClaimsStay == ASSUME IInv, [Next]_vars PROVE Claimed \subseteq Claimed'
  <1> USE DEF IInv, TypeOK, tty, shellVars, jobVars, At, Watched, Claimed
  <1>1. CASE ShellStep
    BY <1>1 DEF ShellStep, EnableRaw, ParentForeground, RestoreForeground, RestoreTermios,
                ParentSetpgid, WaitPid
  <1>2. CASE ReadLine BY <1>2 DEF ReadLine
  <1>3. CASE ForkJob BY <1>3 DEF ForkJob
  <1>4. CASE CtrlC BY <1>4 DEF CtrlC
  <1>5. CASE CtrlZ BY <1>5 DEF CtrlZ
  <1>6. ASSUME NEW j \in Job, ChildStep(j) PROVE Claimed \subseteq Claimed'
    BY <1>6 DEF ChildStep, ChildSetpgid, ChildForeground, ChildTermios
  <1>7. ASSUME NEW j \in Job, ProgramSetsMode(j) \/ JobExits(j) PROVE Claimed \subseteq Claimed'
    BY <1>7 DEF ProgramSetsMode, JobExits
  <1>8. ASSUME NEW j \in Job, Continue(j) \/ Kill(j) PROVE Claimed \subseteq Claimed'
    BY <1>8 DEF Continue, Kill
  <1>9. CASE UNCHANGED vars BY <1>9 DEF vars
  <1>10. QED BY <1>1, <1>2, <1>3, <1>4, <1>5, <1>6, <1>7, <1>8, <1>9 DEF Next

(* A job that moves on is the one the shell watches, or late.                *)
LEMMA MovesOn ==
    ASSUME IInv, NEW j \in Job, Runs(j), Starting(j), j \notin late
    PROVE  j = pid /\ pc \in {"setpgid", "tiocspgrp", "waitpid"}
  BY JobControlAssumption DEF IInv, TypeOK, Watched, Abandoned, Runs, GivenUp

LEMMA GroupsStep == ASSUME IInv, [Next]_vars PROVE Groups'
  <1> USE DEF IInv, TypeOK, tty, shellVars, jobVars, At, Watched, Groups
  <1>1. CASE ShellStep
    BY <1>1 DEF ShellStep, EnableRaw, ParentForeground, RestoreForeground, RestoreTermios,
                ParentSetpgid, WaitPid
  <1>2. CASE ReadLine BY <1>2 DEF ReadLine
  <1>3. CASE ForkJob BY <1>3 DEF ForkJob
  <1>4. CASE CtrlC BY <1>4 DEF CtrlC
  <1>5. CASE CtrlZ BY <1>5 DEF CtrlZ
  <1>6. ASSUME NEW j \in Job, ChildStep(j) PROVE Groups'
    BY <1>6 DEF ChildStep, ChildSetpgid, ChildForeground, ChildTermios
  <1>7. ASSUME NEW j \in Job, ProgramSetsMode(j) \/ JobExits(j) PROVE Groups'
    BY <1>7 DEF ProgramSetsMode, JobExits
  <1>8. ASSUME NEW j \in Job, Continue(j) \/ Kill(j) PROVE Groups'
    BY <1>8 DEF Continue, Kill
  <1>9. CASE UNCHANGED vars BY <1>9 DEF vars
  <1>10. QED BY <1>1, <1>2, <1>3, <1>4, <1>5, <1>6, <1>7, <1>8, <1>9 DEF Next

(* The shell and its pid (sh.c:2225-2275).                                   *)
LEMMA WatchedStep == ASSUME IInv, [Next]_vars PROVE Watched'
  <1> USE JobControlAssumption DEF IInv, TypeOK, tty, shellVars, jobVars, At, Watched, Exists, GivenUp
  <1>1. CASE EnableRaw BY <1>1 DEF EnableRaw
  <1>2. CASE ReadLine BY <1>2 DEF ReadLine
  <1>3. CASE ForkJob BY <1>3 DEF ForkJob
  <1>4. CASE ParentSetpgid BY <1>4 DEF ParentSetpgid
  <1>5. CASE ParentForeground BY <1>5 DEF ParentForeground
  <1>6. CASE WaitPid BY <1>6 DEF WaitPid
  <1>7. CASE RestoreForeground BY <1>7 DEF RestoreForeground
  <1>8. CASE RestoreTermios BY <1>8 DEF RestoreTermios
  <1>9. CASE CtrlC BY <1>9 DEF CtrlC
  <1>10. CASE CtrlZ BY <1>10 DEF CtrlZ
  <1>11. ASSUME NEW j \in Job, ChildStep(j) PROVE Watched'
    BY <1>11 DEF ChildStep, ChildSetpgid, ChildForeground, ChildTermios
  <1>12. ASSUME NEW j \in Job, ProgramSetsMode(j) \/ JobExits(j) PROVE Watched'
    BY <1>12 DEF ProgramSetsMode, JobExits
  <1>13. ASSUME NEW j \in Job, Continue(j) PROVE Watched'
    BY <1>13 DEF Continue
  <1>14. ASSUME NEW j \in Job, Kill(j) PROVE Watched'
    BY <1>14 DEF Kill
  <1>15. CASE UNCHANGED vars BY <1>15 DEF vars
  <1>16. QED
    BY <1>1, <1>2, <1>3, <1>4, <1>5, <1>6, <1>7, <1>8, <1>9, <1>10, <1>11, <1>12,
       <1>13, <1>14, <1>15 DEF Next, ShellStep

(* waitpid() returns only for a job that has ended or stopped (sh.c:2263).   *)
LEMMA AbandonedStep == ASSUME IInv, [Next]_vars PROVE Abandoned'
  <1> USE JobControlAssumption DEF IInv, TypeOK, tty, shellVars, jobVars, At, Watched, Abandoned, Starting, GivenUp, Exists
  <1>1. CASE EnableRaw BY <1>1 DEF EnableRaw
  <1>2. CASE ReadLine BY <1>2 DEF ReadLine
  <1>3. CASE ForkJob BY <1>3 DEF ForkJob
  <1>4. CASE ParentSetpgid BY <1>4 DEF ParentSetpgid
  <1>5. CASE ParentForeground BY <1>5 DEF ParentForeground
  <1>6. CASE WaitPid BY <1>6 DEF WaitPid
  <1>7. CASE RestoreForeground BY <1>7 DEF RestoreForeground
  <1>8. CASE RestoreTermios BY <1>8 DEF RestoreTermios
  <1>9. CASE CtrlC BY <1>9 DEF CtrlC
  <1>10. CASE CtrlZ BY <1>10 DEF CtrlZ
  <1>11. ASSUME NEW j \in Job, ChildStep(j) PROVE Abandoned'
    BY <1>11 DEF ChildStep, ChildSetpgid, ChildForeground, ChildTermios
  <1>12. ASSUME NEW j \in Job, ProgramSetsMode(j) \/ JobExits(j) PROVE Abandoned'
    BY <1>12 DEF ProgramSetsMode, JobExits
  <1>13. ASSUME NEW j \in Job, Continue(j) PROVE Abandoned'
    BY <1>13 DEF Continue
  <1>14. ASSUME NEW j \in Job, Kill(j) PROVE Abandoned'
    BY <1>14 DEF Kill
  <1>15. CASE UNCHANGED vars BY <1>15 DEF vars
  <1>16. QED
    BY <1>1, <1>2, <1>3, <1>4, <1>5, <1>6, <1>7, <1>8, <1>9, <1>10, <1>11, <1>12,
       <1>13, <1>14, <1>15 DEF Next, ShellStep

(* Who holds the terminal: the shell and its child both set it, in either    *)
(* order (sh.c:2241-2244, 2257-2268).                                        *)
LEMMA HeldStep == ASSUME IInv, [Next]_vars PROVE Held'
  <1>0. Claimed \subseteq Claimed' BY ClaimsStay
  <1> USE <1>0, JobControlAssumption
      DEF IInv, TypeOK, tty, shellVars, jobVars, At, Watched, Held, Owner
  <1>1. CASE EnableRaw BY <1>1 DEF EnableRaw
  <1>2. CASE ReadLine BY <1>2 DEF ReadLine
  <1>3. CASE ForkJob BY <1>3 DEF ForkJob
  <1>4. CASE ParentSetpgid BY <1>4 DEF ParentSetpgid
  <1>5. CASE ParentForeground BY <1>5 DEF ParentForeground
  <1>6. CASE WaitPid BY <1>6 DEF WaitPid
  <1>7. CASE RestoreForeground BY <1>7 DEF RestoreForeground
  <1>8. CASE RestoreTermios BY <1>8 DEF RestoreTermios
  <1>9. CASE CtrlC BY <1>9 DEF CtrlC
  <1>10. CASE CtrlZ BY <1>10 DEF CtrlZ
  <1>11. ASSUME NEW j \in Job, ChildSetpgid(j) PROVE Held'
    BY <1>11 DEF ChildSetpgid
  <1>12. ASSUME NEW j \in Job, ChildForeground(j) PROVE Held'
    <2>1. /\ job' = [job EXCEPT ![j] = "tcsetattr"] /\ fgpg' = j
          /\ UNCHANGED <<pc, pid, late>>
      BY <1>12 DEF ChildForeground, Groups
    <2>2. CASE j \in late
      <3>1. j \in Claimed' BY <2>1, <2>2 DEF Claimed
      <3>2. QED BY <2>1, <3>1
    <2>3. CASE j \notin late
      <3>1. j = pid /\ pc \in {"setpgid", "tiocspgrp", "waitpid"}
        BY <1>12, <2>3, MovesOn DEF ChildForeground, Starting
      <3>2. QED BY <2>1, <3>1
    <2>4. QED BY <2>2, <2>3
  <1>13. ASSUME NEW j \in Job, ChildTermios(j) PROVE Held'
    BY <1>13 DEF ChildTermios
  <1>14. ASSUME NEW j \in Job, ProgramSetsMode(j) \/ JobExits(j) PROVE Held'
    BY <1>14 DEF ProgramSetsMode, JobExits
  <1>15. ASSUME NEW j \in Job, Continue(j) \/ Kill(j) PROVE Held'
    BY <1>15 DEF Continue, Kill
  <1>16. CASE UNCHANGED vars BY <1>16 DEF vars
  <1>17. QED
    BY <1>1, <1>2, <1>3, <1>4, <1>5, <1>6, <1>7, <1>8, <1>9, <1>10, <1>11, <1>12,
       <1>13, <1>14, <1>15, <1>16 DEF Next, ShellStep, ChildStep

(* Nobody but a late job changes the mode while the shell reads a line       *)
(* (sh.c:1293-1310, 2251-2253).                                              *)
LEMMA RawStep == ASSUME IInv, [Next]_vars PROVE Raw'
  <1>0. Claimed \subseteq Claimed' BY ClaimsStay
  <1> USE <1>0, JobControlAssumption DEF IInv, TypeOK, tty, shellVars, jobVars, At, Watched, Raw
  <1>1. CASE ShellStep
    BY <1>1 DEF ShellStep, EnableRaw, ParentForeground, RestoreForeground, RestoreTermios,
                ParentSetpgid, WaitPid
  <1>2. CASE ReadLine \/ ForkJob BY <1>2 DEF ReadLine, ForkJob
  <1>3. CASE CtrlC \/ CtrlZ BY <1>3 DEF CtrlC, CtrlZ
  <1>4. ASSUME NEW j \in Job, ChildSetpgid(j) \/ ChildForeground(j) PROVE Raw'
    BY <1>4 DEF ChildSetpgid, ChildForeground
  <1>5. ASSUME NEW j \in Job, ChildTermios(j) PROVE Raw'
    <2>1. CASE j \in late
      <3>1. j \in Claimed BY <1>5, <2>1 DEF ChildTermios, Claimed
      <3>2. QED BY <3>1
    <2>2. CASE j \notin late
      <3>1. pc # "readline" BY <1>5, <2>2, MovesOn DEF ChildTermios, Starting
      <3>2. QED BY <1>5, <3>1 DEF ChildTermios
    <2>3. QED BY <2>1, <2>2
  <1>6. ASSUME NEW j \in Job, ProgramSetsMode(j) PROVE Raw'
    <2>1. pc' = pc BY <1>6 DEF ProgramSetsMode
    <2>2. pc = "readline" => fgpg = j BY <1>6 DEF ProgramSetsMode, Groups
    <2>3. pc = "readline" => fgpg \in Claimed BY <2>2 DEF Held, Owner
    <2>4. QED BY <2>1, <2>3
  <1>7. ASSUME NEW j \in Job, JobExits(j) \/ Continue(j) \/ Kill(j) PROVE Raw'
    BY <1>7 DEF JobExits, Continue, Kill
  <1>8. CASE UNCHANGED vars BY <1>8 DEF vars
  <1>9. QED BY <1>1, <1>2, <1>3, <1>4, <1>5, <1>6, <1>7, <1>8 DEF Next, ChildStep

LEMMA Inductive == Spec => []IInv
  <1>1. IInv /\ [Next]_vars => IInv'
    BY Types, GroupsStep, WatchedStep, AbandonedStep, HeldStep, RawStep DEF IInv
  <1>2. QED BY <1>1, InitIInv, PTL DEF Spec

(* Every variable keeps its type (sh.c:1222-1310, 2225-2275).                *)
THEOREM TypeCorrect == Spec => []TypeOK
  <1>1. IInv => TypeOK BY DEF IInv
  <1>2. QED BY <1>1, Inductive, PTL

(* Whatever became of earlier jobs, the shell that reads a line is the       *)
(* foreground process and its terminal raw, unless a late job has made its   *)
(* claims (sh.c:2265-2275).                                                  *)
THEOREM PromptKeepsTerminal == Spec => []PromptOwnsTerminal
  <1>1. IInv => PromptOwnsTerminal
    BY DEF IInv, Held, Owner, Raw, PromptOwnsTerminal, At
  <1>2. QED BY <1>1, Inductive, PTL

(* While the shell waits for a job, that job's group has the terminal,       *)
(* whichever of the two processes came first (sh.c:2257-2263).               *)
THEOREM JobGetsTerminal == Spec => []WaitsForForeground
  <1>1. IInv => WaitsForForeground
    BY DEF IInv, Groups, Held, Owner, WaitsForForeground, At
  <1>2. QED BY <1>1, Inductive, PTL

(* A command never starts to run before its group has the terminal           *)
(* (sh.c:2236-2254).                                                         *)
THEOREM CommandStartsInFront == Spec => StartsInForeground
  <1> DEFINE Starts(j) == job[j] # "runcmd" /\ job'[j] = "runcmd"
      InFront == \A j \in Job \ late :
                     Starts(j) /\ shell = "alive" => pgrp[j] = j /\ fgpg' \in {j} \cup Claimed
  <1>1. ASSUME IInv, [Next]_vars, NEW j \in Job \ late, Starts(j)
        PROVE  pgrp[j] = j /\ fgpg' \in {j} \cup Claimed
    <2>1. ChildTermios(j)
      <3> USE <1>1 DEF IInv, TypeOK, jobVars
      <3>1. ~ShellStep
        BY DEF ShellStep, EnableRaw, ParentForeground, RestoreForeground, RestoreTermios,
               ParentSetpgid, WaitPid
      <3>2. ~ReadLine /\ ~ForkJob /\ ~CtrlC /\ ~CtrlZ BY DEF ReadLine, ForkJob, CtrlC, CtrlZ
      <3>3. ASSUME NEW k \in Job
            PROVE  /\ ~ProgramSetsMode(k) /\ ~JobExits(k) /\ ~Continue(k) /\ ~Kill(k)
                   /\ ChildStep(k) => ChildTermios(k) /\ k = j
        BY DEF ProgramSetsMode, JobExits, Continue, Kill, ChildStep, ChildSetpgid,
               ChildForeground, ChildTermios
      <3>4. ~UNCHANGED vars BY DEF vars
      <3>5. QED BY <3>1, <3>2, <3>3, <3>4 DEF Next
    <2>2. j = pid /\ pc \in {"setpgid", "tiocspgrp", "waitpid"}
      BY <1>1, <2>1, MovesOn DEF ChildTermios, Starting
    <2>3. job[j] = "tcsetattr" /\ fgpg' = fgpg BY <2>1 DEF ChildTermios
    <2>4. QED BY <1>1, <2>2, <2>3 DEF IInv, Groups, Held, Owner
  <1>2. IInv /\ [Next]_vars => [InFront]_vars BY <1>1
  <1>3. QED BY <1>2, Inductive, PTL DEF Spec, StartsInForeground
=============================================================================
