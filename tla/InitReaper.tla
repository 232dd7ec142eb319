------------------------------ MODULE InitReaper ------------------------------
(* Process 1, src/programs/init/init.c: it starts the services of             *)
(* /etc/startup, keeps one console shell running, and waits for every process *)
(* that lost its parent.  The processes are the kernel's; a slot is a pid,    *)
(* free again once its process has been waited for.                           *)
EXTENDS Integers, FiniteSets

CONSTANTS Pid,             \* bound: processes at a time, other than init
          MaxInterrupts    \* bound: calls of wait() that return early

Init1 == "init"
NoPid == "no pid"

ASSUME InitReaperAssumption ==
    IsFiniteSet(Pid) /\ {Init1, NoPid} \cap Pid = {} /\ MaxInterrupts \in Nat

VARIABLES
    pc,          \* "startup", "fork", "wait", "sleep" or "exited"
    pid,         \* main()'s pid: the console shell
    state,       \* "none", "run" or "zombie"
    parent,
    console,     \* history: the processes init started as console shell
    interrupts

vars == <<pc, pid, state, parent, console, interrupts>>

Init ==
    /\ pc = "startup" /\ pid = NoPid
    /\ state = [q \in Pid |-> "none"] /\ parent = [q \in Pid |-> Init1]
    /\ console = {} /\ interrupts = 0

-----------------------------------------------------------------------------
(* The kernel: fork() takes a free slot; exit() leaves a zombie and hands the *)
(* children to init.                                                          *)

Fork(by, q) ==
    /\ state[q] = "none"
    /\ state' = [state EXCEPT ![q] = "run"]
    /\ parent' = [parent EXCEPT ![q] = by]

Reap(by, q) ==
    /\ state[q] = "zombie" /\ parent[q] = by
    /\ state' = [state EXCEPT ![q] = "none"]
    /\ console' = console \ {q}
    /\ UNCHANGED parent

(* Any process, the console shell and the services included. *)
Spawns(q) == state[q] = "run" /\ (\E r \in Pid : Fork(q, r))
             /\ UNCHANGED <<pc, pid, console, interrupts>>

WaitsForChild(q) == state[q] = "run" /\ (\E r \in Pid : Reap(q, r))
                    /\ UNCHANGED <<pc, pid, interrupts>>

Exits(q) ==
    /\ state[q] = "run"
    /\ state' = [state EXCEPT ![q] = "zombie"]
    /\ parent' = [r \in Pid |-> IF parent[r] = q THEN Init1 ELSE parent[r]]
    /\ UNCHANGED <<pc, pid, console, interrupts>>

-----------------------------------------------------------------------------
(* init *)

(* A service whose fork fails is passed over. *)
StartService ==
    /\ pc = "startup" /\ \E q \in Pid : Fork(Init1, q)
    /\ UNCHANGED <<pc, pid, console, interrupts>>

StartupDone == pc = "startup" /\ pc' = "fork"
               /\ UNCHANGED <<pid, state, parent, console, interrupts>>

(* Mutant: a failed fork is not noticed. *)
StartShellUnchecked ==
    /\ pc = "fork" /\ pc' = "wait"
    /\ \/ \E q \in Pid : Fork(Init1, q) /\ pid' = q /\ console' = console \cup {q}
       \/ pid' = "-1" /\ UNCHANGED <<state, parent, console>>
    /\ UNCHANGED interrupts

(* The console shell; without a process for it init exits. *)
StartShell ==
    /\ pc = "fork"
    /\ \/ \E q \in Pid : /\ Fork(Init1, q)
                         /\ pid' = q /\ console' = console \cup {q} /\ pc' = "wait"
       \/ pc' = "exited" /\ UNCHANGED <<pid, state, parent, console>>
    /\ UNCHANGED interrupts

(* Mutant: the shell's end is not told from an orphan's. *)
IsNoShell(q) == FALSE

(* What the loop around wait() makes of its answer. *)
IsShell(q) == q = pid

(* Mutant: only the shell is waited for. *)
WaitForShell(q) ==
    /\ pc = "wait" /\ q = pid /\ Reap(Init1, q)
    /\ pc' = "fork"
    /\ UNCHANGED <<pid, interrupts>>

WaitReturns(q) ==
    /\ pc = "wait" /\ Reap(Init1, q)
    /\ pc' = IF IsShell(q) THEN "fork" ELSE "wait"
    /\ UNCHANGED <<pid, interrupts>>

(* Mutants: an error is taken for the end of the shell, or ends init. *)
RestartOnError == {"fork"}
ExitOnError == {"exited"}

(* No child was reapable yet: -EINTR goes round, another error sleeps first.  *)
AfterError == {"wait", "sleep"}

WaitInterrupted ==
    /\ pc = "wait" /\ interrupts < MaxInterrupts
    /\ interrupts' = interrupts + 1
    /\ pc' \in AfterError
    /\ UNCHANGED <<pid, state, parent, console>>

SleepEnds == pc = "sleep" /\ pc' = "wait"
             /\ UNCHANGED <<pid, state, parent, console, interrupts>>

-----------------------------------------------------------------------------

Next ==
    \/ StartService \/ StartupDone \/ StartShell
    \/ WaitInterrupted \/ SleepEnds
    \/ \E q \in Pid : WaitReturns(q) \/ Spawns(q) \/ WaitsForChild(q) \/ Exits(q)

Spec == Init /\ [][Next]_vars

(* init runs, and wait() does not pass over the same zombie for ever. *)
FairSpec ==
    /\ Spec
    /\ WF_vars(StartupDone) /\ WF_vars(StartShell) /\ WF_vars(SleepEnds)
    /\ \A q \in Pid : SF_vars(WaitReturns(q))

-----------------------------------------------------------------------------

TypeOK ==
    /\ pc \in {"startup", "fork", "wait", "sleep", "exited"}
    /\ pid \in Pid \cup {NoPid}
    /\ state \in [Pid -> {"none", "run", "zombie"}]
    /\ parent \in [Pid -> Pid \cup {Init1}]
    /\ console \subseteq Pid /\ interrupts \in 0 .. MaxInterrupts

(* However orphans end and wait() is interrupted, never two console shells    *)
(* read one terminal (init.c:371-409).                                        *)
OneConsoleShell == Cardinality({q \in console : state[q] = "run"}) <= 1

(* While init waits, the process it waits for is its own child and has not    *)
(* been waited for: a pid used again for an orphan is never taken for the     *)
(* shell, and wait() never finds init childless (init.c:371-409).             *)
WaitsForItsShell ==
    pc \in {"wait", "sleep"} => /\ pid \in console
                                /\ state[pid] # "none" /\ parent[pid] = Init1

(* "PID 1 must never exit because an interruptible child wait returned"       *)
(* (init.c:394-399): after the shell has ended, and however wait() is         *)
(* interrupted, init comes to start another one.                              *)
ShellComesBack ==
    pc \in {"wait", "sleep"} /\ state[pid] # "run"
        ~> pc = "fork"

(* Every process that lost its parent is waited for while init runs, also     *)
(* while it is restarting the shell (init.c:386-408).                         *)
OrphansReaped ==
    \A q \in Pid : state[q] = "zombie" /\ parent[q] = Init1
                       ~> state[q] = "none" \/ pc = "exited"
=============================================================================
