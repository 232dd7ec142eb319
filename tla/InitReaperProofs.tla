--------------------------- MODULE InitReaperProofs ---------------------------
(* For any number of processes and any orphans: init has one console shell,  *)
(* and while it waits, what it waits for is that shell, unreaped.            *)
EXTENDS InitReaper, FiniteSetTheorems, TLAPS

(* A console shell exists exactly while init waits for it; it stays init's   *)
(* child and its slot is not free, so no later fork() is given its pid.      *)
ItsShell ==
    IF pc \in {"wait", "sleep"}
    THEN console = {pid} /\ state[pid] # "none" /\ parent[pid] = Init1
    ELSE console = {}

IInv == TypeOK /\ ItsShell

(* Before it has started a shell init has none.                              *)
LEMMA InitIInv == Init => IInv
  BY InitReaperAssumption DEF Init, IInv, TypeOK, ItsShell

(* The bound on wait() returning early.                                      *)
LEMMA InterruptsBounded ==
    ASSUME TypeOK, WaitInterrupted
    PROVE  interrupts' \in 0 .. MaxInterrupts
  <1>1. MaxInterrupts \in Nat BY InitReaperAssumption
  <1>2. interrupts \in 0 .. MaxInterrupts BY DEF TypeOK
  <1>3. interrupts < MaxInterrupts /\ interrupts' = interrupts + 1 BY DEF WaitInterrupted
  <1>4. QED BY <1>1, <1>2, <1>3

(* Forks, exits and waits of any process leave init its shell.               *)
LEMMA Step == ASSUME IInv, [Next]_vars PROVE IInv'
  <1>0. Init1 \notin Pid BY InitReaperAssumption
  <1> USE <1>0 DEF IInv, TypeOK, ItsShell, Fork, Reap
  <1>1. CASE StartService BY <1>1 DEF StartService
  <1>2. CASE StartupDone BY <1>2 DEF StartupDone
  <1>3. CASE StartShell BY <1>3 DEF StartShell
  <1>4. CASE WaitInterrupted
    <2>1. /\ pc = "wait" /\ pc' \in {"wait", "sleep"}
          /\ UNCHANGED <<pid, state, parent, console>>
      BY <1>4 DEF WaitInterrupted, AfterError
    <2>2. interrupts' \in 0 .. MaxInterrupts BY <1>4, InterruptsBounded
    <2>3. TypeOK' BY <2>1, <2>2
    <2>4. ItsShell' BY <2>1
    <2>5. QED BY <2>3, <2>4
  <1>5. CASE SleepEnds BY <1>5 DEF SleepEnds
  <1>6. ASSUME NEW q \in Pid, WaitReturns(q) PROVE IInv'
    BY <1>6 DEF WaitReturns, IsShell
  <1>7. ASSUME NEW q \in Pid, Spawns(q) PROVE IInv'
    BY <1>7 DEF Spawns
  <1>8. ASSUME NEW q \in Pid, WaitsForChild(q) PROVE IInv'
    <2>1. PICK r \in Pid : Reap(q, r) BY <1>8 DEF WaitsForChild
    <2>2. r \notin console BY <2>1
    <2>3. /\ state' = [state EXCEPT ![r] = "none"] /\ console' = console
          /\ UNCHANGED <<parent, pc, pid, interrupts>>
      BY <1>8, <2>1, <2>2 DEF WaitsForChild
    <2>4. QED BY <2>2, <2>3
  <1>9. ASSUME NEW q \in Pid, Exits(q) PROVE IInv'
    BY <1>9 DEF Exits
  <1>10. CASE UNCHANGED vars BY <1>10 DEF vars
  <1>11. QED
    BY <1>1, <1>2, <1>3, <1>4, <1>5, <1>6, <1>7, <1>8, <1>9, <1>10 DEF Next

(* The invariant is inductive.                                               *)
LEMMA Inductive == Spec => []IInv
  <1>1. IInv /\ [Next]_vars => IInv' BY Step
  <1>2. QED BY <1>1, InitIInv, PTL DEF Spec

(* Every variable keeps its type (init.c:352-411).                           *)
THEOREM TypeCorrect == Spec => []TypeOK
  <1>1. IInv => TypeOK BY DEF IInv
  <1>2. QED BY <1>1, Inductive, PTL

(* Never two shells read the console, whatever ends in whatever order        *)
(* (init.c:371-409).                                                         *)
THEOREM NeverTwoShells == Spec => []OneConsoleShell
  <1>1. ASSUME IInv PROVE OneConsoleShell
    <2> DEFINE running == {q \in console : state[q] = "run"}
    <2>1. CASE running = {}
      BY <2>1, FS_EmptySet DEF OneConsoleShell
    <2>2. CASE running # {}
      <3>1. PICK q : running = {q}
        BY <1>1, <2>2 DEF IInv, ItsShell
      <3>2. Cardinality(running) = 1 BY <3>1, FS_Singleton
      <3>3. QED BY <3>2 DEF OneConsoleShell
    <2>3. QED BY <2>1, <2>2
  <1>2. QED BY <1>1, Inductive, PTL

(* init waits for its own shell, which has not been waited for: wait() never *)
(* finds init childless, and no orphan is taken for the shell                *)
(* (init.c:371-409).                                                         *)
THEOREM WaitsForShell == Spec => []WaitsForItsShell
  <1>1. IInv => WaitsForItsShell
    BY DEF IInv, TypeOK, ItsShell, WaitsForItsShell
  <1>2. QED BY <1>1, Inductive, PTL
=============================================================================
