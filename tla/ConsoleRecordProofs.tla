------------------------- MODULE ConsoleRecordProofs -------------------------
(***************************************************************************)
(* For any number of processes, files and names: as long as nobody puts a  *)
(* file at the path while one is being unlinked (InWindow), every terminal *)
(* batch that is committed is the expected text, of a file of its own,     *)
(* which has no name left.                                                 *)
(***************************************************************************)
EXTENDS ConsoleRecord, TLAPS

Record == [ino : Inodes, kind : {"private", "shared", "other"}, size : Nat, nlink : Nat]

\* What stat() answers is in its type.
LEMMA StatType == TypeOK => \A i \in Inodes : Stat(i) \in Record
BY RecordAssumption DEF TypeOK, Stat, Record

\* Every step keeps every variable in its type (consolerecord.c:42-147).
LEMMA Types == TypeOK /\ (\A p \in Procs : Held(p)) /\ [Next]_vars => TypeOK'
<1> SUFFICES ASSUME TypeOK, \A p \in Procs : Held(p), [Next]_vars PROVE TypeOK'
    OBVIOUS
<1> USE RecordAssumption DEF TypeOK, Labels, disk
<1>1. ASSUME NEW p \in Procs, Step(p) PROVE TypeOK'
  <2> USE DEF Goto, Exit, ExitWith, Check
  <2>1. CASE Lstat(p)
    <3>1. st' \in [Procs -> Record]
      <4>1. CASE path = None  BY <2>1, <4>1 DEF Lstat, Record
      <4>2. CASE path # None
        <5>1. Stat(path) \in Record  BY <4>2, StatType
        <5>2. st' = [st EXCEPT ![p] = Stat(path)]  BY <2>1, <4>2 DEF Lstat
        <5> QED  BY <5>1, <5>2 DEF Record
      <4> QED  BY <4>1, <4>2
    <3>2. pc' \in [Procs -> Labels] /\ status' = status  BY <2>1 DEF Lstat
    <3> QED  BY <2>1, <3>1, <3>2 DEF Lstat, Record
  <2>2. CASE Open(p)  BY <2>2, ZenonT(40) DEF Open
  <2>3. CASE Fstat(p)  BY <2>3 DEF Fstat
  <2>4. CASE Console(p)  BY <2>4 DEF Console
  <2>5. CASE Read(p)
    <3>1. data' \in [Procs -> Seq({"rc", "fence", "bad"})]
      <4>1. CASE data' = data  BY <4>1
      <4>2. CASE data' # data
        <5> DEFINE n == Len(data[p])
        <5>1. data' = [data EXCEPT ![p] = Append(@, text[src[p]][Len(@) + 1])] /\ n < Len(text[src[p]])
            BY <2>5, <4>2 DEF Read
        <5>2. src[p] \in Inodes  BY <2>5 DEF Read, Held, Opened
        <5>3. text[src[p]] \in Seq({"rc", "fence", "bad"}) /\ n + 1 \in 1 .. Len(text[src[p]])
            BY <5>1, <5>2
        <5>4. text[src[p]][n + 1] \in {"rc", "fence", "bad"}  BY <5>3
        <5> QED  BY <5>1, <5>4
      <4> QED  BY <4>1, <4>2
    <3> QED  BY <2>5, <3>1 DEF Read
  <2>6. CASE ReadExtra(p)  BY <2>6 DEF ReadExtra
  <2>7. CASE Verify(p)  BY <2>7 DEF Verify
  <2>8. CASE VerifyFd(p)  BY <2>8 DEF VerifyFd
  <2>9. CASE Unlink(p)
    <3>1. nlink' \in [Inodes -> Nat]
      <4>1. CASE path = None  BY <2>9, <4>1 DEF Unlink
      <4>2. CASE path # None
        <5>1. nlink[path] \in Nat /\ nlink[path] - 1 \in Nat  BY <4>2
        <5>2. nlink' = [nlink EXCEPT ![path] = nlink[path] - 1]  BY <2>9, <4>2 DEF Unlink
        <5> QED  BY <5>1, <5>2
      <4> QED  BY <4>1, <4>2
    <3> QED  BY <2>9, <3>1 DEF Unlink
  <2>10. CASE LstatGone(p)  BY <2>10 DEF LstatGone
  <2>11. CASE FstatGone(p)  BY <2>11 DEF FstatGone
  <2>12. CASE Close(p)  BY <2>12 DEF Close
  <2>13. CASE Ioctl(p)  BY <2>13 DEF Ioctl
  <2>14. CASE CallFails(p)  BY <2>14 DEF CallFails
  <2> QED  BY <1>1, <2>1, <2>2, <2>3, <2>4, <2>5, <2>6, <2>7, <2>8, <2>9, <2>10,
              <2>11, <2>12, <2>13, <2>14 DEF Step
<1>2. ASSUME OtherStep PROVE TypeOK'
  <2> USE DEF Other, Elsewhere
  <2>1. CASE MoveAway  BY <2>1 DEF MoveAway
  <2>2. CASE Link  BY <2>2 DEF Link
  <2>3. CASE Remove  BY <2>3 DEF Remove
  <2>4. ASSUME NEW i \in Inodes, Replace(i) PROVE TypeOK'  BY <2>4 DEF Replace
  <2>5. ASSUME NEW i \in Inodes, RemoveElsewhere(i) PROVE TypeOK'  BY <2>5 DEF RemoveElsewhere
  <2>6. ASSUME NEW i \in Inodes, Rewrite(i) PROVE TypeOK'  BY <2>6 DEF Rewrite
  <2>7. ASSUME NEW i \in Inodes, Chmod(i) PROVE TypeOK'  BY <2>7 DEF Chmod
  <2> QED  BY <1>2, <2>1, <2>2, <2>3, <2>4, <2>5, <2>6, <2>7 DEF OtherStep
<1>3. CASE UNCHANGED vars  BY <1>3 DEF vars
<1> QED  BY <1>1, <1>2, <1>3 DEF Next

-----------------------------------------------------------------------------
\* A process changes none of the locals of another one.
LEMMA OthersKeep ==
    ASSUME TypeOK, NEW q \in Procs, Step(q), NEW p \in Procs, p # q
    PROVE  /\ pc'[p] = pc[p] /\ status'[p] = status[p] /\ src'[p] = src[p]
           /\ st'[p] = st[p] /\ data'[p] = data[p] /\ mode' = mode
<1> USE DEF TypeOK, Goto, Exit, ExitWith, Check, disk
<1>1. CASE Lstat(q) \/ Open(q) \/ Fstat(q) \/ Console(q) \/ Read(q)
    BY <1>1 DEF Lstat, Open, Fstat, Console, Read
<1>2. CASE ReadExtra(q) \/ Verify(q) \/ VerifyFd(q) \/ Unlink(q) \/ LstatGone(q)
    BY <1>2 DEF ReadExtra, Verify, VerifyFd, Unlink, LstatGone
<1>3. CASE FstatGone(q) \/ Close(q) \/ Ioctl(q) \/ CallFails(q)
    BY <1>3 DEF FstatGone, Close, Ioctl, CallFails
<1> QED  BY <1>1, <1>2, <1>3 DEF Step

\* Only unlink() changes the disk, and it leaves the path empty.
LEMMA DiskKeeps ==
    ASSUME TypeOK, NEW q \in Procs, Step(q)
    PROVE  \/ UNCHANGED disk
           \/ /\ Unlink(q) /\ path # None /\ path' = None
              /\ nlink' = [nlink EXCEPT ![path] = @ - 1] /\ UNCHANGED <<mode, text, kind>>
<1>1. CASE Unlink(q)  BY <1>1 DEF Unlink, disk
<1>2. CASE ~Unlink(q)
    BY <1>2 DEF Step, Lstat, Open, Fstat, Console, Read, ReadExtra, Verify, VerifyFd,
        LstatGone, FstatGone, Close, Ioctl, CallFails, disk
<1> QED  BY <1>1, <1>2

\* What a process holds is not taken away by another one (consolerecord.c:102-119).
LEMMA HeldByOthers ==
    ASSUME IInv, NEW q \in Procs, Step(q), NEW p \in Procs, p # q PROVE Held(p)'
<1> USE DEF IInv
<1>1. /\ pc'[p] = pc[p] /\ status'[p] = status[p] /\ src'[p] = src[p]
      /\ st'[p] = st[p] /\ data'[p] = data[p] /\ mode' = mode
    BY OthersKeep
<1>2. CASE UNCHANGED disk
    BY <1>1, <1>2 DEF Held, Opened, Checked, Unlinked, Consumed, Committed, disk
<1>3. CASE Unlink(q) /\ path # None /\ path' = None /\ nlink' = [nlink EXCEPT ![path] = @ - 1]
  <2>1. Unlinked(p) /\ mode[p] = "terminal" => src[p] # None
      BY DEF Held, Opened, Unlinked
  <2>2. Consumed(p) /\ mode[p] = "terminal" => nlink'[src[p]] = nlink[src[p]]
      BY <1>3, <2>1 DEF TypeOK, Held, Unlinked, Consumed
  <2> QED  BY <1>1, <1>3, <2>1, <2>2 DEF Held, Opened, Checked, Unlinked, Consumed, Committed
<1> QED  BY <1>2, <1>3, DiskKeeps

\* What it holds after a step of its own is what the step has checked.
LEMMA HeldByStep ==
    ASSUME IInv, NEW p \in Procs, Step(p) PROVE Held(p)'
<1> USE RecordAssumption DEF IInv, Held, TypeOK, Labels, Opened, Checked, Unlinked, Consumed, Committed,
        Goto, Exit, ExitWith, Check, disk
<1>1. CASE Lstat(p)  BY <1>1 DEF Lstat
<1>2. CASE Open(p)  BY <1>2 DEF Open
<1>3. CASE Fstat(p)  BY <1>3 DEF Fstat, Same, Stat
<1>4. CASE Console(p)  BY <1>4 DEF Console
<1>5. CASE Read(p)  BY <1>5 DEF Read
<1>6. CASE ReadExtra(p)  BY <1>6 DEF ReadExtra, TextOK
<1>7. CASE Verify(p)  BY <1>7 DEF Verify, Same, Stat
<1>8. CASE VerifyFd(p)  BY <1>8 DEF VerifyFd
<1>9. CASE Unlink(p)  BY <1>9 DEF Unlink
<1>10. CASE LstatGone(p)  BY <1>10 DEF LstatGone
<1>11. CASE FstatGone(p)  BY <1>11 DEF FstatGone, Gone, Valid, Stat
<1>12. CASE Close(p)  BY <1>12 DEF Close
<1>13. CASE Ioctl(p)  BY <1>13 DEF Ioctl
<1>14. CASE CallFails(p)  BY <1>14 DEF CallFails
<1> QED  BY <1>1, <1>2, <1>3, <1>4, <1>5, <1>6, <1>7, <1>8, <1>9, <1>10, <1>11, <1>12,
            <1>13, <1>14 DEF Step

\* Others may take the file away and bring it back, but not into the window.
LEMMA HeldByEnvironment ==
    ASSUME ~InWindow, IInv, OtherStep, NEW p \in Procs PROVE Held(p)'
<1> USE DEF IInv
<1>1. UNCHANGED <<mode, pc, status, src, st, data>>
    BY DEF OtherStep, MoveAway, Link, Remove, Replace, RemoveElsewhere, Rewrite, Chmod, Other
<1>2. SUFFICES ASSUME mode[p] = "terminal"
               PROVE  /\ pc[p] \in {"verifyfd", "unlink"} => path' \in {None, src[p]}
                      /\ Unlinked(p) => path' # src[p]
                      /\ Consumed(p) => nlink'[src[p]] = 0
    BY <1>1 DEF Held, Opened, Checked, Unlinked, Consumed, Committed
<1>3. Unlinked(p) => src[p] \in Inodes /\ path # src[p]
    BY <1>2 DEF Held, TypeOK, Opened, Unlinked
<1>4. Consumed(p) => Unlinked(p) /\ nlink[src[p]] = 0
    BY <1>2 DEF Held, Unlinked, Consumed
<1>5. pc[p] \in {"verifyfd", "unlink"} => path \in {None, src[p]}
    BY <1>2 DEF Held
<1> USE RecordAssumption DEF TypeOK, Other
<1>6. CASE MoveAway  BY <1>3, <1>4, <1>5, <1>6 DEF MoveAway
<1>7. CASE Link  BY <1>3, <1>4, <1>5, <1>7 DEF Link
<1>8. CASE Remove  BY <1>3, <1>4, <1>5, <1>8 DEF Remove
<1>9. ASSUME NEW i \in Inodes, Replace(i)
      PROVE  /\ pc[p] \in {"verifyfd", "unlink"} => path' \in {None, src[p]}
             /\ Unlinked(p) => path' # src[p]
             /\ Consumed(p) => nlink'[src[p]] = 0
  <2>1. pc[p] \notin {"verifyfd", "unlink"}  BY <1>9 DEF Replace, Busy
  <2>2. Unlinked(p) /\ ~Consumed(p) => src[p] # i  BY <1>9 DEF Replace, Busy, Unlinked, Consumed
  <2>3. nlink[i] > 0 /\ path' = i  BY <1>9 DEF Replace, Elsewhere
  <2>4. Consumed(p) => src[p] # i  BY <1>4, <2>3
  <2>5. Consumed(p) => nlink'[src[p]] = 0  BY <1>3, <1>4, <1>9 DEF Replace
  <2> QED  BY <2>1, <2>2, <2>3, <2>4, <2>5
<1>10. ASSUME NEW i \in Inodes, RemoveElsewhere(i)
       PROVE  /\ path' = path
              /\ Consumed(p) => nlink'[src[p]] = 0
  <2>1. nlink[i] > 0  BY <1>10 DEF RemoveElsewhere, Elsewhere
  <2> QED  BY <1>3, <1>4, <1>10, <2>1 DEF RemoveElsewhere
<1>11. ASSUME NEW i \in Inodes, Rewrite(i) \/ Chmod(i) PROVE path' = path /\ nlink' = nlink
    BY <1>11 DEF Rewrite, Chmod
<1> QED  BY <1>3, <1>4, <1>5, <1>6, <1>7, <1>8, <1>9, <1>10, <1>11 DEF OtherStep

\* Only unlink() makes a process one of those that have unlinked.
LEMMA Enters ==
    ASSUME IInv, NEW y \in Procs, Step(y), mode[y] = "terminal", Unlinked(y)'
    PROVE  src'[y] = src[y] /\ (Unlinked(y) \/ (Unlink(y) /\ path # None))
<1>1. pc \in [Procs -> Labels] /\ status \in [Procs -> {0, 2, 3, 4}]  BY DEF IInv, TypeOK
<1>2. pc[y] # "done" => status[y] = 2  BY DEF IInv, Held
<1> USE <1>1, <1>2 DEF Unlinked, Committed, Goto, Exit, ExitWith, Check
<1>3. ~Lstat(y) /\ ~Open(y) /\ ~Fstat(y)  BY DEF Lstat, Open, Fstat
<1>4. ~Console(y) /\ ~Read(y) /\ ~ReadExtra(y)  BY DEF Console, Read, ReadExtra
<1>5. ~Verify(y) /\ ~VerifyFd(y)  BY DEF Verify, VerifyFd
<1>6. ~CallFails(y)  BY DEF CallFails
<1>7. CASE Unlink(y)  BY <1>7 DEF Unlink
<1>8. CASE LstatGone(y) \/ FstatGone(y)  BY <1>8 DEF LstatGone, FstatGone
<1>9. CASE Close(y) \/ Ioctl(y)  BY <1>9 DEF Close, Ioctl
<1> QED  BY <1>3, <1>4, <1>5, <1>6, <1>7, <1>8, <1>9 DEF Step

\* A file that has been unlinked is at the path for nobody else to unlink.
LEMMA ApartStep ==
    ASSUME IInv, Next PROVE Apart'
<1> USE DEF IInv
<1>1. ASSUME NEW q \in Procs, Step(q),
             NEW p \in Procs, NEW r \in Procs, p # r,
             mode'[p] = "terminal", mode'[r] = "terminal", Unlinked(p)', Unlinked(r)'
      PROVE  src'[p] # src'[r]
  <2>1. ASSUME NEW x \in Procs, NEW y \in Procs, x # y, x # q, y = q,
               mode[x] = "terminal", mode[y] = "terminal", Unlinked(x)', Unlinked(y)'
        PROVE  src'[x] # src'[y]
    <3>1. Unlinked(x) /\ src'[x] = src[x]
        BY <1>1, <2>1, OthersKeep DEF Unlinked, Committed
    <3>2. CASE Unlinked(y) /\ src'[y] = src[y]  BY <2>1, <3>1, <3>2 DEF Apart
    <3>3. CASE ~(Unlinked(y) /\ src'[y] = src[y])
      <4>1. Unlink(y) /\ path # None /\ src'[y] = src[y]
          BY <1>1, <2>1, <3>3, Enters
      <4>2. path = src[y]  BY <2>1, <4>1 DEF Unlink, Held
      <4>3. path # src[x]  BY <2>1, <3>1 DEF Held
      <4> QED  BY <3>1, <4>1, <4>2, <4>3
    <3> QED  BY <3>2, <3>3
  <2>2. mode' = mode  BY <1>1, DiskKeeps DEF disk
  <2>3. CASE p = q  BY <1>1, <2>1, <2>2, <2>3
  <2>4. CASE r = q  BY <1>1, <2>1, <2>2, <2>4
  <2>5. CASE p # q /\ r # q
    <3>1. /\ Unlinked(p) /\ src'[p] = src[p]
          /\ Unlinked(r) /\ src'[r] = src[r]
        BY <1>1, <2>5, OthersKeep DEF Unlinked, Committed
    <3> QED  BY <1>1, <2>2, <3>1 DEF Apart
  <2> QED  BY <2>3, <2>4, <2>5
<1>2. CASE OtherStep
    BY <1>2 DEF OtherStep, MoveAway, Link, Remove, Replace, RemoveElsewhere, Rewrite, Chmod,
        Other, Apart, Unlinked, Committed
<1> QED  BY <1>1, <1>2 DEF Next, Apart

-----------------------------------------------------------------------------
\* While nobody puts a file into the window between the last lstat and unlink,
\* what each check of consume_source() has established about the path, the
\* file and its names stays true until the text is committed, whatever other
\* processes do in between (consolerecord.c:102-119).
THEOREM ChecksHold == ASSUME ~InWindow PROVE Spec => []IInv
<1>1. Init => IInv
  <2> SUFFICES ASSUME Init PROVE IInv
      OBVIOUS
  <2>1. Stat(path) \in Record  BY RecordAssumption DEF Init, Stat, Record
  <2>2. TypeOK  BY <2>1, RecordAssumption DEF Init, TypeOK, Labels, Record
  <2>3. \A p \in Procs : Held(p)
      BY DEF Init, Held, Opened, Checked, Unlinked, Consumed, Committed
  <2>4. Apart  BY DEF Init, Apart, Unlinked, Committed
  <2> QED  BY <2>2, <2>3, <2>4 DEF IInv
<1>2. IInv /\ [Next]_vars => IInv'
  <2> SUFFICES ASSUME IInv, [Next]_vars PROVE IInv'
      OBVIOUS
  <2>1. TypeOK'  BY Types DEF IInv
  <2>2. CASE Next
    <3>1. ASSUME NEW p \in Procs PROVE Held(p)'
        BY <2>2, HeldByOthers, HeldByStep, HeldByEnvironment DEF Next
    <3>2. Apart'  BY <2>2, ApartStep
    <3> QED  BY <2>1, <3>1, <3>2 DEF IInv
  <2>3. CASE UNCHANGED vars
      BY <2>1, <2>3 DEF vars, disk, IInv, Held, Apart, Opened, Checked, Unlinked, Consumed, Committed
  <2> QED  BY <2>2, <2>3
<1> QED  BY <1>1, <1>2, PTL DEF Spec

\* However many processes are given one path, and whatever others do, a text
\* commits the terminal once (consolerecord.c:102-119).
THEOREM CommittedOnce == ASSUME ~InWindow PROVE Spec => []OncePerSource
<1>1. IInv => OncePerSource  BY DEF IInv, Apart, OncePerSource, Unlinked
<1> QED  BY <1>1, ChecksHold, PTL

\* What was committed is the expected text, and its file has no name left
\* (consolerecord.c:98-119).
THEOREM CommittedAndGone == ASSUME ~InWindow PROVE Spec => []CommittedIsConsumed
<1>1. IInv => CommittedIsConsumed
    BY DEF IInv, Held, CommittedIsConsumed, Checked, Consumed
<1> QED  BY <1>1, ChecksHold, PTL

\* No process unlinks a file it has not read and found valid (consolerecord.c:102-110).
THEOREM UnlinksOwn == ASSUME ~InWindow PROVE Spec => UnlinksOwnSource
<1>1. IInv /\ [Next]_vars => [\A p \in Procs : pc[p] = "unlink" /\ pc'[p] = "gone" =>
                                  path = src[p] /\ data[p] = Terminal]_vars
  <2> SUFFICES ASSUME IInv, Next, NEW p \in Procs, pc[p] = "unlink", pc'[p] = "gone"
               PROVE  path = src[p] /\ data[p] = Terminal
      BY DEF vars
  <2>1. pc # pc'  OBVIOUS
  <2>2. Step(p)
    <3>1. ~OtherStep
        BY <2>1 DEF OtherStep, MoveAway, Link, Remove, Replace, RemoveElsewhere, Rewrite, Chmod, Other
    <3>2. PICK q \in Procs : Step(q)  BY <3>1 DEF Next
    <3>3. q = p  BY <3>2, OthersKeep DEF IInv
    <3> QED  BY <3>2, <3>3
  <2>3. mode[p] = "terminal" /\ data[p] = Terminal /\ path \in {None, src[p]}
      BY DEF IInv, Held, Checked
  <2>4. path # None
      BY <2>2, RecordAssumption DEF Step, Lstat, Open, Fstat, Console, Read, ReadExtra, Verify, VerifyFd, Unlink,
          LstatGone, FstatGone, Close, Ioctl, CallFails, Goto, Exit, ExitWith, Check, IInv, TypeOK
  <2> QED  BY <2>3, <2>4
<1> QED  BY <1>1, ChecksHold, PTL DEF Spec, UnlinksOwnSource
=============================================================================
