------------------------------- MODULE LineEdit -------------------------------
(* do_readline() of src/programs/sh/sh.c, one action per key: the line buffer *)
(* and its cursor, the history ring, completion, and the terminal row that    *)
(* every operation repaints in part.  The row starts at the end of the prompt *)
(* and is wide enough not to wrap.                                            *)
EXTENDS Integers, SequencesExt

CONSTANTS Letter,         \* characters of words
          Space, Slash,   \* a word boundary; what ends a directory name
          LineBufSize,    \* LINE_BUF_SIZE
          HistorySize,    \* HISTORY_SIZE
          Names           \* file names and commands completion may find

Char == Letter \cup {Space, Slash}

ASSUME LineEditAssumption ==
    /\ Space # Slash /\ Letter \cap {Space, Slash} = {}
    /\ LineBufSize \in Nat \ {0, 1} /\ HistorySize \in Nat \ {0}
    /\ Names \subseteq Seq(Letter)

Cells == 0 .. (LineBufSize - 1)
Slots == 0 .. (HistorySize - 1)

VARIABLES
    ed,              \* line_buf up to line_len, cursor_pos, and the terminal
    history, history_start, history_count, history_idx,
    pc               \* "shell", "readline" or "eof"

ring == <<history, history_start, history_count>>
vars == <<ed, ring, history_idx, pc>>

-----------------------------------------------------------------------------
(* The terminal: what is on the row, and the column of its cursor. *)

Blank == [row |-> [i \in Cells |-> Space], col |-> 0]

Put(t, s) == [row |-> [i \in Cells |-> IF t.col <= i /\ i < t.col + Len(s)
                                       THEN s[i - t.col + 1] ELSE t.row[i]],
              col |-> t.col + Len(s)]
CursorLeft(t, n)  == [t EXCEPT !.col = IF @ < n THEN 0 ELSE @ - n]
CursorRight(t, n) == [t EXCEPT !.col = @ + n]
ClearToEol(t)     == [t EXCEPT !.row = [i \in Cells |-> IF i < t.col THEN @[i] ELSE Space]]

Init ==
    /\ ed = [line |-> <<>>, cur |-> 0, term |-> Blank]
    /\ history = [i \in Slots |-> <<>>]
    /\ history_start = 0 /\ history_count = 0 /\ history_idx = 0
    /\ pc = "shell"

-----------------------------------------------------------------------------
(* Line buffer operations *)

Before(e) == SubSeq(e.line, 1, e.cur)
After(e)  == SubSeq(e.line, e.cur + 1, Len(e.line))

(* Write the line from the cursor on, and go back to the cursor. *)
Repaint(t, e) == CursorLeft(Put(t, After(e)), Len(After(e)))

LineClear(e) == [e EXCEPT !.line = <<>>, !.cur = 0]

(* Mutant: no room is kept for the end of the string. *)
LineInsertCharFull(e, c) ==
    IF Len(e.line) >= LineBufSize THEN e
    ELSE LET f == [e EXCEPT !.line = Before(e) \o <<c>> \o After(e), !.cur = @ + 1]
         IN  [f EXCEPT !.term = Repaint(Put(e.term, <<c>>), f)]

LineInsertChar(e, c) ==
    IF Len(e.line) >= LineBufSize - 1 THEN e
    ELSE LET f == [e EXCEPT !.line = Before(e) \o <<c>> \o After(e), !.cur = @ + 1]
         IN  [f EXCEPT !.term = Repaint(Put(e.term, <<c>>), f)]

(* Mutant: the rest of the row is not cleared. *)
LineDeleteCharNoClear(e) ==
    IF e.cur = 0 THEN e
    ELSE LET f == [e EXCEPT !.line = RemoveAt(e.line, e.cur), !.cur = @ - 1]
         IN  [f EXCEPT !.term = Repaint(CursorLeft(e.term, 1), f)]

LineDeleteChar(e) ==
    IF e.cur = 0 THEN e
    ELSE LET f == [e EXCEPT !.line = RemoveAt(e.line, e.cur), !.cur = @ - 1]
             t == Put(CursorLeft(e.term, 1), After(f))
         IN  [f EXCEPT !.term = CursorLeft(ClearToEol(t), Len(After(f)))]

LineDeleteForward(e) ==
    IF e.cur >= Len(e.line) THEN e
    ELSE LET f == [e EXCEPT !.line = RemoveAt(e.line, e.cur + 1)]
             t == Put(e.term, After(f))
         IN  [f EXCEPT !.term = CursorLeft(ClearToEol(t), Len(After(f)))]

(* line_move_left, _right, _home and _end. *)
LineMoveTo(e, n) ==
    [e EXCEPT !.cur = n,
              !.term = IF n < e.cur THEN CursorLeft(@, e.cur - n)
                                    ELSE CursorRight(@, n - e.cur)]

LineKillToEnd(e) == [e EXCEPT !.term = ClearToEol(@), !.line = Before(e)]

LineKillAll(e) == LineClear([e EXCEPT !.term = ClearToEol(CursorLeft(@, e.cur))])

LineSet(e, s) ==
    [line |-> s, cur |-> Len(s),
     term |-> Put(ClearToEol(CursorLeft(e.term, e.cur)), s)]

(* A new row: the prompt, the line, and the cursor back to its place. *)
Redisplay(e) ==
    [e EXCEPT !.term = CursorLeft(Put(Blank, e.line), Len(After(e)))]

-----------------------------------------------------------------------------
(* The keys *)

Reading == pc = "readline"
Edit(e) == Reading /\ ed' = e /\ UNCHANGED <<ring, history_idx, pc>>

(* do_readline() begins: line_clear, history_reset, the prompt. *)
Readline ==
    /\ pc = "shell" /\ pc' = "readline"
    /\ ed' = [LineClear(ed) EXCEPT !.term = Blank]
    /\ history_idx' = history_count
    /\ UNCHANGED ring

TypeChar(c) == Edit(LineInsertChar(ed, c))
Backspace   == Edit(LineDeleteChar(ed))
DeleteKey   == Edit(LineDeleteForward(ed))
Left        == Edit(LineMoveTo(ed, IF ed.cur > 0 THEN ed.cur - 1 ELSE 0))
Right       == Edit(LineMoveTo(ed, IF ed.cur < Len(ed.line) THEN ed.cur + 1 ELSE ed.cur))
Home        == Edit(LineMoveTo(ed, 0))
End         == Edit(LineMoveTo(ed, Len(ed.line)))
KillToEnd   == Edit(LineKillToEnd(ed))
KillAll     == Edit(LineKillAll(ed))
ClearScreen == Edit(Redisplay(ed))

Entry(i) == history[(history_start + i) % HistorySize]

HistoryPrev ==
    /\ Reading
    /\ IF history_count = 0 \/ history_idx <= 0 THEN UNCHANGED <<ed, history_idx>>
       ELSE /\ history_idx' = history_idx - 1
            /\ ed' = LineSet(ed, Entry(history_idx - 1))
    /\ UNCHANGED <<ring, pc>>

HistoryNext ==
    /\ Reading
    /\ CASE history_idx < history_count - 1 ->
              history_idx' = history_idx + 1 /\ ed' = LineSet(ed, Entry(history_idx + 1))
         [] history_idx = history_count - 1 ->
              history_idx' = history_count /\ ed' = LineSet(ed, <<>>)
         [] OTHER -> UNCHANGED <<ed, history_idx>>
    /\ UNCHANGED <<ring, pc>>

(* Mutant: the oldest entry is overwritten, but stays the oldest. *)
HistoryAddInPlace(l) ==
    IF \/ l = <<>>
       \/ history_count > 0 /\ Entry(history_count - 1) = l
    THEN UNCHANGED ring
    ELSE IF history_count < HistorySize
         THEN /\ history' = [history EXCEPT ![history_count] = l]
              /\ history_count' = history_count + 1 /\ UNCHANGED history_start
         ELSE /\ history' = [history EXCEPT ![history_start] = l]
              /\ UNCHANGED <<history_start, history_count>>

HistoryAdd(l) ==
    IF \/ l = <<>>
       \/ history_count > 0 /\ Entry(history_count - 1) = l
    THEN UNCHANGED ring
    ELSE IF history_count < HistorySize
         THEN /\ history' = [history EXCEPT ![history_count] = l]
              /\ history_count' = history_count + 1 /\ UNCHANGED history_start
         ELSE /\ history' = [history EXCEPT ![history_start] = l]
              /\ history_start' = (history_start + 1) % HistorySize
              /\ UNCHANGED history_count

Enter ==
    /\ Reading /\ pc' = "shell"
    /\ HistoryAdd(ed.line)
    /\ UNCHANGED <<ed, history_idx>>

(* ^C drops the line and prompts again; it does not touch history_idx. *)
CtrlC == Edit([LineClear(ed) EXCEPT !.term = Blank])

CtrlD ==
    \/ /\ ed.line = <<>> /\ Reading /\ pc' = "eof" /\ UNCHANGED <<ed, ring, history_idx>>
    \/ ed.line # <<>> /\ DeleteKey

EndOfInput == Reading /\ pc' = "eof" /\ UNCHANGED <<ed, ring, history_idx>>

-----------------------------------------------------------------------------
(* Completion *)

(* The part of the word at the cursor that follows its last slash. *)
CompletionPrefix(e) ==
    LET b == Before(e)
        from == CHOOSE i \in 0 .. e.cur :
                    /\ i = 0 \/ b[i] \in {Space, Slash}
                    /\ \A j \in (i + 1) .. e.cur : b[j] \notin {Space, Slash}
    IN  SubSeq(b, from + 1, e.cur)

(* Mutant: the first match alone is looked at. *)
CommonPrefixFirst(found) == CHOOSE m \in found : TRUE

CommonPrefix(found) ==
    LET m == CHOOSE m \in found : TRUE
        shared(k) == \A n \in found : IsPrefix(SubSeq(m, 1, k), n)
        len == CHOOSE k \in 0 .. Len(m) : shared(k) /\ (k = Len(m) \/ ~shared(k + 1))
    IN  SubSeq(m, 1, len)

InsertAll(e, s) ==
    LET typed[i \in 0 .. Len(s)] ==
            IF i = 0 THEN e ELSE LineInsertChar(typed[i - 1], s[i])
    IN  typed[Len(s)]

(* found is what the directories hold; a single match that is a directory     *)
(* ends with a slash, any other with a space.                                 *)
Completed(e, found, end) ==
    LET prefix == CompletionPrefix(e)
        common == CommonPrefix(found)
        rest == SubSeq(common, Len(prefix) + 1, Len(common))
    IN  IF found = {} THEN e
        ELSE IF rest # <<>>
             THEN InsertAll(e, IF \E n \in found : found = {n} THEN Append(rest, end) ELSE rest)
             ELSE IF \E n \in found : found # {n} THEN Redisplay(e) ELSE e

Tab(found, end) ==
    /\ \A n \in found : IsPrefix(CompletionPrefix(ed), n)
    /\ Edit(Completed(ed, found, end))

-----------------------------------------------------------------------------

Next ==
    \/ Readline \/ Enter \/ CtrlC \/ CtrlD \/ EndOfInput
    \/ \E c \in Char : TypeChar(c)
    \/ Backspace \/ DeleteKey
    \/ Left \/ Right \/ Home \/ End
    \/ KillToEnd \/ KillAll \/ ClearScreen
    \/ HistoryPrev \/ HistoryNext
    \/ \E found \in SUBSET Names, end \in {Space, Slash} : Tab(found, end)

Spec == Init /\ [][Next]_vars

-----------------------------------------------------------------------------

(* Buffer, cursor and ring indices are within their arrays (sh.c:206-219).    *)
TypeOK ==
    /\ ed.line \in Seq(Char) /\ Len(ed.line) < LineBufSize
    /\ ed.cur \in 0 .. Len(ed.line)
    /\ ed.term.row \in [Cells -> Char] /\ ed.term.col \in Cells
    /\ history \in [Slots -> Seq(Char)]
    /\ history_start \in Slots /\ history_count \in 0 .. HistorySize
    /\ history_idx \in 0 .. history_count
    /\ pc \in {"shell", "readline", "eof"}

(* Each operation repaints only what it thinks has changed, and between two   *)
(* keys the row shows the line, nothing after it, and the cursor where the    *)
(* next character goes (sh.c:794-908, 1351-1455).                             *)
ScreenMatches ==
    Reading => /\ ed.term.col = ed.cur
               /\ ed.term.row = [i \in Cells |-> IF i < Len(ed.line) THEN ed.line[i + 1]
                                                 ELSE Space]

(* Completion adds only what every match goes on with, and ends a word only   *)
(* when there is a single match (sh.c:1126-1193).                             *)
TabInserts ==
    ed'.cur > ed.cur => \A found \in SUBSET Names, end \in {Space, Slash} :
        Tab(found, end) =>
         LET typed == SubSeq(Before(ed'), ed.cur + 1, ed'.cur)
             word == CompletionPrefix(ed) \o typed
         IN  \/ \A n \in found : IsPrefix(word, n)
             \/ \E n \in found : found = {n} /\ word = Append(n, end)

TabCompletes == [][TabInserts]_vars

(* The ring read from its oldest entry, and the line split at the cursor.     *)
entriesBar == [i \in 1 .. history_count |-> Entry(i - 1)]

Editor == INSTANCE EditSpec WITH
    Room <- LineBufSize - 1, Depth <- HistorySize,
    before <- Before(ed), after <- After(ed),
    entries <- entriesBar, view <- history_idx + 1, reading <- Reading

(* The array shifts, the ring and its wrap-around are a line with a cursor    *)
(* and a list of the last HISTORY_SIZE lines: recall shows them newest first  *)
(* and never one that was overwritten (sh.c:794-961).                         *)
ImplementsEditSpec == Editor!ESpec
=============================================================================
