------------------------------- MODULE EditSpec -------------------------------
(* What the line editor of src/programs/sh/sh.c promises the user: a line     *)
(* split by the cursor, and the last lines accepted, oldest first, which can  *)
(* be walked through.  No buffer, no ring and no terminal.                    *)
EXTENDS SequencesExt

CONSTANTS Char,      \* characters a line may hold
          Room,      \* characters a line has room for
          Depth      \* lines remembered

VARIABLES before, after,   \* the line, left and right of the cursor
          entries, view,   \* lines remembered; the one shown, or one past them
          reading

evars == <<before, after, entries, view, reading>>

Line == before \o after

EInit == before = <<>> /\ after = <<>> /\ entries = <<>> /\ view = 1 /\ reading = FALSE

Prompt == /\ ~reading /\ reading' = TRUE
          /\ before' = <<>> /\ after' = <<>> /\ view' = Len(entries) + 1
          /\ UNCHANGED entries

(* Typing, and completion, which types several characters. *)
Type == /\ reading /\ IsPrefix(before, before') /\ after' = after
        /\ before' \in Seq(Char)
        /\ Len(before') + Len(after) <= Room
        /\ UNCHANGED <<entries, view, reading>>

Rubout == /\ reading /\ before # <<>> /\ before' = Front(before)
          /\ UNCHANGED <<after, entries, view, reading>>

Delete == /\ reading /\ after # <<>> /\ after' = Tail(after)
          /\ UNCHANGED <<before, entries, view, reading>>

(* Only the cursor moves. *)
Move == /\ reading /\ before' \o after' = Line
        /\ UNCHANGED <<entries, view, reading>>

Kill == /\ reading /\ after' = <<>> /\ before' \in {before, <<>>}
        /\ UNCHANGED <<entries, view, reading>>

Older == /\ reading /\ view > 1 /\ view' = view - 1
         /\ before' = entries[view'] /\ after' = <<>>
         /\ UNCHANGED <<entries, reading>>

Newer == /\ reading /\ view <= Len(entries) /\ view' = view + 1
         /\ before' = IF view' <= Len(entries) THEN entries[view'] ELSE <<>>
         /\ after' = <<>>
         /\ UNCHANGED <<entries, reading>>

(* The last Depth of the lines accepted, an empty one and one equal to its    *)
(* predecessor left out.                                                      *)
Remember(l) == IF l = <<>> \/ (entries # <<>> /\ Last(entries) = l) THEN entries
               ELSE IF Len(entries) < Depth THEN Append(entries, l)
               ELSE Append(Tail(entries), l)

Accept == /\ reading /\ reading' = FALSE /\ entries' = Remember(Line)
          /\ UNCHANGED <<before, after, view>>

Cancel == /\ reading /\ before' = <<>> /\ after' = <<>>
          /\ UNCHANGED <<entries, view, reading>>

Quit == reading /\ reading' = FALSE /\ UNCHANGED <<before, after, entries, view>>

ENext == \/ Prompt \/ Type \/ Rubout \/ Delete \/ Move \/ Kill
         \/ Older \/ Newer \/ Accept \/ Cancel \/ Quit

ESpec == EInit /\ [][ENext]_evars
=============================================================================
