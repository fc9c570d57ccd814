----------------------------- MODULE EditedLine -----------------------------
(***************************************************************************)
(* What get_string promises of the line it edits: the text before the      *)
(* cursor and the text after it, and what each key does to them.           *)
(***************************************************************************)
EXTENDS Sequences, Naturals

CONSTANT Text

VARIABLES before, after, closed

lineVars == <<before, after, closed>>

Front(s) == SubSeq(s, 1, Len(s) - 1)

Init == before = <<>> /\ after = <<>> /\ closed = FALSE

\* At the end of the line a character is added.  Anywhere else the text after
\* the cursor keeps its length and turns into copies of its first character:
\* that is what the code does.
Type(ch) ==
    /\ before' = Append(before, ch)
    /\ after' = [k \in 1 .. Len(after) |-> after[1]]

Backspace == before # <<>> /\ before' = Front(before) /\ UNCHANGED after
Delete    == after # <<>> /\ after' = Tail(after) /\ UNCHANGED before

Left ==
    /\ before # <<>>
    /\ after' = <<before[Len(before)]>> \o after
    /\ before' = Front(before)

Right ==
    /\ after # <<>>
    /\ before' = Append(before, after[1])
    /\ after' = Tail(after)

\* The line is handed over, all of it, wherever the cursor stands.
Close == closed' = TRUE /\ UNCHANGED <<before, after>>

Edit == \/ \E ch \in Text : Type(ch)
        \/ Backspace \/ Delete \/ Left \/ Right

Next == ~closed /\ ((Edit /\ UNCHANGED closed) \/ Close)

Spec == Init /\ [][Next]_lineVars
=============================================================================
