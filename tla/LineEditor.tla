----------------------------- MODULE LineEditor -----------------------------
(***************************************************************************)
(* get_string of forth_inter.c: a line is typed into the input buffer, key *)
(* by key, with a cursor, deletion and echo.                               *)
(*                                                                         *)
(* One action handles one call of KEY: "expect" is the call that waits.    *)
(* The buffer is an array of characters ended by NUL, and the array is all *)
(* the state there is: every handler finds the length of the text again by *)
(* looking for NUL.  Cell BufSize is the first byte behind the buffer, the *)
(* sandbox's.  The terminal is external: a row of characters and a column, *)
(* both counted from the end of the prompt, that obey the echo.            *)
(*                                                                         *)
(* max_len is never looked at and the loop's own bound, the size of the    *)
(* sandbox, lies far behind the buffer: a text that would fill the buffer  *)
(* to its last cell sets the status "overrun", in which no more is said.   *)
(***************************************************************************)
EXTENDS Integers, Sequences

CONSTANTS
    BufSize,     \* FORTH_STRBUF_SIZE
    Text,        \* the characters a user types as text
    EscapeKeys,  \* the keys that may follow an escape
    Control,     \* the control keys in use
    MaxText,     \* bound on the length of the text typed
    NUL, Blank,
    SandboxByte  \* any byte of code: neither NUL nor a character of a line

BS    == "\\b"      \* echo: one column back
LEFT  == "left"     \* echo: ESC [ D
RIGHT == "right"    \* echo: ESC [ C

ASSUME EditorAssumption ==
    /\ BufSize \in Nat /\ BufSize > 1 /\ MaxText \in Nat
    /\ NUL \notin Text
    /\ Control \subseteq {"newline", "return", "ctrl-c", "backspace", "escape"}
    /\ (Text \cup {Blank}) \cap {BS, LEFT, RIGHT} = {}

VARIABLES
    data,    \* the buffer, and the byte behind it
    i,       \* the cursor
    expect,  \* "key", or the keys of an escape: "bracket", "letter", "tilde"
    err,     \* what get_string is going to return
    status,  \* "editing", "done", "overrun"
    term     \* the terminal: its row and its column

editVars == <<data, i, expect, err, status, term>>

Cell == 0 .. (BufSize - 1)

\* strlen(d + from), for a d that has a NUL there.
strlen(d, from) ==
    CHOOSE n \in 0 .. (BufSize - from) :
        d[from + n] = NUL /\ \A m \in 0 .. (n - 1) : d[from + m] # NUL

Length == strlen(data, 0)

\* The characters of d from one cell up to, not including, another.
Slice(d, from, to) ==
    [k \in 1 .. (IF from < to THEN to - from ELSE 0) |-> d[from + k - 1]]

-----------------------------------------------------------------------------
(* The terminal. *)

Printed(t, c) ==
    IF c \in {BS, LEFT} THEN [t EXCEPT !.column = @ - 1]
    ELSE IF c = RIGHT THEN [t EXCEPT !.column = @ + 1]
    ELSE [row |-> [t.row EXCEPT ![t.column] = c], column |-> t.column + 1]

\* The terminal after the characters cs.
Echoed(t, cs) ==
    LET after[k \in 0 .. Len(cs)] == IF k = 0 THEN t ELSE Printed(after[k - 1], cs[k])
    IN  after[Len(cs)]

Emits(cs) == term' = Echoed(term, cs)
Backs(n)  == [k \in 1 .. n |-> BS]

-----------------------------------------------------------------------------
(* What the handlers do to the buffer. *)

Emptied == [k \in 0 .. BufSize |-> IF k = BufSize THEN SandboxByte ELSE NUL]

\* The cells of the range each take their right neighbour, from the left on.
ShiftedLeft(from, to) ==
    [k \in 0 .. BufSize |-> IF k \in from .. to THEN data[k + 1] ELSE data[k]]

\* The NUL left where it was.
DeletedShort == ShiftedLeft(i, Length - 2)

\* DELETE: the character under the cursor gives way to the rest and its NUL.
Deleted == ShiftedLeft(i, Length - 1)

\* Each character from the cursor on is copied to its right, walking right:
\* the first one arrives everywhere.  Then the new one is put at the cursor.
Inserted(ch) ==
    [k \in 0 .. BufSize |-> IF k = i THEN ch
                            ELSE IF k \in (i + 1) .. Length THEN data[i]
                            ELSE data[k]]

-----------------------------------------------------------------------------
(* The keys. *)

Awaiting(e) == status = "editing" /\ expect = e

Returns(e) ==
    status' = "done" /\ err' = e /\ UNCHANGED <<i, expect, term>>

\* '\n' ends the text a second time, with two NULs.
newline ==
    /\ Awaiting("key") /\ "newline" \in Control
    /\ data' = [data EXCEPT ![Length] = NUL, ![Length + 1] = NUL]
    /\ Returns(err)

return ==
    /\ Awaiting("key") /\ "return" \in Control
    /\ UNCHANGED data
    /\ Returns(err)

ctrl_c ==
    /\ Awaiting("key") /\ "ctrl-c" \in Control
    /\ UNCHANGED data
    /\ Returns("EXIT")

\* The line cut at the cursor instead.
BackspacedCut == [data EXCEPT ![i - 1] = NUL]

\* The tail and its NUL move over the character before the cursor.
Backspaced == ShiftedLeft(i - 1, i - 1 + strlen(data, i))

\* The last column left as it is.
BackspaceEchoUnwiped ==
    LET tail == Slice(data, i, Length)
    IN  <<BS>> \o tail \o Backs(Len(tail))

\* The tail rewritten one column to the left, its last column wiped, and back.
BackspaceEcho ==
    LET tail == Slice(data, i, Length)
    IN  <<BS>> \o tail \o <<Blank, BS>> \o Backs(Len(tail))

backspace ==
    /\ Awaiting("key") /\ "backspace" \in Control
    /\ \/ i = 0 /\ UNCHANGED <<data, i, term>>
       \/ /\ i > 0
          /\ data' = Backspaced
          /\ i' = i - 1
          /\ Emits(BackspaceEcho)
    /\ UNCHANGED <<expect, err, status>>

escape ==
    /\ Awaiting("key") /\ "escape" \in Control
    /\ expect' = "bracket"
    /\ UNCHANGED <<data, i, err, status, term>>

\* The second key of an escape: anything but [ is an error, and passed over.
bracket(ch) ==
    /\ Awaiting("bracket")
    /\ err' = IF ch = "[" THEN err ELSE "ERR"
    /\ expect' = "letter"
    /\ UNCHANGED <<data, i, status, term>>

cursor_left ==
    \/ i = 0 /\ UNCHANGED <<i, term>>
    \/ i > 0 /\ i' = i - 1 /\ Emits(<<LEFT>>)

\* The cursor moved without looking at the text.
cursor_right_unchecked == i' = i + 1 /\ Emits(<<RIGHT>>)

cursor_right ==
    \/ data[i] = NUL /\ UNCHANGED <<i, term>>
    \/ data[i] # NUL /\ i' = i + 1 /\ Emits(<<RIGHT>>)

\* The third key of an escape; "3" deletes under the cursor and waits for "~".
letter(ch) ==
    /\ Awaiting("letter")
    /\ \/ ch = "D" /\ cursor_left /\ expect' = "key" /\ UNCHANGED data
       \/ ch = "C" /\ cursor_right /\ expect' = "key" /\ UNCHANGED data
       \/ /\ ch = "3"
          /\ data' = Deleted
          /\ LET tail == Slice(data, i + 1, Length)
             IN  Emits(tail \o <<Blank, BS>> \o Backs(Len(tail)))
          /\ expect' = "tilde"
          /\ UNCHANGED i
       \/ ch \notin {"D", "C", "3"} /\ expect' = "key" /\ UNCHANGED <<data, i, term>>
    /\ UNCHANGED <<err, status>>

tilde(ch) ==
    /\ Awaiting("tilde")
    /\ err' = IF ch = "~" THEN err ELSE "ERR"
    /\ expect' = "key"
    /\ UNCHANGED <<data, i, status, term>>

\* Any other key is text: it goes in at the cursor, and the tail is echoed as
\* it is copied.
InsertEcho(ch) ==
    LET n == Length - i
    IN  <<ch>> \o [k \in 1 .. n |-> data[i]] \o Backs(n)

character(ch) ==
    /\ Awaiting("key")
    /\ Length < MaxText
    /\ \/ Length = BufSize - 1 /\ status' = "overrun" /\ UNCHANGED <<data, i, term>>
       \/ /\ Length < BufSize - 1
          /\ data' = Inserted(ch)
          /\ i' = i + 1
          /\ Emits(InsertEcho(ch))
          /\ UNCHANGED status
    /\ UNCHANGED <<expect, err>>

Key ==
    \/ newline \/ return \/ ctrl_c \/ backspace \/ escape
    \/ \E ch \in Text : character(ch)
    \/ \E ch \in EscapeKeys : bracket(ch) \/ letter(ch) \/ tilde(ch)

\* get_string has returned, or has left the buffer.
Returned == status # "editing" /\ UNCHANGED editVars

Init ==
    /\ data = Emptied /\ i = 0 /\ expect = "key" /\ err = "OK" /\ status = "editing"
    /\ term = [row |-> [k \in 0 .. BufSize |-> Blank], column |-> 0]

Next == Key \/ Returned

Spec == Init /\ [][Next]_editVars

-----------------------------------------------------------------------------
(* Properties. *)

\* Types of the editor's state; the cursor stays inside the text.
EditorTypeOK ==
    /\ data \in [0 .. BufSize -> Text \cup {NUL, SandboxByte}]
    /\ i \in Cell /\ i <= Length
    /\ expect \in {"key", "bracket", "letter", "tilde"}
    /\ err \in {"OK", "ERR", "EXIT"}
    /\ status \in {"editing", "done", "overrun"}

\* Behind the first NUL the buffer is all NULs, whatever was typed and taken
\* back.  The editor finds its length and the tokenizer the end of the line by
\* NULs alone: a character left behind one would come back as part of the line.
CleanTail ==
    \E n \in Cell : /\ \A k \in 0 .. (n - 1) : data[k] # NUL
                    /\ \A k \in n .. (BufSize - 1) : data[k] = NUL

\* The terminal shows the text in the buffer and nothing else, with its cursor
\* at the buffer's: every echo moves back exactly as far as it wrote ahead.
\* (This holds for an insertion too, although it smears the tail: both agree.)
ScreenShowsLine ==
    /\ term.column = i
    /\ \A k \in Cell : term.row[k] = IF k < Length THEN data[k] ELSE Blank

\* The buffer behaves as the two strings on either side of the cursor.
Edited == INSTANCE EditedLine WITH
    before <- Slice(data, 0, i),
    after <- Slice(data, i, Length),
    closed <- status # "editing"

EditsLine == Edited!Spec
=============================================================================
