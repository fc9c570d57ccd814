----------------------------- MODULE ForthTokens -----------------------------
(***************************************************************************)
(* From keys to tokens: the editor of LineEditor, and forth_get_token and  *)
(* the two words that read the input themselves, ( and .", on the buffer   *)
(* it leaves.  The tokenizer cuts tokens out of the buffer with NULs and   *)
(* remembers its place in >IN; a token is the C string at an address.      *)
(*                                                                         *)
(* The compiler between two tokens is reduced to what it does to this      *)
(* state: it may write code at the start of the sandbox, the byte behind   *)
(* the buffer, and it may reject the token.                                *)
(***************************************************************************)
EXTENDS LineEditor, SequencesExt

QUOTE     == "\""
PAREN     == <<"(">>
DOT_QUOTE == <<".", QUOTE>>

ASSUME TokenAssumption ==
    /\ {"(", ")", ".", QUOTE} \subseteq Text
    /\ Blank \notin {"(", ")", ".", QUOTE, NUL}
    /\ SandboxByte \notin Text \cup {NUL, Blank}

VARIABLES
    in,      \* >IN
    phase,   \* "typing", "scanning", "paren", "quote", "scanned", "rejected"
    tokens,  \* history: the tokens and texts of the line so far
    size     \* history: the length of the line as it was entered

tokenVars == <<editVars, in, phase, tokens, size>>

LineUnchanged == UNCHANGED <<i, expect, err, term, size>>

-----------------------------------------------------------------------------
(* forth_inter_token. *)

is_term(c) == c \in {Blank, NUL}

Least(S) == CHOOSE k \in S : \A l \in S : k <= l

\* Where the skipping of separators stops: a NUL stops it, but not the one a
\* token has been cut off with.
SkippedTo(d, p) ==
    IF is_term(d[p]) THEN Least({q \in (p + 1) .. BufSize : d[q] # Blank})
    ELSE p

\* The first separator from p on, or the end of what is modelled.
TokenEnd(d, p) == Least({q \in p .. BufSize : is_term(d[q])} \cup {BufSize + 1})

\* The separator left in place.
Uncut(d, q) == d

\* The token is cut off by a NUL, unless it runs into the sandbox.
Cut(d, q) == IF q > BufSize THEN d ELSE [d EXCEPT ![q] = NUL]

\* The C string at p.
StringAt(d, p) ==
    Slice(d, p, Least({q \in p .. BufSize : d[q] = NUL} \cup {BufSize + 1}))

\* The compiler has or has not written into the sandbox meanwhile.
MayCompile(d) == {d, [d EXCEPT ![BufSize] = SandboxByte]}

forth_get_token ==
    /\ phase = "scanning" /\ status = "done" /\ in <= BufSize
    /\ \E d \in MayCompile(data) :
          LET p == IF in = BufSize THEN in ELSE SkippedTo(d, in)
              q == TokenEnd(d, p)
          IN \/ /\ d[p] = NUL
                /\ phase' = "scanned" /\ in' = p /\ data' = d
                /\ UNCHANGED tokens
             \/ /\ d[p] # NUL
                /\ data' = Cut(d, q)
                /\ in' = q
                /\ LET token == StringAt(Cut(d, q), p)
                   IN /\ tokens' = Append(tokens, token)
                      /\ phase' = CASE token = PAREN -> "paren"
                                    [] token = DOT_QUOTE -> "quote"
                                    [] p = BufSize -> "rejected"
                                    [] OTHER -> "scanning"
    /\ UNCHANGED status /\ LineUnchanged

\* ( : on to the closing parenthesis, or to the end of the buffer.
paren_immediate_handler ==
    /\ phase = "paren"
    /\ LET closing == {k \in in .. (BufSize - 1) : data[k] = ")"}
       IN in' = IF closing = {} THEN BufSize ELSE Least(closing) + 1
    /\ phase' = "scanning"
    /\ UNCHANGED <<data, status, tokens>> /\ LineUnchanged

\* The step over the text not over its quote.
QuoteStepShort(k) == k

\* >IN += len + 2, which is one behind the quote.
QuoteStep(k) == k + 1

\* ." : the text starts one behind the separator and ends at the quote; the
\* character behind the quote is overwritten.  Without a quote the search
\* leaves the buffer.
dot_quote_immediate_handler ==
    /\ phase = "quote"
    /\ LET quotes == {k \in (in + 1) .. (BufSize - 1) : data[k] = QUOTE}
       IN \/ quotes = {} /\ status' = "overrun" /\ UNCHANGED <<data, in, phase, tokens>>
          \/ /\ quotes # {}
             /\ LET k == Least(quotes)
                IN /\ tokens' = Append(tokens, Slice(data, in + 1, k))
                   /\ data' = [data EXCEPT ![k + 1] = NUL]
                   /\ in' = QuoteStep(k)
             /\ phase' = "scanning" /\ UNCHANGED status
    /\ LineUnchanged

\* forth_compile refuses the token just read, and the line is over.
Rejects ==
    /\ phase = "scanning" /\ tokens # <<>>
    /\ phase' = "rejected"
    /\ UNCHANGED <<data, in, status, tokens>> /\ LineUnchanged

-----------------------------------------------------------------------------
(* The life of a line. *)

Typing == phase = "typing" /\ Key /\ UNCHANGED <<in, phase, tokens, size>>

\* get_string has returned a line, not control-C.
Submit ==
    /\ phase = "typing" /\ status = "done" /\ err # "EXIT"
    /\ phase' = "scanning" /\ size' = Length
    /\ UNCHANGED <<editVars, in, tokens>>

\* The buffer not emptied.
ReloadedDirty == data

\* forth_vm_reload: the buffer is emptied, up to its end.
Reloaded == [k \in 0 .. BufSize |-> IF k < BufSize THEN NUL ELSE data[k]]

\* The line has been run and answered, a new prompt printed, the buffer is
\* emptied, and get_string is called again.
NextLine ==
    /\ phase \in {"scanned", "rejected"}
    /\ data' = [Reloaded EXCEPT ![BufSize] = SandboxByte]
    /\ in' = 0
    /\ phase' = "typing" /\ tokens' = <<>> /\ size' = 0
    /\ i' = 0 /\ expect' = "key" /\ err' = "OK" /\ status' = "editing"
    /\ term' = [row |-> [k \in 0 .. BufSize |-> Blank], column |-> 0]

\* The session is over, or has left the buffer.
SessionEnd ==
    /\ \/ status = "overrun"
       \/ phase = "typing" /\ status = "done" /\ err = "EXIT"
    /\ UNCHANGED tokenVars

InputInit == Init /\ in = 0 /\ phase = "typing" /\ tokens = <<>> /\ size = 0

Scan == forth_get_token \/ paren_immediate_handler \/ dot_quote_immediate_handler

InputNext == Typing \/ Submit \/ Scan \/ Rejects \/ NextLine \/ SessionEnd

InputSpec == InputInit /\ [][InputNext]_tokenVars

-----------------------------------------------------------------------------
(* Properties. *)

\* The first of the characters S in s from p on, or the place behind s.
FirstIn(s, S, p) == Least({q \in p .. Len(s) : s[q] \in S} \cup {Len(s) + 1})

\* What follows a word that ends before e.
Behind(s, from, word, e) ==
    LET closing == FirstIn(s, {")"}, e)
        quote == FirstIn(s, {QUOTE}, e + 1)
    IN  CASE word = PAREN /\ closing > Len(s) -> <<<<SandboxByte>>>>
          [] word = PAREN /\ closing <= Len(s) -> from[closing + 1]
          [] word = DOT_QUOTE /\ quote > Len(s) -> <<>>
          [] word = DOT_QUOTE /\ quote <= Len(s) -> <<SubSeq(s, e + 1, quote - 1)>> \o from[quote + 2]
          [] OTHER -> from[e]

\* The words from p on, those from any later place on being known.
WordsAt(s, from, p) ==
    IF p > Len(s) THEN <<>>
    ELSE IF s[p] = Blank THEN from[p + 1]
    ELSE LET e == FirstIn(s, {Blank}, p)
             word == SubSeq(s, p, e - 1)
         IN  <<word>> \o Behind(s, from, word, e)

\* The words of a line of characters, with the texts after ." and without the
\* comments; a comment that is not closed runs into the sandbox, and a text that
\* is not closed has no words after it.
WordsFrom(s) ==
    LET from[p \in 1 .. (Len(s) + 2)] == WordsAt(s, from, p) IN from

LineWords(s) == WordsFrom(s)[1]

\* What is compiled is what the terminal shows: the tokens taken from a line are
\* exactly the words that stood on the screen when it was entered, in order,
\* each once and whole, up to the one that was rejected if one was; nothing is
\* left over from an earlier line, an erased character or a token cut before.
\* (For lines that leave two cells of the buffer: the tokenizer takes two NULs
\* in a row for the end of the line.)
TokensAreShown ==
    LET shown == LineWords([k \in 1 .. BufSize |-> term.row[k - 1]])
    IN  size <= BufSize - 2 =>
           /\ phase = "scanned" => tokens = shown
           /\ phase = "rejected" => IsPrefix(tokens, shown)
=============================================================================
