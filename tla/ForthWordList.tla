---------------------------- MODULE ForthWordList ----------------------------
(***************************************************************************)
(* What the dictionary promises: a list of words, newest first, that only  *)
(* ever grows at its head.  A word keeps its name and its kind; the newest *)
(* one may be made immediate.                                              *)
(***************************************************************************)
EXTENDS Naturals, Sequences

CONSTANTS
    Spelled,  \* the names a word may have, as a search compares them
    Kinds,    \* variable, constant, code
    Initial   \* the words the system comes with

VARIABLE words

Init == words = Initial

NewWord == [name : Spelled, kind : Kinds, immediate : {FALSE}]

Define ==
    /\ Len(words') = Len(words) + 1
    /\ Head(words') \in NewWord
    /\ Tail(words') = words

MakeImmediate == words # <<>> /\ words' = [words EXCEPT ![1].immediate = TRUE]

Next == Define \/ MakeImmediate

Spec == Init /\ [][Next]_words
=============================================================================
