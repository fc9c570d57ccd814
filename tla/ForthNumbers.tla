---------------------------- MODULE ForthNumbers ----------------------------
(***************************************************************************)
(* Numbers on their way in and out: to_numeric and the end of              *)
(* forth_compile read a token into a cell, . prints a cell, and the user   *)
(* may type again what was printed.  A number is read as an int (atoi into *)
(* an int32_t) and printed as a long: words have Modulus values, ints      *)
(* IntModulus.  Characters are their codes.                                *)
(*                                                                         *)
(* atoi is external.  Of a number no int holds it makes any int: C leaves  *)
(* that undefined.                                                         *)
(***************************************************************************)
EXTENDS Integers, Sequences

CONSTANTS
    Modulus,    \* 2^w for cells of w bits
    IntModulus, \* 2^32
    Chars,      \* the characters a token is made of
    MaxTyped    \* bound on the length of a token typed in

MINUS == 45
Digit == 48 .. 57

ASSUME NumberAssumption ==
    /\ Modulus \in Nat /\ IntModulus \in Nat
    /\ 0 < IntModulus /\ IntModulus <= Modulus
    /\ Modulus % 2 = 0 /\ IntModulus % 2 = 0
    /\ Chars \subseteq Nat /\ Digit \cup {MINUS} \subseteq Chars
    /\ MaxTyped \in Nat

VARIABLES
    token, \* the token typed, or printed
    cell,  \* the number compiled from it, which is then on the stack
    phase, \* "typing", "compiled", "computed", "rejected"
    shown  \* history: the cell the token was printed from, or NotShown

numberVars == <<token, cell, phase, shown>>

NotShown == -1

Word == 0 .. (Modulus - 1)
Int32 == -(IntModulus \div 2) .. (IntModulus \div 2 - 1)
Signed(w) == IF w < Modulus \div 2 THEN w ELSE w - Modulus

-----------------------------------------------------------------------------
(* Reading. *)

\* The first character that must be a digit, the sign standing alone for one.
FirstDigitAfterSign(s) == IF s[1] = MINUS THEN 2 ELSE 1

\* The first character that must be a digit.
FirstDigit(s) == IF s[1] = MINUS /\ Len(s) > 1 THEN 2 ELSE 1

IsNumeric(s) == \A k \in FirstDigit(s) .. Len(s) : s[k] \in Digit

Digits(s) == IF s[1] = MINUS THEN Tail(s) ELSE s

\* What the first k of the digits ds make, one read after the other.
Read(ds) ==
    LET read[k \in 0 .. Len(ds)] == IF k = 0 THEN 0 ELSE 10 * read[k - 1] + (ds[k] - 48)
    IN  read

atoi(s) ==
    LET ds == Digits(s)
        value == Read(ds)[Len(ds)]
        number == IF s[1] = MINUS THEN -value ELSE value
    IN  IF number \in Int32 THEN {number} ELSE Int32

\* An unsigned int put into a cell.
CellOfUnsigned(n) == n % IntModulus

\* An int put into a cell: its sign goes with it.
CellOf(n) == n % Modulus

CompileNumber ==
    /\ phase = "typing" /\ token # <<>>
    /\ IsNumeric(token)
    /\ \E n \in atoi(token) : cell' = CellOf(n)
    /\ phase' = "compiled"
    /\ UNCHANGED <<token, shown>>

RejectUnknown ==
    /\ phase = "typing" /\ token # <<>>
    /\ ~IsNumeric(token)
    /\ phase' = "rejected"
    /\ UNCHANGED <<token, cell, shown>>

-----------------------------------------------------------------------------
(* Printing. *)

\* snprintf's %ld.
Unsigned ==
    LET digits[m \in 0 .. Modulus] ==
            IF m < 10 THEN <<48 + m>> ELSE Append(digits[m \div 10], 48 + (m % 10))
    IN  digits

Decimal(n) == IF n < 0 THEN <<MINUS>> \o Unsigned[-n] ELSE Unsigned[n]

\* The number is printed by . and typed in again.
forth_dot_handler ==
    /\ phase \in {"compiled", "computed"} /\ shown = NotShown
    /\ token' = Decimal(Signed(cell)) /\ shown' = cell
    /\ phase' = "typing"
    /\ UNCHANGED cell

\* A program has worked on the number: DUP * .
Square ==
    /\ phase \in {"compiled", "computed"} /\ shown = NotShown
    /\ cell' = (cell * cell) % Modulus /\ phase' = "computed"
    /\ UNCHANGED <<token, shown>>

Type(c) ==
    /\ phase = "typing" /\ shown = NotShown /\ Len(token) < MaxTyped
    /\ token' = Append(token, c)
    /\ UNCHANGED <<cell, phase, shown>>

\* The token has been answered.
Answered ==
    /\ phase = "rejected" \/ (phase = "compiled" /\ shown # NotShown)
    /\ UNCHANGED numberVars

Init == token = <<>> /\ cell = 0 /\ phase = "typing" /\ shown = NotShown

Next ==
    \/ \E c \in Chars : Type(c)
    \/ CompileNumber \/ RejectUnknown \/ forth_dot_handler \/ Square \/ Answered

Spec == Init /\ [][Next]_numberVars

-----------------------------------------------------------------------------
(* Properties. *)

\* The decimal numerals: at least one digit, behind a sign or not.
AreDigits(s) == s # <<>> /\ \A k \in 1 .. Len(s) : s[k] \in Digit
Numeral(s) == AreDigits(s) \/ (s[1] = MINUS /\ AreDigits(Tail(s)))

\* The powers of ten.
Weights(m) ==
    LET weight[n \in 0 .. m] == IF n = 0 THEN 1 ELSE 10 * weight[n - 1]
    IN  weight

\* The sum of the digits, each times the weight of its place.
Sum(ds) ==
    LET sum[k \in 0 .. Len(ds)] ==
            IF k = 0 THEN 0 ELSE sum[k - 1] + (ds[k] - 48) * Weights(Len(ds))[Len(ds) - k]
    IN  sum

\* What a numeral stands for.
Meaning(s) ==
    LET sum == Sum(Digits(s))[Len(Digits(s))]
    IN  IF s[1] = MINUS THEN -sum ELSE sum

\* A token is taken for a number exactly if it is a decimal numeral: - and --
\* are words, -0 and 007 are numbers.  If an int holds the number, the cell
\* compiled is that number, whatever its sign.
ReadsNumerals ==
    /\ phase = "compiled" => Numeral(token)
    /\ phase = "rejected" => ~Numeral(token)
    /\ phase = "compiled" /\ Meaning(token) \in Int32 => Signed(cell) = Meaning(token)

\* What . prints is a number to the compiler, and the same number, as long as
\* an int holds it: also the least one, and those that are negative because
\* arithmetic has wrapped.
ReadsBackPrinted ==
    shown # NotShown =>
        /\ phase # "rejected"
        /\ phase = "compiled" /\ Signed(shown) \in Int32 => cell = shown
=============================================================================
