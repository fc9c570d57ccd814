CONSTANTS
    Modulus = 64
    IntModulus = 32
    Chars <- MCChars
    MaxTyped = 3
SPECIFICATION Spec
INVARIANTS
    ReadsNumerals
    ReadsBackPrinted
