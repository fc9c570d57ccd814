CONSTANTS
    BufSize = 7
    Text <- MCText
    EscapeKeys <- MCEscapeKeys
    Control <- MCControl
    MaxText = 6
    NUL = NUL
    Blank = Blank
    SandboxByte = SandboxByte
SPECIFICATION InputSpec
INVARIANTS
    TokensAreShown
