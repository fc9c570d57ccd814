CONSTANTS
    BufSize = 6
    Text <- MCText
    EscapeKeys <- MCEscapeKeys
    Control <- MCControl
    MaxText = 6
    NUL = NUL
    Blank = Blank
    SandboxByte = SandboxByte
SPECIFICATION Spec
INVARIANTS
    EditorTypeOK
    CleanTail
    ScreenShowsLine
PROPERTIES
    EditsLine
