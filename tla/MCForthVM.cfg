CONSTANTS
    Modulus = 64
    IntModulus = 32
    XorWord <- MCXor
    Ram <- MCRam
    Rom <- MCRom
    StackLo = 44
    StackTop = 47
    RStackLo = 50
    RStackTop = 52
    RegPC = 58
    RegSP = 59
    Natives = {40}
    Images <- MCImages
    Entries = {34}
    HostWords = {0, 35, 46}
    NativeWords = {0, 35, 46}
    MaxStarts = 2
SPECIFICATION Spec
INVARIANTS
    TypeOK
    CleanRStack
PROPERTIES
    FaultKeepsOperands
    FaultEndsRun
    SwapExchanges
