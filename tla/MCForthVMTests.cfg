CONSTANTS
    Modulus = 128
    IntModulus = 64
    XorWord <- MCXor
    Ram = {}
    Rom <- MCRom
    StackLo = 96
    StackTop = 112
    RStackLo = 112
    RStackTop = 116
    RegPC = 120
    RegSP = 121
    Natives = {1}
    Images <- MCImages
    Entries <- MCEntries
    HostWords = {}
    NativeWords = {10}
    MaxStarts = 1
SPECIFICATION FairSpec
INVARIANTS
    TestsPass
PROPERTIES
    RunsEnd
