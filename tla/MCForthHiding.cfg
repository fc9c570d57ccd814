CONSTANTS
    Modulus <- MCModulus
    IntModulus <- MCIntModulus
    XorWord <- MCXor
    Ram <- MCRam
    Rom <- RomImage
    StackLo <- MCStackLo
    StackTop <- MCStackTop
    RStackLo <- MCRStackLo
    RStackTop <- MCRStackTop
    RegPC <- MCRegPC
    RegSP <- MCRegSP
    Natives <- Functions
    Name <- MCName
    Numeral <- MCNumeral
    SandboxBase <- MCSandboxBase
    SandboxSize <- MCSandboxSize
    DictBase <- MCDictBase
    StrbufSize <- MCStrbufSize
    StrbufBase <- MCStrbufBase
    Texts <- MCTexts
    Keys = {65}
    Sessions <- MCSessions
SPECIFICATION Spec
PROPERTIES
    AnswersOrLeaves
