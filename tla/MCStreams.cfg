CONSTANTS
    Streams = {s1, s2}
    ChanCap = 1
    Window = 1
    OutCap = 1
    MaxRunes = 4
    Texts <- MCTexts
SPECIFICATION Spec
INVARIANTS
    OneReader
    SpokenIsText
PROPERTIES
    SendsAlone
    HangupEndsAudio
    ReadingServerIsEnough
CHECK_DEADLOCK FALSE
