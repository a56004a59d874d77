CONSTANTS
    Streams = {s1, s2}
    ChanCap = 1
    Window = 1
    OutCap = 1
    MaxRunes = 4
    Texts <- MCTexts
SPECIFICATION Spec
CHECK_DEADLOCK FALSE
INVARIANT ActionIsNotSpoken
