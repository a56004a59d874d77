CONSTANTS
    Commands = {c1, c2}
    Channels = {x}
    MaxConns = 5
    MaxBreaks = 1
    MaxFails = 1
SPECIFICATION Spec
INVARIANT
    AnswerIsMine
CHECK_DEADLOCK FALSE
