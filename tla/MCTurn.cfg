SPECIFICATION FairTurnSpec
CONSTANTS
    BargeIn = TRUE
    SentCap = 1
    MaxSent = 3
    MaxTurns = 3
INVARIANTS
    TurnInv
    MessageIsFresh
    WholeAnswerSpoken
PROPERTIES
    SilentAfterBarge
    SpeakComesBack
