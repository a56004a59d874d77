SPECIFICATION FairAudioSpec
CONSTANTS
    Filler = TRUE
    BargeIn = TRUE
    ApiErrors = TRUE
    MaxFrames = 2
INVARIANTS
    AudioInv
    DoneMeansOver
PROPERTIES
    HangupEndsSpeak
    StuckOnlyInOpen
