SPECIFICATION FairAudioSpec
CONSTANTS
    Filler = TRUE
    BargeIn = FALSE
    ApiErrors = FALSE
    MaxFrames = 1
PROPERTY TtsOpens
