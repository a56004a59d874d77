SPECIFICATION FairAudioSpec
CONSTANTS
    Filler = TRUE
    BargeIn = FALSE
    ApiErrors = TRUE
    MaxFrames = 1
INVARIANT FillerAlwaysStopped
