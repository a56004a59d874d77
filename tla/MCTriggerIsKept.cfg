SPECIFICATION TurnSpec
CONSTANTS
    BargeIn = TRUE
    SentCap = 1
    MaxSent = 1
    MaxTurns = 1
PROPERTY TriggerIsKept
