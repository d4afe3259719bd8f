CONSTANTS
    Subs = {"a"}
    Faults = {}
    Scales = {"none", "1x"}
    MaxAge = 1
    Buffer = 1
    MaxRetires = 1
    NoScale = "none"
    NoEntry = NoEntry
    NoAnswer = "none"
    Horizon <- MCHorizon
SPECIFICATION FairSpec
PROPERTIES SilenceShows
