CONSTANTS
    Subs = {"a"}
    Faults = {"f", "g"}
    Scales = {"none", "1x"}
    MaxAge = 1
    Buffer = 1
    MaxRetires = 0
    NoScale = "none"
    NoEntry = NoEntry
    NoAnswer = "none"
    Horizon <- MCHorizon
SPECIFICATION Spec
INVARIANTS
    TypeOK
    AlertsAreCurrent
    IngestNeverBlocked
