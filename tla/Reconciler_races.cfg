CONSTANTS
    NoTick = NoTick
    Writers = {"bad", "opt"}
    Loop = "loop"
    Values = {0, 1, 2}
    Stages = {"propagation", "fruiting"}
    NoStage = "none"
    MaxFaults = 1
    MaxEdits = 0
    MaxRetires = 0
    MaxRetries = 2
    PartSeq <- MCPartSeq
    Kind <- MCKind
    Edit <- MCEdit
    Toml <- MCToml
    Refused <- MCRefused
    Targets <- MCTargets
    Envelope <- MCEnvelope
SPECIFICATION Spec
INVARIANTS TypeOK DeliveredRevisionWasAccepted RevisionIsMine
PROPERTY KeepsIntent
