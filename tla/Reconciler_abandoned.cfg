CONSTANTS
    NoTick = NoTick
    Writers = {"op", "op2"}
    Loop = "loop"
    Values = {0, 1, 2}
    Stages = {"propagation", "fruiting"}
    NoStage = "none"
    MaxFaults = 0
    MaxEdits = 0
    MaxRetires = 0
    MaxRetries = 2
    PartSeq <- MCPartSeq
    Kind <- MCKind
    Edit <- MCEdit
    Toml <- MCToml
    Refused <- MCRefused
    Targets <- MCTargets
    Envelope <- MCEnvelope
SPECIFICATION Spec
INVARIANT AnsweringControllerNotAbandoned
