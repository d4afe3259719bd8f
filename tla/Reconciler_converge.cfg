CONSTANTS
    NoTick = NoTick
    Writers = {"prof"}
    Loop = "loop"
    Values = {0, 1}
    Stages = {"propagation", "fruiting"}
    NoStage = "none"
    MaxFaults = 1
    MaxEdits = 1
    MaxRetires = 1
    MaxRetries = 4
    PartSeq <- MCPartSeq
    Kind <- MCKind
    Edit <- MCEdit
    Toml <- MCToml
    Refused <- MCRefused
    Targets <- MCTargets
    Envelope <- MCEnvelope
SPECIFICATION FairSpec
INVARIANT NoOrphans
PROPERTIES Converges Settles SyncIsStable
