CONSTANTS
    Requests = {"lift", "cut", "flip", "zone", "none"}
    Values = {0, 1, 2, 3}
    Cap = 2
    Sections <- MCSections
    Fields <- MCFields
    Section <- MCSection
    Patch <- MCPatch
    Valid <- MCValid
    Boot <- MCBoot
SPECIFICATION FairSpec
INVARIANTS
    TypeOK
    ConfigValid
PROPERTIES
    Implements
    WritesTakeEffect
    SendsFinish
