SPECIFICATION Spec
CONSTANTS
  Clients = {c1, c2, c3}
  Sockets = {s1, s2, s3}
  NoClient = NoClient
  NoSocket = NoSocket
  NoTimer = NoTimer
  Base = 1
  Limit = 5
  MaxAttempts = 3
  Fields = {"lo", "hi"}
  Values = {1, 2, 3}
  Bands <- MCBands
  Refused <- MCRefused
  Interval = 1
  MaxWrites = 2
  MaxFails = 1
  NoEdit = NoEdit
  NoRead = NoRead
  Asked = Asked
  Lo = 0
  Hi = 4
  Margin = 1
  Default = 2
  Typed = {0, 3}
  Existing <- MCExisting
  MaxStages = 2
  MaxZones = 2
  MaxEdits = 3
  NoBound = NoBound
  NoFlight = NoFlight
  Libraries <- MCLibraries
  None = None
  OnDemand = {"a"}
  Scheduled = Scheduled
  Last = 4
  MaxChanges = 2
  NoData = NoData
  NoPlan = NoPlan
  Sites = {"a"}
  NoSite = NoSite
  NoCall = NoCall
  NoList = NoList
  AskedList = AskedList
  MaxRegistry = 2
  MaxMisses = 3
INVARIANTS
  TypeOK
  OneLiveSocket ShownIsMine NeverStranded BacksOff
  AnswerClosesOwnDialog SentIsEnveloped
  StageOfProfile UntouchedShowsAssignment ShownStageExists MarkerWhereItStopped
PROPERTIES
  ListNeverFallsBack NoFallBack FormFollows AnswerIsForItsForm Reconnects
