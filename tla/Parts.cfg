SPECIFICATION MCSpec
CHECK_DEADLOCK FALSE
CONSTANTS
  Reqs = {q1, q2}
  Clients <- MCClients
  NoOne = NoOne
  MaxParts = 2
  Cmds = {c1, c2}
  Requests <- MCRequests
  Buttons = {"left", "right", "wheelup"}
  Names = {"left", "right", "Right", "wheelup"}
  Lower <- MCLower
  Left = "left"
  Wheels = {"wheelup"}
  MaxSteps = 3
  MaxEvents = 1
  EmKinds = {"char", "wide", "hint", "save", "repeat", "irmOn", "modeOn", "query", "reset", "first", "last"}
  EmMaxItems = 3
  EmMaxResize = 1
  EmQueueCap = 2
  RecBytes = {"x", "y"}
  RecMarker <- MCMarker
  RecMaxOut = 4
  RecWait = 2
  RecTimeout = 3
  RecEnd = 4
  BrPictures = {"p", "q"}
  BrPeriod = 2
  BrMaxFrames = 3
  BrDuration = 3
  BrWait = 2
  BrTimeout = 2
  BrMaxOut = 2
  BrEnd = 4
  TmPlatforms = {"unix", "windows"}
  TmClosers = {t1, t2}
  TmMaxOut = 2
  TmNames = {"TERM", "X", "x", "PROMPT"}
  TmFold <- MCFold
  TmValues = {"1", "2", "old"}
  TmInherited <- MCInherited
  TmExtras <- MCExtras
  StIds = {s1, s2}
  StMaxOps = 3
  LgMaxSize = 2
  LgMaxBackups = 3
  LgSizes = {1, 2, 3}
  LgMaxLines = 6
  UpPlatforms = {"unix", "windows"}
  UpMaxRuns = 3
INVARIANTS
  PictureIsWhole PictureIsOwn WaiterIsReleased
  AnswerIsTrue MouseAgrees
  StreamIntact AnswersKept
  ReasonIsTrue
  BrowserReasonIsTrue PlaysAsLong
  HandlesReleased TailIsRead EnvSaysLast
  StoreSurvives
  LogKeepsLast
  BinaryIsWhole
PROPERTY BareUpReleases
