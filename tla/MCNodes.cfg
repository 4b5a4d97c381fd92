SPECIFICATION Spec
CONSTANTS
  None = None
  Foci = {"stats", "params", "fair params", "yaml", "cache", "codec", "queries"}
  Modes <- StatsModes
  Topics = {"t"}
  NoTopic = "none"
  MsgTypes = {"a", "b"}
  NoType = "none"
  StampedTypes = {"a"}
  StatsCommands <- Measures
  Times = {0, 1}
  Sizes = {1}
  NoSession = None
  MaxRequests = 3
  MaxMessages = 3
  NoTimer = 0
  ParamKinds = {"list", "get", "set", "describe", "dump", "load"}
  Params = {"p"}
  ParamTasks <- TasksOfClients
  NoParamTask = None
  MaxParamTasks = 2
  MaxChanges = 2
  MaxQueries = 1
  MaxTimers = 2
  Asked <- Questions
  Nodes <- Talkers
  Endpoints <- Ends
  HiddenPieces = {"_log", "/_action/send_goal"}
  Interfaces <- Resources
  MaxGraphChanges = 1
  MaxQuestions = 2
CHECK_DEADLOCK FALSE
INVARIANTS
  StatsTell
  ParamAnswersTell
  OwnParametersWin
  SnapshotsServe
  CodecAgrees
  QueriesTell
PROPERTY
  NodesSettle
