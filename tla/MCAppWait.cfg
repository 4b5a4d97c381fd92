SPECIFICATION SystemSpec
CONSTANTS
  Foci = {"app"}
  ExecutorSizes = {1, 3}
  Producers = {"goal", "players"}
  Requests = {"goal"}
  Unknown = {"other"}
  AnswersOf <- AnswerTypes
  Served = {"goal"}
  DrainOrder <- AnswerOrder
  MaxPackets = 2
  MaxChanges = 2
  MaxLives = 2
  Players = {player}
  Addons = {}
  Topics = {topic}
  NoTopic = NoTopic
  CommandKinds = {"query", "stats"}
  AddonKinds = {}
  BridgeTypes = {"network"}
  MaxRequests = 2
  MaxEvents = 1
  MaxConnections = 1
  MaxWorlds = 2
  Endpoints = {"e1", "e2"}
  Kinds = {"echo"}
  NoCommand = "none"
  Modes = {TRUE, FALSE}
  InactivityTimeout = 1
  HandleTime = 1
  MaxQueue = 1
  Hosts = {"run", "wait", "jni"}
  MaxRuns = 2
  Threads = 2
  RequestIds = {1, 2}
  Actions = {"spin", "dock"}
  Types = {"Spin", "Dock"}
  NoType = "none"
  Commands <- GoalCommands
  MaxCommands = 2
  OtherNodes = {"action"}
  CallIds = {1, 2}
  Services = {"a", "b"}
  ServiceTypes = {"t1", "t2"}
  NoServiceType = "none"
  CallCommands <- Calls
  CallTimeout = 2
  MaxCalls = 3
  FrameCount = 2
  IncomingKinds = {"command"}
  OutgoingKinds = {"payload"}
  MaxWaiting = 2
CHECK_DEADLOCK FALSE
PROPERTY
  RequestWakesWaiter
