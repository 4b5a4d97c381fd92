SPECIFICATION RelaySpec
CONSTANTS
  Foci = {"echo", "streams"}
  a = a
  b = b
  t1 = t1
  t2 = t2
  q1 = q1
  q2 = q2
  none = none
  Topics = {a, b}
  EmptyTopic = all
  Types = {t1, t2}
  NoType = none
  QosProfiles = {q1, q2}
  KnownQos = {q1}
  RequestIds = {1, 2, 3}
  SubscribeCmds <- EchoSubscribes
  UnsubscribeCmds <- EchoUnsubscribes
  PublishCmds <- NoCommands
  IdReuse = FALSE
  MaxQueue = 2
  MaxPayloads = 2
CHECK_DEADLOCK FALSE
INVARIANTS
  TypeOK
  NoIdleSubscription
  NoOrphanTimer
  IndexAgrees
  OnceHasOneOutcome
  StreamHasPublisher
  StreamBudget
PROPERTIES
  SilentAfterTimeout
  EchoServiceSpec
