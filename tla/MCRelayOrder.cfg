SPECIFICATION RelaySpec
CONSTANTS
  Foci = {"echo"}
  a = a
  b = b
  t1 = t1
  t2 = t2
  q1 = q1
  q2 = q2
  none = none
  Topics = {a, b}
  EmptyTopic = all
  Types = {t1, t2}
  NoType = none
  QosProfiles = {q1, q2}
  KnownQos = {q1}
  RequestIds = {1, 2}
  SubscribeCmds <- LastingSubscribes
  UnsubscribeCmds <- OneUnsubscribe
  PublishCmds <- NoCommands
  IdReuse = FALSE
  MaxQueue = 2
  MaxPayloads = 1
INVARIANT
  LastCommandStands
CHECK_DEADLOCK FALSE
