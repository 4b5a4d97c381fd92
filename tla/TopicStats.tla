------------------------------- MODULE TopicStats ------------------------------
(***************************************************************************)
(* TopicStatsNode (nodes/ros/topic/stats.cpp): sessions that measure the   *)
(* rate, the bandwidth or the delay of a topic over a window of messages.  *)
(* A session belongs to a topic and a mode, not to a client: a second      *)
(* command for the same two takes it over.  The callbacks of the node      *)
(* exclude each other, commands arrive at any time.                        *)
(***************************************************************************)
EXTENDS Integers, Sequences, FiniteSets, FiniteSetsExt, SequencesExt

CONSTANTS
  Modes,          \* of "hz", "bw", "delay", in the order they are drained
  Topics,
  NoTopic,        \* the empty name
  MsgTypes,
  NoType,         \* the empty name
  StampedTypes,   \* the types with a stamp the node can read
  StatsCommands,  \* the commands used: [mode, topic, type, window, wall_time]
  Times,          \* readings of a clock
  Sizes,          \* of messages, or delays
  NoSession,
  MaxRequests,    \* bound: commands
  MaxMessages     \* bound: messages a session receives

ASSUME StatsAssumption ==
  /\ StatsCommands \subseteq [mode : Range(Modes), topic : Topics \cup {NoTopic}, type : MsgTypes \cup {NoType},
                             window : Nat, wall_time : BOOLEAN]
  /\ NoTopic \notin Topics
  /\ Times \subseteq Nat

VARIABLES
  stats_queue,    \* mode -> waiting commands
  stats_stop_all, \* waiting TopicStatsStopAllCmd
  stats_phase,    \* "idle", a mode that is being drained, or "stopAll"
  sessions_,      \* <<mode, topic>> -> session
  stats_sent,     \* what the last step sent: reports and errors
  requests,       \* history: commands so far
  ended,          \* history: requests whose session has been stopped or taken over
  received        \* history: <<mode, topic>> -> messages since its last start

nodeVars == <<sessions_, stats_sent, ended, received>>
stats_vars == <<stats_queue, stats_stop_all, stats_phase, nodeVars, requests>>

Keys == Range(Modes) \X Topics

\* A command in the queue of its mode, numbered as it was sent.
StatsCmd ==
  [request : Nat, topic : Topics \cup {NoTopic}, type : MsgTypes \cup {NoType}, window : Nat, wall_time : BOOLEAN]
StatsSession ==
  [request : Nat, type : MsgTypes, window : Nat \ {0}, wall_time : BOOLEAN,
   timestamps : Seq(Times), samples : Seq(Sizes)]

StatsTypeOK ==
  /\ requests \in Nat
  /\ stats_queue \in [Range(Modes) -> Seq(StatsCmd)]
  /\ sessions_ \in [Keys -> StatsSession \cup {NoSession}]
  /\ received \in [Keys -> Seq(Sizes)]
  /\ ended \subseteq Nat

StatsInit ==
  /\ stats_queue = [m \in Range(Modes) |-> <<>>]
  /\ stats_stop_all = 0
  /\ stats_phase = "idle"
  /\ sessions_ = [k \in Keys |-> NoSession]
  /\ stats_sent = {}
  /\ requests = 0
  /\ ended = {}
  /\ received = [k \in Keys |-> <<>>]

Session(cmd, type) ==
  [request |-> cmd.request, type |-> type, window |-> cmd.window,
   wall_time |-> cmd.wall_time, timestamps |-> <<>>, samples |-> <<>>]

SendError(cmd) == {[request |-> cmd.request, count |-> 0, total |-> 0, elapsed |-> 0]}

-----------------------------------------------------------------------------
Numbered(request, cmd) ==
  [request |-> request, topic |-> cmd.topic, type |-> cmd.type, window |-> cmd.window, wall_time |-> cmd.wall_time]

\* Commands arrive from the handlers.
ReceiveStats(cmd) ==
  /\ requests < MaxRequests
  /\ requests' = requests + 1
  /\ stats_queue' = [stats_queue EXCEPT ![cmd.mode] = Append(@, Numbered(requests + 1, cmd))]
  /\ stats_sent' = {}
  /\ UNCHANGED <<stats_stop_all, stats_phase, sessions_, ended, received>>

\* The network bridge has pruned its last client.
ReceiveStopAll ==
  /\ requests < MaxRequests
  /\ requests' = requests + 1
  /\ stats_stop_all' = stats_stop_all + 1
  /\ stats_sent' = {}
  /\ UNCHANGED <<stats_queue, stats_phase, sessions_, ended, received>>

-----------------------------------------------------------------------------
\* sessions_ without some of them.
Erase(keys) ==
  /\ sessions_' = [k \in Keys |-> IF k \in keys THEN NoSession ELSE sessions_[k]]
  /\ ended' = ended \cup {sessions_[k].request : k \in {j \in keys : sessions_[j] # NoSession}}
  /\ stats_sent' = {}
  /\ UNCHANGED received

StopSession(key) == Erase({key})
StopSessionsByMode(mode) == Erase({mode} \X Topics)
StopAllSessions == Erase(Keys)

Refuse(cmd) == stats_sent' = SendError(cmd) /\ UNCHANGED <<sessions_, ended, received>>

\* The type of the command, of the session, or of the first publisher or
\* subscriber found on the topic, if any.
ResolvedTypes(cmd, key) ==
  IF cmd.type # NoType THEN {cmd.type}
  ELSE IF sessions_[key] # NoSession THEN {sessions_[key].type}
  ELSE MsgTypes \cup {NoType}

\* A session that exists already gets the new request and starts anew.
Restart(key, cmd) ==
  /\ sessions_' = [sessions_ EXCEPT ![key] = Session(cmd, sessions_[key].type)]
  /\ ended' = ended \cup {sessions_[key].request}
  /\ received' = [received EXCEPT ![key] = <<>>]
  /\ stats_sent' = {}

\* Creating the subscription may fail.
CreateSession(key, cmd, type) ==
  \/ Refuse(cmd)
  \/ /\ sessions_' = [sessions_ EXCEPT ![key] = Session(cmd, type)]
     /\ received' = [received EXCEPT ![key] = <<>>]
     /\ stats_sent' = {}
     /\ UNCHANGED ended

Start(key, cmd, type) ==
  IF sessions_[key] = NoSession THEN CreateSession(key, cmd, type)
  ELSE IF sessions_[key].type # type THEN Refuse(cmd)
  ELSE Restart(key, cmd)

\* A delay can be measured of messages with a header only.
Measurable(mode, type) == type # NoType /\ (mode = "delay" => type \in StampedTypes)

StartSession(mode, cmd) ==
  IF cmd.topic = NoTopic THEN IF cmd.window = 0 THEN StopSessionsByMode(mode) ELSE Refuse(cmd)
  ELSE IF cmd.window = 0 THEN StopSession(<<mode, cmd.topic>>)
  ELSE \E type \in ResolvedTypes(cmd, <<mode, cmd.topic>>) :
         IF Measurable(mode, type) THEN Start(<<mode, cmd.topic>>, cmd, type) ELSE Refuse(cmd)

StartHzSession(cmd) == StartSession("hz", cmd)
StartBwSession(cmd) == StartSession("bw", cmd)
StartDelaySession(cmd) == StartSession("delay", cmd)

-----------------------------------------------------------------------------
\* The drain timer: the modes one after the other, then the stop-alls.
PhaseAfter(phase) ==
  IF phase = "stopAll" THEN "idle"
  ELSE IF phase = Last(Modes) THEN "stopAll"
  ELSE Modes[1 + CHOOSE i \in DOMAIN Modes : Modes[i] = phase]

OnDrainTimer ==
  /\ stats_phase = "idle"
  /\ stats_phase' = Head(Modes)
  /\ stats_sent' = {}
  /\ UNCHANGED <<stats_queue, stats_stop_all, sessions_, ended, received, requests>>

DrainCommands(mode) ==
  /\ stats_phase = mode
  /\ stats_queue[mode] # <<>>
  /\ LET cmd == Head(stats_queue[mode])
     IN \/ mode = "hz" /\ StartHzSession(cmd)
        \/ mode = "bw" /\ StartBwSession(cmd)
        \/ mode = "delay" /\ StartDelaySession(cmd)
  /\ stats_queue' = [stats_queue EXCEPT ![mode] = Tail(@)]
  /\ UNCHANGED <<stats_stop_all, stats_phase, requests>>

DrainStopAllCommands ==
  /\ stats_phase = "stopAll"
  /\ stats_stop_all > 0
  /\ stats_stop_all' = stats_stop_all - 1
  /\ StopAllSessions
  /\ UNCHANGED <<stats_queue, stats_phase, requests>>

QueueDrained ==
  /\ stats_phase # "idle"
  /\ IF stats_phase = "stopAll" THEN stats_stop_all = 0 ELSE stats_queue[stats_phase] = <<>>
  /\ stats_phase' = PhaseAfter(stats_phase)
  /\ stats_sent' = {}
  /\ UNCHANGED <<stats_queue, stats_stop_all, sessions_, ended, received, requests>>

Latest(seq, n) == SubSeq(seq, IF Len(seq) > n THEN Len(seq) - n + 1 ELSE 1, Len(seq))

\* Mutant: the size of a message that leaves the window stays.
TrimTimesOnly(s) == [s EXCEPT !.timestamps = Latest(s.timestamps, s.window)]

\* The messages that fit the window.
Trim(s) == [s EXCEPT !.timestamps = Latest(s.timestamps, s.window), !.samples = Latest(s.samples, s.window)]

\* A session on the wall clock reads a steady clock, others the ROS clock,
\* which may be set back.  Of a delay, which is measured unless the message has
\* no readable stamp, no time is kept.
HandleMessage(key, at, sample) ==
  LET s == sessions_[key]
  IN /\ stats_phase = "idle"
     /\ s # NoSession
     /\ Len(received[key]) < MaxMessages
     /\ key[1] = "delay" => at = 0
     /\ s.wall_time /\ s.timestamps # <<>> => at >= Last(s.timestamps)
     /\ sessions_' = [sessions_ EXCEPT ![key] =
          Trim([s EXCEPT !.timestamps = Append(s.timestamps, at), !.samples = Append(s.samples, sample)])]
     /\ received' = [received EXCEPT ![key] = Append(@, sample)]
     /\ stats_sent' = {}
     /\ UNCHANGED <<stats_queue, stats_stop_all, stats_phase, ended, requests>>

\* Rates need two messages and time between them.
Reportable(key) ==
  LET s == sessions_[key]
  IN /\ s # NoSession
     /\ IF key[1] = "delay" THEN s.timestamps # <<>>
        ELSE Len(s.timestamps) >= 2 /\ Last(s.timestamps) > Head(s.timestamps)

Total(samples) == FoldSeq(LAMBDA a, b : a + b, 0, samples)

Report(key) ==
  LET s == sessions_[key]
  IN [request |-> s.request, count |-> Len(s.timestamps), total |-> Total(s.samples),
      elapsed |-> Last(s.timestamps) - Head(s.timestamps)]

ReportStats ==
  /\ stats_phase = "idle"
  /\ stats_sent' = {Report(k) : k \in {j \in Keys : Reportable(j)}}
  /\ UNCHANGED <<stats_queue, stats_stop_all, stats_phase, sessions_, ended, received, requests>>

Drain == OnDrainTimer \/ QueueDrained \/ DrainStopAllCommands \/ \E m \in Range(Modes) : DrainCommands(m)

StatsNext ==
  \/ \E cmd \in StatsCommands : ReceiveStats(cmd)
  \/ ReceiveStopAll
  \/ Drain
  \/ \E k \in Keys, at \in Times, sample \in Sizes : HandleMessage(k, at, sample)
  \/ ReportStats

StatsSpec == StatsInit /\ [][StatsNext]_stats_vars

StatsFairSpec == StatsSpec /\ WF_stats_vars(Drain) /\ SF_stats_vars(ReportStats)

-----------------------------------------------------------------------------
Reports == {r \in stats_sent : r.count > 0}

\* A report counts the latest messages since the request it is for, as many as
\* the window holds, and nothing that was measured for an earlier one, whoever
\* took the session over and however often the window changed.
ReportsTell ==
  \A r \in Reports : \E k \in Keys :
    /\ sessions_[k] # NoSession /\ sessions_[k].request = r.request
    /\ LET window == Latest(received[k], sessions_[k].window)
       IN /\ r.count = Len(window)
          /\ r.total = Total(window)
          /\ k[1] = "delay" \/ r.elapsed > 0

\* Nothing is sent any more for a request whose session was stopped, alone, with
\* its mode, or with all of them, or that another request took over.
SilentOnceEnded == \A r \in stats_sent : r.request \notin ended

\* A report counts what its window holds of the messages since the request it is
\* for, and none is sent for a request that ended.
StatsTell == StatsTypeOK /\ ReportsTell /\ SilentOnceEnded

\* A session that has enough to report does so, unless it ends or loses it.
StatsSettled ==
  \A k \in Keys : Reportable(k) => \E report \in Reports : report.request = sessions_[k].request

===============================================================================
